---------------------------- MODULE MCGovernance ----------------------------
(* Two holders of 40 tokens; the initial holder, who is the guardian, has not     *)
(* delegated yet.  A proposer locks 20 and alone misses the quorum.               *)
EXTENDS Governance, TLC

CONSTANTS holder, alice

Grants == alice :> 40
=============================================================================
