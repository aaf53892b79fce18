----------------------------- MODULE MCSynchronizer -----------------------------
(* One token, one tracker, two accounts and a few blocks, windows of one block. *)
EXTENDS Synchronizer, TLC

MCTokens == {1}
MCTrackers == {11}
=============================================================================
