---------------------------- MODULE MCEventListener ----------------------------
(* One token and one handler beside the one that processes the queue: handlers do not overlap. *)
EXTENDS EventListener, TLC

MCTokens == {1}
MCTrackers == {}
=============================================================================
