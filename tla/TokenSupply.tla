----------------------------- MODULE TokenSupply -----------------------------
(***************************************************************************)
(* What the token contract promises about the supply of its tokens, with   *)
(* holders, roles and modes left out: ids are handed out in order, what    *)
(* was issued as an audited emission is retired at once, the amount that   *)
(* is available changes by minting and retiring only, and what is retired  *)
(* stays so.                                                               *)
(***************************************************************************)
EXTENDS Naturals

CONSTANTS TokenId,     \* the ids a token can have, and 0, which none is given
          Amount,      \* the amounts calls are made with
          MaxSupply    \* bound on the supply of an id

VARIABLES count,       \* the number of tokens issued, the latest one's id
          kind,        \* id -> token type, 0 before it is issued
          available,   \* id -> the amount in circulation
          retired      \* id -> the amount retired

supplyVars == <<count, kind, available, retired>>

AuditedEmissions == 3

SupplyInit ==
  /\ count = 0
  /\ kind = [id \in TokenId |-> 0]
  /\ available = [id \in TokenId |-> 0]
  /\ retired = [id \in TokenId |-> 0]

Fits(id, q) == available[id] + retired[id] + q <= MaxSupply

IssueSupply(type, q) ==
  LET id == count + 1
  IN /\ id \in TokenId
     /\ Fits(id, q)
     /\ count' = id
     /\ kind' = [kind EXCEPT ![id] = type]
     /\ IF type = AuditedEmissions
        THEN retired' = [retired EXCEPT ![id] = @ + q] /\ UNCHANGED available
        ELSE available' = [available EXCEPT ![id] = @ + q] /\ UNCHANGED retired

\* More of an issued token, or of the id 0 that no token has.
MintSupply(id, q) ==
  /\ id <= count
  /\ Fits(id, q)
  /\ available' = [available EXCEPT ![id] = @ + q]
  /\ UNCHANGED <<count, kind, retired>>

RetireSupply(id, q) ==
  /\ id <= count
  /\ q <= available[id]
  /\ available' = [available EXCEPT ![id] = @ - q]
  /\ retired' = [retired EXCEPT ![id] = @ + q]
  /\ UNCHANGED <<count, kind>>

SupplyNext ==
  \/ \E type \in 1..3, q \in Amount : IssueSupply(type, q)
  \/ \E id \in TokenId, q \in Amount : MintSupply(id, q) \/ RetireSupply(id, q)

SupplySpec == SupplyInit /\ [][SupplyNext]_supplyVars
=============================================================================
