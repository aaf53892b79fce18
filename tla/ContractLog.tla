------------------------------ MODULE ContractLog ------------------------------
(***************************************************************************)
(* The two Ethereum contracts as the synchronizer of the API server sees   *)
(* them: a log of events in numbered blocks, and the roles an account has  *)
(* at this moment.  External to the server; the actions are the calls of   *)
(* NetEmissionsTokenNetwork and CarbonTracker that emit events which the   *)
(* server handles, one transaction in a block.                             *)
(*                                                                         *)
(* A mint is of two units, a movement of one, so that a holder can keep a  *)
(* part; audited emissions are retired whole when they are issued.         *)
(***************************************************************************)
EXTENDS Integers, Sequences, FiniteSetsExt

CONSTANTS Account,    \* addresses other than the zero address
          Burn,       \* the zero address
          TokenId,    \* ids of NetEmissionsTokenNetwork, numbers
          TrackerId,  \* ids of CarbonTracker, numbers, none of them in TokenId
          Role,
          FirstBlock, \* LEDGER_FIRST_BLOCK
          MaxBlock,   \* bound on the blocks mined
          MaxEvents   \* bound on the events emitted

ASSUME ContractAssumption ==
  /\ IsFiniteSet(Account) /\ Burn \notin Account
  /\ TokenId \subseteq Nat /\ TrackerId \subseteq Nat /\ TokenId \cap TrackerId = {}
  /\ FirstBlock \in Nat /\ MaxBlock \in Nat /\ MaxEvents \in Nat

VARIABLES height,  \* the number of the last block
          log,     \* the events, in order
          roles    \* account -> its roles in the contract now

chainVars == <<height, log, roles>>

\* "transfer": TransferSingle of either contract; "created": TokenCreated or
\* TrackTokens; "role": any of the events that name an account whose roles changed.
EventKind == {"transfer", "created", "role"}
Event == [kind : EventKind, id : TokenId \cup TrackerId \cup {0},
          from : Account \cup {Burn}, to : Account \cup {Burn},
          amount : 0 .. 2, block : Nat]

Transfer(id, from, to, n) == [kind |-> "transfer", id |-> id, from |-> from, to |-> to, amount |-> n]
Created(id) == [kind |-> "created", id |-> id, from |-> Burn, to |-> Burn, amount |-> 0]
RoleEvent(a) == [kind |-> "role", id |-> 0, from |-> Burn, to |-> a, amount |-> 0]

IsMint(e) == e.kind = "transfer" /\ e.from = Burn
IsRetirement(e) == e.kind = "transfer" /\ e.to = Burn
OfTracker(e) == e.id \in TrackerId

InBlock(e, b) == [kind |-> e.kind, id |-> e.id, from |-> e.from, to |-> e.to,
                  amount |-> e.amount, block |-> b]

\* What account a has of an id when the events in S have happened.
Net(S, id, a) ==
  LET of == {i \in S : log[i].kind = "transfer" /\ log[i].id = id}
      Gain(i) == (IF log[i].to = a THEN log[i].amount ELSE 0)
                 - (IF log[i].from = a THEN log[i].amount ELSE 0)
  IN  SumFunction([i \in of |-> Gain(i)])

Holds(id, a) == Net(DOMAIN log, id, a) > 0
Issued(ids) == {id \in ids : \E i \in DOMAIN log : log[i] = InBlock(Created(id), log[i].block)}
NextId(ids) == {id \in ids \ Issued(ids) : \A j \in ids : j < id => j \in Issued(ids)}

-----------------------------------------------------------------------------
ChainInit ==
  /\ height = FirstBlock
  /\ log = <<>>
  /\ roles = [a \in Account |-> {}]

Mine(events) ==
  /\ height < MaxBlock
  /\ Len(log) + Len(events) <= MaxEvents
  /\ height' = height + 1
  /\ log' = log \o [i \in DOMAIN events |-> InBlock(events[i], height + 1)]

\* issue: the mint is emitted before TokenCreated; audited emissions are retired in between.
IssueToken(id, a) ==
  /\ id \in NextId(TokenId)
  /\ \/ Mine(<<Transfer(id, Burn, a, 2), Created(id)>>)
     \/ Mine(<<Transfer(id, Burn, a, 2), Transfer(id, a, Burn, 2), Created(id)>>)
  /\ UNCHANGED roles

\* mint: more of an existing token.
MintMore(id, a) == id \in Issued(TokenId) /\ Mine(<<Transfer(id, Burn, a, 2)>>) /\ UNCHANGED roles

\* transfer and retire, and the ERC-1155 transfers of either contract.
Move(id, a, b) ==
  /\ a # b /\ Holds(id, a)
  /\ Mine(<<Transfer(id, a, b, 1)>>)
  /\ UNCHANGED roles

\* track creates a tracker, issue of CarbonTracker mints it once.
Track(id) == id \in NextId(TrackerId) /\ Mine(<<Created(id)>>) /\ UNCHANGED roles
IssueTracker(id, a) ==
  /\ id \in Issued(TrackerId)
  /\ \A i \in DOMAIN log : ~(log[i].id = id /\ IsMint(log[i]))
  /\ Mine(<<Transfer(id, Burn, a, 1)>>)
  /\ UNCHANGED roles

ChangeRoles(a, granted) ==
  /\ granted # roles[a]
  /\ Mine(<<RoleEvent(a)>>)
  /\ roles' = [roles EXCEPT ![a] = granted]

\* A block without events for the server.
MineOther == Mine(<<>>) /\ UNCHANGED roles

ChainNext ==
  \/ \E id \in TokenId, a \in Account : IssueToken(id, a) \/ MintMore(id, a)
  \/ \E id \in TokenId, a \in Account, b \in Account \cup {Burn} : Move(id, a, b)
  \/ \E id \in TrackerId, a, b \in Account : Move(id, a, b)
  \/ \E id \in TrackerId : Track(id) \/ \E a \in Account : IssueTracker(id, a)
  \/ \E a \in Account, granted \in SUBSET Role : ChangeRoles(a, granted)
  \/ MineOther
=============================================================================
