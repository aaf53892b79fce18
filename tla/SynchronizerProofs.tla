-------------------------- MODULE SynchronizerProofs ---------------------------
(***************************************************************************)
(* Proofs about Synchronizer, for any accounts, ids, windows and number of *)
(* failures: the saved block is a promise (NothingSkipped), and a wallet   *)
(* has the roles of the contract once the events that tell of them are     *)
(* synchronised (RolesFollow).  The inductive invariant SyncInv says how   *)
(* far a pass has come: every event before the window, and the part of the *)
(* window that it has seen, is handled or in its hands.                    *)
(*                                                                         *)
(* And what the tables hold: the rows of a token agree with its totals     *)
(* (SupplyMatches), the balance table mirrors the contract (MirrorExact),  *)
(* and an event is handled again only where two windows meet               *)
(* (RepeatsExplained).  BookInv adds to SyncInv the order of the events,   *)
(* where the handler stands with the event in hand, and which rows are     *)
(* there; SupplyOK and MirrorOK count what it has written ahead of it.     *)
(***************************************************************************)
EXTENDS Synchronizer, FiniteSums, SequenceTheorems

IsPass(p) ==
  p = [at |-> p.at, from |-> p.from, to |-> p.to, current |-> p.current, next |-> p.next,
       found |-> p.found, synced |-> p.synced, account |-> p.account, read |-> p.read, boot |-> p.boot]
IsCall(d) == d = [event |-> d.event, at |-> d.at, wrote |-> d.wrote]

Busy(h) == call[h] # NoCall
Tells(i, a) == log[i].kind = "role" /\ log[i].to = a

\* The log is of blocks that were mined, and a role was told when it was given.
LogOK ==
  /\ log \in Seq(Event) /\ Len(log) <= MaxEvents
  /\ height \in Nat /\ height >= FirstBlock
  /\ \A i \in DOMAIN log : log[i].block > FirstBlock /\ log[i].block <= height
  /\ roles = [a \in Account |-> roles[a]]
  /\ \A a \in Account : (\A i \in DOMAIN log : ~Tells(i, a)) => roles[a] = {}

CountsOK ==
  /\ hardhat \in BOOLEAN
  /\ applied = [i \in 1 .. MaxEvents |-> applied[i]]
  /\ \A i \in 1 .. MaxEvents : applied[i] \in Nat
  /\ walletRoles = [a \in Account |-> walletRoles[a]]

SavedOK ==
  /\ lastSync \in Nat \cup {None}
  /\ lastSync # None => lastSync <= height /\ (~hardhat => lastSync >= FirstBlock)

Preparing == pass.at \in {"trackers", "tokens", "block"}
InWindow == pass.at \in {"net", "tracker", "roles"}

PassOK ==
  /\ IsPass(pass)
  /\ pass.boot \in BOOLEAN
  /\ pass.at \in {"down", "idle"} \/ Preparing \/ InWindow
  /\ ~Running => ~pass.boot
  /\ Running => /\ pass.from \in Nat /\ pass.from <= height + 1
                /\ ~hardhat => pass.from >= FirstBlock
  /\ Preparing => /\ pass.found = {} /\ pass.synced = {}
                  /\ hardhat /\ pass.boot => pass.from = 0
  /\ InWindow => /\ pass.to \in Nat /\ pass.current \in Nat /\ pass.next \in Nat
                 /\ pass.from <= pass.to /\ pass.to <= pass.current /\ pass.current <= height
                 /\ pass.to \in {pass.current, pass.from + Interval}
                 /\ lastSync # None => lastSync <= pass.current
  /\ pass.at # "roles" => pass.account = None

CallOK ==
  /\ call = [h \in Worker |-> call[h]]
  /\ IsCall(call[Sync])
  /\ Busy(Sync) => pass.at \in {"net", "tracker"} /\ call[Sync].event \in DOMAIN log

\* The events of the window that the pass has seen, in either of its two rounds.
Seen(i) ==
  /\ log[i].block \in pass.from .. pass.to
  /\ \/ pass.at = "net" /\ ~OfTracker(log[i]) /\ i < pass.next
     \/ pass.at = "tracker" /\ (~OfTracker(log[i]) \/ i < pass.next)
     \/ pass.at = "roles"

SkipOK ==
  /\ NothingSkipped
  /\ Running => \A i \in DOMAIN log : log[i].block < pass.from => applied[i] > 0
  /\ InWindow => \A i \in DOMAIN log :
       Seen(i) => applied[i] > 0 \/ (Busy(Sync) /\ call[Sync].event = i)

\* Whether all that was told of the roles of a was told by block b.
ToldBy(a, b) == \A i \in DOMAIN log : Tells(i, a) => log[i].block <= b
ToldBefore(a, b) == \A i \in DOMAIN log : Tells(i, a) => log[i].block < b

RolesOK ==
  /\ RolesFollow
  /\ Running => \A a \in Account : ToldBefore(a, pass.from) => walletRoles[a] = roles[a]
  /\ InWindow => \A i \in DOMAIN log :
       Seen(i) /\ log[i].kind = "role" => log[i].to \in pass.found
  /\ InWindow => \A a \in Account : ToldBy(a, pass.current) =>
       /\ a \in pass.synced => walletRoles[a] = roles[a]
       /\ pass.account = a => pass.read = roles[a]

SyncInv == LogOK /\ CountsOK /\ SavedOK /\ PassOK /\ CallOK /\ SkipOK /\ RolesOK

-----------------------------------------------------------------------------
(* The least event of a set, records without EXCEPT. *)

\* A set of numbers that is not empty has a least one.
LEMMA LeastEvent ==
  ASSUME NEW S \in SUBSET Nat, S # {}
  PROVE  Min(S) \in S /\ \A y \in S : Min(S) <= y
<1>1. PICK R : R = OpToRel(<, Nat)
  OBVIOUS
<1>2. IsWellFoundedOn(R, Nat)
  BY <1>1, NatLessThanWellFounded
<1>3. PICK x \in S : \A y \in S : ~(<<y, x>> \in R)
  BY <1>2, WFMin
<1>4. \A y \in S : y < x => <<y, x>> \in R
  BY <1>1 DEF OpToRel
<1>5. \A y \in S : x \in Nat /\ y \in Nat /\ ~(y < x)
  BY ONLY <1>3, <1>4, S \in SUBSET Nat, x \in S
<1>6. \A y \in S : x <= y
  BY <1>5
<1> QED BY <1>6 DEF Min

\* A pass that is not running, in or out of service.
LEMMA IdleIs ==
  /\ IsPass(Idle) /\ Idle.at = "idle" /\ Idle.boot = FALSE /\ Idle.account = None
  /\ IsPass(Down) /\ Down.at = "down" /\ Down.boot = FALSE /\ Down.account = None
<1>1. IsPass(Idle) /\ Idle.at = "idle" /\ Idle.boot = FALSE /\ Idle.account = None
  BY DEF Idle, IsPass
<1>2. Down = [Idle EXCEPT !.at = "down"]
  BY DEF Down
<1>3. IsPass(Down) /\ Down.at = "down" /\ Down.boot = Idle.boot /\ Down.account = Idle.account
  BY ONLY <1>1, <1>2 DEF IsPass
<1> QED BY <1>1, <1>3

\* A worker without an event.
LEMMA NoCallIs == IsCall(NoCall) /\ NoCall.at = "none"
  BY DEF NoCall, IsCall

\* The constants of the synchronizer.
LEMMA Constants ==
  /\ FirstBlock \in Nat /\ MaxEvents \in Nat /\ Interval \in Nat /\ Interval > 0
  /\ None \notin Nat /\ None \notin Account /\ Sync \in Worker
  BY ContractAssumption, SyncAssumption DEF Worker

\* The events of the log, by their number.
LEMMA Indices ==
  ASSUME LogOK
  PROVE  /\ Len(log) \in Nat /\ DOMAIN log = 1 .. Len(log)
         /\ \A i \in DOMAIN log : i \in Nat /\ i \in 1 .. MaxEvents /\ log[i] \in Event
                                  /\ log[i].block \in Nat
<1>1. Len(log) \in Nat /\ DOMAIN log = 1 .. Len(log) /\ Len(log) <= MaxEvents
  BY DEF LogOK
<1>2. \A i \in 1 .. Len(log) : log[i] \in Event
  BY DEF LogOK
<1>3. \A e \in Event : e.block \in Nat
  BY DEF Event
<1> QED BY <1>1, <1>2, <1>3, Constants

\* Where a pass starts: all before it was handled, if the saved block is good.
LEMMA SavedBlockIs ==
  ASSUME SavedOK, LogOK
  PROVE  /\ SavedBlock \in Nat /\ SavedBlock <= height /\ (~hardhat => SavedBlock >= FirstBlock)
         /\ SavedBlock = FirstBlock \/ SavedBlock = lastSync
         /\ \A i \in DOMAIN log : log[i].block < SavedBlock + 1 => Synced(i)
<1>0. \A i \in DOMAIN log : log[i].block \in Nat
  BY Indices
<1>1. CASE lastSync \in {None, 0}
  BY <1>0, <1>1, Constants DEF SavedBlock, LogOK, Synced, SavedOK
<1>2. CASE lastSync \notin {None, 0}
  BY <1>0, <1>2, Constants DEF SavedBlock, LogOK, Synced, SavedOK
<1> QED BY <1>1, <1>2

-----------------------------------------------------------------------------
(* The chain grows under the synchronizer's hands. *)

Draft == [kind : EventKind, id : TokenId \cup TrackerId \cup {0},
          from : Account \cup {Burn}, to : Account \cup {Burn}, amount : 0 .. 2]

\* A transaction adds its events, of a new block, at the end.
LEMMA MinedLog ==
  ASSUME LogOK, NEW events \in Seq(Draft), Mine(events)
  PROVE  /\ log' \in Seq(Event) /\ Len(log') <= MaxEvents /\ height' = height + 1
         /\ DOMAIN log \subseteq DOMAIN log' /\ \A i \in DOMAIN log : log'[i] = log[i]
         /\ \A i \in DOMAIN log' : i \in DOMAIN log \/ log'[i].block = height + 1
         /\ \A j \in DOMAIN events :
              \E i \in DOMAIN log' \ DOMAIN log : log'[i] = InBlock(events[j], height + 1)
<1>1. PICK t : t = [i \in DOMAIN events |-> InBlock(events[i], height + 1)]
  OBVIOUS
<1>2. height + 1 \in Nat
  BY DEF LogOK
<1>3. \A d \in Draft : InBlock(d, height + 1) \in Event /\ InBlock(d, height + 1).block = height + 1
  BY <1>2 DEF Draft, Event, InBlock
<1>4. DOMAIN events = 1 .. Len(events) /\ Len(events) \in Nat /\ \A i \in DOMAIN events : events[i] \in Draft
  OBVIOUS
<1>5. t \in Seq(Event) /\ Len(t) = Len(events)
      /\ \A i \in 1 .. Len(t) : t[i] = InBlock(events[i], height + 1)
  BY <1>1, <1>3, <1>4, IsASeq
<1>6. log' = log \o t /\ height' = height + 1 /\ Len(log) + Len(events) <= MaxEvents
  BY <1>1 DEF Mine
<1>7. /\ log' \in Seq(Event) /\ Len(log') = Len(log) + Len(t)
      /\ \A i \in 1 .. Len(log) + Len(t) : log'[i] = IF i <= Len(log) THEN log[i] ELSE t[i - Len(log)]
  <2>1. PICK l, m : l = log /\ m = log'
    OBVIOUS
  <2>2. l \in Seq(Event) /\ t \in Seq(Event) /\ m = l \o t
    BY <1>5, <1>6, <2>1 DEF LogOK
  <2>3. /\ m \in Seq(Event) /\ Len(m) = Len(l) + Len(t)
        /\ \A i \in 1 .. Len(l) + Len(t) : m[i] = IF i <= Len(l) THEN l[i] ELSE t[i - Len(l)]
    BY ONLY <2>2, ConcatProperties
  <2> QED BY ONLY <2>1, <2>3
<1>8. Len(log) \in Nat /\ DOMAIN log = 1 .. Len(log) /\ DOMAIN log' = 1 .. Len(log) + Len(t)
  BY <1>7 DEF LogOK
<1>9. \A i \in DOMAIN log : i \in DOMAIN log' /\ log'[i] = log[i]
  BY <1>4, <1>5, <1>7, <1>8
<1>10. ASSUME NEW i \in DOMAIN log', i \notin DOMAIN log PROVE log'[i].block = height + 1
  <2>1. i - Len(log) \in 1 .. Len(t) /\ log'[i] = t[i - Len(log)]
    BY <1>4, <1>5, <1>7, <1>8, <1>10
  <2> QED BY <2>1, <1>3, <1>4, <1>5
<1>11. ASSUME NEW j \in DOMAIN events
       PROVE  \E i \in DOMAIN log' \ DOMAIN log : log'[i] = InBlock(events[j], height + 1)
  <2>1. Len(log) + j \in DOMAIN log' \ DOMAIN log /\ log'[Len(log) + j] = t[j]
    BY <1>4, <1>5, <1>7, <1>8
  <2>2. t[j] = InBlock(events[j], height + 1)
    BY <1>1
  <2> QED BY <2>1, <2>2
<1> QED BY <1>4, <1>5, <1>6, <1>7, <1>9, <1>10, <1>11

\* The log after any transaction: more events, of a new block, one for every change of roles.
Grew ==
  /\ log' \in Seq(Event) /\ Len(log') <= MaxEvents /\ height' = height + 1
  /\ DOMAIN log \subseteq DOMAIN log' /\ \A i \in DOMAIN log : log'[i] = log[i]
  /\ \A i \in DOMAIN log' : i \in DOMAIN log \/ log'[i].block = height + 1
  /\ roles' = [a \in Account |-> roles'[a]]
  /\ \A a \in Account : roles'[a] # roles[a] =>
       \E i \in DOMAIN log' \ DOMAIN log : log'[i].kind = "role" /\ log'[i].to = a

\* Every transaction is one of these.
LEMMA ChainGrows == ASSUME LogOK, ChainNext PROVE Grew
<1>r. roles = [a \in Account |-> roles[a]]
  BY DEF LogOK
<1>b. Burn \in Account \cup {Burn} /\ Account \subseteq Account \cup {Burn}
  OBVIOUS
<1>1. ASSUME NEW events \in Seq(Draft), Mine(events), UNCHANGED roles PROVE Grew
  BY <1>1, <1>r, MinedLog DEF Grew
<1>2. \A id \in TokenId \cup TrackerId, a, b \in Account \cup {Burn}, n \in 0 .. 2 :
        Transfer(id, a, b, n) \in Draft
  BY DEF Draft, Transfer, EventKind
<1>3. \A id \in TokenId \cup TrackerId : Created(id) \in Draft
  BY DEF Draft, Created, EventKind
<1>4. \A a \in Account : RoleEvent(a) \in Draft
  BY DEF Draft, RoleEvent, EventKind
<1>5. ASSUME NEW id \in TokenId, NEW a \in Account, IssueToken(id, a) PROVE Grew
  <2>1. PICK x, y, z : x = Transfer(id, Burn, a, 2) /\ y = Transfer(id, a, Burn, 2) /\ z = Created(id)
    OBVIOUS
  <2>2. Transfer(id, Burn, a, 2) \in Draft
    BY DEF Draft, Transfer, EventKind
  <2>6. Transfer(id, a, Burn, 2) \in Draft
    BY DEF Draft, Transfer, EventKind
  <2>3. Created(id) \in Draft
    BY <1>3
  <2>4. x \in Draft /\ y \in Draft /\ z \in Draft
    BY <2>1, <2>2, <2>3, <2>6
  <2>5. <<x, z>> \in Seq(Draft) /\ <<x, y, z>> \in Seq(Draft)
    BY <2>4
  <2> QED BY <2>1, <2>5, <1>1, <1>5 DEF IssueToken
<1>6. ASSUME NEW x \in Draft, Mine(<<x>>), UNCHANGED roles PROVE Grew
  <2>1. <<x>> \in Seq(Draft)
    OBVIOUS
  <2> QED BY <2>1, <1>1, <1>6
<1>7. ASSUME NEW id \in TokenId, NEW a \in Account, MintMore(id, a) PROVE Grew
  BY <1>2, <1>6, <1>7 DEF MintMore
<1>8. ASSUME NEW id \in TokenId \cup TrackerId, NEW a \in Account, NEW b \in Account \cup {Burn}, Move(id, a, b)
      PROVE  Grew
  BY <1>2, <1>6, <1>8 DEF Move
<1>9. ASSUME NEW id \in TrackerId, Track(id) PROVE Grew
  BY <1>3, <1>6, <1>9 DEF Track
<1>10. ASSUME NEW id \in TrackerId, NEW a \in Account, IssueTracker(id, a) PROVE Grew
  BY <1>2, <1>6, <1>10 DEF IssueTracker
<1>11. ASSUME NEW a \in Account, NEW granted \in SUBSET Role, ChangeRoles(a, granted) PROVE Grew
  <2>1. PICK x : x = RoleEvent(a)
    OBVIOUS
  <2>2. x \in Draft /\ <<x>> \in Seq(Draft)
    BY <2>1, <1>4
  <2>3. Mine(<<x>>) /\ roles' = [roles EXCEPT ![a] = granted]
    BY <2>1, <1>11 DEF ChangeRoles
  <2>4. 1 \in DOMAIN <<x>> /\ <<x>>[1] = x
    OBVIOUS
  <2>5. PICK i \in DOMAIN log' \ DOMAIN log : log'[i] = InBlock(x, height + 1)
    BY <2>2, <2>3, <2>4, MinedLog
  <2>6. log'[i].kind = "role" /\ log'[i].to = a
    BY <2>1, <2>5 DEF InBlock, RoleEvent
  <2>7. \A b \in Account : roles'[b] # roles[b] => b = a
    BY <2>3, <1>r
  <2>8. roles' = [b \in Account |-> roles'[b]]
    BY <2>3, <1>r
  <2> QED BY <2>2, <2>3, <2>6, <2>7, <2>8, MinedLog DEF Grew
<1>12. ASSUME MineOther PROVE Grew
  <2>1. <<>> \in Seq(Draft)
    OBVIOUS
  <2> QED BY <2>1, <1>1, <1>12 DEF MineOther
<1> QED BY <1>5, <1>7, <1>8, <1>9, <1>10, <1>11, <1>12 DEF ChainNext

\* What was handled and told stays so when the chain grows.
LEMMA ChainKeeps ==
  ASSUME SyncInv, ChainNext,
         UNCHANGED <<applied, walletRoles, lastSync, pass, call, hardhat>>
  PROVE  SyncInv'
<1>i. LogOK /\ CountsOK /\ SavedOK /\ PassOK /\ CallOK /\ SkipOK /\ RolesOK
  BY DEF SyncInv
<1>g. Grew
  BY <1>i, ChainGrows
<1>h. height \in Nat /\ height' = height + 1 /\ DOMAIN log \subseteq DOMAIN log'
      /\ (\A i \in DOMAIN log : log'[i] = log[i] /\ log[i].block \in Nat)
      /\ (\A i \in DOMAIN log' : i \in DOMAIN log \/ log'[i].block = height + 1)
  BY <1>g, <1>i, Indices DEF Grew, LogOK
<1>t. ASSUME NEW a \in Account, \A i \in DOMAIN log' : Tells(i, a)' => log'[i].block <= height
      PROVE  roles'[a] = roles[a] /\ \A i \in DOMAIN log' : Tells(i, a)' => i \in DOMAIN log
  BY <1>t, <1>h, <1>g DEF Grew, Tells
<1>1. LogOK'
  <2>1. (\A i \in DOMAIN log : log[i].block > FirstBlock /\ log[i].block <= height)'
    BY <1>h, <1>i, Constants DEF LogOK
  <2>2. (\A a \in Account : (\A i \in DOMAIN log : ~Tells(i, a)) => roles[a] = {})'
    BY <1>h, <1>i, <1>t DEF LogOK, Tells
  <2> QED BY <2>1, <2>2, <1>g, <1>h, <1>i, Constants DEF LogOK, Grew
<1>2. CountsOK' /\ SavedOK'
  BY <1>h, <1>i DEF CountsOK, SavedOK
<1>3. PassOK'
  BY <1>h, <1>i DEF PassOK, Running, Preparing, InWindow
<1>4. CallOK'
  BY <1>h, <1>i DEF CallOK, Busy
<1>5. SkipOK'
  <2>1. NothingSkipped'
    BY <1>h, <1>i DEF SkipOK, NothingSkipped, Synced, Serving, SavedOK
  <2>2. (Running => \A i \in DOMAIN log : log[i].block < pass.from => applied[i] > 0)'
    BY <1>h, <1>i DEF SkipOK, PassOK, Running
  <2>3. InWindow => \A i \in DOMAIN log' : Seen(i)' => i \in DOMAIN log /\ Seen(i)
    BY <1>h, <1>i DEF PassOK, InWindow, Running, Seen, OfTracker
  <2>4. (InWindow => \A i \in DOMAIN log :
          Seen(i) => applied[i] > 0 \/ (Busy(Sync) /\ call[Sync].event = i))'
    BY <2>3, <1>h, <1>i DEF SkipOK, InWindow, Busy
  <2> QED BY <2>1, <2>2, <2>4 DEF SkipOK
<1>6. RolesOK'
  <2>1. RolesFollow'
    BY <1>h, <1>i, <1>t, Constants DEF RolesOK, RolesFollow, Synced, Serving, SavedOK, Tells
  <2>2. (Running => \A a \in Account : ToldBefore(a, pass.from) => walletRoles[a] = roles[a])'
    BY <1>h, <1>i, <1>t DEF RolesOK, PassOK, Running, ToldBefore, Tells
  <2>3. (InWindow => \A i \in DOMAIN log :
          Seen(i) /\ log[i].kind = "role" => log[i].to \in pass.found)'
    BY <1>h, <1>i DEF RolesOK, PassOK, InWindow, Running, Seen, OfTracker
  <2>4. (InWindow => \A a \in Account : ToldBy(a, pass.current) =>
          /\ a \in pass.synced => walletRoles[a] = roles[a]
          /\ pass.account = a => pass.read = roles[a])'
    BY <1>h, <1>i, <1>t DEF RolesOK, PassOK, InWindow, Running, ToldBy, Tells
  <2> QED BY <2>1, <2>2, <2>3, <2>4 DEF RolesOK
<1> QED BY <1>1, <1>2, <1>3, <1>4, <1>5, <1>6 DEF SyncInv

-----------------------------------------------------------------------------
(* The steps of a pass. *)

\* The promises stay when the tables, the saved block and the chain do.
LEMMA PromisesStay ==
  ASSUME SyncInv, UNCHANGED <<height, log, roles, hardhat, applied, walletRoles, lastSync>>,
         hardhat /\ Serving' => Serving
  PROVE  LogOK' /\ CountsOK' /\ SavedOK' /\ NothingSkipped' /\ RolesFollow'
<1>1. LogOK' /\ CountsOK' /\ SavedOK'
  BY DEF SyncInv, LogOK, CountsOK, SavedOK, Tells
<1>2. NothingSkipped /\ RolesFollow
  BY DEF SyncInv, SkipOK, RolesOK
<1>3. NothingSkipped'
  BY <1>2 DEF NothingSkipped, Synced
<1>4. RolesFollow'
  BY <1>2 DEF RolesFollow, Synced
<1> QED BY <1>1, <1>3, <1>4

\* What is known of a pass that has not read the current block.
LEMMA Prepares ==
  ASSUME LogOK', CountsOK', SavedOK', NothingSkipped', RolesFollow',
         IsPass(pass'), pass'.at \in {"trackers", "tokens", "block"}, pass'.boot \in BOOLEAN,
         pass'.from \in Nat, pass'.from <= height' + 1, ~hardhat' => pass'.from >= FirstBlock,
         pass'.found = {}, pass'.synced = {}, pass'.account = None,
         hardhat' /\ pass'.boot => pass'.from = 0,
         UNCHANGED call, CallOK, ~Busy(Sync),
         \A i \in DOMAIN log' : log'[i].block < pass'.from => applied'[i] > 0,
         \A a \in Account : ToldBefore(a, pass.from)' => walletRoles'[a] = roles'[a]
  PROVE  SyncInv'
<1>1. PassOK'
  BY DEF PassOK, Preparing, InWindow, Running
<1>2. CallOK'
  BY DEF CallOK, Busy
<1>3. SkipOK' /\ RolesOK'
  BY DEF SkipOK, RolesOK, InWindow
<1> QED BY <1>1, <1>2, <1>3 DEF SyncInv

\* A pass at its beginning.
LEMMA BeginIs ==
  ASSUME NEW from, NEW boot, Begin(from, boot)
  PROVE  /\ IsPass(pass') /\ pass'.at = "trackers" /\ pass'.from = from /\ pass'.boot = boot
         /\ pass'.found = {} /\ pass'.synced = {} /\ pass'.account = None
<1>1. pass' = [Idle EXCEPT !.at = "trackers", !.from = from, !.boot = boot]
  BY DEF Begin
<1> QED BY ONLY <1>1 DEF Idle, IsPass

\* runManualSync.
LEMMA ManualKeeps ==
  ASSUME SyncInv, RunManualSync, UNCHANGED <<height, log, roles, hardhat>>
  PROVE  SyncInv'
<1>i. LogOK /\ SavedOK /\ PassOK /\ CallOK /\ NothingSkipped /\ RolesFollow
  BY DEF SyncInv, SkipOK, RolesOK
<1>1. pass.at = "idle" /\ Begin(SavedBlock + 1, FALSE)
      /\ UNCHANGED <<applied, walletRoles, lastSync, call>>
  BY DEF RunManualSync, history
<1>2. Serving /\ ~Busy(Sync)
  BY <1>1, <1>i DEF PassOK, CallOK, Running, Serving
<1>3. LogOK' /\ CountsOK' /\ SavedOK' /\ NothingSkipped' /\ RolesFollow'
  BY <1>1, <1>2, PromisesStay
<1>4. /\ IsPass(pass') /\ pass'.at = "trackers" /\ pass'.from = SavedBlock + 1 /\ pass'.boot = FALSE
      /\ pass'.found = {} /\ pass'.synced = {} /\ pass'.account = None
  BY <1>1, BeginIs
<1>5. /\ SavedBlock \in Nat /\ SavedBlock <= height /\ (~hardhat => SavedBlock >= FirstBlock)
      /\ \A i \in DOMAIN log : log[i].block < SavedBlock + 1 => Synced(i)
  BY <1>i, SavedBlockIs
<1>6. \A i \in DOMAIN log' : log'[i].block < pass'.from => applied'[i] > 0
  BY <1>1, <1>2, <1>4, <1>5, <1>i DEF NothingSkipped
<1>7. \A a \in Account : ToldBefore(a, pass.from)' => walletRoles'[a] = roles'[a]
  BY <1>1, <1>2, <1>4, <1>5, <1>i DEF RolesFollow, ToldBefore, Tells
<1>8. pass'.from \in Nat /\ pass'.from <= height' + 1 /\ (~hardhat' => pass'.from >= FirstBlock)
  BY <1>4, <1>5, <1>i, Constants DEF LogOK
<1> QED BY <1>1, <1>2, <1>3, <1>4, <1>6, <1>7, <1>8, <1>i, Prepares

\* startupSync: on from the saved block, or from the start with all tables cleared.
LEMMA StartupKeeps ==
  ASSUME SyncInv, StartupSync, UNCHANGED <<height, log, roles, hardhat>>
  PROVE  SyncInv'
<1> DEFINE first == IF hardhat THEN 0 ELSE FirstBlock
           from == IF ~hardhat /\ SavedBlock # FirstBlock THEN SavedBlock + 1 ELSE first
<1>i. LogOK /\ CountsOK /\ SavedOK /\ PassOK /\ CallOK /\ NothingSkipped /\ RolesFollow
  BY DEF SyncInv, SkipOK, RolesOK
<1>1. pass.at = "down" /\ Begin(from, TRUE) /\ UNCHANGED <<lastSync, call>>
      /\ (from = first \/ UNCHANGED <<applied, walletRoles>>)
      /\ (from = first => EmptyTables)
  BY DEF StartupSync, history
<1>2. ~Serving /\ ~Busy(Sync)
  BY <1>1, <1>i DEF CallOK, Serving
<1>4. /\ IsPass(pass') /\ pass'.at = "trackers" /\ pass'.from = from /\ pass'.boot = TRUE
      /\ pass'.found = {} /\ pass'.synced = {} /\ pass'.account = None
  BY <1>1, BeginIs
<1>5. /\ SavedBlock \in Nat /\ SavedBlock <= height /\ (~hardhat => SavedBlock >= FirstBlock)
      /\ SavedBlock = FirstBlock \/ SavedBlock = lastSync
      /\ \A i \in DOMAIN log : log[i].block < SavedBlock + 1 => Synced(i)
  BY <1>i, SavedBlockIs
<1>6. from \in Nat /\ from <= height + 1 /\ (~hardhat => from >= FirstBlock)
      /\ (hardhat => from = 0)
  BY <1>5, <1>i, Constants DEF LogOK
<1>7. ~Serving'
  BY <1>4 DEF Serving
<1>8. \A i \in DOMAIN log : log[i].block \in Nat /\ log[i].block > FirstBlock
  BY <1>i, Indices DEF LogOK
<1>9. CASE from = first
  <2>1. \A i \in DOMAIN log : ~(log[i].block < from)
    BY <1>8, <1>9, Constants
  <2>2. CountsOK' /\ \A a \in Account : walletRoles'[a] = {}
    BY <1>1, <1>9, <1>i DEF CountsOK, EmptyTables
  <2>3. ASSUME NEW a \in Account, \A i \in DOMAIN log : ~Tells(i, a) PROVE roles[a] = {}
    BY <2>3, <1>i DEF LogOK
  <2>4. \A a \in Account : ToldBefore(a, pass.from)' => walletRoles'[a] = roles'[a]
    BY <2>1, <2>2, <2>3, <1>4 DEF ToldBefore, Tells
  <2>5. \A i \in DOMAIN log : ~hardhat => ~Synced(i)
    <3>1. ~hardhat => SavedBlock = FirstBlock
      BY <1>5, <1>9, Constants
    <3> QED BY <3>1, <1>8, <1>i, Constants DEF SavedBlock, Synced, SavedOK
  <2>6. NothingSkipped'
    BY <2>5, <1>1, <1>7 DEF NothingSkipped, Synced
  <2>7. RolesFollow'
    BY <2>2, <2>3, <2>5, <1>1, <1>7 DEF RolesFollow, Synced, Tells
  <2>8. LogOK' /\ SavedOK'
    BY <1>1, <1>i DEF LogOK, SavedOK, Tells
  <2> QED BY <2>1, <2>2, <2>4, <2>6, <2>7, <2>8, <1>1, <1>2, <1>4, <1>6, <1>i, Prepares
<1>10. CASE from # first
  <2>0. ~hardhat /\ from = SavedBlock + 1 /\ UNCHANGED <<applied, walletRoles>>
    BY <1>1, <1>10
  <2>1. LogOK' /\ CountsOK' /\ SavedOK' /\ NothingSkipped' /\ RolesFollow'
    BY <2>0, <1>1, <1>7, PromisesStay
  <2>2. \A i \in DOMAIN log' : log'[i].block < pass'.from => applied'[i] > 0
    BY <2>0, <1>4, <1>5, <1>i DEF NothingSkipped
  <2>3. \A a \in Account : ToldBefore(a, pass.from)' => walletRoles'[a] = roles'[a]
    <3>1. ASSUME NEW a \in Account, ToldBefore(a, from)
          PROVE  \A i \in DOMAIN log : log[i].kind = "role" /\ log[i].to = a => Synced(i)
      BY <2>0, <1>5, <3>1 DEF ToldBefore, Tells
    <3>2. \A a \in Account : ToldBefore(a, from) => walletRoles[a] = roles[a]
      BY <2>0, <3>1, <1>i DEF RolesFollow
    <3>3. \A a \in Account : ToldBefore(a, pass.from)' => ToldBefore(a, from)
      BY <1>4 DEF ToldBefore, Tells
    <3> QED BY <2>0, <3>2, <3>3
  <2> QED BY <2>1, <2>2, <2>3, <1>1, <1>2, <1>4, <1>6, <1>i, Prepares
<1> QED BY <1>9, <1>10

\* fillTrackers and fillTokens.
LEMMA FillKeeps ==
  ASSUME SyncInv, FillTrackers \/ FillTokens, UNCHANGED <<height, log, roles, hardhat>>
  PROVE  SyncInv'
<1>i. LogOK /\ SavedOK /\ PassOK /\ CallOK /\ SkipOK /\ RolesOK
  BY DEF SyncInv
<1>1. PICK next \in {"tokens", "block"} : pass' = [pass EXCEPT !.at = next]
  BY DEF FillTrackers, FillTokens, FillTable
<1>2. pass.at \in {"trackers", "tokens"} /\ UNCHANGED <<applied, walletRoles, lastSync, call>>
  BY DEF FillTrackers, FillTokens, FillTable, history
<1>3. IsPass(pass)
  BY <1>i DEF PassOK
<1>4. /\ IsPass(pass') /\ pass'.at = next /\ pass'.from = pass.from /\ pass'.boot = pass.boot
      /\ pass'.found = pass.found /\ pass'.synced = pass.synced /\ pass'.account = pass.account
  BY ONLY <1>1, <1>3 DEF IsPass
<1>5. Preparing /\ Running /\ ~Busy(Sync)
  BY <1>2, <1>i DEF Preparing, Running, CallOK
<1>6. Serving' <=> Serving
  BY <1>2, <1>4 DEF Serving
<1>7. LogOK' /\ CountsOK' /\ SavedOK' /\ NothingSkipped' /\ RolesFollow'
  BY <1>2, <1>6, PromisesStay
<1>8. \A i \in DOMAIN log' : log'[i].block < pass'.from => applied'[i] > 0
  BY <1>2, <1>4, <1>5, <1>i DEF SkipOK
<1>9. \A a \in Account : ToldBefore(a, pass.from)' => walletRoles'[a] = roles'[a]
  BY <1>2, <1>4, <1>5, <1>i DEF RolesOK, ToldBefore, Tells
<1>10. /\ pass'.from \in Nat /\ pass'.from <= height' + 1 /\ (~hardhat' => pass'.from >= FirstBlock)
       /\ pass'.found = {} /\ pass'.synced = {} /\ pass'.account = None /\ pass'.boot \in BOOLEAN
       /\ (hardhat' /\ pass'.boot => pass'.from = 0)
  BY <1>2, <1>4, <1>5, <1>i DEF PassOK
<1> QED BY <1>2, <1>4, <1>5, <1>7, <1>8, <1>9, <1>10, <1>i, Prepares

\* What is known of a pass in a window, without its promises.
WindowOK ==
  /\ IsPass(pass) /\ pass.boot \in BOOLEAN
  /\ pass.from \in Nat /\ pass.to \in Nat /\ pass.current \in Nat /\ pass.next \in Nat
  /\ pass.from <= pass.to /\ pass.to <= pass.current /\ pass.current <= height
  /\ pass.to \in {pass.current, pass.from + Interval}
  /\ lastSync # None => lastSync <= pass.current
  /\ ~hardhat => pass.from >= FirstBlock

\* What is known of a pass in a window.
LEMMA InAWindow ==
  ASSUME SyncInv, InWindow
  PROVE  /\ WindowOK /\ Running /\ LogOK /\ CountsOK /\ SavedOK /\ CallOK /\ (pass.at # "roles" => pass.account = None)
         /\ \A i \in DOMAIN log : log[i].block < pass.from => applied[i] > 0
         /\ \A i \in DOMAIN log :
              Seen(i) => applied[i] > 0 \/ (Busy(Sync) /\ call[Sync].event = i)
         /\ \A a \in Account : ToldBefore(a, pass.from) => walletRoles[a] = roles[a]
         /\ \A i \in DOMAIN log : Seen(i) /\ log[i].kind = "role" => log[i].to \in pass.found
         /\ \A a \in Account : ToldBy(a, pass.current) =>
              /\ a \in pass.synced => walletRoles[a] = roles[a]
              /\ pass.account = a => pass.read = roles[a]
<1>1. Running
  BY DEF InWindow, Running
<1> QED BY <1>1 DEF SyncInv, PassOK, SkipOK, RolesOK, WindowOK

\* And what makes up the invariant in a window.
LEMMA Windows ==
  ASSUME LogOK', CountsOK', SavedOK', NothingSkipped', RolesFollow', InWindow', WindowOK', CallOK',
         pass'.at # "roles" => pass'.account = None,
         (\A i \in DOMAIN log : log[i].block < pass.from => applied[i] > 0)',
         (\A i \in DOMAIN log :
            Seen(i) => applied[i] > 0 \/ (Busy(Sync) /\ call[Sync].event = i))',
         (\A a \in Account : ToldBefore(a, pass.from) => walletRoles[a] = roles[a])',
         (\A i \in DOMAIN log : Seen(i) /\ log[i].kind = "role" => log[i].to \in pass.found)',
         (\A a \in Account : ToldBy(a, pass.current) =>
            /\ a \in pass.synced => walletRoles[a] = roles[a]
            /\ pass.account = a => pass.read = roles[a])'
  PROVE  SyncInv'
<1>1. PassOK'
  <2>1. pass'.at \in {"net", "tracker", "roles"}
    BY DEF InWindow
  <2>2. pass'.from <= height' + 1
    BY DEF WindowOK, LogOK
  <2> QED BY <2>1, <2>2 DEF PassOK, WindowOK, InWindow, Preparing, Running
<1>2. SkipOK' /\ RolesOK'
  BY DEF SkipOK, RolesOK
<1> QED BY <1>1, <1>2 DEF SyncInv

\* A pass that is given up or done, when its promises hold.
LEMMA Rests ==
  ASSUME LogOK', CountsOK', SavedOK', NothingSkipped', RolesFollow',
         pass' = Idle \/ pass' = Down, CallOK', ~Busy(Sync)'
  PROVE  SyncInv'
<1>1. IsPass(pass') /\ pass'.at \in {"idle", "down"} /\ pass'.boot = FALSE /\ pass'.account = None
  BY IdleIs
<1>2. PassOK'
  BY <1>1 DEF PassOK, Preparing, InWindow, Running
<1>3. SkipOK' /\ RolesOK'
  BY <1>1 DEF SkipOK, RolesOK, Running, InWindow
<1> QED BY <1>2, <1>3 DEF SyncInv

\* syncEvents reads the current block: there is nothing to do, or a first window.
LEMMA ReadKeeps ==
  ASSUME SyncInv, ReadCurrentBlock, UNCHANGED <<height, log, roles, hardhat>>
  PROVE  SyncInv'
<1>i. LogOK /\ CountsOK /\ SavedOK /\ PassOK /\ CallOK /\ SkipOK /\ RolesOK
  BY DEF SyncInv
<1>1. pass.at = "block" /\ UNCHANGED <<applied, walletRoles, lastSync, call>>
  BY DEF ReadCurrentBlock, history
<1>2. Preparing /\ Running /\ ~Busy(Sync) /\ IsPass(pass)
  BY <1>1, <1>i DEF Preparing, Running, CallOK, PassOK
<1>3. /\ pass.from \in Nat /\ (~hardhat => pass.from >= FirstBlock) /\ height \in Nat
      /\ pass.found = {} /\ pass.synced = {} /\ (hardhat /\ pass.boot => pass.from = 0)
      /\ pass.account = None /\ pass.boot \in BOOLEAN /\ (lastSync # None => lastSync <= height)
  BY <1>1, <1>2, <1>i DEF PassOK, LogOK, SavedOK
<1>c. CallOK' \/ ~(pass'.at \in {"idle", "net"})
  BY <1>1, <1>2, <1>i DEF CallOK, Busy
<1>b. ~Busy(Sync)'
  BY <1>1, <1>2 DEF Busy
<1>4. CASE height < pass.from
  <2>1. pass' = Idle
    BY <1>4 DEF ReadCurrentBlock
  <2>2. hardhat /\ Serving' => Serving
    BY <1>1, <1>3, <1>4 DEF Serving
  <2>3. LogOK' /\ CountsOK' /\ SavedOK' /\ NothingSkipped' /\ RolesFollow'
    BY <1>1, <2>2, PromisesStay
  <2> QED BY <1>b, <1>c, <2>1, <2>3, Rests, IdleIs
<1>5. CASE ~(height < pass.from)
  <2>1. pass' = [pass EXCEPT !.at = "net", !.from = pass.from, !.to = WindowEnd(pass.from, height),
                             !.current = height, !.next = 1]
    BY <1>5 DEF ReadCurrentBlock, Window
  <2>2. PICK e : e = WindowEnd(pass.from, height)
    OBVIOUS
  <2>3. pass' = [pass EXCEPT !.at = "net", !.from = pass.from, !.to = e, !.current = height, !.next = 1]
    BY <2>1, <2>2
  <2>4. /\ IsPass(pass') /\ pass'.at = "net" /\ pass'.from = pass.from /\ pass'.to = e
        /\ pass'.current = height /\ pass'.next = 1 /\ pass'.found = pass.found
        /\ pass'.synced = pass.synced /\ pass'.account = pass.account /\ pass'.boot = pass.boot
    BY ONLY <2>3, <1>2 DEF IsPass
  <2>5. e \in Nat /\ pass.from <= e /\ e <= height /\ e \in {height, pass.from + Interval}
    BY <1>3, <1>5, <2>2, Constants DEF WindowEnd
  <2>6. WindowOK'
    BY <1>1, <1>3, <2>4, <2>5 DEF WindowOK
  <2>7. hardhat /\ Serving' => Serving
    BY <1>1, <2>4 DEF Serving
  <2>8. LogOK' /\ CountsOK' /\ SavedOK' /\ NothingSkipped' /\ RolesFollow'
    BY <1>1, <2>7, PromisesStay
  <2>9. \A i \in DOMAIN log : ~Seen(i)'
    BY <1>i, <2>4, Indices DEF Seen
  <2>10. (\A i \in DOMAIN log : log[i].block < pass.from => applied[i] > 0)'
    BY <1>1, <1>2, <1>i, <2>4 DEF SkipOK
  <2>11. (\A a \in Account : ToldBefore(a, pass.from) => walletRoles[a] = roles[a])'
    BY <1>1, <1>2, <1>i, <2>4 DEF RolesOK, ToldBefore, Tells
  <2>12. pass'.account = None /\ pass'.synced = {} /\ InWindow'
    BY <1>3, <2>4 DEF InWindow
  <2>13. CallOK'
    BY <1>c, <2>4
  <2> QED BY <2>6, <2>8, <2>9, <2>10, <2>11, <2>12, <2>13, Windows, Constants
<1> QED BY <1>4, <1>5

\* The next event of the window: a transfer is in hand, another is handled at once.
LEMMA TakeKeeps ==
  ASSUME SyncInv, TakeEvent, UNCHANGED <<height, log, roles, hardhat>>
  PROVE  SyncInv'
<1>0. InWindow /\ pass.at # "roles" /\ ~Busy(Sync) /\ UNCHANGED <<walletRoles, lastSync>>
  BY DEF TakeEvent, InWindow, Busy
<1>w. /\ WindowOK /\ Running /\ LogOK /\ CountsOK /\ SavedOK /\ CallOK /\ pass.account = None
      /\ \A i \in DOMAIN log : log[i].block < pass.from => applied[i] > 0
      /\ \A i \in DOMAIN log :
           Seen(i) => applied[i] > 0 \/ (Busy(Sync) /\ call[Sync].event = i)
      /\ \A a \in Account : ToldBefore(a, pass.from) => walletRoles[a] = roles[a]
      /\ \A i \in DOMAIN log : Seen(i) /\ log[i].kind = "role" => log[i].to \in pass.found
      /\ \A a \in Account : ToldBy(a, pass.current) => (a \in pass.synced => walletRoles[a] = roles[a])
  BY <1>0, InAWindow
<1>n. \A i \in DOMAIN log : i \in Nat /\ i \in 1 .. MaxEvents
  BY <1>w, Indices
<1>1. PICK i, e : i = Min(Todo) /\ e = log[i]
  OBVIOUS
<1>2. i \in Todo /\ \A j \in Todo : i <= j
  <2>1. Todo \in SUBSET Nat /\ Todo # {}
    BY <1>n DEF Todo, TakeEvent
  <2> QED BY <1>1, <2>1, LeastEvent
<1>3. /\ i \in DOMAIN log /\ i \in Nat /\ i \in 1 .. MaxEvents /\ i >= pass.next
      /\ log[i].block \in pass.from .. pass.to
      /\ OfTracker(log[i]) = (pass.at = "tracker")
  BY <1>2, <1>n DEF Todo
<1>4. PICK f, n : f = (IF e.kind = "role" THEN pass.found \cup {e.to} ELSE pass.found) /\ n = i + 1
  OBVIOUS
<1>5. pass' = [pass EXCEPT !.next = n, !.found = f]
  BY <1>1, <1>4 DEF TakeEvent
<1>6. IsPass(pass)
  BY <1>w DEF WindowOK
<1>7. /\ IsPass(pass') /\ pass'.at = pass.at /\ pass'.from = pass.from /\ pass'.to = pass.to
      /\ pass'.current = pass.current /\ pass'.next = n /\ pass'.found = f
      /\ pass'.synced = pass.synced /\ pass'.account = pass.account /\ pass'.boot = pass.boot
  BY ONLY <1>5, <1>6 DEF IsPass
<1>8. \/ UNCHANGED applied /\ Start(Sync, i)
      \/ Handled(i) /\ UNCHANGED call
  BY <1>1 DEF TakeEvent
<1>9. /\ \A j \in 1 .. MaxEvents : applied'[j] \in Nat /\ (applied[j] > 0 => applied'[j] > 0)
      /\ applied' = [j \in 1 .. MaxEvents |-> applied'[j]]
  <2>1. applied = [j \in 1 .. MaxEvents |-> applied[j]] /\ \A j \in 1 .. MaxEvents : applied[j] \in Nat
    BY <1>w DEF CountsOK
  <2>2. applied' = applied \/ applied' = [applied EXCEPT ![i] = applied[i] + 1]
    BY <1>8 DEF Handled
  <2>3. CASE applied' = applied
    BY <2>1, <2>3
  <2>4. CASE applied' = [applied EXCEPT ![i] = applied[i] + 1]
    <3>1. \A j \in 1 .. MaxEvents : applied'[j] = IF j = i THEN applied[i] + 1 ELSE applied[j]
      BY <2>1, <2>4
    <3>2. applied' = [j \in 1 .. MaxEvents |-> applied'[j]]
      BY <2>1, <2>4
    <3> QED BY <2>1, <3>1, <3>2, <1>3
  <2> QED BY <2>2, <2>3, <2>4
<1>10. CallOK' /\ (applied'[i] > 0 \/ (Busy(Sync)' /\ call'[Sync].event = i))
  <2>1. CASE UNCHANGED applied /\ Start(Sync, i)
    <3>1. call'[Sync] = [event |-> i, at |-> "start", wrote |-> FALSE] /\ call' = [h \in Worker |-> call'[h]]
      BY <2>1, <1>w, Constants DEF Start, CallOK
    <3>2. IsCall(call'[Sync]) /\ call'[Sync].event = i /\ call'[Sync].at = "start"
      BY <3>1 DEF IsCall
    <3>3. Busy(Sync)'
      BY <3>2, NoCallIs DEF Busy
    <3> QED BY <3>1, <3>2, <3>3, <1>0, <1>3, <1>7 DEF CallOK, InWindow
  <2>2. CASE Handled(i) /\ UNCHANGED call
    <3>1. applied'[i] > 0
      BY <2>2, <1>3, <1>w DEF Handled, CountsOK
    <3> QED BY <2>2, <3>1, <1>0, <1>w DEF CallOK, Busy
  <2> QED BY <1>8, <2>1, <2>2
<1>11. LogOK' /\ SavedOK' /\ CountsOK'
  BY <1>0, <1>9, <1>w DEF LogOK, SavedOK, CountsOK, Tells
<1>12. Serving' <=> Serving
  BY <1>7 DEF Serving
<1>13. NothingSkipped /\ RolesFollow
  BY DEF SyncInv, SkipOK, RolesOK
<1>14. NothingSkipped' /\ RolesFollow'
  BY <1>0, <1>9, <1>12, <1>13, <1>n DEF NothingSkipped, RolesFollow, Synced
<1>15. ASSUME NEW j \in DOMAIN log, Seen(j)' PROVE Seen(j) \/ j = i
  <2>1. Seen(j) \/ (j \in Todo /\ j < n)
    BY <1>7, <1>15, <1>n, <1>w DEF Seen, Todo, WindowOK, OfTracker
  <2> QED BY <2>1, <1>2, <1>3, <1>4, <1>n
<1>16. (\A j \in DOMAIN log :
          Seen(j) => applied[j] > 0 \/ (Busy(Sync) /\ call[Sync].event = j))'
  BY <1>0, <1>9, <1>10, <1>15, <1>n, <1>w
<1>17. (\A j \in DOMAIN log : Seen(j) /\ log[j].kind = "role" => log[j].to \in pass.found)'
  BY <1>1, <1>4, <1>7, <1>15, <1>w
<1>18. WindowOK' /\ InWindow'
  BY <1>0, <1>3, <1>4, <1>7, <1>w DEF WindowOK, InWindow
<1>19. (\A j \in DOMAIN log : log[j].block < pass.from => applied[j] > 0)'
  BY <1>7, <1>9, <1>n, <1>w
<1>20. (\A a \in Account : ToldBefore(a, pass.from) => walletRoles[a] = roles[a])'
  BY <1>0, <1>7, <1>w DEF ToldBefore, Tells
<1>21. (\A a \in Account : ToldBy(a, pass.current) => (a \in pass.synced => walletRoles[a] = roles[a]))'
  BY <1>0, <1>7, <1>w DEF ToldBy, Tells
<1> QED BY <1>7, <1>10, <1>11, <1>14, <1>16, <1>17, <1>18, <1>19, <1>20, <1>21, <1>w, Windows, Constants

\* The next database call of the same event.
LEMMA GotoIs ==
  ASSUME CallOK, NEW at \in {"insert", "total", "credit", "add"}, NEW wrote, Goto(Sync, at, wrote)
  PROVE  /\ call' = [h \in Worker |-> call'[h]] /\ IsCall(call'[Sync])
         /\ call'[Sync].event = call[Sync].event /\ Busy(Sync)'
<1>1. call' = [h \in Worker |-> call'[h]] /\ call'[Sync] = [call[Sync] EXCEPT !.at = at, !.wrote = wrote]
  BY Constants DEF CallOK, Goto
<1>2. IsCall(call[Sync])
  BY DEF CallOK
<1>3. IsCall(call'[Sync]) /\ call'[Sync].event = call[Sync].event /\ call'[Sync].at = at
  BY ONLY <1>1, <1>2 DEF IsCall
<1> QED BY <1>1, <1>3, NoCallIs DEF Busy

\* A step of the handlers of TransferSingle: the event stays in hand, or is handled.
LEMMA HandlerSteps ==
  ASSUME SyncInv, HandleTransfer
  PROVE  /\ Busy(Sync) /\ UNCHANGED <<walletRoles, lastSync, pass>>
         /\ \/ UNCHANGED applied /\ \E at \in {"insert", "total", "credit", "add"} : \E wrote : Goto(Sync, at, wrote)
            \/ Completed(Sync)
<1>1. Busy(Sync) /\ UNCHANGED <<walletRoles, lastSync, pass>>
  BY DEF HandleTransfer, TokenTransfer, TrackerTransfer, Busy
<1> DEFINE Goes == UNCHANGED applied
                   /\ \E at \in {"insert", "total", "credit", "add"} : \E wrote : Goto(Sync, at, wrote)
<1>2. ASSUME NEW e, MintStep(Sync, e) PROVE Goes \/ Completed(Sync)
  BY <1>2 DEF MintStep
<1>3. ASSUME NEW e, RetireStep(Sync, e) PROVE Goes \/ Completed(Sync)
  BY <1>3 DEF RetireStep
<1>4. ASSUME NEW e, TransferStep(Sync, e) PROVE Goes \/ Completed(Sync)
  <2>1. ASSUME UNCHANGED applied, Goto(Sync, IF balance[e.id][e.to] = None THEN "insert" ELSE "add", TRUE)
        PROVE  Goes
    BY <2>1
  <2> QED BY <1>4, <2>1 DEF TransferStep
<1> HIDE DEF Goes
<1>5. ASSUME TokenTransfer(Sync) PROVE Goes \/ Completed(Sync)
  <2>1. PICK e : MintStep(Sync, e) \/ RetireStep(Sync, e) \/ TransferStep(Sync, e)
    BY <1>5 DEF TokenTransfer
  <2> QED BY <2>1, <1>2, <1>3, <1>4
<1>6. ASSUME TrackerTransfer(Sync) PROVE Completed(Sync)
  BY <1>6 DEF TrackerTransfer
<1>7. Goes \/ Completed(Sync)
  BY <1>5, <1>6 DEF HandleTransfer
<1> QED BY <1>1, <1>7 DEF Goes

\* Such a step keeps the invariant.
LEMMA HandlerKeeps ==
  ASSUME SyncInv, HandleTransfer, UNCHANGED <<height, log, roles, hardhat>>
  PROVE  SyncInv'
<1>0. /\ Busy(Sync) /\ UNCHANGED <<walletRoles, lastSync, pass>>
      /\ \/ UNCHANGED applied /\ \E at \in {"insert", "total", "credit", "add"} : \E wrote : Goto(Sync, at, wrote)
         \/ Completed(Sync)
  BY HandlerSteps
<1>1. CallOK /\ InWindow /\ pass.at # "roles" /\ call[Sync].event \in DOMAIN log
  BY <1>0 DEF SyncInv, CallOK, InWindow
<1>w. /\ WindowOK /\ Running /\ LogOK /\ CountsOK /\ SavedOK /\ CallOK /\ pass.account = None
      /\ \A i \in DOMAIN log : log[i].block < pass.from => applied[i] > 0
      /\ \A i \in DOMAIN log :
           Seen(i) => applied[i] > 0 \/ (Busy(Sync) /\ call[Sync].event = i)
      /\ \A a \in Account : ToldBefore(a, pass.from) => walletRoles[a] = roles[a]
      /\ \A i \in DOMAIN log : Seen(i) /\ log[i].kind = "role" => log[i].to \in pass.found
      /\ \A a \in Account : ToldBy(a, pass.current) => (a \in pass.synced => walletRoles[a] = roles[a])
  BY <1>1, InAWindow
<1>n. \A i \in DOMAIN log : i \in Nat /\ i \in 1 .. MaxEvents
  BY <1>w, Indices
<1>2. PICK i : i = call[Sync].event /\ i \in 1 .. MaxEvents
  BY <1>1, <1>n
<1>3. /\ \A j \in 1 .. MaxEvents : applied'[j] \in Nat /\ (applied[j] > 0 => applied'[j] > 0)
      /\ applied' = [j \in 1 .. MaxEvents |-> applied'[j]]
      /\ CallOK' /\ (applied'[i] > 0 \/ (Busy(Sync)' /\ call'[Sync].event = i))
  <2>0. applied = [j \in 1 .. MaxEvents |-> applied[j]] /\ \A j \in 1 .. MaxEvents : applied[j] \in Nat
    BY <1>w DEF CountsOK
  <2>1. ASSUME UNCHANGED applied, NEW at \in {"insert", "total", "credit", "add"}, NEW wrote,
               Goto(Sync, at, wrote)
        PROVE  /\ \A j \in 1 .. MaxEvents : applied'[j] \in Nat /\ (applied[j] > 0 => applied'[j] > 0)
               /\ applied' = [j \in 1 .. MaxEvents |-> applied'[j]]
               /\ CallOK' /\ (applied'[i] > 0 \/ (Busy(Sync)' /\ call'[Sync].event = i))
    <3>1. /\ call' = [h \in Worker |-> call'[h]] /\ IsCall(call'[Sync])
          /\ call'[Sync].event = call[Sync].event /\ Busy(Sync)'
      BY <2>1, <1>1, GotoIs
    <3> QED BY <3>1, <2>0, <2>1, <1>0, <1>1, <1>2 DEF CallOK, InWindow
  <2>2. CASE Completed(Sync)
    <3>1. applied' = [applied EXCEPT ![i] = applied[i] + 1] /\ call' = [call EXCEPT ![Sync] = NoCall]
      BY <2>2, <1>2 DEF Completed, Handled
    <3>2. \A j \in 1 .. MaxEvents : applied'[j] = IF j = i THEN applied[i] + 1 ELSE applied[j]
      BY <2>0, <3>1
    <3>3. applied' = [j \in 1 .. MaxEvents |-> applied'[j]]
      BY <2>0, <3>1
    <3>4. CallOK'
      BY <3>1, <1>1, NoCallIs, Constants DEF CallOK, Busy
    <3> QED BY <2>0, <3>2, <3>3, <3>4, <1>2
  <2> QED BY <1>0, <2>1, <2>2
<1>4. LogOK' /\ SavedOK' /\ CountsOK' /\ WindowOK' /\ InWindow'
  BY <1>0, <1>1, <1>3, <1>w DEF LogOK, SavedOK, CountsOK, Tells, WindowOK, InWindow
<1>5. NothingSkipped /\ RolesFollow
  BY DEF SyncInv, SkipOK, RolesOK
<1>6. NothingSkipped' /\ RolesFollow'
  BY <1>0, <1>3, <1>5, <1>n DEF NothingSkipped, RolesFollow, Synced, Serving
<1>7. \A j \in DOMAIN log : Seen(j)' <=> Seen(j)
  BY <1>0 DEF Seen
<1>8. (\A j \in DOMAIN log : Seen(j) => applied[j] > 0 \/ (Busy(Sync) /\ call[Sync].event = j))'
  BY <1>2, <1>3, <1>7, <1>n, <1>w
<1>9. (\A j \in DOMAIN log : Seen(j) /\ log[j].kind = "role" => log[j].to \in pass.found)'
  BY <1>0, <1>7, <1>w
<1>10. (\A j \in DOMAIN log : log[j].block < pass.from => applied[j] > 0)'
  BY <1>0, <1>3, <1>n, <1>w
<1>11. (\A a \in Account : ToldBefore(a, pass.from) => walletRoles[a] = roles[a])'
  BY <1>0, <1>w DEF ToldBefore, Tells
<1>12. (\A a \in Account : ToldBy(a, pass.current) => (a \in pass.synced => walletRoles[a] = roles[a]))'
  BY <1>0, <1>w DEF ToldBy, Tells
<1> QED BY <1>0, <1>3, <1>4, <1>6, <1>8, <1>9, <1>10, <1>11, <1>12, <1>w, Windows, Constants

\* One round through the window is done: the next begins, or the roles follow.
LEMMA DoneKeeps ==
  ASSUME SyncInv, EventsDone, UNCHANGED <<height, log, roles, hardhat>>
  PROVE  SyncInv'
<1>0. InWindow /\ pass.at # "roles" /\ ~Busy(Sync) /\ Todo = {}
      /\ UNCHANGED <<applied, walletRoles, lastSync, call>>
  BY DEF EventsDone, InWindow, Busy, history
<1>w. /\ WindowOK /\ Running /\ LogOK /\ CountsOK /\ SavedOK /\ CallOK /\ pass.account = None
      /\ \A i \in DOMAIN log : log[i].block < pass.from => applied[i] > 0
      /\ \A i \in DOMAIN log :
           Seen(i) => applied[i] > 0 \/ (Busy(Sync) /\ call[Sync].event = i)
      /\ \A a \in Account : ToldBefore(a, pass.from) => walletRoles[a] = roles[a]
      /\ \A i \in DOMAIN log : Seen(i) /\ log[i].kind = "role" => log[i].to \in pass.found
      /\ \A a \in Account : ToldBy(a, pass.current) => (a \in pass.synced => walletRoles[a] = roles[a])
  BY <1>0, InAWindow
<1>n. \A i \in DOMAIN log : i \in Nat /\ i \in 1 .. MaxEvents
  BY <1>w, Indices
<1>1. PICK next : next = IF pass.at = "net" THEN "tracker" ELSE "roles"
  OBVIOUS
<1>2. pass' = [pass EXCEPT !.at = next, !.next = 1]
  BY <1>1 DEF EventsDone
<1>3. IsPass(pass)
  BY <1>w DEF WindowOK
<1>4. /\ IsPass(pass') /\ pass'.at = next /\ pass'.from = pass.from /\ pass'.to = pass.to
      /\ pass'.current = pass.current /\ pass'.next = 1 /\ pass'.found = pass.found
      /\ pass'.synced = pass.synced /\ pass'.account = pass.account /\ pass'.boot = pass.boot
  BY ONLY <1>2, <1>3 DEF IsPass
<1>5. WindowOK' /\ InWindow' /\ pass'.account = None
  BY <1>0, <1>1, <1>4, <1>w DEF WindowOK, InWindow
<1>6. hardhat /\ Serving' => Serving
  BY <1>0, <1>4 DEF Serving, InWindow
<1>7. LogOK' /\ CountsOK' /\ SavedOK' /\ NothingSkipped' /\ RolesFollow'
  BY <1>0, <1>6, PromisesStay
<1>8. CallOK' /\ ~Busy(Sync)'
  BY <1>0, <1>w DEF CallOK, Busy
<1>9. ASSUME NEW i \in DOMAIN log, Seen(i)' PROVE Seen(i)
  <2>1. log[i].block \in pass.from .. pass.to /\ i \notin Todo
    BY <1>0, <1>4, <1>9 DEF Seen
  <2>2. CASE pass.at = "net"
    <3>1. ~OfTracker(log[i])
      BY <2>2, <1>1, <1>4, <1>9, <1>n DEF Seen, OfTracker
    <3>2. OfTracker(log[i]) = (pass.at = "tracker")
      BY <2>2, <3>1 DEF OfTracker
    <3>3. ~(i >= pass.next)
      BY <2>1, <3>2 DEF Todo
    <3> QED BY <2>1, <2>2, <3>1, <3>3, <1>n, <1>w DEF Seen, WindowOK
  <2>3. CASE pass.at = "tracker"
    <3>1. OfTracker(log[i]) => ~(i >= pass.next)
      BY <2>1, <2>3 DEF Todo, OfTracker
    <3> QED BY <2>1, <2>3, <3>1, <1>n, <1>w DEF Seen, WindowOK
  <2> QED BY <2>2, <2>3, <1>0 DEF InWindow
<1>10. (\A i \in DOMAIN log : Seen(i) => applied[i] > 0 \/ (Busy(Sync) /\ call[Sync].event = i))'
  BY <1>0, <1>9, <1>w
<1>11. (\A i \in DOMAIN log : Seen(i) /\ log[i].kind = "role" => log[i].to \in pass.found)'
  BY <1>4, <1>9, <1>w
<1>12. (\A i \in DOMAIN log : log[i].block < pass.from => applied[i] > 0)'
  BY <1>0, <1>4, <1>w
<1>13. (\A a \in Account : ToldBefore(a, pass.from) => walletRoles[a] = roles[a])'
  BY <1>0, <1>4, <1>w DEF ToldBefore, Tells
<1>14. (\A a \in Account : ToldBy(a, pass.current) => (a \in pass.synced => walletRoles[a] = roles[a]))'
  BY <1>0, <1>4, <1>w DEF ToldBy, Tells
<1> QED BY <1>5, <1>7, <1>8, <1>10, <1>11, <1>12, <1>13, <1>14, Windows, Constants

\* The roles of an account are read from the contract.
LEMMA ReadRolesKeeps ==
  ASSUME SyncInv, NEW a \in Account, ReadRoles(a), UNCHANGED <<height, log, roles, hardhat>>
  PROVE  SyncInv'
<1>0. InWindow /\ pass.at = "roles" /\ UNCHANGED <<applied, walletRoles, lastSync, call>>
  BY DEF ReadRoles, InWindow, history
<1>w. /\ WindowOK /\ CallOK
      /\ \A i \in DOMAIN log : log[i].block < pass.from => applied[i] > 0
      /\ \A i \in DOMAIN log :
           Seen(i) => applied[i] > 0 \/ (Busy(Sync) /\ call[Sync].event = i)
      /\ \A b \in Account : ToldBefore(b, pass.from) => walletRoles[b] = roles[b]
      /\ \A i \in DOMAIN log : Seen(i) /\ log[i].kind = "role" => log[i].to \in pass.found
      /\ \A b \in Account : ToldBy(b, pass.current) => (b \in pass.synced => walletRoles[b] = roles[b])
  BY <1>0, InAWindow
<1>1. PICK r : r = roles[a] /\ pass' = [pass EXCEPT !.account = a, !.read = r]
  BY DEF ReadRoles
<1>2. IsPass(pass)
  BY <1>w DEF WindowOK
<1>3. /\ IsPass(pass') /\ pass'.at = pass.at /\ pass'.from = pass.from /\ pass'.to = pass.to
      /\ pass'.current = pass.current /\ pass'.next = pass.next /\ pass'.found = pass.found
      /\ pass'.synced = pass.synced /\ pass'.account = a /\ pass'.read = r /\ pass'.boot = pass.boot
  BY ONLY <1>1, <1>2 DEF IsPass
<1>4. WindowOK' /\ InWindow' /\ pass'.at = "roles"
  BY <1>0, <1>3, <1>w DEF WindowOK, InWindow
<1>5. hardhat /\ Serving' => Serving
  BY <1>3 DEF Serving
<1>6. LogOK' /\ CountsOK' /\ SavedOK' /\ NothingSkipped' /\ RolesFollow'
  BY <1>0, <1>5, PromisesStay
<1>7. CallOK'
  BY <1>0, <1>3, <1>w DEF CallOK, Busy
<1>8. \A i \in DOMAIN log : Seen(i)' <=> Seen(i)
  BY <1>3 DEF Seen
<1>9. (\A i \in DOMAIN log : Seen(i) => applied[i] > 0 \/ (Busy(Sync) /\ call[Sync].event = i))'
  BY <1>0, <1>8, <1>w DEF Busy
<1>10. (\A i \in DOMAIN log : Seen(i) /\ log[i].kind = "role" => log[i].to \in pass.found)'
  BY <1>3, <1>8, <1>w
<1>11. (\A i \in DOMAIN log : log[i].block < pass.from => applied[i] > 0)'
  BY <1>0, <1>3, <1>w
<1>12. (\A b \in Account : ToldBefore(b, pass.from) => walletRoles[b] = roles[b])'
  BY <1>0, <1>3, <1>w DEF ToldBefore, Tells
<1>13. (\A b \in Account : ToldBy(b, pass.current) =>
          /\ b \in pass.synced => walletRoles[b] = roles[b]
          /\ pass.account = b => pass.read = roles[b])'
  BY <1>0, <1>1, <1>3, <1>w DEF ToldBy, Tells
<1> QED BY <1>4, <1>6, <1>7, <1>9, <1>10, <1>11, <1>12, <1>13, Windows

\* The roles that were read are written to the wallet; what is told later is still to come.
LEMMA EnsureKeeps ==
  ASSUME SyncInv, EnsureWalletWithRoles, UNCHANGED <<height, log, roles, hardhat>>
  PROVE  SyncInv'
<1> DEFINE a == pass.account
<1>0. InWindow /\ pass.at = "roles" /\ a # None /\ UNCHANGED <<applied, lastSync, call>>
  BY DEF EnsureWalletWithRoles, InWindow, history
<1>w. /\ WindowOK /\ CallOK /\ LogOK /\ CountsOK /\ SavedOK
      /\ \A i \in DOMAIN log : log[i].block < pass.from => applied[i] > 0
      /\ \A i \in DOMAIN log :
           Seen(i) => applied[i] > 0 \/ (Busy(Sync) /\ call[Sync].event = i)
      /\ \A b \in Account : ToldBefore(b, pass.from) => walletRoles[b] = roles[b]
      /\ \A i \in DOMAIN log : Seen(i) /\ log[i].kind = "role" => log[i].to \in pass.found
      /\ \A b \in Account : ToldBy(b, pass.current) =>
           /\ b \in pass.synced => walletRoles[b] = roles[b]
           /\ a = b => pass.read = roles[b]
  BY <1>0, InAWindow
<1>n. \A i \in DOMAIN log : log[i].block \in Nat
  BY <1>w, Indices
<1>1. PICK s : s = pass.synced \cup {a} /\ pass' = [pass EXCEPT !.account = None, !.read = {}, !.synced = s]
  BY DEF EnsureWalletWithRoles
<1>2. IsPass(pass)
  BY <1>w DEF WindowOK
<1>3. /\ IsPass(pass') /\ pass'.at = pass.at /\ pass'.from = pass.from /\ pass'.to = pass.to
      /\ pass'.current = pass.current /\ pass'.next = pass.next /\ pass'.found = pass.found
      /\ pass'.synced = s /\ pass'.account = None /\ pass'.boot = pass.boot
  BY ONLY <1>1, <1>2 DEF IsPass
<1>4. /\ walletRoles' = [b \in Account |-> walletRoles'[b]]
      /\ \A b \in Account : walletRoles'[b] = IF b = a THEN pass.read ELSE walletRoles[b]
  BY <1>w DEF EnsureWalletWithRoles, CountsOK
<1>5. \A b \in Account : ToldBy(b, pass.current) /\ b = a => walletRoles'[b] = roles[b]
  BY <1>4, <1>w
<1>6. \A b \in Account : ToldBefore(b, pass.from) => ToldBy(b, pass.current)
  BY <1>n, <1>w DEF ToldBefore, ToldBy, WindowOK
<1>7. \A b \in Account : (\A i \in DOMAIN log : Tells(i, b) => Synced(i)) => ToldBy(b, pass.current)
  BY <1>n, <1>w DEF ToldBy, Synced, WindowOK, SavedOK
<1>8. WindowOK' /\ InWindow' /\ pass'.at = "roles"
  BY <1>0, <1>3, <1>w DEF WindowOK, InWindow
<1>9. Serving' <=> Serving
  BY <1>3 DEF Serving
<1>10. LogOK' /\ CountsOK' /\ SavedOK'
  BY <1>0, <1>4, <1>w DEF LogOK, CountsOK, SavedOK, Tells
<1>11. NothingSkipped /\ RolesFollow
  BY DEF SyncInv, SkipOK, RolesOK
<1>12. NothingSkipped'
  BY <1>0, <1>9, <1>11 DEF NothingSkipped, Synced
<1>13. RolesFollow'
  BY <1>0, <1>4, <1>5, <1>7, <1>9, <1>11 DEF RolesFollow, Synced, Tells
<1>14. CallOK'
  BY <1>0, <1>3, <1>w DEF CallOK, Busy
<1>15. \A i \in DOMAIN log : Seen(i)' <=> Seen(i)
  BY <1>3 DEF Seen
<1>16. (\A i \in DOMAIN log : Seen(i) => applied[i] > 0 \/ (Busy(Sync) /\ call[Sync].event = i))'
  BY <1>0, <1>15, <1>w DEF Busy
<1>17. (\A i \in DOMAIN log : Seen(i) /\ log[i].kind = "role" => log[i].to \in pass.found)'
  BY <1>3, <1>15, <1>w
<1>18. (\A i \in DOMAIN log : log[i].block < pass.from => applied[i] > 0)'
  BY <1>0, <1>3, <1>w
<1>19. (\A b \in Account : ToldBefore(b, pass.from) => walletRoles[b] = roles[b])'
  BY <1>3, <1>4, <1>5, <1>6, <1>w DEF ToldBefore, Tells
<1>20. (\A b \in Account : ToldBy(b, pass.current) => (b \in pass.synced => walletRoles[b] = roles[b]))'
  BY <1>1, <1>3, <1>4, <1>5, <1>w DEF ToldBy, Tells
<1> QED BY <1>3, <1>8, <1>10, <1>12, <1>13, <1>14, <1>16, <1>17, <1>18, <1>19, <1>20, Windows, Constants

\* The end of a window is saved: all events up to it are handled, all roles they told are read.
LEMMA SavedKeeps ==
  ASSUME SyncInv, SaveLastSync, UNCHANGED <<height, log, roles, hardhat>>
  PROVE  SyncInv'
<1>0. /\ InWindow /\ pass.at = "roles" /\ pass.account = None /\ pass.found = pass.synced
      /\ lastSync' = pass.to /\ UNCHANGED <<applied, walletRoles, call>>
  BY DEF SaveLastSync, InWindow
<1>w. /\ WindowOK /\ CallOK /\ LogOK /\ CountsOK /\ SavedOK
      /\ \A i \in DOMAIN log : log[i].block < pass.from => applied[i] > 0
      /\ \A i \in DOMAIN log :
           Seen(i) => applied[i] > 0 \/ (Busy(Sync) /\ call[Sync].event = i)
      /\ \A b \in Account : ToldBefore(b, pass.from) => walletRoles[b] = roles[b]
      /\ \A i \in DOMAIN log : Seen(i) /\ log[i].kind = "role" => log[i].to \in pass.found
      /\ \A b \in Account : ToldBy(b, pass.current) => (b \in pass.synced => walletRoles[b] = roles[b])
  BY <1>0, InAWindow
<1>n. \A i \in DOMAIN log : log[i].block \in Nat
  BY <1>w, Indices
<1>b. ~Busy(Sync)
  BY <1>0, <1>w DEF CallOK
<1>1. \A i \in DOMAIN log : log[i].block <= pass.to => applied[i] > 0
  BY <1>0, <1>b, <1>n, <1>w DEF Seen, WindowOK
<1>2. ASSUME NEW a \in Account, ToldBy(a, pass.to) PROVE walletRoles[a] = roles[a]
  <2>1. CASE ToldBefore(a, pass.from)
    BY <2>1, <1>w
  <2>2. CASE ~ToldBefore(a, pass.from)
    <3>1. PICK i \in DOMAIN log : Tells(i, a) /\ log[i].block >= pass.from
      BY <2>2, <1>n, <1>w DEF ToldBefore, WindowOK
    <3>2. Seen(i)
      BY <3>1, <1>0, <1>2, <1>n, <1>w DEF ToldBy, Seen, WindowOK
    <3>3. a \in pass.synced
      BY <3>1, <3>2, <1>0, <1>w DEF Tells
    <3>4. ToldBy(a, pass.current)
      BY <1>2, <1>n, <1>w DEF ToldBy, WindowOK
    <3> QED BY <3>3, <3>4, <1>w
  <2> QED BY <2>1, <2>2
<1>3. pass.to <= height /\ pass.to \in Nat /\ (~hardhat => pass.to >= FirstBlock)
  BY <1>w, Constants DEF WindowOK, LogOK
<1>4. LogOK' /\ CountsOK' /\ SavedOK'
  BY <1>0, <1>3, <1>w DEF LogOK, CountsOK, SavedOK, Tells
<1>5. lastSync' # None
  BY <1>0, <1>3, Constants
<1>6. NothingSkipped' /\ RolesFollow'
  BY <1>0, <1>1, <1>2, <1>5 DEF NothingSkipped, RolesFollow, Synced, ToldBy, Tells
<1>7. CASE pass.to = pass.current
  <2>1. pass' = Idle
    BY <1>7 DEF SaveLastSync
  <2>2. CallOK' /\ ~Busy(Sync)'
    BY <1>0, <1>b, <1>w DEF CallOK, Busy
  <2> QED BY <1>4, <1>6, <2>1, <2>2, Rests
<1>8. CASE pass.to # pass.current
  <2>1. pass' = Window(pass.from + Interval, pass.current)
    BY <1>8 DEF SaveLastSync
  <2>2. PICK f, e, k : /\ f = pass.from + Interval /\ k = pass.current
                       /\ e = WindowEnd(pass.from + Interval, pass.current)
    OBVIOUS
  <2>3. pass' = [pass EXCEPT !.at = "net", !.from = f, !.to = e, !.current = k, !.next = 1]
    BY <2>1, <2>2 DEF Window
  <2>4. IsPass(pass)
    BY <1>w DEF WindowOK
  <2>5. /\ IsPass(pass') /\ pass'.at = "net" /\ pass'.from = f /\ pass'.to = e
        /\ pass'.current = k /\ pass'.next = 1 /\ pass'.found = pass.found
        /\ pass'.synced = pass.synced /\ pass'.account = pass.account /\ pass'.boot = pass.boot
    BY ONLY <2>3, <2>4 DEF IsPass
  <2>6. f = pass.to /\ f \in Nat /\ f <= k /\ k \in Nat
    BY <1>8, <2>2, <1>w, Constants DEF WindowOK
  <2>7. e \in Nat /\ f <= e /\ e <= k /\ e \in {k, f + Interval}
    BY <2>2, <2>6, Constants DEF WindowEnd
  <2>8. WindowOK' /\ InWindow'
    BY <1>0, <1>3, <1>w, <2>2, <2>5, <2>6, <2>7 DEF WindowOK, InWindow
  <2>9. \A i \in DOMAIN log : ~Seen(i)'
    BY <1>w, <2>5, Indices DEF Seen
  <2>10. (\A i \in DOMAIN log : log[i].block < pass.from => applied[i] > 0)'
    BY <1>0, <1>1, <1>n, <2>5, <2>6
  <2>11. \A a \in Account : ToldBefore(a, pass.to) => ToldBy(a, pass.to)
    BY <1>3, <1>n DEF ToldBefore, ToldBy
  <2>12. (\A a \in Account : ToldBefore(a, pass.from) => walletRoles[a] = roles[a])'
    BY <1>0, <1>2, <2>5, <2>6, <2>11 DEF ToldBefore, Tells
  <2>13. (\A a \in Account : ToldBy(a, pass.current) => (a \in pass.synced => walletRoles[a] = roles[a]))'
    BY <1>0, <1>w, <2>2, <2>5 DEF ToldBy, Tells
  <2>14. CallOK' /\ pass'.account = None
    BY <1>0, <1>b, <1>w, <2>5 DEF CallOK, Busy
  <2> QED BY <1>4, <1>6, <2>8, <2>9, <2>10, <2>12, <2>13, <2>14, Windows, Constants
<1> QED BY <1>7, <1>8

\* A pass gives up, or the server dies.
LEMMA FailureKeeps ==
  ASSUME SyncInv, PassFails \/ Crash, UNCHANGED <<height, log, roles, hardhat>>
  PROVE  SyncInv'
<1>i. CallOK /\ PassOK
  BY DEF SyncInv
<1>1. /\ pass' = Idle \/ pass' = Down
      /\ pass' = Idle => Running /\ ~pass.boot
      /\ UNCHANGED <<applied, walletRoles, lastSync>>
  <2>1. CASE PassFails
    BY <2>1, IdleIs DEF PassFails
  <2>2. CASE Crash
    <3>1. pass' = Down /\ Down # Idle
      BY <2>2, IdleIs DEF Crash, ServerDies
    <3> QED BY <2>2, <3>1 DEF Crash, ServerDies
  <2> QED BY <2>1, <2>2
<1>2. call' = [h \in Worker |-> call'[h]] /\ call'[Sync] = NoCall
  BY <1>i, Constants DEF PassFails, Crash, ServerDies, Abandon, CallOK
<1>3. CallOK' /\ ~Busy(Sync)'
  BY <1>2, NoCallIs DEF CallOK, Busy
<1>4. hardhat /\ Serving' => Serving
  BY <1>1, IdleIs DEF Serving, Running
<1>5. LogOK' /\ CountsOK' /\ SavedOK' /\ NothingSkipped' /\ RolesFollow'
  BY <1>1, <1>4, PromisesStay
<1> QED BY <1>1, <1>3, <1>5, Rests

-----------------------------------------------------------------------------
(* The invariant. *)

\* At the start the chain has no events and the server is down.
LEMMA InitSync == ASSUME Init PROVE SyncInv
<1>1. log = <<>> /\ height = FirstBlock /\ roles = [a \in Account |-> {}] /\ lastSync = None /\ pass = Down
  BY DEF Init, ChainInit
<1>2. DOMAIN log = {} /\ log \in Seq(Event) /\ Len(log) = 0
  BY <1>1
<1>3. LogOK
  BY <1>1, <1>2, Constants DEF LogOK
<1>4. CountsOK /\ SavedOK
  BY <1>1, Constants DEF CountsOK, SavedOK, Init
<1>5. call[Sync] = NoCall /\ CallOK
  BY NoCallIs, Constants DEF Init, CallOK, Busy
<1>6. IsPass(pass) /\ pass.at = "down" /\ pass.boot = FALSE /\ pass.account = None
  BY <1>1, IdleIs
<1>7. PassOK
  BY <1>6 DEF PassOK, Preparing, InWindow, Running
<1>8. NothingSkipped /\ RolesFollow
  <2>1. \A a \in Account : walletRoles[a] = roles[a]
    BY <1>1 DEF Init
  <2> QED BY <1>2, <2>1 DEF NothingSkipped, RolesFollow
<1>9. SkipOK /\ RolesOK
  BY <1>6, <1>8 DEF SkipOK, RolesOK, InWindow, Running
<1> QED BY <1>3, <1>4, <1>5, <1>7, <1>9 DEF SyncInv

\* Every step keeps it.
LEMMA NextSync == ASSUME SyncInv, [Next]_syncVars PROVE SyncInv'
<1>1. ASSUME ChainNext, UNCHANGED <<tables, walletRoles, history, lastSync, pass, call, failures, hardhat>>
      PROVE  SyncInv'
  BY <1>1, ChainKeeps DEF history
<1>2. ASSUME SyncStep, UNCHANGED <<chainVars, hardhat>> PROVE SyncInv'
  <2>1. UNCHANGED <<height, log, roles, hardhat>>
    BY <1>2 DEF chainVars
  <2> QED BY <1>2, <2>1, StartupKeeps, ManualKeeps, FillKeeps, ReadKeeps, TakeKeeps, HandlerKeeps, DoneKeeps,
             ReadRolesKeeps, EnsureKeeps, SavedKeeps, FailureKeeps DEF SyncStep
<1>3. ASSUME PassFails \/ Crash, UNCHANGED <<chainVars, hardhat>> PROVE SyncInv'
  BY <1>3, FailureKeeps DEF chainVars
<1>4. ASSUME UNCHANGED syncVars PROVE SyncInv'
  <2>1. UNCHANGED <<height, log, roles, hardhat, walletRoles, lastSync, pass, call, applied>>
    BY <1>4 DEF syncVars
  <2>2. LogOK' /\ CountsOK' /\ SavedOK' /\ NothingSkipped' /\ RolesFollow'
    BY <2>1, PromisesStay DEF Serving
  <2>3. PassOK' /\ CallOK'
    BY <2>1 DEF SyncInv, PassOK, CallOK, Preparing, InWindow, Running, Busy
  <2>4. SkipOK' /\ RolesOK'
    BY <2>1, <2>2 DEF SyncInv, SkipOK, RolesOK, Running, InWindow, Busy, Seen, OfTracker, ToldBy, ToldBefore, Tells
  <2> QED BY <2>2, <2>3, <2>4 DEF SyncInv
<1> QED BY <1>1, <1>2, <1>3, <1>4 DEF Next

\* SyncInv is an invariant of the synchronizer on a network that it polls.
THEOREM SyncInvariant == Spec => []SyncInv
<1>1. Init => SyncInv
  BY InitSync
<1>2. SyncInv /\ [Next]_syncVars => SyncInv'
  BY NextSync
<1> QED BY <1>1, <1>2, PTL DEF Spec

\* No event up to the saved block was left out, whatever failed and whenever the server died.
THEOREM NoneSkipped == Spec => []NothingSkipped
<1>1. SyncInv => NothingSkipped
  BY DEF SyncInv, SkipOK
<1> QED BY <1>1, SyncInvariant, PTL

\* Wallets have the roles of the contract when all that was told of them is synchronised.
THEOREM RolesFollowed == Spec => []RolesFollow
<1>1. SyncInv => RolesFollow
  BY DEF SyncInv, RolesOK
<1> QED BY <1>1, SyncInvariant, PTL

-----------------------------------------------------------------------------
(* The events that move amounts, and what accounts have by them. *)

Moves(i) == log[i].kind = "transfer"

\* What an event brings an account of an id.
Gain(e, t, a) ==
  IF e.kind = "transfer" /\ e.id = t
  THEN (IF e.to = a THEN e.amount ELSE 0) - (IF e.from = a THEN e.amount ELSE 0)
  ELSE 0

\* A sum over some of the events is a number.
LEMMA GainType ==
  ASSUME LogOK, NEW i \in DOMAIN log, NEW t, NEW a
  PROVE  Gain(log[i], t, a) \in Int
<1>1. log[i] \in Event
  BY Indices
<1>2. log[i].amount \in 0 .. 2
  BY <1>1 DEF Event
<1> QED BY <1>2 DEF Gain

\* The events are finitely many.
LEMMA LogFinite ==
  ASSUME LogOK
  PROVE  IsFiniteSet(DOMAIN log) /\ \A S \in SUBSET DOMAIN log : IsFiniteSet(S)
<1>1. DOMAIN log = 1 .. Len(log) /\ Len(log) \in Nat
  BY Indices
<1>2. IsFiniteSet(1 .. Len(log))
  BY <1>1, FS_Interval
<1> QED BY <1>1, <1>2, FS_Subset

\* Net, as a sum over all the events in question.
LEMMA NetIs ==
  ASSUME LogOK, NEW S \in SUBSET DOMAIN log, NEW t, NEW a
  PROVE  Net(S, t, a) = SumFunctionOnSet([i \in S |-> Gain(log[i], t, a)], S)
<1> DEFINE of == {i \in S : log[i].kind = "transfer" /\ log[i].id = t}
           f == [i \in of |-> (IF log[i].to = a THEN log[i].amount ELSE 0)
                              - (IF log[i].from = a THEN log[i].amount ELSE 0)]
           g == [i \in S |-> Gain(log[i], t, a)]
<1>1. Net(S, t, a) = SumFunctionOnSet(f, of)
  BY DEF Net, SumFunction
<1>2. /\ \A i \in S : g[i] \in Int
      /\ \A i \in of : f[i] = g[i]
      /\ \A i \in S \ of : g[i] = 0
  <2>1. \A i \in S : g[i] = Gain(log[i], t, a) /\ g[i] \in Int
    BY GainType
  <2>2. \A i \in of : f[i] = Gain(log[i], t, a)
    BY DEF Gain
  <2>3. \A i \in S \ of : Gain(log[i], t, a) = 0
    BY DEF Gain
  <2> QED BY <2>1, <2>2, <2>3
<1>3. IsFiniteSet(S) /\ of \in SUBSET S /\ IsFiniteSet(of) /\ IsFiniteSet(S \ of)
  BY LogFinite, FS_Subset
<1> HIDE DEF of, f, g
<1>4. SumFunctionOnSet(g, S) = SumFunctionOnSet(g, of) + SumFunctionOnSet(g, S \ of)
  BY <1>2, <1>3, SumSplit
<1>5. SumFunctionOnSet(g, S \ of) = 0
  BY <1>2, <1>3, SumZero
<1>6. SumFunctionOnSet(f, of) = SumFunctionOnSet(g, of) /\ SumFunctionOnSet(g, of) \in Int
  <2>1. \A i \in of : g[i] \in Int /\ f[i] = g[i]
    BY <1>2, <1>3
  <2> QED BY <1>3, <2>1, SumSame, SumType
<1> QED BY <1>1, <1>4, <1>5, <1>6 DEF g

\* Nobody has anything before the first event.
LEMMA NetNone ==
  ASSUME NEW t, NEW a
  PROVE  Net({}, t, a) = 0
<1>1. \A x, y : {i \in {} : x[i] = y} = {}
  OBVIOUS
<1>2. {i \in {} : log[i].kind = "transfer" /\ log[i].id = t} = {}
  OBVIOUS
<1>3. DOMAIN [i \in {} |-> (IF log[i].to = a THEN log[i].amount ELSE 0)
                              - (IF log[i].from = a THEN log[i].amount ELSE 0)] = {}
  OBVIOUS
<1> QED BY <1>2, <1>3, SumEmpty DEF Net, SumFunction

\* What one more event brings.
LEMMA NetTakes ==
  ASSUME LogOK, NEW S \in SUBSET DOMAIN log, NEW i \in DOMAIN log \ S, NEW t, NEW a
  PROVE  /\ Net(S, t, a) \in Int
         /\ Net(S \cup {i}, t, a) = Net(S, t, a) + Gain(log[i], t, a)
<1> DEFINE T == S \cup {i}
           f == [j \in S |-> Gain(log[j], t, a)]
           g == [j \in T |-> Gain(log[j], t, a)]
<1>1. T \in SUBSET DOMAIN log /\ T \ {i} = S /\ i \in T /\ IsFiniteSet(T) /\ IsFiniteSet(S)
  BY LogFinite
<1>2. /\ \A j \in T : g[j] \in Int
      /\ \A j \in S : f[j] \in Int /\ g[j] = f[j]
      /\ g[i] = Gain(log[i], t, a)
  BY <1>1, GainType
<1>3. Net(S, t, a) = SumFunctionOnSet(f, S) /\ Net(T, t, a) = SumFunctionOnSet(g, T)
  BY <1>1, NetIs
<1> HIDE DEF f, g, T
<1>4. SumFunctionOnSet(g, T) = g[i] + SumFunctionOnSet(g, T \ {i})
  BY <1>1, <1>2, SumTake
<1>5. SumFunctionOnSet(g, S) = SumFunctionOnSet(f, S) /\ SumFunctionOnSet(f, S) \in Int
  BY <1>1, <1>2, SumSame, SumType
<1>6. g[i] \in Int
  BY <1>1, <1>2
<1>7. SumFunctionOnSet(g, T) = Gain(log[i], t, a) + SumFunctionOnSet(f, S)
  BY <1>1, <1>2, <1>4, <1>5
<1>8. Net(T, t, a) = Net(S, t, a) + Gain(log[i], t, a) /\ Net(S, t, a) \in Int
  BY <1>2, <1>3, <1>5, <1>6, <1>7
<1> QED BY <1>8 DEF T

\* What is had by given events does not change with the log.
LEMMA NetStays ==
  ASSUME NEW S, \A i \in S : log'[i] = log[i], NEW t, NEW a
  PROVE  Net(S, t, a)' = Net(S, t, a)
<1>1. {i \in S : log'[i].kind = "transfer" /\ log'[i].id = t} = {i \in S : log[i].kind = "transfer" /\ log[i].id = t}
  OBVIOUS
<1> DEFINE of == {i \in S : log[i].kind = "transfer" /\ log[i].id = t}
<1>2. [i \in of |-> (IF log'[i].to = a THEN log'[i].amount ELSE 0)
                    - (IF log'[i].from = a THEN log'[i].amount ELSE 0)]
      = [i \in of |-> (IF log[i].to = a THEN log[i].amount ELSE 0)
                    - (IF log[i].from = a THEN log[i].amount ELSE 0)]
  OBVIOUS
<1> QED BY <1>1, <1>2 DEF Net

\* Who has something was given it.
LEMMA HasGot ==
  ASSUME LogOK, NEW t, NEW a, Holds(t, a)
  PROVE  \E i \in DOMAIN log : log[i].kind = "transfer" /\ log[i].id = t /\ log[i].to = a
<1> DEFINE f == [i \in DOMAIN log |-> Gain(log[i], t, a)]
           z == [i \in DOMAIN log |-> 0]
<1> SUFFICES ASSUME \A i \in DOMAIN log : ~(log[i].kind = "transfer" /\ log[i].id = t /\ log[i].to = a)
             PROVE  FALSE
  OBVIOUS
<1>1. ASSUME NEW i \in DOMAIN log PROVE Gain(log[i], t, a) <= 0
  <2>1. log[i] \in Event
    BY Indices
  <2>2. log[i].amount \in 0 .. 2
    BY <2>1 DEF Event
  <2> QED BY <2>2 DEF Gain
<1>2. \A i \in DOMAIN log : f[i] \in Int /\ z[i] = 0 /\ z[i] \in Int /\ f[i] <= z[i]
  BY <1>1, GainType
<1>3. Net(DOMAIN log, t, a) = SumFunctionOnSet(f, DOMAIN log)
  BY NetIs
<1> HIDE DEF f, z
<1>4. SumFunctionOnSet(f, DOMAIN log) <= SumFunctionOnSet(z, DOMAIN log)
  BY <1>2, LogFinite, SumLeq
<1>5. SumFunctionOnSet(z, DOMAIN log) = 0 /\ SumFunctionOnSet(f, DOMAIN log) \in Int
  BY <1>2, LogFinite, SumZero, SumType
<1> QED BY <1>3, <1>4, <1>5 DEF Holds

\* The events are in the order of their blocks; a transfer is of an id, to an account when it is
\* minted, and else from one who was given some before.
GivenBefore(i) ==
  \E j \in DOMAIN log : j < i /\ Moves(j) /\ log[j].id = log[i].id /\ log[j].to = log[i].from
EventsOK ==
  /\ \A i, j \in DOMAIN log : j < i => log[j].block <= log[i].block
  /\ \A i \in DOMAIN log : Moves(i) =>
       /\ log[i].id \in TokenId \cup TrackerId
       /\ log[i].from = Burn => log[i].to \in Account
       /\ log[i].from # Burn => GivenBefore(i)

\* The same of the events of a transaction.
Sourced(events) ==
  \A j \in DOMAIN events : events[j].kind = "transfer" =>
    /\ events[j].id \in TokenId \cup TrackerId
    /\ events[j].from = Burn => events[j].to \in Account
    /\ events[j].from # Burn =>
         \/ \E i \in DOMAIN log : Moves(i) /\ log[i].id = events[j].id /\ log[i].to = events[j].from
         \/ \E k \in DOMAIN events : k < j /\ events[k].kind = "transfer"
                                     /\ events[k].id = events[j].id /\ events[k].to = events[j].from

\* Where the events of a transaction are.
LEMMA MinedPlaces ==
  ASSUME LogOK, NEW events \in Seq(Draft), Mine(events)
  PROVE  /\ \A i \in DOMAIN log : i \in DOMAIN log' /\ log'[i] = log[i]
         /\ \A i \in DOMAIN log' \ DOMAIN log :
              /\ i - Len(log) \in DOMAIN events
              /\ log'[i] = InBlock(events[i - Len(log)], height + 1)
         /\ \A j \in DOMAIN events :
              /\ Len(log) + j \in DOMAIN log' \ DOMAIN log
              /\ log'[Len(log) + j] = InBlock(events[j], height + 1)
<1>1. PICK t : t = [i \in DOMAIN events |-> InBlock(events[i], height + 1)]
  OBVIOUS
<1>2. height + 1 \in Nat
  BY DEF LogOK
<1>3. \A d \in Draft : InBlock(d, height + 1) \in Event
  BY <1>2 DEF Draft, Event, InBlock
<1>4. DOMAIN events = 1 .. Len(events) /\ Len(events) \in Nat /\ \A i \in DOMAIN events : events[i] \in Draft
  OBVIOUS
<1>5. t \in Seq(Event) /\ Len(t) = Len(events)
      /\ \A i \in 1 .. Len(t) : t[i] = InBlock(events[i], height + 1)
  BY <1>1, <1>3, <1>4, IsASeq
<1>6. log' = log \o t
  BY <1>1 DEF Mine
<1>7. /\ log' \in Seq(Event) /\ Len(log') = Len(log) + Len(t)
      /\ \A i \in 1 .. Len(log) + Len(t) : log'[i] = IF i <= Len(log) THEN log[i] ELSE t[i - Len(log)]
  <2>1. PICK l, m : l = log /\ m = log'
    OBVIOUS
  <2>2. l \in Seq(Event) /\ t \in Seq(Event) /\ m = l \o t
    BY <1>5, <1>6, <2>1 DEF LogOK
  <2>3. /\ m \in Seq(Event) /\ Len(m) = Len(l) + Len(t)
        /\ \A i \in 1 .. Len(l) + Len(t) : m[i] = IF i <= Len(l) THEN l[i] ELSE t[i - Len(l)]
    BY ONLY <2>2, ConcatProperties
  <2> QED BY ONLY <2>1, <2>3
<1>8. Len(log) \in Nat /\ DOMAIN log = 1 .. Len(log) /\ DOMAIN log' = 1 .. Len(log) + Len(t)
  BY <1>7 DEF LogOK
<1>9. \A i \in DOMAIN log : i \in DOMAIN log' /\ log'[i] = log[i]
  BY <1>4, <1>5, <1>7, <1>8
<1>10. ASSUME NEW i \in DOMAIN log' \ DOMAIN log
       PROVE  i - Len(log) \in DOMAIN events /\ log'[i] = InBlock(events[i - Len(log)], height + 1)
  <2>1. i - Len(log) \in 1 .. Len(t) /\ log'[i] = t[i - Len(log)]
    BY <1>4, <1>5, <1>7, <1>8
  <2> QED BY <1>4, <1>5, <2>1
<1>11. ASSUME NEW j \in DOMAIN events
       PROVE  /\ Len(log) + j \in DOMAIN log' \ DOMAIN log
              /\ log'[Len(log) + j] = InBlock(events[j], height + 1)
  <2>1. Len(log) + j \in DOMAIN log' \ DOMAIN log /\ log'[Len(log) + j] = t[j]
    BY <1>4, <1>5, <1>7, <1>8
  <2> QED BY <1>4, <1>5, <2>1
<1> QED BY <1>9, <1>10, <1>11

\* A transaction keeps the order and the sources.
LEMMA MinedOrder ==
  ASSUME LogOK, EventsOK, NEW events \in Seq(Draft), Mine(events), Sourced(events)
  PROVE  EventsOK'
<1> DEFINE n == Len(log)
<1>1. /\ \A i \in DOMAIN log : i \in DOMAIN log' /\ log'[i] = log[i]
      /\ \A i \in DOMAIN log' \ DOMAIN log :
           i - n \in DOMAIN events /\ log'[i] = InBlock(events[i - n], height + 1)
      /\ \A j \in DOMAIN events :
           n + j \in DOMAIN log' \ DOMAIN log /\ log'[n + j] = InBlock(events[j], height + 1)
  BY MinedPlaces
<1>2. n \in Nat /\ DOMAIN log = 1 .. n /\ height \in Nat
      /\ \A i \in DOMAIN log : i \in Nat /\ log[i].block \in Nat /\ log[i].block <= height
  BY Indices DEF LogOK
<1>3. \A j \in DOMAIN events : j \in Nat
  OBVIOUS
<1>4. \A i \in DOMAIN log' : i \in Nat
  <2>1. log' \in Seq(Event)
    BY MinedLog
  <2> QED BY <2>1
<1> HIDE DEF n
<1>5. \A e, b : /\ InBlock(e, b).block = b /\ InBlock(e, b).kind = e.kind /\ InBlock(e, b).id = e.id
                /\ InBlock(e, b).from = e.from /\ InBlock(e, b).to = e.to
  BY DEF InBlock
<1>6. \A i \in DOMAIN log' \ DOMAIN log : log'[i].block = height + 1 /\ i > n
  BY <1>1, <1>2, <1>4, <1>5
<1>7. ASSUME NEW i \in DOMAIN log', NEW j \in DOMAIN log', j < i
      PROVE  log'[j].block <= log'[i].block
  <2>1. CASE i \in DOMAIN log
    <3>1. j \in DOMAIN log
      BY <1>2, <1>4, <1>6, <1>7, <2>1
    <3> QED BY <1>1, <1>7, <2>1, <3>1 DEF EventsOK
  <2>2. CASE i \notin DOMAIN log
    <3>1. log'[i].block = height + 1
      BY <1>6, <2>2
    <3>2. log'[j].block <= height + 1
      <4>1. CASE j \in DOMAIN log
        BY <1>1, <1>2, <4>1
      <4>2. CASE j \notin DOMAIN log
        BY <1>2, <1>6, <4>2
      <4> QED BY <4>1, <4>2
    <3> QED BY <3>1, <3>2
  <2> QED BY <2>1, <2>2
<1>8. ASSUME NEW i \in DOMAIN log', Moves(i)'
      PROVE  /\ log'[i].id \in TokenId \cup TrackerId
             /\ log'[i].from = Burn => log'[i].to \in Account
             /\ log'[i].from # Burn => GivenBefore(i)'
  <2>1. CASE i \in DOMAIN log
    <3>1. log'[i] = log[i] /\ Moves(i)
      BY <1>1, <1>8, <2>1 DEF Moves
    <3>2. ASSUME GivenBefore(i) PROVE GivenBefore(i)'
      BY <1>1, <2>1, <3>2 DEF GivenBefore, Moves
    <3> QED BY <2>1, <3>1, <3>2 DEF EventsOK
  <2>2. CASE i \notin DOMAIN log
    <3>1. PICK j \in DOMAIN events : j = i - n /\ log'[i] = InBlock(events[j], height + 1)
      BY <1>1, <2>2
    <3>2. events[j].kind = "transfer" /\ log'[i].id = events[j].id /\ log'[i].from = events[j].from
          /\ log'[i].to = events[j].to
      BY <1>5, <1>8, <3>1 DEF Moves
    <3>3. ASSUME NEW k \in DOMAIN log, Moves(k), log[k].id = events[j].id, log[k].to = events[j].from
          PROVE  GivenBefore(i)'
      <4>1. k < i
        BY <1>2, <1>6, <2>2
      <4>2. k \in DOMAIN log' /\ log'[k] = log[k]
        BY <1>1
      <4> QED BY <3>2, <3>3, <4>1, <4>2 DEF GivenBefore, Moves
    <3>4. ASSUME NEW k \in DOMAIN events, k < j, events[k].kind = "transfer",
                 events[k].id = events[j].id, events[k].to = events[j].from
          PROVE  GivenBefore(i)'
      <4>1. n + k \in DOMAIN log' /\ log'[n + k] = InBlock(events[k], height + 1)
        BY <1>1
      <4>2. n + k < i
        BY <1>2, <1>3, <1>4, <3>1, <3>4
      <4> QED BY <1>5, <3>2, <3>4, <4>1, <4>2 DEF GivenBefore, Moves
    <3> QED BY <3>2, <3>3, <3>4 DEF Sourced
  <2> QED BY <2>1, <2>2
<1> QED BY <1>7, <1>8 DEF EventsOK

\* The transactions of the contracts do.
LEMMA ChainOrder ==
  ASSUME LogOK, EventsOK, ChainNext
  PROVE  EventsOK'
<1>b. Burn \notin Account /\ Burn \in Account \cup {Burn} /\ Account \subseteq Account \cup {Burn}
  BY ContractAssumption
<1>2. \A id \in TokenId \cup TrackerId, a, b \in Account \cup {Burn}, n \in 0 .. 2 :
        /\ Transfer(id, a, b, n) \in Draft
        /\ Transfer(id, a, b, n).kind = "transfer" /\ Transfer(id, a, b, n).id = id
        /\ Transfer(id, a, b, n).from = a /\ Transfer(id, a, b, n).to = b
  BY DEF Draft, Transfer, EventKind
<1>3. \A id \in TokenId \cup TrackerId : Created(id) \in Draft /\ Created(id).kind = "created"
  BY DEF Draft, Created, EventKind
<1>4. \A a \in Account : RoleEvent(a) \in Draft /\ RoleEvent(a).kind = "role"
  BY DEF Draft, RoleEvent, EventKind
<1>6. ASSUME NEW x \in Draft, Mine(<<x>>),
             x.kind = "transfer" =>
               /\ x.id \in TokenId \cup TrackerId
               /\ x.from = Burn => x.to \in Account
               /\ x.from # Burn => \E i \in DOMAIN log : Moves(i) /\ log[i].id = x.id /\ log[i].to = x.from
      PROVE  EventsOK'
  <2>1. <<x>> \in Seq(Draft) /\ DOMAIN <<x>> = {1} /\ <<x>>[1] = x
    OBVIOUS
  <2>2. Sourced(<<x>>)
    BY <1>6, <2>1 DEF Sourced
  <2> QED BY <1>6, <2>1, <2>2, MinedOrder
<1>5. ASSUME NEW id \in TokenId, NEW a \in Account, IssueToken(id, a) PROVE EventsOK'
  <2>1. PICK x, y, z : x = Transfer(id, Burn, a, 2) /\ y = Transfer(id, a, Burn, 2) /\ z = Created(id)
    OBVIOUS
  <2>2. /\ x \in Draft /\ x.kind = "transfer" /\ x.id = id /\ x.from = Burn /\ x.to = a
        /\ y \in Draft /\ y.kind = "transfer" /\ y.id = id /\ y.from = a /\ y.to = Burn
        /\ z \in Draft /\ z.kind = "created" /\ a # Burn
    BY <1>2, <1>3, <1>b, <2>1
  <2>3. CASE Mine(<<x, z>>)
    <3>1. <<x, z>> \in Seq(Draft)
      BY <2>2
    <3>2. DOMAIN <<x, z>> = {1, 2} /\ <<x, z>>[1] = x /\ <<x, z>>[2] = z
      OBVIOUS
    <3>3. Sourced(<<x, z>>)
      BY <2>2, <3>2 DEF Sourced
    <3> QED BY <2>3, <3>1, <3>3, MinedOrder
  <2>4. CASE Mine(<<x, y, z>>)
    <3>1. <<x, y, z>> \in Seq(Draft)
      BY <2>2
    <3>2. DOMAIN <<x, y, z>> = {1, 2, 3} /\ <<x, y, z>>[1] = x /\ <<x, y, z>>[2] = y /\ <<x, y, z>>[3] = z
      OBVIOUS
    <3>3. Sourced(<<x, y, z>>)
      BY <2>2, <3>2 DEF Sourced
    <3> QED BY <2>4, <3>1, <3>3, MinedOrder
  <2> QED BY <1>5, <2>1, <2>3, <2>4 DEF IssueToken
<1>7. ASSUME NEW id \in TokenId, NEW a \in Account, MintMore(id, a) PROVE EventsOK'
  BY <1>2, <1>6, <1>7, <1>b DEF MintMore
<1>8. ASSUME NEW id \in TokenId \cup TrackerId, NEW a \in Account, NEW b \in Account \cup {Burn}, Move(id, a, b)
      PROVE  EventsOK'
  <2>1. \E i \in DOMAIN log : Moves(i) /\ log[i].id = id /\ log[i].to = a
    BY <1>8, HasGot DEF Move, Moves
  <2> QED BY <1>2, <1>6, <1>8, <1>b, <2>1 DEF Move
<1>9. ASSUME NEW id \in TrackerId, Track(id) PROVE EventsOK'
  BY <1>3, <1>6, <1>9 DEF Track
<1>10. ASSUME NEW id \in TrackerId, NEW a \in Account, IssueTracker(id, a) PROVE EventsOK'
  BY <1>2, <1>6, <1>10, <1>b DEF IssueTracker
<1>11. ASSUME NEW a \in Account, NEW granted \in SUBSET Role, ChangeRoles(a, granted) PROVE EventsOK'
  BY <1>4, <1>6, <1>11 DEF ChangeRoles
<1>12. ASSUME MineOther PROVE EventsOK'
  <2>1. <<>> \in Seq(Draft) /\ Sourced(<<>>)
    BY DEF Sourced
  <2> QED BY <2>1, <1>12, MinedOrder DEF MineOther
<1> QED BY <1>5, <1>7, <1>8, <1>9, <1>10, <1>11, <1>12 DEF ChainNext

-----------------------------------------------------------------------------
(* The handler and the rows it writes. *)

\* A row of the table is no missing row, and is made of its three columns.
LEMMA RowColumns ==
  ASSUME NEW row \in Row
  PROVE  /\ row # None
         /\ row = [available |-> row.available, retired |-> row.retired, transferred |-> row.transferred]
         /\ row.available \in Int /\ row.retired \in Int /\ row.transferred \in Int
<1>1. None \notin Row
  BY SyncAssumption
<1>2. row = [available |-> row.available, retired |-> row.retired, transferred |-> row.transferred]
  BY DEF Row
<1>3. row.available \in Int /\ row.retired \in Int /\ row.transferred \in Int
  BY DEF Row
<1> QED BY <1>1, <1>2, <1>3

\* A retirement moves the amount from the available column to the retired one.
LEMMA RetiredRow ==
  ASSUME NEW row \in Row, NEW n \in Int, NEW r, r = Updated(row, n, "retired")
  PROVE  r \in Row /\ r.available = row.available - n /\ r.retired = row.retired + n
<1>1. r = [row EXCEPT !.available = @ - n, !.retired = @ + n]
  BY RowColumns DEF Updated
<1>2. PICK a \in Int, b \in Int, c \in Int : a = row.available - n /\ b = row.retired + n /\ c = row.transferred
  BY RowColumns
<1>3. row = [available |-> row.available, retired |-> row.retired, transferred |-> row.transferred]
  BY RowColumns
<1>4. r = [available |-> a, retired |-> b, transferred |-> c]
  BY ONLY <1>1, <1>2, <1>3
<1> QED BY ONLY <1>2, <1>4 DEF Row

\* A transfer takes it from the available column of the sender's row.
LEMMA TransferredRow ==
  ASSUME NEW row \in Row, NEW n \in Int, NEW r, r = Updated(row, n, "transferred")
  PROVE  r \in Row /\ r.available = row.available - n /\ r.retired = row.retired
<1>1. r = [row EXCEPT !.available = @ - n, !.transferred = @ + n]
  BY RowColumns DEF Updated
<1>2. PICK a \in Int, b \in Int, c \in Int : a = row.available - n /\ b = row.retired /\ c = row.transferred + n
  BY RowColumns
<1>3. row = [available |-> row.available, retired |-> row.retired, transferred |-> row.transferred]
  BY RowColumns
<1>4. r = [available |-> a, retired |-> b, transferred |-> c]
  BY ONLY <1>1, <1>2, <1>3
<1> QED BY ONLY <1>2, <1>4 DEF Row

\* and adds it to that of the receiver's.
LEMMA CreditedRow ==
  ASSUME NEW row \in Row, NEW n \in Int, NEW r, r = Credited(row, n)
  PROVE  r \in Row /\ r.available = row.available + n /\ r.retired = row.retired
<1>1. r = [row EXCEPT !.available = @ + n]
  BY RowColumns DEF Credited
<1>2. PICK a \in Int, b \in Int, c \in Int : a = row.available + n /\ b = row.retired /\ c = row.transferred
  BY RowColumns
<1>3. row = [available |-> row.available, retired |-> row.retired, transferred |-> row.transferred]
  BY RowColumns
<1>4. r = [available |-> a, retired |-> b, transferred |-> c]
  BY ONLY <1>1, <1>2, <1>3
<1> QED BY ONLY <1>2, <1>4 DEF Row

Has(t, a) == balance[t][a] # None
Avail(t, a) == IF balance[t][a] = None THEN 0 ELSE balance[t][a].available
Reti(t, a) == IF balance[t][a] = None THEN 0 ELSE balance[t][a].retired
InHand == log[call[Sync].event]

\* Where a worker may stand with an event, and whether he has written.
Stages(e) ==
  IF OfTracker(e) THEN {<<"start", FALSE>>}
  ELSE IF IsMint(e) THEN {<<"start", FALSE>>, <<"insert", FALSE>>, <<"total", TRUE>>}
  ELSE IF IsRetirement(e) THEN {<<"start", FALSE>>, <<"total", TRUE>>}
  ELSE {<<"start", FALSE>>, <<"credit", TRUE>>, <<"insert", TRUE>>, <<"add", TRUE>>}

\* The event in hand was found in the window; the rows it was read from are there.
HandOK ==
  IF Busy(Sync)
  THEN LET e == InHand
           d == call[Sync]
       IN  /\ e.kind = "transfer" /\ Seen(d.event)
           /\ <<d.at, d.wrote>> \in Stages(e)
           /\ ~OfTracker(e) =>
                /\ IsMint(e) /\ d.wrote => Has(e.id, e.to)
                /\ d.at = "add" => Has(e.id, e.to)
  ELSE call[Sync] = NoCall

\* Whether an event that was handled brought an account something.
Got(t, a) == \E i \in DOMAIN log : Moves(i) /\ log[i].id = t /\ log[i].to = a /\ applied[i] > 0

\* A row is of a known token, and is there once an event brought its account something.
RowsOK ==
  /\ balance \in [TokenId -> [Account -> Row \cup {None}]]
  /\ total \in [TokenId -> [issued : Int, retired : Int]]
  /\ \A t \in TokenId, a \in Account : Has(t, a) => t \in known
  /\ \A t \in TokenId, a \in Account : Got(t, a) => Has(t, a)
  /\ \A i \in 1 .. MaxEvents : i \notin DOMAIN log => applied[i] = 0
  /\ torn \subseteq DOMAIN log
  /\ ignored \subseteq {i \in DOMAIN log : applied[i] > 0}

\* Nobody but the pass handles events.
Alone == \A h \in Worker : h # Sync => call[h] = NoCall

BookInv == SyncInv /\ EventsOK /\ HandOK /\ RowsOK /\ Alone

\* An event in hand, and the accounts it is about.
LEMMA InHandIs ==
  ASSUME BookInv, Busy(Sync)
  PROVE  LET e == InHand
         IN  /\ call[Sync].event \in DOMAIN log /\ e \in Event /\ e.kind = "transfer" /\ e.amount \in Nat
             /\ Moves(call[Sync].event) /\ e.id \in TokenId \cup TrackerId
             /\ OfTracker(e) <=> e.id \notin TokenId
             /\ e.from = Burn => e.to \in Account
             /\ e.from # Burn => e.from \in Account
             /\ IsMint(e) <=> e.from = Burn
             /\ IsRetirement(e) <=> e.to = Burn
             /\ ~IsRetirement(e) => e.to \in Account
             /\ IsMint(e) => ~IsRetirement(e)
             /\ ~OfTracker(e) /\ ~IsMint(e) => Has(e.id, e.from)
<1> DEFINE e == InHand
           i == call[Sync].event
<1>1. i \in DOMAIN log /\ e = log[i] /\ LogOK /\ SkipOK /\ pass.at \in {"net", "tracker"} /\ Seen(i)
  BY DEF BookInv, SyncInv, CallOK, InHand, HandOK
<1>2. e \in Event /\ e.kind = "transfer" /\ Moves(i)
  BY <1>1, Indices DEF BookInv, HandOK, Moves
<1>3. e.amount \in 0 .. 2 /\ e.from \in Account \cup {Burn} /\ e.to \in Account \cup {Burn}
  BY <1>2 DEF Event
<1>4. e.id \in TokenId \cup TrackerId /\ (e.from = Burn => e.to \in Account) /\ (e.from # Burn => GivenBefore(i))
  BY <1>1, <1>2 DEF BookInv, EventsOK
<1>5. Burn \notin Account /\ TokenId \cap TrackerId = {}
  BY ContractAssumption
<1>6. OfTracker(e) <=> e.id \notin TokenId
  BY <1>4, <1>5 DEF OfTracker
<1>7. IsMint(e) <=> e.from = Burn
  BY <1>2 DEF IsMint
<1>8. IsRetirement(e) <=> e.to = Burn
  BY <1>2 DEF IsRetirement
<1>9. ASSUME ~OfTracker(e), e.from # Burn PROVE Has(e.id, e.from)
  <2>1. PICK j \in DOMAIN log : j < i /\ Moves(j) /\ log[j].id = e.id /\ log[j].to = e.from
    BY <1>1, <1>4, <1>9 DEF GivenBefore
  <2>2. log[j].block <= log[i].block /\ j # i
    BY <1>1, <2>1, Indices DEF BookInv, EventsOK
  <2>3. ~OfTracker(log[j]) /\ log[j].id \in TokenId /\ log[j].to \in Account
    BY <1>3, <1>6, <1>9, <2>1 DEF OfTracker
  <2>4. InWindow /\ Running
    BY <1>1 DEF InWindow, Running
  <2>5. /\ pass.from \in Nat /\ pass.to \in Nat /\ pass.next \in Nat
        /\ log[i].block \in pass.from .. pass.to /\ log[i].block \in Nat /\ log[j].block \in Nat
        /\ i \in Nat /\ j \in Nat
    BY <1>1, <2>4, Indices DEF BookInv, SyncInv, PassOK, Seen
  <2>6. CASE log[j].block < pass.from
    <3>1. applied[j] > 0
      BY <1>1, <2>4, <2>6 DEF SkipOK
    <3> QED BY <2>1, <2>3, <3>1 DEF BookInv, RowsOK, Got
  <2>7. CASE ~(log[j].block < pass.from)
    <3>1. log[j].block \in pass.from .. pass.to
      BY <2>2, <2>5, <2>7
    <3>2. Seen(j)
      <4>1. CASE pass.at = "tracker"
        BY <2>3, <3>1, <4>1 DEF Seen
      <4>2. CASE pass.at = "net"
        <5>1. i < pass.next
          BY <1>1, <4>2 DEF Seen
        <5> QED BY <2>1, <2>3, <2>5, <3>1, <4>2, <5>1 DEF Seen
      <4> QED BY <1>1, <4>1, <4>2
    <3>3. applied[j] > 0
      BY <1>1, <2>2, <2>4, <3>2 DEF SkipOK
    <3> QED BY <2>1, <2>3, <3>3 DEF BookInv, RowsOK, Got
  <2> QED BY <2>6, <2>7
<1> QED BY <1>1, <1>2, <1>3, <1>4, <1>5, <1>6, <1>7, <1>8, <1>9

\* What a call did to the rows: at most one account's row of the event's token changes, by dA and dR,
\* and the token's totals by dI and dT.
Booked(e, x, dA, dR, dI, dT) ==
  /\ \A t \in TokenId, a \in Account :
       /\ Avail(t, a)' = Avail(t, a) + (IF t = e.id /\ a = x THEN dA ELSE 0)
       /\ Reti(t, a)' = Reti(t, a) + (IF t = e.id /\ a = x THEN dR ELSE 0)
       /\ Has(t, a) => Has(t, a)'
       /\ Has(t, a)' => t \in known
  /\ \A t \in TokenId :
       /\ total'[t].issued = total[t].issued + (IF t = e.id THEN dI ELSE 0)
       /\ total'[t].retired = total[t].retired + (IF t = e.id THEN dT ELSE 0)
  /\ balance' \in [TokenId -> [Account -> Row \cup {None}]]
  /\ total' \in [TokenId -> [issued : Int, retired : Int]]

\* The call is made and the event stays in hand,
GoesOn(e, w) ==
  /\ Busy(Sync)' /\ call'[Sync].event = call[Sync].event /\ call'[Sync].wrote = w
  /\ <<call'[Sync].at, w>> \in Stages(e)
  /\ UNCHANGED <<applied, ignored>>
\* or it was the last one,
IsDone == call'[Sync] = NoCall /\ Handled(call[Sync].event) /\ UNCHANGED ignored
\* or the event is dropped.
IsDropped == call'[Sync] = NoCall /\ Handled(call[Sync].event) /\ ignored' = ignored \cup {call[Sync].event}

\* The calls of the handlers.
BookCall(e, w) ==
  LET n == e.amount
  IN  \/ IsMint(e) /\ ~OfTracker(e) /\ ~w /\ Booked(e, e.to, 0, 0, 0, 0) /\ IsDropped
         /\ Has(e.id, e.to)'
      \/ IsMint(e) /\ ~OfTracker(e) /\ ~w /\ Booked(e, e.to, 0, 0, 0, 0) /\ GoesOn(e, FALSE)
         /\ call'[Sync].at = "insert"
      \/ IsMint(e) /\ ~OfTracker(e) /\ ~w /\ Booked(e, e.to, n, 0, 0, 0) /\ GoesOn(e, TRUE)
         /\ call'[Sync].at = "total" /\ Has(e.id, e.to)'
      \/ IsMint(e) /\ ~OfTracker(e) /\ w /\ Booked(e, e.to, 0, 0, n, 0) /\ IsDone /\ Has(e.id, e.to)'
      \/ IsRetirement(e) /\ ~OfTracker(e) /\ ~w /\ Booked(e, e.from, -n, n, 0, 0) /\ GoesOn(e, TRUE)
         /\ call'[Sync].at = "total"
      \/ IsRetirement(e) /\ ~OfTracker(e) /\ w /\ Booked(e, e.from, 0, 0, 0, n) /\ IsDone
      \/ ~IsMint(e) /\ ~IsRetirement(e) /\ ~OfTracker(e) /\ ~w /\ Booked(e, e.from, -n, 0, 0, 0) /\ GoesOn(e, TRUE)
         /\ call'[Sync].at = "credit"
      \/ ~IsMint(e) /\ ~IsRetirement(e) /\ ~OfTracker(e) /\ w /\ Booked(e, e.from, 0, 0, 0, 0) /\ GoesOn(e, TRUE)
         /\ (call'[Sync].at = "add" => Has(e.id, e.to)')
      \/ ~IsMint(e) /\ ~IsRetirement(e) /\ ~OfTracker(e) /\ w /\ Booked(e, e.to, n, 0, 0, 0) /\ IsDone
         /\ Has(e.id, e.to)'
      \/ OfTracker(e) /\ ~w /\ Booked(e, e.to, 0, 0, 0, 0) /\ IsDone

\* A call that writes no row and no total.
LEMMA NothingBooked ==
  ASSUME RowsOK, UNCHANGED <<balance, total>>, NEW e, NEW x
  PROVE  Booked(e, x, 0, 0, 0, 0)
<1>1. \A t \in TokenId, a \in Account : /\ Avail(t, a) \in Int /\ Reti(t, a) \in Int
                                         /\ Avail(t, a)' = Avail(t, a) /\ Reti(t, a)' = Reti(t, a)
                                         /\ Has(t, a)' = Has(t, a)
  BY DEF Avail, Reti, RowsOK, Row, Has
<1>2. \A t \in TokenId : total[t].issued \in Int /\ total[t].retired \in Int /\ total'[t] = total[t]
  BY DEF RowsOK
<1> QED BY <1>1, <1>2 DEF Booked, RowsOK

\* A call that writes one row.
LEMMA RowBooked ==
  ASSUME RowsOK, NEW e, e.id \in TokenId, NEW x \in Account, NEW r \in Row,
         balance' = [balance EXCEPT ![e.id][x] = r], UNCHANGED total, e.id \in known,
         NEW dA \in Int, NEW dR \in Int, r.available = Avail(e.id, x) + dA, r.retired = Reti(e.id, x) + dR
  PROVE  Booked(e, x, dA, dR, 0, 0) /\ Has(e.id, x)'
<1>0. r # None /\ r \in Row \cup {None}
  BY SyncAssumption
<1>1. balance' \in [TokenId -> [Account -> Row \cup {None}]]
  BY <1>0 DEF RowsOK
<1>2. \A t \in TokenId, a \in Account : balance'[t][a] = IF t = e.id /\ a = x THEN r ELSE balance[t][a]
  BY DEF RowsOK
<1>3. \A t \in TokenId, a \in Account : Avail(t, a) \in Int /\ Reti(t, a) \in Int
  BY DEF Avail, Reti, RowsOK, Row
<1>4. ASSUME NEW t \in TokenId, NEW a \in Account
      PROVE  /\ Avail(t, a)' = Avail(t, a) + (IF t = e.id /\ a = x THEN dA ELSE 0)
             /\ Reti(t, a)' = Reti(t, a) + (IF t = e.id /\ a = x THEN dR ELSE 0)
             /\ Has(t, a) => Has(t, a)'
             /\ Has(t, a)' => t \in known
  <2>1. CASE t = e.id /\ a = x
    <3>1. balance'[t][a] = r
      BY <1>2, <2>1
    <3> QED BY <1>0, <2>1, <3>1 DEF Avail, Reti, Has
  <2>2. CASE ~(t = e.id /\ a = x)
    <3>1. balance'[t][a] = balance[t][a]
      BY <1>2, <2>2
    <3>2. Avail(t, a)' = Avail(t, a) /\ Reti(t, a)' = Reti(t, a) /\ Has(t, a)' = Has(t, a)
      BY <3>1 DEF Avail, Reti, Has
    <3> QED BY <1>3, <2>2, <3>2 DEF RowsOK
  <2> QED BY <2>1, <2>2
<1>5. \A t \in TokenId : total[t].issued \in Int /\ total[t].retired \in Int /\ total'[t] = total[t]
  BY DEF RowsOK
<1>6. Has(e.id, x)'
  BY <1>0, <1>2 DEF Has
<1> QED BY <1>1, <1>4, <1>5, <1>6 DEF Booked, RowsOK

\* A call that writes what is available in one row.
LEMMA AvailableBooked ==
  ASSUME RowsOK, NEW e, e.id \in TokenId, NEW x \in Account, NEW r \in Row,
         balance' = [balance EXCEPT ![e.id][x] = r], UNCHANGED total, e.id \in known,
         NEW dA \in Int, r.available = Avail(e.id, x) + dA, r.retired = Reti(e.id, x)
  PROVE  Booked(e, x, dA, 0, 0, 0) /\ Has(e.id, x)'
<1>1. PICK d \in Int : d = 0
  OBVIOUS
<1>2. Reti(e.id, x) \in Int
  BY DEF Reti, RowsOK, Row
<1>3. r.retired = Reti(e.id, x) + d
  BY <1>1, <1>2
<1>4. Booked(e, x, dA, d, 0, 0) /\ Has(e.id, x)'
  BY <1>3, RowBooked
<1> QED BY <1>1, <1>4

\* A call that writes a total of the event's token.
LEMMA TotalBooked ==
  ASSUME RowsOK, UNCHANGED balance, NEW e, e.id \in TokenId, e.id \in known, e.amount \in Nat, NEW x
  PROVE  /\ total' = [total EXCEPT ![e.id].issued = Added(e.id, @, e.amount)] => Booked(e, x, 0, 0, e.amount, 0)
         /\ total' = [total EXCEPT ![e.id].retired = Added(e.id, @, e.amount)] => Booked(e, x, 0, 0, 0, e.amount)
<1>1. \A t \in TokenId, a \in Account : /\ Avail(t, a) \in Int /\ Reti(t, a) \in Int
                                         /\ Avail(t, a)' = Avail(t, a) /\ Reti(t, a)' = Reti(t, a)
                                         /\ Has(t, a)' = Has(t, a)
  BY DEF Avail, Reti, RowsOK, Row, Has
<1>2. \A t \in TokenId : total[t].issued \in Int /\ total[t].retired \in Int
  BY DEF RowsOK
<1>3. \A m : Added(e.id, m, e.amount) = m + e.amount
  BY DEF Added
<1>4. ASSUME total' = [total EXCEPT ![e.id].issued = Added(e.id, @, e.amount)]
      PROVE  Booked(e, x, 0, 0, e.amount, 0)
  <2>1. total' = [total EXCEPT ![e.id] = [total[e.id] EXCEPT !.issued = total[e.id].issued + e.amount]]
    BY <1>3, <1>4 DEF RowsOK
  <2>2. PICK r : r = [total[e.id] EXCEPT !.issued = total[e.id].issued + e.amount]
    OBVIOUS
  <2>3. /\ r \in [issued : Int, retired : Int]
        /\ r.issued = total[e.id].issued + e.amount /\ r.retired = total[e.id].retired
    BY <1>2, <2>2 DEF RowsOK
  <2>4. /\ total' \in [TokenId -> [issued : Int, retired : Int]]
        /\ \A t \in TokenId : total'[t] = IF t = e.id THEN r ELSE total[t]
    BY <2>1, <2>2, <2>3 DEF RowsOK
  <2> QED BY <1>1, <1>2, <2>3, <2>4 DEF Booked, RowsOK
<1>5. ASSUME total' = [total EXCEPT ![e.id].retired = Added(e.id, @, e.amount)]
      PROVE  Booked(e, x, 0, 0, 0, e.amount)
  <2>1. total' = [total EXCEPT ![e.id] = [total[e.id] EXCEPT !.retired = total[e.id].retired + e.amount]]
    BY <1>3, <1>5 DEF RowsOK
  <2>2. PICK r : r = [total[e.id] EXCEPT !.retired = total[e.id].retired + e.amount]
    OBVIOUS
  <2>3. /\ r \in [issued : Int, retired : Int]
        /\ r.retired = total[e.id].retired + e.amount /\ r.issued = total[e.id].issued
    BY <1>2, <2>2 DEF RowsOK
  <2>4. /\ total' \in [TokenId -> [issued : Int, retired : Int]]
        /\ \A t \in TokenId : total'[t] = IF t = e.id THEN r ELSE total[t]
    BY <2>1, <2>2, <2>3 DEF RowsOK
  <2> QED BY <1>1, <1>2, <2>3, <2>4 DEF Booked, RowsOK
<1> QED BY <1>4, <1>5

\* The call after the next database call is chosen.
LEMMA GoesTo ==
  ASSUME CallOK, Busy(Sync), NEW e, NEW at \in {"insert", "total", "credit", "add"}, NEW w \in BOOLEAN,
         Goto(Sync, at, w), <<at, w>> \in Stages(e), UNCHANGED <<applied, ignored>>
  PROVE  GoesOn(e, w) /\ call'[Sync].at = at
<1>1. call' = [call EXCEPT ![Sync] = [call[Sync] EXCEPT !.at = at, !.wrote = w]]
  BY DEF CallOK, Goto
<1>2. IsCall(call[Sync])
  BY DEF CallOK
<1>3. call'[Sync] = [call[Sync] EXCEPT !.at = at, !.wrote = w]
  BY <1>1, Constants DEF CallOK
<1>4. call'[Sync].at = at /\ call'[Sync].wrote = w /\ call'[Sync].event = call[Sync].event
  BY ONLY <1>2, <1>3 DEF IsCall
<1>5. Busy(Sync)'
  BY <1>4, NoCallIs DEF Busy
<1> QED BY <1>4, <1>5 DEF GoesOn

\* The handlers make these calls and no others.
LEMMA HandlerBooks ==
  ASSUME BookInv, HandleTransfer, UNCHANGED <<height, log, roles, hardhat>>,
         NEW e, e = InHand, NEW w, w = call[Sync].wrote
  PROVE  /\ BookCall(e, w) /\ Busy(Sync)
         /\ UNCHANGED <<known, pass, torn, edges, failures>>
<1>0. Busy(Sync) /\ UNCHANGED <<known, pass, torn, edges, failures>>
  BY DEF HandleTransfer, TokenTransfer, TrackerTransfer, Busy
<1>i. PICK i, at : i = call[Sync].event /\ at = call[Sync].at
  OBVIOUS
<1>1. /\ i \in DOMAIN log /\ e \in Event /\ e.kind = "transfer" /\ e.amount \in Nat
      /\ e.id \in TokenId \cup TrackerId
      /\ OfTracker(e) <=> e.id \notin TokenId
      /\ e.from = Burn => e.to \in Account
      /\ e.from # Burn => e.from \in Account
      /\ IsMint(e) <=> e.from = Burn
      /\ IsRetirement(e) <=> e.to = Burn
      /\ ~IsRetirement(e) => e.to \in Account
      /\ IsMint(e) => ~IsRetirement(e)
      /\ ~OfTracker(e) /\ ~IsMint(e) => Has(e.id, e.from)
  BY <1>0, <1>i, InHandIs
<1>2. /\ <<at, w>> \in Stages(e) /\ RowsOK /\ CallOK
      /\ ~OfTracker(e) => (IsMint(e) /\ w => Has(e.id, e.to)) /\ (at = "add" => Has(e.id, e.to))
  BY <1>0, <1>i DEF BookInv, HandOK, SyncInv
<1>3. Completed(Sync) => call'[Sync] = NoCall /\ Handled(i)
  BY <1>2, <1>i, Constants DEF Completed, CallOK
<1>4. \A t \in TokenId, a \in Account :
        Has(t, a) => balance[t][a] \in Row /\ t \in known
                     /\ Avail(t, a) = balance[t][a].available /\ Reti(t, a) = balance[t][a].retired
                     /\ Avail(t, a) \in Int /\ Reti(t, a) \in Int
  BY <1>2 DEF RowsOK, Has, Avail, Reti, Row
<1>5. \A t \in TokenId, a \in Account : ~Has(t, a) => Avail(t, a) = 0 /\ Reti(t, a) = 0 /\ balance[t][a] = None
  BY DEF Has, Avail, Reti
<1>6. e = log[i]
  BY <1>i DEF InHand
<1>s. SUFFICES BookCall(e, w)
  BY <1>0
<1>7. CASE OfTracker(e)
  <2>1. w = FALSE
    BY <1>2, <1>7 DEF Stages
  <2>2. TrackerTransfer(Sync) /\ UNCHANGED <<total, balance, ignored>>
    BY <1>i, <1>6, <1>7 DEF HandleTransfer, TokenTransfer, TrackerTransfer
  <2>3. Completed(Sync)
    BY <2>2 DEF TrackerTransfer
  <2>4. Booked(e, e.to, 0, 0, 0, 0) /\ IsDone
    BY <1>i, <1>2, <1>3, <2>2, <2>3, NothingBooked DEF IsDone
  <2> QED BY <1>7, <2>1, <2>4 DEF BookCall
<1>8. CASE ~OfTracker(e) /\ IsMint(e)
  <2>1. MintStep(Sync, e)
    BY <1>i, <1>1, <1>6, <1>8 DEF HandleTransfer, TokenTransfer, TrackerTransfer, RetireStep, TransferStep
  <2>2. e.id \in TokenId /\ e.to \in Account
    BY <1>1, <1>8
  <2>3. CASE at = "start" /\ Has(e.id, e.to) /\ Completed(Sync) /\ ignored' = ignored \cup {i}
             /\ UNCHANGED <<balance, total>>
    <3>1. w = FALSE
      BY <1>2, <1>8, <2>3 DEF Stages
    <3>2. Booked(e, e.to, 0, 0, 0, 0) /\ IsDropped
      BY <1>i, <1>2, <1>3, <2>3, NothingBooked DEF IsDropped
    <3>3. Has(e.id, e.to)'
      BY <2>3 DEF Has
    <3> QED BY <1>8, <3>1, <3>2, <3>3 DEF BookCall
  <2>4. CASE at = "start" /\ Goto(Sync, "insert", FALSE) /\ UNCHANGED <<balance, total, applied, ignored>>
    <3>1. w = FALSE
      BY <1>2, <1>8, <2>4 DEF Stages
    <3>2. <<"insert", FALSE>> \in Stages(e)
      BY <1>8 DEF Stages
    <3>3. Booked(e, e.to, 0, 0, 0, 0) /\ GoesOn(e, FALSE) /\ call'[Sync].at = "insert"
      BY <1>0, <1>2, <2>4, <3>2, NothingBooked, GoesTo
    <3> QED BY <1>8, <3>1, <3>3 DEF BookCall
  <2>5. CASE at = "insert" /\ Insert(e.id, e.to, e.amount) /\ Goto(Sync, "total", TRUE)
             /\ UNCHANGED <<total, applied, ignored>>
    <3>1. w = FALSE
      BY <1>2, <1>8, <2>5 DEF Stages
    <3>2. <<"total", TRUE>> \in Stages(e)
      BY <1>8 DEF Stages
    <3>3. e.id \in known /\ ~Has(e.id, e.to) /\ balance' = [balance EXCEPT ![e.id][e.to] = NewRow(e.amount)]
      BY <2>5 DEF Insert, Insertable, Has
    <3>4. PICK r : r = NewRow(e.amount)
      OBVIOUS
    <3>r. r \in Row /\ r.available = e.amount /\ r.retired = 0
      BY <1>1, <3>4 DEF NewRow, Row
    <3>7. /\ r.available = Avail(e.id, e.to) + e.amount /\ e.amount \in Int
          /\ r.retired = Reti(e.id, e.to)
      BY <1>1, <1>5, <2>2, <3>3, <3>r
    <3>5. Booked(e, e.to, e.amount, 0, 0, 0) /\ Has(e.id, e.to)'
      BY <1>2, <2>2, <2>5, <3>3, <3>4, <3>7, <3>r, AvailableBooked
    <3>6. GoesOn(e, TRUE) /\ call'[Sync].at = "total"
      BY <1>0, <1>2, <2>5, <3>2, GoesTo
    <3> QED BY <1>8, <3>1, <3>5, <3>6 DEF BookCall
  <2>6. CASE at = "total" /\ Completed(Sync) /\ total' = [total EXCEPT ![e.id].issued = Added(e.id, @, e.amount)]
             /\ UNCHANGED <<balance, ignored>>
    <3>1. w = TRUE
      BY <1>2, <1>8, <2>6 DEF Stages
    <3>2. Has(e.id, e.to) /\ e.id \in known
      BY <1>2, <1>4, <1>8, <2>2, <3>1
    <3>3. Booked(e, e.to, 0, 0, e.amount, 0)
      BY <1>1, <1>2, <2>2, <2>6, <3>2, TotalBooked
    <3>4. IsDone /\ Has(e.id, e.to)'
      BY <1>i, <1>3, <2>6, <3>2 DEF IsDone, Has
    <3> QED BY <1>8, <3>1, <3>3, <3>4 DEF BookCall
  <2> QED BY <1>i, <2>1, <2>3, <2>4, <2>5, <2>6 DEF MintStep, Has
<1>9. CASE ~OfTracker(e) /\ IsRetirement(e)
  <2>0. ~IsMint(e)
    BY <1>1, <1>9
  <2>1. RetireStep(Sync, e) /\ UNCHANGED ignored
    BY <1>i, <1>6, <1>9, <2>0 DEF HandleTransfer, TokenTransfer, TrackerTransfer, MintStep, RetireStep, TransferStep
  <2>2. e.id \in TokenId /\ e.from \in Account /\ Has(e.id, e.from) /\ e.id \in known
    BY <1>1, <1>4, <1>9, <2>0
  <2>3. CASE at = "start" /\ Debit(e.id, e.from, e.amount, "retired") /\ Goto(Sync, "total", TRUE)
             /\ UNCHANGED <<total, applied>>
    <3>1. w = FALSE
      BY <1>2, <1>9, <2>0, <2>3 DEF Stages
    <3>2. <<"total", TRUE>> \in Stages(e)
      BY <1>9, <2>0 DEF Stages
    <3>3. PICK r, row, n : r = Updated(row, n, "retired") /\ row = balance[e.id][e.from] /\ n = e.amount
      OBVIOUS
    <3>r. row \in Row /\ n \in Int
      BY <1>1, <1>4, <2>2, <3>3
    <3>4. r \in Row /\ r.available = Avail(e.id, e.from) - e.amount /\ r.retired = Reti(e.id, e.from) + e.amount
      <4>1. row.available = Avail(e.id, e.from) /\ row.retired = Reti(e.id, e.from)
        BY <1>4, <2>2, <3>3
      <4>2. r = Updated(row, n, "retired")
        BY <3>3
      <4>3. r \in Row /\ r.available = row.available - n /\ r.retired = row.retired + n
        BY ONLY <3>r, <4>2, RetiredRow
      <4> QED BY <3>3, <4>1, <4>3
    <3>5. balance' = [balance EXCEPT ![e.id][e.from] = r]
      BY <1>2, <2>2, <2>3, <3>3 DEF Debit, RowsOK
    <3>6. /\ r.available = Avail(e.id, e.from) + (-e.amount) /\ -e.amount \in Int /\ e.amount \in Int
      BY <1>1, <1>4, <2>2, <3>4
    <3>7. Booked(e, e.from, -e.amount, e.amount, 0, 0)
      BY <1>2, <2>2, <2>3, <3>4, <3>5, <3>6, RowBooked
    <3>8. GoesOn(e, TRUE) /\ call'[Sync].at = "total"
      BY <1>0, <1>2, <2>1, <2>3, <3>2, GoesTo
    <3> QED BY <1>9, <3>1, <3>7, <3>8 DEF BookCall
  <2>4. CASE at = "total" /\ Completed(Sync) /\ total' = [total EXCEPT ![e.id].retired = Added(e.id, @, e.amount)]
             /\ UNCHANGED balance
    <3>1. w = TRUE
      BY <1>2, <1>9, <2>0, <2>4 DEF Stages
    <3>2. Booked(e, e.from, 0, 0, 0, e.amount)
      BY <1>1, <1>2, <2>2, <2>4, TotalBooked
    <3>3. IsDone
      BY <1>i, <1>3, <2>1, <2>4 DEF IsDone
    <3> QED BY <1>9, <3>1, <3>2, <3>3 DEF BookCall
  <2> QED BY <1>i, <2>1, <2>3, <2>4 DEF RetireStep
<1>10. CASE ~OfTracker(e) /\ ~IsMint(e) /\ ~IsRetirement(e)
  <2>1. TransferStep(Sync, e) /\ UNCHANGED <<ignored, total>>
    BY <1>i, <1>6, <1>10 DEF HandleTransfer, TokenTransfer, TrackerTransfer, MintStep, RetireStep, TransferStep
  <2>2. /\ e.id \in TokenId /\ e.from \in Account /\ e.to \in Account
        /\ Has(e.id, e.from) /\ e.id \in known
    BY <1>1, <1>4, <1>10
  <2>s. Stages(e) = {<<"start", FALSE>>, <<"credit", TRUE>>, <<"insert", TRUE>>, <<"add", TRUE>>}
    BY <1>10 DEF Stages
  <2>3. CASE at = "start" /\ Debit(e.id, e.from, e.amount, "transferred") /\ Goto(Sync, "credit", TRUE)
             /\ UNCHANGED applied
    <3>1. w = FALSE
      BY <1>2, <2>3, <2>s
    <3>3. PICK r, row, n : r = Updated(row, n, "transferred") /\ row = balance[e.id][e.from] /\ n = e.amount
      OBVIOUS
    <3>r. row \in Row /\ n \in Int
      BY <1>1, <1>4, <2>2, <3>3
    <3>4. r \in Row /\ r.available = Avail(e.id, e.from) - e.amount /\ r.retired = Reti(e.id, e.from)
      <4>1. row.available = Avail(e.id, e.from) /\ row.retired = Reti(e.id, e.from)
        BY <1>4, <2>2, <3>3
      <4>2. r = Updated(row, n, "transferred")
        BY <3>3
      <4>3. r \in Row /\ r.available = row.available - n /\ r.retired = row.retired
        BY ONLY <3>r, <4>2, TransferredRow
      <4> QED BY <3>3, <4>1, <4>3
    <3>5. balance' = [balance EXCEPT ![e.id][e.from] = r]
      BY <1>2, <2>2, <2>3, <3>3 DEF Debit, RowsOK
    <3>6. /\ r.available = Avail(e.id, e.from) + (-e.amount) /\ -e.amount \in Int
      BY <1>1, <1>4, <2>2, <3>4
    <3>7. Booked(e, e.from, -e.amount, 0, 0, 0)
      BY <1>2, <2>1, <2>2, <3>4, <3>5, <3>6, AvailableBooked
    <3>8. GoesOn(e, TRUE) /\ call'[Sync].at = "credit"
      BY <1>0, <1>2, <2>1, <2>3, <2>s, GoesTo
    <3> QED BY <1>10, <3>1, <3>7, <3>8 DEF BookCall
  <2>4. CASE at = "credit" /\ Goto(Sync, IF balance[e.id][e.to] = None THEN "insert" ELSE "add", TRUE)
             /\ UNCHANGED <<balance, applied>>
    <3>1. w = TRUE
      BY <1>2, <2>4, <2>s
    <3>2. Booked(e, e.from, 0, 0, 0, 0)
      BY <1>2, <2>1, <2>4, NothingBooked
    <3>3. PICK next \in {"insert", "add"} : /\ next = IF balance[e.id][e.to] = None THEN "insert" ELSE "add"
                                            /\ Goto(Sync, next, TRUE)
      BY <2>4
    <3>4. GoesOn(e, TRUE) /\ call'[Sync].at = next
      BY <1>0, <1>2, <2>1, <2>4, <2>s, <3>3, GoesTo
    <3>5. next = "add" => Has(e.id, e.to)'
      BY <2>4, <3>3 DEF Has
    <3> QED BY <1>10, <3>1, <3>2, <3>4, <3>5 DEF BookCall
  <2>5. CASE at = "insert" /\ Insert(e.id, e.to, e.amount) /\ Completed(Sync)
    <3>1. w = TRUE
      BY <1>2, <2>5, <2>s
    <3>3. e.id \in known /\ ~Has(e.id, e.to) /\ balance' = [balance EXCEPT ![e.id][e.to] = NewRow(e.amount)]
      BY <2>5 DEF Insert, Insertable, Has
    <3>4. PICK r : r = NewRow(e.amount)
      OBVIOUS
    <3>r. r \in Row /\ r.available = e.amount /\ r.retired = 0
      BY <1>1, <3>4 DEF NewRow, Row
    <3>7. /\ r.available = Avail(e.id, e.to) + e.amount /\ e.amount \in Int
          /\ r.retired = Reti(e.id, e.to)
      BY <1>1, <1>5, <2>2, <3>3, <3>r
    <3>5. Booked(e, e.to, e.amount, 0, 0, 0) /\ Has(e.id, e.to)'
      BY <1>2, <2>1, <2>2, <2>5, <3>3, <3>4, <3>7, <3>r, AvailableBooked
    <3>6. IsDone
      BY <1>i, <1>3, <2>1, <2>5 DEF IsDone
    <3> QED BY <1>10, <3>1, <3>5, <3>6 DEF BookCall
  <2>6. CASE at = "add" /\ Completed(Sync) /\ balance' = [balance EXCEPT ![e.id][e.to] = Credited(@, e.amount)]
    <3>1. w = TRUE /\ Has(e.id, e.to)
      BY <1>2, <1>10, <2>6, <2>s
    <3>3. PICK r, row, n : r = Credited(row, n) /\ row = balance[e.id][e.to] /\ n = e.amount
      OBVIOUS
    <3>r. row \in Row /\ n \in Int
      BY <1>1, <1>4, <2>2, <3>1, <3>3
    <3>4. r \in Row /\ r.available = Avail(e.id, e.to) + e.amount /\ r.retired = Reti(e.id, e.to)
      <4>1. row.available = Avail(e.id, e.to) /\ row.retired = Reti(e.id, e.to)
        BY <1>4, <2>2, <3>1, <3>3
      <4>2. r = Credited(row, n)
        BY <3>3
      <4>3. r \in Row /\ r.available = row.available + n /\ r.retired = row.retired
        BY ONLY <3>r, <4>2, CreditedRow
      <4> QED BY <3>3, <4>1, <4>3
    <3>5. balance' = [balance EXCEPT ![e.id][e.to] = r]
      BY <1>2, <2>2, <2>6, <3>3 DEF RowsOK
    <3>6. e.amount \in Int
      BY <1>1, <1>4, <2>2, <3>1, <3>4
    <3>7. Booked(e, e.to, e.amount, 0, 0, 0) /\ Has(e.id, e.to)'
      BY <1>2, <2>1, <2>2, <3>4, <3>5, <3>6, AvailableBooked
    <3>8. IsDone
      BY <1>i, <1>3, <2>1, <2>6 DEF IsDone
    <3> QED BY <1>10, <3>1, <3>7, <3>8 DEF BookCall
  <2> QED BY <1>i, <2>1, <2>3, <2>4, <2>5, <2>6 DEF TransferStep
<1> QED BY <1>7, <1>8, <1>9, <1>10

-----------------------------------------------------------------------------
(* What a step may do to the books. *)

Mined == Grew /\ EventsOK' /\ UNCHANGED <<hardhat, tables, history, lastSync, pass, call, failures>>
Cleared == ~Busy(Sync) /\ EmptyTables /\ UNCHANGED <<log, call>>
Kept == /\ UNCHANGED <<log, total, balance, applied, ignored, torn, call>> /\ known \subseteq known'
        /\ Busy(Sync) => UNCHANGED pass
Taken(i) ==
  /\ i \in DOMAIN log /\ Moves(i) /\ ~Busy(Sync) /\ Start(Sync, i) /\ Seen(i)'
  /\ UNCHANGED <<log, known, total, balance, applied, ignored, torn>>
Passed(i) ==
  /\ i \in DOMAIN log /\ ~Moves(i) /\ ~Busy(Sync) /\ Handled(i) /\ known \subseteq known'
  /\ UNCHANGED <<log, total, balance, ignored, torn, call>>
Called(e, w) ==
  /\ Busy(Sync) /\ e = InHand /\ w = call[Sync].wrote /\ BookCall(e, w)
  /\ UNCHANGED <<log, known, torn, pass>>
Lost ==
  /\ call'[Sync] = NoCall
  /\ torn' = IF call[Sync].wrote THEN torn \cup {call[Sync].event} ELSE torn
  /\ known \subseteq known' /\ UNCHANGED <<log, total, balance, applied, ignored>>

\* No call is made with nothing in hand.
LEMMA NoCallFields == NoCall.wrote = FALSE /\ NoCall.event = 0
  BY DEF NoCall

\* A step of a pass other than one of a handler, by what it does to the books.
LEMMA PassKinds ==
  ASSUME BookInv, SyncStep, ~HandleTransfer, ~(CallThrows(Sync) /\ PassFails), UNCHANGED <<height, log, roles, hardhat>>
  PROVE  Cleared \/ Kept \/ \E i : Taken(i) \/ Passed(i)
<1>i. CallOK /\ LogOK /\ PassOK
  BY DEF BookInv, SyncInv
<1>b. pass.at \notin {"net", "tracker"} => ~Busy(Sync)
  BY <1>i DEF CallOK
<1>1. CASE StartupSync
  <2>1. ~Busy(Sync)
    BY <1>1, <1>b DEF StartupSync
  <2>2. UNCHANGED call /\ (EmptyTables \/ UNCHANGED <<tables, walletRoles, history>>)
    BY <1>1 DEF StartupSync
  <2> QED BY <2>1, <2>2 DEF Cleared, Kept, tables, history
<1>2. CASE RunManualSync \/ ReadCurrentBlock \/ EventsDone \/ (\E a \in Account : ReadRoles(a))
           \/ EnsureWalletWithRoles \/ SaveLastSync
  <2>1. ~Busy(Sync)
    BY <1>2, <1>b DEF RunManualSync, ReadCurrentBlock, EventsDone, ReadRoles, EnsureWalletWithRoles, SaveLastSync, Busy
  <2>2. UNCHANGED <<known, total, balance, applied, ignored, torn, call>>
    BY <1>2 DEF RunManualSync, ReadCurrentBlock, EventsDone, ReadRoles, EnsureWalletWithRoles, SaveLastSync,
                tables, history
  <2> QED BY <2>1, <2>2 DEF Kept
<1>3. CASE FillTrackers \/ FillTokens
  <2>1. PICK at, ids, next : at \in {"trackers", "tokens"} /\ FillTable(at, ids, next)
    BY <1>3 DEF FillTrackers, FillTokens
  <2>2. ~Busy(Sync)
    BY <2>1, <1>b DEF FillTable
  <2>3. known \subseteq known' /\ UNCHANGED <<total, balance, applied, ignored, torn, call>>
    BY <2>1 DEF FillTable, history
  <2> QED BY <2>2, <2>3 DEF Kept
<1>4. CASE TakeEvent
  <2>1. PICK i, e : i = Min(Todo) /\ e = log[i]
    OBVIOUS
  <2>2. Todo \in SUBSET Nat /\ Todo # {}
    BY <1>4, <1>i, Indices DEF Todo, TakeEvent
  <2>3. i \in Todo
    BY <2>1, <2>2, LeastEvent
  <2>4. i \in DOMAIN log /\ i \in Nat /\ log[i].block \in pass.from .. pass.to /\ OfTracker(log[i]) = (pass.at = "tracker")
    BY <2>3, <1>i, Indices DEF Todo
  <2>5. /\ pass.at \in {"net", "tracker"} /\ ~Busy(Sync) /\ UNCHANGED <<total, balance, ignored, torn>>
        /\ \/ e.kind = "transfer" /\ Start(Sync, i) /\ UNCHANGED <<known, applied>>
           \/ e.kind # "transfer" /\ Handled(i) /\ UNCHANGED call /\ known \subseteq known'
    BY <1>4, <2>1 DEF TakeEvent, Busy
  <2>6. PICK f : pass' = [pass EXCEPT !.next = i + 1, !.found = f]
    <3>1. PICK f : f = IF e.kind = "role" THEN pass.found \cup {e.to} ELSE pass.found
      OBVIOUS
    <3> QED BY <1>4, <2>1, <3>1 DEF TakeEvent
  <2>7. pass'.at = pass.at /\ pass'.from = pass.from /\ pass'.to = pass.to /\ pass'.next = i + 1
    BY ONLY <2>6, <1>i DEF PassOK, IsPass
  <2>8. Seen(i)'
    BY <2>4, <2>5, <2>7 DEF Seen, OfTracker
  <2>9. CASE e.kind = "transfer" /\ Start(Sync, i) /\ UNCHANGED <<known, applied>>
    <3>1. Taken(i)
      BY <2>1, <2>4, <2>5, <2>8, <2>9 DEF Taken, Moves
    <3> QED BY <3>1
  <2>10. CASE e.kind # "transfer" /\ Handled(i) /\ UNCHANGED call /\ known \subseteq known'
    <3>1. Passed(i)
      BY <2>1, <2>4, <2>5, <2>10 DEF Passed, Moves
    <3> QED BY <3>1
  <2> QED BY <2>5, <2>9, <2>10
<1> QED BY <1>1, <1>2, <1>3, <1>4 DEF SyncStep

\* A pass that fails, or a server that dies, drops the event in hand.
LEMMA FailureKind ==
  ASSUME BookInv, PassFails \/ Crash, UNCHANGED <<height, log, roles, hardhat>>
  PROVE  Lost
<1>i. CallOK /\ Alone /\ Sync \in Worker
  BY Constants DEF BookInv, SyncInv
<1>1. CASE PassFails
  <2>1. Abandon(Sync) /\ UNCHANGED <<total, balance, applied, ignored>> /\ known \subseteq known'
    BY <1>1 DEF PassFails
  <2>2. call'[Sync] = NoCall
    BY <1>i, <2>1 DEF Abandon, CallOK
  <2> QED BY <2>1, <2>2 DEF Lost, Abandon
<1>2. CASE Crash
  <2>1. /\ call' = [h \in Worker |-> NoCall] /\ UNCHANGED <<known, total, balance, applied, ignored>>
        /\ torn' = torn \cup {call[h].event : h \in {w \in Worker : call[w].wrote}}
    BY <1>2 DEF Crash, ServerDies, tables
  <2>2. \A h \in Worker : h # Sync => ~call[h].wrote
    BY <1>i, NoCallFields DEF Alone
  <2>3. CASE call[Sync].wrote
    <3>1. {w \in Worker : call[w].wrote} = {Sync}
      BY <1>i, <2>2, <2>3
    <3>2. {call[h].event : h \in {Sync}} = {call[Sync].event}
      OBVIOUS
    <3> QED BY <1>i, <2>1, <2>3, <3>1, <3>2 DEF Lost
  <2>4. CASE ~call[Sync].wrote
    <3>1. {w \in Worker : call[w].wrote} = {}
      BY <2>2, <2>4
    <3>2. {call[h].event : h \in {w \in Worker : call[w].wrote}} = {}
      BY <3>1
    <3> QED BY <1>i, <2>1, <2>4, <3>2 DEF Lost
  <2> QED BY <2>3, <2>4
<1> QED BY <1>1, <1>2

\* Every step is one of these.
LEMMA StepKinds ==
  ASSUME BookInv, [Next]_syncVars
  PROVE  \/ Mined \/ Cleared \/ Kept \/ Lost
         \/ \E i : Taken(i) \/ Passed(i)
         \/ \E e, w : Called(e, w)
<1>1. CASE ChainNext /\ UNCHANGED <<tables, walletRoles, history, lastSync, pass, call, failures, hardhat>>
  <2>1. LogOK /\ EventsOK
    BY DEF BookInv, SyncInv
  <2> QED BY <1>1, <2>1, ChainGrows, ChainOrder DEF Mined
<1>2. CASE SyncStep /\ ~(CallThrows(Sync) /\ PassFails) /\ UNCHANGED <<chainVars, hardhat>>
  <2>1. UNCHANGED <<height, log, roles, hardhat>>
    BY <1>2 DEF chainVars
  <2>2. CASE HandleTransfer
    <3>1. PICK e, w : e = InHand /\ w = call[Sync].wrote
      OBVIOUS
    <3>2. Called(e, w)
      BY <2>1, <2>2, <3>1, HandlerBooks DEF Called
    <3> QED BY <3>2
  <2>3. CASE ~HandleTransfer
    BY <1>2, <2>1, <2>3, PassKinds
  <2> QED BY <2>2, <2>3
<1>3. CASE (PassFails \/ Crash) /\ UNCHANGED <<chainVars, hardhat>>
  BY <1>3, FailureKind DEF chainVars
<1>4. CASE UNCHANGED syncVars
  BY <1>4 DEF syncVars, Kept
<1> QED BY <1>1, <1>2, <1>3, <1>4 DEF Next

-----------------------------------------------------------------------------
(* The invariant of the books. *)

\* Handlers other than the pass stay out.
LEMMA AloneKeeps == ASSUME BookInv, [Next]_syncVars PROVE Alone'
<1>i. Alone /\ SyncInv /\ CallOK
  BY DEF BookInv, SyncInv
<1>1. \/ UNCHANGED call \/ call' = [h \in Worker |-> NoCall]
      \/ \E d : call' = [call EXCEPT ![Sync] = d]
  <2>1. ASSUME HandleTransfer PROVE \E d : call' = [call EXCEPT ![Sync] = d]
    <3>1. \/ \E at \in {"insert", "total", "credit", "add"} : \E wrote : Goto(Sync, at, wrote)
          \/ Completed(Sync)
      BY <1>i, <2>1, HandlerSteps
    <3>2. ASSUME NEW at, NEW wrote, Goto(Sync, at, wrote)
          PROVE  call' = [call EXCEPT ![Sync] = [call[Sync] EXCEPT !.at = at, !.wrote = wrote]]
      BY <1>i, <3>2, Constants DEF Goto, CallOK
    <3> QED BY <3>1, <3>2 DEF Completed
  <2>2. ASSUME PassFails PROVE call' = [call EXCEPT ![Sync] = NoCall]
    BY <2>2 DEF PassFails, Abandon
  <2>3. ASSUME Crash PROVE call' = [h \in Worker |-> NoCall]
    BY <2>3 DEF Crash, ServerDies
  <2>4. ASSUME TakeEvent PROVE UNCHANGED call \/ \E d : call' = [call EXCEPT ![Sync] = d]
    <3>1. PICK i : Start(Sync, i) \/ UNCHANGED call
      BY <2>4 DEF TakeEvent
    <3> QED BY <3>1 DEF Start
  <2>5. ASSUME SyncStep, ~HandleTransfer, ~PassFails, ~TakeEvent PROVE UNCHANGED call
    BY <2>5 DEF SyncStep, StartupSync, RunManualSync, FillTrackers, FillTokens, FillTable, ReadCurrentBlock,
                EventsDone, ReadRoles, EnsureWalletWithRoles, SaveLastSync
  <2> QED BY <2>1, <2>2, <2>3, <2>4, <2>5 DEF Next, syncVars
<1> QED BY <1>1, <1>i DEF Alone, CallOK

\* The counts after an event is handled.
LEMMA HandledIs ==
  ASSUME CountsOK, LogOK, NEW i \in DOMAIN log, Handled(i)
  PROVE  \A j \in 1 .. MaxEvents : applied'[j] = IF j = i THEN applied[j] + 1 ELSE applied[j]
<1>1. i \in 1 .. MaxEvents /\ applied = [j \in 1 .. MaxEvents |-> applied[j]]
  BY Indices DEF CountsOK
<1>2. applied' = [applied EXCEPT ![i] = applied[i] + 1]
  BY DEF Handled
<1> QED BY <1>1, <1>2

\* The rows are in order when an event was handled, its row being there.
LEMMA RowsHandled ==
  ASSUME BookInv, UNCHANGED <<log, torn>>, NEW i \in DOMAIN log, Handled(i),
         balance' \in [TokenId -> [Account -> Row \cup {None}]],
         total' \in [TokenId -> [issued : Int, retired : Int]],
         \A t \in TokenId, a \in Account : (Has(t, a) => Has(t, a)') /\ (Has(t, a)' => t \in known'),
         \A t \in TokenId, a \in Account : Moves(i) /\ log[i].id = t /\ log[i].to = a => Has(t, a)',
         ignored' = ignored \/ ignored' = ignored \cup {i}
  PROVE  RowsOK'
<1>i. CountsOK /\ LogOK /\ RowsOK
  BY DEF BookInv, SyncInv
<1>1. \A j \in 1 .. MaxEvents : applied'[j] = (IF j = i THEN applied[j] + 1 ELSE applied[j]) /\ applied[j] \in Nat
  BY <1>i, HandledIs DEF CountsOK
<1>2. \A j \in DOMAIN log : j \in 1 .. MaxEvents
  BY <1>i, Indices
<1>3. ASSUME NEW t \in TokenId, NEW a \in Account, Got(t, a)' PROVE Has(t, a)'
  <2>1. PICK j \in DOMAIN log : Moves(j) /\ log[j].id = t /\ log[j].to = a /\ applied'[j] > 0
    BY <1>3 DEF Got, Moves
  <2>2. CASE j # i
    <3>1. applied[j] > 0
      BY <1>1, <1>2, <2>1, <2>2
    <3>2. Has(t, a)
      BY <1>i, <2>1, <3>1 DEF RowsOK, Got
    <3> QED BY <3>2
  <2> QED BY <2>1, <2>2
<1>4. \A j \in 1 .. MaxEvents : j \notin DOMAIN log => applied'[j] = 0
  BY <1>1, <1>i DEF RowsOK
<1>5. ignored' \subseteq {j \in DOMAIN log : applied'[j] > 0}
  <2>1. \A j \in ignored' : j \in DOMAIN log /\ (applied[j] > 0 \/ j = i)
    BY <1>i DEF RowsOK
  <2> QED BY <1>1, <1>2, <2>1
<1>6. torn' \subseteq DOMAIN log'
  BY <1>i DEF RowsOK
<1> QED BY <1>3, <1>4, <1>5, <1>6 DEF RowsOK

\* The chain grows beside the books.
LEMMA MinedBooks == ASSUME BookInv, Mined PROVE HandOK' /\ RowsOK'
<1>i. LogOK /\ CountsOK /\ RowsOK /\ HandOK /\ CallOK
  BY DEF BookInv, SyncInv
<1>g. /\ DOMAIN log \subseteq DOMAIN log' /\ \A i \in DOMAIN log : log'[i] = log[i] /\ i \in 1 .. MaxEvents
  BY <1>i, Indices DEF Mined, Grew
<1>l. \A i \in DOMAIN log' : i \in 1 .. MaxEvents
  <2>1. Len(log') <= MaxEvents /\ log' \in Seq(Event)
    BY DEF Mined, Grew
  <2>2. DOMAIN log' = 1 .. Len(log') /\ Len(log') \in Nat
    BY <2>1
  <2> QED BY <2>1, <2>2, Constants
<1>u. UNCHANGED <<known, total, balance, status, applied, ignored, torn, call, pass>>
  BY DEF Mined, tables, history
<1>1. RowsOK'
  <2>1. ASSUME NEW t \in TokenId, NEW a \in Account, Got(t, a)' PROVE Has(t, a)'
    <3>1. PICK i \in DOMAIN log' : Moves(i)' /\ log'[i].id = t /\ log'[i].to = a /\ applied[i] > 0
      BY <1>u, <2>1 DEF Got
    <3>2. i \in DOMAIN log
      BY <1>i, <1>l, <3>1 DEF RowsOK
    <3>3. Got(t, a)
      BY <1>g, <3>1, <3>2 DEF Got, Moves
    <3> QED BY <1>i, <1>u, <3>3 DEF RowsOK, Has
  <2>2. \A t \in TokenId, a \in Account : Has(t, a)' => t \in known'
    BY <1>i, <1>u DEF RowsOK, Has
  <2> QED BY <1>g, <1>i, <1>u, <2>1, <2>2 DEF RowsOK
<1>2. HandOK'
  <2>1. CASE Busy(Sync)
    <3>1. PICK i : i = call[Sync].event /\ i \in DOMAIN log
      BY <1>i, <2>1 DEF CallOK
    <3>2. PICK e : e = InHand /\ e = log[i]
      BY <3>1 DEF InHand
    <3>3. InHand' = e /\ log'[i] = e
      BY <1>g, <1>u, <3>1, <3>2 DEF InHand
    <3>4. Busy(Sync)'
      BY <1>u, <2>1 DEF Busy
    <3>5. /\ e.kind = "transfer" /\ Seen(i) /\ <<call[Sync].at, call[Sync].wrote>> \in Stages(e)
          /\ ~OfTracker(e) => /\ IsMint(e) /\ call[Sync].wrote => Has(e.id, e.to)
                              /\ call[Sync].at = "add" => Has(e.id, e.to)
      BY <1>i, <2>1, <3>1, <3>2 DEF HandOK
    <3>6. Seen(i)'
      BY <1>u, <3>2, <3>3, <3>5 DEF Seen, OfTracker
    <3>7. Has(e.id, e.to) => Has(e.id, e.to)'
      BY <1>u DEF Has
    <3> QED BY <1>u, <3>1, <3>3, <3>4, <3>5, <3>6, <3>7 DEF HandOK
  <2>2. CASE ~Busy(Sync)
    BY <1>u, <2>2, <1>i DEF HandOK, Busy
  <2> QED BY <2>1, <2>2
<1> QED BY <1>1, <1>2

\* Rows that nobody writes stay in order.
LEMMA RowsStay ==
  ASSUME RowsOK, UNCHANGED <<log, total, balance, applied, ignored>>, known \subseteq known',
         torn' \subseteq DOMAIN log
  PROVE  RowsOK'
<1>1. \A t \in TokenId, a \in Account : (Got(t, a)' <=> Got(t, a)) /\ (Has(t, a)' <=> Has(t, a))
  BY DEF Got, Has, Moves
<1> QED BY <1>1 DEF RowsOK

\* The tables are cleared.
LEMMA ClearedBooks == ASSUME BookInv, Cleared PROVE HandOK' /\ RowsOK'
<1>i. LogOK /\ CountsOK /\ RowsOK /\ HandOK /\ CallOK
  BY DEF BookInv, SyncInv
<1>u. /\ UNCHANGED <<log, call>> /\ known' = {} /\ total' = [t \in TokenId |-> NoTotals]
      /\ balance' = [t \in TokenId |-> [a \in Account |-> None]] /\ applied' = [i \in 1 .. MaxEvents |-> 0]
      /\ ignored' = {} /\ torn' = {}
  BY DEF Cleared, EmptyTables
<1>1. HandOK'
  BY <1>u, <1>i DEF HandOK, Busy, Cleared
<1>2. NoTotals \in [issued : Int, retired : Int]
  BY DEF NoTotals
<1>3. \A t \in TokenId, a \in Account : ~Has(t, a)' /\ ~Got(t, a)'
  <2>1. \A i \in DOMAIN log : i \in 1 .. MaxEvents
    BY <1>i, Indices
  <2> QED BY <1>u, <2>1 DEF Has, Got
<1>4. /\ total' \in [TokenId -> [issued : Int, retired : Int]]
      /\ balance' \in [TokenId -> [Account -> Row \cup {None}]]
  BY <1>u, <1>2
<1>5. RowsOK'
  BY <1>u, <1>3, <1>4 DEF RowsOK
<1> QED BY <1>1, <1>5

\* Nothing is written.
LEMMA KeptBooks == ASSUME BookInv, Kept PROVE HandOK' /\ RowsOK'
<1>i. RowsOK /\ HandOK /\ CallOK
  BY DEF BookInv, SyncInv
<1>1. RowsOK'
  BY <1>i, RowsStay DEF Kept, RowsOK
<1>2. CASE Busy(Sync)
  <2>1. UNCHANGED <<log, balance, call, pass>>
    BY <1>2 DEF Kept
  <2>2. HandOK'
    BY <1>i, <2>1 DEF HandOK, Busy, InHand, Seen, OfTracker, Stages, IsMint, IsRetirement, Has
  <2> QED BY <1>1, <2>2
<1>3. CASE ~Busy(Sync)
  <2>1. HandOK'
    BY <1>3, <1>i DEF HandOK, Busy, Kept
  <2> QED BY <1>1, <2>1
<1> QED BY <1>2, <1>3

\* An event is taken in hand, or a token or role event is handled.
LEMMA TakenBooks == ASSUME BookInv, NEW i, Taken(i) PROVE HandOK' /\ RowsOK'
<1>i. RowsOK /\ HandOK /\ CallOK
  BY DEF BookInv, SyncInv
<1>1. RowsOK'
  BY <1>i, RowsStay DEF Taken, RowsOK
<1>2. call'[Sync] = [event |-> i, at |-> "start", wrote |-> FALSE]
  BY <1>i, Constants DEF Taken, Start, CallOK
<1>3. call'[Sync].event = i /\ call'[Sync].at = "start" /\ call'[Sync].wrote = FALSE
  BY <1>2
<1>4. PICK e : e = log[i] /\ e = InHand'
  BY <1>3 DEF InHand, Taken
<1>5. Busy(Sync)'
  BY <1>3, NoCallIs DEF Busy
<1>6. <<"start", FALSE>> \in Stages(e)
  BY DEF Stages
<1>7. e.kind = "transfer" /\ Seen(i)'
  BY <1>4 DEF Taken, Moves
<1>8. HandOK'
  BY <1>3, <1>4, <1>5, <1>6, <1>7 DEF HandOK
<1> QED BY <1>1, <1>8

\* An event that is handled at once writes no row.
LEMMA PassedBooks == ASSUME BookInv, NEW i, Passed(i) PROVE HandOK' /\ RowsOK'
<1>i. RowsOK /\ HandOK /\ CallOK
  BY DEF BookInv, SyncInv
<1>1. HandOK'
  BY <1>i DEF HandOK, Busy, Passed
<1>2. \A t \in TokenId, a \in Account : (Has(t, a)' <=> Has(t, a)) /\ (Has(t, a)' => t \in known')
  BY <1>i DEF Passed, Has, RowsOK
<1>3. RowsOK'
  BY <1>2, <1>i, RowsHandled DEF Passed, RowsOK
<1> QED BY <1>1, <1>3

\* The event in hand is dropped.
LEMMA LostBooks == ASSUME BookInv, Lost PROVE HandOK' /\ RowsOK'
<1>i. RowsOK /\ HandOK /\ CallOK
  BY DEF BookInv, SyncInv
<1>1. HandOK'
  BY DEF HandOK, Busy, Lost
<1>2. call[Sync].wrote => call[Sync].event \in DOMAIN log
  BY <1>i, NoCallFields DEF CallOK, Busy
<1>3. torn' \subseteq DOMAIN log
  BY <1>2, <1>i DEF Lost, RowsOK
<1>4. RowsOK'
  BY <1>3, <1>i, RowsStay DEF Lost
<1> QED BY <1>1, <1>4

\* A handler makes a call.
LEMMA CalledBooks == ASSUME BookInv, NEW e, NEW w, Called(e, w) PROVE HandOK' /\ RowsOK'
<1>i. RowsOK /\ HandOK /\ CallOK
  BY DEF BookInv, SyncInv
<1>1. PICK i : i = call[Sync].event
  OBVIOUS
<1>2. /\ i \in DOMAIN log /\ e = log[i] /\ Moves(i) /\ Seen(i) /\ e.kind = "transfer"
      /\ IsMint(e) => ~IsRetirement(e)
      /\ IsRetirement(e) <=> e.to = Burn
      /\ OfTracker(e) <=> e.id \notin TokenId
      /\ ~OfTracker(e) => (IsMint(e) /\ w => Has(e.id, e.to))
  BY <1>i, <1>1, InHandIs DEF Called, HandOK, InHand
<1>b. Burn \notin Account
  BY ContractAssumption
<1>u. UNCHANGED <<log, known, torn, pass>>
  BY DEF Called
<1>3. PICK x, dA, dR, dI, dT : Booked(e, x, dA, dR, dI, dT)
  BY DEF Called, BookCall
<1>4. /\ balance' \in [TokenId -> [Account -> Row \cup {None}]]
      /\ total' \in [TokenId -> [issued : Int, retired : Int]]
      /\ \A t \in TokenId, a \in Account : (Has(t, a) => Has(t, a)') /\ (Has(t, a)' => t \in known)
  BY <1>3 DEF Booked
<1>5. \/ \E v : GoesOn(e, v) /\ (IsMint(e) /\ v => Has(e.id, e.to)') /\ (call'[Sync].at = "add" => Has(e.id, e.to)')
      \/ (IsDone \/ IsDropped) /\ (~OfTracker(e) /\ ~IsRetirement(e) => Has(e.id, e.to)')
  <2>1. ASSUME NEW v, GoesOn(e, v), IsMint(e) /\ v => Has(e.id, e.to)', call'[Sync].at = "add" => Has(e.id, e.to)'
        PROVE  \E u : GoesOn(e, u) /\ (IsMint(e) /\ u => Has(e.id, e.to)') /\ (call'[Sync].at = "add" => Has(e.id, e.to)')
    BY <2>1
  <2> QED BY <1>2, <2>1 DEF Called, BookCall
<1>6. CASE \E v : GoesOn(e, v) /\ (IsMint(e) /\ v => Has(e.id, e.to)') /\ (call'[Sync].at = "add" => Has(e.id, e.to)')
  <2>1. PICK v : GoesOn(e, v) /\ (IsMint(e) /\ v => Has(e.id, e.to)') /\ (call'[Sync].at = "add" => Has(e.id, e.to)')
    BY <1>6
  <2>2. Busy(Sync)' /\ call'[Sync].event = i /\ call'[Sync].wrote = v /\ <<call'[Sync].at, v>> \in Stages(e)
        /\ UNCHANGED <<applied, ignored>>
    BY <1>1, <2>1 DEF GoesOn
  <2>3. InHand' = e
    BY <1>2, <1>u, <2>2 DEF InHand
  <2>4. Seen(i)'
    BY <1>2, <1>u DEF Seen, OfTracker
  <2>5. HandOK'
    BY <1>2, <2>1, <2>2, <2>3, <2>4 DEF HandOK
  <2>6. \A t \in TokenId, a \in Account : Got(t, a)' => Has(t, a)'
    BY <1>4, <1>i, <1>u, <2>2 DEF Got, Moves, RowsOK
  <2>7. RowsOK'
    BY <1>4, <1>i, <1>u, <2>2, <2>6 DEF RowsOK
  <2> QED BY <2>5, <2>7
<1>7. CASE (IsDone \/ IsDropped) /\ (~OfTracker(e) /\ ~IsRetirement(e) => Has(e.id, e.to)')
  <2>1. /\ call'[Sync] = NoCall /\ Handled(i) /\ (ignored' = ignored \/ ignored' = ignored \cup {i})
    BY <1>1, <1>7 DEF IsDone, IsDropped
  <2>2. HandOK'
    BY <2>1 DEF HandOK, Busy
  <2>3. \A t \in TokenId, a \in Account : Moves(i) /\ log[i].id = t /\ log[i].to = a => Has(t, a)'
    <3>1. ASSUME NEW t \in TokenId, NEW a \in Account, log[i].id = t, log[i].to = a PROVE Has(t, a)'
      <4>1. ~OfTracker(e) /\ ~IsRetirement(e) /\ e.id = t /\ e.to = a
        BY <1>2, <1>b, <3>1
      <4> QED BY <1>7, <4>1
    <3> QED BY <3>1
  <2>4. RowsOK'
    BY <1>2, <1>4, <1>u, <2>1, <2>3, RowsHandled
  <2> QED BY <2>2, <2>4
<1> QED BY <1>5, <1>6, <1>7

\* At the start there are no books.
LEMMA InitBooks == ASSUME Init PROVE BookInv
<1>1. SyncInv
  BY InitSync
<1>2. log = <<>> /\ DOMAIN log = {}
  BY DEF Init, ChainInit
<1>3. EventsOK
  BY <1>2 DEF EventsOK
<1>4. Alone /\ HandOK
  BY Constants DEF Init, Alone, HandOK, Busy
<1>5. NoTotals \in [issued : Int, retired : Int]
  BY DEF NoTotals
<1>6. /\ total \in [TokenId -> [issued : Int, retired : Int]]
      /\ balance \in [TokenId -> [Account -> Row \cup {None}]]
  BY <1>5 DEF Init
<1>7. \A t \in TokenId, a \in Account : ~Has(t, a) /\ ~Got(t, a)
  BY <1>2 DEF Init, Has, Got
<1>8. RowsOK
  BY <1>2, <1>6, <1>7 DEF Init, RowsOK
<1> QED BY <1>1, <1>3, <1>4, <1>8 DEF BookInv

\* The events of the log stay in order.
LEMMA EventsKeep == ASSUME BookInv, [Next]_syncVars PROVE EventsOK'
<1>1. CASE Mined
  BY <1>1 DEF Mined
<1>2. CASE UNCHANGED log
  BY <1>2 DEF BookInv, EventsOK, GivenBefore, Moves
<1> QED BY <1>1, <1>2, StepKinds DEF Cleared, Kept, Lost, Taken, Passed, Called

\* Every step keeps the books.
LEMMA NextBooks == ASSUME BookInv, [Next]_syncVars PROVE BookInv'
<1>1. SyncInv'
  BY NextSync DEF BookInv
<1>2. HandOK' /\ RowsOK'
  BY StepKinds, MinedBooks, ClearedBooks, KeptBooks, LostBooks, TakenBooks, PassedBooks, CalledBooks
<1> QED BY <1>1, <1>2, EventsKeep, AloneKeeps DEF BookInv

-----------------------------------------------------------------------------
(* The sums of a token's rows: what is written already of an event in hand, and not yet in the totals. *)

OwnedSum(t) == SumFunctionOnSet([a \in Account |-> Avail(t, a) + Reti(t, a)], Account)
RetiredSum(t) == SumFunctionOnSet([a \in Account |-> Reti(t, a)], Account)

Written(t) == Busy(Sync) /\ call[Sync].wrote /\ InHand.id = t
OwnedAhead(t) ==
  IF ~Written(t) \/ IsRetirement(InHand) THEN 0
  ELSE IF IsMint(InHand) THEN InHand.amount ELSE -InHand.amount
RetiredAhead(t) == IF Written(t) /\ IsRetirement(InHand) THEN InHand.amount ELSE 0

\* As far as no handler of the token's events died between two writes.
SupplyOK ==
  \A t \in TokenId : (\A i \in torn : log[i].id # t) =>
    /\ OwnedSum(t) = total[t].issued + OwnedAhead(t)
    /\ RetiredSum(t) = total[t].retired + RetiredAhead(t)

\* The sums are of numbers.
LEMMA CellsType ==
  ASSUME RowsOK
  PROVE  /\ \A t \in TokenId, a \in Account : Avail(t, a) \in Int /\ Reti(t, a) \in Int
         /\ \A t \in TokenId : total[t].issued \in Int /\ total[t].retired \in Int
  BY DEF RowsOK, Avail, Reti, Row

\* The sums after a call.
LEMMA BookedSums ==
  ASSUME RowsOK, NEW e, NEW x, NEW dA \in Int, NEW dR \in Int, NEW dI, NEW dT,
         Booked(e, x, dA, dR, dI, dT), x \in Account, NEW t \in TokenId
  PROVE  /\ OwnedSum(t) \in Int /\ RetiredSum(t) \in Int
         /\ OwnedSum(t)' = OwnedSum(t) + (IF t = e.id THEN dA + dR ELSE 0)
         /\ RetiredSum(t)' = RetiredSum(t) + (IF t = e.id THEN dR ELSE 0)
<1> DEFINE o == [a \in Account |-> Avail(t, a) + Reti(t, a)]
           p == [a \in Account |-> Avail(t, a)' + Reti(t, a)']
           r == [a \in Account |-> Reti(t, a)]
           s == [a \in Account |-> Reti(t, a)']
<1>0. \A a \in Account : Avail(t, a) \in Int /\ Reti(t, a) \in Int
  BY CellsType
<1>1. \A a \in Account :
        /\ Avail(t, a)' = Avail(t, a) + (IF t = e.id /\ a = x THEN dA ELSE 0)
        /\ Reti(t, a)' = Reti(t, a) + (IF t = e.id /\ a = x THEN dR ELSE 0)
  BY DEF Booked
<1>2. \A a \in Account : o[a] \in Int /\ p[a] \in Int /\ r[a] \in Int /\ s[a] \in Int
  BY <1>0, <1>1
<1>3. \A a \in Account \ {x} : p[a] = o[a] /\ s[a] = r[a]
  BY <1>0, <1>1
<1>4. p[x] = o[x] + (IF t = e.id THEN dA + dR ELSE 0) /\ s[x] = r[x] + (IF t = e.id THEN dR ELSE 0)
  BY <1>0, <1>1
<1>5. OwnedSum(t)' = SumFunctionOnSet(p, Account) /\ RetiredSum(t)' = SumFunctionOnSet(s, Account)
  BY DEF OwnedSum, RetiredSum
<1>6. OwnedSum(t) = SumFunctionOnSet(o, Account) /\ RetiredSum(t) = SumFunctionOnSet(r, Account)
  BY DEF OwnedSum, RetiredSum
<1>7. IsFiniteSet(Account)
  BY ContractAssumption
<1> HIDE DEF o, p, r, s
<1>8. /\ SumFunctionOnSet(p, Account) = SumFunctionOnSet(o, Account) - o[x] + p[x]
      /\ SumFunctionOnSet(o, Account) \in Int
  <2>1. SumFunctionOnSet(o, Account) \in Int
    BY <1>2, <1>7, SumType
  <2>2. SumFunctionOnSet(p, Account) = SumFunctionOnSet(o, Account) - o[x] + p[x]
    BY <1>2, <1>3, <1>7, SumChange
  <2> QED BY <2>1, <2>2
<1>9. /\ SumFunctionOnSet(s, Account) = SumFunctionOnSet(r, Account) - r[x] + s[x]
      /\ SumFunctionOnSet(r, Account) \in Int
  <2>1. SumFunctionOnSet(r, Account) \in Int
    BY <1>2, <1>7, SumType
  <2>2. SumFunctionOnSet(s, Account) = SumFunctionOnSet(r, Account) - r[x] + s[x]
    BY <1>2, <1>3, <1>7, SumChange
  <2> QED BY <2>1, <2>2
<1> QED BY <1>2, <1>4, <1>5, <1>6, <1>8, <1>9

\* The sums stay with the rows.
LEMMA SumsStay ==
  ASSUME NEW t, UNCHANGED balance
  PROVE  OwnedSum(t)' = OwnedSum(t) /\ RetiredSum(t)' = RetiredSum(t)
  BY DEF OwnedSum, RetiredSum, Avail, Reti

\* What is ahead when nothing is in hand.
LEMMA NothingAhead ==
  /\ ~Busy(Sync) => \A t : OwnedAhead(t) = 0 /\ RetiredAhead(t) = 0
  /\ ~call[Sync].wrote => \A t : OwnedAhead(t) = 0 /\ RetiredAhead(t) = 0
  /\ Busy(Sync) => \A t : InHand.id # t => OwnedAhead(t) = 0 /\ RetiredAhead(t) = 0
  BY DEF OwnedAhead, RetiredAhead, Written

\* Nor in the next state.
LEMMA NothingAheadNext ==
  /\ ~Busy(Sync)' => \A t : OwnedAhead(t)' = 0 /\ RetiredAhead(t)' = 0
  /\ ~call'[Sync].wrote => \A t : OwnedAhead(t)' = 0 /\ RetiredAhead(t)' = 0
  /\ Busy(Sync)' => \A t : InHand.id' # t => OwnedAhead(t)' = 0 /\ RetiredAhead(t)' = 0
  BY DEF OwnedAhead, RetiredAhead, Written

\* A handler's call keeps the sums.
LEMMA CalledSupply == ASSUME BookInv, SupplyOK, NEW e, NEW w, Called(e, w) PROVE SupplyOK'
<1>i. RowsOK /\ CallOK
  BY DEF BookInv, SyncInv
<1>1. /\ e = InHand /\ w = call[Sync].wrote /\ Busy(Sync) /\ UNCHANGED <<log, torn>> /\ e.amount \in Nat
      /\ OfTracker(e) <=> e.id \notin TokenId
      /\ e.from = Burn => e.to \in Account
      /\ e.from # Burn => e.from \in Account
      /\ IsMint(e) <=> e.from = Burn
      /\ ~IsRetirement(e) => e.to \in Account
      /\ IsMint(e) => ~IsRetirement(e)
  BY InHandIs DEF Called
<1>s. SUFFICES ASSUME NEW t \in TokenId, \A i \in torn : log[i].id # t
               PROVE  /\ OwnedSum(t)' = total'[t].issued + OwnedAhead(t)'
                      /\ RetiredSum(t)' = total'[t].retired + RetiredAhead(t)'
  BY <1>1 DEF SupplyOK
<1>2. /\ OwnedSum(t) = total[t].issued + OwnedAhead(t) /\ RetiredSum(t) = total[t].retired + RetiredAhead(t)
      /\ total[t].issued \in Int /\ total[t].retired \in Int
  BY <1>s, <1>i, CellsType DEF SupplyOK
<1>3. /\ OwnedAhead(t) = IF w /\ e.id = t /\ ~IsRetirement(e) THEN (IF IsMint(e) THEN e.amount ELSE -e.amount) ELSE 0
      /\ RetiredAhead(t) = IF w /\ e.id = t /\ IsRetirement(e) THEN e.amount ELSE 0
  BY <1>1 DEF OwnedAhead, RetiredAhead, Written
<1>4. ASSUME NEW v \in BOOLEAN, GoesOn(e, v)
      PROVE  /\ OwnedAhead(t)' = IF v /\ e.id = t /\ ~IsRetirement(e)
                                 THEN (IF IsMint(e) THEN e.amount ELSE -e.amount) ELSE 0
             /\ RetiredAhead(t)' = IF v /\ e.id = t /\ IsRetirement(e) THEN e.amount ELSE 0
  <2>1. Busy(Sync)' /\ call'[Sync].wrote = v /\ InHand' = e
    BY <1>1, <1>4 DEF GoesOn, InHand
  <2> QED BY <2>1 DEF OwnedAhead, RetiredAhead, Written
<1>5. ASSUME IsDone \/ IsDropped PROVE OwnedAhead(t)' = 0 /\ RetiredAhead(t)' = 0
  BY <1>5, NothingAheadNext DEF IsDone, IsDropped, Busy
<1>6. ASSUME NEW x \in Account, NEW dA \in Int, NEW dR \in Int, NEW dI, NEW dT, Booked(e, x, dA, dR, dI, dT)
      PROVE  /\ OwnedSum(t)' = OwnedSum(t) + (IF t = e.id THEN dA + dR ELSE 0)
             /\ RetiredSum(t)' = RetiredSum(t) + (IF t = e.id THEN dR ELSE 0)
             /\ total'[t].issued = total[t].issued + (IF t = e.id THEN dI ELSE 0)
             /\ total'[t].retired = total[t].retired + (IF t = e.id THEN dT ELSE 0)
  <2>1. /\ OwnedSum(t)' = OwnedSum(t) + (IF t = e.id THEN dA + dR ELSE 0)
        /\ RetiredSum(t)' = RetiredSum(t) + (IF t = e.id THEN dR ELSE 0)
    BY <1>i, <1>6, BookedSums
  <2> QED BY <1>6, <2>1 DEF Booked
<1>n. PICK n \in Nat : n = e.amount
  BY <1>1
<1>z. -n \in Int /\ n \in Int /\ OwnedSum(t) \in Int /\ RetiredSum(t) \in Int
  BY <1>2, <1>3, <1>n
<1>7. CASE IsMint(e) /\ ~OfTracker(e) /\ ~w /\ Booked(e, e.to, 0, 0, 0, 0) /\ IsDropped
  <2>0. e.to \in Account /\ Booked(e, e.to, 0, 0, 0, 0)
    BY <1>1, <1>7
  <2>1. /\ OwnedSum(t)' = OwnedSum(t) + (IF t = e.id THEN (0) + (0) ELSE 0)
        /\ RetiredSum(t)' = RetiredSum(t) + (IF t = e.id THEN 0 ELSE 0)
        /\ total'[t].issued = total[t].issued + (IF t = e.id THEN 0 ELSE 0)
        /\ total'[t].retired = total[t].retired + (IF t = e.id THEN 0 ELSE 0)
    BY <1>6, <1>z, <2>0
  <2>2. OwnedAhead(t)' = 0 /\ RetiredAhead(t)' = 0
    BY <1>5, <1>7
  <2> QED BY <1>1, <1>2, <1>3, <1>7, <1>n, <1>z, <2>1, <2>2
<1>8. CASE IsMint(e) /\ ~OfTracker(e) /\ ~w /\ Booked(e, e.to, 0, 0, 0, 0) /\ GoesOn(e, FALSE)
  <2>0. e.to \in Account /\ Booked(e, e.to, 0, 0, 0, 0)
    BY <1>1, <1>8
  <2>1. /\ OwnedSum(t)' = OwnedSum(t) + (IF t = e.id THEN (0) + (0) ELSE 0)
        /\ RetiredSum(t)' = RetiredSum(t) + (IF t = e.id THEN 0 ELSE 0)
        /\ total'[t].issued = total[t].issued + (IF t = e.id THEN 0 ELSE 0)
        /\ total'[t].retired = total[t].retired + (IF t = e.id THEN 0 ELSE 0)
    BY <1>6, <1>z, <2>0
  <2>2. /\ OwnedAhead(t)' = IF FALSE /\ e.id = t /\ ~IsRetirement(e) THEN (IF IsMint(e) THEN n ELSE -n) ELSE 0
        /\ RetiredAhead(t)' = IF FALSE /\ e.id = t /\ IsRetirement(e) THEN n ELSE 0
    BY <1>4, <1>n, <1>8
  <2> QED BY <1>1, <1>2, <1>3, <1>8, <1>n, <1>z, <2>1, <2>2
<1>9. CASE IsMint(e) /\ ~OfTracker(e) /\ ~w /\ Booked(e, e.to, n, 0, 0, 0) /\ GoesOn(e, TRUE)
  <2>0. e.to \in Account /\ Booked(e, e.to, n, 0, 0, 0)
    BY <1>1, <1>9
  <2>1. /\ OwnedSum(t)' = OwnedSum(t) + (IF t = e.id THEN (n) + (0) ELSE 0)
        /\ RetiredSum(t)' = RetiredSum(t) + (IF t = e.id THEN 0 ELSE 0)
        /\ total'[t].issued = total[t].issued + (IF t = e.id THEN 0 ELSE 0)
        /\ total'[t].retired = total[t].retired + (IF t = e.id THEN 0 ELSE 0)
    BY <1>6, <1>z, <2>0
  <2>2. /\ OwnedAhead(t)' = IF TRUE /\ e.id = t /\ ~IsRetirement(e) THEN (IF IsMint(e) THEN n ELSE -n) ELSE 0
        /\ RetiredAhead(t)' = IF TRUE /\ e.id = t /\ IsRetirement(e) THEN n ELSE 0
    BY <1>4, <1>n, <1>9
  <2> QED BY <1>1, <1>2, <1>3, <1>9, <1>n, <1>z, <2>1, <2>2
<1>10. CASE IsMint(e) /\ ~OfTracker(e) /\ w /\ Booked(e, e.to, 0, 0, n, 0) /\ IsDone
  <2>0. e.to \in Account /\ Booked(e, e.to, 0, 0, n, 0)
    BY <1>1, <1>10
  <2>1. /\ OwnedSum(t)' = OwnedSum(t) + (IF t = e.id THEN (0) + (0) ELSE 0)
        /\ RetiredSum(t)' = RetiredSum(t) + (IF t = e.id THEN 0 ELSE 0)
        /\ total'[t].issued = total[t].issued + (IF t = e.id THEN n ELSE 0)
        /\ total'[t].retired = total[t].retired + (IF t = e.id THEN 0 ELSE 0)
    BY <1>6, <1>z, <2>0
  <2>2. OwnedAhead(t)' = 0 /\ RetiredAhead(t)' = 0
    BY <1>5, <1>10
  <2> QED BY <1>1, <1>2, <1>3, <1>10, <1>n, <1>z, <2>1, <2>2
<1>11. CASE IsRetirement(e) /\ ~OfTracker(e) /\ ~w /\ Booked(e, e.from, -n, n, 0, 0) /\ GoesOn(e, TRUE)
  <2>0. e.from \in Account /\ Booked(e, e.from, -n, n, 0, 0)
    BY <1>1, <1>11
  <2>1. /\ OwnedSum(t)' = OwnedSum(t) + (IF t = e.id THEN (-n) + (n) ELSE 0)
        /\ RetiredSum(t)' = RetiredSum(t) + (IF t = e.id THEN n ELSE 0)
        /\ total'[t].issued = total[t].issued + (IF t = e.id THEN 0 ELSE 0)
        /\ total'[t].retired = total[t].retired + (IF t = e.id THEN 0 ELSE 0)
    BY <1>6, <1>z, <2>0
  <2>2. /\ OwnedAhead(t)' = IF TRUE /\ e.id = t /\ ~IsRetirement(e) THEN (IF IsMint(e) THEN n ELSE -n) ELSE 0
        /\ RetiredAhead(t)' = IF TRUE /\ e.id = t /\ IsRetirement(e) THEN n ELSE 0
    BY <1>4, <1>n, <1>11
  <2> QED BY <1>1, <1>2, <1>3, <1>11, <1>n, <1>z, <2>1, <2>2
<1>12. CASE IsRetirement(e) /\ ~OfTracker(e) /\ w /\ Booked(e, e.from, 0, 0, 0, n) /\ IsDone
  <2>0. e.from \in Account /\ Booked(e, e.from, 0, 0, 0, n)
    BY <1>1, <1>12
  <2>1. /\ OwnedSum(t)' = OwnedSum(t) + (IF t = e.id THEN (0) + (0) ELSE 0)
        /\ RetiredSum(t)' = RetiredSum(t) + (IF t = e.id THEN 0 ELSE 0)
        /\ total'[t].issued = total[t].issued + (IF t = e.id THEN 0 ELSE 0)
        /\ total'[t].retired = total[t].retired + (IF t = e.id THEN n ELSE 0)
    BY <1>6, <1>z, <2>0
  <2>2. OwnedAhead(t)' = 0 /\ RetiredAhead(t)' = 0
    BY <1>5, <1>12
  <2> QED BY <1>1, <1>2, <1>3, <1>12, <1>n, <1>z, <2>1, <2>2
<1>13. CASE ~IsMint(e) /\ ~IsRetirement(e) /\ ~OfTracker(e) /\ ~w /\ Booked(e, e.from, -n, 0, 0, 0) /\ GoesOn(e, TRUE)
  <2>0. e.from \in Account /\ Booked(e, e.from, -n, 0, 0, 0)
    BY <1>1, <1>13
  <2>1. /\ OwnedSum(t)' = OwnedSum(t) + (IF t = e.id THEN (-n) + (0) ELSE 0)
        /\ RetiredSum(t)' = RetiredSum(t) + (IF t = e.id THEN 0 ELSE 0)
        /\ total'[t].issued = total[t].issued + (IF t = e.id THEN 0 ELSE 0)
        /\ total'[t].retired = total[t].retired + (IF t = e.id THEN 0 ELSE 0)
    BY <1>6, <1>z, <2>0
  <2>2. /\ OwnedAhead(t)' = IF TRUE /\ e.id = t /\ ~IsRetirement(e) THEN (IF IsMint(e) THEN n ELSE -n) ELSE 0
        /\ RetiredAhead(t)' = IF TRUE /\ e.id = t /\ IsRetirement(e) THEN n ELSE 0
    BY <1>4, <1>n, <1>13
  <2> QED BY <1>1, <1>2, <1>3, <1>13, <1>n, <1>z, <2>1, <2>2
<1>14. CASE ~IsMint(e) /\ ~IsRetirement(e) /\ ~OfTracker(e) /\ w /\ Booked(e, e.from, 0, 0, 0, 0) /\ GoesOn(e, TRUE)
  <2>0. e.from \in Account /\ Booked(e, e.from, 0, 0, 0, 0)
    BY <1>1, <1>14
  <2>1. /\ OwnedSum(t)' = OwnedSum(t) + (IF t = e.id THEN (0) + (0) ELSE 0)
        /\ RetiredSum(t)' = RetiredSum(t) + (IF t = e.id THEN 0 ELSE 0)
        /\ total'[t].issued = total[t].issued + (IF t = e.id THEN 0 ELSE 0)
        /\ total'[t].retired = total[t].retired + (IF t = e.id THEN 0 ELSE 0)
    BY <1>6, <1>z, <2>0
  <2>2. /\ OwnedAhead(t)' = IF TRUE /\ e.id = t /\ ~IsRetirement(e) THEN (IF IsMint(e) THEN n ELSE -n) ELSE 0
        /\ RetiredAhead(t)' = IF TRUE /\ e.id = t /\ IsRetirement(e) THEN n ELSE 0
    BY <1>4, <1>n, <1>14
  <2> QED BY <1>1, <1>2, <1>3, <1>14, <1>n, <1>z, <2>1, <2>2
<1>15. CASE ~IsMint(e) /\ ~IsRetirement(e) /\ ~OfTracker(e) /\ w /\ Booked(e, e.to, n, 0, 0, 0) /\ IsDone
  <2>0. e.to \in Account /\ Booked(e, e.to, n, 0, 0, 0)
    BY <1>1, <1>15
  <2>1. /\ OwnedSum(t)' = OwnedSum(t) + (IF t = e.id THEN (n) + (0) ELSE 0)
        /\ RetiredSum(t)' = RetiredSum(t) + (IF t = e.id THEN 0 ELSE 0)
        /\ total'[t].issued = total[t].issued + (IF t = e.id THEN 0 ELSE 0)
        /\ total'[t].retired = total[t].retired + (IF t = e.id THEN 0 ELSE 0)
    BY <1>6, <1>z, <2>0
  <2>2. OwnedAhead(t)' = 0 /\ RetiredAhead(t)' = 0
    BY <1>5, <1>15
  <2> QED BY <1>1, <1>2, <1>3, <1>15, <1>n, <1>z, <2>1, <2>2
<1>16. CASE OfTracker(e) /\ ~w /\ Booked(e, e.to, 0, 0, 0, 0) /\ IsDone
  <2>1. t # e.id
    BY <1>1, <1>16
  <2>2. \A a \in Account : Avail(t, a)' = Avail(t, a) /\ Reti(t, a)' = Reti(t, a)
    BY <1>i, <1>16, <2>1, CellsType DEF Booked
  <2>3. OwnedSum(t)' = OwnedSum(t) /\ RetiredSum(t)' = RetiredSum(t)
    BY <2>2 DEF OwnedSum, RetiredSum
  <2>4. total'[t].issued = total[t].issued /\ total'[t].retired = total[t].retired
    BY <1>2, <1>16, <2>1 DEF Booked
  <2>5. OwnedAhead(t)' = 0 /\ RetiredAhead(t)' = 0
    BY <1>5, <1>16
  <2> QED BY <1>2, <1>3, <2>1, <2>3, <2>4, <2>5
<1>17. BookCall(e, w)
  BY DEF Called
<1> QED BY <1>n, <1>7, <1>8, <1>9, <1>10, <1>11, <1>12, <1>13, <1>14, <1>15, <1>16, <1>17 DEF BookCall

\* The supply is accounted for at every step.
LEMMA SupplyKeeps == ASSUME BookInv, SupplyOK, [Next]_syncVars PROVE SupplyOK'
<1>i. RowsOK /\ HandOK /\ CallOK /\ LogOK
  BY DEF BookInv, SyncInv
<1>1. CASE Mined
  <2>1. UNCHANGED <<balance, total, torn, call>> /\ \A i \in DOMAIN log : log'[i] = log[i]
    BY <1>1 DEF Mined, Grew, tables, history
  <2>2. ASSUME NEW t \in TokenId PROVE OwnedAhead(t)' = OwnedAhead(t) /\ RetiredAhead(t)' = RetiredAhead(t)
    <3>1. CASE Busy(Sync)
      <4>1. InHand' = InHand /\ Busy(Sync)'
        BY <1>i, <2>1, <3>1 DEF InHand, Busy, CallOK
      <4> QED BY <2>1, <3>1, <4>1 DEF OwnedAhead, RetiredAhead, Written
    <3>2. CASE ~Busy(Sync)
      <4>1. ~Busy(Sync)'
        BY <2>1, <3>2 DEF Busy
      <4> QED BY <3>2, <4>1, NothingAhead, NothingAheadNext
    <3> QED BY <3>1, <3>2
  <2>3. \A t : (\A i \in torn' : log'[i].id # t) => (\A i \in torn : log[i].id # t)
    BY <1>i, <2>1 DEF RowsOK
  <2> QED BY <2>1, <2>2, <2>3, SumsStay DEF SupplyOK
<1>2. CASE Cleared
  <2>1. /\ balance' = [t \in TokenId |-> [a \in Account |-> None]] /\ total' = [t \in TokenId |-> NoTotals]
        /\ ~Busy(Sync)'
    BY <1>2 DEF Cleared, EmptyTables, Busy
  <2>2. ASSUME NEW t \in TokenId PROVE OwnedSum(t)' = 0 /\ RetiredSum(t)' = 0
    <3>1. \A a \in Account : Avail(t, a)' = 0 /\ Reti(t, a)' = 0
      BY <2>1 DEF Avail, Reti
    <3>2. \A a \in Account : [b \in Account |-> Avail(t, b)' + Reti(t, b)'][a] = 0
                             /\ [b \in Account |-> Reti(t, b)'][a] = 0
      BY <3>1
    <3>3. IsFiniteSet(Account)
      BY ContractAssumption
    <3>4. /\ SumFunctionOnSet([b \in Account |-> Avail(t, b)' + Reti(t, b)'], Account) = 0
          /\ SumFunctionOnSet([b \in Account |-> Reti(t, b)'], Account) = 0
      BY <3>2, <3>3, SumZero
    <3> QED BY <3>4 DEF OwnedSum, RetiredSum
  <2>3. \A t \in TokenId : total'[t].issued = 0 /\ total'[t].retired = 0
    BY <2>1 DEF NoTotals
  <2> QED BY <2>1, <2>2, <2>3, NothingAheadNext DEF SupplyOK
<1>3. CASE Kept
  <2>1. UNCHANGED <<log, balance, total, torn, call>>
    BY <1>3 DEF Kept
  <2>2. \A t : OwnedAhead(t)' = OwnedAhead(t) /\ RetiredAhead(t)' = RetiredAhead(t)
    BY <2>1 DEF OwnedAhead, RetiredAhead, Written, Busy, InHand, IsMint, IsRetirement
  <2> QED BY <2>1, <2>2, SumsStay DEF SupplyOK
<1>4. ASSUME NEW i, Taken(i) PROVE SupplyOK'
  <2>1. UNCHANGED <<log, balance, total, torn>> /\ ~Busy(Sync)
    BY <1>4 DEF Taken
  <2>2. ~call'[Sync].wrote
    BY <1>4, <1>i, Constants DEF Taken, Start, CallOK
  <2> QED BY <2>1, <2>2, SumsStay, NothingAhead, NothingAheadNext DEF SupplyOK
<1>5. ASSUME NEW i, Passed(i) PROVE SupplyOK'
  <2>1. UNCHANGED <<log, balance, total, torn>> /\ ~Busy(Sync) /\ ~Busy(Sync)'
    BY <1>5 DEF Passed, Busy
  <2> QED BY <2>1, SumsStay, NothingAhead, NothingAheadNext DEF SupplyOK
<1>6. CASE Lost
  <2>1. UNCHANGED <<log, balance, total>> /\ ~Busy(Sync)' /\ torn \subseteq torn'
        /\ (call[Sync].wrote => call[Sync].event \in torn')
    BY <1>6 DEF Lost, Busy
  <2>2. \A t : (\A i \in torn' : log'[i].id # t) => OwnedAhead(t) = 0 /\ RetiredAhead(t) = 0
    BY <2>1, NothingAhead DEF InHand
  <2> QED BY <2>1, <2>2, SumsStay, NothingAheadNext DEF SupplyOK
<1> QED BY <1>1, <1>2, <1>3, <1>4, <1>5, <1>6, StepKinds, CalledSupply

\* The sums over the rows that are there.
LEMMA RowSums ==
  ASSUME RowsOK, NEW t \in TokenId, NEW Rows, Rows = {a \in Account : balance[t][a] # None}
  PROVE  /\ SumFunction([a \in Rows |-> balance[t][a].available + balance[t][a].retired]) = OwnedSum(t)
         /\ SumFunction([a \in Rows |-> balance[t][a].retired]) = RetiredSum(t)
<1> DEFINE o == [a \in Account |-> Avail(t, a) + Reti(t, a)]
           p == [a \in Rows |-> balance[t][a].available + balance[t][a].retired]
           r == [a \in Account |-> Reti(t, a)]
           s == [a \in Rows |-> balance[t][a].retired]
<1>0. \A a \in Account : Avail(t, a) \in Int /\ Reti(t, a) \in Int
  BY CellsType
<1>1. \A a \in Rows : p[a] = o[a] /\ s[a] = r[a]
  BY DEF Avail, Reti
<1>2. \A a \in Account \ Rows : o[a] = 0 /\ r[a] = 0
  BY DEF Avail, Reti
<1>3. \A a \in Account : o[a] \in Int /\ r[a] \in Int
  BY <1>0
<1>4. IsFiniteSet(Account) /\ Rows \in SUBSET Account /\ IsFiniteSet(Rows) /\ IsFiniteSet(Account \ Rows)
  BY ContractAssumption, FS_Subset
<1>5. OwnedSum(t) = SumFunctionOnSet(o, Account) /\ RetiredSum(t) = SumFunctionOnSet(r, Account)
  BY DEF OwnedSum, RetiredSum
<1>6. SumFunction(p) = SumFunctionOnSet(p, Rows) /\ SumFunction(s) = SumFunctionOnSet(s, Rows)
  BY DEF SumFunction
<1> HIDE DEF o, p, r, s
<1>7. \A a \in Rows : o[a] \in Int /\ r[a] \in Int
  BY <1>3, <1>4
<1>8. SumFunctionOnSet(p, Rows) = SumFunctionOnSet(o, Account)
  <2>1. SumFunctionOnSet(o, Account) = SumFunctionOnSet(o, Rows) + SumFunctionOnSet(o, Account \ Rows)
    BY <1>3, <1>4, SumSplit
  <2>2. SumFunctionOnSet(o, Account \ Rows) = 0
    BY <1>2, <1>4, SumZero
  <2>3. SumFunctionOnSet(p, Rows) = SumFunctionOnSet(o, Rows)
    BY <1>1, <1>4, <1>7, SumSame
  <2>4. SumFunctionOnSet(o, Rows) \in Int
    BY <1>4, <1>7, SumType
  <2> QED BY <2>1, <2>2, <2>3, <2>4
<1>9. SumFunctionOnSet(s, Rows) = SumFunctionOnSet(r, Account)
  <2>1. SumFunctionOnSet(r, Account) = SumFunctionOnSet(r, Rows) + SumFunctionOnSet(r, Account \ Rows)
    BY <1>3, <1>4, SumSplit
  <2>2. SumFunctionOnSet(r, Account \ Rows) = 0
    BY <1>2, <1>4, SumZero
  <2>3. SumFunctionOnSet(s, Rows) = SumFunctionOnSet(r, Rows)
    BY <1>1, <1>4, <1>7, SumSame
  <2>4. SumFunctionOnSet(r, Rows) \in Int
    BY <1>4, <1>7, SumType
  <2> QED BY <2>1, <2>2, <2>3, <2>4
<1> QED BY <1>5, <1>6, <1>8, <1>9 DEF p, s

\* The invariant of the supply is the property, when nothing of the token is in hand.
LEMMA SupplyIs == ASSUME BookInv, SupplyOK PROVE SupplyMatches
<1>i. RowsOK /\ CallOK /\ LogOK
  BY DEF BookInv, SyncInv
<1>1. ASSUME NEW t \in TokenId, \A i \in torn \cup {call[Sync].event} : i = 0 \/ log[i].id # t
      PROVE  /\ OwnedSum(t) = total[t].issued /\ RetiredSum(t) = total[t].retired
  <2>1. \A i \in DOMAIN log : i # 0
    BY <1>i, Indices
  <2>2. \A i \in torn : log[i].id # t
    BY <1>1, <1>i, <2>1 DEF RowsOK
  <2>3. OwnedAhead(t) = 0 /\ RetiredAhead(t) = 0
    <3>1. CASE Busy(Sync)
      <4>1. InHand.id # t
        BY <1>1, <1>i, <2>1, <3>1 DEF CallOK, InHand
      <4> QED BY <3>1, <4>1, NothingAhead
    <3>2. CASE ~Busy(Sync)
      BY <3>2, NothingAhead
    <3> QED BY <3>1, <3>2
  <2> QED BY <1>i, <2>2, <2>3, CellsType DEF SupplyOK
<1> QED BY <1>1, <1>i, RowSums DEF SupplyMatches

\* At the start there is no supply.
LEMMA InitSupply == ASSUME Init PROVE SupplyOK
<1>1. /\ balance = [t \in TokenId |-> [a \in Account |-> None]] /\ total = [t \in TokenId |-> NoTotals]
      /\ ~Busy(Sync)
  BY Constants DEF Init, Busy
<1>2. ASSUME NEW t \in TokenId PROVE OwnedSum(t) = 0 /\ RetiredSum(t) = 0
  <2>1. \A a \in Account : Avail(t, a) = 0 /\ Reti(t, a) = 0
    BY <1>1 DEF Avail, Reti
  <2>2. \A a \in Account : [b \in Account |-> Avail(t, b) + Reti(t, b)][a] = 0
                           /\ [b \in Account |-> Reti(t, b)][a] = 0
    BY <2>1
  <2>3. IsFiniteSet(Account)
    BY ContractAssumption
  <2>4. /\ SumFunctionOnSet([b \in Account |-> Avail(t, b) + Reti(t, b)], Account) = 0
        /\ SumFunctionOnSet([b \in Account |-> Reti(t, b)], Account) = 0
    BY <2>2, <2>3, SumZero
  <2> QED BY <2>4 DEF OwnedSum, RetiredSum
<1>3. \A t \in TokenId : total[t].issued = 0 /\ total[t].retired = 0
  BY <1>1 DEF NoTotals
<1> QED BY <1>1, <1>2, <1>3, NothingAhead DEF SupplyOK

-----------------------------------------------------------------------------
(* The copy of the balances. *)

Counted == {i \in DOMAIN log : applied[i] = 1} \ ignored
Burnt(a) == {i \in Counted : log[i].from = a /\ IsRetirement(log[i])}
Once == torn = {} /\ \A i \in DOMAIN log : applied[i] <= 1

\* What the first call of the event in hand has written already.
AvailAhead(t, a) ==
  IF ~Written(t) THEN 0
  ELSE IF IsMint(InHand) THEN (IF InHand.to = a THEN InHand.amount ELSE 0)
       ELSE (IF InHand.from = a THEN -InHand.amount ELSE 0)
BurntAhead(t, a) == IF Written(t) /\ IsRetirement(InHand) /\ InHand.from = a THEN InHand.amount ELSE 0

MirrorOK ==
  Once => \A t \in TokenId, a \in Account :
            /\ Avail(t, a) = Net(Counted, t, a) + AvailAhead(t, a)
            /\ Reti(t, a) = -Net(Burnt(a), t, a) + BurntAhead(t, a)

\* Nothing is written ahead with nothing in hand.
LEMMA NoneAhead ==
  /\ ~Busy(Sync) => \A t, a : AvailAhead(t, a) = 0 /\ BurntAhead(t, a) = 0
  /\ ~call[Sync].wrote => \A t, a : AvailAhead(t, a) = 0 /\ BurntAhead(t, a) = 0
  BY DEF AvailAhead, BurntAhead, Written

\* Nor in the next state.
LEMMA NoneAheadNext ==
  /\ ~Busy(Sync)' => \A t, a : AvailAhead(t, a)' = 0 /\ BurntAhead(t, a)' = 0
  /\ ~call'[Sync].wrote => \A t, a : AvailAhead(t, a)' = 0 /\ BurntAhead(t, a)' = 0
  BY DEF AvailAhead, BurntAhead, Written

\* The net amounts are numbers.
LEMMA NetType ==
  ASSUME LogOK, NEW S \in SUBSET DOMAIN log, NEW t, NEW a
  PROVE  Net(S, t, a) \in Int
<1>1. IsFiniteSet(S) /\ \A i \in S : [j \in S |-> Gain(log[j], t, a)][i] \in Int
  BY LogFinite, GainType
<1> QED BY <1>1, NetIs, SumType

\* The mirror is kept when neither the rows nor the events counted change.
LEMMA MirrorStays ==
  ASSUME MirrorOK, Once' => Once, LogOK, UNCHANGED balance,
         \A i \in DOMAIN log : log'[i] = log[i], Counted' = Counted,
         \A t \in TokenId, a \in Account : AvailAhead(t, a)' = AvailAhead(t, a) /\ BurntAhead(t, a)' = BurntAhead(t, a)
  PROVE  MirrorOK'
<1>1. SUFFICES ASSUME Once', NEW t \in TokenId, NEW a \in Account
               PROVE  /\ Avail(t, a)' = Net(Counted, t, a)' + AvailAhead(t, a)'
                      /\ Reti(t, a)' = -Net(Burnt(a), t, a)' + BurntAhead(t, a)'
  BY DEF MirrorOK
<1>2. PICK S, B : S = Counted /\ B = Burnt(a)
  OBVIOUS
<1>3. S \subseteq DOMAIN log /\ B \subseteq S
  BY <1>2 DEF Counted, Burnt
<1>4. Counted' = S /\ Burnt(a)' = B
  BY <1>2, <1>3 DEF Burnt, IsRetirement
<1>5. Net(S, t, a)' = Net(S, t, a) /\ Net(B, t, a)' = Net(B, t, a)
  BY <1>3, NetStays
<1>6. Net(Counted, t, a)' = Net(S, t, a)' /\ Net(Burnt(a), t, a)' = Net(B, t, a)'
  BY <1>4 DEF Net
<1>7. Avail(t, a)' = Avail(t, a) /\ Reti(t, a)' = Reti(t, a)
  BY DEF Avail, Reti
<1> QED BY <1>1, <1>2, <1>5, <1>6, <1>7 DEF MirrorOK

\* One more event is counted.
LEMMA CountedTakes ==
  ASSUME BookInv, UNCHANGED <<log, ignored, torn>>, NEW i \in DOMAIN log, Handled(i), Once', NEW t, NEW a
  PROVE  /\ Once
         /\ Net(Counted, t, a) \in Int /\ Net(Burnt(a), t, a) \in Int
         /\ Net(Counted, t, a)' = Net(Counted, t, a) + Gain(log[i], t, a)
         /\ Net(Burnt(a), t, a)'
              = Net(Burnt(a), t, a) + (IF log[i].from = a /\ IsRetirement(log[i]) THEN Gain(log[i], t, a) ELSE 0)
<1>i. LogOK /\ CountsOK /\ RowsOK
  BY DEF BookInv, SyncInv
<1>1. \A j \in DOMAIN log : j \in 1 .. MaxEvents /\ applied[j] \in Nat
                            /\ applied'[j] = (IF j = i THEN applied[j] + 1 ELSE applied[j])
  BY <1>i, Indices, HandledIs DEF CountsOK
<1>2. \A j \in DOMAIN log : applied'[j] <= 1
  BY DEF Once
<1>3. applied[i] = 0 /\ applied'[i] = 1
  BY <1>1, <1>2
<1>4. Once
  BY <1>1, <1>2, <1>3 DEF Once
<1>5. i \notin ignored
  BY <1>3, <1>i DEF RowsOK
<1>6. PICK S, B : S = Counted /\ B = Burnt(a)
  OBVIOUS
<1>7. S \subseteq DOMAIN log /\ B \subseteq DOMAIN log /\ i \notin S /\ i \notin B
  BY <1>3, <1>6 DEF Counted, Burnt
<1>8. Counted' = S \cup {i}
  BY <1>1, <1>3, <1>5, <1>6 DEF Counted
<1>9. Burnt(a)' = IF log[i].from = a /\ IsRetirement(log[i]) THEN B \cup {i} ELSE B
  <2>1. Burnt(a)' = {j \in S \cup {i} : log[j].from = a /\ IsRetirement(log[j])}
    BY <1>8 DEF Burnt, IsRetirement
  <2>2. B = {j \in S : log[j].from = a /\ IsRetirement(log[j])}
    BY <1>6 DEF Burnt
  <2> QED BY <2>1, <2>2
<1>10. /\ Net(S, t, a) \in Int /\ Net(B, t, a) \in Int
       /\ Net(S \cup {i}, t, a) = Net(S, t, a) + Gain(log[i], t, a)
       /\ Net(B \cup {i}, t, a) = Net(B, t, a) + Gain(log[i], t, a)
  <2>1. i \in DOMAIN log \ S /\ i \in DOMAIN log \ B /\ S \in SUBSET DOMAIN log /\ B \in SUBSET DOMAIN log
    BY <1>7
  <2>2. Net(S, t, a) \in Int /\ Net(S \cup {i}, t, a) = Net(S, t, a) + Gain(log[i], t, a)
    BY <1>i, <2>1, NetTakes
  <2>3. Net(B, t, a) \in Int /\ Net(B \cup {i}, t, a) = Net(B, t, a) + Gain(log[i], t, a)
    BY <1>i, <2>1, NetTakes
  <2> QED BY <2>2, <2>3
<1>11. PICK T, C : T = Counted' /\ C = Burnt(a)'
  OBVIOUS
<1>12. Net(T, t, a)' = Net(T, t, a) /\ Net(C, t, a)' = Net(C, t, a)
  BY NetStays
<1>13. Net(Counted, t, a)' = Net(T, t, a)' /\ Net(Burnt(a), t, a)' = Net(C, t, a)'
  BY <1>11 DEF Net
<1> QED BY <1>4, <1>6, <1>8, <1>9, <1>10, <1>11, <1>12, <1>13

\* A call of a handler keeps the mirror.
LEMMA CalledMirror == ASSUME BookInv, MirrorOK, NEW e, NEW w, Called(e, w) PROVE MirrorOK'
<1>i. RowsOK /\ CallOK /\ LogOK /\ CountsOK
  BY DEF BookInv, SyncInv
<1>0. PICK i : i = call[Sync].event
  OBVIOUS
<1>1. /\ e = InHand /\ w = call[Sync].wrote /\ Busy(Sync) /\ UNCHANGED <<log, torn>> /\ e.amount \in Nat
      /\ OfTracker(e) <=> e.id \notin TokenId
      /\ e.from = Burn => e.to \in Account
      /\ e.from # Burn => e.from \in Account
      /\ IsMint(e) <=> e.from = Burn
      /\ IsRetirement(e) <=> e.to = Burn
      /\ ~IsRetirement(e) => e.to \in Account
      /\ IsMint(e) => ~IsRetirement(e)
      /\ i \in DOMAIN log /\ e = log[i] /\ e.kind = "transfer"
  BY <1>0, InHandIs DEF Called, InHand
<1>b. Burn \notin Account
  BY ContractAssumption
<1>s. SUFFICES ASSUME Once', NEW t \in TokenId, NEW a \in Account
               PROVE  /\ Avail(t, a)' = Net(Counted, t, a)' + AvailAhead(t, a)'
                      /\ Reti(t, a)' = -Net(Burnt(a), t, a)' + BurntAhead(t, a)'
  BY DEF MirrorOK
<1>n. PICK n \in Nat : n = e.amount
  BY <1>1
<1>g. Gain(e, t, a) = IF e.id = t THEN (IF e.to = a THEN n ELSE 0) - (IF e.from = a THEN n ELSE 0) ELSE 0
  BY <1>1, <1>n DEF Gain
<1>2. /\ AvailAhead(t, a) = IF w /\ e.id = t THEN (IF IsMint(e) THEN (IF e.to = a THEN n ELSE 0)
                                                 ELSE (IF e.from = a THEN -n ELSE 0)) ELSE 0
      /\ BurntAhead(t, a) = IF w /\ e.id = t /\ IsRetirement(e) /\ e.from = a THEN n ELSE 0
  BY <1>1, <1>n DEF AvailAhead, BurntAhead, Written
<1>w. ASSUME w
      PROVE  /\ AvailAhead(t, a) = IF e.id = t THEN (IF IsMint(e) THEN (IF e.to = a THEN n ELSE 0)
                                                   ELSE (IF e.from = a THEN -n ELSE 0)) ELSE 0
             /\ BurntAhead(t, a) = IF e.id = t /\ IsRetirement(e) /\ e.from = a THEN n ELSE 0
  BY <1>2, <1>w
<1>3. ASSUME NEW v \in BOOLEAN, GoesOn(e, v)
      PROVE  /\ Once
             /\ Net(Counted, t, a) \in Int /\ Net(Burnt(a), t, a) \in Int
             /\ Net(Counted, t, a)' = Net(Counted, t, a) /\ Net(Burnt(a), t, a)' = Net(Burnt(a), t, a)
             /\ AvailAhead(t, a)' = IF v /\ e.id = t THEN (IF IsMint(e) THEN (IF e.to = a THEN n ELSE 0)
                                                          ELSE (IF e.from = a THEN -n ELSE 0)) ELSE 0
             /\ BurntAhead(t, a)' = IF v /\ e.id = t /\ IsRetirement(e) /\ e.from = a THEN n ELSE 0
  <2>1. Busy(Sync)' /\ call'[Sync].wrote = v /\ InHand' = e /\ UNCHANGED <<applied, ignored>>
    BY <1>1, <1>3 DEF GoesOn, InHand
  <2>2. /\ AvailAhead(t, a)' = IF v /\ e.id = t THEN (IF IsMint(e) THEN (IF e.to = a THEN n ELSE 0)
                                                      ELSE (IF e.from = a THEN -n ELSE 0)) ELSE 0
        /\ BurntAhead(t, a)' = IF v /\ e.id = t /\ IsRetirement(e) /\ e.from = a THEN n ELSE 0
    BY <1>n, <2>1 DEF AvailAhead, BurntAhead, Written
  <2>3. Once
    BY <1>s, <1>1, <2>1 DEF Once
  <2>4. Net(Counted, t, a)' = Net(Counted, t, a) /\ Net(Burnt(a), t, a)' = Net(Burnt(a), t, a)
    BY <1>1, <2>1 DEF Net, Counted, Burnt, IsRetirement
  <2>5. Counted \subseteq DOMAIN log /\ Burnt(a) \subseteq DOMAIN log
    BY DEF Counted, Burnt
  <2>6. Net(Counted, t, a) \in Int /\ Net(Burnt(a), t, a) \in Int
    BY <1>i, <2>5, NetType
  <2> QED BY <2>2, <2>3, <2>4, <2>6
<1>4. ASSUME IsDone
      PROVE  /\ Once
             /\ Net(Counted, t, a) \in Int /\ Net(Burnt(a), t, a) \in Int
             /\ Net(Counted, t, a)' = Net(Counted, t, a) + Gain(e, t, a)
             /\ Net(Burnt(a), t, a)' = Net(Burnt(a), t, a)
                                         + (IF e.from = a /\ IsRetirement(e) THEN Gain(e, t, a) ELSE 0)
             /\ AvailAhead(t, a)' = 0 /\ BurntAhead(t, a)' = 0
  <2>1. Handled(i) /\ UNCHANGED ignored /\ ~Busy(Sync)'
    BY <1>0, <1>4 DEF IsDone, Busy
  <2> QED BY <1>1, <1>s, <2>1, CountedTakes, NoneAheadNext
<1>5. ASSUME IsDropped
      PROVE  /\ Once
             /\ Net(Counted, t, a) \in Int /\ Net(Burnt(a), t, a) \in Int
             /\ Net(Counted, t, a)' = Net(Counted, t, a) /\ Net(Burnt(a), t, a)' = Net(Burnt(a), t, a)
             /\ AvailAhead(t, a)' = 0 /\ BurntAhead(t, a)' = 0
  <2>1. Handled(i) /\ ignored' = ignored \cup {i} /\ ~Busy(Sync)'
    BY <1>0, <1>5 DEF IsDropped, Busy
  <2>2. \A j \in DOMAIN log : applied[j] \in Nat /\ applied'[j] = (IF j = i THEN applied[j] + 1 ELSE applied[j])
    BY <1>1, <1>i, <2>1, Indices, HandledIs DEF CountsOK
  <2>3. \A j \in DOMAIN log : applied'[j] <= 1
    BY <1>s, <1>1 DEF Once
  <2>4. Once /\ applied[i] = 0
    BY <1>s, <1>1, <2>2, <2>3 DEF Once
  <2>5. Counted' = Counted
    BY <1>1, <2>1, <2>2, <2>4 DEF Counted
  <2>6. Counted \subseteq DOMAIN log /\ Burnt(a) \subseteq DOMAIN log
    BY DEF Counted, Burnt
  <2>7. Net(Counted, t, a) \in Int /\ Net(Burnt(a), t, a) \in Int
    BY <1>i, <2>6, NetType
  <2>8. Net(Counted, t, a)' = Net(Counted, t, a) /\ Net(Burnt(a), t, a)' = Net(Burnt(a), t, a)
    BY <1>1, <2>5 DEF Net, Burnt, IsRetirement
  <2> QED BY <2>1, <2>4, <2>7, <2>8, NoneAheadNext
<1>6. ASSUME Once
      PROVE  /\ Avail(t, a) = Net(Counted, t, a) + AvailAhead(t, a)
             /\ Reti(t, a) = -Net(Burnt(a), t, a) + BurntAhead(t, a)
  BY <1>6 DEF MirrorOK
<1>7. ASSUME NEW x, NEW dA, NEW dR, NEW dI, NEW dT, Booked(e, x, dA, dR, dI, dT)
      PROVE  /\ Avail(t, a)' = Avail(t, a) + (IF t = e.id /\ a = x THEN dA ELSE 0)
             /\ Reti(t, a)' = Reti(t, a) + (IF t = e.id /\ a = x THEN dR ELSE 0)
  BY <1>7 DEF Booked
<1>8. CASE IsMint(e) /\ ~OfTracker(e) /\ ~w /\ Booked(e, e.to, 0, 0, 0, 0) /\ IsDropped
  <2>1. /\ Avail(t, a)' = Avail(t, a) + (IF t = e.id /\ a = e.to THEN 0 ELSE 0)
        /\ Reti(t, a)' = Reti(t, a) + (IF t = e.id /\ a = e.to THEN 0 ELSE 0)
    BY <1>7, <1>8
  <2>2. Once
    BY <1>5, <1>8
  <2>3. /\ Avail(t, a) = Net(Counted, t, a) + AvailAhead(t, a)
        /\ Reti(t, a) = -Net(Burnt(a), t, a) + BurntAhead(t, a)
    BY <1>6, <2>2
  <2>4. /\ Net(Counted, t, a) \in Int /\ Net(Burnt(a), t, a) \in Int
        /\ Net(Counted, t, a)' = Net(Counted, t, a) /\ Net(Burnt(a), t, a)' = Net(Burnt(a), t, a)
        /\ AvailAhead(t, a)' = 0 /\ BurntAhead(t, a)' = 0
    BY <1>5, <1>8
  <2> QED BY <1>1, <1>2, <1>b, <1>g, <1>s, <1>8, <2>1, <2>3, <2>4
<1>9. CASE IsMint(e) /\ ~OfTracker(e) /\ ~w /\ Booked(e, e.to, 0, 0, 0, 0) /\ GoesOn(e, FALSE)
  <2>1. /\ Avail(t, a)' = Avail(t, a) + (IF t = e.id /\ a = e.to THEN 0 ELSE 0)
        /\ Reti(t, a)' = Reti(t, a) + (IF t = e.id /\ a = e.to THEN 0 ELSE 0)
    BY <1>7, <1>9
  <2>2. Once
    BY <1>3, <1>9
  <2>3. /\ Avail(t, a) = Net(Counted, t, a) + AvailAhead(t, a)
        /\ Reti(t, a) = -Net(Burnt(a), t, a) + BurntAhead(t, a)
    BY <1>6, <2>2
  <2>4. /\ Net(Counted, t, a) \in Int /\ Net(Burnt(a), t, a) \in Int
        /\ Net(Counted, t, a)' = Net(Counted, t, a) /\ Net(Burnt(a), t, a)' = Net(Burnt(a), t, a)
        /\ AvailAhead(t, a)' = IF FALSE /\ e.id = t THEN (IF IsMint(e) THEN (IF e.to = a THEN n ELSE 0)
                                                    ELSE (IF e.from = a THEN -n ELSE 0)) ELSE 0
        /\ BurntAhead(t, a)' = IF FALSE /\ e.id = t /\ IsRetirement(e) /\ e.from = a THEN n ELSE 0
    BY <1>3, <1>9
  <2> QED BY <1>1, <1>2, <1>b, <1>g, <1>s, <1>9, <2>1, <2>3, <2>4
<1>10. CASE IsMint(e) /\ ~OfTracker(e) /\ ~w /\ Booked(e, e.to, n, 0, 0, 0) /\ GoesOn(e, TRUE)
  <2>1. /\ Avail(t, a)' = Avail(t, a) + (IF t = e.id /\ a = e.to THEN n ELSE 0)
        /\ Reti(t, a)' = Reti(t, a) + (IF t = e.id /\ a = e.to THEN 0 ELSE 0)
    BY <1>7, <1>10
  <2>2. Once
    BY <1>3, <1>10
  <2>3. /\ Avail(t, a) = Net(Counted, t, a) + AvailAhead(t, a)
        /\ Reti(t, a) = -Net(Burnt(a), t, a) + BurntAhead(t, a)
    BY <1>6, <2>2
  <2>4. /\ Net(Counted, t, a) \in Int /\ Net(Burnt(a), t, a) \in Int
        /\ Net(Counted, t, a)' = Net(Counted, t, a) /\ Net(Burnt(a), t, a)' = Net(Burnt(a), t, a)
        /\ AvailAhead(t, a)' = IF TRUE /\ e.id = t THEN (IF IsMint(e) THEN (IF e.to = a THEN n ELSE 0)
                                                    ELSE (IF e.from = a THEN -n ELSE 0)) ELSE 0
        /\ BurntAhead(t, a)' = IF TRUE /\ e.id = t /\ IsRetirement(e) /\ e.from = a THEN n ELSE 0
    BY <1>3, <1>10
  <2> QED BY <1>1, <1>2, <1>b, <1>g, <1>s, <1>10, <2>1, <2>3, <2>4
<1>11. CASE IsMint(e) /\ ~OfTracker(e) /\ w /\ Booked(e, e.to, 0, 0, n, 0) /\ IsDone
  <2>1. /\ Avail(t, a)' = Avail(t, a) + (IF t = e.id /\ a = e.to THEN 0 ELSE 0)
        /\ Reti(t, a)' = Reti(t, a) + (IF t = e.id /\ a = e.to THEN 0 ELSE 0)
    BY <1>7, <1>11
  <2>2. Once
    BY <1>4, <1>11
  <2>3. /\ Avail(t, a) = Net(Counted, t, a) + AvailAhead(t, a)
        /\ Reti(t, a) = -Net(Burnt(a), t, a) + BurntAhead(t, a)
    BY <1>6, <2>2
  <2>4. /\ Net(Counted, t, a) \in Int /\ Net(Burnt(a), t, a) \in Int
        /\ Net(Counted, t, a)' = Net(Counted, t, a) + Gain(e, t, a)
        /\ Net(Burnt(a), t, a)' = Net(Burnt(a), t, a)
                                     + (IF e.from = a /\ IsRetirement(e) THEN Gain(e, t, a) ELSE 0)
        /\ AvailAhead(t, a)' = 0 /\ BurntAhead(t, a)' = 0
    BY <1>4, <1>11
  <2> QED BY <1>1, <1>b, <1>g, <1>s, <1>w, <1>11, <2>1, <2>3, <2>4
<1>12. CASE IsRetirement(e) /\ ~OfTracker(e) /\ ~w /\ Booked(e, e.from, -n, n, 0, 0) /\ GoesOn(e, TRUE)
  <2>1. /\ Avail(t, a)' = Avail(t, a) + (IF t = e.id /\ a = e.from THEN -n ELSE 0)
        /\ Reti(t, a)' = Reti(t, a) + (IF t = e.id /\ a = e.from THEN n ELSE 0)
    BY <1>7, <1>12
  <2>2. Once
    BY <1>3, <1>12
  <2>3. /\ Avail(t, a) = Net(Counted, t, a) + AvailAhead(t, a)
        /\ Reti(t, a) = -Net(Burnt(a), t, a) + BurntAhead(t, a)
    BY <1>6, <2>2
  <2>4. /\ Net(Counted, t, a) \in Int /\ Net(Burnt(a), t, a) \in Int
        /\ Net(Counted, t, a)' = Net(Counted, t, a) /\ Net(Burnt(a), t, a)' = Net(Burnt(a), t, a)
        /\ AvailAhead(t, a)' = IF TRUE /\ e.id = t THEN (IF IsMint(e) THEN (IF e.to = a THEN n ELSE 0)
                                                    ELSE (IF e.from = a THEN -n ELSE 0)) ELSE 0
        /\ BurntAhead(t, a)' = IF TRUE /\ e.id = t /\ IsRetirement(e) /\ e.from = a THEN n ELSE 0
    BY <1>3, <1>12
  <2> QED BY <1>1, <1>2, <1>b, <1>g, <1>s, <1>12, <2>1, <2>3, <2>4
<1>13. CASE IsRetirement(e) /\ ~OfTracker(e) /\ w /\ Booked(e, e.from, 0, 0, 0, n) /\ IsDone
  <2>1. /\ Avail(t, a)' = Avail(t, a) + (IF t = e.id /\ a = e.from THEN 0 ELSE 0)
        /\ Reti(t, a)' = Reti(t, a) + (IF t = e.id /\ a = e.from THEN 0 ELSE 0)
    BY <1>7, <1>13
  <2>2. Once
    BY <1>4, <1>13
  <2>3. /\ Avail(t, a) = Net(Counted, t, a) + AvailAhead(t, a)
        /\ Reti(t, a) = -Net(Burnt(a), t, a) + BurntAhead(t, a)
    BY <1>6, <2>2
  <2>4. /\ Net(Counted, t, a) \in Int /\ Net(Burnt(a), t, a) \in Int
        /\ Net(Counted, t, a)' = Net(Counted, t, a) + Gain(e, t, a)
        /\ Net(Burnt(a), t, a)' = Net(Burnt(a), t, a)
                                     + (IF e.from = a /\ IsRetirement(e) THEN Gain(e, t, a) ELSE 0)
        /\ AvailAhead(t, a)' = 0 /\ BurntAhead(t, a)' = 0
    BY <1>4, <1>13
  <2> QED BY <1>1, <1>b, <1>g, <1>s, <1>w, <1>13, <2>1, <2>3, <2>4
<1>14. CASE ~IsMint(e) /\ ~IsRetirement(e) /\ ~OfTracker(e) /\ ~w /\ Booked(e, e.from, -n, 0, 0, 0) /\ GoesOn(e, TRUE)
  <2>1. /\ Avail(t, a)' = Avail(t, a) + (IF t = e.id /\ a = e.from THEN -n ELSE 0)
        /\ Reti(t, a)' = Reti(t, a) + (IF t = e.id /\ a = e.from THEN 0 ELSE 0)
    BY <1>7, <1>14
  <2>2. Once
    BY <1>3, <1>14
  <2>3. /\ Avail(t, a) = Net(Counted, t, a) + AvailAhead(t, a)
        /\ Reti(t, a) = -Net(Burnt(a), t, a) + BurntAhead(t, a)
    BY <1>6, <2>2
  <2>4. /\ Net(Counted, t, a) \in Int /\ Net(Burnt(a), t, a) \in Int
        /\ Net(Counted, t, a)' = Net(Counted, t, a) /\ Net(Burnt(a), t, a)' = Net(Burnt(a), t, a)
        /\ AvailAhead(t, a)' = IF TRUE /\ e.id = t THEN (IF IsMint(e) THEN (IF e.to = a THEN n ELSE 0)
                                                    ELSE (IF e.from = a THEN -n ELSE 0)) ELSE 0
        /\ BurntAhead(t, a)' = IF TRUE /\ e.id = t /\ IsRetirement(e) /\ e.from = a THEN n ELSE 0
    BY <1>3, <1>14
  <2> QED BY <1>1, <1>2, <1>b, <1>g, <1>s, <1>14, <2>1, <2>3, <2>4
<1>15. CASE ~IsMint(e) /\ ~IsRetirement(e) /\ ~OfTracker(e) /\ w /\ Booked(e, e.from, 0, 0, 0, 0) /\ GoesOn(e, TRUE)
  <2>1. /\ Avail(t, a)' = Avail(t, a) + (IF t = e.id /\ a = e.from THEN 0 ELSE 0)
        /\ Reti(t, a)' = Reti(t, a) + (IF t = e.id /\ a = e.from THEN 0 ELSE 0)
    BY <1>7, <1>15
  <2>2. Once
    BY <1>3, <1>15
  <2>3. /\ Avail(t, a) = Net(Counted, t, a) + AvailAhead(t, a)
        /\ Reti(t, a) = -Net(Burnt(a), t, a) + BurntAhead(t, a)
    BY <1>6, <2>2
  <2>4. /\ Net(Counted, t, a) \in Int /\ Net(Burnt(a), t, a) \in Int
        /\ Net(Counted, t, a)' = Net(Counted, t, a) /\ Net(Burnt(a), t, a)' = Net(Burnt(a), t, a)
        /\ AvailAhead(t, a)' = IF TRUE /\ e.id = t THEN (IF IsMint(e) THEN (IF e.to = a THEN n ELSE 0)
                                                    ELSE (IF e.from = a THEN -n ELSE 0)) ELSE 0
        /\ BurntAhead(t, a)' = IF TRUE /\ e.id = t /\ IsRetirement(e) /\ e.from = a THEN n ELSE 0
    BY <1>3, <1>15
  <2> QED BY <1>1, <1>b, <1>g, <1>s, <1>w, <1>15, <2>1, <2>3, <2>4
<1>16. CASE ~IsMint(e) /\ ~IsRetirement(e) /\ ~OfTracker(e) /\ w /\ Booked(e, e.to, n, 0, 0, 0) /\ IsDone
  <2>1. /\ Avail(t, a)' = Avail(t, a) + (IF t = e.id /\ a = e.to THEN n ELSE 0)
        /\ Reti(t, a)' = Reti(t, a) + (IF t = e.id /\ a = e.to THEN 0 ELSE 0)
    BY <1>7, <1>16
  <2>2. Once
    BY <1>4, <1>16
  <2>3. /\ Avail(t, a) = Net(Counted, t, a) + AvailAhead(t, a)
        /\ Reti(t, a) = -Net(Burnt(a), t, a) + BurntAhead(t, a)
    BY <1>6, <2>2
  <2>4. /\ Net(Counted, t, a) \in Int /\ Net(Burnt(a), t, a) \in Int
        /\ Net(Counted, t, a)' = Net(Counted, t, a) + Gain(e, t, a)
        /\ Net(Burnt(a), t, a)' = Net(Burnt(a), t, a)
                                     + (IF e.from = a /\ IsRetirement(e) THEN Gain(e, t, a) ELSE 0)
        /\ AvailAhead(t, a)' = 0 /\ BurntAhead(t, a)' = 0
    BY <1>4, <1>16
  <2> QED BY <1>1, <1>b, <1>g, <1>s, <1>w, <1>16, <2>1, <2>3, <2>4
<1>17. CASE OfTracker(e) /\ ~w /\ Booked(e, e.to, 0, 0, 0, 0) /\ IsDone
  <2>1. /\ Avail(t, a)' = Avail(t, a) + (IF t = e.id /\ a = e.to THEN 0 ELSE 0)
        /\ Reti(t, a)' = Reti(t, a) + (IF t = e.id /\ a = e.to THEN 0 ELSE 0)
    BY <1>7, <1>17
  <2>2. Once
    BY <1>4, <1>17
  <2>3. /\ Avail(t, a) = Net(Counted, t, a) + AvailAhead(t, a)
        /\ Reti(t, a) = -Net(Burnt(a), t, a) + BurntAhead(t, a)
    BY <1>6, <2>2
  <2>4. /\ Net(Counted, t, a) \in Int /\ Net(Burnt(a), t, a) \in Int
        /\ Net(Counted, t, a)' = Net(Counted, t, a) + Gain(e, t, a)
        /\ Net(Burnt(a), t, a)' = Net(Burnt(a), t, a)
                                     + (IF e.from = a /\ IsRetirement(e) THEN Gain(e, t, a) ELSE 0)
        /\ AvailAhead(t, a)' = 0 /\ BurntAhead(t, a)' = 0
    BY <1>4, <1>17
  <2> QED BY <1>1, <1>2, <1>b, <1>g, <1>s, <1>17, <2>1, <2>3, <2>4
<1>18. BookCall(e, w)
  BY DEF Called
<1> QED BY <1>n, <1>8, <1>9, <1>10, <1>11, <1>12, <1>13, <1>14, <1>15, <1>16, <1>17, <1>18 DEF BookCall

\* The mirror is exact at every step.
LEMMA MirrorKeeps == ASSUME BookInv, MirrorOK, [Next]_syncVars PROVE MirrorOK'
<1>i. RowsOK /\ HandOK /\ CallOK /\ LogOK /\ CountsOK
  BY DEF BookInv, SyncInv
<1>1. CASE Mined
  <2>1. UNCHANGED <<balance, torn, call, applied, ignored>> /\ DOMAIN log \subseteq DOMAIN log'
        /\ \A i \in DOMAIN log : log'[i] = log[i]
    BY <1>1 DEF Mined, Grew, tables, history
  <2>2. \A i \in DOMAIN log' : i \in 1 .. MaxEvents
    <3>1. Len(log') <= MaxEvents /\ log' \in Seq(Event)
      BY <1>1 DEF Mined, Grew
    <3>2. DOMAIN log' = 1 .. Len(log') /\ Len(log') \in Nat
      BY <3>1
    <3> QED BY <3>1, <3>2, Constants
  <2>3. \A i \in DOMAIN log' : i \in DOMAIN log \/ applied[i] = 0
    BY <1>i, <2>2 DEF RowsOK
  <2>4. Counted' = Counted
    BY <2>1, <2>3 DEF Counted
  <2>5. Once' => Once
    BY <2>1 DEF Once
  <2>6. \A t \in TokenId, a \in Account : AvailAhead(t, a)' = AvailAhead(t, a) /\ BurntAhead(t, a)' = BurntAhead(t, a)
    <3>1. CASE Busy(Sync)
      <4>1. InHand' = InHand /\ Busy(Sync)'
        BY <1>i, <2>1, <3>1 DEF InHand, Busy, CallOK
      <4> QED BY <2>1, <3>1, <4>1 DEF AvailAhead, BurntAhead, Written
    <3>2. CASE ~Busy(Sync)
      <4>1. ~Busy(Sync)'
        BY <2>1, <3>2 DEF Busy
      <4> QED BY <3>2, <4>1, NoneAhead, NoneAheadNext
    <3> QED BY <3>1, <3>2
  <2> QED BY <1>i, <2>1, <2>4, <2>5, <2>6, MirrorStays
<1>2. CASE Cleared
  <2>1. /\ balance' = [t \in TokenId |-> [a \in Account |-> None]] /\ ~Busy(Sync)' /\ UNCHANGED log
        /\ applied' = [i \in 1 .. MaxEvents |-> 0]
    BY <1>2 DEF Cleared, EmptyTables, Busy
  <2>2. \A t \in TokenId, a \in Account : Avail(t, a)' = 0 /\ Reti(t, a)' = 0
    BY <2>1 DEF Avail, Reti
  <2>3. \A i \in DOMAIN log' : applied'[i] = 0
    BY <1>i, <2>1, Indices
  <2>4. Counted' = {} /\ \A a : Burnt(a)' = {}
    BY <2>3 DEF Counted, Burnt
  <2>5. ASSUME NEW t \in TokenId, NEW a \in Account
        PROVE  Net(Counted, t, a)' = 0 /\ Net(Burnt(a), t, a)' = 0
    <3>1. Net({}, t, a)' = Net({}, t, a)
      BY NetStays
    <3>2. Net({}, t, a)' = 0
      BY <3>1, NetNone
    <3>3. Net(Counted, t, a)' = Net({}, t, a)' /\ Net(Burnt(a), t, a)' = Net({}, t, a)'
      BY <2>4 DEF Net
    <3> QED BY <3>2, <3>3
  <2> QED BY <2>1, <2>2, <2>5, NoneAheadNext DEF MirrorOK
<1>3. CASE Kept
  <2>1. UNCHANGED <<log, balance, torn, call, applied, ignored>>
    BY <1>3 DEF Kept
  <2>2. /\ Counted' = Counted /\ (Once' => Once)
        /\ \A t \in TokenId, a \in Account : AvailAhead(t, a)' = AvailAhead(t, a) /\ BurntAhead(t, a)' = BurntAhead(t, a)
    BY <2>1 DEF Counted, Once, AvailAhead, BurntAhead, Written, Busy, InHand, IsMint, IsRetirement
  <2> QED BY <1>i, <2>1, <2>2, MirrorStays
<1>4. ASSUME NEW i, Taken(i) PROVE MirrorOK'
  <2>1. UNCHANGED <<log, balance, torn, applied, ignored>> /\ ~Busy(Sync)
    BY <1>4 DEF Taken
  <2>2. ~call'[Sync].wrote
    BY <1>4, <1>i, Constants DEF Taken, Start, CallOK
  <2>3. Counted' = Counted /\ (Once' => Once)
    BY <2>1 DEF Counted, Once
  <2>4. \A t \in TokenId, a \in Account : AvailAhead(t, a)' = AvailAhead(t, a) /\ BurntAhead(t, a)' = BurntAhead(t, a)
    BY <2>1, <2>2, NoneAhead, NoneAheadNext
  <2> QED BY <1>i, <2>1, <2>3, <2>4, MirrorStays
<1>5. ASSUME NEW i, Passed(i) PROVE MirrorOK'
  <2>1. UNCHANGED <<log, balance, torn, ignored>> /\ ~Busy(Sync) /\ ~Busy(Sync)' /\ i \in DOMAIN log
        /\ ~Moves(i) /\ Handled(i)
    BY <1>5 DEF Passed, Busy
  <2>2. \A t, a : Gain(log[i], t, a) = 0
    BY <2>1 DEF Gain, Moves
  <2>3. ASSUME Once', NEW t \in TokenId, NEW a \in Account
        PROVE  /\ Avail(t, a)' = Net(Counted, t, a)' + AvailAhead(t, a)'
               /\ Reti(t, a)' = -Net(Burnt(a), t, a)' + BurntAhead(t, a)'
    <3>1. /\ Once
          /\ Net(Counted, t, a) \in Int /\ Net(Burnt(a), t, a) \in Int
          /\ Net(Counted, t, a)' = Net(Counted, t, a) + Gain(log[i], t, a)
          /\ Net(Burnt(a), t, a)'
               = Net(Burnt(a), t, a) + (IF log[i].from = a /\ IsRetirement(log[i]) THEN Gain(log[i], t, a) ELSE 0)
      BY <2>1, <2>3, CountedTakes
    <3>2. Avail(t, a) = Net(Counted, t, a) + AvailAhead(t, a) /\ Reti(t, a) = -Net(Burnt(a), t, a) + BurntAhead(t, a)
      BY <3>1 DEF MirrorOK
    <3>3. Avail(t, a)' = Avail(t, a) /\ Reti(t, a)' = Reti(t, a)
      BY <2>1 DEF Avail, Reti
    <3> QED BY <2>1, <2>2, <3>1, <3>2, <3>3, NoneAhead, NoneAheadNext
  <2> QED BY <2>3 DEF MirrorOK
<1>6. CASE Lost
  <2>1. UNCHANGED <<log, balance, applied, ignored>> /\ ~Busy(Sync)'
        /\ torn' = IF call[Sync].wrote THEN torn \cup {call[Sync].event} ELSE torn
    BY <1>6 DEF Lost, Busy
  <2>2. CASE call[Sync].wrote
    <3>1. ~Once'
      BY <2>1, <2>2 DEF Once
    <3> QED BY <3>1 DEF MirrorOK
  <2>3. CASE ~call[Sync].wrote
    <3>1. Counted' = Counted /\ (Once' => Once)
      BY <2>1, <2>3 DEF Counted, Once
    <3>2. \A t \in TokenId, a \in Account : AvailAhead(t, a)' = AvailAhead(t, a) /\ BurntAhead(t, a)' = BurntAhead(t, a)
      BY <2>1, <2>3, NoneAhead, NoneAheadNext
    <3> QED BY <1>i, <2>1, <3>1, <3>2, MirrorStays
  <2> QED BY <2>2, <2>3
<1> QED BY <1>1, <1>2, <1>3, <1>4, <1>5, <1>6, StepKinds, CalledMirror

\* The invariant is the property, when nothing is in hand.
LEMMA MirrorIs == ASSUME BookInv, MirrorOK PROVE MirrorExact
<1>1. SUFFICES ASSUME call[Sync] = NoCall, torn = {}, \A i \in DOMAIN log : applied[i] <= 1,
                      NEW t \in TokenId, NEW a \in Account
               PROVE  /\ Avail(t, a) = Net(Counted, t, a)
                      /\ Reti(t, a) = -Net(Burnt(a), t, a)
  BY DEF MirrorExact, Avail, Reti, Counted, Burnt
<1>2. Once /\ ~Busy(Sync)
  BY <1>1 DEF Once, Busy
<1>3. AvailAhead(t, a) = 0 /\ BurntAhead(t, a) = 0
  BY <1>2, NoneAhead
<1>4. Avail(t, a) = Net(Counted, t, a) + 0 /\ Reti(t, a) = -Net(Burnt(a), t, a) + 0
  BY <1>2, <1>3 DEF MirrorOK
<1>5. Counted \subseteq DOMAIN log /\ Burnt(a) \subseteq DOMAIN log /\ LogOK
  BY DEF Counted, Burnt, BookInv, SyncInv
<1>6. Net(Counted, t, a) \in Int /\ Net(Burnt(a), t, a) \in Int
  BY <1>5, NetType
<1> QED BY <1>4, <1>6

\* At the start nothing is mirrored.
LEMMA InitMirror == ASSUME Init PROVE MirrorOK
<1>1. balance = [t \in TokenId |-> [a \in Account |-> None]] /\ DOMAIN log = {} /\ ~Busy(Sync)
  BY Constants DEF Init, ChainInit, Busy
<1>2. \A t \in TokenId, a \in Account : Avail(t, a) = 0 /\ Reti(t, a) = 0
  BY <1>1 DEF Avail, Reti
<1>3. Counted = {} /\ \A a : Burnt(a) = {}
  BY <1>1 DEF Counted, Burnt
<1>4. \A t, a : Net(Counted, t, a) = 0 /\ Net(Burnt(a), t, a) = 0
  BY <1>3, NetNone
<1> QED BY <1>1, <1>2, <1>4, NoneAhead DEF MirrorOK

-----------------------------------------------------------------------------
(* How often an event is handled when nothing fails. *)

Allowed(i) == IF log[i].block \in edges THEN 2 ELSE 1
\* The pass is done with an event of its window.
Past(i) == Seen(i) /\ ~(Busy(Sync) /\ call[Sync].event = i)

\* No event from block b on was handled, and no window after the first began there.
FreshFrom(b) ==
  /\ \A i \in DOMAIN log : applied[i] <= Allowed(i) /\ (log[i].block >= b => applied[i] = 0)
  /\ \A d \in edges : d < b

\* In a window the event at its first block may be handled for the second time.
Before(i) == IF log[i].block = pass.from /\ pass.from \in edges THEN 1 ELSE 0
WindowCounts ==
  /\ \A d \in edges : d <= pass.from
  /\ \A i \in DOMAIN log :
       /\ log[i].block < pass.from => applied[i] <= Allowed(i)
       /\ log[i].block > pass.to => applied[i] = 0
       /\ log[i].block \in pass.from .. pass.to => applied[i] <= Before(i) + (IF Past(i) THEN 1 ELSE 0)

RepeatsOK ==
  /\ failures \in Nat
  /\ failures = 0 =>
       /\ edges \subseteq Nat
       /\ pass.at = "down" => lastSync = None /\ \A i \in DOMAIN log : applied[i] = 0
       /\ pass.at = "idle" => FreshFrom(SavedBlock + 1)
       /\ Preparing => FreshFrom(pass.from) /\ pass.from <= SavedBlock + 1
       /\ InWindow => WindowCounts

\* What is needed of the numbers.
LEMMA Numbers ==
  ASSUME BookInv
  PROVE  /\ LogOK /\ CountsOK /\ SavedOK /\ PassOK /\ CallOK
         /\ \A i \in DOMAIN log : i \in Nat /\ i \in 1 .. MaxEvents /\ log[i].block \in Nat /\ applied[i] \in Nat
         /\ SavedBlock \in Nat
         /\ Running => pass.from \in Nat
         /\ InWindow => Running /\ pass.to \in Nat /\ pass.from <= pass.to /\ pass.next \in Nat
<1>1. LogOK /\ CountsOK /\ SavedOK /\ PassOK /\ CallOK
  BY DEF BookInv, SyncInv
<1>2. \A i \in DOMAIN log : i \in Nat /\ i \in 1 .. MaxEvents /\ log[i].block \in Nat /\ applied[i] \in Nat
  BY <1>1, Indices DEF CountsOK
<1>3. SavedBlock \in Nat
  BY <1>1, SavedBlockIs
<1> QED BY <1>1, <1>2, <1>3 DEF PassOK, InWindow, Running

\* The step of a pass within its window, at most one event of it being handled.
LEMMA WindowGoesOn ==
  ASSUME BookInv, RepeatsOK, InWindow, InWindow', UNCHANGED <<log, edges, failures>>,
         pass'.from = pass.from, pass'.to = pass.to,
         \A i \in DOMAIN log :
           \/ applied'[i] = applied[i] /\ (Past(i) => Past(i)')
           \/ applied'[i] = applied[i] + 1 /\ ~Past(i) /\ Past(i)' /\ log[i].block \in pass.from .. pass.to
  PROVE  RepeatsOK'
<1>1. pass'.at \notin {"down", "idle"} /\ ~Preparing'
  BY DEF InWindow, Preparing
<1>2. ASSUME failures = 0 PROVE WindowCounts'
  <2>1. WindowCounts
    BY <1>2 DEF RepeatsOK
  <2>2. \A i \in DOMAIN log : /\ log[i].block \in Nat /\ applied[i] \in Nat /\ Allowed(i)' = Allowed(i)
                             /\ Before(i)' = Before(i) /\ Before(i) \in {0, 1}
    BY Numbers DEF Allowed, Before
  <2>3. pass.from \in Nat /\ pass.to \in Nat
    BY Numbers
  <2>4. ASSUME NEW i \in DOMAIN log
        PROVE  /\ log[i].block < pass.from => applied'[i] <= Allowed(i)
               /\ log[i].block > pass.to => applied'[i] = 0
               /\ log[i].block \in pass.from .. pass.to => applied'[i] <= Before(i) + (IF Past(i)' THEN 1 ELSE 0)
    <3>1. /\ log[i].block < pass.from => applied[i] <= Allowed(i)
          /\ log[i].block > pass.to => applied[i] = 0
          /\ log[i].block \in pass.from .. pass.to => applied[i] <= Before(i) + (IF Past(i) THEN 1 ELSE 0)
      BY <2>1 DEF WindowCounts
    <3>2. CASE applied'[i] = applied[i] /\ (Past(i) => Past(i)')
      BY <2>2, <3>1, <3>2
    <3>3. CASE applied'[i] = applied[i] + 1 /\ ~Past(i) /\ Past(i)' /\ log[i].block \in pass.from .. pass.to
      BY <2>2, <2>3, <3>1, <3>3
    <3> QED BY <3>2, <3>3
  <2> QED BY <2>1, <2>2, <2>4 DEF WindowCounts
<1> QED BY <1>1, <1>2 DEF RepeatsOK

\* The chain grows.
LEMMA MinedRepeats == ASSUME BookInv, RepeatsOK, Mined PROVE RepeatsOK'
<1>u. UNCHANGED <<applied, edges, lastSync, pass, call, failures>>
  BY DEF Mined, history
<1>g. DOMAIN log \subseteq DOMAIN log' /\ \A i \in DOMAIN log : log'[i] = log[i]
  BY DEF Mined, Grew
<1>l. \A i \in DOMAIN log' : i \in DOMAIN log \/ applied[i] = 0
  <2>1. Len(log') <= MaxEvents /\ log' \in Seq(Event)
    BY DEF Mined, Grew
  <2>2. DOMAIN log' = 1 .. Len(log') /\ Len(log') \in Nat
    BY <2>1
  <2>3. \A i \in DOMAIN log' : i \in 1 .. MaxEvents
    BY <2>1, <2>2, Constants
  <2> QED BY <2>3 DEF BookInv, RowsOK
<1>1. SavedBlock' = SavedBlock /\ (Preparing' <=> Preparing) /\ (InWindow' <=> InWindow)
  BY <1>u DEF SavedBlock, Preparing, InWindow
<1>2. \A i \in DOMAIN log : Allowed(i)' = Allowed(i) /\ Before(i)' = Before(i) /\ (Past(i)' <=> Past(i))
  BY <1>u, <1>g DEF Allowed, Before, Past, Seen, Busy, OfTracker
<1>3. \A i \in DOMAIN log' : Allowed(i)' \in {1, 2} /\ Before(i)' \in {0, 1}
  BY DEF Allowed, Before
<1>4. ASSUME NEW b, FreshFrom(b) PROVE FreshFrom(b)'
  BY <1>u, <1>g, <1>l, <1>2, <1>3, <1>4 DEF FreshFrom
<1>5. ASSUME WindowCounts PROVE WindowCounts'
  BY <1>u, <1>g, <1>l, <1>2, <1>3, <1>5 DEF WindowCounts
<1>6. /\ FreshFrom(SavedBlock + 1) => FreshFrom(SavedBlock + 1)'
      /\ FreshFrom(pass.from) => FreshFrom(pass.from)'
  <2>1. PICK b, d : b = SavedBlock + 1 /\ d = pass.from
    OBVIOUS
  <2>2. b = SavedBlock' + 1 /\ d = pass'.from
    BY <1>1, <1>u, <2>1
  <2>3. FreshFrom(SavedBlock + 1)' <=> FreshFrom(b)'
    BY <2>2 DEF FreshFrom
  <2>4. FreshFrom(pass.from)' <=> FreshFrom(d)'
    BY <2>2 DEF FreshFrom
  <2> QED BY <1>4, <2>1, <2>3, <2>4
<1>7. (\A i \in DOMAIN log : applied[i] = 0) => \A i \in DOMAIN log' : applied'[i] = 0
  BY <1>u, <1>l
<1> QED BY <1>u, <1>1, <1>5, <1>6, <1>7 DEF RepeatsOK

\* A step of a pass that fails counts as a failure.
LEMMA FailedRepeats ==
  ASSUME RepeatsOK, failures' = failures + 1
  PROVE  RepeatsOK'
  BY DEF RepeatsOK

\* The first pass starts with empty tables, as nothing was saved.
LEMMA StartupRepeats ==
  ASSUME BookInv, RepeatsOK, StartupSync, UNCHANGED <<height, log, roles, hardhat>>
  PROVE  RepeatsOK'
<1> DEFINE first == IF hardhat THEN 0 ELSE FirstBlock
           from == IF ~hardhat /\ SavedBlock # FirstBlock THEN SavedBlock + 1 ELSE first
<1>1. pass.at = "down" /\ Begin(from, TRUE) /\ UNCHANGED <<lastSync, failures>> /\ (from = first => EmptyTables)
  BY DEF StartupSync
<1>2. ASSUME failures = 0
      PROVE  edges' \subseteq Nat /\ FreshFrom(pass.from)' /\ pass'.from <= SavedBlock' + 1
  <2>1. SavedBlock = FirstBlock /\ FirstBlock \in Nat
    BY <1>1, <1>2, Constants DEF RepeatsOK, SavedBlock
  <2>2. from = first /\ first <= FirstBlock /\ first \in Nat
    BY <2>1
  <2>3. applied' = [i \in 1 .. MaxEvents |-> 0] /\ edges' = {}
    BY <1>1, <2>2 DEF EmptyTables
  <2>4. pass'.from = first
    BY <1>1, <2>2, BeginIs
  <2>5. \A i \in DOMAIN log' : applied'[i] = 0
    BY <2>3, Numbers
  <2>8. \A i : Allowed(i)' \in {1, 2}
    BY DEF Allowed
  <2>6. FreshFrom(pass.from)'
    <3>1. PICK b : b = pass'.from
      OBVIOUS
    <3>2. \A i \in DOMAIN log' : applied'[i] <= Allowed(i)' /\ (log'[i].block >= b => applied'[i] = 0)
      BY <2>5, <2>8
    <3> QED BY <2>3, <3>1, <3>2 DEF FreshFrom
  <2>7. SavedBlock' = SavedBlock
    BY <1>1 DEF SavedBlock
  <2> QED BY <2>1, <2>2, <2>3, <2>4, <2>6, <2>7
<1>3. pass'.at = "trackers"
  BY <1>1, BeginIs
<1> QED BY <1>1, <1>2, <1>3 DEF RepeatsOK, Preparing, InWindow

\* A later pass goes on behind the saved block.
LEMMA ManualRepeats ==
  ASSUME BookInv, RepeatsOK, RunManualSync, UNCHANGED <<height, log, roles, hardhat>>
  PROVE  RepeatsOK'
<1>1. pass.at = "idle" /\ Begin(SavedBlock + 1, FALSE) /\ UNCHANGED <<lastSync, failures, applied, edges>>
  BY DEF RunManualSync, history
<1>2. pass'.at = "trackers" /\ pass'.from = SavedBlock + 1
  BY <1>1, BeginIs
<1>3. SavedBlock' = SavedBlock /\ SavedBlock \in Nat
  BY <1>1, Numbers DEF SavedBlock
<1>4. FreshFrom(SavedBlock + 1) => FreshFrom(pass.from)'
  BY <1>1, <1>2 DEF FreshFrom, Allowed
<1> QED BY <1>1, <1>2, <1>3, <1>4 DEF RepeatsOK, Preparing, InWindow

\* The tables of tokens and trackers are filled.
LEMMA FillRepeats ==
  ASSUME BookInv, RepeatsOK, FillTrackers \/ FillTokens, UNCHANGED <<height, log, roles, hardhat>>
  PROVE  RepeatsOK'
<1>1. PICK at, ids, next : /\ at \in {"trackers", "tokens"} /\ next \in {"tokens", "block"}
                           /\ FillTable(at, ids, next)
  BY DEF FillTrackers, FillTokens
<1>2. /\ pass.at = at /\ pass' = [pass EXCEPT !.at = next] /\ UNCHANGED <<lastSync, applied, edges>>
      /\ failures' = failures \/ failures' = failures + 1
  BY <1>1 DEF FillTable, history
<1>3. IsPass(pass)
  BY Numbers DEF PassOK
<1>4. pass'.at = next /\ pass'.from = pass.from
  BY ONLY <1>2, <1>3 DEF IsPass
<1>5. Preparing /\ Preparing' /\ ~InWindow' /\ pass'.at \notin {"down", "idle"}
  BY <1>1, <1>2, <1>4 DEF Preparing, InWindow
<1>6. SavedBlock' = SavedBlock /\ (FreshFrom(pass.from) => FreshFrom(pass.from)')
  BY <1>2, <1>4 DEF SavedBlock, FreshFrom, Allowed
<1>7. CASE failures' = failures
  BY <1>2, <1>4, <1>5, <1>6, <1>7 DEF RepeatsOK
<1> QED BY <1>2, <1>7, FailedRepeats

\* The first window of a pass, or none.
LEMMA ReadRepeats ==
  ASSUME BookInv, RepeatsOK, ReadCurrentBlock, UNCHANGED <<height, log, roles, hardhat>>
  PROVE  RepeatsOK'
<1>1. /\ pass.at = "block" /\ UNCHANGED <<lastSync, applied, edges, failures>>
      /\ pass' = IF height < pass.from THEN Idle ELSE Window(pass.from, height)
  BY DEF ReadCurrentBlock, history
<1>2. Preparing /\ Running /\ SavedBlock' = SavedBlock /\ SavedBlock \in Nat /\ pass.from \in Nat
  BY <1>1, Numbers DEF Preparing, Running, SavedBlock
<1>3. CASE height < pass.from
  <2>1. pass'.at = "idle"
    BY <1>1, <1>3, IdleIs
  <2>2. ASSUME failures = 0 PROVE FreshFrom(SavedBlock + 1)'
    <3>0. FreshFrom(pass.from) /\ pass.from <= SavedBlock + 1
      BY <1>2, <2>2 DEF RepeatsOK
    <3>1. \A d \in edges : d \in Nat /\ d < SavedBlock + 1
      BY <1>2, <2>2, <3>0 DEF FreshFrom, RepeatsOK
    <3>2. \A i \in DOMAIN log : log[i].block \in Nat /\ (log[i].block >= SavedBlock + 1 => log[i].block >= pass.from)
      BY <1>2, <3>0, Numbers
    <3> QED BY <1>1, <1>2, <3>0, <3>1, <3>2 DEF FreshFrom, Allowed
  <2> QED BY <1>1, <1>2, <2>1, <2>2 DEF RepeatsOK, Preparing, InWindow
<1>4. CASE ~(height < pass.from)
  <2>0. height \in Nat /\ IsPass(pass)
    BY Numbers DEF LogOK, PassOK
  <2>1. PICK e : e = WindowEnd(pass.from, height)
    OBVIOUS
  <2>2. pass' = [pass EXCEPT !.at = "net", !.from = pass.from, !.to = e, !.current = height, !.next = 1]
    BY <1>1, <1>4, <2>1 DEF Window
  <2>3. pass'.at = "net" /\ pass'.from = pass.from /\ pass'.to = e
    BY ONLY <2>0, <2>2 DEF IsPass
  <2>4. e \in Nat /\ pass.from <= e
    BY <1>2, <1>4, <2>0, <2>1, Constants DEF WindowEnd
  <2>5. ASSUME failures = 0 PROVE WindowCounts'
    <3>1. FreshFrom(pass.from)
      BY <1>2, <2>5 DEF RepeatsOK
    <3>2. \A d \in edges : d \in Nat /\ d <= pass.from
      BY <1>2, <2>5, <3>1 DEF FreshFrom, RepeatsOK
    <3>3. ASSUME NEW i \in DOMAIN log
          PROVE  /\ log[i].block \in Nat /\ applied[i] <= Allowed(i)
                 /\ log[i].block > e => applied[i] = 0
                 /\ log[i].block \in pass.from .. e => applied[i] = 0
      BY <1>2, <2>4, <3>1, Numbers DEF FreshFrom
    <3>4. \A i \in DOMAIN log : /\ Before(i)' \in {0, 1} /\ (IF Past(i)' THEN 1 ELSE 0) \in {0, 1}
                                 /\ Allowed(i)' = Allowed(i)
      BY <1>1 DEF Before, Allowed
    <3>5. ASSUME NEW i \in DOMAIN log
          PROVE  /\ log[i].block < pass.from => applied[i] <= Allowed(i)'
                 /\ log[i].block > e => applied[i] = 0
                 /\ log[i].block \in pass.from .. e => applied[i] <= Before(i)' + (IF Past(i)' THEN 1 ELSE 0)
      BY <3>3, <3>4
    <3> QED BY <1>1, <2>3, <3>2, <3>5 DEF WindowCounts
  <2> QED BY <1>1, <1>2, <2>3, <2>5 DEF RepeatsOK, Preparing, InWindow
<1> QED BY <1>3, <1>4

\* The next event: in hand it is as before, done at once it was not seen before.
LEMMA TakeRepeats ==
  ASSUME BookInv, RepeatsOK, TakeEvent, UNCHANGED <<height, log, roles, hardhat>>
  PROVE  RepeatsOK'
<1>w. InWindow /\ ~Busy(Sync) /\ UNCHANGED <<edges, failures>> /\ LogOK /\ PassOK /\ CallOK /\ CountsOK
  BY Numbers DEF TakeEvent, InWindow, Busy
<1>1. PICK i, n : i = Min(Todo) /\ n = i + 1
  OBVIOUS
<1>2. i \in Todo /\ \A j \in Todo : i <= j
  <2>1. Todo \in SUBSET Nat /\ Todo # {}
    BY <1>w, Indices DEF Todo, TakeEvent
  <2> QED BY <1>1, <2>1, LeastEvent
<1>3. /\ i \in DOMAIN log /\ i \in Nat /\ i >= pass.next /\ log[i].block \in pass.from .. pass.to
      /\ OfTracker(log[i]) = (pass.at = "tracker") /\ pass.at \in {"net", "tracker"} /\ pass.next \in Nat
  BY <1>2, <1>w, Indices DEF Todo, TakeEvent, PassOK
<1>4. PICK f : pass' = [pass EXCEPT !.next = n, !.found = f]
  <2>1. PICK f : f = IF log[i].kind = "role" THEN pass.found \cup {log[i].to} ELSE pass.found
    OBVIOUS
  <2> QED BY <1>1, <2>1 DEF TakeEvent
<1>5. pass'.at = pass.at /\ pass'.from = pass.from /\ pass'.to = pass.to /\ pass'.next = n
  BY ONLY <1>4, <1>w DEF PassOK, IsPass
<1>6. \/ UNCHANGED applied /\ Start(Sync, i)
      \/ Handled(i) /\ UNCHANGED call
  BY <1>1 DEF TakeEvent
<1>7. ~Seen(i) /\ Seen(i)' /\ \A j \in DOMAIN log : Seen(j) => Seen(j)' /\ j # i
  BY <1>1, <1>3, <1>5, <1>w, Indices DEF Seen, OfTracker
<1>8. InWindow'
  BY <1>5, <1>w DEF InWindow
<1>9. CASE UNCHANGED applied /\ Start(Sync, i)
  <2>1. call'[Sync].event = i
    BY <1>9, <1>w, Constants DEF Start, CallOK
  <2>2. \A j \in DOMAIN log : Past(j) => Past(j)'
    BY <1>7, <2>1 DEF Past
  <2> QED BY <1>5, <1>8, <1>9, <1>w, <2>2, WindowGoesOn
<1>10. CASE Handled(i) /\ UNCHANGED call
  <2>1. \A j \in DOMAIN log : applied'[j] = IF j = i THEN applied[j] + 1 ELSE applied[j]
    BY <1>10, <1>w, Indices DEF Handled, CountsOK
  <2>2. ~Busy(Sync)'
    BY <1>10, <1>w DEF Busy
  <2>3. ~Past(i) /\ Past(i)' /\ \A j \in DOMAIN log : Past(j) => Past(j)'
    BY <1>7, <2>2 DEF Past
  <2> QED BY <1>3, <1>5, <1>8, <1>w, <2>1, <2>3, WindowGoesOn
<1> QED BY <1>6, <1>9, <1>10

\* A call of the handler: the event stays in hand, or it is done with.
LEMMA HandlerRepeats ==
  ASSUME BookInv, RepeatsOK, HandleTransfer, UNCHANGED <<height, log, roles, hardhat>>
  PROVE  RepeatsOK'
<1>w. /\ UNCHANGED <<edges, failures, pass>> /\ Busy(Sync)
      /\ CallOK /\ LogOK /\ PassOK /\ CountsOK /\ HandOK
  BY Numbers DEF HandleTransfer, TokenTransfer, TrackerTransfer, Busy, BookInv
<1>1. InWindow /\ InWindow'
  BY <1>w DEF CallOK, InWindow
<1>2. PICK e, w, i : e = InHand /\ w = call[Sync].wrote /\ i = call[Sync].event
  OBVIOUS
<1>3. BookCall(e, w)
  BY <1>2, HandlerBooks
<1>4. i \in DOMAIN log /\ Seen(i) /\ ~Past(i) /\ \A j \in DOMAIN log : (Seen(j)' <=> Seen(j)) /\ (Past(j) <=> Seen(j) /\ j # i)
  BY <1>w, <1>2 DEF CallOK, HandOK, Past, Seen, OfTracker
<1>5. (\E v : GoesOn(e, v)) \/ IsDone \/ IsDropped
  BY <1>3 DEF BookCall
<1>6. CASE \E v : GoesOn(e, v)
  <2>1. UNCHANGED applied /\ call'[Sync].event = i
    BY <1>2, <1>6 DEF GoesOn
  <2>2. \A j \in DOMAIN log : Past(j) => Past(j)'
    BY <1>4, <2>1 DEF Past
  <2> QED BY <1>1, <1>w, <2>1, <2>2, WindowGoesOn
<1>7. CASE IsDone \/ IsDropped
  <2>1. Handled(i) /\ call'[Sync] = NoCall
    BY <1>2, <1>7 DEF IsDone, IsDropped
  <2>2. \A j \in DOMAIN log : applied'[j] = IF j = i THEN applied[j] + 1 ELSE applied[j]
    BY <1>w, <2>1, Indices DEF Handled, CountsOK
  <2>3. \A j \in DOMAIN log : Past(j)' <=> Seen(j)
    BY <1>4, <2>1 DEF Past, Busy
  <2>4. log[i].block \in pass.from .. pass.to
    BY <1>4 DEF Seen
  <2> QED BY <1>1, <1>4, <1>w, <2>2, <2>3, <2>4, WindowGoesOn
<1> QED BY <1>5, <1>6, <1>7

\* From the events of one contract to those of the other, and on to the roles.
LEMMA RoundRepeats ==
  ASSUME BookInv, RepeatsOK, UNCHANGED <<height, log, roles, hardhat>>,
         EventsDone \/ (\E a \in Account : ReadRoles(a)) \/ EnsureWalletWithRoles
  PROVE  RepeatsOK'
<1>w. /\ InWindow /\ UNCHANGED <<edges, failures, applied, call>> /\ IsPass(pass) /\ LogOK
      /\ pass.next \in Nat /\ ~Busy(Sync)
  BY Numbers DEF EventsDone, ReadRoles, EnsureWalletWithRoles, InWindow, PassOK, history, Busy, CallOK
<1>1. pass'.at \in {"tracker", "roles"} /\ pass'.from = pass.from /\ pass'.to = pass.to
      /\ \A i \in DOMAIN log : Seen(i) => Seen(i)'
  <2>1. CASE EventsDone
    <3>1. PICK at \in {"tracker", "roles"} : /\ at = IF pass.at = "net" THEN "tracker" ELSE "roles"
                                             /\ pass' = [pass EXCEPT !.at = at, !.next = 1]
      BY <2>1 DEF EventsDone
    <3>2. pass'.at = at /\ pass'.from = pass.from /\ pass'.to = pass.to
      BY ONLY <3>1, <1>w DEF IsPass
    <3>3. \A i \in DOMAIN log : Seen(i) => Seen(i)'
      BY <2>1, <3>1, <3>2 DEF EventsDone, Seen, OfTracker
    <3> QED BY <3>1, <3>2, <3>3
  <2>2. CASE (\E a \in Account : ReadRoles(a)) \/ EnsureWalletWithRoles
    <3>1. PICK acc, rd, syn : pass' = [pass EXCEPT !.account = acc, !.read = rd, !.synced = syn]
      <4>1. CASE \E a \in Account : ReadRoles(a)
        <5>1. PICK a, r : pass' = [pass EXCEPT !.account = a, !.read = r]
          BY <4>1 DEF ReadRoles
        <5>2. pass' = [pass EXCEPT !.account = a, !.read = r, !.synced = pass.synced]
          BY ONLY <5>1, <1>w DEF IsPass
        <5> QED BY <5>2
      <4>2. CASE EnsureWalletWithRoles
        <5>1. PICK syn : syn = pass.synced \cup {pass.account}
          OBVIOUS
        <5>2. pass' = [pass EXCEPT !.account = None, !.read = {}, !.synced = syn]
          BY <4>2, <5>1 DEF EnsureWalletWithRoles
        <5> QED BY <5>2
      <4> QED BY <2>2, <4>1, <4>2
    <3>2. pass'.at = pass.at /\ pass'.from = pass.from /\ pass'.to = pass.to
      BY ONLY <3>1, <1>w DEF IsPass
    <3>3. pass.at = "roles"
      BY <2>2 DEF ReadRoles, EnsureWalletWithRoles
    <3> QED BY <3>2, <3>3 DEF Seen, OfTracker
  <2> QED BY <2>1, <2>2
<1>2. InWindow' /\ \A i \in DOMAIN log : Past(i) => Past(i)'
  BY <1>1, <1>w DEF InWindow, Past, Busy
<1> QED BY <1>1, <1>2, <1>w, WindowGoesOn

\* The end of a window is saved; the next begins at the block this one ended with.
LEMMA SaveRepeats ==
  ASSUME BookInv, RepeatsOK, SaveLastSync, UNCHANGED <<height, log, roles, hardhat>>
  PROVE  RepeatsOK'
<1>0. InWindow /\ lastSync' = pass.to /\ UNCHANGED <<applied, failures, call>>
  BY DEF SaveLastSync, InWindow
<1>w. /\ pass.from \in Nat /\ pass.to \in Nat /\ pass.current \in Nat /\ pass.from <= pass.to
      /\ pass.to <= pass.current /\ pass.to \in {pass.current, pass.from + Interval} /\ IsPass(pass)
  BY <1>0, Numbers DEF PassOK
<1>1. ASSUME failures = 0, NEW i \in DOMAIN log
      PROVE  /\ log[i].block \in Nat /\ applied[i] \in Nat
             /\ log[i].block < pass.from => applied[i] <= Allowed(i)
             /\ log[i].block > pass.to => applied[i] = 0
             /\ log[i].block \in pass.from .. pass.to =>
                  applied[i] <= (IF log[i].block = pass.from /\ pass.from \in edges THEN 2 ELSE 1)
  <2>1. WindowCounts
    BY <1>0, <1>1 DEF RepeatsOK
  <2>2. Before(i) \in {0, 1} /\ (IF Past(i) THEN 1 ELSE 0) \in {0, 1} /\ log[i].block \in Nat /\ applied[i] \in Nat
    BY Numbers DEF Before
  <2>3. Before(i) + (IF Past(i) THEN 1 ELSE 0) <= (IF log[i].block = pass.from /\ pass.from \in edges THEN 2 ELSE 1)
    BY <2>2 DEF Before
  <2>4. log[i].block \in pass.from .. pass.to => applied[i] <= Before(i) + (IF Past(i) THEN 1 ELSE 0)
    BY <2>1 DEF WindowCounts
  <2>5. log[i].block \in pass.from .. pass.to =>
          applied[i] <= (IF log[i].block = pass.from /\ pass.from \in edges THEN 2 ELSE 1)
    BY <2>2, <2>3, <2>4
  <2> QED BY <2>1, <2>2, <2>5 DEF WindowCounts
<1>2. failures = 0 => edges \subseteq Nat /\ \A d \in edges : d <= pass.from
  BY <1>0 DEF RepeatsOK, WindowCounts
<1>3. CASE pass.to = pass.current
  <2>1. pass'.at = "idle" /\ edges' = edges
    BY <1>3, IdleIs DEF SaveLastSync
  <2>2. PICK s \in Nat : s = SavedBlock' /\ s >= pass.to
    BY <1>0, <1>w, Constants DEF SavedBlock
  <2>3. ASSUME failures = 0 PROVE FreshFrom(SavedBlock + 1)'
    <3>1. PICK b \in Nat : b = s + 1
      OBVIOUS
    <3>6. pass.to \in Nat /\ s >= pass.to
      BY <1>w, <2>2
    <3>2. b > pass.to
      BY ONLY <3>1, <3>6, s \in Nat, b \in Nat
    <3>3. ASSUME NEW i \in DOMAIN log
          PROVE  applied[i] <= Allowed(i) /\ (log[i].block >= b => applied[i] = 0)
      <4>1. log[i].block < pass.from \/ log[i].block \in pass.from .. pass.to \/ log[i].block > pass.to
        BY <1>1, <1>w, <2>3
      <4>2. (log[i].block > pass.to => applied[i] <= Allowed(i)) /\ (log[i].block \in pass.from .. pass.to => applied[i] <= Allowed(i))
        BY <1>1, <2>3 DEF Allowed
      <4> QED BY <1>1, <1>w, <2>3, <3>2, <4>1, <4>2
    <3>4. \A i \in DOMAIN log : Allowed(i)' = Allowed(i)
      BY <2>1 DEF Allowed
    <3>5. \A d \in edges : d < b
      BY <1>2, <1>w, <2>3, <3>2
    <3> QED BY <1>0, <2>1, <2>2, <3>1, <3>3, <3>4, <3>5 DEF FreshFrom
  <2> QED BY <1>0, <1>2, <2>1, <2>3 DEF RepeatsOK, Preparing, InWindow
<1>4. CASE pass.to # pass.current
  <2>1. pass.to = pass.from + Interval /\ pass.from < pass.to
    BY <1>4, <1>w, Constants
  <2>2. PICK e : e = WindowEnd(pass.to, pass.current)
    OBVIOUS
  <2>3. /\ pass' = [pass EXCEPT !.at = "net", !.from = pass.to, !.to = e, !.current = pass.current, !.next = 1]
        /\ edges' = edges \cup {pass.to}
    BY <1>4, <2>1, <2>2 DEF SaveLastSync, Window
  <2>4. pass'.at = "net" /\ pass'.from = pass.to /\ pass'.to = e
    BY ONLY <2>3, <1>w DEF IsPass
  <2>5. e \in Nat /\ pass.to <= e
    BY <1>w, <2>2, Constants DEF WindowEnd
  <2>6. ASSUME failures = 0 PROVE WindowCounts'
    <3>1. \A d \in edges' : d <= pass.to
      BY <1>2, <1>w, <2>1, <2>3, <2>6
    <3>2. ASSUME NEW i \in DOMAIN log
          PROVE  /\ log[i].block < pass.to => applied[i] <= Allowed(i)'
                 /\ log[i].block > e => applied[i] = 0
                 /\ log[i].block \in pass.to .. e => applied[i] <= Before(i)' + (IF Past(i)' THEN 1 ELSE 0)
      <4>0. log[i].block \in Nat /\ applied[i] \in Nat /\ (IF Past(i)' THEN 1 ELSE 0) \in {0, 1} /\ Before(i)' \in {0, 1}
        BY <1>1, <2>6 DEF Before
      <4>1. log[i].block = pass.to => Before(i)' = 1 /\ applied[i] <= 1
        BY <1>1, <1>w, <2>1, <2>3, <2>4, <2>6 DEF Before
      <4>2. log[i].block > pass.to => applied[i] = 0
        BY <1>1, <2>6
      <4>3. Allowed(i)' = (IF log[i].block \in edges' THEN 2 ELSE 1) /\ edges \subseteq edges'
        BY <2>3 DEF Allowed
      <4>4. log[i].block < pass.to => applied[i] <= Allowed(i)'
        <5>1. CASE log[i].block < pass.from
          BY <1>1, <2>6, <4>0, <4>3, <5>1 DEF Allowed
        <5>2. CASE log[i].block >= pass.from /\ log[i].block < pass.to
          BY <1>1, <1>w, <2>6, <4>0, <4>3, <5>2
        <5> QED BY <1>w, <4>0, <5>1, <5>2
      <4> QED BY <1>w, <2>5, <4>0, <4>1, <4>2, <4>4
    <3> QED BY <1>0, <2>4, <3>1, <3>2 DEF WindowCounts
  <2> QED BY <1>0, <1>2, <1>w, <2>3, <2>4, <2>6 DEF RepeatsOK, Preparing, InWindow
<1> QED BY <1>3, <1>4

\* At the start nothing was handled.
LEMMA InitRepeats == ASSUME Init PROVE RepeatsOK
<1>1. pass.at = "down" /\ lastSync = None /\ failures = 0 /\ edges = {} /\ DOMAIN log = {}
  BY IdleIs DEF Init, ChainInit
<1> QED BY <1>1 DEF RepeatsOK, Preparing, InWindow

\* Every step keeps the counts.
LEMMA RepeatsKeep == ASSUME BookInv, RepeatsOK, [Next]_syncVars PROVE RepeatsOK'
<1>1. CASE ChainNext /\ UNCHANGED <<tables, walletRoles, history, lastSync, pass, call, failures, hardhat>>
  <2>1. LogOK /\ EventsOK
    BY DEF BookInv, SyncInv
  <2>2. Mined
    BY <1>1, <2>1, ChainGrows, ChainOrder DEF Mined
  <2> QED BY <2>2, MinedRepeats
<1>2. CASE (PassFails \/ Crash) /\ UNCHANGED <<chainVars, hardhat>>
  <2>1. failures' = failures + 1
    BY <1>2 DEF PassFails, Crash, ServerDies
  <2> QED BY <2>1, FailedRepeats
<1>3. CASE SyncStep /\ ~PassFails /\ UNCHANGED <<chainVars, hardhat>>
  <2>1. UNCHANGED <<height, log, roles, hardhat>>
    BY <1>3 DEF chainVars
  <2> QED BY <1>3, <2>1, StartupRepeats, ManualRepeats, FillRepeats, ReadRepeats, TakeRepeats,
             HandlerRepeats, RoundRepeats, SaveRepeats DEF SyncStep
<1>4. CASE UNCHANGED syncVars
  <2>1. UNCHANGED <<log, lastSync, pass, call, applied, edges, failures>>
    BY <1>4 DEF syncVars
  <2>2. SavedBlock' = SavedBlock /\ (Preparing' <=> Preparing) /\ (InWindow' <=> InWindow)
    BY <2>1 DEF SavedBlock, Preparing, InWindow
  <2>3. PICK b, d : b = SavedBlock + 1 /\ d = pass.from
    OBVIOUS
  <2>4. (FreshFrom(b)' <=> FreshFrom(b)) /\ (FreshFrom(d)' <=> FreshFrom(d)) /\ (WindowCounts' <=> WindowCounts)
    BY <2>1 DEF FreshFrom, WindowCounts, Allowed, Before, Past, Seen, Busy, OfTracker
  <2>5. (FreshFrom(SavedBlock + 1)' <=> FreshFrom(b)') /\ (FreshFrom(pass.from)' <=> FreshFrom(d)')
    BY <2>1, <2>2, <2>3 DEF FreshFrom
  <2> QED BY <2>1, <2>2, <2>3, <2>4, <2>5 DEF RepeatsOK
<1> QED BY <1>1, <1>2, <1>3, <1>4 DEF Next

\* The counts are what the property allows, wherever the pass stands.
LEMMA RepeatsAre == ASSUME BookInv, RepeatsOK PROVE RepeatsExplained
<1>1. SUFFICES ASSUME failures = 0, NEW i \in DOMAIN log PROVE applied[i] <= Allowed(i)
  BY DEF RepeatsExplained, Allowed
<1>2. pass.at \in {"down", "idle"} \/ Preparing \/ InWindow
  BY Numbers DEF PassOK
<1>3. Allowed(i) \in {1, 2} /\ log[i].block \in Nat /\ applied[i] \in Nat
  BY Numbers, <1>1 DEF Allowed
<1>4. CASE pass.at = "down"
  BY <1>1, <1>3, <1>4 DEF RepeatsOK
<1>5. CASE pass.at = "idle" \/ Preparing
  BY <1>1, <1>5 DEF RepeatsOK, FreshFrom
<1>6. CASE InWindow
  <2>1. WindowCounts
    BY <1>1, <1>6 DEF RepeatsOK
  <2>2. pass.from \in Nat /\ pass.to \in Nat
    BY <1>6, Numbers
  <2>3. Before(i) \in {0, 1} /\ (IF Past(i) THEN 1 ELSE 0) \in {0, 1} /\ (Before(i) = 1 => Allowed(i) = 2)
    BY DEF Before, Allowed
  <2>4. /\ log[i].block < pass.from => applied[i] <= Allowed(i)
        /\ log[i].block > pass.to => applied[i] = 0
        /\ log[i].block \in pass.from .. pass.to => applied[i] <= Before(i) + (IF Past(i) THEN 1 ELSE 0)
    BY <1>1, <2>1 DEF WindowCounts
  <2> QED BY <1>3, <2>2, <2>3, <2>4
<1> QED BY <1>2, <1>4, <1>5, <1>6

-----------------------------------------------------------------------------
(* The theorems about the tables. *)

\* The books are right in every state.
THEOREM BooksInvariant == Spec => [](BookInv /\ SupplyOK /\ MirrorOK /\ RepeatsOK)
<1>1. Init => BookInv /\ SupplyOK /\ MirrorOK /\ RepeatsOK
  BY InitBooks, InitSupply, InitMirror, InitRepeats
<1>2. (BookInv /\ SupplyOK /\ MirrorOK /\ RepeatsOK) /\ [Next]_syncVars
        => (BookInv /\ SupplyOK /\ MirrorOK /\ RepeatsOK)'
  BY NextBooks, SupplyKeeps, MirrorKeeps, RepeatsKeep
<1> QED BY <1>1, <1>2, PTL DEF Spec

\* SupplyMatches: the rows of a token agree with its totals unless a handler died on it.
THEOREM SupplyAlwaysMatches == Spec => []SupplyMatches
<1>1. BookInv /\ SupplyOK => SupplyMatches
  BY SupplyIs
<1> QED BY <1>1, BooksInvariant, PTL

\* MirrorExact: the balance table is the contract's balances after the events handled.
THEOREM MirrorAlwaysExact == Spec => []MirrorExact
<1>1. BookInv /\ MirrorOK => MirrorExact
  BY MirrorIs
<1> QED BY <1>1, BooksInvariant, PTL

\* RepeatsExplained: without a failure only the events where two windows meet are handled twice.
THEOREM RepeatsAlwaysExplained == Spec => []RepeatsExplained
<1>1. BookInv /\ RepeatsOK => RepeatsExplained
  BY RepeatsAre
<1> QED BY <1>1, BooksInvariant, PTL
=============================================================================
