------------------------------ MODULE Synchronizer ------------------------------
(***************************************************************************)
(* The synchronizer of the API server (app/api-server): it copies tokens,  *)
(* balances, trackers and roles from the contracts into Postgres, by going *)
(* through the event log window by window and remembering the last block   *)
(* it is done with.  Each await of a pass is a step; calls of the database *)
(* and of the node fail, and the server may be killed, between any two.    *)
(* This module is the server on a network that it polls; EventListener     *)
(* adds the live subscriptions.                                            *)
(***************************************************************************)
EXTENDS ContractLog

CONSTANTS None,
          Sync,         \* the pass as a worker
          Handler,      \* the workers of EventListener; a polled network has none
          Interval,     \* EVENTS_BLOCK_INTERVAL
          MinBlockDiff, \* how far behind a polled network other than hardhat may be
          MaxFailures   \* bound on failed passes and crashes

\* A row of the balance table.
Row == [available : Int, retired : Int, transferred : Int]

ASSUME SyncAssumption ==
  /\ Sync \notin Handler
  /\ None \notin Nat /\ None \notin Account /\ None \notin Row
  /\ Interval \in Nat \ {0} /\ MinBlockDiff \in Nat /\ MaxFailures \in Nat

VARIABLES hardhat,      \* whether the network is the local one
          known,        \* the ids with a row in the token or tracker table
          total,        \* token -> totalIssued and totalRetired of its row
          balance,      \* token -> account -> the row of the balance table, or None
          status,       \* tracker -> account -> the row of tracker_balance, or None
          walletRoles,  \* account -> wallet.roles
          lastSync,     \* the saved block, or None
          pass,         \* the pass that is running
          call,         \* worker -> the event it handles and the database call it stands at
          applied,      \* history: how often the handler of an event has completed
          ignored,      \* history: mints not counted because the balance existed
          torn,         \* history: events whose handler died between two writes
          edges,        \* history: blocks at which a window other than a first began
          failures

tables == <<known, total, balance, status>>
history == <<applied, ignored, torn, edges>>
syncVars == <<height, log, roles, hardhat, known, total, balance, status, walletRoles, lastSync,
              pass, call, applied, ignored, torn, edges, failures>>

Worker == {Sync} \cup Handler
NewRow(n) == [available |-> n, retired |-> 0, transferred |-> 0]
NoTotals == [issued |-> 0, retired |-> 0]

Idle == [at |-> "idle", from |-> 0, to |-> 0, current |-> 0, next |-> 1, found |-> {},
         synced |-> {}, account |-> None, read |-> {}, boot |-> FALSE]
Down == [Idle EXCEPT !.at = "down"]
NoCall == [event |-> 0, at |-> "none", wrote |-> FALSE]

EmptyTables ==
  /\ known' = {}
  /\ total' = [t \in TokenId |-> NoTotals]
  /\ balance' = [t \in TokenId |-> [a \in Account |-> None]]
  /\ status' = [t \in TrackerId |-> [a \in Account |-> None]]
  /\ walletRoles' = [a \in Account |-> {}]
  /\ applied' = [i \in 1 .. MaxEvents |-> 0]
  /\ ignored' = {} /\ torn' = {} /\ edges' = {}

Init ==
  /\ ChainInit
  /\ hardhat \in BOOLEAN
  /\ known = {}
  /\ total = [t \in TokenId |-> NoTotals]
  /\ balance = [t \in TokenId |-> [a \in Account |-> None]]
  /\ status = [t \in TrackerId |-> [a \in Account |-> None]]
  /\ walletRoles = [a \in Account |-> {}]
  /\ lastSync = None
  /\ pass = Down
  /\ call = [h \in Worker |-> NoCall]
  /\ applied = [i \in 1 .. MaxEvents |-> 0]
  /\ ignored = {} /\ torn = {} /\ edges = {}
  /\ failures = 0

-----------------------------------------------------------------------------
(* The handlers of TransferSingle, one action per database call.  `at' is the
   call that worker h is about to make: "start", "insert", "total", "credit", "add". *)

Goto(h, at, wrote) == call' = [call EXCEPT ![h].at = at, ![h].wrote = wrote]
Start(h, i) == call' = [call EXCEPT ![h] = [event |-> i, at |-> "start", wrote |-> FALSE]]
Handled(i) == applied' = [applied EXCEPT ![i] = @ + 1]
Completed(h) == call' = [call EXCEPT ![h] = NoCall] /\ Handled(call[h].event)

\* Mutation: the retired column is not updated along with the available one.
UpdatedOne(row, n, column) ==
  IF row = None THEN None ELSE [row EXCEPT !.available = @ - n]
\* UPDATE changes nothing when there is no row.
Updated(row, n, column) ==
  IF row = None THEN None
  ELSE [row EXCEPT !.available = @ - n, ![column] = @ + n]
Debit(t, a, n, column) == balance' = [balance EXCEPT ![t][a] = Updated(@, n, column)]
\* Mutation: the account's row is written anew.
CreditedAnew(row, n) == IF row = None THEN None ELSE NewRow(n)
Credited(row, n) == IF row = None THEN None ELSE [row EXCEPT !.available = @ + n]
Added(t, m, n) == IF t \in known THEN m + n ELSE m

\* Whether a row of the balance table can be inserted: its token is there, and it is not.
Insertable(t, a) == t \in known /\ balance[t][a] = None
Insert(t, a, n) == Insertable(t, a) /\ balance' = [balance EXCEPT ![t][a] = NewRow(n)]

MintStep(h, e) ==
  /\ IsMint(e)
  /\ \/ /\ call[h].at = "start" /\ balance[e.id][e.to] # None   \* selectBalance: already there
        /\ Completed(h) /\ ignored' = ignored \cup {call[h].event}
        /\ UNCHANGED <<balance, total>>
     \/ /\ call[h].at = "start" /\ balance[e.id][e.to] = None
        /\ Goto(h, "insert", FALSE)
        /\ UNCHANGED <<balance, total, applied, ignored>>
     \/ /\ call[h].at = "insert" /\ Insert(e.id, e.to, e.amount)
        /\ Goto(h, "total", TRUE)
        /\ UNCHANGED <<total, applied, ignored>>
     \/ /\ call[h].at = "total" /\ Completed(h)
        /\ total' = [total EXCEPT ![e.id].issued = Added(e.id, @, e.amount)]
        /\ UNCHANGED <<balance, ignored>>

RetireStep(h, e) ==
  /\ IsRetirement(e)
  /\ UNCHANGED ignored
  /\ \/ /\ call[h].at = "start"
        /\ Debit(e.id, e.from, e.amount, "retired")
        /\ Goto(h, "total", TRUE)
        /\ UNCHANGED <<total, applied>>
     \/ /\ call[h].at = "total" /\ Completed(h)
        /\ total' = [total EXCEPT ![e.id].retired = Added(e.id, @, e.amount)]
        /\ UNCHANGED balance

TransferStep(h, e) ==
  /\ ~IsMint(e) /\ ~IsRetirement(e)
  /\ UNCHANGED <<ignored, total>>
  /\ \/ /\ call[h].at = "start"
        /\ Debit(e.id, e.from, e.amount, "transferred")
        /\ Goto(h, "credit", TRUE)
        /\ UNCHANGED applied
     \/ /\ call[h].at = "credit"
        /\ Goto(h, IF balance[e.id][e.to] = None THEN "insert" ELSE "add", TRUE)
        /\ UNCHANGED <<balance, applied>>
     \/ call[h].at = "insert" /\ Insert(e.id, e.to, e.amount) /\ Completed(h)
     \/ /\ call[h].at = "add" /\ Completed(h)
        /\ balance' = [balance EXCEPT ![e.id][e.to] = Credited(@, e.amount)]

\* handleTransferEvent.
TokenTransfer(h) ==
  /\ call[h] # NoCall /\ ~OfTracker(log[call[h].event])
  /\ LET e == log[call[h].event] IN MintStep(h, e) \/ RetireStep(h, e) \/ TransferStep(h, e)
  /\ UNCHANGED status

\* handleTransferTrackerEvent, for trackers: a mint inserts a row.  A transfer starts
\* with updateStatus, whose SQL sets the column to a name that is no column: it throws.
TrackerTransfer(h) ==
  /\ call[h] # NoCall /\ OfTracker(log[call[h].event])
  /\ LET e == log[call[h].event] IN
     /\ IsMint(e) /\ Completed(h)
     /\ \/ status[e.id][e.to] # None /\ UNCHANGED status
        \/ /\ status[e.id][e.to] = None /\ e.id \in known
           /\ status' = [status EXCEPT ![e.id][e.to] = "available"]
  /\ UNCHANGED <<total, balance, ignored>>

\* The calls that throw however well node and database work: the row cannot be inserted
\* (no token, no tracker, or a row is there), or updateStatus.
CallThrows(h) ==
  /\ call[h] # NoCall
  /\ LET e == log[call[h].event] IN
     \/ ~OfTracker(e) /\ call[h].at = "insert" /\ ~Insertable(e.id, e.to)
     \/ OfTracker(e) /\ (IsMint(e) => status[e.id][e.to] = None /\ e.id \notin known)

\* What a worker leaves behind when it throws or dies.
Abandon(h) ==
  /\ call' = [call EXCEPT ![h] = NoCall]
  /\ torn' = IF call[h].wrote THEN torn \cup {call[h].event} ELSE torn

-----------------------------------------------------------------------------
(* A pass: startupSync or runManualSync, then runSync and syncEvents. *)

SavedBlock == IF lastSync \in {None, 0} THEN FirstBlock ELSE lastSync
\* A transferred tracker makes every pass fail (CallThrows); its passes are bounded.
TrackerMoved == \E i \in DOMAIN log : OfTracker(log[i]) /\ log[i].kind = "transfer" /\ ~IsMint(log[i])
MayRetry == failures <= MaxFailures \/ ~TrackerMoved
Begin(from, boot) == pass' = [Idle EXCEPT !.at = "trackers", !.from = from, !.boot = boot]

\* Without a saved block past the first, and always on hardhat, the tables are cleared.
StartupSync ==
  /\ pass.at = "down" /\ MayRetry
  /\ LET first == IF hardhat THEN 0 ELSE FirstBlock
         from == IF ~hardhat /\ SavedBlock # FirstBlock THEN SavedBlock + 1 ELSE first
     IN  /\ Begin(from, TRUE)
         /\ IF from = first THEN EmptyTables
            ELSE UNCHANGED <<tables, walletRoles, history>>
  /\ UNCHANGED <<lastSync, call, failures>>

\* Mutation: a pass begins with the saved block itself.
RunManualSyncAgain ==
  /\ pass.at = "idle" /\ MayRetry
  /\ height - (SavedBlock + 1) >= IF hardhat THEN 0 ELSE MinBlockDiff
  /\ Begin(SavedBlock, FALSE)
  /\ UNCHANGED <<tables, walletRoles, history, lastSync, call, failures>>

\* Mutation: the task runner waits for one block more.
RunManualSyncLate ==
  /\ pass.at = "idle" /\ MayRetry
  /\ height - (SavedBlock + 1) > IF hardhat THEN 0 ELSE MinBlockDiff
  /\ Begin(SavedBlock + 1, FALSE)
  /\ UNCHANGED <<tables, walletRoles, history, lastSync, call, failures>>

RunManualSync ==
  /\ pass.at = "idle" /\ MayRetry
  /\ height - (SavedBlock + 1) >= IF hardhat THEN 0 ELSE MinBlockDiff
  /\ Begin(SavedBlock + 1, FALSE)
  /\ UNCHANGED <<tables, walletRoles, history, lastSync, call, failures>>

\* The rows to insert: the ids are taken to be 1, 2, ... and the table to hold a prefix.
Missing(ids) ==
  {id \in Issued(ids) : Cardinality({j \in Issued(ids) : j <= id}) > Cardinality(known \cap ids)}
\* What may have been inserted when the loop is cut short.
Prefixes(ids) == {s \in SUBSET ids : \A i \in s, j \in ids : j < i => j \in s}

FillTable(at, ids, next) ==
  /\ pass.at = at
  /\ pass' = [pass EXCEPT !.at = next]
  /\ \/ known' = known \cup Missing(ids) /\ UNCHANGED failures
     \/ /\ failures < MaxFailures          \* the number of ids could not be read: taken as 0
        /\ failures' = failures + 1
        /\ UNCHANGED known
  /\ UNCHANGED <<total, balance, status, walletRoles, history, lastSync, call>>

FillTrackers == FillTable("trackers", TrackerId, "tokens")
FillTokens == FillTable("tokens", TokenId, "block")

WindowEnd(from, current) == IF from + Interval > current THEN current ELSE from + Interval
Window(from, current) ==
  [pass EXCEPT !.at = "net", !.from = from, !.to = WindowEnd(from, current),
               !.current = current, !.next = 1]

ReadCurrentBlock ==
  /\ pass.at = "block"
  /\ pass' = IF height < pass.from THEN Idle ELSE Window(pass.from, height)
  /\ UNCHANGED <<tables, walletRoles, history, lastSync, call, failures>>

\* The events of a window, those of the token contract before those of the tracker contract.
Todo ==
  {i \in DOMAIN log : /\ i >= pass.next
                      /\ log[i].block \in pass.from .. pass.to
                      /\ OfTracker(log[i]) = (pass.at = "tracker")}

TakeEvent ==
  /\ pass.at \in {"net", "tracker"} /\ call[Sync] = NoCall /\ Todo # {}
  /\ LET i == Min(Todo)  e == log[i] IN
     /\ pass' = [pass EXCEPT !.next = i + 1,
                             !.found = IF e.kind = "role" THEN @ \cup {e.to} ELSE @]
     /\ \/ e.kind = "transfer" /\ Start(Sync, i) /\ UNCHANGED <<known, applied>>
        \/ /\ e.kind # "transfer" /\ Handled(i) /\ UNCHANGED call
           /\ known' = IF OfTracker(e) THEN known \cup {e.id} ELSE known   \* insertTracker
  /\ UNCHANGED <<total, balance, status, walletRoles, lastSync, ignored, torn, edges, failures>>

HandleTransfer ==
  /\ TokenTransfer(Sync) \/ TrackerTransfer(Sync)
  /\ UNCHANGED <<known, walletRoles, lastSync, pass, torn, edges, failures>>

EventsDone ==
  /\ pass.at \in {"net", "tracker"} /\ call[Sync] = NoCall /\ Todo = {}
  /\ pass' = [pass EXCEPT !.at = IF @ = "net" THEN "tracker" ELSE "roles", !.next = 1]
  /\ UNCHANGED <<tables, walletRoles, history, lastSync, call, failures>>

\* syncWalletRoles, for an account named by an event and not seen in this pass.
ReadRoles(a) ==
  /\ pass.at = "roles" /\ pass.account = None
  /\ a \in pass.found \ pass.synced
  /\ pass' = [pass EXCEPT !.account = a, !.read = roles[a]]
  /\ UNCHANGED <<tables, walletRoles, history, lastSync, call, failures>>

\* Mutation: the roles of a wallet that has some are not written.
EnsureWallet ==
  /\ pass.at = "roles" /\ pass.account # None
  /\ walletRoles' = [walletRoles EXCEPT ![pass.account] = IF @ = {} THEN pass.read ELSE @]
  /\ pass' = [pass EXCEPT !.account = None, !.read = {}, !.synced = @ \cup {pass.account}]
  /\ UNCHANGED <<tables, history, lastSync, call, failures>>

EnsureWalletWithRoles ==
  /\ pass.at = "roles" /\ pass.account # None
  /\ walletRoles' = [walletRoles EXCEPT ![pass.account] = pass.read]
  /\ pass' = [pass EXCEPT !.account = None, !.read = {}, !.synced = @ \cup {pass.account}]
  /\ UNCHANGED <<tables, history, lastSync, call, failures>>

\* Mutation: the block of the chain is saved instead of the end of the window.
SaveCurrentBlock ==
  /\ pass.at = "roles" /\ pass.account = None /\ pass.found = pass.synced
  /\ lastSync' = pass.current
  /\ IF pass.to = pass.current
     THEN pass' = Idle /\ UNCHANGED edges
     ELSE /\ pass' = Window(pass.from + Interval, pass.current)
          /\ edges' = edges \cup {pass.from + Interval}
  /\ UNCHANGED <<tables, walletRoles, applied, ignored, torn, call, failures>>

\* saveLastSync; the next window starts at the block this one ended with.
SaveLastSync ==
  /\ pass.at = "roles" /\ pass.account = None /\ pass.found = pass.synced
  /\ lastSync' = pass.to
  /\ IF pass.to = pass.current
     THEN pass' = Idle /\ UNCHANGED edges
     ELSE /\ pass' = Window(pass.from + Interval, pass.current)
          /\ edges' = edges \cup {pass.from + Interval}
  /\ UNCHANGED <<tables, walletRoles, applied, ignored, torn, call, failures>>

Running == pass.at \notin {"idle", "down"}

\* A call of the pass fails: a manual pass gives up, a failed startup ends the server.
PassFails ==
  /\ Running
  /\ CallThrows(Sync) \/ failures < MaxFailures
  /\ \/ UNCHANGED known
     \/ pass.at = "trackers" /\ \E s \in Prefixes(Missing(TrackerId)) : known' = known \cup s
     \/ pass.at = "tokens" /\ \E s \in Prefixes(Missing(TokenId)) : known' = known \cup s
  /\ pass' = IF pass.boot THEN Down ELSE Idle
  /\ Abandon(Sync)
  /\ failures' = failures + 1
  /\ UNCHANGED <<total, balance, status, walletRoles, lastSync, applied, ignored, edges>>

ServerDies ==
  /\ pass' = Down
  /\ call' = [h \in Worker |-> NoCall]
  /\ torn' = torn \cup {call[h].event : h \in {w \in Worker : call[w].wrote}}
  /\ failures' = failures + 1
  /\ UNCHANGED <<tables, walletRoles, lastSync, applied, ignored, edges>>

Crash == pass.at # "down" /\ failures < MaxFailures /\ ServerDies

SyncStep ==
  \/ StartupSync \/ RunManualSync \/ FillTrackers \/ FillTokens \/ ReadCurrentBlock
  \/ TakeEvent \/ HandleTransfer \/ EventsDone
  \/ \E a \in Account : ReadRoles(a)
  \/ EnsureWalletWithRoles \/ SaveLastSync
  \/ CallThrows(Sync) /\ PassFails

Next ==
  \/ ChainNext /\ UNCHANGED <<tables, walletRoles, history, lastSync, pass, call, failures, hardhat>>
  \/ (SyncStep \/ PassFails \/ Crash) /\ UNCHANGED <<chainVars, hardhat>>

Spec == Init /\ [][Next]_syncVars
FairSpec == Spec /\ WF_syncVars(SyncStep /\ UNCHANGED <<chainVars, hardhat>>)

-----------------------------------------------------------------------------
\* The server is up and has been through its startup synchronization.
Serving == pass.at # "down" /\ ~pass.boot
Synced(i) == lastSync # None /\ log[i].block <= lastSync

\* The saved block is a promise: every event up to it has been handled, whatever passes
\* failed and wherever the server died (saveLastSync is the last call of a window).  While
\* a cleared database is filled again the saved block is still the old one.
NothingSkipped ==
  ~hardhat \/ Serving => \A i \in DOMAIN log : Synced(i) => applied[i] > 0

\* Without a failure an event is handled once, or twice when it lies in the block at which
\* one window ends and the next begins (fromBlock += EVENTS_BLOCK_INTERVAL).
RepeatsExplained ==
  failures = 0 =>
    \A i \in DOMAIN log : applied[i] <= IF log[i].block \in edges THEN 2 ELSE 1

\* The balance table is the contract's balances after the events handled so far, as long as
\* none was handled twice or died between two writes; but a second mint to an account
\* that has a balance is dropped (handleTransferEvent takes it for a conflict).
MirrorExact ==
  (call[Sync] = NoCall /\ torn = {} /\ \A i \in DOMAIN log : applied[i] <= 1) =>
    LET done == {i \in DOMAIN log : applied[i] = 1} \ ignored
        Out(t, a) == {i \in done : log[i].from = a /\ IsRetirement(log[i])}
    IN  \A t \in TokenId, a \in Account :
          /\ (IF balance[t][a] = None THEN 0 ELSE balance[t][a].available) = Net(done, t, a)
          /\ (IF balance[t][a] = None THEN 0 ELSE balance[t][a].retired)
               = -Net(Out(t, a), t, a)

\* The rows of a token agree with each other, even when events are handled again and again:
\* what accounts have or have retired is what was issued, and totalRetired is what they
\* have retired.  Only a handler that died between two writes breaks it, and for good.
SupplyMatches ==
  \A t \in TokenId :
    LET Rows == {a \in Account : balance[t][a] # None}
        Owned(a) == balance[t][a].available + balance[t][a].retired
        Retired(a) == balance[t][a].retired
        whole == \A i \in torn \cup {call[Sync].event} : i = 0 \/ log[i].id # t
    IN  whole => /\ SumFunction([a \in Rows |-> Owned(a)]) = total[t].issued
                 /\ SumFunction([a \in Rows |-> Retired(a)]) = total[t].retired

\* The roles of a wallet are the roles in the contract, unless an event after the saved
\* block is still to tell of a change: reading them late and once per pass is enough.
RolesFollow ==
  ~hardhat \/ Serving =>
    \A a \in Account :
      (\A i \in DOMAIN log : log[i].kind = "role" /\ log[i].to = a => Synced(i))
        => walletRoles[a] = roles[a]

\* Once the node and the database answer, the copy comes as close to the chain as the task
\* runner cares for; but a transferred tracker stops it for ever.
CaughtUp == pass.at = "idle" /\ height - SavedBlock <= IF hardhat THEN 0 ELSE MinBlockDiff
CatchesUp == []~TrackerMoved => <>[]CaughtUp
=============================================================================
