----------------------------- MODULE EventListener -----------------------------
(***************************************************************************)
(* The synchronizer with the live subscriptions of event.listener.ts, as   *)
(* it runs on networks that deliver events over a web socket.  While no    *)
(* manual synchronization runs, new events of the token contract are       *)
(* delivered to handlers, which run beside each other; a delivery may be   *)
(* lost or arrive while a synchronization runs, and is then dropped.       *)
(* TransferSingle comes before TokenCreated in the log, so a transfer may  *)
(* find that its token is not in the database yet; it is then queued.      *)
(***************************************************************************)
EXTENDS Synchronizer

CONSTANT Drain  \* the one of Handler that runs process_token_queued_events

VARIABLES inbox,     \* events that the subscriptions may still deliver
          live,      \* handler -> the event it handles and what it does next
          queue,     \* token_event_queue: the queued events, in order
          drained,   \* the queued events a drain has still to handle
          roleJobs   \* the calls of syncWalletRoles that run, not awaited: account and roles read

callVars == <<call, applied, ignored, torn>>
liveVars == <<inbox, live, queue, drained, roleJobs>>
listenVars == <<syncVars, liveVars>>

Live == Handler \ {Drain}
Free == [event |-> 0, at |-> "free"]
Listening == pass.at = "idle" /\ ~hardhat
EventsRunning == \E h \in Live : live[h].at # "free"

ListenInit ==
  /\ Init /\ ~hardhat
  /\ inbox = {} /\ queue = <<>> /\ drained = <<>> /\ roleJobs = {}
  /\ live = [h \in Live |-> Free]

OfToken(i, t) == log[i].id = t
Become(h, at) == live' = [live EXCEPT ![h].at = at]
Release(h) == live' = [live EXCEPT ![h] = Free]
UnchangedSync == UNCHANGED <<chainVars, hardhat, pass, edges, failures>>

\* makeEventHandler: a free handler takes the event, unless the task runner is at work.
\* Handlers are started in the order in which the events of a kind arrive.
Deliver(h, i) ==
  /\ i \in inbox /\ \A j \in inbox : log[j].kind = log[i].kind => i <= j
  /\ live[h] = Free
  /\ inbox' = inbox \ {i}
  /\ live' = IF Running THEN live
             ELSE [live EXCEPT ![h] = [event |-> i, at |-> log[i].kind]]
  /\ UNCHANGED <<queue, drained, roleJobs, tables, walletRoles, lastSync, callVars>>
  /\ UnchangedSync

Lose(i) ==
  /\ i \in inbox /\ inbox' = inbox \ {i}
  /\ UNCHANGED <<live, queue, drained, roleJobs, tables, walletRoles, lastSync, callVars>>
  /\ UnchangedSync

\* The handler of TransferSingle selects the token, then handles the event or queues it.
LookUpToken(h) ==
  /\ live[h].at = "transfer"
  /\ IF log[live[h].event].id \in known
     THEN Become(h, "handle") /\ Start(h, live[h].event)
     ELSE Become(h, "enqueue") /\ UNCHANGED call
  /\ UNCHANGED <<inbox, queue, drained, roleJobs, tables, walletRoles, lastSync, applied, ignored, torn>>
  /\ UnchangedSync

\* A loop over the queue of a token still takes what is appended meanwhile.
Draining(t) == \/ call[Drain] # NoCall /\ OfToken(call[Drain].event, t)
               \/ \E k \in DOMAIN drained : OfToken(drained[k], t)
AddEventToQueue(h) ==
  /\ live[h].at = "enqueue"
  /\ IF Draining(log[live[h].event].id)
     THEN drained' = Append(drained, live[h].event) /\ UNCHANGED queue
     ELSE queue' = Append(queue, live[h].event) /\ UNCHANGED drained
  /\ Become(h, "save")
  /\ UNCHANGED <<inbox, roleJobs, tables, walletRoles, lastSync, callVars>>
  /\ UnchangedSync

HandleLive(h) ==
  /\ live[h].at = "handle"
  /\ \/ call[h] # NoCall /\ TokenTransfer(h) /\ UNCHANGED <<live, torn>>
     \/ call[h] = NoCall /\ Become(h, "save") /\ UNCHANGED <<tables, call, applied, ignored, torn>>
     \/ CallThrows(h) /\ Abandon(h) /\ Release(h) /\ UNCHANGED <<tables, applied, ignored>>
  /\ UNCHANGED <<inbox, queue, drained, roleJobs, known, walletRoles, lastSync>>
  /\ UnchangedSync

\* The handler of TokenCreated selects the token, inserts it if it is missing, and starts to
\* process its queue without waiting for it.
SelectToken(h) ==
  /\ live[h].at = "created"
  /\ Become(h, IF log[live[h].event].id \in known THEN "drain" ELSE "insertToken")
  /\ UNCHANGED <<inbox, queue, drained, roleJobs, tables, walletRoles, lastSync, callVars>>
  /\ UnchangedSync

InsertToken(h) ==
  /\ live[h].at = "insertToken"
  /\ known' = known \cup {log[live[h].event].id}
  /\ Become(h, "drain")
  /\ UNCHANGED <<inbox, queue, drained, roleJobs, total, balance, status, walletRoles, lastSync, call,
                 applied, ignored, torn>>
  /\ UnchangedSync

ProcessTokenQueue(h) ==
  /\ live[h].at = "drain"
  /\ LET mine(i) == OfToken(i, log[live[h].event].id) IN
     /\ drained' = drained \o SelectSeq(queue, mine)
     /\ queue' = SelectSeq(queue, LAMBDA i : ~mine(i))
  /\ Become(h, "save")
  /\ UNCHANGED <<inbox, roleJobs, tables, walletRoles, lastSync, callVars>>
  /\ UnchangedSync

DrainStep ==
  /\ \/ call[Drain] = NoCall /\ drained # <<>> /\ Start(Drain, Head(drained))
        /\ drained' = Tail(drained) /\ UNCHANGED <<tables, applied, ignored, torn>>
     \/ call[Drain] # NoCall /\ TokenTransfer(Drain) /\ UNCHANGED <<drained, torn>>
  /\ UNCHANGED <<inbox, live, queue, roleJobs, known, walletRoles, lastSync>>
  /\ UnchangedSync

\* The handlers of role events start syncWalletRoles and do not wait for it.
RolesChanged(h) ==
  /\ live[h].at = "role"
  /\ LET a == log[live[h].event].to IN roleJobs' = roleJobs \cup {<<a, roles[a]>>}
  /\ Become(h, "save")
  /\ UNCHANGED <<inbox, queue, drained, tables, walletRoles, lastSync, callVars>>
  /\ UnchangedSync

WriteRoles(a, read) ==
  /\ <<a, read>> \in roleJobs /\ roleJobs' = roleJobs \ {<<a, read>>}
  /\ walletRoles' = [walletRoles EXCEPT ![a] = read]
  /\ UNCHANGED <<inbox, live, queue, drained, tables, lastSync, callVars>>
  /\ UnchangedSync

\* The saved block becomes the block of the event, whatever it was.
SaveEventBlock(h) ==
  /\ live[h].at = "save"
  /\ lastSync' = log[live[h].event].block
  /\ Release(h)
  /\ UNCHANGED <<inbox, queue, drained, roleJobs, tables, walletRoles, callVars>>
  /\ UnchangedSync

LiveStep ==
  \/ \E h \in Live : \/ \E i \in inbox : Deliver(h, i)
                     \/ LookUpToken(h) \/ AddEventToQueue(h) \/ HandleLive(h)
                     \/ SelectToken(h) \/ InsertToken(h) \/ ProcessTokenQueue(h)
                     \/ RolesChanged(h) \/ SaveEventBlock(h)
  \/ \E i \in inbox : Lose(i)
  \/ DrainStep
  \/ \E job \in roleJobs : WriteRoles(job[1], job[2])

\* What the network does; the subscriptions hear of it while they are attached.
Emit ==
  /\ ChainNext
  /\ inbox' = IF Listening THEN inbox \cup {i \in (Len(log) + 1) .. Len(log') : ~OfTracker(log'[i])}
              ELSE inbox
  /\ UNCHANGED <<tables, walletRoles, history, lastSync, pass, call, failures, hardhat,
                 live, queue, drained, roleJobs>>

\* A pass: the task runner waits for handlers and detaches the subscriptions.  Afterwards
\* process_queued_events is called; it takes no key of the queue for a number, and so does nothing.
TaskRunner ==
  /\ SyncStep \/ PassFails
  /\ EventsRunning => pass.at # "idle"
  /\ inbox' = IF pass'.at = "idle" THEN inbox ELSE {}
  /\ UNCHANGED <<chainVars, hardhat, live, queue, drained, roleJobs>>

\* A drain is not awaited: when it throws, nobody handles the rejection and the server ends.
LiveCrash ==
  /\ Crash \/ (CallThrows(Drain) /\ ServerDies)
  /\ inbox' = {} /\ queue' = <<>> /\ drained' = <<>> /\ roleJobs' = {}
  /\ live' = [h \in Live |-> Free]
  /\ UNCHANGED <<chainVars, hardhat>>

ListenNext == LiveStep \/ Emit \/ TaskRunner \/ LiveCrash
ListenSpec == ListenInit /\ [][ListenNext]_listenVars

-----------------------------------------------------------------------------
\* An event is queued because its token is not in the database; whoever puts the token there
\* processes the queue: the handler of TokenCreated, or the manual synchronization, which is to
\* "also run any queued event here" (event.listener.ts:111).  So when the token is in the database
\* and neither a handler nor a pass is at work, no event of it is in the queue.
QueueServed ==
  Listening /\ ~EventsRunning =>
    \A k \in DOMAIN queue : log[queue[k]].id \notin known
=============================================================================
