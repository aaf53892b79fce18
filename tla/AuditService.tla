---------------------------- MODULE AuditService ----------------------------
(***************************************************************************)
(* The recordAuditedEmissionsToken endpoint of the application server      *)
(* (fabric/typescript_app/src/service/emissionsChannel.ts): requests that  *)
(* take one audit through its three stages,                                *)
(*    GetValidEmissions   lock the records that have no token yet,         *)
(*    StoreMintedToken    keep the id of the token minted on Ethereum,     *)
(*    MintedTokenUpdate   write it into the records and unlock them,       *)
(* between startTransitionProcess and endTransitionProcess.  A request     *)
(* that fails is sent again by the user under the same txID and resumes at *)
(* the stage the datalock chaincode has stored.                            *)
(*                                                                         *)
(* Requests run concurrently, on one server or several.  Each await is a   *)
(* step.  A call may fail with no effect, or take effect and still report  *)
(* an error (a timeout, a receipt that does not decode), and a server may  *)
(* crash between two steps; these are the faults, MaxFaults in all.        *)
(*                                                                         *)
(* Ethereum is external: minted lists the tokens the contract issued, in   *)
(* the order of their ids, with the uuids in their manifest.               *)
(***************************************************************************)
EXTENDS DataLock, Naturals, Sequences, FiniteSets

CONSTANTS
  Worker,    \* requests the servers can handle at a time
  Faults,    \* the kinds of fault that occur
  MaxFaults  \* bound: how many faults occur

VARIABLES
  pc,      \* Worker -> the next call of its request, or how it was answered
  job,     \* Worker -> the local variables of its request
  minted,  \* the tokens issued so far
  faults   \* how many faults have occurred

serviceVars == <<pc, job, minted, faults>>
allVars == <<vars, serviceVars>>

FaultKind == {"startLost", "readFails", "stageFails", "stageLost",
              "issueFails", "issueLost", "endFails", "crash"}

Stages == {"GetValidEmissions", "StoreMintedToken", "MintedTokenUpdate"}

ASSUME FaultsAssumption == Faults \subseteq FaultKind /\ MaxFaults \in Nat
ASSUME StagesAssumption == Stages \subseteq Stage
\* Token ids are the numbers the contract counts.  A finite Token is a bound; with an id
\* for each audit and each fault no mint has to wait (TokensAccountedFor).
ASSUME TokenAssumption == Token \subseteq Nat \ {0}

Resting == {"idle", "answeredOk", "answeredError"}
Working == {"lock", "read", "mint", "store", "update", "end"}

Job == [tx : TxID, records : Batch, valid : (SUBSET Record) \cup {None},
        token : Token \cup {None}, failed : BOOLEAN]

ServiceTypeOK ==
  /\ TypeOK
  /\ pc \in [Worker -> Resting \cup Working \cup {"start"}]
  /\ job \in [Worker -> Job \cup {None}]
  /\ minted \in Seq([tx : TxID, records : SUBSET Record])
  /\ faults \in 0 .. MaxFaults

ServiceInit ==
  /\ Init
  /\ pc = [w \in Worker |-> "idle"]
  /\ job = [w \in Worker |-> None]
  /\ minted = <<>>
  /\ faults = 0

-----------------------------------------------------------------------------
Goto(w, label) == pc' = [pc EXCEPT ![w] = label]

\* A stage throws: the error is kept and endTransitionProcess follows.
Fail(w) ==
  /\ Goto(w, "end")
  /\ job' = [job EXCEPT ![w].failed = TRUE]

Answer(w, label) ==
  /\ Goto(w, label)
  /\ job' = [job EXCEPT ![w] = None]

Fault(kind) ==
  /\ kind \in Faults
  /\ faults < MaxFaults
  /\ faults' = faults + 1

\* A user sends a request: the id of the audit and the records to audit.
Submit(w, t, records) ==
  /\ pc[w] \in Resting
  /\ Goto(w, "start")
  /\ job' = [job EXCEPT ![w] = [tx |-> t, records |-> records, valid |-> None,
                                token |-> None, failed |-> FALSE]]
  /\ UNCHANGED <<vars, minted, faults>>

\* Where a request takes up an audit at the given stage.
EntryPoint(stage) ==
  CASE stage = "" -> "lock"
    [] stage = "GetValidEmissions" -> "read"
    [] stage = "StoreMintedToken" -> "update"
    [] stage = "MintedTokenUpdate" -> "end"

\* The request goes on with the transaction startTransitionProcess returned, and takes
\* what the earlier stages left from there.
Resumed(j, t) ==
  [j EXCEPT !.valid = IF t.data["GetValidEmissions"] = None THEN None
                      ELSE t.data["GetValidEmissions"].output,
            !.token = IF t.data["StoreMintedToken"] = None THEN None
                      ELSE t.data["StoreMintedToken"].storage]

Start(w) ==
  /\ pc[w] = "start"
  /\ LET t == job[w].tx IN
       \/ /\ StartTransitionProcess(t)
          /\ Goto(w, EntryPoint(Started(t).stage))
          /\ job' = [job EXCEPT ![w] = Resumed(job[w], Started(t))]
          /\ UNCHANGED faults
       \/ ~CanStart(t) /\ Answer(w, "answeredError") /\ UNCHANGED <<vars, faults>>
       \/ StartTransitionProcess(t) /\ Fault("startLost") /\ Answer(w, "answeredError")
  /\ UNCHANGED minted

-----------------------------------------------------------------------------
\* One stageUpdate of the request: it commits and the request goes on at label, it is
\* refused, it is lost, or it commits and the reply is lost.
CallStageUpdate(w, in, label, nextJob) ==
  /\ \/ /\ StageUpdate(in) /\ UNCHANGED faults
        /\ Goto(w, label) /\ job' = [job EXCEPT ![w] = nextJob]
     \/ ~StageUpdateSucceeds(in) /\ Fail(w) /\ UNCHANGED <<vars, faults>>
     \/ StageUpdateSucceeds(in) /\ Fault("stageFails") /\ Fail(w) /\ UNCHANGED vars
     \/ StageUpdate(in) /\ Fault("stageLost") /\ Fail(w)
  /\ UNCHANGED minted

LockInput(j) ==
  [tx_id |-> j.tx, name |-> "GetValidEmissions", storage |-> None,
   data_locks |-> [keys |-> j.records, uuids |-> j.records], data_free |-> None,
   is_last |-> FALSE]

LockRecords(w) ==
  /\ pc[w] = "lock"
  /\ CallStageUpdate(w, LockInput(job[w]), "mint",
                     [job[w] EXCEPT !.valid = GetValidEmissions(job[w].records)])

\* A request that resumes fetches the locked records again.
ReadRecords(w) ==
  /\ pc[w] = "read"
  /\ \/ Goto(w, "mint") /\ UNCHANGED <<job, faults>>
     \/ Fault("readFails") /\ Fail(w)
  /\ UNCHANGED <<vars, minted>>

NewToken == Len(minted) + 1

MintToken(w) ==
  /\ pc[w] = "mint"
  /\ Len(minted) + 1 \in Token   \* the bound
  /\ LET issued == Append(minted, [tx |-> job[w].tx, records |-> job[w].valid]) IN
       \/ /\ minted' = issued /\ UNCHANGED faults
          /\ Goto(w, "store") /\ job' = [job EXCEPT ![w].token = NewToken]
       \/ Fault("issueFails") /\ Fail(w) /\ UNCHANGED minted
       \/ minted' = issued /\ Fault("issueLost") /\ Fail(w)
  /\ UNCHANGED vars

\* Mutation: is_last is set one stage too early.
StoreInputIsLast(j) ==
  [tx_id |-> j.tx, name |-> "StoreMintedToken", storage |-> j.token,
   data_locks |-> None, data_free |-> None, is_last |-> TRUE]

StoreInput(j) ==
  [tx_id |-> j.tx, name |-> "StoreMintedToken", storage |-> j.token,
   data_locks |-> None, data_free |-> None, is_last |-> FALSE]

StoreToken(w) ==
  /\ pc[w] = "store"
  /\ CallStageUpdate(w, StoreInput(job[w]), "update", job[w])

\* Mutation: is_last is left out.
UpdateInputNotLast(j) ==
  [tx_id |-> j.tx, name |-> "MintedTokenUpdate", storage |-> None, data_locks |-> None,
   data_free |-> [keys |-> j.valid, uuids |-> j.valid, token |-> j.token],
   is_last |-> FALSE]

UpdateInput(j) ==
  [tx_id |-> j.tx, name |-> "MintedTokenUpdate", storage |-> None, data_locks |-> None,
   data_free |-> [keys |-> j.valid, uuids |-> j.valid, token |-> j.token],
   is_last |-> TRUE]

UpdateRecords(w) ==
  /\ pc[w] = "update"
  /\ CallStageUpdate(w, UpdateInput(job[w]), "end", job[w])

\* The service tests err !== null, and err is undefined when no stage failed.
Response(failed) == "answeredError"

\* Mutation: a failed stage returns without endTransitionProcess.
EndUnlessFailed(w) ==
  /\ pc[w] = "end"
  /\ IF job[w].failed THEN UNCHANGED vars ELSE EndTransitionProcess(job[w].tx)
  /\ Answer(w, Response(job[w].failed))
  /\ UNCHANGED <<minted, faults>>

End(w) ==
  /\ pc[w] = "end"
  /\ LET t == job[w].tx IN
       \/ /\ IF CanEnd(t) THEN EndTransitionProcess(t) ELSE UNCHANGED vars
          /\ Answer(w, Response(job[w].failed))
          /\ UNCHANGED faults
       \/ Fault("endFails") /\ Answer(w, "answeredError") /\ UNCHANGED vars
  /\ UNCHANGED minted

Crash(w) ==
  /\ pc[w] \notin Resting
  /\ Fault("crash")
  /\ Answer(w, "idle")
  /\ UNCHANGED <<vars, minted>>

\* Other requests record emissions meanwhile.
NewRecord(r) == RecordEmissions(r) /\ UNCHANGED <<dlVars, serviceVars>>

Step(w) ==
  Start(w) \/ LockRecords(w) \/ ReadRecords(w) \/ MintToken(w) \/ StoreToken(w)
    \/ UpdateRecords(w) \/ End(w)

ServiceNext ==
  \/ \E w \in Worker, t \in TxID, records \in Batch : Submit(w, t, records)
  \/ \E w \in Worker : Step(w)
  \/ \E w \in Worker : Crash(w)
  \/ \E r \in Record : NewRecord(r)

ServiceSpec == ServiceInit /\ [][ServiceNext]_allVars

\* Every call ends, so a request that is being handled takes its next step; and users
\* send an unfinished audit again for as long as it takes.
Fairness ==
  /\ \A w \in Worker : WF_allVars(Step(w))
  /\ \A t \in TxID : SF_allVars(\E w \in Worker, records \in Batch : Submit(w, t, records))

FairServiceSpec == ServiceSpec /\ Fairness

-----------------------------------------------------------------------------
Valid(t) ==
  IF tx[t] = None \/ tx[t].data["GetValidEmissions"] = None THEN {}
  ELSE tx[t].data["GetValidEmissions"].output

StoredToken(t) ==
  IF tx[t] = None \/ tx[t].data["StoreMintedToken"] = None THEN None
  ELSE tx[t].data["StoreMintedToken"].storage

\* The lock table and the stored stages tell the same story: an audit holds the locks of
\* exactly the records it found valid until it finishes, and none afterwards - after any
\* crash, lost reply or retry (emissionsChannel.ts:187-276).
LocksMatchStages ==
  \A r \in Record, t \in TxID :
    lock[r] = t <=> r \in Valid(t) /\ ~InState(t, "FINISHED")

\* While a record is locked nobody writes its token, so what the audit found stays true
\* across all of its awaits.
LockedIsUnaudited == \A r \in Record : lock[r] # None => tokenId[r] = Null

\* Between start and end a transaction belongs to one request: PROCESSING is a mutex, and
\* what the request copied from the transaction when it started is still what is stored.
OneRequestPerAudit ==
  \A w \in Worker : pc[w] \in Working =>
    /\ \A v \in Worker \ {w} : pc[v] \in Working => job[v].tx # job[w].tx
    /\ InState(job[w].tx, "PROCESSING") \/ (pc[w] = "end" /\ InState(job[w].tx, "FINISHED"))
    /\ pc[w] \in {"read", "mint", "store", "update"} => job[w].valid = Valid(job[w].tx)
    /\ pc[w] = "update" => job[w].token = StoredToken(job[w].tx)

\* The trail from a record to Ethereum: a record carries the token of a finished audit
\* that locked it, the contract issued this token for this audit, and its manifest lists
\* the record.
AuditTrail ==
  \A r \in Record : tokenId[r] \in Token =>
    LET k == tokenId[r] IN
      /\ k <= Len(minted) /\ r \in minted[k].records
      /\ InState(minted[k].tx, "FINISHED") /\ StoredToken(minted[k].tx) = k

\* A finished audit is complete: all the records it locked, and there was one at least,
\* carry its token.
FinishedIsRecorded ==
  \A t \in TxID : InState(t, "FINISHED") =>
    Valid(t) # {} /\ \A r \in Valid(t) : tokenId[r] = StoredToken(t)

\* Two audits never mint for the same record, however their requests interleave and
\* fail: the lock outlives the request.
NoSharedMint ==
  \A i, j \in DOMAIN minted :
    minted[i].records \cap minted[j].records # {} => minted[i].tx = minted[j].tx

\* Every token issued is in the hand of the request that minted it or stored with its
\* audit, except for one per fault at the most: a stage that failed for any other
\* reason (a lock held by another audit, an id in use) costs no token.
TokensAccountedFor ==
  LET InHand(k) == \E w \in Worker : pc[w] = "store" /\ job[w].token = k
      Stored(k) == \E t \in TxID : StoredToken(t) = k
  IN Cardinality({k \in DOMAIN minted : ~InHand(k) /\ ~Stored(k)}) <= faults

\* An audit that has locked a record is finished eventually, and with it (LocksMatchStages)
\* its locks are released, as long as no server crashes, no reply of
\* startTransitionProcess is lost and endTransitionProcess does not fail: each of these
\* leaves the transaction PROCESSING for ever.
AuditsFinish == \A t \in TxID : Valid(t) # {} ~> InState(t, "FINISHED")

-----------------------------------------------------------------------------
\* "To mint a token on ethereum corresponding to a given emissions record data present on
\* HL Fabric, and then update the emissions record with the minted tokenId"
\* (datalock/README.md:20): one record, one token.
OneTokenPerRecord ==
  \A i, j \in DOMAIN minted : minted[i].records \cap minted[j].records # {} => i = j

\* The e2e test expects status 200 for an audit that went through.
SuccessIsReported ==
  [][\A w \in Worker :
       pc[w] = "end" /\ ~job[w].failed /\ tx[job[w].tx].state = "FINISHED"
         /\ job'[w] = None /\ UNCHANGED faults
       => pc'[w] = "answeredOk"]_allVars
=============================================================================
