-------------------------- MODULE AuditServiceProofs --------------------------
(***************************************************************************)
(* The safety of the audit service for any number of servers, requests,    *)
(* audits and records, and any number of faults of any kind: crashes,      *)
(* lost replies, failed calls.                                             *)
(*                                                                         *)
(* The inductive invariant speaks of an audit by five functions of its     *)
(* transaction - StageOf, HasValid, Valid, StoredToken and whether it is   *)
(* FINISHED - so that a step which changes none of them (Quiet) preserves  *)
(* all that is said of audits, whatever else it does.  The lemmas about    *)
(* the chaincodes are those of FabricLedgerProofs.                         *)
(***************************************************************************)
EXTENDS AuditService, FabricLedgerProofs, FiniteSetTheorems

StageOf(t) == IF tx[t] = None THEN "" ELSE tx[t].stage

HasValid(t) == tx[t] # None /\ tx[t].data["GetValidEmissions"] # None

Finished(t) == InState(t, "FINISHED")

\* The stages are committed in their order, each with what the next one needs.
TxOK(t) ==
  /\ StageOf(t) \in Stages \cup {""}
  /\ StageOf(t) = "" <=> ~HasValid(t)
  /\ Valid(t) \in SUBSET Record
  /\ StageOf(t) \in {"StoreMintedToken", "MintedTokenUpdate"} =>
       /\ StoredToken(t) \in Token \cap DOMAIN minted
       /\ minted[StoredToken(t)].tx = t
  /\ Finished(t) <=> StageOf(t) = "MintedTokenUpdate"
  /\ Finished(t) => Valid(t) # {} /\ \A r \in Valid(t) : tokenId[r] = StoredToken(t)

\* No two audits found the same record valid: the first one's lock kept it from the
\* second, and after it its token.
ValidDisjoint == \A t, u \in TxID : t # u => Valid(t) \cap Valid(u) = {}

MintsOK ==
  \A i \in DOMAIN minted :
    HasValid(minted[i].tx) /\ minted[i].records = Valid(minted[i].tx)

TrailOK ==
  \A r \in Record : tokenId[r] \in Token =>
    \E t \in TxID : Finished(t) /\ r \in Valid(t) /\ tokenId[r] = StoredToken(t)

AuditsOK ==
  /\ \A t \in TxID : TxOK(t)
  /\ LocksMatchStages
  /\ LockedIsUnaudited
  /\ ValidDisjoint
  /\ MintsOK
  /\ TrailOK

\* What a request knows of its audit between start and end.
RequestOK(w) ==
  /\ pc[w] \notin Resting => job[w] \in Job
  /\ pc[w] \in Working =>
       LET t == job[w].tx IN
       /\ InState(t, "PROCESSING") \/ (pc[w] = "end" /\ Finished(t))
       /\ pc[w] = "lock" => StageOf(t) = ""
       /\ pc[w] \in {"read", "mint", "store"} =>
            StageOf(t) = "GetValidEmissions" /\ job[w].valid = Valid(t)
       /\ pc[w] = "store" =>
            job[w].token \in Token \cap DOMAIN minted /\ minted[job[w].token].tx = t
       /\ pc[w] = "update" =>
            /\ StageOf(t) = "StoreMintedToken"
            /\ job[w].valid = Valid(t) /\ job[w].token = StoredToken(t)

Exclusive ==
  \A v, w \in Worker :
    v # w /\ pc[v] \in Working /\ pc[w] \in Working => job[v].tx # job[w].tx

AuditInv == ServiceTypeOK /\ AuditsOK /\ (\A w \in Worker : RequestOK(w)) /\ Exclusive

-----------------------------------------------------------------------------
\* The names of the stages are stages, and none is the empty name.
LEMMA StageNames ==
  /\ {"GetValidEmissions", "StoreMintedToken", "MintedTokenUpdate"} \subseteq Stage
  BY StagesAssumption DEF Stages

\* The step leaves what is said of audit u alone.
Quiet(u) ==
  /\ StageOf(u)' = StageOf(u)
  /\ HasValid(u)' <=> HasValid(u)
  /\ Valid(u)' = Valid(u)
  /\ StoredToken(u)' = StoredToken(u)
  /\ Finished(u)' <=> Finished(u)

\* A transaction that is not written is quiet.
LEMMA SameTxIsQuiet ==
  ASSUME NEW u, tx'[u] = tx[u]
  PROVE  Quiet(u) /\ \A s : InState(u, s)' <=> InState(u, s)
  BY DEF Quiet, StageOf, HasValid, Valid, StoredToken, Finished, InState

\* Starting and ending are quiet, also for the audit concerned.
LEMMA StartIsQuiet ==
  ASSUME TypeOK, NEW t \in TxID, StartTransitionProcess(t)
  PROVE  /\ \A u \in TxID : Quiet(u)
         /\ InState(t, "PROCESSING")' /\ StageOf(t) = Started(t).stage
         /\ tx'[t] = Started(t)
         /\ \A u \in TxID : u # t => tx'[u] = tx[u]
<1>1. tx'[t] = Started(t) /\ \A u \in TxID : u # t => tx'[u] = tx[u]
  BY DEF TypeOK, StartTransitionProcess
<1>2. Started(t) \in Transaction /\ Started(t) # None /\ Started(t).state = "PROCESSING"
  <2>1. Started(t) \in Transaction /\ Started(t).state = "PROCESSING"
    BY DEF TypeOK, Started, NewTransaction, Transaction, TxState
  <2>2. QED
    BY <2>1, NoneAssumption
<1>3. /\ Started(t).stage = StageOf(t)
      /\ Started(t).data["GetValidEmissions"] # None <=> HasValid(t)
      /\ tx[t] # None => Started(t).data = tx[t].data
      /\ tx[t] = None => Started(t).data = [s \in Stage |-> None]
  BY StageNames DEF TypeOK, Started, NewTransaction, StageOf, HasValid, Transaction
<1>4. CanStart(t)
  BY DEF StartTransitionProcess
<1>5. Quiet(t)
  BY <1>1, <1>2, <1>3, <1>4, StageNames
     DEF Quiet, StageOf, HasValid, Valid, StoredToken, Finished, InState, CanStart
<1>6. QED
  BY <1>1, <1>2, <1>3, <1>5, SameTxIsQuiet DEF InState

\* Ending changes the state to NOT-PROCESSING at the most.
LEMMA EndIsQuiet ==
  ASSUME TypeOK, NEW t \in TxID, EndTransitionProcess(t)
  PROVE  /\ \A u \in TxID : Quiet(u)
         /\ \A u \in TxID : u # t => tx'[u] = tx[u]
<1>1. tx'[t] = Ended(t) /\ \A u \in TxID : u # t => tx'[u] = tx[u]
  BY DEF TypeOK, EndTransitionProcess
<1>2. CanEnd(t) /\ tx[t] \in Transaction
  BY DEF TypeOK, EndTransitionProcess, CanEnd, InState
<1>3. CASE tx[t].state = "FINISHED"
  BY <1>1, <1>3, SameTxIsQuiet DEF Ended
<1>4. CASE tx[t].state # "FINISHED"
  <2>1. /\ Ended(t) \in Transaction
        /\ Ended(t).state = "NOT-PROCESSING"
        /\ Ended(t).stage = tx[t].stage /\ Ended(t).data = tx[t].data
    BY <1>2, <1>4 DEF Ended, Transaction, TxState
  <2>2. Quiet(t)
    BY <1>1, <1>2, <1>4, <2>1, NoneAssumption
       DEF Quiet, StageOf, HasValid, Valid, StoredToken, Finished, InState
  <2>3. QED
    BY <1>1, <2>2, SameTxIsQuiet
<1>5. QED
  BY <1>3, <1>4

-----------------------------------------------------------------------------
(* The stage updates of a request, by what they do to its audit. *)

Written(j, stage, state, data) ==
  tx' = [tx EXCEPT ![j.tx] = [state |-> state, stage |-> stage, data |-> data]]

\* GetValidEmissions: it locks the records that are valid, all of them free before.
LEMMA LockEffect ==
  ASSUME TypeOK, NEW j \in Job, StageUpdate(LockInput(j))
  PROVE  LET V == GetValidEmissions(j.records) IN
         /\ LockInput(j) \in CheckedStageUpdate
         /\ InState(j.tx, "PROCESSING")
         /\ Written(j, "GetValidEmissions", "PROCESSING",
                    [tx[j.tx].data EXCEPT !["GetValidEmissions"] =
                       [storage |-> None, output |-> V]])
         /\ lock' = [r \in Record |-> IF r \in V THEN j.tx ELSE lock[r]]
         /\ tokenId' = tokenId
         /\ V \subseteq Record
         /\ \A r \in V : lock[r] = None /\ tokenId[r] = Null
<1> DEFINE in == LockInput(j)
           call == [keys |-> j.records, uuids |-> j.records]
           V == GetValidEmissions(j.records)
<1>1. j.tx \in TxID /\ j.records \in SUBSET Record
  BY BatchAssumption DEF Job
<1>2. call \in LockCall /\ call # None
  <2>1. call \in LockCall
    BY <1>1 DEF LockCall
  <2>2. QED
    BY <2>1, NoneAssumption
<1>3. /\ in.tx_id = j.tx /\ in.name = "GetValidEmissions" /\ in.storage = None
      /\ in.data_locks = call /\ in.data_free = None /\ in.is_last = FALSE
  BY DEF LockInput
<1>4. in \in CheckedStageUpdate
  BY <1>1, <1>2, StageNames DEF LockInput, CheckedStageUpdate, StageUpdateInput
<1>5. Locked(in.data_locks) = V /\ Freed(in.data_free) = {}
  BY <1>2, <1>3 DEF Locked, Freed
<1>6. InState(j.tx, "PROCESSING")
  BY <1>3 DEF StageUpdate, StageUpdateSucceeds
<1>7. V \subseteq Record /\ \A r \in V : lock[r] = None /\ tokenId[r] = Null
  BY <1>1, <1>2, <1>3 DEF StageUpdate, StageUpdateSucceeds, LockSucceeds, GetValidEmissions
<1>8. Staged(in) = [state |-> "PROCESSING", stage |-> "GetValidEmissions",
                    data |-> [tx[j.tx].data EXCEPT !["GetValidEmissions"] =
                                [storage |-> None, output |-> V]]]
  BY <1>2, <1>3, <1>5, <1>6 DEF Staged, StageEntry, InState
<1>9. /\ tx' = [tx EXCEPT ![j.tx] = Staged(in)]
      /\ lock' = [r \in Record |-> IF r \in V THEN j.tx ELSE lock[r]]
      /\ tokenId' = tokenId
  BY <1>3, <1>5 DEF StageUpdate
<1>10. QED
  BY <1>4, <1>6, <1>7, <1>8, <1>9 DEF Written

\* StoreMintedToken: it writes the stage and nothing else.
LEMMA StoreEffect ==
  ASSUME TypeOK, NEW j \in Job, j.token \in Token, StageUpdate(StoreInput(j))
  PROVE  /\ StoreInput(j) \in CheckedStageUpdate
         /\ InState(j.tx, "PROCESSING")
         /\ Written(j, "StoreMintedToken", "PROCESSING",
                    [tx[j.tx].data EXCEPT !["StoreMintedToken"] =
                       [storage |-> j.token, output |-> None]])
         /\ lock' = lock /\ tokenId' = tokenId
<1> DEFINE in == StoreInput(j)
<1>1. j.tx \in TxID /\ j.token # None
  BY NoneAssumption DEF Job
<1>2. /\ in.tx_id = j.tx /\ in.name = "StoreMintedToken" /\ in.storage = j.token
      /\ in.data_locks = None /\ in.data_free = None /\ in.is_last = FALSE
  BY DEF StoreInput
<1>3. in \in CheckedStageUpdate
  BY <1>1, StageNames DEF StoreInput, CheckedStageUpdate, StageUpdateInput
<1>4. Locked(in.data_locks) = {} /\ Freed(in.data_free) = {}
  BY <1>2 DEF Locked, Freed
<1>5. InState(j.tx, "PROCESSING")
  BY <1>2 DEF StageUpdate, StageUpdateSucceeds
<1>6. Staged(in) = [state |-> "PROCESSING", stage |-> "StoreMintedToken",
                    data |-> [tx[j.tx].data EXCEPT !["StoreMintedToken"] =
                                [storage |-> j.token, output |-> None]]]
  BY <1>1, <1>2, <1>5 DEF Staged, StageEntry, InState
<1>7. /\ tx' = [tx EXCEPT ![j.tx] = Staged(in)]
      /\ lock' = [r \in Record |-> lock[r]]
      /\ tokenId' = tokenId
  BY <1>2, <1>4 DEF StageUpdate
<1>8. lock' = lock
  BY <1>7 DEF TypeOK
<1>9. QED
  BY <1>3, <1>5, <1>6, <1>7, <1>8 DEF Written

\* MintedTokenUpdate: it gives the records their token and frees their locks, all of them
\* the transaction's own before.
LEMMA UpdateEffect ==
  ASSUME TypeOK, NEW j \in Job, j.valid \in SUBSET Record, j.token \in Token,
         StageUpdate(UpdateInput(j))
  PROVE  /\ UpdateInput(j) \in CheckedStageUpdate
         /\ InState(j.tx, "PROCESSING")
         /\ Written(j, "MintedTokenUpdate", "FINISHED", tx[j.tx].data)
         /\ lock' = [r \in Record |-> IF r \in j.valid THEN None ELSE lock[r]]
         /\ tokenId' = WithToken(j.valid, j.token)
         /\ j.valid # {} /\ \A r \in j.valid : lock[r] = j.tx
<1> DEFINE in == UpdateInput(j)
           call == [keys |-> j.valid, uuids |-> j.valid, token |-> j.token]
<1>1. j.tx \in TxID
  BY DEF Job
<1>2. call \in FreeCall /\ call # None
  <2>1. call \in FreeCall
    BY DEF FreeCall
  <2>2. QED
    BY <2>1, NoneAssumption
<1>3. /\ in.tx_id = j.tx /\ in.name = "MintedTokenUpdate" /\ in.storage = None
      /\ in.data_locks = None /\ in.data_free = call /\ in.is_last = TRUE
  BY DEF UpdateInput
<1>4. in \in CheckedStageUpdate
  BY <1>1, <1>2, StageNames DEF UpdateInput, CheckedStageUpdate, StageUpdateInput
<1>5. Locked(in.data_locks) = {} /\ Freed(in.data_free) = j.valid
  BY <1>2, <1>3 DEF Locked, Freed
<1>6. InState(j.tx, "PROCESSING")
  BY <1>3 DEF StageUpdate, StageUpdateSucceeds
<1>7. j.valid # {} /\ \A r \in j.valid : lock[r] = j.tx
  BY <1>2, <1>3
     DEF StageUpdate, StageUpdateSucceeds, UnlockSucceeds, UpdateEmissionsMintedTokenSucceeds
<1>8. Staged(in) = [state |-> "FINISHED", stage |-> "MintedTokenUpdate", data |-> tx[j.tx].data]
  BY <1>3 DEF Staged
<1>9. /\ tx' = [tx EXCEPT ![j.tx] = Staged(in)]
      /\ lock' = [r \in Record |-> IF r \in j.valid THEN None ELSE lock[r]]
      /\ tokenId' = WithToken(j.valid, j.token)
  BY <1>2, <1>3, <1>5 DEF StageUpdate
<1>10. QED
  BY <1>4, <1>6, <1>7, <1>8, <1>9 DEF Written
-----------------------------------------------------------------------------
(* What a step does to the audits. *)

\* What a committed stage says of its audit; the other audits do not notice.
LEMMA WrittenSummary ==
  ASSUME TypeOK, NEW j \in Job, NEW stage \in Stage, NEW state \in TxState,
         NEW data \in [Stage -> StageData \cup {None}], Written(j, stage, state, data)
  PROVE  /\ StageOf(j.tx)' = stage
         /\ HasValid(j.tx)' <=> data["GetValidEmissions"] # None
         /\ Valid(j.tx)' = IF data["GetValidEmissions"] = None THEN {}
                           ELSE data["GetValidEmissions"].output
         /\ StoredToken(j.tx)' = IF data["StoreMintedToken"] = None THEN None
                                 ELSE data["StoreMintedToken"].storage
         /\ InState(j.tx, "PROCESSING")' <=> state = "PROCESSING"
         /\ Finished(j.tx)' <=> state = "FINISHED"
         /\ \A u \in TxID \ {j.tx} : Quiet(u) /\ tx'[u] = tx[u]
<1> DEFINE t == [state |-> state, stage |-> stage, data |-> data]
<1>1. t \in Transaction
  BY DEF Transaction
<1>2. t # None
  BY <1>1, NoneAssumption
<1>3. j.tx \in TxID
  BY DEF Job
<1>4. tx'[j.tx] = t /\ \A u \in TxID \ {j.tx} : tx'[u] = tx[u]
  BY <1>3 DEF TypeOK, Written
<1>5. tx'[j.tx] # None
  BY <1>2, <1>4
<1>6. tx'[j.tx].state = state /\ tx'[j.tx].stage = stage /\ tx'[j.tx].data = data
  BY <1>4
<1>7. /\ StageOf(j.tx)' = stage
      /\ HasValid(j.tx)' <=> data["GetValidEmissions"] # None
      /\ InState(j.tx, "PROCESSING")' <=> state = "PROCESSING"
      /\ Finished(j.tx)' <=> state = "FINISHED"
  BY <1>5, <1>6 DEF StageOf, HasValid, Finished, InState
<1>8. Valid(j.tx)' = IF data["GetValidEmissions"] = None THEN {}
                     ELSE data["GetValidEmissions"].output
  BY <1>5, <1>6 DEF Valid
<1>9. StoredToken(j.tx)' = IF data["StoreMintedToken"] = None THEN None
                           ELSE data["StoreMintedToken"].storage
  BY <1>5, <1>6 DEF StoredToken
<1>10. QED
  BY <1>4, <1>7, <1>8, <1>9, SameTxIsQuiet

\* The tokens issued stay, and one that is added is for the records an audit locked.
Mints ==
  \/ minted' = minted
  \/ \E m \in [tx : TxID, records : SUBSET Record] :
       /\ minted' = Append(minted, m)
       /\ HasValid(m.tx) /\ m.records = Valid(m.tx)

\* What Mints means for the sequence of tokens.
LEMMA MintedGrows ==
  ASSUME ServiceTypeOK, Mints
  PROVE  /\ DOMAIN minted \subseteq DOMAIN minted'
         /\ \A i \in DOMAIN minted : minted'[i] = minted[i]
         /\ \A i \in DOMAIN minted' \ DOMAIN minted :
              HasValid(minted'[i].tx) /\ minted'[i].records = Valid(minted'[i].tx)
         /\ \A i \in DOMAIN minted' : minted'[i].tx \in TxID
         /\ minted' \in Seq([tx : TxID, records : SUBSET Record])
<1> DEFINE M == [tx : TxID, records : SUBSET Record]
<1>1. minted \in Seq(M)
  BY DEF ServiceTypeOK
<1>2. ASSUME minted' \in Seq(M), NEW i \in DOMAIN minted' PROVE minted'[i].tx \in TxID
  <2>1. minted'[i] \in M
    <3> HIDE DEF M
    <3>1. minted' \in Seq(M)
      BY <1>2
    <3>2. Len(minted') \in Nat /\ DOMAIN minted' = 1 .. Len(minted')
      BY <3>1
    <3>3. QED
      BY <3>1, <3>2
  <2>2. QED
    BY <2>1
<1>3. CASE minted' = minted
  BY <1>1, <1>2, <1>3
<1>4. ASSUME NEW m \in M, minted' = Append(minted, m), HasValid(m.tx), m.records = Valid(m.tx)
      PROVE  /\ DOMAIN minted \subseteq DOMAIN minted'
             /\ \A i \in DOMAIN minted : minted'[i] = minted[i]
             /\ \A i \in DOMAIN minted' \ DOMAIN minted : minted'[i] = m
             /\ minted' \in Seq(M)
  BY <1>1, <1>4
<1>5. QED
  BY <1>2, <1>3, <1>4 DEF Mints

\* A step that is quiet on every audit and touches neither locks nor records.
LEMMA QuietStep ==
  ASSUME ServiceTypeOK, AuditsOK, \A u \in TxID : Quiet(u), Mints,
         lock' = lock, tokenId' = tokenId
  PROVE  AuditsOK'
<1>1. ASSUME NEW t \in TxID PROVE TxOK(t)'
  <2>1. TxOK(t) /\ Quiet(t)
    BY DEF AuditsOK
  <2>2. QED
    BY <2>1, MintedGrows DEF TxOK, Quiet
<1>2. LocksMatchStages'
  BY DEF AuditsOK, LocksMatchStages, Quiet, Finished
<1>3. LockedIsUnaudited'
  BY DEF AuditsOK, LockedIsUnaudited
<1>4. ValidDisjoint'
  BY DEF AuditsOK, ValidDisjoint, Quiet
<1>5. MintsOK'
  <2> SUFFICES ASSUME NEW i \in DOMAIN minted'
               PROVE  HasValid(minted[i].tx)' /\ minted'[i].records = Valid(minted[i].tx)'
    BY DEF MintsOK
  <2> QED
    BY MintedGrows DEF AuditsOK, MintsOK, Quiet
<1>6. TrailOK'
  BY DEF AuditsOK, TrailOK, Quiet
<1>7. QED
  BY <1>1, <1>2, <1>3, <1>4, <1>5, <1>6 DEF AuditsOK
\* What the audits were when the step began, as the lemmas below use it.
LEMMA AuditFacts ==
  ASSUME ServiceTypeOK, AuditsOK
  PROVE  /\ \A r \in Record, t \in TxID :
              lock[r] = t <=> r \in Valid(t) /\ ~Finished(t)
         /\ \A r \in Record, t \in TxID :
              Finished(t) /\ r \in Valid(t) => tokenId[r] = StoredToken(t) /\ tokenId[r] \in Token
         /\ \A t \in TxID : ~HasValid(t) => Valid(t) = {} /\ ~Finished(t)
         /\ \A i \in DOMAIN minted : minted[i].tx \in TxID
         /\ \A t \in TxID : t # None
         /\ Absent \notin Token /\ Null \notin Token
<1>1. \A r \in Record, t \in TxID : lock[r] = t <=> r \in Valid(t) /\ ~Finished(t)
  BY DEF AuditsOK, LocksMatchStages, Finished
<1>2. \A r \in Record, t \in TxID :
        Finished(t) /\ r \in Valid(t) => tokenId[r] = StoredToken(t) /\ tokenId[r] \in Token
  BY DEF AuditsOK, TxOK
<1>3. \A t \in TxID : ~HasValid(t) => Valid(t) = {}
  BY DEF HasValid, Valid
<1>4. \A t \in TxID : ~HasValid(t) => ~Finished(t)
  BY DEF AuditsOK, TxOK
<1>5. \A i \in DOMAIN minted : minted[i].tx \in TxID
  <2>2. minted \in Seq([tx : TxID, records : SUBSET Record])
    BY DEF ServiceTypeOK
  <2>3. TAKE i \in DOMAIN minted
  <2>4. minted[i] \in [tx : TxID, records : SUBSET Record]
    <3> DEFINE M == [tx : TxID, records : SUBSET Record]
    <3> HIDE DEF M
    <3>1. minted \in Seq(M)
      BY <2>2 DEF M
    <3>2. Len(minted) \in Nat /\ DOMAIN minted = 1 .. Len(minted)
      BY <3>1
    <3>3. minted[i] \in M
      BY <3>1, <3>2
    <3>4. QED
      BY <3>3 DEF M
  <2>5. QED
    BY <2>4
<1>6. /\ \A t \in TxID : t # None
      /\ Absent \notin Token /\ Null \notin Token
  BY NoneAssumption, FieldAssumption
<1>7. QED
  BY <1>1, <1>2, <1>3, <1>4, <1>5, <1>6

\* The first stage: the records locked were free and had no token, so no other audit,
\* finished or not, had found them valid.
LEMMA LockStep ==
  ASSUME ServiceTypeOK, AuditsOK, NEW j \in Job, StageOf(j.tx) = "",
         StageUpdate(LockInput(j)), minted' = minted
  PROVE  /\ AuditsOK'
         /\ StageOf(j.tx)' = "GetValidEmissions"
         /\ Valid(j.tx)' = GetValidEmissions(j.records)
         /\ InState(j.tx, "PROCESSING")'
         /\ \A u \in TxID \ {j.tx} : Quiet(u) /\ tx'[u] = tx[u]
<1> DEFINE t == j.tx
           V == GetValidEmissions(j.records)
           entry == [storage |-> None, output |-> V]
           data == [tx[t].data EXCEPT !["GetValidEmissions"] = entry]
<1>1. TypeOK /\ t \in TxID
  BY DEF ServiceTypeOK, Job
<1>2. /\ InState(t, "PROCESSING")
      /\ Written(j, "GetValidEmissions", "PROCESSING", data)
      /\ lock' = [r \in Record |-> IF r \in V THEN t ELSE lock[r]]
      /\ tokenId' = tokenId
      /\ V \subseteq Record
      /\ \A r \in V : lock[r] = None /\ tokenId[r] = Null
  BY <1>1, LockEffect
<1>3. entry \in StageData /\ entry # None
  <2>1. entry \in StageData
    BY <1>2 DEF StageData
  <2>2. QED
    BY <2>1, NoneAssumption
<1>4. tx[t].data \in [Stage -> StageData \cup {None}]
  BY <1>1, <1>2 DEF TypeOK, InState, Transaction
<1>5. /\ data \in [Stage -> StageData \cup {None}]
      /\ data["GetValidEmissions"] = entry
  BY <1>3, <1>4, StageNames
<1>6. /\ StageOf(t)' = "GetValidEmissions" /\ HasValid(t)' /\ Valid(t)' = V
      /\ InState(t, "PROCESSING")' /\ ~Finished(t)'
      /\ \A u \in TxID \ {t} : Quiet(u) /\ tx'[u] = tx[u]
  <2>1. "GetValidEmissions" \in Stage /\ "PROCESSING" \in TxState
    BY StageNames DEF TxState
  <2> HIDE DEF data, V, entry
  <2>2. /\ StageOf(t)' = "GetValidEmissions" /\ (HasValid(t)' <=> entry # None)
        /\ Valid(t)' = (IF entry = None THEN {} ELSE entry.output)
        /\ InState(t, "PROCESSING")' /\ ~Finished(t)'
        /\ \A u \in TxID \ {t} : Quiet(u) /\ tx'[u] = tx[u]
    BY <1>1, <1>2, <1>5, <2>1, WrittenSummary
  <2>3. entry.output = V
    BY DEF entry
  <2>4. QED
    BY <1>3, <2>2, <2>3
<1>7. ~HasValid(t) /\ Valid(t) = {} /\ ~Finished(t)
  BY <1>1, AuditFacts DEF AuditsOK, TxOK
<1> HIDE DEF data, V, entry
<1>8. ASSUME NEW u \in TxID PROVE TxOK(u)'
  <2>1. CASE u = t
    BY <2>1, <1>2, <1>6, <1>7 DEF TxOK, Stages
  <2>2. CASE u # t
    <3>1. TxOK(u) /\ Quiet(u)
      BY <2>2, <1>6 DEF AuditsOK
    <3>2. QED
      BY <3>1, <1>2 DEF TxOK, Quiet
  <2>3. QED
    BY <2>1, <2>2
<1>9. LocksMatchStages'
  <2> SUFFICES ASSUME NEW r \in Record, NEW u \in TxID
               PROVE  lock'[r] = u <=> r \in Valid(u)' /\ ~Finished(u)'
    BY DEF LocksMatchStages, Finished
  <2>1. lock'[r] = IF r \in V THEN t ELSE lock[r]
    BY <1>2
  <2>2. CASE u = t
    <3>1. lock[r] # t
      BY <1>1, <1>7, AuditFacts
    <3> QED BY <2>1, <2>2, <3>1, <1>6
  <2>3. CASE u # t
    <3>1. Valid(u)' = Valid(u) /\ (Finished(u)' <=> Finished(u))
      BY <2>3, <1>6 DEF Quiet
    <3>2. /\ lock[r] = u <=> r \in Valid(u) /\ ~Finished(u)
          /\ r \in V => lock[r] = None /\ u # None
      BY <1>2, AuditFacts
    <3>3. QED
      BY <2>1, <2>3, <3>1, <3>2
  <2>4. QED
    BY <2>2, <2>3
<1>10. LockedIsUnaudited'
  BY <1>2 DEF AuditsOK, LockedIsUnaudited
<1>11. \A u \in TxID \ {t} : V \cap Valid(u) = {}
  <2>1. ASSUME NEW u \in TxID, NEW r \in V, r \in Valid(u) PROVE lock[r] = u \/ tokenId[r] # Null
    <3>1. r \in Record
      BY <1>2
    <3>2. CASE Finished(u)
      BY <2>1, <3>1, <3>2, AuditFacts
    <3>3. CASE ~Finished(u)
      BY <2>1, <3>1, <3>3, AuditFacts
    <3> QED BY <3>2, <3>3
  <2>2. \A r \in V : lock[r] = None /\ tokenId[r] = Null
    BY <1>2
  <2>3. \A u \in TxID : u # None
    BY AuditFacts
  <2> QED BY <2>1, <2>2, <2>3
<1>12. ValidDisjoint'
  <2> SUFFICES ASSUME NEW u \in TxID, NEW v \in TxID, u # v
               PROVE  Valid(u)' \cap Valid(v)' = {}
    BY DEF ValidDisjoint
  <2>1. Valid(u) \cap Valid(v) = {}
    BY DEF AuditsOK, ValidDisjoint
  <2>2. \A x \in {u, v} : Valid(x)' = IF x = t THEN V ELSE Valid(x)
    BY <1>6 DEF Quiet
  <2>3. QED
    BY <1>11, <2>1, <2>2
<1>13. MintsOK'
  <2> SUFFICES ASSUME NEW i \in DOMAIN minted
               PROVE  HasValid(minted[i].tx)' /\ minted[i].records = Valid(minted[i].tx)'
    BY DEF MintsOK
  <2>1. HasValid(minted[i].tx) /\ minted[i].records = Valid(minted[i].tx)
    BY DEF AuditsOK, MintsOK
  <2>2. Quiet(minted[i].tx)
    BY <2>1, <1>6, <1>7, AuditFacts
  <2>3. QED
    BY <2>1, <2>2 DEF Quiet
<1>14. TrailOK'
  <2> SUFFICES ASSUME NEW r \in Record, tokenId[r] \in Token
               PROVE  \E u \in TxID : Finished(u)' /\ r \in Valid(u)' /\ tokenId[r] = StoredToken(u)'
    BY <1>2 DEF TrailOK
  <2>1. PICK u \in TxID : Finished(u) /\ r \in Valid(u) /\ tokenId[r] = StoredToken(u)
    BY DEF AuditsOK, TrailOK
  <2>2. Quiet(u)
    BY <2>1, <1>6, <1>7
  <2>3. QED
    BY <2>1, <2>2 DEF Quiet
<1>15. QED
  BY <1>6, <1>8, <1>9, <1>10, <1>12, <1>13, <1>14 DEF AuditsOK, V
\* The second stage: the token kept with the audit was issued for it.
LEMMA StoreStep ==
  ASSUME ServiceTypeOK, AuditsOK, NEW j \in Job, StageOf(j.tx) = "GetValidEmissions",
         j.token \in Token \cap DOMAIN minted, minted[j.token].tx = j.tx,
         StageUpdate(StoreInput(j)), minted' = minted
  PROVE  /\ AuditsOK'
         /\ StageOf(j.tx)' = "StoreMintedToken"
         /\ Valid(j.tx)' = Valid(j.tx) /\ StoredToken(j.tx)' = j.token
         /\ InState(j.tx, "PROCESSING")'
         /\ \A u \in TxID \ {j.tx} : Quiet(u) /\ tx'[u] = tx[u]
<1> DEFINE t == j.tx
           entry == [storage |-> j.token, output |-> None]
           data == [tx[t].data EXCEPT !["StoreMintedToken"] = entry]
<1>1. TypeOK /\ t \in TxID
  BY DEF ServiceTypeOK, Job
<1>2. /\ InState(t, "PROCESSING")
      /\ Written(j, "StoreMintedToken", "PROCESSING", data)
      /\ lock' = lock /\ tokenId' = tokenId
  BY <1>1, StoreEffect
<1>3. entry \in StageData /\ entry # None
  <2>1. entry \in StageData
    BY DEF StageData
  <2>2. QED
    BY <2>1, NoneAssumption
<1>4. tx[t].data \in [Stage -> StageData \cup {None}]
  BY <1>1, <1>2 DEF TypeOK, InState, Transaction
<1>5. /\ data \in [Stage -> StageData \cup {None}]
      /\ data["StoreMintedToken"] = entry
      /\ data["GetValidEmissions"] = tx[t].data["GetValidEmissions"]
  BY <1>3, <1>4, StageNames
<1>6. HasValid(t) /\ ~Finished(t) /\ tx[t].data["GetValidEmissions"] # None
      /\ Valid(t) = tx[t].data["GetValidEmissions"].output
  BY <1>1 DEF AuditsOK, TxOK, HasValid, Valid
<1>7. /\ StageOf(t)' = "StoreMintedToken" /\ HasValid(t)'
      /\ Valid(t)' = Valid(t) /\ StoredToken(t)' = j.token
      /\ InState(t, "PROCESSING")' /\ ~Finished(t)'
      /\ \A u \in TxID \ {t} : Quiet(u) /\ tx'[u] = tx[u]
  <2>1. "StoreMintedToken" \in Stage /\ "PROCESSING" \in TxState
    BY StageNames DEF TxState
  <2>2. entry.storage = j.token
    OBVIOUS
  <2> HIDE DEF data, entry
  <2>3. QED
    BY <1>1, <1>2, <1>3, <1>5, <1>6, <2>1, <2>2, WrittenSummary
<1> HIDE DEF data, entry
<1>8. \A u \in TxID : /\ Valid(u)' = Valid(u) /\ (HasValid(u)' <=> HasValid(u))
                      /\ Finished(u)' <=> Finished(u)
  BY <1>6, <1>7 DEF Quiet
<1>9. ASSUME NEW u \in TxID PROVE TxOK(u)'
  <2>1. CASE u = t
    BY <2>1, <1>6, <1>7 DEF AuditsOK, TxOK, Stages
  <2>2. CASE u # t
    <3>1. TxOK(u) /\ Quiet(u)
      BY <2>2, <1>7 DEF AuditsOK
    <3>2. QED
      BY <3>1, <1>2 DEF TxOK, Quiet
  <2>3. QED
    BY <2>1, <2>2
<1>10. LocksMatchStages' /\ LockedIsUnaudited'
  BY <1>2, <1>8 DEF AuditsOK, LocksMatchStages, LockedIsUnaudited, Finished
<1>11. ValidDisjoint'
  BY <1>8 DEF AuditsOK, ValidDisjoint
<1>12. MintsOK'
  BY <1>8, AuditFacts DEF AuditsOK, MintsOK
<1>13. TrailOK'
  <2> SUFFICES ASSUME NEW r \in Record, tokenId[r] \in Token
               PROVE  \E u \in TxID : Finished(u)' /\ r \in Valid(u)' /\ tokenId[r] = StoredToken(u)'
    BY <1>2 DEF TrailOK
  <2>1. PICK u \in TxID : Finished(u) /\ r \in Valid(u) /\ tokenId[r] = StoredToken(u)
    BY DEF AuditsOK, TrailOK
  <2>2. Quiet(u)
    BY <2>1, <1>6, <1>7
  <2>3. QED
    BY <2>1, <2>2 DEF Quiet
<1>14. QED
  BY <1>7, <1>9, <1>10, <1>11, <1>12, <1>13 DEF AuditsOK

\* The last stage: all the records of the audit get its token and are freed, and no
\* record of another audit is touched.
LEMMA UpdateStep ==
  ASSUME ServiceTypeOK, AuditsOK, NEW j \in Job, StageOf(j.tx) = "StoreMintedToken",
         j.valid = Valid(j.tx), j.token = StoredToken(j.tx),
         StageUpdate(UpdateInput(j)), minted' = minted
  PROVE  /\ AuditsOK'
         /\ Finished(j.tx)'
         /\ \A u \in TxID \ {j.tx} : Quiet(u) /\ tx'[u] = tx[u]
<1> DEFINE t == j.tx
           V == Valid(t)
           k == StoredToken(t)
<1>1. TypeOK /\ t \in TxID
  BY DEF ServiceTypeOK, Job
<1>2. /\ TxOK(t) /\ V \in SUBSET Record /\ k \in Token
      /\ HasValid(t) /\ ~Finished(t)
  BY <1>1 DEF AuditsOK, TxOK
<1>3. /\ InState(t, "PROCESSING")
      /\ Written(j, "MintedTokenUpdate", "FINISHED", tx[t].data)
      /\ lock' = [r \in Record |-> IF r \in V THEN None ELSE lock[r]]
      /\ tokenId' = WithToken(V, k)
      /\ V # {} /\ \A r \in V : lock[r] = t
  BY <1>1, <1>2, UpdateEffect
<1>4. tx[t].data \in [Stage -> StageData \cup {None}]
  BY <1>1, <1>3 DEF TypeOK, InState, Transaction
<1>5. /\ StageOf(t)' = "MintedTokenUpdate" /\ HasValid(t)'
      /\ Valid(t)' = V /\ StoredToken(t)' = k /\ Finished(t)'
      /\ \A u \in TxID \ {t} : Quiet(u) /\ tx'[u] = tx[u]
  <2>1. "MintedTokenUpdate" \in Stage /\ "FINISHED" \in TxState
    BY StageNames DEF TxState
  <2>2. /\ HasValid(t) <=> tx[t].data["GetValidEmissions"] # None
        /\ V = (IF tx[t].data["GetValidEmissions"] = None THEN {}
                ELSE tx[t].data["GetValidEmissions"].output)
        /\ k = (IF tx[t].data["StoreMintedToken"] = None THEN None
                ELSE tx[t].data["StoreMintedToken"].storage)
    BY <1>3 DEF HasValid, Valid, StoredToken, InState
  <2> HIDE DEF V, k
  <2>3. QED
    BY <1>1, <1>2, <1>3, <1>4, <2>1, <2>2, WrittenSummary
<1>6. \A r \in Record : tokenId'[r] = IF r \in V THEN k ELSE tokenId[r]
  BY <1>3 DEF WithToken
<1>7. \A u \in TxID \ {t} : Valid(u) \cap V = {}
  BY <1>1 DEF AuditsOK, ValidDisjoint
<1> HIDE DEF V, k
<1>8. \A u \in TxID : /\ Valid(u)' = Valid(u) /\ (HasValid(u)' <=> HasValid(u))
                      /\ StoredToken(u)' = StoredToken(u)
  BY <1>2, <1>5 DEF Quiet, V, k
<1>9. ASSUME NEW u \in TxID PROVE TxOK(u)'
  <2>1. CASE u = t
    BY <2>1, <1>2, <1>3, <1>5, <1>6 DEF TxOK, Stages, k
  <2>2. CASE u # t
    <3>1. TxOK(u) /\ Quiet(u)
      BY <2>2, <1>5 DEF AuditsOK
    <3>2. ASSUME NEW r \in Valid(u) PROVE tokenId'[r] = tokenId[r]
      BY <2>2, <3>1, <1>6, <1>7 DEF TxOK
    <3>3. QED
      BY <3>1, <3>2 DEF TxOK, Quiet
  <2>3. QED
    BY <2>1, <2>2
<1>10. LocksMatchStages'
  <2> SUFFICES ASSUME NEW r \in Record, NEW u \in TxID
               PROVE  lock'[r] = u <=> r \in Valid(u)' /\ ~Finished(u)'
    BY DEF LocksMatchStages, Finished
  <2>1. lock'[r] = IF r \in V THEN None ELSE lock[r]
    BY <1>3
  <2>2. lock[r] = u <=> r \in Valid(u) /\ ~Finished(u)
    BY AuditFacts
  <2>3. u # None
    BY AuditFacts
  <2>4. CASE u = t
    BY <2>1, <2>2, <2>3, <2>4, <1>2, <1>5 DEF V
  <2>5. CASE u # t
    BY <2>1, <2>2, <2>3, <2>5, <1>5, <1>7 DEF Quiet
  <2>6. QED
    BY <2>4, <2>5
<1>11. LockedIsUnaudited'
  BY <1>3, <1>6 DEF AuditsOK, LockedIsUnaudited
<1>12. ValidDisjoint'
  BY <1>8 DEF AuditsOK, ValidDisjoint
<1>13. MintsOK'
  BY <1>8, AuditFacts DEF AuditsOK, MintsOK
<1>14. TrailOK'
  <2> SUFFICES ASSUME NEW r \in Record, tokenId'[r] \in Token
               PROVE  \E u \in TxID : Finished(u)' /\ r \in Valid(u)' /\ tokenId'[r] = StoredToken(u)'
    BY DEF TrailOK
  <2>1. CASE r \in V
    BY <2>1, <1>1, <1>5, <1>6
  <2>2. CASE r \notin V
    <3>1. PICK u \in TxID : Finished(u) /\ r \in Valid(u) /\ tokenId[r] = StoredToken(u)
      BY <2>2, <1>6 DEF AuditsOK, TrailOK
    <3>2. Quiet(u)
      BY <3>1, <1>2, <1>5
    <3>3. QED
      BY <2>2, <3>1, <3>2, <1>6 DEF Quiet
  <2>3. QED
    BY <2>1, <2>2
<1>15. QED
  BY <1>5, <1>9, <1>10, <1>11, <1>12, <1>13, <1>14 DEF AuditsOK

\* A record written meanwhile was absent, so no audit knew of it.
LEMMA NewRecordStep ==
  ASSUME ServiceTypeOK, AuditsOK, NEW r \in Record, RecordEmissions(r),
         UNCHANGED dlVars, minted' = minted
  PROVE  AuditsOK'
<1>1. /\ tokenId[r] = Absent
      /\ \A q \in Record : tokenId'[q] = IF q = r THEN Null ELSE tokenId[q]
  BY DEF ServiceTypeOK, TypeOK, EmissionsTypeOK, RecordEmissions, Recorded
<1>2. lock' = lock /\ \A u \in TxID : Quiet(u)
  BY SameTxIsQuiet DEF dlVars
<1>3. ASSUME NEW u \in TxID PROVE TxOK(u)'
  <2>1. TxOK(u) /\ Quiet(u)
    BY <1>2 DEF AuditsOK
  <2>2. Finished(u) => \A q \in Valid(u) : tokenId'[q] = tokenId[q]
    BY <2>1, <1>1, AuditFacts DEF TxOK
  <2>3. QED
    BY <2>1, <2>2 DEF TxOK, Quiet
<1>4. LocksMatchStages' /\ ValidDisjoint'
  BY <1>2 DEF AuditsOK, LocksMatchStages, ValidDisjoint, Quiet, Finished
<1>5. LockedIsUnaudited'
  BY <1>1, <1>2 DEF AuditsOK, LockedIsUnaudited
<1>6. MintsOK'
  BY <1>2, AuditFacts DEF AuditsOK, MintsOK, Quiet
<1>7. TrailOK'
  BY <1>1, <1>2, AuditFacts DEF AuditsOK, TrailOK, Quiet
<1>8. QED
  BY <1>3, <1>4, <1>5, <1>6, <1>7 DEF AuditsOK
-----------------------------------------------------------------------------
(* What a step of one request does to the others, and how the parts of the *)
(* invariant come together again after it.                                 *)

Label == Resting \cup Working \cup {"start"}

FaultStep == UNCHANGED faults \/ \E kind \in FaultKind : Fault(kind)

\* The step touches no transaction another request is working on.
OthersKept(w) ==
  \A v \in Worker \ {w} : pc[v] \in Working => tx'[job[v].tx] = tx[job[v].tx]

\* A request's pc and job change together, and no other request's.
LEMMA Moves ==
  ASSUME ServiceTypeOK, TypeOK', Mints, FaultStep, NEW w \in Worker, NEW label \in Label,
         NEW j \in Job \cup {None}, Goto(w, label), job' = [job EXCEPT ![w] = j]
  PROVE  /\ ServiceTypeOK'
         /\ pc'[w] = label /\ job'[w] = j
         /\ \A v \in Worker \ {w} : pc'[v] = pc[v] /\ job'[v] = job[v]
<1>1. pc' = [pc EXCEPT ![w] = label] /\ pc \in [Worker -> Label] /\ job \in [Worker -> Job \cup {None}]
  BY DEF Goto, ServiceTypeOK, Label
<1>2. faults' \in 0 .. MaxFaults
  BY FaultsAssumption DEF ServiceTypeOK, FaultStep, Fault
<1>3. minted' \in Seq([tx : TxID, records : SUBSET Record])
  BY MintedGrows
<1>4. pc' \in [Worker -> Label] /\ job' \in [Worker -> Job \cup {None}]
  BY <1>1
<1>5. ServiceTypeOK'
  BY <1>2, <1>3, <1>4 DEF ServiceTypeOK, Label
<1>6. QED
  BY <1>1, <1>5

\* Requests work on the transactions of their own audits.
LEMMA WorkingJobs ==
  ASSUME AuditInv, NEW v \in Worker, pc[v] \in Working
  PROVE  job[v] \in Job /\ job[v].tx \in TxID
<1>1. pc[v] \notin Resting
  BY DEF Working, Resting
<1>2. job[v] \in Job
  BY <1>1 DEF AuditInv, RequestOK
<1>3. QED
  BY <1>2 DEF Job

\* A request that is not disturbed still knows what it knew.
LEMMA OtherRequest ==
  ASSUME AuditInv, Mints, NEW v \in Worker, pc'[v] = pc[v], job'[v] = job[v],
         pc[v] \in Working => tx'[job[v].tx] = tx[job[v].tx]
  PROVE  RequestOK(v)'
<1>1. RequestOK(v)
  BY DEF AuditInv
<1>2. CASE pc[v] \notin Working
  BY <1>1, <1>2 DEF RequestOK
<1>3. CASE pc[v] \in Working
  <2> DEFINE t == job[v].tx
  <2>1. /\ Quiet(t)
        /\ InState(t, "PROCESSING")' <=> InState(t, "PROCESSING")
    BY <1>3, SameTxIsQuiet
  <2>2. /\ StageOf(t)' = StageOf(t) /\ Valid(t)' = Valid(t)
        /\ StoredToken(t)' = StoredToken(t) /\ (Finished(t)' <=> Finished(t))
    BY <2>1 DEF Quiet
  <2>3. /\ DOMAIN minted \subseteq DOMAIN minted'
        /\ \A i \in DOMAIN minted : minted'[i] = minted[i]
    BY MintedGrows DEF AuditInv
  <2>4. job'[v].tx = t
    OBVIOUS
  <2>5. QED
    BY <1>1, <1>3, <2>1, <2>2, <2>3, <2>4 DEF RequestOK
<1>4. QED
  BY <1>2, <1>3

\* The parts of the invariant after a step of request w.
LEMMA Assembled ==
  ASSUME AuditInv, Mints, NEW w \in Worker, ServiceTypeOK', AuditsOK', RequestOK(w)',
         \A v \in Worker \ {w} : pc'[v] = pc[v] /\ job'[v] = job[v],
         OthersKept(w),
         pc'[w] \in Working =>
           \A v \in Worker \ {w} : pc[v] \in Working => job[v].tx # job'[w].tx
  PROVE  AuditInv'
<1>1. \A v \in Worker : RequestOK(v)'
  BY OtherRequest DEF OthersKept
<1>2. Exclusive'
  <2> SUFFICES ASSUME NEW u \in Worker, NEW v \in Worker, u # v,
                      pc'[u] \in Working, pc'[v] \in Working
               PROVE  job'[u].tx # job'[v].tx
    BY DEF Exclusive
  <2>1. CASE u # w /\ v # w
    BY <2>1 DEF AuditInv, Exclusive
  <2>2. CASE u = w
    BY <2>2
  <2>3. CASE v = w
    BY <2>3
  <2>4. QED
    BY <2>1, <2>2, <2>3
<1>3. QED
  BY <1>1, <1>2 DEF AuditInv

\* A step that leaves the chaincodes alone.
LEMMA ChaincodesKept ==
  ASSUME AuditInv, Mints, UNCHANGED vars
  PROVE  /\ TypeOK' /\ AuditsOK'
         /\ \A u : Quiet(u) /\ (InState(u, "PROCESSING")' <=> InState(u, "PROCESSING"))
         /\ \A u : tx'[u] = tx[u]
<1>1. tx' = tx /\ lock' = lock /\ lockIndex' = lockIndex /\ tokenId' = tokenId
  BY DEF vars
<1>2. TypeOK'
  BY <1>1, TypeInductive DEF AuditInv, ServiceTypeOK, vars
<1>3. \A u : Quiet(u) /\ (InState(u, "PROCESSING")' <=> InState(u, "PROCESSING"))
  BY <1>1, SameTxIsQuiet
<1>4. AuditsOK'
  BY <1>1, <1>3, QuietStep DEF AuditInv
<1>5. QED
  BY <1>1, <1>2, <1>3, <1>4

\* The request is answered, or it dies: nothing is left to be said of it.
LEMMA AnswerStep ==
  ASSUME AuditInv, Mints, FaultStep, TypeOK', AuditsOK', NEW w \in Worker,
         NEW label \in Resting, Answer(w, label), OthersKept(w)
  PROVE  AuditInv'
<1>1. label \in Label /\ label \notin Working
  BY DEF Label, Resting, Working
<1>2. /\ ServiceTypeOK' /\ pc'[w] = label
      /\ \A v \in Worker \ {w} : pc'[v] = pc[v] /\ job'[v] = job[v]
  <2>1. ServiceTypeOK /\ None \in Job \cup {None}
    BY DEF AuditInv
  <2>2. Goto(w, label) /\ job' = [job EXCEPT ![w] = None]
    BY DEF Answer
  <2> QED BY <1>1, <2>1, <2>2, Moves
<1>3. RequestOK(w)'
  BY <1>1, <1>2 DEF RequestOK
<1>4. QED
  BY <1>1, <1>2, <1>3, Assembled

\* A stage of the request fails, after it committed or without.
LEMMA FailStep ==
  ASSUME AuditInv, Mints, FaultStep, TypeOK', AuditsOK', NEW w \in Worker,
         pc[w] \in Working, Fail(w), NEW t \in TxID, job[w].tx = t,
         \A u \in TxID \ {t} : tx'[u] = tx[u],
         InState(t, "PROCESSING")' \/ Finished(t)'
  PROVE  AuditInv'
<1> DEFINE j == [job[w] EXCEPT !.failed = TRUE]
<1>1. job[w] \in Job
  BY WorkingJobs
<1>2. j \in Job /\ j.tx = t
  BY <1>1 DEF Job
<1>3. Goto(w, "end") /\ job' = [job EXCEPT ![w] = j]
  BY DEF Fail
<1>4. "end" \in Label /\ "end" \in Working /\ "end" \notin Resting
  BY DEF Label, Working, Resting
<1>5. /\ ServiceTypeOK' /\ pc'[w] = "end" /\ job'[w] = j
      /\ \A v \in Worker \ {w} : pc'[v] = pc[v] /\ job'[v] = job[v]
  <2> HIDE DEF j
  <2> QED
    <3>1. ServiceTypeOK /\ j \in Job \cup {None}
      BY <1>2 DEF AuditInv
    <3> QED BY <1>3, <1>4, <3>1, Moves
<1>6. \A v \in Worker \ {w} : pc[v] \in Working => job[v].tx # t /\ job[v].tx \in TxID
  BY WorkingJobs DEF AuditInv, Exclusive
<1>7. OthersKept(w)
  BY <1>6 DEF OthersKept
<1>8. job'[w].tx = t
  BY <1>2, <1>5
<1>9. RequestOK(w)'
  BY <1>2, <1>4, <1>5, <1>8 DEF RequestOK
<1>10. QED
  BY <1>4, <1>5, <1>6, <1>7, <1>8, <1>9, Assembled
-----------------------------------------------------------------------------
(* The invariant, action by action. *)

\* A new request knows nothing of its audit yet.
LEMMA SubmitKeeps ==
  ASSUME AuditInv, NEW w \in Worker, NEW t \in TxID, NEW records \in Batch,
         Submit(w, t, records)
  PROVE  AuditInv'
<1> DEFINE j == [tx |-> t, records |-> records, valid |-> None, token |-> None,
                 failed |-> FALSE]
<1>1. j \in Job
  BY DEF Job
<1>2. /\ Goto(w, "start") /\ job' = [job EXCEPT ![w] = j]
      /\ UNCHANGED vars /\ Mints /\ FaultStep
  BY DEF Submit, Mints, FaultStep
<1>3. "start" \in Label /\ "start" \notin Working
  BY DEF Label, Working
<1>4. TypeOK' /\ AuditsOK' /\ \A u : tx'[u] = tx[u]
  BY <1>2, ChaincodesKept
<1>5. /\ ServiceTypeOK' /\ pc'[w] = "start" /\ job'[w] = j
      /\ \A v \in Worker \ {w} : pc'[v] = pc[v] /\ job'[v] = job[v]
  <2> HIDE DEF j
  <2> QED
    <3>1. ServiceTypeOK /\ TypeOK' /\ Mints /\ FaultStep
      BY <1>2, <1>4 DEF AuditInv
    <3>2. Goto(w, "start") /\ job' = [job EXCEPT ![w] = j]
      BY <1>2
    <3>3. "start" \in Label /\ j \in Job \cup {None}
      BY <1>1, <1>3
    <3> QED BY <3>1, <3>2, <3>3, Moves
<1>6. RequestOK(w)'
  BY <1>1, <1>3, <1>5 DEF RequestOK
<1>7. QED
  BY <1>2, <1>3, <1>4, <1>5, <1>6, Assembled DEF OthersKept

\* A crash takes the request with it and leaves the transaction as it is.
LEMMA CrashKeeps ==
  ASSUME AuditInv, NEW w \in Worker, Crash(w)
  PROVE  AuditInv'
<1>1. UNCHANGED vars /\ Mints /\ FaultStep /\ Answer(w, "idle")
  BY DEF Crash, Mints, FaultStep, Fault, FaultKind
<1>2. TypeOK' /\ AuditsOK' /\ \A u : tx'[u] = tx[u]
  BY <1>1, ChaincodesKept
<1>3. "idle" \in Resting
  BY DEF Resting
<1>4. QED
  BY <1>1, <1>2, <1>3, AnswerStep DEF OthersKept

\* Recording emissions disturbs no request.
LEMMA NewRecordKeeps ==
  ASSUME AuditInv, NEW r \in Record, NewRecord(r)
  PROVE  AuditInv'
<1>1. /\ RecordEmissions(r) /\ UNCHANGED dlVars
      /\ pc' = pc /\ job' = job /\ minted' = minted /\ faults' = faults
  BY DEF NewRecord, serviceVars
<1>2. AuditsOK'
  BY <1>1, NewRecordStep DEF AuditInv
<1>3. TypeOK'
  BY <1>1, TypeInductive DEF AuditInv, ServiceTypeOK, Next, EmissionsNext
<1>4. ServiceTypeOK'
  BY <1>1, <1>3 DEF AuditInv, ServiceTypeOK
<1>5. tx' = tx /\ Mints
  BY <1>1 DEF dlVars, Mints
<1>6. \A v \in Worker : RequestOK(v)'
  BY <1>1, <1>5, OtherRequest
<1>7. Exclusive'
  BY <1>1 DEF AuditInv, Exclusive
<1>8. QED
  BY <1>2, <1>4, <1>6, <1>7 DEF AuditInv

\* PROCESSING is the mutex: a transaction that can be started is in nobody's hands.
LEMMA StartableIsFree ==
  ASSUME AuditInv, NEW t \in TxID, CanStart(t), NEW v \in Worker, pc[v] \in Working
  PROVE  job[v].tx # t
  BY DEF AuditInv, RequestOK, CanStart, InState, Finished

\* startTransitionProcess: the request takes the transaction over, at the stage stored.
LEMMA StartKeeps ==
  ASSUME AuditInv, NEW w \in Worker, Start(w)
  PROVE  AuditInv'
<1>1. job[w] \in Job /\ job[w].tx \in TxID
  BY DEF Start, Resting, AuditInv, RequestOK, Job
<1> SUFFICES ASSUME NEW t \in TxID, job[w].tx = t PROVE AuditInv'
  BY <1>1
<1>2. Mints /\ minted' = minted
  BY DEF Start, Mints
<1>3. ASSUME StartTransitionProcess(t)
      PROVE  /\ TypeOK' /\ AuditsOK' /\ OthersKept(w)
             /\ \A u \in TxID : Quiet(u)
             /\ InState(t, "PROCESSING")' /\ StageOf(t) = Started(t).stage
             /\ tx'[t] = Started(t)
             /\ \A v \in Worker : pc[v] \in Working => job[v].tx # t
  <2>1. TypeOK
    BY DEF AuditInv, ServiceTypeOK
  <2>2. /\ \A u \in TxID : Quiet(u)
        /\ InState(t, "PROCESSING")' /\ StageOf(t) = Started(t).stage
        /\ tx'[t] = Started(t)
        /\ \A u \in TxID : u # t => tx'[u] = tx[u]
    BY <1>1, <1>3, <2>1, StartIsQuiet
  <2>3. TypeOK'
    BY <1>1, <1>3, <2>1, TypeInductive DEF Next
  <2>4. AuditsOK'
    BY <1>2, <1>3, <2>2, QuietStep DEF AuditInv, StartTransitionProcess
  <2>5. \A v \in Worker : pc[v] \in Working => job[v].tx # t /\ job[v].tx \in TxID
    BY <1>1, <1>3, StartableIsFree, WorkingJobs DEF StartTransitionProcess
  <2>6. OthersKept(w)
    BY <2>2, <2>5 DEF OthersKept
  <2>7. QED
    BY <2>2, <2>3, <2>4, <2>5, <2>6
<1>4. CASE /\ StartTransitionProcess(t)
           /\ Goto(w, EntryPoint(Started(t).stage))
           /\ job' = [job EXCEPT ![w] = Resumed(job[w], Started(t))]
           /\ UNCHANGED faults
  <2> SUFFICES ASSUME NEW s, s = Started(t), NEW j, j = Resumed(job[w], s),
                      NEW label, label = EntryPoint(s.stage)
               PROVE  AuditInv'
    OBVIOUS
  <2>1. s.stage = StageOf(t) /\ StageOf(t)' = s.stage /\ TxOK(t) /\ TxOK(t)'
    BY <1>1, <1>3, <1>4 DEF Quiet, AuditInv, AuditsOK
  <2>2. label \in Working /\ label \in Label /\ label \notin Resting
        /\ label \in {"lock", "read", "update", "end"}
    BY <2>1 DEF TxOK, Stages, EntryPoint, Label, Working, Resting
  <2>3. s \in Transaction /\ s # None
    <3>1. TypeOK' /\ tx'[t] = s /\ InState(t, "PROCESSING")'
      BY <1>3, <1>4
    <3>2. QED
      BY <1>1, <3>1 DEF TypeOK, InState
  <2>4. /\ j \in Job /\ j.tx = t
        /\ HasValid(t)' => j.valid = Valid(t)'
        /\ j.token = StoredToken(t)'
    <3> DEFINE valid == s.data["GetValidEmissions"]
               token == s.data["StoreMintedToken"]
               v == IF valid = None THEN None ELSE valid.output
               k == IF token = None THEN None ELSE token.storage
    <3>1. valid \in StageData \cup {None} /\ token \in StageData \cup {None}
      BY <2>3, StageNames DEF Transaction
    <3>2. v \in (SUBSET Record) \cup {None} /\ k \in Token \cup {None}
      BY <3>1 DEF StageData
    <3>3. /\ HasValid(t)' <=> valid # None
          /\ HasValid(t)' => Valid(t)' = v
          /\ StoredToken(t)' = k
      BY <1>3, <1>4, <2>3 DEF HasValid, Valid, StoredToken
    <3>4. j = [job[w] EXCEPT !.valid = v, !.token = k]
      BY DEF Resumed
    <3> HIDE DEF v, k, valid, token
    <3>5. j \in Job /\ j.tx = t /\ j.valid = v /\ j.token = k
      BY <1>1, <3>2, <3>4 DEF Job
    <3>6. QED
      BY <3>3, <3>5
  <2>5. FaultStep
    BY <1>4 DEF FaultStep
  <2>6. /\ ServiceTypeOK' /\ pc'[w] = label /\ job'[w] = j
        /\ \A v \in Worker \ {w} : pc'[v] = pc[v] /\ job'[v] = job[v]
    <3>1. Goto(w, label) /\ job' = [job EXCEPT ![w] = j]
      BY <1>4
    <3>2. TypeOK' /\ ServiceTypeOK /\ Mints /\ FaultStep
      BY <1>2, <1>3, <1>4, <2>5 DEF AuditInv
    <3>3. label \in Label /\ j \in Job \cup {None}
      BY <2>2, <2>4
    <3>4. QED
      BY ONLY w \in Worker, <3>1, <3>2, <3>3, Moves
  <2>7. RequestOK(w)'
    <3>1. InState(t, "PROCESSING")' /\ job'[w].tx = t
      BY <1>3, <1>4, <2>4, <2>6
    <3>2. label = "lock" <=> StageOf(t)' = ""
      BY <2>1 DEF TxOK, Stages, EntryPoint
    <3>3. label = "read" => StageOf(t)' = "GetValidEmissions" /\ HasValid(t)'
      BY <2>1 DEF TxOK, Stages, EntryPoint
    <3>4. label = "update" => StageOf(t)' = "StoreMintedToken" /\ HasValid(t)'
      BY <2>1 DEF TxOK, Stages, EntryPoint
    <3>5. QED
      BY <2>2, <2>4, <2>6, <3>1, <3>2, <3>3, <3>4 DEF RequestOK
  <2>8. QED
    BY <1>2, <1>3, <1>4, <2>4, <2>6, <2>7, Assembled
<1>5. CASE ~CanStart(t) /\ Answer(w, "answeredError") /\ UNCHANGED <<vars, faults>>
  <2>1. TypeOK' /\ AuditsOK' /\ OthersKept(w) /\ FaultStep
    BY <1>2, <1>5, ChaincodesKept DEF OthersKept, FaultStep
  <2>2. QED
    BY <1>2, <1>5, <2>1, AnswerStep DEF Resting
<1>6. CASE StartTransitionProcess(t) /\ Fault("startLost") /\ Answer(w, "answeredError")
  <2>1. FaultStep
    BY <1>6 DEF FaultStep, FaultKind
  <2>2. QED
    BY <1>2, <1>3, <1>6, <2>1, AnswerStep DEF Resting
<1>7. QED
  BY <1>4, <1>5, <1>6 DEF Start
\* Fetching the locked records again changes nothing.
LEMMA ReadKeeps ==
  ASSUME AuditInv, NEW w \in Worker, ReadRecords(w)
  PROVE  AuditInv'
<1>1. pc[w] = "read" /\ pc[w] \in Working /\ RequestOK(w)
  BY DEF ReadRecords, Working, AuditInv
<1>2. job[w] \in Job /\ job[w].tx \in TxID
  BY <1>1, WorkingJobs
<1> SUFFICES ASSUME NEW t \in TxID, job[w].tx = t PROVE AuditInv'
  BY <1>2
<1>3. UNCHANGED vars /\ Mints /\ minted' = minted
  BY DEF ReadRecords, Mints
<1>4. /\ TypeOK' /\ AuditsOK'
      /\ Quiet(t) /\ InState(t, "PROCESSING")' <=> InState(t, "PROCESSING")
      /\ \A u : tx'[u] = tx[u]
  BY <1>3, ChaincodesKept
<1>5. InState(t, "PROCESSING")' /\ StageOf(t)' = "GetValidEmissions" /\ job[w].valid = Valid(t)'
  BY <1>1, <1>4 DEF RequestOK, Quiet
<1>6. CASE Goto(w, "mint") /\ UNCHANGED <<job, faults>>
  <2>1. job' = [job EXCEPT ![w] = job[w]]
    BY <1>6 DEF AuditInv, ServiceTypeOK
  <2>2. FaultStep /\ "mint" \in Label /\ "mint" \in Working
    BY <1>6 DEF FaultStep, Label, Working
  <2>3. /\ ServiceTypeOK' /\ pc'[w] = "mint" /\ job'[w] = job[w]
        /\ \A v \in Worker \ {w} : pc'[v] = pc[v] /\ job'[v] = job[v]
    BY <1>2, <1>3, <1>4, <1>6, <2>1, <2>2, Moves DEF AuditInv
  <2>4. RequestOK(w)'
    BY <1>2, <1>5, <2>3 DEF RequestOK
  <2>5. QED
    BY <1>1, <1>3, <1>4, <2>2, <2>3, <2>4, Assembled DEF OthersKept, AuditInv, Exclusive
<1>7. CASE Fault("readFails") /\ Fail(w)
  <2>1. FaultStep
    BY <1>7 DEF FaultStep, FaultKind
  <2>2. QED
    BY <1>1, <1>3, <1>4, <1>5, <1>7, <2>1, FailStep
<1>8. QED
  BY <1>6, <1>7 DEF ReadRecords

\* Minting: the new token is for the records the audit holds locked.
LEMMA MintKeeps ==
  ASSUME AuditInv, NEW w \in Worker, MintToken(w)
  PROVE  AuditInv'
<1>1. pc[w] = "mint" /\ pc[w] \in Working /\ RequestOK(w)
  BY DEF MintToken, Working, AuditInv
<1>2. job[w] \in Job /\ job[w].tx \in TxID
  BY <1>1, WorkingJobs
<1> SUFFICES ASSUME NEW t \in TxID, job[w].tx = t PROVE AuditInv'
  BY <1>2
<1> DEFINE m == [tx |-> t, records |-> job[w].valid]
           issued == Append(minted, m)
<1>3. /\ InState(t, "PROCESSING") /\ StageOf(t) = "GetValidEmissions"
      /\ job[w].valid = Valid(t)
  BY <1>1 DEF RequestOK
<1>4. m \in [tx : TxID, records : SUBSET Record] /\ HasValid(t)
  BY <1>3 DEF AuditInv, AuditsOK, TxOK
<1>5. UNCHANGED vars
  BY DEF MintToken
<1>6. Mints
  <2>1. minted' = issued \/ minted' = minted
    BY DEF MintToken
  <2>2. m.tx = t /\ m.records = Valid(t)
    BY <1>3
  <2>3. QED
    BY <1>4, <2>1, <2>2 DEF Mints
<1>7. /\ TypeOK' /\ AuditsOK'
      /\ Quiet(t) /\ InState(t, "PROCESSING")' <=> InState(t, "PROCESSING")
      /\ \A u : tx'[u] = tx[u]
  BY <1>5, <1>6, ChaincodesKept
<1>8. /\ InState(t, "PROCESSING")' /\ StageOf(t)' = "GetValidEmissions"
      /\ job[w].valid = Valid(t)'
  BY <1>3, <1>7 DEF Quiet
<1>9. CASE /\ minted' = issued /\ UNCHANGED faults
           /\ Goto(w, "store") /\ job' = [job EXCEPT ![w].token = NewToken]
  <2> SUFFICES ASSUME NEW k, k = NewToken, NEW j, j = [job[w] EXCEPT !.token = k]
               PROVE  AuditInv'
    OBVIOUS
  <2>1. minted \in Seq([tx : TxID, records : SUBSET Record])
    BY DEF AuditInv, ServiceTypeOK
  <2>2. k \in Token /\ k \in DOMAIN minted' /\ minted'[k] = m
    BY <1>4, <1>9, <2>1 DEF NewToken, MintToken
  <2>3. j \in Job /\ j.tx = t /\ j.valid = job[w].valid /\ j.token = k
    BY <1>2, <2>2 DEF Job
  <2>4. FaultStep /\ "store" \in Label /\ "store" \in Working
    BY <1>9 DEF FaultStep, Label, Working
  <2>5. /\ ServiceTypeOK' /\ pc'[w] = "store" /\ job'[w] = j
        /\ \A v \in Worker \ {w} : pc'[v] = pc[v] /\ job'[v] = job[v]
    <3>1. Goto(w, "store") /\ job' = [job EXCEPT ![w] = j]
      BY <1>9
    <3>2. TypeOK' /\ ServiceTypeOK /\ Mints /\ FaultStep
      BY <1>6, <1>7, <2>4 DEF AuditInv
    <3>3. "store" \in Label /\ j \in Job \cup {None}
      BY <2>3, <2>4
    <3>4. QED
      BY ONLY w \in Worker, <3>1, <3>2, <3>3, Moves
  <2>6. RequestOK(w)'
    BY <1>8, <2>2, <2>3, <2>5 DEF RequestOK
  <2>7. \A v \in Worker \ {w} : pc[v] \in Working => job[v].tx # job'[w].tx
    BY <1>1, <2>3, <2>5 DEF AuditInv, Exclusive
  <2>8. OthersKept(w)
    BY <1>7 DEF OthersKept
  <2>9. QED
    BY <1>6, <1>7, <2>5, <2>6, <2>7, <2>8, Assembled
<1>10. CASE Fault("issueFails") /\ Fail(w)
  <2>1. FaultStep
    BY <1>10 DEF FaultStep, FaultKind
  <2>2. QED
    BY <1>1, <1>6, <1>7, <1>8, <1>10, <2>1, FailStep
<1>11. CASE Fault("issueLost") /\ Fail(w)
  <2>1. FaultStep
    BY <1>11 DEF FaultStep, FaultKind
  <2>2. QED
    BY <1>1, <1>6, <1>7, <1>8, <1>11, <2>1, FailStep
<1>12. QED
  BY <1>9, <1>10, <1>11 DEF MintToken
\* A stage update that is refused, fails or whose reply is lost ends the request's work,
\* so what is left to show of a stage is what it does when it commits.
LEMMA StageCallStep ==
  ASSUME AuditInv, NEW w \in Worker, pc[w] \in {"lock", "store", "update"},
         NEW t \in TxID, job[w].tx = t,
         NEW in, NEW label \in Working, NEW nextJob \in Job, nextJob.tx = t,
         CallStageUpdate(w, in, label, nextJob),
         StageUpdate(in) /\ minted' = minted =>
           /\ in \in CheckedStageUpdate /\ AuditsOK'
           /\ \A u \in TxID \ {t} : tx'[u] = tx[u]
           /\ InState(t, "PROCESSING")' \/ Finished(t)',
         /\ StageUpdate(in) /\ minted' = minted /\ ServiceTypeOK'
         /\ pc'[w] = label /\ job'[w] = nextJob
         => RequestOK(w)'
  PROVE  AuditInv'
<1>1. minted' = minted /\ Mints
  BY DEF CallStageUpdate, Mints
<1>2. /\ pc[w] \in Working /\ pc[w] # "end" /\ RequestOK(w) /\ TypeOK
      /\ label \in Label
  BY DEF Working, AuditInv, ServiceTypeOK, Label
<1>3. InState(t, "PROCESSING")
  BY <1>2 DEF RequestOK
<1>4. ASSUME UNCHANGED vars
      PROVE  /\ TypeOK' /\ AuditsOK' /\ \A u : tx'[u] = tx[u]
             /\ InState(t, "PROCESSING")'
  BY <1>1, <1>3, <1>4, ChaincodesKept
<1>5. ASSUME StageUpdate(in)
      PROVE  /\ TypeOK' /\ AuditsOK' /\ \A u \in TxID \ {t} : tx'[u] = tx[u]
             /\ InState(t, "PROCESSING")' \/ Finished(t)'
  BY <1>1, <1>2, <1>5, StageKeepsType
<1>6. CASE /\ StageUpdate(in) /\ UNCHANGED faults
           /\ Goto(w, label) /\ job' = [job EXCEPT ![w] = nextJob]
  <2>1. FaultStep /\ TypeOK' /\ ServiceTypeOK /\ nextJob \in Job \cup {None}
    BY <1>5, <1>6 DEF FaultStep, AuditInv
  <2>2. /\ ServiceTypeOK' /\ pc'[w] = label /\ job'[w] = nextJob
        /\ \A v \in Worker \ {w} : pc'[v] = pc[v] /\ job'[v] = job[v]
    BY <1>1, <1>2, <1>6, <2>1, Moves
  <2>3. RequestOK(w)'
    BY <1>1, <1>6, <2>2
  <2>4. \A v \in Worker \ {w} : pc[v] \in Working =>
          job[v].tx # job'[w].tx /\ job[v].tx # t /\ job[v].tx \in TxID
    BY <1>2, <2>2, WorkingJobs DEF AuditInv, Exclusive
  <2>5. OthersKept(w)
    BY <1>5, <1>6, <2>4 DEF OthersKept
  <2>6. QED
    BY <1>1, <1>5, <1>6, <2>2, <2>3, <2>4, <2>5, Assembled
<1>7. CASE ~StageUpdateSucceeds(in) /\ Fail(w) /\ UNCHANGED <<vars, faults>>
  BY <1>1, <1>2, <1>4, <1>7, FailStep DEF FaultStep
<1>8. CASE StageUpdateSucceeds(in) /\ Fault("stageFails") /\ Fail(w) /\ UNCHANGED vars
  <2>1. FaultStep
    BY <1>8 DEF FaultStep, FaultKind
  <2>2. QED
    BY <1>1, <1>2, <1>4, <1>8, <2>1, FailStep
<1>9. CASE StageUpdate(in) /\ Fault("stageLost") /\ Fail(w)
  <2>1. FaultStep
    BY <1>9 DEF FaultStep, FaultKind
  <2>2. QED
    BY <1>1, <1>2, <1>5, <1>9, <2>1, FailStep
<1>10. QED
  BY <1>6, <1>7, <1>8, <1>9 DEF CallStageUpdate

\* The first stage, committed or not.
LEMMA LockKeeps ==
  ASSUME AuditInv, NEW w \in Worker, LockRecords(w)
  PROVE  AuditInv'
<1>1. /\ pc[w] = "lock" /\ pc[w] \in Working /\ RequestOK(w)
      /\ ServiceTypeOK /\ AuditsOK /\ TypeOK
  BY DEF LockRecords, Working, AuditInv, ServiceTypeOK
<1>2. job[w] \in Job /\ job[w].tx \in TxID /\ job[w].records \in SUBSET Record
  BY <1>1, WorkingJobs, BatchAssumption DEF Job
<1> SUFFICES ASSUME NEW j \in Job, job[w] = j,
                    NEW V, V = GetValidEmissions(j.records),
                    NEW next, next = [j EXCEPT !.valid = V],
                    NEW in, in = LockInput(j)
             PROVE  AuditInv'
  BY <1>2
<1>3. j.tx \in TxID /\ StageOf(j.tx) = ""
  BY <1>1, <1>2 DEF RequestOK
<1>4. next \in Job /\ next.tx = j.tx /\ next.valid = V
  <2>1. V \in SUBSET Record
    BY <1>2 DEF GetValidEmissions
  <2>2. QED
    BY <2>1 DEF Job
<1>5. StageUpdate(in) /\ minted' = minted =>
        /\ in \in CheckedStageUpdate /\ AuditsOK'
        /\ StageOf(j.tx)' = "GetValidEmissions" /\ Valid(j.tx)' = V
        /\ InState(j.tx, "PROCESSING")'
        /\ \A u \in TxID \ {j.tx} : tx'[u] = tx[u]
  BY <1>1, <1>3, LockStep, LockEffect
<1>6. CallStageUpdate(w, in, "mint", next)
  BY DEF LockRecords
<1>7. "mint" \in Working
  BY DEF Working
<1>8. StageUpdate(in) /\ minted' = minted /\ pc'[w] = "mint" /\ job'[w] = next => RequestOK(w)'
  BY <1>4, <1>5 DEF RequestOK
<1>9. QED
  BY <1>1, <1>3, <1>4, <1>5, <1>6, <1>7, <1>8, StageCallStep

\* The second stage, committed or not.
LEMMA StoreKeeps ==
  ASSUME AuditInv, NEW w \in Worker, StoreToken(w)
  PROVE  AuditInv'
<1>1. /\ pc[w] = "store" /\ pc[w] \in Working /\ RequestOK(w)
      /\ ServiceTypeOK /\ AuditsOK /\ TypeOK
  BY DEF StoreToken, Working, AuditInv, ServiceTypeOK
<1>2. job[w] \in Job /\ job[w].tx \in TxID
  BY <1>1, WorkingJobs
<1> SUFFICES ASSUME NEW j \in Job, job[w] = j, NEW in, in = StoreInput(j)
             PROVE  AuditInv'
  BY <1>2
<1>3. /\ j.tx \in TxID /\ StageOf(j.tx) = "GetValidEmissions" /\ j.valid = Valid(j.tx)
      /\ j.token \in Token \cap DOMAIN minted /\ minted[j.token].tx = j.tx
  BY <1>1, <1>2 DEF RequestOK
<1>4. StageUpdate(in) /\ minted' = minted =>
        /\ in \in CheckedStageUpdate /\ AuditsOK'
        /\ StageOf(j.tx)' = "StoreMintedToken" /\ Valid(j.tx)' = j.valid
        /\ StoredToken(j.tx)' = j.token /\ InState(j.tx, "PROCESSING")'
        /\ \A u \in TxID \ {j.tx} : tx'[u] = tx[u]
  BY <1>1, <1>3, StoreStep, StoreEffect
<1>5. CallStageUpdate(w, in, "update", j)
  BY DEF StoreToken
<1>6. "update" \in Working
  BY DEF Working
<1>7. StageUpdate(in) /\ minted' = minted /\ pc'[w] = "update" /\ job'[w] = j => RequestOK(w)'
  BY <1>4 DEF RequestOK
<1>8. QED
  BY <1>1, <1>3, <1>4, <1>5, <1>6, <1>7, StageCallStep

\* The last stage, committed or not.
LEMMA UpdateKeeps ==
  ASSUME AuditInv, NEW w \in Worker, UpdateRecords(w)
  PROVE  AuditInv'
<1>1. /\ pc[w] = "update" /\ pc[w] \in Working /\ RequestOK(w)
      /\ ServiceTypeOK /\ AuditsOK /\ TypeOK
  BY DEF UpdateRecords, Working, AuditInv, ServiceTypeOK
<1>2. job[w] \in Job /\ job[w].tx \in TxID
  BY <1>1, WorkingJobs
<1> SUFFICES ASSUME NEW j \in Job, job[w] = j, NEW in, in = UpdateInput(j)
             PROVE  AuditInv'
  BY <1>2
<1>3. /\ j.tx \in TxID /\ StageOf(j.tx) = "StoreMintedToken"
      /\ j.valid = Valid(j.tx) /\ j.token = StoredToken(j.tx)
      /\ j.valid \in SUBSET Record /\ j.token \in Token
  BY <1>1, <1>2 DEF RequestOK, AuditsOK, TxOK
<1>4. StageUpdate(in) /\ minted' = minted =>
        /\ in \in CheckedStageUpdate /\ AuditsOK' /\ Finished(j.tx)'
        /\ \A u \in TxID \ {j.tx} : tx'[u] = tx[u]
  BY <1>1, <1>3, UpdateStep, UpdateEffect
<1>5. CallStageUpdate(w, in, "end", j)
  BY DEF UpdateRecords
<1>6. "end" \in Working
  BY DEF Working
<1>7. StageUpdate(in) /\ minted' = minted /\ pc'[w] = "end" /\ job'[w] = j => RequestOK(w)'
  BY <1>4 DEF RequestOK
<1>8. QED
  BY <1>1, <1>3, <1>4, <1>5, <1>6, <1>7, StageCallStep

\* endTransitionProcess: the transaction is given up, if it succeeds.
LEMMA EndKeeps ==
  ASSUME AuditInv, NEW w \in Worker, End(w)
  PROVE  AuditInv'
<1>1. /\ pc[w] = "end" /\ pc[w] \in Working /\ ServiceTypeOK /\ TypeOK
  BY DEF End, Working, AuditInv, ServiceTypeOK
<1>2. job[w].tx \in TxID
  BY <1>1, WorkingJobs
<1> SUFFICES ASSUME NEW t \in TxID, job[w].tx = t PROVE AuditInv'
  BY <1>2
<1>3. minted' = minted /\ Mints
  BY DEF End, Mints
<1>4. FaultStep /\ Answer(w, "answeredError") /\ (EndTransitionProcess(t) \/ UNCHANGED vars)
  BY DEF End, Response, FaultStep, FaultKind
<1>5. CASE EndTransitionProcess(t)
  <2>1. \A u \in TxID : Quiet(u) /\ (u # t => tx'[u] = tx[u])
    BY <1>1, <1>5, EndIsQuiet
  <2>2. TypeOK'
    BY <1>1, <1>5, TypeInductive DEF Next
  <2>3. AuditsOK'
    BY <1>1, <1>3, <1>5, <2>1, QuietStep DEF AuditInv, EndTransitionProcess
  <2>4. OthersKept(w)
    BY <1>1, <2>1, WorkingJobs DEF OthersKept, AuditInv, Exclusive
  <2>5. QED
    BY <1>3, <1>4, <2>2, <2>3, <2>4, AnswerStep DEF Resting
<1>6. CASE UNCHANGED vars
  <2>1. TypeOK' /\ AuditsOK' /\ OthersKept(w)
    BY <1>3, <1>6, ChaincodesKept DEF OthersKept
  <2>2. QED
    BY <1>3, <1>4, <2>1, AnswerStep DEF Resting
<1>7. QED
  BY <1>4, <1>5, <1>6
-----------------------------------------------------------------------------
\* Before the first request there is nothing to be wrong about.
LEMMA AuditInvInit == ServiceInit => AuditInv
<1> SUFFICES ASSUME ServiceInit PROVE AuditInv
  OBVIOUS
<1>1. /\ tx = [t \in TxID |-> None] /\ lock = [r \in Record |-> None]
      /\ tokenId = [r \in Record |-> Absent] /\ lockIndex = {}
      /\ pc = [w \in Worker |-> "idle"] /\ job = [w \in Worker |-> None]
      /\ minted = <<>> /\ faults = 0
  BY DEF ServiceInit, Init, EmissionsInit
<1>2. ServiceTypeOK
  <2>1. TypeOK
    BY <1>1 DEF TypeOK, EmissionsTypeOK, TokenField
  <2>2. 0 \in 0 .. MaxFaults
    BY FaultsAssumption
  <2>3. QED
    BY <1>1, <2>1, <2>2 DEF ServiceTypeOK, Resting
<1>3. ASSUME NEW t \in TxID
      PROVE  StageOf(t) = "" /\ ~HasValid(t) /\ Valid(t) = {} /\ ~Finished(t)
  BY <1>1 DEF StageOf, HasValid, Valid, Finished, InState
<1>4. AuditsOK
  <2>1. \A t \in TxID : TxOK(t)
    BY <1>3 DEF TxOK
  <2>2. LocksMatchStages /\ LockedIsUnaudited /\ TrailOK
    BY <1>1, <1>3, NoneAssumption, FieldAssumption
       DEF LocksMatchStages, LockedIsUnaudited, TrailOK, Finished
  <2>3. ValidDisjoint
    BY <1>3 DEF ValidDisjoint
  <2>4. DOMAIN minted = {}
    BY <1>1
  <2>5. MintsOK
    BY <2>4 DEF MintsOK
  <2>6. QED
    BY <2>1, <2>2, <2>3, <2>5 DEF AuditsOK
<1>5. \A w \in Worker : pc[w] \in Resting /\ pc[w] \notin Working
  BY <1>1 DEF Resting, Working
<1>6. (\A w \in Worker : RequestOK(w)) /\ Exclusive
  BY <1>5 DEF RequestOK, Exclusive
<1>7. QED
  BY <1>2, <1>4, <1>6 DEF AuditInv

\* Every step of the service keeps the invariant.
LEMMA AuditInvInductive == AuditInv /\ [ServiceNext]_allVars => AuditInv'
<1> SUFFICES ASSUME AuditInv, [ServiceNext]_allVars PROVE AuditInv'
  OBVIOUS
<1>1. ASSUME NEW w \in Worker, Step(w) PROVE AuditInv'
  BY <1>1, StartKeeps, LockKeeps, ReadKeeps, MintKeeps, StoreKeeps, UpdateKeeps, EndKeeps
     DEF Step
<1>2. CASE UNCHANGED allVars
  <2>1. /\ UNCHANGED vars /\ Mints
        /\ pc' = pc /\ job' = job /\ minted' = minted /\ faults' = faults
    BY <1>2 DEF allVars, serviceVars, Mints
  <2>2. TypeOK' /\ AuditsOK' /\ \A u : tx'[u] = tx[u]
    BY <2>1, ChaincodesKept
  <2>3. \A v \in Worker : RequestOK(v)'
    BY <2>1, <2>2, OtherRequest
  <2>4. ServiceTypeOK' /\ Exclusive'
    BY <2>1, <2>2 DEF AuditInv, ServiceTypeOK, Exclusive
  <2>5. QED
    BY <2>2, <2>3, <2>4 DEF AuditInv
<1>3. QED
  BY <1>1, <1>2, SubmitKeeps, CrashKeeps, NewRecordKeeps DEF ServiceNext

\* So the invariant always holds.
LEMMA AuditInvariant == ServiceSpec => []AuditInv
  BY AuditInvInit, AuditInvInductive, PTL DEF ServiceSpec

\* The service and the ledger always have their types.
THEOREM ServiceTypeCorrect == ServiceSpec => []ServiceTypeOK
<1>1. AuditInv => ServiceTypeOK
  BY DEF AuditInv
<1>2. QED
  BY <1>1, AuditInvariant, PTL

\* An audit holds the locks of exactly the records it found valid until it finishes,
\* whatever crashes, fails or is retried, for any number of requests.
THEOREM LocksFollowStages == ServiceSpec => []LocksMatchStages
<1>1. AuditInv => LocksMatchStages
  BY DEF AuditInv, AuditsOK
<1>2. QED
  BY <1>1, AuditInvariant, PTL

\* While a record is locked its token is not written.
THEOREM LockedStaysUnaudited == ServiceSpec => []LockedIsUnaudited
<1>1. AuditInv => LockedIsUnaudited
  BY DEF AuditInv, AuditsOK
<1>2. QED
  BY <1>1, AuditInvariant, PTL

\* Between start and end a transaction is in the hands of one request, whose copy of the
\* stage data is what is stored.
THEOREM RequestsExclusive == ServiceSpec => []OneRequestPerAudit
<1>1. AuditInv => OneRequestPerAudit
  <2> SUFFICES ASSUME AuditInv, NEW w \in Worker, pc[w] \in Working
               PROVE
               /\ \A v \in Worker \ {w} : pc[v] \in Working => job[v].tx # job[w].tx
               /\ InState(job[w].tx, "PROCESSING")
                    \/ (pc[w] = "end" /\ InState(job[w].tx, "FINISHED"))
               /\ pc[w] \in {"read", "mint", "store", "update"} => job[w].valid = Valid(job[w].tx)
               /\ pc[w] = "update" => job[w].token = StoredToken(job[w].tx)
    BY DEF OneRequestPerAudit
  <2>1. RequestOK(w) /\ Exclusive
    BY DEF AuditInv
  <2>2. QED
    BY <2>1 DEF RequestOK, Exclusive, Finished
<1>2. QED
  BY <1>1, AuditInvariant, PTL

\* From the token of a record the trail leads to the finished audit that locked it, and to
\* the token issued for this audit, whose manifest lists the record.
THEOREM TrailsLead == ServiceSpec => []AuditTrail
<1>1. AuditInv => AuditTrail
  <2> SUFFICES ASSUME AuditInv, NEW r \in Record, NEW k \in Token, tokenId[r] = k
               PROVE  /\ k <= Len(minted) /\ r \in minted[k].records
                      /\ InState(minted[k].tx, "FINISHED") /\ StoredToken(minted[k].tx) = k
    BY DEF AuditTrail
  <2>1. PICK t \in TxID : Finished(t) /\ r \in Valid(t) /\ k = StoredToken(t)
    BY DEF AuditInv, AuditsOK, TrailOK
  <2>2. k \in DOMAIN minted /\ minted[k].tx = t
    BY <2>1 DEF AuditInv, AuditsOK, TxOK
  <2>3. minted[k].records = Valid(t)
    BY <2>2 DEF AuditInv, AuditsOK, MintsOK
  <2>4. k <= Len(minted)
    BY <2>2 DEF AuditInv, ServiceTypeOK
  <2>5. QED
    BY <2>1, <2>2, <2>3, <2>4 DEF Finished
<1>2. QED
  BY <1>1, AuditInvariant, PTL

\* A finished audit locked one record at least, and all that it locked carry its token.
THEOREM FinishedAuditsComplete == ServiceSpec => []FinishedIsRecorded
<1>1. AuditInv => FinishedIsRecorded
  BY DEF AuditInv, AuditsOK, TxOK, FinishedIsRecorded, Finished
<1>2. QED
  BY <1>1, AuditInvariant, PTL

\* A record is found valid by one audit only, and what is minted is what was found.
LEMMA MintsApart == ASSUME AuditInv PROVE NoSharedMint
<1> SUFFICES ASSUME NEW i \in DOMAIN minted, NEW j \in DOMAIN minted,
                    minted[i].records \cap minted[j].records # {}
             PROVE  minted[i].tx = minted[j].tx
  BY DEF NoSharedMint
<1>1. minted[i].tx \in TxID /\ minted[j].tx \in TxID
  BY AuditFacts DEF AuditInv
<1>2. /\ minted[i].records = Valid(minted[i].tx)
      /\ minted[j].records = Valid(minted[j].tx)
  BY DEF AuditInv, AuditsOK, MintsOK
<1> QED BY <1>1, <1>2 DEF AuditInv, AuditsOK, ValidDisjoint

\* Two audits never mint for the same record.
THEOREM MintsDisjoint == ServiceSpec => []NoSharedMint
  BY MintsApart, AuditInvariant, PTL

-----------------------------------------------------------------------------
(* No token gets lost but by a fault. *)

InHand(k) == \E w \in Worker : pc[w] = "store" /\ job[w].token = k
Stored(k) == \E t \in TxID : StoredToken(t) = k
Lost == {k \in DOMAIN minted : ~InHand(k) /\ ~Stored(k)}

\* A token is stored once: only the stage that stores it has one, and what follows.
StoresOK ==
  /\ DOMAIN minted \subseteq Token
  /\ \A t \in TxID :
       StoredToken(t) # None => StageOf(t) \in {"StoreMintedToken", "MintedTokenUpdate"}

StoresStay == \A t \in TxID : StoredToken(t)' = StoredToken(t) \/ StoredToken(t) = None

\* A step that is quiet on every audit stores nothing.
LEMMA QuietStores ==
  ASSUME StoresOK, \A u \in TxID : Quiet(u), DOMAIN minted' \subseteq Token
  PROVE  StoresOK' /\ StoresStay
  BY DEF StoresOK, StoresStay, Quiet

\* A stage that commits stores a token if it is the second one, and the audit had none.
LEMMA StageStores ==
  ASSUME AuditInv, StoresOK, minted' = minted, NEW w \in Worker, NEW j \in Job, job[w] = j,
         \/ pc[w] = "lock" /\ StageUpdate(LockInput(j))
         \/ pc[w] = "store" /\ StageUpdate(StoreInput(j))
         \/ pc[w] = "update" /\ StageUpdate(UpdateInput(j))
  PROVE  StoresOK' /\ StoresStay /\ (pc[w] = "store" => StoredToken(j.tx)' = j.token)
<1>1. TypeOK /\ j.tx \in TxID /\ RequestOK(w) /\ TxOK(j.tx)
  BY DEF AuditInv, ServiceTypeOK, AuditsOK, Job
<1>2. \A u \in TxID \ {j.tx} : Quiet(u) => StoredToken(u)' = StoredToken(u) /\ StageOf(u)' = StageOf(u)
  BY DEF Quiet
<1>3. /\ {"lock", "store", "update"} \cap Resting = {} /\ {"lock", "store", "update"} \subseteq Working
  BY DEF Resting, Working
<1>4. InState(j.tx, "PROCESSING") => tx[j.tx] \in Transaction /\ tx[j.tx] # None
  BY <1>1 DEF TypeOK, InState
<1>5. InState(j.tx, "PROCESSING") => tx[j.tx].data \in [Stage -> StageData \cup {None}]
  BY <1>4 DEF Transaction
<1>6. InState(j.tx, "PROCESSING") =>
        StoredToken(j.tx) = IF tx[j.tx].data["StoreMintedToken"] = None THEN None
                            ELSE tx[j.tx].data["StoreMintedToken"].storage
  BY <1>4 DEF StoredToken
<1>7. CASE pc[w] = "lock" /\ StageUpdate(LockInput(j))
  <2> DEFINE V == GetValidEmissions(j.records)
             data == [tx[j.tx].data EXCEPT !["GetValidEmissions"] = [storage |-> None, output |-> V]]
  <2>1. InState(j.tx, "PROCESSING") /\ Written(j, "GetValidEmissions", "PROCESSING", data) /\ V \subseteq Record
    BY <1>1, <1>7, LockEffect
  <2>2. data \in [Stage -> StageData \cup {None}]
    <3>1. [storage |-> None, output |-> V] \in StageData
      BY <2>1 DEF StageData
    <3> QED BY <1>5, <2>1, <3>1, StageNames
  <2>3. data["StoreMintedToken"] = tx[j.tx].data["StoreMintedToken"]
    BY <1>5, <2>1, StageNames
  <2> HIDE DEF data
  <2>4. StoredToken(j.tx)' = StoredToken(j.tx) /\ \A u \in TxID \ {j.tx} : Quiet(u)
    BY <1>1, <1>6, <2>1, <2>2, <2>3, StageNames, WrittenSummary DEF TxState
  <2>5. StageOf(j.tx) = "" /\ StoredToken(j.tx) = None
    BY <1>1, <1>3, <1>7 DEF RequestOK, StoresOK
  <2> QED BY <1>2, <1>7, <2>4, <2>5 DEF StoresOK, StoresStay
<1>8. CASE pc[w] = "store" /\ StageUpdate(StoreInput(j))
  <2> DEFINE entry == [storage |-> j.token, output |-> None]
             data == [tx[j.tx].data EXCEPT !["StoreMintedToken"] = entry]
  <2>1. j.token \in Token /\ StageOf(j.tx) = "GetValidEmissions"
    BY <1>1, <1>3, <1>8 DEF RequestOK
  <2>2. InState(j.tx, "PROCESSING") /\ Written(j, "StoreMintedToken", "PROCESSING", data)
    BY <1>1, <1>8, <2>1, StoreEffect
  <2>3. entry \in StageData /\ entry # None
    BY <2>1, NoneAssumption DEF StageData
  <2>4. data \in [Stage -> StageData \cup {None}] /\ data["StoreMintedToken"] = entry
    <3> HIDE DEF entry
    <3> QED BY <1>5, <2>2, <2>3, StageNames
  <2> HIDE DEF data
  <2>5. StoredToken(j.tx)' = j.token /\ \A u \in TxID \ {j.tx} : Quiet(u)
    BY <1>1, <2>2, <2>3, <2>4, StageNames, WrittenSummary DEF TxState
  <2>6. StageOf(j.tx)' = "StoreMintedToken"
    BY <1>1, <2>2, <2>4, StageNames, WrittenSummary DEF TxState
  <2>7. StoredToken(j.tx) = None
    BY <1>1, <2>1 DEF StoresOK
  <2> QED BY <1>2, <2>5, <2>6, <2>7 DEF StoresOK, StoresStay
<1>9. CASE pc[w] = "update" /\ StageUpdate(UpdateInput(j))
  <2>1. j.valid \in SUBSET Record /\ j.token \in Token
    BY <1>1, <1>3, <1>9 DEF RequestOK, TxOK
  <2>2. InState(j.tx, "PROCESSING") /\ Written(j, "MintedTokenUpdate", "FINISHED", tx[j.tx].data)
    BY <1>1, <1>9, <2>1, UpdateEffect
  <2>3. StoredToken(j.tx)' = StoredToken(j.tx) /\ \A u \in TxID \ {j.tx} : Quiet(u)
    BY <1>1, <1>5, <1>6, <2>2, StageNames, WrittenSummary DEF TxState
  <2>4. StageOf(j.tx)' = "MintedTokenUpdate"
    BY <1>1, <1>5, <2>2, StageNames, WrittenSummary DEF TxState
  <2> QED BY <1>2, <1>9, <2>3, <2>4 DEF StoresOK, StoresStay
<1> QED BY <1>7, <1>8, <1>9

\* A stored token stays stored.
LEMMA StoredStays ==
  ASSUME StoresOK, StoresStay, NEW k \in DOMAIN minted, Stored(k)
  PROVE  Stored(k)'
  BY NoneAssumption DEF StoresOK, StoresStay, Stored

OthersSame(w) == \A v \in Worker \ {w} : pc'[v] = pc[v] /\ job'[v] = job[v]

LosesNone == faults' >= faults /\ Lost' \subseteq Lost
LosesOne == faults' = faults + 1 /\ \E k : Lost' \subseteq Lost \cup {k}

\* A request that has no token in hand loses none.
LEMMA NothingInHand ==
  ASSUME ServiceTypeOK, StoresOK, StoresStay, minted' = minted, FaultStep,
         NEW w \in Worker, OthersSame(w), pc[w] # "store"
  PROVE  LosesNone
<1>1. \A k : InHand(k) => InHand(k)'
  BY DEF InHand, OthersSame
<1>2. Lost' \subseteq Lost
  BY <1>1, StoredStays DEF Lost
<1>3. faults' >= faults
  BY FaultsAssumption DEF ServiceTypeOK, FaultStep, Fault
<1> QED BY <1>2, <1>3 DEF LosesNone

\* A request that has a token in hand loses that at the most.
LEMMA OneInHand ==
  ASSUME StoresOK, StoresStay, minted' = minted, NEW w \in Worker, OthersSame(w)
  PROVE  Lost' \subseteq Lost \cup {job[w].token}
<1>1. \A k : InHand(k) /\ k # job[w].token => InHand(k)'
  BY DEF InHand, OthersSame
<1> QED BY <1>1, StoredStays DEF Lost

\* Every step of a request: what it does to the requests beside it.
LEMMA StepOthers ==
  ASSUME ServiceTypeOK, NEW w \in Worker,
         \/ Step(w) \/ Crash(w)
         \/ \E t \in TxID, records \in Batch : Submit(w, t, records)
  PROVE  OthersSame(w)
<1>1. pc \in [Worker -> Label] /\ job \in [Worker -> Job \cup {None}]
  BY DEF ServiceTypeOK, Label
<1>2. ASSUME NEW label, Goto(w, label) PROVE \A v \in Worker \ {w} : pc'[v] = pc[v]
  BY <1>1, <1>2 DEF Goto
<1>3. ASSUME NEW j, job' = [job EXCEPT ![w] = j] PROVE \A v \in Worker \ {w} : job'[v] = job[v]
  BY <1>1, <1>3
<1>4. (\E label : Goto(w, label)) /\ (job' = job \/ \E j : job' = [job EXCEPT ![w] = j])
  <2>1. ASSUME NEW in, NEW label, NEW next, CallStageUpdate(w, in, label, next)
        PROVE  (\E l : Goto(w, l)) /\ \E j : job' = [job EXCEPT ![w] = j]
    BY <2>1 DEF CallStageUpdate, Fail
  <2>2. CASE Crash(w)
    BY <2>2 DEF Crash, Answer
  <2>3. CASE \E t \in TxID, records \in Batch : Submit(w, t, records)
    BY <2>3 DEF Submit
  <2>4. CASE Start(w)
    BY <2>4 DEF Start, Answer
  <2>5. CASE LockRecords(w) \/ StoreToken(w) \/ UpdateRecords(w)
    BY <2>1, <2>5 DEF LockRecords, StoreToken, UpdateRecords
  <2>6. CASE ReadRecords(w)
    BY <2>6 DEF ReadRecords, Fail
  <2>7. CASE MintToken(w)
    BY <2>7 DEF MintToken, Fail
  <2>8. CASE End(w)
    BY <2>8 DEF End, Answer
  <2> QED BY <2>2, <2>3, <2>4, <2>5, <2>6, <2>7, <2>8 DEF Step
<1> QED BY <1>2, <1>3, <1>4 DEF OthersSame

\* Steps that leave the chaincodes alone.
LEMMA ChaincodesQuiet ==
  ASSUME StoresOK, tx' = tx, DOMAIN minted' \subseteq Token
  PROVE  StoresOK' /\ StoresStay
  BY SameTxIsQuiet, QuietStores

\* The second stage is never refused: the transaction is being processed, and no lock is
\* asked for or given back.
LEMMA StoreSucceeds ==
  ASSUME AuditInv, NEW w \in Worker, pc[w] = "store"
  PROVE  StageUpdateSucceeds(StoreInput(job[w]))
<1>1. InState(job[w].tx, "PROCESSING")
  BY DEF AuditInv, RequestOK, Working
<1> QED BY <1>1 DEF StageUpdateSucceeds, StoreInput, LockSucceeds, UnlockSucceeds

\* A step that stores a token takes it out of the request's hand and into the audit's, or
\* loses it by a fault.
LEMMA StoreLoses ==
  ASSUME AuditInv, StoresOK, NEW w \in Worker, StoreToken(w)
  PROVE  StoresOK' /\ (LosesNone \/ LosesOne)
<1>1. /\ ServiceTypeOK /\ OthersSame(w) /\ pc[w] = "store" /\ minted' = minted
      /\ job[w] \in Job /\ pc[w] \in Working
  BY StepOthers, WorkingJobs DEF AuditInv, Step, StoreToken, CallStageUpdate, Working
<1>2. faults \in Nat
  BY <1>1 DEF ServiceTypeOK
<1> SUFFICES ASSUME NEW j \in Job, job[w] = j PROVE StoresOK' /\ (LosesNone \/ LosesOne)
  BY <1>1
<1>3. CASE StageUpdate(StoreInput(j))
  <2>1. StoresOK' /\ StoresStay /\ StoredToken(j.tx)' = j.token /\ j.tx \in TxID
    BY <1>1, <1>3, StageStores DEF Job
  <2>2. Lost' \subseteq Lost \cup {j.token}
    BY <1>1, <2>1, OneInHand
  <2>3. Stored(j.token)'
    BY <2>1 DEF Stored
  <2>4. InHand(j.token)
    BY <1>1 DEF InHand
  <2>5. Lost' \subseteq Lost
    BY <2>2, <2>3 DEF Lost
  <2>6. faults' >= faults
    BY <1>2 DEF StoreToken, CallStageUpdate, Fault
  <2> QED BY <2>1, <2>5, <2>6 DEF LosesNone
<1>4. CASE Fault("stageFails") /\ UNCHANGED vars
  <2>1. StoresOK' /\ StoresStay
    BY <1>1, <1>4, ChaincodesQuiet DEF StoresOK, vars
  <2>2. Lost' \subseteq Lost \cup {j.token}
    BY <1>1, <2>1, OneInHand
  <2> QED BY <1>4, <2>1, <2>2 DEF LosesOne, Fault
<1>5. StageUpdateSucceeds(StoreInput(j))
  BY <1>1, StoreSucceeds
<1> QED BY <1>3, <1>4, <1>5 DEF StoreToken, CallStageUpdate

\* A mint puts the token into the request's hand, or loses it by a fault.
LEMMA MintLoses ==
  ASSUME AuditInv, StoresOK, NEW w \in Worker, MintToken(w)
  PROVE  StoresOK' /\ (LosesNone \/ LosesOne)
<1>1. /\ ServiceTypeOK /\ OthersSame(w) /\ pc[w] = "mint" /\ tx' = tx
      /\ job[w] \in Job /\ faults \in Nat /\ job \in [Worker -> Job \cup {None}]
  <2>1. ServiceTypeOK /\ faults \in Nat /\ job \in [Worker -> Job \cup {None}]
    BY DEF AuditInv, ServiceTypeOK
  <2>2. pc[w] = "mint" /\ tx' = tx
    BY DEF MintToken, vars, dlVars
  <2>3. OthersSame(w)
    BY <2>1, StepOthers DEF Step
  <2>4. job[w] \in Job
    BY <2>2, WorkingJobs DEF Working
  <2> QED BY <2>1, <2>2, <2>3, <2>4
<1>2. minted \in Seq([tx : TxID, records : SUBSET Record]) /\ NewToken \in Token
  BY <1>1 DEF ServiceTypeOK, MintToken, NewToken
<1>3. DOMAIN minted' \subseteq DOMAIN minted \cup {NewToken}
  <2>1. minted' = Append(minted, [tx |-> job[w].tx, records |-> job[w].valid]) \/ minted' = minted
    BY DEF MintToken
  <2> QED BY <1>2, <2>1 DEF NewToken
<1>4. StoresOK' /\ StoresStay
  BY <1>1, <1>2, <1>3, ChaincodesQuiet DEF StoresOK
<1>5. \A k : InHand(k) => InHand(k)'
  BY <1>1 DEF InHand, OthersSame
<1>6. Lost' \subseteq Lost \cup {NewToken}
  BY <1>3, <1>4, <1>5, StoredStays DEF Lost
<1>7. CASE /\ UNCHANGED faults /\ Goto(w, "store")
           /\ job' = [job EXCEPT ![w].token = NewToken]
  <2>1. pc'[w] = "store" /\ job'[w].token = NewToken
    BY <1>1, <1>7 DEF Goto, ServiceTypeOK, Job
  <2>2. \A k : k = NewToken => InHand(k)'
    BY <2>1 DEF InHand
  <2>3. Lost' \subseteq Lost
    BY <1>6, <2>2 DEF Lost
  <2> QED BY <1>1, <1>4, <1>7, <2>3 DEF LosesNone
<1>8. CASE \E kind : Fault(kind)
  BY <1>4, <1>6, <1>8 DEF LosesOne, Fault
<1> QED BY <1>7, <1>8 DEF MintToken

\* The other steps of a request.
LEMMA OtherLoses ==
  ASSUME AuditInv, StoresOK, NEW w \in Worker,
         Start(w) \/ LockRecords(w) \/ ReadRecords(w) \/ UpdateRecords(w) \/ End(w)
  PROVE  StoresOK' /\ LosesNone
<1>1. /\ ServiceTypeOK /\ TypeOK /\ OthersSame(w) /\ pc[w] # "store" /\ minted' = minted
  BY StepOthers
     DEF AuditInv, ServiceTypeOK, Step, Start, LockRecords, ReadRecords, UpdateRecords, End,
         CallStageUpdate
<1>2. DOMAIN minted' \subseteq Token
  BY <1>1 DEF StoresOK
<1>3. FaultStep
  BY DEF FaultStep, FaultKind, Start, LockRecords, ReadRecords, UpdateRecords, End,
         CallStageUpdate
<1>4. pc[w] \notin Resting => job[w] \in Job
  BY DEF AuditInv, RequestOK
<1>5. job[w] \in Job
  BY <1>4 DEF Start, LockRecords, ReadRecords, UpdateRecords, End, Resting
<1>6. job[w].tx \in TxID
  BY <1>5 DEF Job
<1>7. StoresOK' /\ StoresStay
  <2>1. CASE UNCHANGED vars
    BY <1>2, <2>1, ChaincodesQuiet DEF vars, dlVars
  <2>2. CASE StartTransitionProcess(job[w].tx)
    BY <1>1, <1>2, <1>6, <2>2, StartIsQuiet, QuietStores
  <2>3. CASE EndTransitionProcess(job[w].tx)
    BY <1>1, <1>2, <1>6, <2>3, EndIsQuiet, QuietStores
  <2>4. CASE LockRecords(w) /\ StageUpdate(LockInput(job[w]))
    BY <1>1, <1>5, <2>4, StageStores DEF LockRecords
  <2>5. CASE UpdateRecords(w) /\ StageUpdate(UpdateInput(job[w]))
    BY <1>1, <1>5, <2>5, StageStores DEF UpdateRecords
  <2> QED
    BY <2>1, <2>2, <2>3, <2>4, <2>5
       DEF Start, LockRecords, ReadRecords, UpdateRecords, End, CallStageUpdate
<1> QED BY <1>1, <1>3, <1>7, NothingInHand

\* Every step of the service loses a token by a fault, one, or none.
LEMMA StepLoses ==
  ASSUME AuditInv, StoresOK, [ServiceNext]_allVars
  PROVE  StoresOK' /\ (LosesNone \/ LosesOne)
<1>1. ServiceTypeOK /\ faults \in Nat
  BY DEF AuditInv, ServiceTypeOK
<1>2. ASSUME NEW w \in Worker, NEW t \in TxID, NEW records \in Batch, Submit(w, t, records)
      PROVE  StoresOK' /\ LosesNone
  <2>1. /\ OthersSame(w) /\ pc[w] # "store" /\ minted' = minted /\ FaultStep /\ tx' = tx
    BY <1>1, <1>2, StepOthers DEF Submit, FaultStep, vars, dlVars, Resting
  <2>2. StoresOK' /\ StoresStay
    BY <2>1, ChaincodesQuiet DEF StoresOK
  <2> QED BY <1>1, <2>1, <2>2, NothingInHand
<1>3. ASSUME NEW w \in Worker, Crash(w)
      PROVE  StoresOK' /\ LosesOne
  <2>1. OthersSame(w) /\ minted' = minted /\ faults' = faults + 1 /\ tx' = tx
    BY <1>1, <1>3, StepOthers DEF Crash, Fault, vars, dlVars
  <2>2. StoresOK' /\ StoresStay
    BY <2>1, ChaincodesQuiet DEF StoresOK
  <2>3. Lost' \subseteq Lost \cup {job[w].token}
    BY <2>1, <2>2, OneInHand
  <2> QED BY <2>1, <2>2, <2>3 DEF LosesOne
<1>4. ASSUME tx' = tx, pc' = pc, job' = job, minted' = minted, faults' = faults
      PROVE  StoresOK' /\ LosesNone
  <2>1. StoresOK' /\ StoresStay
    BY <1>4, ChaincodesQuiet DEF StoresOK
  <2>2. \A k : InHand(k) => InHand(k)'
    BY <1>4 DEF InHand
  <2> QED BY <1>1, <1>4, <2>1, <2>2, StoredStays DEF LosesNone, Lost
<1>5. ASSUME NEW r \in Record, NewRecord(r) PROVE StoresOK' /\ LosesNone
  BY <1>4, <1>5 DEF NewRecord, dlVars, serviceVars
<1>6. CASE UNCHANGED allVars
  BY <1>4, <1>6 DEF allVars, vars, dlVars, serviceVars
<1>7. ASSUME NEW w \in Worker, Step(w) PROVE StoresOK' /\ (LosesNone \/ LosesOne)
  BY <1>7, StoreLoses, MintLoses, OtherLoses DEF Step
<1> QED BY <1>2, <1>3, <1>5, <1>6, <1>7 DEF ServiceNext

AccountInv == StoresOK /\ Cardinality(Lost) <= faults

\* The lost tokens are among the finitely many issued.
LEMMA LostFinite ==
  ASSUME NEW S, minted \in Seq(S)
  PROVE  IsFiniteSet(Lost) /\ Cardinality(Lost) \in Nat
<1>1. Len(minted) \in Nat /\ Lost \subseteq 1 .. Len(minted)
  BY DEF Lost
<1>2. IsFiniteSet(1 .. Len(minted))
  BY <1>1, FS_Interval
<1>3. IsFiniteSet(Lost)
  BY <1>1, <1>2, FS_Subset
<1> QED BY <1>3, FS_CardinalityType

\* A set with one element more.
LEMMA OneMore ==
  ASSUME NEW s, IsFiniteSet(s), NEW k
  PROVE  /\ IsFiniteSet(s \cup {k}) /\ Cardinality(s \cup {k}) \in Nat
         /\ Cardinality(s \cup {k}) <= Cardinality(s) + 1
<1>1. Cardinality(s) \in Nat
  BY FS_CardinalityType
<1>2. /\ IsFiniteSet(s \cup {k})
      /\ Cardinality(s \cup {k}) = Cardinality(s) \/ Cardinality(s \cup {k}) = Cardinality(s) + 1
  BY FS_AddElement
<1> QED BY <1>1, <1>2

\* So the tokens lost are no more than the faults.
LEMMA AccountStep ==
  ASSUME AuditInv, AccountInv, [ServiceNext]_allVars
  PROVE  AccountInv'
<1>1. minted \in Seq([tx : TxID, records : SUBSET Record]) /\ faults \in Nat
  BY DEF AuditInv, ServiceTypeOK
<1>2. IsFiniteSet(Lost) /\ Cardinality(Lost) \in Nat
  BY <1>1, LostFinite
<1>3. StoresOK' /\ (LosesNone \/ LosesOne)
  BY StepLoses DEF AccountInv
<1>4. CASE LosesNone
  <2>1. IsFiniteSet(Lost') /\ Cardinality(Lost') \in Nat /\ Cardinality(Lost') <= Cardinality(Lost)
    BY <1>2, <1>4, FS_Subset, FS_CardinalityType DEF LosesNone
  <2>2. AuditInv' /\ faults' \in Nat
    BY AuditInvInductive DEF AuditInv, ServiceTypeOK
  <2> QED BY <1>1, <1>2, <1>3, <1>4, <2>1, <2>2 DEF LosesNone, AccountInv
<1>5. CASE LosesOne
  <2>1. PICK k : Lost' \subseteq Lost \cup {k}
    BY <1>5 DEF LosesOne
  <2>2. /\ IsFiniteSet(Lost \cup {k}) /\ Cardinality(Lost \cup {k}) \in Nat
        /\ Cardinality(Lost \cup {k}) <= Cardinality(Lost) + 1
    <3>1. PICK s : s = Lost
      OBVIOUS
    <3>2. IsFiniteSet(s)
      BY <1>2, <3>1
    <3> QED BY ONLY <3>1, <3>2, OneMore
  <2>3. Cardinality(Lost') \in Nat /\ Cardinality(Lost') <= Cardinality(Lost \cup {k})
    BY <2>1, <2>2, FS_Subset, FS_CardinalityType
  <2>4. faults' = faults + 1
    BY <1>5 DEF LosesOne
  <2> QED BY <1>1, <1>2, <1>3, <2>2, <2>3, <2>4 DEF AccountInv
<1> QED BY <1>3, <1>4, <1>5

\* AccountInv is an invariant of the service.
LEMMA AccountInvariant == ServiceSpec => []AccountInv
<1>1. ServiceInit => AccountInv
  <2> SUFFICES ASSUME ServiceInit PROVE AccountInv
    OBVIOUS
  <2>1. minted = <<>> /\ faults = 0 /\ \A t \in TxID : tx[t] = None
    BY DEF ServiceInit, Init
  <2>2. StoresOK
    BY <2>1 DEF StoresOK, StoredToken
  <2>3. Lost = {}
    BY <2>1 DEF Lost
  <2> QED BY <2>1, <2>2, <2>3, FS_EmptySet DEF AccountInv
<1>2. AuditInv /\ AccountInv /\ [ServiceNext]_allVars => AccountInv'
  BY AccountStep
<1> QED BY <1>1, <1>2, AuditInvariant, PTL DEF ServiceSpec

\* Every token issued is in the hand of the request that minted it or stored with its audit,
\* but for one per fault at the most; for any number of requests, audits and faults.
THEOREM TokensAccounted == ServiceSpec => []TokensAccountedFor
<1>1. AccountInv => TokensAccountedFor
  BY DEF AccountInv, Lost, InHand, Stored, TokensAccountedFor
<1> QED BY <1>1, AccountInvariant, PTL

-----------------------------------------------------------------------------
(* How many tokens an audit costs. *)

\* A token that is not lost is the stored one of its audit, or in the hand of the request that
\* has the audit, which then has none stored.
LEMMA HeldTokens ==
  ASSUME AuditInv, StoresOK, NEW k \in DOMAIN minted, k \notin Lost, NEW t, t = minted[k].tx
  PROVE  \/ t \in TxID /\ StoredToken(t) = k /\ StageOf(t) # "GetValidEmissions"
         \/ \E w \in Worker : /\ pc[w] = "store" /\ job[w].tx = t /\ job[w].token = k
                              /\ StageOf(t) = "GetValidEmissions"
<1>1. CASE Stored(k)
  <2>1. PICK u \in TxID : StoredToken(u) = k
    BY <1>1 DEF Stored
  <2>2. k # None
    BY NoneAssumption DEF StoresOK
  <2>3. StageOf(u) \in {"StoreMintedToken", "MintedTokenUpdate"}
    BY <2>1, <2>2 DEF StoresOK
  <2>4. minted[k].tx = u
    BY <2>1, <2>3 DEF AuditInv, AuditsOK, TxOK
  <2> QED BY <2>1, <2>3, <2>4
<1>2. CASE InHand(k)
  <2>1. PICK w \in Worker : pc[w] = "store" /\ job[w].token = k
    BY <1>2 DEF InHand
  <2>2. RequestOK(w) /\ pc[w] \in Working
    BY <2>1 DEF AuditInv, Working
  <2>3. minted[k].tx = job[w].tx /\ StageOf(job[w].tx) = "GetValidEmissions"
    BY <2>1, <2>2 DEF RequestOK
  <2> QED BY <2>1, <2>3
<1> QED BY <1>1, <1>2 DEF Lost

\* So an audit has one token at the most that is not lost.
LEMMA OneHeld ==
  ASSUME AuditInv, StoresOK, NEW i \in DOMAIN minted, NEW j \in DOMAIN minted,
         i \notin Lost, j \notin Lost, minted[i].tx = minted[j].tx
  PROVE  i = j
<1>1. PICK t : t = minted[i].tx /\ t = minted[j].tx
  OBVIOUS
<1>2. \/ StoredToken(t) = i /\ StageOf(t) # "GetValidEmissions"
      \/ \E w \in Worker : /\ pc[w] = "store" /\ job[w].tx = t /\ job[w].token = i
                           /\ StageOf(t) = "GetValidEmissions"
  BY <1>1, HeldTokens
<1>3. \/ StoredToken(t) = j /\ StageOf(t) # "GetValidEmissions"
      \/ \E w \in Worker : /\ pc[w] = "store" /\ job[w].tx = t /\ job[w].token = j
                           /\ StageOf(t) = "GetValidEmissions"
  BY <1>1, HeldTokens
<1>4. ASSUME NEW v \in Worker, NEW w \in Worker, pc[v] = "store", pc[w] = "store", job[v].tx = job[w].tx
      PROVE  v = w
  BY <1>4 DEF AuditInv, Exclusive, Working
<1> QED BY <1>2, <1>3, <1>4

TokensOf(t) == {k \in DOMAIN minted : minted[k].tx = t}
SurplusExplained == \A t \in TxID : Cardinality(TokensOf(t)) <= 1 + faults

\* All but one of an audit's tokens are lost ones.
LEMMA SurplusIsLost ==
  ASSUME AuditInv, AccountInv, NEW t \in TxID
  PROVE  Cardinality(TokensOf(t)) <= 1 + faults
<1>1. minted \in Seq([tx : TxID, records : SUBSET Record]) /\ faults \in Nat /\ StoresOK
  BY DEF AuditInv, ServiceTypeOK, AccountInv
<1>2. IsFiniteSet(Lost) /\ Cardinality(Lost) \in Nat /\ Cardinality(Lost) <= faults
  BY <1>1, LostFinite DEF AccountInv
<1>3. PICK k : TokensOf(t) \subseteq Lost \cup {k}
  <2>1. CASE TokensOf(t) \subseteq Lost
    BY <2>1
  <2>2. CASE ~(TokensOf(t) \subseteq Lost)
    <3>1. PICK k \in TokensOf(t) : k \notin Lost
      BY <2>2
    <3>2. \A i \in TokensOf(t) : i \notin Lost => i = k
      BY <1>1, <3>1, OneHeld DEF TokensOf
    <3> QED BY <3>2
  <2> QED BY <2>1, <2>2
<1>4. PICK s, o : s = Lost /\ o = TokensOf(t)
  OBVIOUS
<1>5. IsFiniteSet(s) /\ Cardinality(s) \in Nat
  BY <1>2, <1>4
<1>6. /\ IsFiniteSet(s \cup {k}) /\ Cardinality(s \cup {k}) \in Nat
      /\ Cardinality(s \cup {k}) <= Cardinality(s) + 1
  BY ONLY <1>5, OneMore
<1>7. o \in SUBSET (s \cup {k})
  BY <1>3, <1>4
<1>8. Cardinality(o) \in Nat /\ Cardinality(o) <= Cardinality(s \cup {k})
  BY ONLY <1>6, <1>7, FS_Subset, FS_CardinalityType
<1> QED BY <1>1, <1>2, <1>4, <1>6, <1>8

\* However often an audit is retried, the contract issues one token for it, and one more per fault
\* at the most: the repair of a lost reply (emissionsChannel.ts:231-248) is paid once.
THEOREM RetriesMintByFaults == ServiceSpec => []SurplusExplained
<1>1. AuditInv /\ AccountInv => SurplusExplained
  BY SurplusIsLost DEF SurplusExplained
<1> QED BY <1>1, AuditInvariant, AccountInvariant, PTL

\* What the README of datalock promises holds as long as no call has failed: no two tokens are for
\* one record, whatever requests are made side by side and in whatever order.
THEOREM OneTokenWithoutFaults == ServiceSpec => [](faults = 0 => OneTokenPerRecord)
<1>1. AuditInv /\ AccountInv => (faults = 0 => OneTokenPerRecord)
  <2> SUFFICES ASSUME AuditInv, AccountInv, faults = 0,
                      NEW i \in DOMAIN minted, NEW j \in DOMAIN minted,
                      minted[i].records \cap minted[j].records # {}
               PROVE  i = j
    BY DEF OneTokenPerRecord
  <2>1. minted \in Seq([tx : TxID, records : SUBSET Record]) /\ StoresOK
    BY DEF AuditInv, ServiceTypeOK, AccountInv
  <2>2. Lost = {}
    <3>1. IsFiniteSet(Lost) /\ Cardinality(Lost) \in Nat /\ Cardinality(Lost) <= 0
      BY <2>1, LostFinite DEF AccountInv
    <3> QED BY <3>1, FS_EmptySet
  <2>3. minted[i].tx = minted[j].tx
    BY MintsApart DEF NoSharedMint
  <2> QED BY <2>1, <2>2, <2>3, OneHeld
<1> QED BY <1>1, AuditInvariant, AccountInvariant, PTL
=============================================================================
