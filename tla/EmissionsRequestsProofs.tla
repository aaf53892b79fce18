------------------------ MODULE EmissionsRequestsProofs ------------------------
(***************************************************************************)
(* Proofs about EmissionsRequests, for any requests, auditors, runs of the *)
(* job and issue forms and any number of failures: whose a request is and  *)
(* what was decided (AssignedOnce, VerdictStands), what the tokens are for *)
(* (TokensMatchRequests) and what the auditor got to see (EvidenceUsed).   *)
(* The inductive invariant QueueInv says what a run of the job and an      *)
(* issue form know of the row they are about to write.  On top of it       *)
(* BatchInv keeps the account of the list that is being queued: what the   *)
(* rows are made of (RequestsTypeOK) and that every activity of the list   *)
(* is in one request, or reported as an error (ActivitiesConserved).       *)
(***************************************************************************)
EXTENDS EmissionsRequests, FiniteSums

(* The shape of rows, runs and forms: records of known fields. *)

IsRow(w) ==
  w = [status |-> w.status, issued_from |-> w.issued_from, total |-> w.total, from |-> w.from,
       thru |-> w.thru, content |-> w.content, documented |-> w.documented,
       auditor |-> w.auditor, manifest |-> w.manifest]
IsRun(w) ==
  w = [at |-> w.at, todo |-> w.todo, auditors |-> w.auditors, request |-> w.request,
       auditor |-> w.auditor, manifest |-> w.manifest]
IsForm(w) ==
  w = [at |-> w.at, request |-> w.request, auditor |-> w.auditor, manifest |-> w.manifest,
       verdict |-> w.verdict]

Shaped ==
  /\ request = [r \in Request |-> request[r]] /\ \A r \in Request : IsRow(request[r])
  /\ job = [j \in Job |-> job[j]] /\ \A j \in Job : IsRun(job[j])
  /\ session = [s \in Session |-> session[s]] /\ \A s \in Session : IsForm(session[s])
  /\ post = [at |-> post.at, request |-> post.request]

Waiting == {"none", "CREATED"}
Gone == {"closed", "left"}

\* A row that is not waiting any more has an auditor, and a manifest for him.
RowsOK ==
  \A r \in Request :
    /\ request[r].status \in Status \cup {"none"}
    /\ request[r].status \in Waiting => request[r].auditor = None
    /\ request[r].status \notin Waiting =>
         request[r].auditor \in Auditor /\ request[r].manifest.for = request[r].auditor

\* A run has something to do, and stands at a request of its list.
RunsOK ==
  /\ keyed \subseteq Auditor
  /\ \A j \in Job :
       /\ job[j].at \in {"none", "next", "update"}
       /\ job[j].todo \subseteq Request /\ job[j].auditors \subseteq Auditor
       /\ (job[j].at = "none") = (job[j].todo = {})
       /\ job[j].at = "update" =>
            /\ job[j].request \in job[j].todo
            /\ job[j].auditor \in Auditor /\ job[j].manifest.for = job[j].auditor

\* What is on a list is queued, and waiting unless another run has or had it too.
ListsOK ==
  /\ \A j \in Job : \A r \in job[j].todo :
       /\ request[r].status # "none"
       /\ r \notin shared => request[r].status = "CREATED"
  /\ \A i, j \in Job : \A r \in job[i].todo \cap job[j].todo : i # j => r \in shared

\* An open form shows the auditor and the manifest of the row.
FormsOK ==
  \A s \in Session :
    session[s].at \notin Gone =>
      LET r == session[s].request IN
      /\ session[s].at \in {"form", "issued", "update"}
      /\ r \in Request /\ request[r].status \notin Waiting
      /\ session[s].manifest.for = session[s].auditor
      /\ r \notin shared => /\ session[s].auditor = request[r].auditor
                            /\ session[s].manifest = request[r].manifest

\* A call between check and change has found the request PENDING, and it still is unless
\* another call has found it so too; what is about to be called ISSUED has its token.
CallsOK ==
  /\ \A s \in Session :
       /\ session[s].at = "update" =>
            /\ session[s].verdict \in Decided
            /\ request[session[s].request].status = "PENDING"
                 \/ session[s].request \in contested \cup shared
       /\ session[s].at = "issued" \/ (session[s].at = "update" /\ session[s].verdict = "ISSUED") =>
            \E t \in tokens : t.request = session[s].request
  /\ \A s, t \in Session : \A r \in Request :
       s # t /\ Deciding(s, r) /\ Deciding(t, r) => r \in contested

\* A token is of the auditor and the manifest of its request.
TokensOK ==
  /\ \A t \in tokens :
       /\ t = [request |-> t.request, auditor |-> t.auditor, manifest |-> t.manifest]
       /\ t.request \in Request /\ request[t.request].status \notin Waiting
       /\ t.manifest.for = t.auditor
       /\ t.request \notin shared => /\ t.auditor = request[t.request].auditor
                                     /\ t.manifest = request[t.request].manifest
  /\ \A r \in In({"ISSUED"}) : \E t \in tokens : t.request = r

\* A document is attached before the job lists the request, or the request is early.
DocumentOK ==
  /\ post.at = "attach" =>
       /\ post.request \in Request
       /\ post.request \notin early =>
            /\ request[post.request].status = "CREATED"
            /\ \A j \in Job : post.request \notin job[j].todo
  /\ \A j \in Job :
       job[j].at = "update" /\ job[j].request \notin early /\ request[job[j].request].documented =>
         job[j].manifest.of = "document"
  /\ EvidenceUsed

QueueInv ==
  Shaped /\ RowsOK /\ RunsOK /\ ListsOK /\ FormsOK /\ CallsOK /\ TokensOK /\ DocumentOK

-----------------------------------------------------------------------------
(* Writing rows, runs and forms. *)

\* A document is noted in one row.
LEMMA SetDocumented ==
  ASSUME NEW w, IsRow(w), NEW v, v = [w EXCEPT !.documented = TRUE]
  PROVE  IsRow(v) /\ v.status = w.status /\ v.auditor = w.auditor /\ v.manifest = w.manifest
  BY DEF IsRow

\* A new row is CREATED, without auditor and document.
LEMMA RowCreated ==
  ASSUME NEW g, NEW from
  PROVE  /\ IsRow(NewRow(g, from))
         /\ NewRow(g, from).status = "CREATED" /\ NewRow(g, from).auditor = None
         /\ NewRow(g, from).documented = FALSE
  BY DEF NewRow, IsRow

\* A run that takes up its list.
LEMMA RunListed ==
  ASSUME NEW td, NEW m, NEW v,
         v = [NoRun EXCEPT !.at = "next", !.todo = td, !.auditors = m]
  PROVE  v = [at |-> "next", todo |-> td, auditors |-> m, request |-> None, auditor |-> None,
              manifest |-> None]
  BY DEF NoRun

-----------------------------------------------------------------------------
(* The steps, without EXCEPT. *)

\* Of a queued request.
LEMMA Queued ==
  ASSUME Shaped, NEW g, NEW from, Queue(g, from)
  PROVE  /\ NewId \in Request /\ request[NewId].status = "none"
         /\ request' = [r \in Request |-> request'[r]]
         /\ \A r \in Request \ {NewId} : request'[r] = request[r]
         /\ IsRow(request'[NewId])
         /\ request'[NewId].status = "CREATED" /\ request'[NewId].auditor = None
         /\ request'[NewId].documented = FALSE
<1>1. NewId \in Free
  BY DEF Queue, NewId
<1>2. NewId \in Request /\ request[NewId].status = "none"
  BY <1>1 DEF Free, In
<1>3. request'[NewId] = NewRow(g, from) /\ \A r \in Request \ {NewId} : request'[r] = request[r]
  BY <1>2 DEF Queue, Shaped
<1>4. request' = [r \in Request |-> request'[r]]
  BY DEF Queue, Shaped
<1> QED BY <1>2, <1>3, <1>4, RowCreated

\* Queueing a request keeps what is known of the others.
LEMMA QueueKeeps ==
  ASSUME QueueInv, NEW g, NEW from, Queue(g, from),
         UNCHANGED <<keyed, job, session, tokens, shared, contested, early>>,
         \/ UNCHANGED post
         \/ post' = [at |-> "attach", request |-> NewId]
  PROVE  QueueInv'
<1> USE DEF QueueInv
<1> DEFINE x == NewId
<1>0. /\ x \in Request /\ request[x].status = "none"
      /\ \A r \in Request \ {x} : request'[r] = request[r]
      /\ request'[x].status = "CREATED" /\ request'[x].auditor = None
      /\ request'[x].documented = FALSE
      /\ request' = [r \in Request |-> request'[r]] /\ IsRow(request'[x])
  BY Queued
<1>a. UNCHANGED post \/ post' = [at |-> "attach", request |-> x]
  OBVIOUS
<1> HIDE DEF x
<1>1. Shaped'
  BY <1>0, <1>a DEF Shaped
<1>2. RowsOK'
  BY <1>0 DEF RowsOK, Waiting, Status
<1>3. RunsOK'
  BY DEF RunsOK
<1>l. \A j \in Job : x \notin job[j].todo
  BY <1>0 DEF ListsOK
<1>4. ListsOK'
  <2>1. \A j \in Job : \A r \in job[j].todo : r \in Request \ {x}
    BY <1>l DEF RunsOK
  <2> QED BY <1>0, <2>1 DEF ListsOK
<1>5. FormsOK'
  BY <1>0 DEF FormsOK, Waiting
<1>6. CallsOK'
  BY <1>0 DEF CallsOK, FormsOK, Deciding, Waiting, Gone
<1>7. TokensOK'
  <2>1. \A t \in tokens : t.request \in Request \ {x}
    BY <1>0 DEF TokensOK, Waiting
  <2>2. \A r \in Request : request'[r].status = "ISSUED" => r \in In({"ISSUED"})
    BY <1>0 DEF In
  <2>3. \A r \in In({"ISSUED"})' : \E t \in tokens' : t.request = r
    BY <2>2 DEF TokensOK, In
  <2> QED BY <1>0, <2>1, <2>3 DEF TokensOK
<1>8. DocumentOK'
  <2>1. (post.at = "attach" =>
           /\ post.request \in Request
           /\ post.request \notin early =>
                /\ request[post.request].status = "CREATED"
                /\ \A j \in Job : post.request \notin job[j].todo)'
    BY <1>0, <1>a, <1>l DEF DocumentOK
  <2>2. \A j \in Job : job[j].at = "update" => job[j].request \in Request \ {x}
    BY <1>l DEF RunsOK
  <2>3. EvidenceUsed'
    BY <1>0 DEF DocumentOK, EvidenceUsed, In, Status
  <2> QED BY <1>0, <2>1, <2>2, <2>3 DEF DocumentOK
<1> QED BY <1>1, <1>2, <1>3, <1>4, <1>5, <1>6, <1>7, <1>8

\* The document is attached to a request that no run has listed, or that is early.
LEMMA AttachKeeps ==
  ASSUME QueueInv, AddSupportingDocument
  PROVE  QueueInv'
<1> USE DEF QueueInv
<1> DEFINE x == post.request
<1>a. post.at = "attach" /\ request' = [request EXCEPT ![x].documented = TRUE]
      /\ post' = [post EXCEPT !.at = "move"]
      /\ UNCHANGED <<keyed, job, session, tokens, shared, contested, early>>
  BY DEF AddSupportingDocument, rest
<1>b. x \in Request
  BY <1>a DEF DocumentOK
<1>0. /\ request' = [r \in Request |-> request'[r]]
      /\ \A r \in Request \ {x} : request'[r] = request[r]
      /\ IsRow(request'[x]) /\ request'[x].status = request[x].status
      /\ request'[x].auditor = request[x].auditor /\ request'[x].manifest = request[x].manifest
  <2>1. request = [r \in Request |-> request[r]] /\ IsRow(request[x])
    BY <1>b DEF Shaped
  <2> HIDE DEF x
  <2>2. request' = [r \in Request |-> request'[r]] /\ \A r \in Request \ {x} : request'[r] = request[r]
    BY <1>a, <2>1
  <2>3. request'[x] = [request[x] EXCEPT !.documented = TRUE]
    BY <1>a, <1>b, <2>1
  <2> QED BY <2>1, <2>2, <2>3, SetDocumented
<1>c. post' = [at |-> "move", request |-> x]
  BY <1>a DEF Shaped
<1>d. x \notin early => request[x].status = "CREATED" /\ \A j \in Job : x \notin job[j].todo
  BY <1>a DEF DocumentOK
<1> HIDE DEF x
<1>e. \A r \in Request : /\ request'[r].status = request[r].status
                         /\ request'[r].auditor = request[r].auditor
                         /\ request'[r].manifest = request[r].manifest
  BY <1>0
<1>1. Shaped'
  BY <1>0, <1>a, <1>c DEF Shaped
<1>2. RowsOK'
  BY <1>e DEF RowsOK
<1>3. RunsOK'
  BY <1>a DEF RunsOK
<1>4. ListsOK'
  <2>1. \A j \in Job : \A r \in job[j].todo : r \in Request
    BY DEF RunsOK
  <2> QED BY <1>a, <1>e, <2>1 DEF ListsOK
<1>5. FormsOK'
  BY <1>a, <1>e DEF FormsOK
<1>6. CallsOK'
  <2>1. \A s \in Session : session[s].at = "update" => session[s].request \in Request
    BY DEF FormsOK, Gone
  <2> QED BY <1>a, <1>e, <2>1 DEF CallsOK, Deciding
<1>7. TokensOK'
  <2>1. \A r \in In({"ISSUED"})' : \E t \in tokens' : t.request = r
    BY <1>a, <1>e DEF TokensOK, In
  <2> QED BY <1>a, <1>e, <2>1 DEF TokensOK
<1>8. DocumentOK'
  <2>1. \A j \in Job : job[j].at = "update" /\ job[j].request \notin early => job[j].request \in Request \ {x}
    BY <1>d DEF RunsOK
  <2>2. (\A j \in Job :
           job[j].at = "update" /\ job[j].request \notin early /\ request[job[j].request].documented =>
             job[j].manifest.of = "document")'
    BY <1>a, <1>0, <2>1 DEF DocumentOK
  <2>3. EvidenceUsed'
    <3> SUFFICES ASSUME NEW r \in Request, request'[r].status \in Status \ {"CREATED"}, r \notin early,
                        request'[r].documented
                 PROVE  request'[r].manifest.of = "document"
      BY <1>a DEF EvidenceUsed, In
    <3>1. r # x
      BY <1>d, <1>e
    <3> QED BY <3>1, <1>0 DEF DocumentOK, EvidenceUsed, In
  <2> QED BY <1>c, <2>2, <2>3 DEF DocumentOK
<1> QED BY <1>1, <1>2, <1>3, <1>4, <1>5, <1>6, <1>7, <1>8

\* What becomes of the post after that, and what the queue does not show, keeps it all.
LEMMA OtherKeeps ==
  ASSUME QueueInv, UNCHANGED <<request, job, session, tokens, shared, contested, early>>,
         UNCHANGED keyed \/ RegisterKey,
         UNCHANGED post \/ post' = PostDone
  PROVE  QueueInv'
<1> USE DEF QueueInv
<1>1. keyed \subseteq Auditor => keyed' \subseteq Auditor
  BY DEF RegisterKey
<1>2. PostDone = [at |-> "done", request |-> None]
  BY DEF PostDone, NoPost
<1>3. Shaped' /\ RowsOK' /\ ListsOK' /\ FormsOK'
  BY <1>2 DEF Shaped, RowsOK, ListsOK, FormsOK
<1>4. RunsOK'
  BY <1>1 DEF RunsOK
<1>5. CallsOK' /\ TokensOK'
  BY DEF CallsOK, Deciding, TokensOK, In
<1>6. DocumentOK'
  BY <1>2 DEF DocumentOK, EvidenceUsed, In
<1> QED BY <1>3, <1>4, <1>5, <1>6

-----------------------------------------------------------------------------
(* The job. *)

\* A run takes up the requests that wait, and says so when another run has one of them.
LEMMA SelectKeeps ==
  ASSUME QueueInv, NEW j \in Job, SelectCreated(j)
  PROVE  QueueInv'
<1> USE DEF QueueInv
<1>a. /\ job' = [job EXCEPT ![j] = [NoRun EXCEPT !.at = "next", !.todo = Selected, !.auditors = keyed]]
      /\ shared' = shared \cup {r \in Selected : \E i \in Job \ {j} : Listing(i, r)}
      /\ early' = IF post.at \in {"attach", "move"} THEN early \cup ({post.request} \cap Selected) ELSE early
      /\ UNCHANGED <<request, post, keyed, session, tokens, contested>>
      /\ Selected # {}
  BY DEF SelectCreated
<1>b. /\ job' = [i \in Job |-> job'[i]] /\ \A i \in Job \ {j} : job'[i] = job[i]
      /\ job'[j] = [NoRun EXCEPT !.at = "next", !.todo = Selected, !.auditors = keyed]
  BY <1>a DEF Shaped
<1>c. job'[j] = [at |-> "next", todo |-> Selected, auditors |-> keyed, request |-> None,
                 auditor |-> None, manifest |-> None]
  BY <1>b DEF NoRun
<1>d. \A r : r \in Selected <=> r \in Request /\ request[r].status = "CREATED"
  BY DEF Selected, In
<1>e. shared \subseteq shared' /\ early \subseteq early'
  BY <1>a
<1>1. Shaped'
  BY <1>a, <1>b, <1>c DEF Shaped, IsRun
<1>2. RowsOK'
  BY <1>a DEF RowsOK
<1>3. RunsOK'
  BY <1>a, <1>b, <1>c, <1>d DEF RunsOK
<1>4. ListsOK'
  <2>1. ASSUME NEW i \in Job, NEW r \in job'[i].todo
        PROVE  request[r].status # "none" /\ (r \notin shared' => request[r].status = "CREATED")
    <3>1. CASE i = j
      BY <3>1, <1>c, <1>d
    <3>2. CASE i # j
      BY <3>2, <1>b, <1>e DEF ListsOK
    <3> QED BY <3>1, <3>2
  <2>2. \A i \in Job \ {j} : \A r \in job[i].todo \cap Selected : r \in shared'
    BY <1>a DEF Listing
  <2>3. ASSUME NEW i \in Job, NEW k \in Job, NEW r \in job'[i].todo \cap job'[k].todo, i # k
        PROVE  r \in shared'
    <3>1. CASE i # j /\ k # j
      <4>1. r \in job[i].todo \cap job[k].todo
        BY <3>1, <1>b
      <4> QED BY <4>1, <2>3, <1>e DEF ListsOK
    <3>2. CASE i = j
      BY <3>2, <2>3, <1>b, <1>c, <2>2
    <3>3. CASE k = j
      BY <3>3, <2>3, <1>b, <1>c, <2>2
    <3> QED BY <3>1, <3>2, <3>3
  <2> QED BY <1>a, <2>1, <2>3 DEF ListsOK
<1>5. FormsOK'
  BY <1>a, <1>e DEF FormsOK
<1>6. CallsOK'
  BY <1>a, <1>e DEF CallsOK, Deciding
<1>7. TokensOK'
  BY <1>a, <1>e DEF TokensOK, In
<1>8. DocumentOK'
  <2>1. post.at = "attach" /\ post.request \notin early' => post.request \notin Selected
    BY <1>a
  <2>2. (post.at = "attach" =>
           /\ post.request \in Request
           /\ post.request \notin early =>
                /\ request[post.request].status = "CREATED"
                /\ \A i \in Job : post.request \notin job[i].todo)'
    BY <1>a, <1>b, <1>c, <1>e, <2>1 DEF DocumentOK
  <2>3. (\A i \in Job :
           job[i].at = "update" /\ job[i].request \notin early /\ request[job[i].request].documented =>
             job[i].manifest.of = "document")'
    BY <1>a, <1>b, <1>c, <1>e DEF DocumentOK
  <2>4. EvidenceUsed'
    BY <1>a, <1>e DEF DocumentOK, EvidenceUsed, In
  <2> QED BY <2>2, <2>3, <2>4 DEF DocumentOK
<1> QED BY <1>1, <1>2, <1>3, <1>4, <1>5, <1>6, <1>7, <1>8

\* A run that fails forgets its list.
LEMMA RunFailsKeeps ==
  ASSUME QueueInv, NEW j \in Job, RunFails(j)
  PROVE  QueueInv'
<1> USE DEF QueueInv
<1>a. /\ job' = [job EXCEPT ![j] = NoRun]
      /\ UNCHANGED <<request, post, keyed, session, tokens, shared, contested, early>>
  BY DEF RunFails, rest
<1>b. /\ job' = [i \in Job |-> job'[i]] /\ \A i \in Job \ {j} : job'[i] = job[i]
      /\ job'[j] = NoRun
  BY <1>a DEF Shaped
<1>1. Shaped'
  BY <1>a, <1>b DEF Shaped, IsRun, NoRun
<1>2. RowsOK' /\ FormsOK'
  BY <1>a DEF RowsOK, FormsOK
<1>3. RunsOK'
  BY <1>a, <1>b DEF RunsOK, NoRun
<1>4. ListsOK'
  BY <1>a, <1>b DEF ListsOK, NoRun
<1>5. CallsOK' /\ TokensOK'
  BY <1>a DEF CallsOK, Deciding, TokensOK, In
<1>6. DocumentOK'
  BY <1>a, <1>b DEF DocumentOK, EvidenceUsed, In, NoRun
<1> QED BY <1>1, <1>2, <1>3, <1>4, <1>5, <1>6

\* A run encrypts the evidence of a request on its list: the document, when there is one.
LEMMA EncryptKeeps ==
  ASSUME QueueInv, NEW j \in Job, NEW a \in Auditor, EncryptEvidence(j, a)
  PROVE  QueueInv'
<1> USE DEF QueueInv
<1> DEFINE x == NextOf(j)
           m == [of |-> Evidence(x), for |-> a]
<1>a. /\ job[j].at = "next" /\ a \in job[j].auditors
      /\ job' = [job EXCEPT ![j] =
           IF Missing(x) THEN NoRun
           ELSE [@ EXCEPT !.at = "update", !.request = x, !.auditor = a, !.manifest = m]]
      /\ UNCHANGED <<request, post, keyed, session, tokens, shared, contested, early>>
  BY DEF EncryptEvidence, rest
<1>b. x \in job[j].todo /\ x \in Request
  BY <1>a DEF RunsOK, NextOf, Listing
<1>c. m.for = a /\ (request[x].documented => m.of = "document")
  BY DEF Evidence
<1> HIDE DEF x, m
<1>d. /\ job' = [i \in Job |-> job'[i]] /\ \A i \in Job \ {j} : job'[i] = job[i]
      /\ job'[j] = NoRun
           \/ job'[j] = [job[j] EXCEPT !.at = "update", !.request = x, !.auditor = a, !.manifest = m]
  BY <1>a DEF Shaped
<1>e. job'[j] = NoRun
        \/ job'[j] = [at |-> "update", todo |-> job[j].todo, auditors |-> job[j].auditors,
                      request |-> x, auditor |-> a, manifest |-> m]
  <2>1. IsRun(job[j])
    BY DEF Shaped
  <2>2. ASSUME job'[j] = [job[j] EXCEPT !.at = "update", !.request = x, !.auditor = a, !.manifest = m]
        PROVE  job'[j] = [at |-> "update", todo |-> job[j].todo, auditors |-> job[j].auditors,
                          request |-> x, auditor |-> a, manifest |-> m]
    BY ONLY <2>1, <2>2 DEF IsRun
  <2> QED BY <1>d, <2>2
<1>f. job'[j].todo \subseteq job[j].todo
  BY <1>e DEF NoRun
<1>1. Shaped'
  BY <1>a, <1>d, <1>e DEF Shaped, IsRun, NoRun
<1>2. RowsOK' /\ FormsOK'
  BY <1>a DEF RowsOK, FormsOK
<1>3. RunsOK'
  BY <1>a, <1>b, <1>c, <1>d, <1>e DEF RunsOK, NoRun
<1>4. ListsOK'
  BY <1>a, <1>d, <1>f DEF ListsOK
<1>5. CallsOK' /\ TokensOK'
  BY <1>a DEF CallsOK, Deciding, TokensOK, In
<1>6. DocumentOK'
  <2>1. \A i \in Job : \A r : r \in job'[i].todo => r \in job[i].todo
    BY <1>d, <1>f
  <2>2. (\A i \in Job :
           job[i].at = "update" /\ job[i].request \notin early /\ request[job[i].request].documented =>
             job[i].manifest.of = "document")'
    BY <1>a, <1>c, <1>d, <1>e DEF DocumentOK, NoRun
  <2> QED BY <1>a, <2>1, <2>2 DEF DocumentOK, EvidenceUsed, In
<1> QED BY <1>1, <1>2, <1>3, <1>4, <1>5, <1>6

\* updateToPending: the row gets auditor and manifest and leaves the list of this run.
LEMMA PendingKeeps ==
  ASSUME QueueInv, NEW j \in Job, UpdateToPending(j)
  PROVE  QueueInv'
<1> USE DEF QueueInv
<1> DEFINE x == job[j].request
           a == job[j].auditor
           m == job[j].manifest
           td == job[j].todo \ {x}
<1>a. /\ job[j].at = "update"
      /\ request' = [request EXCEPT ![x].status = "PENDING", ![x].auditor = a, ![x].manifest = m]
      /\ job' = [job EXCEPT ![j] =
           IF @.todo = {@.request} THEN NoRun
           ELSE [@ EXCEPT !.at = "next", !.todo = td, !.request = None, !.auditor = None,
                          !.manifest = None]]
      /\ UNCHANGED <<post, keyed, session, tokens, shared, contested, early>>
  BY DEF UpdateToPending, rest
<1>b. x \in job[j].todo /\ x \in Request /\ a \in Auditor /\ m.for = a
  BY <1>a DEF RunsOK
<1>c. request[x].documented /\ x \notin early => m.of = "document"
  BY <1>a DEF DocumentOK
<1>d. x \notin shared => request[x].status = "CREATED"
  BY <1>b DEF ListsOK
<1>e. td \subseteq Request /\ x \notin td /\ td \subseteq job[j].todo
      /\ (job[j].todo # {x} => td # {})
  BY <1>b DEF RunsOK
<1>f. td = {} => job[j].todo = {x}
  BY <1>b
<1>g. /\ job' = [i \in Job |-> job'[i]] /\ \A i \in Job \ {j} : job'[i] = job[i]
      /\ IF job[j].todo = {x} THEN job'[j] = NoRun
         ELSE job'[j] = [job[j] EXCEPT !.at = "next", !.todo = td, !.request = None, !.auditor = None,
                                       !.manifest = None]
  BY <1>a DEF Shaped
<1>0. /\ request' = [r \in Request |-> request'[r]]
      /\ \A r \in Request \ {x} : request'[r] = request[r]
      /\ IsRow(request'[x]) /\ request'[x].status = "PENDING"
      /\ request'[x].auditor = a /\ request'[x].manifest = m
      /\ request'[x].documented = request[x].documented
  <2>1. request = [r \in Request |-> request[r]] /\ IsRow(request[x])
    BY <1>b DEF Shaped
  <2> HIDE DEF x, a, m, td
  <2>2. request' = [r \in Request |-> request'[r]] /\ \A r \in Request \ {x} : request'[r] = request[r]
    BY <1>a, <2>1
  <2>3. request'[x] = [request[x] EXCEPT !.status = "PENDING", !.auditor = a, !.manifest = m]
    BY <1>a, <1>b, <2>1
  <2>4. /\ IsRow(request'[x]) /\ request'[x].status = "PENDING"
        /\ request'[x].auditor = a /\ request'[x].manifest = m
        /\ request'[x].documented = request[x].documented
    BY ONLY <2>1, <2>3 DEF IsRow
  <2> QED BY <2>2, <2>4
<1> HIDE DEF x, a, m, td
<1>h. \/ job'[j] = NoRun /\ td = {}
      \/ td # {} /\ job'[j] = [at |-> "next", todo |-> td, auditors |-> job[j].auditors,
                               request |-> None, auditor |-> None, manifest |-> None]
  <2>1. IsRun(job[j])
    BY DEF Shaped
  <2>2. ASSUME job'[j] = [job[j] EXCEPT !.at = "next", !.todo = td, !.request = None,
                                        !.auditor = None, !.manifest = None]
        PROVE  job'[j] = [at |-> "next", todo |-> td, auditors |-> job[j].auditors,
                          request |-> None, auditor |-> None, manifest |-> None]
    BY ONLY <2>1, <2>2 DEF IsRun
  <2>3. job[j].todo = {x} => td = {}
    BY DEF td
  <2> QED BY <1>e, <1>f, <1>g, <2>2, <2>3
<1>i. job'[j].todo = td
  BY <1>h DEF NoRun
<1>k. \A r \in Request : request[r].status \notin Waiting =>
        /\ request'[r].status \notin Waiting
        /\ r \notin shared => request'[r] = request[r]
  BY <1>0, <1>d DEF Waiting
<1>1. Shaped'
  BY <1>0, <1>a, <1>g, <1>h DEF Shaped, IsRun, NoRun
<1>2. RowsOK'
  BY <1>0, <1>b DEF RowsOK, Waiting, Status
<1>3. RunsOK'
  BY <1>a, <1>e, <1>g, <1>h DEF RunsOK, NoRun
<1>4. ListsOK'
  <2>1. \A i \in Job : \A r : r \in job'[i].todo => r \in job[i].todo /\ r \in Request
    BY <1>e, <1>g, <1>i DEF RunsOK
  <2>2. \A i \in Job : x \in job'[i].todo => x \in shared
    BY <1>b, <1>e, <1>g, <1>i DEF ListsOK
  <2>3. \A i \in Job : \A r \in job'[i].todo :
          request'[r].status # "none" /\ (r \notin shared => request'[r].status = "CREATED")
    BY <1>0, <2>1, <2>2 DEF ListsOK
  <2>4. \A i, k \in Job : \A r \in job'[i].todo \cap job'[k].todo : i # k => r \in shared
    BY <2>1 DEF ListsOK
  <2> QED BY <1>a, <2>3, <2>4 DEF ListsOK
<1>s. UNCHANGED <<session, tokens, shared, contested>>
  BY <1>a
<1>5. FormsOK'
  BY <1>k, <1>s DEF FormsOK
<1>6. CallsOK'
  <2>1. ASSUME NEW s \in Session, session[s].at = "update"
        PROVE  /\ session[s].verdict \in Decided
               /\ request'[session[s].request].status = "PENDING"
                    \/ session[s].request \in contested \cup shared
    <3>1. session[s].request \in Request /\ request[session[s].request].status \notin Waiting
      BY <2>1 DEF FormsOK, Gone
    <3>2. session[s].request \notin shared => request'[session[s].request] = request[session[s].request]
      BY <1>k, <3>1
    <3> QED BY <2>1, <3>2 DEF CallsOK
  <2> QED BY <1>s, <2>1 DEF CallsOK, Deciding
<1>7. TokensOK'
  <2>1. \A r \in In({"ISSUED"})' : \E t \in tokens' : t.request = r
    <3>1. \A r \in In({"ISSUED"})' : r \in In({"ISSUED"})
      BY <1>0 DEF In
    <3> QED BY <1>a, <3>1 DEF TokensOK
  <2> QED BY <1>k, <1>s, <2>1 DEF TokensOK
<1>8. DocumentOK'
  <2>1. post.at = "attach" /\ post.request \notin early => post.request # x
    BY <1>b DEF DocumentOK
  <2>2. \A i \in Job : \A r : r \in job'[i].todo => r \in job[i].todo
    BY <1>e, <1>g, <1>i
  <2>3. \A i \in Job : job'[i].at = "update" => i # j /\ job[i].request \in Request
    BY <1>g, <1>h DEF NoRun, RunsOK
  <2>4. \A i \in Job : job'[i].at = "update" =>
          job'[i] = job[i] /\ request'[job[i].request].documented = request[job[i].request].documented
    BY <1>0, <1>g, <2>3
  <2>5. EvidenceUsed'
    BY <1>a, <1>0, <1>c DEF DocumentOK, EvidenceUsed, In
  <2>6. (post.at = "attach" =>
           /\ post.request \in Request
           /\ post.request \notin early =>
                /\ request[post.request].status = "CREATED"
                /\ \A i \in Job : post.request \notin job[i].todo)'
    BY <1>a, <1>0, <2>1, <2>2 DEF DocumentOK
  <2>7. (\A i \in Job :
           job[i].at = "update" /\ job[i].request \notin early /\ request[job[i].request].documented =>
             job[i].manifest.of = "document")'
    BY <1>a, <2>4 DEF DocumentOK
  <2> QED BY <2>5, <2>6, <2>7 DEF DocumentOK
<1> QED BY <1>1, <1>2, <1>3, <1>4, <1>5, <1>6, <1>7, <1>8

-----------------------------------------------------------------------------
(* The issue form.  One form s changes; the row it may change is that of its request. *)

\* A form that is opened shows the auditor and the manifest that the row has.
LEMMA FetchKeeps ==
  ASSUME QueueInv, NEW s \in Session, NEW r \in Request, FetchEmissionsRequest(s, r)
  PROVE  QueueInv'
<1> USE DEF QueueInv
<1>a. /\ request[r].auditor # None
      /\ session' = [session EXCEPT ![s] = [at |-> "form", request |-> r, verdict |-> None,
                       auditor |-> request[r].auditor, manifest |-> request[r].manifest]]
      /\ UNCHANGED <<request, post, keyed, job, tokens, shared, contested, early>>
  BY DEF FetchEmissionsRequest, rest
<1>b. /\ session' = [t \in Session |-> session'[t]] /\ \A t \in Session \ {s} : session'[t] = session[t]
      /\ session'[s] = [at |-> "form", request |-> r, verdict |-> None,
                        auditor |-> request[r].auditor, manifest |-> request[r].manifest]
  BY <1>a DEF Shaped
<1>c. request[r].status \notin Waiting /\ request[r].manifest.for = request[r].auditor
  BY <1>a DEF RowsOK
<1>1. Shaped'
  BY <1>a, <1>b DEF Shaped, IsForm
<1>2. RowsOK' /\ RunsOK' /\ ListsOK'
  BY <1>a DEF RowsOK, RunsOK, ListsOK
<1>3. FormsOK'
  BY <1>a, <1>b, <1>c DEF FormsOK
<1>4. CallsOK'
  BY <1>a, <1>b DEF CallsOK, Deciding
<1>5. TokensOK' /\ DocumentOK'
  BY <1>a DEF TokensOK, DocumentOK, EvidenceUsed, In
<1> QED BY <1>1, <1>2, <1>3, <1>4, <1>5

\* A token is issued of what the form shows.
LEMMA IssueKeeps ==
  ASSUME QueueInv, NEW s \in Session, IssueToken(s)
  PROVE  QueueInv'
<1> USE DEF QueueInv
<1> DEFINE w == session[s]
<1>a. /\ w.at = "form"
      /\ tokens' = tokens \cup {[request |-> w.request, auditor |-> w.auditor, manifest |-> w.manifest]}
      /\ session' = [session EXCEPT ![s].at = "issued"]
      /\ UNCHANGED <<request, post, keyed, job, shared, contested, early>>
  BY DEF IssueToken, Token, rest
<1>b. /\ session' = [t \in Session |-> session'[t]] /\ \A t \in Session \ {s} : session'[t] = session[t]
      /\ session'[s] = [w EXCEPT !.at = "issued"]
  BY <1>a DEF Shaped
<1>c. IsForm(w)
  BY DEF Shaped
<1> HIDE DEF w
<1>d. session'[s] = [at |-> "issued", request |-> w.request, auditor |-> w.auditor,
                     manifest |-> w.manifest, verdict |-> w.verdict]
  BY ONLY <1>b, <1>c DEF IsForm
<1>e. /\ w.request \in Request /\ request[w.request].status \notin Waiting
      /\ w.manifest.for = w.auditor
      /\ w.request \notin shared => w.auditor = request[w.request].auditor
                                    /\ w.manifest = request[w.request].manifest
  BY <1>a DEF FormsOK, w, Gone
<1>1. Shaped'
  BY <1>a, <1>b, <1>d DEF Shaped, IsForm
<1>2. RowsOK' /\ RunsOK' /\ ListsOK'
  BY <1>a DEF RowsOK, RunsOK, ListsOK
<1>3. FormsOK'
  BY <1>a, <1>b, <1>d, <1>e DEF FormsOK
<1>4. CallsOK'
  <2>1. \E t \in tokens' : t.request = w.request
    <3> DEFINE t == [request |-> w.request, auditor |-> w.auditor, manifest |-> w.manifest]
    <3>1. t \in tokens' /\ t.request = w.request
      BY <1>a
    <3> QED BY <3>1
  <2>2. tokens \subseteq tokens'
    BY <1>a
  <2>3. \A t \in Session : session'[t].at = "update" => t # s /\ session'[t] = session[t]
    BY <1>b, <1>d
  <2>4. \A t \in Session :
          session'[t].at = "issued" \/ (session'[t].at = "update" /\ session'[t].verdict = "ISSUED") =>
            \E u \in tokens' : u.request = session'[t].request
    BY <1>b, <1>d, <2>1, <2>2 DEF CallsOK
  <2> QED BY <1>a, <2>3, <2>4 DEF CallsOK, Deciding
<1>5. TokensOK'
  <2>1. \A r \in In({"ISSUED"})' : \E t \in tokens' : t.request = r
    BY <1>a DEF TokensOK, In
  <2>2. (\A t \in tokens :
         /\ t = [request |-> t.request, auditor |-> t.auditor, manifest |-> t.manifest]
         /\ t.request \in Request /\ request[t.request].status \notin Waiting
         /\ t.manifest.for = t.auditor
         /\ t.request \notin shared => /\ t.auditor = request[t.request].auditor
                                       /\ t.manifest = request[t.request].manifest)'
    BY <1>a, <1>e DEF TokensOK
  <2> QED BY <2>1, <2>2 DEF TokensOK
<1>6. DocumentOK'
  BY <1>a DEF DocumentOK, EvidenceUsed, In
<1> QED BY <1>1, <1>2, <1>3, <1>4, <1>5, <1>6

\* A call that finds the request PENDING goes on to change it; another that has found it so too
\* makes it contested.
LEMMA CheckKeeps ==
  ASSUME QueueInv, NEW s \in Session, NEW verdict \in Decided, CheckPending(s, verdict),
         session[s].at = IF verdict = "ISSUED" THEN "issued" ELSE "form"
  PROVE  QueueInv'
<1> USE DEF QueueInv
<1> DEFINE w == session[s]
           r == w.request
<1>a. /\ \/ /\ request[r].status = "PENDING"
            /\ session' = [session EXCEPT ![s].at = "update", ![s].verdict = verdict]
            /\ contested' = IF \E t \in Session : Deciding(t, r) THEN contested \cup {r} ELSE contested
         \/ session' = [session EXCEPT ![s] = Left] /\ UNCHANGED contested
      /\ UNCHANGED <<request, post, keyed, job, tokens, shared, early>>
  BY DEF CheckPending
<1>b. /\ session' = [t \in Session |-> session'[t]] /\ \A t \in Session \ {s} : session'[t] = session[t]
      /\ \/ /\ session'[s] = [w EXCEPT !.at = "update", !.verdict = verdict]
            /\ request[r].status = "PENDING"
            /\ contested' = IF \E t \in Session : Deciding(t, r) THEN contested \cup {r} ELSE contested
         \/ session'[s] = Left /\ contested' = contested
  <2>1. CASE session' = [session EXCEPT ![s] = Left] /\ UNCHANGED contested
    BY <2>1 DEF Shaped
  <2>2. CASE /\ session' = [session EXCEPT ![s].at = "update", ![s].verdict = verdict]
             /\ request[r].status = "PENDING"
             /\ contested' = IF \E t \in Session : Deciding(t, r) THEN contested \cup {r} ELSE contested
    <3>1. /\ session' = [t \in Session |-> session'[t]] /\ \A t \in Session \ {s} : session'[t] = session[t]
          /\ session'[s] = [w EXCEPT !.at = "update", !.verdict = verdict]
      BY <2>2 DEF Shaped
    <3> QED BY <2>2, <3>1
  <2> QED BY <1>a, <2>1, <2>2
<1>c. IsForm(w)
  BY DEF Shaped
<1>e. /\ w.at \in {"form", "issued"} /\ r \in Request /\ request[r].status \notin Waiting
      /\ w.manifest.for = w.auditor
      /\ r \notin shared => w.auditor = request[r].auditor /\ w.manifest = request[r].manifest
  BY DEF FormsOK, Gone
<1>f. verdict = "ISSUED" => \E t \in tokens : t.request = r
  BY DEF CallsOK
<1>g. contested \subseteq contested'
  BY <1>b
<1> HIDE DEF w, r
<1>d. \/ /\ session'[s] = [at |-> "update", request |-> r, auditor |-> w.auditor,
                          manifest |-> w.manifest, verdict |-> verdict]
         /\ request[r].status = "PENDING"
         /\ contested' = IF \E t \in Session : Deciding(t, r) THEN contested \cup {r} ELSE contested
      \/ session'[s] = Left /\ contested' = contested
  <2>1. ASSUME session'[s] = [w EXCEPT !.at = "update", !.verdict = verdict]
        PROVE  session'[s] = [at |-> "update", request |-> w.request, auditor |-> w.auditor,
                              manifest |-> w.manifest, verdict |-> verdict]
    BY ONLY <1>c, <2>1 DEF IsForm
  <2> QED BY <1>b, <2>1 DEF r
<1>1. Shaped'
  BY <1>a, <1>b, <1>d DEF Shaped, IsForm, Left, Closed
<1>2. RowsOK' /\ RunsOK' /\ ListsOK'
  BY <1>a DEF RowsOK, RunsOK, ListsOK
<1>l. Left = [at |-> "left", request |-> None, auditor |-> None, manifest |-> None, verdict |-> None]
  BY DEF Left, Closed
<1>3. FormsOK'
  BY <1>a, <1>b, <1>d, <1>e, <1>l DEF FormsOK, Gone
<1>4. CallsOK'
  <2>1. \A t \in Session : session'[t].at = "update" =>
          /\ session'[t].verdict \in Decided
          /\ request[session'[t].request].status = "PENDING"
               \/ session'[t].request \in contested' \cup shared
    BY <1>b, <1>d, <1>g, <1>l DEF CallsOK
  <2>2. \A t \in Session :
          session'[t].at = "issued" \/ (session'[t].at = "update" /\ session'[t].verdict = "ISSUED") =>
            \E u \in tokens : u.request = session'[t].request
    BY <1>b, <1>d, <1>f, <1>l DEF CallsOK
  <2>3. ASSUME NEW t \in Session, NEW u \in Session, NEW q \in Request, t # u,
               session'[t].at = "update", session'[t].request = q,
               session'[u].at = "update", session'[u].request = q
        PROVE  q \in contested'
    <3>1. CASE t # s /\ u # s
      BY <3>1, <2>3, <1>b, <1>g DEF CallsOK, Deciding
    <3>2. CASE t = s
      <4>1. q = r /\ Deciding(u, r)
        BY <3>2, <2>3, <1>b, <1>d, <1>l DEF Deciding
      <4> QED BY <3>2, <4>1, <2>3, <1>d, <1>l
    <3>3. CASE u = s
      <4>1. q = r /\ Deciding(t, r)
        BY <3>3, <2>3, <1>b, <1>d, <1>l DEF Deciding
      <4> QED BY <3>3, <4>1, <2>3, <1>d, <1>l
    <3> QED BY <3>1, <3>2, <3>3
  <2> QED BY <1>a, <2>1, <2>2, <2>3 DEF CallsOK, Deciding
<1>5. TokensOK' /\ DocumentOK'
  BY <1>a DEF TokensOK, DocumentOK, EvidenceUsed, In
<1> QED BY <1>1, <1>2, <1>3, <1>4, <1>5

\* The verdict is written to a row that is not waiting, so that no run but a shared one's has it.
LEMMA VerdictKeeps ==
  ASSUME QueueInv, NEW s \in Session, UpdateStatus(s)
  PROVE  QueueInv'
<1> USE DEF QueueInv
<1> DEFINE x == session[s].request
           d == session[s].verdict
<1>a. /\ session[s].at = "update"
      /\ request' = [request EXCEPT ![x].status = d]
      /\ session' = [session EXCEPT ![s] = Left]
      /\ UNCHANGED <<post, keyed, job, tokens, shared, contested, early>>
  BY DEF UpdateStatus, rest
<1>b. /\ x \in Request /\ request[x].status \notin Waiting
  BY <1>a DEF FormsOK, Gone
<1>c. /\ d \in Decided
      /\ d = "ISSUED" => \E t \in tokens : t.request = x
  BY <1>a DEF CallsOK
<1>e. \A t \in Session \ {s} : Deciding(t, x) => x \in contested
  BY <1>a, <1>b DEF CallsOK, Deciding
<1>f. /\ session' = [t \in Session |-> session'[t]] /\ \A t \in Session \ {s} : session'[t] = session[t]
      /\ session'[s] = [at |-> "left", request |-> None, auditor |-> None, manifest |-> None,
                        verdict |-> None]
  BY <1>a DEF Shaped, Left, Closed
<1>0. /\ request' = [r \in Request |-> request'[r]]
      /\ \A r \in Request \ {x} : request'[r] = request[r]
      /\ IsRow(request'[x]) /\ request'[x].status = d
      /\ request'[x].auditor = request[x].auditor /\ request'[x].manifest = request[x].manifest
      /\ request'[x].documented = request[x].documented
  <2>1. request = [r \in Request |-> request[r]] /\ IsRow(request[x])
    BY <1>b DEF Shaped
  <2> HIDE DEF x, d
  <2>2. request' = [r \in Request |-> request'[r]] /\ \A r \in Request \ {x} : request'[r] = request[r]
    BY <1>a, <2>1
  <2>3. request'[x] = [request[x] EXCEPT !.status = d]
    BY <1>a, <1>b, <2>1
  <2>4. /\ IsRow(request'[x]) /\ request'[x].status = d
        /\ request'[x].auditor = request[x].auditor /\ request'[x].manifest = request[x].manifest
        /\ request'[x].documented = request[x].documented
    BY ONLY <2>1, <2>3 DEF IsRow
  <2> QED BY <2>2, <2>4
<1> HIDE DEF x, d
<1>g. \A r \in Request :
        /\ request'[r].auditor = request[r].auditor /\ request'[r].manifest = request[r].manifest
        /\ request'[r].documented = request[r].documented
        /\ request[r].status \in Waiting => request'[r] = request[r]
        /\ request[r].status \notin Waiting => request'[r].status \notin Waiting
  BY <1>0, <1>b, <1>c DEF Waiting, Decided
<1>1. Shaped'
  BY <1>0, <1>a, <1>f DEF Shaped, IsForm
<1>2. RowsOK'
  <2>1. \A r \in Request : request'[r].status \in Status \cup {"none"}
    BY <1>0, <1>c DEF RowsOK, Decided, Status
  <2>2. \A r \in Request : request'[r].status \in Waiting => request[r].status \in Waiting
    BY <1>g
  <2> QED BY <1>g, <2>1, <2>2 DEF RowsOK
<1>3. RunsOK'
  BY <1>a DEF RunsOK
<1>4. ListsOK'
  <2>1. \A j \in Job : \A r \in job[j].todo : r \in Request /\ (r = x => x \in shared)
    BY <1>b DEF RunsOK, ListsOK, Waiting
  <2>2. request'[x].status # "none"
    BY <1>0, <1>c DEF Decided
  <2>3. \A j \in Job : \A r \in job[j].todo :
          request'[r].status # "none" /\ (r \notin shared => request'[r].status = "CREATED")
    BY <1>0, <2>1, <2>2 DEF ListsOK
  <2> QED BY <1>a, <2>3 DEF ListsOK
<1>5. FormsOK'
  BY <1>a, <1>f, <1>g DEF FormsOK, Gone
<1>6. CallsOK'
  <2>1. \A t \in Session : session'[t].at = "update" =>
          /\ session'[t].verdict \in Decided
          /\ request'[session'[t].request].status = "PENDING"
               \/ session'[t].request \in contested \cup shared
    <3> SUFFICES ASSUME NEW t \in Session, session'[t].at = "update"
                 PROVE  /\ session'[t].verdict \in Decided
                        /\ request'[session'[t].request].status = "PENDING"
                             \/ session'[t].request \in contested \cup shared
      OBVIOUS
    <3>1. t # s /\ session'[t] = session[t]
      BY <1>f
    <3>2. session[t].verdict \in Decided /\ session[t].request \in Request
      BY <3>1 DEF CallsOK, FormsOK, Gone
    <3>3. CASE session[t].request = x
      BY <3>1, <3>2, <3>3, <1>e DEF Deciding
    <3>4. CASE session[t].request # x
      BY <3>1, <3>2, <3>4, <1>0 DEF CallsOK
    <3> QED BY <3>3, <3>4
  <2>2. \A t \in Session :
          session'[t].at = "issued" \/ (session'[t].at = "update" /\ session'[t].verdict = "ISSUED") =>
            \E u \in tokens : u.request = session'[t].request
    BY <1>f DEF CallsOK
  <2>3. \A t, u \in Session : \A r \in Request :
          t # u /\ Deciding(t, r)' /\ Deciding(u, r)' => r \in contested
    BY <1>f DEF CallsOK, Deciding
  <2> QED BY <1>a, <2>1, <2>2, <2>3 DEF CallsOK
<1>7. TokensOK'
  <2>1. \A r \in In({"ISSUED"})' : \E t \in tokens' : t.request = r
    <3> SUFFICES ASSUME NEW r \in Request, request'[r].status = "ISSUED"
                 PROVE  \E t \in tokens : t.request = r
      BY <1>a DEF In
    <3>1. CASE r = x
      BY <3>1, <1>0, <1>c
    <3>2. CASE r # x
      BY <3>2, <1>0 DEF TokensOK, In
    <3> QED BY <3>1, <3>2
  <2> QED BY <1>a, <1>g, <2>1 DEF TokensOK
<1>8. DocumentOK'
  <2>1. (post.at = "attach" =>
           /\ post.request \in Request
           /\ post.request \notin early =>
                /\ request[post.request].status = "CREATED"
                /\ \A i \in Job : post.request \notin job[i].todo)'
    BY <1>a, <1>g DEF DocumentOK, Waiting
  <2>2. \A j \in Job : job[j].at = "update" => job[j].request \in Request
    BY DEF RunsOK
  <2>3. EvidenceUsed'
    <3> SUFFICES ASSUME NEW r \in Request, request'[r].status \in Status \ {"CREATED"}, r \notin early,
                        request'[r].documented
                 PROVE  request'[r].manifest.of = "document"
      BY <1>a DEF EvidenceUsed, In
    <3>1. request[r].status \in Status \ {"CREATED"}
      BY <1>g DEF RowsOK, Waiting, Status
    <3> QED BY <3>1, <1>g DEF DocumentOK, EvidenceUsed, In
  <2> QED BY <1>a, <1>g, <2>1, <2>2, <2>3 DEF DocumentOK
<1> QED BY <1>1, <1>2, <1>3, <1>4, <1>5, <1>6, <1>7, <1>8

\* A form that is left is nobody's concern any more.
LEMMA LeaveKeeps ==
  ASSUME QueueInv, NEW s \in Session, LeaveForm(s)
  PROVE  QueueInv'
<1> USE DEF QueueInv
<1>a. /\ session' = [session EXCEPT ![s] = Left]
      /\ UNCHANGED <<request, post, keyed, job, tokens, shared, contested, early>>
  BY DEF LeaveForm, rest
<1>b. /\ session' = [t \in Session |-> session'[t]] /\ \A t \in Session \ {s} : session'[t] = session[t]
      /\ session'[s] = [at |-> "left", request |-> None, auditor |-> None, manifest |-> None,
                        verdict |-> None]
  BY <1>a DEF Shaped, Left, Closed
<1>1. Shaped'
  BY <1>a, <1>b DEF Shaped, IsForm
<1>2. RowsOK' /\ RunsOK' /\ ListsOK'
  BY <1>a DEF RowsOK, RunsOK, ListsOK
<1>3. FormsOK'
  BY <1>a, <1>b DEF FormsOK, Gone
<1>4. CallsOK'
  BY <1>a, <1>b DEF CallsOK, Deciding
<1>5. TokensOK' /\ DocumentOK'
  BY <1>a DEF TokensOK, DocumentOK, EvidenceUsed, In
<1> QED BY <1>1, <1>2, <1>3, <1>4, <1>5

-----------------------------------------------------------------------------
(* The invariant. *)

\* Nothing is queued yet.
LEMMA InitQueueInv == Init => QueueInv
<1> SUFFICES ASSUME Init PROVE QueueInv
  OBVIOUS
<1> USE DEF Init
<1>1. Shaped
  BY DEF Shaped, IsRow, IsRun, IsForm, NoRow, NoRun, Closed, NoPost
<1>2. RowsOK
  BY DEF RowsOK, NoRow, Waiting
<1>3. RunsOK /\ ListsOK
  BY DEF RunsOK, ListsOK, NoRun
<1>4. FormsOK /\ CallsOK
  BY DEF FormsOK, CallsOK, Deciding, Closed, Gone
<1>5. TokensOK /\ DocumentOK
  BY DEF TokensOK, DocumentOK, EvidenceUsed, In, NoRow, NoRun, NoPost, Status
<1> QED BY <1>1, <1>2, <1>3, <1>4, <1>5 DEF QueueInv

\* Every step keeps the invariant.
LEMMA NextQueueInv == QueueInv /\ [Next]_vars => QueueInv'
<1> SUFFICES ASSUME QueueInv, [Next]_vars PROVE QueueInv'
  OBVIOUS
<1> USE DEF rest
<1>1. ASSUME NEW in \in Submission, SubmitActivities(in) PROVE QueueInv'
  BY <1>1, OtherKeeps DEF SubmitActivities
<1>2. ASSUME NEW g \in submission.todo, GroupFails(g) PROVE QueueInv'
  BY <1>2, OtherKeeps DEF GroupFails
<1>3. ASSUME NEW g \in submission.todo, ProcessGroup(g) PROVE QueueInv'
  <2>1. PICK from : Queue(g, from)
    BY <1>3 DEF ProcessGroup
  <2> QED BY <1>3, <2>1, QueueKeeps DEF ProcessGroup
<1>4. CASE AnswerSubmission
  BY <1>4, OtherKeeps DEF AnswerSubmission
<1>5. ASSUME NEW a \in Posted, PostEmissionsRequest(a, Poster) PROVE QueueInv'
  <2>1. PICK g : Queue(g, Poster)
    BY <1>5 DEF PostEmissionsRequest
  <2> QED BY <1>5, <2>1, QueueKeeps DEF PostEmissionsRequest
<1>6. CASE AddSupportingDocument
  BY <1>6, AttachKeeps
<1>7. CASE PostFails \/ MoveDocument
  BY <1>7, OtherKeeps DEF PostFails, MoveDocument
<1>8. CASE RegisterKey
  BY <1>8, OtherKeeps DEF RegisterKey
<1>9. ASSUME NEW j \in Job, Run(j) \/ RunFails(j) PROVE QueueInv'
  BY <1>9, SelectKeeps, PendingKeeps, EncryptKeeps, RunFailsKeeps DEF Run
<1>10. ASSUME NEW s \in Session, Auditing(s) PROVE QueueInv'
  <2>1. Decline(s) => QueueInv'
    BY CheckKeeps DEF Decline, Decided
  <2>2. TellIssued(s) => QueueInv'
    BY CheckKeeps DEF TellIssued, Decided
  <2> QED BY <1>10, <2>1, <2>2, FetchKeeps, IssueKeeps, VerdictKeeps, LeaveKeeps DEF Auditing
<1>11. CASE UNCHANGED vars
  BY <1>11, OtherKeeps DEF vars
<1> QED BY <1>1, <1>2, <1>3, <1>4, <1>5, <1>6, <1>7, <1>8, <1>9, <1>10, <1>11 DEF Next, Submitting

\* In every reachable state.
LEMMA QueueInvariant == Spec => []QueueInv
  BY InitQueueInv, NextQueueInv, PTL DEF Spec

-----------------------------------------------------------------------------
(* The properties. *)

\* TokensMatchRequests: a token is of the auditor whose manifest it carries, an ISSUED request
\* has one, and those of one request are the same (issue-form.tsx submit, issue_emissions_request).
THEOREM TokensMatch == Spec => []TokensMatchRequests
<1>1. QueueInv => TokensMatchRequests
  <2> SUFFICES ASSUME QueueInv PROVE TokensMatchRequests
    OBVIOUS
  <2>1. TokensOK
    BY DEF QueueInv
  <2>2. ASSUME NEW t \in tokens, NEW u \in tokens, t.request = u.request, t.request \notin shared
        PROVE  t = u
    <3>1. /\ t = [request |-> t.request, auditor |-> t.auditor, manifest |-> t.manifest]
          /\ u = [request |-> u.request, auditor |-> u.auditor, manifest |-> u.manifest]
          /\ t.auditor = u.auditor /\ t.manifest = u.manifest
      BY <2>1, <2>2 DEF TokensOK
    <3> QED BY <3>1, <2>2
  <2> QED BY <2>1, <2>2 DEF TokensMatchRequests, TokensOK
<1> QED BY <1>1, QueueInvariant, PTL

\* EvidenceUsed: the auditor gets the document of a request that has one, unless the request was
\* listed while it was posted (process_emissions_requests).
THEOREM EvidenceAlwaysUsed == Spec => []EvidenceUsed
<1>1. QueueInv => EvidenceUsed
  BY DEF QueueInv, DocumentOK
<1> QED BY <1>1, QueueInvariant, PTL

\* What a step may do to a request that waits no more and was on one list only.
AssignedRowKept ==
  \A r \in Request :
    request[r].status \notin Waiting /\ r \notin shared =>
      /\ request'[r].auditor = request[r].auditor /\ request'[r].manifest = request[r].manifest
      /\ \/ request'[r].status = request[r].status
         \/ /\ request'[r].status \in Decided
            /\ request[r].status = "PENDING" \/ r \in contested

\* Queueing writes a free row, updateToPending one that waits, the verdict a pending one.
LEMMA NextKeepsAssigned == QueueInv /\ [Next]_vars => AssignedRowKept
<1> SUFFICES ASSUME QueueInv, [Next]_vars PROVE AssignedRowKept
  OBVIOUS
<1> USE DEF rest
<1>0. Shaped /\ RunsOK /\ ListsOK /\ FormsOK /\ CallsOK /\ DocumentOK
  BY DEF QueueInv
<1>1. CASE UNCHANGED request
  BY <1>1 DEF AssignedRowKept
<1>2. ASSUME NEW g, NEW from, Queue(g, from) PROVE AssignedRowKept
  BY <1>0, <1>2, Queued DEF AssignedRowKept, Waiting
<1>3. CASE AddSupportingDocument
  <2> DEFINE x == post.request
  <2>1. request' = [request EXCEPT ![x].documented = TRUE] /\ x \in Request
    BY <1>0, <1>3 DEF AddSupportingDocument, DocumentOK
  <2>2. IsRow(request[x]) /\ request = [r \in Request |-> request[r]]
    BY <1>0, <2>1 DEF Shaped
  <2> HIDE DEF x
  <2>3. request'[x] = [request[x] EXCEPT !.documented = TRUE]
    BY <2>1, <2>2
  <2>4. \A r \in Request \ {x} : request'[r] = request[r]
    BY <2>1, <2>2
  <2>5. /\ request'[x].status = request[x].status
        /\ request'[x].auditor = request[x].auditor /\ request'[x].manifest = request[x].manifest
    BY ONLY <2>2, <2>3 DEF IsRow
  <2> QED BY <2>4, <2>5 DEF AssignedRowKept
<1>4. ASSUME NEW j \in Job, UpdateToPending(j) PROVE AssignedRowKept
  <2> DEFINE x == job[j].request
             a == job[j].auditor
             m == job[j].manifest
  <2>1. /\ request' = [request EXCEPT ![x].status = "PENDING", ![x].auditor = a, ![x].manifest = m]
        /\ x \in job[j].todo /\ x \in Request
    BY <1>0, <1>4 DEF UpdateToPending, RunsOK
  <2>2. x \notin shared => request[x].status = "CREATED"
    BY <1>0, <2>1 DEF ListsOK
  <2> HIDE DEF x, a, m
  <2>3. \A r \in Request \ {x} : request'[r] = request[r]
    BY <1>0, <2>1 DEF Shaped
  <2> QED BY <2>2, <2>3 DEF AssignedRowKept, Waiting
<1>5. ASSUME NEW s \in Session, UpdateStatus(s) PROVE AssignedRowKept
  <2> DEFINE x == session[s].request
             d == session[s].verdict
  <2>1. /\ request' = [request EXCEPT ![x].status = d] /\ session[s].at = "update"
        /\ x \in Request
    BY <1>0, <1>5 DEF UpdateStatus, FormsOK, Gone
  <2>2. d \in Decided /\ (request[x].status = "PENDING" \/ x \in contested \cup shared)
    BY <1>0, <2>1 DEF CallsOK
  <2>3. IsRow(request[x]) /\ request = [r \in Request |-> request[r]]
    BY <1>0, <2>1 DEF Shaped
  <2> HIDE DEF x, d
  <2>4. request'[x] = [request[x] EXCEPT !.status = d]
    BY <2>1, <2>3
  <2>5. \A r \in Request \ {x} : request'[r] = request[r]
    BY <2>1, <2>3
  <2>6. /\ request'[x].status = d
        /\ request'[x].auditor = request[x].auditor /\ request'[x].manifest = request[x].manifest
    BY ONLY <2>3, <2>4 DEF IsRow
  <2> QED BY <2>2, <2>5, <2>6 DEF AssignedRowKept
<1>6. \/ UNCHANGED request
      \/ \E g, from : Queue(g, from)
      \/ AddSupportingDocument
      \/ \E j \in Job : UpdateToPending(j)
      \/ \E s \in Session : UpdateStatus(s)
  <2>1. ASSUME Submitting PROVE UNCHANGED request \/ (\E g, from : Queue(g, from)) \/ AddSupportingDocument
    BY <2>1 DEF Submitting, SubmitActivities, GroupFails, ProcessGroup, AnswerSubmission,
                PostEmissionsRequest, PostFails
  <2>2. ASSUME NEW j \in Job, Run(j) \/ RunFails(j) PROVE UNCHANGED request \/ UpdateToPending(j)
    BY <2>2 DEF Run, RunFails, SelectCreated, EncryptEvidence
  <2>3. ASSUME NEW s \in Session, Auditing(s) PROVE UNCHANGED request \/ UpdateStatus(s)
    BY <2>3 DEF Auditing, FetchEmissionsRequest, IssueToken, Decline, TellIssued, CheckPending, LeaveForm
  <2> QED BY <2>1, <2>2, <2>3 DEF Next, MoveDocument, RegisterKey, vars
<1> QED BY <1>1, <1>2, <1>3, <1>4, <1>5, <1>6

\* AssignedOnce: a request keeps its auditor and its manifest, and does not go back in the queue
\* (selectCreated, updateToPending).
THEOREM RequestsAssignedOnce == Spec => AssignedOnce
<1> DEFINE Kept ==
      \A r \in Request :
        request[r].status \notin {"none", "CREATED"} /\ r \notin shared =>
          /\ request'[r].auditor = request[r].auditor
          /\ request'[r].manifest = request[r].manifest
          /\ request[r].status = "PENDING" \/ request'[r].status \in Decided
<1>1. QueueInv /\ [Next]_vars => Kept
  <2> SUFFICES ASSUME QueueInv, [Next]_vars PROVE Kept
    OBVIOUS
  <2>1. AssignedRowKept
    BY NextKeepsAssigned
  <2>2. \A r \in Request : request[r].status \notin Waiting =>
          request[r].status = "PENDING" \/ request[r].status \in Decided
    BY DEF QueueInv, RowsOK, Waiting, Status, Decided
  <2> QED BY <2>1, <2>2 DEF AssignedRowKept, Waiting
<1>2. AssignedOnce <=> [][Kept]_vars
  BY PTL DEF AssignedOnce
<1> HIDE DEF Kept
<1> QED BY <1>1, <1>2, QueueInvariant, PTL DEF Spec

\* VerdictStands: what is decided stays (decline_emissions_request, issue_emissions_request).
THEOREM VerdictsStand == Spec => VerdictStands
<1> DEFINE Stands ==
      \A r \in In(Decided) \ (shared \cup contested) : request'[r].status = request[r].status
<1>1. QueueInv /\ [Next]_vars => Stands
  <2> SUFFICES ASSUME QueueInv, [Next]_vars PROVE Stands
    OBVIOUS
  <2>1. AssignedRowKept
    BY NextKeepsAssigned
  <2> QED BY <2>1 DEF AssignedRowKept, In, Decided, Waiting
<1>2. VerdictStands <=> [][Stands]_vars
  BY PTL DEF VerdictStands
<1> HIDE DEF Stands
<1> QED BY <1>1, <1>2, QueueInvariant, PTL DEF Spec

-----------------------------------------------------------------------------
(* What an activity emits, and the groups of a list. *)

\* The newest of some factors is one of them.
LEMMA NewestIs ==
  ASSUME NEW S \in SUBSET Factor
  PROVE  Newest(S) # None => Newest(S) \in S
<1>1. CASE S = {}
  BY <1>1 DEF Newest
<1>2. CASE S # {}
  <2>1. IsFiniteSet(S) /\ \A f \in S : f.year \in Nat
    BY ActivityAssumption, FS_Subset
  <2>2. \A x \in S : [f \in S |-> f.year][x] \in Nat
    BY <2>1
  <2>3. PICK x \in S : \A y \in S : [f \in S |-> f.year][y] <= [f \in S |-> f.year][x]
    BY <1>2, <2>1, <2>2, Greatest
  <2>5. \E f \in S : \A g \in S : g.year <= f.year
    BY <2>3
  <2> QED BY <1>2, <2>5 DEF Newest
<1> QED BY <1>1, <1>2

\* A factor that is found is of the table, and has the key that was asked for.
LEMMA FactorIs ==
  ASSUME NEW key, NEW from, NEW thru
  PROVE  /\ EmissionFactor(key, from, thru) # None =>
              EmissionFactor(key, from, thru) \in Factor /\ EmissionFactor(key, from, thru).key = key
         /\ FactorFor(key, from, thru) # None =>
              FactorFor(key, from, thru) \in Factor /\ FactorFor(key, from, thru).key = key
<1>1. ASSUME NEW f, NEW t, EmissionFactor(key, f, t) # None
      PROVE  EmissionFactor(key, f, t) \in Factor /\ EmissionFactor(key, f, t).key = key
  <2> DEFINE asked == FactorsOf(key, f, t)
             last == {x \in FactorsOf(key, None, None) :
                        \A g \in Factor : g.key[1] = key[1] => g.year <= x.year}
  <2>1. PICK S : S = IF asked = {} /\ {f, t} # {None} THEN last ELSE asked
    OBVIOUS
  <2>2. \A x \in S : x \in Factor /\ x.key = key
    BY <2>1 DEF FactorsOf
  <2>3. EmissionFactor(key, f, t) = Newest(S)
    BY <2>1 DEF EmissionFactor
  <2> QED BY <1>1, <2>2, <2>3, NewestIs
<1> QED BY <1>1 DEF FactorFor

\* A result tells whether there was one, and a whole number of units.
Sound(p) == p.ok \in BOOLEAN /\ p.emissions \in Nat

\* The two kinds of results.
LEMMA Results ==
  ASSUME NEW n \in Nat, NEW m
  PROVE  Sound(Emits(n, m)) /\ Emits(n, m).mode = m /\ Sound(Failed) /\ ~Failed.ok
  BY DEF Sound, Emits, Failed

\* What processing a factor tells.
LEMMA FactorEmits ==
  ASSUME NEW a, IsActivity(a), NEW key
  PROVE  Sound(ProcessEmissionsFactor(a, key))
<1>1. PICK f : f = FactorFor(key, a.from, a.thru)
  OBVIOUS
<1>2. f # None => f.kg \in Nat
  BY <1>1, FactorIs, ActivityAssumption
<1>3. a.quantity \in Nat
  BY DEF IsActivity
<1>5. f # None => f.kg * a.quantity \in Nat
  BY <1>2, <1>3
<1>7. \/ ProcessEmissionsFactor(a, key) = Failed
      \/ f # None /\ \E m : ProcessEmissionsFactor(a, key) = Emits(f.kg * a.quantity, m)
  BY <1>1 DEF ProcessEmissionsFactor
<1> QED BY <1>5, <1>7, Results

\* An activity emits a whole number of units; a shipment that was processed has a mode.
LEMMA Processed ==
  ASSUME NEW a, IsActivity(a)
  PROVE  /\ Sound(ProcessActivity(a))
         /\ a.type = "shipment" /\ ProcessActivity(a).ok => ProcessActivity(a).mode # None
<1>a. a.quantity \in Nat /\ a.gwp \in Nat /\ a.type \in ActivityType
  BY DEF IsActivity
<1>g. \A x \in Factor : x.kg * a.quantity \in Nat
  <2>1. \A x \in Factor : x.kg \in Nat
    BY ActivityAssumption
  <2> QED BY <1>a, <2>1
<1>1. CASE a.type = "shipment"
  <2>1. PICK f : f = FactorFor(<<"carrier", a.mode>>, a.thru, a.thru)
    OBVIOUS
  <2>2. f # None => f \in Factor /\ f.key = <<"carrier", a.mode>>
    BY <2>1, FactorIs
  <2>3. f # None => a.mode # None
    BY <2>2, ActivityAssumption
  <2>4. \/ ProcessShipment(a) = Failed
        \/ f # None /\ ProcessShipment(a) = Emits(f.kg * a.quantity, a.mode)
    BY <2>1 DEF ProcessShipment
  <2>5. ProcessActivity(a) = ProcessShipment(a)
    BY <1>1 DEF ProcessActivity
  <2> QED BY Results, <1>g, <2>2, <2>3, <2>4, <2>5
<1>2. CASE a.type = "flight"
  <2>1. PICK f : f = FactorFor(a.key, a.thru, a.thru)
    OBVIOUS
  <2>2. f # None => f \in Factor
    BY <2>1, FactorIs
  <2>4. \/ ProcessFlight(a) = Failed
        \/ f # None /\ ProcessFlight(a) = Emits(f.kg * a.quantity, "air")
    BY <2>1 DEF ProcessFlight
  <2>5. ProcessActivity(a) = ProcessFlight(a)
    BY <1>2 DEF ProcessActivity
  <2> QED BY <1>2, Results, <1>g, <2>2, <2>4, <2>5
<1>3. CASE a.type \in {"emissions_factor", "natural_gas"}
  <2>1. PICK k : ProcessActivity(a) = ProcessEmissionsFactor(a, k)
    BY <1>3 DEF ProcessActivity
  <2> QED BY <1>3, <2>1, FactorEmits
<1>4. CASE a.type = "electricity"
  <2>1. PICK k : k = IF EmissionFactor(a.key, a.from, a.thru) # None THEN a.key ELSE Usa
    OBVIOUS
  <2>2. \/ ProcessElectricity(a) = Failed \/ ProcessElectricity(a) = ProcessEmissionsFactor(a, k)
        \/ ProcessElectricity(a) = ProcessEmissionsFactor(a, a.key)
    BY <2>1 DEF ProcessElectricity
  <2>3. ProcessActivity(a) = ProcessElectricity(a)
    BY <1>4 DEF ProcessActivity
  <2> QED BY <1>4, Results, <2>2, <2>3, FactorEmits
<1>5. CASE a.type = "industry"
  <2>1. PICK f : f = EmissionFactor(NaturalGas, None, None)
    OBVIOUS
  <2>2. f # None => f \in Factor
    BY <2>1, FactorIs
  <2>3. PICK n \in Nat : n = (IF a.gwp \in {0, 1} THEN 28 ELSE a.gwp) * a.quantity
    <3>1. PICK w \in Nat : w = IF a.gwp \in {0, 1} THEN 28 ELSE a.gwp
      BY <1>a
    <3>2. w * a.quantity \in Nat
      BY <1>a
    <3> QED BY <3>1, <3>2
  <2>4. \/ ProcessIndustry(a) = Failed
        \/ ProcessIndustry(a) = Emits(a.quantity, None)
        \/ f # None /\ ProcessIndustry(a) = Emits(f.kg * a.quantity, None)
        \/ ProcessIndustry(a) = Emits(n, None)
    BY <2>1, <2>3 DEF ProcessIndustry
  <2>5. ProcessActivity(a) = ProcessIndustry(a)
    BY <1>5 DEF ProcessActivity
  <2> QED BY <1>5, <1>a, Results, <1>g, <2>2, <2>3, <2>4, <2>5
<1>6. CASE a.type = "other"
  <2>1. ProcessActivity(a) = Emits(0, None)
    BY <1>6 DEF ProcessActivity
  <2> QED BY <1>6, Results, <2>1
<1> QED BY <1>1, <1>2, <1>3, <1>4, <1>5, <1>6, <1>a DEF ActivityType

\* The dates of an activity.
LEMMA DatesAre == ASSUME NEW a, IsActivity(a) PROVE FromDate(a) \in Nat /\ ThruDate(a) \in Nat
  BY ActivityAssumption DEF IsActivity, FromDate, ThruDate

\* The least and the greatest of finitely many dates.
LEMMA Extremes ==
  ASSUME NEW S, IsFiniteSet(S), S # {}, S \in SUBSET Nat
  PROVE  Min(S) \in Nat /\ Max(S) \in Nat /\ \A x \in S : Min(S) <= x /\ x <= Max(S)
<1>1. \E x \in S : \A y \in S : x <= y
  BY LeastNumber
<1>2. \A x \in S : [y \in S |-> y][x] \in Nat
  OBVIOUS
<1>3. PICK x \in S : \A y \in S : [z \in S |-> z][y] <= [z \in S |-> z][x]
  BY <1>2, Greatest
<1>4. \A y \in S : x >= y
  BY <1>3
<1>5. Min(S) \in S /\ \A y \in S : Min(S) <= y
  BY <1>1 DEF Min
<1>6. Max(S) \in S /\ \A y \in S : Max(S) >= y
  BY <1>4 DEF Max
<1> QED BY <1>5, <1>6

KgOf(A) == [a \in A |-> Kg(a)]
Members(A, d, k) == {a \in A \ Errors(A) : GroupKey(a, d) = k}

\* What a group says of its activities, of the list A with the default issuer d.
IsGroup(g, A, d) ==
  /\ g.content \in SUBSET (A \ Errors(A)) /\ g.content # {}
  /\ g.total = SumFunctionOnSet(KgOf(A), g.content) /\ g.total \in Nat
  /\ g.from \in Nat /\ g.thru \in Nat
  /\ \A a \in g.content : /\ g.from <= FromDate(a) /\ ThruDate(a) <= g.thru
                          /\ SetIssuedFrom(a, d) = g.issued_from
                          /\ \A b \in g.content : b.type = a.type

\* The amounts of a list are numbers.
LEMMA KgType ==
  ASSUME NEW A, IsFiniteSet(A), \A a \in A : IsActivity(a), NEW S \in SUBSET A
  PROVE  /\ IsFiniteSet(S) /\ \A a \in S : KgOf(A)[a] \in Nat /\ Kg(a) \in Nat /\ KgOf(A)[a] = Kg(a)
         /\ SumFunctionOnSet(KgOf(A), S) \in Nat
         /\ SumFunctionOnSet([a \in S |-> Kg(a)], S) = SumFunctionOnSet(KgOf(A), S)
<1>1. \A a \in A : Kg(a) \in Nat
  BY Processed DEF Kg, Sound
<1>2. \A a \in S : KgOf(A)[a] = Kg(a) /\ KgOf(A)[a] \in Nat
  BY <1>1 DEF KgOf
<1>3. IsFiniteSet(S)
  BY FS_Subset
<1>4. \A a \in S : KgOf(A)[a] \in Int /\ [x \in S |-> Kg(x)][a] = KgOf(A)[a]
  BY <1>2
<1>5. SumFunctionOnSet([a \in S |-> Kg(a)], S) = SumFunctionOnSet(KgOf(A), S)
  BY <1>3, <1>4, SumSame
<1>6. SumFunctionOnSet(KgOf(A), S) \in Nat
  BY <1>2, <1>3, SumNat
<1> QED BY <1>1, <1>2, <1>3, <1>5, <1>6

\* One group.
LEMMA OneGroup ==
  ASSUME NEW A, IsFiniteSet(A), \A a \in A : IsActivity(a), NEW d, NEW b \in A \ Errors(A),
         NEW k, k = GroupKey(b, d), NEW g, g = Group(Members(A, d, k), k[3])
  PROVE  IsGroup(g, A, d) /\ g.content = Members(A, d, k)
<1> DEFINE S == Members(A, d, k)
<1>1. S \in SUBSET (A \ Errors(A)) /\ S \in SUBSET A /\ b \in S
  BY DEF Members
<1>2. /\ g.content = S /\ g.total = SumFunction([a \in S |-> Kg(a)]) /\ g.issued_from = k[3]
      /\ g.from = Min({FromDate(a) : a \in S}) /\ g.thru = Max({ThruDate(a) : a \in S})
  BY DEF Group
<1>3. g.total = SumFunctionOnSet([a \in S |-> Kg(a)], S)
  BY <1>2 DEF SumFunction
<1>4. \A a \in S : a.type = k[1] /\ SetIssuedFrom(a, d) = k[3]
  BY DEF Members, GroupKey
<1> HIDE DEF S
<1>5. IsFiniteSet(S)
  BY <1>1, FS_Subset
<1>6. /\ g.from \in Nat /\ g.thru \in Nat
      /\ \A a \in S : g.from <= FromDate(a) /\ ThruDate(a) <= g.thru
  <2>1. \A a \in S : FromDate(a) \in Nat /\ ThruDate(a) \in Nat
    BY <1>1, DatesAre
  <2>2. IsFiniteSet({FromDate(a) : a \in S}) /\ IsFiniteSet({ThruDate(a) : a \in S})
    <3> DEFINE F == {FromDate(a) : a \in S}
               T == {ThruDate(a) : a \in S}
    <3>1. [a \in S |-> FromDate(a)] \in Surjection(S, F) /\ [a \in S |-> ThruDate(a)] \in Surjection(S, T)
      BY DEF Surjection
    <3> QED BY <1>5, <3>1, FS_Surjection
  <2>3. {FromDate(a) : a \in S} # {} /\ {ThruDate(a) : a \in S} # {}
    BY <1>1
  <2>4. {FromDate(a) : a \in S} \in SUBSET Nat /\ {ThruDate(a) : a \in S} \in SUBSET Nat
    BY <2>1
  <2> QED BY <1>2, <2>2, <2>3, <2>4, Extremes
<1>7. g.total = SumFunctionOnSet(KgOf(A), S) /\ g.total \in Nat
  BY <1>1, <1>3, KgType
<1>8. /\ g.content \in SUBSET (A \ Errors(A)) /\ g.content # {} /\ g.total = SumFunctionOnSet(KgOf(A), g.content) /\ g.total \in Nat
      /\ \A a \in g.content : SetIssuedFrom(a, d) = g.issued_from /\ \A c \in g.content : c.type = a.type
  BY <1>1, <1>2, <1>4, <1>7
<1>9. g.content = Members(A, d, k)
  BY <1>2 DEF S
<1> QED BY <1>2, <1>6, <1>8, <1>9 DEF IsGroup

\* Every activity of a list is an error or in one group, which is of its kind, dates and issuer.
LEMMA GroupsAre ==
  ASSUME NEW A, IsFiniteSet(A), \A a \in A : IsActivity(a), NEW d, NEW G, G = GroupProcessedActivities(A, d)
  PROVE  /\ \A g \in G : IsGroup(g, A, d)
         /\ \A g, h \in G : \A a \in g.content : a \in h.content => g = h
         /\ \A a \in A \ Errors(A) : \E g \in G : a \in g.content
<1>1. {a \in A \ Errors(A) : a.type = "shipment" => ProcessActivity(a).mode # None} = A \ Errors(A)
  BY Processed DEF Errors
<1>2. G = {Group({a \in A \ Errors(A) : GroupKey(a, d) = k}, k[3]) : k \in {GroupKey(a, d) : a \in A \ Errors(A)}}
  BY <1>1 DEF GroupProcessedActivities
<1>3. G = {Group(Members(A, d, k), k[3]) : k \in {GroupKey(a, d) : a \in A \ Errors(A)}}
  BY <1>2 DEF Members
<1>4. ASSUME NEW g \in G
      PROVE  IsGroup(g, A, d) /\ \E k : g = Group(Members(A, d, k), k[3]) /\ g.content = Members(A, d, k)
  <2>1. PICK b \in A \ Errors(A) : \E k : k = GroupKey(b, d) /\ g = Group(Members(A, d, k), k[3])
    BY <1>3, <1>4
  <2>2. PICK k : k = GroupKey(b, d) /\ g = Group(Members(A, d, k), k[3])
    BY <2>1
  <2> QED BY <2>2, OneGroup
<1>5. ASSUME NEW g \in G, NEW h \in G, NEW a \in g.content, a \in h.content PROVE g = h
  <2>1. PICK k : g = Group(Members(A, d, k), k[3]) /\ g.content = Members(A, d, k)
    BY <1>4
  <2>2. PICK l : h = Group(Members(A, d, l), l[3]) /\ h.content = Members(A, d, l)
    BY <1>4
  <2>3. k = GroupKey(a, d) /\ l = GroupKey(a, d)
    BY <1>5, <2>1, <2>2 DEF Members
  <2> QED BY <2>1, <2>2, <2>3
<1>6. ASSUME NEW a \in A \ Errors(A) PROVE \E g \in G : a \in g.content
  <2>1. PICK k : k = GroupKey(a, d)
    OBVIOUS
  <2>2. Group(Members(A, d, k), k[3]) \in G
    BY <1>3, <2>1
  <2>3. a \in Members(A, d, k)
    BY <2>1 DEF Members
  <2>4. Group(Members(A, d, k), k[3]).content = Members(A, d, k)
    BY DEF Group
  <2> QED BY <2>2, <2>3, <2>4
<1> QED BY <1>4, <1>5, <1>6

-----------------------------------------------------------------------------
(* What a step does to a row and to a run. *)

\* Rows of the same activities.
SameBatch(v, w) ==
  /\ v.issued_from = w.issued_from /\ v.total = w.total /\ v.from = w.from /\ v.thru = w.thru
  /\ v.content = w.content

\* A row that is queued changes its status, and with it its manifest.
RowMoves(r) ==
  /\ request[r].status # "none" /\ SameBatch(request'[r], request[r])
  /\ request'[r].documented \in {TRUE, request[r].documented}
  /\ \/ request'[r].manifest = request[r].manifest
        /\ request'[r].status # "none" /\ (request'[r].status = "CREATED" <=> request[r].status = "CREATED")
     \/ request'[r].status = "PENDING"
        /\ \E j \in Job : job[j].at = "update" /\ request'[r].manifest = job[j].manifest
RowQueued(r) ==
  /\ request[r].status = "none"
  /\ \/ \E g \in submission.todo :
          /\ ProcessGroup(g) /\ r = NewId
          /\ request'[r] = NewRow(g, IF submission.api THEN submission.from ELSE g.issued_from)
     \/ \E a \in Posted : \E thru :
          /\ thru = IF a.thru = None THEN Now ELSE a.thru
          /\ request'[r] = NewRow([Group({a}, Poster) EXCEPT !.thru = thru], Poster)
          /\ UNCHANGED submission

\* The document that is to be attached belongs to a row that is queued.
PostKnown == post.at = "attach" => post.request \in Request /\ request[post.request].status # "none"

\* The row that is queued.
LEMMA QueuedIs ==
  ASSUME Shaped, NEW g, NEW from, Queue(g, from)
  PROVE  /\ NewId \in Request /\ request[NewId].status = "none" /\ request'[NewId] = NewRow(g, from)
         /\ \A r \in Request \ {NewId} : request'[r] = request[r]
<1>1. NewId \in Free
  BY DEF Queue, NewId
<1>2. NewId \in Request /\ request[NewId].status = "none"
  BY <1>1 DEF Free, In
<1>3. request'[NewId] = NewRow(g, from) /\ \A r \in Request \ {NewId} : request'[r] = request[r]
  BY <1>2 DEF Queue, Shaped
<1> QED BY <1>2, <1>3

\* Rows that are not queued do not change but in status, auditor, manifest and document.
LEMMA RowSteps ==
  ASSUME QueueInv, PostKnown, [Next]_vars, NEW r \in Request
  PROVE  request'[r] = request[r] \/ RowMoves(r) \/ RowQueued(r)
<1> USE DEF QueueInv
<1>s. request = [q \in Request |-> request[q]] /\ \A q \in Request : IsRow(request[q])
  BY DEF Shaped
<1>1. CASE UNCHANGED request
  BY <1>1
<1>2. ASSUME NEW g \in submission.todo, ProcessGroup(g) PROVE request'[r] = request[r] \/ RowQueued(r)
  <2>1. PICK from : from = IF submission.api THEN submission.from ELSE g.issued_from
    OBVIOUS
  <2>2. Queue(g, from)
    BY <1>2, <2>1 DEF ProcessGroup
  <2> QED BY <1>2, <2>1, <2>2, QueuedIs DEF RowQueued
<1>3. ASSUME NEW a \in Posted, PostEmissionsRequest(a, Poster) PROVE request'[r] = request[r] \/ RowQueued(r)
  <2>1. PICK thru : thru = IF a.thru = None THEN Now ELSE a.thru
    OBVIOUS
  <2>2. Queue([Group({a}, Poster) EXCEPT !.thru = thru], Poster)
    BY <1>3, <2>1 DEF PostEmissionsRequest
  <2>3. UNCHANGED submission
    BY <1>3 DEF PostEmissionsRequest
  <2>4. PICK g : g = [Group({a}, Poster) EXCEPT !.thru = thru]
    OBVIOUS
  <2>5. /\ request[NewId].status = "none" /\ request'[NewId] = NewRow(g, Poster)
        /\ \A q \in Request \ {NewId} : request'[q] = request[q]
    BY <2>2, <2>4, QueuedIs
  <2>6. CASE r = NewId
    BY <2>1, <2>3, <2>4, <2>5, <2>6 DEF RowQueued
  <2> QED BY <2>5, <2>6
<1>4. CASE AddSupportingDocument
  <2>1. PICK x : x = post.request
    OBVIOUS
  <2>2. x \in Request /\ request' = [request EXCEPT ![x].documented = TRUE] /\ request[x].status \in Status \cup {"none"}
    BY <1>4, <2>1 DEF AddSupportingDocument, DocumentOK, RowsOK, PostKnown
  <2>3. CASE r = x
    <3>1. request'[r] = [request[r] EXCEPT !.documented = TRUE]
      BY <1>s, <2>2, <2>3
    <3>2. IsRow(request[r])
      BY <1>s
    <3>3. /\ request'[r].status = request[r].status /\ SameBatch(request'[r], request[r])
          /\ request'[r].manifest = request[r].manifest /\ request'[r].documented = TRUE
      BY ONLY <3>1, <3>2 DEF IsRow, SameBatch
    <3>4. request[r].status # "none"
      BY <1>4, <2>1, <2>3 DEF AddSupportingDocument, PostKnown
    <3> QED BY <3>3, <3>4 DEF RowMoves
  <2>4. CASE r # x
    BY <1>s, <2>2, <2>4
  <2> QED BY <2>3, <2>4
<1>5. ASSUME NEW j \in Job, UpdateToPending(j) PROVE request'[r] = request[r] \/ RowMoves(r)
  <2>1. PICK x, a, m : x = job[j].request /\ a = job[j].auditor /\ m = job[j].manifest
    OBVIOUS
  <2>2. /\ x \in Request /\ job[j].at = "update" /\ request[x].status # "none"
        /\ request' = [request EXCEPT ![x].status = "PENDING", ![x].auditor = a, ![x].manifest = m]
    BY <1>5, <2>1 DEF UpdateToPending, RunsOK, ListsOK
  <2>3. CASE r = x
    <3>1. request'[r] = [request[r] EXCEPT !.status = "PENDING", !.auditor = a, !.manifest = m]
      BY <1>s, <2>2, <2>3
    <3>2. IsRow(request[r])
      BY <1>s
    <3>3. /\ request'[r].status = "PENDING" /\ SameBatch(request'[r], request[r])
          /\ request'[r].manifest = m /\ request'[r].documented = request[r].documented
      BY ONLY <3>1, <3>2 DEF IsRow, SameBatch
    <3> QED BY <2>1, <2>2, <2>3, <3>3 DEF RowMoves
  <2>4. CASE r # x
    BY <1>s, <2>2, <2>4
  <2> QED BY <2>3, <2>4
<1>6. ASSUME NEW s \in Session, UpdateStatus(s) PROVE request'[r] = request[r] \/ RowMoves(r)
  <2>1. PICK x, d : x = session[s].request /\ d = session[s].verdict
    OBVIOUS
  <2>2. /\ x \in Request /\ request[x].status \notin Waiting /\ d \in Decided
        /\ request' = [request EXCEPT ![x].status = d]
    BY <1>6, <2>1 DEF UpdateStatus, FormsOK, CallsOK, Gone
  <2>3. CASE r = x
    <3>1. request'[r] = [request[r] EXCEPT !.status = d]
      BY <1>s, <2>2, <2>3
    <3>2. IsRow(request[r])
      BY <1>s
    <3>3. /\ request'[r].status = d /\ SameBatch(request'[r], request[r])
          /\ request'[r].manifest = request[r].manifest /\ request'[r].documented = request[r].documented
      BY ONLY <3>1, <3>2 DEF IsRow, SameBatch
    <3>4. d # "none" /\ d # "CREATED" /\ request[r].status # "none" /\ request[r].status # "CREATED"
      BY <2>2, <2>3 DEF Decided, Waiting
    <3> QED BY <3>3, <3>4 DEF RowMoves
  <2>4. CASE r # x
    BY <1>s, <2>2, <2>4
  <2> QED BY <2>3, <2>4
<1>7. ASSUME NEW s \in Session, Auditing(s) PROVE request' = request \/ UpdateStatus(s)
  BY <1>7 DEF Auditing, FetchEmissionsRequest, IssueToken, Decline, TellIssued, CheckPending, LeaveForm
<1>8. ASSUME NEW j \in Job, Run(j) \/ RunFails(j) PROVE request' = request \/ UpdateToPending(j)
  BY <1>8 DEF Run, RunFails, SelectCreated, EncryptEvidence
<1>9. ASSUME Submitting
      PROVE  \/ request' = request \/ AddSupportingDocument
             \/ \E g \in submission.todo : ProcessGroup(g)
             \/ \E a \in Posted : PostEmissionsRequest(a, Poster)
  BY <1>9 DEF Submitting, SubmitActivities, GroupFails, AnswerSubmission, PostFails
<1>10. CASE MoveDocument \/ RegisterKey \/ UNCHANGED vars
  BY <1>10 DEF MoveDocument, RegisterKey, vars
<1> QED BY <1>1, <1>2, <1>3, <1>4, <1>5, <1>6, <1>7, <1>8, <1>9, <1>10 DEF Next

\* A run at its update has encrypted the evidence for the auditor it took.
LEMMA RunSteps ==
  ASSUME QueueInv, [Next]_vars, NEW j \in Job, job'[j].at = "update"
  PROVE  (job[j].at = "update" /\ job'[j].manifest = job[j].manifest) \/ job'[j].manifest \in Manifest
<1> USE DEF QueueInv
<1>s. job = [i \in Job |-> job[i]] /\ \A i \in Job : IsRun(job[i])
  BY DEF Shaped
<1>1. CASE UNCHANGED job
  BY <1>1
<1>2. ASSUME NEW i \in Job, RunFails(i) PROVE job'[j] = job[j]
  <2>1. job' = [job EXCEPT ![i] = NoRun]
    BY <1>2 DEF RunFails
  <2> QED BY <1>s, <2>1 DEF NoRun
<1>3. ASSUME NEW i \in Job, SelectCreated(i) PROVE job'[j] = job[j]
  <2>1. PICK w : w = [NoRun EXCEPT !.at = "next", !.todo = Selected, !.auditors = keyed] /\ job' = [job EXCEPT ![i] = w]
    BY <1>3 DEF SelectCreated
  <2>2. w.at = "next"
    BY <2>1 DEF NoRun
  <2> QED BY <1>s, <2>1, <2>2
<1>4. ASSUME NEW i \in Job, UpdateToPending(i) PROVE job'[j] = job[j]
  <2>1. PICK td, w : /\ w = IF job[i].todo = {job[i].request} THEN NoRun
                            ELSE [job[i] EXCEPT !.at = "next", !.todo = td, !.request = None, !.auditor = None,
                                                !.manifest = None]
                     /\ job' = [job EXCEPT ![i] = w]
    BY <1>4 DEF UpdateToPending
  <2>2. IsRun(job[i])
    BY <1>s
  <2>3. w.at # "update"
    BY ONLY <2>1, <2>2 DEF IsRun, NoRun
  <2> QED BY <1>s, <2>1, <2>3
<1>5. ASSUME NEW i \in Job, NEW a \in Auditor, EncryptEvidence(i, a)
      PROVE  job'[j] = job[j] \/ job'[j].manifest \in Manifest
  <2>1. PICK x, m, w : /\ x = NextOf(i) /\ m = [of |-> Evidence(x), for |-> a]
                       /\ w = IF Missing(x) THEN NoRun
                              ELSE [job[i] EXCEPT !.at = "update", !.request = x, !.auditor = a, !.manifest = m]
                       /\ job' = [job EXCEPT ![i] = w]
    BY <1>5 DEF EncryptEvidence
  <2>2. IsRun(job[i])
    BY <1>s
  <2>3. w.at = "update" => w.manifest = m
    BY ONLY <2>1, <2>2 DEF IsRun, NoRun
  <2>4. m \in Manifest
    BY <2>1 DEF Manifest, Evidence
  <2> QED BY <1>s, <2>1, <2>3, <2>4
<1>6. ASSUME NEW i \in Job, Run(i) PROVE SelectCreated(i) \/ UpdateToPending(i) \/ \E a \in Auditor : EncryptEvidence(i, a)
  BY <1>6 DEF Run
<1>7. ASSUME NEW s \in Session, Auditing(s) PROVE UNCHANGED job
  BY <1>7 DEF Auditing, FetchEmissionsRequest, IssueToken, Decline, TellIssued, CheckPending, LeaveForm, UpdateStatus
<1>8. CASE Submitting
  <2>1. UNCHANGED job
    BY <1>8 DEF Submitting, SubmitActivities, GroupFails, ProcessGroup, AnswerSubmission, PostEmissionsRequest,
                AddSupportingDocument, PostFails
  <2> QED BY <1>1, <2>1
<1>9. CASE MoveDocument \/ RegisterKey \/ UNCHANGED vars
  <2>1. UNCHANGED job
    BY <1>9 DEF MoveDocument, RegisterKey, vars
  <2> QED BY <1>1, <2>1
<1> QED BY <1>1, <1>2, <1>3, <1>4, <1>5, <1>6, <1>7, <1>8, <1>9 DEF Next

-----------------------------------------------------------------------------
(* The list that is being queued. *)

Open == {"queue", "answered"}
Submitted == UNION {in.activities : in \in Submission}
Default == IF submission.api THEN submission.from ELSE DefaultFrom
Issuer(a) ==
  IF ~submission.api THEN SetIssuedFrom(a, DefaultFrom)
  ELSE IF submission.from = None THEN DefaultFrom ELSE submission.from
\* The activities that are not yet reported.
Unreported ==
  {a \in submission.activities :
     \/ a \in Errors(submission.activities) /\ submission.at = "queue"
     \/ \E g \in submission.todo : a \in g.content}
Done == {o \in submission.output : o.result # "error"}
Made == {o.result : o \in Done}
Counted == {o.activity : o \in Done}
Totals == [r \in Request |-> request[r].total]

\* Of the activities A, all but those in P are reported, each of them once.
Reports(output, A, P) ==
  /\ \A o \in output : o = [activity |-> o.activity, result |-> o.result] /\ o.activity \in A
  /\ \A o, p \in output : o.activity = p.activity => o = p
  /\ \A a \in A : (\E o \in output : o.activity = a) <=> a \notin P

\* A list is of activities that were submitted; what is to do are groups of it.
ListOK ==
  /\ submission = [at |-> submission.at, activities |-> submission.activities, todo |-> submission.todo,
                   output |-> submission.output, from |-> submission.from, api |-> submission.api]
  /\ submission.at \in {"idle", "failed"} \cup Open
  /\ submission.at = "answered" => submission.todo = {}
  /\ submission.at \in Open =>
       /\ submission.activities \subseteq Submitted /\ IsFiniteSet(submission.activities)
       /\ \A a \in submission.activities : IsActivity(a)
       /\ submission.from \in STRING \cup {None}
       /\ submission.todo \subseteq GroupProcessedActivities(submission.activities, Default)
       /\ Reports(submission.output, submission.activities, Unreported)

\* The row w is of the activity a: of its kind, dates and issuer.
Covers(w, a) ==
  /\ a \in w.content /\ \A b \in w.content : b.type = a.type
  /\ w.from <= FromDate(a) /\ ThruDate(a) <= w.thru
  /\ w.issued_from = Issuer(a)

\* What was reported with a request is in it, and the requests are for what was reported.
CoverOK ==
  submission.at \in Open =>
    \A o \in Done : o.result \in Request /\ request[o.result].status # "none" /\ Covers(request[o.result], o.activity)
AmountOK ==
  submission.at \in Open =>
    /\ IsFiniteSet(Made)
    /\ SumFunctionOnSet(Totals, Made) = SumFunctionOnSet(KgOf(submission.activities), Counted)

\* What a row is made of; it has a manifest once it has left CREATED.
RowTypesOK ==
  \A r \in Request : request[r].status # "none" =>
    /\ request[r].issued_from \in STRING /\ request[r].total \in Nat
    /\ request[r].from \in Nat /\ request[r].thru \in Nat
    /\ request[r].content \in SUBSET (Posted \cup Submitted)
    /\ request[r].documented \in BOOLEAN
    /\ request[r].manifest \in Manifest \cup {None}
    /\ request[r].status = "CREATED" <=> request[r].manifest = None
RunTypesOK == \A j \in Job : job[j].at = "update" => job[j].manifest \in Manifest

\* A form that is not open is of no request.
GoneOK == \A s \in Session : session[s].at \in Gone => session[s].request = None

BatchInv == ListOK /\ CoverOK /\ AmountOK /\ PostKnown /\ RowTypesOK /\ RunTypesOK /\ GoneOK

\* What is reported next.
LEMMA ReportsMore ==
  ASSUME NEW A, NEW P, NEW output, Reports(output, A, P), NEW S \in SUBSET P, P \in SUBSET A, NEW x,
         NEW new, \A o : o \in new <=> \E a \in S : o = [activity |-> a, result |-> x]
  PROVE  Reports(output \cup new, A, P \ S) /\ \A o \in output : o.activity \notin S
<1>1. \A o \in new : o = [activity |-> o.activity, result |-> o.result] /\ o.activity \in S /\ o.result = x
  OBVIOUS
<1>2. \A a \in S : [activity |-> a, result |-> x] \in new /\ [activity |-> a, result |-> x].activity = a
  OBVIOUS
<1>3. \A o \in output : o.activity \in A /\ o.activity \notin P
  BY DEF Reports
<1>4. \A o, p \in new : o.activity = p.activity => o = p
  BY <1>1
<1>5. \A o, p \in output \cup new : o.activity = p.activity => o = p
  BY <1>1, <1>3, <1>4 DEF Reports
<1>6. \A o \in output \cup new : o = [activity |-> o.activity, result |-> o.result] /\ o.activity \in A
  BY <1>1 DEF Reports
<1>7. ASSUME NEW a \in A PROVE (\E o \in output \cup new : o.activity = a) <=> a \notin P \ S
  <2>1. CASE a \in S
    BY <1>2, <2>1
  <2>2. CASE a \notin S
    BY <1>1, <2>2 DEF Reports
  <2> QED BY <2>1, <2>2
<1>8. Reports(output \cup new, A, P \ S)
  BY <1>5, <1>6, <1>7 DEF Reports
<1> QED BY <1>3, <1>8

\* Rows that are on a list keep what the list says of them.
LEMMA BatchStays ==
  ASSUME ListOK, CoverOK, AmountOK, RowTypesOK, UNCHANGED submission,
         \A r \in Request : request[r].status # "none" =>
           request'[r].status # "none" /\ SameBatch(request'[r], request[r])
  PROVE  ListOK' /\ CoverOK' /\ AmountOK'
<1>1. ListOK'
  BY DEF ListOK, Default, Unreported
<1>2. Done' = Done /\ Made' = Made /\ Counted' = Counted
  BY DEF Done, Made, Counted
<1>3. CoverOK'
  <2> SUFFICES ASSUME submission.at \in Open, NEW o \in Done
               PROVE  o.result \in Request /\ request'[o.result].status # "none" /\ Covers(request[o.result], o.activity)'
    BY <1>2 DEF CoverOK, Open
  <2>1. o.result \in Request /\ request[o.result].status # "none" /\ Covers(request[o.result], o.activity)
    BY DEF CoverOK
  <2>2. request'[o.result].status # "none" /\ SameBatch(request'[o.result], request[o.result])
    BY <2>1
  <2> QED BY <2>1, <2>2 DEF Covers, SameBatch, Issuer
<1>4. AmountOK'
  <2> SUFFICES ASSUME submission.at \in Open
               PROVE  SumFunctionOnSet(Totals', Made) = SumFunctionOnSet(Totals, Made)
    BY <1>2 DEF AmountOK, Open
  <2>1. ASSUME NEW r \in Made PROVE Totals[r] \in Int /\ Totals'[r] = Totals[r]
    <3>1. r \in Request /\ request[r].status # "none"
      BY <2>1 DEF Made, CoverOK
    <3>2. request'[r].total = request[r].total /\ request[r].total \in Nat
      BY <3>1 DEF SameBatch, RowTypesOK
    <3> QED BY <3>1, <3>2 DEF Totals
  <2>2. IsFiniteSet(Made)
    BY DEF AmountOK
  <2> QED BY <2>1, <2>2, SumSame
<1> QED BY <1>1, <1>3, <1>4

\* A list is taken up.
LEMMA SubmitBatch ==
  ASSUME NEW in \in Submission, SubmitActivities(in)
  PROVE  ListOK' /\ CoverOK' /\ AmountOK'
<1>1. PICK A, f, p : A = in.activities /\ f = in.from /\ p = in.api
  OBVIOUS
<1>2. PICK d, G : d = (IF p THEN f ELSE DefaultFrom) /\ G = GroupProcessedActivities(A, d)
  OBVIOUS
<1>3. submission' = [at |-> "queue", activities |-> A, from |-> f, api |-> p, todo |-> G, output |-> {}]
  BY <1>1, <1>2 DEF SubmitActivities
<1>4. A \subseteq Submitted /\ IsFiniteSet(A) /\ (\A a \in A : IsActivity(a)) /\ f \in STRING \cup {None}
  BY <1>1, RequestAssumption DEF Submitted
<1>5. Default' = d
  BY <1>2, <1>3 DEF Default
<1>6. \A a \in A : a \in Errors(A) \/ \E g \in G : a \in g.content
  BY <1>2, <1>4, GroupsAre
<1>7. Unreported' = A
  BY <1>3, <1>6 DEF Unreported
<1>8. Reports({}, A, A)
  BY DEF Reports
<1>9. ListOK'
  BY <1>2, <1>3, <1>4, <1>5, <1>7, <1>8 DEF ListOK, Open
<1>10. Done' = {} /\ Made' = {} /\ Counted' = {}
  BY <1>3 DEF Done, Made, Counted
<1>11. CoverOK'
  BY <1>10 DEF CoverOK
<1>12. AmountOK'
  BY <1>10, SumEmpty, FS_EmptySet DEF AmountOK
<1> QED BY <1>9, <1>11, <1>12

\* What is left once a group is reported.
LEMMA GroupTaken ==
  ASSUME ListOK, submission.at = "queue", NEW g \in submission.todo, NEW x,
         submission' = [submission EXCEPT !.todo = @ \ {g}, !.output = @ \cup Listed(g, x)]
  PROVE  /\ ListOK' /\ IsGroup(g, submission.activities, Default)
         /\ submission'.at = "queue" /\ submission'.activities = submission.activities
         /\ submission'.output = submission.output \cup Listed(g, x)
         /\ submission'.from = submission.from /\ submission'.api = submission.api
         /\ \A o \in submission.output : o.activity \notin g.content
<1>1. PICK A, d, G : A = submission.activities /\ d = Default /\ G = GroupProcessedActivities(A, d)
  OBVIOUS
<1>2. /\ IsFiniteSet(A) /\ \A a \in A : IsActivity(a)
      /\ submission.todo \subseteq G /\ Reports(submission.output, A, Unreported)
  BY <1>1 DEF ListOK, Open
<1>3. /\ \A h \in G : IsGroup(h, A, d)
      /\ \A h, k \in G : \A a \in h.content : a \in k.content => h = k
  BY <1>1, <1>2, GroupsAre
<1>4. IsGroup(g, A, d) /\ g.content \in SUBSET (A \ Errors(A))
  BY <1>2, <1>3 DEF IsGroup
<1>5. /\ submission'.at = submission.at /\ submission'.activities = submission.activities
      /\ submission'.output = submission.output \cup Listed(g, x) /\ submission'.todo = submission.todo \ {g}
      /\ submission'.from = submission.from /\ submission'.api = submission.api
      /\ submission' = [at |-> submission'.at, activities |-> submission'.activities, todo |-> submission'.todo,
                        output |-> submission'.output, from |-> submission'.from, api |-> submission'.api]
  BY DEF ListOK
<1>6. Unreported' = Unreported \ g.content
  BY <1>1, <1>2, <1>3, <1>4, <1>5 DEF Unreported
<1>7. g.content \subseteq Unreported /\ Unreported \subseteq A
  BY <1>1, <1>4 DEF Unreported
<1>8. Listed(g, x) = {[activity |-> a, result |-> x] : a \in g.content}
  BY DEF Listed
<1>9. /\ Reports(submission.output \cup Listed(g, x), A, Unreported \ g.content)
      /\ \A o \in submission.output : o.activity \notin g.content
  <2>1. PICK P, S, out, new : P = Unreported /\ S = g.content /\ out = submission.output /\ new = Listed(g, x)
    OBVIOUS
  <2>2. Reports(out, A, P) /\ S \in SUBSET P /\ P \in SUBSET A
        /\ \A o : o \in new <=> \E a \in S : o = [activity |-> a, result |-> x]
    BY <1>2, <1>7, <1>8, <2>1
  <2>3. Reports(out \cup new, A, P \ S)
    BY <2>2, ReportsMore
  <2>4. \A o \in out : o.activity \notin S
    BY <2>2 DEF Reports
  <2> QED BY <2>1, <2>3, <2>4
<1>10. Default' = Default
  BY <1>5 DEF Default
<1>11. ListOK'
  BY <1>1, <1>2, <1>5, <1>6, <1>9, <1>10 DEF ListOK, Open
<1> QED BY <1>1, <1>4, <1>5, <1>9, <1>11

\* A group that is not queued is reported as an error, or the list is given up.
LEMMA FailsBatch ==
  ASSUME ListOK, CoverOK, AmountOK, NEW g \in submission.todo, GroupFails(g)
  PROVE  ListOK' /\ CoverOK' /\ AmountOK'
<1>1. submission.at = "queue" /\ UNCHANGED request
  BY DEF GroupFails
<1>2. CASE submission.api
  <2>1. submission' = [submission EXCEPT !.at = "failed"]
    BY <1>2 DEF GroupFails
  <2>2. submission' = [at |-> "failed", activities |-> submission.activities, todo |-> submission.todo,
                       output |-> submission.output, from |-> submission.from, api |-> submission.api]
    BY <2>1 DEF ListOK
  <2>3. submission'.at = "failed"
    BY <2>2
  <2> QED BY <2>2, <2>3 DEF ListOK, CoverOK, AmountOK, Open
<1>3. CASE ~submission.api
  <2>1. submission' = [submission EXCEPT !.todo = @ \ {g}, !.output = @ \cup Listed(g, "error")]
    BY <1>3 DEF GroupFails
  <2>2. /\ ListOK' /\ submission'.at = "queue" /\ submission'.activities = submission.activities
        /\ submission'.output = submission.output \cup Listed(g, "error")
        /\ submission'.from = submission.from /\ submission'.api = submission.api
    BY <1>1, <2>1, GroupTaken
  <2>3. \A o \in Listed(g, "error") : o.result = "error"
    BY DEF Listed
  <2>4. Done' = Done
    BY <2>2, <2>3 DEF Done
  <2> QED BY <1>1, <2>2, <2>4 DEF CoverOK, AmountOK, Made, Counted, Totals, Covers, Issuer, Open
<1> QED BY <1>2, <1>3

\* The errors are reported at the end.
LEMMA AnswerBatch ==
  ASSUME ListOK, CoverOK, AmountOK, AnswerSubmission
  PROVE  ListOK' /\ CoverOK' /\ AmountOK'
<1>1. PICK E : E = Errors(submission.activities)
  OBVIOUS
<1>2. PICK new : new = Listed([content |-> E], "error")
  OBVIOUS
<1>3. /\ submission.at = "queue" /\ submission.todo = {} /\ UNCHANGED request
      /\ submission' = [submission EXCEPT !.at = "answered", !.output = @ \cup new]
  BY <1>1, <1>2 DEF AnswerSubmission
<1>4. submission' = [at |-> "answered", activities |-> submission.activities, todo |-> {},
                     output |-> submission.output \cup new, from |-> submission.from, api |-> submission.api]
  BY <1>3 DEF ListOK
<1>5. new = {[activity |-> a, result |-> "error"] : a \in E}
  BY <1>2 DEF Listed
<1>6. E \subseteq submission.activities
  BY <1>1 DEF Errors
<1>7. Unreported = E
  BY <1>1, <1>3, <1>6 DEF Unreported
<1>8. Unreported' = {}
  BY <1>4 DEF Unreported
<1>9. Reports(submission.output \cup new, submission.activities, {})
  <2>1. PICK P, A, out : P = Unreported /\ A = submission.activities /\ out = submission.output
    OBVIOUS
  <2>2. Reports(out, A, P) /\ P \in SUBSET A /\ P \in SUBSET P
        /\ \A o : o \in new <=> \E a \in P : o = [activity |-> a, result |-> "error"]
    BY <1>3, <1>5, <1>6, <1>7, <2>1 DEF ListOK, Open
  <2>3. Reports(out \cup new, A, P \ P)
    BY <2>2, ReportsMore
  <2>4. P \ P = {}
    OBVIOUS
  <2> QED BY <1>5, <1>7, <2>1, <2>3, <2>4
<1>10. ListOK'
  BY <1>3, <1>4, <1>8, <1>9 DEF ListOK, Open
<1>11. \A o \in new : o.result = "error"
  BY <1>5
<1>12. Done' = Done
  BY <1>4, <1>11 DEF Done
<1> QED BY <1>3, <1>4, <1>10, <1>12 DEF CoverOK, AmountOK, Made, Counted, Totals, Covers, Issuer, Open

\* A group is queued as the request of its activities.
LEMMA QueueBatch ==
  ASSUME Shaped, ListOK, CoverOK, AmountOK, RowTypesOK, NEW g \in submission.todo, ProcessGroup(g)
  PROVE  /\ ListOK' /\ CoverOK' /\ AmountOK'
         /\ NewId \in Request /\ IsGroup(g, submission.activities, Default)
<1>1. PICK x, A, d : x = NewId /\ A = submission.activities /\ d = Default
  OBVIOUS
<1>2. PICK from : from = IF submission.api THEN submission.from ELSE g.issued_from
  OBVIOUS
<1>3. /\ submission.at = "queue" /\ Queue(g, from)
      /\ submission' = [submission EXCEPT !.todo = @ \ {g}, !.output = @ \cup Listed(g, x)]
  BY <1>1, <1>2 DEF ProcessGroup
<1>4. /\ x \in Request /\ request[x].status = "none" /\ request'[x] = NewRow(g, from)
      /\ \A r \in Request \ {x} : request'[r] = request[r]
  BY <1>1, <1>3, QueuedIs
<1>5. /\ ListOK' /\ IsGroup(g, A, d)
      /\ submission'.at = "queue" /\ submission'.activities = A
      /\ submission'.output = submission.output \cup Listed(g, x)
      /\ submission'.from = submission.from /\ submission'.api = submission.api
      /\ \A o \in submission.output : o.activity \notin g.content
  BY <1>1, <1>3, GroupTaken
<1>6. x # "error"
  BY <1>4, RequestAssumption
<1>7. PICK new : new = Listed(g, x)
  OBVIOUS
<1>8. new = {[activity |-> a, result |-> x] : a \in g.content}
  BY <1>7 DEF Listed
<1>9. \A o \in new : o.result = x /\ o.activity \in g.content
  BY <1>8
<1>10. Done' = Done \cup new
  BY <1>5, <1>6, <1>7, <1>9 DEF Done
<1>11. /\ request'[x].status = "CREATED" /\ request'[x].content = g.content /\ request'[x].total = g.total
       /\ request'[x].from = g.from /\ request'[x].thru = g.thru
       /\ request'[x].issued_from = IF from = None THEN DefaultFrom ELSE from
  BY <1>4 DEF NewRow
<1>12. Issuer(0)' = Issuer(0) /\ \A a : Issuer(a)' = Issuer(a)
  BY <1>5 DEF Issuer
<1>13. ASSUME NEW a \in g.content PROVE request'[x].issued_from = Issuer(a)
  <2>1. SetIssuedFrom(a, d) = g.issued_from
    BY <1>5 DEF IsGroup
  <2> QED BY <1>1, <1>2, <1>11, <2>1 DEF Issuer, Default, SetIssuedFrom
<1>14. \A a \in g.content : Covers(request[x], a)'
  BY <1>5, <1>11, <1>12, <1>13 DEF IsGroup, Covers
<1>15. \A o \in Done : /\ o.result \in Request \ {x} /\ request'[o.result] = request[o.result]
                       /\ request[o.result].status # "none" /\ Covers(request[o.result], o.activity)
  BY <1>3, <1>4 DEF CoverOK, Open
<1>16. CoverOK'
  <2> SUFFICES ASSUME NEW o \in Done'
               PROVE  o.result \in Request /\ request'[o.result].status # "none" /\ Covers(request[o.result], o.activity)'
    BY DEF CoverOK
  <2>1. CASE o \in Done
    BY <1>12, <1>15, <2>1 DEF Covers
  <2>2. CASE o \in new
    BY <1>4, <1>9, <1>11, <1>14, <2>2
  <2> QED BY <1>10, <2>1, <2>2
<1>17. AmountOK'
  <2>1. g.content # {} /\ g.content \in SUBSET A
    BY <1>5 DEF IsGroup, Errors
  <2>2. Made' = Made \cup {x}
    <3>1. \A o \in Done' : o.result \in Made \cup {x}
      BY <1>9, <1>10 DEF Made
    <3>2. \A r \in Made : \E o \in Done' : o.result = r
      BY <1>10 DEF Made
    <3>3. \E o \in Done' : o.result = x
      <4>1. PICK a \in g.content : TRUE
        BY <2>1
      <4>2. PICK o : o = [activity |-> a, result |-> x]
        OBVIOUS
      <4>3. o \in new /\ o.result = x
        BY <1>8, <4>2
      <4> QED BY <1>10, <4>3
    <3> QED BY <3>1, <3>2, <3>3 DEF Made
  <2>3. Counted' = Counted \cup g.content
    <3>1. \A o \in Done' : o.activity \in Counted \cup g.content
      BY <1>9, <1>10 DEF Counted
    <3>2. \A a \in Counted : \E o \in Done' : o.activity = a
      BY <1>10 DEF Counted
    <3>3. ASSUME NEW a \in g.content PROVE \E o \in Done' : o.activity = a
      <4>1. PICK o : o = [activity |-> a, result |-> x]
        OBVIOUS
      <4>2. o \in new /\ o.activity = a
        BY <1>8, <4>1
      <4> QED BY <1>10, <4>2
    <3> QED BY <3>1, <3>2, <3>3 DEF Counted
  <2>4. /\ x \notin Made /\ IsFiniteSet(Made)
        /\ SumFunctionOnSet(Totals, Made) = SumFunctionOnSet(KgOf(A), Counted)
    BY <1>1, <1>3, <1>15 DEF AmountOK, Made, Open
  <2>5. \A r \in Made : Totals[r] \in Int /\ Totals'[r] = Totals[r] /\ Totals'[r] \in Int
    <3>1. \A r \in Made : r \in Request /\ request'[r] = request[r] /\ request[r].status # "none"
      BY <1>15 DEF Made
    <3> QED BY <3>1 DEF Totals, RowTypesOK
  <2>6. SumFunctionOnSet(Totals', Made) = SumFunctionOnSet(Totals, Made)
    BY <2>4, <2>5, SumSame
  <2>7. Totals'[x] = g.total /\ g.total = SumFunctionOnSet(KgOf(A), g.content) /\ g.total \in Nat
    BY <1>4, <1>5, <1>11 DEF Totals, IsGroup
  <2>8. IsFiniteSet(Made \cup {x}) /\ (Made \cup {x}) \ {x} = Made
    BY <2>4, FS_AddElement
  <2>9. SumFunctionOnSet(Totals', Made \cup {x}) = g.total + SumFunctionOnSet(Totals', Made)
    <3>1. PICK T, f : T = Made \cup {x} /\ f = Totals'
      OBVIOUS
    <3>2. IsFiniteSet(T) /\ x \in T /\ (\A r \in T : f[r] \in Int) /\ T \ {x} = Made /\ f[x] = g.total
      BY <2>5, <2>7, <2>8, <3>1
    <3>3. SumFunctionOnSet(f, T) = f[x] + SumFunctionOnSet(f, T \ {x})
      BY <3>2, SumTake
    <3> QED BY <3>1, <3>2, <3>3
  <2>10. Counted \in SUBSET A /\ Counted \cap g.content = {}
    BY <1>1, <1>3, <1>5 DEF Counted, Done, ListOK, Reports, Open
  <2>11. IsFiniteSet(A) /\ \A a \in A : IsActivity(a)
    BY <1>1, <1>3 DEF ListOK, Open
  <2>12. SumFunctionOnSet(KgOf(A), Counted \cup g.content)
           = SumFunctionOnSet(KgOf(A), g.content) + SumFunctionOnSet(KgOf(A), Counted)
    <3>1. PICK T, f : T = Counted \cup g.content /\ f = KgOf(A)
      OBVIOUS
    <3>2. T \in SUBSET A
      BY <2>1, <2>10, <3>1
    <3>3. IsFiniteSet(T) /\ \A a \in T : f[a] \in Int
      <4>1. IsFiniteSet(T) /\ \A a \in T : KgOf(A)[a] \in Nat
        BY <2>11, <3>2, KgType
      <4> QED BY <3>1, <4>1
    <3>4. g.content \in SUBSET T /\ T \ g.content = Counted
      BY <2>10, <3>1
    <3>5. SumFunctionOnSet(f, T) = SumFunctionOnSet(f, g.content) + SumFunctionOnSet(f, T \ g.content)
      BY <3>3, <3>4, SumSplit
    <3> QED BY <3>1, <3>4, <3>5
  <2>13. SumFunctionOnSet(Totals', Made') = SumFunctionOnSet(KgOf(A), Counted')
    BY <2>2, <2>3, <2>4, <2>6, <2>7, <2>9, <2>12
  <2> QED BY <1>5, <2>2, <2>8, <2>13 DEF AmountOK
<1> QED BY <1>1, <1>4, <1>5, <1>16, <1>17

\* A row of a group: its issuer is an address, its amount and dates are numbers.
LEMMA GroupRowTyped ==
  ASSUME ListOK, submission.at = "queue", NEW g, IsGroup(g, submission.activities, Default),
         NEW from, from = IF submission.api THEN submission.from ELSE g.issued_from,
         NEW w, w = NewRow(g, from)
  PROVE  /\ w.issued_from \in STRING /\ w.total \in Nat /\ w.from \in Nat /\ w.thru \in Nat
         /\ w.content \in SUBSET (Posted \cup Submitted) /\ w.documented \in BOOLEAN
         /\ w.status = "CREATED" /\ w.manifest = None
<1>1. /\ submission.activities \subseteq Submitted /\ \A a \in submission.activities : IsActivity(a)
      /\ submission.from \in STRING \cup {None}
  BY DEF ListOK, Open
<1>2. /\ g.total \in Nat /\ g.from \in Nat /\ g.thru \in Nat
      /\ g.content \in SUBSET submission.activities /\ g.content # {}
      /\ \A a \in g.content : SetIssuedFrom(a, Default) = g.issued_from
  BY DEF IsGroup
<1>3. ~submission.api => g.issued_from \in STRING \cup {None}
  <2>1. PICK a \in g.content : TRUE
    BY <1>2
  <2>2. IsActivity(a)
    BY <1>1, <1>2
  <2>3. ~submission.api => Default \in STRING
    BY RequestAssumption DEF Default
  <2> QED BY <1>2, <2>2, <2>3, ActivityAssumption DEF SetIssuedFrom, IsActivity
<1>4. /\ w.issued_from = IF from = None THEN DefaultFrom ELSE from
      /\ w.total = g.total /\ w.from = g.from /\ w.thru = g.thru /\ w.content = g.content
      /\ w.documented = FALSE /\ w.status = "CREATED" /\ w.manifest = None
  BY DEF NewRow
<1>5. w.issued_from \in STRING
  BY <1>1, <1>3, <1>4, RequestAssumption
<1> QED BY <1>1, <1>2, <1>4, <1>5

\* And a row of the web form.
LEMMA PostRowTyped ==
  ASSUME NEW a \in Posted, NEW thru, thru = IF a.thru = None THEN Now ELSE a.thru,
         NEW w, w = NewRow([Group({a}, Poster) EXCEPT !.thru = thru], Poster)
  PROVE  /\ w.issued_from \in STRING /\ w.total \in Nat /\ w.from \in Nat /\ w.thru \in Nat
         /\ w.content \in SUBSET (Posted \cup Submitted) /\ w.documented \in BOOLEAN
         /\ w.status = "CREATED" /\ w.manifest = None
<1>1. IsActivity(a)
  BY RequestAssumption
<1>2. FromDate(a) \in Nat /\ thru \in Nat
  BY <1>1, DatesAre, ActivityAssumption DEF IsActivity
<1>3. PICK g : g = Group({a}, Poster)
  OBVIOUS
<1>4. /\ g = [issued_from |-> g.issued_from, total |-> g.total, from |-> g.from, thru |-> g.thru,
              content |-> g.content]
      /\ g.total = SumFunction([x \in {a} |-> Kg(x)]) /\ g.from = Min({FromDate(x) : x \in {a}})
      /\ g.content = {a}
  BY <1>3 DEF Group
<1>5. g.total \in Nat
  <2>1. g.total = SumFunctionOnSet([x \in {a} |-> Kg(x)], {a})
    BY <1>4 DEF SumFunction
  <2>2. IsFiniteSet({a}) /\ \A x \in {a} : IsActivity(x)
    BY <1>1, FS_Singleton
  <2>3. PICK S : S = {a}
    OBVIOUS
  <2>4. /\ SumFunctionOnSet(KgOf(S), S) \in Nat
        /\ SumFunctionOnSet([x \in S |-> Kg(x)], S) = SumFunctionOnSet(KgOf(S), S)
    BY <2>2, <2>3, KgType
  <2> QED BY <2>1, <2>3, <2>4
<1>6. g.from \in Nat
  <2>1. {FromDate(x) : x \in {a}} = {FromDate(a)}
    OBVIOUS
  <2>2. PICK S : S = {FromDate(a)}
    OBVIOUS
  <2>3. IsFiniteSet(S) /\ S # {} /\ S \in SUBSET Nat
    BY <1>2, <2>2, FS_Singleton
  <2>4. Min(S) \in Nat
    BY <2>3, Extremes
  <2> QED BY <1>4, <2>1, <2>2, <2>4
<1>7. PICK h : h = [g EXCEPT !.thru = thru]
  OBVIOUS
<1>8. h.total = g.total /\ h.from = g.from /\ h.thru = thru /\ h.content = {a}
  BY ONLY <1>4, <1>7
<1>9. w = NewRow(h, Poster)
  BY <1>3, <1>7
<1>10. /\ w.issued_from = IF Poster = None THEN DefaultFrom ELSE Poster
       /\ w.total = h.total /\ w.from = h.from /\ w.thru = h.thru /\ w.content = h.content
       /\ w.documented = FALSE /\ w.status = "CREATED" /\ w.manifest = None
  BY <1>9 DEF NewRow
<1>11. w.issued_from \in STRING
  BY <1>10, RequestAssumption
<1>12. w.total \in Nat /\ w.from \in Nat /\ w.thru \in Nat
  BY <1>2, <1>5, <1>6, <1>8, <1>10
<1>13. w.content \in SUBSET (Posted \cup Submitted) /\ w.documented \in BOOLEAN
  BY <1>8, <1>10
<1> QED BY <1>10, <1>11, <1>12, <1>13

\* Rows are made of what they are said to be.
LEMMA RowTypesKept ==
  ASSUME QueueInv, BatchInv, [Next]_vars
  PROVE  RowTypesOK'
<1> SUFFICES ASSUME NEW r \in Request, request'[r].status # "none"
             PROVE  /\ request'[r].issued_from \in STRING /\ request'[r].total \in Nat
                    /\ request'[r].from \in Nat /\ request'[r].thru \in Nat
                    /\ request'[r].content \in SUBSET (Posted \cup Submitted)
                    /\ request'[r].documented \in BOOLEAN
                    /\ request'[r].manifest \in Manifest \cup {None}
                    /\ request'[r].status = "CREATED" <=> request'[r].manifest = None
  BY DEF RowTypesOK
<1>1. request'[r] = request[r] \/ RowMoves(r) \/ RowQueued(r)
  BY RowSteps DEF BatchInv
<1>2. CASE request'[r] = request[r]
  BY <1>2 DEF BatchInv, RowTypesOK
<1>3. CASE RowMoves(r)
  <2>1. None \notin Manifest
    BY RequestAssumption DEF Manifest
  <2>2. /\ request[r].issued_from \in STRING /\ request[r].total \in Nat
        /\ request[r].from \in Nat /\ request[r].thru \in Nat
        /\ request[r].content \in SUBSET (Posted \cup Submitted)
        /\ request[r].documented \in BOOLEAN /\ request[r].manifest \in Manifest \cup {None}
        /\ request[r].status = "CREATED" <=> request[r].manifest = None
    BY <1>3 DEF RowMoves, BatchInv, RowTypesOK
  <2>3. /\ request'[r].issued_from \in STRING /\ request'[r].total \in Nat
        /\ request'[r].from \in Nat /\ request'[r].thru \in Nat
        /\ request'[r].content \in SUBSET (Posted \cup Submitted)
    BY <1>3, <2>2 DEF RowMoves, SameBatch
  <2>4. request'[r].documented \in BOOLEAN
    BY <1>3, <2>2 DEF RowMoves
  <2>5. /\ request'[r].manifest \in Manifest \cup {None}
        /\ request'[r].status = "CREATED" <=> request'[r].manifest = None
    BY <1>3, <2>1, <2>2 DEF RowMoves, BatchInv, RunTypesOK
  <2> QED BY <2>3, <2>4, <2>5
<1>4. CASE RowQueued(r)
  <2>1. ASSUME NEW g \in submission.todo, ProcessGroup(g),
               request'[r] = NewRow(g, IF submission.api THEN submission.from ELSE g.issued_from)
        PROVE  /\ request'[r].issued_from \in STRING /\ request'[r].total \in Nat
               /\ request'[r].from \in Nat /\ request'[r].thru \in Nat
               /\ request'[r].content \in SUBSET (Posted \cup Submitted)
               /\ request'[r].documented \in BOOLEAN
               /\ request'[r].status = "CREATED" /\ request'[r].manifest = None
    <3>1. PICK from, w : /\ from = IF submission.api THEN submission.from ELSE g.issued_from
                         /\ w = request'[r]
      OBVIOUS
    <3>2. IsGroup(g, submission.activities, Default)
      BY <2>1, QueueBatch DEF QueueInv, BatchInv
    <3>3. submission.at = "queue" /\ ListOK /\ w = NewRow(g, from)
      BY <2>1, <3>1 DEF ProcessGroup, BatchInv
    <3>4. /\ w.issued_from \in STRING /\ w.total \in Nat /\ w.from \in Nat /\ w.thru \in Nat
          /\ w.content \in SUBSET (Posted \cup Submitted) /\ w.documented \in BOOLEAN
          /\ w.status = "CREATED" /\ w.manifest = None
      BY <3>1, <3>2, <3>3, GroupRowTyped
    <3> QED BY <3>1, <3>4
  <2>2. ASSUME NEW a \in Posted, NEW thru, thru = (IF a.thru = None THEN Now ELSE a.thru),
               request'[r] = NewRow([Group({a}, Poster) EXCEPT !.thru = thru], Poster)
        PROVE  /\ request'[r].issued_from \in STRING /\ request'[r].total \in Nat
               /\ request'[r].from \in Nat /\ request'[r].thru \in Nat
               /\ request'[r].content \in SUBSET (Posted \cup Submitted)
               /\ request'[r].documented \in BOOLEAN
               /\ request'[r].status = "CREATED" /\ request'[r].manifest = None
    <3>1. PICK w : w = request'[r]
      OBVIOUS
    <3>2. w = NewRow([Group({a}, Poster) EXCEPT !.thru = thru], Poster)
      BY <2>2, <3>1
    <3>3. /\ w.issued_from \in STRING /\ w.total \in Nat /\ w.from \in Nat /\ w.thru \in Nat
          /\ w.content \in SUBSET (Posted \cup Submitted) /\ w.documented \in BOOLEAN
          /\ w.status = "CREATED" /\ w.manifest = None
      BY <2>2, <3>2, PostRowTyped
    <3> QED BY <3>1, <3>3
  <2> QED BY <1>4, <2>1, <2>2 DEF RowQueued
<1> QED BY <1>1, <1>2, <1>3, <1>4

\* A run at its update has a manifest to write.
LEMMA RunTypesKept ==
  ASSUME QueueInv, BatchInv, [Next]_vars
  PROVE  RunTypesOK'
  BY RunSteps DEF BatchInv, RunTypesOK, Manifest

\* The document that is to be attached has its row.
LEMMA PostKept ==
  ASSUME QueueInv, BatchInv, [Next]_vars
  PROVE  PostKnown'
<1>1. CASE UNCHANGED post \/ post'.at # "attach"
  <2>1. ASSUME post'.at = "attach"
        PROVE  post' = post /\ post.request \in Request /\ request[post.request].status # "none"
    BY <1>1, <2>1 DEF BatchInv, PostKnown
  <2>2. \A r \in Request : request[r].status # "none" => request'[r].status # "none"
    BY RowSteps DEF BatchInv, RowMoves, RowQueued
  <2> QED BY <2>1, <2>2 DEF PostKnown
<1>2. ASSUME NEW a \in Posted, PostEmissionsRequest(a, Poster) PROVE PostKnown'
  <2>1. PICK g : Queue(g, Poster)
    BY <1>2 DEF PostEmissionsRequest
  <2>2. PICK x : x = NewId
    OBVIOUS
  <2>3. post' = [at |-> "attach", request |-> x]
    BY <1>2, <2>2 DEF PostEmissionsRequest
  <2>4. x \in Request /\ request'[x] = NewRow(g, Poster)
    BY <2>1, <2>2, QueuedIs DEF QueueInv
  <2>5. request'[x].status = "CREATED"
    BY <2>4 DEF NewRow
  <2> QED BY <2>3, <2>4, <2>5 DEF PostKnown
<1>3. AddSupportingDocument => post'.at # "attach"
  BY DEF AddSupportingDocument, QueueInv, Shaped
<1>4. MoveDocument \/ PostFails => post'.at # "attach"
  BY DEF MoveDocument, PostFails, PostDone, NoPost
<1>5. ASSUME Submitting
      PROVE  \/ UNCHANGED post \/ AddSupportingDocument \/ PostFails
             \/ \E a \in Posted : PostEmissionsRequest(a, Poster)
  BY <1>5 DEF Submitting, SubmitActivities, GroupFails, ProcessGroup, AnswerSubmission
<1>6. ASSUME NEW j \in Job, Run(j) \/ RunFails(j) PROVE UNCHANGED post
  BY <1>6 DEF Run, RunFails, SelectCreated, EncryptEvidence, UpdateToPending
<1>7. ASSUME NEW s \in Session, Auditing(s) PROVE UNCHANGED post
  BY <1>7 DEF Auditing, FetchEmissionsRequest, IssueToken, Decline, TellIssued, CheckPending, LeaveForm, UpdateStatus
<1>8. CASE RegisterKey \/ UNCHANGED vars
  BY <1>1, <1>8 DEF RegisterKey, vars
<1> QED BY <1>1, <1>2, <1>3, <1>4, <1>5, <1>6, <1>7, <1>8 DEF Next

\* A form that is left forgets its request.
LEMMA GoneKept ==
  ASSUME QueueInv, BatchInv, [Next]_vars
  PROVE  GoneOK'
<1>s. session = [s \in Session |-> session[s]] /\ \A s \in Session : IsForm(session[s])
  BY DEF QueueInv, Shaped
<1>1. CASE UNCHANGED session
  BY <1>1 DEF BatchInv, GoneOK
<1>2. ASSUME NEW s \in Session, NEW w, session' = [session EXCEPT ![s] = w], w.at \in Gone => w.request = None
      PROVE  GoneOK'
  BY <1>s, <1>2 DEF BatchInv, GoneOK
<1>3. Left.request = None
  BY DEF Left, Closed
<1>4. ASSUME NEW s \in Session, NEW r \in Request, FetchEmissionsRequest(s, r) PROVE GoneOK'
  <2>1. PICK a, m : a = request[r].auditor /\ m = request[r].manifest
    OBVIOUS
  <2>2. session' = [session EXCEPT ![s] = [at |-> "form", request |-> r, verdict |-> None, auditor |-> a, manifest |-> m]]
    BY <1>4, <2>1 DEF FetchEmissionsRequest
  <2> QED BY <1>2, <2>2 DEF Gone
<1>5. ASSUME NEW s \in Session, IssueToken(s) PROVE GoneOK'
  <2>1. PICK w : w = [session[s] EXCEPT !.at = "issued"] /\ IsForm(session[s])
    BY <1>s
  <2>2. session' = [session EXCEPT ![s] = w]
    BY <1>5, <2>1 DEF IssueToken
  <2>3. w.at = "issued"
    BY ONLY <2>1 DEF IsForm
  <2> QED BY <1>2, <2>2, <2>3 DEF Gone
<1>6. ASSUME NEW s \in Session, NEW v, CheckPending(s, v) PROVE GoneOK'
  <2>1. PICK w : w = [session[s] EXCEPT !.at = "update", !.verdict = v] /\ IsForm(session[s])
    BY <1>s
  <2>2. session' = [session EXCEPT ![s] = w] \/ session' = [session EXCEPT ![s] = Left]
    BY <1>6, <2>1 DEF CheckPending
  <2>3. w.at = "update"
    BY ONLY <2>1 DEF IsForm
  <2> QED BY <1>2, <1>3, <2>2, <2>3 DEF Gone
<1>7. ASSUME NEW s \in Session, UpdateStatus(s) \/ LeaveForm(s) PROVE GoneOK'
  BY <1>2, <1>3, <1>7 DEF UpdateStatus, LeaveForm
<1>8. ASSUME NEW s \in Session, Auditing(s) PROVE GoneOK'
  BY <1>4, <1>5, <1>6, <1>7, <1>8 DEF Auditing, Decline, TellIssued
<1>9. ASSUME NEW j \in Job, Run(j) \/ RunFails(j) PROVE UNCHANGED session
  BY <1>9 DEF Run, RunFails, SelectCreated, EncryptEvidence, UpdateToPending
<1>10. Submitting => UNCHANGED session
  BY DEF Submitting, SubmitActivities, GroupFails, ProcessGroup, AnswerSubmission, PostEmissionsRequest,
         AddSupportingDocument, PostFails
<1>11. MoveDocument \/ RegisterKey \/ UNCHANGED vars => UNCHANGED session
  BY DEF MoveDocument, RegisterKey, vars
<1> QED BY <1>1, <1>8, <1>9, <1>10, <1>11 DEF Next

\* A list is accounted for at every step.
LEMMA BatchKept ==
  ASSUME QueueInv, BatchInv, [Next]_vars
  PROVE  ListOK' /\ CoverOK' /\ AmountOK'
<1>1. CASE UNCHANGED submission
  <2>1. ASSUME NEW r \in Request, request[r].status # "none"
        PROVE  request'[r].status # "none" /\ SameBatch(request'[r], request[r])
    <3>1. request'[r] = request[r] \/ RowMoves(r)
      BY <2>1, RowSteps DEF BatchInv, RowQueued
    <3> QED BY <2>1, <3>1 DEF RowMoves, SameBatch
  <2> QED BY <1>1, <2>1, BatchStays DEF BatchInv
<1>2. ASSUME NEW in \in Submission, SubmitActivities(in) PROVE ListOK' /\ CoverOK' /\ AmountOK'
  BY <1>2, SubmitBatch
<1>3. ASSUME NEW g \in submission.todo, ProcessGroup(g) PROVE ListOK' /\ CoverOK' /\ AmountOK'
  BY <1>3, QueueBatch DEF QueueInv, BatchInv
<1>4. ASSUME NEW g \in submission.todo, GroupFails(g) PROVE ListOK' /\ CoverOK' /\ AmountOK'
  BY <1>4, FailsBatch DEF BatchInv
<1>5. CASE AnswerSubmission
  BY <1>5, AnswerBatch DEF BatchInv
<1>6. ASSUME Submitting
      PROVE  \/ UNCHANGED submission \/ AnswerSubmission
             \/ \E in \in Submission : SubmitActivities(in)
             \/ \E g \in submission.todo : GroupFails(g) \/ ProcessGroup(g)
  BY <1>6 DEF Submitting, PostEmissionsRequest, AddSupportingDocument, PostFails
<1>7. ASSUME NEW j \in Job, Run(j) \/ RunFails(j) PROVE UNCHANGED submission
  BY <1>7 DEF Run, RunFails, SelectCreated, EncryptEvidence, UpdateToPending
<1>8. ASSUME NEW s \in Session, Auditing(s) PROVE UNCHANGED submission
  BY <1>8 DEF Auditing, FetchEmissionsRequest, IssueToken, Decline, TellIssued, CheckPending, LeaveForm, UpdateStatus
<1>9. CASE MoveDocument \/ RegisterKey \/ UNCHANGED vars
  BY <1>1, <1>9 DEF MoveDocument, RegisterKey, vars
<1> QED BY <1>1, <1>2, <1>3, <1>4, <1>5, <1>6, <1>7, <1>8, <1>9 DEF Next

\* Nothing is queued at first.
LEMMA InitBatchInv == Init => BatchInv
<1> SUFFICES ASSUME Init PROVE BatchInv
  OBVIOUS
<1>1. /\ submission = [at |-> "idle", activities |-> {}, todo |-> {}, output |-> {}, from |-> None, api |-> TRUE]
      /\ post.at = "none"
      /\ (\A r \in Request : request[r].status = "none") /\ \A j \in Job : job[j].at = "none"
  BY DEF Init, Idle, NoPost, NoRow, NoRun
<1>2. ListOK /\ CoverOK /\ AmountOK
  BY <1>1 DEF ListOK, CoverOK, AmountOK, Open
<1>3. GoneOK
  BY DEF Init, GoneOK, Closed
<1> QED BY <1>1, <1>2, <1>3 DEF BatchInv, PostKnown, RowTypesOK, RunTypesOK

\* The invariant of the list, on top of that of the queue.
LEMMA BatchInvariant == Spec => [](QueueInv /\ BatchInv)
<1>1. Init => QueueInv /\ BatchInv
  BY InitQueueInv, InitBatchInv
<1>2. (QueueInv /\ BatchInv) /\ [Next]_vars => (QueueInv /\ BatchInv)'
  BY NextQueueInv, RowTypesKept, RunTypesKept, PostKept, GoneKept, BatchKept DEF BatchInv
<1> QED BY <1>1, <1>2, PTL DEF Spec

\* Types: rows, runs and forms are made of what models/emissionsRequest.ts says, a request has
\* an auditor and a manifest once it has left CREATED, and a form is of a request that has.
THEOREM RequestsTyped == Spec => []RequestsTypeOK
<1>1. ASSUME QueueInv, BatchInv PROVE RequestsTypeOK
  <2> USE <1>1 DEF QueueInv
  <2>1. ASSUME NEW r \in In(Status)
        PROVE  /\ request[r] \in Row
               /\ (request[r].status = "CREATED") = (request[r].auditor = None)
               /\ (request[r].status = "CREATED") = (request[r].manifest = None)
    <3>1. r \in Request /\ request[r].status \in Status /\ request[r].status # "none" /\ IsRow(request[r])
      BY DEF In, Status, Shaped
    <3>2. /\ request[r].issued_from \in STRING /\ request[r].total \in Nat
          /\ request[r].from \in Nat /\ request[r].thru \in Nat
          /\ request[r].content \in SUBSET (Posted \cup Submitted)
          /\ request[r].documented \in BOOLEAN /\ request[r].manifest \in Manifest \cup {None}
          /\ request[r].status = "CREATED" <=> request[r].manifest = None
      BY <3>1 DEF BatchInv, RowTypesOK
    <3>3. /\ request[r].auditor \in Auditor \cup {None}
          /\ request[r].status = "CREATED" <=> request[r].auditor = None
      BY <3>1, RequestAssumption DEF RowsOK, Waiting
    <3>4. PICK w : w = request[r]
      OBVIOUS
    <3>5. w \in Row
      BY <3>1, <3>2, <3>3, <3>4 DEF IsRow, Row, Submitted
    <3> QED BY <3>2, <3>3, <3>4, <3>5
  <2>2. ASSUME NEW j \in Job, job[j].at = "update"
        PROVE  Listing(j, job[j].request) /\ job[j].auditor \in Auditor /\ job[j].manifest \in Manifest
    BY <2>2 DEF RunsOK, Listing, BatchInv, RunTypesOK
  <2>3. ASSUME NEW s \in Session, session[s].request # None
        PROVE  request[session[s].request].status \in Status \ {"CREATED"}
    <3>1. session[s].at \notin Gone
      BY <2>3 DEF BatchInv, GoneOK
    <3>2. PICK r : r = session[s].request
      OBVIOUS
    <3> QED BY <3>1, <3>2 DEF FormsOK, RowsOK, Waiting
  <2> QED BY <2>1, <2>2, <2>3 DEF RequestsTypeOK
<1> QED BY <1>1, BatchInvariant, PTL

\* A list that was answered: each of its activities is in one request of its kind, dates and
\* issuer, or reported as an error, and the requests are for exactly what was queued.
THEOREM ActivitiesAlwaysConserved == Spec => []ActivitiesConserved
<1>1. ASSUME QueueInv, BatchInv PROVE ActivitiesConserved
  <2> SUFFICES ASSUME submission.at = "answered" PROVE ActivitiesConserved
    BY DEF ActivitiesConserved
  <2> USE <1>1 DEF BatchInv
  <2>1. PICK A, out, api, from : /\ A = submission.activities /\ out = submission.output
                                 /\ api = submission.api /\ from = submission.from
    OBVIOUS
  <2>2. /\ submission.todo = {} /\ IsFiniteSet(A) /\ (\A a \in A : IsActivity(a))
        /\ Reports(out, A, Unreported)
    BY <2>1 DEF ListOK, Open
  <2>3. Unreported = {}
    BY <2>2 DEF Unreported
  <2>4. ASSUME NEW a \in A PROVE Cardinality({o \in out : o.activity = a}) = 1
    <3>1. PICK o \in out : o.activity = a
      BY <2>2, <2>3 DEF Reports
    <3>2. {p \in out : p.activity = a} = {o}
      BY <2>2, <3>1 DEF Reports
    <3>3. Cardinality({o}) = 1
      BY FS_Singleton
    <3> QED BY <3>2, <3>3
  <2>5. ASSUME NEW o \in Done
        PROVE  /\ o.result \in Request /\ request[o.result].status # "none"
               /\ Covers(request[o.result], o.activity)
    BY DEF CoverOK, Open
  <2>6. PICK d, m : d = Done /\ m = Made
    OBVIOUS
  <2>7. PICK f, g : f = [r \in m |-> request[r].total] /\ g = [a \in {o.activity : o \in d} |-> Kg(a)]
    OBVIOUS
  <2>8. SumFunction(f) = SumFunctionOnSet(Totals, m)
    <3>1. SumFunction(f) = SumFunctionOnSet(f, m)
      BY <2>7 DEF SumFunction
    <3>2. IsFiniteSet(m)
      BY <2>6 DEF AmountOK, Open
    <3>3. ASSUME NEW r \in m PROVE Totals[r] \in Int /\ f[r] = Totals[r]
      <4>1. PICK o \in Done : r = o.result
        BY <2>6, <3>3 DEF Made
      <4>2. r \in Request /\ request[r].status # "none"
        BY <2>5, <4>1
      <4> QED BY <2>7, <4>2 DEF Totals, RowTypesOK
    <3>4. SumFunctionOnSet(f, m) = SumFunctionOnSet(Totals, m)
      BY <3>2, <3>3, SumSame
    <3> QED BY <3>1, <3>4
  <2>9. SumFunction(g) = SumFunctionOnSet(KgOf(A), Counted)
    <3>1. PICK S : S = Counted
      OBVIOUS
    <3>2. g = [a \in S |-> Kg(a)]
      BY <2>6, <2>7, <3>1 DEF Counted
    <3>3. S \in SUBSET A
      BY <2>1, <2>2, <3>1 DEF Counted, Done, Reports
    <3>4. SumFunctionOnSet([a \in S |-> Kg(a)], S) = SumFunctionOnSet(KgOf(A), S)
      BY <2>2, <3>3, KgType
    <3> QED BY <3>1, <3>2, <3>4 DEF SumFunction
  <2>10. SumFunction(f) = SumFunction(g)
    BY <2>1, <2>6, <2>8, <2>9 DEF AmountOK, Open
  <2>11. /\ d = {o \in submission.output : o.result # "error"} /\ m = {o.result : o \in d}
    BY <2>6 DEF Done, Made
  <2>12. ASSUME NEW o \in d
         PROVE  LET row == request[o.result] IN
                /\ o.activity \in row.content
                /\ \A b \in row.content : b.type = o.activity.type
                /\ row.from <= FromDate(o.activity) /\ ThruDate(o.activity) <= row.thru
                /\ row.issued_from = IF ~submission.api THEN SetIssuedFrom(o.activity, DefaultFrom)
                                     ELSE IF submission.from = None THEN DefaultFrom ELSE submission.from
    BY <2>5, <2>6 DEF Covers, Issuer
  <2> QED BY <2>1, <2>4, <2>7, <2>10, <2>11, <2>12 DEF ActivitiesConserved
<1> QED BY <1>1, BatchInvariant, PTL
=============================================================================
