--------------------------- MODULE EmissionsRequests ---------------------------
(***************************************************************************)
(* The queue of emissions requests.  The supply-chain API and its command  *)
(* line queue a list of activities, the web form one activity with a       *)
(* document; a cron job, which may overlap itself, encrypts the evidence   *)
(* for an auditor and hands the request to him; the auditor opens it in    *)
(* the browser, issues a token on the chain or declines, and the API       *)
(* server checks the status and then changes it.  Every await is a step;   *)
(* calls fail and servers die between any two.                             *)
(***************************************************************************)
EXTENDS ActivityGroups, FiniteSets

CONSTANTS Submission, \* what users submit: activities, the issuer they name, by API or command line
          Posted, Poster, \* the activities of the web form, and the issuer it names
          Request, Job, Auditor,
          Session,    \* bound on issue forms that are opened: each is one
          DefaultFrom, \* ETH_ISSUE_FROM_ACCT
          MaxFailures  \* bound on failed calls and crashes

ASSUME RequestAssumption ==
  /\ MaxFailures \in Nat /\ None \notin Request \cup Auditor /\ "error" \notin Request
  /\ None \notin [of : {"content", "document"}, for : Auditor]
  /\ DefaultFrom \in STRING /\ Poster \in STRING
  /\ \A a \in Posted : IsActivity(a)
  /\ \A in \in Submission :
       /\ IsFiniteSet(in.activities) /\ \A a \in in.activities : IsActivity(a)
       /\ in.from \in STRING \cup {None} /\ in.api \in BOOLEAN

VARIABLES request,   \* id -> the row of emissions_request, or NoRow
          submission,\* the list of activities being queued
          post,      \* the request of the web form being posted
          stored,    \* requests whose document lies in the upload directory
          keyed,     \* auditors with a public key
          job,       \* run of process_emissions_requests -> where it stands
          session,   \* an issue form in an auditor's browser, and its call of the API
          tokens,    \* the tokens issued for requests: request, auditor, manifest
          shared,    \* history: requests that two runs of the job had on their lists
          contested, \* history: requests for which two calls stood between check and change
          early,     \* history: requests selected while their form was still being posted
          failures

rest == <<shared, contested, early>>
vars == <<request, submission, post, stored, keyed, job, session, tokens, rest, failures>>

Idle == [at |-> "idle", activities |-> {}, todo |-> {}, output |-> {}, from |-> None, api |-> TRUE]
NoPost == [at |-> "none", request |-> None]
PostDone == [NoPost EXCEPT !.at = "done"]
NoRun == [at |-> "none", todo |-> {}, auditors |-> {}, request |-> None, auditor |-> None,
          manifest |-> None]
Closed == [at |-> "closed", request |-> None, auditor |-> None, manifest |-> None, verdict |-> None]
Left == [Closed EXCEPT !.at = "left"]

Status == {"CREATED", "PENDING", "ISSUED", "DECLINED"}
Decided == {"ISSUED", "DECLINED"}
NoRow == [status |-> "none", issued_from |-> None, total |-> 0, from |-> 0, thru |-> 0,
          content |-> {}, documented |-> FALSE, auditor |-> None, manifest |-> None]
In(status) == {r \in Request : request[r].status \in status}

Init ==
  /\ request = [r \in Request |-> NoRow]
  /\ submission = Idle /\ post = NoPost /\ stored = {} /\ keyed = {}
  /\ job = [j \in Job |-> NoRun]
  /\ session = [s \in Session |-> Closed]
  /\ tokens = {} /\ shared = {} /\ contested = {} /\ early = {}
  /\ failures = 0

Fault == failures < MaxFailures /\ failures' = failures + 1

-----------------------------------------------------------------------------
(* Queueing. *)

\* Mutation: a request without an auditor is pending from the start.
NewRowPending(g, from) ==
  [status |-> "PENDING", issued_from |-> IF from = None THEN DefaultFrom ELSE from,
   total |-> g.total, from |-> g.from, thru |-> g.thru, content |-> g.content,
   documented |-> FALSE, auditor |-> None, manifest |-> None]
\* create_emissions_request.
NewRow(g, from) ==
  [status |-> "CREATED", issued_from |-> IF from = None THEN DefaultFrom ELSE from,
   total |-> g.total, from |-> g.from, thru |-> g.thru, content |-> g.content,
   documented |-> FALSE, auditor |-> None, manifest |-> None]
Free == In({"none"})
NewId == CHOOSE r \in Free : TRUE
Queue(g, from) == Free # {} /\ request' = [request EXCEPT ![NewId] = NewRow(g, from)]

\* Bound: a list is posted when there are ids for it, and not amid a post of the web form, whose
\* calls touch rows of their own.
MaySubmit(n) == post.at \in {"none", "done"} /\ n <= Cardinality(Free)

\* issueToken of the supply-chain API, whose caller names the issuer, or the command line
\* with -queue.  What failed to process is reported at the end.
SubmitActivities(in) ==
  LET groups == GroupProcessedActivities(in.activities, IF in.api THEN in.from ELSE DefaultFrom) IN
  /\ submission.at \in {"idle", "failed"} /\ MaySubmit(Cardinality(groups))
  /\ submission' = [at |-> "queue", activities |-> in.activities, from |-> in.from, api |-> in.api,
                    todo |-> groups, output |-> {}]
  /\ UNCHANGED <<request, post, stored, keyed, job, session, tokens, rest, failures>>

Listed(g, result) == {[activity |-> a, result |-> result] : a \in g.content}

\* process_group: the command line issues from the issuer of the group, the API from the posted one.
ProcessGroup(g) ==
  /\ submission.at = "queue" /\ g \in submission.todo
  /\ Queue(g, IF submission.api THEN submission.from ELSE g.issued_from)
  /\ submission' = [submission EXCEPT !.todo = @ \ {g}, !.output = @ \cup Listed(g, NewId)]
  /\ UNCHANGED <<post, stored, keyed, job, session, tokens, rest, failures>>

\* The command line notes the error with each activity of the group, the API gives up.
GroupFails(g) ==
  /\ submission.at = "queue" /\ g \in submission.todo /\ Fault
  /\ submission' =
       IF submission.api THEN [submission EXCEPT !.at = "failed"]
       ELSE [submission EXCEPT !.todo = @ \ {g}, !.output = @ \cup Listed(g, "error")]
  /\ UNCHANGED <<request, post, stored, keyed, job, session, tokens, rest>>

AnswerSubmission ==
  /\ submission.at = "queue" /\ submission.todo = {}
  /\ submission' = [submission EXCEPT !.at = "answered",
                    !.output = @ \cup Listed([content |-> Errors(submission.activities)], "error")]
  /\ UNCHANGED <<request, post, stored, keyed, job, session, tokens, rest, failures>>

\* postEmissionsRequest: the request is queued, of the dates of the form, before the document is
\* attached and moved.
PostEmissionsRequest(a, from) ==
  LET thru == IF a.thru = None THEN Now ELSE a.thru IN
  /\ post.at = "none" /\ submission.at # "queue" /\ ProcessActivity(a).ok /\ Kg(a) # 0
  /\ Queue([Group({a}, from) EXCEPT !.thru = thru], from)
  /\ post' = [at |-> "attach", request |-> NewId]
  /\ UNCHANGED <<submission, stored, keyed, job, session, tokens, rest, failures>>

AddSupportingDocument ==
  /\ post.at = "attach"
  /\ request' = [request EXCEPT ![post.request].documented = TRUE]
  /\ post' = [post EXCEPT !.at = "move"]
  /\ UNCHANGED <<submission, stored, keyed, job, session, tokens, rest, failures>>

MoveDocument ==
  /\ post.at = "move"
  /\ stored' = stored \cup {post.request}
  /\ post' = PostDone
  /\ UNCHANGED <<request, submission, keyed, job, session, tokens, rest, failures>>

PostFails ==
  /\ post.at \in {"attach", "move"} /\ Fault
  /\ post' = PostDone
  /\ UNCHANGED <<request, submission, stored, keyed, job, session, tokens, rest>>

-----------------------------------------------------------------------------
(* process_emissions_requests. *)

\* markPkExported: auditors are interchangeable until they have a key, so one of them is taken.
RegisterKey ==
  /\ keyed # Auditor /\ keyed' = keyed \cup {CHOOSE a \in Auditor \ keyed : TRUE}
  /\ UNCHANGED <<request, submission, post, stored, job, session, tokens, rest, failures>>

\* Mutation: requests of an auditor are listed again.
SelectedOpen == In({"CREATED", "PENDING"})
\* Mutation: an inner join drops the requests without a document.
SelectedJoined == {r \in In({"CREATED"}) : request[r].documented}
\* selectCreated.
Selected == In({"CREATED"})

Listing(j, r) == r \in job[j].todo

\* Bounds: idle runs are interchangeable, and a second run starts only before the first has
\* handed out a request (it may end long after).
FirstIdle(j) == job[j].at = "none" /\ j = CHOOSE i \in Job : job[i].at = "none"
Alone(j) == \A i \in Job \ {j} : job[i].at = "none"
MayRun(j) == FirstIdle(j) /\ (Alone(j) \/ In(Status \ {"CREATED"}) = {})

\* The requests that are CREATED, then the auditors with a public key: keys are only ever
\* added, so the two reads are one step.  Without either the run ends.
SelectCreated(j) ==
  /\ Selected # {} /\ keyed # {}
  /\ MayRun(j)
  /\ job' = [job EXCEPT ![j] = [NoRun EXCEPT !.at = "next", !.todo = Selected, !.auditors = keyed]]
  /\ shared' = shared \cup {r \in Selected : \E i \in Job \ {j} : Listing(i, r)}
  /\ early' = IF post.at \in {"attach", "move"} THEN early \cup ({post.request} \cap Selected) ELSE early
  /\ UNCHANGED <<request, submission, post, stored, keyed, session, tokens, contested, failures>>

NextOf(j) == CHOOSE r \in Request : Listing(j, r)
Missing(r) == request[r].documented /\ r \notin stored
\* Mutation: the document is not looked at.
EvidenceContent(r) == "content"
Evidence(r) == IF request[r].documented THEN "document" ELSE "content"

\* The next request of the list and a random auditor; the document, or else the content, is
\* encrypted for him.  A document that cannot be read ends the run.
EncryptEvidence(j, a) ==
  /\ job[j].at = "next" /\ a \in job[j].auditors
  /\ LET r == NextOf(j) IN
     job' = [job EXCEPT ![j] =
       IF Missing(r) THEN NoRun
       ELSE [@ EXCEPT !.at = "update", !.request = r, !.auditor = a,
                      !.manifest = [of |-> Evidence(r), for |-> a]]]
  /\ UNCHANGED <<request, submission, post, stored, keyed, session, tokens, rest, failures>>

\* Mutation: a manifest that is there is kept.
UpdateToPendingKept(j) ==
  /\ job[j].at = "update"
  /\ request' = [request EXCEPT ![job[j].request].status = "PENDING",
                                ![job[j].request].auditor = job[j].auditor,
                                ![job[j].request].manifest = IF @ = None THEN job[j].manifest ELSE @]
  /\ job' = [job EXCEPT ![j] =
       IF @.todo = {@.request} THEN NoRun
       ELSE [@ EXCEPT !.at = "next", !.todo = job[j].todo \ {job[j].request}, !.request = None,
                      !.auditor = None, !.manifest = None]]
  /\ UNCHANGED <<submission, post, stored, keyed, session, tokens, rest, failures>>
\* The row becomes PENDING whatever its status is by now.
UpdateToPending(j) ==
  /\ job[j].at = "update"
  /\ request' = [request EXCEPT ![job[j].request].status = "PENDING",
                                ![job[j].request].auditor = job[j].auditor,
                                ![job[j].request].manifest = job[j].manifest]
  /\ job' = [job EXCEPT ![j] =
       IF @.todo = {@.request} THEN NoRun
       ELSE [@ EXCEPT !.at = "next", !.todo = job[j].todo \ {job[j].request}, !.request = None,
                      !.auditor = None, !.manifest = None]]
  /\ UNCHANGED <<submission, post, stored, keyed, session, tokens, rest, failures>>

RunFails(j) ==
  /\ job[j].at # "none" /\ Fault
  /\ job' = [job EXCEPT ![j] = NoRun]
  /\ UNCHANGED <<request, submission, post, stored, keyed, session, tokens, rest>>

-----------------------------------------------------------------------------
(* The auditor's issue form. *)

\* Bounds: unopened forms are interchangeable; every form is for one request, for the calls made
\* from a form touch no other; and none is opened while two runs overlap.
MayOpen(s, r) ==
  /\ session[s] = Closed /\ s = CHOOSE t \in Session : session[t] = Closed
  /\ r = CHOOSE t \in Request : TRUE
  /\ \E j \in Job : Alone(j)

\* fetchEmissionsRequest: the auditor must match; the status is not looked at, so that a form
\* opened from an old list shows a request that is decided already.
FetchEmissionsRequest(s, r) ==
  /\ MayOpen(s, r) /\ request[r].auditor # None
  /\ session' = [session EXCEPT ![s] = [at |-> "form", request |-> r, verdict |-> None,
                   auditor |-> request[r].auditor, manifest |-> request[r].manifest]]
  /\ UNCHANGED <<request, submission, post, stored, keyed, job, tokens, rest, failures>>

Token(s) == [request |-> session[s].request, auditor |-> session[s].auditor,
             manifest |-> session[s].manifest]

\* submit: the button needs a quantity; the token is issued before the server is told.
IssueToken(s) ==
  /\ session[s].at = "form" /\ request[session[s].request].total # 0
  /\ tokens' = tokens \cup {Token(s)}
  /\ session' = [session EXCEPT ![s].at = "issued"]
  /\ UNCHANGED <<request, submission, post, stored, keyed, job, rest, failures>>

Deciding(s, r) == session[s].at = "update" /\ session[s].request = r

\* Mutation: the status is not checked.
CheckNothing(s, verdict) ==
  LET r == session[s].request IN
  /\ session' = [session EXCEPT ![s].at = "update", ![s].verdict = verdict]
  /\ contested' = IF \E t \in Session : Deciding(t, r) THEN contested \cup {r} ELSE contested
  /\ UNCHANGED <<request, submission, post, stored, keyed, job, tokens, shared, early, failures>>
\* decline_emissions_request, issue_emissions_request: check, then change.
CheckPending(s, verdict) ==
  LET r == session[s].request IN
  /\ IF request[r].status = "PENDING"
     THEN /\ session' = [session EXCEPT ![s].at = "update", ![s].verdict = verdict]
          /\ contested' = IF \E t \in Session : Deciding(t, r) THEN contested \cup {r} ELSE contested
     ELSE session' = [session EXCEPT ![s] = Left] /\ UNCHANGED contested
  /\ UNCHANGED <<request, submission, post, stored, keyed, job, tokens, shared, early, failures>>

Decline(s) == session[s].at = "form" /\ CheckPending(s, "DECLINED")
TellIssued(s) == session[s].at = "issued" /\ CheckPending(s, "ISSUED")

UpdateStatus(s) ==
  /\ session[s].at = "update"
  /\ request' = [request EXCEPT ![session[s].request].status = session[s].verdict]
  /\ session' = [session EXCEPT ![s] = Left]
  /\ UNCHANGED <<submission, post, stored, keyed, job, tokens, rest, failures>>

\* The issue is reported as failed although there is a token, the form is left before the server
\* is told, or the server dies between check and change.
LeaveForm(s) ==
  /\ session[s].at \in {"issued", "update"} /\ Fault
  /\ session' = [session EXCEPT ![s] = Left]
  /\ UNCHANGED <<request, submission, post, stored, keyed, job, tokens, rest>>

-----------------------------------------------------------------------------
Submitting ==
  \/ \E in \in Submission : SubmitActivities(in)
  \/ \E g \in submission.todo : GroupFails(g) \/ ProcessGroup(g)
  \/ AnswerSubmission
  \/ \E a \in Posted : PostEmissionsRequest(a, Poster)
  \/ AddSupportingDocument \/ PostFails

Run(j) ==
  \/ SelectCreated(j) \/ UpdateToPending(j)
  \/ \E a \in Auditor : EncryptEvidence(j, a)

Auditing(s) ==
  \/ \E r \in Request : FetchEmissionsRequest(s, r)
  \/ IssueToken(s) \/ Decline(s) \/ TellIssued(s) \/ UpdateStatus(s) \/ LeaveForm(s)

Next ==
  \/ Submitting \/ MoveDocument
  \/ RegisterKey
  \/ \E j \in Job : Run(j) \/ RunFails(j)
  \/ \E s \in Session : Auditing(s)

Spec == Init /\ [][Next]_vars
\* cron starts the job again and again, and a run that has started goes on.
FairSpec == Spec /\ WF_vars(\E j \in Job : Run(j))

-----------------------------------------------------------------------------
Manifest == [of : {"content", "document"}, for : Auditor]
Row == [status : Status, issued_from : STRING, total : Nat, from : Nat, thru : Nat,
        content : SUBSET (Posted \cup UNION {in.activities : in \in Submission}), documented : BOOLEAN,
        auditor : Auditor \cup {None}, manifest : Manifest \cup {None}]

\* Types of the rows, the runs and the forms (models/emissionsRequest.ts): a request that has
\* left CREATED has an auditor and a manifest, and a run at its update has them to write.
RequestsTypeOK ==
  /\ \A r \in In(Status) :
       /\ request[r] \in Row
       /\ (request[r].status = "CREATED") = (request[r].auditor = None)
       /\ (request[r].status = "CREATED") = (request[r].manifest = None)
  /\ \A j \in Job : job[j].at = "update" =>
       Listing(j, job[j].request) /\ job[j].auditor \in Auditor /\ job[j].manifest \in Manifest
  /\ \A s \in Session : session[s].request # None =>
       request[session[s].request].status \in Status \ {"CREATED"}

\* A list that was answered is accounted for: each of its activities is in one request of
\* its own kind, dates and issuer, or is reported as an error; nothing is counted twice or lost
\* between the groups (group_processed_activities, process_group).
ActivitiesConserved ==
  submission.at = "answered" =>
    LET done == {o \in submission.output : o.result # "error"}
        made == {o.result : o \in done}
        Total(r) == request[r].total
        Issuer(a) == IF ~submission.api THEN SetIssuedFrom(a, DefaultFrom)
                     ELSE IF submission.from = None THEN DefaultFrom ELSE submission.from
    IN  /\ \A a \in submission.activities :
             Cardinality({o \in submission.output : o.activity = a}) = 1
        /\ \A o \in done :
             LET row == request[o.result] IN
             /\ o.activity \in row.content
             /\ \A b \in row.content : b.type = o.activity.type
             /\ row.from <= FromDate(o.activity) /\ ThruDate(o.activity) <= row.thru
             /\ row.issued_from = Issuer(o.activity)
        /\ SumFunction([r \in made |-> Total(r)])
             = SumFunction([a \in {o.activity : o \in done} |-> Kg(a)])

\* A request is given to one auditor, with one manifest, and never goes back in the queue,
\* unless two overlapping runs of the job both had it on their lists (updateToPending does not
\* look at the status).
AssignedOnce ==
  [][\A r \in Request :
       request[r].status \notin {"none", "CREATED"} /\ r \notin shared =>
         /\ request'[r].auditor = request[r].auditor
         /\ request'[r].manifest = request[r].manifest
         /\ request[r].status = "PENDING" \/ request'[r].status \in Decided]_vars

\* What an auditor has decided stays, unless two calls had both found the request PENDING before
\* either changed it, or two runs of the job had it.
VerdictStands ==
  [][\A r \in In(Decided) \ (shared \cup contested) :
       request'[r].status = request[r].status]_vars

\* A token is issued by the auditor for whom its manifest was encrypted; a request marked
\* ISSUED has a token; and the tokens of a request are all the same one auditor's, though he
\* may issue several from forms he opened twice.
TokensMatchRequests ==
  /\ \A t \in tokens : t.manifest.for = t.auditor
  /\ \A r \in In({"ISSUED"}) : \E t \in tokens : t.request = r
  /\ \A t, u \in tokens : t.request = u.request /\ t.request \notin shared => t = u

\* When a document was attached, it is the document that the auditor gets, unless the job
\* listed the request while its form was still being posted.
EvidenceUsed ==
  \A r \in In(Status \ {"CREATED"}) \ early :
    request[r].documented => request[r].manifest.of = "document"

\* Every queued request reaches an auditor once there is one with a key, unless a document is
\* missing: a single one stops the whole queue (readFileSync throws).
Blocked == \E r \in In({"CREATED"}) : Missing(r)
RequestsProcessed == keyed # {} ~> (Blocked \/ In({"CREATED"}) = {})
=============================================================================
