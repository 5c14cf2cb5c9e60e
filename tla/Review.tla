-------------------------------- MODULE Review --------------------------------
(***************************************************************************)
(* The review of one run's deliverables: the task with its items           *)
(* (review-service.ts, review-repository.ts), the artifacts and their      *)
(* visibility in the exec service (exec/src/artifact), the two outbox jobs *)
(* that cross the services (review-publisher.ts), and the note the next    *)
(* run of the conversation is given (review-context-injection.ts).         *)
(*                                                                         *)
(* A reviewer works on a page read in two steps, an upload crosses to exec *)
(* between its check and its write, and a publisher may be slow: its claim *)
(* goes stale and another one does the same work again.                    *)
(***************************************************************************)
EXTENDS Naturals, FiniteSets

CONSTANTS Items,        \* deliverables of the run: 1..n
          MaxUploads,   \* bound: revisions sent to exec
          Reviewers, Requester, Admin,
          Names,        \* file names
          Publishers, Runs,
          MaxClaims,    \* bound: claims of an outbox job
          MaxFaults,    \* bound: exec calls that fail
          MaxRev        \* bound: revisions of the task

ReviewAssumption == /\ Items = 1..Cardinality(Items)
                           /\ {MaxUploads, MaxClaims, MaxFaults, MaxRev} \subseteq Nat
                           /\ Names # {}

VARIABLES task,     \* status, assignee and revision of the task
          current,  \* the current version of an item
          name,     \* its file name
          revised,  \* 'revised' events: <<from, to>>
          was,      \* every version an item has had
          vis,      \* visibility of an artifact in exec
          made,     \* artifacts inserted so far
          page,     \* what a reviewer has in front of him
          upload,   \* an upload on its way
          decision, \* the decided task: by whom and over which versions
          material, \* snapshot status of the material
          job,      \* the outbox rows "snapshot" and "decided"
          pub,      \* per publisher: the job, its step, the imports left
          faults,
          file,     \* workspace file of a name under the review directory
          inject,   \* context_injected_run_id
          told      \* per run: where its preparation is

taskVars == <<task, current, name, revised, was>>
execVars == <<vis, made, file>>
jobVars == <<job, pub, faults, material>>
noteVars == <<inject, told>>
reviewVars == <<taskVars, execVars, page, upload, decision, jobVars, noteVars>>

None == "none"
Artifacts == 1..(Cardinality(Items) + MaxUploads)
Edited == Cardinality(Items) + MaxUploads + 1   \* a file the next run has changed
JobKinds == {"snapshot", "decided"}
Terminal == {"APPROVED", "REJECTED"}
NoPage == [rev |-> 0, cur |-> [i \in {} |-> 0], pc |-> "closed"]
NoUpload == [pc |-> "idle", item |-> 0, base |-> 0, from |-> 0, art |-> 0, name |-> None]
NoDecision == [by |-> None, seen |-> {}, updates |-> [a \in {} |-> None], imports |-> {}]
NoJob == [status |-> None, token |-> 0]
Idle == [job |-> None, pc |-> "idle", token |-> 0, left |-> {}]

ReviewTypeOK ==
  /\ task \in [status : {None, "PENDING", "IN_REVIEW"} \cup Terminal,
               assignee : Reviewers \cup {None}, rev : 0..MaxRev]
  /\ current \in [Items -> Artifacts] /\ name \in [Items -> Names]
  /\ revised \subseteq Artifacts \X Artifacts /\ was \in [Items -> SUBSET Artifacts]
  /\ vis \in [Artifacts -> {None, "held", "released", "withdrawn"}]
  /\ made \in 0..(Cardinality(Items) + MaxUploads)
  /\ \A r \in Reviewers : page[r].pc \in {"closed", "head", "open"} /\ page[r].rev \in 0..MaxRev
  /\ \A r \in Reviewers : upload[r].pc \in {"idle", "sent", "stored", "moved"}
  /\ decision.by \in Reviewers \cup {None} /\ decision.seen \subseteq Artifacts
  /\ DOMAIN decision.updates \subseteq Artifacts /\ decision.imports \subseteq Artifacts \X Names
  /\ material \in {"pending", "ready", "unavailable"}
  /\ job \in [JobKinds -> [status : {None, "pending", "claimed", "published", "refused", "failed"},
                       token : 0..MaxClaims]]
  /\ \A p \in Publishers : /\ pub[p].job \in JobKinds \cup {None} /\ pub[p].token \in 0..MaxClaims
                           /\ pub[p].pc \in {"idle", "call", "mark", "lost", "import", "settle"}
  /\ faults \in 0..MaxFaults /\ file \in [Names -> Artifacts \cup {0, Edited}]
  /\ inject \in Runs \cup {None} /\ told \in [Runs -> {"no", "listed", "yes", "not"}]

(* The run has submitted its artifacts under review delivery: held.        *)
ReviewInit ==
  /\ task = [status |-> None, assignee |-> None, rev |-> 0]
  /\ current = [i \in Items |-> i] /\ name \in [Items -> Names]
  /\ revised = {} /\ was = [i \in Items |-> {i}]
  /\ vis = [a \in Artifacts |-> IF a \in Items THEN "held" ELSE None]
  /\ made = Cardinality(Items)
  /\ page = [r \in Reviewers |-> NoPage] /\ upload = [r \in Reviewers |-> NoUpload]
  /\ decision = NoDecision /\ material = "pending"
  /\ job = [j \in JobKinds |-> NoJob] /\ pub = [p \in Publishers |-> Idle] /\ faults = 0
  /\ file = [n \in Names |-> 0] /\ inject = None /\ told = [u \in Runs |-> "no"]

Enqueue(j) == job' = [job EXCEPT ![j].status = "pending"]

(* ensureReviewTaskForTerminalRun, in the transaction that ends the run.   *)
CreateTask ==
  /\ task.status = None
  /\ task' = [task EXCEPT !.status = "PENDING", !.rev = 1]
  /\ Enqueue("snapshot")
  /\ UNCHANGED <<current, name, revised, was, execVars, page, upload, decision, pub, faults,
                 material, noteVars>>

-----------------------------------------------------------------------------
(* Reviewers.                                                              *)

Bumped(t) == [t EXCEPT !.rev = @ + 1]

(* claim: not the requester; a conditional update.                         *)
Claim(r) ==
  /\ r # Requester /\ task.status = "PENDING" /\ task.rev < MaxRev
  /\ task' = Bumped([task EXCEPT !.status = "IN_REVIEW", !.assignee = r])
  /\ UNCHANGED <<current, name, revised, was, execVars, page, upload, decision, jobVars, noteVars>>

(* releaseClaim: by the assignee or an administrator.                      *)
ReleaseClaim(r) ==
  /\ task.status = "IN_REVIEW" /\ r \in {task.assignee, Admin} /\ task.rev < MaxRev
  /\ task' = Bumped([task EXCEPT !.status = "PENDING", !.assignee = None])
  /\ UNCHANGED <<current, name, revised, was, execVars, page, upload, decision, jobVars, noteVars>>

(* openDetail of the page: getTaskDetail reads the task and then its items, *)
(* without a transaction.                                                  *)
ReadTask(r) ==
  /\ task.status = "IN_REVIEW" /\ page[r].pc # "head"
  /\ page' = [page EXCEPT ![r] = [NoPage EXCEPT !.rev = task.rev, !.pc = "head"]]
  /\ UNCHANGED <<taskVars, execVars, upload, decision, jobVars, noteVars>>
ReadItems(r) ==
  /\ page[r].pc = "head"
  /\ page' = [page EXCEPT ![r].cur = current, ![r].pc = "open"]
  /\ UNCHANGED <<taskVars, execVars, upload, decision, jobVars, noteVars>>

(* What uploadRevision and #decide check of the task they read.            *)
Holds(r, base) == task.status = "IN_REVIEW" /\ task.assignee = r /\ task.rev = base

(* uploadRevision up to its call of exec.                                  *)
UploadStart(r, i, n) ==
  /\ page[r].pc = "open" /\ upload[r].pc = "idle" /\ Holds(r, page[r].rev)
  /\ upload' = [upload EXCEPT ![r] = [pc |-> "sent", item |-> i, base |-> page[r].rev,
                                      from |-> current[i], art |-> 0, name |-> n]]
  /\ UNCHANGED <<taskVars, execVars, page, decision, jobVars, noteVars>>

(* submitRevision in exec: the bytes are stored and the artifact is held.  *)
SubmitRevision(r) ==
  /\ upload[r].pc = "sent" /\ made < Cardinality(Items) + MaxUploads
  /\ made' = made + 1 /\ vis' = [vis EXCEPT ![made + 1] = "held"]
  /\ upload' = [upload EXCEPT ![r].pc = "stored", ![r].art = made + 1]
  /\ UNCHANGED <<taskVars, file, page, decision, jobVars, noteVars>>

(* updateItemCurrentArtifact: the task's revision and the item's version   *)
(* as they were read; the assignee is not checked again.                   *)
MovableByItem(u) == task.status = "IN_REVIEW" /\ current[u.item] = u.from
Movable(u) == task.status = "IN_REVIEW" /\ task.rev = u.base /\ current[u.item] = u.from

(* The artifact exists before the item points to it.                       *)
StoredSoon(u) == u.pc \in {"sent", "stored"}
Stored(u) == u.pc = "stored"

MoveItem(r) ==
  LET u == upload[r]
      ok == Movable(u)
  IN /\ Stored(u) /\ (ok => task.rev < MaxRev)
     /\ IF ok THEN /\ task' = Bumped(task)
                   /\ current' = [current EXCEPT ![u.item] = u.art]
                   /\ name' = [name EXCEPT ![u.item] = u.name]
                   /\ was' = [was EXCEPT ![u.item] = @ \cup {u.art}]
                   /\ upload' = [upload EXCEPT ![r].pc = "moved"]
              ELSE upload' = [upload EXCEPT ![r] = NoUpload] /\ UNCHANGED <<task, current, name, was>>
     /\ UNCHANGED <<revised, execVars, page, decision, jobVars, noteVars>>

(* appendEvent 'revised', after the transaction.                           *)
RecordRevised(r) ==
  /\ upload[r].pc = "moved"
  /\ revised' = revised \cup {<<upload[r].from, upload[r].art>>}
  /\ upload' = [upload EXCEPT ![r] = NoUpload]
  /\ UNCHANGED <<task, current, name, was, execVars, page, decision, jobVars, noteVars>>

(* The process dies, or a call fails, anywhere in the upload.              *)
UploadDies(r) ==
  /\ upload[r].pc # "idle" /\ faults < MaxFaults
  /\ upload' = [upload EXCEPT ![r] = NoUpload] /\ faults' = faults + 1
  /\ UNCHANGED <<taskVars, execVars, page, decision, job, pub, material, noteVars>>

(* #allVersions.                                                           *)
AllVersions == {current[i] : i \in Items} \cup Items \cup UNION {{e[1], e[2]} : e \in revised}

(* The updates of a decision: the current versions out, the others back.   *)
Updates(status) ==
  [a \in AllVersions |-> IF status = "APPROVED" /\ \E i \in Items : current[i] = a
                         THEN "released" ELSE "withdrawn"]
Imports(status) ==
  IF status = "REJECTED" THEN {} ELSE {<<current[i], name[i]>> : i \in {k \in Items : current[k] # k}}

(* The check of #decide.  The mutant does without the reviewer's revision. *)
DecidableByHolder(r, base) == task.status = "IN_REVIEW" /\ task.assignee = r
Decidable(r, base) == Holds(r, base)

(* approve and reject: #decide, one transaction.                           *)
Decide(r, status) ==
  /\ page[r].pc = "open" /\ Decidable(r, page[r].rev) /\ task.rev < MaxRev
  /\ task' = Bumped([task EXCEPT !.status = status])
  /\ decision' = [by |-> r, seen |-> {page[r].cur[i] : i \in Items},
                  updates |-> Updates(status), imports |-> Imports(status)]
  /\ Enqueue("decided")
  /\ UNCHANGED <<current, name, revised, was, execVars, page, upload, pub, faults, material,
                 noteVars>>

-----------------------------------------------------------------------------
(* The publishers of the two jobs.                                         *)

(* claimBatch: a row that waits, or one whose claim is too old.            *)
ClaimJob(p, j) ==
  /\ pub[p].pc = "idle" /\ job[j].status \in {"pending", "claimed"} /\ job[j].token < MaxClaims
  /\ job' = [job EXCEPT ![j] = [status |-> "claimed", token |-> @.token + 1]]
  /\ pub' = [pub EXCEPT ![p] = [job |-> j, pc |-> "call", token |-> job[j].token + 1,
                                left |-> decision.imports]]
  /\ UNCHANGED <<taskVars, execVars, page, upload, decision, faults, material, noteVars>>

(* #snapshot: what is ready is left alone; else exec copies the source, or *)
(* refuses for good (4xx), and the outcome is written.                     *)
Snapshot(p) ==
  /\ pub[p].job = "snapshot" /\ pub[p].pc = "call"
  /\ \/ material = "ready" /\ pub' = [pub EXCEPT ![p].pc = "settle"]
     \/ material # "ready" /\ \E o \in {"mark", "lost"} : pub' = [pub EXCEPT ![p].pc = o]
  /\ UNCHANGED <<taskVars, execVars, page, upload, decision, job, faults, material, noteVars>>

(* markMaterialSnapshot.                                                   *)
MarkOver(old, new) == new
Mark(old, new) == IF old = "ready" THEN old ELSE new

MarkMaterial(p) ==
  /\ pub[p].pc \in {"mark", "lost"}
  /\ material' = Mark(material, IF pub[p].pc = "mark" THEN "ready" ELSE "unavailable")
  /\ pub' = [pub EXCEPT ![p].pc = "settle"]
  /\ UNCHANGED <<taskVars, execVars, page, upload, decision, job, faults, noteVars>>

(* applyVisibilities in exec: WHERE visibility = 'held'.                   *)
AppliedReleases(a) ==
  IF a \in DOMAIN decision.updates /\ decision.updates[a] = "released" THEN "released" ELSE vis[a]
Applied(a) == IF a \in DOMAIN decision.updates /\ vis[a] = "held" THEN decision.updates[a] ELSE vis[a]

ApplyVisibilities(p) ==
  /\ pub[p].job = "decided" /\ pub[p].pc = "call"
  /\ vis' = [a \in Artifacts |-> Applied(a)]
  /\ pub' = [pub EXCEPT ![p].pc = IF pub[p].left = {} THEN "settle" ELSE "import"]
  /\ UNCHANGED <<taskVars, made, file, page, upload, decision, job, faults, material, noteVars>>

(* importRevisionToWorkspace: writes over the file of that name.           *)
ImportRevision(p, e) ==
  /\ pub[p].pc = "import" /\ e \in pub[p].left
  /\ file' = [file EXCEPT ![e[2]] = e[1]]
  /\ pub' = [pub EXCEPT ![p].left = @ \ {e}, ![p].pc = IF pub[p].left = {e} THEN "settle" ELSE @]
  /\ UNCHANGED <<taskVars, vis, made, page, upload, decision, job, faults, material, noteVars>>

(* markPublished under the claim's token; a lost claim changes nothing.    *)
Settle(p) ==
  /\ pub[p].pc = "settle"
  /\ job' = [job EXCEPT ![pub[p].job].status = IF job[pub[p].job].token = pub[p].token
                                               THEN "published" ELSE @]
  /\ pub' = [pub EXCEPT ![p] = Idle]
  /\ UNCHANGED <<taskVars, execVars, page, upload, decision, faults, material, noteVars>>

(* A call of exec fails: refused for good (markPublished in the code, kept *)
(* apart here) or to be tried again until the attempts are used up.        *)
AfterFault(j, retry) == IF ~retry THEN "refused"
                        ELSE IF job[j].token < MaxClaims THEN "pending" ELSE "failed"

ExecFails(p) ==
  /\ pub[p].pc \in {"call", "import"} /\ faults < MaxFaults /\ faults' = faults + 1
  /\ \E retry \in BOOLEAN :
       /\ (pub[p].job = "snapshot" => retry)
       /\ job' = [job EXCEPT ![pub[p].job].status =
                    IF job[pub[p].job].token = pub[p].token THEN AfterFault(pub[p].job, retry) ELSE @]
  /\ pub' = [pub EXCEPT ![p] = Idle]
  /\ UNCHANGED <<taskVars, execVars, page, upload, decision, material, noteVars>>

(* The worker dies in the middle of a job.                                 *)
PublisherDies(p) ==
  /\ pub[p].pc # "idle" /\ faults < MaxFaults /\ job[pub[p].job].token < MaxClaims
  /\ faults' = faults + 1 /\ pub' = [pub EXCEPT ![p] = Idle]
  /\ UNCHANGED <<taskVars, execVars, page, upload, decision, job, material, noteVars>>

-----------------------------------------------------------------------------
(* The next runs of the conversation.                                      *)

(* listPendingContextInjection.                                            *)
InjectList(u) ==
  /\ told[u] = "no" /\ task.status \in Terminal /\ inject = None
  /\ told' = [told EXCEPT ![u] = "listed"]
  /\ UNCHANGED <<taskVars, execVars, page, upload, decision, jobVars, inject>>

(* markContextInjected: WHERE context_injected_run_id IS NULL.             *)
InjectableAgain == TRUE
Injectable == inject = None

InjectMark(u) ==
  /\ told[u] = "listed"
  /\ told' = [told EXCEPT ![u] = IF Injectable THEN "yes" ELSE "not"]
  /\ inject' = IF Injectable THEN u ELSE inject
  /\ UNCHANGED <<taskVars, execVars, page, upload, decision, jobVars>>

(* The run goes on from the revised file, as its note says.                *)
Work(u, n) ==
  /\ told[u] = "yes" /\ file[n] \in Artifacts
  /\ file' = [file EXCEPT ![n] = Edited]
  /\ UNCHANGED <<taskVars, vis, made, page, upload, decision, jobVars, noteVars>>

-----------------------------------------------------------------------------
ReviewerStep(r) ==
  \/ Claim(r) \/ ReleaseClaim(r) \/ ReadTask(r) \/ ReadItems(r) \/ SubmitRevision(r)
  \/ MoveItem(r) \/ RecordRevised(r) \/ UploadDies(r)
  \/ \E i \in Items, n \in Names : UploadStart(r, i, n)
  \/ \E s \in Terminal : Decide(r, s)

PublisherWork(p) ==
  \/ Snapshot(p) \/ MarkMaterial(p) \/ ApplyVisibilities(p) \/ Settle(p)
  \/ \E e \in decision.imports : ImportRevision(p, e)

(* A reviewed task at rest, or a bound is used up.                         *)
ReviewDone ==
  /\ task.status \in Terminal \/ task.rev = MaxRev \/ made = Cardinality(Items) + MaxUploads
  /\ UNCHANGED reviewVars

ReviewNext ==
  \/ CreateTask
  \/ \E r \in Reviewers : ReviewerStep(r)
  \/ \E p \in Publishers : \/ PublisherWork(p) \/ ExecFails(p) \/ PublisherDies(p)
                           \/ \E j \in JobKinds : ClaimJob(p, j)
  \/ \E u \in Runs : InjectList(u) \/ InjectMark(u) \/ \E n \in Names : Work(u, n)
  \/ ReviewDone

ReviewSpec == ReviewInit /\ [][ReviewNext]_reviewVars

(* The outbox loop of a worker keeps running.                              *)
ClaimsOne(p) == \E j \in JobKinds : ClaimJob(p, j)
ReviewFair ==
  /\ ReviewSpec
  /\ \A p \in Publishers : /\ WF_reviewVars(PublisherWork(p))
                           /\ WF_reviewVars(ClaimsOne(p))

-----------------------------------------------------------------------------
(* What the owner can see is what the approver had in front of him: the    *)
(* page's revision is the one #decide requires, although the page is read  *)
(* without a transaction and uploads of others may land in between.        *)
ReleasedAsSeen ==
  \A a \in Artifacts : vis[a] = "released" => task.status = "APPROVED" /\ a \in decision.seen

(* Two runs prepared at once: the result of a review is told to one.       *)
ToldOnce == Cardinality({u \in Runs : told[u] = "yes"}) <= 1

(* A decision reaches exec, or its job has given up or was refused: the    *)
(* versions decided on are out of the queue with the visibility decided.   *)
IsDecided == task.status \in Terminal
HasLanded ==
  \/ job["decided"].status \in {"failed", "refused"}
  \/ \A a \in DOMAIN decision.updates : vis[a] = decision.updates[a]

================================================================================
