------------------------------- MODULE Uploads -------------------------------
(***************************************************************************)
(* One workspace of the execution service and what fills it: the datasets  *)
(* a chat page uploads (page draft, BFF proxy, three-part streaming upload *)
(* with a durable idempotency key), the quota ledger the uploads and the   *)
(* artifact snapshots reserve in, the child process the quota watch        *)
(* samples, and the public file upload.                                    *)
(*                                                                         *)
(* A request is one attempt of one draft; the row, the staged file and the *)
(* reservation an attempt makes are named by the request.  Every file has  *)
(* Size units; a file that is being copied counts half.                    *)
(***************************************************************************)
EXTENDS Naturals, FiniteSets, FiniteSetsExt

CONSTANTS Drafts,       \* attachments the user picked
          MaxAttempts,  \* bound: uploads of one draft, the first included
          Size,         \* size of a file (even)
          Quota,        \* quota of the workspace
          CrossDevice,  \* control root and workspace root are two mounts
          MaxCrashes,   \* bound: restarts of the execution service
          MaxBlobs,     \* bound: artifact snapshots
          MaxChild,     \* bound: units a child process writes
          Acts          \* which of "remove", "drop", "break", "db", "rename",
                        \* "child", "submit", "file", "delete" happen

UploadsAssumption ==
  /\ MaxAttempts \in Nat \ {0} /\ Size \in Nat \ {0} /\ Size % 2 = 0
  /\ Quota \in Nat /\ MaxCrashes \in Nat /\ MaxBlobs \in Nat /\ MaxChild \in Nat
  /\ CrossDevice \in BOOLEAN

VARIABLES draft,    \* status of the draft on the page
          attempt,  \* attempts of the draft so far
          pc,       \* where the request is in the execution service
          answer,   \* what the request was answered
          gone,     \* requests whose connection was closed
          row,      \* status of the dataset row the request inserted
          staged,   \* requests with a .part file under the control root
          file,     \* the dataset in the workspace: absent, half, whole
          resv,     \* requests with a reservation in the quota store
          lock,     \* holder of the workspace lock
          used,     \* size the lock holder measured
          crashes,
          blobs,    \* artifact snapshots taken
          child,    \* the child process: idle, running, killed, denied
          written,  \* units the child wrote in the workspace
          sample,   \* the watch: idle, or the tree size it has measured
          pub       \* contents of uploads/<name> of the public upload, oldest first

vars == <<draft, attempt, pc, answer, gone, row, staged, file, resv, lock, used,
          crashes, blobs, child, written, sample, pub>>
page == <<draft, attempt>>
server == <<pc, answer, row, staged, file, resv, lock, used>>
others == <<blobs, child, written, sample, pub>>

Req == Drafts \X (1..MaxAttempts)
Free == <<>>
Statuses == {"none", "uploading", "uploaded", "failed", "removed"}
Steps == {"none", "sent", "opening", "streaming", "received", "measured", "reserved",
          "copying", "placed", "committed", "withdrawn", "done"}
RowStates == {"none", "uploading", "ready", "failed"}
Answers == {"none", "error", "uploading", "ready", "failed"}

\* The row of an idempotency key: the page gives a draft one key for all its
\* attempts, and (org, user, session, key) is unique.
RowsOf(d) == {r \in Req : r[1] = d /\ row[r] # "none"}

Half == Size \div 2
FileSize(r) == CASE file[r] = "absent" -> 0 [] file[r] = "half" -> Half [] OTHER -> Size
PubSize == Size * Min({1, pub})

\* workspaceSizeBytes and measureTreeBounded: the sum over the regular files.
WorkspaceBytes == MapThenSumSet(FileSize, Req) + written + PubSize
SumReserved == Size * Cardinality(resv)

Init ==
  /\ draft = [d \in Drafts |-> "none"] /\ attempt = [d \in Drafts |-> 0]
  /\ pc = [r \in Req |-> "none"] /\ answer = [r \in Req |-> "none"]
  /\ row = [r \in Req |-> "none"] /\ file = [r \in Req |-> "absent"]
  /\ gone = {} /\ staged = {} /\ resv = {} /\ lock = Free /\ used = 0
  /\ crashes = 0 /\ blobs = 0 /\ child = "idle" /\ written = 0 /\ sample = <<>> /\ pub = 0

(***************************************************************************)
(* The page                                                                *)
(***************************************************************************)
\* runUploadForDraft: the next attempt of the draft is sent under its key.
RunUpload(d) ==
  /\ attempt[d] < MaxAttempts
  /\ draft' = [draft EXCEPT ![d] = "uploading"]
  /\ attempt' = [attempt EXCEPT ![d] = @ + 1]
  /\ pc' = [pc EXCEPT ![<<d, attempt[d] + 1>>] = "sent"]
  /\ UNCHANGED <<answer, gone, row, staged, file, resv, lock, used, crashes>> /\ UNCHANGED others

Pick(d) == draft[d] = "none" /\ RunUpload(d)
RetryUpload(d) == draft[d] = "failed" /\ RunUpload(d)

\* The request the draft waits for.
Current(d) == <<d, attempt[d]>>

\* removeAttachmentDraft aborts the upload in flight; the draft keeps no file.
Remove(d) ==
  /\ "remove" \in Acts /\ draft[d] \in {"uploading", "uploaded", "failed"}
  /\ draft' = [draft EXCEPT ![d] = "removed"]
  /\ gone' = gone \cup {Current(d)}
  /\ UNCHANGED attempt /\ UNCHANGED server /\ UNCHANGED crashes /\ UNCHANGED others

\* uploadDataset checks the answer: only a ready record with a path passes the
\* schema; everything else fails the draft.
AcceptAny(a) == a # "error"
AcceptAnswer(a) == a = "ready"

Answered(d) ==
  /\ draft[d] = "uploading" /\ answer[Current(d)] # "none" /\ Current(d) \notin gone
  /\ draft' = [draft EXCEPT ![d] = IF AcceptAnswer(answer[Current(d)]) THEN "uploaded" ELSE "failed"]
  /\ gone' = gone \cup {Current(d)}
  /\ UNCHANGED attempt /\ UNCHANGED server /\ UNCHANGED crashes /\ UNCHANGED others

\* The BFF gives up waiting (or the connection is lost): the upstream request is
\* aborted, the page sees an error.
Drop(d) ==
  /\ "drop" \in Acts /\ draft[d] = "uploading" /\ Current(d) \notin gone
  /\ draft' = [draft EXCEPT ![d] = "failed"]
  /\ gone' = gone \cup {Current(d)}
  /\ UNCHANGED attempt /\ UNCHANGED server /\ UNCHANGED crashes /\ UNCHANGED others

(***************************************************************************)
(* The upload in the execution service                                     *)
(***************************************************************************)
Goto(r, s) == pc' = [pc EXCEPT ![r] = s]
Reply(r, a) == Goto(r, "done") /\ answer' = [answer EXCEPT ![r] = a]
Serve == UNCHANGED page /\ UNCHANGED <<gone, crashes>> /\ UNCHANGED others

\* beginUpload: a row of the key is answered as it is, whatever its status.
Lookup(r) ==
  /\ pc[r] = "sent"
  /\ IF RowsOf(r[1]) # {}
     THEN \E e \in RowsOf(r[1]) : Reply(r, row[e])
     ELSE Goto(r, "opening") /\ UNCHANGED answer
  /\ UNCHANGED <<row, staged, file, resv, lock, used>> /\ Serve

\* The staging file is opened and the row inserted; a second row of the key is
\* refused by the unique index, and the staging file stays.
InsertTwice(r) ==
  /\ row' = [row EXCEPT ![r] = "uploading"] /\ Goto(r, "streaming") /\ UNCHANGED answer
InsertRow(r) ==
  \/ /\ RowsOf(r[1]) = {}
     /\ row' = [row EXCEPT ![r] = "uploading"] /\ Goto(r, "streaming") /\ UNCHANGED answer
  \/ /\ RowsOf(r[1]) # {} \/ "db" \in Acts
     /\ Reply(r, "error") /\ UNCHANGED row

Begin(r) ==
  /\ pc[r] = "opening"
  /\ staged' = staged \cup {r}
  /\ InsertRow(r)
  /\ UNCHANGED <<file, resv, lock, used>> /\ Serve

\* writeChunk until the end of the body, the staged size agrees.
Receive(r) ==
  /\ pc[r] = "streaming" /\ r \notin gone
  /\ Goto(r, "received")
  /\ UNCHANGED <<answer, row, staged, file, resv, lock, used>> /\ Serve

\* abortUpload: the body broke off or grew past the limit.
AbortAsAborted(r) ==
  /\ pc[r] = "streaming" /\ (r \in gone \/ "break" \in Acts)
  /\ Reply(r, "error")
  /\ staged' = staged \ {r} /\ row' = [row EXCEPT ![r] = "aborted"]
  /\ UNCHANGED <<file, resv, lock, used>> /\ Serve
AbortWithoutAnswer(r) ==
  /\ pc[r] = "streaming" /\ (r \in gone \/ "break" \in Acts)
  /\ Goto(r, "done")
  /\ staged' = staged \ {r} /\ row' = [row EXCEPT ![r] = "failed"]
  /\ UNCHANGED <<answer, file, resv, lock, used>> /\ Serve
AbortUpload(r) ==
  /\ pc[r] = "streaming" /\ (r \in gone \/ "break" \in Acts)
  /\ Reply(r, "error")
  /\ staged' = staged \ {r} /\ row' = [row EXCEPT ![r] = "failed"]
  /\ UNCHANGED <<file, resv, lock, used>> /\ Serve

\* reserve: under the lock the tree is measured, ...
MeasureUnlocked(r) ==
  /\ pc[r] = "received"
  /\ used' = WorkspaceBytes
  /\ Goto(r, "measured")
  /\ UNCHANGED <<answer, row, staged, file, resv, lock>> /\ Serve
Measure(r) ==
  /\ pc[r] = "received" /\ lock = Free
  /\ lock' = r /\ used' = WorkspaceBytes
  /\ Goto(r, "measured")
  /\ UNCHANGED <<answer, row, staged, file, resv>> /\ Serve

\* The catch of finishUpload: the row fails, the staging file goes.
FailUpload(r) ==
  /\ Reply(r, "error")
  /\ row' = [row EXCEPT ![r] = "failed"] /\ staged' = staged \ {r}

\* ... the reservations are added, and the new one is put if it fits.
Reserve(r) ==
  /\ pc[r] = "measured"
  /\ lock' = Free
  /\ IF used + SumReserved + Size > Quota
     THEN FailUpload(r) /\ UNCHANGED resv
     ELSE resv' = resv \cup {r} /\ Goto(r, "reserved") /\ UNCHANGED <<answer, row, staged>>
  /\ UNCHANGED <<file, used>> /\ Serve

\* The staged file becomes the dataset: a rename on one device, a copy across two.
Place(r) ==
  /\ pc[r] = "reserved"
  /\ IF CrossDevice
     THEN file' = [file EXCEPT ![r] = "half"] /\ Goto(r, "copying") /\ UNCHANGED staged
     ELSE file' = [file EXCEPT ![r] = "whole"] /\ Goto(r, "placed") /\ staged' = staged \ {r}
  /\ UNCHANGED <<answer, row, resv, lock, used>> /\ Serve
Copied(r) ==
  /\ pc[r] = "copying"
  /\ file' = [file EXCEPT ![r] = "whole"] /\ staged' = staged \ {r}
  /\ Goto(r, "placed")
  /\ UNCHANGED <<answer, row, resv, lock, used>> /\ Serve

\* The rename (or the resolution of the target) fails: the reservation is
\* released and the upload fails.
PlaceFails(r) ==
  /\ "rename" \in Acts /\ pc[r] = "reserved"
  /\ Goto(r, "withdrawn")
  /\ UNCHANGED <<answer, row, staged, file, resv, lock, used>> /\ Serve
ForgetReservation(r) ==
  /\ pc[r] = "withdrawn"
  /\ FailUpload(r)
  /\ UNCHANGED <<file, lock, used, resv>> /\ Serve
Withdraw(r) ==
  /\ pc[r] = "withdrawn" /\ lock = Free
  /\ resv' = resv \ {r}
  /\ FailUpload(r)
  /\ UNCHANGED <<file, lock, used>> /\ Serve

\* reservation.commit: a delete under the lock.
Commit(r) ==
  /\ pc[r] = "placed" /\ lock = Free
  /\ resv' = resv \ {r}
  /\ Goto(r, "committed")
  /\ UNCHANGED <<answer, row, staged, file, lock, used>> /\ Serve

\* The delete fails.  release has already set `released`, so the release of the
\* catch does nothing: the reservation stays, the upload fails, the file stays.
CommitFails(r) ==
  /\ "db" \in Acts /\ pc[r] = "placed" /\ lock = Free
  /\ FailUpload(r)
  /\ UNCHANGED <<file, resv, lock, used>> /\ Serve

\* store.complete: the row is ready, the caller gets it.
Complete(r) ==
  /\ pc[r] = "committed"
  /\ row' = [row EXCEPT ![r] = "ready"]
  /\ Reply(r, "ready")
  /\ UNCHANGED <<staged, file, resv, lock, used>> /\ Serve

\* The update fails; the row is marked failed unless that fails too.
CompleteFails(r) ==
  /\ "db" \in Acts /\ pc[r] = "committed"
  /\ \/ FailUpload(r)
     \/ Reply(r, "error") /\ UNCHANGED <<row, staged>>
  /\ UNCHANGED <<file, resv, lock, used>> /\ Serve

\* The service restarts: requests and the in-process lock are gone; rows,
\* staging files and the reservations of the quota table are not.
Crash ==
  /\ crashes < MaxCrashes
  /\ crashes' = crashes + 1
  /\ pc' = [r \in Req |-> IF pc[r] = "none" THEN "none" ELSE "done"]
  /\ answer' = [r \in Req |-> IF pc[r] \in {"none", "done"} THEN answer[r] ELSE "error"]
  /\ lock' = Free
  /\ child' = IF child = "running" THEN "killed" ELSE child
  /\ sample' = <<>>
  /\ UNCHANGED page /\ UNCHANGED <<gone, row, staged, file, resv, used, blobs, written, pub>>

(***************************************************************************)
(* Artifact snapshots, the public upload, the child process                *)
(***************************************************************************)
\* submit: the file is copied to the control plane, then its size is reserved
\* and the reservation committed at once.
Submit ==
  /\ "submit" \in Acts /\ blobs < MaxBlobs /\ lock = Free
  /\ WorkspaceBytes + SumReserved + Size <= Quota
  /\ blobs' = blobs + 1
  /\ UNCHANGED page /\ UNCHANGED server /\ UNCHANGED <<gone, crashes, child, written, sample, pub>>

\* The public upload writes uploads/<name>, with no reservation and no look at
\* the idempotency key; the second upload of a name replaces the first.
UploadFile ==
  /\ "file" \in Acts /\ pub < 2
  /\ pub' = pub + 1
  /\ UNCHANGED page /\ UNCHANGED server /\ UNCHANGED <<gone, crashes, blobs, child, written, sample>>

\* DELETE files removes what the path names, a dataset too.
DeleteFile(r) ==
  /\ "delete" \in Acts /\ file[r] = "whole" /\ pc[r] = "done"
  /\ file' = [file EXCEPT ![r] = "absent"]
  /\ UNCHANGED page /\ UNCHANGED <<pc, answer, row, staged, resv, lock, used, gone, crashes>>
  /\ UNCHANGED others

Childs == UNCHANGED page /\ UNCHANGED server /\ UNCHANGED <<gone, crashes, blobs, pub>>
IsWorkspaceOver(tree) == tree + SumReserved > Quota

\* runGuardedForeground: the quota gate admits the child or denies it.
Spawn ==
  /\ "child" \in Acts /\ child = "idle"
  /\ child' = IF IsWorkspaceOver(WorkspaceBytes) THEN "denied" ELSE "running"
  /\ UNCHANGED <<written, sample>> /\ Childs
ChildWrites ==
  /\ child = "running" /\ written < MaxChild
  /\ written' = written + 1
  /\ UNCHANGED <<child, sample>> /\ Childs

\* A tick of the watch: the tree is measured, later the reservations are added.
TickMeasures ==
  /\ child = "running" /\ sample = <<>>
  /\ sample' = <<WorkspaceBytes>>
  /\ UNCHANGED <<child, written>> /\ Childs
TickNeverKills ==
  /\ child = "running" /\ sample # <<>>
  /\ sample' = <<>>
  /\ UNCHANGED <<child, written>> /\ Childs
TickDecides ==
  /\ child = "running" /\ sample # <<>>
  /\ sample' = <<>>
  /\ child' = IF IsWorkspaceOver(sample[1]) THEN "killed" ELSE child
  /\ UNCHANGED written /\ Childs

ServerStep(r) ==
  \/ Lookup(r) \/ Begin(r) \/ Receive(r) \/ AbortUpload(r) \/ Measure(r) \/ Reserve(r)
  \/ Place(r) \/ Copied(r) \/ PlaceFails(r) \/ Withdraw(r) \/ Commit(r) \/ CommitFails(r)
  \/ Complete(r) \/ CompleteFails(r)

Done ==
  /\ \A r \in Req : pc[r] \in {"none", "done"}
  /\ child # "running"
  /\ UNCHANGED vars

Next ==
  \/ \E d \in Drafts : Pick(d) \/ RetryUpload(d) \/ Remove(d) \/ Answered(d) \/ Drop(d)
  \/ \E r \in Req : ServerStep(r) \/ DeleteFile(r)
  \/ Crash \/ Submit \/ UploadFile \/ Spawn \/ ChildWrites \/ TickMeasures \/ TickDecides
  \/ Done

\* The event loop runs every started request and the timer of the watch; the page
\* handles an answer that has arrived.
Fairness ==
  /\ \A r \in Req : WF_vars(ServerStep(r))
  /\ \A d \in Drafts : WF_vars(Answered(d))
  /\ WF_vars(TickMeasures) /\ WF_vars(TickDecides)

Spec == Init /\ [][Next]_vars
FairSpec == Spec /\ Fairness

-----------------------------------------------------------------------------
(* Properties *)

TypeOK ==
  /\ draft \in [Drafts -> Statuses] /\ attempt \in [Drafts -> 0..MaxAttempts]
  /\ pc \in [Req -> Steps] /\ answer \in [Req -> Answers]
  /\ row \in [Req -> RowStates] /\ file \in [Req -> {"absent", "half", "whole"}]
  /\ gone \subseteq Req /\ staged \subseteq Req /\ resv \subseteq Req
  /\ lock \in Req \cup {Free} /\ used \in Nat
  /\ crashes \in 0..MaxCrashes /\ blobs \in 0..MaxBlobs
  /\ child \in {"idle", "running", "killed", "denied"} /\ written \in 0..MaxChild
  /\ pub \in 0..2

\* Uploads that measure, reserve, move and commit at their own pace never fill the
\* workspace past its quota, neither now nor with what is already promised.
QuotaHeld ==
  Size * Cardinality({r \in Req : file[r] # "absent" \/ r \in resv}) + written + PubSize <= Quota

\* A draft ends as at most one dataset, however often it is sent and whichever
\* attempts overlap: one row under its key, one file in the workspace.
OneDatasetPerKey ==
  \A d \in Drafts :
    Cardinality(RowsOf(d)) <= 1 /\ Cardinality({r \in Req : r[1] = d /\ file[r] # "absent"}) <= 1

\* What is announced is there: a ready row has its whole file, and a draft the
\* page shows as uploaded has a ready row.
ReadyIsWhole ==
  /\ \A r \in Req : row[r] = "ready" => file[r] = "whole"
  /\ \A d \in Drafts : draft[d] = "uploaded" => \E r \in RowsOf(d) : row[r] = "ready"

\* The page never shows an upload in progress for ever, so that the composer can
\* send again.
IsUploading(d) == draft[d] = "uploading"

\* A child that fills the workspace past the quota is stopped.
ChildRuns == child = "running"
ChildExceeds == child = "running" /\ WorkspaceBytes > Quota

=============================================================================
