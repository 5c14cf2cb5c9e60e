------------------------------- MODULE A2aTasks -------------------------------
(***************************************************************************)
(* The A2A gateway: JSON-RPC requests of a remote client                   *)
(* (presentation/a2a/http-handler.ts) that become runs and task mappings   *)
(* (application/a2a/task-service.ts), the client that delegates to it      *)
(* (runtime/providers/a2a-remote-client.ts), and the credentials both use  *)
(* (credential-service.ts, admin-http-handler.ts).                         *)
(*                                                                         *)
(* sendMessage is not a transaction: the run is created, the mapping is    *)
(* looked for, written, looked for again, or the run is cancelled, in      *)
(* statements of their own, and the client repeats a message it got no     *)
(* answer for.  A message stands for its idempotency key, so for its run.  *)
(***************************************************************************)
EXTENDS Naturals, FiniteSets

CONSTANTS Messages,   \* messages of the client
          First,      \* the one that opens the task; the others continue it
          Requests,   \* requests the gateway handles
          KeyAdmins,
          Creds,      \* credentials: 1..n, the first is issued
          MaxFaults   \* bound: database statements that fail
A2aAssumption == First \in Messages /\ Creds = 1..Cardinality(Creds) /\ MaxFaults \in Nat

VARIABLES run,     \* status of the run of a message
          mapped,  \* messages whose run has a task mapping
          audit,   \* audited: <<request, event>>
          req,     \* per request: step, method, message, credential, answer
          asked,   \* runs the client asked to cancel
          cred,    \* per credential: status and what it was rotated from
          adm,     \* per administrator: a rotation on its way
          faults

a2aVars == <<run, mapped, audit, req, asked, cred, adm, faults>>

None == "none"
Active == {"RUNNING", "WAITING_INPUT"}
Ended == {"SUCCEEDED", "CANCELLED"}
Reads == {"get", "subscribe", "download"}
Methods == {"send", "cancel"} \cup Reads
NoMessage == [pc |-> "idle", method |-> None, msg |-> None, cred |-> 0]

A2aTypeOK ==
  /\ run \in [Messages -> Active \cup Ended \cup {None, "CANCELLING"}]
  /\ mapped \subseteq Messages /\ asked \subseteq mapped
  /\ audit \subseteq Requests \X (Methods \cup {"replay"})
  /\ \A q \in Requests :
       /\ req[q].pc \in {"idle", "parsed", "created", "absent", "failed", "orphan", "inserted",
                         "replay", "owned", "cancelled", "answered", "error", "left"}
       /\ req[q].msg \in Messages \cup {None} /\ req[q].cred \in Creds \cup {0}
  /\ \A c \in Creds : cred[c].status \in {None, "ACTIVE", "ROTATED", "REVOKED"}
                      /\ cred[c].from \in Creds \cup {0}
  /\ adm \in [KeyAdmins -> Creds \cup {0}] /\ faults \in 0..MaxFaults

A2aInit ==
  /\ run = [m \in Messages |-> None] /\ mapped = {} /\ audit = {} /\ asked = {}
  /\ req = [q \in Requests |-> NoMessage]
  /\ cred = [c \in Creds |-> [status |-> IF c = 1 THEN "ACTIVE" ELSE None, from |-> 0]]
  /\ adm = [d \in KeyAdmins |-> 0] /\ faults = 0

To(q, pc) == req' = [req EXCEPT ![q].pc = pc]
Fault == faults < MaxFaults /\ faults' = faults + 1
reqOnly == <<run, mapped, audit, asked, cred, adm>>

-----------------------------------------------------------------------------
(* authenticate, then the dispatch of handleJsonRpc.  The credential is    *)
(* read once: a request in flight outlives it.                             *)
Authentic(c) == cred[c].status = "ACTIVE"

Authenticate(q, method, m, c) ==
  /\ req[q].pc = "idle" /\ Authentic(c)
  /\ req' = [req EXCEPT ![q] = [pc |-> "parsed", method |-> method, msg |-> m, cred |-> c]]
  /\ UNCHANGED <<reqOnly, faults>>

(* A message with a task id continues it: only a task that is not busy,    *)
(* and that the client owns.                                               *)
Continuable(m) == m = First \/ (First \in mapped /\ run[First] \in Ended \cup {"WAITING_INPUT"})

(* sendMessage up to createRunService.execute, which finds the run of a    *)
(* repeated message instead of creating one.                               *)
CreateRun(q) ==
  LET m == req[q].msg
  IN /\ req[q].pc = "parsed" /\ req[q].method = "send"
     /\ IF Continuable(m)
        THEN run' = [run EXCEPT ![m] = IF @ = None THEN "RUNNING" ELSE @] /\ To(q, "created")
        ELSE To(q, "error") /\ UNCHANGED run
     /\ UNCHANGED <<mapped, audit, asked, cred, adm, faults>>

(* getByRunId.                                                             *)
LookUp(q) ==
  /\ req[q].pc = "created"
  /\ To(q, IF req[q].msg \in mapped THEN "replay" ELSE "absent")
  /\ UNCHANGED <<reqOnly, faults>>

(* a2aTasks.insert: the run id is a unique key.                            *)
InsertMapping(q) ==
  /\ req[q].pc = "absent"
  /\ IF req[q].msg \in mapped THEN To(q, "failed") /\ UNCHANGED mapped
     ELSE To(q, "inserted") /\ mapped' = mapped \cup {req[q].msg}
  /\ UNCHANGED <<run, audit, asked, cred, adm, faults>>

(* The insert fails for another reason: the connection, a lock, a length.  *)
InsertFails(q) ==
  /\ req[q].pc = "absent" /\ Fault /\ To(q, "failed")
  /\ UNCHANGED <<run, mapped, audit, asked, cred, adm>>

(* A look-up fails: the request ends with its run as it is.                *)
LookUpFails(q) ==
  /\ req[q].pc \in {"created", "failed"} /\ Fault /\ To(q, "left")
  /\ UNCHANGED <<run, mapped, audit, asked, cred, adm>>

(* After a failed insert: another request may have written the mapping.    *)
LookUpRaced(q) ==
  /\ req[q].pc = "failed"
  /\ To(q, IF req[q].msg \in mapped THEN "replay" ELSE "orphan")
  /\ UNCHANGED <<reqOnly, faults>>

(* cancelRunService.execute: a run that has ended is left alone.           *)
CancelRun(m) == run' = [run EXCEPT ![m] = IF @ \in Active THEN "CANCELLING" ELSE @]

(* #compensateOrphanRun, which swallows a failure of the cancellation: the *)
(* client gets the same error, and the run is left as it is.               *)
CompensateNothing(m) == UNCHANGED run
Compensated(m) == CancelRun(m)
CompensateOrphanRun(q) ==
  /\ req[q].pc = "orphan" /\ Compensated(req[q].msg)
  /\ To(q, "error")
  /\ UNCHANGED <<mapped, audit, asked, cred, adm, faults>>
CompensationFails(q) ==
  /\ req[q].pc = "orphan" /\ Fault /\ To(q, "left")
  /\ UNCHANGED <<run, mapped, audit, asked, cred, adm>>

(* #loadOwnedTask and #loadOwnedRun of getTask, cancelTask, beginSubscribe *)
(* and handleArtifactDownload.                                             *)
OwnedByAnyone(m) == TRUE
Owned(m) == m \in mapped
LoadOwned(q) ==
  /\ req[q].pc = "parsed" /\ req[q].method # "send"
  /\ To(q, IF Owned(req[q].msg) THEN "owned" ELSE "error")
  /\ UNCHANGED <<reqOnly, faults>>

(* projectRunStatusToA2a.                                                  *)
A2aState(s) == CASE s \in {"RUNNING", "CANCELLING"} -> "working" [] s = "WAITING_INPUT" -> "input-required"
                 [] s = "SUCCEEDED" -> "completed" [] s = "CANCELLED" -> "canceled"

(* cancelTask: a task that has ended otherwise is not cancelable; the      *)
(* answer shows the run as it is then.                                     *)
CancelTask(q) ==
  LET m == req[q].msg
  IN /\ req[q].pc = "owned" /\ req[q].method = "cancel"
     /\ CASE A2aState(run[m]) = "completed" -> To(q, "error") /\ UNCHANGED <<run, asked>>
          [] A2aState(run[m]) = "canceled" -> To(q, "cancelled") /\ UNCHANGED <<run, asked>>
          [] OTHER -> To(q, "cancelled") /\ CancelRun(m) /\ asked' = asked \cup {m}
     /\ UNCHANGED <<mapped, audit, cred, adm, faults>>

(* What is read, once the task is known to be the client's.                *)
Readable(q) == req[q].pc = "owned" /\ req[q].method \in Reads

(* #loadArtifactsComplete finds more than it may list, or the download     *)
(* names no artifact of the run: an error before the audit.                *)
ReadFails(q) ==
  /\ Readable(q) /\ req[q].method # "subscribe" /\ Fault /\ To(q, "error")
  /\ UNCHANGED <<run, mapped, audit, asked, cred, adm>>

(* The audit record of an answer.                                          *)
Event(q) == CASE req[q].pc = "inserted" -> "send" [] req[q].pc = "replay" -> "replay"
              [] req[q].pc = "owned" -> req[q].method [] OTHER -> "cancel"
Auditable(q) == req[q].pc \in {"inserted", "replay", "cancelled"} \/ Readable(q)

(* #auditRequired: what cannot be audited is not answered.                 *)
AuditOpen == "answered"
AuditClosed == "error"

Audit(q) ==
  /\ Auditable(q) /\ audit' = audit \cup {<<q, Event(q)>>}
  /\ To(q, "answered")
  /\ UNCHANGED <<run, mapped, asked, cred, adm, faults>>
AuditFails(q) ==
  /\ Auditable(q) /\ Fault /\ To(q, AuditClosed)
  /\ UNCHANGED <<run, mapped, audit, asked, cred, adm>>

(* handleArtifactDownload after its audit: the source has no bytes.        *)
DownloadFails(q) ==
  /\ Readable(q) /\ req[q].method = "download" /\ Fault
  /\ audit' = audit \cup {<<q, Event(q)>>} /\ To(q, "error")
  /\ UNCHANGED <<run, mapped, asked, cred, adm>>

(* The gateway dies in the middle of a request; the client sees an error.  *)
BetweenRunAndMapping == {"created", "absent", "failed", "orphan"}
GatewayDies(q) ==
  /\ req[q].pc \notin {"idle", "answered", "error", "left"} /\ Fault
  /\ To(q, IF req[q].pc \in BetweenRunAndMapping THEN "left" ELSE "error")
  /\ UNCHANGED <<run, mapped, audit, asked, cred, adm>>

(* The run, outside the gateway.                                           *)
RunMoves(m) ==
  /\ \/ run[m] = "RUNNING" /\ \E s \in {"WAITING_INPUT", "SUCCEEDED"} : run' = [run EXCEPT ![m] = s]
     \/ run[m] = "CANCELLING" /\ run' = [run EXCEPT ![m] = "CANCELLED"]
  /\ UNCHANGED <<mapped, audit, req, asked, cred, adm, faults>>

-----------------------------------------------------------------------------
(* The clients: delegate sends, polls and cancels what it gave up on; a    *)
(* send without an answer is repeated under the same message id.  A task   *)
(* id that was never answered may be tried too.                            *)
Answered(m) == \E q \in Requests : req[q].msg = m /\ req[q].method = "send" /\ req[q].pc = "answered"
Wants(method, m) ==
  \/ method = "send" /\ (m = First \/ Answered(First))
  \/ method # "send"

-----------------------------------------------------------------------------
(* Credentials.  rotate reads the credential, then updates and inserts in  *)
(* one transaction; the update is conditional on the status.               *)
RotateRead(d, c) ==
  /\ adm[d] = 0 /\ cred[c].status = "ACTIVE"
  /\ adm' = [adm EXCEPT ![d] = c]
  /\ UNCHANGED <<run, mapped, audit, req, asked, cred, faults>>

(* updateStatus with expectedStatus ACTIVE.                                *)
RotatableSeen(c) == TRUE
Rotatable(c) == cred[c].status = "ACTIVE"

FreshKeys == {n \in Creds : cred[n].status = None}
Rotate(d) ==
  LET c == adm[d]
  IN /\ c # 0
     /\ IF Rotatable(c) /\ FreshKeys # {}
        THEN LET n == CHOOSE k \in FreshKeys : TRUE
             IN cred' = [cred EXCEPT ![c].status = "ROTATED",
                                     ![n] = [status |-> "ACTIVE", from |-> c]]
        ELSE UNCHANGED cred
     /\ adm' = [adm EXCEPT ![d] = 0]
     /\ UNCHANGED <<run, mapped, audit, req, asked, faults>>

(* revoke: whatever the status was.                                        *)
Revoke(c) ==
  /\ cred[c].status \in {"ACTIVE", "ROTATED"}
  /\ cred' = [cred EXCEPT ![c].status = "REVOKED"]
  /\ UNCHANGED <<run, mapped, audit, req, asked, adm, faults>>

-----------------------------------------------------------------------------
Handle(q) ==
  \/ CreateRun(q) \/ LookUp(q) \/ InsertMapping(q) \/ LookUpRaced(q) \/ CompensateOrphanRun(q)
  \/ LoadOwned(q) \/ CancelTask(q) \/ Audit(q)
HandleFails(q) ==
  \/ LookUpFails(q) \/ InsertFails(q) \/ CompensationFails(q) \/ ReadFails(q) \/ AuditFails(q)
  \/ DownloadFails(q) \/ GatewayDies(q)

A2aDone ==
  /\ \A q \in Requests : req[q].pc \in {"idle", "answered", "error", "left"}
  /\ UNCHANGED a2aVars

A2aNext ==
  \/ \E q \in Requests : Handle(q) \/ HandleFails(q)
  \/ \E q \in Requests, t \in Methods, m \in Messages, c \in Creds :
       Wants(t, m) /\ Authenticate(q, t, m, c)
  \/ \E m \in Messages : RunMoves(m)
  \/ \E d \in KeyAdmins : Rotate(d) \/ \E c \in Creds : RotateRead(d, c)
  \/ \E c \in Creds : Revoke(c)
  \/ A2aDone

A2aSpec == A2aInit /\ [][A2aNext]_a2aVars

-----------------------------------------------------------------------------
(* A send that was answered can be followed up: its run has a mapping, and *)
(* the answer was audited, whatever other requests for the same message    *)
(* did in between.                                                         *)
AnswerIsAudited ==
  \A q \in Requests :
    req[q].pc = "answered" =>
      /\ req[q].msg \in mapped
      /\ \E e \in Methods \cup {"replay"} : <<q, e>> \in audit

(* An active run without a mapping is one a request is still at work on,   *)
(* or one a request left behind between the two: its process died there,   *)
(* a look-up failed, or the cancellation that makes up for a failed insert *)
(* did (task-service.ts:6-7).  A failed insert, of whatever cause and with *)
(* whatever others do with the same message meanwhile, leaves none, and a  *)
(* message that is repeated until it is answered has its run mapped        *)
(* (AnswerIsAudited), also where an earlier request left it behind.        *)
Unfinished(q) == req[q].pc \notin {"idle", "answered", "error"}
NoOrphanRun ==
  \A m \in Messages :
    run[m] \in Active /\ m \notin mapped => \E q \in Requests : req[q].msg = m /\ Unfinished(q)

(* One credential of a chain of rotations is live, under administrators    *)
(* who rotate it at the same time: no client keeps two keys.               *)
OneKeyLive == Cardinality({c \in Creds : cred[c].status = "ACTIVE"}) <= 1

(* Everything the gateway answered or made is on record.                   *)
A2aAccounted == AnswerIsAudited /\ NoOrphanRun /\ OneKeyLive

=============================================================================
