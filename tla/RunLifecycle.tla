---------------------------- MODULE RunLifecycle -----------------------------
(***************************************************************************)
(* The processes that move one Run: agent workers (ExecuteRunService and   *)
(* the DSH executor it calls), the recovery scanners (RunRecoveryService), *)
(* the agent API (cancel, decide, respond), and the Redis state between    *)
(* them (BullMQ jobs, the Run lease, the session lock).                    *)
(*                                                                         *)
(* A worker step is what the code does between two awaits on shared state: *)
(* one MySQL transaction of RunLedger, or one Redis command.  Everything   *)
(* read before an await and used after it is kept in the worker's record   *)
(* (view, seen), so it may be stale when it is used.                       *)
(***************************************************************************)
EXTENDS RunLedger
LOCAL INSTANCE TLC

CONSTANTS Scanners,   \* recovery scan loops, one per agent-worker process
          Dead,       \* the owner token a crashed attempt left in Redis
          Gates,      \* how the agent may ask: {"approval", "input"}
          Faults,     \* kinds of fault: "crash" "lease" "lock" "redis" "db"
          MaxFaults   \* bound on faults and on BullMQ job retries

Workers == Executors

ASSUME LifecycleAssumption ==
  /\ Dead \notin Workers \cup {None}
  /\ None # Dead
  /\ Gates \subseteq {"approval", "input"}
  /\ Faults \subseteq {"crash", "lease", "lock", "redis", "db"}
  /\ MaxFaults \in Nat

VARIABLES
  lease,   \* Redis run lease: the attempt that owns it
  lock,    \* Redis session lock
  jobs,    \* waiting BullMQ jobs: 0 is jobId=runId, c the resume job of call c
  wk,      \* per worker: its attempt
  sc,      \* per scanner: the Run it is recovering
  faults   \* faults so far

redisVars == <<lease, lock, jobs>>
vars == <<ledgerVars, lease, lock, jobs, wk, sc, faults>>

Holders == Workers \cup {None, Dead}
JobIds  == {0} \cup ToolCalls
Outcomes == {"SUCCEEDED", "FAILED", "CANCELLED",
             "WAITING_APPROVAL", "WAITING_INPUT"}

WorkerPcs == {"idle", "load", "advance", "dispatch", "claimed", "recovered",
              "reentry", "gate", "prerun", "precancel", "tocancel", "finish",
              "exec", "fence", "prompt", "park", "wrap", "checkpoint",
              "settle", "stop", "reload", "apply", "done", "fail"}
ScannerPcs == {"idle", "probe", "close", "reconcile", "project", "accept",
               "accepted", "enqueue", "parked", "wake"}

(* While executor.execute() is running: the cancel watcher polls.          *)
RuntimePcs == {"exec", "fence", "prompt", "park", "wrap", "checkpoint"}

Attempts == [pc      : WorkerPcs,
             job     : JobIds,              \* the BullMQ job it processes
             view    : RunStatuses,         \* run.status as last read
             seen    : BOOLEAN,             \* run.cancelRequestedAt likewise
             abort   : {"no", "cancel", "lease"},
             outcome : Outcomes,            \* the executor's result
             answer  : {0} \cup ToolCalls,  \* interactionResume, 0 if none
             mine    : SUBSET ToolCalls]    \* calls it has dispatched

NoAttempt == [pc |-> "idle", job |-> 0, view |-> "ACCEPTED", seen |-> FALSE,
              abort |-> "no", outcome |-> "FAILED", answer |-> 0,
              mine |-> {}]

Scans  == [pc : ScannerPcs, view : RunStatuses, job : JobIds]
NoScan == [pc |-> "idle", view |-> "ACCEPTED", job |-> 0]

LifecycleTypeOK ==
  /\ LedgerTypeOK
  /\ lease \in Holders
  /\ lock \in Holders
  /\ jobs \subseteq JobIds
  /\ wk \in [Workers -> Attempts]
  /\ sc \in [Scanners -> Scans]
  /\ faults \in 0..MaxFaults

-----------------------------------------------------------------------------
(* Steps of a worker: what the next step is, and what it has read.         *)

At(w, pc) == wk[w].pc = pc

(* An attempt forgets what the rest of its code does not read.             *)
Forget(a) ==
  LET kept == [NoAttempt EXCEPT !.pc = a.pc, !.job = a.job, !.view = a.view]
  IN IF a.pc \in {"precancel", "tocancel", "finish", "stop", "reload",
                  "recovered", "done", "fail"} THEN kept
     ELSE IF a.pc = "apply" THEN [kept EXCEPT !.outcome = a.outcome]
     ELSE IF a.pc = "settle" THEN [a EXCEPT !.answer = 0, !.mine = {}]
     ELSE a

Become(w, a) == wk' = [wk EXCEPT ![w] = Forget(a)]
Goto(w, pc) == Become(w, [wk[w] EXCEPT !.pc = pc])
Read(w, pc) == Become(w, [wk[w] EXCEPT !.pc = pc, !.view = status',
                                       !.seen = intent'])
Return(w, outcome, pc) == Become(w, [wk[w] EXCEPT !.pc = pc,
                                                  !.outcome = outcome])

(* #transition, then run = t.run or t.current.  The mutant is an UPDATE    *)
(* without the expected status.                                            *)
UpdateStatus(w, from, to, pc) ==
  /\ EnterStatus(to, tool)
  /\ UNCHANGED <<intent, approval, interaction, sessionVars>>
  /\ Read(w, pc)
Cas(w, from, to, pc) ==
  /\ \/ TxTransition(from, to)
     \/ status # from /\ UNCHANGED ledgerVars
  /\ Read(w, pc)

(* #isCancelRequested: the row as last read, or the Redis signal, which is *)
(* published after the intent commits and may be lost.                     *)
CancelNoticed(w) == wk[w].seen \/ intent
CancelUnseen(w)  == ~wk[w].seen

(* enqueueRunJob: a job id that waits or is being processed absorbs it.    *)
Enqueue(j) ==
  jobs' = IF \E w \in Workers : wk[w].pc # "idle" /\ wk[w].job = j
          THEN jobs ELSE jobs \cup {j}

(* One fault of this kind, within the bound.                               *)
Fault(kind) ==
  /\ kind \in Faults
  /\ faults < MaxFaults
  /\ faults' = faults + 1

-----------------------------------------------------------------------------
(* ExecuteRunService.execute and #runWithLease, up to the executor.        *)

(* A worker takes a job and acquires the lease (SET NX).                   *)
Take(w) ==
  /\ At(w, "idle")
  /\ lease = None
  /\ \E j \in jobs :
       /\ jobs' = jobs \ {j}
       /\ wk' = [wk EXCEPT ![w] = [NoAttempt EXCEPT !.pc = "load", !.job = j]]
  /\ lease' = w
  /\ UNCHANGED <<ledgerVars, lock>>

(* lease_busy throws LeaseBusyError; the job's last attempt is spent.      *)
LeaseBusy(w) ==
  /\ At(w, "idle")
  /\ lease # None
  /\ \E j \in jobs : jobs' = jobs \ {j}
  /\ UNCHANGED <<ledgerVars, lease, lock, wk>>

(* The first read; entryStatus decides the path.                           *)
Load(w) ==
  /\ At(w, "load")
  /\ UNCHANGED <<ledgerVars, redisVars>>
  /\ \/ Terminal /\ Read(w, "done")
     \/ status = "STARTING" /\ Read(w, "reentry")
     \/ status = "RUNNING" /\ Read(w, "claimed")
     \/ ~Terminal /\ status \notin {"STARTING", "RUNNING"} /\ Read(w, "advance")

(* The cancel checks before the runtime starts.                            *)
HonourCancel(w) ==
  /\ \/ wk[w].pc \in {"advance", "claimed", "reentry", "prerun"}
     \/ At(w, "gate") /\ wk[w].view = "STARTING"
  /\ CancelNoticed(w)
  /\ Goto(w, "precancel")
  /\ UNCHANGED <<ledgerVars, redisVars>>

(* ACCEPTED -> QUEUED, RETRYING -> QUEUED, QUEUED -> STARTING.             *)
Advance(w) ==
  /\ At(w, "advance")
  /\ CancelUnseen(w)
  /\ UNCHANGED redisVars
  /\ \/ /\ wk[w].view \in {"ACCEPTED", "RETRYING"}
        /\ Cas(w, wk[w].view, "QUEUED", "advance")
     \/ /\ wk[w].view = "QUEUED"
        /\ Cas(w, "QUEUED", "STARTING", "dispatch")
     \/ /\ wk[w].view \notin {"ACCEPTED", "RETRYING", "QUEUED"}
        /\ Goto(w, "dispatch")
        /\ UNCHANGED ledgerVars

(* CANCELLING is finished, a parked Run is resumed if its question is      *)
(* answered (#resumeApprovalIfResolved, #resumeInputIfResolved).           *)
Dispatch(w) ==
  /\ At(w, "dispatch")
  /\ UNCHANGED redisVars
  /\ \/ /\ wk[w].view = "CANCELLING"
        /\ Goto(w, "finish")
        /\ UNCHANGED ledgerVars
     \/ /\ wk[w].view = "WAITING_APPROVAL"
        /\ TxResumeApproval
        /\ Read(w, "gate")
     \/ /\ wk[w].view = "WAITING_APPROVAL"
        /\ ~(status = "WAITING_APPROVAL" /\ ApprovalResumable)
        /\ Goto(w, IF status = "WAITING_APPROVAL" /\ PendingApprovals # {}
                   THEN "done" ELSE "fail")
        /\ UNCHANGED ledgerVars
     \/ /\ wk[w].view = "WAITING_INPUT"
        /\ \E c \in ToolCalls :
             /\ TxResumeInput(c)
             /\ Become(w, [wk[w] EXCEPT !.pc = "gate", !.view = status',
                                        !.seen = intent', !.answer = c])
     \/ /\ wk[w].view = "WAITING_INPUT"
        /\ ~(status = "WAITING_INPUT" /\ \E c \in ToolCalls : InputResumable(c))
        /\ Goto(w, IF status = "WAITING_INPUT" /\ PendingInteractions # {}
                   THEN "done" ELSE "fail")
        /\ UNCHANGED ledgerVars
     \/ /\ wk[w].view \notin {"CANCELLING", "WAITING_APPROVAL", "WAITING_INPUT"}
        /\ Goto(w, "gate")
        /\ UNCHANGED ledgerVars

(* #resumeClaimedInput: an attempt that enters on RUNNING continues only a *)
(* claimed answer; an applied one is taken for success.                    *)
Claimed(w) ==
  /\ At(w, "claimed")
  /\ CancelUnseen(w)
  /\ UNCHANGED <<ledgerVars, redisVars>>
  /\ \/ \E c \in ToolCalls :
          /\ IsLatest(c, Continuations)
          /\ \/ interaction[c] = "APPLIED" /\ Goto(w, "recovered")
             \/ /\ interaction[c] = "CLAIMED"
                /\ tool[c] = "SUCCEEDED"
                /\ Become(w, [wk[w] EXCEPT !.pc = "gate", !.answer = c])
             \/ /\ interaction[c] = "CLAIMED"
                /\ tool[c] # "SUCCEEDED"
                /\ Goto(w, "reentry")
     \/ Continuations = {} /\ Goto(w, "reentry")

(* #finishRecoveredInput.                                                  *)
Recovered(w) ==
  /\ At(w, "recovered")
  /\ UNCHANGED redisVars
  /\ Cas(w, "RUNNING", "SUCCEEDED", "fail")

(* Re-entry into STARTING or RUNNING is refused: no blind re-prompt.       *)
RefuseReentry(w) ==
  /\ At(w, "reentry")
  /\ CancelUnseen(w) \/ wk[w].abort = "lease"
  /\ Goto(w, "fail")
  /\ UNCHANGED <<ledgerVars, redisVars>>

(* The lease check, then STARTING -> RUNNING.                              *)
Gate(w) ==
  /\ At(w, "gate")
  /\ UNCHANGED redisVars
  /\ \/ /\ wk[w].abort = "lease"
        /\ Goto(w, "fail")
        /\ UNCHANGED ledgerVars
     \/ /\ wk[w].view = "STARTING"
        /\ CancelUnseen(w)
        /\ Cas(w, "STARTING", "RUNNING", "prerun")
     \/ /\ wk[w].view # "STARTING"
        /\ Goto(w, "prerun")
        /\ UNCHANGED ledgerVars

Prerun(w) ==
  /\ At(w, "prerun")
  /\ CancelUnseen(w)
  /\ Goto(w, IF wk[w].view = "RUNNING" THEN "exec" ELSE "fail")
  /\ UNCHANGED <<ledgerVars, redisVars>>

-----------------------------------------------------------------------------
(* Cancelling from a worker.                                               *)

(* #cancelBeforeRuntime.                                                   *)
Precancel(w) ==
  /\ At(w, "precancel")
  /\ UNCHANGED redisVars
  /\ \/ /\ wk[w].view \in TerminalStatuses
        /\ Goto(w, "done")
        /\ UNCHANGED ledgerVars
     \/ /\ wk[w].view = "WAITING_APPROVAL"
        /\ TxCancelParkedApproval
        /\ Read(w, "done")
     \/ /\ wk[w].view = "WAITING_APPROVAL"
        /\ status # "WAITING_APPROVAL"
        /\ UNCHANGED ledgerVars
        /\ Read(w, IF Terminal THEN "done" ELSE "precancel")
     \/ wk[w].view = "ACCEPTED" /\ Cas(w, "ACCEPTED", "QUEUED", "precancel")
     \/ wk[w].view = "QUEUED" /\ Cas(w, "QUEUED", "CANCELLING", "finish")
     \/ wk[w].view = "STARTING" /\ Cas(w, "STARTING", "RUNNING", "tocancel")
     \/ wk[w].view = "RUNNING" /\ Cas(w, "RUNNING", "CANCELLING", "tocancel")
     \/ /\ wk[w].view \in {"WAITING_INPUT", "CANCELLING", "RETRYING"}
        /\ Goto(w, "tocancel")
        /\ UNCHANGED ledgerVars

(* #transitionToCancelling, from the step pc to the step next.             *)
ToCancelling(w, pc, next) ==
  /\ At(w, pc)
  /\ UNCHANGED redisVars
  /\ \/ wk[w].view = "ACCEPTED" /\ Cas(w, "ACCEPTED", "QUEUED", pc)
     \/ wk[w].view = "STARTING" /\ Cas(w, "STARTING", "RUNNING", pc)
     \/ /\ CanTransition(wk[w].view, "CANCELLING")
        /\ Cas(w, wk[w].view, "CANCELLING", next)
     \/ /\ wk[w].view \notin {"ACCEPTED", "STARTING"}
        /\ ~CanTransition(wk[w].view, "CANCELLING")
        /\ Goto(w, next)
        /\ UNCHANGED ledgerVars

Reload(w) ==
  /\ At(w, "reload")
  /\ UNCHANGED <<ledgerVars, redisVars>>
  /\ Read(w, "finish")

(* #finishCancelled.                                                       *)
Finish(w) ==
  /\ At(w, "finish")
  /\ UNCHANGED redisVars
  /\ \/ wk[w].view = "CANCELLING" /\ Cas(w, "CANCELLING", "CANCELLED", "fail")
     \/ /\ wk[w].view # "CANCELLING"
        /\ Goto(w, "fail")
        /\ UNCHANGED ledgerVars

-----------------------------------------------------------------------------
(* The executor: DshRunExecutor.execute.                                   *)

(* The session lock (SET NX) or "session lock busy".  The mutant is a SET  *)
(* without NX.                                                             *)
ExecStealing(w) ==
  /\ At(w, "exec")
  /\ UNCHANGED <<ledgerVars, lease, jobs>>
  /\ lock' = w
  /\ Goto(w, "fence")
Exec(w) ==
  /\ At(w, "exec")
  /\ UNCHANGED <<ledgerVars, lease, jobs>>
  /\ \/ lock = None /\ lock' = w /\ Goto(w, "fence")
     \/ lock # None /\ UNCHANGED lock /\ Return(w, "FAILED", "settle")

AcquireFence(w) ==
  /\ At(w, "fence")
  /\ UNCHANGED redisVars
  /\ \/ TxAcquireFence(w) /\ Goto(w, "prompt")
     \/ /\ ~(sessionActive /\ status = "RUNNING")
        /\ Return(w, "FAILED", "settle")
        /\ UNCHANGED ledgerVars

(* Lock lost or aborted between the fence and the prompt.                  *)
SkipPrompt(w) ==
  /\ At(w, "prompt")
  /\ wk[w].mine = {}
  /\ lock # w \/ wk[w].abort # "no"
  /\ Return(w, "CANCELLED", "settle")
  /\ UNCHANGED <<ledgerVars, redisVars>>

(* The next call the model makes, in the order of its ledger row.          *)
NextCall(c) == tool[c] = NoRow /\ \A d \in ToolCalls : d < c => tool[d] # NoRow

(* A tool is dispatched: a new call, or the replay of an approved one.     *)
StartTool(w, c) ==
  /\ wk[w].pc \in {"prompt", "park"}
  /\ NextCall(c) \/ tool[c] = "WAITING_APPROVAL"
  /\ TxStart(w, c)
  /\ wk' = [wk EXCEPT ![w].mine = @ \cup {c}]
  /\ UNCHANGED redisVars

(* A dispatched tool ends, or a parking Run marks it UNKNOWN               *)
(* (terminalizeParallelToolsForPark).                                      *)
EndTool(w, c) ==
  /\ wk[w].pc \in {"prompt", "park"}
  /\ c \in wk[w].mine
  /\ \/ \E s \in {"SUCCEEDED", "FAILED"} : TxEnd(w, c, s)
     \/ TxEnd(w, c, "UNKNOWN")
  /\ wk' = [wk EXCEPT ![w].mine = @ \ {c}]
  /\ UNCHANGED redisVars

(* Policy asks for an approval: GovernanceApprovalStore.persistPending.    *)
RequestApproval(w, c) ==
  /\ "approval" \in Gates
  /\ At(w, "prompt")
  /\ NextCall(c)
  /\ TxRequestApproval(w, c)
  /\ Return(w, "WAITING_APPROVAL", "park")
  /\ UNCHANGED redisVars

(* ask_user: DurableInteractionRequester.                                  *)
RequestInteraction(w, c) ==
  /\ "input" \in Gates
  /\ At(w, "prompt")
  /\ NextCall(c) \/ c \in wk[w].mine
  /\ TxRequestInteraction(w, c)
  /\ Return(w, "WAITING_INPUT", "park")
  /\ UNCHANGED redisVars

(* A parked prompt unwinds; before an approval park ends, the calls still  *)
(* in flight are marked, best effort.                                      *)
EndPark(w) ==
  /\ At(w, "park")
  /\ \/ wk[w].outcome = "WAITING_INPUT"
     \/ wk[w].mine = {}
     \/ ~FencedBy(w)
  /\ Goto(w, "wrap")
  /\ UNCHANGED <<ledgerVars, redisVars>>

(* prompt() returns: normally, or with an error, an abort or the deadline; *)
(* an error with uncertain side effects suspends the session.              *)
EndPrompt(w) ==
  /\ At(w, "prompt")
  /\ UNCHANGED redisVars
  /\ \/ /\ wk[w].mine = {}
        /\ Return(w, "SUCCEEDED", "wrap")
        /\ UNCHANGED ledgerVars
     \/ /\ Return(w, "FAILED", "wrap")
        /\ UNCHANGED ledgerVars \/ TxSuspend(w)

(* After the prompt: a lost lock fails the Run and suspends the session,   *)
(* an abort cancels, a failure returns, and only a confirmed lock goes on  *)
(* to the checkpoint.                                                      *)
Wrap(w) ==
  /\ At(w, "wrap")
  /\ UNCHANGED redisVars
  /\ \/ /\ lock # w
        /\ TxSuspend(w) \/ (fence # w /\ UNCHANGED ledgerVars)
        /\ Return(w, "FAILED", "settle")
     \/ /\ wk[w].abort # "no"
        /\ Return(w, "CANCELLED", "settle")
        /\ UNCHANGED ledgerVars
     \/ /\ wk[w].abort = "no"
        /\ wk[w].outcome = "FAILED"
        /\ Goto(w, "settle")
        /\ UNCHANGED ledgerVars
     \/ /\ wk[w].abort = "no"
        /\ wk[w].outcome # "FAILED"
        /\ lock = w
        /\ Goto(w, "checkpoint")
        /\ UNCHANGED ledgerVars

(* SessionRecoveryService.checkpoint, fenced; then the outcome, which the  *)
(* last assistant entry or a lost lock may still turn.                     *)
Checkpoint(w) ==
  /\ At(w, "checkpoint")
  /\ UNCHANGED redisVars
  /\ \/ /\ TxCheckpoint(w, wk[w].answer)
        /\ \E o \in {wk[w].outcome}
                      \cup (IF wk[w].outcome = "SUCCEEDED"
                            THEN {"FAILED", "CANCELLED"} ELSE {})
                      \cup (IF lock # w THEN {"FAILED"} ELSE {}) :
             Return(w, o, "settle")
     \/ /\ ~FencedBy(w)
        /\ Return(w, "FAILED", "settle")
        /\ UNCHANGED ledgerVars

-----------------------------------------------------------------------------
(* After the executor: #executeWithCancelWatch and #applyExecutorOutcome.  *)

(* No write without the lease; then a fresh read, and cancel comes first.  *)
Settle(w) ==
  /\ At(w, "settle")
  /\ UNCHANGED <<ledgerVars, redisVars>>
  /\ \/ wk[w].abort = "lease" /\ Goto(w, "fail")
     \/ /\ wk[w].abort # "lease"
        /\ \/ wk[w].abort = "cancel"
           \/ status = "CANCELLING"
           \/ intent
           \/ wk[w].outcome = "CANCELLED"
        /\ Read(w, IF Terminal \/ status = "CANCELLING" THEN "finish"
                   ELSE "stop")
     \/ /\ wk[w].abort = "no"
        /\ status # "CANCELLING"
        /\ ~intent
        /\ wk[w].outcome # "CANCELLED"
        /\ Read(w, "apply")

Apply(w) ==
  /\ At(w, "apply")
  /\ UNCHANGED redisVars
  /\ LET from == wk[w].view
         to   == wk[w].outcome
     IN \/ /\ from \in TerminalStatuses \cup {to}
           /\ Goto(w, "done")
           /\ UNCHANGED ledgerVars
        \/ /\ from = "STARTING"
           /\ to # "FAILED"
           /\ Cas(w, "STARTING", "RUNNING", "apply")
        \/ /\ from = "STARTING" => to = "FAILED"
           /\ CanTransition(from, to)
           /\ Cas(w, from, to, "fail")
        \/ /\ from \notin TerminalStatuses \cup {to, "STARTING"}
           /\ ~CanTransition(from, to)
           /\ Goto(w, "fail")
           /\ UNCHANGED ledgerVars

(* dispose and releaseOnce (token-safe), then the job: it completes, or it *)
(* throws NeedsReconciliationError, after which BullMQ retries resume jobs *)
(* only (attempts: 8; an ordinary job has one attempt).                    *)
Release(w) ==
  /\ wk[w].pc \in {"done", "fail"}
  /\ lease' = IF lease = w THEN None ELSE lease
  /\ lock' = IF lock = w THEN None ELSE lock
  /\ wk' = [wk EXCEPT ![w] = NoAttempt]
  /\ UNCHANGED ledgerVars
  /\ \/ UNCHANGED <<jobs, faults>>
     \/ /\ At(w, "fail")
        /\ wk[w].view \notin TerminalStatuses
        /\ wk[w].job # 0
        /\ faults < MaxFaults
        /\ faults' = faults + 1
        /\ jobs' = jobs \cup {wk[w].job}

(* The lease renewal timer observes that the lease is gone (while the      *)
(* attempt still looks at isLeaseLost or the abort signal).                *)
RenewTick(w) ==
  /\ wk[w].pc \in RuntimePcs \cup {"load", "advance", "dispatch", "claimed",
                                   "reentry", "gate", "prerun", "settle"}
  /\ lease # w
  /\ wk[w].abort # "lease"
  /\ wk' = [wk EXCEPT ![w].abort = "lease"]
  /\ UNCHANGED <<ledgerVars, redisVars>>

(* The cancel watcher: RUNNING -> CANCELLING once, then abort.             *)
CancelTick(w) ==
  /\ wk[w].pc \in RuntimePcs
  /\ wk[w].abort = "no"
  /\ intent
  /\ \/ TxTransition("RUNNING", "CANCELLING")
     \/ status # "RUNNING" /\ UNCHANGED ledgerVars
  /\ wk' = [wk EXCEPT ![w].abort = "cancel"]
  /\ UNCHANGED redisVars

-----------------------------------------------------------------------------
(* RunRecoveryService.                                                     *)

ScanTo(r, pc) == sc' = [sc EXCEPT ![r] = IF pc = "idle" THEN NoScan
                                         ELSE [@ EXCEPT !.pc = pc]]

(* #recoverOne: the path of a status.  One mutant has no path for a QUEUED *)
(* Run, the other returns to a step that does not exist.                   *)
RecoverOneSkipping(s) ==
  CASE s \in {"CANCELLING", "STARTING", "RUNNING"} -> "probe"
    [] s \in {"WAITING_APPROVAL", "WAITING_INPUT"} ->
         IF intent THEN "parked" ELSE "wake"
    [] OTHER -> "project"
RecoverOneUnhandled(s) == "inspect"
RecoverOne(s) ==
  CASE s \in {"CANCELLING", "STARTING", "RUNNING"} -> "probe"
    [] s \in {"WAITING_APPROVAL", "WAITING_INPUT"} ->
         IF intent THEN "parked" ELSE "wake"
    [] s = "ACCEPTED" -> "accept"
    [] s = "RETRYING" -> "project"
    [] OTHER -> "enqueue"

(* scanAndRequeue reads the Run.                                           *)
Scan(r) ==
  /\ sc[r].pc = "idle"
  /\ ~Terminal
  /\ sc' = [sc EXCEPT ![r] = [pc |-> RecoverOne(status), view |-> status,
                              job |-> 0]]
  /\ UNCHANGED <<ledgerVars, redisVars>>

(* #isLeaseHeld.  The mutant does not probe.                               *)
Unprobed(r) ==
  /\ sc[r].pc = "probe"
  /\ ScanTo(r, IF sc[r].view = "CANCELLING" THEN "close" ELSE "reconcile")
  /\ UNCHANGED <<ledgerVars, redisVars>>
Probe(r) ==
  /\ sc[r].pc = "probe"
  /\ ScanTo(r, IF lease # None THEN "idle"
               ELSE IF sc[r].view = "CANCELLING" THEN "close" ELSE "reconcile")
  /\ UNCHANGED <<ledgerVars, redisVars>>

(* #terminalizeCancelling.  The mutant leaves it to a worker.              *)
LeaveCancelling(r) ==
  /\ sc[r].pc = "close"
  /\ ScanTo(r, "idle")
  /\ UNCHANGED <<ledgerVars, redisVars>>
Close(r) ==
  /\ sc[r].pc = "close"
  /\ \/ TxTransition("CANCELLING", "CANCELLED")
     \/ status # "CANCELLING" /\ UNCHANGED ledgerVars
  /\ ScanTo(r, "idle")
  /\ UNCHANGED redisVars

(* The ledger proves that a replay repeats nothing.  One mutant does not   *)
(* look at the tool rows, the other not at the checkpoint.                 *)
ReplaySafeAnyTools == sessionActive /\ ~lastRun
ReplaySafeCheckpointed ==
  /\ \A c \in ToolCalls : ~Unresolved(c)
  /\ sessionActive
ReplaySafe ==
  /\ \A c \in ToolCalls : ~Unresolved(c)
  /\ sessionActive
  /\ ~lastRun

(* #reconcileOrphanRuntime, one transaction: cancel, then continuation,    *)
(* then replay; anything else needs an operator.                           *)
Reconcile(r) ==
  /\ sc[r].pc = "reconcile"
  /\ UNCHANGED redisVars
  /\ \/ TxReconcileCancel /\ ScanTo(r, "idle")
     \/ /\ status \in {"STARTING", "RUNNING"}
        /\ ~intent
        /\ \/ \E c \in ToolCalls :
                /\ IsLatest(c, Continuations)
                /\ \/ /\ tool[c] # "SUCCEEDED"
                      /\ ScanTo(r, "idle")
                      /\ UNCHANGED ledgerVars
                   \/ /\ tool[c] = "SUCCEEDED"
                      /\ interaction[c] = "CLAIMED"
                      /\ sc' = [sc EXCEPT ![r].pc = "enqueue", ![r].job = c]
                      /\ UNCHANGED ledgerVars
                   \/ /\ tool[c] = "SUCCEEDED"
                      /\ interaction[c] = "APPLIED"
                      /\ \/ TxTransition("RUNNING", "SUCCEEDED")
                         \/ status = "STARTING" /\ UNCHANGED ledgerVars
                      /\ ScanTo(r, "idle")
           \/ /\ Continuations = {}
              /\ ReplaySafe
              /\ TxTransition(status, "RETRYING")
              /\ ScanTo(r, "project")
           \/ /\ Continuations = {}
              /\ ~ReplaySafe
              /\ ScanTo(r, "idle")
              /\ UNCHANGED ledgerVars
     \/ /\ status \notin {"STARTING", "RUNNING"}
        /\ ScanTo(r, "idle")
        /\ UNCHANGED ledgerVars

(* #projectRetryingToQueued; a Run that is QUEUED already is enqueued too. *)
Project(r) ==
  /\ sc[r].pc = "project"
  /\ UNCHANGED redisVars
  /\ \/ TxTransition("RETRYING", "QUEUED") /\ ScanTo(r, "enqueue")
     \/ /\ status # "RETRYING"
        /\ ScanTo(r, IF status = "QUEUED" THEN "enqueue" ELSE "idle")
        /\ UNCHANGED ledgerVars

(* runQueue.enqueue; an ACCEPTED Run is enqueued first, projected after.   *)
EnqueueJob(r) ==
  /\ sc[r].pc \in {"accept", "enqueue"}
  /\ Enqueue(sc[r].job)
  /\ ScanTo(r, IF sc[r].pc = "accept" THEN "accepted" ELSE "idle")
  /\ UNCHANGED <<ledgerVars, lease, lock>>

(* #projectAcceptedToQueued.                                               *)
ProjectAccepted(r) ==
  /\ sc[r].pc = "accepted"
  /\ \/ TxTransition("ACCEPTED", "QUEUED")
     \/ status # "ACCEPTED" /\ UNCHANGED ledgerVars
  /\ ScanTo(r, "idle")
  /\ UNCHANGED redisVars

(* recoverParkedCancel: a parked Run with cancel intent is finished here.  *)
(* The mutant only knows approvals.                                        *)
ParkedApprovalCancel(r) ==
  /\ sc[r].pc = "parked"
  /\ \/ sc[r].view = "WAITING_APPROVAL" /\ TxCancelParkedApproval
     \/ (sc[r].view # "WAITING_APPROVAL" \/ status # sc[r].view)
           /\ UNCHANGED ledgerVars
  /\ ScanTo(r, "idle")
  /\ UNCHANGED redisVars
ParkedCancel(r) ==
  /\ sc[r].pc = "parked"
  /\ \/ sc[r].view = "WAITING_APPROVAL" /\ TxCancelParkedApproval
     \/ sc[r].view = "WAITING_INPUT" /\ TxCancelParkedInput
     \/ /\ \/ status # sc[r].view
           \/ /\ status = "WAITING_INPUT"
              /\ ~\E c \in ToolCalls : ParkedInteraction(c) /\ tool[c] # "UNKNOWN"
        /\ UNCHANGED ledgerVars
  /\ ScanTo(r, "idle")
  /\ UNCHANGED redisVars

(* #recoverWaitingApproval and #recoverWaitingInput: an answered question  *)
(* gets its resume job, an open one is left to the user.                   *)
(* The mutant trusts the API to have enqueued it.                          *)
NothingDue(v) == {}
DueCalls(v) ==
  {c \in ToolCalls :
     \/ /\ v = "WAITING_APPROVAL"
        /\ PendingApprovals = {}
        /\ IsLatest(c, DecidedApprovals)
     \/ /\ v = "WAITING_INPUT"
        /\ status = "WAITING_INPUT"
        /\ c \in ResolvedInteractions
        /\ IsLatest(c, ResolvedInteractions \cup PendingInteractions)}

Wake(r) ==
  /\ sc[r].pc = "wake"
  /\ \/ \E c \in DueCalls(sc[r].view) :
          sc' = [sc EXCEPT ![r].pc = "enqueue", ![r].job = c]
     \/ DueCalls(sc[r].view) = {} /\ ScanTo(r, "idle")
  /\ UNCHANGED <<ledgerVars, redisVars>>

-----------------------------------------------------------------------------
(* The agent API.                                                          *)

(* POST cancel; the intent-only path is the fallback when the full         *)
(* transaction fails, and the one a parent's cancel cascade takes.         *)
CancelRun    == ~Terminal /\ TxCancelRun /\ UNCHANGED redisVars
CancelIntent == ~intent /\ TxIntent /\ UNCHANGED redisVars

Decide(c) ==
  /\ \E d \in {"APPROVED", "REJECTED"} : TxDecide(c, d)
  /\ UNCHANGED redisVars

Respond(c) ==
  /\ TxRespond(c)
  /\ UNCHANGED redisVars

(* #enqueue after the decision or answer has committed, or again on        *)
(* resume, a repeated decision or rehydrateWaiting.  Best effort: it may   *)
(* never happen.                                                           *)
WakeWorker(c) ==
  /\ \/ status = "WAITING_APPROVAL" /\ c \in DecidedApprovals
     \/ status = "WAITING_INPUT" /\ c \in ResolvedInteractions
  /\ Enqueue(c)
  /\ UNCHANGED <<ledgerVars, lease, lock>>

-----------------------------------------------------------------------------
(* Faults.                                                                 *)

(* A worker process dies.  Its Redis tokens stay until their TTL; BullMQ   *)
(* finds the stalled job and puts it back, or fails it.                    *)
Crash(w) ==
  /\ Fault("crash")
  /\ ~At(w, "idle")
  /\ wk' = [wk EXCEPT ![w] = NoAttempt]
  /\ lease' = IF lease = w THEN Dead ELSE lease
  /\ lock' = IF lock = w THEN Dead ELSE lock
  /\ jobs' \in {jobs, jobs \cup {wk[w].job}}
  /\ UNCHANGED <<ledgerVars, sc>>

ScannerCrash(r) ==
  /\ Fault("crash")
  /\ sc[r].pc # "idle"
  /\ ScanTo(r, "idle")
  /\ UNCHANGED <<ledgerVars, redisVars, wk>>

(* A dead attempt's tokens reach their TTL.                                *)
TtlExpire ==
  /\ Dead \in {lease, lock}
  /\ \/ lease = Dead /\ lease' = None /\ UNCHANGED lock
     \/ lock = Dead /\ lock' = None /\ UNCHANGED lease
  /\ UNCHANGED <<ledgerVars, jobs, wk, sc, faults>>

(* A live attempt misses its renewals (stalled process, Redis outage).     *)
LeaseExpire ==
  /\ Fault("lease")
  /\ lease \in Workers
  /\ lease' = None
  /\ UNCHANGED <<ledgerVars, lock, jobs, wk, sc>>

LockExpire ==
  /\ Fault("lock")
  /\ lock \in Workers
  /\ lock' = None
  /\ UNCHANGED <<ledgerVars, lease, jobs, wk, sc>>

(* Redis loses its data: jobs, lease and lock.                             *)
RedisFlush ==
  /\ Fault("redis")
  /\ lease' = None
  /\ lock' = None
  /\ jobs' = {}
  /\ UNCHANGED <<ledgerVars, wk, sc>>

(* A MySQL error outside the executor: execute() returns UNKNOWN.          *)
DbError(w) ==
  /\ Fault("db")
  /\ wk[w].pc \notin RuntimePcs \cup {"idle", "done", "fail"}
  /\ Goto(w, "fail")
  /\ UNCHANGED <<ledgerVars, redisVars, sc>>

-----------------------------------------------------------------------------
(* The Run has been created; the creating request has enqueued it and      *)
(* projected QUEUED, or it stopped in between.                             *)
LifecycleInit ==
  /\ Init
  /\ lease = None
  /\ lock = None
  /\ jobs \in {{}, {0}}
  /\ status = "QUEUED" => jobs = {0}
  /\ wk = [w \in Workers |-> NoAttempt]
  /\ sc = [r \in Scanners |-> NoScan]
  /\ faults = 0

Attempt(w) ==
  \/ Take(w) \/ Load(w) \/ HonourCancel(w) \/ Advance(w) \/ Dispatch(w)
  \/ Claimed(w) \/ Recovered(w) \/ RefuseReentry(w) \/ Gate(w) \/ Prerun(w)
  \/ Precancel(w) \/ ToCancelling(w, "tocancel", "finish")
  \/ ToCancelling(w, "stop", "reload") \/ Reload(w) \/ Finish(w)
  \/ Exec(w) \/ AcquireFence(w) \/ SkipPrompt(w)
  \/ \E c \in ToolCalls :
       \/ StartTool(w, c) \/ EndTool(w, c)
       \/ RequestApproval(w, c) \/ RequestInteraction(w, c)
  \/ EndPark(w) \/ EndPrompt(w) \/ Wrap(w) \/ Checkpoint(w)
  \/ Settle(w) \/ Apply(w)

Recover(r) ==
  \/ Scan(r) \/ Probe(r) \/ Close(r) \/ Reconcile(r) \/ Project(r)
  \/ EnqueueJob(r) \/ ProjectAccepted(r) \/ ParkedCancel(r) \/ Wake(r)

WorkerStep(w)  == \/ Attempt(w) /\ UNCHANGED <<sc, faults>>
                  \/ Release(w) /\ UNCHANGED sc
TimerStep(w)   == (RenewTick(w) \/ CancelTick(w)) /\ UNCHANGED <<sc, faults>>
ScannerStep(r) == Recover(r) /\ UNCHANGED <<wk, faults>>

UserStep ==
  /\ \/ CancelRun \/ CancelIntent
     \/ \E c \in ToolCalls : Decide(c) \/ Respond(c) \/ WakeWorker(c)
  /\ UNCHANGED <<wk, sc, faults>>

FaultStep ==
  \/ \E w \in Workers : \/ Crash(w) \/ DbError(w)
                        \/ LeaseBusy(w) /\ UNCHANGED <<sc, faults>>
  \/ \E r \in Scanners : ScannerCrash(r)
  \/ LeaseExpire \/ LockExpire \/ RedisFlush

LifecycleNext ==
  \/ \E w \in Workers : WorkerStep(w) \/ TimerStep(w)
  \/ \E r \in Scanners : ScannerStep(r)
  \/ UserStep
  \/ FaultStep
  \/ TtlExpire

(* Worker loops and timers run, BullMQ delivers, the scan repeats, a TTL   *)
(* ends; users and faults come as they like.                               *)
LifecycleFairness ==
  /\ \A w \in Workers : WF_vars(WorkerStep(w)) /\ WF_vars(TimerStep(w))
  /\ \A r \in Scanners : WF_vars(ScannerStep(r))
  /\ WF_vars(TtlExpire)

LifecycleSpec == LifecycleInit /\ [][LifecycleNext]_vars
FairSpec == LifecycleSpec /\ LifecycleFairness

-----------------------------------------------------------------------------
(* Properties.                                                             *)

(* The processes touch the durable facts only through the transactions of  *)
(* RunLedger, in any interleaving and under every fault: what is proved of *)
(* the ledger holds of the running system.                                 *)
ImplementsLedger == Spec

(* One runtime per session: whatever single Redis token expires early, at  *)
(* most one live worker is between the fence and the checkpoint, because   *)
(* the lease and the session lock each exclude the second one.             *)
Prompting == {w \in Workers : wk[w].pc \in {"fence", "prompt", "park", "wrap",
                                            "checkpoint"}}
OneRuntime == \A v, w \in Prompting : v = w

(* Recovery never takes a Run back to the queue under a worker that holds  *)
(* its lease and is running it ("STARTING/RUNNING with no live lease",     *)
(* run-recovery-service.ts): the probe is still true when the replay       *)
(* commits.                                                                *)
ReplayedWorkers == {w \in Workers : lease = w /\ wk[w].pc \in RuntimePcs}
ReplayOnlyOrphans == [][status' = "RETRYING" => ReplayedWorkers = {}]_vars

(* No Run is prompted again once its session checkpoint names it, unless a *)
(* question was answered in between: a crash at any point repeats no       *)
(* completed prompt.                                                       *)
NoRepromptAfterCheckpoint ==
  [][\A w \in Workers :
       (wk[w].pc = "fence" /\ wk'[w].pc = "prompt" /\ lastRun) =>
          DecidedApprovals \cup ResolvedInteractions # {}]_vars

(* A prompt never starts over a tool call of an earlier attempt that may   *)
(* still be running: every route back to a prompt, through the scanner and *)
(* the queue, passes the tool ledger check of #reconcileOrphanRuntime.     *)
ReplayOverSettledTools ==
  [][\A w \in Workers :
       (wk[w].pc = "fence" /\ wk'[w].pc = "prompt") =>
          \A c \in ToolCalls : tool[c] # "RUNNING"]_vars

(* The same for a worker that re-enters a RUNNING Run to continue a        *)
(* claimed answer ("replay only when the durable tool ledger proves there  *)
(* is no unresolved or ambiguous tool call", run-recovery-service.ts).     *)
ReentryOverSettledTools ==
  [][\A w \in Workers :
       (wk[w].pc = "claimed" /\ wk'[w].pc = "gate") =>
          \A c \in ToolCalls : ~Unresolved(c)]_vars

(* Recovery infers success only from a finished prompt ("APPLIED proves    *)
(* that DSH checkpointed the answer and only the Run terminal projection   *)
(* is missing", run-recovery-service.ts): it never declares SUCCEEDED      *)
(* while a call the user approved has yet to run.                          *)
RecoveredSuccessIsFinal ==
  [][(status # "SUCCEEDED" /\ status' = "SUCCEEDED"
        /\ \A w \in Workers : ~At(w, "apply")) =>
       \A c \in ToolCalls : ~(approval[c] = "APPROVED"
                               /\ tool[c] = "WAITING_APPROVAL")]_vars

(* A cancel intent never leaves the Run stuck: every Run whose owner asked *)
(* to cancel it ends, wherever the request caught it.                      *)
CancelTerminates == intent ~> Terminal

(* A Run that waits for a worker gets one, also when its job was lost.     *)
Queued == status \in {"ACCEPTED", "QUEUED", "RETRYING"}
QueuedIsServed == Queued ~> ~Queued

(* A Run never hangs unexplained: again and again it has ended, or waits   *)
(* for its user, or rests at one of the boundaries recovery leaves to an   *)
(* operator (needsReconciliation): an unresolved tool, a checkpoint or a   *)
(* suspended session under an orphaned Run, or an answer that no longer    *)
(* fits its tool row.                                                      *)
OperatorNeeded ==
  /\ \A w \in Workers : At(w, "idle")
  /\ \/ /\ status \in {"STARTING", "RUNNING"}
        /\ IF Continuations = {} THEN ~ReplaySafe
           ELSE \E c \in Continuations : tool[c] # "SUCCEEDED"
     \/ status = "WAITING_APPROVAL" /\ ~ApprovalResumable
     \/ /\ status = "WAITING_INPUT"
        /\ \A c \in ToolCalls : ~InputResumable(c)
NeverHangs == []<>(\/ Terminal
                   \/ PendingApprovals \cup PendingInteractions # {}
                   \/ OperatorNeeded)

(* The workers are alike: TLC may swap them.                               *)
WorkerSymmetry == Permutations(Workers)

==============================================================================
