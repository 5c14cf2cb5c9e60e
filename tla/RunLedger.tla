------------------------------ MODULE RunLedger ------------------------------
(***************************************************************************)
(* The durable facts of one Run and its Session, and the MySQL             *)
(* transactions that write them.                                           *)
(*                                                                         *)
(* MySQL is the only authority of the system: the agent API, the workers   *)
(* and the recovery scanner are stateless against it.  Each Tx operator    *)
(* below is one committed transaction (a row lock on the Run or Session    *)
(* serialises it), guards included; Next lets any client commit any of     *)
(* them in any order.  What holds of Spec therefore holds whatever the     *)
(* worker code does around the transactions.  RunLifecycle, the model of   *)
(* that code, implements this specification.                               *)
(*                                                                         *)
(* Tool calls are numbered in the order the model makes them, so "the      *)
(* latest row" of the code (created_at order) is the largest number.       *)
(***************************************************************************)
EXTENDS Naturals, FiniteSets

CONSTANTS ToolCalls,   \* the tool calls the agent may make in this Run
          Executors,   \* who may hold the session's execution fence
          None         \* no holder

ASSUME LedgerAssumption == /\ ToolCalls \subseteq Nat
                           /\ IsFiniteSet(ToolCalls)
                           /\ 0 \notin ToolCalls
                           /\ None \notin Executors

-----------------------------------------------------------------------------
(* The vocabularies of the ledgers and the transition table of a Run:      *)
(* agent/src/domain/run/run-status.ts, domain/tool, domain/interaction.    *)

RunStatuses == {"ACCEPTED", "QUEUED", "STARTING", "RUNNING",
                "WAITING_APPROVAL", "WAITING_INPUT", "CANCELLING",
                "RETRYING", "SUCCEEDED", "FAILED", "CANCELLED"}

TerminalStatuses == {"SUCCEEDED", "FAILED", "CANCELLED"}

RunTransitions ==
  ({"ACCEPTED"} \X {"QUEUED"})
    \cup ({"QUEUED"} \X {"STARTING", "CANCELLING"})
    \cup ({"STARTING"} \X {"RUNNING", "RETRYING", "FAILED"})
    \cup ({"RUNNING"} \X {"SUCCEEDED", "WAITING_APPROVAL", "WAITING_INPUT",
                          "CANCELLING", "RETRYING", "FAILED"})
    \cup ({"WAITING_APPROVAL", "WAITING_INPUT"} \X {"RUNNING"})
    \cup ({"CANCELLING"} \X {"CANCELLED"})
    \cup ({"RETRYING"} \X {"QUEUED", "FAILED"})

CanTransition(from, to) == <<from, to>> \in RunTransitions

(* tool_executions.status; NoRow is a tool call that has no ledger row yet.*)
NoRow == "NO_ROW"
ToolStatuses == {NoRow, "PROPOSED", "WAITING_APPROVAL", "RUNNING",
                 "SUCCEEDED", "FAILED", "CANCELLED", "UNKNOWN"}

(* approvals.status, with NoRow for a call that never asked.  EXPIRED is   *)
(* declared in the source and written nowhere.                             *)
ApprovalStatuses == {NoRow, "PENDING", "APPROVED", "REJECTED", "CANCELLED"}

(* interactions: PENDING, CANCELLED, or RESOLVED split by its resume phase.*)
InteractionStatuses == {NoRow, "PENDING", "READY", "CLAIMED", "APPLIED",
                        "CANCELLED"}
ResolvedPhases == {"READY", "CLAIMED", "APPLIED"}

-----------------------------------------------------------------------------
VARIABLES
  status,         \* tbl_agsvc_runs.status
  intent,         \* runs.cancel_requested_at is set
  notices,        \* outbox rows run.terminal_notification of this Run
  tool,           \* tool_executions.status per call
  approval,       \* approvals.status per call
  interaction,    \* run_interactions status and resume_phase per call
  lastRun,        \* agent_sessions.last_run_id is this Run
  sessionActive,  \* agent_sessions.status = ACTIVE (else SUSPENDED)
  fence           \* who holds the current execution_fence_token

runVars     == <<status, intent, notices>>
askVars     == <<tool, approval, interaction>>
sessionVars == <<lastRun, sessionActive, fence>>
ledgerVars  == <<status, intent, notices, tool, approval, interaction,
                 lastRun, sessionActive, fence>>

LedgerTypeOK ==
  /\ status \in RunStatuses
  /\ intent \in BOOLEAN
  /\ notices \in Nat
  /\ tool \in [ToolCalls -> ToolStatuses]
  /\ approval \in [ToolCalls -> ApprovalStatuses]
  /\ interaction \in [ToolCalls -> InteractionStatuses]
  /\ lastRun \in BOOLEAN
  /\ sessionActive \in BOOLEAN
  /\ fence \in Executors \cup {None}

-----------------------------------------------------------------------------
(* Queries over the rows.                                                  *)

Terminal == status \in TerminalStatuses

PendingApprovals    == {c \in ToolCalls : approval[c] = "PENDING"}
PendingInteractions == {c \in ToolCalls : interaction[c] = "PENDING"}

(* The latest row of a set of calls: [...rows].reverse().find(...).        *)
IsLatest(c, S) == c \in S /\ \A d \in S : d <= c

DecidedApprovals == {c \in ToolCalls :
                       approval[c] \in {"APPROVED", "REJECTED", "CANCELLED"}}
ResolvedInteractions == {c \in ToolCalls : interaction[c] \in ResolvedPhases}
Continuations == {c \in ToolCalls : interaction[c] \in {"CLAIMED", "APPLIED"}}

(* assertExecutionFence with requireActive.                                *)
FencedBy(e) == fence = e /\ sessionActive

(* A tool row recovery may not replay over (REPLAY_SAFE_TOOL_STATUSES).    *)
Unresolved(c) == tool[c] \notin {NoRow, "SUCCEEDED", "FAILED", "CANCELLED"}

-----------------------------------------------------------------------------
(* Writes shared by several transactions.                                  *)

(* closeOpenToolExecutionsInTxn.  The mutant writes a status the           *)
(* vocabulary does not have.                                               *)
CloseOpenToolsAborted(rows) ==
  [c \in ToolCalls |-> IF rows[c] \in {"PROPOSED", "RUNNING"} THEN "ABORTED"
                       ELSE rows[c]]
CloseOpenTools(rows) ==
  [c \in ToolCalls |->
     IF rows[c] = "RUNNING" THEN "UNKNOWN"
     ELSE IF rows[c] \in {"PROPOSED", "WAITING_APPROVAL"} THEN "CANCELLED"
     ELSE rows[c]]

(* Entering a terminal status writes one run.terminal_notification row.    *)
(* The mutant also announces the start of a cancellation.                  *)
AnnouncesCancelling(to) == to \in TerminalStatuses \cup {"CANCELLING"}
Announces(to) == to \in TerminalStatuses

(* The part of applyRunTransitionInTxn that follows a successful CAS: the  *)
(* new status, the terminal notification, and the closing of open tools    *)
(* when the Run is cancelled; rows are the tool rows the transaction has   *)
(* already written.                                                        *)
EnterStatus(to, rows) ==
  /\ status' = to
  /\ notices' = IF Announces(to) THEN notices + 1 ELSE notices
  /\ tool' = IF to = "CANCELLED" THEN CloseOpenTools(rows) ELSE rows

-----------------------------------------------------------------------------
(* Run transitions.                                                        *)

(* applyRunTransitionInTxn: updateStatusIf is a CAS on the expected status.*)
TxTransition(from, to) ==
  /\ status = from
  /\ EnterStatus(to, tool)
  /\ UNCHANGED <<intent, approval, interaction, sessionVars>>

(* setCancelIntent on a non-terminal Run; the first writer wins.           *)
TxIntent ==
  /\ ~Terminal
  /\ intent' = TRUE
  /\ UNCHANGED <<status, notices, askVars, sessionVars>>

(* A parked cancel decides the pending approval too.  The mutant leaves    *)
(* it open.                                                                *)
KeepPendingApprovals == approval
CancelPendingApprovals ==
  [c \in ToolCalls |-> IF approval[c] = "PENDING" THEN "CANCELLED"
                       ELSE approval[c]]

(* terminalizeParkedWaitingApprovalInTxn: WAITING_APPROVAL -> RUNNING ->   *)
(* CANCELLING -> CANCELLED in one transaction, after the pending approval  *)
(* and every open tool row are cancelled.                                  *)
TxCancelParkedApproval ==
  /\ status = "WAITING_APPROVAL"
  /\ approval' = CancelPendingApprovals
  /\ EnterStatus("CANCELLED",
       [c \in ToolCalls |->
          IF tool[c] \in {"PROPOSED", "WAITING_APPROVAL", "RUNNING"}
          THEN "CANCELLED" ELSE tool[c]])
  /\ intent' = TRUE
  /\ UNCHANGED <<interaction, sessionVars>>

(* terminalizeParkedWaitingInputInTxn: the pending interaction (at most    *)
(* one, else it refuses), or the latest settled one, and its tool row,     *)
(* which must not be UNKNOWN.                                              *)
ParkedInteraction(c) ==
  /\ Cardinality(PendingInteractions) <= 1
  /\ IF PendingInteractions # {}
     THEN c \in PendingInteractions
     ELSE IsLatest(c, {d \in ToolCalls :
                         interaction[d] \in ResolvedPhases \cup {"CANCELLED"}})

TxCancelParkedInput ==
  /\ status = "WAITING_INPUT"
  /\ \E c \in ToolCalls :
       /\ ParkedInteraction(c)
       /\ tool[c] # "UNKNOWN"
       /\ interaction' = [interaction EXCEPT
                            ![c] = IF @ = "PENDING" THEN "CANCELLED" ELSE @]
       /\ EnterStatus("CANCELLED",
            [tool EXCEPT
               ![c] = IF @ \in {"PROPOSED", "WAITING_APPROVAL", "RUNNING"}
                      THEN "CANCELLED" ELSE @])
  /\ intent' = TRUE
  /\ UNCHANGED <<approval, sessionVars>>

(* CancelRunService.#cancelInTxn: the intent, and as far as the status     *)
(* table lets the same transaction go.                                     *)
TxCancelRun ==
  \/ TxCancelParkedApproval
  \/ TxCancelParkedInput
  \/ /\ CanTransition(status, "CANCELLING")
     /\ EnterStatus("CANCELLING", tool)
     /\ intent' = TRUE
     /\ UNCHANGED <<approval, interaction, sessionVars>>
  \/ /\ status \notin {"WAITING_APPROVAL", "WAITING_INPUT"}
     /\ ~CanTransition(status, "CANCELLING")
     /\ TxIntent

(* reconcileOrphanRuntime with cancel intent: (STARTING ->) RUNNING ->     *)
(* CANCELLING -> CANCELLED in one transaction.                             *)
TxReconcileCancel ==
  /\ status \in {"STARTING", "RUNNING"}
  /\ intent
  /\ EnterStatus("CANCELLED", tool)
  /\ UNCHANGED <<intent, approval, interaction, sessionVars>>

-----------------------------------------------------------------------------
(* Questions to the user: approvals and interactions.                      *)

(* What requestApproval demands of the Run and of the approval table.  It  *)
(* does not look at the status of the tool row: the gate asks before the   *)
(* body of the call starts (GovernanceApprovalStore.persistPending), so    *)
(* that the row is not there yet or is PROPOSED.  One mutant lets a parked *)
(* Run ask again, the other a decided call.                                *)
ApprovalAskableParked(c) ==
  /\ status \in {"RUNNING", "WAITING_APPROVAL"}
  /\ tool[c] \in {NoRow, "PROPOSED"}
  /\ approval[c] = NoRow
ApprovalAskableTwice(c) ==
  /\ status = "RUNNING"
  /\ tool[c] \in {NoRow, "PROPOSED", "FAILED"}
ApprovalAskable(c) ==
  /\ status = "RUNNING"
  /\ tool[c] \in {NoRow, "PROPOSED"}
  /\ approval[c] = NoRow

(* FencedToolGovernanceRecorder.requestApproval: the approval row, the     *)
(* tool row and RUNNING -> WAITING_APPROVAL commit together.  A Run that   *)
(* already waits refuses a second approval.                                *)
TxRequestApproval(e, c) ==
  /\ FencedBy(e)
  /\ ApprovalAskable(c)
  /\ status' = "WAITING_APPROVAL"
  /\ tool' = [tool EXCEPT ![c] = "WAITING_APPROVAL"]
  /\ approval' = [approval EXCEPT ![c] = "PENDING"]
  /\ UNCHANGED <<intent, notices, interaction, sessionVars>>

(* requestInteraction and InteractionRepository.getOrCreatePending.        *)
TxRequestInteraction(e, c) ==
  /\ FencedBy(e)
  /\ status = "RUNNING"
  /\ tool[c] \in {NoRow, "PROPOSED", "RUNNING"}
  /\ interaction[c] = NoRow
  /\ PendingInteractions = {}
  /\ status' = "WAITING_INPUT"
  /\ tool' = [tool EXCEPT ![c] = "RUNNING"]
  /\ interaction' = [interaction EXCEPT ![c] = "PENDING"]
  /\ UNCHANGED <<intent, notices, approval, sessionVars>>

(* ApprovalDecisionService.decide: a rejection also closes the tool row.   *)
TxDecide(c, decision) ==
  /\ approval[c] = "PENDING"
  /\ status = "WAITING_APPROVAL"
  /\ tool[c] = "WAITING_APPROVAL"
  /\ approval' = [approval EXCEPT ![c] = decision]
  /\ tool' = [tool EXCEPT ![c] = IF decision = "REJECTED" THEN "FAILED"
                                 ELSE @]
  /\ UNCHANGED <<runVars, interaction, sessionVars>>

(* InteractionResponseService.respond: the answer completes the ask_user   *)
(* tool row.                                                               *)
TxRespond(c) ==
  /\ interaction[c] = "PENDING"
  /\ status = "WAITING_INPUT"
  /\ tool[c] = "RUNNING"
  /\ interaction' = [interaction EXCEPT ![c] = "READY"]
  /\ tool' = [tool EXCEPT ![c] = "SUCCEEDED"]
  /\ UNCHANGED <<runVars, approval, sessionVars>>

(* #resumeApprovalIfResolved: every approval decided, the latest one       *)
(* matching its tool row.                                                  *)
ApprovalResumable ==
  /\ PendingApprovals = {}
  /\ \E c \in ToolCalls :
       /\ IsLatest(c, DecidedApprovals)
       /\ <<approval[c], tool[c]>> \in {<<"APPROVED", "WAITING_APPROVAL">>,
                                        <<"REJECTED", "FAILED">>}

TxResumeApproval ==
  /\ ApprovalResumable
  /\ TxTransition("WAITING_APPROVAL", "RUNNING")

(* #resumeInputIfResolved: claim the latest answer (READY -> CLAIMED).     *)
InputResumable(c) ==
  /\ PendingInteractions = {}
  /\ IsLatest(c, ResolvedInteractions)
  /\ tool[c] = "SUCCEEDED"
  /\ interaction[c] \in {"READY", "CLAIMED"}

TxResumeInput(c) ==
  /\ InputResumable(c)
  /\ status = "WAITING_INPUT"
  /\ status' = "RUNNING"
  /\ interaction' = [interaction EXCEPT ![c] = "CLAIMED"]
  /\ UNCHANGED <<intent, notices, tool, approval, sessionVars>>

-----------------------------------------------------------------------------
(* The tool ledger, written by the executor under its fence.               *)

(* recordPolicyDecision: a proposal, or a denial that is final at once.    *)
TxPropose(e, c, s) ==
  /\ FencedBy(e)
  /\ tool[c] = NoRow
  /\ s \in {"PROPOSED", "FAILED"}
  /\ tool' = [tool EXCEPT ![c] = s]
  /\ UNCHANGED <<runVars, approval, interaction, sessionVars>>

(* A row that waits for approval needs its APPROVED decision, once.  The   *)
(* mutant trusts the row.                                                  *)
DispatchableUndecided(c) == tool[c] \in {NoRow, "PROPOSED", "WAITING_APPROVAL"}
Dispatchable(c) ==
  \/ tool[c] \in {NoRow, "PROPOSED"}
  \/ tool[c] = "WAITING_APPROVAL" /\ approval[c] = "APPROVED"

(* recordToolStarted: the dispatch boundary.  It does not look at the Run. *)
TxStart(e, c) ==
  /\ FencedBy(e)
  /\ Dispatchable(c)
  /\ tool' = [tool EXCEPT ![c] = "RUNNING"]
  /\ UNCHANGED <<runVars, approval, interaction, sessionVars>>

(* recordToolEnded, which makes the row when the start was never recorded, *)
(* and recordToolUnknown, which does not.  A parked ask_user call is not   *)
(* ended (isInteractionPending).                                           *)
TxEnd(e, c, s) ==
  /\ FencedBy(e)
  /\ interaction[c] # "PENDING"
  /\ \/ s \in {"SUCCEEDED", "FAILED"} /\ tool[c] \in {NoRow, "PROPOSED", "RUNNING"}
     \/ s = "UNKNOWN" /\ tool[c] = "RUNNING"
  /\ tool' = [tool EXCEPT ![c] = s]
  /\ UNCHANGED <<runVars, approval, interaction, sessionVars>>

-----------------------------------------------------------------------------
(* The Session.                                                            *)

(* acquireExecutionFenceForRun.                                            *)
TxAcquireFence(e) ==
  /\ sessionActive
  /\ status = "RUNNING"
  /\ fence' = e
  /\ UNCHANGED <<runVars, askVars, lastRun, sessionActive>>

(* updateLastRunIdIfFence, part of the checkpoint.  The mutant forgets it. *)
KeepLastRun == UNCHANGED lastRun
NameRun == lastRun' = TRUE

(* SessionRecoveryService.checkpoint: last_run_id, and the continuation    *)
(* the attempt claimed (answer, or 0) becomes APPLIED.                     *)
TxCheckpoint(e, answer) ==
  /\ FencedBy(e)
  /\ answer # 0 => interaction[answer] \in {"CLAIMED", "APPLIED"}
  /\ NameRun
  /\ interaction' = [c \in ToolCalls |-> IF c = answer THEN "APPLIED"
                                         ELSE interaction[c]]
  /\ UNCHANGED <<runVars, tool, approval, sessionActive, fence>>

(* markRecoveryRequiredIfFence: SUSPENDED, by the fence's holder only.     *)
TxSuspend(e) ==
  /\ fence = e
  /\ sessionActive' = FALSE
  /\ UNCHANGED <<runVars, askVars, lastRun, fence>>

-----------------------------------------------------------------------------
Init ==
  /\ status \in {"ACCEPTED", "QUEUED"}
  /\ intent = FALSE
  /\ notices = 0
  /\ tool = [c \in ToolCalls |-> NoRow]
  /\ approval = [c \in ToolCalls |-> NoRow]
  /\ interaction = [c \in ToolCalls |-> NoRow]
  /\ lastRun = FALSE
  /\ sessionActive = TRUE
  /\ fence = None

(* A plain transition.  Leaving a parked status is the business of the     *)
(* resume and parked-cancel transactions, and SUCCEEDED is only written    *)
(* after a checkpoint that names the Run.                                  *)
Move(to) ==
  /\ CanTransition(status, to)
  /\ status \notin {"WAITING_APPROVAL", "WAITING_INPUT"}
  /\ to = "SUCCEEDED" => lastRun
  /\ TxTransition(status, to)

RunNext ==
  \/ \E to \in RunStatuses : Move(to)
  \/ TxIntent
  \/ TxCancelRun
  \/ TxReconcileCancel
  \/ TxResumeApproval
  \/ \E c \in ToolCalls : TxResumeInput(c)

UserNext ==
  \E c \in ToolCalls :
    \/ \E d \in {"APPROVED", "REJECTED"} : TxDecide(c, d)
    \/ TxRespond(c)

ExecutorNext ==
  \E e \in Executors :
    \/ TxAcquireFence(e)
    \/ TxSuspend(e)
    \/ TxCheckpoint(e, 0)
    \/ \E c \in ToolCalls :
         \/ TxRequestApproval(e, c)
         \/ TxRequestInteraction(e, c)
         \/ TxStart(e, c)
         \/ TxCheckpoint(e, c)
         \/ \E s \in ToolStatuses : TxPropose(e, c, s) \/ TxEnd(e, c, s)

Next == RunNext \/ UserNext \/ ExecutorNext

Spec == Init /\ [][Next]_ledgerVars

-----------------------------------------------------------------------------
(* Properties.                                                             *)

(* Every open question can still be answered: a PENDING approval finds its *)
(* Run in WAITING_APPROVAL and its tool row waiting, a PENDING interaction *)
(* its Run in WAITING_INPUT and its tool row running, which is what decide *)
(* and respond demand.  In particular no finished Run has an open question *)
(* ("A terminal Run with a PENDING approval against it is unresolvable",   *)
(* dsh-run-executor.ts).                                                   *)
AskIsAnswerable ==
  \A c \in ToolCalls :
    /\ approval[c] = "PENDING" => /\ status = "WAITING_APPROVAL"
                                  /\ tool[c] = "WAITING_APPROVAL"
    /\ interaction[c] = "PENDING" => /\ status = "WAITING_INPUT"
                                     /\ tool[c] = "RUNNING"

(* One question at a time, over both tables; a second PENDING interaction  *)
(* would make the parked cancel refuse the Run for ever.                   *)
OneQuestion ==
  \A c, d \in ToolCalls :
    /\ approval[c] = "PENDING" /\ approval[d] = "PENDING" => c = d
    /\ interaction[c] = "PENDING" /\ interaction[d] = "PENDING" => c = d

(* The end of a Run is announced exactly once: every way into a terminal   *)
(* status (outcome, recovery, cancel, parked cancel) writes one row, and   *)
(* the CAS keeps a second writer out (run-transition.ts).                  *)
OneTerminalNotice == notices = IF Terminal THEN 1 ELSE 0

(* A call the user did not approve never ran: rejection, cancellation and  *)
(* an undecided approval all keep the tool row out of RUNNING and of every *)
(* outcome a dispatched tool can have.                                     *)
ApprovalGatesTool ==
  \A c \in ToolCalls :
    approval[c] \in {"PENDING", "REJECTED", "CANCELLED"} =>
      tool[c] \in {"WAITING_APPROVAL", "FAILED", "CANCELLED"}

(* A Run is only SUCCEEDED over a session checkpoint that names it, also   *)
(* on the recovery paths that infer success from an APPLIED continuation.  *)
SuccessIsCheckpointed ==
  /\ status = "SUCCEEDED" => lastRun
  /\ (\E c \in ToolCalls : interaction[c] = "APPLIED") => lastRun

(* A dispatched tool may have had effects, so closing a Run records it as  *)
(* UNKNOWN and never as CANCELLED ("every other in-flight outcome is       *)
(* unknown", parallel-tool-park.ts; run-open-tools-close.ts); a parked     *)
(* ask_user call has none.                                                 *)
DispatchedIsNeverCancelled ==
  [][\A c \in ToolCalls :
       (tool[c] = "RUNNING" /\ interaction[c] = NoRow) =>
         tool'[c] # "CANCELLED"]_ledgerVars

(* The promise's view of the ledger: the result, the questions that wait   *)
(* for the user and those ever asked.                                      *)
Result == IF Terminal THEN status ELSE "OPEN"

OpenQuestions == ({"approval"} \X PendingApprovals)
                   \cup ({"input"} \X PendingInteractions)

AskedQuestions ==
  ({"approval"} \X {c \in ToolCalls : approval[c] # NoRow})
    \cup ({"input"} \X {c \in ToolCalls : interaction[c] # NoRow})

Promise == INSTANCE RunPromise WITH
  result <- Result, open <- OpenQuestions, asked <- AskedQuestions,
  notified <- notices

(* The ledger keeps the platform's promise to the owner of the Run.        *)
KeepsPromise == Promise!Spec
==============================================================================
