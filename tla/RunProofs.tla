------------------------------ MODULE RunProofs ------------------------------
(***************************************************************************)
(* Proofs about a Run and its events.                                      *)
(*                                                                         *)
(* About RunLedger, for every finite set of tool calls and every set of    *)
(* executors: the safety invariants the runs check, and the refinement of  *)
(* RunPromise.                                                             *)
(*                                                                         *)
(* About RunLifecycle, for every number of workers, scanners, tool calls   *)
(* and faults:                                                             *)
(*                                                                         *)
(*   - the processes of RunLifecycle implement RunLedger;                  *)
(*   - OneRuntime, what the two Redis tokens guarantee, rests on LeaseHeld *)
(*     or LockHeld: each is kept by every step but the early expiry of its *)
(*     own token.                                                          *)
(*                                                                         *)
(* About Outbox, which carries its events, for any number of events,       *)
(* publishers, claims and crashes: types, what a PUBLISHED row means, at   *)
(* most one append per claim, and the refinement of EventStream.           *)
(***************************************************************************)
EXTENDS RunLifecycle, Outbox, FiniteSetTheorems, TLAPS

(* The inductive invariant.  The conjuncts need each other: a Run may only *)
(* leave a parked status without an open question (AskIsAnswerable) and a  *)
(* parked cancel closes the one question there is (OneQuestion); a gated   *)
(* tool row stays undispatched because a PENDING approval pins it.         *)
LedgerInv ==
  /\ LedgerTypeOK
  /\ AskIsAnswerable
  /\ OneQuestion
  /\ OneTerminalNotice
  /\ ApprovalGatesTool
  /\ SuccessIsCheckpointed

-----------------------------------------------------------------------------
(* What the proofs need to know of the transition table of run-status.ts:  *)
(* nothing leaves a terminal status, and a cancel passes through           *)
(* CANCELLING from QUEUED and RUNNING alone.                               *)
LEMMA TransitionTable ==
  ASSUME NEW s \in RunStatuses, NEW t, CanTransition(s, t)
  PROVE  /\ t \in RunStatuses
         /\ s \notin TerminalStatuses
         /\ t = "CANCELLING" => s \in {"QUEUED", "RUNNING"}
  BY DEF CanTransition, RunTransitions, RunStatuses, TerminalStatuses

(* closeOpenToolExecutionsInTxn writes rows of the vocabulary, keeps a     *)
(* gated row gated, and touches no row that is neither open nor waiting.   *)
LEMMA CloseOpenToolsRows ==
  ASSUME NEW rows \in [ToolCalls -> ToolStatuses]
  PROVE  /\ CloseOpenTools(rows) \in [ToolCalls -> ToolStatuses]
         /\ \A c \in ToolCalls :
              rows[c] \in {"WAITING_APPROVAL", "FAILED", "CANCELLED"} =>
                CloseOpenTools(rows)[c] \in {"FAILED", "CANCELLED"}
  BY DEF CloseOpenTools, ToolStatuses, NoRow

(* The rows after a status change, and the notice it writes.               *)
LEMMA EnterStatusEffect ==
  ASSUME LedgerTypeOK, ~Terminal, notices = 0,
         NEW to \in RunStatuses,
         NEW rows \in [ToolCalls -> ToolStatuses],
         EnterStatus(to, rows)
  PROVE  /\ status' = to
         /\ tool' \in [ToolCalls -> ToolStatuses]
         /\ notices' = IF Terminal' THEN 1 ELSE 0
         /\ to # "CANCELLED" => tool' = rows
         /\ \A c \in ToolCalls :
              rows[c] \in {"WAITING_APPROVAL", "FAILED", "CANCELLED"} =>
                tool'[c] \in {"WAITING_APPROVAL", "FAILED", "CANCELLED"}
  BY CloseOpenToolsRows DEF EnterStatus, Announces, Terminal, LedgerTypeOK

-----------------------------------------------------------------------------
(* A status change that decides no question preserves the invariant when   *)
(* no question is open: the shape of every transition but the parked       *)
(* cancels, the requests and the answers.                                  *)
LEMMA EnterStatusPreserves ==
  ASSUME LedgerInv, ~Terminal,
         status \notin {"WAITING_APPROVAL", "WAITING_INPUT"},
         NEW to \in RunStatuses,
         to = "SUCCEEDED" => lastRun,
         EnterStatus(to, tool),
         intent' \in BOOLEAN,
         UNCHANGED <<approval, interaction, sessionVars>>
  PROVE  LedgerInv'
  <1>1. /\ notices = 0
        /\ tool \in [ToolCalls -> ToolStatuses]
    BY DEF LedgerInv, OneTerminalNotice, LedgerTypeOK
  <1>2. /\ status' = to
        /\ tool' \in [ToolCalls -> ToolStatuses]
        /\ notices' = IF Terminal' THEN 1 ELSE 0
        /\ \A c \in ToolCalls :
             tool[c] \in {"WAITING_APPROVAL", "FAILED", "CANCELLED"} =>
               tool'[c] \in {"WAITING_APPROVAL", "FAILED", "CANCELLED"}
    BY <1>1, EnterStatusEffect DEF LedgerInv
  <1>3. \A c \in ToolCalls : approval[c] # "PENDING" /\ interaction[c] # "PENDING"
    BY DEF LedgerInv, AskIsAnswerable
  <1>4. LedgerTypeOK'
    BY <1>2 DEF LedgerInv, LedgerTypeOK, sessionVars
  <1>5. AskIsAnswerable' /\ OneQuestion'
    BY <1>3 DEF AskIsAnswerable, OneQuestion
  <1>6. OneTerminalNotice'
    BY <1>2 DEF OneTerminalNotice
  <1>7. ApprovalGatesTool'
    BY <1>2 DEF LedgerInv, ApprovalGatesTool
  <1>8. SuccessIsCheckpointed'
    BY <1>2 DEF LedgerInv, SuccessIsCheckpointed, sessionVars
  <1> QED
    BY <1>4, <1>5, <1>6, <1>7, <1>8 DEF LedgerInv

-----------------------------------------------------------------------------
(* One lemma per transaction that is not such a status change.             *)

LEMMA IntentPreserves ==
  ASSUME LedgerInv, TxIntent
  PROVE  LedgerInv'
  <1> USE DEF TxIntent, askVars, sessionVars
  <1>1. LedgerTypeOK'
    BY DEF LedgerInv, LedgerTypeOK
  <1>2. AskIsAnswerable' /\ OneQuestion' /\ ApprovalGatesTool'
    BY DEF LedgerInv, AskIsAnswerable, OneQuestion, ApprovalGatesTool
  <1>3. OneTerminalNotice' /\ SuccessIsCheckpointed'
    BY DEF LedgerInv, OneTerminalNotice, SuccessIsCheckpointed, Terminal
  <1> QED
    BY <1>1, <1>2, <1>3 DEF LedgerInv

(* The parked cancel of an approval: every PENDING row is decided, and its *)
(* tool row, which AskIsAnswerable says is waiting, is closed.             *)
LEMMA CancelParkedApprovalPreserves ==
  ASSUME LedgerInv, TxCancelParkedApproval
  PROVE  LedgerInv'
  <1> DEFINE rows == [c \in ToolCalls |->
                        IF tool[c] \in {"PROPOSED", "WAITING_APPROVAL", "RUNNING"}
                        THEN "CANCELLED" ELSE tool[c]]
  <1>1. /\ LedgerTypeOK
        /\ status = "WAITING_APPROVAL"
        /\ ~Terminal
        /\ notices = 0
    BY DEF LedgerInv, TxCancelParkedApproval, Terminal, TerminalStatuses,
           OneTerminalNotice
  <1>2. rows \in [ToolCalls -> ToolStatuses]
    BY <1>1 DEF LedgerTypeOK, ToolStatuses
  <1>3. EnterStatus("CANCELLED", rows)
    BY DEF TxCancelParkedApproval
  <1> HIDE DEF rows
  <1>4. /\ status' = "CANCELLED"
        /\ tool' \in [ToolCalls -> ToolStatuses]
        /\ notices' = IF Terminal' THEN 1 ELSE 0
        /\ \A c \in ToolCalls :
             rows[c] \in {"WAITING_APPROVAL", "FAILED", "CANCELLED"} =>
               tool'[c] \in {"WAITING_APPROVAL", "FAILED", "CANCELLED"}
    BY <1>1, <1>2, <1>3, EnterStatusEffect DEF RunStatuses
  <1>5. approval' \in [ToolCalls -> ApprovalStatuses]
    BY <1>1 DEF TxCancelParkedApproval, CancelPendingApprovals, LedgerTypeOK,
                ApprovalStatuses
  <1>6. \A c \in ToolCalls : approval'[c] # "PENDING" /\ interaction'[c] # "PENDING"
    BY <1>1 DEF LedgerInv, AskIsAnswerable, TxCancelParkedApproval,
                CancelPendingApprovals
  <1>7. LedgerTypeOK'
    BY <1>1, <1>4, <1>5 DEF LedgerTypeOK, TxCancelParkedApproval, sessionVars,
                            RunStatuses, TerminalStatuses
  <1>8. AskIsAnswerable' /\ OneQuestion'
    BY <1>6 DEF AskIsAnswerable, OneQuestion
  <1>9. OneTerminalNotice'
    BY <1>4 DEF OneTerminalNotice
  <1>10. ApprovalGatesTool'
    <2>1. \A c \in ToolCalls :
            approval'[c] \in {"PENDING", "REJECTED", "CANCELLED"} =>
              rows[c] \in {"WAITING_APPROVAL", "FAILED", "CANCELLED"}
      BY DEF LedgerInv, ApprovalGatesTool, TxCancelParkedApproval,
             CancelPendingApprovals, rows
    <2> QED
      BY <2>1, <1>4 DEF ApprovalGatesTool
  <1>11. SuccessIsCheckpointed'
    BY <1>4 DEF LedgerInv, SuccessIsCheckpointed, TxCancelParkedApproval, sessionVars
  <1> QED
    BY <1>7, <1>8, <1>9, <1>10, <1>11 DEF LedgerInv

(* The parked cancel of an interaction: there is at most one PENDING row   *)
(* (OneQuestion), so the one it closes is the only open question.          *)
LEMMA CancelParkedInputPreserves ==
  ASSUME LedgerInv, TxCancelParkedInput
  PROVE  LedgerInv'
  <1>1. /\ LedgerTypeOK
        /\ status = "WAITING_INPUT"
        /\ ~Terminal
        /\ notices = 0
    BY DEF LedgerInv, TxCancelParkedInput, Terminal, TerminalStatuses,
           OneTerminalNotice
  <1>2. PICK c \in ToolCalls :
          /\ ParkedInteraction(c)
          /\ interaction' = [interaction EXCEPT
                               ![c] = IF @ = "PENDING" THEN "CANCELLED" ELSE @]
          /\ EnterStatus("CANCELLED",
               [tool EXCEPT
                  ![c] = IF @ \in {"PROPOSED", "WAITING_APPROVAL", "RUNNING"}
                         THEN "CANCELLED" ELSE @])
    BY DEF TxCancelParkedInput
  <1> DEFINE rows == [tool EXCEPT
                        ![c] = IF @ \in {"PROPOSED", "WAITING_APPROVAL", "RUNNING"}
                               THEN "CANCELLED" ELSE @]
  <1>3. rows \in [ToolCalls -> ToolStatuses]
    BY <1>1 DEF LedgerTypeOK, ToolStatuses
  <1>4. EnterStatus("CANCELLED", rows)
    BY <1>2
  <1> HIDE DEF rows
  <1>5. /\ status' = "CANCELLED"
        /\ tool' \in [ToolCalls -> ToolStatuses]
        /\ notices' = IF Terminal' THEN 1 ELSE 0
        /\ \A d \in ToolCalls :
             rows[d] \in {"WAITING_APPROVAL", "FAILED", "CANCELLED"} =>
               tool'[d] \in {"WAITING_APPROVAL", "FAILED", "CANCELLED"}
    BY <1>1, <1>3, <1>4, EnterStatusEffect DEF RunStatuses
  <1>6. /\ UNCHANGED <<approval, lastRun, sessionActive, fence>>
        /\ intent' = TRUE
    BY DEF TxCancelParkedInput, sessionVars
  <1>7. interaction' \in [ToolCalls -> InteractionStatuses]
    BY <1>1, <1>2 DEF LedgerTypeOK, InteractionStatuses
  <1>8. \A d \in ToolCalls : approval'[d] # "PENDING" /\ interaction'[d] # "PENDING"
    <2>1. \A d \in ToolCalls : interaction[d] = "PENDING" => d = c
      <3>1. CASE PendingInteractions # {}
        <4>1. interaction[c] = "PENDING"
          BY <1>2, <3>1 DEF ParkedInteraction, PendingInteractions
        <4> QED
          BY <4>1 DEF LedgerInv, OneQuestion
      <3>2. CASE PendingInteractions = {}
        BY <3>2 DEF PendingInteractions
      <3> QED
        BY <3>1, <3>2
    <2>2. \A d \in ToolCalls : interaction'[d] # "PENDING"
      BY <2>1, <1>1, <1>2 DEF LedgerTypeOK
    <2>3. \A d \in ToolCalls : approval[d] # "PENDING"
      BY <1>1 DEF LedgerInv, AskIsAnswerable
    <2> QED
      BY <2>2, <2>3, <1>6
  <1>9. LedgerTypeOK'
    BY <1>1, <1>5, <1>6, <1>7 DEF LedgerTypeOK, RunStatuses, TerminalStatuses
  <1>10. AskIsAnswerable' /\ OneQuestion'
    BY <1>8 DEF AskIsAnswerable, OneQuestion
  <1>11. OneTerminalNotice'
    BY <1>5 DEF OneTerminalNotice
  <1>12. ApprovalGatesTool'
    <2>1. \A d \in ToolCalls :
            tool[d] \in {"WAITING_APPROVAL", "FAILED", "CANCELLED"} =>
              rows[d] \in {"WAITING_APPROVAL", "FAILED", "CANCELLED"}
      BY <1>1 DEF rows, LedgerTypeOK
    <2> QED
      BY <2>1, <1>5, <1>6 DEF LedgerInv, ApprovalGatesTool
  <1>13. SuccessIsCheckpointed'
    BY <1>1, <1>2, <1>5, <1>6 DEF LedgerInv, LedgerTypeOK, SuccessIsCheckpointed
  <1> QED
    BY <1>9, <1>10, <1>11, <1>12, <1>13 DEF LedgerInv

(* A RUNNING Run has no open question, so the one it asks is the only one.  *)
LEMMA RequestApprovalPreserves ==
  ASSUME LedgerInv, NEW e \in Executors, NEW c \in ToolCalls, TxRequestApproval(e, c)
  PROVE  LedgerInv'
  <1> USE DEF TxRequestApproval, ApprovalAskable, sessionVars
  <1>1. LedgerTypeOK'
    BY DEF LedgerInv, LedgerTypeOK, RunStatuses, ToolStatuses, ApprovalStatuses,
           InteractionStatuses, ResolvedPhases, NoRow
  <1>2. AskIsAnswerable'
    BY DEF LedgerInv, LedgerTypeOK, AskIsAnswerable, NoRow
  <1>3. OneQuestion'
    BY DEF LedgerInv, LedgerTypeOK, AskIsAnswerable, OneQuestion
  <1>4. OneTerminalNotice'
    BY DEF LedgerInv, OneTerminalNotice, Terminal, TerminalStatuses
  <1>5. ApprovalGatesTool'
    BY DEF LedgerInv, LedgerTypeOK, AskIsAnswerable, ApprovalGatesTool, NoRow
  <1>6. SuccessIsCheckpointed'
    BY DEF LedgerInv, LedgerTypeOK, SuccessIsCheckpointed
  <1> QED
    BY <1>1, <1>2, <1>3, <1>4, <1>5, <1>6 DEF LedgerInv

(* The same for ask_user; a gated call cannot be the one that asks.         *)
LEMMA RequestInteractionPreserves ==
  ASSUME LedgerInv, NEW e \in Executors, NEW c \in ToolCalls, TxRequestInteraction(e, c)
  PROVE  LedgerInv'
  <1> USE DEF TxRequestInteraction, sessionVars
  <1>1. LedgerTypeOK'
    BY DEF LedgerInv, LedgerTypeOK, RunStatuses, ToolStatuses, ApprovalStatuses,
           InteractionStatuses, ResolvedPhases, NoRow
  <1>2. AskIsAnswerable'
    BY DEF LedgerInv, LedgerTypeOK, AskIsAnswerable, NoRow
  <1>3. OneQuestion'
    BY DEF LedgerInv, LedgerTypeOK, AskIsAnswerable, OneQuestion
  <1>4. OneTerminalNotice'
    BY DEF LedgerInv, OneTerminalNotice, Terminal, TerminalStatuses
  <1>5. ApprovalGatesTool'
    BY DEF LedgerInv, LedgerTypeOK, AskIsAnswerable, ApprovalGatesTool, NoRow
  <1>6. SuccessIsCheckpointed'
    BY DEF LedgerInv, LedgerTypeOK, SuccessIsCheckpointed
  <1> QED
    BY <1>1, <1>2, <1>3, <1>4, <1>5, <1>6 DEF LedgerInv

(* A decision leaves the tool row waiting (approve) or FAILED (reject).     *)
LEMMA DecidePreserves ==
  ASSUME LedgerInv, NEW c \in ToolCalls, NEW d \in {"APPROVED", "REJECTED"},
         TxDecide(c, d)
  PROVE  LedgerInv'
  <1> USE DEF TxDecide, runVars, sessionVars
  <1>1. LedgerTypeOK'
    BY DEF LedgerInv, LedgerTypeOK, RunStatuses, ToolStatuses, ApprovalStatuses,
           InteractionStatuses, ResolvedPhases, NoRow
  <1>2. AskIsAnswerable'
    BY DEF LedgerInv, LedgerTypeOK, AskIsAnswerable, NoRow
  <1>3. OneQuestion'
    BY DEF LedgerInv, LedgerTypeOK, AskIsAnswerable, OneQuestion
  <1>4. OneTerminalNotice'
    BY DEF LedgerInv, OneTerminalNotice, Terminal, TerminalStatuses
  <1>5. ApprovalGatesTool'
    BY DEF LedgerInv, LedgerTypeOK, AskIsAnswerable, ApprovalGatesTool, NoRow
  <1>6. SuccessIsCheckpointed'
    BY DEF LedgerInv, LedgerTypeOK, SuccessIsCheckpointed
  <1> QED
    BY <1>1, <1>2, <1>3, <1>4, <1>5, <1>6 DEF LedgerInv

(* An answer closes its question and completes the ask_user row.            *)
LEMMA RespondPreserves ==
  ASSUME LedgerInv, NEW c \in ToolCalls, TxRespond(c)
  PROVE  LedgerInv'
  <1> USE DEF TxRespond, runVars, sessionVars
  <1>1. LedgerTypeOK'
    BY DEF LedgerInv, LedgerTypeOK, RunStatuses, ToolStatuses, ApprovalStatuses,
           InteractionStatuses, ResolvedPhases, NoRow
  <1>2. AskIsAnswerable'
    BY DEF LedgerInv, LedgerTypeOK, AskIsAnswerable, NoRow
  <1>3. OneQuestion'
    BY DEF LedgerInv, LedgerTypeOK, AskIsAnswerable, OneQuestion
  <1>4. OneTerminalNotice'
    BY DEF LedgerInv, OneTerminalNotice, Terminal, TerminalStatuses
  <1>5. ApprovalGatesTool'
    BY DEF LedgerInv, LedgerTypeOK, AskIsAnswerable, ApprovalGatesTool, NoRow
  <1>6. SuccessIsCheckpointed'
    BY DEF LedgerInv, LedgerTypeOK, SuccessIsCheckpointed
  <1> QED
    BY <1>1, <1>2, <1>3, <1>4, <1>5, <1>6 DEF LedgerInv

(* A resume runs only when no interaction is PENDING.                       *)
LEMMA ResumeInputPreserves ==
  ASSUME LedgerInv, NEW c \in ToolCalls, TxResumeInput(c)
  PROVE  LedgerInv'
  <1> USE DEF TxResumeInput, InputResumable, PendingInteractions, sessionVars
  <1>1. LedgerTypeOK'
    BY DEF LedgerInv, LedgerTypeOK, RunStatuses, ToolStatuses, ApprovalStatuses,
           InteractionStatuses, ResolvedPhases, NoRow
  <1>2. AskIsAnswerable'
    BY DEF LedgerInv, LedgerTypeOK, AskIsAnswerable, NoRow
  <1>3. OneQuestion'
    BY DEF LedgerInv, LedgerTypeOK, AskIsAnswerable, OneQuestion
  <1>4. OneTerminalNotice'
    BY DEF LedgerInv, OneTerminalNotice, Terminal, TerminalStatuses
  <1>5. ApprovalGatesTool'
    BY DEF LedgerInv, LedgerTypeOK, AskIsAnswerable, ApprovalGatesTool, NoRow
  <1>6. SuccessIsCheckpointed'
    BY DEF LedgerInv, LedgerTypeOK, SuccessIsCheckpointed
  <1> QED
    BY <1>1, <1>2, <1>3, <1>4, <1>5, <1>6 DEF LedgerInv

(* A proposal writes a row nobody has asked about yet.                      *)
LEMMA ProposePreserves ==
  ASSUME LedgerInv, NEW e \in Executors, NEW c \in ToolCalls, NEW s,
         TxPropose(e, c, s)
  PROVE  LedgerInv'
  <1> USE DEF TxPropose, runVars, sessionVars
  <1>1. LedgerTypeOK'
    BY DEF LedgerInv, LedgerTypeOK, RunStatuses, ToolStatuses, ApprovalStatuses,
           InteractionStatuses, ResolvedPhases, NoRow
  <1>2. AskIsAnswerable'
    BY DEF LedgerInv, LedgerTypeOK, AskIsAnswerable, NoRow
  <1>3. OneQuestion'
    BY DEF LedgerInv, LedgerTypeOK, AskIsAnswerable, OneQuestion
  <1>4. OneTerminalNotice'
    BY DEF LedgerInv, OneTerminalNotice, Terminal, TerminalStatuses
  <1>5. ApprovalGatesTool'
    BY DEF LedgerInv, LedgerTypeOK, AskIsAnswerable, ApprovalGatesTool, NoRow
  <1>6. SuccessIsCheckpointed'
    BY DEF LedgerInv, LedgerTypeOK, SuccessIsCheckpointed
  <1> QED
    BY <1>1, <1>2, <1>3, <1>4, <1>5, <1>6 DEF LedgerInv

(* A dispatch needs an ungated row or an APPROVED one.                      *)
LEMMA StartPreserves ==
  ASSUME LedgerInv, NEW e \in Executors, NEW c \in ToolCalls, TxStart(e, c)
  PROVE  LedgerInv'
  <1> USE DEF TxStart, Dispatchable, runVars, sessionVars
  <1>1. LedgerTypeOK'
    BY DEF LedgerInv, LedgerTypeOK, RunStatuses, ToolStatuses, ApprovalStatuses,
           InteractionStatuses, ResolvedPhases, NoRow
  <1>2. AskIsAnswerable'
    BY DEF LedgerInv, LedgerTypeOK, AskIsAnswerable, NoRow
  <1>3. OneQuestion'
    BY DEF LedgerInv, LedgerTypeOK, AskIsAnswerable, OneQuestion
  <1>4. OneTerminalNotice'
    BY DEF LedgerInv, OneTerminalNotice, Terminal, TerminalStatuses
  <1>5. ApprovalGatesTool'
    BY DEF LedgerInv, LedgerTypeOK, AskIsAnswerable, ApprovalGatesTool, NoRow
  <1>6. SuccessIsCheckpointed'
    BY DEF LedgerInv, LedgerTypeOK, SuccessIsCheckpointed
  <1> QED
    BY <1>1, <1>2, <1>3, <1>4, <1>5, <1>6 DEF LedgerInv

(* An ended row is neither a parked ask_user call nor a gated one.          *)
LEMMA EndPreserves ==
  ASSUME LedgerInv, NEW e \in Executors, NEW c \in ToolCalls, NEW s,
         TxEnd(e, c, s)
  PROVE  LedgerInv'
  <1> USE DEF TxEnd, runVars, sessionVars
  <1>1. LedgerTypeOK'
    BY DEF LedgerInv, LedgerTypeOK, RunStatuses, ToolStatuses, ApprovalStatuses,
           InteractionStatuses, ResolvedPhases, NoRow
  <1>2. AskIsAnswerable'
    BY DEF LedgerInv, LedgerTypeOK, AskIsAnswerable, NoRow
  <1>3. OneQuestion'
    BY DEF LedgerInv, LedgerTypeOK, AskIsAnswerable, OneQuestion
  <1>4. OneTerminalNotice'
    BY DEF LedgerInv, OneTerminalNotice, Terminal, TerminalStatuses
  <1>5. ApprovalGatesTool'
    BY DEF LedgerInv, LedgerTypeOK, AskIsAnswerable, ApprovalGatesTool, NoRow
  <1>6. SuccessIsCheckpointed'
    BY DEF LedgerInv, LedgerTypeOK, SuccessIsCheckpointed
  <1> QED
    BY <1>1, <1>2, <1>3, <1>4, <1>5, <1>6 DEF LedgerInv

(* The session transactions touch no question.                              *)
LEMMA AcquireFencePreserves ==
  ASSUME LedgerInv, NEW e \in Executors, TxAcquireFence(e)
  PROVE  LedgerInv'
  <1> USE DEF TxAcquireFence, runVars, askVars
  <1>1. LedgerTypeOK'
    BY DEF LedgerInv, LedgerTypeOK
  <1>2. AskIsAnswerable' /\ OneQuestion' /\ ApprovalGatesTool'
    BY DEF LedgerInv, AskIsAnswerable, OneQuestion, ApprovalGatesTool
  <1>3. OneTerminalNotice' /\ SuccessIsCheckpointed'
    BY DEF LedgerInv, OneTerminalNotice, SuccessIsCheckpointed, Terminal
  <1> QED
    BY <1>1, <1>2, <1>3 DEF LedgerInv

(* A suspension by the holder of the fence.                                 *)
LEMMA SuspendPreserves ==
  ASSUME LedgerInv, NEW e \in Executors, TxSuspend(e)
  PROVE  LedgerInv'
  <1> USE DEF TxSuspend, runVars, askVars
  <1>1. LedgerTypeOK'
    BY DEF LedgerInv, LedgerTypeOK
  <1>2. AskIsAnswerable' /\ OneQuestion' /\ ApprovalGatesTool'
    BY DEF LedgerInv, AskIsAnswerable, OneQuestion, ApprovalGatesTool
  <1>3. OneTerminalNotice' /\ SuccessIsCheckpointed'
    BY DEF LedgerInv, OneTerminalNotice, SuccessIsCheckpointed, Terminal
  <1> QED
    BY <1>1, <1>2, <1>3 DEF LedgerInv

(* A checkpoint names the Run in the same write as it applies the answer.   *)
LEMMA CheckpointPreserves ==
  ASSUME LedgerInv, NEW e \in Executors, NEW a \in ToolCalls \cup {0},
         TxCheckpoint(e, a)
  PROVE  LedgerInv'
  <1> USE DEF TxCheckpoint, NameRun, FencedBy, runVars
  <1>1. LedgerTypeOK'
    BY DEF LedgerInv, LedgerTypeOK, RunStatuses, ToolStatuses, ApprovalStatuses,
           InteractionStatuses, ResolvedPhases, NoRow
  <1>2. AskIsAnswerable'
    BY DEF LedgerInv, LedgerTypeOK, AskIsAnswerable, NoRow
  <1>3. OneQuestion'
    BY DEF LedgerInv, LedgerTypeOK, AskIsAnswerable, OneQuestion
  <1>4. OneTerminalNotice'
    BY DEF LedgerInv, OneTerminalNotice, Terminal, TerminalStatuses
  <1>5. ApprovalGatesTool'
    BY DEF LedgerInv, LedgerTypeOK, AskIsAnswerable, ApprovalGatesTool, NoRow
  <1>6. SuccessIsCheckpointed'
    BY DEF LedgerInv, LedgerTypeOK, SuccessIsCheckpointed
  <1> QED
    BY <1>1, <1>2, <1>3, <1>4, <1>5, <1>6 DEF LedgerInv

-----------------------------------------------------------------------------
(* A resumed or reconciled Run, and a plain transition, are status changes *)
(* without an open question.                                               *)
LEMMA MovePreserves ==
  ASSUME LedgerInv, NEW to \in RunStatuses, Move(to)
  PROVE  LedgerInv'
  <1>1. /\ ~Terminal
        /\ status \notin {"WAITING_APPROVAL", "WAITING_INPUT"}
        /\ to = "SUCCEEDED" => lastRun
    BY TransitionTable DEF Move, LedgerInv, LedgerTypeOK, Terminal
  <1>2. /\ EnterStatus(to, tool)
        /\ intent' \in BOOLEAN
        /\ UNCHANGED <<approval, interaction, sessionVars>>
    BY DEF Move, TxTransition, LedgerInv, LedgerTypeOK
  <1> QED
    BY <1>1, <1>2, EnterStatusPreserves

LEMMA CancelRunPreserves ==
  ASSUME LedgerInv, TxCancelRun
  PROVE  LedgerInv'
  <1>1. CASE TxCancelParkedApproval
    BY <1>1, CancelParkedApprovalPreserves
  <1>2. CASE TxCancelParkedInput
    BY <1>2, CancelParkedInputPreserves
  <1>3. CASE /\ CanTransition(status, "CANCELLING")
             /\ EnterStatus("CANCELLING", tool)
             /\ intent' = TRUE
             /\ UNCHANGED <<approval, interaction, sessionVars>>
    <2>1. /\ ~Terminal
          /\ status \notin {"WAITING_APPROVAL", "WAITING_INPUT"}
      BY <1>3, TransitionTable DEF LedgerInv, LedgerTypeOK, Terminal
    <2>2. "CANCELLING" \in RunStatuses
      BY DEF RunStatuses
    <2> QED
      BY <1>3, <2>1, <2>2, EnterStatusPreserves
  <1>4. CASE TxIntent
    BY <1>4, IntentPreserves
  <1> QED
    BY <1>1, <1>2, <1>3, <1>4 DEF TxCancelRun

LEMMA ReconcileCancelPreserves ==
  ASSUME LedgerInv, TxReconcileCancel
  PROVE  LedgerInv'
  <1>1. /\ ~Terminal
        /\ status \notin {"WAITING_APPROVAL", "WAITING_INPUT"}
        /\ "CANCELLED" \in RunStatuses
    BY DEF TxReconcileCancel, Terminal, TerminalStatuses, RunStatuses
  <1> QED
    BY <1>1, EnterStatusPreserves
    DEF TxReconcileCancel, LedgerInv, LedgerTypeOK

LEMMA ResumeApprovalPreserves ==
  ASSUME LedgerInv, TxResumeApproval
  PROVE  LedgerInv'
  <1> USE DEF TxResumeApproval, TxTransition
  <1>1. /\ \A c \in ToolCalls : approval[c] # "PENDING"
        /\ \A c \in ToolCalls : interaction[c] # "PENDING"
    BY DEF ApprovalResumable, PendingApprovals, LedgerInv, AskIsAnswerable
  <1>2. status' = "RUNNING" /\ notices' = notices /\ tool' = tool
    BY DEF EnterStatus, Announces, TerminalStatuses
  <1>3. LedgerTypeOK'
    BY <1>2 DEF LedgerInv, LedgerTypeOK, RunStatuses, sessionVars
  <1>4. AskIsAnswerable' /\ OneQuestion'
    BY <1>1 DEF AskIsAnswerable, OneQuestion
  <1>5. OneTerminalNotice'
    BY <1>2 DEF LedgerInv, OneTerminalNotice, Terminal, TerminalStatuses
  <1>6. ApprovalGatesTool' /\ SuccessIsCheckpointed'
    BY <1>2 DEF LedgerInv, ApprovalGatesTool, SuccessIsCheckpointed, sessionVars
  <1> QED
    BY <1>3, <1>4, <1>5, <1>6 DEF LedgerInv

-----------------------------------------------------------------------------
LEMMA InitInv == Init => LedgerInv
  <1> SUFFICES ASSUME Init PROVE LedgerInv
    OBVIOUS
  <1> USE DEF Init, NoRow
  <1>1. LedgerTypeOK
    BY DEF LedgerTypeOK, RunStatuses, ToolStatuses, ApprovalStatuses,
           InteractionStatuses
  <1>2. AskIsAnswerable /\ OneQuestion /\ ApprovalGatesTool
    BY DEF AskIsAnswerable, OneQuestion, ApprovalGatesTool
  <1>3. OneTerminalNotice /\ SuccessIsCheckpointed
    BY DEF OneTerminalNotice, SuccessIsCheckpointed, Terminal, TerminalStatuses
  <1> QED
    BY <1>1, <1>2, <1>3 DEF LedgerInv

(* The inductive step: every transaction preserves the invariant.          *)
LEMMA StepInv == LedgerInv /\ [Next]_ledgerVars => LedgerInv'
  <1> SUFFICES ASSUME LedgerInv, [Next]_ledgerVars
               PROVE  LedgerInv'
    OBVIOUS
  <1>1. ASSUME NEW to \in RunStatuses, Move(to)
        PROVE  LedgerInv'
    BY <1>1, MovePreserves
  <1>2. CASE TxIntent
    BY <1>2, IntentPreserves
  <1>3. CASE TxCancelRun
    BY <1>3, CancelRunPreserves
  <1>4. CASE TxReconcileCancel
    BY <1>4, ReconcileCancelPreserves
  <1>5. CASE TxResumeApproval
    BY <1>5, ResumeApprovalPreserves
  <1>6. ASSUME NEW c \in ToolCalls, TxResumeInput(c)
        PROVE  LedgerInv'
    BY <1>6, ResumeInputPreserves
  <1>7. CASE UserNext
    BY <1>7, DecidePreserves, RespondPreserves DEF UserNext
  <1>8. ASSUME NEW e \in Executors,
               TxAcquireFence(e) \/ TxSuspend(e) \/ TxCheckpoint(e, 0)
        PROVE  LedgerInv'
    BY <1>8, AcquireFencePreserves, SuspendPreserves, CheckpointPreserves
  <1>9. ASSUME NEW e \in Executors, NEW c \in ToolCalls,
               \/ TxRequestApproval(e, c)
               \/ TxRequestInteraction(e, c)
               \/ TxStart(e, c)
               \/ TxCheckpoint(e, c)
               \/ \E s \in ToolStatuses : TxPropose(e, c, s) \/ TxEnd(e, c, s)
        PROVE  LedgerInv'
    BY <1>9, RequestApprovalPreserves, RequestInteractionPreserves,
       StartPreserves, CheckpointPreserves, ProposePreserves, EndPreserves
  <1>10. CASE UNCHANGED ledgerVars
    BY <1>10 DEF ledgerVars, LedgerInv, LedgerTypeOK, AskIsAnswerable,
       OneQuestion, OneTerminalNotice, ApprovalGatesTool,
       SuccessIsCheckpointed, Terminal
  <1> QED
    BY <1>1, <1>2, <1>3, <1>4, <1>5, <1>6, <1>7, <1>8, <1>9, <1>10
    DEF Next, RunNext, ExecutorNext

(* Every reachable state of the ledger satisfies the inductive invariant,  *)
(* whatever the clients of MySQL do and in whatever order they commit.     *)
THEOREM LedgerInvariant == Spec => []LedgerInv
  BY InitInv, StepInv, PTL DEF Spec

(* The ledger's rows keep their vocabularies.                              *)
THEOREM LedgerTypeCorrect == Spec => []LedgerTypeOK
  BY LedgerInvariant, PTL DEF LedgerInv

(* decide() and respond() find the state they demand for every open        *)
(* question, so no Run ends, or leaves its parked status, with a question  *)
(* the user can no longer answer.                                          *)
THEOREM OpenQuestionsAreAnswerable == Spec => []AskIsAnswerable
  BY LedgerInvariant, PTL DEF LedgerInv

(* A Run never asks two questions at once, so the parked cancel, which     *)
(* refuses a Run with two PENDING interactions, never refuses one.         *)
THEOREM OneQuestionAtATime == Spec => []OneQuestion
  BY LedgerInvariant, PTL DEF LedgerInv

(* Every way into a terminal status writes one run.terminal_notification   *)
(* row, and no Run ends twice.                                             *)
THEOREM NotifiedExactlyOnce == Spec => []OneTerminalNotice
  BY LedgerInvariant, PTL DEF LedgerInv

(* A call whose approval is undecided, rejected or cancelled was never     *)
(* dispatched by recordToolStarted.                                        *)
THEOREM ApprovalIsAGate == Spec => []ApprovalGatesTool
  BY LedgerInvariant, PTL DEF LedgerInv

(* SUCCEEDED, and an APPLIED continuation, imply the session checkpoint    *)
(* that names the Run.                                                     *)
THEOREM SuccessRestsOnCheckpoint == Spec => []SuccessIsCheckpointed
  BY LedgerInvariant, PTL DEF LedgerInv

-----------------------------------------------------------------------------
(* The refinement of RunPromise.                                           *)

(* Nothing waits for the user when no row is PENDING.                      *)
LEMMA NothingOpen ==
  ASSUME \A c \in ToolCalls : approval[c] # "PENDING" /\ interaction[c] # "PENDING"
  PROVE  OpenQuestions = {}
  BY DEF OpenQuestions, PendingApprovals, PendingInteractions

LEMMA OpenApproval ==
  ASSUME NEW c \in ToolCalls, approval[c] = "PENDING",
         \A d \in ToolCalls : /\ approval[d] = "PENDING" => d = c
                              /\ interaction[d] # "PENDING"
  PROVE  OpenQuestions = {<<"approval", c>>}
  <1>1. PendingApprovals = {c} /\ PendingInteractions = {}
    BY DEF PendingApprovals, PendingInteractions
  <1> QED
    BY <1>1 DEF OpenQuestions

LEMMA OpenInput ==
  ASSUME NEW c \in ToolCalls, interaction[c] = "PENDING",
         \A d \in ToolCalls : /\ interaction[d] = "PENDING" => d = c
                              /\ approval[d] # "PENDING"
  PROVE  OpenQuestions = {<<"input", c>>}
  <1>1. PendingInteractions = {c} /\ PendingApprovals = {}
    BY DEF PendingApprovals, PendingInteractions
  <1> QED
    BY <1>1 DEF OpenQuestions

(* A transaction that keeps the question tables and does not end the Run   *)
(* is invisible to the promise.                                            *)
LEMMA QuietStep ==
  ASSUME LedgerInv, LedgerInv',
         status' = status \/ (~Terminal /\ ~Terminal'),
         \A c \in ToolCalls : /\ approval'[c] = approval[c]
                              /\ interaction'[c] = "PENDING" <=> interaction[c] = "PENDING"
                              /\ interaction'[c] = NoRow <=> interaction[c] = NoRow
  PROVE  UNCHANGED <<Result, OpenQuestions, AskedQuestions, notices>>
  <1>1. UNCHANGED <<Result, notices>>
    BY DEF Result, LedgerInv, OneTerminalNotice, Terminal
  <1>2. UNCHANGED OpenQuestions
    BY DEF OpenQuestions, PendingApprovals, PendingInteractions
  <1>3. UNCHANGED AskedQuestions
    BY DEF AskedQuestions
  <1> QED
    BY <1>1, <1>2, <1>3

(* A transaction that ends the Run is the promise's Finish.                *)
LEMMA FinishStep ==
  ASSUME LedgerInv, LedgerInv', ~Terminal, Terminal',
         status' # "CANCELLED" => OpenQuestions = {},
         UNCHANGED AskedQuestions
  PROVE  Promise!Next
  <1>1. Result = "OPEN" /\ Result' = status' /\ status' \in TerminalStatuses
    BY DEF Result, Terminal
  <1>2. notices = 0 /\ notices' = 1
    BY DEF LedgerInv, OneTerminalNotice
  <1>3. OpenQuestions' = {}
    <2>1. \A c \in ToolCalls : approval'[c] # "PENDING" /\ interaction'[c] # "PENDING"
      BY DEF LedgerInv, AskIsAnswerable, Terminal, TerminalStatuses
    <2> QED
      BY <2>1 DEF OpenQuestions, PendingApprovals, PendingInteractions
  <1>4. Promise!Finish(status')
    BY <1>1, <1>2, <1>3 DEF Promise!Finish
  <1> QED
    BY <1>1, <1>4 DEF Promise!Next, Promise!TerminalStatuses, TerminalStatuses

(* The status changes without an open question: a stutter, or the end.     *)
LEMMA StatusStep ==
  ASSUME LedgerInv, LedgerInv', ~Terminal,
         status \notin {"WAITING_APPROVAL", "WAITING_INPUT"},
         UNCHANGED <<approval, interaction>>
  PROVE  [Promise!Next]_<<Result, OpenQuestions, AskedQuestions, notices>>
  <1>1. CASE Terminal'
    <2>1. OpenQuestions = {}
      BY NothingOpen DEF LedgerInv, AskIsAnswerable
    <2>2. UNCHANGED AskedQuestions
      BY DEF AskedQuestions
    <2> QED
      BY <1>1, <2>1, <2>2, FinishStep
  <1>2. CASE ~Terminal'
    BY <1>2, QuietStep
  <1> QED
    BY <1>1, <1>2

LEMMA RequestApprovalAsks ==
  ASSUME LedgerInv, LedgerInv', NEW e \in Executors, NEW c \in ToolCalls,
         TxRequestApproval(e, c)
  PROVE  Promise!Ask(<<"approval", c>>)
  <1> USE DEF TxRequestApproval, ApprovalAskable
  <1>1. \A d \in ToolCalls : approval[d] # "PENDING" /\ interaction[d] # "PENDING"
    BY DEF LedgerInv, AskIsAnswerable
  <1>2. OpenQuestions = {}
    BY <1>1, NothingOpen
  <1>3. PendingApprovals' = {c} /\ PendingInteractions' = {}
    BY <1>1 DEF PendingApprovals, PendingInteractions, LedgerInv, LedgerTypeOK
  <1>4. OpenQuestions' = {<<"approval", c>>}
    BY <1>3 DEF OpenQuestions
  <1>5. /\ <<"approval", c>> \notin AskedQuestions
        /\ AskedQuestions' = AskedQuestions \cup {<<"approval", c>>}
    <2>1. {d \in ToolCalls : approval'[d] # NoRow} =
            {d \in ToolCalls : approval[d] # NoRow} \cup {c}
      BY DEF NoRow, LedgerInv, LedgerTypeOK
    <2> QED
      BY <2>1 DEF AskedQuestions
  <1>6. Result = "OPEN" /\ UNCHANGED <<Result, notices>>
    BY DEF Result, Terminal, TerminalStatuses
  <1> QED
    BY <1>2, <1>4, <1>5, <1>6 DEF Promise!Ask

LEMMA RequestInteractionAsks ==
  ASSUME LedgerInv, LedgerInv', NEW e \in Executors, NEW c \in ToolCalls,
         TxRequestInteraction(e, c)
  PROVE  Promise!Ask(<<"input", c>>)
  <1> USE DEF TxRequestInteraction
  <1>1. \A d \in ToolCalls : approval[d] # "PENDING" /\ interaction[d] # "PENDING"
    BY DEF LedgerInv, AskIsAnswerable
  <1>2. OpenQuestions = {}
    BY <1>1, NothingOpen
  <1>3. PendingInteractions' = {c} /\ PendingApprovals' = {}
    BY <1>1 DEF PendingApprovals, PendingInteractions, LedgerInv, LedgerTypeOK
  <1>4. OpenQuestions' = {<<"input", c>>}
    BY <1>3 DEF OpenQuestions
  <1>5. /\ <<"input", c>> \notin AskedQuestions
        /\ AskedQuestions' = AskedQuestions \cup {<<"input", c>>}
    <2>1. {d \in ToolCalls : interaction'[d] # NoRow} =
            {d \in ToolCalls : interaction[d] # NoRow} \cup {c}
      BY DEF NoRow, LedgerInv, LedgerTypeOK
    <2> QED
      BY <2>1 DEF AskedQuestions
  <1>6. Result = "OPEN" /\ UNCHANGED <<Result, notices>>
    BY DEF Result, Terminal, TerminalStatuses
  <1> QED
    BY <1>2, <1>4, <1>5, <1>6 DEF Promise!Ask

LEMMA DecideAnswers ==
  ASSUME LedgerInv, LedgerInv', NEW c \in ToolCalls,
         NEW d \in {"APPROVED", "REJECTED"}, TxDecide(c, d)
  PROVE  Promise!Answer(<<"approval", c>>)
  <1> USE DEF TxDecide, runVars
  <1>1. \A x \in ToolCalls : /\ approval[x] = "PENDING" => x = c
                             /\ interaction[x] # "PENDING"
    BY DEF LedgerInv, AskIsAnswerable, OneQuestion
  <1>2. OpenQuestions = {<<"approval", c>>}
    BY <1>1, OpenApproval
  <1>3. PendingApprovals' = {} /\ PendingInteractions' = {}
    BY <1>1 DEF PendingApprovals, PendingInteractions, LedgerInv, LedgerTypeOK
  <1>4. OpenQuestions' = {}
    BY <1>3 DEF OpenQuestions
  <1>5. UNCHANGED AskedQuestions
    <2>1. {x \in ToolCalls : approval'[x] # NoRow} =
            {x \in ToolCalls : approval[x] # NoRow}
      BY DEF NoRow, LedgerInv, LedgerTypeOK
    <2> QED
      BY <2>1 DEF AskedQuestions
  <1>6. Result = "OPEN" /\ UNCHANGED <<Result, notices>>
    BY DEF Result, Terminal, TerminalStatuses
  <1> QED
    BY <1>2, <1>4, <1>5, <1>6 DEF Promise!Answer

LEMMA RespondAnswers ==
  ASSUME LedgerInv, LedgerInv', NEW c \in ToolCalls, TxRespond(c)
  PROVE  Promise!Answer(<<"input", c>>)
  <1> USE DEF TxRespond, runVars
  <1>1. \A x \in ToolCalls : /\ interaction[x] = "PENDING" => x = c
                             /\ approval[x] # "PENDING"
    BY DEF LedgerInv, AskIsAnswerable, OneQuestion
  <1>2. OpenQuestions = {<<"input", c>>}
    BY <1>1, OpenInput
  <1>3. PendingApprovals' = {} /\ PendingInteractions' = {}
    BY <1>1 DEF PendingApprovals, PendingInteractions, LedgerInv, LedgerTypeOK
  <1>4. OpenQuestions' = {}
    BY <1>3 DEF OpenQuestions
  <1>5. UNCHANGED AskedQuestions
    <2>1. {x \in ToolCalls : interaction'[x] # NoRow} =
            {x \in ToolCalls : interaction[x] # NoRow}
      BY DEF NoRow, LedgerInv, LedgerTypeOK
    <2> QED
      BY <2>1 DEF AskedQuestions
  <1>6. Result = "OPEN" /\ UNCHANGED <<Result, notices>>
    BY DEF Result, Terminal, TerminalStatuses
  <1> QED
    BY <1>2, <1>4, <1>5, <1>6 DEF Promise!Answer

(* The parked cancels close the question and end the Run in one step.      *)
LEMMA ParkedCancelFinishes ==
  ASSUME LedgerInv, LedgerInv', TxCancelParkedApproval \/ TxCancelParkedInput
  PROVE  Promise!Next
  <1>1. ~Terminal
    BY DEF TxCancelParkedApproval, TxCancelParkedInput, Terminal, TerminalStatuses
  <1>2. status' = "CANCELLED" /\ Terminal'
    BY DEF TxCancelParkedApproval, TxCancelParkedInput, EnterStatus, Terminal,
           TerminalStatuses
  <1>3. UNCHANGED AskedQuestions
    <2>1. \A c \in ToolCalls : approval'[c] = NoRow <=> approval[c] = NoRow
      BY DEF TxCancelParkedApproval, TxCancelParkedInput,
             CancelPendingApprovals, NoRow
    <2>2. \A c \in ToolCalls : interaction'[c] = NoRow <=> interaction[c] = NoRow
      BY DEF TxCancelParkedApproval, TxCancelParkedInput, NoRow, LedgerInv,
             LedgerTypeOK
    <2> QED
      BY <2>1, <2>2 DEF AskedQuestions
  <1> QED
    BY <1>1, <1>2, <1>3, FinishStep

(* Every transaction is a step of the promise or invisible to it.          *)
LEMMA PromiseStep ==
  ASSUME LedgerInv, LedgerInv', [Next]_ledgerVars
  PROVE  [Promise!Next]_Promise!promiseVars
  <1> SUFFICES [Promise!Next]_<<Result, OpenQuestions, AskedQuestions, notices>>
    BY DEF Promise!promiseVars
  <1>1. ASSUME NEW to \in RunStatuses, Move(to)
        PROVE  [Promise!Next]_<<Result, OpenQuestions, AskedQuestions, notices>>
    <2>1. /\ ~Terminal
          /\ status \notin {"WAITING_APPROVAL", "WAITING_INPUT"}
          /\ UNCHANGED <<approval, interaction>>
      BY <1>1, TransitionTable
      DEF Move, TxTransition, LedgerInv, LedgerTypeOK, Terminal
    <2> QED
      BY <2>1, StatusStep
  <1>2. CASE TxIntent
    BY <1>2, QuietStep DEF TxIntent, askVars
  <1>3. CASE TxCancelRun
    <2>1. CASE TxCancelParkedApproval \/ TxCancelParkedInput
      BY <2>1, ParkedCancelFinishes
    <2>2. CASE /\ CanTransition(status, "CANCELLING")
               /\ UNCHANGED <<approval, interaction, sessionVars>>
      BY <2>2, TransitionTable, StatusStep DEF LedgerInv, LedgerTypeOK, Terminal
    <2>3. CASE TxIntent
      BY <2>3, <1>2
    <2> QED
      BY <1>3, <2>1, <2>2, <2>3 DEF TxCancelRun
  <1>4. CASE TxReconcileCancel
    BY <1>4, StatusStep DEF TxReconcileCancel, Terminal, TerminalStatuses
  <1>5. CASE TxResumeApproval
    BY <1>5, QuietStep
    DEF TxResumeApproval, TxTransition, EnterStatus, Terminal, TerminalStatuses
  <1>6. ASSUME NEW c \in ToolCalls, TxResumeInput(c)
        PROVE  [Promise!Next]_<<Result, OpenQuestions, AskedQuestions, notices>>
    BY <1>6, QuietStep
    DEF TxResumeInput, InputResumable, NoRow, LedgerInv, LedgerTypeOK, Terminal,
        TerminalStatuses
  <1>7. CASE UserNext
    BY <1>7, DecideAnswers, RespondAnswers
    DEF UserNext, Promise!Next, Promise!Questions
  <1>8. ASSUME NEW e \in Executors, TxAcquireFence(e) \/ TxSuspend(e)
        PROVE  [Promise!Next]_<<Result, OpenQuestions, AskedQuestions, notices>>
    BY <1>8, QuietStep DEF TxAcquireFence, TxSuspend, runVars, askVars
  <1>9. ASSUME NEW e \in Executors, NEW a \in ToolCalls \cup {0},
               TxCheckpoint(e, a)
        PROVE  [Promise!Next]_<<Result, OpenQuestions, AskedQuestions, notices>>
    BY <1>9, LedgerAssumption, QuietStep DEF TxCheckpoint, runVars, NoRow
  <1>10. ASSUME NEW e \in Executors, NEW c \in ToolCalls, TxRequestApproval(e, c)
         PROVE  Promise!Next
    BY <1>10, RequestApprovalAsks DEF Promise!Next, Promise!Questions
  <1>11. ASSUME NEW e \in Executors, NEW c \in ToolCalls, TxRequestInteraction(e, c)
         PROVE  Promise!Next
    BY <1>11, RequestInteractionAsks DEF Promise!Next, Promise!Questions
  <1>12. ASSUME NEW e \in Executors, NEW c \in ToolCalls,
                \/ TxStart(e, c)
                \/ \E s \in ToolStatuses : TxPropose(e, c, s) \/ TxEnd(e, c, s)
         PROVE  [Promise!Next]_<<Result, OpenQuestions, AskedQuestions, notices>>
    BY <1>12, QuietStep DEF TxStart, TxPropose, TxEnd, runVars
  <1>13. CASE UNCHANGED ledgerVars
    BY <1>13, QuietStep DEF ledgerVars
  <1> QED
    BY <1>1, <1>2, <1>3, <1>4, <1>5, <1>6, <1>7, <1>8, <1>9, <1>10, <1>11, <1>12,
       <1>13 DEF Next, RunNext, ExecutorNext

LEMMA PromiseInit == Init => Promise!Init
  <1> SUFFICES ASSUME Init PROVE Promise!Init
    OBVIOUS
  <1>1. OpenQuestions = {}
    BY NothingOpen DEF Init, NoRow
  <1>2. AskedQuestions = {}
    BY DEF Init, AskedQuestions
  <1>3. Result = "OPEN" /\ notices = 0
    BY DEF Init, Result, Terminal, TerminalStatuses
  <1> QED
    BY <1>1, <1>2, <1>3 DEF Promise!Init

(* The transactions of the ledger keep the promise: one question at a time *)
(* and none twice, one end, announced once, and no question left open.     *)
THEOREM LedgerKeepsPromise == Spec => KeepsPromise
  <1>1. LedgerInv /\ LedgerInv' /\ [Next]_ledgerVars
          => [Promise!Next]_Promise!promiseVars
    BY PromiseStep
  <1> QED
    BY <1>1, PromiseInit, LedgerInvariant, PTL DEF Spec, KeepsPromise, Promise!Spec

-----------------------------------------------------------------------------
(* The processes.                                                          *)

(* The attempts that will write, or may infer, SUCCEEDED.                  *)
Claims(a) == \/ a.pc = "recovered"
             \/ a.pc \in {"settle", "apply"} /\ a.outcome = "SUCCEEDED"

(* Each of them has seen the checkpoint: last_run_id names the Run and is  *)
(* never taken back.                                                       *)
Vouched == \A w \in Workers : Claims(wk[w]) => lastRun

LifecycleInv == LifecycleTypeOK /\ LedgerInv /\ Vouched

-----------------------------------------------------------------------------
LEMMA NoAttemptType == NoAttempt \in Attempts
  BY DEF NoAttempt, Attempts, WorkerPcs, Outcomes, JobIds, RunStatuses

(* What an attempt keeps when it forgets.                                  *)
LEMMA ForgetKeeps ==
  ASSUME NEW a \in Attempts
  PROVE  /\ Forget(a) \in Attempts
         /\ Forget(a).pc = a.pc
         /\ Forget(a).job = a.job
         /\ Forget(a).view = a.view
         /\ a.pc \in {"settle", "apply"} => Forget(a).outcome = a.outcome
  <1> DEFINE carried == [NoAttempt EXCEPT !.pc = a.pc, !.job = a.job, !.view = a.view]
  <1>1. /\ carried \in Attempts
        /\ carried.pc = a.pc /\ carried.job = a.job /\ carried.view = a.view
    BY NoAttemptType DEF Attempts, NoAttempt
  <1>2. /\ [carried EXCEPT !.outcome = a.outcome] \in Attempts
        /\ [carried EXCEPT !.outcome = a.outcome].pc = a.pc
        /\ [carried EXCEPT !.outcome = a.outcome].job = a.job
        /\ [carried EXCEPT !.outcome = a.outcome].view = a.view
        /\ [carried EXCEPT !.outcome = a.outcome].outcome = a.outcome
    <2> HIDE DEF carried
    <2> QED
      BY <1>1 DEF Attempts
  <1>3. /\ [a EXCEPT !.answer = 0, !.mine = {}] \in Attempts
        /\ [a EXCEPT !.answer = 0, !.mine = {}].pc = a.pc
        /\ [a EXCEPT !.answer = 0, !.mine = {}].job = a.job
        /\ [a EXCEPT !.answer = 0, !.mine = {}].view = a.view
        /\ [a EXCEPT !.answer = 0, !.mine = {}].outcome = a.outcome
    BY DEF Attempts
  <1>4. \/ /\ Forget(a) = carried
           /\ a.pc \notin {"settle", "apply"}
        \/ Forget(a) = [carried EXCEPT !.outcome = a.outcome]
        \/ Forget(a) = [a EXCEPT !.answer = 0, !.mine = {}]
        \/ Forget(a) = a
    BY Zenon DEF Forget
  <1> HIDE DEF carried
  <1> QED
    BY <1>1, <1>2, <1>3, <1>4

LEMMA RecoverOneType ==
  ASSUME NEW s
  PROVE  RecoverOne(s) \in ScannerPcs
  BY Zenon DEF RecoverOne, ScannerPcs

-----------------------------------------------------------------------------
(* Every step of a process is a transaction of the ledger, or leaves the   *)
(* durable rows alone.                                                     *)

LEMMA TransitionEntries ==
  /\ CanTransition("ACCEPTED", "QUEUED")
  /\ CanTransition("RETRYING", "QUEUED")
  /\ CanTransition("QUEUED", "STARTING")
  /\ CanTransition("QUEUED", "CANCELLING")
  /\ CanTransition("STARTING", "RUNNING")
  /\ CanTransition("STARTING", "RETRYING")
  /\ CanTransition("RUNNING", "CANCELLING")
  /\ CanTransition("RUNNING", "RETRYING")
  /\ CanTransition("RUNNING", "SUCCEEDED")
  /\ CanTransition("CANCELLING", "CANCELLED")
  BY DEF CanTransition, RunTransitions

(* A plain transition the table allows, checkpointed if it is a success.   *)
LEMMA TransitionIsMove ==
  ASSUME LedgerTypeOK, NEW from, NEW to, CanTransition(from, to),
         from \notin {"WAITING_APPROVAL", "WAITING_INPUT"},
         to = "SUCCEEDED" => lastRun,
         TxTransition(from, to)
  PROVE  Next
  <1>1. status = from
    BY DEF TxTransition
  <1>2. to \in RunStatuses /\ Move(to)
    BY <1>1, TransitionTable DEF Move, LedgerTypeOK
  <1> QED
    BY <1>2 DEF Next, RunNext

LEMMA CasIsMove ==
  ASSUME LedgerTypeOK, NEW w, NEW from, NEW to, NEW pc,
         CanTransition(from, to),
         from \notin {"WAITING_APPROVAL", "WAITING_INPUT"},
         to = "SUCCEEDED" => lastRun,
         Cas(w, from, to, pc)
  PROVE  [Next]_ledgerVars
  BY TransitionIsMove DEF Cas

LEMMA AdvanceIsLedger ==
  ASSUME LifecycleInv, NEW w \in Workers, Advance(w)
  PROVE  [Next]_ledgerVars
  <1>1. LedgerTypeOK
    BY DEF LifecycleInv, LedgerInv
  <1>2. CASE wk[w].view \in {"ACCEPTED", "RETRYING"}
             /\ Cas(w, wk[w].view, "QUEUED", "advance")
    BY <1>1, <1>2, CasIsMove, TransitionEntries
  <1>3. CASE Cas(w, "QUEUED", "STARTING", "dispatch")
    BY <1>1, <1>3, CasIsMove, TransitionEntries
  <1> QED
    BY <1>2, <1>3 DEF Advance

LEMMA DispatchIsLedger ==
  ASSUME NEW w \in Workers, Dispatch(w)
  PROVE  [Next]_ledgerVars
  BY DEF Dispatch, Next, RunNext

LEMMA RecoveredIsLedger ==
  ASSUME LifecycleInv, NEW w \in Workers, Recovered(w)
  PROVE  [Next]_ledgerVars
  <1>1. LedgerTypeOK /\ lastRun
    BY DEF LifecycleInv, LedgerInv, Vouched, Claims, Recovered, At
  <1> QED
    BY <1>1, CasIsMove, TransitionEntries DEF Recovered

LEMMA GateIsLedger ==
  ASSUME LifecycleInv, NEW w \in Workers, Gate(w)
  PROVE  [Next]_ledgerVars
  <1>1. LedgerTypeOK
    BY DEF LifecycleInv, LedgerInv
  <1> QED
    BY <1>1, CasIsMove, TransitionEntries DEF Gate

LEMMA PrecancelIsLedger ==
  ASSUME LifecycleInv, NEW w \in Workers, Precancel(w)
  PROVE  [Next]_ledgerVars
  <1>1. LedgerTypeOK
    BY DEF LifecycleInv, LedgerInv
  <1>2. CASE \/ Cas(w, "ACCEPTED", "QUEUED", "precancel")
             \/ Cas(w, "QUEUED", "CANCELLING", "finish")
             \/ Cas(w, "STARTING", "RUNNING", "tocancel")
             \/ Cas(w, "RUNNING", "CANCELLING", "tocancel")
    BY <1>1, <1>2, CasIsMove, TransitionEntries
  <1>3. CASE TxCancelParkedApproval
    BY <1>3 DEF Next, RunNext, TxCancelRun
  <1> QED
    BY <1>2, <1>3 DEF Precancel

LEMMA ToCancellingIsLedger ==
  ASSUME LifecycleInv, NEW w \in Workers, NEW pc, NEW next,
         ToCancelling(w, pc, next)
  PROVE  [Next]_ledgerVars
  <1>1. LedgerTypeOK /\ wk[w].view \in RunStatuses
    BY DEF LifecycleInv, LedgerInv, LifecycleTypeOK, Attempts
  <1>2. CASE \/ Cas(w, "ACCEPTED", "QUEUED", pc)
             \/ Cas(w, "STARTING", "RUNNING", pc)
    BY <1>1, <1>2, CasIsMove, TransitionEntries
  <1>3. CASE /\ CanTransition(wk[w].view, "CANCELLING")
             /\ Cas(w, wk[w].view, "CANCELLING", next)
    <2>1. wk[w].view \in {"QUEUED", "RUNNING"}
      BY <1>1, <1>3, TransitionTable
    <2> QED
      BY <1>1, <1>3, <2>1, CasIsMove
  <1> QED
    BY <1>2, <1>3 DEF ToCancelling

LEMMA FinishIsLedger ==
  ASSUME LifecycleInv, NEW w \in Workers, Finish(w)
  PROVE  [Next]_ledgerVars
  <1>1. LedgerTypeOK
    BY DEF LifecycleInv, LedgerInv
  <1> QED
    BY <1>1, CasIsMove, TransitionEntries DEF Finish

(* The executor's steps under its fence.                                   *)
LEMMA ExecutorIsLedger ==
  ASSUME LifecycleInv, NEW w \in Workers,
         \/ AcquireFence(w) \/ EndPrompt(w) \/ Wrap(w) \/ Checkpoint(w)
         \/ \E c \in ToolCalls : \/ StartTool(w, c) \/ EndTool(w, c)
                                \/ RequestApproval(w, c)
                                \/ RequestInteraction(w, c)
  PROVE  [Next]_ledgerVars
  <1> USE DEF Workers
  <1>1. CASE AcquireFence(w)
    BY <1>1 DEF AcquireFence, Next, ExecutorNext
  <1>2. CASE EndPrompt(w) \/ Wrap(w)
    BY <1>2 DEF EndPrompt, Wrap, Next, ExecutorNext
  <1>3. CASE Checkpoint(w)
    <2>1. wk[w].answer \in {0} \cup ToolCalls
      BY DEF LifecycleInv, LifecycleTypeOK, Attempts
    <2> QED
      BY <1>3, <2>1 DEF Checkpoint, Next, ExecutorNext
  <1>4. ASSUME NEW c \in ToolCalls, EndTool(w, c)
        PROVE  Next
    <2>1. PICK s \in {"SUCCEEDED", "FAILED", "UNKNOWN"} : TxEnd(w, c, s)
      BY <1>4 DEF EndTool
    <2>2. s \in ToolStatuses
      BY DEF ToolStatuses
    <2> QED
      BY <2>1, <2>2 DEF Next, ExecutorNext
  <1>5. ASSUME NEW c \in ToolCalls,
               StartTool(w, c) \/ RequestApproval(w, c) \/ RequestInteraction(w, c)
        PROVE  Next
    BY <1>5 DEF StartTool, RequestApproval, RequestInteraction, Next, ExecutorNext
  <1> QED
    BY <1>1, <1>2, <1>3, <1>4, <1>5

(* The outcome: SUCCEEDED needs the checkpoint that Vouched promises.      *)
LEMMA ApplyIsLedger ==
  ASSUME LifecycleInv, NEW w \in Workers, Apply(w)
  PROVE  [Next]_ledgerVars
  <1>1. /\ LedgerTypeOK
        /\ wk[w].view \in RunStatuses
        /\ wk[w].outcome \in Outcomes
    BY DEF LifecycleInv, LedgerInv, LifecycleTypeOK, Attempts
  <1>2. wk[w].outcome = "SUCCEEDED" => lastRun
    BY DEF LifecycleInv, Vouched, Claims, Apply, At
  <1>3. CASE Cas(w, "STARTING", "RUNNING", "apply")
    BY <1>1, <1>3, CasIsMove, TransitionEntries
  <1>4. CASE /\ CanTransition(wk[w].view, wk[w].outcome)
             /\ Cas(w, wk[w].view, wk[w].outcome, "fail")
    <2>1. wk[w].view \notin {"WAITING_APPROVAL", "WAITING_INPUT"}
      BY <1>1, <1>4 DEF CanTransition, RunTransitions, Outcomes
    <2> QED
      BY <1>1, <1>2, <1>4, <2>1, CasIsMove
  <1> QED
    BY <1>3, <1>4 DEF Apply

LEMMA CancelTickIsLedger ==
  ASSUME LifecycleInv, NEW w \in Workers, CancelTick(w)
  PROVE  [Next]_ledgerVars
  <1>1. LedgerTypeOK
    BY DEF LifecycleInv, LedgerInv
  <1> QED
    BY <1>1, TransitionIsMove, TransitionEntries DEF CancelTick

(* Recovery: a success it infers rests on an APPLIED answer, hence on a    *)
(* checkpoint (SuccessIsCheckpointed).                                     *)
LEMMA ReconcileIsLedger ==
  ASSUME LifecycleInv, NEW r \in Scanners, Reconcile(r)
  PROVE  [Next]_ledgerVars
  <1>1. LedgerTypeOK
    BY DEF LifecycleInv, LedgerInv
  <1>2. CASE TxReconcileCancel
    BY <1>2 DEF Next, RunNext
  <1>3. ASSUME NEW c \in ToolCalls, interaction[c] = "APPLIED",
               TxTransition("RUNNING", "SUCCEEDED")
        PROVE  Next
    <2>1. lastRun
      BY <1>3 DEF LifecycleInv, LedgerInv, SuccessIsCheckpointed
    <2> QED
      BY <1>1, <1>3, <2>1, TransitionIsMove, TransitionEntries
  <1>4. CASE /\ status \in {"STARTING", "RUNNING"}
             /\ TxTransition(status, "RETRYING")
    BY <1>1, <1>4, TransitionIsMove, TransitionEntries
  <1> QED
    BY <1>2, <1>3, <1>4 DEF Reconcile

LEMMA RecoverIsLedger ==
  ASSUME LifecycleInv, NEW r \in Scanners, Recover(r)
  PROVE  [Next]_ledgerVars
  <1>1. LedgerTypeOK
    BY DEF LifecycleInv, LedgerInv
  <1>2. CASE Scan(r) \/ Probe(r) \/ EnqueueJob(r) \/ Wake(r)
    BY <1>2 DEF Scan, Probe, EnqueueJob, Wake
  <1>3. CASE Close(r)
    BY <1>1, <1>3, TransitionIsMove, TransitionEntries DEF Close
  <1>4. CASE Reconcile(r)
    BY <1>4, ReconcileIsLedger
  <1>5. CASE Project(r)
    BY <1>1, <1>5, TransitionIsMove, TransitionEntries DEF Project
  <1>6. CASE ProjectAccepted(r)
    BY <1>1, <1>6, TransitionIsMove, TransitionEntries DEF ProjectAccepted
  <1>7. CASE ParkedCancel(r)
    BY <1>7 DEF ParkedCancel, Next, RunNext, TxCancelRun
  <1> QED
    BY <1>2, <1>3, <1>4, <1>5, <1>6, <1>7 DEF Recover

LEMMA AttemptIsLedger ==
  ASSUME LifecycleInv, NEW w \in Workers, Attempt(w)
  PROVE  [Next]_ledgerVars
  <1>1. CASE \/ Take(w) \/ Load(w) \/ HonourCancel(w) \/ Claimed(w)
             \/ RefuseReentry(w) \/ Prerun(w) \/ Reload(w) \/ Exec(w)
             \/ SkipPrompt(w) \/ EndPark(w) \/ Settle(w)
    BY <1>1 DEF Take, Load, HonourCancel, Claimed, RefuseReentry, Prerun, Reload,
                Exec, SkipPrompt, EndPark, Settle
  <1>2. CASE Advance(w) \/ Dispatch(w) \/ Recovered(w) \/ Gate(w)
    BY <1>2, AdvanceIsLedger, DispatchIsLedger, RecoveredIsLedger, GateIsLedger
  <1>3. CASE \/ Precancel(w) \/ ToCancelling(w, "tocancel", "finish")
             \/ ToCancelling(w, "stop", "reload") \/ Finish(w)
    BY <1>3, PrecancelIsLedger, ToCancellingIsLedger, FinishIsLedger
  <1>4. CASE \/ AcquireFence(w) \/ EndPrompt(w) \/ Wrap(w) \/ Checkpoint(w)
             \/ \E c \in ToolCalls : \/ StartTool(w, c) \/ EndTool(w, c)
                                    \/ RequestApproval(w, c)
                                    \/ RequestInteraction(w, c)
    BY <1>4, ExecutorIsLedger
  <1>5. CASE Apply(w)
    BY <1>5, ApplyIsLedger
  <1> QED
    BY <1>1, <1>2, <1>3, <1>4, <1>5 DEF Attempt

LEMMA UserIsLedger ==
  ASSUME UserStep
  PROVE  [Next]_ledgerVars
  <1>1. CASE CancelRun \/ CancelIntent
    BY <1>1 DEF CancelRun, CancelIntent, Next, RunNext
  <1>2. ASSUME NEW c \in ToolCalls, Decide(c) \/ Respond(c) \/ WakeWorker(c)
        PROVE  [Next]_ledgerVars
    BY <1>2 DEF Decide, Respond, WakeWorker, Next, UserNext
  <1> QED
    BY <1>1, <1>2 DEF UserStep

LEMMA FaultIsLedger ==
  ASSUME FaultStep \/ TtlExpire
  PROVE  UNCHANGED ledgerVars
  BY DEF FaultStep, TtlExpire, Crash, DbError, LeaseBusy, ScannerCrash,
         LeaseExpire, LockExpire, RedisFlush

LEMMA StepIsLedger ==
  ASSUME LifecycleInv, [LifecycleNext]_vars
  PROVE  [Next]_ledgerVars
  <1>1. ASSUME NEW w \in Workers, WorkerStep(w)
        PROVE  [Next]_ledgerVars
    BY <1>1, AttemptIsLedger DEF WorkerStep, Release
  <1>2. ASSUME NEW w \in Workers, TimerStep(w)
        PROVE  [Next]_ledgerVars
    BY <1>2, CancelTickIsLedger DEF TimerStep, RenewTick
  <1>3. ASSUME NEW r \in Scanners, ScannerStep(r)
        PROVE  [Next]_ledgerVars
    BY <1>3, RecoverIsLedger DEF ScannerStep
  <1>4. CASE UserStep \/ FaultStep \/ TtlExpire
    BY <1>4, UserIsLedger, FaultIsLedger
  <1>5. CASE UNCHANGED vars
    BY <1>5 DEF vars
  <1> QED
    BY <1>1, <1>2, <1>3, <1>4, <1>5 DEF LifecycleNext

-----------------------------------------------------------------------------
(* The attempts stay well formed and vouched for.                          *)

(* No transaction takes last_run_id back.                                  *)
LEMMA LastRunStays ==
  ASSUME [Next]_ledgerVars, lastRun
  PROVE  lastRun'
  <1> USE DEF sessionVars
  <1>1. CASE RunNext
    <2>1. CASE \E to \in RunStatuses : Move(to)
      BY <2>1 DEF Move, TxTransition
    <2>2. CASE TxIntent \/ TxReconcileCancel \/ TxResumeApproval
      BY <2>2 DEF TxIntent, TxReconcileCancel, TxResumeApproval, TxTransition
    <2>3. CASE TxCancelRun
      BY <2>3 DEF TxCancelRun, TxCancelParkedApproval, TxCancelParkedInput, TxIntent
    <2>4. CASE \E c \in ToolCalls : TxResumeInput(c)
      BY <2>4 DEF TxResumeInput
    <2> QED
      BY <1>1, <2>1, <2>2, <2>3, <2>4 DEF RunNext
  <1>2. CASE UserNext
    BY <1>2 DEF UserNext, TxDecide, TxRespond
  <1>3. CASE ExecutorNext
    <2>1. ASSUME NEW e \in Executors, NEW a,
                 TxAcquireFence(e) \/ TxSuspend(e) \/ TxCheckpoint(e, a)
          PROVE  lastRun'
      BY <2>1 DEF TxAcquireFence, TxSuspend, TxCheckpoint, NameRun
    <2>2. ASSUME NEW e \in Executors, NEW c \in ToolCalls, NEW s,
                 \/ TxRequestApproval(e, c) \/ TxRequestInteraction(e, c)
                 \/ TxStart(e, c) \/ TxPropose(e, c, s) \/ TxEnd(e, c, s)
          PROVE  lastRun'
      BY <2>2 DEF TxRequestApproval, TxRequestInteraction, TxStart, TxPropose, TxEnd
    <2> QED
      BY <1>3, <2>1, <2>2 DEF ExecutorNext
  <1>4. CASE UNCHANGED ledgerVars
    BY <1>4 DEF ledgerVars
  <1> QED
    BY <1>1, <1>2, <1>3, <1>4 DEF Next

WorkersOK == wk \in [Workers -> Attempts] /\ Vouched

LEMMA BecomeOK ==
  ASSUME WorkersOK, NEW w \in Workers, NEW a \in Attempts, Become(w, a),
         lastRun => lastRun', Claims(a) => lastRun'
  PROVE  WorkersOK'
  <1>1. /\ Forget(a) \in Attempts
        /\ Forget(a).pc = a.pc
        /\ a.pc \in {"settle", "apply"} => Forget(a).outcome = a.outcome
    BY ForgetKeeps
  <1>2. wk' = [wk EXCEPT ![w] = Forget(a)]
    BY DEF Become
  <1>3. wk' \in [Workers -> Attempts]
    BY <1>1, <1>2 DEF WorkersOK
  <1>4. ASSUME NEW v \in Workers, Claims(wk'[v])
        PROVE  lastRun'
    <2>1. CASE v = w
      BY <1>1, <1>2, <1>4, <2>1 DEF WorkersOK, Claims
    <2>2. CASE v # w
      BY <1>2, <1>4, <2>2 DEF WorkersOK, Vouched
    <2> QED
      BY <2>1, <2>2
  <1> QED
    BY <1>3, <1>4 DEF WorkersOK, Vouched

LEMMA GotoOK ==
  ASSUME WorkersOK, NEW w \in Workers, NEW pc \in WorkerPcs, Goto(w, pc),
         lastRun => lastRun',
         pc = "recovered" => lastRun',
         pc \in {"settle", "apply"} /\ wk[w].outcome = "SUCCEEDED" => lastRun'
  PROVE  WorkersOK'
  <1> DEFINE a == [wk[w] EXCEPT !.pc = pc]
  <1>1. a \in Attempts /\ a.pc = pc /\ a.outcome = wk[w].outcome
    BY DEF WorkersOK, Attempts
  <1>2. Become(w, a)
    BY DEF Goto
  <1> HIDE DEF a
  <1> QED
    BY <1>1, <1>2, BecomeOK DEF Claims

LEMMA ReadOK ==
  ASSUME WorkersOK, NEW w \in Workers, NEW pc \in WorkerPcs, Read(w, pc),
         LedgerTypeOK', lastRun => lastRun',
         pc # "recovered",
         pc \in {"settle", "apply"} /\ wk[w].outcome = "SUCCEEDED" => lastRun'
  PROVE  WorkersOK'
  <1> DEFINE a == [wk[w] EXCEPT !.pc = pc, !.view = status', !.seen = intent']
  <1>1. a \in Attempts /\ a.pc = pc /\ a.outcome = wk[w].outcome
    <2>1. /\ wk[w] \in Attempts
          /\ status' \in RunStatuses /\ intent' \in BOOLEAN
      BY DEF WorkersOK, LedgerTypeOK
    <2> QED
      BY <2>1 DEF Attempts
  <1>2. Become(w, a)
    BY DEF Read
  <1> HIDE DEF a
  <1> QED
    BY <1>1, <1>2, BecomeOK DEF Claims

LEMMA ReturnOK ==
  ASSUME WorkersOK, NEW w \in Workers, NEW pc \in WorkerPcs,
         NEW outcome \in Outcomes, Return(w, outcome, pc),
         lastRun => lastRun', pc # "recovered",
         pc \in {"settle", "apply"} /\ outcome = "SUCCEEDED" => lastRun'
  PROVE  WorkersOK'
  <1> DEFINE a == [wk[w] EXCEPT !.pc = pc, !.outcome = outcome]
  <1>1. a \in Attempts /\ a.pc = pc /\ a.outcome = outcome
    BY DEF WorkersOK, Attempts
  <1>2. Become(w, a)
    BY DEF Return
  <1> HIDE DEF a
  <1> QED
    BY <1>1, <1>2, BecomeOK DEF Claims

(* A worker that is given a record outright, when the record claims        *)
(* nothing.                                                                *)
LEMMA AssignOK ==
  ASSUME WorkersOK, NEW w \in Workers, NEW a \in Attempts,
         wk' = [wk EXCEPT ![w] = a],
         lastRun => lastRun', Claims(a) => lastRun'
  PROVE  WorkersOK'
  BY DEF WorkersOK, Vouched

(* The steps before the runtime.                                           *)
LEMMA EntryWorkersOK ==
  ASSUME LifecycleInv, LedgerTypeOK', lastRun => lastRun', NEW w \in Workers,
         \/ Take(w) \/ Load(w) \/ HonourCancel(w) \/ Advance(w) \/ Dispatch(w)
         \/ Claimed(w) \/ Recovered(w) \/ RefuseReentry(w) \/ Gate(w) \/ Prerun(w)
  PROVE  WorkersOK'
  <1>1. WorkersOK
    BY DEF LifecycleInv, LifecycleTypeOK, WorkersOK
  <1> USE <1>1 DEF WorkerPcs
  <1>2. CASE Take(w)
    <2>1. PICK j \in jobs :
            wk' = [wk EXCEPT ![w] = [NoAttempt EXCEPT !.pc = "load", !.job = j]]
      BY <1>2 DEF Take
    <2> DEFINE a == [NoAttempt EXCEPT !.pc = "load", !.job = j]
    <2>2. a \in Attempts /\ ~Claims(a)
      BY NoAttemptType DEF NoAttempt, Attempts, Claims, LifecycleInv, LifecycleTypeOK
    <2> HIDE DEF a
    <2> QED
      BY <2>1, <2>2, AssignOK DEF a
  <1>3. CASE Load(w)
    BY <1>3, ReadOK DEF Load
  <1>4. CASE HonourCancel(w)
    BY <1>4, GotoOK DEF HonourCancel
  <1>5. CASE Advance(w)
    BY <1>5, GotoOK, ReadOK DEF Advance, Cas
  <1>6. CASE Dispatch(w)
    <2>1. ASSUME NEW c \in ToolCalls,
                 Become(w, [wk[w] EXCEPT !.pc = "gate", !.view = status',
                                         !.seen = intent', !.answer = c])
          PROVE  WorkersOK'
      <3> DEFINE b == [wk[w] EXCEPT !.pc = "gate", !.view = status',
                                    !.seen = intent']
                 a == [b EXCEPT !.answer = c]
      <3>1. b \in Attempts /\ b.pc = "gate"
        <4>1. /\ wk[w] \in Attempts
              /\ status' \in RunStatuses /\ intent' \in BOOLEAN
          BY DEF WorkersOK, LedgerTypeOK
        <4> QED
          BY <4>1 DEF Attempts
      <3>2. Become(w, a)
        BY <2>1
      <3> HIDE DEF b
      <3>3. a \in Attempts /\ a.pc = "gate"
        BY <3>1 DEF Attempts
      <3> HIDE DEF a
      <3> QED
        BY <3>2, <3>3, BecomeOK DEF Claims
    <2>2. CASE \/ \E pc \in {"finish", "done", "fail", "gate"} : Goto(w, pc)
               \/ Read(w, "gate")
      BY <2>2, GotoOK, ReadOK
    <2> QED
      BY <1>6, <2>1, <2>2 DEF Dispatch
  <1>7. CASE Claimed(w)
    <2>1. ASSUME NEW c \in ToolCalls, interaction[c] = "APPLIED", Goto(w, "recovered")
          PROVE  WorkersOK'
      <3>1. lastRun
        BY <2>1 DEF LifecycleInv, LedgerInv, SuccessIsCheckpointed
      <3> QED
        BY <2>1, <3>1, GotoOK
    <2>2. ASSUME NEW c \in ToolCalls,
                 Become(w, [wk[w] EXCEPT !.pc = "gate", !.answer = c])
          PROVE  WorkersOK'
      <3> DEFINE a == [wk[w] EXCEPT !.pc = "gate", !.answer = c]
      <3>1. a \in Attempts /\ a.pc = "gate"
        <4>1. wk[w] \in Attempts
          BY DEF WorkersOK
        <4> QED
          BY <4>1 DEF Attempts
      <3>2. Become(w, a)
        BY <2>2
      <3> HIDE DEF a
      <3> QED
        BY <3>1, <3>2, BecomeOK DEF Claims
    <2>3. CASE Goto(w, "reentry")
      BY <2>3, GotoOK
    <2> QED
      BY <1>7, <2>1, <2>2, <2>3 DEF Claimed
  <1>8. CASE Recovered(w)
    BY <1>8, ReadOK DEF Recovered, Cas
  <1>9. CASE RefuseReentry(w)
    BY <1>9, GotoOK DEF RefuseReentry
  <1>10. CASE Gate(w)
    BY <1>10, GotoOK, ReadOK DEF Gate, Cas
  <1>11. CASE Prerun(w)
    BY <1>11, GotoOK DEF Prerun
  <1> QED
    BY <1>2, <1>3, <1>4, <1>5, <1>6, <1>7, <1>8, <1>9, <1>10, <1>11

(* Cancelling, and the steps after the executor.                           *)
LEMMA ExitWorkersOK ==
  ASSUME LifecycleInv, LedgerTypeOK', lastRun => lastRun', NEW w \in Workers,
         \/ Precancel(w) \/ ToCancelling(w, "tocancel", "finish")
         \/ ToCancelling(w, "stop", "reload") \/ Reload(w) \/ Finish(w)
         \/ Settle(w) \/ Apply(w)
  PROVE  WorkersOK'
  <1>1. WorkersOK
    BY DEF LifecycleInv, LifecycleTypeOK, WorkersOK
  <1> USE <1>1 DEF WorkerPcs
  <1>2. CASE Precancel(w)
    <2>1. \/ \E pc \in {"done", "tocancel"} : Goto(w, pc)
          \/ \E pc \in {"done", "precancel", "finish", "tocancel"} : Read(w, pc)
      BY <1>2 DEF Precancel, Cas
    <2> QED
      BY <2>1, GotoOK, ReadOK
  <1>3. ASSUME NEW pc \in {"tocancel", "stop"}, NEW next \in {"finish", "reload"},
               ToCancelling(w, pc, next)
        PROVE  WorkersOK'
    BY <1>3, GotoOK, ReadOK DEF ToCancelling, Cas
  <1>4. CASE Reload(w) \/ Finish(w)
    BY <1>4, GotoOK, ReadOK DEF Reload, Finish, Cas
  <1>5. CASE Settle(w)
    <2>1. At(w, "settle") /\ wk[w].outcome = "SUCCEEDED" => lastRun'
      BY DEF WorkersOK, Vouched, Claims, At
    <2> QED
      BY <1>5, <2>1, GotoOK, ReadOK DEF Settle
  <1>6. CASE Apply(w)
    <2>1. At(w, "apply") /\ wk[w].outcome = "SUCCEEDED" => lastRun'
      BY DEF WorkersOK, Vouched, Claims, At
    <2>2. At(w, "apply")
      BY <1>6 DEF Apply
    <2>3. \/ Goto(w, "done") \/ Goto(w, "fail")
          \/ Read(w, "apply") \/ Read(w, "fail")
      BY <1>6 DEF Apply, Cas
    <2> QED
      BY <2>1, <2>2, <2>3, GotoOK, ReadOK
  <1> QED
    BY <1>2, <1>3, <1>4, <1>5, <1>6

(* The executor; only a checkpoint that names the Run lets it return       *)
(* SUCCEEDED.                                                              *)
LEMMA ExecutorWorkersOK ==
  ASSUME LifecycleInv, LedgerTypeOK', lastRun => lastRun', NEW w \in Workers,
         \/ Exec(w) \/ AcquireFence(w) \/ SkipPrompt(w) \/ EndPark(w)
         \/ EndPrompt(w) \/ Wrap(w) \/ Checkpoint(w)
  PROVE  WorkersOK'
  <1>1. WorkersOK
    BY DEF LifecycleInv, LifecycleTypeOK, WorkersOK
  <1> USE <1>1 DEF WorkerPcs, Outcomes
  <1>2. CASE Exec(w) \/ AcquireFence(w)
    BY <1>2, GotoOK, ReturnOK DEF Exec, AcquireFence
  <1>3. CASE SkipPrompt(w) \/ EndPark(w) \/ EndPrompt(w)
    BY <1>3, GotoOK, ReturnOK DEF SkipPrompt, EndPark, EndPrompt
  <1>4. CASE Wrap(w)
    BY <1>4, GotoOK, ReturnOK DEF Wrap
  <1>5. CASE Checkpoint(w)
    <2>1. CASE /\ TxCheckpoint(w, wk[w].answer)
               /\ \E o \in Outcomes : Return(w, o, "settle")
      <3>1. lastRun'
        BY <2>1 DEF TxCheckpoint, NameRun
      <3> QED
        BY <2>1, <3>1, ReturnOK
    <2>2. CASE Return(w, "FAILED", "settle")
      BY <2>2, ReturnOK
    <2>3. wk[w].outcome \in Outcomes
      BY DEF WorkersOK, Attempts
    <2> QED
      BY <1>5, <2>1, <2>2, <2>3 DEF Checkpoint
  <1> QED
    BY <1>2, <1>3, <1>4, <1>5

(* The tool steps inside a prompt move calls in and out of mine.           *)
LEMMA ToolWorkersOK ==
  ASSUME LifecycleInv, LedgerTypeOK', lastRun => lastRun',
         NEW w \in Workers, NEW c \in ToolCalls,
         \/ StartTool(w, c) \/ EndTool(w, c)
         \/ RequestApproval(w, c) \/ RequestInteraction(w, c)
  PROVE  WorkersOK'
  <1>1. WorkersOK
    BY DEF LifecycleInv, LifecycleTypeOK, WorkersOK
  <1> USE <1>1 DEF WorkerPcs, Outcomes
  <1>2. ASSUME NEW m \in SUBSET ToolCalls,
               wk[w].pc \in {"prompt", "park"},
               wk' = [wk EXCEPT ![w].mine = m]
        PROVE  WorkersOK'
    <2> DEFINE a == [wk[w] EXCEPT !.mine = m]
    <2>1. a \in Attempts /\ a.pc = wk[w].pc
      BY DEF WorkersOK, Attempts
    <2>2. wk' = [wk EXCEPT ![w] = a]
      BY <1>2 DEF WorkersOK
    <2> HIDE DEF a
    <2> QED
      BY <1>2, <2>1, <2>2, AssignOK DEF Claims
  <1>3. wk[w].mine \in SUBSET ToolCalls
    BY DEF WorkersOK, Attempts
  <1>4. CASE StartTool(w, c)
    <2>1. wk' = [wk EXCEPT ![w].mine = wk[w].mine \cup {c}]
      BY <1>4 DEF StartTool, WorkersOK
    <2>2. wk[w].mine \cup {c} \in SUBSET ToolCalls
      BY <1>3
    <2>3. wk[w].pc \in {"prompt", "park"}
      BY <1>4 DEF StartTool
    <2> QED
      BY <1>2, <2>1, <2>2, <2>3
  <1>5. CASE EndTool(w, c)
    <2>1. wk' = [wk EXCEPT ![w].mine = wk[w].mine \ {c}]
      BY <1>5 DEF EndTool, WorkersOK
    <2>2. wk[w].mine \ {c} \in SUBSET ToolCalls
      BY <1>3
    <2>3. wk[w].pc \in {"prompt", "park"}
      BY <1>5 DEF EndTool
    <2> QED
      BY <1>2, <2>1, <2>2, <2>3
  <1>6. CASE RequestApproval(w, c) \/ RequestInteraction(w, c)
    BY <1>6, ReturnOK DEF RequestApproval, RequestInteraction
  <1> QED
    BY <1>4, <1>5, <1>6

(* Timers, the end of an attempt, and faults.                              *)
LEMMA OtherWorkersOK ==
  ASSUME LifecycleInv, lastRun => lastRun', NEW w \in Workers,
         \/ Release(w) \/ RenewTick(w) \/ CancelTick(w) \/ Crash(w) \/ DbError(w)
  PROVE  WorkersOK'
  <1>1. WorkersOK
    BY DEF LifecycleInv, LifecycleTypeOK, WorkersOK
  <1> USE <1>1
  <1>2. CASE Release(w) \/ Crash(w)
    <2>1. ~Claims(NoAttempt)
      BY DEF NoAttempt, Claims
    <2> QED
      BY <1>2, <2>1, NoAttemptType, AssignOK DEF Release, Crash
  <1>3. ASSUME NEW why \in {"cancel", "lease"},
               wk' = [wk EXCEPT ![w].abort = why]
        PROVE  WorkersOK'
    <2> DEFINE a == [wk[w] EXCEPT !.abort = why]
    <2>1. a \in Attempts /\ a.pc = wk[w].pc /\ a.outcome = wk[w].outcome
      BY DEF WorkersOK, Attempts
    <2>2. wk' = [wk EXCEPT ![w] = a]
      BY <1>3 DEF WorkersOK
    <2>3. Claims(wk[w]) => lastRun'
      BY DEF WorkersOK, Vouched
    <2> HIDE DEF a
    <2> QED
      BY <2>1, <2>2, <2>3, AssignOK DEF Claims
  <1>4. CASE RenewTick(w) \/ CancelTick(w)
    BY <1>3, <1>4 DEF RenewTick, CancelTick
  <1>5. CASE DbError(w)
    BY <1>5, GotoOK DEF DbError, WorkerPcs
  <1> QED
    BY <1>2, <1>4, <1>5

-----------------------------------------------------------------------------
(* The Redis state, the scanners and the fault count keep their types.     *)
RedisOK == lease \in Holders /\ lock \in Holders /\ jobs \subseteq JobIds
ScansOK == sc \in [Scanners -> Scans]
CountOK == faults \in 0..MaxFaults

LEMMA EnqueueOK ==
  ASSUME jobs \subseteq JobIds, NEW j \in JobIds, Enqueue(j)
  PROVE  jobs' \subseteq JobIds
  BY DEF Enqueue

(* Only Take and Exec touch Redis.                                         *)
LEMMA AttemptRedis ==
  ASSUME NEW w \in Workers, Attempt(w)
  PROVE  UNCHANGED redisVars \/ Take(w) \/ Exec(w)
  <1> USE DEF redisVars
  <1>1. CASE \/ Load(w) \/ HonourCancel(w) \/ Advance(w) \/ Dispatch(w)
             \/ Claimed(w) \/ Recovered(w) \/ RefuseReentry(w) \/ Gate(w)
             \/ Prerun(w)
    BY <1>1 DEF Load, HonourCancel, Advance, Dispatch, Claimed, Recovered,
                RefuseReentry, Gate, Prerun
  <1>2. CASE \/ Precancel(w) \/ ToCancelling(w, "tocancel", "finish")
             \/ ToCancelling(w, "stop", "reload") \/ Reload(w) \/ Finish(w)
             \/ Settle(w) \/ Apply(w)
    BY <1>2 DEF Precancel, ToCancelling, Reload, Finish, Settle, Apply
  <1>3. CASE \/ AcquireFence(w) \/ SkipPrompt(w) \/ EndPark(w) \/ EndPrompt(w)
             \/ Wrap(w) \/ Checkpoint(w)
    BY <1>3 DEF AcquireFence, SkipPrompt, EndPark, EndPrompt, Wrap, Checkpoint
  <1>4. ASSUME NEW c \in ToolCalls,
               \/ StartTool(w, c) \/ EndTool(w, c)
               \/ RequestApproval(w, c) \/ RequestInteraction(w, c)
        PROVE  UNCHANGED redisVars
    BY <1>4 DEF StartTool, EndTool, RequestApproval, RequestInteraction
  <1> QED
    BY <1>1, <1>2, <1>3, <1>4 DEF Attempt

LEMMA AttemptRedisOK ==
  ASSUME LifecycleInv, NEW w \in Workers, Attempt(w)
  PROVE  RedisOK'
  <1>1. RedisOK
    BY DEF LifecycleInv, LifecycleTypeOK, RedisOK
  <1>2. CASE Take(w) \/ Exec(w)
    BY <1>1, <1>2 DEF Take, Exec, RedisOK, Holders
  <1>3. CASE UNCHANGED redisVars
    BY <1>1, <1>3 DEF RedisOK, redisVars
  <1> QED
    BY <1>2, <1>3, AttemptRedis

LEMMA ReleaseOK ==
  ASSUME LifecycleInv, NEW w \in Workers, Release(w)
  PROVE  RedisOK' /\ CountOK'
  <1>1. wk[w].job \in JobIds
    BY DEF LifecycleInv, LifecycleTypeOK, Attempts
  <1>2. MaxFaults \in Nat
    BY LifecycleAssumption
  <1> QED
    BY <1>1, <1>2 DEF Release, LifecycleInv, LifecycleTypeOK, RedisOK, CountOK, Holders

LEMMA ScanToOK ==
  ASSUME ScansOK, NEW r \in Scanners, NEW pc \in ScannerPcs, ScanTo(r, pc)
  PROVE  ScansOK'
  <1>1. NoScan \in Scans /\ [sc[r] EXCEPT !.pc = pc] \in Scans
    BY DEF ScansOK, Scans, NoScan, ScannerPcs, RunStatuses, JobIds
  <1> QED
    BY <1>1 DEF ScanTo, ScansOK

LEMMA RecoverOK ==
  ASSUME LifecycleInv, NEW r \in Scanners, Recover(r)
  PROVE  ScansOK' /\ RedisOK'
  <1>1. ScansOK /\ RedisOK
    BY DEF LifecycleInv, LifecycleTypeOK, ScansOK, RedisOK
  <1> USE <1>1 DEF ScannerPcs
  <1>2. CASE Scan(r)
    <2>1. status \in RunStatuses /\ 0 \in JobIds
      BY DEF LifecycleInv, LifecycleTypeOK, LedgerTypeOK, JobIds
    <2>2. RecoverOne(status) \in ScannerPcs
      BY RecoverOneType
    <2> QED
      BY <1>2, <2>1, <2>2 DEF Scan, ScansOK, Scans, RedisOK, redisVars
  <1>3. CASE Probe(r)
    BY <1>3, ScanToOK DEF Probe, RedisOK, redisVars
  <1>4. ASSUME NEW c \in ToolCalls,
               sc' = [sc EXCEPT ![r].pc = "enqueue", ![r].job = c]
        PROVE  ScansOK'
    BY <1>4 DEF ScansOK, Scans, JobIds
  <1>5. CASE Reconcile(r)
    <2>1. RedisOK'
      BY <1>5 DEF Reconcile, RedisOK, redisVars
    <2>2. \/ ScanTo(r, "idle") \/ ScanTo(r, "project")
          \/ \E c \in ToolCalls : sc' = [sc EXCEPT ![r].pc = "enqueue", ![r].job = c]
      BY <1>5 DEF Reconcile
    <2> QED
      BY <1>4, <2>1, <2>2, ScanToOK
  <1>6. CASE Close(r) \/ Project(r) \/ ProjectAccepted(r) \/ ParkedCancel(r)
    <2>1. RedisOK'
      BY <1>6 DEF Close, Project, ProjectAccepted, ParkedCancel, RedisOK, redisVars
    <2>2. ScanTo(r, "idle") \/ ScanTo(r, "enqueue")
      BY <1>6 DEF Close, Project, ProjectAccepted, ParkedCancel
    <2> QED
      BY <2>1, <2>2, ScanToOK
  <1>7. CASE EnqueueJob(r)
    <2>1. sc[r].job \in JobIds
      BY DEF ScansOK, Scans
    <2>2. RedisOK'
      BY <1>7, <2>1, EnqueueOK DEF EnqueueJob, RedisOK
    <2>3. ScanTo(r, "accepted") \/ ScanTo(r, "idle")
      BY <1>7 DEF EnqueueJob
    <2> QED
      BY <2>2, <2>3, ScanToOK
  <1>8. CASE Wake(r)
    <2>1. RedisOK'
      BY <1>8 DEF Wake, RedisOK, redisVars
    <2>2. ScanTo(r, "idle")
          \/ \E c \in ToolCalls : sc' = [sc EXCEPT ![r].pc = "enqueue", ![r].job = c]
      BY <1>8 DEF Wake, DueCalls
    <2> QED
      BY <1>4, <2>1, <2>2, ScanToOK
  <1> QED
    BY <1>2, <1>3, <1>5, <1>6, <1>7, <1>8 DEF Recover

LEMMA FaultOK ==
  ASSUME LifecycleInv, FaultStep \/ TtlExpire
  PROVE  WorkersOK' /\ RedisOK' /\ ScansOK' /\ CountOK'
  <1>1. WorkersOK /\ RedisOK /\ ScansOK /\ CountOK /\ MaxFaults \in Nat
    BY LifecycleAssumption
    DEF LifecycleInv, LifecycleTypeOK, WorkersOK, RedisOK, ScansOK, CountOK
  <1>2. UNCHANGED ledgerVars
    BY FaultIsLedger
  <1>3. lastRun' = lastRun
    BY <1>2 DEF ledgerVars
  <1>4. ASSUME UNCHANGED wk PROVE WorkersOK'
    BY <1>1, <1>3, <1>4 DEF WorkersOK, Vouched
  <1>5. ASSUME NEW kind, Fault(kind) PROVE CountOK'
    BY <1>1, <1>5 DEF Fault, CountOK
  <1>6. ASSUME NEW w \in Workers, Crash(w)
        PROVE  WorkersOK' /\ RedisOK' /\ ScansOK' /\ CountOK'
    <2>1. WorkersOK'
      BY <1>3, <1>6, OtherWorkersOK
    <2>2. wk[w].job \in JobIds
      BY <1>1 DEF WorkersOK, Attempts
    <2>3. RedisOK'
      BY <1>1, <1>6, <2>2 DEF Crash, RedisOK, Holders
    <2> QED
      BY <1>1, <1>5, <1>6, <2>1, <2>3 DEF Crash, ScansOK
  <1>7. ASSUME NEW w \in Workers, DbError(w)
        PROVE  WorkersOK' /\ RedisOK' /\ ScansOK' /\ CountOK'
    BY <1>1, <1>3, <1>5, <1>7, OtherWorkersOK DEF DbError, RedisOK, redisVars, ScansOK
  <1>8. ASSUME NEW w \in Workers, LeaseBusy(w), UNCHANGED <<sc, faults>>
        PROVE  WorkersOK' /\ RedisOK' /\ ScansOK' /\ CountOK'
    BY <1>1, <1>4, <1>8 DEF LeaseBusy, RedisOK, ScansOK, CountOK
  <1>9. ASSUME NEW r \in Scanners, ScannerCrash(r)
        PROVE  WorkersOK' /\ RedisOK' /\ ScansOK' /\ CountOK'
    BY <1>1, <1>4, <1>5, <1>9, ScanToOK DEF ScannerCrash, RedisOK, redisVars, ScannerPcs
  <1>10. CASE LeaseExpire \/ LockExpire \/ RedisFlush
    BY <1>1, <1>4, <1>5, <1>10
    DEF LeaseExpire, LockExpire, RedisFlush, RedisOK, Holders, ScansOK
  <1>11. CASE TtlExpire
    BY <1>1, <1>4, <1>11 DEF TtlExpire, RedisOK, Holders, ScansOK, CountOK
  <1> QED
    BY <1>6, <1>7, <1>8, <1>9, <1>10, <1>11 DEF FaultStep

LEMMA UserOK ==
  ASSUME LifecycleInv, lastRun => lastRun', UserStep
  PROVE  WorkersOK' /\ RedisOK' /\ ScansOK' /\ CountOK'
  <1>1. WorkersOK /\ RedisOK /\ ScansOK /\ CountOK
    BY DEF LifecycleInv, LifecycleTypeOK, WorkersOK, RedisOK, ScansOK, CountOK
  <1>2. UNCHANGED <<wk, sc, faults>>
    BY DEF UserStep
  <1>3. RedisOK'
    <2>1. CASE CancelRun \/ CancelIntent
      BY <1>1, <2>1 DEF CancelRun, CancelIntent, RedisOK, redisVars
    <2>2. ASSUME NEW c \in ToolCalls, Decide(c) \/ Respond(c)
          PROVE  RedisOK'
      BY <1>1, <2>2 DEF Decide, Respond, RedisOK, redisVars
    <2>3. ASSUME NEW c \in ToolCalls, WakeWorker(c)
          PROVE  RedisOK'
      BY <1>1, <2>3, EnqueueOK DEF WakeWorker, RedisOK, JobIds
    <2> QED
      BY <2>1, <2>2, <2>3 DEF UserStep
  <1> QED
    BY <1>1, <1>2, <1>3 DEF WorkersOK, Vouched, ScansOK, CountOK

(* The inductive step.                                                     *)
LEMMA LifecycleStepInv ==
  LifecycleInv /\ [LifecycleNext]_vars => LifecycleInv'
  <1> SUFFICES ASSUME LifecycleInv, [LifecycleNext]_vars
               PROVE  LifecycleInv'
    OBVIOUS
  <1>1. LedgerInv' /\ (lastRun => lastRun')
    BY StepIsLedger, StepInv, LastRunStays DEF LifecycleInv
  <1>2. LedgerTypeOK'
    BY <1>1 DEF LedgerInv
  <1>3. WorkersOK /\ RedisOK /\ ScansOK /\ CountOK
    BY DEF LifecycleInv, LifecycleTypeOK, WorkersOK, RedisOK, ScansOK, CountOK
  <1> SUFFICES WorkersOK' /\ RedisOK' /\ ScansOK' /\ CountOK'
    BY <1>1, <1>2
    DEF LifecycleInv, LifecycleTypeOK, WorkersOK, RedisOK, ScansOK, CountOK
  <1>4. ASSUME NEW w \in Workers, WorkerStep(w)
        PROVE  WorkersOK' /\ RedisOK' /\ ScansOK' /\ CountOK'
    <2>1. CASE Attempt(w) /\ UNCHANGED <<sc, faults>>
      <3>1. WorkersOK'
        BY <1>1, <1>2, <2>1, EntryWorkersOK, ExitWorkersOK, ExecutorWorkersOK,
           ToolWorkersOK DEF Attempt
      <3>2. RedisOK'
        BY <2>1, AttemptRedisOK
      <3> QED
        BY <1>3, <2>1, <3>1, <3>2 DEF ScansOK, CountOK
    <2>2. CASE Release(w) /\ UNCHANGED sc
      BY <1>1, <1>3, <2>2, OtherWorkersOK, ReleaseOK DEF ScansOK
    <2> QED
      BY <1>4, <2>1, <2>2 DEF WorkerStep
  <1>5. ASSUME NEW w \in Workers, TimerStep(w)
        PROVE  WorkersOK' /\ RedisOK' /\ ScansOK' /\ CountOK'
    <2>1. WorkersOK'
      BY <1>1, <1>5, OtherWorkersOK DEF TimerStep
    <2> QED
      BY <1>3, <1>5, <2>1
      DEF TimerStep, RenewTick, CancelTick, RedisOK, redisVars, ScansOK, CountOK
  <1>6. ASSUME NEW r \in Scanners, ScannerStep(r)
        PROVE  WorkersOK' /\ RedisOK' /\ ScansOK' /\ CountOK'
    <2>1. ScansOK' /\ RedisOK'
      BY <1>6, RecoverOK DEF ScannerStep
    <2> QED
      BY <1>1, <1>3, <1>6, <2>1 DEF ScannerStep, WorkersOK, Vouched, CountOK
  <1>7. CASE UserStep
    BY <1>1, <1>7, UserOK
  <1>8. CASE FaultStep \/ TtlExpire
    BY <1>8, FaultOK
  <1>9. CASE UNCHANGED vars
    BY <1>1, <1>3, <1>9 DEF vars, WorkersOK, Vouched, RedisOK, ScansOK, CountOK
  <1> QED
    BY <1>4, <1>5, <1>6, <1>7, <1>8, <1>9 DEF LifecycleNext

LEMMA LifecycleInitInv == LifecycleInit => LifecycleInv
  <1> SUFFICES ASSUME LifecycleInit PROVE LifecycleInv
    OBVIOUS
  <1>1. LedgerInv
    BY InitInv DEF LifecycleInit
  <1>2. wk \in [Workers -> Attempts] /\ Vouched
    BY NoAttemptType DEF LifecycleInit, Vouched, Claims, NoAttempt
  <1>3. sc \in [Scanners -> Scans]
    BY DEF LifecycleInit, Scans, NoScan, ScannerPcs, RunStatuses, JobIds
  <1>4. /\ lease \in Holders /\ lock \in Holders
        /\ jobs \subseteq JobIds /\ faults \in 0..MaxFaults
    BY LifecycleAssumption DEF LifecycleInit, Holders, JobIds
  <1> QED
    BY <1>1, <1>2, <1>3, <1>4 DEF LifecycleInv, LifecycleTypeOK, LedgerInv

(* The inductive invariant holds of the running system, in every           *)
(* interleaving and under any number of faults.                            *)
THEOREM LifecycleInvariant == LifecycleSpec => []LifecycleInv
  BY LifecycleInitInv, LifecycleStepInv, PTL DEF LifecycleSpec

(* The state of the processes keeps its type: every path of the worker and *)
(* the scanner ends in a step that exists.                                 *)
THEOREM LifecycleTypeCorrect == LifecycleSpec => []LifecycleTypeOK
  BY LifecycleInvariant, PTL DEF LifecycleInv

(* Workers, scanners and users change the durable rows only by the         *)
(* transactions of RunLedger, guards included; in particular no path,      *)
(* recovery included, writes SUCCEEDED without the checkpoint.             *)
THEOREM LifecycleImplementsLedger == LifecycleSpec => ImplementsLedger
  <1>1. LifecycleInit => Init
    BY DEF LifecycleInit
  <1>2. LifecycleInv /\ [LifecycleNext]_vars => [Next]_ledgerVars
    BY StepIsLedger
  <1> QED
    BY <1>1, <1>2, LifecycleInvariant, PTL DEF LifecycleSpec, ImplementsLedger, Spec

(* Hence the running system keeps the promise to the owner of a Run.       *)
THEOREM LifecycleKeepsPromise == LifecycleSpec => KeepsPromise
  BY LifecycleImplementsLedger, LedgerKeepsPromise, PTL DEF ImplementsLedger

-----------------------------------------------------------------------------
(* The two Redis tokens.  What a step does to the worker that takes it     *)
(* and to the others.                                                      *)
Others(w) == \A v \in Workers : v # w => wk'[v] = wk[v]

Moves(w, pc, view, outcome) ==
  /\ Others(w)
  /\ wk'[w].pc = pc
  /\ wk'[w].view = view
  /\ wk'[w].outcome \in {outcome, "FAILED"}

LEMMA ForgetOutcome ==
  ASSUME NEW a \in Attempts
  PROVE  Forget(a).outcome \in {a.outcome, "FAILED"}
  <1> DEFINE carried == [NoAttempt EXCEPT !.pc = a.pc, !.job = a.job, !.view = a.view]
  <1>1. carried \in Attempts /\ carried.outcome = "FAILED"
    BY NoAttemptType DEF Attempts, NoAttempt
  <1>2. [carried EXCEPT !.outcome = a.outcome].outcome = a.outcome
    <2> HIDE DEF carried
    <2> QED
      BY <1>1 DEF Attempts
  <1>3. [a EXCEPT !.answer = 0, !.mine = {}].outcome = a.outcome
    BY DEF Attempts
  <1>4. \/ Forget(a) = carried
        \/ Forget(a) = [carried EXCEPT !.outcome = a.outcome]
        \/ Forget(a) = [a EXCEPT !.answer = 0, !.mine = {}]
        \/ Forget(a) = a
    BY Zenon DEF Forget
  <1> HIDE DEF carried
  <1> QED
    BY <1>1, <1>2, <1>3, <1>4

LEMMA BecomeMoves ==
  ASSUME WorkersOK, NEW w \in Workers, NEW a \in Attempts, Become(w, a)
  PROVE  Moves(w, a.pc, a.view, a.outcome)
  <1>1. /\ Forget(a) \in Attempts
        /\ Forget(a).pc = a.pc
        /\ Forget(a).view = a.view
        /\ Forget(a).outcome \in {a.outcome, "FAILED"}
    BY ForgetKeeps, ForgetOutcome
  <1>2. /\ wk' = [wk EXCEPT ![w] = Forget(a)]
        /\ wk \in [Workers -> Attempts]
    BY DEF Become, WorkersOK
  <1> QED
    BY <1>1, <1>2 DEF Moves, Others

LEMMA GotoMoves ==
  ASSUME WorkersOK, NEW w \in Workers, NEW pc \in WorkerPcs, Goto(w, pc)
  PROVE  Moves(w, pc, wk[w].view, wk[w].outcome)
  <1> DEFINE a == [wk[w] EXCEPT !.pc = pc]
  <1>1. /\ a \in Attempts /\ a.pc = pc /\ a.view = wk[w].view
        /\ a.outcome = wk[w].outcome
    BY DEF WorkersOK, Attempts
  <1>2. Become(w, a)
    BY DEF Goto
  <1> HIDE DEF a
  <1>3. Moves(w, a.pc, a.view, a.outcome)
    BY <1>1, <1>2, BecomeMoves
  <1> QED
    BY <1>1, <1>3

LEMMA ReadMoves ==
  ASSUME WorkersOK, LedgerTypeOK', NEW w \in Workers, NEW pc \in WorkerPcs,
         Read(w, pc)
  PROVE  Moves(w, pc, status', wk[w].outcome)
  <1> DEFINE a == [wk[w] EXCEPT !.pc = pc, !.view = status', !.seen = intent']
  <1>1. /\ a \in Attempts /\ a.pc = pc /\ a.view = status'
        /\ a.outcome = wk[w].outcome
    <2>1. /\ wk[w] \in Attempts
          /\ status' \in RunStatuses /\ intent' \in BOOLEAN
      BY DEF WorkersOK, LedgerTypeOK
    <2> QED
      BY <2>1 DEF Attempts
  <1>2. Become(w, a)
    BY DEF Read
  <1> HIDE DEF a
  <1>3. Moves(w, a.pc, a.view, a.outcome)
    BY <1>1, <1>2, BecomeMoves
  <1> QED
    BY <1>1, <1>3

LEMMA ReturnMoves ==
  ASSUME WorkersOK, NEW w \in Workers, NEW pc \in WorkerPcs,
         NEW outcome \in Outcomes, Return(w, outcome, pc)
  PROVE  Moves(w, pc, wk[w].view, outcome)
  <1> DEFINE a == [wk[w] EXCEPT !.pc = pc, !.outcome = outcome]
  <1>1. /\ a \in Attempts /\ a.pc = pc /\ a.view = wk[w].view
        /\ a.outcome = outcome
    BY DEF WorkersOK, Attempts
  <1>2. Become(w, a)
    BY DEF Return
  <1> HIDE DEF a
  <1>3. Moves(w, a.pc, a.view, a.outcome)
    BY <1>1, <1>2, BecomeMoves
  <1> QED
    BY <1>1, <1>3

PromptPcs == {"fence", "prompt", "park", "wrap", "checkpoint"}

(* A step inside an attempt neither ends it nor enters the runtime.        *)
Inside(w) ==
  /\ Others(w)
  /\ wk[w].pc # "idle"
  /\ wk'[w].pc # "idle"
  /\ wk'[w].pc \in PromptPcs => wk[w].pc \in PromptPcs

LEMMA EntryInside ==
  ASSUME LifecycleInv, LedgerTypeOK', NEW w \in Workers,
         \/ Load(w) \/ HonourCancel(w) \/ Advance(w) \/ Dispatch(w)
         \/ Claimed(w) \/ Recovered(w) \/ RefuseReentry(w) \/ Gate(w) \/ Prerun(w)
  PROVE  Inside(w)
  <1>1. WorkersOK
    BY DEF LifecycleInv, LifecycleTypeOK, WorkersOK
  <1>2. ASSUME NEW pc \in WorkerPcs \ (PromptPcs \cup {"idle"}), Goto(w, pc),
               wk[w].pc # "idle"
        PROVE  Inside(w)
    BY <1>1, <1>2, GotoMoves DEF Inside, Moves
  <1>3. ASSUME NEW pc \in WorkerPcs \ (PromptPcs \cup {"idle"}), Read(w, pc),
               wk[w].pc # "idle"
        PROVE  Inside(w)
    BY <1>1, <1>3, ReadMoves DEF Inside, Moves
  <1> USE DEF WorkerPcs, PromptPcs, At
  <1>4. CASE Load(w)
    BY <1>3, <1>4 DEF Load
  <1>5. CASE HonourCancel(w)
    BY <1>2, <1>5 DEF HonourCancel
  <1>6. CASE Advance(w)
    BY <1>2, <1>3, <1>6 DEF Advance, Cas
  <1>7. CASE Dispatch(w)
    <2>1. ASSUME NEW c \in ToolCalls,
                 Become(w, [wk[w] EXCEPT !.pc = "gate", !.view = status',
                                         !.seen = intent', !.answer = c])
          PROVE  Inside(w)
      <3> DEFINE b == [wk[w] EXCEPT !.pc = "gate", !.view = status',
                                    !.seen = intent']
                 a == [b EXCEPT !.answer = c]
      <3>1. b \in Attempts /\ b.pc = "gate"
        <4>1. /\ wk[w] \in Attempts
              /\ status' \in RunStatuses /\ intent' \in BOOLEAN
          BY <1>1 DEF WorkersOK, LedgerTypeOK
        <4> QED
          BY <4>1 DEF Attempts
      <3>2. Become(w, a)
        BY <2>1
      <3> HIDE DEF b
      <3>3. a \in Attempts /\ a.pc = "gate"
        BY <3>1 DEF Attempts
      <3> HIDE DEF a
      <3> QED
        BY <1>1, <1>7, <3>2, <3>3, BecomeMoves DEF Inside, Moves, Dispatch
    <2>2. ASSUME NEW pc \in {"finish", "done", "fail", "gate"}, Goto(w, pc)
          PROVE  Inside(w)
      BY <1>2, <1>7, <2>2 DEF Dispatch
    <2>3. CASE Read(w, "gate")
      BY <1>3, <1>7, <2>3 DEF Dispatch
    <2> QED
      BY <1>7, <2>1, <2>2, <2>3 DEF Dispatch
  <1>8. CASE Claimed(w)
    <2>1. ASSUME NEW c \in ToolCalls,
                 Become(w, [wk[w] EXCEPT !.pc = "gate", !.answer = c])
          PROVE  Inside(w)
      <3> DEFINE a == [wk[w] EXCEPT !.pc = "gate", !.answer = c]
      <3>1. a \in Attempts /\ a.pc = "gate"
        <4>1. wk[w] \in Attempts
          BY <1>1 DEF WorkersOK
        <4> QED
          BY <4>1 DEF Attempts
      <3>2. Become(w, a)
        BY <2>1
      <3> HIDE DEF a
      <3> QED
        BY <1>1, <1>8, <3>1, <3>2, BecomeMoves DEF Inside, Moves, Claimed
    <2>2. ASSUME NEW pc \in {"recovered", "reentry"}, Goto(w, pc)
          PROVE  Inside(w)
      BY <1>2, <1>8, <2>2 DEF Claimed
    <2> QED
      BY <1>8, <2>1, <2>2 DEF Claimed
  <1>9. CASE Recovered(w)
    BY <1>3, <1>9 DEF Recovered, Cas
  <1>10. CASE RefuseReentry(w)
    BY <1>2, <1>10 DEF RefuseReentry
  <1>11. CASE Gate(w)
    BY <1>2, <1>3, <1>11 DEF Gate, Cas
  <1>12. CASE Prerun(w)
    BY <1>2, <1>12 DEF Prerun
  <1> QED
    BY <1>4, <1>5, <1>6, <1>7, <1>8, <1>9, <1>10, <1>11, <1>12

LEMMA ExitInside ==
  ASSUME LifecycleInv, LedgerTypeOK', NEW w \in Workers,
         \/ Precancel(w) \/ ToCancelling(w, "tocancel", "finish")
         \/ ToCancelling(w, "stop", "reload") \/ Reload(w) \/ Finish(w)
         \/ Settle(w) \/ Apply(w)
  PROVE  Inside(w)
  <1>1. WorkersOK
    BY DEF LifecycleInv, LifecycleTypeOK, WorkersOK
  <1>2. ASSUME NEW pc \in WorkerPcs \ (PromptPcs \cup {"idle"}), Goto(w, pc),
               wk[w].pc # "idle"
        PROVE  Inside(w)
    BY <1>1, <1>2, GotoMoves DEF Inside, Moves
  <1>3. ASSUME NEW pc \in WorkerPcs \ (PromptPcs \cup {"idle"}), Read(w, pc),
               wk[w].pc # "idle"
        PROVE  Inside(w)
    BY <1>1, <1>3, ReadMoves DEF Inside, Moves
  <1> USE DEF WorkerPcs, PromptPcs, At
  <1>4. CASE Precancel(w)
    BY <1>2, <1>3, <1>4 DEF Precancel, Cas
  <1>5. CASE ToCancelling(w, "tocancel", "finish")
    BY <1>2, <1>3, <1>5 DEF ToCancelling, Cas
  <1>6. CASE ToCancelling(w, "stop", "reload")
    BY <1>2, <1>3, <1>6 DEF ToCancelling, Cas
  <1>7. CASE Reload(w) \/ Finish(w)
    BY <1>2, <1>3, <1>7 DEF Reload, Finish, Cas
  <1>8. CASE Settle(w)
    BY <1>2, <1>3, <1>8 DEF Settle
  <1>9. CASE Apply(w)
    BY <1>2, <1>3, <1>9 DEF Apply, Cas
  <1> QED
    BY <1>4, <1>5, <1>6, <1>7, <1>8, <1>9

LEMMA ExecutorInside ==
  ASSUME LifecycleInv, NEW w \in Workers,
         \/ AcquireFence(w) \/ SkipPrompt(w) \/ EndPark(w) \/ EndPrompt(w)
         \/ Wrap(w) \/ Checkpoint(w)
         \/ \E c \in ToolCalls : \/ StartTool(w, c) \/ EndTool(w, c)
                                \/ RequestApproval(w, c)
                                \/ RequestInteraction(w, c)
  PROVE  Inside(w)
  <1>1. WorkersOK
    BY DEF LifecycleInv, LifecycleTypeOK, WorkersOK
  <1>2. ASSUME NEW pc \in WorkerPcs \ {"idle"}, Goto(w, pc), wk[w].pc \in PromptPcs
        PROVE  Inside(w)
    BY <1>1, <1>2, GotoMoves DEF Inside, Moves, PromptPcs
  <1>3. ASSUME NEW pc \in WorkerPcs \ {"idle"}, NEW o \in Outcomes,
               Return(w, o, pc), wk[w].pc \in PromptPcs
        PROVE  Inside(w)
    BY <1>1, <1>3, ReturnMoves DEF Inside, Moves, PromptPcs
  <1> USE DEF WorkerPcs, PromptPcs, At, Outcomes
  <1>4. CASE AcquireFence(w) \/ SkipPrompt(w) \/ EndPark(w)
    BY <1>2, <1>3, <1>4 DEF AcquireFence, SkipPrompt, EndPark
  <1>5. CASE EndPrompt(w)
    BY <1>3, <1>5 DEF EndPrompt
  <1>6. CASE Wrap(w)
    BY <1>2, <1>3, <1>6 DEF Wrap
  <1>7. CASE Checkpoint(w)
    <2>1. wk[w].outcome \in Outcomes /\ wk[w].pc \in PromptPcs
      BY <1>1, <1>7 DEF WorkersOK, Attempts, Checkpoint
    <2>2. \E o \in Outcomes : Return(w, o, "settle")
      BY <1>7, <2>1 DEF Checkpoint
    <2> QED
      BY <1>3, <2>1, <2>2
  <1>8. ASSUME NEW c \in ToolCalls, StartTool(w, c) \/ EndTool(w, c)
        PROVE  Inside(w)
    BY <1>1, <1>8 DEF StartTool, EndTool, WorkersOK, Attempts, Inside, Others
  <1>9. ASSUME NEW c \in ToolCalls,
               RequestApproval(w, c) \/ RequestInteraction(w, c)
        PROVE  Inside(w)
    BY <1>3, <1>9 DEF RequestApproval, RequestInteraction
  <1> QED
    BY <1>4, <1>5, <1>6, <1>7, <1>8, <1>9

(* A step of an attempt: Take leaves idle with the lease, Exec enters the  *)
(* runtime with the lock, and every other step keeps both tokens.          *)
LEMMA AttemptTokens ==
  ASSUME LifecycleInv, LedgerTypeOK', NEW w \in Workers, Attempt(w)
  PROVE  /\ Others(w)
         /\ wk'[w].pc # "idle"
         /\ \/ wk[w].pc = "idle" /\ lease = None /\ lease' = w
            \/ wk[w].pc # "idle" /\ lease' = lease
         /\ \/ lock = None /\ lock' = w
            \/ lock' = lock /\ (wk'[w].pc \in PromptPcs => wk[w].pc \in PromptPcs)
  <1>1. WorkersOK
    BY DEF LifecycleInv, LifecycleTypeOK, WorkersOK
  <1>2. CASE Take(w)
    <2>1. PICK j \in jobs :
            wk' = [wk EXCEPT ![w] = [NoAttempt EXCEPT !.pc = "load", !.job = j]]
      BY <1>2 DEF Take
    <2>2. [NoAttempt EXCEPT !.pc = "load", !.job = j].pc = "load"
      BY DEF NoAttempt
    <2>3. Others(w) /\ wk'[w].pc = "load"
      BY <1>1, <2>1, <2>2 DEF WorkersOK, Others
    <2> QED
      BY <1>2, <2>3 DEF Take, At, PromptPcs
  <1>3. CASE Exec(w)
    <2>1. CASE Goto(w, "fence") /\ lock = None /\ lock' = w
      <3>1. Moves(w, "fence", wk[w].view, wk[w].outcome)
        BY <1>1, <2>1, GotoMoves DEF WorkerPcs
      <3> QED
        BY <1>3, <2>1, <3>1 DEF Exec, At, Moves
    <2>2. CASE Return(w, "FAILED", "settle") /\ UNCHANGED lock
      <3>1. Moves(w, "settle", wk[w].view, "FAILED")
        BY <1>1, <2>2, ReturnMoves DEF WorkerPcs, Outcomes
      <3> QED
        BY <1>3, <2>2, <3>1 DEF Exec, At, Moves, PromptPcs
    <2> QED
      BY <1>3, <2>1, <2>2 DEF Exec
  <1>4. CASE ~Take(w) /\ ~Exec(w)
    <2>1. lease' = lease /\ lock' = lock
      BY <1>4, AttemptRedis DEF redisVars
    <2>2. Inside(w)
      BY <1>4, EntryInside, ExitInside, ExecutorInside DEF Attempt
    <2> QED
      BY <2>1, <2>2 DEF Inside
  <1> QED
    BY <1>2, <1>3, <1>4

(* The lease covers the whole attempt, the session lock its runtime.       *)
LeaseHeld == \A w \in Workers : wk[w].pc # "idle" => lease = w
LockHeld  == \A w \in Prompting : lock = w

LEMMA EachTokenExcludes ==
  ASSUME LeaseHeld \/ LockHeld
  PROVE  OneRuntime
  BY DEF LeaseHeld, LockHeld, OneRuntime, Prompting

(* What the other processes do to a worker.                                *)
LEMMA ReleaseMoves ==
  ASSUME WorkersOK, NEW w \in Workers, Release(w) \/ Crash(w)
  PROVE  Others(w) /\ wk'[w] = NoAttempt /\ wk'[w].pc = "idle"
  <1>1. /\ wk' = [wk EXCEPT ![w] = NoAttempt]
        /\ wk \in [Workers -> Attempts]
    BY DEF Release, Crash, WorkersOK
  <1>2. Others(w) /\ wk'[w] = NoAttempt
    BY <1>1 DEF Others
  <1>3. NoAttempt.pc = "idle"
    BY DEF NoAttempt
  <1> QED
    BY <1>2, <1>3

LEMMA TimerMoves ==
  ASSUME WorkersOK, NEW w \in Workers, TimerStep(w)
  PROVE  Moves(w, wk[w].pc, wk[w].view, wk[w].outcome)
  BY DEF TimerStep, RenewTick, CancelTick, WorkersOK, Attempts, Moves, Others

LEMMA DbErrorMoves ==
  ASSUME WorkersOK, NEW w \in Workers, DbError(w)
  PROVE  Moves(w, "fail", wk[w].view, wk[w].outcome) /\ wk[w].pc # "idle"
  BY GotoMoves DEF DbError, WorkerPcs

(* The lease, unless it expires under a live attempt.                      *)
LEMMA LeaseStep ==
  ASSUME LifecycleInv, LedgerTypeOK', LeaseHeld, [LifecycleNext]_vars,
         ~LeaseExpire, ~RedisFlush
  PROVE  LeaseHeld'
  <1>1. WorkersOK /\ Dead \notin Workers /\ None \notin Workers
    BY LedgerAssumption, LifecycleAssumption
    DEF LifecycleInv, LifecycleTypeOK, WorkersOK, Workers
  <1>2. ASSUME NEW w \in Workers, WorkerStep(w)
        PROVE  LeaseHeld'
    <2>1. CASE Attempt(w)
      BY <1>1, <2>1, AttemptTokens DEF LeaseHeld, Others
    <2>2. CASE Release(w)
      BY <1>1, <2>2, ReleaseMoves DEF LeaseHeld, Others, Release
    <2> QED
      BY <1>2, <2>1, <2>2 DEF WorkerStep
  <1>3. ASSUME NEW w \in Workers, TimerStep(w)
        PROVE  LeaseHeld'
    <2>1. lease' = lease
      BY <1>3 DEF TimerStep, RenewTick, CancelTick, redisVars
    <2> QED
      BY <1>1, <1>3, <2>1, TimerMoves DEF LeaseHeld, Moves, Others
  <1>4. ASSUME wk' = wk, lease' = lease
        PROVE  LeaseHeld'
    BY <1>4 DEF LeaseHeld
  <1>5. ASSUME NEW r \in Scanners, ScannerStep(r)
        PROVE  LeaseHeld'
    <2>1. lease' = lease
      BY <1>5 DEF ScannerStep, Recover, Scan, Probe, Close, Reconcile, Project,
                  EnqueueJob, ProjectAccepted, ParkedCancel, Wake, redisVars
    <2> QED
      BY <1>4, <1>5, <2>1 DEF ScannerStep
  <1>6. CASE UserStep
    BY <1>4, <1>6 DEF UserStep, CancelRun, CancelIntent, Decide, Respond,
                      WakeWorker, redisVars
  <1>7. CASE FaultStep
    <2>1. ASSUME NEW w \in Workers, Crash(w)
          PROVE  LeaseHeld'
      BY <1>1, <2>1, ReleaseMoves DEF LeaseHeld, Others, Crash
    <2>2. ASSUME NEW w \in Workers, DbError(w)
          PROVE  LeaseHeld'
      <3>1. lease' = lease
        BY <2>2 DEF DbError, redisVars
      <3> QED
        BY <1>1, <2>2, <3>1, DbErrorMoves DEF LeaseHeld, Moves, Others
    <2> QED
      BY <1>4, <1>7, <2>1, <2>2
      DEF FaultStep, LeaseBusy, ScannerCrash, LockExpire, redisVars
  <1>8. CASE TtlExpire
    BY <1>1, <1>8 DEF TtlExpire, LeaseHeld
  <1>9. CASE UNCHANGED vars
    BY <1>4, <1>9 DEF vars
  <1> QED
    BY <1>2, <1>3, <1>5, <1>6, <1>7, <1>8, <1>9 DEF LifecycleNext

(* The session lock, unless it expires under a live runtime.               *)
LEMMA LockStep ==
  ASSUME LifecycleInv, LedgerTypeOK', LockHeld, [LifecycleNext]_vars,
         ~LockExpire, ~RedisFlush
  PROVE  LockHeld'
  <1>1. WorkersOK /\ Dead \notin Workers /\ None \notin Workers
    BY LedgerAssumption, LifecycleAssumption
    DEF LifecycleInv, LifecycleTypeOK, WorkersOK, Workers
  <1> USE DEF LockHeld, Prompting
  <1>2. ASSUME NEW w \in Workers, WorkerStep(w)
        PROVE  LockHeld'
    <2>1. CASE Attempt(w)
      BY <1>1, <2>1, AttemptTokens DEF Others, PromptPcs
    <2>2. CASE Release(w)
      BY <1>1, <2>2, ReleaseMoves DEF Others, Release
    <2> QED
      BY <1>2, <2>1, <2>2 DEF WorkerStep
  <1>3. ASSUME NEW w \in Workers, TimerStep(w)
        PROVE  LockHeld'
    <2>1. lock' = lock
      BY <1>3 DEF TimerStep, RenewTick, CancelTick, redisVars
    <2> QED
      BY <1>1, <1>3, <2>1, TimerMoves DEF Moves, Others
  <1>4. ASSUME wk' = wk, lock' = lock
        PROVE  LockHeld'
    BY <1>4
  <1>5. ASSUME NEW r \in Scanners, ScannerStep(r)
        PROVE  LockHeld'
    <2>1. lock' = lock
      BY <1>5 DEF ScannerStep, Recover, Scan, Probe, Close, Reconcile, Project,
                  EnqueueJob, ProjectAccepted, ParkedCancel, Wake, redisVars
    <2> QED
      BY <1>4, <1>5, <2>1 DEF ScannerStep
  <1>6. CASE UserStep
    BY <1>4, <1>6 DEF UserStep, CancelRun, CancelIntent, Decide, Respond,
                      WakeWorker, redisVars
  <1>7. CASE FaultStep
    <2>1. ASSUME NEW w \in Workers, Crash(w)
          PROVE  LockHeld'
      BY <1>1, <2>1, ReleaseMoves DEF Others, Crash
    <2>2. ASSUME NEW w \in Workers, DbError(w)
          PROVE  LockHeld'
      <3>1. lock' = lock
        BY <2>2 DEF DbError, redisVars
      <3> QED
        BY <1>1, <2>2, <3>1, DbErrorMoves DEF Moves, Others
    <2> QED
      BY <1>4, <1>7, <2>1, <2>2
      DEF FaultStep, LeaseBusy, ScannerCrash, LeaseExpire, redisVars
  <1>8. CASE TtlExpire
    BY <1>1, <1>8 DEF TtlExpire
  <1>9. CASE UNCHANGED vars
    BY <1>4, <1>9 DEF vars
  <1> QED
    BY <1>2, <1>3, <1>5, <1>6, <1>7, <1>8, <1>9 DEF LifecycleNext

(* A live attempt is covered by the tokens that are left.                  *)
TokensHeld ==
  /\ LifecycleInv
  /\ \/ LeaseHeld /\ "lease" \notin Faults
     \/ LockHeld /\ "lock" \notin Faults
     \/ MaxFaults <= 1 /\ faults = 0 /\ LeaseHeld /\ LockHeld
     \/ MaxFaults <= 1 /\ faults = 1 /\ (LeaseHeld \/ LockHeld)

LEMMA TokensStep ==
  ASSUME "redis" \notin Faults, TokensHeld, [LifecycleNext]_vars
  PROVE  TokensHeld'
  <1>1. LifecycleInv /\ LifecycleInv' /\ LedgerTypeOK'
    BY LifecycleStepInv DEF TokensHeld, LifecycleInv, LedgerInv
  <1>2. ~RedisFlush
    BY DEF RedisFlush, Fault
  <1>3. /\ faults \in Nat /\ faults' \in Nat /\ MaxFaults \in Nat
        /\ faults <= MaxFaults /\ faults' <= MaxFaults
    BY <1>1, LifecycleAssumption DEF LifecycleInv, LifecycleTypeOK
  <1>4. /\ LeaseExpire => "lease" \in Faults /\ lock' = lock /\ wk' = wk
                          /\ faults < MaxFaults /\ faults' = faults + 1
        /\ LockExpire => "lock" \in Faults /\ lease' = lease /\ wk' = wk
                          /\ faults < MaxFaults /\ faults' = faults + 1
    BY DEF LeaseExpire, LockExpire, Fault
  <1>5. /\ LeaseHeld /\ ~LeaseExpire => LeaseHeld'
        /\ LockHeld /\ ~LockExpire => LockHeld'
    BY <1>1, <1>2, LeaseStep, LockStep
  <1>6. /\ LeaseExpire /\ LockHeld => LockHeld'
        /\ LockExpire /\ LeaseHeld => LeaseHeld'
    BY <1>4 DEF LeaseHeld, LockHeld, Prompting
  <1>7. faults' \in {faults, faults + 1}
    <2>1. CASE \E w \in Workers : WorkerStep(w) \/ TimerStep(w)
      BY <2>1 DEF WorkerStep, TimerStep, Release
    <2>2. CASE UserStep \/ TtlExpire \/ \E r \in Scanners : ScannerStep(r)
      BY <2>2 DEF UserStep, TtlExpire, ScannerStep
    <2>3. CASE FaultStep
      BY <2>3 DEF FaultStep, Crash, DbError, ScannerCrash, LeaseExpire, LockExpire,
                  RedisFlush, Fault
    <2>4. CASE UNCHANGED vars
      BY <2>4 DEF vars
    <2> QED
      BY <2>1, <2>2, <2>3, <2>4 DEF LifecycleNext
  <1>8. CASE LeaseHeld /\ "lease" \notin Faults
    BY <1>1, <1>4, <1>5, <1>8 DEF TokensHeld
  <1>9. CASE LockHeld /\ "lock" \notin Faults
    BY <1>1, <1>4, <1>5, <1>9 DEF TokensHeld
  <1>10. CASE MaxFaults <= 1 /\ faults = 0 /\ LeaseHeld /\ LockHeld
    <2>1. (faults' = 0 \/ faults' = 1)
      BY <1>3, <1>7, <1>10
    <2>2. faults' = 0 => LeaseHeld' /\ LockHeld'
      BY <1>3, <1>4, <1>5, <1>10
    <2>3. LeaseHeld' \/ LockHeld'
      BY <1>4, <1>5, <1>6, <1>10
    <2> QED
      BY <1>1, <1>10, <2>1, <2>2, <2>3 DEF TokensHeld
  <1>11. CASE MaxFaults <= 1 /\ faults = 1 /\ (LeaseHeld \/ LockHeld)
    <2>1. faults' = 1 /\ ~LeaseExpire /\ ~LockExpire
      BY <1>3, <1>4, <1>7, <1>11
    <2> QED
      BY <1>1, <1>5, <1>11, <2>1 DEF TokensHeld
  <1> QED
    BY <1>8, <1>9, <1>10, <1>11 DEF TokensHeld

(* One runtime per session, for every number of workers, scanners and      *)
(* crashes: the lease alone is enough while it does not expire early, the  *)
(* session lock alone while it does not, and when either may, the other    *)
(* covers a single expiry.  Only a Redis that loses both at once is left.  *)
THEOREM OneRuntimePerSession ==
  ASSUME "redis" \notin Faults,
         "lease" \notin Faults \/ "lock" \notin Faults \/ MaxFaults <= 1
  PROVE  LifecycleSpec => []OneRuntime
  <1>1. LifecycleInit => TokensHeld
    <2> SUFFICES ASSUME LifecycleInit PROVE TokensHeld
      OBVIOUS
    <2>1. \A w \in Workers : wk[w].pc = "idle"
      BY DEF LifecycleInit, NoAttempt
    <2>2. LeaseHeld /\ LockHeld /\ faults = 0
      BY <2>1 DEF LeaseHeld, LockHeld, Prompting, LifecycleInit
    <2> QED
      BY <2>2, LifecycleInitInv DEF TokensHeld
  <1>2. TokensHeld /\ [LifecycleNext]_vars => TokensHeld'
    BY TokensStep
  <1>3. TokensHeld => OneRuntime
    BY EachTokenExcludes DEF TokensHeld
  <1> QED
    BY <1>1, <1>2, <1>3, PTL DEF LifecycleSpec

-----------------------------------------------------------------------------
(* The outbox of a Run's events.                                           *)

(* Occurrences of event e in the stream, and the publishers whose claim    *)
(* still allows them to append it.                                         *)
Sent(e)     == {i \in DOMAIN entries : entries[i] = e}
Entitled(e) == {p \in Publishers : e \in pub[p].batch /\ pub[p].sent # e}

(* A row exists for committed events only and a claim holds rows that      *)
(* exist, so that nothing but committed events can reach the stream.       *)
RowsCommitted ==
  /\ \A e \in Rows : row[e].status = "NONE" => row[e].attempts = 0
  /\ \A e \in Rows : row[e].status # "NONE" => e <= committed
  /\ \A p \in Publishers : pub[p].batch \subseteq 1..committed

(* What a publisher is about to settle went out.                           *)
SentIsOut ==
  \A p \in Publishers :
    pub[p].sent # 0 => pub[p].sent \in Rows /\ Sent(pub[p].sent) # {}

(* The attempts of a row count its claims, and bound the appends done and  *)
(* still to be done under them.                                            *)
ClaimsBound ==
  /\ \A e \in Rows : row[e].attempts <= claims
  /\ \A e \in Rows : Cardinality(Sent(e)) + Cardinality(Entitled(e))
                       <= row[e].attempts

(* The inductive invariant.                                                *)
OutboxInv ==
  /\ OutboxTypeOK
  /\ RowsCommitted
  /\ SentIsOut
  /\ PublishedWasSent
  /\ ClaimsBound

-----------------------------------------------------------------------------
(* Both sets are finite, so that their sizes can be compared.              *)
LEMMA SentFinite ==
  ASSUME StreamTypeOK, NEW e
  PROVE  IsFiniteSet(Sent(e)) /\ Cardinality(Sent(e)) \in Nat
<1>1. DOMAIN entries = 1..Len(entries) /\ Len(entries) \in Nat
  BY DEF StreamTypeOK
<1>2. IsFiniteSet(1..Len(entries))
  BY <1>1, FS_Interval
<1>3. Sent(e) \subseteq 1..Len(entries)
  BY <1>1 DEF Sent
<1>4. QED
  BY <1>2, <1>3, FS_Subset, FS_CardinalityType

LEMMA EntitledFinite ==
  ASSUME NEW e
  PROVE  IsFiniteSet(Entitled(e)) /\ Cardinality(Entitled(e)) \in Nat
<1>1. Entitled(e) \subseteq Publishers
  BY DEF Entitled
<1>2. QED
  BY <1>1, OutboxConstants, FS_Subset, FS_CardinalityType DEF OutboxAssumption

(* XADD adds one occurrence of the event it carries and no other.          *)
LEMMA XAddOccurrences ==
  ASSUME StreamTypeOK, NEW e \in Rows, XAdd(e)
  PROVE  /\ StreamTypeOK'
         /\ \A f \in Rows : Sent(f) \subseteq Sent(f)'
         /\ Sent(e)' # {}
         /\ Cardinality(Sent(e)') = Cardinality(Sent(e)) + 1
         /\ \A f \in Rows \ {e} : Sent(f)' = Sent(f)
<1> DEFINE n == Len(entries)
<1>1. n \in Nat /\ DOMAIN entries = 1..n /\ entries' = Append(entries, e)
  BY DEF StreamTypeOK, XAdd
<1>2. DOMAIN entries' = 1..(n + 1) /\ Len(entries') = n + 1
  BY <1>1 DEF StreamTypeOK, Rows
<1>3. entries'[n + 1] = e /\ \A i \in 1..n : entries'[i] = entries[i]
  BY <1>1 DEF StreamTypeOK, Rows
<1>4. Sent(e)' = Sent(e) \cup {n + 1} /\ n + 1 \notin Sent(e)
  BY <1>1, <1>2, <1>3 DEF Sent
<1>5. \A f \in Rows \ {e} : Sent(f)' = Sent(f)
  BY <1>1, <1>2, <1>3 DEF Sent
<1>6. Cardinality(Sent(e)') = Cardinality(Sent(e)) + 1
  BY <1>4, SentFinite, FS_AddElement
<1>7. StreamTypeOK'
  <2>1. entries' \in Seq(1..MaxEvents)
    BY <1>1 DEF StreamTypeOK, Rows
  <2>2. kept' \in 0..(n + 1)
    BY <1>1, OutboxConstants DEF StreamAssumption, XAdd, Trims, StreamTypeOK
  <2>3. QED
    BY <2>1, <2>2, <1>2 DEF StreamTypeOK, XAdd, journalVars
<1>8. QED
  BY <1>4, <1>5, <1>6, <1>7

-----------------------------------------------------------------------------
(* The first events of a Run.                                              *)
LEMMA OutboxInvInit == OutboxInit => OutboxInv
<1> SUFFICES ASSUME OutboxInit PROVE OutboxInv
  OBVIOUS
<1> USE OutboxConstants DEF StreamAssumption, OutboxAssumption, OutboxInit, StreamInit
<1>1. OutboxTypeOK
  BY DEF OutboxTypeOK, StreamTypeOK, Rows, RowStatuses, Fresh, NoOutboxRow, Idle
<1>2. RowsCommitted
  BY DEF RowsCommitted, Rows, Fresh, NoOutboxRow, Idle
<1>3. SentIsOut
  BY DEF SentIsOut, Idle
<1>4. PublishedWasSent
  BY DEF PublishedWasSent, Having, Fresh, NoOutboxRow
<1>5. ClaimsBound
  <2>1. \A e \in Rows : row[e].attempts = 0
    BY DEF Fresh, NoOutboxRow
  <2>2. \A e \in Rows : Sent(e) = {} /\ Entitled(e) = {}
    BY DEF Sent, Entitled, Idle
  <2>3. Cardinality({}) = 0
    BY FS_EmptySet
  <2>4. \A e \in Rows : Cardinality(Sent(e)) = 0 /\ Cardinality(Entitled(e)) = 0
    BY <2>2, <2>3, Zenon
  <2>5. QED
    BY <2>1, <2>4 DEF ClaimsBound
<1>6. QED
  BY <1>1, <1>2, <1>3, <1>4, <1>5 DEF OutboxInv

-----------------------------------------------------------------------------
(* An event commits together with its row.                                 *)
LEMMA RecordPreserves ==
  ASSUME OutboxInv, Record
  PROVE  OutboxInv'
<1> USE OutboxConstants DEF StreamAssumption, OutboxAssumption
<1>1. /\ committed \in Nat /\ committed' \in 0..MaxEvents
      /\ committed <= committed'
      /\ UNCHANGED <<entries, kept, pub, claims, crashes>>
  BY DEF Record, Commit, CommitTerminal, OutboxInv, OutboxTypeOK, StreamTypeOK
<1>2. \A e \in Rows :
        /\ row'[e].attempts = row[e].attempts
        /\ \/ row'[e] = row[e]
           \/ row'[e].status = "PENDING" /\ e <= committed'
  BY <1>1 DEF Record, InsertRows, OutboxInv, RowsCommitted, Rows, Fresh
<1>3. OutboxTypeOK'
  <2>1. StreamTypeOK'
    BY <1>1 DEF Record, Commit, CommitTerminal, OutboxInv, OutboxTypeOK, StreamTypeOK
  <2>2. row' \in [Rows -> [status : RowStatuses, token : 0..MaxClaims,
                           attempts : 0..MaxClaims]]
    BY DEF Record, InsertRows, OutboxInv, OutboxTypeOK, Fresh, RowStatuses
  <2>3. QED
    BY <1>1, <2>1, <2>2 DEF OutboxInv, OutboxTypeOK
<1>4. RowsCommitted'
  BY <1>1, <1>2 DEF OutboxInv, RowsCommitted, Rows
<1>5. SentIsOut'
  BY <1>1 DEF OutboxInv, SentIsOut, Sent
<1>6. PublishedWasSent'
  BY <1>1, <1>2 DEF OutboxInv, PublishedWasSent, Having
<1>7. ClaimsBound'
  <2>2. \A e \in Rows : Sent(e)' = Sent(e) /\ Entitled(e)' = Entitled(e)
    BY <1>1 DEF Sent, Entitled
  <2>3. QED
    BY <1>1, <1>2, <2>2 DEF OutboxInv, ClaimsBound
<1>8. QED
  BY <1>3, <1>4, <1>5, <1>6, <1>7 DEF OutboxInv

(* A claim entitles its publisher, idle before, to one more append of each *)
(* row of the batch, and counts one more attempt of each.                  *)
LEMMA ClaimPreserves ==
  ASSUME OutboxInv, NEW p \in Publishers, ClaimBatch(p)
  PROVE  OutboxInv'
<1> USE OutboxConstants DEF StreamAssumption, OutboxAssumption
<1>1. /\ OutboxTypeOK /\ RowsCommitted /\ SentIsOut /\ PublishedWasSent /\ ClaimsBound
      /\ claims \in Nat /\ MaxClaims \in Nat
  BY DEF OutboxInv, OutboxTypeOK
<1>2. PICK stale \in SUBSET Having("PUBLISHING"), later \in SUBSET Having("PENDING") :
        ClaimBatch(p)!(stale, later)
  BY DEF ClaimBatch, StaleClaims
<1>3. PICK batch \in SUBSET (Due(later) \cup stale) :
        ClaimBatch(p)!(stale, later)!1!4!(batch)
  BY <1>2
<1>4. /\ pub[p] = Idle
      /\ claims < MaxClaims /\ claims' = claims + 1
      /\ UNCHANGED <<committed, terminal, final, entries, kept, crashes>>
  BY <1>2 DEF streamVars
<1>5. batch \subseteq Rows /\ \A e \in batch : row[e].status \in {"PENDING", "PUBLISHING"}
  BY DEF Due, Having
<1>6. /\ pub'[p].batch = batch /\ pub'[p].sent = 0
      /\ \A q \in Publishers \ {p} : pub'[q] = pub[q]
  BY <1>1, <1>3 DEF OutboxTypeOK
<1>7. ASSUME NEW e \in batch
      PROVE  /\ row'[e].status = "PUBLISHING"
             /\ row'[e].attempts = row[e].attempts + 1
  BY <1>3, <1>5
<1>8. ASSUME NEW e \in Rows \ batch
      PROVE  /\ row'[e].attempts = row[e].attempts
             /\ \/ row'[e] = row[e]
                \/ row[e].status = "PUBLISHING" /\ row'[e].status = "PENDING"
  <2>1. row[e] \in [status : RowStatuses, token : 0..MaxClaims, attempts : 0..MaxClaims]
    BY <1>1 DEF OutboxTypeOK
  <2>2. CASE e \in stale
    <3>1. row[e].status = "PUBLISHING"
      BY <2>2 DEF Having
    <3>2. row'[e] = [row[e] EXCEPT !.status = "PENDING", !.token = 0]
      BY <1>3, <2>2
    <3>3. QED
      BY <2>1, <3>1, <3>2
  <2>3. CASE e \notin stale
    BY <1>3, <2>3
  <2>4. QED
    BY <2>2, <2>3
<1>9. \A e \in Rows : row[e].attempts \in Nat /\ row[e].attempts <= claims
  BY <1>1 DEF OutboxTypeOK, ClaimsBound
<1>10. OutboxTypeOK'
  <2>1. claims + 1 \in 0..MaxClaims /\ 0 \in 0..MaxClaims /\ 0 \in 0..MaxEvents
    BY <1>1, <1>4
  <2>2. \A e \in Rows : row[e].attempts + 1 \in 0..MaxClaims
    BY <1>1, <1>4, <1>9
  <2>3. row' \in [Rows -> [status : RowStatuses, token : 0..MaxClaims,
                           attempts : 0..MaxClaims]]
    <3> DEFINE RT == [status : RowStatuses, token : 0..MaxClaims,
                      attempts : 0..MaxClaims]
               next(e) == IF e \in batch
                          THEN [status |-> "PUBLISHING", token |-> claims + 1,
                                attempts |-> row[e].attempts + 1]
                          ELSE IF e \in stale
                          THEN [row[e] EXCEPT !.status = "PENDING", !.token = 0]
                          ELSE row[e]
    <3>1. row' = [e \in Rows |-> next(e)]
      BY <1>3
    <3>2. ASSUME NEW e \in Rows PROVE next(e) \in RT
      <4>1. row[e] \in RT
        BY <1>1 DEF OutboxTypeOK
      <4>2. [status |-> "PUBLISHING", token |-> claims + 1,
             attempts |-> row[e].attempts + 1] \in RT
        BY <2>1, <2>2 DEF RowStatuses
      <4>3. [row[e] EXCEPT !.status = "PENDING", !.token = 0] \in RT
        BY <2>1, <4>1 DEF RowStatuses
      <4>4. QED
        BY <4>1, <4>2, <4>3
    <3> HIDE DEF RT, next
    <3>3. row' \in [Rows -> RT]
      BY <3>1, <3>2
    <3>4. QED
      BY <3>3 DEF RT
  <2>4. pub' \in [Publishers -> [batch : SUBSET Rows, token : 0..MaxClaims,
                                 sent : 0..MaxEvents]]
    BY <1>1, <1>3, <1>5, <2>1 DEF OutboxTypeOK
  <2>5. QED
    BY <1>1, <1>4, <2>1, <2>3, <2>4 DEF OutboxTypeOK, StreamTypeOK
<1>11. RowsCommitted'
  <2>1. committed \in Nat /\ MaxEvents \in Nat
    BY <1>1 DEF OutboxTypeOK, StreamTypeOK
  <2>2. batch \subseteq 1..committed
    BY <1>1, <1>5, <2>1 DEF RowsCommitted, Rows
  <2>3. ASSUME NEW e \in Rows
        PROVE  /\ row'[e].status = "NONE" => row'[e].attempts = 0
               /\ row'[e].status # "NONE" => e <= committed
    <3>1. CASE e \in batch
      BY <1>7, <2>1, <2>2, <3>1
    <3>2. CASE e \notin batch
      BY <1>1, <1>8, <3>2 DEF RowsCommitted
    <3>3. QED
      BY <3>1, <3>2
  <2>4. \A q \in Publishers : pub'[q].batch \subseteq 1..committed
    BY <1>1, <1>6, <2>2 DEF RowsCommitted
  <2>5. QED
    BY <1>4, <2>3, <2>4 DEF RowsCommitted
<1>12. \A e \in Rows : Sent(e)' = Sent(e)
  BY <1>4 DEF Sent
<1>13. SentIsOut'
  BY <1>1, <1>4, <1>6 DEF SentIsOut, Sent
<1>14. PublishedWasSent'
  <2>1. \A e \in Rows : row'[e].status = "PUBLISHED" => row[e].status = "PUBLISHED"
    BY <1>7, <1>8
  <2>2. QED
    BY <1>1, <1>4, <2>1 DEF PublishedWasSent, Having
<1>15. ClaimsBound'
  <2>1. \A e \in Rows : row'[e].attempts <= claims'
    BY <1>1, <1>4, <1>7, <1>8, <1>9
  <2>2. ASSUME NEW e \in batch
        PROVE  Cardinality(Sent(e)') + Cardinality(Entitled(e)') <= row'[e].attempts
    <3>1. Entitled(e)' = Entitled(e) \cup {p} /\ p \notin Entitled(e)
      BY <1>4, <1>5, <1>6 DEF Entitled, Idle, Rows
    <3>2. Cardinality(Entitled(e)') = Cardinality(Entitled(e)) + 1
      BY <3>1, EntitledFinite, FS_AddElement
    <3>3. Cardinality(Sent(e)') = Cardinality(Sent(e))
      BY <1>5, <1>12
    <3>4. /\ Cardinality(Sent(e)) + Cardinality(Entitled(e)) <= row[e].attempts
          /\ row[e].attempts \in Nat
      BY <1>1, <1>5, <1>9 DEF ClaimsBound
    <3>5. Cardinality(Sent(e)) \in Nat /\ Cardinality(Entitled(e)) \in Nat
      BY <1>1, EntitledFinite, SentFinite DEF OutboxTypeOK
    <3>6. QED
      BY <3>2, <3>3, <3>4, <3>5, <1>7
  <2>3. ASSUME NEW e \in Rows \ batch
        PROVE  Cardinality(Sent(e)') + Cardinality(Entitled(e)') <= row'[e].attempts
    <3>1. Entitled(e)' = Entitled(e)
      BY <1>4, <1>6 DEF Entitled, Idle
    <3>2. row'[e].attempts = row[e].attempts
      BY <1>8, Zenon
    <3>3. Sent(e)' = Sent(e)
      BY <1>12
    <3>4. QED
      BY <3>1, <3>2, <3>3, <1>1 DEF ClaimsBound
  <2>4. QED
    BY <2>1, <2>2, <2>3 DEF ClaimsBound
<1>16. QED
  BY <1>10, <1>11, <1>13, <1>14, <1>15 DEF OutboxInv

(* An append uses up one entitlement and leaves one more occurrence.       *)
LEMMA AppendPreserves ==
  ASSUME OutboxInv, NEW p \in Publishers, NEW e \in Rows, AppendRow(p, e)
  PROVE  OutboxInv'
<1>1. /\ OutboxTypeOK /\ StreamTypeOK /\ RowsCommitted /\ SentIsOut
      /\ PublishedWasSent /\ ClaimsBound
  BY DEF OutboxInv, OutboxTypeOK
<1>2. /\ pub[p].sent = 0 /\ e \in pub[p].batch /\ XAdd(e)
      /\ pub' = [pub EXCEPT ![p].sent = e]
      /\ UNCHANGED <<committed, terminal, final, row, claims, crashes>>
  BY DEF AppendRow, XAdd, journalVars
<1>3. /\ StreamTypeOK'
      /\ \A f \in Rows : Sent(f) \subseteq Sent(f)'
      /\ Sent(e)' # {}
      /\ Cardinality(Sent(e)') = Cardinality(Sent(e)) + 1
      /\ \A f \in Rows \ {e} : Sent(f)' = Sent(f)
  BY <1>1, <1>2, XAddOccurrences
<1>4. /\ pub'[p].batch = pub[p].batch /\ pub'[p].sent = e
      /\ \A q \in Publishers \ {p} : pub'[q] = pub[q]
  BY <1>1, <1>2 DEF OutboxTypeOK
<1>5. OutboxTypeOK'
  <2> DEFINE PT == [batch : SUBSET Rows, token : 0..MaxClaims, sent : 0..MaxEvents]
  <2>1. pub' \in [Publishers -> PT]
    <3>1. pub \in [Publishers -> PT]
      BY <1>1 DEF OutboxTypeOK
    <3>2. e \in 0..MaxEvents
      BY DEF Rows
    <3>3. [pub[p] EXCEPT !.sent = e] \in PT
      BY <3>1, <3>2
    <3> HIDE DEF PT
    <3>4. QED
      BY <1>2, <3>1, <3>3
  <2>2. QED
    BY <1>1, <1>2, <1>3, <2>1 DEF OutboxTypeOK
<1>6. RowsCommitted'
  BY <1>1, <1>2, <1>4 DEF RowsCommitted
<1>7. SentIsOut'
  BY <1>1, <1>3, <1>4 DEF SentIsOut
<1>8. PublishedWasSent'
  <2>1. \A f \in Having("PUBLISHED") : Sent(f) # {} /\ f \in Rows
    BY <1>1 DEF PublishedWasSent, Sent, Having
  <2>2. \A f \in Having("PUBLISHED")' : Sent(f)' # {}
    BY <1>2, <1>3, <2>1 DEF Having
  <2>3. QED
    BY <2>2 DEF PublishedWasSent, Sent
<1>9. ClaimsBound'
  <2>1. \A f \in Rows : row'[f].attempts <= claims'
    BY <1>1, <1>2 DEF ClaimsBound
  <2>2. Cardinality(Sent(e)') + Cardinality(Entitled(e)') <= row'[e].attempts
    <3>1. Entitled(e)' = Entitled(e) \ {p} /\ p \in Entitled(e)
      BY <1>2, <1>4 DEF Entitled, Rows
    <3>2. Cardinality(Entitled(e)') = Cardinality(Entitled(e)) - 1
      BY <3>1, EntitledFinite, FS_RemoveElement
    <3>3. Cardinality(Sent(e)) \in Nat /\ Cardinality(Entitled(e)) \in Nat
      BY <1>1, EntitledFinite, SentFinite
    <3>4. QED
      BY <1>1, <1>2, <1>3, <3>2, <3>3 DEF ClaimsBound
  <2>3. ASSUME NEW f \in Rows \ {e}
        PROVE  Cardinality(Sent(f)') + Cardinality(Entitled(f)') <= row'[f].attempts
    <3>1. Entitled(f)' = Entitled(f)
      BY <1>2, <1>4 DEF Entitled, Rows
    <3>2. Sent(f)' = Sent(f)
      BY <1>3
    <3>3. QED
      BY <1>1, <1>2, <3>1, <3>2 DEF ClaimsBound
  <2>4. QED
    BY <2>1, <2>2, <2>3 DEF ClaimsBound
<1>10. QED
  BY <1>5, <1>6, <1>7, <1>8, <1>9 DEF OutboxInv

(* Settling a row, whether the claim still holds it or not: it may become  *)
(* PUBLISHED only if it went out, and the publisher gives up what it had   *)
(* to do with it.                                                          *)
LEMMA SettlePreserves ==
  ASSUME OutboxInv, NEW p \in Publishers, NEW e \in Rows,
         NEW s \in {"PENDING", "FAILED", "PUBLISHED"},
         s = "PUBLISHED" => Sent(e) # {},
         pub[p].sent \in {0, e},
         SettleRow(p, e, s),
         pub' = [pub EXCEPT ![p] = Rest(p, {e})],
         UNCHANGED <<streamVars, claims, crashes>>
  PROVE  OutboxInv'
<1>1. /\ OutboxTypeOK /\ StreamTypeOK /\ RowsCommitted /\ SentIsOut
      /\ PublishedWasSent /\ ClaimsBound
  BY DEF OutboxInv, OutboxTypeOK
<1>2. UNCHANGED <<committed, terminal, final, entries, kept, claims, crashes>>
  BY DEF streamVars
<1>3. row' = row \/ (HoldsClaim(p, e) /\ row' = [row EXCEPT ![e].status = s, ![e].token = 0])
  BY DEF SettleRow
<1>4. ASSUME NEW f \in Rows
      PROVE  /\ row'[f].attempts = row[f].attempts
             /\ \/ row'[f] = row[f]
                \/ f = e /\ row[e].status # "NONE" /\ row'[e].status = s
  <2>1. row[f] \in [status : RowStatuses, token : 0..MaxClaims, attempts : 0..MaxClaims]
    BY <1>1 DEF OutboxTypeOK
  <2>2. row \in [Rows -> [status : RowStatuses, token : 0..MaxClaims, attempts : 0..MaxClaims]]
    BY <1>1 DEF OutboxTypeOK
  <2>3. QED
    BY <1>3, <2>1, <2>2 DEF HoldsClaim
<1>5. /\ pub'[p].batch \subseteq pub[p].batch \ {e} /\ pub'[p].sent = 0
      /\ \A q \in Publishers \ {p} : pub'[q] = pub[q]
  BY <1>1 DEF OutboxTypeOK, Rest, Idle
<1>6. OutboxTypeOK'
  <2>1. row' \in [Rows -> [status : RowStatuses, token : 0..MaxClaims, attempts : 0..MaxClaims]]
    BY <1>1, <1>3, OutboxConstants DEF OutboxTypeOK, RowStatuses, OutboxAssumption
  <2>2. Rest(p, {e}) \in [batch : SUBSET Rows, token : 0..MaxClaims, sent : 0..MaxEvents]
    <3>1. 0 \in 0..MaxClaims /\ 0 \in 0..MaxEvents
      BY OutboxConstants DEF OutboxAssumption, StreamAssumption
    <3>2. pub[p] \in [batch : SUBSET Rows, token : 0..MaxClaims, sent : 0..MaxEvents]
      BY <1>1 DEF OutboxTypeOK
    <3>3. QED
      BY <3>1, <3>2 DEF Rest, Idle
  <2>3. pub' \in [Publishers -> [batch : SUBSET Rows, token : 0..MaxClaims,
                                 sent : 0..MaxEvents]]
    BY <1>1, <2>2 DEF OutboxTypeOK
  <2>4. QED
    BY <1>1, <1>2, <2>1, <2>3 DEF OutboxTypeOK, StreamTypeOK
<1>7. RowsCommitted'
  <2>1. ASSUME NEW f \in Rows
        PROVE  /\ row'[f].status = "NONE" => row'[f].attempts = 0
               /\ row'[f].status # "NONE" => f <= committed
    BY <1>1, <1>4 DEF RowsCommitted
  <2>2. \A q \in Publishers : pub'[q].batch \subseteq 1..committed
    BY <1>1, <1>5 DEF RowsCommitted
  <2>3. QED
    BY <1>2, <2>1, <2>2 DEF RowsCommitted
<1>8. \A f \in Rows : Sent(f)' = Sent(f)
  BY <1>2 DEF Sent
<1>9. SentIsOut'
  BY <1>1, <1>2, <1>5 DEF SentIsOut, Sent
<1>10. PublishedWasSent'
  <2>1. \A f \in Having("PUBLISHED") : Sent(f) # {} /\ f \in Rows
    BY <1>1 DEF PublishedWasSent, Sent, Having
  <2>2. \A f \in Having("PUBLISHED")' : Sent(f)' # {}
    BY <1>4, <1>8, <2>1 DEF Having
  <2>3. QED
    BY <2>2 DEF PublishedWasSent, Sent
<1>11. ClaimsBound'
  <2>1. ASSUME NEW f \in Rows
        PROVE  Cardinality(Sent(f)') + Cardinality(Entitled(f)') <= row'[f].attempts
    <3>1. Entitled(f)' \subseteq Entitled(f)
      BY <1>5 DEF Entitled, Rows
    <3>2. Cardinality(Entitled(f)') <= Cardinality(Entitled(f)) /\ Cardinality(Entitled(f)') \in Nat
      BY <3>1, EntitledFinite, FS_Subset, FS_CardinalityType
    <3>3. Cardinality(Sent(f)) \in Nat /\ Cardinality(Entitled(f)) \in Nat /\ Sent(f)' = Sent(f)
      BY <1>1, <1>8, EntitledFinite, SentFinite
    <3>4. row'[f].attempts = row[f].attempts /\ row[f].attempts \in Nat
      BY <1>1, <1>4 DEF OutboxTypeOK
    <3>5. QED
      BY <1>1, <3>2, <3>3, <3>4 DEF ClaimsBound
  <2>2. QED
    BY <1>1, <1>2, <1>4, <2>1 DEF ClaimsBound
<1>12. QED
  BY <1>6, <1>7, <1>9, <1>10, <1>11 DEF OutboxInv

(* A publisher that dies takes its entitlements with it.                   *)
LEMMA CrashPreserves ==
  ASSUME OutboxInv, NEW p \in Publishers, CrashPublisher(p)
  PROVE  OutboxInv'
<1>1. /\ OutboxTypeOK /\ StreamTypeOK /\ RowsCommitted /\ SentIsOut
      /\ PublishedWasSent /\ ClaimsBound
  BY DEF OutboxInv, OutboxTypeOK
<1>2. /\ UNCHANGED <<committed, terminal, final, entries, kept, row, claims>>
      /\ crashes' \in 0..MaxCrashes
      /\ pub' = [pub EXCEPT ![p] = Idle]
  BY <1>1, OutboxConstants DEF CrashPublisher, streamVars, OutboxTypeOK, OutboxAssumption
<1>3. /\ pub'[p].batch = {} /\ pub'[p].sent = 0
      /\ \A q \in Publishers \ {p} : pub'[q] = pub[q]
  BY <1>1, <1>2 DEF OutboxTypeOK, Idle
<1>4. OutboxTypeOK'
  <2>1. Idle \in [batch : SUBSET Rows, token : 0..MaxClaims, sent : 0..MaxEvents]
    BY OutboxConstants DEF Idle, OutboxAssumption, StreamAssumption
  <2>2. pub' \in [Publishers -> [batch : SUBSET Rows, token : 0..MaxClaims,
                                 sent : 0..MaxEvents]]
    BY <1>1, <1>2, <2>1 DEF OutboxTypeOK
  <2>3. QED
    BY <1>1, <1>2, <2>2 DEF OutboxTypeOK, StreamTypeOK
<1>5. RowsCommitted'
  BY <1>1, <1>2, <1>3 DEF RowsCommitted
<1>6. SentIsOut' /\ PublishedWasSent'
  BY <1>1, <1>2, <1>3 DEF SentIsOut, PublishedWasSent, Sent, Having
<1>7. ClaimsBound'
  <2>1. ASSUME NEW f \in Rows
        PROVE  Cardinality(Sent(f)') + Cardinality(Entitled(f)') <= row'[f].attempts
    <3>1. Entitled(f)' \subseteq Entitled(f) /\ Sent(f)' = Sent(f)
      BY <1>2, <1>3 DEF Entitled, Sent
    <3>2. Cardinality(Entitled(f)') <= Cardinality(Entitled(f)) /\ Cardinality(Entitled(f)') \in Nat
      BY <3>1, EntitledFinite, FS_Subset, FS_CardinalityType
    <3>3. Cardinality(Sent(f)) \in Nat /\ Cardinality(Entitled(f)) \in Nat
      BY <1>1, EntitledFinite, SentFinite
    <3>4. row'[f].attempts = row[f].attempts /\ row[f].attempts \in Nat
      BY <1>1, <1>2 DEF OutboxTypeOK
    <3>5. QED
      BY <1>1, <3>1, <3>2, <3>3, <3>4 DEF ClaimsBound
  <2>2. QED
    BY <1>1, <1>2, <2>1 DEF ClaimsBound
<1>8. QED
  BY <1>4, <1>5, <1>6, <1>7 DEF OutboxInv

(* Redis losing the stream changes no row: kept moves, entries stays the   *)
(* record of what was ever added.                                          *)
LEMMA LosePreserves ==
  ASSUME OutboxInv, LoseStream
  PROVE  OutboxInv'
<1>1. UNCHANGED <<committed, terminal, final, entries, row, pub, claims, crashes>>
  BY DEF LoseStream, Lose, journalVars
<1>2. OutboxTypeOK'
  BY <1>1 DEF OutboxInv, OutboxTypeOK, StreamTypeOK, LoseStream, Lose
<1>3. RowsCommitted' /\ SentIsOut' /\ PublishedWasSent'
  BY <1>1 DEF OutboxInv, RowsCommitted, SentIsOut, PublishedWasSent, Sent, Having
<1>4. ClaimsBound'
  <2>1. \A f \in Rows : Sent(f)' = Sent(f) /\ Entitled(f)' = Entitled(f)
    BY <1>1 DEF Sent, Entitled
  <2>2. QED
    BY <1>1, <2>1 DEF OutboxInv, ClaimsBound
<1>5. QED
  BY <1>2, <1>3, <1>4 DEF OutboxInv

(* One step per action.                                                    *)
LEMMA OutboxInvNext == OutboxInv /\ [OutboxNext]_outboxVars => OutboxInv'
<1> SUFFICES ASSUME OutboxInv, [OutboxNext]_outboxVars
             PROVE  OutboxInv'
  OBVIOUS
<1>1. CASE Record
  BY <1>1, RecordPreserves
<1>2. CASE LoseStream
  BY <1>2, LosePreserves
<1>3. ASSUME NEW p \in Publishers, ClaimBatch(p) PROVE OutboxInv'
  BY <1>3, ClaimPreserves
<1>4. ASSUME NEW p \in Publishers, AckRow(p) PROVE OutboxInv'
  <2>1. pub[p].sent \in Rows /\ Sent(pub[p].sent) # {}
    BY <1>4 DEF AckRow, OutboxInv, SentIsOut
  <2>2. /\ SettleRow(p, pub[p].sent, "PUBLISHED")
        /\ pub' = [pub EXCEPT ![p] = Rest(p, {pub[p].sent})]
        /\ UNCHANGED <<streamVars, claims, crashes>>
    BY <1>4 DEF AckRow, AfterAck
  <2>3. QED
    BY <2>1, <2>2, SettlePreserves
<1>5. ASSUME NEW p \in Publishers, NEW e \in Rows, AppendRow(p, e)
      PROVE  OutboxInv'
  BY <1>5, AppendPreserves
<1>6. ASSUME NEW p \in Publishers, NEW e \in Rows, RetryRow(p, e)
      PROVE  OutboxInv'
  <2>1. PICK s \in {"PENDING", "FAILED"} : SettleRow(p, e, s)
    BY <1>6 DEF RetryRow
  <2>2. /\ pub[p].sent = 0
        /\ pub' = [pub EXCEPT ![p] = Rest(p, {e})]
        /\ UNCHANGED <<streamVars, claims, crashes>>
    BY <1>6 DEF RetryRow
  <2>3. QED
    BY <2>1, <2>2, SettlePreserves
<1>7. ASSUME NEW p \in Publishers, CrashPublisher(p) PROVE OutboxInv'
  BY <1>7, CrashPreserves
<1>8. CASE UNCHANGED outboxVars
  <2>1. UNCHANGED <<committed, terminal, final, entries, kept, row, pub, claims, crashes>>
    BY <1>8 DEF outboxVars
  <2>2. \A f \in Rows : Sent(f)' = Sent(f) /\ Entitled(f)' = Entitled(f)
    BY <2>1 DEF Sent, Entitled
  <2>3. OutboxTypeOK' /\ RowsCommitted' /\ SentIsOut' /\ PublishedWasSent'
    BY <2>1 DEF OutboxInv, OutboxTypeOK, StreamTypeOK, RowsCommitted, SentIsOut,
                PublishedWasSent, Sent, Having
  <2>4. ClaimsBound'
    BY <2>1, <2>2 DEF OutboxInv, ClaimsBound
  <2>5. QED
    BY <2>3, <2>4 DEF OutboxInv
<1>9. QED
  BY <1>1, <1>2, <1>3, <1>4, <1>5, <1>6, <1>7, <1>8 DEF OutboxNext, PublishOnce

-----------------------------------------------------------------------------
(* The publishers keep the inductive invariant for ever.                   *)
THEOREM OutboxInvariant == OutboxSpec => []OutboxInv
<1>1. QED
  BY OutboxInvInit, OutboxInvNext, PTL DEF OutboxSpec

(* Rows, batches and counters stay in their ranges: the attempts of a row  *)
(* never exceed the claim transactions.                                    *)
THEOREM OutboxTypes == OutboxSpec => []OutboxTypeOK
<1>1. OutboxInv => OutboxTypeOK
  BY DEF OutboxInv
<1>2. QED
  BY <1>1, OutboxInvariant, PTL

(* markPublished never settles a row whose event is not in the stream,     *)
(* with any number of publishers, stale reclaims and crashes.              *)
THEOREM PublishedRowsWereSent == OutboxSpec => []PublishedWasSent
<1>1. OutboxInv => PublishedWasSent
  BY DEF OutboxInv
<1>2. QED
  BY <1>1, OutboxInvariant, PTL

(* However many publishers hold the same row after stale reclaims, its     *)
(* event is appended at most once per claim.                               *)
THEOREM AppendsOncePerClaim == OutboxSpec => []SentOncePerClaim
<1>1. ASSUME OutboxInv PROVE SentOncePerClaim
  <2>1. ASSUME NEW e \in Rows
        PROVE  Cardinality(Sent(e)) <= row[e].attempts
    <3>1. Cardinality(Sent(e)) \in Nat /\ Cardinality(Entitled(e)) \in Nat
      BY <1>1, EntitledFinite, SentFinite DEF OutboxInv, OutboxTypeOK
    <3>2. row[e].attempts \in Nat
      BY <1>1 DEF OutboxInv, OutboxTypeOK
    <3>3. QED
      BY <1>1, <3>1, <3>2 DEF OutboxInv, ClaimsBound
  <2>2. QED
    BY <2>1 DEF SentOncePerClaim, Sent
<1>2. QED
  BY <1>1, OutboxInvariant, PTL

(* The outbox implements the event stream: recording is a commit, an       *)
(* append publishes a committed event, losing the stream loses it, and     *)
(* claims, settlements and crashes do not touch it.                        *)
THEOREM OutboxImplementsStream == OutboxSpec => ImplementsStream
<1>1. OutboxInit => StreamInit
  BY DEF OutboxInit
<1>2. ASSUME OutboxInv, [OutboxNext]_outboxVars
      PROVE  [StreamNext]_streamVars
  <2>1. CASE Record
    BY <2>1 DEF Record, StreamNext
  <2>2. CASE LoseStream
    BY <2>2 DEF LoseStream, StreamNext
  <2>3. ASSUME NEW p \in Publishers, NEW e \in Rows, AppendRow(p, e)
        PROVE  StreamNext
    <3>1. e \in 1..committed
      BY <1>2, <2>3 DEF AppendRow, OutboxInv, RowsCommitted
    <3>2. QED
      BY <2>3, <3>1 DEF AppendRow, StreamNext, Publish, Rows
  <2>4. ASSUME NEW p \in Publishers,
               \/ ClaimBatch(p) \/ AckRow(p) \/ CrashPublisher(p)
               \/ \E e \in Rows : RetryRow(p, e)
        PROVE  UNCHANGED streamVars
    BY <2>4 DEF ClaimBatch, AckRow, CrashPublisher, RetryRow
  <2>5. CASE UNCHANGED outboxVars
    BY <2>5 DEF outboxVars, streamVars
  <2>6. QED
    BY <1>2, <2>1, <2>2, <2>3, <2>4, <2>5 DEF OutboxNext, PublishOnce
<1>3. QED
  BY <1>1, <1>2, OutboxInvariant, PTL DEF OutboxSpec, ImplementsStream, StreamSpec
===============================================================================
