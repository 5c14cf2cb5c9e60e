------------------------------- MODULE ChatStore -------------------------------
(***************************************************************************)
(* The entity store of the browser for one run: the reducer of its events  *)
(* (runReducer and its branches), the two streams that feed it (the        *)
(* sender's streamRunEvents and the connection manager) and the bridge     *)
(* that writes what HTTP answers say (entityBridge), with every await a    *)
(* step of its own.                                                        *)
(*                                                                         *)
(* The server publishes a script of events, and what it answers to a       *)
(* request is the state after some number of them between the request and  *)
(* the answer.  Texts are the numbers of the deltas they are made of.      *)
(***************************************************************************)
EXTENDS Naturals, Sequences, FiniteSets

CONSTANTS Script,      \* which script the run follows
          MaxChunk,    \* bound: events one read of a stream brings
          MaxGaps,     \* maxGapRecoveries
          MaxRetries,  \* maxRetries of the manager
          MaxDrops,    \* bound: connections lost
          MaxRestores, \* bound: conversations opened
          Acts         \* what the user does: "stop", "restore", "logout", ...

ChatStoreAssumption ==
    /\ Script \in {"plain", "approval", "review"}
    /\ {MaxChunk, MaxGaps, MaxRetries, MaxDrops, MaxRestores} \subseteq Nat
    /\ Acts \subseteq {"stop", "restore", "logout", "away", "reload"}

VARIABLES len,      \* events the server has published
          decided,  \* the approval has its decision
          view,     \* the run in the entity store
          seen,     \* seenEventIds of the run
          sender,   \* streamRunEvents of the tab that sent the message
          conn,     \* the manager's connection
          tasks,    \* what awaits an answer
          focus,    \* the active conversation and focusRevision
          drops, restores

vars == <<len, decided, view, seen, sender, conn, tasks, focus, drops, restores>>

-----------------------------------------------------------------------------
(* The server. *)

Log ==
    CASE Script = "plain" ->
           <<"run.accepted", "run.started", "message.delta", "message.delta",
             "message.completed", "run.completed">>
      [] Script = "approval" ->
           <<"run.started", "tool.call.proposed", "approval.requested",
             "approval.resolved", "tool.execution.started",
             "tool.execution.completed", "message.delta", "run.completed">>
      [] Script = "review" ->
           <<"run.started", "message.delta", "artifact.ready", "run.completed",
             "artifact.released">>

EndOfRun == CHOOSE n \in 1 .. Len(Log) : Log[n] = "run.completed"

\* The last of the events up to n that are of one of the kinds.
LastOf(kinds, n) ==
    LET hits == {k \in 1 .. n : Log[k] \in kinds}
    IN IF hits = {} THEN "none"
       ELSE Log[CHOOSE k \in hits : \A h \in hits : h <= k]

\* The status of the run row, in the words of rehydrateRun.
RowStatus(n) ==
    CASE n >= EndOfRun -> "succeeded"
      [] LastOf({"approval.requested", "approval.resolved"}, n) = "approval.requested"
           -> "waiting_approval"
      [] LastOf({"run.started"}, n) = "run.started" -> "running"
      [] OTHER -> "queued"

\* The status of the tool in the ledger, in the words of ledgerToolStatus.
RowTool(n) ==
    CASE LastOf({"tool.execution.completed"}, n) # "none" -> "completed"
      [] LastOf({"tool.execution.started"}, n) # "none" -> "running"
      [] LastOf({"approval.requested", "approval.resolved"}, n) = "approval.requested"
           -> "waiting_approval"
      [] LastOf({"tool.call.proposed"}, n) # "none" -> "prepared"
      [] OTHER -> "none"

\* The run goes on; it waits for the decision of its approval.
Publish ==
    /\ len < Len(Log)
    /\ Log[len + 1] = "approval.resolved" => decided
    /\ len' = len + 1
    /\ UNCHANGED <<decided, view, seen, sender, conn, tasks, focus, drops, restores>>

-----------------------------------------------------------------------------
(* The reducer. *)

Terminal(status) == status \in {"succeeded", "failed", "cancelled", "interrupted"}

\* createRun and its parts, before any event; local is history, the numbers
\* that events of the client have taken.
NoRun == [known |-> FALSE, status |-> "queued", seq |-> 0, text |-> << >>,
          open |-> FALSE, tool |-> "none", approval |-> "none", artifact |-> "none",
          local |-> {}]

\* mapPlatformEventType.
Aliases ==
    [platform \in {"run.accepted", "tool.call.proposed", "tool.execution.started",
                   "tool.execution.completed", "approval.requested", "artifact.ready"} |->
        CASE platform = "run.accepted" -> "run.created"
          [] platform = "tool.call.proposed" -> "tool.prepared"
          [] platform = "tool.execution.started" -> "tool.started"
          [] platform = "tool.execution.completed" -> "tool.completed"
          [] platform = "approval.requested" -> "tool.approval_required"
          [] platform = "artifact.ready" -> "artifact.created"]

\* normalizeToRuntimeEvent.
RuntimeEvent(n) ==
    [id |-> n, sequence |-> n,
     type |-> IF Log[n] \in DOMAIN Aliases THEN Aliases[Log[n]] ELSE Log[n]]

\* An event of the client: applyLocalRunEvent.
LocalEvent(type) == [id |-> Len(Log) + view.seq + 1, sequence |-> view.seq + 1,
                     type |-> type]

\* classifyEvent without the event ids.
ClassifyBySequence(v, ids, e) ==
    CASE e.sequence <= v.seq -> "duplicate"
      [] OTHER -> "applied"

\* classifyEvent.
ClassifyEvent(v, ids, e) ==
    CASE e.id \in ids -> "duplicate"
      [] e.sequence <= v.seq -> "duplicate"
      [] e.sequence > v.seq + 1 -> "gap"
      [] OTHER -> "applied"

\* run.*: the status, and the messages a completed run leaves streaming.
ReduceRun(v, e) ==
    CASE e.type = "run.created" -> [v EXCEPT !.status = "queued"]
      [] e.type = "run.started" -> [v EXCEPT !.status = "running"]
      [] e.type = "run.completed" -> [v EXCEPT !.status = "succeeded", !.open = FALSE]
      [] e.type = "run.interrupted" -> [v EXCEPT !.status = "interrupted"]
      [] e.type = "run.failed" -> [v EXCEPT !.status = "failed"]
      [] OTHER -> v

\* A delta starts a message or goes on the one that is streaming.
ReduceMessage(v, e) ==
    CASE e.type = "message.delta" ->
           [v EXCEPT !.text = Append(@, e.sequence), !.open = TRUE]
      [] e.type = "message.completed" -> [v EXCEPT !.open = FALSE]
      [] OTHER -> v

\* tool.prepared, tool.started and the ends of a tool.
ReduceTool(v, e) ==
    CASE e.type = "tool.prepared" -> [v EXCEPT !.tool = "prepared"]
      [] e.type = "tool.started" ->
           [v EXCEPT !.tool = IF @ = "waiting_approval" THEN @ ELSE "running",
                     !.status = "running"]
      [] e.type = "tool.completed" -> [v EXCEPT !.tool = "completed"]
      [] OTHER -> v

\* An approval that was decided here stays decided.
ReduceApproval(v, e) ==
    CASE e.type = "tool.approval_required" ->
           [v EXCEPT !.approval = IF @ = "approved" THEN @ ELSE "pending",
                     !.tool = IF v.tool = "none" THEN "none" ELSE "waiting_approval",
                     !.status = IF v.approval = "approved" THEN @
                                ELSE "waiting_approval"]
      [] e.type = "approval.resolved" ->
           [v EXCEPT !.approval = "approved",
                     !.tool = IF @ = "none" THEN @ ELSE "running",
                     !.status = IF @ = "waiting_approval" THEN "running" ELSE @]
      [] OTHER -> v

\* An artifact, and what the review decided about one that is known.
ReduceArtifact(v, e) ==
    CASE e.type = "artifact.created" -> [v EXCEPT !.artifact = "pending"]
      [] e.type = "artifact.released" ->
           [v EXCEPT !.artifact = IF @ = "none" THEN @ ELSE "released"]
      [] OTHER -> v

\* reduceRuntimeEvent; one event belongs to one branch.
Reduced(v, e) ==
    LET run == ReduceRun([v EXCEPT !.known = TRUE], e)
        rest == ReduceArtifact(ReduceApproval(ReduceTool(ReduceMessage(run, e), e), e), e)
    IN [rest EXCEPT !.seq = e.sequence,
                    !.local = IF e.id > Len(Log) THEN @ \cup {e.sequence} ELSE @]

\* handleRuntimeEvent for the events of a chunk, one after the other.
Handled(events) ==
    LET after[k \in 0 .. Len(events)] ==
          IF k = 0 THEN [view |-> view, seen |-> seen, gaps |-> 0, applied |-> 0]
          ELSE LET r == after[k - 1]
                   e == events[k]
                   outcome == ClassifyEvent(r.view, r.seen, e)
               IN CASE outcome = "applied" ->
                         [view |-> Reduced(r.view, e), seen |-> r.seen \cup {e.id},
                          gaps |-> r.gaps, applied |-> r.applied + 1]
                    [] outcome = "gap" -> [r EXCEPT !.gaps = @ + 1]
                    [] OTHER -> r
    IN after[Len(events)]

-----------------------------------------------------------------------------
(* Tasks. *)

NoTask == [step |-> "none", asked |-> 0, base |-> NoRun, detail |-> 0, tools |-> 0,
           held |-> NoRun, revision |-> 0]

\* A request is sent: the answer is what the server has from now on.
Asks(t, step) == [t EXCEPT !.step = step, !.asked = len]

Answers(t) == t.asked .. len

\* A task is started unless it is running (reconcileInFlight for reconcile).
Starts(ts, k) ==
    IF ts[k].step # "none" THEN ts
    ELSE [ts EXCEPT ![k] = [Asks(NoTask, "first") EXCEPT !.base = view,
                                                         !.revision = focus.revision]]

\* sameRunRevision.
SameRunRevision(v, w) == v.known = w.known /\ v.seq = w.seq /\ v.status = w.status

\* The row's status and its cursor.
RehydrateWithCursor(v, n) == [v EXCEPT !.known = TRUE, !.status = RowStatus(n), !.seq = n]

\* rehydrateRun: the row's status, never its cursor.
RehydrateRun(v, n) == [v EXCEPT !.known = TRUE, !.status = RowStatus(n)]

\* rehydrateToolExecutions.
RehydrateTools(v, n) ==
    IF RowTool(n) = "none" THEN v ELSE [v EXCEPT !.tool = RowTool(n)]

\* rehydratePendingApprovals.
RehydrateApprovals(v, n) ==
    IF RowStatus(n) = "waiting_approval" THEN [v EXCEPT !.approval = "pending"] ELSE v

-----------------------------------------------------------------------------
(* The streams. *)

Live == conn.status = "live"

\* disconnect, when an applied event ended the run.
AfterEvents(c, r) ==
    IF r.applied > 0 /\ Terminal(r.view.status) THEN [c EXCEPT !.status = "closed"]
    ELSE c

\* The events a stream at a cursor brings with one read; the server ends a
\* stream with the run's last event.
Chunk(cursor, k) == [i \in 1 .. k |-> RuntimeEvent(cursor + i)]
Readable(cursor, k) == cursor + k <= len /\ cursor + k <= EndOfRun

\* streamRunEvents: the cursor is what was received, applied or not.
SenderReads(k) ==
    LET r == Handled(Chunk(sender.cursor, k))
    IN /\ sender.on
       /\ Readable(sender.cursor, k)
       /\ view' = r.view
       /\ seen' = r.seen
       /\ sender' = [sender EXCEPT !.cursor = @ + k]
       /\ conn' = AfterEvents(conn, r)
       /\ UNCHANGED <<len, decided, tasks, focus, drops, restores>>

\* The stream ended, the run has: sendMessage reconciles.
SenderEnds ==
    /\ sender.on
    /\ sender.cursor = EndOfRun
    /\ sender' = [sender EXCEPT !.on = FALSE]
    /\ tasks' = Starts(tasks, "reconcile")
    /\ UNCHANGED <<len, decided, view, seen, conn, focus, drops, restores>>

\* failRun and interruptRun.
AppliesLocal(type) ==
    LET r == Handled(<<LocalEvent(type)>>)
    IN /\ view' = r.view
       /\ seen' = r.seen
       /\ conn' = AfterEvents(conn, r)

\* The stream and the request for the run fail: failRun.
SenderFails ==
    /\ sender.on
    /\ drops < MaxDrops
    /\ drops' = drops + 1
    /\ sender' = [sender EXCEPT !.on = FALSE]
    /\ AppliesLocal("run.failed")
    /\ UNCHANGED <<len, decided, tasks, focus, restores>>

\* stopRun: the transports are aborted, the run is marked as interrupted, and
\* the tab reads it until it has ended.
Stop ==
    /\ "stop" \in Acts
    /\ sender.on
    /\ sender' = [sender EXCEPT !.on = FALSE]
    /\ LET r == Handled(<<LocalEvent("run.interrupted")>>)
       IN /\ view' = r.view
          /\ seen' = r.seen
    /\ conn' = [conn EXCEPT !.status = IF @ = "idle" THEN @ ELSE "closed"]
    /\ tasks' = Starts(tasks, "reconcile")
    /\ UNCHANGED <<len, decided, focus, drops, restores>>

\* connect; streamLoop takes the cursor of the store.
Connected(v) ==
    IF Live THEN conn
    ELSE [conn EXCEPT !.status = "live", !.cursor = v.seq, !.gaps = 0, !.retries = 0]

\* Another subscription from what was applied.
Resubscribed(c, v) == [c EXCEPT !.cursor = v.seq]

\* A gap: the event is not applied, the stream is opened again, and in the
\* end the run is reconciled.
ManagerReads(k) ==
    LET r == Handled(Chunk(conn.cursor, k))
        gaps == conn.gaps + r.gaps
        read == [conn EXCEPT !.cursor = @ + k, !.gaps = gaps]
    IN /\ Live
       /\ Readable(conn.cursor, k)
       /\ view' = r.view
       /\ seen' = r.seen
       /\ conn' = CASE gaps > MaxGaps -> [read EXCEPT !.status = "error"]
                    [] r.gaps > 0 -> Resubscribed(read, r.view)
                    [] OTHER -> AfterEvents(read, r)
       /\ tasks' = IF gaps > MaxGaps THEN Starts(tasks, "reconcile") ELSE tasks
       /\ UNCHANGED <<len, decided, sender, focus, drops, restores>>

\* The stream is opened again as often as it ends.
ManagerRetriesForever ==
    /\ conn' = [Resubscribed(conn, view) EXCEPT !.retries = @ + 1]
    /\ UNCHANGED tasks

\* streamLoop when the body ended: closed with the run, or tried again.
ManagerRetries ==
    IF Terminal(view.status)
    THEN conn' = [conn EXCEPT !.status = "closed"] /\ UNCHANGED tasks
    ELSE IF conn.retries < MaxRetries
    THEN /\ conn' = [Resubscribed(conn, view) EXCEPT !.retries = @ + 1]
         /\ UNCHANGED tasks
    ELSE /\ conn' = [conn EXCEPT !.status = "error"]
         /\ tasks' = Starts(tasks, "reconcile")

ManagerEnds ==
    /\ Live
    /\ conn.cursor >= EndOfRun
    /\ ManagerRetries
    /\ UNCHANGED <<len, decided, view, seen, sender, focus, drops, restores>>

\* The connection is lost.
ManagerDrops ==
    /\ Live
    /\ drops < MaxDrops
    /\ drops' = drops + 1
    /\ ManagerRetries
    /\ UNCHANGED <<len, decided, view, seen, sender, focus, restores>>

-----------------------------------------------------------------------------
(* reconcileRun. *)

\* The row; then the tools and the trace.
ReconcileDetail(n) ==
    LET t == tasks["reconcile"]
    IN /\ t.step = "first"
       /\ tasks' = [tasks EXCEPT !["reconcile"] = [Asks(t, "tools") EXCEPT !.detail = n]]
       /\ UNCHANGED <<len, decided, view, seen, sender, conn, focus, drops, restores>>

\* A store that went on is left alone.
ReconcileTools(n) ==
    LET t == tasks["reconcile"]
        next == RehydrateTools(RehydrateRun(view, t.detail), n)
        waits == next.status = "waiting_approval"
    IN /\ t.step = "tools"
       /\ IF view.seq # t.base.seq
          THEN /\ tasks' = [tasks EXCEPT !["reconcile"] = NoTask]
               /\ UNCHANGED view
          ELSE /\ tasks' = [tasks EXCEPT !["reconcile"] =
                              IF waits THEN [Asks(t, "approvals") EXCEPT !.held = next]
                              ELSE NoTask]
               /\ view' = IF waits THEN view ELSE next
       /\ UNCHANGED <<len, decided, seen, sender, conn, focus, drops, restores>>

\* The store made before the request for the approvals is written.
WriteHeld(k, n) == RehydrateApprovals(tasks[k].held, n)

ReconcileApprovals(n) ==
    /\ tasks["reconcile"].step = "approvals"
    /\ view' = WriteHeld("reconcile", n)
    /\ tasks' = [tasks EXCEPT !["reconcile"] = NoTask]
    /\ UNCHANGED <<len, decided, seen, sender, conn, focus, drops, restores>>

-----------------------------------------------------------------------------
(* rehydrateInProgress, after a decision. *)

\* The list: a run that has ended is left.
ResumeList(n) ==
    LET t == tasks["resume"]
    IN /\ t.step = "first"
       /\ tasks' = [tasks EXCEPT !["resume"] =
                      IF Terminal(RowStatus(n)) THEN NoTask ELSE Asks(t, "detail")]
       /\ UNCHANGED <<len, decided, view, seen, sender, conn, focus, drops, restores>>

ResumeDetail(n) ==
    LET t == tasks["resume"]
    IN /\ t.step = "detail"
       /\ view' = RehydrateRun(view, n)
       /\ tasks' = [tasks EXCEPT !["resume"] = [Asks(t, "tools") EXCEPT !.base = view']]
       /\ UNCHANGED <<len, decided, seen, sender, conn, focus, drops, restores>>

\* The tools, on a store that did not go on; then the approvals of a run
\* that waits, or the connection.
ResumeTools(n) ==
    LET t == tasks["resume"]
        next == IF SameRunRevision(t.base, view) THEN RehydrateTools(view, n) ELSE view
        waits == next.status = "waiting_approval"
    IN /\ t.step = "tools"
       /\ view' = next
       /\ tasks' = [tasks EXCEPT !["resume"] =
                      IF waits THEN [Asks(t, "approvals") EXCEPT !.held = next] ELSE NoTask]
       /\ conn' = IF waits THEN conn ELSE Connected(next)
       /\ UNCHANGED <<len, decided, seen, sender, focus, drops, restores>>

ResumeApprovals(n) ==
    /\ tasks["resume"].step = "approvals"
    /\ view' = WriteHeld("resume", n)
    /\ tasks' = [tasks EXCEPT !["resume"] = NoTask]
    /\ conn' = Connected(view')
    /\ UNCHANGED <<len, decided, seen, sender, focus, drops, restores>>

-----------------------------------------------------------------------------
(* rehydrateConversation, when a conversation is opened. *)

\* The timeline: the events are replayed, and the row has the last word.
RestoreTimeline(n) ==
    LET t == tasks["restore"]
        r == Handled(Chunk(0, n))
        next == RehydrateRun(r.view, n)
    IN /\ t.step = "first"
       /\ view' = next
       /\ seen' = r.seen
       /\ conn' = AfterEvents(conn, r)
       /\ tasks' = [tasks EXCEPT !["restore"] =
                      [Asks(t, "tools") EXCEPT !.base = next, !.detail = n]]
       /\ UNCHANGED <<len, decided, sender, focus, drops, restores>>

\* The tools; a run that goes on is read again.
RestoreTools(n) ==
    LET t == tasks["restore"]
    IN /\ t.step = "tools"
       /\ view' = IF SameRunRevision(t.base, view) THEN RehydrateTools(view, n) ELSE view
       /\ tasks' = [tasks EXCEPT !["restore"] =
                      IF Terminal(RowStatus(t.detail)) THEN Asks(t, "focus")
                      ELSE Asks(t, "live")]
       /\ UNCHANGED <<len, decided, seen, sender, conn, focus, drops, restores>>

\* The row as it is now, and the connection.
RestoreLive(n) ==
    LET t == tasks["restore"]
    IN /\ t.step = "live"
       /\ view' = RehydrateRun(view, n)
       /\ conn' = Connected(view')
       /\ tasks' = [tasks EXCEPT !["restore"] = Asks(t, "focus")]
       /\ UNCHANGED <<len, decided, seen, sender, focus, drops, restores>>

\* The focus is set whatever the user did.
RestoreTakesFocus ==
    /\ tasks["restore"].step = "focus"
    /\ focus' = [focus EXCEPT !.here = TRUE]
    /\ tasks' = [tasks EXCEPT !["restore"] = NoTask]
    /\ UNCHANGED <<len, decided, view, seen, sender, conn, drops, restores>>

\* The focus, unless the user went elsewhere.
RestoreFocus ==
    LET t == tasks["restore"]
    IN /\ t.step = "focus"
       /\ focus' = [focus EXCEPT !.here = IF focus.revision = t.revision THEN TRUE ELSE @]
       /\ tasks' = [tasks EXCEPT !["restore"] = NoTask]
       /\ UNCHANGED <<len, decided, view, seen, sender, conn, drops, restores>>

-----------------------------------------------------------------------------
(* The user. *)

\* resolveApprovalDecision: decided, marked, and the run is followed.
Decide ==
    /\ view.approval = "pending"
    /\ RowStatus(len) = "waiting_approval"
    /\ ~decided
    /\ decided' = TRUE
    /\ view' = [view EXCEPT !.approval = "approved"]
    /\ tasks' = Starts(tasks, "resume")
    /\ UNCHANGED <<len, seen, sender, conn, focus, drops, restores>>

\* selectConversation of the run's conversation.
Open ==
    /\ "restore" \in Acts
    /\ restores < MaxRestores
    /\ tasks["restore"].step = "none"
    /\ restores' = restores + 1
    /\ focus' = [here |-> TRUE, revision |-> focus.revision + 1]
    /\ tasks' = [tasks EXCEPT !["restore"] =
                   [Asks(NoTask, "first") EXCEPT !.revision = focus.revision + 1]]
    /\ UNCHANGED <<len, decided, view, seen, sender, conn, drops>>

\* Another conversation is opened; nothing is disconnected.
Leave ==
    /\ "away" \in Acts
    /\ focus.here
    /\ focus' = [here |-> FALSE, revision |-> focus.revision + 1]
    /\ UNCHANGED <<len, decided, view, seen, sender, conn, tasks, drops, restores>>

\* A task goes on after logout.
ResetStore ==
    /\ "logout" \in Acts
    /\ view.known
    /\ view' = NoRun
    /\ seen' = {}
    /\ sender' = [sender EXCEPT !.on = FALSE]
    /\ conn' = [conn EXCEPT !.status = "closed"]
    /\ focus' = [here |-> FALSE, revision |-> focus.revision + 1]
    /\ restores' = MaxRestores
    /\ UNCHANGED <<len, decided, tasks, drops>>

\* reset: the streams and the answers that are out belong to no one.  The
\* seen ids go with the connections of the next account.
Reset ==
    /\ "logout" \in Acts
    /\ view.known
    /\ view' = NoRun
    /\ seen' = {}
    /\ sender' = [sender EXCEPT !.on = FALSE]
    /\ conn' = [conn EXCEPT !.status = "closed"]
    /\ tasks' = [k \in DOMAIN tasks |-> NoTask]
    /\ focus' = [here |-> FALSE, revision |-> focus.revision + 1]
    /\ restores' = MaxRestores
    /\ UNCHANGED <<len, decided, drops>>

\* The page is loaded again: nothing is left, and the last conversation is
\* restored (restoreLast).
Reload ==
    /\ "reload" \in Acts
    /\ view.known
    /\ restores < MaxRestores
    /\ restores' = restores + 1
    /\ view' = NoRun
    /\ seen' = {}
    /\ sender' = [sender EXCEPT !.on = FALSE]
    /\ conn' = [status |-> "idle", cursor |-> 0, gaps |-> 0, retries |-> 0]
    /\ focus' = [here |-> TRUE, revision |-> 0]
    /\ tasks' = [[k \in DOMAIN tasks |-> NoTask] EXCEPT !["restore"] = Asks(NoTask, "first")]
    /\ UNCHANGED <<len, decided, drops>>

\* The decisions are asked for while the run goes on.
PollWhileRunning ==
    LET r == Handled(Chunk(EndOfRun, 1))
    IN /\ len > EndOfRun
       /\ focus.here /\ view.artifact = "pending" /\ ~Terminal(view.status)
       /\ view' = r.view
       /\ seen' = r.seen
       /\ UNCHANGED <<len, decided, sender, conn, tasks, focus, drops, restores>>

\* pollReviewDecisions: of the timeline, the decisions of reviews.
PollReview ==
    LET r == Handled(Chunk(EndOfRun, 1))
    IN /\ len > EndOfRun
       /\ focus.here /\ view.artifact = "pending" /\ Terminal(view.status)
       /\ view' = r.view
       /\ seen' = r.seen
       /\ UNCHANGED <<len, decided, sender, conn, tasks, focus, drops, restores>>

-----------------------------------------------------------------------------

\* sendMessage created the run: beginRun.
Init ==
    /\ len = 0
    /\ decided = FALSE
    /\ view = [NoRun EXCEPT !.known = TRUE]
    /\ seen = {}
    /\ sender = [on |-> TRUE, cursor |-> 0]
    /\ conn = [status |-> "idle", cursor |-> 0, gaps |-> 0, retries |-> 0]
    /\ tasks = [k \in {"reconcile", "resume", "restore"} |-> NoTask]
    /\ focus = [here |-> TRUE, revision |-> 0]
    /\ drops = 0
    /\ restores = 0

SenderStep == SenderEnds \/ \E k \in 1 .. MaxChunk : SenderReads(k)
ManagerStep == ManagerEnds \/ \E k \in 1 .. MaxChunk : ManagerReads(k)

ReconcileStep ==
    \E n \in Answers(tasks["reconcile"]) :
        ReconcileDetail(n) \/ ReconcileTools(n) \/ ReconcileApprovals(n)
ResumeStep ==
    \E n \in Answers(tasks["resume"]) :
        ResumeList(n) \/ ResumeDetail(n) \/ ResumeTools(n) \/ ResumeApprovals(n)
RestoreStep ==
    \/ RestoreFocus
    \/ \E n \in Answers(tasks["restore"]) :
         RestoreTimeline(n) \/ RestoreTools(n) \/ RestoreLive(n)

Done == /\ ~sender.on /\ ~Live
        /\ \A k \in DOMAIN tasks : tasks[k].step = "none"
        /\ UNCHANGED vars

Next ==
    \/ Publish
    \/ SenderStep \/ SenderFails \/ Stop
    \/ ManagerStep \/ ManagerDrops
    \/ ReconcileStep \/ ResumeStep \/ RestoreStep
    \/ Decide \/ Open \/ Leave \/ Reset \/ Reload \/ PollReview
    \/ Done

\* The run goes on, streams deliver and requests are answered; the page polls
\* for reviews.
Fairness ==
    /\ WF_vars(Publish)
    /\ WF_vars(SenderStep)
    /\ WF_vars(ManagerStep)
    /\ WF_vars(ReconcileStep)
    /\ WF_vars(ResumeStep)
    /\ WF_vars(RestoreStep)
    /\ WF_vars(Decide)
    /\ WF_vars(PollReview)

Spec == Init /\ [][Next]_vars /\ Fairness

-----------------------------------------------------------------------------

\* The cursor of the store is a position of the script, and a task holds
\* answers the server has given.
TypeOK ==
    /\ len \in 0 .. Len(Log)
    /\ view.seq \in 0 .. len + 1
    /\ conn.status \in {"idle", "live", "closed", "error"}
    /\ conn.gaps \in 0 .. MaxGaps + MaxChunk /\ conn.retries \in 0 .. MaxRetries
    /\ \A k \in DOMAIN tasks : tasks[k].asked <= len /\ tasks[k].detail <= len
    /\ ~view.known => view = NoRun

\* The deltas of the script up to a position, but for those whose numbers
\* are taken.
Deltas(n, taken) ==
    SelectSeq([i \in 1 .. n |-> i],
              LAMBDA i : i \in DOMAIN Log \ taken /\ Log[i] = "message.delta")

\* Two streams, a replay and the answers of three tasks feed the store: every
\* event up to its cursor was reduced exactly once (the bridge's header).  An
\* event of the client takes the number of the next one of the run, which is
\* then not reduced.
ExactlyOnce == view.known => view.text = Deltas(view.seq, view.local)

\* No answer moves the run backwards (reconcileRunOnce): the cursor of the
\* store only grows, until the account changes.  A store held while the
\* pending approvals were asked for is written as it was.
WritesHeld(k) ==
    /\ tasks[k].step = "approvals" /\ tasks'[k].step = "none"
    /\ view'.seq = tasks[k].held.seq /\ view'.status = "waiting_approval"
CursorNeverBack ==
    view'.known => \/ view'.seq >= view.seq
                   \/ \E k \in {"reconcile", "resume"} : WritesHeld(k)

\* Nothing of an account is in the store after it logged out.
NothingAfterReset == ~view.known => ~view'.known

\* A restore that ends late does not bring back a conversation the user left.
FocusKept == ~focus.here /\ focus'.here => focus'.revision # focus.revision

\* The release of an artifact is shown without a reload.
ReviewPublished == len > EndOfRun
ReviewSeen == view.artifact = "released" \/ ~focus.here

=============================================================================
