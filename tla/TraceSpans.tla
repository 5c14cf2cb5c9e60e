----------------------------- MODULE TraceSpans -----------------------------
(***************************************************************************)
(* The trace of a Run: spans projected from its events in the transaction  *)
(* that appends them (run-event-repository.ts), and once more by every     *)
(* GET of the trace (trace-query-service.ts), which brings the root span   *)
(* up to date, replays the events behind the watermark, takes the outcomes *)
(* of the tool ledger and moves the watermark (trace-span-repository.ts).  *)
(*                                                                         *)
(* An append works on locked rows.  A GET has no transaction: each upsert  *)
(* reads a row, merges, and writes if attributes and updated_at are still  *)
(* the ones it read.  updated_at counts milliseconds, so that two writes   *)
(* may carry the same one.                                                 *)
(*                                                                         *)
(* One queue wait, one model request and one tool call stand for the       *)
(* spans without a ledger and for those with one.  Of the attributes only  *)
(* the event merged last and the watermark are kept.                       *)
(***************************************************************************)
EXTENDS Naturals, Sequences, SequencesExt

CONSTANTS Events,      \* the events that this Run may have
          Readers,     \* GETs of the trace that may overlap
          MaxGets,     \* bound: GETs
          MaxRetries,  \* retryCount of upsert
          MaxTicks,    \* bound: milliseconds that pass
          MaxFaults    \* bound: projections that do not converge

EventTypes == {"run.queued", "run.started", "run.succeeded", "run.cancelled", "model.started",
               "model.completed", "tool.started", "tool.completed", "tool.failed", "message"}

(* Bounds are natural numbers, and the events are events of a Run.         *)
TraceAssumption == /\ Events \subseteq EventTypes
                   /\ {MaxGets, MaxRetries, MaxTicks, MaxFaults} \subseteq Nat

VARIABLES log,      \* run_events
          run,      \* status of the Run's row
          tool,     \* status of the tool execution's row
          spans,    \* tbl_agsvc_trace_spans
          passed,   \* events that a later append has moved the watermark over
          get,      \* per reader, materializeRunFacts
          gets, clock, faults

ledger == <<log, run, tool>>
traceVars == <<ledger, spans, passed, get, gets, clock, faults>>

None == "none"
RunEnds == {"SUCCEEDED", "CANCELLED"}
ToolEnds == {"SUCCEEDED", "CANCELLED"}
Spans == {"root", "queue", "model", "tool"}
Terminal == {"ok", "error", "cancelled"}
NoRow == [status |-> None, last |-> None, seq |-> 0, at |-> 0]
Unread == [status |-> "unread", last |-> None, seq |-> 0, at |-> 0]
Idle == [phase |-> "idle", run |-> None, tool |-> None, target |-> 0, after |-> 0,
         job |-> <<>>, saw |-> Unread, tries |-> 0]

TraceTypeOK ==
  /\ log \in Seq(EventTypes) /\ run \in {"QUEUED", "RUNNING"} \cup RunEnds
  /\ tool \in {None, "RUNNING"} \cup ToolEnds
  /\ \A s \in Spans : /\ spans[s].status \in Terminal \cup {None, "running"}
                      /\ spans[s].last \in EventTypes \cup {None}
                      /\ spans[s].seq \in 0..Len(log) /\ spans[s].at \in 0..MaxTicks
  /\ \A g \in Readers :
       /\ get[g].phase \in {"idle", "root", "replay", "tools", "mark", "answered", "failed"}
       /\ get[g].target \in 0..Len(log) /\ get[g].after \in 0..Len(log)
       /\ get[g].tries \in 0..MaxRetries
  /\ passed \subseteq 1..Len(log) /\ gets \in 0..MaxGets /\ clock \in 0..MaxTicks /\ faults \in 0..MaxFaults

TraceInit ==
  /\ log = <<>> /\ run = "QUEUED" /\ tool = None
  /\ spans = [s \in Spans |-> NoRow]
  /\ get = [g \in Readers |-> Idle]
  /\ passed = {} /\ gets = 0 /\ clock = 0 /\ faults = 0

-----------------------------------------------------------------------------
(* Upserts.                                                                *)

(* publicStatus of a status, eventLifecycle of an event.                   *)
Public(st) == CASE st = "SUCCEEDED" -> "ok" [] st = "CANCELLED" -> "cancelled" [] OTHER -> "running"
Lifecycle(e) ==
  CASE e \in {"model.completed", "tool.completed"} -> "ok" [] e = "tool.failed" -> "error"
    [] OTHER -> "running"

(* What is asked of upsert: `force` is allowTerminalOverride; `if_open`    *)
(* says that the row was looked up among the open queue waits.             *)
Upsert(s, st, e) ==
  [span |-> s, status |-> st, last |-> e, seq |-> 0, force |-> FALSE, if_open |-> FALSE]
Closing(st, e) == [Upsert("queue", st, e) EXCEPT !.if_open = TRUE]
Forced(s, st) == [Upsert(s, st, None) EXCEPT !.force = TRUE]

(* advanceRunProjectionWatermark.                                          *)
Watermark(st, n) == [Upsert("root", st, None) EXCEPT !.seq = n]

(* A terminal status is neither reopened nor rewritten, except by force;   *)
(* the watermark is the larger one.                                        *)
KeepsTerminal(row, op) == row.status \in Terminal /\ ~op.force /\ op.status # row.status
Merged(row, op) ==
  IF KeepsTerminal(row, op) THEN [row EXCEPT !.seq = IF op.seq > @ THEN op.seq ELSE @]
  ELSE [row EXCEPT !.status = op.status, !.last = IF op.last = None THEN @ ELSE op.last,
                   !.seq = IF op.seq > @ THEN op.seq ELSE @]

(* isSemanticNoop: nothing is written, updated_at stays.                   *)
Noop(row, op) == row # NoRow /\ Merged(row, op) = row
Stored(row, op) == [Merged(row, op) EXCEPT !.at = clock]
Skipped(row, op) == op.if_open /\ row.status # "running"

(* upsert in a transaction: SELECT ... FOR UPDATE and the write.           *)
Apply(rows, op) ==
  LET row == rows[op.span]
  IN IF Skipped(row, op) \/ Noop(row, op) THEN rows ELSE [rows EXCEPT ![op.span] = Stored(row, op)]

(* projectRunEvent: the spans an event is about.                           *)
ProjectRunEvent(e) ==
  CASE e = "run.queued" -> <<Upsert("root", "running", e), Upsert("queue", "running", e)>>
    [] e = "run.started" -> <<Upsert("root", "running", e), Closing("ok", e)>>
    [] e = "run.succeeded" -> <<Upsert("root", "ok", e), Closing("ok", e)>>
    [] e = "run.cancelled" -> <<Upsert("root", "cancelled", e), Closing("cancelled", e)>>
    [] e \in {"model.started", "model.completed"} -> <<Upsert("model", Lifecycle(e), e)>>
    [] e \in {"tool.started", "tool.completed", "tool.failed"} -> <<Upsert("tool", Lifecycle(e), e)>>
    [] e = "message" -> <<>>

-----------------------------------------------------------------------------
(* Appends.                                                                *)

Has(e) == \E n \in 1..Len(log) : log[n] = e

(* The events of a Run that waits, works and ends; a call that is          *)
(* cancelled is recorded as failed.                                        *)
Comes(e) ==
  /\ ~Has(e)
  /\ CASE e = "run.queued" -> log = <<>>
       [] e = "run.started" -> run = "QUEUED" /\ log # <<>>
       [] e = "run.succeeded" -> run = "RUNNING" /\ tool # "RUNNING"
       [] e = "run.cancelled" -> run \in {"QUEUED", "RUNNING"} /\ log # <<>> /\ tool # "RUNNING"
       [] e \in {"model.started", "message"} -> run = "RUNNING"
       [] e = "tool.started" -> run = "RUNNING"
       [] e = "model.completed" -> run = "RUNNING" /\ Has("model.started")
       [] e \in {"tool.completed", "tool.failed"} -> tool = "RUNNING"

(* The rows that are written with the event, in its transaction.           *)
Ledgers(e) ==
  /\ log' = Append(log, e)
  /\ run' = CASE e = "run.started" -> "RUNNING" [] e = "run.succeeded" -> "SUCCEEDED"
              [] e = "run.cancelled" -> "CANCELLED" [] OTHER -> run
  /\ tool' = CASE e = "tool.started" -> "RUNNING" [] e = "tool.completed" -> "SUCCEEDED"
               [] e = "tool.failed" -> "CANCELLED" [] OTHER -> tool

(* RunEventRepository.append: the event, its spans, the watermark.         *)
AppendEvent(e) ==
  /\ Comes(e) /\ Ledgers(e)
  /\ spans' = FoldLeft(Apply, spans, ProjectRunEvent(e) \o <<Watermark("running", Len(log) + 1)>>)
  /\ passed' = passed \cup {n \in 1..Len(log) : n > spans["root"].seq}
  /\ UNCHANGED <<get, gets, clock, faults>>

(* ... whose projection does not converge: what it has written so far is   *)
(* committed with the event.                                               *)
AppendUnprojected(e) ==
  /\ Comes(e) /\ Ledgers(e) /\ faults < MaxFaults /\ faults' = faults + 1
  /\ \E n \in 0..Len(ProjectRunEvent(e)) :
       spans' = FoldLeft(Apply, spans, SubSeq(ProjectRunEvent(e), 1, n))
  /\ UNCHANGED <<passed, get, gets, clock>>

-----------------------------------------------------------------------------
(* GETs.                                                                   *)

Proceed(g, phase, job) == get' = [get EXCEPT ![g].phase = phase, ![g].job = job]

(* #loadRun, then ensureRunRoot with the row as it was read.               *)
LoadRun(g) ==
  /\ get[g].phase \in {"idle", "answered", "failed"} /\ log # <<>> /\ gets < MaxGets
  /\ gets' = gets + 1
  /\ get' = [get EXCEPT ![g] = [Idle EXCEPT !.phase = "root", !.run = run, !.target = Len(log),
                                            !.job = <<Forced("root", Public(run))>>]]
  /\ UNCHANGED <<ledger, spans, passed, clock, faults>>

(* upsert without a transaction: the read ...                              *)
ReadSpan(g) ==
  /\ get[g].job # <<>> /\ get[g].saw = Unread
  /\ LET op == Head(get[g].job)
         row == spans[op.span]
     IN get' = IF Skipped(row, op) THEN [get EXCEPT ![g].job = Tail(@)]
               ELSE [get EXCEPT ![g].saw = row]
  /\ UNCHANGED <<ledger, spans, passed, gets, clock, faults>>

(* ... and the write, WHERE attributes_json and updated_at are those read; *)
(* the insert of a row fails when there is one.                            *)
SameVersion(row, saw) ==
  (row = NoRow) = (saw = NoRow) /\ row.at = saw.at /\ row.last = saw.last /\ row.seq = saw.seq

SpanWritten(g) == get' = [get EXCEPT ![g].job = Tail(@), ![g].saw = Unread, ![g].tries = 0]

WriteSpan(g) ==
  /\ get[g].saw # Unread
  /\ LET op == Head(get[g].job)
         row == spans[op.span]
         saw == get[g].saw
     IN \/ Noop(saw, op) /\ SpanWritten(g) /\ UNCHANGED spans
        \/ /\ ~Noop(saw, op) /\ SameVersion(row, saw)
           /\ spans' = [spans EXCEPT ![op.span] = Stored(saw, op)] /\ SpanWritten(g)
        \/ /\ ~Noop(saw, op) /\ ~SameVersion(row, saw)
           /\ get' = IF get[g].tries < MaxRetries
                     THEN [get EXCEPT ![g].saw = Unread, ![g].tries = @ + 1]
                     ELSE [get EXCEPT ![g] = [@ EXCEPT !.phase = "failed", !.job = <<>>,
                                                       !.saw = Unread]]
           /\ UNCHANGED spans
  /\ UNCHANGED <<ledger, passed, gets, clock, faults>>

At(g, phase) == get[g].phase = phase /\ get[g].job = <<>>

(* The watermark of the root span, read after ensureRunRoot.               *)
ReadWatermark(g) ==
  /\ At(g, "root")
  /\ get' = [get EXCEPT ![g].phase = "replay", ![g].after = spans["root"].seq]
  /\ UNCHANGED <<ledger, spans, passed, gets, clock, faults>>

(* The events behind it, up to the last one of the Run's row.              *)
ReplayEvent(g) ==
  /\ At(g, "replay") /\ get[g].after < get[g].target
  /\ get' = [get EXCEPT ![g].after = @ + 1, ![g].job = ProjectRunEvent(log[get[g].after + 1])]
  /\ UNCHANGED <<ledger, spans, passed, gets, clock, faults>>

(* The outcome in the tool ledger overrides the one of the events; the     *)
(* same is done for sandbox executions.                                    *)
ToolOutcome(t) == Forced("tool", Public(t))

ReadTools(g) ==
  /\ At(g, "replay") /\ get[g].after >= get[g].target
  /\ get' = [get EXCEPT ![g].phase = "tools", ![g].tool = tool,
                        ![g].job = IF tool = None THEN <<>> ELSE <<ToolOutcome(tool)>>]
  /\ UNCHANGED <<ledger, spans, passed, gets, clock, faults>>

(* The watermark moves when all of this is written.                        *)
MoveWatermark(g) ==
  /\ At(g, "tools")
  /\ Proceed(g, "mark", <<Watermark(Public(get[g].run), get[g].target)>>)
  /\ UNCHANGED <<ledger, spans, passed, gets, clock, faults>>

(* listByRun.                                                              *)
ListByRun(g) ==
  /\ At(g, "mark") /\ Proceed(g, "answered", <<>>)
  /\ UNCHANGED <<ledger, spans, passed, gets, clock, faults>>

Tick == clock < MaxTicks /\ clock' = clock + 1 /\ UNCHANGED <<ledger, spans, passed, get, gets, faults>>

Reader(g) ==
  \/ LoadRun(g) \/ ReadSpan(g) \/ WriteSpan(g) \/ ReadWatermark(g) \/ ReplayEvent(g)
  \/ ReadTools(g) \/ MoveWatermark(g) \/ ListByRun(g)

(* The Run is over and no GET is on its way.                               *)
TraceDone ==
  /\ run \in RunEnds /\ \A g \in Readers : get[g].phase \in {"idle", "answered", "failed"}
  /\ UNCHANGED traceVars

TraceNext ==
  \/ \E e \in Events : AppendEvent(e) \/ AppendUnprojected(e)
  \/ \E g \in Readers : Reader(g)
  \/ Tick
  \/ TraceDone

TraceSpec == TraceInit /\ [][TraceNext]_traceVars

-----------------------------------------------------------------------------
(* The watermark of the root span passes no event that has not reached its *)
(* spans, though appends and GETs move it side by side: what               *)
(* materializeRunFacts skips is there.  The exception is an event whose    *)
(* projection gave up and that a later append has passed before a GET; if  *)
(* it is run.queued, a GET on its way may open the wait when it is over.   *)
Reflected(e) ==
  CASE e = "run.queued" -> spans["root"] # NoRow /\ spans["queue"] # NoRow
    [] e \in {"run.started", "run.succeeded", "run.cancelled"} ->
         spans["queue"].status = "running" => 1 \in passed
    [] e = "model.completed" -> spans["model"].status = "ok"
    [] e = "model.started" -> spans["model"] # NoRow
    [] e \in {"tool.started", "tool.completed", "tool.failed"} -> spans["tool"] # NoRow
    [] e = "message" -> TRUE
WatermarkHonest == \A n \in (1..spans["root"].seq) \ passed : Reflected(log[n])

(* A span whose outcome no ledger can correct keeps it, and the watermark  *)
(* does not go back, whatever GETs have read before (upsert's comparison   *)
(* of attributes_json and updated_at).                                     *)
OutcomesStay ==
  /\ \A s \in {"queue", "model"} : spans[s].status \in Terminal => spans'[s].status = spans[s].status
  /\ spans'["root"].seq >= spans["root"].seq

(* GETs that read before the end of the Run may reopen its spans after it; *)
(* one that reads after the end, with none of the others left, shows the   *)
(* outcomes of the Run and of the tool as they are in their rows.          *)
Seen(g) == /\ get[g].phase \in {"mark", "answered"}
           /\ get[g].run = run /\ get[g].tool = tool
ReadRepairs ==
  /\ run \in RunEnds
  /\ \A g \in Readers : Seen(g) \/ get[g].phase = "idle"
  /\ \E g \in Readers : Seen(g)
  => /\ spans["root"].status = Public(run)
     /\ tool # None => spans["tool"].status = Public(tool)

=============================================================================
