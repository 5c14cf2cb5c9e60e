------------------------------- MODULE A2aStream -------------------------------
(***************************************************************************)
(* The event stream of an A2A task (application/a2a/stream-service.ts) and *)
(* the projection of run events to A2A frames (event-projector.ts): a task *)
(* snapshot, then status-update and artifact-update frames, closed by a    *)
(* frame that says final.  The stream reads the journal and the Redis      *)
(* stream of EventStream the way RunEventSse does, event by event: the run *)
(* goes on, and the client may leave, between any two frames.              *)
(***************************************************************************)
EXTENDS EventStream

CONSTANTS Cursors,    \* cursors a client subscribes with
          Kinds,      \* kinds of event before the terminal one
          PageSize, ReadCount, MaxFaults

A2aStreamAssumption == /\ "status" \in Kinds
                              /\ Kinds \subseteq {"status", "message", "artifact", "silent"}
                              /\ Cursors \subseteq Nat /\ MaxFaults \in Nat
                              /\ {PageSize, ReadCount} \subseteq Nat \ {0}

VARIABLES kind,    \* what an event of the run is, before the terminal one
          conn,    \* local state of openTaskStream
          sent,    \* frames written: event, final
          faults

a2aStreamVars == <<streamVars, kind, conn, sent, faults>>

Reading == {"history", "confirm", "gap", "redisGap", "catchup"}
NoConn == [phase |-> "none", start |-> 0, last |-> 0, upto |-> 0, asked |-> FALSE, short |-> FALSE, row |-> "none",
           state |-> "none", term |-> FALSE, final |-> FALSE, live |-> FALSE,
           from |-> 0, after |-> 0, until |-> 0]

A2aStreamTypeOK ==
  /\ StreamTypeOK /\ kind \in [1..MaxEvents -> Kinds] /\ faults \in 0..MaxFaults
  /\ conn \in [phase : Reading \cup {"none", "cutover", "redis", "redisAgain", "closing", "done", "left"},
               start : 0..MaxEvents,    \* the client's cursor
               last : 0..MaxEvents,     \* lastEmitted
               upto : 0..MaxEvents,     \* end of the page in hand
               asked : BOOLEAN,         \* between the two reads of listEvents
               short : BOOLEAN,         \* the page in hand was not full
               row : {"none", "working", "end"},    \* status of the run row last read
               state : {"none", "working", "end"},  \* lastA2aStatus
               term : BOOLEAN,          \* terminalStatus is set
               final : BOOLEAN,         \* emittedFinal
               live : BOOLEAN,          \* redisLive
               from : 0..MaxEntries, after : 0..MaxEntries, until : 0..MaxEntries]
  /\ \A i \in DOMAIN sent : sent[i].event \in 0..MaxEvents /\ sent[i].final \in BOOLEAN

(* The first event of a run is run.accepted.                               *)
A2aStreamInit ==
  /\ StreamInit /\ kind \in {k \in [1..MaxEvents -> Kinds] : k[1] = "status"}
  /\ conn = NoConn /\ sent = <<>> /\ faults = 0

Fault == faults < MaxFaults /\ faults' = faults + 1
Lesser(a, b) == IF a < b THEN a ELSE b
Set(r) == conn' = r /\ UNCHANGED <<streamVars, kind, sent, faults>>

(* After the terminal event only events without a projection are appended. *)
KindOf(e) == IF e = terminal THEN "end" ELSE IF terminal # 0 /\ e > terminal THEN "silent" ELSE kind[e]

(* resolveStatusFromEvent.                                                 *)
StatusOf(k) == IF k = "end" THEN "end" ELSE "working"

(* The state of a message frame: the last one sent, else the run row's,    *)
(* else working.                                                           *)
MessageState(row) == IF conn.state # "none" THEN conn.state ELSE IF row # "none" THEN row ELSE "working"

(* projectArtifactEvent: a frame without a status; an artifact event that  *)
(* names no durable artifact is silent.                                    *)
ArtifactFrame == "plain"

(* projectEnvelopeToA2aResult: the state of the frame, "plain" for a frame *)
(* without one and "none" for no frame; a repeated status has no frame.    *)
Repeated(k) == conn.state = StatusOf(k)
Projected(e, row) ==
  LET k == KindOf(e)
  IN CASE k = "silent" -> "none"
       [] k = "artifact" -> ArtifactFrame
       [] k = "message" -> MessageState(row)
       [] OTHER -> IF Repeated(k) THEN "none" ELSE StatusOf(k)

(* drainMysql reads pages until one is short; the live loop reads one page *)
(* a round and ends when it knows a terminal status.                       *)
PageOver(r) ==
  LET known == r.term \/ r.row = "end"
  IN CASE r.phase = "catchup" ->
            IF r.term \/ (r.row = "end" /\ r.short)
            THEN [r EXCEPT !.term = TRUE, !.phase = "closing", !.row = "none"]
            ELSE [r EXCEPT !.phase = "redis", !.row = "none"]
       [] r.phase # "catchup" /\ ~r.short -> r
       [] r.phase = "history" /\ r.short ->
            [r EXCEPT !.term = known, !.row = "none",
                      !.phase = IF r.row = "end" THEN "confirm" ELSE IF known THEN "closing" ELSE "cutover"]
       [] r.phase = "gap" /\ r.short -> [r EXCEPT !.phase = "redis", !.row = "none"]
       [] r.phase = "redisGap" /\ r.short -> [r EXCEPT !.phase = "redisAgain", !.row = "none"]

(* emitProjected: the local state after event e, and the frame.            *)
Emitted(e, row, r) ==
  LET p == Projected(e, row)
  IN [r EXCEPT !.last = e, !.state = IF p \in {"working", "end"} THEN p ELSE @,
               !.term = @ \/ p = "end", !.final = @ \/ p = "end"]
Write(e, row) ==
  LET p == Projected(e, row)
  IN sent' = IF p = "none" THEN sent ELSE Append(sent, [event |-> e, final |-> p = "end"])

-----------------------------------------------------------------------------
(* buildA2aTaskObject with the messages so far; it is never final.         *)
TaskSnapshot == [event |-> 0, final |-> FALSE]

(* openTaskStream: the task snapshot, without an id, at the cursor.        *)
Open(c) ==
  /\ conn.phase = "none" /\ c <= committed
  /\ sent' = <<TaskSnapshot>>
  /\ conn' = [NoConn EXCEPT !.phase = "history", !.start = c, !.last = c, !.upto = c]
  /\ UNCHANGED <<streamVars, kind, faults>>

(* listEvents: the run row, then a page of events.                         *)
ReadRow ==
  /\ conn.phase \in Reading /\ ~conn.asked /\ conn.last = conn.upto
  /\ Set([conn EXCEPT !.asked = TRUE, !.row = IF terminal # 0 THEN "end" ELSE "working"])

PageEndFull == conn.last + PageSize
PageEnd == Lesser(committed, conn.last + PageSize)

(* The events of a page are sent one by one, each with the row's status.   *)
ReadPage ==
  /\ conn.phase \in Reading \ {"confirm"} /\ conn.asked
  /\ LET r == [conn EXCEPT !.asked = FALSE, !.upto = PageEnd, !.short = PageEnd - conn.last < PageSize]
     IN Set(IF PageEnd = conn.last THEN PageOver(r) ELSE r)

EmitPage ==
  /\ conn.phase \in Reading /\ ~conn.asked /\ conn.last < conn.upto
  /\ Write(conn.last + 1, conn.row)
  /\ LET r == Emitted(conn.last + 1, conn.row, conn)
     IN conn' = IF r.last = r.upto THEN PageOver(r) ELSE r
  /\ UNCHANGED <<streamVars, kind, faults>>

(* The confirmation: a page of one whose event is not sent.  Terminal or   *)
(* not, the stream ends here once a terminal status is known.              *)
Confirm ==
  /\ conn.phase = "confirm" /\ conn.asked
  /\ Set([conn EXCEPT !.asked = FALSE, !.term = TRUE, !.phase = "closing"])

(* What the stream already holds is skipped, the journal covers it.        *)
ReadFrom(after) == IF after < kept THEN kept ELSE after
ReadEnd(after) == Lesser(Len(entries), ReadFrom(after) + ReadCount)
Cutover ==
  /\ conn.phase = "cutover"
  /\ \/ Set([conn EXCEPT !.phase = "gap", !.live = TRUE, !.after = ReadEnd(0), !.until = ReadEnd(0)])
     \/ /\ Fault /\ conn' = [conn EXCEPT !.phase = "gap"]
        /\ UNCHANGED <<streamVars, kind, sent>>

(* A round of the live loop reads the stream, or finds it gone.            *)
ReadLive ==
  /\ conn.phase = "redis"
  /\ \/ conn.live /\ conn.after = conn.until
        /\ Set(IF ReadEnd(conn.after) > conn.after
               THEN [conn EXCEPT !.from = ReadFrom(conn.after), !.after = ReadFrom(conn.after), !.until = ReadEnd(conn.after)]
               ELSE [conn EXCEPT !.phase = "catchup"])
     \/ conn.live /\ Fault /\ conn' = [conn EXCEPT !.live = FALSE, !.phase = "catchup"]
        /\ UNCHANGED <<streamVars, kind, sent>>
     \/ ~conn.live /\ Set([conn EXCEPT !.phase = "catchup"])

(* Only the event that follows is sent from Redis.                         *)
AnyNewer(e) == e > conn.last
Follows(e) == e = conn.last + 1

(* applyRedisEntries: the first pass stops at a gap, which the journal     *)
(* fills; the second one takes what follows then.                          *)
Apply ==
  /\ conn.phase \in {"redis", "redisAgain"} /\ conn.after < conn.until
  /\ LET e == entries[conn.after + 1]
         next == [conn EXCEPT !.after = @ + 1, !.upto = IF Follows(e) THEN e ELSE @,
                              !.phase = IF conn.after + 1 = conn.until THEN "catchup" ELSE @,
                              !.from = IF conn.after + 1 = conn.until THEN 0 ELSE @]
     IN CASE Follows(e) -> /\ Write(e, "none") /\ conn' = Emitted(e, "none", next)
                          /\ UNCHANGED <<streamVars, kind, faults>>
          [] e <= conn.last -> Set(next)
          [] conn.phase = "redis" /\ ~Follows(e) /\ e > conn.last ->
               Set([conn EXCEPT !.phase = "redisGap", !.after = conn.from])
          [] OTHER -> Set([next EXCEPT !.until = conn.after + 1, !.phase = "catchup", !.from = 0])

(* redisGap and the second pass start again with the first entry; a second *)
(* pass over nothing goes on.                                              *)
SecondPass == conn.phase = "redisAgain" /\ conn.after = conn.until /\ Set([conn EXCEPT !.phase = "catchup"])

(* A journal read of the live loop that fails is tried again.              *)
CatchupFails ==
  /\ conn.phase = "catchup" /\ conn.asked /\ Fault
  /\ conn' = [conn EXCEPT !.asked = FALSE, !.phase = IF conn.term THEN "closing" ELSE "redis"]
  /\ UNCHANGED <<streamVars, kind, sent>>

(* The live loop looks at terminalStatus before it sleeps: a final frame   *)
(* from Redis ends it without a journal read being due.                    *)
CatchupSkipped ==
  /\ conn.phase = "catchup" /\ ~conn.asked /\ conn.last = conn.upto /\ conn.live
  /\ Set([conn EXCEPT !.phase = IF conn.term THEN "closing" ELSE "redis"])

(* ensureFinalFrame, unless one was sent.                                  *)
UnfinishedAlways == TRUE
UnfinishedNever == FALSE
Unfinished == ~conn.final
EnsureFinalFrame ==
  /\ conn.phase = "closing"
  /\ sent' = IF Unfinished THEN Append(sent, [event |-> conn.last, final |-> TRUE]) ELSE sent
  /\ conn' = [conn EXCEPT !.phase = "done", !.final = TRUE]
  /\ UNCHANGED <<streamVars, kind, faults>>

(* The client leaves; the run is not touched.                              *)
Leave ==
  /\ conn.phase \notin {"none", "done", "left"} /\ Fault
  /\ conn' = [conn EXCEPT !.phase = "left"]
  /\ UNCHANGED <<streamVars, kind, sent>>

-----------------------------------------------------------------------------
Endpoint ==
  \/ ReadRow \/ ReadPage \/ EmitPage \/ Confirm \/ ReadLive \/ Apply \/ SecondPass \/ EnsureFinalFrame
Optional == Cutover \/ CatchupSkipped
Journal == Commit \/ CommitTerminal \/ Lose \/ \E e \in 1..MaxEvents : Publish(e)

A2aStreamDone == conn.phase \in {"done", "left"} /\ UNCHANGED a2aStreamVars

A2aStreamNext ==
  \/ \E c \in Cursors : Open(c)
  \/ Endpoint \/ Optional \/ CatchupFails \/ Leave
  \/ Journal /\ conn.phase \notin {"done", "left"} /\ UNCHANGED <<kind, conn, sent, faults>>
  \/ A2aStreamDone

A2aStreamSpec == A2aStreamInit /\ [][A2aStreamNext]_a2aStreamVars

(* The loop keeps running, and the journal is read when mysqlCatchupMs     *)
(* have passed.                                                            *)
EndpointStep == Endpoint \/ Cutover
A2aStreamFair ==
  /\ A2aStreamSpec /\ WF_a2aStreamVars(EndpointStep) /\ SF_a2aStreamVars(ReadRow)

-----------------------------------------------------------------------------
(* A message frame takes the state of the run row when no status frame was *)
(* written before it in this subscription: the client resumed behind the   *)
(* last status event of a run that is over by then.                        *)
NoStatusSince(e) == \A k \in (conn.start + 1)..e : KindOf(k) \notin {"status", "end"}
Borrowed(frame) ==
  /\ conn.start > 0 /\ terminal # 0
  /\ frame.event \notin {0, terminal} /\ KindOf(frame.event) = "message" /\ NoStatusSince(frame.event)

(* The frame that says final is the last one, since the client stops       *)
(* reading there, wherever it resumed; but for the frame of a message that *)
(* borrows the state of the row of a run that is over.                     *)
FinalIsLast == \A i \in DOMAIN sent : sent[i].final => i = Len(sent) \/ Borrowed(sent[i])

(* When the stream ends by itself a final frame was sent, the last one     *)
(* unless the state of a message was borrowed, and every message and       *)
(* artifact of the run after the cursor was sent once, in order, whatever  *)
(* Redis repeated, lost or reordered.                                      *)
EndsComplete ==
  conn.phase = "done" =>
    /\ \E i \in DOMAIN sent : sent[i].final /\ (i = Len(sent) \/ Borrowed(sent[i]))
    /\ \A i, j \in 2..(Len(sent) - 1) : i < j => sent[i].event < sent[j].event
    /\ \A e \in (conn.start + 1)..committed :
         KindOf(e) \in {"message", "artifact"} => \E i \in DOMAIN sent : sent[i].event = e

(* A subscription to a run that ends is ended with a final frame, unless   *)
(* the client leaves, although Redis may never say that the run ended.     *)
RunIsOver == terminal # 0 /\ conn.phase # "none"
FinalSent == conn.phase = "left" \/ (conn.phase = "done" /\ \E i \in DOMAIN sent : sent[i].final)
=============================================================================
