----------------------------- MODULE RunEventSse ------------------------------
(***************************************************************************)
(* A reader of the events of one Run: the SSE endpoint of the agent        *)
(* (run-event-sse-service.ts), the relay of the api-server, and the        *)
(* browser's connection manager (frontend/src/shared/sse/manager.ts) with  *)
(* its reducer.  The endpoint replays the journal from the client's        *)
(* cursor, cuts over to the Redis stream and keeps checking the journal.   *)
(*                                                                         *)
(* A step of the endpoint is one read of MySQL or Redis, with the frames   *)
(* it then writes.  listEvents reads the Run row first and the events      *)
(* after it, in two queries.  A lost connection drops whatever the relay   *)
(* and the network still carry, so frames are emitted a page at a time.    *)
(***************************************************************************)
EXTENDS EventStream

CONSTANTS PageSize,     \* events per MySQL page (DEFAULT_HISTORY_PAGE)
          ReadCount,    \* stream entries per XRANGE
          MaxRetries,   \* reconnects of the manager in a row
          MaxFaults     \* bound: lost connections, Redis errors and losses

SseAssumption == /\ PageSize \in Nat \ {0}
                        /\ ReadCount \in Nat \ {0}
                        /\ MaxRetries \in Nat
                        /\ MaxFaults \in Nat

VARIABLES
  conn,     \* the endpoint's local state; phase "none" without a connection
  wire,     \* event frames on their way to the client
  client,   \* the manager: cursor, connection status, retries
  faults

sseVars == <<committed, terminal, final, entries, kept,
             conn, wire, client, faults>>

Phases == {"none", "history", "confirm", "cutover", "gap", "redis", "redisGap",
           "redisAgain",
           "catchup", "done"}

NoConn == [phase |-> "none", last |-> 0, after |-> 0, live |-> FALSE,
           ended |-> FALSE, asked |-> FALSE, upto |-> 0]

SseTypeOK ==
  /\ StreamTypeOK
  /\ conn \in [phase : Phases,
               last  : 0..MaxEvents,    \* lastEmitted
               after : 0..MaxEntries,   \* streamAfterId
               live  : BOOLEAN,         \* redisLive
               ended : BOOLEAN,         \* the Run row read was terminal
               asked : BOOLEAN,         \* between the two reads of listEvents
               upto  : 0..MaxEntries]   \* last entry of the current XRANGE
  /\ wire \in Seq(1..MaxEvents)
  /\ client \in [seq : 0..MaxEvents,
                 status : {"connecting", "connected", "closing", "closed", "error"},
                 retries : 0..(MaxRetries + 1)]
  /\ faults \in 0..MaxFaults

SseInit ==
  /\ StreamInit
  /\ conn = NoConn
  /\ wire = <<>>
  /\ client = [seq |-> 0, status |-> "connecting", retries |-> 0]
  /\ faults = 0

-----------------------------------------------------------------------------
(* The endpoint.                                                           *)

Lesser(a, b) == IF a < b THEN a ELSE b

Fault == faults < MaxFaults /\ faults' = faults + 1

(* Is this round's look into MySQL due?  Always without Redis; with it,    *)
(* when mysqlCatchupMs have passed, which may be now.  The mutant relies   *)
(* on Redis.                                                               *)
CatchupDueOffline == ~conn.live
CatchupDue        == TRUE

(* The first query of listEvents: the Run row.                             *)
ReadRun ==
  /\ conn.phase \in {"history", "confirm", "gap", "redisGap", "catchup"}
  /\ conn.phase = "catchup" => CatchupDue
  /\ ~conn.asked
  /\ conn' = [conn EXCEPT !.asked = TRUE, !.ended = terminal # 0]
  /\ UNCHANGED <<streamVars, wire, client, faults>>

(* The second query: the events after lastEmitted, at most limit.  The     *)
(* mutant advances by the page size.                                       *)
PageEndFull(limit) == conn.last + limit
PageEnd(limit) == Lesser(committed, conn.last + limit)
PageEmpty      == conn.last >= committed

(* emitEnvelope for the events conn.last+1..n, which advances lastEmitted. *)
EmitUpTo(n) ==
  wire' = wire \o [i \in 1..(n - conn.last) |-> conn.last + i]

(* drainMysql reads pages until one is short; history, the cutover gap and *)
(* a gap in the live stream use it.                                        *)
DrainPage(next) ==
  LET n == PageEnd(PageSize)
  IN /\ conn.asked
     /\ EmitUpTo(n)
     /\ conn' = [conn EXCEPT !.asked = FALSE, !.last = n,
                   !.phase = IF n - conn.last < PageSize THEN next ELSE @]
     /\ UNCHANGED <<streamVars, client, faults>>

(* Phase 1 ends in a confirmation when the last page saw a finished Run.   *)
History ==
  /\ conn.phase = "history"
  /\ DrainPage(IF conn.ended THEN "confirm" ELSE "cutover")

(* The endpoint says "end" only over a terminal Run row and an empty page  *)
(* read after it.  The mutant trusts the Run row.                          *)
MayEndEarly == conn.ended
MayEnd      == conn.ended /\ PageEmpty

(* The confirming listEvents with limit 1, whose events are not emitted.   *)
Confirm ==
  /\ conn.phase = "confirm"
  /\ conn.asked
  /\ conn' = [conn EXCEPT !.asked = FALSE,
                !.phase = IF MayEnd THEN "done" ELSE "cutover"]
  /\ UNCHANGED <<streamVars, wire, client, faults>>

(* readAfter: entries after afterId that Redis still has, at most          *)
(* ReadCount; the last one's index.                                        *)
ReadFrom(after) == IF after < kept THEN kept ELSE after
ReadEnd(after)  == Lesser(Len(entries), ReadFrom(after) + ReadCount)

(* Phase 2: skip what the stream already holds; MySQL covers it.  Without  *)
(* Redis the endpoint polls MySQL only.                                    *)
Cutover ==
  /\ conn.phase = "cutover"
  /\ \/ /\ conn' = [conn EXCEPT !.phase = "gap", !.live = TRUE,
                                   !.after = ReadEnd(0)]
        /\ UNCHANGED faults
     \/ /\ Fault
        /\ conn' = [conn EXCEPT !.phase = "gap"]
  /\ UNCHANGED <<streamVars, wire, client>>

CutoverGap == conn.phase = "gap" /\ DrainPage("redis")

(* May an entry of number e be written after lastEmitted?  The mutant      *)
(* trusts the order of the stream.                                         *)
FollowsAny(last, e) == e > last
Follows(last, e)    == e = last + 1

(* One pass of applyRedisEntries over the entries lo+1..hi: old numbers    *)
(* are skipped, the next number is emitted, a jump stops the pass.  The    *)
(* cursor moves past the entry that stopped it.                            *)
Pass(lo, hi) ==
  LET pass[i \in lo..hi] ==
        IF i = lo
        THEN [last |-> conn.last, out |-> <<>>, after |-> lo, jump |-> FALSE]
        ELSE LET p == pass[i - 1]
                 e == entries[i]
             IN CASE p.jump -> p
                  [] ~p.jump /\ e <= p.last -> [p EXCEPT !.after = i]
                  [] ~p.jump /\ Follows(p.last, e) ->
                       [last |-> e, out |-> Append(p.out, e), after |-> i,
                        jump |-> FALSE]
                  [] OTHER -> [p EXCEPT !.after = i, !.jump = TRUE]
  IN pass[hi]

(* Phase 3, the Redis half of the loop: readAfter and the first pass.  A   *)
(* jump drains MySQL before the second pass over the same entries.         *)
ReadLive ==
  LET lo == ReadFrom(conn.after)
      hi == ReadEnd(conn.after)
      p  == Pass(lo, hi)
  IN /\ conn.phase = "redis"
     /\ conn.live
     /\ conn' = [conn EXCEPT !.last = p.last, !.after = p.after,
                   !.upto = IF p.jump THEN hi ELSE 0,
                   !.phase = IF p.jump THEN "redisGap" ELSE "catchup"]
     /\ wire' = wire \o p.out
     /\ UNCHANGED <<streamVars, client, faults>>

RedisGap == conn.phase = "redisGap" /\ conn.upto > 0 /\ DrainPage("redisAgain")

(* The second pass.  Its entries may have been trimmed; they are in hand.  *)
SecondPass ==
  LET p == Pass(conn.after, conn.upto)
  IN /\ conn.phase = "redisAgain"
     /\ conn' = [conn EXCEPT !.last = p.last, !.after = p.after, !.upto = 0,
                             !.phase = "catchup"]
     /\ wire' = wire \o p.out
     /\ UNCHANGED <<streamVars, client, faults>>

(* A Redis error, or a MySQL error while the gap is drained, turns Redis   *)
(* off for the rest of the connection.                                     *)
RedisFails ==
  /\ conn.phase \in {"redis", "redisGap"}
  /\ conn.live
  /\ Fault
  /\ conn' = [conn EXCEPT !.live = FALSE, !.upto = 0, !.asked = FALSE,
                          !.phase = "catchup"]
  /\ UNCHANGED <<streamVars, wire, client>>

(* The MySQL half of the loop: one page, and the end of the stream.  A     *)
(* MySQL error only ends the round.                                        *)
Catchup ==
  LET n == PageEnd(PageSize)
  IN /\ conn.phase = "catchup"
     /\ conn.asked
     /\ conn' = [conn EXCEPT !.asked = FALSE, !.last = n,
                   !.phase = IF MayEnd THEN "done" ELSE "redis"]
     /\ EmitUpTo(n)
     /\ UNCHANGED <<streamVars, client, faults>>

NotDue ==
  /\ conn.phase = "catchup"
  /\ conn.live
  /\ ~conn.asked
  /\ conn' = [conn EXCEPT !.phase = "redis"]
  /\ UNCHANGED <<streamVars, wire, client, faults>>

MysqlFails ==
  /\ conn.phase = "catchup"
  /\ conn.asked
  /\ Fault
  /\ conn' = [conn EXCEPT !.asked = FALSE, !.phase = "redis"]
  /\ UNCHANGED <<streamVars, wire, client>>

(* Without Redis the loop goes straight to MySQL.                          *)
PollOnly ==
  /\ conn.phase = "redis"
  /\ ~conn.live
  /\ conn' = [conn EXCEPT !.phase = "catchup"]
  /\ UNCHANGED <<streamVars, wire, client, faults>>

-----------------------------------------------------------------------------
(* The browser's connection manager.                                       *)

(* streamLoop opens the stream after the last applied event.  A cursor the *)
(* mutant takes from the wire's end would skip frames that were lost.      *)
ResumeAhead == committed
ResumeFrom  == client.seq

Open ==
  /\ client.status = "connecting"
  /\ conn' = [NoConn EXCEPT !.phase = "history", !.last = ResumeFrom]
  /\ wire' = <<>>
  /\ client' = [client EXCEPT !.status = "connected", !.retries = 0]
  /\ UNCHANGED <<streamVars, faults>>

(* The catch of streamLoop: retry, or after maxRetries ask for the Run     *)
(* itself (reconcileRun, which may fail too).                              *)
GiveUpStatuses == IF terminal # 0 THEN {"closed", "error"} ELSE {"error"}

AfterFailure ==
  IF client.retries < MaxRetries
  THEN client' = [client EXCEPT !.retries = @ + 1, !.status = "connecting"]
  ELSE \E s \in GiveUpStatuses :
         client' = [client EXCEPT !.retries = @ + 1, !.status = s]

OpenFails ==
  /\ client.status = "connecting"
  /\ Fault
  /\ AfterFailure
  /\ UNCHANGED <<streamVars, conn, wire>>

(* The body ends: the endpoint is done and everything is read, or the      *)
(* connection, the relay or the endpoint breaks and the frames are lost.   *)
AllRead == conn.phase = "done" /\ wire = <<>>

BodyEnds ==
  /\ client.status = "connected"
  /\ AllRead \/ faults < MaxFaults
  /\ faults' = IF AllRead THEN faults ELSE faults + 1
  /\ conn' = NoConn
  /\ wire' = <<>>
  /\ AfterFailure
  /\ UNCHANGED streamVars

(* handleRuntimeEvent: only the next number is applied (classifyEvent).    *)
(* The event that ends the Run queues the disconnect as a microtask.       *)
Receive ==
  LET e == Head(wire)
  IN /\ client.status \in {"connected", "closing"}
     /\ wire # <<>>
     /\ wire' = Tail(wire)
     /\ client' = IF e # client.seq + 1 THEN client
                  ELSE [client EXCEPT !.seq = e,
                          !.status = IF e = terminal THEN "closing" ELSE @]
     /\ UNCHANGED <<streamVars, conn, faults>>

Disconnect ==
  /\ client.status = "closing"
  /\ client' = [client EXCEPT !.status = "closed"]
  /\ conn' = NoConn
  /\ wire' = <<>>
  /\ UNCHANGED <<streamVars, faults>>

(* The page is reloaded; the store starts from nothing.                    *)
Reload ==
  /\ client.status \in {"connecting", "connected", "error"}
  /\ Fault
  /\ conn' = NoConn
  /\ wire' = <<>>
  /\ client' = [seq |-> 0, status |-> "connecting", retries |-> 0]
  /\ UNCHANGED streamVars

-----------------------------------------------------------------------------
Server == \/ ReadRun \/ History \/ Confirm \/ Cutover \/ CutoverGap
          \/ ReadLive \/ RedisGap \/ SecondPass \/ PollOnly \/ Catchup
          \/ NotDue \/ RedisFails \/ MysqlFails

Browser == Open \/ OpenFails \/ BodyEnds \/ Receive \/ Disconnect \/ Reload

(* The writers: any behaviour of EventStream, the outbox's among them.     *)
Writers == StreamNext /\ UNCHANGED <<conn, wire, client, faults>>

SseNext == Server \/ Browser \/ Writers

SseSpec == SseInit /\ [][SseNext]_sseVars

(* The endpoint and the manager keep running; with Redis live the catch-up *)
(* comes due again and again, so its query is strongly fair.  Nothing is   *)
(* assumed of Redis or of the writers.                                     *)
EndpointStep ==
  \/ History \/ Confirm \/ Cutover \/ CutoverGap \/ ReadLive
  \/ RedisGap \/ SecondPass \/ PollOnly \/ Catchup
CatchupReads == conn.phase = "catchup" /\ ReadRun
ReadBodyEnds == AllRead /\ BodyEnds
SseFairness ==
  /\ WF_sseVars(ReadRun) /\ WF_sseVars(EndpointStep) /\ SF_sseVars(CatchupReads)
  /\ WF_sseVars(NotDue)
  /\ WF_sseVars(Open)
  /\ WF_sseVars(ReadBodyEnds)
  /\ WF_sseVars(Receive)
  /\ WF_sseVars(Disconnect)

SseFairSpec == SseSpec /\ SseFairness

-----------------------------------------------------------------------------
(* The frames on their way to the client continue its cursor without a     *)
(* hole or a repeat, whatever order, copies or losses Redis shows the      *)
(* endpoint and wherever the cutover happens (openStream).                 *)
WireHasNoGap ==
  \A i \in DOMAIN wire : wire[i] = client.seq + i

(* The endpoint sends its end frame only after every event of the          *)
(* transaction that ended the Run, although it reads the Run row and the   *)
(* events in two queries.                                                  *)
EndIsComplete ==
  conn.phase = "done" => final # 0 /\ conn.last >= final

(* The stream never ends under a reader that has not seen the Run end: a   *)
(* manager still connected has a frame to read or an endpoint at work.     *)
EndNeverStrands ==
  ~(AllRead /\ client.status = "connected")

(* Every committed event is shown to a manager that stays, before or after *)
(* the Run's end closes it.                                                *)
Exists(n) == committed >= n
Reached(n) == client.seq >= n \/ client.status \in {"closed", "error"}
==============================================================================
