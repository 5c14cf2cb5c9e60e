----------------------------- MODULE Connections -----------------------------
(***************************************************************************)
(* How the processes get at MySQL, DBPM and Redis.                         *)
(*                                                                         *)
(* Failover: several callers share an EndpointSelector and acquire a       *)
(* connection through acquireWithFailover, each trying the endpoints of its *)
(* plan until one answers, an error is fatal or the budget is spent.  The  *)
(* same code serves Knex (a connection is made per acquire and destroyed on *)
(* abort), the raw pools of the agent and of exec (an attempt cannot be    *)
(* aborted and comes in late) and the credential fetch at start up.        *)
(*                                                                         *)
(* Redis: the guard that bounds the logging of an outage, and the teardown *)
(* of a client that several shutdown paths may ask for.                    *)
(***************************************************************************)
EXTENDS Integers, Sequences, FiniteSets, FiniteSetsExt, SequencesExt

CONSTANTS Callers,      \* concurrent acquires
          N,            \* endpoints, in the order of the configuration
          Mode,         \* "knex", "pool" or "dbpm"
          Conditions,   \* what an endpoint may do, a subset of AllConditions
          Cap,          \* connectionLimit of the pool of an endpoint
          Hold,         \* the blacklist time, in ticks
          Slots,        \* bound: attempts under way, abandoned ones included
          MaxChanges,   \* bound: changes of an endpoint's condition
          Interval,     \* minIntervalMs of the error guard, in ticks
          MaxErrors,    \* bound: error events of the Redis client
          Destroyers    \* callers of destroyRedisClient

\* up; down: refused or timed out; auth: the login is refused; init: the session
\* statement fails; hang: the session statement is never answered.
AllConditions == {"up", "down", "auth", "init", "hang"}

ConnectionsAssumption ==
  /\ N \in Nat \ {0} /\ Mode \in {"knex", "pool", "dbpm"} /\ Conditions \subseteq AllConditions
  /\ Cap \in Nat \ {0} /\ Hold \in Nat \ {0} /\ MaxChanges \in Nat /\ MaxErrors \in Nat
  /\ Interval \in Nat \ {0}

VARIABLES cond, sick,          \* of an endpoint: its condition, and whether it was ever unreachable
          left, primary,       \* the selector: ticks of blacklisting left, the sticky endpoint
          phase, order, tried, \* of a caller: its acquire, what is left of its plan, what it tried
          skipped,             \* endpoints that were blacklisted when it planned
          cur,                 \* the slot of the attempt it awaits or the connection it holds
          slot,                \* attempts under way
          free, open,          \* of an endpoint: idle connections by "initialised", open sockets
          crowded,             \* history: endpoints an acquire gave up on while every connection
                               \* of their pool was taken
          changes,
          guard,               \* the error guard of the Redis client
          tear                 \* of a destroyer: idle, quitting, done

vars == <<cond, sick, left, primary, phase, order, tried, skipped, cur, slot, free, open, crowded,
          changes, guard, tear>>
selector == <<left, primary>>
callers == <<phase, order, tried, skipped, cur>>
redis == <<guard, tear>>
world == <<cond, sick, changes>>
settled == <<world, crowded, redis>>

Endpoints == 1..N
None == [of |-> "none", ep |-> 0, st |-> "none", ready |-> FALSE]
Phases == {"idle", "trying", "held", "got", "all", "budget", "fatal"}
TypeOK ==
  /\ cond \in [Endpoints -> AllConditions] /\ sick \in [Endpoints -> BOOLEAN]
  /\ left \in [Endpoints -> 0..Hold] /\ primary \in Endpoints
  /\ phase \in [Callers -> Phases] /\ \A c \in Callers : order[c] \in BoundedSeq(Endpoints, N)
  /\ tried \in [Callers -> SUBSET Endpoints] /\ skipped \in [Callers -> SUBSET Endpoints]
  /\ cur \in [Callers -> Slots \cup {0}]
  /\ slot \in [Slots -> {None} \cup [of : Callers, ep : Endpoints,
                                     st : {"waiting", "session", "held"}, ready : BOOLEAN]]
  /\ free \in [Endpoints -> [BOOLEAN -> Nat]] /\ open \in [Endpoints -> Nat]
  /\ crowded \subseteq Endpoints /\ changes \in 0..MaxChanges
  /\ guard.state \in {"ok", "degraded"} /\ tear \in [Destroyers -> {"idle", "quitting", "done"}]

Init ==
  /\ cond \in [Endpoints -> Conditions \cap {"up", "down"}]
  /\ sick = [e \in Endpoints |-> cond[e] = "down"]
  /\ left = [e \in Endpoints |-> 0] /\ primary = 1
  /\ phase = [c \in Callers |-> "idle"] /\ order = [c \in Callers |-> <<>>]
  /\ tried = [c \in Callers |-> {}] /\ skipped = [c \in Callers |-> {}]
  /\ cur = [c \in Callers |-> 0] /\ slot = [s \in Slots |-> None]
  /\ free = [e \in Endpoints |-> [r \in BOOLEAN |-> 0]] /\ open = [e \in Endpoints |-> 0]
  /\ crowded = {} /\ changes = 0
  /\ guard = [state |-> "ok", since |-> Interval, suppressed |-> 0, seen |-> 0, told |-> 0,
              disposed |-> FALSE, quits |-> 0]
  /\ tear = [d \in Destroyers |-> "idle"]

(***************************************************************************)
(* The selector                                                            *)
(***************************************************************************)
Sticky == <<primary>> \o SetToSortSeq(Endpoints \ {primary}, LAMBDA a, b : a < b)
Blacklisted(e) == left[e] > 0

\* The credential fetch makes a selector per call: the configured order.
PlanOthers ==
  LET available == SelectSeq(Tail(Sticky), LAMBDA e : ~Blacklisted(e))
  IN IF available # <<>> THEN available ELSE Sticky
PlanPrimary == <<primary>>
Plan ==
  LET available == SelectSeq(Sticky, LAMBDA e : ~Blacklisted(e))
  IN IF Mode = "dbpm" THEN [i \in 1..N |-> i]
     ELSE IF available # <<>> THEN available ELSE Sticky

ReportSuccess(e) ==
  IF Mode = "dbpm" THEN UNCHANGED selector
  ELSE left' = [left EXCEPT ![e] = 0] /\ primary' = e
ReportFailure(e) ==
  /\ left' = IF Mode = "dbpm" THEN left ELSE [left EXCEPT ![e] = Hold]
  /\ UNCHANGED primary

\* Only an unreachable endpoint is left for the next one; a refused login or a
\* session that cannot be set up is not cured by another proxy.
ClassifyRefused(what) == "network"
Classify(what) == IF Mode = "dbpm" \/ what = "down" THEN "network" ELSE "fatal"

(***************************************************************************)
(* An acquire                                                              *)
(***************************************************************************)
Vacant(s) == slot[s] = None /\ \A x \in Slots : x < s => slot[x] # None
Begin(c, e) == [of |-> c, ep |-> e, st |-> "waiting", ready |-> FALSE]

Acquire(c) ==
  /\ phase[c] = "idle"
  /\ \E s \in Slots :
       /\ Vacant(s)
       /\ slot' = [slot EXCEPT ![s] = Begin(c, Plan[1])] /\ cur' = [cur EXCEPT ![c] = s]
  /\ order' = [order EXCEPT ![c] = Tail(Plan)] /\ tried' = [tried EXCEPT ![c] = {Plan[1]}]
  /\ skipped' = [skipped EXCEPT ![c] = {e \in Endpoints : Blacklisted(e)}]
  /\ phase' = [phase EXCEPT ![c] = "trying"]
  /\ UNCHANGED <<selector, free, open, settled>>

Awaited(s) == slot[s] # None /\ cur[slot[s].of] = s

Ended(c, how) ==
  /\ phase' = [phase EXCEPT ![c] = how] /\ cur' = [cur EXCEPT ![c] = 0]
  /\ order' = [order EXCEPT ![c] = <<>>]
  /\ IF how = "all" THEN UNCHANGED <<tried, skipped>>
     ELSE tried' = [tried EXCEPT ![c] = {}] /\ skipped' = [skipped EXCEPT ![c] = {}]

\* The attempt of slot s failed: fatal is thrown as it is, unreachable is
\* blacklisted and the rest of the plan goes on in the slot, an abandoned
\* attempt fails unnoticed.
Failed(s, what) ==
  LET c == slot[s].of  e == slot[s].ep  Done == slot' = [slot EXCEPT ![s] = None]
  IN IF ~Awaited(s) THEN Done /\ UNCHANGED <<callers, selector>>
     ELSE IF Classify(what) = "fatal" THEN Done /\ Ended(c, "fatal") /\ UNCHANGED selector
     ELSE /\ ReportFailure(e)
          /\ IF order[c] = <<>> THEN Done /\ Ended(c, "all")
             ELSE /\ slot' = [slot EXCEPT ![s] = Begin(c, order[c][1])]
                  /\ order' = [order EXCEPT ![c] = Tail(@)]
                  /\ tried' = [tried EXCEPT ![c] = @ \cup {order[c][1]}]
                  /\ UNCHANGED <<phase, skipped, cur>>

\* The attempt gave a connection.  A late one goes back to the pool; a password
\* is all that is left of a credential request.  idle: the pools without it.
DeliveredAnyway(s, utc, idle) ==
  LET c == slot[s].of  e == slot[s].ep
  IN /\ slot' = [slot EXCEPT ![s].st = "held", ![s].ready = utc]
     /\ IF Awaited(s) THEN phase' = [phase EXCEPT ![c] = "held"] /\ ReportSuccess(e)
        ELSE UNCHANGED <<phase, selector>>
     /\ free' = idle /\ UNCHANGED <<order, tried, skipped, cur, open>>
Delivered(s, utc, idle) ==
  LET c == slot[s].of  e == slot[s].ep
  IN IF ~Awaited(s)
     THEN /\ slot' = [slot EXCEPT ![s] = None] /\ free' = [idle EXCEPT ![e][utc] = @ + 1]
          /\ UNCHANGED <<callers, selector, open>>
     ELSE /\ ReportSuccess(e)
          /\ IF Mode = "dbpm"
             THEN /\ slot' = [slot EXCEPT ![s] = None] /\ open' = [open EXCEPT ![e] = @ - 1]
                  /\ Ended(c, "got")
             ELSE /\ slot' = [slot EXCEPT ![s].st = "held", ![s].ready = utc]
                  /\ phase' = [phase EXCEPT ![c] = "held"] /\ order' = [order EXCEPT ![c] = <<>>]
                  /\ UNCHANGED <<tried, skipped, cur, open>>
          /\ free' = idle

(***************************************************************************)
(* One attempt: connect, or take an idle connection, then the session      *)
(***************************************************************************)
Waits(s) == slot[s].st = "waiting"
Idle(e) == free[e][TRUE] + free[e][FALSE]
MayOpen(e) == Mode = "pool" => Idle(e) = 0 /\ open[e] < Cap

\* An idle connection of the pool, initialised once per socket.
Checkout(s) ==
  /\ Waits(s)
  /\ \E r \in BOOLEAN :
       LET idle == [free EXCEPT ![slot[s].ep][r] = @ - 1]
       IN /\ free[slot[s].ep][r] > 0
          /\ IF r THEN Delivered(s, TRUE, idle)
             ELSE free' = idle /\ slot' = [slot EXCEPT ![s].st = "session"] /\ UNCHANGED <<callers, selector, open>>
  /\ UNCHANGED settled

Connected(s) ==
  /\ Waits(s) /\ MayOpen(slot[s].ep) /\ cond[slot[s].ep] \in {"up", "init", "hang"}
  /\ open' = [open EXCEPT ![slot[s].ep] = @ + 1]
  /\ slot' = [slot EXCEPT ![s].st = "session"]
  /\ UNCHANGED <<callers, selector, free, settled>>

Refused(s) ==
  /\ Waits(s) /\ MayOpen(slot[s].ep) /\ cond[slot[s].ep] \in {"down", "auth"}
  /\ Failed(s, cond[slot[s].ep])
  /\ UNCHANGED <<free, open, settled>>

\* The statement that sets the session's time zone.
InSession(s) == slot[s].st = "session"
SessionSkipped(s) ==
  /\ InSession(s) /\ Delivered(s, FALSE, free)
  /\ UNCHANGED settled
SessionReady(s) ==
  /\ InSession(s) /\ cond[slot[s].ep] \in {"up", "auth"}
  /\ Delivered(s, TRUE, free)
  /\ UNCHANGED settled

\* A connection whose session failed is destroyed.
SessionFails(s) ==
  /\ InSession(s)
  /\ cond[slot[s].ep] \in {"init", "down"} \cup (IF Mode = "dbpm" THEN {"hang"} ELSE {})
  /\ open' = [open EXCEPT ![slot[s].ep] = @ - 1]
  /\ Failed(s, "init")
  /\ UNCHANGED <<free, settled>>

\* The budget runs out: the endpoint being tried is blacklisted.  Knex destroys
\* the connection it was making; a pool's attempt goes on with nobody waiting.
Hangs(s) == InSession(s) /\ cond[slot[s].ep] = "hang"
Exhausted(e) ==
  Cardinality({s \in Slots : slot[s].ep = e /\ (slot[s].st = "held" \/ Hangs(s))}) = Cap
Stuck(s) == Hangs(s) \/ (Mode = "pool" /\ Waits(s) /\ Exhausted(slot[s].ep))
Expire(c) ==
  LET s == cur[c]
  IN /\ phase[c] = "trying" /\ Stuck(s)
     /\ ReportFailure(slot[s].ep) /\ Ended(c, "budget")
     /\ IF Mode = "pool" THEN UNCHANGED <<slot, open>>
        ELSE slot' = [slot EXCEPT ![s] = None] /\ open' = [open EXCEPT ![slot[s].ep] = @ - 1]
     /\ crowded' = IF Hangs(s) THEN crowded ELSE crowded \cup {slot[s].ep}
     /\ UNCHANGED <<free, world, redis>>

\* The statement ran, or failed; the connection is released either way and the
\* statement never sent again.  A broken connection is not kept.
Release(c) ==
  LET s == cur[c]  e == slot[s].ep
  IN /\ phase[c] = "held"
     /\ slot' = [slot EXCEPT ![s] = None]
     /\ IF Mode = "pool" /\ cond[e] # "down"
        THEN free' = [free EXCEPT ![e][slot[s].ready] = @ + 1] /\ UNCHANGED open
        ELSE open' = [open EXCEPT ![e] = @ - 1] /\ UNCHANGED free
     /\ Ended(c, "idle")
     /\ UNCHANGED <<selector, settled>>

\* The caller's next request.
TryAgain(c) ==
  /\ phase[c] \in {"all", "budget", "fatal"} /\ Mode # "dbpm"
  /\ Ended(c, "idle")
  /\ UNCHANGED <<selector, slot, free, open, settled>>

\* An endpoint that goes down takes the idle connections with it.
Turn(e, x) ==
  /\ changes < MaxChanges /\ x # cond[e]
  /\ changes' = changes + 1 /\ cond' = [cond EXCEPT ![e] = x]
  /\ sick' = [sick EXCEPT ![e] = @ \/ x \in {"down", "hang"}]
  /\ IF x = "down"
     THEN open' = [open EXCEPT ![e] = @ - Idle(e)] /\ free' = [free EXCEPT ![e] = [r \in BOOLEAN |-> 0]]
     ELSE UNCHANGED <<open, free>>
  /\ UNCHANGED <<callers, selector, slot, crowded, redis>>

Tick ==
  /\ (\E e \in Endpoints : left[e] > 0) \/ guard.since < Interval
  /\ left' = [e \in Endpoints |-> IF left[e] > 0 THEN left[e] - 1 ELSE 0]
  /\ guard' = [guard EXCEPT !.since = IF @ < Interval THEN @ + 1 ELSE @]
  /\ UNCHANGED <<primary, callers, slot, free, open, world, crowded, tear>>

(***************************************************************************)
(* The Redis client                                                        *)
(***************************************************************************)
quiet == <<selector, callers, slot, free, open, world, crowded>>

\* The first error of an outage is logged, then one per interval with the count
\* of those kept back.
OnErrorDrops ==
  /\ guard.seen < MaxErrors /\ ~guard.disposed
  /\ guard' = IF guard.state = "ok" \/ guard.since >= Interval
              THEN [guard EXCEPT !.state = "degraded", !.since = 0, !.suppressed = 0, !.seen = @ + 1,
                                 !.told = @ + 1]
              ELSE [guard EXCEPT !.suppressed = @ + 1, !.seen = @ + 1]
  /\ UNCHANGED <<quiet, tear>>
OnError ==
  /\ guard.seen < MaxErrors
  /\ guard' = IF guard.disposed THEN [guard EXCEPT !.seen = @ + 1]
              ELSE IF guard.state = "ok" \/ guard.since >= Interval
              THEN [guard EXCEPT !.state = "degraded", !.since = 0, !.suppressed = 0, !.seen = @ + 1,
                                 !.told = @ + 1 + guard.suppressed]
              ELSE [guard EXCEPT !.suppressed = @ + 1, !.seen = @ + 1]
  /\ UNCHANGED <<quiet, tear>>

OnReady ==
  /\ ~guard.disposed /\ guard.state = "degraded"
  /\ guard' = [guard EXCEPT !.state = "ok", !.since = Interval, !.suppressed = 0,
                            !.told = @ + guard.suppressed]
  /\ UNCHANGED <<quiet, tear>>

\* The client is claimed before anything is awaited; a failed quit falls through
\* to a disconnect.
DestroyUnclaimed(d) ==
  /\ tear[d] = "idle"
  /\ tear' = [tear EXCEPT ![d] = "quitting"]
  /\ guard' = [guard EXCEPT !.disposed = TRUE, !.quits = @ + 1]
  /\ UNCHANGED quiet
Destroy(d) ==
  /\ tear[d] = "idle"
  /\ IF guard.disposed THEN tear' = [tear EXCEPT ![d] = "done"] /\ UNCHANGED guard
     ELSE /\ tear' = [tear EXCEPT ![d] = "quitting"]
          /\ guard' = [guard EXCEPT !.disposed = TRUE, !.quits = @ + 1]
  /\ UNCHANGED quiet
QuitReturns(d) ==
  /\ tear[d] = "quitting" /\ tear' = [tear EXCEPT ![d] = "done"]
  /\ UNCHANGED <<quiet, guard>>

Step(s) == Checkout(s) \/ Connected(s) \/ Refused(s) \/ SessionReady(s) \/ SessionFails(s)
Asks(c) == Acquire(c) \/ TryAgain(c)
Next ==
  \/ \E c \in Callers : Asks(c) \/ Expire(c) \/ Release(c)
  \/ \E s \in Slots : Step(s)
  \/ \E e \in Endpoints, x \in Conditions : Turn(e, x)
  \/ Tick \/ OnError \/ OnReady
  \/ \E d \in Destroyers : Destroy(d) \/ QuitReturns(d)

ConnectionsInit == Init
ConnectionsNext == Next

(***************************************************************************)
(* Properties                                                              *)
(***************************************************************************)
\* Every open socket of an endpoint is idle in its pool, or belongs to an
\* attempt, or is held by the caller it was given to: an attempt whose budget
\* ran out leaves no connection behind.  acquireWithFailover disposes of what
\* comes late, connectEndpoint destroys on abort and on a failed session.
NoStrayConnection ==
  /\ \A e \in Endpoints :
       open[e] = Idle(e) + Cardinality({s \in Slots : slot[s].ep = e /\ slot[s].st \in {"session", "held"}})
  /\ \A s \in Slots : slot[s].st = "held" => Awaited(s) /\ phase[slot[s].of] = "held"
  /\ Mode # "pool" => \A s \in Slots : slot[s] # None => Awaited(s)

\* No caller ever runs a statement on a connection whose session was not set to
\* UTC, whichever endpoint, reuse or late attempt it came from.
SessionsInUtc == \A c \in Callers : phase[c] = "held" => slot[cur[c]].ready

\* An endpoint that was reachable all the time is not blacklisted, whatever
\* logins or sessions it refused: a wrong password is not taken for an outage.
\* A full pool is: an acquire whose budget runs out in the queue of a raw pool
\* whose connections are all taken reports the endpoint as failed.  That is the
\* only way a reachable endpoint gets onto the list.
BlockedWasBad == \A e \in Endpoints : Blacklisted(e) => sick[e] \/ e \in crowded

\* ALL_ENDPOINTS_FAILED is only said when the acquire tried every endpoint that
\* was not blacklisted as it began, and every one if all were.
AllMeansAll ==
  \A c \in Callers : phase[c] = "all" =>
    (IF skipped[c] = Endpoints THEN tried[c] ELSE tried[c] \cup skipped[c]) = Endpoints

\* Every error event of the Redis client before its teardown is in a log line,
\* as the line's own error or in a suppressed count, or still counted; and the
\* client is quit at most once, whatever shutdown paths meet.
GuardCounts == ~guard.disposed => guard.seen = guard.told + guard.suppressed
QuitOnce == guard.quits <= 1

\* Once no endpoint refuses logins or hangs and one is up, a caller who keeps
\* asking is connected again and again, blacklisted endpoints or not.
Steady ==
  (\E e \in Endpoints : cond[e] = "up") /\ \A e \in Endpoints : cond[e] \in {"up", "down"}
IsConnected(c) == phase[c] = "held"
=============================================================================
