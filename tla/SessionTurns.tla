----------------------------- MODULE SessionTurns -----------------------------
(***************************************************************************)
(* The turns of one Agent Session: Runs created by idempotent requests     *)
(* (create-run-service.ts, idempotency-repository.ts, follow-up-service),  *)
(* queued as jobs, and let through one after the other by the turn gate    *)
(* that a worker asks before it executes (session-turn-gate.ts,            *)
(* createRunJobHandler).  The executor's session lock is what the gate     *)
(* looks at; without it a Run ends FAILED ("session lock busy").           *)
(*                                                                         *)
(* Runs are numbered in the order of created_at: creation is serialised by *)
(* the lock of the organization row.  Only top-level Runs are here.  What  *)
(* happens inside an execution is RunLifecycle; here it ends, parks for an *)
(* approval or an input, or its worker dies.                               *)
(***************************************************************************)
EXTENDS Naturals, FiniteSets, FiniteSetTheorems, TLAPS

CONSTANTS Keys,       \* idempotency keys, each with one request body
          Handlers,   \* HTTP requests in flight
          Workers,
          MaxRuns,    \* bound: Runs of the session
          MaxParks,   \* bound: executions that park
          MaxFaults   \* bound: crashes, failed enqueues, expired records

TurnsAssumption == {MaxRuns, MaxParks, MaxFaults} \subseteq Nat

VARIABLES
  status,    \* per Run
  keyOf,     \* per Run, the key of the request that created it
  record,    \* per key, the Run its live idempotency record names; 0 if none
  expired,   \* keys with a record that expired before
  job,       \* per Run, its BullMQ job
  handler,   \* per HTTP request: what is left to do after the commit
  worker,
  lock,      \* Run whose executor holds the session lock; 0 if free
  orphan,    \* the lock's holder is dead
  turns,     \* Runs that have had the lock
  replayed,  \* Runs that recovery has put back into the queue
  parks,
  faults

turnVars == <<status, keyOf, record, expired, job, handler, worker, lock, orphan,
              turns, replayed, parks, faults>>

Runs == 1..MaxRuns
Queued == {"ACCEPTED", "QUEUED", "RETRYING"}
Executing == {"STARTING", "RUNNING"}
Statuses == Queued \cup Executing \cup {"NONE", "WAITING", "ENDED", "FAILED"}
NoKey == "none"
Free == [pc |-> "idle", run |-> 0]
WorkerState == [pc : {"idle", "gate", "ahead", "start", "acquire", "run"}, run : 0..MaxRuns]

TurnsTypeOK ==
  /\ status \in [Runs -> Statuses]
  /\ keyOf \in [Runs -> Keys \cup {NoKey}]
  /\ record \in [Keys -> 0..MaxRuns]
  /\ expired \subseteq Keys
  /\ job \in [Runs -> {"none", "waiting", "active"}]
  /\ handler \in [Handlers -> [pc : {"idle", "enqueue", "project"}, run : 0..MaxRuns]]
  /\ worker \in [Workers -> WorkerState]
  /\ lock \in 0..MaxRuns
  /\ orphan \in BOOLEAN
  /\ turns \subseteq Runs
  /\ replayed \subseteq Runs
  /\ parks \in 0..MaxParks
  /\ faults \in 0..MaxFaults

TurnsInit ==
  /\ status = [r \in Runs |-> "NONE"]
  /\ keyOf = [r \in Runs |-> NoKey]
  /\ record = [k \in Keys |-> 0]
  /\ expired = {}
  /\ job = [r \in Runs |-> "none"]
  /\ handler = [h \in Handlers |-> Free]
  /\ worker = [w \in Workers |-> Free]
  /\ lock = 0
  /\ orphan = FALSE
  /\ turns = {}
  /\ replayed = {}
  /\ parks = 0
  /\ faults = 0

Fault == faults < MaxFaults /\ faults' = faults + 1

-----------------------------------------------------------------------------
(* Creation.                                                               *)

Created == {r \in Runs : status[r] # "NONE"}
NextRun == Cardinality(Created) + 1

(* IdempotencyRepository.begin finds no live record: a fresh insert, or    *)
(* the replacement of an expired one.  A live record is complete, since    *)
(* begin and complete are one transaction.  The mutant completes it only   *)
(* after the job is queued.                                                *)
BegunUntilQueued(k) == record[k] \in {0} \cup {r \in Runs : status[r] = "ACCEPTED"}
Begun(k)            == record[k] = 0

(* ... or a completed one: the outcome "replay" of #createOnce.            *)
Again(k) == record[k] # 0

(* RunRepository.create: the Run's row.                                    *)
InsertRun(r, k) ==
  /\ status' = [status EXCEPT ![r] = "ACCEPTED"]
  /\ keyOf' = [keyOf EXCEPT ![r] = k]

(* The creating transaction: message, Run, run.accepted, outbox row and    *)
(* the completed idempotency record.                                       *)
Create(h, k) ==
  /\ handler[h].pc = "idle"
  /\ Begun(k)
  /\ NextRun <= MaxRuns
  /\ InsertRun(NextRun, k)
  /\ record' = [record EXCEPT ![k] = NextRun]
  /\ handler' = [handler EXCEPT ![h] = [pc |-> "enqueue", run |-> NextRun]]
  /\ UNCHANGED <<expired, job, worker, lock, orphan, turns, replayed, parks,
                 faults>>

(* The same request again: its stored response.  Only a Run that still     *)
(* waits in the queue is enqueued again (#handleReplayRecovery).           *)
Replay(h, k) ==
  /\ handler[h].pc = "idle"
  /\ Again(k)
  /\ status[record[k]] \in Queued
  /\ handler' = [handler EXCEPT ![h] = [pc |-> "enqueue", run |-> record[k]]]
  /\ UNCHANGED <<status, keyOf, record, expired, job, worker, lock, orphan, turns,
                 replayed, parks, faults>>

(* CreateRunService.execute.                                               *)
Ask(h, k) == Create(h, k) \/ Replay(h, k)

AddJob(r) == [job EXCEPT ![r] = IF @ = "none" THEN "waiting" ELSE @]

(* enqueueRunJob: the job id is the Run's, so a second add changes nothing.*)
(* Redis may refuse it, or the process die; the Run stays ACCEPTED.        *)
EnqueueJob(h) ==
  /\ handler[h].pc = "enqueue"
  /\ \/ /\ job' = AddJob(handler[h].run)
        /\ handler' = [handler EXCEPT ![h].pc = "project"]
        /\ UNCHANGED faults
     \/ /\ Fault
        /\ handler' = [handler EXCEPT ![h] = Free]
        /\ UNCHANGED job
  /\ UNCHANGED <<status, keyOf, record, expired, worker, lock, orphan, turns,
                 replayed, parks>>

(* projectAcceptedToQueued; a worker may have advanced the Run already.    *)
ProjectQueued(r) ==
  [status EXCEPT ![r] = IF @ = "ACCEPTED" THEN "QUEUED" ELSE @]

Project(h) ==
  /\ handler[h].pc = "project"
  /\ status' = ProjectQueued(handler[h].run)
  /\ handler' = [handler EXCEPT ![h] = Free]
  /\ UNCHANGED <<keyOf, record, expired, job, worker, lock, orphan, turns, replayed, parks,
                 faults>>

(* The record's idempotencyTtlMs pass; begin may replace it.               *)
ExpireRecord(k) ==
  /\ record[k] # 0
  /\ Fault
  /\ record' = [record EXCEPT ![k] = 0]
  /\ expired' = expired \cup {k}
  /\ UNCHANGED <<status, keyOf, job, handler, worker, lock, orphan, turns,
                 replayed, parks>>

-----------------------------------------------------------------------------
(* The worker.                                                             *)

Goto(w, pc) == worker' = [worker EXCEPT ![w].pc = pc]

(* A job is taken; the gate reads the Run row and lets through whatever is *)
(* not waiting for its turn.                                               *)
TakeJob(w, r) ==
  /\ worker[w] = Free
  /\ job[r] = "waiting"
  /\ job' = [job EXCEPT ![r] = "active"]
  /\ worker' = [worker EXCEPT ![w] =
                  [pc |-> IF status[r] \in Queued THEN "gate" ELSE "start",
                   run |-> r]]
  /\ UNCHANGED <<status, keyOf, record, expired, handler, lock, orphan, turns, replayed, parks,
                 faults>>

(* moveToDelayed: the job is offered again later.  The mutant parks it in  *)
(* a state no consumer takes it from.                                      *)
DeferJobPaused(r) == [job EXCEPT ![r] = "paused"]
DeferJob(r) == [job EXCEPT ![r] = "waiting"]

Defer(w) ==
  /\ job' = DeferJob(worker[w].run)
  /\ worker' = [worker EXCEPT ![w] = Free]

(* First the lock's owner, then the queue.                                 *)
GateLock(w) ==
  /\ worker[w].pc = "gate"
  /\ \/ lock # 0 /\ Defer(w)
     \/ lock = 0 /\ Goto(w, "ahead") /\ UNCHANGED job
  /\ UNCHANGED <<status, keyOf, record, expired, handler, lock, orphan, turns, replayed, parks,
                 faults>>

(* Earlier Runs of the session that wait for their turn.  The mutant asks  *)
(* only for QUEUED ones.                                                   *)
AheadQueuedOnly(r) == {q \in Runs : q < r /\ status[q] = "QUEUED"}
AheadOf(r)         == {q \in Runs : q < r /\ status[q] \in Queued}

GateAhead(w) ==
  /\ worker[w].pc = "ahead"
  /\ \/ AheadOf(worker[w].run) # {} /\ Defer(w)
     \/ AheadOf(worker[w].run) = {} /\ Goto(w, "start") /\ UNCHANGED job
  /\ UNCHANGED <<status, keyOf, record, expired, handler, lock, orphan, turns, replayed, parks,
                 faults>>

(* ExecuteRunService up to the executor: a waiting or parked Run goes      *)
(* STARTING; anything else has nothing to do or is refused re-entry.       *)
Start(w) ==
  LET r == worker[w].run
  IN /\ worker[w].pc = "start"
     /\ IF status[r] \in Queued \cup {"WAITING"}
        THEN /\ status' = [status EXCEPT ![r] = "STARTING"]
             /\ Goto(w, "acquire")
             /\ UNCHANGED job
        ELSE /\ job' = [job EXCEPT ![r] = "none"]
             /\ worker' = [worker EXCEPT ![w] = Free]
             /\ UNCHANGED status
     /\ UNCHANGED <<keyOf, record, expired, handler, lock, orphan, turns, replayed, parks,
                 faults>>

(* DshRunExecutor: SET NX of the session lock, or FAILED.                  *)
Acquire(w) ==
  LET r == worker[w].run
  IN /\ worker[w].pc = "acquire"
     /\ \/ /\ lock = 0
           /\ lock' = r
           /\ turns' = turns \cup {r}
           /\ status' = [status EXCEPT ![r] = "RUNNING"]
           /\ Goto(w, "run")
           /\ UNCHANGED job
        \/ /\ lock # 0
           /\ status' = [status EXCEPT ![r] = "FAILED"]
           /\ job' = [job EXCEPT ![r] = "none"]
           /\ worker' = [worker EXCEPT ![w] = Free]
           /\ UNCHANGED <<lock, turns>>
     /\ UNCHANGED <<keyOf, record, expired, handler, orphan, replayed, parks, faults>>

(* The execution ends or parks; the lock is released.                      *)
Finish(w) ==
  LET r == worker[w].run
  IN /\ worker[w].pc = "run"
     /\ \/ /\ status' = [status EXCEPT ![r] = "ENDED"]
           /\ UNCHANGED parks
        \/ /\ status' = [status EXCEPT ![r] = "WAITING"]
           /\ parks < MaxParks
           /\ parks' = parks + 1
     /\ lock' = 0
     /\ job' = [job EXCEPT ![r] = "none"]
     /\ worker' = [worker EXCEPT ![w] = Free]
     /\ UNCHANGED <<keyOf, record, expired, handler, orphan, turns, replayed, faults>>

(* A decided approval or an answered question enqueues a resume job.       *)
Resume(r) ==
  /\ status[r] = "WAITING"
  /\ job[r] = "none"
  /\ job' = AddJob(r)
  /\ UNCHANGED <<status, keyOf, record, expired, handler, worker, lock, orphan, turns,
                 replayed, parks, faults>>

(* The process dies: BullMQ finds the job stalled and offers it again; the *)
(* lock stays until its TTL.                                               *)
Crash(w) ==
  /\ worker[w] # Free
  /\ Fault
  /\ job' = [job EXCEPT ![worker[w].run] = "waiting"]
  /\ orphan' = (orphan \/ worker[w].pc = "run")
  /\ worker' = [worker EXCEPT ![w] = Free]
  /\ UNCHANGED <<status, keyOf, record, expired, handler, lock, turns, replayed, parks>>

(* SET ... PX: a lock nobody renews disappears.  The mutant sets no TTL.   *)
LockNeverExpires == FALSE /\ UNCHANGED turnVars
LockExpires ==
  /\ orphan
  /\ orphan' = FALSE
  /\ lock' = 0
  /\ UNCHANGED <<status, keyOf, record, expired, job, handler, worker, turns, replayed,
                 parks, faults>>

(* RunRecoveryService.  A waiting Run gets its job again and is projected. *)
(* An execution whose worker is gone is FAILED, or put back into the queue *)
(* when nothing of it was left half done.                                  *)
Attended(r) == \E w \in Workers : worker[w].run = r

Requeued(r) == [status EXCEPT ![r] = "QUEUED"]

RecoverQueued(r) ==
  /\ status[r] \in Queued
  /\ job' = AddJob(r)
  /\ status' = Requeued(r)
  /\ UNCHANGED <<keyOf, record, expired, handler, worker, lock, orphan, turns,
                 replayed, parks, faults>>

RecoverOrphan(r) ==
  /\ status[r] \in Executing
  /\ ~Attended(r)
  /\ \/ /\ status' = [status EXCEPT ![r] = "FAILED"]
        /\ UNCHANGED replayed
     \/ /\ status' = [status EXCEPT ![r] = "RETRYING"]
        /\ replayed' = replayed \cup {r}
  /\ UNCHANGED <<keyOf, record, expired, job, handler, worker, lock, orphan, turns,
                 parks, faults>>

-----------------------------------------------------------------------------
Request(h) == EnqueueJob(h) \/ Project(h)

WorkerStep(w) ==
  \/ \E r \in Runs : TakeJob(w, r)
  \/ GateLock(w) \/ GateAhead(w) \/ Start(w) \/ Acquire(w) \/ Finish(w)

TurnsNext ==
  \/ \E h \in Handlers : Request(h) \/ \E k \in Keys : Ask(h, k)
  \/ \E k \in Keys : ExpireRecord(k)
  \/ \E w \in Workers : WorkerStep(w) \/ Crash(w)
  \/ \E r \in Runs : RecoverQueued(r) \/ RecoverOrphan(r) \/ Resume(r)
  \/ LockExpires

TurnsSpec == TurnsInit /\ [][TurnsNext]_turnVars

(* Workers keep working and the recovery scan runs every minute.  BullMQ   *)
(* offers a delayed job again and again, so that a Run whose turn has come *)
(* is not overtaken for ever by jobs that must wait: strong fairness per   *)
(* Run on taking its job and on passing the gate.  A user may answer       *)
(* neither an approval nor a question: nothing is assumed of Resume.       *)
WorkerGoesOn(w) == GateLock(w) \/ GateAhead(w) \/ Start(w) \/ Acquire(w) \/ Finish(w)
JobTaken(r) == \E w \in Workers : TakeJob(w, r)
GatePassed(r) == \E w \in Workers : lock = 0 /\ worker[w].run = r /\ GateLock(w)
TurnsFairSpec ==
  /\ TurnsSpec
  /\ \A w \in Workers : WF_turnVars(WorkerGoesOn(w))
  /\ \A r \in Runs : /\ WF_turnVars(RecoverQueued(r)) /\ WF_turnVars(RecoverOrphan(r))
                     /\ SF_turnVars(JobTaken(r)) /\ SF_turnVars(GatePassed(r))
  /\ WF_turnVars(LockExpires)

-----------------------------------------------------------------------------
(* Properties.                                                             *)

(* A request that is sent again, to any handler at any moment of its first *)
(* attempt, never creates a second Run while its idempotency record lives. *)
OneRunPerRequest ==
  \A q, r \in Created :
    q # r /\ keyOf[q] = keyOf[r] => keyOf[q] \in expired

(* A Run leaves the queue only when no earlier Run of its session waits in *)
(* it, although the gate looks before the Run's row is moved.  The one     *)
(* exception is an earlier Run that recovery puts back meanwhile.          *)
LeavesQueueInOrder ==
  \A r \in Runs : status[r] \in Queued /\ status'[r] \notin Queued =>
       \A q \in Runs : q < r => status'[q] \notin Queued \/ q \in replayed

(* The session lock outlives no worker for ever and no Run is lost: every  *)
(* accepted Run has its turn, though its enqueue failed, its worker died,  *)
(* or the Run in front died with the lock or is parked.                    *)
IsQueued(r) == status[r] \in Queued

-----------------------------------------------------------------------------
(* Why the first two hold: the inductive invariant.                        *)

(* Runs are created one after the other.                                   *)
Numbered == \E n \in 0..MaxRuns : Created = 1..n

(* Whoever works for a Run works for one that was created.                 *)
WorkIsForRuns ==
  /\ \A r \in Runs : job[r] # "none" => r \in Created
  /\ \A h \in Handlers : handler[h].pc # "idle" => handler[h].run \in Created
  /\ \A w \in Workers : /\ worker[w].pc # "idle" => worker[w].run \in Created
                        /\ worker[w].pc = "idle" => worker[w] = Free

(* A record that has not expired names the only Run of its key.            *)
RecordsTell ==
  /\ \A r \in Created : keyOf[r] \in Keys
  /\ \A k \in Keys : record[k] # 0 => record[k] \in Created
  /\ \A k \in Keys \ expired : \A r \in Created : keyOf[r] = k => record[k] = r

(* What the gate saw is still so when the Run's row is moved.              *)
GateStands ==
  \A w \in Workers :
    /\ worker[w].pc = "start" /\ status[worker[w].run] \in Queued =>
         \A q \in Runs : q < worker[w].run => status[q] \notin Queued \/ q \in replayed
    /\ worker[w].pc \in {"acquire", "run"} => status[worker[w].run] \notin Queued

TurnsInv == TurnsTypeOK /\ Numbered /\ WorkIsForRuns /\ RecordsTell /\ GateStands

(* A step that creates no Run.                                             *)
LEMMA SameRuns ==
  ASSUME Created' = Created, Numbered
  PROVE  Numbered'
  BY DEF Numbered

(* The Runs that wait for their turn stay behind the gate.                 *)
LEMMA GateFrame ==
  ASSUME WorkIsForRuns, GateStands, worker' = worker, replayed \subseteq replayed',
         \A q \in Runs : status'[q] \in Queued =>
           status[q] \in Queued \/ (q \in replayed' /\ \A w \in Workers : worker[w].run # q)
  PROVE  GateStands'
  <1> SUFFICES ASSUME NEW w \in Workers
               PROVE  /\ worker[w].pc = "start" /\ status'[worker[w].run] \in Queued =>
                           \A q \in Runs : q < worker[w].run => status'[q] \notin Queued \/ q \in replayed'
                      /\ worker[w].pc \in {"acquire", "run"} => status'[worker[w].run] \notin Queued
    BY DEF GateStands
  <1>1. worker[w].pc # "idle" => worker[w].run \in Runs BY DEF WorkIsForRuns, Created
  <1>2. worker[w].pc # "idle" /\ status'[worker[w].run] \in Queued => status[worker[w].run] \in Queued
    BY <1>1
  <1> QED BY <1>1, <1>2 DEF GateStands

LEMMA BoundsTyped ==
  ASSUME TurnsAssumption
  PROVE  MaxRuns \in Nat /\ MaxParks \in Nat /\ MaxFaults \in Nat
  BY DEF TurnsAssumption

(* A step of a worker: its own state, the job and the status of its Run.   *)
LEMMA WorkerMoves ==
  ASSUME TurnsInv, NEW w \in Workers, NEW r \in Created, NEW p \in WorkerState,
         NEW jb \in {"none", "waiting", "active"}, NEW st \in Statuses \ {"NONE"},
         worker' = [worker EXCEPT ![w] = p], job' = [job EXCEPT ![r] = jb],
         status' = [status EXCEPT ![r] = st],
         p = Free \/ (p.pc # "idle" /\ p.run = r),
         st \in Queued => status[r] \in Queued,
         p.pc = "start" /\ st \in Queued => \A q \in Runs : q < r => status[q] \notin Queued,
         p.pc \in {"acquire", "run"} => st \notin Queued,
         lock' \in 0..MaxRuns, orphan' \in BOOLEAN, turns' \subseteq Runs, parks' \in 0..MaxParks,
         faults' \in 0..MaxFaults, UNCHANGED <<keyOf, record, expired, handler, replayed>>
  PROVE  TurnsInv'
  <1> USE DEF TurnsInv
  <1>1. r \in Runs BY DEF Created
  <1>2. TurnsTypeOK'
    <2>1. worker' \in [Workers -> WorkerState] BY DEF TurnsTypeOK
    <2>2. job' \in [Runs -> {"none", "waiting", "active"}] BY DEF TurnsTypeOK
    <2>3. status' \in [Runs -> Statuses] BY DEF TurnsTypeOK
    <2> QED BY <2>1, <2>2, <2>3 DEF TurnsTypeOK
  <1>3. /\ status'[r] = st /\ \A q \in Runs \ {r} : status'[q] = status[q]
        /\ job'[r] = jb /\ \A q \in Runs \ {r} : job'[q] = job[q]
        /\ worker'[w] = p /\ \A v \in Workers \ {w} : worker'[v] = worker[v]
    BY <1>1 DEF TurnsTypeOK
  <1>4. Created' = Created BY <1>3 DEF Created
  <1>5. WorkIsForRuns' BY <1>3, <1>4 DEF WorkIsForRuns, Free
  <1>6. RecordsTell' BY <1>4 DEF RecordsTell
  <1>7. \A q \in Runs : status'[q] \in Queued => status[q] \in Queued BY <1>3
  <1>8. GateStands'
    <2> SUFFICES ASSUME NEW v \in Workers, worker'[v].pc # "idle", status'[worker'[v].run] \in Queued
                 PROVE  /\ worker'[v].pc = "start" =>
                             \A q \in Runs : q < worker'[v].run => status'[q] \notin Queued \/ q \in replayed
                        /\ worker'[v].pc \notin {"acquire", "run"}
      BY DEF GateStands
    <2>1. CASE v = w
      <3>1. worker'[v] = p BY <1>3, <2>1
      <3>2. p.run = r BY <3>1 DEF Free
      <3>3. st \in Queued BY <1>3, <3>1, <3>2
      <3> QED BY <1>7, <3>1, <3>2, <3>3
    <2>2. CASE v # w
      <3>1. worker'[v] = worker[v] BY <1>3, <2>2
      <3>2. worker[v].run \in Runs BY <3>1 DEF WorkIsForRuns, Created
      <3> QED BY <1>7, <3>1, <3>2 DEF GateStands
    <2> QED BY <2>1, <2>2
  <1> QED BY <1>2, <1>4, <1>5, <1>6, <1>8, SameRuns

LEMMA WorkerKeeps ==
  ASSUME TurnsAssumption, TurnsInv, NEW w \in Workers, WorkerStep(w) \/ Crash(w)
  PROVE  TurnsInv'
  <1> USE DEF TurnsInv
  <1>0. /\ MaxRuns \in Nat /\ MaxParks \in Nat /\ MaxFaults \in Nat /\ Runs = 1..MaxRuns
        /\ worker[w] \in WorkerState /\ Free \in WorkerState
    BY BoundsTyped DEF Runs, TurnsTypeOK, WorkerState, Free
  <1>1. /\ lock \in 0..MaxRuns /\ orphan \in BOOLEAN /\ turns \subseteq Runs /\ parks \in 0..MaxParks
        /\ faults \in 0..MaxFaults /\ worker \in [Workers -> WorkerState]
        /\ job \in [Runs -> {"none", "waiting", "active"}] /\ status \in [Runs -> Statuses]
    BY DEF TurnsTypeOK
  <1>2. \A x \in {"gate", "ahead", "start", "acquire", "run"} : \A r \in Created :
          [pc |-> x, run |-> r] \in WorkerState
    BY <1>0 DEF WorkerState, Created
  <1>3. \A x \in {"gate", "ahead", "start", "acquire", "run"} : Goto(w, x) =>
          worker' = [worker EXCEPT ![w] = [pc |-> x, run |-> worker[w].run]]
    <2>1. \A x \in {"gate", "ahead", "start", "acquire", "run"} :
            [worker[w] EXCEPT !.pc = x] = [pc |-> x, run |-> worker[w].run]
      BY <1>0 DEF WorkerState
    <2> QED BY <1>1, <2>1 DEF Goto
  <1>4. worker[w].pc # "idle" => worker[w].run \in Created BY DEF WorkIsForRuns
  <1>5. \A r \in Created : /\ r \in Runs /\ status[r] \in Statuses \ {"NONE"}
                           /\ job[r] \in {"none", "waiting", "active"}
                           /\ job = [job EXCEPT ![r] = job[r]] /\ status = [status EXCEPT ![r] = status[r]]
    BY <1>1 DEF Created
  <1>6. ASSUME NEW r \in Runs, TakeJob(w, r) PROVE TurnsInv'
    <2>1. r \in Created BY <1>6 DEF TakeJob, WorkIsForRuns
    <2>2. PICK x \in {"gate", "start"} :
            /\ worker' = [worker EXCEPT ![w] = [pc |-> x, run |-> r]]
            /\ x = "start" => status[r] \notin Queued
      BY <1>6 DEF TakeJob
    <2>3. /\ job' = [job EXCEPT ![r] = "active"] /\ status' = [status EXCEPT ![r] = status[r]]
          /\ UNCHANGED <<keyOf, record, expired, handler, lock, orphan, turns, replayed, parks, faults>>
      BY <1>5, <1>6, <2>1 DEF TakeJob
    <2>4. [pc |-> x, run |-> r] \in WorkerState BY <1>2, <2>1
    <2> QED BY <1>1, <1>5, <2>1, <2>2, <2>3, <2>4, WorkerMoves
  <1> DEFINE r == worker[w].run
  <1>7. ASSUME GateLock(w) PROVE TurnsInv'
    <2>1. r \in Created BY <1>4, <1>7 DEF GateLock
    <2>2. /\ status' = [status EXCEPT ![r] = status[r]]
          /\ UNCHANGED <<keyOf, record, expired, handler, lock, orphan, turns, replayed, parks, faults>>
      BY <1>5, <1>7, <2>1 DEF GateLock
    <2>3. CASE Defer(w)
      <3>1. job' = [job EXCEPT ![r] = "waiting"] /\ worker' = [worker EXCEPT ![w] = Free]
        BY <2>3 DEF Defer, DeferJob
      <3> HIDE DEF r
      <3> QED BY <1>0, <1>1, <1>5, <2>1, <2>2, <3>1, WorkerMoves DEF Free
    <2>4. CASE Goto(w, "ahead") /\ UNCHANGED job
      <3>1. job' = [job EXCEPT ![r] = job[r]] /\ worker' = [worker EXCEPT ![w] = [pc |-> "ahead", run |-> r]]
        BY <1>3, <1>5, <2>1, <2>4
      <3>2. [pc |-> "ahead", run |-> r] \in WorkerState BY <1>2, <2>1
      <3> HIDE DEF r
      <3> QED BY <1>1, <1>5, <2>1, <2>2, <3>1, <3>2, WorkerMoves
    <2> QED BY <1>7, <2>3, <2>4 DEF GateLock
  <1>8. ASSUME GateAhead(w) PROVE TurnsInv'
    <2>1. r \in Created BY <1>4, <1>8 DEF GateAhead
    <2>2. /\ status' = [status EXCEPT ![r] = status[r]]
          /\ UNCHANGED <<keyOf, record, expired, handler, lock, orphan, turns, replayed, parks, faults>>
      BY <1>5, <1>8, <2>1 DEF GateAhead
    <2>3. CASE Defer(w)
      <3>1. job' = [job EXCEPT ![r] = "waiting"] /\ worker' = [worker EXCEPT ![w] = Free]
        BY <2>3 DEF Defer, DeferJob
      <3> HIDE DEF r
      <3> QED BY <1>0, <1>1, <1>5, <2>1, <2>2, <3>1, WorkerMoves DEF Free
    <2>4. CASE AheadOf(r) = {} /\ Goto(w, "start") /\ UNCHANGED job
      <3>1. job' = [job EXCEPT ![r] = job[r]] /\ worker' = [worker EXCEPT ![w] = [pc |-> "start", run |-> r]]
        BY <1>3, <1>5, <2>1, <2>4
      <3>2. [pc |-> "start", run |-> r] \in WorkerState BY <1>2, <2>1
      <3>3. \A q \in Runs : q < r => status[q] \notin Queued BY <2>4 DEF AheadOf
      <3> HIDE DEF r
      <3> QED BY <1>1, <1>5, <2>1, <2>2, <3>1, <3>2, <3>3, WorkerMoves
    <2> QED BY <1>8, <2>3, <2>4 DEF GateAhead
  <1>9. ASSUME Start(w) PROVE TurnsInv'
    <2>1. r \in Created BY <1>4, <1>9 DEF Start
    <2>2. UNCHANGED <<keyOf, record, expired, handler, lock, orphan, turns, replayed, parks, faults>>
      BY <1>9 DEF Start
    <2>3. CASE status[r] \in Queued \cup {"WAITING"}
      <3>1. /\ status' = [status EXCEPT ![r] = "STARTING"] /\ job' = [job EXCEPT ![r] = job[r]]
            /\ worker' = [worker EXCEPT ![w] = [pc |-> "acquire", run |-> r]]
        BY <1>3, <1>5, <1>9, <2>1, <2>3 DEF Start
      <3>2. [pc |-> "acquire", run |-> r] \in WorkerState BY <1>2, <2>1
      <3> HIDE DEF r
      <3> QED BY <1>1, <1>5, <2>1, <2>2, <3>1, <3>2, WorkerMoves DEF Statuses, Executing, Queued
    <2>4. CASE status[r] \notin Queued \cup {"WAITING"}
      <3>1. /\ status' = [status EXCEPT ![r] = status[r]] /\ job' = [job EXCEPT ![r] = "none"]
            /\ worker' = [worker EXCEPT ![w] = Free]
        BY <1>5, <1>9, <2>1, <2>4 DEF Start
      <3> HIDE DEF r
      <3> QED BY <1>0, <1>1, <1>5, <2>1, <2>2, <3>1, WorkerMoves DEF Free
    <2> QED BY <2>3, <2>4
  <1>10. ASSUME Acquire(w) PROVE TurnsInv'
    <2>1. r \in Created BY <1>4, <1>10 DEF Acquire
    <2>2. UNCHANGED <<keyOf, record, expired, handler, orphan, replayed, parks, faults>>
      BY <1>10 DEF Acquire
    <2>3. CASE lock = 0
      <3>1. /\ status' = [status EXCEPT ![r] = "RUNNING"] /\ job' = [job EXCEPT ![r] = job[r]]
            /\ worker' = [worker EXCEPT ![w] = [pc |-> "run", run |-> r]]
            /\ lock' = r /\ turns' = turns \cup {r}
        BY <1>3, <1>5, <1>10, <2>1, <2>3 DEF Acquire
      <3>2. [pc |-> "run", run |-> r] \in WorkerState BY <1>2, <2>1
      <3>3. r \in Runs /\ r \in 0..MaxRuns BY <1>0, <1>5, <2>1
      <3>4. lock' \in 0..MaxRuns BY <3>1, <3>3
      <3>5. turns \subseteq Runs BY DEF TurnsTypeOK
      <3>6. turns' \subseteq Runs BY <3>1, <3>3, <3>5
      <3>7. "RUNNING" \in Statuses \ {"NONE"} /\ "RUNNING" \notin Queued
        BY DEF Statuses, Executing, Queued
      <3> HIDE DEF r
      <3> QED BY <1>1, <1>5, <2>1, <2>2, <3>1, <3>2, <3>4, <3>6, <3>7, WorkerMoves
    <2>4. CASE lock # 0
      <3>1. /\ status' = [status EXCEPT ![r] = "FAILED"] /\ job' = [job EXCEPT ![r] = "none"]
            /\ worker' = [worker EXCEPT ![w] = Free] /\ UNCHANGED <<lock, turns>>
        BY <1>10, <2>4 DEF Acquire
      <3> HIDE DEF r
      <3> QED BY <1>0, <1>1, <2>1, <2>2, <3>1, WorkerMoves DEF Statuses, Queued, Free
    <2> QED BY <2>3, <2>4
  <1>11. ASSUME Finish(w) PROVE TurnsInv'
    <2>1. r \in Created BY <1>4, <1>11 DEF Finish
    <2>2. PICK st \in {"ENDED", "WAITING"} : status' = [status EXCEPT ![r] = st] BY <1>11 DEF Finish
    <2>3. /\ job' = [job EXCEPT ![r] = "none"] /\ worker' = [worker EXCEPT ![w] = Free] /\ lock' = 0
          /\ UNCHANGED <<keyOf, record, expired, handler, orphan, turns, replayed, faults>>
      BY <1>11 DEF Finish
    <2>4. parks' \in 0..MaxParks /\ 0 \in 0..MaxRuns BY <1>0, <1>1, <1>11 DEF Finish
    <2> HIDE DEF r
    <2>5. st \in Statuses \ {"NONE"} /\ st \notin Queued BY DEF Statuses, Queued
    <2> QED BY <1>0, <1>1, <2>1, <2>2, <2>3, <2>4, <2>5, WorkerMoves DEF Free
  <1>12. ASSUME Crash(w) PROVE TurnsInv'
    <2>1. worker[w].pc # "idle" BY <1>12 DEF Crash, WorkIsForRuns
    <2>2. r \in Created BY <1>4, <2>1
    <2>3. /\ job' = [job EXCEPT ![r] = "waiting"] /\ worker' = [worker EXCEPT ![w] = Free]
          /\ status' = [status EXCEPT ![r] = status[r]]
          /\ UNCHANGED <<keyOf, record, expired, handler, lock, turns, replayed, parks>>
      BY <1>5, <1>12, <2>2 DEF Crash
    <2>4. faults' \in 0..MaxFaults BY <1>0, <1>1, <1>12 DEF Crash, Fault
    <2>5. orphan' \in BOOLEAN BY <1>1, <1>12 DEF Crash
    <2> HIDE DEF r
    <2> QED BY <1>0, <1>1, <1>5, <2>2, <2>3, <2>4, <2>5, WorkerMoves DEF Free
  <1> QED BY <1>6, <1>7, <1>8, <1>9, <1>10, <1>11, <1>12 DEF WorkerStep

LEMMA ReplayKeeps ==
  ASSUME TurnsAssumption, TurnsInv, NEW h \in Handlers, NEW k \in Keys, Replay(h, k)
  PROVE  TurnsInv'
  <1> USE DEF TurnsInv, Replay, Again
  <1>1. TurnsTypeOK' BY DEF TurnsTypeOK, TurnsAssumption, Statuses, Queued, Executing, Free
  <1>2. Created' = Created BY DEF Created, TurnsTypeOK, Queued, Executing, WorkIsForRuns
  <1>3. WorkIsForRuns'
    <2>1. handler'[h].run = record[k] /\ \A x \in Handlers \ {h} : handler'[x] = handler[x]
      BY DEF TurnsTypeOK
    <2>2. record[k] \in Created BY DEF RecordsTell
    <2> QED BY <1>2, <2>1, <2>2 DEF WorkIsForRuns
  <1>4. RecordsTell' BY <1>2 DEF RecordsTell, TurnsTypeOK
  <1>5. GateStands' BY GateFrame DEF TurnsTypeOK, Queued
  <1> QED BY <1>1, <1>2, <1>3, <1>4, <1>5, SameRuns

LEMMA EnqueueJobKeeps ==
  ASSUME TurnsAssumption, TurnsInv, NEW h \in Handlers, EnqueueJob(h)
  PROVE  TurnsInv'
  <1> USE DEF TurnsInv, EnqueueJob, AddJob, Fault
  <1>1. TurnsTypeOK' BY DEF TurnsTypeOK, TurnsAssumption, Statuses, Queued, Executing, Free
  <1>2. Created' = Created BY DEF Created, TurnsTypeOK, Queued, Executing, WorkIsForRuns
  <1>3. WorkIsForRuns'
    <2>0. handler[h].run \in Created /\ handler[h].run \in Runs BY DEF WorkIsForRuns, Created
    <2>1. /\ handler'[h].pc # "idle" => handler'[h].run = handler[h].run
          /\ \A x \in Handlers \ {h} : handler'[x] = handler[x]
      BY DEF TurnsTypeOK, Free
    <2>2. \A x \in Runs : job'[x] # "none" => job[x] # "none" \/ x = handler[h].run
      BY <2>0 DEF TurnsTypeOK
    <2>3. worker' = worker OBVIOUS
    <2> HIDE DEF EnqueueJob
    <2> QED BY <1>2, <2>0, <2>1, <2>2, <2>3 DEF WorkIsForRuns
  <1>4. RecordsTell' BY <1>2 DEF RecordsTell, TurnsTypeOK
  <1>5. GateStands' BY GateFrame DEF TurnsTypeOK, Queued
  <1> QED BY <1>1, <1>2, <1>3, <1>4, <1>5, SameRuns

LEMMA ProjectKeeps ==
  ASSUME TurnsAssumption, TurnsInv, NEW h \in Handlers, Project(h)
  PROVE  TurnsInv'
  <1> USE DEF TurnsInv, Project, ProjectQueued
  <1>1. TurnsTypeOK'
    <2>1. status' \in [Runs -> Statuses] BY DEF TurnsTypeOK, Statuses, Queued
    <2>2. handler' \in [Handlers -> [pc : {"idle", "enqueue", "project"}, run : 0..MaxRuns]]
      BY BoundsTyped DEF TurnsTypeOK, Free
    <2> QED BY <2>1, <2>2 DEF TurnsTypeOK
  <1>2. Created' = Created BY DEF Created, TurnsTypeOK, Queued, Executing, WorkIsForRuns
  <1>3. WorkIsForRuns' BY <1>1, <1>2 DEF WorkIsForRuns, TurnsTypeOK, Free, Created
  <1>4. RecordsTell' BY <1>2 DEF RecordsTell, TurnsTypeOK
  <1>5. GateStands' BY GateFrame DEF TurnsTypeOK, Queued
  <1> QED BY <1>1, <1>2, <1>3, <1>4, <1>5, SameRuns

LEMMA ExpireRecordKeeps ==
  ASSUME TurnsAssumption, TurnsInv, NEW k \in Keys, ExpireRecord(k)
  PROVE  TurnsInv'
  <1> USE DEF TurnsInv, ExpireRecord, Fault
  <1>1. TurnsTypeOK' BY DEF TurnsTypeOK, TurnsAssumption, Statuses, Queued, Executing, Free
  <1>2. Created' = Created BY DEF Created, TurnsTypeOK, Queued, Executing, WorkIsForRuns
  <1>3. WorkIsForRuns' BY <1>1, <1>2 DEF WorkIsForRuns, TurnsTypeOK, Free, Created
  <1>4. RecordsTell' BY <1>2 DEF RecordsTell, TurnsTypeOK
  <1>5. GateStands' BY GateFrame DEF TurnsTypeOK, Queued
  <1> QED BY <1>1, <1>2, <1>3, <1>4, <1>5, SameRuns

LEMMA ResumeKeeps ==
  ASSUME TurnsAssumption, TurnsInv, NEW r \in Runs, Resume(r)
  PROVE  TurnsInv'
  <1> USE DEF TurnsInv, Resume, AddJob
  <1>1. TurnsTypeOK' BY DEF TurnsTypeOK, TurnsAssumption, Statuses, Queued, Executing, Free
  <1>2. Created' = Created BY DEF Created, TurnsTypeOK, Queued, Executing, WorkIsForRuns
  <1>3. WorkIsForRuns' BY <1>1, <1>2 DEF WorkIsForRuns, TurnsTypeOK, Free, Created
  <1>4. RecordsTell' BY <1>2 DEF RecordsTell, TurnsTypeOK
  <1>5. GateStands' BY GateFrame DEF TurnsTypeOK, Queued
  <1> QED BY <1>1, <1>2, <1>3, <1>4, <1>5, SameRuns

LEMMA LockExpiresKeeps ==
  ASSUME TurnsAssumption, TurnsInv, LockExpires
  PROVE  TurnsInv'
  <1> USE DEF TurnsInv, LockExpires
  <1>1. TurnsTypeOK'
    <2>1. 0 \in 0..MaxRuns BY BoundsTyped
    <2>2. lock' \in 0..MaxRuns /\ orphan' \in BOOLEAN BY <2>1, Zenon
    <2> QED BY <2>2 DEF TurnsTypeOK
  <1>2. Created' = Created BY DEF Created, TurnsTypeOK, Queued, Executing, WorkIsForRuns
  <1>3. WorkIsForRuns' BY <1>1, <1>2 DEF WorkIsForRuns, TurnsTypeOK, Free, Created
  <1>4. RecordsTell' BY <1>2 DEF RecordsTell, TurnsTypeOK
  <1>5. GateStands' BY GateFrame DEF TurnsTypeOK, Queued
  <1> QED BY <1>1, <1>2, <1>3, <1>4, <1>5, SameRuns

LEMMA RecoverQueuedKeeps ==
  ASSUME TurnsAssumption, TurnsInv, NEW r \in Runs, RecoverQueued(r)
  PROVE  TurnsInv'
  <1> USE DEF TurnsInv, RecoverQueued, AddJob, Requeued
  <1>1. TurnsTypeOK' BY DEF TurnsTypeOK, TurnsAssumption, Statuses, Queued, Executing, Free
  <1>2. Created' = Created BY DEF Created, TurnsTypeOK, Queued, Executing, WorkIsForRuns
  <1>3. WorkIsForRuns' BY <1>1, <1>2 DEF WorkIsForRuns, TurnsTypeOK, Free, Created
  <1>4. RecordsTell' BY <1>2 DEF RecordsTell, TurnsTypeOK
  <1>5. GateStands' BY GateFrame DEF TurnsTypeOK, Queued
  <1> QED BY <1>1, <1>2, <1>3, <1>4, <1>5, SameRuns

LEMMA RecoverOrphanKeeps ==
  ASSUME TurnsAssumption, TurnsInv, NEW r \in Runs, RecoverOrphan(r)
  PROVE  TurnsInv'
  <1> USE DEF TurnsInv, RecoverOrphan, Attended
  <1>1. TurnsTypeOK' BY DEF TurnsTypeOK, TurnsAssumption, Statuses, Queued, Executing, Free
  <1>2. Created' = Created BY DEF Created, TurnsTypeOK, Queued, Executing, WorkIsForRuns
  <1>3. WorkIsForRuns' BY <1>1, <1>2 DEF WorkIsForRuns, TurnsTypeOK, Free, Created
  <1>4. RecordsTell' BY <1>2 DEF RecordsTell, TurnsTypeOK
  <1>5. GateStands'
    <2>1. /\ \A q \in Runs \ {r} : status'[q] = status[q]
          /\ status'[r] \in Queued => r \in replayed'
          /\ worker' = worker /\ replayed \subseteq replayed'
      BY DEF TurnsTypeOK, Queued
    <2>2. \A v \in Workers : worker[v].run # r OBVIOUS
    <2> HIDE DEF RecoverOrphan
    <2> QED BY <2>1, <2>2, GateFrame
  <1> QED BY <1>1, <1>2, <1>3, <1>4, <1>5, SameRuns

LEMMA CreateKeeps ==
  ASSUME TurnsAssumption, TurnsInv, NEW h \in Handlers, NEW k \in Keys, Create(h, k)
  PROVE  TurnsInv'
  <1> USE DEF TurnsInv
  <1>0. PICK n \in 0..MaxRuns : Created = 1..n BY DEF Numbered
  <1>1. Cardinality(Created) = n
    <2>1. n \in Int /\ 1 \in Int /\ n >= 0 BY <1>0 DEF TurnsAssumption
    <2>2. Cardinality(1..n) = IF 1 > n THEN 0 ELSE n - 1 + 1 BY <2>1, FS_Interval
    <2> QED BY <1>0, <2>1, <2>2
  <1> DEFINE r == n + 1
  <1>2. NextRun = r /\ r \in Runs /\ r \in 1..MaxRuns
    BY <1>0, <1>1 DEF NextRun, Create, Runs, TurnsAssumption
  <1>3. /\ record[k] = 0 /\ handler[h].pc = "idle"
        /\ status' = [status EXCEPT ![r] = "ACCEPTED"] /\ keyOf' = [keyOf EXCEPT ![r] = k]
        /\ record' = [record EXCEPT ![k] = r]
        /\ handler' = [handler EXCEPT ![h] = [pc |-> "enqueue", run |-> r]]
        /\ UNCHANGED <<expired, job, worker, lock, orphan, turns, replayed, parks, faults>>
    BY <1>2 DEF Create, Begun, InsertRun
  <1>4. r \notin Created /\ \A q \in Created : q < r BY <1>0
  <1> HIDE DEF r
  <1>5. /\ status'[r] = "ACCEPTED" /\ keyOf'[r] = k
        /\ \A q \in Runs \ {r} : status'[q] = status[q] /\ keyOf'[q] = keyOf[q]
        /\ record'[k] = r /\ \A j \in Keys \ {k} : record'[j] = record[j]
    BY <1>2, <1>3 DEF TurnsTypeOK
  <1>6. Created' = Created \cup {r} BY <1>2, <1>5 DEF Created
  <1>7. TurnsTypeOK'
    <2>1. status' \in [Runs -> Statuses] /\ keyOf' \in [Runs -> Keys \cup {NoKey}]
      BY <1>3 DEF TurnsTypeOK, Statuses, Queued
    <2>2. record' \in [Keys -> 0..MaxRuns] BY <1>2, <1>3 DEF TurnsTypeOK
    <2>3. handler' \in [Handlers -> [pc : {"idle", "enqueue", "project"}, run : 0..MaxRuns]]
      BY <1>2, <1>3 DEF TurnsTypeOK
    <2> QED BY <1>3, <2>1, <2>2, <2>3 DEF TurnsTypeOK
  <1>8. Numbered'
    <2>1. Created' = 1..(n + 1) BY <1>0, <1>6 DEF r
    <2>2. n + 1 \in 0..MaxRuns BY <1>0, <1>2 DEF r
    <2> QED BY <2>1, <2>2 DEF Numbered
  <1>9. WorkIsForRuns'
    <2>1. handler'[h].run = r /\ \A x \in Handlers \ {h} : handler'[x] = handler[x]
      BY <1>3 DEF TurnsTypeOK
    <2> QED BY <1>3, <1>6, <2>1 DEF WorkIsForRuns
  <1>10. RecordsTell'
    <2>1. \A q \in Created : q \in Runs /\ q # r BY <1>4 DEF Created
    <2>2. k \notin expired => \A q \in Created : keyOf[q] # k
      <3>1. 0 \notin Created BY <1>0
      <3> QED BY <1>3, <3>1 DEF RecordsTell
    <2> QED BY <1>3, <1>5, <1>6, <2>1, <2>2 DEF RecordsTell
  <1>11. GateStands'
    <2> SUFFICES ASSUME NEW w \in Workers, worker[w].pc # "idle", status'[worker[w].run] \in Queued
                 PROVE  /\ worker[w].pc = "start" =>
                             \A q \in Runs : q < worker[w].run => status'[q] \notin Queued \/ q \in replayed
                        /\ worker[w].pc \notin {"acquire", "run"}
      BY <1>3 DEF GateStands
    <2>1. worker[w].run \in Created /\ worker[w].run # r /\ worker[w].run < r
      BY <1>4 DEF WorkIsForRuns
    <2>2. worker[w].run \in Runs /\ status'[worker[w].run] = status[worker[w].run]
      BY <1>5, <2>1 DEF Created
    <2>3. \A q \in Runs : q < worker[w].run => q # r BY <1>2, <2>1, <2>2 DEF Runs, TurnsAssumption
    <2> QED BY <1>5, <2>2, <2>3 DEF GateStands
  <1> QED BY <1>7, <1>8, <1>9, <1>10, <1>11

LEMMA TurnsStep ==
  ASSUME TurnsAssumption, TurnsInv, [TurnsNext]_turnVars
  PROVE  TurnsInv'
  <1>1. CASE UNCHANGED turnVars
    BY <1>1 DEF turnVars, TurnsInv, TurnsTypeOK, Numbered, WorkIsForRuns, RecordsTell, GateStands, Created
  <1>2. CASE TurnsNext
    BY <1>2, CreateKeeps, ReplayKeeps, EnqueueJobKeeps, ProjectKeeps, ExpireRecordKeeps, WorkerKeeps,
       ResumeKeeps, LockExpiresKeeps, RecoverQueuedKeeps, RecoverOrphanKeeps
       DEF TurnsNext, Request, Ask
  <1> QED BY <1>1, <1>2

(* Only Start takes a Run out of the queue.                                *)
LEMMA OrderKept ==
  ASSUME TurnsAssumption, TurnsInv, [TurnsNext]_turnVars
  PROVE  LeavesQueueInOrder
  <1> SUFFICES ASSUME NEW r \in Runs, status[r] \in Queued, status'[r] \notin Queued,
                      NEW q \in Runs, q < r
               PROVE  status'[q] \notin Queued \/ q \in replayed
    BY DEF LeavesQueueInOrder
  <1> USE DEF TurnsInv
  <1>1. status' # status OBVIOUS
  <1>2. ASSUME NEW w \in Workers, Start(w) PROVE status'[q] \notin Queued \/ q \in replayed
    <2>1. worker[w].run \in Runs BY <1>2 DEF Start, WorkIsForRuns, Created
    <2>2. worker[w].pc = "start" /\ worker[w].run = r /\ status' = [status EXCEPT ![r] = "STARTING"]
      BY <1>1, <1>2, <2>1 DEF Start, TurnsTypeOK
    <2>3. q # r BY DEF Runs, TurnsAssumption
    <2>4. status'[q] = status[q] BY <2>2, <2>3 DEF TurnsTypeOK
    <2> QED BY <2>2, <2>4 DEF GateStands
  <1>3. ASSUME NEW v \in Workers, Acquire(v) \/ Finish(v) PROVE FALSE
    <2>1. worker[v].run \in Runs BY <1>3 DEF Acquire, Finish, WorkIsForRuns, Created
    <2>2. worker[v].run = r BY <1>3, <2>1 DEF Acquire, Finish, TurnsTypeOK
    <2> QED BY <1>3, <2>2 DEF Acquire, Finish, GateStands
  <1>4. ASSUME NEW x \in Runs, RecoverQueued(x) PROVE FALSE
    BY <1>4 DEF RecoverQueued, Requeued, TurnsTypeOK, Queued
  <1>5. ASSUME NEW x \in Runs, RecoverOrphan(x) PROVE FALSE
    <2>1. r # x BY <1>5 DEF RecoverOrphan, Queued, Executing
    <2> QED BY <1>5, <2>1 DEF RecoverOrphan, TurnsTypeOK
  <1>6. ASSUME NEW h \in Handlers, Project(h) PROVE FALSE
    BY <1>6 DEF Project, ProjectQueued, TurnsTypeOK, Queued
  <1>7. ASSUME NEW h \in Handlers, NEW k \in Keys, Create(h, k) PROVE FALSE
    BY <1>7 DEF Create, InsertRun, TurnsTypeOK, Queued
  <1>8. CASE UNCHANGED status BY <1>1, <1>8
  <1>9. CASE TurnsNext
    BY <1>1, <1>2, <1>3, <1>4, <1>5, <1>6, <1>7, <1>9
       DEF TurnsNext, Request, Ask, WorkerStep, EnqueueJob, Replay, ExpireRecord, TakeJob, GateLock,
           GateAhead, Crash, Resume, LockExpires
  <1> QED BY <1>8, <1>9 DEF turnVars

(* However requests, workers, crashes and recovery interleave: a request   *)
(* that is sent again creates no second Run while its record lives, and a  *)
(* Run leaves the queue of its session only when no earlier one waits in   *)
(* it (CreateRunService, IdempotencyRepository.begin, session-turn-gate).  *)
THEOREM TurnsInOrder ==
  ASSUME TurnsAssumption
  PROVE  TurnsSpec => [](TurnsTypeOK /\ OneRunPerRequest) /\ [][LeavesQueueInOrder]_turnVars
  <1>1. TurnsInit => TurnsInv
    <2> SUFFICES ASSUME TurnsInit PROVE TurnsInv OBVIOUS
    <2>1. Created = {} BY DEF TurnsInit, Created
    <2>2. TurnsTypeOK
      <3>1. 0 \in 0..MaxRuns /\ 0 \in 0..MaxParks /\ 0 \in 0..MaxFaults BY BoundsTyped
      <3>2. Free \in WorkerState BY <3>1 DEF WorkerState, Free
      <3>3. Free \in [pc : {"idle", "enqueue", "project"}, run : 0..MaxRuns] BY <3>1 DEF Free
      <3>4. status \in [Runs -> Statuses] BY DEF TurnsInit, Statuses
      <3>5. handler \in [Handlers -> [pc : {"idle", "enqueue", "project"}, run : 0..MaxRuns]]
        BY <3>3 DEF TurnsInit
      <3>6. worker \in [Workers -> WorkerState] BY <3>2 DEF TurnsInit
      <3>7. record \in [Keys -> 0..MaxRuns] BY <3>1 DEF TurnsInit
      <3>8. keyOf \in [Runs -> Keys \cup {NoKey}] /\ job \in [Runs -> {"none", "waiting", "active"}]
        BY DEF TurnsInit
      <3> QED BY <3>1, <3>4, <3>5, <3>6, <3>7, <3>8 DEF TurnsInit, TurnsTypeOK
    <2>3. Numbered
      <3>1. 0 \in 0..MaxRuns /\ 1..0 = {} BY BoundsTyped
      <3> QED BY <2>1, <3>1 DEF Numbered
    <2>4. WorkIsForRuns /\ RecordsTell /\ GateStands
      BY <2>1 DEF TurnsInit, WorkIsForRuns, RecordsTell, GateStands, Free
    <2> QED BY <2>2, <2>3, <2>4 DEF TurnsInv
  <1>2. TurnsInv /\ [TurnsNext]_turnVars => TurnsInv' BY TurnsStep
  <1>3. TurnsInv => TurnsTypeOK /\ OneRunPerRequest
    BY DEF TurnsInv, RecordsTell, OneRunPerRequest
  <1>4. TurnsInv /\ [TurnsNext]_turnVars => LeavesQueueInOrder BY OrderKept
  <1> QED BY <1>1, <1>2, <1>3, <1>4, PTL DEF TurnsSpec

==============================================================================
