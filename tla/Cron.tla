--------------------------------- MODULE Cron ---------------------------------
(***************************************************************************)
(* Scheduled jobs: the job and execution tables (cron-job-repository), the *)
(* service that edits, claims, executes, recovers and reconciles them      *)
(* (cron-job-service) and the schedulers that tick in every worker         *)
(* (CronScheduler).  Run creation is an idempotent transaction keyed by    *)
(* the execution (create-run-service), whose record expires.               *)
(*                                                                         *)
(* Time is counted in ticks; a recurring job has a slot at every tick of   *)
(* Slots.  An actor is a scheduler or the HTTP request of a manual run:    *)
(* both end in executeClaim, the schedulers for one claim after another.   *)
(***************************************************************************)
EXTENDS Naturals, FiniteSets, Sequences

CONSTANTS Jobs,        \* the jobs of the table
          OneTime,     \* the jobs whose schedule is `once`
          FireOnce,    \* the jobs with misfire policy fire_once, not skip
          Forbid,      \* the jobs with concurrency policy forbid, not allow
          Slots,       \* the instants of the schedules
          Schedulers,  \* worker processes
          Manuals,     \* manual run requests
          MaxTime,     \* bound: the last tick
          Grace,       \* misfireGraceMs
          Retry,       \* claimRetryMs
          Ttl,         \* the life of an idempotency record
          MaxEdits,    \* bound: updates and deletions by owners
          MaxFaults,   \* bound: crashes and failed transactions
          Faults       \* the faults under study

CronAssumption ==
    /\ IsFiniteSet(Jobs)
    /\ OneTime \cup FireOnce \cup Forbid \subseteq Jobs
    /\ Slots \subseteq 0 .. MaxTime /\ Slots # {}
    /\ {MaxTime, Grace, Retry, Ttl, MaxEdits, MaxFaults} \subseteq Nat
    /\ Faults \subseteq {"create", "record", "crash"}
    /\ Schedulers \cap Manuals = {}

VARIABLES now,        \* the clock
          jobs,       \* cron_jobs
          executions, \* cron_job_runs, in the order of their insertion
          runs,       \* agent runs: the execution that asked, and liveness
          keys,       \* idempotency records: the run and its expiry
          actors,     \* what each scheduler and request is doing
          edits, faults

vars == <<now, jobs, executions, runs, keys, actors, edits, faults>>

Never == MaxTime + 1  \* next_run_at NULL, and the time after the last tick
Ids == 1 .. Len(executions)
Statuses == {"CLAIMED", "SKIPPED", "QUEUED", "SUCCEEDED", "FAILED"}

SetMin(S) == CHOOSE x \in S : \A y \in S : x <= y

\* Every later minute is a slot.
NextMinute(t) == IF t < MaxTime THEN t + 1 ELSE Never

\* nextCronOccurrence: the first slot strictly after an instant.
NextOccurrence(t) ==
    LET later == {x \in Slots : x > t}
    IN IF later = {} THEN Never ELSE SetMin(later)

RunAt == SetMin(Slots)

\* normalizeInput: the next run of an enabled job, from now or from run_at.
NextRunAt(j, enabled) ==
    CASE ~enabled -> Never
      [] j \in OneTime -> RunAt
      [] OTHER -> NextOccurrence(now)

Idle == [step |-> "idle", work |-> {}, job |-> CHOOSE j \in Jobs : TRUE,
         open |-> FALSE, run |-> 0]

Init ==
    /\ now = 0
    /\ jobs = [j \in Jobs |-> [enabled |-> TRUE, deleted |-> FALSE,
                               next |-> IF j \in OneTime THEN RunAt
                                        ELSE NextOccurrence(0),
                               since |-> 0]]
    /\ executions = << >>
    /\ runs = << >>
    /\ keys = << >>
    /\ actors = [a \in Schedulers \cup Manuals |-> Idle]
    /\ edits = 0
    /\ faults = 0

Advance ==
    /\ now < MaxTime
    /\ now' = now + 1
    /\ UNCHANGED <<jobs, executions, runs, keys, actors, edits, faults>>

-----------------------------------------------------------------------------
(* The owner. *)

\* update: one transaction under the row's lock.  The whole row is written
\* again, next_run_at recomputed.
Update(j, enabled) ==
    /\ edits < MaxEdits
    /\ ~jobs[j].deleted
    /\ jobs' = [jobs EXCEPT ![j].enabled = enabled,
                            ![j].next = NextRunAt(j, enabled),
                            ![j].since = now]
    /\ edits' = edits + 1
    /\ UNCHANGED <<now, executions, runs, keys, actors, faults>>

\* softDelete.
Delete(j) ==
    /\ edits < MaxEdits
    /\ ~jobs[j].deleted
    /\ jobs' = [jobs EXCEPT ![j].enabled = FALSE, ![j].deleted = TRUE]
    /\ edits' = edits + 1
    /\ UNCHANGED <<now, executions, runs, keys, actors, faults>>

-----------------------------------------------------------------------------
(* Executions. *)

Live(r) == r # 0 /\ runs[r].live

\* An execution counts as open once it has a run.
OpenWithRun(j) ==
    \E e \in Ids : /\ executions[e].job = j
                   /\ executions[e].status = "QUEUED" /\ Live(executions[e].run)

\* hasOpenExecution: claimed, or queued with a run that has not ended.
HasOpenExecution(j) ==
    \E e \in Ids : /\ executions[e].job = j
                   /\ \/ executions[e].status = "CLAIMED"
                      \/ executions[e].status = "QUEUED" /\ Live(executions[e].run)

Claim(j, at, status) ==
    [job |-> j, at |-> at, claimedAt |-> now, status |-> status, run |-> 0]

\* The unique key of cron_job_runs.
Taken(j, at) == \E e \in Ids : executions[e].job = j /\ executions[e].at = at

Due == {j \in Jobs : jobs[j].enabled /\ ~jobs[j].deleted /\ jobs[j].next <= now}

\* claimDue's verdict about a slot: it is run, or recorded as skipped.
Verdict(j) ==
    LET missed == now - jobs[j].next > Grace
        skip == missed /\ j \notin FireOnce
        blocked == j \in Forbid /\ HasOpenExecution(j)
    IN IF skip \/ blocked THEN "SKIPPED" ELSE "CLAIMED"

\* A schedule that goes on from the clock and not from the slot it claimed.
NextFromNow(j) == IF j \in OneTime THEN Never ELSE NextOccurrence(now)

\* nextAfter.
NextAfter(j) == IF j \in OneTime THEN Never ELSE NextOccurrence(jobs[j].next)

\* claimDue: the due jobs are marked, executed slots inserted and schedules
\* advanced in one transaction, which an execution that exists rolls back.
ClaimDue(s) ==
    LET order == CHOOSE f \in [1 .. Cardinality(Due) -> Due] :
                    \A a, b \in DOMAIN f : a # b => f[a] # f[b]
        rows == [n \in DOMAIN order |->
                    Claim(order[n], jobs[order[n]].next, Verdict(order[n]))]
        claimed == {n \in DOMAIN order : rows[n].status = "CLAIMED"}
    IN IF \E j \in Due : Taken(j, jobs[j].next)
       THEN /\ actors' = [actors EXCEPT ![s] = Idle]
            /\ UNCHANGED <<jobs, executions>>
       ELSE /\ executions' = executions \o rows
            /\ jobs' = [j \in Jobs |->
                          IF j \in Due
                          THEN [jobs[j] EXCEPT !.next = NextAfter(j),
                                               !.enabled = j \notin OneTime]
                          ELSE jobs[j]]
            /\ actors' = [actors EXCEPT ![s] =
                  [Idle EXCEPT !.step = IF rows = << >> THEN "idle" ELSE "create",
                               !.work = {Len(executions) + n : n \in claimed}]]

\* reconcileRuns: a queued execution takes the status of its ended run.
Reconciled ==
    [e \in Ids |->
        IF executions[e].status = "QUEUED" /\ ~Live(executions[e].run)
        THEN [executions[e] EXCEPT !.status = "SUCCEEDED"]
        ELSE executions[e]]

\* Claims are never taken over.
NoStaleClaims == {}

\* listStaleClaims: claimed long ago, for a job that is not deleted.
StaleClaims ==
    {e \in Ids : /\ executions[e].status = "CLAIMED"
                 /\ executions[e].claimedAt + Retry <= now
                 /\ ~jobs[executions[e].job].deleted}

\* A tick that found nothing to recover ends there.
TickRecovers(s) ==
    /\ actors[s].step = "idle"
    /\ StaleClaims # {} \/ Reconciled # executions
    /\ executions' = Reconciled
    /\ actors' = [actors EXCEPT ![s] =
                    [Idle EXCEPT !.step = "recover", !.work = StaleClaims]]
    /\ UNCHANGED <<now, jobs, runs, keys, edits, faults>>

\* tick: reconcile, then the stale claims, and then the due jobs.
Tick(s) ==
    /\ actors[s].step = "idle"
    /\ \/ Due # {}
       \/ StaleClaims # {}
       \/ Reconciled # executions
    /\ executions' = Reconciled
    /\ actors' = [actors EXCEPT ![s] =
                    [Idle EXCEPT !.step = "recover", !.work = StaleClaims]]
    /\ UNCHANGED <<now, jobs, runs, keys, edits, faults>>

\* The claims this tick recovered are executed; the due jobs are claimed.
ClaimAfterRecovery(s) ==
    /\ actors[s].step = "recover"
    /\ actors[s].work = {}
    /\ ClaimDue(s)
    /\ UNCHANGED <<now, runs, keys, edits, faults>>

TickEnds(s) ==
    /\ actors[s].step = "create"
    /\ actors[s].work = {}
    /\ actors' = [actors EXCEPT ![s] = Idle]
    /\ UNCHANGED <<now, jobs, executions, runs, keys, edits, faults>>

\* runManual, up to its lock: resolving the owner reads, and fixes what the
\* later reads of the transaction see.
ManualBegin(m, j) ==
    /\ actors[m].step = "idle"
    /\ now < MaxTime
    /\ ~jobs[j].deleted
    /\ actors' = [actors EXCEPT ![m] = [Idle EXCEPT !.step = "manual", !.job = j,
                                                    !.open = HasOpenExecution(j)]]
    /\ UNCHANGED <<now, jobs, executions, runs, keys, edits, faults>>

\* runManual under the row's lock; the insertion names the instant.
ManualClaim(m) ==
    LET j == actors[m].job
        refused == jobs[j].deleted \/ (j \in Forbid /\ actors[m].open)
    IN /\ actors[m].step = "manual"
       /\ IF refused
          THEN /\ actors' = [actors EXCEPT ![m].step = "done"]
               /\ UNCHANGED executions
          ELSE /\ executions' = Append(executions, Claim(j, Never, "CLAIMED"))
               /\ actors' = [actors EXCEPT ![m].step = "create",
                                           ![m].work = {Len(executions) + 1}]
       /\ UNCHANGED <<now, jobs, runs, keys, edits, faults>>

-----------------------------------------------------------------------------
(* executeClaim. *)

\* The claims an actor has to execute, it takes in the order of their rows.
Turn(a) == SetMin(actors[a].work)

Executing(a) ==
    /\ actors[a].step \in {"recover", "create"}
    /\ actors[a].work # {}

\* Run creation is asked without a key.
KnownNever(e) == {n \in DOMAIN keys : keys[n].for = e /\ keys[n].run = 0}

\* The record of the execution's key that has not expired.
Known(e) == {n \in DOMAIN keys : keys[n].for = e /\ keys[n].expires > now}

\* createRunService.execute: a new run, or the one its record names.
CreateRun(a) ==
    LET e == Turn(a)
        fresh == Known(e) = {}
        r == IF fresh THEN Len(runs) + 1
             ELSE keys[CHOOSE n \in Known(e) : TRUE].run
    IN /\ Executing(a)
       /\ actors[a].run = 0
       /\ runs' = IF fresh THEN Append(runs, [for |-> e, live |-> TRUE]) ELSE runs
       /\ keys' = IF fresh
                  THEN Append(keys, [for |-> e, run |-> r, expires |-> now + Ttl])
                  ELSE keys
       /\ actors' = [actors EXCEPT ![a].run = r]
       /\ UNCHANGED <<now, jobs, executions, edits, faults>>

\* The claim is done, and the actor turns to its next one.
Finished(a) == [actors EXCEPT ![a].run = 0, ![a].work = @ \ {Turn(a)}]

\* The execution is queued with its run.
RecordRun(a) ==
    /\ Executing(a)
    /\ actors[a].run # 0
    /\ executions' = [executions EXCEPT ![Turn(a)].status = "QUEUED",
                                        ![Turn(a)].run = actors[a].run]
    /\ actors' = Finished(a)
    /\ UNCHANGED <<now, jobs, runs, keys, edits, faults>>

\* The owner is gone, run creation fails, or the record of the run cannot be
\* written: the execution fails.
ExecutionFails(a) ==
    /\ Executing(a)
    /\ (IF actors[a].run = 0 THEN "create" ELSE "record") \in Faults
    /\ faults < MaxFaults
    /\ faults' = faults + 1
    /\ executions' = [executions EXCEPT ![Turn(a)].status = "FAILED"]
    /\ actors' = Finished(a)
    /\ UNCHANGED <<now, jobs, runs, keys, edits>>

\* The process dies with its claims.
Crash(a) ==
    /\ "crash" \in Faults
    /\ faults < MaxFaults
    /\ Executing(a)
    /\ faults' = faults + 1
    /\ actors' = [actors EXCEPT ![a] = Idle]
    /\ UNCHANGED <<now, jobs, executions, runs, keys, edits>>

EndRun(r) ==
    /\ runs[r].live
    /\ runs' = [runs EXCEPT ![r].live = FALSE]
    /\ UNCHANGED <<now, jobs, executions, keys, actors, edits, faults>>

ExecuteClaim(a) == CreateRun(a) \/ RecordRun(a) \/ ExecutionFails(a) \/ Crash(a)

Schedule(s) == Tick(s) \/ ClaimAfterRecovery(s) \/ TickEnds(s)

Done == now = MaxTime /\ UNCHANGED vars

Next ==
    \/ Advance
    \/ \E j \in Jobs, enabled \in BOOLEAN : Update(j, enabled)
    \/ \E j \in Jobs : Delete(j)
    \/ \E s \in Schedulers : Schedule(s)
    \/ \E m \in Manuals, j \in Jobs : ManualBegin(m, j)
    \/ \E m \in Manuals : ManualClaim(m)
    \/ \E a \in Schedulers \cup Manuals : ExecuteClaim(a)
    \/ \E r \in DOMAIN runs : EndRun(r)
    \/ Done

\* Timers fire, and an actor that started a step finishes it.
Fairness ==
    /\ WF_vars(Advance)
    /\ \A s \in Schedulers : WF_vars(Schedule(s))
    /\ \A a \in Schedulers \cup Manuals : WF_vars(ExecuteClaim(a))

Spec == Init /\ [][Next]_vars /\ Fairness

-----------------------------------------------------------------------------

\* Rows refer to jobs and runs that exist, and an execution that was skipped
\* has no run.
TypeOK ==
    /\ now \in 0 .. MaxTime /\ edits \in 0 .. MaxEdits /\ faults \in 0 .. MaxFaults
    /\ \A j \in Jobs : /\ jobs[j].next \in 0 .. Never
                       /\ jobs[j].next < Never => jobs[j].next \in Slots
    /\ \A e \in Ids : /\ executions[e].job \in Jobs
                      /\ executions[e].status \in Statuses
                      /\ executions[e].run \in 0 .. Len(runs)
                      /\ executions[e].status = "SKIPPED" => executions[e].run = 0
    /\ \A r \in DOMAIN runs : runs[r].for \in Ids

\* However many schedulers tick, crash and recover each other's claims, the
\* idempotency key that executeClaim gives to run creation keeps an execution to
\* one run during the life of a record: a second run, which a late recovery
\* does make, is a whole life later.
RunsLifeApart ==
    \A r, q \in DOMAIN runs :
        r < q /\ runs[r].for = runs[q].for => keys[r].expires + Ttl <= keys[q].expires

\* Every slot a recurring job passed since its last edit was claimed or
\* recorded as skipped, whatever its schedulers missed (claimDue advances
\* from the slot, in the transaction that inserts the execution).
SlotsAccounted ==
    \A j \in Jobs \ OneTime : \A t \in Slots :
        t > jobs[j].since /\ t < jobs[j].next /\ jobs[j].enabled => Taken(j, t)

\* A run the table of executions has lost sight of: its execution was marked
\* failed after the run was made, or has another run.
LostSight(r) ==
    \/ executions[runs[r].for].status = "FAILED"
    \/ \E q \in DOMAIN runs : q # r /\ runs[q].for = runs[r].for

\* The scheduler claims no slot of a job whose policy is forbid while a run of
\* the job lives, of whatever slot or manual request, unless the table lost
\* sight of it (claimDue asks hasOpenExecution in its transaction).
ForbidHolds ==
    \A e \in Ids' \ Ids :
        /\ executions'[e].at # Never /\ executions'[e].status = "CLAIMED"
        /\ executions'[e].job \in Forbid
        => \A r \in DOMAIN runs :
              runs[r].live /\ executions[runs[r].for].job = executions'[e].job
              => LostSight(r)

\* Every slot is accounted for, runs of one execution are a record's life apart,
\* and schedulers respect forbid.
CronAccounted == [](RunsLifeApart /\ SlotsAccounted) /\ [][ForbidHolds]_vars

\* A claim of a job that is not deleted ends in a run or in a failure, by
\* whichever process (recoverClaims).
OldClaims(j) == {e \in Ids : executions[e].job = j /\ executions[e].status = "CLAIMED"
                                /\ executions[e].claimedAt + Retry < MaxTime}
HasOldClaim(j) == OldClaims(j) # {}
ClaimsOver(j) == jobs[j].deleted \/ OldClaims(j) = {}

\* A job that is due is claimed in the end, or edited, unless an owner moved a
\* one-time job back to the slot it already took: the claim of the due jobs is
\* one transaction, which that slot rolls back (claimDue, cron_job_runs' key).
IsDue(j) == j \in Due
MovedBack == \E j \in Due \cap OneTime : Taken(j, jobs[j].next)
DueIsOver(j) == ~IsDue(j) \/ MovedBack

=============================================================================
