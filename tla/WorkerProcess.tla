----------------------------- MODULE WorkerProcess -----------------------------
(***************************************************************************)
(* One life of the agent-worker process: the start of worker-main.ts with  *)
(* what each failing step cleans up, the BullMQ consumers of every layer,  *)
(* the guard that pauses them during an outage (worker-dependency-         *)
(* guard.ts) and the bounded shutdown (worker-drain.ts).                   *)
(*                                                                         *)
(* A consumer takes jobs from the moment it is created.  What a job does,  *)
(* and what the loops do, is other modules' business.                      *)
(***************************************************************************)
EXTENDS Naturals, FiniteSets, Sequences, SequencesExt

CONSTANTS MaxLayer,     \* the deepest layer served
          MaxFaults,    \* bound: steps that fail
          MaxOutages    \* bound: outages of MySQL or Redis
ProcessAssumption == MaxLayer \in Nat /\ MaxFaults \in Nat /\ MaxOutages \in Nat

Layers == 0..MaxLayer

VARIABLES pc,         \* where startWorkerMain or runWorkerShutdown is
          undo,       \* what a failed start still has to clean up
          open,       \* what the process has opened or started and not closed
          consumer,   \* per layer
          paused,     \* layers paused
          fetching,   \* layers with a blocking fetch in flight
          jobs,       \* layers with a job in flight
          guard,      \* the dependency guard
          asked,      \* the stops a shutdown has begun
          unclosed,   \* layers whose close() failed or was never called
          up,         \* the dependencies answer
          faults, outages

processVars == <<pc, undo, open, consumer, paused, fetching, jobs, guard, asked, unclosed, up, faults, outages>>

Container == <<"queues", "redis", "mysql">>
Loops == {"timer", "cron", "outbox", "notification", "review"}
Started == <<"mysql", "schema", "redis", "queues", "gate", "services", "runtime", "cron", "timer",
             "notification", "review", "outbox", "consumers", "guard", "up">>
Held == ToSet(Container) \cup Loops \cup {"runtime", "guard"}
FailuresBeforePause == 2
SuccessesBeforeResume == 2

ProcessTypeOK ==
  /\ pc \in ToSet(Started) \cup {"undo", "drain", "teardown", "exit0", "exit1", "killed"}
  /\ undo \in Seq(Held) /\ open \subseteq Held
  /\ consumer \in [Layers -> {"none", "running", "closing", "closed"}]
  /\ paused \subseteq Layers /\ fetching \subseteq Layers /\ jobs \subseteq Layers
  /\ guard \in [at : {"idle", "checking"}, failures : 0..FailuresBeforePause,
                successes : 0..SuccessesBeforeResume, paused : BOOLEAN, stopped : BOOLEAN]
  /\ asked \subseteq {"intake", "background"} /\ unclosed \subseteq Layers
  /\ up \in BOOLEAN /\ faults \in 0..MaxFaults /\ outages \in 0..MaxOutages

ProcessInit ==
  /\ pc = "mysql" /\ undo = <<>> /\ open = {} /\ consumer = [l \in Layers |-> "none"]
  /\ paused = {} /\ fetching = {} /\ jobs = {}
  /\ guard = [at |-> "idle", failures |-> 0, successes |-> 0, paused |-> FALSE, stopped |-> FALSE]
  /\ asked = {} /\ unclosed = {} /\ up = TRUE /\ faults = 0 /\ outages = 0

Ended == pc \in {"exit0", "exit1", "killed"}
Signalled == pc \in {"drain", "teardown"}
Intake == <<consumer, paused, fetching, jobs>>
Bounds == <<faults, outages>>
Fault == faults < MaxFaults /\ faults' = faults + 1 /\ UNCHANGED outages

-----------------------------------------------------------------------------
(* The start.  A step takes the name of what it opens; some open nothing.  *)
Following(step) == Started[(CHOOSE i \in DOMAIN Started : Started[i] = step) + 1]

StartStep ==
  /\ pc \in ToSet(Started) \ {"consumers", "up"}
  /\ pc' = Following(pc) /\ open' = open \cup ({pc} \cap Held)
  /\ UNCHANGED <<undo, Intake, guard, asked, unclosed, up, Bounds>>

(* One consumer per layer, the root first.                                 *)
CreateConsumer(l) ==
  /\ pc = "consumers" /\ consumer[l] = "none" /\ \A k \in 0..(l - 1) : consumer[k] = "running"
  /\ consumer' = [consumer EXCEPT ![l] = "running"]
  /\ pc' = IF l = MaxLayer THEN "guard" ELSE pc
  /\ UNCHANGED <<undo, open, paused, fetching, jobs, guard, asked, unclosed, up, Bounds>>

(* What the failing step cleans up, in order: the rollback of the          *)
(* container or its shutdown, nothing once the runtime is made, and what   *)
(* the catch blocks around the loops and around the consumers name.        *)
Cleanup(step) ==
  CASE step \in {"mysql", "schema", "redis", "queues", "gate", "services"} -> Container
    [] step \in {"runtime", "cron"} -> <<>>
    [] step \in {"notification", "review"} -> <<"timer", "cron", "runtime">> \o Container
    [] step = "consumers" -> <<"timer", "cron", "outbox", "notification", "review", "runtime">> \o Container

(* A step throws; a connection it was opening is open already, and nothing *)
(* closes the consumers there are.                                         *)
StartFails ==
  /\ pc \in ToSet(Started) \ {"timer", "outbox", "guard", "up"} /\ Fault
  /\ pc' = "undo" /\ undo' = Cleanup(pc) /\ open' = open \cup ({pc} \cap ToSet(Container))
  /\ unclosed' = {l \in Layers : consumer[l] = "running"}
  /\ UNCHANGED <<Intake, guard, asked, up>>

UndoStep ==
  /\ pc = "undo" /\ undo # <<>>
  /\ undo' = Tail(undo) /\ open' = open \ {Head(undo)}
  /\ UNCHANGED <<pc, Intake, guard, asked, unclosed, up, Bounds>>

(* startWorkerMain closes the probe and rethrows: process.exit(1).         *)
ExitFailed ==
  /\ pc = "undo" /\ undo = <<>> /\ pc' = "exit1"
  /\ UNCHANGED <<undo, open, Intake, guard, asked, unclosed, up, Bounds>>

-----------------------------------------------------------------------------
(* A consumer (BullMQ's Worker).  pause(true) does not end the fetch that  *)
(* is in flight, close() stops fetching at once.                           *)
Fetch(l) ==
  /\ consumer[l] = "running" /\ l \notin paused \cup fetching \cup jobs /\ ~Ended
  /\ fetching' = fetching \cup {l}
  /\ UNCHANGED <<pc, undo, open, consumer, paused, jobs, guard, asked, unclosed, up, Bounds>>

(* createRunJobHandler puts the job back while its layer is paused, or     *)
(* while its session has an earlier run; processJob refuses it after the   *)
(* shutdown of the runtime.                                                *)
Deferred(l) == l \in paused
Deliver(l) ==
  /\ l \in fetching /\ ~Ended /\ fetching' = fetching \ {l}
  /\ jobs' = IF Deferred(l) \/ "runtime" \notin open THEN jobs ELSE jobs \cup {l}
  /\ UNCHANGED <<pc, undo, open, consumer, paused, guard, asked, unclosed, up, Bounds>>

NoJob(l) ==
  /\ l \in fetching /\ ~Ended /\ fetching' = fetching \ {l}
  /\ UNCHANGED <<pc, undo, open, consumer, paused, jobs, guard, asked, unclosed, up, Bounds>>

JobEnds(l) ==
  /\ l \in jobs /\ ~Ended /\ jobs' = jobs \ {l}
  /\ UNCHANGED <<pc, undo, open, consumer, paused, fetching, guard, asked, unclosed, up, Bounds>>

-----------------------------------------------------------------------------
(* The dependency guard.                                                   *)
Watching == "guard" \in open /\ ~Ended
CheckBegins ==
  /\ Watching /\ guard.at = "idle" /\ ~guard.stopped
  /\ guard' = [guard EXCEPT !.at = "checking"]
  /\ UNCHANGED <<pc, undo, open, Intake, asked, unclosed, up, Bounds>>

(* resume: a consumer that closes would take jobs again.                   *)
ResumeAlways == paused' = {} /\ consumer' = [l \in Layers |-> IF l \in paused THEN "running" ELSE consumer[l]]
Resume == IF Signalled THEN UNCHANGED <<paused, consumer>> ELSE ResumeAlways

AtMost(n, limit) == IF n > limit THEN limit ELSE n
CheckEnds ==
  /\ Watching /\ guard.at = "checking"
  /\ LET failures == IF up THEN 0 ELSE AtMost(guard.failures + 1, FailuresBeforePause)
         successes == IF up THEN AtMost(guard.successes + 1, SuccessesBeforeResume) ELSE 0
         resumes == up /\ guard.paused /\ successes >= SuccessesBeforeResume
         pauses == ~up /\ ~guard.paused /\ failures >= FailuresBeforePause
     IN IF guard.stopped THEN guard' = [guard EXCEPT !.at = "idle"] /\ UNCHANGED <<paused, consumer>>
        ELSE /\ guard' = [guard EXCEPT !.at = "idle", !.failures = failures, !.successes = successes,
                                       !.paused = (@ \/ pauses) /\ ~resumes]
             /\ IF resumes THEN Resume
                ELSE paused' = (IF pauses THEN Layers ELSE paused) /\ UNCHANGED consumer
  /\ UNCHANGED <<pc, undo, open, fetching, jobs, asked, unclosed, up, Bounds>>

Outage ==
  /\ up /\ outages < MaxOutages /\ ~Ended /\ outages' = outages + 1 /\ up' = FALSE
  /\ UNCHANGED <<pc, undo, open, Intake, guard, asked, unclosed, faults>>
Recover ==
  /\ ~up /\ ~Ended /\ up' = TRUE
  /\ UNCHANGED <<pc, undo, open, Intake, guard, asked, unclosed, Bounds>>

-----------------------------------------------------------------------------
(* SIGTERM or SIGINT.  The handlers are installed last; before that the    *)
(* signal ends the process.                                                *)
Signal ==
  /\ pc \in ToSet(Started) \cup {"undo"}
  /\ pc' = IF pc = "up" THEN "drain" ELSE "killed"
  /\ UNCHANGED <<undo, open, Intake, guard, asked, unclosed, up, Bounds>>

(* stopIntake and stopBackground begin side by side.                       *)
StopIntake ==
  /\ pc = "drain" /\ "intake" \notin asked /\ asked' = asked \cup {"intake"}
  /\ consumer' = [l \in Layers |-> "closing"]
  /\ UNCHANGED <<pc, undo, open, paused, fetching, jobs, guard, unclosed, up, Bounds>>

CloseEnds(l) ==
  /\ pc = "drain" /\ consumer[l] = "closing" /\ l \notin fetching \cup jobs
  /\ consumer' = [consumer EXCEPT ![l] = "closed"]
  /\ UNCHANGED <<pc, undo, open, paused, fetching, jobs, guard, asked, unclosed, up, Bounds>>

(* destroyRunWorker swallows what close() throws.                          *)
CloseFails(l) ==
  /\ pc = "drain" /\ consumer[l] = "closing" /\ Fault
  /\ consumer' = [consumer EXCEPT ![l] = "closed"] /\ unclosed' = unclosed \cup {l}
  /\ UNCHANGED <<pc, undo, open, paused, fetching, jobs, guard, asked, up>>

StopBackground ==
  /\ pc = "drain" /\ "background" \notin asked /\ asked' = asked \cup {"background"}
  /\ guard' = [guard EXCEPT !.stopped = TRUE] /\ open' = open \ {"timer"}
  /\ UNCHANGED <<pc, undo, Intake, unclosed, up, Bounds>>

(* A loop ends after its current round, the guard after its check.         *)
BackgroundEnds(x) ==
  /\ pc = "drain" /\ "background" \in asked /\ x \in open \cap (Loops \cup {"guard"})
  /\ x = "guard" => guard.at = "idle"
  /\ open' = open \ {x}
  /\ UNCHANGED <<pc, undo, Intake, guard, asked, unclosed, up, Bounds>>

Drained ==
  /\ asked = {"intake", "background"}
  /\ \A l \in Layers : consumer[l] = "closed"
  /\ open \cap (Loops \cup {"guard"}) = {}
DrainEnds ==
  /\ pc = "drain" /\ Drained /\ pc' = "teardown"
  /\ UNCHANGED <<undo, open, Intake, guard, asked, unclosed, up, Bounds>>

(* The drain budget, counted from the signal: no cleanup, exit 1.          *)
DeadlineTearsDown == pc = "drain" /\ pc' = "teardown"
DeadlineIgnored == pc = "drain" /\ Drained /\ pc' = "exit1"
DrainDeadlineStep == pc = "drain" /\ pc' = "exit1"
DrainDeadline ==
  /\ DrainDeadlineStep
  /\ UNCHANGED <<undo, open, Intake, guard, asked, unclosed, up, Bounds>>

(* Runtime, then queues, Redis and MySQL; their errors are swallowed.      *)
TeardownOrder == <<"runtime">> \o Container
TeardownStep ==
  /\ pc = "teardown"
  /\ \E i \in DOMAIN TeardownOrder :
       /\ TeardownOrder[i] \in open /\ \A j \in 1..(i - 1) : TeardownOrder[j] \notin open
       /\ open' = open \ {TeardownOrder[i]}
  /\ UNCHANGED <<pc, undo, Intake, guard, asked, unclosed, up, Bounds>>
TeardownDeadline ==
  /\ pc = "teardown" /\ pc' = "exit1"
  /\ UNCHANGED <<undo, open, Intake, guard, asked, unclosed, up, Bounds>>
ExitClean ==
  /\ pc = "teardown" /\ open \cap ToSet(TeardownOrder) = {} /\ pc' = "exit0"
  /\ UNCHANGED <<undo, open, Intake, guard, asked, unclosed, up, Bounds>>

ProcessNext ==
  \/ StartStep \/ StartFails \/ UndoStep \/ ExitFailed
  \/ \E l \in Layers : \/ CreateConsumer(l) \/ Fetch(l) \/ Deliver(l) \/ NoJob(l) \/ JobEnds(l)
                       \/ CloseEnds(l) \/ CloseFails(l)
  \/ CheckBegins \/ CheckEnds \/ Outage \/ Recover
  \/ Signal \/ StopIntake \/ StopBackground \/ \E x \in Held : BackgroundEnds(x)
  \/ DrainEnds \/ DrainDeadline \/ TeardownStep \/ TeardownDeadline \/ ExitClean

-----------------------------------------------------------------------------
(* A consumer the process ends without having closed: its close failed, or *)
(* the start failed at the consumer of a deeper layer.                     *)
NeverClosed(l) ==
  l \in unclosed /\ ("intake" \in asked \/ \E k \in Layers : k > l /\ consumer[k] = "none")

(* The pool is not closed under a run: while a job is in flight MySQL is   *)
(* open.  It is closed under the run of a consumer that was never closed:  *)
(* worker-main.ts:325 closes everything else when a consumer cannot be     *)
(* created and leaves the shallower ones taking jobs.                      *)
PoolOutlivesRuns == \A l \in jobs : "mysql" \in open \/ NeverClosed(l)

(* Once a shutdown has told the consumers to close, no layer fetches       *)
(* another job, whatever the guard finds.                                  *)
NoIntakeAfterClose == "intake" \in asked => fetching' \subseteq fetching

(* Exit code 0 means that everything that was started has ended.           *)
CleanIsClean == pc = "exit0" => open = {} /\ jobs \cup fetching \subseteq unclosed

(* A signal ends the process, whatever hangs.                              *)
SignalReceived == Signalled
ProcessEnded == Ended
=============================================================================
