# TLA+ models of pi-enterprise-sandbox

pi-enterprise-sandbox runs LLM agents for the users of an enterprise.  A user
sends a message to a *session*; the platform turns it into a *Run*, executes
the Run on a pool of workers, lets the agent call tools in a sandbox, pauses
the Run when a tool needs an approval or the agent asks a question, streams its
events to the browser and tells the owner how it ended.  Around that core are
the services that create Runs (chat, cron jobs, A2A clients), those that decide
what an agent may do (catalog, risk policy, skills, accounts), the execution
service with its jobs, files and quotas, and the browser.

This directory specifies the core as a chain of refinements that is model-checked
and proved, and the services around it as one module each, model-checked on
small instances and in part proved.  `PROJECT.json` lists the hazards of the code
at the lines where they bite, and says in `map` which lines the state, the
actions and the principal operators model; the lines of a small helper are
also in the entry of the operator that uses it, and its own entry is in `map_more`.

Paths are relative to the repository; `agent/src/application` is written `app/`.

## 1. The system

### Processes and stores

| Part | Where | State it keeps |
|---|---|---|
| agent API | `agent/src/presentation`, `app/`, `agent/src/bootstrap/http-main.ts` | none; a request is one or more MySQL transactions, then best-effort Redis calls |
| agent worker | `agent/src/bootstrap/worker-main.ts`, `app/execute-run-service.ts`, `app/dsh-run-executor.ts` | local variables of one attempt per job; the consumers, timers and loops of the process |
| recovery scanner, outbox publisher, cron scheduler, collectors | loops in each worker process | local variables of the row they are looking at |
| MySQL | `agent/src/infrastructure/mysql` | **the only authority**: runs, tool executions, approvals, interactions, sessions, events, outbox, accounts, catalog, cron jobs, skills, ... |
| Redis | `agent/src/infrastructure/redis` | hints and mutual exclusion: BullMQ jobs, the Run lease, the session lock, cancel signals, event streams; all of it may be lost |
| exec service | `exec/` | processes, job rows and output files, workspaces, quota reservations, MCP contexts |
| api-server (BFF) | `api-server/` | sign-in transactions; otherwise relays |
| frontend | `frontend/` | the entity store of the chat, connections, drafts, the identity shown |

The API creates a Run in MySQL, enqueues a job (jobId = runId) and projects
QUEUED.  A worker takes the job, asks the turn gate, takes the Run lease, moves the
Run to RUNNING, takes the session lock and the MySQL fence, and prompts.  Tool
calls pass the risk policy, are recorded, and reach the exec service by signed
RPC.  A question parks the Run: the worker leaves, the user answers through the
API, and a *resume job* brings a worker back.  Every status change writes an event
and an outbox row in its transaction; publishers append the rows to a Redis
stream; SSE and A2A readers combine the stream with the journal in MySQL.  The
scanner reads MySQL, probes the lease and repairs whatever got lost.  Users
cancel at any time; the intent is a column, the Redis signal only makes workers
notice sooner.

### Inventory

For each component: what it keeps and does, what is hard about it, what makes it
correct.

* **Run ledger** (`app/run-transition.ts`, the repositories).  The Run's status
  and cancel intent, one row per tool call, approval and interaction, the session's
  `last_run_id`, status and fence.  Several processes write the same rows and
  several rows must agree.  Every open question can be answered, an unapproved
  call never ran, the end happens and is announced once, success rests on a
  checkpoint.
* **Execution worker, DSH executor, recovery scanner, Redis tokens**
  (`app/execute-run-service.ts`, `dsh-run-executor.ts`,
  `run-recovery-service.ts`, `infrastructure/redis`).  Everything read may be
  stale after the next await, the lease may be gone, jobs get lost, a busy job id
  absorbs a re-enqueue.  One runtime per session, no stale write, no repeated
  side effect, no Run taken from a live worker, nothing stuck.
* **Session turns and Run creation** (`app/create-run-service.ts`,
  `session-turn-gate.ts`).  Retried requests race their first attempt.  One Run
  per request, turns in order.
* **Session store** (`app/session-recovery-service.ts`,
  `runtime/providers/mysql-session-store.ts`).  Three copies of one conversation
  with different guards, several executors in flight.  The history survives.
* **Events, outbox, SSE** (`infrastructure/outbox`, `app/run-event-sse-service.ts`,
  `frontend/src/shared/sse`).  Publication is at least once and out of order.  The
  reader gets 1, 2, 3, ... and then the end.
* **Tool governance** (`app/fenced-tool-governance-recorder.ts`, `runtime/policy`).
  Calls of one turn run concurrently while one of them parks the Run.  Approved
  means at most once; a parked Run has settled its calls.
* **Review** (`app/review-service.ts`).  A page read in several statements, two
  outbox jobs between services.  What is released is what was seen.
* **A2A** (`app/a2a`).  Repeated messages, statements that fail half way, a stream
  with a final frame.  No orphan Run, no answer without audit, one live key.
* **Accounts, members, browser sign-in** (`app/sso-login-service.ts`,
  `member-role-service.ts`, `frontend/src/features/chat/useAuthSession.ts`).  Two
  first logins, two administrators, answers out of order.
* **Agent catalog and editor, risk policy, skills** (`app/agent-catalog-service.ts`,
  `infrastructure/dsh/tool-risk-policy.ts`, `skills/`).  Checks on snapshots,
  several layers merged, bytes on disk and rows in MySQL.
* **Cron** (`app/cron-job-service.ts`, `cron-schedule.ts`).  Claims, crashes and
  manual runs; local time with its jumps.
* **Exec service** (`exec/src`).  Background jobs and their output, uploads and
  quota, search and paged reading, paths, the external MCP server, the RPC.
* **BFF** (`api-server/src`).  Time limits in a chain, retries, error mapping.
* **Connections** (`contract/src/endpoint-failover.ts`).  Several endpoints, a budget,
  late successes.
* **Migrations** (`infrastructure/mysql/migrations`).  DDL does not roll back.
* **Sub-agents** (`app/subagent-spawn-service.ts`, `infrastructure/redis/run-queue-topology.ts`,
  `bootstrap/worker-drain-gate.ts`).  Runs that spawn Runs and wait for them in the
  foreground, with a queue and reserved slots per depth.  Two tool calls spawn at
  once, the parent is cancelled meanwhile, a deployment lowers the limit.  Limits
  hold, nobody waits for a slot its own ancestor holds, no child is left behind.
* **Steering** (`app/steer-run-service.ts`, `durable-steer-controller.ts`).  Instructions
  for a Run that is running, read page by page from its journal.  In order, and
  each one that is recorded was given.
* **Worker process** (`bootstrap/worker-main.ts`, `worker-drain.ts`,
  `worker-dependency-guard.ts`).  A start in many steps that may fail at each, a guard
  that pauses and resumes the consumers, a shutdown against a deadline.  The pool
  outlives the Runs that use it, and a clean exit is clean.
* **Not modelled**: process isolation (bubblewrap), React rendering, type and schema
  definitions, deployment files, vendored code.

## 2. Modules

### The core, a chain of refinements

| Module | Models |
|---|---|
| `RunPromise` | abstract specification: what the owner of a Run is promised |
| `RunLedger` | the vocabularies and the transition table (`agent/src/domain`), the durable rows of one Run and every MySQL transaction that writes them, as `Tx...` operators; its `Next` lets any client commit any of them in any order |
| `RunLifecycle` | the processes: workers with executor and timers, scanners, API, Redis, faults; every change of a durable row is a `Tx` operator of `RunLedger` |
| `RunProofs` | the proofs about the three, and about `Outbox` below |

`RunLifecycle` implements `RunLedger` implements `RunPromise`.  The split
follows the code's own architecture: MySQL is the authority, so what holds
of *any* sequence of its transactions holds whatever the workers do.

| Module | Models |
|---|---|
| `EventStream` | abstract specification of publication: events are committed in order, and the stream only ever gets committed ones |
| `Outbox` | outbox rows, claims, publishers, stale reclaims, retries; implements `EventStream` |
| `RunEventSse`, `A2aStream` | two readers of the same stream and journal (both extend `EventStream`) |

### The services

| Module | Models |
|---|---|
| `SessionTurns` | creation of Runs with idempotency keys, enqueue, projection, the turn gate and the session lock it looks at |
| `SessionStore` | journal, snapshots and the engine's own events of a session, written by executors that overlap |
| `ToolTurn` | the tool calls of a turn: policy hook, guard, claim of an approved call, park, recorder, decisions |
| `ToolRisk` | the risk policy of platform, tenant and version; preview, save and bind |
| `Review` | the review task of a Run, its artifacts, jobs, publishers and the note for the next Run |
| `A2aTasks` | A2A messages, task mappings, cancel, audit, credentials |
| `Accounts`, `Members`, `BrowserLogin` | SSO and local sign-in, sessions; roles and profile; the identity a tab shows |
| `AgentCatalog`, `AgentEditor` | agents, versions, activation, credentials; the page that edits them |
| `OrgSkills`, `UserSkills`, `RunSkills` | skills an organisation shares, a member's own skill, the skills a Run carries |
| `Cron`, `CronTime` | jobs, claims, executions, recovery; the next slot and its preview over local time |
| `ChatStore` | the entity store of the browser for one Run, with both streams and every await |
| `ExecJobs`, `JobOutput` | background jobs of the exec service, and their output from process to model |
| `Uploads` | datasets, quota ledger, quota watch, artifact snapshots |
| `McpContexts` | the external MCP server: contexts, workspaces, collector, links |
| `FileSearch`, `TextPages`, `FilePaths` | search over a changing tree, paged reading, path resolution |
| `ExecRpc`, `Gateway` | one signed call to the exec service; a request through BFF, agent and exec with their time limits |
| `Connections` | failover acquire over endpoints, pools, credential fetch, the Redis error guard and quit |
| `MigrationSteps`, `Migrations` | the 42 migrations statement by statement; what runs, cleans up and gates them |
| `Subagents` | spawning under the parent's row lock, the queue per depth, parked and crashed parents, the cancel cascade, the gate of a smaller deployment |
| `Steering` | steer requests, the controller of each attempt, recording, attempts that end under it |
| `WorkerProcess` | start, failing start, consumers, dependency guard, drain, teardown, deadlines |
| `Notices` | notices about Runs: claims, dispatchers, recipients, deliveries, retries and the mail that goes out |
| `TraceSpans` | the spans of a Run: projected with its events, materialized by GETs that overlap, the watermark, the outcomes of the ledgers |
| `AgentProofs` | the proofs about `AgentCatalog` and `A2aTasks` |
| `ServiceProofs` | the proofs about `Cron`, `ToolRisk` and `ExecRpc` |

`Members`, `Notices`, `SessionTurns`, `Subagents` and `ToolTurn` also hold their proofs
(section 4).

`MCParts` and `MCProgress` instantiate these modules for TLC (section 3).

### Correspondence with the code: the core

*State.*  `status`, `intent`, `notices` are columns of the Run and its
outbox rows; `tool`, `approval`, `interaction` hold the status of the row of each
tool call (`NoRow` if there is none; an interaction's RESOLVED status is split by
its resume phase READY, CLAIMED, APPLIED); `lastRun`, `sessionActive`, `fence` belong
to the session.  In `RunLifecycle`, `lease` and `lock` hold the owner
token, `jobs` the waiting BullMQ jobs (0 for jobId = runId, c for the resume job of
call c), `wk` one record per worker (step, job, the Run row as last read
in `view`/`seen`, abort reason, outcome, the answer it continues, the calls it
has in flight), `sc` one record per scanner.

*Steps.*  A worker or scanner step is what the code does between two awaits on
shared state: one transaction or one Redis command.  What the code read
before is kept in the record and may be stale; `Cas` is the compare-and-set with
its `t.run ?? t.current`.  Steps that only compute are folded into their
neighbours, and an attempt forgets (`Forget`) what the rest of its code does
not read, which keeps the state space small without changing behaviour.

*Tool calls* are numbered in the order the model makes them, so "latest row" in the
code is the largest number.  Prompts, tool arguments, results and events carry no
data: only which call asks, starts, ends and how.

*Faults*, each within `MaxFaults`: a worker or scanner dies (its Redis
tokens stay as `Dead` until their TTL; BullMQ gives the stalled job back or drops
it), the lease or the session lock of a live worker expires, Redis loses its data,
MySQL fails outside the executor.  A BullMQ retry of a resume job counts against the
same bound.  A lost wake-up needs no fault: `WakeWorker` simply may never happen.

*Starting states*: the Run has been created, ACCEPTED or QUEUED; an ACCEPTED Run
may have no job (the creator died before the enqueue).

### Correspondence with the code: the services

The services follow one convention.  A transaction is one step when it locks what
it decides about, and a read step followed by a write step when it decides on a
plain read of its snapshot; a request that consists of several transactions,
calls or passes over the disk has a program counter, so that two requests
interleave and a crash falls between.  A request, a process or a file is named by
who made it; texts, digests and payloads are small values.  Answers may be lost where
the code has a time limit.  Each fault has a bound of its own among the
constants.  The header of each module says what is told apart and what is not.

## 3. Properties and runs

Deadlock checking is off in every run: a Run that has ended, or waits for its user,
may stop, and so may every service.

| Run | Instance | Checks | Result |
|---|---|---|---|
| `ledger` | 2 calls, 2 executors, unbounded otherwise | `LedgerTypeOK`, `AskIsAnswerable`, `OneQuestion`, `OneTerminalNotice`, `ApprovalGatesTool`, `SuccessIsCheckpointed`, `KeepsPromise` | pass |
| `lifecycle_faults` | 2 workers, 1 scanner, 1 call, input gate, one fault of any kind | `LifecycleTypeOK`, `ImplementsLedger` | pass |
| `lifecycle_crash` | 2 workers, 1 scanner, 2 calls, no gates, one crash | `ReplayOnlyOrphans`, `NoRepromptAfterCheckpoint`, `ReplayOverSettledTools` | pass |
| `lifecycle_expiry` | 2 workers, 1 call, both gates, lease or lock expires once | `OneRuntime` | pass |
| `liveness_parked` | 1 worker, 1 call, both gates, one crash, fairness | `CancelTerminates`, `NeverHangs` | pass |
| `liveness_pool` | 2 workers, 1 call, one crash or lease expiry, fairness | `QueuedIsServed` | pass |
| `parts` | every service, each on one to four small instances | `PartsTypeOK` and 16 safety properties, one per concern | pass |
| `progress` | `Outbox` with 2 publishers and 2 events; `A2aTasks` with 1 message sent twice, 1 administrator of its keys and a gateway that dies; the services with something to finish, under their fairness | `PublishedWasSent`, `SentOncePerClaim`, `ImplementsStream`; `A2aAccounted`; `EventsArrive`, `WorkSettles`, `CallsEnd` | pass |
| `replay_under_lease` | 2 workers, 2 scanners, one crash | `ReplayOnlyOrphans` | violated |
| `reentry_over_tools` | 1 worker, 2 calls, input gate, one crash | `ReentryOverSettledTools` | violated |
| `recovered_success` | 1 worker, 2 calls, both gates, one crash | `RecoveredSuccessIsFinal` | violated |
| `cancel_dispatched` | 1 worker, 2 calls, approval gate, no fault | `DispatchedIsNeverCancelled` | violated |

### The core

* `AskIsAnswerable`, `OneQuestion`: a PENDING approval or interaction finds its Run
  and its tool row in the state `decide` and `respond` demand, and there is one
  question at a time.
* `OneTerminalNotice`: one `run.terminal_notification` row exactly when the Run
  has ended, on every way into a terminal status.
* `ApprovalGatesTool`: an undecided, rejected or cancelled approval keeps its call
  from ever being dispatched, over all attempts of the Run.
* `SuccessIsCheckpointed`: recovery treats `last_run_id` and APPLIED as proof of
  each other; they are.
* `KeepsPromise`: the refinement of `RunPromise`.  `ImplementsLedger`: the
  refinement of `RunLedger` by the processes.
* `OneRuntime`: the lease and the session lock each keep a second runtime out when
  the other is lost.
* `ReplayOnlyOrphans`, `NoRepromptAfterCheckpoint`, `ReplayOverSettledTools`: a
  crash at any point takes no Run from a live worker and repeats neither a
  completed prompt nor a call that may have run.
* `CancelTerminates`, `QueuedIsServed`, `NeverHangs`: what must eventually happen.
  `NeverHangs` names the places where the code itself gives up and asks for an
  operator (`needsReconciliation`), and shows there are no others.

Two workers suffice for every race on a Run, since the lease, the lock, the fence
and the compare-and-set each distinguish "me" from "another".  One scanner is
enough where scans do not race each other; `replay_under_lease` shows what the
second one adds.  Two calls are needed where one call asks while another is in
flight (crash, re-entry, cancel runs) and in the ledger; one call already goes
through propose, ask, decide, replay, end.  One fault at any point followed by any
recovery covers crash consistency; the ledger run needs no fault bound at all,
because it allows any client to do anything at any time.  The safety
properties of `ledger`, `lifecycle_faults` and `lifecycle_expiry` are also proved for every
instance (section 4), so that bounds matter only for liveness and for what recovery
by one scanner guarantees (`lifecycle_crash`).  Worker symmetry is used in the safety
runs only.

### The services: `MCParts` and `MCProgress`

Each service is a closed specification of its own.  `MCParts` checks them all in
one run: the variable `part` names the instance that runs in a behaviour, the
slots `s1`, `s2`, ... are its variables, and the next-state relation is the
disjunction of `part = ... /\ X!Next`.  A behaviour of the module is therefore a behaviour of
one component, the state space is the sum of theirs, and a property of a component
holds in the module exactly when it holds in the component's instances.  The
properties are grouped by concern; a group is the conjunction of properties that
are defined, with a comment, in the component modules:

| Property | States | Conjuncts |
|---|---|---|
| `EventsDelivered` | A reader of the events of a run, the browser through SSE or an A2A client, gets them in order, each once and none left out, and is told the end only after the last of them (an A2A client that resumes behind the last status of a run that is over may be told with an earlier message), whatever Redis repeats, reorders or loses and wherever the reader reconnects; and a mail about it goes once to everyone it is for, unless a claim is taken back or a send times out. Its trace skips no event, keeps the outcomes that have no ledger, and shows the others as their rows have them | `WireHasNoGap`, `EndIsComplete`, `EndNeverStrands`, `FinalIsLast`, `EndsComplete`, `OneMail`, `NobodyForgotten`, `WatermarkHonest`, `OutcomesStay`, `ReadRepairs` |
| `SessionsKeepOrder` | A request makes one run however often it is sent, runs leave the queue of their session in the order they came, and the history of the session survives executors that overlap, stale checkpoints and a damaged snapshot: recovery finds all of it and the snapshots form one chain. A run that spawns runs keeps to its limits, has none born under it once it is to be cancelled, and every run is one the workers serve | `OneRunPerRequest`, `LeavesQueueInOrder`, `RecoversHistory`, `OneChain`, `LimitsHeld`, `ServedDepths`, `NoChildOfCancelled` |
| `JobsAccounted` | A background job leaves no process, no data-source session and no row behind on any way it can fail, and its reader gets its output in whole characters, with every loss at a limit or in a crash visible, but for a save torn between its two renames while the ring was full; and an execution of a cron job, scheduled or asked for by hand, makes a second run only after the idempotency record of the first has expired, while forbid holds for what the table shows | `NoStrayProcess`, `NoSessionLeak`, `ActiveRowsAreLive`, `WholeChars`, `AllOrFlagged`, `NoSilentGap`, `TornIsCorrupt`, `RunsLifeApart`, `ForbidHolds` |
| `HumanDecisionsHold` | What a person is asked binds the run: a call that needs an approval runs after it, the calls that run under one approval were on beside each other in one executor (two identical calls at once share a claim, a later one cannot), a parked run has settled its calls and waits for one thing, what a reviewer releases is what the reviewer saw, told to a run once, and instructions sent to a run reach the agent in their order, none given again once its delivery is recorded. The version of an agent cannot lower the level of a call nor the price the platform puts on that level | `RiskTightens`, `ApprovedOnce`, `ParkedIsSettled`, `HumanGate`, `OneWait`, `ReleasedAsSeen`, `ToldOnce`, `GivenInOrder`, `DeliveredWasGiven` |
| `IdentityKept` | One person has one account and a refused login really is a conflict; a logout ends its session; the audit trail tells the roles, an administrator always remains, and the run-complete switch gets on without an address only by a change of the profile that another one overtook. A credential of an agent is replaced once, however many administrators turn it over | `RotatedOnce`, `OneAccountEach`, `ConflictIsReal`, `LogoutEnds`, `EventsTell`, `AdminRemains`, `NotifyHasEmail` |
| `BrowserShowsItsLogin` | The browser shows the person whose cookie it holds and that person's data only, whatever order the answers of logins, logouts and session checks arrive in, unless a refused check made the page drop the answer of a login or logout, and a logout is not silently undone | `ShownIsCookie`, `DataIsOfShown`, `SilentLogoutEnds` |
| `MigrationsSafe` | A migration that fails half way is cleaned up against its foreign keys and can be run again, a crash drops no table that was in use, and all 42 can be rolled back and applied in order | `NothingRefused`, `LeftoversHarmless`, `KeepsTables` |
| `SkillsKept` | A skill an organisation shares has the consent of its author, and its bytes unless another administrator's collection raced its publication; an approval is published unless its publisher died or could not undo it, a loss to a collector that lives is reported, an enabled version is the published one with its digest, a draft survives its replacement but for a crash between the two renames, and a run mounts what its policy showed | `ConsentStands`, `ApprovedIsPublished`, `LossIsReported`, `BindableHasBytes`, `EnabledIsPublished`, `PublishedIsItsDigest`, `DraftSurvives`, `NothingDropped`, `SeenIsMounted` |
| `ChatIsTheRun` | The chat shows every event of its run exactly once however many deliveries overlap, but for the events whose numbers the client took for its own, its cursor goes back only where a store held over an await is written back, nothing of an account is written after its reset, and a restore does not take the focus from what the user opened | `ExactlyOnce`, `CursorNeverBack`, `NothingAfterReset`, `FocusKept` |
| `WorkspacesKept` | Uploads stay within the quota, make one dataset per key and are ready only when whole; the workspace of an MCP context keeps what was written, is not collected while its mark is young nor left without one that a collector finds, unless it was marked between the look of a collector and the end of its removal, and its links work | `QuotaHeld`, `OneDatasetPerKey`, `ReadyIsWhole`, `WritesKept`, `Reclaimable`, `ActiveKept`, `LinkWorks` |
| `ShownTruly` | What a user or the model is shown is so. A search reports or accounts for every entry of a tree that changes under it, outside directories it cannot read, pages of a file come in order and complete but for lines longer than a page, and a path leads where it was resolved (a search of one that begins with a tilde, a drive or a blank may be refused), to writable places and enabled packages only. An answer of the BFF says what happened: a refused request changed nothing unless a skill route called an unknown error a refusal, a successful one was done, once under a key, and for someone entitled to it. An A2A client is answered about what is mapped and audited, also when it repeats its message. The slots the page previews are the ones the scheduler finds but for a local day without midnight, and the page that edits an agent neither mixes up nor drops what was typed, unless the user acts for another agent before its text is there | `Accounted`, `PagesInOrder`, `CompleteAtEnd`, `SearchesWhereResolved`, `PackagesGated`, `SkillsReadOnly`, `RefusedUntouched`, `SuccessIsDone`, `DoneOnce`, `UnentitledChangesNothing`, `OnlyOnOwn`, `PreviewAgrees`, `FormsRoundTrip`, `DraftsApart`, `EditsKept`, `A2aAccounted` |
| `ConnectionsKept` | No connection is left behind by an acquire whose budget ran out or used before its session is set to UTC, an endpoint that was reachable is taken for an outage only when its pool was full, all failed means all were tried, every Redis error is counted and the client is quit once. A worker that shuts down fetches no more jobs, keeps its pool while a run uses it unless the consumer of the run was never closed (a failing start, a failed close), and exits clean only when all it started has ended | `NoStrayConnection`, `SessionsInUtc`, `BlockedWasBad`, `AllMeansAll`, `GuardCounts`, `QuitOnce`, `PoolOutlivesRuns`, `NoIntakeAfterClose`, `CleanIsClean` |
| `A2aAccounted` | A message of an A2A client that was answered is audited and its run is found under its task, an active run without a task is one a request is at work on or left behind, by dying between the two or by a failed look-up or cancellation, and one credential has one live successor, under repeated messages, failing statements, a gateway that dies and administrators that race | `AnswerIsAudited`, `NoOrphanRun`, `OneKeyLive` |
| `CatalogHonoured` | Versions of an agent are numbered without gaps, a publication that names the version its author saw replaces that one unless the agent was switched to an older version between its read and its write, and a credential is rotated once | `VersionsNumbered`, `ExpectedHonoured`, `RotatedOnce` |
| `RiskTightens` | A version never lowers the level of a tool call nor undercuts the price the platform puts on that level (a call gets cheaper only where the platform itself prices the raised level lower), what a version decides by name stands, and the risk written to the record is the one that was applied | `TenantOnlyTightens`, `RecordedRisk`, `DecisionsHold` |
| `CronAccounted` | Every slot of a job is claimed or recorded as skipped, two runs of one execution are an idempotency record's life apart, and schedulers claim nothing of a forbidden job beside a run the table shows | `SlotsAccounted`, `RunsLifeApart`, `ForbidHolds` |
| `CallsAnsweredTruly` | What the client of a call to the execution service is told is what happened there: a call said to have failed for certain touched nothing, a successful one was done, and exec starts only what was signed in time, as it was signed | `FailedIsUntouched`, `OkIsDone`, `StartsAsSigned` |

`MCProgress` does the same for liveness: `EventsArrive` (`OutboxDrains`,
`EventReachesClient`, `FinalArrives`, `ReviewShown`), `WorkSettles`
(`QueuedGetsTurn`, `KilledSettles`, `HandleSettles`, `DecisionLands`,
`MigratesEventually`, `ClaimsSettle`, `DueIsClaimed`, ...) and `CallsEnd` (`Ends`,
`ReaderEnds`, `Answered`, `CallReturns`, `Reconnects`).

Some components have theorems that state one of these properties (section 4).  The
two modules extend them instead of naming an instance of them: `MCParts` extends
`Cron`, `AgentCatalog`, `ToolRisk` and `ExecRpc`, `MCProgress` extends `Outbox` and
`A2aTasks`.  Their constants are in the two `.cfg` files, their variables keep
their names, and they stay at one initial state while another part runs.  The
definition TLC checks is then the very one the theorem is about.  The other
instances of `Cron`, `AgentCatalog` and `ToolRisk`, one per question, use the slots
like the rest, and their properties are conjuncts of the groups.

The instances, with a comment on each, are at the head of the two modules.  They
have two actors where two race (two schedulers, two administrators, two
executors, two publishers, two uploads over a quota with room for one), one actor and
two faults where a failure half way is the question, and sizes one beyond a
limit (three events for pages of one, a ring of three bytes for characters of two,
lines as long as a page and longer).  A component has several instances
when one that has every feature at once would be too large.  A property that the
code breaks in some case is checked with that case in its instances and names it, so
that it fails as soon as the code breaks it in another; section 5 says what happens
in the case.  Some of these exceptions need to know what led to a state: `hurried`,
`overtaken`, `caught`, `crowded`, `stranded`, `raced` and a few more variables are history that
only the properties read.

### Fairness

`RunLifecycle!FairSpec` assumes weak fairness of each worker's steps and timers, of each
scanner and of the expiry of a dead owner's TTL.  The code justifies it: BullMQ
delivers a waiting job to an idle consumer, an attempt's awaits return
(the Run deadline aborts a prompt that does not), renewal and the cancel watcher
are interval timers, the scan loop repeats for ever, and Redis expires keys.
Nothing is assumed of users, of the wake-up after a decision, or of faults.

In `MCProgress` the fair actions of a component are those its own specification
names: the loops and timers of the process (publisher, scheduler, collector,
catch-up poll, reconnect with its backoff, quota watch) and the continuation of a
request that has begun.  New requests, faults and decisions of people are never
fair.  Since a behaviour belongs to one component, one fairness condition over the
disjunction is not enough for a component with several fair actions: these
are separate conjuncts, numbered by position.

### Findings with a run of their own

1. **A stale lease probe** (`replay_under_lease`).  `#reconcileOrphanRuntime` probes
   the lease before its transaction, not inside it.  With two worker processes,
   hence two scanners, one probe can be old when it commits: meanwhile the other
   scanner has replayed the Run and a worker is running it.  The Run goes
   to RETRYING under that worker.  The method is documented for "STARTING/RUNNING
   with no live lease".  The compare-and-set on the status does not help, since the
   status is RUNNING again.
2. **Re-entry over unresolved tools** (`reentry_over_tools`).  A CLAIMED answer is
   continued after a crash without the tool ledger check that every other
   replay passes; only the `ask_user` row is looked at.
3. **Success inferred too early** (`recovered_success`).  An interaction stays
   APPLIED when its attempt goes on to park for an approval.  If the worker that
   resumes from that approval dies, recovery declares the Run SUCCEEDED though the
   approved call never ran.
4. **A dispatched call recorded as CANCELLED** (`cancel_dispatched`).  Cancelling a
   Run that has just parked for approval closes RUNNING rows as CANCELLED, while the two
   other places that close in-flight calls record UNKNOWN.

## 4. Proofs

All theorems are about the specifications as they stand, for every value of the
constants that their named assumptions allow.  TLC evaluates the assumptions in
the runs.

### The ledger: `RunProofs`, first part

For every finite set of tool calls and every set of executors
(`LedgerAssumption`: calls are non-zero naturals, `None` is nobody):

* `LedgerInvariant`: `Spec => []LedgerInv`, and from it one theorem for each
  invariant of the run `ledger` (`LedgerTypeCorrect`, `OpenQuestionsAreAnswerable`,
  `OneQuestionAtATime`, `NotifiedExactlyOnce`, `ApprovalIsAGate`,
  `SuccessRestsOnCheckpoint`);
* `LedgerKeepsPromise`: `Spec => KeepsPromise`, the refinement of `RunPromise`.

The invariants are not inductive one by one; their conjunction `LedgerInv` is.  A
transition may leave a parked status only because no question is open there
(`AskIsAnswerable`); the parked cancel of an interaction closes one row, and
`OneQuestion` says it is the only one; a gated tool row cannot be
started because `AskIsAnswerable` pins it to WAITING_APPROVAL while it is PENDING;
the notice is written once because a terminal status has no way out
(`TransitionTable`) and `OneTerminalNotice` holds before.

`EnterStatusEffect` and `EnterStatusPreserves` treat the common part
of all status changes (`applyRunTransitionInTxn`) once; each remaining transaction
has a lemma `...Preserves` with one step per conjunct; `StepInv` puts them together.
For the refinement, `QuietStep`, `FinishStep`, `...Asks` and `...Answers` say which
step of the promise each transaction is, and `PromiseStep` collects them.

### The processes: second part

For any number of workers, scanners, calls and faults (`LifecycleAssumption` adds
that `Dead` and `None` are no workers and that the fault bound is a natural number):
`LifecycleTypeCorrect`, `LifecycleImplementsLedger`
(`LifecycleSpec => ImplementsLedger`) and, by transitivity, `LifecycleKeepsPromise`.

The invariant is `LifecycleInv`: the types, `LedgerInv`, and `Vouched`, which says
that an attempt that holds the outcome SUCCEEDED, or is about to declare a recovered
success, has seen `lastRun`.  It is needed because the guard of the ledger's
transition to SUCCEEDED is not evaluated where the code writes SUCCEEDED, but several
awaits earlier, in the executor's checkpoint or in `#resumeClaimedInput`; `Vouched` holds
across the awaits because no transaction takes `last_run_id` back
(`LastRunStays`).  The lemmas `...IsLedger` show which transaction each action
commits, the lemmas `...OK` that the process state stays well formed.

### Recovery: third part

* `OneRuntimePerSession`: `OneRuntime` always holds if Redis is not flushed and
  lease and lock cannot both be lost early (one of the two faults is absent, or
  at most one fault happens).  The invariant `TokensHeld` says that as long as no
  expiry has happened both tokens are where their holders think (`LeaseHeld`,
  `LockHeld`), and afterwards one of them still is.  With both lost two runtimes do
  overlap until the fence stops the writes of the older one, so the hypothesis is the
  redundancy the code has, no more.
The proof first summarises every step by what it may do to the tokens, and then
preserves the invariant over the summary.

Nothing is proved about replays.  `ReplayOnlyOrphans`, `NoRepromptAfterCheckpoint` and
`ReplayOverSettledTools` are false of the code as it is deployed, with a scanner in
every worker process: `replay_under_lease` and `reentry_over_tools` show it.  They hold
while one scanner runs and no lease is lost under a live worker, which is what
`lifecycle_crash` checks; a theorem that assumed as much would say less than the two
counterexamples.

### Publication: last part

For any numbers of events, publishers, batch size, attempts, claims and crashes
(`StreamAssumption`, `OutboxAssumption`): `PublishedRowsWereSent`,
`AppendsOncePerClaim`, and `OutboxImplementsStream`, the refinement of
`EventStream`.  The invariant `OutboxInv` says which rows exist, that a row
which is being published, or was, has been claimed, that a publisher that has
appended still remembers a claim, and how many entries of the stream each claim
accounts for: a claim that went stale may still be settled by its old
publisher, and only the claim token tells the two apart.

### Services: the second half of their modules

Each theorem is about the specification of one module, whose parts TLC also
checks in the run `parts` (as conjuncts of the groups of section 3) on the
instances named there.  Every inductive invariant was checked by TLC on such an
instance before it was proved.  The proofs have the same shape: a few lemmas that
say what a step leaves alone (the frame), one lemma per action or family of
actions, and one that collects them.

* `SessionTurns`: `TurnsInOrder` (`OneRunPerRequest`, `LeavesQueueInOrder`), from
  `TurnsAssumption` (the bounds are natural numbers).  The invariant `TurnsInv` says
  that Runs are numbered without gaps (`Numbered`, where the cardinality of the
  created Runs is the number of the last one), that every job, handler and
  worker is about a Run that exists (`WorkIsForRuns`), that a record which has not
  expired names the only Run of its key (`RecordsTell`), and `GateStands`: what the gate
  saw before the Run's row is moved is still so.  It stays so because a Run comes
  into the queue behind all others, except by recovery, which is the exception
  that the property states.
* `ToolTurn`: `HumanStaysInCharge` (`HumanGate`, `ParkedIsSettled`, `OneWait`), from
  `TurnAssumption`.  `TurnInv` says that whoever uses the row of another call found it
  approved with the same arguments (`LedOK`), that the in-flight table of an executor
  holds its own calls (`FlightOK`), that a pending question is what the Run waits for
  (`WaitOK`), and that a call that parks the Run has still to close exactly the rows
  that run (`ParkOK`): the park is a commit, a listing and one write per row, and
  meanwhile other calls come back.  `ApprovalUsedOnce` (`ApprovedOnce`), from the same
  assumption, is about every pattern of repeated calls.  Two identical calls at once
  share one claim in flight and both bodies run (section 5), so the property says what
  the claim does guarantee: the bodies that run under one approval are calls of one
  executor that were on beside each other.  Its invariant `ClaimInv` says that calls
  alike that are on at once have met (`AlikeMet`, `UsersMet`, over the history variable
  `beside`), and that an approved row that was claimed no longer waits and was claimed
  by one executor (`ClaimOnce`).
* `Subagents`: `SubagentLimits` (`LimitsHeld`, `ServedDepths`, `NoChildOfCancelled`), from
  `SubagentAssumption`.  `FamilyOK` says that children are one deeper than a parent that
  was started, `ChecksStand` that a spawn past its checks can still rely on them: the
  lock on the row of its parent keeps cancellation, other spawns and the gate of
  a smaller deployment out.  Adding one child to a family below its limit is the
  only step that needs cardinalities.
* `Members`: `AdministratorRemains` (`EventsTell`, `AdminRemains`), from
  `MembersAssumption`.  `CountStands` says that while a change holds the lock, at least as
  many administrators remain as it counted: others only add.  `MailHasAddress`
  (`NotifyHasEmail`) is about any number of profile changes in flight: what a change
  checked still stands when it writes unless another one wrote meanwhile
  (`ChecksStand`), which is the exception the property names.
* `Notices`: `NoticesInvariant` (`OneMail`, `NobodyForgotten`), from `NoticesAssumption`.
  `NoticesInv` says which claims were issued and that no two passes hold the same one
  (`TokensIssued`, `TokensApart`), that a row in hand is the one claimed (`ClaimStands`), that
  a person answered for is on record (`OnRecord`), that a pass about to send knows that
  nobody else has sent under another claim that was not lost (`SendsAlone`), and that
  those a pass is done with have an outcome (`DoneIsSettled`).

### Services with proofs in modules of their own: `AgentProofs`, `ServiceProofs`

Each of these theorems states a property of the run `parts` or `progress` under
the name it has there.  None assumes more than the assumption on the constants: where the
code fails, the property names the case as its exception, and section 5 describes it.

* `AgentCatalog`, from `CatalogAssumption`.  `CatalogKept` (types, `VersionsNumbered`,
  `RotatedOnce`) holds for all operations at once.  `CatalogInv` adds that an
  agent shows a version of its own as soon as it exists (`Shown`), that what a request
  read is still there (`RequestsGrounded`), and that a credential replaces an older one
  that is no longer active, no two the same (`RotationsApart`); the unique number is what
  serializes two publications, and the conditional UPDATE two rotations.
  `PublicationsSeeWhatTheyReplace` (`ExpectedHonoured`) and with it
  `CatalogIsHonoured` follow a publication that compared on a snapshot
  (`FoundOrOvertaken`): if another version was published meanwhile, its last number is
  old and it loses its insert; a switch to an older version takes no number, and the
  variable `overtaken` names those it happened to, the exception of the property.
* `A2aTasks`, from `A2aAssumption`, about a gateway that may die at any step and any
  number of failing statements.  `AnswersAreAudited` (`AnswerIsAudited`, `OneKeyLive`):
  `A2aInv` says what a request at each place of the program may rely on (`Vouched`)
  and that two active credentials are one (`OneActiveKey`).  `NoRunIsLost`
  (`NoOrphanRun`), and with it `MessagesAreAccounted`: the invariant `NotLost`
  follows every unmapped Run to the request that has it in hand or left it behind.
* `Cron`, from `CronAssumption`.  `EverySlotIsAccounted` (`SlotsAccounted`) holds for all
  faults, edits and manual runs: the slot after a claim is computed from the slot
  and not from the clock, in the transaction that inserts the execution.
  `RunsAreALifeApart` (`RunsLifeApart`): every Run has an idempotency record as old as
  itself (`RunsHaveRecords`), and a second Run of an execution is made only where
  no valid record answers.  `CronIsAccounted` adds `ForbidHolds`, for all faults and
  manual requests: `RunsInSight` says that the execution of a live Run is open and
  names it, unless it was marked failed or has another Run (`LostSight`), which is the
  exception of the property; a claim of a forbidden job is inserted only when the
  table shows no open execution of the job (`RowsClaimed`).
* `ToolRisk`, from `RiskAssumption`.  `VersionsOnlyTighten` (`RiskTightens`) is about every
  pair of a platform policy and a policy of a version, of any number of entries and with
  any table of prices.  The theorem rests on lemmas about the operators: the strictest of several
  decisions, the level that speaks for a tool, the policies a deployment and a saved
  version can hold.
* `ExecRpc`, from `ConstantsOK`.  `ClientsTellTheTruth` (`CallsAnsweredTruly`) is about any
  number of calls, token life, skew, key changes and restarts.  The invariant
  `RpcInv` says of each call separately (`SoundCall`) what its phase excludes:
  only an `ensure` makes a second attempt, what has begun is off the wire
  (`AttemptsOK`), and an answer is about the attempt it answers, which began and is over or
  did not begin (`AnswersOK`).

### Only model-checked

* Liveness (`CancelTerminates`, `NeverHangs`, `QueuedIsServed`, `EventsArrive`,
  `WorkSettles`, `CallsEnd`): fairness and ENABLED are out of the prover's reach.
* What recovery by one scanner guarantees (the three properties of
  `lifecycle_crash`), as said above.
* `PartsTypeOK` and the groups of the run `parts` that collect properties of several
  components: they range over instances with particular constants.  Their conjuncts about `SessionTurns`, `ToolTurn`,
  `Subagents`, `Members` and `Notices` are proved above, and so are the groups
  `A2aAccounted`, `CatalogHonoured`, `RiskTightens`, `CronAccounted` and
  `CallsAnsweredTruly`, whose theorems are about the components of that name.
* What a recursive definition computes (`CronTime`, `FileSearch`, `TextPages`,
  `MigrationSteps`): induction over data is out of reach of the installed provers.

## 5. Other disagreements met while modelling

TLC found each of the following on an instance of the module named.  The
property in parentheses, where there is one, is a conjunct of a group of section
3 that is checked with the case in its instances and names it as its exception,
in its comment and in its formula.  Where there is none, no property of the
project claims what the quoted line says.  The source line is where it bites.

**SessionTurns**

* `agent/src/application/session-turn-gate.ts:38`: The gate sees a Run in front only
  while it is queued or while its session lock is held. A Run that has gone STARTING and
  has not yet taken the lock is neither, so a follow-up asked at that moment is let
  through and may take the lock first: it runs before the earlier Run, which then ends
  FAILED with "session lock busy". docs/architecture.md says 同会话顶层 Run 依次执行 ("top-level
  Runs of a session execute one after the other", src/docs/architecture.md:180) and the
  gate's comment 保证排队的 follow-up 先来先执行 ("guarantees that queued follow-ups are executed
  first come, first served", src/agent/src/application/session-turn-gate.ts:11); the
  comment concedes only that the later Run may fail.

**SessionStore**

* `agent/src/runtime/providers/mysql-session-store.ts:625`: commitRepair reads the
  events, deletes all rows and inserts what it read plus the closers, without FOR UPDATE
  on the session row (appendBatch takes it) and without the execution fence. An executor
  that lost the session lock between the read and the delete removes the turns the new
  holder committed in between, though they are in the journal and in a snapshot.
  docs/adr/0005-pi-session-jsonl-persistence.md:59, whose decisions
  mysql-session-store.ts:3 says it inherits: "Worker 崩溃、进程重启和 fence 竞争后仍能确定性恢复完整 Pi
  Session" (after a Worker crash, a process restart and a fence race the complete
  session can still be recovered deterministically).

**JobOutput**

* `exec/src/shell/job-output-store.ts:156` (`TornIsCorrupt`): save renames the log and
  then the meta; load only compares the length of the log with total - baseOffset. Once
  the ring is full every snapshot has the same length, so a stop between the renames
  leaves a new log under old offsets that load accepts.
  src/exec/src/shell/job-registry.ts:288 says of such a pair "并发会让 log 与 meta 来自
  不同快照（恢复时按损坏处理）" (log and meta from different snapshots are treated as corrupt when
  restored), and job-output-store.ts:23 "对不上即视为损坏".

* `exec/src/shell/job-registry.ts:104` (`AllOrFlagged`): LiveOutputTracker keeps a
  prefix of SANDBOX_MAX_OUTPUT_CHARS and reports lossy, but chunkToText takes only the
  delta and read() computes lossy from the ring, so the lost tail of a background job is
  never marked. docs/design/waves/w2-b.md:18: "连续读不重复返回；丢数据标 `lossy`" (consecutive reads
  return nothing twice; lost data is marked lossy).

* `exec/src/shell/job-cursor.ts:356`: A cursor whose generation is behind restarts at
  droppedThrough even when its offset is still in the window, so bytes already read are
  returned again. src/exec/src/shell/job-cursor.ts:8 states the semantics as
  "连续读不重复返回；丢数据时标记 lossy" (consecutive reads do not return anything twice).

* `exec/src/shell/job-registry.ts:763`: deleteJobOutputsForOwner deletes the files,
  awaiting each, and adds the ids to purgedOutput afterwards; a save in flight or begun
  in between writes them again. The comment at src/exec/src/shell/job-registry.ts:194
  says of purgedOutput "作用是关掉一个竞态" (it closes the race) of exactly that last save.

**ExecJobs**

* `exec/src/shell/job-registry.ts:418`: start() reads the row back after the process is
  spawned, inserted and registered; when that read fails it throws, and the route closes
  the data-source session although the job runs on.
  src/exec/src/http/internal-shell.ts:227 says the session of a background job follows
  the job: "后台作业的数据源跟着作业走：作业结束（完成/被杀/spawn 失败）时关闭， 作业没起成（准入、账本失败）时在下面的 catch 里关闭"
  (closed when the job ends, or in the catch when it did not start).

**ToolTurn**

* `agent/src/application/fenced-tool-governance-recorder.ts:884` (`ApprovedOnce`):
  recordToolStarted shares one in-flight promise per tool call id
  (`tool.execution.started:${toolCallId}`), and consume claims the approved row through
  it. Two calls with the approved arguments issued at once both find the waiting row;
  the second consume joins the promise of the first and is told it succeeded, so both
  bodies run under one approval. src/agent/src/application/approved-replay-claim.ts:6
  says the approval is consumed "且只消费一次" (once only), and
  src/agent/src/application/dsh-run-resume.ts:203 tells the model the call "will now be
  allowed to run once".

**Review**

* `agent/src/application/review-context-injection.ts:54`: buildReviewContextInjection
  lists decided tasks, without asking whether the REVIEW_DECIDED job has been delivered,
  and tells the model that the deliverables are with the user:
  src/agent/src/application/review-context-injection.ts:77 "这些文件已经对用户可见，不需要再提交一次。"
  (these files are already visible to the user). A run that starts before the outbox
  loop, or whose job was refused or gave up, is told so while the artifacts are still
  held and the revised file is not in the workspace.

* `agent/src/infrastructure/review/review-publisher.ts:238`: importRevision is repeated
  with the job and overwrites the file of that name.
  src/agent/src/infrastructure/review/review-publisher.ts:21 says repeated execution
  under at-least-once delivery is safe ("至少一次投递下重复执行是安全的"). A worker that dies between
  the import and markPublished has the import repeated after the next run, which was
  told to go on from that file, has edited it: the edit is lost.

* `agent/src/application/review-service.ts:632`: The revised event is appended after,
  and outside, the transaction that moves the item, so it can be lost. #allVersions,
  which src/agent/src/application/review-service.ts:501 describes as every version
  ("任务里所有版本的 artifact id（原件 + 每个修订目标）"), rebuilds the versions from these events: after
  two uploads that lost theirs, the version in between is missed by the decision and
  stays held for good.

**A2aTasks**

* `agent/src/application/a2a/task-service.ts:267` (`NoOrphanRun`): The run is created
  and mapped in two transactions and only the error path in the same process
  compensates. src/agent/src/application/a2a/task-service.ts:6 promises "mapping failure
  -> durable cancel compensate (fail-closed), never orphan Run without mapping": a
  gateway that dies in between, or whose look-up of the mapping fails there, leaves a
  running run without a mapping until the client repeats the message, and no scanner
  looks for it.

* `agent/src/application/a2a/task-service.ts:308`: The second getByRunId and the
  cancellation are separate statements.
  src/agent/src/application/a2a/task-service.ts:306 says the compensation is there so
  that the "Run is not an orphan without A2A mapping", and that a "Retry with same
  idempotency key reuses same Run": when the insert of one request fails for a moment, a
  retry may write the mapping and be answered after the second look, and the first
  request then cancels the run the client is watching.

**A2aStream**

* `agent/src/application/a2a/event-projector.ts:137` (`FinalIsLast`): A message event
  without an earlier status in this subscription takes the status of the run row.
  src/agent/src/application/a2a/event-projector.ts:52 forbids that for status events,
  because a transition read "while the Run row already reads SUCCEEDED would otherwise
  project a premature `final: true`", and
  src/agent/src/application/a2a/stream-event-schema.ts:12 has the stream "close on
  terminal": a client that resumes after the last status event of a finished run gets
  its first message as the final frame, and further messages and artifacts after it.

**Accounts**

* `agent/src/application/sso-login-service.ts:247`:
  src/agent/src/application/sso-login-service.ts:12 says of the employee id "用作用户名（便于
  admin 搜索），不是绑定键" (used as the user name, not a binding key). #afterRace adopts any SSO
  credential without a link that has this user name, and the user name is the employee
  id: a second company identity with the same employee id is linked to the account that
  was being created, or was left behind, for the first, which is then refused as a
  conflict.

**Members**

* `agent/src/application/browser-auth-service.ts:819` (`NotifyHasEmail`):
  src/agent/src/application/browser-auth-service.ts:816 says 「运行完成」开关开着就必须有地址 (the
  run-complete switch on needs an address). The address is checked against the row read
  at the start of the request and the switches against a later read, and neither is
  checked again by the write: a request that clears the address and one that turns the
  switch on both succeed.

**BrowserLogin**

* `frontend/src/features/chat/useAuthSession.ts:209` (`ShownIsCookie`):
  src/frontend/src/features/chat/useAuthSession.ts:17 says a login that succeeds
  advances the revision and resets the old identity ("登录/注册成功前进代次并让调用方清理旧身份数据"). A `me`
  answered 401 while the login is in flight advances the revision too (clearIdentity),
  so adoptIdentity takes the answer of the login for a stale one and drops it, although
  its cookie is set: the page goes on as before with the cookie of another user.

**AgentCatalog**

* `agent/src/application/agent-catalog-service.ts:746` (`ExpectedHonoured`):
  docs/api.md:581 says that an expected_active_version_id that is not the current
  pointer is answered 409 so that nobody blindly overwrites another activation
  ("与当前指针不一致时返回 409 `ACTIVE_VERSION_CONFLICT`"). The comparison is made on a plain read
  of the snapshot and the UPDATE is unconditional (agent-catalog-repository.ts:303), so
  two requests that name the same version both succeed and the later one overwrites the
  earlier.

* `agent/src/application/agent-catalog-service.ts:764`: The comment at
  src/agent/src/application/agent-catalog-service.ts:371 says the exclusion of review
  delivery and A2A exposure is checked on both sides, since checking only one leaves a
  back door ("只判一边等于留了一条后门"). setActiveVersion does not check it: an older review
  version can be activated after a credential was issued under a version without review.

**AgentEditor**

* `frontend/src/pages/settings/AgentsPage.tsx:301` (`DraftsApart`): The comment at
  src/frontend/src/pages/settings/AgentsPage.tsx:470 describes the cache as one of an
  agent's own draft ("Keep A's draft in its per-agent cache"). selectAgent changes the
  selected agent at once and the text only when the versions have been read; a second
  switch in between stores the text of the first agent as the draft of the second, since
  it differs from the versions that are loaded.

**Migrations**

* `agent/src/infrastructure/mysql/migrate-orphan-gate.ts:20`:
  src/docs/runbooks/mysql-partial-migration-recovery.md:237 says "`migrateLatest` calls
  `assertNoOrphanPartialSchema` before applying — residual orphans fail closed with a
  pointer to this runbook". The gate looks for the tables of the core migration and of
  five later ones; the tables of every other createTable migration (cron jobs, exec
  jobs, DSH sessions, org skills, ...) left by a crash pass it, and the migration then
  stops on the raw MySQL error when it creates the table again.

**ToolRisk**

* `agent/src/application/tool-risk-resolver.ts:135` (`TenantOnlyTightens`):
  src/agent/src/infrastructure/dsh/tool-risk-policy.ts:16 says of a version "It can
  never lower either — an org cannot opt out of a platform approval gate by shipping a
  new agent version." The resolver looks the merged, higher level up in the platform's
  table: where the platform asks approval of low and leaves medium allowed, a version
  that raises a tool from low to medium removes its approval. Nothing refuses such a
  table.

* `agent/src/application/agent-catalog-service.ts:279`: The comment at
  src/agent/src/application/agent-catalog-service.ts:271 says an invalid config fails
  when it is written and may not blow up in a run ("不允许落库后在 Run 期爆炸"). Saving only binds
  the config, and bindAgentVersionConfig does not read riskLevels, classRiskLevels and
  riskApproval: a level that is none is stored, and loadToolRiskPolicy throws in every
  run.

* `agent/src/application/agent-config-validator.ts:729`: src/docs/api.md:550 says the
  preview and saving give the same answer ("预览与保存给同一个答案"). validate copies
  toolRiskLevels of a server without looking at its values; saving binds the config and
  loadMcpConfig refuses it.

* `agent/src/application/extension-diagnostics-service.ts:297`: The comment at
  src/agent/src/application/extension-diagnostics-service.ts:275 says the view reports
  "the risk level and approval outcome the policy engine will actually produce". It
  resolves an MCP tool with the id of its server, and the run with the id splitMcpName
  reads from the public name, in which a dot has become an underscore: the entry of such
  a server shows in the view and is never applied. (It also takes
  delegate_to_remote_agent for a local tool.)

* `agent/src/infrastructure/dsh/tool-risk-policy.ts:538`: The comment at
  src/agent/src/infrastructure/dsh/tool-risk-policy.ts:41 says "unknown tools are denied
  by the engine before risk resolution and must not become configurable".
  buildRunPolicyResolver replaced the engine that did so: a pattern of the platform that
  matches, or a price of critical, decides about an unknown name too.

**OrgSkills**

* `agent/src/skills/org-gc.ts:155` (`BindableHasBytes`): The header of
  src/agent/src/skills/org-gc.ts (line 10) and
  src/docs/design/skill-catalog-and-agent-binding.md:232 require that a bindable version
  has its bytes ("「可绑定」必须蕴含「字节在盘上」"). A publication whose ledger write failed leaves a
  directory with its sidecar; a second upload reuses it as it is, and a collector that
  read the active rows before that upload inserted its row deletes it. The recheck looks
  at the current digest and the references only, so an active version stays without
  bytes and nothing is reported.

* `agent/src/infrastructure/mysql/repositories/skill-share-request-repository.ts:281`:
  src/agent/src/infrastructure/mysql/repositories/skill-share-request-repository.ts:22
  says a user has at most one pending request for a name ("至多一条 pending").
  reopenApproval sets an approved request back to pending without looking for a newer
  one: approve, ask again, publication fails, two pending.

* `agent/src/application/skill-share-service.ts:369` (`ApprovedIsPublished`): The
  comment at src/agent/src/application/skill-share-service.ts:322 says approve never
  leaves an approved request whose version the organisation lacks. The request is
  approved in a transaction of its own before the bytes are copied: a crash in between,
  or an error of reopenApproval (swallowed by .catch(() => false)), leaves exactly that.

* `agent/src/skills/org-gc.ts:160`: The header of src/agent/src/skills/org-gc.ts says a
  lost version must be reported rather than leave a ledger row that points at an empty
  directory ("必须报出来而不是静默留下一个指向空目录的账本行"). A save that validated an active version inserts
  its reference after the version was deprecated, collected and rechecked; setCurrent
  only checks that a row exists. Nothing reports either.

* `agent/src/infrastructure/mysql/repositories/org-skill-repository.ts:345`: The comment
  at src/agent/src/infrastructure/mysql/repositories/org-skill-repository.ts:342 says
  "`revoked` 不可恢复". setStatus reads the row without a lock and updates by key: of two
  changes at once the one to deprecated may be written after the one to revoked.

**UserSkills**

* `agent/src/application/skill-enablement-service.ts:69`:
  src/agent/src/application/skill-enablement-service.ts:37 says disabling keeps the
  bytes because a running run whose list names the version still uses it ("仍在运行、清单里点着它的
  Run 还在用"). The collector keeps the enabled and the previous digest only: a version
  published longer ago than the grace period is deleted by the second transaction after
  a run resolved it, and every later call of that run fails with
  SKILL_PACKAGE_UNAVAILABLE.

* `agent/src/skills/install.ts:240` (`DraftSurvives`):
  src/agent/src/skills/install.ts:221 says "Atomically replace a package, restoring the
  previous version on failure." The replacement is two renames: a process that dies
  between them leaves no draft, and nothing restores the hidden backup.

**RunSkills**

* `agent/src/skills/run-skills.ts:345`: The comment at
  src/contract/src/skill-policy.ts:348 says saving and starting a run share the one
  limit check ("两侧共用这一个判定"). skillPolicyTooLarge is called by the save only, without the
  user layer: a run with more enabled skills than ENABLED_SKILLS_MAX is resolved, and
  the execution service refuses every call of it as ENVELOPE_INVALID.

* `contract/src/skill-policy.ts:300`: src/docs/api.md:543 says effectiveSummary.skills
  is the expanded, effective list, and the comment at
  src/contract/src/skill-policy.ts:298 that names shared by system and organisation are
  refused as historical data. Only an allowlist is compared: with mode all, a bound name
  that a newer release also delivers is saved and listed, and every run excludes it as a
  name conflict.

* `agent/src/application/execute-run-service.ts:429`: The comment at
  src/agent/src/skills/run-skills.ts:347 says what stays visible of the exclusions is
  skillDiagnostics of run.started. That event carries the diagnostics of a resolution of
  its own, before the executor resolves the list the run uses: a version revoked in
  between is excluded and never reported.

* `agent/src/skills/run-skills.ts:328`: The header of src/agent/src/skills/run-skills.ts
  (line 16) and src/docs/design/skill-catalog-and-agent-binding.md:247 name
  policy_denied among the diagnostics of what a run excludes. No code produces it:
  skillPolicy.user deny logs one line and the enabled skills of the user disappear from
  the run without a diagnostic.

**Cron**

* `agent/src/application/cron-job-service.ts:432` (`ForbidHolds`):
  src/docs/design/updrdb-dbpm-deployment.md:273 says a manual run locks the same row and
  then checks the open executions, so concurrent triggers respect forbid ("并发定时/手动触发仍遵循
  forbid"). runManual resolves the owner first, a plain read that fixes the snapshot of
  the REPEATABLE READ transaction: an execution a scheduler inserts while the manual run
  waits for the lock is not seen by hasOpenExecution, and both run.

* `agent/src/application/cron-job-service.ts:462` (`RunsLifeApart`): The comment at
  src/agent/src/application/cron-job-service.ts:361-363 says "its deterministic key
  makes a post-commit crash recoverable without creating a second Agent Run". The
  idempotency record of that key expires: a process that died after creating the run and
  an outage longer than the record lets recoverClaims create a second run.

* `agent/src/application/cron-job-service.ts:379`:
  src/docs/reviews/2026-09-01-full-regression/test-cases.md:394 says "fire_once 只补一次".
  claimDue advances from the slot it claimed: after an outage every missed slot is
  claimed and run, one per tick.

* `agent/src/application/cron-job-service.ts:405` (`DueIsClaimed`):
  src/docs/design/updrdb-dbpm-deployment.md:273 says a conflict of an existing execution
  is rolled back and diagnosed and must not retry in a dead loop ("不能盲目推进或死循环重试").
  Enabling a finished one-time job (the page offers it) sets next_run_at to the executed
  slot; claimDue throws ConflictError on it, rolls back its batch, and does so again at
  every tick, for the other due jobs of the batch too.

**CronTime**

* `frontend/src/pages/schedules/scheduleModel.ts:88` (`PreviewAgrees`): The header of
  src/frontend/src/pages/schedules/scheduleModel.ts:2-3 says "cron preview with the same
  semantics as the Agent". To skip a day the preview adds 24 hours less the local time
  of day: on a day that drops an hour it lands at 01:00 of the next day and misses a
  midnight slot the agent fires at.

**ChatStore**

* `frontend/src/features/chat/entityBridge.ts:402` (`CursorNeverBack`): The comment at
  src/frontend/src/features/chat/entityBridge.ts:384-385 says "A live SSE event may have
  been applied while the authoritative snapshot was in flight. Never let that older
  response move the run backwards." For a run that waits for an approval,
  reconcileRunOnce and rehydrateInProgress await rehydratePendingApprovals with a store
  they hold and then write that store: the events applied meanwhile are erased. Their
  ids stay in seenEventIds, so a replay is classified as duplicate and the later events
  as a gap.

* `frontend/src/shared/sse/manager.ts:229`: src/docs/CHANGELOG.md:1432 says "Run
  进行中刷新不再丢失 assistant 正文" and that events are replayed first and the stream then brings
  the increment. When the run ends between the timeline and the live read of
  rehydrateConversation, the row makes the run succeeded while the cursor is behind; the
  first event of the stream that is applied then finds a terminal status, and
  handleRuntimeEvent disconnects before the rest of the text.

* `frontend/src/features/chat/entityBridge.ts:280` (`ExactlyOnce`): The header of
  src/frontend/src/features/chat/entityBridge.ts:4 says "Reduces runtime events exactly
  once via RunSSEManager". applyLocalRunEvent gives the local event the sequence number
  after the cursor; the durable event with that number is dropped as a duplicate when
  the conversation is opened again, and a delta of the answer is missing.

**Uploads**

* `exec/src/dataset/service.ts:183`: src/docs/webui.md:416 promises "可移除 / 失败重试" for an
  attachment. The page retries under the same idempotency key, and beginUpload returns
  the row of that key whatever its status: once an upload broke off, every retry is
  answered with the failed record, which the response schema of the page refuses. The
  file can only be removed and picked again.

* `exec/src/workspace/quota-ledger.ts:124`: src/exec/src/workspace/quota-store.ts:31
  says sumReserved is the sum of "当前全部**活跃**预留字节". A restart between reserve and commit
  (or a delete that fails, after which release is a no-op because `released` is already
  set) leaves the row in the quota table; nothing removes it, and its bytes count
  against the workspace for ever.

* `exec/src/dataset/service.ts:299`: src/docs/deployment.md:66 says the watch "kills
  children on over-quota or measure failure". Between the rename of a dataset into the
  workspace and the release of its reservation the dataset is counted as file and as
  reservation, and a sample taken there kills a child although files and promises fit
  the quota.

* `exec/src/dataset/service.ts:296`: src/exec/src/dataset/service.ts:9-11 says the file
  is staged and published whole: "模型看到的要么是完整数据集，要么什么都没有". When the control root is
  another mount than the workspaces (src/docker-compose.yml:629-633 mounts them apart)
  rename fails with EXDEV and the file is copied onto its final path: the workspace
  shows half a file while the copy runs, and keeps it if the service stops there.

* `exec/src/http/public/files.ts:228`: src/docs/api.md:1022 says the public upload
  stores `uploads/{attachment_id}/{sanitized_name}`（同名文件不覆盖）and :1050 that a retry under
  one Idempotency-Key makes no second file. The handler writes `uploads/<name>` and
  ignores the key: an upload of the same name replaces the earlier one.

* `exec/src/artifact/service.ts:260`: The comment at
  src/exec/src/artifact/service.ts:256-257 says "产物总量仍然要记账，否则一个会话可以用无限次 submit 把控制面盘写满".
  The reservation is committed, that is released, at once and the snapshot is not under
  the workspace, so no snapshot ever counts against a later one.

**McpContexts**

* `exec/src/mcp/context-store.ts:198`: src/docs/sandbox-mcp.md:47 says the workspace is
  created under a short lock and that later calls with the same context_id reuse it
  ("后续调用复用该工作区"). The lock lives 15 s (src/exec/src/mcp/settings.ts:71) and the ensure
  under it up to 310 s (src/exec/src/mcp/bridge-client.ts:127): a second call takes the
  expired lock, makes a second workspace, and whichever record is written last hides the
  other with what was written there.

* `exec/src/workspace/mcp-workspace-gc.ts:106` (`ActiveKept`):
  src/exec/src/workspace/mcp-workspace-gc.ts:103 says "删除前再读一次 mtime：扫描期间被刷新过的不删". The
  mtime is read once, and the removal of the tree starts after that await: a call that
  still holds the record marks the workspace and writes in between, and its files are
  removed after it was told they are stored.

* `exec/src/workspace/mcp-workspace-gc.ts:107` (`Reclaimable`):
  src/docs/deployment.md:829-831 says idle workspaces are removed and that a failed
  removal keeps its marker for the next round. A call that recreates the workspace and
  touches the marker between removeWorkspace and unlink loses the new marker, and a
  workspace without marker is never looked at again.

* `exec/src/mcp/service.ts:140`: src/docs/sandbox-mcp.md:51 says a mapping expires when
  its context_id was not called for three days ("连续 3 天没有调用，映射过期"). Only a call the
  bridge answers with success refreshes the record; calls that fail (a missing file, a
  quota, a timeout) mark the workspace but let the mapping run out under an active
  caller.

**FileSearch**

* `exec/src/search/service.ts:110` (`Accounted`): src/exec/src/search/service.ts:15-16
  says `skipped` makes what was passed over visible "而不是静默消失". scandirSorted answers a
  directory that cannot be read with an empty list: its contents are neither among the
  items nor skipped, and the answer is not truncated.

* `exec/src/search/service.ts:330`: src/exec/src/search/limits.ts:11-12 says truncated
  is the only means to tell an exhausted budget from "确实没有更多结果". The walk stops when the
  limit is reached, not when it is exceeded: a tree with exactly as many matches is
  reported as truncated although nothing is missing.

**TextPages**

* `exec/src/http/internal-mcp.ts:311` (`ReaderEnds`): src/docs/sandbox-mcp.md:73 tells
  the caller to read a truncated file on "按 `total_lines` 与 `next_offset`". When the
  first line of a page is longer than the budget nothing is taken and next_offset is the
  offset that was asked for: a caller who follows it reads the same page for ever.

* `exec/src/http/internal-mcp.ts:285` (`CompleteAtEnd`):
  src/exec/src/http/internal-mcp.ts:208 says nextOffset is null when the file was read
  to the end ("读完则为 null"). An overlong line past the window is dropped without setting
  beyondWindow; if it is the last one the answer says truncated=false and
  next_offset=null although that line was never read.

**FilePaths**

* `exec/src/http/internal-fs.ts:347` (`SearchesWhereResolved`):
  src/exec/src/http/internal-fs.ts:327-328 says a search reuses resolve() so that the
  path is not computed in two places. It resolves the display path of a target already
  resolved, and that is not the path it came from: `/home/sandbox/workspace/~a` (or
  `./~a`, a name like `c:`) resolves and can be read, its display path is `~a`, and the
  search is refused as home expansion; a name that begins with a blank is searched under
  another name.

**Gateway**

* `frontend/src/shared/api/runs.ts:68` (`DoneOnce`): src/docs/feature-inventory.md:62
  says of creating a run "带幂等键，同一请求重发不会跑两遍". The browser makes a new key in every call
  of createRun, so a request the user sends again after a 504 runs twice when the first
  one was only slow.

* `api-server/src/services/agent-client.ts:184`:
  src/api-server/src/services/agent-client.ts:23-24 says a stuck agent degrades into
  504s. The time limit covers the body too, but resp.json() is read outside agentFetch,
  where the abort carries no status: a stall in the body is answered with 500.

* `agent/src/application/org-skill-admin-service.ts:75` (`RefusedUntouched`):
  src/agent/src/application/org-skill-admin-service.ts:58 says that what is not a domain
  error is reported as 500 ("其余当作 500（真出错了不该伪装成 400）"). The last return of the function
  is 400, so a lost answer to a commit reads as a refusal although the change has been
  made.

**Subagents**

* `agent/src/application/subagent-spawn-service.ts:192`: The comment says spawn-first
  "makes the cascade see the new child". The snapshot of the cancelling transaction is
  fixed by resolveOwner, before it waits for the row of the parent, so a child that
  commits between the two is not seen and keeps running under a cancelled parent.

* `agent/src/application/cancel-run-service.ts:138`: #recordIntentOnly marks the Run and
  never cascades: after a lost deadlock the descendants go on unless the user cancels
  again.

* `agent/src/runtime/providers/durable-subagent.ts:167`: A start of the tool `subagent`
  makes a new job id each time, so the idempotency key of a spawn only protects
  delegations; a repeated tool call spawns a second child.

* `agent/src/bootstrap/worker-drain-gate.ts:147`: The gate is asked once, at the start;
  a worker of the older configuration that still runs may spawn a deeper child
  afterwards.

**Steering**

* `agent/src/application/durable-steer-controller.ts:189`: An accepted instruction is
  dropped when the prompt ends before the next poll; docs/feature-inventory.md:65 says
  Worker 重启也不丢 ("not lost even when the worker restarts"). A poll in flight at that
  moment records a delivery to an agent that is idle.

* `agent/src/application/durable-steer-controller.ts:148`: The instruction is given
  before its delivery is recorded, so a crash between the two gives it again: at least
  once, never exactly once.

* `agent/src/application/steer-run-service.ts:172`: A retry of an accepted key after the
  Run left RUNNING is answered 409 and not with the first answer.

**Connections**

* `contract/src/endpoint-failover.ts:239` (`BlockedWasBad`): The comment at
  src/contract/src/endpoint-failover.ts:193 gives the reason why the endpoint under way
  is blacklisted when the budget ends: "握手挂死就是不可达" (a handshake that hangs is
  unreachable). The raw pools of the agent and of exec wait in the same attempt for a
  free connection: when every connection of the pool is taken until the budget ends, an
  endpoint that answers is blacklisted, and the next acquires go to the other one.

**WorkerProcess**

* `agent/src/bootstrap/worker-main.ts:325` (`PoolOutlivesRuns`): When the consumer of a
  deeper layer cannot be created, those already created keep taking jobs while the
  failing start closes the pool; worker-drain.ts says 此时不能关连接池 ("the pool must not be
  closed then").

* `agent/src/bootstrap/worker-main.ts:214`: The comment says no background loop has
  started when the assembly fails; when startReviewLoop throws, the notification loop is
  running and is not stopped.

* `agent/src/bootstrap/worker-main.ts:334`: A failing start waits for the outbox loop
  without a deadline.

* `agent/src/bootstrap/worker-main.ts:356`: When one layer fails to pause, the others
  stay paused; the guard counts itself as not paused and never resumes them unless a
  later pause succeeds.

**Notices**

* `agent/src/infrastructure/notification/notification-dispatcher.ts:300`: The comment at
  :215 says 全部永久失败才整行 markFailed ("the row is marked failed only when all recipients
  failed for good"). A retry skips the recipients that are settled already, so when the
  last open one fails for good the row is FAILED although the others have their mail.

* `agent/src/infrastructure/notification/notification-dispatcher.ts:396`: The comment
  says 写行时在等、处理时已离开 → 过期，不补发 (a notice about a wait that is over is not sent). Only
  whether the Run waits is looked at, not whether it is the same wait, so a notice about
  an earlier wait may be sent during a later one.

* `agent/src/infrastructure/notification/notification-dispatcher.ts:286`: A delivery
  stays in `sending` for good when its person opts out or loses the address between two
  attempts, or when the pass dies after the row was given up and before recordFailure.

* `agent/src/infrastructure/notification/notification-dispatcher.ts:270`: A dispatcher
  whose claim was taken back still records what became of its own send: a permanent
  failure overwrites the `sent` that the new holder recorded.

* `agent/src/infrastructure/notification/notification-dispatcher.ts:345`: The comment
  says an unknown notify_policy is settled (未知值 fail-closed 结清); the code treats every
  value other than the known ones as `failure`.

**TraceSpans**

* `agent/src/infrastructure/mysql/repositories/run-event-repository.ts:175`
  (`WatermarkHonest`): A projection that does not converge is dropped because "Events
  are the ledger; GET /trace rebuilds spans" (run-event-repository.ts:175). The next
  append of the Run moves the watermark over that event, and materializeRunFacts replays
  only what is behind the watermark: unless a GET comes between the two, a span without
  a ledger (a model request, a queue wait) stays as it was, for good. The property
  leaves such events out (passed).

* `agent/src/infrastructure/mysql/repositories/trace-span-repository.ts:314`
  (`OutcomesStay`): upsert says "A durable terminal lifecycle cannot be reopened or
  rewritten by a delayed/replayed fact" unless a stronger source of truth asks for it
  (trace-span-repository.ts:130). ensureRunRoot and the tool ledger always ask, with the
  row as the GET loaded it: a GET that loaded it before the Run ended, and writes after,
  sets the ended span back to running. The next GET repairs it (ReadRepairs); the
  property is stated for the spans without a ledger.

**ExecRpc**

* `exec/src/http/router.ts`: the exec service never compares the fence or the tenant of
  a call with a session; `docs/architecture.md:97` and `contract/src/envelope.ts:14-16`
  say it does, and FENCE_EXPIRED and TENANT_MISMATCH are raised nowhere.

* `agent/src/runtime/providers/exec-outcome.ts:9-15`: an answer that is not JSON is not
  marked as an unknown outcome, although the call may have been executed.

* `agent/src/runtime/providers/exec-rpc.ts:43` says an unset fence is sent as 0; the
  envelope demands a positive one.

* The session, review and download clients stop their timer when the headers arrive, so
  a body that stalls holds the caller.

**Connections**

* `contract/src/endpoint-failover.ts:76-80`: a late success of an older acquire moves the
  primary back.  A recovered endpoint that is still black-listed is skipped, an
  exhausted pool black-lists a healthy endpoint when the budget ends, and a session
  that hangs uses the whole budget so that the second endpoint is never tried.

**RunLifecycle**

* A comment in `execute-run-service.ts` still says recovery fail-closes lease-free
  RUNNING Runs to FAILED; the compare-and-set compares the status only, so a
  worker that lost its lease unnoticed may apply its outcome to a later attempt's
  RUNNING; `recordToolStarted` does not look at the Run's status; a crashed
  worker's session lock makes a replay that comes within its TTL end FAILED; losing
  the session lock just before the prompt ends the Run as CANCELLED though nobody
  cancelled it.

## 6. Not modelled, and the plan

Not modelled: process isolation, TLS and password hashing, React rendering, the
texts of prompts and messages, archive formats, listings and pages without state,
deployment.  `PROJECT.json` says for each component what is left out.

Next: theorems for the components whose conjuncts are only model-checked so far,
first the store of a session (`RecoversHistory`, `OneChain`) and the two readers of
the event stream, and the composition of `SessionTurns` with `RunPromise`.
