---------------------------- MODULE MCProgress ----------------------------
(* What the components eventually do, each on its own under the fairness   *)
(* of its own specification: a behaviour of this module is a behaviour of  *)
(* the component that part names.                                          *)
EXTENDS Integers, Sequences, FiniteSets, Outbox, A2aTasks

VARIABLES part,  \* the component that runs in this behaviour
          \* its variables, in the order it declares them:
          s1, s2, s3, s4, s5, s6, s7, s8, s9, s10, s11, s12, s13, s14,
          s15, s16, s17, s18

vars == <<part, s1, s2, s3, s4, s5, s6, s7, s8, s9, s10, s11, s12, s13, s14, s15, s16, s17, s18, outboxVars, a2aVars>>

shared == <<s1, s2, s3, s4, s5, s6, s7, s8, s9, s10, s11, s12, s13, s14, s15, s16, s17, s18>>

\* The variables a component with n of its own leaves alone.
Past5 == <<s6, s7, s8, s9, s10, s11, s12, s13, s14, s15, s16, s17, s18, outboxVars, a2aVars>>
Past7 == <<s8, s9, s10, s11, s12, s13, s14, s15, s16, s17, s18, outboxVars, a2aVars>>
Past8 == <<s9, s10, s11, s12, s13, s14, s15, s16, s17, s18, outboxVars, a2aVars>>
Past9 == <<s10, s11, s12, s13, s14, s15, s16, s17, s18, outboxVars, a2aVars>>
Past10 == <<s11, s12, s13, s14, s15, s16, s17, s18, outboxVars, a2aVars>>
Past13 == <<s14, s15, s16, s17, s18, outboxVars, a2aVars>>
Past15 == <<s16, s17, s18, outboxVars, a2aVars>>
Past16 == <<s17, s18, outboxVars, a2aVars>>
Past17 == <<s18, outboxVars, a2aVars>>

----------------------------------------------------------------------------

\* One event, two publishers, one of which may die.
Ob == INSTANCE Outbox WITH
  committed <- s1, terminal <- s2, final <- s3, entries <- s4, kept <- s5, row <- s6, pub <- s7,
  claims <- s8, crashes <- s9, MaxEvents <- 1, MaxEntries <- 6, MaxLen <- 6,
  Publishers <- {"p1", "p2"}, BatchSize <- 2, MaxAttempts <- 3, MaxClaims <- 4, MaxCrashes <- 1

\* Two events, a stream that keeps one entry, a fault.
Sse == INSTANCE RunEventSse WITH
  committed <- s1, terminal <- s2, final <- s3, entries <- s4, kept <- s5, conn <- s6, wire <- s7,
  client <- s8, faults <- s9, MaxEvents <- 2, MaxEntries <- 2, MaxLen <- 1, PageSize <- 2,
  ReadCount <- 2, MaxRetries <- 1, MaxFaults <- 1

\* Two requests, one worker, a fault.
Tn == INSTANCE SessionTurns WITH
  status <- s1, keyOf <- s2, record <- s3, expired <- s4, job <- s5, handler <- s6, worker <- s7,
  lock <- s8, orphan <- s9, turns <- s10, replayed <- s11, parks <- s12, faults <- s13,
  Keys <- {"k1", "k2"}, Handlers <- {"h1"}, Workers <- {"w1"}, MaxRuns <- 2, MaxParks <- 0,
  MaxFaults <- 1

\* One job, a crash, a lost answer.
Ej == INSTANCE ExecJobs WITH
  pc <- s1, proc <- s2, killed <- s3, row <- s4, entry <- s5, session <- s6, sig <- s7, handle <- s8,
  up <- s9, faults <- s10, Jobs <- {"j1"}, Cap <- 1, MaxDbFail <- 0, MaxCrash <- 1, MaxLost <- 1

\* One reviewer, one publisher, a failing call.
Rv == INSTANCE Review WITH
  task <- s1, current <- s2, name <- s3, revised <- s4, was <- s5, vis <- s6, made <- s7, page <- s8,
  upload <- s9, decision <- s10, material <- s11, job <- s12, pub <- s13, faults <- s14, file <- s15,
  inject <- s16, told <- s17, Items <- {1}, MaxUploads <- 1, Names <- {"a"}, Runs <- {"n1"},
  MaxClaims <- 2, MaxFaults <- 1, MaxRev <- 3, Reviewers <- {"r1"}, Requester <- "u0", Admin <- "r2",
  Publishers <- {"p1"}

\* Two events, a stream of one entry, a fault, a client that resumes.
As == INSTANCE A2aStream WITH
  committed <- s1, terminal <- s2, final <- s3, entries <- s4, kept <- s5, kind <- s6, conn <- s7,
  sent <- s8, faults <- s9, MaxEvents <- 2, MaxEntries <- 1, MaxLen <- 2, Cursors <- {0, 2},
  Kinds <- {"status"}, PageSize <- 2, ReadCount <- 2, MaxFaults <- 1

\* A failing statement in a few migrations, a rollback.
Mg == INSTANCE Migrations WITH
  schema <- s1, recorded <- s2, job <- s3, before <- s4, met <- s5, faults <- s6, rollbacks <- s7,
  Spared <- (1..42) \ {3, 9, 16}, MayCrash <- FALSE, MaxFaults <- 1, MaxRollbacks <- 0

\* One recurring job, two slots, a crash.
Cn == INSTANCE Cron WITH
  now <- s1, jobs <- s2, executions <- s3, runs <- s4, keys <- s5, actors <- s6, edits <- s7,
  faults <- s8, Jobs <- {"j"}, OneTime <- {}, FireOnce <- {"j"}, Forbid <- {"j"}, Slots <- {1, 2},
  Schedulers <- {"s1"}, Manuals <- {}, MaxTime <- 3, Grace <- 0, Retry <- 1, Ttl <- 9, MaxEdits <- 0,
  MaxFaults <- 1, Faults <- {"crash"}

\* A one-time job and a recurring one, an edit, a fault.
Co == INSTANCE Cron WITH
  now <- s1, jobs <- s2, executions <- s3, runs <- s4, keys <- s5, actors <- s6, edits <- s7,
  faults <- s8, Jobs <- {"j", "k"}, OneTime <- {"k"}, FireOnce <- {"j", "k"}, Forbid <- {},
  Slots <- {1}, Schedulers <- {"s1"}, Manuals <- {}, MaxTime <- 2, Grace <- 0, Retry <- 1, Ttl <- 1,
  MaxEdits <- 1, MaxFaults <- 1, Faults <- {"crash", "create", "record"}

\* A run whose result is released by a review.
Cs == INSTANCE ChatStore WITH
  len <- s1, decided <- s2, view <- s3, seen <- s4, sender <- s5, conn <- s6, tasks <- s7,
  focus <- s8, drops <- s9, restores <- s10, Script <- "review", MaxChunk <- 1, MaxGaps <- 0,
  MaxRetries <- 1, MaxDrops <- 0, MaxRestores <- 1, Acts <- {"away"}

\* One file sent twice over two devices, a program that writes.
Up == INSTANCE Uploads WITH
  draft <- s1, attempt <- s2, pc <- s3, answer <- s4, gone <- s5, row <- s6, staged <- s7,
  file <- s8, resv <- s9, lock <- s10, used <- s11, crashes <- s12, blobs <- s13, child <- s14,
  written <- s15, sample <- s16, pub <- s17, Drafts <- {"d1"}, MaxAttempts <- 2, Size <- 2,
  Quota <- 2, CrossDevice <- TRUE, MaxCrashes <- 0, MaxBlobs <- 0, MaxChild <- 3,
  Acts <- {"drop", "break", "child"}

\* Trees of two entries.
Fs == INSTANCE FileSearch WITH
  parent <- s1, kind <- s2, hit <- s3, there <- s4, steady <- s5, mode <- s6, limit <- s7,
  depth <- s8, pc <- s9, stack <- s10, items <- s11, skipped <- s12, truncated <- s13,
  scanned <- s14, changes <- s15, N <- 2, Kinds <- {"file", "dir", "linkDir", "binary"},
  Modes <- {"ls", "find", "grep"}, Limits <- {5}, Depths <- {2}, ScanBudget <- 3, MaxChanges <- 0,
  Slow <- FALSE

\* Files of three lines, some as long as a page or longer.
Tp == INSTANCE TextPages WITH
  file <- s1, newline <- s2, limit <- s3, offset <- s4, reading <- s5, budget <- s6, lineNo <- s7,
  taken <- s8, takenBytes <- s9, overBudget <- s10, beyondWindow <- s11, got <- s12, total <- s13,
  finished <- s14, appends <- s15, MaxLines <- 3, Lengths <- {0, 3, 5}, MaxBytes <- 4,
  Windows <- {1, 1000}, MaxAppends <- 1

\* Two routes, each sent twice.
Gw == INSTANCE Gateway WITH
  route <- s1, flaw <- s2, held <- s3, signedIn <- s4, entitled <- s5, owned <- s6, visible <- s7,
  bff <- s8, bffAt <- s9, agent <- s10, agentAt <- s11, reads <- s12, role <- s13, reply <- s14,
  status <- s15, done <- s16, keys <- s17, late <- s18, RoutesTried <- {"create", "cancel"},
  MaxTries <- 1, Flaws <- {"body"}, Missing <- {}

\* One call of two kinds.
Er == INSTANCE ExecRpc WITH
  clock <- s1, skew <- s2, ring <- s3, active <- s4, call <- s5, Calls <- {1},
  Kinds <- {"effect", "review"}, TTL <- 1, Ahead <- {0}, MaxTick <- 1

\* One caller, two endpoints that go down and hang.
Fk == INSTANCE Connections WITH
  cond <- s1, sick <- s2, left <- s3, primary <- s4, phase <- s5, order <- s6, tried <- s7,
  skipped <- s8, cur <- s9, slot <- s10, free <- s11, open <- s12, crowded <- s13, changes <- s14,
  guard <- s15, tear <- s16, Callers <- {"c1"}, N <- 2, Mode <- "pool",
  Conditions <- {"up", "down", "hang"}, Cap <- 1, Hold <- 1, Slots <- {1, 2}, MaxChanges <- 2,
  Interval <- 1, MaxErrors <- 0, Destroyers <- {}

\* Two runs that spawn one child each, one slot for the children.
Sg == INSTANCE Subagents WITH
  run <- s1, jobs <- s2, held <- s3, calls <- s4, spawning <- s5, cancelTx <- s6, served <- s7,
  faults <- s8, parks <- s9, Roots <- 2, MaxRuns <- 4, MaxDepth <- 1, MaxConcurrent <- 1,
  Budget <- 2, Cancels <- {1}, MaxFaults <- 0, MaxParks <- 0

\* One instruction among other events, pages of one event.
Se == INSTANCE Steering WITH
  status <- s1, events <- s2, ctl <- s3, prompt <- s4, heard <- s5, ever <- s6, attempt <- s7,
  faults <- s8, Keys <- {"k1"}, PageSize <- 1, MaxAttempts <- 2, MaxFaults <- 1, MaxEvents <- 2

\* One layer, a step that fails.
Wp == INSTANCE WorkerProcess WITH
  pc <- s1, undo <- s2, open <- s3, consumer <- s4, paused <- s5, fetching <- s6, jobs <- s7,
  guard <- s8, asked <- s9, unclosed <- s10, up <- s11, faults <- s12, outages <- s13, MaxLayer <- 0,
  MaxFaults <- 1, MaxOutages <- 0

\* A review that one person hears of, two dispatchers.
Nt == INSTANCE Notices WITH
  origin <- s1, status <- s2, wants <- s3, email <- s4, reviewers <- s5, changes <- s6, row <- s7,
  dis <- s8, claims <- s9, crashes <- s10, delivery <- s11, mails <- s12, lost <- s13, unsure <- s14,
  due <- s15, Dispatchers <- {"d1", "d2"}, Notices <- {"p"}, People <- {"o", "r"}, Owner <- "o",
  Kind <- [n \in {"p"} |-> "pending"],
  Starts <- {[on |-> TRUE, found |-> TRUE, child |-> FALSE, long |-> TRUE, job |-> "none"]},
  BatchSize <- 1, MaxAttempts <- 2, MaxClaims <- 3, MaxCrashes <- 1, MaxChanges <- 0

----------------------------------------------------------------------------
\* The values given to the constants are values the components allow.
ASSUME MCProgressAssumption ==
  /\ StreamAssumption /\ OutboxAssumption /\ A2aAssumption
  /\ Ob!OutboxAssumption /\ Ob!StreamAssumption /\ Sse!SseAssumption
  /\ Sse!StreamAssumption /\ Tn!TurnsAssumption /\ Ej!JobsAssumption
  /\ Rv!ReviewAssumption /\ As!A2aStreamAssumption /\ As!StreamAssumption
  /\ Mg!MigrationsAssumption /\ Cn!CronAssumption /\ Co!CronAssumption
  /\ Cs!ChatStoreAssumption /\ Up!UploadsAssumption /\ Fs!SearchAssumption
  /\ Fs!KindsAssumption /\ Tp!PagesAssumption /\ Gw!GatewayAssumption
  /\ Er!ConstantsOK /\ Fk!ConnectionsAssumption /\ Sg!SubagentAssumption
  /\ Se!SteeringAssumption /\ Wp!ProcessAssumption /\ Nt!NoticesAssumption

NoneRuns == s1 = 0 /\ s2 = 0 /\ s3 = 0 /\ s4 = 0 /\ s5 = 0 /\ s6 = 0 /\ s7 = 0 /\ s8 = 0 /\ s9 = 0
            /\ s10 = 0 /\ s11 = 0 /\ s12 = 0 /\ s13 = 0 /\ s14 = 0 /\ s15 = 0 /\ s16 = 0 /\ s17 = 0 /\ s18 = 0

Init ==
  /\ OutboxInit /\ A2aInit
  /\ \/ part = "publishing" /\ NoneRuns
     \/ part = "answering" /\ NoneRuns
     \/ part = "outbox" /\ Ob!OutboxInit /\ s10 = 0 /\ s11 = 0 /\ s12 = 0 /\ s13 = 0 /\ s14 = 0 /\ s15 = 0 /\ s16 = 0 /\ s17 = 0 /\ s18 = 0
     \/ part = "sse" /\ Sse!SseInit /\ s10 = 0 /\ s11 = 0 /\ s12 = 0 /\ s13 = 0 /\ s14 = 0 /\ s15 = 0 /\ s16 = 0 /\ s17 = 0 /\ s18 = 0
     \/ part = "turns" /\ Tn!TurnsInit /\ s14 = 0 /\ s15 = 0 /\ s16 = 0 /\ s17 = 0 /\ s18 = 0
     \/ part = "jobs" /\ Ej!JobsInit /\ s11 = 0 /\ s12 = 0 /\ s13 = 0 /\ s14 = 0 /\ s15 = 0 /\ s16 = 0 /\ s17 = 0 /\ s18 = 0
     \/ part = "review" /\ Rv!ReviewInit /\ s18 = 0
     \/ part = "a2aStream" /\ As!A2aStreamInit /\ s10 = 0 /\ s11 = 0 /\ s12 = 0 /\ s13 = 0 /\ s14 = 0 /\ s15 = 0 /\ s16 = 0 /\ s17 = 0 /\ s18 = 0
     \/ part = "migrations" /\ Mg!MigrationsInit /\ s8 = 0 /\ s9 = 0 /\ s10 = 0 /\ s11 = 0 /\ s12 = 0 /\ s13 = 0 /\ s14 = 0 /\ s15 = 0 /\ s16 = 0 /\ s17 = 0 /\ s18 = 0
     \/ part = "cron" /\ Cn!Init /\ s9 = 0 /\ s10 = 0 /\ s11 = 0 /\ s12 = 0 /\ s13 = 0 /\ s14 = 0 /\ s15 = 0 /\ s16 = 0 /\ s17 = 0 /\ s18 = 0
     \/ part = "cronOnce" /\ Co!Init /\ s9 = 0 /\ s10 = 0 /\ s11 = 0 /\ s12 = 0 /\ s13 = 0 /\ s14 = 0 /\ s15 = 0 /\ s16 = 0 /\ s17 = 0 /\ s18 = 0
     \/ part = "chatReview" /\ Cs!Init /\ s11 = 0 /\ s12 = 0 /\ s13 = 0 /\ s14 = 0 /\ s15 = 0 /\ s16 = 0 /\ s17 = 0 /\ s18 = 0
     \/ part = "uploads" /\ Up!Init /\ s18 = 0
     \/ part = "search" /\ Fs!Init /\ s16 = 0 /\ s17 = 0 /\ s18 = 0
     \/ part = "pages" /\ Tp!Init /\ s16 = 0 /\ s17 = 0 /\ s18 = 0
     \/ part = "gateway" /\ Gw!Init
     \/ part = "execRpc" /\ Er!RpcInit /\ s6 = 0 /\ s7 = 0 /\ s8 = 0 /\ s9 = 0 /\ s10 = 0 /\ s11 = 0 /\ s12 = 0 /\ s13 = 0 /\ s14 = 0 /\ s15 = 0 /\ s16 = 0 /\ s17 = 0 /\ s18 = 0
     \/ part = "failover" /\ Fk!ConnectionsInit /\ s17 = 0 /\ s18 = 0
     \/ part = "subagents" /\ Sg!SubagentInit /\ s10 = 0 /\ s11 = 0 /\ s12 = 0 /\ s13 = 0 /\ s14 = 0 /\ s15 = 0 /\ s16 = 0 /\ s17 = 0 /\ s18 = 0
     \/ part = "steering" /\ Se!SteeringInit /\ s9 = 0 /\ s10 = 0 /\ s11 = 0 /\ s12 = 0 /\ s13 = 0 /\ s14 = 0 /\ s15 = 0 /\ s16 = 0 /\ s17 = 0 /\ s18 = 0
     \/ part = "process" /\ Wp!ProcessInit /\ s14 = 0 /\ s15 = 0 /\ s16 = 0 /\ s17 = 0 /\ s18 = 0
     \/ part = "notices" /\ Nt!NoticesInit /\ s16 = 0 /\ s17 = 0 /\ s18 = 0

ObNext == part = "outbox" /\ Ob!OutboxNext /\ UNCHANGED <<part, Past9>>
SseNext == part = "sse" /\ Sse!SseNext /\ UNCHANGED <<part, Past9>>
TnNext == part = "turns" /\ Tn!TurnsNext /\ UNCHANGED <<part, Past13>>
EjNext == part = "jobs" /\ Ej!JobsNext /\ UNCHANGED <<part, Past10>>
RvNext == part = "review" /\ Rv!ReviewNext /\ UNCHANGED <<part, Past17>>
AsNext == part = "a2aStream" /\ As!A2aStreamNext /\ UNCHANGED <<part, Past9>>
MgNext == part = "migrations" /\ Mg!MigrationsNext /\ UNCHANGED <<part, Past7>>
CnNext == part = "cron" /\ Cn!Next /\ UNCHANGED <<part, Past8>>
CoNext == part = "cronOnce" /\ Co!Next /\ UNCHANGED <<part, Past8>>
CsNext == part = "chatReview" /\ Cs!Next /\ UNCHANGED <<part, Past10>>
UpNext == part = "uploads" /\ Up!Next /\ UNCHANGED <<part, Past17>>
FsNext == part = "search" /\ Fs!Next /\ UNCHANGED <<part, Past15>>
TpNext == part = "pages" /\ Tp!Next /\ UNCHANGED <<part, Past15>>
GwNext == part = "gateway" /\ Gw!Next /\ UNCHANGED <<part, outboxVars, a2aVars>>
ErNext == part = "execRpc" /\ Er!RpcNext /\ UNCHANGED <<part, Past5>>
FkNext == part = "failover" /\ Fk!ConnectionsNext /\ UNCHANGED <<part, Past16>>
SgNext == part = "subagents" /\ Sg!SubagentNext /\ UNCHANGED <<part, Past9>>
SeNext == part = "steering" /\ Se!SteeringNext /\ UNCHANGED <<part, Past8>>
WpNext == part = "process" /\ Wp!ProcessNext /\ UNCHANGED <<part, Past13>>
NtNext == part = "notices" /\ Nt!NoticesNext /\ UNCHANGED <<part, Past15>>
Publishing == part = "publishing" /\ OutboxNext /\ UNCHANGED <<part, shared, a2aVars>>
Answering == part = "answering" /\ A2aNext /\ UNCHANGED <<part, shared, outboxVars>>

Next ==
  \/ Publishing \/ Answering
  \/ /\ part \in {"outbox", "sse", "turns", "jobs", "review", "a2aStream",
                "migrations", "cron"}
     /\ ObNext \/ SseNext \/ TnNext \/ EjNext \/ RvNext \/ AsNext \/ MgNext \/ CnNext
  \/ /\ part \in {"cronOnce", "chatReview", "uploads", "search", "pages",
                "gateway", "execRpc", "failover"}
     /\ CoNext \/ CsNext \/ UpNext \/ FsNext \/ TpNext \/ GwNext \/ ErNext \/ FkNext
  \/ /\ part \in {"subagents", "steering", "process", "notices"}
     /\ SgNext \/ SeNext \/ WpNext \/ NtNext

\* The actions the components' own specifications are fair to.  A behaviour is
\* of one component, so that one condition stands for a condition of each.
Fair1 ==
  \/ part = "outbox" /\ Ob!PublishOnce("p1") /\ UNCHANGED <<part, Past9>>
  \/ part = "sse" /\ Sse!ReadRun /\ UNCHANGED <<part, Past9>>
  \/ part = "turns" /\ Tn!WorkerGoesOn("w1") /\ UNCHANGED <<part, Past13>>
  \/ part = "jobs" /\ Ej!RecoverOrphans /\ UNCHANGED <<part, Past10>>
  \/ part = "review" /\ Rv!PublisherWork("p1") /\ UNCHANGED <<part, Past17>>
  \/ part = "a2aStream" /\ As!EndpointStep /\ UNCHANGED <<part, Past9>>
  \/ part = "migrations" /\ Mg!Runner /\ UNCHANGED <<part, Past7>>
  \/ part = "cron" /\ Cn!Advance /\ UNCHANGED <<part, Past8>>
  \/ part = "cronOnce" /\ Co!Advance /\ UNCHANGED <<part, Past8>>
  \/ part = "chatReview" /\ Cs!Publish /\ UNCHANGED <<part, Past10>>
  \/ part = "uploads" /\ Up!ServerStep(<<"d1", 1>>) /\ UNCHANGED <<part, Past17>>
  \/ part = "search" /\ Fs!SearchGoesOn /\ UNCHANGED <<part, Past15>>
  \/ part = "pages" /\ Tp!StartPage /\ UNCHANGED <<part, Past15>>
  \/ part = "gateway" /\ Gw!Bff(1) /\ UNCHANGED <<part, outboxVars, a2aVars>>
  \/ part = "execRpc" /\ Er!Timers(1) /\ UNCHANGED <<part, Past5>>
  \/ part = "failover" /\ Fk!Asks("c1") /\ UNCHANGED <<part, Past16>>
  \/ part = "subagents" /\ Sg!WorkGoesOn /\ UNCHANGED <<part, Past9>>
  \/ part = "steering" /\ Se!Controller /\ UNCHANGED <<part, Past8>>
  \/ part = "process" /\ Wp!DrainDeadline /\ UNCHANGED <<part, Past13>>
  \/ part = "notices" /\ Nt!PublishOnce("d1") /\ UNCHANGED <<part, Past15>>
Fair2 ==
  \/ part = "outbox" /\ Ob!PublishOnce("p2") /\ UNCHANGED <<part, Past9>>
  \/ part = "sse" /\ Sse!EndpointStep /\ UNCHANGED <<part, Past9>>
  \/ part = "turns" /\ Tn!RecoverQueued(1) /\ UNCHANGED <<part, Past13>>
  \/ part = "jobs" /\ Ej!OpenSession("j1") /\ UNCHANGED <<part, Past10>>
  \/ part = "review" /\ Rv!ClaimsOne("p1") /\ UNCHANGED <<part, Past17>>
  \/ part = "cron" /\ Cn!Schedule("s1") /\ UNCHANGED <<part, Past8>>
  \/ part = "cronOnce" /\ Co!Schedule("s1") /\ UNCHANGED <<part, Past8>>
  \/ part = "chatReview" /\ Cs!SenderStep /\ UNCHANGED <<part, Past10>>
  \/ part = "uploads" /\ Up!ServerStep(<<"d1", 2>>) /\ UNCHANGED <<part, Past17>>
  \/ part = "pages" /\ Tp!PushLine /\ UNCHANGED <<part, Past15>>
  \/ part = "failover" /\ Fk!Expire("c1") /\ UNCHANGED <<part, Past16>>
  \/ part = "steering" /\ Se!PollOnce /\ UNCHANGED <<part, Past8>>
  \/ part = "process" /\ Wp!TeardownDeadline /\ UNCHANGED <<part, Past13>>
  \/ part = "notices" /\ Nt!PublishOnce("d2") /\ UNCHANGED <<part, Past15>>
Fair3 ==
  \/ part = "sse" /\ Sse!NotDue /\ UNCHANGED <<part, Past9>>
  \/ part = "turns" /\ Tn!RecoverQueued(2) /\ UNCHANGED <<part, Past13>>
  \/ part = "jobs" /\ Ej!Admit("j1") /\ UNCHANGED <<part, Past10>>
  \/ part = "cron" /\ Cn!ExecuteClaim("s1") /\ UNCHANGED <<part, Past8>>
  \/ part = "cronOnce" /\ Co!ExecuteClaim("s1") /\ UNCHANGED <<part, Past8>>
  \/ part = "chatReview" /\ Cs!ManagerStep /\ UNCHANGED <<part, Past10>>
  \/ part = "uploads" /\ Up!Answered("d1") /\ UNCHANGED <<part, Past17>>
  \/ part = "pages" /\ Tp!DropLine /\ UNCHANGED <<part, Past15>>
  \/ part = "failover" /\ Fk!Release("c1") /\ UNCHANGED <<part, Past16>>
Fair4 ==
  \/ part = "sse" /\ Sse!Open /\ UNCHANGED <<part, Past9>>
  \/ part = "turns" /\ Tn!RecoverOrphan(1) /\ UNCHANGED <<part, Past13>>
  \/ part = "jobs" /\ Ej!Spawn("j1") /\ UNCHANGED <<part, Past10>>
  \/ part = "chatReview" /\ Cs!ReconcileStep /\ UNCHANGED <<part, Past10>>
  \/ part = "uploads" /\ Up!TickMeasures /\ UNCHANGED <<part, Past17>>
  \/ part = "pages" /\ Tp!EndPage /\ UNCHANGED <<part, Past15>>
  \/ part = "failover" /\ Fk!Step(1) /\ UNCHANGED <<part, Past16>>
Fair5 ==
  \/ part = "sse" /\ Sse!ReadBodyEnds /\ UNCHANGED <<part, Past9>>
  \/ part = "turns" /\ Tn!RecoverOrphan(2) /\ UNCHANGED <<part, Past13>>
  \/ part = "jobs" /\ Ej!Insert("j1") /\ UNCHANGED <<part, Past10>>
  \/ part = "chatReview" /\ Cs!ResumeStep /\ UNCHANGED <<part, Past10>>
  \/ part = "uploads" /\ Up!TickDecides /\ UNCHANGED <<part, Past17>>
  \/ part = "failover" /\ Fk!Step(2) /\ UNCHANGED <<part, Past16>>
Fair6 ==
  \/ part = "sse" /\ Sse!Receive /\ UNCHANGED <<part, Past9>>
  \/ part = "turns" /\ Tn!LockExpires /\ UNCHANGED <<part, Past13>>
  \/ part = "jobs" /\ Ej!ReadBack("j1") /\ UNCHANGED <<part, Past10>>
  \/ part = "chatReview" /\ Cs!RestoreStep /\ UNCHANGED <<part, Past10>>
Fair7 ==
  \/ part = "sse" /\ Sse!Disconnect /\ UNCHANGED <<part, Past9>>
  \/ part = "jobs" /\ Ej!Done("j1") /\ UNCHANGED <<part, Past10>>
  \/ part = "chatReview" /\ Cs!Decide /\ UNCHANGED <<part, Past10>>
Fair8 ==
  \/ part = "jobs" /\ Ej!SettleRow("j1") /\ UNCHANGED <<part, Past10>>
  \/ part = "chatReview" /\ Cs!PollReview /\ UNCHANGED <<part, Past10>>
Fair9 ==
  \/ part = "jobs" /\ Ej!SignalRow("j1") /\ UNCHANGED <<part, Past10>>
Fair10 ==
  \/ part = "jobs" /\ Ej!SignalledExits("j1") /\ UNCHANGED <<part, Past10>>
Fair11 ==
  \/ part = "jobs" /\ Ej!StartAnswered("j1") /\ UNCHANGED <<part, Past10>>
Fair12 ==
  \/ part = "jobs" /\ Ej!MonitorPoll("j1") /\ UNCHANGED <<part, Past10>>
StronglyFair1 ==
  \/ part = "sse" /\ Sse!CatchupReads /\ UNCHANGED <<part, Past9>>
  \/ part = "turns" /\ Tn!JobTaken(1) /\ UNCHANGED <<part, Past13>>
  \/ part = "a2aStream" /\ As!ReadRow /\ UNCHANGED <<part, Past9>>
StronglyFair2 ==
  \/ part = "turns" /\ Tn!JobTaken(2) /\ UNCHANGED <<part, Past13>>
StronglyFair3 ==
  \/ part = "turns" /\ Tn!GatePassed(1) /\ UNCHANGED <<part, Past13>>
StronglyFair4 ==
  \/ part = "turns" /\ Tn!GatePassed(2) /\ UNCHANGED <<part, Past13>>

Fairness ==
  /\ WF_vars(Fair1) /\ WF_vars(Fair2) /\ WF_vars(Fair3) /\ WF_vars(Fair4)
  /\ WF_vars(Fair5) /\ WF_vars(Fair6) /\ WF_vars(Fair7) /\ WF_vars(Fair8)
  /\ WF_vars(Fair9) /\ WF_vars(Fair10) /\ WF_vars(Fair11) /\ WF_vars(Fair12)
  /\ SF_vars(StronglyFair1) /\ SF_vars(StronglyFair2) /\ SF_vars(StronglyFair3) /\ SF_vars(StronglyFair4)

Spec == Init /\ [][Next]_vars /\ Fairness

----------------------------------------------------------------------------
\* Every committed event leaves the outbox and reaches the client that
\* follows the run, the final event an A2A client, the result of a review the
\* open chat, under repeated publishing, catch-up reads and polls, and every
\* mail that is due is settled.
EventsArrive ==
  /\ (\/ part = "notices" /\ Nt!Waits("p")
      \/ part = "outbox" /\ Ob!Unsettled(1)
      \/ part = "sse" /\ Sse!Exists(1)
      \/ part = "a2aStream" /\ As!RunIsOver
      \/ part = "chatReview" /\ Cs!ReviewPublished)
     ~> (\/ part = "notices" /\ Nt!NoticeDone("p")
         \/ part = "outbox" /\ Ob!Drained(1)
         \/ part = "sse" /\ Sse!Reached(1)
         \/ part = "a2aStream" /\ As!FinalSent
         \/ part = "chatReview" /\ Cs!ReviewSeen)
  /\ (\/ part = "sse" /\ Sse!Exists(2))
     ~> (\/ part = "sse" /\ Sse!Reached(2))

\* What was accepted is settled: a queued run gets its turn, a killed job and
\* its handle end, a decision of a review lands, a migration is applied, a
\* claimed cron execution ends and a due one is claimed, unless an edit moved
\* a one-time job back to a slot it took, an upload is answered and a child
\* over its quota stopped, a run that waits for its children ends, an
\* instruction is delivered while the run goes on, and a signal ends the
\* worker.
WorkSettles ==
  /\ (\/ part = "turns" /\ Tn!IsQueued(1)
      \/ part = "subagents" /\ Sg!AnyStarted
      \/ part = "steering" /\ Se!Undelivered("k1")
      \/ part = "process" /\ Wp!SignalReceived
      \/ part = "jobs" /\ Ej!IsSignalled("j1")
      \/ part = "review" /\ Rv!IsDecided
      \/ part = "migrations"
      \/ part = "cron" /\ Cn!HasOldClaim("j")
      \/ part = "cronOnce" /\ Co!IsDue("j")
      \/ part = "uploads" /\ Up!IsUploading("d1"))
     ~> (\/ part = "turns" /\ ~Tn!IsQueued(1)
         \/ part = "subagents" /\ Sg!AllSettled
         \/ part = "steering" /\ Se!Handed("k1")
         \/ part = "process" /\ Wp!ProcessEnded
         \/ part = "jobs" /\ Ej!IsSettled("j1")
         \/ part = "review" /\ Rv!HasLanded
         \/ part = "migrations" /\ Mg!IsMigrated
         \/ part = "cron" /\ Cn!ClaimsOver("j")
         \/ part = "cronOnce" /\ Co!DueIsOver("j")
         \/ part = "uploads" /\ ~Up!IsUploading("d1"))
  /\ (\/ part = "turns" /\ Tn!IsQueued(2)
      \/ part = "jobs" /\ Ej!HandleOpen("j1")
      \/ part = "cronOnce" /\ Co!IsDue("k")
      \/ part = "uploads" /\ Up!ChildExceeds)
     ~> (\/ part = "turns" /\ ~Tn!IsQueued(2)
         \/ part = "jobs" /\ Ej!HandleClosed("j1")
         \/ part = "cronOnce" /\ Co!DueIsOver("k")
         \/ part = "uploads" /\ ~Up!ChildRuns)

\* A search and a paged read end, a request of the BFF is answered and a call
\* of exec returns within their time limits, and a caller of a database that
\* is up is connected again.
CallsEnd ==
  /\ <>[](part = "failover" /\ Fk!Steady) => []<>(part = "failover" /\ Fk!IsConnected("c1"))
  /\ (\/ part = "search"
      \/ part = "pages"
      \/ part = "gateway" /\ Gw!BffBusy(1)
      \/ part = "execRpc" /\ Er!Waiting(1))
     ~> (\/ part = "search" /\ Fs!SearchOver
         \/ part = "pages" /\ Tp!ReaderDone
         \/ part = "gateway" /\ Gw!BffDone(1)
         \/ part = "execRpc" /\ Er!Ended(1))
============================================================================
