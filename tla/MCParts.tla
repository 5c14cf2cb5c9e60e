---------------------------- MODULE MCParts ----------------------------
(* Every component but the run lifecycle, each on its own: a behaviour of  *)
(* this module is a behaviour of the component that part names, with the   *)
(* values given to its constants here. The state space is the sum of       *)
(* theirs. Each property below collects what the components of one concern *)
(* promise; the conjuncts are defined and explained where the component    *)
(* is.                                                                     *)
EXTENDS Integers, Sequences, FiniteSets, Cron, AgentCatalog, ToolRisk, ExecRpc

VARIABLES part,  \* the component that runs in this behaviour
          \* its variables, in the order it declares them:
          s1, s2, s3, s4, s5, s6, s7, s8, s9, s10, s11, s12, s13, s14,
          s15, s16, s17, s18, s19

partsVars == <<part, s1, s2, s3, s4, s5, s6, s7, s8, s9, s10, s11, s12, s13, s14, s15, s16, s17, s18, s19, vars, catalogVars, riskVars, rpcVars>>

shared == <<s1, s2, s3, s4, s5, s6, s7, s8, s9, s10, s11, s12, s13, s14, s15, s16, s17, s18, s19>>

\* The variables a component with n of its own leaves alone.
Past4 == <<s5, s6, s7, s8, s9, s10, s11, s12, s13, s14, s15, s16, s17, s18, s19, vars, catalogVars, riskVars, rpcVars>>
Past5 == <<s6, s7, s8, s9, s10, s11, s12, s13, s14, s15, s16, s17, s18, s19, vars, catalogVars, riskVars, rpcVars>>
Past7 == <<s8, s9, s10, s11, s12, s13, s14, s15, s16, s17, s18, s19, vars, catalogVars, riskVars, rpcVars>>
Past8 == <<s9, s10, s11, s12, s13, s14, s15, s16, s17, s18, s19, vars, catalogVars, riskVars, rpcVars>>
Past9 == <<s10, s11, s12, s13, s14, s15, s16, s17, s18, s19, vars, catalogVars, riskVars, rpcVars>>
Past10 == <<s11, s12, s13, s14, s15, s16, s17, s18, s19, vars, catalogVars, riskVars, rpcVars>>
Past11 == <<s12, s13, s14, s15, s16, s17, s18, s19, vars, catalogVars, riskVars, rpcVars>>
Past12 == <<s13, s14, s15, s16, s17, s18, s19, vars, catalogVars, riskVars, rpcVars>>
Past13 == <<s14, s15, s16, s17, s18, s19, vars, catalogVars, riskVars, rpcVars>>
Past14 == <<s15, s16, s17, s18, s19, vars, catalogVars, riskVars, rpcVars>>
Past15 == <<s16, s17, s18, s19, vars, catalogVars, riskVars, rpcVars>>
Past16 == <<s17, s18, s19, vars, catalogVars, riskVars, rpcVars>>
Past17 == <<s18, s19, vars, catalogVars, riskVars, rpcVars>>
Past18 == <<s19, vars, catalogVars, riskVars, rpcVars>>

----------------------------------------------------------------------------

\* Three events, pages of one, a stream that keeps one entry.
Sse == INSTANCE RunEventSse WITH
  committed <- s1, terminal <- s2, final <- s3, entries <- s4, kept <- s5, conn <- s6, wire <- s7,
  client <- s8, faults <- s9, MaxEvents <- 3, MaxEntries <- 1, MaxLen <- 1, PageSize <- 1,
  ReadCount <- 2, MaxRetries <- 0, MaxFaults <- 0

\* Two events and a fault.
Sf == INSTANCE RunEventSse WITH
  committed <- s1, terminal <- s2, final <- s3, entries <- s4, kept <- s5, conn <- s6, wire <- s7,
  client <- s8, faults <- s9, MaxEvents <- 2, MaxEntries <- 2, MaxLen <- 1, PageSize <- 1,
  ReadCount <- 2, MaxRetries <- 0, MaxFaults <- 1

\* Two requests, a handler, a worker and a fault.
Tn == INSTANCE SessionTurns WITH
  status <- s1, keyOf <- s2, record <- s3, expired <- s4, job <- s5, handler <- s6, worker <- s7,
  lock <- s8, orphan <- s9, turns <- s10, replayed <- s11, parks <- s12, faults <- s13,
  Keys <- {"k1", "k2"}, Handlers <- {"h1"}, Workers <- {"w1"}, MaxRuns <- 2, MaxParks <- 1,
  MaxFaults <- 1

\* Two executors over three fences, one damaged snapshot or row.
St == INSTANCE SessionStore WITH
  fence <- s1, sstatus <- s2, version <- s3, journal <- s4, snapshot <- s5, stored <- s6, ex <- s7,
  history <- s8, damage <- s9, Executors <- {"e1", "e2"}, MaxFence <- 3, MaxDamage <- 1

\* Characters of one and two bytes, a ring and a capture of three, a crash.
Jo == INSTANCE JobOutput WITH
  out <- s1, kept <- s2, dead <- s3, live <- s4, buf <- s5, settled <- s6, saved <- s7, saving <- s8,
  disk <- s9, purge <- s10, agent <- s11, got <- s12, given <- s13, faults <- s14, Widths <- {1, 2},
  CaptureCap <- 3, RingCap <- 3, ReadLimit <- 2, AgentCap <- 2, MaxBytes <- 4, MaxCrash <- 1,
  MaxTorn <- 0, MaxIoFail <- 0, MaxPurge <- 0

\* A ring that is full with one character, saves torn by a crash, a failing
\* disk and a purge.
Jt == INSTANCE JobOutput WITH
  out <- s1, kept <- s2, dead <- s3, live <- s4, buf <- s5, settled <- s6, saved <- s7, saving <- s8,
  disk <- s9, purge <- s10, agent <- s11, got <- s12, given <- s13, faults <- s14, Widths <- {1},
  CaptureCap <- 9, RingCap <- 1, ReadLimit <- 2, AgentCap <- 2, MaxBytes <- 2, MaxCrash <- 1,
  MaxTorn <- 1, MaxIoFail <- 1, MaxPurge <- 1

\* Two jobs, room for one.
Ej == INSTANCE ExecJobs WITH
  pc <- s1, proc <- s2, killed <- s3, row <- s4, entry <- s5, session <- s6, sig <- s7, handle <- s8,
  up <- s9, faults <- s10, Jobs <- {"j1", "j2"}, Cap <- 1, MaxDbFail <- 0, MaxCrash <- 0,
  MaxLost <- 0

\* One job under every failure.
Ek == INSTANCE ExecJobs WITH
  pc <- s1, proc <- s2, killed <- s3, row <- s4, entry <- s5, session <- s6, sig <- s7, handle <- s8,
  up <- s9, faults <- s10, Jobs <- {"j1"}, Cap <- 1, MaxDbFail <- 1, MaxCrash <- 1, MaxLost <- 1

\* An approved call, issued again, beside a call bound to the sandbox.
Tt == INSTANCE ToolTurn WITH
  run <- s1, phase <- s2, gen <- s3, row <- s4, approval <- s5, question <- s6, asked <- s7,
  pc <- s8, by <- s9, led <- s10, flight <- s11, todo <- s12, park <- s13, spent <- s14,
  effects <- s15, beside <- s16, Calls <- {"a", "a2", "s"}, High <- {"a", "a2"}, Deny <- {},
  Ask <- {}, Sandbox <- {"s"}, Twins <- {"a", "a2"}, MaxToolCalls <- 2, MaxGen <- 2

\* The first of three calls of the same tool and arguments is approved; the
\* next executor issues the others, at once or one after another.
Tw == INSTANCE ToolTurn WITH
  run <- s1, phase <- s2, gen <- s3, row <- s4, approval <- s5, question <- s6, asked <- s7,
  pc <- s8, by <- s9, led <- s10, flight <- s11, todo <- s12, park <- s13, spent <- s14,
  effects <- s15, beside <- s16, Calls <- {"a", "a2", "a3"}, High <- {"a", "a2", "a3"}, Deny <- {},
  Ask <- {}, Sandbox <- {}, Twins <- {"a", "a2", "a3"}, MaxToolCalls <- 2, MaxGen <- 3

\* A call to approve, a question, a call bound to the sandbox.
Ta == INSTANCE ToolTurn WITH
  run <- s1, phase <- s2, gen <- s3, row <- s4, approval <- s5, question <- s6, asked <- s7,
  pc <- s8, by <- s9, led <- s10, flight <- s11, todo <- s12, park <- s13, spent <- s14,
  effects <- s15, beside <- s16, Calls <- {"h", "q", "m"}, High <- {"h"}, Deny <- {}, Ask <- {"q"},
  Sandbox <- {"m"}, Twins <- {}, MaxToolCalls <- 2, MaxGen <- 2

\* A call to approve, a question, a refused call.
Td == INSTANCE ToolTurn WITH
  run <- s1, phase <- s2, gen <- s3, row <- s4, approval <- s5, question <- s6, asked <- s7,
  pc <- s8, by <- s9, led <- s10, flight <- s11, todo <- s12, park <- s13, spent <- s14,
  effects <- s15, beside <- s16, Calls <- {"h", "q", "d"}, High <- {"h"}, Deny <- {"d"},
  Ask <- {"q"}, Sandbox <- {}, Twins <- {}, MaxToolCalls <- 2, MaxGen <- 2

\* Two reviewers, two revisions sent.
Rv == INSTANCE Review WITH
  task <- s1, current <- s2, name <- s3, revised <- s4, was <- s5, vis <- s6, made <- s7, page <- s8,
  upload <- s9, decision <- s10, material <- s11, job <- s12, pub <- s13, faults <- s14, file <- s15,
  inject <- s16, told <- s17, Items <- {1}, MaxUploads <- 2, Reviewers <- {"r1", "r2"},
  Requester <- "u0", Admin <- "r2", Names <- {"a"}, Publishers <- {"p1"}, Runs <- {"n1"},
  MaxClaims <- 1, MaxFaults <- 0, MaxRev <- 4

\* One reviewer, two publishers, two runs to tell.
Rj == INSTANCE Review WITH
  task <- s1, current <- s2, name <- s3, revised <- s4, was <- s5, vis <- s6, made <- s7, page <- s8,
  upload <- s9, decision <- s10, material <- s11, job <- s12, pub <- s13, faults <- s14, file <- s15,
  inject <- s16, told <- s17, Items <- {1}, MaxUploads <- 1, Reviewers <- {"r1"}, Requester <- "u0",
  Admin <- "r2", Names <- {"a"}, Publishers <- {"p1", "p2"}, Runs <- {"n1", "n2"}, MaxClaims <- 1,
  MaxFaults <- 0, MaxRev <- 3

\* One publisher, two runs to tell, a failing call.
Rf == INSTANCE Review WITH
  task <- s1, current <- s2, name <- s3, revised <- s4, was <- s5, vis <- s6, made <- s7, page <- s8,
  upload <- s9, decision <- s10, material <- s11, job <- s12, pub <- s13, faults <- s14, file <- s15,
  inject <- s16, told <- s17, Items <- {1}, MaxUploads <- 1, Reviewers <- {"r1"}, Requester <- "u0",
  Admin <- "r2", Names <- {"a"}, Publishers <- {"p1"}, Runs <- {"n1", "n2"}, MaxClaims <- 2,
  MaxFaults <- 1, MaxRev <- 3

\* Two messages of one task, two requests, two failures or deaths of the
\* gateway.
At == INSTANCE A2aTasks WITH
  run <- s1, mapped <- s2, audit <- s3, req <- s4, asked <- s5, cred <- s6, adm <- s7, faults <- s8,
  Messages <- {"m1", "m2"}, First <- "m1", Requests <- {"q1", "q2"}, KeyAdmins <- {}, Creds <- {1},
  MaxFaults <- 2

\* One message, two requests, three failures or deaths of the gateway.
Ao == INSTANCE A2aTasks WITH
  run <- s1, mapped <- s2, audit <- s3, req <- s4, asked <- s5, cred <- s6, adm <- s7, faults <- s8,
  Messages <- {"m1"}, First <- "m1", Requests <- {"q1", "q2"}, KeyAdmins <- {}, Creds <- {1},
  MaxFaults <- 3

\* Two administrators, three credentials.
Ak == INSTANCE A2aTasks WITH
  run <- s1, mapped <- s2, audit <- s3, req <- s4, asked <- s5, cred <- s6, adm <- s7, faults <- s8,
  Messages <- {"m1"}, First <- "m1", Requests <- {"q1"}, KeyAdmins <- {"d1", "d2"},
  Creds <- {1, 2, 3}, MaxFaults <- 0

\* Three events of two kinds, pages of two, a stream of one entry.
As == INSTANCE A2aStream WITH
  committed <- s1, terminal <- s2, final <- s3, entries <- s4, kept <- s5, kind <- s6, conn <- s7,
  sent <- s8, faults <- s9, MaxEvents <- 3, MaxEntries <- 1, MaxLen <- 1, Cursors <- {0, 2},
  Kinds <- {"status", "message"}, PageSize <- 2, ReadCount <- 2, MaxFaults <- 0

\* A client that resumes behind the first of four events, read from the
\* journal.
Ar == INSTANCE A2aStream WITH
  committed <- s1, terminal <- s2, final <- s3, entries <- s4, kept <- s5, kind <- s6, conn <- s7,
  sent <- s8, faults <- s9, MaxEvents <- 4, MaxEntries <- 0, MaxLen <- 1, Cursors <- {1},
  Kinds <- {"status", "message", "artifact"}, PageSize <- 3, ReadCount <- 2, MaxFaults <- 0

\* Two events and a fault.
Af == INSTANCE A2aStream WITH
  committed <- s1, terminal <- s2, final <- s3, entries <- s4, kept <- s5, kind <- s6, conn <- s7,
  sent <- s8, faults <- s9, MaxEvents <- 2, MaxEntries <- 2, MaxLen <- 1, Cursors <- {0},
  Kinds <- {"status", "message"}, PageSize <- 2, ReadCount <- 2, MaxFaults <- 1

\* Two company identities, three names, first logins that race.
Ac == INSTANCE Accounts WITH
  cred <- s1, bound <- s2, users <- s3, sess <- s4, login <- s5, reader <- s6, faults <- s7,
  Subjects <- {"s1", "s2"}, Employees <- {"e1", "e2", "e3"}, Reserved <- {"e3"},
  LocalNames <- {"e2", "e3"}, Logins <- {"l1", "l2"}, Readers <- {}, Sso <- TRUE, MaxFaults <- 1

\* Two local logins and three readers of their sessions.
Al == INSTANCE Accounts WITH
  cred <- s1, bound <- s2, users <- s3, sess <- s4, login <- s5, reader <- s6, faults <- s7,
  Subjects <- {}, Employees <- {"e1", "e2"}, Reserved <- {}, LocalNames <- {"e1"},
  Logins <- {"l1", "l2"}, Readers <- {"r1", "r2"}, Sso <- FALSE, MaxFaults <- 1

\* Two members, one pinned, two changes, a change of the profile.
Mb == INSTANCE Members WITH
  roles <- s1, last <- s2, pinned <- s3, lock <- s4, change <- s5, grant <- s6, profile <- s7,
  patch <- s8, People <- {"a", "b"}, Pinned <- {"a"}, Changes <- {"c1", "c2"}, Patches <- {}

\* Two changes of one profile at once.
Mp == INSTANCE Members WITH
  roles <- s1, last <- s2, pinned <- s3, lock <- s4, change <- s5, grant <- s6, profile <- s7,
  patch <- s8, People <- {"a"}, Pinned <- {}, Changes <- {}, Patches <- {"p1", "p2"}

\* Two people at one browser, two requests in flight.
Bl == INSTANCE BrowserLogin WITH
  owner <- s1, live <- s2, cookie <- s3, shown <- s4, ready <- s5, warned <- s6, data <- s7,
  net <- s8, gate <- s9, txn <- s10, overtaken <- s11, faults <- s12, People <- {"ann", "bob"},
  MaxSessions <- 1, MaxInFlight <- 2, MaxFaults <- 1

\* Two people who sign in one after the other while sessions are checked.
Bo == INSTANCE BrowserLogin WITH
  owner <- s1, live <- s2, cookie <- s3, shown <- s4, ready <- s5, warned <- s6, data <- s7,
  net <- s8, gate <- s9, txn <- s10, overtaken <- s11, faults <- s12, People <- {"ann", "bob"},
  MaxSessions <- 2, MaxInFlight <- 2, MaxFaults <- 0

\* An administrator who makes agents and chooses their versions.
Ck == INSTANCE AgentCatalog WITH
  defs <- s1, versions <- s2, creds <- s3, work <- s4, overtaken <- s5, Agents <- {"a1", "a2"},
  Default <- "a1", Admins <- {"p1"}, Ops <- {"ensureDefault", "createAgent", "setActive"},
  Reviews <- BOOLEAN, MaxVersionAttempts <- 3, MaxVersions <- 2, MaxCreds <- 2

\* Two administrators who turn keys over.
Cr == INSTANCE AgentCatalog WITH
  defs <- s1, versions <- s2, creds <- s3, work <- s4, overtaken <- s5, Agents <- {"a1"},
  Default <- "a1", Admins <- {"p1", "p2"}, Ops <- {"ensureDefault", "issue", "rotate", "revoke"},
  Reviews <- {FALSE}, MaxVersionAttempts <- 3, MaxVersions <- 1, MaxCreds <- 3

\* Two agents, one edit, two versions of each; the user waits for what is
\* being read.
Ed == INSTANCE AgentEditor WITH
  server <- s1, shown <- s2, sel <- s3, lines <- s4, draft <- s5, saved <- s6, load <- s7,
  refreshing <- s8, checked <- s9, write <- s10, edits <- s11, unsaved <- s12, published <- s13,
  hurried <- s14, Agents <- {"a1", "a2"}, First <- "a1", MaxEdits <- 1,
  MaxVersions <- [a \in {"a1", "a2"} |-> 2], MaxHurried <- 0

\* A user who goes on before the page of one agent is read, and edits.
En == INSTANCE AgentEditor WITH
  server <- s1, shown <- s2, sel <- s3, lines <- s4, draft <- s5, saved <- s6, load <- s7,
  refreshing <- s8, checked <- s9, write <- s10, edits <- s11, unsaved <- s12, published <- s13,
  hurried <- s14, Agents <- {"a1", "a2"}, First <- "a1", MaxEdits <- 1,
  MaxVersions <- [a \in {"a1", "a2"} |-> 1], MaxHurried <- 1

\* A user who goes on before the page of one agent is read, and saves.
Ew == INSTANCE AgentEditor WITH
  server <- s1, shown <- s2, sel <- s3, lines <- s4, draft <- s5, saved <- s6, load <- s7,
  refreshing <- s8, checked <- s9, write <- s10, edits <- s11, unsaved <- s12, published <- s13,
  hurried <- s14, Agents <- {"a1", "a2"}, First <- "a1", MaxEdits <- 0,
  MaxVersions <- [a \in {"a1", "a2"} |-> IF a = "a1" THEN 1 ELSE 2], MaxHurried <- 1

\* A failing statement and a rollback.
Mg == INSTANCE Migrations WITH
  schema <- s1, recorded <- s2, job <- s3, before <- s4, met <- s5, faults <- s6, rollbacks <- s7,
  Spared <- {2, 6, 7, 8, 27, 28, 29, 41}, MayCrash <- FALSE, MaxFaults <- 1, MaxRollbacks <- 1

\* Two faults, one of which may end the process.
Mc == INSTANCE Migrations WITH
  schema <- s1, recorded <- s2, job <- s3, before <- s4, met <- s5, faults <- s6, rollbacks <- s7,
  Spared <- (1..42) \ {3, 9, 12, 33}, MayCrash <- TRUE, MaxFaults <- 2, MaxRollbacks <- 0

\* A tool of a remote server.
Tm == INSTANCE ToolRisk WITH
  platform <- s1, inventory <- s2, draft <- s3, preview <- s4, answer <- s5, version <- s6,
  run <- s7, Tools <- {"mcp_on"}, Written <- {0, 2}, MaxPlatform <- 1, MaxVersion <- 1

\* Tools a version decides about by itself.
Tv == INSTANCE ToolRisk WITH
  platform <- s1, inventory <- s2, draft <- s3, preview <- s4, answer <- s5, version <- s6,
  run <- s7, Tools <- {"delegate_to_remote_agent", "mcp_off", "mcp_odd"}, Written <- {0, 1, 2, 3, 4},
  MaxPlatform <- 0, MaxVersion <- 1

\* A member, two versions, two requests, one administrator.
Os == INSTANCE OrgSkills WITH
  requests <- s1, versions <- s2, current <- s3, disk <- s4, enabled <- s5, source <- s6, pins <- s7,
  editor <- s8, calls <- s9, made <- s10, warned <- s11, blind <- s12, abandoned <- s13,
  unchecked <- s14, raced <- s15, Users <- {"u1"}, Admins <- {"a1"}, StatusAdmins <- {},
  Digests <- {"d1", "d2"}, NoOne <- "no one", MaxRequests <- 2, MaxCalls <- 2, MaxPins <- 0,
  UserGc <- FALSE, Ages <- FALSE

\* Two administrators, one version, one request.
Or == INSTANCE OrgSkills WITH
  requests <- s1, versions <- s2, current <- s3, disk <- s4, enabled <- s5, source <- s6, pins <- s7,
  editor <- s8, calls <- s9, made <- s10, warned <- s11, blind <- s12, abandoned <- s13,
  unchecked <- s14, raced <- s15, Users <- {"u1", "u2"}, Admins <- {"a1", "a2"},
  StatusAdmins <- {"a1"}, Digests <- {"d1"}, NoOne <- "no one", MaxRequests <- 1, MaxCalls <- 2,
  MaxPins <- 0, UserGc <- TRUE, Ages <- FALSE

\* Two administrators and the collector.
Oc == INSTANCE OrgSkills WITH
  requests <- s1, versions <- s2, current <- s3, disk <- s4, enabled <- s5, source <- s6, pins <- s7,
  editor <- s8, calls <- s9, made <- s10, warned <- s11, blind <- s12, abandoned <- s13,
  unchecked <- s14, raced <- s15, Users <- {}, Admins <- {"a1", "a2"}, StatusAdmins <- {},
  Digests <- {"d1", "d2"}, NoOne <- "no one", MaxRequests <- 0, MaxCalls <- 3, MaxPins <- 0,
  UserGc <- TRUE, Ages <- TRUE

\* One administrator whose calls fail half way.
Of == INSTANCE OrgSkills WITH
  requests <- s1, versions <- s2, current <- s3, disk <- s4, enabled <- s5, source <- s6, pins <- s7,
  editor <- s8, calls <- s9, made <- s10, warned <- s11, blind <- s12, abandoned <- s13,
  unchecked <- s14, raced <- s15, Users <- {"u1"}, Admins <- {"a1"}, StatusAdmins <- {"a1"},
  Digests <- {"d1", "d2"}, NoOne <- "no one", MaxRequests <- 1, MaxCalls <- 2, MaxPins <- 1,
  UserGc <- TRUE, Ages <- TRUE

\* One upload, a transaction that may crash, a run.
Us == INSTANCE UserSkills WITH
  draft <- s1, had <- s2, stranded <- s3, installs <- s4, edits <- s5, row <- s6, disk <- s7,
  bytes <- s8, tx <- s9, turns <- s10, mounts <- s11, Texts <- {1, 2}, Installers <- {"i1"},
  Runs <- {"r1"}, NoPackage <- <<>>, MaxEdits <- 2, MaxTurns <- 3

\* Two uploads at once, and a crash of their process.
Uu == INSTANCE UserSkills WITH
  draft <- s1, had <- s2, stranded <- s3, installs <- s4, edits <- s5, row <- s6, disk <- s7,
  bytes <- s8, tx <- s9, turns <- s10, mounts <- s11, Texts <- {1, 2}, Installers <- {"i1", "i2"},
  Runs <- {}, NoPackage <- <<>>, MaxEdits <- 2, MaxTurns <- 1

\* Two names in three layers, deployments and changes around a run.
Rs == INSTANCE RunSkills WITH
  release <- s1, org <- s2, orgDisk <- s3, user <- s4, userDisk <- s5, changes <- s6, policy <- s7,
  summary <- s8, run <- s9, told <- s10, call <- s11, Names <- {"a", "b"}, Release <- {},
  Releases <- {{}, {"a"}, {"a", "b"}}, SkillsMax <- 4, MaxChanges <- 3,
  Modes <- {"all", "allowlist", "none"}, UserModes <- {"allow", "deny"}

\* Two schedulers that recover each other, records that live for a tick, a
\* fault of any kind.
Co == INSTANCE Cron WITH
  now <- s1, jobs <- s2, executions <- s3, runs <- s4, keys <- s5, actors <- s6, edits <- s7,
  faults <- s8, Jobs <- {"j"}, OneTime <- {}, FireOnce <- {"j"}, Forbid <- {"j"}, Slots <- {1, 2},
  Schedulers <- {"s1", "s2"}, Manuals <- {}, MaxTime <- 2, Grace <- 0, Retry <- 1, Ttl <- 1,
  MaxEdits <- 0, MaxFaults <- 1, Faults <- {"create", "record", "crash"}

\* A one-time job that is moved, and a manual run it forbids.
Cm == INSTANCE Cron WITH
  now <- s1, jobs <- s2, executions <- s3, runs <- s4, keys <- s5, actors <- s6, edits <- s7,
  faults <- s8, Jobs <- {"k"}, OneTime <- {"k"}, FireOnce <- {"k"}, Forbid <- {"k"}, Slots <- {1},
  Schedulers <- {"s1"}, Manuals <- {"m"}, MaxTime <- 2, Grace <- 0, Retry <- 1, Ttl <- 1,
  MaxEdits <- 1, MaxFaults <- 0, Faults <- {}

\* Days of three hours, one of them and a bit.
Ct == INSTANCE CronTime WITH
  expression <- s1, start <- s2, at <- s3, found <- s4, HourLength <- 2, Zone <- "plain",
  Horizon <- 7

\* A day that drops an hour, then one that repeats one.
Cz == INSTANCE CronTime WITH
  expression <- s1, start <- s2, at <- s3, found <- s4, HourLength <- 2, Zone <- "shifted",
  Horizon <- 11

\* The events of a run one by one, a restore, a logout, another conversation.
Cs == INSTANCE ChatStore WITH
  len <- s1, decided <- s2, view <- s3, seen <- s4, sender <- s5, conn <- s6, tasks <- s7,
  focus <- s8, drops <- s9, restores <- s10, Script <- "plain", MaxChunk <- 1, MaxGaps <- 1,
  MaxRetries <- 1, MaxDrops <- 0, MaxRestores <- 1, Acts <- {"restore", "logout", "away"}

\* A run that waits for an approval.
Ca == INSTANCE ChatStore WITH
  len <- s1, decided <- s2, view <- s3, seen <- s4, sender <- s5, conn <- s6, tasks <- s7,
  focus <- s8, drops <- s9, restores <- s10, Script <- "approval", MaxChunk <- 1, MaxGaps <- 1,
  MaxRetries <- 0, MaxDrops <- 0, MaxRestores <- 0, Acts <- {}

\* A reload while a run goes on.
Cd == INSTANCE ChatStore WITH
  len <- s1, decided <- s2, view <- s3, seen <- s4, sender <- s5, conn <- s6, tasks <- s7,
  focus <- s8, drops <- s9, restores <- s10, Script <- "plain", MaxChunk <- 2, MaxGaps <- 1,
  MaxRetries <- 0, MaxDrops <- 0, MaxRestores <- 1, Acts <- {"reload"}

\* A connection that drops while the user stops the run.
Cf == INSTANCE ChatStore WITH
  len <- s1, decided <- s2, view <- s3, seen <- s4, sender <- s5, conn <- s6, tasks <- s7,
  focus <- s8, drops <- s9, restores <- s10, Script <- "plain", MaxChunk <- 1, MaxGaps <- 1,
  MaxRetries <- 0, MaxDrops <- 1, MaxRestores <- 0, Acts <- {"stop", "logout"}

\* A run that the page gives up for lost, opened again.
Cl == INSTANCE ChatStore WITH
  len <- s1, decided <- s2, view <- s3, seen <- s4, sender <- s5, conn <- s6, tasks <- s7,
  focus <- s8, drops <- s9, restores <- s10, Script <- "review", MaxChunk <- 1, MaxGaps <- 0,
  MaxRetries <- 0, MaxDrops <- 1, MaxRestores <- 1, Acts <- {"restore"}

\* A run that waits for an approval, over a connection that drops.
Cb == INSTANCE ChatStore WITH
  len <- s1, decided <- s2, view <- s3, seen <- s4, sender <- s5, conn <- s6, tasks <- s7,
  focus <- s8, drops <- s9, restores <- s10, Script <- "approval", MaxChunk <- 1, MaxGaps <- 0,
  MaxRetries <- 0, MaxDrops <- 1, MaxRestores <- 0, Acts <- {}

\* Two files that do not both fit, each sent twice.
Up == INSTANCE Uploads WITH
  draft <- s1, attempt <- s2, pc <- s3, answer <- s4, gone <- s5, row <- s6, staged <- s7,
  file <- s8, resv <- s9, lock <- s10, used <- s11, crashes <- s12, blobs <- s13, child <- s14,
  written <- s15, sample <- s16, pub <- s17, Drafts <- {"d1", "d2"}, MaxAttempts <- 2, Size <- 2,
  Quota <- 3, CrossDevice <- FALSE, MaxCrashes <- 0, MaxBlobs <- 0, MaxChild <- 0, Acts <- {"drop"}

\* The same over two devices, with a crash and a failing database.
Uf == INSTANCE Uploads WITH
  draft <- s1, attempt <- s2, pc <- s3, answer <- s4, gone <- s5, row <- s6, staged <- s7,
  file <- s8, resv <- s9, lock <- s10, used <- s11, crashes <- s12, blobs <- s13, child <- s14,
  written <- s15, sample <- s16, pub <- s17, Drafts <- {"d1"}, MaxAttempts <- 2, Size <- 2,
  Quota <- 3, CrossDevice <- TRUE, MaxCrashes <- 1, MaxBlobs <- 1, MaxChild <- 0,
  Acts <- {"drop", "db", "rename", "delete", "submit"}

\* The public upload beside a draft.
Uo == INSTANCE Uploads WITH
  draft <- s1, attempt <- s2, pc <- s3, answer <- s4, gone <- s5, row <- s6, staged <- s7,
  file <- s8, resv <- s9, lock <- s10, used <- s11, crashes <- s12, blobs <- s13, child <- s14,
  written <- s15, sample <- s16, pub <- s17, Drafts <- {"d1"}, MaxAttempts <- 1, Size <- 2,
  Quota <- 3, CrossDevice <- FALSE, MaxCrashes <- 0, MaxBlobs <- 1, MaxChild <- 0,
  Acts <- {"file", "submit", "remove", "break"}

\* Two calls and the collector.
Mx == INSTANCE McpContexts WITH
  pc <- s1, op <- s2, ws <- s3, result <- s4, mapped <- s5, mapAge <- s6, lock <- s7, content <- s8,
  marker <- s9, sweep <- s10, judged <- s11, gcStep <- s12, sweeps <- s13, now <- s14, ticked <- s15,
  link <- s16, meta <- s17, wrote <- s18, caught <- s19, Calls <- {"c1", "c2"},
  Ops <- {"write", "read"}, Ttl <- 1, LinkTtl <- 1, MaxTicks <- 2, MaxSweeps <- 1,
  NoCall <- "no call", Acts <- {"rm"}

\* One call under every failure.
Mf == INSTANCE McpContexts WITH
  pc <- s1, op <- s2, ws <- s3, result <- s4, mapped <- s5, mapAge <- s6, lock <- s7, content <- s8,
  marker <- s9, sweep <- s10, judged <- s11, gcStep <- s12, sweeps <- s13, now <- s14, ticked <- s15,
  link <- s16, meta <- s17, wrote <- s18, caught <- s19, Calls <- {"c1"},
  Ops <- {"write","read","delete","upload","submit"}, Ttl <- 1, LinkTtl <- 1, MaxTicks <- 2,
  MaxSweeps <- 1, NoCall <- "no call", Acts <- {"bridge", "redis", "rm", "slow"}

\* Two calls and a download link.
Ml == INSTANCE McpContexts WITH
  pc <- s1, op <- s2, ws <- s3, result <- s4, mapped <- s5, mapAge <- s6, lock <- s7, content <- s8,
  marker <- s9, sweep <- s10, judged <- s11, gcStep <- s12, sweeps <- s13, now <- s14, ticked <- s15,
  link <- s16, meta <- s17, wrote <- s18, caught <- s19, Calls <- {"c1", "c2"},
  Ops <- {"write", "delete", "upload", "submit"}, Ttl <- 1, LinkTtl <- 1, MaxTicks <- 2,
  MaxSweeps <- 0, NoCall <- "no call", Acts <- {}

\* Trees of two entries, one of which may go away during the walk.
Fs == INSTANCE FileSearch WITH
  parent <- s1, kind <- s2, hit <- s3, there <- s4, steady <- s5, mode <- s6, limit <- s7,
  depth <- s8, pc <- s9, stack <- s10, items <- s11, skipped <- s12, truncated <- s13,
  scanned <- s14, changes <- s15, N <- 2,
  Kinds <- {"file", "dir", "linkDir", "linkOut", "big", "unreadable"},
  Modes <- {"ls", "find", "grep"}, Limits <- {1}, Depths <- {0, 1}, ScanBudget <- 2, MaxChanges <- 1,
  Slow <- TRUE

\* Two changes while the walk goes on.
Fc == INSTANCE FileSearch WITH
  parent <- s1, kind <- s2, hit <- s3, there <- s4, steady <- s5, mode <- s6, limit <- s7,
  depth <- s8, pc <- s9, stack <- s10, items <- s11, skipped <- s12, truncated <- s13,
  scanned <- s14, changes <- s15, N <- 2, Kinds <- {"file", "dir", "unreadable"}, Modes <- {"find"},
  Limits <- {5}, Depths <- {2}, ScanBudget <- 2, MaxChanges <- 2, Slow <- FALSE

\* Files of three lines, one of them as long as a page.
Tp == INSTANCE TextPages WITH
  file <- s1, newline <- s2, limit <- s3, offset <- s4, reading <- s5, budget <- s6, lineNo <- s7,
  taken <- s8, takenBytes <- s9, overBudget <- s10, beyondWindow <- s11, got <- s12, total <- s13,
  finished <- s14, appends <- s15, MaxLines <- 3, Lengths <- {0, 1, 3}, MaxBytes <- 4,
  Windows <- {1, 2, 1000}, MaxAppends <- 1

\* Lines longer than a page.
Tl == INSTANCE TextPages WITH
  file <- s1, newline <- s2, limit <- s3, offset <- s4, reading <- s5, budget <- s6, lineNo <- s7,
  taken <- s8, takenBytes <- s9, overBudget <- s10, beyondWindow <- s11, got <- s12, total <- s13,
  finished <- s14, appends <- s15, MaxLines <- 3, Lengths <- {0, 1, 5}, MaxBytes <- 4,
  Windows <- {1, 1000}, MaxAppends <- 1

\* Paths of two segments with a link and a package.
Fp == INSTANCE FilePaths WITH
  path <- s1, draft <- s2, listed <- s3, allowed <- s4, link <- s5, target <- s6, op <- s7, at <- s8,
  pc <- s9, Names <- {"l", "p"}, Tilde <- {}, Drive <- {}, Blank <- {}, Trimmed <- "p", Link <- "l",
  Pkg <- "p", MaxSegs <- 2

\* Paths that start with a tilde, a drive or a blank.
Fo == INSTANCE FilePaths WITH
  path <- s1, draft <- s2, listed <- s3, allowed <- s4, link <- s5, target <- s6, op <- s7, at <- s8,
  pc <- s9, Names <- {"a", "l", "p", "~a", "c:", " a"}, Tilde <- {"~a"}, Drive <- {"c:"},
  Blank <- {" a"}, Trimmed <- "a", Link <- "l", Pkg <- "p", MaxSegs <- 1

\* Three routes, each sent twice, under one key or two, a key that is wrong,
\* time-outs and lost commits.
Gw == INSTANCE Gateway WITH
  route <- s1, flaw <- s2, held <- s3, signedIn <- s4, entitled <- s5, owned <- s6, visible <- s7,
  bff <- s8, bffAt <- s9, agent <- s10, agentAt <- s11, reads <- s12, role <- s13, reply <- s14,
  status <- s15, done <- s16, keys <- s17, late <- s18, RoutesTried <- {"create", "cron", "decide"},
  MaxTries <- 2, Flaws <- {"key"}, Missing <- {"cron"}

\* Every route, each sent once.
Gs == INSTANCE Gateway WITH
  route <- s1, flaw <- s2, held <- s3, signedIn <- s4, entitled <- s5, owned <- s6, visible <- s7,
  bff <- s8, bffAt <- s9, agent <- s10, agentAt <- s11, reads <- s12, role <- s13, reply <- s14,
  status <- s15, done <- s16, keys <- s17, late <- s18,
  RoutesTried <- {"orgSkill", "draft", "credential", "create", "steer", "followUp", "cancel", "getRun", "listRuns", "resume", "respond", "conversation", "newConversation", "deletion", "decide", "ensure", "cron", "catalog", "member", "adminRuns", "share", "skillSwitch", "review"},
  MaxTries <- 1, Flaws <- {"body", "fields"}, Missing <- {"draft"}

\* Two callers, two endpoints, connections made by Knex.
Fk == INSTANCE Connections WITH
  cond <- s1, sick <- s2, left <- s3, primary <- s4, phase <- s5, order <- s6, tried <- s7,
  skipped <- s8, cur <- s9, slot <- s10, free <- s11, open <- s12, crowded <- s13, changes <- s14,
  guard <- s15, tear <- s16, Callers <- {"c1", "c2"}, Mode <- "knex",
  Conditions <- {"up", "down", "auth", "init", "hang"}, Cap <- 2, Slots <- {1, 2}, MaxChanges <- 1,
  MaxErrors <- 0, Destroyers <- {}, N <- 2, Hold <- 1, Interval <- 1

\* Two callers, two endpoints, a pool of one connection for each.
Fl == INSTANCE Connections WITH
  cond <- s1, sick <- s2, left <- s3, primary <- s4, phase <- s5, order <- s6, tried <- s7,
  skipped <- s8, cur <- s9, slot <- s10, free <- s11, open <- s12, crowded <- s13, changes <- s14,
  guard <- s15, tear <- s16, Callers <- {"c1", "c2"}, Mode <- "pool", Conditions <- {"up", "hang"},
  Cap <- 1, Slots <- {1, 2}, MaxChanges <- 1, MaxErrors <- 0, Destroyers <- {}, N <- 2, Hold <- 1,
  Interval <- 1

\* A credential fetch.
Fd == INSTANCE Connections WITH
  cond <- s1, sick <- s2, left <- s3, primary <- s4, phase <- s5, order <- s6, tried <- s7,
  skipped <- s8, cur <- s9, slot <- s10, free <- s11, open <- s12, crowded <- s13, changes <- s14,
  guard <- s15, tear <- s16, Callers <- {"c1"}, Mode <- "dbpm",
  Conditions <- {"up", "down", "auth", "init", "hang"}, Cap <- 1, Slots <- {1}, MaxChanges <- 2,
  MaxErrors <- 0, Destroyers <- {}, N <- 2, Hold <- 1, Interval <- 1

\* Five errors of the Redis client, two shutdown paths.
Fg == INSTANCE Connections WITH
  cond <- s1, sick <- s2, left <- s3, primary <- s4, phase <- s5, order <- s6, tried <- s7,
  skipped <- s8, cur <- s9, slot <- s10, free <- s11, open <- s12, crowded <- s13, changes <- s14,
  guard <- s15, tear <- s16, Callers <- {}, N <- 1, Mode <- "knex", Conditions <- {"up"}, Cap <- 1,
  Hold <- 1, Slots <- {}, MaxChanges <- 0, Interval <- 2, MaxErrors <- 5, Destroyers <- {"d1", "d2"}

\* A run, its child and its grandchild; a person may cancel the first two.
Sg == INSTANCE Subagents WITH
  run <- s1, jobs <- s2, held <- s3, calls <- s4, spawning <- s5, cancelTx <- s6, served <- s7,
  faults <- s8, parks <- s9, Roots <- 1, MaxRuns <- 3, MaxDepth <- 2, MaxConcurrent <- 1,
  Budget <- 3, Cancels <- {1, 2}, MaxFaults <- 1, MaxParks <- 1

\* A run with two children at a time.
Sh == INSTANCE Subagents WITH
  run <- s1, jobs <- s2, held <- s3, calls <- s4, spawning <- s5, cancelTx <- s6, served <- s7,
  faults <- s8, parks <- s9, Roots <- 1, MaxRuns <- 4, MaxDepth <- 1, MaxConcurrent <- 2,
  Budget <- 2, Cancels <- {1}, MaxFaults <- 0, MaxParks <- 0

\* Two instructions, pages of one event, two attempts, a fault.
Se == INSTANCE Steering WITH
  status <- s1, events <- s2, ctl <- s3, prompt <- s4, heard <- s5, ever <- s6, attempt <- s7,
  faults <- s8, Keys <- {"k1", "k2"}, PageSize <- 1, MaxAttempts <- 2, MaxFaults <- 1,
  MaxEvents <- 3

\* One layer, an outage, a step that fails.
Wp == INSTANCE WorkerProcess WITH
  pc <- s1, undo <- s2, open <- s3, consumer <- s4, paused <- s5, fetching <- s6, jobs <- s7,
  guard <- s8, asked <- s9, unclosed <- s10, up <- s11, faults <- s12, outages <- s13, MaxLayer <- 0,
  MaxFaults <- 1, MaxOutages <- 1

\* Two layers, a step that fails.
Wl == INSTANCE WorkerProcess WITH
  pc <- s1, undo <- s2, open <- s3, consumer <- s4, paused <- s5, fetching <- s6, jobs <- s7,
  guard <- s8, asked <- s9, unclosed <- s10, up <- s11, faults <- s12, outages <- s13, MaxLayer <- 1,
  MaxFaults <- 1, MaxOutages <- 0

\* A review that three people hear of, two dispatchers.
Nt == INSTANCE Notices WITH
  origin <- s1, status <- s2, wants <- s3, email <- s4, reviewers <- s5, changes <- s6, row <- s7,
  dis <- s8, claims <- s9, crashes <- s10, delivery <- s11, mails <- s12, lost <- s13, unsure <- s14,
  due <- s15, Dispatchers <- {"d1", "d2"}, Notices <- {"p"}, People <- {"o", "r", "s"}, Owner <- "o",
  Kind <- [n \in {"p"} |-> "pending"],
  Starts <- {[on |-> TRUE, found |-> TRUE, child |-> FALSE, long |-> TRUE, job |-> "none"]},
  BatchSize <- 2, MaxAttempts <- 2, MaxClaims <- 2, MaxCrashes <- 0, MaxChanges <- 0

\* A notice of each kind, one dispatcher that takes one at a time, a crash, a
\* change of what people wish.
Nk == INSTANCE Notices WITH
  origin <- s1, status <- s2, wants <- s3, email <- s4, reviewers <- s5, changes <- s6, row <- s7,
  dis <- s8, claims <- s9, crashes <- s10, delivery <- s11, mails <- s12, lost <- s13, unsure <- s14,
  due <- s15, Dispatchers <- {"d1"}, Notices <- {"t", "w", "p", "e"}, People <- {"o", "r"},
  Owner <- "o",
  Kind <- [n \in {"t", "w", "p", "e"} |-> CASE n = "t" -> "terminal" [] n = "w" -> "waiting" [] n = "p" -> "pending" [] n = "e" -> "decided"],
  Starts <- {[on |-> TRUE, found |-> TRUE, child |-> FALSE, long |-> TRUE, job |-> "none"], [on |-> TRUE, found |-> TRUE, child |-> FALSE, long |-> FALSE, job |-> "failure"], [on |-> TRUE, found |-> FALSE, child |-> FALSE, long |-> TRUE, job |-> "none"], [on |-> FALSE, found |-> TRUE, child |-> FALSE, long |-> TRUE, job |-> "always"], [on |-> TRUE, found |-> TRUE, child |-> TRUE, long |-> FALSE, job |-> "none"]},
  BatchSize <- 1, MaxAttempts <- 1, MaxClaims <- 1, MaxCrashes <- 1, MaxChanges <- 1

\* One GET at a time, two in all, over a tool call that ends either way.
Sp == INSTANCE TraceSpans WITH
  log <- s1, run <- s2, tool <- s3, spans <- s4, passed <- s5, get <- s6, gets <- s7, clock <- s8,
  faults <- s9,
  Events <- {"run.queued", "run.started", "run.cancelled", "tool.started", "tool.completed", "tool.failed"},
  Readers <- {"g1"}, MaxGets <- 2, MaxRetries <- 1, MaxTicks <- 0, MaxFaults <- 1

\* One GET at a time over a request to the model.
Sm == INSTANCE TraceSpans WITH
  log <- s1, run <- s2, tool <- s3, spans <- s4, passed <- s5, get <- s6, gets <- s7, clock <- s8,
  faults <- s9,
  Events <- {"run.queued", "run.started", "run.succeeded", "message", "model.started", "model.completed"},
  Readers <- {"g1"}, MaxGets <- 1, MaxRetries <- 1, MaxTicks <- 0, MaxFaults <- 1

\* Two GETs at once, a millisecond between writes.
Sr == INSTANCE TraceSpans WITH
  log <- s1, run <- s2, tool <- s3, spans <- s4, passed <- s5, get <- s6, gets <- s7, clock <- s8,
  faults <- s9, Events <- {"run.queued", "run.cancelled"}, Readers <- {"g1", "g2"}, MaxGets <- 2,
  MaxRetries <- 1, MaxTicks <- 1, MaxFaults <- 0

----------------------------------------------------------------------------
\* The values given to the constants are values the components allow.
ASSUME MCPartsAssumption ==
  /\ CronAssumption /\ CatalogAssumption /\ RiskAssumption
  /\ ConstantsOK /\ Sse!SseAssumption /\ Sse!StreamAssumption
  /\ Sf!SseAssumption /\ Sf!StreamAssumption /\ Tn!TurnsAssumption
  /\ St!StoreAssumption /\ Jo!OutputAssumption /\ Jt!OutputAssumption
  /\ Ej!JobsAssumption /\ Ek!JobsAssumption /\ Tt!TurnAssumption
  /\ Tw!TurnAssumption /\ Ta!TurnAssumption /\ Td!TurnAssumption
  /\ Rv!ReviewAssumption /\ Rj!ReviewAssumption /\ Rf!ReviewAssumption
  /\ At!A2aAssumption /\ Ao!A2aAssumption /\ Ak!A2aAssumption
  /\ As!A2aStreamAssumption /\ As!StreamAssumption /\ Ar!A2aStreamAssumption
  /\ Ar!StreamAssumption /\ Af!A2aStreamAssumption /\ Af!StreamAssumption
  /\ Ac!AccountsAssumption /\ Al!AccountsAssumption /\ Mb!MembersAssumption
  /\ Mp!MembersAssumption /\ Bl!BrowserLoginAssumption /\ Bo!BrowserLoginAssumption
  /\ Ck!CatalogAssumption /\ Cr!CatalogAssumption /\ Ed!EditorAssumption
  /\ En!EditorAssumption /\ Ew!EditorAssumption /\ Mg!MigrationsAssumption
  /\ Mc!MigrationsAssumption /\ Tm!RiskAssumption /\ Tv!RiskAssumption
  /\ Os!OrgSkillsAssumption /\ Or!OrgSkillsAssumption /\ Oc!OrgSkillsAssumption
  /\ Of!OrgSkillsAssumption /\ Us!UserSkillsAssumption /\ Uu!UserSkillsAssumption
  /\ Rs!RunSkillsAssumption /\ Co!CronAssumption /\ Cm!CronAssumption
  /\ Ct!CronTimeAssumption /\ Cz!CronTimeAssumption /\ Cs!ChatStoreAssumption
  /\ Ca!ChatStoreAssumption /\ Cd!ChatStoreAssumption /\ Cf!ChatStoreAssumption
  /\ Cl!ChatStoreAssumption /\ Cb!ChatStoreAssumption /\ Up!UploadsAssumption
  /\ Uf!UploadsAssumption /\ Uo!UploadsAssumption /\ Mx!McpAssumption
  /\ Mf!McpAssumption /\ Ml!McpAssumption /\ Fs!SearchAssumption
  /\ Fs!KindsAssumption /\ Fc!SearchAssumption /\ Fc!KindsAssumption
  /\ Tp!PagesAssumption /\ Tl!PagesAssumption /\ Fp!PathAssumption
  /\ Fo!PathAssumption /\ Gw!GatewayAssumption /\ Gs!GatewayAssumption
  /\ Fk!ConnectionsAssumption /\ Fl!ConnectionsAssumption /\ Fd!ConnectionsAssumption
  /\ Fg!ConnectionsAssumption /\ Sg!SubagentAssumption /\ Sh!SubagentAssumption
  /\ Se!SteeringAssumption /\ Wp!ProcessAssumption /\ Wl!ProcessAssumption
  /\ Nt!NoticesAssumption /\ Nk!NoticesAssumption /\ Sp!TraceAssumption
  /\ Sm!TraceAssumption /\ Sr!TraceAssumption

NoCalls ==
  clock = 0 /\ skew = 0 /\ ring = {1} /\ active = 1 /\ call = [c \in Calls |-> Fresh("effect")]

NoneRuns == s1 = 0 /\ s2 = 0 /\ s3 = 0 /\ s4 = 0 /\ s5 = 0 /\ s6 = 0 /\ s7 = 0 /\ s8 = 0 /\ s9 = 0
            /\ s10 = 0 /\ s11 = 0 /\ s12 = 0 /\ s13 = 0 /\ s14 = 0 /\ s15 = 0 /\ s16 = 0 /\ s17 = 0 /\ s18 = 0 /\ s19 = 0

PartsInit ==
  /\ Init /\ CatalogInit /\ RiskInit
  /\ \/ part = "calling" /\ RpcInit /\ NoneRuns
     \/ /\ NoCalls
        /\ \/ part = "scheduling" /\ NoneRuns
           \/ part = "versioning" /\ NoneRuns
           \/ part = "deciding" /\ NoneRuns
           \/ part = "sse" /\ Sse!SseInit /\ s10 = 0 /\ s11 = 0 /\ s12 = 0 /\ s13 = 0 /\ s14 = 0 /\ s15 = 0 /\ s16 = 0 /\ s17 = 0 /\ s18 = 0 /\ s19 = 0
           \/ part = "sseFault" /\ Sf!SseInit /\ s10 = 0 /\ s11 = 0 /\ s12 = 0 /\ s13 = 0 /\ s14 = 0 /\ s15 = 0 /\ s16 = 0 /\ s17 = 0 /\ s18 = 0 /\ s19 = 0
           \/ part = "turns" /\ Tn!TurnsInit /\ s14 = 0 /\ s15 = 0 /\ s16 = 0 /\ s17 = 0 /\ s18 = 0 /\ s19 = 0
           \/ part = "store" /\ St!StoreInit /\ s10 = 0 /\ s11 = 0 /\ s12 = 0 /\ s13 = 0 /\ s14 = 0 /\ s15 = 0 /\ s16 = 0 /\ s17 = 0 /\ s18 = 0 /\ s19 = 0
           \/ part = "output" /\ Jo!OutputInit /\ s15 = 0 /\ s16 = 0 /\ s17 = 0 /\ s18 = 0 /\ s19 = 0
           \/ part = "torn" /\ Jt!OutputInit /\ s15 = 0 /\ s16 = 0 /\ s17 = 0 /\ s18 = 0 /\ s19 = 0
           \/ part = "jobs" /\ Ej!JobsInit /\ s11 = 0 /\ s12 = 0 /\ s13 = 0 /\ s14 = 0 /\ s15 = 0 /\ s16 = 0 /\ s17 = 0 /\ s18 = 0 /\ s19 = 0
           \/ part = "oneJob" /\ Ek!JobsInit /\ s11 = 0 /\ s12 = 0 /\ s13 = 0 /\ s14 = 0 /\ s15 = 0 /\ s16 = 0 /\ s17 = 0 /\ s18 = 0 /\ s19 = 0
           \/ part = "tools" /\ Tt!TurnInit /\ s17 = 0 /\ s18 = 0 /\ s19 = 0
           \/ part = "twins" /\ Tw!TurnApproved /\ s17 = 0 /\ s18 = 0 /\ s19 = 0
           \/ part = "asking" /\ Ta!TurnInit /\ s17 = 0 /\ s18 = 0 /\ s19 = 0
           \/ part = "denied" /\ Td!TurnInit /\ s17 = 0 /\ s18 = 0 /\ s19 = 0
           \/ part = "review" /\ Rv!ReviewInit /\ s18 = 0 /\ s19 = 0
           \/ part = "reviewJobs" /\ Rj!ReviewInit /\ s18 = 0 /\ s19 = 0
           \/ part = "reviewFault" /\ Rf!ReviewInit /\ s18 = 0 /\ s19 = 0
           \/ part = "a2a" /\ At!A2aInit /\ s9 = 0 /\ s10 = 0 /\ s11 = 0 /\ s12 = 0 /\ s13 = 0 /\ s14 = 0 /\ s15 = 0 /\ s16 = 0 /\ s17 = 0 /\ s18 = 0 /\ s19 = 0
           \/ part = "a2aTwice" /\ Ao!A2aInit /\ s9 = 0 /\ s10 = 0 /\ s11 = 0 /\ s12 = 0 /\ s13 = 0 /\ s14 = 0 /\ s15 = 0 /\ s16 = 0 /\ s17 = 0 /\ s18 = 0 /\ s19 = 0
           \/ part = "a2aKeys" /\ Ak!A2aInit /\ s9 = 0 /\ s10 = 0 /\ s11 = 0 /\ s12 = 0 /\ s13 = 0 /\ s14 = 0 /\ s15 = 0 /\ s16 = 0 /\ s17 = 0 /\ s18 = 0 /\ s19 = 0
           \/ part = "a2aStream" /\ As!A2aStreamInit /\ s10 = 0 /\ s11 = 0 /\ s12 = 0 /\ s13 = 0 /\ s14 = 0 /\ s15 = 0 /\ s16 = 0 /\ s17 = 0 /\ s18 = 0 /\ s19 = 0
           \/ part = "a2aResumed" /\ Ar!A2aStreamInit /\ s10 = 0 /\ s11 = 0 /\ s12 = 0 /\ s13 = 0 /\ s14 = 0 /\ s15 = 0 /\ s16 = 0 /\ s17 = 0 /\ s18 = 0 /\ s19 = 0
           \/ part = "a2aFault" /\ Af!A2aStreamInit /\ s10 = 0 /\ s11 = 0 /\ s12 = 0 /\ s13 = 0 /\ s14 = 0 /\ s15 = 0 /\ s16 = 0 /\ s17 = 0 /\ s18 = 0 /\ s19 = 0
           \/ part = "accounts" /\ Ac!AccountsInit /\ s8 = 0 /\ s9 = 0 /\ s10 = 0 /\ s11 = 0 /\ s12 = 0 /\ s13 = 0 /\ s14 = 0 /\ s15 = 0 /\ s16 = 0 /\ s17 = 0 /\ s18 = 0 /\ s19 = 0
           \/ part = "logouts" /\ Al!AccountsInit /\ s8 = 0 /\ s9 = 0 /\ s10 = 0 /\ s11 = 0 /\ s12 = 0 /\ s13 = 0 /\ s14 = 0 /\ s15 = 0 /\ s16 = 0 /\ s17 = 0 /\ s18 = 0 /\ s19 = 0
           \/ part = "members" /\ Mb!MembersInit /\ s9 = 0 /\ s10 = 0 /\ s11 = 0 /\ s12 = 0 /\ s13 = 0 /\ s14 = 0 /\ s15 = 0 /\ s16 = 0 /\ s17 = 0 /\ s18 = 0 /\ s19 = 0
           \/ part = "profile" /\ Mp!MembersInit /\ s9 = 0 /\ s10 = 0 /\ s11 = 0 /\ s12 = 0 /\ s13 = 0 /\ s14 = 0 /\ s15 = 0 /\ s16 = 0 /\ s17 = 0 /\ s18 = 0 /\ s19 = 0
           \/ part = "login" /\ Bl!BrowserLoginInit /\ s13 = 0 /\ s14 = 0 /\ s15 = 0 /\ s16 = 0 /\ s17 = 0 /\ s18 = 0 /\ s19 = 0
           \/ part = "loginOverlap" /\ Bo!BrowserLoginInit /\ s13 = 0 /\ s14 = 0 /\ s15 = 0 /\ s16 = 0 /\ s17 = 0 /\ s18 = 0 /\ s19 = 0
           \/ part = "catalogKeys" /\ Ck!CatalogInit /\ s6 = 0 /\ s7 = 0 /\ s8 = 0 /\ s9 = 0 /\ s10 = 0 /\ s11 = 0 /\ s12 = 0 /\ s13 = 0 /\ s14 = 0 /\ s15 = 0 /\ s16 = 0 /\ s17 = 0 /\ s18 = 0 /\ s19 = 0
           \/ part = "catalogCreds" /\ Cr!CatalogInit /\ s6 = 0 /\ s7 = 0 /\ s8 = 0 /\ s9 = 0 /\ s10 = 0 /\ s11 = 0 /\ s12 = 0 /\ s13 = 0 /\ s14 = 0 /\ s15 = 0 /\ s16 = 0 /\ s17 = 0 /\ s18 = 0 /\ s19 = 0
           \/ part = "editor" /\ Ed!EditorInit /\ s15 = 0 /\ s16 = 0 /\ s17 = 0 /\ s18 = 0 /\ s19 = 0
           \/ part = "editorHurried" /\ En!EditorInit /\ s15 = 0 /\ s16 = 0 /\ s17 = 0 /\ s18 = 0 /\ s19 = 0
           \/ part = "editorWrites" /\ Ew!EditorInit /\ s15 = 0 /\ s16 = 0 /\ s17 = 0 /\ s18 = 0 /\ s19 = 0
           \/ part = "migrations" /\ Mg!MigrationsInit /\ s8 = 0 /\ s9 = 0 /\ s10 = 0 /\ s11 = 0 /\ s12 = 0 /\ s13 = 0 /\ s14 = 0 /\ s15 = 0 /\ s16 = 0 /\ s17 = 0 /\ s18 = 0 /\ s19 = 0
           \/ part = "migrationsCrash" /\ Mc!MigrationsInit /\ s8 = 0 /\ s9 = 0 /\ s10 = 0 /\ s11 = 0 /\ s12 = 0 /\ s13 = 0 /\ s14 = 0 /\ s15 = 0 /\ s16 = 0 /\ s17 = 0 /\ s18 = 0 /\ s19 = 0
           \/ part = "riskMcp" /\ Tm!RiskInit /\ s8 = 0 /\ s9 = 0 /\ s10 = 0 /\ s11 = 0 /\ s12 = 0 /\ s13 = 0 /\ s14 = 0 /\ s15 = 0 /\ s16 = 0 /\ s17 = 0 /\ s18 = 0 /\ s19 = 0
           \/ part = "riskVersion" /\ Tv!RiskInit /\ s8 = 0 /\ s9 = 0 /\ s10 = 0 /\ s11 = 0 /\ s12 = 0 /\ s13 = 0 /\ s14 = 0 /\ s15 = 0 /\ s16 = 0 /\ s17 = 0 /\ s18 = 0 /\ s19 = 0
           \/ part = "orgSkills" /\ Os!Init /\ s16 = 0 /\ s17 = 0 /\ s18 = 0 /\ s19 = 0
           \/ part = "orgRaces" /\ Or!Init /\ s16 = 0 /\ s17 = 0 /\ s18 = 0 /\ s19 = 0
           \/ part = "orgCollect" /\ Oc!Init /\ s16 = 0 /\ s17 = 0 /\ s18 = 0 /\ s19 = 0
           \/ part = "orgFaults" /\ Of!Init /\ s16 = 0 /\ s17 = 0 /\ s18 = 0 /\ s19 = 0
           \/ part = "userSkills" /\ Us!Init /\ s12 = 0 /\ s13 = 0 /\ s14 = 0 /\ s15 = 0 /\ s16 = 0 /\ s17 = 0 /\ s18 = 0 /\ s19 = 0
           \/ part = "userUploads" /\ Uu!Init /\ s12 = 0 /\ s13 = 0 /\ s14 = 0 /\ s15 = 0 /\ s16 = 0 /\ s17 = 0 /\ s18 = 0 /\ s19 = 0
           \/ part = "runSkills" /\ Rs!Init /\ s12 = 0 /\ s13 = 0 /\ s14 = 0 /\ s15 = 0 /\ s16 = 0 /\ s17 = 0 /\ s18 = 0 /\ s19 = 0
           \/ part = "cronTwo" /\ Co!Init /\ s9 = 0 /\ s10 = 0 /\ s11 = 0 /\ s12 = 0 /\ s13 = 0 /\ s14 = 0 /\ s15 = 0 /\ s16 = 0 /\ s17 = 0 /\ s18 = 0 /\ s19 = 0
           \/ part = "cronMoved" /\ Cm!Init /\ s9 = 0 /\ s10 = 0 /\ s11 = 0 /\ s12 = 0 /\ s13 = 0 /\ s14 = 0 /\ s15 = 0 /\ s16 = 0 /\ s17 = 0 /\ s18 = 0 /\ s19 = 0
           \/ part = "cronTime" /\ Ct!Init /\ s5 = 0 /\ s6 = 0 /\ s7 = 0 /\ s8 = 0 /\ s9 = 0 /\ s10 = 0 /\ s11 = 0 /\ s12 = 0 /\ s13 = 0 /\ s14 = 0 /\ s15 = 0 /\ s16 = 0 /\ s17 = 0 /\ s18 = 0 /\ s19 = 0
           \/ part = "cronShifted" /\ Cz!Init /\ s5 = 0 /\ s6 = 0 /\ s7 = 0 /\ s8 = 0 /\ s9 = 0 /\ s10 = 0 /\ s11 = 0 /\ s12 = 0 /\ s13 = 0 /\ s14 = 0 /\ s15 = 0 /\ s16 = 0 /\ s17 = 0 /\ s18 = 0 /\ s19 = 0
           \/ part = "chat" /\ Cs!Init /\ s11 = 0 /\ s12 = 0 /\ s13 = 0 /\ s14 = 0 /\ s15 = 0 /\ s16 = 0 /\ s17 = 0 /\ s18 = 0 /\ s19 = 0
           \/ part = "chatApproval" /\ Ca!Init /\ s11 = 0 /\ s12 = 0 /\ s13 = 0 /\ s14 = 0 /\ s15 = 0 /\ s16 = 0 /\ s17 = 0 /\ s18 = 0 /\ s19 = 0
           \/ part = "chatReload" /\ Cd!Init /\ s11 = 0 /\ s12 = 0 /\ s13 = 0 /\ s14 = 0 /\ s15 = 0 /\ s16 = 0 /\ s17 = 0 /\ s18 = 0 /\ s19 = 0
           \/ part = "chatFaults" /\ Cf!Init /\ s11 = 0 /\ s12 = 0 /\ s13 = 0 /\ s14 = 0 /\ s15 = 0 /\ s16 = 0 /\ s17 = 0 /\ s18 = 0 /\ s19 = 0
           \/ part = "chatLocal" /\ Cl!Init /\ s11 = 0 /\ s12 = 0 /\ s13 = 0 /\ s14 = 0 /\ s15 = 0 /\ s16 = 0 /\ s17 = 0 /\ s18 = 0 /\ s19 = 0
           \/ part = "chatDrops" /\ Cb!Init /\ s11 = 0 /\ s12 = 0 /\ s13 = 0 /\ s14 = 0 /\ s15 = 0 /\ s16 = 0 /\ s17 = 0 /\ s18 = 0 /\ s19 = 0
           \/ part = "uploads" /\ Up!Init /\ s18 = 0 /\ s19 = 0
           \/ part = "uploadFaults" /\ Uf!Init /\ s18 = 0 /\ s19 = 0
           \/ part = "publicUpload" /\ Uo!Init /\ s18 = 0 /\ s19 = 0
           \/ part = "mcp" /\ Mx!Init
           \/ part = "mcpFaults" /\ Mf!Init
           \/ part = "mcpLinks" /\ Ml!Init
           \/ part = "search" /\ Fs!Init /\ s16 = 0 /\ s17 = 0 /\ s18 = 0 /\ s19 = 0
           \/ part = "searchChanges" /\ Fc!Init /\ s16 = 0 /\ s17 = 0 /\ s18 = 0 /\ s19 = 0
           \/ part = "pages" /\ Tp!Init /\ s16 = 0 /\ s17 = 0 /\ s18 = 0 /\ s19 = 0
           \/ part = "longLines" /\ Tl!Init /\ s16 = 0 /\ s17 = 0 /\ s18 = 0 /\ s19 = 0
           \/ part = "paths" /\ Fp!Init /\ s10 = 0 /\ s11 = 0 /\ s12 = 0 /\ s13 = 0 /\ s14 = 0 /\ s15 = 0 /\ s16 = 0 /\ s17 = 0 /\ s18 = 0 /\ s19 = 0
           \/ part = "oddPaths" /\ Fo!Init /\ s10 = 0 /\ s11 = 0 /\ s12 = 0 /\ s13 = 0 /\ s14 = 0 /\ s15 = 0 /\ s16 = 0 /\ s17 = 0 /\ s18 = 0 /\ s19 = 0
           \/ part = "gateway" /\ Gw!Init /\ s19 = 0
           \/ part = "routes" /\ Gs!Init /\ s19 = 0
           \/ part = "failover" /\ Fk!ConnectionsInit /\ s17 = 0 /\ s18 = 0 /\ s19 = 0
           \/ part = "failoverPool" /\ Fl!ConnectionsInit /\ s17 = 0 /\ s18 = 0 /\ s19 = 0
           \/ part = "credentials" /\ Fd!ConnectionsInit /\ s17 = 0 /\ s18 = 0 /\ s19 = 0
           \/ part = "redisGuard" /\ Fg!ConnectionsInit /\ s17 = 0 /\ s18 = 0 /\ s19 = 0
           \/ part = "subagents" /\ Sg!SubagentInit /\ s10 = 0 /\ s11 = 0 /\ s12 = 0 /\ s13 = 0 /\ s14 = 0 /\ s15 = 0 /\ s16 = 0 /\ s17 = 0 /\ s18 = 0 /\ s19 = 0
           \/ part = "siblings" /\ Sh!SubagentInit /\ s10 = 0 /\ s11 = 0 /\ s12 = 0 /\ s13 = 0 /\ s14 = 0 /\ s15 = 0 /\ s16 = 0 /\ s17 = 0 /\ s18 = 0 /\ s19 = 0
           \/ part = "steering" /\ Se!SteeringInit /\ s9 = 0 /\ s10 = 0 /\ s11 = 0 /\ s12 = 0 /\ s13 = 0 /\ s14 = 0 /\ s15 = 0 /\ s16 = 0 /\ s17 = 0 /\ s18 = 0 /\ s19 = 0
           \/ part = "process" /\ Wp!ProcessInit /\ s14 = 0 /\ s15 = 0 /\ s16 = 0 /\ s17 = 0 /\ s18 = 0 /\ s19 = 0
           \/ part = "processLayers" /\ Wl!ProcessInit /\ s14 = 0 /\ s15 = 0 /\ s16 = 0 /\ s17 = 0 /\ s18 = 0 /\ s19 = 0
           \/ part = "notices" /\ Nt!NoticesInit /\ s16 = 0 /\ s17 = 0 /\ s18 = 0 /\ s19 = 0
           \/ part = "noticeKinds" /\ Nk!NoticesInit /\ s16 = 0 /\ s17 = 0 /\ s18 = 0 /\ s19 = 0
           \/ part = "spans" /\ Sp!TraceInit /\ s10 = 0 /\ s11 = 0 /\ s12 = 0 /\ s13 = 0 /\ s14 = 0 /\ s15 = 0 /\ s16 = 0 /\ s17 = 0 /\ s18 = 0 /\ s19 = 0
           \/ part = "spansModel" /\ Sm!TraceInit /\ s10 = 0 /\ s11 = 0 /\ s12 = 0 /\ s13 = 0 /\ s14 = 0 /\ s15 = 0 /\ s16 = 0 /\ s17 = 0 /\ s18 = 0 /\ s19 = 0
           \/ part = "spansReaders" /\ Sr!TraceInit /\ s10 = 0 /\ s11 = 0 /\ s12 = 0 /\ s13 = 0 /\ s14 = 0 /\ s15 = 0 /\ s16 = 0 /\ s17 = 0 /\ s18 = 0 /\ s19 = 0

SseNext == part = "sse" /\ Sse!SseNext /\ UNCHANGED <<part, Past9>>
SfNext == part = "sseFault" /\ Sf!SseNext /\ UNCHANGED <<part, Past9>>
TnNext == part = "turns" /\ Tn!TurnsNext /\ UNCHANGED <<part, Past13>>
StNext == part = "store" /\ St!StoreNext /\ UNCHANGED <<part, Past9>>
JoNext == part = "output" /\ Jo!OutputNext /\ UNCHANGED <<part, Past14>>
JtNext == part = "torn" /\ Jt!OutputNext /\ UNCHANGED <<part, Past14>>
EjNext == part = "jobs" /\ Ej!JobsNext /\ UNCHANGED <<part, Past10>>
EkNext == part = "oneJob" /\ Ek!JobsNext /\ UNCHANGED <<part, Past10>>
TtNext == part = "tools" /\ Tt!TurnNext /\ UNCHANGED <<part, Past16>>
TwNext == part = "twins" /\ Tw!TurnNext /\ UNCHANGED <<part, Past16>>
TaNext == part = "asking" /\ Ta!TurnNext /\ UNCHANGED <<part, Past16>>
TdNext == part = "denied" /\ Td!TurnNext /\ UNCHANGED <<part, Past16>>
RvNext == part = "review" /\ Rv!ReviewNext /\ UNCHANGED <<part, Past17>>
RjNext == part = "reviewJobs" /\ Rj!ReviewNext /\ UNCHANGED <<part, Past17>>
RfNext == part = "reviewFault" /\ Rf!ReviewNext /\ UNCHANGED <<part, Past17>>
AtNext == part = "a2a" /\ At!A2aNext /\ UNCHANGED <<part, Past8>>
AoNext == part = "a2aTwice" /\ Ao!A2aNext /\ UNCHANGED <<part, Past8>>
AkNext == part = "a2aKeys" /\ Ak!A2aNext /\ UNCHANGED <<part, Past8>>
AsNext == part = "a2aStream" /\ As!A2aStreamNext /\ UNCHANGED <<part, Past9>>
ArNext == part = "a2aResumed" /\ Ar!A2aStreamNext /\ UNCHANGED <<part, Past9>>
AfNext == part = "a2aFault" /\ Af!A2aStreamNext /\ UNCHANGED <<part, Past9>>
AcNext == part = "accounts" /\ Ac!AccountsNext /\ UNCHANGED <<part, Past7>>
AlNext == part = "logouts" /\ Al!AccountsNext /\ UNCHANGED <<part, Past7>>
MbNext == part = "members" /\ Mb!MembersNext /\ UNCHANGED <<part, Past8>>
MpNext == part = "profile" /\ Mp!MembersNext /\ UNCHANGED <<part, Past8>>
BlNext == part = "login" /\ Bl!BrowserLoginNext /\ UNCHANGED <<part, Past12>>
BoNext == part = "loginOverlap" /\ Bo!BrowserLoginNext /\ UNCHANGED <<part, Past12>>
CkNext == part = "catalogKeys" /\ Ck!CatalogNext /\ UNCHANGED <<part, Past5>>
CrNext == part = "catalogCreds" /\ Cr!CatalogNext /\ UNCHANGED <<part, Past5>>
EdNext == part = "editor" /\ Ed!EditorNext /\ UNCHANGED <<part, Past14>>
EnNext == part = "editorHurried" /\ En!EditorNext /\ UNCHANGED <<part, Past14>>
EwNext == part = "editorWrites" /\ Ew!EditorNext /\ UNCHANGED <<part, Past14>>
MgNext == part = "migrations" /\ Mg!MigrationsNext /\ UNCHANGED <<part, Past7>>
McNext == part = "migrationsCrash" /\ Mc!MigrationsNext /\ UNCHANGED <<part, Past7>>
TmNext == part = "riskMcp" /\ Tm!RiskNext /\ UNCHANGED <<part, Past7>>
TvNext == part = "riskVersion" /\ Tv!RiskNext /\ UNCHANGED <<part, Past7>>
OsNext == part = "orgSkills" /\ Os!Next /\ UNCHANGED <<part, Past15>>
OrNext == part = "orgRaces" /\ Or!Next /\ UNCHANGED <<part, Past15>>
OcNext == part = "orgCollect" /\ Oc!Next /\ UNCHANGED <<part, Past15>>
OfNext == part = "orgFaults" /\ Of!Next /\ UNCHANGED <<part, Past15>>
UsNext == part = "userSkills" /\ Us!Next /\ UNCHANGED <<part, Past11>>
UuNext == part = "userUploads" /\ Uu!Next /\ UNCHANGED <<part, Past11>>
RsNext == part = "runSkills" /\ Rs!Next /\ UNCHANGED <<part, Past11>>
CoNext == part = "cronTwo" /\ Co!Next /\ UNCHANGED <<part, Past8>>
CmNext == part = "cronMoved" /\ Cm!Next /\ UNCHANGED <<part, Past8>>
CtNext == part = "cronTime" /\ Ct!Next /\ UNCHANGED <<part, Past4>>
CzNext == part = "cronShifted" /\ Cz!Next /\ UNCHANGED <<part, Past4>>
CsNext == part = "chat" /\ Cs!Next /\ UNCHANGED <<part, Past10>>
CaNext == part = "chatApproval" /\ Ca!Next /\ UNCHANGED <<part, Past10>>
CdNext == part = "chatReload" /\ Cd!Next /\ UNCHANGED <<part, Past10>>
CfNext == part = "chatFaults" /\ Cf!Next /\ UNCHANGED <<part, Past10>>
ClNext == part = "chatLocal" /\ Cl!Next /\ UNCHANGED <<part, Past10>>
CbNext == part = "chatDrops" /\ Cb!Next /\ UNCHANGED <<part, Past10>>
UpNext == part = "uploads" /\ Up!Next /\ UNCHANGED <<part, Past17>>
UfNext == part = "uploadFaults" /\ Uf!Next /\ UNCHANGED <<part, Past17>>
UoNext == part = "publicUpload" /\ Uo!Next /\ UNCHANGED <<part, Past17>>
MxNext == part = "mcp" /\ Mx!Next /\ UNCHANGED <<part, vars, catalogVars, riskVars, rpcVars>>
MfNext == part = "mcpFaults" /\ Mf!Next /\ UNCHANGED <<part, vars, catalogVars, riskVars, rpcVars>>
MlNext == part = "mcpLinks" /\ Ml!Next /\ UNCHANGED <<part, vars, catalogVars, riskVars, rpcVars>>
FsNext == part = "search" /\ Fs!Next /\ UNCHANGED <<part, Past15>>
FcNext == part = "searchChanges" /\ Fc!Next /\ UNCHANGED <<part, Past15>>
TpNext == part = "pages" /\ Tp!Next /\ UNCHANGED <<part, Past15>>
TlNext == part = "longLines" /\ Tl!Next /\ UNCHANGED <<part, Past15>>
FpNext == part = "paths" /\ Fp!Next /\ UNCHANGED <<part, Past9>>
FoNext == part = "oddPaths" /\ Fo!Next /\ UNCHANGED <<part, Past9>>
GwNext == part = "gateway" /\ Gw!Next /\ UNCHANGED <<part, Past18>>
GsNext == part = "routes" /\ Gs!Next /\ UNCHANGED <<part, Past18>>
FkNext == part = "failover" /\ Fk!ConnectionsNext /\ UNCHANGED <<part, Past16>>
FlNext == part = "failoverPool" /\ Fl!ConnectionsNext /\ UNCHANGED <<part, Past16>>
FdNext == part = "credentials" /\ Fd!ConnectionsNext /\ UNCHANGED <<part, Past16>>
FgNext == part = "redisGuard" /\ Fg!ConnectionsNext /\ UNCHANGED <<part, Past16>>
SgNext == part = "subagents" /\ Sg!SubagentNext /\ UNCHANGED <<part, Past9>>
ShNext == part = "siblings" /\ Sh!SubagentNext /\ UNCHANGED <<part, Past9>>
SeNext == part = "steering" /\ Se!SteeringNext /\ UNCHANGED <<part, Past8>>
WpNext == part = "process" /\ Wp!ProcessNext /\ UNCHANGED <<part, Past13>>
WlNext == part = "processLayers" /\ Wl!ProcessNext /\ UNCHANGED <<part, Past13>>
NtNext == part = "notices" /\ Nt!NoticesNext /\ UNCHANGED <<part, Past15>>
NkNext == part = "noticeKinds" /\ Nk!NoticesNext /\ UNCHANGED <<part, Past15>>
SpNext == part = "spans" /\ Sp!TraceNext /\ UNCHANGED <<part, Past9>>
SmNext == part = "spansModel" /\ Sm!TraceNext /\ UNCHANGED <<part, Past9>>
SrNext == part = "spansReaders" /\ Sr!TraceNext /\ UNCHANGED <<part, Past9>>
Scheduling == part = "scheduling" /\ Next /\ UNCHANGED <<part, shared, catalogVars, riskVars, rpcVars>>
Versioning == part = "versioning" /\ CatalogNext /\ UNCHANGED <<part, shared, vars, riskVars, rpcVars>>
Deciding == part = "deciding" /\ RiskNext /\ UNCHANGED <<part, shared, vars, catalogVars, rpcVars>>
Calling == part = "calling" /\ RpcNext /\ UNCHANGED <<part, shared, vars, catalogVars, riskVars>>

PartsNext ==
  \/ Scheduling \/ Versioning \/ Deciding \/ Calling
  \/ /\ part \in {"sse", "sseFault", "turns", "store", "output", "torn",
                "jobs", "oneJob"}
     /\ SseNext \/ SfNext \/ TnNext \/ StNext \/ JoNext \/ JtNext \/ EjNext \/ EkNext
  \/ /\ part \in {"tools", "twins", "asking", "denied", "review",
                "reviewJobs", "reviewFault", "a2a"}
     /\ TtNext \/ TwNext \/ TaNext \/ TdNext \/ RvNext \/ RjNext \/ RfNext \/ AtNext
  \/ /\ part \in {"a2aTwice", "a2aKeys", "a2aStream", "a2aResumed",
                "a2aFault", "accounts", "logouts", "members"}
     /\ AoNext \/ AkNext \/ AsNext \/ ArNext \/ AfNext \/ AcNext \/ AlNext \/ MbNext
  \/ /\ part \in {"profile", "login", "loginOverlap", "catalogKeys",
                "catalogCreds", "editor", "editorHurried", "editorWrites"}
     /\ MpNext \/ BlNext \/ BoNext \/ CkNext \/ CrNext \/ EdNext \/ EnNext \/ EwNext
  \/ /\ part \in {"migrations", "migrationsCrash", "riskMcp",
                "riskVersion", "orgSkills", "orgRaces", "orgCollect",
                "orgFaults"}
     /\ MgNext \/ McNext \/ TmNext \/ TvNext \/ OsNext \/ OrNext \/ OcNext \/ OfNext
  \/ /\ part \in {"userSkills", "userUploads", "runSkills", "cronTwo",
                "cronMoved", "cronTime", "cronShifted", "chat"}
     /\ UsNext \/ UuNext \/ RsNext \/ CoNext \/ CmNext \/ CtNext \/ CzNext \/ CsNext
  \/ /\ part \in {"chatApproval", "chatReload", "chatFaults", "chatLocal",
                "chatDrops", "uploads", "uploadFaults", "publicUpload"}
     /\ CaNext \/ CdNext \/ CfNext \/ ClNext \/ CbNext \/ UpNext \/ UfNext \/ UoNext
  \/ /\ part \in {"mcp", "mcpFaults", "mcpLinks", "search",
                "searchChanges", "pages", "longLines", "paths"}
     /\ MxNext \/ MfNext \/ MlNext \/ FsNext \/ FcNext \/ TpNext \/ TlNext \/ FpNext
  \/ /\ part \in {"oddPaths", "gateway", "routes", "failover",
                "failoverPool", "credentials", "redisGuard", "subagents"}
     /\ FoNext \/ GwNext \/ GsNext \/ FkNext \/ FlNext \/ FdNext \/ FgNext \/ SgNext
  \/ /\ part \in {"siblings", "steering", "process", "processLayers",
                "notices", "noticeKinds", "spans", "spansModel"}
     /\ ShNext \/ SeNext \/ WpNext \/ WlNext \/ NtNext \/ NkNext \/ SpNext \/ SmNext
  \/ /\ part \in {"spansReaders"}
     /\ SrNext

PartsSpec == PartsInit /\ [][PartsNext]_partsVars

----------------------------------------------------------------------------
\* The variables of the component that runs are of its types, in one instance of
\* each component.
PartsTypeOK ==
  /\ part \in {"scheduling", "versioning", "deciding", "calling",
              "sseFault", "turns", "store", "torn"} =>
       /\ part = "scheduling" => TypeOK
       /\ part = "versioning" => CatalogTypeOK
       /\ part = "deciding" => RiskTypeOK
       /\ part = "calling" => RpcTypeOK
       /\ part = "sseFault" => Sf!SseTypeOK
       /\ part = "turns" => Tn!TurnsTypeOK
       /\ part = "store" => St!StoreTypeOK
       /\ part = "torn" => Jt!OutputTypeOK
  /\ part \in {"oneJob", "denied", "reviewJobs", "a2a", "a2aResumed",
              "accounts", "profile", "loginOverlap"} =>
       /\ part = "oneJob" => Ek!JobsTypeOK
       /\ part = "denied" => Td!TurnTypeOK
       /\ part = "reviewJobs" => Rj!ReviewTypeOK
       /\ part = "a2a" => At!A2aTypeOK
       /\ part = "a2aResumed" => Ar!A2aStreamTypeOK
       /\ part = "accounts" => Ac!AccountsTypeOK
       /\ part = "profile" => Mp!MembersTypeOK
       /\ part = "loginOverlap" => Bo!BrowserLoginTypeOK
  /\ part \in {"editorHurried", "orgFaults", "userSkills", "runSkills",
              "chatLocal", "publicUpload", "mcpFaults", "searchChanges"} =>
       /\ part = "editorHurried" => En!EditorTypeOK
       /\ part = "orgFaults" => Of!TypeOK
       /\ part = "userSkills" => Us!TypeOK
       /\ part = "runSkills" => Rs!TypeOK
       /\ part = "chatLocal" => Cl!TypeOK
       /\ part = "publicUpload" => Uo!TypeOK
       /\ part = "mcpFaults" => Mf!TypeOK
       /\ part = "searchChanges" => Fc!TypeOK
  /\ part \in {"longLines", "oddPaths", "routes", "credentials",
              "subagents", "steering", "process", "notices"} =>
       /\ part = "longLines" => Tl!TypeOK
       /\ part = "oddPaths" => Fo!TypeOK
       /\ part = "routes" => Gs!TypeOK
       /\ part = "credentials" => Fd!TypeOK
       /\ part = "subagents" => Sg!SubagentTypeOK
       /\ part = "steering" => Se!SteeringTypeOK
       /\ part = "process" => Wp!ProcessTypeOK
       /\ part = "notices" => Nt!NoticesTypeOK
  /\ part \in {"spans"} =>
       /\ part = "spans" => Sp!TraceTypeOK

\* A reader of the events of a run, the browser through SSE or an A2A client,
\* gets them in order, each once and none left out, and is told the end only
\* after the last of them (an A2A client that resumes behind the last status
\* of a run that is over may be told with an earlier message), whatever Redis
\* repeats, reorders or loses and wherever the reader reconnects; and a mail
\* about it goes once to everyone it is for, unless a claim is taken back or
\* a send times out. Its trace skips no event, keeps the outcomes that have
\* no ledger, and shows the others as their rows have them.
EventsDelivered ==
  /\ [](/\ part \in {"sse", "sseFault", "a2aStream", "a2aResumed",
                    "a2aFault", "notices", "noticeKinds", "spans"} =>
             /\ part = "sse" => Sse!WireHasNoGap /\ Sse!EndIsComplete /\ Sse!EndNeverStrands
             /\ part = "sseFault" => Sf!EndIsComplete
             /\ part = "a2aStream" => As!FinalIsLast /\ As!EndsComplete
             /\ part = "a2aResumed" => Ar!FinalIsLast /\ Ar!EndsComplete
             /\ part = "a2aFault" => Af!EndsComplete
             /\ part = "notices" => Nt!OneMail /\ Nt!NobodyForgotten
             /\ part = "noticeKinds" => Nk!NobodyForgotten
             /\ part = "spans" => Sp!WatermarkHonest /\ Sp!ReadRepairs
        /\ part \in {"spansModel", "spansReaders"} =>
             /\ part = "spansModel" => Sm!WatermarkHonest
             /\ part = "spansReaders" => Sr!WatermarkHonest /\ Sr!ReadRepairs)
  /\ [][(part \in {"spans", "spansModel", "spansReaders"} =>
           /\ part = "spans" => Sp!OutcomesStay
           /\ part = "spansModel" => Sm!OutcomesStay
           /\ part = "spansReaders" => Sr!OutcomesStay)]_shared

\* A request makes one run however often it is sent, runs leave the queue of
\* their session in the order they came, and the history of the session
\* survives executors that overlap, stale checkpoints and a damaged snapshot:
\* recovery finds all of it and the snapshots form one chain. A run that
\* spawns runs keeps to its limits, has none born under it once it is to be
\* cancelled, and every run is one the workers serve.
SessionsKeepOrder ==
  /\ [](part \in {"turns", "store", "subagents", "siblings"} =>
          /\ part = "turns" => Tn!OneRunPerRequest
          /\ part = "store" => St!RecoversHistory
          /\ part = "subagents" => Sg!LimitsHeld /\ Sg!ServedDepths
          /\ part = "siblings" => Sh!LimitsHeld)
  /\ [][(part \in {"turns", "store", "subagents", "siblings"} =>
           /\ part = "turns" => Tn!LeavesQueueInOrder
           /\ part = "store" => St!OneChain
           /\ part = "subagents" => Sg!NoChildOfCancelled
           /\ part = "siblings" => Sh!NoChildOfCancelled)]_shared

\* A background job leaves no process, no data-source session and no row
\* behind on any way it can fail, and its reader gets its output in whole
\* characters, with every loss at a limit or in a crash visible, but for a
\* save torn between its two renames while the ring was full; and an
\* execution of a cron job, scheduled or asked for by hand, makes a second
\* run only after the idempotency record of the first has expired, while
\* forbid holds for what the table shows.
JobsAccounted ==
  /\ [](part \in {"jobs", "oneJob", "output", "torn", "cronTwo",
                 "cronMoved"} =>
          /\ part = "jobs" => Ej!NoStrayProcess /\ Ej!NoSessionLeak /\ Ej!ActiveRowsAreLive
          /\ part = "oneJob" => Ek!NoStrayProcess /\ Ek!NoSessionLeak /\ Ek!ActiveRowsAreLive
          /\ part = "output" => Jo!WholeChars /\ Jo!AllOrFlagged
          /\ part = "torn" => Jt!AllOrFlagged /\ Jt!TornIsCorrupt
          /\ part = "cronTwo" => Co!RunsLifeApart
          /\ part = "cronMoved" => Cm!RunsLifeApart)
  /\ [][(part \in {"output", "torn", "cronTwo", "cronMoved"} =>
           /\ part = "output" => Jo!NoSilentGap
           /\ part = "torn" => Jt!NoSilentGap
           /\ part = "cronTwo" => Co!ForbidHolds
           /\ part = "cronMoved" => Cm!ForbidHolds)]_shared

\* What a person is asked binds the run: a call that needs an approval runs
\* after it, the calls that run under one approval were on beside each other
\* in one executor (two identical calls at once share a claim, a later one
\* cannot), a parked run has settled its calls and waits for one thing, what
\* a reviewer releases is what the reviewer saw, told to a run once, and
\* instructions sent to a run reach the agent in their order, none given
\* again once its delivery is recorded. The version of an agent cannot lower
\* the level of a call nor the price the platform puts on that level.
HumanDecisionsHold ==
  /\ [](/\ part \in {"riskMcp", "riskVersion", "tools", "twins", "asking",
                    "denied", "review", "reviewJobs"} =>
             /\ part = "riskMcp" => Tm!RiskTightens
             /\ part = "riskVersion" => Tv!RiskTightens
             /\ part = "tools" => Tt!ApprovedOnce /\ Tt!ParkedIsSettled
             /\ part = "twins" => Tw!ApprovedOnce
             /\ part = "asking" => Ta!HumanGate /\ Ta!OneWait
             /\ part = "denied" => Td!HumanGate
             /\ part = "review" => Rv!ReleasedAsSeen
             /\ part = "reviewJobs" => Rj!ToldOnce
        /\ part \in {"reviewFault", "steering"} =>
             /\ part = "reviewFault" => Rf!ToldOnce
             /\ part = "steering" => Se!GivenInOrder)
  /\ [][/\ part = "steering" => Se!DeliveredWasGiven]_shared

\* One person has one account and a refused login really is a conflict; a
\* logout ends its session; the audit trail tells the roles, an administrator
\* always remains, and the run-complete switch gets on without an address
\* only by a change of the profile that another one overtook. A credential of
\* an agent is replaced once, however many administrators turn it over.
IdentityKept ==
  /\ [](part \in {"catalogCreds", "accounts", "logouts", "members"} =>
          /\ part = "catalogCreds" => Cr!RotatedOnce
          /\ part = "accounts" => Ac!OneAccountEach
          /\ part = "logouts" => Al!LogoutEnds
          /\ part = "members" => Mb!EventsTell)
  /\ [][(part \in {"accounts", "members", "profile"} =>
           /\ part = "accounts" => Ac!ConflictIsReal
           /\ part = "members" => Mb!AdminRemains
           /\ part = "profile" => Mp!NotifyHasEmail)]_shared

\* The browser shows the person whose cookie it holds and that person's data
\* only, whatever order the answers of logins, logouts and session checks
\* arrive in, unless a refused check made the page drop the answer of a login
\* or logout, and a logout is not silently undone.
BrowserShowsItsLogin ==
  /\ [](/\ part = "login" => Bl!ShownIsCookie /\ Bl!DataIsOfShown
        /\ part = "loginOverlap" => Bo!ShownIsCookie /\ Bo!DataIsOfShown)
  /\ [][/\ part = "login" => Bl!SilentLogoutEnds
        /\ part = "loginOverlap" => Bo!SilentLogoutEnds]_shared

\* A migration that fails half way is cleaned up against its foreign keys and
\* can be run again, a crash drops no table that was in use, and all 42 can
\* be rolled back and applied in order.
MigrationsSafe ==
  /\ [](/\ part = "migrations" => Mg!NothingRefused /\ Mg!LeftoversHarmless)
  /\ [][/\ part = "migrationsCrash" => Mc!KeepsTables]_shared

\* A skill an organisation shares has the consent of its author, and its
\* bytes unless another administrator's collection raced its publication; an
\* approval is published unless its publisher died or could not undo it, a
\* loss to a collector that lives is reported, an enabled version is the
\* published one with its digest, a draft survives its replacement but for a
\* crash between the two renames, and a run mounts what its policy showed.
SkillsKept ==
  /\ [](part \in {"orgSkills", "orgRaces", "orgFaults", "orgCollect",
                 "userSkills", "userUploads"} =>
          /\ part = "orgSkills" => Os!ConsentStands /\ Os!ApprovedIsPublished
          /\ part = "orgRaces" => Or!ConsentStands /\ Or!ApprovedIsPublished
          /\ part = "orgFaults" => Of!ConsentStands /\ Of!ApprovedIsPublished /\ Of!LossIsReported /\ Of!BindableHasBytes
          /\ part = "orgCollect" => Oc!LossIsReported /\ Oc!BindableHasBytes
          /\ part = "userSkills" => Us!EnabledIsPublished /\ Us!PublishedIsItsDigest /\ Us!DraftSurvives
          /\ part = "userUploads" => Uu!DraftSurvives)
  /\ [][/\ part = "runSkills" => Rs!NothingDropped /\ Rs!SeenIsMounted]_shared

\* The chat shows every event of its run exactly once however many deliveries
\* overlap, but for the events whose numbers the client took for its own, its
\* cursor goes back only where a store held over an await is written back,
\* nothing of an account is written after its reset, and a restore does not
\* take the focus from what the user opened.
ChatIsTheRun ==
  /\ [](part \in {"chat", "chatApproval", "chatReload", "chatFaults",
                 "chatLocal", "chatDrops"} =>
          /\ part = "chat" => Cs!ExactlyOnce
          /\ part = "chatApproval" => Ca!ExactlyOnce
          /\ part = "chatReload" => Cd!ExactlyOnce
          /\ part = "chatFaults" => Cf!ExactlyOnce
          /\ part = "chatLocal" => Cl!ExactlyOnce
          /\ part = "chatDrops" => Cb!ExactlyOnce)
  /\ [][(part \in {"chat", "chatApproval", "chatReload", "chatFaults",
                  "chatLocal", "chatDrops"} =>
           /\ part = "chat" => Cs!CursorNeverBack /\ Cs!NothingAfterReset /\ Cs!FocusKept
           /\ part = "chatApproval" => Ca!CursorNeverBack
           /\ part = "chatReload" => Cd!CursorNeverBack
           /\ part = "chatFaults" => Cf!CursorNeverBack /\ Cf!NothingAfterReset
           /\ part = "chatLocal" => Cl!CursorNeverBack
           /\ part = "chatDrops" => Cb!CursorNeverBack)]_shared

\* Uploads stay within the quota, make one dataset per key and are ready only
\* when whole; the workspace of an MCP context keeps what was written, is not
\* collected while its mark is young nor left without one that a collector
\* finds, unless it was marked between the look of a collector and the end of
\* its removal, and its links work.
WorkspacesKept ==
  /\ [](part \in {"uploads", "uploadFaults", "mcp", "mcpLinks",
                 "mcpFaults"} =>
          /\ part = "uploads" => Up!QuotaHeld /\ Up!OneDatasetPerKey /\ Up!ReadyIsWhole
          /\ part = "uploadFaults" => Uf!QuotaHeld /\ Uf!OneDatasetPerKey
          /\ part = "mcp" => Mx!WritesKept /\ Mx!Reclaimable
          /\ part = "mcpLinks" => Ml!WritesKept /\ Ml!LinkWorks
          /\ part = "mcpFaults" => Mf!Reclaimable)
  /\ [][/\ part = "mcp" => Mx!ActiveKept
        /\ part = "mcpFaults" => Mf!ActiveKept]_shared

\* What a user or the model is shown is so. A search reports or accounts for
\* every entry of a tree that changes under it, outside directories it cannot
\* read, pages of a file come in order and complete but for lines longer than
\* a page, and a path leads where it was resolved (a search of one that
\* begins with a tilde, a drive or a blank may be refused), to writable
\* places and enabled packages only. An answer of the BFF says what happened:
\* a refused request changed nothing unless a skill route called an unknown
\* error a refusal, a successful one was done, once under a key, and for
\* someone entitled to it. An A2A client is answered about what is mapped and
\* audited, also when it repeats its message. The slots the page previews are
\* the ones the scheduler finds but for a local day without midnight, and the
\* page that edits an agent neither mixes up nor drops what was typed, unless
\* the user acts for another agent before its text is there.
ShownTruly ==
  /\ part \in {"search", "searchChanges", "pages", "longLines", "paths",
              "oddPaths", "gateway", "routes"} =>
       /\ part = "search" => Fs!Accounted
       /\ part = "searchChanges" => Fc!Accounted
       /\ part = "pages" => Tp!PagesInOrder /\ Tp!CompleteAtEnd
       /\ part = "longLines" => Tl!PagesInOrder /\ Tl!CompleteAtEnd
       /\ part = "paths" => Fp!SearchesWhereResolved /\ Fp!PackagesGated /\ Fp!SkillsReadOnly
       /\ part = "oddPaths" => Fo!SearchesWhereResolved /\ Fo!PackagesGated /\ Fo!SkillsReadOnly
       /\ part = "gateway" => Gw!RefusedUntouched /\ Gw!SuccessIsDone /\ Gw!DoneOnce /\ Gw!UnentitledChangesNothing /\ Gw!OnlyOnOwn
       /\ part = "routes" => Gs!RefusedUntouched /\ Gs!SuccessIsDone /\ Gs!UnentitledChangesNothing /\ Gs!OnlyOnOwn
  /\ part \in {"cronTime", "cronShifted", "editor", "editorHurried",
              "editorWrites", "a2a", "a2aTwice", "a2aKeys"} =>
       /\ part = "cronTime" => Ct!PreviewAgrees /\ Ct!FormsRoundTrip
       /\ part = "cronShifted" => Cz!PreviewAgrees
       /\ part = "editor" => Ed!DraftsApart /\ Ed!EditsKept
       /\ part = "editorHurried" => En!DraftsApart /\ En!EditsKept
       /\ part = "editorWrites" => Ew!DraftsApart
       /\ part = "a2a" => At!A2aAccounted
       /\ part = "a2aTwice" => Ao!A2aAccounted
       /\ part = "a2aKeys" => Ak!A2aAccounted

\* No connection is left behind by an acquire whose budget ran out or used
\* before its session is set to UTC, an endpoint that was reachable is taken
\* for an outage only when its pool was full, all failed means all were
\* tried, every Redis error is counted and the client is quit once. A worker
\* that shuts down fetches no more jobs, keeps its pool while a run uses it
\* unless the consumer of the run was never closed (a failing start, a failed
\* close), and exits clean only when all it started has ended.
ConnectionsKept ==
  /\ [](part \in {"failover", "failoverPool", "credentials", "redisGuard",
                 "process", "processLayers"} =>
          /\ part = "failover" => Fk!NoStrayConnection /\ Fk!SessionsInUtc /\ Fk!BlockedWasBad /\ Fk!AllMeansAll
          /\ part = "failoverPool" => Fl!NoStrayConnection /\ Fl!SessionsInUtc /\ Fl!BlockedWasBad
          /\ part = "credentials" => Fd!NoStrayConnection /\ Fd!AllMeansAll
          /\ part = "redisGuard" => Fg!GuardCounts /\ Fg!QuitOnce
          /\ part = "process" => Wp!PoolOutlivesRuns /\ Wp!CleanIsClean
          /\ part = "processLayers" => Wl!PoolOutlivesRuns /\ Wl!CleanIsClean)
  /\ [][/\ part = "process" => Wp!NoIntakeAfterClose
        /\ part = "processLayers" => Wl!NoIntakeAfterClose]_shared
============================================================================
