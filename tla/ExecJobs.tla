------------------------------- MODULE ExecJobs -------------------------------
(***************************************************************************)
(* Background jobs of one workspace in the execution service: the start    *)
(* route (internal-shell.ts), the registry and its MySQL rows              *)
(* (job-registry.ts, job-store-mysql.ts), the confined process             *)
(* (process-runner.ts), the data-source session that lives with the job,   *)
(* a restart of the service, and the handle the agent keeps of the job     *)
(* (remote-shell.ts).                                                      *)
(***************************************************************************)
EXTENDS Naturals, FiniteSets

CONSTANTS Jobs,
          Cap,        \* maxActivePerOwner
          MaxDbFail,  \* bound: failed statements
          MaxCrash,   \* bound: restarts of the service
          MaxLost     \* bound: lost or failed calls of the agent

JobsAssumption == {Cap, MaxDbFail, MaxCrash, MaxLost} \subseteq Nat

VARIABLES pc,      \* the start request of a job
          proc,    \* its process: "none", "running", "exited"
          killed,  \* killRequested
          row,     \* status in exec_jobs
          entry,   \* the registry's live entry
          session, \* its data sources are open
          sig,     \* a signal request between cancel and its UPDATE
          handle,  \* the agent's RemoteShellProcess
          up, faults

jobVars == <<pc, proc, killed, row, entry, session, sig, handle, up, faults>>

Active == {"running", "stopping"}
Terminal == {"completed", "killed", "failed"}

JobsTypeOK ==
  /\ pc \in [Jobs -> {"none", "sent", "opened", "admitted", "spawned", "inserted", "answered",
                      "refused"}]
  /\ proc \in [Jobs -> {"none", "running", "exited"}]
  /\ killed \in [Jobs -> BOOLEAN]
  /\ row \in [Jobs -> {"none"} \cup Active \cup Terminal]
  /\ entry \in [Jobs -> {"none", "live", "settling", "settled"}]
  /\ session \in [Jobs -> BOOLEAN]
  /\ sig \in [Jobs -> BOOLEAN]
  /\ handle \in [Jobs -> {"none", "starting", "running", "completed", "killed"}]
  /\ up \in {"up", "recovering"}
  /\ faults.db \in 0..MaxDbFail /\ faults.crash \in 0..MaxCrash /\ faults.lost \in 0..MaxLost

JobsInit ==
  /\ pc = [j \in Jobs |-> "none"]
  /\ proc = [j \in Jobs |-> "none"]
  /\ killed = [j \in Jobs |-> FALSE]
  /\ row = [j \in Jobs |-> "none"]
  /\ entry = [j \in Jobs |-> "none"]
  /\ session = [j \in Jobs |-> FALSE]
  /\ sig = [j \in Jobs |-> FALSE]
  /\ handle = [j \in Jobs |-> "none"]
  /\ up = "up"
  /\ faults = [db |-> 0, crash |-> 0, lost |-> 0]

Fails(kind, max) == faults[kind] < max /\ faults' = [faults EXCEPT ![kind] = @ + 1]
DbFails == Fails("db", MaxDbFail)
DbWorks == UNCHANGED faults

-----------------------------------------------------------------------------
(* The rows (job-store-mysql.ts).                                          *)

CountActive == Cardinality({j \in Jobs : row[j] \in Active})

(* insert: the primary key is the job's id.                                *)
InsertRow(j) == row[j] = "none" /\ row' = [row EXCEPT ![j] = "running"]

(* updateStatus: only a terminal status may be written over a terminal one.*)
UpdateStatusAlways(j, s) == row' = [row EXCEPT ![j] = s]
UpdateStatus(j, s) ==
  row' = [row EXCEPT ![j] = IF s \in Terminal \/ @ \notin Terminal THEN s ELSE @]

-----------------------------------------------------------------------------
(* The process (process-runner.ts, executor.ts).                           *)

(* kill: nothing unless the process runs; TERM, then KILL after the grace. *)
Cancel(j) == killed' = [killed EXCEPT ![j] = @ \/ proc[j] = "running"]
NoCancel == UNCHANGED killed

(* awaitSettlement: the process ends by itself, by its resource limits, by *)
(* the quota watch or by the signal it was sent.                           *)
ProcessExits(j) ==
  /\ proc[j] = "running"
  /\ proc' = [proc EXCEPT ![j] = "exited"]
  /\ UNCHANGED <<pc, killed, row, entry, session, sig, handle, up, faults>>

OutcomeOfHandle(j) == {proc[j]}
Outcome(j) == IF killed[j] THEN {"killed"} ELSE {"completed", "killed"}

-----------------------------------------------------------------------------
(* POST /internal/v1/shell/start.                                          *)

(* RemoteShell.start: the agent sends the request and keeps a handle.      *)
AgentStart(j) ==
  /\ pc[j] = "none"
  /\ pc' = [pc EXCEPT ![j] = "sent"]
  /\ handle' = [handle EXCEPT ![j] = "starting"]
  /\ UNCHANGED <<proc, killed, row, entry, session, sig, up, faults>>

(* openExecutionDataSources.                                               *)
OpenSession(j) ==
  /\ up = "up" /\ pc[j] = "sent"
  /\ pc' = [pc EXCEPT ![j] = "opened"]
  /\ session' = [session EXCEPT ![j] = TRUE]
  /\ UNCHANGED <<proc, killed, row, entry, sig, handle, up, faults>>

(* The catch of the route: close the session, answer with an error.        *)
Refuse(j) ==
  /\ pc' = [pc EXCEPT ![j] = "refused"]
  /\ session' = [session EXCEPT ![j] = FALSE]

(* countActiveForOwner: over the cap, or the count failed.                 *)
Admit(j) ==
  /\ pc[j] = "opened"
  /\ \/ DbWorks /\ CountActive < Cap /\ pc' = [pc EXCEPT ![j] = "admitted"]
                /\ UNCHANGED session
     \/ DbWorks /\ CountActive >= Cap /\ Refuse(j)
     \/ DbFails /\ Refuse(j)
  /\ UNCHANGED <<proc, killed, row, entry, sig, handle, up>>

(* spec.run(): spawn, or a handle that has ended (quota denied, no bwrap). *)
Spawn(j) ==
  /\ pc[j] = "admitted"
  /\ pc' = [pc EXCEPT ![j] = "spawned"]
  /\ \E p \in {"running", "exited"} : proc' = [proc EXCEPT ![j] = p]
  /\ UNCHANGED <<killed, row, entry, session, sig, handle, up, faults>>

(* store.insert, then the live entry; a process without a row is cancelled.*)
InsertForgetsCancel(j) ==
  /\ pc[j] = "spawned"
  /\ \/ /\ DbWorks /\ NoCancel /\ InsertRow(j)
        /\ pc' = [pc EXCEPT ![j] = "inserted"]
        /\ entry' = [entry EXCEPT ![j] = "live"]
        /\ UNCHANGED session
     \/ DbFails /\ NoCancel /\ Refuse(j) /\ UNCHANGED <<row, entry>>
  /\ UNCHANGED <<proc, sig, handle, up>>
Insert(j) ==
  /\ pc[j] = "spawned"
  /\ \/ /\ DbWorks /\ NoCancel /\ InsertRow(j)
        /\ pc' = [pc EXCEPT ![j] = "inserted"]
        /\ entry' = [entry EXCEPT ![j] = "live"]
        /\ UNCHANGED session
     \/ DbFails /\ Cancel(j) /\ Refuse(j) /\ UNCHANGED <<row, entry>>
  /\ UNCHANGED <<proc, sig, handle, up>>

(* getById after the insert: the answer, or an error although it runs.     *)
ReadBack(j) ==
  /\ pc[j] = "inserted"
  /\ \/ DbWorks /\ pc' = [pc EXCEPT ![j] = "answered"] /\ UNCHANGED session
     \/ DbFails /\ Refuse(j)
  /\ UNCHANGED <<proc, killed, row, entry, sig, handle, up>>

-----------------------------------------------------------------------------
(* The end of a job.                                                       *)

(* handle.done: the watch stops, the session is closed, settle begins.     *)
DoneKeepsSession(j) ==
  /\ proc[j] = "exited" /\ entry[j] = "live"
  /\ entry' = [entry EXCEPT ![j] = "settling"]
  /\ UNCHANGED <<pc, proc, killed, row, session, sig, handle, up, faults>>
Done(j) ==
  /\ proc[j] = "exited" /\ entry[j] = "live"
  /\ entry' = [entry EXCEPT ![j] = "settling"]
  /\ session' = [session EXCEPT ![j] = FALSE]
  /\ UNCHANGED <<pc, proc, killed, row, sig, handle, up, faults>>

(* settle: a failed UPDATE is swallowed, the next restart will see the row.*)
SettleRow(j) ==
  /\ entry[j] = "settling"
  /\ entry' = [entry EXCEPT ![j] = "settled"]
  /\ \/ DbWorks /\ \E s \in Outcome(j) : UpdateStatus(j, s)
     \/ DbFails /\ UNCHANGED row
  /\ UNCHANGED <<pc, proc, killed, session, sig, handle, up>>

(* pruneSettled.                                                           *)
Prune(j) ==
  /\ entry[j] = "settled"
  /\ entry' = [entry EXCEPT ![j] = "none"]
  /\ UNCHANGED <<pc, proc, killed, row, session, sig, handle, up, faults>>

(* signalInternal with a terminating signal: without a live entry there is *)
(* no control; cancel first, the UPDATE to stopping after two reads.       *)
SignalJob(j) ==
  /\ up = "up" /\ entry[j] # "none" /\ ~sig[j] /\ ~killed[j]
  /\ Cancel(j)
  /\ sig' = [sig EXCEPT ![j] = TRUE]
  /\ UNCHANGED <<pc, proc, row, entry, session, handle, up, faults>>

SignalRow(j) ==
  /\ sig[j]
  /\ sig' = [sig EXCEPT ![j] = FALSE]
  /\ \/ DbWorks /\ UpdateStatus(j, "stopping")
     \/ DbFails /\ UNCHANGED row
  /\ UNCHANGED <<pc, proc, killed, entry, session, handle, up>>

-----------------------------------------------------------------------------
(* Restart.  bwrap --die-with-parent: the processes end with the service;  *)
(* recoverOrphans signals what still has the recorded start identity.      *)

Crash ==
  /\ Fails("crash", MaxCrash)
  /\ up' = "recovering"
  /\ pc' = [j \in Jobs |-> IF pc[j] \in {"none", "answered", "refused"} THEN pc[j] ELSE "refused"]
  /\ proc' = [j \in Jobs |-> IF proc[j] = "running" THEN "exited" ELSE proc[j]]
  /\ entry' = [j \in Jobs |-> "none"]
  /\ session' = [j \in Jobs |-> FALSE]
  /\ sig' = [j \in Jobs |-> FALSE]
  /\ UNCHANGED <<killed, row, handle>>

(* recoverOrphans, before the routes are mounted: every active row.        *)
RecoverRunningOnly ==
  /\ up = "recovering"
  /\ up' = "up"
  /\ DbWorks
  /\ row' = [j \in Jobs |-> IF row[j] = "running" THEN "killed" ELSE row[j]]
  /\ UNCHANGED <<pc, proc, killed, entry, session, sig, handle>>
RecoverOrphans ==
  /\ up = "recovering"
  /\ up' = "up"
  /\ \/ DbWorks /\ row' = [j \in Jobs |-> IF row[j] \in Active THEN "killed" ELSE row[j]]
     \/ DbFails /\ \E skipped \in Jobs : row' = [j \in Jobs |->
                     IF row[j] \in Active /\ j # skipped THEN "killed" ELSE row[j]]
  /\ UNCHANGED <<pc, proc, killed, entry, session, sig, handle>>

-----------------------------------------------------------------------------
(* The agent's handle (remote-shell.ts).                                   *)

SettleHandle(j, s) ==
  handle' = [handle EXCEPT ![j] = IF @ \in {"starting", "running"} THEN s ELSE @]

(* A refused start leaves the handle as it was.                            *)
StartAnsweredOk(j) ==
  /\ handle[j] = "starting"
  /\ \/ pc[j] = "answered" /\ SettleHandle(j, "running") /\ UNCHANGED faults
     \/ pc[j] = "answered" /\ Fails("lost", MaxLost) /\ SettleHandle(j, "killed")
  /\ UNCHANGED <<pc, proc, killed, row, entry, session, sig, up>>

(* start: the answer of the route, or an error, or no answer at all.       *)
StartAnswered(j) ==
  /\ handle[j] = "starting"
  /\ \/ pc[j] = "answered" /\ SettleHandle(j, "running") /\ UNCHANGED faults
     \/ pc[j] = "refused" /\ SettleHandle(j, "killed") /\ UNCHANGED faults
     \/ pc[j] \in {"answered", "refused"} /\ Fails("lost", MaxLost) /\ SettleHandle(j, "killed")
  /\ UNCHANGED <<pc, proc, killed, row, entry, session, sig, up>>

(* monitor: a status that is terminal, a job that is gone, or no answer    *)
(* until the failure deadline.                                             *)
MonitorPoll(j) ==
  /\ handle[j] = "running"
  /\ \/ /\ up = "up" /\ row[j] \in Terminal \cup {"none"} /\ UNCHANGED faults
        /\ SettleHandle(j, IF row[j] = "completed" THEN "completed" ELSE "killed")
     \/ Fails("lost", MaxLost) /\ SettleHandle(j, "killed")
  /\ UNCHANGED <<pc, proc, killed, row, entry, session, sig, up>>

JobsNext ==
  \/ Crash \/ RecoverOrphans
  \/ \E j \in Jobs :
       \/ AgentStart(j) \/ OpenSession(j) \/ Admit(j) \/ Spawn(j) \/ Insert(j) \/ ReadBack(j)
       \/ ProcessExits(j) \/ Done(j) \/ SettleRow(j) \/ Prune(j)
       \/ SignalJob(j) \/ SignalRow(j)
       \/ StartAnswered(j) \/ MonitorPoll(j)

JobsSpec == JobsInit /\ [][JobsNext]_jobVars

(* The service goes on with what it has begun; a process that was signalled*)
(* dies (SIGKILL after the grace); the service is restarted; the agent     *)
(* polls.  A process that nobody kills may run for ever.                   *)
SignalledExits(j) == killed[j] /\ ProcessExits(j)
JobsFairness ==
  /\ WF_jobVars(RecoverOrphans)
  /\ \A j \in Jobs :
       /\ WF_jobVars(OpenSession(j)) /\ WF_jobVars(Admit(j)) /\ WF_jobVars(Spawn(j))
       /\ WF_jobVars(Insert(j)) /\ WF_jobVars(ReadBack(j)) /\ WF_jobVars(Done(j))
       /\ WF_jobVars(SettleRow(j)) /\ WF_jobVars(SignalRow(j))
       /\ WF_jobVars(SignalledExits(j))
       /\ WF_jobVars(StartAnswered(j)) /\ WF_jobVars(MonitorPoll(j))
JobsFairSpec == JobsSpec /\ JobsFairness

-----------------------------------------------------------------------------

(* A process that runs is in the hands of its start request, of the        *)
(* registry, or was told to die: none runs on without anyone to settle it. *)
NoStrayProcess ==
  \A j \in Jobs : proc[j] = "running" =>
    pc[j] = "spawned" \/ entry[j] = "live" \/ killed[j]

(* Data sources do not stay open behind a job that has ended.              *)
NoSessionLeak ==
  \A j \in Jobs : session[j] =>
    pc[j] \in {"opened", "admitted", "spawned", "inserted"} \/ entry[j] = "live"

(* Outside a restart an active row has a live entry that will settle it,   *)
(* unless a statement failed.                                              *)
ActiveRowsAreLive ==
  up = "up" /\ faults.db = 0 =>
    \A j \in Jobs : row[j] \in Active => entry[j] \in {"live", "settling"}

(* A job that was told to stop becomes terminal, and the agent's handle of *)
(* it settles, across restarts, when the database works.                   *)
IsSignalled(j) == sig[j]
IsSettled(j) == row[j] \in Terminal
HandleOpen(j) == handle[j] # "none" /\ proc[j] # "running"
HandleClosed(j) == proc[j] = "running" \/ handle[j] \in {"completed", "killed"}
=============================================================================
