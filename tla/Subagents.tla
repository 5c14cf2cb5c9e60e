------------------------------- MODULE Subagents -------------------------------
(***************************************************************************)
(* Runs that spawn runs: SubagentSpawnService and the ports the tools      *)
(* `subagent` and `delegate_to_agent` call it through, the queue per depth *)
(* with its reserved slots (run-queue-topology.ts, container-run-queue.ts),*)
(* the gate a worker passes at its start (worker-drain-gate.ts) and the    *)
(* cascade of CancelRunService.                                            *)
(*                                                                         *)
(* A run waits for its children in the foreground and keeps its slot.  Two *)
(* tool calls of a run may spawn at once; the row of the parent, locked    *)
(* FOR UPDATE, is all that keeps them apart.                               *)
(***************************************************************************)
EXTENDS Naturals, FiniteSets, FiniteSetTheorems, TLAPS

CONSTANTS Roots,          \* bound: runs a person starts
          MaxRuns,        \* bound: runs in all
          MaxDepth,       \* AGENT_SUBAGENT_MAX_DEPTH as first deployed
          MaxConcurrent,  \* MAX_CONCURRENT_CHILDREN
          Budget,         \* AGENT_WORKER_CONCURRENCY
          Cancels,        \* runs a person may cancel
          MaxFaults,      \* bound: crashes, failed transactions, repeated calls
          MaxParks        \* bound: times a run waits for a person
SubagentAssumption ==
  /\ Budget > MaxDepth /\ MaxConcurrent > 0 /\ Roots \in 1..MaxRuns
  /\ {Budget, MaxDepth, MaxConcurrent, MaxRuns, MaxFaults, MaxParks} \subseteq Nat

VARIABLES run,       \* per run: status, parent, depth, cancel intent
          jobs,      \* runs with a job in the queue of their depth
          held,      \* runs that hold a slot of their depth
          calls,     \* per run: children its unsettled tool calls wait for
          spawning,  \* per run: spawn transactions past their checks
          cancelTx,  \* a cancellation: its run and the snapshot it reads
          served,    \* the depth the workers are configured for
          faults, parks

subagentVars == <<run, jobs, held, calls, spawning, cancelTx, served, faults, parks>>

Runs == 1..MaxRuns
NoRun == 0
Terminal == {"DONE", "CANCELLED"}     \* DONE: SUCCEEDED, FAILED or TIMED_OUT
Statuses == Terminal \cup {"none", "ACCEPTED", "QUEUED", "RUNNING", "WAITING"}
Free == [run |-> NoRun, seen |-> {}]

Live(r) == run[r].status \notin Terminal \cup {"none"}
Children(p) == {r \in Runs : run[r].status # "none" /\ run[r].parent = p}

SubagentTypeOK ==
  /\ \A r \in Runs : /\ run[r].status \in Statuses /\ run[r].parent \in Runs \cup {NoRun}
                     /\ run[r].depth \in 0..MaxDepth /\ run[r].cancel \in BOOLEAN
  /\ jobs \subseteq Runs /\ held \subseteq {r \in Runs : run[r].status = "RUNNING"}
  /\ calls \in [Runs -> SUBSET (Runs \cup {NoRun})] /\ spawning \in [Runs -> 0..2]
  /\ cancelTx.run \in Runs \cup {NoRun} /\ cancelTx.seen \subseteq Runs
  /\ served \in 0..MaxDepth /\ faults \in 0..MaxFaults /\ parks \in 0..MaxParks

SubagentInit ==
  /\ run = [r \in Runs |-> [status |-> "none", parent |-> NoRun, depth |-> 0, cancel |-> FALSE]]
  /\ jobs = {} /\ held = {} /\ cancelTx = Free /\ served = MaxDepth
  /\ calls = [r \in Runs |-> {}] /\ spawning = [r \in Runs |-> 0]
  /\ faults = 0 /\ parks = 0

Is(r, status) == run[r].status = status
To(r, status) == run' = [run EXCEPT ![r].status = status]
bounds == <<faults, parks>>
Fault == faults < MaxFaults /\ faults' = faults + 1 /\ UNCHANGED parks

-----------------------------------------------------------------------------
(* Routing (routeRunToQueue): the depth in the database decides the queue, *)
(* and a depth that is not served is refused.                              *)
Routed(r) == run[r].depth <= served

(* allocateReservedSlots: one slot for every depth below the root, the     *)
(* rest of the budget for depth 0.                                         *)
SharedSlot(depth) == Cardinality(held) < Budget
FreeSlot(depth) ==
  Cardinality({r \in held : run[r].depth = depth}) < (IF depth = 0 THEN Budget - served ELSE 1)

(* A person starts a run; its creation is RunLifecycle's.                  *)
StartRoot(r) ==
  /\ r <= Roots /\ Is(r, "none") /\ \A q \in 1..(r - 1) : ~Is(q, "none")
  /\ To(r, "ACCEPTED")
  /\ UNCHANGED <<jobs, held, calls, spawning, cancelTx, served, bounds>>

(* runQueue.enqueue, by the spawner after its commit or, when that failed, *)
(* by recovery.                                                            *)
Enqueue(r) ==
  /\ run[r].status \in {"ACCEPTED", "QUEUED"} /\ r \notin jobs /\ Routed(r)
  /\ jobs' = jobs \cup {r}
  /\ UNCHANGED <<run, held, calls, spawning, cancelTx, served, bounds>>

(* projectAcceptedToQueued.                                                *)
ProjectQueued(r) ==
  /\ Is(r, "ACCEPTED") /\ r \in jobs /\ To(r, "QUEUED")
  /\ UNCHANGED <<jobs, held, calls, spawning, cancelTx, served, bounds>>

(* The consumer of the layer takes the job; a run that is to be cancelled  *)
(* is ended before it enters the runtime.                                  *)
Take(r) ==
  /\ r \in jobs /\ run[r].depth <= served /\ FreeSlot(run[r].depth)
  /\ jobs' = jobs \ {r}
  /\ IF run[r].status \notin {"ACCEPTED", "QUEUED"} THEN UNCHANGED <<run, held>>
     ELSE IF run[r].cancel THEN To(r, "CANCELLED") /\ UNCHANGED held
     ELSE To(r, "RUNNING") /\ held' = held \cup {r}
  /\ UNCHANGED <<calls, spawning, cancelTx, served, bounds>>

-----------------------------------------------------------------------------
(* spawn: the transaction locks the row of the parent, then checks it, its *)
(* depth and its live children.                                            *)
NeverLocked(p) == FALSE
Locked(p) == spawning[p] > 0

SpawnAllowed(p) ==
  /\ Live(p) /\ ~run[p].cancel
  /\ run[p].depth < served

SpawnCheck(p) ==
  /\ p \in held /\ ~Locked(p) /\ spawning[p] < 2
  /\ SpawnAllowed(p)
  /\ Cardinality({c \in Children(p) : Live(c)}) < MaxConcurrent
  /\ \E c \in Runs : c > Roots /\ Is(c, "none")
  /\ spawning' = [spawning EXCEPT ![p] = @ + 1]
  /\ UNCHANGED <<run, jobs, held, calls, cancelTx, served, bounds>>

(* The rest of the transaction: conversation, session, message, run, event *)
(* and outbox row of the child, in one commit.                             *)
SpawnCommit(p) ==
  /\ spawning[p] > 0
  /\ \E c \in Runs :
       /\ c > Roots /\ Is(c, "none") /\ \A q \in (Roots + 1)..(c - 1) : ~Is(q, "none")
       /\ run' = [run EXCEPT ![c] = [status |-> "ACCEPTED", parent |-> p,
                                     depth |-> run[p].depth + 1, cancel |-> FALSE]]
       /\ calls' = [calls EXCEPT ![p] = @ \cup {c}]
  /\ spawning' = [spawning EXCEPT ![p] = @ - 1]
  /\ UNCHANGED <<jobs, held, cancelTx, served, bounds>>

(* The transaction rolls back; the tool call fails and is settled.         *)
SpawnFails(p) ==
  /\ spawning[p] > 0 /\ Fault
  /\ spawning' = [spawning EXCEPT ![p] = @ - 1]
  /\ UNCHANGED <<run, jobs, held, calls, cancelTx, served>>

(* The same call id again: begin answers `replay` with the child there is. *)
Adopt(p, c) ==
  /\ p \in held /\ ~Locked(p) /\ SpawnAllowed(p)
  /\ c \in Children(p) \ calls[p] /\ Fault
  /\ calls' = [calls EXCEPT ![p] = @ \cup {c}]
  /\ UNCHANGED <<run, jobs, held, spawning, cancelTx, served>>

(* The poll of the store (getResult, getStatuses): a child that has ended  *)
(* settles the call.                                                       *)
Settles(c) == ~Live(c)
Poll(p, c) ==
  /\ p \in held /\ c \in calls[p] /\ Settles(c)
  /\ calls' = [calls EXCEPT ![p] = @ \ {c}]
  /\ UNCHANGED <<run, jobs, held, spawning, cancelTx, served, bounds>>

-----------------------------------------------------------------------------
Leaves(r, status) ==
  /\ r \in held /\ ~Locked(r)
  /\ To(r, status) /\ held' = held \ {r} /\ calls' = [calls EXCEPT ![r] = {}]
  /\ UNCHANGED <<jobs, spawning, cancelTx, served>>

Finish(r) == calls[r] = {} /\ ~run[r].cancel /\ Leaves(r, "DONE") /\ UNCHANGED bounds

(* An error or the time limit of the run: the children are left alone.     *)
Fails(r) == Leaves(r, "DONE") /\ UNCHANGED bounds

(* The executor sees the intent; the signal ends the wait for children.    *)
Stop(r) == run[r].cancel /\ Leaves(r, "CANCELLED") /\ UNCHANGED bounds

(* A question or an approval: the attempt ends and gives its slot back.    *)
Park(r) ==
  /\ parks < MaxParks /\ calls[r] = {} /\ Leaves(r, "WAITING")
  /\ parks' = parks + 1 /\ UNCHANGED faults

(* The answer is enqueued; a parked run with an intent is ended by         *)
(* recovery instead.                                                       *)
Answer(r) ==
  /\ Is(r, "WAITING")
  /\ IF run[r].cancel THEN To(r, "CANCELLED") /\ UNCHANGED jobs
     ELSE Routed(r) /\ To(r, "QUEUED") /\ jobs' = jobs \cup {r}
  /\ UNCHANGED <<held, calls, spawning, cancelTx, served, bounds>>

(* The workers die.  Open transactions are rolled back, the rows of the    *)
(* tool calls stay RUNNING; NoRun stands for a call without a child.       *)
Crash ==
  /\ Fault /\ held' = {}
  /\ calls' = [r \in Runs |-> calls[r] \cup (IF spawning[r] > 0 THEN {NoRun} ELSE {})]
  /\ spawning' = [r \in Runs |-> 0]
  /\ UNCHANGED <<run, jobs, cancelTx, served>>

(* Recovery of an orphan: an intent ends it, settled calls let it run      *)
(* again, and an unsettled one needs an operator.                          *)
NeedsOperator(r) == Is(r, "RUNNING") /\ r \notin held /\ calls[r] # {} /\ ~run[r].cancel
RecoverOrphan(r) ==
  /\ Is(r, "RUNNING") /\ r \notin held /\ ~NeedsOperator(r)
  /\ IF run[r].cancel THEN To(r, "CANCELLED") /\ UNCHANGED jobs
     ELSE To(r, "QUEUED") /\ jobs' = jobs \cup {r}
  /\ UNCHANGED <<held, calls, spawning, cancelTx, served, bounds>>

-----------------------------------------------------------------------------
(* listDescendants: level by level, non-terminal ones only.                *)
Below(r) ==
  LET level[n \in 0..MaxDepth] == IF n = 0 THEN {r} ELSE UNION {Children(c) : c \in level[n - 1]}
  IN UNION {level[n] : n \in 1..MaxDepth}
LiveBelow(r) == {d \in Runs : d \in Below(r) /\ Live(d)}

(* CancelRunService: resolveOwner is the first read of the transaction and *)
(* fixes the snapshot that listDescendants reads later.                    *)
CancelRead(r) ==
  /\ r \in Cancels /\ cancelTx = Free /\ ~Is(r, "none")
  /\ cancelTx' = [run |-> r, seen |-> LiveBelow(r)]
  /\ UNCHANGED <<run, jobs, held, calls, spawning, served, bounds>>

(* The locked row decides about the run, the snapshot about its            *)
(* descendants.  A parked run ends at once, a descendant gets the intent.  *)
Intended(r, seen) ==
  [d \in Runs |->
     IF d = r /\ Live(r) THEN [run[d] EXCEPT !.cancel = TRUE,
                                             !.status = IF @ = "WAITING" THEN "CANCELLED" ELSE @]
     ELSE IF d \in seen THEN [run[d] EXCEPT !.cancel = TRUE]
     ELSE run[d]]
CancelCommit ==
  LET r == cancelTx.run
  IN /\ r # NoRun /\ ~Locked(r) /\ \A d \in cancelTx.seen : ~Locked(d)
     /\ run' = Intended(r, cancelTx.seen) /\ cancelTx' = Free
     /\ UNCHANGED <<jobs, held, calls, spawning, served, bounds>>

(* The transaction loses a deadlock or a lock wait: #recordIntentOnly      *)
(* marks the run and nothing below it.                                     *)
CancelFails ==
  LET r == cancelTx.run
  IN /\ r # NoRun /\ ~Locked(r) /\ cancelTx' = Free
     /\ run' = [run EXCEPT ![r].cancel = @ \/ Live(r)]
     /\ UNCHANGED <<jobs, held, calls, spawning, served, bounds>>

-----------------------------------------------------------------------------
(* assertWorkerTopologyDrained: no job in a queue that is not served, no   *)
(* run deeper than the new limit that has not ended.                       *)
QueuesDrained(depth) == \A r \in jobs : run[r].depth <= depth
LedgerDrained(depth) == \A r \in Runs : Live(r) => run[r].depth <= depth
Drained(depth) == QueuesDrained(depth) /\ LedgerDrained(depth)

(* The workers are redeployed with a smaller limit.                        *)
Redeploy(depth) ==
  /\ held = {} /\ depth < served /\ Drained(depth)
  /\ served' = depth
  /\ UNCHANGED <<run, jobs, held, calls, spawning, cancelTx, bounds>>

(* What the workers, the spawners and recovery do as long as they can.     *)
WorkGoesOn ==
  \E r \in Runs : \/ Enqueue(r) \/ Take(r) \/ SpawnCommit(r) \/ Finish(r) \/ Stop(r) \/ RecoverOrphan(r)
                  \/ \E c \in Runs : Poll(r, c)

SubagentNext ==
  \/ \E r \in Runs : \/ StartRoot(r) \/ Enqueue(r) \/ ProjectQueued(r) \/ Take(r)
                     \/ SpawnCheck(r) \/ SpawnCommit(r) \/ SpawnFails(r)
                     \/ \E c \in Runs : Adopt(r, c) \/ Poll(r, c)
                     \/ Finish(r) \/ Fails(r) \/ Stop(r) \/ Park(r) \/ Answer(r)
                     \/ RecoverOrphan(r) \/ CancelRead(r)
  \/ Crash \/ CancelCommit \/ CancelFails
  \/ \E d \in 0..MaxDepth : Redeploy(d)

SubagentSpec == SubagentInit /\ [][SubagentNext]_subagentVars

-----------------------------------------------------------------------------
(* A run never has more live children than the limit, and no run is deeper *)
(* than the configuration ever allowed.                                    *)
LimitsHeld ==
  \A p \in Runs : /\ Cardinality({c \in Children(p) : Live(c)}) <= MaxConcurrent
                  /\ \A c \in Children(p) : run[c].depth = run[p].depth + 1

(* A run that has not ended is one its workers serve: no job and no parked *)
(* run is left behind by a smaller configuration.                          *)
ServedDepths == \A r \in Runs : Live(r) => Routed(r)

(* No child is born under a run that has ended or is to be cancelled.      *)
NoChildOfCancelled ==
  \A c \in Runs : Is(c, "none") /\ run'[c].status # "none" /\ run'[c].parent # NoRun
        => Live(run'[c].parent) /\ ~run[run'[c].parent].cancel

(* Every run that was accepted ends, unless a crash left a run to an       *)
(* operator: waiting parents never hold the slots their children need.     *)
AllSettled == \A r \in Runs : Live(r) => \E q \in Runs : NeedsOperator(q)
AnyStarted == \E r \in Runs : ~Is(r, "none")

-----------------------------------------------------------------------------
(* Why the limits hold: the inductive invariant.                           *)
RunRecords == [status : Statuses, parent : Runs \cup {NoRun}, depth : 0..MaxDepth, cancel : BOOLEAN]
LiveChildren(p) == {c \in Children(p) : Live(c)}

(* A family: children are one deeper than a parent that was started.       *)
FamilyOK ==
  /\ run \in [Runs -> RunRecords]
  /\ \A r \in Runs :
       IF Is(r, "none") THEN run[r].parent = NoRun /\ run[r].depth = 0
       ELSE run[r].parent # NoRun => /\ ~Is(run[r].parent, "none")
                                     /\ run[r].depth = run[run[r].parent].depth + 1

(* A spawn that is past its checks can still rely on them: the lock on the *)
(* row of its parent keeps cancellation, other spawns and redeployment out.*)
ChecksStand ==
  \A p \in Runs :
    /\ spawning[p] \in {0, 1}
    /\ spawning[p] = 1 => /\ p \in held /\ ~run[p].cancel /\ run[p].depth < served
                          /\ Cardinality(LiveChildren(p)) < MaxConcurrent

SubagentInv == SubagentTypeOK /\ FamilyOK /\ ChecksStand /\ LimitsHeld /\ ServedDepths

(* What a step does that neither starts nor spawns a run.                  *)
RunsMove ==
  /\ run' \in [Runs -> RunRecords]
  /\ \A r \in Runs :
       /\ run'[r].parent = run[r].parent /\ run'[r].depth = run[r].depth
       /\ run'[r].status = run[r].status \/ (Live(r) /\ run'[r].status # "none")
       /\ spawning[r] > 0 => run'[r].cancel = run[r].cancel
Quiet ==
  /\ RunsMove
  /\ \A p \in Runs : \/ spawning'[p] = 0
                     \/ spawning'[p] = spawning[p] /\ (p \in held => p \in held') /\ served' = served
  /\ served' = served \/ (run' = run /\ LedgerDrained(served'))

LEMMA RunsFinite ==
  ASSUME SubagentAssumption, NEW S \in SUBSET Runs
  PROVE  IsFiniteSet(S) /\ Cardinality(S) \in Nat
  <1>1. MaxRuns \in Int BY DEF SubagentAssumption
  <1>2. IsFiniteSet(Runs) BY <1>1, FS_Interval DEF Runs
  <1> QED BY <1>2, FS_Subset, FS_CardinalityType

LEMMA MoveKeepsChildren ==
  ASSUME SubagentAssumption, SubagentInv, RunsMove, NEW p \in Runs
  PROVE  /\ Children(p)' = Children(p) /\ LiveChildren(p)' \subseteq LiveChildren(p)
         /\ Cardinality(LiveChildren(p)') <= Cardinality(LiveChildren(p))
  <1>1. \A r \in Runs : (run'[r].status # "none") = (run[r].status # "none")
    BY DEF RunsMove, Live
  <1>2. Children(p)' = Children(p)
    BY <1>1 DEF Children, RunsMove
  <1>3. LiveChildren(p)' \subseteq LiveChildren(p)
    BY <1>2 DEF LiveChildren, RunsMove, Live, Children
  <1>4. LiveChildren(p) \in SUBSET Runs BY DEF LiveChildren, Children
  <1>5. IsFiniteSet(LiveChildren(p)) BY <1>4, RunsFinite
  <1>6. LiveChildren(p)' \in SUBSET LiveChildren(p) BY <1>3
  <1> QED BY <1>2, <1>3, <1>5, <1>6, FS_Subset

LEMMA QuietKeeps ==
  ASSUME SubagentAssumption, SubagentInv, SubagentTypeOK', Quiet
  PROVE  SubagentInv'
  <1> USE DEF SubagentInv
  <1>0. RunsMove /\ \A r \in Runs : Live(r)' => Live(r) BY DEF Quiet, RunsMove, Live
  <1>1. FamilyOK'
    <2>1. ASSUME NEW r \in Runs
          PROVE  IF run'[r].status = "none" THEN run'[r].parent = NoRun /\ run'[r].depth = 0
                 ELSE run'[r].parent # NoRun => /\ run'[run'[r].parent].status # "none"
                                                /\ run'[r].depth = run'[run'[r].parent].depth + 1
      <3>1. run[r] \in RunRecords BY DEF FamilyOK
      <3>2. run[r].parent # NoRun => run[r].parent \in Runs BY <3>1 DEF RunRecords
      <3> QED BY <1>0, <3>2 DEF RunsMove, FamilyOK, Is, Live, Terminal
    <2> QED BY <1>0, <2>1 DEF RunsMove, FamilyOK, Is
  <1>2. ChecksStand'
    <2> SUFFICES ASSUME NEW p \in Runs
                 PROVE  /\ spawning'[p] \in {0, 1}
                        /\ spawning'[p] = 1 =>
                             /\ p \in held' /\ ~run'[p].cancel /\ run'[p].depth < served'
                             /\ Cardinality(LiveChildren(p)') < MaxConcurrent
      BY DEF ChecksStand
    <2>1. CASE spawning'[p] = 0 BY <2>1
    <2>2. CASE spawning'[p] # 0
      <3>1. spawning'[p] = spawning[p] /\ (p \in held => p \in held') /\ served' = served
        BY <2>2 DEF Quiet
      <3>2. spawning[p] = 1 BY <2>2, <3>1 DEF ChecksStand
      <3>3. p \in held /\ ~run[p].cancel /\ run[p].depth < served /\ Cardinality(LiveChildren(p)) < MaxConcurrent
        BY <3>2 DEF ChecksStand
      <3>4. Cardinality(LiveChildren(p)') <= Cardinality(LiveChildren(p))
        BY <1>0, MoveKeepsChildren
      <3>5. /\ Cardinality(LiveChildren(p)) \in Nat /\ Cardinality(LiveChildren(p)') \in Nat
            /\ MaxConcurrent \in Nat
        BY RunsFinite DEF LiveChildren, Children, SubagentAssumption
      <3>6. run'[p].cancel = run[p].cancel /\ run'[p].depth = run[p].depth
        BY <1>0, <3>2 DEF RunsMove
      <3> QED BY <3>1, <3>2, <3>3, <3>4, <3>5, <3>6
    <2> QED BY <2>1, <2>2
  <1>3. LimitsHeld'
    <2> SUFFICES ASSUME NEW p \in Runs
                 PROVE  /\ Cardinality(LiveChildren(p)') <= MaxConcurrent
                        /\ \A c \in Children(p)' : run'[c].depth = run'[p].depth + 1
      BY DEF LimitsHeld, LiveChildren
    <2>1. Cardinality(LiveChildren(p)) <= MaxConcurrent BY DEF LimitsHeld, LiveChildren
    <2>2. /\ Cardinality(LiveChildren(p)) \in Nat /\ Cardinality(LiveChildren(p)') \in Nat
          /\ MaxConcurrent \in Nat
      BY RunsFinite DEF LiveChildren, Children, SubagentAssumption
    <2>3. Cardinality(LiveChildren(p)') <= MaxConcurrent
      BY <1>0, <2>1, <2>2, MoveKeepsChildren
    <2>4. \A c \in Children(p) : run[c].depth = run[p].depth + 1 /\ c \in Runs
      BY DEF LimitsHeld, Children
    <2> QED BY <1>0, <2>3, <2>4, MoveKeepsChildren DEF RunsMove
  <1>4. ServedDepths'
    BY <1>0 DEF ServedDepths, Quiet, RunsMove, Routed, LedgerDrained
  <1> QED BY <1>1, <1>2, <1>3, <1>4

(* The status of one live run moves, or no run does.                       *)
LEMMA ToMoves ==
  ASSUME SubagentInv, NEW r \in Runs, NEW s \in Statuses \ {"none"}, Live(r), To(r, s)
  PROVE  /\ RunsMove /\ run'[r].status = s
         /\ \A q \in Runs \ {r} : run'[q] = run[q]
  <1>1. run \in [Runs -> RunRecords] BY DEF SubagentInv, FamilyOK
  <1>2. run' = [run EXCEPT ![r].status = s] BY DEF To
  <1>3. /\ run'[r] = [run[r] EXCEPT !.status = s]
        /\ \A q \in Runs \ {r} : run'[q] = run[q]
    BY <1>1, <1>2
  <1>4. ASSUME NEW x \in RunRecords
        PROVE  /\ [x EXCEPT !.status = s] \in RunRecords
               /\ [x EXCEPT !.status = s].status = s /\ [x EXCEPT !.status = s].parent = x.parent
               /\ [x EXCEPT !.status = s].depth = x.depth /\ [x EXCEPT !.status = s].cancel = x.cancel
    BY DEF RunRecords
  <1>5. run[r] \in RunRecords BY <1>1
  <1>6. /\ run'[r] \in RunRecords /\ run'[r].status = s /\ run'[r].parent = run[r].parent
        /\ run'[r].depth = run[r].depth /\ run'[r].cancel = run[r].cancel
    BY <1>3, <1>4, <1>5
  <1>7. run' \in [Runs -> RunRecords] BY <1>1, <1>2, <1>3, <1>6
  <1> QED BY <1>3, <1>6, <1>7 DEF RunsMove

LEMMA SameMoves ==
  ASSUME SubagentInv, run' = run
  PROVE  RunsMove
  BY DEF SubagentInv, FamilyOK, RunsMove

(* The part of the type invariant that is about the rows follows from the  *)
(* move of the runs.                                                       *)
LEMMA MoveTyped ==
  ASSUME RunsMove
  PROVE  \A r \in Runs : /\ run'[r].status \in Statuses /\ run'[r].parent \in Runs \cup {NoRun}
                         /\ run'[r].depth \in 0..MaxDepth /\ run'[r].cancel \in BOOLEAN
  BY DEF RunsMove, RunRecords

(* The queue and its workers.                                              *)
LEMMA QueueQuiet ==
  ASSUME SubagentInv, NEW r \in Runs, Enqueue(r) \/ ProjectQueued(r) \/ Take(r)
  PROVE  SubagentTypeOK' /\ Quiet
  <1>1. ASSUME Enqueue(r) PROVE SubagentTypeOK' /\ Quiet
    <2>1. RunsMove BY <1>1, SameMoves DEF Enqueue
    <2> QED BY <1>1, <2>1 DEF Enqueue, SubagentInv, SubagentTypeOK, Quiet, bounds
  <1>2. ASSUME ProjectQueued(r) PROVE SubagentTypeOK' /\ Quiet
    <2>1. Live(r) /\ run[r].status = "ACCEPTED" /\ To(r, "QUEUED")
      BY <1>2 DEF ProjectQueued, Live, Is, Terminal
    <2>2. /\ RunsMove /\ \A q \in Runs \ {r} : run'[q] = run[q]
      BY <2>1, ToMoves DEF Statuses
    <2>3. held' \subseteq {q \in Runs : run'[q].status = "RUNNING"}
      BY <1>2, <2>1, <2>2 DEF ProjectQueued, SubagentInv, SubagentTypeOK
    <2> QED BY <1>2, <2>2, <2>3, MoveTyped DEF ProjectQueued, SubagentInv, SubagentTypeOK, Quiet, bounds
  <1>3. ASSUME Take(r) PROVE SubagentTypeOK' /\ Quiet
    <2>1. RunsMove /\ held' \subseteq {q \in Runs : run'[q].status = "RUNNING"} /\ held \subseteq held'
      <3>1. ASSUME run[r].status \notin {"ACCEPTED", "QUEUED"} PROVE <2>1!:
        BY <1>3, <3>1, SameMoves DEF Take, SubagentInv, SubagentTypeOK
      <3>2. ASSUME run[r].status \in {"ACCEPTED", "QUEUED"}, run[r].cancel PROVE <2>1!:
        <4>1. Live(r) /\ To(r, "CANCELLED") /\ held' = held BY <1>3, <3>2 DEF Take, Live, Terminal
        <4>2. RunsMove /\ \A q \in Runs \ {r} : run'[q] = run[q]
          BY <4>1, ToMoves DEF Statuses, Terminal
        <4> QED BY <3>2, <4>1, <4>2 DEF SubagentInv, SubagentTypeOK
      <3>3. ASSUME run[r].status \in {"ACCEPTED", "QUEUED"}, ~run[r].cancel PROVE <2>1!:
        <4>1. Live(r) /\ To(r, "RUNNING") /\ held' = held \cup {r} BY <1>3, <3>3 DEF Take, Live, Terminal
        <4>2. RunsMove /\ run'[r].status = "RUNNING" /\ \A q \in Runs \ {r} : run'[q] = run[q]
          BY <4>1, ToMoves DEF Statuses, Terminal
        <4> QED BY <4>1, <4>2 DEF SubagentInv, SubagentTypeOK
      <3> QED BY <3>1, <3>2, <3>3
    <2> QED BY <1>3, <2>1, MoveTyped DEF Take, SubagentInv, SubagentTypeOK, Quiet, bounds
  <1> QED BY <1>1, <1>2, <1>3

(* The tool calls of a run that is executed.                               *)
LEMMA CallQuiet ==
  ASSUME SubagentAssumption, SubagentInv, NEW p \in Runs, NEW c \in Runs,
         SpawnFails(p) \/ Adopt(p, c) \/ Poll(p, c)
  PROVE  SubagentTypeOK' /\ Quiet
  <1>1. RunsMove BY SameMoves DEF SpawnFails, Adopt, Poll
  <1>2. ASSUME SpawnFails(p) PROVE SubagentTypeOK' /\ Quiet
    <2>1. spawning \in [Runs -> 0..2] /\ spawning[p] = 1
      BY <1>2 DEF SpawnFails, SubagentInv, SubagentTypeOK, ChecksStand
    <2>2. spawning' \in [Runs -> 0..2] /\ spawning'[p] = 0 /\ \A q \in Runs \ {p} : spawning'[q] = spawning[q]
      BY <1>2, <2>1 DEF SpawnFails
    <2>3. faults' \in 0..MaxFaults
      BY <1>2 DEF SpawnFails, Fault, SubagentInv, SubagentTypeOK, SubagentAssumption
    <2> QED BY <1>1, <1>2, <2>2, <2>3 DEF SpawnFails, Fault, SubagentInv, SubagentTypeOK, Quiet
  <1>3. ASSUME Adopt(p, c) PROVE SubagentTypeOK' /\ Quiet
    <2>1. faults' \in 0..MaxFaults
      BY <1>3 DEF Adopt, Fault, SubagentInv, SubagentTypeOK, SubagentAssumption
    <2>2. calls' \in [Runs -> SUBSET (Runs \cup {NoRun})]
      BY <1>3 DEF Adopt, SubagentInv, SubagentTypeOK
    <2> QED BY <1>1, <1>3, <2>1, <2>2 DEF Adopt, Fault, SubagentInv, SubagentTypeOK, Quiet
  <1>4. ASSUME Poll(p, c) PROVE SubagentTypeOK' /\ Quiet
    <2>2. calls' \in [Runs -> SUBSET (Runs \cup {NoRun})]
      BY <1>4 DEF Poll, SubagentInv, SubagentTypeOK
    <2> QED BY <1>1, <1>4, <2>2 DEF Poll, SubagentInv, SubagentTypeOK, Quiet, bounds
  <1> QED BY <1>2, <1>3, <1>4

(* A run leaves its slot: no spawn of it is open.                          *)
LEMMA LeavesMoves ==
  ASSUME SubagentInv, NEW r \in Runs, NEW s \in Statuses \ {"none"}, Leaves(r, s)
  PROVE  /\ RunsMove /\ held' \subseteq {q \in Runs : run'[q].status = "RUNNING"}
         /\ calls' \in [Runs -> SUBSET (Runs \cup {NoRun})] /\ spawning' = spawning /\ served' = served
         /\ jobs' = jobs /\ cancelTx' = cancelTx
         /\ \A q \in Runs : spawning[q] = 0 \/ (q \in held => q \in held')
  <1>1. Live(r) /\ To(r, s)
    BY DEF Leaves, SubagentInv, SubagentTypeOK, Live, Terminal
  <1>2. RunsMove /\ \A q \in Runs \ {r} : run'[q] = run[q] BY <1>1, ToMoves
  <1>3. held' \subseteq {q \in Runs : run'[q].status = "RUNNING"}
    BY <1>2 DEF Leaves, SubagentInv, SubagentTypeOK
  <1>4. calls' \in [Runs -> SUBSET (Runs \cup {NoRun})]
    BY DEF Leaves, SubagentInv, SubagentTypeOK
  <1>5. spawning[r] = 0 BY DEF Leaves, Locked, SubagentInv, ChecksStand
  <1> QED BY <1>2, <1>3, <1>4, <1>5 DEF Leaves

LEMMA LeaveQuiet ==
  ASSUME SubagentAssumption, SubagentInv, NEW r \in Runs, Finish(r) \/ Fails(r) \/ Stop(r) \/ Park(r)
  PROVE  SubagentTypeOK' /\ Quiet
  <1>1. PICK s \in Statuses \ {"none"} : Leaves(r, s)
    BY DEF Finish, Fails, Stop, Park, Statuses, Terminal
  <1>2. faults' \in 0..MaxFaults /\ parks' \in 0..MaxParks
    BY DEF Finish, Fails, Stop, Park, bounds, SubagentInv, SubagentTypeOK, SubagentAssumption
  <1>3. /\ RunsMove /\ held' \subseteq {q \in Runs : run'[q].status = "RUNNING"}
        /\ calls' \in [Runs -> SUBSET (Runs \cup {NoRun})] /\ spawning' = spawning /\ served' = served
        /\ jobs' = jobs /\ cancelTx' = cancelTx
        /\ \A q \in Runs : spawning[q] = 0 \/ (q \in held => q \in held')
    BY <1>1, LeavesMoves
  <1> QED BY <1>2, <1>3, MoveTyped DEF SubagentInv, SubagentTypeOK, Quiet

(* A parked run and an orphan go on or are ended; a crash.                 *)
LEMMA ResumeQuiet ==
  ASSUME SubagentInv, NEW r \in Runs, Answer(r) \/ RecoverOrphan(r)
  PROVE  SubagentTypeOK' /\ Quiet
  <1>1. PICK s \in {"CANCELLED", "QUEUED"} : To(r, s) BY DEF Answer, RecoverOrphan
  <1>2. Live(r) /\ r \notin held
    BY DEF Answer, RecoverOrphan, Is, Live, Terminal, SubagentInv, SubagentTypeOK
  <1>3. RunsMove /\ \A q \in Runs \ {r} : run'[q] = run[q]
    BY <1>1, <1>2, ToMoves DEF Statuses, Terminal
  <1>4. held' \subseteq {q \in Runs : run'[q].status = "RUNNING"}
    BY <1>2, <1>3 DEF Answer, RecoverOrphan, SubagentInv, SubagentTypeOK
  <1>5. jobs' \subseteq Runs BY DEF Answer, RecoverOrphan, SubagentInv, SubagentTypeOK
  <1> QED BY <1>3, <1>4, <1>5, MoveTyped DEF Answer, RecoverOrphan, SubagentInv, SubagentTypeOK, Quiet, bounds

LEMMA CrashQuiet ==
  ASSUME SubagentAssumption, SubagentInv, Crash
  PROVE  SubagentTypeOK' /\ Quiet
  <1>1. RunsMove BY SameMoves DEF Crash
  <1>2. faults' \in 0..MaxFaults
    BY DEF Crash, Fault, SubagentInv, SubagentTypeOK, SubagentAssumption
  <1>3. calls' \in [Runs -> SUBSET (Runs \cup {NoRun})] BY DEF Crash, SubagentInv, SubagentTypeOK
  <1>4. spawning' \in [Runs -> 0..2] /\ \A p \in Runs : spawning'[p] = 0 BY DEF Crash
  <1> QED BY <1>1, <1>2, <1>3, <1>4 DEF Crash, Fault, SubagentInv, SubagentTypeOK, Quiet

(* A cancellation only touches rows no spawn holds.                        *)
LEMMA CancelQuiet ==
  ASSUME SubagentInv, (\E r \in Runs : CancelRead(r)) \/ CancelCommit \/ CancelFails
  PROVE  SubagentTypeOK' /\ Quiet
  <1>0. run \in [Runs -> RunRecords] BY DEF SubagentInv, FamilyOK
  <1>1. ASSUME NEW r \in Runs, CancelRead(r) PROVE SubagentTypeOK' /\ Quiet
    <2>1. RunsMove BY <1>1, SameMoves DEF CancelRead
    <2>2. LiveBelow(r) \subseteq Runs BY DEF LiveBelow
    <2>3. cancelTx'.run \in Runs \cup {NoRun} /\ cancelTx'.seen \subseteq Runs
      BY <1>1, <2>2 DEF CancelRead
    <2> QED BY <1>1, <2>1, <2>3 DEF CancelRead, SubagentInv, SubagentTypeOK, Quiet, bounds
  <1>2. ASSUME CancelCommit PROVE SubagentTypeOK' /\ Quiet
    <2> DEFINE r == cancelTx.run
    <2>1. r \in Runs /\ run' = Intended(r, cancelTx.seen)
      BY <1>2 DEF CancelCommit, SubagentInv, SubagentTypeOK
    <2>2. ASSUME NEW d \in Runs
          PROVE  /\ run'[d] \in RunRecords
                 /\ run'[d].parent = run[d].parent /\ run'[d].depth = run[d].depth
                 /\ run'[d].status = run[d].status \/ (run[d].status = "WAITING" /\ run'[d].status = "CANCELLED")
                 /\ spawning[d] > 0 => run'[d] = run[d]
      <3>1. ASSUME NEW x \in RunRecords
            PROVE  /\ [x EXCEPT !.cancel = TRUE] \in RunRecords
                   /\ [x EXCEPT !.cancel = TRUE].parent = x.parent
                   /\ [x EXCEPT !.cancel = TRUE].depth = x.depth
                   /\ [x EXCEPT !.cancel = TRUE].status = x.status
        BY DEF RunRecords
      <3>2. ASSUME NEW x \in RunRecords, NEW t \in Statuses
            PROVE  /\ [x EXCEPT !.cancel = TRUE, !.status = t] \in RunRecords
                   /\ [x EXCEPT !.cancel = TRUE, !.status = t].parent = x.parent
                   /\ [x EXCEPT !.cancel = TRUE, !.status = t].depth = x.depth
                   /\ [x EXCEPT !.cancel = TRUE, !.status = t].status = t
        BY DEF RunRecords
      <3>3. run[d] \in RunRecords BY <1>0
      <3>4. run[d].status \in Statuses BY <3>3 DEF RunRecords
      <3>5. spawning[d] > 0 => d # r /\ d \notin cancelTx.seen
        BY <1>2 DEF CancelCommit, Locked
      <3>6. CASE d = r /\ Live(r)
        <4>1. PICK t \in Statuses :
                /\ run'[d] = [run[d] EXCEPT !.cancel = TRUE, !.status = t]
                /\ t = IF run[d].status = "WAITING" THEN "CANCELLED" ELSE run[d].status
          <5>1. run'[d] = [run[d] EXCEPT !.cancel = TRUE,
                             !.status = IF run[d].status = "WAITING" THEN "CANCELLED" ELSE run[d].status]
            BY <2>1, <3>6 DEF Intended
          <5> QED BY <3>4, <5>1 DEF Statuses, Terminal
        <4>2. /\ run'[d] \in RunRecords /\ run'[d].parent = run[d].parent
              /\ run'[d].depth = run[d].depth /\ run'[d].status = t
          <5> DEFINE y == [run[d] EXCEPT !.cancel = TRUE, !.status = t]
          <5>1. y \in RunRecords /\ y.parent = run[d].parent /\ y.depth = run[d].depth /\ y.status = t
            BY <3>2, <3>3, Zenon
          <5>2. run'[d] = y BY <4>1
          <5> HIDE DEF y
          <5> QED BY <5>1, <5>2
        <4> QED BY <3>5, <3>6, <4>1, <4>2
      <3>7. CASE ~(d = r /\ Live(r)) /\ d \in cancelTx.seen
        <4>1. run'[d] = [run[d] EXCEPT !.cancel = TRUE] BY <2>1, <3>7 DEF Intended
        <4> QED BY <3>1, <3>3, <3>5, <3>7, <4>1
      <3>8. CASE ~(d = r /\ Live(r)) /\ d \notin cancelTx.seen
        <4>1. run'[d] = run[d] BY <2>1, <3>8 DEF Intended
        <4> QED BY <3>3, <4>1
      <3> QED BY <3>6, <3>7, <3>8
    <2>3. run' \in [Runs -> RunRecords]
      <3>1. run' = [d \in Runs |-> run'[d]] BY <2>1 DEF Intended
      <3> QED BY <2>2, <3>1
    <2>4. RunsMove BY <2>2, <2>3 DEF RunsMove, Live, Terminal
    <2>5. held' \subseteq {q \in Runs : run'[q].status = "RUNNING"}
      BY <1>2, <2>2 DEF CancelCommit, SubagentInv, SubagentTypeOK
    <2>6. cancelTx'.run \in Runs \cup {NoRun} /\ cancelTx'.seen \subseteq Runs
      BY <1>2 DEF CancelCommit, Free
    <2> QED BY <1>2, <2>4, <2>5, <2>6, MoveTyped DEF CancelCommit, SubagentInv, SubagentTypeOK, Quiet, bounds
  <1>3. ASSUME CancelFails PROVE SubagentTypeOK' /\ Quiet
    <2> DEFINE r == cancelTx.run
    <2>1. r \in Runs /\ ~(spawning[r] > 0) /\ run' = [run EXCEPT ![r].cancel = @ \/ Live(r)]
      BY <1>3 DEF CancelFails, SubagentInv, SubagentTypeOK, Locked
    <2>2. ASSUME NEW x \in RunRecords, NEW b \in BOOLEAN
          PROVE  /\ [x EXCEPT !.cancel = b] \in RunRecords
                 /\ [x EXCEPT !.cancel = b].parent = x.parent
                 /\ [x EXCEPT !.cancel = b].depth = x.depth
                 /\ [x EXCEPT !.cancel = b].status = x.status
      BY DEF RunRecords
    <2> DEFINE b == run[r].cancel \/ Live(r)
    <2>3. run'[r] = [run[r] EXCEPT !.cancel = b] /\ \A q \in Runs \ {r} : run'[q] = run[q]
      BY <1>0, <2>1
    <2>4. b \in BOOLEAN /\ run[r] \in RunRecords BY <1>0, <2>1 DEF RunRecords
    <2> HIDE DEF b
    <2>5. /\ run'[r] \in RunRecords /\ run'[r].parent = run[r].parent
          /\ run'[r].depth = run[r].depth /\ run'[r].status = run[r].status
      BY <2>2, <2>3, <2>4
    <2>6. run' \in [Runs -> RunRecords] BY <1>0, <2>1, <2>3, <2>5
    <2>7. RunsMove BY <2>1, <2>3, <2>5, <2>6 DEF RunsMove
    <2>8. held' \subseteq {q \in Runs : run'[q].status = "RUNNING"}
      BY <1>3, <2>3, <2>5 DEF CancelFails, SubagentInv, SubagentTypeOK
    <2>9. cancelTx'.run \in Runs \cup {NoRun} /\ cancelTx'.seen \subseteq Runs
      BY <1>3 DEF CancelFails, Free
    <2> QED BY <1>3, <2>7, <2>8, <2>9, MoveTyped DEF CancelFails, SubagentInv, SubagentTypeOK, Quiet, bounds
  <1> QED BY <1>1, <1>2, <1>3

(* A redeployment finds no worker, so no spawn is open.                    *)
LEMMA RedeployQuiet ==
  ASSUME SubagentInv, NEW d \in 0..MaxDepth, Redeploy(d)
  PROVE  SubagentTypeOK' /\ Quiet
  <1>1. RunsMove BY SameMoves DEF Redeploy
  <1>2. \A p \in Runs : spawning'[p] = 0 BY DEF Redeploy, SubagentInv, ChecksStand
  <1>3. LedgerDrained(served') BY DEF Redeploy, Drained
  <1> QED BY <1>1, <1>2, <1>3 DEF Redeploy, SubagentInv, SubagentTypeOK, Quiet, bounds

(* A person's run has no parent: no family changes.                        *)
LEMMA StartKeeps ==
  ASSUME SubagentAssumption, SubagentInv, NEW r \in Runs, StartRoot(r)
  PROVE  SubagentInv' /\ run'[r].parent = NoRun /\ \A q \in Runs \ {r} : run'[q] = run[q]
  <1> USE DEF SubagentInv
  <1>1. run \in [Runs -> RunRecords] /\ run[r] \in RunRecords BY DEF FamilyOK
  <1>2. run[r].status = "none" /\ run[r].parent = NoRun /\ run[r].depth = 0
    BY DEF StartRoot, FamilyOK, Is
  <1>3. run'[r] = [run[r] EXCEPT !.status = "ACCEPTED"] /\ \A q \in Runs \ {r} : run'[q] = run[q]
    BY <1>1 DEF StartRoot, To
  <1>4. ASSUME NEW x \in RunRecords
        PROVE  /\ [x EXCEPT !.status = "ACCEPTED"] \in RunRecords
               /\ [x EXCEPT !.status = "ACCEPTED"].status = "ACCEPTED"
               /\ [x EXCEPT !.status = "ACCEPTED"].parent = x.parent
               /\ [x EXCEPT !.status = "ACCEPTED"].depth = x.depth
    BY DEF RunRecords, Statuses
  <1>5. /\ run'[r] \in RunRecords /\ run'[r].status = "ACCEPTED"
        /\ run'[r].parent = NoRun /\ run'[r].depth = 0
    BY <1>1, <1>2, <1>3, <1>4
  <1>6. run' \in [Runs -> RunRecords]
    <2>1. run' = [run EXCEPT ![r].status = "ACCEPTED"] BY DEF StartRoot, To
    <2> QED BY <1>1, <1>3, <1>5, <2>1
  <1>7. SubagentTypeOK'
    <2>1. \A q \in Runs : /\ run'[q].status \in Statuses /\ run'[q].parent \in Runs \cup {NoRun}
                          /\ run'[q].depth \in 0..MaxDepth /\ run'[q].cancel \in BOOLEAN
      BY <1>6 DEF RunRecords
    <2>2. held' \subseteq {q \in Runs : run'[q].status = "RUNNING"}
      BY <1>2, <1>3 DEF StartRoot, SubagentTypeOK
    <2> QED BY <2>1, <2>2 DEF StartRoot, SubagentTypeOK, bounds
  <1>8. FamilyOK'
    <2>1. ASSUME NEW q \in Runs
          PROVE  IF run'[q].status = "none" THEN run'[q].parent = NoRun /\ run'[q].depth = 0
                 ELSE run'[q].parent # NoRun => /\ run'[run'[q].parent].status # "none"
                                                /\ run'[q].depth = run'[run'[q].parent].depth + 1
      <3>1. CASE q = r BY <1>5, <3>1
      <3>2. CASE q # r
        <4>1. run'[q] = run[q] /\ run[q] \in RunRecords BY <1>1, <1>3, <3>2
        <4>2. run[q].parent # NoRun => run[q].parent \in Runs BY <4>1 DEF RunRecords
        <4>3. run[q].status # "none" /\ run[q].parent # NoRun => run[q].parent # r
          BY <1>2 DEF FamilyOK, Is
        <4> QED BY <1>3, <4>1, <4>2, <4>3 DEF FamilyOK, Is
      <3> QED BY <3>1, <3>2
    <2> QED BY <1>6, <2>1 DEF FamilyOK, Is
  <1>9. ASSUME NEW p \in Runs
        PROVE  Children(p)' = Children(p) /\ LiveChildren(p)' = LiveChildren(p)
    <2>1. p # NoRun BY DEF Runs, NoRun
    <2>2. Children(p)' = Children(p) BY <1>2, <1>3, <1>5, <2>1 DEF Children
    <2>3. r \notin Children(p) BY <1>2 DEF Children
    <2>4. \A q \in Children(p) : run'[q] = run[q] BY <1>3, <2>3 DEF Children
    <2> QED BY <2>2, <2>4 DEF LiveChildren, Live
  <1>10. ChecksStand'
    <2>1. spawning[r] = 0 BY <1>2 DEF ChecksStand, SubagentTypeOK
    <2> QED BY <1>3, <1>9, <2>1 DEF StartRoot, ChecksStand
  <1>11. LimitsHeld'
    <2>1. \A p \in Runs : r \notin Children(p) BY <1>2 DEF Children
    <2>2. \A p \in Runs : \A c \in Children(p) : c \in Runs /\ run[p].status # "none"
      BY DEF Children, FamilyOK, Is, Runs, NoRun
    <2> QED BY <1>2, <1>3, <1>9, <2>1, <2>2 DEF LimitsHeld, LiveChildren
  <1>12. ServedDepths'
    <2>1. served' = served /\ 0 <= served BY DEF StartRoot, SubagentTypeOK
    <2>2. \A q \in Runs \ {r} : Live(q)' => Live(q) /\ run'[q].depth = run[q].depth
      BY <1>3 DEF Live
    <2> QED BY <1>5, <2>1, <2>2 DEF ServedDepths, Routed
  <1> QED BY <1>3, <1>5, <1>7, <1>8, <1>10, <1>11, <1>12

(* The checks of a spawn, made under the lock it takes.                    *)
LEMMA CheckKeeps ==
  ASSUME SubagentAssumption, SubagentInv, NEW p \in Runs, SpawnCheck(p)
  PROVE  SubagentInv'
  <1> USE DEF SubagentInv
  <1>1. spawning \in [Runs -> 0..2] /\ spawning[p] = 0
    BY DEF SpawnCheck, Locked, ChecksStand, SubagentTypeOK
  <1>2. spawning' \in [Runs -> 0..2] /\ spawning'[p] = 1 /\ \A q \in Runs \ {p} : spawning'[q] = spawning[q]
    BY <1>1 DEF SpawnCheck
  <1>3. SubagentTypeOK' BY <1>2 DEF SpawnCheck, SubagentTypeOK, bounds
  <1>4. FamilyOK' /\ LimitsHeld' /\ ServedDepths'
    BY DEF SpawnCheck, FamilyOK, LimitsHeld, ServedDepths, Children, Live, Is, Routed
  <1>5. ChecksStand'
    <2>1. \A q \in Runs : LiveChildren(q)' = LiveChildren(q)
      BY DEF SpawnCheck, LiveChildren, Children, Live
    <2>2. p \in held /\ ~run[p].cancel /\ run[p].depth < served /\ Cardinality(LiveChildren(p)) < MaxConcurrent
      BY DEF SpawnCheck, SpawnAllowed, LiveChildren
    <2> QED BY <1>2, <2>1, <2>2 DEF SpawnCheck, ChecksStand
  <1> QED BY <1>3, <1>4, <1>5

(* The commit of a spawn adds one child to a family that has room for it.  *)
LEMMA CommitKeeps ==
  ASSUME SubagentAssumption, SubagentInv, NEW p \in Runs, SpawnCommit(p)
  PROVE  SubagentInv' /\ NoChildOfCancelled
  <1> USE DEF SubagentInv
  <1>1. PICK c \in Runs :
          /\ Is(c, "none")
          /\ run' = [run EXCEPT ![c] = [status |-> "ACCEPTED", parent |-> p,
                                        depth |-> run[p].depth + 1, cancel |-> FALSE]]
          /\ calls' = [calls EXCEPT ![p] = @ \cup {c}]
    BY DEF SpawnCommit
  <1>2. /\ spawning[p] = 1 /\ p \in held /\ ~run[p].cancel /\ run[p].depth < served
        /\ Cardinality(LiveChildren(p)) < MaxConcurrent
    BY DEF SpawnCommit, ChecksStand
  <1>3. run \in [Runs -> RunRecords] /\ run[p].depth \in 0..MaxDepth
    BY DEF FamilyOK, SubagentTypeOK
  <1>4. run[p].status = "RUNNING" /\ c # p BY <1>1, <1>2 DEF SubagentTypeOK, Is
  <1>5. /\ run'[c] = [status |-> "ACCEPTED", parent |-> p, depth |-> run[p].depth + 1, cancel |-> FALSE]
        /\ \A q \in Runs \ {c} : run'[q] = run[q]
    BY <1>1, <1>3
  <1>6. run'[c].depth \in 0..MaxDepth /\ run'[c].depth <= served
    BY <1>2, <1>3, <1>5 DEF SubagentTypeOK, SubagentAssumption
  <1>7. run'[c] \in RunRecords
    BY <1>5, <1>6 DEF RunRecords, Statuses
  <1>8. run' \in [Runs -> RunRecords] BY <1>1, <1>3, <1>5, <1>7
  <1>9. run[c].status = "none" /\ run[c].parent = NoRun BY <1>1 DEF FamilyOK, Is
  <1>10. spawning' \in [Runs -> 0..2] /\ spawning'[p] = 0 /\ \A q \in Runs \ {p} : spawning'[q] = spawning[q]
    BY <1>2 DEF SpawnCommit, SubagentTypeOK
  <1>11. served' = served /\ held' = held BY DEF SpawnCommit
  <1>12. SubagentTypeOK'
    <2>1. \A q \in Runs : /\ run'[q].status \in Statuses /\ run'[q].parent \in Runs \cup {NoRun}
                          /\ run'[q].depth \in 0..MaxDepth /\ run'[q].cancel \in BOOLEAN
      BY <1>8 DEF RunRecords
    <2>2. held' \subseteq {q \in Runs : run'[q].status = "RUNNING"}
      BY <1>5, <1>9, <1>11 DEF SubagentTypeOK
    <2>3. calls' \in [Runs -> SUBSET (Runs \cup {NoRun})] BY <1>1 DEF SubagentTypeOK
    <2> QED BY <1>10, <2>1, <2>2, <2>3 DEF SpawnCommit, SubagentTypeOK, bounds
  <1>13. \A q \in Runs : run[q].status # "none" => run[q].parent # c /\ run[q].parent \in Runs \cup {NoRun}
    BY <1>9 DEF FamilyOK, Is, Runs, NoRun, SubagentTypeOK
  <1>14. FamilyOK'
    <2>1. ASSUME NEW q \in Runs
          PROVE  IF run'[q].status = "none" THEN run'[q].parent = NoRun /\ run'[q].depth = 0
                 ELSE run'[q].parent # NoRun => /\ run'[run'[q].parent].status # "none"
                                                /\ run'[q].depth = run'[run'[q].parent].depth + 1
      <3>1. CASE q = c
        <4>1. run'[q].parent = p /\ run'[q].status = "ACCEPTED" /\ run'[q].depth = run[p].depth + 1
          BY <1>5, <3>1
        <4>2. run'[p] = run[p] BY <1>4, <1>5
        <4> QED BY <1>4, <4>1, <4>2
      <3>2. CASE q # c
        <4>1. run'[q] = run[q] BY <1>5, <3>2
        <4> QED BY <1>5, <1>13, <4>1 DEF FamilyOK, Is
      <3> QED BY <3>1, <3>2
    <2> QED BY <1>8, <2>1 DEF FamilyOK, Is
  <1>15. ASSUME NEW q \in Runs, q # p
         PROVE  Children(q)' = Children(q) /\ LiveChildren(q)' = LiveChildren(q)
    <2>1. c \notin Children(q) BY <1>9 DEF Children
    <2>2. Children(q)' = Children(q) BY <1>5, <1>9, <1>15 DEF Children
    <2>3. \A x \in Children(q) : run'[x] = run[x] BY <1>5, <2>1 DEF Children
    <2> QED BY <2>2, <2>3 DEF LiveChildren, Live
  <1>16. Children(p)' = Children(p) \cup {c} /\ LiveChildren(p)' = LiveChildren(p) \cup {c} /\ c \notin Children(p)
    <2>1. c \notin Children(p) BY <1>9 DEF Children
    <2>2. Children(p)' = Children(p) \cup {c} BY <1>5, <1>9 DEF Children
    <2>3. \A x \in Children(p) : run'[x] = run[x] BY <1>5, <2>1 DEF Children
    <2>4. run'[c].status = "ACCEPTED" BY <1>5
    <2> QED BY <2>1, <2>2, <2>3, <2>4 DEF LiveChildren, Live, Terminal
  <1>17. Cardinality(LiveChildren(p)') <= MaxConcurrent
    <2>1. LiveChildren(p) \in SUBSET Runs /\ c \notin LiveChildren(p)
      BY <1>16 DEF LiveChildren, Children
    <2>2. IsFiniteSet(LiveChildren(p)) /\ Cardinality(LiveChildren(p)) \in Nat BY <2>1, RunsFinite
    <2>3. Cardinality(LiveChildren(p) \cup {c}) = Cardinality(LiveChildren(p)) + 1
      BY <2>1, <2>2, FS_AddElement
    <2> QED BY <1>2, <1>16, <2>2, <2>3 DEF SubagentAssumption
  <1>18. ChecksStand'
    <2> SUFFICES ASSUME NEW q \in Runs
                 PROVE  /\ spawning'[q] \in {0, 1}
                        /\ spawning'[q] = 1 =>
                             /\ q \in held' /\ ~run'[q].cancel /\ run'[q].depth < served'
                             /\ Cardinality(LiveChildren(q)') < MaxConcurrent
      BY DEF ChecksStand
    <2>1. CASE q = p BY <1>10, <2>1
    <2>2. CASE q # p
      <3>1. spawning'[q] = spawning[q] BY <1>10, <2>2
      <3>2. spawning[q] = 1 => run'[q] = run[q]
        BY <1>5, <1>9 DEF ChecksStand, SubagentTypeOK
      <3> QED BY <1>11, <1>15, <2>2, <3>1, <3>2 DEF ChecksStand
    <2> QED BY <2>1, <2>2
  <1>19. LimitsHeld'
    <2> SUFFICES ASSUME NEW q \in Runs
                 PROVE  /\ Cardinality(LiveChildren(q)') <= MaxConcurrent
                        /\ \A x \in Children(q)' : run'[x].depth = run'[q].depth + 1
      BY DEF LimitsHeld, LiveChildren
    <2>1. Cardinality(LiveChildren(q)') <= MaxConcurrent
      BY <1>15, <1>17 DEF LimitsHeld, LiveChildren
    <2>2. ASSUME NEW x \in Children(q)' PROVE run'[x].depth = run'[q].depth + 1
      <3>1. x \in Runs /\ run'[x].status # "none" /\ run'[x].parent = q /\ q # NoRun
        BY <2>2 DEF Children, Runs, NoRun
      <3> QED BY <1>14, <3>1 DEF FamilyOK, Is
    <2> QED BY <2>1, <2>2
  <1>20. ServedDepths'
    <2>1. \A q \in Runs \ {c} : Live(q)' => Live(q) /\ run'[q].depth = run[q].depth BY <1>5 DEF Live
    <2> QED BY <1>6, <1>11, <2>1 DEF ServedDepths, Routed
  <1>21. NoChildOfCancelled
    <2>1. Live(p) BY <1>4 DEF Live, Terminal
    <2>2. \A x \in Runs : Is(x, "none") /\ run'[x].status # "none" => x = c BY <1>5 DEF Is
    <2> QED BY <1>2, <1>5, <2>1, <2>2 DEF NoChildOfCancelled
  <1> QED BY <1>12, <1>14, <1>18, <1>19, <1>20, <1>21

LEMMA SubagentStep ==
  ASSUME SubagentAssumption, SubagentInv, [SubagentNext]_subagentVars
  PROVE  SubagentInv' /\ NoChildOfCancelled
  <1>1. ASSUME SubagentTypeOK' /\ Quiet PROVE SubagentInv' /\ NoChildOfCancelled
    <2>1. \A c \in Runs : Is(c, "none") => run'[c].status = "none"
      BY <1>1 DEF Quiet, RunsMove, Live, Is
    <2> QED BY <1>1, <2>1, QuietKeeps DEF NoChildOfCancelled
  <1>2. ASSUME NEW r \in Runs, StartRoot(r) PROVE SubagentInv' /\ NoChildOfCancelled
    <2>1. SubagentInv' /\ run'[r].parent = NoRun /\ \A q \in Runs \ {r} : run'[q] = run[q]
      BY <1>2, StartKeeps
    <2> QED BY <2>1 DEF NoChildOfCancelled, Is
  <1>3. ASSUME NEW p \in Runs, SpawnCheck(p) PROVE SubagentInv' /\ NoChildOfCancelled
    BY <1>3, CheckKeeps DEF NoChildOfCancelled, SpawnCheck, Is
  <1>4. ASSUME NEW p \in Runs, SpawnCommit(p) PROVE SubagentInv' /\ NoChildOfCancelled
    BY <1>4, CommitKeeps
  <1>5. CASE UNCHANGED subagentVars
    <2>1. SubagentTypeOK' BY <1>5 DEF subagentVars, SubagentInv, SubagentTypeOK
    <2>2. Quiet BY <1>5, SameMoves DEF subagentVars, Quiet
    <2> QED BY <1>1, <2>1, <2>2
  <1>6. CASE SubagentNext
    <2>1. ASSUME NEW r \in Runs, Enqueue(r) \/ ProjectQueued(r) \/ Take(r)
          PROVE  SubagentInv' /\ NoChildOfCancelled
      BY <1>1, <2>1, QueueQuiet
    <2>2. ASSUME NEW r \in Runs, SpawnFails(r) \/ \E c \in Runs : Adopt(r, c) \/ Poll(r, c)
          PROVE  SubagentInv' /\ NoChildOfCancelled
      BY <1>1, <2>2, CallQuiet
    <2>3. ASSUME NEW r \in Runs, Finish(r) \/ Fails(r) \/ Stop(r) \/ Park(r)
          PROVE  SubagentInv' /\ NoChildOfCancelled
      BY <1>1, <2>3, LeaveQuiet
    <2>4. ASSUME NEW r \in Runs, Answer(r) \/ RecoverOrphan(r)
          PROVE  SubagentInv' /\ NoChildOfCancelled
      BY <1>1, <2>4, ResumeQuiet
    <2>5. ASSUME (\E r \in Runs : CancelRead(r)) \/ CancelCommit \/ CancelFails
          PROVE  SubagentInv' /\ NoChildOfCancelled
      BY <1>1, <2>5, CancelQuiet
    <2>6. ASSUME Crash PROVE SubagentInv' /\ NoChildOfCancelled BY <1>1, <2>6, CrashQuiet
    <2>7. ASSUME NEW d \in 0..MaxDepth, Redeploy(d) PROVE SubagentInv' /\ NoChildOfCancelled
      BY <1>1, <2>7, RedeployQuiet
    <2> QED BY <1>2, <1>3, <1>4, <1>6, <2>1, <2>2, <2>3, <2>4, <2>5, <2>6, <2>7 DEF SubagentNext
  <1> QED BY <1>5, <1>6

(* Whatever spawns, cancellations, crashes and redeployments interleave:   *)
(* the limit on concurrent children and on depth holds, every live run is  *)
(* in a queue that is served, and no child is born under a run that has    *)
(* ended or is to be cancelled (SubagentSpawnService, CancelRunService,    *)
(* assertWorkerTopologyDrained).                                           *)
THEOREM SubagentLimits ==
  ASSUME SubagentAssumption
  PROVE  SubagentSpec => /\ [](SubagentTypeOK /\ LimitsHeld /\ ServedDepths)
                         /\ [][NoChildOfCancelled]_subagentVars
  <1>1. SubagentInit => SubagentInv
    <2> SUFFICES ASSUME SubagentInit PROVE SubagentInv OBVIOUS
    <2>1. run \in [Runs -> RunRecords]
      BY DEF SubagentInit, RunRecords, Statuses, SubagentAssumption
    <2>2. \A r \in Runs : run[r].status = "none" /\ run[r].parent = NoRun /\ run[r].depth = 0
      BY DEF SubagentInit
    <2>3. FamilyOK BY <2>1, <2>2 DEF FamilyOK, Is
    <2>4. SubagentTypeOK
      <3>1. \A r \in Runs : /\ run[r].status \in Statuses /\ run[r].parent \in Runs \cup {NoRun}
                            /\ run[r].depth \in 0..MaxDepth /\ run[r].cancel \in BOOLEAN
        BY <2>1 DEF RunRecords
      <3>2. /\ calls \in [Runs -> SUBSET (Runs \cup {NoRun})] /\ spawning \in [Runs -> 0..2]
            /\ served \in 0..MaxDepth /\ faults \in 0..MaxFaults /\ parks \in 0..MaxParks
        BY DEF SubagentInit, SubagentAssumption
      <3>3. cancelTx.run = NoRun /\ cancelTx.seen = {} /\ jobs = {} /\ held = {} BY DEF SubagentInit, Free
      <3> QED BY <3>1, <3>2, <3>3 DEF SubagentTypeOK
    <2>5. \A p \in Runs : Children(p) = {} BY <2>2 DEF Children
    <2>6. LimitsHeld BY <2>5, FS_EmptySet DEF LimitsHeld, SubagentAssumption
    <2>7. ChecksStand /\ ServedDepths BY <2>2 DEF SubagentInit, ChecksStand, ServedDepths, Live
    <2> QED BY <2>3, <2>4, <2>6, <2>7 DEF SubagentInv
  <1>2. SubagentInv /\ [SubagentNext]_subagentVars => SubagentInv' /\ NoChildOfCancelled
    BY SubagentStep
  <1>3. SubagentInv => SubagentTypeOK /\ LimitsHeld /\ ServedDepths BY DEF SubagentInv
  <1> QED BY <1>1, <1>2, <1>3, PTL DEF SubagentSpec

=============================================================================
