---------------------------- MODULE ServiceProofs ----------------------------
(***************************************************************************)
(* Theorems about three services around a run, for every value of their    *)
(* constants: scheduled jobs (Cron), the tool risk policy (ToolRisk) and   *)
(* the RPC of the execution service (ExecRpc).                             *)
(***************************************************************************)
EXTENDS Cron, ExecRpc, ToolRisk, SequenceTheorems, FiniteSetTheorems, FunctionTheorems,
        WellFoundedInduction, TLAPS

(* A set of numbers that is not empty has a least one.                     *)
LEMMA LeastNumber ==
  ASSUME NEW S, S \subseteq Nat, S # {}
  PROVE  \E x \in S : \A y \in S : x <= y
<1> DEFINE Less == {ss \in Nat \X Nat : ss[1] < ss[2]}
<1>1. IsWellFoundedOn(Less, Nat)
  BY NatLessThanWellFounded DEF OpToRel
<1>2. \E x \in S : \A y \in S : <<y, x>> \notin Less
  <2> HIDE DEF Less
  <2> QED
    BY <1>1, WFMin
<1>3. PICK x \in S : \A y \in S : <<y, x>> \notin Less
  BY <1>2
<1>4. ASSUME NEW y \in S PROVE ~(y < x)
  <2>1. <<y, x>> \in Nat \X Nat /\ <<y, x>>[1] = y /\ <<y, x>>[2] = x
    OBVIOUS
  <2> QED
    BY <1>3, <2>1
<1>5. \A y \in S : x <= y
  BY <1>4
<1> QED
  BY <1>5

-----------------------------------------------------------------------------
(***************************************************************************)
(* Scheduled jobs.                                                         *)
(***************************************************************************)

LEMMA SetMinIsLeast ==
  ASSUME NEW S, S \subseteq Nat, S # {}
  PROVE  SetMin(S) \in S /\ \A y \in S : SetMin(S) <= y
  BY LeastNumber DEF SetMin

-----------------------------------------------------------------------------
(* Types.                                                                  *)
JobRows == [enabled : BOOLEAN, deleted : BOOLEAN, next : Slots \cup {Never}, since : 0 .. MaxTime]
ExecutionRows == [job : Jobs, at : 0 .. Never, claimedAt : Nat, status : Statuses, run : Nat]
RunRows == [for : Nat, live : BOOLEAN]
KeyRows == [for : Nat, run : Nat, expires : Nat]
Actors == Schedulers \cup Manuals
ActorStates == [step : {"idle", "recover", "create", "manual", "done"}, work : SUBSET Nat,
                job : Jobs \cup {Idle.job}, open : BOOLEAN, run : Nat]

CronTypes ==
  /\ now \in 0 .. MaxTime /\ edits \in 0 .. MaxEdits /\ faults \in 0 .. MaxFaults
  /\ jobs \in [Jobs -> JobRows]
  /\ executions \in Seq(ExecutionRows) /\ runs \in Seq(RunRows) /\ keys \in Seq(KeyRows)
  /\ actors \in [Actors -> ActorStates]

(* What refers to what: a run to its execution, a record to its run, and   *)
(* an actor to claims that were not skipped and to the run of the one it   *)
(* executes.                                                               *)
CronRefers ==
  /\ \A r \in DOMAIN runs : runs[r].for \in Ids
  /\ \A e \in Ids : executions[e].run \in 0 .. Len(runs)
  /\ \A e \in Ids : executions[e].status = "SKIPPED" => executions[e].run = 0
  /\ \A n \in DOMAIN keys : keys[n].run \in DOMAIN runs /\ keys[n].for = runs[keys[n].run].for
  /\ \A a \in Actors : \A e \in actors[a].work : e \in Ids /\ executions[e].status # "SKIPPED"
  /\ \A a \in Actors : actors[a].step = "manual" => actors[a].job \in Jobs
  /\ \A a \in Actors : actors[a].run # 0 =>
       /\ actors[a].step \in {"recover", "create"} /\ actors[a].work # {}
       /\ actors[a].run \in DOMAIN runs /\ runs[actors[a].run].for = Turn(a)

CronBase == CronTypes /\ CronRefers

(* Rows are never removed and keep what they were inserted with.           *)
RowsKept ==
  /\ Len(executions) <= Len(executions')
  /\ \A e \in Ids : /\ executions'[e].job = executions[e].job
                    /\ executions'[e].at = executions[e].at

LEMMA TimesAreNumbers ==
  ASSUME CronAssumption
  PROVE  /\ MaxTime \in Nat /\ Never = MaxTime + 1 /\ Never \in Nat /\ Retry \in Nat /\ Ttl \in Nat
         /\ MaxEdits \in Nat /\ MaxFaults \in Nat /\ Slots \subseteq 0 .. MaxTime /\ Slots \subseteq Nat
         /\ RunAt \in Slots
<1>1. /\ MaxTime \in Nat /\ Retry \in Nat /\ Ttl \in Nat /\ MaxEdits \in Nat /\ MaxFaults \in Nat
      /\ Slots \subseteq 0 .. MaxTime /\ Slots # {}
  BY DEF CronAssumption
<1>2. Slots \subseteq Nat
  BY <1>1
<1>3. RunAt \in Slots
  BY <1>1, <1>2, SetMinIsLeast DEF RunAt
<1> QED
  BY <1>1, <1>2, <1>3 DEF Never

(* The next occurrence is the first slot there is after an instant.        *)
LEMMA NextIsFirst ==
  ASSUME CronAssumption, NEW t \in Nat
  PROVE  /\ NextOccurrence(t) \in Slots \cup {Never}
         /\ \A x \in Slots : x > t => NextOccurrence(t) <= x
<1> DEFINE later == {x \in Slots : x > t}
<1>1. later \subseteq Nat /\ later \subseteq Slots
  BY TimesAreNumbers
<1>2. CASE later = {}
  BY <1>2 DEF NextOccurrence
<1>3. CASE later # {}
  <2>1. NextOccurrence(t) = SetMin(later)
    BY <1>3 DEF NextOccurrence
  <2> HIDE DEF later
  <2>2. SetMin(later) \in later /\ \A y \in later : SetMin(later) <= y
    BY <1>1, <1>3, SetMinIsLeast
  <2> QED
    BY <1>1, <2>1, <2>2 DEF later
<1> QED
  BY <1>2, <1>3

LEMMA NextRunIsSlot ==
  ASSUME CronAssumption, CronTypes, NEW j \in Jobs, NEW enabled \in BOOLEAN
  PROVE  NextRunAt(j, enabled) \in Slots \cup {Never}
<1>1. now \in Nat
  BY TimesAreNumbers DEF CronTypes
<1> QED
  BY <1>1, TimesAreNumbers, NextIsFirst DEF NextRunAt

LEMMA IdleType == ASSUME CronAssumption PROVE Idle \in ActorStates
  BY DEF Idle, ActorStates

(* The claim of an actor's turn is one of its claims.                      *)
LEMMA TurnIsWork ==
  ASSUME CronTypes, NEW a \in Actors, actors[a].work # {}
  PROVE  Turn(a) \in actors[a].work
<1>1. actors[a].work \subseteq Nat
  BY DEF CronTypes, ActorStates
<1> QED
  BY <1>1, SetMinIsLeast DEF Turn

(* The order in which a transaction inserts the executions of due jobs.    *)
DueOrder == CHOOSE f \in [1 .. Cardinality(Due) -> Due] :
              \A a, b \in DOMAIN f : a # b => f[a] # f[b]

LEMMA DueInOrder ==
  ASSUME CronAssumption
  PROVE  /\ Cardinality(Due) \in Nat
         /\ DueOrder \in [1 .. Cardinality(Due) -> Due]
         /\ \A a, b \in 1 .. Cardinality(Due) : DueOrder[a] = DueOrder[b] => a = b
         /\ \A j \in Due : \E a \in 1 .. Cardinality(Due) : DueOrder[a] = j
<1> DEFINE D == Due
           n == Cardinality(D)
           order == DueOrder
           Distinct(f) == \A a, b \in DOMAIN f : a # b => f[a] # f[b]
<1>1. IsFiniteSet(D)
  BY FS_Subset DEF CronAssumption, Due
<1> HIDE DEF D
<1>2. n \in Nat /\ ExistsBijection(1 .. n, D)
  BY <1>1, FS_CardinalityType
<1>3. \E f \in [1 .. n -> D] : Distinct(f)
  <2>1. PICK f \in Bijection(1 .. n, D) : TRUE
    BY <1>2 DEF ExistsBijection
  <2> QED
    BY <2>1 DEF Bijection, Injection, IsInjective
<1>4. order \in [1 .. n -> D] /\ Distinct(order)
  <2>1. order = CHOOSE f \in [1 .. n -> D] : Distinct(f)
    BY Zenon DEF D, DueOrder
  <2> HIDE DEF order
  <2> QED
    BY <1>3, <2>1, Zenon
<1>5. \A a, b \in 1 .. n : order[a] = order[b] => a = b
  BY <1>4
<1> HIDE DEF order
<1>6. order \in Injection(1 .. n, D)
  BY <1>4, <1>5, Fun_IsInj
<1>7. IsFiniteSet(1 .. n) /\ Cardinality(1 .. n) = n
  BY <1>2, FS_Interval
<1>8. order \in Surjection(1 .. n, D)
  BY <1>1, <1>6, <1>7, FS_Injection
<1>9. \A j \in D : \E a \in 1 .. n : order[a] = j
  BY <1>8 DEF Surjection
<1> HIDE DEF n
<1> QED
  BY <1>2, <1>4, <1>5, <1>9 DEF D, n, order

LEMMA VerdictType == ASSUME NEW j PROVE Verdict(j) \in {"SKIPPED", "CLAIMED"}
  BY DEF Verdict

(* What claimDue commits: n executions, in some order of the due jobs, of  *)
(* which the scheduler goes on with those it did not skip.                 *)
ClaimsMade(s, n, order, work, step) ==
  /\ \A a, b \in 1 .. n : order[a] = order[b] => a = b
  /\ \A j \in Due : \E a \in 1 .. n : order[a] = j
  /\ executions' \in Seq(ExecutionRows) /\ Len(executions') = Len(executions) + n
  /\ \A e \in Ids : executions'[e] = executions[e]
  /\ \A a \in 1 .. n : executions'[Len(executions) + a]
                         = Claim(order[a], jobs[order[a]].next, Verdict(order[a]))
  /\ jobs' = [j \in Jobs |-> IF j \in Due
                             THEN [jobs[j] EXCEPT !.next = NextAfter(j), !.enabled = j \notin OneTime]
                             ELSE jobs[j]]
  /\ actors' = [actors EXCEPT ![s] = [Idle EXCEPT !.step = step, !.work = work]]
  /\ \A e \in work : \E a \in 1 .. n : e = Len(executions) + a /\ Verdict(order[a]) = "CLAIMED"

LEMMA ClaimsOfDue ==
  ASSUME CronAssumption, CronBase, NEW s \in Actors, ClaimDue(s)
  PROVE  \/ UNCHANGED <<jobs, executions>> /\ actors' = [actors EXCEPT ![s] = Idle]
         \/ \E n \in Nat : \E order \in [1 .. n -> Due], work \in SUBSET Nat, step \in {"idle", "create"} :
              ClaimsMade(s, n, order, work, step)
<1> DEFINE order == DueOrder
           n == Cardinality(Due)
           rows == [a \in DOMAIN order |-> Claim(order[a], jobs[order[a]].next, Verdict(order[a]))]
           claimed == {a \in DOMAIN order : rows[a].status = "CLAIMED"}
           work == {Len(executions) + a : a \in claimed}
           step == IF rows = << >> THEN "idle" ELSE "create"
<1>1. CASE \E j \in Due : Taken(j, jobs[j].next)
  BY <1>1 DEF ClaimDue
<1>2. CASE ~(\E j \in Due : Taken(j, jobs[j].next))
  <2>1. /\ executions' = executions \o rows
        /\ jobs' = [j \in Jobs |-> IF j \in Due
                                   THEN [jobs[j] EXCEPT !.next = NextAfter(j), !.enabled = j \notin OneTime]
                                   ELSE jobs[j]]
        /\ actors' = [actors EXCEPT ![s] = [Idle EXCEPT !.step = step, !.work = work]]
    BY <1>2, Zenon DEF ClaimDue, DueOrder
  <2>2. /\ n \in Nat /\ order \in [1 .. n -> Due]
        /\ \A a, b \in 1 .. n : order[a] = order[b] => a = b
        /\ \A j \in Due : \E a \in 1 .. n : order[a] = j
    BY DueInOrder
  <2> HIDE DEF order, n
  <2>3. DOMAIN order = 1 .. n
    BY <2>2
  <2>4. \A a \in 1 .. n : order[a] \in Due /\ Due \subseteq Jobs
    BY <2>2 DEF Due
  <2>5. ASSUME NEW a \in 1 .. n
        PROVE  Claim(order[a], jobs[order[a]].next, Verdict(order[a])) \in ExecutionRows
    <3>1. jobs[order[a]] \in JobRows /\ jobs[order[a]].next <= now /\ now \in 0 .. MaxTime
      BY <2>4 DEF Due, CronBase, CronTypes
    <3>2. jobs[order[a]].next \in 0 .. Never
      BY <3>1, TimesAreNumbers DEF JobRows
    <3>3. Verdict(order[a]) \in Statuses
      BY VerdictType DEF Statuses
    <3> QED
      BY <2>4, <3>1, <3>2, <3>3, TimesAreNumbers DEF Claim, ExecutionRows
  <2>6. rows \in Seq(ExecutionRows) /\ Len(rows) = n
    <3>1. rows \in [1 .. n -> ExecutionRows]
      BY <2>3, <2>5
    <3> QED
      BY <2>2, <3>1
  <2>7. \A a \in 1 .. n : rows[a] = Claim(order[a], jobs[order[a]].next, Verdict(order[a]))
    BY <2>3
  <2>8. work \in SUBSET Nat /\ step \in {"idle", "create"}
    <3>1. Len(executions) \in Nat /\ claimed \subseteq 1 .. n
      BY <2>3 DEF CronBase, CronTypes
    <3> HIDE DEF claimed
    <3>2. \A a \in claimed : Len(executions) + a \in Nat
      BY <2>2, <3>1
    <3>3. step \in {"idle", "create"}
      <4> HIDE DEF rows
      <4> QED
        OBVIOUS
    <3> QED
      BY <3>2, <3>3
  <2>9. \A e \in work : \E a \in 1 .. n : e = Len(executions) + a /\ Verdict(order[a]) = "CLAIMED"
    BY <2>3, <2>7 DEF Claim
  <2> HIDE DEF rows, work, step
  <2>10. /\ executions' \in Seq(ExecutionRows) /\ Len(executions') = Len(executions) + n
         /\ \A e \in Ids : executions'[e] = executions[e]
         /\ \A a \in 1 .. n : executions'[Len(executions) + a] = rows[a]
    <3>1. executions \in Seq(ExecutionRows)
      BY DEF CronBase, CronTypes
    <3> DEFINE both == executions \o rows
    <3>2. /\ both \in Seq(ExecutionRows)
          /\ Len(both) = Len(executions) + n
          /\ \A i \in 1 .. Len(executions) + n :
               both[i] = IF i <= Len(executions) THEN executions[i] ELSE rows[i - Len(executions)]
      BY <2>6, <3>1, ConcatProperties
    <3>6. executions' = both
      BY <2>1
    <3> HIDE DEF both
    <3>3. \A e \in 1 .. Len(executions) : executions'[e] = executions[e]
      BY <3>6, <2>2, <3>1, <3>2
    <3>4. \A a \in 1 .. n : executions'[Len(executions) + a] = rows[a]
      <4>1. ASSUME NEW a \in 1 .. n PROVE executions'[Len(executions) + a] = rows[a]
        <5>1. Len(executions) + a \in 1 .. Len(executions) + n /\ (Len(executions) + a) - Len(executions) = a
                /\ ~(Len(executions) + a <= Len(executions))
          BY <2>2, <3>1
        <5> QED
          BY <3>6, <3>2, <5>1
      <4> QED
        BY <4>1
    <3>5. executions' \in Seq(ExecutionRows) /\ Len(executions') = Len(executions) + n
      BY <3>6, <3>2
    <3> QED
      BY <3>3, <3>4, <3>5 DEF Ids
  <2> HIDE DEF order
  <2>11. n \in Nat /\ order \in [1 .. n -> Due]
    BY <2>2
  <2>12. ClaimsMade(s, n, order, work, step)
    BY <2>1, <2>2, <2>7, <2>9, <2>10, Zenon DEF ClaimsMade
  <2> QED
    BY <2>8, <2>11, <2>12
<1> QED
  BY <1>1, <1>2

-----------------------------------------------------------------------------
(* Every step keeps types and references.                                  *)
LEMMA BaseInit == ASSUME CronAssumption, Init PROVE CronBase
<1>1. ASSUME NEW j \in Jobs PROVE jobs[j] \in JobRows
  <2>1. NextOccurrence(0) \in Slots \cup {Never}
    BY NextIsFirst
  <2> QED
    BY <2>1, TimesAreNumbers DEF Init, JobRows
<1>2. CronTypes
  BY <1>1, IdleType, TimesAreNumbers DEF Init, CronTypes, Actors
<1>3. CronRefers
  BY DEF Init, CronRefers, Ids, Actors, Idle
<1> QED
  BY <1>2, <1>3 DEF CronBase

LEMMA BaseOwners ==
  ASSUME CronAssumption, CronBase,
         \/ Advance \/ (\E j \in Jobs, enabled \in BOOLEAN : Update(j, enabled)) \/ (\E j \in Jobs : Delete(j))
  PROVE  CronBase'
<1>1. UNCHANGED <<executions, runs, keys, actors, faults>>
  BY DEF Advance, Update, Delete
<1>2. now' \in 0 .. MaxTime /\ edits' \in 0 .. MaxEdits /\ jobs' \in [Jobs -> JobRows]
  <2>1. CASE Advance
    BY <2>1, TimesAreNumbers DEF Advance, CronBase, CronTypes
  <2>2. ASSUME NEW j \in Jobs, NEW enabled \in BOOLEAN, Update(j, enabled)
        PROVE  now' \in 0 .. MaxTime /\ edits' \in 0 .. MaxEdits /\ jobs' \in [Jobs -> JobRows]
    <3>1. NextRunAt(j, enabled) \in Slots \cup {Never}
      BY NextRunIsSlot DEF CronBase
    <3>2. UNCHANGED now /\ edits' \in 0 .. MaxEdits
      <4>1. UNCHANGED now /\ edits < MaxEdits /\ edits' = edits + 1
        BY <2>2 DEF Update
      <4> QED
        BY <4>1, TimesAreNumbers DEF CronBase, CronTypes
    <3> DEFINE row == [jobs[j] EXCEPT !.enabled = enabled, !.next = NextRunAt(j, enabled), !.since = now]
    <3>3. row \in JobRows
      BY <3>1 DEF CronBase, CronTypes, JobRows
    <3>4. jobs' = [jobs EXCEPT ![j] = row]
      BY <2>2 DEF Update
    <3> HIDE DEF row
    <3> QED
      BY <3>2, <3>3, <3>4 DEF CronBase, CronTypes
  <2>3. ASSUME NEW j \in Jobs, Delete(j)
        PROVE  now' \in 0 .. MaxTime /\ edits' \in 0 .. MaxEdits /\ jobs' \in [Jobs -> JobRows]
    <3> DEFINE row == [jobs[j] EXCEPT !.enabled = FALSE, !.deleted = TRUE]
    <3>1. UNCHANGED now /\ edits < MaxEdits /\ edits' = edits + 1
      BY <2>3 DEF Delete
    <3>2. now \in 0 .. MaxTime /\ edits \in 0 .. MaxEdits /\ jobs \in [Jobs -> JobRows] /\ MaxEdits \in Nat
      BY TimesAreNumbers DEF CronBase, CronTypes
    <3>3. row \in JobRows
      BY <3>2 DEF JobRows
    <3>4. jobs' = [jobs EXCEPT ![j] = row]
      BY <2>3, <3>2 DEF Delete
    <3> HIDE DEF row
    <3> QED
      BY <3>1, <3>2, <3>3, <3>4
  <2> QED
    BY <2>1, <2>2, <2>3
<1>3. CronTypes'
  BY <1>1, <1>2 DEF CronBase, CronTypes
<1>4. CronRefers'
  BY <1>1 DEF CronBase, CronRefers, Ids, Turn
<1> QED
  BY <1>3, <1>4 DEF CronBase

LEMMA BaseEndRun ==
  ASSUME CronAssumption, CronBase, NEW r \in DOMAIN runs, EndRun(r)
  PROVE  CronBase'
<1>1. UNCHANGED <<now, jobs, executions, keys, actors, edits, faults>>
  BY DEF EndRun
<1>2. /\ runs' \in Seq(RunRows) /\ Len(runs') = Len(runs) /\ DOMAIN runs' = DOMAIN runs
      /\ \A q \in DOMAIN runs : runs'[q].for = runs[q].for
  <2>1. runs \in Seq(RunRows) /\ runs' = [runs EXCEPT ![r].live = FALSE]
    BY DEF EndRun, CronBase, CronTypes
  <2> DEFINE row == [runs[r] EXCEPT !.live = FALSE]
  <2>2. row \in RunRows /\ row.for = runs[r].for /\ r \in 1 .. Len(runs)
    <3>1. r \in 1 .. Len(runs) /\ runs[r] \in RunRows
      BY <2>1, ElementOfSeq
    <3> QED
      BY <3>1 DEF RunRows
  <2>3. runs' = [runs EXCEPT ![r] = row]
    BY <2>1
  <2> HIDE DEF row
  <2>4. runs' \in Seq(RunRows) /\ Len(runs') = Len(runs) /\ \A q \in 1 .. Len(runs) : runs'[q] = IF q = r THEN row ELSE runs[q]
    BY <2>1, <2>2, <2>3, ExceptSeq DEF row
  <2> QED
    BY <2>1, <2>2, <2>4 DEF row
<1>3. CronTypes'
  BY <1>1, <1>2 DEF CronBase, CronTypes
<1>4. CronRefers'
  BY <1>1, <1>2 DEF CronBase, CronRefers, Ids, Turn
<1> QED
  BY <1>3, <1>4 DEF CronBase

(* One actor turns to claims that are there, or to none.                   *)
LEMMA BaseTurns ==
  ASSUME CronAssumption, CronBase, NEW a \in Actors, NEW state \in ActorStates,
         state.run = 0, state.step = "manual" => state.job \in Jobs,
         actors' = [actors EXCEPT ![a] = state], UNCHANGED <<now, runs, keys, edits>>,
         faults' \in 0 .. MaxFaults, jobs' \in [Jobs -> JobRows], executions' \in Seq(ExecutionRows),
         Len(executions) <= Len(executions'),
         \A e \in 1 .. Len(executions') :
           IF e \in Ids THEN /\ executions'[e].run \in 0 .. Len(runs)
                             /\ executions'[e].status = "SKIPPED"
                                  => executions[e].status = "SKIPPED" /\ executions'[e].run = executions[e].run
                        ELSE executions'[e].run = 0,
         \A e \in state.work : e \in 1 .. Len(executions') /\ executions'[e].status # "SKIPPED"
  PROVE  CronBase'
<1>1. CronTypes'
  BY DEF CronBase, CronTypes
<1>2. Ids \subseteq Ids' /\ Ids' = 1 .. Len(executions')
  BY DEF Ids, CronBase, CronTypes
<1>3. \A b \in Actors : actors'[b] = IF b = a THEN state ELSE actors[b]
  BY DEF CronBase, CronTypes
<1>4. \A r \in DOMAIN runs' : runs'[r].for \in Ids'
  BY <1>2 DEF CronBase, CronRefers
<1>5. \A e \in Ids' : executions'[e].run \in 0 .. Len(runs')
  BY <1>2 DEF CronBase, CronRefers, CronTypes
<1>6. \A e \in Ids' : executions'[e].status = "SKIPPED" => executions'[e].run = 0
  BY <1>2 DEF CronBase, CronRefers
<1>7. ASSUME NEW b \in Actors, NEW e \in actors'[b].work
      PROVE  e \in Ids' /\ executions'[e].status # "SKIPPED"
  <2>1. CASE b = a
    BY <1>2, <1>3, <2>1
  <2>2. CASE b # a
    <3>1. e \in Ids /\ executions[e].status # "SKIPPED"
      BY <1>3, <2>2 DEF CronBase, CronRefers
    <3> QED
      BY <1>2, <3>1
  <2> QED
    BY <2>1, <2>2
<1>8. \A b \in Actors : actors'[b].step = "manual" => actors'[b].job \in Jobs
  BY <1>3 DEF CronBase, CronRefers
<1>9. \A b \in Actors : actors'[b].run # 0 =>
       /\ actors'[b].step \in {"recover", "create"} /\ actors'[b].work # {}
       /\ actors'[b].run \in DOMAIN runs' /\ runs'[actors'[b].run].for = SetMin(actors'[b].work)
  BY <1>3 DEF CronBase, CronRefers, Turn
<1>10. CronRefers'
  BY <1>4, <1>5, <1>6, <1>7, <1>8, <1>9 DEF CronBase, CronRefers, Turn
<1> QED
  BY <1>1, <1>10 DEF CronBase

(* What reconcileRuns leaves of the executions.                            *)
LEMMA ReconciledRows ==
  ASSUME CronBase
  PROVE  /\ Reconciled \in Seq(ExecutionRows) /\ Len(Reconciled) = Len(executions)
         /\ \A e \in Ids : Reconciled[e] =
              IF executions[e].status = "QUEUED" /\ ~Live(executions[e].run)
              THEN [executions[e] EXCEPT !.status = "SUCCEEDED"] ELSE executions[e]
<1>1. Len(executions) \in Nat /\ \A e \in 1 .. Len(executions) : executions[e] \in ExecutionRows
  BY ElementOfSeq DEF CronBase, CronTypes
<1>2. ASSUME NEW e \in Ids PROVE Reconciled[e] \in ExecutionRows
  <2>1. executions[e] \in ExecutionRows
    BY <1>1 DEF Ids
  <2>2. [executions[e] EXCEPT !.status = "SUCCEEDED"] \in ExecutionRows
    BY <2>1 DEF ExecutionRows, Statuses
  <2> QED
    BY <2>1, <2>2 DEF Reconciled
<1>3. Reconciled \in [1 .. Len(executions) -> ExecutionRows]
  BY <1>2 DEF Reconciled, Ids
<1>4. Reconciled \in Seq(ExecutionRows) /\ Len(Reconciled) = Len(executions)
  <2> DEFINE rows == Reconciled
             n == Len(executions)
  <2>1. rows \in [1 .. n -> ExecutionRows] /\ n \in Nat
    BY <1>1, <1>3
  <2> HIDE DEF rows, n
  <2>2. rows \in Seq(ExecutionRows) /\ Len(rows) = n
    BY <2>1
  <2> QED
    BY <2>2 DEF rows, n
<1> QED
  BY <1>4 DEF Reconciled

LEMMA BaseTick ==
  ASSUME CronAssumption, CronBase, NEW s \in Actors, Tick(s)
  PROVE  CronBase'
<1> DEFINE state == [Idle EXCEPT !.step = "recover", !.work = StaleClaims]
           claims == StaleClaims
<1>1. /\ executions' = Reconciled /\ actors' = [actors EXCEPT ![s] = state]
      /\ UNCHANGED <<now, jobs, runs, keys, edits, faults>>
  BY DEF Tick
<1>2. claims \in SUBSET Nat /\ \A e \in claims : e \in Ids /\ executions[e].status = "CLAIMED"
  BY DEF StaleClaims, Ids
<1>3. state \in ActorStates /\ state.run = 0 /\ state.step = "recover" /\ state.work = claims
  <2>1. claims \in SUBSET Nat
    BY <1>2
  <2>2. state = [Idle EXCEPT !.step = "recover", !.work = claims]
    OBVIOUS
  <2> HIDE DEF claims, state
  <2> QED
    BY <2>1, <2>2, IdleType DEF ActorStates, Idle
<1> HIDE DEF state, claims
<1>4. /\ executions' \in Seq(ExecutionRows) /\ Len(executions') = Len(executions)
      /\ \A e \in Ids : /\ executions'[e].run = executions[e].run
                        /\ executions'[e].status = "SKIPPED" => executions[e].status = "SKIPPED"
                        /\ executions[e].status = "CLAIMED" => executions'[e].status = "CLAIMED"
  <2>1. \A e \in Ids : executions[e] \in ExecutionRows
    BY ElementOfSeq DEF CronBase, CronTypes, Ids
  <2> QED
    BY <1>1, <2>1, ReconciledRows DEF ExecutionRows
<1>5. \A e \in 1 .. Len(executions') :
           IF e \in Ids THEN /\ executions'[e].run \in 0 .. Len(runs)
                             /\ executions'[e].status = "SKIPPED"
                                  => executions[e].status = "SKIPPED" /\ executions'[e].run = executions[e].run
                        ELSE executions'[e].run = 0
  BY <1>4 DEF Ids, CronBase, CronRefers
<1>6. \A e \in state.work : e \in 1 .. Len(executions') /\ executions'[e].status # "SKIPPED"
  BY <1>2, <1>3, <1>4 DEF Ids
<1>7. faults' \in 0 .. MaxFaults /\ jobs' \in [Jobs -> JobRows] /\ Len(executions) <= Len(executions')
  BY <1>1, <1>4 DEF CronBase, CronTypes
<1> QED
  BY <1>1, <1>3, <1>4, <1>5, <1>6, <1>7, BaseTurns

(* The rows of jobs whose schedules claimDue advanced.                     *)
LEMMA AdvancedJobs ==
  ASSUME CronAssumption, CronBase, NEW j \in Due
  PROVE  [jobs[j] EXCEPT !.next = NextAfter(j), !.enabled = j \notin OneTime] \in JobRows
<1>1. j \in Jobs /\ jobs[j] \in JobRows /\ jobs[j].next <= now /\ now \in 0 .. MaxTime
  BY DEF Due, CronBase, CronTypes
<1>2. jobs[j].next \in Nat
  BY <1>1, TimesAreNumbers DEF JobRows
<1>3. NextAfter(j) \in Slots \cup {Never}
  BY <1>2, NextIsFirst DEF NextAfter
<1> QED
  BY <1>1, <1>3 DEF JobRows

LEMMA BaseClaims ==
  ASSUME CronAssumption, CronBase, NEW s \in Actors, ClaimAfterRecovery(s)
  PROVE  CronBase'
<1>1. ClaimDue(s) /\ UNCHANGED <<now, runs, keys, edits, faults>>
  BY DEF ClaimAfterRecovery
<1>2. CASE UNCHANGED <<jobs, executions>> /\ actors' = [actors EXCEPT ![s] = Idle]
  <2>1. Idle.run = 0 /\ Idle.step = "idle" /\ Idle.work = {}
    BY DEF Idle
  <2>2. /\ faults' \in 0 .. MaxFaults /\ jobs' \in [Jobs -> JobRows] /\ executions' \in Seq(ExecutionRows)
        /\ Len(executions) <= Len(executions')
    BY <1>1, <1>2 DEF CronBase, CronTypes
  <2>3. \A e \in 1 .. Len(executions') : e \in Ids /\ executions'[e].run \in 0 .. Len(runs)
                                         /\ executions'[e].status = executions[e].status
                                         /\ executions'[e].run = executions[e].run
    BY <1>2 DEF Ids, CronBase, CronRefers
  <2> QED
    BY <1>1, <1>2, <2>1, <2>2, <2>3, IdleType, BaseTurns
<1>3. ASSUME NEW n \in Nat, NEW order \in [1 .. n -> Due], NEW work \in SUBSET Nat,
             NEW step \in {"idle", "create"}, ClaimsMade(s, n, order, work, step)
      PROVE  CronBase'
  <2> DEFINE state == [Idle EXCEPT !.step = step, !.work = work]
  <2>1. state \in ActorStates /\ state.run = 0 /\ state.step = step /\ state.work = work
    BY IdleType DEF ActorStates, Idle
  <2>2. actors' = [actors EXCEPT ![s] = state]
    BY <1>3 DEF ClaimsMade
  <2> HIDE DEF state
  <2>3. jobs' \in [Jobs -> JobRows]
    BY <1>3, AdvancedJobs DEF ClaimsMade, CronBase, CronTypes
  <2>4. executions' \in Seq(ExecutionRows) /\ Len(executions) <= Len(executions') /\ Len(executions) \in Nat
    <3>1. executions' \in Seq(ExecutionRows) /\ Len(executions') = Len(executions) + n
      BY <1>3, Zenon DEF ClaimsMade
    <3>2. executions \in Seq(ExecutionRows)
      BY Zenon DEF CronBase, CronTypes
    <3> QED
      BY <3>1, <3>2
  <2>5. \A a \in 1 .. n : /\ executions'[Len(executions) + a].run = 0
                         /\ executions'[Len(executions) + a].status = Verdict(order[a])
    <3>1. \A a \in 1 .. n : executions'[Len(executions) + a]
                             = Claim(order[a], jobs[order[a]].next, Verdict(order[a]))
      BY <1>3, Zenon DEF ClaimsMade
    <3>2. \A job, at, status : Claim(job, at, status).run = 0 /\ Claim(job, at, status).status = status
      BY DEF Claim
    <3> QED
      BY <3>1, <3>2
  <2>6. ASSUME NEW e \in 1 .. Len(executions')
        PROVE  IF e \in Ids THEN /\ executions'[e].run \in 0 .. Len(runs)
                                 /\ executions'[e].status = "SKIPPED"
                                      => executions[e].status = "SKIPPED" /\ executions'[e].run = executions[e].run
                            ELSE executions'[e].run = 0
    <3>1. CASE e \in Ids
      BY <1>3, <3>1 DEF ClaimsMade, CronBase, CronRefers
    <3>2. CASE e \notin Ids
      <4>1. Len(executions') = Len(executions) + n
        BY <1>3 DEF ClaimsMade
      <4>2. e - Len(executions) \in 1 .. n /\ e = Len(executions) + (e - Len(executions))
        BY <2>4, <3>2, <4>1 DEF Ids
      <4> QED
        BY <2>5, <3>2, <4>2
    <3> QED
      BY <3>1, <3>2
  <2>7. ASSUME NEW e \in work PROVE e \in 1 .. Len(executions') /\ executions'[e].status # "SKIPPED"
    <3>1. PICK a \in 1 .. n : e = Len(executions) + a /\ Verdict(order[a]) = "CLAIMED"
      BY <1>3 DEF ClaimsMade
    <3>2. Len(executions') = Len(executions) + n
      BY <1>3 DEF ClaimsMade
    <3> QED
      BY <2>4, <2>5, <3>1, <3>2
  <2>8. faults' \in 0 .. MaxFaults
    BY <1>1 DEF CronBase, CronTypes
  <2> QED
    BY <1>1, <2>1, <2>2, <2>3, <2>4, <2>6, <2>7, <2>8, BaseTurns
<1> QED
  BY <1>1, <1>2, <1>3, ClaimsOfDue

LEMMA BaseTickEnds ==
  ASSUME CronAssumption, CronBase, NEW s \in Actors, TickEnds(s) \/ Crash(s)
  PROVE  CronBase'
<1>1. actors' = [actors EXCEPT ![s] = Idle] /\ UNCHANGED <<now, jobs, executions, runs, keys, edits>>
  BY DEF TickEnds, Crash
<1>2. faults' \in 0 .. MaxFaults
  BY TimesAreNumbers DEF TickEnds, Crash, CronBase, CronTypes
<1>3. Idle.run = 0 /\ Idle.step = "idle" /\ Idle.work = {}
  BY DEF Idle
<1>4. jobs' \in [Jobs -> JobRows] /\ executions' \in Seq(ExecutionRows) /\ Len(executions) <= Len(executions')
  BY <1>1 DEF CronBase, CronTypes
<1>5. \A e \in 1 .. Len(executions') : e \in Ids /\ executions'[e].run \in 0 .. Len(runs)
                                       /\ executions'[e].status = executions[e].status
                                       /\ executions'[e].run = executions[e].run
  BY <1>1 DEF Ids, CronBase, CronRefers
<1> QED
  BY <1>1, <1>2, <1>3, <1>4, <1>5, IdleType, BaseTurns

LEMMA BaseManualBegin ==
  ASSUME CronAssumption, CronBase, NEW m \in Actors, NEW j \in Jobs, ManualBegin(m, j)
  PROVE  CronBase'
<1> DEFINE open == HasOpenExecution(j)
           state == [Idle EXCEPT !.step = "manual", !.job = j, !.open = open]
<1>1. actors' = [actors EXCEPT ![m] = state] /\ UNCHANGED <<now, jobs, executions, runs, keys, edits, faults>>
  BY DEF ManualBegin
<1>2. open \in BOOLEAN
  BY DEF HasOpenExecution
<1> HIDE DEF open
<1>3. state \in ActorStates /\ state.run = 0 /\ state.step = "manual" /\ state.work = {} /\ state.job = j
  BY <1>2, IdleType DEF ActorStates, Idle
<1> HIDE DEF state
<1>4. /\ jobs' \in [Jobs -> JobRows] /\ executions' \in Seq(ExecutionRows) /\ Len(executions) <= Len(executions')
      /\ faults' \in 0 .. MaxFaults
  BY <1>1 DEF CronBase, CronTypes
<1>5. \A e \in 1 .. Len(executions') : e \in Ids /\ executions'[e].run \in 0 .. Len(runs)
                                       /\ executions'[e].status = executions[e].status
                                       /\ executions'[e].run = executions[e].run
  BY <1>1 DEF Ids, CronBase, CronRefers
<1> QED
  BY <1>1, <1>3, <1>4, <1>5, BaseTurns

LEMMA BaseManualClaim ==
  ASSUME CronAssumption, CronBase, NEW m \in Actors, ManualClaim(m)
  PROVE  CronBase'
<1> DEFINE j == actors[m].job
<1>1. /\ actors[m].step = "manual" /\ UNCHANGED <<now, jobs, runs, keys, edits, faults>>
      /\ \/ /\ actors' = [actors EXCEPT ![m].step = "done"] /\ UNCHANGED executions
         \/ /\ executions' = Append(executions, Claim(j, Never, "CLAIMED"))
            /\ actors' = [actors EXCEPT ![m].step = "create", ![m].work = {Len(executions) + 1}]
  BY DEF ManualClaim
<1>2. j \in Jobs /\ actors[m] \in ActorStates /\ actors[m].run = 0
  BY <1>1 DEF CronBase, CronRefers, CronTypes
<1>3. jobs' \in [Jobs -> JobRows] /\ faults' \in 0 .. MaxFaults
  BY <1>1 DEF CronBase, CronTypes
<1>4. executions \in Seq(ExecutionRows) /\ Len(executions) \in Nat /\ Ids = 1 .. Len(executions)
  BY DEF CronBase, CronTypes, Ids
<1>5. CASE actors' = [actors EXCEPT ![m].step = "done"] /\ UNCHANGED executions
  <2> DEFINE state == [actors[m] EXCEPT !.step = "done"]
  <2>1. actors' = [actors EXCEPT ![m] = state]
    BY <1>5 DEF CronBase, CronTypes
  <2>2. state \in ActorStates /\ state.run = 0 /\ state.step = "done" /\ state.work = actors[m].work
    BY <1>2 DEF ActorStates
  <2> HIDE DEF state
  <2>3. \A e \in 1 .. Len(executions') : e \in Ids /\ executions'[e].run \in 0 .. Len(runs)
                                         /\ executions'[e].status = executions[e].status
                                         /\ executions'[e].run = executions[e].run
    BY <1>5 DEF Ids, CronBase, CronRefers
  <2>4. executions' \in Seq(ExecutionRows) /\ Len(executions) <= Len(executions')
    BY <1>4, <1>5
  <2>5. \A e \in state.work : e \in 1 .. Len(executions') /\ executions'[e].status # "SKIPPED"
    <3>1. \A e \in actors[m].work : e \in Ids /\ executions[e].status # "SKIPPED"
      BY Zenon DEF CronBase, CronRefers
    <3> QED
      BY <1>4, <1>5, <2>2, <3>1
  <2>6. \A e \in 1 .. Len(executions') :
          IF e \in Ids THEN /\ executions'[e].run \in 0 .. Len(runs)
                            /\ executions'[e].status = "SKIPPED"
                                 => executions[e].status = "SKIPPED" /\ executions'[e].run = executions[e].run
                       ELSE executions'[e].run = 0
    BY <2>3
  <2>7. state.step = "manual" => state.job \in Jobs
    BY <2>2
  <2> QED
    BY <1>1, <1>3, <2>1, <2>2, <2>4, <2>5, <2>6, <2>7, BaseTurns
<1>6. CASE /\ executions' = Append(executions, Claim(j, Never, "CLAIMED"))
           /\ actors' = [actors EXCEPT ![m].step = "create", ![m].work = {Len(executions) + 1}]
  <2> DEFINE work == {Len(executions) + 1}
             state == [actors[m] EXCEPT !.step = "create", !.work = work]
             row == Claim(j, Never, "CLAIMED")
  <2>1. actors' = [actors EXCEPT ![m] = state]
    BY <1>6 DEF CronBase, CronTypes
  <2>2. state \in ActorStates /\ state.run = 0 /\ state.step = "create" /\ state.work = work
    <3>1. work \in SUBSET Nat
      BY <1>4
    <3>2. state = [actors[m] EXCEPT !.step = "create", !.work = work]
      OBVIOUS
    <3> HIDE DEF work, state
    <3> QED
      BY <1>2, <3>1, <3>2 DEF ActorStates
  <2> HIDE DEF state
  <2>3. row \in ExecutionRows /\ row.run = 0 /\ row.status = "CLAIMED"
    <3>1. now \in Nat
      BY TimesAreNumbers DEF CronBase, CronTypes
    <3> QED
      BY <1>2, <3>1, TimesAreNumbers DEF Claim, ExecutionRows, Statuses
  <2> HIDE DEF row
  <2>4. /\ executions' \in Seq(ExecutionRows) /\ Len(executions') = Len(executions) + 1
        /\ \A e \in Ids : executions'[e] = executions[e]
        /\ executions'[Len(executions) + 1] = row
    BY <1>4, <1>6, <2>3, AppendProperties DEF row
  <2>5. ASSUME NEW e \in 1 .. Len(executions')
        PROVE  IF e \in Ids THEN /\ executions'[e].run \in 0 .. Len(runs)
                                 /\ executions'[e].status = "SKIPPED"
                                      => executions[e].status = "SKIPPED" /\ executions'[e].run = executions[e].run
                            ELSE executions'[e].run = 0
    <3>1. CASE e \in Ids
      BY <2>4, <3>1 DEF CronBase, CronRefers
    <3>2. CASE e \notin Ids
      BY <1>4, <2>3, <2>4, <3>2
    <3> QED
      BY <3>1, <3>2
  <2>6. \A e \in state.work : e \in 1 .. Len(executions') /\ executions'[e].status # "SKIPPED"
    BY <1>4, <2>2, <2>3, <2>4
  <2>7. Len(executions) <= Len(executions')
    BY <1>4, <2>4
  <2> QED
    BY <1>1, <1>3, <2>1, <2>2, <2>4, <2>5, <2>6, <2>7, BaseTurns
<1> QED
  BY <1>1, <1>5, <1>6

(* An actor is done with its claim, whose execution changed its status.    *)
LEMMA BaseFinishes ==
  ASSUME CronAssumption, CronBase, NEW a \in Actors, RecordRun(a) \/ ExecutionFails(a)
  PROVE  CronBase'
<1> DEFINE e == Turn(a)
           work == actors[a].work \ {Turn(a)}
           state == [actors[a] EXCEPT !.run = 0, !.work = work]
<1>1. /\ UNCHANGED <<now, jobs, runs, keys, edits>> /\ Executing(a)
      /\ actors' = [actors EXCEPT ![a].run = 0, ![a].work = @ \ {Turn(a)}]
  BY DEF RecordRun, ExecutionFails, Finished
<1>2. actors' = [actors EXCEPT ![a] = state] /\ actors[a] \in ActorStates
  BY <1>1 DEF CronBase, CronTypes
<1>3. faults' \in 0 .. MaxFaults
  BY TimesAreNumbers DEF RecordRun, ExecutionFails, CronBase, CronTypes
<1>4. e \in Ids /\ actors[a].step \in {"recover", "create"} /\ e \in actors[a].work
  BY <1>1, TurnIsWork DEF CronBase, CronRefers, Executing
<1> HIDE DEF e
<1>5. work \in SUBSET Nat /\ work \subseteq actors[a].work
  BY <1>2 DEF ActorStates
<1> HIDE DEF work
<1>6. state \in ActorStates /\ state.run = 0 /\ state.step # "manual" /\ state.work = work
  BY <1>2, <1>4, <1>5 DEF ActorStates
<1> HIDE DEF state
<1>7. executions \in Seq(ExecutionRows) /\ Len(executions) \in Nat /\ Ids = 1 .. Len(executions)
      /\ Len(runs) \in Nat
  BY DEF CronBase, CronTypes, Ids
<1>8. \E status \in {"QUEUED", "FAILED"}, recorded \in 0 .. Len(runs) :
        executions' = [executions EXCEPT ![e] = [executions[e] EXCEPT !.status = status, !.run = recorded]]
  <2>1. executions[e] \in ExecutionRows /\ executions[e].run \in 0 .. Len(runs)
    BY <1>4, <1>7, ElementOfSeq DEF CronBase, CronRefers
  <2>2. CASE RecordRun(a)
    <3>1. executions' = [executions EXCEPT ![e].status = "QUEUED", ![e].run = actors[a].run]
      BY <2>2 DEF RecordRun, e
    <3>2. actors[a].run \in 0 .. Len(runs)
      BY <2>2, <1>7 DEF RecordRun, CronBase, CronRefers, CronTypes
    <3>3. executions' = [executions EXCEPT ![e] = [executions[e] EXCEPT !.status = "QUEUED", !.run = actors[a].run]]
      BY <1>4, <1>7, <3>1
    <3> QED
      BY <3>2, <3>3
  <2>3. CASE ExecutionFails(a)
    <3>1. executions' = [executions EXCEPT ![e].status = "FAILED"]
      BY <2>3 DEF ExecutionFails, e
    <3>2. executions' = [executions EXCEPT ![e] = [executions[e] EXCEPT !.status = "FAILED"]]
      BY <1>4, <1>7, <3>1
    <3>3. [executions[e] EXCEPT !.status = "FAILED"]
            = [executions[e] EXCEPT !.status = "FAILED", !.run = executions[e].run]
      BY <2>1 DEF ExecutionRows
    <3> QED
      BY <2>1, <3>2, <3>3
  <2> QED
    BY <2>2, <2>3
<1>9. PICK status \in {"QUEUED", "FAILED"}, recorded \in 0 .. Len(runs) :
        executions' = [executions EXCEPT ![e] = [executions[e] EXCEPT !.status = status, !.run = recorded]]
  BY <1>8
<1> DEFINE row == [executions[e] EXCEPT !.status = status, !.run = recorded]
<1>10. row \in ExecutionRows /\ row.status = status /\ row.run = recorded
  <2>1. executions[e] \in ExecutionRows
    BY <1>4, <1>7, ElementOfSeq
  <2>2. recorded \in Nat /\ status \in Statuses
    BY <1>7 DEF Statuses
  <2> QED
    BY <2>1, <2>2 DEF ExecutionRows
<1>11. executions' = [executions EXCEPT ![e] = row]
  BY <1>9
<1> HIDE DEF row
<1>12. /\ executions' \in Seq(ExecutionRows) /\ Len(executions') = Len(executions)
       /\ \A f \in Ids : executions'[f] = IF f = e THEN row ELSE executions[f]
  BY <1>4, <1>7, <1>10, <1>11, ExceptSeq
<1>13. \A f \in 1 .. Len(executions') :
           IF f \in Ids THEN /\ executions'[f].run \in 0 .. Len(runs)
                             /\ executions'[f].status = "SKIPPED"
                                  => executions[f].status = "SKIPPED" /\ executions'[f].run = executions[f].run
                        ELSE executions'[f].run = 0
  BY <1>7, <1>10, <1>12 DEF CronBase, CronRefers
<1>14. \A f \in state.work : f \in 1 .. Len(executions') /\ executions'[f].status # "SKIPPED"
  BY <1>5, <1>6, <1>7, <1>10, <1>12 DEF CronBase, CronRefers
<1>15. jobs' \in [Jobs -> JobRows] /\ Len(executions) <= Len(executions')
  BY <1>1, <1>7, <1>12 DEF CronBase, CronTypes
<1> QED
  BY <1>1, <1>2, <1>3, <1>6, <1>12, <1>13, <1>14, <1>15, BaseTurns

(* What run creation does for the claim of an actor's turn.                *)
FreshRun(a, e) ==
  /\ \A n \in DOMAIN keys : keys[n].for = e => keys[n].expires <= now
  /\ runs' = Append(runs, [for |-> e, live |-> TRUE])
  /\ keys' = Append(keys, [for |-> e, run |-> Len(runs) + 1, expires |-> now + Ttl])
  /\ actors' = [actors EXCEPT ![a].run = Len(runs) + 1]

KnownRun(a, e) ==
  /\ UNCHANGED <<runs, keys>>
  /\ \E n \in DOMAIN keys : keys[n].for = e /\ actors' = [actors EXCEPT ![a].run = keys[n].run]

LEMMA RunCreated ==
  ASSUME CronAssumption, CronBase, NEW a \in Actors, CreateRun(a)
  PROVE  /\ UNCHANGED <<now, jobs, executions, edits, faults>>
         /\ Executing(a) /\ actors[a].run = 0
         /\ Turn(a) \in Ids /\ Turn(a) \in actors[a].work
         /\ FreshRun(a, Turn(a)) \/ KnownRun(a, Turn(a))
<1> DEFINE e == Turn(a)
           known == Known(e)
           r == IF known = {} THEN Len(runs) + 1 ELSE keys[CHOOSE n \in known : TRUE].run
<1>1. /\ UNCHANGED <<now, jobs, executions, edits, faults>>
      /\ Executing(a) /\ actors[a].run = 0
      /\ runs' = IF known = {} THEN Append(runs, [for |-> e, live |-> TRUE]) ELSE runs
      /\ keys' = IF known = {} THEN Append(keys, [for |-> e, run |-> r, expires |-> now + Ttl]) ELSE keys
      /\ actors' = [actors EXCEPT ![a].run = r]
  BY Zenon DEF CreateRun
<1>2. e \in Ids /\ e \in actors[a].work
  BY <1>1, TurnIsWork DEF CronBase, CronRefers, Executing
<1>3. CASE known = {}
  <2>1. r = Len(runs) + 1
    BY <1>3
  <2>2. \A n \in DOMAIN keys : keys[n].for = e => keys[n].expires <= now
    <3>1. \A n \in DOMAIN keys : keys[n].expires \in Nat /\ now \in Nat
      <4>1. keys \in Seq(KeyRows) /\ now \in Nat
        BY TimesAreNumbers DEF CronBase, CronTypes
      <4>2. \A n \in DOMAIN keys : n \in 1 .. Len(keys)
        BY <4>1
      <4>3. \A n \in DOMAIN keys : keys[n] \in KeyRows
        BY <4>1, <4>2, ElementOfSeq
      <4> QED
        BY <4>1, <4>3 DEF KeyRows
    <3> QED
      BY <1>3, <3>1 DEF Known
  <2> HIDE DEF e, r, known
  <2>3. FreshRun(a, e)
    BY <1>1, <1>3, <2>1, <2>2, Zenon DEF FreshRun
  <2> QED
    BY <1>1, <1>2, <2>3 DEF e
<1>4. CASE known # {}
  <2>1. (CHOOSE n \in known : TRUE) \in known
    BY <1>4
  <2>2. PICK n \in known : r = keys[n].run
    BY <1>4, <2>1
  <2>3. n \in DOMAIN keys /\ keys[n].for = e
    BY <2>2 DEF Known
  <2> HIDE DEF e, r, known
  <2>4. KnownRun(a, e)
    BY <1>1, <1>4, <2>2, <2>3 DEF KnownRun
  <2> QED
    BY <1>1, <1>2, <2>4 DEF e
<1> QED
  BY <1>3, <1>4

(* The tables after a run was created.                                     *)
LEMMA FreshRows ==
  ASSUME CronAssumption, CronBase, NEW a \in Actors, NEW e \in Ids, FreshRun(a, e)
  PROVE  /\ runs' \in Seq(RunRows) /\ DOMAIN runs = 1 .. Len(runs) /\ Len(runs) \in Nat
         /\ DOMAIN runs' = 1 .. Len(runs) + 1 /\ Len(runs') = Len(runs) + 1
         /\ \A r \in DOMAIN runs : runs'[r] = runs[r]
         /\ runs'[Len(runs) + 1] = [for |-> e, live |-> TRUE]
         /\ keys' \in Seq(KeyRows) /\ DOMAIN keys = 1 .. Len(keys) /\ Len(keys) \in Nat
         /\ DOMAIN keys' = 1 .. Len(keys) + 1
         /\ \A n \in DOMAIN keys : keys'[n] = keys[n]
         /\ keys'[Len(keys) + 1] = [for |-> e, run |-> Len(runs) + 1, expires |-> now + Ttl]
<1> DEFINE row == [for |-> e, live |-> TRUE]
           key == [for |-> e, run |-> Len(runs) + 1, expires |-> now + Ttl]
<1>1. runs \in Seq(RunRows) /\ keys \in Seq(KeyRows) /\ Len(runs) \in Nat /\ Len(keys) \in Nat /\ now \in Nat
  BY TimesAreNumbers DEF CronBase, CronTypes
<1>2. e \in Nat
  BY DEF Ids, CronBase, CronTypes
<1>3. row \in RunRows /\ key \in KeyRows
  BY <1>1, <1>2, TimesAreNumbers DEF RunRows, KeyRows
<1>4. runs' = Append(runs, row) /\ keys' = Append(keys, key)
  BY Zenon DEF FreshRun
<1> HIDE DEF row, key
<1>5. /\ runs' \in Seq(RunRows) /\ Len(runs') = Len(runs) + 1
      /\ \A r \in 1 .. Len(runs) : runs'[r] = runs[r]
      /\ runs'[Len(runs) + 1] = row
  BY <1>1, <1>3, <1>4, AppendProperties
<1>6. /\ keys' \in Seq(KeyRows) /\ Len(keys') = Len(keys) + 1
      /\ \A n \in 1 .. Len(keys) : keys'[n] = keys[n]
      /\ keys'[Len(keys) + 1] = key
  BY <1>1, <1>3, <1>4, AppendProperties
<1>7. /\ DOMAIN runs = 1 .. Len(runs) /\ DOMAIN runs' = 1 .. Len(runs) + 1
      /\ DOMAIN keys = 1 .. Len(keys) /\ DOMAIN keys' = 1 .. Len(keys) + 1
  BY <1>1, <1>5, <1>6
<1> QED
  BY <1>1, <1>5, <1>6, <1>7 DEF row, key

LEMMA BaseCreateRun ==
  ASSUME CronAssumption, CronBase, NEW a \in Actors, CreateRun(a)
  PROVE  CronBase'
<1>1. /\ UNCHANGED <<now, jobs, executions, edits, faults>>
      /\ Executing(a) /\ actors[a].run = 0
      /\ Turn(a) \in Ids /\ Turn(a) \in actors[a].work
      /\ FreshRun(a, Turn(a)) \/ KnownRun(a, Turn(a))
  BY RunCreated
<1>2. \E r \in DOMAIN runs' : actors' = [actors EXCEPT ![a].run = r] /\ runs'[r].for = Turn(a)
  <2>1. CASE FreshRun(a, Turn(a))
    <3>1. /\ actors' = [actors EXCEPT ![a].run = Len(runs) + 1]
          /\ Len(runs) + 1 \in DOMAIN runs' /\ runs'[Len(runs) + 1].for = Turn(a)
      BY <1>1, <2>1, FreshRows DEF FreshRun
    <3> QED
      BY <3>1
  <2>2. CASE KnownRun(a, Turn(a))
    BY <2>2 DEF KnownRun, CronBase, CronRefers
  <2> QED
    BY <1>1, <2>1, <2>2
<1>3. /\ runs' \in Seq(RunRows) /\ keys' \in Seq(KeyRows) /\ Len(runs) <= Len(runs')
      /\ \A r \in DOMAIN runs : r \in DOMAIN runs' /\ runs'[r] = runs[r]
      /\ \A r \in DOMAIN runs' : runs'[r].for \in Ids
      /\ \A n \in DOMAIN keys' : keys'[n].run \in DOMAIN runs' /\ keys'[n].for = runs'[keys'[n].run].for
  <2>1. CASE FreshRun(a, Turn(a))
    <3> HIDE DEF CronBase
    <3> DEFINE e == Turn(a)
    <3>1. /\ runs' \in Seq(RunRows) /\ DOMAIN runs = 1 .. Len(runs) /\ Len(runs) \in Nat
          /\ DOMAIN runs' = 1 .. Len(runs) + 1 /\ Len(runs') = Len(runs) + 1
          /\ \A r \in DOMAIN runs : runs'[r] = runs[r]
          /\ runs'[Len(runs) + 1] = [for |-> e, live |-> TRUE]
          /\ keys' \in Seq(KeyRows) /\ DOMAIN keys = 1 .. Len(keys) /\ Len(keys) \in Nat
          /\ DOMAIN keys' = 1 .. Len(keys) + 1
          /\ \A n \in DOMAIN keys : keys'[n] = keys[n]
          /\ keys'[Len(keys) + 1] = [for |-> e, run |-> Len(runs) + 1, expires |-> now + Ttl]
      BY <1>1, <2>1, FreshRows
    <3>2. /\ \A r \in DOMAIN runs : runs[r].for \in Ids
          /\ \A n \in DOMAIN keys : keys[n].run \in DOMAIN runs /\ keys[n].for = runs[keys[n].run].for
      BY DEF CronBase, CronRefers
    <3>3. e \in Ids
      BY <1>1
    <3> HIDE DEF e
    <3>4. \A r \in DOMAIN runs' : runs'[r].for \in Ids
      BY <3>1, <3>2, <3>3
    <3>5. \A n \in DOMAIN keys' : keys'[n].run \in DOMAIN runs' /\ keys'[n].for = runs'[keys'[n].run].for
      <4>1. ASSUME NEW n \in DOMAIN keys'
            PROVE  keys'[n].run \in DOMAIN runs' /\ keys'[n].for = runs'[keys'[n].run].for
        <5>1. CASE n \in DOMAIN keys
          <6>1. keys'[n] = keys[n] /\ keys[n].run \in DOMAIN runs /\ keys[n].for = runs[keys[n].run].for
            BY <3>1, <3>2, <5>1
          <6>2. \A r \in DOMAIN runs : r \in DOMAIN runs' /\ runs'[r] = runs[r]
            BY <3>1
          <6> QED
            BY <6>1, <6>2
        <5>2. CASE n = Len(keys) + 1
          <6>1. keys'[n].run = Len(runs) + 1 /\ keys'[n].for = e
            BY <3>1, <5>2
          <6>2. Len(runs) + 1 \in DOMAIN runs' /\ runs'[Len(runs) + 1].for = e
            BY <3>1
          <6> QED
            BY <6>1, <6>2
        <5> QED
          BY <3>1, <5>1, <5>2
      <4> QED
        BY <4>1
    <3> QED
      BY <3>1, <3>4, <3>5
  <2>2. CASE KnownRun(a, Turn(a))
    BY <2>2 DEF KnownRun, CronBase, CronRefers, CronTypes
  <2> QED
    BY <1>1, <2>1, <2>2
<1>4. PICK r \in DOMAIN runs' : actors' = [actors EXCEPT ![a].run = r] /\ runs'[r].for = Turn(a)
  BY <1>2
<1>5. r \in Nat /\ r # 0 /\ Len(runs) \in Nat /\ Len(runs') \in Nat
  BY <1>3 DEF CronBase, CronTypes
<1>6. actors' \in [Actors -> ActorStates]
  <2>1. actors[a] \in ActorStates /\ actors \in [Actors -> ActorStates]
    BY DEF CronBase, CronTypes
  <2> DEFINE state == [actors[a] EXCEPT !.run = r]
  <2>2. state \in ActorStates
    BY <1>5, <2>1 DEF ActorStates
  <2>3. actors' = [actors EXCEPT ![a] = state]
    BY <1>4, <2>1
  <2> HIDE DEF state
  <2> QED
    BY <2>1, <2>2, <2>3
<1>7. \A b \in Actors : /\ actors'[b].work = actors[b].work /\ actors'[b].step = actors[b].step
                        /\ actors'[b].job = actors[b].job
                        /\ actors'[b].run = IF b = a THEN r ELSE actors[b].run
  BY <1>4 DEF CronBase, CronTypes, ActorStates
<1>8. CronTypes'
  BY <1>1, <1>3, <1>6 DEF CronBase, CronTypes
<1>9. Ids' = Ids /\ \A e \in Ids : executions'[e] = executions[e]
  BY <1>1 DEF Ids
<1>10. \A e \in Ids : executions[e].run \in 0 .. Len(runs')
  BY <1>3, <1>5 DEF CronBase, CronRefers
<1>11. \A b \in Actors : actors'[b].run # 0 =>
       /\ actors'[b].step \in {"recover", "create"} /\ actors'[b].work # {}
       /\ actors'[b].run \in DOMAIN runs' /\ runs'[actors'[b].run].for = SetMin(actors'[b].work)
  BY <1>1, <1>3, <1>4, <1>7 DEF CronBase, CronRefers, Turn, Executing
<1>12. CronRefers'
  <2>1. \A e \in Ids' : executions'[e].status = "SKIPPED" => executions'[e].run = 0
    BY <1>9, Zenon DEF CronBase, CronRefers
  <2>2. \A e \in Ids' : executions'[e].run \in 0 .. Len(runs')
    BY <1>9, <1>10, Zenon
  <2>3. \A r1 \in DOMAIN runs' : runs'[r1].for \in Ids'
    BY <1>3, <1>9, Zenon
  <2>4. \A b \in Actors : \A e \in actors'[b].work : e \in Ids' /\ executions'[e].status # "SKIPPED"
    BY <1>7, <1>9, Zenon DEF CronBase, CronRefers
  <2>5. \A b \in Actors : actors'[b].step = "manual" => actors'[b].job \in Jobs
    BY <1>7, Zenon DEF CronBase, CronRefers
  <2> QED
    BY <1>3, <1>11, <2>1, <2>2, <2>3, <2>4, <2>5, Zenon DEF CronRefers, Turn
<1> QED
  BY <1>8, <1>12 DEF CronBase

(* The actions of a step.                                                  *)
OwnersStep == Advance \/ (\E j \in Jobs, enabled \in BOOLEAN : Update(j, enabled)) \/ (\E j \in Jobs : Delete(j))

LEMMA StepCases ==
  ASSUME [Next]_vars
  PROVE  \/ OwnersStep
         \/ \E a \in Actors : Tick(a)
         \/ \E a \in Actors : ClaimAfterRecovery(a)
         \/ \E a \in Actors : TickEnds(a) \/ Crash(a)
         \/ \E a \in Actors, j \in Jobs : ManualBegin(a, j)
         \/ \E a \in Manuals : ManualClaim(a)
         \/ \E a \in Actors : CreateRun(a)
         \/ \E a \in Actors : RecordRun(a)
         \/ \E a \in Actors : ExecutionFails(a)
         \/ \E r \in DOMAIN runs : EndRun(r)
         \/ UNCHANGED vars
  BY DEF Next, OwnersStep, Schedule, ExecuteClaim, Done, Actors

LEMMA BaseStep == ASSUME CronAssumption, CronBase, [Next]_vars PROVE CronBase'
<1>1. CASE OwnersStep
  BY <1>1, BaseOwners DEF OwnersStep
<1>2. CASE UNCHANGED vars
  BY <1>2 DEF vars, CronBase, CronTypes, CronRefers, Ids, Turn
<1>3. Manuals \subseteq Actors
  BY DEF Actors
<1> QED
  BY <1>1, <1>2, <1>3, StepCases, BaseTick, BaseClaims, BaseTickEnds, BaseManualBegin, BaseManualClaim,
     BaseCreateRun, BaseFinishes, BaseEndRun

(* A scheduled execution has the job it was claimed for, a run belongs to   *)
(* an execution, and a record, a claim and a row refer to what is there.   *)
THEOREM CronIsTyped == ASSUME CronAssumption PROVE Spec => [](CronBase /\ TypeOK)
<1>1. Init => CronBase
  BY BaseInit
<1>2. CronBase /\ [Next]_vars => CronBase'
  BY BaseStep
<1>3. CronBase => TypeOK
  <2> SUFFICES ASSUME CronBase PROVE TypeOK
    OBVIOUS
  <2>1. \A e \in Ids : executions[e] \in ExecutionRows
    BY ElementOfSeq DEF CronBase, CronTypes, Ids
  <2>2. \A e \in Ids : executions[e].job \in Jobs /\ executions[e].status \in Statuses
    BY <2>1 DEF ExecutionRows
  <2>3. \A j \in Jobs : jobs[j].next \in 0 .. Never /\ (jobs[j].next < Never => jobs[j].next \in Slots)
    BY TimesAreNumbers DEF CronBase, CronTypes, JobRows
  <2> QED
    BY <2>2, <2>3 DEF TypeOK, CronBase, CronTypes, CronRefers
<1> QED
  BY <1>1, <1>2, <1>3, PTL DEF Spec

-----------------------------------------------------------------------------
(* What happens to the rows of executions.                                 *)
LEMMA RecordedRows ==
  ASSUME CronBase, NEW a \in Actors, RecordRun(a) \/ ExecutionFails(a)
  PROVE  /\ Turn(a) \in Ids /\ Len(executions') = Len(executions)
         /\ \A f \in Ids : f # Turn(a) => executions'[f] = executions[f]
         /\ executions'[Turn(a)].job = executions[Turn(a)].job
         /\ executions'[Turn(a)].at = executions[Turn(a)].at
         /\ RecordRun(a) => executions'[Turn(a)].status = "QUEUED" /\ executions'[Turn(a)].run = actors[a].run
         /\ ExecutionFails(a) => executions'[Turn(a)].status = "FAILED"
<1> DEFINE e == Turn(a)
<1>1. Executing(a)
  BY DEF RecordRun, ExecutionFails
<1>2. executions \in Seq(ExecutionRows) /\ e \in Ids
  BY <1>1, TurnIsWork DEF CronBase, CronRefers, CronTypes, Executing
<1>3. \/ executions' = [executions EXCEPT ![e].status = "QUEUED", ![e].run = actors[a].run]
      \/ executions' = [executions EXCEPT ![e].status = "FAILED"]
  BY DEF RecordRun, ExecutionFails
<1>4. /\ RecordRun(a) => executions' = [executions EXCEPT ![e].status = "QUEUED", ![e].run = actors[a].run]
      /\ ExecutionFails(a) => executions' = [executions EXCEPT ![e].status = "FAILED"]
  BY DEF RecordRun, ExecutionFails
<1> HIDE DEF e
<1>5. executions[e] \in ExecutionRows /\ DOMAIN executions = Ids
  BY <1>2, ElementOfSeq DEF Ids
<1>6. /\ DOMAIN executions' = DOMAIN executions
      /\ \A f \in Ids : f # e => executions'[f] = executions[f]
      /\ executions'[e].job = executions[e].job /\ executions'[e].at = executions[e].at
      /\ RecordRun(a) => executions'[e].status = "QUEUED" /\ executions'[e].run = actors[a].run
      /\ ExecutionFails(a) => executions'[e].status = "FAILED"
  BY <1>2, <1>3, <1>4, <1>5 DEF ExecutionRows
<1>7. Len(executions') = Len(executions)
  BY <1>2, <1>3, ExceptSeq
<1> QED
  BY <1>2, <1>6, <1>7 DEF e

LEMMA AskedRow ==
  ASSUME CronAssumption, CronBase, NEW m \in Actors, ManualClaim(m)
  PROVE  \/ UNCHANGED executions
         \/ /\ Len(executions') = Len(executions) + 1
            /\ \A e \in Ids : executions'[e] = executions[e]
            /\ executions'[Len(executions) + 1].at = Never
            /\ executions'[Len(executions) + 1].status = "CLAIMED"
<1>1. CASE UNCHANGED executions
  BY <1>1
<1>2. CASE executions' = Append(executions, Claim(actors[m].job, Never, "CLAIMED"))
  <2> DEFINE row == Claim(actors[m].job, Never, "CLAIMED")
  <2>1. executions \in Seq(ExecutionRows) /\ Ids = 1 .. Len(executions)
    BY DEF CronBase, CronTypes, Ids
  <2>2. executions' = Append(executions, row)
    BY <1>2
  <2>3. row \in ExecutionRows
    <3>1. now \in Nat /\ actors[m].job \in Jobs
      BY TimesAreNumbers DEF CronBase, CronTypes, CronRefers, ManualClaim
    <3> QED
      BY <3>1, TimesAreNumbers DEF Claim, ExecutionRows, Statuses
  <2>4. row.at = Never /\ row.status = "CLAIMED"
    BY DEF Claim
  <2> HIDE DEF row
  <2> QED
    BY <2>1, <2>2, <2>3, <2>4, AppendProperties
<1> QED
  BY <1>1, <1>2 DEF ManualClaim

LEMMA RowsStay == ASSUME CronAssumption, CronBase, [Next]_vars PROVE RowsKept
<1>1. CASE UNCHANGED executions
  BY <1>1 DEF RowsKept, CronBase, CronTypes
<1>2. ASSUME NEW a \in Actors, Tick(a) PROVE RowsKept
  <2>1. \A e \in Ids : executions[e] \in ExecutionRows
    BY ElementOfSeq DEF CronBase, CronTypes, Ids
  <2>2. executions' = Reconciled /\ Len(executions) \in Nat
    BY <1>2 DEF Tick, CronBase, CronTypes
  <2> QED
    <3>1. \A e \in Ids : /\ [executions[e] EXCEPT !.status = "SUCCEEDED"].job = executions[e].job
                        /\ [executions[e] EXCEPT !.status = "SUCCEEDED"].at = executions[e].at
      BY <2>1 DEF ExecutionRows
    <3>2. Len(Reconciled) = Len(executions) /\ \A e \in Ids :
            Reconciled[e] = executions[e] \/ Reconciled[e] = [executions[e] EXCEPT !.status = "SUCCEEDED"]
      BY ReconciledRows
    <3>3. \A e \in Ids : Reconciled[e].job = executions[e].job /\ Reconciled[e].at = executions[e].at
      BY <3>1, <3>2
    <3> QED
      BY <2>2, <3>2, <3>3 DEF RowsKept
<1>3. ASSUME NEW a \in Actors, ClaimAfterRecovery(a) PROVE RowsKept
  <2>1. \/ UNCHANGED executions
        \/ \E n \in Nat : /\ Len(executions') = Len(executions) + n
                         /\ \A e \in Ids : executions'[e] = executions[e]
    BY <1>3, ClaimsOfDue, Zenon DEF ClaimAfterRecovery, ClaimsMade
  <2>2. Len(executions) \in Nat
    BY DEF CronBase, CronTypes
  <2> QED
    BY <1>1, <2>1, <2>2 DEF RowsKept
<1>4. ASSUME NEW a \in Actors, ManualClaim(a) PROVE RowsKept
  <2>1. Len(executions) \in Nat
    BY DEF CronBase, CronTypes
  <2> QED
    BY <1>1, <1>4, <2>1, AskedRow DEF RowsKept
<1>5. ASSUME NEW a \in Actors, RecordRun(a) \/ ExecutionFails(a) PROVE RowsKept
  <2>1. Len(executions) \in Nat
    BY DEF CronBase, CronTypes
  <2> QED
    BY <1>5, <2>1, RecordedRows DEF RowsKept
<1>6. CASE \/ OwnersStep
           \/ \E a \in Actors : TickEnds(a) \/ Crash(a)
           \/ \E a \in Actors, j \in Jobs : ManualBegin(a, j)
           \/ \E a \in Actors : CreateRun(a)
           \/ \E r \in DOMAIN runs : EndRun(r)
           \/ UNCHANGED vars
  BY <1>1, <1>6 DEF OwnersStep, Advance, Update, Delete, TickEnds, Crash, ManualBegin, CreateRun, EndRun, vars
<1>7. Manuals \subseteq Actors
  BY DEF Actors
<1> QED
  BY <1>2, <1>3, <1>4, <1>5, <1>6, <1>7, StepCases

-----------------------------------------------------------------------------
(* The slots of a schedule.                                                *)
LEMMA SlotsStep ==
  ASSUME CronAssumption, CronBase, SlotsAccounted, [Next]_vars
  PROVE  SlotsAccounted'
<1>1. RowsKept
  BY RowsStay
<1>2. ASSUME NEW j, NEW t, Taken(j, t) PROVE Taken(j, t)'
  <2>1. PICK e \in Ids : executions[e].job = j /\ executions[e].at = t
    BY <1>2 DEF Taken
  <2>2. e \in Ids'
    <3>1. Len(executions) \in Nat /\ Len(executions') \in Nat
      BY BaseStep DEF CronBase, CronTypes
    <3> QED
      BY <1>1, <3>1 DEF Ids, RowsKept
  <2> QED
    BY <1>1, <2>1, <2>2 DEF RowsKept, Taken
<1>3. CASE UNCHANGED jobs
  BY <1>2, <1>3 DEF SlotsAccounted
<1>4. ASSUME NEW j \in Jobs, NEW enabled \in BOOLEAN, Update(j, enabled) PROVE SlotsAccounted'
  <2> DEFINE row == [jobs[j] EXCEPT !.enabled = enabled, !.next = NextRunAt(j, enabled), !.since = now]
  <2>1. jobs' = [jobs EXCEPT ![j] = row]
    BY <1>4 DEF Update
  <2>2. /\ row.enabled = enabled /\ row.next = NextRunAt(j, enabled) /\ row.since = now
        /\ now \in Nat /\ jobs \in [Jobs -> JobRows]
    BY TimesAreNumbers DEF CronBase, CronTypes, JobRows
  <2> HIDE DEF row
  <2>3. ASSUME NEW i \in Jobs \ OneTime, NEW t \in Slots,
               t > jobs'[i].since, t < jobs'[i].next, jobs'[i].enabled
        PROVE  Taken(i, t)'
    <3>1. CASE i # j
      <4>1. jobs'[i] = jobs[i]
        BY <2>1, <2>2, <3>1
      <4> QED
        BY <1>2, <2>3, <4>1 DEF SlotsAccounted
    <3>2. CASE i = j
      <4>1. jobs'[i] = row
        BY <2>1, <2>2, <3>2
      <4>2. NextRunAt(j, enabled) = NextOccurrence(now)
        BY <2>2, <2>3, <3>2, <4>1 DEF NextRunAt
      <4>3. NextOccurrence(now) <= t
        BY <2>2, <2>3, <4>1, NextIsFirst
      <4>4. t < NextOccurrence(now)
        BY <2>2, <2>3, <4>1, <4>2
      <4>5. t \in Nat /\ NextOccurrence(now) \in Nat
        BY <2>2, TimesAreNumbers, NextIsFirst
      <4> QED
        BY <4>3, <4>4, <4>5
    <3> QED
      BY <3>1, <3>2
  <2> QED
    BY <2>3 DEF SlotsAccounted
<1>5. ASSUME NEW j \in Jobs, Delete(j) PROVE SlotsAccounted'
  <2>1. \A i \in Jobs : IF i = j THEN ~jobs'[i].enabled ELSE jobs'[i] = jobs[i]
    BY <1>5 DEF Delete, CronBase, CronTypes, JobRows
  <2> QED
    BY <1>2, <2>1 DEF SlotsAccounted
<1>6. ASSUME NEW s \in Actors, ClaimAfterRecovery(s) PROVE SlotsAccounted'
  <2>1. ClaimDue(s)
    BY <1>6 DEF ClaimAfterRecovery
  <2>2. ASSUME NEW n \in Nat, NEW order \in [1 .. n -> Due], NEW work, NEW step,
               ClaimsMade(s, n, order, work, step),
               NEW i \in Jobs \ OneTime, NEW t \in Slots,
               t > jobs'[i].since, t < jobs'[i].next, jobs'[i].enabled
        PROVE  Taken(i, t)'
    <3>1. /\ jobs' = [j \in Jobs |-> IF j \in Due
                             THEN [jobs[j] EXCEPT !.next = NextAfter(j), !.enabled = j \notin OneTime]
                             ELSE jobs[j]]
          /\ \A j \in Due : \E a \in 1 .. n : order[a] = j
          /\ \A a \in 1 .. n : executions'[Len(executions) + a]
                             = Claim(order[a], jobs[order[a]].next, Verdict(order[a]))
          /\ Len(executions') = Len(executions) + n
      BY <2>2, Zenon DEF ClaimsMade
    <3>2. jobs[i] \in JobRows /\ jobs[i].next \in Nat /\ t \in Nat /\ Len(executions) \in Nat
      <4>1. jobs[i] \in JobRows /\ executions \in Seq(ExecutionRows)
        BY DEF CronBase, CronTypes
      <4>2. jobs[i].next \in Slots \cup {Never}
        BY <4>1 DEF JobRows
      <4> QED
        BY <4>1, <4>2, TimesAreNumbers
    <3>3. CASE i \notin Due
      <4>1. jobs'[i] = jobs[i]
        BY <3>1, <3>3
      <4> QED
        BY <1>2, <2>2, <4>1 DEF SlotsAccounted
    <3>4. CASE i \in Due
      <4>1. /\ jobs'[i].next = NextOccurrence(jobs[i].next) /\ jobs'[i].since = jobs[i].since
            /\ jobs[i].enabled
        BY <3>1, <3>2, <3>4 DEF NextAfter, JobRows, Due
      <4>2. CASE t < jobs[i].next
        BY <1>2, <2>2, <4>1, <4>2 DEF SlotsAccounted
      <4>3. CASE t = jobs[i].next
        <5>1. PICK a \in 1 .. n : order[a] = i
          BY <3>1, <3>4
        <5>2. executions'[Len(executions) + a] = Claim(i, t, Verdict(i))
          BY <3>1, <4>3, <5>1
        <5>3. Len(executions) + a \in Ids'
          <6>1. Len(executions') = Len(executions) + n /\ Len(executions) \in Nat
            BY <3>1, <3>2
          <6>2. Len(executions) + a \in 1 .. Len(executions')
            BY <6>1
          <6> QED
            BY <6>2 DEF Ids
        <5>4. Claim(i, t, Verdict(i)).job = i /\ Claim(i, t, Verdict(i)).at = t
          BY DEF Claim
        <5> QED
          BY <5>2, <5>3, <5>4 DEF Taken
      <4>4. CASE t > jobs[i].next
        <5>1. NextOccurrence(jobs[i].next) <= t /\ NextOccurrence(jobs[i].next) \in Nat
          BY <3>2, <4>4, NextIsFirst, TimesAreNumbers
        <5> QED
          BY <2>2, <3>2, <4>1, <5>1
      <4> QED
        BY <3>2, <4>2, <4>3, <4>4
    <3> QED
      BY <3>3, <3>4
  <2>3. ASSUME NEW n \in Nat, NEW order \in [1 .. n -> Due], NEW work, NEW step,
               ClaimsMade(s, n, order, work, step)
        PROVE  SlotsAccounted'
    BY <2>2, <2>3 DEF SlotsAccounted
  <2> QED
    BY <1>3, <2>1, <2>3, ClaimsOfDue
<1>7. CASE \/ Advance
           \/ \E a \in Actors : Tick(a)
           \/ \E a \in Actors : TickEnds(a) \/ Crash(a)
           \/ \E a \in Actors, j \in Jobs : ManualBegin(a, j)
           \/ \E a \in Manuals : ManualClaim(a)
           \/ \E a \in Actors : CreateRun(a)
           \/ \E a \in Actors : RecordRun(a)
           \/ \E a \in Actors : ExecutionFails(a)
           \/ \E r \in DOMAIN runs : EndRun(r)
           \/ UNCHANGED vars
  <2>1. UNCHANGED jobs
    BY <1>7 DEF Advance, Tick, TickEnds, Crash, ManualBegin, ManualClaim, CreateRun, RecordRun, ExecutionFails,
                EndRun, vars
  <2> QED
    BY <1>3, <2>1
<1> QED
  BY <1>4, <1>5, <1>6, <1>7, StepCases DEF OwnersStep

(* Whatever the schedulers missed, and whoever crashed, every slot a        *)
(* recurring job passed since its last edit has its execution.             *)
THEOREM EverySlotIsAccounted == ASSUME CronAssumption PROVE Spec => []SlotsAccounted
<1>1. Init => CronBase
  BY BaseInit
<1>2. Init => SlotsAccounted
  <2> SUFFICES ASSUME Init, NEW j \in Jobs \ OneTime, NEW t \in Slots, t > jobs[j].since, t < jobs[j].next
               PROVE  FALSE
    BY DEF SlotsAccounted
  <2>1. jobs[j].since = 0 /\ jobs[j].next = NextOccurrence(0)
    BY DEF Init
  <2>2. NextOccurrence(0) <= t /\ NextOccurrence(0) \in Nat /\ t \in Nat
    BY <2>1, NextIsFirst, TimesAreNumbers
  <2> QED
    BY <2>1, <2>2
<1>3. CronBase /\ [Next]_vars => CronBase'
  BY BaseStep
<1>4. CronBase /\ SlotsAccounted /\ [Next]_vars => SlotsAccounted'
  BY SlotsStep
<1> QED
  BY <1>1, <1>2, <1>3, <1>4, PTL DEF Spec

-----------------------------------------------------------------------------
(* Runs of one execution and their records: the record of a run is the one *)
(* with its number, so that a run made afresh finds the earlier ones dead. *)
RunsHaveRecords ==
  /\ Len(keys) = Len(runs)
  /\ \A r \in DOMAIN runs : keys[r].for = runs[r].for
  /\ RunsLifeApart

(* A run that ends stays the run of its execution.                         *)
LEMMA EndedRows ==
  ASSUME CronBase, NEW r \in DOMAIN runs, EndRun(r)
  PROVE  /\ DOMAIN runs' = DOMAIN runs /\ Len(runs') = Len(runs)
         /\ \A q \in DOMAIN runs : runs'[q].for = runs[q].for
         /\ \A q \in DOMAIN runs : q # r => runs'[q].live = runs[q].live
         /\ ~runs'[r].live
<1>1. runs \in Seq(RunRows) /\ runs' = [runs EXCEPT ![r].live = FALSE]
  BY DEF EndRun, CronBase, CronTypes
<1>2. \A q \in DOMAIN runs : runs[q] \in RunRows
  <2>1. \A q \in DOMAIN runs : q \in 1 .. Len(runs)
    BY <1>1
  <2> QED
    BY <1>1, <2>1, ElementOfSeq
<1>3. Len(runs') = Len(runs)
  BY <1>1, ExceptSeq
<1> QED
  BY <1>1, <1>2, <1>3 DEF RunRows

LEMMA RecordsStep ==
  ASSUME CronAssumption, CronBase, RunsHaveRecords, [Next]_vars
  PROVE  RunsHaveRecords'
<1>1. CASE UNCHANGED <<runs, keys>>
  BY <1>1 DEF RunsHaveRecords, RunsLifeApart
<1>2. ASSUME NEW r \in DOMAIN runs, EndRun(r) PROVE RunsHaveRecords'
  <2>1. UNCHANGED keys
    BY <1>2 DEF EndRun
  <2>2. /\ DOMAIN runs' = DOMAIN runs /\ Len(runs') = Len(runs)
        /\ \A q \in DOMAIN runs : runs'[q].for = runs[q].for
    BY <1>2, EndedRows
  <2> QED
    BY <2>1, <2>2 DEF RunsHaveRecords, RunsLifeApart
<1>3. ASSUME NEW a \in Actors, CreateRun(a) PROVE RunsHaveRecords'
  <2> DEFINE e == Turn(a)
             k == Len(runs) + 1
  <2>1. e \in Ids /\ (FreshRun(a, e) \/ KnownRun(a, e))
    BY <1>3, RunCreated
  <2> HIDE DEF e
  <2>2. CASE KnownRun(a, e)
    BY <1>1, <2>2 DEF KnownRun
  <2>3. CASE FreshRun(a, e)
    <3>1. /\ DOMAIN runs = 1 .. Len(runs) /\ Len(runs) \in Nat
          /\ DOMAIN runs' = 1 .. Len(runs) + 1 /\ Len(runs') = Len(runs) + 1
          /\ \A r \in DOMAIN runs : runs'[r] = runs[r]
          /\ runs'[Len(runs) + 1] = [for |-> e, live |-> TRUE]
          /\ keys' \in Seq(KeyRows)
          /\ DOMAIN keys = 1 .. Len(keys)
          /\ DOMAIN keys' = 1 .. Len(keys) + 1
          /\ \A n \in DOMAIN keys : keys'[n] = keys[n]
          /\ keys'[Len(keys) + 1] = [for |-> e, run |-> Len(runs) + 1, expires |-> now + Ttl]
      BY <2>1, <2>3, FreshRows
    <3>2. Len(keys) = Len(runs) /\ \A r \in DOMAIN runs : keys[r].for = runs[r].for
      BY DEF RunsHaveRecords
    <3>3. Len(keys') = Len(keys) + 1
      BY <3>1, <3>2
    <3>4. keys'[k].for = e /\ keys'[k].expires = now + Ttl /\ runs'[k].for = e
      BY <3>1, <3>2
    <3>5. \A r \in DOMAIN runs : runs[r].for = e => keys[r].expires <= now
      BY <2>3, <3>1, <3>2 DEF FreshRun
    <3>6. \A r \in DOMAIN runs' : keys'[r].for = runs'[r].for
      BY <3>1, <3>2, <3>4
    <3>7. \A r \in DOMAIN runs : keys[r].expires \in Nat
      <4>1. keys \in Seq(KeyRows)
        BY DEF CronBase, CronTypes
      <4>2. \A r \in DOMAIN runs : keys[r] \in KeyRows
        BY <3>1, <3>2, <4>1, ElementOfSeq
      <4> QED
        BY <4>2 DEF KeyRows
    <3>8. now \in Nat /\ Ttl \in Nat
      BY TimesAreNumbers DEF CronBase, CronTypes
    <3>9. ASSUME NEW r \in DOMAIN runs', NEW q \in DOMAIN runs', r < q, runs'[r].for = runs'[q].for
          PROVE  keys'[r].expires + Ttl <= keys'[q].expires
      <4>1. r \in DOMAIN runs /\ runs'[r] = runs[r] /\ keys'[r] = keys[r]
        BY <3>1, <3>2, <3>9
      <4>2. CASE q \in DOMAIN runs
        BY <3>1, <3>2, <3>9, <4>1, <4>2 DEF RunsHaveRecords, RunsLifeApart
      <4>3. CASE q = k
        <5>1. keys[r].expires <= now
          BY <3>4, <3>5, <3>9, <4>1, <4>3
        <5> QED
          BY <3>4, <3>7, <3>8, <4>1, <4>3, <5>1
      <4> QED
        BY <3>1, <4>2, <4>3
    <3> QED
      BY <3>1, <3>2, <3>3, <3>6, <3>9 DEF RunsHaveRecords, RunsLifeApart
  <2> QED
    BY <2>1, <2>2, <2>3
<1>4. CASE \/ OwnersStep
           \/ \E a \in Actors : Tick(a)
           \/ \E a \in Actors : ClaimAfterRecovery(a)
           \/ \E a \in Actors : TickEnds(a) \/ Crash(a)
           \/ \E a \in Actors, j \in Jobs : ManualBegin(a, j)
           \/ \E a \in Manuals : ManualClaim(a)
           \/ \E a \in Actors : RecordRun(a)
           \/ \E a \in Actors : ExecutionFails(a)
           \/ UNCHANGED vars
  BY <1>1, <1>4 DEF OwnersStep, Advance, Update, Delete, Tick, ClaimAfterRecovery, TickEnds, Crash, ManualBegin,
                    ManualClaim, RecordRun, ExecutionFails, vars
<1> QED
  BY <1>2, <1>3, <1>4, StepCases

(* However many schedulers and manual requests claim, execute, fail, crash *)
(* and recover each other's claims, and however short the life of a record *)
(* is, a second run of an execution is a whole life after the first.       *)
THEOREM RunsAreALifeApart ==
  ASSUME CronAssumption PROVE Spec => []RunsLifeApart
<1>1. Init => CronBase /\ RunsHaveRecords
  <2>1. Init => RunsHaveRecords
    BY DEF Init, RunsHaveRecords, RunsLifeApart
  <2> QED
    BY <2>1, BaseInit
<1>2. CronBase /\ [Next]_vars => CronBase'
  BY BaseStep
<1>3. CronBase /\ RunsHaveRecords /\ [Next]_vars => RunsHaveRecords'
  BY RecordsStep
<1>4. RunsHaveRecords => RunsLifeApart
  BY DEF RunsHaveRecords
<1> QED
  BY <1>1, <1>2, <1>3, <1>4, PTL DEF Spec

-----------------------------------------------------------------------------
(* Jobs whose policy is forbid: where the table of executions shows a run. *)
InTable(r) ==
  \/ executions[runs[r].for].status = "CLAIMED"
  \/ executions[runs[r].for].status = "QUEUED" /\ executions[runs[r].for].run = r
  \/ LostSight(r)

(* A queued execution names a run of its own, and a live run is in the     *)
(* table or lost to it.                                                    *)
RunsInSight ==
  /\ \A e \in Ids : executions[e].status \in {"QUEUED", "SUCCEEDED"}
                     => executions[e].run \in DOMAIN runs /\ runs[executions[e].run].for = e
  /\ \A r \in DOMAIN runs : runs[r].live => InTable(r)

(* What a step that makes or ends no run does to a row that exists.        *)
RowMoves(e) ==
  \/ executions'[e].status = executions[e].status /\ executions'[e].run = executions[e].run
  \/ /\ executions[e].status = "QUEUED" /\ ~Live(executions[e].run)
     /\ executions'[e].status = "SUCCEEDED" /\ executions'[e].run = executions[e].run
  \/ /\ executions'[e].status = "QUEUED" /\ executions'[e].run \in DOMAIN runs
     /\ runs[executions'[e].run].for = e
  \/ executions'[e].status = "FAILED"

LEMMA SightKept ==
  ASSUME CronBase, RunsInSight, UNCHANGED runs,
         \A e \in Ids : RowMoves(e),
         \A e \in Ids' \ Ids : executions'[e].status \in {"CLAIMED", "SKIPPED"}
  PROVE  RunsInSight'
<1>1. ASSUME NEW e \in Ids', executions'[e].status \in {"QUEUED", "SUCCEEDED"}
      PROVE  executions'[e].run \in DOMAIN runs' /\ runs'[executions'[e].run].for = e
  <2>1. e \in Ids
    BY <1>1
  <2>2. RowMoves(e)
    BY <2>1
  <2> QED
    BY <1>1, <2>1, <2>2 DEF RowMoves, RunsInSight
<1>2. ASSUME NEW r \in DOMAIN runs', runs'[r].live
      PROVE  InTable(r)'
  <2> DEFINE e == runs[r].for
  <2>1. r \in DOMAIN runs /\ runs[r].live /\ runs' = runs /\ e \in Ids /\ RowMoves(e)
    BY <1>2 DEF CronBase, CronRefers
  <2>2. InTable(r)
    BY <2>1 DEF RunsInSight
  <2>3. LostSight(r)' <=> \/ executions'[e].status = "FAILED"
                          \/ \E q \in DOMAIN runs : q # r /\ runs[q].for = e
    BY <2>1 DEF LostSight
  <2>4. InTable(r)' <=> \/ executions'[e].status = "CLAIMED"
                        \/ executions'[e].status = "QUEUED" /\ executions'[e].run = r
                        \/ LostSight(r)'
    BY <2>1 DEF InTable
  <2>5. r # 0
    <3>1. runs \in Seq(RunRows)
      BY DEF CronBase, CronTypes
    <3> QED
      BY <2>1, <3>1
  <2>6. CASE executions'[e].status = executions[e].status /\ executions'[e].run = executions[e].run
    BY <2>2, <2>3, <2>4, <2>6 DEF InTable, LostSight
  <2>7. CASE /\ executions[e].status = "QUEUED" /\ ~Live(executions[e].run)
             /\ executions'[e].status = "SUCCEEDED" /\ executions'[e].run = executions[e].run
    <3>1. executions[e].run # r
      BY <2>1, <2>5, <2>7 DEF Live
    <3> QED
      BY <2>2, <2>3, <2>4, <2>7, <3>1 DEF InTable, LostSight
  <2>8. CASE /\ executions'[e].status = "QUEUED" /\ executions'[e].run \in DOMAIN runs
             /\ runs[executions'[e].run].for = e
    BY <2>3, <2>4, <2>8
  <2>9. CASE executions'[e].status = "FAILED"
    BY <2>3, <2>4, <2>9
  <2> QED
    BY <2>1, <2>6, <2>7, <2>8, <2>9 DEF RowMoves
<1> QED
  BY <1>1, <1>2 DEF RunsInSight

LEMMA SightCreateRun ==
  ASSUME CronAssumption, CronBase, RunsInSight, NEW a \in Actors, CreateRun(a)
  PROVE  RunsInSight'
<1> DEFINE e == Turn(a)
           k == Len(runs) + 1
<1>1. UNCHANGED executions /\ e \in Ids /\ e \in actors[a].work /\ (FreshRun(a, e) \/ KnownRun(a, e))
  BY RunCreated
<1>2. executions[e].status # "SKIPPED" /\ executions[e].status \in Statuses
  <2>1. executions[e] \in ExecutionRows
    BY <1>1, ElementOfSeq DEF CronBase, CronTypes, Ids
  <2> QED
    BY <1>1, <2>1 DEF CronBase, CronRefers, ExecutionRows
<1> HIDE DEF e
<1>3. Ids' = Ids
  BY <1>1 DEF Ids
<1>4. CASE KnownRun(a, e)
  BY <1>1, <1>3, <1>4 DEF KnownRun, RunsInSight, InTable, LostSight
<1>5. CASE FreshRun(a, e)
  <2>1. /\ DOMAIN runs = 1 .. Len(runs) /\ Len(runs) \in Nat
        /\ DOMAIN runs' = 1 .. Len(runs) + 1
        /\ \A r \in DOMAIN runs : runs'[r] = runs[r]
        /\ runs'[Len(runs) + 1] = [for |-> e, live |-> TRUE]
    BY <1>1, <1>5, FreshRows
  <2>2. runs'[k].for = e /\ k \in DOMAIN runs' /\ k \notin DOMAIN runs
    BY <2>1
  <2>3. ASSUME NEW f \in Ids', executions'[f].status \in {"QUEUED", "SUCCEEDED"}
        PROVE  executions'[f].run \in DOMAIN runs' /\ runs'[executions'[f].run].for = f
    <3>1. executions[f].run \in DOMAIN runs /\ runs[executions[f].run].for = f
      BY <1>1, <1>3, <2>3 DEF RunsInSight
    <3> QED
      BY <1>1, <2>1, <3>1
  <2>4. ASSUME NEW r \in DOMAIN runs', runs'[r].live
        PROVE  InTable(r)'
    <3>1. CASE r \in DOMAIN runs
      <4>1. InTable(r) /\ runs'[r] = runs[r]
        BY <2>1, <2>4, <3>1 DEF RunsInSight
      <4>2. LostSight(r) => LostSight(r)'
        BY <1>1, <2>1, <4>1 DEF LostSight
      <4> QED
        BY <1>1, <4>1, <4>2 DEF InTable
    <3>2. CASE r = k
      <4>1. CASE executions[e].status \in {"CLAIMED", "FAILED"}
        BY <1>1, <2>2, <3>2, <4>1 DEF InTable, LostSight
      <4>2. CASE executions[e].status \in {"QUEUED", "SUCCEEDED"}
        <5> DEFINE q == executions[e].run
        <5>1. q \in DOMAIN runs /\ runs[q].for = e
          BY <1>1, <4>2 DEF RunsInSight
        <5>2. q \in DOMAIN runs' /\ q # k /\ runs'[q].for = e
          BY <2>1, <2>2, <5>1
        <5> HIDE DEF q
        <5> QED
          BY <2>2, <3>2, <5>2 DEF InTable, LostSight
      <4> QED
        BY <1>2, <4>1, <4>2 DEF Statuses
    <3> QED
      BY <2>1, <3>1, <3>2
  <2> QED
    BY <2>3, <2>4 DEF RunsInSight
<1> QED
  BY <1>1, <1>4, <1>5

LEMMA SightEndRun ==
  ASSUME CronBase, RunsInSight, NEW r \in DOMAIN runs, EndRun(r)
  PROVE  RunsInSight'
<1>1. /\ UNCHANGED executions /\ DOMAIN runs' = DOMAIN runs /\ ~runs'[r].live
      /\ \A q \in DOMAIN runs : runs'[q].for = runs[q].for
      /\ \A q \in DOMAIN runs : q # r => runs'[q].live = runs[q].live
  BY EndedRows DEF EndRun
<1>2. Ids' = Ids
  BY <1>1 DEF Ids
<1>3. ASSUME NEW q \in DOMAIN runs', runs'[q].live
      PROVE  InTable(q)'
  <2>1. q \in DOMAIN runs /\ runs[q].live /\ runs'[q].for = runs[q].for
    BY <1>1, <1>3
  <2>2. InTable(q)
    BY <2>1 DEF RunsInSight
  <2>3. LostSight(q) => LostSight(q)'
    BY <1>1, <2>1 DEF LostSight
  <2> QED
    BY <1>1, <2>1, <2>2, <2>3 DEF InTable
<1>4. \A e \in Ids' : executions'[e].status \in {"QUEUED", "SUCCEEDED"}
         => executions'[e].run \in DOMAIN runs' /\ runs'[executions'[e].run].for = e
  BY <1>1, <1>2 DEF RunsInSight
<1> QED
  BY <1>3, <1>4 DEF RunsInSight

LEMMA SightTick ==
  ASSUME CronAssumption, CronBase, RunsInSight, NEW s \in Actors, Tick(s)
  PROVE  RunsInSight'
<1>1. executions' = Reconciled /\ UNCHANGED runs
  BY DEF Tick
<1>2. \A e \in Ids : executions[e] \in ExecutionRows
  BY ElementOfSeq DEF CronBase, CronTypes, Ids
<1>3. Ids' = Ids
  BY <1>1, ReconciledRows DEF Ids
<1>4. ASSUME NEW e \in Ids PROVE RowMoves(e)
  <2>1. LET row == [executions[e] EXCEPT !.status = "SUCCEEDED"]
        IN row.run = executions[e].run /\ row.status = "SUCCEEDED"
    BY <1>2 DEF ExecutionRows
  <2>2. executions'[e] = IF executions[e].status = "QUEUED" /\ ~Live(executions[e].run)
                         THEN [executions[e] EXCEPT !.status = "SUCCEEDED"] ELSE executions[e]
    BY <1>1, ReconciledRows
  <2> QED
    BY <2>1, <2>2 DEF RowMoves
<1> QED
  BY <1>1, <1>3, <1>4, SightKept

(* The rows claimDue inserts, and what it knows about a row it claims.     *)
LEMMA RowsClaimed ==
  ASSUME CronAssumption, CronBase, NEW s \in Actors, ClaimAfterRecovery(s)
  PROVE  /\ UNCHANGED runs
         /\ \A e \in Ids : executions'[e] = executions[e]
         /\ \A e \in Ids' \ Ids :
              /\ executions'[e].status \in {"CLAIMED", "SKIPPED"}
              /\ executions'[e].status = "CLAIMED" /\ executions'[e].job \in Forbid
                   => ~HasOpenExecution(executions'[e].job)
<1>1. ClaimDue(s) /\ UNCHANGED runs
  BY DEF ClaimAfterRecovery
<1>2. CASE UNCHANGED executions
  BY <1>1, <1>2 DEF Ids
<1>3. ASSUME NEW n \in Nat, NEW order \in [1 .. n -> Due], NEW work, NEW step,
             ClaimsMade(s, n, order, work, step),
             NEW e \in Ids' \ Ids
      PROVE  /\ executions'[e].status \in {"CLAIMED", "SKIPPED"}
             /\ executions'[e].status = "CLAIMED" /\ executions'[e].job \in Forbid
                  => ~HasOpenExecution(executions'[e].job)
  <2> DEFINE k == Len(executions)
             a == e - k
  <2>1. /\ \A b \in 1 .. n : executions'[k + b] = Claim(order[b], jobs[order[b]].next, Verdict(order[b]))
        /\ Len(executions') = k + n
    BY <1>3, Zenon DEF ClaimsMade
  <2>2. k \in Nat
    BY DEF CronBase, CronTypes
  <2>3. e \in 1 .. k + n /\ e \notin 1 .. k
    BY <1>3, <2>1 DEF Ids
  <2> HIDE DEF k
  <2>4. a \in 1 .. n /\ e = k + a
    BY <2>2, <2>3
  <2> HIDE DEF a
  <2>5. executions'[e] = Claim(order[a], jobs[order[a]].next, Verdict(order[a]))
    BY <2>1, <2>4
  <2>6. executions'[e].job = order[a] /\ executions'[e].status = Verdict(order[a])
    BY <2>5 DEF Claim
  <2>7. Verdict(order[a]) = "CLAIMED" /\ order[a] \in Forbid => ~HasOpenExecution(order[a])
    BY DEF Verdict
  <2> QED
    BY <2>6, <2>7, VerdictType
<1>4. ASSUME NEW n \in Nat, NEW order \in [1 .. n -> Due], NEW work, NEW step,
             ClaimsMade(s, n, order, work, step)
      PROVE  \A e \in Ids : executions'[e] = executions[e]
  BY <1>4, Zenon DEF ClaimsMade
<1> QED
  <2>1. CASE \E n \in Nat : \E order \in [1 .. n -> Due], work \in SUBSET Nat, step \in {"idle", "create"} :
                ClaimsMade(s, n, order, work, step)
    <3>1. PICK n \in Nat : \E order \in [1 .. n -> Due], work \in SUBSET Nat, step \in {"idle", "create"} :
                ClaimsMade(s, n, order, work, step)
      BY <2>1
    <3>2. PICK order \in [1 .. n -> Due], work \in SUBSET Nat, step \in {"idle", "create"} :
                ClaimsMade(s, n, order, work, step)
      BY <3>1
    <3>3. \A e \in Ids : executions'[e] = executions[e]
      BY <1>4, <3>2
    <3>4. \A e \in Ids' \ Ids :
              /\ executions'[e].status \in {"CLAIMED", "SKIPPED"}
              /\ executions'[e].status = "CLAIMED" /\ executions'[e].job \in Forbid
                   => ~HasOpenExecution(executions'[e].job)
      BY <1>3, <3>2
    <3> QED
      BY <1>1, <3>3, <3>4
  <2> QED
    BY <1>1, <1>2, <2>1, ClaimsOfDue

LEMMA SightStep ==
  ASSUME CronAssumption, CronBase, RunsInSight, [Next]_vars
  PROVE  RunsInSight'
<1>1. CASE UNCHANGED <<executions, runs>>
  BY <1>1 DEF RunsInSight, InTable, LostSight, Ids
<1>2. ASSUME NEW s \in Actors, ClaimAfterRecovery(s) PROVE RunsInSight'
  <2>1. \A e \in Ids : RowMoves(e)
    BY <1>2, RowsClaimed DEF RowMoves
  <2> QED
    BY <1>2, <2>1, RowsClaimed, SightKept
<1>3. ASSUME NEW m \in Manuals, ManualClaim(m) PROVE RunsInSight'
  <2>1. UNCHANGED runs /\ m \in Actors
    BY <1>3 DEF ManualClaim, Actors
  <2>2. CASE UNCHANGED executions
    BY <1>1, <2>1, <2>2
  <2>3. CASE ~UNCHANGED executions
    <3>1. /\ Len(executions') = Len(executions) + 1
          /\ \A e \in Ids : executions'[e] = executions[e]
          /\ executions'[Len(executions) + 1].status = "CLAIMED"
      BY <1>3, <2>1, <2>3, AskedRow
    <3>2. Len(executions) \in Nat
      BY DEF CronBase, CronTypes
    <3>3. \A e \in Ids' \ Ids : e = Len(executions) + 1
      BY <3>1, <3>2 DEF Ids
    <3> QED
      BY <2>1, <3>1, <3>3, SightKept DEF RowMoves
  <2> QED
    BY <2>2, <2>3
<1>4. ASSUME NEW a \in Actors, RecordRun(a) \/ ExecutionFails(a) PROVE RunsInSight'
  <2>1. /\ Turn(a) \in Ids /\ Len(executions') = Len(executions)
        /\ \A f \in Ids : f # Turn(a) => executions'[f] = executions[f]
        /\ RecordRun(a) => executions'[Turn(a)].status = "QUEUED" /\ executions'[Turn(a)].run = actors[a].run
        /\ ExecutionFails(a) => executions'[Turn(a)].status = "FAILED"
    BY <1>4, RecordedRows
  <2>2. UNCHANGED runs
    BY <1>4 DEF RecordRun, ExecutionFails
  <2>3. RecordRun(a) => actors[a].run \in DOMAIN runs /\ runs[actors[a].run].for = Turn(a)
    BY DEF RecordRun, CronBase, CronRefers
  <2>4. \A e \in Ids : RowMoves(e)
    <3>1. RowMoves(Turn(a))
      BY <1>4, <2>1, <2>3 DEF RowMoves
    <3> QED
      BY <2>1, <3>1 DEF RowMoves
  <2>5. Ids' = Ids
    BY <2>1 DEF Ids
  <2> QED
    BY <2>2, <2>4, <2>5, SightKept
<1>5. CASE \/ OwnersStep
           \/ \E a \in Actors : TickEnds(a) \/ Crash(a)
           \/ \E a \in Actors, j \in Jobs : ManualBegin(a, j)
           \/ UNCHANGED vars
  BY <1>1, <1>5 DEF OwnersStep, Advance, Update, Delete, TickEnds, Crash, ManualBegin, vars
<1> QED
  BY <1>2, <1>3, <1>4, <1>5, StepCases, SightTick, SightCreateRun, SightEndRun

(* A row the scheduler claims is of a job whose live runs are all lost to  *)
(* the table: what the table shows counts as open.                         *)
LEMMA ForbidOnStep ==
  ASSUME CronAssumption, CronBase, RunsInSight, [Next]_vars
  PROVE  ForbidHolds
<1>1. CASE Len(executions') = Len(executions)
  BY <1>1 DEF ForbidHolds, Ids
<1>2. ASSUME NEW s \in Actors, ClaimAfterRecovery(s) PROVE ForbidHolds
  <2> SUFFICES ASSUME NEW e \in Ids' \ Ids, executions'[e].status = "CLAIMED", executions'[e].job \in Forbid,
                      NEW r \in DOMAIN runs, runs[r].live, executions[runs[r].for].job = executions'[e].job
               PROVE  LostSight(r)
    BY DEF ForbidHolds
  <2>1. ~HasOpenExecution(executions'[e].job)
    BY <1>2, RowsClaimed
  <2>2. runs[r].for \in Ids /\ InTable(r)
    BY DEF RunsInSight, CronBase, CronRefers
  <2>3. r # 0
    <3>1. runs \in Seq(RunRows)
      BY DEF CronBase, CronTypes
    <3> QED
      BY <3>1
  <2> QED
    BY <2>1, <2>2, <2>3 DEF InTable, HasOpenExecution, Live
<1>3. ASSUME NEW m \in Manuals, ManualClaim(m) PROVE ForbidHolds
  <2>1. m \in Actors /\ Len(executions) \in Nat
    BY DEF Actors, CronBase, CronTypes
  <2>2. CASE UNCHANGED executions
    BY <1>1, <2>2
  <2>3. CASE ~UNCHANGED executions
    <3>1. Len(executions') = Len(executions) + 1 /\ executions'[Len(executions) + 1].at = Never
      BY <1>3, <2>1, <2>3, AskedRow
    <3>2. \A e \in Ids' \ Ids : e = Len(executions) + 1
      BY <2>1, <3>1 DEF Ids
    <3> QED
      BY <3>1, <3>2 DEF ForbidHolds
  <2> QED
    BY <2>2, <2>3
<1>4. ASSUME NEW a \in Actors, RecordRun(a) \/ ExecutionFails(a) PROVE ForbidHolds
  BY <1>1, <1>4, RecordedRows
<1>5. ASSUME NEW a \in Actors, Tick(a) PROVE ForbidHolds
  BY <1>1, <1>5, ReconciledRows DEF Tick
<1>6. CASE \/ OwnersStep
           \/ \E a \in Actors : TickEnds(a) \/ Crash(a)
           \/ \E a \in Actors, j \in Jobs : ManualBegin(a, j)
           \/ \E a \in Actors : CreateRun(a)
           \/ \E r \in DOMAIN runs : EndRun(r)
           \/ UNCHANGED vars
  BY <1>1, <1>6 DEF OwnersStep, Advance, Update, Delete, TickEnds, Crash, ManualBegin, CreateRun, EndRun, vars
<1> QED
  BY <1>2, <1>3, <1>4, <1>5, <1>6, StepCases

(* Every slot is accounted for, runs of one execution are a record's life  *)
(* apart, and the scheduler claims nothing of a forbidden job beside a run *)
(* the table shows: for any jobs, slots, schedulers and manual requests,   *)
(* whatever fails or crashes and however short the life of a record is.    *)
THEOREM CronIsAccounted == ASSUME CronAssumption PROVE Spec => CronAccounted
<1>1. Init => CronBase /\ RunsInSight
  <2>1. Init => RunsInSight
    BY DEF Init, RunsInSight, Ids
  <2> QED
    BY <2>1, BaseInit
<1>2. CronBase /\ [Next]_vars => CronBase'
  BY BaseStep
<1>3. CronBase /\ RunsInSight /\ [Next]_vars => RunsInSight'
  BY SightStep
<1>4. CronBase /\ RunsInSight /\ [Next]_vars => [ForbidHolds]_vars
  BY ForbidOnStep
<1>5. Spec => [][ForbidHolds]_vars
  BY <1>1, <1>2, <1>3, <1>4, PTL DEF Spec
<1>6. Spec => []SlotsAccounted
  BY EverySlotIsAccounted
<1>7. Spec => []RunsLifeApart
  BY RunsAreALifeApart
<1> QED
  BY <1>5, <1>6, <1>7, PTL DEF CronAccounted

-----------------------------------------------------------------------------
(***************************************************************************)
(* The tool risk policy.                                                   *)
(***************************************************************************)

(* A policy whose values are levels and, for the prices, decisions.        *)
SoundPolicy(p) ==
  \A e \in DOMAIN p : p[e] \in IF e \in PriceEntries THEN Decisions ELSE Levels

(* The inductive invariant: the platform's policy is sound, a draft holds *)
(* numbers, and a run that is on bound its version and loaded its policy.  *)
RiskInv ==
  /\ SoundPolicy(platform)
  /\ \A e \in DOMAIN draft : draft[e] \in Levels \cup {Bad}
  /\ \A e \in DOMAIN version : version[e] \in Levels \cup {Bad}
  /\ Running => BindAgentVersionConfig(version) /\ LoadToolRiskPolicy(version)

LEMMA EmptyIsSound == DOMAIN Empty = {} /\ SoundPolicy(Empty) /\ DOMAIN TenantPolicy(Empty) = {}
  BY DEF Empty, SoundPolicy, TenantPolicy

LEMMA RiskInvariant == ASSUME RiskAssumption PROVE RiskSpec => []RiskInv
<1>1. RiskInit => RiskInv
  BY EmptyIsSound DEF RiskInit, RiskInv, Running, Empty
<1>2. RiskInv /\ [RiskNext]_riskVars => RiskInv'
  <2> SUFFICES ASSUME RiskInv, [RiskNext]_riskVars PROVE RiskInv'
    OBVIOUS
  <2> USE DEF RiskInv, SoundPolicy, Running
  <2>1. CASE Deploy
    <3>1. UNCHANGED <<draft, version, run>>
      BY <2>1 DEF Deploy
    <3>2. SoundPolicy(platform')
      BY <2>1 DEF Deploy, With, Has
    <3> QED
      BY <3>1, <3>2 DEF BindAgentVersionConfig, LoadToolRiskPolicy, TenantPolicy, LoadMcpConfig, Exclusive, Has
  <2>2. CASE Discovered
    BY <2>2 DEF Discovered, BindAgentVersionConfig, LoadToolRiskPolicy, TenantPolicy, LoadMcpConfig, Exclusive, Has
  <2>3. CASE Write
    <3>1. /\ UNCHANGED <<platform, version, run>>
          /\ \A e \in DOMAIN draft' : draft'[e] \in Levels \cup {Bad}
      BY <2>3 DEF Write, With, Has, Decisions, Levels, Bad
    <3> QED
      BY <3>1 DEF BindAgentVersionConfig, LoadToolRiskPolicy, TenantPolicy, LoadMcpConfig, Exclusive, Has
  <2>4. CASE Preview
    BY <2>4 DEF Preview, BindAgentVersionConfig, LoadToolRiskPolicy, TenantPolicy, LoadMcpConfig, Exclusive, Has
  <2>5. CASE Save
    BY <2>5 DEF Save, BindAgentVersionConfig, LoadToolRiskPolicy, TenantPolicy, LoadMcpConfig, Exclusive, Has
  <2>6. CASE StartRun
    BY <2>6 DEF StartRun, BindAgentVersionConfig, LoadToolRiskPolicy, TenantPolicy, LoadMcpConfig, Exclusive, Has
  <2>7. CASE UNCHANGED riskVars
    BY <2>7 DEF riskVars, BindAgentVersionConfig, LoadToolRiskPolicy, TenantPolicy, LoadMcpConfig, Exclusive, Has
  <2> QED
    BY <2>1, <2>2, <2>3, <2>4, <2>5, <2>6, <2>7 DEF RiskNext
<1> QED
  BY <1>1, <1>2, PTL DEF RiskSpec

-----------------------------------------------------------------------------
(* What the resolvers return.                                              *)

(* Of the entries that may speak for a tool the most specific one does, so *)
(* the entry that speaks is one the policy has, and never a price.         *)
LEMMA SpeaksIsEntry ==
  ASSUME NEW p, NEW t, NEW servers, NEW cls
  PROVE  \/ Speaks(p, t, servers, cls) = {}
         \/ \E e \in DOMAIN p \ PriceEntries : Speaks(p, t, servers, cls) = {e}
<1> DEFINE scoped == IF servers = {} THEN <<"none", "none">> ELSE <<"scoped", t>>
           order == <<<<"tool", t>>, scoped,
                 IF IsMcp(t) THEN <<"pattern", "mcp__">> ELSE <<"none", "none">>,
                 <<"pattern", "">>,
                 IF servers = {} THEN <<"none", "none">> ELSE <<"serverTool", t>>,
                 IF servers = {} THEN <<"none", "none">> ELSE <<"server", CHOOSE s \in servers : TRUE>>,
                 <<"class", cls>>>>
           hits == {i \in DOMAIN order : Has(p, order[i])}
<1>1. DOMAIN order = 1..7
  OBVIOUS
<1>2. \A i \in 1..7 : order[i] \notin PriceEntries
  <2>1. \A e \in PriceEntries : e[1] = "price"
    BY DEF PriceEntries
  <2>2. /\ order[1][1] # "price" /\ order[2][1] # "price" /\ order[3][1] # "price"
        /\ order[4][1] # "price" /\ order[5][1] # "price" /\ order[6][1] # "price"
        /\ order[7][1] # "price"
    OBVIOUS
  <2> HIDE DEF order
  <2> QED
    BY <2>1, <2>2
<1>3. Speaks(p, t, servers, cls) = IF hits = {} THEN {} ELSE {order[Min(hits)]}
  BY DEF Speaks
<1>4. ASSUME hits # {} PROVE Min(hits) \in hits
  <2> HIDE DEF order
  <2>1. hits \subseteq 1..7
    BY <1>1
  <2> HIDE DEF hits
  <2>2. \E x \in hits : \A y \in hits : x <= y
    <3>1. hits \subseteq Nat
      BY <2>1
    <3> QED
      BY <3>1, <1>4, LeastNumber
  <2> QED
    BY <2>2 DEF Min
<1> HIDE DEF order
<1> QED
  BY <1>1, <1>2, <1>3, <1>4 DEF Has

LEMMA ResolvedLevel ==
  ASSUME NEW p, SoundPolicy(p), NEW t, NEW servers, NEW cls
  PROVE  /\ ResolveToolRiskLevel(p, t, servers, cls).level \in Levels
         /\ ~ResolveToolRiskLevel(p, t, servers, cls).configured
               => ResolveToolRiskLevel(p, t, servers, cls).level = DefaultClassRisk(cls) /\ cls # "unknown"
<1> DEFINE hit == Speaks(p, t, servers, cls)
           level == IF hit = {} THEN DefaultClassRisk(cls) ELSE p[CHOOSE e \in hit : TRUE]
<1>1. ResolveToolRiskLevel(p, t, servers, cls)
        = [level |-> level,
           configured |-> ~(hit \subseteq {<<"class", cls>>}) \/ cls = "unknown" \/ level # DefaultClassRisk(cls)]
  BY DEF ResolveToolRiskLevel
<1>2. DefaultClassRisk(cls) \in Levels
  BY DEF DefaultClassRisk, Levels, High, Critical
<1>3. level \in Levels
  <2>1. CASE hit = {}
    BY <2>1, <1>2
  <2>2. CASE \E e \in DOMAIN p \ PriceEntries : hit = {e}
    <3>1. PICK e \in DOMAIN p \ PriceEntries : hit = {e}
      BY <2>2
    <3>2. (CHOOSE x \in hit : TRUE) = e
      BY <3>1
    <3>3. hit # {}
      BY <3>1
    <3> QED
      BY <3>1, <3>2, <3>3 DEF SoundPolicy
  <2> QED
    BY <2>1, <2>2, SpeaksIsEntry
<1>4. ~ResolveToolRiskLevel(p, t, servers, cls).configured
        => level = DefaultClassRisk(cls) /\ cls # "unknown"
  <2> DEFINE own == hit \subseteq {<<"class", cls>>}
             known == ResolveToolRiskLevel(p, t, servers, cls).configured
  <2>1. known = (~own \/ cls = "unknown" \/ level # DefaultClassRisk(cls))
    <3> HIDE DEF own, level, hit
    <3>1. \A x, y : [level |-> x, configured |-> y].configured = y
      OBVIOUS
    <3> QED
      BY <1>1, <3>1 DEF own
  <2> HIDE DEF level, hit, own, known
  <2>2. ~known => level = DefaultClassRisk(cls) /\ cls # "unknown"
    BY <2>1
  <2> QED
    BY <2>2 DEF known
<1> QED
  BY <1>1, <1>3, <1>4

LEMMA PriceIsDecision ==
  ASSUME NEW p, SoundPolicy(p), NEW l \in Levels
  PROVE  DecisionForRiskLevel(p, l) \in Decisions
<1>1. PriceOf(l) \in PriceEntries
  BY DEF PriceOf, PriceEntries, PriceNames, Levels
<1>2. DefaultApproval(l) \in Decisions
  BY DEF DefaultApproval, Decisions, Allow, Deny
<1> QED
  BY <1>1, <1>2 DEF DecisionForRiskLevel, SoundPolicy, Has

LEMMA TenantIsSound ==
  ASSUME NEW v, LoadToolRiskPolicy(v)
  PROVE  SoundPolicy(TenantPolicy(v))
  BY DEF LoadToolRiskPolicy, SoundPolicy, TenantPolicy

(* The level of a run is one of the vocabulary and at least the platform's *)
(* own, which is what it is without a version.                             *)
LEMMA EffectiveLevel ==
  ASSUME NEW p, SoundPolicy(p), NEW v, LoadToolRiskPolicy(v), NEW t
  PROVE  /\ EffectiveRisk(p, v, t) \in Levels
         /\ EffectiveRisk(p, Empty, t) \in Levels
         /\ EffectiveRisk(p, Empty, t) <= EffectiveRisk(p, v, t)
<1> DEFINE base == ResolveToolRiskLevel(p, t, SplitMcpName(t), ClassifyTool(t))
           own == PlatformOnly(p, base, t)
           tenantHit == ResolveToolRiskLevel(TenantPolicy(v), t, SplitMcpName(t), ClassifyTool(t))
           more == IF DOMAIN TenantPolicy(v) # {} /\ tenantHit.configured THEN tenantHit.level ELSE 0
<1>1. base.level \in Levels /\ tenantHit.level \in Levels
  BY ResolvedLevel, TenantIsSound
<1>2. own \in Levels
  <2> HIDE DEF base
  <2> QED
    BY <1>1 DEF PlatformOnly, Strictest, Levels, High
<1>3. more \in Levels
  <2> HIDE DEF tenantHit
  <2> QED
    BY <1>1 DEF Levels
<1>4. EffectiveRisk(p, v, t) = Strictest(own, more)
  BY DEF EffectiveRisk
<1>5. EffectiveRisk(p, Empty, t) = Strictest(own, 0)
  BY EmptyIsSound DEF EffectiveRisk
<1> HIDE DEF own, more
<1> QED
  BY <1>2, <1>3, <1>4, <1>5 DEF Strictest, Levels

LEMMA RunPolicyBounds ==
  ASSUME NEW p, SoundPolicy(p), NEW v, LoadToolRiskPolicy(v), NEW t
  PROVE  /\ RunPolicy(p, v, t) \in Decisions
         /\ DecisionForRiskLevel(p, EffectiveRisk(p, v, t)) <= RunPolicy(p, v, t)
         /\ RunPolicy(p, Empty, t) = DecisionForRiskLevel(p, EffectiveRisk(p, Empty, t))
<1> DEFINE risk == EffectiveRisk(p, v, t)
           alone == EffectiveRisk(p, Empty, t)
           more == IF DOMAIN TenantPolicy(v) = {} THEN Allow ELSE DecisionForRiskLevel(TenantPolicy(v), risk)
<1>1. risk \in Levels /\ alone \in Levels
  BY EffectiveLevel
<1>2. /\ DecisionForRiskLevel(p, risk) \in Decisions
      /\ DecisionForRiskLevel(p, alone) \in Decisions
      /\ DecisionForRiskLevel(TenantPolicy(v), risk) \in Decisions
  <2>1. SoundPolicy(TenantPolicy(v))
    BY TenantIsSound
  <2> QED
    BY <1>1, <2>1, PriceIsDecision
<1>3. more \in Decisions
  BY <1>2 DEF Allow, Decisions
<1>4. RunPolicy(p, v, t) = Strictest(DecisionForRiskLevel(p, risk), more)
  BY DEF RunPolicy
<1>5. RunPolicy(p, Empty, t) = Strictest(DecisionForRiskLevel(p, alone), Allow)
  BY EmptyIsSound DEF RunPolicy
<1> HIDE DEF risk, alone, more
<1>6. RunPolicy(p, v, t) \in Decisions /\ DecisionForRiskLevel(p, risk) <= RunPolicy(p, v, t)
  BY <1>2, <1>3, <1>4 DEF Strictest, Decisions
<1>7. RunPolicy(p, Empty, t) = DecisionForRiskLevel(p, alone)
  BY <1>2, <1>5 DEF Strictest, Decisions, Allow
<1> QED
  BY <1>6, <1>7 DEF risk, alone

LEMMA RunDecisionBounds ==
  ASSUME NEW p, SoundPolicy(p), NEW v, LoadToolRiskPolicy(v), NEW t, BindAgentVersionConfig(v),
         \A e \in DOMAIN v : v[e] \in Levels \cup {Bad}
  PROVE  /\ RunDecision(p, v, t) \in Nat
         /\ RunPolicy(p, v, t) <= RunDecision(p, v, t)
         /\ t \in Tools /\ Has(v, <<"decide", t>>) => v[<<"decide", t>>] <= RunDecision(p, v, t)
<1> DEFINE named == IF Has(v, <<"decide", t>>) THEN v[<<"decide", t>>] ELSE Allow
<1>1. RunPolicy(p, v, t) \in Nat
  BY RunPolicyBounds DEF Decisions
<1>2. named \in Nat /\ Nested(v, t) \in Nat
  BY DEF Nested, Has, Levels, Bad, Allow
<1>3. t \in Tools /\ Has(v, <<"decide", t>>) => named \in Decisions
  BY DEF BindAgentVersionConfig, DecideEntries, Has
<1> HIDE DEF named
<1>4. AuthorizationDecision(v, t) \in {Deny, Strictest(Nested(v, t), named), named}
  BY Zenon DEF AuthorizationDecision, named
<1>5. AuthorizationDecision(v, t) \in Nat
  BY <1>2, <1>4 DEF Deny, Strictest
<1>6. t \in Tools /\ Has(v, <<"decide", t>>) => named <= AuthorizationDecision(v, t)
  BY <1>2, <1>3, <1>4 DEF Deny, Strictest, Decisions
<1>7. /\ RunPolicy(p, v, t) <= RunDecision(p, v, t)
      /\ AuthorizationDecision(v, t) <= RunDecision(p, v, t)
      /\ RunDecision(p, v, t) \in Nat
  BY <1>1, <1>5 DEF RunDecision, Strictest
<1>8. Has(v, <<"decide", t>>) => named = v[<<"decide", t>>]
  BY DEF named
<1> QED
  BY <1>2, <1>5, <1>6, <1>7, <1>8

(* The level on record is the level the decision was taken at: where       *)
(* nobody speaks of a tool, an MCP tool is high in both.                   *)
LEMMA RiskOnRecord ==
  ASSUME NEW p, SoundPolicy(p), NEW v, LoadToolRiskPolicy(v), NEW t, NEW l \in RunRisk(p, v, t)
  PROVE  l = EffectiveRisk(p, v, t)
<1> DEFINE base == ResolveToolRiskLevel(p, t, SplitMcpName(t), ClassifyTool(t))
           own == PlatformOnly(p, base, t)
           tenantHit == ResolveToolRiskLevel(TenantPolicy(v), t, SplitMcpName(t), ClassifyTool(t))
           spoken == DOMAIN TenantPolicy(v) # {} /\ tenantHit.configured
<1>1. EffectiveRisk(p, v, t) = Strictest(own, IF spoken THEN tenantHit.level ELSE 0)
  BY DEF EffectiveRisk
<1>2. \/ ~base.configured /\ ~spoken /\ IsMcp(t) /\ l = High
      \/ l = EffectiveRisk(p, v, t)
  BY Zenon DEF RunRisk
<1>3. ASSUME ~base.configured, ~spoken, IsMcp(t) PROVE EffectiveRisk(p, v, t) = High
  <2>1. base.level = DefaultClassRisk(ClassifyTool(t))
    BY <1>3, ResolvedLevel
  <2>2. ClassifyTool(t) = "external_high"
    BY <1>3 DEF ClassifyTool, IsMcp, SandboxTools, ExternalHostTools
  <2>3. base.level = High
    BY <2>1, <2>2 DEF DefaultClassRisk
  <2> HIDE DEF base
  <2>4. own = High
    BY <1>3, <2>3 DEF PlatformOnly, Strictest, High
  <2> HIDE DEF own, spoken
  <2> QED
    BY <1>1, <1>3, <2>4 DEF Strictest, High
<1> QED
  BY <1>2, <1>3

(* Under any platform policy, no policy of a version lowers the level of a *)
(* call or the platform's price of that level; the ledger records the      *)
(* level the decision was taken at; and what a version decides by name     *)
(* stands: for any tools, any values and any number of entries in the two  *)
(* policies (installRunPolicy, buildRunPolicyResolver,                     *)
(* buildRunRiskResolver).                                                  *)
THEOREM VersionsOnlyTighten ==
  ASSUME RiskAssumption
  PROVE  RiskSpec => []RiskTightens
<1>1. RiskInv => RiskTightens
  <2> SUFFICES ASSUME RiskInv PROVE RiskTightens
    OBVIOUS
  <2>1. SoundPolicy(platform)
    BY DEF RiskInv
  <2>2. ASSUME Running
        PROVE  /\ LoadToolRiskPolicy(version) /\ BindAgentVersionConfig(version)
               /\ \A e \in DOMAIN version : version[e] \in Levels \cup {Bad}
    BY <2>2 DEF RiskInv
  <2>3. TenantOnlyTightens
    <3> DEFINE risk(t) == EffectiveRisk(platform, version, t)
               alone(t) == EffectiveRisk(platform, Empty, t)
               price(l) == DecisionForRiskLevel(platform, l)
    <3> SUFFICES ASSUME Running, NEW t \in Tools
                 PROVE  /\ risk(t) >= alone(t)
                        /\ RunDecision(platform, version, t) >= price(risk(t))
                        /\ RunDecision(platform, version, t) < RunPolicy(platform, Empty, t) =>
                             risk(t) > alone(t) /\ price(risk(t)) < price(alone(t))
      BY DEF TenantOnlyTightens
    <3>1. risk(t) \in Levels /\ alone(t) \in Levels /\ alone(t) <= risk(t)
      BY <2>1, <2>2, EffectiveLevel
    <3>2. price(alone(t)) \in Decisions /\ price(risk(t)) \in Decisions
      BY <2>1, <3>1, PriceIsDecision
    <3>3. /\ RunPolicy(platform, version, t) \in Decisions
          /\ price(risk(t)) <= RunPolicy(platform, version, t)
          /\ RunPolicy(platform, Empty, t) = price(alone(t))
      BY <2>1, <2>2, RunPolicyBounds
    <3>4. /\ RunDecision(platform, version, t) \in Nat
          /\ RunPolicy(platform, version, t) <= RunDecision(platform, version, t)
      BY <2>1, <2>2, RunDecisionBounds
    <3>5. risk(t) = alone(t) => price(risk(t)) = price(alone(t))
      OBVIOUS
    <3> HIDE DEF risk, alone, price
    <3> QED
      BY <3>1, <3>2, <3>3, <3>4, <3>5 DEF Decisions, Levels
  <2>4. RecordedRisk
    <3> SUFFICES ASSUME Running, NEW t \in Tools, NEW l \in RunRisk(platform, version, t)
                 PROVE  /\ RunPolicy(platform, version, t) >= DecisionForRiskLevel(platform, l)
                        /\ l = EffectiveRisk(platform, version, t)
      BY DEF RecordedRisk
    <3>1. l = EffectiveRisk(platform, version, t)
      BY <2>1, <2>2, RiskOnRecord
    <3>2. DecisionForRiskLevel(platform, l) <= RunPolicy(platform, version, t)
      BY <2>1, <2>2, <3>1, RunPolicyBounds
    <3> QED
      BY <3>1, <3>2
  <2>5. DecisionsHold
    BY <2>1, <2>2, RunDecisionBounds DEF DecisionsHold
  <2> QED
    BY <2>3, <2>4, <2>5 DEF RiskTightens
<1> QED
  BY <1>1, RiskInvariant, PTL

-----------------------------------------------------------------------------
(***************************************************************************)
(* The RPC of the execution service.                                       *)
(***************************************************************************)

Ats == {"idle", "waiting", "reading", "pause", "ended"}
Tokens == [kid : 0..2, iat : Int]
Starts == [try : Attempts, at : Nat]
CallRecords ==
  [kind : Kinds, at : Ats, token : Tokens, try : 0..2,
   wire : SUBSET Attempts, altered : SUBSET Attempts, running : SUBSET Attempts,
   started : SUBSET Starts, reply : {"none", "ok", "refused", "page"},
   told : {"none", "ok", "failed", "unknown", "aborted"}, garbled : BOOLEAN]

(* Attempt a of call k was started.                                        *)
Begun(k, a) == \E s \in k.started : s.try = a

(* The attempts of a call: what has begun is off the wire, and only what   *)
(* has begun runs; a second attempt is made of an ensure only.             *)
AttemptsOK(k) ==
  /\ \A a \in k.wire \cup k.running : a <= k.try
  /\ \A s \in k.started : s.try <= k.try /\ s.try \notin k.wire
  /\ \A a \in k.running : Begun(k, a)
  /\ k.at = "idle" => k.try = 0 /\ k.reply = "none"
  /\ k.at = "pause" => k.kind = "ensure" /\ k.try = 1 /\ k.reply = "none"
  /\ k.kind # "ensure" => k.try <= 1

(* An answer tells of the attempt it answers: an ok, and the page that     *)
(* took its place, that it began and is over; a refusal that it did not.   *)
AnswersOK(k) ==
  /\ k.reply # "none" => k.try \notin k.wire \cup k.running
  /\ k.reply \in {"ok", "page"} => Begun(k, k.try)
  /\ k.reply = "refused" => ~Begun(k, k.try)
  /\ k.reply = "page" => k.garbled

(* What was told and what was signed.                                      *)
TruthOK(k) ==
  /\ k.told # "none" => k.at = "ended"
  /\ k.told = "ok" => Begun(k, k.try) /\ k.try \notin k.running
  /\ k.told = "failed" /\ k.kind = "effect" /\ ~k.garbled
       => k.started = {} /\ k.running = {} /\ k.wire = {}
  /\ \A s \in k.started : s.try \notin k.altered /\ s.at - k.token.iat \in 0 .. TTL - 1

SoundCall(k) == k \in CallRecords /\ AttemptsOK(k) /\ AnswersOK(k) /\ TruthOK(k)

(* The inductive invariant.                                                *)
RpcInv ==
  /\ clock \in Nat /\ skew \in Int /\ active \in {1, 2}
  /\ call \in [Calls -> CallRecords]
  /\ \A c \in Calls : SoundCall(call[c])

(* SoundCall speaks of a record alone.                                     *)
LEMMA PutKeeps ==
  ASSUME RpcInv, NEW c \in Calls, NEW r, SoundCall(r), Put(c, r)
  PROVE  RpcInv'
<1>1. call' = [call EXCEPT ![c] = r] /\ UNCHANGED <<clock, skew, active>>
  BY DEF Put
<1>2. \A d \in Calls : SoundCall(call'[d])
  BY <1>1 DEF RpcInv
<1> QED
  BY <1>1, <1>2 DEF RpcInv, SoundCall

-----------------------------------------------------------------------------
(* What happens to the record of a call, one lemma for each way.           *)

(* The call is made.                                                       *)
LEMMA SentCall ==
  ASSUME NEW k, SoundCall(k), NEW token,
         k.at = "idle",
         token \in Tokens
  PROVE  SoundCall([k EXCEPT !.at = "waiting", !.token = token, !.try = 1, !.wire = {1}])
<1> DEFINE r == [k EXCEPT !.at = "waiting", !.token = token, !.try = 1, !.wire = {1}]
<1>s. /\ 1 \in 0..2
      /\ {1} \in SUBSET Attempts
  BY DEF SoundCall, CallRecords, Starts, Attempts
<1>1. r \in CallRecords
  <2> DEFINE count == 1
             onWire == {1}
  <2>s. count \in 0..2 /\ onWire \in SUBSET Attempts
    BY <1>s
  <2> HIDE DEF count, onWire
  <2>1. [k EXCEPT !.at = "waiting", !.token = token, !.try = count, !.wire = onWire] \in CallRecords
    BY <2>s DEF SoundCall, CallRecords, Ats
  <2> QED
    BY <2>1 DEF count, onWire
<1>2. /\ r.kind = k.kind /\ r.altered = k.altered /\ r.running = k.running /\ r.started = k.started
      /\ r.reply = k.reply /\ r.told = k.told /\ r.garbled = k.garbled
      /\ r.at = "waiting" /\ r.token = token /\ r.try = 1 /\ r.wire = {1}
  BY DEF SoundCall, CallRecords
<1> HIDE DEF r
<1>3. AttemptsOK(r)
  BY <1>1, <1>2 DEF SoundCall, AttemptsOK, Begun, CallRecords, Starts, Attempts
<1>4. AnswersOK(r)
  BY <1>1, <1>2 DEF SoundCall, AttemptsOK, AnswersOK, Begun, CallRecords, Starts, Attempts
<1>5. TruthOK(r)
  BY <1>1, <1>2 DEF SoundCall, AttemptsOK, AnswersOK, TruthOK, Begun, CallRecords, Starts, Attempts
<1> QED
  BY <1>1, <1>3, <1>4, <1>5 DEF SoundCall, r

(* Its caller is told that it did not succeed.                             *)
LEMMA ToldCall ==
  ASSUME NEW k, SoundCall(k), NEW what,
         k.at # "idle",
         what \in {"failed", "unknown", "aborted"},
         what = "failed" /\ k.kind = "effect" /\ ~k.garbled
           => k.started = {} /\ k.running = {} /\ k.wire = {}
  PROVE  SoundCall([k EXCEPT !.at = "ended", !.told = what])
<1> DEFINE r == [k EXCEPT !.at = "ended", !.told = what]
<1>1. r \in CallRecords
  BY DEF SoundCall, CallRecords, Ats
<1>2. /\ r.kind = k.kind /\ r.token = k.token /\ r.try = k.try /\ r.wire = k.wire
      /\ r.altered = k.altered /\ r.running = k.running /\ r.started = k.started /\ r.reply = k.reply
      /\ r.garbled = k.garbled
      /\ r.at = "ended" /\ r.told = what
  BY DEF SoundCall, CallRecords
<1> HIDE DEF r
<1>3. AttemptsOK(r)
  BY <1>1, <1>2 DEF SoundCall, AttemptsOK, Begun, CallRecords, Starts, Attempts
<1>4. AnswersOK(r)
  BY <1>1, <1>2 DEF SoundCall, AttemptsOK, AnswersOK, Begun, CallRecords, Starts, Attempts
<1>5. TruthOK(r)
  BY <1>1, <1>2 DEF SoundCall, AttemptsOK, AnswersOK, TruthOK, Begun, CallRecords, Starts, Attempts
<1> QED
  BY <1>1, <1>3, <1>4, <1>5 DEF SoundCall, r

(* Its caller is told that it succeeded.                                   *)
LEMMA OkCall ==
  ASSUME NEW k, SoundCall(k),
         k.at # "idle",
         k.reply = "ok"
  PROVE  SoundCall([k EXCEPT !.at = "ended", !.told = "ok"])
<1> DEFINE r == [k EXCEPT !.at = "ended", !.told = "ok"]
<1>1. r \in CallRecords
  BY DEF SoundCall, CallRecords, Ats
<1>2. /\ r.kind = k.kind /\ r.token = k.token /\ r.try = k.try /\ r.wire = k.wire
      /\ r.altered = k.altered /\ r.running = k.running /\ r.started = k.started /\ r.reply = k.reply
      /\ r.garbled = k.garbled
      /\ r.at = "ended" /\ r.told = "ok"
  BY DEF SoundCall, CallRecords
<1> HIDE DEF r
<1>3. AttemptsOK(r)
  BY <1>1, <1>2 DEF SoundCall, AttemptsOK, Begun, CallRecords, Starts, Attempts
<1>4. AnswersOK(r)
  BY <1>1, <1>2 DEF SoundCall, AttemptsOK, AnswersOK, Begun, CallRecords, Starts, Attempts
<1>5. TruthOK(r)
  BY <1>1, <1>2 DEF SoundCall, AttemptsOK, AnswersOK, TruthOK, Begun, CallRecords, Starts, Attempts
<1> QED
  BY <1>1, <1>3, <1>4, <1>5 DEF SoundCall, r

(* Its answer is lost.                                                     *)
LEMMA UnheardCall ==
  ASSUME NEW k, SoundCall(k),
         k.at # "idle"
  PROVE  SoundCall([k EXCEPT !.reply = "none"])
<1> DEFINE r == [k EXCEPT !.reply = "none"]
<1>1. r \in CallRecords
  BY DEF SoundCall, CallRecords, Ats
<1>2. /\ r.kind = k.kind /\ r.at = k.at /\ r.token = k.token /\ r.try = k.try
      /\ r.wire = k.wire /\ r.altered = k.altered /\ r.running = k.running /\ r.started = k.started
      /\ r.told = k.told /\ r.garbled = k.garbled
      /\ r.reply = "none"
  BY DEF SoundCall, CallRecords
<1> HIDE DEF r
<1>3. AttemptsOK(r)
  BY <1>1, <1>2 DEF SoundCall, AttemptsOK, Begun, CallRecords, Starts, Attempts
<1>4. AnswersOK(r)
  BY <1>1, <1>2 DEF SoundCall, AttemptsOK, AnswersOK, Begun, CallRecords, Starts, Attempts
<1>5. TruthOK(r)
  BY <1>1, <1>2 DEF SoundCall, AttemptsOK, AnswersOK, TruthOK, Begun, CallRecords, Starts, Attempts
<1> QED
  BY <1>1, <1>3, <1>4, <1>5 DEF SoundCall, r

(* An attempt is lost.                                                     *)
LEMMA OffWireCall ==
  ASSUME NEW k, SoundCall(k), NEW a
  PROVE  SoundCall([k EXCEPT !.wire = @ \ {a}])
<1> DEFINE r == [k EXCEPT !.wire = @ \ {a}]
<1>s. /\ k.wire \ {a} \in SUBSET Attempts
  BY DEF SoundCall, CallRecords, Starts, Attempts
<1>1. r \in CallRecords
  <2> DEFINE onWire == k.wire \ {a}
  <2>s. onWire \in SUBSET Attempts
    BY <1>s
  <2> HIDE DEF onWire
  <2>1. [k EXCEPT !.wire = onWire] \in CallRecords
    BY <2>s DEF SoundCall, CallRecords, Ats
  <2> QED
    BY <2>1 DEF onWire
<1>2. /\ r.kind = k.kind /\ r.at = k.at /\ r.token = k.token /\ r.try = k.try
      /\ r.altered = k.altered /\ r.running = k.running /\ r.started = k.started /\ r.reply = k.reply
      /\ r.told = k.told /\ r.garbled = k.garbled
      /\ r.wire = k.wire \ {a}
  BY DEF SoundCall, CallRecords
<1> HIDE DEF r
<1>3. AttemptsOK(r)
  BY <1>1, <1>2 DEF SoundCall, AttemptsOK, Begun, CallRecords, Starts, Attempts
<1>4. AnswersOK(r)
  BY <1>1, <1>2 DEF SoundCall, AttemptsOK, AnswersOK, Begun, CallRecords, Starts, Attempts
<1>5. TruthOK(r)
  BY <1>1, <1>2 DEF SoundCall, AttemptsOK, AnswersOK, TruthOK, Begun, CallRecords, Starts, Attempts
<1> QED
  BY <1>1, <1>3, <1>4, <1>5 DEF SoundCall, r

(* The session client pauses, and tries again.                             *)
LEMMA PausedCall ==
  ASSUME NEW k, SoundCall(k),
         k.at = "waiting",
         k.kind = "ensure",
         k.try = 1,
         k.reply = "none"
  PROVE  SoundCall([k EXCEPT !.at = "pause"])
<1> DEFINE r == [k EXCEPT !.at = "pause"]
<1>1. r \in CallRecords
  BY DEF SoundCall, CallRecords, Ats
<1>2. /\ r.kind = k.kind /\ r.token = k.token /\ r.try = k.try /\ r.wire = k.wire
      /\ r.altered = k.altered /\ r.running = k.running /\ r.started = k.started /\ r.reply = k.reply
      /\ r.told = k.told /\ r.garbled = k.garbled
      /\ r.at = "pause"
  BY DEF SoundCall, CallRecords
<1> HIDE DEF r
<1>3. AttemptsOK(r)
  BY <1>1, <1>2 DEF SoundCall, AttemptsOK, Begun, CallRecords, Starts, Attempts
<1>4. AnswersOK(r)
  BY <1>1, <1>2 DEF SoundCall, AttemptsOK, AnswersOK, Begun, CallRecords, Starts, Attempts
<1>5. TruthOK(r)
  BY <1>1, <1>2 DEF SoundCall, AttemptsOK, AnswersOK, TruthOK, Begun, CallRecords, Starts, Attempts
<1> QED
  BY <1>1, <1>3, <1>4, <1>5 DEF SoundCall, r

LEMMA AgainCall ==
  ASSUME NEW k, SoundCall(k),
         k.at = "pause"
  PROVE  SoundCall([k EXCEPT !.at = "waiting", !.try = 2, !.wire = @ \cup {2}])
<1> DEFINE r == [k EXCEPT !.at = "waiting", !.try = 2, !.wire = @ \cup {2}]
<1>s. /\ 2 \in 0..2
      /\ k.wire \cup {2} \in SUBSET Attempts
  BY DEF SoundCall, CallRecords, Starts, Attempts
<1>1. r \in CallRecords
  <2> DEFINE count == 2
             onWire == k.wire \cup {2}
  <2>s. count \in 0..2 /\ onWire \in SUBSET Attempts
    BY <1>s
  <2> HIDE DEF count, onWire
  <2>1. [k EXCEPT !.at = "waiting", !.try = count, !.wire = onWire] \in CallRecords
    BY <2>s DEF SoundCall, CallRecords, Ats
  <2> QED
    BY <2>1 DEF count, onWire
<1>2. /\ r.kind = k.kind /\ r.token = k.token /\ r.altered = k.altered /\ r.running = k.running
      /\ r.started = k.started /\ r.reply = k.reply /\ r.told = k.told /\ r.garbled = k.garbled
      /\ r.at = "waiting" /\ r.try = 2 /\ r.wire = k.wire \cup {2}
  BY DEF SoundCall, CallRecords
<1> HIDE DEF r
<1>3. AttemptsOK(r)
  BY <1>1, <1>2 DEF SoundCall, AttemptsOK, Begun, CallRecords, Starts, Attempts
<1>4. AnswersOK(r)
  BY <1>1, <1>2 DEF SoundCall, AttemptsOK, AnswersOK, Begun, CallRecords, Starts, Attempts
<1>5. TruthOK(r)
  BY <1>1, <1>2 DEF SoundCall, AttemptsOK, AnswersOK, TruthOK, Begun, CallRecords, Starts, Attempts
<1> QED
  BY <1>1, <1>3, <1>4, <1>5 DEF SoundCall, r

(* The headers are there.                                                  *)
LEMMA ReadCall ==
  ASSUME NEW k, SoundCall(k),
         k.at = "waiting"
  PROVE  SoundCall([k EXCEPT !.at = "reading"])
<1> DEFINE r == [k EXCEPT !.at = "reading"]
<1>1. r \in CallRecords
  BY DEF SoundCall, CallRecords, Ats
<1>2. /\ r.kind = k.kind /\ r.token = k.token /\ r.try = k.try /\ r.wire = k.wire
      /\ r.altered = k.altered /\ r.running = k.running /\ r.started = k.started /\ r.reply = k.reply
      /\ r.told = k.told /\ r.garbled = k.garbled
      /\ r.at = "reading"
  BY DEF SoundCall, CallRecords
<1> HIDE DEF r
<1>3. AttemptsOK(r)
  BY <1>1, <1>2 DEF SoundCall, AttemptsOK, Begun, CallRecords, Starts, Attempts
<1>4. AnswersOK(r)
  BY <1>1, <1>2 DEF SoundCall, AttemptsOK, AnswersOK, Begun, CallRecords, Starts, Attempts
<1>5. TruthOK(r)
  BY <1>1, <1>2 DEF SoundCall, AttemptsOK, AnswersOK, TruthOK, Begun, CallRecords, Starts, Attempts
<1> QED
  BY <1>1, <1>3, <1>4, <1>5 DEF SoundCall, r

(* An attempt is altered, refused, begun, ended or undone.                 *)
LEMMA AlteredCall ==
  ASSUME NEW k, SoundCall(k), NEW a,
         a \in k.wire
  PROVE  SoundCall([k EXCEPT !.altered = @ \cup {a}])
<1> DEFINE r == [k EXCEPT !.altered = @ \cup {a}]
<1>s. /\ k.altered \cup {a} \in SUBSET Attempts
  BY DEF SoundCall, CallRecords, Starts, Attempts
<1>1. r \in CallRecords
  <2> DEFINE changed == k.altered \cup {a}
  <2>s. changed \in SUBSET Attempts
    BY <1>s
  <2> HIDE DEF changed
  <2>1. [k EXCEPT !.altered = changed] \in CallRecords
    BY <2>s DEF SoundCall, CallRecords, Ats
  <2> QED
    BY <2>1 DEF changed
<1>2. /\ r.kind = k.kind /\ r.at = k.at /\ r.token = k.token /\ r.try = k.try
      /\ r.wire = k.wire /\ r.running = k.running /\ r.started = k.started /\ r.reply = k.reply
      /\ r.told = k.told /\ r.garbled = k.garbled
      /\ r.altered = k.altered \cup {a}
  BY DEF SoundCall, CallRecords
<1> HIDE DEF r
<1>3. AttemptsOK(r)
  BY <1>1, <1>2 DEF SoundCall, AttemptsOK, Begun, CallRecords, Starts, Attempts
<1>4. AnswersOK(r)
  BY <1>1, <1>2 DEF SoundCall, AttemptsOK, AnswersOK, Begun, CallRecords, Starts, Attempts
<1>5. TruthOK(r)
  BY <1>1, <1>2 DEF SoundCall, AttemptsOK, AnswersOK, TruthOK, Begun, CallRecords, Starts, Attempts
<1> QED
  BY <1>1, <1>3, <1>4, <1>5 DEF SoundCall, r

LEMMA RefusedCall ==
  ASSUME NEW k, SoundCall(k),
         k.at = "waiting",
         k.try \notin k.wire \cup k.running,
         ~Begun(k, k.try)
  PROVE  SoundCall([k EXCEPT !.reply = "refused"])
<1> DEFINE r == [k EXCEPT !.reply = "refused"]
<1>1. r \in CallRecords
  BY DEF SoundCall, CallRecords, Ats
<1>2. /\ r.kind = k.kind /\ r.at = k.at /\ r.token = k.token /\ r.try = k.try
      /\ r.wire = k.wire /\ r.altered = k.altered /\ r.running = k.running /\ r.started = k.started
      /\ r.told = k.told /\ r.garbled = k.garbled
      /\ r.reply = "refused"
  BY DEF SoundCall, CallRecords
<1> HIDE DEF r
<1>3. AttemptsOK(r)
  BY <1>1, <1>2 DEF SoundCall, AttemptsOK, Begun, CallRecords, Starts, Attempts
<1>4. AnswersOK(r)
  BY <1>1, <1>2 DEF SoundCall, AttemptsOK, AnswersOK, Begun, CallRecords, Starts, Attempts
<1>5. TruthOK(r)
  BY <1>1, <1>2 DEF SoundCall, AttemptsOK, AnswersOK, TruthOK, Begun, CallRecords, Starts, Attempts
<1> QED
  BY <1>1, <1>3, <1>4, <1>5 DEF SoundCall, r

LEMMA BegunCall ==
  ASSUME NEW k, SoundCall(k), NEW a, NEW n,
         a \in k.wire,
         a \notin k.altered,
         n \in Nat,
         n - k.token.iat \in 0 .. TTL - 1
  PROVE  SoundCall([k EXCEPT !.wire = @ \ {a}, !.running = @ \cup {a}, !.started = @ \cup {[try |-> a, at |-> n]}])
<1> DEFINE r == [k EXCEPT !.wire = @ \ {a}, !.running = @ \cup {a}, !.started = @ \cup {[try |-> a, at |-> n]}]
<1>s. /\ k.wire \ {a} \in SUBSET Attempts
      /\ k.running \cup {a} \in SUBSET Attempts
      /\ k.started \cup {[try |-> a, at |-> n]} \in SUBSET Starts
  BY DEF SoundCall, CallRecords, Starts, Attempts
<1>1. r \in CallRecords
  <2> DEFINE onWire == k.wire \ {a}
             going == k.running \cup {a}
             begun == k.started \cup {[try |-> a, at |-> n]}
  <2>s. onWire \in SUBSET Attempts /\ going \in SUBSET Attempts /\ begun \in SUBSET Starts
    BY <1>s
  <2> HIDE DEF onWire, going, begun
  <2>1. [k EXCEPT !.wire = onWire, !.running = going, !.started = begun] \in CallRecords
    BY <2>s DEF SoundCall, CallRecords, Ats
  <2> QED
    BY <2>1 DEF onWire, going, begun
<1>2. /\ r.kind = k.kind /\ r.at = k.at /\ r.token = k.token /\ r.try = k.try
      /\ r.altered = k.altered /\ r.reply = k.reply /\ r.told = k.told /\ r.garbled = k.garbled
      /\ r.wire = k.wire \ {a} /\ r.running = k.running \cup {a} /\ r.started = k.started \cup {[try |-> a, at |-> n]}
  BY DEF SoundCall, CallRecords
<1> HIDE DEF r
<1>3. AttemptsOK(r)
  <2>1. \A b \in r.wire \cup r.running : b <= r.try
    BY <1>2 DEF SoundCall, AttemptsOK
  <2>2. \A s \in r.started : s.try <= r.try /\ s.try \notin r.wire
    BY <1>2 DEF SoundCall, AttemptsOK
  <2>3. Begun(r, a)
    <3>1. [try |-> a, at |-> n] \in r.started /\ [try |-> a, at |-> n].try = a
      BY <1>2
    <3> QED
      BY <3>1 DEF Begun
  <2>4. \A b \in k.running : Begun(r, b)
    BY <1>2 DEF SoundCall, AttemptsOK, Begun
  <2> QED
    BY <1>2, <2>1, <2>2, <2>3, <2>4 DEF SoundCall, AttemptsOK
<1>4. AnswersOK(r)
  BY <1>1, <1>2 DEF SoundCall, AttemptsOK, AnswersOK, Begun, CallRecords, Starts, Attempts
<1>5. TruthOK(r)
  BY <1>1, <1>2 DEF SoundCall, AttemptsOK, AnswersOK, TruthOK, Begun, CallRecords, Starts, Attempts
<1> QED
  BY <1>1, <1>3, <1>4, <1>5 DEF SoundCall, r

LEMMA EndedCall ==
  ASSUME NEW k, SoundCall(k), NEW a,
         a \in k.running
  PROVE  SoundCall([k EXCEPT !.running = @ \ {a}])
<1> DEFINE r == [k EXCEPT !.running = @ \ {a}]
<1>s. /\ k.running \ {a} \in SUBSET Attempts
  BY DEF SoundCall, CallRecords, Starts, Attempts
<1>1. r \in CallRecords
  <2> DEFINE going == k.running \ {a}
  <2>s. going \in SUBSET Attempts
    BY <1>s
  <2> HIDE DEF going
  <2>1. [k EXCEPT !.running = going] \in CallRecords
    BY <2>s DEF SoundCall, CallRecords, Ats
  <2> QED
    BY <2>1 DEF going
<1>2. /\ r.kind = k.kind /\ r.at = k.at /\ r.token = k.token /\ r.try = k.try
      /\ r.wire = k.wire /\ r.altered = k.altered /\ r.started = k.started /\ r.reply = k.reply
      /\ r.told = k.told /\ r.garbled = k.garbled
      /\ r.running = k.running \ {a}
  BY DEF SoundCall, CallRecords
<1> HIDE DEF r
<1>3. AttemptsOK(r)
  BY <1>1, <1>2 DEF SoundCall, AttemptsOK, Begun, CallRecords, Starts, Attempts
<1>4. AnswersOK(r)
  BY <1>1, <1>2 DEF SoundCall, AttemptsOK, AnswersOK, Begun, CallRecords, Starts, Attempts
<1>5. TruthOK(r)
  BY <1>1, <1>2 DEF SoundCall, AttemptsOK, AnswersOK, TruthOK, Begun, CallRecords, Starts, Attempts
<1> QED
  BY <1>1, <1>3, <1>4, <1>5 DEF SoundCall, r

LEMMA AnsweredCall ==
  ASSUME NEW k, SoundCall(k),
         k.at = "waiting",
         k.try \notin k.wire \cup k.running,
         Begun(k, k.try)
  PROVE  SoundCall([k EXCEPT !.reply = "ok"])
<1> DEFINE r == [k EXCEPT !.reply = "ok"]
<1>1. r \in CallRecords
  BY DEF SoundCall, CallRecords, Ats
<1>2. /\ r.kind = k.kind /\ r.at = k.at /\ r.token = k.token /\ r.try = k.try
      /\ r.wire = k.wire /\ r.altered = k.altered /\ r.running = k.running /\ r.started = k.started
      /\ r.told = k.told /\ r.garbled = k.garbled
      /\ r.reply = "ok"
  BY DEF SoundCall, CallRecords
<1> HIDE DEF r
<1>3. AttemptsOK(r)
  BY <1>1, <1>2 DEF SoundCall, AttemptsOK, Begun, CallRecords, Starts, Attempts
<1>4. AnswersOK(r)
  BY <1>1, <1>2 DEF SoundCall, AttemptsOK, AnswersOK, Begun, CallRecords, Starts, Attempts
<1>5. TruthOK(r)
  BY <1>1, <1>2 DEF SoundCall, AttemptsOK, AnswersOK, TruthOK, Begun, CallRecords, Starts, Attempts
<1> QED
  BY <1>1, <1>3, <1>4, <1>5 DEF SoundCall, r

LEMMA UndoneCall ==
  ASSUME NEW k, SoundCall(k), NEW a,
         a \in k.running
  PROVE  SoundCall([k EXCEPT !.running = @ \ {a}, !.started = {s \in @ : s.try # a}])
<1> DEFINE r == [k EXCEPT !.running = @ \ {a}, !.started = {s \in @ : s.try # a}]
<1>s. /\ k.running \ {a} \in SUBSET Attempts
      /\ {s \in k.started : s.try # a} \in SUBSET Starts
  BY DEF SoundCall, CallRecords, Starts, Attempts
<1>1. r \in CallRecords
  <2> DEFINE going == k.running \ {a}
             begun == {s \in k.started : s.try # a}
  <2>s. going \in SUBSET Attempts /\ begun \in SUBSET Starts
    BY <1>s
  <2> HIDE DEF going, begun
  <2>1. [k EXCEPT !.running = going, !.started = begun] \in CallRecords
    BY <2>s DEF SoundCall, CallRecords, Ats
  <2> QED
    BY <2>1 DEF going, begun
<1>2. /\ r.kind = k.kind /\ r.at = k.at /\ r.token = k.token /\ r.try = k.try
      /\ r.wire = k.wire /\ r.altered = k.altered /\ r.reply = k.reply /\ r.told = k.told
      /\ r.garbled = k.garbled
      /\ r.running = k.running \ {a} /\ r.started = {s \in k.started : s.try # a}
  BY DEF SoundCall, CallRecords
<1> HIDE DEF r
<1>3. AttemptsOK(r)
  BY <1>1, <1>2 DEF SoundCall, AttemptsOK, Begun, CallRecords, Starts, Attempts
<1>4. AnswersOK(r)
  BY <1>1, <1>2 DEF SoundCall, AttemptsOK, AnswersOK, Begun, CallRecords, Starts, Attempts
<1>5. TruthOK(r)
  BY <1>1, <1>2 DEF SoundCall, AttemptsOK, AnswersOK, TruthOK, Begun, CallRecords, Starts, Attempts
<1> QED
  BY <1>1, <1>3, <1>4, <1>5 DEF SoundCall, r

(* Something in between answers, or exec restarts.                         *)
LEMMA GarbledCall ==
  ASSUME NEW k, SoundCall(k),
         k.reply = "ok"
  PROVE  SoundCall([k EXCEPT !.reply = "page", !.garbled = TRUE])
<1> DEFINE r == [k EXCEPT !.reply = "page", !.garbled = TRUE]
<1>1. r \in CallRecords
  BY DEF SoundCall, CallRecords, Ats
<1>2. /\ r.kind = k.kind /\ r.at = k.at /\ r.token = k.token /\ r.try = k.try
      /\ r.wire = k.wire /\ r.altered = k.altered /\ r.running = k.running /\ r.started = k.started
      /\ r.told = k.told
      /\ r.reply = "page" /\ r.garbled = TRUE
  BY DEF SoundCall, CallRecords
<1> HIDE DEF r
<1>3. AttemptsOK(r)
  BY <1>1, <1>2 DEF SoundCall, AttemptsOK, Begun, CallRecords, Starts, Attempts
<1>4. AnswersOK(r)
  BY <1>1, <1>2 DEF SoundCall, AttemptsOK, AnswersOK, Begun, CallRecords, Starts, Attempts
<1>5. TruthOK(r)
  BY <1>1, <1>2 DEF SoundCall, AttemptsOK, AnswersOK, TruthOK, Begun, CallRecords, Starts, Attempts
<1> QED
  BY <1>1, <1>3, <1>4, <1>5 DEF SoundCall, r

LEMMA CutCall ==
  ASSUME NEW k, SoundCall(k)
  PROVE  SoundCall([k EXCEPT !.running = {}, !.reply = IF k.at = "reading" THEN @ ELSE "none"])
<1> DEFINE r == [k EXCEPT !.running = {}, !.reply = IF k.at = "reading" THEN @ ELSE "none"]
<1>s. /\ {} \in SUBSET Attempts
  BY DEF SoundCall, CallRecords, Starts, Attempts
<1>1. r \in CallRecords
  <2> DEFINE going == {}
  <2>s. going \in SUBSET Attempts
    BY <1>s
  <2> HIDE DEF going
  <2>1. [k EXCEPT !.running = going, !.reply = IF k.at = "reading" THEN @ ELSE "none"] \in CallRecords
    BY <2>s DEF SoundCall, CallRecords, Ats
  <2> QED
    BY <2>1 DEF going
<1>2. /\ r.kind = k.kind /\ r.at = k.at /\ r.token = k.token /\ r.try = k.try
      /\ r.wire = k.wire /\ r.altered = k.altered /\ r.started = k.started /\ r.told = k.told
      /\ r.garbled = k.garbled
      /\ r.running = {} /\ r.reply = IF k.at = "reading" THEN k.reply ELSE "none"
  BY DEF SoundCall, CallRecords
<1> HIDE DEF r
<1>3. AttemptsOK(r)
  BY <1>1, <1>2 DEF SoundCall, AttemptsOK, Begun, CallRecords, Starts, Attempts
<1>4. AnswersOK(r)
  BY <1>1, <1>2 DEF SoundCall, AttemptsOK, AnswersOK, Begun, CallRecords, Starts, Attempts
<1>5. TruthOK(r)
  BY <1>1, <1>2 DEF SoundCall, AttemptsOK, AnswersOK, TruthOK, Begun, CallRecords, Starts, Attempts
<1> QED
  BY <1>1, <1>3, <1>4, <1>5 DEF SoundCall, r

-----------------------------------------------------------------------------
(* What the client does.                                                   *)
LEMMA ClientKeeps ==
  ASSUME ConstantsOK, RpcInv, NEW c \in Calls, Client(c)
  PROVE  RpcInv'
<1> DEFINE k == call[c]
           heard == [k EXCEPT !.reply = "none"]
           off(r) == [r EXCEPT !.wire = @ \ {k.try}]
           paused(r) == [r EXCEPT !.at = "pause"]
           told(r, what) == [r EXCEPT !.at = "ended", !.told = what]
<1>0. SoundCall(k)
  BY DEF RpcInv
<1>1. CASE Send(c)
  <2>1. IssueToken \in Tokens
    BY DEF RpcInv, IssueToken, Tokens
  <2>2. k.at = "idle" /\ Put(c, [k EXCEPT !.at = "waiting", !.token = IssueToken, !.try = 1, !.wire = {1}])
    BY <1>1 DEF Send
  <2> QED
    BY <1>0, <2>1, <2>2, SentCall, PutKeeps
<1>2. CASE NotConnected(c)
  <2>1. /\ k.at = "waiting" /\ k.try \in k.wire
        /\ Put(c, off(Broken(c, FALSE)))
    BY <1>2 DEF NotConnected
  <2>2. k.reply = "none"
    BY <1>0, <2>1 DEF SoundCall, AnswersOK
  <2>3. CASE k.kind = "ensure" /\ k.try = 1
    <3>1. Broken(c, FALSE) = paused(k)
      BY <2>3 DEF Broken
    <3>2. SoundCall(paused(k))
      BY <1>0, <2>1, <2>2, <2>3, PausedCall
    <3>3. SoundCall(off(paused(k)))
      BY <3>2, OffWireCall
    <3> QED
      BY <2>1, <3>1, <3>3, PutKeeps
  <2>4. CASE ~(k.kind = "ensure" /\ k.try = 1)
    <3>1. Broken(c, FALSE) = told(k, "failed")
      BY <2>4, Zenon DEF Broken, Tell, Outcome
    <3>2. SoundCall(off(k)) /\ off(k).at = k.at /\ off(k).kind = k.kind /\ off(k).started = k.started
            /\ off(k).running = k.running /\ off(k).wire = k.wire \ {k.try}
      BY <1>0, OffWireCall DEF SoundCall, CallRecords
    <3>3. k.kind = "effect" => k.started = {} /\ k.running = {} /\ k.wire \ {k.try} = {}
      BY <1>0, <2>1 DEF SoundCall, AttemptsOK, Begun, CallRecords, Starts, Attempts
    <3>4. SoundCall(told(off(k), "failed"))
      <4> HIDE DEF off, k
      <4> QED
        BY <2>1, <3>2, <3>3, ToldCall
    <3>5. off(told(k, "failed")) = told(off(k), "failed")
      BY <1>0 DEF SoundCall, CallRecords
    <3> QED
      BY <2>1, <3>1, <3>4, <3>5, PutKeeps
  <2> QED
    BY <2>3, <2>4
<1>3. ASSUME k.at \in {"waiting", "reading"}, NEW b, NEW lost \in BOOLEAN,
             \/ b = paused(k) /\ k.at = "waiting" /\ k.kind = "ensure" /\ k.try = 1
             \/ \E what \in {"failed", "unknown"} : b = told(k, what) /\ (what = "failed" => k.kind # "effect")
      PROVE  SoundCall([b EXCEPT !.reply = "none"]) /\ SoundCall([b EXCEPT !.wire = IF lost THEN @ \ {k.try} ELSE @, !.reply = "none"])
  <2>1. SoundCall(heard) /\ heard.at = k.at /\ heard.kind = k.kind /\ heard.try = k.try /\ heard.reply = "none"
    BY <1>0, <1>3, UnheardCall DEF SoundCall, CallRecords
  <2>2. SoundCall([b EXCEPT !.reply = "none"])
    <3>1. CASE b = paused(k) /\ k.at = "waiting" /\ k.kind = "ensure" /\ k.try = 1
      <4>1. SoundCall(paused(heard))
        <5> HIDE DEF heard, k
        <5> QED
          BY <2>1, <3>1, PausedCall
      <4>2. [b EXCEPT !.reply = "none"] = paused(heard)
        BY <1>0, <3>1 DEF SoundCall, CallRecords
      <4> QED
        BY <4>1, <4>2
    <3>2. ASSUME NEW what \in {"failed", "unknown"}, b = told(k, what), what = "failed" => k.kind # "effect"
          PROVE  SoundCall([b EXCEPT !.reply = "none"])
      <4>1. SoundCall(told(heard, what))
        <5> HIDE DEF heard, k
        <5> QED
          BY <1>3, <2>1, <3>2, ToldCall
      <4>2. [b EXCEPT !.reply = "none"] = told(heard, what)
        BY <1>0, <3>2 DEF SoundCall, CallRecords
      <4> QED
        BY <4>1, <4>2
    <3> QED
      BY <1>3, <3>1, <3>2
  <2>3. b \in CallRecords
    <3>1. k \in CallRecords
      BY <1>0 DEF SoundCall
    <3>2. paused(k) \in CallRecords
      BY <3>1 DEF CallRecords, Ats
    <3>3. \A what \in {"failed", "unknown"} : told(k, what) \in CallRecords
      BY <3>1 DEF CallRecords, Ats
    <3> HIDE DEF paused, told, k
    <3> QED
      BY <1>3, <3>2, <3>3
  <2>4. [b EXCEPT !.wire = IF lost THEN @ \ {k.try} ELSE @, !.reply = "none"] \in {[b EXCEPT !.reply = "none"], off([b EXCEPT !.reply = "none"])}
    BY <2>3 DEF CallRecords
  <2> QED
    BY <2>2, <2>4, OffWireCall
<1>4. CASE CutOff(c)
  <2>1. PICK lost \in BOOLEAN : Put(c, [(IF k.at = "waiting" \/ Rpc(c) THEN Broken(c, TRUE) ELSE Tell(c, "failed"))
                                     EXCEPT !.wire = IF lost THEN @ \ {k.try} ELSE @, !.reply = "none"])
    BY <1>4 DEF CutOff
  <2> DEFINE b == IF k.at = "waiting" \/ Rpc(c) THEN Broken(c, TRUE) ELSE Tell(c, "failed")
  <2>2. k.at \in {"waiting", "reading"}
    BY <1>4 DEF CutOff
  <2>3. \/ b = paused(k) /\ k.at = "waiting" /\ k.kind = "ensure" /\ k.try = 1
        \/ \E what \in {"failed", "unknown"} : b = told(k, what) /\ (what = "failed" => k.kind # "effect")
    BY <2>2 DEF Broken, Tell, Outcome, SideEffect, Rpc
  <2> HIDE DEF b
  <2>4. SoundCall([b EXCEPT !.wire = IF lost THEN @ \ {k.try} ELSE @, !.reply = "none"])
    BY <1>3, <2>2, <2>3
  <2> QED
    BY <2>1, <2>4, PutKeeps DEF b
<1>5. CASE Deadline(c)
  <2> DEFINE b == Broken(c, TRUE)
  <2>1. Put(c, [b EXCEPT !.reply = "none"]) /\ (k.at = "waiting" \/ (k.at = "reading" /\ Rpc(c)))
    BY <1>5 DEF Deadline
  <2>2. k.at \in {"waiting", "reading"}
    BY <2>1
  <2>3. \/ b = paused(k) /\ k.at = "waiting" /\ k.kind = "ensure" /\ k.try = 1
        \/ \E what \in {"failed", "unknown"} : b = told(k, what) /\ (what = "failed" => k.kind # "effect")
    BY <2>1 DEF Broken, Tell, Outcome, SideEffect, Rpc
  <2> HIDE DEF b
  <2>4. SoundCall([b EXCEPT !.reply = "none"])
    BY <1>3, <2>2, <2>3
  <2> QED
    BY <2>1, <2>4, PutKeeps
<1>6. CASE Again(c)
  <2>1. Put(c, [k EXCEPT !.at = "waiting", !.try = 2, !.wire = @ \cup {2}]) /\ k.at = "pause"
    BY <1>6 DEF Again
  <2> QED
    BY <1>0, <2>1, AgainCall, PutKeeps
<1>7. CASE CallerAborts(c)
  <2>1. Put(c, [told(k, "aborted") EXCEPT !.reply = "none"]) /\ k.at # "idle"
    BY <1>7 DEF CallerAborts, Tell
  <2>2. SoundCall(told(k, "aborted"))
    BY <1>0, <2>1, ToldCall
  <2>3. told(k, "aborted").at # "idle"
    BY <1>0 DEF SoundCall, CallRecords
  <2> HIDE DEF told
  <2>4. SoundCall([told(k, "aborted") EXCEPT !.reply = "none"])
    BY <2>2, <2>3, UnheardCall
  <2> QED
    BY <2>1, <2>4, PutKeeps
<1>8. CASE Headers(c)
  <2>1. Put(c, [k EXCEPT !.at = "reading"]) /\ k.at = "waiting"
    BY <1>8 DEF Headers
  <2> QED
    BY <1>0, <2>1, ReadCall, PutKeeps
<1>9. CASE Body(c)
  <2>1. /\ k.at = "reading" /\ k.reply # "none"
        /\ Put(c, told(k, IF k.reply = "ok" THEN "ok" ELSE "failed"))
    BY <1>9 DEF Body, Tell
  <2>2. k.reply = "ok" => SoundCall(told(k, "ok"))
    BY <1>0, <2>1, OkCall
  <2>3. ASSUME k.reply # "ok" PROVE SoundCall(told(k, "failed"))
    <3>1. k.kind = "effect" /\ ~k.garbled => k.started = {} /\ k.running = {} /\ k.wire = {}
      BY <1>0, <2>1, <2>3 DEF SoundCall, AttemptsOK, AnswersOK, Begun, CallRecords, Starts, Attempts
    <3> QED
      BY <1>0, <2>1, <3>1, ToldCall
  <2> HIDE DEF told
  <2> QED
    BY <2>1, <2>2, <2>3, PutKeeps
<1> QED
  BY <1>1, <1>2, <1>4, <1>5, <1>6, <1>7, <1>8, <1>9 DEF Client

(* What the network and exec do.                                           *)
LEMMA ExecKeeps ==
  ASSUME ConstantsOK, RpcInv, NEW c \in Calls, Exec(c)
  PROVE  RpcInv'
<1> DEFINE k == call[c]
<1>0. SoundCall(k) /\ clock \in Nat
  BY DEF RpcInv
<1>1. ASSUME NEW a \in Attempts, Alter(c, a) PROVE RpcInv'
  <2>1. Put(c, [k EXCEPT !.altered = @ \cup {a}]) /\ a \in k.wire
    BY <1>1 DEF Alter
  <2> QED
    BY <1>0, <2>1, AlteredCall, PutKeeps
<1>2. ASSUME NEW a \in Attempts, Receive(c, a) PROVE RpcInv'
  <2> DEFINE off == [k EXCEPT !.wire = @ \ {a}]
             begins == [off EXCEPT !.running = @ \cup {a}, !.started = @ \cup {[try |-> a, at |-> clock]}]
             refused == [off EXCEPT !.reply = "refused"]
  <2>1. a \in k.wire
    BY <1>2 DEF Receive
  <2>2. Put(c, IF Verified(c, a) THEN begins ELSE IF a = k.try /\ k.at = "waiting" THEN refused ELSE off)
    BY <1>2 DEF Receive
  <2>3. SoundCall(off) /\ off.at = k.at /\ off.try = k.try /\ off.wire = k.wire \ {a}
          /\ off.running = k.running /\ off.started = k.started
    BY <1>0, OffWireCall DEF SoundCall, CallRecords
  <2>4. ASSUME a = k.try, k.at = "waiting" PROVE SoundCall(refused)
    <3>1. ~Begun(off, off.try) /\ off.try \notin off.wire \cup off.running
      BY <1>0, <2>1, <2>3, <2>4 DEF SoundCall, AttemptsOK, Begun
    <3> HIDE DEF off
    <3> QED
      BY <2>3, <2>4, <3>1, RefusedCall
  <2>5. ASSUME Verified(c, a) PROVE SoundCall(begins)
    <3>1. clock - k.token.iat \in 0 .. TTL - 1 /\ a \notin k.altered
      <4>1. k.token.iat \in Int
        BY <1>0 DEF SoundCall, CallRecords, Tokens
      <4> QED
        BY <1>0, <2>5, <4>1 DEF Verified, TokenTimely, AsSigned, ConstantsOK
    <3>2. SoundCall([k EXCEPT !.wire = @ \ {a}, !.running = @ \cup {a}, !.started = @ \cup {[try |-> a, at |-> clock]}])
      BY <1>0, <2>1, <3>1, BegunCall
    <3>3. begins = [k EXCEPT !.wire = @ \ {a}, !.running = @ \cup {a}, !.started = @ \cup {[try |-> a, at |-> clock]}]
      BY <1>0 DEF SoundCall, CallRecords
    <3> QED
      BY <3>2, <3>3
  <2> HIDE DEF off, begins, refused
  <2> QED
    BY <2>2, <2>3, <2>4, <2>5, PutKeeps
<1>3. ASSUME NEW a \in Attempts, Finish(c, a) PROVE RpcInv'
  <2> DEFINE off == [k EXCEPT !.running = @ \ {a}]
             done == [off EXCEPT !.reply = "ok"]
  <2>1. a \in k.running
    BY <1>3 DEF Finish
  <2>2. Put(c, IF a = k.try /\ k.at = "waiting" THEN done ELSE off)
    BY <1>3 DEF Finish
  <2>3. SoundCall(off) /\ off.at = k.at /\ off.try = k.try /\ off.wire = k.wire
          /\ off.running = k.running \ {a} /\ off.started = k.started
    BY <1>0, <2>1, EndedCall DEF SoundCall, CallRecords
  <2>4. ASSUME a = k.try, k.at = "waiting" PROVE SoundCall(done)
    <3>1. Begun(off, off.try) /\ off.try \notin off.wire \cup off.running
      BY <1>0, <2>1, <2>3, <2>4 DEF SoundCall, AttemptsOK, Begun
    <3> HIDE DEF off
    <3> QED
      BY <2>3, <2>4, <3>1, AnsweredCall
  <2> HIDE DEF off, done
  <2> QED
    BY <2>2, <2>3, <2>4, PutKeeps
<1>4. ASSUME NEW a \in Attempts, Refuse(c, a) PROVE RpcInv'
  <2> DEFINE off == [k EXCEPT !.running = @ \ {a}, !.started = {s \in @ : s.try # a}]
             refused == [off EXCEPT !.reply = "refused"]
  <2>1. a \in k.running
    BY <1>4 DEF Refuse
  <2>2. Put(c, IF a = k.try /\ k.at = "waiting" THEN refused ELSE off)
    BY <1>4 DEF Refuse
  <2>3. SoundCall(off) /\ off.at = k.at /\ off.try = k.try /\ off.wire = k.wire
          /\ off.running = k.running \ {a} /\ off.started = {s \in k.started : s.try # a}
    <3>1. k \in CallRecords
      BY <1>0 DEF SoundCall
    <3>2. SoundCall(off)
      BY <1>0, <2>1, UndoneCall
    <3> QED
      BY <3>1, <3>2 DEF CallRecords
  <2>4. ASSUME a = k.try, k.at = "waiting" PROVE SoundCall(refused)
    <3>1. ~Begun(off, off.try) /\ off.try \notin off.wire \cup off.running
      BY <1>0, <2>1, <2>3, <2>4 DEF SoundCall, AttemptsOK, Begun
    <3> HIDE DEF off
    <3> QED
      BY <2>3, <2>4, <3>1, RefusedCall
  <2> HIDE DEF off, refused
  <2> QED
    BY <2>2, <2>3, <2>4, PutKeeps
<1>5. CASE Garble(c)
  <2>1. Put(c, [k EXCEPT !.reply = "page", !.garbled = TRUE]) /\ k.reply = "ok"
    BY <1>5 DEF Garble
  <2> QED
    BY <1>0, <2>1, GarbledCall, PutKeeps
<1> QED
  BY <1>1, <1>2, <1>3, <1>4, <1>5 DEF Exec

(* Restarts, the keyring and the clock.                                    *)
LEMMA WorldKeeps ==
  ASSUME ConstantsOK, RpcInv, World
  PROVE  RpcInv'
<1>1. ASSUME NEW kids, Restart(kids) PROVE RpcInv'
  <2> DEFINE cut(k) == [k EXCEPT !.running = {}, !.reply = IF k.at = "reading" THEN @ ELSE "none"]
  <2>1. ASSUME NEW c \in Calls PROVE SoundCall(cut(call[c]))
    BY CutCall DEF RpcInv
  <2>2. call' = [c \in Calls |-> cut(call[c])] /\ UNCHANGED <<clock, skew, active>>
    BY <1>1 DEF Restart
  <2> HIDE DEF cut
  <2>3. \A c \in Calls : SoundCall(call'[c])
    BY <2>1, <2>2
  <2> QED
    BY <2>2, <2>3 DEF RpcInv, SoundCall
<1>2. CASE SwitchKey
  BY <1>2 DEF SwitchKey, RpcInv
<1>3. CASE ClockTicks
  BY <1>3 DEF ClockTicks, RpcInv
<1> QED
  BY <1>1, <1>2, <1>3 DEF World, AddKey, DropKey, ExecCrash

LEMMA RpcInvariant == ASSUME ConstantsOK PROVE RpcSpec => []RpcInv
<1>1. RpcInit => RpcInv
  <2> SUFFICES ASSUME RpcInit PROVE RpcInv
    OBVIOUS
  <2>1. ASSUME NEW kind \in Kinds PROVE SoundCall(Fresh(kind))
    BY DEF Fresh, NoToken, SoundCall, CallRecords, Ats, Tokens, AttemptsOK, AnswersOK, TruthOK, Begun
  <2>2. ASSUME NEW c \in Calls PROVE \E kind \in Kinds : call[c] = Fresh(kind)
    BY DEF RpcInit
  <2> QED
    BY <2>1, <2>2 DEF ConstantsOK, RpcInit, RpcInv, SoundCall
<1>2. RpcInv /\ [RpcNext]_rpcVars => RpcInv'
  <2>1. ASSUME RpcInv, UNCHANGED rpcVars PROVE RpcInv'
    BY <2>1 DEF rpcVars, RpcInv
  <2> QED
    BY <2>1, ClientKeeps, ExecKeeps, WorldKeeps DEF RpcNext
<1> QED
  BY <1>1, <1>2, PTL DEF RpcSpec

(* However the network, the keys, the clocks and restarts come in between, *)
(* for any calls, token life and skew: a call with an effect that is told  *)
(* failed has not started on exec and will not, a call told ok was carried *)
(* out as it was signed, and nothing starts altered or after its token's   *)
(* life (ExecRpcClient.post, verifyInternalRequest).                       *)
THEOREM ClientsTellTheTruth == ASSUME ConstantsOK PROVE RpcSpec => []CallsAnsweredTruly
<1>1. RpcInv => CallsAnsweredTruly
  <2> SUFFICES ASSUME RpcInv, NEW c \in Calls
               PROVE  /\ call[c].told = "failed" /\ SideEffect(c) /\ ~call[c].garbled =>
                            call[c].started = {} /\ call[c].running = {} /\ call[c].wire = {}
                      /\ call[c].told = "ok" => \E s \in call[c].started : s.try \notin call[c].altered
                      /\ \A s \in call[c].started :
                            s.try \notin call[c].altered /\ s.at - call[c].token.iat \in 0 .. TTL - 1
    BY DEF CallsAnsweredTruly, FailedIsUntouched, OkIsDone, StartsAsSigned
  <2> QED
    BY DEF RpcInv, SoundCall, TruthOK, Begun, SideEffect
<1> QED
  BY <1>1, RpcInvariant, PTL

==============================================================================
