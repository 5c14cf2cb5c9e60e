------------------------------- MODULE ToolTurn -------------------------------
(***************************************************************************)
(* The tool calls of one run inside its turns: the policy hook and the     *)
(* guard of the runtime (install.ts, pre-execute.ts, park.ts), the claim   *)
(* of an approved call by a call the model issues again                    *)
(* (approved-replay-claim.ts), the recorder with its in-flight table       *)
(* (fenced-tool-governance-recorder.ts), the rows of tool executions,      *)
(* approvals and interactions, and the human who decides.  A model issues  *)
(* several calls at once: every await of the code is a step of its own.    *)
(***************************************************************************)
EXTENDS Naturals, FiniteSets, Sequences, FiniteSetTheorems, TLAPS

CONSTANTS Calls,         \* tool call ids, each issued once
          High, Deny,    \* calls the merged policy asks about, or refuses
          Ask,           \* calls of ask_user_question
          Sandbox,       \* calls whose request is bound to the run's sandbox
          Twins,         \* calls of one tool with the same arguments
          MaxToolCalls,  \* the budget of a turn
          MaxGen         \* bound: executors of the run

TurnAssumption == /\ MaxToolCalls \in Nat /\ MaxGen \in Nat \ {0}
                  /\ High \cup Deny \cup Ask \cup Sandbox \cup Twins \subseteq Calls
                  /\ High \cap Deny = {}

VARIABLES run,      \* status of the run
          phase,    \* "turn": an executor drives the run, "idle": nobody does
          gen,      \* the executor's fence token
          row,      \* status of a tool execution
          approval, \* status of the approval of a call
          question, \* status of the interaction of a call
          asked,    \* approvals in the order of their creation
          pc, by,   \* where a call is and which executor drives it
          led,      \* the call whose row it uses (replayOf)
          flight,   \* per row and executor, recorder._inflight: calls that wait for its start
          todo,     \* rows a parking call still has to close
          park,     \* the call that armed an executor's RunPark
          spent,    \* its RunBudget.toolCalls
          effects,  \* how often the body of a row's call has run
          beside    \* history: <<c, d>> if d, a call like c, was on when c was issued

turnVars == <<run, phase, gen, row, approval, question, asked, pc, by, led, flight, todo, park,
              spent, effects, beside>>
rowVars == <<row, approval, question, asked, run>>
None == "none"
Parked == {"WAITING_APPROVAL", "WAITING_INPUT"}
Over == {"SUCCEEDED", "FAILED", "CANCELLED"}
ToolTerminal == Over \cup {"UNKNOWN"}
Settled == {"idle", "denied", "failed", "parked", "asked", "done"}

TurnTypeOK ==
  /\ run \in {"RUNNING"} \cup Parked \cup Over
  /\ phase \in {"turn", "idle"} /\ gen \in 1..MaxGen
  /\ row \in [Calls -> {None, "WAITING_APPROVAL", "RUNNING"} \cup ToolTerminal]
  /\ approval \in [Calls -> {None, "PENDING", "APPROVED", "REJECTED", "CANCELLED"}]
  /\ question \in [Calls -> {None, "PENDING", "RESOLVED", "CANCELLED"}]
  /\ asked \in Seq(Calls)
  /\ pc \in [Calls -> Settled \cup {"pre", "claim", "claiming", "ask", "listing", "parking", "guard",
                                    "start", "starting", "body", "asking", "ran"}]
  /\ by \in [Calls -> 0..MaxGen] /\ led \in [Calls -> Calls]
  /\ flight \in [Calls -> [1..MaxGen -> Seq(Calls)]]
  /\ todo \in [Calls -> SUBSET Calls] /\ park \in [1..MaxGen -> Calls \cup {None}]
  /\ spent \in [1..MaxGen -> Nat] /\ effects \in [Calls -> Nat]
  /\ beside \subseteq Calls \X Calls

TurnInit ==
  /\ run = "RUNNING" /\ phase = "turn" /\ gen = 1
  /\ row = [c \in Calls |-> None] /\ approval = [c \in Calls |-> None]
  /\ question = [c \in Calls |-> None] /\ asked = <<>>
  /\ pc = [c \in Calls |-> "idle"] /\ by = [c \in Calls |-> 0] /\ led = [c \in Calls |-> c]
  /\ flight = [c \in Calls |-> [g \in 1..MaxGen |-> <<>>]] /\ todo = [c \in Calls |-> {}]
  /\ park = [g \in 1..MaxGen |-> None] /\ spent = [g \in 1..MaxGen |-> 0]
  /\ effects = [c \in Calls |-> 0] /\ beside = {}

(* The same run later: a first call asked, the human approved, and the     *)
(* second executor drives the run.                                         *)
FirstAsked == CHOOSE c \in High : TRUE
TurnApproved ==
  /\ run = "RUNNING" /\ phase = "turn" /\ gen = 2
  /\ row = [c \in Calls |-> IF c = FirstAsked THEN "WAITING_APPROVAL" ELSE None]
  /\ approval = [c \in Calls |-> IF c = FirstAsked THEN "APPROVED" ELSE None]
  /\ question = [c \in Calls |-> None] /\ asked = <<FirstAsked>>
  /\ pc = [c \in Calls |-> IF c = FirstAsked THEN "parked" ELSE "idle"]
  /\ by = [c \in Calls |-> IF c = FirstAsked THEN 1 ELSE 0] /\ led = [c \in Calls |-> c]
  /\ flight = [c \in Calls |-> [g \in 1..MaxGen |-> <<>>]] /\ todo = [c \in Calls |-> {}]
  /\ park = [g \in 1..MaxGen |-> IF g = 1 THEN FirstAsked ELSE None]
  /\ spent = [g \in 1..MaxGen |-> 0]
  /\ effects = [c \in Calls |-> 0] /\ beside = {}

Goto(c, l) == pc' = [pc EXCEPT ![c] = l]
At(c, l) == pc[c] = l

(* assertExecutionFence: the executor's token is still the session's.      *)
Fenced(c) == by[c] = gen

SameArgs(c, d) == c = d \/ {c, d} \subseteq Twins

-----------------------------------------------------------------------------
(* The policy hook.                                                        *)

(* The model calls a tool.                                                 *)
Issue(c) ==
  /\ run = "RUNNING" /\ phase = "turn" /\ At(c, "idle")
  /\ Goto(c, "pre") /\ by' = [by EXCEPT ![c] = gen]
  /\ beside' = beside \cup {<<c, d>> : d \in {x \in Calls : SameArgs(c, x) /\ by[x] = gen /\ pc[x] \notin Settled}}
  /\ UNCHANGED <<rowVars, phase, gen, led, flight, todo, park, spent, effects>>

(* findResolvedByDigest: approved, still waiting, same tool and arguments. *)
Resolved(c) ==
  {i \in DOMAIN asked : /\ approval[asked[i]] = "APPROVED" /\ row[asked[i]] = "WAITING_APPROVAL"
                        /\ SameArgs(c, asked[i])}

(* evaluatePreExecute: a refusal first, then an approval already given,    *)
(* then the decision of the policy.                                        *)
PreExecute(c) ==
  /\ At(c, "pre")
  /\ \/ c \in Deny /\ Goto(c, "denied") /\ UNCHANGED led
     \/ /\ c \notin Deny /\ Resolved(c) # {}
        /\ \E i \in Resolved(c) : /\ \A j \in Resolved(c) : i <= j
                                /\ led' = [led EXCEPT ![c] = asked[i]]
        /\ Goto(c, "claim")
     \/ /\ c \notin Deny /\ Resolved(c) = {} /\ UNCHANGED led
        /\ Goto(c, IF c \in High THEN "ask" ELSE "guard")
  /\ UNCHANGED <<rowVars, phase, gen, by, flight, todo, park, spent, effects, beside>>

(* RunPark.denyReason.                                                     *)
GuardDenies(c) == park[by[c]] \notin {None, c}

(* ctx.tools.guard: nothing passes once the run is parked.                 *)
Guard(c) ==
  /\ At(c, "guard")
  /\ Goto(c, IF GuardDenies(c) THEN "denied" ELSE "start")
  /\ UNCHANGED <<rowVars, phase, gen, by, led, flight, todo, park, spent, effects, beside>>

-----------------------------------------------------------------------------
(* recordToolStarted, by consume (with the approval) and by tools/execute  *)
(* (without): one call in flight per row, and later callers share it.      *)

Join(c, from, to) ==
  /\ At(c, from)
  /\ flight' = [flight EXCEPT ![led[c]][by[c]] = Append(@, c)]
  /\ Goto(c, to)
  /\ UNCHANGED <<rowVars, phase, gen, by, led, todo, park, spent, effects, beside>>
Consume(c) == Join(c, "claim", "claiming")
Started(c) == Join(c, "start", "starting")

(* bindDispatchedSandboxRequest: a sandbox request binds to a running run. *)
NeedsBinding(l) == l \in Sandbox
BindableAlways(l) == TRUE
Bindable(l) == ~NeedsBinding(l) \/ run = "RUNNING"

(* The transaction as its first caller asked for it: with the approval     *)
(* only a waiting row can be claimed, without it a waiting row refuses and *)
(* a finished one is left alone.                                           *)
Claimable(l) == row[l] = "WAITING_APPROVAL" /\ approval[l] = "APPROVED" /\ Bindable(l)
Startable(l) == row[l] \in ToolTerminal \/ (row[l] \in {None, "RUNNING"} /\ Bindable(l))

(* getOrCreate: the row of the call, created or found; then RUNNING unless *)
(* it has ended.                                                           *)
GetOrCreate(l) == [row EXCEPT ![l] = IF @ \in ToolTerminal THEN @ ELSE "RUNNING"]

FlightLands(l, g) ==
  LET mates == flight[l][g]
      first == Head(mates)
      ok == g = gen /\ IF At(first, "claiming") THEN Claimable(l) ELSE Startable(l)
  IN /\ mates # <<>>
     /\ flight' = [flight EXCEPT ![l][g] = <<>>]
     /\ row' = IF ok THEN GetOrCreate(l) ELSE row
     /\ pc' = [c \in Calls |-> IF \A i \in DOMAIN mates : mates[i] # c THEN pc[c]
                               ELSE IF ~ok THEN "failed"
                               ELSE IF At(c, "claiming") THEN "guard" ELSE "body"]
     /\ UNCHANGED <<approval, question, asked, run, phase, gen, by, led, todo, park, spent, effects, beside>>

-----------------------------------------------------------------------------
(* tools/execute: the body of the tool and the row's end.                  *)

(* wrapExecute counts the call, then runs it or rejects it.                *)
Body(c) ==
  /\ At(c, "body")
  /\ spent' = [spent EXCEPT ![by[c]] = @ + 1]
  /\ LET within == spent[by[c]] < MaxToolCalls
     IN /\ Goto(c, IF within /\ c \in Ask THEN "asking" ELSE "ran")
        /\ effects' = IF within THEN [effects EXCEPT ![led[c]] = @ + 1] ELSE effects
  /\ UNCHANGED <<rowVars, phase, gen, by, led, flight, todo, park, beside>>

(* settle: recordToolEnded or recordToolUnknown; a refusal is only logged. *)
EndedGivesBack(c, s) ==
  /\ At(c, "ran")
  /\ row' = [row EXCEPT ![led[c]] = IF Fenced(c) /\ @ = "RUNNING"
                                    THEN IF s # "SUCCEEDED" /\ led[c] # c THEN "WAITING_APPROVAL" ELSE s
                                    ELSE @]
  /\ Goto(c, "done")
  /\ UNCHANGED <<approval, question, asked, run, phase, gen, by, led, flight, todo, park, spent,
                 effects, beside>>
EndedAlways(c, s) ==
  /\ At(c, "ran")
  /\ row' = [row EXCEPT ![led[c]] = s]
  /\ Goto(c, "done")
  /\ UNCHANGED <<approval, question, asked, run, phase, gen, by, led, flight, todo, park, spent,
                 effects, beside>>
Ended(c, s) ==
  /\ At(c, "ran")
  /\ row' = [row EXCEPT ![led[c]] = IF Fenced(c) /\ @ = "RUNNING" THEN s ELSE @]
  /\ Goto(c, "done")
  /\ UNCHANGED <<approval, question, asked, run, phase, gen, by, led, flight, todo, park, spent,
                 effects, beside>>

(* getOrCreatePending of an interaction: a running run, a running row.     *)
AskableParked(c) == Fenced(c) /\ row[c] = "RUNNING"
Askable(c) == Fenced(c) /\ run = "RUNNING" /\ row[c] = "RUNNING"

(* The pending question and the run that waits for it, one transaction.    *)
ParkOnQuestion(c) ==
  /\ question' = [question EXCEPT ![c] = "PENDING"]
  /\ run' = "WAITING_INPUT"

(* requestInteraction: the run parks on the question, the row stays open.  *)
RequestInteraction(c) ==
  /\ At(c, "asking")
  /\ \/ Askable(c) /\ ParkOnQuestion(c) /\ Goto(c, "asked")
     \/ ~Askable(c) /\ Goto(c, "ran") /\ UNCHANGED <<question, run>>
  /\ UNCHANGED <<row, approval, asked, phase, gen, by, led, flight, todo, park, spent, effects, beside>>

-----------------------------------------------------------------------------
(* persistPending.                                                         *)

(* A conflict of requestApproval is an error of the hook: the call fails.  *)
RefusedApprovalGoesOn(c) == "guard"
RefusedApproval(c) == "failed"

(* requestApproval: the row waits, the approval is pending, the run parks; *)
(* a run that is parked already refuses, and the whole is rolled back.     *)
RequestApproval(c) ==
  /\ At(c, "ask")
  /\ LET ok == Fenced(c) /\ run = "RUNNING"
     IN /\ row' = IF ok THEN [row EXCEPT ![c] = "WAITING_APPROVAL"] ELSE row
        /\ approval' = IF ok THEN [approval EXCEPT ![c] = "PENDING"] ELSE approval
        /\ asked' = IF ok THEN Append(asked, c) ELSE asked
        /\ run' = IF ok THEN "WAITING_APPROVAL" ELSE run
        /\ Goto(c, IF ok THEN "listing" ELSE RefusedApproval(c))
  /\ UNCHANGED <<question, phase, gen, by, led, flight, todo, park, spent, effects, beside>>

(* terminalizeParallelToolsForPark: the rows that run, one after another.  *)
ListParallelNone(c) == {}
ListParallel(c) == {d \in Calls \ {c} : row[d] = "RUNNING"}
ParkList(c) ==
  /\ At(c, "listing")
  /\ todo' = [todo EXCEPT ![c] = ListParallel(c)] /\ Goto(c, "parking")
  /\ UNCHANGED <<rowVars, phase, gen, by, led, flight, park, spent, effects, beside>>
ParkClose(c, d) ==
  /\ At(c, "parking") /\ d \in todo[c]
  /\ row' = [row EXCEPT ![d] = IF Fenced(c) /\ @ = "RUNNING" THEN "UNKNOWN" ELSE @]
  /\ todo' = [todo EXCEPT ![c] = @ \ {d}]
  /\ UNCHANGED <<approval, question, asked, run, phase, gen, pc, by, led, flight, park, spent, effects, beside>>

(* RunPark.arm, after the recorder returned: the first call wins.          *)
ParkArm(c) ==
  /\ At(c, "parking") /\ todo[c] = {}
  /\ park' = [park EXCEPT ![by[c]] = IF @ = None THEN c ELSE @]
  /\ Goto(c, "parked")
  /\ UNCHANGED <<rowVars, phase, gen, by, led, flight, todo, spent, effects, beside>>

-----------------------------------------------------------------------------
(* The owner and the worker.                                               *)

(* resolve: on a waiting run and a waiting row; a rejection fails the row. *)
RejectMarksRow(c) == row' = [row EXCEPT ![c] = "REJECTED"]
Reject(c) == row' = [row EXCEPT ![c] = "FAILED"]
Decide(c, s) ==
  /\ approval[c] = "PENDING" /\ run = "WAITING_APPROVAL" /\ row[c] = "WAITING_APPROVAL"
  /\ approval' = [approval EXCEPT ![c] = s]
  /\ IF s = "REJECTED" THEN Reject(c) ELSE UNCHANGED row
  /\ UNCHANGED <<question, asked, run, phase, gen, pc, by, led, flight, todo, park, spent, effects, beside>>

(* respond: resolveIfPending, and the row succeeds.                        *)
Respond(c) ==
  /\ question[c] = "PENDING" /\ run = "WAITING_INPUT" /\ row[c] = "RUNNING"
  /\ question' = [question EXCEPT ![c] = "RESOLVED"]
  /\ row' = [row EXCEPT ![c] = "SUCCEEDED"]
  /\ UNCHANGED <<approval, asked, run, phase, gen, pc, by, led, flight, todo, park, spent, effects, beside>>

(* cancelParkedApproval, cancelParkedInteraction: pending questions and    *)
(* open rows close with the run.                                           *)
OpenRow(c) == row[c] \in {"WAITING_APPROVAL", "RUNNING"}
CancelParked ==
  /\ run \in Parked
  /\ run' = "CANCELLED"
  /\ approval' = [c \in Calls |-> IF approval[c] = "PENDING" THEN "CANCELLED" ELSE approval[c]]
  /\ question' = [c \in Calls |-> IF question[c] = "PENDING" THEN "CANCELLED" ELSE question[c]]
  /\ row' = [c \in Calls |-> IF OpenRow(c) THEN "CANCELLED" ELSE row[c]]
  /\ UNCHANGED <<asked, phase, gen, pc, by, led, flight, todo, park, spent, effects, beside>>

(* The prompt returns when the calls of the turn have settled; a run that  *)
(* is not parked ends, and its open rows are closed.                       *)
Close(rows) == [c \in Calls |-> CASE rows[c] = "RUNNING" -> "UNKNOWN"
                                  [] rows[c] = "WAITING_APPROVAL" -> "CANCELLED"
                                  [] OTHER -> rows[c]]
TurnEnds(s) ==
  /\ phase = "turn" /\ \A c \in Calls : by[c] = gen => pc[c] \in Settled
  /\ phase' = "idle"
  /\ IF run = "RUNNING" THEN run' = s /\ row' = Close(row) ELSE UNCHANGED <<run, row>>
  /\ UNCHANGED <<approval, question, asked, gen, pc, by, led, flight, todo, park, spent, effects, beside>>

NewExecutor == gen < MaxGen /\ gen' = gen + 1 /\ phase' = "turn"

(* The worker claims a parked run whose last question is decided.          *)
ResumableApproval ==
  /\ run = "WAITING_APPROVAL" /\ \A c \in Calls : approval[c] # "PENDING"
  /\ <<approval[asked[Len(asked)]], row[asked[Len(asked)]]>>
       \in {<<"APPROVED", "WAITING_APPROVAL">>, <<"REJECTED", "FAILED">>}
ResumableInput == run = "WAITING_INPUT" /\ \A c \in Calls : question[c] # "PENDING"
Resume ==
  /\ phase = "idle" /\ (ResumableApproval \/ ResumableInput)
  /\ run' = "RUNNING" /\ NewExecutor
  /\ UNCHANGED <<row, approval, question, asked, pc, by, led, flight, todo, park, spent, effects, beside>>

(* The executor loses its lock or its process: the run's recovery starts   *)
(* another one unless a row is unresolved; the old calls may go on.        *)
Unresolved(c) == row[c] \in {"WAITING_APPROVAL", "RUNNING", "UNKNOWN"}
TakeOver ==
  /\ phase = "turn"
  /\ IF run = "RUNNING" /\ \A c \in Calls : ~Unresolved(c)
     THEN NewExecutor /\ UNCHANGED <<run, row>>
     ELSE /\ gen < MaxGen /\ gen' = gen + 1
          /\ phase' = "idle"
          /\ IF run = "RUNNING" THEN run' = "FAILED" /\ row' = Close(row)
             ELSE UNCHANGED <<run, row>>
  /\ UNCHANGED <<approval, question, asked, pc, by, led, flight, todo, park, spent, effects, beside>>

TurnNext ==
  \/ \E c \in Calls : \/ Issue(c) \/ PreExecute(c) \/ Guard(c) \/ Consume(c) \/ Started(c)
                      \/ Body(c) \/ RequestInteraction(c) \/ RequestApproval(c)
                      \/ ParkList(c) \/ ParkArm(c) \/ Respond(c)
                      \/ \E d \in Calls : ParkClose(c, d)
                      \/ \E g \in 1..MaxGen : FlightLands(c, g)
                      \/ \E s \in {"SUCCEEDED", "FAILED", "UNKNOWN"} : Ended(c, s)
                      \/ \E s \in {"APPROVED", "REJECTED"} : Decide(c, s)
  \/ CancelParked \/ Resume \/ TakeOver
  \/ \E s \in {"SUCCEEDED", "FAILED"} : TurnEnds(s)

TurnSpec == TurnInit /\ [][TurnNext]_turnVars

-----------------------------------------------------------------------------
(* An approval is good for one moment: it is claimed once, and whatever    *)
(* runs under it are calls of one executor that were on beside each other  *)
(* when it was claimed.  A call the model issues later, or another         *)
(* executor after a crash, cannot use it again                             *)
(* (createApprovedReplayClaim, APPROVAL_GRANTED_ONCE).                     *)
Ran(c) == pc[c] \in {"asking", "asked", "ran", "done"}
ApprovedOnce ==
  \A c, d \in Calls : c # d /\ led[c] = led[d] /\ Ran(c) /\ Ran(d) =>
    by[c] = by[d] /\ (<<c, d>> \in beside \/ <<d, c>> \in beside)

(* The body of a call the policy asks about runs only under a row whose    *)
(* approval a human granted, also from an executor that was replaced       *)
(* (evaluatePreExecute, recordToolStarted).                                *)
HumanGate == \A c \in Calls : c \in High /\ effects[led[c]] > 0 /\ pc[c] \in {"ran", "done"}
                                => approval[led[c]] = "APPROVED"

(* A run parked on an approval leaves no sandbox request open: those that  *)
(* were dispatched in parallel are closed before the park is armed and no  *)
(* later one can be bound (terminalizeParallelToolsForPark).               *)
ParkedIsSettled ==
  park[gen] # None /\ run = "WAITING_APPROVAL" => \A c \in Sandbox : row[c] # "RUNNING"

(* A run waits for one thing: while it is parked exactly one question is   *)
(* open or decided last, and a run that is over leaves none pending, even  *)
(* when calls of one turn ask for an approval and for an answer at once.   *)
OneWait ==
  LET Pending == {<<"approval", c>> : c \in {d \in Calls : approval[d] = "PENDING"}}
                   \cup {<<"question", c>> : c \in {d \in Calls : question[d] = "PENDING"}}
  IN /\ Cardinality(Pending) <= 1
     /\ Pending # {} => run \in Parked
     /\ \A c \in Calls : question[c] = "PENDING" => row[c] = "RUNNING"
     /\ \A c \in Calls : approval[c] = "PENDING" => row[c] = "WAITING_APPROVAL"

-----------------------------------------------------------------------------
(* Why they hold: the inductive invariant.                                 *)

(* Whoever uses the row of another call found it approved; a call that     *)
(* asked for an approval goes no further itself.                           *)
Asked == {"listing", "parking", "parked"}
BeforeAsking == {"idle", "pre", "ask"}
PastGate == {"guard", "start", "starting", "body", "asking", "asked", "ran", "done"}
LedOK ==
  \A c \in Calls :
    /\ pc[c] # "idle" => by[c] \in 1..gen
    /\ led[c] # c => approval[led[c]] = "APPROVED" /\ SameArgs(c, led[c])
    /\ pc[c] \in BeforeAsking => led[c] = c /\ approval[c] = None /\ effects[c] = 0
    /\ approval[c] # None => pc[c] \in Asked
    /\ pc[c] \in {"claim", "claiming"} => led[c] # c
    /\ c \in High /\ led[c] = c => pc[c] \notin PastGate

(* The in-flight table of an executor holds its own calls.                 *)
FlightOK ==
  \A l \in Calls : \A g \in 1..MaxGen : \A i \in 1..Len(flight[l][g]) :
    /\ led[flight[l][g][i]] = l /\ by[flight[l][g][i]] = g
    /\ pc[flight[l][g][i]] \in {"claiming", "starting"}

(* Calls alike that are on at once in one executor met, and so did those   *)
(* that use one approval.                                                  *)
Met(c, d) == <<c, d>> \in beside \/ <<d, c>> \in beside
AlikeMet ==
  \A c, d \in Calls : c # d /\ SameArgs(c, d) /\ by[c] = by[d]
                       /\ pc[c] \notin Settled /\ pc[d] \notin Settled => Met(c, d)
Uses(c) == led[c] # c /\ pc[c] \in {"claim", "claiming"} \cup PastGate
Claimed(c) == led[c] # c /\ pc[c] \in PastGate
UsersMet ==
  \A c, d \in Calls : c # d /\ led[c] = led[d] /\ Uses(c) /\ Uses(d) /\ by[c] = by[d] => Met(c, d)

(* An approved row that was claimed no longer waits, and one executor has  *)
(* claimed it.                                                             *)
ClaimOnce ==
  /\ \A c \in Calls : Claimed(c) => row[led[c]] # "WAITING_APPROVAL"
  /\ \A c, d \in Calls : led[c] = led[d] /\ Claimed(c) /\ Claimed(d) => by[c] = by[d]

(* A pending question belongs to what the run waits for.                   *)
WaitOK ==
  \A c \in Calls :
    /\ question[c] = "PENDING" => /\ run = "WAITING_INPUT" /\ row[c] = "RUNNING" /\ pc[c] = "asked"
                                  /\ \A d \in Calls : question[d] = "PENDING" => d = c
    /\ approval[c] = "PENDING" => /\ run = "WAITING_APPROVAL" /\ row[c] = "WAITING_APPROVAL"
                                  /\ \A d \in Calls : approval[d] = "PENDING" => d = c

(* A call that parks the run has still to close the rows that run.         *)
ParkOK ==
  /\ \A g \in 1..MaxGen : g > gen => park[g] = None
  /\ park[gen] # None => /\ run \notin {"RUNNING", "WAITING_INPUT"}
                         /\ run = "WAITING_APPROVAL" => \A d \in Sandbox : row[d] # "RUNNING"
  /\ \A c \in Calls : pc[c] \in {"listing", "parking"} /\ by[c] = gen =>
       /\ run \notin {"RUNNING", "WAITING_INPUT"}
       /\ run = "WAITING_APPROVAL" =>
            \A d \in Sandbox : row[d] = "RUNNING" => d # c /\ (pc[c] = "parking" => d \in todo[c])

TurnInv == TurnTypeOK /\ LedOK /\ FlightOK /\ WaitOK /\ ParkOK
ClaimInv == TurnInv /\ AlikeMet /\ UsersMet /\ ClaimOnce

(* What a step leaves alone.  The calls in flight stay where they are.     *)
LEMMA FlightFrame ==
  ASSUME TurnTypeOK, FlightOK, flight' = flight,
         \A x \in Calls : pc[x] \in {"claiming", "starting"} =>
                            pc'[x] = pc[x] /\ led'[x] = led[x] /\ by'[x] = by[x]
  PROVE  FlightOK'
  <1> SUFFICES ASSUME NEW l \in Calls, NEW g \in 1..MaxGen, NEW i \in 1..Len(flight[l][g])
               PROVE  /\ led'[flight[l][g][i]] = l /\ by'[flight[l][g][i]] = g
                      /\ pc'[flight[l][g][i]] \in {"claiming", "starting"}
    BY DEF FlightOK
  <1>0. flight \in [Calls -> [1..MaxGen -> Seq(Calls)]] BY DEF TurnTypeOK
  <1>1. flight[l][g] \in Seq(Calls) BY <1>0
  <1>2. flight[l][g][i] \in Calls BY <1>1
  <1> QED BY <1>2 DEF FlightOK

(* Nobody else parks, and no sandbox row starts to run.                    *)
LEMMA ParkFrame ==
  ASSUME TurnAssumption, TurnTypeOK, ParkOK, gen' = gen, park' = park, todo' = todo,
         run' = run \/ run' \in Over,
         \A d \in Sandbox : run = "WAITING_APPROVAL" /\ row'[d] = "RUNNING" => row[d] = "RUNNING",
         \A x \in Calls : pc'[x] \in {"listing", "parking"} => pc'[x] = pc[x] /\ by'[x] = by[x]
  PROVE  ParkOK'
  <1>1. run' = run \/ run' \notin {"RUNNING", "WAITING_INPUT", "WAITING_APPROVAL"} BY DEF Over
  <1> QED BY <1>1 DEF ParkOK

(* A call that has decided whether to ask only moves on.                   *)
LEMMA LedFrame ==
  ASSUME LedOK, UNCHANGED <<approval, by, led, effects, gen>>,
         \A x \in Calls : pc'[x] = pc[x] \/
           /\ pc[x] \notin BeforeAsking /\ pc'[x] \notin BeforeAsking
           /\ pc[x] \in Asked => pc'[x] \in Asked
           /\ pc'[x] \in {"claim", "claiming"} => pc[x] \in {"claim", "claiming"}
           /\ pc'[x] \in PastGate => pc[x] \in PastGate \cup {"claim", "claiming"}
  PROVE  LedOK'
  <1>1. \A x \in Calls : pc[x] = "idle" => pc'[x] = "idle" BY DEF BeforeAsking
  <1> QED BY <1>1 DEF LedOK, SameArgs

LEMMA IssueKeeps ==
  ASSUME TurnAssumption, TurnInv, NEW c \in Calls, Issue(c)
  PROVE  TurnInv'
  <1> USE DEF TurnInv, Goto, At, Issue, rowVars
  <1>0. /\ pc' = [pc EXCEPT ![c] = "pre"] /\ by' = [by EXCEPT ![c] = gen] /\ gen \in 1..MaxGen
        /\ UNCHANGED <<rowVars, phase, gen, led, flight, todo, park, spent, effects>>
        /\ beside' \subseteq Calls \X Calls
    BY DEF TurnTypeOK
  <1>1. TurnTypeOK'
    <2> HIDE DEF Issue, TurnInv
    <2>1. TurnTypeOK BY DEF TurnInv
    <2>2. pc' \in [Calls -> Settled \cup {"pre", "claim", "claiming", "ask", "listing", "parking", "guard",
                                          "start", "starting", "body", "asking", "ran"}]
      BY <1>0, <2>1 DEF TurnTypeOK
    <2>3. by' \in [Calls -> 0..MaxGen] BY <1>0, <2>1 DEF TurnTypeOK, TurnAssumption
    <2> QED BY <1>0, <2>1, <2>2, <2>3 DEF TurnTypeOK
  <1>2. LedOK' BY <1>1 DEF LedOK, TurnTypeOK, SameArgs, BeforeAsking, Asked, PastGate, None
  <1>3. FlightOK' BY FlightFrame DEF TurnTypeOK
  <1>4. WaitOK' BY DEF WaitOK, TurnTypeOK, LedOK, ParkOK, Asked, Parked, None
  <1>5. ParkOK' BY DEF ParkOK, TurnTypeOK, WaitOK, Parked, Over, None, TurnAssumption
  <1> QED BY <1>1, <1>2, <1>3, <1>4, <1>5

LEMMA PreExecuteKeeps ==
  ASSUME TurnAssumption, TurnInv, NEW c \in Calls, PreExecute(c)
  PROVE  TurnInv'
  <1> USE DEF TurnInv, Goto, At, PreExecute, rowVars
  <1>0. PICK to \in {"denied", "claim", "ask", "guard"}, l \in Calls :
          /\ pc' = [pc EXCEPT ![c] = to] /\ led' = [led EXCEPT ![c] = l]
          /\ to = "claim" => approval[l] = "APPROVED" /\ SameArgs(c, l)
          /\ to # "claim" => l = c
          /\ to = "guard" => c \notin High
    <2>1. asked \in Seq(Calls) BY DEF TurnTypeOK
    <2>2. \A i \in Resolved(c) : asked[i] \in Calls /\ approval[asked[i]] = "APPROVED" /\ SameArgs(c, asked[i])
      BY <2>1 DEF Resolved
    <2>3. led[c] = c /\ led \in [Calls -> Calls] BY DEF LedOK, TurnTypeOK, BeforeAsking
    <2>4. led = [led EXCEPT ![c] = c] BY <2>3
    <2> QED BY <2>2, <2>4
  <1>a. pc[c] = "pre" /\ UNCHANGED <<rowVars, phase, gen, by, flight, todo, park, spent, effects, beside>> OBVIOUS
  <1> USE <1>0, <1>a
  <1> HIDE DEF PreExecute
  <1>b. /\ \A x \in Calls \ {c} : pc'[x] = pc[x] /\ led'[x] = led[x]
        /\ pc'[c] = to /\ led'[c] = l
    BY DEF TurnTypeOK
  <1>1. TurnTypeOK' BY DEF TurnTypeOK, Settled
  <1>2. LedOK'
    <2>1. approval[c] = None /\ effects[c] = 0 /\ by[c] \in 1..gen BY DEF LedOK, BeforeAsking
    <2>2. to = "claim" => l # c BY <2>1 DEF None
    <2> QED BY <1>b, <2>1, <2>2 DEF LedOK, BeforeAsking, Asked, PastGate, SameArgs
  <1>3. FlightOK' BY FlightFrame DEF TurnTypeOK
  <1>4. WaitOK' BY DEF WaitOK, TurnTypeOK, LedOK, ParkOK, Asked, Parked, None
  <1>5. ParkOK' BY ParkFrame DEF TurnTypeOK
  <1> QED BY <1>1, <1>2, <1>3, <1>4, <1>5

LEMMA GuardKeeps ==
  ASSUME TurnAssumption, TurnInv, NEW c \in Calls, Guard(c)
  PROVE  TurnInv'
  <1> USE DEF TurnInv, Goto, At, Guard, rowVars
  <1>1. TurnTypeOK' BY DEF TurnTypeOK, TurnAssumption, Settled, ToolTerminal, Over, Parked, None
  <1>2. LedOK' BY <1>1 DEF LedOK, TurnTypeOK, SameArgs, BeforeAsking, Asked, PastGate, None
  <1>3. FlightOK' BY FlightFrame DEF TurnTypeOK
  <1>4. WaitOK' BY DEF WaitOK, TurnTypeOK, LedOK, ParkOK, Asked, Parked, None
  <1>5. ParkOK' BY ParkFrame DEF TurnTypeOK
  <1> QED BY <1>1, <1>2, <1>3, <1>4, <1>5

LEMMA JoinKeeps ==
  ASSUME TurnAssumption, TurnInv, NEW c \in Calls, Consume(c) \/ Started(c)
  PROVE  TurnInv'
  <1> USE DEF TurnInv, Goto, At, Consume, Started, Join, rowVars
  <1> DEFINE a == led[c]  b == by[c]
  <1>0. PICK to \in {"claiming", "starting"} :
          /\ pc[c] \in {"claim", "start"} /\ pc' = [pc EXCEPT ![c] = to]
          /\ to = "claiming" => pc[c] = "claim"
          /\ UNCHANGED <<row, approval, question, asked, run, phase, gen, by, led, todo, park, spent, effects, beside>>
    OBVIOUS
  <1>f. flight' = [flight EXCEPT ![a][b] = Append(flight[a][b], c)] OBVIOUS
  <1> HIDE DEF Consume, Started, Join
  <1>a. a \in Calls /\ b \in 1..MaxGen BY <1>0 DEF TurnTypeOK, LedOK
  <1>b. flight \in [Calls -> [1..MaxGen -> Seq(Calls)]] BY DEF TurnTypeOK
  <1> HIDE DEF a, b
  <1>d. Append(flight[a][b], c) \in Seq(Calls)
    <2>1. flight[a][b] \in Seq(Calls) BY <1>a, <1>b
    <2> QED BY <2>1
  <1>c. flight' \in [Calls -> [1..MaxGen -> Seq(Calls)]] BY <1>a, <1>b, <1>d, <1>f
  <1>e. pc'[c] = to /\ \A x \in Calls \ {c} : pc'[x] = pc[x] BY <1>0 DEF TurnTypeOK
  <1>1. TurnTypeOK' BY <1>0, <1>c DEF TurnTypeOK, Settled
  <1>2. LedOK'
    <2>1. pc[c] \notin BeforeAsking \cup Asked /\ to \notin BeforeAsking \cup Asked
      BY <1>0 DEF BeforeAsking, Asked
    <2> QED BY <1>0, <1>e, <2>1 DEF LedOK, PastGate, SameArgs
  <1>3. FlightOK'
    <2> SUFFICES ASSUME NEW l \in Calls, NEW g \in 1..MaxGen, NEW i \in 1..Len(flight'[l][g])
                 PROVE  /\ led'[flight'[l][g][i]] = l /\ by'[flight'[l][g][i]] = g
                        /\ pc'[flight'[l][g][i]] \in {"claiming", "starting"}
      BY DEF FlightOK
    <2>0. /\ led' = led /\ by' = by /\ pc'[c] \in {"claiming", "starting"} /\ \A x \in Calls \ {c} : pc'[x] = pc[x]
      BY <1>0, <1>e
    <2>1. flight[l][g] \in Seq(Calls) BY <1>b
    <2>2. CASE l = a /\ g = b
      <3>1. flight'[l][g] = Append(flight[l][g], c) BY <1>a, <1>b, <1>f, <2>2
      <3>2. \/ flight'[l][g][i] = c
            \/ /\ i \in 1..Len(flight[l][g]) /\ flight'[l][g][i] = flight[l][g][i]
               /\ flight[l][g][i] \in Calls
        BY <2>1, <3>1
      <3>3. led[c] = l /\ by[c] = g BY <2>2 DEF a, b
      <3>4. CASE flight'[l][g][i] = c BY <2>0, <3>3, <3>4
      <3>5. CASE i \in 1..Len(flight[l][g]) /\ flight'[l][g][i] = flight[l][g][i] /\ flight[l][g][i] \in Calls
        <4>1. /\ led[flight[l][g][i]] = l /\ by[flight[l][g][i]] = g
              /\ pc[flight[l][g][i]] \in {"claiming", "starting"}
          BY <3>5 DEF FlightOK
        <4> QED BY <2>0, <3>5, <4>1
      <3> QED BY <3>2, <3>4, <3>5
    <2>3. CASE ~(l = a /\ g = b)
      <3>1. flight'[l][g] = flight[l][g] BY <1>a, <1>b, <1>f, <2>3
      <3>2. flight[l][g][i] \in Calls BY <2>1, <3>1
      <3> QED BY <2>0, <3>1, <3>2 DEF FlightOK
    <2> QED BY <2>2, <2>3
  <1>4. WaitOK' BY <1>0, <1>e DEF WaitOK
  <1>5. ParkOK'
    <2>1. \A x \in Calls : pc'[x] \in {"listing", "parking"} => pc'[x] = pc[x] BY <1>0, <1>e
    <2> QED BY <1>0, <2>1, ParkFrame
  <1> QED BY <1>1, <1>2, <1>3, <1>4, <1>5

LEMMA FlightLandsKeeps ==
  ASSUME TurnAssumption, TurnInv, NEW l \in Calls, NEW g \in 1..MaxGen, FlightLands(l, g)
  PROVE  TurnInv'
  <1> USE DEF TurnInv, Goto, At, FlightLands
  <1> DEFINE mates == flight[l][g]
  <1>0. PICK ok \in BOOLEAN :
          /\ mates # <<>> /\ flight' = [flight EXCEPT ![l][g] = <<>>]
          /\ ok = (g = gen /\ IF pc[Head(mates)] = "claiming" THEN Claimable(l) ELSE Startable(l))
          /\ row' = IF ok THEN GetOrCreate(l) ELSE row
          /\ pc' = [c \in Calls |-> IF \A i \in DOMAIN mates : mates[i] # c THEN pc[c]
                                    ELSE IF ~ok THEN "failed"
                                    ELSE IF pc[c] = "claiming" THEN "guard" ELSE "body"]
          /\ UNCHANGED <<approval, question, asked, run, phase, gen, by, led, todo, park, spent, effects, beside>>
    OBVIOUS
  <1> HIDE DEF FlightLands
  <1>a. flight \in [Calls -> [1..MaxGen -> Seq(Calls)]] /\ mates \in Seq(Calls) BY DEF TurnTypeOK
  <1>b. \A x \in Calls : \/ pc'[x] = pc[x]
                         \/ /\ pc[x] \in {"claiming", "starting"} /\ led[x] = l /\ by[x] = g
                            /\ pc'[x] \in {"failed", "guard", "body"}
    <2> SUFFICES ASSUME NEW x \in Calls, pc'[x] # pc[x]
                 PROVE  /\ pc[x] \in {"claiming", "starting"} /\ led[x] = l /\ by[x] = g
                        /\ pc'[x] \in {"failed", "guard", "body"}
      OBVIOUS
    <2>1. PICK i \in DOMAIN mates : mates[i] = x BY <1>0
    <2>2. i \in 1..Len(mates) BY <1>a, <2>1
    <2>3. pc[x] \in {"claiming", "starting"} /\ led[x] = l /\ by[x] = g BY <2>1, <2>2 DEF FlightOK
    <2> QED BY <1>0, <2>1, <2>3
  <1>c. \A x \in Calls : row'[x] = row[x] \/ (x = l /\ ok /\ row[x] \notin ToolTerminal /\ row'[x] = "RUNNING")
    BY <1>0 DEF GetOrCreate, TurnTypeOK
  <1> USE <1>0, <1>a
  <1>1. TurnTypeOK'
    <2>1. flight' \in [Calls -> [1..MaxGen -> Seq(Calls)]] OBVIOUS
    <2>2. row' \in [Calls -> {None, "WAITING_APPROVAL", "RUNNING"} \cup ToolTerminal]
      BY DEF TurnTypeOK, GetOrCreate
    <2>3. pc' \in [Calls -> Settled \cup {"pre", "claim", "claiming", "ask", "listing", "parking", "guard",
                                          "start", "starting", "body", "asking", "ran"}]
      BY DEF TurnTypeOK, Settled
    <2> QED BY <2>1, <2>2, <2>3 DEF TurnTypeOK
  <1>2. LedOK' BY <1>b, LedFrame DEF BeforeAsking, Asked, PastGate
  <1>3. FlightOK'
    <2> SUFFICES ASSUME NEW k \in Calls, NEW h \in 1..MaxGen, NEW i \in 1..Len(flight'[k][h])
                 PROVE  /\ led'[flight'[k][h][i]] = k /\ by'[flight'[k][h][i]] = h
                        /\ pc'[flight'[k][h][i]] \in {"claiming", "starting"}
      BY DEF FlightOK
    <2>1. ~(k = l /\ h = g)
      <3>1. flight'[l][g] = <<>> OBVIOUS
      <3>2. Len(<<>>) = 0 OBVIOUS
      <3> QED BY <3>1, <3>2
    <2>2. flight'[k][h] = flight[k][h] /\ flight[k][h] \in Seq(Calls) BY <2>1
    <2>3. flight[k][h][i] \in Calls BY <2>2
    <2>4. /\ led[flight[k][h][i]] = k /\ by[flight[k][h][i]] = h
          /\ pc[flight[k][h][i]] \in {"claiming", "starting"}
      BY <2>2 DEF FlightOK
    <2>5. pc'[flight[k][h][i]] = pc[flight[k][h][i]] BY <1>b, <2>1, <2>3, <2>4
    <2> QED BY <2>2, <2>4, <2>5
  <1>4. WaitOK'
    <2>1. \A x \in Calls : approval[x] = "PENDING" => row'[x] = row[x]
      BY <1>c DEF WaitOK, Claimable, Startable, ToolTerminal, Over, None
    <2>2. \A x \in Calls : question[x] = "PENDING" => row'[x] = "RUNNING" /\ pc'[x] = "asked"
      BY <1>b, <1>c DEF WaitOK
    <2> QED BY <2>1, <2>2 DEF WaitOK
  <1>5. ParkOK'
    <2>1. Sandbox \subseteq Calls BY DEF TurnAssumption
    <2>2. \A x \in Sandbox : run = "WAITING_APPROVAL" /\ row'[x] = "RUNNING" => row[x] = "RUNNING"
      BY <1>c, <2>1 DEF Claimable, Startable, Bindable, NeedsBinding
    <2>3. \A x \in Calls : pc'[x] \in {"listing", "parking"} => pc'[x] = pc[x] /\ by'[x] = by[x] BY <1>b
    <2> QED BY <2>2, <2>3, ParkFrame
  <1> QED BY <1>1, <1>2, <1>3, <1>4, <1>5

LEMMA BodyKeeps ==
  ASSUME TurnAssumption, TurnInv, NEW c \in Calls, Body(c)
  PROVE  TurnInv'
  <1> USE DEF TurnInv, Goto, At, Body, rowVars
  <1>0. led[c] \in Calls /\ by[c] \in 1..MaxGen BY DEF TurnTypeOK, LedOK
  <1>a. /\ spent' \in [1..MaxGen -> Nat] /\ effects' \in [Calls -> Nat]
        /\ \A x \in Calls : x # led[c] => effects'[x] = effects[x]
    BY <1>0 DEF TurnTypeOK
  <1>b. pc[c] = "body" /\ (pc' = [pc EXCEPT ![c] = "asking"] \/ pc' = [pc EXCEPT ![c] = "ran"])
        /\ UNCHANGED <<rowVars, phase, gen, by, led, flight, todo, park, beside>>
    OBVIOUS
  <1> HIDE DEF Body
  <1>1. TurnTypeOK' BY <1>a, <1>b DEF TurnTypeOK, Settled
  <1>2. LedOK'
    <2>1. \A x \in Calls : pc[x] \in BeforeAsking => x # led[c]
      BY <1>b DEF LedOK, BeforeAsking, Asked, None
    <2>2. /\ pc[c] \notin BeforeAsking \cup Asked
          /\ pc'[c] \in {"asking", "ran"} /\ \A x \in Calls \ {c} : pc'[x] = pc[x]
      BY <1>b DEF BeforeAsking, Asked, TurnTypeOK
    <2>3. pc[c] \in PastGate /\ pc'[c] \notin BeforeAsking \cup Asked BY <1>b, <2>2 DEF PastGate, BeforeAsking, Asked
    <2> QED BY <1>a, <1>b, <2>1, <2>2, <2>3 DEF LedOK, SameArgs
  <1>3. FlightOK' BY <1>b, FlightFrame DEF TurnTypeOK
  <1>4. WaitOK' BY <1>b DEF WaitOK, TurnTypeOK
  <1>5. ParkOK' BY <1>b, ParkFrame DEF TurnTypeOK
  <1> QED BY <1>1, <1>2, <1>3, <1>4, <1>5

LEMMA EndedKeeps ==
  ASSUME TurnAssumption, TurnInv, NEW c \in Calls, NEW s \in {"SUCCEEDED", "FAILED", "UNKNOWN"}, Ended(c, s)
  PROVE  TurnInv'
  <1> USE DEF TurnInv, Goto, At, Ended
  <1>1. TurnTypeOK' BY DEF TurnTypeOK, TurnAssumption, Settled, ToolTerminal, Over, Parked, None
  <1>2. LedOK'
    <2>1. /\ pc[c] = "ran" /\ pc'[c] \in {"done"} /\ \A x \in Calls \ {c} : pc'[x] = pc[x]
          /\ UNCHANGED <<approval, by, led, effects, gen>>
      BY DEF TurnTypeOK
    <2> QED BY <2>1, LedFrame DEF BeforeAsking, Asked, PastGate
  <1>3. FlightOK' BY FlightFrame DEF TurnTypeOK
  <1>4. WaitOK'
    <2>1. /\ pc[c] = "ran" /\ pc' = [pc EXCEPT ![c] = "done"] /\ UNCHANGED <<run, approval, question>>
          /\ \A x \in Calls : row'[x] # row[x] => x = led[c] /\ row[x] = "RUNNING"
      BY DEF TurnTypeOK
    <2>2. led[c] \in Calls /\ question[led[c]] # "PENDING"
      <3>1. led[c] \in Calls BY DEF TurnTypeOK
      <3>2. led[c] # c => pc[led[c]] \in Asked BY <3>1 DEF LedOK, None
      <3>3. question[led[c]] = "PENDING" => pc[led[c]] = "asked" BY <3>1 DEF WaitOK
      <3> QED BY <2>1, <3>1, <3>2, <3>3 DEF Asked
    <2> HIDE DEF Ended
    <2> QED BY <2>1, <2>2 DEF WaitOK, TurnTypeOK
  <1>5. ParkOK'
    <2>1. \A x \in Calls : row'[x] = "RUNNING" => row[x] = "RUNNING" BY DEF TurnTypeOK
    <2>2. Sandbox \subseteq Calls BY DEF TurnAssumption
    <2> QED BY <2>1, <2>2, ParkFrame DEF TurnTypeOK
  <1> QED BY <1>1, <1>2, <1>3, <1>4, <1>5

LEMMA RequestInteractionKeeps ==
  ASSUME TurnAssumption, TurnInv, NEW c \in Calls, RequestInteraction(c)
  PROVE  TurnInv'
  <1> USE DEF TurnInv, Goto, At, RequestInteraction, Askable, ParkOnQuestion, Fenced
  <1>1. TurnTypeOK'
    <2>1. pc' \in [Calls -> Settled \cup {"pre", "claim", "claiming", "ask", "listing", "parking", "guard",
                                          "start", "starting", "body", "asking", "ran"}]
      <3>1. pc' = [pc EXCEPT ![c] = "asked"] \/ pc' = [pc EXCEPT ![c] = "ran"] OBVIOUS
      <3> HIDE DEF RequestInteraction
      <3> QED BY <3>1 DEF TurnTypeOK, Settled
    <2>2. /\ run' \in {"RUNNING"} \cup Parked \cup Over
          /\ question' \in [Calls -> {None, "PENDING", "RESOLVED", "CANCELLED"}]
      BY DEF TurnTypeOK, Parked
    <2>3. UNCHANGED <<row, approval, asked, phase, gen, by, led, flight, todo, park, spent, effects, beside>> OBVIOUS
    <2> HIDE DEF RequestInteraction
    <2> QED BY <2>1, <2>2, <2>3 DEF TurnTypeOK
  <1>2. LedOK'
    <2>1. /\ pc[c] = "asking" /\ pc'[c] \in {"asked", "ran"} /\ \A x \in Calls \ {c} : pc'[x] = pc[x]
          /\ UNCHANGED <<approval, by, led, effects, gen>>
      BY DEF TurnTypeOK
    <2> QED BY <2>1, LedFrame DEF BeforeAsking, Asked, PastGate
  <1>3. FlightOK' BY FlightFrame DEF TurnTypeOK
  <1>4. WaitOK' BY DEF WaitOK, TurnTypeOK, LedOK, ParkOK, Asked, Parked, None
  <1>5. ParkOK'
    <2>1. CASE run' = run BY <2>1, ParkFrame DEF TurnTypeOK
    <2>2. CASE run' # run
      <3>1. by[c] = gen /\ run = "RUNNING" BY <2>2
      <3>2. park[gen] = None /\ \A x \in Calls : pc[x] \in {"listing", "parking"} => by[x] # gen
        BY <3>1 DEF ParkOK
      <3> QED BY <3>2 DEF ParkOK, TurnTypeOK
    <2> QED BY <2>1, <2>2
  <1> QED BY <1>1, <1>2, <1>3, <1>4, <1>5

LEMMA RequestApprovalKeeps ==
  ASSUME TurnAssumption, TurnInv, NEW c \in Calls, RequestApproval(c)
  PROVE  TurnInv'
  <1> USE DEF TurnInv, Goto, At, RequestApproval, RefusedApproval, Fenced
  <1>1. TurnTypeOK'
    <2>1. /\ row' \in [Calls -> {None, "WAITING_APPROVAL", "RUNNING"} \cup ToolTerminal]
          /\ approval' \in [Calls -> {None, "PENDING", "APPROVED", "REJECTED", "CANCELLED"}]
      BY DEF TurnTypeOK
    <2>2. asked' \in Seq(Calls) BY DEF TurnTypeOK
    <2>3. run' \in {"RUNNING"} \cup Parked \cup Over BY DEF TurnTypeOK, Parked
    <2>4. pc' \in [Calls -> Settled \cup {"pre", "claim", "claiming", "ask", "listing", "parking", "guard",
                                          "start", "starting", "body", "asking", "ran"}]
      BY DEF TurnTypeOK, Settled
    <2> QED BY <2>1, <2>2, <2>3, <2>4 DEF TurnTypeOK
  <1>2. LedOK' BY <1>1 DEF LedOK, TurnTypeOK, SameArgs, BeforeAsking, Asked, PastGate, None
  <1>3. FlightOK' BY FlightFrame DEF TurnTypeOK
  <1>4. WaitOK' BY DEF WaitOK, TurnTypeOK, LedOK, ParkOK, Asked, Parked, None
  <1>5. ParkOK'
    <2>0. Sandbox \subseteq Calls BY DEF TurnAssumption
    <2>1. /\ \A x \in Calls \ {c} : pc'[x] = pc[x] /\ row'[x] = row[x]
          /\ UNCHANGED <<gen, by, todo, park>>
      BY DEF TurnTypeOK
    <2>2. CASE by[c] = gen /\ run = "RUNNING"
      <3>1. run' = "WAITING_APPROVAL" /\ row'[c] = "WAITING_APPROVAL" /\ pc'[c] = "listing"
        BY <2>2 DEF TurnTypeOK
      <3>2. park[gen] = None /\ \A x \in Calls : pc[x] \in {"listing", "parking"} => by[x] # gen
        BY <2>2 DEF ParkOK
      <3> HIDE DEF RequestApproval
      <3> QED BY <2>0, <2>1, <3>1, <3>2 DEF ParkOK
    <2>3. CASE ~(by[c] = gen /\ run = "RUNNING")
      <3>1. run' = run /\ row' = row /\ pc'[c] = "failed" BY <2>3 DEF TurnTypeOK
      <3> HIDE DEF RequestApproval
      <3> QED BY <2>1, <3>1, ParkFrame
    <2> QED BY <2>2, <2>3
  <1> QED BY <1>1, <1>2, <1>3, <1>4, <1>5

LEMMA ParkListKeeps ==
  ASSUME TurnAssumption, TurnInv, NEW c \in Calls, ParkList(c)
  PROVE  TurnInv'
  <1> USE DEF TurnInv, Goto, At, ParkList, ListParallel, rowVars
  <1>1. TurnTypeOK' BY DEF TurnTypeOK, TurnAssumption, Settled, ToolTerminal, Over, Parked, None
  <1>2. LedOK' BY <1>1 DEF LedOK, TurnTypeOK, SameArgs, BeforeAsking, Asked, PastGate, None
  <1>3. FlightOK' BY FlightFrame DEF TurnTypeOK
  <1>4. WaitOK' BY DEF WaitOK, TurnTypeOK, LedOK, ParkOK, Asked, Parked, None
  <1>5. ParkOK'
    <2>1. Sandbox \subseteq Calls BY DEF TurnAssumption
    <2> QED BY <2>1 DEF ParkOK, TurnTypeOK
  <1> QED BY <1>1, <1>2, <1>3, <1>4, <1>5

LEMMA ParkCloseKeeps ==
  ASSUME TurnAssumption, TurnInv, NEW c \in Calls, NEW d \in Calls, ParkClose(c, d)
  PROVE  TurnInv'
  <1> USE DEF TurnInv, Goto, At, ParkClose, Fenced
  <1>1. TurnTypeOK' BY DEF TurnTypeOK, TurnAssumption, Settled, ToolTerminal, Over, Parked, None
  <1>2. LedOK' BY <1>1 DEF LedOK, TurnTypeOK, SameArgs, BeforeAsking, Asked, PastGate, None
  <1>3. FlightOK' BY FlightFrame DEF TurnTypeOK
  <1>4. WaitOK' BY DEF WaitOK, TurnTypeOK, LedOK, ParkOK, Asked, Parked, None
  <1>5. ParkOK'
    <2>0. Sandbox \subseteq Calls BY DEF TurnAssumption
    <2>1. \A x \in Calls : row'[x] = "RUNNING" => row[x] = "RUNNING" BY DEF TurnTypeOK
    <2>2. by[c] = gen => row'[d] # "RUNNING" BY DEF TurnTypeOK
    <2>3. \A x \in Calls : todo'[x] = IF x = c THEN todo[x] \ {d} ELSE todo[x] BY DEF TurnTypeOK
    <2>4. UNCHANGED <<run, gen, pc, by, park>> OBVIOUS
    <2> HIDE DEF ParkClose
    <2> QED BY <2>0, <2>1, <2>2, <2>3, <2>4 DEF ParkOK
  <1> QED BY <1>1, <1>2, <1>3, <1>4, <1>5

LEMMA ParkArmKeeps ==
  ASSUME TurnAssumption, TurnInv, NEW c \in Calls, ParkArm(c)
  PROVE  TurnInv'
  <1> USE DEF TurnInv, Goto, At, ParkArm, rowVars
  <1>1. TurnTypeOK' BY DEF TurnTypeOK, TurnAssumption, Settled, ToolTerminal, Over, Parked, None
  <1>2. LedOK'
    <2>1. /\ pc[c] = "parking" /\ pc'[c] \in {"parked"} /\ \A x \in Calls \ {c} : pc'[x] = pc[x]
          /\ UNCHANGED <<approval, by, led, effects, gen>>
      BY DEF TurnTypeOK
    <2> QED BY <2>1, LedFrame DEF BeforeAsking, Asked, PastGate
  <1>3. FlightOK' BY FlightFrame DEF TurnTypeOK
  <1>4. WaitOK' BY DEF WaitOK, TurnTypeOK, LedOK, ParkOK, Asked, Parked, None
  <1>5. ParkOK'
    <2>0. Sandbox \subseteq Calls /\ by[c] \in 1..MaxGen BY DEF TurnAssumption, TurnTypeOK, LedOK
    <2>1. \A g \in 1..MaxGen : g # by[c] => park'[g] = park[g] BY DEF TurnTypeOK
    <2>2. by[c] \in 1..gen /\ gen \in 1..MaxGen BY DEF LedOK, TurnTypeOK
    <2>3. /\ pc[c] = "parking" /\ todo[c] = {} /\ pc' = [pc EXCEPT ![c] = "parked"]
          /\ UNCHANGED <<row, run, gen, by, todo>>
      OBVIOUS
    <2> HIDE DEF ParkArm
    <2>4. \A g \in 1..MaxGen : g > gen' => park'[g] = None BY <2>1, <2>2, <2>3 DEF ParkOK
    <2>5. park'[gen] # None => /\ run \notin {"RUNNING", "WAITING_INPUT"}
                               /\ run = "WAITING_APPROVAL" => \A x \in Sandbox : row[x] # "RUNNING"
      BY <2>0, <2>1, <2>2, <2>3 DEF ParkOK
    <2>6. \A x \in Calls : pc'[x] \in {"listing", "parking"} => pc'[x] = pc[x] BY <2>3 DEF TurnTypeOK
    <2> QED BY <2>3, <2>4, <2>5, <2>6 DEF ParkOK
  <1> QED BY <1>1, <1>2, <1>3, <1>4, <1>5

LEMMA DecideKeeps ==
  ASSUME TurnAssumption, TurnInv, NEW c \in Calls, NEW s \in {"APPROVED", "REJECTED"}, Decide(c, s)
  PROVE  TurnInv'
  <1> USE DEF TurnInv, Goto, At, Decide, Reject
  <1>1. TurnTypeOK' BY DEF TurnTypeOK, TurnAssumption, Settled, ToolTerminal, Over, Parked, None
  <1>2. LedOK' BY <1>1 DEF LedOK, TurnTypeOK, SameArgs, BeforeAsking, Asked, PastGate, None
  <1>3. FlightOK' BY FlightFrame DEF TurnTypeOK
  <1>4. WaitOK' BY DEF WaitOK, TurnTypeOK, LedOK, ParkOK, Asked, Parked, None
  <1>5. ParkOK'
    <2>0. Sandbox \subseteq Calls BY DEF TurnAssumption
    <2>1. \A x \in Calls : row'[x] = "RUNNING" => row[x] = "RUNNING" BY DEF TurnTypeOK
    <2> QED BY <2>0, <2>1, ParkFrame DEF TurnTypeOK
  <1> QED BY <1>1, <1>2, <1>3, <1>4, <1>5

LEMMA RespondKeeps ==
  ASSUME TurnAssumption, TurnInv, NEW c \in Calls, Respond(c)
  PROVE  TurnInv'
  <1> USE DEF TurnInv, Goto, At, Respond
  <1>1. TurnTypeOK' BY DEF TurnTypeOK, TurnAssumption, Settled, ToolTerminal, Over, Parked, None
  <1>2. LedOK' BY <1>1 DEF LedOK, TurnTypeOK, SameArgs, BeforeAsking, Asked, PastGate, None
  <1>3. FlightOK' BY FlightFrame DEF TurnTypeOK
  <1>4. WaitOK' BY DEF WaitOK, TurnTypeOK, LedOK, ParkOK, Asked, Parked, None
  <1>5. ParkOK' BY ParkFrame DEF TurnTypeOK
  <1> QED BY <1>1, <1>2, <1>3, <1>4, <1>5

LEMMA CancelParkedKeeps ==
  ASSUME TurnAssumption, TurnInv, CancelParked
  PROVE  TurnInv'
  <1> USE DEF TurnInv, Goto, At, CancelParked, OpenRow
  <1>1. TurnTypeOK' BY DEF TurnTypeOK, TurnAssumption, Settled, ToolTerminal, Over, Parked, None
  <1>2. LedOK' BY <1>1 DEF LedOK, TurnTypeOK, SameArgs, BeforeAsking, Asked, PastGate, None
  <1>3. FlightOK' BY FlightFrame DEF TurnTypeOK
  <1>4. WaitOK' BY DEF WaitOK, TurnTypeOK, LedOK, ParkOK, Asked, Parked, None
  <1>5. ParkOK' BY DEF ParkOK, TurnTypeOK, WaitOK, Parked, Over, None, TurnAssumption
  <1> QED BY <1>1, <1>2, <1>3, <1>4, <1>5

LEMMA TurnEndsKeeps ==
  ASSUME TurnAssumption, TurnInv, NEW s \in {"SUCCEEDED", "FAILED"}, TurnEnds(s)
  PROVE  TurnInv'
  <1> USE DEF TurnInv, Goto, At, TurnEnds, Close
  <1>1. TurnTypeOK'
    <2>1. row' \in [Calls -> {None, "WAITING_APPROVAL", "RUNNING"} \cup ToolTerminal]
      BY DEF TurnTypeOK, ToolTerminal, Over
    <2>2. run' \in {"RUNNING"} \cup Parked \cup Over BY DEF TurnTypeOK, Over
    <2> QED BY <2>1, <2>2 DEF TurnTypeOK
  <1>2. LedOK' BY <1>1 DEF LedOK, TurnTypeOK, SameArgs, BeforeAsking, Asked, PastGate, None
  <1>3. FlightOK' BY FlightFrame DEF TurnTypeOK
  <1>4. WaitOK' BY DEF WaitOK, TurnTypeOK, LedOK, ParkOK, Asked, Parked, None
  <1>5. ParkOK' BY DEF ParkOK, TurnTypeOK, WaitOK, Parked, Over, None, TurnAssumption
  <1> QED BY <1>1, <1>2, <1>3, <1>4, <1>5

LEMMA ResumeKeeps ==
  ASSUME TurnAssumption, TurnInv, Resume
  PROVE  TurnInv'
  <1> USE DEF TurnInv, Goto, At, Resume, NewExecutor, ResumableApproval, ResumableInput
  <1>1. TurnTypeOK'
    <2>1. gen' \in 1..MaxGen /\ run' = "RUNNING" /\ phase' = "turn" BY DEF TurnTypeOK, TurnAssumption
    <2>2. UNCHANGED <<row, approval, question, asked, pc, by, led, flight, todo, park, spent, effects, beside>> OBVIOUS
    <2> HIDE DEF Resume
    <2> QED BY <2>1, <2>2 DEF TurnTypeOK
  <1>2. LedOK' BY <1>1 DEF LedOK, TurnTypeOK, SameArgs, BeforeAsking, Asked, PastGate, None
  <1>3. FlightOK' BY FlightFrame DEF TurnTypeOK
  <1>4. WaitOK' BY DEF WaitOK, TurnTypeOK, LedOK, ParkOK, Asked, Parked, None
  <1>5. ParkOK'
    <2>1. gen' = gen + 1 /\ gen' \in 1..MaxGen /\ UNCHANGED <<pc, by, park>> BY <1>1 DEF TurnTypeOK
    <2>2. park[gen'] = None /\ \A g \in 1..MaxGen : g > gen' => park[g] = None
      BY <2>1 DEF ParkOK, TurnTypeOK
    <2>3. \A x \in Calls : pc[x] # "idle" => by[x] # gen' BY <2>1 DEF LedOK, TurnTypeOK
    <2> HIDE DEF Resume
    <2> QED BY <2>1, <2>2, <2>3 DEF ParkOK
  <1> QED BY <1>1, <1>2, <1>3, <1>4, <1>5

LEMMA TakeOverKeeps ==
  ASSUME TurnAssumption, TurnInv, TakeOver
  PROVE  TurnInv'
  <1> USE DEF TurnInv, Goto, At, TakeOver, NewExecutor, Unresolved, Close
  <1>1. TurnTypeOK' BY DEF TurnTypeOK, TurnAssumption, Settled, ToolTerminal, Over, Parked, None
  <1>2. LedOK' BY <1>1 DEF LedOK, TurnTypeOK, SameArgs, BeforeAsking, Asked, PastGate, None
  <1>3. FlightOK' BY FlightFrame DEF TurnTypeOK
  <1>4. WaitOK' BY DEF WaitOK, TurnTypeOK, LedOK, ParkOK, Asked, Parked, None
  <1>5. ParkOK'
    <2>1. gen' = gen + 1 /\ gen' \in 1..MaxGen /\ UNCHANGED <<pc, by, park>> BY <1>1 DEF TurnTypeOK
    <2>2. park[gen'] = None /\ \A g \in 1..MaxGen : g > gen' => park[g] = None
      BY <2>1 DEF ParkOK, TurnTypeOK
    <2>3. \A x \in Calls : pc[x] # "idle" => by[x] # gen' BY <2>1 DEF LedOK, TurnTypeOK
    <2> HIDE DEF TakeOver
    <2> QED BY <2>1, <2>2, <2>3 DEF ParkOK
  <1> QED BY <1>1, <1>2, <1>3, <1>4, <1>5

LEMMA TurnInitial ==
  ASSUME TurnAssumption, TurnInit
  PROVE  ClaimInv
  <1>1. TurnTypeOK
    <2>1. 1 \in 1..MaxGen BY DEF TurnAssumption
    <2>2. flight \in [Calls -> [1..MaxGen -> Seq(Calls)]] /\ asked \in Seq(Calls) BY DEF TurnInit
    <2>3. by \in [Calls -> 0..MaxGen] BY DEF TurnInit, TurnAssumption
    <2> QED BY <2>1, <2>2, <2>3 DEF TurnInit, TurnTypeOK, Settled
  <1>2. LedOK BY DEF TurnInit, LedOK, None, PastGate
  <1>3. FlightOK
    <2>1. \A l \in Calls : \A g \in 1..MaxGen : flight[l][g] = <<>> BY DEF TurnInit
    <2>2. Len(<<>>) = 0 OBVIOUS
    <2> QED BY <2>1, <2>2 DEF FlightOK
  <1>4. WaitOK BY DEF TurnInit, WaitOK, None
  <1>5. ParkOK BY DEF TurnInit, ParkOK, TurnAssumption
  <1>6. AlikeMet BY DEF TurnInit, AlikeMet, Settled
  <1>7. UsersMet /\ ClaimOnce BY DEF TurnInit, UsersMet, ClaimOnce, Uses, Claimed, PastGate
  <1> QED BY <1>1, <1>2, <1>3, <1>4, <1>5, <1>6, <1>7 DEF TurnInv, ClaimInv

LEMMA TurnStep ==
  ASSUME TurnAssumption, TurnInv, [TurnNext]_turnVars
  PROVE  TurnInv'
  <1>1. CASE UNCHANGED turnVars
    BY <1>1 DEF turnVars, TurnInv, TurnTypeOK, LedOK, FlightOK, WaitOK, ParkOK, SameArgs
  <1>2. CASE TurnNext
    BY <1>2, IssueKeeps, PreExecuteKeeps, GuardKeeps, JoinKeeps, FlightLandsKeeps, BodyKeeps, EndedKeeps,
       RequestInteractionKeeps, RequestApprovalKeeps, ParkListKeeps, ParkCloseKeeps, ParkArmKeeps,
       DecideKeeps, RespondKeeps, CancelParkedKeeps, TurnEndsKeeps, ResumeKeeps, TakeOverKeeps
       DEF TurnNext
  <1> QED BY <1>1, <1>2

(* What the properties say follows from the invariant.                     *)
LEMMA TurnImplies ==
  ASSUME TurnInv, TurnAssumption
  PROVE  HumanGate /\ ParkedIsSettled /\ OneWait
  <1> USE DEF TurnInv
  <1>1. HumanGate
    BY DEF HumanGate, LedOK, PastGate
  <1>2. ParkedIsSettled BY DEF ParkedIsSettled, ParkOK
  <1>3. OneWait
    <2> DEFINE Pending == {<<"approval", c>> : c \in {d \in Calls : approval[d] = "PENDING"}}
                            \cup {<<"question", c>> : c \in {d \in Calls : question[d] = "PENDING"}}
    <2>1. \A x, y \in Pending : x = y BY DEF WaitOK
    <2>2. Pending = {} \/ \E x : Pending = {x} BY <2>1
    <2>3. Cardinality(Pending) <= 1
      <3> HIDE DEF Pending
      <3>1. CASE Pending = {} BY <3>1, FS_EmptySet
      <3>2. CASE \E x : Pending = {x}
        <4>1. PICK x : Pending = {x} BY <3>2
        <4>2. Cardinality({x}) = 1 BY FS_Singleton
        <4> QED BY <4>1, <4>2
      <3> QED BY <2>2, <3>1, <3>2
    <2>4. Pending # {} => run \in Parked BY DEF WaitOK, Parked
    <2> QED BY <2>3, <2>4 DEF OneWait, WaitOK
  <1> QED BY <1>1, <1>2, <1>3

(* Nobody starts a call, and nobody is handed an approved row.             *)
LEMMA ClaimFrame ==
  ASSUME AlikeMet, UsersMet, ClaimOnce, UNCHANGED <<by, led, beside>>,
         \A x \in Calls : /\ (pc[x] \in Settled => pc'[x] \in Settled)
                          /\ (Uses(x)' => Uses(x))
                          /\ (Claimed(x)' => Claimed(x))
                          /\ row'[led[x]] = "WAITING_APPROVAL" => row[led[x]] = "WAITING_APPROVAL"
  PROVE  AlikeMet' /\ UsersMet' /\ ClaimOnce'
  <1>1. AlikeMet' BY DEF AlikeMet, SameArgs, Met
  <1>2. UsersMet' BY DEF UsersMet, Met
  <1>3. ClaimOnce' BY DEF ClaimOnce
  <1> QED BY <1>1, <1>2, <1>3

LEMMA ClaimStep ==
  ASSUME TurnAssumption, ClaimInv, [TurnNext]_turnVars
  PROVE  AlikeMet' /\ UsersMet' /\ ClaimOnce'
  <1> USE DEF ClaimInv, TurnInv
  <1> USE DEF Goto, At
  <1> DEFINE Goal == AlikeMet' /\ UsersMet' /\ ClaimOnce'
  <1>0. \A x \in Calls : led[x] \in Calls BY DEF TurnTypeOK
  <1>1. ASSUME NEW c \in Calls, Issue(c) PROVE Goal
    <2>1. /\ pc[c] = "idle" /\ pc'[c] = "pre" /\ by'[c] = gen /\ UNCHANGED <<row, led>>
          /\ \A x \in Calls \ {c} : pc'[x] = pc[x] /\ by'[x] = by[x]
          /\ beside \subseteq beside'
          /\ \A d \in Calls : SameArgs(c, d) /\ by[d] = gen /\ pc[d] \notin Settled => <<c, d>> \in beside'
      BY <1>1 DEF Issue, rowVars, TurnTypeOK
    <2>2. ~Uses(c)' /\ ~Claimed(c)' BY <2>1 DEF Uses, Claimed, PastGate
    <2>3. \A x \in Calls \ {c} : (Uses(x)' <=> Uses(x)) /\ (Claimed(x)' <=> Claimed(x))
      BY <2>1 DEF Uses, Claimed
    <2>4. AlikeMet'
      <3> SUFFICES ASSUME NEW x \in Calls, NEW y \in Calls, x # y, SameArgs(x, y), by'[x] = by'[y],
                          pc'[x] \notin Settled, pc'[y] \notin Settled
                   PROVE  Met(x, y)'
        BY DEF AlikeMet, SameArgs
      <3>1. CASE x = c BY <2>1, <3>1 DEF Met
      <3>2. CASE y = c BY <2>1, <3>2 DEF Met, SameArgs
      <3>3. CASE x # c /\ y # c BY <2>1, <3>3 DEF Met, AlikeMet
      <3> QED BY <3>1, <3>2, <3>3
    <2>5. UsersMet' BY <2>1, <2>2, <2>3 DEF UsersMet, Met
    <2>6. ClaimOnce' BY <2>1, <2>2, <2>3 DEF ClaimOnce
    <2> QED BY <2>4, <2>5, <2>6
  <1>2. ASSUME NEW c \in Calls, PreExecute(c) PROVE Goal
    <2>1. \A x \in Calls \ {c} : pc'[x] = pc[x] /\ led'[x] = led[x] BY <1>2 DEF PreExecute, TurnTypeOK
    <2>2. pc[c] = "pre" /\ pc'[c] \in {"denied", "claim", "ask", "guard"} /\ led[c] = c
      BY <1>2 DEF PreExecute, LedOK, BeforeAsking, TurnTypeOK
    <2>3. \/ pc'[c] # "claim" /\ led' = led
          \/ pc'[c] = "claim" /\ \E l \in Calls : led'[c] = l /\ row[l] = "WAITING_APPROVAL" /\ SameArgs(c, l)
      <3>1. \A i \in DOMAIN asked : asked[i] \in Calls BY DEF TurnTypeOK
      <3> QED BY <1>2, <2>2, <3>1 DEF PreExecute, Resolved, TurnTypeOK
    <2>4. UNCHANGED <<by, row, beside>> BY <1>2 DEF PreExecute, rowVars
    <2>5. \A x \in Calls \ {c} : (Uses(x)' <=> Uses(x)) /\ (Claimed(x)' <=> Claimed(x))
      BY <2>1 DEF Uses, Claimed
    <2>6. ~Claimed(c)' BY <2>2, <2>3 DEF Claimed, PastGate
    <2>7. AlikeMet' BY <2>1, <2>2, <2>4 DEF AlikeMet, SameArgs, Met, Settled
    <2>8. ClaimOnce' BY <2>1, <2>4, <2>5, <2>6 DEF ClaimOnce
    <2>9. ASSUME NEW d \in Calls, d # c, led'[c] = led'[d], Uses(c)', Uses(d)', by'[c] = by'[d]
          PROVE  Met(c, d)'
      <3>1. PICK l \in Calls : led'[c] = l /\ row[l] = "WAITING_APPROVAL" /\ SameArgs(c, l)
        BY <2>2, <2>3, <2>9 DEF Uses
      <3>2. led[d] = l /\ Uses(d) BY <2>1, <2>5, <2>9, <3>1
      <3>3. pc[d] \in {"claim", "claiming"} BY <3>1, <3>2 DEF Uses, ClaimOnce, Claimed
      <3>4. SameArgs(d, l) BY <3>2 DEF LedOK, Uses
      <3>5. SameArgs(c, d) BY <3>1, <3>4, <2>9 DEF SameArgs
      <3>6. pc[c] \notin Settled /\ pc[d] \notin Settled BY <2>2, <3>3 DEF Settled
      <3> QED BY <2>4, <2>9, <3>5, <3>6 DEF AlikeMet, Met
    <2>10. UsersMet'
      <3> SUFFICES ASSUME NEW x \in Calls, NEW y \in Calls, x # y, led'[x] = led'[y], Uses(x)', Uses(y)',
                          by'[x] = by'[y]
                   PROVE  Met(x, y)'
        BY DEF UsersMet
      <3>1. CASE x = c BY <2>9, <3>1
      <3>2. CASE y = c BY <2>9, <3>2 DEF Met
      <3>3. CASE x # c /\ y # c BY <2>1, <2>4, <2>5, <3>3 DEF UsersMet, Met
      <3> QED BY <3>1, <3>2, <3>3
    <2> QED BY <2>7, <2>8, <2>10
  <1>3. ASSUME NEW c \in Calls, Guard(c) \/ Consume(c) \/ Started(c) \/ Body(c) \/ RequestInteraction(c)
                                \/ ParkList(c) \/ ParkArm(c)
        PROVE  Goal
    <2>1. /\ UNCHANGED <<row, by, led, beside>> /\ \A x \in Calls \ {c} : pc'[x] = pc[x]
          /\ <<pc[c], pc'[c]>> \in
               {<<"guard", "denied">>, <<"guard", "start">>, <<"claim", "claiming">>, <<"start", "starting">>,
                <<"body", "asking">>, <<"body", "ran">>, <<"asking", "asked">>, <<"asking", "ran">>,
                <<"listing", "parking">>, <<"parking", "parked">>}
      BY <1>3 DEF Guard, Consume, Started, Join, Body, RequestInteraction, ParkList, ParkArm, rowVars, TurnTypeOK
    <2>2. /\ (pc[c] \in Settled => pc'[c] \in Settled)
          /\ (Uses(c)' => Uses(c))
          /\ (Claimed(c)' => Claimed(c))
      BY <2>1 DEF Settled, Uses, Claimed, PastGate
    <2>3. \A x \in Calls \ {c} : (Uses(x)' <=> Uses(x)) /\ (Claimed(x)' <=> Claimed(x))
      BY <2>1 DEF Uses, Claimed
    <2> QED BY <2>1, <2>2, <2>3, ClaimFrame
  <1>4. ASSUME NEW l \in Calls, NEW g \in 1..MaxGen, FlightLands(l, g) PROVE Goal
    <2> DEFINE mates == flight[l][g]
               first == Head(mates)
    <2>0. PICK ok \in BOOLEAN :
            /\ mates # <<>>
            /\ ok = (g = gen /\ IF pc[first] = "claiming" THEN Claimable(l) ELSE Startable(l))
            /\ row' = IF ok THEN GetOrCreate(l) ELSE row
            /\ pc' = [c \in Calls |-> IF \A i \in DOMAIN mates : mates[i] # c THEN pc[c]
                                      ELSE IF ~ok THEN "failed"
                                      ELSE IF pc[c] = "claiming" THEN "guard" ELSE "body"]
            /\ UNCHANGED <<by, led, beside>>
      BY <1>4 DEF FlightLands
    <2>1. mates \in Seq(Calls)
      <3>1. flight \in [Calls -> [1..MaxGen -> Seq(Calls)]] BY DEF TurnTypeOK
      <3> QED BY <3>1
    <2>2. first \in Calls /\ 1 \in 1..Len(mates) /\ first = mates[1] BY <2>0, <2>1
    <2>3. \A i \in DOMAIN mates : i \in 1..Len(mates) /\ mates[i] \in Calls BY <2>1
    <2>4. \A i \in 1..Len(mates) : /\ led[mates[i]] = l /\ by[mates[i]] = g
                                   /\ pc[mates[i]] \in {"claiming", "starting"}
      BY DEF FlightOK
    <2>5. led[first] = l /\ by[first] = g /\ pc[first] \in {"claiming", "starting"} BY <2>2, <2>4
    <2> HIDE DEF mates, first
    <2>6. \A x \in Calls : \/ pc'[x] = pc[x]
                           \/ /\ led[x] = l /\ by[x] = g /\ pc[x] \in {"claiming", "starting"}
                              /\ pc'[x] \in {"failed", "guard", "body"} /\ (pc'[x] # "failed" => ok)
      BY <2>0, <2>3, <2>4
    <2>7. \A x \in Calls : /\ (pc[x] \in Settled => pc'[x] \in Settled)
                           /\ (Uses(x)' => Uses(x))
                           /\ (Claimed(x)' => Claimed(x) \/ (ok /\ led[x] = l /\ by[x] = g))
      BY <2>0, <2>6 DEF Uses, Claimed, PastGate, Settled
    <2>8. AlikeMet' BY <2>0, <2>7 DEF AlikeMet, SameArgs, Met
    <2>9. UsersMet' BY <2>0, <2>7 DEF UsersMet, Met
    <2>10. CASE ~ok
      <3>1. \A x \in Calls : Claimed(x)' => Claimed(x) BY <2>7, <2>10
      <3> QED BY <2>0, <2>8, <2>9, <2>10, <3>1 DEF ClaimOnce
    <2>11. CASE ok
      <3>1. row'[l] # "WAITING_APPROVAL" /\ \A k \in Calls \ {l} : row'[k] = row[k]
        BY <2>0, <2>11 DEF GetOrCreate, ToolTerminal, Over, TurnTypeOK
      <3>2. ASSUME NEW x \in Calls, Claimed(x), led[x] = l PROVE by[x] = g
        <4>1. approval[l] = "APPROVED" /\ row[l] # "WAITING_APPROVAL" BY <3>2 DEF Claimed, LedOK, ClaimOnce
        <4>2. pc[first] = "starting" BY <2>0, <2>5, <2>11, <4>1 DEF Claimable
        <4>3. led[first] # first BY <2>2, <2>5, <4>1, <4>2 DEF LedOK, Asked, None
        <4>4. Claimed(first) BY <4>2, <4>3 DEF Claimed, PastGate
        <4> QED BY <2>2, <2>5, <3>2, <4>4 DEF ClaimOnce
      <3>3. \A x \in Calls : Claimed(x)' => row'[led'[x]] # "WAITING_APPROVAL"
        BY <1>0, <2>0, <2>7, <3>1 DEF ClaimOnce
      <3>4. \A x, y \in Calls : led'[x] = led'[y] /\ Claimed(x)' /\ Claimed(y)' => by'[x] = by'[y]
        BY <2>0, <2>7, <3>2 DEF ClaimOnce
      <3> QED BY <2>8, <2>9, <3>3, <3>4 DEF ClaimOnce
    <2> QED BY <2>10, <2>11
  <1>5. ASSUME NEW c \in Calls, RequestApproval(c) PROVE Goal
    <2>1. /\ pc[c] = "ask" /\ pc'[c] \in {"listing", "failed"} /\ \A x \in Calls \ {c} : pc'[x] = pc[x]
          /\ UNCHANGED <<by, led, beside>>
      BY <1>5 DEF RequestApproval, RefusedApproval, TurnTypeOK
    <2>2. \A k \in Calls \ {c} : row'[k] = row[k] BY <1>5 DEF RequestApproval, TurnTypeOK
    <2>3. approval[c] = None /\ \A x \in Calls : led[x] = c => x = c
      BY <2>1 DEF LedOK, BeforeAsking, None
    <2>4. ~Uses(c)' /\ ~Claimed(c)' BY <2>1 DEF Uses, Claimed, PastGate
    <2>5. \A x \in Calls \ {c} : (Uses(x)' <=> Uses(x)) /\ (Claimed(x)' <=> Claimed(x))
      BY <2>1 DEF Uses, Claimed
    <2>6. AlikeMet' BY <2>1 DEF AlikeMet, SameArgs, Met, Settled
    <2>7. UsersMet' BY <2>1, <2>4, <2>5 DEF UsersMet, Met
    <2>8. ClaimOnce' BY <1>0, <2>1, <2>2, <2>3, <2>4, <2>5 DEF ClaimOnce, Claimed
    <2> QED BY <2>6, <2>7, <2>8
  <1>6. ASSUME NEW c \in Calls, NEW s \in {"SUCCEEDED", "FAILED", "UNKNOWN"}, Ended(c, s) PROVE Goal
    <2>1. /\ pc[c] = "ran" /\ pc'[c] = "done" /\ \A x \in Calls \ {c} : pc'[x] = pc[x]
          /\ UNCHANGED <<by, led, beside>>
      BY <1>6 DEF Ended, TurnTypeOK
    <2>2. \A k \in Calls : row'[k] = "WAITING_APPROVAL" => row[k] = "WAITING_APPROVAL"
      BY <1>6 DEF Ended, TurnTypeOK
    <2>3. \A x \in Calls : /\ (pc[x] \in Settled => pc'[x] \in Settled)
                           /\ (Uses(x)' => Uses(x))
                           /\ (Claimed(x)' => Claimed(x))
      BY <2>1 DEF Settled, Uses, Claimed, PastGate
    <2> QED BY <1>0, <2>1, <2>2, <2>3, ClaimFrame
  <1>7. ASSUME UNCHANGED <<pc, by, led, beside>>,
               \A k \in Calls : row'[k] = "WAITING_APPROVAL" => row[k] = "WAITING_APPROVAL"
        PROVE  Goal
    BY <1>0, <1>7, ClaimFrame DEF Uses, Claimed
  <1>8. ASSUME NEW c \in Calls, Respond(c) \/ \E s \in {"APPROVED", "REJECTED"} : Decide(c, s) PROVE Goal
    <2>1. \A k \in Calls : row'[k] = "WAITING_APPROVAL" => row[k] = "WAITING_APPROVAL"
      BY <1>8 DEF Respond, Decide, Reject, TurnTypeOK
    <2>2. UNCHANGED <<pc, by, led, beside>> BY <1>8 DEF Respond, Decide
    <2> QED BY <1>7, <2>1, <2>2
  <1>9. ASSUME NEW c \in Calls, NEW d \in Calls, ParkClose(c, d) PROVE Goal
    <2>1. \A k \in Calls : row'[k] = "WAITING_APPROVAL" => row[k] = "WAITING_APPROVAL"
      BY <1>9 DEF ParkClose, TurnTypeOK
    <2>2. UNCHANGED <<pc, by, led, beside>> BY <1>9 DEF ParkClose
    <2> QED BY <1>7, <2>1, <2>2
  <1>10. ASSUME CancelParked \/ Resume \/ TakeOver \/ \E s \in {"SUCCEEDED", "FAILED"} : TurnEnds(s)
         PROVE  Goal
    <2>1. \A k \in Calls : row'[k] = "WAITING_APPROVAL" => row[k] = "WAITING_APPROVAL"
      <3>1. ASSUME CancelParked PROVE <2>1!: BY <3>1 DEF CancelParked, OpenRow
      <3>2. ASSUME Resume PROVE <2>1!: BY <3>2 DEF Resume
      <3>3. \A k \in Calls : Close(row)[k] = "WAITING_APPROVAL" => row[k] = "WAITING_APPROVAL" BY DEF Close
      <3>4. ASSUME TakeOver \/ \E s \in {"SUCCEEDED", "FAILED"} : TurnEnds(s) PROVE <2>1!:
        <4>1. row' = row \/ row' = Close(row) BY <3>4 DEF TakeOver, NewExecutor, TurnEnds
        <4> QED BY <3>3, <4>1
      <3> QED BY <1>10, <3>1, <3>2, <3>4
    <2>2. UNCHANGED <<pc, by, led, beside>> BY <1>10 DEF CancelParked, Resume, TakeOver, TurnEnds
    <2> QED BY <1>7, <2>1, <2>2
  <1>11. CASE UNCHANGED turnVars
    <2>1. UNCHANGED <<pc, by, led, beside, row>> BY <1>11 DEF turnVars
    <2> QED BY <1>7, <2>1
  <1> HIDE DEF ClaimInv, TurnInv, Goto, At, Goal
  <1>12. CASE TurnNext
    <2>1. ASSUME NEW c \in Calls,
                 \/ Issue(c) \/ PreExecute(c) \/ Guard(c) \/ Consume(c) \/ Started(c)
                 \/ Body(c) \/ RequestInteraction(c) \/ RequestApproval(c)
                 \/ ParkList(c) \/ ParkArm(c) \/ Respond(c)
                 \/ \E d \in Calls : ParkClose(c, d)
                 \/ \E g \in 1..MaxGen : FlightLands(c, g)
                 \/ \E s \in {"SUCCEEDED", "FAILED", "UNKNOWN"} : Ended(c, s)
                 \/ \E s \in {"APPROVED", "REJECTED"} : Decide(c, s)
          PROVE  Goal
      <3>1. CASE Issue(c) \/ PreExecute(c) \/ RequestApproval(c) BY <1>1, <1>2, <1>5, <3>1
      <3>2. CASE Guard(c) \/ Consume(c) \/ Started(c) \/ Body(c) \/ RequestInteraction(c) \/ ParkList(c) \/ ParkArm(c)
        BY <1>3, <3>2
      <3>3. CASE Respond(c) \/ \E s \in {"APPROVED", "REJECTED"} : Decide(c, s) BY <1>8, <3>3
      <3>4. CASE \E d \in Calls : ParkClose(c, d) BY <1>9, <3>4
      <3>5. CASE \E g \in 1..MaxGen : FlightLands(c, g) BY <1>4, <3>5
      <3>6. CASE \E s \in {"SUCCEEDED", "FAILED", "UNKNOWN"} : Ended(c, s) BY <1>6, <3>6
      <3> QED BY <2>1, <3>1, <3>2, <3>3, <3>4, <3>5, <3>6
    <2> QED BY <1>10, <1>12, <2>1 DEF TurnNext, Goal
  <1> QED BY <1>11, <1>12 DEF Goal

(* Whatever calls a model issues at once and whatever executors replace    *)
(* each other: the body of a call to approve runs only under a granted     *)
(* approval, a run parked on an approval leaves no sandbox request open,   *)
(* and it waits for one thing (evaluatePreExecute, recordToolStarted,      *)
(* terminalizeParallelToolsForPark, getOrCreatePending).                   *)
THEOREM HumanStaysInCharge ==
  ASSUME TurnAssumption
  PROVE  TurnSpec => [](TurnTypeOK /\ HumanGate /\ ParkedIsSettled /\ OneWait)
  <1>1. TurnInit => TurnInv BY TurnInitial DEF ClaimInv
  <1>2. TurnInv /\ [TurnNext]_turnVars => TurnInv' BY TurnStep
  <1>3. TurnInv => TurnTypeOK /\ HumanGate /\ ParkedIsSettled /\ OneWait BY TurnImplies DEF TurnInv
  <1> QED BY <1>1, <1>2, <1>3, PTL DEF TurnSpec

(* An approval is good for one moment: whatever calls the model issues,    *)
(* alike or not, at once or one after another, and whatever executors      *)
(* replace each other, the bodies that run under one approval belong to    *)
(* calls of one executor that were on beside each other                    *)
(* (createApprovedReplayClaim, recordToolStarted).                         *)
THEOREM ApprovalUsedOnce ==
  ASSUME TurnAssumption
  PROVE  TurnSpec => []ApprovedOnce
  <1>1. TurnInit => ClaimInv BY TurnInitial
  <1>2. ClaimInv /\ [TurnNext]_turnVars => ClaimInv' BY TurnStep, ClaimStep DEF ClaimInv
  <1>3. ClaimInv => ApprovedOnce
    <2> SUFFICES ASSUME ClaimInv, NEW c \in Calls, NEW d \in Calls, c # d, led[c] = led[d], Ran(c), Ran(d)
                 PROVE  by[c] = by[d] /\ Met(c, d)
      BY DEF ApprovedOnce, Met
    <2>1. led[c] # c /\ led[d] # d BY DEF ClaimInv, TurnInv, LedOK, Ran, Asked, None
    <2>2. Claimed(c) /\ Claimed(d) /\ Uses(c) /\ Uses(d) BY <2>1 DEF Claimed, Uses, Ran, PastGate
    <2> QED BY <2>2 DEF ClaimInv, ClaimOnce, UsersMet
  <1> QED BY <1>1, <1>2, <1>3, PTL DEF TurnSpec

==============================================================================
