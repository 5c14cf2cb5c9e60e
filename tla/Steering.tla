------------------------------- MODULE Steering -------------------------------
(***************************************************************************)
(* Instructions to a run that is going on.  SteerRunService writes the     *)
(* instruction, its message, event and outbox row in one transaction; the  *)
(* DurableSteerController of every attempt reads the events of the run     *)
(* from the start, gives each instruction that is not delivered to the     *)
(* agent and records the delivery (durable-steer-controller.ts,            *)
(* dsh-run-executor.ts step 11).  An instruction is named by its           *)
(* idempotency key.                                                        *)
(***************************************************************************)
EXTENDS Naturals, Sequences, SequencesExt

CONSTANTS Keys,         \* instructions a person sends, each perhaps repeatedly
          PageSize,     \* STEER_EVENT_PAGE_SIZE
          MaxAttempts,  \* bound: attempts of the run
          MaxFaults,    \* bound: crashes and failing calls
          MaxEvents     \* bound: instructions and other events of the run
SteeringAssumption == PageSize > 0 /\ MaxAttempts > 0

VARIABLES status,   \* status of the run
          events,   \* its events: <<kind, key>>
          ctl,      \* the controller of this attempt: step, cursor, pending, left
          prompt,   \* the prompt of this attempt: none, going or over
          heard,    \* given to the agent in this attempt, in order
          ever,     \* given to the agent in any attempt
          attempt, faults

steerVars == <<status, events, ctl, prompt, heard, ever, attempt, faults>>

Idle == [pc |-> "none", cursor |-> 0, pending |-> <<>>, left |-> <<>>]
Has(kind, k) == \E i \in 1..Len(events) : events[i] = <<kind, k>>

SteeringTypeOK ==
  /\ status \in {"QUEUED", "RUNNING", "WAITING", "ENDED"}
  /\ \A i \in 1..Len(events) : events[i] \in {"requested", "delivered", "other"} \X Keys
  /\ ctl.pc \in {"none", "timer", "read", "deliver", "record", "failed"}
  /\ ctl.cursor \in 0..Len(events) /\ prompt \in {"none", "going", "over"}
  /\ ever \subseteq Keys /\ attempt \in 0..MaxAttempts /\ faults \in 0..MaxFaults

SteeringInit ==
  /\ status = "QUEUED" /\ events = <<>> /\ ctl = Idle /\ prompt = "none"
  /\ heard = <<>> /\ ever = {} /\ attempt = 0 /\ faults = 0

-----------------------------------------------------------------------------
(* SteerRunService.execute: a conflict unless the locked row says RUNNING, *)
(* then the key is begun; a key that was completed is answered again.      *)
Room == Len(SelectSeq(events, LAMBDA e : e[1] # "delivered")) < MaxEvents
KeyForgotten(k) == FALSE
KeyKnown(k) == Has("requested", k)
Steer(k) ==
  /\ status = "RUNNING" /\ ~KeyKnown(k) /\ Room
  /\ events' = Append(events, <<"requested", k>>)
  /\ UNCHANGED <<status, ctl, prompt, heard, ever, attempt, faults>>

-----------------------------------------------------------------------------
(* An attempt starts; the prompt and a controller with cursor 0 follow.    *)
BeginAttempt ==
  /\ status = "QUEUED" /\ attempt < MaxAttempts
  /\ status' = "RUNNING" /\ attempt' = attempt + 1 /\ heard' = <<>>
  /\ UNCHANGED <<events, ctl, prompt, ever, faults>>

StartPrompt ==
  /\ status = "RUNNING" /\ prompt = "none"
  /\ prompt' = "going" /\ ctl' = [Idle EXCEPT !.pc = "timer"]
  /\ UNCHANGED <<status, events, heard, ever, attempt, faults>>

(* The timer fires unless the controller was stopped.                      *)
PollOnce ==
  /\ ctl.pc = "timer" /\ prompt = "going" /\ ctl' = [ctl EXCEPT !.pc = "read"]
  /\ UNCHANGED <<status, events, prompt, heard, ever, attempt, faults>>

(* #readNewEvents: a page; a full one is followed by another.              *)
Page == SubSeq(events, ctl.cursor + 1, IF ctl.cursor + PageSize < Len(events)
                                       THEN ctl.cursor + PageSize ELSE Len(events))
NotedTwice(pending, e) == IF e[1] = "requested" THEN Append(pending, e[2]) ELSE pending
Noted(pending, e) ==
  CASE e[1] = "requested" -> Append(pending, e[2])
    [] e[1] = "delivered" -> SelectSeq(pending, LAMBDA k : k # e[2])
    [] OTHER -> pending
ReadPage ==
  /\ ctl.pc = "read"
  /\ LET pending == FoldLeft(Noted, ctl.pending, Page)
         more == Len(Page) = PageSize
     IN ctl' = [pc |-> IF more THEN "read" ELSE "deliver", cursor |-> ctl.cursor + Len(Page),
                pending |-> pending, left |-> IF more THEN <<>> ELSE pending]
  /\ UNCHANGED <<status, events, prompt, heard, ever, attempt, faults>>

(* pollOnce: the instructions pending at the end of the read, one by one:  *)
(* the message is loaded and given to the agent, ...                       *)
Give ==
  /\ ctl.pc = "deliver" /\ ctl.left # <<>>
  /\ heard' = Append(heard, Head(ctl.left)) /\ ever' = ever \cup {Head(ctl.left)}
  /\ ctl' = [ctl EXCEPT !.pc = "record"]
  /\ UNCHANGED <<status, events, prompt, attempt, faults>>

(* ... the delivery is recorded and the instruction is no longer pending.  *)
Forget(k) == ctl' = [ctl EXCEPT !.pc = "deliver", !.left = Tail(@),
                                !.pending = SelectSeq(@, LAMBDA x : x # k)]
RecordDelivered ==
  /\ ctl.pc = "record"
  /\ events' = Append(events, <<"delivered", Head(ctl.left)>>)
  /\ Forget(Head(ctl.left))
  /\ UNCHANGED <<status, prompt, heard, ever, attempt, faults>>

PollEnds ==
  /\ ctl.pc = "deliver" /\ ctl.left = <<>> /\ ctl' = [ctl EXCEPT !.pc = "timer"]
  /\ UNCHANGED <<status, events, prompt, heard, ever, attempt, faults>>

(* A read, the agent or the recorder fails: onError aborts the session.    *)
PollFails ==
  /\ ctl.pc \in {"read", "deliver", "record"}
  /\ faults < MaxFaults /\ faults' = faults + 1
  /\ ctl' = [ctl EXCEPT !.pc = "failed"] /\ prompt' = "over"
  /\ UNCHANGED <<status, events, heard, ever, attempt>>

-----------------------------------------------------------------------------
(* The prompt returns.  stop() lets a poll in flight finish.               *)
PromptEnds ==
  /\ prompt = "going" /\ prompt' = "over"
  /\ UNCHANGED <<status, events, ctl, heard, ever, attempt, faults>>

(* The run parks, or ends when the prompt or the controller says so.       *)
LeaveAttempt(to) ==
  /\ prompt = "over" /\ ctl.pc \in {"timer", "failed"}
  /\ to \in (IF ctl.pc = "failed" THEN {"ENDED"} ELSE {"WAITING", "ENDED"})
  /\ status' = to /\ prompt' = "none" /\ ctl' = Idle
  /\ UNCHANGED <<events, heard, ever, attempt, faults>>

(* Other events of the run; the person answers; the worker dies and        *)
(* recovery queues the run again.                                          *)
OtherEvent ==
  /\ status = "RUNNING" /\ Room /\ \A i \in 1..Len(events) : events[i][1] # "other"
  /\ events' = Append(events, <<"other", CHOOSE k \in Keys : TRUE>>)
  /\ UNCHANGED <<status, ctl, prompt, heard, ever, attempt, faults>>

Answer ==
  /\ status = "WAITING" /\ status' = "QUEUED"
  /\ UNCHANGED <<events, ctl, prompt, heard, ever, attempt, faults>>

Crash ==
  /\ status = "RUNNING" /\ faults < MaxFaults /\ faults' = faults + 1
  /\ status' = "QUEUED" /\ ctl' = Idle /\ prompt' = "none"
  /\ UNCHANGED <<events, heard, ever, attempt>>

Controller == ReadPage \/ Give \/ RecordDelivered \/ PollEnds

SteeringNext ==
  \/ \E k \in Keys : Steer(k)
  \/ OtherEvent
  \/ BeginAttempt \/ StartPrompt \/ PollOnce \/ Controller \/ PollFails
  \/ PromptEnds \/ LeaveAttempt("WAITING") \/ LeaveAttempt("ENDED") \/ Answer \/ Crash

-----------------------------------------------------------------------------
Requested == SelectSeq(events, LAMBDA e : e[1] = "requested")
Position(k) == CHOOSE i \in 1..Len(events) : events[i] = <<"requested", k>>

(* In an attempt the agent is given instructions in the order they were    *)
(* accepted, each once, and none before an earlier one that was never      *)
(* delivered; a key makes one instruction however often it is sent.        *)
GivenInOrder ==
  /\ \A i, j \in 1..Len(heard) : i < j => Position(heard[i]) < Position(heard[j])
  /\ \A i \in 1..Len(heard), k \in Keys :
       KeyKnown(k) /\ Position(k) < Position(heard[i])
         => Has("delivered", k) \/ \E j \in 1..Len(heard) : heard[j] = k
  /\ IsInjective(Requested)

(* What is recorded as delivered was given to the agent, and what an       *)
(* earlier attempt recorded is not given again.                            *)
DeliveredWasGiven ==
  \A k \in Keys : /\ Has("delivered", k)' => k \in ever'
                  /\ Len(heard') > Len(heard) /\ Last(heard') = k => ~Has("delivered", k)

(* An accepted instruction is delivered as long as the run goes on.        *)
Undelivered(k) == Has("requested", k)
Handed(k) == Has("delivered", k) \/ prompt # "going"
=============================================================================
