----------------------------- MODULE EventStream ------------------------------
(***************************************************************************)
(* The two places the events of one Run live, without saying who copies    *)
(* them: the MySQL journal (run_events, numbered 1, 2, ... under the lock  *)
(* of the Run row) and the Redis stream (run:stream).  The stream is a     *)
(* hint: it holds committed events only, but in any order, any number of   *)
(* times, or not at all, and Redis may trim or lose it.                    *)
(*                                                                         *)
(* Outbox, the publishers, implements this specification; RunEventSse, the *)
(* readers, is built on it.                                                *)
(***************************************************************************)
EXTENDS Naturals, Sequences

CONSTANTS MaxEvents,   \* bound: events of the Run
          MaxEntries,  \* bound: entries ever added to the stream
          MaxLen       \* RUN_STREAM_MAXLEN, the trim limit

StreamAssumption == /\ MaxEvents \in Nat \ {0}
                    /\ MaxEntries \in Nat
                    /\ MaxLen \in Nat

VARIABLES committed,   \* runs.next_event_sequence: events 1..committed exist
          terminal,    \* number of the event that ended the Run, 0 if none
          final,       \* last event of that transaction
          entries,     \* every entry ever added; its index is the stream id
          kept         \* entries up to this index are trimmed or lost

journalVars == <<committed, terminal, final>>
streamVars  == <<committed, terminal, final, entries, kept>>

StreamTypeOK ==
  /\ committed \in 0..MaxEvents
  /\ terminal \in 0..MaxEvents
  /\ final \in 0..MaxEvents
  /\ entries \in Seq(1..MaxEvents)
  /\ kept \in 0..Len(entries)

(* create-run-service writes run.accepted with the Run: event 1.           *)
StreamInit ==
  /\ committed = 1
  /\ terminal = 0
  /\ final = 0
  /\ entries = <<>>
  /\ kept = 0

(* RunEventRepository.append in its caller's transaction.  Events may also *)
(* follow the end of the Run (a late tool, a review).                      *)
Commit ==
  /\ committed < MaxEvents
  /\ committed' = committed + 1
  /\ UNCHANGED <<terminal, final, entries, kept>>

(* applyRunTransitionInTxn into a terminal status: the status event, then  *)
(* one event for each tool row the cancel closes, in one transaction.      *)
CommitTerminal ==
  /\ terminal = 0
  /\ committed < MaxEvents
  /\ terminal' = committed + 1
  /\ committed' \in (committed + 1)..MaxEvents
  /\ final' = committed'
  /\ UNCHANGED <<entries, kept>>

(* XADD with MAXLEN ~: the trim removes nothing unless the stream is       *)
(* longer than MaxLen, and never cuts below it.                            *)
Trims(n) == IF n > kept + MaxLen THEN kept..(n - MaxLen) ELSE {kept}

XAdd(e) ==
  /\ Len(entries) < MaxEntries
  /\ entries' = Append(entries, e)
  /\ kept' \in Trims(Len(entries) + 1)
  /\ UNCHANGED journalVars

(* Only a committed event is ever published.                               *)
Publish(e) == e \in 1..committed /\ XAdd(e)

(* Redis loses its data (restart without persistence, failover).           *)
Lose ==
  /\ kept < Len(entries)
  /\ kept' = Len(entries)
  /\ UNCHANGED <<journalVars, entries>>

StreamNext ==
  \/ Commit
  \/ CommitTerminal
  \/ \E e \in 1..MaxEvents : Publish(e)
  \/ Lose

StreamSpec == StreamInit /\ [][StreamNext]_streamVars
==============================================================================
