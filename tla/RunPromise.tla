----------------------------- MODULE RunPromise ------------------------------
(***************************************************************************)
(* What the platform promises the owner of a Run, without saying how:      *)
(* the Run asks at most one question at a time and never the same one      *)
(* twice, it ends exactly once, its owner is told of the end exactly once, *)
(* and it never ends with a question still open, except that a             *)
(* cancellation closes the question in the same step.                      *)
(***************************************************************************)
EXTENDS Naturals

CONSTANT ToolCalls

Questions == {"approval", "input"} \X ToolCalls

TerminalStatuses == {"SUCCEEDED", "FAILED", "CANCELLED"}

VARIABLES result,    \* "OPEN" or the terminal status of the Run
          open,      \* the questions that wait for the user
          asked,     \* every question ever put to the user
          notified   \* how often the end of the Run was announced

promiseVars == <<result, open, asked, notified>>

Init ==
  /\ result = "OPEN"
  /\ open = {}
  /\ asked = {}
  /\ notified = 0

Ask(q) ==
  /\ result = "OPEN"
  /\ open = {}
  /\ q \notin asked
  /\ open' = {q}
  /\ asked' = asked \cup {q}
  /\ UNCHANGED <<result, notified>>

Answer(q) ==
  /\ result = "OPEN"
  /\ open = {q}
  /\ open' = {}
  /\ UNCHANGED <<result, asked, notified>>

Finish(r) ==
  /\ result = "OPEN"
  /\ r # "CANCELLED" => open = {}
  /\ result' = r
  /\ open' = {}
  /\ notified' = notified + 1
  /\ UNCHANGED asked

Next ==
  \/ \E q \in Questions : Ask(q) \/ Answer(q)
  \/ \E r \in TerminalStatuses : Finish(r)

Spec == Init /\ [][Next]_promiseVars
==============================================================================
