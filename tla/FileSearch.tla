----------------------------- MODULE FileSearch -----------------------------
(***************************************************************************)
(* The bounded views of a workspace: ls, find and grep of FileSearchService. *)
(* Each walks the tree with awaits between the entries while a job of the  *)
(* session may add or remove files; each stops at a limit and reports what *)
(* it left out as `truncated` or `skipped`.                                *)
(*                                                                         *)
(* The entries are the numbers 1..N in the order of their names; entry 0   *)
(* is where the search starts.  What an entry is never changes, whether it *)
(* is there does.                                                          *)
(***************************************************************************)
EXTENDS Integers, Sequences, FiniteSets, SequencesExt

CONSTANTS N,           \* entries of the tree
          Kinds,       \* what an entry can be, a subset of AllKinds
          Modes,       \* of "ls", "find", "grep"
          Limits,      \* limits a caller asks for (LS_MAX_ITEMS for ls)
          Depths,      \* depths a caller asks for
          ScanBudget,  \* GREP_MAX_TOTAL_BYTES, in files of one unit
          MaxChanges,  \* bound: changes of the tree during a walk
          Slow         \* the 5 seconds of a grep may run out

SearchAssumption ==
  /\ N \in Nat \ {0} /\ Limits \subseteq Nat \ {0} /\ Depths \subseteq Nat
  /\ ScanBudget \in Nat \ {0} /\ MaxChanges \in Nat /\ Slow \in BOOLEAN

AllKinds == {"file", "hidden", "dir", "unreadable", "linkIn", "linkDir", "linkOut", "special",
             "big", "binary"}
KindsAssumption == Kinds \subseteq AllKinds

VARIABLES parent, kind, hit,   \* the tree: where, what, and whether it matches
          there,               \* the entries on disk
          steady,              \* entries that were there all through the walk
          mode, limit, depth,  \* the request
          pc,                  \* start, walk, done
          stack,               \* frames [dir, todo, depth] of the walk, innermost last
          items, skipped, truncated, scanned,
          changes

vars == <<parent, kind, hit, there, steady, mode, limit, depth, pc, stack, items, skipped,
          truncated, scanned, changes>>
tree == <<parent, kind, hit>>
request == <<mode, limit, depth>>

Entries == 1..N
Start == 0

Init ==
  /\ parent \in {p \in [Entries -> 0..N] : \A e \in Entries : p[e] < e}
  /\ kind \in [0..N -> Kinds \cup {"dir"}] /\ kind[Start] \in {"dir", "file"}
  /\ \A e \in Entries : parent[e] # Start => kind[parent[e]] \in {"dir", "unreadable"}
  /\ (kind[Start] = "file") => \A e \in Entries : parent[e] # Start
  /\ hit \in [0..N -> BOOLEAN] /\ \A e \in 0..N : kind[e] \in {"special", "big", "binary"} => hit[e]
  /\ there \in {0..N, Entries} /\ steady = there
  /\ mode \in Modes /\ limit \in Limits /\ depth \in Depths
  /\ pc = "start" /\ stack = <<>> /\ items = <<>> /\ skipped = {} /\ truncated = FALSE
  /\ scanned = 0 /\ changes = 0

Links == {"linkIn", "linkDir", "linkOut"}
IsDir(e) == kind[e] \in {"dir", "unreadable"}
Children(d) == {e \in Entries : parent[e] = d /\ e \in there}
Ordered(S) == SetToSortSeq(S, LAMBDA a, b : a < b)

\* readdir, sorted by name; a directory that cannot be read has no entries.
Scandir(d) == IF kind[d] = "unreadable" \/ d \notin there THEN <<>> ELSE Ordered(Children(d))

\* grep looks at the files of a directory, links to files included, before its
\* directories; a link to a directory is sorted with these.
FilesOf(d) == SelectSeq(Scandir(d), LAMBDA e : kind[e] \in {"file", "hidden", "linkIn", "linkOut",
                                                           "big", "binary"})
DirsOf(d) == SelectSeq(Scandir(d), LAMBDA e : IsDir(e) \/ kind[e] = "linkDir")

Frame(d, n) == [dir |-> d, todo |-> IF mode = "grep" THEN FilesOf(d) \o DirsOf(d) ELSE Scandir(d),
                depth |-> n]
Top == stack[Len(stack)]
Head1 == Top.todo[1]
Advanced == [stack EXCEPT ![Len(stack)] = [Top EXCEPT !.todo = Tail(Top.todo)]]

Stop(cut) == pc' = "done" /\ truncated' = cut /\ stack' = <<>>
Descend(e) == stack' = Append(Advanced, Frame(e, Top.depth + 1))
Skip(e) == skipped' = skipped \cup {e} /\ stack' = Advanced /\ UNCHANGED <<items, pc, truncated>>
Pass == stack' = Advanced /\ UNCHANGED <<items, skipped, pc, truncated>>

(***************************************************************************)
(* The start                                                               *)
(***************************************************************************)
Begun == pc' = "walk" /\ stack' = <<Frame(Start, 1)>> /\ UNCHANGED truncated

\* A missing start is reported as skipped with the reason not_found.
NotFound ==
  /\ pc = "start" /\ Start \notin there
  /\ skipped' = {Start} /\ Stop(FALSE)
  /\ UNCHANGED <<items, scanned>>

\* ls of a file, or with depth 0, is the entry itself.
LsStart ==
  /\ pc = "start" /\ Start \in there /\ mode = "ls"
  /\ IF depth = 0 \/ ~IsDir(Start)
     THEN items' = <<Start>> /\ Stop(FALSE)
     ELSE Begun /\ UNCHANGED items
  /\ UNCHANGED <<skipped, scanned>>

\* find considers the start as well.
FindStart ==
  /\ pc = "start" /\ Start \in there /\ mode = "find"
  /\ items' = IF hit[Start] THEN <<Start>> ELSE <<>>
  /\ IF Len(items') >= limit THEN Stop(TRUE)
     ELSE IF IsDir(Start) /\ depth >= 1 THEN Begun ELSE Stop(FALSE)
  /\ UNCHANGED <<skipped, scanned>>

\* grep of a file scans it.
GrepStart ==
  /\ pc = "start" /\ Start \in there /\ mode = "grep"
  /\ IF IsDir(Start)
     THEN Begun /\ UNCHANGED <<items, scanned>>
     ELSE /\ items' = IF hit[Start] THEN <<Start>> ELSE <<>>
          /\ scanned' = 1 /\ Stop(Len(items') >= limit)
  /\ UNCHANGED skipped

(***************************************************************************)
(* ls and find: one entry of the innermost directory                       *)
(***************************************************************************)
\* An item is added; the walk ends when the limit is reached.
PushOver(e) ==
  /\ items' = Append(items, e)
  /\ IF Len(items) >= limit THEN Stop(TRUE) ELSE stack' = Advanced /\ UNCHANGED <<pc, truncated>>
Push(e) ==
  /\ items' = Append(items, e)
  /\ IF Len(items') >= limit THEN Stop(TRUE) ELSE stack' = Advanced /\ UNCHANGED <<pc, truncated>>

\* A directory is an item of its own, and walked unless it is too deep.
Enter(e) ==
  IF Top.depth < depth THEN Descend(e) /\ UNCHANGED <<pc, truncated>>
  ELSE stack' = Advanced /\ UNCHANGED <<pc, truncated>>
PushDir(e) ==
  /\ items' = Append(items, e)
  /\ IF Len(items') >= limit THEN Stop(TRUE) ELSE Enter(e)

Walking(m) == pc = "walk" /\ mode = m /\ Top.todo # <<>> /\ UNCHANGED scanned

LsFollows ==
  /\ Walking("ls")
  /\ LET e == Head1 IN
     \/ kind[e] = "hidden" /\ Pass
     \/ kind[e] = "linkOut" /\ Skip(e)
     \/ kind[e] \in {"linkIn", "file", "big", "binary"} /\ Push(e) /\ UNCHANGED skipped
     \/ (IsDir(e) \/ kind[e] = "linkDir") /\ items' = Append(items, e)
        /\ stack' = Append(Advanced, IF kind[e] = "linkDir" THEN Frame(Start, 1) ELSE Frame(e, Top.depth + 1))
        /\ UNCHANGED <<pc, truncated, skipped>>
     \/ kind[e] = "special" /\ Skip(e)
LsEntry ==
  /\ Walking("ls")
  /\ LET e == Head1 IN
     \/ kind[e] = "hidden" /\ Pass
     \/ kind[e] = "linkOut" /\ Skip(e)
     \/ kind[e] \in {"linkIn", "linkDir", "file", "big", "binary"} /\ Push(e) /\ UNCHANGED skipped
     \/ IsDir(e) /\ PushDir(e) /\ UNCHANGED skipped
     \/ kind[e] = "special" /\ Skip(e)

\* consider: an entry that does not match is not an item, but a directory is
\* still walked.
FindEntry ==
  /\ Walking("find")
  /\ LET e == Head1 IN
     \/ kind[e] = "linkOut" /\ Skip(e)
     \/ kind[e] \in {"linkIn", "linkDir", "file", "hidden", "big", "binary"} /\ hit[e]
        /\ Push(e) /\ UNCHANGED skipped
     \/ kind[e] \in {"linkIn", "linkDir", "file", "hidden", "big", "binary"} /\ ~hit[e] /\ Pass
     \/ IsDir(e) /\ hit[e] /\ PushDir(e) /\ UNCHANGED skipped
     \/ IsDir(e) /\ ~hit[e] /\ Enter(e) /\ UNCHANGED <<items, skipped>>
     \/ kind[e] = "special" /\ Skip(e)

(***************************************************************************)
(* grep                                                                    *)
(***************************************************************************)
\* budgetOk, asked before every directory and file.
BudgetOk == scanned < ScanBudget /\ Len(items) < limit
BudgetSpent ==
  /\ pc = "walk" /\ mode = "grep" /\ Top.todo # <<>>
  /\ ~BudgetOk \/ Slow
  /\ Stop(TRUE) /\ UNCHANGED <<items, skipped, scanned>>

\* scanFile: links out of the workspace, files that are gone, too large or
\* binary are reported as skipped; the others are read and count against the
\* budget.
ScanLoses ==
  /\ pc = "walk" /\ mode = "grep" /\ Top.todo # <<>> /\ BudgetOk
  /\ LET e == Head1 IN
     /\ ~IsDir(e) /\ kind[e] # "linkDir"
     /\ \/ (kind[e] \in {"linkOut", "big", "binary"} \/ e \notin there) /\ Pass /\ UNCHANGED scanned
        \/ /\ kind[e] \in {"file", "hidden", "linkIn"} /\ e \in there
           /\ scanned' = scanned + 1
           /\ IF hit[e] THEN Push(e) /\ UNCHANGED skipped ELSE Pass
ScanFile ==
  /\ pc = "walk" /\ mode = "grep" /\ Top.todo # <<>> /\ BudgetOk
  /\ LET e == Head1 IN
     /\ ~IsDir(e) /\ kind[e] # "linkDir"
     /\ \/ (kind[e] \in {"linkOut", "big", "binary"} \/ e \notin there) /\ Skip(e) /\ UNCHANGED scanned
        \/ /\ kind[e] \in {"file", "hidden", "linkIn"} /\ e \in there
           /\ scanned' = scanned + 1
           /\ IF hit[e] THEN Push(e) /\ UNCHANGED skipped ELSE Pass

\* A directory link is not followed, a directory is walked whatever its depth.
WalkDir ==
  /\ pc = "walk" /\ mode = "grep" /\ Top.todo # <<>> /\ BudgetOk
  /\ LET e == Head1 IN
     \/ kind[e] = "linkDir" /\ Skip(e)
     \/ IsDir(e) /\ Descend(e) /\ UNCHANGED <<items, skipped, pc, truncated>>
  /\ UNCHANGED scanned

\* The end of a directory; that of the first ends the walk.
LeaveRescans ==
  /\ pc = "walk" /\ Top.todo = <<>>
  /\ IF Len(stack) = 1 THEN Stop(FALSE)
     ELSE /\ stack' = Append(Front(Front(stack)), Frame(stack[Len(stack) - 1].dir, Len(stack) - 1))
          /\ UNCHANGED <<pc, truncated>>
  /\ UNCHANGED <<items, skipped, scanned>>
LeaveDir ==
  /\ pc = "walk" /\ Top.todo = <<>>
  /\ IF Len(stack) = 1 THEN Stop(FALSE)
     ELSE stack' = Front(stack) /\ UNCHANGED <<pc, truncated>>
  /\ UNCHANGED <<items, skipped, scanned>>

Search == \/ NotFound \/ LsStart \/ FindStart \/ GrepStart \/ LsEntry \/ FindEntry
          \/ BudgetSpent \/ ScanFile \/ WalkDir \/ LeaveDir

(***************************************************************************)
(* The job beside it                                                       *)
(***************************************************************************)
Below(e) == {x \in Entries : \/ x = e \/ parent[x] = e
                             \/ parent[x] # 0 /\ parent[parent[x]] = e}
Delete(e) ==
  /\ changes < MaxChanges /\ pc = "walk" /\ e \in there
  /\ there' = there \ Below(e) /\ steady' = steady \ Below(e)
  /\ changes' = changes + 1
  /\ UNCHANGED <<pc, stack, items, skipped, truncated, scanned>>
Create(e) ==
  /\ changes < MaxChanges /\ pc = "walk" /\ e \notin there /\ parent[e] \in there
  /\ there' = there \cup {e} /\ UNCHANGED steady
  /\ changes' = changes + 1
  /\ UNCHANGED <<pc, stack, items, skipped, truncated, scanned>>

Done == pc = "done" /\ UNCHANGED vars

SearchGoesOn == Search /\ UNCHANGED <<there, steady, changes>> /\ UNCHANGED tree /\ UNCHANGED request
Next == \/ SearchGoesOn
        \/ \E e \in Entries : (Delete(e) \/ Create(e)) /\ UNCHANGED tree /\ UNCHANGED request
        \/ Done

Fairness == WF_vars(SearchGoesOn)
Spec == Init /\ [][Next]_vars /\ Fairness

-----------------------------------------------------------------------------
(* Properties *)

TypeOK ==
  /\ there \subseteq 0..N /\ steady \subseteq there
  /\ pc \in {"start", "walk", "done"} /\ truncated \in BOOLEAN
  /\ ToSet(items) \subseteq 0..N /\ skipped \subseteq 0..N
  /\ scanned \in 0..ScanBudget
  /\ \A i \in 1..Len(stack) : stack[i].dir \in 0..N /\ stack[i].depth = i
  /\ (pc = "walk") <=> (stack # <<>>)

\* What a search had to look at: entries below directories that stayed and could
\* be read, no deeper than asked (grep has no depth).
RECURSIVE DepthOf(_)
DepthOf(e) == IF e = Start THEN 0 ELSE 1 + DepthOf(parent[e])
RECURSIVE InReach(_)
InReach(e) == e = Start \/ (e \in steady /\ kind[parent[e]] = "dir" /\ InReach(parent[e]))
Wanted(e) ==
  /\ InReach(e) /\ (mode = "grep" \/ DepthOf(e) <= depth)
  /\ \/ mode = "ls" /\ kind[e] # "hidden" /\ e # Start
     \/ mode = "find" /\ hit[e]
     \/ mode = "grep" /\ hit[e] /\ kind[e] # "linkDir" /\ ~IsDir(e)

\* A search that was not cut short has every entry it was asked for among its
\* items or among what it says it skipped: a model that reads the answer may
\* conclude that nothing else is there, but for what is below a directory that
\* cannot be read, which scandirSorted answers like an empty one.
Accounted ==
  pc = "done" /\ ~truncated /\ Start \in steady =>
    \A e \in 0..N : Wanted(e) => e \in ToSet(items) \cup skipped

\* Every search ends, whatever links the tree has.
SearchOver == pc = "done"

=============================================================================
