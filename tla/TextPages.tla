----------------------------- MODULE TextPages -----------------------------
(***************************************************************************)
(* Reading a text file in pages through the MCP bridge: readTextBounded    *)
(* streams the file, keeps the whole lines of the window that fit the      *)
(* byte budget, and answers with the offset of the next page; the caller   *)
(* follows next_offset until it is null.                                   *)
(*                                                                         *)
(* A line is its length in bytes.  Whether the newline of an overlong line *)
(* arrives in the chunk that takes the buffer over the budget depends on   *)
(* how the stream is cut, and is a choice here.                            *)
(***************************************************************************)
EXTENDS Naturals, Sequences, FiniteSets, FiniteSetsExt

CONSTANTS MaxLines,   \* bound: lines of the file
          Lengths,    \* lengths of a line
          MaxBytes,   \* SANDBOX_MCP_MAX_READ_BYTES
          Windows,    \* values of limit; NoLimit is null
          MaxAppends  \* bound: lines a job appends while the file is read

NoLimit == 1000

PagesAssumption ==
  /\ MaxLines \in Nat /\ MaxBytes \in Nat \ {0} /\ MaxAppends \in Nat
  /\ Lengths \subseteq Nat /\ Windows \subseteq (Nat \ {0})

VARIABLES file,       \* its lines, as lengths
          newline,    \* it ends with a newline
          limit,      \* of the caller, for every page
          offset,     \* of the page asked for
          reading,    \* a page is being made
          budget,     \* lineBudget of the page
          lineNo, taken, takenBytes, overBudget, beyondWindow,
          got,        \* line numbers the caller has received
          total,      \* total_lines of the last page
          finished,   \* next_offset was null
          appends

vars == <<file, newline, limit, offset, reading, budget, lineNo, taken, takenBytes, overBudget,
          beyondWindow, got, total, finished, appends>>
page == <<budget, lineNo, taken, takenBytes, overBudget, beyondWindow>>
caller == <<limit, offset, got, total, finished>>

Init ==
  /\ file \in UNION {[1..n -> Lengths] : n \in 0..MaxLines}
  /\ newline \in (IF Len(file) = 0 THEN {FALSE} ELSE IF file[Len(file)] = 0 THEN {TRUE} ELSE BOOLEAN)
  /\ limit \in Windows
  /\ offset = 1 /\ reading = FALSE /\ budget = 0 /\ lineNo = 0 /\ taken = <<>> /\ takenBytes = 0
  /\ overBudget = FALSE /\ beyondWindow = FALSE
  /\ got = <<>> /\ total = 0 /\ finished = FALSE /\ appends = 0

\* files/read: the last byte decides whether a byte is kept for the final
\* newline, then the stream starts.
LineBudget == IF newline THEN MaxBytes - 1 ELSE MaxBytes
StartPage ==
  /\ ~reading /\ ~finished
  /\ reading' = TRUE /\ budget' = LineBudget
  /\ lineNo' = 0 /\ taken' = <<>> /\ takenBytes' = 0
  /\ overBudget' = FALSE /\ beyondWindow' = FALSE
  /\ UNCHANGED <<file, newline, appends>> /\ UNCHANGED caller

InWindow(n) == n >= offset /\ n < offset + limit

\* pushLine: a line before the window is counted, one after it ends the page,
\* one that does not fit ends it as well.
CostWithoutBreak(n) == file[n]
Cost(n) == file[n] + (IF taken = <<>> THEN 0 ELSE 1)
FitsAlone(n) == Cost(n) <= budget
FitsStrictly(n) == takenBytes + Cost(n) < budget
Fits(n) == takenBytes + Cost(n) <= budget
PushLine ==
  /\ reading /\ lineNo < Len(file)
  /\ file[lineNo + 1] > budget => (lineNo + 1 < Len(file) \/ newline)
  /\ LET n == lineNo + 1 IN
     /\ lineNo' = n
     /\ \/ n < offset /\ UNCHANGED <<taken, takenBytes, overBudget, beyondWindow>>
        \/ n >= offset + limit /\ beyondWindow' = TRUE /\ UNCHANGED <<taken, takenBytes, overBudget>>
        \/ InWindow(n) /\ overBudget /\ UNCHANGED <<taken, takenBytes, overBudget, beyondWindow>>
        \/ /\ InWindow(n) /\ ~overBudget
           /\ IF ~Fits(n)
              THEN overBudget' = TRUE /\ UNCHANGED <<taken, takenBytes>>
              ELSE /\ taken' = Append(taken, n) /\ takenBytes' = takenBytes + Cost(n)
                   /\ UNCHANGED overBudget
           /\ UNCHANGED beyondWindow
  /\ UNCHANGED <<file, newline, reading, budget, appends>> /\ UNCHANGED caller

\* The buffer is over the budget before the newline is seen: the line is
\* dropped and only counted.
DropQuietly ==
  /\ reading /\ lineNo < Len(file) /\ file[lineNo + 1] > budget
  /\ lineNo' = lineNo + 1
  /\ UNCHANGED <<file, newline, reading, budget, taken, takenBytes, overBudget, beyondWindow, appends>>
  /\ UNCHANGED caller
DropLine ==
  /\ reading /\ lineNo < Len(file) /\ file[lineNo + 1] > budget
  /\ lineNo' = lineNo + 1
  /\ overBudget' = (overBudget \/ InWindow(lineNo + 1))
  /\ UNCHANGED <<file, newline, reading, budget, taken, takenBytes, beyondWindow, appends>>
  /\ UNCHANGED caller

\* The end of the stream: the answer, and what the caller makes of it.
OnlyBudget == overBudget
Truncated == overBudget \/ beyondWindow
ReachedEnd == ~overBudget /\ newline /\ lineNo >= offset /\ lineNo < offset + limit
SkipAhead == offset + Len(taken) + 1
NextOffset == offset + Len(taken)
EndPage ==
  /\ reading /\ lineNo = Len(file)
  /\ reading' = FALSE
  /\ got' = got \o taken /\ total' = lineNo
  /\ finished' = ~Truncated
  /\ offset' = IF Truncated THEN NextOffset ELSE offset
  /\ UNCHANGED <<file, newline, limit, appends>> /\ UNCHANGED page

\* A job appends a line between two pages.
AppendLine(l) ==
  /\ appends < MaxAppends /\ ~reading /\ ~finished /\ newline
  /\ file' = Append(file, l) /\ appends' = appends + 1
  /\ UNCHANGED <<newline, reading>> /\ UNCHANGED page /\ UNCHANGED caller

Done == finished /\ UNCHANGED vars

Next == \/ StartPage \/ PushLine \/ DropLine \/ EndPage
        \/ \E l \in Lengths : AppendLine(l)
        \/ Done

Spec == Init /\ [][Next]_vars /\ WF_vars(StartPage) /\ WF_vars(PushLine) /\ WF_vars(DropLine)
             /\ WF_vars(EndPage)

-----------------------------------------------------------------------------
(* Properties *)

TypeOK ==
  /\ lineNo \in 0..Len(file) /\ budget \in 0..MaxBytes /\ offset \in 1..(Len(file) + 1)
  /\ takenBytes \in 0..budget /\ total \in 0..Len(file)
  /\ {overBudget, beyondWindow, reading, finished, newline} \subseteq BOOLEAN

\* The pages are consecutive: what the caller has is the beginning of the file,
\* no line missing and none twice.
PagesInOrder == \A i \in 1..Len(got) : got[i] = i

\* A caller told that there is no next page has the whole file, but for lines
\* at its end that are longer than a page can be: beyond the window such a line
\* is dropped without a mark (internal-mcp.ts reads it away before the window
\* is looked at).
CompleteAtEnd == finished => \A n \in (Len(got) + 1)..Len(file) : file[n] > LineBudget

\* The answer never exceeds the limit, the final newline included.
ContentBytes == MapThenSumSet(LAMBDA i : file[taken[i]] + (IF i = 1 THEN 0 ELSE 1), DOMAIN taken)

\* A caller who follows next_offset gets to the end, or to a line that is longer
\* than a page can be: that page is empty and names itself as the next one.
ReaderDone == finished \/ (offset \in DOMAIN file /\ file[offset] > LineBudget)
=============================================================================
