------------------------------- MODULE CronTime -------------------------------
(***************************************************************************)
(* When a cron expression fires: the agent's search (cron-schedule) and    *)
(* the preview of the schedules page (scheduleModel), which walks the same *)
(* instants but skips hours and days that cannot match; and the page's     *)
(* frequency builder with its inverse.                                     *)
(*                                                                         *)
(* An instant is a minute since the first midnight, HourLength minutes to  *)
(* the hour.  The zone is a sequence of local days, each the sequence of   *)
(* its local hours: the hour a change of offset drops or repeats is        *)
(* missing or twice in its day.  Days alternate over two weekdays, and     *)
(* their number in the month is their number.                              *)
(***************************************************************************)
EXTENDS Naturals, Sequences, FiniteSets

CONSTANTS HourLength,  \* minutes of an hour
          Zone,        \* the local hours of each day
          Horizon      \* bound: the instants searched, for 370 days

CronTimeAssumption ==
    /\ HourLength \in Nat \ {0}
    /\ Horizon \in Nat

\* The clock of a zone without changes of offset, and of one whose first
\* day drops an hour and whose second day repeats one.
PlainDays == <<<<0, 1, 2>>, <<0, 1, 2>>, <<0, 1, 2>>>>
ShiftedDays == <<<<0, 2>>, <<0, 1, 1, 2>>, <<0, 1, 2>>>>

Days == IF Zone = "shifted" THEN ShiftedDays ELSE PlainDays
HoursOfDay == 3

\* The hours of the zone in the order they pass, with their days.
Hours ==
    LET before[d \in 0 .. Len(Days)] ==
          IF d = 0 THEN << >>
          ELSE before[d - 1] \o [h \in 1 .. Len(Days[d]) |->
                                    [day |-> d, hour |-> Days[d][h]]]
    IN before[Len(Days)]

Instants == 0 .. Len(Hours) * HourLength - 1

\* zonedParts.
Zoned(t) ==
    LET h == Hours[(t \div HourLength) + 1]
    IN [minute |-> t % HourLength, hour |-> h.hour, dom |-> h.day,
        dow |-> h.day % 2]

\* A parsed field: its values, and whether it is the wildcard.
Field(all) == [values : SUBSET all \ {{}}, wildcard : {FALSE}]
              \cup {[values |-> all, wildcard |-> TRUE]}

\* parseCronExpression; the months are left out.
Expressions ==
    [minute : Field(0 .. HourLength - 1), hour : Field(0 .. HoursOfDay - 1),
     dom : Field(1 .. Len(Days)), dow : Field(0 .. 1)]

\* The day fields both have to match.
DayMatchesBoth(c, v) == v.dow \in c.dow.values /\ v.dom \in c.dom.values

\* Constrained day fields are alternatives; a wildcard leaves the other one.
DayMatches(c, v) ==
    CASE c.dom.wildcard -> v.dow \in c.dow.values
      [] c.dow.wildcard -> v.dom \in c.dom.values
      [] OTHER -> v.dow \in c.dow.values \/ v.dom \in c.dom.values

\* cronMatches.
CronMatches(c, t) ==
    LET v == Zoned(t)
    IN /\ v.minute \in c.minute.values
       /\ v.hour \in c.hour.values
       /\ DayMatches(c, v)

NoInstant == Horizon + 1

\* nextCronOccurrence: the first minute after an instant that matches.
NextCronOccurrence(c, after) ==
    LET hits == {t \in Instants : t > after /\ t <= Horizon /\ CronMatches(c, t)}
    IN IF hits = {} THEN NoInstant
       ELSE CHOOSE t \in hits : \A u \in hits : t <= u

VARIABLES expression, \* the expression of the dialog
          start,      \* the instant of the preview
          at,         \* the candidate nextOccurrences looks at
          found       \* the first occurrence of the preview, when it has one

vars == <<expression, start, at, found>>

Init ==
    /\ expression \in Expressions
    /\ start \in {t \in Instants : t < Horizon}
    /\ at = start + 1
    /\ found = NoInstant

Searching == found = NoInstant /\ at <= Horizon /\ at \in Instants

\* An hour is skipped by a whole hour's minutes, wherever the candidate is.
SkipsWholeHour ==
    /\ Searching
    /\ DayMatches(expression, Zoned(at))
    /\ Zoned(at).hour \notin expression.hour.values
    /\ at' = at + HourLength
    /\ UNCHANGED <<expression, start, found>>

\* nextOccurrences: the day cannot match, go on at the next midnight.
SkipDay ==
    LET v == Zoned(at)
    IN /\ Searching
       /\ ~DayMatches(expression, v)
       /\ at' = at + (HoursOfDay - v.hour) * HourLength - v.minute
       /\ UNCHANGED <<expression, start, found>>

\* The hour cannot match, go on at the next hour.
SkipHour ==
    LET v == Zoned(at)
    IN /\ Searching
       /\ DayMatches(expression, v)
       /\ v.hour \notin expression.hour.values
       /\ at' = at + HourLength - v.minute
       /\ UNCHANGED <<expression, start, found>>

SkipMinute ==
    /\ Searching
    /\ DayMatches(expression, Zoned(at))
    /\ Zoned(at).hour \in expression.hour.values
    /\ Zoned(at).minute \notin expression.minute.values
    /\ at' = at + 1
    /\ UNCHANGED <<expression, start, found>>

FoundOccurrence ==
    /\ Searching
    /\ CronMatches(expression, at)
    /\ found' = at
    /\ UNCHANGED <<expression, start, at>>

Done == ~Searching /\ UNCHANGED vars

Next == SkipDay \/ SkipHour \/ SkipMinute \/ FoundOccurrence \/ Done

Spec == Init /\ [][Next]_vars

-----------------------------------------------------------------------------
(* The builder. *)

\* What the form holds.
Forms ==
    [frequency : {"daily"}, minute : 0 .. HourLength - 1, hour : 0 .. HoursOfDay - 1,
     weekdays : {{}}, day : {0}]
    \cup [frequency : {"weekly"}, minute : 0 .. HourLength - 1,
          hour : 0 .. HoursOfDay - 1, weekdays : SUBSET (0 .. 1) \ {{}}, day : {0}]
    \cup [frequency : {"monthly"}, minute : 0 .. HourLength - 1,
          hour : 0 .. HoursOfDay - 1, weekdays : {{}}, day : 1 .. Len(Days)]

Fixed(x) == [values |-> x, wildcard |-> FALSE]
AnyDay == [values |-> 1 .. Len(Days), wildcard |-> TRUE]
AnyWeekday == [values |-> 0 .. 1, wildcard |-> TRUE]

\* buildCron.
BuildCron(f) ==
    [minute |-> Fixed({f.minute}), hour |-> Fixed({f.hour}),
     dom |-> IF f.frequency = "monthly" THEN Fixed({f.day}) ELSE AnyDay,
     dow |-> IF f.frequency = "weekly" THEN Fixed(f.weekdays) ELSE AnyWeekday]

\* formFromCron reads a list of days as every day.
FormDaily(c) ==
    [frequency |-> "daily", minute |-> CHOOSE x \in c.minute.values : TRUE,
     hour |-> CHOOSE x \in c.hour.values : TRUE, weekdays |-> {}, day |-> 0]

\* formFromCron, for an expression the builder wrote.
FormFromCron(c) ==
    [FormDaily(c) EXCEPT
        !.frequency = CASE c.dom.wildcard /\ c.dow.wildcard -> "daily"
                        [] c.dom.wildcard -> "weekly"
                        [] OTHER -> "monthly",
        !.weekdays = IF c.dow.wildcard THEN {} ELSE c.dow.values,
        !.day = IF c.dom.wildcard THEN 0 ELSE CHOOSE x \in c.dom.values : TRUE]

-----------------------------------------------------------------------------

\* When the preview is done, its first instant is the one the agent computes,
\* unless that one falls into the first hour of a day after one that dropped
\* an hour: the preview skips a day by its full length and lands behind it.  An
\* instant it shows is one the agent fires at in any case.
AfterShortDay(t) ==
    LET d == Zoned(t).dom
    IN d > 1 /\ Len(Days[d - 1]) < HoursOfDay /\ Zoned(t).hour = Days[d][1]
PreviewAgrees ==
    LET next == NextCronOccurrence(expression, start)
    IN ~Searching => \/ found = next
                     \/ /\ AfterShortDay(next) /\ next < found
                        /\ found # NoInstant => CronMatches(expression, found)

\* Editing a job shows the form that made its expression.
FormsRoundTrip ==
    \A f \in Forms : expression = BuildCron(f) => FormFromCron(expression) = f

=============================================================================
