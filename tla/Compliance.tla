----------------------------- MODULE Compliance -----------------------------
(***************************************************************************)
(* The interval engine (packages/compliance/src/engine.ts), a library of   *)
(* pure functions: what is due on one aircraft, and how badly.             *)
(*                                                                         *)
(* A date is a record [y, m, d] of the Gregorian calendar; Ord numbers the *)
(* days, and the engine compares day numbers (its milliseconds, with the   *)
(* time of day left out).  Hours, days and cycles are integers.            *)
(***************************************************************************)
EXTENDS Integers, Sequences, SequencesExt

-----------------------------------------------------------------------------
(* What the engine is given.  It throws on another calendar unit; for hours  *)
(* and cycles the unit is a convention it does not look at.                  *)

CALENDAR_UNITS == {"days", "months", "years"}

IntervalDefinition ==
    [kind: {"hour", "cycle"}, value: Int, unit: STRING]
    \cup [kind: {"calendar"}, value: Int, unit: CALENDAR_UNITS]

ComplianceAnchor ==
    [at: [y: Int, m: 1 .. 12, d: 1 .. 31], airframeTime: Int, cycles: Int]

DueSoonThresholds == [days: Int, hours: Int]

-----------------------------------------------------------------------------
(* Calendar arithmetic of the JavaScript Date object.                      *)

IsLeap(y) == (y % 4 = 0 /\ y % 100 # 0) \/ y % 400 = 0

\* Days before the first of month m (1 .. 12) in a common year.
DaysBefore == <<0, 31, 59, 90, 120, 151, 181, 212, 243, 273, 304, 334>>

\* The number of the day [y, m, d]; d may run past the end of the month, as it
\* does when a Date is given a month shorter than its day.
Ord(y, m, d) ==
    365 * y + ((y - 1) \div 4) - ((y - 1) \div 100) + ((y - 1) \div 400)
        + DaysBefore[m] + (IF m > 2 /\ IsLeap(y) THEN 1 ELSE 0) + d

OrdOf(date) == Ord(date.y, date.m, date.d)

\* setUTCMonth(getUTCMonth() + value): the year carries, the day is kept and
\* overflows into the next month when the new one is too short.
PlusMonths(date, value) ==
    LET month == date.m - 1 + value
    IN  Ord(date.y + (month \div 12), (month % 12) + 1, date.d)

AddCalendar(base, value, unit) ==
    CASE unit = "days" -> OrdOf(base) + value
      [] unit = "months" -> PlusMonths(base, value)
      [] unit = "years" -> PlusMonths(base, 12 * value)

-----------------------------------------------------------------------------
(* One interval.                                                           *)

Statuses == {"ok", "due_soon", "overdue"}

StatusRank == [ok |-> 0, due_soon |-> 1, overdue |-> 2]

ResolveStatus(remaining, threshold) ==
    CASE remaining < 0 -> "overdue"
      [] remaining \in 0 .. threshold -> "due_soon"
      [] OTHER -> "ok"

\* What is left until the interval is due, in its own unit.
Remaining(interval, anchor, current) ==
    CASE interval.kind = "hour" -> anchor.airframeTime + interval.value - current.airframeTime
      [] interval.kind = "calendar" ->
            AddCalendar(anchor.at, interval.value, interval.unit) - current.now
      [] interval.kind = "cycle" -> anchor.cycles + interval.value - current.cycles

\* Neither caller passes a threshold for cycles, so a cycle interval is never due
\* soon (a threshold of -1 says the same).
ThresholdFor(kind, thresholds) ==
    CASE kind = "hour" -> thresholds.hours
      [] kind = "calendar" -> thresholds.days
      [] kind = "cycle" -> -1

ComputeIntervalDue(interval, anchor, current, thresholds) ==
    LET remaining == Remaining(interval, anchor, current)
    IN  [interval |-> interval,
         margin |-> remaining,
         status |-> ResolveStatus(remaining, ThresholdFor(interval.kind, thresholds))]

-----------------------------------------------------------------------------
(* Whichever comes first.                                                  *)

\* Mutant: the smallest margin drives the program, whatever its status.
WorseSmallest(best, candidate) ==
    IF candidate.margin < best.margin THEN candidate ELSE best

\* One step of the reduce: the worse status, then the smaller margin (a number of
\* hours, days or cycles, compared as plain numbers), then the earlier interval.
Worse(best, candidate) ==
    LET b == StatusRank[best.status]
        c == StatusRank[candidate.status]
    IN  IF c > b \/ (c = b /\ candidate.margin < best.margin) THEN candidate ELSE best

NoDriver == [status |-> "ok"]

ComputeProgramDue(intervals, anchor, current, thresholds) ==
    LET computed == [i \in 1 .. Len(intervals) |->
                        ComputeIntervalDue(intervals[i], anchor, current, thresholds)]
    IN  IF intervals = <<>> THEN NoDriver ELSE FoldLeft(Worse, computed[1], Tail(computed))

WorstStatus(a, b) == IF StatusRank[a] >= StatusRank[b] THEN a ELSE b

RollupAirworthiness(dues) ==
    FoldLeft(LAMBDA worst, due : WorstStatus(worst, due.status), "ok", dues)
=============================================================================
