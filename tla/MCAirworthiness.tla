-------------------------- MODULE MCAirworthiness --------------------------
(* One aircraft created on 2023-01-31 with three subscriptions: every 2 hours *)
(* or 1 month, whichever comes first; every 33 days or 1 cycle; and a custom  *)
(* program without intervals.  2023-01-31 plus one month is 2023-03-03, so in *)
(* the four days from 2023-03-01 both programs go from ok to due soon, and    *)
(* the first to overdue; so it does in the hours 0 .. 3.                      *)
EXTENDS Airworthiness, TLC

MCAnchor == [at |-> [y |-> 2023, m |-> 1, d |-> 31], airframeTime |-> 0, cycles |-> 0]

MCSubscription(intervals, dueSoonDays) ==
    [intervals |-> intervals, anchor |-> MCAnchor,
     thresholds |-> [days |-> dueSoonDays, hours |-> 1]]

MCPrograms ==
    <<MCSubscription(<<[kind |-> "hour", value |-> 2, unit |-> "hours"],
                       [kind |-> "calendar", value |-> 1, unit |-> "months"]>>, 1),
      MCSubscription(<<[kind |-> "cycle", value |-> 1, unit |-> "cycles"],
                       [kind |-> "calendar", value |-> 33, unit |-> "days"]>>, 2),
      MCSubscription(<<>>, 30)>>

MCFirstDay == Ord(2023, 3, 1)

\* The requests of a kind are interchangeable.
MCSymmetry == Permutations(TimeEntry) \cup Permutations(Resolver)
=============================================================================
