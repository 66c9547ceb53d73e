---------------------------- MODULE Airworthiness ----------------------------
(***************************************************************************)
(* The due list of one aircraft (apps/web/lib/compliance-handler.ts) while *)
(* flight time is logged and squawks are filed and resolved.               *)
(*                                                                         *)
(* handleComplianceDueList is one READ COMMITTED transaction of several    *)
(* SELECTs, and each sees what has been committed by then: the airframe    *)
(* total first, the open grounding squawks later, the clock last.          *)
(* Subscriptions are written once, in the transaction that creates the     *)
(* aircraft, and nothing updates them, so they are a constant.             *)
(***************************************************************************)
EXTENDS FlightTime, Squawks, Compliance

CONSTANTS Reader,       \* due-list requests
          Programs,     \* active subscriptions: intervals, anchor and thresholds
          FirstDay,     \* the first day the model lives through
          MaxDays       \* bound: how many midnights pass

ASSUME AirworthinessAssumption == FirstDay \in Int /\ MaxDays \in Nat

ASSUME ProgramsAssumption ==
    Programs \in Seq([intervals: Seq(IntervalDefinition), anchor: ComplianceAnchor,
                      thresholds: DueSoonThresholds])

VARIABLES today,        \* new Date(), as a day number
          rqPc,         \* where each due-list request is
          rqAirframe,   \* aircraft.airframeTotalTime as the request read it
          rqGrounding,  \* the open grounding squawks as the request read them
          answer,       \* airworthiness_status of the response
          \* What happened while the request ran; the program has no such state.
          truths,       \* every status the aircraft had
          held,         \* squawks that were open and grounding all along
          moved         \* whether the total or the day changed

rqVars == <<today, rqPc, rqAirframe, rqGrounding, answer, truths, held, moved>>

vars == <<ftVars, sqVars, rqVars>>
-----------------------------------------------------------------------------
Days == FirstDay .. FirstDay + MaxDays

\* The state the engine is given; cycles are not tracked yet.
Current(airframeTime, now) == [airframeTime |-> airframeTime, now |-> now, cycles |-> 0]

ProgramDues(current) ==
    [p \in 1 .. Len(Programs) |->
        ComputeProgramDue(Programs[p].intervals, Programs[p].anchor, current,
                          Programs[p].thresholds)]

\* The rollup of the inspections, for every total and day.
InspectionStatus ==
    [airframeTime \in Hours |-> [now \in Days |->
        RollupAirworthiness(ProgramDues(Current(airframeTime, now)))]]

\* Mutant: the squawks are only looked at when the inspections are in order.
StatusOfInspectionsFirst(airframeTime, grounding, now) ==
    IF InspectionStatus[airframeTime][now] = "ok" /\ grounding # {}
    THEN "overdue"
    ELSE InspectionStatus[airframeTime][now]

\* airworthiness_status of the response.
StatusOf(airframeTime, grounding, now) ==
    IF grounding # {} THEN "overdue" ELSE InspectionStatus[airframeTime][now]

\* The status of the aircraft as it is.
TrueStatus == StatusOf(airframe, OpenGrounding, today)

TypeOK ==
    /\ FlightTimeTypeOK
    /\ SquawksTypeOK
    /\ today \in Days
    /\ rqPc \in [Reader -> {"idle", "aircraft", "squawks", "answered"}]
    /\ rqAirframe \in [Reader -> Hours]
    /\ rqGrounding \in [Reader -> SUBSET Squawk]
    /\ answer \in [Reader -> Statuses \cup {Nobody}]
    /\ truths \in [Reader -> SUBSET Statuses]
    /\ held \in [Reader -> SUBSET Squawk]
    /\ moved \in [Reader -> BOOLEAN]

Init ==
    /\ FlightTimeInit
    /\ SquawksInit
    /\ today = FirstDay
    /\ rqPc = [q \in Reader |-> "idle"]
    /\ rqAirframe = [q \in Reader |-> 0]
    /\ rqGrounding = [q \in Reader |-> {}]
    /\ answer = [q \in Reader |-> Nobody]
    /\ truths = [q \in Reader |-> {}]
    /\ held = [q \in Reader |-> {}]
    /\ moved = [q \in Reader |-> FALSE]

\* Bookkeeping for the requests under way, in every step of another actor.
Observe ==
    LET running == {q \in Reader : rqPc[q] \in {"aircraft", "squawks"}}
    IN  /\ truths' = [q \in Reader |->
               IF q \in running THEN truths[q] \cup {TrueStatus'} ELSE truths[q]]
        /\ held' = [q \in Reader |-> held[q] \cap OpenGrounding']
        /\ moved' = [q \in Reader |->
               moved[q] \/ (q \in running /\ (airframe' # airframe \/ today' # today))]

WriterSteps ==
    \/ FlightTimeNext /\ UNCHANGED <<sqVars, today>>
    \/ SquawksNext /\ UNCHANGED <<ftVars, today>>
    \/ /\ today < FirstDay + MaxDays
       /\ today' = today + 1
       /\ UNCHANGED <<ftVars, sqVars>>

\* SELECT ... FROM aircraft (and its subscriptions, which do not change).
ReadAircraft(q) ==
    /\ rqPc[q] = "idle"
    /\ rqPc' = [rqPc EXCEPT ![q] = "aircraft"]
    /\ rqAirframe' = [rqAirframe EXCEPT ![q] = airframe]
    /\ truths' = [truths EXCEPT ![q] = {TrueStatus}]
    /\ held' = [held EXCEPT ![q] = OpenGrounding]
    /\ UNCHANGED <<ftVars, sqVars, today, rqGrounding, answer, moved>>

\* listOpenGroundingForAircraft.
ReadSquawks(q) ==
    /\ rqPc[q] = "aircraft"
    /\ rqPc' = [rqPc EXCEPT ![q] = "squawks"]
    /\ rqGrounding' = [rqGrounding EXCEPT ![q] = OpenGrounding]
    /\ UNCHANGED <<ftVars, sqVars, today, rqAirframe, answer, truths, held, moved>>

\* Mutant: "now" was taken when the server started.
AnswerStaleNow(q) ==
    /\ rqPc[q] = "squawks"
    /\ rqPc' = [rqPc EXCEPT ![q] = "answered"]
    /\ answer' = [answer EXCEPT ![q] = StatusOf(rqAirframe[q], rqGrounding[q], FirstDay)]
    /\ UNCHANGED <<ftVars, sqVars, today, rqAirframe, rqGrounding, truths, held, moved>>

\* The loop over the programs, whose templates never change, and the response.
Answer(q) ==
    /\ rqPc[q] = "squawks"
    /\ rqPc' = [rqPc EXCEPT ![q] = "answered"]
    /\ answer' = [answer EXCEPT ![q] = StatusOf(rqAirframe[q], rqGrounding[q], today)]
    /\ UNCHANGED <<ftVars, sqVars, today, rqAirframe, rqGrounding, truths, held, moved>>

Next ==
    \/ WriterSteps /\ Observe /\ UNCHANGED <<rqPc, rqAirframe, rqGrounding, answer>>
    \/ \E q \in Reader : ReadAircraft(q) \/ ReadSquawks(q) \/ Answer(q)

Spec == Init /\ [][Next]_vars
-----------------------------------------------------------------------------
Answers(q) == rqPc[q] = "squawks" /\ rqPc'[q] = "answered"

\* A squawk that grounds the aircraft for as long as the request runs is never
\* missed: the answer is overdue whatever the inspections say.
GroundingNotMissed ==
    [][\A q \in Reader : Answers(q) /\ held[q] # {} => answer'[q] = "overdue"]_vars

\* The statements of a request read different snapshots.  If neither the total nor
\* the day changed while it ran, its answer was still true at some moment of it.
AnswerWasTrue ==
    [][\A q \in Reader : Answers(q) /\ ~moved[q] => answer'[q] \in truths[q]]_vars

\* The driver of a program: none of its intervals is in a worse state, or in the
\* same state with less left.
DriversAreRight(current) ==
    \A p \in 1 .. Len(Programs) : \A i \in 1 .. Len(Programs[p].intervals) :
        LET driver == ProgramDues(current)[p]
            due == ComputeIntervalDue(Programs[p].intervals[i], Programs[p].anchor, current,
                                      Programs[p].thresholds)
        IN  \/ StatusRank[driver.status] > StatusRank[due.status]
            \/ driver.status = due.status /\ driver.margin <= due.margin

PastDue(current) ==
    \E p \in 1 .. Len(Programs) : \E i \in 1 .. Len(Programs[p].intervals) :
        Remaining(Programs[p].intervals[i], Programs[p].anchor, current) < 0

EngineIsRight ==
    [airframeTime \in Hours |-> [now \in Days |->
        /\ DriversAreRight(Current(airframeTime, now))
        /\ InspectionStatus[airframeTime][now] = "overdue" <=>
               PastDue(Current(airframeTime, now))]]

\* Whichever comes first: every program is driven by its worst interval, and the
\* inspections are overdue exactly when some interval of some program is past due.
WhicheverComesFirst == EngineIsRight[airframe][today]
=============================================================================
