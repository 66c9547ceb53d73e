----------------------------- MODULE FlightTime -----------------------------
(***************************************************************************)
(* Manual flight-time entries of one aircraft: FlightTimeService           *)
(* (packages/aircraft/src/flight-time-service.ts) and the BEFORE INSERT    *)
(* trigger of migration 0009.                                              *)
(*                                                                         *)
(* Each entry is one READ COMMITTED transaction.  The trigger reads the    *)
(* airframe total with a plain SELECT, compares, and then updates the      *)
(* aircraft row.  That UPDATE waits for other writers of the row and does  *)
(* not look at the total again; it is followed by nothing that others can  *)
(* see before the commit, so the UPDATE, the INSERT and the COMMIT are one *)
(* step.  The entry carries the time its transaction began, so to begin is *)
(* a step too.  Hundredths of an hour are abstracted to small numbers.     *)
(***************************************************************************)
EXTENDS Integers, TransactionLog

CONSTANTS TimeEntry,   \* requests to log a reading
          MaxHours     \* bound: readings are 0 .. MaxHours

ASSUME HoursAssumption == MaxHours \in Nat

VARIABLES airframe,    \* aircraft.airframe_total_time
          timeLog,     \* flight_time_entries
          ftClock,     \* now(): how many of their transactions have begun
          ftPc,        \* where each request is
          ftBegan,     \* when its transaction began
          ftReading,   \* airframe_time_new and is_override of each request
          ftSaw        \* v_current_tt of each request's trigger

ftVars == <<airframe, timeLog, ftClock, ftPc, ftBegan, ftReading, ftSaw>>
-----------------------------------------------------------------------------
Hours == 0 .. MaxHours

Reading == [new: Hours, override: BOOLEAN]

LoggedEntry ==
    [began: Nat, until: Nat, row: [prev: Hours, new: Hours, override: BOOLEAN]]

NoReading == [new |-> 0, override |-> FALSE]

FlightTimeTypeOK ==
    /\ airframe \in Hours
    /\ timeLog \subseteq LoggedEntry
    /\ ftClock \in Nat
    /\ ftPc \in [TimeEntry -> {"idle", "begun", "checked", "done", "refused", "aborted"}]
    /\ ftBegan \in [TimeEntry -> Nat]
    /\ ftReading \in [TimeEntry -> Reading]
    /\ ftSaw \in [TimeEntry -> Hours]

FlightTimeInit ==
    /\ airframe \in Hours
    /\ timeLog = {}
    /\ ftClock = 0
    /\ ftPc = [e \in TimeEntry |-> "idle"]
    /\ ftBegan = [e \in TimeEntry |-> 0]
    /\ ftReading = [e \in TimeEntry |-> NoReading]
    /\ ftSaw = [e \in TimeEntry |-> 0]

\* Mutant: the comparison lets any reading through.
RegressesNever(reading) == FALSE

\* The trigger's comparison with the total it has just read.
Regresses(reading) == ~reading.override /\ reading.new < airframe

\* The request is over and its transaction's locals are gone.
Finish(e, outcome) ==
    /\ ftPc' = [ftPc EXCEPT ![e] = outcome]
    /\ ftBegan' = [ftBegan EXCEPT ![e] = 0]
    /\ ftReading' = [ftReading EXCEPT ![e] = NoReading]
    /\ ftSaw' = [ftSaw EXCEPT ![e] = 0]

\* logFlightTime with a valid reading (a negative one, or an override without a
\* reason, is refused before the database sees it): the transaction begins.
LogFlightTime(e) ==
    /\ ftPc[e] = "idle"
    /\ ftPc' = [ftPc EXCEPT ![e] = "begun"]
    /\ ftClock' = ftClock + 1
    /\ ftBegan' = [ftBegan EXCEPT ![e] = ftClock']
    /\ UNCHANGED <<airframe, timeLog, ftReading, ftSaw>>

\* The trigger's SELECT and check: flight_time_not_monotonic is raised, or the
\* total just read becomes airframe_time_prev.
TriggerCheck(e) ==
    /\ ftPc[e] = "begun"
    /\ \E reading \in Reading :
        IF Regresses(reading)
        THEN Finish(e, "refused")
        ELSE /\ ftPc' = [ftPc EXCEPT ![e] = "checked"]
             /\ ftReading' = [ftReading EXCEPT ![e] = reading]
             /\ ftSaw' = [ftSaw EXCEPT ![e] = airframe]
             /\ UNCHANGED ftBegan
    /\ UNCHANGED <<airframe, timeLog, ftClock>>

Record(e) ==
    timeLog' = timeLog \cup
        {Stamped([prev |-> ftSaw[e], new |-> ftReading[e].new,
                  override |-> ftReading[e].override], ftBegan[e], ftClock)}

\* The trigger's UPDATE, the INSERT and the COMMIT.
TriggerAdvance(e) ==
    /\ ftPc[e] = "checked"
    /\ Finish(e, "done")
    /\ airframe' = ftReading[e].new
    /\ Record(e)
    /\ UNCHANGED ftClock

\* The transaction is rolled back (lost connection, crash).
FlightTimeAborts(e) ==
    /\ ftPc[e] \in {"begun", "checked"}
    /\ Finish(e, "aborted")
    /\ UNCHANGED <<airframe, timeLog, ftClock>>

FlightTimeNext ==
    \E e \in TimeEntry :
        LogFlightTime(e) \/ TriggerCheck(e) \/ TriggerAdvance(e) \/ FlightTimeAborts(e)

FlightTimeSpec == FlightTimeInit /\ [][FlightTimeNext]_ftVars
-----------------------------------------------------------------------------
Commits(e) == ftPc[e] = "checked" /\ ftPc'[e] = "done"

\* Once flight time was logged the aircraft's total is a reading of the logbook, and
\* what listForAircraft lists above that entry is only entries that overlapped it:
\* after entries one by one the logbook begins with the total of the profile.
LogbookShowsTotal ==
    timeLog # {} =>
        \E r \in timeLog : r.row.new = airframe /\ TopButForOverlaps(timeLog, r)

\* The total goes down only by an override, or by an entry whose trigger compared
\* its reading with a total another entry has replaced since.
OnlyOverrideOrStaleLowers ==
    [][airframe' < airframe =>
        \E e \in TimeEntry :
            /\ Commits(e)
            /\ ftReading[e].override \/ ftSaw[e] # airframe]_ftVars

=============================================================================
