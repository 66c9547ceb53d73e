------------------------- MODULE AirworthinessProofs -------------------------
(***************************************************************************)
(* Proofs about the due list and about the flight-time and squawk services *)
(* it reads, for any number of requests, squawks and programs, and about   *)
(* what the interval engine computes, for any programs and calendar.       *)
(***************************************************************************)
EXTENDS Airworthiness, SequenceTheorems, WellFoundedInduction, TLAPS

-----------------------------------------------------------------------------
(* The inductive invariant.                                                *)

\* A trigger that let a reading through compared it with the total it saw.
CheckedReadings ==
    \A e \in TimeEntry :
        ftPc[e] = "checked" => ftReading[e].override \/ ftSaw[e] <= ftReading[e].new

\* A resolve request has a target from the moment it has read one.
Targets ==
    \A r \in Resolver :
        /\ rsPc[r] = "idle" => rsTarget[r] = Nobody
        /\ rsPc[r] = "read" => rsTarget[r] \in Squawk

\* What a due-list request may rely on while it runs.
Requests ==
    \A q \in Reader :
        /\ rqPc[q] \in {"aircraft", "squawks"} =>
               /\ held[q] \subseteq OpenGrounding
               /\ TrueStatus \in truths[q]
               /\ ~moved[q] => rqAirframe[q] = airframe
        /\ rqPc[q] = "squawks" =>
               /\ held[q] \subseteq rqGrounding[q]
               /\ ~moved[q] => StatusOf(airframe, rqGrounding[q], today) \in truths[q]

-----------------------------------------------------------------------------
(* Flight time.                                                            *)

\* No entry has a number that has not been given out.
FlightStamps ==
    /\ \A q \in timeLog : q.began <= ftClock
    /\ \A e \in TimeEntry : ftBegan[e] <= ftClock

FlightInv == FlightTimeTypeOK /\ LogbookShowsTotal /\ FlightStamps /\ CheckedReadings

LEMMA FlightInit == FlightTimeInit => FlightInv
  BY HoursAssumption
  DEF FlightTimeInit, FlightInv, FlightTimeTypeOK, LogbookShowsTotal, FlightStamps,
      CheckedReadings, Hours, Reading, NoReading

\* A step that leaves the logbook and the total alone.
LEMMA LogbookKeeps ==
  ASSUME LogbookShowsTotal, UNCHANGED <<airframe, timeLog>>
  PROVE  LogbookShowsTotal'
  BY DEF LogbookShowsTotal, TopButForOverlaps

LEMMA FlightStep == FlightInv /\ FlightTimeNext => FlightInv'
<1> SUFFICES ASSUME FlightInv, NEW e \in TimeEntry,
                    LogFlightTime(e) \/ TriggerCheck(e) \/ TriggerAdvance(e) \/ FlightTimeAborts(e)
             PROVE  FlightInv'
  BY DEF FlightTimeNext
<1>0. \A q \in timeLog : q.began \in Nat
  BY DEF FlightInv, FlightTimeTypeOK, LoggedEntry
<1> USE HoursAssumption DEF FlightInv, FlightTimeTypeOK, CheckedReadings, FlightStamps, Hours,
                            Reading, NoReading, Finish
<1>1. CASE LogFlightTime(e)
  <2>1. LogbookShowsTotal'
    BY <1>1, LogbookKeeps DEF LogFlightTime
  <2>2. FlightTimeTypeOK' /\ CheckedReadings'
    BY <1>1 DEF LogFlightTime
  <2>3. FlightStamps'
    BY <1>0, <1>1 DEF LogFlightTime
  <2> QED BY <2>1, <2>2, <2>3
<1>2. CASE TriggerCheck(e)
  <2>1. LogbookShowsTotal'
    BY <1>2, LogbookKeeps DEF TriggerCheck
  <2>2. PICK reading \in Reading :
           IF Regresses(reading)
           THEN Finish(e, "refused")
           ELSE /\ ftPc' = [ftPc EXCEPT ![e] = "checked"]
                /\ ftReading' = [ftReading EXCEPT ![e] = reading]
                /\ ftSaw' = [ftSaw EXCEPT ![e] = airframe]
                /\ UNCHANGED ftBegan
    BY <1>2 DEF TriggerCheck
  <2>3. UNCHANGED <<airframe, timeLog, ftClock>>
    BY <1>2 DEF TriggerCheck
  <2>4. CASE Regresses(reading)
    <3>1. /\ ftPc' = [ftPc EXCEPT ![e] = "refused"]
          /\ ftBegan' = [ftBegan EXCEPT ![e] = 0]
          /\ ftReading' = [ftReading EXCEPT ![e] = [new |-> 0, override |-> FALSE]]
          /\ ftSaw' = [ftSaw EXCEPT ![e] = 0]
      BY <2>2, <2>4
    <3>2. FlightTimeTypeOK' /\ FlightStamps'
      BY <2>3, <3>1
    <3>3. CheckedReadings'
      BY <3>1
    <3> QED BY <2>1, <3>2, <3>3
  <2>5. CASE ~Regresses(reading)
    <3>1. /\ ftPc' = [ftPc EXCEPT ![e] = "checked"]
          /\ ftReading' = [ftReading EXCEPT ![e] = reading]
          /\ ftSaw' = [ftSaw EXCEPT ![e] = airframe]
          /\ UNCHANGED ftBegan
      BY <2>2, <2>5
    <3>2. FlightTimeTypeOK' /\ FlightStamps'
      BY <2>3, <3>1
    <3>3. reading.override \/ airframe <= reading.new
      BY <2>5 DEF Regresses
    <3>4. CheckedReadings'
      BY <3>1, <3>3
    <3> QED BY <2>1, <3>2, <3>4
  <2> QED BY <2>4, <2>5
<1>3. CASE TriggerAdvance(e)
  <2> DEFINE row == [prev |-> ftSaw[e], new |-> ftReading[e].new,
                     override |-> ftReading[e].override]
             r == Stamped(row, ftBegan[e], ftClock)
  <2>1. r \in LoggedEntry /\ r.row.new = ftReading[e].new /\ r.began <= ftClock /\ r.until = ftClock
    BY DEF LoggedEntry, Stamped
  <2>2. timeLog' = timeLog \cup {r} /\ airframe' = ftReading[e].new /\ UNCHANGED ftClock
    BY <1>3 DEF TriggerAdvance, Record
  <2> HIDE DEF r
  <2>3. \A q \in timeLog' : q.began <= ftClock'
    BY <2>1, <2>2
  <2>4. LogbookShowsTotal'
    <3>1. TopButForOverlaps(timeLog', r)
      BY <2>1, <2>2, <2>3 DEF TopButForOverlaps, BegunBy
    <3> QED BY <2>1, <2>2, <3>1 DEF LogbookShowsTotal
  <2>5. FlightTimeTypeOK' /\ CheckedReadings' /\ \A f \in TimeEntry : ftBegan'[f] <= ftClock'
    BY <1>3, <2>1, <2>2 DEF TriggerAdvance
  <2> QED BY <2>3, <2>4, <2>5
<1>4. CASE FlightTimeAborts(e)
  <2>1. LogbookShowsTotal'
    BY <1>4, LogbookKeeps DEF FlightTimeAborts
  <2>2. FlightTimeTypeOK' /\ CheckedReadings' /\ FlightStamps'
    BY <1>4 DEF FlightTimeAborts
  <2> QED BY <2>1, <2>2
<1> QED BY <1>1, <1>2, <1>3, <1>4

LEMMA FlightLowers ==
  FlightInv /\ FlightTimeNext /\ airframe' < airframe =>
      \E e \in TimeEntry : Commits(e) /\ (ftReading[e].override \/ ftSaw[e] # airframe)
<1> SUFFICES ASSUME FlightInv, FlightTimeNext, airframe' < airframe
             PROVE  \E e \in TimeEntry :
                        Commits(e) /\ (ftReading[e].override \/ ftSaw[e] # airframe)
  OBVIOUS
<1>1. airframe \in Int
  BY HoursAssumption DEF FlightInv, FlightTimeTypeOK, Hours
<1>2. PICK e \in TimeEntry : TriggerAdvance(e)
  BY <1>1 DEF FlightTimeNext, LogFlightTime, TriggerCheck, FlightTimeAborts
<1>3. Commits(e)
  BY <1>2 DEF TriggerAdvance, Finish, Commits, FlightInv, FlightTimeTypeOK
<1>4. ftReading[e].override \/ ftSaw[e] # airframe
  <2>1. airframe' = ftReading[e].new /\ ftPc[e] = "checked"
    BY <1>2 DEF TriggerAdvance
  <2>2. ftReading[e].new \in Int /\ ftSaw[e] \in Int
    BY HoursAssumption DEF FlightInv, FlightTimeTypeOK, Hours, Reading
  <2> QED BY <1>1, <2>1, <2>2 DEF FlightInv, CheckedReadings
<1> QED BY <1>3, <1>4

-----------------------------------------------------------------------------
(* Squawks.                                                                *)

SquawkInv == SquawksTypeOK /\ Targets

LEMMA SquawkInit == SquawksInit => SquawkInv
  BY DEF SquawksInit, SquawkInv, SquawksTypeOK, Targets, SquawkRow, Severities

LEMMA SquawkStep == SquawkInv /\ SquawksNext => SquawkInv'
<1> SUFFICES ASSUME SquawkInv, SquawksNext PROVE SquawkInv'
  OBVIOUS
<1> USE DEF SquawkInv, SquawksTypeOK, Targets, SquawkRow
<1>1. ASSUME NEW s \in Squawk, File(s) PROVE SquawkInv'
  <2>1. PICK severity \in Severities :
          squawk' = [squawk EXCEPT ![s] =
                        [status |-> "open", severity |-> severity, by |-> Nobody]]
    BY <1>1 DEF File
  <2> QED BY <1>1, <2>1 DEF File
<1>2. ASSUME NEW r \in Resolver, ResolveRead(r) PROVE SquawkInv'
  <2>1. PICK s \in Squawk :
          /\ rsTarget' = [rsTarget EXCEPT ![r] = s]
          /\ rsPc' = [rsPc EXCEPT ![r] =
                 IF squawk[s].status = "resolved" THEN "refused" ELSE "read"]
    BY <1>2 DEF ResolveRead
  <2> QED BY <1>2, <2>1 DEF ResolveRead
<1>3. ASSUME NEW r \in Resolver, ResolveWrite(r) PROVE SquawkInv'
  <2>1. rsTarget[r] \in Squawk
    BY <1>3 DEF ResolveWrite
  <2> QED BY <1>3, <2>1 DEF ResolveWrite
<1> QED BY <1>1, <1>2, <1>3 DEF SquawksNext

LEMMA SquawkResolved ==
  SquawkInv /\ SquawksNext =>
      \A s \in Squawk : squawk[s].status = "resolved" =>
          squawk'[s].status = "resolved" /\ squawk'[s].severity = squawk[s].severity
<1> SUFFICES ASSUME SquawkInv, SquawksNext, NEW s \in Squawk, squawk[s].status = "resolved"
             PROVE  squawk'[s].status = "resolved" /\ squawk'[s].severity = squawk[s].severity
  OBVIOUS
<1> USE DEF SquawkInv, SquawksTypeOK, SquawkRow
<1>1. ASSUME NEW f \in Squawk, File(f)
      PROVE  squawk'[s].status = "resolved" /\ squawk'[s].severity = squawk[s].severity
  BY <1>1 DEF File
<1>2. ASSUME NEW r \in Resolver, ResolveRead(r)
      PROVE  squawk'[s].status = "resolved" /\ squawk'[s].severity = squawk[s].severity
  BY <1>2 DEF ResolveRead
<1>3. ASSUME NEW r \in Resolver, ResolveWrite(r)
      PROVE  squawk'[s].status = "resolved" /\ squawk'[s].severity = squawk[s].severity
  BY <1>3 DEF ResolveWrite
<1> QED BY <1>1, <1>2, <1>3 DEF SquawksNext

LEMMA SquawkLate ==
  SquawkInv /\ SquawksNext =>
      \A r \in Resolver, s \in Squawk :
          rsPc[r] = "idle" /\ rsTarget'[r] = s /\ squawk[s].status = "resolved" =>
              rsPc'[r] = "refused"
<1> SUFFICES ASSUME SquawkInv, SquawksNext, NEW r \in Resolver, NEW s \in Squawk,
                    rsPc[r] = "idle", rsTarget'[r] = s, squawk[s].status = "resolved"
             PROVE  rsPc'[r] = "refused"
  OBVIOUS
<1> USE DEF SquawkInv, SquawksTypeOK, Targets
<1>1. rsTarget[r] # s
  BY NobodyAssumption
<1>2. PICK o \in Resolver : ResolveRead(o)
  BY <1>1 DEF SquawksNext, File, ResolveWrite
<1>3. PICK t \in Squawk :
        /\ rsTarget' = [rsTarget EXCEPT ![o] = t]
        /\ rsPc' = [rsPc EXCEPT ![o] =
               IF squawk[t].status = "resolved" THEN "refused" ELSE "read"]
  BY <1>2 DEF ResolveRead
<1>4. o = r /\ t = s
  BY <1>1, <1>3
<1> QED BY <1>3, <1>4

-----------------------------------------------------------------------------
(* The due list.                                                           *)

RequestShape ==
    /\ rqPc \in [Reader -> {"idle", "aircraft", "squawks", "answered"}]
    /\ rqAirframe = [q \in Reader |-> rqAirframe[q]]
    /\ rqGrounding = [q \in Reader |-> rqGrounding[q]]
    /\ answer = [q \in Reader |-> answer[q]]
    /\ truths = [q \in Reader |-> truths[q]]
    /\ held = [q \in Reader |-> held[q]]
    /\ moved \in [Reader -> BOOLEAN]

LEMMA SameStatus ==
  UNCHANGED <<ftVars, sqVars, today>> =>
      OpenGrounding' = OpenGrounding /\ TrueStatus' = TrueStatus
  BY DEF ftVars, sqVars, OpenGrounding, TrueStatus, StatusOf

\* A writer's step, seen by the requests under way.
LEMMA ObserveStep ==
  ASSUME RequestShape, Requests, Observe,
         UNCHANGED <<rqPc, rqAirframe, rqGrounding, answer>>
  PROVE  RequestShape' /\ Requests'
<1>1. RequestShape'
  BY DEF RequestShape, Observe
<1>2. ASSUME NEW q \in Reader, rqPc[q] \in {"aircraft", "squawks"}
      PROVE  /\ held'[q] = held[q] \cap OpenGrounding'
             /\ truths'[q] = truths[q] \cup {TrueStatus'}
             /\ ~moved'[q] => ~moved[q] /\ airframe' = airframe /\ today' = today
  BY <1>2 DEF Observe, RequestShape
<1>3. ASSUME NEW q \in Reader, rqPc[q] \in {"aircraft", "squawks"}
      PROVE  /\ held'[q] \subseteq OpenGrounding'
             /\ TrueStatus' \in truths'[q]
             /\ ~moved'[q] => rqAirframe[q] = airframe'
  BY <1>2, <1>3 DEF Requests
<1>4. ASSUME NEW q \in Reader, rqPc[q] = "squawks"
      PROVE  /\ held'[q] \subseteq rqGrounding[q]
             /\ ~moved'[q] => StatusOf(airframe', rqGrounding[q], today') \in truths'[q]
  <2>1. held'[q] \subseteq rqGrounding[q]
    BY <1>2, <1>4 DEF Requests
  <2>2. ASSUME ~moved'[q]
        PROVE  StatusOf(airframe', rqGrounding[q], today') \in truths'[q]
    <3>1. ~moved[q] /\ airframe' = airframe /\ today' = today
      BY <1>2, <1>4, <2>2
    <3>2. StatusOf(airframe, rqGrounding[q], today) \in truths[q]
      BY <1>4, <3>1 DEF Requests
    <3> QED BY <1>2, <1>4, <3>1, <3>2
  <2> QED BY <2>1, <2>2
<1>5. Requests'
  BY <1>3, <1>4 DEF Requests
<1> QED BY <1>1, <1>5

LEMMA ReadAircraftStep ==
  ASSUME RequestShape, Requests, NEW q \in Reader, ReadAircraft(q)
  PROVE  RequestShape' /\ Requests'
<1>1. RequestShape'
  BY DEF RequestShape, ReadAircraft
<1>2. OpenGrounding' = OpenGrounding /\ TrueStatus' = TrueStatus
      /\ airframe' = airframe /\ today' = today
  BY SameStatus DEF ReadAircraft, ftVars
<1>3. /\ rqPc'[q] = "aircraft" /\ rqAirframe'[q] = airframe
      /\ held'[q] = OpenGrounding /\ truths'[q] = {TrueStatus}
  BY DEF RequestShape, ReadAircraft
<1>4. ASSUME NEW p \in Reader, p # q
      PROVE  /\ rqPc'[p] = rqPc[p] /\ rqAirframe'[p] = rqAirframe[p]
             /\ held'[p] = held[p] /\ truths'[p] = truths[p]
  BY <1>4 DEF RequestShape, ReadAircraft
<1>5. rqGrounding' = rqGrounding /\ moved' = moved
  BY DEF ReadAircraft
<1> QED BY <1>1, <1>2, <1>3, <1>4, <1>5 DEF Requests, StatusOf

LEMMA ReadSquawksStep ==
  ASSUME RequestShape, Requests, NEW q \in Reader, ReadSquawks(q)
  PROVE  RequestShape' /\ Requests'
<1>1. RequestShape'
  BY DEF RequestShape, ReadSquawks
<1>2. OpenGrounding' = OpenGrounding /\ TrueStatus' = TrueStatus
      /\ airframe' = airframe /\ today' = today
  BY SameStatus DEF ReadSquawks, ftVars
<1>3. /\ rqPc[q] = "aircraft" /\ rqPc'[q] = "squawks"
      /\ rqGrounding'[q] = OpenGrounding
  BY DEF RequestShape, ReadSquawks
<1>4. ASSUME NEW p \in Reader, p # q
      PROVE  rqPc'[p] = rqPc[p] /\ rqGrounding'[p] = rqGrounding[p]
  BY <1>4 DEF RequestShape, ReadSquawks
<1>5. /\ rqAirframe' = rqAirframe /\ held' = held /\ truths' = truths /\ moved' = moved
  BY DEF ReadSquawks
<1>6. TrueStatus = StatusOf(airframe, OpenGrounding, today)
  BY DEF TrueStatus
<1>7. /\ held[q] \subseteq OpenGrounding /\ TrueStatus \in truths[q]
      /\ ~moved[q] => rqAirframe[q] = airframe
  BY <1>3 DEF Requests
<1>8. ASSUME NEW p \in Reader
      PROVE  /\ rqPc'[p] \in {"aircraft", "squawks"} =>
                    /\ held'[p] \subseteq OpenGrounding'
                    /\ TrueStatus' \in truths'[p]
                    /\ ~moved'[p] => rqAirframe'[p] = airframe'
             /\ rqPc'[p] = "squawks" =>
                    /\ held'[p] \subseteq rqGrounding'[p]
                    /\ ~moved'[p] => StatusOf(airframe, rqGrounding'[p], today) \in truths'[p]
  <2>1. CASE p = q
    BY <1>2, <1>3, <1>5, <1>6, <1>7, <2>1
  <2>2. CASE p # q
    BY <1>2, <1>4, <1>5, <2>2 DEF Requests
  <2> QED BY <2>1, <2>2
<1>9. Requests'
  BY <1>2, <1>8 DEF Requests
<1> QED BY <1>1, <1>9

LEMMA AnswerStep ==
  ASSUME RequestShape, Requests, NEW q \in Reader, Answer(q)
  PROVE  /\ RequestShape' /\ Requests'
         /\ answer'[q] = StatusOf(rqAirframe[q], rqGrounding[q], today)
         /\ \A p \in Reader : p # q => rqPc'[p] = rqPc[p]
<1>1. RequestShape'
  BY DEF RequestShape, Answer
<1>2. OpenGrounding' = OpenGrounding /\ TrueStatus' = TrueStatus
      /\ airframe' = airframe /\ today' = today
  BY SameStatus DEF Answer, ftVars
<1>3. rqPc'[q] = "answered" /\ \A p \in Reader : p # q => rqPc'[p] = rqPc[p]
  BY DEF RequestShape, Answer
<1>4. /\ rqAirframe' = rqAirframe /\ rqGrounding' = rqGrounding
      /\ held' = held /\ truths' = truths /\ moved' = moved
  BY DEF Answer
<1>5. ASSUME NEW p \in Reader
      PROVE  /\ rqPc'[p] \in {"aircraft", "squawks"} =>
                    /\ held'[p] \subseteq OpenGrounding'
                    /\ TrueStatus' \in truths'[p]
                    /\ ~moved'[p] => rqAirframe'[p] = airframe'
             /\ rqPc'[p] = "squawks" =>
                    /\ held'[p] \subseteq rqGrounding'[p]
                    /\ ~moved'[p] => StatusOf(airframe, rqGrounding'[p], today) \in truths'[p]
  <2>1. CASE p = q
    BY <1>3, <2>1
  <2>2. CASE p # q
    BY <1>2, <1>3, <1>4, <2>2 DEF Requests
  <2> QED BY <2>1, <2>2
<1>6. Requests'
  BY <1>2, <1>5 DEF Requests
<1>7. answer'[q] = StatusOf(rqAirframe[q], rqGrounding[q], today)
  BY DEF RequestShape, Answer
<1> QED BY <1>1, <1>3, <1>6, <1>7

-----------------------------------------------------------------------------
(* The invariant of the composition.                                       *)

Inv == FlightInv /\ SquawkInv /\ RequestShape /\ Requests

LEMMA InvInit == Init => Inv
<1> SUFFICES ASSUME Init PROVE Inv
  OBVIOUS
<1>1. FlightInv /\ SquawkInv
  BY FlightInit, SquawkInit DEF Init
<1>2. RequestShape /\ Requests
  BY DEF Init, RequestShape, Requests
<1> QED BY <1>1, <1>2 DEF Inv

LEMMA FlightFrame == FlightInv /\ UNCHANGED ftVars => FlightInv'
  BY DEF FlightInv, FlightTimeTypeOK, LogbookShowsTotal, TopButForOverlaps, FlightStamps,
      CheckedReadings, ftVars

LEMMA SquawkFrame == SquawkInv /\ UNCHANGED sqVars => SquawkInv'
  BY DEF SquawkInv, SquawksTypeOK, Targets, sqVars

LEMMA InvStep == Inv /\ [Next]_vars => Inv'
<1> SUFFICES ASSUME Inv, [Next]_vars PROVE Inv'
  OBVIOUS
<1> USE DEF Inv
<1>1. CASE WriterSteps /\ Observe /\ UNCHANGED <<rqPc, rqAirframe, rqGrounding, answer>>
  <2>1. RequestShape' /\ Requests'
    BY <1>1, ObserveStep
  <2>2. FlightInv' /\ SquawkInv'
    BY <1>1, FlightStep, SquawkStep, FlightFrame, SquawkFrame DEF WriterSteps
  <2> QED BY <2>1, <2>2
<1>2. CASE \E q \in Reader : ReadAircraft(q) \/ ReadSquawks(q) \/ Answer(q)
  <2>1. RequestShape' /\ Requests'
    BY <1>2, ReadAircraftStep, ReadSquawksStep, AnswerStep
  <2>2. UNCHANGED <<ftVars, sqVars>>
    BY <1>2 DEF ReadAircraft, ReadSquawks, Answer
  <2> QED BY <2>1, <2>2, FlightFrame, SquawkFrame
<1>3. CASE UNCHANGED vars
  <2>1. UNCHANGED <<ftVars, sqVars, rqVars>>
    BY <1>3 DEF vars
  <2>2. OpenGrounding' = OpenGrounding /\ TrueStatus' = TrueStatus
    BY <2>1, SameStatus DEF rqVars
  <2>3. RequestShape' /\ Requests'
    BY <2>1, <2>2 DEF RequestShape, Requests, StatusOf, rqVars, ftVars
  <2> QED BY <2>1, <2>3, FlightFrame, SquawkFrame
<1> QED BY <1>1, <1>2, <1>3 DEF Next

\* The invariant of everything below, for every number of requests.
THEOREM Invariant == Spec => []Inv
  BY InvInit, InvStep, PTL DEF Spec

\* The aircraft's total is in the logbook, below nothing but what overlapped it.
THEOREM LastReading == Spec => []LogbookShowsTotal
<1>1. Inv => LogbookShowsTotal
  BY DEF Inv, FlightInv
<1> QED BY <1>1, Invariant, PTL

\* Only an override, or a trigger whose SELECT was overtaken, lowers the total.
THEOREM Lowers == Spec => OnlyOverrideOrStaleLowers
<1>1. [Next]_vars => FlightTimeNext \/ UNCHANGED ftVars
  BY DEF Next, WriterSteps, ReadAircraft, ReadSquawks, Answer, vars
<1>2. ASSUME Inv, [Next]_vars, ~UNCHANGED ftVars, airframe' < airframe
      PROVE  \E e \in TimeEntry : Commits(e) /\ (ftReading[e].override \/ ftSaw[e] # airframe)
  <2>1. FlightInv /\ FlightTimeNext
    BY <1>1, <1>2 DEF Inv
  <2> QED BY <1>2, <2>1, FlightLowers
<1>3. Inv /\ [Next]_vars =>
        [airframe' < airframe =>
            \E e \in TimeEntry :
                /\ Commits(e)
                /\ ftReading[e].override \/ ftSaw[e] # airframe]_ftVars
  BY <1>2
<1> QED BY <1>3, Invariant, PTL DEF Spec, OnlyOverrideOrStaleLowers

\* A resolved squawk stays resolved and keeps its severity.
THEOREM Resolved == Spec => ResolvedForGood
<1>1. Inv /\ [Next]_vars =>
        [\A s \in Squawk : squawk[s].status = "resolved" =>
            /\ squawk'[s].status = "resolved"
            /\ squawk'[s].severity = squawk[s].severity]_sqVars
  BY SquawkResolved DEF Inv, Next, WriterSteps, ReadAircraft, ReadSquawks, Answer, vars
<1> QED BY <1>1, Invariant, PTL DEF Spec, ResolvedForGood

\* A request to resolve a squawk that is resolved already is refused.
THEOREM LateRefused == Spec => LateResolveRefused
<1>1. Inv /\ [Next]_vars =>
        [\A r \in Resolver, s \in Squawk :
            rsPc[r] = "idle" /\ rsTarget'[r] = s /\ squawk[s].status = "resolved" =>
                rsPc'[r] = "refused"]_sqVars
  BY SquawkLate DEF Inv, Next, WriterSteps, ReadAircraft, ReadSquawks, Answer, vars
<1> QED BY <1>1, Invariant, PTL DEF Spec, LateResolveRefused

\* When a request answers, it is by its Answer step.
LEMMA AnswersByAnswer ==
  ASSUME Inv, [Next]_vars, NEW q \in Reader, Answers(q)
  PROVE  Answer(q)
<1>1. rqPc'[q] # rqPc[q]
  BY DEF Answers
<1>2. CASE WriterSteps /\ Observe /\ UNCHANGED <<rqPc, rqAirframe, rqGrounding, answer>>
  BY <1>1, <1>2
<1>3. CASE \E p \in Reader : ReadAircraft(p) \/ ReadSquawks(p) \/ Answer(p)
  <2>1. PICK p \in Reader : ReadAircraft(p) \/ ReadSquawks(p) \/ Answer(p)
    BY <1>3
  <2>2. p = q
    BY <1>1, <2>1 DEF ReadAircraft, ReadSquawks, Answer, Inv, RequestShape
  <2> QED BY <2>1, <2>2 DEF Answers, ReadAircraft, ReadSquawks
<1>4. CASE UNCHANGED vars
  BY <1>1, <1>4 DEF vars, rqVars
<1> QED BY <1>2, <1>3, <1>4 DEF Next

\* A squawk that grounds the aircraft while the request runs is never missed.
THEOREM NeverMissed == Spec => GroundingNotMissed
<1>1. ASSUME Inv, [Next]_vars, NEW q \in Reader, Answers(q), held[q] # {}
      PROVE  answer'[q] = "overdue"
  <2>1. Answer(q)
    BY <1>1, AnswersByAnswer
  <2>2. answer'[q] = StatusOf(rqAirframe[q], rqGrounding[q], today)
    BY <1>1, <2>1, AnswerStep DEF Inv
  <2>3. rqGrounding[q] # {}
    BY <1>1 DEF Inv, Requests, Answers
  <2> QED BY <2>2, <2>3 DEF StatusOf
<1>2. Inv /\ [Next]_vars =>
        [\A q \in Reader : Answers(q) /\ held[q] # {} => answer'[q] = "overdue"]_vars
  BY <1>1
<1> QED BY <1>2, Invariant, PTL DEF Spec, GroundingNotMissed

\* If neither the total nor the day changed while a request ran, its answer was
\* true at some moment of it, whatever the inspections' rollup computes.
THEOREM WasTrue == Spec => AnswerWasTrue
<1>1. ASSUME Inv, [Next]_vars, NEW q \in Reader, Answers(q), ~moved[q]
      PROVE  answer'[q] \in truths[q]
  <2>1. Answer(q)
    BY <1>1, AnswersByAnswer
  <2>2. answer'[q] = StatusOf(rqAirframe[q], rqGrounding[q], today)
    BY <1>1, <2>1, AnswerStep DEF Inv
  <2>3. rqAirframe[q] = airframe /\ StatusOf(airframe, rqGrounding[q], today) \in truths[q]
    BY <1>1 DEF Inv, Requests, Answers
  <2> QED BY <2>2, <2>3
<1>2. Inv /\ [Next]_vars =>
        [\A q \in Reader : Answers(q) /\ ~moved[q] => answer'[q] \in truths[q]]_vars
  BY <1>1
<1> QED BY <1>2, Invariant, PTL DEF Spec, AnswerWasTrue
-----------------------------------------------------------------------------
(* Folds.  FoldLeft is a recursive function on the sets of positions, so    *)
(* what it computes is proved by induction on the number of positions, here *)
(* with a set of naturals for the induction hypothesis.                     *)

LEMMA AllNaturals ==
  ASSUME NEW P \in SUBSET Nat, 0 \in P, \A n \in P : n + 1 \in P
  PROVE  P = Nat
<1>1. SUFFICES ASSUME Nat \ P # {} PROVE FALSE
  OBVIOUS
<1> DEFINE R == {p \in Nat \X Nat : p[1] < p[2]}
<1>2. IsWellFoundedOn(R, Nat)
  BY NatLessThanWellFounded DEF OpToRel
<1>3. PICK n \in Nat \ P : \A m \in Nat \ P : ~(m < n)
  <2>1. \E x \in Nat \ P : \A y \in Nat \ P : ~(<<y, x>> \in R)
    <3> HIDE DEF R
    <3> QED
      BY <1>1, <1>2, WFMin
  <2>2. QED
    BY <2>1
<1>4. n - 1 \in P
  BY <1>3
<1>5. QED
  BY <1>4

LEMMA MaxOf ==
  ASSUME NEW n \in Nat, NEW s \in SUBSET (1 .. n), s # {}
  PROVE  Max(s) \in s /\ \A y \in s : Max(s) >= y
<1> DEFINE P == {m \in Nat : \A t \in SUBSET (1 .. m) :
                     t # {} => \E x \in t : \A y \in t : x >= y}
<1>1. 0 \in P
  <2>1. 1 .. 0 = {}
    OBVIOUS
  <2>2. QED
    BY <2>1
<1>2. ASSUME NEW m \in P PROVE m + 1 \in P
  <2>1. ASSUME NEW t \in SUBSET (1 .. m + 1), t # {}
        PROVE  \E x \in t : \A y \in t : x >= y
    <3>1. CASE m + 1 \in t
      BY <3>1
    <3>2. CASE m + 1 \notin t
      <4>1. t \in SUBSET (1 .. m)
        BY <3>2
      <4>2. QED
        BY <2>1, <4>1
    <3>3. QED
      BY <3>1, <3>2
  <2>2. QED
    BY <2>1
<1>3. P = Nat
  <2> HIDE DEF P
  <2>1. P \in SUBSET Nat
    BY DEF P
  <2>2. QED
    BY <1>1, <1>2, <2>1, AllNaturals
<1>4. \E x \in s : \A y \in s : x >= y
  BY <1>3
<1>5. QED
  BY <1>4 DEF Max

LEMMA TheMax ==
  ASSUME NEW n \in Nat, NEW s \in SUBSET (1 .. n), NEW x \in s, \A y \in s : x >= y
  PROVE  Max(s) = x
<1>1. s # {}
  OBVIOUS
<1>2. Max(s) \in s /\ \A y \in s : Max(s) >= y
  BY <1>1, MaxOf
<1>3. \A y \in s : y \in Int
  OBVIOUS
<1> DEFINE m == Max(s)
<1>4. m \in Int /\ x \in Int
  BY <1>2, <1>3
<1>5. x >= m /\ m >= x
  BY <1>2
<1> HIDE DEF m
<1>6. m = x
  BY <1>4, <1>5
<1>7. QED
  BY <1>6 DEF m

IsFold(it, k, base, G) ==
  \A s \in SUBSET (1 .. k) :
      it[s] = IF s = {} THEN base ELSE G[<<it[s \ {Max(s)}], Max(s)>>]

HasFold(k, S, base, G) == \E it \in [SUBSET (1 .. k) -> S] : IsFold(it, k, base, G)

LEMMA FoldExtends ==
  ASSUME NEW k \in Nat, NEW n \in Nat, k + 1 <= n,
         NEW S, NEW base \in S, NEW G \in [S \X (1 .. n) -> S],
         HasFold(k, S, base, G)
  PROVE  HasFold(k + 1, S, base, G)
<1> PICK it \in [SUBSET (1 .. k) -> S] : IsFold(it, k, base, G)
  BY DEF HasFold
<1> DEFINE h == [s \in SUBSET (1 .. k + 1) |->
                    IF k + 1 \in s THEN G[<<it[s \ {k + 1}], k + 1>>] ELSE it[s]]
<1>1. \A s \in SUBSET (1 .. k + 1) : s \ {k + 1} \in SUBSET (1 .. k)
  OBVIOUS
<1>2. \A s \in SUBSET (1 .. k + 1) : k + 1 \notin s => s \in SUBSET (1 .. k)
  OBVIOUS
<1>3. ASSUME NEW s \in SUBSET (1 .. k + 1)
      PROVE  (IF k + 1 \in s THEN G[<<it[s \ {k + 1}], k + 1>>] ELSE it[s]) \in S
  <2>1. CASE k + 1 \in s
    <3>1. it[s \ {k + 1}] \in S
      BY <1>1
    <3>2. k + 1 \in 1 .. n
      OBVIOUS
    <3>3. <<it[s \ {k + 1}], k + 1>> \in S \X (1 .. n)
      BY <3>1, <3>2
    <3>4. QED
      BY <2>1, <3>3
  <2>2. CASE k + 1 \notin s
    BY <1>2, <2>2
  <2>3. QED
    BY <2>1, <2>2
<1>4. h \in [SUBSET (1 .. k + 1) -> S]
  BY <1>3
<1>5. ASSUME NEW s \in SUBSET (1 .. k + 1)
      PROVE  h[s] = IF s = {} THEN base ELSE G[<<h[s \ {Max(s)}], Max(s)>>]
  <2>1. CASE k + 1 \in s
    <3>1. \A y \in s : k + 1 >= y
      OBVIOUS
    <3>2. Max(s) = k + 1
      BY <2>1, <3>1, TheMax, k + 1 \in Nat
    <3>3. h[s \ {k + 1}] = it[s \ {k + 1}]
      BY <1>1
    <3>4. h[s] = G[<<it[s \ {k + 1}], k + 1>>]
      BY <2>1
    <3> HIDE DEF h
    <3>5. QED
      BY <2>1, <3>2, <3>3, <3>4
  <2>2. CASE k + 1 \notin s
    <3>1. s \in SUBSET (1 .. k) /\ h[s] = it[s]
      BY <1>2, <2>2
    <3>2. s \ {Max(s)} \in SUBSET (1 .. k) /\ k + 1 \notin s \ {Max(s)}
      BY <2>2, <3>1
    <3>3. s \ {Max(s)} \in SUBSET (1 .. k + 1)
      OBVIOUS
    <3>4. h[s \ {Max(s)}] = it[s \ {Max(s)}]
      BY <3>2, <3>3
    <3>5. it[s] = IF s = {} THEN base ELSE G[<<it[s \ {Max(s)}], Max(s)>>]
      BY <3>1 DEF IsFold
    <3> HIDE DEF h
    <3>6. QED
      BY <3>1, <3>4, <3>5
  <2>3. QED
    BY <2>1, <2>2
<1> HIDE DEF h
<1>6. IsFold(h, k + 1, base, G)
  BY <1>5 DEF IsFold
<1>7. QED
  BY <1>4, <1>6 DEF HasFold

LEMMA FoldDefined ==
  ASSUME NEW n \in Nat, NEW S, NEW base \in S, NEW G \in [S \X (1 .. n) -> S]
  PROVE  HasFold(n, S, base, G)
<1> DEFINE P == {k \in Nat : k <= n => HasFold(k, S, base, G)}
<1>1. 0 \in P
  <2> DEFINE h == [s \in SUBSET (1 .. 0) |-> base]
  <2>1. h \in [SUBSET (1 .. 0) -> S]
    OBVIOUS
  <2>2. \A s \in SUBSET (1 .. 0) : s = {} /\ h[s] = base
    <3>1. 1 .. 0 = {}
      OBVIOUS
    <3>2. QED
      BY <3>1
  <2> HIDE DEF h
  <2>3. IsFold(h, 0, base, G)
    BY <2>2 DEF IsFold
  <2>4. QED
    BY <2>1, <2>3 DEF HasFold
<1>2. ASSUME NEW k \in P PROVE k + 1 \in P
  <2>1. k \in Nat
    OBVIOUS
  <2>2. ASSUME k + 1 <= n PROVE HasFold(k + 1, S, base, G)
    BY <2>1, <2>2, FoldExtends
  <2>3. QED
    BY <2>1, <2>2
<1>3. P = Nat
  <2>1. P \in SUBSET Nat
    OBVIOUS
  <2> HIDE DEF P
  <2>2. QED
    BY <1>1, <1>2, <2>1, AllNaturals
<1>4. QED
  BY <1>3


Beats(a, b) ==
  \/ StatusRank[a.status] > StatusRank[b.status]
  \/ a.status = b.status /\ a.margin <= b.margin

IsDue(due) == due.margin \in Int /\ due.status \in Statuses

LEMMA WorseBeats ==
  ASSUME NEW a, NEW b, IsDue(a), IsDue(b)
  PROVE  Beats(Worse(a, b), a) /\ Beats(Worse(a, b), b)
BY DEF Beats, Worse, IsDue, Statuses, StatusRank

LEMMA BeatsAll ==
  ASSUME NEW a, NEW b, NEW c, IsDue(a), IsDue(b), IsDue(c), Beats(a, b), Beats(b, c)
  PROVE  Beats(a, c)
BY DEF Beats, IsDue, Statuses, StatusRank

\* The reduce over the intervals of a program.
Driver(first, dues) == FoldLeft(Worse, first, dues)

\* What the reduce goes through.
LEMMA WorseChain ==
  ASSUME NEW n \in Nat, NEW dues, DOMAIN dues = 1 .. n, NEW first
  PROVE  \E c : /\ Driver(first, dues) = c[n]
                /\ c[0] = first
                /\ \A k \in 1 .. n : c[k] = Worse(c[k - 1], dues[k])
<1> DEFINE S == {first} \cup {dues[i] : i \in 1 .. n}
           G == [p \in S \X (1 .. n) |-> Worse(p[1], dues[p[2]])]
           Step(f) == [s \in SUBSET (1 .. n) |->
                          IF s = {} THEN first ELSE Worse(f[s \ {Max(s)}], dues[Max(s)])]
           iter == CHOOSE f : f = Step(f)
           c == [k \in 0 .. n |-> iter[1 .. k]]
<1>1. Driver(first, dues) = iter[1 .. n]
  BY DEF Driver, FoldLeft, MapThenFoldSet
<1>2. \E f : f = Step(f)
  <2>1. first \in S /\ G \in [S \X (1 .. n) -> S]
    BY DEF Worse
  <2>2. \A s \in S, i \in 1 .. n : G[<<s, i>>] = Worse(s, dues[i])
    OBVIOUS
  <2> HIDE DEF S, G
  <2>3. PICK f \in [SUBSET (1 .. n) -> S] : IsFold(f, n, first, G)
    BY <2>1, FoldDefined DEF HasFold
  <2>4. ASSUME NEW s \in SUBSET (1 .. n)
        PROVE  f[s] = IF s = {} THEN first ELSE Worse(f[s \ {Max(s)}], dues[Max(s)])
    <3>1. CASE s = {}
      BY <2>3, <3>1 DEF IsFold
    <3>2. CASE s # {}
      <4>1. Max(s) \in 1 .. n
        BY <3>2, MaxOf
      <4>2. f[s \ {Max(s)}] \in S
        OBVIOUS
      <4>3. f[s] = G[<<f[s \ {Max(s)}], Max(s)>>]
        BY <2>3, <3>2 DEF IsFold
      <4>4. QED
        BY <2>2, <3>2, <4>1, <4>2, <4>3
    <3>3. QED
      BY <3>1, <3>2
  <2>5. f = Step(f)
    BY <2>4
  <2>6. QED
    BY <2>5
<1>3. iter = Step(iter)
  <2> HIDE DEF Step
  <2>1. QED
    BY <1>2
<1>4. iter[1 .. 0] = first
  <2>1. 1 .. 0 = {} /\ 1 .. 0 \in SUBSET (1 .. n)
    OBVIOUS
  <2> HIDE DEF iter
  <2>2. QED
    BY <1>3, <2>1
<1>5. ASSUME NEW k \in 1 .. n PROVE iter[1 .. k] = Worse(iter[1 .. k - 1], dues[k])
  <2>1. 1 .. k \in SUBSET (1 .. n) /\ k \in 1 .. k /\ (1 .. k) \ {k} = 1 .. k - 1
    OBVIOUS
  <2>2. \A y \in 1 .. k : k >= y
    OBVIOUS
  <2>3. Max(1 .. k) = k
    BY <2>1, <2>2, TheMax
  <2> HIDE DEF iter
  <2>4. QED
    BY <1>3, <2>1, <2>3
<1> HIDE DEF iter
<1>6. c[n] = iter[1 .. n] /\ c[0] = first /\ \A k \in 1 .. n : c[k] = Worse(c[k - 1], dues[k])
  BY <1>4, <1>5
<1>7. QED
  BY <1>1, <1>6
\* What the rollup over the programs goes through.
LEMMA RollupChain ==
  ASSUME NEW n \in Nat, NEW dues, DOMAIN dues = 1 .. n,
         \A i \in 1 .. n : dues[i].status \in Statuses
  PROVE  \E c : /\ RollupAirworthiness(dues) = c[n]
                /\ c[0] = "ok"
                /\ \A k \in 1 .. n : c[k] = WorstStatus(c[k - 1], dues[k].status)
<1> DEFINE G == [p \in Statuses \X (1 .. n) |-> WorstStatus(p[1], dues[p[2]].status)]
           Step(f) == [s \in SUBSET (1 .. n) |->
                          IF s = {} THEN "ok"
                          ELSE WorstStatus(f[s \ {Max(s)}], dues[Max(s)].status)]
           iter == CHOOSE f : f = Step(f)
           c == [k \in 0 .. n |-> iter[1 .. k]]
<1>1. RollupAirworthiness(dues) = iter[1 .. n]
  BY DEF RollupAirworthiness, FoldLeft, MapThenFoldSet
<1>2. \E f : f = Step(f)
  <2>1. "ok" \in Statuses /\ G \in [Statuses \X (1 .. n) -> Statuses]
    BY DEF WorstStatus, Statuses
  <2>2. \A s \in Statuses, i \in 1 .. n : G[<<s, i>>] = WorstStatus(s, dues[i].status)
    OBVIOUS
  <2> HIDE DEF G
  <2>3. PICK f \in [SUBSET (1 .. n) -> Statuses] : IsFold(f, n, "ok", G)
    BY <2>1, FoldDefined DEF HasFold
  <2>4. ASSUME NEW s \in SUBSET (1 .. n)
        PROVE  f[s] = IF s = {} THEN "ok"
                      ELSE WorstStatus(f[s \ {Max(s)}], dues[Max(s)].status)
    <3>1. CASE s = {}
      BY <2>3, <3>1 DEF IsFold
    <3>2. CASE s # {}
      <4>1. Max(s) \in 1 .. n
        BY <3>2, MaxOf
      <4>2. f[s \ {Max(s)}] \in Statuses
        OBVIOUS
      <4>3. f[s] = G[<<f[s \ {Max(s)}], Max(s)>>]
        BY <2>3, <3>2 DEF IsFold
      <4>4. QED
        BY <2>2, <3>2, <4>1, <4>2, <4>3
    <3>3. QED
      BY <3>1, <3>2
  <2>5. f = Step(f)
    BY <2>4
  <2>6. QED
    BY <2>5
<1>3. iter = Step(iter)
  <2> HIDE DEF Step
  <2>1. QED
    BY <1>2
<1>4. iter[1 .. 0] = "ok"
  <2>1. 1 .. 0 = {} /\ 1 .. 0 \in SUBSET (1 .. n)
    OBVIOUS
  <2> HIDE DEF iter
  <2>2. QED
    BY <1>3, <2>1
<1>5. ASSUME NEW k \in 1 .. n
      PROVE  iter[1 .. k] = WorstStatus(iter[1 .. k - 1], dues[k].status)
  <2>1. 1 .. k \in SUBSET (1 .. n) /\ k \in 1 .. k /\ (1 .. k) \ {k} = 1 .. k - 1
    OBVIOUS
  <2>2. \A y \in 1 .. k : k >= y
    OBVIOUS
  <2>3. Max(1 .. k) = k
    BY <2>1, <2>2, TheMax
  <2> HIDE DEF iter
  <2>4. QED
    BY <1>3, <2>1, <2>3
<1> HIDE DEF iter
<1>6. /\ c[n] = iter[1 .. n] /\ c[0] = "ok"
      /\ \A k \in 1 .. n : c[k] = WorstStatus(c[k - 1], dues[k].status)
  BY <1>4, <1>5
<1>7. QED
  BY <1>1, <1>6

-----------------------------------------------------------------------------
(* The interval engine.                                                    *)

\* The reduce ends on one of the intervals, and on one that none is worse than.
LEMMA WorstOfAll ==
  ASSUME NEW n \in Nat, NEW dues, DOMAIN dues = 1 .. n, \A i \in 1 .. n : IsDue(dues[i]),
         NEW first, IsDue(first)
  PROVE  LET driver == Driver(first, dues)
         IN  /\ driver = first \/ \E i \in 1 .. n : driver = dues[i]
             /\ IsDue(driver)
             /\ Beats(driver, first)
             /\ \A i \in 1 .. n : Beats(driver, dues[i])
<1>1. PICK c : /\ Driver(first, dues) = c[n]
               /\ c[0] = first
               /\ \A k \in 1 .. n : c[k] = Worse(c[k - 1], dues[k])
  BY WorseChain
<1> DEFINE Ok(k) == /\ c[k] = first \/ \E i \in 1 .. k : c[k] = dues[i]
                    /\ IsDue(c[k])
                    /\ Beats(c[k], first)
                    /\ \A i \in 1 .. k : Beats(c[k], dues[i])
           P == {k \in Nat : k <= n => Ok(k)}
<1>2. Ok(0)
  <2>1. Beats(first, first)
    BY DEF Beats, IsDue
  <2>2. 1 .. 0 = {}
    OBVIOUS
  <2>3. QED
    BY <1>1, <2>1, <2>2
<1>3. ASSUME NEW k \in Nat, k + 1 <= n, Ok(k) PROVE Ok(k + 1)
  <2>1. k + 1 \in 1 .. n /\ (k + 1) - 1 = k
    BY <1>3
  <2>2. c[k + 1] = Worse(c[k], dues[k + 1])
    BY <1>1, <2>1
  <2>3. c[k + 1] = c[k] \/ c[k + 1] = dues[k + 1]
    BY <2>2 DEF Worse
  <2>4. IsDue(c[k]) /\ IsDue(dues[k + 1]) /\ IsDue(c[k + 1])
    BY <1>3, <2>1, <2>3
  <2>5. Beats(c[k + 1], c[k]) /\ Beats(c[k + 1], dues[k + 1])
    BY <2>2, <2>4, WorseBeats
  <2>6. Beats(c[k + 1], first)
    BY <1>3, <2>4, <2>5, BeatsAll
  <2>7. ASSUME NEW i \in 1 .. k + 1 PROVE Beats(c[k + 1], dues[i])
    <3>1. CASE i = k + 1
      BY <2>5, <3>1
    <3>2. CASE i # k + 1
      <4>1. i \in 1 .. k /\ i \in 1 .. n
        BY <1>3, <3>2
      <4>2. Beats(c[k], dues[i]) /\ IsDue(dues[i])
        BY <1>3, <4>1
      <4>3. QED
        BY <2>4, <2>5, <4>2, BeatsAll
    <3>3. QED
      BY <3>1, <3>2
  <2>8. c[k + 1] = first \/ \E i \in 1 .. k + 1 : c[k + 1] = dues[i]
    <3>1. CASE c[k + 1] = c[k]
      <4>1. c[k] = first \/ \E i \in 1 .. k : c[k] = dues[i]
        BY <1>3
      <4>2. 1 .. k \subseteq 1 .. k + 1
        OBVIOUS
      <4>3. QED
        BY <3>1, <4>1, <4>2
    <3>2. CASE c[k + 1] = dues[k + 1]
      <4>1. k + 1 \in 1 .. k + 1
        OBVIOUS
      <4>2. QED
        BY <3>2, <4>1
    <3>3. QED
      BY <2>3, <3>1, <3>2
  <2>9. QED
    BY <2>4, <2>6, <2>7, <2>8
<1> HIDE DEF Ok
<1>4. 0 \in P /\ \A k \in P : k + 1 \in P
  BY <1>2, <1>3
<1>5. P = Nat
  <2>1. P \in SUBSET Nat
    OBVIOUS
  <2> HIDE DEF P
  <2>2. QED
    BY <1>4, <2>1, AllNaturals
<1>6. Ok(n)
  BY <1>5
<1>7. QED
  BY <1>1, <1>6 DEF Ok

\* The inspections are overdue when some program is.
LEMMA RollupOverdue ==
  ASSUME NEW n \in Nat, NEW dues, DOMAIN dues = 1 .. n,
         \A i \in 1 .. n : dues[i].status \in Statuses
  PROVE  /\ RollupAirworthiness(dues) \in Statuses
         /\ RollupAirworthiness(dues) = "overdue" <=>
                \E i \in 1 .. n : dues[i].status = "overdue"
<1>1. PICK c : /\ RollupAirworthiness(dues) = c[n]
               /\ c[0] = "ok"
               /\ \A k \in 1 .. n : c[k] = WorstStatus(c[k - 1], dues[k].status)
  BY RollupChain
<1> DEFINE Ok(k) == /\ c[k] \in Statuses
                    /\ c[k] = "overdue" <=> \E i \in 1 .. k : dues[i].status = "overdue"
           P == {k \in Nat : k <= n => Ok(k)}
<1>2. Ok(0)
  <2>1. 1 .. 0 = {}
    OBVIOUS
  <2>2. QED
    BY <1>1, <2>1 DEF Statuses
<1>3. ASSUME NEW k \in Nat, k + 1 <= n, Ok(k) PROVE Ok(k + 1)
  <2>1. k + 1 \in 1 .. n /\ (k + 1) - 1 = k
    BY <1>3
  <2>2. c[k + 1] = WorstStatus(c[k], dues[k + 1].status) /\ dues[k + 1].status \in Statuses
    BY <1>1, <2>1
  <2>3. /\ c[k + 1] \in Statuses
        /\ c[k + 1] = "overdue" <=> c[k] = "overdue" \/ dues[k + 1].status = "overdue"
    BY <1>3, <2>2 DEF WorstStatus, Statuses, StatusRank
  <2>4. 1 .. k + 1 = (1 .. k) \cup {k + 1}
    OBVIOUS
  <2>5. QED
    BY <1>3, <2>3, <2>4
<1> HIDE DEF Ok
<1>4. 0 \in P /\ \A k \in P : k + 1 \in P
  BY <1>2, <1>3
<1>5. P = Nat
  <2>1. P \in SUBSET Nat
    OBVIOUS
  <2> HIDE DEF P
  <2>2. QED
    BY <1>4, <2>1, AllNaturals
<1>6. Ok(n)
  BY <1>5
<1>7. QED
  BY <1>1, <1>6 DEF Ok

LEMMA OrdIsInt ==
  ASSUME NEW y \in Int, NEW m \in 1 .. 12, NEW d \in Int
  PROVE  Ord(y, m, d) \in Int
<1>1. DaysBefore[m] \in Int
  <2>1. m \in {1, 2, 3, 4, 5, 6, 7, 8, 9, 10, 11, 12}
    OBVIOUS
  <2>2. QED
    BY <2>1 DEF DaysBefore
<1>2. /\ 365 * y \in Int
      /\ (y - 1) \div 4 \in Int
      /\ (y - 1) \div 100 \in Int
      /\ (y - 1) \div 400 \in Int
  OBVIOUS
<1>3. (IF m > 2 /\ IsLeap(y) THEN 1 ELSE 0) \in Int
  OBVIOUS
<1>4. QED
  BY <1>1, <1>2, <1>3 DEF Ord

\* What an interval has left is a number of its unit.
LEMMA RemainingIsInt ==
  ASSUME NEW interval \in IntervalDefinition, NEW anchor \in ComplianceAnchor,
         NEW current, current.airframeTime \in Int, current.now \in Int,
         current.cycles \in Int
  PROVE  Remaining(interval, anchor, current) \in Int
<1>1. /\ interval.value \in Int
      /\ interval.kind \in {"hour", "cycle", "calendar"}
      /\ interval.kind = "calendar" => interval.unit \in CALENDAR_UNITS
  BY DEF IntervalDefinition
<1>2. /\ anchor.airframeTime \in Int /\ anchor.cycles \in Int
      /\ anchor.at.y \in Int /\ anchor.at.m \in 1 .. 12 /\ anchor.at.d \in Int
  BY DEF ComplianceAnchor
<1>3. ASSUME NEW value \in Int PROVE PlusMonths(anchor.at, value) \in Int
  <2> DEFINE month == anchor.at.m - 1 + value
  <2>1. month \in Int
    BY <1>2
  <2>2. month \div 12 \in Int /\ (month % 12) + 1 \in 1 .. 12
    <3> HIDE DEF month
    <3> QED
      BY <2>1
  <2> DEFINE y == anchor.at.y + (month \div 12)
             m == (month % 12) + 1
  <2>3. Ord(y, m, anchor.at.d) \in Int
    <3>1. y \in Int /\ m \in 1 .. 12 /\ anchor.at.d \in Int
      <4> HIDE DEF month
      <4> QED
        BY <1>2, <2>2
    <3> HIDE DEF y, m
    <3>2. QED
      BY <3>1, OrdIsInt
  <2>4. QED
    BY <2>3 DEF PlusMonths
<1>4. CASE interval.kind = "calendar"
  <2>1. AddCalendar(anchor.at, interval.value, "days") \in Int
    BY <1>1, <1>2, OrdIsInt DEF AddCalendar, OrdOf
  <2>2. AddCalendar(anchor.at, interval.value, "months") \in Int
    BY <1>1, <1>3 DEF AddCalendar
  <2>3. AddCalendar(anchor.at, interval.value, "years") \in Int
    BY <1>1, <1>3, 12 * interval.value \in Int DEF AddCalendar
  <2>4. AddCalendar(anchor.at, interval.value, interval.unit) \in Int
    BY <1>1, <1>4, <2>1, <2>2, <2>3 DEF CALENDAR_UNITS
  <2>5. QED
    BY <1>4, <2>4 DEF Remaining
<1>5. CASE interval.kind = "hour"
  BY <1>1, <1>2, <1>5 DEF Remaining
<1>6. CASE interval.kind = "cycle"
  BY <1>1, <1>2, <1>6 DEF Remaining
<1>7. QED
  BY <1>1, <1>4, <1>5, <1>6

\* An interval is overdue exactly when nothing is left of it.
LEMMA IntervalDue ==
  ASSUME NEW interval, NEW anchor, NEW current, NEW thresholds,
         Remaining(interval, anchor, current) \in Int
  PROVE  LET due == ComputeIntervalDue(interval, anchor, current, thresholds)
         IN  /\ IsDue(due)
             /\ due.status = "overdue" <=> Remaining(interval, anchor, current) < 0
<1> DEFINE remaining == Remaining(interval, anchor, current)
           threshold == ThresholdFor(interval.kind, thresholds)
<1>1. /\ ResolveStatus(remaining, threshold) \in Statuses
      /\ ResolveStatus(remaining, threshold) = "overdue" <=> remaining < 0
  <2>1. remaining \in Int
    OBVIOUS
  <2> HIDE DEF remaining, threshold
  <2>2. CASE remaining < 0
    <3>1. remaining \notin 0 .. threshold
      BY <2>1, <2>2
    <3>2. QED
      BY <2>2, <3>1 DEF ResolveStatus, Statuses
  <2>3. CASE ~(remaining < 0)
    BY <2>3 DEF ResolveStatus, Statuses
  <2>4. QED
    BY <2>2, <2>3
<1>2. QED
  BY <1>1 DEF ComputeIntervalDue, IsDue

\* The due of a program is that of its worst interval.
LEMMA ProgramDue ==
  ASSUME NEW intervals \in Seq(IntervalDefinition), NEW anchor \in ComplianceAnchor,
         NEW thresholds, NEW current,
         current.airframeTime \in Int, current.now \in Int, current.cycles \in Int
  PROVE  LET due == ComputeProgramDue(intervals, anchor, current, thresholds)
         IN  /\ due.status \in Statuses
             /\ \A i \in 1 .. Len(intervals) :
                    Beats(due, ComputeIntervalDue(intervals[i], anchor, current, thresholds))
             /\ due.status = "overdue" <=>
                    \E i \in 1 .. Len(intervals) :
                        Remaining(intervals[i], anchor, current) < 0
<1> DEFINE n == Len(intervals)
           computed == [i \in 1 .. n |->
                           ComputeIntervalDue(intervals[i], anchor, current, thresholds)]
           rest == Tail(computed)
           due == ComputeProgramDue(intervals, anchor, current, thresholds)
<1>1. n \in Nat /\ \A i \in 1 .. n : intervals[i] \in IntervalDefinition
  OBVIOUS
<1>2. \A i \in 1 .. n :
          /\ IsDue(computed[i])
          /\ computed[i].status = "overdue" <=> Remaining(intervals[i], anchor, current) < 0
  BY <1>1, RemainingIsInt, IntervalDue
<1>3. CASE intervals = <<>>
  <2>1. 1 .. n = {}
    BY <1>3
  <2>2. due = NoDriver
    BY <1>3 DEF ComputeProgramDue
  <2>3. QED
    BY <2>1, <2>2 DEF NoDriver, Statuses
<1>4. CASE intervals # <<>>
  <2>1. n >= 1
    BY <1>4
  <2>2. due = Driver(computed[1], rest)
    BY <1>4 DEF ComputeProgramDue, Driver
  <2> HIDE DEF due
  <2>3. DOMAIN rest = 1 .. n - 1 /\ \A i \in 1 .. n - 1 : rest[i] = computed[i + 1]
    <3> DEFINE S == {computed[i] : i \in 1 .. n}
    <3>1. computed \in Seq(S) /\ Len(computed) = n
      BY <1>1
    <3>2. computed # <<>>
      BY <2>1, <3>1
    <3> HIDE DEF computed, S
    <3>3. /\ rest \in Seq(S)
          /\ Len(rest) = n - 1
          /\ \A i \in 1 .. Len(rest) : rest[i] = computed[i + 1]
      BY <3>1, <3>2, HeadTailProperties
    <3>4. QED
      BY <3>3
  <2> HIDE DEF computed, rest
  <2>4. \A i \in 1 .. n - 1 : i + 1 \in 1 .. n
    BY <1>1
  <2>5. \A i \in 1 .. n - 1 : IsDue(rest[i])
    BY <1>2, <2>3, <2>4
  <2>6. 1 \in 1 .. n /\ IsDue(computed[1]) /\ n - 1 \in Nat
    BY <1>1, <1>2, <2>1
  <2>7. /\ due = computed[1] \/ \E i \in 1 .. n - 1 : due = rest[i]
        /\ IsDue(due)
        /\ Beats(due, computed[1])
        /\ \A i \in 1 .. n - 1 : Beats(due, rest[i])
    BY <2>2, <2>3, <2>5, <2>6, WorstOfAll
  <2>8. \E i \in 1 .. n : due = computed[i]
    BY <2>3, <2>4, <2>6, <2>7
  <2>9. \A i \in 1 .. n : i = 1 \/ (i - 1 \in 1 .. n - 1 /\ (i - 1) + 1 = i)
    BY <1>1
  <2>10. \A i \in 1 .. n : Beats(due, computed[i])
    BY <2>3, <2>7, <2>9
  <2>11. ASSUME NEW i \in 1 .. n, computed[i].status = "overdue" PROVE due.status = "overdue"
    BY <1>2, <2>7, <2>10, <2>11 DEF Beats, IsDue, Statuses, StatusRank
  <2>12. due.status = "overdue" <=> \E i \in 1 .. n : computed[i].status = "overdue"
    BY <2>8, <2>11
  <2>13. \A i \in 1 .. n :
             Beats(due, ComputeIntervalDue(intervals[i], anchor, current, thresholds))
    BY <2>10 DEF computed
  <2>14. QED
    BY <1>2, <2>7, <2>12, <2>13 DEF due, IsDue
<1>5. QED
  BY <1>3, <1>4

\* The rollup of the inspections is a status, overdue exactly when some interval
\* is, and every program is driven by its worst interval.
LEMMA Engine ==
  ASSUME NEW airframeTime \in Hours, NEW now \in Days
  PROVE  /\ InspectionStatus[airframeTime][now] \in Statuses
         /\ EngineIsRight[airframeTime][now]
<1> DEFINE n == Len(Programs)
           current == Current(airframeTime, now)
           dues == ProgramDues(current)
           P(p) == Programs[p]
<1>1. n \in Nat /\ \A p \in 1 .. n : /\ P(p).intervals \in Seq(IntervalDefinition)
                                    /\ P(p).anchor \in ComplianceAnchor
  <2> DEFINE Subscription == [intervals: Seq(IntervalDefinition), anchor: ComplianceAnchor,
                              thresholds: DueSoonThresholds]
  <2>1. Programs \in Seq(Subscription)
    BY ProgramsAssumption
  <2>2. n \in Nat /\ \A p \in 1 .. n : Programs[p] \in Subscription
    <3> HIDE DEF Subscription
    <3> QED
      BY <2>1
  <2>3. QED
    BY <2>2
<1>2. /\ current.airframeTime \in Int /\ current.now \in Int /\ current.cycles \in Int
  BY HoursAssumption, AirworthinessAssumption DEF Current, Hours, Days
<1>3. ASSUME NEW p \in 1 .. n
      PROVE  /\ dues[p].status \in Statuses
             /\ \A i \in 1 .. Len(P(p).intervals) :
                    Beats(dues[p], ComputeIntervalDue(P(p).intervals[i], P(p).anchor,
                                                      current, P(p).thresholds))
             /\ dues[p].status = "overdue" <=>
                    \E i \in 1 .. Len(P(p).intervals) :
                        Remaining(P(p).intervals[i], P(p).anchor, current) < 0
  <2>1. dues[p] = ComputeProgramDue(P(p).intervals, P(p).anchor, current, P(p).thresholds)
    BY DEF ProgramDues
  <2> DEFINE intervals == P(p).intervals
             anchor == P(p).anchor
             thresholds == P(p).thresholds
  <2>2. intervals \in Seq(IntervalDefinition) /\ anchor \in ComplianceAnchor
    BY <1>1
  <2>3. dues[p] = ComputeProgramDue(intervals, anchor, current, thresholds)
    BY <2>1
  <2> HIDE DEF current, dues, intervals, anchor, thresholds
  <2>4. /\ dues[p].status \in Statuses
        /\ \A i \in 1 .. Len(intervals) :
               Beats(dues[p], ComputeIntervalDue(intervals[i], anchor, current, thresholds))
        /\ dues[p].status = "overdue" <=>
               \E i \in 1 .. Len(intervals) : Remaining(intervals[i], anchor, current) < 0
    BY <1>2, <2>2, <2>3, ProgramDue
  <2>5. QED
    BY <2>4 DEF intervals, anchor, thresholds
<1>4. DOMAIN dues = 1 .. n
  BY DEF ProgramDues
<1>5. InspectionStatus[airframeTime][now] = RollupAirworthiness(dues)
  BY DEF InspectionStatus
<1> HIDE DEF current, dues
<1>6. /\ RollupAirworthiness(dues) \in Statuses
      /\ RollupAirworthiness(dues) = "overdue" <=> \E p \in 1 .. n : dues[p].status = "overdue"
  BY <1>1, <1>3, <1>4, RollupOverdue
<1>7. DriversAreRight(current)
  BY <1>3 DEF DriversAreRight, Beats, dues
<1>8. InspectionStatus[airframeTime][now] = "overdue" <=> PastDue(current)
  BY <1>3, <1>5, <1>6 DEF PastDue
<1>9. EngineIsRight[airframeTime][now]
  BY <1>7, <1>8 DEF EngineIsRight, current
<1>10. QED
  BY <1>5, <1>6, <1>9

LEMMA StatusType ==
  ASSUME NEW airframeTime \in Hours, NEW now \in Days, NEW grounding
  PROVE  StatusOf(airframeTime, grounding, now) \in Statuses
BY Engine DEF StatusOf, Statuses

\* Type correctness, the engine's answer included.
THEOREM TypeCorrect == Spec => []TypeOK
<1>1. Init => TypeOK
  <2>1. Init => FlightTimeTypeOK /\ SquawksTypeOK
    BY FlightInit, SquawkInit DEF Init, FlightInv, SquawkInv
  <2>2. FirstDay \in Days /\ 0 \in Hours
    BY HoursAssumption, AirworthinessAssumption DEF Days, Hours
  <2>3. QED
    BY <2>1, <2>2 DEF Init, TypeOK
<1>2. ASSUME Inv, Inv', TypeOK, [Next]_vars PROVE TypeOK'
  <2>1. /\ FlightTimeTypeOK' /\ SquawksTypeOK'
        /\ airframe \in Hours /\ airframe' \in Hours
    BY <1>2 DEF Inv, FlightInv, SquawkInv, FlightTimeTypeOK
  <2>2. OpenGrounding \subseteq Squawk /\ OpenGrounding' \subseteq Squawk
    BY DEF OpenGrounding
  <2>3. CASE WriterSteps /\ Observe /\ UNCHANGED <<rqPc, rqAirframe, rqGrounding, answer>>
    <3>1. today' \in Days
      BY <1>2, <2>3, AirworthinessAssumption DEF WriterSteps, Days, TypeOK
    <3>2. TrueStatus' \in Statuses
      BY <2>1, <3>1, StatusType DEF TrueStatus
    <3>3. truths' \in [Reader -> SUBSET Statuses]
      BY <1>2, <2>3, <3>2 DEF Observe, TypeOK
    <3>4. held' \in [Reader -> SUBSET Squawk] /\ moved' \in [Reader -> BOOLEAN]
      BY <1>2, <2>3 DEF Observe, TypeOK
    <3>5. QED
      BY <1>2, <2>1, <2>3, <3>1, <3>3, <3>4 DEF TypeOK
  <2>4. ASSUME NEW q \in Reader, ReadAircraft(q) PROVE TypeOK'
    <3>1. TrueStatus \in Statuses
      BY <1>2, <2>1, StatusType DEF TrueStatus, TypeOK
    <3>2. QED
      BY <1>2, <2>1, <2>2, <2>4, <3>1 DEF ReadAircraft, TypeOK
  <2>5. ASSUME NEW q \in Reader, ReadSquawks(q) PROVE TypeOK'
    BY <1>2, <2>1, <2>2, <2>5 DEF ReadSquawks, TypeOK
  <2>6. ASSUME NEW q \in Reader, Answer(q) PROVE TypeOK'
    <3>1. StatusOf(rqAirframe[q], rqGrounding[q], today) \in Statuses
      BY <1>2, StatusType DEF TypeOK
    <3>2. QED
      BY <1>2, <2>1, <2>6, <3>1 DEF Answer, TypeOK
  <2>7. CASE UNCHANGED vars
    BY <1>2, <2>1, <2>7 DEF vars, rqVars, TypeOK
  <2>8. QED
    BY <1>2, <2>3, <2>4, <2>5, <2>6, <2>7 DEF Next
<1>3. QED
  BY <1>1, <1>2, Invariant, PTL DEF Spec

\* The earliest interval decides (computeProgramDue, rollupAirworthiness), for any
\* programs, any anchors and calendar, and any hours and days.
THEOREM EarliestDecides == Spec => []WhicheverComesFirst
<1>1. TypeOK => WhicheverComesFirst
  BY Engine DEF TypeOK, FlightTimeTypeOK, WhicheverComesFirst
<1>2. QED
  BY <1>1, TypeCorrect, PTL

=============================================================================
