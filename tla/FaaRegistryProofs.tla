------------------------- MODULE FaaRegistryProofs -------------------------
(***************************************************************************)
(* Proofs about the registry pipeline, for any aircraft, any calendar and  *)
(* any number of failures: the two copies of the registry agree, history   *)
(* ends for a reason, and the date that is shown is honest.                *)
(***************************************************************************)
EXTENDS FaaRegistry, TLAPS

-----------------------------------------------------------------------------
(* What the phases leave behind. *)

Phases == {"bronze", "stampBronze", "gold", "stampGold", "load", "detect"}

\* A phase finds what the phases before it have made, and a day is not
\* transformed once it is loaded; ...
PhaseInv ==
    /\ pc \in {"master", "dereg"} => download \in Snapshot
    /\ pc \in Phases => manifest[job.date] \in ManifestRow
    /\ pc \in Phases \ {"detect"} => ~Stamped(job.date, "pg")
    /\ pc \in Phases \ {"bronze"} => bronze[job.date] \in Snapshot
    /\ pc \in {"stampGold", "load"} => gold[job.date] \in Registered

\* ... which its stamp tells of.
StampInv ==
    /\ \A d \in Day : Stamped(d, "pg") => bronze[d] \in Snapshot /\ gold[d] \in Registered
    /\ loadedAs # None => Stamped(loadedAs, "pg")

RegistryInv ==
    /\ TypeOK
    /\ PhaseInv
    /\ StampInv
    /\ LiveRowIsCurrent
    /\ EndsAreExplained
    /\ FreshnessIsHonest

-----------------------------------------------------------------------------
(* Types, and what the phases leave behind. *)

WorkInv == TypeOK /\ PhaseInv /\ StampInv

LEMMA FilesTypes ==
  /\ NoFiles \in Files
  /\ \A s \in Snapshot : s \in Files /\ s["MASTER"] \in Registered /\ s["DEREG"] \in SUBSET Aircraft
  /\ \A g \in Files, m \in Registered : [g EXCEPT !["MASTER"] = m] \in Files
  /\ \A g \in Files, e \in SUBSET Aircraft : [g EXCEPT !["DEREG"] = e] \in Files
  /\ \A m \in Registered, e \in SUBSET Aircraft : [MASTER |-> m, DEREG |-> e] \in Snapshot
<1>1. NoFiles = [MASTER |-> None, DEREG |-> None]
  BY DEF NoFiles, File
<1>2. NoFiles \in Files
  BY <1>1 DEF Files
<1>3. \A s \in Snapshot : s \in Files /\ s["MASTER"] \in Registered /\ s["DEREG"] \in SUBSET Aircraft
  BY DEF Snapshot, Files
<1>4. \A g \in Files, m \in Registered : [g EXCEPT !["MASTER"] = m] \in Files
  BY DEF Files
<1>5. \A g \in Files, e \in SUBSET Aircraft : [g EXCEPT !["DEREG"] = e] \in Files
  BY DEF Files
<1>6. \A m \in Registered, e \in SUBSET Aircraft : [MASTER |-> m, DEREG |-> e] \in Snapshot
  BY DEF Snapshot
<1>7. QED
  BY <1>2, <1>3, <1>4, <1>5, <1>6

LEMMA WorkInit == Init => WorkInv
<1> SUFFICES ASSUME Init PROVE WorkInv
  OBVIOUS
<1>1. TypeOK
  <2>1. 1 \in Day /\ 0 \in 0..MaxFaults
    BY RegistryAssumption DEF Init, TypeOK, Day
  <2>2. Nobody \in Registered
    BY DEF Nobody, Registered
  <2>3. QED
    BY <2>1, <2>2, FilesTypes DEF Init, TypeOK, Job
<1>2. PhaseInv /\ StampInv
  BY DEF Init, PhaseInv, StampInv, Stamped, Phases
<1>3. QED
  BY <1>1, <1>2 DEF WorkInv

\* Rows of history.
LEMMA ClosedRow ==
  ASSUME NEW h \in HistoryRow, NEW d \in Day
  PROVE  /\ Closed(h, d) \in HistoryRow
         /\ Closed(h, d).n = h.n /\ Closed(h, d).from = h.from
         /\ Closed(h, d).body = h.body
         /\ Closed(h, d).to = d /\ Closed(h, d).cur = FALSE
  BY DEF HistoryRow, Closed

LEMMA OpenedRow ==
  ASSUME NEW n \in Aircraft, NEW b \in Body, NEW d \in Day
  PROVE  /\ NewRow(n, d, b) \in HistoryRow
         /\ NewRow(n, d, b).n = n /\ NewRow(n, d, b).from = d
         /\ NewRow(n, d, b).body = b
         /\ NewRow(n, d, b).to = None /\ NewRow(n, d, b).cur = TRUE
  BY DEF HistoryRow, NewRow

LEMMA ChangeRows ==
  ASSUME NEW n \in Aircraft, NEW d \in Day, NEW t \in ChangeType
  PROVE  Change(n, d, t) \in ChangeRow
  BY DEF Change, ChangeRow

\* A stamp is added to a row that is there.
LEMMA Stamping ==
  ASSUME WorkInv, NEW s \in Stamp, pc \in Phases, PutStamp(s)
  PROVE  /\ manifest' \in [Day -> ManifestRow \cup {None}]
         /\ manifest'[job.date] = manifest[job.date] \cup {s}
         /\ manifest'[job.date] \in ManifestRow
         /\ \A d \in Day \ {job.date} : manifest'[d] = manifest[d]
<1>1. job.date \in Day /\ manifest[job.date] \in ManifestRow
  BY DEF WorkInv, TypeOK, PhaseInv, Job
<1>2. manifest[job.date] \cup {s} \in ManifestRow
  BY <1>1 DEF ManifestRow
<1>3. QED
  BY <1>1, <1>2 DEF WorkInv, TypeOK, PutStamp

LEMMA WorkStep == WorkInv /\ [Next]_vars => WorkInv'
<1> SUFFICES ASSUME WorkInv, [Next]_vars PROVE WorkInv'
  OBVIOUS
<1>0. job \in Job /\ job.date \in Day /\ today \in Day
  BY DEF WorkInv, TypeOK, Job
<1> USE DEF WorkInv
<1>1. ASSUME NEW mode \in {"r2", "lakefs"}, StartRun(mode) PROVE WorkInv'
  <2>1. job' \in Job /\ present' \in SUBSET File
    BY <1>0, <1>1 DEF StartRun, Job, Heads
  <2>2. QED
    BY <1>1, <2>1, FilesTypes DEF StartRun, TypeOK, PhaseInv, StampInv, Stamped, Phases,
       Ingesting, registryVars
<1>2. ASSUME SkipIngest PROVE WorkInv'
  BY <1>0, <1>2 DEF SkipIngest, TypeOK, PhaseInv, StampInv, Stamped, Phases,
     Ingesting, registryVars, stageVars
<1>3. ASSUME NEW published \in Snapshot, Download(published) PROVE WorkInv'
  BY <1>0, <1>3 DEF Download, TypeOK, PhaseInv, StampInv, Stamped, Phases,
     Ingesting, registryVars, stageVars
<1>4. ASSUME StageMaster PROVE WorkInv'
  <2>1. download \in Snapshot
    BY <1>4 DEF StageMaster, StageFile, PhaseInv
  <2>2. [staged EXCEPT !["MASTER"] = download["MASTER"]] \in Files
    BY <2>1, FilesTypes DEF TypeOK
  <2>3. [objects EXCEPT ![job.date]["MASTER"] = download["MASTER"]] \in [Day -> Files]
    <3>1. objects[job.date] \in Files
      BY <1>0 DEF TypeOK
    <3>2. [objects[job.date] EXCEPT !["MASTER"] = download["MASTER"]] \in Files
      BY <2>1, <3>1, FilesTypes
    <3>3. QED
      BY <3>2 DEF TypeOK
  <2>4. objects' \in [Day -> Files] /\ staged' \in Files
    BY <1>4, <2>2, <2>3 DEF StageMaster, StageFile, TypeOK
  <2>5. QED
    BY <1>4, <2>4 DEF StageMaster, StageFile, TypeOK, PhaseInv, StampInv, Stamped, Phases,
       Ingesting, registryVars
<1>5. ASSUME StageDereg PROVE WorkInv'
  <2>1. download \in Snapshot
    BY <1>5 DEF StageDereg, StageFile, PhaseInv
  <2>2. [staged EXCEPT !["DEREG"] = download["DEREG"]] \in Files
    BY <2>1, FilesTypes DEF TypeOK
  <2>3. [objects EXCEPT ![job.date]["DEREG"] = download["DEREG"]] \in [Day -> Files]
    <3>1. objects[job.date] \in Files
      BY <1>0 DEF TypeOK
    <3>2. [objects[job.date] EXCEPT !["DEREG"] = download["DEREG"]] \in Files
      BY <2>1, <3>1, FilesTypes
    <3>3. QED
      BY <3>2 DEF TypeOK
  <2>4. objects' \in [Day -> Files] /\ staged' \in Files
    BY <1>5, <2>2, <2>3 DEF StageDereg, StageFile, TypeOK
  <2>5. QED
    BY <1>5, <2>4 DEF StageDereg, StageFile, TypeOK, PhaseInv, StampInv, Stamped, Phases,
       Ingesting, registryVars
<1>6. ASSUME UpsertManifest PROVE WorkInv'
  BY <1>0, <1>6 DEF UpsertManifest, TypeOK, PhaseInv, StampInv, Stamped, Phases,
     Ingesting, registryVars, stageVars, ManifestRow
<1>7. ASSUME FinishRun PROVE WorkInv'
  BY <1>0, <1>7 DEF FinishRun, TypeOK, PhaseInv, StampInv, Stamped, Phases,
     Ingesting, Transforming, registryVars, stageVars, Job
<1>8. ASSUME NEW d \in Day, RestartTransform(d) PROVE WorkInv'
  BY <1>0, <1>8 DEF RestartTransform, TypeOK, PhaseInv, StampInv, Stamped, Phases,
     Ingesting, Transforming, registryVars, stageVars, Job
<1>9. ASSUME BeginTransform PROVE WorkInv'
  BY <1>0, <1>9 DEF BeginTransform, TypeOK, PhaseInv, StampInv, Stamped, Phases,
     Ingesting, Transforming, registryVars, stageVars
<1>10. ASSUME NEW rejected \in [File -> SUBSET Aircraft], RunBronze(rejected) PROVE WorkInv'
  <2>1. Raw("MASTER") \in Registered /\ Raw("DEREG") \in SUBSET Aircraft
    <3>1. Raw("MASTER") # None /\ Raw("DEREG") # None
      BY <1>10 DEF RunBronze, File
    <3>2. staged \in Files /\ objects[job.date] \in Files
      BY <1>0 DEF TypeOK
    <3>3. QED
      BY <3>1, <3>2 DEF Raw, Files
  <2>2. /\ [n \in Aircraft |-> IF n \in rejected["MASTER"] THEN None ELSE Raw("MASTER")[n]]
                \in Registered
        /\ Raw("DEREG") \ rejected["DEREG"] \in SUBSET Aircraft
    BY <2>1 DEF Registered
  <2>3. PICK s \in Snapshot : bronze' = [bronze EXCEPT ![job.date] = s]
    BY <1>10, <2>1, <2>2, FilesTypes DEF RunBronze
  <2>4. bronze' \in [Day -> Files] /\ bronze'[job.date] \in Snapshot
        /\ \A d \in Day \ {job.date} : bronze'[d] = bronze[d]
    BY <1>0, <2>3, FilesTypes DEF TypeOK
  <2>5. QED
    BY <1>0, <1>10, <2>4 DEF RunBronze, TypeOK, PhaseInv, StampInv,
       Stamped, Phases, Ingesting, Transforming, registryVars
<1>11. ASSUME StampBronze PROVE WorkInv'
  <2>1. /\ manifest' \in [Day -> ManifestRow \cup {None}]
        /\ manifest'[job.date] = manifest[job.date] \cup {"bronze"}
        /\ manifest'[job.date] \in ManifestRow
        /\ \A d \in Day \ {job.date} : manifest'[d] = manifest[d]
    BY <1>11, Stamping DEF StampBronze, Stamp, Phases
  <2>2. QED
    BY <1>0, <1>11, <2>1, NoRowAssumption DEF StampBronze, TypeOK, PhaseInv, StampInv,
       Stamped, Phases, Ingesting, Transforming, registryVars, stageVars
<1>12. ASSUME RunGold PROVE WorkInv'
  <2>1. bronze[job.date].MASTER \in Registered
    BY <1>12 DEF RunGold, PhaseInv, Phases, Snapshot
  <2>2. gold' \in [Day -> Registered \cup {None}] /\ gold'[job.date] \in Registered
        /\ \A d \in Day \ {job.date} : gold'[d] = gold[d]
    BY <1>0, <1>12, <2>1 DEF RunGold, TypeOK
  <2>3. QED
    BY <1>0, <1>12, <2>2 DEF RunGold, TypeOK, PhaseInv, StampInv,
       Stamped, Phases, Ingesting, Transforming, registryVars
<1>13. ASSUME StampGold PROVE WorkInv'
  <2>1. /\ manifest' \in [Day -> ManifestRow \cup {None}]
        /\ manifest'[job.date] = manifest[job.date] \cup {"gold"}
        /\ manifest'[job.date] \in ManifestRow
        /\ \A d \in Day \ {job.date} : manifest'[d] = manifest[d]
    BY <1>13, Stamping DEF StampGold, Stamp, Phases
  <2>2. QED
    BY <1>0, <1>13, <2>1, NoRowAssumption DEF StampGold, TypeOK, PhaseInv, StampInv,
       Stamped, Phases, Ingesting, Transforming, registryVars, stageVars
<1>14. ASSUME RunPgLoad PROVE WorkInv'
  <2>1. /\ manifest' \in [Day -> ManifestRow \cup {None}]
        /\ manifest'[job.date] = manifest[job.date] \cup {"pg"}
        /\ manifest'[job.date] \in ManifestRow
        /\ \A d \in Day \ {job.date} : manifest'[d] = manifest[d]
    BY <1>14, Stamping DEF RunPgLoad, Stamp, Phases
  <2>2. gold[job.date] \in Registered /\ bronze[job.date] \in Snapshot
    BY <1>14 DEF RunPgLoad, PhaseInv, Phases
  <2>3. current' \in Registered
    BY <1>14, <2>2 DEF RunPgLoad, TypeOK, Registered
  <2>4. history' \subseteq HistoryRow
    <3>1. \A h \in Live(Changed(job.date)) : Closed(h, job.date) \in HistoryRow
      BY <1>0, ClosedRow DEF TypeOK, Live
    <3>2. \A n \in Changed(job.date) : NewRow(n, job.date, gold[job.date][n]) \in HistoryRow
      <4> SUFFICES ASSUME NEW n \in Changed(job.date)
                   PROVE  NewRow(n, job.date, gold[job.date][n]) \in HistoryRow
        OBVIOUS
      <4>1. n \in Aircraft /\ gold[job.date][n] \in Body
        BY <2>2 DEF Changed, Registered
      <4>2. QED
        BY <1>0, <4>1, OpenedRow
    <3>3. QED
      BY <1>14, <3>1, <3>2 DEF RunPgLoad, TypeOK
  <2>5. Stamped(job.date, "pg")'
    BY <1>14, <2>1, NoRowAssumption DEF RunPgLoad, Stamped
  <2>6. TypeOK'
    <3>1. loadedAs' \in Day \cup {None} /\ straight' \in BOOLEAN
      BY <1>0, <1>14 DEF RunPgLoad, TypeOK
    <3>2. QED
      BY <1>14, <2>1, <2>3, <2>4, <3>1 DEF RunPgLoad, TypeOK, Transforming, stageVars
  <2>7. PhaseInv' /\ StampInv'
    <3>1. job' = job /\ bronze' = bronze /\ gold' = gold /\ pc' = "detect" /\ loadedAs' = job.date
      BY <1>14 DEF RunPgLoad, stageVars
    <3>2. PhaseInv'
      BY <2>1, <2>2, <3>1 DEF PhaseInv, Phases
    <3>3. ASSUME NEW d \in Day, Stamped(d, "pg")'
          PROVE  bronze[d] \in Snapshot /\ gold[d] \in Registered
      BY <2>1, <2>2, <3>3 DEF StampInv, Stamped
    <3>4. QED
      BY <2>5, <3>1, <3>2, <3>3 DEF StampInv
  <2>8. QED
    BY <2>6, <2>7
<1>15. ASSUME RunChangeDetect PROVE WorkInv'
  <2>1. /\ manifest' \in [Day -> ManifestRow \cup {None}]
        /\ manifest'[job.date] = manifest[job.date] \cup {"changes"}
        /\ manifest'[job.date] \in ManifestRow
        /\ \A d \in Day \ {job.date} : manifest'[d] = manifest[d]
    BY <1>15, Stamping DEF RunChangeDetect, Stamp, Phases
  <2>2. history' \subseteq HistoryRow
    <3>1. \A h \in Live(bronze[job.date].DEREG) : Closed(h, job.date) \in HistoryRow
      BY <1>0, ClosedRow DEF TypeOK, Live
    <3>2. QED
      BY <1>15, <3>1 DEF RunChangeDetect, TypeOK
  <2>3. changes' \subseteq ChangeRow
    <3>1. NewRegistrations(job.date) \subseteq ChangeRow
      <4>1. \A h \in Opened(job.date) : Change(h.n, job.date, "new_registration") \in ChangeRow
        BY <1>0, ChangeRows DEF Opened, TypeOK, HistoryRow, ChangeType
      <4>2. QED
        BY <4>1 DEF NewRegistrations
    <3>2. Amendments(job.date) \subseteq ChangeRow
      <4>1. \A h \in Opened(job.date), c \in DOMAIN ChangeOf :
               Change(h.n, job.date, ChangeOf[c]) \in ChangeRow
        BY <1>0, ChangeRows DEF Opened, TypeOK, HistoryRow, ChangeType
      <4>2. QED
        BY <4>1 DEF Amendments
    <3>3. Deregistrations(job.date) \subseteq ChangeRow
      <4>1. bronze[job.date].DEREG \subseteq Aircraft
        BY <1>15 DEF RunChangeDetect, PhaseInv, Phases, Snapshot
      <4>2. QED
        BY <1>0, <4>1, ChangeRows DEF Deregistrations, ChangeType
    <3>4. QED
      BY <1>15, <3>1, <3>2, <3>3 DEF RunChangeDetect, TypeOK
  <2>4. TypeOK'
    BY <1>15, <2>1, <2>2, <2>3, FilesTypes DEF RunChangeDetect, TypeOK
  <2>5. manifest[job.date] \in ManifestRow
    BY <1>15 DEF RunChangeDetect, PhaseInv, Phases
  <2>6. PhaseInv' /\ StampInv'
    <3>1. bronze' = bronze /\ gold' = gold /\ pc' = "idle" /\ loadedAs' = loadedAs
      BY <1>15 DEF RunChangeDetect
    <3>2. \A d \in Day : Stamped(d, "pg")' <=> Stamped(d, "pg")
      <4>1. manifest[job.date] # None /\ manifest'[job.date] # None
        BY <2>1, <2>5, NoRowAssumption
      <4>2. "pg" \in manifest'[job.date] <=> "pg" \in manifest[job.date]
        BY <2>1
      <4> SUFFICES ASSUME NEW d \in Day
                   PROVE  manifest'[d] # None /\ "pg" \in manifest'[d]
                            <=> manifest[d] # None /\ "pg" \in manifest[d]
        BY DEF Stamped
      <4>3. CASE d = job.date
        BY <4>1, <4>2, <4>3
      <4>4. CASE d # job.date
        BY <2>1, <4>4
      <4>5. QED
        BY <4>3, <4>4
    <3>3. QED
      BY <3>1, <3>2 DEF PhaseInv, StampInv, Phases, TypeOK
  <2>7. QED
    BY <2>4, <2>6
<1>16. ASSUME Stops, faults' \in 0..MaxFaults PROVE WorkInv'
  BY <1>16, FilesTypes DEF Stops, TypeOK, PhaseInv, StampInv, Stamped, Phases,
     registryVars
<1>17. ASSUME Fails \/ NoRawFiles \/ EndTransform PROVE WorkInv'
  <2>1. faults' \in 0..MaxFaults
    BY <1>17, RegistryAssumption DEF Fails, NoRawFiles, EndTransform, TypeOK
  <2>2. Stops
    BY <1>17 DEF Fails, NoRawFiles, EndTransform
  <2>3. QED
    BY <2>1, <2>2, <1>16
<1>18. ASSUME NextDay PROVE WorkInv'
  BY <1>0, <1>18, RegistryAssumption DEF NextDay, TypeOK, PhaseInv, StampInv, Stamped,
     registryVars, stageVars, runVars, Day
<1>19. ASSUME UNCHANGED vars PROVE WorkInv'
  BY <1>19 DEF vars, TypeOK, PhaseInv, StampInv, Stamped, registryVars, stageVars, runVars
<1>20. QED
  BY <1>1, <1>2, <1>3, <1>4, <1>5, <1>6, <1>7, <1>8, <1>9, <1>10, <1>11, <1>12, <1>13,
     <1>14, <1>15, <1>17, <1>18, <1>19 DEF Next, Ingest, Transform, World

\* Every variable has its type, whatever fails and whichever day is worked on;
\* in particular a phase is never begun on what another has not made.
THEOREM TypeCorrect == Spec => []TypeOK
<1>1. Spec => []WorkInv
  BY WorkInit, WorkStep, PTL DEF Spec
<1>2. WorkInv => TypeOK
  BY DEF WorkInv
<1>3. QED
  BY <1>1, <1>2, PTL

-----------------------------------------------------------------------------
(* The two copies of the registry. *)

RegistryFrame == UNCHANGED <<current, history, changes>>

\* What the load and the change detection do; nothing else writes the registry.
LEMMA Writers ==
  ASSUME [Next]_vars
  PROVE  RegistryFrame \/ RunPgLoad \/ RunChangeDetect
<1>1. CASE Ingest
  BY <1>1 DEF Ingest, StartRun, SkipIngest, Download, StageMaster, StageDereg, StageFile,
     UpsertManifest, FinishRun, registryVars, RegistryFrame
<1>2. CASE Transform
  BY <1>2 DEF Transform, RestartTransform, BeginTransform, RunBronze, StampBronze, RunGold,
     StampGold, NoRawFiles, EndTransform, Stops, registryVars, RegistryFrame
<1>3. CASE World
  BY <1>3 DEF World, NextDay, Fails, Stops, registryVars, RegistryFrame
<1>4. CASE UNCHANGED vars
  BY <1>4 DEF vars, registryVars, RegistryFrame
<1>5. QED
  BY <1>1, <1>2, <1>3, <1>4 DEF Next

\* The load: every row of history is either kept or was live and is closed or
\* is new, live and in the current table.
LEMMA LoadWrites ==
  ASSUME WorkInv, RunPgLoad
  PROVE  LET d == job.date
             N == Changed(d)
         IN /\ d \in Day /\ N \subseteq Aircraft
            /\ \A n \in N : current'[n] = gold[d][n] /\ gold[d][n] \in Body
            /\ \A n \in Aircraft \ N : current'[n] = current[n]
            /\ \A h \in history : h.cur /\ h.n \in N => Closed(h, d) \in history'
            /\ \A h \in history : ~(h.cur /\ h.n \in N) => h \in history'
            /\ \A h \in history' :
                 \/ h \in history /\ ~(h.cur /\ h.n \in N)
                 \/ \E g \in history : g.cur /\ g.n \in N /\ h = Closed(g, d)
                 \/ h.n \in N /\ h = NewRow(h.n, d, gold[d][h.n])
            /\ changes' = changes
<1> DEFINE d == job.date
           N == Changed(d)
<1>1. d \in Day /\ gold[d] \in Registered
  BY DEF WorkInv, TypeOK, Job, PhaseInv, Phases, RunPgLoad
<1>2. N \subseteq Aircraft /\ \A n \in N : gold[d][n] \in Body
  BY <1>1 DEF Changed, Registered
<1>3. current' = [n \in Aircraft |-> IF gold[d][n] # None THEN gold[d][n] ELSE current[n]]
  BY DEF RunPgLoad
<1>4. \A n \in N : current'[n] = gold[d][n]
  BY <1>3 DEF Changed
<1>5. \A n \in Aircraft \ N : current'[n] = current[n]
  BY <1>3 DEF Changed
<1>6. history' = (history \ Live(N)) \cup {Closed(h, d) : h \in Live(N)}
                    \cup {NewRow(n, d, gold[d][n]) : n \in N}
  BY DEF RunPgLoad
<1>7. \A h : h \in Live(N) <=> h \in history /\ h.cur /\ h.n \in N
  BY DEF Live
<1>8. \A n \in N : NewRow(n, d, gold[d][n]).n = n
  BY <1>1, <1>2, OpenedRow
<1>9. \A h \in history' :
        \/ h \in history /\ ~(h.cur /\ h.n \in N)
        \/ \E g \in history : g.cur /\ g.n \in N /\ h = Closed(g, d)
        \/ h.n \in N /\ h = NewRow(h.n, d, gold[d][h.n])
  <2> HIDE DEF d, N
  <2> QED
    BY <1>6, <1>7, <1>8
<1>10. /\ \A h \in history : h.cur /\ h.n \in N => Closed(h, d) \in history'
       /\ \A h \in history : ~(h.cur /\ h.n \in N) => h \in history'
  <2> HIDE DEF d, N
  <2> QED
    BY <1>6, <1>7
<1>11. changes' = changes
  BY DEF RunPgLoad
<1>12. QED
  BY <1>1, <1>2, <1>4, <1>5, <1>9, <1>10, <1>11

\* Change detection: what it closes was live and is told of in the log.
LEMMA DetectionWrites ==
  ASSUME WorkInv, LiveRowIsCurrent, RunChangeDetect
  PROVE  LET d == job.date
             N == bronze[d].DEREG
         IN /\ d \in Day
            /\ current' = current
            /\ \A h \in history : h.cur /\ h.n \in N =>
                   /\ Closed(h, d) \in history'
                   /\ Change(h.n, d, "deregistration") \in changes'
            /\ \A h \in history : ~(h.cur /\ h.n \in N) => h \in history'
            /\ \A h \in history' :
                 \/ h \in history /\ ~(h.cur /\ h.n \in N)
                 \/ \E g \in history : g.cur /\ g.n \in N /\ h = Closed(g, d)
            /\ changes \subseteq changes'
<1> DEFINE d == job.date
           N == bronze[d].DEREG
<1>1. d \in Day
  BY DEF WorkInv, TypeOK, Job
<1>2. history' = (history \ Live(N)) \cup {Closed(h, d) : h \in Live(N)}
  BY DEF RunChangeDetect
<1>3. \A h : h \in Live(N) <=> h \in history /\ h.cur /\ h.n \in N
  BY DEF Live
<1>4. /\ \A h \in history : h.cur /\ h.n \in N => Closed(h, d) \in history'
      /\ \A h \in history : ~(h.cur /\ h.n \in N) => h \in history'
      /\ \A h \in history' :
           \/ h \in history /\ ~(h.cur /\ h.n \in N)
           \/ \E g \in history : g.cur /\ g.n \in N /\ h = Closed(g, d)
  <2> HIDE DEF d, N
  <2> QED
    BY <1>2, <1>3
<1>5. ASSUME NEW h \in history, h.cur, h.n \in N
      PROVE  Change(h.n, d, "deregistration") \in changes'
  <2>1. current[h.n] = h.body /\ h.body \in Body
    BY <1>5 DEF LiveRowIsCurrent, WorkInv, TypeOK, HistoryRow
  <2>2. Change(h.n, d, "deregistration") \in Deregistrations(d)
    BY <1>5, <2>1, RegistryAssumption DEF Deregistrations
  <2>3. QED
    BY <2>2 DEF RunChangeDetect
<1>6. current' = current /\ changes \subseteq changes'
  BY DEF RunChangeDetect
<1>7. QED
  BY <1>1, <1>4, <1>5, <1>6

LEMMA LiveRowStep ==
  ASSUME WorkInv, LiveRowIsCurrent, [Next]_vars
  PROVE  LiveRowIsCurrent'
<1>1. CASE RegistryFrame
  BY <1>1 DEF RegistryFrame, LiveRowIsCurrent
<1>2. CASE RunPgLoad
  <2> DEFINE d == job.date
             N == Changed(d)
  <2>1. /\ d \in Day /\ N \subseteq Aircraft
        /\ \A n \in N : current'[n] = gold[d][n] /\ gold[d][n] \in Body
        /\ \A n \in Aircraft \ N : current'[n] = current[n]
        /\ \A h \in history' :
             \/ h \in history /\ ~(h.cur /\ h.n \in N)
             \/ \E g \in history : g.cur /\ g.n \in N /\ h = Closed(g, d)
             \/ h.n \in N /\ h = NewRow(h.n, d, gold[d][h.n])
    BY <1>2, LoadWrites
  <2> HIDE DEF d, N
  <2>o. \A n \in N : /\ NewRow(n, d, gold[d][n]).n = n /\ NewRow(n, d, gold[d][n]).from = d
                     /\ NewRow(n, d, gold[d][n]).body = gold[d][n]
                     /\ NewRow(n, d, gold[d][n]).to = None /\ NewRow(n, d, gold[d][n]).cur
    <3>1. d \in Day /\ \A n \in N : n \in Aircraft /\ gold[d][n] \in Body
      BY <2>1
    <3>2. QED
      BY <3>1 DEF NewRow
  <2>c. \A g \in history : /\ Closed(g, d).n = g.n /\ Closed(g, d).from = g.from
                           /\ Closed(g, d).to = d /\ ~Closed(g, d).cur
    BY <2>1, ClosedRow DEF WorkInv, TypeOK
  <2>2. ASSUME NEW h \in history', h.cur
        PROVE  \/ h \in history /\ h.n \in Aircraft \ N
               \/ h.n \in N /\ h = NewRow(h.n, d, gold[d][h.n])
    <3>1. ASSUME NEW g \in history, h = Closed(g, d) PROVE FALSE
      BY <2>2, <3>1, <2>c
    <3>2. h \in history => h.n \in Aircraft
      BY DEF WorkInv, TypeOK, HistoryRow
    <3>3. QED
      BY <2>1, <2>2, <3>1, <3>2
  <2>3. ASSUME NEW h \in history', h.cur
        PROVE  h.to = None /\ current'[h.n] = h.body
    <3>1. CASE h \in history /\ h.n \in Aircraft \ N
      BY <2>1, <2>3, <3>1 DEF LiveRowIsCurrent
    <3>2. CASE h.n \in N /\ h = NewRow(h.n, d, gold[d][h.n])
      BY <2>1, <2>o, <3>2
    <3>3. QED
      BY <2>2, <2>3, <3>1, <3>2
  <2>4. ASSUME NEW h \in history', h.cur, NEW g \in history', g.cur, g.n = h.n
        PROVE  g = h
    <3>1. CASE h.n \in N
      BY <2>2, <2>4, <3>1
    <3>2. CASE h.n \notin N
      BY <2>2, <2>4, <3>2 DEF LiveRowIsCurrent
    <3>3. QED
      BY <3>1, <3>2
  <2>5. QED
    BY <2>3, <2>4 DEF LiveRowIsCurrent
<1>3. CASE RunChangeDetect
  <2> DEFINE d == job.date
             N == bronze[d].DEREG
  <2>1. /\ d \in Day
        /\ current' = current
        /\ \A h \in history' :
             \/ h \in history /\ ~(h.cur /\ h.n \in N)
             \/ \E g \in history : g.cur /\ g.n \in N /\ h = Closed(g, d)
    BY <1>3, DetectionWrites
  <2> HIDE DEF d, N
  <2>c. \A g \in history : /\ Closed(g, d).n = g.n /\ Closed(g, d).from = g.from
                           /\ Closed(g, d).to = d /\ ~Closed(g, d).cur
    BY <2>1, ClosedRow DEF WorkInv, TypeOK
  <2>2. \A h \in history' : h.cur => h \in history
    BY <2>1, <2>c
  <2>3. QED
    BY <2>1, <2>2 DEF LiveRowIsCurrent
<1>4. QED
  BY <1>1, <1>2, <1>3, Writers

\* A row that a step closes is followed by the new one, or by a line of the log.
LEMMA EndsStep ==
  ASSUME WorkInv, LiveRowIsCurrent, EndsAreExplained, [Next]_vars
  PROVE  EndsAreExplained'
<1>1. CASE RegistryFrame
  BY <1>1 DEF RegistryFrame, EndsAreExplained
<1>2. CASE RunPgLoad
  <2> DEFINE d == job.date
             N == Changed(d)
  <2>1. /\ d \in Day /\ N \subseteq Aircraft
        /\ \A n \in N : gold[d][n] \in Body
        /\ \A h \in history : h.cur /\ h.n \in N => Closed(h, d) \in history'
        /\ \A h \in history : ~(h.cur /\ h.n \in N) => h \in history'
        /\ \A h \in history' :
             \/ h \in history /\ ~(h.cur /\ h.n \in N)
             \/ \E g \in history : g.cur /\ g.n \in N /\ h = Closed(g, d)
             \/ h.n \in N /\ h = NewRow(h.n, d, gold[d][h.n])
        /\ changes' = changes
    BY <1>2, LoadWrites
  <2>2. \A n \in N : NewRow(n, d, gold[d][n]) \in history'
    BY <1>2 DEF RunPgLoad
  <2> HIDE DEF d, N
  <2>o. \A n \in N : /\ NewRow(n, d, gold[d][n]).n = n /\ NewRow(n, d, gold[d][n]).from = d
                     /\ NewRow(n, d, gold[d][n]).body = gold[d][n]
                     /\ NewRow(n, d, gold[d][n]).to = None /\ NewRow(n, d, gold[d][n]).cur
    <3>1. d \in Day /\ \A n \in N : n \in Aircraft /\ gold[d][n] \in Body
      BY <2>1
    <3>2. QED
      BY <3>1 DEF NewRow
  <2>c. \A g \in history : /\ Closed(g, d).n = g.n /\ Closed(g, d).from = g.from
                           /\ Closed(g, d).to = d /\ ~Closed(g, d).cur
    BY <2>1, ClosedRow DEF WorkInv, TypeOK
  <2>3. \A g \in history : \E k \in history' : k.n = g.n /\ k.from = g.from
    <3> SUFFICES ASSUME NEW g \in history PROVE \E k \in history' : k.n = g.n /\ k.from = g.from
      OBVIOUS
    <3>1. CASE g.cur /\ g.n \in N
      <4>1. Closed(g, d) \in history' /\ Closed(g, d).n = g.n /\ Closed(g, d).from = g.from
        BY <2>1, <2>c, <3>1
      <4>2. QED
        BY <4>1
    <3>2. CASE ~(g.cur /\ g.n \in N)
      BY <2>1, <3>2
    <3>3. QED
      BY <3>1, <3>2
  <2>4. ASSUME NEW h \in history', ~h.cur
        PROVE  \/ \E g \in history' : g.n = h.n /\ g.from = h.to
               \/ Change(h.n, h.to, "deregistration") \in changes'
    <3>1. CASE h \in history
      <4>1. \/ \E g \in history : g.n = h.n /\ g.from = h.to
            \/ Change(h.n, h.to, "deregistration") \in changes
        BY <2>4, <3>1 DEF EndsAreExplained
      <4>2. QED
        BY <2>1, <2>3, <4>1
    <3>2. CASE \E g \in history : g.cur /\ g.n \in N /\ h = Closed(g, d)
      <4>0. PICK g \in history : g.cur /\ g.n \in N /\ h = Closed(g, d)
        BY <3>2
      <4>1. h.n \in N /\ h.to = d
        BY <2>c, <4>0
      <4>2. NewRow(h.n, d, gold[d][h.n]).n = h.n /\ NewRow(h.n, d, gold[d][h.n]).from = d
        BY <2>o, <4>1
      <4>3. QED
        BY <2>2, <4>1, <4>2
    <3>3. CASE h.n \in N /\ h = NewRow(h.n, d, gold[d][h.n])
      BY <2>o, <2>4, <3>3
    <3>4. QED
      BY <2>1, <3>1, <3>2, <3>3
  <2>5. QED
    BY <2>4 DEF EndsAreExplained
<1>3. CASE RunChangeDetect
  <2> DEFINE d == job.date
             N == bronze[d].DEREG
  <2>1. /\ d \in Day
        /\ \A h \in history : h.cur /\ h.n \in N =>
               /\ Closed(h, d) \in history'
               /\ Change(h.n, d, "deregistration") \in changes'
        /\ \A h \in history : ~(h.cur /\ h.n \in N) => h \in history'
        /\ \A h \in history' :
             \/ h \in history /\ ~(h.cur /\ h.n \in N)
             \/ \E g \in history : g.cur /\ g.n \in N /\ h = Closed(g, d)
        /\ changes \subseteq changes'
    BY <1>3, DetectionWrites
  <2> HIDE DEF d, N
  <2>c. \A g \in history : /\ Closed(g, d).n = g.n /\ Closed(g, d).from = g.from
                           /\ Closed(g, d).to = d /\ ~Closed(g, d).cur
    BY <2>1, ClosedRow DEF WorkInv, TypeOK
  <2>2. \A g \in history : \E k \in history' : k.n = g.n /\ k.from = g.from
    <3> SUFFICES ASSUME NEW g \in history PROVE \E k \in history' : k.n = g.n /\ k.from = g.from
      OBVIOUS
    <3>1. CASE g.cur /\ g.n \in N
      <4>1. Closed(g, d) \in history' /\ Closed(g, d).n = g.n /\ Closed(g, d).from = g.from
        BY <2>1, <2>c, <3>1
      <4>2. QED
        BY <4>1
    <3>2. CASE ~(g.cur /\ g.n \in N)
      BY <2>1, <3>2
    <3>3. QED
      BY <3>1, <3>2
  <2>3. ASSUME NEW h \in history', ~h.cur
        PROVE  \/ \E g \in history' : g.n = h.n /\ g.from = h.to
               \/ Change(h.n, h.to, "deregistration") \in changes'
    <3>1. CASE h \in history
      <4>1. \/ \E g \in history : g.n = h.n /\ g.from = h.to
            \/ Change(h.n, h.to, "deregistration") \in changes
        BY <2>3, <3>1 DEF EndsAreExplained
      <4>2. QED
        BY <2>1, <2>2, <4>1
    <3>2. CASE h \notin history
      <4>1. PICK g \in history : g.cur /\ g.n \in N /\ h = Closed(g, d)
        BY <2>1, <3>2
      <4>2. h.n = g.n /\ h.to = d
        BY <2>c, <4>1
      <4>3. QED
        BY <2>1, <4>1, <4>2
    <3>3. QED
      BY <3>1, <3>2
  <2>4. QED
    BY <2>3 DEF EndsAreExplained
<1>4. QED
  BY <1>1, <1>2, <1>3, Writers

\* A day that was loaded is never made again, and only the load of another
\* replaces what the current table says.
LEMMA FreshnessStep ==
  ASSUME WorkInv, FreshnessIsHonest, [Next]_vars
  PROVE  FreshnessIsHonest'
<1>1. CASE RunPgLoad
  <2>1. loadedAs' = job.date /\ gold' = gold
    BY <1>1 DEF RunPgLoad, stageVars
  <2>2. \A n \in Aircraft : gold[job.date][n] # None => current'[n] = gold[job.date][n]
    BY <1>1 DEF RunPgLoad
  <2>3. QED
    BY <2>1, <2>2 DEF FreshnessIsHonest, loadFreshness, lookupAircraft
<1>2. CASE RunGold
  <2>1. current' = current /\ loadedAs' = loadedAs
    BY <1>2 DEF RunGold, registryVars
  <2>2. loadedAs # None => loadedAs # job.date /\ gold'[loadedAs] = gold[loadedAs]
    BY <1>2 DEF RunGold, WorkInv, PhaseInv, StampInv, Phases, TypeOK
  <2>3. QED
    BY <2>1, <2>2 DEF FreshnessIsHonest, loadFreshness, lookupAircraft
<1>3. CASE UNCHANGED <<current, loadedAs, gold>>
  BY <1>3 DEF FreshnessIsHonest, loadFreshness, lookupAircraft
<1>4. [Next]_vars => RunPgLoad \/ RunGold \/ UNCHANGED <<current, loadedAs, gold>>
  <2>1. Ingest => UNCHANGED <<current, loadedAs, gold>>
    BY DEF Ingest, StartRun, SkipIngest, Download, StageMaster, StageDereg, StageFile,
       UpsertManifest, FinishRun, registryVars, stageVars
  <2>2. Transform => RunPgLoad \/ RunGold \/ UNCHANGED <<current, loadedAs, gold>>
    BY DEF Transform, RestartTransform, BeginTransform, RunBronze, StampBronze,
       StampGold, RunChangeDetect, NoRawFiles, EndTransform, Stops, registryVars, stageVars
  <2>3. World => UNCHANGED <<current, loadedAs, gold>>
    BY DEF World, NextDay, Fails, Stops, registryVars, stageVars
  <2>4. QED
    BY <2>1, <2>2, <2>3 DEF Next, vars, registryVars, stageVars
<1>5. QED
  BY <1>1, <1>2, <1>3, <1>4

\* The invariant is inductive.
LEMMA RegistryInvariant == Spec => []RegistryInv
<1>1. Init => RegistryInv
  BY WorkInit DEF WorkInv, RegistryInv, Init, LiveRowIsCurrent, EndsAreExplained,
     FreshnessIsHonest, loadFreshness
<1>2. RegistryInv /\ [Next]_vars => RegistryInv'
  BY WorkStep, LiveRowStep, EndsStep, FreshnessStep DEF RegistryInv, WorkInv
<1>3. QED
  BY <1>1, <1>2, PTL DEF Spec

\* At most one history row of an aircraft is live, and it is the row of the current
\* table: load and change detection never let the two copies part.
THEOREM CopiesAgree == Spec => []LiveRowIsCurrent
  BY RegistryInvariant, PTL DEF RegistryInv

\* History ends for a reason: another row begins there, or the log has the
\* deregistration; wherever the pipeline fails, in whatever order it takes days.
THEOREM Explained == Spec => []EndsAreExplained
  BY RegistryInvariant, PTL DEF RegistryInv

\* What a lookup shows beside a date is what the snapshot of that date says.
THEOREM Honest == Spec => []FreshnessIsHonest
  BY RegistryInvariant, PTL DEF RegistryInv

-----------------------------------------------------------------------------
(* Days in order.                                                          *)

\* Changes are detected once, after the load.
DoneInv ==
    /\ \A d \in Day : Stamped(d, "changes") => Stamped(d, "pg")
    /\ pc = "detect" => Stamped(job.date, "pg")
    /\ pc \in Phases => ~Stamped(job.date, "changes")

\* Rows begin and end on days that were loaded; an aircraft of the current table
\* has a live row unless a DEREG file closed it.
DaysInv ==
    /\ \A h \in history : /\ Stamped(h.from, "pg")
                          /\ ~h.cur => h.to \in Day /\ Stamped(h.to, "pg")
    /\ \A n \in Aircraft : current[n] # None =>
           \/ \E h \in history : h.cur /\ h.n = n
           \/ \E e \in Day : Stamped(e, "changes") /\ n \in bronze[e].DEREG

\* With the days in order the rows of an aircraft follow one another, and only
\* change detection ends a row on the day it began.
Follows(h, g) == ~g.cur /\ g.to <= h.from

OrderInv ==
    straight =>
        /\ \A h \in history : ~h.cur =>
               h.from <= h.to /\ (h.from = h.to => Stamped(h.to, "changes"))
        /\ \A g \in history, h \in history :
               g.n = h.n /\ g # h => Follows(h, g) \/ Follows(g, h)

\* AsOfIsSnapshot's hypothesis, and the row it asks for.
Spoken(d, n) ==
    /\ Stamped(d, "pg") /\ gold[d][n] # None
    /\ \A e \in 1..d : Stamped(e, "changes") => n \notin bronze[e].DEREG

Holds(h, d, n) ==
    h.n = n /\ h.from <= d /\ (h.cur \/ h.to > d) /\ h.body = gold[d][n]

RowInv ==
    straight => \A d \in Day, n \in Aircraft :
        Spoken(d, n) => \E h \in history : Holds(h, d, n)

\* A stamp is what PutStamp adds to it.
LEMMA Stamps ==
  ASSUME WorkInv, pc \in Phases, NEW s \in Stamp, PutStamp(s)
  PROVE  \A d \in Day, t \in Stamp :
            Stamped(d, t)' <=> Stamped(d, t) \/ (d = job.date /\ t = s)
<1> SUFFICES ASSUME NEW d \in Day, NEW t \in Stamp
             PROVE  manifest'[d] # None /\ t \in manifest'[d] <=>
                       (manifest[d] # None /\ t \in manifest[d]) \/ (d = job.date /\ t = s)
  BY DEF Stamped
<1>1. /\ manifest'[job.date] = manifest[job.date] \cup {s}
      /\ manifest'[job.date] \in ManifestRow
      /\ \A e \in Day \ {job.date} : manifest'[e] = manifest[e]
  BY Stamping
<1>2. manifest[job.date] # None /\ manifest'[job.date] # None
  BY <1>1, NoRowAssumption DEF WorkInv, PhaseInv
<1>3. CASE d = job.date
  BY <1>1, <1>2, <1>3
<1>4. CASE d # job.date
  BY <1>1, <1>4
<1>5. QED
  BY <1>3, <1>4

\* A step that neither loads nor detects changes touches nothing of a loaded day.
QuietStep ==
    /\ RegistryFrame /\ straight' = straight
    /\ \A d \in Day, s \in {"pg", "changes"} : Stamped(d, s)' <=> Stamped(d, s)
    /\ \A d \in Day : Stamped(d, "pg") => bronze'[d] = bronze[d] /\ gold'[d] = gold[d]

LEMMA QuietSteps ==
  ASSUME WorkInv, [Next]_vars
  PROVE  QuietStep \/ RunPgLoad \/ RunChangeDetect
<1> USE DEF registryVars, stageVars, runVars
<1>0. job.date \in Day
  BY DEF WorkInv, TypeOK, Job
<1>1. ASSUME UNCHANGED <<current, history, changes, straight, manifest, bronze, gold>>
      PROVE  QuietStep
  BY <1>1 DEF QuietStep, RegistryFrame, Stamped
<1>2. CASE UpsertManifest
  <2>1. manifest' = [manifest EXCEPT ![job.date] = IF @ = None THEN {} ELSE @]
        /\ UNCHANGED <<current, history, changes, straight, bronze, gold>>
    BY <1>2 DEF UpsertManifest
  <2>2. ASSUME NEW d \in Day, NEW s \in {"pg", "changes"}
        PROVE  manifest'[d] # None /\ s \in manifest'[d]
                 <=> manifest[d] # None /\ s \in manifest[d]
    <3>1. manifest'[d] = IF d = job.date /\ manifest[d] = None THEN {} ELSE manifest[d]
      BY <2>1 DEF WorkInv, TypeOK
    <3>2. QED
      BY <3>1
  <2>3. QED
    BY <2>1, <2>2 DEF QuietStep, RegistryFrame, Stamped
<1>3. ASSUME NEW rejected \in [File -> SUBSET Aircraft], RunBronze(rejected) PROVE QuietStep
  <2>1. ~Stamped(job.date, "pg")
    BY <1>3 DEF RunBronze, WorkInv, PhaseInv, Phases
  <2>2. \A d \in Day \ {job.date} : bronze'[d] = bronze[d]
    BY <1>3 DEF RunBronze, WorkInv, TypeOK
  <2>3. UNCHANGED <<current, history, changes, straight, manifest, gold>>
    BY <1>3 DEF RunBronze
  <2>4. QED
    BY <2>1, <2>2, <2>3 DEF QuietStep, RegistryFrame, Stamped
<1>4. CASE RunGold
  <2>1. ~Stamped(job.date, "pg")
    BY <1>4 DEF RunGold, WorkInv, PhaseInv, Phases
  <2>2. \A d \in Day \ {job.date} : gold'[d] = gold[d]
    BY <1>4 DEF RunGold, WorkInv, TypeOK
  <2>3. UNCHANGED <<current, history, changes, straight, manifest, bronze>>
    BY <1>4 DEF RunGold
  <2>4. QED
    BY <2>1, <2>2, <2>3 DEF QuietStep, RegistryFrame, Stamped
<1>5. CASE StampBronze \/ StampGold
  <2>1. PICK s \in {"bronze", "gold"} : PutStamp(s)
    BY <1>5 DEF StampBronze, StampGold
  <2>2. pc \in Phases /\ s \in Stamp
    BY <1>5, <2>1 DEF StampBronze, StampGold, Phases, Stamp
  <2>3. \A d \in Day, t \in Stamp :
            Stamped(d, t)' <=> Stamped(d, t) \/ (d = job.date /\ t = s)
    BY <2>1, <2>2, Stamps
  <2>4. \A d \in Day, t \in {"pg", "changes"} : Stamped(d, t)' <=> Stamped(d, t)
    BY <2>3 DEF Stamp
  <2>5. UNCHANGED <<current, history, changes, straight, bronze, gold>>
    BY <1>5 DEF StampBronze, StampGold
  <2>6. QED
    BY <2>4, <2>5 DEF QuietStep, RegistryFrame
<1>6. CASE Ingest
  BY <1>1, <1>2, <1>6 DEF Ingest, StartRun, SkipIngest, Download, StageMaster, StageDereg,
     StageFile, FinishRun
<1>7. CASE Transform
  BY <1>1, <1>3, <1>4, <1>5, <1>7 DEF Transform, RestartTransform, BeginTransform,
     NoRawFiles, EndTransform, Stops
<1>8. CASE World
  BY <1>1, <1>8 DEF World, NextDay, Fails, Stops
<1>9. CASE UNCHANGED vars
  BY <1>1, <1>9 DEF vars
<1>10. QED
  BY <1>6, <1>7, <1>8, <1>9 DEF Next

\* The day that is loaded.
LEMMA LoadDay ==
  ASSUME WorkInv, DoneInv, RunPgLoad
  PROVE  /\ job.date \in Day /\ UNCHANGED <<bronze, gold, changes>>
         /\ ~Stamped(job.date, "pg") /\ ~Stamped(job.date, "changes")
         /\ \A d \in Day : /\ Stamped(d, "pg")' <=> Stamped(d, "pg") \/ d = job.date
                           /\ Stamped(d, "changes")' <=> Stamped(d, "changes")
         /\ straight' => straight
         /\ straight' => \A d \in Day : Stamped(d, "pg") => d < job.date
<1>1. pc \in Phases /\ pc # "detect" /\ PutStamp("pg")
  BY DEF RunPgLoad, Phases
<1>2. \A d \in Day, t \in Stamp :
            Stamped(d, t)' <=> Stamped(d, t) \/ (d = job.date /\ t = "pg")
  BY <1>1, Stamps DEF Stamp
<1>3. job.date \in Day /\ ~Stamped(job.date, "pg") /\ ~Stamped(job.date, "changes")
  BY <1>1 DEF WorkInv, PhaseInv, TypeOK, Job, DoneInv
<1>4. straight' => straight /\ Latest(job.date)
  BY DEF RunPgLoad
<1>5. ASSUME straight', NEW d \in Day, Stamped(d, "pg") PROVE d < job.date
  BY <1>3, <1>4, <1>5, RegistryAssumption DEF Latest, Day
<1>6. QED
  BY <1>2, <1>3, <1>4, <1>5 DEF Stamp, RunPgLoad, stageVars

\* The day whose changes are detected.
LEMMA DetectDay ==
  ASSUME WorkInv, DoneInv, RunChangeDetect
  PROVE  /\ job.date \in Day /\ UNCHANGED <<bronze, gold, current>>
         /\ Stamped(job.date, "pg") /\ ~Stamped(job.date, "changes")
         /\ \A d \in Day : /\ Stamped(d, "pg")' <=> Stamped(d, "pg")
                           /\ Stamped(d, "changes")' <=> Stamped(d, "changes") \/ d = job.date
         /\ straight' => straight
         /\ straight' => \A d \in Day : Stamped(d, "pg") => d <= job.date
<1>1. pc \in Phases /\ pc = "detect" /\ PutStamp("changes")
  BY DEF RunChangeDetect, Phases
<1>2. \A d \in Day, t \in Stamp :
            Stamped(d, t)' <=> Stamped(d, t) \/ (d = job.date /\ t = "changes")
  BY <1>1, Stamps DEF Stamp
<1>3. job.date \in Day /\ Stamped(job.date, "pg") /\ ~Stamped(job.date, "changes")
  BY <1>1 DEF WorkInv, TypeOK, Job, DoneInv
<1>4. straight' => straight /\ Latest(job.date)
  BY DEF RunChangeDetect
<1>5. ASSUME straight', NEW d \in Day, Stamped(d, "pg") PROVE d <= job.date
  BY <1>3, <1>4, <1>5, RegistryAssumption DEF Latest, Day
<1>6. QED
  BY <1>2, <1>3, <1>4, <1>5 DEF Stamp, RunChangeDetect

LEMMA DoneStep ==
  ASSUME WorkInv, DoneInv, [Next]_vars
  PROVE  DoneInv'
<1> USE DEF registryVars, stageVars, runVars
<1>1. CASE RunPgLoad
  <2>1. pc' = "detect" /\ job' = job
    BY <1>1 DEF RunPgLoad
  <2>2. QED
    BY <1>1, <2>1, LoadDay DEF DoneInv
<1>2. CASE RunChangeDetect
  <2>1. pc' = "idle"
    BY <1>2 DEF RunChangeDetect
  <2>2. QED
    BY <1>2, <2>1, DetectDay DEF DoneInv, Phases
<1>3. CASE QuietStep /\ ~RunPgLoad /\ ~RunChangeDetect
  <2>0. job.date \in Day
    BY DEF WorkInv, TypeOK, Job
  <2>1. \A d \in Day : Stamped(d, "changes")' => Stamped(d, "pg")'
    BY <1>3 DEF QuietStep, DoneInv
  <2>2. /\ pc' \in Phases => job'.date \in Day /\ ~Stamped(job'.date, "changes")
        /\ pc' = "detect" => job'.date \in Day /\ Stamped(job'.date, "pg")
    <3>1. CASE UNCHANGED <<pc, job>>
      BY <2>0, <3>1 DEF DoneInv, Phases
    <3>2. CASE pc' \notin Phases
      BY <3>2 DEF Phases
    <3>3. CASE BeginTransform
      BY <2>0, <3>3 DEF BeginTransform
    <3>4. CASE pc \in Phases /\ pc' \in Phases \ {"detect"} /\ job' = job
      BY <2>0, <3>4 DEF DoneInv
    <3>5. CASE Ingest
      BY <3>2, <3>5 DEF Ingest, StartRun, SkipIngest, Download, StageMaster, StageDereg,
         StageFile, UpsertManifest, FinishRun, Phases
    <3>6. CASE Transform /\ ~RunPgLoad /\ ~RunChangeDetect
      BY <3>2, <3>3, <3>4, <3>6 DEF Transform, RestartTransform, RunBronze, StampBronze,
         RunGold, StampGold, NoRawFiles, EndTransform, Stops, Phases
    <3>7. CASE World
      BY <3>1, <3>2, <3>7 DEF World, NextDay, Fails, Stops, Phases
    <3>8. CASE UNCHANGED vars
      BY <3>1, <3>8 DEF vars
    <3>9. QED
      BY <1>3, <3>5, <3>6, <3>7, <3>8 DEF Next
  <2>3. QED
    BY <1>3, <2>1, <2>2 DEF QuietStep, DoneInv, Stamped
<1>4. QED
  BY <1>1, <1>2, <1>3, QuietSteps

\* History after the load: a row is kept, or was live and is closed, or is new.
LEMMA LoadRows ==
  ASSUME WorkInv, RunPgLoad
  PROVE  LET d == job.date
             N == Changed(d)
         IN /\ \A n \in N : \E k \in history' : k.n = n /\ k.from = d /\ k.cur
                                                /\ k.body = gold[d][n]
            /\ \A g \in history : ~(g.cur /\ g.n \in N) => g \in history'
            /\ \A g \in history : g.cur /\ g.n \in N =>
                  \E k \in history' : k.n = g.n /\ k.from = g.from /\ k.body = g.body
                                      /\ ~k.cur /\ k.to = d
            /\ \A k \in history' :
                  \/ k \in history /\ ~(k.cur /\ k.n \in N)
                  \/ \E g \in history : /\ g.cur /\ g.n \in N /\ k = Closed(g, d)
                                        /\ k.n = g.n /\ k.from = g.from /\ k.body = g.body
                                        /\ ~k.cur /\ k.to = d
                  \/ k.n \in N /\ k = NewRow(k.n, d, gold[d][k.n]) /\ k.from = d /\ k.cur
<1> DEFINE d == job.date
           N == Changed(d)
<1>1. /\ d \in Day /\ N \subseteq Aircraft
      /\ \A n \in N : gold[d][n] \in Body
      /\ \A h \in history : h.cur /\ h.n \in N => Closed(h, d) \in history'
      /\ \A h \in history : ~(h.cur /\ h.n \in N) => h \in history'
      /\ \A h \in history' :
           \/ h \in history /\ ~(h.cur /\ h.n \in N)
           \/ \E g \in history : g.cur /\ g.n \in N /\ h = Closed(g, d)
           \/ h.n \in N /\ h = NewRow(h.n, d, gold[d][h.n])
  BY LoadWrites
<1>2. \A n \in N : NewRow(n, d, gold[d][n]) \in history'
  BY DEF RunPgLoad
<1> HIDE DEF d, N
<1>3. \A n \in N : /\ NewRow(n, d, gold[d][n]).n = n /\ NewRow(n, d, gold[d][n]).from = d
                   /\ NewRow(n, d, gold[d][n]).body = gold[d][n]
                   /\ NewRow(n, d, gold[d][n]).cur
  BY DEF NewRow
<1>4. \A g \in history : /\ Closed(g, d).n = g.n /\ Closed(g, d).from = g.from
                         /\ Closed(g, d).body = g.body
                         /\ Closed(g, d).to = d /\ ~Closed(g, d).cur
  BY <1>1, ClosedRow DEF WorkInv, TypeOK
<1>5. \A n \in N : \E k \in history' : k.n = n /\ k.from = d /\ k.cur /\ k.body = gold[d][n]
  BY <1>2, <1>3
<1>6. \A g \in history : g.cur /\ g.n \in N =>
         \E k \in history' : k.n = g.n /\ k.from = g.from /\ k.body = g.body
                             /\ ~k.cur /\ k.to = d
  BY <1>1, <1>4
<1>7. \A k \in history' :
         \/ k \in history /\ ~(k.cur /\ k.n \in N)
         \/ \E g \in history : /\ g.cur /\ g.n \in N /\ k = Closed(g, d)
                               /\ k.n = g.n /\ k.from = g.from /\ k.body = g.body
                               /\ ~k.cur /\ k.to = d
         \/ k.n \in N /\ k = NewRow(k.n, d, gold[d][k.n]) /\ k.from = d /\ k.cur
  BY <1>1, <1>3, <1>4
<1>8. QED
  BY <1>1, <1>5, <1>6, <1>7 DEF d, N

\* History after change detection: a row is kept, or was live and is closed.
LEMMA DetectionRows ==
  ASSUME WorkInv, LiveRowIsCurrent, RunChangeDetect
  PROVE  LET d == job.date
             N == bronze[d].DEREG
         IN /\ \A g \in history : ~(g.cur /\ g.n \in N) => g \in history'
            /\ \A g \in history : g.cur /\ g.n \in N =>
                  \E k \in history' : k.n = g.n /\ k.from = g.from /\ k.body = g.body
                                      /\ ~k.cur /\ k.to = d
            /\ \A k \in history' :
                  \/ k \in history /\ ~(k.cur /\ k.n \in N)
                  \/ \E g \in history : /\ g.cur /\ g.n \in N /\ k = Closed(g, d)
                                        /\ k.n = g.n /\ k.from = g.from /\ k.body = g.body
                                        /\ ~k.cur /\ k.to = d
<1> DEFINE d == job.date
           N == bronze[d].DEREG
<1>1. /\ d \in Day
      /\ \A h \in history : h.cur /\ h.n \in N => Closed(h, d) \in history'
      /\ \A h \in history : ~(h.cur /\ h.n \in N) => h \in history'
      /\ \A h \in history' :
           \/ h \in history /\ ~(h.cur /\ h.n \in N)
           \/ \E g \in history : g.cur /\ g.n \in N /\ h = Closed(g, d)
  BY DetectionWrites
<1> HIDE DEF d, N
<1>2. \A g \in history : /\ Closed(g, d).n = g.n /\ Closed(g, d).from = g.from
                         /\ Closed(g, d).body = g.body
                         /\ Closed(g, d).to = d /\ ~Closed(g, d).cur
  BY <1>1, ClosedRow DEF WorkInv, TypeOK
<1>3. \A g \in history : g.cur /\ g.n \in N =>
         \E k \in history' : k.n = g.n /\ k.from = g.from /\ k.body = g.body
                             /\ ~k.cur /\ k.to = d
  BY <1>1, <1>2
<1>4. \A k \in history' :
         \/ k \in history /\ ~(k.cur /\ k.n \in N)
         \/ \E g \in history : /\ g.cur /\ g.n \in N /\ k = Closed(g, d)
                               /\ k.n = g.n /\ k.from = g.from /\ k.body = g.body
                               /\ ~k.cur /\ k.to = d
  BY <1>1, <1>2
<1>5. QED
  BY <1>1, <1>3, <1>4 DEF d, N

\* The hypotheses of the steps below.
DatedInv == WorkInv /\ LiveRowIsCurrent /\ DoneInv /\ DaysInv

LEMMA RowTypes ==
  ASSUME DatedInv
  PROVE  \A h \in history : /\ h.n \in Aircraft /\ h.from \in Day
                            /\ h.from \in Nat /\ h.cur \in BOOLEAN
                            /\ ~h.cur => h.to \in Day /\ h.to \in Nat /\ h.to # None
                            /\ h.cur => h.to = None
<1>1. \A d \in Day : d \in Nat /\ d # None
  BY RegistryAssumption DEF Day
<1>2. QED
  BY <1>1 DEF DatedInv, WorkInv, TypeOK, HistoryRow, DaysInv, LiveRowIsCurrent

LEMMA DaysStep ==
  ASSUME DatedInv, [Next]_vars
  PROVE  DaysInv'
<1> USE DEF DatedInv
<1>0. \A h \in history : h.n \in Aircraft /\ h.from \in Day
  BY RowTypes
<1>1. CASE QuietStep
  <2>1. \A d \in Day : bronze[d] = bronze'[d] \/ ~Stamped(d, "changes")
    BY <1>1 DEF QuietStep, DoneInv
  <2>2. QED
    BY <1>0, <1>1, <2>1 DEF QuietStep, RegistryFrame, DaysInv
<1>2. CASE RunPgLoad
  <2> DEFINE d == job.date
             N == Changed(d)
  <2>1. /\ \A n \in N : \E k \in history' : k.n = n /\ k.cur
        /\ \A g \in history : ~(g.cur /\ g.n \in N) => g \in history'
        /\ \A k \in history' :
              \/ k \in history
              \/ \E g \in history : k.from = g.from /\ ~k.cur /\ k.to = d
              \/ k.from = d /\ k.cur
    BY <1>2, LoadRows
  <2>2. \A n \in Aircraft \ N : current'[n] = current[n]
    BY <1>2, LoadWrites
  <2>3. /\ d \in Day /\ bronze' = bronze
        /\ \A e \in Day : /\ Stamped(e, "pg")' <=> Stamped(e, "pg") \/ e = d
                          /\ Stamped(e, "changes")' <=> Stamped(e, "changes")
    BY <1>2, LoadDay
  <2> HIDE DEF d, N
  <2>4. ASSUME NEW k \in history'
        PROVE  Stamped(k.from, "pg")' /\ (~k.cur => k.to \in Day /\ Stamped(k.to, "pg")')
    BY <1>0, <2>1, <2>3 DEF DaysInv
  <2>5. ASSUME NEW n \in Aircraft, current'[n] # None
        PROVE  \/ \E h \in history' : h.cur /\ h.n = n
               \/ \E e \in Day : Stamped(e, "changes")' /\ n \in bronze'[e].DEREG
    <3>1. CASE n \in N
      BY <2>1, <3>1
    <3>2. CASE n \notin N
      BY <2>1, <2>2, <2>3, <2>5, <3>2 DEF DaysInv
    <3>3. QED
      BY <3>1, <3>2
  <2>6. QED
    BY <2>4, <2>5 DEF DaysInv
<1>3. CASE RunChangeDetect
  <2> DEFINE d == job.date
             N == bronze[d].DEREG
  <2>1. /\ \A g \in history : ~(g.cur /\ g.n \in N) => g \in history'
        /\ \A k \in history' :
              \/ k \in history
              \/ \E g \in history : k.from = g.from /\ ~k.cur /\ k.to = d
    BY <1>3, DetectionRows
  <2>2. /\ d \in Day /\ bronze' = bronze /\ current' = current /\ Stamped(d, "pg")
        /\ \A e \in Day : /\ Stamped(e, "pg")' <=> Stamped(e, "pg")
                          /\ Stamped(e, "changes")' <=> Stamped(e, "changes") \/ e = d
    BY <1>3, DetectDay
  <2>3. N = bronze'[d].DEREG
    BY <2>2
  <2> HIDE DEF d, N
  <2>4. ASSUME NEW k \in history'
        PROVE  Stamped(k.from, "pg")' /\ (~k.cur => k.to \in Day /\ Stamped(k.to, "pg")')
    BY <1>0, <2>1, <2>2 DEF DaysInv
  <2>5. ASSUME NEW n \in Aircraft, current'[n] # None
        PROVE  \/ \E h \in history' : h.cur /\ h.n = n
               \/ \E e \in Day : Stamped(e, "changes")' /\ n \in bronze'[e].DEREG
    <3>1. CASE n \in N
      BY <2>2, <2>3, <3>1
    <3>2. CASE n \notin N
      BY <2>1, <2>2, <2>5, <3>2 DEF DaysInv
    <3>3. QED
      BY <3>1, <3>2
  <2>6. QED
    BY <2>4, <2>5 DEF DaysInv
<1>4. QED
  BY <1>1, <1>2, <1>3, QuietSteps

\* Rows that follow one another still do when live rows are closed on a day on or
\* after which none of them begins.
LEMMA OrderStep ==
  ASSUME DatedInv, OrderInv, [Next]_vars
  PROVE  OrderInv'
<1> SUFFICES ASSUME straight'
             PROVE  /\ \A h \in history' : ~h.cur =>
                          h.from <= h.to /\ (h.from = h.to => Stamped(h.to, "changes")')
                    /\ \A g \in history', h \in history' :
                          g.n = h.n /\ g # h => Follows(h, g) \/ Follows(g, h)
  BY DEF OrderInv, Follows
<1>0. \A h \in history : /\ h.from \in Day /\ h.from \in Nat /\ h.cur \in BOOLEAN
                         /\ ~h.cur => h.to \in Day /\ h.to \in Nat
                         /\ Stamped(h.from, "pg")
                         /\ ~h.cur => Stamped(h.to, "pg")
  BY RowTypes DEF DatedInv, DaysInv
<1>1. CASE QuietStep
  <2>1. straight /\ history' = history
        /\ \A d \in Day : Stamped(d, "changes")' <=> Stamped(d, "changes")
    BY <1>1 DEF QuietStep, RegistryFrame
  <2>2. QED
    BY <1>0, <2>1 DEF OrderInv
<1>2. CASE RunPgLoad
  <2> DEFINE d == job.date
             N == Changed(d)
  <2>1. /\ \A k \in history' :
              \/ k \in history /\ ~(k.cur /\ k.n \in N)
              \/ \E g \in history : /\ g.cur /\ g.n \in N /\ k = Closed(g, d)
                                    /\ k.n = g.n /\ k.from = g.from
                                    /\ ~k.cur /\ k.to = d
              \/ k.n \in N /\ k = NewRow(k.n, d, gold[d][k.n]) /\ k.from = d /\ k.cur
    BY <1>2, LoadRows DEF DatedInv
  <2>2. /\ d \in Day /\ straight
        /\ \A e \in Day : /\ Stamped(e, "changes")' <=> Stamped(e, "changes")
                          /\ Stamped(e, "pg") => e < d
    BY <1>2, LoadDay DEF DatedInv
  <2>3. d \in Nat
    BY <2>2 DEF Day
  <2> HIDE DEF d, N
  <2>4. \A h \in history : h.from < d /\ (~h.cur => h.to < d)
    BY <1>0, <2>2
  <2>5. ASSUME NEW h \in history', ~h.cur
        PROVE  h.from <= h.to /\ (h.from = h.to => Stamped(h.to, "changes")')
    <3>1. CASE h \in history
      BY <1>0, <2>2, <2>5, <3>1 DEF OrderInv
    <3>2. CASE h.from < d /\ h.to = d
      <4>1. h.from \in Nat
        BY <1>0, <2>1, <2>3, <2>5
      <4>2. QED
        BY <2>3, <3>2, <4>1
    <3>3. QED
      BY <2>1, <2>4, <2>5, <3>1, <3>2
  <2>6. ASSUME NEW g \in history', NEW h \in history', g.n = h.n, g # h
        PROVE  Follows(h, g) \/ Follows(g, h)
    <3>1. ASSUME NEW a \in history', NEW b \in history', a.n = b.n, a # b,
                 a.n \in N, a = NewRow(a.n, d, gold[d][a.n]), a.from = d
          PROVE  Follows(a, b)
      <4>1. CASE b \in history /\ ~(b.cur /\ b.n \in N)
        BY <1>0, <2>3, <2>4, <3>1, <4>1 DEF Follows
      <4>2. CASE ~b.cur /\ b.to = d
        BY <2>3, <3>1, <4>2 DEF Follows
      <4>3. CASE b = NewRow(b.n, d, gold[d][b.n])
        BY <3>1, <4>3
      <4>4. QED
        BY <2>1, <4>1, <4>2, <4>3
    <3>2. ASSUME NEW a \in history, NEW b \in history,
                 g = a \/ (a.cur /\ g = Closed(a, d) /\ g.n = a.n /\ g.from = a.from),
                 h = b \/ (b.cur /\ h = Closed(b, d) /\ h.n = b.n /\ h.from = b.from),
                 a # b
          PROVE  Follows(h, g) \/ Follows(g, h)
      <4>1. a.n = b.n
        BY <2>6, <3>2
      <4>2. Follows(a, b) \/ Follows(b, a)
        BY <2>2, <3>2, <4>1 DEF OrderInv
      <4>3. Follows(a, b) => Follows(g, h)
        BY <3>2 DEF Follows
      <4>4. Follows(b, a) => Follows(h, g)
        BY <3>2 DEF Follows
      <4>5. QED
        BY <4>2, <4>3, <4>4
    <3>3. CASE (\E a \in history : \/ g = a /\ ~(a.cur /\ a.n \in N)
                                   \/ a.cur /\ a.n \in N /\ g = Closed(a, d) /\ g.n = a.n
                                      /\ g.from = a.from)
               /\ (\E b \in history : \/ h = b /\ ~(b.cur /\ b.n \in N)
                                      \/ b.cur /\ b.n \in N /\ h = Closed(b, d) /\ h.n = b.n
                                         /\ h.from = b.from)
      <4>1. PICK a \in history : \/ g = a /\ ~(a.cur /\ a.n \in N)
                                 \/ a.cur /\ a.n \in N /\ g = Closed(a, d) /\ g.n = a.n
                                    /\ g.from = a.from
        BY <3>3
      <4>2. PICK b \in history : \/ h = b /\ ~(b.cur /\ b.n \in N)
                                 \/ b.cur /\ b.n \in N /\ h = Closed(b, d) /\ h.n = b.n
                                    /\ h.from = b.from
        BY <3>3
      <4>3. a # b
        BY <2>6, <4>1, <4>2
      <4>4. QED
        BY <3>2, <4>1, <4>2, <4>3
    <3>4. CASE g.n \in N /\ g = NewRow(g.n, d, gold[d][g.n]) /\ g.from = d
      BY <2>6, <3>1, <3>4
    <3>5. CASE h.n \in N /\ h = NewRow(h.n, d, gold[d][h.n]) /\ h.from = d
      BY <2>6, <3>1, <3>5
    <3>6. QED
      BY <2>1, <3>3, <3>4, <3>5
  <2>7. QED
    BY <2>5, <2>6
<1>3. CASE RunChangeDetect
  <2> DEFINE d == job.date
             N == bronze[d].DEREG
  <2>1. /\ \A k \in history' :
              \/ k \in history /\ ~(k.cur /\ k.n \in N)
              \/ \E g \in history : /\ g.cur /\ g.n \in N /\ k = Closed(g, d)
                                    /\ k.n = g.n /\ k.from = g.from
                                    /\ ~k.cur /\ k.to = d
    BY <1>3, DetectionRows DEF DatedInv
  <2>2. /\ d \in Day /\ straight
        /\ \A e \in Day : /\ Stamped(e, "changes")' <=> Stamped(e, "changes") \/ e = d
                          /\ Stamped(e, "pg") => e <= d
    BY <1>3, DetectDay DEF DatedInv
  <2>3. d \in Nat
    BY <2>2 DEF Day
  <2> HIDE DEF d, N
  <2>4. \A h \in history : h.from <= d
    BY <1>0, <2>2
  <2>5. ASSUME NEW h \in history', ~h.cur
        PROVE  h.from <= h.to /\ (h.from = h.to => Stamped(h.to, "changes")')
    <3>1. CASE h \in history
      BY <1>0, <2>2, <2>5, <3>1 DEF OrderInv
    <3>2. CASE h.from <= d /\ h.to = d
      BY <2>2, <3>2
    <3>3. QED
      BY <2>1, <2>4, <2>5, <3>1, <3>2
  <2>6. ASSUME NEW g \in history', NEW h \in history', g.n = h.n, g # h
        PROVE  Follows(h, g) \/ Follows(g, h)
    <3>1. PICK a \in history : \/ g = a /\ ~(a.cur /\ a.n \in N)
                               \/ a.cur /\ a.n \in N /\ g = Closed(a, d) /\ g.n = a.n
                                  /\ g.from = a.from
      BY <2>1
    <3>2. PICK b \in history : \/ h = b /\ ~(b.cur /\ b.n \in N)
                               \/ b.cur /\ b.n \in N /\ h = Closed(b, d) /\ h.n = b.n
                                  /\ h.from = b.from
      BY <2>1
    <3>3. a # b /\ a.n = b.n
      BY <2>6, <3>1, <3>2
    <3>4. Follows(a, b) \/ Follows(b, a)
      BY <2>2, <3>3 DEF OrderInv
    <3>5. Follows(a, b) => Follows(g, h)
      BY <3>1, <3>2 DEF Follows
    <3>6. Follows(b, a) => Follows(h, g)
      BY <3>1, <3>2 DEF Follows
    <3>7. QED
      BY <3>4, <3>5, <3>6
  <2>7. QED
    BY <2>5, <2>6
<1>4. QED
  BY <1>1, <1>2, <1>3, QuietSteps DEF DatedInv

\* The row that a loaded day left is there as long as the days are worked on in order.
LEMMA RowStep ==
  ASSUME DatedInv, RowInv, [Next]_vars
  PROVE  RowInv'
<1> SUFFICES ASSUME straight', NEW d \in Day, NEW n \in Aircraft, Spoken(d, n)'
             PROVE  \E h \in history' : h.n = n /\ h.from <= d /\ (h.cur \/ h.to > d)
                                        /\ h.body = gold'[d][n]
  BY DEF RowInv, Holds
<1>0. \A h \in history : /\ h.n \in Aircraft /\ h.from \in Day /\ h.from \in Nat
                         /\ h.cur \in BOOLEAN /\ Stamped(h.from, "pg")
  BY RowTypes DEF DatedInv, DaysInv
<1>d. d \in Nat /\ \A e \in Nat : e \in Day /\ e <= d => e \in 1..d
  BY DEF Day
<1>e. 1..d \subseteq Day
  BY RegistryAssumption DEF Day
<1>1. CASE QuietStep
  <2>1. /\ straight /\ history' = history /\ Stamped(d, "pg")
        /\ gold'[d] = gold[d]
        /\ \A e \in Day : Stamped(e, "changes")' <=> Stamped(e, "changes")
        /\ \A e \in Day : Stamped(e, "changes") => bronze'[e] = bronze[e]
    BY <1>1 DEF QuietStep, RegistryFrame, Spoken, DatedInv, DoneInv
  <2>2. Spoken(d, n)
    BY <1>e, <2>1 DEF Spoken
  <2>3. QED
    BY <2>1, <2>2 DEF RowInv, Holds
<1>2. CASE RunPgLoad
  <2> DEFINE d0 == job.date
             N == Changed(d0)
  <2>1. /\ \A m \in N : \E k \in history' : k.n = m /\ k.from = d0 /\ k.cur
                                            /\ k.body = gold[d0][m]
        /\ \A g \in history : ~(g.cur /\ g.n \in N) => g \in history'
        /\ \A g \in history : g.cur /\ g.n \in N =>
              \E k \in history' : k.n = g.n /\ k.from = g.from /\ k.body = g.body
                                  /\ ~k.cur /\ k.to = d0
    BY <1>2, LoadRows DEF DatedInv
  <2>2. /\ d0 \in Day /\ bronze' = bronze /\ gold' = gold /\ straight
        /\ \A e \in Day : /\ Stamped(e, "pg")' <=> Stamped(e, "pg") \/ e = d0
                          /\ Stamped(e, "changes")' <=> Stamped(e, "changes")
                          /\ Stamped(e, "pg") => e < d0
    BY <1>2, LoadDay DEF DatedInv
  <2>3. d0 \in Nat
    BY <2>2 DEF Day
  <2>4. n \in N <=> gold[d0][n] # None /\ gold[d0][n] # current[n]
    BY DEF Changed
  <2> HIDE DEF d0, N
  <2>5. CASE d = d0 /\ n \in N
    BY <2>1, <2>2, <2>3, <2>5
  <2>6. CASE d = d0 /\ n \notin N
    <3>1. gold[d0][n] # None /\ gold[d0][n] = current[n]
      BY <2>2, <2>4, <2>6 DEF Spoken
    <3>2. ~\E e \in Day : Stamped(e, "changes") /\ n \in bronze[e].DEREG
      <4> SUFFICES ASSUME NEW e \in Day, Stamped(e, "changes"), n \in bronze[e].DEREG
                   PROVE  FALSE
        OBVIOUS
      <4>1. e < d0 /\ e \in Nat
        BY <2>2 DEF DatedInv, DoneInv, Day
      <4>2. e \in 1..d
        BY <1>d, <2>3, <2>6, <4>1
      <4>3. QED
        BY <2>2, <4>2 DEF Spoken
    <3>3. PICK h \in history : h.cur /\ h.n = n
      BY <3>1, <3>2 DEF DatedInv, DaysInv
    <3>4. h.body = current[n] /\ h \in history' /\ h.from < d0
      BY <1>0, <2>1, <2>2, <2>6, <3>3 DEF DatedInv, LiveRowIsCurrent
    <3>5. QED
      BY <1>0, <2>2, <2>3, <2>6, <3>1, <3>3, <3>4
  <2>7. CASE d # d0
    <3>1. Stamped(d, "pg") /\ d < d0
      BY <2>2, <2>7 DEF Spoken
    <3>2. Spoken(d, n)
      BY <1>e, <2>2, <3>1 DEF Spoken
    <3>3. PICK h \in history : Holds(h, d, n)
      BY <2>2, <3>2 DEF RowInv
    <3>4. CASE h.cur /\ h.n \in N
      <4>1. PICK k \in history' : k.n = h.n /\ k.from = h.from /\ k.body = h.body
                                  /\ ~k.cur /\ k.to = d0
        BY <2>1, <3>4
      <4>2. QED
        BY <1>d, <2>2, <2>3, <3>1, <3>3, <4>1 DEF Holds
    <3>5. CASE ~(h.cur /\ h.n \in N)
      BY <2>1, <2>2, <3>3, <3>5 DEF Holds
    <3>6. QED
      BY <3>4, <3>5
  <2>8. QED
    BY <2>5, <2>6, <2>7
<1>3. CASE RunChangeDetect
  <2> DEFINE d0 == job.date
             N == bronze[d0].DEREG
  <2>1. /\ \A g \in history : ~(g.cur /\ g.n \in N) => g \in history'
        /\ \A g \in history : g.cur /\ g.n \in N =>
              \E k \in history' : k.n = g.n /\ k.from = g.from /\ k.body = g.body
                                  /\ ~k.cur /\ k.to = d0
    BY <1>3, DetectionRows DEF DatedInv
  <2>2. /\ d0 \in Day /\ bronze' = bronze /\ gold' = gold /\ straight
        /\ \A e \in Day : /\ Stamped(e, "pg")' <=> Stamped(e, "pg")
                          /\ Stamped(e, "changes")' <=> Stamped(e, "changes") \/ e = d0
                          /\ Stamped(e, "pg") => e <= d0
    BY <1>3, DetectDay DEF DatedInv
  <2>3. d0 \in Nat /\ N = bronze[d0].DEREG
    BY <2>2 DEF Day
  <2> HIDE DEF d0, N
  <2>4. Stamped(d, "pg") /\ d <= d0
    BY <2>2 DEF Spoken
  <2>5. Spoken(d, n)
    BY <1>e, <2>2, <2>4 DEF Spoken
  <2>6. PICK h \in history : Holds(h, d, n)
    BY <2>2, <2>5 DEF RowInv
  <2>7. CASE h.cur /\ h.n \in N
    <3>1. d # d0
      <4> SUFFICES ASSUME d = d0 PROVE FALSE
        OBVIOUS
      <4>1. d \in 1..d /\ Stamped(d, "changes")'
        BY <1>d, <2>2
      <4>2. n \notin bronze[d].DEREG
        BY <2>2, <4>1 DEF Spoken
      <4>3. QED
        BY <2>3, <2>6, <2>7, <4>2 DEF Holds
    <3>2. PICK k \in history' : k.n = h.n /\ k.from = h.from /\ k.body = h.body
                                /\ ~k.cur /\ k.to = d0
      BY <2>1, <2>7
    <3>3. QED
      BY <1>d, <2>2, <2>3, <2>4, <2>6, <3>1, <3>2 DEF Holds
  <2>8. CASE ~(h.cur /\ h.n \in N)
    BY <2>1, <2>2, <2>6, <2>8 DEF Holds
  <2>9. QED
    BY <2>7, <2>8
<1>4. QED
  BY <1>1, <1>2, <1>3, QuietSteps DEF DatedInv

\* Of the rows of an aircraft only one covers a day.
LEMMA AsOf ==
  ASSUME DatedInv, OrderInv, RowInv
  PROVE  AsOfIsSnapshot
<1> SUFFICES ASSUME straight, NEW d \in Day, NEW n \in Aircraft, Spoken(d, n)
             PROVE  getAircraftAsOf(n, d) = gold[d][n]
  BY DEF AsOfIsSnapshot, Spoken
<1> DEFINE then == {h \in history : h.n = n /\ h.from <= d /\ (h.to = None \/ h.to > d)}
<1>1. PICK h \in history : Holds(h, d, n)
  BY DEF RowInv
<1>2. \A g \in history : /\ g.from \in Nat /\ g.cur \in BOOLEAN
                         /\ ~g.cur => g.to \in Nat /\ g.to # None
                         /\ g.cur => g.to = None
  BY RowTypes
<1>3. d \in Nat
  BY DEF Day
<1>4. h \in then
  BY <1>1, <1>2 DEF Holds
<1>5. \A g \in then : g = h
  <2> SUFFICES ASSUME NEW g \in history, g.n = n, g.from <= d, g.to = None \/ g.to > d, g # h
               PROVE  FALSE
    OBVIOUS
  <2>1. Follows(h, g) \/ Follows(g, h)
    BY <1>1 DEF OrderInv, Holds
  <2>2. ~Follows(h, g)
    BY <1>1, <1>2, <1>3 DEF Follows, Holds
  <2>3. ~Follows(g, h)
    BY <1>1, <1>2, <1>3 DEF Follows, Holds
  <2>4. QED
    BY <2>1, <2>2, <2>3
<1>6. getAircraftAsOf(n, d) =
         IF then = {} THEN None ELSE (CHOOSE k \in then : \A g \in then : g.from <= k.from).body
  BY DEF getAircraftAsOf
<1>7. \A g \in then : g.from <= h.from
  BY <1>1, <1>2, <1>5
<1> HIDE DEF then
<1>8. (CHOOSE k \in then : \A g \in then : g.from <= k.from) = h
  BY <1>4, <1>5, <1>7
<1>9. QED
  BY <1>1, <1>4, <1>6, <1>8 DEF Holds

-----------------------------------------------------------------------------
(* The change log.                                                         *)

LEMMA ChangeTypes ==
  /\ \A b \in DOMAIN ChangeOf, c \in DOMAIN ChangeOf : ChangeOf[b] = ChangeOf[c] => b = c
  /\ \A c \in DOMAIN ChangeOf : ChangeOf[c] \notin {"new_registration", "deregistration"}
  BY DEF ChangeOf

\* No row disappears, and a closed one stays as it is.
RowsStay ==
    /\ \A g \in history : \E k \in history' : k.n = g.n /\ k.from = g.from /\ k.body = g.body
    /\ \A g \in history : ~g.cur => g \in history'

LEMMA LinesStay ==
  ASSUME ChangeLogMatchesHistory, RowsStay,
         NEW x \in changes, NEW c \in DOMAIN ChangeOf, x.type = ChangeOf[c]
  PROVE  \E h \in history' : h.n = x.n /\ h.from = x.date /\ Differs(h, c)'
<1>1. PICK h \in history : h.n = x.n /\ h.from = x.date /\ Differs(h, c)
  BY DEF ChangeLogMatchesHistory
<1>2. PICK p \in history : p.n = h.n /\ p.to = h.from /\ ~p.cur /\ p.body[c] # h.body[c]
  BY <1>1 DEF Differs
<1>3. PICK k \in history' : k.n = h.n /\ k.from = h.from /\ k.body = h.body
  BY DEF RowsStay
<1>4. p \in history'
  BY <1>2 DEF RowsStay
<1>5. Differs(k, c)'
  BY <1>2, <1>3, <1>4 DEF Differs
<1>6. QED
  BY <1>1, <1>3, <1>5

\* What the log has to say of a row that began on another day is what it had to say.
LEMMA RowsOfOtherDays ==
  ASSUME ChangeLogMatchesHistory, RowsStay, straight, NEW d, NEW h, NEW g \in history,
         h.n = g.n, h.from = g.from, h.body = g.body, h.from # d,
         Stamped(g.from, "changes"),
         \A p \in history' : ~p.cur => p \in history \/ p.to = d
  PROVE  /\ First(h)' => Change(h.n, h.from, "new_registration") \in changes
         /\ \A c \in DOMAIN ChangeOf :
               Differs(h, c)' => Change(h.n, h.from, ChangeOf[c]) \in changes
<1>1. First(h)' => First(g)
  BY DEF First, RowsStay
<1>2. \A c \in DOMAIN ChangeOf : Differs(h, c)' => Differs(g, c)
  <2> SUFFICES ASSUME NEW c \in DOMAIN ChangeOf, Differs(h, c)' PROVE Differs(g, c)
    OBVIOUS
  <2>1. PICK p \in history' : p.n = h.n /\ p.to = h.from /\ ~p.cur /\ p.body[c] # h.body[c]
    BY DEF Differs
  <2>2. QED
    BY <2>1 DEF Differs
<1>3. QED
  BY <1>1, <1>2 DEF ChangeLogMatchesHistory

LEMMA LogStep ==
  ASSUME DatedInv, OrderInv, ChangeLogMatchesHistory, [Next]_vars
  PROVE  ChangeLogMatchesHistory'
<1>0. \A h \in history : /\ h.from \in Day /\ h.from \in Nat /\ h.cur \in BOOLEAN
                         /\ ~h.cur => h.to \in Day /\ h.to \in Nat /\ Stamped(h.to, "pg")
  BY RowTypes DEF DatedInv, DaysInv
<1>1. CASE QuietStep
  <2>1. /\ history' = history /\ changes' = changes /\ straight' = straight
        /\ \A d \in Day : Stamped(d, "changes")' <=> Stamped(d, "changes")
    BY <1>1 DEF QuietStep, RegistryFrame
  <2>2. QED
    BY <1>0, <2>1 DEF ChangeLogMatchesHistory, First, Differs
<1>2. CASE RunPgLoad
  <2> DEFINE d == job.date
             N == Changed(d)
  <2>1. /\ \A g \in history : ~(g.cur /\ g.n \in N) => g \in history'
        /\ \A g \in history : g.cur /\ g.n \in N =>
              \E k \in history' : k.n = g.n /\ k.from = g.from /\ k.body = g.body
        /\ \A k \in history' :
              \/ k \in history
              \/ \E g \in history : /\ k.n = g.n /\ k.from = g.from /\ k.body = g.body
                                    /\ ~k.cur /\ k.to = d
              \/ k.from = d /\ k.cur
    BY <1>2, LoadRows DEF DatedInv
  <2>2. /\ changes' = changes /\ ~Stamped(d, "changes") /\ d \in Day
        /\ \A e \in Day : Stamped(e, "changes")' <=> Stamped(e, "changes")
        /\ straight' => straight
    BY <1>2, LoadDay DEF DatedInv
  <2> HIDE DEF d, N
  <2>3. RowsStay
    BY <2>1 DEF RowsStay
  <2>4. ASSUME straight', NEW h \in history', Stamped(h.from, "changes")'
        PROVE  /\ First(h)' => Change(h.n, h.from, "new_registration") \in changes'
               /\ \A c \in DOMAIN ChangeOf :
                     Differs(h, c)' => Change(h.n, h.from, ChangeOf[c]) \in changes'
    <3>1. h.from # d
      BY <2>2, <2>4
    <3>2. PICK g \in history : h.n = g.n /\ h.from = g.from /\ h.body = g.body
      BY <2>1, <3>1
    <3>3. Stamped(g.from, "changes")
      BY <1>0, <2>2, <2>4, <3>2
    <3>4. \A p \in history' : ~p.cur => p \in history \/ p.to = d
      BY <2>1
    <3>5. QED
      BY <2>2, <2>3, <2>4, <3>1, <3>2, <3>3, <3>4, RowsOfOtherDays
  <2>5. QED
    BY <2>2, <2>3, <2>4, LinesStay DEF ChangeLogMatchesHistory
<1>3. CASE RunChangeDetect
  <2> DEFINE d == job.date
             N == bronze[d].DEREG
  <2>1. /\ \A g \in history : ~(g.cur /\ g.n \in N) => g \in history'
        /\ \A g \in history : g.cur /\ g.n \in N =>
              \E k \in history' : k.n = g.n /\ k.from = g.from /\ k.body = g.body
        /\ \A k \in history' :
              \/ k \in history
              \/ \E g \in history : /\ k.n = g.n /\ k.from = g.from /\ k.body = g.body
                                    /\ g.cur /\ ~k.cur /\ k.to = d
    BY <1>3, DetectionRows DEF DatedInv
  <2>2. /\ ~Stamped(d, "changes") /\ d \in Day
        /\ \A e \in Day : Stamped(e, "changes")' <=> Stamped(e, "changes") \/ e = d
        /\ straight' => straight
        /\ straight' => \A e \in Day : Stamped(e, "pg") => e <= d
    BY <1>3, DetectDay DEF DatedInv
  <2>3. changes' = changes \cup NewRegistrations(d) \cup Amendments(d) \cup Deregistrations(d)
    BY <1>3 DEF RunChangeDetect
  <2>4. d \in Nat
    BY <2>2 DEF Day
  <2> HIDE DEF d, N
  <2>5. RowsStay
    BY <2>1 DEF RowsStay
  <2>6. ASSUME straight', NEW h \in history', Stamped(h.from, "changes")', h.from # d
        PROVE  /\ First(h)' => Change(h.n, h.from, "new_registration") \in changes'
               /\ \A c \in DOMAIN ChangeOf :
                     Differs(h, c)' => Change(h.n, h.from, ChangeOf[c]) \in changes'
    <3>1. PICK g \in history : h.n = g.n /\ h.from = g.from /\ h.body = g.body
      BY <2>1
    <3>2. Stamped(g.from, "changes")
      BY <1>0, <2>2, <2>6, <3>1
    <3>3. \A p \in history' : ~p.cur => p \in history \/ p.to = d
      BY <2>1
    <3>4. QED
      BY <2>2, <2>3, <2>5, <2>6, <3>1, <3>2, <3>3, RowsOfOtherDays
  <2>7. ASSUME straight', NEW h \in history', h.from = d
        PROVE  /\ First(h)' => Change(h.n, h.from, "new_registration") \in changes'
               /\ \A c \in DOMAIN ChangeOf :
                     Differs(h, c)' => Change(h.n, h.from, ChangeOf[c]) \in changes'
    <3>1. PICK g \in history : h.n = g.n /\ h.from = g.from /\ h.body = g.body
      BY <2>1
    <3>2. g.cur
      BY <1>0, <2>2, <2>4, <2>7, <3>1 DEF OrderInv
    <3>3. g \in Opened(d)
      BY <2>7, <3>1, <3>2 DEF Opened
    <3>4. ASSUME First(h)' PROVE Change(h.n, d, "new_registration") \in changes'
      <4>1. \A k \in history : k.n = g.n => k.from >= d
        BY <2>5, <2>7, <3>1, <3>4 DEF First, RowsStay
      <4>2. Change(g.n, d, "new_registration") \in NewRegistrations(d)
        BY <3>3, <4>1 DEF NewRegistrations
      <4>3. QED
        BY <2>3, <3>1, <4>2
    <3>5. ASSUME NEW c \in DOMAIN ChangeOf, Differs(h, c)'
          PROVE  Change(h.n, d, ChangeOf[c]) \in changes'
      <4>1. PICK p \in history' : p.n = h.n /\ p.to = h.from /\ ~p.cur
                                  /\ p.body[c] # h.body[c]
        BY <3>5 DEF Differs
      <4>2. p \in history
        <5> SUFFICES ASSUME NEW q \in history, p.n = q.n, p.body = q.body, q.cur
                     PROVE  FALSE
          BY <2>1
        <5>1. q = g
          BY <3>1, <3>2, <4>1 DEF DatedInv, LiveRowIsCurrent
        <5>2. QED
          BY <3>1, <4>1, <5>1
      <4>3. p \in ClosedOn(d) /\ p.n = g.n /\ p.body[c] # g.body[c]
        BY <2>7, <3>1, <4>1, <4>2 DEF ClosedOn
      <4>4. Change(g.n, d, ChangeOf[c]) \in Amendments(d)
        BY <3>3, <4>3 DEF Amendments
      <4>5. QED
        BY <2>3, <3>1, <4>4
    <3>6. QED
      BY <2>7, <3>4, <3>5
  <2>8. ASSUME NEW x \in changes', NEW c \in DOMAIN ChangeOf, x.type = ChangeOf[c]
        PROVE  \E h \in history' : h.n = x.n /\ h.from = x.date /\ Differs(h, c)'
    <3>1. CASE x \in changes
      BY <2>5, <2>8, <3>1, LinesStay
    <3>2. CASE x \in NewRegistrations(d) \cup Deregistrations(d)
      <4>1. x.type \in {"new_registration", "deregistration"}
        BY <3>2 DEF NewRegistrations, Deregistrations, Change
      <4>2. QED
        BY <2>8, <4>1, ChangeTypes
    <3>3. CASE x \in Amendments(d)
      <4>1. PICK h \in Opened(d) :
               \E b \in DOMAIN ChangeOf :
                  /\ x = Change(h.n, d, ChangeOf[b])
                  /\ \E p \in ClosedOn(d) : p.n = h.n /\ p.body[b] # h.body[b]
        BY <3>3 DEF Amendments
      <4>2. x.n = h.n /\ x.date = d
            /\ \E p \in ClosedOn(d) : p.n = h.n /\ p.body[c] # h.body[c]
        BY <2>8, <4>1, ChangeTypes DEF Change
      <4>3. PICK p \in history : /\ p.to = d /\ ~p.cur
                                 /\ p.n = h.n /\ p.body[c] # h.body[c]
        BY <4>2 DEF ClosedOn
      <4>4. h \in history /\ h.from = d
        BY DEF Opened
      <4>5. PICK k \in history' : k.n = h.n /\ k.from = h.from /\ k.body = h.body
        BY <2>5, <4>4 DEF RowsStay
      <4>6. p \in history'
        BY <2>5, <4>3 DEF RowsStay
      <4>7. Differs(k, c)'
        BY <4>3, <4>4, <4>5, <4>6 DEF Differs
      <4>8. QED
        BY <4>2, <4>4, <4>5, <4>7
    <3>4. QED
      BY <2>3, <3>1, <3>2, <3>3
  <2>9. QED
    BY <2>6, <2>7, <2>8 DEF ChangeLogMatchesHistory
<1>4. QED
  BY <1>1, <1>2, <1>3, QuietSteps DEF DatedInv

-----------------------------------------------------------------------------
(* The invariant about days is inductive. *)

CalendarInv == DatedInv /\ OrderInv /\ RowInv /\ ChangeLogMatchesHistory

LEMMA CalendarInit == Init => CalendarInv
<1> SUFFICES ASSUME Init PROVE CalendarInv
  OBVIOUS
<1>1. WorkInv
  BY WorkInit
<1>2. history = {} /\ changes = {} /\ current = Nobody /\ pc = "idle"
  BY DEF Init
<1>3. \A d \in Day, s \in Stamp : ~Stamped(d, s)
  BY DEF Init, Stamped
<1>4. DoneInv /\ LiveRowIsCurrent /\ OrderInv
  BY <1>2, <1>3 DEF DoneInv, LiveRowIsCurrent, OrderInv, Phases, Stamp
<1>5. DaysInv
  BY <1>2 DEF DaysInv, Nobody
<1>6. RowInv
  BY <1>3 DEF RowInv, Spoken, Stamp
<1>7. ChangeLogMatchesHistory
  BY <1>2 DEF ChangeLogMatchesHistory
<1>8. QED
  BY <1>1, <1>4, <1>5, <1>6, <1>7 DEF CalendarInv, DatedInv

LEMMA CalendarInvariant == Spec => []CalendarInv
<1>1. CalendarInv /\ [Next]_vars => CalendarInv'
  BY WorkStep, LiveRowStep, DoneStep, DaysStep, OrderStep, RowStep, LogStep
  DEF CalendarInv, DatedInv
<1>2. QED
  BY <1>1, CalendarInit, PTL DEF Spec

\* The change log of a day that is done says of every row that begins on it what it
\* changed, if the days are worked on in order; and it never says what history does
\* not show (change detection, apps/faa-pipeline).
THEOREM LogMatches == Spec => []ChangeLogMatchesHistory
<1>1. CalendarInv => ChangeLogMatchesHistory
  BY DEF CalendarInv
<1>2. QED
  BY <1>1, CalendarInvariant, PTL

\* Asking for a day that was loaded answers with what its snapshot said of every
\* aircraft that no DEREG file up to that day names, if the days are worked on in
\* order (the as-of lookup over the history rows).
THEOREM AsOfAnswers == Spec => []AsOfIsSnapshot
<1>1. CalendarInv => AsOfIsSnapshot
  BY AsOf DEF CalendarInv
<1>2. QED
  BY <1>1, CalendarInvariant, PTL
=============================================================================
