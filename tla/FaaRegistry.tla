---------------------------- MODULE FaaRegistry ----------------------------
(***************************************************************************)
(* The nightly FAA registry pipeline (apps/faa-pipeline): ingest stages    *)
(* the published files and writes the manifest row of the day, transform   *)
(* makes bronze and gold of them, loads gold into the current table and    *)
(* its history, and derives the day's changes.  Web requests read the      *)
(* result (apps/web/lib/faa).                                              *)
(*                                                                         *)
(* The workflow runs one pipeline at a time (its concurrency group), which *)
(* may fail or be killed before any statement; the load and the change     *)
(* detection are one transaction each.  Of the five files MASTER stands    *)
(* for itself and the two joined to it; DEALER is never read.  What the    *)
(* registry says of an aircraft is a body.  pipeline_runs, which nothing   *)
(* reads, is left out: a statement that throws and a runner that is killed *)
(* differ only there.                                                      *)
(***************************************************************************)
EXTENDS Integers, FiniteSets

CONSTANTS Aircraft,   \* N-numbers
          Body,       \* the rows the registry may hold of an aircraft
          MaxDay,     \* bound: days of the calendar
          MaxFaults,  \* bound: failures and deaths of pipelines
          MaxRejects, \* bound: rows of one file that do not parse
          Backfill,   \* may an operator transform an earlier day?
          None        \* SQL NULL, no object, no row

\* The columns change detection compares, with the change each makes.
ChangeOf == [owner_name         |-> "ownership_transfer",
             address            |-> "address_change",
             expiration_date    |-> "expiration_change",
             airworthiness_date |-> "airworthiness_change"]
Column == DOMAIN ChangeOf \cup {"other"}

ASSUME RegistryAssumption ==
    /\ None \notin Body \cup Nat
    /\ \A b \in Body : DOMAIN b = Column
    /\ IsFiniteSet(Aircraft)
    /\ MaxDay \in Nat \ {0} /\ MaxFaults \in Nat /\ MaxRejects \in Nat
    /\ Backfill \in BOOLEAN

VARIABLES today,    \* the date of the clock
          faa,      \* the files the FAA had published at the last download
          objects,  \* raw/<date>/ in R2
          staged,   \* the run's own staging directory
          manifest, \* snapshot_manifest
          bronze,   \* bronze/<date>/
          gold,     \* gold/<date>/
          current,  \* aircraft_registry_current
          history,  \* aircraft_registry_history
          changes,  \* aircraft_changes
          loadedAs, \* the day whose pg_loaded_at is the latest
          pc,       \* where the pipeline is
          job,      \* its storage mode and snapshot date
          download, \* the files it has downloaded
          present,  \* the raw files that were there when it looked
          faults,   \* failures so far
          straight  \* ghost: no day was worked on after a later one

registryVars == <<current, history, changes, loadedAs>>
stageVars == <<objects, staged, bronze, gold>>
runVars == <<pc, job, download, present>>
vars == <<today, faa, stageVars, manifest, registryVars, runVars, faults, straight>>
-----------------------------------------------------------------------------
Day == 1..MaxDay
File == {"MASTER", "DEREG"}
Registered == [Aircraft -> Body \cup {None}]

\* MASTER names each registered aircraft; DEREG those that ever left.
Snapshot == [MASTER : Registered, DEREG : SUBSET Aircraft]
Files == [MASTER : Registered \cup {None}, DEREG : (SUBSET Aircraft) \cup {None}]
NoFiles == [f \in File |-> None]

\* Of a manifest row, the stamps: bronze_written_at, gold_written_at,
\* pg_loaded_at, changes_detected_at.  Nothing reads the digests and counts.
Stamp == {"bronze", "gold", "pg", "changes"}
ManifestRow == SUBSET Stamp

ASSUME NoRowAssumption == \A row \in ManifestRow : row # None

HistoryRow == [n : Aircraft, from : Day, to : Day \cup {None}, cur : BOOLEAN,
               body : Body]
NewRow(n, d, b) == [n |-> n, from |-> d, to |-> None, cur |-> TRUE, body |-> b]
Closed(h, d) == [h EXCEPT !.to = d, !.cur = FALSE]

ChangeType == {ChangeOf[c] : c \in DOMAIN ChangeOf}
                  \cup {"new_registration", "deregistration"}
ChangeRow == [n : Aircraft, date : Day, type : ChangeType]
Change(n, d, t) == [n |-> n, date |-> d, type |-> t]

Job == [mode : {"r2", "lakefs"}, date : Day]

Ingesting == {"ingest", "master", "dereg", "manifest", "finish"}
Transforming == {"transform", "bronze", "stampBronze", "gold", "stampGold",
                 "load", "detect"}

TypeOK ==
    /\ today \in Day
    /\ faa \in Snapshot
    /\ objects \in [Day -> Files]
    /\ staged \in Files
    /\ manifest \in [Day -> ManifestRow \cup {None}]
    /\ bronze \in [Day -> Files]
    /\ gold \in [Day -> Registered \cup {None}]
    /\ current \in Registered
    /\ history \subseteq HistoryRow
    /\ changes \subseteq ChangeRow
    /\ loadedAs \in Day \cup {None}
    /\ pc \in {"idle"} \cup Ingesting \cup Transforming
    /\ job \in Job
    /\ download \in Snapshot \cup {None}
    /\ present \subseteq File
    /\ faults \in 0..MaxFaults
    /\ straight \in BOOLEAN

Nobody == [n \in Aircraft |-> None]

Init ==
    /\ today = 1
    /\ faa \in Snapshot
    /\ objects = [d \in Day |-> NoFiles]
    /\ staged = NoFiles
    /\ manifest = [d \in Day |-> None]
    /\ bronze = [d \in Day |-> NoFiles]
    /\ gold = [d \in Day |-> None]
    /\ current = Nobody
    /\ history = {}
    /\ changes = {}
    /\ loadedAs = None
    /\ pc = "idle"
    /\ job = [mode |-> "lakefs", date |-> 1]
    /\ download = None
    /\ present = {}
    /\ faults = 0
    /\ straight = TRUE
-----------------------------------------------------------------------------
(***************************************************************************)
(* The world outside: the FAA's files and the calendar.                    *)
(***************************************************************************)
\* DEREG is cumulative: whoever left is in it, registered again or not.
MayBecome(old, new) ==
    /\ old.DEREG \subseteq new.DEREG
    /\ \A n \in Aircraft :
          old.MASTER[n] # None /\ new.MASTER[n] = None => n \in new.DEREG

NextDay ==
    /\ today < MaxDay
    /\ today' = today + 1
    /\ UNCHANGED <<faa, stageVars, manifest, registryVars, runVars, faults, straight>>
-----------------------------------------------------------------------------
(***************************************************************************)
(* Ingest.                                                                 *)
(***************************************************************************)
\* What a look at the raw keys of the day finds; in lakefs mode the staging
\* directory of this which is empty.
Heads(mode, d) ==
    IF mode = "r2" THEN {f \in File : objects[d][f] # None} ELSE {}

StartRun(mode) ==
    /\ pc = "idle"
    /\ job' = [mode |-> mode, date |-> today]
    /\ pc' = "ingest"
    /\ present' = Heads(mode, today)
    /\ staged' = NoFiles
    /\ UNCHANGED <<today, faa, objects, bronze, gold, manifest, registryVars,
                   download, faults, straight>>

\* The idempotent path: everything of the day is in R2 already.
SkipIngest ==
    /\ pc = "ingest"
    /\ job.mode = "r2" /\ manifest[job.date] # None /\ present = File
    /\ pc' = "finish"
    /\ UNCHANGED <<today, faa, stageVars, manifest, registryVars, job,
                   download, present, faults, straight>>

Download(published) ==
    /\ pc = "ingest"
    /\ ~(job.mode = "r2" /\ manifest[job.date] # None /\ present = File)
    /\ MayBecome(faa, published)
    /\ faa' = published
    /\ download' = published
    /\ pc' = "master"
    /\ UNCHANGED <<today, stageVars, manifest, registryVars, job,
                   present, faults, straight>>

\* In r2 mode a file that was there is kept, not put again.
StageFile(f, at, next) ==
    /\ pc = at
    /\ CASE job.mode = "lakefs" ->
                /\ staged' = [staged EXCEPT ![f] = download[f]]
                /\ UNCHANGED objects
         [] job.mode = "r2" /\ f \notin present ->
                /\ objects' = [objects EXCEPT ![job.date][f] = download[f]]
                /\ UNCHANGED staged
         [] OTHER -> UNCHANGED <<objects, staged>>
    /\ pc' = next
    /\ UNCHANGED <<today, faa, bronze, gold, manifest, registryVars, job,
                   download, present, faults, straight>>

StageMaster == StageFile("MASTER", "master", "dereg")
StageDereg == StageFile("DEREG", "dereg", "manifest")

\* The conflict branch replaces what describes the files, and no stamp.
UpsertManifest ==
    /\ pc = "manifest"
    /\ manifest' = [manifest EXCEPT ![job.date] =
           IF @ = None THEN {} ELSE @]
    /\ download' = None
    /\ pc' = "finish"
    /\ UNCHANGED <<today, faa, stageVars, registryVars, job, present,
                   faults, straight>>

\* In lakefs mode the workflow hands the date of the ingest on; in r2 mode
\* the transform reads the clock again.
FinishRun ==
    /\ pc = "finish"
    /\ pc' = "transform"
    /\ job' = IF job.mode = "lakefs" THEN job ELSE [job EXCEPT !.date = today]
    /\ present' = {}
    /\ UNCHANGED <<today, faa, stageVars, manifest, registryVars, download,
                   faults, straight>>
-----------------------------------------------------------------------------
(***************************************************************************)
(* Transform.                                                              *)
(***************************************************************************)
\* An operator restarts only the transform, for a day of his choice; the
\* raw files come from R2.
RestartTransform(d) ==
    /\ pc = "idle"
    /\ d <= today /\ (Backfill \/ d = today)
    /\ job' = [mode |-> "r2", date |-> d]
    /\ pc' = "transform"
    /\ UNCHANGED <<today, faa, stageVars, manifest, registryVars, download,
                   present, faults, straight>>

Stamped(d, s) == manifest[d] # None /\ s \in manifest[d]

\* Mutant: a day that was loaded is transformed from the start.
BeginTransformAgain ==
    /\ pc = "transform"
    /\ manifest[job.date] # None
    /\ ~Stamped(job.date, "changes")
    /\ pc' = "bronze"
    /\ UNCHANGED <<today, faa, stageVars, manifest, registryVars, job,
                   download, present, faults, straight>>

BeginTransform ==
    /\ pc = "transform"
    /\ manifest[job.date] # None
    /\ ~Stamped(job.date, "changes")
    /\ pc' = IF Stamped(job.date, "pg") THEN "detect" ELSE "bronze"
    /\ UNCHANGED <<today, faa, stageVars, manifest, registryVars, job,
                   download, present, faults, straight>>

Raw(f) == IF job.mode = "lakefs" THEN staged[f] ELSE objects[job.date][f]

\* ignore_errors drops the rows of each file that do not parse.
RunBronze(rejected) ==
    /\ pc = "bronze"
    /\ \A f \in File : Raw(f) # None /\ Cardinality(rejected[f]) <= MaxRejects
    /\ bronze' = [bronze EXCEPT ![job.date] =
           [MASTER |-> [n \in Aircraft |->
                            IF n \in rejected["MASTER"] THEN None ELSE Raw("MASTER")[n]],
            DEREG  |-> Raw("DEREG") \ rejected["DEREG"]]]
    /\ pc' = "stampBronze"
    /\ UNCHANGED <<today, faa, objects, staged, gold, manifest, registryVars,
                   job, download, present, faults, straight>>

PutStamp(s) ==
    manifest' = [manifest EXCEPT ![job.date] = @ \cup {s}]

StampBronze ==
    /\ pc = "stampBronze"
    /\ PutStamp("bronze")
    /\ pc' = "gold"
    /\ UNCHANGED <<today, faa, stageVars, registryVars, job, download,
                   present, faults, straight>>

RunGold ==
    /\ pc = "gold"
    /\ gold' = [gold EXCEPT ![job.date] = bronze[job.date].MASTER]
    /\ pc' = "stampGold"
    /\ UNCHANGED <<today, faa, objects, staged, bronze, manifest, registryVars,
                   job, download, present, faults, straight>>

StampGold ==
    /\ pc = "stampGold"
    /\ PutStamp("gold")
    /\ pc' = "load"
    /\ UNCHANGED <<today, faa, stageVars, registryVars, job, download,
                   present, faults, straight>>

\* No later day has been loaded yet.
Latest(d) == \A e \in Day : e > d => ~Stamped(e, "pg")

\* The rows of gold that are new or differ from the current table.
Changed(d) == {n \in Aircraft : gold[d][n] # None /\ gold[d][n] # current[n]}
Live(N) == {h \in history : h.cur /\ h.n \in N}

RunPgLoad ==
    /\ pc = "load"
    /\ LET changed == Changed(job.date)
       IN /\ Cardinality(Live(changed)) <= Cardinality(changed)
          /\ \A h \in history : ~(h.n \in changed /\ h.from = job.date)
          /\ history' = (history \ Live(changed))
                  \cup {Closed(h, job.date) : h \in Live(changed)}
                  \cup {NewRow(n, job.date, gold[job.date][n]) : n \in changed}
    /\ current' = [n \in Aircraft |->
           IF gold[job.date][n] # None THEN gold[job.date][n] ELSE current[n]]
    /\ PutStamp("pg")
    /\ loadedAs' = job.date
    /\ straight' = (straight /\ Latest(job.date))
    /\ pc' = "detect"
    /\ UNCHANGED <<today, faa, stageVars, changes, job, download, present, faults>>

\* The rows opened on day d that are still live, and those closed on it.
Opened(d) == {h \in history : h.from = d /\ h.cur}
ClosedOn(d) == {h \in history : h.to = d /\ ~h.cur}

\* Mutant: the day itself counts as an earlier one.
NewRegistrationsAlone(d) ==
    {Change(h.n, d, "new_registration") :
        h \in {h \in Opened(d) : \A g \in history : g.n = h.n => g.from > d}}

NewRegistrations(d) ==
    {Change(h.n, d, "new_registration") :
        h \in {h \in Opened(d) : \A g \in history : g.n = h.n => g.from >= d}}

Amendments(d) ==
    UNION {{Change(h.n, d, ChangeOf[c]) :
                c \in {c \in DOMAIN ChangeOf :
                          \E p \in ClosedOn(d) : p.n = h.n /\ p.body[c] # h.body[c]}} :
           h \in Opened(d)}

\* Mutant: only the rows opened that day are looked at.
DeregistrationsOfTheDay(d) ==
    {Change(h.n, d, "deregistration") : h \in {h \in Opened(d) : h.n \in bronze[d].DEREG}}

Deregistrations(d) ==
    {Change(n, d, "deregistration") :
        n \in {n \in bronze[d].DEREG : current[n] # None}}

\* An insert that conflicts does nothing.
RunChangeDetect ==
    /\ pc = "detect"
    /\ changes' = changes \cup NewRegistrations(job.date)
                          \cup Amendments(job.date) \cup Deregistrations(job.date)
    /\ LET gone == Live(bronze[job.date].DEREG)
       IN history' = (history \ gone) \cup {Closed(h, job.date) : h \in gone}
    /\ PutStamp("changes")
    /\ straight' = (straight /\ Latest(job.date))
    /\ pc' = "idle"
    /\ staged' = NoFiles
    /\ UNCHANGED <<today, faa, objects, bronze, gold, current, loadedAs, job,
                   download, present, faults>>
-----------------------------------------------------------------------------
(***************************************************************************)
(* A statement throws or the runner is killed; its staging directory goes  *)
(* with it, as it does at the end.                                         *)
(***************************************************************************)
Stops ==
    /\ pc' = "idle"
    /\ staged' = NoFiles
    /\ download' = None
    /\ present' = {}
    /\ UNCHANGED <<today, faa, objects, bronze, gold, manifest, registryVars,
                   job, straight>>

Fails ==
    /\ pc # "idle" /\ faults < MaxFaults
    /\ faults' = faults + 1
    /\ Stops

\* Restarted without raw files in R2, bronze fails.
NoRawFiles ==
    /\ pc = "bronze"
    /\ \E f \in File : Raw(f) = None
    /\ UNCHANGED faults
    /\ Stops

\* The transform is switched off, is done already, or has no manifest row.
EndTransform ==
    /\ pc = "transform"
    /\ UNCHANGED faults
    /\ Stops
-----------------------------------------------------------------------------
Ingest ==
    \/ \E mode \in {"r2", "lakefs"} : StartRun(mode)
    \/ SkipIngest
    \/ \E published \in Snapshot : Download(published)
    \/ StageMaster
    \/ StageDereg
    \/ UpsertManifest
    \/ FinishRun

Transform ==
    \/ \E d \in Day : RestartTransform(d)
    \/ BeginTransform
    \/ \E rejected \in [File -> SUBSET Aircraft] : RunBronze(rejected)
    \/ StampBronze
    \/ RunGold
    \/ StampGold
    \/ RunPgLoad
    \/ RunChangeDetect
    \/ NoRawFiles
    \/ EndTransform

World ==
    \/ NextDay
    \/ Fails

Next == Ingest \/ Transform \/ World

Spec == Init /\ [][Next]_vars
-----------------------------------------------------------------------------
(***************************************************************************)
(* What the web reads.                                                     *)
(***************************************************************************)
\* The row of an aircraft, and the date beside it on the page.
lookupAircraft(n) == current[n]
loadFreshness == loadedAs

\* Mutant: the day a row begins is left out.
getAircraftAfter(n, d) ==
    LET then == {h \in history : /\ h.n = n /\ h.from < d
                                 /\ h.to = None \/ h.to > d}
    IN IF then = {} THEN None
       ELSE (CHOOSE h \in then : \A g \in then : g.from <= h.from).body

\* The row that was current on a day: of several the one opened last.
getAircraftAsOf(n, d) ==
    LET then == {h \in history : /\ h.n = n /\ h.from <= d
                                 /\ h.to = None \/ h.to > d}
    IN IF then = {} THEN None
       ELSE (CHOOSE h \in then : \A g \in then : g.from <= h.from).body
-----------------------------------------------------------------------------
\* An aircraft has at most one live history row, and the current table
\* agrees with it: load and change detection, failing wherever they may and
\* working on days in whatever order, never let the two copies part.
LiveRowIsCurrent ==
    \A h \in history : h.cur =>
        /\ h.to = None /\ current[h.n] = h.body
        /\ \A g \in history : g.cur /\ g.n = h.n => g = h

\* History ends for a reason: where a row was closed another row of the
\* aircraft begins, or the log says that it was deregistered that day.
EndsAreExplained ==
    \A h \in history : ~h.cur =>
        \/ \E g \in history : g.n = h.n /\ g.from = h.to
        \/ Change(h.n, h.to, "deregistration") \in changes

\* As long as days are worked on in order, the change log of a day that is
\* done says of every row that begins on it what it changed; whatever the
\* order, it says nothing that history does not show.
First(h) == \A g \in history : g.n = h.n => g.from >= h.from

Differs(h, c) ==
    \E p \in history : p.n = h.n /\ p.to = h.from /\ ~p.cur /\ p.body[c] # h.body[c]

ChangeLogMatchesHistory ==
    /\ straight => \A h \in history : Stamped(h.from, "changes") =>
           /\ First(h) => Change(h.n, h.from, "new_registration") \in changes
           /\ \A c \in DOMAIN ChangeOf : Differs(h, c) =>
                  Change(h.n, h.from, ChangeOf[c]) \in changes
    /\ \A x \in changes, c \in DOMAIN ChangeOf : x.type = ChangeOf[c] =>
           \E h \in history : h.n = x.n /\ h.from = x.date /\ Differs(h, c)

\* As long as days are worked on in order, asking for a day that was loaded
\* answers with what its snapshot said, of every aircraft that no DEREG file
\* up to that day names.
AsOfIsSnapshot ==
    straight => \A d \in Day, n \in Aircraft :
        /\ Stamped(d, "pg") /\ gold[d][n] # None
        /\ \A e \in 1..d : Stamped(e, "changes") => n \notin bronze[e].DEREG
        => getAircraftAsOf(n, d) = gold[d][n]

\* What a lookup shows of an aircraft beside the date of a snapshot is what
\* that snapshot says of it, if it names it at all.
FreshnessIsHonest ==
    \A n \in Aircraft : loadFreshness # None =>
        gold[loadFreshness][n] \in {None, lookupAircraft(n)}
=============================================================================
