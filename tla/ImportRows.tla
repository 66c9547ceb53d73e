----------------------------- MODULE ImportRows -----------------------------
(***************************************************************************)
(* The rows of an import job, from spreadsheet cell to live record: the    *)
(* parse request maps and validates every row against the tenant's data    *)
(* (packages/import/src/mapping-engine.ts and validators/, with the        *)
(* adapters of apps/web/lib/admin/imports-adapters.ts) and the commit      *)
(* request inserts the mapped payloads (commit/inserters.ts) under the     *)
(* constraints and triggers of migrations 0007 to 0013.                    *)
(*                                                                         *)
(* How the statements of concurrent requests interleave is the subject of  *)
(* ImportJob; here a request is one step and what counts is that the       *)
(* preview and the commit judge the same row by different code, at         *)
(* different times.  An id is <<"uuid", v>> where v is the key it belongs  *)
(* to.  A fraction n stands for n and a trifle numeric(10,2) rounds off.   *)
(***************************************************************************)
EXTENDS ImportMapping, SequencesExt

CONSTANTS Regimes,    \* codes of the regimes
          Regime,     \* that of the job
          NNumber,    \* words that match the FAA registration grammar
          RtsCode,    \* codes in the regime's return-to-service templates
          Program,    \* codes in the catalog of inspection programs
          MaxDecimal, \* the largest whole number that numeric(10,2) holds
          MaxInteger, \* the largest that integer holds
          Cases,      \* mapping configs, each with the files it is tried on
          Worlds,     \* what the tenant's tables may hold
          MaxHours    \* bound on readings logged by others

VARIABLES config,   \* import_jobs.mapping_config
          file,     \* parsed rows of the source document
          world,    \* the tenant's aircraft, components and credentials
          job,      \* import_jobs.state and the code of its error_summary
          staged,   \* import_job_rows: mapped payload and verdict of each row
          moved     \* history: has the world changed since the parse?

rowsVars == <<config, file, world, job, staged, moved>>

IsValue(v) ==
    /\ v = <<v[1], v[2]>>
    /\ v[1] \in {"number", "fraction", "date", "usdate", "eudate"} => v[2] \in Int
    /\ v[1] = "padded" => v[2][1] \in {"text", "uuid"} /\ v[2] = <<v[2][1], v[2][2]>>

\* A constant and the regime's code need no column of the file (the types of
\* mapping-config.ts); a parser gives every row the columns of the header.
ASSUME CasesAssumption ==
    \A case \in Cases :
        /\ case.config.targetTable \in DOMAIN TARGET_FIELDS
        /\ \A b \in case.config.bindings :
               /\ b.section \in {"columns", "constants", "lookups"}
               /\ b.section = "constants" \/ b.kind = "regime_by_code" => b.source = None
               /\ b.section = "constants" => IsValue(b.value)
        /\ \A rows \in case.files :
               /\ rows \in Seq({rows[i] : i \in DOMAIN rows})
               /\ \A i \in DOMAIN rows :
                      /\ DOMAIN rows[i] = DOMAIN rows[1] /\ DOMAIN rows[i] # None
                      /\ \A c \in DOMAIN rows[i] : IsValue(rows[i][c])

ASSUME WorldsAssumption ==
    /\ MaxHours \in Nat /\ MaxDecimal \in Nat /\ MaxInteger \in Nat
    /\ MaxInteger >= 2100
    /\ Regime \in Regimes
    /\ \A w \in Worlds : /\ DOMAIN w = {"total", "credentials", "components"}
                         /\ w.total \in [DOMAIN w.total -> Int]

-----------------------------------------------------------------------------
(* imports-adapters.ts *)

Texts(words) == {Text(w) : w \in words}
Ids(keys) == {Uuid(k) : k \in keys}

\* DbLookupAdapter: one tenant-scoped SELECT per key, of which the blanks are trimmed.
DbLookupAdapter(kind, key, componentKind) ==
    LET found ==
        CASE kind = "aircraft_by_registration" -> key \in DOMAIN world.total
          [] kind = "regime_by_code" -> key \in Texts(Regimes)
          [] kind = "component_by_serial" ->
                 <<Text(componentKind), key>> \in world.components
          [] kind = "inspection_program_by_code" -> key \in Texts(Program)
    IN IF found THEN Uuid(key) ELSE Null

\* buildTenantCursor: credentials that are not revoked now.
credentialByCertificateNumber(number) == number \in world.credentials

-----------------------------------------------------------------------------
(* mapping-engine.ts: what a mapping makes of a row *)

\* A key the adapter does not know is a miss.
applyLookup(b, row) ==
    LET constant == b.kind = "regime_by_code"
        key == IF constant THEN b.value
               ELSE IF b.source \in DOMAIN row THEN row[b.source] ELSE Blank
        id == DbLookupAdapter(b.kind, Trimmed(key), b.componentKind)
    IN IF ~constant /\ key[1] = "blank" THEN MappingError("MISSING_COLUMN")
       ELSE IF id = Null THEN MappingError("LOOKUP_MISS")
       ELSE Mapped(id)

apply(table, b, row) ==
    CASE b.section = "columns" -> applyColumn(table, b, row)
      [] b.section = "constants" -> Mapped(b.value)
      [] b.section = "lookups" -> applyLookup(b, row)

\* columns, then constants, then lookups: of several values for one target the
\* last one stays.
applyMapping(row) ==
    LET table == config.targetTable
        Outcome(b) == apply(table, b, row)
        Values(f) == {b \in config.bindings :
                         b.target = f /\ Outcome(b).value # Null}
        From(f, section) == {b \in Values(f) : b.section = section}
        Final(f) == CHOOSE b \in Values(f) :
            b.section = IF From(f, "lookups") # {} THEN "lookups"
                        ELSE IF From(f, "constants") # {} THEN "constants"
                        ELSE "columns"
    IN [mapped |-> [f \in {f \in Field : Values(f) # {}} |-> Outcome(Final(f)).value],
        errors |-> {Outcome(b).error : b \in config.bindings} \ {None}]

-----------------------------------------------------------------------------
(* validators/: the codes of what is wrong with a mapped row *)

Read(m, f) == IF f \in DOMAIN m THEN m[f] ELSE Null

\* What the validators see of a text: nothing of the blanks around it.
readString(m, f) ==
    LET v == Trimmed(Read(m, f)) IN IF v[1] = "blank" THEN Null ELSE v
Absent(m, f) == readString(m, f) = Null
readNumber(m, f) == IF Read(m, f)[1] \in {"number", "fraction"} THEN Read(m, f)
                    ELSE Null

\* Numbers in order, a fraction just above its whole part.
Size(v) == 2 * v[2] + (IF v[1] = "fraction" THEN 1 ELSE 0)

IsTrue(m, f) == Read(m, f) = Bool(TRUE)

requireNonEmpty(m, names) ==
    When(\E f \in names : Absent(m, f), {"MISSING_REQUIRED_FIELD"})

OneOf(m, f, values) ==
    When(~Absent(m, f) /\ readString(m, f) \notin Texts(values), {"INVALID_ENUM"})

AtLeast(m, f, low) ==
    When(readNumber(m, f) # Null /\ Size(readNumber(m, f)) < 2 * low,
         {"OUT_OF_RANGE"})

AtMost(m, f, high) ==
    When(readNumber(m, f) # Null /\ Size(readNumber(m, f)) > 2 * high,
         {"OUT_OF_RANGE"})

aircraftValidator(m) ==
    requireNonEmpty(m, {"regimeId", "make", "model", "serialNumber", "category",
                        "aircraftClass", "registration", "timeSource"})
    \cup When(/\ Regime = "FAA" /\ ~Absent(m, "registration")
              /\ readString(m, "registration") \notin Texts(NNumber),
              {"INVALID_REGISTRATION"})
    \cup AtLeast(m, "yearManufactured", 1900)
    \cup AtMost(m, "yearManufactured", 2100)
    \cup AtLeast(m, "airframeTotalTime", 0)
    \cup OneOf(m, "timeSource", AIRCRAFT_TIME_SOURCES)

checkLifeLimit(m, f) ==
    When(/\ ~(Read(m, f) = Null)
         /\ readNumber(m, f) = Null \/ Size(readNumber(m, f)) <= 0,
         {"LIFE_LIMIT_INVALID"})

componentValidator(m) ==
    requireNonEmpty(m, {"kind", "serialNumber"})
    \cup OneOf(m, "kind", COMPONENT_KINDS)
    \cup UNION {checkLifeLimit(m, f) :
                   f \in {"tboHours", "tboCalendarMonths", "cycleLimit"}}

\* aircraftId must be there and look like an id.
ResolvedAircraft(m) ==
    IF Absent(m, "aircraftId") THEN {"AIRCRAFT_NOT_RESOLVED"}
    ELSE When(readString(m, "aircraftId")[1] # "uuid", {"INVALID_FORMAT"})

\* Mutant: the preview does not look the certificate up.
SignOffShapeOnly(m) ==
    When(\E f \in {"signedAt", "signedByCertificateNumber", "rtsTemplateCode"} :
             Absent(m, f),
         {"UNSIGNED_HISTORICAL"})

enforceSignOffShape(m) ==
    LET certificate == "signedByCertificateNumber"
        code == "rtsTemplateCode"
    IN When(\E f \in {"signedAt", certificate, code} : Absent(m, f),
            {"UNSIGNED_HISTORICAL"})
       \cup When(~Absent(m, code) /\ readString(m, code) \notin Texts(RtsCode),
                 {"UNKNOWN_RTS_TEMPLATE"})
       \cup When(/\ ~Absent(m, certificate)
                 /\ ~credentialByCertificateNumber(readString(m, certificate)),
                 {"UNKNOWN_CERTIFICATE"})

maintenanceEntryValidator(m) ==
    ResolvedAircraft(m)
    \cup requireNonEmpty(m, {"entryType", "workPerformed", "performedOn"})
    \cup When(readNumber(m, "aircraftTotalTime") = Null,
              {"MISSING_REQUIRED_FIELD"})
    \cup OneOf(m, "entryType", MAINTENANCE_ENTRY_TYPES)
    \cup AtLeast(m, "aircraftTotalTime", 0)
    \cup enforceSignOffShape(m)

\* Both halves of an override: the flag and its reason.
Overrides(m) == IsTrue(m, "isOverride") /\ ~Absent(m, "overrideReason")

\* The batch's high-water marks: aircraft of the rows accepted so far.
NoMarks == <<>>
Mark(marks, a) == IF a \in DOMAIN marks THEN marks[a] ELSE -1

flightTimeEntryShape(m) ==
    ResolvedAircraft(m)
    \cup When(readNumber(m, "airframeTimeNew") = Null, {"MISSING_REQUIRED_FIELD"})
    \cup AtLeast(m, "airframeTimeNew", 0)
    \cup When(IsTrue(m, "isOverride") /\ Absent(m, "overrideReason"),
              {"MISSING_REQUIRED_FIELD"})

\* Does the row take part in the monotonicity check at all?
Comparable(m) ==
    /\ readString(m, "aircraftId")[1] = "uuid"
    /\ readNumber(m, "airframeTimeNew") # Null
    /\ Size(readNumber(m, "airframeTimeNew")) >= 0

\* enforceMonotonicity: a reading below the mark is an error unless it is an
\* override; the mark only ever rises.
enforceMonotonicity(m, marks) ==
    LET a == readString(m, "aircraftId")
        size == Size(m["airframeTimeNew"])
        raised == [b \in DOMAIN marks \cup {a} |->
                      IF b = a /\ size > Mark(marks, a) THEN size
                      ELSE Mark(marks, b)]
    IN IF ~Comparable(m) THEN [errors |-> {}, marks |-> marks]
       ELSE IF size < Mark(marks, a) /\ ~Overrides(m)
       THEN [errors |-> {"MONOTONICITY_VIOLATION"}, marks |-> marks]
       ELSE [errors |-> {}, marks |-> raised]

Verdict(table, m) ==
    CASE table = "aircraft" -> aircraftValidator(m)
      [] table = "components" -> componentValidator(m)
      [] table = "maintenance_entries" -> maintenanceEntryValidator(m)
      [] table = "flight_time_entries" -> flightTimeEntryShape(m)

-----------------------------------------------------------------------------
(* The parse request *)

\* Map and validate one more row, after those in acc.
StageRow(acc, row) ==
    LET table == config.targetTable
        result == applyMapping(row)
        m == result.mapped
        batch == IF table = "flight_time_entries"
                 THEN enforceMonotonicity(m, acc.marks)
                 ELSE [errors |-> {}, marks |-> acc.marks]
        errors == When(result.errors # {}, {"MAPPING_ERROR"})
                  \cup Verdict(table, m) \cup batch.errors
    IN [rows |-> Append(acc.rows, [mapped |-> m, errors |-> errors]),
        marks |-> batch.marks]

StagedRows == FoldLeft(StageRow, [rows |-> <<>>, marks |-> NoMarks], file).rows

State(s, code) == [state |-> s, error |-> code]

\* CreateImport: a mapping that is wrong whatever the file is refused.
CreateImport ==
    /\ job.state = "none"
    /\ job' = IF validateMappingConfig(config, None) = {}
              THEN State("pending", None)
              ELSE State("refused", "mapping_config_invalid")
    /\ UNCHANGED <<config, file, world, staged, moved>>

\* A document the parser throws on: a merged cell, a sheet that is not there.
Garbled == <<[c \in {} |-> Blank]>>

\* The columns of the file, as its first row shows them.
FileColumns == IF file = <<>> THEN {} ELSE DOMAIN file[1]

\* The rows of before are deleted.  The new ones are staged in one transaction: a
\* statement that throws leaves none.
ParseImport ==
    /\ job.state \in {"pending", "failed"}
    /\ IF file = Garbled
       THEN /\ job' = State("failed", "PARSE_FAILED")
            /\ staged' = <<>>
       ELSE IF validateMappingConfig(config, FileColumns) # {}
       THEN /\ job' = State("failed", "MAPPING_CONFIG_INVALID")
            /\ staged' = <<>>
       ELSE \/ /\ job' = State("ready", None)
               /\ staged' = StagedRows
            \/ /\ job' = State("failed", "VALIDATE_FAILED")
               /\ staged' = <<>>
    /\ moved' = FALSE
    /\ UNCHANGED <<config, file, world>>

-----------------------------------------------------------------------------
(* The commit request *)

\* What an INSERT leaves behind, or Rejected.
Rejected == [rejected |-> TRUE]

\* The inserters bind the mapped values as they are, blanks and all.

\* A number the column has no room for.
TooWide(m, names, max) ==
    \E f \in names : readNumber(m, f) # Null /\ readNumber(m, f)[2] > max

\* What a date column takes as text, and what new Date() reads.
IsDate(v) == v[1] \in {"date", "usdate"} /\ v[2] # NoSuchDay
IsInstant(v) == v[1] \in {"date", "usdate"}

AircraftIds(w) == Ids(DOMAIN w.total)

\* aircraft: regime_id references regimes, (tenant, registration) is unique.
insertAircraft(m, w) ==
    LET registration == m["registration"]
        total == IF readNumber(m, "airframeTotalTime") = Null THEN 0
                 ELSE readNumber(m, "airframeTotalTime")[2]
    IN IF \/ m["regimeId"] \notin Ids(Texts(Regimes))
          \/ m["timeSource"] \notin Texts(AIRCRAFT_TIME_SOURCES)
          \/ TooWide(m, {"airframeTotalTime"}, MaxDecimal)
          \/ TooWide(m, {"yearManufactured"}, MaxInteger)
          \/ registration \in DOMAIN w.total
       THEN Rejected
       ELSE [w EXCEPT !.total = [t \in DOMAIN w.total \cup {registration} |->
                 IF t = registration THEN total ELSE w.total[t]]]

\* components: (tenant, kind, serial) is unique, a life limit is positive as
\* numeric(10,2) stores it.
insertComponent(m, w) ==
    LET key == <<m["kind"], m["serialNumber"]>>
    IN IF \/ m["kind"] \notin Texts(COMPONENT_KINDS)
          \/ key \in w.components
          \/ \E f \in {"tboHours", "tboCalendarMonths", "cycleLimit"} :
                 readNumber(m, f) # Null /\ readNumber(m, f)[2] <= 0
          \/ TooWide(m, {"tboHours"}, MaxDecimal)
          \/ TooWide(m, {"tboCalendarMonths", "cycleLimit"}, MaxInteger)
       THEN Rejected
       ELSE [w EXCEPT !.components = @ \cup {key}]

\* The certificate and the template are resolved again; aircraft and inspection
\* program are foreign keys.
insertMaintenanceEntry(m, w) ==
    IF \/ m["signedByCertificateNumber"] \notin w.credentials
       \/ m["rtsTemplateCode"] \notin Texts(RtsCode)
       \/ m["aircraftId"] \notin AircraftIds(w)
       \/ m["entryType"] \notin Texts(MAINTENANCE_ENTRY_TYPES)
       \/ ~IsDate(m["performedOn"])
       \/ ~IsInstant(m["signedAt"])
       \/ Read(m, "inspectionProgramId") \notin {Null} \cup Ids(Texts(Program))
       \/ TooWide(m, {"aircraftTotalTime"}, MaxDecimal)
    THEN Rejected ELSE w

\* The trigger of migration 0009 compares with the aircraft's total and makes
\* the reading the new total, override or not; an override needs its reason.
insertFlightTimeEntry(m, w) ==
    LET a == m["aircraftId"][2]
        new == m["airframeTimeNew"][2]
    IN IF \/ m["aircraftId"] \notin AircraftIds(w)
          \/ new > MaxDecimal
          \/ IF IsTrue(m, "isOverride") THEN Absent(m, "overrideReason")
             ELSE new < w.total[a]
       THEN Rejected
       ELSE [w EXCEPT !.total[a] = new]

insertLiveRow(w, row) ==
    IF w = Rejected THEN Rejected
    ELSE CASE config.targetTable = "aircraft" -> insertAircraft(row.mapped, w)
           [] config.targetTable = "components" -> insertComponent(row.mapped, w)
           [] config.targetTable = "maintenance_entries" ->
                  insertMaintenanceEntry(row.mapped, w)
           [] config.targetTable = "flight_time_entries" ->
                  insertFlightTimeEntry(row.mapped, w)

\* One invalid row, or one row the database rejects, fails the whole job.
CommitImport ==
    /\ job.state = "ready"
    /\ LET clean == \A i \in DOMAIN staged : staged[i].errors = {}
           after == FoldLeft(insertLiveRow, world, staged)
       IN IF clean /\ after # Rejected
          THEN /\ job' = State("committed", None)
               /\ world' = after
          ELSE /\ job' = State("failed",
                      IF clean THEN "ROW_INSERT_FAILED" ELSE "IMPORT_JOB_HAS_INVALID_ROWS")
               /\ UNCHANGED world
    /\ UNCHANGED <<config, file, staged, moved>>

-----------------------------------------------------------------------------
(* Meanwhile, elsewhere in the tenant *)

\* Between preview and commit a reading is logged, a credential is revoked, an
\* aircraft or a component is entered by hand.  Once per parse (the bound).
Elsewhere ==
    /\ job.state = "ready" /\ ~moved
    /\ \/ \E a \in DOMAIN world.total, n \in 0 .. MaxHours :
            /\ n > world.total[a]
            /\ world' = [world EXCEPT !.total[a] = n]
       \/ \E c \in world.credentials :
            world' = [world EXCEPT !.credentials = @ \ {c}]
       \/ \E w \in Worlds :
            /\ DOMAIN world.total \subseteq DOMAIN w.total
            /\ world.components \subseteq w.components
            /\ \A a \in DOMAIN world.total : w.total[a] = world.total[a]
            /\ w.credentials = world.credentials
            /\ w # world
            /\ world' = w
    /\ moved' = TRUE
    /\ UNCHANGED <<config, file, job, staged>>

-----------------------------------------------------------------------------
RowsInit ==
    /\ \E case \in Cases : config = case.config /\ file \in case.files
    /\ world \in Worlds
    /\ job = State("none", None)
    /\ staged = <<>>
    /\ moved = FALSE

RowsNext == \/ CreateImport \/ ParseImport \/ CommitImport
        \/ Elsewhere

RowsSpec == RowsInit /\ [][RowsNext]_rowsVars

RowsTypeOK ==
    /\ job.state \in {"none", "refused", "pending", "ready", "failed", "committed"}
    /\ job.state \in {"ready", "committed"} => Len(staged) = Len(file)
    /\ moved \in BOOLEAN

-----------------------------------------------------------------------------
\* An accepted mapping gives each target one source, so the order in which the
\* engine applies the sections is of no account, and no column of it is missing
\* from the file when the rows are staged: what it cannot map is in the cells.
StagedMappingIsSound ==
    job.state = "ready" =>
        /\ \A b, c \in config.bindings : b.target = c.target => b = c
        /\ \A b \in config.bindings : b.source # None =>
               \A i \in DOMAIN file : b.source \in DOMAIN file[i]

Tails(rows) == {rows[i].mapped["registration"] : i \in DOMAIN rows}
Keys(rows) == {<<rows[i].mapped["kind"], rows[i].mapped["serialNumber"]>> :
                  i \in DOMAIN rows}

\* The text of a field that the database or the catalogs compare as it is has blanks
\* around it, which a mapping or a constant let through.
Untrimmed(m, names) == \E f \in names : Read(m, f)[1] = "padded"

\* What no validator looks at in one row, and only the insert refuses: besides those
\* blanks an id typed in that names nothing, a number its column has no room for, a
\* limit that rounds to nothing, a day its month does not have, a constant that is no
\* date.
RowLeftToTheDatabase(table, m, w) ==
    CASE table = "aircraft" ->
             \/ m["regimeId"] \notin Ids(Texts(Regimes))
             \/ Untrimmed(m, {"timeSource"})
             \/ TooWide(m, {"airframeTotalTime"}, MaxDecimal)
      [] table = "components" ->
             \/ Untrimmed(m, {"kind"})
             \/ Read(m, "tboHours") = <<"fraction", 0>>
             \/ TooWide(m, {"tboHours"}, MaxDecimal)
             \/ TooWide(m, {"tboCalendarMonths", "cycleLimit"}, MaxInteger)
      [] table = "maintenance_entries" ->
             \/ m["aircraftId"] \notin AircraftIds(w)
             \/ Untrimmed(m, {"entryType", "signedByCertificateNumber", "rtsTemplateCode"})
             \/ ~IsDate(m["performedOn"]) \/ ~IsInstant(m["signedAt"])
             \/ Read(m, "inspectionProgramId") \notin {Null} \cup Ids(Texts(Program))
             \/ TooWide(m, {"aircraftTotalTime"}, MaxDecimal)
      [] table = "flight_time_entries" ->
             \/ m["aircraftId"] \notin AircraftIds(w)
             \/ TooWide(m, {"airframeTimeNew"}, MaxDecimal)

\* And of the rows together: a natural key that is taken or repeated in the file, a
\* first reading below the aircraft's total.
LeftToTheDatabase(rows, w) ==
    \/ \E i \in DOMAIN rows : RowLeftToTheDatabase(config.targetTable, rows[i].mapped, w)
    \/ /\ config.targetTable = "aircraft"
       /\ Cardinality(Tails(rows)) < Len(rows) \/ Tails(rows) \cap DOMAIN w.total # {}
    \/ /\ config.targetTable = "components"
       /\ Cardinality(Keys(rows)) < Len(rows) \/ Keys(rows) \cap w.components # {}
    \/ /\ config.targetTable = "flight_time_entries"
       /\ \E i \in DOMAIN rows :
            LET a == rows[i].mapped["aircraftId"] IN
            /\ \A j \in 1 .. i - 1 : rows[j].mapped["aircraftId"] # a
            /\ ~Overrides(rows[i].mapped)
            /\ rows[i].mapped["airframeTimeNew"][2] < w.total[a[2]]

\* A preview without errors is a promise: unless the tenant's data has moved
\* since, such a batch fails to commit only for what is left to the database.
CleanBatchGoesIn ==
    job = State("failed", "ROW_INSERT_FAILED") /\ ~moved =>
        LeftToTheDatabase(staged, world)
=============================================================================
