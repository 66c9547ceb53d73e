--------------------------- MODULE ImportMapping ---------------------------
(***************************************************************************)
(* The mapping of an import job (packages/import/src): the target-field    *)
(* catalog, the mapping_config and its validation, and the reading of one  *)
(* cell.  ImportRows has the engine that puts a row together.              *)
(*                                                                         *)
(* The sections of a mapping_config (columns, constants, lookups) are one  *)
(* set of bindings; what a section has no use for is None.  A value is a   *)
(* pair of what it is and which one: <<"text", "N1">>, <<"number", 2>>,    *)
(* <<"fraction", 1>>, <<"bool", TRUE>>, <<"blank", 0>>, dates as ISO, US   *)
(* and European calendars write them, <<"date", 1>>, <<"usdate", 1>> and   *)
(* <<"eudate", 1>>, and <<"padded", v>> for a text or an id v with blanks  *)
(* around it; a spreadsheet cell is such a value too, digits and a number  *)
(* being the same cell.  Letter case and messages are left out, and so are *)
(* years before the first and, of slashed dates, the first twelve days of  *)
(* a month, which either form reads.                                       *)
(***************************************************************************)
EXTENDS Integers

CONSTANTS Field,    \* the target fields in play
          None      \* absent

Null == <<"null", 0>>
Blank == <<"blank", 0>>
Text(w) == <<"text", w>>
Number(n) == <<"number", n>>
Bool(b) == <<"bool", b>>
Padded(v) == <<"padded", v>>
Uuid(v) == <<"uuid", v>>

Trimmed(v) == IF v[1] = "padded" THEN v[2] ELSE v

\* The date of a day, at most the 31st, that its month does not have.
NoSuchDay == 0

-----------------------------------------------------------------------------
(* The catalog *)

AIRCRAFT_TIME_SOURCES == {"hobbs", "tach"}
COMPONENT_KINDS == {"engine", "propeller", "appliance"}
MAINTENANCE_ENTRY_TYPES ==
    {"maintenance", "annual_inspection", "100_hour_inspection",
     "inspection_program", "ad_compliance"}

\* The values of an enum field.
EnumValues(name) ==
    CASE name = "timeSource" -> AIRCRAFT_TIME_SOURCES
      [] name = "kind" -> COMPONENT_KINDS
      [] name = "entryType" -> MAINTENANCE_ENTRY_TYPES
      [] OTHER -> {}

Fields(type, required, names) ==
    {[name |-> n, type |-> type, required |-> required] : n \in names}

TARGET_FIELDS ==
    [aircraft |->
        Fields("uuid", TRUE, {"regimeId"})
        \cup Fields("text", TRUE, {"registration", "make", "model",
                        "serialNumber", "category", "aircraftClass"})
        \cup Fields("enum", TRUE, {"timeSource"})
        \cup Fields("integer", FALSE, {"yearManufactured"})
        \cup Fields("decimal", FALSE, {"airframeTotalTime"}),
     maintenance_entries |->
        Fields("uuid", TRUE, {"aircraftId"})
        \cup Fields("enum", TRUE, {"entryType"})
        \cup Fields("text", TRUE, {"workPerformed"})
        \cup Fields("date", TRUE, {"performedOn"})
        \cup Fields("decimal", TRUE, {"aircraftTotalTime"})
        \cup Fields("uuid", FALSE, {"inspectionProgramId"})
        \cup Fields("datetime", FALSE, {"signedAt"})
        \cup Fields("text", FALSE, {"signedByCertificateNumber", "rtsTemplateCode"}),
     components |->
        Fields("enum", TRUE, {"kind"})
        \cup Fields("text", TRUE, {"serialNumber"})
        \cup Fields("text", FALSE, {"make", "model"})
        \cup Fields("decimal", FALSE, {"tboHours"})
        \cup Fields("integer", FALSE, {"tboCalendarMonths", "cycleLimit"}),
     flight_time_entries |->
        Fields("uuid", TRUE, {"aircraftId"})
        \cup Fields("decimal", TRUE, {"airframeTimeNew"})
        \cup Fields("boolean", FALSE, {"isOverride"})
        \cup Fields("text", FALSE, {"overrideReason"})
        \cup Fields("datetime", FALSE, {"enteredAt"})]

\* The catalog's fields of a table, as far as they are in play.
targetFieldsFor(table) == {f \in TARGET_FIELDS[table] : f.name \in Field}

findTargetField(table, name) ==
    CHOOSE f \in targetFieldsFor(table) : f.name = name

-----------------------------------------------------------------------------
(* The mapping_config *)

COLUMN_FORMAT_KINDS ==
    {"text", "date", "datetime", "decimal", "integer", "boolean"}
SUPPORTED_DATE_FORMATS == {"ISO", "MM/DD/YYYY", "DD/MM/YYYY"}
LOOKUP_KINDS == {"aircraft_by_registration", "regime_by_code",
                 "component_by_serial", "inspection_program_by_code"}

\* No binding: the shape every binding below fills in.
Unbound ==
    [section |-> None, target |-> None, source |-> None, format |-> None,
     dateFormat |-> None, trim |-> TRUE, value |-> None, kind |-> None,
     componentKind |-> None]

ColumnMapping(target, source, format, dateFormat) ==
    [Unbound EXCEPT !.section = "columns", !.target = target, !.source = source,
                    !.format = format, !.dateFormat = dateFormat]

ConstantMapping(target, value) ==
    [Unbound EXCEPT !.section = "constants", !.target = target, !.value = value]

ColumnDrivenLookup(target, kind, source, componentKind) ==
    [Unbound EXCEPT !.section = "lookups", !.target = target, !.kind = kind,
                    !.source = source, !.componentKind = componentKind]

ConstantKeyLookup(target, code) ==
    [Unbound EXCEPT !.section = "lookups", !.target = target,
                    !.kind = "regime_by_code", !.value = code]

-----------------------------------------------------------------------------
(* validateMappingConfig *)

\* The issues or errors of a check that failed.
When(failed, errors) == IF failed THEN errors ELSE {}

Issue(code, b) == {[code |-> code, target |-> b.target]}

formatMatches(format, type) ==
    IF format = "text" THEN type \in {"text", "enum", "uuid"} ELSE format = type

validateFormatAgainstField(field, b) ==
    IF b.format = None THEN {}
    ELSE IF b.format \notin COLUMN_FORMAT_KINDS
    THEN Issue("UNSUPPORTED_FORMAT", b)
    ELSE When(/\ b.format = "date" /\ b.dateFormat # None
              /\ b.dateFormat \notin SUPPORTED_DATE_FORMATS,
              Issue("UNSUPPORTED_DATE_FORMAT", b))
         \cup When(~formatMatches(b.format, field.type),
                   Issue("FORMAT_TYPE_MISMATCH", b))

\* A JSON constant of a type the field can hold; null is always one.
ConstantTypes(type) ==
    CASE type \in {"text", "uuid", "date", "datetime", "enum"} ->
             {"text", "uuid", "padded", "date", "usdate", "eudate", "blank"}
      [] type = "decimal" -> {"number", "fraction"}
      [] type = "integer" -> {"number"}
      [] type = "boolean" -> {"bool"}

validateConstantAgainstField(field, b) ==
    IF b.value = Null THEN {}
    ELSE IF b.value[1] \notin ConstantTypes(field.type)
    THEN Issue("INVALID_CONSTANT_TYPE", b)
    ELSE When(field.type = "enum" /\ b.value[2] \notin EnumValues(field.name),
              Issue("INVALID_ENUM_CONSTANT", b))

\* available: the file's columns, or None when they are not known yet.
Missing(column, available) == available # None /\ column \notin available

validateLookupShape(b, available) ==
    IF b.kind = "regime_by_code"
    THEN When(b.value[1] = "blank", Issue("MISSING_LOOKUP_KEY", b))
    ELSE IF b.source = None THEN Issue("MISSING_LOOKUP_KEY", b)
    ELSE When(Missing(b.source, available), Issue("MISSING_SOURCE_COLUMN", b))
         \cup When(b.kind = "component_by_serial"
                      /\ b.componentKind \notin COMPONENT_KINDS,
                   Issue("MISSING_COMPONENT_KIND", b))

\* The issues of one binding, apart from what else sources its target.
BindingIssues(table, b, available) ==
    LET field == findTargetField(table, b.target) IN
    IF b.section = "lookups" /\ b.kind \notin LOOKUP_KINDS
    THEN Issue("INVALID_LOOKUP_KIND", b)
    ELSE IF \A f \in targetFieldsFor(table) : f.name # b.target
    THEN Issue("UNKNOWN_TARGET_FIELD", b)
    ELSE CASE b.section = "columns" ->
                  validateFormatAgainstField(field, b)
                  \cup When(Missing(b.source, available),
                            Issue("MISSING_SOURCE_COLUMN", b))
           [] b.section = "constants" -> validateConstantAgainstField(field, b)
           [] b.section = "lookups" ->
                  IF field.type = "uuid" THEN validateLookupShape(b, available)
                  ELSE Issue("FORMAT_TYPE_MISMATCH", b)

\* The bindings that get as far as claiming their target.
Claims(table, config) ==
    {b \in config.bindings :
        /\ \E f \in targetFieldsFor(table) :
               f.name = b.target /\ (b.section = "lookups" => f.type = "uuid")
        /\ b.section = "lookups" => b.kind \in LOOKUP_KINDS}

\* Mutant: two sections may source one target.
DuplicatesAllowed(claims) == {}

\* A target that a second binding claims.
Duplicates(claims) ==
    UNION {Issue("DUPLICATE_TARGET_FIELD", b) :
        b \in {b \in claims : \E c \in claims : c # b /\ c.target = b.target}}

validateMappingConfig(config, available) ==
    LET table == config.targetTable
        claims == Claims(table, config)
    IN (UNION {BindingIssues(table, b, available) : b \in config.bindings})
       \cup Duplicates(claims)
       \cup {[code |-> "MISSING_REQUIRED_FIELD", target |-> f.name] :
                f \in {f \in targetFieldsFor(table) :
                       f.required /\ \A b \in claims : b.target # f.name}}

-----------------------------------------------------------------------------
(* mapping-engine.ts: what a column binding makes of a cell *)

\* What a cell cannot be read as.
Unreadable == <<"unreadable", 0>>

\* coerceDate: the layout has to be the one asked for; whether the month has that
\* day is not looked at.
DateLayout(dateFormat) ==
    CASE dateFormat \in {None, "ISO"} -> "date"
      [] dateFormat = "MM/DD/YYYY" -> "usdate"
      [] OTHER -> "eudate"

\* coerceDateTime: what new Date() makes of it, which goes on to the next month for a
\* day that there is not.
Instant(cell) == <<"date", IF cell[2] = NoSuchDay THEN NoSuchDay + 1 ELSE cell[2]>>

\* coerce: a blank cell is null whatever the format.  Dates lose their layout, decimals
\* are read from digits only.
coerce(cell, format, dateFormat, trim) ==
    LET kind == cell[1] IN
    CASE kind = "blank" -> Null
      [] kind # "blank" /\ format = "text" -> IF trim THEN Trimmed(cell) ELSE cell
      [] kind # "blank" /\ format = "decimal" ->
             IF kind \in {"number", "fraction"} THEN cell ELSE Unreadable
      [] kind # "blank" /\ format = "integer" ->
             IF kind = "number" THEN cell ELSE Unreadable
      [] kind # "blank" /\ format = "date" ->
             IF kind = DateLayout(dateFormat) THEN <<"date", cell[2]>> ELSE Unreadable
      [] kind # "blank" /\ format = "datetime" ->
             IF kind \in {"date", "usdate"} THEN Instant(cell) ELSE Unreadable
      [] kind # "blank" /\ format = "boolean" ->
             IF kind = "bool" THEN cell
             ELSE IF cell \in {Number(0), Number(1)} THEN Bool(cell[2] = 1)
             ELSE Unreadable

defaultFormatFor(table, name) ==
    LET type == findTargetField(table, name).type
    IN IF type \in {"enum", "uuid"} THEN "text" ELSE type

\* What one binding does to a row: a value for its target, or an error.
Mapped(value) == [value |-> value, error |-> None]
MappingError(code) == [value |-> Null, error |-> code]

applyColumn(table, b, row) ==
    IF b.source \notin DOMAIN row THEN MappingError("MISSING_COLUMN")
    ELSE LET format == IF b.format = None THEN defaultFormatFor(table, b.target)
                       ELSE b.format
             value == coerce(row[b.source], format, b.dateFormat, b.trim)
         IN IF value = Unreadable THEN MappingError("FORMAT_ERROR")
            ELSE Mapped(value)
=============================================================================
