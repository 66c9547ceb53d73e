------------------------- MODULE ImportWizardProofs -------------------------
(***************************************************************************)
(* Proofs about the import wizard, for any files, columns, texts, tenants  *)
(* and whatever part of the catalog is in play; and about the rows of the  *)
(* job it creates, for any mapping and file.                               *)
(***************************************************************************)
EXTENDS ImportWizard, ImportRows, FiniteSetTheorems, SequenceTheorems,
        WellFoundedInduction, TLAPS

-----------------------------------------------------------------------------
(* The catalog.                                                            *)

\* A table has no two fields of one name, and its ids are looked up.
LEMMA Catalog ==
  ASSUME NEW table \in DOMAIN TARGET_FIELDS, NEW f \in TARGET_FIELDS[table]
  PROVE  /\ \A g \in TARGET_FIELDS[table] : g.name = f.name => g = f
         /\ f.type = "uuid" => f.name \in {"regimeId", "aircraftId", "inspectionProgramId"}
         /\ f.required \in BOOLEAN
         /\ f.type \in {"text", "enum", "uuid", "integer", "decimal", "boolean", "date",
                       "datetime"}
         /\ table = "components" /\ f.name \in {"tboCalendarMonths", "cycleLimit"} =>
                f.type = "integer"
<1>1. table \in {"aircraft", "maintenance_entries", "components", "flight_time_entries"}
  BY DEF TARGET_FIELDS
<1>2. CASE table = "aircraft"
  <2>1. TARGET_FIELDS[table] =
            Fields("uuid", TRUE, {"regimeId"})
            \cup Fields("text", TRUE,
                           {"registration", "make", "model", "serialNumber", "category",
                            "aircraftClass"})
            \cup Fields("enum", TRUE, {"timeSource"})
            \cup Fields("integer", FALSE, {"yearManufactured"})
            \cup Fields("decimal", FALSE, {"airframeTotalTime"})
    BY <1>2 DEF TARGET_FIELDS
  <2>2. ASSUME NEW g \in TARGET_FIELDS[table]
        PROVE
           /\ g = [name |-> g.name, type |-> g.type, required |-> g.required]
           /\ \/ g.type = "uuid" /\ g.required = TRUE /\ g.name \in {"regimeId"}
              \/ g.type = "text" /\ g.required = TRUE /\ g.name \in
                           {"registration", "make", "model", "serialNumber", "category",
                            "aircraftClass"}
              \/ g.type = "enum" /\ g.required = TRUE /\ g.name \in {"timeSource"}
              \/ g.type = "integer" /\ g.required = FALSE /\ g.name \in {"yearManufactured"}
              \/ g.type = "decimal" /\ g.required = FALSE /\ g.name \in {"airframeTotalTime"}
    <3>1. CASE g \in Fields("uuid", TRUE, {"regimeId"})
      BY <3>1 DEF Fields
    <3>2. CASE g \in Fields("text", TRUE,
                           {"registration", "make", "model", "serialNumber", "category",
                            "aircraftClass"})
      BY <3>2 DEF Fields
    <3>3. CASE g \in Fields("enum", TRUE, {"timeSource"})
      BY <3>3 DEF Fields
    <3>4. CASE g \in Fields("integer", FALSE, {"yearManufactured"})
      BY <3>4 DEF Fields
    <3>5. CASE g \in Fields("decimal", FALSE, {"airframeTotalTime"})
      BY <3>5 DEF Fields
    <3>6. QED
      BY <2>1, <3>1, <3>2, <3>3, <3>4, <3>5
  <2>3. QED
    BY <2>2
<1>3. CASE table = "maintenance_entries"
  <2>1. TARGET_FIELDS[table] =
            Fields("uuid", TRUE, {"aircraftId"})
            \cup Fields("enum", TRUE, {"entryType"})
            \cup Fields("text", TRUE, {"workPerformed"})
            \cup Fields("date", TRUE, {"performedOn"})
            \cup Fields("decimal", TRUE, {"aircraftTotalTime"})
            \cup Fields("uuid", FALSE, {"inspectionProgramId"})
            \cup Fields("datetime", FALSE, {"signedAt"})
            \cup Fields("text", FALSE, {"signedByCertificateNumber", "rtsTemplateCode"})
    BY <1>3 DEF TARGET_FIELDS
  <2>2. ASSUME NEW g \in TARGET_FIELDS[table]
        PROVE
           /\ g = [name |-> g.name, type |-> g.type, required |-> g.required]
           /\ \/ g.type = "uuid" /\ g.required = TRUE /\ g.name \in {"aircraftId"}
              \/ g.type = "enum" /\ g.required = TRUE /\ g.name \in {"entryType"}
              \/ g.type = "text" /\ g.required = TRUE /\ g.name \in {"workPerformed"}
              \/ g.type = "date" /\ g.required = TRUE /\ g.name \in {"performedOn"}
              \/ g.type = "decimal" /\ g.required = TRUE /\ g.name \in {"aircraftTotalTime"}
              \/ g.type = "uuid" /\ g.required = FALSE /\ g.name \in {"inspectionProgramId"}
              \/ g.type = "datetime" /\ g.required = FALSE /\ g.name \in {"signedAt"}
              \/ /\ g.type = "text" /\ g.required = FALSE
                 /\ g.name \in {"signedByCertificateNumber", "rtsTemplateCode"}
    <3>1. CASE g \in Fields("uuid", TRUE, {"aircraftId"})
      BY <3>1 DEF Fields
    <3>2. CASE g \in Fields("enum", TRUE, {"entryType"})
      BY <3>2 DEF Fields
    <3>3. CASE g \in Fields("text", TRUE, {"workPerformed"})
      BY <3>3 DEF Fields
    <3>4. CASE g \in Fields("date", TRUE, {"performedOn"})
      BY <3>4 DEF Fields
    <3>5. CASE g \in Fields("decimal", TRUE, {"aircraftTotalTime"})
      BY <3>5 DEF Fields
    <3>6. CASE g \in Fields("uuid", FALSE, {"inspectionProgramId"})
      BY <3>6 DEF Fields
    <3>7. CASE g \in Fields("datetime", FALSE, {"signedAt"})
      BY <3>7 DEF Fields
    <3>8. CASE g \in Fields("text", FALSE, {"signedByCertificateNumber", "rtsTemplateCode"})
      BY <3>8 DEF Fields
    <3>9. QED
      BY <2>1, <3>1, <3>2, <3>3, <3>4, <3>5, <3>6, <3>7, <3>8
  <2>3. QED
    BY <2>2
<1>4. CASE table = "components"
  <2>1. TARGET_FIELDS[table] =
            Fields("enum", TRUE, {"kind"})
            \cup Fields("text", TRUE, {"serialNumber"})
            \cup Fields("text", FALSE, {"make", "model"})
            \cup Fields("decimal", FALSE, {"tboHours"})
            \cup Fields("integer", FALSE, {"tboCalendarMonths", "cycleLimit"})
    BY <1>4 DEF TARGET_FIELDS
  <2>2. ASSUME NEW g \in TARGET_FIELDS[table]
        PROVE
           /\ g = [name |-> g.name, type |-> g.type, required |-> g.required]
           /\ \/ g.type = "enum" /\ g.required = TRUE /\ g.name \in {"kind"}
              \/ g.type = "text" /\ g.required = TRUE /\ g.name \in {"serialNumber"}
              \/ g.type = "text" /\ g.required = FALSE /\ g.name \in {"make", "model"}
              \/ g.type = "decimal" /\ g.required = FALSE /\ g.name \in {"tboHours"}
              \/ /\ g.type = "integer" /\ g.required = FALSE
                 /\ g.name \in {"tboCalendarMonths", "cycleLimit"}
    <3>1. CASE g \in Fields("enum", TRUE, {"kind"})
      BY <3>1 DEF Fields
    <3>2. CASE g \in Fields("text", TRUE, {"serialNumber"})
      BY <3>2 DEF Fields
    <3>3. CASE g \in Fields("text", FALSE, {"make", "model"})
      BY <3>3 DEF Fields
    <3>4. CASE g \in Fields("decimal", FALSE, {"tboHours"})
      BY <3>4 DEF Fields
    <3>5. CASE g \in Fields("integer", FALSE, {"tboCalendarMonths", "cycleLimit"})
      BY <3>5 DEF Fields
    <3>6. QED
      BY <2>1, <3>1, <3>2, <3>3, <3>4, <3>5
  <2>3. QED
    BY <2>2
<1>5. CASE table = "flight_time_entries"
  <2>1. TARGET_FIELDS[table] =
            Fields("uuid", TRUE, {"aircraftId"})
            \cup Fields("decimal", TRUE, {"airframeTimeNew"})
            \cup Fields("boolean", FALSE, {"isOverride"})
            \cup Fields("text", FALSE, {"overrideReason"})
            \cup Fields("datetime", FALSE, {"enteredAt"})
    BY <1>5 DEF TARGET_FIELDS
  <2>2. ASSUME NEW g \in TARGET_FIELDS[table]
        PROVE
           /\ g = [name |-> g.name, type |-> g.type, required |-> g.required]
           /\ \/ g.type = "uuid" /\ g.required = TRUE /\ g.name \in {"aircraftId"}
              \/ g.type = "decimal" /\ g.required = TRUE /\ g.name \in {"airframeTimeNew"}
              \/ g.type = "boolean" /\ g.required = FALSE /\ g.name \in {"isOverride"}
              \/ g.type = "text" /\ g.required = FALSE /\ g.name \in {"overrideReason"}
              \/ g.type = "datetime" /\ g.required = FALSE /\ g.name \in {"enteredAt"}
    <3>1. CASE g \in Fields("uuid", TRUE, {"aircraftId"})
      BY <3>1 DEF Fields
    <3>2. CASE g \in Fields("decimal", TRUE, {"airframeTimeNew"})
      BY <3>2 DEF Fields
    <3>3. CASE g \in Fields("boolean", FALSE, {"isOverride"})
      BY <3>3 DEF Fields
    <3>4. CASE g \in Fields("text", FALSE, {"overrideReason"})
      BY <3>4 DEF Fields
    <3>5. CASE g \in Fields("datetime", FALSE, {"enteredAt"})
      BY <3>5 DEF Fields
    <3>6. QED
      BY <2>1, <3>1, <3>2, <3>3, <3>4, <3>5
  <2>3. QED
    BY <2>2
<1>6. QED
  BY <1>1, <1>2, <1>3, <1>4, <1>5

LEMMA FoundField ==
  ASSUME NEW table \in DOMAIN TARGET_FIELDS, NEW f \in targetFieldsFor(table)
  PROVE  findTargetField(table, f.name) = f
<1>1. \A g \in targetFieldsFor(table) : g.name = f.name => g = f
  BY Catalog DEF targetFieldsFor
<1>2. QED
  BY <1>1 DEF findTargetField

-----------------------------------------------------------------------------
(* Types: what the operator can turn the mapping into.                     *)

WizardType ==
    /\ targetTable \in Table
    /\ maps \in [{f.name : f \in fields} -> FieldMap]
    /\ columns \subseteq Column
    /\ reads \subseteq File

LEMMA DefaultType ==
  ASSUME NEW table \in Table
  PROVE  DefaultMaps(table) \in [{f.name : f \in targetFieldsFor(table)} -> FieldMap]
<1>0. table \in DOMAIN TARGET_FIELDS
  BY WizardAssumption
<1> SUFFICES ASSUME NEW f \in targetFieldsFor(table)
             PROVE  defaultMapFor(findTargetField(table, f.name)) \in FieldMap
  BY DEF DefaultMaps
<1>1. findTargetField(table, f.name) = f
  BY <1>0, FoundField
<1>2. f.type = "uuid" => f.name \in {"regimeId", "aircraftId", "inspectionProgramId"}
  BY <1>0, Catalog DEF targetFieldsFor
<1>3. \A kind \in {"skip", "column", "constant", "lookup"}, k \in LOOKUP_KINDS \cup {None},
         v \in {None, "FAA"} : MapOf(kind, k, v) \in FieldMap
  BY DEF MapOf, FieldMap
<1>4. defaultMapFor(f) \in FieldMap
  BY <1>2, <1>3 DEF defaultMapFor, LOOKUP_KINDS
<1>5. QED
  BY <1>1, <1>4

LEMMA RowType ==
  ASSUME WizardType, NEW f \in fields, NEW m \in FieldMap, NEW n \in FieldMapRow(f, m)
  PROVE  n \in FieldMap
<1>1. ASSUME NEW k \in {"skip", "column", "constant", "lookup"} PROVE SwitchKind(m, k) \in FieldMap
  BY DEF SwitchKind, FieldMap
<1>2. ASSUME NEW k \in LookupKind \cup {None} PROVE SwitchLookup(m, k) \in FieldMap
  BY WizardAssumption DEF SwitchLookup, FieldMap
<1>3. ASSUME NEW c \in columns \cup {None} PROVE [m EXCEPT !.sourceColumn = c] \in FieldMap
  BY DEF WizardType, FieldMap
<1>4. ASSUME NEW w \in Word \cup {None} PROVE [m EXCEPT !.value = w] \in FieldMap
  BY DEF FieldMap
<1>5. ASSUME NEW c \in {None, "engine"} PROVE [m EXCEPT !.componentKind = c] \in FieldMap
  BY DEF FieldMap, COMPONENT_KINDS
<1>6. QED
  BY <1>1, <1>2, <1>3, <1>4, <1>5 DEF FieldMapRow

LEMMA WizardTypeNext == WizardType /\ [Next]_vars => WizardType'
<1> SUFFICES ASSUME WizardType, [Next]_vars PROVE WizardType'
  OBVIOUS
<1> USE DEF setupVars, fileVars, resultVars, serverVars
<1>1. ASSUME UNCHANGED <<targetTable, maps>>, columns' \subseteq Column, reads' \subseteq File
      PROVE  WizardType'
  BY <1>1 DEF WizardType, fields
<1>2. CASE pickTable
  <2>1. targetTable' \in Table /\ maps' = DefaultMaps(targetTable')
    BY <1>2 DEF pickTable
  <2>2. UNCHANGED <<columns, reads>>
    BY <1>2 DEF pickTable
  <2>3. QED
    BY <2>1, <2>2, DefaultType DEF WizardType, fields
<1>3. CASE editMap
  <2>0. PICK f \in fields :
            \E m \in FieldMapRow(f, maps[f.name]) : maps' = [maps EXCEPT ![f.name] = m]
    BY <1>3 DEF editMap
  <2>1. PICK m \in FieldMapRow(f, maps[f.name]) : maps' = [maps EXCEPT ![f.name] = m]
    BY <2>0
  <2>2. m \in FieldMap
    BY <2>1, RowType DEF WizardType
  <2>3. UNCHANGED <<targetTable, columns, reads>>
    BY <1>3 DEF editMap
  <2>4. QED
    BY <2>1, <2>2, <2>3 DEF WizardType, fields
<1>4. ASSUME NEW f \in File \cup {None}, handleFile(f) PROVE WizardType'
  <2>1. reads' \subseteq File
    BY <1>4, WizardAssumption DEF handleFile, WizardType
  <2>2. QED
    BY <1>1, <1>4, <2>1 DEF handleFile
<1>5. ASSUME NEW f \in File, ReadFile(f) \/ ReadFails(f) PROVE WizardType'
  <2>1. fileOf[f].head \subseteq Column
    BY WizardAssumption DEF FileKind
  <2>2. QED
    BY <1>1, <1>5, <2>1 DEF ReadFile, ReadFails, WizardType
<1>6. CASE applyManualColumns
  BY <1>1, <1>6 DEF applyManualColumns, WizardType
<1>7. ASSUME UNCHANGED <<targetTable, maps, columns, reads>> PROVE WizardType'
  BY <1>1, <1>7 DEF WizardType
<1>8. QED
  BY <1>2, <1>3, <1>4, <1>5, <1>6, <1>7
  DEF Next, Operator, Server, Browser, pickTenant, uploadAndParse, commit, JobActions,
      handleCreateImport, handleParseImport, handleCommitImport, ReceiveUpload, ReceiveParse,
      ReceiveCommit, NetworkError, vars

LEMMA WizardTypeInit == Init => WizardType
<1> SUFFICES ASSUME Init PROVE WizardType
  OBVIOUS
<1>1. targetTable = "aircraft" /\ targetTable \in Table
  BY WizardAssumption DEF Init
<1>2. maps = DefaultMaps(targetTable)
  BY <1>1 DEF Init
<1>3. maps \in [{f.name : f \in fields} -> FieldMap]
  BY <1>1, <1>2, DefaultType DEF fields
<1>4. columns = {} /\ reads = {}
  BY DEF Init
<1>5. QED
  BY <1>1, <1>3, <1>4 DEF WizardType

-----------------------------------------------------------------------------
(* The verdict and its job.                                                *)

\* What a request on its way is made of.
CallShape ==
    call # None =>
        call = [kind |-> call.kind, job |-> call.job, file |-> call.file,
                config |-> call.config, answer |-> call.answer]

\* While the chain is under way there is no verdict on the screen; the job it is
\* about is the one on the screen, unless another file has been picked since.
JobInv ==
    /\ CallShape
    /\ call # None /\ call.kind = "upload" => createdJobId = None /\ parseResult = None
    /\ call # None /\ call.kind = "parse" =>
           /\ createdJobId \in {None, call.job} /\ parseResult = None
           /\ call.answer # None /\ call.answer.ok => call.answer.job = call.job
    /\ ResultIsOfItsJob

LEMMA AnsweredCall ==
  ASSUME CallShape, call # None, NEW answer, Answered(answer)
  PROVE  /\ CallShape'
         /\ call'.kind = call.kind /\ call'.job = call.job
         /\ call'.answer = answer /\ call'.config = None
<1>1. call' = [kind |-> call.kind, job |-> call.job, file |-> None, config |-> None,
               answer |-> answer]
  BY DEF CallShape, Answered
<1>2. QED
  BY <1>1 DEF CallShape

LEMMA JobNext == JobInv /\ [Next]_vars => JobInv'
<1> SUFFICES ASSUME JobInv, [Next]_vars PROVE JobInv'
  OBVIOUS
<1> USE DEF setupVars, fileVars, resultVars, serverVars
<1>1. ASSUME UNCHANGED <<resultVars, call>> PROVE JobInv'
  BY <1>1 DEF JobInv, CallShape, ResultIsOfItsJob
<1>2. ASSUME NEW f \in File \cup {None}, handleFile(f) PROVE JobInv'
  BY <1>2 DEF handleFile, JobInv, CallShape, ResultIsOfItsJob
<1>3. CASE uploadAndParse
  BY <1>3 DEF uploadAndParse, Request, JobInv, CallShape, ResultIsOfItsJob
<1>4. CASE commit
  <2>1. call' = [kind |-> "commit", job |-> createdJobId, file |-> None, config |-> None,
                 answer |-> None]
    BY <1>4 DEF commit, Request
  <2>2. QED
    BY <1>4, <2>1 DEF commit, JobInv, CallShape, ResultIsOfItsJob
<1>5. CASE handleCreateImport
  <2>1. PICK answer : Answered(answer)
    BY <1>5 DEF handleCreateImport
  <2>2. call # None /\ call.kind = "upload" /\ UNCHANGED resultVars
    BY <1>5 DEF handleCreateImport
  <2>3. QED
    BY <2>1, <2>2, AnsweredCall DEF JobInv, ResultIsOfItsJob
<1>6. CASE handleParseImport
  <2>1. \/ \E state, invalid, rows :
               Answered([ok |-> TRUE, job |-> call.job, state |-> state, invalid |-> invalid,
                         rows |-> rows])
        \/ Answered([ok |-> FALSE, job |-> call.job])
    BY <1>6 DEF handleParseImport
  <2>2. call # None /\ call.kind = "parse" /\ UNCHANGED resultVars
    BY <1>6 DEF handleParseImport
  <2>3. ASSUME NEW answer, Answered(answer), answer.job = call.job PROVE JobInv'
    BY <2>2, <2>3, AnsweredCall DEF JobInv, ResultIsOfItsJob
  <2>4. CASE Answered([ok |-> FALSE, job |-> call.job])
    BY <2>3, <2>4
  <2>5. ASSUME NEW state, NEW invalid, NEW rows,
               Answered([ok |-> TRUE, job |-> call.job, state |-> state,
                         invalid |-> invalid, rows |-> rows])
        PROVE  JobInv'
    BY <2>3, <2>5
  <2>6. QED
    BY <2>1, <2>4, <2>5
<1>7. CASE handleCommitImport
  <2>1. PICK answer : Answered(answer)
    BY <1>7 DEF handleCommitImport
  <2>2. call # None /\ call.kind = "commit" /\ UNCHANGED resultVars
    BY <1>7 DEF handleCommitImport
  <2>3. QED
    BY <2>1, <2>2, AnsweredCall DEF JobInv, ResultIsOfItsJob
<1>8. CASE ReceiveUpload
  <2>0. call # None /\ call.kind = "upload" /\ UNCHANGED parseResult
    BY <1>8 DEF ReceiveUpload
  <2>1. CASE /\ createdJobId' = call.answer.job
             /\ call' = [kind |-> "parse", job |-> call.answer.job, file |-> None,
                         config |-> None, answer |-> None]
    BY <2>0, <2>1 DEF JobInv, CallShape, ResultIsOfItsJob
  <2>2. CASE Done /\ UNCHANGED createdJobId
    BY <2>0, <2>2 DEF Done, JobInv, CallShape, ResultIsOfItsJob
  <2>3. QED
    BY <1>8, <2>1, <2>2 DEF ReceiveUpload
<1>9. CASE ReceiveParse
  BY <1>9 DEF ReceiveParse, Done, JobInv, CallShape, ResultIsOfItsJob
<1>10. CASE ReceiveCommit
  BY <1>10 DEF ReceiveCommit, Done, JobInv, CallShape, ResultIsOfItsJob
<1>11. CASE NetworkError
  BY <1>11 DEF NetworkError, Done, JobInv, CallShape, ResultIsOfItsJob
<1>12. QED
  BY <1>1, <1>2, <1>3, <1>4, <1>5, <1>6, <1>7, <1>8, <1>9, <1>10, <1>11
  DEF Next, Operator, Server, Browser, pickTenant, pickTable, editMap, applyManualColumns,
      ReadFile, ReadFails, JobActions, vars

\* The verdict on the screen belongs to the job that Commit would commit, however
\* picking, reading, answering and losing answers interleave (ImportWizard.tsx).
THEOREM VerdictOfItsJob == Spec => []ResultIsOfItsJob
<1>1. Init => JobInv
  BY DEF Init, JobInv, CallShape, ResultIsOfItsJob
<1>2. JobInv => ResultIsOfItsJob
  BY DEF JobInv
<1>3. QED
  BY <1>1, <1>2, JobNext, PTL DEF Spec

-----------------------------------------------------------------------------
(* What the wizard lets through.                                           *)

\* A field's binding, as buildMappingConfig leaves it.
BindingOf(f, m, b) ==
    /\ b.target = f.name
    /\ \/ /\ m.kind = "column" /\ m.sourceColumn # None
          /\ b.section = "columns"
          /\ b.format = IF f.type = "date" THEN "date" ELSE None
          /\ b.dateFormat = IF f.type = "date" THEN "ISO" ELSE None
       \/ m.kind = "constant" /\ b.section = "constants"
       \/ /\ m.kind = "lookup" /\ m.lookupKind = "regime_by_code"
          /\ b.section = "lookups" /\ b.kind = "regime_by_code"
          /\ b.value = IF m.value = None THEN Blank ELSE Text(m.value)
       \/ /\ m.kind = "lookup" /\ m.lookupKind \notin {None, "regime_by_code"}
          /\ b.section = "lookups" /\ b.kind = m.lookupKind
          /\ b.source = m.sourceColumn /\ b.componentKind = m.componentKind

LEMMA BindingShape ==
  ASSUME NEW f, NEW b \in Bindings(f)
  PROVE  BindingOf(f, maps[f.name], b)
<1> DEFINE m == maps[f.name]
<1>1. CASE m.kind = "column" /\ m.sourceColumn # None
  BY <1>1 DEF Bindings, BindingOf, ColumnMapping, Unbound
<1>2. CASE m.kind = "constant"
  <2>1. PICK value : b = ConstantMapping(f.name, value)
    BY <1>2 DEF Bindings
  <2>2. QED
    BY <1>2, <2>1 DEF BindingOf, ConstantMapping, Unbound
<1>3. CASE m.kind = "lookup" /\ m.lookupKind = "regime_by_code"
  BY <1>3 DEF Bindings, BindingOf, ConstantKeyLookup, Unbound
<1>4. CASE m.kind = "lookup" /\ m.lookupKind \notin {None, "regime_by_code"}
  BY <1>4 DEF Bindings, BindingOf, ColumnDrivenLookup, Unbound
<1>5. QED
  BY <1>1, <1>2, <1>3, <1>4 DEF Bindings

LEMMA OneBinding ==
  ASSUME NEW f, NEW b \in Bindings(f), NEW c \in Bindings(f)
  PROVE  b = c
<1> DEFINE m == maps[f.name]
<1>1. CASE m.kind = "column" /\ m.sourceColumn # None
  BY <1>1 DEF Bindings
<1>2. CASE m.kind = "constant"
  BY <1>2 DEF Bindings
<1>3. CASE m.kind = "lookup" /\ m.lookupKind = "regime_by_code"
  BY <1>3 DEF Bindings
<1>4. CASE m.kind = "lookup" /\ m.lookupKind \notin {None, "regime_by_code"}
  BY <1>4 DEF Bindings
<1>5. QED
  BY <1>1, <1>2, <1>3, <1>4 DEF Bindings

\* A required field that is done has a binding.
LEMMA DoneIsBound ==
  ASSUME WizardType, mappingIncomplete = {}, NEW f \in fields, f.required
  PROVE  \E b : b \in Bindings(f)
<1> DEFINE m == maps[f.name]
<1>1. m.kind \in {"skip", "column", "constant", "lookup"}
  BY DEF WizardType, FieldMap
<1>2. /\ m.kind # "skip"
      /\ m.kind = "column" => m.sourceColumn # None
      /\ m.kind = "lookup" => m.lookupKind # None
  BY DEF mappingIncomplete, LookupIncomplete
<1>3. CASE m.kind = "column"
  BY <1>2, <1>3 DEF Bindings
<1>4. CASE m.kind = "constant"
  BY <1>4 DEF Bindings
<1>5. CASE m.kind = "lookup" /\ m.lookupKind = "regime_by_code"
  BY <1>5 DEF Bindings
<1>6. CASE m.kind = "lookup" /\ m.lookupKind # "regime_by_code"
  BY <1>2, <1>6 DEF Bindings
<1>7. QED
  BY <1>1, <1>2, <1>3, <1>4, <1>5, <1>6

\* What the server finds in the binding of a field, when the wizard found the
\* required fields done.
LEMMA IssuesOfBinding ==
  ASSUME WizardType, mappingIncomplete = {}, NEW f \in fields,
         NEW b \in Bindings(f), NEW i \in BindingIssues(targetTable, b, None)
  PROVE  /\ i.target = f.name
         /\ \/ i.code \in {"INVALID_CONSTANT_TYPE", "INVALID_ENUM_CONSTANT",
                           "FORMAT_TYPE_MISMATCH"}
            \/ ~f.required /\ i.code \in {"MISSING_LOOKUP_KEY", "MISSING_COMPONENT_KIND"}
<1> DEFINE m == maps[f.name]
<1>1. BindingOf(f, m, b)
  BY BindingShape
<1>2. b.target = f.name
  BY <1>1 DEF BindingOf
<1>3. findTargetField(targetTable, b.target) = f
  BY <1>2, FoundField, WizardAssumption DEF WizardType, fields
<1>4. ~\A g \in targetFieldsFor(targetTable) : g.name # b.target
  BY <1>2 DEF fields
<1>5. \A code : \A k \in Issue(code, b) : k.target = f.name /\ k.code = code
  BY <1>2 DEF Issue
<1>6. m \in FieldMap
  BY DEF WizardType
<1>7. CASE b.section = "columns"
  <2>1. BindingIssues(targetTable, b, None) = validateFormatAgainstField(f, b)
    BY <1>3, <1>4, <1>7 DEF BindingIssues, Missing, When
  <2>2. b.format = (IF f.type = "date" THEN "date" ELSE None)
        /\ b.dateFormat = (IF f.type = "date" THEN "ISO" ELSE None)
    BY <1>1, <1>7 DEF BindingOf
  <2>3. validateFormatAgainstField(f, b) = {}
    BY <2>2 DEF validateFormatAgainstField, COLUMN_FORMAT_KINDS, SUPPORTED_DATE_FORMATS,
                formatMatches, When
  <2>4. QED
    BY <2>1, <2>3
<1>8. CASE b.section = "constants"
  <2>1. i \in validateConstantAgainstField(f, b)
    BY <1>3, <1>4, <1>8 DEF BindingIssues
  <2>2. i \in Issue("INVALID_CONSTANT_TYPE", b) \/ i \in Issue("INVALID_ENUM_CONSTANT", b)
    BY <2>1 DEF validateConstantAgainstField, When
  <2>3. QED
    BY <2>2, <1>5
<1>9. CASE b.section = "lookups"
  <2>1. b.kind = m.lookupKind /\ m.kind = "lookup" /\ b.kind \in LOOKUP_KINDS
    BY <1>1, <1>6, <1>9 DEF BindingOf, FieldMap, LOOKUP_KINDS
  <2>2. CASE f.type # "uuid"
    <3>1. i \in Issue("FORMAT_TYPE_MISMATCH", b)
      BY <1>3, <1>4, <1>9, <2>1, <2>2 DEF BindingIssues
    <3>2. QED
      BY <3>1, <1>5
  <2>3. CASE f.type = "uuid"
    <3>1. i \in validateLookupShape(b, None)
      BY <1>3, <1>4, <1>9, <2>1, <2>3 DEF BindingIssues
    <3>2. i \in Issue("MISSING_LOOKUP_KEY", b) \/ i \in Issue("MISSING_COMPONENT_KIND", b)
      BY <3>1 DEF validateLookupShape, When, Missing
    <3>3. ASSUME f.required PROVE FALSE
      <4>1. ~LookupIncomplete(m)
        BY <3>3, <2>1 DEF mappingIncomplete
      <4>2. CASE b.kind = "regime_by_code"
        <5>1. b.value = Text(m.value)
          BY <1>1, <1>9, <2>1, <4>1, <4>2 DEF BindingOf, LookupIncomplete
        <5>2. b.value[1] = "text"
          BY <5>1 DEF Text
        <5>3. QED
          BY <3>1, <4>2, <5>2 DEF validateLookupShape, When
      <4>3. CASE b.kind # "regime_by_code"
        <5>1. b.source # None /\ (b.kind = "component_by_serial" => b.componentKind # None)
          BY <1>1, <1>9, <2>1, <4>1, <4>3 DEF BindingOf, LookupIncomplete
        <5>2. b.componentKind \in COMPONENT_KINDS \cup {None}
          BY <1>1, <1>6, <1>9, <2>1, <4>3 DEF BindingOf, FieldMap
        <5>3. QED
          BY <3>1, <4>3, <5>1, <5>2 DEF validateLookupShape, When, Missing
      <4>4. QED
        BY <4>2, <4>3
    <3>4. QED
      BY <3>2, <3>3, <1>5
  <2>4. QED
    BY <2>2, <2>3
<1>10. QED
  BY <1>1, <1>7, <1>8, <1>9 DEF BindingOf

\* UploadIsWellFormed's demand on a configuration.
WellFormed(uploaded) ==
    LET issues == validateMappingConfig(uploaded, None)
        Required(i) == \E f \in targetFieldsFor(uploaded.targetTable) :
                           f.name = i.target /\ f.required
    IN \A i \in issues :
        \/ i.code \in {"INVALID_CONSTANT_TYPE", "INVALID_ENUM_CONSTANT",
                       "FORMAT_TYPE_MISMATCH"}
        \/ ~Required(i) /\ i.code \in {"MISSING_LOOKUP_KEY", "MISSING_COMPONENT_KIND"}
        \/ /\ i.code = "MISSING_REQUIRED_FIELD"
           /\ \E k \in issues :
                k.target = i.target /\ k.code = "FORMAT_TYPE_MISMATCH"

LEMMA IssueCases ==
  ASSUME NEW uploaded, NEW i \in validateMappingConfig(uploaded, None)
  PROVE  LET table == uploaded.targetTable
             claims == Claims(table, uploaded)
         IN \/ \E b \in uploaded.bindings : i \in BindingIssues(table, b, None)
            \/ i \in Duplicates(claims)
            \/ \E f \in targetFieldsFor(table) :
                   /\ f.required /\ \A b \in claims : b.target # f.name
                   /\ i = [code |-> "MISSING_REQUIRED_FIELD", target |-> f.name]
<1> DEFINE table == uploaded.targetTable
           claims == Claims(table, uploaded)
           found == UNION {BindingIssues(table, b, None) : b \in uploaded.bindings}
           bare == {f \in targetFieldsFor(table) :
                       f.required /\ \A b \in claims : b.target # f.name}
           demanded == {[code |-> "MISSING_REQUIRED_FIELD", target |-> f.name] : f \in bare}
<1>1. i \in found \/ i \in Duplicates(claims) \/ i \in demanded
  BY Zenon DEF validateMappingConfig
<1>2. i \in found => \E b \in uploaded.bindings : i \in BindingIssues(table, b, None)
  OBVIOUS
<1>3. i \in demanded =>
         \E f \in bare : i = [code |-> "MISSING_REQUIRED_FIELD", target |-> f.name]
  OBVIOUS
<1>4. \A f \in bare : /\ f \in targetFieldsFor(table) /\ f.required
                      /\ \A b \in claims : b.target # f.name
  OBVIOUS
<1> HIDE DEF found, bare, demanded, claims, table
<1>5. \/ \E b \in uploaded.bindings : i \in BindingIssues(table, b, None)
      \/ i \in Duplicates(claims)
      \/ \E f \in targetFieldsFor(table) :
            /\ f.required /\ \A b \in claims : b.target # f.name
            /\ i = [code |-> "MISSING_REQUIRED_FIELD", target |-> f.name]
  BY <1>1, <1>2, <1>3, <1>4
<1>6. QED
  BY <1>5 DEF claims, table

LEMMA DoneIsWellFormed ==
  ASSUME WizardType, mappingIncomplete = {}
  PROVE  WellFormed(buildMappingConfig)
<1> DEFINE uploaded == buildMappingConfig
           claims == Claims(targetTable, uploaded)
           issues == validateMappingConfig(uploaded, None)
<1>1. uploaded.targetTable = targetTable
      /\ uploaded.bindings = UNION {Bindings(f) : f \in fields}
  BY DEF buildMappingConfig
<1>2. \A b \in uploaded.bindings : \E f \in fields : b \in Bindings(f) /\ b.target = f.name
  BY <1>1, BindingShape DEF BindingOf
<1>3. \A f \in fields, g \in fields : f.name = g.name => f = g
  BY Catalog, WizardAssumption DEF WizardType, fields, targetFieldsFor
<1>4. \A b \in uploaded.bindings, c \in uploaded.bindings : b.target = c.target => b = c
  BY <1>2, <1>3, OneBinding
<1>5. Duplicates(claims) = {}
  <2>1. claims \subseteq uploaded.bindings
    BY DEF Claims
  <2> HIDE DEF claims, uploaded
  <2>2. {b \in claims : \E c \in claims : c # b /\ c.target = b.target} = {}
    BY <2>1, <1>4
  <2>3. QED
    BY <2>2 DEF Duplicates
<1>6. \A b \in uploaded.bindings : BindingIssues(targetTable, b, None) \subseteq issues
  BY <1>1 DEF validateMappingConfig
<1>7. ASSUME NEW f \in fields, f.required, \A b \in claims : b.target # f.name
      PROVE  \E k \in issues : k.target = f.name /\ k.code = "FORMAT_TYPE_MISMATCH"
  <2>1. PICK b : b \in Bindings(f)
    BY <1>7, DoneIsBound
  <2>2. BindingOf(f, maps[f.name], b) /\ b \in uploaded.bindings
    BY <1>1, <2>1, BindingShape
  <2>3. b.target = f.name /\ b \notin claims
    BY <1>7, <2>2 DEF BindingOf
  <2>4. b.section = "lookups" => b.kind \in LOOKUP_KINDS
    BY <2>2 DEF BindingOf, WizardType, FieldMap, LOOKUP_KINDS
  <2>5. b.section = "lookups" /\ f.type # "uuid"
    BY <2>2, <2>3, <2>4 DEF Claims, fields
  <2>6. findTargetField(targetTable, b.target) = f
    BY <2>3, FoundField, WizardAssumption DEF WizardType, fields
  <2>7. BindingIssues(targetTable, b, None) = Issue("FORMAT_TYPE_MISMATCH", b)
    BY <2>3, <2>4, <2>5, <2>6 DEF BindingIssues, fields
  <2>8. [code |-> "FORMAT_TYPE_MISMATCH", target |-> f.name] \in issues
    BY <1>6, <2>2, <2>3, <2>7 DEF Issue
  <2>9. QED
    BY <2>8
<1>8. ASSUME NEW i \in issues
      PROVE  \/ \E f \in fields : /\ i.target = f.name
                                 /\ \/ i.code \in {"INVALID_CONSTANT_TYPE",
                                          "INVALID_ENUM_CONSTANT", "FORMAT_TYPE_MISMATCH"}
                                    \/ /\ ~f.required
                                       /\ i.code \in {"MISSING_LOOKUP_KEY",
                                                      "MISSING_COMPONENT_KIND"}
             \/ /\ i.code = "MISSING_REQUIRED_FIELD"
                /\ \E k \in issues : k.target = i.target /\ k.code = "FORMAT_TYPE_MISMATCH"
  <2>1. CASE \E b \in uploaded.bindings : i \in BindingIssues(targetTable, b, None)
    <3>1. PICK b \in uploaded.bindings : i \in BindingIssues(targetTable, b, None)
      BY <2>1
    <3>2. PICK f \in fields : b \in Bindings(f)
      BY <1>2, <3>1
    <3>3. QED
      BY <3>1, <3>2, IssuesOfBinding
  <2>2. CASE \E f \in fields : /\ f.required /\ \A b \in claims : b.target # f.name
                               /\ i = [code |-> "MISSING_REQUIRED_FIELD", target |-> f.name]
    BY <2>2, <1>7
  <2>3. \/ \E b \in uploaded.bindings : i \in BindingIssues(targetTable, b, None)
        \/ i \in Duplicates(claims)
        \/ \E f \in fields : /\ f.required /\ \A b \in claims : b.target # f.name
                            /\ i = [code |-> "MISSING_REQUIRED_FIELD", target |-> f.name]
    <3>1. uploaded.targetTable = targetTable
      BY <1>1
    <3> HIDE DEF uploaded
    <3>2. QED
      BY <3>1, IssueCases, Zenon DEF fields
  <2>4. QED
    BY <1>5, <2>1, <2>2, <2>3
<1>9. \A i \in issues, f \in fields :
         i.target = f.name /\ ~f.required =>
             ~\E g \in targetFieldsFor(uploaded.targetTable) : g.name = i.target /\ g.required
  BY <1>1, <1>3 DEF fields
<1>10. QED
  BY <1>8, <1>9 DEF WellFormed

\* The part of an invariant that is about the upload.
UploadInv == WizardType /\ CallShape /\ UploadIsWellFormed

LEMMA UploadNext == UploadInv /\ [Next]_vars => UploadInv'
<1> SUFFICES ASSUME UploadInv, [Next]_vars PROVE UploadIsWellFormed' /\ CallShape'
  BY WizardTypeNext DEF UploadInv
<1> USE DEF setupVars, fileVars, resultVars, serverVars
<1>0. UploadIsWellFormed <=>
         (call # None /\ call.kind = "upload" /\ call.config # None => WellFormed(call.config))
  BY DEF UploadIsWellFormed, WellFormed
<1>1. UploadIsWellFormed' <=>
         (call' # None /\ call'.kind = "upload" /\ call'.config # None
             => WellFormed(call'.config))
  BY DEF UploadIsWellFormed, WellFormed
<1>2. CASE UNCHANGED call
  BY <1>0, <1>1, <1>2 DEF UploadInv, CallShape
<1>3. CASE call' = None
  BY <1>1, <1>3 DEF CallShape
<1>4. CASE uploadAndParse
  <2>1. mappingIncomplete = {}
    BY <1>4 DEF uploadAndParse, ValidateEnabled, step3Done
  <2>2. call' = [kind |-> "upload", job |-> None, file |-> picked,
                 config |-> buildMappingConfig, answer |-> None]
    BY <1>4 DEF uploadAndParse, Request
  <2>3. WellFormed(buildMappingConfig)
    BY <2>1, DoneIsWellFormed DEF UploadInv
  <2>4. QED
    BY <1>1, <2>2, <2>3 DEF CallShape
<1>5. CASE commit
  <2>1. call' = [kind |-> "commit", job |-> createdJobId, file |-> None, config |-> None,
                 answer |-> None]
    BY <1>5 DEF commit, Request
  <2>2. QED
    BY <1>1, <2>1 DEF CallShape
<1>6. CASE call # None /\ \E answer : Answered(answer)
  BY <1>1, <1>6, AnsweredCall DEF UploadInv
<1>7. CASE handleCreateImport \/ handleParseImport \/ handleCommitImport
  <2>1. call # None /\ \E answer : Answered(answer)
    BY <1>7 DEF handleCreateImport, handleParseImport, handleCommitImport
  <2>2. QED
    BY <2>1, <1>6
<1>8. CASE ReceiveUpload
  <2>1. CASE call' = [kind |-> "parse", job |-> call.answer.job, file |-> None,
                      config |-> None, answer |-> None]
    BY <1>1, <2>1 DEF CallShape
  <2>2. CASE Done
    BY <1>3, <2>2 DEF Done
  <2>3. QED
    BY <1>8, <2>1, <2>2 DEF ReceiveUpload
<1>9. CASE ReceiveParse \/ ReceiveCommit \/ NetworkError
  BY <1>3, <1>9 DEF ReceiveParse, ReceiveCommit, NetworkError, Done
<1>10. QED
  BY <1>2, <1>4, <1>5, <1>7, <1>8, <1>9
  DEF Next, Operator, Server, Browser, pickTenant, pickTable, editMap, applyManualColumns,
      handleFile, ReadFile, ReadFails, JobActions, vars

\* What the wizard's own checks let through, the server's validation of the mapping
\* refuses only for a constant of the wrong type, a lookup for a field that is no
\* id, or something incomplete about an optional field.
THEOREM UploadsAreWellFormed == Spec => []UploadIsWellFormed
<1>1. Init => UploadInv
  <2>1. Init => call = None
    BY DEF Init
  <2>2. QED
    BY <2>1, WizardTypeInit DEF UploadInv, CallShape, UploadIsWellFormed
<1>2. UploadInv => UploadIsWellFormed
  BY DEF UploadInv
<1>3. QED
  BY <1>1, <1>2, UploadNext, PTL DEF Spec

-----------------------------------------------------------------------------
(* The rows of a job (ImportRows).                                         *)

\* The mapping and the file are some case's, and a job that is ready has passed
\* the check of the one against the columns of the other.
RowsInv ==
  /\ \E case \in Cases : config = case.config /\ file \in case.files
  /\ job.state = "ready" => validateMappingConfig(config, FileColumns) = {}

\* A binding the check finds nothing wrong with claims its target, and no other
\* binding claims that target.
LEMMA SoundClaims ==
  ASSUME NEW available,
         validateMappingConfig(config, available) = {},
         \A b \in config.bindings : b.section \in {"columns", "constants", "lookups"}
  PROVE  \A b, c \in config.bindings : b.target = c.target => b = c
<1> DEFINE table == config.targetTable
           claims == Claims(table, config)
<1>1. /\ \A b \in config.bindings : BindingIssues(table, b, available) = {}
      /\ Duplicates(claims) = {}
  BY DEF validateMappingConfig
<1>2. ASSUME NEW b \in config.bindings PROVE b \in claims
  <2> DEFINE field == findTargetField(table, b.target)
  <2>1. \A code : Issue(code, b) # {}
    BY DEF Issue
  <2>2. b.section = "lookups" => b.kind \in LOOKUP_KINDS
    BY <1>1, <2>1 DEF BindingIssues
  <2>3. \E f \in targetFieldsFor(table) : f.name = b.target
    BY <1>1, <2>1, <2>2 DEF BindingIssues
  <2>4. field \in targetFieldsFor(table) /\ field.name = b.target
    BY <2>3 DEF findTargetField
  <2>5. b.section = "lookups" => field.type = "uuid"
    <3>1. SUFFICES ASSUME b.section = "lookups", field.type # "uuid" PROVE FALSE
      OBVIOUS
    <3>2. BindingIssues(table, b, available) = Issue("FORMAT_TYPE_MISMATCH", b)
      BY <2>2, <2>3, <3>1 DEF BindingIssues
    <3>3. QED
      BY <1>1, <2>1, <3>2
  <2>6. QED
    BY <2>2, <2>4, <2>5 DEF Claims
<1>3. ASSUME NEW b \in config.bindings, NEW c \in config.bindings,
             b.target = c.target, b # c
      PROVE  FALSE
  <2>1. b \in claims /\ c \in claims
    BY <1>2
  <2> HIDE DEF claims
  <2>2. Issue("DUPLICATE_TARGET_FIELD", b) \subseteq Duplicates(claims)
    BY <1>3, <2>1 DEF Duplicates
  <2>3. QED
    BY <1>1, <2>2 DEF Issue
<1>4. QED
  BY <1>3

\* A binding the check finds nothing wrong with takes its value from a column
\* that is there, if from a column at all.
LEMMA SoundSource ==
  ASSUME NEW b, NEW table, NEW available, available # None,
         BindingIssues(table, b, available) = {},
         b.section \in {"columns", "constants", "lookups"},
         b.section = "constants" \/ b.kind = "regime_by_code" => b.source = None,
         b.source # None
  PROVE  b.source \in available
<1> DEFINE field == findTargetField(table, b.target)
<1>1. \A code : Issue(code, b) # {}
  BY DEF Issue
<1>2. ~\A f \in targetFieldsFor(table) : f.name # b.target
  BY <1>1 DEF BindingIssues
<1>3. CASE b.section = "columns"
  <2>1. When(Missing(b.source, available),
                  Issue("MISSING_SOURCE_COLUMN", b)) = {}
    BY <1>2, <1>3 DEF BindingIssues
  <2>2. QED
    BY <1>1, <2>1 DEF When, Missing
<1>4. CASE b.section = "lookups"
  <2>1. b.kind \in LOOKUP_KINDS
    BY <1>1, <1>4 DEF BindingIssues
  <2>2. field.type = "uuid" /\ validateLookupShape(b, available) = {}
    BY <1>1, <1>2, <1>4, <2>1 DEF BindingIssues
  <2>3. When(Missing(b.source, available),
                  Issue("MISSING_SOURCE_COLUMN", b)) = {}
    BY <2>2 DEF validateLookupShape
  <2>4. QED
    BY <1>1, <2>3 DEF When, Missing
<1>5. QED
  BY <1>3, <1>4

LEMMA RowsStep ==
  RowsInv /\ [RowsNext]_rowsVars => RowsInv'
<1> SUFFICES ASSUME RowsInv, [RowsNext]_rowsVars PROVE RowsInv'
  OBVIOUS
<1>1. config' = config /\ file' = file
  BY DEF RowsNext, rowsVars, CreateImport, ParseImport,
         CommitImport, Elsewhere
<1>2. FileColumns' = FileColumns
  BY <1>1 DEF FileColumns
<1>3. job'.state = "ready" =>
          job.state = "ready" \/ validateMappingConfig(config, FileColumns) = {}
  <2>1. CASE ParseImport
    BY <2>1 DEF ParseImport, State
  <2>2. CASE CreateImport
    BY <2>2 DEF CreateImport, State
  <2>3. CASE CommitImport
    BY <2>3 DEF CommitImport, State
  <2>4. CASE Elsewhere \/ UNCHANGED rowsVars
    BY <2>4 DEF Elsewhere, rowsVars
  <2>5. QED
    BY <2>1, <2>2, <2>3, <2>4 DEF RowsNext
<1>4. QED
  BY <1>1, <1>2, <1>3 DEF RowsInv

\* When rows are staged, every target has one source, so the order in which the
\* mapping engine applies the sections is of no account, and no row lacks a column
\* the mapping names (validateMappingConfig, handleParseImport), for any mapping
\* and any file the parsers make.
THEOREM StagedRowsAreSound == RowsSpec => []StagedMappingIsSound
<1>1. RowsInit => RowsInv
  BY DEF RowsInit, State, RowsInv
<1>2. RowsInv /\ [RowsNext]_rowsVars => RowsInv'
  BY RowsStep
<1>3. ASSUME RowsInv PROVE StagedMappingIsSound
  <2>1. SUFFICES ASSUME job.state = "ready" PROVE StagedMappingIsSound
    BY DEF StagedMappingIsSound
  <2>2. validateMappingConfig(config, FileColumns) = {}
    BY <1>3, <2>1 DEF RowsInv
  <2>3. \A b \in config.bindings :
            /\ b.section \in {"columns", "constants", "lookups"}
            /\ b.section = "constants" \/ b.kind = "regime_by_code" => b.source = None
    BY <1>3, CasesAssumption DEF RowsInv
  <2>4. \A i \in DOMAIN file : DOMAIN file[i] = DOMAIN file[1] /\ DOMAIN file[1] # None
    BY <1>3, CasesAssumption DEF RowsInv
  <2>5. \A b, c \in config.bindings : b.target = c.target => b = c
    BY <2>2, <2>3, SoundClaims
  <2>6. ASSUME NEW b \in config.bindings, b.source # None, NEW i \in DOMAIN file
        PROVE  b.source \in DOMAIN file[i]
    <3>1. file # <<>>
      OBVIOUS
    <3>2. FileColumns = DOMAIN file[1] /\ FileColumns # None
      BY <2>4, <3>1 DEF FileColumns
    <3>3. BindingIssues(config.targetTable, b, FileColumns) = {}
      BY <2>2 DEF validateMappingConfig
    <3>4. b.source \in FileColumns
      BY <2>3, <2>6, <3>2, <3>3, SoundSource
    <3>5. QED
      BY <2>4, <3>2, <3>4
  <2>7. QED
    BY <2>5, <2>6 DEF StagedMappingIsSound
<1>4. QED
  BY <1>1, <1>2, <1>3, PTL DEF RowsSpec

-----------------------------------------------------------------------------
(* Folds.  FoldLeft is a recursive function on the sets of positions, so    *)
(* what it computes is proved by induction on the number of positions, here *)
(* with a set of naturals for the induction hypothesis.                     *)

\* Induction on the naturals, with a set for the induction hypothesis.
LEMMA AllNaturals ==
  ASSUME NEW P \in SUBSET Nat, 0 \in P, \A n \in P : n + 1 \in P
  PROVE  P = Nat
<1>1. SUFFICES ASSUME Nat \ P # {} PROVE FALSE
  OBVIOUS
<1> DEFINE R == {p \in Nat \X Nat : p[1] < p[2]}
<1>2. IsWellFoundedOn(R, Nat)
  BY NatLessThanWellFounded DEF OpToRel
<1>3. PICK n \in Nat \ P : \A m \in Nat \ P : ~(m < n)
  <2>1. \E x \in Nat \ P : \A y \in Nat \ P : ~(<<y, x>> \in R)
    <3> HIDE DEF R
    <3> QED
      BY <1>1, <1>2, WFMin
  <2>2. QED
    BY <2>1
<1>4. n - 1 \in P
  BY <1>3
<1>5. QED
  BY <1>4

\* Induction up to a bound.
LEMMA UpTo ==
  ASSUME NEW n \in Nat, NEW P \in SUBSET Nat, 0 \in P,
         \A k \in P : k < n => k + 1 \in P
  PROVE  n \in P
<1> DEFINE Q == {k \in Nat : k <= n => k \in P}
<1>1. Q \in SUBSET Nat /\ 0 \in Q /\ \A k \in Q : k + 1 \in Q
  OBVIOUS
<1> HIDE DEF Q
<1>2. Q = Nat
  BY <1>1, AllNaturals
<1>3. QED
  BY <1>2 DEF Q

\* A finite set of positions has a maximum, the one Max chooses.
LEMMA MaxOf ==
  ASSUME NEW n \in Nat, NEW s \in SUBSET (1 .. n), s # {}
  PROVE  Max(s) \in s /\ \A y \in s : Max(s) >= y
<1> DEFINE P == {m \in Nat : \A t \in SUBSET (1 .. m) :
                     t # {} => \E x \in t : \A y \in t : x >= y}
<1>1. 0 \in P
  <2>1. 1 .. 0 = {}
    OBVIOUS
  <2>2. QED
    BY <2>1
<1>2. ASSUME NEW m \in P PROVE m + 1 \in P
  <2>1. ASSUME NEW t \in SUBSET (1 .. m + 1), t # {}
        PROVE  \E x \in t : \A y \in t : x >= y
    <3>1. CASE m + 1 \in t
      BY <3>1
    <3>2. CASE m + 1 \notin t
      <4>1. t \in SUBSET (1 .. m)
        BY <3>2
      <4>2. QED
        BY <2>1, <4>1
    <3>3. QED
      BY <3>1, <3>2
  <2>2. QED
    BY <2>1
<1>3. P = Nat
  <2> HIDE DEF P
  <2>1. P \in SUBSET Nat
    BY DEF P
  <2>2. QED
    BY <1>1, <1>2, <2>1, AllNaturals
<1>4. \E x \in s : \A y \in s : x >= y
  BY <1>3
<1>5. QED
  BY <1>4 DEF Max

\* What is in the set and not below the rest is the maximum.
LEMMA TheMax ==
  ASSUME NEW n \in Nat, NEW s \in SUBSET (1 .. n), NEW x \in s, \A y \in s : x >= y
  PROVE  Max(s) = x
<1>1. s # {}
  OBVIOUS
<1>2. Max(s) \in s /\ \A y \in s : Max(s) >= y
  BY <1>1, MaxOf
<1>3. \A y \in s : y \in Int
  OBVIOUS
<1> DEFINE m == Max(s)
<1>4. m \in Int /\ x \in Int
  BY <1>2, <1>3
<1>5. x >= m /\ m >= x
  BY <1>2
<1> HIDE DEF m
<1>6. m = x
  BY <1>4, <1>5
<1>7. QED
  BY <1>6 DEF m

\* The two folds of the import: over the rows of the file at the parse, over the
\* staged rows at the commit.
FoldStep(which, acc, x) ==
  IF which = "stage" THEN StageRow(acc, x) ELSE insertLiveRow(acc, x)

IsFold(which, it, k, base, rows) ==
  \A s \in SUBSET (1 .. k) :
      it[s] = IF s = {} THEN base
              ELSE FoldStep(which, it[s \ {Max(s)}], rows[Max(s)])

HasFold(which, k, base, rows) == \E it : IsFold(which, it, k, base, rows)

\* The recursion goes on by one position.
LEMMA FoldExtends ==
  ASSUME NEW k \in Nat, NEW which, NEW base, NEW rows, HasFold(which, k, base, rows)
  PROVE  HasFold(which, k + 1, base, rows)
<1> PICK it : IsFold(which, it, k, base, rows)
  BY DEF HasFold
<1> DEFINE h == [s \in SUBSET (1 .. k + 1) |->
                    IF k + 1 \in s THEN FoldStep(which, it[s \ {k + 1}], rows[k + 1])
                    ELSE it[s]]
<1>1. \A s \in SUBSET (1 .. k + 1) : s \ {k + 1} \in SUBSET (1 .. k)
  OBVIOUS
<1>2. \A s \in SUBSET (1 .. k + 1) : k + 1 \notin s => s \in SUBSET (1 .. k)
  OBVIOUS
<1>3. ASSUME NEW s \in SUBSET (1 .. k + 1)
      PROVE  h[s] = IF s = {} THEN base
                    ELSE FoldStep(which, h[s \ {Max(s)}], rows[Max(s)])
  <2>1. CASE k + 1 \in s
    <3>1. \A y \in s : k + 1 >= y
      OBVIOUS
    <3>2. Max(s) = k + 1
      BY <2>1, <3>1, TheMax, k + 1 \in Nat
    <3>3. h[s \ {k + 1}] = it[s \ {k + 1}]
      BY <1>1
    <3>4. h[s] = FoldStep(which, it[s \ {k + 1}], rows[k + 1])
      BY <2>1
    <3> HIDE DEF h
    <3>5. QED
      BY <2>1, <3>2, <3>3, <3>4
  <2>2. CASE k + 1 \notin s
    <3> DEFINE max == Max(s)
    <3> HIDE DEF max
    <3>1. s \in SUBSET (1 .. k) /\ h[s] = it[s]
      BY <1>2, <2>2
    <3>2. s \ {max} \in SUBSET (1 .. k) /\ k + 1 \notin s \ {max}
      BY <2>2, <3>1
    <3>3. s \ {max} \in SUBSET (1 .. k + 1)
      OBVIOUS
    <3>4. h[s \ {max}] = it[s \ {max}]
      BY <3>2, <3>3
    <3>5. it[s] = IF s = {} THEN base ELSE FoldStep(which, it[s \ {max}], rows[max])
      BY <3>1 DEF IsFold, max
    <3> HIDE DEF h
    <3>6. QED
      BY <3>1, <3>4, <3>5 DEF max
  <2>3. QED
    BY <2>1, <2>2
<1> HIDE DEF h
<1>4. IsFold(which, h, k + 1, base, rows)
  BY <1>3 DEF IsFold
<1>5. QED
  BY <1>4 DEF HasFold

\* The recursion that folds a sequence has a solution, of whatever length.
LEMMA FoldDefined ==
  ASSUME NEW n \in Nat, NEW which, NEW base, NEW rows
  PROVE  HasFold(which, n, base, rows)
<1> DEFINE P == {k \in Nat : HasFold(which, k, base, rows)}
<1>1. 0 \in P
  <2> DEFINE h == [s \in SUBSET (1 .. 0) |-> base]
  <2>1. \A s \in SUBSET (1 .. 0) : s = {} /\ h[s] = base
    <3>1. 1 .. 0 = {}
      OBVIOUS
    <3>2. QED
      BY <3>1
  <2> HIDE DEF h
  <2>2. IsFold(which, h, 0, base, rows)
    BY <2>1 DEF IsFold
  <2>3. QED
    BY <2>2 DEF HasFold
<1>2. \A k \in P : k + 1 \in P
  BY FoldExtends
<1>3. P = Nat
  <2>1. P \in SUBSET Nat
    OBVIOUS
  <2> HIDE DEF P
  <2>2. QED
    BY <1>1, <1>2, <2>1, AllNaturals
<1>4. QED
  BY <1>3

\* A fold goes through the prefixes of the sequence.
LEMMA FoldChain ==
  ASSUME NEW n \in Nat, NEW which, NEW base, NEW rows, NEW it,
         IsFold(which, it, n, base, rows)
  PROVE  \E c : /\ c[0] = base
                /\ \A k \in 1 .. n : c[k] = FoldStep(which, c[k - 1], rows[k])
                /\ c[n] = it[1 .. n]
<1> DEFINE c == [k \in 0 .. n |-> it[1 .. k]]
<1>1. it[1 .. 0] = base
  <2>1. 1 .. 0 = {} /\ 1 .. 0 \in SUBSET (1 .. n)
    OBVIOUS
  <2>2. QED
    BY <2>1 DEF IsFold
<1>2. ASSUME NEW k \in 1 .. n PROVE it[1 .. k] = FoldStep(which, it[1 .. k - 1], rows[k])
  <2>1. 1 .. k \in SUBSET (1 .. n) /\ k \in 1 .. k /\ (1 .. k) \ {k} = 1 .. k - 1
    OBVIOUS
  <2>2. \A y \in 1 .. k : k >= y
    OBVIOUS
  <2>3. Max(1 .. k) = k
    BY <2>1, <2>2, TheMax
  <2>4. QED
    BY <2>1, <2>3 DEF IsFold
<1>3. /\ c[0] = base
      /\ \A k \in 1 .. n : c[k] = FoldStep(which, c[k - 1], rows[k])
      /\ c[n] = it[1 .. n]
  BY <1>1, <1>2
<1>4. QED
  BY <1>3

Staged(rows) ==
  FoldLeft(StageRow, [rows |-> <<>>, marks |-> NoMarks], rows)

\* The parse goes through the rows of the file one by one.
LEMMA StageChain ==
  ASSUME NEW n \in Nat, NEW rows, DOMAIN rows = 1 .. n
  PROVE  \E acc : /\ acc[0] = [rows |-> <<>>, marks |-> NoMarks]
                  /\ \A k \in 1 .. n : acc[k] = StageRow(acc[k - 1], rows[k])
                  /\ acc[n] = Staged(rows)
<1> DEFINE base == [rows |-> <<>>, marks |-> NoMarks]
           Step(f) == [s \in SUBSET (1 .. n) |->
                          IF s = {} THEN base
                          ELSE StageRow(f[s \ {Max(s)}], rows[Max(s)])]
           iter == CHOOSE f : f = Step(f)
<1>1. Staged(rows) = iter[1 .. n]
  BY DEF Staged, FoldLeft, MapThenFoldSet
<1>2. \E f : f = Step(f)
  <2>1. PICK it : IsFold("stage", it, n, base, rows)
    BY FoldDefined DEF HasFold
  <2> DEFINE f == [s \in SUBSET (1 .. n) |-> it[s]]
  <2>2. ASSUME NEW s \in SUBSET (1 .. n)
        PROVE  f[s] = IF s = {} THEN base
                      ELSE StageRow(f[s \ {Max(s)}], rows[Max(s)])
    <3>1. s \ {Max(s)} \in SUBSET (1 .. n)
      OBVIOUS
    <3>2. QED
      BY <2>1, <3>1 DEF IsFold, FoldStep
  <2>3. f = Step(f)
    BY <2>2
  <2>4. QED
    BY <2>3
<1>3. iter = Step(iter)
  <2> HIDE DEF Step
  <2>1. QED
    BY <1>2
<1> HIDE DEF iter
<1>4. IsFold("stage", iter, n, base, rows)
  BY <1>3 DEF IsFold, FoldStep
<1>5. PICK c : /\ c[0] = base
               /\ \A k \in 1 .. n : c[k] = FoldStep("stage", c[k - 1], rows[k])
               /\ c[n] = iter[1 .. n]
  BY <1>4, FoldChain
<1>6. QED
  BY <1>1, <1>5 DEF FoldStep

Inserted(rows, w) == FoldLeft(insertLiveRow, w, rows)

\* The commit goes through the staged rows one by one.
LEMMA InsertChain ==
  ASSUME NEW n \in Nat, NEW rows, DOMAIN rows = 1 .. n, NEW w
  PROVE  \E c : /\ c[0] = w
                /\ \A k \in 1 .. n : c[k] = insertLiveRow(c[k - 1], rows[k])
                /\ c[n] = Inserted(rows, w)
<1> DEFINE Step(f) == [s \in SUBSET (1 .. n) |->
                          IF s = {} THEN w
                          ELSE insertLiveRow(f[s \ {Max(s)}], rows[Max(s)])]
           iter == CHOOSE f : f = Step(f)
<1>1. Inserted(rows, w) = iter[1 .. n]
  BY DEF Inserted, FoldLeft, MapThenFoldSet
<1>2. \E f : f = Step(f)
  <2>1. PICK it : IsFold("insert", it, n, w, rows)
    BY FoldDefined DEF HasFold
  <2> DEFINE f == [s \in SUBSET (1 .. n) |-> it[s]]
  <2>2. ASSUME NEW s \in SUBSET (1 .. n)
        PROVE  f[s] = IF s = {} THEN w
                      ELSE insertLiveRow(f[s \ {Max(s)}], rows[Max(s)])
    <3>1. s \ {Max(s)} \in SUBSET (1 .. n)
      OBVIOUS
    <3>2. QED
      BY <2>1, <3>1 DEF IsFold, FoldStep
  <2>3. f = Step(f)
    BY <2>2
  <2>4. QED
    BY <2>3
<1>3. iter = Step(iter)
  <2> HIDE DEF Step
  <2>1. QED
    BY <1>2
<1> HIDE DEF iter
<1>4. IsFold("insert", iter, n, w, rows)
  BY <1>3 DEF IsFold, FoldStep
<1>5. PICK c : /\ c[0] = w
               /\ \A k \in 1 .. n : c[k] = FoldStep("insert", c[k - 1], rows[k])
               /\ c[n] = iter[1 .. n]
  BY <1>4, FoldChain
<1>6. QED
  BY <1>1, <1>5 DEF FoldStep

-----------------------------------------------------------------------------
(* What staging puts into a row: values of the shape the cells and constants *)
(* have, whole numbers in the fields that are integers.                      *)

\* A binding the check finds nothing wrong with has a field of the table.
LEMMA SoundTarget ==
  ASSUME NEW table \in DOMAIN TARGET_FIELDS, NEW b, NEW available,
         BindingIssues(table, b, available) = {}
  PROVE  /\ findTargetField(table, b.target) \in TARGET_FIELDS[table]
         /\ findTargetField(table, b.target).name = b.target
         /\ b.section = "columns" =>
                validateFormatAgainstField(findTargetField(table, b.target), b) = {}
         /\ b.section = "constants" =>
                validateConstantAgainstField(findTargetField(table, b.target), b) = {}
         /\ b.section = "lookups" => findTargetField(table, b.target).type = "uuid"
<1> DEFINE field == findTargetField(table, b.target)
<1>1. \A code : Issue(code, b) # {}
  BY DEF Issue
<1>2. ~(b.section = "lookups" /\ b.kind \notin LOOKUP_KINDS)
  BY <1>1 DEF BindingIssues
<1>3. \E f \in targetFieldsFor(table) : f.name = b.target
  BY <1>1, <1>2 DEF BindingIssues
<1>4. field \in targetFieldsFor(table) /\ field.name = b.target
  BY <1>3 DEF findTargetField
<1>5. CASE b.section = "columns"
  BY <1>2, <1>3, <1>4, <1>5 DEF BindingIssues, targetFieldsFor
<1>6. CASE b.section = "constants"
  BY <1>2, <1>3, <1>4, <1>6 DEF BindingIssues, targetFieldsFor
<1>7. CASE b.section = "lookups"
  BY <1>1, <1>2, <1>3, <1>4, <1>7 DEF BindingIssues, targetFieldsFor
<1>8. CASE b.section \notin {"columns", "constants", "lookups"}
  BY <1>4, <1>8 DEF targetFieldsFor
<1>9. QED
  BY <1>5, <1>6, <1>7, <1>8

\* The format of a checked column binding suits its field: whole numbers for an
\* integer.
LEMMA ColumnFormat ==
  ASSUME NEW table \in DOMAIN TARGET_FIELDS, NEW b, NEW available,
         BindingIssues(table, b, available) = {}, b.section = "columns"
  PROVE  LET format == IF b.format = None THEN defaultFormatFor(table, b.target)
                       ELSE b.format
         IN /\ format \in COLUMN_FORMAT_KINDS
            /\ findTargetField(table, b.target).type = "integer" => format = "integer"
<1> DEFINE field == findTargetField(table, b.target)
<1>1. field \in TARGET_FIELDS[table] /\ validateFormatAgainstField(field, b) = {}
  BY SoundTarget
<1>2. field.type \in {"text", "enum", "uuid", "integer", "decimal", "boolean", "date",
                      "datetime"}
  BY <1>1, Catalog
<1>3. CASE b.format = None
  BY <1>2, <1>3 DEF defaultFormatFor, COLUMN_FORMAT_KINDS
<1>4. CASE b.format # None
  <2>1. \A code : Issue(code, b) # {}
    BY DEF Issue
  <2>2. b.format \in COLUMN_FORMAT_KINDS
    BY <1>1, <1>4, <2>1 DEF validateFormatAgainstField
  <2>3. formatMatches(b.format, field.type)
    BY <1>1, <1>4, <2>1, <2>2 DEF validateFormatAgainstField, When
  <2>4. QED
    BY <1>4, <2>2, <2>3 DEF formatMatches
<1>5. QED
  BY <1>3, <1>4

\* A cell read in a format is a value, and an integer has no fraction.
LEMMA CoercedValue ==
  ASSUME NEW cell, IsValue(cell), NEW format \in COLUMN_FORMAT_KINDS, NEW dateFormat, NEW trim
  PROVE  /\ IsValue(coerce(cell, format, dateFormat, trim))
         /\ format = "integer" => coerce(cell, format, dateFormat, trim)[1] # "fraction"
<1> DEFINE v == coerce(cell, format, dateFormat, trim)
<1>1. \/ v \in {Null, Unreadable, cell, Trimmed(cell), Bool(cell[2] = 1)}
      \/ cell[2] \in Int /\ v \in {<<"date", cell[2]>>, Instant(cell)}
  <2>1. CASE cell[1] = "blank"
    BY <2>1 DEF coerce
  <2>2. CASE cell[1] # "blank" /\ format = "text"
    BY <2>2 DEF coerce
  <2>3. CASE cell[1] # "blank" /\ format = "decimal"
    BY <2>3 DEF coerce
  <2>4. CASE cell[1] # "blank" /\ format = "integer"
    BY <2>4 DEF coerce
  <2>5. CASE cell[1] # "blank" /\ format = "date"
    <3>1. v = IF cell[1] = DateLayout(dateFormat) THEN <<"date", cell[2]>> ELSE Unreadable
      BY <2>5 DEF coerce
    <3>2. cell[1] = DateLayout(dateFormat) => cell[2] \in Int
      BY DEF DateLayout, IsValue
    <3> HIDE DEF v
    <3>3. QED
      BY <3>1, <3>2
  <2>6. CASE cell[1] # "blank" /\ format = "datetime"
    <3>1. v = IF cell[1] \in {"date", "usdate"} THEN Instant(cell) ELSE Unreadable
      BY <2>6 DEF coerce
    <3>2. cell[1] \in {"date", "usdate"} => cell[2] \in Int
      BY DEF IsValue
    <3> HIDE DEF v
    <3>3. QED
      BY <3>1, <3>2
  <2>7. CASE cell[1] # "blank" /\ format = "boolean"
    BY <2>7 DEF coerce
  <2>8. QED
    BY <2>1, <2>2, <2>3, <2>4, <2>5, <2>6, <2>7 DEF COLUMN_FORMAT_KINDS
<1>2. format = "integer" => v \in {Null, Unreadable} \/ v[1] = "number"
  BY DEF coerce
<1> HIDE DEF v
<1>3. IsValue(Trimmed(cell))
  BY DEF IsValue, Trimmed
<1>4. cell[2] \in Int => IsValue(<<"date", cell[2]>>) /\ IsValue(Instant(cell))
  BY DEF IsValue, Instant, NoSuchDay
<1>5. IsValue(Null) /\ IsValue(Unreadable) /\ IsValue(Bool(cell[2] = 1))
  BY DEF IsValue, Null, Unreadable, Bool
<1>6. IsValue(v)
  BY <1>1, <1>3, <1>4, <1>5
<1>7. QED
  BY <1>2, <1>6 DEF v, Null, Unreadable

\* What a checked binding makes of a row is a value; an integer has no fraction.
LEMMA AppliedValue ==
  ASSUME NEW table \in DOMAIN TARGET_FIELDS, NEW b, NEW available, NEW row,
         BindingIssues(table, b, available) = {},
         b.section \in {"columns", "constants", "lookups"},
         b.section = "constants" => IsValue(b.value),
         \A c \in DOMAIN row : IsValue(row[c])
  PROVE  LET v == apply(table, b, row).value IN
         /\ IsValue(v)
         /\ findTargetField(table, b.target).type = "integer" => v[1] # "fraction"
<1> DEFINE v == apply(table, b, row).value
           field == findTargetField(table, b.target)
<1>1. IsValue(Null) /\ Null[1] # "fraction"
  BY DEF IsValue, Null
<1>2. CASE b.section = "columns"
  <2> DEFINE format == IF b.format = None THEN defaultFormatFor(table, b.target)
                       ELSE b.format
  <2>1. format \in COLUMN_FORMAT_KINDS /\ (field.type = "integer" => format = "integer")
    BY <1>2, ColumnFormat
  <2>2. v = applyColumn(table, b, row).value
    BY <1>2 DEF apply
  <2>3. v = Null \/ (b.source \in DOMAIN row /\ v = coerce(row[b.source], format, b.dateFormat, b.trim))
    BY <2>2 DEF applyColumn, Mapped, MappingError
  <2> HIDE DEF v, format, field
  <2>4. QED
    BY <1>1, <2>1, <2>3, CoercedValue DEF v, field
<1>3. CASE b.section = "constants"
  <2>1. v = b.value
    BY <1>3 DEF apply, Mapped
  <2>2. validateConstantAgainstField(field, b) = {}
    BY <1>3, SoundTarget
  <2>3. b.value = Null \/ b.value[1] \in ConstantTypes(field.type)
    BY <2>2 DEF validateConstantAgainstField, Issue
  <2>4. field.type = "integer" => b.value = Null \/ b.value[1] = "number"
    BY <2>3 DEF ConstantTypes
  <2>5. QED
    BY <1>1, <1>3, <2>1, <2>4
<1>4. CASE b.section = "lookups"
  <2>1. field.type = "uuid"
    BY <1>4, SoundTarget
  <2>2. v = Null \/ \E w : v = Uuid(w)
    BY <1>4 DEF apply, applyLookup, DbLookupAdapter, Mapped, MappingError
  <2>3. \A w : IsValue(Uuid(w))
    BY DEF IsValue, Uuid
  <2>4. QED
    BY <1>1, <2>1, <2>2, <2>3
<1>5. QED
  BY <1>2, <1>3, <1>4

\* The config of a job that is parsed.
CheckedConfig ==
    /\ config.targetTable \in DOMAIN TARGET_FIELDS
    /\ \A b \in config.bindings :
           /\ b.section \in {"columns", "constants", "lookups"}
           /\ b.section = "constants" => IsValue(b.value)
    /\ \E available : validateMappingConfig(config, available) = {}

\* What the mapping leaves in a field of the row is a value, whole where the
\* components have integers.
LEMMA StagedValue ==
  ASSUME CheckedConfig, NEW row, \A c \in DOMAIN row : IsValue(row[c]), NEW f
  PROVE  /\ IsValue(Read(applyMapping(row).mapped, f))
         /\ config.targetTable = "components" /\ f \in {"tboCalendarMonths", "cycleLimit"} =>
                Read(applyMapping(row).mapped, f)[1] # "fraction"
<1> DEFINE table == config.targetTable
           Outcome(b) == apply(table, b, row)
           Values(g) == {b \in config.bindings : b.target = g /\ Outcome(b).value # Null}
           From(g, section) == {b \in Values(g) : b.section = section}
           Final(g) == CHOOSE b \in Values(g) :
               b.section = IF From(g, "lookups") # {} THEN "lookups"
                           ELSE IF From(g, "constants") # {} THEN "constants"
                           ELSE "columns"
           m == applyMapping(row).mapped
<1>1. m = [g \in {g \in Field : Values(g) # {}} |-> Outcome(Final(g)).value]
  BY DEF applyMapping
<1>2. Values(f) # {} => Final(f) \in Values(f)
  <2>1. SUFFICES ASSUME Values(f) # {} PROVE Final(f) \in Values(f)
    OBVIOUS
  <2>2. \A b \in Values(f) : b.section \in {"columns", "constants", "lookups"}
    BY DEF CheckedConfig
  <2> HIDE DEF Values
  <2>3. \E b \in Values(f) :
            b.section = IF From(f, "lookups") # {} THEN "lookups"
                        ELSE IF From(f, "constants") # {} THEN "constants"
                        ELSE "columns"
    BY <2>1, <2>2
  <2>4. QED
    BY <2>3
<1>3. CASE f \notin DOMAIN m
  BY <1>3 DEF Read, IsValue, Null
<1>4. CASE f \in DOMAIN m
  <2>1. f \in {g \in Field : Values(g) # {}} /\ m[f] = Outcome(Final(f)).value
    <3> HIDE DEF Values, Final, Outcome, m
    <3>1. QED
      BY <1>1, <1>4
  <2>2. PICK b \in config.bindings : b.target = f /\ m[f] = apply(table, b, row).value
    BY <1>2, <2>1
  <2>3. PICK available : BindingIssues(table, b, available) = {}
    BY DEF CheckedConfig, validateMappingConfig
  <2> DEFINE field == findTargetField(table, b.target)
             v == apply(table, b, row).value
  <2>4. IsValue(v) /\ (field.type = "integer" => v[1] # "fraction")
    BY <2>3, AppliedValue DEF CheckedConfig
  <2>5. field \in TARGET_FIELDS[table] /\ field.name = f
    BY <2>2, <2>3, SoundTarget DEF CheckedConfig
  <2>6. table = "components" /\ f \in {"tboCalendarMonths", "cycleLimit"} =>
            field.type = "integer"
    BY <2>5, Catalog DEF CheckedConfig
  <2>7. Read(m, f) = v
    BY <1>4, <2>2 DEF Read
  <2> HIDE DEF m, v, field
  <2>8. QED
    BY <2>4, <2>6, <2>7 DEF m
<1>5. QED
  BY <1>3, <1>4

-----------------------------------------------------------------------------
(* What a row without errors promises, table by table.                      *)

Limits == {"tboHours", "tboCalendarMonths", "cycleLimit"}

Present(m, f) == f \in DOMAIN m /\ m[f] = Read(m, f)

\* A field that is not absent is there, and what the validators saw of it is what it
\* holds but for the blanks around it.
LEMMA PresentField ==
  ASSUME NEW m, NEW f, ~Absent(m, f)
  PROVE  /\ Present(m, f)
         /\ Read(m, f)[1] # "padded" => m[f] = readString(m, f)
<1> DEFINE v == Read(m, f)
<1>1. v # Null
  BY DEF Absent, readString, Trimmed, Null
<1>2. f \in DOMAIN m /\ v = m[f]
  BY <1>1 DEF Read
<1>3. v[1] # "padded" => readString(m, f) = v
  BY DEF Absent, readString, Trimmed
<1>4. QED
  BY <1>2, <1>3 DEF Present

\* What a row without errors promises of itself.
AircraftHolds(m) ==
    /\ Untrimmed(m, {"timeSource"}) \/ m["timeSource"] \in Texts(AIRCRAFT_TIME_SOURCES)
    /\ ~TooWide(m, {"yearManufactured"}, MaxInteger)

ComponentHolds(m) ==
    /\ Untrimmed(m, {"kind"}) \/ m["kind"] \in Texts(COMPONENT_KINDS)
    /\ \A f \in Limits : readNumber(m, f) # Null /\ readNumber(m, f)[2] <= 0 =>
           Read(m, "tboHours") = <<"fraction", 0>>

EntryHolds(m, w) ==
    \/ Untrimmed(m, {"entryType", "signedByCertificateNumber", "rtsTemplateCode"})
    \/ /\ m["entryType"] \in Texts(MAINTENANCE_ENTRY_TYPES)
       /\ m["signedByCertificateNumber"] \in w.credentials
       /\ m["rtsTemplateCode"] \in Texts(RtsCode)

ReadingHolds(m) ==
    /\ m["airframeTimeNew"][2] \in Int
    /\ readNumber(m, "airframeTimeNew") = m["airframeTimeNew"]
    /\ readNumber(m, "airframeTimeNew") # Null
    /\ IsTrue(m, "isOverride") => Overrides(m)

RowHolds(table, m, w) ==
    /\ table = "aircraft" => AircraftHolds(m)
    /\ table = "components" => ComponentHolds(m)
    /\ table = "maintenance_entries" => EntryHolds(m, w)
    /\ table = "flight_time_entries" => ReadingHolds(m)

\* requireNonEmpty and OneOf: the field is there, in the list as far as its blanks
\* let it.
LEMMA ListedField ==
  ASSUME NEW m, NEW f, NEW names, f \in names, NEW values,
         requireNonEmpty(m, names) = {}, OneOf(m, f, values) = {}
  PROVE  Read(m, f)[1] = "padded" \/ m[f] \in Texts(values)
<1>1. ~Absent(m, f)
  BY DEF requireNonEmpty, When
<1>2. readString(m, f) \in Texts(values)
  BY <1>1 DEF OneOf, When
<1>3. QED
  BY <1>1, <1>2, PresentField

\* aircraftValidator: a year in range fits its column.
LEMMA CleanAircraft ==
  ASSUME NEW m, aircraftValidator(m) = {}, IsValue(Read(m, "yearManufactured"))
  PROVE  AircraftHolds(m)
<1> DEFINE names == {"regimeId", "make", "model", "serialNumber", "category",
                     "aircraftClass", "registration", "timeSource"}
           v == readNumber(m, "yearManufactured")
<1>1. /\ requireNonEmpty(m, names) = {}
      /\ OneOf(m, "timeSource", AIRCRAFT_TIME_SOURCES) = {}
      /\ AtMost(m, "yearManufactured", 2100) = {}
  <2>1. \A a, b, c, d, e, g : a \cup b \cup c \cup d \cup e \cup g = {} =>
                                a = {} /\ d = {} /\ g = {}
    OBVIOUS
  <2> DEFINE register == When(/\ Regime = "FAA" /\ ~Absent(m, "registration")
                              /\ readString(m, "registration") \notin Texts(NNumber),
                              {"INVALID_REGISTRATION"})
  <2>2. aircraftValidator(m) =
            requireNonEmpty(m, names) \cup register
            \cup AtLeast(m, "yearManufactured", 1900)
            \cup AtMost(m, "yearManufactured", 2100)
            \cup AtLeast(m, "airframeTotalTime", 0)
            \cup OneOf(m, "timeSource", AIRCRAFT_TIME_SOURCES)
    BY Zenon DEF aircraftValidator
  <2> HIDE DEF register, names
  <2>3. QED
    BY <2>1, <2>2
<1>2. "timeSource" \in names
  OBVIOUS
<1> HIDE DEF names
<1>3. Untrimmed(m, {"timeSource"}) \/ m["timeSource"] \in Texts(AIRCRAFT_TIME_SOURCES)
  BY <1>1, <1>2, ListedField DEF Untrimmed
<1>4. v # Null => v[2] \in Int /\ ~(Size(v) > 2 * 2100)
  <2>1. v # Null => v[2] \in Int
    BY DEF readNumber, IsValue
  <2>2. v # Null => ~(Size(v) > 2 * 2100)
    BY <1>1 DEF AtMost, When
  <2>3. QED
    BY <2>1, <2>2
<1> HIDE DEF v
<1>5. v # Null => ~(v[2] > MaxInteger)
  BY <1>4, WorldsAssumption DEF Size
<1>6. QED
  BY <1>3, <1>5 DEF AircraftHolds, TooWide, v

\* componentValidator: a limit that numeric(10,2) would round to nothing can only
\* be a tboHours.
LEMMA CleanLimit ==
  ASSUME NEW m, componentValidator(m) = {}, NEW f \in Limits, IsValue(Read(m, f)),
         f # "tboHours" => Read(m, f)[1] # "fraction",
         readNumber(m, f) # Null, readNumber(m, f)[2] <= 0
  PROVE  Read(m, "tboHours") = <<"fraction", 0>>
<1> DEFINE v == Read(m, f)
<1>1. checkLifeLimit(m, f) = {}
  BY DEF componentValidator, Limits
<1>2. v[1] \in {"number", "fraction"} /\ v = readNumber(m, f) /\ v[2] \in Int
  BY DEF readNumber, IsValue
<1>3. Size(v) > 0
  <2>1. ~(Size(v) <= 0) /\ Size(v) \in Int
    <3>1. Size(v) \in Int
      BY <1>2 DEF Size
    <3>2. v # Null
      BY <1>2 DEF Null
    <3>3. readNumber(m, f) = v
      BY <1>2
    <3> HIDE DEF v
    <3>4. ~(~(v = Null) /\ (readNumber(m, f) = Null \/ Size(readNumber(m, f)) <= 0))
      BY <1>1 DEF checkLifeLimit, When, v
    <3>5. QED
      BY <3>1, <3>2, <3>3, <3>4
  <2>2. QED
    BY <2>1
<1>4. v[1] = "fraction" /\ v[2] = 0
  BY <1>2, <1>3 DEF Size
<1>5. f = "tboHours"
  BY <1>4
<1>6. v = <<v[1], v[2]>>
  BY DEF IsValue
<1>7. QED
  BY <1>4, <1>5, <1>6

LEMMA CleanComponent ==
  ASSUME NEW m, componentValidator(m) = {}, \A f \in Limits : IsValue(Read(m, f)),
         \A f \in Limits : f # "tboHours" => Read(m, f)[1] # "fraction"
  PROVE  ComponentHolds(m)
<1>1. requireNonEmpty(m, {"kind", "serialNumber"}) = {} /\ OneOf(m, "kind", COMPONENT_KINDS) = {}
  BY DEF componentValidator
<1>2. Untrimmed(m, {"kind"}) \/ m["kind"] \in Texts(COMPONENT_KINDS)
  BY <1>1, ListedField DEF Untrimmed
<1>3. QED
  BY <1>2, CleanLimit DEF ComponentHolds

\* enforceSignOffShape: the certificate and the template are there.
LEMMA CleanMaintenance ==
  ASSUME NEW m, maintenanceEntryValidator(m) = {}
  PROVE  EntryHolds(m, world)
<1> DEFINE certificate == "signedByCertificateNumber"
           code == "rtsTemplateCode"
<1>1. /\ enforceSignOffShape(m) = {}
      /\ requireNonEmpty(m, {"entryType", "workPerformed", "performedOn"}) = {}
      /\ OneOf(m, "entryType", MAINTENANCE_ENTRY_TYPES) = {}
  BY DEF maintenanceEntryValidator
<1>2. ~Absent(m, certificate) /\ ~Absent(m, code)
  BY <1>1 DEF enforceSignOffShape, When
<1>3. readString(m, code) \in Texts(RtsCode)
  BY <1>1, <1>2 DEF enforceSignOffShape, When
<1>4. credentialByCertificateNumber(readString(m, certificate))
  BY <1>1, <1>2 DEF enforceSignOffShape, When
<1>5. Read(m, certificate)[1] = "padded" \/ m[certificate] \in world.credentials
  BY <1>2, <1>4, PresentField DEF credentialByCertificateNumber
<1>6. Read(m, code)[1] = "padded" \/ m[code] \in Texts(RtsCode)
  BY <1>2, <1>3, PresentField
<1>7. Read(m, "entryType")[1] = "padded" \/ m["entryType"] \in Texts(MAINTENANCE_ENTRY_TYPES)
  BY <1>1, ListedField
<1>8. QED
  BY <1>5, <1>6, <1>7 DEF EntryHolds, Untrimmed

\* flightTimeEntryShape: the aircraft is an id, the reading a number that the
\* comparison takes part in.
LEMMA CleanFlight ==
  ASSUME NEW m, flightTimeEntryShape(m) = {}, IsValue(Read(m, "airframeTimeNew"))
  PROVE  /\ Present(m, "aircraftId") /\ ReadingHolds(m) /\ Comparable(m)
         /\ Size(m["airframeTimeNew"]) - 2 * m["airframeTimeNew"][2] \in 0 .. 1
<1> DEFINE new == Read(m, "airframeTimeNew")
<1>1. ResolvedAircraft(m) = {}
  BY DEF flightTimeEntryShape
<1>2. ~Absent(m, "aircraftId") /\ readString(m, "aircraftId")[1] = "uuid"
  BY <1>1 DEF ResolvedAircraft, When
<1>3. Present(m, "aircraftId")
  BY <1>2, PresentField
<1>4. readNumber(m, "airframeTimeNew") # Null
  BY DEF flightTimeEntryShape, When
<1>5. new[1] \in {"number", "fraction"} /\ readNumber(m, "airframeTimeNew") = new
  BY <1>4 DEF readNumber
<1>6. new = m["airframeTimeNew"] /\ new[2] \in Int
  <2>1. new # Null
    BY <1>5 DEF Null
  <2>2. QED
    BY <1>5, <2>1 DEF Read, IsValue
<1>7. AtLeast(m, "airframeTimeNew", 0) = {}
  BY DEF flightTimeEntryShape
<1>8. Size(new) \in Int /\ Size(new) - 2 * new[2] \in 0 .. 1
  BY <1>6 DEF Size
<1>9. Size(new) >= 0
  BY <1>4, <1>5, <1>7, <1>8 DEF AtLeast, When
<1>10. IsTrue(m, "isOverride") => Overrides(m)
  BY DEF flightTimeEntryShape, When, Overrides
<1> HIDE DEF new
<1>11. ReadingHolds(m)
  BY <1>4, <1>5, <1>6, <1>10 DEF ReadingHolds
<1>12. Comparable(m)
  BY <1>2, <1>4, <1>5, <1>9 DEF Comparable
<1>13. QED
  BY <1>3, <1>6, <1>8, <1>11, <1>12

-----------------------------------------------------------------------------
(* The rows of a parse.                                                      *)

\* What StageRow makes of a row, with the marks before and after it.
StagedAs(row, r, before, after) ==
    /\ r.mapped = applyMapping(row).mapped
    /\ Verdict(config.targetTable, r.mapped) \subseteq r.errors
    /\ config.targetTable = "flight_time_entries" =>
           /\ enforceMonotonicity(r.mapped, before).errors \subseteq r.errors
           /\ after = enforceMonotonicity(r.mapped, before).marks

\* StageRow appends one row.
LEMMA StageOneRow ==
  ASSUME NEW acc, NEW row
  PROVE  \E r : /\ StageRow(acc, row).rows = Append(acc.rows, r)
                /\ StagedAs(row, r, acc.marks, StageRow(acc, row).marks)
<1> DEFINE m == applyMapping(row).mapped
           batch == IF config.targetTable = "flight_time_entries"
                    THEN enforceMonotonicity(m, acc.marks)
                    ELSE [errors |-> {}, marks |-> acc.marks]
           errors == When(applyMapping(row).errors # {}, {"MAPPING_ERROR"})
                     \cup Verdict(config.targetTable, m) \cup batch.errors
           r == [mapped |-> m, errors |-> errors]
<1>1. StageRow(acc, row) = [rows |-> Append(acc.rows, r), marks |-> batch.marks]
  BY DEF StageRow
<1>2. r.mapped = m /\ r.errors = errors
  OBVIOUS
<1>3. Verdict(config.targetTable, m) \subseteq errors /\ batch.errors \subseteq errors
  OBVIOUS
<1>4. config.targetTable = "flight_time_entries" => batch = enforceMonotonicity(m, acc.marks)
  OBVIOUS
<1> HIDE DEF m, batch, errors, r
<1>5. StagedAs(row, r, acc.marks, batch.marks)
  BY <1>2, <1>3, <1>4 DEF StagedAs, m
<1>6. QED
  BY <1>1, <1>5

\* The staged rows are those of the file, in its order, with a chain of marks.
LEMMA StagedFacts ==
  ASSUME NEW n \in Nat, DOMAIN file = 1 .. n
  PROVE  /\ DOMAIN StagedRows = 1 .. n /\ Len(StagedRows) = n
         /\ \E marks : /\ marks[0] = NoMarks
                       /\ \A i \in 1 .. n :
                            StagedAs(file[i], StagedRows[i], marks[i - 1], marks[i])
<1>1. PICK acc : /\ acc[0] = [rows |-> <<>>, marks |-> NoMarks]
                 /\ \A k \in 1 .. n : acc[k] = StageRow(acc[k - 1], file[k])
                 /\ acc[n] = Staged(file)
  BY StageChain
<1> DEFINE New(i, r) == /\ acc[i].rows = Append(acc[i - 1].rows, r)
                        /\ StagedAs(file[i], r, acc[i - 1].marks, acc[i].marks)
           row == [i \in 1 .. n |-> CHOOSE r : New(i, r)]
           S == {row[i] : i \in 1 .. n}
<1>2. \A i \in 1 .. n : New(i, row[i])
  <2>1. ASSUME NEW i \in 1 .. n PROVE \E r : New(i, r)
    <3>1. acc[i] = StageRow(acc[i - 1], file[i])
      BY <1>1
    <3> DEFINE before == acc[i - 1]
    <3> HIDE DEF before
    <3>2. PICK r : /\ StageRow(before, file[i]).rows = Append(before.rows, r)
                   /\ StagedAs(file[i], r, before.marks, StageRow(before, file[i]).marks)
      BY StageOneRow
    <3>3. New(i, r)
      BY <3>1, <3>2 DEF before
    <3>4. QED
      BY <3>3
  <2> HIDE DEF New
  <2>2. QED
    BY <2>1
<1>3. \A i \in 1 .. n : row[i] \in S
  OBVIOUS
<1> HIDE DEF S, row
<1> DEFINE Holds(k) == /\ acc[k].rows \in Seq(S) /\ Len(acc[k].rows) = k
                       /\ \A i \in 1 .. k : acc[k].rows[i] = row[i]
           P == {k \in Nat : k <= n => Holds(k)}
<1>4. 0 \in P
  <2>1. acc[0].rows = <<>> /\ 1 .. 0 = {}
    BY <1>1
  <2>2. <<>> \in Seq(S) /\ Len(<<>>) = 0
    OBVIOUS
  <2>3. Holds(0)
    BY <2>1, <2>2
  <2> HIDE DEF Holds
  <2>4. QED
    BY <2>3
<1>5. ASSUME NEW k \in P PROVE k + 1 \in P
  <2>1. SUFFICES ASSUME k + 1 <= n PROVE Holds(k + 1)
    <3> HIDE DEF Holds
    <3>1. QED
      OBVIOUS
  <2>2. k \in Nat /\ k + 1 \in 1 .. n /\ (k + 1) - 1 = k
    BY <2>1
  <2>3. Holds(k)
    <3> HIDE DEF Holds
    <3>1. QED
      BY <2>1, <2>2
  <2>4. acc[k + 1].rows = Append(acc[k].rows, row[k + 1]) /\ row[k + 1] \in S
    BY <1>2, <1>3, <2>2
  <2> DEFINE s == acc[k].rows
             x == row[k + 1]
  <2>5. s \in Seq(S) /\ x \in S
    BY <2>3, <2>4
  <2> HIDE DEF s, x
  <2>6. /\ Append(s, x) \in Seq(S)
        /\ Len(Append(s, x)) = Len(s) + 1
        /\ \A i \in 1 .. Len(s) : Append(s, x)[i] = s[i]
        /\ Append(s, x)[Len(s) + 1] = x
    BY <2>5, AppendProperties
  <2>7. QED
    BY <2>2, <2>3, <2>4, <2>6 DEF s, x
<1>6. P = Nat
  <2>1. P \in SUBSET Nat
    OBVIOUS
  <2> HIDE DEF P
  <2>2. QED
    BY <1>4, <1>5, <2>1, AllNaturals
<1>7. Holds(n)
  <2> HIDE DEF Holds
  <2>1. QED
    BY <1>6
<1>8. StagedRows = acc[n].rows
  BY <1>1 DEF StagedRows, Staged
<1>9. DOMAIN StagedRows = 1 .. n
  <2>1. DOMAIN StagedRows = 1 .. Len(StagedRows)
    BY <1>7, <1>8, LenProperties
  <2>2. QED
    BY <1>7, <1>8, <2>1
<1> DEFINE marks == [k \in 0 .. n |-> acc[k].marks]
<1>10. ASSUME NEW i \in 1 .. n
       PROVE  StagedAs(file[i], StagedRows[i], marks[i - 1], marks[i])
  <2>1. StagedRows[i] = row[i] /\ New(i, row[i])
    BY <1>2, <1>7, <1>8
  <2>2. marks[i - 1] = acc[i - 1].marks /\ marks[i] = acc[i].marks
    OBVIOUS
  <2>3. QED
    BY <2>1, <2>2
<1>11. marks[0] = NoMarks
  BY <1>1
<1>12. Len(StagedRows) = n
  BY <1>7, <1>8
<1>13. QED
  BY <1>9, <1>10, <1>11, <1>12

CleanBatch(rows) == \A i \in DOMAIN rows : rows[i].errors = {}

\* A reading that is no override is not below an earlier one of its aircraft.
ReadingsRise(rows) ==
    \A i \in DOMAIN rows :
        LET m == rows[i].mapped IN
        \A j \in 1 .. i - 1 :
            rows[j].mapped["aircraftId"] = m["aircraftId"] /\ ~Overrides(m) =>
                rows[j].mapped["airframeTimeNew"][2] <= m["airframeTimeNew"][2]

\* What a clean batch promises of the rows of a table.
Promised(table, rows, w) ==
    /\ \A i \in DOMAIN rows : RowHolds(table, rows[i].mapped, w)
    /\ table = "flight_time_entries" => ReadingsRise(rows)

\* The marks of a clean batch are not below the readings before them.
MarksHold(rows, marks, k) ==
    /\ \A b \in DOMAIN marks : marks[b] \in Int
    /\ \A j \in 1 .. k : LET m == rows[j].mapped IN
           /\ readString(m, "aircraftId") \in DOMAIN marks
           /\ Size(m["airframeTimeNew"]) <= marks[readString(m, "aircraftId")]

\* An accepted reading keeps the marks above those before it, and is itself not
\* below them.
LEMMA MarksRise ==
  ASSUME NEW rows, NEW marks, NEW k \in Nat, NEW m, NEW after,
         MarksHold(rows, marks, k), m = rows[k + 1].mapped,
         Comparable(m), Size(m["airframeTimeNew"]) \in Int,
         \A j \in 1 .. k : Size(rows[j].mapped["airframeTimeNew"]) \in Int,
         enforceMonotonicity(m, marks).errors = {},
         after = enforceMonotonicity(m, marks).marks
  PROVE  /\ MarksHold(rows, after, k + 1)
         /\ ~Overrides(m) =>
                \A j \in 1 .. k :
                    readString(rows[j].mapped, "aircraftId") = readString(m, "aircraftId") =>
                        Size(rows[j].mapped["airframeTimeNew"]) <= Size(m["airframeTimeNew"])
<1> DEFINE a == readString(m, "aircraftId")
           size == Size(m["airframeTimeNew"])
           raised == [b \in DOMAIN marks \cup {a} |->
                        IF b = a /\ size > Mark(marks, a) THEN size ELSE Mark(marks, b)]
<1>2. /\ ~(size < Mark(marks, a) /\ ~Overrides(m))
      /\ after = raised
  <2>1. enforceMonotonicity(m, marks) =
            IF size < Mark(marks, a) /\ ~Overrides(m)
            THEN [errors |-> {"MONOTONICITY_VIOLATION"}, marks |-> marks]
            ELSE [errors |-> {}, marks |-> raised]
    BY DEF enforceMonotonicity
  <2> HIDE DEF raised, size, a
  <2>2. QED
    BY <2>1
<1>3. \A b \in DOMAIN marks \cup {a} : Mark(marks, b) \in Int
  BY DEF Mark, MarksHold
<1>4. \A b \in DOMAIN marks : marks[b] = Mark(marks, b)
  BY DEF Mark
<1>5. DOMAIN raised = DOMAIN marks \cup {a}
      /\ \A b \in DOMAIN marks \cup {a} :
             raised[b] = IF b = a /\ size > Mark(marks, a) THEN size ELSE Mark(marks, b)
  OBVIOUS
<1> HIDE DEF raised, a, size
<1>6. \A b \in DOMAIN raised : raised[b] \in Int
  BY <1>3, <1>5 DEF size
<1>7. ASSUME NEW j \in 1 .. k
      PROVE  LET b == readString(rows[j].mapped, "aircraftId")
             IN b \in DOMAIN raised /\ Size(rows[j].mapped["airframeTimeNew"]) <= raised[b]
  <2> DEFINE b == readString(rows[j].mapped, "aircraftId")
             old == Size(rows[j].mapped["airframeTimeNew"])
  <2>1. b \in DOMAIN marks /\ old <= marks[b] /\ old \in Int
    BY DEF MarksHold
  <2> HIDE DEF b, old
  <2>2. marks[b] = Mark(marks, b) /\ Mark(marks, b) \in Int /\ size \in Int
    BY <1>3, <1>4, <2>1 DEF size
  <2>3. b \in DOMAIN raised /\ old <= raised[b]
    BY <1>5, <2>1, <2>2
  <2>4. QED
    BY <2>3 DEF b, old
<1>8. a \in DOMAIN raised /\ size <= raised[a]
  BY <1>3, <1>5 DEF size
<1>9. MarksHold(rows, after, k + 1)
  <2>1. \A j \in 1 .. k + 1 : j \in 1 .. k \/ j = k + 1
    OBVIOUS
  <2>2. QED
    BY <1>2, <1>6, <1>7, <1>8, <2>1 DEF MarksHold, a, size
<1>10. ASSUME ~Overrides(m), NEW j \in 1 .. k, readString(rows[j].mapped, "aircraftId") = a
       PROVE  Size(rows[j].mapped["airframeTimeNew"]) <= size
  <2>1. a \in DOMAIN marks /\ Size(rows[j].mapped["airframeTimeNew"]) <= marks[a]
    BY <1>10 DEF MarksHold
  <2>2. marks[a] \in Int /\ size >= marks[a] /\ size \in Int
    BY <1>2, <1>3, <1>4, <1>10, <2>1 DEF size
  <2>3. Size(rows[j].mapped["airframeTimeNew"]) \in Int
    OBVIOUS
  <2>4. QED
    BY <2>1, <2>2, <2>3
<1>11. QED
  BY <1>9, <1>10 DEF a, size

\* The file of a job, as a parser makes it.
ParsedFile ==
    /\ Len(file) \in Nat /\ DOMAIN file = 1 .. Len(file)
    /\ \A i \in DOMAIN file : \A c \in DOMAIN file[i] : IsValue(file[i][c])

\* A clean batch keeps its table's promise.
LEMMA StagedPromise ==
  ASSUME CheckedConfig, ParsedFile, CleanBatch(StagedRows)
  PROVE  Promised(config.targetTable, StagedRows, world)
<1> DEFINE n == Len(file)
           table == config.targetTable
           rows == StagedRows
<1>1. DOMAIN rows = 1 .. n
  BY StagedFacts DEF ParsedFile
<1>2. PICK marks : /\ marks[0] = NoMarks
                   /\ \A i \in 1 .. n : StagedAs(file[i], rows[i], marks[i - 1], marks[i])
  BY StagedFacts DEF ParsedFile
<1> HIDE DEF rows
<1>3. \A i \in 1 .. n : rows[i].errors = {} /\ Verdict(table, rows[i].mapped) = {}
  BY <1>1, <1>2 DEF CleanBatch, rows, StagedAs
<1>4. ASSUME NEW i \in 1 .. n, NEW f
      PROVE  /\ IsValue(Read(rows[i].mapped, f))
             /\ table = "components" /\ f \in {"tboCalendarMonths", "cycleLimit"} =>
                    Read(rows[i].mapped, f)[1] # "fraction"
  <2>1. rows[i].mapped = applyMapping(file[i]).mapped
    BY <1>2 DEF StagedAs
  <2>2. \A c \in DOMAIN file[i] : IsValue(file[i][c])
    BY DEF ParsedFile
  <2>3. QED
    BY <2>1, <2>2, StagedValue
<1>5. ASSUME NEW i \in 1 .. n PROVE RowHolds(table, rows[i].mapped, world)
  <2> DEFINE m == rows[i].mapped
  <2>0. Verdict(table, m) = {} /\ \A f : IsValue(Read(m, f))
    BY <1>3, <1>4
  <2>1. table = "components" =>
            \A f \in Limits : f # "tboHours" => Read(m, f)[1] # "fraction"
    BY <1>4 DEF Limits
  <2> HIDE DEF m
  <2>2. CASE table = "aircraft"
    <3>1. aircraftValidator(m) = {}
      BY <2>0, <2>2 DEF Verdict
    <3>2. QED
      BY <2>0, <2>2, <3>1, CleanAircraft DEF RowHolds, m
  <2>3. CASE table = "components"
    <3>1. componentValidator(m) = {}
      BY <2>0, <2>3 DEF Verdict
    <3>2. ComponentHolds(m)
      BY <2>0, <2>1, <2>3, <3>1, CleanComponent
    <3>3. QED
      BY <2>3, <3>2 DEF RowHolds, m
  <2>4. CASE table = "maintenance_entries"
    <3>1. maintenanceEntryValidator(m) = {}
      BY <2>0, <2>4 DEF Verdict
    <3>2. QED
      BY <2>4, <3>1, CleanMaintenance DEF RowHolds, m
  <2>5. CASE table = "flight_time_entries"
    <3>1. flightTimeEntryShape(m) = {}
      BY <2>0, <2>5 DEF Verdict
    <3>2. QED
      BY <2>0, <2>5, <3>1, CleanFlight DEF RowHolds, m
  <2>6. CASE table \notin {"aircraft", "components", "maintenance_entries",
                           "flight_time_entries"}
    BY <2>6 DEF RowHolds
  <2>7. QED
    BY <2>2, <2>3, <2>4, <2>5, <2>6 DEF m
<1>7. ASSUME table = "flight_time_entries" PROVE ReadingsRise(rows)
  <2> DEFINE m(i) == rows[i].mapped
  <2>1. ASSUME NEW i \in 1 .. n
        PROVE  /\ Present(m(i), "aircraftId") /\ ReadingHolds(m(i)) /\ Comparable(m(i))
               /\ Size(m(i)["airframeTimeNew"]) \in Int
               /\ Size(m(i)["airframeTimeNew"]) - 2 * m(i)["airframeTimeNew"][2] \in 0 .. 1
    <3>1. flightTimeEntryShape(m(i)) = {}
      BY <1>3, <1>7 DEF Verdict
    <3>2. IsValue(Read(m(i), "airframeTimeNew"))
      BY <1>4
    <3> HIDE DEF m
    <3>3. QED
      BY <3>1, <3>2, CleanFlight DEF ReadingHolds, Size
  <2>2. ASSUME NEW i \in 1 .. n
        PROVE  /\ enforceMonotonicity(m(i), marks[i - 1]).errors = {}
               /\ marks[i] = enforceMonotonicity(m(i), marks[i - 1]).marks
    BY <1>2, <1>3, <1>7 DEF StagedAs
  <2> DEFINE Rise(k) ==
                 ~Overrides(m(k)) =>
                     \A j \in 1 .. k - 1 :
                         readString(m(j), "aircraftId") = readString(m(k), "aircraftId") =>
                             Size(m(j)["airframeTimeNew"]) <= Size(m(k)["airframeTimeNew"])
             P == {k \in Nat : k <= n =>
                      MarksHold(rows, marks[k], k) /\ (k > 0 => Rise(k))}
  <2>3. 0 \in P
    <3>1. DOMAIN marks[0] = {} /\ 1 .. 0 = {}
      BY <1>2 DEF NoMarks
    <3>2. MarksHold(rows, marks[0], 0)
      BY <3>1 DEF MarksHold
    <3>3. QED
      BY <3>2
  <2>4. ASSUME NEW k \in P PROVE k + 1 \in P
    <3>1. SUFFICES ASSUME k + 1 <= n
                   PROVE  MarksHold(rows, marks[k + 1], k + 1) /\ Rise(k + 1)
      <4> HIDE DEF Rise, m
      <4>1. QED
        OBVIOUS
    <3>2. k \in Nat /\ k + 1 \in 1 .. n /\ (k + 1) - 1 = k /\ \A j \in 1 .. k : j \in 1 .. n
      BY <3>1
    <3>3. MarksHold(rows, marks[k], k)
      <4> HIDE DEF Rise, m
      <4>1. QED
        BY <3>1, <3>2
    <3>4. /\ Comparable(m(k + 1))
          /\ Size(m(k + 1)["airframeTimeNew"]) \in Int
          /\ \A j \in 1 .. k : Size(m(j)["airframeTimeNew"]) \in Int
      <4> HIDE DEF m
      <4>1. QED
        BY <2>1, <3>2
    <3>5. /\ enforceMonotonicity(m(k + 1), marks[k]).errors = {}
          /\ marks[k + 1] = enforceMonotonicity(m(k + 1), marks[k]).marks
      <4> HIDE DEF m
      <4>1. QED
        BY <2>2, <3>2
    <3>6. QED
      BY <3>2, <3>3, <3>4, <3>5, MarksRise
  <2>5. P = Nat
    <3>1. P \in SUBSET Nat
      OBVIOUS
    <3> HIDE DEF P
    <3>2. QED
      BY <2>3, <2>4, <3>1, AllNaturals
  <2>6. ASSUME NEW i \in 1 .. n, NEW j \in 1 .. i - 1,
               m(j)["aircraftId"] = m(i)["aircraftId"], ~Overrides(m(i))
        PROVE  m(j)["airframeTimeNew"][2] <= m(i)["airframeTimeNew"][2]
    <3>1. i \in Nat /\ i <= n /\ i > 0 /\ j \in 1 .. n
      BY DEF ParsedFile
    <3>2. Rise(i)
      <4> HIDE DEF Rise, m
      <4>1. QED
        BY <2>5, <3>1
    <3>9. readString(m(j), "aircraftId") = readString(m(i), "aircraftId")
      <4>1. Present(m(i), "aircraftId") /\ Present(m(j), "aircraftId")
        <5> HIDE DEF m
        <5>1. QED
          BY <2>1, <3>1
      <4>2. QED
        BY <2>6, <4>1 DEF Present, readString
    <3>3. Size(m(j)["airframeTimeNew"]) <= Size(m(i)["airframeTimeNew"])
      BY <2>6, <3>2, <3>9
    <3> DEFINE x == m(j)["airframeTimeNew"]
               y == m(i)["airframeTimeNew"]
    <3>4. /\ x[2] \in Int /\ Size(x) \in Int /\ Size(x) - 2 * x[2] \in 0 .. 1
          /\ y[2] \in Int /\ Size(y) \in Int /\ Size(y) - 2 * y[2] \in 0 .. 1
      <4> HIDE DEF m
      <4>1. QED
        BY <2>1, <3>1 DEF ReadingHolds
    <3>5. Size(x) <= Size(y)
      BY <3>3
    <3> HIDE DEF x, y
    <3>6. x[2] <= y[2]
      BY <3>4, <3>5
    <3>7. QED
      BY <3>6 DEF x, y
  <2>7. QED
    BY <1>1, <2>6 DEF ReadingsRise
<1>8. QED
  BY <1>1, <1>5, <1>7 DEF Promised, rows

-----------------------------------------------------------------------------
(* The rows of a commit.                                                     *)

WorldShape(w) == DOMAIN w = {"total", "credentials", "components"}

\* A table of the model is not a rejection.
LEMMA NotRejected == \A w : WorldShape(w) => w # Rejected
<1>1. DOMAIN Rejected = {"rejected"}
  BY DEF Rejected
<1>2. QED
  BY <1>1 DEF WorldShape

\* As many values as positions: no two are the same.
LEMMA Distinct ==
  ASSUME NEW n \in Nat, NEW key, ~(Cardinality({key[i] : i \in 1 .. n}) < n)
  PROVE  \A i, j \in 1 .. n : key[i] = key[j] => i = j
<1> DEFINE S == 1 .. n
           T == {key[i] : i \in 1 .. n}
           f == [i \in S |-> key[i]]
<1>1. IsFiniteSet(S) /\ Cardinality(S) = n
  BY FS_Interval
<1>2. f \in Surjection(S, T)
  BY DEF Surjection
<1> HIDE DEF S, f
<1>3. IsFiniteSet(T) /\ Cardinality(T) <= n /\ (Cardinality(T) = n <=> f \in Injection(S, T))
  <2> HIDE DEF T
  <2>1. QED
    BY <1>1, <1>2, FS_Surjection
<1>4. Cardinality(T) \in Nat
  <2> HIDE DEF T
  <2>1. QED
    BY <1>3, FS_CardinalityType
<1>5. f \in Injection(S, T)
  BY <1>3, <1>4
<1>6. QED
  BY <1>5 DEF Injection, IsInjective, f, S

\* What is not left to the database, row by row.
LEMMA NotLeft ==
  ASSUME NEW rows, NEW w, ~LeftToTheDatabase(rows, w), NEW i \in DOMAIN rows
  PROVE  ~RowLeftToTheDatabase(config.targetTable, rows[i].mapped, w)
  BY DEF LeftToTheDatabase

\* New registrations, each once, in a regime that there is.
LEMMA AircraftGoIn ==
  ASSUME config.targetTable = "aircraft", NEW rows, NEW n \in Nat,
         DOMAIN rows = 1 .. n, Len(rows) = n, Promised("aircraft", rows, world),
         WorldShape(world), ~LeftToTheDatabase(rows, world)
  PROVE  Inserted(rows, world) # Rejected
<1>1. PICK c : /\ c[0] = world
               /\ \A k \in 1 .. n : c[k] = insertLiveRow(c[k - 1], rows[k])
               /\ c[n] = Inserted(rows, world)
  BY InsertChain
<1> DEFINE key == [i \in 1 .. n |-> rows[i].mapped["registration"]]
<1>2. Tails(rows) = {key[i] : i \in 1 .. n}
  BY DEF Tails
<1>3. /\ ~(Cardinality(Tails(rows)) < n)
      /\ \A i \in 1 .. n : key[i] \notin DOMAIN world.total
  BY <1>2 DEF LeftToTheDatabase
<1>4. \A i, j \in 1 .. n : key[i] = key[j] => i = j
  <2> HIDE DEF key
  <2>1. QED
    BY <1>2, <1>3, Distinct
<1> DEFINE Holds(k) == /\ WorldShape(c[k])
                       /\ DOMAIN c[k].total = DOMAIN world.total \cup {key[j] : j \in 1 .. k}
           P == {k \in 0 .. n : Holds(k)}
<1>5. 0 \in P
  <2> HIDE DEF key
  <2>1. {key[j] : j \in 1 .. 0} = {}
    OBVIOUS
  <2>2. Holds(0)
    BY <1>1, <2>1
  <2> HIDE DEF Holds
  <2>3. QED
    BY <2>2
<1>6. ASSUME NEW k \in P, k < n PROVE k + 1 \in P
  <2>1. Holds(k)
    OBVIOUS
  <2>2. k \in Nat /\ k + 1 \in 1 .. n /\ (k + 1) - 1 = k /\ \A j \in 1 .. k : j \in 1 .. n
    BY <1>6
  <2> DEFINE w == c[k]
             m == rows[k + 1].mapped
             total == IF readNumber(m, "airframeTotalTime") = Null THEN 0
                      ELSE readNumber(m, "airframeTotalTime")[2]
  <2>3. c[k + 1] = insertAircraft(m, w)
    <3>1. w # Rejected
      BY <2>1, NotRejected
    <3>2. c[k + 1] = insertLiveRow(w, rows[k + 1])
      BY <1>1, <2>2
    <3>3. QED
      BY <3>1, <3>2 DEF insertLiveRow
  <2>4. /\ m["registration"] = key[k + 1]
        /\ ~RowLeftToTheDatabase("aircraft", m, world) /\ AircraftHolds(m)
    BY <2>2, NotLeft DEF Promised, RowHolds
  <2>5. key[k + 1] \notin DOMAIN w.total
    <3>1. \A j \in 1 .. k : key[j] # key[k + 1]
      <4> HIDE DEF key
      <4>1. QED
        BY <1>4, <2>2
    <3> HIDE DEF key
    <3>2. QED
      BY <1>3, <2>1, <2>2, <3>1
  <2> HIDE DEF key, w, m, total
  <2>10. /\ m["regimeId"] \in Ids(Texts(Regimes))
         /\ m["timeSource"] \in Texts(AIRCRAFT_TIME_SOURCES)
         /\ ~TooWide(m, {"airframeTotalTime"}, MaxDecimal)
         /\ ~TooWide(m, {"yearManufactured"}, MaxInteger)
    BY <2>4 DEF RowLeftToTheDatabase, AircraftHolds
  <2>6. insertAircraft(m, w) =
            [w EXCEPT !.total = [t \in DOMAIN w.total \cup {key[k + 1]} |->
                                    IF t = key[k + 1] THEN total ELSE w.total[t]]]
    BY <2>4, <2>5, <2>10 DEF insertAircraft, total
  <2>7. WorldShape(c[k + 1]) /\ DOMAIN c[k + 1].total = DOMAIN w.total \cup {key[k + 1]}
    BY <2>1, <2>3, <2>6 DEF WorldShape, w
  <2>8. \A j \in 1 .. k + 1 : j \in 1 .. k \/ j = k + 1
    BY <2>2
  <2>9. QED
    BY <2>1, <2>2, <2>7, <2>8 DEF w
<1>7. n \in P
  <2>1. P \in SUBSET Nat
    OBVIOUS
  <2> HIDE DEF P
  <2>2. QED
    BY <1>5, <1>6, <2>1, UpTo
<1>8. QED
  BY <1>1, <1>7, NotRejected

\* New serial numbers, each once, and no limit that rounds to nothing.
LEMMA ComponentsGoIn ==
  ASSUME config.targetTable = "components", NEW rows, NEW n \in Nat,
         DOMAIN rows = 1 .. n, Len(rows) = n, Promised("components", rows, world),
         WorldShape(world), ~LeftToTheDatabase(rows, world)
  PROVE  Inserted(rows, world) # Rejected
<1>1. PICK c : /\ c[0] = world
               /\ \A k \in 1 .. n : c[k] = insertLiveRow(c[k - 1], rows[k])
               /\ c[n] = Inserted(rows, world)
  BY InsertChain
<1> DEFINE key == [i \in 1 .. n |-> <<rows[i].mapped["kind"],
                                      rows[i].mapped["serialNumber"]>>]
<1>2. Keys(rows) = {key[i] : i \in 1 .. n}
  BY DEF Keys
<1>3. /\ ~(Cardinality(Keys(rows)) < n)
      /\ \A i \in 1 .. n : key[i] \notin world.components
  BY <1>2 DEF LeftToTheDatabase
<1>4. \A i, j \in 1 .. n : key[i] = key[j] => i = j
  <2> HIDE DEF key
  <2>1. QED
    BY <1>2, <1>3, Distinct
<1> DEFINE Holds(k) == /\ WorldShape(c[k])
                       /\ c[k].components = world.components \cup {key[j] : j \in 1 .. k}
           P == {k \in 0 .. n : Holds(k)}
<1>5. 0 \in P
  <2> HIDE DEF key
  <2>1. {key[j] : j \in 1 .. 0} = {}
    OBVIOUS
  <2>2. Holds(0)
    BY <1>1, <2>1
  <2> HIDE DEF Holds
  <2>3. QED
    BY <2>2
<1>6. ASSUME NEW k \in P, k < n PROVE k + 1 \in P
  <2>1. Holds(k)
    OBVIOUS
  <2>2. k \in Nat /\ k + 1 \in 1 .. n /\ (k + 1) - 1 = k /\ \A j \in 1 .. k : j \in 1 .. n
    BY <1>6
  <2> DEFINE w == c[k]
             m == rows[k + 1].mapped
  <2>3. c[k + 1] = insertComponent(m, w)
    <3>1. w # Rejected
      BY <2>1, NotRejected
    <3>2. c[k + 1] = insertLiveRow(w, rows[k + 1])
      BY <1>1, <2>2
    <3>3. QED
      BY <3>1, <3>2 DEF insertLiveRow
  <2>4. /\ <<m["kind"], m["serialNumber"]>> = key[k + 1]
        /\ ~RowLeftToTheDatabase("components", m, world)
        /\ ComponentHolds(m)
    <3>1. <<m["kind"], m["serialNumber"]>> = key[k + 1]
      BY <2>2
    <3>2. ~RowLeftToTheDatabase("components", m, world)
      BY <2>2, NotLeft
    <3>3. ComponentHolds(m)
      BY <2>2 DEF Promised, RowHolds
    <3>4. QED
      BY <3>1, <3>2, <3>3
  <2>5. key[k + 1] \notin w.components
    <3>1. \A j \in 1 .. k : key[j] # key[k + 1]
      <4> HIDE DEF key
      <4>1. QED
        BY <1>4, <2>2
    <3> HIDE DEF key
    <3>2. QED
      BY <1>3, <2>1, <2>2, <3>1
  <2> HIDE DEF key, w, m
  <2>10. /\ m["kind"] \in Texts(COMPONENT_KINDS)
         /\ \A f \in Limits : ~(readNumber(m, f) # Null /\ readNumber(m, f)[2] <= 0)
         /\ ~TooWide(m, {"tboHours"}, MaxDecimal)
         /\ ~TooWide(m, {"tboCalendarMonths", "cycleLimit"}, MaxInteger)
    BY <2>4 DEF RowLeftToTheDatabase, ComponentHolds
  <2>6. insertComponent(m, w) = [w EXCEPT !.components = @ \cup {key[k + 1]}]
    BY <2>4, <2>5, <2>10 DEF insertComponent, Limits
  <2>7. WorldShape(c[k + 1]) /\ c[k + 1].components = w.components \cup {key[k + 1]}
    BY <2>1, <2>3, <2>6 DEF WorldShape, w
  <2>8. \A j \in 1 .. k + 1 : j \in 1 .. k \/ j = k + 1
    BY <2>2
  <2>9. QED
    BY <2>1, <2>2, <2>7, <2>8 DEF w
<1>7. n \in P
  <2>1. P \in SUBSET Nat
    OBVIOUS
  <2> HIDE DEF P
  <2>2. QED
    BY <1>5, <1>6, <2>1, UpTo
<1>8. QED
  BY <1>1, <1>7, NotRejected

\* A clean maintenance entry leaves the tables of the model as they are.
LEMMA MaintenanceGoesIn ==
  ASSUME config.targetTable = "maintenance_entries", NEW rows, NEW n \in Nat,
         DOMAIN rows = 1 .. n, Promised("maintenance_entries", rows, world),
         WorldShape(world), ~LeftToTheDatabase(rows, world)
  PROVE  Inserted(rows, world) # Rejected
<1>1. PICK c : /\ c[0] = world
               /\ \A k \in 1 .. n : c[k] = insertLiveRow(c[k - 1], rows[k])
               /\ c[n] = Inserted(rows, world)
  BY ONLY n \in Nat, DOMAIN rows = 1 .. n, InsertChain
<1>2. ASSUME NEW i \in 1 .. n PROVE insertMaintenanceEntry(rows[i].mapped, world) = world
  <2> DEFINE m == rows[i].mapped
  <2>1. ~RowLeftToTheDatabase("maintenance_entries", m, world) /\ EntryHolds(m, world)
    BY NotLeft DEF Promised, RowHolds
  <2> HIDE DEF m
  <2>2. /\ m["aircraftId"] \in AircraftIds(world)
        /\ ~Untrimmed(m, {"entryType", "signedByCertificateNumber", "rtsTemplateCode"})
        /\ IsDate(m["performedOn"]) /\ IsInstant(m["signedAt"])
        /\ Read(m, "inspectionProgramId") \in {Null} \cup Ids(Texts(Program))
        /\ ~TooWide(m, {"aircraftTotalTime"}, MaxDecimal)
    BY <2>1 DEF RowLeftToTheDatabase
  <2>3. QED
    BY <2>1, <2>2 DEF insertMaintenanceEntry, EntryHolds, m
<1> DEFINE P == {k \in 0 .. n : c[k] = world}
<1>3. 0 \in P
  BY <1>1
<1>4. ASSUME NEW k \in P, k < n PROVE k + 1 \in P
  <2>1. k + 1 \in 1 .. n /\ (k + 1) - 1 = k /\ k + 1 \in 0 .. n
    BY <1>4
  <2>2. c[k + 1] = insertLiveRow(world, rows[k + 1])
    BY <1>1, <2>1
  <2>3. c[k + 1] = insertMaintenanceEntry(rows[k + 1].mapped, world)
    BY <2>2, NotRejected DEF insertLiveRow
  <2>4. c[k + 1] = world
    BY <1>2, <2>1, <2>3
  <2>5. QED
    BY <2>1, <2>4
<1>5. n \in P
  <2>1. P \in SUBSET Nat
    OBVIOUS
  <2> HIDE DEF P
  <2>2. QED
    BY <1>3, <1>4, <2>1, UpTo
<1>6. QED
  BY <1>1, <1>5, NotRejected

\* The total of each aircraft is what it was before the batch, while no row of it
\* was for this aircraft, and the reading of one of those rows afterwards.
TotalsFollow(rows, k, w) ==
    /\ WorldShape(w)
    /\ DOMAIN w.total = DOMAIN world.total
    /\ \A b \in DOMAIN world.total :
           \/ /\ w.total[b] = world.total[b]
              /\ \A j \in 1 .. k : rows[j].mapped["aircraftId"] # Uuid(b)
           \/ \E j \in 1 .. k : /\ rows[j].mapped["aircraftId"] = Uuid(b)
                                /\ w.total[b] = rows[j].mapped["airframeTimeNew"][2]

\* Clean readings go in: none is below the total the trigger compares it with.
LEMMA FlightsGoIn ==
  ASSUME config.targetTable = "flight_time_entries", NEW rows, NEW n \in Nat,
         DOMAIN rows = 1 .. n, Promised("flight_time_entries", rows, world),
         WorldShape(world),
         world.total \in [DOMAIN world.total -> Int],
         ~LeftToTheDatabase(rows, world)
  PROVE  Inserted(rows, world) # Rejected
<1>1. PICK c : /\ c[0] = world
               /\ \A k \in 1 .. n : c[k] = insertLiveRow(c[k - 1], rows[k])
               /\ c[n] = Inserted(rows, world)
  BY ONLY n \in Nat, DOMAIN rows = 1 .. n, InsertChain
<1>2. ReadingsRise(rows) /\ \A i \in 1 .. n : ReadingHolds(rows[i].mapped)
  BY DEF Promised, RowHolds
<1>3. ASSUME NEW i \in 1 .. n
      PROVE  /\ rows[i].mapped["aircraftId"] \in AircraftIds(world)
             /\ ~TooWide(rows[i].mapped, {"airframeTimeNew"}, MaxDecimal)
  <2>1. ~RowLeftToTheDatabase("flight_time_entries", rows[i].mapped, world)
    BY NotLeft
  <2>2. QED
    BY <2>1 DEF RowLeftToTheDatabase
<1>4. \A i \in 1 .. n :
          LET m == rows[i].mapped IN
          \/ \E j \in 1 .. i - 1 : rows[j].mapped["aircraftId"] = m["aircraftId"]
          \/ Overrides(m)
          \/ ~(m["airframeTimeNew"][2] < world.total[m["aircraftId"][2]])
  BY DEF LeftToTheDatabase
<1> DEFINE P == {k \in 0 .. n : TotalsFollow(rows, k, c[k])}
<1>5. 0 \in P
  <2>1. TotalsFollow(rows, 0, c[0])
    BY <1>1 DEF TotalsFollow
  <2>2. QED
    BY <2>1
<1>6. ASSUME NEW k \in P, k < n PROVE k + 1 \in P
  <2>1. k \in Nat /\ k + 1 \in 1 .. n /\ (k + 1) - 1 = k
        /\ k + 1 \in 0 .. n /\ \A j \in 1 .. k : j \in 1 .. n
    BY <1>6
  <2> DEFINE w == c[k]
             m == rows[k + 1].mapped
             a == m["aircraftId"][2]
             new == m["airframeTimeNew"][2]
  <2>2. TotalsFollow(rows, k, w)
    OBVIOUS
  <2>3. c[k + 1] = insertFlightTimeEntry(m, w)
    <3>1. w # Rejected
      BY <2>2, NotRejected DEF TotalsFollow
    <3>2. c[k + 1] = insertLiveRow(w, rows[k + 1])
      BY <1>1, <2>1
    <3>3. QED
      BY <3>1, <3>2 DEF insertLiveRow
  <2>4. /\ m["aircraftId"] = Uuid(a)
        /\ a \in DOMAIN w.total /\ a \in DOMAIN world.total
    BY <1>3, <2>1, <2>2 DEF TotalsFollow, AircraftIds, Ids, Uuid
  <2>5. m["aircraftId"] = Uuid(a) /\ new \in Int
    BY <1>2, <2>1, <2>4 DEF ReadingHolds
  <2>6. \A j \in 1 .. k : rows[j].mapped["aircraftId"] = Uuid(a) /\ ~Overrides(m) =>
            rows[j].mapped["airframeTimeNew"][2] <= new
    <3>1. \A j \in 1 .. (k + 1) - 1 :
             rows[j].mapped["aircraftId"] = m["aircraftId"] /\ ~Overrides(m) =>
                 rows[j].mapped["airframeTimeNew"][2] <= new
      BY <1>2, <2>1 DEF ReadingsRise
    <3>2. QED
      BY <2>1, <2>5, <3>1
  <2>7. \A j \in 1 .. k : rows[j].mapped["airframeTimeNew"][2] \in Int
    BY <1>2, <2>1 DEF ReadingHolds
  <2>8. \/ \E j \in 1 .. k : rows[j].mapped["aircraftId"] = Uuid(a)
        \/ Overrides(m)
        \/ ~(new < world.total[a])
    <3>1. \/ \E j \in 1 .. (k + 1) - 1 : rows[j].mapped["aircraftId"] = m["aircraftId"]
          \/ Overrides(m)
          \/ ~(new < world.total[a])
      BY <1>4, <2>1
    <3>2. QED
      BY <2>1, <2>5, <3>1
  <2>17. m["aircraftId"] \in AircraftIds(w)
    BY <2>4 DEF AircraftIds, Ids
  <2>18. ~(new > MaxDecimal) /\ (IsTrue(m, "isOverride") => Overrides(m))
    BY <1>2, <1>3, <2>1 DEF TooWide, ReadingHolds
  <2> HIDE DEF w, m, a, new
  <2>9. ~(new < w.total[a] /\ ~Overrides(m))
    <3>1. CASE w.total[a] = world.total[a]
               /\ \A j \in 1 .. k : rows[j].mapped["aircraftId"] # Uuid(a)
      BY <2>8, <3>1
    <3>2. ASSUME NEW j \in 1 .. k, rows[j].mapped["aircraftId"] = Uuid(a),
                 w.total[a] = rows[j].mapped["airframeTimeNew"][2]
          PROVE  ~(new < w.total[a] /\ ~Overrides(m))
      BY <2>5, <2>6, <2>7, <3>2
    <3>3. QED
      BY <2>2, <2>4, <3>1, <3>2 DEF TotalsFollow
  <2>10. c[k + 1] = [w EXCEPT !.total[a] = new]
    BY <2>3, <2>9, <2>17, <2>18 DEF insertFlightTimeEntry, Overrides, a, new
  <2> DEFINE after == [w EXCEPT !.total[a] = new]
  <2>11. /\ WorldShape(after)
         /\ DOMAIN after.total = DOMAIN w.total
         /\ \A b \in DOMAIN w.total : after.total[b] = IF b = a THEN new ELSE w.total[b]
    BY <2>2, <2>4 DEF TotalsFollow, WorldShape
  <2> HIDE DEF after
  <2>12. \A j \in 1 .. k + 1 : j \in 1 .. k \/ j = k + 1
    BY <2>1
  <2>13. \A j \in 1 .. k : j \in 1 .. k + 1
    BY <2>1
  <2>14. ASSUME NEW b \in DOMAIN world.total
         PROVE  \/ /\ after.total[b] = world.total[b]
                   /\ \A j \in 1 .. k + 1 : rows[j].mapped["aircraftId"] # Uuid(b)
                \/ \E j \in 1 .. k + 1 :
                       /\ rows[j].mapped["aircraftId"] = Uuid(b)
                       /\ after.total[b] = rows[j].mapped["airframeTimeNew"][2]
    <3>1. b \in DOMAIN w.total
      BY <2>2 DEF TotalsFollow
    <3>2. CASE b = a
      <4>1. k + 1 \in 1 .. k + 1
        BY <2>1
      <4>2. rows[k + 1].mapped["aircraftId"] = Uuid(b)
            /\ after.total[b] = rows[k + 1].mapped["airframeTimeNew"][2]
        BY <2>5, <2>11, <3>1, <3>2 DEF m, new
      <4>3. QED
        BY <4>1, <4>2
    <3>3. CASE b # a
      <4>1. after.total[b] = w.total[b]
        BY <2>11, <3>1, <3>3
      <4>2. rows[k + 1].mapped["aircraftId"] # Uuid(b)
        BY <2>5, <3>3 DEF Uuid, m
      <4>3. QED
        BY <2>2, <2>12, <2>13, <4>1, <4>2 DEF TotalsFollow
    <3>4. QED
      BY <3>2, <3>3
  <2>15. TotalsFollow(rows, k + 1, after)
    BY <2>2, <2>11, <2>14 DEF TotalsFollow
  <2>16. QED
    BY <2>1, <2>10, <2>15 DEF after
<1>7. n \in P
  <2>1. P \in SUBSET Nat
    OBVIOUS
  <2> HIDE DEF P
  <2>2. QED
    BY <1>5, <1>6, <2>1, UpTo
<1>8. QED
  BY <1>1, <1>7, NotRejected DEF TotalsFollow

\* The tables have their shape until the job is committed, and a clean preview
\* stands by what it promises as long as nothing else has moved them.
PreviewInv ==
  /\ RowsInv
  /\ job.state # "committed" =>
         WorldShape(world) /\ world.total \in [DOMAIN world.total -> Int]
  /\ job.state = "ready" => Len(staged) \in Nat /\ DOMAIN staged = 1 .. Len(staged)
  /\ job.state = "ready" /\ ~moved /\ CleanBatch(staged) =>
         Promised(config.targetTable, staged, world)
  /\ CleanBatchGoesIn

\* The parse makes the promise.
LEMMA PreviewParse ==
  PreviewInv /\ RowsInv' /\ ParseImport => PreviewInv'
<1> SUFFICES ASSUME PreviewInv, RowsInv', ParseImport PROVE PreviewInv'
  OBVIOUS
<1>1. /\ UNCHANGED <<config, file, world>>
      /\ job'.state \in {"ready", "failed"} /\ job.state # "committed"
      /\ job' # State("failed", "ROW_INSERT_FAILED")
      /\ job'.state = "ready" => staged' = StagedRows
  BY DEF ParseImport, State
<1>2. PICK case \in Cases : config = case.config /\ file \in case.files
  BY DEF PreviewInv, RowsInv
<1>3. ParsedFile
  <2>1. file \in Seq({file[i] : i \in DOMAIN file})
    BY <1>2, CasesAssumption
  <2>2. Len(file) \in Nat /\ DOMAIN file = 1 .. Len(file)
    BY <2>1
  <2>3. QED
    BY <1>2, <2>2, CasesAssumption DEF ParsedFile
<1>4. ASSUME job'.state = "ready" PROVE CheckedConfig
  <2>1. validateMappingConfig(config, FileColumns) = {}
    <3>1. config' = config /\ FileColumns' = FileColumns
      BY <1>1 DEF FileColumns
    <3>2. QED
      BY <1>4, <3>1 DEF RowsInv
  <2>2. QED
    BY <1>2, <2>1, CasesAssumption DEF CheckedConfig
<1>5. job'.state = "ready" => Len(staged') \in Nat /\ DOMAIN staged' = 1 .. Len(staged')
  <2>1. DOMAIN StagedRows = 1 .. Len(file) /\ Len(StagedRows) = Len(file)
    BY <1>3, StagedFacts DEF ParsedFile
  <2>2. QED
    BY <1>1, <1>3, <2>1 DEF ParsedFile
<1>6. ASSUME job'.state = "ready", CleanBatch(staged)'
      PROVE  Promised(config.targetTable, staged, world)'
  <2>1. staged' = StagedRows /\ CleanBatch(StagedRows)
    BY <1>1, <1>6 DEF CleanBatch
  <2>2. Promised(config.targetTable, StagedRows, world)
    BY <1>3, <1>4, <1>6, <2>1, StagedPromise
  <2>3. UNCHANGED <<config, world>>
    BY <1>1
  <2> DEFINE rows == StagedRows
  <2> HIDE DEF rows
  <2>4. staged' = rows /\ Promised(config.targetTable, rows, world)
    BY <2>1, <2>2 DEF rows
  <2>5. QED
    BY <2>3, <2>4 DEF Promised
<1>7. QED
  BY <1>1, <1>5, <1>6 DEF PreviewInv, CleanBatchGoesIn

\* The commit keeps it.
LEMMA PreviewCommit ==
  PreviewInv /\ RowsInv' /\ CommitImport => PreviewInv'
<1> SUFFICES ASSUME PreviewInv, RowsInv', CommitImport PROVE PreviewInv'
  OBVIOUS
<1>1. /\ UNCHANGED <<config, file, staged, moved>>
      /\ job.state = "ready" /\ job'.state \in {"committed", "failed"}
      /\ job'.state = "failed" => world' = world
      /\ job' = State("failed", "ROW_INSERT_FAILED") =>
             CleanBatch(staged) /\ Inserted(staged, world) = Rejected
  <2> DEFINE after == Inserted(staged, world)
  <2>1. IF CleanBatch(staged) /\ after # Rejected
        THEN job' = State("committed", None) /\ world' = after
        ELSE /\ job' = State("failed", IF CleanBatch(staged) THEN "ROW_INSERT_FAILED"
                                       ELSE "IMPORT_JOB_HAS_INVALID_ROWS")
             /\ UNCHANGED world
    BY DEF CommitImport, CleanBatch, Inserted
  <2> HIDE DEF after
  <2>2. /\ job'.state \in {"committed", "failed"}
        /\ job'.state = "failed" => world' = world
        /\ job' = State("failed", "ROW_INSERT_FAILED") => CleanBatch(staged) /\ after = Rejected
    BY <2>1 DEF State
  <2>3. QED
    BY <2>2 DEF CommitImport, after
<1>2. config.targetTable \in DOMAIN TARGET_FIELDS
  BY CasesAssumption DEF PreviewInv, RowsInv
<1>3. ASSUME job' = State("failed", "ROW_INSERT_FAILED"), ~moved
      PROVE  LeftToTheDatabase(staged, world)
  <2> DEFINE n == Len(staged)
             table == config.targetTable
  <2>1. n \in Nat /\ DOMAIN staged = 1 .. n
    BY <1>1 DEF PreviewInv
  <2>2. WorldShape(world) /\ world.total \in [DOMAIN world.total -> Int]
    BY <1>1 DEF PreviewInv
  <2>3. Promised(table, staged, world)
    BY <1>1, <1>3 DEF PreviewInv
  <2>4. Inserted(staged, world) = Rejected
    BY <1>1, <1>3
  <2>5. SUFFICES ASSUME ~LeftToTheDatabase(staged, world) PROVE FALSE
    OBVIOUS
  <2>6. CASE table = "aircraft"
    BY <2>1, <2>2, <2>3, <2>4, <2>5, <2>6, AircraftGoIn
  <2>7. CASE table = "components"
    BY <2>1, <2>2, <2>3, <2>4, <2>5, <2>7, ComponentsGoIn
  <2>8. CASE table = "maintenance_entries"
    BY <2>1, <2>2, <2>3, <2>4, <2>5, <2>8, MaintenanceGoesIn
  <2>9. CASE table = "flight_time_entries"
    BY <2>1, <2>2, <2>3, <2>4, <2>5, <2>9, FlightsGoIn
  <2>10. QED
    BY <1>2, <2>6, <2>7, <2>8, <2>9 DEF TARGET_FIELDS
<1>4. CleanBatchGoesIn'
  <2>1. ASSUME job' = State("failed", "ROW_INSERT_FAILED"), ~moved
        PROVE  LeftToTheDatabase(staged, world)'
    <3>1. LeftToTheDatabase(staged, world)
      BY <1>3, <2>1
    <3>2. UNCHANGED <<config, staged, world>>
      BY <1>1, <2>1 DEF State
    <3>3. QED
      BY <3>1, <3>2 DEF LeftToTheDatabase, Tails, Keys, Overrides
  <2>2. QED
    BY <1>1, <2>1 DEF CleanBatchGoesIn
<1>5. QED
  BY <1>1, <1>4 DEF PreviewInv

\* Once somebody else has written, the promise is off.
LEMMA PreviewElsewhere ==
  PreviewInv /\ RowsInv' /\ Elsewhere => PreviewInv'
<1> SUFFICES ASSUME PreviewInv, RowsInv', Elsewhere PROVE PreviewInv'
  OBVIOUS
<1>1. UNCHANGED <<config, file, job, staged>> /\ moved' = TRUE /\ job.state = "ready"
  BY DEF Elsewhere
<1>2. WorldShape(world) /\ world.total \in [DOMAIN world.total -> Int]
  BY <1>1 DEF PreviewInv
<1>3. WorldShape(world') /\ world'.total \in [DOMAIN world'.total -> Int]
  <2>1. ASSUME NEW a \in DOMAIN world.total, NEW n \in 0 .. MaxHours,
               world' = [world EXCEPT !.total[a] = n]
        PROVE  WorldShape(world') /\ world'.total \in [DOMAIN world'.total -> Int]
    BY <1>2, <2>1, WorldsAssumption DEF WorldShape
  <2>2. ASSUME NEW c, world' = [world EXCEPT !.credentials = @ \ {c}]
        PROVE  WorldShape(world') /\ world'.total \in [DOMAIN world'.total -> Int]
    BY <1>2, <2>2 DEF WorldShape
  <2>3. ASSUME world' \in Worlds
        PROVE  WorldShape(world') /\ world'.total \in [DOMAIN world'.total -> Int]
    BY <2>3, WorldsAssumption DEF WorldShape
  <2>4. QED
    BY <2>1, <2>2, <2>3 DEF Elsewhere
<1>4. QED
  BY <1>1, <1>3 DEF PreviewInv, CleanBatchGoesIn

\* A batch the preview finds nothing wrong with is committed, unless the tenant's
\* data has moved since or the batch carries one of the faults only the database
\* looks for (handleParseImport against inserters.ts and the constraints and
\* triggers of the migrations), for any mapping, any file and any data of the tenant.
THEOREM CleanBatchesGoIn == RowsSpec => []CleanBatchGoesIn
<1>1. RowsInit => PreviewInv
  <2>1. SUFFICES ASSUME RowsInit PROVE PreviewInv
    OBVIOUS
  <2>2. job.state = "none" /\ job # State("failed", "ROW_INSERT_FAILED")
    BY <2>1 DEF RowsInit, State
  <2>3. WorldShape(world) /\ world.total \in [DOMAIN world.total -> Int]
    BY <2>1, WorldsAssumption DEF RowsInit, WorldShape
  <2>4. QED
    BY <2>1, <2>2, <2>3 DEF RowsInit, PreviewInv, RowsInv, CleanBatchGoesIn
<1>2. PreviewInv /\ [RowsNext]_rowsVars => PreviewInv'
  <2> SUFFICES ASSUME PreviewInv, [RowsNext]_rowsVars PROVE PreviewInv'
    OBVIOUS
  <2>1. RowsInv'
    BY RowsStep DEF PreviewInv
  <2>2. CASE CreateImport
    <3>1. UNCHANGED <<config, file, world, staged, moved>>
          /\ job.state = "none" /\ job'.state \in {"pending", "refused"}
          /\ job' # State("failed", "ROW_INSERT_FAILED")
      BY <2>2 DEF CreateImport, State
    <3>2. QED
      BY <2>1, <3>1 DEF PreviewInv, CleanBatchGoesIn
  <2>3. CASE ParseImport
    BY <2>1, <2>3, PreviewParse
  <2>4. CASE CommitImport
    BY <2>1, <2>4, PreviewCommit
  <2>5. CASE Elsewhere
    BY <2>1, <2>5, PreviewElsewhere
  <2>6. CASE UNCHANGED rowsVars
    <3>1. UNCHANGED <<config, file, world, job, staged, moved>>
      BY <2>6 DEF rowsVars
    <3>2. CleanBatchGoesIn'
      <4>1. ASSUME LeftToTheDatabase(staged, world) PROVE LeftToTheDatabase(staged, world)'
        BY <3>1, <4>1 DEF LeftToTheDatabase, Tails, Keys, Overrides
      <4>2. QED
        BY <3>1, <4>1 DEF PreviewInv, CleanBatchGoesIn
    <3>3. QED
      BY <2>1, <3>1, <3>2 DEF PreviewInv
  <2>7. QED
    BY <2>2, <2>3, <2>4, <2>5, <2>6 DEF RowsNext
<1>3. PreviewInv => CleanBatchGoesIn
  BY DEF PreviewInv
<1>4. QED
  BY <1>1, <1>2, <1>3, PTL DEF RowsSpec
=============================================================================
