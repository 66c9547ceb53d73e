---------------------------- MODULE ImportWizard ----------------------------
(***************************************************************************)
(* The spreadsheet import wizard (apps/web/app/admin/imports/new/          *)
(* ImportWizard.tsx) against the upload, parse and commit requests of      *)
(* imports-handler.ts, with the job page (imports/[id]/JobActions.tsx)     *)
(* open in another tab.                                                    *)
(*                                                                         *)
(* The wizard reads a CSV asynchronously, lets the operator map columns to *)
(* fields, and sends upload and parse as one chain and commit as another.  *)
(* Nothing but the buttons keeps the operator from picking another file or *)
(* changing the mapping while an answer is on its way.  A request is       *)
(* handled by the server in one step (ImportJob has its statements, and    *)
(* ImportRows the verdicts, which are a choice here); its answer may be    *)
(* lost.  Sheet name, regime override, sample rows and the error texts are *)
(* left out.                                                               *)
(***************************************************************************)
EXTENDS ImportMapping, FiniteSets

CONSTANTS Table,        \* target tables in play, "aircraft" among them
          Tenant,
          Column,       \* column headers
          Word,         \* texts typed into a constant or code field
          File,         \* files on the operator's disk
          fileOf,       \* what they are, see FileKind
          LookupKind,   \* lookup kinds the operator tries
          MaxPicks,     \* bounds: files picked, changes of setup and mapping,
          MaxEdits,     \*         jobs created,
          MaxJobs,
          MaxVisits     \*         requests of the job page

\* head: the header row as the browser reads it; columns: as the server does,
\* which trims; text: is it a CSV the browser can read; xlsx: its name says so;
\* rows: are there data rows.
FileKind == [head: SUBSET Column, columns: SUBSET Column, text: BOOLEAN,
             xlsx: BOOLEAN, rows: BOOLEAN]

ASSUME WizardAssumption ==
    /\ fileOf \in [File -> FileKind]
    /\ "aircraft" \in Table /\ Table \subseteq DOMAIN TARGET_FIELDS
    /\ LookupKind \subseteq LOOKUP_KINDS
    /\ None \notin File \cup Column \cup Word \cup Tenant

VARIABLES tenantId, targetTable,          \* step 1
          picked, columns,                \* step 2: the file and its columns
          reads,                          \* files whose text is being read
          maps,                           \* step 3: field -> FieldMap
          submitting, createdJobId, parseResult, commitResult,
          call,                           \* the request on its way, or None
          jobs,                           \* import_jobs, by id
          picks, edits, visits            \* what the bounds count

setupVars == <<tenantId, targetTable, maps>>
fileVars == <<picked, columns, reads, picks>>
resultVars == <<createdJobId, parseResult, commitResult>>
serverVars == <<jobs, visits>>
vars == <<setupVars, fileVars, submitting, resultVars, call, serverVars, edits>>

-----------------------------------------------------------------------------
(* Field maps *)

\* What a select or an input of the mapping row holds; None is undefined or "".
FieldMap == [kind: {"skip", "column", "constant", "lookup"},
             sourceColumn: Column \cup {None},
             value: Word \cup {None, "FAA"},
             lookupKind: LOOKUP_KINDS \cup {None},
             componentKind: COMPONENT_KINDS \cup {None}]

MapOf(kind, lookupKind, value) ==
    [kind |-> kind, sourceColumn |-> None, value |-> value,
     lookupKind |-> lookupKind, componentKind |-> None]

fields == targetFieldsFor(targetTable)

defaultMapFor(f) ==
    CASE f.name = "regimeId" -> MapOf("lookup", "regime_by_code", "FAA")
      [] f.name = "aircraftId" -> MapOf("lookup", "aircraft_by_registration", None)
      [] f.name = "inspectionProgramId" ->
             MapOf(IF f.required THEN "lookup" ELSE "skip",
                   "inspection_program_by_code", None)
      [] f.type # "uuid" ->
             MapOf(IF f.required THEN "column" ELSE "skip", None, None)

DefaultMaps(table) ==
    LET names == {f.name : f \in targetFieldsFor(table)}
    IN [n \in names |-> defaultMapFor(findTargetField(table, n))]

\* FieldMapRow: another kind of source drops what it has no use for.
SwitchKind(m, k) ==
    [m EXCEPT !.kind = k,
        !.sourceColumn = IF k \in {"column", "lookup"} THEN @ ELSE None,
        !.value = IF k = "constant" \/ (k = "lookup" /\ m.lookupKind = "regime_by_code")
                  THEN @ ELSE None,
        !.lookupKind = IF k = "lookup" THEN @ ELSE None,
        !.componentKind = IF k = "lookup" /\ m.lookupKind = "component_by_serial"
                          THEN @ ELSE None]

\* Another lookup keeps the column or the code, whichever it needs.
SwitchLookup(m, k) ==
    [m EXCEPT !.lookupKind = k,
        !.value = IF k = "regime_by_code" THEN @ ELSE None,
        !.sourceColumn = IF k = "regime_by_code" THEN None ELSE @]

\* What the controls of a field's row, as they are rendered, can turn it into.
FieldMapRow(f, m) ==
    LET kinds == {"column", "constant", "lookup"} \cup (IF f.required THEN {} ELSE {"skip"})
        takesColumn == m.kind = "column" \/ (m.kind = "lookup" /\ m.lookupKind # None
                                             /\ m.lookupKind # "regime_by_code")
        takesWord == m.kind = "constant" \/ m.lookupKind = "regime_by_code"
    IN {SwitchKind(m, k) : k \in kinds}
       \cup (IF m.kind # "lookup" THEN {}
             ELSE {SwitchLookup(m, k) : k \in LookupKind \cup {None}})
       \cup (IF ~takesColumn THEN {}
             ELSE {[m EXCEPT !.sourceColumn = c] : c \in columns \cup {None}})
       \cup (IF ~takesWord THEN {}
             ELSE {[m EXCEPT !.value = w] : w \in Word \cup {None}})
       \cup (IF m.lookupKind # "component_by_serial" THEN {}
             ELSE {[m EXCEPT !.componentKind = c] : c \in {None, "engine"}})

-----------------------------------------------------------------------------
(* What is done, derived on every render *)

\* Mutant: the kind of component is not asked for.
LookupIncompleteAnyKind(m) ==
    \/ m.lookupKind = None
    \/ m.lookupKind = "regime_by_code" /\ m.value = None
    \/ m.lookupKind # "regime_by_code" /\ m.sourceColumn = None

LookupIncomplete(m) ==
    \/ m.lookupKind = None
    \/ m.lookupKind = "regime_by_code" /\ m.value = None
    \/ m.lookupKind # "regime_by_code" /\ m.sourceColumn = None
    \/ m.lookupKind = "component_by_serial" /\ m.componentKind = None

\* Only required fields are looked at.
mappingIncomplete ==
    {f \in fields :
        LET m == maps[f.name] IN
        /\ f.required
        /\ \/ m.kind = "skip"
           \/ m.kind = "column" /\ m.sourceColumn = None
           \/ m.kind = "constant" /\ m.value = None
           \/ m.kind = "lookup" /\ LookupIncomplete(m)}

step1Done == tenantId # None
step2Done == step1Done /\ picked # None /\ columns # {}
step3Done == step2Done /\ mappingIncomplete = {}

Clean(result) == result # None /\ result.state = "ready" /\ ~result.invalid
canCommit == Clean(parseResult) /\ parseResult.rows /\ commitResult = None

-----------------------------------------------------------------------------
(* buildMappingConfig *)

\* The JSON constant a typed text becomes.
coerceConstant(word, type) ==
    CASE type \in {"decimal", "integer"} ->
             IF word = None THEN Number(0) ELSE IF word = "1" THEN Number(1)
             ELSE Text(word)
      [] type = "boolean" ->
             IF word = None THEN Bool(FALSE) ELSE IF word = "1" THEN Bool(TRUE)
             ELSE Text(word)
      [] OTHER -> IF word = None THEN Blank ELSE Text(word)

\* A field's binding; a column map without a column and a lookup without a kind
\* leave nothing behind.
Bindings(f) ==
    LET m == maps[f.name] IN
    CASE m.kind = "column" /\ m.sourceColumn # None ->
             {ColumnMapping(f.name, m.sourceColumn,
                            IF f.type = "date" THEN "date" ELSE None,
                            IF f.type = "date" THEN "ISO" ELSE None)}
      [] m.kind = "constant" ->
             {ConstantMapping(f.name, coerceConstant(m.value, f.type))}
      [] m.kind = "lookup" /\ m.lookupKind = "regime_by_code" ->
             {ConstantKeyLookup(f.name, IF m.value = None THEN Blank ELSE Text(m.value))}
      [] m.kind = "lookup" /\ m.lookupKind \notin {None, "regime_by_code"} ->
             {ColumnDrivenLookup(f.name, m.lookupKind, m.sourceColumn, m.componentKind)}
      [] OTHER -> {}

buildMappingConfig ==
    [targetTable |-> targetTable, bindings |-> UNION {Bindings(f) : f \in fields}]

-----------------------------------------------------------------------------
(* Steps 1 to 3: the operator at the form *)

Edit == edits < MaxEdits /\ edits' = edits + 1

pickTenant ==
    /\ Edit
    /\ tenantId' \in (Tenant \cup {None}) \ {tenantId}
    /\ UNCHANGED <<targetTable, maps, fileVars, submitting, resultVars, call, serverVars>>

\* The effect on targetTable starts the mapping over; what was validated stays.
pickTable ==
    /\ Edit
    /\ targetTable' \in Table \ {targetTable}
    /\ maps' = DefaultMaps(targetTable')
    /\ UNCHANGED <<tenantId, fileVars, submitting, resultVars, call, serverVars>>

editMap ==
    /\ step2Done
    /\ Edit
    /\ \E f \in fields : \E m \in FieldMapRow(f, maps[f.name]) \ {maps[f.name]} :
           maps' = [maps EXCEPT ![f.name] = m]
    /\ UNCHANGED <<tenantId, targetTable, fileVars, submitting, resultVars, call, serverVars>>

\* handleFile, up to the await: everything known of the last file goes, and a
\* CSV of a possible size is read.  A request on its way is not told.
handleFile(f) ==
    /\ step1Done
    /\ picks < MaxPicks /\ picks' = picks + 1
    /\ picked' = f
    /\ columns' = {}
    /\ createdJobId' = None /\ parseResult' = None /\ commitResult' = None
    /\ reads' = IF f # None /\ fileOf[f].text /\ ~fileOf[f].xlsx
                THEN reads \cup {f} ELSE reads
    /\ UNCHANGED <<setupVars, submitting, call, serverVars, edits>>

\* The text is there: its first row becomes the columns, whichever file is
\* picked by now.
ReadFile(f) ==
    /\ f \in reads
    /\ reads' = reads \ {f}
    /\ columns' = fileOf[f].head
    /\ UNCHANGED <<picked, picks, setupVars, submitting, resultVars, call,
                   serverVars, edits>>

\* The text cannot be read, or holds no row.
ReadFails(f) ==
    /\ f \in reads
    /\ reads' = reads \ {f}
    /\ UNCHANGED <<picked, columns, picks, setupVars, submitting, resultVars,
                   call, serverVars, edits>>

\* The browser reads no .xlsx: its columns are typed in, while it has none.
WantsColumns == picked # None /\ fileOf[picked].xlsx /\ columns = {}

applyManualColumns ==
    /\ WantsColumns
    /\ columns' \in (SUBSET Column) \ {{}}
    /\ UNCHANGED <<picked, reads, picks, setupVars, submitting, resultVars,
                   call, serverVars, edits>>

-----------------------------------------------------------------------------
(* Steps 4 and 5: the requests *)

\* The Validate button: there until a validation came back clean.
ValidateEnabled == step3Done /\ ~submitting /\ ~Clean(parseResult)

\* The Commit button: there after a clean validation until a commit succeeded.
CommitEnabled == canCommit /\ ~submitting

Request(kind, job, config) ==
    [kind |-> kind, job |-> job, file |-> picked, config |-> config, answer |-> None]

\* Mutant: the last result stays until the new one is there.
uploadAndParseKeepsResult ==
    /\ ValidateEnabled
    /\ Cardinality({j \in DOMAIN jobs : jobs[j] # None}) < MaxJobs
    /\ submitting' = TRUE
    /\ createdJobId' = None /\ commitResult' = None
    /\ call' = Request("upload", None, buildMappingConfig)
    /\ UNCHANGED <<parseResult, setupVars, fileVars, serverVars, edits>>

uploadAndParse ==
    /\ ValidateEnabled
    /\ Cardinality({j \in DOMAIN jobs : jobs[j] # None}) < MaxJobs
    /\ submitting' = TRUE
    /\ createdJobId' = None /\ parseResult' = None /\ commitResult' = None
    /\ call' = Request("upload", None, buildMappingConfig)
    /\ UNCHANGED <<setupVars, fileVars, serverVars, edits>>

commit ==
    /\ CommitEnabled
    /\ createdJobId # None
    /\ submitting' = TRUE
    /\ call' = [Request("commit", createdJobId, None) EXCEPT !.file = None]
    /\ UNCHANGED <<setupVars, fileVars, resultVars, serverVars, edits>>

Answered(answer) == call' = [call EXCEPT !.answer = answer, !.config = None, !.file = None]

Sources(config) == {b.source : b \in config.bindings} \ {None}

\* handleCreateImport: a mapping that is wrong whatever the file is refused, and
\* so is a tenant without a regime or an archive that may be a bomb.
handleCreateImport ==
    /\ call # None /\ call.kind = "upload" /\ call.answer = None
    /\ \/ /\ validateMappingConfig(call.config, None) = {}
          /\ LET id == CHOOSE j \in DOMAIN jobs :
                           jobs[j] = None /\ \A i \in DOMAIN jobs : jobs[i] = None => j <= i
             IN /\ jobs' = [jobs EXCEPT ![id] =
                       [file |-> call.file, sources |-> Sources(call.config),
                        state |-> "pending", invalid |-> FALSE]]
                /\ Answered([ok |-> TRUE, job |-> id])
       \/ UNCHANGED jobs /\ Answered([ok |-> FALSE, job |-> None])
    /\ UNCHANGED <<setupVars, fileVars, submitting, resultVars, visits, edits>>

\* The columns of the parsed file: none when it has no rows.
HeaderColumns(j) ==
    IF fileOf[jobs[j].file].rows THEN fileOf[jobs[j].file].columns ELSE {}

NoColumnIsMissing(j) == jobs[j].sources \subseteq HeaderColumns(j)

\* handleParseImport on a job that may be parsed: with no column missing the job
\* is ready, whatever is wrong with its rows; it fails if the file does not parse.
Parsed(j, state, invalid) ==
    /\ jobs[j].state \in {"pending", "failed"}
    /\ \/ state = "failed" /\ ~invalid
       \/ /\ state = "ready" /\ NoColumnIsMissing(j)
          /\ invalid => fileOf[jobs[j].file].rows
    /\ jobs' = [jobs EXCEPT ![j].state = state, ![j].invalid = invalid]

\* handleCommitImport on a job that is ready: all its rows go in, or it fails.
Committed(j, state) ==
    /\ jobs[j].state = "ready"
    /\ state = "committed" => ~jobs[j].invalid
    /\ jobs' = [jobs EXCEPT ![j].state = state]

handleParseImport ==
    /\ call # None /\ call.kind = "parse" /\ call.answer = None
    /\ LET j == call.job IN
       \/ \E state \in {"ready", "failed"}, invalid \in BOOLEAN :
            /\ Parsed(j, state, invalid)
            /\ Answered([ok |-> TRUE, job |-> j, state |-> state, invalid |-> invalid,
                         rows |-> state = "ready" /\ fileOf[jobs[j].file].rows])
       \/ /\ jobs[j].state \notin {"pending", "failed"}
          /\ UNCHANGED jobs
          /\ Answered([ok |-> FALSE, job |-> j])
    /\ UNCHANGED <<setupVars, fileVars, submitting, resultVars, visits, edits>>

handleCommitImport ==
    /\ call # None /\ call.kind = "commit" /\ call.answer = None
    /\ LET j == call.job IN
       \/ \E state \in {"committed", "failed"} :
            Committed(j, state) /\ Answered([ok |-> state = "committed", job |-> j])
       \/ /\ jobs[j].state # "ready"
          /\ UNCHANGED jobs
          /\ Answered([ok |-> jobs[j].state = "committed", job |-> j])
    /\ UNCHANGED <<setupVars, fileVars, submitting, resultVars, visits, edits>>

Done == submitting' = FALSE /\ call' = None

\* What the page makes of a 200 whose body it cannot read: {}, of no job and no state.
Unread == [ok |-> TRUE, job |-> None, state |-> None, invalid |-> FALSE, rows |-> FALSE]

\* The answer to the upload: a job id carries the chain on, anything else ends it.
ReceiveUpload ==
    /\ call # None /\ call.kind = "upload" /\ call.answer # None
    /\ \/ /\ call.answer.ok
          /\ createdJobId' = call.answer.job
          /\ call' = [kind |-> "parse", job |-> call.answer.job, file |-> None,
                      config |-> None, answer |-> None]
          /\ UNCHANGED submitting
       \/ Done /\ UNCHANGED createdJobId
    /\ UNCHANGED <<parseResult, commitResult, setupVars, fileVars, serverVars, edits>>

ReceiveParse ==
    /\ call # None /\ call.kind = "parse" /\ call.answer # None
    /\ IF call.answer.ok THEN parseResult' \in {call.answer, Unread}
                         ELSE UNCHANGED parseResult
    /\ Done
    /\ UNCHANGED <<createdJobId, commitResult, setupVars, fileVars, serverVars, edits>>

ReceiveCommit ==
    /\ call # None /\ call.kind = "commit" /\ call.answer # None
    /\ IF call.answer.ok THEN commitResult' \in {call.answer, Unread}
                         ELSE UNCHANGED commitResult
    /\ Done
    /\ UNCHANGED <<createdJobId, parseResult, setupVars, fileVars, serverVars, edits>>

\* Mutant: a throw leaves the form submitting.
NetworkErrorStuck ==
    /\ call # None
    /\ call' = None
    /\ UNCHANGED <<submitting, setupVars, fileVars, resultVars, serverVars, edits>>

\* fetch throws: the request or its answer is lost.
NetworkError ==
    /\ call # None
    /\ Done
    /\ UNCHANGED <<setupVars, fileVars, resultVars, serverVars, edits>>

-----------------------------------------------------------------------------
\* The job page in another tab re-validates or commits the same jobs.
JobActions ==
    /\ visits < MaxVisits /\ visits' = visits + 1
    /\ \E j \in DOMAIN jobs :
        /\ jobs[j] # None
        /\ \/ \E state \in {"ready", "failed"}, invalid \in BOOLEAN :
                  Parsed(j, state, invalid)
           \/ /\ fileOf[jobs[j].file].rows
              /\ \E state \in {"committed", "failed"} : Committed(j, state)
    /\ UNCHANGED <<setupVars, fileVars, submitting, resultVars, call, edits>>

-----------------------------------------------------------------------------
Init ==
    /\ tenantId = None /\ targetTable = "aircraft"
    /\ maps = DefaultMaps("aircraft")
    /\ picked = None /\ columns = {} /\ reads = {}
    /\ submitting = FALSE /\ call = None
    /\ createdJobId = None /\ parseResult = None /\ commitResult = None
    /\ jobs = [j \in 1 .. MaxJobs |-> None]
    /\ picks = 0 /\ edits = 0 /\ visits = 0

Operator ==
    \/ pickTenant \/ pickTable \/ editMap \/ applyManualColumns
    \/ \E f \in File \cup {None} : handleFile(f)
    \/ uploadAndParse \/ commit \/ JobActions

Server == handleCreateImport \/ handleParseImport \/ handleCommitImport

Browser ==
    \/ \E f \in File : ReadFile(f) \/ ReadFails(f)
    \/ ReceiveUpload \/ ReceiveParse \/ ReceiveCommit \/ NetworkError

Next == Operator \/ Server \/ Browser

Spec == Init /\ [][Next]_vars

\* A request is answered or fails, and an answer is processed.  The operator
\* need do nothing.
FairSpec == Spec /\ WF_vars(Server) /\ WF_vars(Browser)

Results == [ok: {TRUE}, job: DOMAIN jobs, state: {"ready", "failed"},
            invalid: BOOLEAN, rows: BOOLEAN]

TypeOK ==
    /\ tenantId \in Tenant \cup {None} /\ targetTable \in Table
    /\ maps \in [{f.name : f \in fields} -> FieldMap]
    /\ picked \in File \cup {None} /\ columns \subseteq Column /\ reads \subseteq File
    /\ submitting = (call # None)
    /\ createdJobId \in DOMAIN jobs \cup {None}
    /\ parseResult \in Results \cup {None, Unread}

-----------------------------------------------------------------------------
\* The verdict on the screen is the verdict on the job the Commit button would
\* commit, whatever was picked, changed or lost while it was on its way.  (A body that
\* cannot be read holds no verdict.)
ResultIsOfItsJob ==
    createdJobId # None /\ parseResult \notin {None, Unread} =>
        parseResult.job = createdJobId

\* What the wizard lets through, the server refuses only for what the wizard
\* never looks at: a constant of the wrong type or a lookup for a field that is
\* no id, and whatever is incomplete about an optional field.
UploadIsWellFormed ==
    call # None /\ call.kind = "upload" /\ call.config # None =>
        LET issues == validateMappingConfig(call.config, None)
            Required(i) == \E f \in targetFieldsFor(call.config.targetTable) :
                               f.name = i.target /\ f.required
        IN \A i \in issues :
            \/ i.code \in {"INVALID_CONSTANT_TYPE", "INVALID_ENUM_CONSTANT",
                           "FORMAT_TYPE_MISMATCH"}
            \/ ~Required(i) /\ i.code \in {"MISSING_LOOKUP_KEY", "MISSING_COMPONENT_KIND"}
            \/ /\ i.code = "MISSING_REQUIRED_FIELD"
               /\ \E k \in issues :
                    k.target = i.target /\ k.code = "FORMAT_TYPE_MISMATCH"

\* The buttons come back: every chain of requests ends.
SubmittingEnds == submitting ~> ~submitting
=============================================================================
