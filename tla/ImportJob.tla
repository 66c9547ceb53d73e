----------------------------- MODULE ImportJob -----------------------------
(***************************************************************************)
(* One spreadsheet import job: the upload / parse / commit requests of     *)
(* apps/web/lib/admin/imports-handler.ts and the commit pipeline of        *)
(* packages/import/src/commit, over the tables import_jobs,                *)
(* import_job_rows and one live target table (migrations 0028 and 0029).   *)
(*                                                                         *)
(* A request is a process with a program counter.  The parse request runs  *)
(* on the direct connection, one autocommitted statement per step, and     *)
(* takes no lock; the commit request is one READ COMMITTED transaction     *)
(* that locks the job header first (SELECT ... FOR UPDATE), so its writes  *)
(* appear in a single step, CommitFlip, and statements that need the       *)
(* header's row lock wait for it.  Cell contents, mapping and validation   *)
(* verdicts are abstracted to a choice of "valid" or "invalid" per row,    *)
(* and row_count / error_summary / updated_at are left out.                *)
(***************************************************************************)
EXTENDS Naturals

CONSTANTS Parser,      \* parse requests that may be issued for the job
          Committer,   \* commit requests that may be issued for the job
          Row,         \* source row numbers of the uploaded file
          NaturalKey,  \* does the target table have a unique natural key?
          None,        \* SQL NULL / no row
          Manual       \* the single manual-entry request (commitManualRow)

ASSUME ConstantsAssumption ==
    /\ Row \subseteq Nat
    /\ NaturalKey \in BOOLEAN
    /\ None \notin Parser \cup Committer \cup {Manual}
    /\ Manual \notin Parser \cup Committer

VARIABLES job,      \* the import_jobs header row
          staged,   \* import_job_rows: source row number -> staging row or None
          live,     \* rows the pipeline inserted into the target table
          pState,   \* program counter of each parse request
          cState,   \* program counter of each commit request
          loaded,   \* staging rows each open commit transaction has read
          written   \* source rows each open commit transaction has inserted

vars == <<job, staged, live, pState, cState, loaded, written>>
parseVars == <<pState>>
commitVars == <<cState, loaded, written>>

-----------------------------------------------------------------------------
JobStates == {"none", "pending", "validating", "ready", "committed", "failed"}

StagedRow == [by: Parser \cup {Manual},
              status: {"valid", "invalid", "committed"},
              record: Committer \cup {Manual, None}]

\* A live row is identified by the request that inserted it and the source row
\* it holds; from is source_import_row_id (which staging row, by its inserter).
LiveRow == [row: Row, by: Committer \cup {Manual},
            from: Parser \cup {Manual, None}]

ParseInFlight == {"gated", "validating", "wiped", "staged", "failing"}
TxOpen == {"locked", "inserting"}

\* SQL NULL is not a row.
ASSUME NoneIsNoRow == None \notin StagedRow

TypeOK ==
    /\ job \in [state: JobStates, kind: {"file", "manual"},
                committedBy: Committer \cup {Manual, None}]
    /\ staged \in [Row -> StagedRow \cup {None}]
    /\ live \in SUBSET LiveRow
    /\ pState \in [Parser -> ParseInFlight \cup {"idle", "done", "threw"}]
    /\ cState \in [Committer -> TxOpen \cup {"idle", "aborted", "done"}]
    /\ loaded \in [Committer -> [Row -> StagedRow \cup {None}]]
    /\ written \in [Committer -> SUBSET Row]

NoRows == [r \in Row |-> None]

Init ==
    /\ job = [state |-> "none", kind |-> "file", committedBy |-> None]
    /\ staged = NoRows
    /\ live = {}
    /\ pState = [p \in Parser |-> "idle"]
    /\ cState = [c \in Committer |-> "idle"]
    /\ loaded = [c \in Committer |-> NoRows]
    /\ written = [c \in Committer |-> {}]

\* Mutant: the commit reads the header without FOR UPDATE.
NoHeaderLock == TRUE

\* A header UPDATE, a staging INSERT (its foreign key locks the header) and a
\* SELECT FOR UPDATE all wait while a commit transaction holds the header.
HeaderFree == \A c \in Committer : cState[c] \notin TxOpen

-----------------------------------------------------------------------------
(* Creation *)

\* handleCreateImport: the header row is inserted as 'pending'.
CreateImport ==
    /\ job.state = "none"
    /\ job' = [job EXCEPT !.state = "pending"]
    /\ UNCHANGED <<staged, live, parseVars, commitVars>>

\* commitManualRow: header, staging row, live row and both flips in one tx.
CommitManualRow ==
    /\ job.state = "none"
    /\ \E r \in Row :
        /\ staged' = [staged EXCEPT ![r] =
               [by |-> Manual, status |-> "committed", record |-> Manual]]
        /\ live' = live \cup {[row |-> r, by |-> Manual, from |-> Manual]}
    /\ job' = [state |-> "committed", kind |-> "manual", committedBy |-> Manual]
    /\ UNCHANGED <<parseVars, commitVars>>

-----------------------------------------------------------------------------
(* POST /api/admin/imports/:id/parse *)

ParseStep(p, from, to) ==
    /\ pState[p] = from
    /\ pState' = [pState EXCEPT ![p] = to]

SetState(s) == job' = [job EXCEPT !.state = s]

\* Mutant: a committed job may be parsed again.
ParseReadAnyFinished(p) ==
    /\ job.state \in {"pending", "failed", "committed"}
    /\ ParseStep(p, "idle", "gated")
    /\ UNCHANGED <<job, staged, live, commitVars>>

\* The unlocked read of the header and its state gate.
ParseRead(p) ==
    /\ job.state \in {"pending", "failed"}
    /\ ParseStep(p, "idle", "gated")
    /\ UNCHANGED <<job, staged, live, commitVars>>

\* The zip-bomb gate rejects the archive.
ParseRejectArchive(p) ==
    /\ ParseStep(p, "gated", "failing")
    /\ UNCHANGED <<job, staged, live, commitVars>>

\* UPDATE import_jobs SET state = 'validating' WHERE id = $1: no state guard.
ParseBegin(p) ==
    /\ HeaderFree
    /\ ParseStep(p, "gated", "validating")
    /\ SetState("validating")
    /\ UNCHANGED <<staged, live, commitVars>>

\* Mutant: the wipe leaves the breadcrumbs of live rows dangling.
ParseWipeNoSetNull(p) ==
    /\ \A c \in Committer : written[c] = {}
    /\ ParseStep(p, "validating", "wiped")
    /\ staged' = NoRows
    /\ UNCHANGED <<job, live, commitVars>>

\* DELETE FROM import_job_rows; live breadcrumbs go to NULL (ON DELETE SET
\* NULL).  Waits for a transaction that has written some of the rows.
ParseWipe(p) ==
    /\ \A c \in Committer : written[c] = {}
    /\ ParseStep(p, "validating", "wiped")
    /\ staged' = NoRows
    /\ live' = {[l EXCEPT !.from = None] : l \in live}
    /\ UNCHANGED <<job, commitVars>>

\* Mutant: an early return that forgets failParse.
ParseFailsSilently(p) ==
    /\ ParseStep(p, "wiped", "done")
    /\ UNCHANGED <<job, staged, live, commitVars>>

\* The file does not parse, its columns do not match the mapping, or the
\* staging transaction throws and rolls back.
ParseFails(p) ==
    /\ ParseStep(p, "wiped", "failing")
    /\ UNCHANGED <<job, staged, live, commitVars>>

\* The staging transaction: every row with its verdict.  The unique index on
\* (job, row number) makes it fail when another parse's rows are there.
ParseStage(p) ==
    /\ HeaderFree
    /\ \A r \in Row : staged[r] = None
    /\ ParseStep(p, "wiped", "staged")
    /\ \E verdict \in [Row -> {"valid", "invalid"}] :
        staged' = [r \in Row |->
            [by |-> p, status |-> verdict[r], record |-> None]]
    /\ UNCHANGED <<job, live, commitVars>>

\* UPDATE import_jobs SET state = 'ready': no state guard either.
ParseReady(p) ==
    /\ HeaderFree
    /\ ParseStep(p, "staged", "done")
    /\ SetState("ready")
    /\ UNCHANGED <<staged, live, commitVars>>

\* failParse.
FailParse(p) ==
    /\ HeaderFree
    /\ ParseStep(p, "failing", "done")
    /\ SetState("failed")
    /\ UNCHANGED <<staged, live, commitVars>>

\* A statement outside every try block throws (a lost connection, a deadlock
\* victim): the handler ends with a 500.  A crash of the server looks the same.
ParseThrows(p) ==
    /\ pState[p] \in ParseInFlight
    /\ pState' = [pState EXCEPT ![p] = "threw"]
    /\ UNCHANGED <<job, staged, live, commitVars>>

-----------------------------------------------------------------------------
(* POST /api/admin/imports/:id/commit *)

\* Mutant: a failed job may be committed.
CommitLockFailed(c) ==
    /\ cState[c] = "idle"
    /\ HeaderFree
    /\ cState' = [cState EXCEPT ![c] =
           IF job.state \in {"ready", "failed"} THEN "locked" ELSE "done"]
    /\ UNCHANGED <<job, staged, live, parseVars, loaded, written>>

\* SELECT ... FOR UPDATE, then the gate: 'committed' replays as a no-op, any
\* other state but 'ready' is refused.
CommitLock(c) ==
    /\ cState[c] = "idle"
    /\ HeaderFree
    /\ cState' = [cState EXCEPT ![c] =
           IF job.state = "ready" THEN "locked" ELSE "done"]
    /\ UNCHANGED <<job, staged, live, parseVars, loaded, written>>

\* Rollback: nothing the transaction wrote is visible, the header is released.
Rollback(c, next) ==
    /\ cState' = [cState EXCEPT ![c] = next]
    /\ loaded' = [loaded EXCEPT ![c] = NoRows]
    /\ written' = [written EXCEPT ![c] = {}]

\* Load every staging row; one invalid row refuses the whole batch.
CommitLoad(c) ==
    /\ cState[c] = "locked"
    /\ IF \E r \in Row : staged[r] # None /\ staged[r].status = "invalid"
       THEN Rollback(c, "aborted")
       ELSE /\ cState' = [cState EXCEPT ![c] = "inserting"]
            /\ loaded' = [loaded EXCEPT ![c] = staged]
            /\ UNCHANGED written
    /\ UNCHANGED <<job, staged, live, parseVars>>

\* Loaded rows the transaction still has to insert; rows already committed skip.
Todo(c) == {r \in Row : /\ loaded[c][r] # None
                        /\ loaded[c][r].status # "committed"
                        /\ r \notin written[c]}

\* INSERT of the next live row and UPDATE of its staging row.  The breadcrumb's
\* foreign key needs the staging row that was read; a natural key refuses a
\* second live row for the same source row.
CanInsert(c, r) ==
    /\ staged[r] = loaded[c][r]
    /\ NaturalKey => \A l \in live : l.row # r

CommitInsert(c) ==
    /\ cState[c] = "inserting"
    /\ \E r \in Todo(c) :
        /\ \A q \in Todo(c) : r <= q
        /\ CanInsert(c, r)
        /\ written' = [written EXCEPT ![c] = @ \cup {r}]
    /\ UNCHANGED <<job, staged, live, parseVars, cState, loaded>>

\* The guard query before the flip: valid rows this transaction left behind.
Uncommitted(c) == {r \in Row : /\ staged[r] # None
                               /\ staged[r].status = "valid"
                               /\ r \notin written[c]}

\* What COMMIT makes visible: flipped staging rows, live rows, the header.
CommitWrites(c) ==
    /\ staged' = [r \in Row |->
           IF r \in written[c]
           THEN [staged[r] EXCEPT !.status = "committed", !.record = c]
           ELSE staged[r]]
    /\ live' = live \cup
           {[row |-> r, by |-> c, from |-> staged[r].by] : r \in written[c]}
    /\ job' = [job EXCEPT !.state = "committed", !.committedBy = c]
    /\ Rollback(c, "done")   \* the transaction's own view is gone
    /\ UNCHANGED parseVars

\* Mutant: a row that cannot be inserted is skipped and the job flips anyway.
CommitFlipPartial(c) ==
    /\ cState[c] = "inserting"
    /\ CommitWrites(c)

\* Flip the header and COMMIT: every write of the transaction appears at once.
CommitFlip(c) ==
    /\ cState[c] = "inserting"
    /\ Todo(c) = {}
    /\ Uncommitted(c) = {}
    /\ CommitWrites(c)

\* Any statement of the transaction may fail: a row insert that violates a
\* constraint or no longer resolves, the guard query, the connection.
CommitAborts(c) ==
    /\ cState[c] \in TxOpen
    /\ Rollback(c, "aborted")
    /\ UNCHANGED <<job, staged, live, parseVars>>

\* recordCommitFailure: a second transaction writes 'failed', guarded.
RecordCommitFailure(c) ==
    /\ cState[c] = "aborted"
    /\ HeaderFree
    /\ cState' = [cState EXCEPT ![c] = "done"]
    /\ IF job.state # "committed" THEN SetState("failed") ELSE UNCHANGED job
    /\ UNCHANGED <<staged, live, parseVars, loaded, written>>

\* The second transaction fails too and is swallowed, or the server crashes:
\* Postgres rolls an open transaction back.
CommitDies(c) ==
    /\ cState[c] \in TxOpen \cup {"aborted"}
    /\ Rollback(c, "done")
    /\ UNCHANGED <<job, staged, live, parseVars>>

-----------------------------------------------------------------------------
Parse(p) ==
    \/ ParseRead(p) \/ ParseRejectArchive(p) \/ ParseBegin(p) \/ ParseWipe(p)
    \/ ParseFails(p) \/ ParseStage(p) \/ ParseReady(p) \/ FailParse(p)

Commit(c) ==
    \/ CommitLock(c) \/ CommitLoad(c) \/ CommitInsert(c) \/ CommitFlip(c)
    \/ CommitAborts(c) \/ RecordCommitFailure(c)

Next ==
    \/ CreateImport
    \/ CommitManualRow
    \/ \E p \in Parser : Parse(p) \/ ParseThrows(p)
    \/ \E c \in Committer : Commit(c) \/ CommitDies(c)

Spec == Init /\ [][Next]_vars

\* A request that has started keeps running: the event loop and Postgres' FIFO
\* lock queue starve no statement.  Nobody is obliged to issue a request.
Fairness ==
    /\ \A p \in Parser : WF_vars(pState[p] # "idle" /\ Parse(p))
    /\ \A c \in Committer : WF_vars(cState[c] # "idle" /\ Commit(c))

FairSpec == Spec /\ Fairness

\* The operator's client waits for the answer to a parse before it issues the
\* next one (the import wizard disables its buttons while a request runs).
OneParseAtATime ==
    \A p, q \in Parser :
        pState[p] \in ParseInFlight /\ pState[q] \in ParseInFlight => p = q

SerialSpec == Init /\ [][Next /\ OneParseAtATime']_vars
-----------------------------------------------------------------------------
(* Safety of every interleaving *)

\* The traceability of migration 0028 in both directions: a live row's
\* breadcrumb leads to a committed staging row that names that very record,
\* and a committed staging row's record exists and leads back to it.  (A wiped
\* staging row leaves its live rows with no breadcrumb, never a wrong one.)
BreadcrumbsAgree ==
    /\ \A l \in live :
        l.from # None =>
            /\ staged[l.row] # None
            /\ staged[l.row].by = l.from
            /\ staged[l.row].status = "committed"
            /\ staged[l.row].record = l.by
    /\ \A r \in Row :
        staged[r] # None /\ staged[r].status = "committed" =>
            [row |-> r, by |-> staged[r].record, from |-> staged[r].by] \in live

\* What a commit transaction has read stays true while it writes: each row it
\* has inserted is still the valid staging row it loaded, and no valid row has
\* appeared that it did not load, so the guard query before the flip (the
\* "CTO guard" of commitImportJob) never finds a row left behind.
GuardQueryFindsNothing ==
    \A c \in Committer : cState[c] = "inserting" =>
        /\ \A r \in written[c] :
            staged[r] = loaded[c][r] /\ staged[r].status = "valid"
        /\ Uncommitted(c) \subseteq Todo(c)

\* The inductive strengthening of the two above: only an inserting transaction
\* has written anything, there is one open transaction at a time and the header
\* it holds is 'ready', and while it is open a staging row it loaded is still
\* there unchanged or, if it has not been touched yet, may have been wiped; no
\* row it loaded is invalid.
TxInv ==
    /\ \A c \in Committer : written[c] # {} => cState[c] = "inserting"
    /\ \A c, d \in Committer :
        cState[c] \in TxOpen /\ cState[d] \in TxOpen => c = d
    /\ \A c \in Committer : cState[c] \in TxOpen => job.state = "ready"
    /\ \A c \in Committer : cState[c] = "inserting" =>
        \A r \in Row :
            /\ staged[r] = None \/ staged[r] = loaded[c][r]
            /\ r \in written[c] => staged[r] # None /\ staged[r].status = "valid"
            /\ loaded[c][r] # None => loaded[c][r].status # "invalid"

\* Before the upload there is nothing: no rows, no records, no request under way.
NothingBeforeUpload ==
    job.state = "none" =>
        /\ staged = NoRows
        /\ live = {}
        /\ \A p \in Parser : pState[p] = "idle"
        /\ \A c \in Committer : cState[c] \in {"idle", "done"}

\* All or nothing: a step that makes live rows visible also commits the job,
\* leaves no row of the batch uncommitted, flips valid rows only, and makes a
\* live row for each row it flips ("no live rows, no state drift").
CommitIsAllOrNothing ==
    [][(\E l \in live' : l \notin live /\ l.from # None) =>
        /\ job'.state = "committed"
        /\ \A r \in Row : staged'[r] # None => staged'[r].status = "committed"
        /\ \A r \in Row : staged'[r] # staged[r] =>
            /\ staged[r] # None => staged[r].status = "valid"
            /\ \E l \in live' : l.row = r /\ l \notin live]_vars

\* No header is left in 'validating' by requests that all end: the parse that
\* wrote it last moves it on, unless that parse died on the way.
ValidatingIsLeft ==
    job.state = "validating" ~>
        (job.state # "validating" \/ \E p \in Parser : pState[p] = "threw")

-----------------------------------------------------------------------------
(* Safety when parses of the job do not overlap *)

\* A committed job stays committed, whatever commits are retried or fail late.
CommittedIsTerminal ==
    [][job.state = "committed" => job'.state = "committed"]_vars

\* However often commits are retried, a source row has one live record.
OneLiveRowPerSourceRow ==
    \A l, m \in live : l.row = m.row => l = m

\* A live record exists only under a committed job, and a committed file job
\* has a record for every row of its file.
CommittedIsWhole ==
    /\ live # {} => job.state = "committed"
    /\ job.state = "committed" /\ job.kind = "file" =>
        \A r \in Row : \E l \in live : l.row = r

\* The inductive strengthening of the three above: while a parse is in flight
\* nothing is locked and the job is neither 'ready' nor committed, so nothing
\* is committed under it and it wipes no committed row; 'ready' means the whole
\* file is staged.
SerialInv ==
    /\ OneParseAtATime
    /\ \A p \in Parser : pState[p] \in ParseInFlight =>
        HeaderFree /\ job.state \in {"pending", "validating", "failed"}
    /\ \A p \in Parser : pState[p] = "staged" => \A r \in Row : staged[r] # None
    /\ job.state = "ready" => \A r \in Row : staged[r] # None
    /\ job.state = "committed" /\ job.kind = "file" =>
        \A r \in Row : staged[r] # None /\ staged[r].status = "committed"
    /\ job.kind = "manual" => job.state = "committed"
    /\ live # {} => job.state = "committed"
    /\ \A l \in live : l.from # None

\* The job as its operator sees it implements the abstract life cycle.
Lifecycle == INSTANCE ImportJobLifecycle
    WITH phase <- job.state, records <- {l.row : l \in live}
LifecycleSpec == Lifecycle!Spec

=============================================================================
