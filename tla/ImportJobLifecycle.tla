------------------------- MODULE ImportJobLifecycle -------------------------
(***************************************************************************)
(* What an import job promises its operator (migration 0028's state        *)
(* machine and the "all-or-nothing" contract of commitImportJob): a job    *)
(* goes from pending through validating to ready, may fail and be parsed   *)
(* again, and is committed once, together with the live records of every   *)
(* row of the file; a committed job never changes again.                   *)
(***************************************************************************)
CONSTANT Row

VARIABLES phase,     \* the job's state
          records    \* source rows that have a live record

vars == <<phase, records>>

Init == phase = "none" /\ records = {}

Create == phase = "none" /\ phase' = "pending" /\ UNCHANGED records

Validate == /\ phase \in {"pending", "validating", "failed"}
            /\ phase' = "validating"
            /\ UNCHANGED records

Ready == /\ phase \in {"pending", "validating", "failed"}
         /\ phase' = "ready"
         /\ UNCHANGED records

\* A parse or a commit that fails; the job may be parsed again.
Fail == /\ phase \in {"pending", "validating", "ready", "failed"}
        /\ phase' = "failed"
        /\ UNCHANGED records

\* Every row of the file becomes a record in the step that commits the job.
Commit == phase = "ready" /\ phase' = "committed" /\ records' = Row

\* A manual entry is a one-row job, created already committed.
CommitManual == /\ phase = "none"
                /\ phase' = "committed"
                /\ \E r \in Row : records' = {r}

Next == Create \/ Validate \/ Ready \/ Fail \/ Commit \/ CommitManual

Spec == Init /\ [][Next]_vars
=============================================================================
