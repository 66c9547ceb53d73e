------------------------------ MODULE Squawks ------------------------------
(***************************************************************************)
(* Squawks of one aircraft (packages/aircraft/src/squawk-service.ts).      *)
(* Filing is one transaction whose effect is a new open row (with its      *)
(* photos).  Resolving reads the row, refuses a resolved one, and updates  *)
(* by id without looking at the status again: another request may have     *)
(* resolved the squawk between the two statements.                         *)
(***************************************************************************)
CONSTANTS Squawk,      \* squawks that may be filed
          Resolver,    \* requests to resolve one of them
          Nobody       \* SQL NULL

ASSUME NobodyAssumption == Nobody \notin Resolver \cup Squawk

VARIABLES squawk,      \* the squawks table
          rsPc,        \* where each resolve request is
          rsTarget     \* the squawk it names

sqVars == <<squawk, rsPc, rsTarget>>
-----------------------------------------------------------------------------
Severities == {"informational", "deferred", "grounding"}

SquawkRow == [status: {"none", "open", "resolved"},
              severity: Severities,
              by: Resolver \cup {Nobody}]   \* whose resolution notes it carries

SquawksTypeOK ==
    /\ squawk \in [Squawk -> SquawkRow]
    /\ rsPc \in [Resolver -> {"idle", "read", "done", "refused"}]
    /\ rsTarget \in [Resolver -> Squawk \cup {Nobody}]

SquawksInit ==
    /\ squawk = [s \in Squawk |->
           [status |-> "none", severity |-> "informational", by |-> Nobody]]
    /\ rsPc = [r \in Resolver |-> "idle"]
    /\ rsTarget = [r \in Resolver |-> Nobody]

File(s) ==
    /\ squawk[s].status = "none"
    /\ \E severity \in Severities :
        squawk' = [squawk EXCEPT ![s] =
            [status |-> "open", severity |-> severity, by |-> Nobody]]
    /\ UNCHANGED <<rsPc, rsTarget>>

\* getById and the check of the status it returned.
ResolveRead(r) ==
    /\ rsPc[r] = "idle"
    /\ \E s \in Squawk :
        /\ squawk[s].status # "none"
        /\ rsTarget' = [rsTarget EXCEPT ![r] = s]
        /\ rsPc' = [rsPc EXCEPT ![r] =
               IF squawk[s].status = "resolved" THEN "refused" ELSE "read"]
    /\ UNCHANGED squawk

\* The UPDATE by id and the COMMIT.
ResolveWrite(r) ==
    /\ rsPc[r] = "read"
    /\ rsPc' = [rsPc EXCEPT ![r] = "done"]
    /\ squawk' = [squawk EXCEPT ![rsTarget[r]].status = "resolved",
                                ![rsTarget[r]].by = r]
    /\ UNCHANGED rsTarget

SquawksNext ==
    \/ \E s \in Squawk : File(s)
    \/ \E r \in Resolver : ResolveRead(r) \/ ResolveWrite(r)
-----------------------------------------------------------------------------
\* listOpenGroundingForAircraft.
OpenGrounding ==
    {s \in Squawk : squawk[s].status = "open" /\ squawk[s].severity = "grounding"}

\* A squawk that was resolved stays resolved, with its severity, whatever resolve
\* requests are still under way.
ResolvedForGood ==
    [][\A s \in Squawk : squawk[s].status = "resolved" =>
        /\ squawk'[s].status = "resolved"
        /\ squawk'[s].severity = squawk[s].severity]_sqVars

\* The notes of a resolution are replaced only by a request that read the squawk
\* before the first one committed: a request issued later is always refused.
LateResolveRefused ==
    [][\A r \in Resolver, s \in Squawk :
        rsPc[r] = "idle" /\ rsTarget'[r] = s /\ squawk[s].status = "resolved" =>
            rsPc'[r] = "refused"]_sqVars
=============================================================================
