--------------------------- MODULE FieldDecisions ---------------------------
(***************************************************************************)
(* FaaRegistrySection (apps/web/components/faa) on the page of an aircraft *)
(* and the decisions it records (AircraftFaaDecisionService): one row per  *)
(* field, the latest.  The section loads the rows once, when the page is   *)
(* opened, and looks the registration up; a field that differs gets a chip *)
(* whose buttons post a decision.  One field at a time is busy, whoever's  *)
(* answer comes ends that.                                                 *)
(*                                                                         *)
(* The registry is reloaded every night.  Reasons and notes of reports are *)
(* left out, and so is the choice of a reason.                             *)
(***************************************************************************)
EXTENDS FaaLookup

CONSTANTS NoValue,      \* a field the aircraft has no value for
          MaxDecisions, \* bound: decisions posted
          MaxVisits,    \* bound: times the page is opened
          MaxNights     \* bound: nights on which the registry changes

ASSUME DecisionsAssumption ==
    /\ NoValue \notin Value /\ NoValue # None
    /\ MaxDecisions \in Nat /\ MaxVisits \in Nat /\ MaxNights \in Nat

VARIABLES tail,     \* the N-number of the aircraft's registration
          values,   \* the aircraft's own values
          table,    \* aircraft_faa_field_decisions
          recorded, \* how many rows were written: decided_at of the last
          shown,    \* the decisions the page knows
          load,     \* the GET of the decisions
          busyKey,  \* the field whose buttons are disabled
          sheet,    \* the field whose report is being written
          reporting, \* does the open sheet wait for its own report?
          reports,  \* the reports whose chip has been a conflict since they were sent
          sends,    \* the decisions under way
          sent,     \* how many were posted
          visits,   \* how often the page was opened
          nights,   \* how often the registry changed
          raced     \* ghost: did two requests about a field overlap?

sheetVars == <<sheet, reporting, reports>>
sectionVars == <<shown, load, busyKey, sheetVars>>
sendVars == <<sends, sent>>
tableVars == <<table, recorded>>
bounds == <<visits, nights>>
decisionVars == <<tail, values, tableVars, sectionVars, sendVars, bounds, raced>>
-----------------------------------------------------------------------------
Decision == {"accepted_faa", "tenant_wins", "faa_reported_wrong"}
DecisionRow == [decision : Decision, faa : Value \cup {None},
                tenant : Value \cup {NoValue}, at : Nat]
Decisions == [Field -> DecisionRow \cup {None}]

\* An answer is the row written, or "failed".
Send == [id : 1..MaxDecisions, field : Field, decision : Decision,
         faa : Value \cup {None}, state : {"sent", "recorded", "failed"},
         at : Nat, visit : 1..MaxVisits]

DecisionTypeOK ==
    /\ tail \in NNumber \cup {None}
    /\ values \in [Field -> Value \cup {NoValue}]
    /\ table \in Decisions
    /\ recorded \in Nat
    /\ shown \in Decisions
    /\ load.state \in {"none", "sent", "answered"} /\ load.rows \in Decisions
    /\ busyKey \in Field \cup {None}
    /\ sheet \in Field \cup {None}
    /\ reporting \in BOOLEAN
    /\ reports \subseteq 1..MaxDecisions
    /\ sends \subseteq Send
    /\ sent \in 0..MaxDecisions
    /\ visits \in 0..MaxVisits
    /\ nights \in 0..MaxNights
    /\ raced \in BOOLEAN

NoRows == [f \in Field |-> None]
Loading(state, rows) == [state |-> state, rows |-> rows]

DecisionInit ==
    /\ tail = None
    /\ values = [f \in Field |-> NoValue]
    /\ table = NoRows
    /\ recorded = 0
    /\ shown = NoRows
    /\ load = Loading("none", NoRows)
    /\ busyKey = None
    /\ sheet = None
    /\ reporting = FALSE
    /\ reports = {}
    /\ sends = {}
    /\ sent = 0
    /\ visits = 0
    /\ nights = 0
    /\ raced = FALSE
-----------------------------------------------------------------------------
\* What the chip of a field shows.  The hash that was pinned beside a
\* decision is not looked at.
deriveFieldState(s, known, f) ==
    CASE s.kind = "loading" -> "loading"
      [] s.kind \in {"idle", "no_match"} -> "no_faa_data"
      [] s.kind = "lookup_unavailable" -> "faa_lookup_error"
      [] OTHER ->
           CASE known[f] # None -> known[f].decision
             [] known[f] = None /\ s.value[f] = None -> "no_faa_data"
             [] OTHER -> IF values[f] = s.value[f] THEN "aligned" ELSE "conflict"

Chip(f) == deriveFieldState(status, shown, f)

\* A chip that is no conflict any more takes its report sheet with it, and what the
\* sheet was to do when its report is answered.
SheetFollows(s, known, closes) ==
    LET still(f) == deriveFieldState(s, known, f) = "conflict"
    IN  /\ sheet' = IF sheet # None /\ still(sheet) /\ ~closes THEN sheet ELSE None
        /\ reporting' = (reporting /\ sheet' # None)
        /\ reports' = {i \in reports : \E p \in sends' : p.id = i /\ still(p.field)}
-----------------------------------------------------------------------------
(***************************************************************************)
(* Opening the page.                                                       *)
(***************************************************************************)
\* A new page: nothing known, the decisions asked for, the lookup's debounce
\* started.  What the page before had sent goes on without it.
Mount(n, own) ==
    /\ visits < MaxVisits
    /\ visits' = visits + 1
    /\ tail' = n
    /\ values' = own
    /\ shown' = NoRows
    /\ load' = Loading("sent", NoRows)
    /\ busyKey' = None
    /\ sheet' = None
    /\ reporting' = FALSE
    /\ reports' = {}
    /\ status' = Idle
    /\ requestSeq' = IF n = None THEN 0 ELSE 1
    /\ timer' = n
    /\ requests' = {}
    /\ raced' = (raced \/ sends # {})
    /\ UNCHANGED <<registry, tableVars, sendVars, nights>>

Reopened == visits > 0 /\ Mount(tail, values)

handleAircraftFaaDecisionsList ==
    /\ load.state = "sent"
    /\ load' = Loading("answered", table)
    /\ UNCHANGED <<lookupVars, tail, values, tableVars, shown, busyKey, sheetVars,
                   sendVars, bounds, raced>>

\* The rows replace whatever the page knew.
LoadArrives ==
    /\ load.state = "answered"
    /\ UNCHANGED <<lookupVars, tail, values, tableVars, busyKey, sendVars, bounds, raced>>
    /\ shown' = load.rows
    /\ load' = Loading("none", NoRows)
    /\ SheetFollows(status, load.rows, FALSE)

\* A load that fails is not mentioned.
LoadFails ==
    /\ load.state \in {"sent", "answered"}
    /\ load' = Loading("none", NoRows)
    /\ UNCHANGED <<lookupVars, tail, values, tableVars, shown, busyKey, sheetVars,
                   sendVars, bounds, raced>>

\* The registration does not change, so no request is ever stale.
SectionLookupStep ==
    /\ visits > 0
    /\ UNCHANGED <<tail, values, tableVars, shown, load, busyKey, sendVars, bounds, raced>>
    /\ \/ runLookup
       \/ \E r \in requests :
              \/ \E answer \in {handleFaaLookup(r.nNumber), Unavailable(r.nNumber)} :
                     Arrive(r, answer)
              \/ FetchThrows(r)
              \/ DropStale(r)
              \/ ReadBody(r)
    /\ SheetFollows(status', shown, FALSE)

SectionRetry ==
    /\ visits > 0
    /\ status.kind \in {"no_match", "lookup_unavailable"}
    /\ Requery(tail)
    /\ UNCHANGED <<registry, requests, decisionVars>>

NightlyLoad(next) ==
    /\ nights < MaxNights
    /\ next # registry
    /\ nights' = nights + 1
    /\ registry' = next
    /\ UNCHANGED <<status, requestSeq, timer, requests, tail, values, tableVars,
                   sectionVars, sendVars, visits, raced>>
-----------------------------------------------------------------------------
(***************************************************************************)
(* Deciding.                                                               *)
(***************************************************************************)
\* The FAA value posted is the one on the screen.  (What becomes of the sheet is the
\* caller's.)
postDecision(f, decision) ==
    /\ Chip(f) = "conflict"
    /\ sent < MaxDecisions
    /\ sent' = sent + 1
    /\ busyKey' = f
    /\ sends' = sends \cup
           {[id |-> sent + 1, field |-> f, decision |-> decision,
             faa |-> status.value[f], state |-> "sent", at |-> 0, visit |-> visits]}
    /\ raced' = (raced \/ load.state # "none" \/ \E p \in sends : p.field = f)
    /\ UNCHANGED <<lookupVars, tail, values, tableVars, shown, load, bounds>>

\* Beside an open sheet no other button can be pressed.
AcceptOrDecline(f, decision) ==
    /\ sheet = None /\ busyKey # f
    /\ postDecision(f, decision)
    /\ UNCHANGED sheetVars

OpenSheet(f) ==
    /\ sheet = None /\ busyKey # f
    /\ Chip(f) = "conflict"
    /\ sheet' = f
    /\ reporting' = FALSE
    /\ UNCHANGED <<lookupVars, tail, values, tableVars, shown, load, busyKey, reports,
                   sendVars, bounds, raced>>

CloseSheet ==
    /\ sheet # None
    /\ sheet' = None
    /\ reporting' = FALSE
    /\ UNCHANGED <<lookupVars, tail, values, tableVars, shown, load, busyKey, reports,
                   sendVars, bounds, raced>>

\* The sheet waits for its own report, and for no other decision; one that was closed
\* and opened again knows of no report.
SubmitReport ==
    /\ sheet # None /\ ~reporting
    /\ postDecision(sheet, "faa_reported_wrong")
    /\ reporting' = TRUE
    /\ reports' = reports \cup {sent'}
    /\ UNCHANGED sheet

Settle(p, state, at) ==
    /\ sends' = (sends \ {p}) \cup {[p EXCEPT !.state = state, !.at = at]}
    /\ UNCHANGED <<lookupVars, tail, values, sectionVars, sent, bounds, raced>>

RowOf(p, at) == [decision |-> p.decision, faa |-> p.faa,
                 tenant |-> values[p.field], at |-> at]

\* The upsert on (aircraft, field): the row of before is overwritten.
record(p) ==
    /\ p.state = "sent"
    /\ recorded' = recorded + 1
    /\ table' = [table EXCEPT ![p.field] = RowOf(p, recorded + 1)]
    /\ Settle(p, "recorded", recorded + 1)

\* The request, or its answer, is lost; or the handler fails.
SendFails(p) ==
    /\ p.state # "failed"
    /\ Settle(p, "failed", 0)
    /\ UNCHANGED tableVars

\* The answer of a report closes the sheet of its chip, be it another than that from
\* which it was sent.
Closes(p) == p.id \in reports /\ sheet = p.field

\* Mutant: the decision is shown whatever was answered.
ReceiveAnyway(p) ==
    /\ p.state # "sent" /\ p.visit = visits
    /\ sends' = sends \ {p}
    /\ shown' = [shown EXCEPT ![p.field] =
           [decision |-> p.decision, faa |-> p.faa, tenant |-> values[p.field],
            at |-> recorded]]
    /\ busyKey' = None
    /\ SheetFollows(status, shown', Closes(p))
    /\ UNCHANGED <<lookupVars, tail, values, tableVars, load, sent, bounds, raced>>

\* Mutant: the decision that was answered is the only one the page keeps.
ReceiveOnly(p) ==
    /\ p.state # "sent" /\ p.visit = visits
    /\ sends' = sends \ {p}
    /\ shown' = IF p.state = "recorded"
                THEN [NoRows EXCEPT ![p.field] = RowOf(p, p.at)] ELSE shown
    /\ busyKey' = None
    /\ SheetFollows(status, shown', Closes(p))
    /\ UNCHANGED <<lookupVars, tail, values, tableVars, load, sent, bounds, raced>>

\* The answer: the decision is shown, an error otherwise.  Either way no
\* field is busy any more, and the sheet closes with its report.
ReceiveDecision(p) ==
    /\ p.state # "sent" /\ p.visit = visits
    /\ sends' = sends \ {p}
    /\ shown' = IF p.state = "recorded"
                THEN [shown EXCEPT ![p.field] = RowOf(p, p.at)] ELSE shown
    /\ busyKey' = None
    /\ SheetFollows(status, shown', Closes(p))
    /\ UNCHANGED <<lookupVars, tail, values, tableVars, load, sent, bounds, raced>>

\* Nobody waits for what a page that is gone had sent.
Unheard(p) ==
    /\ p.state # "sent" /\ p.visit # visits
    /\ sends' = sends \ {p}
    /\ UNCHANGED <<lookupVars, tail, values, tableVars, sectionVars, sent, bounds, raced>>

\* Only the page forgets the decision.
onReopenDecided(f) ==
    /\ sheet = None
    /\ Chip(f) \in Decision
    /\ shown' = [shown EXCEPT ![f] = None]
    /\ UNCHANGED <<lookupVars, tail, values, tableVars, load, busyKey, sheetVars,
                   sendVars, bounds, raced>>
-----------------------------------------------------------------------------
SectionNext ==
    \/ Reopened
    \/ handleAircraftFaaDecisionsList
    \/ LoadArrives
    \/ LoadFails
    \/ SectionLookupStep
    \/ SectionRetry
    \/ \E next \in Registries : NightlyLoad(next)
    \/ \E f \in Field, decision \in {"accepted_faa", "tenant_wins"} :
           AcceptOrDecline(f, decision)
    \/ \E f \in Field : OpenSheet(f) \/ onReopenDecided(f)
    \/ CloseSheet
    \/ SubmitReport
    \/ \E p \in sends : record(p) \/ SendFails(p) \/ ReceiveDecision(p) \/ Unheard(p)
=============================================================================
