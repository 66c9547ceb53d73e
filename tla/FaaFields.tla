----------------------------- MODULE FaaFields -----------------------------
(***************************************************************************)
(* The two pages on which the FAA registry meets what a tenant says of an  *)
(* aircraft, one after the other: the form that enters it (AircraftForm)   *)
(* and the page of the aircraft that was entered (FieldDecisions).  Both   *)
(* use the lookup hook, each a new one.                                    *)
(***************************************************************************)
EXTENDS AircraftForm, FieldDecisions

\* A field left empty on the form is one the aircraft has no value for.
ASSUME EmptyAssumption == Empty = NoValue

vars == <<lookupVars, formVars, decisionVars>>

TypeOK == LookupTypeOK /\ FormTypeOK /\ DecisionTypeOK

Init == LookupInit /\ FormInit /\ DecisionInit

OnForm == visits = 0

FormStep ==
    /\ OnForm
    /\ FormNext
    /\ UNCHANGED decisionVars

\* The browser gets to the new aircraft's page; nothing is left of the form.
Leave ==
    /\ OnForm
    /\ created # None
    /\ Mount(normalizeForLookup[created.registration], created.inputs)
    /\ FormGone
    /\ aircraft' = {created}

SectionStep ==
    /\ ~OnForm
    /\ SectionNext
    /\ UNCHANGED formVars

Next == FormStep \/ Leave \/ SectionStep

Spec == Init /\ [][Next]_vars
-----------------------------------------------------------------------------
\* Once the typing has settled the form shows what the registry said of the
\* N-number that is typed, unless the text was changed in the instant an
\* answer was being read, or cleared while one was under way.
LookupMatchesText ==
    OnForm /\ status.kind \in Loaded /\ timer = None /\ ~overtaken =>
        status.nNumber = normalizeForLookup[registration]

\* Whatever the page was told of a creation is so, also when a POST it had given up on
\* is served after one sent later: the aircraft it leaves for is there as it was when
\* the form was sent; an aircraft refused as taken was not entered, and one of that
\* registration is there; what failed in the handler was not entered.  (Of one whose
\* answer was lost it knows nothing.)
ToldWhatHappened ==
    /\ created # None => created \in aircraft
    /\ message # None /\ message.kind \in {"refused", "failed"} =>
           \A a \in aircraft : a.id # message.id
    /\ message # None /\ message.kind = "refused" => Taken(message.registration)

\* A decision on the screen is the row that the database holds, once no
\* request about its field is under way: unless two of them overlapped (the
\* load of the page with a decision, or two decisions on one field) or the
\* page was opened again over one.
ShownIsRecorded ==
    \A f \in Field :
        ~raced /\ shown[f] # None /\ (\A p \in sends : p.field # f) =>
            shown[f] = table[f]

\* The chip of a field that was decided asks again only after Reopen, on a
\* page opened anew, or when requests had overlapped.
DecidedIsNotAskedAgain ==
    [][\A f \in Field :
          Chip(f) \in Decision /\ Chip(f)' = "conflict"
              => raced' \/ visits' # visits \/ onReopenDecided(f)]_vars
=============================================================================
