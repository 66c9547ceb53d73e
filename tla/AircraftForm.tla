---------------------------- MODULE AircraftForm ----------------------------
(***************************************************************************)
(* NewAircraftForm (apps/web/app/orgs/[tenantId]/aircraft/new): one page   *)
(* on which an operator enters an aircraft, with the registry lookup       *)
(* beside it.  A match fills the fields that are empty; a field that       *)
(* differs gets a chip with which to decide, and decisions stay on the     *)
(* page.  The page posts the form; its button waits for the answer, and    *)
(* works again while the browser is on its way to the new aircraft.        *)
(*                                                                         *)
(* A POST whose answer the page has given up on may still be under way,    *)
(* and be served after one that was sent later.                            *)
(***************************************************************************)
EXTENDS FaaLookup

CONSTANTS Empty,    \* the empty text, and the empty value
          Optional, \* the fields the form does not require
          lower,    \* lower() of a registration
          Edited,   \* bound: the fields the operator types in
          MaxPosts  \* bound: times the form is submitted

ASSUME FormAssumption ==
    /\ Empty \in Text /\ normalizeForLookup[Empty] = None
    /\ Empty \notin Value /\ Empty # None
    /\ Optional \subseteq Field /\ Edited \subseteq Field
    /\ lower \in [Text -> Text]
    /\ MaxPosts \in Nat

VARIABLES registration, \* the text of the registration field
          inputs,       \* the text of the others
          decisions,    \* what was decided of each
          awaited,      \* the POST whose answer the button waits for, 0 none
          message,      \* what the page says of the last POST it had an answer for
          posts,        \* the POSTs under way
          posted,       \* how many were sent: the number of the last
          aircraft,     \* the aircraft the tenant has
          created,      \* the one the browser is on its way to
          overtaken     \* ghost: did an answer come for a text of before?

fieldVars == <<registration, inputs, decisions>>
postVars == <<awaited, message, posts, posted, aircraft, created>>
formVars == <<fieldVars, postVars, overtaken>>
-----------------------------------------------------------------------------
Input == Value \cup {Empty}
LocalDecision == {"pending", "accepted_faa", "tenant_wins", "faa_reported_wrong"}

\* A row's id is that of the POST that entered it; the tables have uuids.
PostId == 1..MaxPosts
AircraftRow == [id : PostId, registration : Text, inputs : [Field -> Input]]
Post == [row : AircraftRow, answer : {"none", "created", "refused", "failed"}]

\* 409; another status from the handler; no answer, or one from something else on the
\* way: "lost".
Message == [kind : {"refused", "failed", "lost"}, id : PostId, registration : Text]

FormTypeOK ==
    /\ registration \in Text
    /\ inputs \in [Field -> Input]
    /\ decisions \in [Field -> LocalDecision]
    /\ awaited \in 0..MaxPosts
    /\ message \in Message \cup {None}
    /\ posts \subseteq Post
    /\ posted \in 0..MaxPosts
    /\ aircraft \subseteq AircraftRow
    /\ created \in AircraftRow \cup {None}
    /\ overtaken \in BOOLEAN

FormInit ==
    /\ registration = Empty
    /\ inputs = [f \in Field |-> Empty]
    /\ decisions = [f \in Field |-> "pending"]
    /\ awaited = 0
    /\ message = None
    /\ posts = {}
    /\ posted = 0
    /\ aircraft = {}
    /\ created = None
    /\ overtaken = FALSE

\* The page is gone, and all it knew or was waiting for.
FormGone ==
    /\ registration' = Empty
    /\ inputs' = [f \in Field |-> Empty]
    /\ decisions' = [f \in Field |-> "pending"]
    /\ awaited' = 0
    /\ message' = None
    /\ posts' = {}
    /\ posted' = 0
    /\ created' = None
    /\ overtaken' = FALSE
-----------------------------------------------------------------------------
(***************************************************************************)
(* The text of the registration, and the lookup it sets off.               *)
(***************************************************************************)
\* Typed, or picked from the list of the combobox.  Ghost: an answer that is
\* past its check, or that nothing will make stale, is overtaken.
SetRegistration(text) ==
    LET n == normalizeForLookup[text]
        same == n = normalizeForLookup[registration]
    IN /\ text # registration
       /\ registration' = text
       /\ Retarget(registration, text)
       /\ overtaken' = (overtaken \/
              (~same /\ \E r \in requests : Reading(r) \/ (n = None /\ ~Stale(r))))
       /\ UNCHANGED <<registry, requests, inputs, decisions, postVars>>

\* When a match arrives, the empty fields nothing was decided of are filled.
prefill ==
    inputs' = [f \in Field |->
        IF /\ status'.kind = "match"
           /\ decisions[f] = "pending" /\ inputs[f] = Empty
           /\ status'.value[f] # None
        THEN status'.value[f] ELSE inputs[f]]

FormLookupStep(r) ==
    /\ \/ DropStale(r) /\ UNCHANGED inputs
       \/ \E answer \in {handleFaaLookup(r.nNumber), Unavailable(r.nNumber)} :
              Arrive(r, answer) /\ UNCHANGED inputs
       \/ FetchThrows(r) /\ prefill
       \/ ReadBody(r) /\ prefill
    /\ UNCHANGED <<registration, decisions, postVars, overtaken>>

FormDebounceEnds == runLookup /\ UNCHANGED formVars

\* The banner's button, there while a lookup found nothing or failed.
FormRetry ==
    /\ status.kind \in {"no_match", "lookup_unavailable"}
    /\ Requery(normalizeForLookup[registration])
    /\ UNCHANGED <<registry, requests, formVars>>
-----------------------------------------------------------------------------
(***************************************************************************)
(* The fields and their chips.                                             *)
(***************************************************************************)
\* The chip of a field, as SourceConflictChip shows it.
formFieldState(f) ==
    CASE status.kind = "loading" -> "loading"
      [] status.kind \in {"idle", "no_match"} -> "no_faa_data"
      [] status.kind = "lookup_unavailable" -> "faa_lookup_error"
      [] OTHER ->
           CASE status.value[f] = None -> "no_faa_data"
             [] status.value[f] # None /\ decisions[f] # "pending" -> decisions[f]
             [] OTHER -> IF inputs[f] \in {Empty, status.value[f]}
                         THEN "aligned" ELSE "conflict"

Decide(f, decision, value) ==
    /\ inputs' = [inputs EXCEPT ![f] = value]
    /\ decisions' = [decisions EXCEPT ![f] = decision]
    /\ UNCHANGED <<lookupVars, registration, postVars, overtaken>>

\* Typing takes a decision back.
Edit(f, v) ==
    /\ v # inputs[f]
    /\ Decide(f, "pending", v)

onAccept(f) ==
    /\ formFieldState(f) = "conflict"
    /\ Decide(f, "accepted_faa", status.value[f])
onDecline(f) ==
    /\ formFieldState(f) = "conflict"
    /\ Decide(f, "tenant_wins", inputs[f])
onReport(f) ==
    /\ formFieldState(f) = "conflict"
    /\ Decide(f, "faa_reported_wrong", inputs[f])
onReopen(f) ==
    /\ formFieldState(f) \in LocalDecision
    /\ Decide(f, "pending", inputs[f])
-----------------------------------------------------------------------------
(***************************************************************************)
(* Submitting.                                                             *)
(***************************************************************************)
\* The browser holds the form back while a required field is empty.
Submit ==
    /\ awaited = 0 /\ posted < MaxPosts
    /\ registration # Empty
    /\ \A f \in Field \ Optional : inputs[f] # Empty
    /\ posted' = posted + 1
    /\ posts' = posts \cup
           {[row |-> [id |-> posted + 1, registration |-> registration, inputs |-> inputs],
             answer |-> "none"]}
    /\ awaited' = posted + 1
    /\ message' = None
    /\ UNCHANGED <<lookupVars, fieldVars, aircraft, created, overtaken>>

\* The handler's answer sets out, if there is somebody to hear it.
Answered(p, answer) ==
    /\ posts' = (posts \ {p}) \cup
           (IF p.row.id = awaited THEN {[p EXCEPT !.answer = answer]} ELSE {})
    /\ UNCHANGED <<lookupVars, fieldVars, awaited, message, posted, created, overtaken>>

\* aircraft_tenant_registration_unique: the tenant has an aircraft of that registration.
Taken(text) == \E a \in aircraft : lower[a.registration] = lower[text]

\* Mutant: the subscriptions are not in the transaction of the aircraft.
handleAircraftCreateInTwo(p) ==
    /\ p.answer = "none"
    /\ IF Taken(p.row.registration)
       THEN UNCHANGED aircraft /\ Answered(p, "refused")
       ELSE /\ aircraft' = aircraft \cup {p.row}
            /\ Answered(p, "created") \/ Answered(p, "failed")

\* One transaction: the INSERT of the aircraft, which its unique index may refuse, and
\* that of its subscriptions.  If a statement throws there is nothing to commit.
handleAircraftCreate(p) ==
    /\ p.answer = "none"
    /\ \/ Taken(p.row.registration) /\ UNCHANGED aircraft /\ Answered(p, "refused")
       \/ /\ ~Taken(p.row.registration)
          /\ aircraft' = aircraft \cup {p.row}
          /\ Answered(p, "created")
       \/ UNCHANGED aircraft /\ Answered(p, "failed")

Hears(kind, row) ==
    /\ awaited' = 0
    /\ message' = [kind |-> kind, id |-> row.id, registration |-> row.registration]
    /\ UNCHANGED <<lookupVars, fieldVars, posted, aircraft, created, overtaken>>

\* The answer: the button works again, also when it is 201 and the browser
\* leaves for the new page.
ReceiveAnswer(p) ==
    /\ p.answer # "none" /\ p.row.id = awaited
    /\ posts' = posts \ {p}
    /\ IF p.answer = "created"
       THEN /\ created' = p.row
            /\ awaited' = 0
            /\ UNCHANGED <<lookupVars, fieldVars, message, posted, aircraft, overtaken>>
       ELSE Hears(p.answer, p.row)

\* fetch throws, or something on the way answers for the server: the request, or its
\* answer, is lost, or late.
PostFails(p) ==
    /\ p.row.id = awaited
    /\ posts' = {q \in posts : q # p \/ p.answer = "none"}
    /\ Hears("lost", p.row)

\* A request nobody waits for does not get to the server.
NeverArrives(p) ==
    /\ p.row.id # awaited
    /\ posts' = posts \ {p}
    /\ UNCHANGED <<lookupVars, fieldVars, awaited, message, posted, aircraft, created, overtaken>>
-----------------------------------------------------------------------------
FormNext ==
    \/ \E text \in Text : SetRegistration(text)
    \/ FormDebounceEnds
    \/ \E r \in requests : FormLookupStep(r)
    \/ FormRetry
    \/ \E f \in Edited, v \in Input : Edit(f, v)
    \/ \E f \in Field : onAccept(f) \/ onDecline(f) \/ onReport(f) \/ onReopen(f)
    \/ Submit
    \/ \E p \in posts : handleAircraftCreate(p) \/ ReceiveAnswer(p) \/ PostFails(p)
                        \/ NeverArrives(p)
=============================================================================
