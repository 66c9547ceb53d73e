----------------------------- MODULE FaaLookup -----------------------------
(***************************************************************************)
(* The hook useFaaLookup (apps/web/components/faa): what one page knows of *)
(* the FAA registry's row for the registration typed on it.  A change of   *)
(* the text starts a debounce; when it ends a request is sent; its answer  *)
(* arrives in two steps, the status line and then the body, and only the   *)
(* first is checked against the number of the latest request.  No request  *)
(* is ever aborted.                                                        *)
(*                                                                         *)
(* The page that uses the hook says when the text changes and what else it *)
(* does when the status does.                                              *)
(***************************************************************************)
EXTENDS NNumbers, Naturals

CONSTANTS Text,       \* what may stand in the registration field
          Field,      \* the fields the registry can fill
          Value,      \* their values
          normalizeForLookup, \* the N-number a text names, or None
          Registries, \* bound: what the registry may hold
          MaxRequests \* bound: lookups a page starts

ASSUME LookupAssumption ==
    /\ None \notin Text \cup NNumber \cup Value
    /\ normalizeForLookup \in [Text -> NNumber \cup {None}]
    /\ Registries \subseteq [NNumber -> [Field -> Value \cup {None}] \cup {None}]
    /\ MaxRequests \in Nat \ {0}

VARIABLES registry,   \* aircraft_registry_current, as the handler reads it
          status,     \* what the hook shows
          requestSeq, \* the number of the latest request
          timer,      \* the N-number the debounce is pending for
          requests    \* requests under way

lookupVars == <<registry, status, requestSeq, timer, requests>>
-----------------------------------------------------------------------------
FaaRow == [Field -> Value \cup {None}]

Loaded == {"match", "no_match", "lookup_unavailable"}
Response ==
    [kind : {"match"}, nNumber : NNumber, value : FaaRow]
        \cup [kind : Loaded \ {"match"}, nNumber : NNumber]
Status == [kind : {"idle"}] \cup [kind : {"loading"}, nNumber : NNumber] \cup Response

Idle == [kind |-> "idle"]
Unavailable(n) == [kind |-> "lookup_unavailable", nNumber |-> n]

\* A request is sent, and then its body is being read: the answer is fixed.
Request == [seq : 1..MaxRequests, nNumber : NNumber, answer : Response \cup {None}]
Reading(r) == r.answer # None

LookupTypeOK ==
    /\ registry \in [NNumber -> FaaRow \cup {None}]
    /\ status \in Status
    /\ requestSeq \in 0..MaxRequests
    /\ timer \in NNumber \cup {None}
    /\ requests \subseteq Request

LookupInit ==
    /\ registry \in Registries
    /\ status = Idle
    /\ requestSeq = 0
    /\ timer = None
    /\ requests = {}

\* What the lookup endpoint says of an N-number.
handleFaaLookup(n) ==
    IF registry[n] = None
    THEN [kind |-> "no_match", nNumber |-> n]
    ELSE [kind |-> "match", nNumber |-> n, value |-> registry[n]]
-----------------------------------------------------------------------------
\* The effect: the text now names n (None: nothing one can ask for).  The
\* debounce of the text before is cleared; clearing the text leaves the
\* sequence number alone.
Requery(n) ==
    IF n = None
    THEN /\ status' = Idle
         /\ timer' = None
         /\ UNCHANGED requestSeq
    ELSE /\ requestSeq < MaxRequests
         /\ requestSeq' = requestSeq + 1
         /\ timer' = n
         /\ UNCHANGED status

\* The effect runs when the text names another N-number than before.
Retarget(old, new) ==
    IF normalizeForLookup[old] = normalizeForLookup[new]
    THEN UNCHANGED <<status, requestSeq, timer>>
    ELSE Requery(normalizeForLookup[new])

\* The debounce ends.
runLookup ==
    /\ timer # None
    /\ status' = [kind |-> "loading", nNumber |-> timer]
    /\ requests' = requests \cup
           {[seq |-> requestSeq, nNumber |-> timer, answer |-> None]}
    /\ timer' = None
    /\ UNCHANGED <<registry, requestSeq>>

\* Mutant: the number of the request is not looked at.
NeverStale(r) == FALSE

Stale(r) == r.seq # requestSeq

\* An answer, or the failure to get one, comes too late.
DropStale(r) ==
    /\ ~Reading(r) /\ Stale(r)
    /\ requests' = requests \ {r}
    /\ UNCHANGED <<registry, status, requestSeq, timer>>

\* fetch resolves: the handler has answered, or failed to (503, 500).
Arrive(r, answer) ==
    /\ ~Reading(r) /\ ~Stale(r)
    /\ answer \in {handleFaaLookup(r.nNumber), Unavailable(r.nNumber)}
    /\ requests' = (requests \ {r}) \cup {[r EXCEPT !.answer = answer]}
    /\ UNCHANGED <<registry, status, requestSeq, timer>>

\* fetch throws.
FetchThrows(r) ==
    /\ ~Reading(r) /\ ~Stale(r)
    /\ status' = Unavailable(r.nNumber)
    /\ requests' = requests \ {r}
    /\ UNCHANGED <<registry, requestSeq, timer>>

\* The body is there.  Nothing asks again whether it is still wanted.
ReadBody(r) ==
    /\ Reading(r)
    /\ status' = r.answer
    /\ requests' = requests \ {r}
    /\ UNCHANGED <<registry, requestSeq, timer>>
=============================================================================
