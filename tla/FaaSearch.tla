----------------------------- MODULE FaaSearch -----------------------------
(***************************************************************************)
(* FaaSearchCombobox (apps/web/components/faa): the list of registered     *)
(* N-numbers under the registration field.  Like the lookup it waits for   *)
(* the typing to settle and numbers its requests; unlike it, it aborts the *)
(* request before, and checks the number again once the body is read, but  *)
(* not when the body is that of an error.                                  *)
(*                                                                         *)
(* The form that holds the combobox keeps the text: typed is the N-number  *)
(* it names.  The highlighted row is its position in the list, 0 none.     *)
(***************************************************************************)
EXTENDS NNumbers, Integers, Sequences

CONSTANTS Query,       \* those long enough to search for
          lookupAircraftSearch, \* the rows the endpoint has for each
          MaxSearches  \* bound: searches a page starts

ASSUME SearchAssumption ==
    /\ None \notin NNumber
    /\ Query \subseteq NNumber
    /\ lookupAircraftSearch \in [Query -> Seq(NNumber)]
    /\ MaxSearches \in Nat

VARIABLES typed,       \* the N-number the text names
          search,      \* what the panel shows
          searchSeq,   \* the number of the latest search
          searchTimer, \* the prefix the debounce is pending for
          searches,    \* searches under way
          controller,  \* the number of the search that can be aborted
          open,        \* is the panel open?
          activeIndex  \* the highlighted row

requestVars == <<searchSeq, searchTimer, searches, controller>>
searchVars == <<typed, search, requestVars, open, activeIndex>>
-----------------------------------------------------------------------------
Shows(k) == [kind |-> k]

\* A search is sent, then its body is being read.  A body that cannot be read, or
\* holds no list, reads as no rows; unread tells it from an empty list, for the
\* properties alone.
Answer(rows) == [ok |-> TRUE, rows |-> rows, unread |-> FALSE]
Unreadable == [ok |-> TRUE, rows |-> <<>>, unread |-> TRUE]
Failed == [ok |-> FALSE, rows |-> <<>>, unread |-> FALSE]
SearchReading(r) == r.answer # None
Answers(r) == {Answer(lookupAircraftSearch[r.query]), Unreadable, Failed}

SearchTypeOK ==
    /\ typed \in NNumber \cup {None}
    /\ search.kind \in {"idle", "loading", "error", "results", "empty"}
    /\ search.kind \in {"results", "empty"} =>
           search.query \in Query /\ search.rows \in Seq(NNumber) /\ search.unread \in BOOLEAN
    /\ searchSeq \in 0..MaxSearches
    /\ searchTimer \in Query \cup {None}
    /\ \A r \in searches :
           /\ r.seq \in 1..searchSeq /\ r.query \in Query
           /\ r.answer # None => /\ r.answer.ok \in BOOLEAN /\ r.answer.unread \in BOOLEAN
                                 /\ r.answer.rows \in Seq(NNumber)
    /\ controller \in 1..searchSeq \cup {None}
    /\ open \in BOOLEAN
    /\ activeIndex \in Nat

SearchInit ==
    /\ typed = None
    /\ search = Shows("idle")
    /\ searchSeq = 0
    /\ searchTimer = None
    /\ searches = {}
    /\ controller = None
    /\ open = FALSE
    /\ activeIndex = 0

results == IF search.kind = "results" THEN search.rows ELSE <<>>
showPanel == open /\ typed \in Query /\ search.kind # "idle"

\* A new status takes the highlight off.
Show(s) ==
    /\ search' = s
    /\ activeIndex' = 0
-----------------------------------------------------------------------------
\* Aborting: a fetch under way rejects and is forgotten; a body under way
\* reads as null, which is no rows.
Aborted(S) ==
    {r \in S : r.seq # controller}
        \cup {[r EXCEPT !.answer.rows = <<>>] :
                  r \in {r \in S : r.seq = controller /\ SearchReading(r)}}

\* The effect: the text now names q, which may be too short to ask for.
SearchRequery(q) ==
    IF q \notin Query
    THEN /\ searches' = Aborted(searches)
         /\ controller' = None
         /\ Show(Shows("idle"))
         /\ searchTimer' = None
         /\ UNCHANGED searchSeq
    ELSE /\ searchSeq < MaxSearches
         /\ searchSeq' = searchSeq + 1
         /\ searchTimer' = q
         /\ UNCHANGED <<search, searches, controller, activeIndex>>

\* The debounce ends: the search before is aborted.
runSearch ==
    /\ searchTimer # None
    /\ searches' = Aborted(searches) \cup
           {[seq |-> searchSeq, query |-> searchTimer, answer |-> None]}
    /\ controller' = searchSeq
    /\ Show(Shows("loading"))
    /\ searchTimer' = None
    /\ UNCHANGED <<typed, searchSeq, open>>

Ends(r) ==
    /\ searches' = searches \ {r}
    /\ UNCHANGED <<typed, searchSeq, searchTimer, controller, open>>

Kept == UNCHANGED <<search, activeIndex>>

\* Mutant: the number of the search is not checked.
NeverSuperseded(r) == FALSE

Superseded(r) == r.seq # searchSeq

\* fetch resolves: 200 with the rows or with a body that will not be read, or another
\* status.
SearchArrives(r, answer) ==
    /\ ~SearchReading(r) /\ ~Superseded(r)
    /\ answer \in Answers(r)
    /\ searches' = (searches \ {r}) \cup {[r EXCEPT !.answer = answer]}
    /\ Kept
    /\ UNCHANGED <<typed, searchSeq, searchTimer, controller, open>>

\* Mutant: the error is swallowed.
SearchThrowsAway(r) ==
    /\ ~SearchReading(r) /\ ~Superseded(r)
    /\ Kept
    /\ Ends(r)

\* fetch throws.
SearchThrows(r) ==
    /\ ~SearchReading(r) /\ ~Superseded(r)
    /\ Show(Shows("error"))
    /\ Ends(r)

\* Either comes too late, or the rows do.
DropSuperseded(r) ==
    /\ Superseded(r) /\ (SearchReading(r) => r.answer.ok)
    /\ Kept
    /\ Ends(r)

\* The body of an answer that is not OK is shown whatever was typed since.
ReadError(r) ==
    /\ SearchReading(r) /\ ~r.answer.ok
    /\ Show(Shows("error"))
    /\ Ends(r)

ReadResults(r) ==
    /\ SearchReading(r) /\ r.answer.ok /\ ~Superseded(r)
    /\ Show([kind |-> IF r.answer.rows = <<>> THEN "empty" ELSE "results",
             query |-> r.query, rows |-> r.answer.rows, unread |-> r.answer.unread])
    /\ Ends(r)
-----------------------------------------------------------------------------
\* The operator types, and the panel opens.
onChange(n) ==
    /\ n # typed
    /\ typed' = n
    /\ SearchRequery(n)
    /\ open' = TRUE

\* A row is picked: its N-number becomes the text.
commitSelection(i) ==
    /\ i \in 1..Len(results)
    /\ typed' = results[i]
    /\ IF typed' = typed
       THEN UNCHANGED <<search, requestVars>>
       ELSE SearchRequery(typed')
    /\ open' = FALSE
    /\ activeIndex' = 0

\* Enter, or a press on a row.
EnterKey == open /\ activeIndex > 0 /\ commitSelection(activeIndex)
Press(i) == showPanel /\ commitSelection(i)

Focus ==
    /\ ~open
    /\ open' = TRUE
    /\ UNCHANGED <<typed, search, requestVars, activeIndex>>

\* Blur and Escape take the highlight off, a press outside does not.
Close(highlight) ==
    /\ open
    /\ open' = FALSE
    /\ activeIndex' = highlight
    /\ UNCHANGED <<typed, search, requestVars>>

Highlight(i) ==
    /\ activeIndex' = i
    /\ UNCHANGED <<typed, search, requestVars>>

ArrowDown ==
    /\ Len(results) > 0
    /\ open' = TRUE
    /\ Highlight((activeIndex % Len(results)) + 1)

ArrowUp ==
    /\ Len(results) > 0
    /\ open' = TRUE
    /\ Highlight(IF activeIndex <= 1 THEN Len(results) ELSE activeIndex - 1)

Hover(i) ==
    /\ showPanel
    /\ Highlight(i)
    /\ UNCHANGED open
-----------------------------------------------------------------------------
Browser ==
    \/ runSearch
    \/ \E r \in searches :
           \/ \E answer \in Answers(r) : SearchArrives(r, answer)
           \/ SearchThrows(r)
           \/ DropSuperseded(r)
           \/ ReadError(r)
           \/ ReadResults(r)

Operator ==
    \/ \E n \in NNumber \cup {None} : onChange(n)
    \/ EnterKey
    \/ \E i \in 1..Len(results) : Press(i) \/ Hover(i)
    \/ Focus
    \/ \E highlight \in {0, activeIndex} : Close(highlight)
    \/ ArrowDown
    \/ ArrowUp

SearchNext == Browser \/ Operator

\* Timers fire, and fetch and the reading of a body settle.
SearchSpec == SearchInit /\ [][SearchNext]_searchVars /\ WF_searchVars(Browser)
-----------------------------------------------------------------------------
\* The rows the panel lists are what the registry has for the text beside it, and "No
\* results found" is true of that text unless the body of its own answer could not be
\* read, while the operator is not typing: no late answer to a former text brings its
\* rows back, and an answer that was cut off never passes for "no results".
PanelMatchesText ==
    showPanel /\ searchTimer = None =>
        /\ search.kind = "results" =>
               search.query = typed /\ search.rows = lookupAircraftSearch[typed]
        /\ search.kind = "empty" =>
               search.query = typed /\ (search.unread \/ lookupAircraftSearch[typed] = <<>>)

\* The panel does not go on searching for ever.
SearchSettles == search.kind = "loading" ~> search.kind # "loading"
=============================================================================
