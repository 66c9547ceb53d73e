-------------------------- MODULE FaaFieldsProofs --------------------------
(***************************************************************************)
(* Proofs about the form that enters an aircraft, the list of N-numbers    *)
(* under its registration field and the page of the aircraft, for any      *)
(* fields, values, N-numbers and registries.                               *)
(***************************************************************************)
EXTENDS FaaFields, FaaSearch, TLAPS

-----------------------------------------------------------------------------
(* What the lookup may show and know.                                      *)

LEMMA StatusFacts ==
  ASSUME NEW s \in Status
  PROVE  /\ s.kind \in {"idle", "loading"} \cup Loaded
         /\ s.kind = "match" => s.value \in FaaRow
         /\ s.kind \in Loaded => s \in Response /\ s.nNumber \in NNumber
  BY DEF Status, Response, Loaded

LEMMA AnswerFacts ==
  ASSUME LookupTypeOK, NEW n \in NNumber
  PROVE  \A answer \in {handleFaaLookup(n), Unavailable(n)} :
            /\ answer \in Response /\ answer.nNumber = n
            /\ answer.kind \in Loaded
  BY DEF LookupTypeOK, handleFaaLookup, Unavailable, Response, Loaded, FaaRow

\* A debounce that is pending has taken its number.
LookupType == LookupTypeOK /\ (timer # None => requestSeq > 0)

LEMMA RunLookupType ==
  ASSUME LookupType, runLookup PROVE LookupType'
<1>1. status' \in Status
  BY DEF LookupType, LookupTypeOK, runLookup, Status
<1>2. [seq |-> requestSeq, nNumber |-> timer, answer |-> None] \in Request
  BY LookupAssumption DEF LookupType, LookupTypeOK, runLookup, Request
<1>3. QED
  BY <1>1, <1>2 DEF LookupType, LookupTypeOK, runLookup

LEMMA RequeryType ==
  ASSUME LookupType, NEW n \in NNumber \cup {None}, Requery(n), UNCHANGED <<registry, requests>>
  PROVE  LookupType'
<1>1. status' \in Status
  BY DEF LookupType, LookupTypeOK, Requery, Idle, Status
<1>2. QED
  BY <1>1, LookupAssumption DEF LookupType, LookupTypeOK, Requery

\* The answer of a request, its failure, or its end.
LookupStep(r) ==
    \/ \E answer \in {handleFaaLookup(r.nNumber), Unavailable(r.nNumber)} : Arrive(r, answer)
    \/ FetchThrows(r) \/ DropStale(r) \/ ReadBody(r)

LEMMA LookupStepType ==
  ASSUME LookupType, NEW r \in requests, LookupStep(r)
  PROVE  LookupType'
<1>0. r \in Request /\ r.nNumber \in NNumber
  BY DEF LookupType, LookupTypeOK, Request
<1>1. ASSUME NEW answer \in {handleFaaLookup(r.nNumber), Unavailable(r.nNumber)},
             Arrive(r, answer)
      PROVE  LookupType'
  <2>1. answer \in Response
    BY <1>0, AnswerFacts DEF LookupType
  <2>2. [r EXCEPT !.answer = answer] \in Request
    BY <1>0, <2>1 DEF Request
  <2>3. QED
    BY <1>1, <2>2 DEF Arrive, LookupType, LookupTypeOK
<1>2. CASE FetchThrows(r)
  <2>1. status' \in Status
    BY <1>0, <1>2, AnswerFacts DEF FetchThrows, LookupType, Status
  <2>2. QED
    BY <1>2, <2>1 DEF FetchThrows, LookupType, LookupTypeOK
<1>3. CASE DropStale(r)
  BY <1>3 DEF DropStale, LookupType, LookupTypeOK
<1>4. CASE ReadBody(r)
  <2>1. status' \in Status
    BY <1>0, <1>4 DEF ReadBody, Reading, Request, Status
  <2>2. QED
    BY <1>4, <2>1 DEF ReadBody, LookupType, LookupTypeOK
<1>5. QED
  BY <1>1, <1>2, <1>3, <1>4 DEF LookupStep

LEMMA Normalized == \A t \in Text : normalizeForLookup[t] \in NNumber \cup {None}
  BY LookupAssumption

-----------------------------------------------------------------------------
(* Types.                                                                  *)

TypeInv == LookupType /\ FormTypeOK /\ DecisionTypeOK

LEMMA TypeInit == Init => TypeInv
<1> SUFFICES ASSUME Init PROVE TypeInv
  OBVIOUS
<1>1. LookupType
  BY LookupAssumption DEF Init, LookupInit, LookupType, LookupTypeOK, FaaRow, Idle, Status
<1>2. FormTypeOK
  <2>1. inputs \in [Field -> Input] /\ decisions \in [Field -> LocalDecision]
    BY DEF Init, FormInit, Input, LocalDecision
  <2>2. registration \in Text /\ awaited \in 0..MaxPosts /\ posted \in 0..MaxPosts
    BY FormAssumption DEF Init, FormInit
  <2>3. QED
    BY <2>1, <2>2 DEF Init, FormInit, FormTypeOK
<1>3. DecisionTypeOK
  <2>1. values \in [Field -> Value \cup {NoValue}] /\ NoRows \in Decisions
    BY DEF Init, DecisionInit, Decisions, NoRows
  <2>2. 0 \in 0..MaxDecisions /\ 0 \in 0..MaxVisits /\ 0 \in 0..MaxNights
    BY DecisionsAssumption
  <2>3. load.state = "none" /\ load.rows = NoRows
    BY DEF Init, DecisionInit, Loading
  <2>4. QED
    BY <2>1, <2>2, <2>3 DEF Init, DecisionInit, DecisionTypeOK
<1>4. QED
  BY <1>1, <1>2, <1>3 DEF TypeInv

LEMMA FormGoneType == FormGone /\ aircraft' \subseteq AircraftRow => FormTypeOK'
<1> SUFFICES ASSUME FormGone, aircraft' \subseteq AircraftRow PROVE FormTypeOK'
  OBVIOUS
<1>1. inputs' \in [Field -> Input] /\ decisions' \in [Field -> LocalDecision]
  BY DEF FormGone, Input, LocalDecision
<1>2. registration' \in Text /\ awaited' \in 0..MaxPosts /\ posted' \in 0..MaxPosts
  BY FormAssumption DEF FormGone
<1>3. QED
  BY <1>1, <1>2 DEF FormGone, FormTypeOK

\* The fields after a match has filled those that were empty.
LEMMA PrefillType ==
  ASSUME FormTypeOK, LookupTypeOK', prefill
  PROVE  inputs' \in [Field -> Input]
<1>1. status'.kind = "match" => status'.value \in FaaRow
  BY StatusFacts DEF LookupTypeOK
<1>2. QED
  BY <1>1 DEF FormTypeOK, prefill, FaaRow, Input

\* A field in conflict has a value in the registry.
LEMMA ConflictFacts ==
  ASSUME TypeInv, NEW f \in Field, formFieldState(f) = "conflict" \/ Chip(f) = "conflict"
  PROVE  status.kind = "match" /\ status.value \in FaaRow /\ status.value[f] \in Value
<1>1. status \in Status
  BY DEF TypeInv, LookupType, LookupTypeOK
<1>2. decisions[f] # "conflict" /\ (shown[f] # None => shown[f].decision # "conflict")
  BY DEF TypeInv, FormTypeOK, LocalDecision, DecisionTypeOK, Decisions, DecisionRow, Decision
<1>3. status.kind = "match"
  BY <1>1, <1>2, StatusFacts DEF formFieldState, Chip, deriveFieldState, Loaded
<1>4. status.value \in FaaRow
  BY <1>1, <1>3, StatusFacts
<1>5. status.value[f] # None
  BY <1>2, <1>3 DEF formFieldState, Chip, deriveFieldState
<1>6. QED
  BY <1>3, <1>4, <1>5 DEF FaaRow

LEMMA FormType == TypeInv /\ FormStep => TypeInv'
<1> SUFFICES ASSUME TypeInv, FormStep PROVE TypeInv'
  OBVIOUS
<1>1. DecisionTypeOK'
  BY DEF FormStep, decisionVars, tableVars, sectionVars, sheetVars, sendVars, bounds, TypeInv, DecisionTypeOK
<1>2. SUFFICES LookupType' /\ FormTypeOK'
  BY <1>1 DEF TypeInv
<1>3. FormNext /\ LookupType /\ FormTypeOK
  BY DEF FormStep, TypeInv
<1> USE DEF fieldVars, postVars, formVars
<1>4. ASSUME NEW text \in Text, SetRegistration(text) PROVE LookupType' /\ FormTypeOK'
  <2>1. LookupType'
    <3>1. CASE normalizeForLookup[registration] = normalizeForLookup[text]
      BY <1>3, <1>4, <3>1 DEF SetRegistration, Retarget, LookupType, LookupTypeOK
    <3>2. CASE normalizeForLookup[registration] # normalizeForLookup[text]
      BY <1>3, <1>4, <3>2, Normalized, RequeryType DEF SetRegistration, Retarget
    <3>3. QED
      BY <3>1, <3>2
  <2>2. overtaken' \in BOOLEAN
    BY <1>4 DEF SetRegistration
  <2>3. FormTypeOK'
    BY <1>3, <1>4, <2>2 DEF SetRegistration, FormTypeOK
  <2>4. QED
    BY <2>1, <2>3
<1>5. CASE FormDebounceEnds
  BY <1>3, <1>5, RunLookupType DEF FormDebounceEnds, FormTypeOK
<1>6. ASSUME NEW r \in requests, FormLookupStep(r) PROVE LookupType' /\ FormTypeOK'
  <2>1. LookupType'
    BY <1>3, <1>6, LookupStepType DEF FormLookupStep, LookupStep
  <2>2. inputs' \in [Field -> Input]
    BY <1>3, <1>6, <2>1, PrefillType DEF FormLookupStep, LookupType, FormTypeOK
  <2>3. FormTypeOK'
    BY <1>3, <1>6, <2>2 DEF FormLookupStep, FormTypeOK
  <2>4. QED
    BY <2>1, <2>3
<1>7. CASE FormRetry
  <2>1. LookupType'
    BY <1>3, <1>7, Normalized, RequeryType DEF FormRetry, FormTypeOK
  <2>2. QED
    BY <1>3, <1>7, <2>1 DEF FormRetry, FormTypeOK
<1>8. ASSUME NEW f \in Field, NEW decision \in LocalDecision, NEW value \in Input,
             Decide(f, decision, value)
      PROVE  LookupType' /\ FormTypeOK'
  BY <1>3, <1>8 DEF Decide, lookupVars, LookupType, LookupTypeOK, FormTypeOK
<1>9. ASSUME NEW f \in Edited, NEW v \in Input, Edit(f, v) PROVE LookupType' /\ FormTypeOK'
  BY <1>8, <1>9, FormAssumption DEF Edit, LocalDecision
<1>10. ASSUME NEW f \in Field, onAccept(f) \/ onDecline(f) \/ onReport(f) \/ onReopen(f)
       PROVE  LookupType' /\ FormTypeOK'
  <2>1. CASE onAccept(f)
    <3>1. status.value[f] \in Input
      BY <2>1, ConflictFacts DEF onAccept, Input
    <3>2. QED
      BY <1>8, <2>1, <3>1 DEF onAccept, LocalDecision
  <2>2. CASE onDecline(f) \/ onReport(f) \/ onReopen(f)
    <3>1. inputs[f] \in Input
      BY <1>3 DEF FormTypeOK
    <3>2. QED
      BY <1>8, <2>2, <3>1 DEF onDecline, onReport, onReopen, LocalDecision
  <2>3. QED
    BY <1>10, <2>1, <2>2
<1>11. CASE Submit
  <2>1. posted + 1 \in PostId /\ posted + 1 \in 0..MaxPosts
    BY <1>3, <1>11, FormAssumption DEF Submit, FormTypeOK, PostId
  <2>2. [id |-> posted + 1, registration |-> registration, inputs |-> inputs] \in AircraftRow
    BY <1>3, <2>1 DEF FormTypeOK, AircraftRow
  <2>3. posts' \subseteq Post
    BY <1>3, <1>11, <2>2 DEF Submit, FormTypeOK, Post
  <2>4. QED
    BY <1>3, <1>11, <2>1, <2>3 DEF Submit, lookupVars, LookupType, LookupTypeOK, FormTypeOK
<1>12. ASSUME NEW p \in posts, handleAircraftCreate(p) \/ ReceiveAnswer(p) \/ PostFails(p)
                               \/ NeverArrives(p)
       PROVE  LookupType' /\ FormTypeOK'
  <2>0. p \in Post /\ p.row \in AircraftRow
    BY <1>3 DEF FormTypeOK, Post
  <2>1. CASE handleAircraftCreate(p)
    <3>1. PICK answer \in {"created", "refused", "failed"} : Answered(p, answer)
      BY <2>1 DEF handleAircraftCreate
    <3>2. [p EXCEPT !.answer = answer] \in Post
      BY <2>0 DEF Post
    <3>3. posts' \subseteq Post
      BY <1>3, <3>1, <3>2 DEF Answered, FormTypeOK
    <3>4. aircraft' \subseteq AircraftRow
      BY <1>3, <2>0, <2>1 DEF handleAircraftCreate, FormTypeOK
    <3>5. QED
      BY <1>3, <3>1, <3>3, <3>4 DEF Answered, lookupVars, LookupType, LookupTypeOK, FormTypeOK
  <2>2. ASSUME NEW kind \in {"refused", "failed", "lost"}, Hears(kind, p.row),
               posts' \subseteq posts
        PROVE  LookupType' /\ FormTypeOK'
    <3>1. message' \in Message
      BY <2>0, <2>2 DEF Hears, Message, AircraftRow
    <3>2. 0 \in 0..MaxPosts
      BY FormAssumption
    <3>3. QED
      BY <1>3, <2>2, <3>1, <3>2 DEF Hears, lookupVars, LookupType, LookupTypeOK, FormTypeOK
  <2>3. CASE ReceiveAnswer(p)
    <3>1. p.answer \in {"created", "refused", "failed"} /\ posts' \subseteq posts
      BY <2>0, <2>3 DEF ReceiveAnswer, Post
    <3>2. CASE p.answer = "created"
      <4>1. 0 \in 0..MaxPosts
        BY FormAssumption
      <4>2. QED
        BY <1>3, <2>0, <2>3, <3>1, <3>2, <4>1
        DEF ReceiveAnswer, lookupVars, LookupType, LookupTypeOK, FormTypeOK
    <3>3. QED
      BY <2>2, <2>3, <3>1, <3>2 DEF ReceiveAnswer
  <2>4. CASE PostFails(p)
    BY <2>2, <2>4 DEF PostFails
  <2>5. CASE NeverArrives(p)
    BY <1>3, <2>5 DEF NeverArrives, lookupVars, LookupType, LookupTypeOK, FormTypeOK
  <2>6. QED
    BY <1>12, <2>1, <2>3, <2>4, <2>5
<1>13. QED
  BY <1>3, <1>4, <1>5, <1>6, <1>7, <1>9, <1>10, <1>11, <1>12 DEF FormNext

LEMMA MountType ==
  ASSUME TypeInv, NEW n \in NNumber \cup {None}, NEW own \in [Field -> Value \cup {NoValue}],
         Mount(n, own)
  PROVE  LookupType' /\ DecisionTypeOK'
<1>1. LookupType'
  <2>1. requestSeq' \in 0..MaxRequests /\ timer' \in NNumber \cup {None}
          /\ (timer' # None => requestSeq' > 0)
    BY LookupAssumption DEF Mount
  <2>2. status' \in Status /\ requests' = {} /\ registry' = registry
    BY DEF Mount, Idle, Status
  <2>3. QED
    BY <2>1, <2>2 DEF TypeInv, LookupType, LookupTypeOK
<1>2. DecisionTypeOK'
  <2>1. load'.state = "sent" /\ load'.rows = NoRows /\ NoRows \in Decisions
    BY DEF Mount, Loading, NoRows, Decisions
  <2>2. visits' \in 0..MaxVisits
    BY DecisionsAssumption DEF Mount, TypeInv, DecisionTypeOK
  <2>3. raced' \in BOOLEAN
    BY DEF Mount
  <2>4. QED
    BY <2>1, <2>2, <2>3 DEF Mount, tableVars, sendVars, TypeInv, DecisionTypeOK
<1>3. QED
  BY <1>1, <1>2

LEMMA LeaveType == TypeInv /\ Leave => TypeInv'
<1> SUFFICES ASSUME TypeInv, Leave PROVE TypeInv'
  OBVIOUS
<1>1. created \in AircraftRow
  BY DEF Leave, TypeInv, FormTypeOK
<1>2. /\ normalizeForLookup[created.registration] \in NNumber \cup {None}
      /\ created.inputs \in [Field -> Value \cup {NoValue}]
  BY <1>1, Normalized, EmptyAssumption DEF AircraftRow, Input
<1>3. LookupType' /\ DecisionTypeOK'
  BY <1>2, MountType DEF Leave
<1>4. FormTypeOK'
  BY <1>1, FormGoneType DEF Leave
<1>5. QED
  BY <1>3, <1>4 DEF TypeInv

\* The rows that are written.
LEMMA RowType ==
  ASSUME DecisionTypeOK, NEW p \in sends, NEW at \in Nat
  PROVE  RowOf(p, at) \in DecisionRow
  BY DEF DecisionTypeOK, Send, RowOf, DecisionRow

LEMMA SectionType == TypeInv /\ SectionStep => TypeInv'
<1> SUFFICES ASSUME TypeInv, SectionStep PROVE TypeInv'
  OBVIOUS
<1>1. FormTypeOK'
  BY DEF SectionStep, formVars, fieldVars, postVars, TypeInv, FormTypeOK
<1>2. SUFFICES LookupType' /\ DecisionTypeOK'
  BY <1>1 DEF TypeInv
<1>3. SectionNext /\ LookupType /\ DecisionTypeOK /\ visits \in 1..MaxVisits
  BY DecisionsAssumption DEF SectionStep, OnForm, TypeInv, DecisionTypeOK
<1> USE DEF lookupVars, tableVars, sectionVars, sheetVars, sendVars, bounds
<1>a. UNCHANGED lookupVars => LookupType'
  BY <1>3 DEF LookupType, LookupTypeOK
<1> DEFINE SheetType == /\ sheet' \in Field \cup {None} /\ reporting' \in BOOLEAN
                        /\ reports' \subseteq 1..MaxDecisions
<1>b. ASSUME NEW s, NEW known, NEW closes, SheetFollows(s, known, closes) PROVE SheetType
  BY <1>3, <1>b DEF SheetFollows, DecisionTypeOK
<1>4. CASE Reopened
  BY <1>3, <1>4, MountType DEF Reopened, DecisionTypeOK
<1>5. CASE handleAircraftFaaDecisionsList \/ LoadFails
  <2>1. load'.state \in {"none", "sent", "answered"} /\ load'.rows \in Decisions
    BY <1>3, <1>5 DEF handleAircraftFaaDecisionsList, LoadFails, Loading, NoRows, Decisions, DecisionTypeOK
  <2>2. DecisionTypeOK'
    BY <1>3, <1>5, <2>1 DEF handleAircraftFaaDecisionsList, LoadFails, DecisionTypeOK
  <2>3. QED
    BY <1>5, <1>a, <2>2 DEF handleAircraftFaaDecisionsList, LoadFails
<1>6. CASE LoadArrives
  <2>1. load'.state \in {"none", "sent", "answered"} /\ load'.rows \in Decisions
    BY <1>3, <1>6 DEF LoadArrives, Loading, NoRows, Decisions
  <2>2. SheetType
    BY <1>6, <1>b DEF LoadArrives
  <2>3. DecisionTypeOK'
    BY <1>3, <1>6, <2>1, <2>2 DEF LoadArrives, DecisionTypeOK
  <2>4. QED
    BY <1>6, <1>a, <2>3 DEF LoadArrives
<1>7. CASE SectionLookupStep
  <2>1. LookupType'
    BY <1>3, <1>7, RunLookupType, LookupStepType DEF SectionLookupStep, LookupStep
  <2>2. SheetType
    BY <1>7, <1>b DEF SectionLookupStep
  <2>3. DecisionTypeOK'
    BY <1>3, <1>7, <2>2 DEF SectionLookupStep, DecisionTypeOK
  <2>4. QED
    BY <2>1, <2>3
<1>8. CASE SectionRetry
  <2>1. LookupType'
    BY <1>3, <1>8, RequeryType DEF SectionRetry, DecisionTypeOK
  <2>2. QED
    BY <1>3, <1>8, <2>1 DEF SectionRetry, decisionVars, DecisionTypeOK
<1>9. ASSUME NEW next \in Registries, NightlyLoad(next) PROVE LookupType' /\ DecisionTypeOK'
  <2>1. LookupType'
    BY <1>3, <1>9, LookupAssumption DEF NightlyLoad, LookupType, LookupTypeOK, FaaRow
  <2>2. nights' \in 0..MaxNights
    BY <1>3, <1>9, DecisionsAssumption DEF NightlyLoad, DecisionTypeOK
  <2>3. QED
    BY <1>3, <1>9, <2>1, <2>2 DEF NightlyLoad, DecisionTypeOK
<1>10. ASSUME NEW f \in Field, NEW decision \in Decision, postDecision(f, decision),
              SheetType
       PROVE  LookupType' /\ DecisionTypeOK'
  <2>1. status.value[f] \in Value \cup {None}
    BY <1>10, ConflictFacts DEF postDecision
  <2>2. sent + 1 \in 1..MaxDecisions /\ sent' \in 0..MaxDecisions
    BY <1>3, <1>10, DecisionsAssumption DEF postDecision, DecisionTypeOK
  <2>3. [id |-> sent + 1, field |-> f, decision |-> decision,
         faa |-> status.value[f], state |-> "sent", at |-> 0, visit |-> visits] \in Send
    BY <1>3, <2>1, <2>2 DEF Send
  <2>4. raced' \in BOOLEAN
    BY <1>10 DEF postDecision
  <2>5. DecisionTypeOK'
    BY <1>3, <1>10, <2>2, <2>3, <2>4 DEF postDecision, DecisionTypeOK
  <2>6. QED
    BY <1>10, <1>a, <2>5 DEF postDecision
<1>11. ASSUME NEW f \in Field, NEW decision \in {"accepted_faa", "tenant_wins"},
              AcceptOrDecline(f, decision)
       PROVE  LookupType' /\ DecisionTypeOK'
  <2>1. SheetType
    BY <1>3, <1>11 DEF AcceptOrDecline, DecisionTypeOK
  <2>2. QED
    BY <1>10, <1>11, <2>1 DEF AcceptOrDecline, Decision
<1>12. ASSUME NEW f \in Field, OpenSheet(f) \/ onReopenDecided(f)
       PROVE  LookupType' /\ DecisionTypeOK'
  <2>1. shown' \in Decisions
    BY <1>3, <1>12 DEF OpenSheet, onReopenDecided, DecisionTypeOK, Decisions
  <2>2. DecisionTypeOK'
    BY <1>3, <1>12, <2>1 DEF OpenSheet, onReopenDecided, DecisionTypeOK
  <2>3. QED
    BY <1>12, <1>a, <2>2 DEF OpenSheet, onReopenDecided
<1>13. CASE CloseSheet
  BY <1>3, <1>13, <1>a DEF CloseSheet, DecisionTypeOK
<1>14. CASE SubmitReport
  <2>1. sheet \in Field /\ postDecision(sheet, "faa_reported_wrong")
    BY <1>3, <1>14 DEF SubmitReport, DecisionTypeOK
  <2>2. sent' \in 1..MaxDecisions
    BY <1>3, <2>1, DecisionsAssumption DEF postDecision, DecisionTypeOK
  <2>3. SheetType
    BY <1>3, <1>14, <2>1, <2>2 DEF SubmitReport, DecisionTypeOK
  <2>4. QED
    BY <1>10, <2>1, <2>3 DEF Decision
<1>15. ASSUME NEW p \in sends, record(p) \/ SendFails(p) \/ ReceiveDecision(p) \/ Unheard(p)
       PROVE  LookupType' /\ DecisionTypeOK'
  <2>0. p \in Send /\ p.field \in Field /\ p.at \in Nat /\ recorded + 1 \in Nat
    BY <1>3 DEF DecisionTypeOK, Send
  <2>1. \A state \in {"recorded", "failed"}, at \in Nat : [p EXCEPT !.state = state, !.at = at] \in Send
    BY <2>0 DEF Send
  <2>2. CASE record(p)
    <3>1. sends' \subseteq Send
      BY <1>3, <2>0, <2>1, <2>2 DEF record, Settle, DecisionTypeOK
    <3>2. table' \in Decisions /\ recorded' \in Nat
      BY <1>3, <2>0, <2>2, RowType DEF record, DecisionTypeOK, Decisions
    <3>3. QED
      BY <1>3, <1>a, <2>2, <3>1, <3>2 DEF record, Settle, DecisionTypeOK
  <2>3. CASE SendFails(p)
    <3>1. sends' \subseteq Send
      BY <1>3, <2>1, <2>3 DEF SendFails, Settle, DecisionTypeOK
    <3>2. QED
      BY <1>3, <1>a, <2>3, <3>1 DEF SendFails, Settle, DecisionTypeOK
  <2>4. CASE ReceiveDecision(p)
    <3>1. shown' \in Decisions
      BY <1>3, <2>0, <2>4, RowType DEF ReceiveDecision, DecisionTypeOK, Decisions
    <3>2. SheetType
      BY <1>b, <2>4 DEF ReceiveDecision
    <3>3. QED
      BY <1>3, <1>a, <2>4, <3>1, <3>2 DEF ReceiveDecision, DecisionTypeOK
  <2>5. CASE Unheard(p)
    BY <1>3, <1>a, <2>5 DEF Unheard, DecisionTypeOK
  <2>6. QED
    BY <1>15, <2>2, <2>3, <2>4, <2>5
<1>16. QED
  BY <1>3, <1>4, <1>5, <1>6, <1>7, <1>8, <1>9, <1>11, <1>12, <1>13, <1>14, <1>15 DEF SectionNext

LEMMA TypeNext == TypeInv /\ [Next]_vars => TypeInv'
<1>1. TypeInv /\ UNCHANGED vars => TypeInv'
  BY DEF vars, lookupVars, formVars, fieldVars, postVars, decisionVars, tableVars, sectionVars,
         sheetVars, sendVars, bounds, TypeInv, LookupType, LookupTypeOK, FormTypeOK, DecisionTypeOK
<1>2. QED
  BY <1>1, FormType, LeaveType, SectionType DEF Next

\* Every reachable state of the two pages is well typed.
THEOREM TypeCorrect == Spec => []TypeOK
<1>1. TypeInv => TypeOK
  BY DEF TypeInv, LookupType, TypeOK
<1>2. QED
  BY <1>1, TypeInit, TypeNext, PTL DEF Spec

-----------------------------------------------------------------------------
(* The lookup shown is of the text.  Until an answer is overtaken, every     *)
(* answer that can still be shown is of the N-number the text names: the     *)
(* one pending, the request that is not stale, and those being read.         *)

Named == normalizeForLookup[registration]

ForTextInv ==
    /\ timer # None => timer = Named
    /\ \A r \in requests :
        /\ r.seq <= requestSeq /\ (timer # None => r.seq < requestSeq)
        /\ r.seq = requestSeq \/ Reading(r) => r.nNumber = Named
        /\ Reading(r) => r.answer.nNumber = r.nNumber
    /\ status.kind \in Loaded /\ timer = None => status.nNumber = Named

TextInv ==
    OnForm /\ ~overtaken => ForTextInv

\* Sending, answering, giving up and reading leave the text alone.
LEMMA ForTextStep ==
  ASSUME LookupType, ForTextInv, UNCHANGED registration,
         runLookup \/ \E r \in requests : LookupStep(r)
  PROVE  ForTextInv'
<1>0. \A r \in requests : r.seq \in Nat /\ r \in Request /\ requestSeq \in Nat /\ r.nNumber \in NNumber
  BY LookupAssumption DEF LookupType, LookupTypeOK, Request
<1>1. Named' = Named
  BY DEF Named
<1>2. CASE runLookup
  <2> DEFINE new == [seq |-> requestSeq, nNumber |-> timer, answer |-> None]
  <2>1. /\ timer # None /\ timer = Named /\ timer' = None /\ requestSeq' = requestSeq
        /\ requests' = requests \cup {new} /\ status'.kind = "loading"
    BY <1>2 DEF runLookup, ForTextInv
  <2>2. new.seq = requestSeq /\ new.nNumber = Named /\ ~Reading(new)
    BY <2>1 DEF Reading
  <2>3. requestSeq \in Nat
    BY LookupAssumption DEF LookupType, LookupTypeOK
  <2> HIDE DEF new
  <2>4. \A r \in requests' : /\ r.seq <= requestSeq'
                             /\ r.seq = requestSeq' \/ Reading(r) => r.nNumber = Named
                             /\ Reading(r) => r.answer.nNumber = r.nNumber
    BY <1>0, <2>1, <2>2, <2>3 DEF ForTextInv
  <2>5. QED
    BY <1>1, <2>1, <2>4 DEF ForTextInv, Reading, Loaded
<1>3. ASSUME NEW r \in requests, LookupStep(r) PROVE ForTextInv'
  <2>1. UNCHANGED <<timer, requestSeq>>
    BY <1>3 DEF LookupStep, Arrive, FetchThrows, DropStale, ReadBody
  <2>2. ASSUME NEW answer \in {handleFaaLookup(r.nNumber), Unavailable(r.nNumber)}, Arrive(r, answer)
        PROVE  ForTextInv'
    <3> DEFINE new == [r EXCEPT !.answer = answer]
    <3>1. answer.nNumber = r.nNumber /\ r.nNumber = Named /\ r.seq = requestSeq
      BY <1>0, <2>2, AnswerFacts DEF LookupType, Arrive, Stale, ForTextInv
    <3>2. new.seq = r.seq /\ new.nNumber = r.nNumber /\ new.answer = answer
      BY <1>0 DEF Request
    <3>3. requests' = (requests \ {r}) \cup {new} /\ status' = status
      BY <2>2 DEF Arrive
    <3> HIDE DEF new
    <3>4. QED
      BY <1>0, <1>1, <2>1, <3>1, <3>2, <3>3 DEF ForTextInv, Reading
  <2>3. CASE FetchThrows(r) \/ ReadBody(r)
    <3>1. requests' = requests \ {r}
      BY <2>3 DEF FetchThrows, ReadBody
    <3>2. status'.nNumber = Named
      <4>1. CASE FetchThrows(r)
        BY <4>1 DEF FetchThrows, Unavailable, Stale, ForTextInv
      <4>2. CASE ReadBody(r)
        BY <4>2 DEF ReadBody, ForTextInv
      <4>3. QED
        BY <2>3, <4>1, <4>2
    <3>3. QED
      BY <1>1, <2>1, <3>1, <3>2 DEF ForTextInv, Reading
  <2>4. CASE DropStale(r)
    BY <1>1, <2>4 DEF DropStale, ForTextInv, Reading
  <2>5. QED
    BY <1>3, <2>2, <2>3, <2>4 DEF LookupStep
<1>4. QED
  BY <1>2, <1>3

\* A new text: its number makes every request stale that is not being read.
LEMMA ForTextSet ==
  ASSUME LookupType, FormTypeOK, ForTextInv, NEW text \in Text, SetRegistration(text), ~overtaken'
  PROVE  ForTextInv'
<1>0. \A r \in requests : r.seq \in Nat
  BY DEF LookupType, LookupTypeOK, Request
<1>a. requestSeq \in Nat
  BY LookupAssumption DEF LookupType, LookupTypeOK
<1> DEFINE n == normalizeForLookup[text]
<1>1. Named' = n /\ UNCHANGED requests /\ Retarget(registration, text)
  BY DEF SetRegistration, Named
<1>2. CASE n = Named
  <2>1. UNCHANGED <<status, requestSeq, timer>>
    BY <1>1, <1>2 DEF Retarget, Named
  <2>2. QED
    BY <1>1, <1>2, <2>1 DEF ForTextInv, Reading
<1>3. CASE n # Named
  <2>1. /\ Requery(n)
        /\ \A r \in requests : ~Reading(r) /\ (n = None => r.seq # requestSeq)
    BY <1>1, <1>3 DEF SetRegistration, Retarget, Named, Stale
  <2>2. CASE n = None
    <3>1. timer' = None /\ status'.kind = "idle" /\ requestSeq' = requestSeq
      BY <2>1, <2>2 DEF Requery, Idle
    <3>2. QED
      BY <1>1, <2>1, <2>2, <3>1 DEF ForTextInv, Reading, Loaded
  <2>3. CASE n # None
    <3>1. timer' = n /\ requestSeq' = requestSeq + 1
      BY <2>1, <2>3 DEF Requery
    <3>2. \A r \in requests : r.seq < requestSeq'
      BY <1>0, <1>a, <3>1 DEF ForTextInv
    <3>3. QED
      BY <1>0, <1>a, <1>1, <2>1, <2>3, <3>1, <3>2 DEF ForTextInv, Reading
  <2>4. QED
    BY <2>2, <2>3
<1>4. QED
  BY <1>2, <1>3

LEMMA ForTextRetry ==
  ASSUME LookupType, FormTypeOK, ForTextInv, FormRetry
  PROVE  ForTextInv'
<1>0. /\ \A r \in requests : r.seq \in Nat
      /\ requestSeq \in Nat
  BY LookupAssumption DEF LookupType, LookupTypeOK, Request
<1>1. Requery(Named) /\ Named' = Named /\ UNCHANGED requests
  BY DEF FormRetry, formVars, fieldVars, Named
<1>2. CASE Named = None
  <2>1. timer' = None /\ status'.kind = "idle" /\ requestSeq' = requestSeq
    BY <1>1, <1>2 DEF Requery, Idle
  <2>2. QED
    BY <1>1, <2>1 DEF ForTextInv, Reading, Loaded
<1>3. CASE Named # None
  <2>1. timer' = Named /\ requestSeq' = requestSeq + 1
    BY <1>1, <1>3 DEF Requery
  <2>2. \A r \in requests : r.seq < requestSeq'
    BY <1>0, <2>1 DEF ForTextInv
  <2>3. QED
    BY <1>0, <1>1, <1>3, <2>1, <2>2 DEF ForTextInv, Reading
<1>4. QED
  BY <1>2, <1>3

\* The aircraft's page is never left for the form.
LEMMA StaysOnThePage == TypeInv /\ SectionStep => ~OnForm'
<1> SUFFICES ASSUME TypeInv, SectionStep PROVE ~OnForm'
  OBVIOUS
<1>1. visits' = visits \/ Reopened
  BY DEF SectionStep, SectionNext, handleAircraftFaaDecisionsList, LoadArrives, LoadFails,
     SectionLookupStep, SectionRetry, NightlyLoad, AcceptOrDecline, postDecision, OpenSheet,
     CloseSheet, SubmitReport, record, SendFails, ReceiveDecision, Unheard, Settle,
     onReopenDecided, decisionVars, bounds
<1>2. visits' = visits \/ visits' = visits + 1
  BY <1>1 DEF Reopened, Mount
<1>3. QED
  BY <1>2 DEF SectionStep, OnForm, TypeInv, DecisionTypeOK

LEMMA TextNext == TypeInv /\ TextInv /\ [Next]_vars => TextInv'
<1> SUFFICES ASSUME TypeInv, TextInv, [Next]_vars, OnForm', ~overtaken'
             PROVE  ForTextInv'
  BY DEF TextInv
<1>0. LookupType /\ FormTypeOK
  BY DEF TypeInv
<1>1. ~Leave /\ ~SectionStep
  <2>1. CASE Leave
    BY <2>1 DEF Leave, OnForm, Mount
  <2>2. ~SectionStep
    BY StaysOnThePage
  <2>3. QED
    BY <2>1, <2>2 DEF Leave, OnForm, Mount
<1>2. CASE FormStep
  <2>1. OnForm /\ FormNext /\ ~overtaken
    <3>1. overtaken' = overtaken \/ \E text \in Text : SetRegistration(text)
      BY <1>2 DEF FormStep, FormNext, FormDebounceEnds, FormLookupStep, FormRetry, Edit, onAccept,
         onDecline, onReport, onReopen, Decide, Submit, handleAircraftCreate, PostFails, Answered,
         Hears, ReceiveAnswer, NeverArrives, formVars
    <3>2. ASSUME NEW text \in Text, SetRegistration(text) PROVE ~overtaken
      <4>1. ~(overtaken \/ (~(normalizeForLookup[text] = normalizeForLookup[registration])
                  /\ \E r \in requests : Reading(r) \/ (normalizeForLookup[text] = None /\ ~Stale(r))))
        BY <3>2 DEF SetRegistration
      <4>2. QED
        BY <4>1
    <3>3. QED
      BY <1>2, <3>1, <3>2 DEF FormStep
  <2>2. ForTextInv
    BY <2>1 DEF TextInv
  <2>3. ASSUME UNCHANGED lookupVars, UNCHANGED registration PROVE ForTextInv'
    BY <2>2, <2>3 DEF lookupVars, ForTextInv, Reading, Named
  <2>4. ASSUME NEW r \in requests, FormLookupStep(r) PROVE ForTextInv'
    BY <1>0, <2>2, <2>4, ForTextStep DEF FormLookupStep, LookupStep
  <2>5. CASE FormDebounceEnds
    BY <1>0, <2>2, <2>5, ForTextStep DEF FormDebounceEnds, formVars, fieldVars
  <2>6. CASE FormRetry
    BY <1>0, <2>2, <2>6, ForTextRetry
  <2>7. QED
    BY <1>0, <2>1, <2>2, <2>3, <2>4, <2>5, <2>6, ForTextSet
    DEF FormNext, Edit, onAccept, onDecline, onReport, onReopen, Decide, Submit,
        handleAircraftCreate, PostFails, Answered, Hears, ReceiveAnswer, NeverArrives, fieldVars
<1>3. CASE UNCHANGED vars
  BY <1>3 DEF vars, lookupVars, formVars, fieldVars, decisionVars, bounds, TextInv, OnForm, ForTextInv,
              Reading, Named
<1>4. QED
  BY <1>1, <1>2, <1>3 DEF Next

\* Whatever is typed, cleared and typed again while answers are late: what the
\* form shows of the registry is of the N-number in the field, unless an
\* answer was overtaken while it was read or the field was cleared.
THEOREM OfTheText == Spec => []LookupMatchesText
<1>1. Init => TextInv
  BY DEF Init, LookupInit, FormInit, TextInv, ForTextInv, Idle, Loaded
<1>2. TextInv => LookupMatchesText
  BY DEF TextInv, ForTextInv, LookupMatchesText, Named
<1>3. QED
  BY <1>1, <1>2, TypeInit, TypeNext, TextNext, PTL DEF Spec

-----------------------------------------------------------------------------
(* Entering an aircraft.  A POST that was not answered "created" has left no  *)
(* row, and no other will ever have its id; so what the page was told of it   *)
(* stays so, whatever is served later.                                        *)

Absent(id) == \A a \in aircraft : a.id # id

NumbersInv ==
    /\ \A a \in aircraft : a.id <= posted
    /\ \A p \in posts : p.row.id <= posted
    /\ \A p, q \in posts : p.row.id = q.row.id => p = q

AnswersInv ==
    \A p \in posts :
        /\ p.answer = "created" => p.row \in aircraft
        /\ p.answer # "created" => Absent(p.row.id)
        /\ p.answer = "refused" => Taken(p.row.registration)

MessageInv ==
    message # None /\ message.kind \in {"refused", "failed"} =>
        /\ \A p \in posts : p.row.id # message.id
        /\ message.id <= posted
        /\ Absent(message.id)
        /\ message.kind = "refused" => Taken(message.registration)

FormTold ==
    /\ NumbersInv
    /\ AnswersInv
    /\ MessageInv
    /\ created # None => created \in aircraft

ToldInv == IF OnForm THEN FormTold ELSE message = None /\ created = None

\* A step with no new POST, no new row, and no news for the page.
LEMMA ToldFrame ==
  ASSUME FormTold, posts' \subseteq posts, UNCHANGED <<aircraft, created, message, posted>>
  PROVE  FormTold'
<1>1. NumbersInv'
  BY DEF FormTold, NumbersInv
<1>2. AnswersInv'
  BY DEF FormTold, AnswersInv, Absent, Taken
<1>3. MessageInv'
  BY DEF FormTold, MessageInv, Absent, Taken
<1>4. QED
  BY <1>1, <1>2, <1>3 DEF FormTold

LEMMA ToldSubmit == TypeInv /\ FormTold /\ Submit => FormTold'
<1> SUFFICES ASSUME TypeInv, FormTold, Submit PROVE FormTold'
  OBVIOUS
<1> DEFINE row == [id |-> posted + 1, registration |-> registration, inputs |-> inputs]
           new == [row |-> row, answer |-> "none"]
<1>1. /\ posts' = posts \cup {new} /\ posted' = posted + 1 /\ message' = None
      /\ UNCHANGED <<aircraft, created>>
  BY DEF Submit
<1>2. new.row.id = posted + 1 /\ new.answer = "none" /\ posted \in Nat
  BY FormAssumption DEF TypeInv, FormTypeOK
<1>3. /\ \A a \in aircraft : a.id \in Nat
      /\ \A p \in posts : p.row.id \in Nat
  BY FormAssumption DEF TypeInv, FormTypeOK, AircraftRow, Post, PostId
<1> HIDE DEF row, new
<1>4. NumbersInv'
  BY <1>1, <1>2, <1>3 DEF FormTold, NumbersInv
<1>5. Absent(posted + 1)
  BY <1>2, <1>3 DEF FormTold, NumbersInv, Absent
<1>6. AnswersInv'
  BY <1>1, <1>2, <1>5 DEF FormTold, AnswersInv, Absent, Taken
<1>7. QED
  BY <1>1, <1>4, <1>6 DEF FormTold, MessageInv

\* The handler: the row it may add is that of a POST, which nobody was told of.
LEMMA ToldCreate ==
  ASSUME TypeInv, FormTold, NEW p \in posts, handleAircraftCreate(p)
  PROVE  FormTold'
<1>0. p \in Post /\ p.row \in AircraftRow /\ p.answer = "none"
  BY DEF TypeInv, FormTypeOK, Post, handleAircraftCreate
<1>1. PICK answer \in {"created", "refused", "failed"} :
          /\ Answered(p, answer)
          /\ answer = "refused" => Taken(p.row.registration)
          /\ answer = "created" => aircraft' = aircraft \cup {p.row}
          /\ answer # "created" => aircraft' = aircraft
  BY DEF handleAircraftCreate
<1> DEFINE new == [p EXCEPT !.answer = answer]
<1>2. /\ posts' \subseteq (posts \ {p}) \cup {new}
      /\ UNCHANGED <<message, posted, created>>
  BY <1>1 DEF Answered
<1>3. new.row = p.row /\ new.answer = answer
  BY <1>0 DEF Post
<1> HIDE DEF new
<1>4. aircraft \subseteq aircraft' /\ \A a \in aircraft' : a \in aircraft \/ (a = p.row /\ answer = "created")
  BY <1>1
<1>5. \A q \in posts' : (q \in posts /\ q.row.id # p.row.id) \/ q = new
  BY <1>2 DEF FormTold, NumbersInv
<1>6. NumbersInv'
  BY <1>2, <1>3, <1>4, <1>5 DEF FormTold, NumbersInv
<1>7. \A text : Taken(text) => Taken(text)'
  BY <1>4 DEF Taken
<1>8. AnswersInv'
  <2> SUFFICES ASSUME NEW q \in posts'
               PROVE  /\ q.answer = "created" => q.row \in aircraft'
                      /\ q.answer # "created" => Absent(q.row.id)'
                      /\ q.answer = "refused" => Taken(q.row.registration)'
    BY DEF AnswersInv
  <2>1. CASE q \in posts /\ q.row.id # p.row.id
    BY <1>4, <1>7, <2>1 DEF FormTold, AnswersInv, Absent
  <2>2. CASE q = new
    <3>1. Absent(p.row.id)
      BY <1>0 DEF FormTold, AnswersInv
    <3>2. answer = "created" => p.row \in aircraft'
      BY <1>1
    <3>3. answer # "created" => Absent(p.row.id)'
      BY <1>1, <3>1 DEF Absent
    <3>4. QED
      BY <1>1, <1>3, <1>7, <2>2, <3>2, <3>3
  <2>3. QED
    BY <1>5, <2>1, <2>2
<1>9. MessageInv'
  BY <1>2, <1>3, <1>4, <1>5, <1>7 DEF FormTold, MessageInv, Absent
<1>10. QED
  BY <1>2, <1>4, <1>6, <1>8, <1>9 DEF FormTold

\* The page is told, by the answer of its POST or by the lack of one.
LEMMA ToldHears ==
  ASSUME TypeInv, FormTold, NEW p \in posts, ReceiveAnswer(p) \/ PostFails(p)
  PROVE  FormTold'
<1>0. p \in Post
  BY DEF TypeInv, FormTypeOK
<1>1. posts' \subseteq posts /\ UNCHANGED <<aircraft, posted>>
  BY DEF ReceiveAnswer, PostFails, Hears
<1>2. NumbersInv' /\ AnswersInv'
  BY <1>1 DEF FormTold, NumbersInv, AnswersInv, Absent, Taken
<1>3. CASE PostFails(p)
  <2>1. message'.kind = "lost" /\ created' = created
    BY <1>3 DEF PostFails, Hears
  <2>2. QED
    BY <1>1, <1>2, <2>1 DEF FormTold, MessageInv
<1>4. CASE ReceiveAnswer(p) /\ p.answer = "created"
  <2>1. message' = message /\ created' = p.row
    BY <1>4 DEF ReceiveAnswer
  <2>2. p.row \in aircraft
    BY <1>4 DEF FormTold, AnswersInv
  <2>3. QED
    BY <1>1, <1>2, <2>1, <2>2 DEF FormTold, MessageInv, Absent, Taken
<1>5. CASE ReceiveAnswer(p) /\ p.answer # "created"
  <2>1. /\ posts' = posts \ {p} /\ created' = created
        /\ message'.kind = p.answer /\ message'.id = p.row.id
        /\ message'.registration = p.row.registration
    BY <1>5 DEF ReceiveAnswer, Hears
  <2>2. /\ \A q \in posts' : q.row.id # p.row.id
        /\ p.row.id <= posted /\ Absent(p.row.id)
        /\ p.answer = "refused" => Taken(p.row.registration)
    BY <1>5, <2>1 DEF FormTold, NumbersInv, AnswersInv
  <2>3. MessageInv'
    BY <1>1, <2>1, <2>2 DEF MessageInv, Absent, Taken
  <2>4. QED
    BY <1>1, <1>2, <2>1, <2>3 DEF FormTold
<1>6. QED
  BY <1>3, <1>4, <1>5

LEMMA ToldNext == TypeInv /\ ToldInv /\ [Next]_vars => ToldInv'
<1> SUFFICES ASSUME TypeInv, ToldInv, [Next]_vars PROVE ToldInv'
  OBVIOUS
<1>1. CASE FormStep
  <2>1. OnForm /\ OnForm' /\ FormNext /\ FormTold
    BY <1>1 DEF FormStep, OnForm, decisionVars, bounds, ToldInv
  <2>2. FormTold'
    <3>1. ASSUME UNCHANGED <<posts, aircraft, created, message, posted>> PROVE FormTold'
      BY <2>1, <3>1, ToldFrame
    <3>2. ASSUME NEW p \in posts, NeverArrives(p) PROVE FormTold'
      BY <2>1, <3>2, ToldFrame DEF NeverArrives
    <3>3. QED
      BY <2>1, <3>1, <3>2, ToldSubmit, ToldCreate, ToldHears
      DEF FormNext, SetRegistration, FormDebounceEnds, FormLookupStep, FormRetry,
          Edit, onAccept, onDecline, onReport, onReopen, Decide, formVars, postVars
  <2>3. QED
    BY <2>1, <2>2 DEF ToldInv
<1>2. CASE Leave
  BY <1>2 DEF Leave, Mount, FormGone, OnForm, ToldInv, TypeInv, DecisionTypeOK
<1>3. CASE SectionStep
  <2>1. ~OnForm /\ ~OnForm'
    BY <1>3, StaysOnThePage DEF SectionStep
  <2>2. QED
    BY <1>3, <2>1 DEF SectionStep, formVars, postVars, ToldInv
<1>4. CASE UNCHANGED vars
  <2>1. UNCHANGED <<posts, aircraft, created, message, posted, visits>>
    BY <1>4 DEF vars, formVars, postVars, decisionVars, bounds
  <2>2. QED
    BY <2>1, ToldFrame DEF ToldInv, OnForm
<1>5. QED
  BY <1>1, <1>2, <1>3, <1>4 DEF Next

\* However often the form is submitted, whatever is lost, and however late a POST is
\* served of which the page had given up: an aircraft it was told of is there, and one
\* that it was told was refused, or had failed, is not.
THEOREM Told == Spec => []ToldWhatHappened
<1>1. Init => ToldInv
  BY DEF Init, FormInit, DecisionInit, OnForm, ToldInv, FormTold, NumbersInv, AnswersInv,
         MessageInv
<1>2. ToldInv => ToldWhatHappened
  BY DEF ToldInv, FormTold, MessageInv, ToldWhatHappened, Absent
<1>3. QED
  BY <1>1, <1>2, TypeInit, TypeNext, ToldNext, PTL DEF Spec

-----------------------------------------------------------------------------
(* The decisions on the screen.  While requests about a field do not overlap *)
(* nothing is known of a field that is being decided, a decision that was    *)
(* recorded is the row of the table, and the load of the page meets no       *)
(* decision; ...                                                             *)

SettledInv ==
    /\ load.state # "none" => sends = {}
    /\ load.state = "answered" => load.rows = table
    /\ \A p, q \in sends : p.field = q.field => p = q
    /\ \A p \in sends :
        /\ shown[p.field] = None
        /\ p.state = "recorded" => table[p.field] = RowOf(p, p.at)
    /\ \A f \in Field :
        shown[f] # None /\ (\A p \in sends : p.field # f) => shown[f] = table[f]

\* ... and the form knows of no decision.
RecordInv ==
    /\ OnForm => shown = NoRows /\ sends = {} /\ load.state = "none"
    /\ ~raced => SettledInv

\* A step that touches none of it.
LEMMA SettledFrame ==
  ASSUME SettledInv, UNCHANGED <<table, shown, sends, load, values>>
  PROVE  SettledInv'
  BY DEF SettledInv, RowOf

LEMMA MountSettles ==
  ASSUME TypeInv, NEW n, NEW own, Mount(n, own)
  PROVE  RecordInv'
<1>1. ~OnForm'
  BY DEF Mount, OnForm, TypeInv, DecisionTypeOK
<1>2. ASSUME ~raced' PROVE SettledInv'
  <2>1. sends' = {} /\ load'.state = "sent" /\ shown' = NoRows
    BY <1>2 DEF Mount, sendVars, Loading
  <2>2. QED
    BY <2>1 DEF SettledInv, NoRows
<1>3. QED
  BY <1>1, <1>2 DEF RecordInv

LEMMA PostSettles ==
  ASSUME TypeInv, SettledInv, NEW f \in Field, NEW decision \in Decision,
         postDecision(f, decision), ~raced'
  PROVE  SettledInv'
<1> DEFINE new == [id |-> sent + 1, field |-> f, decision |-> decision,
                   faa |-> status.value[f], state |-> "sent", at |-> 0, visit |-> visits]
<1>1. load.state = "none" /\ \A p \in sends : p.field # f
  BY DEF postDecision
<1>2. shown[f] = None
  <2>1. shown[f] # None => shown[f].decision # "conflict"
    BY DEF TypeInv, DecisionTypeOK, Decisions, DecisionRow, Decision
  <2>2. status.kind = "match"
    BY ConflictFacts DEF postDecision
  <2>3. QED
    BY <2>1, <2>2 DEF postDecision, Chip, deriveFieldState
<1>3. /\ sends' = sends \cup {new} /\ UNCHANGED <<table, shown, load, values>>
      /\ new.field = f /\ new.state = "sent"
  BY DEF postDecision, tableVars
<1> HIDE DEF new
<1>4. QED
  BY <1>1, <1>2, <1>3 DEF SettledInv, RowOf

LEMMA SendSettles ==
  ASSUME TypeInv, SettledInv, NEW p \in sends,
         record(p) \/ SendFails(p) \/ ReceiveDecision(p) \/ Unheard(p)
  PROVE  SettledInv'
<1>0. /\ p \in Send /\ p.field \in Field /\ load.state = "none" /\ recorded + 1 \in Nat
      /\ table \in [Field -> DecisionRow \cup {None}] /\ shown \in [Field -> DecisionRow \cup {None}]
  BY DEF TypeInv, DecisionTypeOK, Decisions, Send, SettledInv
<1>1. ASSUME NEW state, NEW at, Settle(p, state, at),
             \A f \in Field : f # p.field => table'[f] = table[f],
             state = "recorded" => table'[p.field] = RowOf(p, at)
      PROVE  SettledInv'
  <2> DEFINE new == [p EXCEPT !.state = state, !.at = at]
  <2>1. /\ sends' = (sends \ {p}) \cup {new} /\ UNCHANGED <<shown, load, values>>
    BY <1>1 DEF Settle, sectionVars
  <2>2. /\ new.field = p.field /\ new.state = state /\ new.at = at
        /\ new.decision = p.decision /\ new.faa = p.faa
    BY <1>0 DEF Send
  <2> HIDE DEF new
  <2>3. RowOf(new, new.at) = RowOf(p, at)
    BY <2>2 DEF RowOf
  <2>4. \A q \in sends : q # p => q.field \in Field /\ q.field # p.field
    BY <1>0 DEF SettledInv, TypeInv, DecisionTypeOK, Send
  <2>5. \A q \in sends' : q = new \/ (q \in sends /\ q # p)
    BY <2>1
  <2>6. \A q, s \in sends' : q.field = s.field => q = s
    BY <2>2, <2>4, <2>5 DEF SettledInv
  <2>7. \A q \in sends' : /\ shown[q.field] = None
                          /\ q.state = "recorded" => table'[q.field] = RowOf(q, q.at)
    BY <1>1, <2>2, <2>3, <2>4, <2>5 DEF SettledInv
  <2>8. \A f \in Field : shown[f] # None /\ (\A q \in sends' : q.field # f) => shown[f] = table'[f]
    BY <1>1, <2>1, <2>2, <2>7 DEF SettledInv
  <2>9. \A q : RowOf(q, q.at)' = RowOf(q, q.at)
    BY <2>1 DEF RowOf
  <2>10. QED
    BY <1>0, <2>1, <2>6, <2>7, <2>8, <2>9 DEF SettledInv
<1>2. CASE record(p)
  BY <1>0, <1>1, <1>2 DEF record
<1>3. CASE SendFails(p)
  BY <1>1, <1>3 DEF SendFails, tableVars
<1>4. CASE ReceiveDecision(p)
  <2>1. /\ sends' = sends \ {p} /\ UNCHANGED <<table, load, values>>
        /\ \A f \in Field : f # p.field => shown'[f] = shown[f]
        /\ shown'[p.field] = None \/ shown'[p.field] = table[p.field]
    BY <1>0, <1>4 DEF ReceiveDecision, tableVars, SettledInv
  <2>2. \A q \in sends' : q \in sends /\ q.field \in Field /\ q.field # p.field
    BY <1>0, <2>1 DEF SettledInv, TypeInv, DecisionTypeOK, Send
  <2>3. \A f \in Field : shown'[f] # None /\ (\A q \in sends' : q.field # f) => shown'[f] = table[f]
    BY <2>1 DEF SettledInv
  <2>4. QED
    BY <1>0, <2>1, <2>2, <2>3 DEF SettledInv, RowOf
<1>5. CASE Unheard(p)
  <2>1. sends' = sends \ {p} /\ UNCHANGED <<table, shown, load, values>>
    BY <1>5 DEF Unheard, tableVars, sectionVars
  <2>2. QED
    BY <1>0, <2>1 DEF SettledInv, RowOf
<1>6. QED
  BY <1>2, <1>3, <1>4, <1>5

LEMMA LoadSettles ==
  ASSUME SettledInv,
         handleAircraftFaaDecisionsList \/ LoadArrives \/ LoadFails
  PROVE  SettledInv'
<1>1. CASE handleAircraftFaaDecisionsList
  BY <1>1 DEF handleAircraftFaaDecisionsList, Loading, tableVars, sendVars, SettledInv, RowOf
<1>2. CASE LoadArrives
  BY <1>2 DEF LoadArrives, Loading, tableVars, sendVars, SettledInv
<1>3. CASE LoadFails
  BY <1>3 DEF LoadFails, Loading, tableVars, sendVars, SettledInv, RowOf
<1>4. QED
  BY <1>1, <1>2, <1>3

LEMMA RecordNext == TypeInv /\ RecordInv /\ [Next]_vars => RecordInv'
<1> SUFFICES ASSUME TypeInv, RecordInv, [Next]_vars PROVE RecordInv'
  OBVIOUS
<1> USE DEF tableVars, sectionVars, sheetVars, sendVars, bounds
<1>1. CASE FormStep \/ UNCHANGED vars
  <2>1. UNCHANGED <<table, shown, sends, load, values, visits, raced>>
    BY <1>1 DEF FormStep, vars, decisionVars
  <2>2. QED
    BY <2>1, SettledFrame DEF RecordInv, OnForm
<1>2. CASE Leave
  BY <1>2, MountSettles DEF Leave
<1>3. CASE SectionStep
  <2>0. ~OnForm /\ SectionNext
    BY <1>3 DEF SectionStep
  <2>1. CASE Reopened
    BY <2>1, MountSettles DEF Reopened
  <2>2. ASSUME visits' = visits, ~raced' => ~raced /\ (SettledInv => SettledInv')
        PROVE  RecordInv'
    BY <2>0, <2>2 DEF RecordInv, OnForm
  <2>3. CASE handleAircraftFaaDecisionsList \/ LoadArrives \/ LoadFails
    BY <2>2, <2>3, LoadSettles DEF handleAircraftFaaDecisionsList, LoadArrives, LoadFails
  <2>4. CASE SectionLookupStep \/ SectionRetry \/ (\E next \in Registries : NightlyLoad(next))
             \/ (\E f \in Field : OpenSheet(f)) \/ CloseSheet
    <3>1. UNCHANGED <<table, shown, sends, load, values, visits, raced>>
      BY <2>4 DEF SectionLookupStep, SectionRetry, NightlyLoad, OpenSheet, CloseSheet, decisionVars
    <3>2. QED
      BY <2>2, <3>1, SettledFrame
  <2>5. ASSUME NEW f \in Field, NEW decision \in Decision, postDecision(f, decision)
        PROVE  RecordInv'
    <3>1. visits' = visits
      BY <2>5 DEF postDecision
    <3>2. ~raced' => ~raced
      <4>1. raced' = (raced \/ load.state # "none" \/ \E p \in sends : p.field = f)
        BY <2>5 DEF postDecision
      <4>2. QED
        BY <4>1, Zenon
    <3>3. QED
      BY <2>2, <2>5, <3>1, <3>2, PostSettles
  <2>6. ASSUME NEW f \in Field, onReopenDecided(f) PROVE RecordInv'
    <3>1. /\ UNCHANGED <<table, sends, load, values, visits, raced>>
          /\ shown'[f] = None /\ \A g \in Field : g # f => shown'[g] = shown[g]
      BY <2>6 DEF onReopenDecided, TypeInv, DecisionTypeOK, Decisions
    <3>2. \A p \in sends : p.field \in Field
      BY DEF TypeInv, DecisionTypeOK, Send
    <3>3. SettledInv => SettledInv'
      BY <3>1, <3>2 DEF SettledInv, RowOf
    <3>4. QED
      BY <2>2, <3>1, <3>3
  <2>7. ASSUME NEW p \in sends, record(p) \/ SendFails(p) \/ ReceiveDecision(p) \/ Unheard(p)
        PROVE  RecordInv'
    <3>1. UNCHANGED <<visits, raced>>
      BY <2>7 DEF record, SendFails, ReceiveDecision, Unheard, Settle
    <3>2. QED
      BY <2>2, <2>7, <3>1, SendSettles
  <2>8. QED
    BY <2>0, <2>1, <2>3, <2>4, <2>5, <2>6, <2>7
    DEF SectionNext, AcceptOrDecline, SubmitReport, Decision, TypeInv, DecisionTypeOK
<1>4. QED
  BY <1>1, <1>2, <1>3 DEF Next

LEMMA RecordInit == Init => RecordInv
  BY DEF Init, DecisionInit, RecordInv, SettledInv, Loading, NoRows

\* For any number of fields, decisions and nights: a decision on the screen of
\* which nothing is under way is the row in the database, unless requests about
\* the field had overlapped.
THEOREM Recorded == Spec => []ShownIsRecorded
<1>1. RecordInv => ShownIsRecorded
  BY DEF RecordInv, SettledInv, ShownIsRecorded
<1>2. QED
  BY <1>1, RecordInit, TypeInit, TypeNext, RecordNext, PTL DEF Spec

-----------------------------------------------------------------------------
(* A field that was decided does not ask again: its decision would have to   *)
(* go from the screen, and only a load that met a decision takes it.         *)

LEMMA DecidedStays ==
  ASSUME TypeInv, RecordInv, [Next]_vars, NEW f \in Field,
         Chip(f) \in Decision, Chip(f)' = "conflict", ~raced', visits' = visits
  PROVE  onReopenDecided(f)
<1> USE DEF tableVars, sectionVars, sheetVars, sendVars, bounds
<1>1. shown[f] # None /\ ~OnForm
  <2>1. shown[f] # None
    BY DEF Chip, deriveFieldState, Decision
  <2>2. QED
    BY <2>1 DEF RecordInv, NoRows
<1>2. shown'[f] = None
  <2>1. shown'[f] # None => shown'[f].decision # "conflict"
    BY TypeNext DEF TypeInv, DecisionTypeOK, Decisions, DecisionRow, Decision
  <2>2. QED
    BY <2>1 DEF Chip, deriveFieldState
<1>3. SectionStep /\ ~Reopened
  BY <1>1, <1>2 DEF Next, FormStep, Leave, Mount, Reopened, OnForm, vars, decisionVars, TypeInv, DecisionTypeOK
<1>4. ~raced => ~LoadArrives
  <2> SUFFICES ASSUME ~raced, LoadArrives PROVE FALSE
    OBVIOUS
  <2>1. sends = {} /\ load.rows = table /\ shown'[f] = load.rows[f]
    BY DEF LoadArrives, RecordInv, SettledInv
  <2>2. shown[f] = table[f]
    BY <1>1, <2>1 DEF RecordInv, SettledInv
  <2>3. QED
    BY <1>1, <1>2, <2>1, <2>2
<1>5. ~raced => \A p \in sends : ReceiveDecision(p) => shown'[f] = shown[f]
  <2> SUFFICES ASSUME ~raced, NEW p \in sends, ReceiveDecision(p) PROVE shown'[f] = shown[f]
    OBVIOUS
  <2>1. p.field # f /\ shown \in Decisions
    BY <1>1 DEF RecordInv, SettledInv, TypeInv, DecisionTypeOK
  <2>2. QED
    BY <2>1 DEF ReceiveDecision, Decisions
<1>6. UNCHANGED raced \/ \E g \in Field, decision \in Decision : postDecision(g, decision)
  BY <1>3 DEF SectionStep, SectionNext, handleAircraftFaaDecisionsList, LoadArrives, LoadFails,
     SectionLookupStep, SectionRetry, NightlyLoad, AcceptOrDecline, OpenSheet,
     CloseSheet, SubmitReport, record, SendFails, ReceiveDecision, Unheard, Settle,
     onReopenDecided, decisionVars, Decision, TypeInv, DecisionTypeOK
<1>7. ASSUME NEW g \in Field, NEW decision \in Decision, postDecision(g, decision) PROVE FALSE
  BY <1>1, <1>2, <1>7 DEF postDecision
<1>8. ~raced
  BY <1>6, <1>7
<1>9. \E g \in Field : onReopenDecided(g)
  <2>1. shown' # shown /\ visits' = visits
    BY <1>1, <1>2
  <2>2. ~LoadArrives /\ \A p \in sends : ~ReceiveDecision(p)
    BY <1>1, <1>2, <1>4, <1>5, <1>8
  <2>3. QED
    BY <1>3, <2>1, <2>2
    DEF SectionStep, SectionNext, handleAircraftFaaDecisionsList, LoadFails,
        SectionLookupStep, SectionRetry, NightlyLoad, AcceptOrDecline, postDecision, OpenSheet,
        CloseSheet, SubmitReport, record, SendFails, Unheard, Settle, decisionVars
<1>10. QED
  BY <1>1, <1>2, <1>9 DEF onReopenDecided, TypeInv, DecisionTypeOK, Decisions

\* A field that was decided asks again only after Reopen, on a page opened anew,
\* or when requests had overlapped.
THEOREM AsksOnce == Spec => DecidedIsNotAskedAgain
<1>1. TypeInv /\ RecordInv /\ [Next]_vars =>
         [\A f \in Field :
             Chip(f) \in Decision /\ Chip(f)' = "conflict"
                 => raced' \/ visits' # visits \/ onReopenDecided(f)]_vars
  BY DecidedStays
<1>2. QED
  BY <1>1, RecordInit, TypeInit, TypeNext, RecordNext, PTL DEF Spec, DecidedIsNotAskedAgain

-----------------------------------------------------------------------------
(* The list of N-numbers under the registration field.                     *)

\* A request has the number it was given; ...
SearchShape ==
    /\ searchSeq \in Nat
    /\ \A r \in searches :
          /\ r = [seq |-> r.seq, query |-> r.query, answer |-> r.answer]
          /\ r.seq \in Nat /\ r.seq <= searchSeq

\* ... while the debounce is pending every request is stale, ...
PendingInv ==
    searchTimer # None =>
        /\ searchTimer = typed
        /\ \A r \in searches : r.seq # searchSeq

\* ... the latest asked for the text, unless that is too short to ask for, and its
\* rows are not cut off: those of the registry, or none where they cannot be read; ...
LatestInv ==
    typed \in Query =>
        \A r \in searches : r.seq = searchSeq =>
            /\ r.query = typed
            /\ r.answer # None /\ r.answer.ok =>
                   \/ ~r.answer.unread /\ r.answer.rows = lookupAircraftSearch[typed]
                   \/ r.answer.unread /\ r.answer.rows = <<>>

\* ... and what the panel has found is found for the text.
FoundInv ==
    typed \in Query /\ searchTimer = None =>
        /\ search.kind = "results" =>
               search.query = typed /\ search.rows = lookupAircraftSearch[typed]
        /\ search.kind = "empty" =>
               search.query = typed /\ (search.unread \/ lookupAircraftSearch[typed] = <<>>)

SearchInv == SearchShape /\ PendingInv /\ LatestInv /\ FoundInv

LEMMA AbortedFacts ==
  ASSUME SearchShape
  PROVE  \A k \in Aborted(searches) : \E r \in searches :
            k.seq = r.seq /\ k = [seq |-> k.seq, query |-> k.query, answer |-> k.answer]
<1> SUFFICES ASSUME NEW k \in Aborted(searches)
             PROVE  \E r \in searches :
                       /\ k.seq = r.seq
                       /\ k = [seq |-> k.seq, query |-> k.query, answer |-> k.answer]
  OBVIOUS
<1>1. CASE k \in searches
  BY <1>1 DEF SearchShape
<1>2. CASE \E r \in searches : k = [r EXCEPT !.answer.rows = <<>>]
  <2>1. PICK r \in searches : k = [r EXCEPT !.answer.rows = <<>>]
    BY <1>2
  <2>2. r = [seq |-> r.seq, query |-> r.query, answer |-> r.answer]
    BY DEF SearchShape
  <2>3. k = [seq |-> r.seq, query |-> r.query, answer |-> [r.answer EXCEPT !.rows = <<>>]]
    BY <2>1, <2>2
  <2>4. QED
    BY <2>3
<1>3. QED
  BY <1>1, <1>2 DEF Aborted

\* The text changes: it is too short, or whatever is under way is stale.
LEMMA RequeryStep ==
  ASSUME SearchInv, NEW q, typed' = q, SearchRequery(q)
  PROVE  SearchInv'
<1>1. CASE q \notin Query
  <2>1. /\ searches' = Aborted(searches) /\ searchTimer' = None
        /\ searchSeq' = searchSeq
    BY <1>1 DEF SearchRequery
  <2>2. SearchShape'
    BY <2>1, AbortedFacts DEF SearchInv, SearchShape
  <2>3. QED
    BY <1>1, <2>1, <2>2 DEF SearchInv, PendingInv, LatestInv, FoundInv
<1>2. CASE q \in Query
  <2>1. searches' = searches /\ searchTimer' = q /\ searchSeq' = searchSeq + 1
    BY <1>2 DEF SearchRequery
  <2>2. q # None
    BY <1>2, SearchAssumption
  <2>3. SearchShape' /\ \A r \in searches : r.seq # searchSeq'
    BY <2>1 DEF SearchInv, SearchShape
  <2>4. QED
    BY <2>1, <2>2, <2>3 DEF SearchInv, PendingInv, LatestInv, FoundInv
<1>3. QED
  BY <1>1, <1>2

LEMMA SearchStep ==
  ASSUME SearchInv, [SearchNext]_searchVars
  PROVE  SearchInv'
<1> USE DEF requestVars, Kept, SearchReading, Superseded, Show, Shows
<1>1. ASSUME UNCHANGED <<typed, search, searchSeq, searchTimer, searches>> PROVE SearchInv'
  BY <1>1 DEF SearchInv, SearchShape, PendingInv, LatestInv, FoundInv
<1>2. CASE runSearch
  <2> DEFINE new == [seq |-> searchSeq, query |-> searchTimer, answer |-> None]
  <2>1. /\ searchTimer # None /\ searchTimer' = None
        /\ searches' = Aborted(searches) \cup {new}
        /\ search' = [kind |-> "loading"]
        /\ typed' = typed /\ searchSeq' = searchSeq
    BY <1>2 DEF runSearch
  <2>2. searchTimer = typed /\ \A k \in Aborted(searches) : k.seq # searchSeq
    BY <2>1, AbortedFacts DEF SearchInv, PendingInv
  <2>3. /\ new.seq = searchSeq /\ new.query = searchTimer /\ new.answer = None
        /\ new = [seq |-> new.seq, query |-> new.query, answer |-> new.answer]
    OBVIOUS
  <2> HIDE DEF new
  <2>4. SearchShape'
    BY <2>1, <2>3, AbortedFacts DEF SearchInv, SearchShape
  <2>5. LatestInv'
    BY <2>1, <2>2, <2>3 DEF LatestInv
  <2>6. PendingInv' /\ FoundInv'
    BY <2>1 DEF PendingInv, FoundInv
  <2>7. QED
    BY <2>4, <2>5, <2>6 DEF SearchInv
<1>3. ASSUME NEW r \in searches, searches' = searches \ {r},
             UNCHANGED <<typed, searchSeq, searchTimer>>, FoundInv'
      PROVE  SearchInv'
  BY <1>3 DEF SearchInv, SearchShape, PendingInv, LatestInv
<1>4. ASSUME NEW r \in searches,
             NEW answer \in Answers(r),
             SearchArrives(r, answer)
      PROVE  SearchInv'
  <2> DEFINE new == [r EXCEPT !.answer = answer]
  <2>1. /\ searches' = (searches \ {r}) \cup {new}
        /\ UNCHANGED <<typed, search, searchSeq, searchTimer>>
    BY <1>4 DEF SearchArrives
  <2>2. /\ new = [seq |-> r.seq, query |-> r.query, answer |-> answer]
        /\ new.seq = r.seq /\ new.query = r.query /\ new.answer = answer
    BY DEF SearchInv, SearchShape
  <2>3. answer.ok => \/ ~answer.unread /\ answer.rows = lookupAircraftSearch[r.query]
                     \/ answer.unread /\ answer.rows = <<>>
    BY DEF Answers, Answer, Unreadable, Failed
  <2> HIDE DEF new
  <2>4. SearchShape'
    BY <2>1, <2>2 DEF SearchInv, SearchShape
  <2>5. PendingInv'
    BY <2>1, <2>2 DEF SearchInv, PendingInv
  <2>6. LatestInv'
    BY <2>1, <2>2, <2>3 DEF SearchInv, LatestInv
  <2>7. FoundInv'
    BY <2>1 DEF SearchInv, FoundInv
  <2>8. QED
    BY <2>4, <2>5, <2>6, <2>7 DEF SearchInv
<1>5. ASSUME NEW r \in searches,
             SearchThrows(r) \/ DropSuperseded(r) \/ ReadError(r)
      PROVE  SearchInv'
  <2>1. searches' = searches \ {r} /\ UNCHANGED <<typed, searchSeq, searchTimer>>
    BY <1>5 DEF SearchThrows, DropSuperseded, ReadError, Ends
  <2>2. search' = search \/ search' = [kind |-> "error"]
    BY <1>5 DEF SearchThrows, DropSuperseded, ReadError
  <2>3. FoundInv'
    BY <2>1, <2>2 DEF SearchInv, FoundInv
  <2>4. QED
    BY <1>3, <2>1, <2>3
<1>6. ASSUME NEW r \in searches, ReadResults(r) PROVE SearchInv'
  <2>1. /\ searches' = searches \ {r} /\ UNCHANGED <<typed, searchSeq, searchTimer>>
        /\ r.seq = searchSeq /\ r.answer # None /\ r.answer.ok
        /\ search' = [kind |-> IF r.answer.rows = <<>> THEN "empty" ELSE "results",
                      query |-> r.query, rows |-> r.answer.rows, unread |-> r.answer.unread]
    BY <1>6 DEF ReadResults, Ends
  <2>2. FoundInv'
    <3>1. CASE typed \in Query
      <4>1. /\ r.query = typed
            /\ \/ ~r.answer.unread /\ r.answer.rows = lookupAircraftSearch[typed]
               \/ r.answer.unread /\ r.answer.rows = <<>>
        BY <2>1, <3>1 DEF SearchInv, LatestInv
      <4>2. QED
        BY <2>1, <4>1 DEF FoundInv
    <3>2. CASE typed \notin Query
      BY <2>1, <3>2 DEF FoundInv
    <3>3. QED
      BY <3>1, <3>2
  <2>3. QED
    BY <1>3, <2>1, <2>2
<1>7. ASSUME NEW n, onChange(n) PROVE SearchInv'
  BY <1>7, RequeryStep DEF onChange
<1>8. ASSUME NEW i, commitSelection(i) PROVE SearchInv'
  BY <1>1, <1>8, RequeryStep DEF commitSelection
<1>9. CASE Browser
  BY <1>2, <1>4, <1>5, <1>6, <1>9 DEF Browser
<1>10. CASE Operator
  BY <1>1, <1>7, <1>8, <1>10 DEF Operator, EnterKey, Press, Focus,
     Close, ArrowDown, ArrowUp, Hover, Highlight
<1>11. CASE UNCHANGED searchVars
  BY <1>1, <1>11 DEF searchVars
<1>12. QED
  BY <1>9, <1>10, <1>11 DEF SearchNext

\* What the panel lists is what the registry has for the text beside it, and "No results
\* found" is true of it unless the body was unreadable, however answers, aborts and
\* typing interleave (FaaSearchCombobox).
THEOREM FoundForTheText == SearchSpec => []PanelMatchesText
<1>1. SearchInit => SearchInv
  BY DEF SearchInit, Shows, SearchInv, SearchShape, PendingInv, LatestInv, FoundInv
<1>2. SearchInv /\ [SearchNext]_searchVars => SearchInv'
  BY SearchStep
<1>3. SearchInv => PanelMatchesText
  BY DEF SearchInv, FoundInv, PanelMatchesText, showPanel
<1>4. QED
  BY <1>1, <1>2, <1>3, PTL DEF SearchSpec
=============================================================================
