-------------------------- MODULE ImportJobProofs --------------------------
(***************************************************************************)
(* Theorems about ImportJob for any sets of parse and commit requests and  *)
(* any file.  The first group is about every interleaving (Spec): the      *)
(* inductive invariant is TypeOK /\ TxInv /\ BreadcrumbsAgree.  The second *)
(* group assumes that parses of the job do not overlap (SerialSpec).       *)
(***************************************************************************)
EXTENDS ImportJob, TLAPS

-----------------------------------------------------------------------------
(* Type correctness and the state of open transactions *)

Staging == [Row -> StagedRow \cup {None}]

LEMMA NoRowsType == NoRows \in Staging /\ \A r \in Row : NoRows[r] = None
  BY DEF NoRows, Staging

\* A rollback keeps the transaction variables well typed.
LEMMA RollbackType ==
  ASSUME TypeOK, NEW c \in Committer, NEW next \in {"aborted", "done"},
         Rollback(c, next)
  PROVE  /\ cState' \in [Committer -> TxOpen \cup {"idle", "aborted", "done"}]
         /\ loaded' \in [Committer -> Staging]
         /\ written' \in [Committer -> SUBSET Row]
  BY NoRowsType DEF TypeOK, Rollback, Staging

LEMMA InitInv == Init => TypeOK /\ TxInv
  BY NoRowsType, ConstantsAssumption
  DEF Init, TypeOK, TxInv, JobStates, ParseInFlight, TxOpen, Staging

\* What COMMIT makes visible is well typed: a written row is a staging row.
LEMMA CommitWritesType ==
  ASSUME TypeOK, TxInv, NEW c \in Committer, cState[c] = "inserting", CommitWrites(c)
  PROVE  /\ staged' \in Staging
         /\ live' \in SUBSET LiveRow
         /\ job' \in [state: JobStates, kind: {"file", "manual"},
                      committedBy: Committer \cup {Manual, None}]
<1>1. \A r \in written[c] : r \in Row /\ staged[r] \in StagedRow
  BY DEF TypeOK, TxInv
<1>2. \A s \in StagedRow :
        [s EXCEPT !.status = "committed", !.record = c] \in StagedRow
  BY DEF StagedRow
<1>3. staged' \in Staging
  BY <1>1, <1>2 DEF TypeOK, CommitWrites, Staging
<1>4. \A r \in written[c] :
        [row |-> r, by |-> c, from |-> staged[r].by] \in LiveRow
  BY <1>1 DEF StagedRow, LiveRow
<1>5. live' \in SUBSET LiveRow
  BY <1>4 DEF TypeOK, CommitWrites
<1>6. QED
  BY <1>3, <1>5 DEF TypeOK, CommitWrites, JobStates

LEMMA NextType == TypeOK /\ TxInv /\ [Next]_vars => TypeOK'
<1> SUFFICES ASSUME TypeOK, TxInv, [Next]_vars PROVE TypeOK'
  OBVIOUS
<1> USE DEF TypeOK, JobStates, ParseInFlight, TxOpen, commitVars, parseVars
<1>1. CASE CreateImport
  BY <1>1 DEF CreateImport
<1>2. CASE CommitManualRow
  <2>1. PICK r \in Row :
          /\ staged' = [staged EXCEPT ![r] =
                 [by |-> Manual, status |-> "committed", record |-> Manual]]
          /\ live' = live \cup {[row |-> r, by |-> Manual, from |-> Manual]}
    BY <1>2 DEF CommitManualRow
  <2>2. staged' \in [Row -> StagedRow \cup {None}]
    BY <2>1 DEF StagedRow
  <2>3. live' \in SUBSET LiveRow
    BY <2>1 DEF LiveRow
  <2>4. QED
    BY <1>2, <2>2, <2>3 DEF CommitManualRow
<1>3. ASSUME NEW p \in Parser, Parse(p) \/ ParseThrows(p)
      PROVE  TypeOK'
  <2> USE DEF ParseStep, SetState
  <2>1. CASE ParseRead(p) \/ ParseRejectArchive(p) \/ ParseFails(p) \/ ParseThrows(p)
    BY <2>1 DEF ParseRead, ParseRejectArchive, ParseFails, ParseThrows
  <2>2. CASE ParseBegin(p) \/ ParseReady(p) \/ FailParse(p)
    BY <2>2 DEF ParseBegin, ParseReady, FailParse
  <2>3. CASE ParseWipe(p)
    <3>1. live' \in SUBSET LiveRow
      BY <2>3 DEF ParseWipe, LiveRow
    <3>2. QED
      BY <2>3, <3>1, NoRowsType DEF ParseWipe, Staging
  <2>4. CASE ParseStage(p)
    <3>1. staged' \in [Row -> StagedRow \cup {None}]
      BY <2>4 DEF ParseStage, StagedRow
    <3>2. QED
      BY <2>4, <3>1 DEF ParseStage
  <2>5. QED
    BY <1>3, <2>1, <2>2, <2>3, <2>4 DEF Parse
<1>4. ASSUME NEW c \in Committer, Commit(c) \/ CommitDies(c)
      PROVE  TypeOK'
  <2>1. CASE CommitLock(c)
    BY <2>1 DEF CommitLock
  <2>2. CASE CommitLoad(c)
    BY <2>2, RollbackType DEF CommitLoad, Staging
  <2>3. CASE CommitInsert(c)
    BY <2>3 DEF CommitInsert, Todo
  <2>4. CASE CommitFlip(c)
    BY <2>4, CommitWritesType, RollbackType DEF CommitFlip, CommitWrites, Staging
  <2>5. CASE CommitAborts(c) \/ CommitDies(c)
    BY <2>5, RollbackType DEF CommitAborts, CommitDies, Staging
  <2>6. CASE RecordCommitFailure(c)
    BY <2>6 DEF RecordCommitFailure, SetState
  <2>7. QED
    BY <1>4, <2>1, <2>2, <2>3, <2>4, <2>5, <2>6 DEF Commit
<1>5. CASE UNCHANGED vars
  BY <1>5 DEF vars
<1>6. QED
  BY <1>1, <1>2, <1>3, <1>4, <1>5 DEF Next

\* A step that leaves the staging rows and the transactions alone keeps TxInv.
LEMMA TxInvFrame ==
  ASSUME TxInv, UNCHANGED <<staged, cState, loaded, written>>,
         UNCHANGED job \/ HeaderFree
  PROVE  TxInv'
  BY DEF TxInv, HeaderFree

\* So does the end of a transaction, whatever became of its rows.
LEMMA TxInvEnd ==
  ASSUME TypeOK, TxInv, NEW c \in Committer, cState[c] \in TxOpen,
         NEW next \in {"aborted", "done"}, Rollback(c, next)
  PROVE  TxInv'
<1>1. \A d \in Committer : cState'[d] \notin TxOpen
  BY DEF TypeOK, TxInv, Rollback, TxOpen
<1>2. \A d \in Committer : written'[d] = {}
  BY DEF TypeOK, TxInv, Rollback, TxOpen
<1>3. QED
  BY <1>1, <1>2 DEF TxInv, TxOpen

LEMMA NextTx == TypeOK /\ TxInv /\ [Next]_vars => TxInv'
<1> SUFFICES ASSUME TypeOK, TxInv, [Next]_vars PROVE TxInv'
  OBVIOUS
<1> USE DEF commitVars, parseVars
<1>1. CASE CreateImport
  BY <1>1, TxInvFrame DEF CreateImport, TxInv, HeaderFree
<1>2. CASE CommitManualRow
  BY <1>2 DEF CommitManualRow, TxInv, TxOpen
<1>3. ASSUME NEW p \in Parser, Parse(p) \/ ParseThrows(p)
      PROVE  TxInv'
  <2>1. CASE ParseWipe(p)
    BY <2>1, NoRowsType DEF ParseWipe, TxInv
  <2>2. CASE ParseStage(p)
    BY <2>2 DEF ParseStage, TxInv, HeaderFree, TxOpen
  <2>3. CASE /\ UNCHANGED <<staged, cState, loaded, written>>
             /\ UNCHANGED job \/ HeaderFree
    BY <2>3, TxInvFrame
  <2>4. QED
    BY <1>3, <2>1, <2>2, <2>3
    DEF Parse, ParseRead, ParseRejectArchive, ParseBegin, ParseFails, ParseReady,
        FailParse, ParseThrows
<1>4. ASSUME NEW c \in Committer, Commit(c) \/ CommitDies(c)
      PROVE  TxInv'
  <2>1. CASE CommitLock(c)
    BY <2>1 DEF CommitLock, TxInv, TypeOK, HeaderFree, TxOpen
  <2>2. CASE CommitLoad(c)
    <3>1. CASE Rollback(c, "aborted")
      BY <2>2, <3>1, TxInvEnd DEF CommitLoad, TxOpen
    <3>2. CASE /\ \A r \in Row : staged[r] = None \/ staged[r].status # "invalid"
               /\ cState' = [cState EXCEPT ![c] = "inserting"]
               /\ loaded' = [loaded EXCEPT ![c] = staged]
               /\ UNCHANGED written
      <4>1. loaded'[c] = staged /\ written'[c] = {}
        BY <2>2, <3>2 DEF CommitLoad, TxInv, TypeOK
      <4>2. \A d \in Committer : d # c => cState'[d] \notin TxOpen
        BY <2>2, <3>2 DEF CommitLoad, TxInv, TypeOK, TxOpen
      <4>3. QED
        BY <2>2, <3>2, <4>1, <4>2 DEF CommitLoad, TxInv, TypeOK, TxOpen
    <3>3. QED
      BY <2>2, <3>1, <3>2 DEF CommitLoad
  <2>3. CASE CommitInsert(c)
    <3>1. PICK r \in Todo(c) :
            CanInsert(c, r) /\ written' = [written EXCEPT ![c] = @ \cup {r}]
      BY <2>3 DEF CommitInsert
    <3>2. staged[r] # None /\ staged[r].status = "valid"
      BY <2>3, <3>1 DEF CommitInsert, Todo, CanInsert, TxInv, TypeOK, StagedRow
    <3>3. QED
      BY <2>3, <3>1, <3>2 DEF CommitInsert, Todo, TxInv, TypeOK
  <2>4. CASE CommitFlip(c)
    BY <2>4, TxInvEnd DEF CommitFlip, CommitWrites, TxOpen
  <2>5. CASE CommitAborts(c)
    BY <2>5, TxInvEnd DEF CommitAborts
  <2>6. CASE RecordCommitFailure(c)
    <3>1. \A d \in Committer : cState'[d] \notin TxOpen
      BY <2>6 DEF RecordCommitFailure, HeaderFree, TypeOK, TxOpen
    <3>2. QED
      BY <2>6, <3>1 DEF RecordCommitFailure, TxInv, HeaderFree, TxOpen
  <2>7. CASE CommitDies(c)
    <3>1. CASE cState[c] \in TxOpen
      BY <2>7, <3>1, TxInvEnd DEF CommitDies
    <3>2. CASE cState[c] = "aborted"
      BY <2>7, <3>2 DEF CommitDies, Rollback, TxInv, TypeOK, TxOpen
    <3>3. QED
      BY <2>7, <3>1, <3>2 DEF CommitDies
  <2>8. QED
    BY <1>4, <2>1, <2>2, <2>3, <2>4, <2>5, <2>6, <2>7 DEF Commit
<1>5. CASE UNCHANGED vars
  BY <1>5, TxInvFrame DEF vars
<1>6. QED
  BY <1>1, <1>2, <1>3, <1>4, <1>5 DEF Next

\* Every reachable state is well typed, and the open transaction's view of the
\* staging rows stays true.
THEOREM TypeCorrect == Spec => [](TypeOK /\ TxInv)
  BY InitInv, NextType, NextTx, PTL DEF Spec

-----------------------------------------------------------------------------
(* Traceability *)

\* The guard query of the commit transaction never finds a row left behind.
THEOREM GuardQuery == Spec => []GuardQueryFindsNothing
<1>1. TypeOK /\ TxInv => GuardQueryFindsNothing
  BY DEF TypeOK, TxInv, GuardQueryFindsNothing, Uncommitted, Todo
<1>2. QED
  BY <1>1, TypeCorrect, PTL

LEMMA InitNothing == Init => NothingBeforeUpload
  BY DEF Init, NothingBeforeUpload

LEMMA NextNothing ==
  TypeOK /\ TxInv /\ NothingBeforeUpload /\ [Next]_vars => NothingBeforeUpload'
<1> SUFFICES ASSUME TypeOK, TxInv, NothingBeforeUpload, [Next]_vars,
                    job'.state = "none"
             PROVE  /\ UNCHANGED <<staged, live, pState>> /\ job.state = "none"
                    /\ \A c \in Committer : cState'[c] \in {"idle", "done"}
  BY DEF NothingBeforeUpload
<1>1. CASE CreateImport \/ CommitManualRow
  BY <1>1 DEF CreateImport, CommitManualRow, TypeOK
<1>2. ASSUME NEW p \in Parser, Parse(p) \/ ParseThrows(p)
      PROVE  FALSE
  <2>1. job.state # "none"
    BY <1>2 DEF NothingBeforeUpload, Parse, ParseRead, ParseRejectArchive, ParseBegin,
       ParseWipe, ParseFails, ParseStage, ParseReady, FailParse, ParseThrows, ParseStep,
       ParseInFlight
  <2>2. QED
    BY <1>2, <2>1 DEF TypeOK, Parse, ParseRead, ParseRejectArchive, ParseBegin,
       ParseWipe, ParseFails, ParseStage, ParseReady, FailParse, ParseThrows, SetState
<1>3. ASSUME NEW c \in Committer, Commit(c) \/ CommitDies(c)
      PROVE  /\ UNCHANGED <<staged, live, pState>> /\ job.state = "none"
             /\ \A d \in Committer : cState'[d] \in {"idle", "done"}
  <2>1. job.state # "none" => job'.state # "none"
    BY <1>3 DEF Commit, CommitLock, CommitLoad, CommitInsert, CommitFlip, CommitWrites,
       CommitAborts, RecordCommitFailure, CommitDies, SetState, TypeOK
  <2>2. cState[c] \in {"idle", "done"}
    BY <2>1 DEF NothingBeforeUpload
  <2>3. CommitLock(c)
    BY <1>3, <2>2 DEF Commit, CommitLoad, CommitInsert, CommitFlip,
       CommitAborts, RecordCommitFailure, CommitDies, TxOpen
  <2>4. QED
    BY <2>1, <2>3 DEF CommitLock, NothingBeforeUpload, parseVars, TypeOK
<1>4. CASE UNCHANGED vars
  BY <1>4 DEF vars, NothingBeforeUpload
<1>5. QED
  BY <1>1, <1>2, <1>3, <1>4 DEF Next

LEMMA InitBreadcrumbs == Init => BreadcrumbsAgree
  BY NoRowsType DEF Init, BreadcrumbsAgree

\* The commit of a transaction: old breadcrumbs lead to rows it did not write,
\* new ones to the rows it flipped.
LEMMA CommitWritesBreadcrumbs ==
  ASSUME TypeOK, TxInv, BreadcrumbsAgree, NEW c \in Committer,
         cState[c] = "inserting", CommitWrites(c)
  PROVE  BreadcrumbsAgree'
<1>0. \A r \in written[c] :
        r \in Row /\ staged[r] \in StagedRow /\ staged[r].status = "valid"
  BY DEF TypeOK, TxInv
<1>1. \A r \in written[c] :
        /\ r \in Row /\ staged[r] \in StagedRow /\ staged[r].status = "valid"
        /\ staged'[r] = [staged[r] EXCEPT !.status = "committed", !.record = c]
  BY <1>0 DEF CommitWrites
<1>2. \A r \in written[c] :
        /\ staged'[r] \in StagedRow
        /\ staged'[r].by = staged[r].by
        /\ staged'[r].status = "committed"
        /\ staged'[r].record = c
  BY <1>1 DEF StagedRow
<1>3. \A r \in Row : r \notin written[c] => staged'[r] = staged[r]
  BY DEF TypeOK, CommitWrites
<1>4. ASSUME NEW l \in live', l.from # None
      PROVE  /\ staged'[l.row] # None
             /\ staged'[l.row].by = l.from
             /\ staged'[l.row].status = "committed"
             /\ staged'[l.row].record = l.by
  <2>1. CASE l \in live
    <3>1. l.row \in Row
      BY <2>1 DEF TypeOK, LiveRow
    <3>2. l.row \notin written[c]
      BY <2>1, <1>1, <1>4 DEF BreadcrumbsAgree
    <3>3. QED
      BY <2>1, <3>1, <3>2, <1>3, <1>4 DEF BreadcrumbsAgree
  <2>2. CASE \E r \in written[c] : l = [row |-> r, by |-> c, from |-> staged[r].by]
    BY <2>2, <1>2, NoneIsNoRow
  <2>3. QED
    BY <2>1, <2>2 DEF CommitWrites
<1>5. ASSUME NEW r \in Row, staged'[r] # None, staged'[r].status = "committed"
      PROVE  [row |-> r, by |-> staged'[r].record, from |-> staged'[r].by] \in live'
  <2>1. CASE r \in written[c]
    <3>1. [row |-> r, by |-> c, from |-> staged[r].by] \in live'
      BY <2>1 DEF CommitWrites
    <3>2. QED
      BY <2>1, <3>1, <1>2
  <2>2. CASE r \notin written[c]
    BY <2>2, <1>3, <1>5 DEF BreadcrumbsAgree, CommitWrites
  <2>3. QED
    BY <2>1, <2>2
<1>6. QED
  BY <1>4, <1>5 DEF BreadcrumbsAgree

LEMMA NextBreadcrumbs ==
  TypeOK /\ TxInv /\ NothingBeforeUpload /\ BreadcrumbsAgree /\ [Next]_vars
    => BreadcrumbsAgree'
<1> SUFFICES ASSUME TypeOK, TxInv, NothingBeforeUpload, BreadcrumbsAgree, [Next]_vars
             PROVE  BreadcrumbsAgree'
  OBVIOUS
<1>1. CASE CommitManualRow
  <2>1. live = {} /\ \A q \in Row : staged[q] = None
    BY <1>1, NoRowsType DEF CommitManualRow, NothingBeforeUpload
  <2>2. PICK r \in Row :
          /\ staged' = [staged EXCEPT ![r] =
                 [by |-> Manual, status |-> "committed", record |-> Manual]]
          /\ live' = live \cup {[row |-> r, by |-> Manual, from |-> Manual]}
    BY <1>1 DEF CommitManualRow
  <2>3. /\ staged'[r] = [by |-> Manual, status |-> "committed", record |-> Manual]
        /\ staged'[r] # None
        /\ \A q \in Row : q # r => staged'[q] = None
    BY <2>1, <2>2, NoneIsNoRow DEF StagedRow, TypeOK
  <2>4. live' = {[row |-> r, by |-> Manual, from |-> Manual]}
    BY <2>1, <2>2
  <2>5. QED
    BY <2>3, <2>4 DEF BreadcrumbsAgree
<1>2. ASSUME NEW p \in Parser, ParseWipe(p)
      PROVE  BreadcrumbsAgree'
  <2>1. \A r \in Row : staged'[r] = None
    BY <1>2, NoRowsType DEF ParseWipe
  <2>2. \A l \in live' : l.from = None
    BY <1>2 DEF ParseWipe, TypeOK, LiveRow
  <2>3. QED
    BY <2>1, <2>2 DEF BreadcrumbsAgree
<1>3. ASSUME NEW p \in Parser, ParseStage(p)
      PROVE  BreadcrumbsAgree'
  <2>1. \A l \in live : l.from = None
    BY <1>3 DEF ParseStage, BreadcrumbsAgree, TypeOK, LiveRow
  <2>2. \A r \in Row : staged'[r].status # "committed"
    BY <1>3 DEF ParseStage
  <2>3. QED
    BY <1>3, <2>1, <2>2 DEF ParseStage, BreadcrumbsAgree
<1>4. ASSUME NEW c \in Committer, CommitFlip(c)
      PROVE  BreadcrumbsAgree'
  BY <1>4, CommitWritesBreadcrumbs DEF CommitFlip
<1>5. CASE UNCHANGED <<staged, live>>
  BY <1>5 DEF BreadcrumbsAgree
<1>6. QED
  BY <1>1, <1>2, <1>3, <1>4, <1>5
  DEF Next, vars, CreateImport, Parse, ParseRead, ParseRejectArchive, ParseBegin,
      ParseFails, ParseReady, FailParse, ParseThrows, Commit, CommitLock,
      CommitLoad, CommitInsert, CommitAborts, RecordCommitFailure, CommitDies

\* Breadcrumbs and committed staging rows always agree, in both directions.
THEOREM Traceability == Spec => []BreadcrumbsAgree
<1>1. Init => NothingBeforeUpload /\ BreadcrumbsAgree
  BY InitNothing, InitBreadcrumbs
<1>2. QED
  BY <1>1, TypeCorrect, NextNothing, NextBreadcrumbs, PTL DEF Spec

-----------------------------------------------------------------------------
(* Atomicity of the commit *)

AllOrNothingStep ==
    (\E l \in live' : l \notin live /\ l.from # None) =>
        /\ job'.state = "committed"
        /\ \A r \in Row : staged'[r] # None => staged'[r].status = "committed"
        /\ \A r \in Row : staged'[r] # staged[r] =>
            /\ staged[r] # None => staged[r].status = "valid"
            /\ \E l \in live' : l.row = r /\ l \notin live

LEMMA FlipIsAllOrNothing ==
  ASSUME TypeOK, TxInv, BreadcrumbsAgree, NEW c \in Committer, CommitFlip(c)
  PROVE  AllOrNothingStep
<1>1. \A r \in written[c] :
        r \in Row /\ staged[r] \in StagedRow /\ staged[r].status = "valid"
  BY DEF TypeOK, TxInv, CommitFlip
<1>2. \A r \in written[c] : staged'[r].status = "committed"
  BY <1>1 DEF CommitFlip, CommitWrites, StagedRow
<1>3. \A r \in Row : r \notin written[c] => staged'[r] = staged[r]
  BY DEF CommitFlip, CommitWrites
<1>4. \A r \in Row : staged'[r] # None => staged'[r].status = "committed"
  <2>1. ASSUME NEW r \in Row, r \notin written[c], staged[r] # None
        PROVE  staged[r].status = "committed"
    <3>1. staged[r] \in StagedRow /\ staged[r].status # "valid"
      BY <2>1 DEF TypeOK, CommitFlip, Uncommitted
    <3>2. staged[r].status # "invalid"
      BY <2>1 DEF CommitFlip, TxInv
    <3>3. QED
      BY <3>1, <3>2 DEF StagedRow
  <2>2. QED
    BY <2>1, <1>2, <1>3
<1>5. ASSUME NEW r \in written[c]
      PROVE  \E l \in live' : l.row = r /\ l \notin live
  <2>1. [row |-> r, by |-> c, from |-> staged[r].by] \in live'
    BY DEF CommitFlip, CommitWrites
  <2>2. staged[r].by # None
    BY <1>1, ConstantsAssumption DEF StagedRow
  <2>3. [row |-> r, by |-> c, from |-> staged[r].by] \notin live
    BY <1>1, <2>2 DEF BreadcrumbsAgree
  <2>4. QED
    BY <2>1, <2>3
<1>6. job'.state = "committed"
  BY DEF CommitFlip, CommitWrites, TypeOK
<1>7. QED
  BY <1>1, <1>3, <1>4, <1>5, <1>6 DEF AllOrNothingStep

LEMMA NextAllOrNothing ==
  TypeOK /\ TxInv /\ NothingBeforeUpload /\ BreadcrumbsAgree /\ [Next]_vars
    => AllOrNothingStep
<1> SUFFICES ASSUME TypeOK, TxInv, NothingBeforeUpload, BreadcrumbsAgree, [Next]_vars
             PROVE  AllOrNothingStep
  OBVIOUS
<1>1. CASE CommitManualRow
  <2>1. live = {} /\ \A q \in Row : staged[q] = None
    BY <1>1, NoRowsType DEF CommitManualRow, NothingBeforeUpload
  <2>2. PICK r \in Row :
          /\ staged' = [staged EXCEPT ![r] =
                 [by |-> Manual, status |-> "committed", record |-> Manual]]
          /\ live' = live \cup {[row |-> r, by |-> Manual, from |-> Manual]}
    BY <1>1 DEF CommitManualRow
  <2>3. /\ staged'[r].status = "committed"
        /\ \A q \in Row : q # r => staged'[q] = None
    BY <2>1, <2>2 DEF TypeOK
  <2>4. QED
    BY <1>1, <2>1, <2>2, <2>3 DEF AllOrNothingStep, CommitManualRow
<1>2. ASSUME NEW p \in Parser, ParseWipe(p)
      PROVE  AllOrNothingStep
  BY <1>2 DEF ParseWipe, AllOrNothingStep, TypeOK, LiveRow
<1>3. ASSUME NEW c \in Committer, CommitFlip(c)
      PROVE  AllOrNothingStep
  BY <1>3, FlipIsAllOrNothing
<1>4. CASE UNCHANGED live
  BY <1>4 DEF AllOrNothingStep
<1>5. QED
  BY <1>1, <1>2, <1>3, <1>4
  DEF Next, vars, CreateImport, Parse, ParseRead, ParseRejectArchive, ParseBegin,
      ParseFails, ParseStage, ParseReady, FailParse, ParseThrows, Commit, CommitLock,
      CommitLoad, CommitInsert, CommitAborts, RecordCommitFailure, CommitDies

\* Live rows appear only with the whole batch and the committed header.
THEOREM AllOrNothing == Spec => CommitIsAllOrNothing
<1>1. Init => NothingBeforeUpload /\ BreadcrumbsAgree
  BY InitNothing, InitBreadcrumbs
<1>2. TypeOK /\ TxInv /\ NothingBeforeUpload /\ BreadcrumbsAgree /\ [Next]_vars
        => [AllOrNothingStep]_vars
  BY NextAllOrNothing
<1>3. Spec => [][AllOrNothingStep]_vars
  BY <1>1, <1>2, TypeCorrect, NextNothing, NextBreadcrumbs, PTL DEF Spec
<1>4. QED
  BY <1>3 DEF CommitIsAllOrNothing, AllOrNothingStep

-----------------------------------------------------------------------------
(* Parses that do not overlap *)

BaseInv == TypeOK /\ TxInv /\ NothingBeforeUpload /\ BreadcrumbsAgree

LEMMA SerialBase == SerialSpec => []BaseInv
<1>1. Init => BaseInv
  BY InitInv, InitNothing, InitBreadcrumbs DEF BaseInv
<1>2. BaseInv /\ [Next /\ OneParseAtATime']_vars => BaseInv'
  BY NextType, NextTx, NextNothing, NextBreadcrumbs DEF BaseInv
<1>3. QED
  BY <1>1, <1>2, PTL DEF SerialSpec

LEMMA InitSerial == Init => SerialInv
  BY DEF Init, SerialInv, OneParseAtATime, ParseInFlight

\* Under SerialInv the transaction that flips the job has inserted every row.
LEMMA FlipIsWhole ==
  ASSUME BaseInv, SerialInv, NEW c \in Committer, CommitFlip(c)
  PROVE  /\ live = {} /\ job.state = "ready"
         /\ \A r \in Row : r \in written[c] /\ staged[r] \in StagedRow
<1>1. job.state = "ready" /\ live = {}
  BY DEF CommitFlip, BaseInv, TxInv, TxOpen, SerialInv
<1>2. ASSUME NEW r \in Row
      PROVE  r \in written[c] /\ staged[r] \in StagedRow
  <2>1. staged[r] \in StagedRow /\ staged[r] = loaded[c][r] /\ loaded[c][r] # None
    BY <1>1 DEF BaseInv, TypeOK, SerialInv, TxInv, CommitFlip
  <2>2. staged[r].status # "committed"
    BY <1>1, <2>1 DEF BaseInv, BreadcrumbsAgree
  <2>3. QED
    BY <2>1, <2>2 DEF CommitFlip, Todo
<1>3. QED
  BY <1>1, <1>2

LEMMA NextSerial ==
  BaseInv /\ SerialInv /\ [Next /\ OneParseAtATime']_vars => SerialInv'
<1> SUFFICES ASSUME BaseInv, SerialInv, [Next /\ OneParseAtATime']_vars
             PROVE  SerialInv'
  OBVIOUS
<1>0. OneParseAtATime'
  BY DEF SerialInv, OneParseAtATime, vars
<1>1. CASE CreateImport
  BY <1>0, <1>1 DEF CreateImport, SerialInv, BaseInv, TypeOK, NothingBeforeUpload,
     HeaderFree, parseVars, commitVars, ParseInFlight
<1>2. CASE CommitManualRow
  <2>1. \A p \in Parser : pState'[p] = "idle"
    BY <1>2 DEF CommitManualRow, BaseInv, NothingBeforeUpload, parseVars
  <2>2. live = {}
    BY <1>2 DEF CommitManualRow, BaseInv, NothingBeforeUpload
  <2>3. \A l \in live' : l.from # None
    BY <1>2, <2>2, ConstantsAssumption DEF CommitManualRow
  <2>4. job'.state = "committed" /\ job'.kind = "manual"
    BY <1>2 DEF CommitManualRow
  <2>5. QED
    BY <1>0, <2>1, <2>3, <2>4 DEF SerialInv, ParseInFlight
<1>3. ASSUME NEW p \in Parser, Parse(p) \/ ParseThrows(p)
      PROVE  SerialInv'
  <2>1. HeaderFree /\ HeaderFree'
    <3>1. CASE ParseRead(p)
      BY <3>1 DEF ParseRead, BaseInv, TxInv, HeaderFree, commitVars
    <3>2. CASE pState[p] \in ParseInFlight
      BY <1>3, <3>2 DEF SerialInv, HeaderFree, Parse, ParseRead, ParseRejectArchive,
         ParseBegin, ParseWipe, ParseFails, ParseStage, ParseReady, FailParse,
         ParseThrows, commitVars
    <3>3. QED
      BY <1>3, <3>1, <3>2 DEF Parse, ParseRejectArchive, ParseBegin, ParseWipe, ParseFails,
         ParseStage, ParseReady, FailParse, ParseThrows, ParseStep, ParseInFlight
  <2>2. live = {} /\ live' = {} /\ job.kind = "file" /\ job'.kind = "file"
    <3>1. job.state \in {"pending", "validating", "failed"}
      BY <1>3 DEF SerialInv, Parse, ParseRead, ParseRejectArchive, ParseBegin, ParseWipe,
         ParseFails, ParseStage, ParseReady, FailParse, ParseThrows, ParseStep,
         ParseInFlight
    <3>2. live = {} /\ job.kind = "file"
      BY <3>1 DEF SerialInv, BaseInv, TypeOK
    <3>3. QED
      BY <1>3, <3>2 DEF Parse, ParseRead, ParseRejectArchive, ParseBegin, ParseWipe,
         ParseFails, ParseStage, ParseReady, FailParse, ParseThrows, SetState,
         BaseInv, TypeOK
  <2>3. \A q \in Parser : q # p =>
          pState'[q] = pState[q] /\ (pState[q] \in ParseInFlight => pState'[p] \notin ParseInFlight)
    BY <1>0, <1>3 DEF OneParseAtATime, Parse, ParseRead, ParseRejectArchive, ParseBegin,
       ParseWipe, ParseFails, ParseStage, ParseReady, FailParse, ParseThrows, ParseStep,
       BaseInv, TypeOK
  <2>4. \A r \in Row : pState'[p] = "staged" => staged'[r] # None
    BY <1>3, NoneIsNoRow DEF Parse, ParseRead, ParseRejectArchive, ParseBegin,
       ParseWipe, ParseFails, ParseStage, ParseReady, FailParse, ParseThrows, ParseStep,
       BaseInv, TypeOK, StagedRow
  <2>5. CASE ParseRead(p) \/ ParseRejectArchive(p) \/ ParseFails(p) \/ ParseThrows(p)
    BY <1>0, <2>1, <2>2, <2>3, <2>4, <2>5
    DEF ParseRead, ParseRejectArchive, ParseFails, ParseThrows, ParseStep, SerialInv,
        BaseInv, TypeOK, ParseInFlight
  <2>6. CASE ParseBegin(p) \/ ParseReady(p) \/ FailParse(p)
    <3>1. /\ job'.state \in {"validating", "failed"} \/ ParseReady(p)
          /\ UNCHANGED staged
      BY <2>6 DEF ParseBegin, FailParse, ParseReady, SetState, BaseInv, TypeOK
    <3>2. CASE ParseReady(p)
      <4>1. job'.state = "ready" /\ \A q \in Parser : pState'[q] \notin ParseInFlight
        BY <2>3, <3>2 DEF ParseReady, ParseStep, SetState, BaseInv, TypeOK, SerialInv,
           OneParseAtATime, ParseInFlight
      <4>2. \A r \in Row : staged[r] # None
        BY <3>2 DEF ParseReady, ParseStep, SerialInv
      <4>3. QED
        BY <1>0, <2>2, <3>1, <4>1, <4>2 DEF SerialInv, ParseInFlight
    <3>3. CASE job'.state \in {"validating", "failed"}
      <4>1. \A q \in Parser : pState'[q] = "staged" => pState[q] = "staged"
        BY <2>3, <2>6 DEF ParseBegin, FailParse, ParseReady, ParseStep, BaseInv, TypeOK
      <4>2. QED
        BY <1>0, <2>1, <2>2, <3>1, <3>3, <4>1 DEF SerialInv
    <3>4. QED
      BY <3>1, <3>2, <3>3
  <2>7. CASE ParseWipe(p) \/ ParseStage(p)
    BY <1>0, <2>1, <2>2, <2>3, <2>4, <2>7
    DEF ParseWipe, ParseStage, ParseStep, SerialInv, BaseInv, TypeOK, ParseInFlight
  <2>8. QED
    BY <1>3, <2>5, <2>6, <2>7 DEF Parse
<1>4. ASSUME NEW c \in Committer, Commit(c) \/ CommitDies(c)
      PROVE  SerialInv'
  <2>1. CASE CommitLock(c)
    BY <1>0, <2>1 DEF CommitLock, SerialInv, HeaderFree, BaseInv, TypeOK, parseVars, TxOpen,
       ParseInFlight
  <2>2. CASE CommitFlip(c)
    <3>1. live' = {[row |-> r, by |-> c, from |-> staged[r].by] : r \in written[c]}
      BY <2>2, FlipIsWhole DEF CommitFlip, CommitWrites
    <3>2. \A l \in live' : l.from # None
      BY <2>2, <3>1, FlipIsWhole, ConstantsAssumption DEF StagedRow, BaseInv, TypeOK
    <3>3. \A r \in Row : staged'[r] \in StagedRow /\ staged'[r].status = "committed"
      BY <2>2, FlipIsWhole DEF CommitFlip, CommitWrites, StagedRow
    <3>4. job'.state = "committed" /\ job'.kind = "file"
      BY <2>2, FlipIsWhole DEF CommitFlip, CommitWrites, BaseInv, TypeOK, SerialInv
    <3>5. \A p \in Parser : pState'[p] \notin ParseInFlight
      BY <2>2, FlipIsWhole DEF CommitFlip, CommitWrites, SerialInv, parseVars
    <3>6. QED
      BY <1>0, <3>2, <3>3, <3>4, <3>5, NoneIsNoRow DEF SerialInv, ParseInFlight
  <2>3. CASE RecordCommitFailure(c)
    BY <1>0, <2>3 DEF RecordCommitFailure, SetState, SerialInv, HeaderFree, BaseInv, TypeOK,
       parseVars, TxOpen, ParseInFlight
  <2>4. CASE CommitLoad(c) \/ CommitInsert(c) \/ CommitAborts(c)
    <3>1. \A p \in Parser : pState'[p] \notin ParseInFlight
      BY <2>4 DEF CommitLoad, CommitInsert, CommitAborts, SerialInv, HeaderFree, parseVars,
         TxOpen
    <3>2. QED
      BY <1>0, <2>4, <3>1 DEF CommitLoad, CommitInsert, CommitAborts, SerialInv,
         ParseInFlight
  <2>5. CASE CommitDies(c)
    <3>1. HeaderFree => HeaderFree'
      BY <2>5 DEF CommitDies, Rollback, HeaderFree, BaseInv, TypeOK, TxOpen
    <3>2. QED
      BY <1>0, <2>5, <3>1 DEF CommitDies, SerialInv, parseVars
  <2>6. QED
    BY <1>4, <2>1, <2>2, <2>3, <2>4, <2>5 DEF Commit
<1>5. CASE UNCHANGED vars
  BY <1>0, <1>5 DEF vars, SerialInv, HeaderFree
<1>6. QED
  BY <1>1, <1>2, <1>3, <1>4, <1>5 DEF Next

LEMMA SerialInvariant == SerialSpec => [](BaseInv /\ SerialInv)
  BY InitSerial, NextSerial, SerialBase, PTL DEF SerialSpec

\* One live record per source row, and a committed file job is whole.
THEOREM OneRecord == SerialSpec => [](OneLiveRowPerSourceRow /\ CommittedIsWhole)
<1>1. BaseInv /\ SerialInv => OneLiveRowPerSourceRow
  <2> SUFFICES ASSUME BaseInv, SerialInv, NEW l \in live, NEW m \in live, l.row = m.row
               PROVE  l = m
    BY DEF OneLiveRowPerSourceRow
  <2>1. l.by = m.by /\ l.from = m.from
    BY DEF BaseInv, BreadcrumbsAgree, SerialInv
  <2>2. QED
    BY <2>1 DEF BaseInv, TypeOK, LiveRow
<1>2. BaseInv /\ SerialInv => CommittedIsWhole
  <2> SUFFICES ASSUME BaseInv, SerialInv, job.state = "committed", job.kind = "file",
                      NEW r \in Row
               PROVE  \E l \in live : l.row = r
    BY DEF CommittedIsWhole, SerialInv
  <2>1. [row |-> r, by |-> staged[r].record, from |-> staged[r].by] \in live
    BY DEF BaseInv, SerialInv, BreadcrumbsAgree
  <2>2. QED
    BY <2>1
<1>3. QED
  BY <1>1, <1>2, SerialInvariant, PTL

\* What every step of a job whose parses do not overlap does to its operator's view.
LEMMA StepRefines ==
  BaseInv /\ SerialInv /\ [Next /\ OneParseAtATime']_vars => [Lifecycle!Next]_(Lifecycle!vars)
<1> SUFFICES ASSUME BaseInv, SerialInv, [Next /\ OneParseAtATime']_vars
             PROVE  [Lifecycle!Next]_(Lifecycle!vars)
  OBVIOUS
<1> USE DEF Lifecycle!Next, Lifecycle!vars
<1>1. CASE CreateImport
  BY <1>1 DEF CreateImport, BaseInv, TypeOK, Lifecycle!Create
<1>2. CASE CommitManualRow
  <2>1. PICK r \in Row :
          live' = live \cup {[row |-> r, by |-> Manual, from |-> Manual]}
    BY <1>2 DEF CommitManualRow
  <2>2. live' = {[row |-> r, by |-> Manual, from |-> Manual]}
    BY <1>2, <2>1 DEF CommitManualRow, BaseInv, NothingBeforeUpload
  <2>3. {l.row : l \in live'} = {r}
    BY <2>2
  <2>4. QED
    BY <1>2, <2>3 DEF CommitManualRow, Lifecycle!CommitManual
<1>3. ASSUME NEW p \in Parser, Parse(p) \/ ParseThrows(p)
      PROVE  [Lifecycle!Next]_(Lifecycle!vars)
  <2>1. pState[p] \in ParseInFlight =>
          job.state \in {"pending", "validating", "failed"} /\ live = {}
    BY DEF SerialInv
  <2>2. CASE ParseRead(p) \/ ParseRejectArchive(p) \/ ParseFails(p) \/ ParseStage(p) \/ ParseThrows(p)
    BY <2>2 DEF ParseRead, ParseRejectArchive, ParseFails, ParseStage, ParseThrows
  <2>3. CASE ParseWipe(p)
    BY <2>1, <2>3 DEF ParseWipe, ParseStep, ParseInFlight
  <2>4. CASE ParseBegin(p)
    BY <2>1, <2>4 DEF ParseBegin, ParseStep, ParseInFlight, SetState, BaseInv, TypeOK,
       Lifecycle!Validate
  <2>5. CASE ParseReady(p)
    BY <2>1, <2>5 DEF ParseReady, ParseStep, ParseInFlight, SetState, BaseInv, TypeOK,
       Lifecycle!Ready
  <2>6. CASE FailParse(p)
    BY <2>1, <2>6 DEF FailParse, ParseStep, ParseInFlight, SetState, BaseInv, TypeOK,
       Lifecycle!Fail
  <2>7. QED
    BY <1>3, <2>2, <2>3, <2>4, <2>5, <2>6 DEF Parse
<1>4. ASSUME NEW c \in Committer, Commit(c) \/ CommitDies(c)
      PROVE  [Lifecycle!Next]_(Lifecycle!vars)
  <2>1. CASE CommitFlip(c)
    <3>1. live' = {[row |-> r, by |-> c, from |-> staged[r].by] : r \in written[c]}
      BY <2>1, FlipIsWhole DEF CommitFlip, CommitWrites
    <3>2. written[c] = Row
      BY <2>1, FlipIsWhole DEF BaseInv, TypeOK
    <3>3. {l.row : l \in live'} = Row
      <4>1. \A r \in Row : \E l \in live' : l.row = r
        <5> SUFFICES ASSUME NEW r \in Row
                     PROVE  \E l \in live' : l.row = r
          OBVIOUS
        <5>1. [row |-> r, by |-> c, from |-> staged[r].by] \in live'
          BY <3>1, <3>2
        <5>2. QED
          BY <5>1
      <4>2. \A l \in live' : l.row \in Row
        BY <3>1, <3>2
      <4>3. QED
        BY <4>1, <4>2
    <3>4. job.state = "ready" /\ job'.state = "committed"
      BY <2>1, FlipIsWhole DEF CommitFlip, CommitWrites, BaseInv, TypeOK
    <3>5. QED
      BY <3>3, <3>4 DEF Lifecycle!Commit
  <2>2. CASE RecordCommitFailure(c)
    <3>1. job.state # "none"
      BY <2>2 DEF RecordCommitFailure, BaseInv, NothingBeforeUpload
    <3>2. QED
      BY <2>2, <3>1 DEF RecordCommitFailure, SetState, BaseInv, TypeOK, JobStates,
         Lifecycle!Fail
  <2>3. CASE CommitLock(c) \/ CommitLoad(c) \/ CommitInsert(c) \/ CommitAborts(c) \/ CommitDies(c)
    BY <2>3 DEF CommitLock, CommitLoad, CommitInsert, CommitAborts, CommitDies
  <2>4. QED
    BY <1>4, <2>1, <2>2, <2>3 DEF Commit
<1>5. CASE UNCHANGED vars
  BY <1>5 DEF vars
<1>6. QED
  BY <1>1, <1>2, <1>3, <1>4, <1>5 DEF Next

\* The import pipeline implements the job life cycle it promises.
THEOREM Refinement == SerialSpec => LifecycleSpec
<1>1. Init => Lifecycle!Init
  BY DEF Init, Lifecycle!Init
<1>2. QED
  BY <1>1, StepRefines, SerialInvariant, PTL
  DEF SerialSpec, LifecycleSpec, Lifecycle!Spec

\* A committed job is never reopened, by a late failure record or anything else.
THEOREM Terminal == SerialSpec => CommittedIsTerminal
<1>1. BaseInv /\ SerialInv /\ [Next /\ OneParseAtATime']_vars
        => [job.state = "committed" => job'.state = "committed"]_vars
  <2>1. ASSUME [Lifecycle!Next]_(Lifecycle!vars), job.state = "committed"
        PROVE  job'.state = "committed"
    BY <2>1 DEF Lifecycle!Next, Lifecycle!vars, Lifecycle!Create, Lifecycle!Validate,
       Lifecycle!Ready, Lifecycle!Fail, Lifecycle!Commit, Lifecycle!CommitManual
  <2>2. QED
    BY <2>1, StepRefines
<1>2. QED
  BY <1>1, SerialInvariant, PTL DEF SerialSpec, CommittedIsTerminal
=============================================================================
