--------------------------- MODULE SignOffProofs ---------------------------
(***************************************************************************)
(* Proofs about sign-off, credentials and the regime, for any number of    *)
(* entries, credentials and requests.                                      *)
(***************************************************************************)
EXTENDS SignOff, TLAPS

-----------------------------------------------------------------------------
(* Types.                                                                  *)

\* Rows of the logs.
ChangeRow == LogRow(RegimeChange)

AuditRow == LogRow(CredentialChange)

SignRow == [pc: {"idle", "entry", "aircraft", "credential", "signed", "refused", "error"},
            entry: Entry \cup {Null}, user: User \cup {Null}, regime: Regime \cup {Null},
            credential: Credential \cup {Null}, day: Expiry]

ManageRow == [pc: {"idle", "begun", "update", "revoke", "done"}, began: Nat,
              credential: Credential \cup {Null}, before: CredentialRow]

ChangeReq == [pc: {"idle", "begun", "read", "done", "refused"}, began: Nat,
              from: Regime \cup {Null}, to: Regime \cup {Null}]

\* What a request holds once it has read something.
Held ==
    /\ \A s \in Signer :
        /\ sg[s].pc \in {"entry", "aircraft", "credential"} =>
               sg[s].entry \in Entry /\ sg[s].user \in User
        /\ Signing(s) => sg[s].regime \in Regime /\ sg[s].day \in 0 .. MaxDay
        /\ sg[s].pc = "credential" => sg[s].credential \in Credential
    /\ \A a \in Manager : mg[a].pc \in {"begun", "update", "revoke"} =>
           /\ mg[a].credential \in Credential
           /\ Exists(mg[a].credential)
           /\ mg[a].before \in CredentialRow
    /\ \A g \in Changer : cg[g].pc = "read" => cg[g].from \in Regime /\ cg[g].to \in Regime

\* A row that exists, and one that does not.
RealRow == [user: User, type: CredentialType, expires: Expiry, revoked: BOOLEAN]

LEMMA Rows ==
  /\ CredentialRow = RealRow \cup {NoCredential}
  /\ NoCredential \in CredentialRow
  /\ NoCredential \notin RealRow
  /\ \A row \in CredentialRow : row # NoCredential => row \in RealRow
<1>1. CredentialRow = RealRow \cup {NoCredential}
  BY DEF CredentialRow, RealRow
<1>2. NoCredential \notin RealRow
  BY SignOffAssumption DEF NoCredential, RealRow
<1> QED BY <1>1, <1>2

LEMMA RowsChange ==
  ASSUME NEW row \in RealRow
  PROVE  /\ \A expires \in Expiry : [row EXCEPT !.expires = expires] \in RealRow
         /\ [row EXCEPT !.revoked = TRUE] \in RealRow
  BY DEF RealRow

LEMMA NullExpiry == Null \in Expiry /\ \A d \in 0 .. MaxDay : d \in Expiry
  BY DEF Expiry

LEMMA IdleRows ==
  /\ \A pc \in {"idle", "signed", "refused", "error"} : Sign(pc) \in SignRow
  /\ \A pc \in {"idle", "done"} : Manage(pc) \in ManageRow
  /\ \A pc \in {"idle", "done", "refused"} : Change(pc) \in ChangeReq
<1>1. \A pc \in {"idle", "signed", "refused", "error"} : Sign(pc) \in SignRow
  BY NullExpiry DEF Sign, SignRow
<1>2. \A pc \in {"idle", "done"} : Manage(pc) \in ManageRow
  BY Rows DEF Manage, ManageRow
<1>3. \A pc \in {"idle", "done", "refused"} : Change(pc) \in ChangeReq
  BY DEF Change, ChangeReq
<1> QED BY <1>1, <1>2, <1>3

\* The parts of TypeOK, one per table or kind of request.
CredentialsOK ==
    /\ cred \in [Credential -> CredentialRow]
    /\ credLog \in [Credential -> SUBSET AuditRow]
    /\ credClock \in [Credential -> Nat]
RegimeOK == regime \in Regime /\ regimeLog \subseteq ChangeRow /\ regimeClock \in Nat
EntriesOK == entry \in [Entry -> EntryRow]
SignsOK == sg \in [Signer -> SignRow]
ManagesOK == mg \in [Manager -> ManageRow]
ChangesOK == cg \in [Changer -> ChangeReq]
ObservedOK == overtaken \in [Signer -> BOOLEAN] /\ justified \in [Signer -> BOOLEAN]

TypeInv ==
    /\ today \in 0 .. MaxDay
    /\ CredentialsOK /\ RegimeOK /\ EntriesOK /\ SignsOK /\ ManagesOK /\ ChangesOK /\ ObservedOK
    /\ Held

LEMMA TypeParts == TypeInv => TypeOK
  BY DEF TypeInv, TypeOK, CredentialsOK, RegimeOK, EntriesOK, SignsOK, ManagesOK, ChangesOK,
         ObservedOK, AuditRow, ChangeRow, SignRow, ManageRow, ChangeReq

LEMMA TypeInit == Init => TypeInv
<1> SUFFICES ASSUME Init PROVE TypeInv
  OBVIOUS
<1>1. today \in 0 .. MaxDay /\ RegimeOK /\ CredentialsOK
  BY SignOffAssumption, Rows DEF Init, RegimeOK, CredentialsOK
<1>2. EntriesOK
  BY NullExpiry DEF Init, EntriesOK, EntryRow
<1>3. SignsOK /\ ManagesOK /\ ChangesOK /\ ObservedOK
  BY IdleRows DEF Init, SignsOK, ManagesOK, ChangesOK, ObservedOK
<1>4. Held
  BY DEF Init, Held, Sign, Manage, Change, Signing
<1> QED BY <1>1, <1>2, <1>3, <1>4 DEF TypeInv

LEMMA ObservedStep ==
  ASSUME ObservedOK, Observe, Overtake \/ UNCHANGED overtaken
  PROVE  ObservedOK'
<1>1. justified' \in [Signer -> BOOLEAN]
  BY DEF Observe, ObservedOK
<1>2. overtaken' \in [Signer -> BOOLEAN]
  BY DEF Overtake, ObservedOK
<1> QED BY <1>1, <1>2 DEF ObservedOK

\* What of Held depends only on sign requests, and on the others.
LEMMA HeldFrame ==
  ASSUME Held, UNCHANGED <<sg, mg, cg>>, \A c \in Credential : Exists(c) => Exists(c)'
  PROVE  Held'
  BY DEF Held, Signing

LEMMA TickType == ASSUME TypeInv, Tick, Observe PROVE TypeInv'
<1> USE DEF TypeInv
<1>1. today' \in 0 .. MaxDay
  BY SignOffAssumption DEF Tick
<1>2. ObservedOK'
  BY ObservedStep DEF Tick
<1>3. Held'
  BY HeldFrame DEF Tick, credVars, Exists
<1> QED
  BY <1>1, <1>2, <1>3
  DEF Tick, regimeVars, credVars, CredentialsOK, RegimeOK, EntriesOK, SignsOK, ManagesOK,
      ChangesOK

\* A transaction with a row for the log of c begins.
LEMMA ClockStep ==
  ASSUME CredentialsOK, NEW c \in Credential, BeginOn(c)
  PROVE  /\ credClock' \in [Credential -> Nat]
         /\ credClock'[c] = credClock[c] + 1
         /\ \A d \in Credential : credClock'[d] >= credClock[d]
  BY DEF BeginOn, CredentialsOK

\* A change of one credential, with its row in the log.
LEMMA CredentialWrite ==
  ASSUME CredentialsOK, NEW c \in Credential, NEW row \in RealRow, NEW before \in CredentialRow,
         NEW action \in {"create", "update", "revoke"}, NEW began \in Nat,
         credClock' \in [Credential -> Nat],
         cred' = [cred EXCEPT ![c] = row], LogChange(c, began, action, before, row)
  PROVE  /\ CredentialsOK'
         /\ \A d \in Credential : Exists(d) => Exists(d)'
<1> DEFINE change == Stamped([action |-> action, before |-> before, after |-> row],
                             began, credClock'[c])
<1>1. change \in AuditRow
  BY Rows DEF AuditRow, LogRow, CredentialChange, Stamped
<1>2. credLog' = [credLog EXCEPT ![c] = @ \cup {change}]
  BY DEF LogChange
<1>3. credLog' \in [Credential -> SUBSET AuditRow]
  BY <1>1, <1>2 DEF CredentialsOK
<1>4. cred' \in [Credential -> CredentialRow] /\ cred'[c] = row
  BY Rows DEF CredentialsOK
<1>5. \A d \in Credential : Exists(d) => Exists(d)'
  BY <1>4, Rows DEF Exists, CredentialsOK
<1> QED BY <1>3, <1>4, <1>5 DEF CredentialsOK

LEMMA CreateType == ASSUME TypeInv, NEW c \in Credential, CreateForTenant(c), Observe PROVE TypeInv'
<1> USE DEF TypeInv
<1>1. PICK new \in NewCredential :
        LET row == [user |-> new.user, type |-> new.type, expires |-> new.expires,
                    revoked |-> FALSE]
        IN  /\ cred' = [cred EXCEPT ![c] = row]
            /\ LogChange(c, credClock'[c], "create", NoCredential, row)
  BY DEF CreateForTenant
<1> DEFINE row == [user |-> new.user, type |-> new.type, expires |-> new.expires,
                   revoked |-> FALSE]
<1>2. row \in RealRow
  BY SignOffAssumption DEF RealRow
<1>3. CredentialsOK' /\ \A d \in Credential : Exists(d) => Exists(d)'
  <2>1. /\ cred' = [cred EXCEPT ![c] = row]
        /\ LogChange(c, credClock'[c], "create", NoCredential, row)
    BY <1>1
  <2>2. credClock' \in [Credential -> Nat] /\ credClock'[c] \in Nat
    BY ClockStep DEF CreateForTenant
  <2> HIDE DEF row
  <2> QED BY <1>2, <2>1, <2>2, CredentialWrite, Rows
<1>4. ObservedOK'
  BY ObservedStep DEF CreateForTenant
<1>5. Held'
  BY <1>3, HeldFrame DEF CreateForTenant
<1> QED
  BY <1>3, <1>4, <1>5
  DEF CreateForTenant, regimeVars, RegimeOK, EntriesOK, SignsOK, ManagesOK, ChangesOK

\* A step of one credential request that only moves the request.
LEMMA ManagesStep ==
  ASSUME TypeInv, NEW a \in Manager, NEW row \in ManageRow, mg' = [mg EXCEPT ![a] = row],
         row.pc \in {"begun", "update", "revoke"} =>
             row.credential \in Credential /\ Exists(row.credential),
         credClock' \in [Credential -> Nat], Observe,
         UNCHANGED <<today, regimeVars, cred, credLog, entry, sg, cg, overtaken>>
  PROVE  TypeInv'
<1> USE DEF TypeInv
<1>1. ManagesOK' /\ \A b \in Manager : mg'[b] = IF b = a THEN row ELSE mg[b]
  BY DEF ManagesOK
<1>2. ObservedOK'
  BY ObservedStep
<1>3. Held'
  <2>1. \A b \in Manager : mg'[b].pc \in {"begun", "update", "revoke"} =>
           /\ mg'[b].credential \in Credential
           /\ Exists(mg'[b].credential)
           /\ mg'[b].before \in CredentialRow
    BY <1>1 DEF Held, ManageRow
  <2>2. \A d : Exists(d)' <=> Exists(d)
    BY DEF Exists
  <2> QED BY <2>1, <2>2 DEF Held, Signing, Exists
<1> QED
  BY <1>1, <1>2, <1>3
  DEF regimeVars, RegimeOK, EntriesOK, SignsOK, CredentialsOK, ChangesOK

LEMMA BeginManageType == ASSUME TypeInv, NEW a \in Manager, BeginManage(a), Observe PROVE TypeInv'
<1>1. PICK c \in Credential :
        /\ Exists(c) /\ BeginOn(c)
        /\ mg' = [mg EXCEPT ![a] = [Manage("begun") EXCEPT !.began = credClock'[c], !.credential = c]]
  BY DEF BeginManage
<1>2. credClock' \in [Credential -> Nat] /\ credClock'[c] \in Nat
  BY <1>1, ClockStep DEF TypeInv
<1> DEFINE row == [Manage("begun") EXCEPT !.began = credClock'[c], !.credential = c]
<1>3. row \in ManageRow /\ row.credential = c
  BY <1>2, Rows DEF ManageRow, Manage
<1>4. mg' = [mg EXCEPT ![a] = row]
  BY <1>1
<1> HIDE DEF row
<1> QED BY <1>1, <1>2, <1>3, <1>4, ManagesStep DEF BeginManage

LEMMA LoadType == ASSUME TypeInv, NEW a \in Manager, LoadCredential(a), Observe PROVE TypeInv'
<1> DEFINE c == mg[a].credential
<1>1. PICK action \in {"update", "revoke"} :
        mg' = [mg EXCEPT ![a] = IF action = "revoke" /\ cred[c].revoked
                                THEN Manage("done")
                                ELSE [@ EXCEPT !.pc = action, !.before = cred[c]]]
  BY DEF LoadCredential
<1>2. /\ mg \in [Manager -> ManageRow] /\ c \in Credential /\ Exists(c)
      /\ cred[c] \in CredentialRow
  BY DEF TypeInv, ManagesOK, Held, CredentialsOK, LoadCredential
<1>3. credClock' \in [Credential -> Nat]
  BY DEF LoadCredential, credVars, TypeInv, CredentialsOK
<1>4. CASE action = "revoke" /\ cred[c].revoked
  <2>1. mg' = [mg EXCEPT ![a] = Manage("done")]
    BY <1>1, <1>4
  <2>2. Manage("done") \in ManageRow /\ Manage("done").pc = "done"
    BY IdleRows DEF Manage
  <2> QED BY <1>3, <2>1, <2>2, ManagesStep DEF LoadCredential, credVars
<1>5. CASE ~(action = "revoke" /\ cred[c].revoked)
  <2> DEFINE row == [mg[a] EXCEPT !.pc = action, !.before = cred[c]]
  <2>1. mg' = [mg EXCEPT ![a] = row]
    BY <1>1, <1>2, <1>5
  <2>2. row \in ManageRow /\ row.credential = c
    BY <1>2 DEF ManageRow
  <2> HIDE DEF row
  <2> QED BY <1>2, <1>3, <2>1, <2>2, ManagesStep DEF LoadCredential, credVars
<1> QED BY <1>4, <1>5

\* updateForTenant and revokeForTenant end alike.
LEMMA ManageWrite ==
  ASSUME TypeInv, NEW a \in Manager, mg[a].pc \in {"update", "revoke"}, Observe, Overtake,
         NEW row \in RealRow, NEW action \in {"update", "revoke"},
         cred' = [cred EXCEPT ![mg[a].credential] = row],
         LogChange(mg[a].credential, mg[a].began, action, mg[a].before, row),
         mg' = [mg EXCEPT ![a] = Manage("done")],
         UNCHANGED <<today, regimeVars, credClock, entry, sg, cg>>
  PROVE  TypeInv'
<1> USE DEF TypeInv
<1>1. /\ mg[a].credential \in Credential /\ mg[a].before \in CredentialRow
      /\ mg[a].began \in Nat /\ credClock' \in [Credential -> Nat]
  BY DEF Held, ManagesOK, ManageRow, CredentialsOK
<1>2. CredentialsOK' /\ \A d \in Credential : Exists(d) => Exists(d)'
  BY <1>1, CredentialWrite
<1>3. ObservedOK'
  BY ObservedStep
<1>4. ManagesOK' /\ \A b \in Manager : mg'[b] = IF b = a THEN Manage("done") ELSE mg[b]
  BY IdleRows DEF ManagesOK
<1>5. Held'
  <2>1. \A b \in Manager : mg'[b].pc \in {"begun", "update", "revoke"} => mg'[b] = mg[b]
    BY <1>4 DEF Manage
  <2> QED BY <1>2, <2>1 DEF Held, Signing
<1> QED
  BY <1>2, <1>3, <1>4, <1>5
  DEF regimeVars, RegimeOK, EntriesOK, SignsOK, ChangesOK

LEMMA TargetRow ==
  ASSUME TypeInv, NEW a \in Manager, mg[a].pc \in {"update", "revoke"}
  PROVE  mg[a].credential \in Credential /\ cred[mg[a].credential] \in RealRow
  BY Rows DEF TypeInv, Held, Exists, CredentialsOK

LEMMA UpdateType == ASSUME TypeInv, NEW a \in Manager, UpdateForTenant(a), Observe PROVE TypeInv'
<1>1. PICK expires \in Expiry :
        /\ cred' = [cred EXCEPT ![mg[a].credential] =
                                Patch(mg[a].credential, mg[a].before, expires)]
        /\ LogChange(mg[a].credential, mg[a].began, "update", mg[a].before,
                     Patch(mg[a].credential, mg[a].before, expires))
  BY DEF UpdateForTenant
<1>2. Patch(mg[a].credential, mg[a].before, expires) \in RealRow
  BY TargetRow, RowsChange DEF UpdateForTenant, Patch
<1> QED BY <1>1, <1>2, ManageWrite DEF UpdateForTenant

LEMMA RevokeType == ASSUME TypeInv, NEW a \in Manager, RevokeForTenant(a), Observe PROVE TypeInv'
<1>1. [cred[mg[a].credential] EXCEPT !.revoked = TRUE] \in RealRow
  BY TargetRow, RowsChange DEF RevokeForTenant
<1> QED BY <1>1, ManageWrite DEF RevokeForTenant

\* A step of one regime request.
LEMMA ChangesStep ==
  ASSUME ChangesOK, Held, NEW g \in Changer, NEW row \in ChangeReq,
         row.pc = "read" => row.from \in Regime /\ row.to \in Regime,
         cg' = [cg EXCEPT ![g] = row], UNCHANGED <<cred, sg, mg>>
  PROVE  ChangesOK' /\ Held'
<1>1. ChangesOK' /\ \A h \in Changer : cg'[h] = IF h = g THEN row ELSE cg[h]
  BY DEF ChangesOK
<1> QED BY <1>1 DEF Held, Signing, Exists

LEMMA BeginChangeType == ASSUME TypeInv, NEW g \in Changer, BeginChange(g), Observe PROVE TypeInv'
<1> USE DEF TypeInv
<1> DEFINE row == [Change("begun") EXCEPT !.began = regimeClock']
<1>1. cg' = [cg EXCEPT ![g] = row] /\ regimeClock' \in Nat /\ RegimeOK'
  BY DEF BeginChange, RegimeOK
<1>2. row \in ChangeReq /\ row.pc = "begun"
  BY <1>1 DEF Change, ChangeReq
<1>3. ObservedOK'
  BY ObservedStep DEF BeginChange
<1> HIDE DEF row
<1>4. ChangesOK' /\ Held'
  BY <1>1, <1>2, ChangesStep DEF BeginChange, credVars
<1> QED
  BY <1>1, <1>3, <1>4 DEF BeginChange, credVars, CredentialsOK, EntriesOK, SignsOK, ManagesOK

LEMMA ReadRegimeType == ASSUME TypeInv, NEW g \in Changer, ReadRegime(g), Observe PROVE TypeInv'
<1> USE DEF TypeInv
<1>1. PICK to \in Regime :
        cg' = [cg EXCEPT ![g] = IF to = regime
                                THEN Change("refused")
                                ELSE [@ EXCEPT !.pc = "read", !.from = regime, !.to = to]]
  BY DEF ReadRegime
<1>2. ChangesOK' /\ Held'
  <2>1. CASE to = regime
    <3>1. cg' = [cg EXCEPT ![g] = Change("refused")]
      BY <1>1, <2>1
    <3> QED BY <3>1, ChangesStep, IdleRows DEF ReadRegime, credVars, Change
  <2>2. CASE to # regime
    <3> DEFINE row == [cg[g] EXCEPT !.pc = "read", !.from = regime, !.to = to]
    <3>1. cg' = [cg EXCEPT ![g] = row]
      BY <1>1, <2>2 DEF ChangesOK
    <3>2. row \in ChangeReq /\ row.from = regime /\ row.to = to /\ regime \in Regime
      BY DEF RegimeOK, ChangesOK, ChangeReq
    <3> HIDE DEF row
    <3> QED BY <3>1, <3>2, ChangesStep DEF ReadRegime, credVars
  <2> QED BY <2>1, <2>2
<1>3. ObservedOK'
  BY ObservedStep DEF ReadRegime
<1> QED
  BY <1>2, <1>3
  DEF ReadRegime, regimeVars, credVars, CredentialsOK, RegimeOK, EntriesOK, SignsOK, ManagesOK

LEMMA ChangeRegimeType == ASSUME TypeInv, NEW g \in Changer, ChangeRegime(g), Observe PROVE TypeInv'
<1> USE DEF TypeInv
<1> DEFINE row == Stamped([from |-> cg[g].from, to |-> cg[g].to], cg[g].began, regimeClock)
<1>1. /\ cg[g].from \in Regime /\ cg[g].to \in Regime /\ cg[g].began \in Nat
      /\ regimeClock \in Nat
  BY DEF ChangeRegime, Held, RegimeOK, ChangesOK, ChangeReq
<1>2. row \in ChangeRow
  BY <1>1 DEF ChangeRow, LogRow, RegimeChange, Stamped
<1>3. RegimeOK'
  BY <1>1, <1>2 DEF ChangeRegime, RegimeOK
<1>4. ChangesOK' /\ Held'
  BY ChangesStep, IdleRows DEF ChangeRegime, credVars, Change
<1>5. ObservedOK'
  BY ObservedStep DEF ChangeRegime
<1> QED
  BY <1>3, <1>4, <1>5 DEF ChangeRegime, credVars, CredentialsOK, EntriesOK, SignsOK, ManagesOK

LEMMA DraftType ==
  ASSUME TypeInv, NEW m \in Entry, Draft(m), Observe
  PROVE  TypeInv'
<1> USE DEF TypeInv
<1>1. PICK prior \in Correctable \cup {Null} :
        entry' = [entry EXCEPT ![m].status = "draft", ![m].correctionOf = prior]
  BY DEF Draft
<1>2. prior \in Entry \cup {Null}
  BY DEF Correctable
<1>3. EntriesOK'
  BY <1>1, <1>2 DEF EntriesOK, EntryRow
<1>4. ObservedOK' /\ Held'
  BY ObservedStep, HeldFrame DEF Draft, credVars, Exists
<1> QED
  BY <1>3, <1>4 DEF Draft, regimeVars, credVars, CredentialsOK, RegimeOK, SignsOK, ManagesOK, ChangesOK

\* A step of one sign request that only moves the request.
LEMMA SignsStep ==
  ASSUME TypeInv, NEW s \in Signer, NEW row \in SignRow, sg' = [sg EXCEPT ![s] = row],
         row.pc \in {"entry", "aircraft", "credential"} =>
             row.entry \in Entry /\ row.user \in User,
         row.pc \in {"aircraft", "credential"} => row.regime \in Regime /\ row.day \in 0 .. MaxDay,
         row.pc = "credential" => row.credential \in Credential,
         Observe,
         UNCHANGED <<today, regimeVars, credVars, mg, cg, overtaken>>,
         EntriesOK'
  PROVE  TypeInv'
<1> USE DEF TypeInv
<1>1. SignsOK' /\ \A t \in Signer : sg'[t] = IF t = s THEN row ELSE sg[t]
  BY DEF SignsOK
<1>2. Held'
  BY <1>1 DEF Held, Signing, Exists, credVars
<1>3. ObservedOK'
  BY ObservedStep
<1> QED
  BY <1>1, <1>2, <1>3 DEF regimeVars, credVars, CredentialsOK, RegimeOK, ManagesOK, ChangesOK

LEMMA EntriesFrame == EntriesOK /\ UNCHANGED entry => EntriesOK'
  BY DEF EntriesOK

LEMMA SignReadEntryType ==
  ASSUME TypeInv, NEW s \in Signer, SignReadEntry(s), Observe PROVE TypeInv'
<1>1. PICK m \in Entry, u \in User :
        sg' = [sg EXCEPT ![s] = IF entry[m].status = "signed"
                                THEN Sign("refused")
                                ELSE [Sign("entry") EXCEPT !.entry = m, !.user = u]]
  BY DEF SignReadEntry
<1>2. EntriesOK'
  BY EntriesFrame DEF SignReadEntry, TypeInv
<1>3. CASE entry[m].status = "signed"
  <2>1. sg' = [sg EXCEPT ![s] = Sign("refused")]
    BY <1>1, <1>3
  <2>2. Sign("refused") \in SignRow /\ Sign("refused").pc = "refused"
    BY IdleRows DEF Sign
  <2> QED BY <1>2, <2>1, <2>2, SignsStep DEF SignReadEntry
<1>4. CASE entry[m].status # "signed"
  <2> DEFINE row == [Sign("entry") EXCEPT !.entry = m, !.user = u]
  <2>1. sg' = [sg EXCEPT ![s] = row]
    BY <1>1, <1>4
  <2>2. row \in SignRow /\ row.pc = "entry" /\ row.entry = m /\ row.user = u
    BY NullExpiry DEF Sign, SignRow
  <2> HIDE DEF row
  <2> QED BY <1>2, <2>1, <2>2, SignsStep DEF SignReadEntry
<1> QED BY <1>3, <1>4

LEMMA SignReadAircraftType ==
  ASSUME TypeInv, NEW s \in Signer, SignReadAircraft(s), Observe PROVE TypeInv'
<1> DEFINE row == [sg[s] EXCEPT !.pc = "aircraft", !.regime = regime, !.day = today]
<1>1. sg' = [sg EXCEPT ![s] = row]
  BY DEF SignReadAircraft, TypeInv, SignsOK
<1>2. /\ row \in SignRow /\ row.pc = "aircraft" /\ row.entry = sg[s].entry /\ row.user = sg[s].user
      /\ row.regime \in Regime /\ row.day \in 0 .. MaxDay
  BY NullExpiry DEF TypeInv, SignsOK, SignRow, RegimeOK
<1>3. sg[s].entry \in Entry /\ sg[s].user \in User
  BY DEF SignReadAircraft, TypeInv, Held
<1>4. EntriesOK'
  BY EntriesFrame DEF SignReadAircraft, TypeInv
<1> HIDE DEF row
<1> QED BY <1>1, <1>2, <1>3, <1>4, SignsStep DEF SignReadAircraft

LEMMA SignReadCredentialsType ==
  ASSUME TypeInv, NEW s \in Signer, SignReadCredentials(s), Observe PROVE TypeInv'
<1>1. EntriesOK'
  BY EntriesFrame DEF SignReadCredentials, TypeInv
<1>2. CASE sg' = [sg EXCEPT ![s] = Sign("refused")]
  <2>1. Sign("refused") \in SignRow /\ Sign("refused").pc = "refused"
    BY IdleRows DEF Sign
  <2> QED BY <1>1, <1>2, <2>1, SignsStep DEF SignReadCredentials
<1>3. CASE \E c \in Credential :
             sg' = [sg EXCEPT ![s].pc = "credential", ![s].credential = c]
  <2>1. PICK c \in Credential : sg' = [sg EXCEPT ![s].pc = "credential", ![s].credential = c]
    BY <1>3
  <2> DEFINE row == [sg[s] EXCEPT !.pc = "credential", !.credential = c]
  <2>2. sg' = [sg EXCEPT ![s] = row]
    BY <2>1 DEF TypeInv, SignsOK
  <2>3. /\ row \in SignRow /\ row.pc = "credential" /\ row.credential = c
        /\ row.entry = sg[s].entry /\ row.user = sg[s].user
        /\ row.regime = sg[s].regime /\ row.day = sg[s].day
    BY DEF TypeInv, SignsOK, SignRow
  <2>4. /\ sg[s].entry \in Entry /\ sg[s].user \in User
        /\ sg[s].regime \in Regime /\ sg[s].day \in 0 .. MaxDay
    BY DEF SignReadCredentials, TypeInv, Held, Signing
  <2> HIDE DEF row
  <2> QED BY <1>1, <2>2, <2>3, <2>4, SignsStep DEF SignReadCredentials
<1> QED BY <1>2, <1>3 DEF SignReadCredentials

LEMMA StampRow ==
  ASSUME TypeInv, NEW s \in Signer, sg[s].pc = "credential", Stamp(s)
  PROVE  /\ sg[s].entry \in Entry
         /\ EntriesOK'
         /\ \A m \in Entry : m # sg[s].entry => entry'[m] = entry[m]
         /\ entry'[sg[s].entry] =
                [entry[sg[s].entry] EXCEPT !.status = "signed", !.credential = sg[s].credential,
                                           !.user = sg[s].user, !.signedOn = sg[s].day]
<1>1. /\ sg[s].entry \in Entry /\ sg[s].user \in User /\ sg[s].day \in Expiry
      /\ sg[s].credential \in Credential
  BY NullExpiry DEF TypeInv, Held, Signing
<1> DEFINE e == sg[s].entry
           row == [entry[e] EXCEPT !.status = "signed", !.credential = sg[s].credential,
                                   !.user = sg[s].user, !.signedOn = sg[s].day]
<1>2. entry \in [Entry -> EntryRow] /\ entry[e] \in EntryRow
  BY <1>1 DEF TypeInv, EntriesOK
<1>3. row \in EntryRow
  BY <1>1, <1>2 DEF EntryRow
<1>4. entry' = [entry EXCEPT ![e] = row]
  BY <1>1, <1>2 DEF Stamp, EntryRow
<1>5. EntriesOK' /\ entry'[e] = row /\ \A m \in Entry : m # e => entry'[m] = entry[m]
  BY <1>1, <1>2, <1>3, <1>4 DEF EntriesOK
<1> QED BY <1>1, <1>5

LEMMA SignWriteType ==
  ASSUME TypeInv, NEW s \in Signer, SignWrite(s), Observe PROVE TypeInv'
<1>1. CASE sg' = [sg EXCEPT ![s] = Sign("error")] /\ UNCHANGED entry
  <2>1. Sign("error") \in SignRow /\ Sign("error").pc = "error"
    BY IdleRows DEF Sign
  <2>2. EntriesOK'
    BY <1>1, EntriesFrame DEF TypeInv
  <2> QED BY <1>1, <2>1, <2>2, SignsStep DEF SignWrite
<1>2. CASE sg' = [sg EXCEPT ![s] = Sign("signed")] /\ Stamp(s)
  <2>1. Sign("signed") \in SignRow /\ Sign("signed").pc = "signed"
    BY IdleRows DEF Sign
  <2>2. EntriesOK'
    BY <1>2, StampRow DEF SignWrite
  <2> QED BY <1>2, <2>1, <2>2, SignsStep DEF SignWrite
<1> QED BY <1>1, <1>2 DEF SignWrite

LEMMA StutterType == TypeInv /\ UNCHANGED vars => TypeInv'
  BY DEF vars, regimeVars, credVars, TypeInv, CredentialsOK, RegimeOK, EntriesOK, SignsOK, ManagesOK, ChangesOK,
         ObservedOK, Held, Signing, Exists

LEMMA TypeStep == TypeInv /\ [Next]_vars => TypeInv'
  BY TickType, CreateType, BeginManageType, LoadType, UpdateType, RevokeType, BeginChangeType,
     ReadRegimeType, ChangeRegimeType, DraftType, SignReadEntryType, SignReadAircraftType, SignReadCredentialsType,
     SignWriteType, StutterType
  DEF Next, Step

THEOREM TypeCorrect == Spec => []TypeOK
<1>1. Spec => []TypeInv
  BY TypeInit, TypeStep, PTL DEF Spec
<1> QED BY <1>1, TypeParts, PTL

-----------------------------------------------------------------------------
(* Steps, by what they may change.                                         *)

CredentialWrites ==
    \/ \E c \in Credential : CreateForTenant(c)
    \/ \E a \in Manager : UpdateForTenant(a) \/ RevokeForTenant(a)

SignMoves(s) == SignReadEntry(s) \/ SignReadAircraft(s) \/ SignReadCredentials(s)

\* Requests about credentials or the regime that write nothing yet.
Prepares ==
    \/ \E a \in Manager : BeginManage(a) \/ LoadCredential(a)
    \/ \E g \in Changer : BeginChange(g) \/ ReadRegime(g)

\* Every step writes a credential, or the regime, or the entries, or none of them.
LEMMA Kinds ==
  ASSUME [Next]_vars
  PROVE  \/ /\ CredentialWrites /\ Observe /\ Overtake
            /\ UNCHANGED <<today, regime, regimeLog, regimeClock, entry, sg>>
         \/ /\ \E g \in Changer : ChangeRegime(g)
            /\ Observe /\ Overtake /\ UNCHANGED <<cred, credLog, credClock, entry, sg>>
         \/ /\ \E m \in Entry : Draft(m)
            /\ UNCHANGED <<regime, regimeLog, cred, credLog, sg, overtaken>>
         \/ /\ \E s \in Signer : SignWrite(s)
            /\ UNCHANGED <<regime, regimeLog, cred, credLog, overtaken>>
         \/ /\ \E s \in Signer : SignMoves(s)
            /\ UNCHANGED <<regime, regimeLog, cred, credLog, entry, overtaken>>
         \/ UNCHANGED <<regime, regimeLog, cred, credLog, entry, sg, overtaken>>
<1>1. CASE UNCHANGED vars
  BY <1>1 DEF vars, regimeVars, credVars
<1>2. CASE Step /\ Observe
  <2>1. CASE CredentialWrites
    BY <1>2, <2>1 DEF CredentialWrites, CreateForTenant, UpdateForTenant, RevokeForTenant,
                      regimeVars
  <2>2. CASE \E g \in Changer : ChangeRegime(g)
    BY <1>2, <2>2 DEF ChangeRegime, credVars
  <2>3. CASE \E m \in Entry : Draft(m)
    BY <2>3 DEF Draft, regimeVars, credVars
  <2>4. CASE \E s \in Signer : SignWrite(s)
    BY <2>4 DEF SignWrite, regimeVars, credVars
  <2>5. CASE \E s \in Signer : SignMoves(s)
    BY <2>5 DEF SignMoves, SignReadEntry, SignReadAircraft, SignReadCredentials, regimeVars,
                credVars
  <2>6. CASE Tick \/ Prepares
    BY <2>6 DEF Prepares, Tick, BeginManage, LoadCredential, BeginChange, ReadRegime, regimeVars,
                credVars
  <2> QED
    BY <1>2, <2>1, <2>2, <2>3, <2>4, <2>5, <2>6 DEF Step, CredentialWrites, SignMoves, Prepares
<1> QED BY <1>1, <1>2 DEF Next

\* One credential is written by a transaction that began as number `began`; the new row
\* of its log shows it as it is now.
Writes(c, row, began, change) ==
    /\ cred' = [cred EXCEPT ![c] = row]
    /\ change.after = row
    /\ credLog' = [credLog EXCEPT ![c] = @ \cup {Stamped(change, began, credClock'[c])}]
    /\ cred[c].revoked => row.revoked
    /\ \/ began = credClock'[c]
       \/ \E a \in Manager : /\ mg[a].pc \in {"update", "revoke"}
                             /\ mg[a].credential = c /\ mg[a].began = began

LEMMA WriteStep ==
  ASSUME TypeInv, CredentialWrites
  PROVE  \E c \in Credential, row \in RealRow, began \in Nat, change \in CredentialChange :
           Writes(c, row, began, change)
<1>1. ASSUME NEW c \in Credential, NEW row \in RealRow, NEW before \in CredentialRow,
             NEW began \in Nat, NEW action \in {"create", "update", "revoke"},
             cred' = [cred EXCEPT ![c] = row], LogChange(c, began, action, before, row),
             cred[c].revoked => row.revoked,
             \/ began = credClock'[c]
             \/ \E a \in Manager : /\ mg[a].pc \in {"update", "revoke"}
                                   /\ mg[a].credential = c /\ mg[a].began = began
      PROVE  \E change \in CredentialChange : Writes(c, row, began, change)
  <2> DEFINE change == [action |-> action, before |-> before, after |-> row]
  <2>1. change \in CredentialChange /\ change.after = row
    BY Rows DEF CredentialChange
  <2>2. Writes(c, row, began, change)
    BY <1>1, <2>1 DEF Writes, LogChange
  <2> QED BY <2>1, <2>2
<1>2. ASSUME NEW c \in Credential, CreateForTenant(c)
      PROVE  \E row \in RealRow, began \in Nat, change \in CredentialChange :
               Writes(c, row, began, change)
  <2>1. PICK new \in NewCredential :
          LET row == [user |-> new.user, type |-> new.type, expires |-> new.expires,
                      revoked |-> FALSE]
          IN  /\ cred' = [cred EXCEPT ![c] = row]
              /\ LogChange(c, credClock'[c], "create", NoCredential, row)
    BY <1>2 DEF CreateForTenant
  <2> DEFINE row == [user |-> new.user, type |-> new.type, expires |-> new.expires,
                     revoked |-> FALSE]
  <2>2. row \in RealRow
    BY SignOffAssumption DEF RealRow
  <2>3. ~cred[c].revoked
    BY <1>2 DEF CreateForTenant, Exists, NoCredential
  <2>4. credClock'[c] \in Nat
    BY <1>2, ClockStep DEF CreateForTenant, TypeInv
  <2>5. cred' = [cred EXCEPT ![c] = row] /\ LogChange(c, credClock'[c], "create", NoCredential, row)
    BY <2>1
  <2> HIDE DEF row
  <2> QED BY <1>1, <2>2, <2>3, <2>4, <2>5, Rows
<1>3. ASSUME NEW a \in Manager, UpdateForTenant(a) \/ RevokeForTenant(a)
      PROVE  mg[a].credential \in Credential /\ mg[a].before \in CredentialRow /\ mg[a].began \in Nat
  BY <1>3 DEF TypeInv, Held, ManagesOK, ManageRow, UpdateForTenant, RevokeForTenant
<1>4. ASSUME NEW a \in Manager, UpdateForTenant(a)
      PROVE  \E row \in RealRow, change \in CredentialChange :
               Writes(mg[a].credential, row, mg[a].began, change)
  <2>1. PICK expires \in Expiry :
          LET row == [cred[mg[a].credential] EXCEPT !.expires = expires]
          IN  /\ cred' = [cred EXCEPT ![mg[a].credential] = row]
              /\ LogChange(mg[a].credential, mg[a].began, "update", mg[a].before, row)
    BY <1>4 DEF UpdateForTenant, Patch
  <2>2. cred[mg[a].credential] \in RealRow
    BY <1>4, TargetRow DEF UpdateForTenant
  <2>3. /\ [cred[mg[a].credential] EXCEPT !.expires = expires] \in RealRow
        /\ [cred[mg[a].credential] EXCEPT !.expires = expires].revoked =
               cred[mg[a].credential].revoked
    BY <2>2, RowsChange DEF RealRow
  <2>4. mg[a].pc \in {"update", "revoke"}
    BY <1>4 DEF UpdateForTenant
  <2> QED BY <1>1, <1>3, <1>4, <2>1, <2>3, <2>4
<1>5. ASSUME NEW a \in Manager, RevokeForTenant(a)
      PROVE  \E row \in RealRow, change \in CredentialChange :
               Writes(mg[a].credential, row, mg[a].began, change)
  <2> DEFINE row == [cred[mg[a].credential] EXCEPT !.revoked = TRUE]
  <2>1. row \in RealRow /\ row.revoked
    BY <1>5, TargetRow, RowsChange DEF RevokeForTenant, RealRow
  <2>2. /\ cred' = [cred EXCEPT ![mg[a].credential] = row]
        /\ LogChange(mg[a].credential, mg[a].began, "revoke", mg[a].before, row)
        /\ mg[a].pc \in {"update", "revoke"}
    BY <1>5 DEF RevokeForTenant
  <2> HIDE DEF row
  <2> QED BY <1>1, <1>3, <1>5, <2>1, <2>2
<1>6. CASE \E c \in Credential : CreateForTenant(c)
  BY <1>2, <1>6
<1>7. CASE \E a \in Manager : UpdateForTenant(a) \/ RevokeForTenant(a)
  BY <1>3, <1>4, <1>5, <1>7
<1> QED BY <1>6, <1>7 DEF CredentialWrites

\* The log of every credential only grows, and a revocation stays.
LEMMA LogGrows ==
  ASSUME TypeInv, CredentialWrites
  PROVE  /\ \A d \in Credential : credLog[d] \subseteq credLog'[d]
         /\ \A d \in Credential : cred[d].revoked => cred'[d].revoked
<1>1. PICK c \in Credential, row \in RealRow, began \in Nat, change \in CredentialChange :
        Writes(c, row, began, change)
  BY WriteStep
<1> QED BY <1>1 DEF Writes, TypeInv, CredentialsOK
-----------------------------------------------------------------------------
(* The logs.                                                               *)

\* No transaction has a number that has not been given out.
StampsInv ==
    /\ \A c \in Credential : \A q \in credLog[c] : q.began <= credClock[c]
    /\ \A a \in Manager : mg[a].pc \in {"begun", "update", "revoke"} =>
           mg[a].began <= credClock[mg[a].credential]
    /\ \A q \in regimeLog : q.began <= regimeClock
    /\ \A g \in Changer : cg[g].pc \in {"begun", "read"} => cg[g].began <= regimeClock

LogsInv == AuditShowsPresent /\ RegimeLogShowsPresent /\ StampsInv

LEMMA LogsInit == Init => LogsInv
  BY DEF Init, LogsInv, AuditShowsPresent, RegimeLogShowsPresent, StampsInv, Exists, Manage, Change

\* The numbers only grow.
LEMMA ClocksGrow ==
  ASSUME TypeInv, [Next]_vars
  PROVE  /\ \A c \in Credential :
               credClock[c] \in Nat /\ credClock'[c] \in Nat /\ credClock'[c] >= credClock[c]
         /\ regimeClock \in Nat /\ regimeClock' \in Nat /\ regimeClock' >= regimeClock
<1>1. /\ \A c \in Credential : credClock[c] \in Nat /\ credClock'[c] \in Nat
      /\ regimeClock \in Nat /\ regimeClock' \in Nat
  BY TypeStep DEF TypeInv, CredentialsOK, RegimeOK
<1>2. \/ \E c \in Credential : BeginOn(c)
      \/ UNCHANGED credClock
  BY DEF Next, Step, vars, credVars, Tick, CreateForTenant, BeginManage, LoadCredential,
         UpdateForTenant, RevokeForTenant, BeginChange, ReadRegime, ChangeRegime, Draft,
         SignReadEntry, SignReadAircraft, SignReadCredentials, SignWrite
<1>3. \A c \in Credential : credClock'[c] >= credClock[c]
  BY <1>1, <1>2, ClockStep DEF TypeInv
<1>4. regimeClock' = regimeClock + 1 \/ UNCHANGED regimeClock
  BY DEF Next, Step, vars, regimeVars, Tick, CreateForTenant, BeginManage, LoadCredential,
         UpdateForTenant, RevokeForTenant, BeginChange, ReadRegime, ChangeRegime, Draft,
         SignReadEntry, SignReadAircraft, SignReadCredentials, SignWrite
<1> QED BY <1>1, <1>3, <1>4

\* A request keeps its number, which is the newest when its transaction begins.
LEMMA ManagersKeep ==
  ASSUME TypeInv, [Next]_vars, NEW a \in Manager, mg'[a].pc \in {"begun", "update", "revoke"}
  PROVE  \/ /\ mg[a].pc \in {"begun", "update", "revoke"}
            /\ mg'[a].began = mg[a].began /\ mg'[a].credential = mg[a].credential
         \/ mg'[a].began = credClock'[mg'[a].credential]
<1>1. mg \in [Manager -> ManageRow]
  BY DEF TypeInv, ManagesOK
<1>2. CASE \E b \in Manager : BeginManage(b)
  <2>1. PICK b \in Manager : BeginManage(b)
    BY <1>2
  <2>2. PICK c \in Credential :
          mg' = [mg EXCEPT ![b] = [Manage("begun") EXCEPT !.began = credClock'[c], !.credential = c]]
    BY <2>1 DEF BeginManage
  <2>3. mg'[b].began = credClock'[mg'[b].credential]
    BY <1>1, <2>2 DEF Manage
  <2> QED BY <1>1, <2>2, <2>3
<1>3. CASE \E b \in Manager : LoadCredential(b)
  <2>1. PICK b \in Manager : LoadCredential(b)
    BY <1>3
  <2>2. PICK action \in {"update", "revoke"} :
          mg' = [mg EXCEPT ![b] = IF action = "revoke" /\ cred[mg[b].credential].revoked
                                  THEN Manage("done")
                                  ELSE [@ EXCEPT !.pc = action, !.before = cred[mg[b].credential]]]
    BY <2>1 DEF LoadCredential
  <2> QED BY <1>1, <2>1, <2>2 DEF LoadCredential, Manage, ManageRow
<1>4. CASE \E b \in Manager : UpdateForTenant(b) \/ RevokeForTenant(b)
  <2>1. PICK b \in Manager : mg' = [mg EXCEPT ![b] = Manage("done")]
    BY <1>4 DEF UpdateForTenant, RevokeForTenant
  <2> QED BY <1>1, <2>1 DEF Manage
<1>5. CASE UNCHANGED mg
  BY <1>5
<1> QED
  BY <1>2, <1>3, <1>4, <1>5
  DEF Next, Step, vars, Tick, CreateForTenant, BeginChange, ReadRegime, ChangeRegime, Draft,
      SignReadEntry, SignReadAircraft, SignReadCredentials, SignWrite

LEMMA ChangersKeep ==
  ASSUME TypeInv, [Next]_vars, NEW g \in Changer, cg'[g].pc \in {"begun", "read"}
  PROVE  \/ cg[g].pc \in {"begun", "read"} /\ cg'[g].began = cg[g].began
         \/ cg'[g].began = regimeClock'
<1>1. cg \in [Changer -> ChangeReq]
  BY DEF TypeInv, ChangesOK
<1>2. CASE \E h \in Changer : BeginChange(h)
  BY <1>1, <1>2 DEF BeginChange, Change
<1>3. CASE \E h \in Changer : ReadRegime(h)
  <2>1. PICK h \in Changer : ReadRegime(h)
    BY <1>3
  <2>2. PICK to \in Regime :
          cg' = [cg EXCEPT ![h] = IF to = regime
                                  THEN Change("refused")
                                  ELSE [@ EXCEPT !.pc = "read", !.from = regime, !.to = to]]
    BY <2>1 DEF ReadRegime
  <2> QED BY <1>1, <2>1, <2>2 DEF ReadRegime, Change, ChangeReq
<1>4. CASE \E h \in Changer : ChangeRegime(h)
  <2>1. PICK h \in Changer : cg' = [cg EXCEPT ![h] = Change("done")]
    BY <1>4 DEF ChangeRegime
  <2> QED BY <1>1, <2>1 DEF Change
<1>5. CASE UNCHANGED cg
  BY <1>5
<1> QED
  BY <1>2, <1>3, <1>4, <1>5
  DEF Next, Step, vars, Tick, CreateForTenant, BeginManage, LoadCredential, UpdateForTenant,
      RevokeForTenant, Draft, SignReadEntry, SignReadAircraft, SignReadCredentials, SignWrite

\* A row added by a transaction that has begun: it is on top, but for overlaps.
LEMMA NewOnTop ==
  ASSUME NEW clock \in Nat, NEW log, \A q \in log : q.began <= clock,
         NEW began, began <= clock, NEW change
  PROVE  LET r == Stamped(change, began, clock)
         IN  /\ \A q \in log \cup {r} : q.began <= clock
             /\ TopButForOverlaps(log \cup {r}, r)
  BY DEF Stamped, TopButForOverlaps, BegunBy

LEMMA LogsStep == TypeInv /\ LogsInv /\ [Next]_vars => LogsInv'
<1> SUFFICES ASSUME TypeInv, LogsInv, [Next]_vars PROVE LogsInv'
  OBVIOUS
<1> USE DEF LogsInv
<1>1. \A a \in Manager : mg'[a].pc \in {"begun", "update", "revoke"} =>
          mg'[a].began <= credClock'[mg'[a].credential]
  <2>1. ASSUME NEW a \in Manager, mg'[a].pc \in {"begun", "update", "revoke"}
        PROVE  mg'[a].began <= credClock'[mg'[a].credential]
    <3>1. /\ mg'[a].credential \in Credential /\ mg'[a].began \in Nat
      BY <2>1, TypeStep DEF TypeInv, Held, ManagesOK, ManageRow
    <3>2. /\ credClock[mg'[a].credential] \in Nat /\ credClock'[mg'[a].credential] \in Nat
          /\ credClock'[mg'[a].credential] >= credClock[mg'[a].credential]
      BY <3>1, ClocksGrow
    <3>3. CASE mg'[a].began = credClock'[mg'[a].credential]
      BY <3>2, <3>3
    <3>4. CASE /\ mg[a].pc \in {"begun", "update", "revoke"}
               /\ mg'[a].began = mg[a].began /\ mg'[a].credential = mg[a].credential
      <4>1. mg'[a].began <= credClock[mg'[a].credential]
        BY <3>4 DEF StampsInv
      <4> QED BY <3>1, <3>2, <4>1
    <3> QED BY <2>1, <3>3, <3>4, ManagersKeep
  <2> QED BY <2>1
<1>2. \A g \in Changer : cg'[g].pc \in {"begun", "read"} => cg'[g].began <= regimeClock'
  <2>1. ASSUME NEW g \in Changer, cg'[g].pc \in {"begun", "read"}
        PROVE  cg'[g].began <= regimeClock'
    <3>1. cg'[g].began \in Nat
      BY TypeStep DEF TypeInv, ChangesOK, ChangeReq
    <3> QED BY <2>1, <3>1, ChangersKeep, ClocksGrow DEF StampsInv
  <2> QED BY <2>1
<1>3. AuditShowsPresent' /\ \A c \in Credential : \A q \in credLog'[c] : q.began <= credClock'[c]
  <2>1. CASE CredentialWrites
    <3>1. PICK c \in Credential, row \in RealRow, began \in Nat, change \in CredentialChange :
            Writes(c, row, began, change)
      BY <2>1, WriteStep
    <3> DEFINE r == Stamped(change, began, credClock'[c])
    <3>2. /\ credLog'[c] = credLog[c] \cup {r} /\ cred'[c] = row /\ r.row.after = row
          /\ \A d \in Credential : d # c => cred'[d] = cred[d] /\ credLog'[d] = credLog[d]
      BY <3>1 DEF Writes, Stamped, TypeInv, CredentialsOK
    <3>3. \A d \in Credential : \A q \in credLog[d] : q.began <= credClock'[d]
      <4>1. \A d \in Credential : \A q \in credLog[d] : q.began \in Nat /\ q.began <= credClock[d]
        BY DEF StampsInv, TypeInv, CredentialsOK, AuditRow, LogRow
      <4> QED BY <4>1, ClocksGrow
    <3>4. began <= credClock'[c]
      BY <3>1, ClocksGrow DEF Writes, StampsInv
    <3>5. /\ \A q \in credLog'[c] : q.began <= credClock'[c]
          /\ TopButForOverlaps(credLog'[c], r)
      <4>1. credClock'[c] \in Nat
        BY ClocksGrow
      <4> QED BY ONLY <3>2, <3>3, <3>4, <4>1, NewOnTop
    <3> HIDE DEF r
    <3>6. r \in credLog'[c]
      BY <3>2
    <3>7. \A d \in Credential : d # c /\ Exists(d)' =>
            \E q \in credLog'[d] : q.row.after = cred'[d] /\ TopButForOverlaps(credLog'[d], q)
      BY <3>2 DEF AuditShowsPresent, Exists
    <3> QED BY <3>2, <3>3, <3>5, <3>6, <3>7 DEF AuditShowsPresent
  <2>2. CASE UNCHANGED <<cred, credLog>>
    <3>1. AuditShowsPresent'
      BY <2>2 DEF AuditShowsPresent, Exists, TopButForOverlaps
    <3>2. \A d \in Credential : \A q \in credLog[d] : q.began \in Nat /\ q.began <= credClock[d]
      BY DEF StampsInv, TypeInv, CredentialsOK, AuditRow, LogRow
    <3> QED BY <2>2, <3>1, <3>2, ClocksGrow
  <2> QED BY <2>1, <2>2, Kinds
<1>4. RegimeLogShowsPresent' /\ \A q \in regimeLog' : q.began <= regimeClock'
  <2>1. CASE \E g \in Changer : ChangeRegime(g)
    <3>1. PICK g \in Changer : ChangeRegime(g)
      BY <2>1
    <3> DEFINE r == Stamped([from |-> cg[g].from, to |-> cg[g].to], cg[g].began, regimeClock)
    <3>2. /\ regimeLog' = regimeLog \cup {r} /\ regime' = cg[g].to /\ regimeClock' = regimeClock
          /\ r.row.to = cg[g].to
      BY <3>1 DEF ChangeRegime, Stamped
    <3>3. regimeClock \in Nat /\ cg[g].began <= regimeClock
          /\ \A q \in regimeLog : q.began <= regimeClock
      BY <3>1 DEF ChangeRegime, StampsInv, TypeInv, RegimeOK
    <3>4. /\ \A q \in regimeLog \cup {r} : q.began <= regimeClock
          /\ TopButForOverlaps(regimeLog \cup {r}, r)
      BY ONLY <3>3, NewOnTop
    <3> HIDE DEF r
    <3> QED BY <3>2, <3>4 DEF RegimeLogShowsPresent
  <2>2. CASE UNCHANGED <<regime, regimeLog>>
    <3>1. \A q \in regimeLog : q.began \in Nat /\ q.began <= regimeClock
      BY DEF StampsInv, TypeInv, RegimeOK, ChangeRow, LogRow
    <3> QED BY <2>2, <3>1, ClocksGrow DEF RegimeLogShowsPresent, TopButForOverlaps
  <2> QED BY <2>1, <2>2, Kinds
<1> QED BY <1>1, <1>2, <1>3, <1>4 DEF StampsInv

\* Both trails show the present state, below nothing but what overlapped it.
THEOREM Trails == Spec => [](AuditShowsPresent /\ RegimeLogShowsPresent)
<1>1. Spec => [](TypeInv /\ LogsInv)
  BY TypeInit, TypeStep, LogsInit, LogsStep, PTL DEF Spec
<1>2. LogsInv => AuditShowsPresent /\ RegimeLogShowsPresent
  BY DEF LogsInv
<1> QED BY <1>1, <1>2, PTL

LEMMA RevokedStep ==
  TypeInv /\ [Next]_vars => \A c \in Credential : cred[c].revoked => cred'[c].revoked
<1> SUFFICES ASSUME TypeInv, [Next]_vars
             PROVE  \A c \in Credential : cred[c].revoked => cred'[c].revoked
  OBVIOUS
<1>1. CASE CredentialWrites
  BY <1>1, LogGrows
<1>2. CASE UNCHANGED cred
  BY <1>2
<1> QED BY <1>1, <1>2, Kinds

\* A revocation is never undone.
THEOREM Revoked == Spec => RevokedForGood
<1>1. Spec => []TypeInv
  BY TypeInit, TypeStep, PTL DEF Spec
<1>2. TypeInv /\ [Next]_vars =>
        [\A c \in Credential : cred[c].revoked => cred'[c].revoked]_vars
  BY RevokedStep
<1> QED BY <1>1, <1>2, PTL DEF Spec, RevokedForGood

-----------------------------------------------------------------------------
(* Entries.                                                                *)

\* What steps do to the entries: a draft is added, or an unsigned entry is stamped.
LEMMA EntryKinds ==
  ASSUME TypeInv, [Next]_vars
  PROVE  \/ UNCHANGED entry
         \/ \E m \in Entry, prior \in Correctable \cup {Null} :
              /\ entry[m].status = "none"
              /\ entry'[m] = [entry[m] EXCEPT !.status = "draft", !.correctionOf = prior]
              /\ \A k \in Entry : k # m => entry'[k] = entry[k]
              /\ UNCHANGED <<credLog, sg>>
         \/ \E s \in Signer :
              /\ sg[s].pc = "credential"
              /\ sg[s].entry \in Entry
              /\ entry[sg[s].entry].status # "signed"
              /\ entry'[sg[s].entry] =
                   [entry[sg[s].entry] EXCEPT
                       !.status = "signed", !.credential = sg[s].credential,
                       !.user = sg[s].user, !.signedOn = sg[s].day]
              /\ \A k \in Entry : k # sg[s].entry => entry'[k] = entry[k]
              /\ sg' = [sg EXCEPT ![s] = Sign("signed")]
              /\ UNCHANGED <<credLog>>
<1>1. CASE (\E m \in Entry : Draft(m)) /\ UNCHANGED <<credLog, sg>>
  <2>1. PICK m \in Entry : Draft(m)
    BY <1>1
  <2>2. PICK prior \in Correctable \cup {Null} :
          entry' = [entry EXCEPT ![m].status = "draft", ![m].correctionOf = prior]
    BY <2>1 DEF Draft
  <2>3. entry \in [Entry -> EntryRow]
    BY DEF TypeInv, EntriesOK
  <2>4. /\ entry'[m] = [entry[m] EXCEPT !.status = "draft", !.correctionOf = prior]
        /\ \A k \in Entry : k # m => entry'[k] = entry[k]
    BY <2>2, <2>3 DEF EntryRow
  <2> QED BY <1>1, <2>1, <2>4 DEF Draft
<1>2. CASE (\E s \in Signer : SignWrite(s)) /\ UNCHANGED credLog
  <2>1. PICK s \in Signer : SignWrite(s)
    BY <1>2
  <2>2. CASE UNCHANGED entry
    BY <2>2
  <2>3. CASE entry[sg[s].entry].status # "signed" /\ Stamp(s)
              /\ sg' = [sg EXCEPT ![s] = Sign("signed")]
    BY <1>2, <2>1, <2>3, StampRow DEF SignWrite
  <2> QED BY <2>1, <2>2, <2>3 DEF SignWrite
<1>3. CASE UNCHANGED entry
  BY <1>3
<1> QED BY <1>1, <1>2, <1>3, Kinds

LEMMA FrozenStep ==
  TypeInv /\ [Next]_vars =>
      \A m \in Entry : entry[m].status = "signed" => entry'[m] = entry[m]
  BY EntryKinds

\* A signed entry never changes again.
THEOREM Frozen == Spec => SignedIsFrozen
<1>1. Spec => []TypeInv
  BY TypeInit, TypeStep, PTL DEF Spec
<1>2. TypeInv /\ [Next]_vars =>
        [\A m \in Entry : entry[m].status = "signed" => entry'[m] = entry[m]]_vars
  BY FrozenStep
<1> QED BY <1>1, <1>2, PTL DEF Spec, SignedIsFrozen

LEMMA CorrectionsInit == Init => CorrectionsLeadToOriginal
  BY SignOffAssumption DEF Init, CorrectionsLeadToOriginal

LEMMA CorrectionsStep ==
  TypeInv /\ CorrectionsLeadToOriginal /\ [Next]_vars => CorrectionsLeadToOriginal'
<1> SUFFICES ASSUME TypeInv, CorrectionsLeadToOriginal, [Next]_vars
             PROVE  CorrectionsLeadToOriginal'
  OBVIOUS
<1>1. CASE UNCHANGED entry
  BY <1>1 DEF CorrectionsLeadToOriginal
<1>2. entry \in [Entry -> EntryRow] /\ Null \notin Entry
  BY SignOffAssumption DEF TypeInv, EntriesOK
<1>3. ASSUME NEW m \in Entry, NEW prior \in Correctable \cup {Null},
             entry[m].status = "none",
             entry'[m] = [entry[m] EXCEPT !.status = "draft", !.correctionOf = prior],
             \A k \in Entry : k # m => entry'[k] = entry[k]
      PROVE  CorrectionsLeadToOriginal'
  <2>1. entry'[m].correctionOf = prior /\ prior # m
    BY <1>2, <1>3 DEF EntryRow, Correctable
  <2>2. \A k \in Entry : entry[k].status = "signed" => entry'[k].status = "signed"
    BY <1>3
  <2>3. \A k \in Entry : entry'[k].correctionOf # Null =>
            entry'[entry'[k].correctionOf].status = "signed"
    <3>1. \A k \in Entry : entry[k].correctionOf \in Entry \cup {Null}
      BY <1>2 DEF EntryRow
    <3>2. prior # Null => entry'[prior].status = "signed"
      BY <1>2, <2>2 DEF Correctable
    <3>3. \A k \in Entry : k # m /\ entry[k].correctionOf # Null =>
              entry'[entry[k].correctionOf].status = "signed"
      BY <2>2, <3>1 DEF CorrectionsLeadToOriginal
    <3>4. \A k \in Entry : k # m => entry'[k].correctionOf = entry[k].correctionOf
      BY <1>3
    <3> QED BY <2>1, <3>2, <3>3, <3>4
  <2>4. ASSUME NEW S \in (SUBSET Entry) \ {{}} PROVE \E k \in S : entry'[k].correctionOf \notin S
    <3>1. CASE m \notin S
      BY <1>3, <3>1 DEF CorrectionsLeadToOriginal
    <3>2. CASE S = {m}
      BY <2>1, <3>2
    <3>3. CASE m \in S /\ S # {m}
      <4>1. S \ {m} \in (SUBSET Entry) \ {{}}
        BY <3>3
      <4>2. PICK k \in S \ {m} : entry[k].correctionOf \notin S \ {m}
        BY <4>1 DEF CorrectionsLeadToOriginal
      <4>3. entry[k].correctionOf # m
        BY <1>2, <1>3 DEF CorrectionsLeadToOriginal
      <4> QED BY <1>3, <4>2, <4>3
    <3> QED BY <3>1, <3>2, <3>3
  <2> QED BY <2>3, <2>4 DEF CorrectionsLeadToOriginal
<1>4. ASSUME NEW e \in Entry,
             entry'[e].status = "signed", entry'[e].correctionOf = entry[e].correctionOf,
             \A k \in Entry : k # e => entry'[k] = entry[k]
      PROVE  CorrectionsLeadToOriginal'
  <2>1. \A k \in Entry : entry'[k].correctionOf = entry[k].correctionOf
    BY <1>4
  <2>2. \A k \in Entry : entry[k].status = "signed" => entry'[k].status = "signed"
    BY <1>4
  <2>3. \A k \in Entry : entry[k].correctionOf \in Entry \cup {Null}
    BY <1>2 DEF EntryRow
  <2>4. \A k \in Entry : entry'[k].correctionOf # Null =>
            entry'[entry'[k].correctionOf].status = "signed"
    BY <2>1, <2>2, <2>3 DEF CorrectionsLeadToOriginal
  <2>5. \A S \in (SUBSET Entry) \ {{}} : \E k \in S : entry'[k].correctionOf \notin S
    BY <2>1 DEF CorrectionsLeadToOriginal
  <2> QED BY <2>4, <2>5 DEF CorrectionsLeadToOriginal
<1>5. ASSUME NEW s \in Signer, sg[s].entry \in Entry,
             entry'[sg[s].entry] =
                   [entry[sg[s].entry] EXCEPT
                       !.status = "signed", !.credential = sg[s].credential,
                       !.user = sg[s].user, !.signedOn = sg[s].day],
             \A k \in Entry : k # sg[s].entry => entry'[k] = entry[k]
      PROVE  CorrectionsLeadToOriginal'
  <2>1. entry'[sg[s].entry].status = "signed"
        /\ entry'[sg[s].entry].correctionOf = entry[sg[s].entry].correctionOf
    BY <1>2, <1>5 DEF EntryRow
  <2> QED BY <1>4, <1>5, <2>1
<1> QED BY <1>1, <1>3, <1>5, EntryKinds

\* Corrections never form a circle, and lead to a signed original.
THEOREM Corrections == Spec => []CorrectionsLeadToOriginal
  BY TypeInit, TypeStep, CorrectionsInit, CorrectionsStep, PTL DEF Spec

-----------------------------------------------------------------------------
(* Signatures.                                                             *)

\* A row of a log shows the credential as the user's, and good on the day.
Shows(seen, user, day) ==
    seen.user = user /\ ~seen.revoked /\ (seen.expires = Null \/ seen.expires >= day)

Justified(log, user, day) == \E r \in log : Shows(r.row.after, user, day)

\* A request past the gate already has the row that justifies its signature.
JustifyInv ==
    /\ \A s \in Signer : sg[s].pc = "credential" =>
           Justified(credLog[sg[s].credential], sg[s].user, sg[s].day)
    /\ \A m \in Entry : entry[m].status = "signed" =>
           /\ entry[m].credential \in Credential
           /\ Justified(credLog[entry[m].credential], entry[m].user, entry[m].signedOn)

LEMMA JustifyImplies == JustifyInv => AuditJustifiesSignature
  BY DEF JustifyInv, AuditJustifiesSignature, Justified, Shows

LEMMA JustifyInit == Init => JustifyInv
  BY DEF Init, JustifyInv, Sign

\* Rows stay where they are.
LEMMA LogKeeps ==
  ASSUME TypeInv, [Next]_vars, NEW c \in Credential, NEW user, NEW day,
         Justified(credLog[c], user, day)
  PROVE  Justified(credLog'[c], user, day)
<1>1. CASE CredentialWrites
  BY <1>1, LogGrows DEF Justified
<1>2. CASE UNCHANGED credLog
  BY <1>2
<1> QED BY <1>1, <1>2, Kinds

\* How a request gets past the gate.
LEMMA PastGate ==
  ASSUME TypeInv, [Next]_vars, NEW s \in Signer, sg'[s].pc = "credential"
  PROVE  \/ sg'[s] = sg[s]
         \/ /\ SignReadCredentials(s)
            /\ UNCHANGED <<regime, cred, credLog, overtaken>>
            /\ sg'[s].credential \in Credential
            /\ Authorises(sg'[s].credential, sg[s].user, sg[s].regime, sg[s].day)
            /\ sg'[s].user = sg[s].user /\ sg'[s].regime = sg[s].regime /\ sg'[s].day = sg[s].day
<1>1. sg \in [Signer -> SignRow]
  BY DEF TypeInv, SignsOK
<1>2. CASE \E t \in Signer : SignReadEntry(t)
  <2>0. PICK t \in Signer : SignReadEntry(t)
    BY <1>2
  <2>1. PICK m \in Entry, u \in User :
        sg' = [sg EXCEPT ![t] = IF entry[m].status = "signed"
                                THEN Sign("refused")
                                ELSE [Sign("entry") EXCEPT !.entry = m, !.user = u]]
    BY <2>0 DEF SignReadEntry
  <2>2. sg'[t].pc # "credential"
    BY <1>1, <2>1 DEF Sign
  <2> QED BY <1>1, <2>1, <2>2
<1>3. CASE \E t \in Signer : SignReadAircraft(t)
  <2>1. PICK t \in Signer : SignReadAircraft(t)
    BY <1>3
  <2>2. sg'[t].pc = "aircraft"
    BY <1>1, <2>1 DEF SignReadAircraft, SignRow
  <2> QED BY <1>1, <2>1, <2>2 DEF SignReadAircraft
<1>4. CASE \E t \in Signer : SignReadCredentials(t)
  <2>1. PICK t \in Signer : SignReadCredentials(t)
    BY <1>4
  <2>2. CASE t # s
    BY <1>1, <2>1, <2>2 DEF SignReadCredentials
  <2>3. CASE t = s
    <3>1. sg' # [sg EXCEPT ![s] = Sign("refused")]
      BY <1>1 DEF Sign
    <3>2. PICK c \in Credential :
            /\ Authorises(c, sg[s].user, sg[s].regime, sg[s].day)
            /\ sg' = [sg EXCEPT ![s].pc = "credential", ![s].credential = c]
      BY <2>1, <2>3, <3>1 DEF SignReadCredentials
    <3>3. /\ sg'[s].credential = c /\ sg'[s].user = sg[s].user
          /\ sg'[s].regime = sg[s].regime /\ sg'[s].day = sg[s].day
      BY <1>1, <3>2 DEF SignRow
    <3> QED BY <2>1, <2>3, <3>2, <3>3 DEF SignReadCredentials, regimeVars, credVars
  <2> QED BY <2>2, <2>3
<1>5. CASE \E t \in Signer : SignWrite(t)
  <2>1. PICK t \in Signer, pc \in {"error", "signed"} : sg' = [sg EXCEPT ![t] = Sign(pc)]
    BY <1>5 DEF SignWrite
  <2>2. sg'[t].pc # "credential"
    BY <1>1, <2>1 DEF Sign
  <2> QED BY <1>1, <2>1, <2>2
<1>6. CASE UNCHANGED sg
  BY <1>6
<1> QED BY <1>2, <1>3, <1>4, <1>5, <1>6, Kinds DEF SignMoves

\* How a request gets to the gate.
LEMMA AircraftStep ==
  ASSUME TypeInv, [Next]_vars, NEW s \in Signer, sg'[s].pc = "aircraft", sg'[s] # sg[s]
  PROVE  SignReadAircraft(s)
<1>1. sg \in [Signer -> SignRow]
  BY DEF TypeInv, SignsOK
<1>2. CASE \E t \in Signer : SignReadEntry(t)
  <2>0. PICK t \in Signer : SignReadEntry(t)
    BY <1>2
  <2>1. PICK m \in Entry, u \in User :
        sg' = [sg EXCEPT ![t] = IF entry[m].status = "signed"
                                THEN Sign("refused")
                                ELSE [Sign("entry") EXCEPT !.entry = m, !.user = u]]
    BY <2>0 DEF SignReadEntry
  <2>2. sg'[t].pc # "aircraft"
    BY <1>1, <2>1 DEF Sign
  <2> QED BY <1>1, <2>1, <2>2
<1>3. CASE \E t \in Signer : SignReadAircraft(t)
  BY <1>1, <1>3 DEF SignReadAircraft
<1>4. CASE \E t \in Signer : SignReadCredentials(t)
  <2>1. PICK t \in Signer : SignReadCredentials(t)
    BY <1>4
  <2>2. sg'[t].pc # "aircraft" /\ \A r \in Signer : r # t => sg'[r] = sg[r]
    BY <1>1, <2>1 DEF SignReadCredentials, Sign, SignRow
  <2> QED BY <2>2
<1>5. CASE \E t \in Signer : SignWrite(t)
  <2>1. PICK t \in Signer, pc \in {"error", "signed"} : sg' = [sg EXCEPT ![t] = Sign(pc)]
    BY <1>5 DEF SignWrite
  <2>2. sg'[t].pc # "aircraft"
    BY <1>1, <2>1 DEF Sign
  <2> QED BY <1>1, <2>1, <2>2
<1> QED BY <1>2, <1>3, <1>4, <1>5, Kinds DEF SignMoves

LEMMA JustifyStep == TypeInv /\ LogsInv /\ JustifyInv /\ [Next]_vars => JustifyInv'
<1> SUFFICES ASSUME TypeInv, LogsInv, JustifyInv, [Next]_vars PROVE JustifyInv'
  OBVIOUS
<1>1. ASSUME NEW s \in Signer, sg'[s].pc = "credential"
      PROVE  Justified(credLog'[sg'[s].credential], sg'[s].user, sg'[s].day)
  <2>1. CASE sg'[s] = sg[s]
    <3>1. sg[s].credential \in Credential
      BY <1>1, <2>1 DEF TypeInv, Held
    <3>2. Justified(credLog[sg[s].credential], sg[s].user, sg[s].day)
      BY <1>1, <2>1 DEF JustifyInv
    <3> QED BY <2>1, <3>1, <3>2, LogKeeps
  <2>2. CASE /\ sg'[s].credential \in Credential
             /\ Authorises(sg'[s].credential, sg[s].user, sg[s].regime, sg[s].day)
             /\ sg'[s].user = sg[s].user /\ sg'[s].day = sg[s].day
             /\ UNCHANGED <<cred, credLog>>
    <3> DEFINE c == sg'[s].credential
    <3>1. PICK r \in credLog[c] : r.row.after = cred[c]
      BY <2>2 DEF LogsInv, AuditShowsPresent, Authorises
    <3>2. Shows(cred[c], sg[s].user, sg[s].day)
      BY <2>2 DEF Shows, Authorises
    <3>3. Justified(credLog[c], sg[s].user, sg[s].day)
      BY <3>1, <3>2 DEF Justified
    <3> QED BY <2>2, <3>3
  <2> QED BY <1>1, <2>1, <2>2, PastGate
<1>2. ASSUME NEW m \in Entry, entry'[m].status = "signed"
      PROVE  /\ entry'[m].credential \in Credential
             /\ Justified(credLog'[entry'[m].credential], entry'[m].user, entry'[m].signedOn)
  <2>1. CASE entry[m].status = "signed" /\ entry'[m] = entry[m]
    <3>1. /\ entry[m].credential \in Credential
          /\ Justified(credLog[entry[m].credential], entry[m].user, entry[m].signedOn)
      BY <2>1 DEF JustifyInv
    <3> QED BY <2>1, <3>1, LogKeeps
  <2>2. CASE \E s \in Signer :
                /\ sg[s].pc = "credential"
                /\ entry'[m].credential = sg[s].credential /\ entry'[m].user = sg[s].user
                /\ entry'[m].signedOn = sg[s].day
                /\ UNCHANGED credLog
    BY <2>2 DEF JustifyInv, TypeInv, Held
  <2>3. entry \in [Entry -> EntryRow]
    BY DEF TypeInv, EntriesOK
  <2>4. CASE \E k \in Entry, prior \in Correctable \cup {Null} :
              /\ entry'[k] = [entry[k] EXCEPT !.status = "draft", !.correctionOf = prior]
              /\ \A e \in Entry : e # k => entry'[e] = entry[e]
    <3>1. PICK k \in Entry :
              /\ entry'[k].status = "draft"
              /\ \A e \in Entry : e # k => entry'[e] = entry[e]
      BY <2>3, <2>4 DEF EntryRow
    <3> QED BY <1>2, <2>1, <3>1
  <2>5. ASSUME NEW s \in Signer, sg[s].pc = "credential", sg[s].entry \in Entry,
               entry'[sg[s].entry] =
                   [entry[sg[s].entry] EXCEPT
                       !.status = "signed", !.credential = sg[s].credential,
                       !.user = sg[s].user, !.signedOn = sg[s].day],
               \A k \in Entry : k # sg[s].entry => entry'[k] = entry[k],
               UNCHANGED credLog
        PROVE  /\ entry'[m].credential \in Credential
               /\ Justified(credLog'[entry'[m].credential], entry'[m].user, entry'[m].signedOn)
    <3>1. CASE m = sg[s].entry
      <4>1. /\ entry'[m].credential = sg[s].credential /\ entry'[m].user = sg[s].user
            /\ entry'[m].signedOn = sg[s].day
        <5>1. entry[m] \in EntryRow
          BY <2>3
        <5> QED BY <2>5, <3>1, <5>1 DEF EntryRow
      <4> QED BY <2>2, <2>5, <4>1
    <3>2. CASE m # sg[s].entry
      BY <1>2, <2>1, <2>5, <3>2
    <3> QED BY <3>1, <3>2
  <2> QED BY <1>2, <2>1, <2>4, <2>5, EntryKinds
<1> QED BY <1>1, <1>2 DEF JustifyInv

\* The log always justifies what was signed.
THEOREM Justifies == Spec => []AuditJustifiesSignature
<1>1. Spec => [](TypeInv /\ LogsInv /\ JustifyInv)
  BY TypeInit, TypeStep, LogsInit, LogsStep, JustifyInit, JustifyStep, PTL DEF Spec
<1> QED BY <1>1, JustifyImplies, PTL

\* What an undisturbed request has read still holds.
GateInv ==
    \A s \in Signer : ~overtaken[s] =>
        /\ Signing(s) => sg[s].regime = regime
        /\ sg[s].pc = "credential" =>
               LiveCredential(sg[s].credential, sg[s].user, regime, sg[s].day)

LEMMA GateInit == Init => GateInv
  BY DEF Init, GateInv, Signing, Sign

\* The gate's condition is the promise.
LEMMA GateIsLive ==
  ASSUME TypeInv, NEW c \in Credential, NEW user, NEW reg, NEW day \in 0 .. MaxDay,
         Authorises(c, user, reg, day)
  PROVE  LiveCredential(c, user, reg, day)
<1>1. cred[c] \in RealRow
  BY Rows DEF TypeInv, CredentialsOK, Authorises, Exists
<1>2. cred[c].type = [regime |-> reg, authorizes |-> TRUE]
  BY <1>1, SignOffAssumption DEF RealRow, Authorises
<1>3. cred[c].expires \notin 0 .. day - 1
  BY <1>1, SignOffAssumption DEF RealRow, Authorises, Expiry
<1> QED BY <1>2, <1>3 DEF Authorises, LiveCredential

LEMMA GateStep == TypeInv /\ GateInv /\ [Next]_vars => GateInv'
<1> SUFFICES ASSUME TypeInv, GateInv, [Next]_vars, NEW s \in Signer, ~overtaken'[s]
             PROVE  /\ Signing(s)' => sg'[s].regime = regime'
                    /\ sg'[s].pc = "credential" =>
                         LiveCredential(sg[s].credential, sg[s].user, regime, sg[s].day)'
  BY DEF GateInv
<1>1. CASE Overtake /\ UNCHANGED sg
  BY <1>1 DEF Overtake, Signing
<1>2. CASE UNCHANGED <<regime, cred, sg, overtaken>>
  BY <1>2 DEF GateInv, Signing, LiveCredential
<1>3. CASE UNCHANGED <<regime, cred, overtaken>>
  <2>1. CASE sg'[s] = sg[s]
    BY <1>3, <2>1 DEF GateInv, Signing, LiveCredential
  <2>2. CASE sg'[s].pc = "credential" /\ sg'[s] # sg[s]
    <3>1. /\ sg'[s].credential \in Credential /\ sg[s].pc = "aircraft"
          /\ Authorises(sg'[s].credential, sg[s].user, sg[s].regime, sg[s].day)
          /\ sg'[s].user = sg[s].user /\ sg'[s].regime = sg[s].regime /\ sg'[s].day = sg[s].day
      BY <2>2, PastGate DEF SignReadCredentials
    <3>2. sg[s].regime = regime /\ sg[s].day \in 0 .. MaxDay
      BY <1>3, <3>1 DEF GateInv, Signing, TypeInv, Held
    <3>3. LiveCredential(sg'[s].credential, sg[s].user, regime, sg[s].day)
      BY <3>1, <3>2, GateIsLive
    <3> QED BY <1>3, <3>1, <3>2, <3>3 DEF LiveCredential
  <2>3. CASE sg'[s].pc = "aircraft" /\ sg'[s] # sg[s]
    <3>1. sg \in [Signer -> SignRow]
      BY DEF TypeInv, SignsOK
    <3>2. SignReadAircraft(s)
      BY <2>3, PastGate, <3>1, AircraftStep
    <3> QED BY <1>3, <2>3, <3>1, <3>2 DEF SignReadAircraft, SignRow
  <2> QED BY <2>1, <2>2, <2>3 DEF Signing
<1> QED BY <1>1, <1>2, <1>3, Kinds

\* How a request ends in a signature.
LEMMA StampStep ==
  ASSUME TypeInv, [Next]_vars, NEW s \in Signer, sg[s].pc = "credential", sg'[s].pc = "signed"
  PROVE  SignWrite(s) /\ Stamp(s)
<1>1. sg \in [Signer -> SignRow]
  BY DEF TypeInv, SignsOK
<1>2. CASE \E t \in Signer : SignMoves(t)
  <2>1. PICK t \in Signer : SignMoves(t)
    BY <1>2
  <2>2. sg[t].pc # "credential" /\ \A r \in Signer : r # t => sg'[r] = sg[r]
    BY <1>1, <2>1 DEF SignMoves, SignReadEntry, SignReadAircraft, SignReadCredentials
  <2> QED BY <2>2
<1>3. CASE \E t \in Signer : SignWrite(t)
  <2>1. PICK t \in Signer : SignWrite(t)
    BY <1>3
  <2>2. t = s
    BY <1>1, <2>1 DEF SignWrite
  <2>3. sg' # [sg EXCEPT ![s] = Sign("error")]
    BY <1>1 DEF Sign
  <2> QED BY <2>1, <2>2, <2>3 DEF SignWrite
<1>4. CASE UNCHANGED sg
  BY <1>4
<1> QED BY <1>2, <1>3, <1>4, Kinds

LEMMA GoodStep ==
  TypeInv /\ GateInv /\ [Next]_vars =>
    \A s \in Signer : Signs(s) /\ ~overtaken[s] =>
        LET signature == entry'[sg[s].entry]
        IN  LiveCredential(signature.credential, sg[s].user, regime, signature.signedOn)
<1> SUFFICES ASSUME TypeInv, GateInv, [Next]_vars, NEW s \in Signer, Signs(s), ~overtaken[s]
             PROVE  LiveCredential(entry'[sg[s].entry].credential, sg[s].user, regime,
                                   entry'[sg[s].entry].signedOn)
  OBVIOUS
<1>1. LiveCredential(sg[s].credential, sg[s].user, regime, sg[s].day)
  BY DEF GateInv, Signs
<1>2. SignWrite(s) /\ Stamp(s)
  BY StampStep DEF Signs
<1>3. sg[s].entry \in Entry /\ entry[sg[s].entry] \in EntryRow
  BY StampRow, <1>2 DEF SignWrite, TypeInv, EntriesOK
<1>4. /\ entry'[sg[s].entry].credential = sg[s].credential
      /\ entry'[sg[s].entry].signedOn = sg[s].day
  BY <1>2, <1>3, StampRow DEF SignWrite, EntryRow
<1> QED BY <1>1, <1>4

\* No signature rests on a credential that was not good, unless a change of a
\* credential or of the regime overtook the request.
THEOREM Good == Spec => SignatureWasGood
<1>1. Spec => [](TypeInv /\ GateInv)
  BY TypeInit, TypeStep, GateInit, GateStep, PTL DEF Spec
<1>2. TypeInv /\ GateInv /\ [Next]_vars =>
    [\A s \in Signer : Signs(s) /\ ~overtaken[s] =>
        LET signature == entry'[sg[s].entry]
        IN  LiveCredential(signature.credential, sg[s].user, regime, signature.signedOn)]_vars
  BY GoodStep
<1> QED BY <1>1, <1>2, PTL DEF Spec, SignatureWasGood
=============================================================================
