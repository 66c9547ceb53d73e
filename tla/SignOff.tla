------------------------------- MODULE SignOff -------------------------------
(***************************************************************************)
(* Maintenance entries of one aircraft and what a signature on them rests  *)
(* on: drafts and sign-off (packages/aircraft/src/                         *)
(* maintenance-entry-service.ts and the trigger of migration 0013), the    *)
(* mechanics' credentials with their audit log (packages/accounts/src/     *)
(* credentials.ts) and the aircraft's regime with its own                  *)
(* (packages/aircraft/src/aircraft-regime-change-service.ts).              *)
(*                                                                         *)
(* Each request is one READ COMMITTED transaction.  Its SELECTs take no    *)
(* locks, so each is a step, and sees what has been committed by then.     *)
(* Its only UPDATE waits for other writers of that row and is followed by  *)
(* nothing but an INSERT into a log, so they and the COMMIT are one step.  *)
(* The rows of the logs carry the time their transaction began, so to      *)
(* begin one is a step too where there is a log.                           *)
(***************************************************************************)
EXTENDS Integers, TransactionLog

CONSTANTS Entry,          \* maintenance_entries that may be drafted
          Signer,         \* requests to sign one of them
          User,           \* who may sign
          Credential,     \* user_credentials that may be created
          NewCredential,  \* what an admin may create: [user, type, expires]
          Manager,        \* requests to update or revoke a credential
          CredentialType, \* regime_credential_types: [regime, authorizes]
          Changer,        \* requests to change the aircraft's regime
          Regime,         \* regimes
          MaxDay,         \* bound: days are 0 .. MaxDay
          Null            \* SQL NULL

Expiry == (0 .. MaxDay) \cup {Null}

ASSUME SignOffAssumption ==
    /\ MaxDay \in Nat
    /\ Null \notin 0 .. MaxDay /\ Null \notin Entry \cup User \cup Credential \cup Regime
    /\ CredentialType \subseteq [regime: Regime, authorizes: BOOLEAN]
    /\ NewCredential \subseteq [user: User, type: CredentialType, expires: Expiry]

VARIABLES today,     \* the current date
          regime,    \* aircraft.regime_id
          regimeLog, \* aircraft_regime_changes
          cred,      \* user_credentials
          credLog,   \* user_credential_changes of each credential
          regimeClock, \* now(): how many transactions with a row for regimeLog have begun
          credClock, \* the same of each credLog
          entry,     \* maintenance_entries
          sg,        \* sign requests
          mg,        \* credential requests
          cg,        \* regime requests
          \* What happened since a sign request read the aircraft; the program has
          \* no such state.
          overtaken, \* whether a credential or the regime changed
          justified  \* whether its user held a live credential at some moment

regimeVars == <<regime, regimeLog, regimeClock>>
credVars == <<cred, credLog, credClock>>

vars == <<today, regimeVars, credVars, entry, sg, mg, cg, overtaken, justified>>
-----------------------------------------------------------------------------
NoCredential == [user |-> Null, type |-> Null, expires |-> Null, revoked |-> FALSE]

CredentialRow ==
    [user: User, type: CredentialType, expires: Expiry, revoked: BOOLEAN] \cup {NoCredential}

\* The rows of the logs.
CredentialChange == [action: {"create", "update", "revoke"},
                     before: CredentialRow, after: CredentialRow]

RegimeChange == [from: Regime, to: Regime]

LogRow(changes) == [began: Nat, until: Nat, row: changes]

EntryRow == [status: {"none", "draft", "signed"},
             correctionOf: Entry \cup {Null},
             credential: Credential \cup {Null},
             user: User \cup {Null},
             signedOn: Expiry]

TypeOK ==
    /\ today \in 0 .. MaxDay
    /\ regime \in Regime
    /\ regimeLog \subseteq LogRow(RegimeChange)
    /\ regimeClock \in Nat
    /\ cred \in [Credential -> CredentialRow]
    /\ credLog \in [Credential -> SUBSET LogRow(CredentialChange)]
    /\ credClock \in [Credential -> Nat]
    /\ entry \in [Entry -> EntryRow]
    /\ sg \in [Signer -> [pc: {"idle", "entry", "aircraft", "credential", "signed",
                               "refused", "error"},
                          entry: Entry \cup {Null}, user: User \cup {Null},
                          regime: Regime \cup {Null}, credential: Credential \cup {Null},
                          day: Expiry]]
    /\ mg \in [Manager -> [pc: {"idle", "begun", "update", "revoke", "done"}, began: Nat,
                           credential: Credential \cup {Null}, before: CredentialRow]]
    /\ cg \in [Changer -> [pc: {"idle", "begun", "read", "done", "refused"}, began: Nat,
                           from: Regime \cup {Null}, to: Regime \cup {Null}]]
    /\ overtaken \in [Signer -> BOOLEAN]
    /\ justified \in [Signer -> BOOLEAN]

\* A request that holds nothing (any more).
Sign(pc) == [pc |-> pc, entry |-> Null, user |-> Null, regime |-> Null,
             credential |-> Null, day |-> Null]

Manage(pc) == [pc |-> pc, began |-> 0, credential |-> Null, before |-> NoCredential]

Change(pc) == [pc |-> pc, began |-> 0, from |-> Null, to |-> Null]

Init ==
    /\ today = 0
    /\ regime \in Regime
    /\ regimeLog = {}
    /\ regimeClock = 0
    /\ cred = [c \in Credential |-> NoCredential]
    /\ credLog = [c \in Credential |-> {}]
    /\ credClock = [c \in Credential |-> 0]
    /\ entry = [m \in Entry |-> [status |-> "none", correctionOf |-> Null,
                                 credential |-> Null, user |-> Null, signedOn |-> Null]]
    /\ sg = [s \in Signer |-> Sign("idle")]
    /\ mg = [a \in Manager |-> Manage("idle")]
    /\ cg = [g \in Changer |-> Change("idle")]
    /\ overtaken = [s \in Signer |-> FALSE]
    /\ justified = [s \in Signer |-> FALSE]

\* What the credential gate promises of the row behind a signature.
LiveCredential(c, user, reg, day) ==
    /\ cred[c].user = user
    /\ cred[c].type = [regime |-> reg, authorizes |-> TRUE]
    /\ ~cred[c].revoked
    /\ cred[c].expires \notin 0 .. day - 1

Signing(s) == sg[s].pc \in {"aircraft", "credential"}

\* Bookkeeping of every step: may the signatures under way be given now?
Observe ==
    justified' = [s \in Signer |-> justified[s] \/
        (Signing(s) /\ \E c \in Credential :
            LiveCredential(c, sg[s].user, regime, sg[s].day))']

\* A credential or the regime changes: bookkeeping for the signatures under way.
Overtake ==
    overtaken' = [s \in Signer |-> overtaken[s] \/ Signing(s)]

-----------------------------------------------------------------------------
(* Credentials.                                                            *)

Exists(c) == cred[c] # NoCredential

\* Mutant: the log shows what the request read, patched, and not the row its UPDATE left.
LogChangePatched(c, began, action, before, after) ==
    LET seen == CASE action = "create" -> after
                  [] action = "update" -> [before EXCEPT !.expires = after.expires]
                  [] action = "revoke" -> [before EXCEPT !.revoked = TRUE]
    IN  credLog' = [credLog EXCEPT ![c] = @ \cup
            {Stamped([action |-> action, before |-> before, after |-> seen], began,
                     credClock'[c])}]

LogChange(c, began, action, before, after) ==
    credLog' = [credLog EXCEPT ![c] = @ \cup
        {Stamped([action |-> action, before |-> before, after |-> after], began, credClock'[c])}]

\* A transaction that writes the log of c begins.
BeginOn(c) == credClock' = [credClock EXCEPT ![c] = @ + 1]

\* Nobody knows the id of the new row before it is committed, so to begin and to
\* commit are one step.
CreateForTenant(c) ==
    /\ ~Exists(c)
    /\ BeginOn(c)
    /\ \E new \in NewCredential :
        LET row == [user |-> new.user, type |-> new.type, expires |-> new.expires,
                    revoked |-> FALSE]
        IN  /\ cred' = [cred EXCEPT ![c] = row]
            /\ LogChange(c, credClock'[c], "create", NoCredential, row)
    /\ Overtake
    /\ UNCHANGED <<today, regimeVars, entry, sg, mg, cg>>

\* A request to update or to revoke a credential: its transaction begins.
BeginManage(a) ==
    /\ mg[a].pc = "idle"
    /\ \E c \in Credential :
        /\ Exists(c)
        /\ BeginOn(c)
        /\ mg' = [mg EXCEPT ![a] =
               [Manage("begun") EXCEPT !.began = credClock'[c], !.credential = c]]
    /\ UNCHANGED <<today, regimeVars, cred, credLog, entry, sg, cg, overtaken>>

\* updateForTenant and revokeForTenant read the row for its before-snapshot; a
\* revoked row is returned as it is.
LoadCredential(a) ==
    /\ mg[a].pc = "begun"
    /\ \E action \in {"update", "revoke"} :
        LET row == cred[mg[a].credential]
        IN  mg' = [mg EXCEPT ![a] = IF action = "revoke" /\ row.revoked
                                    THEN Manage("done")
                                    ELSE [@ EXCEPT !.pc = action, !.before = row]]
    /\ UNCHANGED <<today, regimeVars, credVars, entry, sg, cg, overtaken>>

\* What updateForTenant's UPDATE leaves: only the columns of the patch change.
\* (The others a patch may name do not bear on signatures.)
Patch(c, before, expires) == [cred[c] EXCEPT !.expires = expires]

UpdateForTenant(a) ==
    LET c == mg[a].credential
    IN  /\ mg[a].pc = "update"
        /\ UNCHANGED <<today, regimeVars, credClock, entry, sg, cg>>
        /\ \E expires \in Expiry :
            LET after == Patch(c, mg[a].before, expires)
            IN  /\ cred' = [cred EXCEPT ![c] = after]
                /\ LogChange(c, mg[a].began, "update", mg[a].before, after)
        /\ mg' = [mg EXCEPT ![a] = Manage("done")]
        /\ Overtake

RevokeForTenant(a) ==
    LET c == mg[a].credential
        after == [cred[c] EXCEPT !.revoked = TRUE]
    IN  /\ mg[a].pc = "revoke"
        /\ UNCHANGED <<today, regimeVars, credClock, entry, sg, cg>>
        /\ cred' = [cred EXCEPT ![c] = after]
        /\ LogChange(c, mg[a].began, "revoke", mg[a].before, after)
        /\ mg' = [mg EXCEPT ![a] = Manage("done")]
        /\ Overtake

-----------------------------------------------------------------------------
(* The regime.                                                             *)

\* change: its transaction begins.
BeginChange(g) ==
    /\ cg[g].pc = "idle"
    /\ regimeClock' = regimeClock + 1
    /\ cg' = [cg EXCEPT ![g] = [Change("begun") EXCEPT !.began = regimeClock']]
    /\ UNCHANGED <<today, regime, regimeLog, credVars, entry, sg, mg, overtaken>>

\* change: the SELECT, and the refusal of a change to the same regime.
ReadRegime(g) ==
    /\ cg[g].pc = "begun"
    /\ \E to \in Regime :
        cg' = [cg EXCEPT ![g] = IF to = regime
                                THEN Change("refused")
                                ELSE [@ EXCEPT !.pc = "read", !.from = regime, !.to = to]]
    /\ UNCHANGED <<today, regimeVars, credVars, entry, sg, mg, overtaken>>

\* change: the UPDATE, the audit row and the COMMIT.
ChangeRegime(g) ==
    /\ cg[g].pc = "read"
    /\ regime' = cg[g].to
    /\ regimeLog' = regimeLog \cup
           {Stamped([from |-> cg[g].from, to |-> cg[g].to], cg[g].began, regimeClock)}
    /\ cg' = [cg EXCEPT ![g] = Change("done")]
    /\ Overtake
    /\ UNCHANGED <<today, regimeClock, credVars, entry, sg, mg>>

-----------------------------------------------------------------------------
(* Entries.                                                                *)

\* Mutant: a draft can be corrected too.
CorrectableAny == {m \in Entry : entry[m].status # "none"}

\* The entries draft() accepts as correctionOfId.
Correctable == {m \in Entry : entry[m].status = "signed"}

\* draft: a signed entry stays signed, so the SELECT and the INSERT are one step.
Draft(m) ==
    /\ entry[m].status = "none"
    /\ \E prior \in Correctable \cup {Null} :
        entry' = [entry EXCEPT ![m].status = "draft", ![m].correctionOf = prior]
    /\ UNCHANGED <<today, regimeVars, credVars, sg, mg, cg, overtaken>>

\* sign: getById and the refusal of a signed entry.
SignReadEntry(s) ==
    /\ sg[s].pc = "idle"
    /\ \E m \in Entry, u \in User :
        /\ entry[m].status # "none"
        /\ sg' = [sg EXCEPT ![s] = IF entry[m].status = "signed"
                                   THEN Sign("refused")
                                   ELSE [Sign("entry") EXCEPT !.entry = m, !.user = u]]
    /\ UNCHANGED <<today, regimeVars, credVars, entry, mg, cg, overtaken>>

\* The SELECT of the aircraft, and "now".
SignReadAircraft(s) ==
    /\ sg[s].pc = "entry"
    /\ sg' = [sg EXCEPT ![s].pc = "aircraft", ![s].regime = regime, ![s].day = today]
    /\ UNCHANGED <<today, regimeVars, credVars, entry, mg, cg, overtaken>>

\* Mutant: an expired credential passes the gate.
AuthorisesExpired(c, user, reg, day) ==
    /\ Exists(c)
    /\ cred[c].user = user
    /\ cred[c].type.regime = reg
    /\ cred[c].type.authorizes
    /\ ~cred[c].revoked

\* Mutant: anybody's credential will do.
AuthorisesAnyUser(c, user, reg, day) ==
    /\ Exists(c)
    /\ cred[c].type.regime = reg
    /\ cred[c].type.authorizes
    /\ ~cred[c].revoked
    /\ cred[c].expires = Null \/ cred[c].expires >= day

\* The credential gate: the query's WHERE and the expiry filter after it.
Authorises(c, user, reg, day) ==
    /\ Exists(c)
    /\ cred[c].user = user
    /\ cred[c].type.regime = reg
    /\ cred[c].type.authorizes
    /\ ~cred[c].revoked
    /\ cred[c].expires = Null \/ cred[c].expires >= day

\* The SELECT of the credentials, of which any valid one is taken, and of the
\* template: a code the regime does not have is refused too.
SignReadCredentials(s) ==
    LET valid == {c \in Credential : Authorises(c, sg[s].user, sg[s].regime, sg[s].day)}
    IN  /\ sg[s].pc = "aircraft"
        /\ \/ sg' = [sg EXCEPT ![s] = Sign("refused")]
           \/ \E c \in valid :
                sg' = [sg EXCEPT ![s].pc = "credential", ![s].credential = c]
        /\ UNCHANGED <<today, regimeVars, credVars, entry, mg, cg, overtaken>>

Stamp(s) ==
    entry' = [entry EXCEPT ![sg[s].entry].status = "signed",
                           ![sg[s].entry].credential = sg[s].credential,
                           ![sg[s].entry].user = sg[s].user,
                           ![sg[s].entry].signedOn = sg[s].day]

\* The UPDATE, under maintenance_entries_block_signed_update, and the COMMIT.
SignWrite(s) ==
    /\ sg[s].pc = "credential"
    /\ \/ /\ entry[sg[s].entry].status = "signed"
          /\ sg' = [sg EXCEPT ![s] = Sign("error")]
          /\ UNCHANGED entry
       \/ /\ entry[sg[s].entry].status # "signed"
          /\ Stamp(s)
          /\ sg' = [sg EXCEPT ![s] = Sign("signed")]
    /\ UNCHANGED <<today, regimeVars, credVars, mg, cg, overtaken>>

-----------------------------------------------------------------------------
Tick ==
    /\ today < MaxDay
    /\ today' = today + 1
    /\ UNCHANGED <<regimeVars, credVars, entry, sg, mg, cg, overtaken>>

Step ==
    \/ Tick
    \/ \E c \in Credential : CreateForTenant(c)
    \/ \E a \in Manager : BeginManage(a) \/ LoadCredential(a) \/ UpdateForTenant(a)
                          \/ RevokeForTenant(a)
    \/ \E g \in Changer : BeginChange(g) \/ ReadRegime(g) \/ ChangeRegime(g)
    \/ \E m \in Entry : Draft(m)
    \/ \E s \in Signer : SignReadEntry(s) \/ SignReadAircraft(s) \/ SignReadCredentials(s)
                         \/ SignWrite(s)

Next == Step /\ Observe

Spec == Init /\ [][Next]_vars
-----------------------------------------------------------------------------
\* A signed entry is frozen, signature, signer and date, whatever sign requests
\* for it were already past their check.
SignedIsFrozen ==
    [][\A m \in Entry : entry[m].status = "signed" => entry'[m] = entry[m]]_vars

Signs(s) == sg[s].pc = "credential" /\ sg'[s].pc = "signed"

\* A signature rests on a credential of the signer that authorises signing under
\* the aircraft's regime, unrevoked and unexpired on the date it is given, unless
\* a credential or the regime changed while the request ran.
SignatureWasGood ==
    [][\A s \in Signer : Signs(s) /\ ~overtaken[s] =>
        LET signature == entry'[sg[s].entry]
        IN  LiveCredential(signature.credential, sg[s].user, regime, signature.signedOn)]_vars

\* Behind every signature an auditor finds a row of the credential log that shows
\* the credential as the signer's, unrevoked, and not expired on the entry's date.
AuditJustifiesSignature ==
    \A m \in Entry : entry[m].status = "signed" =>
        \E r \in credLog[entry[m].credential] :
            LET seen == r.row.after
            IN  /\ seen.user = entry[m].user
                /\ ~seen.revoked
                /\ seen.expires = Null \/ seen.expires >= entry[m].signedOn

\* The audit trail of a credential shows its present state, and what listAuditTrail
\* lists above that is only of requests that overlapped the one that wrote it: after
\* requests one by one the trail begins with the present, and no request that began
\* when the present was settled can be mistaken for it.
AuditShowsPresent ==
    \A c \in Credential : Exists(c) =>
        \E r \in credLog[c] : r.row.after = cred[c] /\ TopButForOverlaps(credLog[c], r)

\* No update brings a revoked credential back.
RevokedForGood ==
    [][\A c \in Credential : cred[c].revoked => cred'[c].revoked]_vars

\* The same of the regime log and the aircraft's present regime, once it has changed.
RegimeLogShowsPresent ==
    regimeLog # {} =>
        \E r \in regimeLog : r.row.to = regime /\ TopButForOverlaps(regimeLog, r)

\* Following corrections leads to an original: every correction is of a signed
\* entry, and no entries correct each other in a circle.
CorrectionsLeadToOriginal ==
    /\ \A m \in Entry : entry[m].correctionOf # Null =>
           entry[entry[m].correctionOf].status = "signed"
    /\ \A S \in (SUBSET Entry) \ {{}} : \E m \in S : entry[m].correctionOf \notin S

\* maintenance-entry-service.ts:313: verifying the credential under the aircraft's
\* regime and stamping the entry are atomic, so there is a moment, from reading the
\* aircraft to the stamp, at which the signer held a live credential for it.
VerifiedAtOneMoment == [][\A s \in Signer : Signs(s) => justified[s]]_vars

=============================================================================
