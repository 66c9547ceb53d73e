------------------------ MODULE ProvisionTenantForm ------------------------
(***************************************************************************)
(* The administrator's form for a new tenant                               *)
(* (apps/web/app/admin/tenants/new/ProvisionTenantForm.tsx) over the       *)
(* network to TenantProvisioning.                                          *)
(*                                                                         *)
(* A POST may be lost, may reach the server after the browser has given it *)
(* up, and so may its answer be lost; the form keeps the idempotency key   *)
(* for a retry only when it has heard nothing.  Every step of the server   *)
(* is a step of TenantProvisioning, whose Submit takes the body of the     *)
(* POST or of a sign-up elsewhere.  Organisation name, type, regime, roles *)
(* and error texts are left out, and so is a reload of the page.           *)
(***************************************************************************)
EXTENDS TenantProvisioning

VARIABLES form,        \* the inputs
          idem,        \* idemRef: the key of the last POST, or None
          reuseKey,    \* is it to be used again?
          post,        \* the POSTs made: what was asked, and what became of it
          success      \* the success view, or None

formVars == <<form, idem, reuseKey, post, success>>
allVars == <<vars, formVars>>

-----------------------------------------------------------------------------
\* auto: passwordMode; an e-mail of None is one canSubmit does not take.
Inputs == [email: Email \cup {None}, seats: Seats, auto: Generated]

\* waiting: its fetch has not returned; lost: it threw; heard: a response came.
Posted == [body: Body, fate: {"waiting", "lost", "heard"}]

\* by: the POST whose answer is on the screen.
Success == [tenant: Request \cup {None}, email: Email, password: BOOLEAN, by: Request]

\* The e-mail None and the rows None are no values of their kind, and the form
\* starts with a generated password and no seats.
ASSUME FormAssumption ==
    /\ TRUE \in Generated /\ {} \in Seats
    /\ None \notin Posted \cup Success

EmptyForm == [email |-> None, seats |-> {}, auto |-> TRUE]

submitting == \E r \in Request : post[r] # None /\ post[r].fate = "waiting"

FormInit ==
    /\ Init
    /\ form = EmptyForm
    /\ idem = None /\ reuseKey = FALSE
    /\ post = [r \in Request |-> None]
    /\ success = None

FormTypeOK ==
    /\ form \in Inputs
    /\ idem \in Key \cup {None} /\ reuseKey \in BOOLEAN
    /\ post \in [Request -> Posted \cup {None}]
    /\ success \in Success \cup {None}

-----------------------------------------------------------------------------
(* The administrator.  While a POST is waiting the inputs are disabled, and *)
(* the success view has none.  (The number of requests bounds what is sent, *)
(* and nothing is typed that cannot be.)                                    *)

Unsent == {r \in Request : post[r] = None /\ pc[r] = "idle"}

Enabled == ~submitting /\ success = None /\ Unsent # {}

\* Mutant: the inputs are not disabled while a POST is waiting.
editAnytime ==
    /\ success = None /\ Unsent # {}
    /\ form' \in Inputs \ {form}
    /\ UNCHANGED <<vars, idem, reuseKey, post, success>>

\* What setPrimaryAdminEmail, setPasswordMode, addSeat, removeSeat and updateSeat
\* come to before the next POST.
edit ==
    /\ Enabled
    /\ form' \in Inputs \ {form}
    /\ UNCHANGED <<vars, idem, reuseKey, post, success>>

canSubmit == Enabled /\ form.email # None

\* genIdempotencyKey: one that no POST has had.
FreshKey == {k \in Key : \A q \in Request : post[q] # None => post[q].body.key # k}

KeyToUse == IF idem # None /\ reuseKey THEN {idem} ELSE FreshKey

\* submit, up to its fetch.
submit(r) ==
    /\ canSubmit
    /\ r \in Unsent /\ r = CHOOSE q \in Unsent : TRUE
    /\ KeyToUse # {} /\ idem' = CHOOSE k \in KeyToUse : TRUE
    /\ reuseKey' = FALSE
    /\ post' = [post EXCEPT ![r] =
           [body |-> [key |-> idem', email |-> form.email, seats |-> form.seats,
                      generated |-> form.auto],
            fate |-> "waiting"]]
    /\ UNCHANGED <<vars, form, success>>

\* Once it was copied, the password is cleared from the screen for good.
acknowledgeCredential ==
    /\ success # None /\ success.password
    /\ success' = [success EXCEPT !.password = FALSE]
    /\ UNCHANGED <<vars, form, idem, reuseKey, post>>

\* "Provision another tenant".
resetForm ==
    /\ success # None /\ Unsent # {}
    /\ form' = EmptyForm
    /\ idem' = None /\ reuseKey' = FALSE
    /\ success' = None
    /\ UNCHANGED <<vars, post>>

-----------------------------------------------------------------------------
(* The network and the rest of the server.                                 *)

\* A POST gets to the server, given up or not.
Arrive(r) ==
    /\ post[r] # None
    /\ Submit(r) /\ body'[r] = post[r].body
    /\ UNCHANGED formVars

\* A sign-up elsewhere, which has neither key nor seats, and whose answer the
\* form never sees.
SignUp(r) ==
    /\ r \in Unsent /\ r = CHOOSE q \in Unsent : TRUE
    /\ Submit(r) /\ body'[r].key = None /\ body'[r].seats = {}
    /\ UNCHANGED formVars

Server ==
    /\ \/ \E r \in Request : Provision(r) \/ Dies(r)
       \/ \E a \in Acceptor : Accept(a) \/ AcceptDies(a)
    /\ UNCHANGED formVars

-----------------------------------------------------------------------------
(* submit, once its fetch returns.                                         *)

Fate(r, fate) == post' = [post EXCEPT ![r].fate = fate]

\* Mutant: a response that is an error keeps the key.
ReceiveKeepsKey(r) ==
    /\ post[r] # None /\ post[r].fate = "waiting" /\ pc[r] \in {"answered", "dead"}
    /\ Fate(r, "heard")
    /\ reuseKey' = (answer[r].tenant = None) /\ UNCHANGED idem
    /\ success' = IF answer[r].tenant = None THEN success
                  ELSE [tenant |-> answer[r].tenant, email |-> form.email,
                        password |-> answer[r].password, by |-> r]
    /\ UNCHANGED <<vars, form>>

\* A response, an error or not, spends the key.  A success shows the e-mail the
\* form holds, and nothing of the server when its body cannot be read.
Receive(r) ==
    /\ post[r] # None /\ post[r].fate = "waiting" /\ pc[r] \in {"answered", "dead"}
    /\ Fate(r, "heard")
    /\ idem' = None /\ reuseKey' = FALSE
    /\ IF answer[r].tenant = None
       THEN UNCHANGED success
       ELSE \E shown \in {answer[r], NoAnswer} :
              success' = [tenant |-> shown.tenant, email |-> form.email,
                          password |-> shown.password, by |-> r]
    /\ UNCHANGED <<vars, form>>

\* fetch throws: the POST or its answer is lost, or not there yet, and the key is
\* kept for the retry.
NetworkError(r) ==
    /\ post[r] # None /\ post[r].fate = "waiting"
    /\ Fate(r, "lost")
    /\ reuseKey' = TRUE
    /\ UNCHANGED <<vars, form, idem, success>>

-----------------------------------------------------------------------------
FormNext ==
    \/ edit \/ acknowledgeCredential \/ resetForm
    \/ \E r \in Request :
        submit(r) \/ Arrive(r) \/ SignUp(r) \/ Receive(r) \/ NetworkError(r)
    \/ Server

FormSpec == FormInit /\ [][FormNext]_allVars

\* The server goes on as in TenantProvisioning; nothing is asked of the network.
FairFormSpec ==
    FormSpec /\ \A r \in Request : WF_allVars(Provision(r) /\ UNCHANGED formVars)

-----------------------------------------------------------------------------
\* The inductive strengthening of the two below, on top of TenantProvisioning's.
\* One POST waits at most, and the form keeps what it was made of; ...
WaitingInv ==
    \A r \in Request : post[r] # None /\ post[r].fate = "waiting" =>
        /\ \A q \in Request : post[q] # None /\ post[q].fate = "waiting" => q = r
        /\ form.email = post[r].body.email
        /\ idem = post[r].body.key
        /\ success = None

SameKey(r, q) == post[r] # None /\ post[q] # None /\ post[r].body.key = post[q].body.key

\* ... a key that may be used again was never heard of, and once it was, all other
\* POSTs of it are given up; ...
KeyInv ==
    /\ \A r \in Request : post[r] # None => post[r].body.key # None
    /\ \A r \in Request :
           post[r] # None /\ post[r].body.key = idem => post[r].fate # "heard"
    /\ \A r, q \in Request : SameKey(r, q) /\ post[r].fate = "heard" =>
           r = q \/ post[q].fate = "lost"

\* ... the server has the body of the POST, or one without a key; ...
BodyInv ==
    \A r \in Request : pc[r] # "idle" =>
        IF post[r] = None THEN body[r].key = None ELSE body[r] = post[r].body

\* ... and what is shown was answered.
SuccessInv ==
    success # None =>
        /\ success.by \in Request
        /\ post[success.by] # None
        /\ success.email = post[success.by].body.email
        /\ success.tenant # None =>
            /\ pc[success.by] = "answered"
            /\ success.tenant = answer[success.by].tenant

\* A key serves one answer: of the POSTs made with one key, however many were given
\* up and arrived late, the form has heard of one at most.
KeyIsForOneAnswer ==
    \A r, q \in Request : SameKey(r, q) =>
        r = q \/ post[r].fate # "heard" \/ post[q].fate # "heard"

\* The success view tells of a tenant that exists, whose admin it names unless the
\* form was edited between two POSTs of one key; and the password it shows opens
\* that admin's account, unless an earlier POST of the key was given up: the
\* tenant may be that one's, and the password nobody's.
SuccessIsTrue ==
    success # None /\ success.tenant # None =>
        LET tries == {q \in Request : SameKey(success.by, q)}
        IN  /\ success.tenant \in tenants
            /\ \/ body[success.tenant].email = success.email
               \/ \E q \in tries : ~SameBody(post[q].body, post[success.by].body)
            /\ success.password /\ tries = {success.by} =>
                   users[success.email] = success.by
=============================================================================
