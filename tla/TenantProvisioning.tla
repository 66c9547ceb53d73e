------------------------- MODULE TenantProvisioning -------------------------
(***************************************************************************)
(* Creating tenants and their first members: TenantProvisioningService     *)
(* (packages/accounts/src/tenant-provisioning.ts) as POST                  *)
(* /api/admin/tenants and sign-up call it, and the invitations it sends    *)
(* (packages/accounts/src/invitations.ts).                                 *)
(*                                                                         *)
(* Only the creation of user, organisation and admin membership is a       *)
(* transaction; every other statement commits on its own, takes no lock,   *)
(* and may be the last one of its request.  A tenant, its audit row and    *)
(* the password of its admin are named by the request that made them.      *)
(* Regimes, names and roles are left out.                                  *)
(***************************************************************************)
EXTENDS Naturals, FiniteSets

CONSTANTS Request,   \* requests to provision a tenant
          Acceptor,  \* requests to accept an invitation
          Key,       \* idempotency keys
          Email,
          Seats,     \* sets of seats a request may ask for
          Generated, \* may the handler make up the admin's password?
          None       \* SQL NULL, no row, no key

ASSUME ProvisioningAssumption ==
    /\ None \notin Request \cup Acceptor \cup Key \cup Email
    /\ IsFiniteSet(Email)
    /\ Seats \subseteq SUBSET Email
    /\ Generated \subseteq BOOLEAN

VARIABLES users,       \* users: who set the password of each e-mail's account
          tenants,     \* organizations
          members,     \* organization_memberships
          audit,       \* tenant_provisioning_audit
          invitation,  \* invitations: tenant -> e-mail -> its row
          pc,          \* where each provisioning request is
          body,        \* what it asks for
          todo,        \* seats it has not invited yet
          seat,        \* the seat it has just written an invitation for
          sent,        \* the seats it has counted as invited
          answer,      \* its response
          apc,         \* where each acceptance is
          token        \* the invitation it names

dbVars == <<users, tenants, members, audit, invitation>>
requestVars == <<pc, body, todo, seat, sent, answer>>
acceptVars == <<apc, token>>
vars == <<dbVars, requestVars, acceptVars>>
-----------------------------------------------------------------------------
\* generated: the handler makes up the admin's password.
Body == [key: Key \cup {None}, email: Email, seats: Seats, generated: Generated]

\* sent is invitationsSent of the result snapshot.
AuditRow == [status: {"none", "in_progress", "done", "failed"}, sent: Nat]

\* An invitation nobody was mailed has a token nobody knows.
InvitationState == {"none", "unmailed", "mailed", "accepted"}

\* A response names a tenant when its code is 2xx; password: initialPassword.
Answer == [tenant: Request \cup {None}, password: BOOLEAN]

NoAnswer == [tenant |-> None, password |-> FALSE]

InFlight == {"checked", "lookedUp", "clear", "collided", "opened", "failing",
             "inviting", "mailing"}

Accepting == {"read", "noUser", "user", "stranger", "member"}

TypeOK ==
    /\ users \in [Email -> Request \cup Acceptor \cup {None}]
    /\ tenants \in SUBSET Request
    /\ members \in SUBSET (Request \X Email)
    /\ audit \in [Request -> AuditRow]
    /\ invitation \in [Request -> [Email -> InvitationState]]
    /\ pc \in [Request -> InFlight \cup {"idle", "answered", "dead"}]
    /\ body \in [Request -> Body \cup {None}]
    /\ todo \in [Request -> SUBSET Email]
    /\ seat \in [Request -> Email \cup {None}]
    /\ sent \in [Request -> Nat]
    /\ answer \in [Request -> Answer]
    /\ apc \in [Acceptor -> Accepting \cup {"idle", "accepted", "refused", "dead"}]
    /\ token \in [Acceptor -> (Request \X Email) \cup {None}]

Init ==
    /\ users = [e \in Email |-> None]
    /\ tenants = {}
    /\ members = {}
    /\ audit = [r \in Request |-> [status |-> "none", sent |-> 0]]
    /\ invitation = [r \in Request |-> [e \in Email |-> "none"]]
    /\ pc = [r \in Request |-> "idle"]
    /\ body = [r \in Request |-> None]
    /\ todo = [r \in Request |-> {}]
    /\ seat = [r \in Request |-> None]
    /\ sent = [r \in Request |-> 0]
    /\ answer = [r \in Request |-> NoAnswer]
    /\ apc = [a \in Acceptor |-> "idle"]
    /\ token = [a \in Acceptor |-> None]

Goto(r, from, to) == pc[r] = from /\ pc' = [pc EXCEPT ![r] = to]

\* findAuditByIdempotencyKey: at most one row, by the partial unique index.
Prior(key) == {q \in Request : /\ key # None
                               /\ audit[q].status # "none"
                               /\ body[q].key = key}

Done(key) == {q \in Prior(key) : audit[q].status = "done"}

-----------------------------------------------------------------------------
(* handleCreateTenant and handleSignup, up to the service.                 *)

\* sameSnapshot: the fingerprint holds everything but the password.
SameBody(b, c) == [b EXCEPT !.generated = FALSE] = [c EXCEPT !.generated = FALSE]

\* The body and its key are taken; a finished attempt with this key is replayed
\* (200), or refused when its body was another one (409).
Submit(r) ==
    /\ pc[r] = "idle"
    /\ \E b \in Body :
        /\ body' = [body EXCEPT ![r] = b]
        /\ \/ /\ Done(b.key) = {}
              /\ pc' = [pc EXCEPT ![r] = "checked"]
              /\ UNCHANGED answer
           \/ \E q \in Done(b.key) :
                /\ pc' = [pc EXCEPT ![r] = "answered"]
                /\ answer' = IF SameBody(b, body[q])
                             THEN [answer EXCEPT ![r].tenant = q]
                             ELSE answer
    /\ UNCHANGED <<dbVars, todo, seat, sent, acceptVars>>

-----------------------------------------------------------------------------
(* TenantProvisioningService.provisionTenant                               *)

\* Mutant: whatever attempt has the key is the answer.
LookUpAnyStatus(r) ==
    LET key == body[r].key
    IN  /\ pc[r] = "checked"
        /\ IF Prior(key) = {}
           THEN Goto(r, "checked", "lookedUp") /\ UNCHANGED answer
           ELSE /\ Goto(r, "checked", "answered")
                /\ \E q \in Prior(key) :
                     answer' = [answer EXCEPT ![r] =
                         [tenant |-> q, password |-> body[r].generated]]
        /\ UNCHANGED <<dbVars, body, todo, seat, sent, acceptVars>>

\* The lookup by key: a finished attempt is the answer (201), another one is
\* an IdempotencyConflict (409).
LookUp(r) ==
    LET key == body[r].key
    IN  /\ pc[r] = "checked"
        /\ IF Prior(key) = {}
           THEN Goto(r, "checked", "lookedUp")
           ELSE Goto(r, "checked", "answered")
        /\ IF Done(key) = {}
           THEN UNCHANGED answer
           ELSE \E q \in Done(key) :
                    answer' = [answer EXCEPT ![r] =
                        [tenant |-> q, password |-> body[r].generated]]
        /\ UNCHANGED <<dbVars, body, todo, seat, sent, acceptVars>>

\* The regime is resolved and the e-mail looked up among the users: what is
\* refused here leaves no audit row.
Preflight(r) ==
    /\ \/ Goto(r, "lookedUp", "answered")
       \/ Goto(r, "lookedUp", "clear") /\ users[body[r].email] = None
    /\ UNCHANGED <<dbVars, body, todo, seat, sent, answer, acceptVars>>

\* Mutant: without the unique index on the key.
OpenAuditRowTwice(r) ==
    /\ Goto(r, "clear", "opened")
    /\ audit' = [audit EXCEPT ![r].status = "in_progress"]
    /\ UNCHANGED <<users, tenants, members, invitation, body, todo, seat, sent, answer, acceptVars>>

\* openAuditRow: the INSERT, or its unique violation.
OpenAuditRow(r) ==
    /\ pc[r] = "clear"
    /\ IF Prior(body[r].key) = {}
       THEN /\ Goto(r, "clear", "opened")
            /\ audit' = [audit EXCEPT ![r].status = "in_progress"]
       ELSE /\ Goto(r, "clear", "collided")
            /\ UNCHANGED audit
    /\ UNCHANGED <<users, tenants, members, invitation, body, todo, seat, sent, answer, acceptVars>>

\* It reads the row of the winner: an IdempotencyConflict (409), or the internal
\* IdempotencyReplay, which the handlers let through (500).
Collide(r) ==
    /\ Goto(r, "collided", "answered")
    /\ UNCHANGED <<dbVars, body, todo, seat, sent, answer, acceptVars>>

\* The transaction: user, organisation and admin membership.  The unique index
\* on the e-mail makes it wait for an INSERT of the same e-mail, then fail.
CreateTenant(r) ==
    LET email == body[r].email
    IN  /\ Goto(r, "opened", "inviting")
        /\ users[email] = None
        /\ users' = [users EXCEPT ![email] = r]
        /\ tenants' = tenants \cup {r}
        /\ members' = members \cup {<<r, email>>}
        /\ todo' = [todo EXCEPT ![r] = body[r].seats]
        /\ UNCHANGED <<audit, invitation, body, seat, sent, answer, acceptVars>>

\* Hashing the password or a statement of the transaction throws: all is undone.
CreateTenantFails(r) ==
    /\ Goto(r, "opened", "failing")
    /\ UNCHANGED <<dbVars, body, todo, seat, sent, answer, acceptVars>>

\* Mutant: the audit row of a failed attempt is left as it is.
FailAuditRowNot(r) ==
    /\ Goto(r, "failing", "answered")
    /\ UNCHANGED <<dbVars, body, todo, seat, sent, answer, acceptVars>>

\* failAuditRow, and the error goes on to the handler.
FailAuditRow(r) ==
    /\ Goto(r, "failing", "answered")
    /\ audit' = [audit EXCEPT ![r].status = "failed"]
    /\ UNCHANGED <<users, tenants, members, invitation, body, todo, seat, sent, answer, acceptVars>>

\* InviteService.create for the next seat.
CreateInvitation(r) ==
    /\ Goto(r, "inviting", "mailing")
    /\ \E e \in todo[r] :
        /\ seat' = [seat EXCEPT ![r] = e]
        /\ todo' = [todo EXCEPT ![r] = @ \ {e}]
        /\ invitation' = [invitation EXCEPT ![r][e] = "unmailed"]
    /\ UNCHANGED <<users, tenants, members, audit, body, sent, answer, acceptVars>>

\* ... or it throws: a warning, and the next seat.
CreateInvitationFails(r) ==
    /\ pc[r] = "inviting"
    /\ \E e \in todo[r] : todo' = [todo EXCEPT ![r] = @ \ {e}]
    /\ UNCHANGED <<dbVars, pc, body, seat, sent, answer, acceptVars>>

\* enqueueInvite: the mail carries the token, and the seat is counted.
EnqueueInvite(r) ==
    /\ Goto(r, "mailing", "inviting")
    /\ invitation' = [invitation EXCEPT ![r][seat[r]] = "mailed"]
    /\ sent' = [sent EXCEPT ![r] = @ + 1]
    /\ seat' = [seat EXCEPT ![r] = None]
    /\ UNCHANGED <<users, tenants, members, audit, body, todo, answer, acceptVars>>

\* Mutant: a seat is counted although its mail could not be enqueued.
EnqueueInviteFailsCounted(r) ==
    /\ Goto(r, "mailing", "inviting")
    /\ sent' = [sent EXCEPT ![r] = @ + 1]
    /\ seat' = [seat EXCEPT ![r] = None]
    /\ UNCHANGED <<dbVars, body, todo, answer, acceptVars>>

\* ... or it throws: a warning, and the next seat.
EnqueueInviteFails(r) ==
    /\ Goto(r, "mailing", "inviting")
    /\ seat' = [seat EXCEPT ![r] = None]
    /\ UNCHANGED <<dbVars, body, todo, sent, answer, acceptVars>>

\* The audit row is closed and the tenant answered (201).
CloseAuditRow(r) ==
    /\ todo[r] = {}
    /\ Goto(r, "inviting", "answered")
    /\ audit' = [audit EXCEPT ![r] = [status |-> "done", sent |-> sent[r]]]
    /\ answer' = [answer EXCEPT ![r] = [tenant |-> r, password |-> body[r].generated]]
    /\ UNCHANGED <<users, tenants, members, invitation, body, todo, seat, sent, acceptVars>>

\* The server dies, or a statement outside the two try blocks throws (500).
Dies(r) ==
    /\ pc[r] \in InFlight
    /\ pc' = [pc EXCEPT ![r] = "dead"]
    /\ UNCHANGED <<dbVars, body, todo, seat, sent, answer, acceptVars>>

-----------------------------------------------------------------------------
(* InviteService.accept                                                    *)

AGoto(a, from, to) == apc[a] = from /\ apc' = [apc EXCEPT ![a] = to]

\* The invitation is found by its token, and neither accepted nor expired.  (An
\* expired one is refused: no state of the invitation says so.)
AcceptRead(a) ==
    /\ apc[a] = "idle"
    /\ \E r \in Request, e \in Email :
        /\ invitation[r][e] \in {"mailed", "accepted"}
        /\ token' = [token EXCEPT ![a] = <<r, e>>]
        /\ \/ apc' = [apc EXCEPT ![a] = "refused"]
           \/ invitation[r][e] = "mailed" /\ apc' = [apc EXCEPT ![a] = "read"]
    /\ UNCHANGED <<dbVars, requestVars>>

Tenant(a) == token[a][1]
Invited(a) == token[a][2]

\* The SELECT of the user, after the password has been hashed.
AcceptFindUser(a) ==
    /\ AGoto(a, "read", IF users[Invited(a)] = None THEN "noUser" ELSE "user")
    /\ UNCHANGED <<dbVars, requestVars, token>>

\* The INSERT of the user, or its unique violation.
AcceptInsertUser(a) ==
    /\ apc[a] = "noUser"
    /\ IF users[Invited(a)] = None
       THEN /\ AGoto(a, "noUser", "user")
            /\ users' = [users EXCEPT ![Invited(a)] = a]
       ELSE /\ AGoto(a, "noUser", "refused")
            /\ UNCHANGED users
    /\ UNCHANGED <<tenants, members, audit, invitation, requestVars, token>>

\* The SELECT of a membership the user may have already.
AcceptCheckMember(a) ==
    /\ AGoto(a, "user", IF token[a] \in members THEN "refused" ELSE "stranger")
    /\ UNCHANGED <<dbVars, requestVars, token>>

\* Mutant: the INSERT does nothing on a conflict, and the acceptance goes on.
AcceptInsertMemberQuietly(a) ==
    /\ AGoto(a, "stranger", "member")
    /\ members' = members \cup {token[a]}
    /\ UNCHANGED <<users, tenants, audit, invitation, requestVars, token>>

\* The INSERT of the membership, or its unique violation.
AcceptInsertMember(a) ==
    /\ apc[a] = "stranger"
    /\ IF token[a] \notin members
       THEN /\ AGoto(a, "stranger", "member")
            /\ members' = members \cup {token[a]}
       ELSE /\ AGoto(a, "stranger", "refused")
            /\ UNCHANGED members
    /\ UNCHANGED <<users, tenants, audit, invitation, requestVars, token>>

\* The invitation is stamped accepted.
AcceptStamp(a) ==
    /\ AGoto(a, "member", "accepted")
    /\ invitation' = [invitation EXCEPT ![Tenant(a)][Invited(a)] = "accepted"]
    /\ UNCHANGED <<users, tenants, members, audit, requestVars, token>>

AcceptDies(a) ==
    /\ apc[a] \in Accepting
    /\ apc' = [apc EXCEPT ![a] = "dead"]
    /\ UNCHANGED <<dbVars, requestVars, token>>

-----------------------------------------------------------------------------
Provision(r) ==
    \/ LookUp(r) \/ Preflight(r) \/ OpenAuditRow(r) \/ Collide(r)
    \/ CreateTenant(r) \/ CreateTenantFails(r) \/ FailAuditRow(r)
    \/ CreateInvitation(r) \/ CreateInvitationFails(r)
    \/ EnqueueInvite(r) \/ EnqueueInviteFails(r) \/ CloseAuditRow(r)

Accept(a) ==
    \/ AcceptRead(a) \/ AcceptFindUser(a) \/ AcceptInsertUser(a) \/ AcceptCheckMember(a)
    \/ AcceptInsertMember(a) \/ AcceptStamp(a)

Next ==
    \/ \E r \in Request : Submit(r) \/ Provision(r) \/ Dies(r)
    \/ \E a \in Acceptor : Accept(a) \/ AcceptDies(a)

Spec == Init /\ [][Next]_vars

\* A request that was submitted goes on until it is answered or dies.
FairSpec == Spec /\ \A r \in Request : WF_vars(Provision(r))
-----------------------------------------------------------------------------
\* However requests with one key, or for one e-mail, overlap and are retried: one
\* tenant per key, and one tenant per primary admin.
OneTenantPerKey ==
    \A r, q \in tenants :
        \/ r = q
        \/ /\ body[r].key = None \/ body[r].key # body[q].key
           /\ body[r].email # body[q].email

\* The invitations of a tenant whose mail was enqueued.
Mailed(r) == {e \in Email : invitation[r][e] \in {"mailed", "accepted"}}

\* What the audit says happened: a finished attempt has its tenant and counts the
\* invitations that were mailed, a failed one has none, and no tenant is without
\* its row.
AuditIsTrue ==
    \A r \in Request :
        /\ audit[r].status = "done" =>
            /\ r \in tenants
            /\ audit[r].sent = Cardinality(Mailed(r))
        /\ r \in tenants => audit[r].status \in {"in_progress", "done"}

\* All answers to one key name one tenant, of a finished attempt with that key;
\* whatever else is answered, nothing was created for it.
AnswersAgree ==
    \A r \in Request : pc[r] = "answered" =>
        /\ answer[r].tenant # None =>
            /\ answer[r].tenant \in tenants
            /\ audit[answer[r].tenant].status = "done"
            /\ answer[r].tenant # r => answer[r].tenant \in Done(body[r].key)
        /\ answer[r].tenant # r => r \notin tenants

\* An invitation is accepted once, and whoever was told so is a member with an
\* account.
AcceptedOnce ==
    \A a \in Acceptor : apc[a] = "accepted" =>
        /\ token[a] \in members
        /\ users[Invited(a)] # None
        /\ \A b \in Acceptor : apc[b] = "accepted" /\ token[b] = token[a] => a = b

\* The inductive strengthening of the four above, in parts.  The audit row and the tenant
\* of an attempt follow its program counter; ...
AttemptInv ==
    \A r \in Request :
        /\ pc[r] \in {"idle", "checked", "lookedUp", "clear", "collided"} =>
               audit[r].status = "none"
        /\ pc[r] \in {"opened", "failing", "inviting", "mailing"} =>
               audit[r].status = "in_progress"
        /\ pc[r] \in {"inviting", "mailing"} => r \in tenants
        /\ pc[r] \in {"opened", "failing"} => r \notin tenants
        /\ audit[r].status \in {"none", "failed"} => r \notin tenants
        /\ audit[r].status = "done" => r \in tenants /\ pc[r] = "answered"
        /\ r \in tenants => audit[r].status \in {"in_progress", "done"}
        /\ r \in tenants /\ pc[r] = "answered" => answer[r].tenant = r

\* ... no two audit rows have one key, and the admin of a tenant has an account of
\* the tenant's making; ...
UniqueInv ==
    /\ \A r, q \in Request :
        /\ audit[r].status # "none" /\ audit[q].status # "none"
        /\ body[r].key # None /\ body[r].key = body[q].key
        => r = q
    /\ \A r \in tenants : users[body[r].email] = r

\* ... a seat still to do has no invitation and the one at hand is not mailed; ...
SeatInv ==
    \A r \in Request :
        /\ \A e \in Email : r \notin tenants \/ e \in todo[r] => invitation[r][e] = "none"
        /\ pc[r] = "mailing" => invitation[r][seat[r]] = "unmailed"
        /\ r \notin tenants => todo[r] = {}

\* ... the seats are counted as they are mailed; ...
CountInv ==
    \A r \in Request :
        /\ sent[r] = Cardinality(Mailed(r))
        /\ audit[r].status = "done" => audit[r].sent = sent[r]

\* ... an answer names a finished attempt with the key; ...
AnswerInv ==
    \A r \in Request :
        /\ pc[r] # "answered" => answer[r].tenant = None
        /\ \A q \in Request : answer[r].tenant = q =>
            /\ audit[q].status = "done"
            /\ q # r => body[r].key # None /\ body[q].key = body[r].key

\* ... and whoever has passed a step of an acceptance finds its effect still there.
AcceptInv ==
    /\ \A a \in Acceptor :
        /\ apc[a] # "idle" => invitation[Tenant(a)][Invited(a)] \in {"mailed", "accepted"}
        /\ apc[a] \in {"user", "stranger", "member", "accepted"} => users[Invited(a)] # None
        /\ apc[a] \in {"member", "accepted"} => token[a] \in members
    /\ \A a, b \in Acceptor :
        apc[a] \in {"member", "accepted"} /\ apc[b] \in {"member", "accepted"} =>
            a = b \/ token[a] # token[b]

\* An audit row does not stay 'in_progress', unless its request dies.
AuditIsClosed ==
    \A r \in Request :
        audit[r].status = "in_progress" ~> (audit[r].status # "in_progress" \/ pc[r] = "dead")

=============================================================================
