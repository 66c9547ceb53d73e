---------------------- MODULE TenantProvisioningProofs ----------------------
(***************************************************************************)
(* Proofs about provisioning and invitations, for any number of requests,  *)
(* keys and e-mails; and, in the second half, about the form: whatever     *)
(* holds of provisioning holds under the form, a key serves one answer,    *)
(* and what is shown is true.                                              *)
(***************************************************************************)
EXTENDS ProvisionTenantForm, FiniteSetTheorems, TLAPS

-----------------------------------------------------------------------------
(* Types.                                                                  *)

\* What a request holds once it is under way.
Held ==
    /\ \A r \in Request :
        /\ pc[r] # "idle" => body[r] \in Body
        /\ pc[r] = "mailing" => seat[r] \in Email
    /\ \A a \in Acceptor : apc[a] # "idle" => token[a] \in Request \X Email

TypeInv == TypeOK /\ Held

LEMMA TypeInit == Init => TypeInv
  BY DEF Init, TypeInv, TypeOK, Held, AuditRow, InvitationState, Answer, NoAnswer

\* The rows the statements write.
LEMMA Rows ==
  /\ \A row \in AuditRow, st \in {"in_progress", "done", "failed"} :
         [row EXCEPT !.status = st] \in AuditRow
  /\ \A n \in Nat, st \in {"in_progress", "done", "failed"} :
         [status |-> st, sent |-> n] \in AuditRow
  /\ \A q \in Request \cup {None}, p \in BOOLEAN : [tenant |-> q, password |-> p] \in Answer
  /\ \A row \in Answer, q \in Request : [row EXCEPT !.tenant = q] \in Answer
  /\ \A b \in Body : b.key \in Key \cup {None} /\ b.email \in Email
                     /\ b.seats \in SUBSET Email /\ b.generated \in BOOLEAN
<1>1. \A b \in Body : b.key \in Key \cup {None} /\ b.email \in Email
                     /\ b.seats \in SUBSET Email /\ b.generated \in BOOLEAN
  BY ProvisioningAssumption DEF Body
<1>2. QED
  BY <1>1 DEF AuditRow, Answer

\* An audit row changes its status.
LEMMA AuditType ==
  ASSUME TypeOK, NEW r \in Request, NEW st \in {"in_progress", "done", "failed"},
         audit' = [audit EXCEPT ![r].status = st]
  PROVE  audit' \in [Request -> AuditRow]
<1>1. audit[r] \in AuditRow /\ [audit[r] EXCEPT !.status = st] \in AuditRow
  BY Rows DEF TypeOK
<1>2. audit' = [audit EXCEPT ![r] = [audit[r] EXCEPT !.status = st]]
  OBVIOUS
<1>3. QED
  BY <1>1, <1>2 DEF TypeOK

LEMMA TypeStep == TypeInv /\ [Next]_vars => TypeInv'
<1> SUFFICES ASSUME TypeInv, [Next]_vars PROVE TypeInv'
  OBVIOUS
<1> USE DEF TypeInv, TypeOK, Held, dbVars, requestVars, acceptVars, Goto, AGoto, InFlight, Accepting, InvitationState
<1>1. ASSUME NEW r \in Request, Submit(r) PROVE TypeInv'
  <2>1. PICK b \in Body :
          /\ body' = [body EXCEPT ![r] = b]
          /\ \/ /\ pc' = [pc EXCEPT ![r] = "checked"]
                /\ UNCHANGED answer
             \/ \E q \in Done(b.key) :
                  /\ pc' = [pc EXCEPT ![r] = "answered"]
                  /\ answer' = IF SameBody(b, body[q])
                               THEN [answer EXCEPT ![r].tenant = q]
                               ELSE answer
    BY <1>1 DEF Submit
  <2>2. answer' \in [Request -> Answer]
    <3>1. CASE UNCHANGED answer
      BY <3>1
    <3>2. ASSUME NEW q \in Done(b.key), answer' = [answer EXCEPT ![r].tenant = q]
          PROVE  answer' \in [Request -> Answer]
      <4>1. q \in Request
        BY <3>2 DEF Done, Prior
      <4>2. [answer[r] EXCEPT !.tenant = q] \in Answer
        BY <4>1, Rows
      <4>3. answer' = [answer EXCEPT ![r] = [answer[r] EXCEPT !.tenant = q]]
        BY <3>2
      <4>4. QED
        BY <4>2, <4>3
    <3>3. QED
      BY <2>1, <3>1, <3>2
  <2>3. \E x \in {"checked", "answered"} : pc' = [pc EXCEPT ![r] = x]
    BY <2>1
  <2>4. QED
    BY <1>1, <2>1, <2>2, <2>3 DEF Submit
<1>2. ASSUME NEW r \in Request, LookUp(r) PROVE TypeInv'
  <2>1. pc[r] = "checked" /\ \E x \in {"lookedUp", "answered"} : pc' = [pc EXCEPT ![r] = x]
    BY <1>2 DEF LookUp
  <2>2. answer' \in [Request -> Answer]
    <3>1. ASSUME NEW q \in Done(body[r].key),
                 answer' = [answer EXCEPT ![r] =
                     [tenant |-> q, password |-> body[r].generated]]
          PROVE  answer' \in [Request -> Answer]
      <4>1. q \in Request /\ body[r].generated \in BOOLEAN
        BY <2>1, Rows DEF Done, Prior
      <4>2. [tenant |-> q, password |-> body[r].generated] \in Answer
        BY <4>1, Rows
      <4>3. QED
        BY <3>1, <4>2
    <3>2. QED
      BY <1>2, <3>1 DEF LookUp
  <2>3. QED
    BY <1>2, <2>1, <2>2 DEF LookUp
<1>3. ASSUME NEW r \in Request, Preflight(r) PROVE TypeInv'
  BY <1>3 DEF Preflight
<1>4. ASSUME NEW r \in Request, OpenAuditRow(r) PROVE TypeInv'
  <2>1. pc[r] = "clear" /\ \E x \in {"opened", "collided"} : pc' = [pc EXCEPT ![r] = x]
    BY <1>4 DEF OpenAuditRow
  <2>2. audit' \in [Request -> AuditRow]
    BY <1>4, AuditType DEF OpenAuditRow
  <2>3. QED
    BY <1>4, <2>1, <2>2 DEF OpenAuditRow
<1>5. ASSUME NEW r \in Request, Collide(r) PROVE TypeInv'
  BY <1>5 DEF Collide
<1>6. ASSUME NEW r \in Request, CreateTenant(r) PROVE TypeInv'
  <2>1. body[r].email \in Email /\ body[r].seats \in SUBSET Email
    BY <1>6, Rows DEF CreateTenant
  <2>2. /\ users' = [users EXCEPT ![body[r].email] = r]
        /\ tenants' = tenants \cup {r}
        /\ members' = members \cup {<<r, body[r].email>>}
        /\ todo' = [todo EXCEPT ![r] = body[r].seats]
        /\ pc[r] = "opened" /\ pc' = [pc EXCEPT ![r] = "inviting"]
        /\ UNCHANGED <<audit, invitation, body, seat, sent, answer, acceptVars>>
    BY <1>6 DEF CreateTenant
  <2>3. QED
    BY <2>1, <2>2
<1>7. ASSUME NEW r \in Request, CreateTenantFails(r) PROVE TypeInv'
  BY <1>7 DEF CreateTenantFails
<1>8. ASSUME NEW r \in Request, FailAuditRow(r) PROVE TypeInv'
  <2>1. audit' \in [Request -> AuditRow]
    BY <1>8, AuditType DEF FailAuditRow
  <2>2. QED
    BY <1>8, <2>1 DEF FailAuditRow
<1>9. ASSUME NEW r \in Request, CreateInvitation(r) PROVE TypeInv'
  BY <1>9 DEF CreateInvitation
<1>10. ASSUME NEW r \in Request, CreateInvitationFails(r) PROVE TypeInv'
  BY <1>10 DEF CreateInvitationFails
<1>11. ASSUME NEW r \in Request, EnqueueInvite(r) PROVE TypeInv'
  <2>1. seat[r] \in Email
    BY <1>11 DEF EnqueueInvite
  <2>2. invitation' \in [Request -> [Email -> InvitationState]]
    <3>1. invitation' = [invitation EXCEPT ![r] = [invitation[r] EXCEPT ![seat[r]] = "mailed"]]
      BY <1>11 DEF EnqueueInvite
    <3>2. [invitation[r] EXCEPT ![seat[r]] = "mailed"] \in [Email -> InvitationState]
      BY <2>1
    <3>3. QED
      BY <3>1, <3>2
  <2>3. sent' \in [Request -> Nat]
    BY <1>11 DEF EnqueueInvite
  <2>4. QED
    BY <1>11, <2>2, <2>3 DEF EnqueueInvite
<1>12. ASSUME NEW r \in Request, EnqueueInviteFails(r) PROVE TypeInv'
  BY <1>12 DEF EnqueueInviteFails
<1>13. ASSUME NEW r \in Request, CloseAuditRow(r) PROVE TypeInv'
  <2>1. pc[r] = "inviting" /\ pc' = [pc EXCEPT ![r] = "answered"]
    BY <1>13 DEF CloseAuditRow
  <2>2. [status |-> "done", sent |-> sent[r]] \in AuditRow
    BY Rows
  <2>3. [tenant |-> r, password |-> body[r].generated] \in Answer
    BY <2>1, Rows
  <2>4. audit' \in [Request -> AuditRow] /\ answer' \in [Request -> Answer]
    BY <1>13, <2>2, <2>3 DEF CloseAuditRow
  <2>5. QED
    BY <1>13, <2>1, <2>4 DEF CloseAuditRow
<1>14. ASSUME NEW r \in Request, Dies(r) PROVE TypeInv'
  BY <1>14 DEF Dies
<1>15. ASSUME NEW a \in Acceptor, AcceptRead(a) PROVE TypeInv'
  <2>1. PICK q \in Request, e \in Email :
          /\ token' = [token EXCEPT ![a] = <<q, e>>]
          /\ \/ apc' = [apc EXCEPT ![a] = "refused"]
             \/ apc' = [apc EXCEPT ![a] = "read"]
    BY <1>15 DEF AcceptRead
  <2>2. \E x \in {"refused", "read"} : apc' = [apc EXCEPT ![a] = x]
    BY <2>1
  <2>3. QED
    BY <1>15, <2>1, <2>2 DEF AcceptRead
<1>16. ASSUME NEW a \in Acceptor, AcceptFindUser(a) PROVE TypeInv'
  BY <1>16 DEF AcceptFindUser
<1>17. ASSUME NEW a \in Acceptor, AcceptInsertUser(a) PROVE TypeInv'
  <2>1. /\ apc[a] = "noUser"
        /\ \E x \in {"user", "refused"} : apc' = [apc EXCEPT ![a] = x]
    BY <1>17 DEF AcceptInsertUser
  <2>2. Invited(a) \in Email
    BY <2>1 DEF Invited
  <2>3. users' \in [Email -> Request \cup Acceptor \cup {None}]
    BY <1>17, <2>2 DEF AcceptInsertUser
  <2>4. QED
    BY <1>17, <2>1, <2>3 DEF AcceptInsertUser
<1>18. ASSUME NEW a \in Acceptor, AcceptCheckMember(a) PROVE TypeInv'
  BY <1>18 DEF AcceptCheckMember
<1>19. ASSUME NEW a \in Acceptor, AcceptInsertMember(a) PROVE TypeInv'
  BY <1>19 DEF AcceptInsertMember
<1>20. ASSUME NEW a \in Acceptor, AcceptStamp(a) PROVE TypeInv'
  BY <1>20 DEF AcceptStamp
<1>21. ASSUME NEW a \in Acceptor, AcceptDies(a) PROVE TypeInv'
  BY <1>21 DEF AcceptDies
<1>22. CASE UNCHANGED vars
  BY <1>22 DEF vars
<1>23. QED
  BY <1>1, <1>2, <1>3, <1>4, <1>5, <1>6, <1>7, <1>8, <1>9, <1>10, <1>11, <1>12, <1>13, <1>14, <1>15, <1>16, <1>17, <1>18, <1>19, <1>20, <1>21, <1>22 DEF Next, Provision, Accept

-----------------------------------------------------------------------------
(* An attempt, its audit row and its tenant.                               *)

LEMMA AttemptStep == TypeInv /\ AttemptInv /\ [Next]_vars => AttemptInv'
<1> SUFFICES ASSUME TypeInv, AttemptInv, [Next]_vars PROVE AttemptInv'
  OBVIOUS
<1> USE DEF TypeInv, TypeOK, Held, AttemptInv, dbVars, requestVars, acceptVars, Goto, AGoto, InFlight, Accepting
<1>1. ASSUME NEW r \in Request, Submit(r) PROVE AttemptInv'
  BY <1>1 DEF Submit
<1>2. ASSUME NEW r \in Request, LookUp(r) PROVE AttemptInv'
  BY <1>2 DEF LookUp
<1>3. ASSUME NEW r \in Request, Preflight(r) PROVE AttemptInv'
  BY <1>3 DEF Preflight
<1>4. ASSUME NEW r \in Request, OpenAuditRow(r) PROVE AttemptInv'
  <2>1. CASE Prior(body[r].key) = {}
    <3>1. audit' = [audit EXCEPT ![r] = [audit[r] EXCEPT !.status = "in_progress"]]
      BY <1>4, <2>1 DEF OpenAuditRow
    <3>2. audit'[r].status = "in_progress"
      BY <3>1 DEF AuditRow
    <3>3. pc[r] = "clear" /\ pc' = [pc EXCEPT ![r] = "opened"]
      BY <1>4, <2>1 DEF OpenAuditRow
    <3>4. QED
      BY <1>4, <2>1, <3>1, <3>2, <3>3 DEF OpenAuditRow
  <2>2. CASE Prior(body[r].key) # {}
    BY <1>4, <2>2 DEF OpenAuditRow
  <2>3. QED
    BY <2>1, <2>2
<1>5. ASSUME NEW r \in Request, Collide(r) PROVE AttemptInv'
  BY <1>5 DEF Collide
<1>6. ASSUME NEW r \in Request, CreateTenant(r) PROVE AttemptInv'
  BY <1>6 DEF CreateTenant
<1>7. ASSUME NEW r \in Request, CreateTenantFails(r) PROVE AttemptInv'
  BY <1>7 DEF CreateTenantFails
<1>8. ASSUME NEW r \in Request, FailAuditRow(r) PROVE AttemptInv'
  BY <1>8 DEF FailAuditRow
<1>9. ASSUME NEW r \in Request, CreateInvitation(r) PROVE AttemptInv'
  BY <1>9 DEF CreateInvitation
<1>10. ASSUME NEW r \in Request, CreateInvitationFails(r) PROVE AttemptInv'
  BY <1>10 DEF CreateInvitationFails
<1>11. ASSUME NEW r \in Request, EnqueueInvite(r) PROVE AttemptInv'
  BY <1>11 DEF EnqueueInvite
<1>12. ASSUME NEW r \in Request, EnqueueInviteFails(r) PROVE AttemptInv'
  BY <1>12 DEF EnqueueInviteFails
<1>13. ASSUME NEW r \in Request, CloseAuditRow(r) PROVE AttemptInv'
  BY <1>13 DEF CloseAuditRow
<1>14. ASSUME NEW r \in Request, Dies(r) PROVE AttemptInv'
  BY <1>14 DEF Dies
<1>15. ASSUME NEW a \in Acceptor, AcceptRead(a) PROVE AttemptInv'
  BY <1>15 DEF AcceptRead
<1>16. ASSUME NEW a \in Acceptor, AcceptFindUser(a) PROVE AttemptInv'
  BY <1>16 DEF AcceptFindUser
<1>17. ASSUME NEW a \in Acceptor, AcceptInsertUser(a) PROVE AttemptInv'
  BY <1>17 DEF AcceptInsertUser
<1>18. ASSUME NEW a \in Acceptor, AcceptCheckMember(a) PROVE AttemptInv'
  BY <1>18 DEF AcceptCheckMember
<1>19. ASSUME NEW a \in Acceptor, AcceptInsertMember(a) PROVE AttemptInv'
  BY <1>19 DEF AcceptInsertMember
<1>20. ASSUME NEW a \in Acceptor, AcceptStamp(a) PROVE AttemptInv'
  BY <1>20 DEF AcceptStamp
<1>21. ASSUME NEW a \in Acceptor, AcceptDies(a) PROVE AttemptInv'
  BY <1>21 DEF AcceptDies
<1>22. CASE UNCHANGED vars
  BY <1>22 DEF vars
<1>23. QED
  BY <1>1, <1>2, <1>3, <1>4, <1>5, <1>6, <1>7, <1>8, <1>9, <1>10, <1>11, <1>12, <1>13, <1>14, <1>15, <1>16, <1>17, <1>18, <1>19, <1>20, <1>21, <1>22 DEF Next, Provision, Accept

LEMMA UniqueStep == TypeInv /\ AttemptInv /\ UniqueInv /\ [Next]_vars => UniqueInv'
<1> SUFFICES ASSUME TypeInv, AttemptInv, UniqueInv, [Next]_vars PROVE UniqueInv'
  OBVIOUS
<1> USE DEF TypeInv, TypeOK, Held, AttemptInv, UniqueInv, dbVars, requestVars, acceptVars, Goto, AGoto, InFlight, Accepting
<1>1. ASSUME NEW r \in Request, Submit(r) PROVE UniqueInv'
  BY <1>1 DEF Submit
<1>2. ASSUME NEW r \in Request, LookUp(r) PROVE UniqueInv'
  BY <1>2 DEF LookUp
<1>3. ASSUME NEW r \in Request, Preflight(r) PROVE UniqueInv'
  BY <1>3 DEF Preflight
<1>4. ASSUME NEW r \in Request, OpenAuditRow(r) PROVE UniqueInv'
  <2>1. CASE Prior(body[r].key) = {}
    <3>1. audit' = [audit EXCEPT ![r] = [audit[r] EXCEPT !.status = "in_progress"]]
      BY <1>4, <2>1 DEF OpenAuditRow
    <3>2. audit'[r].status = "in_progress"
      BY <3>1 DEF AuditRow
    <3>3. pc[r] = "clear" /\ pc' = [pc EXCEPT ![r] = "opened"]
      BY <1>4, <2>1 DEF OpenAuditRow
    <3>4. QED
      BY <1>4, <2>1, <3>1, <3>2, <3>3 DEF OpenAuditRow, Prior
  <2>2. CASE Prior(body[r].key) # {}
    BY <1>4, <2>2 DEF OpenAuditRow
  <2>3. QED
    BY <2>1, <2>2
<1>5. ASSUME NEW r \in Request, Collide(r) PROVE UniqueInv'
  BY <1>5 DEF Collide
<1>6. ASSUME NEW r \in Request, CreateTenant(r) PROVE UniqueInv'
  <2>1. body[r].email \in Email /\ \A q \in tenants : q \in Request /\ users[body[q].email] = q
    BY <1>6, Rows DEF CreateTenant
  <2>2. \A q \in tenants : users[body[q].email] # None
    BY <2>1, ProvisioningAssumption
  <2>3. /\ users[body[r].email] = None
        /\ users' = [users EXCEPT ![body[r].email] = r]
        /\ tenants' = tenants \cup {r}
        /\ UNCHANGED <<audit, body>>
    BY <1>6 DEF CreateTenant
  <2>4. \A q \in tenants' : users'[body'[q].email] = q
    BY <2>1, <2>2, <2>3
  <2>5. QED
    BY <2>3, <2>4
<1>7. ASSUME NEW r \in Request, CreateTenantFails(r) PROVE UniqueInv'
  BY <1>7 DEF CreateTenantFails
<1>8. ASSUME NEW r \in Request, FailAuditRow(r) PROVE UniqueInv'
  BY <1>8 DEF FailAuditRow
<1>9. ASSUME NEW r \in Request, CreateInvitation(r) PROVE UniqueInv'
  BY <1>9 DEF CreateInvitation
<1>10. ASSUME NEW r \in Request, CreateInvitationFails(r) PROVE UniqueInv'
  BY <1>10 DEF CreateInvitationFails
<1>11. ASSUME NEW r \in Request, EnqueueInvite(r) PROVE UniqueInv'
  BY <1>11 DEF EnqueueInvite
<1>12. ASSUME NEW r \in Request, EnqueueInviteFails(r) PROVE UniqueInv'
  BY <1>12 DEF EnqueueInviteFails
<1>13. ASSUME NEW r \in Request, CloseAuditRow(r) PROVE UniqueInv'
  BY <1>13 DEF CloseAuditRow
<1>14. ASSUME NEW r \in Request, Dies(r) PROVE UniqueInv'
  BY <1>14 DEF Dies
<1>15. ASSUME NEW a \in Acceptor, AcceptRead(a) PROVE UniqueInv'
  BY <1>15 DEF AcceptRead
<1>16. ASSUME NEW a \in Acceptor, AcceptFindUser(a) PROVE UniqueInv'
  BY <1>16 DEF AcceptFindUser
<1>17. ASSUME NEW a \in Acceptor, AcceptInsertUser(a) PROVE UniqueInv'
  <2>1. CASE UNCHANGED users
    BY <1>17, <2>1 DEF AcceptInsertUser
  <2>2. CASE users[Invited(a)] = None /\ users' = [users EXCEPT ![Invited(a)] = a]
    <3>1. \A q \in tenants : users[body[q].email] = q /\ q # None
      BY ProvisioningAssumption
    <3>2. \A q \in tenants : users'[body[q].email] = users[body[q].email]
      BY <2>2, <3>1
    <3>3. QED
      BY <1>17, <3>1, <3>2 DEF AcceptInsertUser
  <2>3. QED
    BY <1>17, <2>1, <2>2 DEF AcceptInsertUser
<1>18. ASSUME NEW a \in Acceptor, AcceptCheckMember(a) PROVE UniqueInv'
  BY <1>18 DEF AcceptCheckMember
<1>19. ASSUME NEW a \in Acceptor, AcceptInsertMember(a) PROVE UniqueInv'
  BY <1>19 DEF AcceptInsertMember
<1>20. ASSUME NEW a \in Acceptor, AcceptStamp(a) PROVE UniqueInv'
  BY <1>20 DEF AcceptStamp
<1>21. ASSUME NEW a \in Acceptor, AcceptDies(a) PROVE UniqueInv'
  BY <1>21 DEF AcceptDies
<1>22. CASE UNCHANGED vars
  BY <1>22 DEF vars
<1>23. QED
  BY <1>1, <1>2, <1>3, <1>4, <1>5, <1>6, <1>7, <1>8, <1>9, <1>10, <1>11, <1>12, <1>13, <1>14, <1>15, <1>16, <1>17, <1>18, <1>19, <1>20, <1>21, <1>22 DEF Next, Provision, Accept

LEMMA AnswerStep == TypeInv /\ AttemptInv /\ AnswerInv /\ [Next]_vars => AnswerInv'
<1> SUFFICES ASSUME TypeInv, AttemptInv, AnswerInv, [Next]_vars PROVE AnswerInv'
  OBVIOUS
<1> USE DEF TypeInv, TypeOK, Held, AttemptInv, AnswerInv, dbVars, requestVars, acceptVars, Goto, AGoto, InFlight, Accepting
<1>1. ASSUME NEW r \in Request, Submit(r) PROVE AnswerInv'
  <2>1. PICK b \in Body :
          /\ body' = [body EXCEPT ![r] = b]
          /\ \/ /\ pc' = [pc EXCEPT ![r] = "checked"]
                /\ UNCHANGED answer
             \/ \E q \in Done(b.key) :
                  /\ pc' = [pc EXCEPT ![r] = "answered"]
                  /\ answer' = IF SameBody(b, body[q])
                               THEN [answer EXCEPT ![r].tenant = q]
                               ELSE answer
    BY <1>1 DEF Submit
  <2>2. /\ pc[r] = "idle" /\ UNCHANGED audit
        /\ answer[r].tenant = None
        /\ \A p \in Request : answer[p].tenant # r
        /\ \A p \in Request \ {r} : body'[p] = body[p] /\ pc'[p] = pc[p]
        /\ None \notin Request
    BY <1>1, <2>1, ProvisioningAssumption DEF Submit
  <2>3. CASE UNCHANGED answer /\ pc' = [pc EXCEPT ![r] = "checked"]
    BY <2>2, <2>3
  <2>4. ASSUME NEW q \in Done(b.key), pc' = [pc EXCEPT ![r] = "answered"],
               answer' \in {answer, [answer EXCEPT ![r].tenant = q]}
        PROVE  AnswerInv'
    <3>1. /\ q \in Request /\ audit[q].status = "done"
          /\ b.key # None /\ body[q].key = b.key
      BY <2>4 DEF Done, Prior
    <3>2. /\ answer'[r].tenant \in {None, q}
          /\ \A p \in Request \ {r} : answer'[p] = answer[p]
      BY <2>2, <2>4 DEF Answer
    <3>3. q # r /\ body'[r] = b /\ body'[q] = body[q] /\ pc'[r] = "answered"
      BY <1>1, <2>1, <2>2, <2>4, <3>1 DEF Submit
    <3>4. QED
      BY <2>2, <3>1, <3>2, <3>3
  <2>5. QED
    BY <2>1, <2>3, <2>4
<1>2. ASSUME NEW r \in Request, LookUp(r) PROVE AnswerInv'
  <2>1. pc[r] = "checked" /\ UNCHANGED <<audit, body>>
    BY <1>2 DEF LookUp
  <2>2. CASE UNCHANGED answer
    BY <1>2, <2>1, <2>2 DEF LookUp
  <2>3. ASSUME NEW q \in Done(body[r].key),
               answer' = [answer EXCEPT ![r] =
                   [tenant |-> q, password |-> body[r].generated]]
        PROVE  AnswerInv'
    <3>1. q \in Request /\ audit[q].status = "done"
          /\ body[r].key # None /\ body[q].key = body[r].key /\ Prior(body[r].key) # {}
      BY <2>3 DEF Done, Prior
    <3>2. pc' = [pc EXCEPT ![r] = "answered"]
      BY <1>2, <3>1 DEF LookUp
    <3>3. answer'[r].tenant = q /\ \A p \in Request \ {r} : answer'[p] = answer[p]
      BY <2>3
    <3>4. QED
      BY <2>1, <3>1, <3>2, <3>3
  <2>4. QED
    BY <1>2, <2>2, <2>3 DEF LookUp
<1>3. ASSUME NEW r \in Request, Preflight(r) PROVE AnswerInv'
  BY <1>3 DEF Preflight
<1>4. ASSUME NEW r \in Request, OpenAuditRow(r) PROVE AnswerInv'
  BY <1>4 DEF OpenAuditRow
<1>5. ASSUME NEW r \in Request, Collide(r) PROVE AnswerInv'
  BY <1>5 DEF Collide
<1>6. ASSUME NEW r \in Request, CreateTenant(r) PROVE AnswerInv'
  BY <1>6 DEF CreateTenant
<1>7. ASSUME NEW r \in Request, CreateTenantFails(r) PROVE AnswerInv'
  BY <1>7 DEF CreateTenantFails
<1>8. ASSUME NEW r \in Request, FailAuditRow(r) PROVE AnswerInv'
  BY <1>8 DEF FailAuditRow
<1>9. ASSUME NEW r \in Request, CreateInvitation(r) PROVE AnswerInv'
  BY <1>9 DEF CreateInvitation
<1>10. ASSUME NEW r \in Request, CreateInvitationFails(r) PROVE AnswerInv'
  BY <1>10 DEF CreateInvitationFails
<1>11. ASSUME NEW r \in Request, EnqueueInvite(r) PROVE AnswerInv'
  BY <1>11 DEF EnqueueInvite
<1>12. ASSUME NEW r \in Request, EnqueueInviteFails(r) PROVE AnswerInv'
  BY <1>12 DEF EnqueueInviteFails
<1>13. ASSUME NEW r \in Request, CloseAuditRow(r) PROVE AnswerInv'
  BY <1>13 DEF CloseAuditRow
<1>14. ASSUME NEW r \in Request, Dies(r) PROVE AnswerInv'
  BY <1>14 DEF Dies
<1>15. ASSUME NEW a \in Acceptor, AcceptRead(a) PROVE AnswerInv'
  BY <1>15 DEF AcceptRead
<1>16. ASSUME NEW a \in Acceptor, AcceptFindUser(a) PROVE AnswerInv'
  BY <1>16 DEF AcceptFindUser
<1>17. ASSUME NEW a \in Acceptor, AcceptInsertUser(a) PROVE AnswerInv'
  BY <1>17 DEF AcceptInsertUser
<1>18. ASSUME NEW a \in Acceptor, AcceptCheckMember(a) PROVE AnswerInv'
  BY <1>18 DEF AcceptCheckMember
<1>19. ASSUME NEW a \in Acceptor, AcceptInsertMember(a) PROVE AnswerInv'
  BY <1>19 DEF AcceptInsertMember
<1>20. ASSUME NEW a \in Acceptor, AcceptStamp(a) PROVE AnswerInv'
  BY <1>20 DEF AcceptStamp
<1>21. ASSUME NEW a \in Acceptor, AcceptDies(a) PROVE AnswerInv'
  BY <1>21 DEF AcceptDies
<1>22. CASE UNCHANGED vars
  BY <1>22 DEF vars
<1>23. QED
  BY <1>1, <1>2, <1>3, <1>4, <1>5, <1>6, <1>7, <1>8, <1>9, <1>10, <1>11, <1>12, <1>13, <1>14, <1>15, <1>16, <1>17, <1>18, <1>19, <1>20, <1>21, <1>22 DEF Next, Provision, Accept

LEMMA SeatStep == TypeInv /\ AttemptInv /\ SeatInv /\ AcceptInv /\ [Next]_vars => SeatInv'
<1> SUFFICES ASSUME TypeInv, AttemptInv, SeatInv, AcceptInv, [Next]_vars PROVE SeatInv'
  OBVIOUS
<1> USE DEF TypeInv, TypeOK, Held, AttemptInv, SeatInv, AcceptInv, Tenant, Invited, dbVars, requestVars, acceptVars, Goto, AGoto, InFlight, Accepting
<1>1. ASSUME NEW r \in Request, Submit(r) PROVE SeatInv'
  BY <1>1 DEF Submit
<1>2. ASSUME NEW r \in Request, LookUp(r) PROVE SeatInv'
  BY <1>2 DEF LookUp
<1>3. ASSUME NEW r \in Request, Preflight(r) PROVE SeatInv'
  BY <1>3 DEF Preflight
<1>4. ASSUME NEW r \in Request, OpenAuditRow(r) PROVE SeatInv'
  BY <1>4 DEF OpenAuditRow
<1>5. ASSUME NEW r \in Request, Collide(r) PROVE SeatInv'
  BY <1>5 DEF Collide
<1>6. ASSUME NEW r \in Request, CreateTenant(r) PROVE SeatInv'
  BY <1>6 DEF CreateTenant
<1>7. ASSUME NEW r \in Request, CreateTenantFails(r) PROVE SeatInv'
  BY <1>7 DEF CreateTenantFails
<1>8. ASSUME NEW r \in Request, FailAuditRow(r) PROVE SeatInv'
  BY <1>8 DEF FailAuditRow
<1>9. ASSUME NEW r \in Request, CreateInvitation(r) PROVE SeatInv'
  BY <1>9 DEF CreateInvitation
<1>10. ASSUME NEW r \in Request, CreateInvitationFails(r) PROVE SeatInv'
  BY <1>10 DEF CreateInvitationFails
<1>11. ASSUME NEW r \in Request, EnqueueInvite(r) PROVE SeatInv'
  BY <1>11 DEF EnqueueInvite
<1>12. ASSUME NEW r \in Request, EnqueueInviteFails(r) PROVE SeatInv'
  BY <1>12 DEF EnqueueInviteFails
<1>13. ASSUME NEW r \in Request, CloseAuditRow(r) PROVE SeatInv'
  BY <1>13 DEF CloseAuditRow
<1>14. ASSUME NEW r \in Request, Dies(r) PROVE SeatInv'
  BY <1>14 DEF Dies
<1>15. ASSUME NEW a \in Acceptor, AcceptRead(a) PROVE SeatInv'
  BY <1>15 DEF AcceptRead
<1>16. ASSUME NEW a \in Acceptor, AcceptFindUser(a) PROVE SeatInv'
  BY <1>16 DEF AcceptFindUser
<1>17. ASSUME NEW a \in Acceptor, AcceptInsertUser(a) PROVE SeatInv'
  BY <1>17 DEF AcceptInsertUser
<1>18. ASSUME NEW a \in Acceptor, AcceptCheckMember(a) PROVE SeatInv'
  BY <1>18 DEF AcceptCheckMember
<1>19. ASSUME NEW a \in Acceptor, AcceptInsertMember(a) PROVE SeatInv'
  BY <1>19 DEF AcceptInsertMember
<1>20. ASSUME NEW a \in Acceptor, AcceptStamp(a) PROVE SeatInv'
  <2>1. Tenant(a) \in Request /\ Invited(a) \in Email
    BY <1>20 DEF AcceptStamp
  <2>2. invitation[Tenant(a)][Invited(a)] \in {"mailed", "accepted"}
    BY <1>20 DEF AcceptStamp
  <2>3. /\ invitation' = [invitation EXCEPT ![Tenant(a)] =
               [invitation[Tenant(a)] EXCEPT ![Invited(a)] = "accepted"]]
        /\ UNCHANGED <<tenants, audit, pc, body, todo, seat, sent, answer>>
    BY <1>20 DEF AcceptStamp
  <2>4. \A q \in Request, e \in Email :
            \/ invitation'[q][e] = invitation[q][e]
            \/ q = Tenant(a) /\ e = Invited(a)
    BY <2>1, <2>3
  <2>5. \A q \in Request, e \in Email :
            invitation[q][e] \in {"none", "unmailed"} => invitation'[q][e] = invitation[q][e]
    BY <2>2, <2>4
  <2>6. \A q \in Request : pc[q] = "mailing" => seat[q] \in Email
    OBVIOUS
  <2>7. QED
    BY <2>3, <2>5, <2>6
<1>21. ASSUME NEW a \in Acceptor, AcceptDies(a) PROVE SeatInv'
  BY <1>21 DEF AcceptDies
<1>22. CASE UNCHANGED vars
  BY <1>22 DEF vars
<1>23. QED
  BY <1>1, <1>2, <1>3, <1>4, <1>5, <1>6, <1>7, <1>8, <1>9, <1>10, <1>11, <1>12, <1>13, <1>14, <1>15, <1>16, <1>17, <1>18, <1>19, <1>20, <1>21, <1>22 DEF Next, Provision, Accept

\* What leaves the variables of CountInv alone.
LEMMA CountFrame ==
  CountInv /\ UNCHANGED <<invitation, sent, audit>> => CountInv'
  BY DEF CountInv, Mailed

\* A row that is not made 'done' counts nothing.
LEMMA StatusCount ==
  ASSUME TypeInv, CountInv, NEW r \in Request, NEW st \in {"in_progress", "failed"},
         audit' = [audit EXCEPT ![r].status = st],
         UNCHANGED <<invitation, sent>>
  PROVE  CountInv'
<1>1. /\ \A q \in Request \ {r} : audit'[q] = audit[q]
      /\ audit'[r] = [audit[r] EXCEPT !.status = st]
  BY DEF TypeInv, TypeOK
<1>2. audit'[r].status # "done"
  BY <1>1, Rows DEF TypeInv, TypeOK, AuditRow
<1>3. QED
  BY <1>1, <1>2 DEF CountInv, Mailed

\* An invitation that changes, and not from or to being mailed.
LEMMA MailedSame ==
  ASSUME TypeOK, NEW r \in Request, NEW e \in Email, NEW st \in InvitationState,
         invitation' = [invitation EXCEPT ![r][e] = st],
         st \in {"mailed", "accepted"} <=> invitation[r][e] \in {"mailed", "accepted"}
  PROVE  \A q \in Request : Mailed(q)' = Mailed(q)
<1>1. invitation' = [invitation EXCEPT ![r] = [invitation[r] EXCEPT ![e] = st]]
  OBVIOUS
<1>2. \A q \in Request, f \in Email :
        invitation'[q][f] = IF q = r /\ f = e THEN st ELSE invitation[q][f]
  BY <1>1 DEF TypeOK
<1>3. \A q \in Request, f \in Email :
        invitation'[q][f] \in {"mailed", "accepted"} <=> invitation[q][f] \in {"mailed", "accepted"}
  BY <1>2
<1>4. QED
  BY <1>3 DEF Mailed

LEMMA CountStep == TypeInv /\ AttemptInv /\ SeatInv /\ AcceptInv /\ CountInv /\ [Next]_vars => CountInv'
<1> SUFFICES ASSUME TypeInv, AttemptInv, SeatInv, AcceptInv, CountInv, [Next]_vars PROVE CountInv'
  OBVIOUS
<1> USE DEF dbVars, requestVars, acceptVars, Goto, AGoto, InFlight, Accepting
<1>1. ASSUME NEW r \in Request, Submit(r) PROVE CountInv'
  BY <1>1, CountFrame DEF Submit
<1>2. ASSUME NEW r \in Request, LookUp(r) PROVE CountInv'
  BY <1>2, CountFrame DEF LookUp
<1>3. ASSUME NEW r \in Request, Preflight(r) PROVE CountInv'
  BY <1>3, CountFrame DEF Preflight
<1>4. ASSUME NEW r \in Request, OpenAuditRow(r) PROVE CountInv'
  <2>1. CASE UNCHANGED audit
    BY <1>4, <2>1, CountFrame DEF OpenAuditRow
  <2>2. CASE audit' = [audit EXCEPT ![r].status = "in_progress"]
    BY <1>4, <2>2, StatusCount DEF OpenAuditRow
  <2>3. QED
    BY <1>4, <2>1, <2>2 DEF OpenAuditRow
<1>5. ASSUME NEW r \in Request, Collide(r) PROVE CountInv'
  BY <1>5, CountFrame DEF Collide
<1>6. ASSUME NEW r \in Request, CreateTenant(r) PROVE CountInv'
  BY <1>6, CountFrame DEF CreateTenant
<1>7. ASSUME NEW r \in Request, CreateTenantFails(r) PROVE CountInv'
  BY <1>7, CountFrame DEF CreateTenantFails
<1>8. ASSUME NEW r \in Request, FailAuditRow(r) PROVE CountInv'
  BY <1>8, StatusCount DEF FailAuditRow
<1>9. ASSUME NEW r \in Request, CreateInvitation(r) PROVE CountInv'
  <2>1. PICK e \in todo[r] : invitation' = [invitation EXCEPT ![r][e] = "unmailed"]
    BY <1>9 DEF CreateInvitation
  <2>2. e \in Email /\ invitation[r][e] = "none"
    BY DEF TypeInv, TypeOK, SeatInv
  <2>3. TypeOK /\ "unmailed" \in InvitationState
    BY DEF TypeInv, InvitationState
  <2>4. \A q \in Request : Mailed(q)' = Mailed(q)
    BY <2>1, <2>2, <2>3, MailedSame
  <2>5. QED
    BY <1>9, <2>4 DEF CreateInvitation, CountInv
<1>10. ASSUME NEW r \in Request, CreateInvitationFails(r) PROVE CountInv'
  BY <1>10, CountFrame DEF CreateInvitationFails
<1>11. ASSUME NEW r \in Request, EnqueueInvite(r) PROVE CountInv'
  <2>1. /\ invitation' = [invitation EXCEPT ![r][seat[r]] = "mailed"]
        /\ sent' = [sent EXCEPT ![r] = @ + 1]
        /\ UNCHANGED audit
        /\ pc[r] = "mailing" /\ seat[r] \in Email
    BY <1>11 DEF EnqueueInvite, TypeInv, Held
  <2>2. invitation[r][seat[r]] = "unmailed" /\ audit[r].status = "in_progress"
    BY <2>1 DEF SeatInv, AttemptInv
  <2>3. \A q \in Request \ {r} : Mailed(q)' = Mailed(q)
    BY <2>1 DEF TypeInv, TypeOK, Mailed
  <2>4. Mailed(r)' = Mailed(r) \cup {seat[r]} /\ seat[r] \notin Mailed(r)
    BY <2>1, <2>2 DEF TypeInv, TypeOK, Mailed
  <2>5. IsFiniteSet(Mailed(r))
    BY ProvisioningAssumption, FS_Subset DEF Mailed
  <2>6. Cardinality(Mailed(r))' = Cardinality(Mailed(r)) + 1
    BY <2>4, <2>5, FS_AddElement
  <2>7. sent' \in [Request -> Nat] /\ \A q \in Request \ {r} : sent'[q] = sent[q]
    BY <2>1 DEF TypeInv, TypeOK
  <2>8. sent'[r] = sent[r] + 1
    BY <2>1 DEF TypeInv, TypeOK
  <2>9. QED
    BY <2>1, <2>2, <2>3, <2>6, <2>7, <2>8 DEF CountInv
<1>12. ASSUME NEW r \in Request, EnqueueInviteFails(r) PROVE CountInv'
  BY <1>12, CountFrame DEF EnqueueInviteFails
<1>13. ASSUME NEW r \in Request, CloseAuditRow(r) PROVE CountInv'
  <2>1. /\ audit' = [audit EXCEPT ![r] = [status |-> "done", sent |-> sent[r]]]
        /\ UNCHANGED <<invitation, sent>>
    BY <1>13 DEF CloseAuditRow
  <2>2. QED
    BY <2>1 DEF TypeInv, TypeOK, CountInv, Mailed
<1>14. ASSUME NEW r \in Request, Dies(r) PROVE CountInv'
  BY <1>14, CountFrame DEF Dies
<1>15. ASSUME NEW a \in Acceptor, AcceptRead(a) PROVE CountInv'
  BY <1>15, CountFrame DEF AcceptRead
<1>16. ASSUME NEW a \in Acceptor, AcceptFindUser(a) PROVE CountInv'
  BY <1>16, CountFrame DEF AcceptFindUser
<1>17. ASSUME NEW a \in Acceptor, AcceptInsertUser(a) PROVE CountInv'
  BY <1>17, CountFrame DEF AcceptInsertUser
<1>18. ASSUME NEW a \in Acceptor, AcceptCheckMember(a) PROVE CountInv'
  BY <1>18, CountFrame DEF AcceptCheckMember
<1>19. ASSUME NEW a \in Acceptor, AcceptInsertMember(a) PROVE CountInv'
  BY <1>19, CountFrame DEF AcceptInsertMember
<1>20. ASSUME NEW a \in Acceptor, AcceptStamp(a) PROVE CountInv'
  <2>1. Tenant(a) \in Request /\ Invited(a) \in Email
    BY <1>20 DEF AcceptStamp, TypeInv, Held, Tenant, Invited
  <2>2. invitation[Tenant(a)][Invited(a)] \in {"mailed", "accepted"}
    BY <1>20 DEF AcceptStamp, AcceptInv
  <2>3. TypeOK /\ "accepted" \in InvitationState
    BY DEF TypeInv, InvitationState
  <2>4. invitation' = [invitation EXCEPT ![Tenant(a)][Invited(a)] = "accepted"]
    BY <1>20 DEF AcceptStamp
  <2>5. \A q \in Request : Mailed(q)' = Mailed(q)
    BY <2>1, <2>2, <2>3, <2>4, MailedSame
  <2>6. QED
    BY <1>20, <2>5 DEF AcceptStamp, CountInv
<1>21. ASSUME NEW a \in Acceptor, AcceptDies(a) PROVE CountInv'
  BY <1>21, CountFrame DEF AcceptDies
<1>22. CASE UNCHANGED vars
  BY <1>22, CountFrame DEF vars
<1>23. QED
  BY <1>1, <1>2, <1>3, <1>4, <1>5, <1>6, <1>7, <1>8, <1>9, <1>10, <1>11, <1>12, <1>13, <1>14, <1>15, <1>16, <1>17, <1>18, <1>19, <1>20, <1>21, <1>22 DEF Next, Provision, Accept

\* What leaves the variables of AcceptInv alone.
LEMMA AcceptFrame ==
  AcceptInv /\ UNCHANGED <<invitation, users, members, apc, token>> => AcceptInv'
  BY DEF AcceptInv, Tenant, Invited

LEMMA AcceptStep == TypeInv /\ AttemptInv /\ SeatInv /\ AcceptInv /\ [Next]_vars => AcceptInv'
<1> SUFFICES ASSUME TypeInv, AttemptInv, SeatInv, AcceptInv, [Next]_vars PROVE AcceptInv'
  OBVIOUS
<1> USE DEF dbVars, requestVars, acceptVars, Goto, AGoto, InFlight, Accepting
<1>1. ASSUME NEW r \in Request, Submit(r) PROVE AcceptInv'
  BY <1>1, AcceptFrame DEF Submit
<1>2. ASSUME NEW r \in Request, LookUp(r) PROVE AcceptInv'
  BY <1>2, AcceptFrame DEF LookUp
<1>3. ASSUME NEW r \in Request, Preflight(r) PROVE AcceptInv'
  BY <1>3, AcceptFrame DEF Preflight
<1>4. ASSUME NEW r \in Request, OpenAuditRow(r) PROVE AcceptInv'
  BY <1>4, AcceptFrame DEF OpenAuditRow
<1>5. ASSUME NEW r \in Request, Collide(r) PROVE AcceptInv'
  BY <1>5, AcceptFrame DEF Collide
<1>6. ASSUME NEW r \in Request, CreateTenant(r) PROVE AcceptInv'
  BY <1>6 DEF CreateTenant, AcceptInv, TypeInv, TypeOK, Held, Tenant, Invited, SeatInv, AttemptInv
<1>7. ASSUME NEW r \in Request, CreateTenantFails(r) PROVE AcceptInv'
  BY <1>7, AcceptFrame DEF CreateTenantFails
<1>8. ASSUME NEW r \in Request, FailAuditRow(r) PROVE AcceptInv'
  BY <1>8, AcceptFrame DEF FailAuditRow
<1>9. ASSUME NEW r \in Request, CreateInvitation(r) PROVE AcceptInv'
  BY <1>9 DEF CreateInvitation, AcceptInv, TypeInv, TypeOK, Held, Tenant, Invited, SeatInv, AttemptInv
<1>10. ASSUME NEW r \in Request, CreateInvitationFails(r) PROVE AcceptInv'
  BY <1>10, AcceptFrame DEF CreateInvitationFails
<1>11. ASSUME NEW r \in Request, EnqueueInvite(r) PROVE AcceptInv'
  BY <1>11 DEF EnqueueInvite, AcceptInv, TypeInv, TypeOK, Held, Tenant, Invited, SeatInv, AttemptInv
<1>12. ASSUME NEW r \in Request, EnqueueInviteFails(r) PROVE AcceptInv'
  BY <1>12, AcceptFrame DEF EnqueueInviteFails
<1>13. ASSUME NEW r \in Request, CloseAuditRow(r) PROVE AcceptInv'
  BY <1>13, AcceptFrame DEF CloseAuditRow
<1>14. ASSUME NEW r \in Request, Dies(r) PROVE AcceptInv'
  BY <1>14, AcceptFrame DEF Dies
<1>15. ASSUME NEW a \in Acceptor, AcceptRead(a) PROVE AcceptInv'
  BY <1>15 DEF AcceptRead, AcceptInv, TypeInv, TypeOK, Held, Tenant, Invited, SeatInv, AttemptInv
<1>16. ASSUME NEW a \in Acceptor, AcceptFindUser(a) PROVE AcceptInv'
  BY <1>16 DEF AcceptFindUser, AcceptInv, TypeInv, TypeOK, Held, Tenant, Invited, SeatInv, AttemptInv
<1>17. ASSUME NEW a \in Acceptor, AcceptInsertUser(a) PROVE AcceptInv'
  <2>1. apc[a] = "noUser" /\ Invited(a) \in Email /\ a # None
    BY <1>17, ProvisioningAssumption DEF AcceptInsertUser, TypeInv, Held, Invited
  <2>2. CASE UNCHANGED users /\ apc' = [apc EXCEPT ![a] = "refused"]
    BY <1>17, <2>1, <2>2 DEF AcceptInsertUser, AcceptInv, TypeInv, TypeOK, Tenant, Invited
  <2>3. CASE /\ users' = [users EXCEPT ![Invited(a)] = a]
             /\ apc' = [apc EXCEPT ![a] = "user"]
    <3>1. \A e \in Email : users[e] # None \/ e = Invited(a) => users'[e] # None
      BY <2>1, <2>3 DEF TypeInv, TypeOK
    <3>2. \A b \in Acceptor : apc[b] # "idle" => Invited(b) \in Email
      BY DEF TypeInv, Held, Invited
    <3>3. UNCHANGED <<token, invitation, members>>
      BY <1>17 DEF AcceptInsertUser
    <3>4. \A b \in Acceptor : Invited(b)' = Invited(b) /\ Tenant(b)' = Tenant(b)
      BY <3>3 DEF Invited, Tenant
    <3>5. \A b \in Acceptor : apc'[b] = IF b = a THEN "user" ELSE apc[b]
      BY <2>3 DEF TypeInv, TypeOK
    <3>6. QED
      BY <2>1, <3>1, <3>2, <3>3, <3>4, <3>5 DEF AcceptInv
  <2>4. QED
    BY <1>17, <2>2, <2>3 DEF AcceptInsertUser
<1>18. ASSUME NEW a \in Acceptor, AcceptCheckMember(a) PROVE AcceptInv'
  BY <1>18 DEF AcceptCheckMember, AcceptInv, TypeInv, TypeOK, Held, Tenant, Invited, SeatInv, AttemptInv
<1>19. ASSUME NEW a \in Acceptor, AcceptInsertMember(a) PROVE AcceptInv'
  <2>1. apc[a] = "stranger" /\ UNCHANGED <<token, invitation, users>>
    BY <1>19 DEF AcceptInsertMember
  <2>2. \A b \in Acceptor : Invited(b)' = Invited(b) /\ Tenant(b)' = Tenant(b)
    BY <2>1 DEF Invited, Tenant
  <2>3. CASE UNCHANGED members /\ apc' = [apc EXCEPT ![a] = "refused"]
    <3>1. \A b \in Acceptor : apc'[b] = IF b = a THEN "refused" ELSE apc[b]
      BY <2>3 DEF TypeInv, TypeOK
    <3>2. QED
      BY <2>1, <2>2, <2>3, <3>1 DEF AcceptInv
  <2>4. CASE /\ token[a] \notin members
             /\ members' = members \cup {token[a]}
             /\ apc' = [apc EXCEPT ![a] = "member"]
    <3>1. \A b \in Acceptor : apc'[b] = IF b = a THEN "member" ELSE apc[b]
      BY <2>4 DEF TypeInv, TypeOK
    <3>2. \A b \in Acceptor : apc[b] \in {"member", "accepted"} => token[b] # token[a]
      BY <2>4 DEF AcceptInv
    <3>3. QED
      BY <2>1, <2>2, <2>4, <3>1, <3>2 DEF AcceptInv
  <2>5. QED
    BY <1>19, <2>3, <2>4 DEF AcceptInsertMember
<1>20. ASSUME NEW a \in Acceptor, AcceptStamp(a) PROVE AcceptInv'
  BY <1>20 DEF AcceptStamp, AcceptInv, TypeInv, TypeOK, Held, Tenant, Invited, SeatInv, AttemptInv
<1>21. ASSUME NEW a \in Acceptor, AcceptDies(a) PROVE AcceptInv'
  BY <1>21 DEF AcceptDies, AcceptInv, TypeInv, TypeOK, Held, Tenant, Invited, SeatInv, AttemptInv
<1>22. CASE UNCHANGED vars
  BY <1>22, AcceptFrame DEF vars
<1>23. QED
  BY <1>1, <1>2, <1>3, <1>4, <1>5, <1>6, <1>7, <1>8, <1>9, <1>10, <1>11, <1>12, <1>13, <1>14, <1>15, <1>16, <1>17, <1>18, <1>19, <1>20, <1>21, <1>22 DEF Next, Provision, Accept

-----------------------------------------------------------------------------
(* The inductive invariant and the theorems.                               *)

IInv ==
    /\ TypeInv
    /\ AttemptInv
    /\ UniqueInv
    /\ AnswerInv
    /\ SeatInv
    /\ CountInv
    /\ AcceptInv

LEMMA InvInit == Init => IInv
<1> SUFFICES ASSUME Init PROVE IInv
  OBVIOUS
<1>1. TypeInv
  BY TypeInit
<1>2. AttemptInv /\ UniqueInv /\ AnswerInv /\ SeatInv /\ AcceptInv
  BY ProvisioningAssumption
     DEF Init, NoAnswer, AttemptInv, UniqueInv, AnswerInv, SeatInv, AcceptInv
<1>3. CountInv
  <2>1. \A r \in Request : Mailed(r) = {}
    BY DEF Init, Mailed
  <2>2. QED
    BY <2>1, FS_EmptySet DEF Init, CountInv
<1>4. QED
  BY <1>1, <1>2, <1>3 DEF IInv

LEMMA InvStep == IInv /\ [Next]_vars => IInv'
  BY TypeStep, AttemptStep, UniqueStep, AnswerStep, SeatStep, CountStep, AcceptStep DEF IInv

LEMMA Invariant == Spec => []IInv
  BY InvInit, InvStep, PTL DEF Spec

\* The variables keep their types: users, memberships, audit rows, invitations
\* and the state of every request.
THEOREM TypeCorrect == Spec => []TypeOK
<1>1. IInv => TypeOK
  BY DEF IInv, TypeInv
<1>2. QED
  BY <1>1, Invariant, PTL

\* Retries and overlaps of provisionTenant make one tenant per idempotency key,
\* and one per primary admin: the unique indexes on the audit row's key and on
\* the user's e-mail are enough.
THEOREM OneTenant == Spec => []OneTenantPerKey
<1>1. IInv => OneTenantPerKey
  <2> SUFFICES ASSUME IInv, NEW r \in tenants, NEW q \in tenants, r # q
               PROVE  /\ body[r].key = None \/ body[r].key # body[q].key
                      /\ body[r].email # body[q].email
    BY DEF OneTenantPerKey
  <2>1. r \in Request /\ q \in Request
    BY DEF IInv, TypeInv, TypeOK
  <2>2. audit[r].status # "none" /\ audit[q].status # "none"
    BY <2>1 DEF IInv, AttemptInv
  <2>3. body[r].email # body[q].email
    BY <2>1 DEF IInv, UniqueInv
  <2>4. QED
    BY <2>1, <2>2, <2>3 DEF IInv, UniqueInv
<1>2. QED
  BY <1>1, Invariant, PTL

\* The audit tells the truth: whatever throws, a row that says 'done' has its
\* tenant and the number of invitations that were mailed, and a tenant has a row.
THEOREM Audit == Spec => []AuditIsTrue
<1>1. IInv => AuditIsTrue
  BY DEF IInv, AttemptInv, CountInv, AuditIsTrue
<1>2. QED
  BY <1>1, Invariant, PTL

\* All answers to one idempotency key name one finished tenant with that key; a
\* request answered otherwise created none.
THEOREM Answers == Spec => []AnswersAgree
<1>1. IInv => AnswersAgree
  <2> SUFFICES ASSUME IInv, NEW r \in Request, pc[r] = "answered"
               PROVE  /\ answer[r].tenant # None =>
                          /\ answer[r].tenant \in tenants
                          /\ audit[answer[r].tenant].status = "done"
                          /\ answer[r].tenant # r => answer[r].tenant \in Done(body[r].key)
                      /\ answer[r].tenant # r => r \notin tenants
    BY DEF AnswersAgree
  <2>1. answer[r].tenant \in Request \cup {None}
    BY DEF IInv, TypeInv, TypeOK, Answer
  <2>2. answer[r].tenant # r => r \notin tenants
    BY DEF IInv, AttemptInv
  <2>3. ASSUME answer[r].tenant # None
        PROVE  /\ answer[r].tenant \in tenants
               /\ audit[answer[r].tenant].status = "done"
               /\ answer[r].tenant # r => answer[r].tenant \in Done(body[r].key)
    <3>1. PICK q \in Request : q = answer[r].tenant
      BY <2>1, <2>3
    <3>2. audit[q].status = "done" /\ (q # r => body[r].key # None /\ body[q].key = body[r].key)
      BY <3>1 DEF IInv, AnswerInv
    <3>3. q \in tenants
      BY <3>2 DEF IInv, AttemptInv
    <3>4. QED
      BY <3>1, <3>2, <3>3 DEF Done, Prior
  <2>4. QED
    BY <2>2, <2>3
<1>2. QED
  BY <1>1, Invariant, PTL

\* However acceptances of one invitation overlap or stop half-way, one of them
\* succeeds at most, and it leaves an account and a membership.
THEOREM Accepted == Spec => []AcceptedOnce
<1>1. IInv => AcceptedOnce
  BY DEF IInv, AcceptInv, AcceptedOnce
<1>2. QED
  BY <1>1, Invariant, PTL

-----------------------------------------------------------------------------
(* A step of the form is a step of provisioning or leaves it alone.        *)

LEMMA FormStepRefines == FormNext => [Next]_vars
  BY DEF FormNext, edit, acknowledgeCredential, resetForm, submit, Arrive, SignUp,
         Receive, NetworkError, Server, Next

\* Every behaviour of the form and its server is one of TenantProvisioning.
THEOREM FormImplementsProvisioning == FormSpec => Spec
<1>1. FormInit => Init
  BY DEF FormInit
<1>2. [FormNext]_allVars => [Next]_vars
  BY FormStepRefines DEF allVars
<1>3. QED
  BY <1>1, <1>2, PTL DEF FormSpec, Spec

-----------------------------------------------------------------------------
(* What the steps of the server leave alone.                               *)

LEMMA SubmitFrame ==
  ASSUME TypeInv, NEW r \in Request, Submit(r)
  PROVE  /\ pc[r] = "idle" /\ pc'[r] # "idle"
         /\ \A q \in Request \ {r} :
                pc'[q] = pc[q] /\ body'[q] = body[q] /\ answer'[q] = answer[q]
  BY DEF Submit, TypeInv, TypeOK

LEMMA ServerFrame ==
  ASSUME TypeInv, Server
  PROVE  /\ UNCHANGED formVars
         /\ body' = body
         /\ \A q \in Request : pc'[q] # "idle" => pc[q] # "idle"
         /\ \A q \in Request : pc[q] = "answered" =>
                pc'[q] = "answered" /\ answer'[q] = answer[q]
<1> USE DEF TypeInv, TypeOK, Goto, dbVars, requestVars, acceptVars, InFlight
<1> DEFINE Frame == /\ body' = body
                    /\ \A q \in Request : pc'[q] # "idle" => pc[q] # "idle"
                    /\ \A q \in Request : pc[q] = "answered" =>
                           pc'[q] = "answered" /\ answer'[q] = answer[q]
<1>1. ASSUME NEW r \in Request, Provision(r) PROVE Frame
  <2>1. CASE LookUp(r)
    BY <2>1 DEF LookUp
  <2>2. CASE Preflight(r) \/ OpenAuditRow(r) \/ Collide(r) \/ CreateTenant(r)
             \/ CreateTenantFails(r) \/ FailAuditRow(r)
    BY <2>2 DEF Preflight, OpenAuditRow, Collide, CreateTenant, CreateTenantFails, FailAuditRow
  <2>3. CASE CreateInvitation(r) \/ CreateInvitationFails(r) \/ EnqueueInvite(r)
             \/ EnqueueInviteFails(r)
    BY <2>3 DEF CreateInvitation, CreateInvitationFails, EnqueueInvite, EnqueueInviteFails
  <2>4. CASE CloseAuditRow(r)
    BY <2>4 DEF CloseAuditRow
  <2>5. QED
    BY <1>1, <2>1, <2>2, <2>3, <2>4 DEF Provision
<1>2. ASSUME NEW r \in Request, Dies(r) PROVE Frame
  BY <1>2 DEF Dies
<1>3. ASSUME NEW a \in Acceptor, Accept(a) \/ AcceptDies(a) PROVE Frame
  BY <1>3 DEF Accept, AcceptRead, AcceptFindUser, AcceptInsertUser, AcceptCheckMember,
              AcceptInsertMember, AcceptStamp, AcceptDies
<1>4. QED
  BY <1>1, <1>2, <1>3 DEF Server

-----------------------------------------------------------------------------
FormInv ==
    /\ IInv
    /\ FormTypeOK /\ WaitingInv /\ KeyInv /\ BodyInv /\ SuccessInv

LEMMA FormInvInit == FormInit => FormInv
<1> SUFFICES ASSUME FormInit PROVE FormInv
  OBVIOUS
<1>1. IInv
  BY InvInit DEF FormInit
<1>2. FormTypeOK
  BY FormAssumption DEF FormInit, FormTypeOK, EmptyForm, Inputs
<1>3. WaitingInv /\ KeyInv /\ SuccessInv
  BY DEF FormInit, WaitingInv, KeyInv, SuccessInv, SameKey
<1>4. BodyInv
  BY DEF FormInit, BodyInv, Init
<1>5. QED
  BY <1>1, <1>2, <1>3, <1>4 DEF FormInv

\* The server's own steps.
LEMMA ServerStep ==
  ASSUME FormInv, UNCHANGED formVars,
         \/ Server
         \/ \E r \in Request : Arrive(r) \/ SignUp(r)
         \/ UNCHANGED vars
  PROVE  FormTypeOK' /\ WaitingInv' /\ KeyInv' /\ BodyInv' /\ SuccessInv'
<1>1. FormTypeOK' /\ WaitingInv' /\ KeyInv'
  BY DEF formVars, FormInv, FormTypeOK, WaitingInv, KeyInv, SameKey
<1>2. TypeInv
  BY DEF FormInv, IInv
<1>3. CASE Server
  BY <1>1, <1>2, <1>3, ServerFrame DEF FormInv, BodyInv, SuccessInv, formVars
<1>4. ASSUME NEW r \in Request, Arrive(r) \/ SignUp(r) PROVE BodyInv' /\ SuccessInv'
  <2>1. Submit(r)
    BY <1>4 DEF Arrive, SignUp
  <2>2. /\ pc[r] = "idle" /\ pc'[r] # "idle"
        /\ \A q \in Request \ {r} :
               pc'[q] = pc[q] /\ body'[q] = body[q] /\ answer'[q] = answer[q]
    BY <1>2, <2>1, SubmitFrame
  <2>3. IF post[r] = None THEN body'[r].key = None ELSE body'[r] = post[r].body
    BY <1>4 DEF Arrive, SignUp, Unsent
  <2>4. post' = post /\ success' = success
    BY DEF formVars
  <2>5. BodyInv'
    BY <2>2, <2>3, <2>4 DEF FormInv, BodyInv
  <2>6. SuccessInv'
    BY <2>2, <2>4 DEF FormInv, SuccessInv
  <2>7. QED
    BY <2>5, <2>6
<1>5. CASE UNCHANGED vars
  <2>1. pc' = pc /\ body' = body /\ answer' = answer /\ post' = post /\ success' = success
    BY <1>5 DEF formVars, vars, requestVars
  <2>2. BodyInv'
    BY <2>1 DEF FormInv, BodyInv
  <2>3. SuccessInv'
    BY <2>1 DEF FormInv, SuccessInv
  <2>4. QED
    BY <1>1, <2>2, <2>3
<1>6. QED
  BY <1>1, <1>3, <1>4, <1>5

\* The administrator's steps that send nothing.
LEMMA EditStep ==
  ASSUME FormInv, edit \/ acknowledgeCredential \/ resetForm
  PROVE  FormTypeOK' /\ WaitingInv' /\ KeyInv' /\ BodyInv' /\ SuccessInv'
<1> USE DEF FormInv, vars, requestVars
<1>1. CASE edit
  <2>1. FormTypeOK' /\ KeyInv' /\ BodyInv' /\ SuccessInv'
    BY <1>1 DEF edit, FormTypeOK, KeyInv, SameKey, BodyInv, SuccessInv
  <2>2. WaitingInv'
    BY <1>1 DEF edit, Enabled, submitting, WaitingInv
  <2>3. QED
    BY <2>1, <2>2
<1>2. CASE acknowledgeCredential
  <2>1. success \in Success
    BY <1>2 DEF acknowledgeCredential, FormTypeOK
  <2>2. success' = [success EXCEPT !.password = FALSE] /\ success' \in Success
    BY <1>2, <2>1 DEF acknowledgeCredential, Success
  <2>3. success' # None
    BY <2>2, FormAssumption
  <2>4. FormTypeOK' /\ KeyInv' /\ BodyInv'
    BY <1>2, <2>2 DEF acknowledgeCredential, FormTypeOK, KeyInv, SameKey, BodyInv
  <2>5. WaitingInv'
    BY <1>2 DEF acknowledgeCredential, WaitingInv
  <2>6. SuccessInv'
    BY <1>2, <2>1, <2>2, <2>3 DEF acknowledgeCredential, SuccessInv, Success
  <2>7. QED
    BY <2>4, <2>5, <2>6
<1>3. CASE resetForm
  <2>1. FormTypeOK'
    BY <1>3, FormAssumption DEF resetForm, FormTypeOK, EmptyForm, Inputs
  <2>2. KeyInv' /\ BodyInv' /\ SuccessInv'
    BY <1>3 DEF resetForm, KeyInv, SameKey, BodyInv, SuccessInv
  <2>3. WaitingInv'
    BY <1>3 DEF resetForm, WaitingInv
  <2>4. QED
    BY <2>1, <2>2, <2>3
<1>4. QED
  BY <1>1, <1>2, <1>3

\* A POST is made.
LEMMA PostStep ==
  ASSUME FormInv, NEW r \in Request, submit(r)
  PROVE  FormTypeOK' /\ WaitingInv' /\ KeyInv' /\ BodyInv' /\ SuccessInv'
<1> DEFINE made == [body |-> [key |-> idem', email |-> form.email,
                              seats |-> form.seats, generated |-> form.auto],
                    fate |-> "waiting"]
<1> USE DEF FormInv
<1>1. /\ post' = [post EXCEPT ![r] = made] /\ post[r] = None /\ pc[r] = "idle"
      /\ form' = form /\ success' = success /\ success = None /\ reuseKey' = FALSE
      /\ form.email # None
      /\ \A q \in Request : post[q] = None \/ post[q].fate # "waiting"
      /\ UNCHANGED vars
  <2>1. /\ post' = [post EXCEPT ![r] = made] /\ post[r] = None /\ pc[r] = "idle"
        /\ form' = form /\ success' = success /\ reuseKey' = FALSE /\ UNCHANGED vars
    BY DEF submit, Unsent
  <2>2. success = None /\ form.email # None /\ ~submitting
    BY DEF submit, canSubmit, Enabled
  <2>3. \A q \in Request : post[q] = None \/ post[q].fate # "waiting"
    BY <2>2 DEF submitting
  <2>4. QED
    BY <2>1, <2>2, <2>3
<1>2. idem' \in KeyToUse
  BY DEF submit
<1>3. idem' \in Key /\ idem' # None
  BY <1>2, ProvisioningAssumption DEF KeyToUse, FreshKey, FormTypeOK
<1>4. made \in Posted
  BY <1>1, <1>3 DEF Posted, Body, FormTypeOK, Inputs
<1>5. made # None
  BY <1>4, FormAssumption
<1>6. \A q \in Request : post'[q] = IF q = r THEN made ELSE post[q]
  BY <1>1 DEF FormTypeOK
<1>7. FormTypeOK'
  BY <1>1, <1>3, <1>4 DEF FormTypeOK
<1>8. \A q \in Request : post[q] # None /\ post[q].body.key = idem' => post[q].fate = "lost"
  <2>1. SUFFICES ASSUME NEW q \in Request, post[q] # None, post[q].body.key = idem'
                 PROVE  post[q].fate = "lost"
    OBVIOUS
  <2>2. idem' = idem
    BY <1>2, <2>1 DEF KeyToUse, FreshKey
  <2>3. post[q] \in Posted /\ post[q].fate # "heard"
    BY <2>1, <2>2 DEF KeyInv, FormTypeOK
  <2>4. QED
    BY <1>1, <2>1, <2>3 DEF Posted
<1>9. WaitingInv'
  BY <1>1, <1>6 DEF WaitingInv
<1>10. KeyInv'
  BY <1>1, <1>3, <1>6, <1>8 DEF KeyInv, SameKey
<1>11. BodyInv'
  BY <1>1, <1>6 DEF BodyInv, vars, requestVars
<1>12. SuccessInv'
  BY <1>1 DEF SuccessInv
<1>13. QED
  BY <1>7, <1>9, <1>10, <1>11, <1>12

\* The fetch of a POST returns.
LEMMA ReturnStep ==
  ASSUME FormInv, NEW r \in Request, Receive(r) \/ NetworkError(r)
  PROVE  FormTypeOK' /\ WaitingInv' /\ KeyInv' /\ BodyInv' /\ SuccessInv'
<1> USE DEF FormInv
<1> DEFINE fate == post'[r].fate
<1>1. /\ post[r] # None /\ post[r].fate = "waiting" /\ form' = form /\ UNCHANGED vars
      /\ post' = [post EXCEPT ![r].fate = "heard"] \/ post' = [post EXCEPT ![r].fate = "lost"]
  BY DEF Receive, NetworkError, Fate
<1>2. post[r] \in Posted
  BY <1>1 DEF FormTypeOK
<1>3. /\ post'[r] \in Posted /\ post'[r].body = post[r].body
      /\ fate \in {"heard", "lost"}
      /\ \A q \in Request \ {r} : post'[q] = post[q]
      /\ post' \in [Request -> Posted \cup {None}]
  BY <1>1, <1>2 DEF Posted, FormTypeOK
<1>4. post'[r] # None
  BY <1>3, FormAssumption
<1>5. /\ idem = post[r].body.key /\ form.email = post[r].body.email /\ success = None
      /\ \A q \in Request \ {r} : post[q] = None \/ post[q].fate # "waiting"
  BY <1>1 DEF WaitingInv
<1>6. WaitingInv'
  BY <1>3, <1>5 DEF WaitingInv
<1>7. \A q \in Request \ {r} : post[q] # None /\ post[q].body.key = idem => post[q].fate = "lost"
  <2>1. SUFFICES ASSUME NEW q \in Request \ {r}, post[q] # None, post[q].body.key = idem
                 PROVE  post[q].fate = "lost"
    OBVIOUS
  <2>2. post[q] \in Posted /\ post[q].fate # "heard"
    BY <2>1 DEF KeyInv, FormTypeOK
  <2>3. QED
    BY <1>5, <2>1, <2>2 DEF Posted
<1>8. BodyInv'
  BY <1>1, <1>3, <1>4 DEF BodyInv, vars, requestVars
<1>11. (idem' = idem /\ fate = "lost") \/ idem' = None => KeyInv'
  <2> SUFFICES ASSUME (idem' = idem /\ fate = "lost") \/ idem' = None PROVE KeyInv'
    OBVIOUS
  <2>1. \A p \in Request : post'[p] # None => post'[p].body.key # None
    BY <1>1, <1>3 DEF KeyInv
  <2>2. \A p \in Request : post'[p] # None /\ post'[p].body.key = idem' => post'[p].fate # "heard"
    BY <2>1, <1>3, <1>7
  <2>3. ASSUME NEW p \in Request, NEW q \in Request, SameKey(p, q)', post'[p].fate = "heard", p # q
        PROVE  post'[q].fate = "lost"
    <3>1. SameKey(p, q) /\ (q # r => post'[q] = post[q])
      BY <1>1, <1>3, <2>3 DEF SameKey
    <3>2. CASE p = r
      BY <1>3, <1>5, <1>7, <2>3, <3>1, <3>2 DEF SameKey
    <3>3. CASE p # r
      BY <1>1, <1>3, <2>3, <3>1, <3>3 DEF KeyInv
    <3>4. QED
      BY <3>2, <3>3
  <2>4. QED
    BY <2>1, <2>2, <2>3 DEF KeyInv
<1>9. CASE NetworkError(r)
  <2>1. idem' = idem /\ success' = success /\ reuseKey' = TRUE /\ post'[r].fate = "lost"
    BY <1>9, <1>2, <1>1 DEF NetworkError, Fate, FormTypeOK
  <2>2. FormTypeOK' /\ SuccessInv'
    BY <1>1, <1>3, <1>5, <2>1 DEF FormTypeOK, SuccessInv
  <2>3. KeyInv'
    BY <2>1, <1>11
  <2>4. QED
    BY <1>6, <1>8, <2>2, <2>3
<1>10. CASE Receive(r)
  <2>1. idem' = None /\ reuseKey' = FALSE
    BY <1>10 DEF Receive
  <2>2. KeyInv'
    BY <2>1, <1>11
  <2>3. CASE answer[r].tenant = None
    <3>1. success' = success
      BY <1>10, <2>3 DEF Receive
    <3>2. FormTypeOK' /\ SuccessInv'
      BY <1>1, <1>3, <1>5, <2>1, <3>1 DEF FormTypeOK, SuccessInv
    <3>3. QED
      BY <1>6, <1>8, <2>2, <3>2
  <2>4. CASE answer[r].tenant # None
    <3>1. PICK shown \in {answer[r], NoAnswer} :
             success' = [tenant |-> shown.tenant, email |-> form.email,
                         password |-> shown.password, by |-> r]
      BY <1>10, <2>4 DEF Receive
    <3>2. answer[r] \in Answer /\ NoAnswer \in Answer
      BY DEF IInv, TypeInv, TypeOK, Answer, NoAnswer
    <3>3. form.email \in Email
      BY <1>2, <1>5 DEF Posted, Body
    <3>4. success' \in Success
      BY <3>1, <3>2, <3>3 DEF Success, Answer
    <3>5. pc[r] = "answered"
      BY <2>4 DEF IInv, AnswerInv
    <3>6. shown.tenant = None \/ shown = answer[r]
      BY <3>1 DEF NoAnswer
    <3>7. FormTypeOK'
      BY <1>1, <1>3, <2>1, <3>4 DEF FormTypeOK
    <3>8. SuccessInv'
      BY <1>1, <1>3, <1>4, <1>5, <3>1, <3>5, <3>6 DEF SuccessInv, vars, requestVars
    <3>9. QED
      BY <1>6, <1>8, <2>2, <3>7, <3>8
  <2>5. QED
    BY <2>3, <2>4
<1>12. QED
  BY <1>9, <1>10

LEMMA FormInvStep == FormInv /\ [FormNext]_allVars => FormInv'
<1> SUFFICES ASSUME FormInv, [FormNext]_allVars PROVE FormInv'
  OBVIOUS
<1>1. IInv'
  <2>1. [Next]_vars
    BY FormStepRefines DEF allVars
  <2>2. QED
    BY <2>1, InvStep DEF FormInv
<1>2. FormTypeOK' /\ WaitingInv' /\ KeyInv' /\ BodyInv' /\ SuccessInv'
  <2>1. CASE edit \/ acknowledgeCredential \/ resetForm
    BY <2>1, EditStep
  <2>2. CASE \E r \in Request : submit(r)
    BY <2>2, PostStep
  <2>3. CASE \E r \in Request : Receive(r) \/ NetworkError(r)
    BY <2>3, ReturnStep
  <2>4. CASE Server \/ (\E r \in Request : Arrive(r) \/ SignUp(r))
    <3>1. UNCHANGED formVars
      BY <2>4 DEF Server, Arrive, SignUp
    <3>2. QED
      BY <2>4, <3>1, ServerStep
  <2>5. CASE UNCHANGED allVars
    BY <2>5, ServerStep DEF allVars
  <2>6. QED
    BY <2>1, <2>2, <2>3, <2>4, <2>5 DEF FormNext
<1>3. QED
  BY <1>1, <1>2 DEF FormInv

LEMMA FormInvariant == FormSpec => []FormInv
  BY FormInvInit, FormInvStep, PTL DEF FormSpec

-----------------------------------------------------------------------------
\* A key serves one answer, however many of its POSTs were given up.
THEOREM KeyServesOnce == FormSpec => []KeyIsForOneAnswer
<1>1. FormInv => KeyIsForOneAnswer
  BY DEF FormInv, KeyInv, KeyIsForOneAnswer, SameKey
<1>2. QED
  BY <1>1, FormInvariant, PTL

\* The success view tells of a tenant, an admin and a password that are there.
THEOREM ShownIsTrue == FormSpec => []SuccessIsTrue
<1>1. FormInv => SuccessIsTrue
  <2> DEFINE r == success.by
             q == success.tenant
             tries == {p \in Request : SameKey(r, p)}
  <2> SUFFICES ASSUME FormInv, success # None, q # None
               PROVE  /\ q \in tenants
                      /\ \/ body[q].email = success.email
                         \/ \E p \in tries : ~SameBody(post[p].body, post[r].body)
                      /\ success.password /\ tries = {r} => users[success.email] = r
    BY DEF SuccessIsTrue
  <2>1. /\ r \in Request /\ post[r] # None /\ pc[r] = "answered"
        /\ success.email = post[r].body.email /\ q = answer[r].tenant
    BY DEF FormInv, SuccessInv
  <2>2. q \in Request
    BY <2>1 DEF FormInv, FormTypeOK, Success
  <2>3. audit[q].status = "done"
    BY <2>1, <2>2 DEF FormInv, IInv, AnswerInv
  <2>4. q \in tenants /\ pc[q] = "answered"
    BY <2>2, <2>3 DEF FormInv, IInv, AttemptInv
  <2>5. body[r] = post[r].body
    BY <2>1 DEF FormInv, BodyInv
  <2>6. CASE q = r
    <3>1. body[q].email = success.email
      BY <2>1, <2>5, <2>6
    <3>2. users[success.email] = r
      BY <2>4, <2>6, <3>1 DEF FormInv, IInv, UniqueInv
    <3>3. QED
      BY <2>4, <3>1, <3>2
  <2>7. CASE q # r
    <3>1. body[r].key # None /\ body[q].key = body[r].key
      BY <2>1, <2>2, <2>7 DEF FormInv, IInv, AnswerInv
    <3>2. post[q] # None /\ body[q] = post[q].body
      BY <2>2, <2>4, <3>1 DEF FormInv, BodyInv
    <3>3. q \in tries
      BY <2>1, <2>2, <2>5, <3>1, <3>2 DEF SameKey
    <3>4. CASE SameBody(post[q].body, post[r].body)
      <4>1. post[q].body \in Body /\ post[r].body \in Body
        BY <2>1, <2>2, <3>2 DEF FormInv, FormTypeOK, Posted
      <4>2. post[q].body.email = post[r].body.email
        BY <3>4, <4>1 DEF SameBody, Body
      <4>3. QED
        BY <2>1, <2>4, <2>7, <3>2, <3>3, <4>2
    <3>5. QED
      BY <2>4, <2>7, <3>3, <3>4
  <2>8. QED
    BY <2>6, <2>7
<1>2. QED
  BY <1>1, FormInvariant, PTL
=============================================================================
