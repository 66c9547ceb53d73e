------------------------- MODULE NotificationProofs -------------------------
(* The e-mail ledger of NotificationOutbox agrees with the outbox in every   *)
(* interleaving of any number of cron runs, whenever they die; and while     *)
(* they neither overlap nor die nobody is e-mailed twice.                    *)
EXTENDS MCNotificationOutbox, TLAPS

LEMMA InitInv == Init => TypeOK /\ OutboxInv
<1> SUFFICES ASSUME Init PROVE TypeOK /\ OutboxInv
  OBVIOUS
<1>1. TypeOK
  BY OutboxAssumption DEF Init, TypeOK, MailStatus, Mail
<1>2. OutboxInv
  BY DEF Init, OutboxInv, LedgerInv, ServedInv, UnservedInv, AtHandInv, Served, Sweeping, Draining, Mail
<1>3. QED
  BY <1>1, <1>2

LEMMA StatusType == \A d \in Int : Status(d) \in Levels \cup {"ok"}
  BY DEF Status, Levels

LEMMA NextType == TypeOK /\ OutboxInv /\ [Next]_vars => TypeOK'
<1> SUFFICES ASSUME TypeOK, OutboxInv, [Next]_vars PROVE TypeOK'
  OBVIOUS
<1> USE DEF Levels
<1>1. CASE Tick
  BY <1>1, OutboxAssumption DEF Tick, TypeOK
<1>2. ASSUME NEW r \in Run, Cron(r) PROVE TypeOK'
  <2>1. CASE SweepBegin(r)
    BY <2>1 DEF SweepBegin, Goto, TypeOK, Sweeping
  <2>2. CASE EnqueueEmail(r)
    BY <2>2 DEF EnqueueEmail, Goto, TypeOK, Sweeping, Mail, MailStatus
  <2>3. CASE SkipEmail(r)
    BY <2>3 DEF SkipEmail, Goto, TypeOK, Sweeping
  <2>4. CASE InsertNotification(r)
    <3>1. cur[r] \in User
      BY <2>4 DEF InsertNotification, Goto, OutboxInv, AtHandInv, TypeOK
    <3>2. [mail |-> IF WantsEmail(r, cur[r]) THEN r ELSE None] \in [mail: Run \cup {None}]
      OBVIOUS
    <3>3. QED
      BY <2>4, <3>1, <3>2 DEF InsertNotification, Goto, TypeOK, Sweeping, NextUser
  <2>5. CASE NotificationExists(r)
    <3>1. pc' \in [Run -> Sweeping \cup Draining \cup {"idle", "done", "dead"}]
      BY <2>5 DEF NotificationExists, Goto, TypeOK, Sweeping
    <3>2. todo' \in [Run -> SUBSET User] /\ cur' \in [Run -> User \cup {None}]
      <4>1. UNCHANGED <<todo, cur>> \/ NextUser(r)
        BY <2>5 DEF NotificationExists
      <4>2. QED
        BY <4>1 DEF NextUser, TypeOK
    <3>3. QED
      BY <2>5, <3>1, <3>2 DEF NotificationExists, TypeOK
  <2>6. CASE UndoEmail(r)
    BY <2>6 DEF UndoEmail, Goto, TypeOK, Sweeping, NextUser, MailStatus
  <2>7. CASE DrainSelect(r)
    BY <2>7 DEF DrainSelect, Pending, Goto, TypeOK, Draining
  <2>8. CASE Send(r)
    <3>1. pc' \in [Run -> Sweeping \cup Draining \cup {"idle", "done", "dead"}]
      BY <2>8 DEF Send, TypeOK, Draining
    <3>2. owner' \in [Run -> Run \cup {None}] /\ cur' \in [Run -> User \cup {None}]
      BY <2>8 DEF Send, TypeOK
    <3>3. \A u \in User, l \in {"due_soon", "overdue", "ok"} :
             [sent EXCEPT ![u][l] = @ + 1] \in [User -> [{"due_soon", "overdue"} -> Nat]]
      <4> SUFFICES ASSUME NEW u \in User, NEW l \in {"due_soon", "overdue", "ok"}
                   PROVE  [sent[u] EXCEPT ![l] = @ + 1] \in [{"due_soon", "overdue"} -> Nat]
        BY DEF TypeOK
      <4>1. sent[u] \in [{"due_soon", "overdue"} -> Nat]
        BY DEF TypeOK
      <4>2. CASE l \in {"due_soon", "overdue"}
        BY <4>1, <4>2
      <4>3. CASE l = "ok"
        <5>1. \A n : [sent[u] EXCEPT !["ok"] = n] \in [{"due_soon", "overdue"} -> Nat]
          BY <4>1
        <5>2. QED
          BY <4>3, <5>1
      <4>4. QED
        BY <4>2, <4>3
    <3>4. \A q \in Run : Level(q) \in {"due_soon", "overdue", "ok"}
      BY DEF Level, Status
    <3>5. PICK q \in Run, u \in User : sent' \in {sent, [sent EXCEPT ![u][Level(q)] = @ + 1]}
      BY <2>8 DEF Send
    <3>6. sent' \in [User -> [{"due_soon", "overdue"} -> Nat]]
      BY <3>3, <3>4, <3>5 DEF TypeOK
    <3>7. QED
      BY <2>8, <3>1, <3>2, <3>6 DEF Send, TypeOK
  <2>9. CASE MarkSent(r) \/ MarkFailed(r)
    <3>1. owner[r] \in Run /\ cur[r] \in User
      BY <2>9 DEF MarkSent, MarkFailed, Goto, OutboxInv, AtHandInv
    <3>2. PICK status \in {"sent", "failed"} : Mark(r, status)
      BY <2>9 DEF MarkSent, MarkFailed
    <3>3. outbox' \in [Run -> [User -> MailStatus]]
      BY <3>1, <3>2 DEF Mark, TypeOK, MailStatus
    <3>4. batch' \in [Run -> SUBSET Mail] /\ owner' \in [Run -> Run \cup {None}]
            /\ cur' \in [Run -> User \cup {None}]
      BY <3>2 DEF Mark, NextMail, TypeOK
    <3>5. pc' \in [Run -> Sweeping \cup Draining \cup {"idle", "done", "dead"}]
      BY <2>9 DEF MarkSent, MarkFailed, Goto, TypeOK, Draining
    <3>6. QED
      BY <2>9, <3>3, <3>4, <3>5 DEF MarkSent, MarkFailed, TypeOK
  <2>10. CASE MarkSentThrows(r) \/ DrainDone(r)
    BY <2>10 DEF MarkSentThrows, DrainDone, Goto, TypeOK, Draining
  <2>11. QED
    BY <1>2, <2>1, <2>2, <2>3, <2>4, <2>5, <2>6, <2>7, <2>8, <2>9, <2>10 DEF Cron
<1>3. ASSUME NEW r \in Run, Dies(r) PROVE TypeOK'
  BY <1>3 DEF Dies, TypeOK
<1>4. CASE UNCHANGED vars
  BY <1>4 DEF vars, TypeOK
<1>5. QED
  BY <1>1, <1>2, <1>3, <1>4 DEF Next

\* Nothing is taken from the ledger and no e-mail of a served user disappears.
LEMMA LedgerFrame ==
  ASSUME LedgerInv, UNCHANGED notes,
         \A q \in Run, u \in User : Served(q, u) /\ outbox[q][u] # "none" =>
            Served(q, u)' /\ outbox'[q][u] # "none"
  PROVE  LedgerInv'
  BY DEF LedgerInv

LEMMA NextInv == TypeOK /\ OutboxInv /\ [Next]_vars => OutboxInv'
<1> SUFFICES ASSUME TypeOK, OutboxInv, [Next]_vars PROVE OutboxInv'
  OBVIOUS
<1> USE DEF OutboxInv, Served, Level, Goto, Sweeping, Draining, WantsEmail, Mail
<1>1. CASE Tick
  BY <1>1 DEF Tick, LedgerInv, ServedInv, UnservedInv, AtHandInv
<1>2. ASSUME NEW r \in Run, Cron(r) PROVE OutboxInv'
  <2>1. CASE SweepBegin(r)
    <3>1. LedgerInv'
      <4>1. \A q \in Run, u \in User : Served(q, u) /\ outbox[q][u] # "none" =>
               Served(q, u)' /\ outbox'[q][u] # "none"
        BY <2>1 DEF SweepBegin, UnservedInv, AtHandInv, TypeOK
      <4>2. QED
        BY <2>1, <4>1, LedgerFrame DEF SweepBegin
    <3>2. ServedInv'
      BY <2>1 DEF SweepBegin, ServedInv, UnservedInv, TypeOK
    <3>3. UnservedInv'
      BY <2>1 DEF SweepBegin, UnservedInv, TypeOK
    <3>4. AtHandInv'
      BY <2>1 DEF SweepBegin, AtHandInv, TypeOK
    <3>5. QED
      BY <3>1, <3>2, <3>3, <3>4
  <2>2. CASE EnqueueEmail(r)
    <3>1. LedgerInv'
      <4>1. \A q \in Run, u \in User : Served(q, u) /\ outbox[q][u] # "none" =>
               Served(q, u)' /\ outbox'[q][u] # "none"
        BY <2>2 DEF EnqueueEmail, UnservedInv, AtHandInv, TypeOK
      <4>2. QED
        BY <2>2, <4>1, LedgerFrame DEF EnqueueEmail
    <3>2. ServedInv'
      BY <2>2 DEF EnqueueEmail, ServedInv, TypeOK
    <3>3. UnservedInv'
      BY <2>2 DEF EnqueueEmail, UnservedInv, TypeOK
    <3>4. AtHandInv'
      BY <2>2 DEF EnqueueEmail, AtHandInv, TypeOK
    <3>5. QED
      BY <3>1, <3>2, <3>3, <3>4
  <2>3. CASE SkipEmail(r)
    <3>1. LedgerInv'
      <4>1. \A q \in Run, u \in User : Served(q, u) /\ outbox[q][u] # "none" =>
               Served(q, u)' /\ outbox'[q][u] # "none"
        BY <2>3 DEF SkipEmail, TypeOK
      <4>2. QED
        BY <2>3, <4>1, LedgerFrame DEF SkipEmail
    <3>2. ServedInv'
      BY <2>3 DEF SkipEmail, ServedInv, TypeOK
    <3>3. UnservedInv'
      BY <2>3 DEF SkipEmail, UnservedInv, TypeOK
    <3>4. AtHandInv'
      BY <2>3 DEF SkipEmail, AtHandInv, TypeOK
    <3>5. QED
      BY <3>1, <3>2, <3>3, <3>4
  <2>4. CASE InsertNotification(r)
    <3>0. cur[r] \in User /\ cur[r] \in todo[r] /\ Level(r) \in Levels /\ Level(r) # "ok"
      BY <2>4 DEF InsertNotification, AtHandInv, TypeOK, Status, Levels
    <3>1. LedgerInv'
      <4> SUFFICES ASSUME NEW u \in User, NEW l \in Levels, NEW q \in Run,
                          notes'[u][l] # None, notes'[u][l].mail = q
                   PROVE  Served(q, u)' /\ outbox'[q][u] # "none"
        BY DEF LedgerInv
      <4>1. CASE u = cur[r] /\ l = Level(r)
        <5>1. notes'[u][l] = [mail |-> IF WantsEmail(r, cur[r]) THEN r ELSE None]
          BY <2>4, <3>0, <4>1 DEF InsertNotification, TypeOK
        <5>2. q = r /\ WantsEmail(r, cur[r])
          BY <5>1, OutboxAssumption
        <5>3. QED
          BY <2>4, <3>0, <4>1, <5>2 DEF InsertNotification, NextUser, AtHandInv, TypeOK
      <4>2. CASE ~(u = cur[r] /\ l = Level(r))
        <5>1. notes'[u][l] = notes[u][l]
          BY <2>4, <3>0, <4>2 DEF InsertNotification, TypeOK
        <5>2. Served(q, u) /\ outbox[q][u] # "none"
          BY <5>1 DEF LedgerInv
        <5>3. pc'[q] # "idle" /\ todo'[q] \subseteq todo[q] /\ outbox' = outbox
          BY <2>4, <5>2 DEF InsertNotification, NextUser, TypeOK
        <5>4. QED
          BY <5>2, <5>3
      <4>3. QED
        BY <4>1, <4>2
    <3>2. ServedInv'
      <4> SUFFICES ASSUME NEW q \in Run, NEW u \in User, Served(q, u)'
                   PROVE  /\ Level(q) # "ok" => notes'[u][Level(q)] # None
                          /\ outbox[q][u] # "none" =>
                               Level(q) # "ok" /\ notes'[u][Level(q)].mail = q
        BY <2>4 DEF ServedInv, InsertNotification
      <4>0. Level(q) # "ok" => Level(q) \in Levels
        BY DEF Status, Levels
      <4>1. CASE q = r /\ u = cur[r]
        <5>1. notes'[u][Level(r)] = [mail |-> IF WantsEmail(r, cur[r]) THEN r ELSE None]
          BY <2>4, <3>0, <4>1 DEF InsertNotification, TypeOK
        <5>2. outbox[q][u] # "none" => WantsEmail(r, u)
          BY <2>4, <3>0, <4>1 DEF InsertNotification, UnservedInv
        <5>3. [mail |-> IF WantsEmail(r, cur[r]) THEN r ELSE None] # None
          BY NoneIsNoRow DEF WantsEmail
        <5>4. QED
          BY <3>0, <4>1, <5>1, <5>2, <5>3
      <4>2. CASE ~(q = r /\ u = cur[r])
        <5>1. Served(q, u)
          BY <2>4, <4>2 DEF InsertNotification, NextUser, TypeOK
        <5>2. Level(q) # "ok" => notes[u][Level(q)] # None
          BY <5>1 DEF ServedInv
        <5>3. Level(q) # "ok" => notes'[u][Level(q)] = notes[u][Level(q)]
          BY <2>4, <3>0, <4>0, <5>2 DEF InsertNotification, TypeOK
        <5>4. QED
          BY <5>1, <5>2, <5>3 DEF ServedInv
      <4>3. QED
        BY <4>1, <4>2
    <3>3. UnservedInv'
      BY <2>4 DEF InsertNotification, UnservedInv, TypeOK, NextUser
    <3>4. AtHandInv'
      BY <2>4 DEF InsertNotification, AtHandInv, TypeOK, NextUser
    <3>5. QED
      BY <3>1, <3>2, <3>3, <3>4
  <2>5. CASE NotificationExists(r)
    <3>1. LedgerInv'
      <4>1. \A q \in Run, u \in User : Served(q, u) /\ outbox[q][u] # "none" =>
               Served(q, u)' /\ outbox'[q][u] # "none"
        BY <2>5 DEF NotificationExists, TypeOK, NextUser
      <4>2. QED
        BY <2>5, <4>1, LedgerFrame DEF NotificationExists
    <3>2. ServedInv'
      <4> SUFFICES ASSUME NEW q \in Run, NEW u \in User, Served(q, u)'
                   PROVE  /\ Level(q) # "ok" => notes[u][Level(q)] # None
                          /\ outbox[q][u] # "none" =>
                               Level(q) # "ok" /\ notes[u][Level(q)].mail = q
        BY <2>5 DEF ServedInv, NotificationExists
      <4>1. CASE Served(q, u)
        BY <4>1 DEF ServedInv
      <4>2. CASE ~Served(q, u)
        <5>1. q = r /\ u = cur[r] /\ ~WantsEmail(r, cur[r])
          BY <2>5, <4>2 DEF NotificationExists, NextUser, TypeOK
        <5>2. outbox[q][u] = "none"
          BY <2>5, <5>1 DEF NotificationExists, UnservedInv, AtHandInv
        <5>3. QED
          BY <2>5, <5>1, <5>2 DEF NotificationExists
      <4>3. QED
        BY <4>1, <4>2
    <3>3. UnservedInv'
      BY <2>5 DEF NotificationExists, UnservedInv, TypeOK, NextUser
    <3>4. AtHandInv'
      <4>1. CASE WantsEmail(r, cur[r])
        BY <2>5, <4>1 DEF NotificationExists, AtHandInv, TypeOK
      <4>2. CASE ~WantsEmail(r, cur[r])
        <5>1. NextUser(r) /\ pc' = [pc EXCEPT ![r] = "sweep"]
          BY <2>5, <4>2 DEF NotificationExists
        <5>2. \A q \in Run : q # r =>
                 /\ pc'[q] = pc[q] /\ todo'[q] = todo[q] /\ cur'[q] = cur[q]
          BY <5>1 DEF NextUser, TypeOK
        <5>3. pc'[r] = "sweep" /\ (todo[r] = {} => todo'[r] = {})
          BY <5>1 DEF NextUser, TypeOK
        <5>4. QED
          BY <2>5, <5>2, <5>3 DEF NotificationExists, AtHandInv
      <4>3. QED
        BY <4>1, <4>2
    <3>5. QED
      BY <3>1, <3>2, <3>3, <3>4
  <2>6. CASE UndoEmail(r)
    <3>1. LedgerInv'
      <4>1. \A q \in Run, u \in User : Served(q, u) /\ outbox[q][u] # "none" =>
               Served(q, u)' /\ outbox'[q][u] # "none"
        BY <2>6 DEF UndoEmail, UnservedInv, AtHandInv, TypeOK, NextUser
      <4>2. QED
        BY <2>6, <4>1, LedgerFrame DEF UndoEmail
    <3>2. ServedInv'
      <4> SUFFICES ASSUME NEW q \in Run, NEW u \in User, Served(q, u)'
                   PROVE  /\ Level(q) # "ok" => notes[u][Level(q)] # None
                          /\ outbox'[q][u] # "none" =>
                               Level(q) # "ok" /\ notes[u][Level(q)].mail = q
        BY <2>6 DEF ServedInv, UndoEmail
      <4>1. CASE Served(q, u)
        BY <2>6, <4>1 DEF ServedInv, UndoEmail, TypeOK
      <4>2. CASE ~Served(q, u)
        <5>1. q = r /\ u = cur[r]
          BY <2>6, <4>2 DEF UndoEmail, NextUser, TypeOK
        <5>2. outbox'[q][u] = "none"
          BY <2>6, <5>1 DEF UndoEmail, TypeOK
        <5>3. QED
          BY <2>6, <5>1, <5>2 DEF UndoEmail, AtHandInv
      <4>3. QED
        BY <4>1, <4>2
    <3>3. UnservedInv'
      BY <2>6 DEF UndoEmail, UnservedInv, TypeOK, NextUser
    <3>4. AtHandInv'
      BY <2>6 DEF UndoEmail, AtHandInv, TypeOK, NextUser
    <3>5. QED
      BY <3>1, <3>2, <3>3, <3>4
  <2>7. CASE DrainSelect(r)
    <3>1. LedgerInv'
      <4>1. \A q \in Run, u \in User : Served(q, u) /\ outbox[q][u] # "none" =>
               Served(q, u)' /\ outbox'[q][u] # "none"
        BY <2>7 DEF DrainSelect, TypeOK
      <4>2. QED
        BY <2>7, <4>1, LedgerFrame DEF DrainSelect
    <3>2. ServedInv'
      BY <2>7 DEF DrainSelect, ServedInv, TypeOK
    <3>3. UnservedInv'
      BY <2>7 DEF DrainSelect, UnservedInv, TypeOK
    <3>4. AtHandInv'
      BY <2>7 DEF DrainSelect, AtHandInv, TypeOK
    <3>5. QED
      BY <3>1, <3>2, <3>3, <3>4
  <2>8. CASE Send(r)
    <3>1. LedgerInv'
      <4>1. \A q \in Run, u \in User : Served(q, u) /\ outbox[q][u] # "none" =>
               Served(q, u)' /\ outbox'[q][u] # "none"
        BY <2>8 DEF Send, TypeOK
      <4>2. QED
        BY <2>8, <4>1, LedgerFrame DEF Send
    <3>2. ServedInv'
      BY <2>8 DEF Send, ServedInv, TypeOK
    <3>3. UnservedInv'
      BY <2>8 DEF Send, UnservedInv, TypeOK
    <3>4. AtHandInv'
      BY <2>8 DEF Send, AtHandInv, TypeOK
    <3>5. QED
      BY <3>1, <3>2, <3>3, <3>4
  <2>9. CASE MarkSent(r)
    <3>1. LedgerInv'
      <4>1. \A q \in Run, u \in User : Served(q, u) /\ outbox[q][u] # "none" =>
               Served(q, u)' /\ outbox'[q][u] # "none"
        BY <2>9 DEF MarkSent, TypeOK, Mark, NextMail
      <4>2. QED
        BY <2>9, <4>1, LedgerFrame DEF MarkSent
    <3>2. ServedInv'
      BY <2>9 DEF MarkSent, ServedInv, TypeOK, Mark, NextMail
    <3>3. UnservedInv'
      BY <2>9 DEF MarkSent, UnservedInv, TypeOK, Mark, NextMail
    <3>4. AtHandInv'
      BY <2>9 DEF MarkSent, AtHandInv, TypeOK, Mark, NextMail
    <3>5. QED
      BY <3>1, <3>2, <3>3, <3>4
  <2>10. CASE MarkFailed(r)
    <3>1. LedgerInv'
      <4>1. \A q \in Run, u \in User : Served(q, u) /\ outbox[q][u] # "none" =>
               Served(q, u)' /\ outbox'[q][u] # "none"
        BY <2>10 DEF MarkFailed, TypeOK, Mark, NextMail
      <4>2. QED
        BY <2>10, <4>1, LedgerFrame DEF MarkFailed
    <3>2. ServedInv'
      BY <2>10 DEF MarkFailed, ServedInv, TypeOK, Mark, NextMail
    <3>3. UnservedInv'
      BY <2>10 DEF MarkFailed, UnservedInv, TypeOK, Mark, NextMail
    <3>4. AtHandInv'
      BY <2>10 DEF MarkFailed, AtHandInv, TypeOK, Mark, NextMail
    <3>5. QED
      BY <3>1, <3>2, <3>3, <3>4
  <2>11. CASE MarkSentThrows(r)
    <3>1. LedgerInv'
      <4>1. \A q \in Run, u \in User : Served(q, u) /\ outbox[q][u] # "none" =>
               Served(q, u)' /\ outbox'[q][u] # "none"
        BY <2>11 DEF MarkSentThrows, TypeOK
      <4>2. QED
        BY <2>11, <4>1, LedgerFrame DEF MarkSentThrows
    <3>2. ServedInv'
      BY <2>11 DEF MarkSentThrows, ServedInv, TypeOK
    <3>3. UnservedInv'
      BY <2>11 DEF MarkSentThrows, UnservedInv, TypeOK
    <3>4. AtHandInv'
      BY <2>11 DEF MarkSentThrows, AtHandInv, TypeOK
    <3>5. QED
      BY <3>1, <3>2, <3>3, <3>4
  <2>12. CASE DrainDone(r)
    <3>1. LedgerInv'
      <4>1. \A q \in Run, u \in User : Served(q, u) /\ outbox[q][u] # "none" =>
               Served(q, u)' /\ outbox'[q][u] # "none"
        BY <2>12 DEF DrainDone, TypeOK
      <4>2. QED
        BY <2>12, <4>1, LedgerFrame DEF DrainDone
    <3>2. ServedInv'
      BY <2>12 DEF DrainDone, ServedInv, TypeOK
    <3>3. UnservedInv'
      BY <2>12 DEF DrainDone, UnservedInv, TypeOK
    <3>4. AtHandInv'
      BY <2>12 DEF DrainDone, AtHandInv, TypeOK
    <3>5. QED
      BY <3>1, <3>2, <3>3, <3>4
  <2>13. QED
    BY <1>2, <2>1, <2>2, <2>3, <2>4, <2>5, <2>6, <2>7, <2>8, <2>9, <2>10, <2>11, <2>12 DEF Cron
<1>3. ASSUME NEW r \in Run, Dies(r) PROVE OutboxInv'
  BY <1>3 DEF Dies, TypeOK, LedgerInv, ServedInv, UnservedInv, AtHandInv
<1>4. CASE UNCHANGED vars
  BY <1>4 DEF vars, LedgerInv, ServedInv, UnservedInv, AtHandInv
<1>5. QED
  BY <1>1, <1>2, <1>3, <1>4 DEF Next

\* Types, and the inductive invariant behind the two theorems below.
THEOREM OutboxInvariant == Spec => [](TypeOK /\ OutboxInv)
  BY InitInv, NextType, NextInv, PTL DEF Spec

\* The e-mail a notification names is never deleted, by whatever run.
THEOREM EmailKept == Spec => []LedgerKeepsItsEmail
<1>1. TypeOK /\ OutboxInv => LedgerKeepsItsEmail
  <2> SUFFICES ASSUME TypeOK, OutboxInv, NEW u \in User, NEW l \in Levels,
                      notes[u][l] # None, notes[u][l].mail # None
               PROVE  outbox[notes[u][l].mail][u] # "none"
    BY DEF LedgerKeepsItsEmail
  <2>1. notes[u][l].mail \in Run
    BY DEF TypeOK
  <2>2. QED
    BY <2>1 DEF OutboxInv, LedgerInv
<1>2. QED
  BY <1>1, OutboxInvariant, PTL

\* When a run's fan-out is over its e-mails are exactly those the ledger names.
THEOREM NoDrift == Spec => []LedgerAndOutboxAgree
<1>1. OutboxInv => LedgerAndOutboxAgree
  BY DEF OutboxInv, ServedInv, AtHandInv, Served, Draining, LedgerAndOutboxAgree
<1>2. QED
  BY <1>1, OutboxInvariant, PTL

-----------------------------------------------------------------------------
(* Runs that do not overlap.  What a drain has selected is pending, and only *)
(* the run at work has selected anything; ...                                *)
BatchInv ==
    \A r \in Run :
        /\ batch[r] # {} => pc[r] \in Draining
        /\ \A m \in batch[r] : outbox[m[1]][m[2]] = "pending"
        /\ pc[r] \in {"accepted", "refused"} => <<owner[r], cur[r]>> \in batch[r]

InHand(q, u) ==
    \E r \in Run : pc[r] \in {"accepted", "refused"} /\ owner[r] = q /\ cur[r] = u

\* ... and a message that went out is the one that the ledger names: it is
\* settled in the outbox, or about to be.
SentInv ==
    \A u \in User, l \in Levels : sent[u][l] # 0 =>
        /\ sent[u][l] = 1
        /\ \E q \in Run :
              /\ notes[u][l] # None /\ notes[u][l].mail = q
              /\ outbox[q][u] \in {"sent", "failed"} \/ InHand(q, u)

OnceInv == ~overlapped => OneRunAtATime /\ BatchInv /\ SentInv

LEMMA OnceInit == MCInit => OnceInv
  BY DEF MCInit, Init, OnceInv, OneRunAtATime, BatchInv, SentInv, Sweeping, Draining

\* What was sent stays named and settled, or is settled now.
LEMMA SentFrame ==
  ASSUME SentInv, UNCHANGED sent,
         \A u \in User, l \in Levels : notes[u][l] # None => notes'[u][l] = notes[u][l],
         \A u \in User, l \in Levels, q \in Run :
            notes[u][l] # None /\ notes[u][l].mail = q =>
               /\ outbox[q][u] \in {"sent", "failed"} => outbox'[q][u] \in {"sent", "failed"}
               /\ InHand(q, u) => InHand(q, u)' \/ outbox'[q][u] \in {"sent", "failed"}
  PROVE  SentInv'
<1> SUFFICES ASSUME NEW u \in User, NEW l \in Levels, sent[u][l] # 0
             PROVE  /\ sent[u][l] = 1
                    /\ \E q \in Run :
                          /\ notes'[u][l] # None /\ notes'[u][l].mail = q
                          /\ outbox'[q][u] \in {"sent", "failed"} \/ InHand(q, u)'
  BY DEF SentInv, InHand
<1>1. PICK q \in Run :
         /\ notes[u][l] # None /\ notes[u][l].mail = q
         /\ outbox[q][u] \in {"sent", "failed"} \/ InHand(q, u)
  BY DEF SentInv
<1>2. notes'[u][l] # None /\ notes'[u][l].mail = q
  BY <1>1
<1>3. outbox'[q][u] \in {"sent", "failed"} \/ InHand(q, u)'
  BY <1>1
<1>4. QED
  BY <1>2, <1>3 DEF SentInv

\* The e-mail of a user not served yet is not one that the ledger names.
LEMMA UnservedIsUnnamed ==
  ASSUME LedgerInv, NEW r \in Run, NEW u \in todo[r], NEW v \in User, NEW l \in Levels,
         notes[v][l] # None, notes[v][l].mail = r
  PROVE  v # u
  BY DEF LedgerInv, Served

LEMMA OnceStep ==
  ASSUME TypeOK, OutboxInv, OneRunAtATime, OneRunAtATime', BatchInv, SentInv, [Next]_vars
  PROVE  BatchInv' /\ SentInv'
<1> USE DEF Draining
<1>0. \A q \in Run, u \in User, l \in Levels :
         notes[u][l] # None /\ notes[u][l].mail = q => Served(q, u) /\ outbox[q][u] # "none"
  BY DEF OutboxInv, LedgerInv
<1>1. CASE Tick
  <2>1. BatchInv'
    BY <1>1 DEF Tick, BatchInv
  <2>2. SentInv'
    BY <1>1, SentFrame DEF Tick, InHand
  <2>3. QED
    BY <2>1, <2>2
<1>2. ASSUME NEW r \in Run, Cron(r) PROVE BatchInv' /\ SentInv'
  <2>a. pc[r] # "idle" => \A q \in Run \ {r} : pc[q] \in {"idle", "done"} /\ batch[q] = {}
    <3>1. SUFFICES ASSUME pc[r] # "idle", NEW q \in Run \ {r}
                   PROVE  pc[q] \in {"idle", "done"} /\ batch[q] = {}
      OBVIOUS
    <3>2. pc[r] \in Sweeping \cup Draining
      BY <1>2, <3>1 DEF Cron, SweepBegin, EnqueueEmail, SkipEmail, InsertNotification,
         NotificationExists, UndoEmail, DrainSelect, Send, MarkSent, MarkSentThrows,
         MarkFailed, DrainDone, Goto, Sweeping
    <3>3. pc[q] \in {"idle", "done"}
      BY <3>2 DEF OneRunAtATime, TypeOK
    <3>4. QED
      BY <3>3 DEF BatchInv
  <2>1. CASE SweepBegin(r)
    <3>1. BatchInv'
      BY <2>1 DEF SweepBegin, Goto, BatchInv, TypeOK
    <3>2. SentInv'
      BY <2>1, SentFrame DEF SweepBegin, Goto, InHand, TypeOK
    <3>3. QED
      BY <3>1, <3>2
  <2>2. CASE EnqueueEmail(r) \/ UndoEmail(r)
    <3>0. /\ pc[r] \in Sweeping /\ UNCHANGED <<batch, owner, notes, sent>>
          /\ pc'[r] \in Sweeping /\ \A q \in Run \ {r} : pc'[q] = pc[q] /\ outbox'[q] = outbox[q]
      BY <2>2 DEF EnqueueEmail, UndoEmail, Goto, Sweeping, TypeOK
    <3>1. BatchInv'
      BY <2>a, <3>0 DEF BatchInv, Sweeping
    <3>2. PICK u \in todo[r] : \A v \in User \ {u} : outbox'[r][v] = outbox[r][v]
      <4>1. CASE EnqueueEmail(r)
        BY <4>1 DEF EnqueueEmail, TypeOK
      <4>2. CASE UndoEmail(r)
        BY <4>2 DEF UndoEmail, Goto, OutboxInv, AtHandInv, TypeOK
      <4>3. QED
        BY <2>2, <4>1, <4>2
    <3>3. \A v \in User, l \in Levels, q \in Run :
             notes[v][l] # None /\ notes[v][l].mail = q => outbox'[q][v] = outbox[q][v]
      BY <3>0, <3>2, UnservedIsUnnamed DEF OutboxInv
    <3>4. \A q \in Run, v \in User : ~InHand(q, v)
      BY <2>a, <3>0 DEF InHand, Sweeping
    <3>5. SentInv'
      BY <3>0, <3>3, <3>4, SentFrame
    <3>6. QED
      BY <3>1, <3>5
  <2>3. CASE SkipEmail(r) \/ InsertNotification(r) \/ NotificationExists(r)
    <3>0. /\ pc[r] \in Sweeping /\ UNCHANGED <<batch, owner, outbox, sent>>
          /\ pc'[r] \in Sweeping /\ \A q \in Run \ {r} : pc'[q] = pc[q]
      BY <2>3 DEF SkipEmail, InsertNotification, NotificationExists, Goto, Sweeping, TypeOK
    <3>1. BatchInv'
      BY <2>a, <3>0 DEF BatchInv, Sweeping
    <3>2. \A u \in User, l \in Levels : notes[u][l] # None => notes'[u][l] = notes[u][l]
      <4>1. CASE InsertNotification(r)
        BY <4>1 DEF InsertNotification, TypeOK
      <4>2. QED
        BY <2>3, <4>1 DEF SkipEmail, NotificationExists
    <3>3. \A q \in Run, v \in User : ~InHand(q, v)
      BY <2>a, <3>0 DEF InHand, Sweeping
    <3>4. SentInv'
      BY <3>0, <3>2, <3>3, SentFrame
    <3>5. QED
      BY <3>1, <3>4
  <2>4. CASE DrainSelect(r)
    <3>0. /\ pc[r] = "sweep" /\ pc'[r] = "drain" /\ UNCHANGED <<owner, cur, outbox, notes, sent>>
          /\ \A q \in Run \ {r} : pc'[q] = pc[q] /\ batch'[q] = batch[q]
          /\ \A m \in batch'[r] : outbox[m[1]][m[2]] = "pending"
      BY <2>4 DEF DrainSelect, Pending, Goto, TypeOK
    <3>1. BatchInv'
      BY <2>a, <3>0 DEF BatchInv
    <3>2. \A q \in Run, v \in User : ~InHand(q, v)
      BY <2>a, <3>0 DEF InHand
    <3>3. SentInv'
      BY <3>0, <3>2, SentFrame
    <3>4. QED
      BY <3>1, <3>3
  <2>5. CASE Send(r)
    <3>1. PICK q \in Run, u \in User :
             /\ <<q, u>> \in batch[r]
             /\ owner' = [owner EXCEPT ![r] = q]
             /\ cur' = [cur EXCEPT ![r] = u]
             /\ pc' \in {[pc EXCEPT ![r] = "accepted"], [pc EXCEPT ![r] = "refused"]}
             /\ sent' \in {sent, [sent EXCEPT ![u][Level(q)] = @ + 1]}
      BY <2>5 DEF Send
    <3>2. /\ pc[r] = "drain" /\ pc'[r] \in {"accepted", "refused"}
          /\ owner'[r] = q /\ cur'[r] = u /\ UNCHANGED <<outbox, notes, batch>>
          /\ \A p \in Run \ {r} : pc'[p] = pc[p]
      BY <2>5, <3>1 DEF Send, TypeOK
    <3>3. BatchInv'
      BY <2>a, <3>1, <3>2 DEF BatchInv
    <3>4. \A p \in Run, v \in User : ~InHand(p, v)
      BY <2>a, <3>2 DEF InHand
    <3>5. outbox[q][u] = "pending"
      BY <3>1 DEF BatchInv
    <3>6. Served(q, u)
      BY <2>a, <3>2, <3>5 DEF OutboxInv, UnservedInv, AtHandInv, Served, TypeOK
    <3>7. /\ Level(q) \in Levels /\ notes[u][Level(q)] # None
          /\ notes[u][Level(q)].mail = q
      BY <3>5, <3>6 DEF OutboxInv, ServedInv, Level, Status, Levels
    <3>8. sent[u][Level(q)] = 0
      BY <3>4, <3>5, <3>7 DEF SentInv
    <3>9. SentInv'
      <4> SUFFICES ASSUME NEW v \in User, NEW l \in Levels, sent'[v][l] # 0
                   PROVE  /\ sent'[v][l] = 1
                          /\ \E p \in Run :
                                /\ notes[v][l] # None /\ notes[v][l].mail = p
                                /\ outbox[p][v] \in {"sent", "failed"} \/ InHand(p, v)'
        BY <3>2 DEF SentInv, InHand
      <4>1. CASE v = u /\ l = Level(q)
        <5>1. sent'[v][l] = 1
          BY <3>1, <3>7, <3>8, <4>1 DEF TypeOK
        <5>2. InHand(q, u)'
          BY <3>2 DEF InHand
        <5>3. QED
          BY <3>7, <4>1, <5>1, <5>2
      <4>2. CASE ~(v = u /\ l = Level(q))
        <5>1. sent'[v][l] = sent[v][l]
          BY <3>1, <3>7, <4>2 DEF TypeOK
        <5>2. QED
          BY <3>4, <5>1 DEF SentInv
      <4>3. QED
        BY <4>1, <4>2
    <3>10. QED
      BY <3>3, <3>9
  <2>6. CASE MarkSent(r) \/ MarkFailed(r)
    <3>1. PICK status \in {"sent", "failed"} : Mark(r, status)
      BY <2>6 DEF MarkSent, MarkFailed
    <3>2. /\ pc[r] \in {"accepted", "refused"} /\ pc'[r] = "drain"
          /\ UNCHANGED <<notes, sent>> /\ \A q \in Run \ {r} : pc'[q] = pc[q]
      BY <2>6 DEF MarkSent, MarkFailed, Goto, TypeOK
    <3>3. /\ <<owner[r], cur[r]>> \in batch[r] /\ outbox[owner[r]][cur[r]] = "pending"
          /\ owner[r] \in Run /\ cur[r] \in User
      <4>1. <<owner[r], cur[r]>> \in batch[r]
        BY <3>2 DEF BatchInv
      <4>2. \A m \in batch[r] : outbox[m[1]][m[2]] = "pending"
        BY DEF BatchInv
      <4>3. <<owner[r], cur[r]>> \in Run \X User
        BY <4>1 DEF TypeOK, Mail
      <4>4. QED
        BY <4>1, <4>2, <4>3
    <3>4. /\ outbox'[owner[r]][cur[r]] = status
          /\ \A q \in Run, u \in User : <<q, u>> # <<owner[r], cur[r]>> =>
                 outbox'[q][u] = outbox[q][u]
      BY <3>1, <3>3 DEF Mark, TypeOK
    <3>5. /\ batch'[r] = batch[r] \ {<<owner[r], cur[r]>>}
          /\ \A q \in Run \ {r} : batch'[q] = {}
      BY <2>a, <3>1, <3>2 DEF Mark, NextMail, TypeOK
    <3>6. BatchInv'
      <4>1. \A m \in batch'[r] : outbox'[m[1]][m[2]] = "pending"
        <5> SUFFICES ASSUME NEW m \in batch'[r] PROVE outbox'[m[1]][m[2]] = "pending"
          OBVIOUS
        <5>1. m \in batch[r] /\ m # <<owner[r], cur[r]>> /\ m[1] \in Run /\ m[2] \in User
                /\ m = <<m[1], m[2]>>
          BY <3>5 DEF TypeOK, Mail
        <5>2. outbox'[m[1]][m[2]] = outbox[m[1]][m[2]]
          BY <3>4, <5>1
        <5>3. QED
          BY <5>1, <5>2 DEF BatchInv
      <4>2. QED
        BY <2>a, <3>2, <3>5, <4>1 DEF BatchInv
    <3>7. SentInv'
      <4>1. \A q \in Run, u \in User : InHand(q, u) => q = owner[r] /\ u = cur[r]
        BY <2>a, <3>2 DEF InHand
      <4>2. QED
        BY <3>2, <3>3, <3>4, <4>1, SentFrame
    <3>8. QED
      BY <3>6, <3>7
  <2>7. CASE MarkSentThrows(r)
    <3>0. /\ pc[r] = "accepted" /\ pc'[r] = "refused"
          /\ UNCHANGED <<owner, cur, outbox, notes, sent, batch>>
          /\ \A q \in Run \ {r} : pc'[q] = pc[q]
      BY <2>7 DEF MarkSentThrows, Goto, TypeOK
    <3>1. BatchInv'
      BY <2>a, <3>0 DEF BatchInv
    <3>2. SentInv'
      BY <3>0, SentFrame DEF InHand
    <3>3. QED
      BY <3>1, <3>2
  <2>8. CASE DrainDone(r)
    <3>0. /\ pc[r] = "drain" /\ pc'[r] = "done" /\ batch[r] = {}
          /\ UNCHANGED <<owner, cur, outbox, notes, sent, batch>>
          /\ \A q \in Run \ {r} : pc'[q] = pc[q]
      BY <2>8 DEF DrainDone, Goto, TypeOK
    <3>1. BatchInv'
      BY <2>a, <3>0 DEF BatchInv
    <3>2. SentInv'
      BY <3>0, SentFrame DEF InHand
    <3>3. QED
      BY <3>1, <3>2
  <2>9. QED
    BY <1>2, <2>1, <2>2, <2>3, <2>4, <2>5, <2>6, <2>7, <2>8 DEF Cron
<1>3. ASSUME NEW r \in Run, Dies(r) PROVE FALSE
  BY <1>3 DEF Dies, OneRunAtATime, TypeOK
<1>4. CASE UNCHANGED vars
  <2>1. BatchInv'
    BY <1>4 DEF vars, BatchInv
  <2>2. SentInv'
    BY <1>4, SentFrame DEF vars, InHand
  <2>3. QED
    BY <2>1, <2>2
<1>5. QED
  BY <1>1, <1>2, <1>3, <1>4 DEF Next

LEMMA OnceNext ==
  TypeOK /\ OutboxInv /\ OnceInv /\ [MCNext]_<<vars, overlapped>> => OnceInv'
<1> SUFFICES ASSUME TypeOK, OutboxInv, OnceInv, [MCNext]_<<vars, overlapped>>, ~overlapped'
             PROVE  OneRunAtATime' /\ BatchInv' /\ SentInv'
  BY DEF OnceInv
<1>1. ~overlapped /\ [Next]_vars /\ (OneRunAtATime' \/ UNCHANGED vars)
  <2>1. CASE MCNext
    <3>1. Next /\ overlapped' = (overlapped \/ ~OneRunAtATime')
      BY <2>1 DEF MCNext
    <3>2. ~overlapped /\ OneRunAtATime'
      BY <3>1, Zenon
    <3>3. QED
      BY <3>1, <3>2
  <2>2. CASE UNCHANGED <<vars, overlapped>>
    BY <2>2
  <2>3. QED
    BY <2>1, <2>2
<1>2. OneRunAtATime /\ BatchInv /\ SentInv
  BY <1>1 DEF OnceInv
<1>3. OneRunAtATime'
  BY <1>1, <1>2 DEF vars, OneRunAtATime
<1>4. QED
  BY <1>1, <1>2, <1>3, OnceStep

\* For any number of runs and users, whatever the calendar, the batch size and
\* the answers of the provider: while runs neither overlap nor die, no user is
\* sent a second message of one level.
THEOREM OnceOnly == MCSpec => []AtMostOneEmailUnlessOverlapped
<1>1. MCInit => TypeOK /\ OutboxInv /\ OnceInv
  BY InitInv, OnceInit DEF MCInit
<1>2. TypeOK /\ OutboxInv /\ OnceInv /\ [MCNext]_<<vars, overlapped>>
         => TypeOK' /\ OutboxInv' /\ OnceInv'
  <2>1. [MCNext]_<<vars, overlapped>> => [Next]_vars
    BY DEF MCNext
  <2>2. QED
    BY <2>1, NextType, NextInv, OnceNext
<1>3. TypeOK /\ OnceInv => AtMostOneEmailUnlessOverlapped
  BY DEF TypeOK, OnceInv, SentInv, AtMostOneEmailUnlessOverlapped, AtMostOneEmail
<1>4. QED
  BY <1>1, <1>2, <1>3, PTL DEF MCSpec
=============================================================================
