------------------------- MODULE NotificationOutbox -------------------------
(***************************************************************************)
(* The notification cron of apps/web/app/api/cron/notifications/route.ts:  *)
(* runNotificationSweep fans a due inspection out to the users of a tenant *)
(* (packages/notifications/src/sweep.ts), then drainEmailOutbox hands the  *)
(* pending e-mails to the provider (drain.ts).                             *)
(*                                                                         *)
(* The route takes no lock and opens no transaction: every statement       *)
(* commits on its own, a run may die between any two of them (the          *)
(* platform's time limit, a lost connection, an exception that leaves the  *)
(* route), and a second run may start while the first one is going.        *)
(* One subscription of one aircraft stands for them all, driven by a       *)
(* calendar interval or by hours; its cycle key never changes, because no  *)
(* code of the repository writes last_complied_at after the demo seed.     *)
(***************************************************************************)
EXTENDS Integers, FiniteSets

CONSTANTS Run,             \* invocations of the cron route
          User,            \* members of the tenant
          DueSoonDays,     \* due_soon_days_threshold of the subscription
          Leads,           \* values of email_lead_time_days
          CalendarDriven,  \* is the driving interval a calendar one?
          Horizon,         \* days to the due date when the model starts
          BatchSize,       \* drainEmailOutbox's batchSize
          None

ASSUME OutboxAssumption ==
    /\ DueSoonDays \in Nat /\ Horizon \in Nat
    /\ Leads \subseteq Nat
    /\ CalendarDriven \in BOOLEAN
    /\ BatchSize \in Nat \ {0}
    /\ None \notin Run \cup User

\* SQL NULL is not a row.
ASSUME NoneIsNoRow == \A m \in Run \cup {None} : [mail |-> m] # None

VARIABLES remaining,  \* days to the due date; negative when it has passed
          pref,       \* notification_preferences of each user
          notes,      \* notifications: user -> level -> its row or None
          outbox,     \* email_outbox: run -> user -> the e-mail it enqueued
          sent,       \* how often the provider delivered each user and level
          pc,         \* where each run is
          now,        \* what each run took for the days remaining
          todo,       \* users the fan-out of each run has not served yet
          cur,        \* the user each run is working on
          owner,      \* in the drain: the run that enqueued the e-mail in hand
          batch       \* e-mails each run's drain has selected

vars == <<remaining, pref, notes, outbox, sent, pc, now, todo, cur, owner,
          batch>>
-----------------------------------------------------------------------------
Levels == {"due_soon", "overdue"}

\* A run enqueues at most one e-mail per user, so the pair names it.
Mail == Run \X User

MailStatus == {"none", "pending", "sent", "failed"}

Sweeping == {"sweep", "noting", "undo"}
Draining == {"drain", "accepted", "refused"}

TypeOK ==
    /\ remaining \in -1 .. Horizon
    /\ pref \in [User -> [enabled: BOOLEAN, lead: Leads]]
    /\ notes \in [User -> [Levels -> {None} \cup [mail: Run \cup {None}]]]
    /\ outbox \in [Run -> [User -> MailStatus]]
    /\ sent \in [User -> [Levels -> Nat]]
    /\ pc \in [Run -> Sweeping \cup Draining \cup {"idle", "done", "dead"}]
    /\ now \in [Run -> -1 .. Horizon]
    /\ todo \in [Run -> SUBSET User]
    /\ cur \in [Run -> User \cup {None}]
    /\ owner \in [Run -> Run \cup {None}]
    /\ batch \in [Run -> SUBSET Mail]

\* resolveStatus on the days remaining.
Status(days) == IF days < 0 THEN "overdue"
                ELSE IF days <= DueSoonDays THEN "due_soon" ELSE "ok"

Level(r) == Status(now[r])

\* shouldEmailUser.
WantsEmail(r, u) ==
    /\ pref[u].enabled
    /\ Level(r) = "overdue" \/ (CalendarDriven => now[r] <= pref[u].lead)

Init ==
    /\ remaining = Horizon
    /\ pref \in [User -> [enabled: BOOLEAN, lead: Leads]]
    /\ notes = [u \in User |-> [l \in Levels |-> None]]
    /\ outbox = [r \in Run |-> [u \in User |-> "none"]]
    /\ sent = [u \in User |-> [l \in Levels |-> 0]]
    /\ pc = [r \in Run |-> "idle"]
    /\ now = [r \in Run |-> Horizon]
    /\ todo = [r \in Run |-> {}]
    /\ cur = [r \in Run |-> None]
    /\ owner = [r \in Run |-> None]
    /\ batch = [r \in Run |-> {}]

Goto(r, from, to) == pc[r] = from /\ pc' = [pc EXCEPT ![r] = to]

\* A day passes.
Tick ==
    /\ remaining >= 0
    /\ remaining' = remaining - 1
    /\ UNCHANGED <<pref, notes, outbox, sent, pc, now, todo, cur, owner, batch>>

-----------------------------------------------------------------------------
(* runNotificationSweep *)

\* The clock is pinned and the members, the subscription and its interval are
\* read: nobody is served when the program is not due.
SweepBegin(r) ==
    /\ Goto(r, "idle", "sweep")
    /\ now' = [now EXCEPT ![r] = remaining]
    /\ todo' = [todo EXCEPT ![r] = IF Status(remaining) = "ok" THEN {} ELSE User]
    /\ UNCHANGED <<remaining, pref, notes, outbox, sent, cur, owner, batch>>

\* The speculative INSERT INTO email_outbox.
EnqueueEmail(r) ==
    /\ Goto(r, "sweep", "noting")
    /\ \E u \in todo[r] :
        /\ WantsEmail(r, u)
        /\ outbox' = [outbox EXCEPT ![r][u] = "pending"]
        /\ cur' = [cur EXCEPT ![r] = u]
    /\ UNCHANGED <<remaining, pref, notes, sent, now, todo, batch, owner>>

\* No e-mail is wanted: the fan-out goes straight to the notification.
SkipEmail(r) ==
    /\ Goto(r, "sweep", "noting")
    /\ \E u \in todo[r] :
        /\ ~WantsEmail(r, u)
        /\ cur' = [cur EXCEPT ![r] = u]
    /\ UNCHANGED <<remaining, pref, notes, outbox, sent, now, todo, batch, owner>>

\* On to the next user.
NextUser(r) ==
    /\ todo' = [todo EXCEPT ![r] = @ \ {cur[r]}]
    /\ cur' = [cur EXCEPT ![r] = None]

\* INSERT INTO notifications ... ON CONFLICT DO NOTHING, when it inserts.
InsertNotification(r) ==
    /\ Goto(r, "noting", "sweep")
    /\ notes[cur[r]][Level(r)] = None
    /\ notes' = [notes EXCEPT ![cur[r]][Level(r)] =
           [mail |-> IF WantsEmail(r, cur[r]) THEN r ELSE None]]
    /\ NextUser(r)
    /\ UNCHANGED <<remaining, pref, outbox, sent, now, batch, owner>>

\* Mutant: the undo is forgotten when the notification already exists.
NotificationExistsNoUndo(r) ==
    /\ Goto(r, "noting", "sweep")
    /\ notes[cur[r]][Level(r)] # None
    /\ NextUser(r)
    /\ UNCHANGED <<remaining, pref, notes, outbox, sent, now, batch, owner>>

\* ... and when an earlier sweep has inserted it.
NotificationExists(r) ==
    /\ pc[r] = "noting"
    /\ notes[cur[r]][Level(r)] # None
    /\ IF WantsEmail(r, cur[r])
       THEN Goto(r, "noting", "undo") /\ UNCHANGED <<todo, cur>>
       ELSE Goto(r, "noting", "sweep") /\ NextUser(r)
    /\ UNCHANGED <<remaining, pref, notes, outbox, sent, now, batch, owner>>

\* Mutant: the DELETE names the recipient's pending e-mails, not the id.
UndoEmailByRecipient(r) ==
    /\ Goto(r, "undo", "sweep")
    /\ outbox' = [q \in Run |-> [u \in User |->
           IF u = cur[r] /\ outbox[q][u] = "pending" THEN "none" ELSE outbox[q][u]]]
    /\ NextUser(r)
    /\ UNCHANGED <<remaining, pref, notes, sent, now, batch, owner>>

\* DELETE FROM email_outbox WHERE id = the e-mail this run has just enqueued.
UndoEmail(r) ==
    /\ Goto(r, "undo", "sweep")
    /\ outbox' = [outbox EXCEPT ![r][cur[r]] = "none"]
    /\ NextUser(r)
    /\ UNCHANGED <<remaining, pref, notes, sent, now, batch, owner>>

-----------------------------------------------------------------------------
(* drainEmailOutbox *)

Pending == {m \in Mail : outbox[m[1]][m[2]] = "pending"}

\* Mutant: the batch selects failed e-mails too.
DrainSelectFailed(r) ==
    /\ Goto(r, "sweep", "drain")
    /\ todo[r] = {}
    /\ batch' = [batch EXCEPT ![r] = {m \in Mail : outbox[m[1]][m[2]] \in {"pending", "failed"}}]
    /\ UNCHANGED <<remaining, pref, notes, outbox, sent, now, todo, cur, owner>>

\* SELECT ... WHERE status = 'pending' LIMIT batchSize, without a lock.  (Which
\* rows are the oldest is left open: any batch of the right size.)
DrainSelect(r) ==
    /\ Goto(r, "sweep", "drain")
    /\ todo[r] = {}
    /\ \E b \in SUBSET Pending :
        /\ Cardinality(b) = BatchSize \/ (b = Pending /\ Cardinality(b) < BatchSize)
        /\ batch' = [batch EXCEPT ![r] = b]
    /\ UNCHANGED <<remaining, pref, notes, outbox, sent, now, todo, cur, owner>>

\* mailer.send returns, or throws before or after the provider took the message.
Send(r) ==
    /\ \E q \in Run, u \in User :
        /\ <<q, u>> \in batch[r]
        /\ owner' = [owner EXCEPT ![r] = q]
        /\ cur' = [cur EXCEPT ![r] = u]
        /\ \/ /\ pc' = [pc EXCEPT ![r] = "accepted"]
              /\ sent' = [sent EXCEPT ![u][Level(q)] = @ + 1]
           \/ /\ pc' = [pc EXCEPT ![r] = "refused"]
              /\ sent' \in {sent, [sent EXCEPT ![u][Level(q)] = @ + 1]}
    /\ pc[r] = "drain"
    /\ UNCHANGED <<remaining, pref, notes, outbox, now, todo, batch>>

NextMail(r) ==
    /\ batch' = [batch EXCEPT ![r] = @ \ {<<owner[r], cur[r]>>}]
    /\ owner' = [owner EXCEPT ![r] = None]
    /\ cur' = [cur EXCEPT ![r] = None]

\* UPDATE email_outbox by id; a row that is gone stays gone.
Mark(r, status) ==
    /\ outbox' = [outbox EXCEPT ![owner[r]][cur[r]] =
           IF @ = "none" THEN @ ELSE status]
    /\ NextMail(r)

\* UPDATE ... SET status = 'sent', after the send.
MarkSent(r) ==
    /\ Goto(r, "accepted", "drain")
    /\ Mark(r, "sent")
    /\ UNCHANGED <<remaining, pref, notes, sent, now, todo>>

\* The UPDATE throws after the send: the same catch as a failed send.
MarkSentThrows(r) ==
    /\ Goto(r, "accepted", "refused")
    /\ UNCHANGED <<remaining, pref, notes, outbox, sent, now, todo, cur, owner, batch>>

\* Mutant: a failed send is counted but the row is not marked.
MarkFailedNot(r) ==
    /\ Goto(r, "refused", "drain")
    /\ NextMail(r)
    /\ UNCHANGED <<remaining, pref, notes, outbox, sent, now, todo>>

\* The catch block: whatever was thrown, the row is 'failed' for good.
MarkFailed(r) ==
    /\ Goto(r, "refused", "drain")
    /\ Mark(r, "failed")
    /\ UNCHANGED <<remaining, pref, notes, sent, now, todo>>

\* The route answers.
DrainDone(r) ==
    /\ Goto(r, "drain", "done")
    /\ batch[r] = {}
    /\ UNCHANGED <<remaining, pref, notes, outbox, sent, now, todo, cur, owner, batch>>

\* The run is killed, or a statement outside a try block throws.
Dies(r) ==
    /\ pc[r] \notin {"idle", "done", "dead"}
    /\ pc' = [pc EXCEPT ![r] = "dead"]
    /\ UNCHANGED <<remaining, pref, notes, outbox, sent, now, todo, cur, owner, batch>>

-----------------------------------------------------------------------------
Cron(r) ==
    \/ SweepBegin(r) \/ EnqueueEmail(r) \/ SkipEmail(r)
    \/ InsertNotification(r) \/ NotificationExists(r) \/ UndoEmail(r)
    \/ DrainSelect(r) \/ Send(r) \/ MarkSent(r) \/ MarkSentThrows(r)
    \/ MarkFailed(r) \/ DrainDone(r)

Next == Tick \/ \E r \in Run : Cron(r) \/ Dies(r)

Spec == Init /\ [][Next]_vars

\* A run that has started goes on until it ends or dies.
FairSpec == Spec /\ \A r \in Run : WF_vars(pc[r] # "idle" /\ Cron(r))

\* The schedule as intended: one run at a time, each of them to its end, and a
\* provider and a database that answer.
OneRunAtATime ==
    /\ \A r, s \in Run :
        pc[r] \in Sweeping \cup Draining /\ pc[s] \in Sweeping \cup Draining => r = s
    /\ \A r \in Run : pc[r] # "dead"

-----------------------------------------------------------------------------
\* The e-mail a notification was created with is never undone, by the run that
\* enqueued it or by a later one (email_outbox_id never dangles).
LedgerKeepsItsEmail ==
    \A u \in User, l \in Levels :
        notes[u][l] # None /\ notes[u][l].mail # None =>
            outbox[notes[u][l].mail][u] # "none"

\* "The two cannot drift": once a run's fan-out is over, every user has an
\* in-app notification of the level the run saw, and each e-mail of the run that
\* is still in the outbox is the one that notification names.
LedgerAndOutboxAgree ==
    \A r \in Run : pc[r] \in Draining \cup {"done"} =>
        /\ Level(r) # "ok" => \A u \in User : notes[u][Level(r)] # None
        /\ \A u \in User : outbox[r][u] # "none" => notes[u][Level(r)].mail = r

\* The inductive strengthening of the two above, in four parts: what the ledger
\* names is there and belongs to a user its run has served; of a user served, the
\* ledger has a row and the outbox no other e-mail of that run; ...
Served(r, u) == pc[r] # "idle" /\ u \notin todo[r]

LedgerInv ==
    \A u \in User, l \in Levels, r \in Run :
        notes[u][l] # None /\ notes[u][l].mail = r =>
            Served(r, u) /\ outbox[r][u] # "none"

ServedInv ==
    \A r \in Run, u \in User : Served(r, u) =>
        /\ Level(r) # "ok" => notes[u][Level(r)] # None
        /\ outbox[r][u] # "none" => Level(r) # "ok" /\ notes[u][Level(r)].mail = r

\* ... of a user not served yet, the outbox has no e-mail of the run but the one
\* of the user at hand; ...
UnservedInv ==
    \A r \in Run, u \in User :
        /\ pc[r] = "idle" => outbox[r][u] = "none"
        /\ pc[r] \in Sweeping /\ u \in todo[r] /\ outbox[r][u] # "none" =>
            pc[r] \in {"noting", "undo"} /\ u = cur[r] /\ WantsEmail(r, u)

\* ... and what each run has at hand.
AtHandInv ==
    \A r \in Run :
        /\ pc[r] \in {"noting", "undo"} => cur[r] \in todo[r]
        /\ pc[r] = "noting" /\ WantsEmail(r, cur[r]) => outbox[r][cur[r]] # "none"
        /\ pc[r] = "undo" => notes[cur[r]][Level(r)] # None
        /\ pc[r] \in {"accepted", "refused"} => cur[r] \in User /\ owner[r] \in Run
        /\ pc[r] # "idle" /\ Level(r) = "ok" => todo[r] = {}
        /\ pc[r] \in Draining \cup {"done"} => todo[r] = {}

OutboxInv == LedgerInv /\ ServedInv /\ UnservedInv /\ AtHandInv

\* An e-mail selected by a drain does not stay pending, unless that run dies.
SelectedIsSettled ==
    \A r \in Run, m \in Mail :
        m \in batch[r] ~> (outbox[m[1]][m[2]] # "pending" \/ pc[r] = "dead")

\* With one run at a time and each run ending, a user is e-mailed at most once
\* per level, however many sweeps see the inspection due.
AtMostOneEmail == \A u \in User, l \in Levels : sent[u][l] <= 1

=============================================================================
