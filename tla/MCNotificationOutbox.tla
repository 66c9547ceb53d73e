------------------------ MODULE MCNotificationOutbox ------------------------
(* Runs of the notification cron over a short calendar, that may overlap,    *)
(* and whether they ever did.                                                *)
EXTENDS NotificationOutbox

VARIABLE overlapped     \* two runs were at work at once, or one died

MCInit == Init /\ overlapped = FALSE
MCNext == Next /\ overlapped' = (overlapped \/ ~OneRunAtATime')

MCSpec ==
    /\ MCInit /\ [][MCNext]_<<vars, overlapped>>
    /\ \A r \in Run : WF_vars(pc[r] # "idle" /\ Cron(r))

\* While the runs of the cron do not overlap and none of them dies, a user is
\* e-mailed at most once per level, however many sweeps and drains see the
\* inspection due: the unique key of the ledger and the status of the outbox row
\* stand between a sweep that is repeated and a second message.
AtMostOneEmailUnlessOverlapped == ~overlapped => AtMostOneEmail
=============================================================================
