# A TLA+ model of the aircraft-maintenance app

The repository is a multi-tenant web application for the owners and mechanics of
general-aviation aircraft: a Next.js front end (`apps/web`), domain packages
(`packages/*`) over one PostgreSQL database, and a batch pipeline that mirrors the
FAA registry (`apps/faa-pipeline`). This directory holds its formal model: TLA+ modules
translated from the source, the TLC configurations that check them on small
instances, and proofs that TLAPS checks for every value of the constants.

`PROJECT.json` is the index: components, runs, the mutants that show each property
can fail, the map from definitions to source lines, findings, hazards and theorems.

To check everything: `tlc -config X.cfg M` for each run of `PROJECT.json`, and
`tlapm M.tla` for each module `*Proofs.tla`. `FaaRegistry.cfg` and `FaaSearch.cfg`
check for deadlock: the pipeline can always be started again, and the operator can
always press a key. The other models have a finite number of requests or inputs, and a system
whose requests have all been answered really stops; they set `CHECK_DEADLOCK FALSE`.

## 1. Inventory

What makes this program hard is one design decision, repeated everywhere: a request is
a sequence of SQL statements, run either in one `READ COMMITTED` transaction
(`runAsTenantOnProductionDb`, `apps/web/lib/tenant-tx.ts`) or with every statement
committed on its own (the direct connection of the import handlers, the cron route and
the pipeline), and almost no statement takes a lock. Each statement sees what other
requests have committed by then. A check made by one statement need not hold when the
next one acts on it. Whatever protects the data is a unique key, a trigger, a row lock
that an `UPDATE` takes anyway, or nothing. The browser repeats the pattern one level
up: a client component sends a request, the operator goes on typing, and the answer
is applied to whatever is on the screen by then.

| Component | State | Operations | Hard behaviour | What makes it correct |
|---|---|---|---|---|
| Import jobs (`apps/web/lib/admin/imports-handler.ts`, `packages/import/src/commit`) | `import_jobs`, `import_job_rows`, rows in the live tables with a breadcrumb back | create, parse (unlocked, autocommit), commit (one transaction, header locked), manual row | parse and commit overlap, retries, throws after a state flip | all or nothing; breadcrumbs agree both ways; one live record per row; a committed job is final |
| Import mapping, validation, inserts (`packages/import/src`, `imports-adapters.ts`) | the mapping of a job, its staged rows | validate a mapping, coerce, map, resolve, validate a row, insert it | preview and commit judge a row by different code at different times | a preview without errors goes in, but for what no validator looks at |
| Import wizard (`apps/web/app/admin/imports/new/ImportWizard.tsx`) | five steps of inputs, the job created, its results | pick, map, validate, commit | answers to a former file or mapping, half a chain lost | the verdict on the screen is that of the job that would be committed |
| Notification cron (`packages/notifications`, `apps/web/app/api/cron/notifications`) | `notifications`, `email_outbox`, preferences | sweep, drain | overlapping runs, a run killed between statements, a send whose answer is lost | ledger and outbox agree; nobody is e-mailed twice by runs as scheduled |
| Notification inbox | `notifications.seen_at` | list, mark seen | none | one stamp |
| Flight-time log (`flight-time-service.ts`, migration 0009) | `flight_time_entries`, `aircraft.airframe_total_time` | log an entry | the trigger's SELECT is overtaken; entries are listed by when their transaction began | the logbook shows the total of the profile, on top but for overlaps; the total falls only by override |
| Squawks (`squawk-service.ts`) | `squawks` | file, resolve, list | resolve reads and writes without a guard | resolved is final |
| Compliance engine (`packages/compliance`) | none | interval, program, rollup | month ends, thresholds, units that do not compare | the worst interval drives the program |
| Due list (`compliance-handler.ts`) | none | one request, several SELECTs | torn reads | never misses what was true all along |
| Sign-off (`maintenance-entry-service.ts`, migration 0013) | `maintenance_entries` | draft, sign, correct | check-then-act over three tables | a signature is frozen and rests on a live credential |
| Credentials (`packages/accounts/src/credentials.ts`) | `user_credentials`, `user_credential_changes` | create, update, revoke | snapshots taken before the write; a log listed by when a transaction began | the log shows the present, on top but for overlaps; revoked is final |
| Regime changes (`aircraft-regime-change-service.ts`) | `aircraft.regime_id`, `aircraft_regime_changes` | change | overlapping changes, a log listed in the same way | the log shows the present, on top but for overlaps |
| Aircraft (`aircraft-service.ts`, `NewAircraftForm.tsx`) | `aircraft`, subscriptions; the form's inputs | create with automatic subscriptions | a match prefills what the operator is typing, a form sent again, and served late | the form is told what became of what it sent |
| Components (`component-service.ts`) | `components` | install, remove | a removal without a guard | a part is in one place |
| Tenant provisioning (`tenant-provisioning.ts`, `tenants-handler.ts`) | organisations, users, memberships, the provisioning audit | provision with an idempotency key | the audit row is opened before and closed after the transaction | one tenant per key; an audit row closes |
| Provisioning form (`ProvisionTenantForm.tsx`) | inputs, the key, the success view | submit, retry, acknowledge the password | a POST that is given up and arrives all the same | what the success view says was done |
| Invitations (`invitations.ts`) | `invitations` | create, accept | accept is not a transaction | accepted once |
| FAA pipeline (`apps/faa-pipeline`) | object store, snapshot manifest, registry history, change log | ingest, transform, load, detect changes | a crash between two phases, days out of order | history and current table agree; no change is lost |
| FAA lookup and search (`use-faa-lookup.ts`, `FaaSearchCombobox.tsx`, `apps/web/lib/faa`) | one status, one list; none on the server | debounce, ask, show | answers out of order, aborted, read late | what is shown is about the text beside it |
| FAA decisions (`FaaRegistrySection.tsx`, `aircraft-faa-service.ts`) | one decision per field | load, accept, decline, report, reopen | the load and a decision, or two decisions, overlap | what is shown is what is recorded |
| Sessions, authorisation, tenant scoping (`apps/web/lib/auth`, `tenant-tx.ts`, migration 0004) | session token, GUCs | one read per request | none modelled | a request sees one tenant |
| Documents (`packages/storage`, `attachments-handler.ts`) | object store, `documents` | upload, sign a URL, download | the object and its row are not written together | a row has its object |
| Regime client, platform admin, demo seed, other pages, infrastructure | read-only tables, none | | none | |

The components interact through the database and by direct calls. The ones whose
interaction matters here are: flight time, squawks and the calendar with the due list
(and with the notification sweep, which uses the same engine); credentials and the
regime with sign-off; the wizard with the import handlers, and the importer with the
live tables; the provisioning form with the service, and both with sign-up; the lookup
with the form and with the decisions; the sweep with the drain.

## 2. Modules

Ten models are built. On the server a request is a process with a program counter,
one statement is one action (whatever follows it up to the commit and can be seen by
nobody else before is in the same action), and a lock is a guard that waits. In the
browser an action is one run of the event loop: a handler with the effects that React
runs after it, a timer, or the continuation of one `await`.

Three tables are logs that a transaction adds a row to beside what it changes:
`user_credential_changes`, `aircraft_regime_changes` and `flight_time_entries`. Each is listed by a
column with `DEFAULT now()` (migrations 0027:61, 0015:39, 0009:34), which in PostgreSQL is the start
of the transaction; the database does not record in which order rows were committed. `TransactionLog`
has this in one place: a log is a set of rows, each with the number of its transaction in the order
in which they began (`began`), and to begin a transaction is an action of its own (`BeginManage`,
`BeginChange`, `LogFlightTime`). A row also carries how many had begun when it was committed (`until`), which
only the properties look at. `TopButForOverlaps` is what the code gives in place of "the newest row
is on top": whatever is listed above a row overlapped its transaction.

### 2.1 `ImportJob`, `ImportJobLifecycle`, `MCImportJob`

`job` is the row of `import_jobs`, `staged` is `import_job_rows`, `live` the rows the
pipeline has inserted into the target table, with `from` for
`source_import_row_id`. `pState` and `cState` are the program counters of the parse and
commit requests; `loaded` and `written` are what an open commit transaction has read and
inserted. A live row is named by its source row and its inserter.

| Action | Code |
|---|---|
| `CreateImport` | `handleCreateImport`, the header insert |
| `ParseRead`, `ParseRejectArchive`, `ParseBegin`, `ParseWipe`, `ParseFails`, `ParseStage`, `ParseReady`, `FailParse`, `ParseThrows` | `handleParseImport`, statement by statement |
| `CommitLock`, `CommitLoad`, `CommitInsert`, `CommitFlip`, `CommitAborts`, `RecordCommitFailure`, `CommitDies` | `commitImportJob` |
| `CommitManualRow` | `commitManualRow` |

Postgres rules that are in the model: the parse's header UPDATEs wait for the commit's
row lock; the INSERT of staging rows waits too, because its foreign key takes a share
lock on the header; the DELETE of staging rows waits for a transaction that has
written some of them; deleting a staging row sets the breadcrumb of its live rows to
NULL; a rolled-back transaction leaves nothing. Two answers of the code are one here: the batch with
an invalid row, for which `handleCommitImport` has a 422 branch, is wrapped into
`CommitFailed` before it reaches that branch and comes out as a 500. Both end the
transaction in the same way.

`ImportJobLifecycle` is what the operator is promised: a job in a phase, and a set of
source rows that have a record, which appears whole when the phase becomes
`committed` and never changes again. `ImportJob` implements it
(`LifecycleSpec`) as long as parses of one job do not overlap.

`SerialSpec` adds that assumption, `OneParseAtATime`. The wizard disables its
buttons while a request is under way; nothing on the server enforces it. Under
plain `Spec` the stronger promises are false. A parse that passed its
gate before a commit finished reopens the committed job, wipes its staging rows (and
with them the breadcrumbs) and lets the batch be committed a second time; so the
promise of `packages/import/src/commit/index.ts:21-23` that a commit is idempotent
holds for retries of commits, not for a parse that overlaps one. What holds under
every overlap is proved under `Spec`.

### 2.2 `ImportMapping`, `ImportRows`, `MCImportRows`

`ImportMapping` has the catalog of target fields (`TARGET_FIELDS`), a mapping as a set of
bindings of the sections `columns`, `constants` and `lookups`, its validation
(`validateMappingConfig`, one operator per check) and the reading of one cell
(`coerce`, `applyColumn`). A cell or value is a kind and what it is: a text, a number, a
number with a fraction that `numeric(10,2)` rounds off, a date as ISO, US or European calendars write
it, a boolean, a blank, or a text or id with blanks around it. `coerceDate` takes any day up to 31 of any
month, `coerceDateTime` lets `new Date()` go on to the next month: `NoSuchDay` is the 30th of a February.

`ImportRows` puts a row together (`applyMapping`, with `DbLookupAdapter` for the lookups) and
judges it (`aircraftValidator`, `componentValidator`, `maintenanceEntryValidator` with
`enforceSignOffShape`, and `enforceMonotonicity` with the marks it carries through the
batch), then inserts the batch (`insertLiveRow` and one operator per table, with what may refuse it there: the
unique keys, the checks, the foreign keys of regime, aircraft and inspection program, the casts to `uuid`, `date`
and enumerations, the width of the numeric columns, the trigger, and `new Date(signedAt)`, which throws).
The two read a field differently: the validators through `readString`, which trims (`Read`), the inserters as
it was mapped. `ParseImport` has the outcomes of the handler's try blocks, also the one for a validator that throws
(`VALIDATE_FAILED`). A request is one action here
(`CreateImport`, `ParseImport`, `CommitImport` for the handlers of these names); its statements are
`ImportJob`'s. `Elsewhere` is the rest of the tenant, which may log a reading, revoke a
credential or enter a record between preview and commit; `moved` records that it did.

### 2.3 `ImportWizard`, `MCImportWizard`

The five steps of the wizard: `tenantId` and `targetTable`, `picked` with its `columns`, `maps`
with one `FieldMap` per target field, and `createdJobId`, `parseResult`,
`commitResult`. `reads` are files whose text is being read, `call` is the request on its
way. `handleFile`, `ReadFile`, `applyManualColumns`, `editMap` (one `FieldMapRow`),
`uploadAndParse`, `commit` and the three `Receive` actions are the wizard's; the enabling
conditions of the two buttons are `ValidateEnabled` and `CommitEnabled`.
`handleCreateImport`, `handleParseImport` and `handleCommitImport` are the server in
whole requests, with the real mapping validation and a choice for the verdict of the rows;
`JobActions` is the page of a job in another tab, which can validate or commit the
same job. `NetworkError` loses the request or its answer, after the server acted or before; an answer of 200 whose
body cannot be read becomes a result without a verdict (`Unread`).

### 2.4 `NotificationOutbox`, `MCNotificationOutbox`

`notes` is `notifications` for one program and its single cycle, `outbox` is
`email_outbox`, keyed by the run that enqueued the message and its recipient, `sent`
counts what the provider really delivered. `pc`, `now`, `todo`, `cur`, `owner` and
`batch` are the locals of each cron run.

`SweepBegin`, `EnqueueEmail`, `SkipEmail`, `InsertNotification`, `NotificationExists`
and `UndoEmail` are `runNotificationSweep` (the speculative e-mail, the insert with `ON
CONFLICT DO NOTHING`, the deletion by id when the insert conflicts). `DrainSelect`,
`Send`, `MarkSent`, `MarkSentThrows`, `MarkFailed` and `DrainDone` are
`drainEmailOutbox`. `Send` covers a provider that takes the message and fails to say so.
`Dies` is the end of a run at any statement. `Tick` lets the due date come nearer.
The cycle key of a notification depends on `last_complied_at`, which nothing
in the repository writes, so the model has one cycle.

`MCNotificationOutbox` adds `overlapped`: whether two runs were ever at work at once, or
one died. The schedule as intended is the behaviours in which it stays false.

### 2.5 `FlightTime`, `Squawks`, `Compliance`, composed by `Airworthiness`

`FlightTime` is an entry's transaction in three steps: it begins (`LogFlightTime`), the trigger selects the
total and compares (`TriggerCheck`), and then come its UPDATE, the INSERT and the COMMIT (`TriggerAdvance`).
`timeLog` is the logbook, a `TransactionLog`. `Squawks` is a filing, and
a resolution in two steps. `Compliance` is the interval engine as operators:
JavaScript's `setUTCMonth` with its overflow into the next month, the thresholds, the
worst interval and its tie-break. `Airworthiness` extends all three and adds the clock
and the due-list request, three reads of a transaction that has no snapshot
(`ReadAircraft`, `ReadSquawks`, `Answer`). Its variables `truths`, `held` and `moved`
record what happened while a request ran; the program has no such state.

Hundredths of hours are small integers. Programs are a constant, because
subscriptions are written with the aircraft and never updated. Cycle intervals have no
due-soon threshold, as neither caller passes one.

### 2.6 `SignOff`, `MCSignOff`

Entries, credentials and the regime of one aircraft, with both audit logs.
`SignReadEntry`, `SignReadAircraft`, `SignReadCredentials` and `SignWrite` are
`sign`; the last one includes the trigger `maintenance_entries_block_signed_update`.
`Draft` is `draft` with its check of the corrected entry. `LoadCredential` is the read
`updateForTenant` and `revokeForTenant` share, `UpdateForTenant` and `RevokeForTenant`
their UPDATE with its log row; `CreateForTenant` creates. `BeginChange`, `ReadRegime` and
`ChangeRegime` are the regime change. `credLog` and `regimeLog` are `TransactionLog`s, whose rows are numbered
by `credClock` and `regimeClock`; `BeginManage` begins the transaction of a credential request. To create a
credential is one step, as nobody can know its id before the commit. `overtaken` and `justified` are bookkeeping of
the model.

### 2.7 `TenantProvisioning`, `ProvisionTenantForm`, `MCProvisionTenantForm`

In `TenantProvisioning`, `users`, `tenants` (`organizations`), `members`, `audit`
(`tenant_provisioning_audit`) and `invitation` are the tables. A tenant and its audit
row are named by the request that made them, a user by who set the password.
`pc`, `body`, `todo`, `seat`, `sent` and `answer` are the locals of a provisioning
request; `apc` and `token` those of an acceptance.

| Action | Code |
|---|---|
| `Submit` | `handleCreateTenant` up to the service, with its own lookup of the key and the comparison of the bodies; `handleSignup` is a request without key and seats |
| `LookUp`, `Preflight`, `OpenAuditRow`, `Collide` | `provisionTenant` up to the audit row; `Collide` is the loser of the unique index |
| `CreateTenant`, `CreateTenantFails`, `FailAuditRow` | the one transaction, and its failure |
| `CreateInvitation`, `EnqueueInvite` and their failures | the loop over the seats, each failure a warning |
| `CloseAuditRow` | the final UPDATE and the 201 |
| `AcceptRead`, `AcceptFindUser`, `AcceptInsertUser`, `AcceptCheckMember`, `AcceptInsertMember`, `AcceptStamp` | `InviteService.accept`, statement by statement |
| `Dies`, `AcceptDies` | the end of a request between two statements, or a statement outside the try blocks that throws |

Only `CreateTenant` is a transaction of several statements. What keeps the rest right
is the order (row before transaction, transaction before row) and three unique indexes:
on the key of the audit row, on the e-mail of a user, on tenant and user of a
membership. The seats of a request are a set: an e-mail seated twice is not
modelled. The branch for seats without a mailer (`tenant-provisioning.ts:335`) cannot be
reached from either handler. No route calls `accept` yet.

`ProvisionTenantForm` puts the administrator's form in front of it, over a network. `form`
is the inputs, `idem` and `reuseKey` are the two refs that decide whether the key of the last POST
is used again, `post` every POST made with its body and what the browser heard of it,
`success` the success view with its one-time password. `submit` makes a POST,
`Arrive` is its arrival at the server, also after the browser has given it up
(`NetworkError`), `Receive` the answer; `SignUp` is a request that comes from elsewhere.
`edit`, `acknowledgeCredential` and `resetForm` are the rest of the form. Every step of the
server is a step of `TenantProvisioning`, so the form implements its specification
(`FormImplementsProvisioning`, proved).

### 2.8 `FaaRegistry`, `MCFaaRegistry`

`objects`, `staged`, `bronze` and `gold` are the object store, `manifest` is
`snapshot_manifest` with its four stamps, `current`, `history` and `changes` are the
registry tables, `loadedAs` the day the web calls fresh. `pc` and `job` are the
one pipeline that the workflow's concurrency group lets run.

| Action | Code |
|---|---|
| `StartRun`, `SkipIngest`, `Download`, `StageMaster`, `StageDereg`, `UpsertManifest` | `runIngest` with its idempotent path, in both storage modes |
| `FinishRun`, `RestartTransform`, `BeginTransform`, `EndTransform` | the hand-over of the workflow, an operator's run of the transform alone, the orchestrator's skips |
| `RunBronze`, `StampBronze`, `RunGold`, `StampGold`, `RunPgLoad`, `RunChangeDetect` | the phases, with the manifest UPDATE after each; the last two are one transaction each |
| `NextDay`, `Fails`, `NoRawFiles` | the clock, and a failure or death before any statement |

`getAircraftAsOf`, `lookupAircraft` and `loadFreshness` are the queries of the web on these
tables. The FAA's files are a choice each day: the DEREG file is cumulative, MASTER names who is
registered, and some rows of either file may not parse. `straight` records that no day was worked on
after a later one.

### 2.9 `FaaLookup`, `AircraftForm`, `FieldDecisions`, composed by `FaaFields`

`FaaLookup` is the hook `useFaaLookup`: a change of text (`Requery`), the end of the
debounce (`runLookup`), and an answer in two steps, of which only the first is compared
with `requestSeq` (`Arrive`, then `ReadBody`). `AircraftForm` is the page that enters an aircraft: a
match prefills what is empty (`prefill`), a field that differs gets a chip. `Submit` posts it. A POST is a message of its own with the id of
the row it may leave: `handleAircraftCreate` serves it whenever it arrives, one transaction of the aircraft and
its subscriptions with the unique index on `lower(registration)` (`Taken`); `ReceiveAnswer` is its answer; `PostFails` is
the page giving it up, which takes it off the network only if it was served by then; `NeverArrives` loses it for
good. `FieldDecisions` is the section on the
page of the aircraft and the rows it records: the load of the decisions
(`Mount`, `handleAircraftFaaDecisionsList`, `LoadArrives`), decisions on their way (`postDecision`,
`record`, `ReceiveDecision`), the report sheet, which waits for its own report and is new whenever it is opened (`reporting`), and a registry that changes overnight. `FaaFields`
is the two pages one after the other; `Leave` is the browser getting from one to the other.
`overtaken` and `raced` record whether an answer, or two requests, overlapped.

### 2.10 `FaaSearch`, `MCFaaSearch`

The list under the registration field: debounce, a numbered request that aborts the one
before (`runSearch`, `Aborted`), the body of an answer read after it (`ReadResults`, `ReadError`; a body of a 200 that cannot be read is an
empty list, `Unreadable`), the panel, the highlighted row and its keys. What the endpoint returns for a prefix is a
constant. `NNumbers` has the constants this module shares with the lookup, so that both can be extended.

## 3. Runs

| Run | What it asks | What it shows |
|---|---|---|
| `import_overlap` | two parses and three commits in every interleaving, with throws and deaths | breadcrumbs agree, the assertion before the flip never fires, a commit is all or nothing, `validating` is left by requests that end |
| `import_serial` | three parses one at a time, three commits, the manual row | one live record per row, the life cycle is implemented (a committed job is whole and final) |
| `import_rows` | every mapping and file of the instance against every state of the tenant | an accepted mapping is unambiguous and finds its columns; a clean preview is refused at commit only for the faults that `LeftToTheDatabase` names, or because something moved |
| `import_wizard` | files, mappings and retries against lost answers and a second tab | the result on the screen is that of the job the button commits; what is uploaded is refused only for what the wizard never looks at; the buttons come back |
| `outbox` | two runs over two users with batches of one, any of which may die | the ledger keeps its e-mails and agrees with the outbox, one e-mail per user and level unless runs overlap, what is selected is settled |
| `airworthiness` | entries, resolutions, a due-list request, midnights | the worst interval drives the status, the total falls only by override or by a stale read, the due list misses nothing that was true all along and answers nothing that never was |
| `sign_off` | two signers, two entries, two credential requests, a regime change | a signature is justified by the log, the log shows the present with nothing listed above it but what overlapped, corrections lead to an original, what the gate saw held unless it was overtaken |
| `sign_off_live` (violated) | the comment at `maintenance-entry-service.ts:313` | a signature for which at no moment the signer was entitled |
| `provisioning` | two requests for a tenant, from the form (lost, late, retried) or from a sign-up, two acceptances, deaths anywhere | one tenant per key and admin, a true audit that closes, answers that agree, an invitation accepted once, a key that serves one answer, a success view that is true unless the form was edited before a retry |
| `faa_registry` | two days of the pipeline in both modes, re-run and out of order, with a failure and a row that does not parse | history ends for a reason, the change log matches it, a day that was loaded is answered with its snapshot, the date shown is honest |
| `faa_search` | three searches against answers that come late, fail, are aborted or cannot be read | the list is about the text beside it, "No results found" is so unless the body of the answer could not be read, and the search ends |
| `faa_fields` | the form and then the page of one aircraft, with two lookups, posts, decisions and visits each, and a registry that changes | the lookup shown is about the text, what the form is told of a creation is what became of it whatever is served after it, a decision shown is the one recorded and is not asked again |

The violated run states what the repository says of itself and has its entry under
"findings". Properties that need an exemption to hold say so in their text
(`overlapped`, `overtaken`, `raced`, `straight`, `moved`): each exemption is a behaviour of the code in
which the plain promise is false.

### Seen with the models, and not given a run

Imports:

- A throw outside the try blocks of `handleParseImport` (:548, :582, :733) leaves the job
  `validating`, from which no request moves it on, where the comment at
  `imports-handler.ts:540-541` says an operator does not get stuck.
- `OneLiveRowPerSourceRow` and the finality of a committed job are false under plain
  `Spec` of `ImportJob` (section 2.1).
- The validators leave to the database a good deal, and each such fault is a clean preview
  whose commit fails as a whole (`LeftToTheDatabase`): a registration or serial number taken or
  repeated in the file; an id typed into the sheet, or given as a constant, that names nothing (regime, aircraft,
  inspection program: `inserters.ts:147`); what `numeric(10,2)` rounds to nothing, and a number its column
  has no room for; a day its month does not have (`coerce.ts:147-159` accepts `2024-02-31`); a constant of
  `performedOn` or `signedAt` that is no date (`validate-config.ts:342-353` asks only for a string); blanks around an
  enumeration, a certificate or a template code, which a constant or `trim: false` keeps and `readString` does not
  see (`types.ts:242-251`); and a first reading below the total of the aircraft, as the marks of
  `enforceMonotonicity` start empty.
- `enteredAt` of a mapped row is never inserted.
- An answer of 200 to the parse request whose body cannot be read leaves the wizard on a verdict without
  numbers and with a dead Commit button (`ImportWizard.tsx:498-509`).
- Two CSV files picked in a row are read in any order, and the last one read supplies the
  columns (`ImportWizard.tsx:369`).
- Changing the tenant, table or mapping after a verdict leaves the verdict
  (`ImportWizard.tsx:579`, `:595`), and a commit that failed leaves the clean result: the
  button stays, and each further press is a 409 (`:529`).
- The page of a job offers Re-validate for a `ready` job (`imports/[id]/page.tsx:129`); the
  server answers 409.

Notifications:

- `drain.ts:12-14` bounds the worst case to "same message sent twice". Nothing bounds
  it: the batch is selected without a claim, so each run that overlaps, or dies between a
  send and its UPDATE, sends the row again, and three runs send it three times.
- A user whose lead time is shorter than the due-soon threshold is notified before it without an
  e-mail; when the lead time is reached the notification is there, and the e-mail that
  `packages/notifications/tests/sweep.test.ts:198-199` puts off ("NOT receive an email yet") is queued and undone (`sweep.ts:323`).
- `drain.ts` marks rows `sent` with the null mailer, where `mailer.ts:5-6` says they
  stay pending.

Aircraft and people:

- Two overlapping flight-time entries lower the total without an override, where
  `flight-time-service.ts:42-44` says the trigger keeps it monotonic: the trigger reads
  without a lock (`0009:67`).
- Of two requests that sign one draft together the second is stopped by the trigger,
  whose exception the handler does not translate: `error` in `SignWrite`, a 500 where
  the first check would have given a 409 (`maintenance-entry-handler.ts:238`).
- Of two overlapping resolutions of a squawk the later one replaces the narrative of
  the first (`squawk-service.ts:234-238`). `LateResolveRefused` is the
  part of the promise that holds.
- The audit trail of a credential, the regime log and the logbook are listed newest first by when transactions
  began (`credentials.ts:476`, `aircraft-regime-change-service.ts:168`, `flight-time-service.ts:109`). A request
  that began before another and was committed after it is listed below it, so the top row
  of a trail can be a state that was replaced: an update on top, say, of a credential that is
  revoked. `AuditShowsPresent`, `RegimeLogShowsPresent` and `LogbookShowsTotal` say what holds.
- The form that enters an aircraft has no key like that of the provisioning form: when the answer is lost and the
  operator sends it again, the page says that an aircraft of this registration exists already, and it
  is the one just entered. `ToldWhatHappened` is what holds: that aircraft is there, and the second was not entered.
- One audit row however often revoke is clicked (`credentials.ts:361-362`) is false for two
  overlapping requests; both read the row as unrevoked.

Provisioning:

- `IdempotencyReplay`, thrown when the winner of a race for a key is already done, is
  caught by the function `provisionTenant` (`tenant-provisioning.ts:523`) only. Both
  handlers call the method of the service instead, so it reaches them as an unknown
  error (a 500): `Collide`.
- The handler promises a 409 for a different body under one key
  (`tenants-handler.ts:377-380`). When the first request finishes between the handler's lookup and
  the service's, the second is answered 201 with the first one's tenant: `LookUp`
  compares no body. `AnswersAgree` is what holds.
- A retry that overlaps the end of the first request is answered with a generated
  password that is on no account, against the rule of
  `admin-tenants-handler.test.ts:478-480` (`tenants-handler.ts:462`). Seen from the form: after a network error the
  inputs can be edited and the key is used again, so the success view can name
  the first tenant beside the second e-mail; `SuccessIsTrue` exempts the edit and the password of a retry.
- A 409 for a key in flight makes the form take a new key: the next try is told that the
  e-mail exists, and the password generated by the first is never shown.
- A request that dies after its transaction leaves a tenant whose audit row says
  `in_progress`; every retry of its key is refused, and nothing in the code repairs it. An acceptance
  that dies between the membership and the stamp leaves an invitation that looks open
  and can only be refused.

FAA:

- An aircraft registered again is still in the cumulative DEREG file: change detection closes its
  history on the day it is loaded (`change-detect.ts:250`). `AsOfIsSnapshot` therefore
  speaks only of aircraft no DEREG file names.
- A decision pins the hash of the FAA value (`schema/aircraft.ts:298-302` says the field is
  then asked about again when the value moves); nothing compares it
  (`FaaRegistrySection.tsx:335-363`).
- Values prefilled for one registration stay when another is typed
  (`NewAircraftForm.tsx:111`), and then count as the operator's own. A decision made for one
  registration stays as well, and its chip then says "accepted" of the next one's FAA value, which
  nobody accepted (`NewAircraftForm.tsx:343`).
- The search says "No results found" of a registration when the body of a 200 cannot be read
  (`FaaSearchCombobox.tsx:127-133`).

### Bounds, and why they suffice

- Requests: two of a kind meet in every race the code has (two commits, two resolves,
  two signers, two updates of a credential); three commits are there for the
  retry after a race. Three parses give the sequence failed, repaired, ready.
- Data: two source rows make a batch that can be half written; two users make a
  fan-out that can be half done; a batch size of one makes two pending e-mails more
  than a batch.
- `ImportRows`: up to three rows of flight time (a reading, a lower one, one after an override), one or two
  for the other tables; `MCCases` has a mapping per table and the wrong ones
  (two sources of a field, no source, a missing column, formats and constants of the wrong
  type); `MCWorlds` has no, one and two aircraft, with and without credential and
  component. `MaxHours = 2` bounds the readings of others. `MaxDecimal = 8` and `MaxInteger = 2100` stand for the limits of
  `numeric(10,2)` and `integer`, as the files have values one above. One inspection program exists, and
  the files name it and another; of two regimes one is the job's.
- `ImportWizard`: two picks, three edits, two jobs and one request of the other tab; files are a CSV
  with a padded header and an empty workbook. Two jobs are a retry of the chain
  beside what it left behind; three edits complete a mapping and spoil it again.
- `MaxHours = 3` with an interval of 2 hours and a threshold of 1 has every status;
  four days from 2023-03-01 do the same for the calendar intervals, and the
  anchor of 2023-01-31 makes the month overflow. `MaxDay = 1` in `SignOff` is the day a
  credential expires and the day after.
- `Horizon = 1` with a threshold of 2 days and a lead time of 0 has a day on which a
  notification is due without an e-mail, one with it, and one overdue: both levels.
- Provisioning: two requests are a POST and its retry, or a POST and a sign-up; two keys, as the form
  takes a new one; two e-mails make the race for a user (a seat of one tenant is
  the admin of the other) and a seat that is the admin itself; two acceptances
  meet on one invitation or on one user. All passwords of the run are generated.
- `FaaRegistry`: two days, one aircraft with two rows it may have, one failure, one row that does
  not parse. A second day is enough for a re-run, a backfill and a change; three days without failures
  were run as well.
- `FaaSearch`: three searches, as the second aborts the first and the third the second; one text too short
  to search for, one with two rows, one with one, one with none.
- `FaaFields`: two lookups, posts, decisions and visits each overlap with themselves; two of the registrations differ in case only; one night.
- Symmetry is used in the `sign_off` runs and in `airworthiness`, which check no liveness property.

### Fairness

`FairSpec` of `ImportJob` and `MCSpec` of the outbox say that a request which has
started goes on: weak fairness of its own steps, since the event loop and the FIFO lock
queues of Postgres starve no statement. No request has to start, and a death or throw
remains possible at every statement, so `ValidatingIsLeft` and `SelectedIsSettled`
exempt the request that died. `FairFormSpec` says the same of a
request of `ProvisionTenantForm` that has reached the server: `AuditIsClosed` fails for nothing but a death. In
`ImportWizard` and `FaaSearch` the fair actions are those of the server and of the browser: a timer
fires, `fetch` resolves or rejects, the reading of a body settles. The operator need do
nothing in any of them. The other models have no liveness property: their requests run
straight through and nothing waits for them.

## 4. Proofs

Each `*Proofs` module extends its component's and proves, for any sets of
requests, rows, users, credentials and so on:

- **`ImportJobProofs`.** `TypeOK /\ TxInv` is inductive. `TxInv` says that at most one
  transaction is open, that it holds a `ready` header, and that every row it loaded
  either is unchanged or has been wiped untouched. It is the reason why the
  guard query finds nothing (`GuardQuery`), and, with `NothingBeforeUpload`, why the
  breadcrumbs agree (`Traceability`) and commits are atomic (`AllOrNothing`). Under
  `SerialSpec` the second inductive invariant, `SerialInv`, says that while a parse is
  in flight nothing is locked and nothing is committed; `OneRecord`, `Terminal` and
  `Refinement` rest on it.
- **`NotificationProofs`.** `OutboxInv` has four parts: what the ledger
  names exists and was served (`LedgerInv`), a served user has a ledger row and no other e-mail
  (`ServedInv`), a user not served has at most the speculative one (`UnservedInv`),
  and what each run has at hand (`AtHandInv`). Nothing weaker is inductive: an undo is
  harmless only because the e-mail it deletes is named by no ledger row. `OnceInv` adds,
  for runs that do not overlap, that what a run has in hand is still pending (`BatchInv`) and that what
  went out is the message the ledger names, settled or about to be (`SentInv`); `OnceOnly` follows.
- **`AirworthinessProofs`.** `Inv` is the conjunction of the flight-time invariant (an
  unoverridden entry was compared with the total it saw), the squawk invariant and what
  each due-list request holds: what it read was true at its moment, and what it will
  answer is among `truths` unless something moved. For these the engine may stay opaque. `TypeCorrect`
  and `EarliestDecides` are about what it computes: its two folds, over the intervals of a program and over
  the programs, never lose the worst of what they are given (`WorseChain`, `RollupChain`, `WorstOfAll`).
  A fold is proved about through the chain of its accumulators (`FoldExtends`, `FoldDefined`), by induction
  over *sets* of naturals (`AllNaturals`, from the well-foundedness of `<`), since the library's
  induction theorems, which take an operator, are out of the provers' reach.
- **`SignOffProofs`.** `TypeInv`, `LogsInv` (both logs show the present, on top but for overlaps; this rests on `StampsInv`:
  a transaction under way has a number the clock has reached, and so has every row), `JustifyInv` (a
  signature or a request past the gate has its row in the log) and `GateInv` (what the
  gate saw still holds unless the request was overtaken). `Corrections` holds because a
  correction points to an entry that was signed before it existed.
- **`TenantProvisioningProofs`.** `IInv` has seven parts. `AttemptInv` ties the audit row
  and the tenant to the program counter of their request: this is where the order of
  the statements matters. `UniqueInv` is what the unique indexes enforce, carried from a key
  to a tenant and from an e-mail to its admin. `SeatInv` and `CountInv` count the mailed
  invitations (with the cardinality theorems of the library), `AnswerInv` says that an
  answer names a finished attempt, `AcceptInv` that the effects of an acceptance
  stay. `OneTenant`, `Audit`, `Answers` and `Accepted` follow from them.
  The module goes on with the form: `FormImplementsProvisioning` shows that every step of form and
  network is a step of `TenantProvisioning` or a stutter, so all its theorems hold of the
  form. `FormInv` adds to `IInv` that at most one POST is waited for (`WaitingInv`), that
  the key in hand is of a POST that was given up, or was never used (`KeyInv`), that a
  request at the server has the body that was posted (`BodyInv`) and what the success view
  rests on (`SuccessInv`). `KeyServesOnce` and `ShownIsTrue` follow.

- **`FaaRegistryProofs`.** `RegistryInv` joins what the phases leave behind (`PhaseInv`: bronze, gold
  and the manifest row are there when the next phase reads them, and no day is
  transformed once its stamp says it was loaded; `StampInv`: a stamp tells of what was made) with three
  properties. `CopiesAgree`: one live history row per aircraft, the row of the current table. It is needed for
  `Explained`, because change detection logs a deregistration from the current table and
  closes the history by its own. `Honest` needs `StampInv`: a day that was loaded is never made again.
  `LogMatches` and `AsOfAnswers` speak of days worked on in order: rows begin and end on days that were loaded
  (`DaysInv`), the rows of an aircraft follow one another (`OrderInv`), and each loaded day finds its row (`RowInv`).
- **`FaaFieldsProofs`.** Three invariants beside the types. `TextInv`: until an answer is overtaken, every
  answer that can still be shown (the timer's, the latest request's, those being read) is of the N-number
  in the field. `ToldInv`: a POST that was not answered "created"
  has left no row, whether its answer is under way (`AnswersInv`) or was heard (`MessageInv`), and no other has its number
  (`NumbersInv`), so what the form was told stays so when a POST it gave up is served later. `RecordInv`: while requests on a field do not
  overlap, nothing is shown of a field that is being decided, a recorded decision is the row of the
  table and the load of the page meets no decision. `SearchInv` does for the search box what `TextInv` does for the
  lookup, with a mark on the answers whose body was not read; the module extends `FaaSearch` too.
- **`ImportWizardProofs`.** `VerdictOfItsJob` from an invariant on the one call in flight; `UploadsAreWellFormed`
  by reading `validateMappingConfig` against `buildMappingConfig` binding by binding. The module extends
  `ImportRows` too. `StagedRowsAreSound`: the claims of a mapping without issues have one source per target, and its
  columns are in the header, hence, as a parser gives every row the columns of the header, in every row.
  `CleanBatchesGoIn` relates the two folds of an import, the one that stages the rows and the one that inserts
  them, each through the chain of its accumulators as in `AirworthinessProofs`. `Promised` says what a preview
  without errors establishes about the rows of each table (`StagedPromise`): a limit that rounds to nothing is
  a TBO of hours, certificates and templates exist, a reading is not below an earlier one of its aircraft
  unless it overrides (`ReadingsRise`, by way of the high-water marks), and what the row was judged by, read with its
  blanks trimmed, is what is inserted when there are no blanks to trim. `AircraftGoIn`, `ComponentsGoIn`,
  `MaintenanceGoesIn` and `FlightsGoIn` show that rows with that promise and without the faults of
  `LeftToTheDatabase` are inserted one after the other. `PreviewInv` carries the promise from the parse to the
  commit as long as nothing has moved.

Assumptions are the `ASSUME`s of the modules: that NULL is not a value, that
the numbers are natural and a request may be made, that there are finitely many e-mails, that a table or
constant function has its domain; of the programs, what a CHECK of migration 0010 and the engine's own refusal of other
calendar units leave (`ProgramsAssumption`); of mappings and files, the types of `mapping-config.ts`
and that a parser gives every row the columns of the header (`CasesAssumption`); of the tenant's tables, that
every aircraft has a total, that the job's regime is one of the regimes, and that a year of manufacture fits an
`integer` (`WorldsAssumption`).

Proved and in no run, as the runs' properties follow from or imply them on the small instances:
the type invariants, the finality and wholeness of a committed job (part of `LifecycleSpec`),
that the logbook shows the total of the profile (`LogbookShowsTotal`) and the regime log the regime
(`RegimeLogShowsPresent`), that a resolved squawk stays resolved and a late resolution is
refused, that a revocation is never undone, that a signature is frozen, that history and current
table agree (`LiveRowIsCurrent`).

Only model-checked: the liveness properties (`ValidatingIsLeft`,
`SelectedIsSettled`, `AuditIsClosed`, `SubmittingEnds`, `SearchSettles`) and everything
about `ENABLED`. Every other property of a passing run is proved.

## 5. Not modelled

- Wording, layout, logging, templates, rendered text of entries, photos.
- Row-level security, and several tenants except in `TenantProvisioning`; sessions and permissions:
  the models take requests as admitted.
- Of the importer: how bytes become a table (a file is a table, or cannot be read), letter case,
  digits read as a date and time, the first twelve days of a month in dates with slashes (either layout reads
  them), years before 1, ids that belong to another tenant. Of the wizard: sheet
  name, regime override, the choice of a date format, sample rows.
- Documents: the file is stored before its row, so a request that fails between the two
  leaves a file that no row names (`imports-handler.ts:385`); nothing sweeps them.
- Components and edits of an aircraft's profile: no route calls `component-service.ts` or
  `updateAirframeTotalTime`, so there is no schedule of callers to model.
  `commitManualRow` is not called either; it is in `ImportJob` because it writes the table
  the commit guards.
- An exception of one tenant that ends the sweep for the tenants after it
  (`engine.ts:90`, an unknown unit): the model has one subscription.
- Historical maintenance entries, which the importer writes already signed, are in `ImportRows` only.
- Certificate numbers and ratings of credentials.
- Reloads of the browser's pages, except the aircraft's page in `FieldDecisions`.
- Everything listed as `not_modelled` in `PROJECT.json`.

## 6. Plan

Done, in the order of what matters most: `ImportJob`, `NotificationOutbox`, `Airworthiness`,
`SignOff` and `TenantProvisioning` with their proofs; then `FaaRegistry` with proofs, the browser's side of imports,
provisioning and the FAA (`ImportWizard`, `ProvisionTenantForm`, `FaaFields`, `FaaSearch`) and the
rows of an import (`ImportRows`), with proofs of all their safety properties. What is left:

1. `Documents`: the object store and its metadata rows, for imports and attachments.
2. Several subscriptions in the sweep, with one that throws; the due list as a refinement of an
   instantaneous one.
