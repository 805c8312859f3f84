# A verification project for bantAI

bantAI warns Philippine phone users of scam text messages.  A phone sends a
message to the backend, which classifies it (or lets the cloud model do so
later), raises alerts, and lets the user block senders and report messages.
What users report becomes training data; models are retrained, reviewed and
activated.  Organizations apply for access to the resulting intelligence, pay
through Stripe, and use it in a web portal or with API keys.

This directory models the parts of that system where processes, databases,
queues, external services and people meet.  TLC checks the models on small
instances; TLAPS proves most of their safety properties for every instance.

## 1. Inventory

### Components

`PROJECT.json` lists every component with its sources, its status and what is
left out of it, and every hazard with its line and the properties that cover it.

| Component (under `src/`) | State it keeps | What makes it correct | Modules |
|---|---|---|---|
| Cloud verification (`backend/src/cloud-verification`) | a job row per message, which is its own outbox; an Azure queue; leases | no work lost, results final, leases exclusive, attempts paid for | `CloudVerification`, `StorageQueue`, `VerificationPromise` |
| Admission ledger (same service) | admission rows | daily and monthly limits under concurrency | `AdmissionBudget` |
| SMS ingest, blocked senders, user reports (`sms`, `blocked-numbers`, `reports`) | message, classification, alerts, blocks | one alert per message, trusted verdicts replace telemetry once | `SmsIngest`, `SmsRecord` |
| Data retention | - | purges whole messages with what hangs on them | an action of `CloudVerification`, `Campaigns`, `Datasets`, `SenderReputation` |
| Sender verification (`verification`) | sender reports, cached answers, trusted organizations | fraud only on two users' word; a confirmed fraud stands | `SenderReputation` |
| One-time codes, sign-in (`auth`) | one challenge row per phone, or e-mail and purpose | a code works once, in time; few guesses, few sends | `OtpChallenge` |
| Access requests, checkout (`access-requests`, `payments`) | applications, pinned Stripe sessions | paid means active, nobody pays twice | `Checkout` |
| Licences and their expiry (same) | licence rows | events in any order keep paid time | `Licence` |
| Workspaces (`portal-organizations`, sign-in) | members, invitations, owner | revoked invitations let nobody in | `Workspace` |
| Shield API keys (`shield-api-keys`) | keys, usage records | quotas under concurrency | `ShieldApi` |
| Campaigns, waves (`campaigns`) | campaigns and their messages | what is published is reviewed, what is archived hidden | `Campaigns` |
| Model versions (`models`) | versions with their evidence | assessed bytes are approved, one version serves | `ModelRegistry` |
| Retraining control (`retraining`) | jobs, investigations | accepted jobs are queued, closed is closed | `Retraining` |
| Queue of the AI service (`ai/service/retrain_queue.py`) | a file and its lock file | no demand queued twice | `RetrainQueue` |
| Datasets, consent (`datasets`, `users`) | samples, revisions, snapshots | snapshots can be traced to reviewers | `Datasets` |
| Android message pipeline and workers (`mobile`) | one verdict row per message | the user's filing is replaced only by verdicts under way when it was made | `PhoneVerdicts` |
| Notifications, account state, audit, AI gateway, analytics, tips, training pipeline, model inference, web portal, infrastructure | rows nothing is decided from, or none | | not modelled (section 7) |

### How they interact

A request of the phone (`SmsService.ingest`) writes message, classification and
alert and, in the same transaction, the verification job; after the commit it
publishes the job.  Consumers in other processes take deliveries from the
queue, claim the job with a lease, ask the AI service over HTTP, and commit
classification and alert in one transaction with the end of the job; a
scheduled repair process publishes forgotten jobs and ends spent ones.  Ingest
also links the message to a campaign, which administrators merge, split, archive
and publish meanwhile, and asks what is known of its sender, which other users
report and administrators confirm.  Reports and labels become dataset samples;
a snapshot of them goes with a retraining job to a file queue of the AI service;
the pipeline registers a version, which administrators approve and activate.

An applicant's request is reviewed, gets a Stripe checkout, and becomes active by
a webhook; later webhooks and an hourly job move its licence, which opens a
workspace for the applicant, who invites others, and Shield keys for programs.

Nothing is shared but the database, the queues and the external services, so
every statement of one actor can fall between two statements of another.  That is
the grain of the models: a step is one database statement, one transaction whose
isolation level or row locks make it atomic, or one answer of somebody else.

### What is hard here

- Decisions taken from a read before a long call: a model call of minutes, a
  retraining request of 35 seconds, a Stripe session, a sender lookup.
- Leases that end while their owner works; deliveries that are duplicated, lost,
  or whose receipt was replaced; sends whose bookkeeping fails; a repair run that
  works through an old selection.
- Stripe events that arrive late, twice and out of order, next to cancellations,
  expiries and second checkouts.
- Counting under a limit across replicas, days and months.
- A lock file whose owner dies, and callers that go on without it.
- Two administrators with the same page open, everywhere.
- On the phone, six coroutines that may write the same verdict, two of them for messages
  they chose minutes before.

## 2. Modules

`SmsIngest` EXTENDS `CloudVerification` and interleaves its actions with that
module's `Next`; `CloudVerification` uses the operators of `StorageQueue` and
`SmsRecord`, and instantiates `VerificationPromise` under a refinement mapping.
`AdmissionBudget` instantiates `AdmissionLedger` likewise.
The other modules share no data with these or with one another.  An `MC` module
gives model values and symmetry.  Three of them are sums: `MCServices` (codes,
registry, retraining, datasets, workspace, reputation), `MCOperations` (checkout,
Shield, campaigns, file queue, phone) and `MCPortal` (checkout, licence,
admissions, file queue, with fairness).  In a sum, a variable `part` says whose
behaviour it is and the other parts rest, so its state graph is the disjoint
union of the parts' graphs.

**`CloudVerification`.** `job[m]` is the `CloudVerificationJob` row.  Clocks are
flags that change in steps of their own: `due` (availableAt passed), `live` (the
lease has not run out), `published` (null, recent, older than a day).  `queue`
holds deliveries in `Slots`, and `holder` is who has the current receipt.
`worker[w].pc` is the place in `processQueueMessage`; `error` is its catch block,
which looks again and goes to `fail`, `backoff` or `delete`; `WorkerRenews` is the
interval timer beside it.  `pub[p].pc` is the place in `publishAfterCommit` of each
request and of the repair run, whose `repair` is what is left of its selection.
`admitted` counts admissions, `credit` (history) the inference calls paid for and
not yet used.  An admission is one step here; that the transaction amounts to one is
what `AdmissionBudget` shows.  `faults` counts crashes, outages and lost deliveries.

**`SmsIngest`.** `ingest[r]` keeps what a request read before its transaction (the
sender's block, the model's verdict) and at its start.  `IngestUpdates`,
`IngestInserts`, `IngestClashes` and `IngestFails` are the outcomes of the
transaction.  The user blocks, unblocks and reports; a sender is confirmed as fraud.

**`VerificationPromise`.** What a caller may rely on: a message is asked for, attempted
and ends verified or failed within its attempts.  `Vouch`, of `VouchedNext` only, is the
message that arrives with the model's own verdict and is verified from the start: ingest
makes such jobs, the machinery alone never does.

**`AdmissionBudget`, `AdmissionLedger`.** A call looks its key up, waits for the advisory
lock, looks again, counts, inserts and commits, or aborts anywhere.  A calendar maps days
to months, and midnight may fall between any two statements.  `AdmissionLedger` knows no
transactions: a key is admitted, or its caller refused, in one step, on the budget as it
is then.

**`SenderReputation`.** `inquiry[q]` is the place of a `verifySender` call: it has
read the cached entry, or waits for the external service.  `ruling[a]` is the place
of `confirmFraud`: it counts reports, checks trusted organizations, and marks.
Reports are rows per user and window of 30 days; accounts are deleted with theirs.

**`OtpChallenge`.** `challenge` is the row of one phone number, or of one e-mail
address and purpose; both flows write it alike.  A call reads the clock, then
commits its serializable transaction in one step, at most `Lag` later; a request
then hands its code to the delivery service and, when that fails, ends it with a
guarded update.  `sent` (history) has one row for each code that was stored to be sent.

**`Checkout`.** `status`, `pinned`, `releases` and `token` are the request's row;
`handler[h]` is a call of `PaymentsService` between two awaits (open a session,
attach it, cancel, remove); sessions and events are Stripe's.  An event is repeated
until it is answered with 2xx, and at times after that.

**`Licence`.** `subscription` and `events` are Stripe's; `handling[c]` is a webhook
call between its read and its update by id, `job` the hourly expiry between its
selection and its update.  The clock counts in the units of Stripe's timestamps.

**`Workspace`.** `desk[d]` is a call that has read the workspace and will write one
row: an invitation, a removal, a transfer of ownership, a revocation.  Claims of the
applicant and the acceptance of invitations are serializable.

**`ShieldApi`.** `guard[c]` is a request between the awaits of the guard: key,
limits and licence; membership; the count and the record under the account's lock.
`requests` are the recorded rows, numbered within a key and a tick.  The minute looks
back `MinuteTicks` and includes both its ends, as the query's `gte` does; `MonthOf` is
the calendar.

**`Campaigns`.** `admin[a]` is an administrator's call that has read a campaign or
a message (publication, domains, archiving, correction); `send[r]` an ingest that has
matched a campaign and then locks it; the wave pass selects, joins or creates.  A
merge or a split locks before it reads and is one step.

**`ModelRegistry`.** `stage`, `bytes`, `complete` and `active` are the versions'
rows; `review[a]` is a call that has loaded a version, and for a confirmation has
asked what the AI service serves, demoted, and will promote.

**`Retraining`, `RetrainQueue`.** `request[p]` is the one retraining request of a
server, from the advisory lock over the call to the AI service to the update of the
job and the link to its investigation; `edit[e]` an update of an investigation that
has read it.  In the file queue, `visit[d]` is a thread or process at the lock file,
with what it read of the queue; callers die, lose patience, and break stale locks.

**`Datasets`.** `curator[c]` holds what a call of an administrator found in the review
queue and will store; samples have versions and revisions; snapshots freeze them;
`setting[u]` is a change of the user's consent, whose time is taken before it is
stored.

**`PhoneVerdicts`.** `classification` is the message's row; `pass[p]` is each of the
six writers between its read and its write.  The two screens choose a batch of
messages from one read (`ScanChooses`, `BackfillChooses`) and send each later without
reading its row again (`HistoryAsks`): 700 ms apart, and after up to three waits of a
minute when nobody answers (`JudgesNot` back to "chosen").  `early` (history) tells how
far each pass was when the user's last call was stored: nowhere, the message chosen, or
already asked or past its last look.

Each definition's lines are in `PROJECT.json`, and each module's header says what
it simplifies.

## 3. Runs

| Run | Question | Bounds |
|---|---|---|
| `machinery` | Are leases, attempts, inference budget, alerts and results of verification sound in every interleaving, and does the machinery implement `VerificationPromise`? | 1 message, 2 workers, 1 slot, 1 request, 2 attempts; two admissions and no fault, or one admission and one fault |
| `no_lost_work` | Is every accepted job finished and every delivery consumed in the end, whatever fails? | 1 worker, 1 request, 2 attempts, 2 admissions, 1 fault, fair |
| `ingest` | Does ingest alert once, and does verified mean that the model's verdict is stored? | 2 requests on new and stored rows, or 1 request and 1 worker |
| `services` | Codes, registry, retraining, datasets, workspace, reputation: 8 invariants and 5 action properties | codes: 2 calls, 2 codes, 2 guesses, 2 sends in a window of 2 ticks, 3 ticks, lag 1; registry: 2 versions, 2 digests, 2 reviewers; retraining: 2 servers, 2 jobs, 1 investigation, 2 editors; datasets: 1 message (2 samples), 2 curators, 1 settings call, 1 snapshot, 3 revisions; workspace: 2 people, 1 invitation, 2 desks, 2 seats; reputation: 2 reporters, 2 administrators, 1 inquiry, 2 windows |
| `operations` | Checkout, API keys, campaigns, file queue, phone: 7 invariants and 2 action properties | checkout: 1 request with 2 calls, or 2 requests with 1 call, 1 release; Shield: 2 keys, 2 calls, 1 rotation, a minute of 1 tick, 2 months in ticks 0 to 2; campaigns: 2, 1 message, 1 administrator's call, 1 ingest; queue: 2 callers, 2 demands, 3 calls, 1 death; phone: 1 report |
| `portal` | Is a paid checkout served, a lapse recorded, and does every wait for a lock end; with the safety of licences and admissions, and do the admissions implement `AdmissionLedger`? | checkout: 1 request, 1 call; licence: 2 webhook calls, 2 changes, 3 times; admissions: 2 callers, 3 keys, 3 days in 2 months, or 3 callers on one day; queue: 2 callers, 2 calls, 1 death |
| `duplicate_alert`, `charged_without_access`, `closed_reopened`, `unreviewed_publication`, `user_call`, `fraud_overwritten` | disagreements with what the repository says (section 6) | as small as shows them |

**Why the bounds are enough.** Jobs of different messages share only the queue, the
workers and the budget, so one message with two workers, a publisher and the repair
run already has every conflict over a row; two attempts make a first, a last and a
spent one; two admissions allow a retry after a failure; one slot lets a delivery be
received again by the second worker, which gives stale receipts; one fault reaches
every single failure.  In the other parts every conflict is between two calls over one
row, or over two rows under one rule (a second request, key, version or campaign), and
there are two of each where the rule speaks of several.  Clocks run over one window
boundary more than the rule looks back.  Where a property is proved (section 4), the
proof covers every value of the constants, and the run is there to test its
formulation; the properties that are only checked are named there.  Type invariants are
left to their theorems.

**Symmetry** is used only in runs without liveness: over workers and slots, requests,
or the model values that calls (`Actors`) and rows (`Rows`) share.

`CHECK_DEADLOCK FALSE` stands everywhere because every part may rest: all jobs done,
nothing queued, and the bounds on faults, calls and time used up.

### Fairness

- `CloudVerification!FairSpec`: consumers poll for ever (`pollLoop`), each await
  ends (HTTP and model calls have timeouts), the repair job starts every day, clocks
  advance, and the queue passes over no delivery for ever (strong fairness of
  `Receive`).  Nothing is assumed of users, of the model's answers, or of faults.
- `AdmissionBudget!Fairness`: a statement that can run does, and the database hands
  the advisory lock to waiting callers in turn.
- `CheckoutFairness`: Stripe repeats an event until it is acknowledged.
- `LicenceFairness`: the job runs every hour (weak fairness of its selection), and
  does not die every time (strong fairness of its update).
- `QueueFairness`: a running caller's next step comes, and so does time.

## 4. What is proved

Eight `_proofs` modules, for every value of the constants that satisfies the named
assumptions of the modules (`CloudAssumption`, `QueueAssumption`, `IngestAssumption`,
`AdmissionAssumption`, `OtpAssumption`, `CheckoutAssumption`, `LicenceAssumption`,
`WorkspaceAssumption`, `ShieldAssumption`, `CampaignAssumption`, `ModelAssumption`, `RetrainAssumption`,
`RetrainQueueAssumption`, `DatasetAssumption`, `ReportsAssumption`,
`ReputationAssumption`): limits and bounds are naturals, placeholders differ from
real values, the calendar is nondecreasing, callers of the file queue and reporters
are finitely many.  TLC evaluates each assumption in the runs.  Every module has its
type invariant proved; the other results, with what makes them inductive:

- **`CloudVerification_proofs`.**  `RowMoves` is the heart: a step changes a job's row
  in one of eleven ways (opened, refused, published, exhausted, taken back, claimed,
  given up, verified, renewed, aged, purged), each with its guard; the theorems reason
  about these instead of the actions.  `LeaseCorrect` is inductive with `TypeOK`, and
  gives `VerifiedForGood` and `LiveLeaseSafe`.  `InferenceBounded`: nonnegative credit
  is not inductive; `CreditCovers` adds that an open job's credit covers the attempts
  it has left.  `FailsOnceSpent`: a worker in the catch block acts on an older look;
  `FailMeansSpent` says that if the row is still its own, nothing has changed.
  `AlertsOnce` adds `SeenIsCurrent`: without ingests, what a worker saw of the alerts
  is still so while the job is its own.
  `MachineryKeepsPromise` is the refinement: the initial states map to initial states
  of `VerificationPromise`, every step to one of its steps or to a stutter (with `AbsentIsNew`: a message without a
  job starts from zero attempts).
  For `SmsIngest`, `IngestInv` (types, `LeaseMeansProcessing`, `RecordsFit`,
  `LooksHold`) carries what a request read at the start of its transaction, and yields
  `IngestAlertsOnce` (a second alert comes only with a worker's verdict, and a third
  never) and `VerifiedHasVerdict`.

  What was proved of the machinery alone is then carried over to the whole, where
  ingests write jobs and messages too.  `IngestMoves` says what ingest does to the
  machinery's state: it makes a job that is missing (`CreatedRows`) and touches neither
  another job nor a worker, so the step lemmas of the theorems above apply
  (`AllMoves`), and their invariants stay inductive (`WholeInvariant`).  Hence
  `FinalWithIngest`, `LeaseSafeWithIngest`, `FailsSpentWithIngest`, `BoundedWithIngest`
  and `WholeKeepsPromise`, the refinement of `VerificationPromise` with vouched
  verdicts (`KeepsVouchedPromise`).  `AlertsOnce` is not among them: with ingest at
  work it fails, which is finding 1, and `IngestAlertsOnce` is what remains of it.
- **`AdmissionBudget_proofs`.**  Whoever has counted holds the lock, its key is new,
  and the room it found lasts until its row is committed, on whichever day that is.
  Hence `BudgetHolds`, `AdmittedOnce`, `AdmittedIsNotRefused`.
  `OneStepAdmissions` is the refinement of `AdmissionLedger`: a commit is `Admit`, a
  negative count `Refuse`, everything else a stutter.  The code counts rows *since* the
  start of the day, so it needs `DaysArePast` (nothing is stamped with a day to come),
  which makes that count the count of today (`CountedIsToday`).  This is what allows
  `CloudVerification` to admit in one step.

  Of `ShieldApi`, `OneAtATime`: the account's lock lets one request at a time count and
  record.  The limits of a span of time are inductive with `CountIsFresh` (whoever has
  counted still finds room, for no other request can record) and the observation that a
  row is stamped no earlier than its call's clock, so every minute, and the month, that
  it falls in lies in what was counted.  Hence `MinuteLimit`, `MonthlyQuota`, and
  `RecordsFit`, their form for limits that change: a recorded request respects the
  limits its own call has read.
- **`OtpChallenge_proofs`.**  A consumed code was entered or withdrawn, the row counts
  every guess, and requests under way hold different codes, none given up; so no
  pending failure can end a code that was delivered.  Hence `SingleUse`, `GuessLimit`,
  `FailedDelivery`, `Expiry`.  `SendLimit` rests on `SendsAreDivided`: the sends fall into
  those of the row's window, which the row counts, and earlier ones, of which those close
  enough to be seen in one hour with the window number no more than one window allows.
  Nobody records this division; the invariant says that there is one, and a step
  that opens a window gives the new one.
- **`Checkout_proofs`.**  `PinsHold` (a request has its own session pinned exactly while it
  is to be paid or after), `HandedHold` (only sessions whose URL was handed out are paid,
  and of a request one at most still can be), `CallsHold` (what a call between two awaits
  still knows) and `EventsHold` (an event says paid only of what is).  Hence `AccessPaid`,
  `OneOpen`, `ChargedOnce`, `WithdrawnUnpaid`.
- **`Licence_proofs`.**  `EndsAreOver`: a call about to cancel, and the job about to
  expire, has seen the end of the period go by; hence `NoPaidTimeLost`.  For workspaces, `JoinsAreOpen` reads each way of becoming a member
  off the actions, and `RevokedStaysOut` follows.
- **`ModelLifecycle_proofs`.**  Registry: `CallsAreSound` (what a call loaded still
  restricts the row) with `FlagFollowsStatus`; hence `OneTruth`, `AssessedBytes`,
  `StaysActive`.  Retraining: `RequestsAreSound`, `EditsAreSound`; hence `JobsAreQueued`
  and `ReopenedByRequest`, which confines finding 3: no edit reopens a closed
  investigation, only a late request for it.
  File queue: `LockIsHeld`, `DemandIsNew`, `QueuedApart`, `OutgrownByAdding` (the waiting jobs and
  those about to add one stay within what callers had seen room for); hence `LockedQueue`.  Datasets:
  `CoversAreReceived`, `ReadingsAreSound`; hence `Traceable`.
- **`Campaigns_proofs`.**  `LocksHold`: a campaign that an ingest has locked is
  served until that ingest ends; hence `Hidden`, `ServedLinks`.
- **`PhoneVerdicts_proofs`.**  `UsersRowIsSafe`: while the row is the user's (and not filed
  as unknown), only passes that had chosen the message before may still send or write it,
  since neither screen chooses such a row and the bundled model's verdict is refused in the
  statement that would store it; hence `FilingStands`, which confines finding 5.  For senders, `ReportsAreNamed` and
  `RulingsAreBased` (a review past its count rests on two people's reports in its
  window); hence `TwoReporters`.  `OnlyEarlierReplace` confines finding 6: while a
  confirmed fraud stands no inquiry begins, and only one that had begun before replaces it.

Only model-checked: the liveness properties (`NoWorkIsLost`, `DeliveriesDrain`,
`PaidIsServed`, `LapseIsRecorded`, `EveryCallReturns`, `EveryVisitEnds`), since fairness
is out of the prover's reach.  Every invariant and action property of a passing run is a
theorem.  Some theorems have no run of their own: `KeepsVouchedPromise` and the theorems
of the machinery with ingest were checked on the bounds of `ingest` (the former with no
sender confirmed as fraud), and
`OnlyEarlierInquiriesReplace` on those of `fraud_overwritten`, before they were proved.

## 5. Properties and hazards

Properties stand at the end of the module they are about, each with the behaviour of
the code it speaks of.  Each has a mutant in `PROJECT.json`: a plausible mistake in a
mapped definition with which TLC finds the property violated in its run.  The mutants
are defined in the modules, right before what they mutate.

Of the hazards in `PROJECT.json`, most name the properties that would catch them going
wrong.  The others have a note: the code permits what the hazard says, the model shows
it, and either it is a remark of section 6 or nothing in the repository says it must not
be.

## 6. Findings

Each has a run that ends in the violation, and quotes the line it contradicts in
`PROJECT.json`.

1. `duplicate_alert` (`cloud-verification.service.ts:701`): a worker decides from alerts
   it read before the model call; an ingest that promotes the message meanwhile leaves
   two alerts.
2. `charged_without_access` (`payments.service.ts:310`): a cancellation asks whether the
   session is paid; one that is complete while its payment is processing is neither
   expired nor activated, the request is cancelled, and the money arrives.
3. `closed_reopened` (`retraining.service.ts:424`): a retraining request for an
   investigation sets it to INVESTIGATING by id when it returns, also if it was closed
   in the meantime.
4. `unreviewed_publication` (`campaigns.service.ts:278`): a publication checks a text and
   publishes the campaign if it is not archived; an edit in between is published
   unchecked.
5. `user_call` (`SmsIngestPipeline.kt:422`): a server's verdict asked for after the user's
   call was stored replaces it, in two ways: the matching of the Campaigns screen takes a
   scam report that is filed as unknown for a message to match; and a scan or a matching
   that had the message in its batch sends it later without another look, whatever the
   user filed it as.  `FiledCallStands` excepts these two and shows that there is no third.
6. `fraud_overwritten` (`verification.service.ts:87`): an inquiry stores what the external
   service said over an administrator's confirmation of fraud made meanwhile.

### Remarks without a run

The models show these; nothing in the repository clearly says otherwise, or the line
that does would only be a comment on a neighbouring case.

- `sms.service.ts:111`: ingest creates the alert from a block it read before its
  transaction; a sender blocked meanwhile keeps a pending alert.
- `cloud-verification.service.ts:575`: the catch block poisons and deletes whatever its
  guarded update did, so a worker that lost its lease poisons the job whose last attempt
  another worker is making.
- `cloud-verification.service.ts:707`: the worker's verdict of a harmless message removes
  the warning that ingest raised for a sender confirmed as fraud.
- Ingest classifies with the domains of the message and the worker does not, so the later
  verdict rests on less; and the worker's commit writes the classification before the
  message, ingest's promotion the other way round, so the database may have to break a
  deadlock between them (a failed attempt, which is retried).
- `auth.service.ts:1119` says an undelivered code must never remain usable; a replica that
  stops between storing a code and ending it leaves one until it expires.  Nobody has
  received it, and guesses stay limited.
- `verification.service.ts:341`: an account deleted between the count of reports and the
  mark leaves a mark that rests on fewer remaining reports than two (two users did report,
  which is what `FraudNeedsTwoReporters` says).  And `users.service.ts:69`: deleting the
  account of somebody who reported the sender in one window removes a mark that rests on
  two reports of another.
- `campaigns/emerging-waves.service.ts:192`: the pass compares the messages' cluster but
  not the wave it joins, so messages may be put into a wave archived or merged since.
- `shield-api-key.service.ts:291`: two rotations of one key both revoke it and leave two
  new ones.
- `portal-organizations-customer.service.ts:264`: a removal deletes a member who became the
  owner after it looked; `ownerId` then names no member.  Members invite up to the
  licence's seats, administrators up to another limit, and both read before they write.
- `ClassificationStore.kt:65`: a row is found liftable in one statement and written in
  another; and the offline cautions of the phone may be written over a verdict in between.
- `users.service.ts:24`: two overlapping changes of the training consent both decide from
  the consent they read, and stamp a time before it is stored.

## 7. Not modelled

Simplifications are named in the module headers.  Beyond them:

- Single reads and single-row writes that no other decision is taken from: notifications,
  audit records, analytics, tips, admin lists, account setup and account state, listings.
  Their correctness is a matter of one statement, which a unit test reaches.
- The training pipeline and the inference of the AI service: numerical and sequential;
  their answers and failures are choices of the callers that are modelled.  Drift
  statistics likewise.
- The web portal and the screens of the Android app: they show what the API and the local
  database say and keep nothing that others decide from; of the app, the passes that write
  verdicts are modelled.  Most of the repository's lines are of this kind.
- Matching and grouping of texts, masking, wording, secrets and tokens, e-mails: data whose
  content no property distinguishes; what they decide is a choice in the models.
- Review of legacy contracts, the legacy payment path, contacts: sequences of single-row
  writes by one actor.
- Isolation is that of PostgreSQL as the code asks for it: a serializable transaction that
  is retried, and a transaction that locks its rows before reading them, is one step; a
  READ COMMITTED one that reads and then writes by id is two.  The worker's commit reads
  the sender's block without a lock on it and is one step here.

## 8. Running

    cd tla
    tlc -config CloudVerification_machinery.cfg MCMachinery.tla
    tlc -config Services.cfg MCServices.tla
    tlapm PhoneVerdicts_proofs.tla

`PROJECT.json` pairs each run with its module and configuration.  The longest runs take
about three minutes with two workers; `CloudVerification_proofs` takes the longest to
prove.
