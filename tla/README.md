# Formal models of Maia

Maia answers the customers of real-estate brokerages over WhatsApp and
Messenger, books visits on Advisors' calendars and writes to Contacts on behalf
of an Administrator.  The model that writes the texts (Hermes) is never trusted
with a side effect: the Python program in `src/src/realestate` decides what is
sent, to whom and when, and PostgreSQL is the only thing its parts share.  This
directory holds TLA+ models of those decisions, their TLC runs and machine
checked proofs.  Paths below are relative to `src/src/realestate` unless they
begin with `src/`.

## 1. The system

### 1.1 Processes

* One process serves everything: uvicorn with one worker
  (`src/docker/product.Dockerfile`), one asyncio event loop.
* One background loop (`worker/loop.py`) runs `tick` of `app.py` again and
  again.  A tick calls its responsibilities **in sequence**: recovery of
  calendar attempts, lead worker (inbox, then Outbox), website conversations,
  follow-ups, commercial upkeep, external inventory, reactivation and
  campaigns, analytics and sponsorship, market intelligence, platform upkeep,
  retention, human operations, Telegram administration, broker notifications.
* HTTP handlers run **concurrently** with the loop and with each other:
  webhooks (messages, delivery callbacks), the human CRM, and the tools the
  model calls during a turn (`api/plugin.py`).
* Transactions are READ COMMITTED with `expire_on_commit=False`: a row object
  keeps the values it was loaded with after its transaction, and its lock, are
  gone.  Most races below come from that.
* Not transactional: Hermes, the channel providers, Google Calendar, Telegram.

### 1.2 Components

| Component (code) | State it keeps | Operations | What is hard | What makes it correct | Model |
|---|---|---|---|---|---|
| Inbox lane (`domain/inbox.py`, `worker/whatsapp.py`) | inbox messages, leased groups, attempts, timers | accept, claim, adopt, settle, fail, recover | a turn of minutes between two commits; late messages; crashes; humans taking over | no message stranded, reopened, silently acknowledged or answered twice; the human wins | `InboxLane` |
| Hermes sessions (`hermes/sessions.py`, `hermes/client.py`) | durable session of a cycle, run in flight | run a turn, inject late messages | injection refused or unanswered, timeout | the reply's trigger list is what the model really heard | `InboxLane` (one turn) |
| Handling (`domain/commercial/handling.py`) | one mode per Conversation | take, release, grant to an Advisor | row created lazily; lock across a turn | Maia and a human never both answer | `HumanAuthority`, `InboxLane` |
| Handoff, routing, alerts (`handoff.py`, `routing.py`, `domain/internal_alerts.py`, `worker/operations.py`) | requests for a person, alerts with claims and attempts | request, acknowledge, escalate, claim, deliver | escalation against acknowledgement; a worker that dies with a batch; no channel | who asked is not answered by Maia and not forgotten | `HumanAuthority` |
| Outbox and drain (`domain/outbox.py`, `worker/whatsapp.py`) | outbox rows, attempts | stage, claim, record, requeue, quarantine | provider answers lost, crash in a batch | at most one visible message per row; a true ledger | `OutboxDelivery` |
| Eligibility gate (`domain/outbound.py`) | suppressions, denials | request, prepare delivery | state that changes between staging and delivery | nothing sent after a stop | `OutboxDelivery` |
| Engagement (`domain/engagement/*`, `worker/engagement.py`) | candidates, campaigns, members, touches | scan, authorize, plan, resolve, activate, pause, cancel, dispatch | pause and resume, several campaigns on one Contact | at most one message per Contact and campaign; the frequency cap | `Engagement` |
| Appointments (`domain/scheduling/*`, `domain/appointments.py`) | appointments, notices | book, reschedule, cancel, recover, resolve, notify | two-phase work with an external calendar | calendar and table agree; the Contact hears the truth | `AppointmentBooking` |
| Agenda (same code, with `assignment.py`, `appointment_handoff.py`) | times shown, responsible Advisor, attendance, follow-up | quote, book, move, attend, conclude | rows loaded before two awaits and used after | a visit has somebody to receive it and leaves a follow-up | `VisitDesk` |
| Opportunities, assignment, next actions, team (`domain/commercial/*`) | stage, owner and queue, action or exception, presence, fallback | open, assign, complete, transition, deactivate, maintain | objects kept across locks; team read without one | nothing qualified lies about without owner or next step | `CommercialWork` |
| Needs, identity, retention (`needs.py`, `identity.py`, `retention.py`) | criteria and their evidence, confirmation clock, message bodies | record, confirm, expire | two writers without a lock, evidence that expires | no inference becomes truth by itself | `ContactNeeds` |
| Catalog and administrative work (`domain/catalog/*`, `administration.py`, `admin_work.py`) | Listings, offers, Property status, reviews | publish, commit, withdraw, review | a withdrawal against a booking in flight; moves that write without the lock | a review that is done is about a visit that is off | `Catalog` |
| Listing photographs (`domain/catalog/media.py`) | rows and stored objects | upload, cover, revoke, purge | storage outside the transaction | what was deleted stays deleted | `ListingMedia` |
| Property Documents (`domain/properties.py`) | artifacts, public copy, versions | accept, compensate | two files before the rows | an accepted document can be read under its number | `PropertyIngestion` |
| Broker's notices (`domain/notifications.py`, `worker/broker.py`) | stamps on visits | notice, digest, reminder | a crash between sending and stamping, an answer of Telegram that is lost | nothing is repeated but what a crash or a lost answer costs | `BrokerNotices` |
| Administration channel (`worker/telegram.py`) | cursor, update log | record, act, reply | redelivery, a crash at any step | an order is carried out once | `AdminChannel` |
| Follow-ups and reminders (`domain/followups.py`, `scheduling/reminders.py`) | attempts, decisions, reminders | pick, attempt, settle | two workers, a crash in between | message, decision and row stand and fall together | `ScheduledContact` |
| Journeys and market data (`domain/journeys.py`, `domain/market_intelligence.py`) | milestones, sale and profile versions, contributions | start, confirm, conclude, project | order of contributions is not order of versions | the dataset ends with the newest version | `PurchaseJourney` |
| External inventory (`domain/external_inventory/*`) | listings, evidence, withdrawals | synchronize, confirm, revalidate, purge | the source answers before the lock | nothing is offered that a newer answer withdrew | `ExternalInventory` |
| Website (`domain/public/*`, `worker/website.py`) | turns, references, collections | post, answer, close, erase, redeem, save, protect | an answer to a chat that ends; two browsers | a turn ends once; protection loses nothing | `WebsiteChat`, `SavedCollections` |
| Sponsorship (`domain/sponsorship/*`) | quotes, reservations, campaigns | set a limit, quote, accept, activate, pause, count | capacity at its limit | accepted reservations fit | `Sponsorship` |
| Analytics (`domain/analytics/*`) | events, projections, cells | emit, project, replay | overlapping recomputations | a cell counts what is stored | `Measurement` |
| Provisioning (`domain/platform/provisioning.py`) | runs, bindings, Organization status | start, resume, roll back, suspend, retire | seven commits, failure between any two, calls of one key that overlap | no step of a completed run was left out | `Provisioning` |
| Platform upkeep (`lifecycle.py`, `entitlements.py`, `usage.py`, `imports.py`, `support.py`, `configuration.py`, `credentials.py`) | holds, deletions, exports, capabilities, runs, grants, versions, references | see section 2.7 | checks before locks, commands sent twice | one answer to what is in force; what was refused stays refused | `DataLifecycle`, `Entitlements`, `OrganizationImport`, `SupportAccess`, `OrganizationSetup` |
| Channel clients | none | classify the outcome of a send | lost answers | an unknown outcome is never a retry | in `OutboxDelivery` |
| Idempotency keys, catalog projection, HTTP API, plugin, site, observability | none that others decide on | parse, authenticate, render | – | – | not modelled |
| Schema (`db/models.py`, `src/migrations`) | constraints | – | constraints are what orders races | – | as guards of the models |

### 1.3 How they interact

```
 webhook --> Inbox --> lead worker --> Hermes --> plugin tools --> Appointments, Handoff
                |          |                                         |        |
            Handling <-----+--> gate --> Outbox --> drain --> provider      Calendar
                ^                 ^                                          ^
            human CRM         Engagement, Follow-ups, Recovery, Resolution --+
```

* The gate is the only door to the Outbox.  The drain checks again at delivery
  under the Lead's lock, because the world changes between staging and sending.
* The lead worker reads the notice an Appointment owes (`pending_lead_notice`)
  and sends it in place of the model's draft.
* Inbox acceptance stops queued campaign work, and routing decides the mode.

## 2. Modules

| Module | Role |
|---|---|
| `LanePromise` | abstract specification: messages are answered in turns, one word each |
| `InboxLane`, `MCInboxLane`, `InboxLaneProofs` | the lane of one Conversation: acceptance, worker, humans; implements `LanePromise` |
| `OutboxPromise` | abstract specification: the fate of a staged message |
| `OutboxDelivery`, `MCOutboxDelivery`, `OutboxDeliveryProofs` | gate, drain, provider, stops; implements `OutboxPromise` |
| `Engagement`, `MCEngagement`, `EngagementProofs` | candidates, campaigns, audience, frequency cap |
| `VisitPromise` | abstract specification: visits come onto the calendar, stand and make place |
| `AppointmentBooking`, `MCAppointmentBooking`, `AppointmentBookingProofs`, `AppointmentSafetyProofs` | visits between table and calendar, recovery, resolution, notice; implements `VisitPromise` |
| `HumanAuthority`, `MCHumanAuthority`, `HumanAuthorityProofs` | handling, requests for a person, alerts |
| `CommercialWork`, `Sponsorship`, `Provisioning`, `ExternalInventory`, `Catalog`, `WebsiteChat`, `SavedCollections`, `BrokerNotices`, `AdminChannel`, `ListingMedia` | ten components that share no row, put side by side by `MCOffice`; `OfficeProofs` is about all of them |
| `PurchaseJourney`, `SupportAccess`, `DataLifecycle`, `OrganizationImport`, `Entitlements`, `OrganizationSetup`, `ScheduledContact`, `Measurement`, `PropertyIngestion`, `ContactNeeds`, `VisitDesk` | eleven more, put side by side by `MCDesk`; `DeskProofs` is about all of them |
| `MCVisits` | `VisitDesk` on its own |

`MCOffice` and `MCDesk` explore components that do not interact without
multiplying their states: a variable `part` is chosen initially and only that
component moves.  A property of one component is then checked in all behaviours
of that component, and holds trivially in those of the others.  Components that
do interact are in one module: the lane with handling and the notice, the
Outbox with the gate and the stops of campaigns, booking with recovery and
resolution, `CommercialWork` with the team, `VisitDesk` with the Opportunity
and the calendar.

In every module a definition named `Slip...` is the definition below it with a
plausible bug (a dropped guard, a missing reset, a wrong quantifier).  No
action uses one: replacing the real definition by it must make the property it
is listed with in `PROJECT.json` ("mutants") fail.

### 2.1 InboxLane and LanePromise

State: one row per message (`status`, `attempts`, `group`, `timer`), one per
group (`groupStatus`, `lapsed`), the handling row (`handling`, `locked`), the
worker's memory of its claim (`pc`, `mine`, `held`, `offered`) and the rows it
committed (`written`).  An action of the worker is the code from one point
where another transaction can run to the next; this is why settling a turn
(`LeadMessageWorker._settle`) is five actions: `CheckCoverage`,
`RecheckHandling`, `ReadNotice`, `Release`, `MarkLeadNotified` and only then
`SettleGroup`.  `Interrupt` ends the worker between any two of them;
`RecoverExpiredClaims` is the first thing the next tick does.  `TimerElapses`
and `LeaseExpires` are the clocks.  Humans (`TakeHandling`, `ReleaseHandling`),
the model's tool (`ToolRequestsHandoff`) and the webhook (`Accept`) run
whenever the lock they need is free.

`LanePromise` is what is left of the lane when leases, claims, locks and crashes
are taken away: one turn at a time takes up waiting messages, folds in later
ones, says one word about exactly what it has in hand, and only then are its
messages processed; a turn that ends otherwise gives its messages back or
retires some.  In `KeepsTheLanePromise` the turn there is is the group that is
Processing, a turn that is over is one that is Settled or Failed, and a word is
a row of `written`.  A lost turn that had spoken gives its messages back all the
same, and the next one speaks again: `LaneReplyTwice` shows it.

Left out: texts, media, the Lead's lock (it orders acceptance and delivery, see
`OutboxDelivery`), `renew_lease` (no caller outside the tests), provisioning.

### 2.2 OutboxDelivery and OutboxPromise

State: one row per message that may be staged, the Lead's suppression, consent,
window and campaign, the drain's batch, what the provider has been asked and
has shown (`calls`, `accepted`), and a clock of transaction start times,
because `_contact_replied` compares `now()` defaults.  The drain claims
(`ClaimDue`), checks under the Lead's lock (`PrepareDelivery`), calls and records; a
crash leaves claimed rows in Sending, which the next drain quarantines.
`OutboxPromise` says what a sender may rely on: a staged message is shown at
most once, and its final word is one of sent, failed, denied or unknown and
never a lie.  `KeepsThePromise` is the refinement, with the fate of a row
computed from its status and the provider's count.

### 2.3 Engagement

One action per transaction of the review screens and of the background
dispatch.  `Resolved` is the audience resolution: eligibility, one need per
Contact, the cut at `max_recipients`, and what earlier decisions it keeps.
A touch has an age, and whoever counts brings a window and a cap of their own
(`CapReached`): the reactivations those of the code, each campaign those of its
row.  `HourPasses` and `TouchesAge` are the clock and the calendar.  What consent, matching and templates answer is a free
choice at each step.

### 2.4 AppointmentBooking and VisitPromise

A handler alternates transactions and calendar calls, so its program counter
has four places: `persisting` (availability read, attempt not yet committed),
`creating`, `releasing` (the old event), `recording`.  `holder` is the row lock
that `FOR UPDATE` takes; it ends with the handler's transaction, which is why
a move holds the original only until `PersistAttempt`.  `Consistent` is what
the exclusion constraint and the partial unique index accept; a transaction
that breaks it is refused as a whole.  The calendar (`events`) is external: a
call may take effect although its answer is lost.  `RecoverPendingAttempts`,
`BeginResolve`/`RecordResolution` and the notice (`ReadNotice`, `SendNotice`,
`MarkLeadNotified`) are the other actors.

Three history variables say what happened to a Conversation's visits:
`overtaken` (recovered while the handler was still at work), `revived` (a closed
row that a move took up again) and `asked` (cancellation asked for).  A visit is
`Ordinary` when neither of the first two happened to any visit of its
Conversation and Property.  The safety properties are stated for ordinary
visits; section 5 tells what happens to the others.

`VisitPromise` knows no requests, locks or answers.  A visit is attempted in a
slot that nothing else has, comes onto the calendar while it is attempted,
stands only if it is there, and in the step in which it stands the visit it
replaces is gone; an event is removed only of a visit whose cancellation was
asked for or whose successor is on the calendar.  `KeepsTheVisitPromise` reads
the fate of a visit from its status (Pending and NeedsReview are both "Tried")
and disclaims a Conversation in the two steps after which its visits are no
longer ordinary: recovery of an attempt still in flight (`Overtake`) and a move
to a closed row (`TakeUpAgain`).

Left out here: attendance (`VisitDesk`), reminders (`ScheduledContact`),
Inactive-Property reviews (`Catalog`), the arithmetic of slots (distinct slots do not overlap), visits that have started, a calendar
call that takes effect after it was given up (`asyncio.wait_for` around a
thread that keeps running).

### 2.5 HumanAuthority

`mode` and `holder` are the handling row, `request` and `overdue` the rows of
`human_handoff_requests`, `alert` the three alerts there are about a request.
`Ask` is `HumanHandoff.request` with everything it calls: an open request is
left alone, otherwise request, alert and grant are one transaction.  The worker
claims (`ClaimAlerts`), settles one alert at a time (`NoChannel`, `Delivered`,
`DeliveryFailed`) and may be interrupted, after which the lease has to lapse
(`ClaimLapses`).  Whether an Advisor is reachable is a free choice.

### 2.6 The office

* `CommercialWork`: a command holds its Opportunity's row, so it is one action,
  except where the code reads first: the choice of an Advisor, a deactivation
  that counts the others, and a completion that keeps the action it loaded.
* `Sponsorship`: accepting a quote locks the surfaces it needs; the daily pass
  is one action per campaign.  `SetLimit` is an Administrator's, who may lower a
  limit below what was sold; `ceiling` remembers the highest limit since the
  surface was last free of reservations.
* `Provisioning`: several calls serve one run.  Each reads whether a step is
  completed (`SkipStep`, `TryStep`), acts, and commits what came of it
  (`CompleteStep`, `FailStep`) over whatever the row says by then, because the
  lock on the run ended with its first commit.  Failure, interruption,
  resumption, rollback and an operator's commands come between any two commits;
  `overwritten` remembers the steps that an overlapping call, late, called failed.
* `ExternalInventory`: `FlushOver` is what a flush writes when the object was
  loaded before the lock: the columns that differ from what was loaded.
* `Catalog`: a visit under review has several writers.  Some keep the lock on
  its row while they ask the calendar (`HoldVisit`, `WriteVisit`, `LetGo`: a
  resolution, a cancellation, the completion of a review, a move to a row that
  exists); others do not: the call that books it or takes its row up again
  (`handler`) and a move that has committed its new row (`move`), which write
  over what they find.  `overtaken` remembers the visits of which the review was
  completed under such a call or whose row was taken up afterwards.  The row a
  visit is moved to is a state only (`successor`).
* `WebsiteChat`: a turn is claimed in one transaction and answered in another,
  which locks the conversation only when it brings new Listings.
* `SavedCollections`: cookies, collections, and the merge at protection.
  `Reached` is `_resolve`, which follows three references and no more.
* `BrokerNotices`: what is owed is read, sent, and stamped afterwards; a crash
  may fall between any two, and `SendUnanswered` is a message that Telegram took
  and whose answer no chat got, which the code takes for one that was not sent.
  `Losses` counts both.
* `AdminChannel`: an update is recorded and committed, acted on, answered, and
  passed by the cursor; a crash may fall between any two.
* `ListingMedia`: rows and objects, which share no transaction.

### 2.7 The desk

* `PurchaseJourney`: `journeys.py` reads before it locks; the triggers of
  migration 0028 number versions, and the projector takes contributions in the
  order in which their transactions began.
* `SupportAccess`: the grants of one engineer in one Organization, and the sweep.
* `DataLifecycle`: deletions that look for holds first; exports that write a
  file before their row.
* `OrganizationImport`: apply and rollback; `referrer` tells apart the foreign
  keys by how they meet a deletion.
* `Entitlements`: a history of limits, seats counted without a lock, a measured
  month.
* `OrganizationSetup`: configuration versions and credential references, each
  numbered from what the command had locked before.
* `ScheduledContact`: two workers over one cadence, and reminders.
* `Measurement`: emission, projection and replay; passes may overlap.
* `PropertyIngestion`: artifact, public copy, rows and compensation.
* `ContactNeeds`: criteria with their evidence, staleness and expiry.
* `VisitDesk`: one Contact's visits from quotation to outcome; a call awaits the
  calendar twice and keeps the Opportunity it loaded first.  A move to a time
  that has a row already takes that row up (`TakeUpRow`) without a commit, and
  so keeps the original's lock (`Held`); what its outcome may do to the row is
  up to the exclusion constraint and the partial unique index (`Stands`).

## 3. Runs

Every run's cfg states its constants; all counters are bounded by a constant
named in the module.

| Run | Checks | Bounds, and why they are enough |
|---|---|---|
| `LaneQuiet` | `ReplyCoversWhatWasHeard`, `AnsweredAtMostOnce`, `HumanWins` | two messages (one claimed, one late), the real ceiling of three attempts, a notice that falls due, six groups so that every attempt of both can fail. No interruption and a handling row that exists: the conditions under which the code keeps these promises |
| `LaneCrash` | `KeepsTheLanePromise` | interruptions everywhere, an absent handling row, notices that lapse; four groups and two attempts: one failed claim before the last for each message |
| `LaneLive` | `EventuallyResolved` | as `LaneCrash` without notices; no symmetry, which would be unsound for liveness |
| `LaneReplyTwice` | `AnsweredAtMostOnce` is violated | a crash between reply and settlement |
| `OutboxOnce` | `NoSendAfterStop`, `KeepsThePromise`, `EventuallySettled` | one row of each kind (reply, reminder, campaign member) in batches of two, so that one stays behind; two attempts: a retry and the ceiling; one interruption |
| `EngagementReview` | `ContactOncePerCampaign`, `CampaignsRespectTheCap`, `WaitingIsBounded`, `EveryoneIsDecided` | a candidate and two campaigns that share a Contact, one of which lists that Contact twice, has one need more than places, looks back twice as far as the other and is silent for an hour |
| `BookingRaces` | `EventsAreAccountedFor`, `CalendarIsNotDoubleBooked`, `ConfirmedIsOnTheCalendar`, `ConfirmationIsAnnounced`, `KeepsTheVisitPromise` | two requests at a time; two visits of one Conversation in two slots and one of another that wants the second slot: a move, its rival and its cancellation all meet. One event per visit suffices, since only a revived row is inserted twice. The constraint `FirstLeadOrdinary` stops where the properties of the first Conversation say nothing any more; `Ordinary` never becomes true again. `Followed` limits the notices to the visit that is a booking in some behaviours and a successor in others |
| `BookingAnnounced` | `EveryConfirmationIsAnnounced` is violated | one visit, one request |
| `HandoffAlerts` | `WaitingPausesMaia`, `NobodyWaitsUnnoticed` | two requests of one Conversation, so that one is asked while another is open or just closed; one attempt per alert, so that the ceiling is met; one interruption with a claimed batch |
| `Office` | ten properties, one or two steps of several actors each | per component the smallest instance in which its race exists: two rivals (quotes, cookies, photographs, bookings, submissions; two calls of one provisioning run; one visit with two calls that write it and two that move it), a crash, a lost answer or two, a surface of one place whose limit is taken away and given back, three commands on the catalog, and for `CommercialWork` an Administrator who advises, one who does not, and an Advisor, with two team commands |
| `Desk` | eleven properties | likewise: three support grants in a row, two deletions of different scope and two holds, two applies that share a key and the team, three grants of one capability of which two ask the same, two overlapping passes, four uploads of which three are of one Property, three statements about one criterion, a booking, its reschedule and the reschedule back to its time, which takes the first row up again |
| `VisitMoved` | `OriginalStaysAsItWas` is violated | one booking and its reschedule |

The type invariants (`TypeOK`, `WorkTypeOK` and so on, gathered in
`OfficeTypeOK` and `DeskTypeOK`) are part of the invariants proved in section 4
where there is a proof; no run repeats them.  `Desk` is the largest run, about
900,000 distinct states and three minutes.

`CHECK_DEADLOCK FALSE` is set where a behaviour may end because the bounded
instance has nothing left to do: in the booking runs, where every visit may be
closed, and in `HandoffAlerts`, `Office`, `Desk` and `VisitMoved`, where every
command is over.

### Fairness

* `InboxLane`: the loop keeps ticking (weak fairness of the worker's steps;
  `worker/loop.py` restarts a tick after an exception), a Hermes turn ends
  (strong fairness: `TURN_TIMEOUT` ends it, but an interruption may disable it
  in between), timers and leases run out.  No fairness is assumed of humans,
  webhooks or the model's tools.  Interruptions are possible at every point
  and the groups bound how many claims there are.
* `OutboxDelivery`: the drain keeps ticking, senders stage what they decided
  to, backoffs elapse.  Nothing is assumed of the provider or of stops.
* `Engagement`: hours pass, and a campaign that can be dispatched again and
  again eventually is (strong fairness, because quiet hours disable it).  It
  is the oldest active campaign that the worker looks at.  The run gives no
  campaign a day that is quiet throughout; see section 5.
* `HumanAuthority`: clocks run on, claimed alerts are settled or their lease
  lapses, and a tick that starts with escalation has its turn though there is
  always something to deliver (strong fairness).  Nothing is assumed of people
  or of Telegram.
* The components of the office and the desk are checked for safety only.

## 4. Proofs

TLC shows the properties for the bounds above; the theorems hold for every
value of the constants, from the named assumptions on them only (that a NULL
is not a value, that bounds are numbers, that kinds are disjoint).

* `InboxLaneProofs`: `LaneInv` joins the type invariant with
  `GroupsAreClaimed`, `OpenGroupHoldsProcessing`, `MemoryMatchesRows` (what the
  worker remembers is what the open group holds) and `SettlingIsAccountedFor`
  (before the group is closed as Processed a row for exactly its messages was
  committed).  Without the third, the properties are not inductive: `SettleGroup`
  closes what the worker remembers.  From it follow `NothingStranded`,
  `NothingSilentlyProcessed`, `ApologiesAreHonest` and `TerminalStatusIsFinal`.
  `HumanTakeoverWins` adds that the lock is held from the recheck to the
  release, and needs its two hypotheses: the handling row exists and no notice
  lapses.  `AnsweredOnceWithoutCrashes` and
  `AnsweredIsDoneWithoutCrashes` assume `~MayCrash`.  `RepliesCoverWhatWasHeard`
  needs only where the turn is: between an accepted injection and its adoption it
  knows what was offered besides what the group holds.
  `LaneImplementsPromise` maps each step to a step of `LanePromise`: acceptance,
  claim, adoption, the three commits of a word, settlement, and a failure or a
  recovery to giving back; the other steps are stutters.  Besides `LaneInv` it
  needs that the word comes last (`WordComesLast`): until the settlement nothing
  has been committed about the group in hand, which a group that is fresh at the
  claim and one settlement per claim achieve.  `OneWord` then follows from the
  promise alone: about one group at most one row is ever committed, though
  about one message there may be two.
* `OutboxDeliveryProofs`: `OutboxInv` says that batch rows are Sending, that
  each attempt allows one call, that the remembered answer agrees with the
  provider and that the check stays valid while the call is open.
  `DrainImplementsPromise` maps every step to a step of `OutboxPromise` or to a
  stutter.
* `EngagementProofs`: whether a member is a duplicate depends on the audience
  list alone, so it is enough that nobody who was ever included is one.
  `CampaignsAreCapped` bounds the touches in every window by the largest cap
  of the campaigns that look back that far: what a campaign counts in its own
  window contains what lies in a shorter one, and time takes touches out of
  windows and never puts one back.
  `LimitsAreKept` rests on a lemma about numbers alone: of any finite set of
  them at most n have fewer than n before them (`FirstFew`), since no two have
  equally many.  With it a resolution includes no more than the limit, and no
  other step adds anyone.  `OnlyQueuedMessagesCount` says that what the caps
  count was queued, which a later resolution never takes back.
* `AppointmentBookingProofs`: type correctness.
* `AppointmentSafetyProofs`: `BookingInv` gives each request what it relies on
  while others run: the rows it has locked stay (`HoldsItsRows`); an ordinary
  attempt in flight, which holds no lock, keeps its row Pending, its original
  Confirmed and its event the one it remembers (`AttemptIsUndisturbed`, by the
  status alone); nobody becomes the successor of a visit being cancelled or
  about to be moved; what a resolution looked up and what a release removed
  stays so.  With it go the table's constraints and, per status, what is on the
  calendar.  `AttemptsKeepApart` is the heart: two requests never work on one
  attempt or one original, because the partial unique index allows one
  successor and every other way in needs a status the rows do not have.
  `OthersUndisturbed` then shows once, for every kind of step, that a request
  leaves the others' assumptions alone, and each action only has to answer for
  its own.  `ReplacingKeepsRows`, `ReviewKeepsRows` and `ClosingKeepsRows` are
  the three things a recorded outcome does to the table.
  `BookingKeepsItsPromise` is the refinement: what `VisitPromise` sees of a visit
  depends on four of its columns and on whether it is ordinary
  (`AlikeLooksTheSame`), so for each step it is enough to name the one or two
  visits it does not leave alike; `BookingInv` supplies the guards.  A move and an
  Administrator's confirmation meet in `ConfirmingEstablishes`, a cancellation and
  a rejection in `ClosingEnds`.
* `HumanAuthorityProofs`: `MaiaIsSilent` is inductive by itself, since every
  way back to Maia acknowledges what is open.  What is said of alerts needs that an
  alert belongs to a request there is, that the worker holds the claims of its
  batch, and `AttemptsAreCounted`: an alert that may still be claimed has an
  attempt left, unless an interruption has cost it.
* `OfficeProofs`: one argument per component.  Commercial work, for any members
  and Opportunities, is inductive with its types once it is said what a command
  that holds the row and is choosing an Advisor has read (`ChoiceIsCurrent`):
  the stage is still the one it saw, and if it found nobody then nobody is
  responsible.  Telegram's orders are carried out once because an update is
  recorded, and that committed, before anything is done about it, and one that
  is recorded is passed over.  One photograph at a time is between its
  object and its row, and has no row yet.  A website turn that is being
  answered is Running.  The steps that a call of a provisioning run has behind
  it are completed, or were rolled back while it was under way, or an
  overlapping call of the same run has written its failure over them: nothing
  else writes the row of a step (`BehindIsSettled`).  While a visit's review is
  being completed, and from then on, nobody is at work on the visit, unless it
  counts as overtaken, so that what the calendar said stays true
  (`ReviewIsSafe`).  A revalidation asks the source
  and decides in one step, so its theorem needs no more than types.  That no
  surface is oversold (`SalesFit`) follows from the check on each day a quote
  asks for, since every other command only gives days back, and a limit in
  force never exceeds `ceiling`; `PlacesAreHeld` adds that a placement
  holds its days exactly while it has some to deliver, and
  `DaysAreNotCountedTwice` that what is charged is what the delivery rows count.
  The Broker is told once (`ToldOnce`) because a visit in the pass at hand is
  there once and has not been stamped, so that sending and stamping are apart
  only by a crash or a lost answer, which are counted; it needs finitely many
  visits.  Protection loses nothing (`ProtectionKeepsListings`)
  because a merge moves the Listings and the reference in one step, and only the
  two ways of protecting use a protection up; it holds of a browser from which `_resolve` still
  has a hop to spare, however many merges there were.
* `DeskProofs`: one inductive invariant each for support access (one grant on
  record at a time, the sweep locks nothing else), deletions (one begins only
  without a row), imports (whose property is inductive with its types),
  capabilities (a grant in progress has read another limit than its own),
  configuration and references (a command in progress has no version yet),
  follow-ups, the shared dataset of the journeys (the newest version of a
  record is shared or waits, and nothing newer does), visits (a call that
  is choosing has no row; the visit it moves came about, so its own call is
  over; nothing is on the calendar before its call ends; all of it but for rows
  that a move has taken up), documents (an upload
  that nothing has disturbed has its key to itself, and what it is about to put
  back is the newest accepted one), reported numbers (a pass that nothing
  overlaps has the tables to itself; the count it carries is bounded by the
  events that will be stored when it writes) and what is known of a Contact (what
  a statement has read already founds the row it will write).

Several theorems state properties that no run lists any more because the proof
makes the run redundant: among them `NoMessageStranded`, `ApologyIsHonest`,
`ProcessedIsAccountedFor`, `TerminalIsFinal`, `VisibleAtMostOnce` (which
`KeepsThePromise` implies), `LedgerIsTrue`, `CompletedIsDone`, `TouchesWereQueued`,
`LiveCampaignsHoldTheirPlace`, `DaysAreCountedOnce`,
`NothingConfirmedTooSoon`, `SuccessorReplaces` (which `KeepsTheVisitPromise`
implies), `ClosedStaysClosed` and `UndeliverableIsTold`.

Only model-checked: the liveness properties `EventuallyResolved`,
`EventuallySettled`, `EveryoneIsDecided` and `NobodyWaitsUnnoticed`; temporal
reasoning under fairness is outside the provers.

## 5. Where the code and its promises part

Shown by a run (quotations in `PROJECT.json`, "findings"):

1. **A second reply after a crash** (`LaneReplyTwice`).  The reply is keyed on
   the group, and recovery makes a new group.
2. **Recovery overtakes a live booking** (`BookingAnnounced`).  The Contact is
   told that the visit could not be confirmed, and never that it was.
3. **A move that raises half way** (`VisitMoved`).  The old event is deleted
   before the handoff, which refuses a closed Opportunity: the original is
   Confirmed without an event.

Stated in a module as what the code says of itself, violated by the model in a
bounded instance, and in no run of the project:

| Definition | What the code says, and what happens |
|---|---|
| `InboxLane!HumanWins` without a handling row | "the human wins": the first take-over creates the row whose lock should have ordered it against the reply (`worker/whatsapp.py:456-460`) |
| `OutboxDelivery!ReplyStopsSequence` | start times are not commit times: a reply that began before the campaign row and committed after it does not stop it (`domain/outbound.py:840`) |
| `Engagement!ReactivationRespectsTheCap` | two Listings that match one Contact, two reactivations in a month (`worker/engagement.py:99`, `frequency.py:3-9`) |
| `Engagement!EveryWindowHoldsTheCap` | each campaign counts in a window of its own: after one with 30 days, one with 7 days writes to the Contact again inside the 30 (`worker/engagement.py:169-176`).  What holds is `CampaignsRespectTheCap` |
| `Engagement!RecipientsAreBounded` | the limit of recipients counts who is eligible now; every pause and resume refills the places (`audience.py:176`).  What holds is `WaitingIsBounded` |
| `CommercialWork!CoverageDoesNotOverlap` | a completion decides on the action as it was before the lock, so an exception and a Pending action can coexist (`next_actions.py:281`) |
| `Sponsorship!ReservationsFitTheLimit` | a limit may be set below what was sold, which keeps its places (`capacity.py:102-129`).  What holds is `ReservationsFit` |
| `Provisioning!CompletedRunsSayCompleted` | two calls of one key act on the same step; the later one fails, and writes Failed over the Completed step that the other has passed and goes on to complete the run (`provisioning.py:356-372`).  What holds is `CompletedRunsAreWhole` |
| `Sponsorship!DeliveryFitsCapacity` | "no oversell": a campaign can be scheduled for, and run on, other days than those it has reserved (`capacity.py:1-20`, `quoting.py:254-257`) |
| `ExternalInventory!WithdrawnContentIsDue`, `DecisionsUseTheLockedRow` | a listing offered again and withdrawn again keeps its old deletion stamp and is never purged (`inventory.py:490-509`); revalidation decides on what it loaded |
| `Provisioning!NotOperableUntilFinished`, `Sponsorship!PauseIsKept` | a resumed run lets an Organization operate before it is finished (`provisioning.py:775-811`); the daily pass activates what an Administrator has paused (`campaigns.py:292`) |
| `Catalog!CompletedReviewsStayCancelled` | a booking or a move that waits for the calendar without the lock writes Confirmed or Rescheduled over a visit whose review was completed meanwhile (`appointments.py:658-701`); a later move to its time takes a cancelled row up, and it is not reviewed again (614-656).  What holds is `CompletedReviewsAreCancelled` |
| `Catalog!AffectedVisitsAreReviewed`, `RentalReopensNothing` | a visit booked while its Property is withdrawn has no review; the end of a rental makes every Listing with a sale Available, whatever it was (ADR-0025) |
| `WebsiteChat!ErasedStaysErased`, `ClosedChatStaysClosed`, `VerifiedBySpentReference` | an answer composed meanwhile comes back to an erased or closed chat; a Contact is verified by a reference that is not spent in the end (`inbox.py:286-310`) |
| `SavedCollections!ProtectedStaysProtected` | a second protection, from the phone of another Contact, takes the collection over (`saved.py:222`) |
| `BrokerNotices!DigestOncePerDay`, `AdminChannel!PassedOrdersWereActedOn` | a second digest after a late booking; an update that was recorded and not acted on is taken for done |
| `ListingMedia!ActivePhotosHaveTheirObject`, `CommercialWork!DeparturesAreReviewed`, `AnAdministratorRemains` | two submissions of one form and one failure delete the shared object; a second departure has no review of its own; two deactivations at once leave no Administrator |
| `PurchaseJourney!CompletedJourneysAreWhole`, `CompletedProfilesAreFrozen`, `WonSaleStaysCompleted` | milestones and profiles are written by calls that looked at the Journey before it was concluded |
| `DataLifecycle!HoldsAreRespected`, `OneCopyPerRequest` | a hold recorded during a deletion does not stop it; an export repeated after a crash writes a second file |
| `OrganizationImport!ReferencedPropertiesStay` | a document that refers to a Property goes with it; a sale record makes the rollback fail at its commit every time (`imports.py:256-259`) |
| `Entitlements!UsageIsNeverStale`, `SeatsStayWithinThePlan` | counting comes before the lock (`usage.py:350-359`); activation and promotion ask for no seat (`team.py:346-350`) |
| `OrganizationSetup!OneRotationInFlight`, `RevocationEndsAccess` | three commands leave two outgoing references (`credentials.py:388`); the first Organization falls back on the process environment |
| `ScheduledContact!RemindersSettleOnce` | two processes settle a reminder twice, with different outcomes |
| `Measurement!ReplayIsSafe`, `DrainedIsMeasured`, `EveryFactIsEmitted` | a replay beside a live pass leaves two cells for a day; what was projected under another definition is not measured under the current one; every emission pass reads the same oldest facts (`emission.py:46-48`) |
| `PropertyIngestion!CopyIsTheAcceptedOne`, `InventoryIsCapped`, `AcceptedIsAudited` | a refused upload puts back a copy older than what was accepted meanwhile; the cap is counted without a lock; the audit row comes after the commit |
| `ContactNeeds!StaleIsUnconfirmed`, `IntentIsCurrent`, `FreshBodiesAreKept` | a confirmation that loaded the need before the sweep leaves it Stale; the intent column and the current row part; the sweep empties a body that has just arrived |
| `VisitDesk!AttendedByTheOwner`, `ClosedIsLeftAlone`, `FollowUpsHaveVisits`, `OutcomeSettlesItsVisit`, `OwnFollowUpIsKept` | the Advisor whose times were shown need not be the one who receives; a closed Opportunity is written to from a stale object; a cancelled visit's follow-up stays owed, also when a move takes the row up, fails, and the row is rejected |

Found while modelling and stated nowhere:

* A late message that misses its injection withholds the draft and costs the
  group an attempt; at the ceiling the messages are retired unanswered and
  nobody is told (`worker/whatsapp.py:443-453` promises "the next cycle answers
  all of it together").
* The handling row stays locked from the claim's check through the Hermes turn
  unless binding the session commits; the model's own `request_human_handoff`
  tool then waits for the turn that waits for it, until a timeout.
* Settlement locks the handling row and then the Lead, inbox acceptance the
  Lead and then the handling row (`worker/whatsapp.py:460`).
* Retiring a lapsed notice commits in the middle of settlement and gives up
  the lock (`domain/appointments.py:810`).
* A crash inside a batch quarantines rows that were never attempted as
  DeliveryUnknown, whose definition says the provider may have them.
* A campaign planned with equal start and end of its quiet hours is silent all
  day, and while it is the oldest active one no younger campaign, of any
  Organization, is looked at.
* `send_message` of the Telegram client is False also when the message arrived
  and the answer did not, so the Broker's notices repeat without any crash
  (`channels/telegram/client.py:157-167`, `worker/broker.py:90-100`).
* A move to a time whose row was closed earlier (`reschedule`, 651) takes that
  row up without committing an attempt.  If two closed and reopened rows claim
  the same original, the unique index refuses the last commit after the
  original's event is gone.  The module states it as
  `EveryConfirmedIsOnTheCalendar`; three slots of one Conversation, one
  request at a time and two events per visit break it in thirteen steps.
* A time that was booked and cancelled cannot be booked again for the same
  Conversation and Property: its key answers for the cancelled row.
* `CancelVisit` deletes the event before it commits; a crash in between leaves
  a Confirmed visit without an event (`asked` exempts it here).
* An Administrator can make a support member advise, though `support.py` says
  the member "must not be assignable".
* After an outage the follow-ups of several days go out at once.
* `_resolve` looks at four collections (`domain/public/saved.py:379`), so a
  browser whose collection is four merges away from the Live one is shown
  nothing.  `ProtectionLosesNothing` is stated for browsers with a hop to spare.
* A replay of the analytics reads the first 500 events only.

## 6. Not modelled

* Rendering, parsing, authentication, observability, and the wire protocols of
  Hermes, WhatsApp, Messenger, Telegram and Google: each is the set of outcomes
  the code tells apart.
* The catalog projection, comparables, prices, reports and other reads.
* The table of idempotency keys: a command is carried out once in every module,
  which is what the unique row inserted in its transaction achieves.
* `renew_lease` (no caller outside the tests), and two workers on one lane: the
  deployment has one process.
* The slot arithmetic of `domain/availability.py` and time zones: distinct slots
  do not overlap.  The statistics of `domain/market_intelligence.py`.
* A calendar call that takes effect after it was given up (`asyncio.wait_for`
  around a thread that keeps running), except as a lost answer.
* Two runs of `provision` that compete for one channel: the instance has one run
  with two calls, and a step may fail for any reason.  The theorem has any number.
* The row a visit is moved to, in `Catalog`, other than its status, and a move
  to a row of another Advisor, in the instance of `VisitDesk` (the proof has it).
* Lock orders and the deadlocks PostgreSQL resolves by aborting one transaction:
  an action takes its locks at once.
* Migrations, except for the tables, indexes and triggers that the modelled
  operations rely on.
