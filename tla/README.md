# FastQue: a TLA+ verification project for the barber-shop backend

This directory models the server side of FastQue (`src/apps/backend`): a NestJS application with a
PostgreSQL database behind it. Every handler is an asynchronous function; requests interleave at
every `await`, several server processes may run, and what keeps them apart is the database:
transactions, advisory locks (`pg_advisory_xact_lock`, one per salon and one per chair), conditional
updates (`updateMany` with the expected status, `count` checked) and partial unique indexes. The
models are about exactly that: what a handler read, what it does later with what it read, and which
combinations of the rows can then exist. Line numbers are those of this commit.

## 1. The system

| part | state | operations | talks to | what is hard |
|---|---|---|---|---|
| Live Queue (`queue/queue.service.ts`) | `QueueEntry` (status, assigned barber and chair, arrival), `ServiceSession` | join, check-in, operator entry, call, arrived, assign, start, reassign, complete, no-show, cancel | reservations, allocator trigger, realtime | checks before the transaction, two lock keys, two tables that must agree |
| release of assignments (`queue/queue-assignment-release.service.ts`) | rows of the queue | `releaseForStaff`, `releaseForChair` | called by staff status, revocation, chair settings, after their own write | a list read once, then one transaction per row |
| barber duty and access (`queue/staff-status.service.ts`, `owner-ops/staff-access.service.ts`) | `SalonStaff.status`, `accessRevokedAt` | clock in/out, revoke, restore | release | check then unconditional write |
| chairs (`salon-setup/salon-chairs.service.ts`, `queue/manual-chair-occupancy.service.ts`) | `Chair.status`, `ManualChairOccupancy` | update, bulk deactivate, occupy/free local | release, queue | mutual exclusion with the queue's transactions |
| queue sweeps (`queue/queue-entry-expiry.service.ts`) | rows of the queue | stale-assigned, overdue no-show, stale-waiting | deadline scheduler | late claims against live handlers |
| automatic assignment (`owner-ops/queue-auto-assign.service.ts`, `queue/queue-auto-assign.trigger.ts`) | in-flight map of salons | run for salon, plan allocation, coalescing trigger | `assignAsSystem` | lost wake-ups, FIFO |
| arrival prompts and alerts (`queue/queue-arrival-reminder.service.ts`, `bookings/arrival-alerts.service.ts`, `reminders/reminders.service.ts`) | `arrivalPromptSentAt`, `arrivalAlertSentAt`, `reminderSentAt` | list, claim, tell, release the claim | scheduler, delivery | a list that is stale when claimed; one recipient of several fails |
| notification delivery (`notifications/notification-delivery.service.ts`) | `NotificationDelivery` rows (status, attempts, next attempt) | report, attempt, record, sweep | Expo | leases, lost answers, at-most-once against at-least-once |
| bookings (`bookings/bookings.service.ts`) | `Booking`, its items | create, create in shop, cancel, cancel by shop, reschedule, check-in | reservations, credits, ledger, queue | status checked at one place, written at another |
| reservations and availability (`bookings/reservation.service.ts`, `bookings/availability.service.ts`) | none (reads) | capacity of a slot, barber free in an interval | queue and bookings | overlap arithmetic, pool capacity |
| booking sweeps and corrections (`bookings/booking-expiry.service.ts`, `bookings/booking-no-show.service.ts`) | `Booking.status`, `CustomerContactLedger` | expire, mark no-show, correct | deadline scheduler | racing the customer's cancel |
| credits (`credits/customer-credits.service.ts`, `premium/ai-credit.service.ts`) | wallets and ledgers | earn, redeem, restore, consume | bookings, assistant | double spend, restore after expiry |
| sessions and sign-in (`auth/token.service.ts`, `auth/otp.service.ts`, `auth/auth.service.ts`) | refresh tokens, one-time codes | issue, rotate, revoke, verify | every request | rotation races, attempt counters |
| idempotency (`common/interceptors/idempotency.interceptor.ts`) | claimed keys with a response snapshot | claim, run, record, replay | every mutating route | crash between run and record |
| deadline scheduler (`common/db-deadline-scheduler`) | per process and job: two timers, three flags | register, signal, refresh, run, reconcile | every sweep, every booking event | signals during an awaited read or run, overlap, missed deadlines |
| inventory (`inventory/*`) | `stockOnHand`, movements, service usages | move, transfer, record, correct | completed services | row locks, duplicate records, retries |
| invoices, offers, staff work, revenue (`owner-ops/*`, `offers/*`) | invoices, payments, offers, subsidies | issue, pay, void, redeem | bookings, sessions | numbering, money arithmetic |
| shop set-up (`salon-setup/*`, `verification/*`, `salons/*`) | salon, staff, services, activation | edit, activate, delete permanently | queue, bookings | destructive steps with live rows |
| assistant (`assistant/*`, `style-advisor/*`) | conversations, language-model calls | ask, confirm, act | every service | external model, text |
| employees and administration (`employee/*`, `admin/*`, `dashboard-*`) | CRM rows, audit | record, approve, report | everything, mostly reads | reporting |
| web and mobile (`apps/web`, `apps/mobile`, `packages/shared`) | screens, cached tokens | call the API | backend | presentation |

`PROJECT.json` lists the same parts with what is and is not modelled of each.

### What makes each correct

* **Live Queue**: a customer is served once; a barber has one customer at a time, assigned or in
  service, although assignments and sessions are in different tables; a chair is not shared and not
  used while a local customer sits in it; an entry's status and its session tell the same story;
  a finished visit stays finished and its record is not rewritten.
* **Duty, access and chairs**: nobody is left assigned to a barber or chair that has gone; a revoked
  barber is off duty.
* **Bookings**: a slot is not sold twice; a booking ends once; credits spent on it are given back at
  most once and money owed is recorded at most once.
* **Automatic assignment**: an undisturbed pass seats whom it can, in order; a disturbed one seats nobody
  wrongly; no change of the queue goes unexamined.
* **Scheduled jobs**: a job never overlaps itself, no change of its rows goes unread, what is due is
  handled whatever fails, and a claim is still right when it commits.
* **Delivery**: a push is accepted once, as far as the ledger can know; every row ends; a prompt that
  stays claimed was recorded for everybody.
* **Idempotency**: all who retry are told the same. **Wallet**: a coin is in one lot or on one booking.
* **Stock**: it is what the records say, a service is recorded once, and locks are taken in one order.
* **Ways into the queue**: tokens of a day are consecutive, a guest holds one, a double tap adds nobody twice.
* **Invoices**: what is kept never exceeds the total, a visit is billed once, no number is skipped.
* **One-time codes**: one is open per phone, purpose and user, it is accepted once, and sending stays within
  its limits, which the deletion of an account resets for its phone but not for all.
* **Offers**: limits hold for whoever redeems, and the discount is the one that was shown.
* **AI credits**: what is reserved and consumed stays within the allocation and is what the log says.
* **Reservations**: a named barber is never due at two places, a time never has more appointments than
  the shop can serve, and the grid shows what would be accepted.
* **Sessions**: a login is one session, of the surface it was on, whoever presents its tokens again.

## 2. Modules

| module | models |
|---|---|
| `ServiceFloor` | the abstract specification of the floor: who sits where, who has been, which chairs a local customer has |
| `LiveQueue` | queue entries, sessions, barbers, chairs, local customers and every handler that writes them |
| `MCLiveQueue` | instances for TLC, and a comment's claim that the code does not keep |
| `LiveQueueProofs` | theorems about `LiveQueue`: the invariants, the lifecycle, the records, the refinement of `ServiceFloor` |
| `Bookings`, `MCBookings`, `BookingsProofs` | bookings, their slots, the visit each becomes, credits spent and returned, the ledger's charges; its instance; theorems about it and about `Agenda` |
| `AutoAssign`, `MCAutoAssign`, `AutoAssignProofs` | the allocator's trigger and pass, with the handlers that call it and change the floor under it |
| `DeadlineScheduler` | the timers of a process: what a signal, a read, a run and their ends do to one job |
| `BookingJobs`, `MCBookingJobs`, `BookingJobsProofs` | the jobs of bookings on those timers (expiry of holds, reminders, alerts) against requests and each other |
| `Delivery` | the ledger of pushes: reports, attempts, leases, the retry sweep |
| `ArrivalPrompts`, `MCArrivalPrompts`, `DeliveryProofs` | the queue's prompts and the shop's messages on that ledger; theorems about both |
| `IdempotentRequests` | the idempotency interceptor, around any handler |
| `CreditBook` | the abstract specification of a wallet: coins issued, in the purse, held by a booking |
| `Wallet`, `MCWallet`, `WalletProofs` | the credit wallet's handlers behind the interceptor; the refinement of `CreditBook` |
| `Stock`, `MCStock` | products, movements, transfers, usages and corrections under row locks |
| `Invoices` | invoices, their numbers, payments, refunds and voiding, behind the interceptor |
| `QueueJoin` | the four ways into the queues: tokens, duplicates, the waiting room's limit |
| `OneTimeCodes` | codes sent to phones: limits, delivery, attempts, the one use |
| `Offers` | an offer edited, paused and redeemed while bookings that previewed it are made |
| `AiCredits` | credits reserved for a generation, then consumed or released |
| `Sessions` | the refresh tokens of a user: logins, exchanges, revocation, changes of roles |
| `Door`, `MCDoor`, `DoorProofs` | `QueueJoin`, `OneTimeCodes` and `Sessions` side by side; their instance; theorems about each |
| `Ledgers`, `MCLedgers` | `Invoices`, `Offers` and `AiCredits` side by side; their instance |
| `LedgerProofs` | theorems about `Stock` and about each part of `Ledgers` |
| `Reservations` | a day's intervals: bookings, services in progress, the pool, the grid |
| `Agenda`, `MCReservations` | the day with names that fit beside `Bookings`; its instance |

`LiveQueue` and `AutoAssign` both implement `ServiceFloor`, `Wallet` implements `CreditBook`.
`BookingJobs` extends `DeadlineScheduler`, `ArrivalPrompts` extends `Delivery`, `Wallet` and `Invoices` extend
`IdempotentRequests`: the extended module holds the mechanism, the extending one what runs on it, and
their product is checked. `Bookings` composes the booking with its visit, whose own rules are
`LiveQueue`'s. `map` in `PROJECT.json` gives the source lines of each
definition. Definitions such as `CancelUnlocked` or `ReleaseUnclaimed` that no action uses are what a
plausible mistake would make of the definition after them; `mutants` in `PROJECT.json` names the
property that catches each.

`Door` and `Ledgers` put together components that share no state, and name their properties. In `MCDoor` and
`MCLedgers` `part`, chosen at first, says whose behaviour it is, and the others stay as they were. Their
states add up, they do not multiply. The properties of these instances are conjunctions of those that the
component's module names (`HeldOnce` is its types, `GuestHoldsOne` and `AddedOnce`).

### LiveQueue

One salon. `status`, `staffOf`, `chairOf`, `arrived` are columns of `QueueEntry`; `session` is the
entry's `ServiceSession` (there is at most one: a session is opened only by a claim of an unstarted
entry); `local` is the set of chairs with an open `ManualChairOccupancy`; `onDuty`, `revoked`,
`usable` are `SalonStaff.status`, `accessRevokedAt` and `Chair.status`. `req[r]` is the local state
of a request in flight.

A handler that checks first and opens its transaction later is two actions, `XxxRead` and
`XxxCommit`; between them anything may commit. A transaction is one step: `assignLoaded`,
`startService` and `reassign` hold the salon's lock and the chair's, the others claim by a
conditional update, which PostgreSQL evaluates again after waiting for the row. A handler whose
claim repeats everything it read is one action (`Call`, `MarkArrived`, `CancelUnstarted`,
`CancelByStaff`, the sweeps). `Refuse(r)` ends a request at any point without writing: every early
return on data left out (permissions, service and qualification, appointment windows in
`isStaffFreeForInterval`), a rolled-back transaction, a crash. A crash between the write of a
clock-out, revocation or chair change and the release that follows is `Refuse` in the state
`release`.

Left open in this module: the clock (a sweep may find its entry due at any time); tokens, positions
and estimates; notifications; who may call what, except where a comment makes a claim about it.
A session that overruns its nominal end counts as busy, as `projectedActiveSessionEnd` makes it
(the later of the nominal end and now). `reassign` reads the entry and then the session; both reads
are one action, since the transaction checks both again. Permanent deletion of barbers and chairs
is refused by the code once they have history and is not modelled.

Two partial unique indexes back the handlers and are in the model: `SessionUnique` (one ACTIVE
session per barber and per chair) and `HoldUnique` (one reserved customer per barber and per chair).

### Bookings

One salon, one customer (with an account) and any guests (`guests`: bookings without `customerId`,
made in the shop). `booking`, `slot`, `spent`, `shown` are columns of `Booking`; `ledger` holds its
`CustomerLedgerEntry` rows, `subsidy` its `PlatformShopSubsidyEntry`, `restored` counts the RESTORED
credit lots that name it, `visit` is its queue entry's status.

* `create` and `reschedule` read before their transaction (`CreateRead`, `RescheduleRead`) and check
  the slot in it under the salon's lock (`CreateCommit`, `RescheduleCommit`), one step.
* `cancel` and `cancelByShop` check the status under the booking's own lock (`CancelLock`) and write
  later in the same transaction (`CancelCommit`). The no-show, the expiry sweep and the completion of
  a service do not take that lock and may commit in between, which is why these are two steps. The
  check before the transaction asks for the same status and is merged with the one in it.
* `markNoShow` is one step: its claim repeats the status and the absence of a visit that it read. Only
  the slot could be stale, by a reschedule in flight from before the slot began until after its
  grace; the grace is minutes and the transactions time out in seconds. `correctToCompleted` and the
  expiry sweep are single claims.
* `checkIn` is `CheckInRead` and `CheckInCommit`; the transaction relies on the unique index on
  `QueueEntry.bookingId` and does not look at the booking again.
* `waive` counts (`CourtesyCount`) and claims (`CourtesyClaim`) in one READ COMMITTED transaction
  without a lock: two steps. `restoreNoShowDue` reads the booking before its transaction: two steps.

Abstracted: services have one length, so that two bookings overlap when their slots are equal; slot
s begins when the clock shows s, check-in opens at s - 1 and the grace has passed at s + 1; amounts
are "charged" or not; the policy decides freely whether a cancellation or a no-show is charged and
whether a creation needs payment. Left out: the lots of credit (`Wallet`), per-barber exclusivity of
bookings, the units of the pool that walk-ins take. WAITING and CALLED are one visit status; a visit
is IN_SERVICE exactly when its session is ACTIVE, which `LiveQueue` proves.

### AutoAssign

One salon in one server process (the trigger's `inFlight` map is per process). `run` is the map's
entry together with the locals of `runForSalon`: where the pass is, the `again` flag, the entries not
yet planned, the barbers and chairs it still believes free, the plan, and whom it has seated. The
pass is one action per await that matters: the setting, the waiting entries, the floor (seven reads
made in parallel, one step here), one entry of the plan at a time (each asks
`isStaffFreeForInterval` again), one seating at a time. Seating is `assignLoaded` with the service
started, as one step: the gap between its checks and its transaction is `LiveQueue`'s subject.
A refused seating (`CONFLICT_CODES`) leaves the customer waiting; a barber off duty makes
`assertStaffQualified` throw a code that is not in that list, and the pass ends. `PassFails` is any
other error, at any await.

`owes[r]` is a request between its commit and its call of the trigger. Handlers that do not call it
are modelled so: assigning and starting by hand, the two sweeps of unassigned entries, a clock-out
that releases nobody, the end of another customer's reservation, switching the setting off.
`FailBeforeTrigger` loses the call (an error in between, or the process stops: nothing re-triggers at
start-up). `takeNext`, `assignOne` and `assignAllWaiting` seat through the same `assignLoaded` and
are `AssignByHand`. Left open: which of the equally eligible barbers ranks first, and the order of
chairs. Left out: working hours (the plan checks them, the seating does not; every barber is taken to
be within them), disabling a chair (it is like a local customer in it, without a trigger).

`quiet` is auxiliary: true while nothing but the pass has changed anything since it read the queue.

### DeadlineScheduler and BookingJobs

`state[j]` is the `JobState` of job j, a pair of process and kind: `refreshTimer` as set or not,
`timer` with what it will do ("run", or "replan" after a failed read) and when, the three flags, and
`read`, where the awaited `nextDueAt()` is. `RefreshFires`, `PlanReads` or `PlanFails`, and
`RefreshEnds` are the three parts of `refresh`: before the await, the moment of the database's
snapshot, and the continuation with `finally`. Between them signals, other refreshes and commits
come. `RunFires` and `RunEnds` are the parts of `run`. `Registered` and `Absent` are what `register`
and `unregister` leave; the module-wide hourly interval is `Reconcile`.

`BookingJobs` gives `nextDueAt` as the set of times it takes the earliest of (`NextDueAt`) and
`runDue` as a list (`RunBegins`, with the time it began) and one claim per row (`Claim`), each a
transaction with the condition of the list. `owed` holds the processes that have committed a change
and not emitted its event yet; a process may die with it. `unheeded` is history: the jobs signalled
since their last read. Times are minutes at a scale of ticks; MIN_DELAY_MS is less than one.
Requests are here what the jobs see of them: one transaction each, since `Bookings` has their
interleavings. The scheduler's other domains run on the same code.

### Delivery and ArrivalPrompts

`ledger[k]` is the PUSH row of event k, `inApp` the set of events with an IN_APP row. `due` is
`nextAttemptAt` against the clock: "later", "now" or null. A thread is in one attempt at most: `attempt[t]`
says with which row and how many attempts the row had when it was read. The lease and the claim are one idea
in the code, a conditional move of `nextAttemptAt`; `Write` therefore takes the row out of every list that
has been read, since a claim compares the value it read. `Elapse` is the time of the next attempt coming
while nobody attempts, `Outlives` while somebody does (the call of Expo has no timeout); `Dies` is the death
of a thread or a write that throws. `slips` counts, per event, what the ledger could not know: an answer
lost on the way, an answer that died with its thread, a lease outlived. Properties are stated relative to
it, because no ledger can do better.

`ArrivalPrompts` is one reminder sweep per process (`sweeping` guards it): it claims the entry,
tells owner and customer through the ledger in order, the guest directly, and releases the claim if
anybody's outcome was FAILED. `Notify` is the shop's cancellation or move of a booking, reported by
several requests under one key. When the estimate becomes due is left open.

### IdempotentRequests, Wallet and CreditBook

`row[k]` is the `IdempotencyKey` row, `call[a]` a request between its claim and its end, `answers[k]`
the history of what clients of a key were told. The handler is between `Claim` and `Record`; a
failed write of the response makes the request "failed", as a throwing handler does, and `Release`
deletes the row, or fails to. Nothing in the code enforces `expiresAt`, so a row never ends.

`Wallet` is one customer. Money is a set of coins: a lot's amount is the number of its coins left,
so that conservation can be stated coin by coin. `redeemUpTo` holds the customer's advisory lock from
reading the lots to the booking's commit: `Redeem` chooses what to take, `Book` commits, and between
them grants and returns (which do not take the lock) and everything else may commit. A booking may
be at any shop, so no salon's lock orders two. `Cancel` goes through the interceptor, `CancelByShop`
does not; both are one step here, since the row's status and its race with the end of the booking are
`Bookings`'. `Grant` relies on the unique key, `Regrant` is its replay.

### Stock

`stock[p]` is `stockOnHand`, written only by the trigger on movements. `moved[k]` and `usage` are the rows;
a movement or a line is for one unit. `req[r]` is a transaction: `find` are the look-ups that `record` makes
before it locks, one at a time, `need` the products it will lock, `holds` those it has. `Lock` takes the
least product still wanted, which is what `ORDER BY "id" FOR UPDATE` does. A reversal claims the usage row
first ("REVERSING": others still see RECORDED, and an insertion under the partial unique index waits for its
transaction). `Abort` is any rollback, a deadlock's victim included.

### Invoices

`invoice` and `payment` are the rows, `next` the profile's next number, `drawn` what a transaction has
taken from it. A body is a request's key, operation and amount. `Draft` reads the visit's total,
`Number` takes a number under the profile's row lock, `Issue` inserts, and gives way
(`IssueLoses`) to the invoice that another request made of the same visit: the partial unique indexes
decide. `Lock` holds the invoice's row until `Pay`, `PayReplayed` or `Void`. `Fails` ends a
transaction anywhere, a refusal included, and the interceptor's steps surround the handler as in `Wallet`.

### QueueJoin

Salons, on one salon-local day. `Looks` is `assertNotAlreadyInQueue`, before the transaction;
`Locks` takes the salon's lock and reads token, duplicates and the waiting room; `Joins` inserts.
`Served`, `Leaves` and `Ages` stand for everything else that happens to an entry: the rest is
`LiveQueue`'s. Guests are told apart by `contactPhone`, operators' customers by name and phone. The
phone that a booking's arrival carries is left out: `GuestHoldsOne` is about guests among themselves.

### OneTimeCodes

`otp` holds the rows of `OtpRequest`, `send` those of `OtpDeliveryAttempt`, both by the code they are for.
`Admits` holds the one advisory lock of all replicas while it counts, `Persists` commits by what it counted.
Sending comes after: accepted, or unknown. `Reads` and `IsRight` or `IsWrong` are the two awaits of
`verifyOtp`, `Stands` the condition of its update. A code is for a phone and a `Scope`: login, or a purpose
and the user it is for (`subjectUserId`); what is superseded, and read, has the same phone and scope (`For`),
while the limits count the phone's rows whatever their scope. `DeleteCustomerAccount` takes all rows of a
phone away, at any time and without the lock; the attempts, which name no phone, stay. Whose account has the
phone is not modelled, so any phone's rows may go at any time, and again. The clock is in ticks, bounded by
`MaxNow`; a code is a model value, so a wrong code is any other.

### Sessions

One user. A login is issued a token (`Issue`) on an audience; `Claim` is the conditional update of
`rotateRefreshToken`, `Scope` its later read of the row with the roles of that moment, and `Issue` the next
token: three awaits, between which everything may end or change. `held` is the set of audiences for which
the user has a role, all that `scopeRolesToAudience` needs to say whether a session goes on. `Fails` is any
refusal or crash, after which the claimed token stays revoked. Access tokens (fifteen minutes, not stored)
and how a user proves who they are are left out; a phone that is linked is `RevokeAll` and a login.

### Offers

One offer on one service. `Preview` is the page the customer saw, `Load` and `Lock` the booking's
transaction: the price it loaded before, the offer it locks and validates again, `Book` the row and its
redemption. `version` is `updatedAt` and counts to `MaxVersion`. `over` is an end date that has passed;
drafts, audiences and fields that do not change what a booking gets are left out.

### AiCredits

Subscriptions of one customer and the generations running on them. `Reserve` reads the counters under the
advisory lock and `Reserved` writes; `Consume` and `Release` are single conditional updates.
`FailsTransaction` is one that rolled back, a `Consume` to the step of a lost answer is one that committed
and whose caller never heard, `Crashes` the process dying between them.

### Reservations

One salon, one day of `Close` ticks, one cell of the grid each. All the transactions here hold the salon's lock:
each is one action, and what is checked is their arithmetic. `Booked`, `Visited` and `WalkIns`
are the three sources of `countPoolReservations` and of `isStaffFreeForInterval`; `Shown` is the grid's
own code for the same question. `ProjectedEnd` makes an overrunning service end now at the earliest.
`Seat`, `Start` and `Reassign` are `assign`, `startService` and `reassign`, which moves a service in progress
to another barber and keeps the time it began. The horizon of 30 days and the refusals of customers with
unpaid dues lie outside one day's grid, and outside `GridAgrees`.
A barber has at most one visit at a time, which `LiveQueue` proves. `Cancel` stands for cancellation
and expiry.

## 3. What is checked

| run | instance | states | question |
|---|---|---|---|
| `floor` | 2 visits, 2 barbers, 2 chairs, 2 requests; two visits while every barber and chair stays, or one while one of them is away (`TwoVisitsOrOneAway`) | 187 k | do entries and sessions agree, has each barber and chair one customer, is a finished service's record kept, does a visit only go forward, is `ServiceFloor` implemented |
| `bookings` | 2 bookings, 2 slots of capacity 1, 2 requests; one of the bookings may be a guest's, spend credits, be charged or become a visit, the other competes for its slot (`OneCharged`) | 894 k | is each charge and each return made once, is no slot oversold |
| `allocator` | 2 customers, 2 barbers, 2 chairs, 1 request; one of a reservation, a local customer, a barber off duty and the setting off (`OneDisturbance`) | 303 k | does an undisturbed pass seat whom it can, in order; is `ServiceFloor` implemented in spite of disturbances |
| `follow_up` | 1 customer, 2 barbers, 1 chair, 2 requests; fairness | 105 k | is a trigger during a pass followed by another pass |
| `jobs` | 1 process with one of the three jobs, 1 booking, 2 slots, window, lead, hold and delay of one tick, 1 fault | 108 k | does a job overlap itself, forget a signal, claim what is no longer due, miss what is due |
| `delivery` | one entry's prompt or one shop's change, 1 prompting and 2 sweeping processes, 2 other reporters, 2 attempts, 1 fault | 140 k | is a push accepted once, does every row end, is a claimed prompt recorded for all |
| `wallet` | 3 keys, 2 calls, 2 coins, 2 bookings, 1 fault; the third key only while nothing has failed (`ThirdIfNoFault`) | 120 k | do retries agree, is credit neither lost nor doubled (`CreditBook`) |
| `stock` | products 1 and 2, 2 services, 2 usages, 2 keys, 2 requests | 361 k | is stock what the records say, is a service recorded once, can requests lock each other out |
| `ledgers` | invoices: 2 visits, 2 invoices, 3 keys, 2 calls, a total of 2, 1 fault; or offers: 2 customers, 3 bookings, 2 calls, 2 terms, 2 prices, limits of 2 and of 1 per customer; or credits: 2 subscriptions, 3 generations, 2 credits each | 193 k | does an invoice keep more than its total, is a visit billed twice, a number skipped; do an offer's limits hold, is the discount the one that was previewed; are credits within the allocation, are the counters what the log says |
| `door` | the queue: 1 salon, 1 customer, 1 booking, 1 named person, 2 entries, 2 calls, room for 1; or codes: login on 2 phones, or login and the links of 2 users on one (`OnePhoneOrPurpose`), 3 codes, 2 calls, 4 ticks, 1 try, limits of 1 and 2, deletions at any time; or sessions: 2 logins, 4 tokens, 2 calls, 3 audiences | 329 k | are tokens consecutive, is a guest, or a double tap, in the queue twice, is the room overfilled; is one code open in its scope, is it accepted once and in time, do the limits of sending hold; is a login one session |
| `reservations` | 3 bookings, 2 barbers, 2 chairs, lengths 1 and 2, a day of 3 ticks; at most three appointments and walk-ins, the third appointment only while nobody is in the shop (`ThreeCustomers`) | 405 k | is a named barber due at two places, are there more appointments at a time than barbers or chairs, does the grid show what would be accepted |
| `assign_stale` | the smallest instance that shows it | | a claim that the code does not keep (section 5) |

**Why the bounds are enough.** Every hazard of these handlers is a race of two over one row, barber, chair,
slot, key or product. Two requests hold two stale reads at once; a handler that is a single step needs no
request, so more than two handlers meet. Two visits (customers, bookings) compete for one barber, chair or
slot, and two of each leave another to move to. Overtaking needs two customers, overselling a capacity of
one. `TwoVisitsOrOneAway` leaves out of `floor` what would be too large: sharing needs two visits in a shop
whose barbers and chairs stay, being left behind needs one visit and one barber or chair that goes, which
`OneDisturbance` does in `allocator`. The constraints of the other runs bound in the same way what happens
beside the race. The three jobs of `jobs` share the bookings and nothing else, so each behaviour has one of
them, and requests stand for the others. Two attempts are the first and the last, two coins let a redemption
take a part, two keys are two requests and their retries and three are a grant and two bookings, and two
products locked by two requests are the least that a circle of locks needs. A third generation meets a
credit that two hold, or that one of them has returned. Overfilling a pool of two takes a third booking; one
barber, the grid and walk-ins take two, with lengths that can nest. A limit of one or two is met, and would
be passed, by the next call; a tick before and after each limit of time is enough for its two sides. One
fault is enough where a second would only repeat it; no behaviour needs any. The theorems of section 4 have
none of these bounds. Symmetry is used in runs of safety properties only, over sets whose members no
constant tells apart (the products of `Stock` are ordered and the customers of `AutoAssign` arrive in
order). The components of `MCLedgers` and of `MCDoor` use the same names, so that one permutation serves all
of them.

**Deadlock** is checked for `LiveQueue`, `AutoAssign` and `Stock`: some request can always begin or
refuse, whatever locks are held. The other
modules end: the day is over, the bookings, coins, keys or codes are used up, and their cfgs switch
the check off.

**Fairness.** `FollowUpPass` assumes that a pass goes on (weak fairness of its steps): each await returns,
fails or times out (Prisma's transactions have a limit), and nothing else is assumed of requests.
`DueIsHandled` assumes weak fairness of the clock, of the timers Node has set, of reads, runs and the
emission of an event after its commit, and *strong* fairness of a run's beginning: each signal clears a due
timer and sets it again (by `MIN_DELAY_MS`, 250 ms), so that signals that never pause for so long starve the
job; the code's answer is only the hourly reconciliation, which does the same. Strong fairness says that
signals pause again and again. A process that died is started again. `RecordedEnds` assumes that the time of
the next attempt comes, that a thread that lives goes on, and that sweeps come again, as the deadline
scheduler sees to. Faults and requests are fair in none of them.

## 4. What is proved

TLAPS checks all theorems for every value of the constants that satisfies the named assumptions. Each
component has one inductive invariant; `Init`, each action and the conclusion are steps of their own.

* **LiveQueueProofs** (`NoneAssumption`: `None` is not a member of the other sets). The invariant adds
  `ReqFilled` to the properties: what a request in flight has read is an entry, barber and chair of the
  right kind. The properties hold each other up: that a barber has one customer when a session opens follows
  from the claim on the entry, the hold's uniqueness *and* that sessions and entries agree. From that
  invariant and `Fresh` (who has not been assigned has no session) follow the lifecycle and final records as
  action properties, and `ServiceFloor` under the mapping of active sessions to the floor; every step maps
  to a step of the floor or a stutter.
* **BookingsProofs**. `Locks` says what requests in flight may rely on: the booking's lock has one holder
  (`CancelExclusive`), who will write what nobody has written (`CancelPending`), and a check-in has read a
  confirmed booking. `Rows` adds to the properties that a booking not yet made has no rows
  (`AbsentIsBlank`). `SlotsNotOversold` counts a slot's open bookings: a commit counts them itself, and no
  other step adds one. Bookings are a finite set there. The module's second half is about the day of
  `Agenda` (`DayAssumptions`: its `TimesAssumption` and `RowsAssumption`, finitely many bookings and
  barbers). `DayInv` adds to the day's two properties `VisitorsKnown` (who sits on an appointment has one) and
  `VisitsBegan` (a service began by now, so that one moved to another barber is due to end before what the
  check from now on found free).
  A pool that is full for a moment of the new interval counts every appointment that is due then, so the one
  that is accepted is at most the last; that the grid agrees is proved of every state by comparing its
  counts with the transaction's.
* **AutoAssignProofs** (`EntryAssumption`, `NoneAssumption`, `SuitsAssumption`). The types (`FloorTypes`,
  `RunTypes`) are invariant, and each step maps to one of `ServiceFloor` by its own guards, however stale
  what the pass believes. `NobodyLeft` and `NoneOvertaken` are about a pass that nobody disturbed, and need
  its history: `PassInv` says, while `quiet`, that the assignments of the plan can be carried out and none
  takes what another needs (`Sound`), that none takes a barber from an earlier customer the plan leaves out
  (`InTurn`), that the plan knows what is free and goes by arrival (`Planning`), and that what could serve a
  customer left waiting is taken by a plan still to be carried out (`Seating`). In the quiet every seating
  therefore succeeds.
* **BookingJobsProofs** (`TimesAssumption`, `KindAssumption`,
  `DeploymentAssumption`, `DelayAssumption`). `SchedulerInv` is types, `OneStepAtATime` and
  `SignalIsHeeded`, which are proved job by job: `Alone` reduces a step of one job to that job,
  `Coming` says that a step which leaves a read under way, a timer set or the dirty flag leaves the
  signal heeded. `ClaimsOpenBooking` then needs only the condition in each claim.
* **DeliveryProofs** (`ThreadAssumption`: finitely many threads; `SweeperAssumption`). The budget of a row,
  what is accepted + the attempts that may still be + 1 if the row is still to be handed out, is at most 1 +
  its `slips` (`BudgetInv`): a lease moves one unit from the row to the attempt, an answer from the attempt
  to the accepted, and only a loss adds one. `RowInv` ties the row's state to its fields, `HolderInv` the
  holder of a lease to the row.
* **WalletProofs** (`NamesAssumption`, `CoinAssumption`, `NoneAssumption`). `KeysInv` (one call works under
  a key, the row knows its answers), `LockInv` (what a redemption has chosen is in lots it may take),
  `LotInv` and `CreditsConserved` (a coin is in one lot or on one booking). The refinement of `CreditBook`
  follows; conservation itself is what the run checks through `CreditBookKept`.
* **LedgerProofs** has four parts.
  - `Stock` (`ProductAssumption`: products are finitely many numbers, the order of ids; `WorkAssumption`,
    `NoneAssumption`): `ReqInv` says that a request holds the least of what it needs and that two hold no
    product in common, `StockAccounted` counts. `NoCycle`: along a chain of requests waiting for each other
    the product waited for grows; the sets of greater products then shrink, and strict inclusion of finite
    sets is well-founded.
  - `Invoices` (`BillAssumptions`): `BillInv` says that a row is locked by one call (`RowLockedOnce`) and
    that what the holder has checked is so until it writes (`LockedStands`): the number it drew is the next,
    the invoice is issued, and the payment fits what is outstanding. A payment's units are a set (`Units`),
    so that amounts add up by `Cardinality`.
  - `AiCredits` (`CreditAssumptions`): `CreditInv` says that one generation holds the lock, and that the
    credit it found is still available (`OneReserves`); consumption and release change counters and log
    together.
  - `Offers` (`OfferAssumptions`): `OfferInv` says that one call holds the salon's lock, and that the terms,
    the price and the room under both limits are what it read (`LockedPrepared`).
* **DoorProofs** has three parts.
  - `QueueJoin` (its `NoneAssumption`, `RowsAssumption`): `JoinInv` says that one call holds a salon's lock
    (`LockedAlone`) and that the token and the admission it read still hold (`ReadStillHolds`): whoever
    leaves meanwhile takes no token away and makes room.
  - `Sessions` (`UserAssumptions`): `SessionInv` says that a login has one live token *or* one call that has
    claimed it and will issue the next (`HandedOn`), and where every token and call comes from (`Traced`).
  - `OneTimeCodes` (`CodeAssumptions`): `CodeInv` says that a call which was admitted is the only one, that
    all attempts are of its time or earlier, and that one more code of its time would still be within the limits
    (`Admitted`); that an open code is the newest of its phone and scope and not accepted (`OpenIsNewest`). A
    step that makes no code, the deletion of an account among them, only makes room (`NoneMade`): each phone's
    limits are counted over rows it may take away, the budget over attempts that stay.

Proved for every instance and therefore in no run: `TypeOK` of the modules with proofs, `AssignmentIsWhole`
(`LiveQueue`), `NoRowStuck` and `SentIsKept` (`Delivery`), `BookedOnce` (`Wallet`). The invariants that hold
each other up are conjuncts of the inductive invariants; the runs keep those that say most.

Every invariant and every action property of a passing run is a theorem, and so are the refinements. Only
model-checked are the three liveness properties `FollowUpPass`, `DueIsHandled` and `RecordedEnds`: ENABLED
and fairness are outside the prover's reach. That the model of a mechanism without an upper bound (the clock
of `OneTimeCodes`, the versions of an offer) is bounded is a guard of the model, named there. No recursion
is used in a module with a theorem.

## 5. The code and what it says

One run expects a violation, of a sentence in the repository:

* `assign_stale`: `assignLoaded` checks duty and chair before its transaction (queue.service.ts 1358);
  a clock-out's release that runs in between misses the assignment, though
  queue-assignment-release.service.ts 12-14 promises that a customer "must never stay stuck".

Also seen while modelling. The models behave so, and the properties above are stated so that they hold
nevertheless; what a comment or document says otherwise is named:

* Queue. The check for an active entry is outside the transaction (queue.service.ts 2350) and the lock is
  the salon's: a customer may join two salons at once, against STATE_MACHINES.md 36. `startService` checks
  duty, access and chair before its transaction (queue.service.ts 1581-1652). `markNoShow` writes by a
  status read earlier (2243-2258). `completeSession` checks whose service it is before the transaction
  (2185). `updateStatus` writes the duty unconditionally (staff-status 75-84). The end of one reservation
  frees its barber without a trigger (982-991). A pass starts a customer who was reserved by hand after the
  plan (1438, against queue-auto-assign 416-417). A barber who has gone off duty ends the whole pass
  (queue-auto-assign 645, against 73 and 637-638).
* Bookings. A check-in that read CONFIRMED queues a booking cancelled or marked a no-show meanwhile
  (queue.service 213); `VisitWasConfirmed` forbids visits only to bookings never confirmed. A cancellation's update by id overwrites a no-show, an expiry or a completion that came
  after its check (bookings.service 897, against 937-939; `CreditsReturnedOnce` and `ChargedOncePerReason`
  say that nothing is returned or charged twice by it), and a booking may be cancelled while its
  customer is in the chair (908-911). `restoreNoShowDue` reads the booking before its transaction
  (dashboard-customers 1243-1256), `create` the blocking dues (232-245). Two waivers may both
  count below the limit (courtesy-waiver 71 and 87, against 20). STATE_MACHINES.md lacks edges the code has.
* Jobs. `nextDueAt` of the reminders counts guests' bookings, the list leaves them out (reminders 45-61
  and 82-83): the job runs again every 250 ms during the hour before a guest's slot (against the scheduler's
  own comment, 26-32). A booking that is moved is not reminded or alerted again.
* Delivery. When the owner's push fails the claim is released and the next sweep pushes to the guest again,
  whose push has no ledger row (queue-arrival-reminder.service.ts 163, against 161-162). An attempt that
  answers after its lease may overwrite SENT with FAILED (notification-delivery 50-53). The push has no
  timeout, and the lease counts from the sweep's start for up to 50 rows. A process that dies between claim
  and telling loses the prompt; one that dies between the two rows loses the push. A booking moved from A to
  B and back reuses its dedupe key (shop-booking-actions 262-265).
* Idempotency and credits. A returned lot loses its `fundingSource` (customer-credits.service.ts 238), so
  credit FastQue granted, once returned and spent again, earns the shop no subsidy (against schema.prisma
  1687-1688). A dead process leaves its key IN_PROGRESS for good: nothing enforces `expiresAt` (against
  customer-credits 337-338). When the response cannot be recorded the key is deleted, and the retry fails on
  the booking's unique key (against the interceptor's 25). Only redeeming takes the advisory lock, though
  customer-credits 142-143 names grants and returns too. An expired hold keeps its credits and subsidy.
* Stock. A repeat of what was just done may be refused for INSUFFICIENT_STOCK (service-usage 578-588,
  product-catalog 667) instead of answered as done (449-450; 723). A record and a reversal, or two
  records of several services, may deadlock over the usages' unique index (against 447-448, which speaks
  of products). A transfer's key reused with another quantity is answered as success; units and active
  flags are read before the transaction (472).
* Invoices. `recordPayment` compares the amount with what is outstanding before it looks at the key
  (invoices.service.ts 339), so the retry of a recorded payment is refused; 391 promises a replay. A
  payment's key reused with another amount on its invoice is answered as success. An issue retried with the
  key of an invoice that was voided since fails on the key's index.
* Offers and AI credits. A consumption that committed and whose answer was lost is followed by a release
  (style-advisor.service.ts 54), which takes another generation's reservation; ai-credit.service.ts 16-18
  asks for exactly one of them. A cancelled booking's redemption still counts against the limits. A crash after
  `reserveCredit`, or a lost answer to it, keeps the credit reserved for good; a consumption that finds
  nothing reserved is ignored and the preview is served free.
* One-time codes. The deletion of an account deletes the phone's codes (auth.service.ts 1295-1297), the rows that
  cooldown, hour and day are counted by (otp.service.ts 118-127, 157-162): the phone can then be sent as many
  again, within the budget of all phones, which alone holds in any window whatever is deleted. Two users who
  link one phone may each hold an open code for it (176-184, 250-258; auth.service.ts 237 and 345), and the
  older one is accepted after the newer was sent; only one of a phone, purpose *and* user is open.
* Sessions. token.service.ts 191 takes rows to be never deleted; the deletion of an account deletes them
  (auth.service.ts 1293), and an exchange in between is refused.
* Reservations. Appointments for any barber are counted, never given a barber (bookings.service.ts 380):
  beside [1,3) with any, [1,2) with one and [2,3) with the other barber are accepted, and nobody is left for
  all of [1,3), against API.md 116-117 and DATABASE.md 168-169. A preferred barber does filter the slots,
  against DATABASE.md 72. `completeSession` sets a cancelled booking COMPLETED, which takes its slot again.

## 6. Not modelled, and why

Screens and shared types (`apps/web`, `apps/mobile`, `packages/shared`) present the server's state and are
most of the repository's lines. Reports, analytics and staff work read only. Assistant and style advice are
conversations with a language model. Reviews and verification are one conditional write each. Sign-in (but
for its sessions), the set-up of a shop and its permanent deletion are not modelled yet (section 7). Inside
what is modelled: prices and tax, positions and wait estimates, working hours, qualifications, time zones,
audit rows and permissions are left out or left open; of the inventory the forecast, edits of the catalogue,
units and the average cost. The share of the repository's lines that the models stand for stays small for
that reason: most of them are screens, translations, schemas, report layouts and plain reads.

## 7. Plan

The core came first, then what runs beside it, then what touches money:

1. `LiveQueue`, `ServiceFloor`, `Bookings`, `AutoAssign` with their theorems. Done.
2. Jobs and messages: `DeadlineScheduler`, `BookingJobs`, `Delivery`, `ArrivalPrompts`, with theorems. Done.
3. Money and stock: `IdempotentRequests`, `Wallet`, `CreditBook`, `Stock`, with theorems; `Invoices`,
   `Offers`, `AiCredits`. Done.
4. Ways in: `QueueJoin`, `OneTimeCodes`, `Sessions`, `Reservations`. Done.
5. Theorems of every safety property of the runs, of `Invoices`, `Offers`, `AiCredits`, `QueueJoin`,
   `OneTimeCodes`, `Sessions` and `Reservations` too, beside the component they are nearest to, to keep the
   proof modules few. Done.
6. Next proofs: the safety part of what liveness rests on (a pass that was asked for again is not forgotten:
   `again` is cleared only by a new pass; a push that is due is listed by every sweep that begins), and a
   refinement of the queue's tokens and of a code's life by abstract specifications.
7. Next models: the sign-in and account flows on `OneTimeCodes` and `Sessions`, the activation and
   permanent deletion of a shop against its live queue and bookings, subsidy and revenue entries.
