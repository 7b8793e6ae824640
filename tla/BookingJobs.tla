----------------------------- MODULE BookingJobs -----------------------------
(***************************************************************************)
(* The jobs of the domain 'booking' on the deadline schedulers of all      *)
(* processes: payment holds that run out, reminders to the customer before *)
(* the slot and arrival alerts to the shop.  They compete for the same     *)
(* bookings with each other, with the same jobs of another process and     *)
(* with the requests that create, move, end and check in bookings.         *)
(*                                                                         *)
(* Times are ticks.  A process may die between any two steps, and its      *)
(* signals with it; a read or a run of a job may fail.  These faults are   *)
(* bounded by MaxFaults.                                                   *)
(***************************************************************************)
EXTENDS DeadlineScheduler

CONSTANTS Booking,      \* Booking ids
          LastSlot,     \* bound: bookings are for the slots 1 .. LastSlot
          Window,       \* REMINDER_WINDOW_MINUTES
          Lead,         \* ARRIVAL_ALERT_LEAD_MINUTES
          Hold,         \* PAYMENT_HOLD_TIMEOUT_MINUTES
          MaxFaults     \* bound: deaths of a process, failed reads and failed runs

ASSUME TimesAssumption == {LastSlot, Window, Lead, Hold, MaxFaults} \subseteq Nat
ASSUME KindAssumption == Kind \subseteq {"expire", "remind", "alert"}

VARIABLES
  booking,    \* Booking.status, the final statuses as one
  slot,       \* Booking.slotStart
  createdAt,  \* Booking.createdAt
  guests,     \* the bookings without customerId
  visited,    \* the bookings with a queue entry
  reminded,   \* reminderSentAt is set
  alerted,    \* arrivalAlertSentAt is set
  run,        \* what the run of a job has listed, and when it began
  owed,       \* the processes with a mutation committed and not signalled yet
  faults

bookings == <<booking, slot, createdAt, guests, visited>>
vars == <<deployed, jobs, state, unheeded, now, booking, slot, createdAt, guests, visited, reminded, alerted, run, owed, faults>>

Up == {n \in Node : jobs \cap Of(n) # {}}
LastTick == LastSlot + Hold
Idle == [todo |-> {}, since |-> 0]

Init ==
  /\ SchedulerInit
  /\ now = 0
  /\ booking = [b \in Booking |-> "ABSENT"]
  /\ slot = [b \in Booking |-> 0]
  /\ createdAt = [b \in Booking |-> 0]
  /\ guests = {} /\ visited = {} /\ reminded = {} /\ alerted = {}
  /\ run = [j \in Job |-> Idle]
  /\ owed = {}
  /\ faults = 0

Tick ==
  /\ now <= LastTick
  /\ now' = now + 1
  /\ UNCHANGED <<scheduler, bookings, reminded, alerted, run, owed, faults>>

(***************************************************************************)
(* The requests, as far as the jobs see them, each committed by a process  *)
(* that signals afterwards.                                                *)
(***************************************************************************)
Open == {"PENDING_PAYMENT", "CONFIRMED"}
Committed(n) == n \in Up /\ owed' = owed \cup {n} /\ UNCHANGED <<scheduler, now, reminded, alerted, run, faults>>

Book(n, b, status, s, guest) ==
  /\ booking[b] = "ABSENT"
  /\ s > now
  /\ guest => status = "CONFIRMED"
  /\ booking' = [booking EXCEPT ![b] = status]
  /\ slot' = [slot EXCEPT ![b] = s]
  /\ createdAt' = [createdAt EXCEPT ![b] = now]
  /\ guests' = IF guest THEN guests \cup {b} ELSE guests
  /\ UNCHANGED visited
  /\ Committed(n)

Move(n, b, s) ==
  /\ booking[b] \in Open
  /\ slot[b] > now /\ s > now /\ s # slot[b]
  /\ slot' = [slot EXCEPT ![b] = s]
  /\ UNCHANGED <<booking, createdAt, guests, visited>>
  /\ Committed(n)

\* Cancelled, marked no-show, completed.
Close(n, b) ==
  /\ booking[b] \in Open
  /\ booking' = [booking EXCEPT ![b] = "CLOSED"]
  /\ UNCHANGED <<slot, createdAt, guests, visited>>
  /\ Committed(n)

CheckIn(n, b) ==
  /\ booking[b] = "CONFIRMED" /\ b \notin visited
  /\ visited' = visited \cup {b}
  /\ UNCHANGED <<booking, slot, createdAt, guests>>
  /\ Committed(n)

Emit(n) ==
  /\ n \in owed
  /\ owed' = owed \ {n}
  /\ Signal(n)
  /\ UNCHANGED <<now, bookings, reminded, alerted, run, faults>>

(***************************************************************************)
(* What each job reads to plan, and what its run lists and claims.         *)
(***************************************************************************)
Before(t, d) == IF t > d THEN t - d ELSE 0

AwaitsAlert(b) == booking[b] = "CONFIRMED" /\ b \notin alerted /\ b \notin visited
AwaitsReminder(b) == booking[b] \in Open /\ b \notin reminded

NextDueAt(k) ==
  CASE k = "expire" -> {createdAt[b] + Hold : b \in {c \in Booking : booking[c] = "PENDING_PAYMENT"}}
    [] k = "remind" -> {Before(slot[b], Window) : b \in {c \in Booking : AwaitsReminder(c) /\ slot[c] > now}}
    [] k = "alert"  -> {Before(slot[b], Lead) : b \in {c \in Booking : AwaitsAlert(c)}}

\* The condition of the claim, which is also that of the list: the run began at time t.
Claimable(k, b, t) ==
  CASE k = "expire" -> booking[b] = "PENDING_PAYMENT" /\ createdAt[b] + Hold < t
    [] k = "remind" -> AwaitsReminder(b) /\ slot[b] > t /\ slot[b] <= t + Window
    [] k = "alert"  -> AwaitsAlert(b) /\ slot[b] <= t + Lead

Candidates(k) == {b \in Booking : Claimable(k, b, now) /\ (k = "remind" => b \notin guests)}

\* runDue begins, and lists.
RunBegins(j) ==
  /\ RunFires(j)
  /\ run' = [run EXCEPT ![j] = [todo |-> Candidates(j[2]), since |-> now]]
  /\ UNCHANGED <<now, bookings, reminded, alerted, owed, faults>>

\* One row: claimed and notified in one transaction, or found changed since it was listed.  Only the
\* expiry emits an event of the domain.
ClaimStale(j, b) ==
  /\ b \in run[j].todo
  /\ run' = [run EXCEPT ![j].todo = @ \ {b}]
  /\ booking' = IF j[2] = "expire" THEN [booking EXCEPT ![b] = "CLOSED"] ELSE booking
  /\ reminded' = IF j[2] = "remind" THEN reminded \cup {b} ELSE reminded
  /\ alerted' = IF j[2] = "alert" THEN alerted \cup {b} ELSE alerted
  /\ owed' = IF j[2] = "expire" THEN owed \cup {j[1]} ELSE owed
  /\ UNCHANGED <<scheduler, now, slot, createdAt, guests, visited, faults>>
Claim(j, b) ==
  LET won == Claimable(j[2], b, run[j].since) IN
  /\ b \in run[j].todo
  /\ run' = [run EXCEPT ![j].todo = @ \ {b}]
  /\ booking' = IF won /\ j[2] = "expire" THEN [booking EXCEPT ![b] = "CLOSED"] ELSE booking
  /\ reminded' = IF won /\ j[2] = "remind" THEN reminded \cup {b} ELSE reminded
  /\ alerted' = IF won /\ j[2] = "alert" THEN alerted \cup {b} ELSE alerted
  /\ owed' = IF won /\ j[2] = "expire" THEN owed \cup {j[1]} ELSE owed
  /\ UNCHANGED <<scheduler, now, slot, createdAt, guests, visited, faults>>

RunReturns(j) ==
  /\ run[j].todo = {}
  /\ RunEnds(j)
  /\ run' = [run EXCEPT ![j] = Idle]
  /\ UNCHANGED <<now, bookings, reminded, alerted, owed, faults>>

(***************************************************************************)
(* The faults.                                                             *)
(***************************************************************************)
Fault == faults < MaxFaults /\ faults' = faults + 1

RunThrows(j) ==
  /\ Fault
  /\ RunEnds(j)
  /\ run' = [run EXCEPT ![j] = Idle]
  /\ UNCHANGED <<now, bookings, reminded, alerted, owed>>

\* The process dies, and with it its timers, reads, runs and the event it still owed.
Crash(n) ==
  /\ Fault
  /\ UnregisterAll(n)
  /\ run' = [j \in Job |-> IF j[1] = n THEN Idle ELSE run[j]]
  /\ owed' = owed \ {n}
  /\ UNCHANGED <<now, bookings, reminded, alerted>>

Start(n) == RegisterAll(n) /\ UNCHANGED <<now, bookings, reminded, alerted, run, owed, faults>>
Reconciles(n) == Reconcile(n) /\ UNCHANGED <<now, bookings, reminded, alerted, run, owed, faults>>

Rest == UNCHANGED <<now, bookings, reminded, alerted, run, owed>>
Refreshes(j) == RefreshFires(j) /\ Rest /\ UNCHANGED faults
Reads(j) == PlanReads(j, NextDueAt(j[2])) /\ Rest /\ UNCHANGED faults
Arms(j) == RefreshEnds(j) /\ Rest /\ UNCHANGED faults
Replans(j) == ReplanFires(j) /\ Rest /\ UNCHANGED faults
PlanThrows(j) == Fault /\ PlanFails(j) /\ Rest

RunStep(j) == RunBegins(j) \/ (\E b \in Booking : Claim(j, b)) \/ RunReturns(j)

Request(n, b) ==
  \/ \E status \in Open, s \in 1 .. LastSlot, guest \in BOOLEAN : Book(n, b, status, s, guest)
  \/ \E s \in 1 .. LastSlot : Move(n, b, s)
  \/ Close(n, b) \/ CheckIn(n, b)

Next ==
  \/ Tick
  \/ \E n \in Node, b \in Booking : Request(n, b)
  \/ \E n \in Node : Emit(n) \/ Start(n) \/ Crash(n) \/ Reconciles(n)
  \/ \E j \in Job : Refreshes(j) \/ Reads(j) \/ Arms(j) \/ Replans(j) \/ RunStep(j) \/ PlanThrows(j) \/ RunThrows(j)

Spec == Init /\ [][Next]_vars

\* Time passes; a process that died is started again; timers fire, and what they start goes on.
\* A timer that is due is set again by every signal: strong fairness says that the signals pause, for
\* MIN_DELAY_MS, again and again.
Fairness ==
  /\ WF_vars(Tick)
  /\ \A n \in Node : WF_vars(Start(n)) /\ WF_vars(Emit(n))
  /\ \A j \in Job :
       /\ WF_vars(Refreshes(j)) /\ WF_vars(Reads(j)) /\ WF_vars(Arms(j)) /\ WF_vars(Replans(j))
       /\ SF_vars(RunBegins(j)) /\ WF_vars(RunStep(j))
FairSpec == Spec /\ Fairness

(***************************************************************************)
(* Properties.                                                             *)
(***************************************************************************)
\* Every variable holds a value of its column, and only a registered job that runs has rows listed.
TypeOK ==
  /\ SchedulerTypeOK
  /\ booking \in [Booking -> Open \cup {"ABSENT", "CLOSED"}]
  /\ slot \in [Booking -> Nat]
  /\ createdAt \in [Booking -> Nat]
  /\ {guests, visited, reminded, alerted} \subseteq SUBSET Booking
  /\ run \in [Job -> [todo : SUBSET Booking, since : Nat]]
  /\ \A j \in Job : run[j] # Idle => j \in jobs /\ state[j].running
  /\ owed \in SUBSET Node
  /\ faults \in Nat

\* What a run claims is still what it listed: nobody is reminded of a booking that is over, no alert
\* is raised for a customer who has checked in, and only a payment hold expires, whichever requests
\* and jobs came between the list and the claim.
ClaimsOpenBooking ==
  [][\A b \in Booking :
       /\ b \in reminded' \ reminded => booking[b] \in Open
       /\ b \in alerted' \ alerted => booking[b] = "CONFIRMED" /\ b \notin visited
       /\ booking[b] = "CONFIRMED" /\ booking'[b] = "CLOSED" => run' = run]_vars

\* A payment hold that has run out is released, and the shop is alerted of a confirmed customer who
\* has not arrived Lead before the slot, unless the booking ends, moves or is checked in first: a
\* timer, a signal and a run may be lost with the process, and another read finds the booking again.
DueIsHandled ==
  \A j \in Job, b \in Booking :
    j \in deployed /\ j[2] # "remind" /\ Claimable(j[2], b, now) ~> ~Claimable(j[2], b, now)
=============================================================================
