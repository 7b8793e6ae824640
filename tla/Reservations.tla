----------------------------- MODULE Reservations -----------------------------
(***************************************************************************)
(* ReservationService and AvailabilityService: which intervals of a day a  *)
(* shop's bookings and the customers in it keep from others, the grid of   *)
(* slots a customer is shown, and the checks of the transactions that book *)
(* (BookingsService.create, createInShop, reschedule) and seat             *)
(* (QueueService.assign, startService, reassign).                          *)
(*                                                                         *)
(* A tick is one cell of the grid.  Intervals are half-open.  All of these *)
(* transactions hold the salon's advisory lock: each is one step here.     *)
(* Every barber is qualified, and works as long as the shop is open.       *)
(***************************************************************************)
EXTENDS Integers, FiniteSetsExt

CONSTANTS Booking, Staff, None,
          Chairs,    \* ACTIVE chairs
          Length,    \* durations of the selections of services
          Close      \* closing time: the shop opens at 0

TimesAssumption == Chairs \in Nat /\ Close \in Nat /\ Length \subseteq Nat \ {0}
RowsAssumption == IsFiniteSet(Booking) /\ IsFiniteSet(Staff) /\ None \notin Booking \cup Staff

VARIABLES
  now,
  booking,  \* status, slotStart, slotEnd, preferredStaffId, and whether a queue entry was made for it
  visit     \* the ACTIVE session of each barber, or the CALLED entry assigned to it

vars == <<now, booking, visit>>

NoBooking == [status |-> "NONE", start |-> 0, end |-> 0, staff |-> None, arrived |-> FALSE]
NoVisit == [from |-> 0, length |-> 0, walkIn |-> FALSE, booking |-> None, started |-> FALSE]

Init ==
  /\ now = 0
  /\ booking = [b \in Booking |-> NoBooking]
  /\ visit = [s \in Staff |-> NoVisit]

(***************************************************************************)
(* ReservationService.                                                     *)
(***************************************************************************)
\* reservingBookingWhere: PENDING_PAYMENT is as CONFIRMED, and COMPLETED keeps its slot.
Reserving(b) == booking[b].status \in {"CONFIRMED", "COMPLETED"}

\* intervalsOverlap, and the same condition of the queries.
Overlap(aStart, aEnd, bStart, bEnd) == aStart < bEnd /\ aEnd > bStart

\* projectedActiveSessionEnd: a service that overruns ends now at the earliest.
ProjectedEnd(v) == Max({v.from + v.length, now})

Booked(start, end) == {b \in Booking : Reserving(b) /\ Overlap(booking[b].start, booking[b].end, start, end)}
Visited(start, end) ==
  {s \in Staff : visit[s] # NoVisit /\ Overlap(visit[s].from, ProjectedEnd(visit[s]), start, end)}
WalkIns(start, end) == {s \in Visited(start, end) : visit[s].walkIn}

\* countPoolReservations, without the booking that is moved.
Reservations(start, end, own) == Cardinality(Booked(start, end) \ {own}) + Cardinality(WalkIns(start, end))

\* isStaffFreeForInterval, likewise: the bookings that ask for this barber, and the customer it has.
Conflicts(s, start, end, own) == {b \in Booked(start, end) \ {own} : booking[b].staff = s}
StaffFree(s, start, end, own) ==
  /\ Conflicts(s, start, end, own) = {}
  /\ s \notin Visited(start, end)

\* computeSlotCapacity, isSlotBookable.
Capacity == Min({Cardinality(Staff), Chairs})

\* The checks of the transactions that book: a slot of the pool, and the barber asked for.
AcceptsIgnoringPool(start, end, s, own) == s = None \/ StaffFree(s, start, end, own)
Accepts(start, end, s, own) ==
  /\ Reservations(start, end, own) < Capacity
  /\ s = None \/ StaffFree(s, start, end, own)

(***************************************************************************)
(* AvailabilityService.getAvailability: the slot of the grid from start is *)
(* shown as available for a selection of this length, with this barber.    *)
(***************************************************************************)
ShownDespiteWalkIns(start, length, s) ==
  /\ start > now /\ start + length <= Close
  /\ Cardinality(Booked(start, start + length)) < Capacity
  /\ s # None => StaffFree(s, start, start + length, None)

Shown(start, length, s) ==
  LET end == start + length IN
  /\ start > now /\ end <= Close
  /\ Cardinality(Booked(start, end)) + Cardinality(WalkIns(start, end)) < Capacity
  /\ ~(s # None /\ (s \in Visited(start, end) \/ \E b \in Booked(start, end) : booking[b].staff = s))

(***************************************************************************)
(* The operations.                                                         *)
(***************************************************************************)
Confirmed(start, length, s) ==
  [status |-> "CONFIRMED", start |-> start, end |-> start + length, staff |-> s, arrived |-> FALSE]

\* A row that is not there, and of which no customer is left in the shop.
New(b) == booking[b] = NoBooking /\ \A s \in Staff : visit[s].booking # b

Bookable(start, length, s) ==
  /\ start > now /\ start + length <= Close
  /\ Accepts(start, start + length, s, None)
Create(b, start, length, s) ==
  /\ New(b)
  /\ Bookable(start, length, s)
  /\ booking' = [booking EXCEPT ![b] = Confirmed(start, length, s)]
  /\ UNCHANGED <<now, visit>>

\* "now-ish": an appointment made at the counter may also begin at once.
CreateInShop(b, start, length, s) ==
  /\ New(b)
  /\ start >= now /\ start + length <= Close
  /\ Accepts(start, start + length, s, b)
  /\ booking' = [booking EXCEPT ![b] = Confirmed(start, length, s)]
  /\ UNCHANGED <<now, visit>>

Reschedule(b, start) ==
  LET end == start + booking[b].end - booking[b].start IN
  /\ booking[b].status = "CONFIRMED" /\ booking[b].start > now
  /\ start > now /\ end <= Close
  /\ Accepts(start, end, booking[b].staff, b)
  /\ booking' = [booking EXCEPT ![b].start = start, ![b].end = end]
  /\ UNCHANGED <<now, visit>>

\* Cancelled, or expired: nothing here reads its row again, unless its customer is being served;
\* one who is only assigned leaves.
Cancel(b) ==
  /\ booking[b].status = "CONFIRMED"
  /\ booking' = [booking EXCEPT ![b] =
       IF \E s \in Staff : visit[s].booking = b /\ visit[s].started THEN [@ EXCEPT !.status = "CANCELLED"] ELSE NoBooking]
  /\ visit' = [s \in Staff |-> IF visit[s].booking = b /\ ~visit[s].started THEN NoVisit ELSE visit[s]]
  /\ UNCHANGED now

\* Not come; and corrected: the customer did come.
Becomes(b, from, to) ==
  /\ booking[b].status = from
  /\ booking' = [booking EXCEPT ![b].status = to]
  /\ UNCHANGED <<now, visit>>
MarkNoShow(b) == booking[b].start <= now /\ ~booking[b].arrived /\ Becomes(b, "CONFIRMED", "NO_SHOW")
CorrectToCompleted(b) == Becomes(b, "NO_SHOW", "COMPLETED")

\* assign, of a walk-in, or of a booking's customer to the barber asked for.
Seat(s, length, own) ==
  /\ own # None =>
       /\ booking[own].status = "CONFIRMED" /\ booking[own].staff \in {s, None}
       /\ \A t \in Staff : visit[t].booking # own
  /\ visit[s] = NoVisit
  /\ StaffFree(s, now, now + length, own)
  /\ visit' = [visit EXCEPT ![s] = [from |-> now, length |-> length, walkIn |-> own = None, booking |-> own, started |-> FALSE]]
  /\ booking' = [b \in Booking |-> IF b = own THEN [booking[b] EXCEPT !.arrived = TRUE] ELSE booking[b]]
  /\ UNCHANGED now

\* startService: the service lasts from now on, which may be long after the assignment.
StartAsAssigned(s) ==
  /\ visit[s] # NoVisit /\ ~visit[s].started
  /\ visit' = [visit EXCEPT ![s].from = now, ![s].started = TRUE]
  /\ UNCHANGED <<now, booking>>
Start(s) ==
  /\ visit[s] # NoVisit /\ ~visit[s].started
  /\ Conflicts(s, now, now + visit[s].length, visit[s].booking) = {}
  /\ visit' = [visit EXCEPT ![s].from = now, ![s].started = TRUE]
  /\ UNCHANGED <<now, booking>>

\* reassign: a service in progress goes on with another barber; it lasts from when it began.
Reassign(s, t) ==
  /\ visit[s].started /\ visit[t] = NoVisit
  /\ StaffFree(t, now, now + visit[s].length, visit[s].booking)
  /\ visit' = [visit EXCEPT ![s] = NoVisit, ![t] = visit[s]]
  /\ UNCHANGED <<now, booking>>

\* The assignment is released; or the service is completed, and its booking with it, even if it
\* was cancelled.
Release(s) ==
  /\ visit[s] # NoVisit /\ ~visit[s].started
  /\ visit' = [visit EXCEPT ![s] = NoVisit]
  /\ UNCHANGED <<now, booking>>
Complete(s) ==
  /\ visit[s].started
  /\ visit' = [visit EXCEPT ![s] = NoVisit]
  /\ booking' = [b \in Booking |-> IF b = visit[s].booking THEN [booking[b] EXCEPT !.status = "COMPLETED"] ELSE booking[b]]
  /\ UNCHANGED now

\* The day's last tick is the one before closing.
Tick == now + 1 < Close /\ now' = now + 1 /\ UNCHANGED <<booking, visit>>

Next ==
  \/ \E b \in Booking, start \in 0 .. Close, length \in Length, s \in Staff \cup {None} :
       Create(b, start, length, s) \/ CreateInShop(b, start, length, s)
  \/ \E b \in Booking, start \in 0 .. Close : Reschedule(b, start)
  \/ \E b \in Booking : Cancel(b) \/ MarkNoShow(b) \/ CorrectToCompleted(b)
  \/ \E s \in Staff, length \in Length, own \in Booking \cup {None} : Seat(s, length, own)
  \/ \E s \in Staff : Start(s) \/ Release(s) \/ Complete(s)
  \/ \E s, t \in Staff : Reassign(s, t)
  \/ Tick

Spec == Init /\ [][Next]_vars

(***************************************************************************)
(* Properties.                                                             *)
(***************************************************************************)
\* Every variable holds a value of its column; a slot ends after it begins, and before closing time.
TypeOK ==
  /\ now \in 0 .. Close
  /\ booking \in [Booking -> [status : {"NONE", "CONFIRMED", "COMPLETED", "NO_SHOW", "CANCELLED"},
                              start : 0 .. Close, end : 0 .. Close,
                              staff : Staff \cup {None}, arrived : BOOLEAN]]
  /\ \A b \in Booking : booking[b] # NoBooking => booking[b].start < booking[b].end
  /\ visit \in [Staff -> [from : 0 .. Close, length : Length \cup {0}, walkIn : BOOLEAN,
                        booking : Booking \cup {None}, started : BOOLEAN]]

Upcoming == {b \in Booking : booking[b].status = "CONFIRMED"}
Apart(a, b) == ~Overlap(booking[a].start, booking[a].end, booking[b].start, booking[b].end)

\* A barber who was asked for has no other booking that asks for it at the same time, and no other
\* customer whose service is due to last into it, whoever came first, until its slot is over.
NamedBarberKept ==
  \A a \in Upcoming : booking[a].staff # None =>
    /\ \A b \in Upcoming \ {a} : booking[b].staff = booking[a].staff => Apart(a, b)
    /\ LET v == visit[booking[a].staff] IN
         \/ v = NoVisit \/ v.booking = a \/ booking[a].end <= now
         \/ ~Overlap(v.from, v.from + v.length, booking[a].start, booking[a].end)

\* A barber whom a customer named is never due at two places at one time.
DayKept == TypeOK /\ NamedBarberKept

\* At no time are there more appointments than barbers, or than chairs, however they are moved.
WithinCapacity ==
  \A t \in 0 .. Close : Cardinality({b \in Upcoming : booking[b].start <= t /\ t < booking[b].end}) <= Capacity

\* "the grid a customer sees here can never disagree with what booking actually allows"
\* (availability.service.ts): a slot is shown as available exactly if it would be accepted now.
GridAgrees ==
  \A start \in 0 .. Close, length \in Length, s \in Staff \cup {None} :
    Shown(start, length, s) <=> Bookable(start, length, s)
================================================================================
