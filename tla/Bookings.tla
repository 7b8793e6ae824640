------------------------------ MODULE Bookings ------------------------------
(***************************************************************************)
(* The bookings of one customer, and of guests, at one salon: their status *)
(* and slot, the visit (queue entry) a check-in makes of each, the credits *)
(* spent on and returned for them, and the charges on the customer's       *)
(* ledger.                                                                 *)
(*                                                                         *)
(* Handlers interleave as in LiveQueue: one that reads before its          *)
(* transaction what the transaction does not check again is two actions.   *)
(* Creation and rescheduling hold the salon's advisory lock in their       *)
(* transaction, cancellations hold the booking's: the salon lock guards    *)
(* all that the former read and write and makes them one step, the other   *)
(* is held from CancelLock to CancelCommit, since the writers of a         *)
(* booking that do not take it may commit in between.                      *)
(*                                                                         *)
(* Services have one length, so two bookings overlap when their slots are  *)
(* equal; slot s begins when the clock shows s, a check-in for it opens at *)
(* s - 1 and its arrival grace has passed at s + 1.                        *)
(***************************************************************************)
EXTENDS Naturals, FiniteSets, Sequences

CONSTANTS Booking,        \* Booking ids
          Request,        \* the HTTP requests that may be in flight together
          LastSlot,       \* bound: the slots of the day are 1 .. LastSlot
          Capacity,       \* getSlotCapacityForServices: customers a slot takes
          CourtesyLimit   \* CANCELLATION_COURTESY_WAIVER_LIMIT

ASSUME BoundsAssumption == LastSlot \in Nat /\ Capacity \in Nat /\ CourtesyLimit \in Nat
ASSUME FiniteAssumption == IsFiniteSet(Booking)

VARIABLES
  booking,    \* Booking.status; "ABSENT" before the row exists
  slot,       \* Booking.slotStart; 0 before the row exists
  guests,     \* the bookings without customerId (IN_SHOP)
  visit,      \* the status of the booking's QueueEntry, WAITING and CALLED as one
  spent,      \* whether Booking.creditsRedeemedAmount is set
  subsidy,    \* the booking's PlatformShopSubsidyEntry
  restored,   \* how many RESTORED credit lots name the booking
  shown,      \* whether Booking.cancellationChargeAmount is above zero
  ledger,     \* the booking's CustomerLedgerEntry rows, in order of creation
  req,        \* what each request in flight has read and is about to do
  now         \* the clock

money == <<spent, subsidy, restored, shown, ledger>>
vars == <<booking, slot, guests, visit, spent, subsidy, restored, shown, ledger, req, now>>

Slot == 1 .. LastSlot
BookingStatus == {"ABSENT", "PENDING_PAYMENT", "CONFIRMED", "CANCELLED", "COMPLETED", "NO_SHOW", "EXPIRED"}
Open == {"PENDING_PAYMENT", "CONFIRMED"}
Reserving == {"CONFIRMED", "PENDING_PAYMENT", "COMPLETED"}
Visit == {"NONE", "UNSTARTED", "IN_SERVICE", "COMPLETED", "CANCELLED", "NO_SHOW", "EXPIRED"}

Due == [reason : {"CANCELLATION_CHARGE", "NO_SHOW_CHARGE"}, status : {"OUTSTANDING", "WAIVED"}]
Charge(reason) == [reason |-> reason, status |-> "OUTSTANDING"]

(* slot: the slot asked for; byShop, charged: who cancels, and whether the *)
(* policy charges for it; due: the position of a ledger row.               *)
Op == {"idle", "create", "cancel", "reschedule", "checkIn", "restoreDue", "courtesy"}
Req == [op : Op, booking : Booking \cup {"none"}, slot : Slot \cup {0},
        byShop : BOOLEAN, charged : BOOLEAN, due : Nat]
Idle == [op |-> "idle", booking |-> "none", slot |-> 0, byShop |-> FALSE, charged |-> FALSE, due |-> 0]

Init ==
  /\ booking = [b \in Booking |-> "ABSENT"]
  /\ slot = [b \in Booking |-> 0]
  /\ guests = {}
  /\ visit = [b \in Booking |-> "NONE"]
  /\ spent = [b \in Booking |-> FALSE]
  /\ subsidy = [b \in Booking |-> "NONE"]
  /\ restored = [b \in Booking |-> 0]
  /\ shown = [b \in Booking |-> FALSE]
  /\ ledger = [b \in Booking |-> <<>>]
  /\ req = [r \in Request |-> Idle]
  /\ now = 0

Begin(r, q) ==
  /\ req[r] = Idle
  /\ req' = [req EXCEPT ![r] = q]
  /\ UNCHANGED <<booking, slot, guests, visit, money, now>>

End(r) == req' = [req EXCEPT ![r] = Idle]

\* A request ends without writing: an early return, a transaction rolled back, a crash.
Refuse(r) == req[r] # Idle /\ End(r) /\ UNCHANGED <<booking, slot, guests, visit, money, now>>

Tick == now <= LastSlot /\ now' = now + 1 /\ UNCHANGED <<booking, slot, guests, visit, money, req>>

(***************************************************************************)
(* Slots: creation and rescheduling.                                       *)
(***************************************************************************)
\* The reserving bookings that overlap slot s, but for b.
PoolReservations(s, b) == Cardinality({a \in Booking \ {b} : booking[a] \in Reserving /\ slot[a] = s})
Bookable(s, b) == PoolReservations(s, b) < Capacity

Owing == \E b \in Booking : \E i \in DOMAIN ledger[b] : ledger[b][i].status = "OUTSTANDING"

CreateRead(r, b, s) ==
  /\ booking[b] = "ABSENT"
  /\ s > now
  /\ ~Owing
  /\ Begin(r, [Idle EXCEPT !.op = "create", !.booking = b, !.slot = s])

\* The payment policy of the salon decides the status; the credits applied, if any, are funded by
\* the platform (which then owes the shop a subsidy) or by the shop.
CreateCommit(r) ==
  LET b == req[r].booking IN
  /\ req[r].op = "create"
  /\ booking[b] = "ABSENT"
  /\ Bookable(req[r].slot, b)
  /\ \E status \in Open : booking' = [booking EXCEPT ![b] = status]
  /\ slot' = [slot EXCEPT ![b] = req[r].slot]
  /\ \E credits \in {"none", "fromShop", "fromPlatform"} :
       /\ spent' = [spent EXCEPT ![b] = credits # "none"]
       /\ subsidy' = [subsidy EXCEPT ![b] = IF credits = "fromPlatform" THEN "OUTSTANDING" ELSE "NONE"]
  /\ End(r)
  /\ UNCHANGED <<guests, visit, restored, shown, ledger, now>>

CreateInShop(b, s) ==
  /\ booking[b] = "ABSENT"
  /\ s >= now
  /\ Bookable(s, b)
  /\ booking' = [booking EXCEPT ![b] = "CONFIRMED"]
  /\ slot' = [slot EXCEPT ![b] = s]
  /\ guests' = guests \cup {b}
  /\ UNCHANGED <<visit, money, req, now>>

RescheduleRead(r, b, s) ==
  /\ booking[b] \in Open
  /\ slot[b] > now /\ s > now
  /\ Begin(r, [Idle EXCEPT !.op = "reschedule", !.booking = b, !.slot = s])

RescheduleUnchecked(r) ==
  /\ req[r].op = "reschedule"
  /\ slot' = [slot EXCEPT ![req[r].booking] = req[r].slot]
  /\ End(r)
  /\ UNCHANGED <<booking, guests, visit, money, now>>
RescheduleReconfirms(r) ==
  /\ req[r].op = "reschedule"
  /\ Bookable(req[r].slot, req[r].booking)
  /\ slot' = [slot EXCEPT ![req[r].booking] = req[r].slot]
  /\ booking' = [booking EXCEPT ![req[r].booking] = "CONFIRMED"]
  /\ End(r)
  /\ UNCHANGED <<guests, visit, money, now>>
RescheduleCommit(r) ==
  /\ req[r].op = "reschedule"
  /\ Bookable(req[r].slot, req[r].booking)
  /\ slot' = [slot EXCEPT ![req[r].booking] = req[r].slot]
  /\ End(r)
  /\ UNCHANGED <<booking, guests, visit, money, now>>

(***************************************************************************)
(* Cancellation by the customer and by the shop.                           *)
(***************************************************************************)
\* The transaction has the booking's lock and has checked the status again.  The check before the
\* transaction asks for the same status, so it is this one.  A guest has no account to cancel from.
CancelUnlocked(r, b, byShop, charged) ==
  /\ booking[b] \in Open
  /\ byShop => ~charged /\ visit[b] \notin {"IN_SERVICE", "COMPLETED"}
  /\ ~byShop => b \notin guests
  /\ Begin(r, [Idle EXCEPT !.op = "cancel", !.booking = b, !.byShop = byShop, !.charged = charged])
CancelLock(r, b, byShop, charged) ==
  /\ \A o \in Request : ~(req[o].op = "cancel" /\ req[o].booking = b)
  /\ booking[b] \in Open
  /\ byShop => ~charged /\ visit[b] \notin {"IN_SERVICE", "COMPLETED"}
  /\ ~byShop => b \notin guests
  /\ Begin(r, [Idle EXCEPT !.op = "cancel", !.booking = b, !.byShop = byShop, !.charged = charged])

CancelKeepsCredits(r) ==
  LET b == req[r].booking IN
  /\ req[r].op = "cancel"
  /\ booking' = [booking EXCEPT ![b] = "CANCELLED"]
  /\ visit' = IF visit[b] = "UNSTARTED" THEN [visit EXCEPT ![b] = "CANCELLED"] ELSE visit
  /\ shown' = [shown EXCEPT ![b] = req[r].charged]
  /\ ledger' = IF req[r].charged THEN [ledger EXCEPT ![b] = Append(@, Charge("CANCELLATION_CHARGE"))] ELSE ledger
  /\ restored' = IF spent[b] /\ ~req[r].byShop THEN [restored EXCEPT ![b] = @ + 1] ELSE restored
  /\ subsidy' = IF spent[b] /\ subsidy[b] = "OUTSTANDING" THEN [subsidy EXCEPT ![b] = "VOIDED"] ELSE subsidy
  /\ End(r)
  /\ UNCHANGED <<slot, guests, spent, now>>
CancelCommit(r) ==
  LET b == req[r].booking IN
  /\ req[r].op = "cancel"
  /\ booking' = [booking EXCEPT ![b] = "CANCELLED"]
  /\ visit' = IF visit[b] = "UNSTARTED" THEN [visit EXCEPT ![b] = "CANCELLED"] ELSE visit
  /\ shown' = [shown EXCEPT ![b] = req[r].charged]
  /\ ledger' = IF req[r].charged THEN [ledger EXCEPT ![b] = Append(@, Charge("CANCELLATION_CHARGE"))] ELSE ledger
  /\ restored' = IF spent[b] THEN [restored EXCEPT ![b] = @ + 1] ELSE restored
  /\ subsidy' = IF spent[b] /\ subsidy[b] = "OUTSTANDING" THEN [subsidy EXCEPT ![b] = "VOIDED"] ELSE subsidy
  /\ End(r)
  /\ UNCHANGED <<slot, guests, spent, now>>

(***************************************************************************)
(* The payment hold runs out; no-show, by the operator; its correction.    *)
(***************************************************************************)
Expire(b) ==
  /\ booking[b] = "PENDING_PAYMENT"
  /\ booking' = [booking EXCEPT ![b] = "EXPIRED"]
  /\ UNCHANGED <<slot, guests, visit, money, req, now>>

MarkNoShow(b, charged) ==
  /\ booking[b] = "CONFIRMED" /\ visit[b] = "NONE"
  /\ now > slot[b]
  /\ b \in guests => ~charged
  /\ booking' = [booking EXCEPT ![b] = "NO_SHOW"]
  /\ shown' = [shown EXCEPT ![b] = charged]
  /\ ledger' = IF charged THEN [ledger EXCEPT ![b] = Append(@, Charge("NO_SHOW_CHARGE"))] ELSE ledger
  /\ UNCHANGED <<slot, guests, visit, spent, subsidy, restored, req, now>>

Waived(dues) ==
  [i \in DOMAIN dues |-> IF dues[i].reason = "NO_SHOW_CHARGE" THEN [dues[i] EXCEPT !.status = "WAIVED"] ELSE dues[i]]

CorrectToCompleted(b) ==
  /\ booking[b] = "NO_SHOW"
  /\ booking' = [booking EXCEPT ![b] = "COMPLETED"]
  /\ shown' = [shown EXCEPT ![b] = FALSE]
  /\ ledger' = [ledger EXCEPT ![b] = Waived(@)]
  /\ UNCHANGED <<slot, guests, visit, spent, subsidy, restored, req, now>>

(***************************************************************************)
(* The visit: check-in, service, and the ends the queue gives it alone.    *)
(***************************************************************************)
CheckInAnyOpen(r, b) ==
  /\ booking[b] \in Open /\ visit[b] = "NONE"
  /\ now + 1 >= slot[b]
  /\ Begin(r, [Idle EXCEPT !.op = "checkIn", !.booking = b])
CheckInRead(r, b) ==
  /\ booking[b] = "CONFIRMED" /\ visit[b] = "NONE"
  /\ now + 1 >= slot[b]
  /\ Begin(r, [Idle EXCEPT !.op = "checkIn", !.booking = b])

\* The unique index on QueueEntry.bookingId is all the transaction checks.
CheckInCommit(r) ==
  LET b == req[r].booking IN
  /\ req[r].op = "checkIn"
  /\ visit[b] = "NONE"
  /\ visit' = [visit EXCEPT ![b] = "UNSTARTED"]
  /\ End(r)
  /\ UNCHANGED <<booking, slot, guests, money, now>>

Start(b) ==
  /\ visit[b] = "UNSTARTED"
  /\ visit' = [visit EXCEPT ![b] = "IN_SERVICE"]
  /\ UNCHANGED <<booking, slot, guests, money, req, now>>

\* The claim is on the ACTIVE session, which is the entry's IN_SERVICE (SessionMatchesEntry); the
\* booking is written whatever its status.
CompleteSession(b) ==
  /\ visit[b] = "IN_SERVICE"
  /\ visit' = [visit EXCEPT ![b] = "COMPLETED"]
  /\ booking' = [booking EXCEPT ![b] = "COMPLETED"]
  /\ UNCHANGED <<slot, guests, money, req, now>>

\* Cancelled in the queue, called in vain, left at closing time: the booking is not told.
VisitEnds(b) ==
  /\ \/ /\ visit[b] = "UNSTARTED"
        /\ \E end \in {"CANCELLED", "NO_SHOW", "EXPIRED"} : visit' = [visit EXCEPT ![b] = end]
     \/ /\ visit[b] = "IN_SERVICE"
        /\ visit' = [visit EXCEPT ![b] = "CANCELLED"]
  /\ UNCHANGED <<booking, slot, guests, money, req, now>>

(***************************************************************************)
(* Dues waived and restored by the owner.                                  *)
(***************************************************************************)
SetDue(b, i, from, to) ==
  /\ ledger[b][i].status = from
  /\ ledger' = [ledger EXCEPT ![b][i].status = to]
  /\ UNCHANGED <<booking, slot, guests, visit, spent, subsidy, restored, shown, now>>

WaiveNoShowDue(b, i) ==
  /\ ledger[b][i].reason = "NO_SHOW_CHARGE"
  /\ SetDue(b, i, "OUTSTANDING", "WAIVED")
  /\ UNCHANGED req

\* Not for a booking that was corrected to completed; of any reason.
RestoreDueRead(r, b, i) ==
  /\ ledger[b][i].status = "WAIVED"
  /\ booking[b] # "COMPLETED"
  /\ Begin(r, [Idle EXCEPT !.op = "restoreDue", !.booking = b, !.due = i])

RestoreDueCommit(r) ==
  /\ req[r].op = "restoreDue"
  /\ SetDue(req[r].booking, req[r].due, "WAIVED", "OUTSTANDING")
  /\ End(r)

CourtesyOn(b) == {i \in DOMAIN ledger[b] : ledger[b][i] = [reason |-> "CANCELLATION_CHARGE", status |-> "WAIVED"]}
CourtesyUsed == UNION {{b} \X CourtesyOn(b) : b \in Booking}

\* The count in the transaction, and then the claim: nothing holds the count still in between.
CourtesyCount(r, b, i) ==
  /\ ledger[b][i] = Charge("CANCELLATION_CHARGE")
  /\ Cardinality(CourtesyUsed) < CourtesyLimit
  /\ Begin(r, [Idle EXCEPT !.op = "courtesy", !.booking = b, !.due = i])

CourtesyClaim(r) ==
  /\ req[r].op = "courtesy"
  /\ SetDue(req[r].booking, req[r].due, "OUTSTANDING", "WAIVED")
  /\ End(r)

CourtesyRestore(b, i) ==
  /\ ledger[b][i].reason = "CANCELLATION_CHARGE"
  /\ SetDue(b, i, "WAIVED", "OUTSTANDING")
  /\ UNCHANGED req

BookingStep(b) ==
  \/ \E s \in Slot : CreateInShop(b, s)
  \/ Expire(b) \/ CorrectToCompleted(b) \/ Start(b) \/ CompleteSession(b) \/ VisitEnds(b)
  \/ \E charged \in BOOLEAN : MarkNoShow(b, charged)
  \/ \E i \in DOMAIN ledger[b] : WaiveNoShowDue(b, i) \/ CourtesyRestore(b, i)

RequestStep(r) ==
  \/ \E b \in Booking, s \in Slot : CreateRead(r, b, s) \/ RescheduleRead(r, b, s)
  \/ \E b \in Booking, byShop, charged \in BOOLEAN : CancelLock(r, b, byShop, charged)
  \/ \E b \in Booking : CheckInRead(r, b)
  \/ \E b \in Booking : \E i \in DOMAIN ledger[b] : RestoreDueRead(r, b, i) \/ CourtesyCount(r, b, i)
  \/ CreateCommit(r) \/ RescheduleCommit(r) \/ CancelCommit(r) \/ CheckInCommit(r)
  \/ RestoreDueCommit(r) \/ CourtesyClaim(r) \/ Refuse(r)

Next == Tick \/ (\E b \in Booking : BookingStep(b)) \/ (\E r \in Request : RequestStep(r))

Spec == Init /\ [][Next]_vars

(***************************************************************************)
(* Properties.                                                             *)
(***************************************************************************)
\* Every variable holds a value of its column, every request one of its record.
TypeOK ==
  /\ booking \in [Booking -> BookingStatus]
  /\ slot \in [Booking -> Slot \cup {0}]
  /\ guests \in SUBSET Booking
  /\ visit \in [Booking -> Visit]
  /\ spent \in [Booking -> BOOLEAN]
  /\ subsidy \in [Booking -> {"NONE", "OUTSTANDING", "VOIDED"}]
  /\ restored \in [Booking -> Nat]
  /\ shown \in [Booking -> BOOLEAN]
  /\ ledger \in [Booking -> Seq(Due)]
  /\ req \in [Request -> Req]
  /\ now \in Nat

\* A slot is never sold beyond its capacity, however creations, in-shop creations, reschedules and
\* the end of other bookings interleave: a reschedule whose booking was cancelled meanwhile included.
SlotNotOversold ==
  \A s \in Slot : Cardinality({b \in Booking : booking[b] \in Open /\ slot[b] = s}) <= Capacity

\* Credits spent on a booking come back exactly when it is cancelled, once, by whoever cancels it
\* and however many try, and the platform then owes the shop nothing for it.
CreditsReturnedOnce ==
  \A b \in Booking :
    /\ restored[b] <= (IF spent[b] THEN 1 ELSE 0)
    /\ booking[b] = "CANCELLED" /\ spent[b] => restored[b] = 1
    /\ restored[b] = 1 => subsidy[b] # "OUTSTANDING"

\* A booking is charged at most once for its cancellation and once for a no-show.
ChargedOncePerReason ==
  \A b \in Booking : \A i, j \in DOMAIN ledger[b] : i # j => ledger[b][i].reason # ledger[b][j].reason

\* A booking that can still be cancelled or moved owes nothing and got nothing back: what settles
\* it happens once, and no late write reopens it.
OpenIsUnsettled ==
  \A b \in Booking : booking[b] \in Open => ledger[b] = <<>> /\ restored[b] = 0 /\ ~shown[b]

\* Nobody is queued on a booking that was never confirmed, and an expired payment hold stays without
\* a visit although check-in reads the booking before it writes the entry.
VisitWasConfirmed ==
  \A b \in Booking : visit[b] # "NONE" => booking[b] \notin {"ABSENT", "PENDING_PAYMENT", "EXPIRED"}
=============================================================================
