-------------------------------- MODULE Offers --------------------------------
(***************************************************************************)
(* OffersService: one offer of a shop on one of its services, published,   *)
(* paused and edited by the owner, and redeemed by customers who book      *)
(* online (BookingsService.create).                                        *)
(*                                                                         *)
(* A booking is prepared without a lock: the service is loaded, the offer  *)
(* previewed.  Its transaction takes the salon's advisory lock, shares the *)
(* service's row and locks the offer's, validates again, and commits.      *)
(***************************************************************************)
EXTENDS Naturals, FiniteSets

CONSTANTS Customer, Booking, Call, None,
          Terms,           \* discountType, discountValue and title
          Price,           \* of the service
          MaxRedemptions,  \* bound: the largest limit an owner sets
          PerCustomer,     \* perCustomerLimit
          MaxVersion       \* bound: updates of the offer

LimitsAssumption == {MaxRedemptions, PerCustomer, MaxVersion} \subseteq Nat \ {0}
RowsAssumption == IsFiniteSet(Booking)
NoneAssumption == None \notin Customer \cup Terms \cup Price

VARIABLES
  offer,    \* the Offer row: version is updatedAt, over is validTo <= now
  price,    \* Service.price
  booking,  \* the bookings made with the offer: what they show, and the OfferRedemption
  call      \* the bookings being made: what they have read

vars == <<offer, price, booking, call>>

NoBooking == [customer |-> None, price |-> None, terms |-> None, redeemed |-> None]
Idle == [step |-> "idle", customer |-> None, price |-> None, terms |-> None, version |-> 0]

Init ==
  /\ offer \in [status : {"DRAFT"}, terms : Terms, max : 1 .. MaxRedemptions, version : {1}, over : {FALSE}]
  /\ price \in Price
  /\ booking = [b \in Booking |-> NoBooking]
  /\ call = [a \in Call |-> Idle]

(***************************************************************************)
(* The owner.  Each operation locks the offer's row.                       *)
(***************************************************************************)
Locked == \E a \in Call : call[a].step = "locked"
Updates(row) ==
  /\ offer.version < MaxVersion
  /\ offer' = [row EXCEPT !.version = offer.version + 1]
  /\ UNCHANGED <<price, booking, call>>

Publish == ~Locked /\ ~offer.over /\ offer.status # "ACTIVE" /\ Updates([offer EXCEPT !.status = "ACTIVE"])

Pause == ~Locked /\ offer.status # "PAUSED" /\ Updates([offer EXCEPT !.status = "PAUSED"])

\* MUST_PAUSE_TO_EDIT.  The limit may go below what is redeemed, and validTo be put off.
Edit(terms, max, over) ==
  /\ ~Locked /\ offer.status # "ACTIVE"
  /\ Updates([offer EXCEPT !.terms = terms, !.max = max, !.over = @ /\ over])

Ends == ~offer.over /\ offer' = [offer EXCEPT !.over = TRUE] /\ UNCHANGED <<price, booking, call>>

\* A transaction that has the service's row shared holds the new price off.
Reprice(p) == ~Locked /\ p # price /\ price' = p /\ UNCHANGED <<offer, booking, call>>

(***************************************************************************)
(* A customer's booking.                                                   *)
(***************************************************************************)
Redeemed == {b \in Booking : booking[b] # NoBooking}
Of(customer) == {b \in Redeemed : booking[b].customer = customer}

\* validateOfferForBooking: in the preview and in the transaction alike.
Valid(customer) ==
  /\ offer.status = "ACTIVE" /\ ~offer.over
  /\ Cardinality(Redeemed) < offer.max
  /\ Cardinality(Of(customer)) < PerCustomer

Load(a, customer) ==
  /\ call[a] = Idle
  /\ call' = [call EXCEPT ![a] = [Idle EXCEPT !.step = "loaded", !.customer = customer, !.price = price]]
  /\ UNCHANGED <<offer, price, booking>>

Preview(a) ==
  /\ call[a].step = "loaded" /\ Valid(call[a].customer)
  /\ call' = [call EXCEPT ![a].step = "previewed", ![a].terms = offer.terms, ![a].version = offer.version]
  /\ UNCHANGED <<offer, price, booking>>

LockTrustingPreview(a) ==
  /\ call[a].step = "previewed" /\ ~Locked
  /\ price = call[a].price /\ offer.terms = call[a].terms /\ offer.version = call[a].version
  /\ call' = [call EXCEPT ![a].step = "locked"]
  /\ UNCHANGED <<offer, price, booking>>
\* The locks are taken, and what was prepared still stands: not so is CHANGED_RETRY.
Lock(a) ==
  /\ call[a].step = "previewed" /\ ~Locked
  /\ price = call[a].price /\ Valid(call[a].customer)
  /\ offer.terms = call[a].terms /\ offer.version = call[a].version
  /\ call' = [call EXCEPT ![a].step = "locked"]
  /\ UNCHANGED <<offer, price, booking>>

\* The booking, with the discount previewed, and its redemption, with the discount validated.
Book(a, b) ==
  /\ call[a].step = "locked" /\ booking[b] = NoBooking
  /\ booking' = [booking EXCEPT ![b] =
       [customer |-> call[a].customer, price |-> call[a].price, terms |-> call[a].terms, redeemed |-> offer.terms]]
  /\ call' = [call EXCEPT ![a] = Idle]
  /\ UNCHANGED <<offer, price>>

\* A refusal at any step, a full slot, a rollback.
Fail(a) ==
  /\ call[a] # Idle
  /\ call' = [call EXCEPT ![a] = Idle]
  /\ UNCHANGED <<offer, price, booking>>

Next ==
  \/ Publish \/ Pause \/ Ends
  \/ \E terms \in Terms, max \in 1 .. MaxRedemptions, over \in BOOLEAN : Edit(terms, max, over)
  \/ \E p \in Price : Reprice(p)
  \/ \E a \in Call, customer \in Customer : Load(a, customer)
  \/ \E a \in Call : Preview(a) \/ Lock(a) \/ Fail(a)
  \/ \E a \in Call, b \in Booking : Book(a, b)

Spec == Init /\ [][Next]_vars

(***************************************************************************)
(* Properties.                                                             *)
(***************************************************************************)
\* Every variable holds a value of its column, and only a preview has read a version.
TypeOK ==
  /\ offer \in [status : {"DRAFT", "ACTIVE", "PAUSED"}, terms : Terms, max : 1 .. MaxRedemptions,
                version : 1 .. MaxVersion, over : BOOLEAN]
  /\ price \in Price
  /\ booking \in [Booking -> [customer : Customer, price : Price, terms : Terms, redeemed : Terms] \cup {NoBooking}]
  /\ call \in [Call -> [step : {"idle", "loaded", "previewed", "locked"}, customer : Customer \cup {None},
                        price : Price \cup {None}, terms : Terms \cup {None}, version : 0 .. MaxVersion]]
  /\ \A a \in Call : call[a].version = 0 <=> call[a].step \in {"idle", "loaded"}

Redeems(b) == booking[b] = NoBooking /\ booking'[b] # NoBooking

\* No booking takes the offer past the limit it has then, nor its customer past a customer's,
\* whoever else books at the same time.
LimitsKept ==
  [][\A b \in Booking : Redeems(b) =>
       /\ Cardinality(Redeemed) + 1 <= offer.max
       /\ Cardinality(Of(booking'[b].customer)) + 1 <= PerCustomer]_vars

\* An offer is redeemed at a price the shop asks and while it is offered: an owner who has paused
\* it, or put the price up, sees no booking made on the old terms afterwards.
RedeemedAsOffered ==
  [][\A b \in Booking : Redeems(b) => offer.status = "ACTIVE" /\ booking'[b].price = price]_vars

\* The discount on a booking is the one its redemption records, although the two are read apart.
SameDiscount == \A b \in Redeemed : booking[b].terms = booking[b].redeemed

\* No booking takes the offer past its limit, nor its customer past a customer's; it is redeemed while
\* it is offered and at a price the shop asks; the discount on a booking is the one its redemption records.
OfferKept == [](TypeOK /\ SameDiscount) /\ LimitsKept /\ RedeemedAsOffered
================================================================================
