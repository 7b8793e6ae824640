------------------------------- MODULE QueueJoin -------------------------------
(***************************************************************************)
(* How an entry gets into the Live Queues of a few salons, on one          *)
(* salon-local day: a customer joins (joinWalkIn), a guest without account *)
(* joins (joinGuestWalkIn), the shop adds who stands in it                 *)
(* (createOperatorEntry), and a booking's customer arrives                 *)
(* (createArrivalQueueEntry).  What becomes of an entry afterwards is      *)
(* module LiveQueue's: here it is served, or leaves.                       *)
(*                                                                         *)
(* A request looks (assertNotAlreadyInQueue) outside its transaction.  The *)
(* transaction takes the salon's advisory lock, reads, and inserts.        *)
(***************************************************************************)
EXTENDS Naturals, FiniteSetsExt

CONSTANTS Salon, Customer, Booking, Entry,
          Person,    \* who a shop or a guest names: a name and the phone that goes with it
          Call,      \* requests in progress at a time
          Capacity,  \* active entries at which a guest is turned away
          None

ASSUME CapacityAssumption == Capacity \in Nat \ {0}
ASSUME RowsAssumption == IsFiniteSet(Entry)

VARIABLES
  booked,  \* Booking.salonId and customerId: None for an appointment made in the shop
  entry,   \* the QueueEntry rows
  old,     \* those that joined more than two minutes ago
  call     \* the requests in progress, and the token their transaction has read

vars == <<booked, entry, old, call>>

Source == {"customer", "guest", "operator", "arrival"}
ASSUME NoneAssumption == None \notin Customer \cup Booking \cup Person \cup Source
Request == [source : Source, salon : Salon, customer : Customer \cup {None},
            name : Person \cup {None}, phone : Person \cup {None}, booking : Booking \cup {None}]

\* A customer gives a phone, or has one; a shop keeps it only with consent.
Asked(r) ==
  CASE r.source = "customer" -> r.customer # None /\ r.name = None /\ r.phone # None /\ r.booking = None
    [] r.source = "guest"    -> r.customer = None /\ r.name # None /\ r.phone = r.name /\ r.booking = None
    [] r.source = "operator" -> r.customer = None /\ r.name # None /\ r.phone \in {r.name, None} /\ r.booking = None
    [] r.source = "arrival"  -> /\ r.booking # None /\ r.name = None /\ r.phone = None
                                /\ booked[r.booking] = [salon |-> r.salon, customer |-> r.customer]

NoRequest == [source |-> None, salon |-> None, customer |-> None, name |-> None, phone |-> None, booking |-> None]
Absent == [status |-> "ABSENT", token |-> 0, by |-> NoRequest]
Idle == [step |-> "idle", token |-> 0, by |-> NoRequest]

Init ==
  /\ booked \in [Booking -> [salon : Salon, customer : Customer \cup {None}]]
  /\ entry = [e \in Entry |-> Absent]
  /\ old = {}
  /\ call = [a \in Call |-> Idle]

Waiting == {e \in Entry : entry[e].status = "WAITING"}
Active == {e \in Entry : entry[e].status \in {"WAITING", "IN_SERVICE"}}
At(salon) == {e \in Entry : entry[e].by.salon = salon}

\* assertNotAlreadyInQueue: in any salon, whatever the source.
AlreadyInQueue(customer) == customer # None /\ \E e \in Active : entry[e].by.customer = customer

\* The request reads what it can refuse by; a refusal changes nothing.
Looks(a, r) ==
  /\ call[a] = Idle
  /\ Asked(r)
  /\ ~AlreadyInQueue(r.customer)
  /\ r.source = "arrival" => \A e \in Entry : entry[e].by.booking # r.booking
  /\ call' = [call EXCEPT ![a] = [step |-> "looked", token |-> 0, by |-> r]]
  /\ UNCHANGED <<booked, entry, old>>

\* pg_advisory_xact_lock(hashtext(salonId)), until the transaction ends.
Free(salon) == \A a \in Call : call[a].step = "locked" => call[a].by.salon # salon

\* nextTokenNumber: one more than the highest of the day.
NextToken(salon) == Max({entry[e].token : e \in At(salon)} \cup {0}) + 1

\* A guest's phone has an active entry in the salon, whoever made it, or the queue is at capacity.
GuestRefused(r) ==
  \/ \E e \in Active \cap At(r.salon) : entry[e].by.phone = r.phone
  \/ Cardinality(Active \cap At(r.salon)) >= Capacity

\* Two taps on "Add": the same name was added a moment ago and still waits.
JustAdded(r) ==
  \E e \in (Waiting \cap At(r.salon)) \ old :
    entry[e].by.source \in {"guest", "operator"} /\ entry[e].by.name = r.name

Refused(r) == (r.source = "guest" /\ GuestRefused(r)) \/ (r.source = "operator" /\ JustAdded(r))

LocksUnserialized(a) ==
  /\ call[a].step = "looked"
  /\ ~Refused(call[a].by)
  /\ call' = [call EXCEPT ![a].step = "locked", ![a].token = NextToken(call[a].by.salon)]
  /\ UNCHANGED <<booked, entry, old>>
LocksForGuestsOnly(a) ==
  /\ call[a].step = "looked" /\ (call[a].by.source = "guest" => Free(call[a].by.salon))
  /\ ~Refused(call[a].by)
  /\ call' = [call EXCEPT ![a].step = "locked", ![a].token = NextToken(call[a].by.salon)]
  /\ UNCHANGED <<booked, entry, old>>
Locks(a) ==
  /\ call[a].step = "looked" /\ Free(call[a].by.salon)
  /\ ~Refused(call[a].by)
  /\ call' = [call EXCEPT ![a].step = "locked", ![a].token = NextToken(call[a].by.salon)]
  /\ UNCHANGED <<booked, entry, old>>

\* ALREADY_IN_QUEUE, QUEUE_ENTRY_ALREADY_ACTIVE, at capacity; or the request fails.
GivesUp(a) ==
  /\ call[a].step \in {"looked", "locked"}
  /\ call' = [call EXCEPT ![a] = Idle]
  /\ UNCHANGED <<booked, entry, old>>

\* The entry is made: bookingId is unique, and a booking checked in meanwhile loses (a GivesUp).
Joins(a, e) ==
  LET r == call[a].by IN
  /\ call[a].step = "locked"
  /\ entry[e] = Absent
  /\ r.booking # None => \A f \in Entry : entry[f].by.booking # r.booking
  /\ entry' = [entry EXCEPT ![e] = [status |-> "WAITING", token |-> call[a].token, by |-> r]]
  /\ call' = [call EXCEPT ![a] = Idle]
  /\ UNCHANGED <<booked, old>>

\* startService, and every way out of the queue: see LiveQueue.
Served(e) ==
  /\ e \in Waiting
  /\ entry' = [entry EXCEPT ![e].status = "IN_SERVICE"]
  /\ UNCHANGED <<booked, old, call>>
Leaves(e) ==
  /\ e \in Active
  /\ entry' = [entry EXCEPT ![e].status = "CLOSED"]
  /\ UNCHANGED <<booked, old, call>>

\* Two minutes pass.
Ages(e) ==
  /\ e \in Waiting \ old
  /\ old' = old \cup {e}
  /\ UNCHANGED <<booked, entry, call>>

Next ==
  \/ \E a \in Call, r \in Request : Looks(a, r)
  \/ \E a \in Call : Locks(a) \/ GivesUp(a)
  \/ \E a \in Call, e \in Entry : Joins(a, e)
  \/ \E e \in Entry : Served(e) \/ Leaves(e) \/ Ages(e)

Spec == Init /\ [][Next]_vars

(***************************************************************************)
(* Properties.                                                             *)
(***************************************************************************)
\* Every variable holds a value of its column; a token is read in the transaction only.
TypeOK ==
  /\ booked \in [Booking -> [salon : Salon, customer : Customer \cup {None}]]
  /\ entry \in [Entry -> [status : {"ABSENT", "WAITING", "IN_SERVICE", "CLOSED"}, token : Nat,
                          by : Request \cup {NoRequest}]]
  /\ old \subseteq Entry
  /\ call \in [Call -> [step : {"idle", "looked", "locked"}, token : Nat, by : Request \cup {NoRequest}]]
  /\ \A a \in Call : call[a].token # 0 <=> call[a].step = "locked"

\* The tokens that a salon gives out on a day are 1, 2, 3 and so on, whoever joins, in whichever
\* way, at the same time.
Made(salon) == {e \in At(salon) : entry[e] # Absent}
TokensConsecutive == \A s \in Salon : {entry[e].token : e \in Made(s)} = 1 .. Cardinality(Made(s))

\* A guest's phone has one active ticket in a salon, however often it joins at a time.
GuestHoldsOne ==
  \A e, f \in Active :
    /\ entry[e].by.source = "guest" /\ entry[f].by.source = "guest"
    /\ entry[e].by.salon = entry[f].by.salon /\ entry[e].by.phone = entry[f].by.phone
    => e = f

\* Two taps on "Add", at the same time or one after the other, add who stands in the shop once.
AddedOnce ==
  \A e, f \in Waiting \ old :
    /\ entry[e].by.source = "operator" /\ entry[f].by.source = "operator"
    /\ entry[e].by.salon = entry[f].by.salon /\ entry[e].by.name = entry[f].by.name
    => e = f

\* Nobody stands in the queue twice: not a guest, and not the customer an operator added with two taps.
HeldOnce == TypeOK /\ GuestHoldsOne /\ AddedOnce

\* A guest never takes a salon's queue past its capacity, although the others join whatever it is.
WithinCapacity ==
  [][\A e \in Entry :
       entry[e] = Absent /\ entry'[e].by.source = "guest" =>
         Cardinality((Active \cap At(entry'[e].by.salon)) \cup {e}) <= Capacity]_vars
================================================================================
