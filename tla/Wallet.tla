--------------------------------- MODULE Wallet ---------------------------------
(***************************************************************************)
(* CustomerCreditsService: the wallet of one customer, and the bookings    *)
(* its credits are spent on, behind the idempotency interceptor.           *)
(*                                                                         *)
(* A coin is one unit of credit.  The lots are the PROMO_GRANT rows, named *)
(* by their idempotencyKey, and the RESTORED rows, named by the booking    *)
(* that returned them; the remainingAmount of a lot is the number of its   *)
(* coins that are left.                                                    *)
(*                                                                         *)
(* Bookings are made at any shop, so that only the customer's advisory     *)
(* lock, held from the reading of the lots to the commit, keeps two of     *)
(* them apart; grants and returns do not take it.                          *)
(***************************************************************************)
EXTENDS IdempotentRequests

CONSTANTS Coin,     \* the credits that may be granted
          Booking   \* Booking ids

ASSUME NamesAssumption == Key \cap Booking = {} /\ None \notin Key \cup Booking
ASSUME CoinAssumption == IsFiniteSet(Coin)

VARIABLES
  lot,      \* the lots: what was put in, what is left, who funds it and until when
  booking,  \* Booking.status, idempotencyKey, creditsRedeemedAmount, and the shop's subsidy
  taking    \* the coins each transaction in progress has read and is to decrement

credits == <<lot, booking, taking>>
vars == <<row, call, answers, faults, lot, booking, taking>>

Lot == Key \cup Booking
Source == {"FASTQUE_FUNDED", "SHOP_FUNDED"}
Body == [op : {"book"}]
          \cup [op : {"cancel"}, booking : Booking]
          \cup [op : {"grant"}, amount : 1 .. Cardinality(Coin), source : Source, ends : {"never", "some"}]

ASSUME NoneAssumption == None \notin Body /\ None \notin Source

NoLot == [body |-> None, coins |-> {}, left |-> {}, source |-> None, ends |-> "never"]
NoBooking == [status |-> "ABSENT", key |-> None, spent |-> {}, owed |-> {}]
Open == {"PENDING_PAYMENT", "CONFIRMED"}

Init ==
  /\ ProtocolInit
  /\ lot = [l \in Lot |-> NoLot]
  /\ booking = [b \in Booking |-> NoBooking]
  /\ taking = [a \in Call |-> {}]

Minted == UNION {lot[l].coins : l \in Key}

\* A request arrives: with a key of its own, or again with the key and body of another.
Arrives(a, k, body) == Claim(a, k, body) /\ UNCHANGED credits
Again(k, body) == Replay(k, body) /\ UNCHANGED credits

Done(a, result) == call' = [call EXCEPT ![a].step = "done", ![a].result = result]
Protocol == UNCHANGED <<row, answers, faults>>

\* The handler throws, before or in its transaction, which is rolled back.
Fails(a) ==
  /\ call[a].step \in {"running", "redeeming"}
  /\ Goes(a, "failed")
  /\ taking' = [taking EXCEPT ![a] = {}]
  /\ Protocol /\ UNCHANGED <<lot, booking>>

(***************************************************************************)
(* A booking: BookingsService.create and redeemUpTo.                       *)
(***************************************************************************)
Usable(l) == IF lot[l].ends = "expired" THEN {} ELSE lot[l].left
Available == UNION {Usable(l) : l \in Lot}
EndingFirst == UNION {lot[l].left : l \in {l \in Key : lot[l].ends = "valid"}}

\* What is taken of the lots for a request: as much of it as there is, what ends first first.
Takings(n) ==
  {C \in SUBSET Available :
     /\ Cardinality(C) = n \/ (Cardinality(C) < n /\ C = Available)
     /\ C \subseteq EndingFirst \/ EndingFirst \subseteq C}

RedeemUnlocked(a) ==
  /\ call[a].step = "running" /\ call[a].body.op = "book"
  /\ \E n \in 0 .. Cardinality(Coin) : \E C \in Takings(n) : taking' = [taking EXCEPT ![a] = C]
  /\ Goes(a, "redeeming")
  /\ Protocol /\ UNCHANGED <<lot, booking>>
\* The client asks for n at most, and the price caps it.  No other transaction of this customer holds the lock.
Redeem(a) ==
  /\ call[a].step = "running" /\ call[a].body.op = "book"
  /\ \A o \in Call : call[o].step # "redeeming"
  /\ \E n \in 0 .. Cardinality(Coin) : \E C \in Takings(n) : taking' = [taking EXCEPT ![a] = C]
  /\ Goes(a, "redeeming")
  /\ Protocol /\ UNCHANGED <<lot, booking>>

\* The part of C that its lots say the platform funds: a RESTORED lot names nobody.
Funded(C) == C \cap UNION {lot[l].left : l \in {l \in Lot : lot[l].source = "FASTQUE_FUNDED"}}

\* The commit.  Booking.idempotencyKey is unique; the subsidy is owed to the shop.
Book(a, b) ==
  /\ call[a].step = "redeeming"
  /\ booking[b] = NoBooking /\ \A o \in Booking : booking[o].key # call[a].key
  /\ \E status \in Open :
       booking' = [booking EXCEPT ![b] = [status |-> status, key |-> call[a].key,
                                          spent |-> taking[a], owed |-> Funded(taking[a])]]
  /\ lot' = [l \in Lot |-> [lot[l] EXCEPT !.left = @ \ taking[a]]]
  /\ taking' = [taking EXCEPT ![a] = {}]
  /\ Done(a, b) /\ Protocol

(***************************************************************************)
(* A cancellation: restoreForCancelledBooking, and the subsidy voided.     *)
(***************************************************************************)
ReturnOwing(b) ==
  /\ booking[b].status \in Open
  /\ booking' = [booking EXCEPT ![b].status = "CANCELLED"]
  /\ lot' = [lot EXCEPT ![b] = [NoLot EXCEPT !.coins = booking[b].spent, !.left = booking[b].spent]]
\* A new lot with what was spent, which never ends.  (A cancellation that commits although its booking
\* has just ended is in Bookings.)
Return(b) ==
  /\ booking[b].status \in Open
  /\ booking' = [booking EXCEPT ![b].status = "CANCELLED", ![b].owed = {}]
  /\ lot' = [lot EXCEPT ![b] = [NoLot EXCEPT !.coins = booking[b].spent, !.left = booking[b].spent]]

Cancel(a) ==
  /\ call[a].step = "running" /\ call[a].body.op = "cancel"
  /\ Return(call[a].body.booking)
  /\ Done(a, call[a].body.booking)
  /\ Protocol /\ UNCHANGED taking

\* cancelByShop is not behind the interceptor.
CancelByShop(b) == Return(b) /\ UNCHANGED <<protocol, taking>>

\* The hold runs out, or the visit is over: the credits are gone.
Ends(b) ==
  /\ booking[b].status \in Open
  /\ booking' = [booking EXCEPT ![b].status = IF @ = "CONFIRMED" THEN "COMPLETED" ELSE "EXPIRED"]
  /\ UNCHANGED <<protocol, lot, taking>>

(***************************************************************************)
(* A grant: grantPromotionalCredits.                                       *)
(***************************************************************************)
Grant(a) ==
  LET k == call[a].key
      body == call[a].body IN
  /\ call[a].step = "running" /\ body.op = "grant"
  /\ lot[k] = NoLot
  /\ \E C \in SUBSET (Coin \ Minted) :
       /\ Cardinality(C) = body.amount
       /\ lot' = [lot EXCEPT ![k] = [body |-> body, coins |-> C, left |-> C, source |-> body.source,
                                     ends |-> IF body.ends = "some" THEN "valid" ELSE "never"]]
  /\ Done(a, k)
  /\ Protocol /\ UNCHANGED <<booking, taking>>

\* The key was used for a grant: for this one, whose answer was lost, or for another.
Regrant(a) ==
  LET k == call[a].key IN
  /\ call[a].step = "running" /\ call[a].body.op = "grant"
  /\ lot[k] # NoLot
  /\ lot[k].body = call[a].body
  /\ Done(a, k)
  /\ Protocol /\ UNCHANGED credits

LotEnds(l) ==
  /\ lot[l].ends = "valid"
  /\ lot' = [lot EXCEPT ![l].ends = "expired"]
  /\ UNCHANGED <<protocol, booking, taking>>

Settles(a) ==
  /\ ProtocolStep(a)
  /\ taking' = [taking EXCEPT ![a] = {}]
  /\ UNCHANGED <<lot, booking>>

Handler(a) == Redeem(a) \/ (\E b \in Booking : Book(a, b)) \/ Cancel(a) \/ Grant(a) \/ Regrant(a)

Next ==
  \/ \E a \in Call, k \in Key, body \in Body : Arrives(a, k, body)
  \/ \E k \in Key, body \in Body : Again(k, body)
  \/ \E a \in Call : Handler(a) \/ Fails(a) \/ Settles(a)
  \/ \E b \in Booking : CancelByShop(b) \/ Ends(b)
  \/ \E l \in Key : LotEnds(l)

Spec == Init /\ [][Next]_vars

(***************************************************************************)
(* Properties.                                                             *)
(***************************************************************************)
\* Rows and requests hold what they may; what a transaction took is its own while it lasts.
TypeOK ==
  /\ row \in [Key -> [body : Body \cup {None}, snapshot : Key \cup Booking \cup {None}]]
  /\ call \in [Call -> [step : {"idle", "running", "redeeming", "done", "failed"}, key : Key \cup {None},
                        body : Body \cup {None}, result : Key \cup Booking \cup {None}]]
  /\ \A a \in Call : Working(a) <=> call[a].key # None
  /\ answers \in [Key -> SUBSET (Key \cup Booking)]
  /\ faults \in Nat
  /\ lot \in [Lot -> [body : Body \cup {None}, coins : SUBSET Coin, left : SUBSET Coin,
                                   source : Source \cup {None}, ends : {"never", "valid", "expired"}]]
  /\ booking \in [Booking -> [status : Open \cup {"ABSENT", "CANCELLED", "EXPIRED", "COMPLETED"},
                              key : Key \cup {None}, spent : SUBSET Coin, owed : SUBSET Coin]]
  /\ taking \in [Call -> SUBSET Coin]
  /\ \A a \in Call : taking[a] # {} => call[a].step = "redeeming"

Purse == UNION {lot[l].left : l \in Lot}
Holds(b) == IF booking[b].status = "CANCELLED" THEN {} ELSE booking[b].spent

\* No credit is spent twice, lost or made: each that was granted is left in one lot or spent on one
\* booking that was not cancelled, whatever is retried, cancelled twice, or dies half-way.
CreditsConserved ==
  /\ Minted = Purse \cup UNION {Holds(b) : b \in Booking}
  /\ \A l, m \in Lot : l # m => lot[l].left \cap lot[m].left = {}
  /\ \A a, b \in Booking : a # b => Holds(a) \cap Holds(b) = {}
  /\ \A b \in Booking : Holds(b) \cap Purse = {}

\* The same, step by step: the wallet implements the credit book, so that a booking spends what is
\* in the purse when it commits and a cancellation returns what it spent.
Promise == INSTANCE CreditBook WITH issued <- Minted, wallet <- Purse, held <- [b \in Booking |-> Holds(b)]
CreditBookKept == Promise!Spec

\* No retry books twice.
BookedOnce == \A a, b \in Booking : booking[a].key = booking[b].key /\ booking[a].key # None => a = b

FromPlatform == UNION {lot[k].coins : k \in {k \in Key : lot[k].source = "FASTQUE_FUNDED"}}

\* The platform owes a shop nothing for credit that a shop funded, that the booking did not use or
\* that went back to the customer.
OwedIsFunded == \A b \in Booking : booking[b].owed \subseteq FromPlatform \cap Holds(b)
=================================================================================
