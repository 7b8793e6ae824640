------------------------------ MODULE WalletProofs ------------------------------
(***************************************************************************)
(* Proofs about IdempotentRequests and Wallet, for any number of keys,     *)
(* requests, bookings, coins and faults.                                   *)
(*                                                                         *)
(* Of the requests: a key that is claimed is worked on by one request at   *)
(* most, and answers only what its row records.  Of the credits: the       *)
(* transaction that redeems takes from the purse what nobody else can take *)
(* until it commits.                                                       *)
(***************************************************************************)
EXTENDS Wallet, TLAPS

\* A key is worked on by one request, and answers what its row records.
KeysInv ==
  /\ \A a \in Call : Working(a) =>
       call[a].body \in Body /\ row[call[a].key] = [body |-> call[a].body, snapshot |-> None]
  /\ \A a, o \in Call : Working(a) /\ Working(o) /\ call[a].key = call[o].key => a = o
  /\ \A k \in Key : answers[k] \subseteq (IF row[k].snapshot = None THEN {} ELSE {row[k].snapshot})
  /\ \A a \in Call : call[a].step = "done" => call[a].result # None

\* One transaction redeems at a time, and what it takes stays in the purse until it commits.
LockInv ==
  /\ \A a \in Call : taking[a] \subseteq Purse
  /\ \A a, o \in Call : call[a].step = "redeeming" /\ call[o].step = "redeeming" => a = o

\* The lot of a booking is there when the booking is cancelled.
LotInv ==
  /\ \A l \in Lot : lot[l].left \subseteq lot[l].coins
  /\ \A b \in Booking : lot[b].source = None /\ (booking[b].status # "CANCELLED" => lot[b] = NoLot)
  /\ \A b \in Booking : booking[b].status = "ABSENT" => booking[b] = NoBooking

IInv == TypeOK /\ KeysInv /\ LockInv /\ LotInv /\ CreditsConserved /\ OwedIsFunded /\ BookedOnce

LEMMA Names == Key \subseteq Lot /\ Booking \subseteq Lot /\ None \notin Key /\ None \notin Booking /\ None \notin Source
BY NamesAssumption, NoneAssumption DEF Lot

\* What most actions do to the credits: nothing the abstract book sees.
Credited == UNCHANGED <<Minted, Purse>> /\ \A b \in Booking : Holds(b)' = Holds(b)

LEMMA LotTypes ==
  ASSUME TypeOK
  PROVE  /\ \A l \in Lot : lot[l].left \in SUBSET Coin /\ lot[l].coins \in SUBSET Coin
         /\ \A b \in Booking : booking[b].spent \in SUBSET Coin /\ Holds(b) \in SUBSET Coin
         /\ Purse \in SUBSET Coin /\ Minted \in SUBSET Coin
BY Names DEF TypeOK, Purse, Minted, Holds

\* Book: what was taken leaves the purse for the booking.
LEMMA BookMoves ==
  ASSUME IInv, NEW a \in Call, NEW b \in Booking, Book(a, b)
  PROVE  /\ \A l \in Lot : lot'[l] = [lot[l] EXCEPT !.left = lot[l].left \ taking[a]]
         /\ Minted' = Minted /\ Purse' = Purse \ taking[a] /\ taking[a] \subseteq Purse
         /\ Holds(b) = {} /\ Holds(b)' = taking[a] /\ \A o \in Booking \ {b} : booking'[o] = booking[o] /\ Holds(o)' = Holds(o)
<1>1. /\ lot' = [l \in Lot |-> [lot[l] EXCEPT !.left = lot[l].left \ taking[a]]]
      /\ lot \in [Lot -> [body : Body \cup {None}, coins : SUBSET Coin, left : SUBSET Coin,
                          source : Source \cup {None}, ends : {"never", "valid", "expired"}]]
  BY DEF Book, IInv, TypeOK
<1>2. \A l \in Lot : lot'[l] = [lot[l] EXCEPT !.left = lot[l].left \ taking[a]]
  BY <1>1
<1>3. \A l \in Lot : lot'[l].coins = lot[l].coins /\ lot'[l].left = lot[l].left \ taking[a]
  BY <1>1
<1>4. Minted' = Minted
  BY <1>3, Names DEF Minted
<1>5. Purse' = Purse \ taking[a]
  BY <1>3 DEF Purse
<1>6. PICK status \in Open : booking' = [booking EXCEPT ![b] = [status |-> status, key |-> call[a].key,
                                                               spent |-> taking[a], owed |-> Funded(taking[a])]]
  BY DEF Book
<1>7. Holds(b)' = taking[a] /\ \A o \in Booking \ {b} : booking'[o] = booking[o]
  BY <1>6 DEF IInv, TypeOK, Holds, Open
<1>8. Holds(b) = {}
  BY DEF Book, NoBooking, Holds
<1>9. taking[a] \subseteq Purse
  BY DEF IInv, LockInv
<1> QED BY <1>2, <1>4, <1>5, <1>7, <1>8, <1>9 DEF Holds

\* Return: what the booking held is the booking's lot, and so in the purse.
LEMMA ReturnMoves ==
  ASSUME IInv, NEW b \in Booking, Return(b)
  PROVE  /\ lot'[b] = [NoLot EXCEPT !.coins = Holds(b), !.left = Holds(b)] /\ lot[b] = NoLot
         /\ \A l \in Lot \ {b} : lot'[l] = lot[l]
         /\ booking'[b] = [booking[b] EXCEPT !.status = "CANCELLED", !.owed = {}]
         /\ \A o \in Booking \ {b} : booking'[o] = booking[o] /\ Holds(o)' = Holds(o)
         /\ Minted' = Minted /\ Purse' = Purse \cup Holds(b) /\ Holds(b)' = {}
<1>1. Holds(b) = booking[b].spent /\ booking[b].status \in Open /\ booking[b].status # "CANCELLED"
  BY DEF Return, Holds, Open
<1>2. lot[b] = NoLot /\ b \in Lot /\ b \notin Key
  BY <1>1, Names, NamesAssumption DEF IInv, LotInv
<1>3. /\ lot' = [lot EXCEPT ![b] = [NoLot EXCEPT !.coins = Holds(b), !.left = Holds(b)]]
      /\ booking' = [booking EXCEPT ![b] = [booking[b] EXCEPT !.status = "CANCELLED", !.owed = {}]]
  BY <1>1 DEF Return, IInv, TypeOK
<1>4. lot'[b] = [NoLot EXCEPT !.coins = Holds(b), !.left = Holds(b)] /\ \A l \in Lot \ {b} : lot'[l] = lot[l]
  BY <1>2, <1>3 DEF IInv, TypeOK
<1>5. /\ booking'[b] = [booking[b] EXCEPT !.status = "CANCELLED", !.owed = {}]
      /\ \A o \in Booking \ {b} : booking'[o] = booking[o]
  BY <1>3 DEF IInv, TypeOK
<1>6. Minted' = Minted
  BY <1>2, <1>4, Names DEF Minted
<1>7. lot'[b].left = Holds(b) /\ lot[b].left = {}
  BY <1>2, <1>4 DEF NoLot
<1>8. Purse' = Purse \cup Holds(b)
  <2>1. Purse' \subseteq Purse \cup Holds(b)
    BY <1>4, <1>7 DEF Purse
  <2>2. Purse \subseteq Purse'
    BY <1>4, <1>7 DEF Purse
  <2>3. Holds(b) \subseteq Purse'
    BY <1>2, <1>7 DEF Purse
  <2> QED BY <2>1, <2>2, <2>3
<1>9. Holds(b)' = {}
  BY <1>5 DEF Holds, IInv, TypeOK
<1> QED BY <1>2, <1>4, <1>5, <1>6, <1>8, <1>9 DEF Holds

\* Grant: new coins in a new lot.
LEMMA GrantMoves ==
  ASSUME IInv, NEW a \in Call, Grant(a)
  PROVE  \E C \in SUBSET (Coin \ Minted), ends \in {"never", "valid"} :
           /\ call[a].key \in Key /\ call[a].body \in Body /\ call[a].body.source \in Source
           /\ lot[call[a].key] = NoLot
           /\ lot'[call[a].key] = [body |-> call[a].body, coins |-> C, left |-> C, source |-> call[a].body.source, ends |-> ends]
           /\ \A l \in Lot \ {call[a].key} : lot'[l] = lot[l]
           /\ Minted' = Minted \cup C /\ Purse' = Purse \cup C
           /\ booking' = booking /\ \A b \in Booking : Holds(b)' = Holds(b)
<1> DEFINE k == call[a].key
<1>1. k \in Key /\ call[a].body \in Body
  BY Names DEF IInv, TypeOK, KeysInv, Grant, Working
<1>2. call[a].body.source \in Source
  BY <1>1 DEF Grant, Body
<1>3. PICK C \in SUBSET (Coin \ Minted), ends \in {"never", "valid"} :
        lot' = [lot EXCEPT ![k] = [body |-> call[a].body, coins |-> C, left |-> C, source |-> call[a].body.source, ends |-> ends]]
  BY DEF Grant
<1>4. /\ lot'[k] = [body |-> call[a].body, coins |-> C, left |-> C, source |-> call[a].body.source, ends |-> ends]
      /\ \A l \in Lot \ {k} : lot'[l] = lot[l]
  BY <1>1, <1>3, Names DEF IInv, TypeOK
<1>5. lot[k] = NoLot /\ booking' = booking
  BY DEF Grant
<1>6. lot[k].left = {} /\ lot[k].coins = {} /\ lot'[k].left = C /\ lot'[k].coins = C /\ k \in Lot
  BY <1>1, <1>4, <1>5, Names DEF NoLot
<1>7. Minted' = Minted \cup C
  BY <1>1, <1>4, <1>6, Names DEF Minted
<1>8. Purse' = Purse \cup C
  BY <1>4, <1>6 DEF Purse
<1> HIDE DEF k
<1>9. \A b \in Booking : Holds(b)' = Holds(b)
  BY <1>5 DEF Holds
<1> QED BY <1>1, <1>2, <1>4, <1>5, <1>7, <1>8, <1>9 DEF k

\* A lot that ends, or a booking that does, moves nothing.
LEMMA EndsMoves ==
  ASSUME IInv
  PROVE  /\ \A l \in Key : LotEnds(l) => Credited
         /\ \A b \in Booking : Ends(b) => Credited
<1>1. ASSUME NEW l \in Key, LotEnds(l) PROVE Credited
  <2>1. \A m \in Lot : lot'[m].left = lot[m].left /\ lot'[m].coins = lot[m].coins
    BY <1>1 DEF LotEnds, IInv, TypeOK
  <2>2. booking' = booking
    BY <1>1 DEF LotEnds
  <2> QED BY <2>1, <2>2, Names DEF Credited, Minted, Purse, Holds
<1>2. ASSUME NEW b \in Booking, Ends(b) PROVE Credited
  <2>1. lot' = lot /\ \A o \in Booking : Holds(o)' = Holds(o)
    BY <1>2 DEF Ends, IInv, TypeOK, Holds, Open
  <2> QED BY <2>1 DEF Credited, Minted, Purse
<1> QED BY <1>1, <1>2

(***************************************************************************)
(* The wallet implements the credit book.                                  *)
(***************************************************************************)
LEMMA StepsImplement ==
  ASSUME IInv, [Next]_vars
  PROVE  [Promise!Next]_(Promise!book)
<1> DEFINE held == [b \in Booking |-> Holds(b)]
<1>1. ASSUME Credited PROVE UNCHANGED <<Minted, Purse, held>>
  BY <1>1 DEF Credited
<1>2. ASSUME UNCHANGED <<lot, booking>> PROVE Credited
  BY <1>2 DEF Credited, Minted, Purse, Holds
<1>3. ASSUME NEW a \in Call, NEW b \in Booking, Book(a, b) PROVE Promise!Spend(b, taking[a]) /\ taking[a] \in SUBSET Coin
  <2>1. held' = [held EXCEPT ![b] = taking[a]]
    BY <1>3, BookMoves
  <2>2. taking[a] \in SUBSET Coin
    BY DEF IInv, TypeOK
  <2> QED BY <1>3, <2>1, <2>2, BookMoves DEF Promise!Spend
<1>4. ASSUME NEW b \in Booking, Return(b) PROVE Promise!Return(b)
  <2>1. held' = [held EXCEPT ![b] = {}]
    BY <1>4, ReturnMoves
  <2> QED BY <1>4, <2>1, ReturnMoves DEF Promise!Return
<1>5. ASSUME NEW a \in Call, Grant(a) PROVE \E C \in SUBSET Coin : Promise!Issue(C)
  <2>1. PICK C \in SUBSET (Coin \ Minted) : Minted' = Minted \cup C /\ Purse' = Purse \cup C /\ \A b \in Booking : Holds(b)' = Holds(b)
    BY <1>5, GrantMoves
  <2> QED BY <2>1 DEF Promise!Issue
<1>6. ASSUME NEW a \in Call, Redeem(a) \/ Regrant(a) \/ Fails(a) \/ Settles(a) PROVE Credited
  BY <1>2, <1>6 DEF Redeem, Regrant, credits, Fails, Settles
<1>7. ASSUME NEW a \in Call, NEW k \in Key, NEW body \in Body, Arrives(a, k, body) \/ Again(k, body) PROVE Credited
  BY <1>2, <1>7 DEF Arrives, Again, credits
<1>8. ASSUME UNCHANGED vars PROVE Credited
  BY <1>2, <1>8 DEF vars
<1>9. ASSUME NEW a \in Call, Handler(a) PROVE Promise!Next \/ Credited
  <2>1. CASE \E b \in Booking : Book(a, b)
    BY <1>3, <2>1 DEF Promise!Next
  <2>2. CASE Cancel(a)
    <3>1. call[a].body \in Body /\ call[a].body.booking \in Booking
      BY <2>2 DEF Cancel, IInv, KeysInv, Working, Body
    <3> QED BY <1>4, <2>2, <3>1 DEF Cancel, Promise!Next
  <2>3. CASE Grant(a)
    BY <1>5, <2>3 DEF Promise!Next
  <2> QED BY <1>6, <1>9, <2>1, <2>2, <2>3 DEF Handler
<1>10. ASSUME NEW b \in Booking, CancelByShop(b) \/ Ends(b) PROVE Promise!Next \/ Credited
  BY <1>4, <1>10, EndsMoves DEF CancelByShop, Promise!Next
<1>11. ASSUME NEW l \in Key, LotEnds(l) PROVE Credited
  BY <1>11, EndsMoves
<1>12. ASSUME Next PROVE Promise!Next \/ Credited
  <2>1. CASE \E a \in Call, k \in Key, body \in Body : Arrives(a, k, body)
    BY <1>7, <2>1
  <2>2. CASE \E k \in Key, body \in Body : Again(k, body)
    <3>1. UNCHANGED <<lot, booking>>
      BY <2>2 DEF Again, credits
    <3> QED BY <1>2, <3>1
  <2>3. CASE \E a \in Call : Handler(a) \/ Fails(a) \/ Settles(a)
    BY <1>6, <1>9, <2>3
  <2>4. CASE \E b \in Booking : CancelByShop(b) \/ Ends(b)
    BY <1>10, <2>4
  <2>5. CASE \E l \in Key : LotEnds(l)
    BY <1>11, <2>5
  <2> QED BY <1>12, <2>1, <2>2, <2>3, <2>4, <2>5 DEF Next
<1> QED BY <1>1, <1>8, <1>12 DEF Promise!book

(***************************************************************************)
(* The steps of a request.                                                 *)
(***************************************************************************)
LEMMA CallTypes ==
  ASSUME TypeOK, NEW a \in Call
  PROVE  /\ call[a] \in [step : {"idle", "running", "redeeming", "done", "failed"}, key : Key \cup {None},
                         body : Body \cup {None}, result : Key \cup Booking \cup {None}]
         /\ Working(a) => call[a].key \in Key
BY DEF TypeOK

\* A request that works goes on: its step and perhaps its result change.
LEMMA GoesOn ==
  ASSUME IInv, NEW a \in Call, Working(a), NEW step \in {"running", "redeeming", "done", "failed"},
         NEW result \in Key \cup Booking \cup {None}, step = "done" => result # None,
         call' = [call EXCEPT ![a] = [call[a] EXCEPT !.step = step, !.result = result]],
         UNCHANGED <<row, answers>>
  PROVE  /\ KeysInv'
         /\ \A o \in Call : call'[o].step = (IF o = a THEN step ELSE call[o].step)
         /\ call' \in [Call -> [step : {"idle", "running", "redeeming", "done", "failed"}, key : Key \cup {None},
                                body : Body \cup {None}, result : Key \cup Booking \cup {None}]]
         /\ \A o \in Call : Working(o)' <=> call'[o].key # None
<1>1. call[a] \in [step : {"idle", "running", "redeeming", "done", "failed"}, key : Key \cup {None},
                   body : Body \cup {None}, result : Key \cup Booking \cup {None}]
  BY CallTypes DEF IInv
<1> DEFINE c == [call[a] EXCEPT !.step = step, !.result = result]
<1>2. c.step = step /\ c.key = call[a].key /\ c.body = call[a].body /\ c.result = result
  BY <1>1
<1>3. c \in [step : {"idle", "running", "redeeming", "done", "failed"}, key : Key \cup {None},
             body : Body \cup {None}, result : Key \cup Booking \cup {None}]
  BY <1>1
<1> HIDE DEF c
<1>4. call' = [call EXCEPT ![a] = c]
  BY DEF c
<1>5. \A o \in Call : call'[o] = IF o = a THEN c ELSE call[o]
  BY <1>4 DEF IInv, TypeOK
<1>6. \A o \in Call : (Working(o)' <=> Working(o)) /\ call'[o].key = call[o].key /\ call'[o].body = call[o].body
  BY <1>2, <1>5 DEF Working
<1>7. call' \in [Call -> [step : {"idle", "running", "redeeming", "done", "failed"}, key : Key \cup {None},
                          body : Body \cup {None}, result : Key \cup Booking \cup {None}]]
  BY <1>3, <1>4 DEF IInv, TypeOK
<1>8. KeysInv'
  <2>1. \A o \in Call : Working(o)' =>
          call'[o].body \in Body /\ row'[call'[o].key] = [body |-> call'[o].body, snapshot |-> None]
    BY <1>6 DEF IInv, KeysInv
  <2>2. \A o, q \in Call : Working(o)' /\ Working(q)' /\ call'[o].key = call'[q].key => o = q
    BY <1>6 DEF IInv, KeysInv
  <2>3. \A k \in Key : answers'[k] \subseteq (IF row'[k].snapshot = None THEN {} ELSE {row'[k].snapshot})
    BY DEF IInv, KeysInv
  <2>4. \A o \in Call : call'[o].step = "done" => call'[o].result # None
    BY <1>2, <1>5 DEF IInv, KeysInv
  <2> QED BY <2>1, <2>2, <2>3, <2>4 DEF KeysInv
<1> QED BY <1>2, <1>5, <1>6, <1>7, <1>8 DEF IInv, TypeOK

\* A request that is over, with the row of its key recorded, given up or left.
LEMMA IsOver ==
  ASSUME IInv, NEW a \in Call, Working(a), call' = [call EXCEPT ![a] = Idle],
         \/ UNCHANGED <<row, answers>>
         \/ row' = [row EXCEPT ![call[a].key] = NoRow] /\ UNCHANGED answers
         \/ /\ call[a].result \in Key \cup Booking
            /\ row' = [row EXCEPT ![call[a].key].snapshot = call[a].result]
            /\ Answer(call[a].key, call[a].result)
  PROVE  /\ KeysInv'
         /\ \A o \in Call : call'[o].step = (IF o = a THEN "idle" ELSE call[o].step)
         /\ call' \in [Call -> [step : {"idle", "running", "redeeming", "done", "failed"}, key : Key \cup {None},
                                body : Body \cup {None}, result : Key \cup Booking \cup {None}]]
         /\ \A o \in Call : Working(o)' <=> call'[o].key # None
         /\ row' \in [Key -> [body : Body \cup {None}, snapshot : Key \cup Booking \cup {None}]]
         /\ answers' \in [Key -> SUBSET (Key \cup Booking)]
<1> DEFINE k == call[a].key
<1>0. /\ k \in Key /\ row \in [Key -> [body : Body \cup {None}, snapshot : Key \cup Booking \cup {None}]]
      /\ answers \in [Key -> SUBSET (Key \cup Booking)] /\ row[k].snapshot = None /\ answers[k] = {}
  <2>1. k \in Key
    BY CallTypes DEF IInv
  <2>2. row[k] = [body |-> call[a].body, snapshot |-> None]
    BY DEF IInv, KeysInv
  <2>3. row[k].snapshot = None
    BY <2>2
  <2> HIDE DEF k
  <2>4. answers[k] = {}
    BY <2>1, <2>3 DEF IInv, KeysInv
  <2> QED BY <2>1, <2>3, <2>4 DEF IInv, TypeOK
<1> HIDE DEF k
<1>1. \A o \in Call : call'[o] = IF o = a THEN Idle ELSE call[o]
  BY DEF IInv, TypeOK
<1>2. /\ \A o \in Call : call'[o].step = (IF o = a THEN "idle" ELSE call[o].step)
      /\ call' \in [Call -> [step : {"idle", "running", "redeeming", "done", "failed"}, key : Key \cup {None},
                             body : Body \cup {None}, result : Key \cup Booking \cup {None}]]
  BY <1>1 DEF Idle, IInv, TypeOK
<1>3. \A o \in Call : /\ Working(o)' <=> call'[o].key # None
                      /\ Working(o)' => o # a /\ Working(o) /\ call'[o] = call[o] /\ call[o].key # k /\ call[o].key \in Key
  BY <1>1, <1>2, CallTypes DEF Working, Idle, IInv, TypeOK, KeysInv, k
<1>4. /\ row' \in [Key -> [body : Body \cup {None}, snapshot : Key \cup Booking \cup {None}]]
      /\ answers' \in [Key -> SUBSET (Key \cup Booking)]
      /\ \A j \in Key \ {k} : row'[j] = row[j] /\ answers'[j] = answers[j]
      /\ answers'[k] \subseteq (IF row'[k].snapshot = None THEN {} ELSE {row'[k].snapshot})
  <2>1. CASE UNCHANGED <<row, answers>>
    BY <1>0, <2>1
  <2>2. CASE row' = [row EXCEPT ![k] = NoRow] /\ UNCHANGED answers
    BY <1>0, <2>2 DEF NoRow
  <2>3. CASE /\ call[a].result \in Key \cup Booking
             /\ row' = [row EXCEPT ![k].snapshot = call[a].result]
             /\ Answer(k, call[a].result)
    <3>1. answers' = [answers EXCEPT ![k] = answers[k] \cup {call[a].result}]
      BY <2>3 DEF Answer
    <3>2. row'[k].snapshot = call[a].result /\ call[a].result # None
      BY <1>0, <2>3, Names
    <3> QED BY <1>0, <2>3, <3>1, <3>2
  <2> QED BY <2>1, <2>2, <2>3 DEF k
<1>5. KeysInv'
  <2>1. \A o \in Call : Working(o)' =>
          call'[o].body \in Body /\ row'[call'[o].key] = [body |-> call'[o].body, snapshot |-> None]
    BY <1>3, <1>4 DEF IInv, KeysInv
  <2>2. \A o, q \in Call : Working(o)' /\ Working(q)' /\ call'[o].key = call'[q].key => o = q
    BY <1>3 DEF IInv, KeysInv
  <2>3. \A j \in Key : answers'[j] \subseteq (IF row'[j].snapshot = None THEN {} ELSE {row'[j].snapshot})
    BY <1>4 DEF IInv, KeysInv
  <2>4. \A o \in Call : call'[o].step = "done" => call'[o].result # None
    BY <1>1 DEF IInv, KeysInv, Idle
  <2> QED BY <2>1, <2>2, <2>3, <2>4 DEF KeysInv
<1> QED BY <1>2, <1>3, <1>4, <1>5

LEMMA ClaimKeeps ==
  ASSUME IInv, NEW a \in Call, NEW k \in Key, NEW body \in Body, Claim(a, k, body)
  PROVE  /\ KeysInv'
         /\ \A o \in Call : call'[o].step = (IF o = a THEN "running" ELSE call[o].step)
         /\ call' \in [Call -> [step : {"idle", "running", "redeeming", "done", "failed"}, key : Key \cup {None},
                                body : Body \cup {None}, result : Key \cup Booking \cup {None}]]
         /\ \A o \in Call : Working(o)' <=> call'[o].key # None
         /\ row' \in [Key -> [body : Body \cup {None}, snapshot : Key \cup Booking \cup {None}]]
<1> DEFINE c == [step |-> "running", key |-> k, body |-> body, result |-> None]
<1>1. /\ \A o \in Call : call'[o] = IF o = a THEN c ELSE call[o]
      /\ \A j \in Key : row'[j] = IF j = k THEN [body |-> body, snapshot |-> None] ELSE row[j]
      /\ row[k] = NoRow /\ answers' = answers
  BY DEF Claim, IInv, TypeOK
<1>2. \A o \in Call : Working(o) => call[o].key # k
  <2> SUFFICES ASSUME NEW o \in Call, Working(o), call[o].key = k PROVE FALSE
    OBVIOUS
  <2>1. call[o].body \in Body /\ row[k] = [body |-> call[o].body, snapshot |-> None]
    BY DEF IInv, KeysInv
  <2> QED BY <1>1, <2>1, NoneAssumption DEF NoRow
<1>3. /\ \A o \in Call : call'[o].step = (IF o = a THEN "running" ELSE call[o].step)
      /\ call' \in [Call -> [step : {"idle", "running", "redeeming", "done", "failed"}, key : Key \cup {None},
                             body : Body \cup {None}, result : Key \cup Booking \cup {None}]]
      /\ row' \in [Key -> [body : Body \cup {None}, snapshot : Key \cup Booking \cup {None}]]
  BY <1>1 DEF Claim, IInv, TypeOK
<1>4. \A o \in Call : /\ Working(o)' <=> call'[o].key # None
                      /\ Working(o)' => (o = a /\ call'[o] = c) \/ (o # a /\ Working(o) /\ call'[o] = call[o] /\ call[o].key \in Key \ {k})
  BY <1>1, <1>2, <1>3, CallTypes, Names DEF Working, IInv, TypeOK
<1>5. KeysInv'
  <2>1. \A o \in Call : Working(o)' =>
          call'[o].body \in Body /\ row'[call'[o].key] = [body |-> call'[o].body, snapshot |-> None]
    BY <1>1, <1>4 DEF IInv, KeysInv
  <2>2. \A o, q \in Call : Working(o)' /\ Working(q)' /\ call'[o].key = call'[q].key => o = q
    BY <1>4 DEF IInv, KeysInv
  <2>3. \A j \in Key : answers'[j] \subseteq (IF row'[j].snapshot = None THEN {} ELSE {row'[j].snapshot})
    BY <1>1 DEF IInv, KeysInv, NoRow
  <2>4. \A o \in Call : call'[o].step = "done" => call'[o].result # None
    BY <1>1 DEF IInv, KeysInv
  <2> QED BY <2>1, <2>2, <2>3, <2>4 DEF KeysInv
<1> QED BY <1>3, <1>4, <1>5

(***************************************************************************)
(* The steps of the credits.                                               *)
(***************************************************************************)
CreditTypes ==
  /\ lot \in [Lot -> [body : Body \cup {None}, coins : SUBSET Coin, left : SUBSET Coin,
                      source : Source \cup {None}, ends : {"never", "valid", "expired"}]]
  /\ booking \in [Booking -> [status : Open \cup {"ABSENT", "CANCELLED", "EXPIRED", "COMPLETED"},
                              key : Key \cup {None}, spent : SUBSET Coin, owed : SUBSET Coin]]
CreditInv == CreditTypes /\ LotInv /\ CreditsConserved /\ OwedIsFunded /\ BookedOnce

LotRow == [body : Body \cup {None}, coins : SUBSET Coin, left : SUBSET Coin,
           source : Source \cup {None}, ends : {"never", "valid", "expired"}]

LEMMA LotRows ==
  ASSUME NEW r \in LotRow, NEW C \in SUBSET Coin
  PROVE  [r EXCEPT !.left = C] \in LotRow /\ [r EXCEPT !.ends = "expired"] \in LotRow /\ r.left \in SUBSET Coin
BY DEF LotRow

LEMMA FundedCoins ==
  ASSUME IInv, NEW C \in SUBSET Purse
  PROVE  Funded(C) \subseteq FromPlatform \cap C
<1>1. \A b \in Booking : lot[b].source # "FASTQUE_FUNDED"
  BY Names DEF IInv, LotInv, Source
<1>2. \A l \in Lot : lot[l].source = "FASTQUE_FUNDED" => l \in Key
  BY <1>1 DEF Lot
<1>3. \A l \in Lot : lot[l].left \subseteq lot[l].coins
  BY DEF IInv, LotInv
<1> QED BY <1>2, <1>3 DEF Funded, FromPlatform

LEMMA BookKeeps ==
  ASSUME IInv, NEW a \in Call, NEW b \in Booking, Book(a, b)
  PROVE  CreditInv'
<1> DEFINE T == taking[a]
<1>1. /\ \A l \in Lot : lot'[l] = [lot[l] EXCEPT !.left = lot[l].left \ T]
      /\ Minted' = Minted /\ Purse' = Purse \ T /\ T \subseteq Purse
      /\ Holds(b) = {} /\ Holds(b)' = T /\ \A o \in Booking \ {b} : booking'[o] = booking[o] /\ Holds(o)' = Holds(o)
  BY BookMoves
<1>2. T \in SUBSET Coin /\ call[a].key \in Key /\ Funded(T) \subseteq FromPlatform \cap T
  BY <1>1, FundedCoins, CallTypes DEF Book, Working, IInv, TypeOK
<1>3. PICK status \in Open : booking' = [booking EXCEPT ![b] = [status |-> status, key |-> call[a].key,
                                                               spent |-> T, owed |-> Funded(T)]]
  BY DEF Book
<1>4. /\ lot' = [l \in Lot |-> [lot[l] EXCEPT !.left = lot[l].left \ T]]
      /\ booking[b] = NoBooking /\ \A o \in Booking : booking[o].key # call[a].key
  BY DEF Book
<1> HIDE DEF T
<1>5. /\ booking'[b] = [status |-> status, key |-> call[a].key, spent |-> T, owed |-> Funded(T)]
      /\ status \notin {"CANCELLED", "ABSENT"}
  BY <1>3 DEF IInv, TypeOK, Open
<1>6. \A l \in Lot : /\ lot'[l].left = lot[l].left \ T /\ lot'[l].coins = lot[l].coins /\ lot'[l].source = lot[l].source
                     /\ lot[l] = NoLot => lot'[l] = NoLot
  <2> SUFFICES ASSUME NEW l \in Lot
               PROVE  /\ lot'[l].left = lot[l].left \ T /\ lot'[l].coins = lot[l].coins /\ lot'[l].source = lot[l].source
                      /\ lot[l] = NoLot => lot'[l] = NoLot
    OBVIOUS
  <2>1. lot[l] \in [body : Body \cup {None}, coins : SUBSET Coin, left : SUBSET Coin,
                    source : Source \cup {None}, ends : {"never", "valid", "expired"}]
    BY DEF IInv, TypeOK
  <2>2. lot'[l] = [lot[l] EXCEPT !.left = lot[l].left \ T]
    BY <1>1
  <2>3. lot'[l].left = lot[l].left \ T /\ lot'[l].coins = lot[l].coins /\ lot'[l].source = lot[l].source
    BY <2>1, <2>2
  <2>4. ASSUME lot[l] = NoLot PROVE lot'[l] = NoLot
    <3>1. lot[l].left \ T = {}
      BY <2>4 DEF NoLot
    <3>2. lot'[l] = [NoLot EXCEPT !.left = {}]
      BY <2>2, <2>4, <3>1
    <3> QED BY <3>2 DEF NoLot
  <2> QED BY <2>3, <2>4
<1>7. CreditTypes'
  <2>1. Funded(T) \in SUBSET Coin
    BY <1>2
  <2>2. booking' \in [Booking -> [status : Open \cup {"ABSENT", "CANCELLED", "EXPIRED", "COMPLETED"},
                                  key : Key \cup {None}, spent : SUBSET Coin, owed : SUBSET Coin]]
    BY <1>2, <1>3, <2>1 DEF IInv, TypeOK
  <2>3. lot' \in [Lot -> [body : Body \cup {None}, coins : SUBSET Coin, left : SUBSET Coin,
                          source : Source \cup {None}, ends : {"never", "valid", "expired"}]]
    <3>1. \A l \in Lot : lot[l] \in LotRow
      BY DEF LotRow, IInv, TypeOK
    <3>2. \A l \in Lot : [lot[l] EXCEPT !.left = lot[l].left \ T] \in LotRow
      <4> SUFFICES ASSUME NEW l \in Lot PROVE [lot[l] EXCEPT !.left = lot[l].left \ T] \in LotRow
        OBVIOUS
      <4>1. lot[l].left \ T \in SUBSET Coin
        BY <3>1, LotRows
      <4> QED BY <3>1, <4>1, LotRows
    <3> QED BY <1>4, <3>2 DEF LotRow
  <2> QED BY <2>2, <2>3 DEF CreditTypes
<1>8. LotInv'
  <2>1. \A l \in Lot : lot'[l].left \subseteq lot'[l].coins
    BY <1>6 DEF IInv, LotInv
  <2>2. \A o \in Booking : lot'[o].source = None /\ (booking'[o].status # "CANCELLED" => lot'[o] = NoLot)
    BY <1>1, <1>4, <1>6, Names DEF IInv, LotInv, NoBooking
  <2>3. \A o \in Booking : booking'[o].status = "ABSENT" => booking'[o] = NoBooking
    BY <1>1, <1>5 DEF IInv, LotInv
  <2> QED BY <2>1, <2>2, <2>3 DEF LotInv
<1>9. CreditsConserved'
  <2>1. \A o \in Booking \ {b} : Holds(o) \cap T = {}
    BY <1>1 DEF IInv, CreditsConserved
  <2>2. Minted = Purse \cup UNION {Holds(o) : o \in Booking}
    BY DEF IInv, CreditsConserved
  <2>3. UNION {Holds(o)' : o \in Booking} = T \cup UNION {Holds(o) : o \in Booking}
    BY <1>1
  <2>4. Minted' = Purse' \cup UNION {Holds(o)' : o \in Booking}
    BY <1>1, <2>2, <2>3
  <2>5. \A l, m \in Lot : l # m => lot'[l].left \cap lot'[m].left = {}
    BY <1>6 DEF IInv, CreditsConserved
  <2>6. \A o, q \in Booking : o # q => Holds(o)' \cap Holds(q)' = {}
    BY <1>1, <2>1 DEF IInv, CreditsConserved
  <2>7. \A o \in Booking : Holds(o)' \cap Purse' = {}
    BY <1>1 DEF IInv, CreditsConserved
  <2> QED BY <2>4, <2>5, <2>6, <2>7 DEF CreditsConserved
<1>10. OwedIsFunded'
  <2>1. FromPlatform' = FromPlatform
    BY <1>6, Names DEF FromPlatform
  <2> QED BY <1>1, <1>2, <1>5, <2>1 DEF OwedIsFunded, IInv
<1>11. BookedOnce'
  BY <1>1, <1>4, <1>5 DEF BookedOnce, IInv
<1> QED BY <1>7, <1>8, <1>9, <1>10, <1>11 DEF CreditInv

LEMMA ReturnKeeps ==
  ASSUME IInv, NEW b \in Booking, Return(b)
  PROVE  CreditInv'
<1> DEFINE T == Holds(b)
<1>1. /\ lot'[b] = [NoLot EXCEPT !.coins = T, !.left = T] /\ lot[b] = NoLot
      /\ \A l \in Lot \ {b} : lot'[l] = lot[l]
      /\ booking'[b] = [booking[b] EXCEPT !.status = "CANCELLED", !.owed = {}]
      /\ \A o \in Booking \ {b} : booking'[o] = booking[o] /\ Holds(o)' = Holds(o)
      /\ Minted' = Minted /\ Purse' = Purse \cup T /\ Holds(b)' = {}
  BY ReturnMoves
<1>2. T \in SUBSET Coin /\ b \in Lot /\ b \notin Key
  BY LotTypes, Names, NamesAssumption DEF IInv
<1>3. lot'[b].coins = T /\ lot'[b].left = T /\ lot'[b].source = None /\ lot[b].left = {}
  BY <1>1 DEF NoLot
<1>4. booking'[b].status = "CANCELLED" /\ booking'[b].owed = {} /\ booking'[b].key = booking[b].key
  BY <1>1 DEF IInv, TypeOK
<1>5. CreditTypes'
  <2>1. [NoLot EXCEPT !.coins = T, !.left = T] \in [body : Body \cup {None}, coins : SUBSET Coin, left : SUBSET Coin,
                                                  source : Source \cup {None}, ends : {"never", "valid", "expired"}]
    BY <1>2 DEF NoLot
  <2>2. /\ lot' = [lot EXCEPT ![b] = [NoLot EXCEPT !.coins = booking[b].spent, !.left = booking[b].spent]]
        /\ booking' = [booking EXCEPT ![b].status = "CANCELLED", ![b].owed = {}] /\ booking[b].spent = T
    BY DEF Return, Holds, Open
  <2> HIDE DEF T
  <2>3. /\ lot \in [Lot -> [body : Body \cup {None}, coins : SUBSET Coin, left : SUBSET Coin,
                            source : Source \cup {None}, ends : {"never", "valid", "expired"}]]
        /\ booking \in [Booking -> [status : Open \cup {"ABSENT", "CANCELLED", "EXPIRED", "COMPLETED"},
                                    key : Key \cup {None}, spent : SUBSET Coin, owed : SUBSET Coin]]
    BY DEF IInv, TypeOK
  <2>4. lot' = [lot EXCEPT ![b] = [NoLot EXCEPT !.coins = T, !.left = T]]
    BY <2>2
  <2>5. lot' \in [Lot -> [body : Body \cup {None}, coins : SUBSET Coin, left : SUBSET Coin,
                          source : Source \cup {None}, ends : {"never", "valid", "expired"}]]
    BY <2>1, <2>3, <2>4
  <2>6. [booking[b] EXCEPT !.status = "CANCELLED", !.owed = {}]
          \in [status : Open \cup {"ABSENT", "CANCELLED", "EXPIRED", "COMPLETED"},
              key : Key \cup {None}, spent : SUBSET Coin, owed : SUBSET Coin]
    BY <2>3
  <2>7. booking' = [booking EXCEPT ![b] = [booking[b] EXCEPT !.status = "CANCELLED", !.owed = {}]]
    BY <2>2, <2>3
  <2>8. booking' \in [Booking -> [status : Open \cup {"ABSENT", "CANCELLED", "EXPIRED", "COMPLETED"},
                                 key : Key \cup {None}, spent : SUBSET Coin, owed : SUBSET Coin]]
    BY <2>3, <2>6, <2>7
  <2> QED BY <2>5, <2>8 DEF CreditTypes
<1> HIDE DEF T
<1>6. LotInv'
  <2>1. \A l \in Lot : lot'[l].left \subseteq lot'[l].coins
    BY <1>1, <1>3 DEF IInv, LotInv
  <2>2. \A o \in Booking : lot'[o].source = None /\ (booking'[o].status # "CANCELLED" => lot'[o] = NoLot)
    BY <1>1, <1>3, <1>4, Names DEF IInv, LotInv
  <2>3. \A o \in Booking : booking'[o].status = "ABSENT" => booking'[o] = NoBooking
    BY <1>1, <1>4 DEF IInv, LotInv
  <2> QED BY <2>1, <2>2, <2>3 DEF LotInv
<1>7. CreditsConserved'
  <2>1. Minted = Purse \cup UNION {Holds(o) : o \in Booking}
    BY DEF IInv, CreditsConserved
  <2>2. T \cup UNION {Holds(o)' : o \in Booking} = UNION {Holds(o) : o \in Booking}
    BY <1>1 DEF T
  <2>3. Minted' = Purse' \cup UNION {Holds(o)' : o \in Booking}
    BY <1>1, <2>1, <2>2
  <2>4. \A l \in Lot : lot[l].left \cap T = {}
    BY DEF IInv, CreditsConserved, Purse, T
  <2>5. \A l, m \in Lot : l # m => lot'[l].left \cap lot'[m].left = {}
    BY <1>1, <1>3, <2>4 DEF IInv, CreditsConserved
  <2>6. \A o, q \in Booking : o # q => Holds(o)' \cap Holds(q)' = {}
    BY <1>1 DEF IInv, CreditsConserved
  <2>7. \A o \in Booking : Holds(o)' \cap Purse' = {}
    BY <1>1 DEF IInv, CreditsConserved, T
  <2> QED BY <2>3, <2>5, <2>6, <2>7 DEF CreditsConserved
<1>8. OwedIsFunded'
  <2>1. FromPlatform' = FromPlatform
    BY <1>1, <1>2, Names DEF FromPlatform
  <2> QED BY <1>1, <1>4, <2>1 DEF OwedIsFunded, IInv
<1>9. BookedOnce'
  <2>1. \A o \in Booking : booking'[o].key = booking[o].key
    BY <1>1, <1>4
  <2> QED BY <2>1 DEF BookedOnce, IInv
<1> QED BY <1>5, <1>6, <1>7, <1>8, <1>9 DEF CreditInv

LEMMA GrantKeeps ==
  ASSUME IInv, NEW a \in Call, Grant(a)
  PROVE  CreditInv'
<1> DEFINE k == call[a].key
<1>1. PICK C \in SUBSET (Coin \ Minted), ends \in {"never", "valid"} :
        /\ k \in Key /\ call[a].body \in Body /\ call[a].body.source \in Source
        /\ lot[k] = NoLot
        /\ lot'[k] = [body |-> call[a].body, coins |-> C, left |-> C, source |-> call[a].body.source, ends |-> ends]
        /\ \A l \in Lot \ {k} : lot'[l] = lot[l]
        /\ Minted' = Minted \cup C /\ Purse' = Purse \cup C
        /\ booking' = booking /\ \A b \in Booking : Holds(b)' = Holds(b)
  BY GrantMoves
<1> HIDE DEF k
<1>2. k \in Lot /\ k \notin Booking /\ C \in SUBSET Coin
  BY <1>1, Names, NamesAssumption
<1>3. lot'[k].coins = C /\ lot'[k].left = C /\ lot[k].left = {} /\ lot[k].coins = {} /\ lot[k].source = None
  BY <1>1 DEF NoLot
<1>4. CreditTypes'
  <2>1. lot'[k] \in [body : Body \cup {None}, coins : SUBSET Coin, left : SUBSET Coin,
                    source : Source \cup {None}, ends : {"never", "valid", "expired"}]
    BY <1>1, <1>2
  <2>2. \A l \in Lot : lot'[l] \in [body : Body \cup {None}, coins : SUBSET Coin, left : SUBSET Coin,
                                   source : Source \cup {None}, ends : {"never", "valid", "expired"}]
    BY <1>1, <2>1 DEF IInv, TypeOK
  <2>3. lot' = [l \in Lot |-> lot'[l]]
    BY DEF Grant, IInv, TypeOK
  <2> QED BY <1>1, <2>2, <2>3 DEF CreditTypes, IInv, TypeOK
<1>5. LotInv'
  <2>1. \A l \in Lot : lot'[l].left \subseteq lot'[l].coins
    BY <1>1, <1>3 DEF IInv, LotInv
  <2>2. \A o \in Booking : lot'[o] = lot[o]
    BY <1>1, <1>2, Names
  <2> QED BY <1>1, <2>1, <2>2 DEF LotInv, IInv
<1>6. CreditsConserved'
  <2>1. Minted = Purse \cup UNION {Holds(o) : o \in Booking}
    BY DEF IInv, CreditsConserved
  <2>2. \A l \in Lot : lot[l].left \cap C = {}
    BY <2>1 DEF Purse
  <2>3. \A l, m \in Lot : l # m => lot'[l].left \cap lot'[m].left = {}
    BY <1>1, <1>3, <2>2 DEF IInv, CreditsConserved
  <2>4. Minted' = Purse' \cup UNION {Holds(o)' : o \in Booking}
    BY <1>1, <2>1
  <2>5. \A o, q \in Booking : o # q => Holds(o)' \cap Holds(q)' = {}
    BY <1>1 DEF IInv, CreditsConserved
  <2>6. \A o \in Booking : Holds(o)' \cap Purse' = {}
    BY <1>1, <2>1 DEF IInv, CreditsConserved
  <2> QED BY <2>3, <2>4, <2>5, <2>6 DEF CreditsConserved
<1>7. OwedIsFunded'
  <2>1. FromPlatform \subseteq FromPlatform'
    BY <1>1, <1>3, Names DEF FromPlatform
  <2> QED BY <1>1, <2>1 DEF OwedIsFunded, IInv
<1>8. BookedOnce'
  BY <1>1 DEF BookedOnce, IInv
<1> QED BY <1>4, <1>5, <1>6, <1>7, <1>8 DEF CreditInv

LEMMA EndsKeeps ==
  ASSUME IInv
  PROVE  /\ \A l \in Key : LotEnds(l) => CreditInv'
         /\ \A b \in Booking : Ends(b) => CreditInv'
<1>1. ASSUME NEW l \in Key, LotEnds(l) PROVE CreditInv'
  <2>1. Credited /\ booking' = booking /\ \A b \in Booking : Holds(b)' = Holds(b)
    BY <1>1, EndsMoves DEF LotEnds, Credited
  <2>2. lot' = [lot EXCEPT ![l] = [lot[l] EXCEPT !.ends = "expired"]] /\ l \in Lot /\ l \notin Booking
    BY <1>1, Names, NamesAssumption DEF LotEnds
  <2>3. \A m \in Lot : lot'[m].left = lot[m].left /\ lot'[m].coins = lot[m].coins /\ lot'[m].source = lot[m].source
    BY <2>2 DEF IInv, TypeOK
  <2>4. \A b \in Booking : lot'[b] = lot[b]
    BY <2>2, Names DEF IInv, TypeOK
  <2>5. CreditTypes'
    <3>1. [lot[l] EXCEPT !.ends = "expired"] \in LotRow
      <4>1. lot[l] \in LotRow
        BY <2>2 DEF LotRow, IInv, TypeOK
      <4> QED BY <4>1, LotRows
    <3>2. lot' \in [Lot -> [body : Body \cup {None}, coins : SUBSET Coin, left : SUBSET Coin,
                            source : Source \cup {None}, ends : {"never", "valid", "expired"}]]
      BY <2>2, <3>1 DEF LotRow, IInv, TypeOK
    <3> QED BY <2>1, <3>2 DEF CreditTypes, IInv, TypeOK
  <2>6. LotInv'
    BY <2>1, <2>3, <2>4 DEF LotInv, IInv
  <2>7. CreditsConserved'
    BY <2>1, <2>3 DEF CreditsConserved, IInv, Credited
  <2>8. FromPlatform' = FromPlatform
    BY <2>3, Names DEF FromPlatform
  <2> QED BY <2>1, <2>5, <2>6, <2>7, <2>8 DEF CreditInv, OwedIsFunded, BookedOnce, IInv
<1>2. ASSUME NEW b \in Booking, Ends(b) PROVE CreditInv'
  <2>1. Credited /\ lot' = lot
    BY <1>2, EndsMoves DEF Ends
  <2>2. PICK status \in {"EXPIRED", "COMPLETED"} : booking' = [booking EXCEPT ![b] = [booking[b] EXCEPT !.status = status]]
    <3>1. booking' = [booking EXCEPT ![b] = [booking[b] EXCEPT !.status =
                        IF booking[b].status = "CONFIRMED" THEN "COMPLETED" ELSE "EXPIRED"]]
      BY <1>2 DEF Ends, IInv, TypeOK
    <3> QED BY <3>1
  <2>3. /\ booking'[b] = [booking[b] EXCEPT !.status = status]
        /\ \A o \in Booking \ {b} : booking'[o] = booking[o]
    BY <2>2 DEF IInv, TypeOK
  <2>4. /\ booking'[b].status = status /\ booking'[b].owed = booking[b].owed /\ booking'[b].key = booking[b].key
        /\ booking[b].status # "CANCELLED"
    BY <1>2, <2>3 DEF IInv, TypeOK, Ends, Open
  <2>5. CreditTypes'
    BY <2>1, <2>2, SMTT(30) DEF CreditTypes, IInv, TypeOK
  <2>6. LotInv'
    BY <2>1, <2>3, <2>4 DEF LotInv, IInv
  <2>7. CreditsConserved'
    BY <2>1 DEF CreditsConserved, IInv, Credited
  <2>8. OwedIsFunded'
    <3>1. FromPlatform' = FromPlatform
      BY <2>1 DEF FromPlatform
    <3>2. \A o \in Booking : booking'[o].owed = booking[o].owed /\ Holds(o)' = Holds(o)
      BY <2>1, <2>3, <2>4 DEF Credited
    <3> QED BY <3>1, <3>2 DEF OwedIsFunded, IInv
  <2>9. BookedOnce'
    <3>1. \A o \in Booking : booking'[o].key = booking[o].key
      BY <2>3, <2>4
    <3> QED BY <3>1 DEF BookedOnce, IInv
  <2> QED BY <2>5, <2>6, <2>7, <2>8, <2>9 DEF CreditInv
<1> QED BY <1>1, <1>2

(***************************************************************************)
(* The lock, and the steps together.                                       *)
(***************************************************************************)
LEMMA LockKept ==
  ASSUME IInv, Purse \subseteq Purse',
         \A a \in Call : taking'[a] = taking[a] \/ taking'[a] = {},
         \A a \in Call : call'[a].step = "redeeming" => call[a].step = "redeeming"
  PROVE  LockInv'
BY DEF IInv, LockInv

LEMMA InitHolds == Init => IInv
<1> SUFFICES ASSUME Init PROVE IInv
  OBVIOUS
<1>1. \A l \in Lot : lot[l] = NoLot
  BY DEF Init
<1>2. \A b \in Booking : booking[b] = NoBooking
  BY DEF Init
<1>3. Minted = {} /\ Purse = {} /\ \A b \in Booking : Holds(b) = {}
  BY <1>1, <1>2, Names DEF Minted, Purse, Holds, NoLot, NoBooking
<1>4. TypeOK
  BY Names DEF TypeOK, Init, ProtocolInit, NoRow, Idle, NoLot, NoBooking, Working, Open
<1>5. KeysInv
  BY DEF Init, ProtocolInit, KeysInv, Idle, Working
<1>6. LockInv
  BY DEF Init, ProtocolInit, LockInv, Idle
<1>7. LotInv
  BY <1>1, <1>2, Names DEF LotInv, NoLot
<1>8. CreditsConserved
  BY <1>1, <1>3 DEF CreditsConserved, NoLot
<1>9. OwedIsFunded /\ BookedOnce
  BY <1>2 DEF OwedIsFunded, BookedOnce, NoBooking
<1> QED BY <1>4, <1>5, <1>6, <1>7, <1>8, <1>9 DEF IInv

LEMMA AvailableIsMine == Available \subseteq Purse
BY DEF Available, Usable, Purse

\* A step of the credits alone keeps them, and what a transaction took.
LEMMA Together ==
  ASSUME IInv, KeysInv', CreditInv', LockInv',
         row' \in [Key -> [body : Body \cup {None}, snapshot : Key \cup Booking \cup {None}]],
         call' \in [Call -> [step : {"idle", "running", "redeeming", "done", "failed"}, key : Key \cup {None},
                             body : Body \cup {None}, result : Key \cup Booking \cup {None}]],
         \A o \in Call : Working(o)' <=> call'[o].key # None,
         answers' \in [Key -> SUBSET (Key \cup Booking)], faults' \in Nat,
         taking' \in [Call -> SUBSET Coin],
         \A o \in Call : taking'[o] # {} => call'[o].step = "redeeming"
  PROVE  IInv'
BY DEF IInv, TypeOK, CreditInv, CreditTypes

LEMMA CreditsUntouched ==
  ASSUME IInv, UNCHANGED <<lot, booking>>
  PROVE  CreditInv' /\ Purse' = Purse
<1>1. Minted' = Minted /\ Purse' = Purse /\ FromPlatform' = FromPlatform /\ \A b \in Booking : Holds(b)' = Holds(b)
  BY DEF Minted, Purse, FromPlatform, Holds
<1>2. CreditTypes'
  BY DEF CreditTypes, IInv, TypeOK
<1>3. LotInv'
  BY DEF LotInv, IInv
<1>4. CreditsConserved'
  BY <1>1 DEF CreditsConserved, IInv
<1>5. OwedIsFunded'
  BY <1>1 DEF OwedIsFunded, IInv
<1>6. BookedOnce'
  BY DEF BookedOnce, IInv
<1> QED BY <1>1, <1>2, <1>3, <1>4, <1>5, <1>6 DEF CreditInv

\* A step of the protocol for one request; its transaction, if it had one, is over.
LEMMA ProtocolKeeps ==
  ASSUME IInv, NEW a \in Call, Working(a),
         UNCHANGED <<lot, booking>>, taking' = [taking EXCEPT ![a] = {}], faults' \in Nat,
         KeysInv',
         row' \in [Key -> [body : Body \cup {None}, snapshot : Key \cup Booking \cup {None}]],
         call' \in [Call -> [step : {"idle", "running", "redeeming", "done", "failed"}, key : Key \cup {None},
                             body : Body \cup {None}, result : Key \cup Booking \cup {None}]],
         \A o \in Call : Working(o)' <=> call'[o].key # None,
         answers' \in [Key -> SUBSET (Key \cup Booking)],
         \A o \in Call \ {a} : call'[o].step = call[o].step,
         call'[a].step # "redeeming"
  PROVE  IInv'
<1>1. CreditInv' /\ Purse' = Purse
  BY CreditsUntouched
<1>2. \A o \in Call : taking'[o] = (IF o = a THEN {} ELSE taking[o])
  BY DEF IInv, TypeOK
<1>3. LockInv'
  BY <1>1, <1>2, LockKept
<1>4. taking' \in [Call -> SUBSET Coin] /\ \A o \in Call : taking'[o] # {} => call'[o].step = "redeeming"
  BY <1>2 DEF IInv, TypeOK
<1> QED BY <1>1, <1>3, <1>4, Together

LEMMA SettlesKeeps ==
  ASSUME IInv, NEW a \in Call, Settles(a)
  PROVE  IInv'
<1>1. Working(a) /\ UNCHANGED <<lot, booking>> /\ taking' = [taking EXCEPT ![a] = {}]
  BY DEF Settles, ProtocolStep, Record, NotRecorded, Release, Dies, Working
<1>2. faults' \in Nat
  BY DEF Settles, ProtocolStep, Record, NotRecorded, Release, Dies, Fault, IInv, TypeOK
<1>3. CASE NotRecorded(a)
  <2>1. call' = [call EXCEPT ![a] = [call[a] EXCEPT !.step = "failed", !.result = call[a].result]] /\ UNCHANGED <<row, answers>>
    BY <1>3, CallTypes DEF NotRecorded, Goes, IInv, TypeOK
  <2>2. call[a].result \in Key \cup Booking \cup {None}
    BY CallTypes DEF IInv
  <2>3. /\ KeysInv'
        /\ \A o \in Call : call'[o].step = (IF o = a THEN "failed" ELSE call[o].step)
        /\ call' \in [Call -> [step : {"idle", "running", "redeeming", "done", "failed"}, key : Key \cup {None},
                               body : Body \cup {None}, result : Key \cup Booking \cup {None}]]
        /\ \A o \in Call : Working(o)' <=> call'[o].key # None
    BY <1>1, <1>2, <2>1, <2>2, GoesOn
  <2>4. /\ row' \in [Key -> [body : Body \cup {None}, snapshot : Key \cup Booking \cup {None}]]
        /\ answers' \in [Key -> SUBSET (Key \cup Booking)] /\ faults' \in Nat
    BY <1>1, <1>2, <2>1, <2>2 DEF IInv, TypeOK
  <2> QED BY <1>1, <2>3, <2>4, ProtocolKeeps
<1>4. CASE Record(a) \/ Release(a) \/ Dies(a)
  <2>1. call' = [call EXCEPT ![a] = Idle]
    BY <1>4 DEF Record, Release, Dies
  <2>2. CASE Record(a)
    <3>1. call[a].result \in Key \cup Booking
      BY <2>2, CallTypes DEF Record, IInv, KeysInv
    <3> QED BY <1>1, <1>2, <2>1, <2>2, <3>1, IsOver, ProtocolKeeps DEF Record
  <2>3. CASE Release(a) \/ Dies(a)
    <3>1. \/ UNCHANGED <<row, answers>>
          \/ row' = [row EXCEPT ![call[a].key] = NoRow] /\ UNCHANGED answers
      BY <2>3 DEF Release, Dies
    <3> QED BY <1>1, <1>2, <2>1, <3>1, IsOver, ProtocolKeeps
  <2> QED BY <1>4, <2>2, <2>3
<1> QED BY <1>3, <1>4 DEF Settles, ProtocolStep

LEMMA RequestsKeep ==
  ASSUME IInv, NEW k \in Key, NEW body \in Body
  PROVE  /\ \A a \in Call : Arrives(a, k, body) => IInv'
         /\ Again(k, body) => IInv'
<1>1. ASSUME NEW a \in Call, Arrives(a, k, body) PROVE IInv'
  <2>1. Claim(a, k, body) /\ UNCHANGED credits /\ ~Working(a)
    BY <1>1 DEF Arrives, Claim
  <2>2. /\ KeysInv'
        /\ \A o \in Call : call'[o].step = (IF o = a THEN "running" ELSE call[o].step)
        /\ call' \in [Call -> [step : {"idle", "running", "redeeming", "done", "failed"}, key : Key \cup {None},
                               body : Body \cup {None}, result : Key \cup Booking \cup {None}]]
        /\ \A o \in Call : Working(o)' <=> call'[o].key # None
        /\ row' \in [Key -> [body : Body \cup {None}, snapshot : Key \cup Booking \cup {None}]]
    BY <2>1, ClaimKeeps
  <2>3. CreditInv' /\ Purse' = Purse /\ taking' = taking /\ answers' = answers /\ faults' = faults
    BY <2>1, CreditsUntouched DEF credits, Claim
  <2>4. LockInv'
    BY <2>2, <2>3, LockKept
  <2>5. \A o \in Call : taking'[o] # {} => call'[o].step = "redeeming"
    BY <2>1, <2>2, <2>3 DEF IInv, TypeOK, Working
  <2>6. /\ answers' \in [Key -> SUBSET (Key \cup Booking)] /\ faults' \in Nat
        /\ taking' \in [Call -> SUBSET Coin]
    BY <2>3 DEF IInv, TypeOK
  <2> QED BY <2>2, <2>3, <2>4, <2>5, <2>6, Together
<1>2. ASSUME Again(k, body) PROVE IInv'
  <2>1. /\ UNCHANGED <<row, call, faults>> /\ UNCHANGED credits
        /\ row[k].snapshot # None /\ row[k].snapshot \in Key \cup Booking
        /\ answers' = [answers EXCEPT ![k] = answers[k] \cup {row[k].snapshot}]
    BY <1>2 DEF Again, Replay, Answer, IInv, TypeOK
  <2>2. answers' \in [Key -> SUBSET (Key \cup Booking)]
    BY <2>1 DEF IInv, TypeOK
  <2>3. KeysInv'
    <3>1. \A j \in Key : answers'[j] \subseteq (IF row'[j].snapshot = None THEN {} ELSE {row'[j].snapshot})
      BY <2>1 DEF IInv, KeysInv, TypeOK
    <3> QED BY <2>1, <3>1 DEF IInv, KeysInv, Working
  <2>4. CreditInv' /\ LockInv'
    <3>1. CreditInv' /\ Purse' = Purse /\ taking' = taking
      BY <2>1, CreditsUntouched DEF credits
    <3> QED BY <2>1, <3>1, LockKept
  <2>5. /\ row' \in [Key -> [body : Body \cup {None}, snapshot : Key \cup Booking \cup {None}]]
        /\ call' \in [Call -> [step : {"idle", "running", "redeeming", "done", "failed"}, key : Key \cup {None},
                               body : Body \cup {None}, result : Key \cup Booking \cup {None}]]
        /\ faults' \in Nat /\ taking' \in [Call -> SUBSET Coin]
        /\ \A o \in Call : Working(o)' <=> call'[o].key # None
        /\ \A o \in Call : taking'[o] # {} => call'[o].step = "redeeming"
    BY <2>1 DEF IInv, TypeOK, credits, Working
  <2> QED BY <2>2, <2>3, <2>4, <2>5, Together
<1> QED BY <1>1, <1>2

\* A step of a request's handler that finishes it, and leaves the other requests alone.
LEMMA FinishKeeps ==
  ASSUME IInv, NEW a \in Call, Working(a), NEW result \in Key \cup Booking, Done(a, result), Protocol,
         CreditInv', Purse' = Purse \ taking[a] \/ (Purse \subseteq Purse' /\ taking[a] = {}),
         taking' = [taking EXCEPT ![a] = {}],
         \A o \in Call \ {a} : taking[o] = {} \/ Purse \subseteq Purse'
  PROVE  IInv'
<1>1. call' = [call EXCEPT ![a] = [call[a] EXCEPT !.step = "done", !.result = result]] /\ UNCHANGED <<row, answers, faults>>
  BY CallTypes DEF Done, Protocol, IInv, TypeOK
<1>2. result # None /\ result \in Key \cup Booking \cup {None}
  BY Names
<1>3. /\ KeysInv'
      /\ \A o \in Call : call'[o].step = (IF o = a THEN "done" ELSE call[o].step)
      /\ call' \in [Call -> [step : {"idle", "running", "redeeming", "done", "failed"}, key : Key \cup {None},
                             body : Body \cup {None}, result : Key \cup Booking \cup {None}]]
      /\ \A o \in Call : Working(o)' <=> call'[o].key # None
  BY <1>1, <1>2, GoesOn
<1>4. \A o \in Call : taking'[o] = (IF o = a THEN {} ELSE taking[o])
  BY DEF IInv, TypeOK
<1>5. LockInv'
  BY <1>3, <1>4 DEF IInv, LockInv
<1>6. /\ row' \in [Key -> [body : Body \cup {None}, snapshot : Key \cup Booking \cup {None}]]
      /\ answers' \in [Key -> SUBSET (Key \cup Booking)] /\ faults' \in Nat
      /\ taking' \in [Call -> SUBSET Coin] /\ \A o \in Call : taking'[o] # {} => call'[o].step = "redeeming"
  BY <1>1, <1>3, <1>4 DEF IInv, TypeOK
<1> QED BY <1>3, <1>5, <1>6, Together

LEMMA HandlerKeeps ==
  ASSUME IInv, NEW a \in Call, Handler(a)
  PROVE  IInv'
<1>1. CASE Redeem(a)
  <2>1. PICK C \in SUBSET Available : taking' = [taking EXCEPT ![a] = C]
    BY <1>1 DEF Redeem, Takings
  <2>2. C \subseteq Purse /\ C \in SUBSET Coin
    BY AvailableIsMine, LotTypes DEF IInv
  <2>3. call' = [call EXCEPT ![a] = [call[a] EXCEPT !.step = "redeeming", !.result = call[a].result]] /\ UNCHANGED <<row, answers, faults>>
    BY <1>1, CallTypes DEF Redeem, Goes, Protocol, IInv, TypeOK
  <2>4. call[a].result \in Key \cup Booking \cup {None} /\ Working(a)
    BY <1>1, CallTypes DEF IInv, Redeem, Working
  <2>5. /\ KeysInv'
        /\ \A o \in Call : call'[o].step = (IF o = a THEN "redeeming" ELSE call[o].step)
        /\ call' \in [Call -> [step : {"idle", "running", "redeeming", "done", "failed"}, key : Key \cup {None},
                               body : Body \cup {None}, result : Key \cup Booking \cup {None}]]
        /\ \A o \in Call : Working(o)' <=> call'[o].key # None
    BY <2>3, <2>4, GoesOn
  <2>6. CreditInv' /\ Purse' = Purse
    BY <1>1, CreditsUntouched DEF Redeem
  <2>7. \A o \in Call : taking'[o] = (IF o = a THEN C ELSE taking[o])
    BY <2>1 DEF IInv, TypeOK
  <2>8. \A o \in Call : call[o].step # "redeeming"
    BY <1>1 DEF Redeem
  <2>9. LockInv'
    BY <2>2, <2>5, <2>6, <2>7, <2>8 DEF IInv, LockInv
  <2>10. /\ row' \in [Key -> [body : Body \cup {None}, snapshot : Key \cup Booking \cup {None}]]
         /\ answers' \in [Key -> SUBSET (Key \cup Booking)] /\ faults' \in Nat
         /\ taking' \in [Call -> SUBSET Coin] /\ \A o \in Call : taking'[o] # {} => call'[o].step = "redeeming"
    BY <2>1, <2>2, <2>3, <2>5, <2>7 DEF IInv, TypeOK
  <2> QED BY <2>5, <2>6, <2>9, <2>10, Together
<1>2. ASSUME NEW b \in Booking, Book(a, b) PROVE IInv'
  <2>1. Done(a, b) /\ Protocol /\ taking' = [taking EXCEPT ![a] = {}] /\ call[a].step = "redeeming" /\ Working(a)
    BY <1>2 DEF Book, Working
  <2>2. CreditInv' /\ Purse' = Purse \ taking[a]
    BY <1>2, BookKeeps, BookMoves
  <2>3. \A o \in Call \ {a} : taking[o] = {}
    BY <2>1 DEF IInv, TypeOK, LockInv
  <2> QED BY <2>1, <2>2, <2>3, FinishKeeps
<1>3. CASE Cancel(a)
  <2>1. PICK b \in Booking : Return(b) /\ Done(a, b) /\ Protocol /\ taking' = taking /\ call[a].step = "running" /\ Working(a)
    <3>1. call[a].body \in Body /\ call[a].body.booking \in Booking
      BY <1>3 DEF Cancel, IInv, KeysInv, Working, Body
    <3> QED BY <1>3, <3>1 DEF Cancel, Working
  <2>2. CreditInv' /\ Purse' = Purse \cup Holds(b)
    BY <2>1, ReturnKeeps, ReturnMoves
  <2>3. taking[a] = {} /\ taking' = [taking EXCEPT ![a] = {}]
    BY <2>1 DEF IInv, TypeOK
  <2> QED BY <2>1, <2>2, <2>3, FinishKeeps
<1>4. CASE Grant(a)
  <2>1. PICK C \in SUBSET Coin : Purse' = Purse \cup C
    BY <1>4, GrantMoves
  <2>2. CreditInv' /\ call[a].key \in Key
    BY <1>4, GrantKeeps, GrantMoves
  <2>3. Done(a, call[a].key) /\ Protocol /\ taking' = taking /\ call[a].step = "running" /\ Working(a)
    BY <1>4 DEF Grant, Working
  <2>4. taking[a] = {} /\ taking' = [taking EXCEPT ![a] = {}]
    BY <2>3 DEF IInv, TypeOK
  <2> QED BY <2>1, <2>2, <2>3, <2>4, FinishKeeps
<1>5. CASE Regrant(a)
  <2>1. Done(a, call[a].key) /\ Protocol /\ UNCHANGED credits /\ call[a].step = "running" /\ Working(a)
    BY <1>5 DEF Regrant, Working
  <2>2. CreditInv' /\ Purse' = Purse /\ call[a].key \in Key
    BY <2>1, CreditsUntouched, CallTypes DEF credits, IInv
  <2>3. taking[a] = {} /\ taking' = [taking EXCEPT ![a] = {}]
    BY <2>1 DEF IInv, TypeOK, credits
  <2> QED BY <2>1, <2>2, <2>3, FinishKeeps
<1> QED BY <1>1, <1>2, <1>3, <1>4, <1>5 DEF Handler

LEMMA FailsKeeps ==
  ASSUME IInv, NEW a \in Call, Fails(a)
  PROVE  IInv'
<1>1. /\ call' = [call EXCEPT ![a] = [call[a] EXCEPT !.step = "failed", !.result = call[a].result]]
      /\ UNCHANGED <<row, answers, faults>> /\ UNCHANGED <<lot, booking>> /\ taking' = [taking EXCEPT ![a] = {}]
  BY CallTypes DEF Fails, Goes, Protocol, IInv, TypeOK
<1>2. call[a].result \in Key \cup Booking \cup {None} /\ Working(a)
  BY CallTypes DEF IInv, Fails, Working
<1>3. /\ KeysInv'
      /\ \A o \in Call : call'[o].step = (IF o = a THEN "failed" ELSE call[o].step)
      /\ call' \in [Call -> [step : {"idle", "running", "redeeming", "done", "failed"}, key : Key \cup {None},
                             body : Body \cup {None}, result : Key \cup Booking \cup {None}]]
      /\ \A o \in Call : Working(o)' <=> call'[o].key # None
  BY <1>1, <1>2, GoesOn
<1>4. /\ row' \in [Key -> [body : Body \cup {None}, snapshot : Key \cup Booking \cup {None}]]
      /\ answers' \in [Key -> SUBSET (Key \cup Booking)] /\ faults' \in Nat
  BY <1>1, <1>2 DEF IInv, TypeOK
<1> QED BY <1>1, <1>2, <1>3, <1>4, ProtocolKeeps

\* What happens to a booking or a lot apart from the requests.
LEMMA ElseKeeps ==
  ASSUME IInv, CreditInv', Purse \subseteq Purse', UNCHANGED <<row, call, answers, faults, taking>>
  PROVE  IInv'
<1>1. LockInv'
  BY LockKept
<1>2. KeysInv'
  BY DEF IInv, KeysInv, Working
<1> QED BY <1>1, <1>2, Together DEF IInv, TypeOK, Working

LEMMA NextKeeps ==
  ASSUME IInv, [Next]_vars
  PROVE  IInv'
<1>1. ASSUME NEW b \in Booking, CancelByShop(b) PROVE IInv'
  <2>1. Return(b) /\ UNCHANGED <<row, call, answers, faults, taking>>
    BY <1>1 DEF CancelByShop, protocol
  <2>2. CreditInv' /\ Purse \subseteq Purse'
    BY <2>1, ReturnKeeps, ReturnMoves
  <2> QED BY <2>1, <2>2, ElseKeeps
<1>2. ASSUME NEW b \in Booking, Ends(b) PROVE IInv'
  <2>1. UNCHANGED <<row, call, answers, faults, taking>>
    BY <1>2 DEF Ends, protocol
  <2>2. CreditInv' /\ Purse' = Purse
    BY <1>2, EndsKeeps, EndsMoves DEF Credited
  <2> QED BY <2>1, <2>2, ElseKeeps
<1>3. ASSUME NEW l \in Key, LotEnds(l) PROVE IInv'
  <2>1. UNCHANGED <<row, call, answers, faults, taking>>
    BY <1>3 DEF LotEnds, protocol
  <2>2. CreditInv' /\ Purse' = Purse
    BY <1>3, EndsKeeps, EndsMoves DEF Credited
  <2> QED BY <2>1, <2>2, ElseKeeps
<1>4. CASE UNCHANGED vars
  <2>1. UNCHANGED <<lot, booking>> /\ UNCHANGED <<row, call, answers, faults, taking>>
    BY <1>4 DEF vars
  <2>2. CreditInv' /\ Purse' = Purse
    BY <2>1, CreditsUntouched
  <2> QED BY <2>1, <2>2, ElseKeeps
<1>5. CASE Next
  BY <1>1, <1>2, <1>3, <1>5, RequestsKeep, HandlerKeeps, FailsKeeps, SettlesKeeps DEF Next
<1> QED BY <1>4, <1>5

LEMMA Invariant == Spec => []IInv
<1>1. Init => IInv
  BY InitHolds
<1>2. IInv /\ [Next]_vars => IInv'
  BY NextKeeps
<1> QED BY <1>1, <1>2, PTL DEF Spec

(***************************************************************************)
(* The theorems.                                                           *)
(***************************************************************************)
\* The rows, the requests and the credits hold what they may.
THEOREM Typing == Spec => []TypeOK
<1>1. IInv => TypeOK
  BY DEF IInv
<1> QED BY <1>1, Invariant, PTL

\* No client of a key is told two different things.
THEOREM RetriesAgree == Spec => []AnswersAgree
<1>1. IInv => AnswersAgree
  BY DEF IInv, KeysInv, AnswersAgree
<1> QED BY <1>1, Invariant, PTL

\* Credit is neither made, lost nor spent twice.
THEOREM CreditIsConserved == Spec => []CreditsConserved
<1>1. IInv => CreditsConserved
  BY DEF IInv
<1> QED BY <1>1, Invariant, PTL

\* A key makes one booking, however often it is retried.
THEOREM BookedOnlyOnce == Spec => []BookedOnce
<1>1. IInv => BookedOnce
  BY DEF IInv
<1> QED BY <1>1, Invariant, PTL

\* The platform owes a shop only for credit that it funded and that the booking holds.
THEOREM OwedOnlyFunded == Spec => []OwedIsFunded
<1>1. IInv => OwedIsFunded
  BY DEF IInv
<1> QED BY <1>1, Invariant, PTL

\* The wallet implements the credit book.
THEOREM Implements == Spec => CreditBookKept
<1>1. Init => Promise!Init
  <2> SUFFICES ASSUME Init PROVE Promise!Init
    OBVIOUS
  <2>1. Minted = {} /\ Purse = {} /\ \A b \in Booking : Holds(b) = {}
    BY Names DEF Init, Minted, Purse, Holds, NoLot, NoBooking
  <2> QED BY <2>1 DEF Promise!Init
<1>2. IInv /\ [Next]_vars => [Promise!Next]_(Promise!book)
  BY StepsImplement
<1> QED BY <1>1, <1>2, Invariant, PTL DEF Spec, CreditBookKept, Promise!Spec

=================================================================================
