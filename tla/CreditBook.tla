------------------------------ MODULE CreditBook ------------------------------
(***************************************************************************)
(* What a wallet of credits promises: credit is issued once, spent by one  *)
(* booking at a time, and comes back whole or not at all.                  *)
(***************************************************************************)
CONSTANTS Coin, Booking

VARIABLES
  issued,  \* the credit there has ever been
  wallet,  \* the credit that is not spent
  held     \* the credit that each booking holds

book == <<issued, wallet, held>>

Init == issued = {} /\ wallet = {} /\ held = [b \in Booking |-> {}]

Issue(C) ==
  /\ C \cap issued = {}
  /\ issued' = issued \cup C /\ wallet' = wallet \cup C
  /\ UNCHANGED held

Spend(b, C) ==
  /\ C \subseteq wallet /\ held[b] = {}
  /\ wallet' = wallet \ C /\ held' = [held EXCEPT ![b] = C]
  /\ UNCHANGED issued

Return(b) ==
  /\ wallet' = wallet \cup held[b] /\ held' = [held EXCEPT ![b] = {}]
  /\ UNCHANGED issued

Next ==
  \/ \E C \in SUBSET Coin : Issue(C) \/ \E b \in Booking : Spend(b, C)
  \/ \E b \in Booking : Return(b)

Spec == Init /\ [][Next]_book
===============================================================================
