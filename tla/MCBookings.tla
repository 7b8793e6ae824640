----------------------------- MODULE MCBookings -----------------------------
(***************************************************************************)
(* A small instance of Bookings.                                           *)
(***************************************************************************)
EXTENDS Bookings, TLC

Symmetry == Permutations(Booking) \cup Permutations(Request)

\* Money moves for one booking, which may be a guest's and whose customer may come; the other one
\* competes with it for a slot.
OneCharged ==
  Cardinality({b \in Booking : ledger[b] # <<>> \/ spent[b] \/ visit[b] # "NONE" \/ b \in guests}) <= 1
=============================================================================
