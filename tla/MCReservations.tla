---------------------------- MODULE MCReservations ----------------------------
(***************************************************************************)
(* A small instance of the day of a shop.                                  *)
(***************************************************************************)
EXTENDS Agenda, Naturals, FiniteSets, TLC

ASSUME Day!TimesAssumption /\ Day!RowsAssumption

Symmetry == Permutations(Appointment) \cup Permutations(Staff)

\* At most three customers: appointments, and walk-ins in the shop.  A third appointment only while nobody
\* is in the shop: two of any lengths compete with each other and with a walk-in, three for the two units
\* of the pool.
ThreeCustomers ==
  /\ (\E a \in Appointment : agenda[a] = Day!NoBooking) \/ seat = [s \in Staff |-> Day!NoVisit]
  /\ Cardinality({a \in Appointment : agenda[a] # Day!NoBooking}) + Cardinality({s \in Staff : seat[s].walkIn}) <= 3
BoundedSpec == Day!Init /\ [][Day!Next /\ ThreeCustomers']_<<time, agenda, seat>>
===============================================================================
