---------------------------- MODULE MCAutoAssign ----------------------------
(***************************************************************************)
(* A small instance of AutoAssign.                                         *)
(***************************************************************************)
EXTENDS AutoAssign, TLC

CONSTANTS s1, s2

\* Both barbers can serve both customers; the first one asked for s1.
MCQualified == [e \in Entry |-> Staff]
MCSuits == [e \in Entry |-> IF e = 1 THEN {s1} ELSE {s1, s2}]

Symmetry == Permutations(Chair)

\* One thing out of order at a time, while somebody may still be served: a barber reserved or off
\* duty, a local customer, or automatic assignment off.
OneDisturbance ==
  /\ Cardinality(booked) + Cardinality(local) + Cardinality(Staff \ onDuty) + (IF enabled THEN 0 ELSE 1) <= 1
  /\ \E e \in Entry : status[e] \in Unstarted \cup {"ABSENT", "IN_SERVICE"}
=============================================================================
