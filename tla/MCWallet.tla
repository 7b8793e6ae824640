------------------------------ MODULE MCWallet ------------------------------
(***************************************************************************)
(* A small instance of Wallet.                                             *)
(***************************************************************************)
EXTENDS Wallet, TLC

Symmetry == Permutations(Key) \cup Permutations(Call) \cup Permutations(Coin) \cup Permutations(Booking)

\* A third key only while nothing has failed: two requests with their retries, or three of the three
\* kinds that take effect once each.
ThirdIfNoFault == faults = 0 \/ \E k \in Key : row[k] = NoRow
=============================================================================
