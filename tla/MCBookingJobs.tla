---------------------------- MODULE MCBookingJobs ----------------------------
(***************************************************************************)
(* A small instance of BookingJobs.                                        *)
(***************************************************************************)
EXTENDS BookingJobs, TLC

CONSTANT n1

\* One process with one of the three jobs: they share the bookings and nothing else.
OneJob == {{<<n1, k>>} : k \in Kind}
=============================================================================
