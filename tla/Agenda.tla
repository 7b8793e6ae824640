--------------------------------- MODULE Agenda ---------------------------------
(***************************************************************************)
(* The day of a shop (Reservations) beside its bookings' money and visits  *)
(* (Bookings): an appointment stands for the same row as a booking there.  *)
(***************************************************************************)
CONSTANTS Appointment, Staff, None, Chairs, Length, Close
VARIABLES time, agenda, seat

Day == INSTANCE Reservations WITH Booking <- Appointment, now <- time, booking <- agenda, visit <- seat

\* A barber whom a customer named is never due at two places at one time.
DayKept == Day!DayKept

\* At no time are there more appointments than barbers, or than chairs, however they are moved.
WithinCapacity == Day!WithinCapacity

\* "the grid a customer sees here can never disagree with what booking actually allows"
\* (availability.service.ts): a slot is shown as available exactly if it would be accepted now.
GridAgrees == Day!GridAgrees
=================================================================================
