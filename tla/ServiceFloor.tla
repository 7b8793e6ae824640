---------------------------- MODULE ServiceFloor ----------------------------
(***************************************************************************)
(* What the Live Queue promises about the shop floor, with the queue, the  *)
(* assignments and the concurrent requests left out: a customer is seated  *)
(* at most once, by one barber in one chair; neither is ever shared with   *)
(* another customer, and a chair with a local (walk-up, unregistered)      *)
(* customer in it is not used for anyone else.                             *)
(***************************************************************************)
CONSTANTS Entry,    \* queue entries (visits)
          Staff,    \* barbers
          Chair,    \* chairs
          None      \* the null reference

VARIABLES seated,   \* the visits being served
          served,   \* the visits whose service has ended
          barber,   \* the barber serving a seated visit
          place,    \* the chair of a seated visit
          local     \* the chairs taken by a local customer

vars == <<seated, served, barber, place, local>>

BarberFree(s) == \A f \in seated : barber[f] # s
ChairFree(c)  == c \notin local /\ \A f \in seated : place[f] # c

Init == /\ seated = {} /\ served = {} /\ local = {}
        /\ barber = [e \in Entry |-> None]
        /\ place = [e \in Entry |-> None]

Seat(e, s, c) ==
  /\ e \notin seated \cup served
  /\ BarberFree(s) /\ ChairFree(c)
  /\ seated' = seated \cup {e}
  /\ barber' = [barber EXCEPT ![e] = s]
  /\ place' = [place EXCEPT ![e] = c]
  /\ UNCHANGED <<served, local>>

Move(e, s, c) ==
  /\ e \in seated
  /\ s = barber[e] \/ BarberFree(s)
  /\ \A f \in seated \ {e} : place[f] # c
  /\ c \notin local
  /\ barber' = [barber EXCEPT ![e] = s]
  /\ place' = [place EXCEPT ![e] = c]
  /\ UNCHANGED <<seated, served, local>>

Leave(e) ==
  /\ e \in seated
  /\ seated' = seated \ {e}
  /\ served' = served \cup {e}
  /\ barber' = [barber EXCEPT ![e] = None]
  /\ place' = [place EXCEPT ![e] = None]
  /\ UNCHANGED local

Occupy(c) == /\ ChairFree(c)
             /\ local' = local \cup {c}
             /\ UNCHANGED <<seated, served, barber, place>>

Free(C) == /\ local' = local \ C
           /\ UNCHANGED <<seated, served, barber, place>>

Next == \/ \E e \in Entry, s \in Staff, c \in Chair : Seat(e, s, c) \/ Move(e, s, c)
        \/ \E e \in Entry : Leave(e)
        \/ \E c \in Chair : Occupy(c)
        \/ \E C \in SUBSET Chair : Free(C)

Spec == Init /\ [][Next]_vars
=============================================================================
