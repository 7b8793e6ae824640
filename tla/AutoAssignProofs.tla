-------------------------- MODULE AutoAssignProofs --------------------------
(***************************************************************************)
(* Proofs about AutoAssign, for any number of customers, barbers, chairs   *)
(* and requests in flight: its types; that the seating of passes and       *)
(* handlers together implements ServiceFloor; and that a pass nobody       *)
(* disturbs leaves no customer waiting who could have been served, and     *)
(* lets nobody overtake.                                                   *)
(***************************************************************************)
EXTENDS AutoAssign, TLAPS

FloorTypes ==
  /\ status \in [Entry -> Phase]
  /\ staffOf \in [Entry -> Staff \cup {None}] /\ chairOf \in [Entry -> Chair \cup {None}]
  /\ \A e \in Entry : Engaged(e) => staffOf[e] \in Staff /\ chairOf[e] \in Chair
  /\ onDuty \subseteq Staff /\ booked \subseteq Staff /\ local \subseteq Chair /\ enabled \in BOOLEAN

RunTypes == owes \subseteq Request /\ run \in Run /\ quiet \in BOOLEAN

\* The types of the floor's rows, and of what the trigger and the pass hold.
LEMMA TypeParts == (TypeOK <=> FloorTypes /\ RunTypes) /\ (TypeOK' <=> FloorTypes' /\ RunTypes')
BY DEF TypeOK, FloorTypes, RunTypes, Engaged

\* A pass that is not there, and one that begins.
LEMMA NoRunIsRun == NoRun \in Run /\ NewPass \in Run
BY DEF NoRun, NewPass, Run

\* At the start nobody has come and no pass runs.
LEMMA InitTypes == Init => TypeOK
BY NoRunIsRun DEF Init, TypeOK, Phase, Engaged

\* A seating keeps the types of the floor.
LEMMA SeatTypes ==
  ASSUME FloorTypes, NEW e \in Entry, NEW s \in Staff, NEW c \in Chair, NEW phase \in Phase, Seat(e, s, c, phase)
  PROVE  FloorTypes'
BY DEF FloorTypes, Seat, Engaged

\* What a handler does to the floor keeps its types.
LEMMA HandlerFloorTypes ==
  ASSUME FloorTypes, HandlerStep
  PROVE  FloorTypes'
<1>1. ASSUME NEW r \in Request, NEW e \in Entry, Arrive(r, e) \/ Finish(r, e) PROVE FloorTypes'
  BY <1>1 DEF FloorTypes, Arrive, Finish, Engaged, Phase, Unstarted
<1>2. ASSUME NEW e \in Entry, NEW s \in Staff, NEW c \in Chair, AssignByHand(e, s, c) PROVE FloorTypes'
  BY <1>2, SeatTypes DEF AssignByHand, Phase
<1>3. ASSUME NEW e \in Entry, SweepUnassigned(e) PROVE FloorTypes'
  BY <1>3 DEF FloorTypes, SweepUnassigned, Engaged, Phase
<1>4. ASSUME NEW e \in Entry, StartAssigned(e) PROVE FloorTypes'
  <2>1. staffOf[e] \in Staff /\ chairOf[e] \in Chair
    BY <1>4 DEF StartAssigned, FloorTypes, Engaged
  <2> QED BY <1>4, <2>1, SeatTypes DEF StartAssigned, Phase
<1>5. ASSUME NEW r \in Request, NEW s \in Staff, ClockIn(r, s) PROVE FloorTypes'
  BY <1>5 DEF FloorTypes, ClockIn, Engaged
<1>6. ASSUME NEW r \in Request, NEW s \in Staff, ClockOut(r, s) PROVE FloorTypes'
  BY <1>6 DEF FloorTypes, ClockOut, Engaged, Phase
<1>7. ASSUME NEW s \in Staff, Reserve(s) PROVE FloorTypes'
  BY <1>7 DEF FloorTypes, Reserve, Engaged
<1>8. ASSUME NEW r \in Request, NEW c \in Chair, ChangeLocal(r, c) PROVE FloorTypes'
  BY <1>8 DEF FloorTypes, ChangeLocal, Engaged
<1>9. ASSUME NEW r \in Request, SetEnabled(r) PROVE FloorTypes'
  BY <1>9 DEF FloorTypes, SetEnabled, Engaged
<1>10. ASSUME NEW r \in Request, FailBeforeTrigger(r) \/ Trigger(r) PROVE FloorTypes'
  BY <1>10 DEF FloorTypes, FailBeforeTrigger, Trigger, floor, Engaged
<1> QED BY <1>1, <1>2, <1>3, <1>4, <1>5, <1>6, <1>7, <1>8, <1>9, <1>10 DEF HandlerStep

\* A handler only adds or takes away a request that owes a call, starts a pass or asks for another.
LEMMA HandlerRunTypes ==
  ASSUME TypeOK, HandlerStep
  PROVE  RunTypes'
<1>1. ASSUME NEW r \in Request, WillTrigger(r) \/ NoTrigger
      PROVE  RunTypes'
  BY <1>1 DEF TypeOK, RunTypes, WillTrigger, NoTrigger
<1>2. ASSUME NEW r \in Request, FailBeforeTrigger(r)
      PROVE  RunTypes'
  BY <1>2 DEF TypeOK, RunTypes, FailBeforeTrigger
<1>3. ASSUME NEW r \in Request, Trigger(r)
      PROVE  RunTypes'
  BY <1>3, NoRunIsRun DEF TypeOK, RunTypes, Trigger, Run
<1>4. ASSUME NoTrigger PROVE RunTypes'
  BY <1>4 DEF TypeOK, RunTypes, NoTrigger
<1>5. HandlerStep => NoTrigger \/ \E r \in Request : WillTrigger(r) \/ FailBeforeTrigger(r) \/ Trigger(r)
  BY DEF HandlerStep, Arrive, Finish, AssignByHand, SweepUnassigned, StartAssigned, ClockIn, ClockOut, Reserve,
         ChangeLocal, SetEnabled
<1> QED BY <1>1, <1>2, <1>3, <1>4, <1>5

\* The pass keeps the types: what it plans, and seats, are entries, barbers and chairs it has read.
LEMMA PassTypes == ASSUME TypeOK, PassStep \/ PassFails PROVE TypeOK'
<1> USE TypeParts
<1>1. ASSUME UNCHANGED floor PROVE FloorTypes'
  BY <1>1 DEF floor, FloorTypes, Engaged
<1>2. CASE ReadSetting \/ PassEnd \/ PlanDone
  <2>1. RunTypes'
    BY <1>2, NoRunIsRun DEF RunTypes, ReadSetting, PassEnd, PlanDone, Run
  <2> QED BY <1>1, <1>2, <2>1 DEF ReadSetting, PassEnd, PlanDone
<1>3. CASE PassFails
  <2>1. RunTypes'
    BY <1>3, NoRunIsRun DEF RunTypes, PassFails, Run
  <2> QED BY <1>1, <1>3, <2>1 DEF PassFails
<1>4. CASE ReadEntries \/ ReadFloor
  <2>1. ASSUME ReadEntries PROVE RunTypes'
    BY <2>1 DEF RunTypes, ReadEntries, Run
  <2>2. ASSUME ReadFloor PROVE RunTypes'
    <3>1. onDuty \ BusyStaff(None) \subseteq Staff /\ Chair \ (local \cup BusyChairs(None)) \subseteq Chair
      BY DEF FloorTypes
    <3> QED BY <2>2, <3>1 DEF RunTypes, ReadFloor, Run
  <2>3. RunTypes'
    BY <1>4, <2>1, <2>2
  <2> QED BY <1>1, <1>4, <2>3 DEF ReadEntries, ReadFloor
<1>5. ASSUME NEW e \in Entry, PlanEntry(e) PROVE TypeOK'
  <2>1. ASSUME run' = [run EXCEPT !.todo = @ \ {e}] PROVE RunTypes'
    <3>1. run.todo \ {e} \subseteq Entry
      BY DEF RunTypes, Run
    <3> QED BY <1>5, <2>1, <3>1 DEF RunTypes, PlanEntry, Run
  <2>2. ASSUME NEW s \in Candidates(e), NEW c \in run.chairs,
               run' = [run EXCEPT !.todo = @ \ {e}, !.staff = @ \ {s}, !.chairs = @ \ {c},
                                  !.plan = @ \cup {<<e, s, c>>}]
        PROVE  RunTypes'
    <3>1. <<e, s, c>> \in Assignment
      BY DEF RunTypes, Run, Candidates, Assignment
    <3>2. /\ run.todo \ {e} \in SUBSET Entry /\ run.staff \ {s} \in SUBSET Staff
          /\ run.chairs \ {c} \in SUBSET Chair /\ run.plan \cup {<<e, s, c>>} \in SUBSET Assignment
      BY <3>1 DEF RunTypes, Run
    <3> QED BY <1>5, <2>2, <3>2 DEF RunTypes, PlanEntry, Run
  <2> QED BY <1>1, <1>5, <2>1, <2>2 DEF PlanEntry
<1>6. ASSUME NEW t \in run.plan, SeatPlanned(t) \/ SeatRefused(t) \/ SeatAbandons(t) PROVE TypeOK'
  <2>1. t \in Assignment
    BY DEF RunTypes, Run
  <2>2. t[1] \in Entry /\ t[2] \in Staff /\ t[3] \in Chair
    BY <2>1 DEF Assignment
  <2>3. ASSUME NEW seated \in SUBSET Entry PROVE AfterTurn(t, seated) \in Run
    <3>1. run.plan \ {t} \in SUBSET Assignment /\ run.assigned \cup seated \in SUBSET Entry
      BY DEF RunTypes, Run
    <3> QED BY <3>1 DEF RunTypes, AfterTurn, Run
  <2>4. [run EXCEPT !.at = "over", !.plan = {}] \in Run
    BY DEF RunTypes, Run
  <2>5. RunTypes'
    BY <1>6, <2>2, <2>3, <2>4 DEF RunTypes, SeatPlanned, SeatRefused, SeatAbandons
  <2>6. CASE SeatPlanned(t)
    BY <2>2, <2>5, <2>6, SeatTypes DEF SeatPlanned, Phase
  <2>7. CASE SeatRefused(t) \/ SeatAbandons(t)
    BY <1>1, <2>5, <2>7 DEF SeatRefused, SeatAbandons
  <2> QED BY <1>6, <2>6, <2>7
<1> QED BY <1>2, <1>3, <1>4, <1>5, <1>6 DEF PassStep

\* The variables keep their types, whoever is engaged has a barber and a chair, and a plan names
\* customers, barbers and chairs that exist.
THEOREM TypesCorrect == Spec => []TypeOK
<1>1. TypeOK /\ [Next]_vars => TypeOK'
  <2> SUFFICES ASSUME TypeOK, [Next]_vars PROVE TypeOK'
    OBVIOUS
  <2>1. CASE PassStep \/ PassFails
    BY <2>1, PassTypes
  <2>2. CASE HandlerStep
    BY <2>2, TypeParts, HandlerFloorTypes, HandlerRunTypes
  <2>3. CASE UNCHANGED vars
    BY <2>3 DEF TypeOK, vars, floor, Engaged
  <2> QED BY <2>1, <2>2, <2>3 DEF Next
<1> QED BY <1>1, InitTypes, PTL DEF Spec

(***************************************************************************)
(* The refinement.                                                         *)
(***************************************************************************)
Seated == {e \in Entry : status[e] = "IN_SERVICE"}
Served == {e \in Entry : status[e] = "SERVED"}

\* A step that changes neither who is being served, by whom and where, nor who has been, nor the
\* local customers is a stutter of the floor.
LEMMA SameFloor ==
  ASSUME UNCHANGED local,
         \A e \in Entry : /\ status'[e] = "IN_SERVICE" <=> status[e] = "IN_SERVICE"
                          /\ status'[e] = "SERVED" <=> status[e] = "SERVED"
                          /\ status[e] = "IN_SERVICE" => staffOf'[e] = staffOf[e] /\ chairOf'[e] = chairOf[e]
  PROVE  UNCHANGED Floor!vars
<1>1. Seated' = Seated /\ Served' = Served
  BY DEF Seated, Served
<1>2. Barber' = Barber /\ Place' = Place
  BY DEF Barber, Place
<1> QED BY <1>1, <1>2 DEF Floor!vars, Seated, Served

\* A seating with the service started seats a customer on the floor; a reservation does not touch it.
LEMMA SeatRefines ==
  ASSUME FloorTypes, NEW e \in Entry, NEW s \in Staff, NEW c \in Chair, Seatable(e, s, c),
         NEW phase \in {"ASSIGNED", "IN_SERVICE"}, Seat(e, s, c, phase)
  PROVE  [Floor!Next]_(Floor!vars)
<1>1. \A f \in Entry : /\ status'[f] = IF f = e THEN phase ELSE status[f]
                       /\ staffOf'[f] = IF f = e THEN s ELSE staffOf[f]
                       /\ chairOf'[f] = IF f = e THEN c ELSE chairOf[f]
  BY DEF FloorTypes, Seat
<1>2. status[e] \notin {"IN_SERVICE", "SERVED"}
  BY DEF Seatable, Unstarted
<1>3. CASE phase = "ASSIGNED"
  BY <1>1, <1>2, <1>3, SameFloor DEF Seat
<1>4. CASE phase = "IN_SERVICE"
  <2>1. Floor!BarberFree(s)
    BY <1>2 DEF Floor!BarberFree, Seatable, StaffFree, BusyStaff, Engaged, Barber
  <2>2. Floor!ChairFree(c)
    BY <1>2 DEF Floor!ChairFree, Seatable, ChairFree, BusyChairs, Engaged, Place
  <2>3. Seated' = Seated \cup {e} /\ Served' = Served /\ e \notin Seated \cup Served
    BY <1>1, <1>2, <1>4 DEF Seated, Served
  <2>4. Barber' = [Barber EXCEPT ![e] = s] /\ Place' = [Place EXCEPT ![e] = c]
    BY <1>1, <1>4 DEF Barber, Place
  <2>5. Floor!Seat(e, s, c)
    BY <2>1, <2>2, <2>3, <2>4 DEF Floor!Seat, Seated, Served, Seat
  <2> QED BY <2>5 DEF Floor!Next
<1> QED BY <1>3, <1>4

\* A customer whose service is completed, or who leaves before it.
LEMMA FinishRefines ==
  ASSUME FloorTypes, NEW r \in Request, NEW e \in Entry, Finish(r, e)
  PROVE  [Floor!Next]_(Floor!vars)
<1>1. CASE status[e] = "IN_SERVICE" /\ status' = [status EXCEPT ![e] = "SERVED"]
  <2>1. \A f \in Entry : status'[f] = IF f = e THEN "SERVED" ELSE status[f]
    BY <1>1 DEF FloorTypes
  <2>2. UNCHANGED <<staffOf, chairOf, local>>
    BY DEF Finish
  <2>3. Seated' = Seated \ {e} /\ Served' = Served \cup {e} /\ e \in Seated
    BY <1>1, <2>1 DEF Seated, Served
  <2>4. Barber' = [Barber EXCEPT ![e] = None] /\ Place' = [Place EXCEPT ![e] = None]
    BY <2>1, <2>2 DEF Barber, Place
  <2>5. Floor!Leave(e)
    BY <2>2, <2>3, <2>4 DEF Floor!Leave, Seated, Served
  <2> QED BY <2>5 DEF Floor!Next
<1>2. CASE status[e] \in Unstarted /\ status' = [status EXCEPT ![e] = "LEFT"]
  <2>1. \A f \in Entry : status'[f] = IF f = e THEN "LEFT" ELSE status[f]
    BY <1>2 DEF FloorTypes
  <2> QED BY <1>2, <2>1, SameFloor DEF Finish, Unstarted
<1> QED BY <1>1, <1>2 DEF Finish

\* A local customer comes, to a chair nobody is in, or goes.
LEMMA LocalRefines ==
  ASSUME FloorTypes, NEW r \in Request, NEW c \in Chair, ChangeLocal(r, c)
  PROVE  [Floor!Next]_(Floor!vars)
<1>1. UNCHANGED <<status, staffOf, chairOf>>
  BY DEF ChangeLocal
<1>2. UNCHANGED <<Seated, Served, Barber, Place>>
  BY <1>1 DEF Seated, Served, Barber, Place
<1>3. CASE local' = local \ {c}
  <2>1. Floor!Free({c})
    BY <1>2, <1>3 DEF Floor!Free, Seated, Served
  <2> QED BY <2>1 DEF Floor!Next
<1>4. CASE c \notin local /\ c \notin BusyChairs(None) /\ local' = local \cup {c}
  <2>1. Floor!ChairFree(c)
    BY <1>4, NoneAssumption DEF Floor!ChairFree, BusyChairs, Engaged, Place
  <2>2. Floor!Occupy(c)
    BY <1>2, <1>4, <2>1 DEF Floor!Occupy, Seated, Served
  <2> QED BY <2>2 DEF Floor!Next
<1> QED BY <1>3, <1>4 DEF ChangeLocal

\* A step of the allocator or of a handler is a step of the floor, or none.
LEMMA StepRefines == ASSUME TypeOK, [Next]_vars PROVE [Floor!Next]_(Floor!vars)
<1> USE TypeParts
<1>1. CASE UNCHANGED floor
  BY <1>1, SameFloor DEF floor
<1>2. ASSUME NEW t \in run.plan, SeatPlanned(t) PROVE [Floor!Next]_(Floor!vars)
  <2>1. t[1] \in Entry /\ t[2] \in Staff /\ t[3] \in Chair
    BY DEF RunTypes, Run, Assignment
  <2> QED BY <1>2, <2>1, SeatRefines DEF SeatPlanned
<1>3. CASE PassStep \/ PassFails
  BY <1>1, <1>2, <1>3 DEF PassStep, PassFails, ReadSetting, ReadEntries, ReadFloor, PlanDone, PassEnd, PlanEntry,
                          SeatRefused, SeatAbandons
<1>4. CASE HandlerStep
  <2>1. ASSUME NEW r \in Request, NEW e \in Entry, Finish(r, e) PROVE [Floor!Next]_(Floor!vars)
    BY <2>1, FinishRefines
  <2>2. ASSUME NEW e \in Entry, NEW s \in Staff, NEW c \in Chair, AssignByHand(e, s, c) PROVE [Floor!Next]_(Floor!vars)
    BY <2>2, SeatRefines DEF AssignByHand
  <2>3. ASSUME NEW e \in Entry, StartAssigned(e) PROVE [Floor!Next]_(Floor!vars)
    <3>1. staffOf[e] \in Staff /\ chairOf[e] \in Chair
      BY <2>3 DEF StartAssigned, FloorTypes, Engaged
    <3> QED BY <2>3, <3>1, SeatRefines DEF StartAssigned
  <2>4. ASSUME NEW r \in Request, NEW c \in Chair, ChangeLocal(r, c) PROVE [Floor!Next]_(Floor!vars)
    BY <2>4, LocalRefines
  <2>5. ASSUME NEW r \in Request, NEW e \in Entry, Arrive(r, e) PROVE [Floor!Next]_(Floor!vars)
    BY <2>5, SameFloor DEF FloorTypes, Arrive
  <2>6. ASSUME NEW e \in Entry, SweepUnassigned(e) PROVE [Floor!Next]_(Floor!vars)
    BY <2>6, SameFloor DEF FloorTypes, SweepUnassigned
  <2>7. ASSUME NEW r \in Request, NEW s \in Staff, ClockOut(r, s) PROVE [Floor!Next]_(Floor!vars)
    BY <2>7, SameFloor DEF FloorTypes, ClockOut
  <2>8. ASSUME NEW r \in Request, NEW s \in Staff, ClockIn(r, s) PROVE [Floor!Next]_(Floor!vars)
    BY <2>8, SameFloor DEF ClockIn
  <2>9. ASSUME NEW r \in Request, SetEnabled(r) \/ FailBeforeTrigger(r) \/ Trigger(r) PROVE [Floor!Next]_(Floor!vars)
    BY <2>9, SameFloor DEF SetEnabled, FailBeforeTrigger, Trigger, floor
  <2>10. ASSUME NEW s \in Staff, Reserve(s) PROVE [Floor!Next]_(Floor!vars)
    BY <2>10, SameFloor DEF Reserve
  <2> QED BY <1>4, <2>1, <2>2, <2>3, <2>4, <2>5, <2>6, <2>7, <2>8, <2>9, <2>10 DEF HandlerStep
<1> QED BY <1>1, <1>3, <1>4 DEF Next, vars

\* However passes and handlers interleave, and however stale a plan is when it is carried out, the
\* floor is kept: one barber, one chair, one customer, none in a local customer's chair.
THEOREM FloorImplemented == Spec => ImplementsFloor
<1>1. Init => Floor!Init
  BY DEF Init, Floor!Init, Barber, Place
<1>2. TypeOK /\ [Next]_vars => [Floor!Next]_(Floor!vars)
  BY StepRefines
<1> QED BY <1>1, <1>2, TypesCorrect, PTL DEF Spec, Floor!Spec, ImplementsFloor

(***************************************************************************)
(* The pass.                                                               *)
(***************************************************************************)
\* A customer the pass has looked at and found nobody for.
Unplanned(e) == status[e] = "WAITING" /\ e \notin run.todo /\ \A t \in run.plan : t[1] # e

\* Between the read and the seating: each assignment of the plan may be carried out, and none of them
\* takes what another needs.
Sound ==
  /\ \A t \in run.plan : /\ t[1] \notin run.todo /\ status[t[1]] = "WAITING"
                         /\ t[2] \in Suits[t[1]] /\ Seatable(t[1], t[2], t[3])
  /\ \A t, u \in run.plan : t[1] = u[1] \/ t[2] = u[2] \/ t[3] = u[3] => t = u

\* None of them takes a barber who suits an earlier customer it leaves waiting.
InTurn == \A e \in Entry, t \in run.plan : Unplanned(e) /\ e < t[1] => t[2] \notin Suits[e]

\* While it plans, the pass goes by the order of arrival and knows what is free.
Planning ==
  /\ run.assigned = {} /\ \A e \in run.todo : status[e] = "WAITING"
  /\ \A e \in Entry, f \in run.todo : status[e] = "WAITING" /\ e \notin run.todo => e < f
  /\ run.staff = {s \in onDuty : s \notin BusyStaff(None) /\ \A t \in run.plan : t[2] # s}
  /\ run.chairs = {c \in Chair : c \notin local \cup BusyChairs(None) /\ \A t \in run.plan : t[3] # c}
  /\ \A e \in Entry : Unplanned(e) => run.chairs = {} \/ Candidates(e) = {}

\* While it seats, what could serve a customer it leaves waiting is taken by a plan still to be carried
\* out, and whoever it has seated came before those it is still to seat.
Seating ==
  /\ run.todo = {}
  /\ \A e \in Entry : Unplanned(e) =>
       \A s \in Suits[e], c \in Chair : Seatable(e, s, c) => \E t \in run.plan : t[2] = s \/ t[3] = c
  /\ \A f \in run.assigned : status[f] # "WAITING" /\ \A t \in run.plan : f < t[1]
  /\ \A e \in Entry, f \in run.assigned : Unplanned(e) /\ e < f => staffOf[f] \notin Suits[e]

PassInv ==
  /\ run.at \in {"setting", "entries", "floor"} => run.plan = {} /\ run.assigned = {}
  /\ quiet =>
       /\ run.at # "entries"
       /\ run.at = "floor" => run.todo = {e \in Entry : status[e] = "WAITING"}
       /\ run.at \in {"plan", "seat", "over"} => Sound /\ InTurn
       /\ run.at = "plan" => Planning
       /\ run.at \in {"seat", "over"} => Seating
       /\ run.at = "over" => run.plan = {}

\* Whoever is not engaged does not keep a barber or a chair from anybody.
LEMMA NotBusy ==
  ASSUME NEW e \in Entry, status[e] = "WAITING"
  PROVE  BusyStaff(e) = BusyStaff(None) /\ BusyChairs(e) = BusyChairs(None)
<1>1. {g \in Entry \ {e} : Engaged(g)} = {g \in Entry \ {None} : Engaged(g)}
  BY NoneAssumption DEF Engaged
<1> QED BY <1>1 DEF BusyStaff, BusyChairs

\* Of two customers one came earlier.
LEMMA ArrivalOrder == \A e, f \in Entry : (e < f => ~(f < e)) /\ (e <= f /\ e # f => e < f)
BY EntryAssumption

\* An assignment is of a customer, a barber and a chair.
LEMMA AssignmentParts ==
  ASSUME TypeOK
  PROVE  \A t \in run.plan : t \in Assignment /\ t[1] \in Entry /\ t[2] \in Staff /\ t[3] \in Chair
BY DEF TypeOK, Run, Assignment

\* While nothing changes the floor, what has been planned stands.
LEMMA SameFloorSamePlan ==
  ASSUME UNCHANGED floor, run'.todo = run.todo, run'.plan = run.plan,
         run'.assigned = run.assigned, run'.staff = run.staff, run'.chairs = run.chairs
  PROVE  (Sound => Sound') /\ (InTurn => InTurn') /\ (Planning => Planning') /\ (Seating => Seating')
<1>1. UNCHANGED <<status, staffOf, chairOf, onDuty, booked, local>>
  BY DEF floor
<1> USE <1>1 DEF Unplanned, Seatable, StaffFree, ChairFree, BusyStaff, BusyChairs, Engaged
<1>2. Sound => Sound'
  BY DEF Sound
<1>3. InTurn => InTurn'
  BY DEF InTurn
<1>4. Planning => Planning'
  BY DEF Planning, Candidates
<1>5. Seating => Seating'
  BY DEF Seating
<1> QED BY <1>2, <1>3, <1>4, <1>5

\* A handler ends the quiet, or does no more than call the trigger.
LEMMA HandlerKeepsPass ==
  ASSUME TypeOK, PassInv, HandlerStep
  PROVE  PassInv'
<1>1. CASE UNCHANGED run /\ ~quiet'
  BY <1>1 DEF PassInv
<1>2. ASSUME NEW r \in Request, Trigger(r)
      PROVE  PassInv'
  <2>1. UNCHANGED <<floor, quiet>>
    BY <1>2 DEF Trigger
  <2>2. CASE run' = NewPass
    <3>1. run'.at = "setting" /\ run'.plan = {} /\ run'.assigned = {}
      BY <2>2, NoRunIsRun DEF NewPass, NoRun, Run
    <3> QED BY <3>1 DEF PassInv
  <2>3. CASE run' = [run EXCEPT !.again = TRUE]
    <3>1. /\ run'.at = run.at /\ run'.todo = run.todo /\ run'.plan = run.plan
          /\ run'.assigned = run.assigned /\ run'.staff = run.staff /\ run'.chairs = run.chairs
      BY <2>3 DEF TypeOK, Run
    <3>2. (Sound => Sound') /\ (InTurn => InTurn') /\ (Planning => Planning') /\ (Seating => Seating')
      BY <2>1, <3>1, SameFloorSamePlan
    <3> QED BY <2>1, <3>1, <3>2 DEF PassInv, floor
  <2> QED BY <1>2, <2>2, <2>3 DEF Trigger
<1>3. ASSUME NEW r \in Request, FailBeforeTrigger(r)
      PROVE  PassInv'
  <2>1. UNCHANGED <<floor, run, quiet>>
    BY <1>3 DEF FailBeforeTrigger
  <2>2. (Sound => Sound') /\ (InTurn => InTurn') /\ (Planning => Planning') /\ (Seating => Seating')
    BY <2>1, SameFloorSamePlan
  <2> QED BY <2>1, <2>2 DEF PassInv, floor
<1>4. \/ UNCHANGED run /\ ~quiet'
      \/ \E r \in Request : FailBeforeTrigger(r) \/ Trigger(r)
  BY DEF HandlerStep, Arrive, Finish, AssignByHand, SweepUnassigned, StartAssigned, ClockIn, ClockOut, Reserve,
         ChangeLocal, SetEnabled, WillTrigger, NoTrigger
<1> QED BY <1>1, <1>2, <1>3, <1>4

\* The reads at the start of a pass.
LEMMA ReadsKeepPass ==
  ASSUME TypeOK, PassInv, ReadSetting \/ ReadEntries \/ ReadFloor \/ PassEnd \/ PassFails
  PROVE  PassInv'
<1>1. run \in Run
  BY DEF TypeOK
<1>2. CASE ReadSetting
  <2>1. /\ run.at = "setting" /\ run'.at \in {"entries", "over"} /\ ~quiet'
        /\ run'.plan = run.plan /\ run'.assigned = run.assigned
    BY <1>1, <1>2 DEF ReadSetting, Run
  <2> QED BY <2>1 DEF PassInv
<1>3. CASE PassEnd
  <2>1. run'.at \in {"none", "setting"} /\ run'.plan = {} /\ run'.assigned = {}
    BY <1>3 DEF PassEnd, NewPass, NoRun
  <2> QED BY <2>1 DEF PassInv
<1>4. CASE PassFails
  <2>1. run'.at = "over" /\ ~quiet'
    BY <1>4 DEF PassFails, NoRun
  <2> QED BY <2>1 DEF PassInv
<1>5. CASE ReadEntries
  <2> DEFINE W == {e \in Entry : status[e] = "WAITING"}
  <2>1. /\ run'.at = (IF W = {} THEN "over" ELSE "floor") /\ run'.todo = W
        /\ run'.plan = {} /\ run'.assigned = {} /\ quiet' /\ UNCHANGED status
    BY <1>1, <1>5 DEF ReadEntries, Run, PassInv, floor
  <2>2. CASE W = {}
    BY <2>1, <2>2 DEF PassInv, Sound, InTurn, Seating, Unplanned
  <2>3. CASE W # {}
    BY <2>1, <2>3 DEF PassInv
  <2> QED BY <2>2, <2>3
<1>6. CASE ReadFloor
  <2>1. /\ run.at = "floor" /\ run'.at = "plan" /\ run'.todo = run.todo /\ run.plan = {} /\ run'.plan = {}
        /\ run.assigned = {} /\ run'.assigned = {} /\ UNCHANGED <<floor, quiet>>
        /\ run'.staff = onDuty \ BusyStaff(None) /\ run'.chairs = Chair \ (local \cup BusyChairs(None))
    BY <1>1, <1>6 DEF ReadFloor, Run, PassInv
  <2>2. ASSUME quiet PROVE run'.todo = {e \in Entry : status[e] = "WAITING"} /\ UNCHANGED status
    BY <2>1, <2>2 DEF PassInv, floor
  <2>3. Sound' /\ InTurn'
    BY <2>1 DEF Sound, InTurn
  <2>4. BusyStaff(None)' = BusyStaff(None) /\ BusyChairs(None)' = BusyChairs(None) /\ UNCHANGED <<onDuty, local>>
    BY <2>1 DEF floor, BusyStaff, BusyChairs, Engaged
  <2>5. ASSUME quiet PROVE Planning'
    BY <2>1, <2>2, <2>4, <2>5 DEF Planning, Unplanned
  <2> QED BY <2>1, <2>3, <2>5 DEF PassInv
<1> QED BY <1>2, <1>3, <1>4, <1>5, <1>6

\* A customer is left waiting, or planned with a barber and a chair nobody in the plan has.
LEMMA PlanKeepsPass ==
  ASSUME TypeOK, PassInv, NEW e \in Entry, PlanEntry(e)
  PROVE  PassInv'
<1>1. /\ run \in Run /\ run.at = "plan" /\ Earliest(e, run.todo) /\ UNCHANGED <<floor, quiet>>
      /\ UNCHANGED <<status, staffOf, chairOf, onDuty, booked, local>>
  BY DEF TypeOK, PlanEntry, floor
<1>2. run'.at = "plan"
  BY <1>1 DEF PlanEntry, Run
<1>3. CASE ~quiet
  BY <1>1, <1>2, <1>3 DEF PassInv
<1>4. CASE quiet
  <2>1. Sound /\ InTurn /\ Planning
    BY <1>1, <1>4 DEF PassInv
  <2>2. e \in run.todo /\ status[e] = "WAITING" /\ \A f \in run.todo : e <= f
    BY <1>1, <2>1 DEF Earliest, Planning
  <2>3. \A f \in Entry : BusyStaff(f)' = BusyStaff(f) /\ BusyChairs(f)' = BusyChairs(f)
    BY <1>1 DEF BusyStaff, BusyChairs, Engaged
  <2>4. BusyStaff(None)' = BusyStaff(None) /\ BusyChairs(None)' = BusyChairs(None)
    BY <1>1 DEF BusyStaff, BusyChairs, Engaged
  <2>5. \A f \in Entry : \A s, c : Seatable(f, s, c)' <=> Seatable(f, s, c)
    BY <1>1, <2>3 DEF Seatable, StaffFree, ChairFree
  <2>6. \A f \in Entry, g \in run.todo \ {e} : status[f] = "WAITING" /\ f \notin run.todo \ {e} => f < g
    BY <1>1, <2>1, <2>2, EntryAssumption DEF Planning, Run
  <2>7. CASE /\ run.chairs = {} \/ Candidates(e) = {}
             /\ run' = [run EXCEPT !.todo = @ \ {e}]
    <3>1. /\ run'.todo = run.todo \ {e} /\ run'.plan = run.plan /\ run'.assigned = run.assigned
          /\ run'.staff = run.staff /\ run'.chairs = run.chairs
      BY <1>1, <2>7 DEF Run
    <3>2. \A f \in Entry : Unplanned(f)' => Unplanned(f) \/ f = e
      BY <1>1, <3>1 DEF Unplanned
    <3>3. \A f \in Entry : Candidates(f)' = Candidates(f)
      BY <1>1, <2>3, <3>1 DEF Candidates, StaffFree
    <3>4. Sound'
      BY <1>1, <2>1, <2>5, <3>1, AssignmentParts DEF Sound
    <3>5. InTurn'
      <4>1. ASSUME NEW f \in Entry, NEW t \in run.plan, Unplanned(f)', f < t[1] PROVE t[2] \notin Suits[f]
        <5>1. CASE Unplanned(f)
          BY <2>1, <4>1, <5>1 DEF InTurn
        <5>2. CASE f = e
          <6>1. t[1] \in Entry /\ status[t[1]] = "WAITING" /\ t[1] \notin run.todo
            BY <2>1, AssignmentParts DEF Sound
          <6>2. t[1] < e
            BY <2>1, <2>2, <6>1 DEF Planning
          <6>3. ~(e < t[1])
            BY <6>1, <6>2, ArrivalOrder
          <6> QED BY <4>1, <5>2, <6>3
        <5> QED BY <3>2, <4>1, <5>1, <5>2
      <4> QED BY <3>1, <4>1 DEF InTurn
    <3>6. Planning'
      BY <1>1, <2>1, <2>4, <2>6, <2>7, <3>1, <3>2, <3>3 DEF Planning
    <3> QED BY <1>1, <1>2, <3>4, <3>5, <3>6 DEF PassInv
  <2>8. ASSUME NEW s \in Candidates(e), NEW c \in run.chairs,
               run' = [run EXCEPT !.todo = @ \ {e}, !.staff = @ \ {s}, !.chairs = @ \ {c},
                                  !.plan = @ \cup {<<e, s, c>>}]
        PROVE  PassInv'
    <3>0. PICK a : a = <<e, s, c>>
      OBVIOUS
    <3>1. a = <<e, s, c>> /\ a[1] = e /\ a[2] = s /\ a[3] = c
      BY <3>0
    <3>2. /\ run'.todo = run.todo \ {e} /\ run'.plan = run.plan \cup {a} /\ run'.assigned = run.assigned
          /\ run'.staff = run.staff \ {s} /\ run'.chairs = run.chairs \ {c}
      BY <1>1, <2>8, <3>1 DEF Run
    <3>3. \A f \in Entry : Unplanned(f)' => Unplanned(f) /\ f # e
      BY <1>1, <3>1, <3>2 DEF Unplanned
    <3>4. \A f \in Entry : Candidates(f)' \subseteq Candidates(f)
      BY <1>1, <2>3, <3>2 DEF Candidates, StaffFree
    <3>5. Seatable(e, s, c) /\ s \in Suits[e]
      BY <1>1, <2>1, <2>2, NotBusy, SuitsAssumption DEF Candidates, Planning, Seatable, StaffFree, ChairFree, Unstarted
    <3>6. \A t \in run.plan : t[1] # e /\ t[2] # s /\ t[3] # c
      BY <2>1, <2>2 DEF Sound, Planning, Candidates
    <3>7. Sound'
      <4>1. \A t \in run'.plan : /\ t[1] \notin run'.todo /\ status'[t[1]] = "WAITING"
                                 /\ t[2] \in Suits[t[1]] /\ Seatable(t[1], t[2], t[3])'
        BY <1>1, <2>1, <2>2, <2>5, <3>1, <3>2, <3>5, AssignmentParts DEF Sound
      <4>2. \A t, u \in run'.plan : t[1] = u[1] \/ t[2] = u[2] \/ t[3] = u[3] => t = u
        BY <2>1, <3>1, <3>2, <3>6 DEF Sound
      <4> QED BY <4>1, <4>2 DEF Sound
    <3>8. InTurn'
      <4>1. ASSUME NEW f \in Entry, Unplanned(f) PROVE s \notin Suits[f]
        <5>1. Candidates(f) = {}
          BY <2>1, <4>1 DEF Planning
        <5>2. StaffFree(s, e) /\ s \in run.staff
          BY DEF Candidates
        <5>3. status[f] = "WAITING" /\ BusyStaff(f) = BusyStaff(e)
          BY <2>2, <4>1, NotBusy DEF Unplanned
        <5> QED BY <5>1, <5>2, <5>3 DEF Candidates, StaffFree
      <4> QED BY <2>1, <3>1, <3>2, <3>3, <4>1 DEF InTurn
    <3>9. Planning'
      <4>1. \A f \in run'.todo : status'[f] = "WAITING"
        BY <1>1, <2>1, <3>2 DEF Planning
      <4>2. \A f \in Entry, g \in run'.todo : status'[f] = "WAITING" /\ f \notin run'.todo => f < g
        BY <1>1, <2>6, <3>2
      <4>3. run'.staff = {w \in onDuty' : w \notin BusyStaff(None)' /\ \A t \in run'.plan : t[2] # w}
        BY <1>1, <2>1, <2>4, <3>1, <3>2 DEF Planning
      <4>4. run'.chairs = {w \in Chair : w \notin local' \cup BusyChairs(None)' /\ \A t \in run'.plan : t[3] # w}
        BY <1>1, <2>1, <2>4, <3>1, <3>2 DEF Planning
      <4>5. \A f \in Entry : Unplanned(f)' => run'.chairs = {} \/ Candidates(f)' = {}
        BY <2>1, <3>2, <3>3, <3>4 DEF Planning
      <4> QED BY <2>1, <3>2, <4>1, <4>2, <4>3, <4>4, <4>5 DEF Planning
    <3> QED BY <1>1, <1>2, <3>7, <3>8, <3>9 DEF PassInv
  <2> QED BY <2>7, <2>8 DEF PlanEntry
<1> QED BY <1>3, <1>4

\* The plan is complete: whoever is left waiting finds no barber or no chair but those of the plan.
LEMMA PlanDoneKeepsPass ==
  ASSUME TypeOK, PassInv, PlanDone
  PROVE  PassInv'
<1>1. /\ run \in Run /\ run.at = "plan" /\ run.todo = {} /\ UNCHANGED <<floor, quiet>>
      /\ UNCHANGED <<status, staffOf, chairOf, onDuty, booked, local>>
  BY DEF TypeOK, PlanDone, floor
<1>2. /\ run'.at = (IF run.plan = {} THEN "over" ELSE "seat")
      /\ run'.todo = {} /\ run'.plan = run.plan /\ run'.assigned = run.assigned
  BY <1>1 DEF PlanDone, Run
<1>3. CASE ~quiet
  BY <1>1, <1>2, <1>3 DEF PassInv
<1>4. CASE quiet
  <2>1. Sound /\ InTurn /\ Planning
    BY <1>1, <1>4 DEF PassInv
  <2>2. \A f \in Entry : BusyStaff(f)' = BusyStaff(f) /\ BusyChairs(f)' = BusyChairs(f)
    BY <1>1 DEF BusyStaff, BusyChairs, Engaged
  <2>3. \A f \in Entry : \A s, c : Seatable(f, s, c)' <=> Seatable(f, s, c)
    BY <1>1, <2>2 DEF Seatable, StaffFree, ChairFree
  <2>4. \A f \in Entry : Unplanned(f)' <=> Unplanned(f)
    BY <1>1, <1>2 DEF Unplanned
  <2>5. Sound' /\ InTurn'
    BY <1>1, <1>2, <2>1, <2>3, <2>4, AssignmentParts DEF Sound, InTurn
  <2>6. ASSUME NEW f \in Entry, Unplanned(f), NEW s \in Suits[f], NEW c \in Chair, Seatable(f, s, c)
        PROVE  \E t \in run.plan : t[2] = s \/ t[3] = c
    <3>1. /\ s \in onDuty /\ s \notin BusyStaff(None) /\ StaffFree(s, f)
          /\ c \notin local \cup BusyChairs(None)
      BY <2>6, NotBusy DEF Unplanned, Seatable, StaffFree, ChairFree
    <3>2. CASE run.chairs = {}
      BY <2>1, <3>1, <3>2 DEF Planning
    <3>3. CASE Candidates(f) = {}
      BY <2>1, <2>6, <3>1, <3>3 DEF Planning, Candidates
    <3> QED BY <2>1, <2>6, <3>2, <3>3 DEF Planning
  <2>7. Seating'
    BY <1>2, <2>1, <2>3, <2>4, <2>6 DEF Seating, Planning
  <2> QED BY <1>1, <1>2, <2>5, <2>7 DEF PassInv
<1> QED BY <1>3, <1>4

\* An assignment is carried out, or refused, or ends the pass: in the quiet it is always carried out.
LEMMA SeatKeepsPass ==
  ASSUME TypeOK, PassInv, NEW t \in run.plan, SeatPlanned(t) \/ SeatRefused(t) \/ SeatAbandons(t)
  PROVE  PassInv'
<1>1. run \in Run /\ run.at = "seat" /\ UNCHANGED quiet
  BY DEF TypeOK, SeatPlanned, SeatRefused, SeatAbandons, Turn
<1>2. run'.at \in {"seat", "over"}
  BY <1>1 DEF SeatPlanned, SeatRefused, SeatAbandons, AfterTurn, Run
<1>3. CASE ~quiet
  BY <1>1, <1>2, <1>3 DEF PassInv
<1>4. CASE quiet
  <2>1. Sound /\ InTurn /\ Seating
    BY <1>1, <1>4 DEF PassInv
  <2>2. PICK e \in Entry, s \in Staff, c \in Chair : t[1] = e /\ t[2] = s /\ t[3] = c
    BY AssignmentParts
  <2>3. status[e] = "WAITING" /\ s \in Suits[e] /\ Seatable(e, s, c)
    BY <2>1, <2>2 DEF Sound
  <2>4. SeatPlanned(t)
    BY <2>2, <2>3 DEF SeatRefused, SeatAbandons, Seatable
  <2>5. /\ run'.plan = run.plan \ {t} /\ run'.assigned = run.assigned \cup {e} /\ run'.todo = run.todo
        /\ run'.at = (IF run.plan = {t} THEN "over" ELSE "seat")
    BY <1>1, <2>2, <2>4 DEF SeatPlanned, AfterTurn, Run
  <2>6. /\ status' = [status EXCEPT ![e] = "IN_SERVICE"] /\ staffOf' = [staffOf EXCEPT ![e] = s]
        /\ chairOf' = [chairOf EXCEPT ![e] = c] /\ UNCHANGED <<onDuty, booked, local>>
    BY <2>2, <2>4 DEF SeatPlanned, Seat
  <2>7. /\ status'[e] = "IN_SERVICE" /\ staffOf'[e] = s /\ chairOf'[e] = c
        /\ \A f \in Entry \ {e} : status'[f] = status[f] /\ staffOf'[f] = staffOf[f] /\ chairOf'[f] = chairOf[f]
    BY <2>6 DEF TypeOK
  <2>8. \A f \in Entry \ {e} : BusyStaff(f)' = BusyStaff(f) \cup {s} /\ BusyChairs(f)' = BusyChairs(f) \cup {c}
    <3>1. \A f \in Entry \ {e} : {g \in Entry \ {f} : Engaged(g)'} = {g \in Entry \ {f} : Engaged(g)} \cup {e}
      BY <2>3, <2>7 DEF Engaged
    <3>2. ~Engaged(e)
      BY <2>3 DEF Engaged
    <3> QED BY <2>7, <3>1, <3>2 DEF BusyStaff, BusyChairs
  <2>9. \A f \in Entry \ {e} : \A x, y : Seatable(f, x, y)' <=> Seatable(f, x, y) /\ x # s /\ y # c
    BY <2>6, <2>7, <2>8 DEF Seatable, StaffFree, ChairFree
  <2>10. \A f \in Entry : Unplanned(f)' => f # e /\ Unplanned(f)
    BY <2>2, <2>5, <2>7 DEF Unplanned
  <2>11. \A u \in run'.plan : u \in run.plan /\ u[1] \in Entry \ {e} /\ u[2] # s /\ u[3] # c /\ e < u[1]
    <3>1. ASSUME NEW u \in run.plan \ {t} PROVE u[1] \in Entry \ {e} /\ u[2] # s /\ u[3] # c
      BY <2>1, <2>2, AssignmentParts DEF Sound
    <3>2. \A u \in run.plan : e <= u[1]
      BY <2>2, <2>4 DEF SeatPlanned, Turn, Earliest
    <3>3. \A u \in run.plan \ {t} : e < u[1]
      BY <3>1, <3>2, ArrivalOrder
    <3> QED BY <2>5, <3>1, <3>3
  <2>12. Sound'
    <3>1. \A u \in run'.plan : /\ u[1] \notin run'.todo /\ status'[u[1]] = "WAITING"
                               /\ u[2] \in Suits[u[1]] /\ Seatable(u[1], u[2], u[3])'
      BY <2>1, <2>5, <2>7, <2>9, <2>11 DEF Sound
    <3>2. \A u, v \in run'.plan : u[1] = v[1] \/ u[2] = v[2] \/ u[3] = v[3] => u = v
      BY <2>1, <2>11 DEF Sound
    <3> QED BY <3>1, <3>2 DEF Sound
  <2>13. InTurn'
    BY <2>1, <2>10, <2>11 DEF InTurn
  <2>14. Seating'
    <3>1. ASSUME NEW f \in Entry, Unplanned(f)', NEW x \in Suits[f], NEW y \in Chair, Seatable(f, x, y)'
          PROVE  \E u \in run'.plan : u[2] = x \/ u[3] = y
      <4>1. Unplanned(f) /\ Seatable(f, x, y) /\ x # s /\ y # c
        BY <2>9, <2>10, <3>1
      <4>2. PICK u \in run.plan : u[2] = x \/ u[3] = y
        BY <2>1, <4>1 DEF Seating
      <4>3. u # t
        BY <2>2, <4>1, <4>2
      <4> QED BY <2>5, <4>2, <4>3
    <3>2. ASSUME NEW f \in run'.assigned
          PROVE  status'[f] # "WAITING" /\ \A u \in run'.plan : f < u[1]
      <4>1. f \in Entry
        BY <1>1, <2>5 DEF Run
      <4>2. CASE f = e
        BY <2>7, <2>11, <4>2
      <4>3. CASE f # e
        BY <2>1, <2>5, <2>7, <2>11, <4>1, <4>3 DEF Seating
      <4> QED BY <4>2, <4>3
    <3>3. ASSUME NEW g \in Entry, NEW f \in run'.assigned, Unplanned(g)', g < f
          PROVE  staffOf'[f] \notin Suits[g]
      <4>1. f \in Entry /\ Unplanned(g)
        BY <1>1, <2>5, <2>10, <3>3 DEF Run
      <4>2. CASE f = e
        BY <2>1, <2>2, <2>7, <3>3, <4>1, <4>2 DEF InTurn
      <4>3. CASE f # e
        BY <2>1, <2>5, <2>7, <3>3, <4>1, <4>3 DEF Seating
      <4> QED BY <4>2, <4>3
    <3>4. run'.todo = {}
      BY <2>1, <2>5 DEF Seating
    <3> QED BY <3>1, <3>2, <3>3, <3>4 DEF Seating
  <2> QED BY <1>1, <1>2, <2>5, <2>12, <2>13, <2>14 DEF PassInv
<1> QED BY <1>3, <1>4

\* Every step keeps the invariant of the pass.
LEMMA StepKeepsPass == TypeOK /\ PassInv /\ [Next]_vars => PassInv'
<1> SUFFICES ASSUME TypeOK, PassInv, [Next]_vars PROVE PassInv'
  OBVIOUS
<1>1. CASE HandlerStep
  BY <1>1, HandlerKeepsPass
<1>2. CASE ReadSetting \/ ReadEntries \/ ReadFloor \/ PassEnd \/ PassFails
  BY <1>2, ReadsKeepPass
<1>3. ASSUME NEW e \in Entry, PlanEntry(e) PROVE PassInv'
  BY <1>3, PlanKeepsPass
<1>4. CASE PlanDone
  BY <1>4, PlanDoneKeepsPass
<1>5. ASSUME NEW t \in run.plan, SeatPlanned(t) \/ SeatRefused(t) \/ SeatAbandons(t) PROVE PassInv'
  BY <1>5, SeatKeepsPass
<1>6. CASE UNCHANGED vars
  <2>1. UNCHANGED <<floor, run, quiet>>
    BY <1>6 DEF vars
  <2>2. (Sound => Sound') /\ (InTurn => InTurn') /\ (Planning => Planning') /\ (Seating => Seating')
    BY <2>1, SameFloorSamePlan
  <2> QED BY <2>1, <2>2 DEF PassInv, floor
<1> QED BY <1>1, <1>2, <1>3, <1>4, <1>5, <1>6 DEF Next, PassStep

LEMMA PassInvariant == Spec => []PassInv
<1>1. Init => PassInv
  BY DEF Init, PassInv, NoRun
<1> QED BY <1>1, TypesCorrect, StepKeepsPass, PTL DEF Spec

\* A pass in which nothing else changed leaves no customer waiting whom a barber and a chair could
\* have served: the plan and the seating together, in allocate.
THEOREM NobodyLeft == Spec => []PassLeavesNobody
<1>1. PassInv => PassLeavesNobody
  <2> SUFFICES ASSUME PassInv, run.at = "over", quiet, NEW e \in Entry, status[e] = "WAITING",
                      NEW s \in Suits[e], NEW c \in Chair
               PROVE  ~Seatable(e, s, c)
    BY DEF PassLeavesNobody
  <2>1. run.plan = {} /\ run.todo = {} /\ Seating
    BY DEF PassInv, Seating
  <2>2. Unplanned(e)
    BY <2>1 DEF Unplanned
  <2> QED BY <2>1, <2>2 DEF Seating
<1> QED BY <1>1, PassInvariant, PTL

\* Nor does it seat anybody with a barber who suits a customer who came earlier and still waits.
THEOREM NoneOvertaken == Spec => []NobodyOvertaken
<1>1. PassInv => NobodyOvertaken
  <2> SUFFICES ASSUME PassInv, run.at = "over", quiet, NEW e \in Entry, NEW f \in run.assigned,
                      status[e] = "WAITING", e < f
               PROVE  staffOf[f] \notin Suits[e]
    BY DEF NobodyOvertaken
  <2>1. run.plan = {} /\ run.todo = {} /\ Seating
    BY DEF PassInv, Seating
  <2>2. Unplanned(e)
    BY <2>1 DEF Unplanned
  <2> QED BY <2>1, <2>2 DEF Seating
<1> QED BY <1>1, PassInvariant, PTL
=============================================================================
