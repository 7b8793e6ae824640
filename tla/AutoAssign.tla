----------------------------- MODULE AutoAssign -----------------------------
(***************************************************************************)
(* The automatic allocator of one salon in one server process: the trigger *)
(* that coalesces the queue's events, the pass that reads the queue and    *)
(* the floor, plans who sits where and then seats one customer after the   *)
(* other, and the handlers that change the floor meanwhile.                *)
(*                                                                         *)
(* A handler commits and calls the trigger later, after more awaits:       *)
(* owes[r] is the request in between.  Seating a customer is LiveQueue's   *)
(* assign with the service started, one step here.  A waiting customer is  *)
(* present (arrivedAt set) and without a barber; every barber is within    *)
(* their working hours and every chair in use.                             *)
(***************************************************************************)
EXTENDS Integers, FiniteSets

CONSTANTS Entry,    \* QueueEntry ids, numbered by joinedAt
          Staff,    \* SalonStaff ids
          Chair,    \* Chair ids
          Request,  \* the requests that may be in flight together
          Qualified,\* per entry, the barbers who may be assigned to it
          Suits,    \* per entry, those the plan may choose: the preferred one if there is one
          None      \* SQL NULL

ASSUME EntryAssumption == Entry \subseteq Int
ASSUME NoneAssumption == None \notin Entry
ASSUME SuitsAssumption ==
  /\ Qualified \in [Entry -> SUBSET Staff] /\ Suits \in [Entry -> SUBSET Staff]
  /\ \A e \in Entry : Suits[e] \subseteq Qualified[e]

VARIABLES
  status,    \* the phase of a QueueEntry
  staffOf,   \* QueueEntry.assignedStaffId
  chairOf,   \* QueueEntry.assignedChairId
  onDuty,    \* the barbers that are ACTIVE
  booked,    \* the barbers whom others' appointments reserve for the time a service would take
  local,     \* the chairs taken by a local customer
  enabled,   \* Salon.queueAutoAssignEnabled
  owes,      \* the requests that have committed and will call the trigger
  run,       \* the trigger's inFlight entry and the locals of its pass
  quiet      \* auxiliary: only the pass has changed anything since it read the queue

floor == <<status, staffOf, chairOf, onDuty, booked, local, enabled>>
vars == <<floor, owes, run, quiet>>

Phase == {"ABSENT", "WAITING", "ASSIGNED", "IN_SERVICE", "SERVED", "LEFT"}
Unstarted == {"WAITING", "ASSIGNED"}

Assignment == Entry \X Staff \X Chair

(* at: where the pass is; todo: waiting entries not planned yet; staff,    *)
(* chairs: usedStaff's complement and freeChairs; plan: assignments not    *)
(* tried yet; assigned: the customers this pass has seated.                *)
Run == [at : {"none", "setting", "entries", "floor", "plan", "seat", "over"}, again : BOOLEAN,
        todo : SUBSET Entry, staff : SUBSET Staff, chairs : SUBSET Chair,
        plan : SUBSET Assignment, assigned : SUBSET Entry]
NoRun == [at |-> "none", again |-> FALSE, todo |-> {}, staff |-> {}, chairs |-> {}, plan |-> {}, assigned |-> {}]
NewPass == [NoRun EXCEPT !.at = "setting"]

Init ==
  /\ status = [e \in Entry |-> "ABSENT"]
  /\ staffOf = [e \in Entry |-> None]
  /\ chairOf = [e \in Entry |-> None]
  /\ onDuty = Staff
  /\ booked = {}
  /\ local = {}
  /\ enabled = TRUE
  /\ owes = {}
  /\ run = NoRun
  /\ quiet = FALSE

Engaged(e) == status[e] \in {"ASSIGNED", "IN_SERVICE"}
BusyStaff(e) == {staffOf[f] : f \in {g \in Entry \ {e} : Engaged(g)}}
BusyChairs(e) == {chairOf[f] : f \in {g \in Entry \ {e} : Engaged(g)}}

StaffFree(s, e) == s \notin booked \cup BusyStaff(e)
ChairFreeOfQueue(c, e) == c \notin BusyChairs(e)
ChairFree(c, e) == c \notin local \cup BusyChairs(e)

\* assign() accepts the barber and the chair for the customer.
Seatable(e, s, c) ==
  /\ status[e] \in Unstarted
  /\ s \in Qualified[e] \cap onDuty
  /\ StaffFree(s, e) /\ ChairFree(c, e)

\* What the transaction of a seating writes.
Seat(e, s, c, phase) ==
  /\ status' = [status EXCEPT ![e] = phase]
  /\ staffOf' = [staffOf EXCEPT ![e] = s]
  /\ chairOf' = [chairOf EXCEPT ![e] = c]
  /\ UNCHANGED <<onDuty, booked, local, enabled>>

(***************************************************************************)
(* The handlers.  Those that call the trigger take a request until then.   *)
(***************************************************************************)
WillTrigger(r) == r \notin owes /\ owes' = owes \cup {r} /\ quiet' = FALSE /\ UNCHANGED run
NoTrigger == quiet' = FALSE /\ UNCHANGED <<owes, run>>

\* Joining at the shop, a check-in, or markArrived of a remote customer.
Arrive(r, e) ==
  /\ status[e] = "ABSENT"
  /\ status' = [status EXCEPT ![e] = "WAITING"]
  /\ UNCHANGED <<staffOf, chairOf, onDuty, booked, local, enabled>>
  /\ WillTrigger(r)

\* Completed, or cancelled by the shop; before the service: cancelled, a no-show, a stale assignment.
Finish(r, e) ==
  /\ \/ status[e] = "IN_SERVICE" /\ status' = [status EXCEPT ![e] = "SERVED"]
     \/ status[e] \in Unstarted /\ status' = [status EXCEPT ![e] = "LEFT"]
  /\ UNCHANGED <<staffOf, chairOf, onDuty, booked, local, enabled>>
  /\ WillTrigger(r)

\* The sweeps of overdue and of stale entries without a barber.
SweepUnassigned(e) ==
  /\ status[e] = "WAITING"
  /\ status' = [status EXCEPT ![e] = "LEFT"]
  /\ UNCHANGED <<staffOf, chairOf, onDuty, booked, local, enabled>>
  /\ NoTrigger

AssignByHand(e, s, c) ==
  /\ Seatable(e, s, c)
  /\ \E phase \in {"ASSIGNED", "IN_SERVICE"} : Seat(e, s, c, phase)
  /\ NoTrigger

StartAssigned(e) ==
  /\ status[e] = "ASSIGNED"
  /\ Seatable(e, staffOf[e], chairOf[e])
  /\ Seat(e, staffOf[e], chairOf[e], "IN_SERVICE")
  /\ NoTrigger

ClockIn(r, s) ==
  /\ onDuty' = onDuty \cup {s}
  /\ UNCHANGED <<status, staffOf, chairOf, booked, local, enabled>>
  /\ WillTrigger(r)

\* The status is written first and the rows released after it, here in one step (LiveQueue has the
\* gap).  The release triggers only if it released somebody.
ClockOut(r, s) ==
  LET released == {e \in Entry : status[e] = "ASSIGNED" /\ staffOf[e] = s} IN
  /\ s \in onDuty
  /\ onDuty' = onDuty \ {s}
  /\ status' = [e \in Entry |-> IF e \in released THEN "WAITING" ELSE status[e]]
  /\ staffOf' = [e \in Entry |-> IF e \in released THEN None ELSE staffOf[e]]
  /\ chairOf' = [e \in Entry |-> IF e \in released THEN None ELSE chairOf[e]]
  /\ UNCHANGED <<booked, local, enabled>>
  /\ IF released = {} THEN NoTrigger ELSE WillTrigger(r)

\* A booking with a chosen barber is made, cancelled or moved, or its time comes or passes.
Reserve(s) ==
  /\ booked' \in {booked \cup {s}, booked \ {s}} /\ booked' # booked
  /\ UNCHANGED <<status, staffOf, chairOf, onDuty, local, enabled>>
  /\ NoTrigger

ChangeLocal(r, c) ==
  /\ \/ c \in local /\ local' = local \ {c}
     \/ c \notin local /\ c \notin BusyChairs(None) /\ local' = local \cup {c}
  /\ UNCHANGED <<status, staffOf, chairOf, onDuty, booked, enabled>>
  /\ WillTrigger(r)

SetEnabled(r) ==
  /\ enabled' \in BOOLEAN
  /\ UNCHANGED <<status, staffOf, chairOf, onDuty, booked, local>>
  /\ IF enabled' THEN WillTrigger(r) ELSE NoTrigger

\* A handler that fails between its commit and the trigger never calls it.
FailBeforeTrigger(r) == r \in owes /\ owes' = owes \ {r} /\ UNCHANGED <<floor, run, quiet>>

(***************************************************************************)
(* The trigger.                                                            *)
(***************************************************************************)
Trigger(r) ==
  /\ r \in owes
  /\ owes' = owes \ {r}
  /\ run' = IF run.at = "none" THEN NewPass ELSE [run EXCEPT !.again = TRUE]
  /\ UNCHANGED <<floor, quiet>>

PassEndForgets ==
  /\ run.at = "over"
  /\ run' = NoRun
  /\ UNCHANGED <<floor, owes, quiet>>
PassEnd ==
  /\ run.at = "over"
  /\ run' = IF run.again THEN NewPass ELSE NoRun
  /\ UNCHANGED <<floor, owes, quiet>>

(***************************************************************************)
(* The pass.                                                               *)
(***************************************************************************)
ReadSetting ==
  /\ run.at = "setting"
  /\ run' = [run EXCEPT !.at = IF enabled THEN "entries" ELSE "over"]
  /\ quiet' = FALSE
  /\ UNCHANGED <<floor, owes>>

ReadEntries ==
  LET waiting == {e \in Entry : status[e] = "WAITING"} IN
  /\ run.at = "entries"
  /\ run' = [run EXCEPT !.at = IF waiting = {} THEN "over" ELSE "floor", !.todo = waiting]
  /\ quiet' = TRUE
  /\ UNCHANGED <<floor, owes>>

ReadFloor ==
  /\ run.at = "floor"
  /\ run' = [run EXCEPT !.at = "plan", !.staff = onDuty \ BusyStaff(None),
                        !.chairs = Chair \ (local \cup BusyChairs(None))]
  /\ UNCHANGED <<floor, owes, quiet>>

Latest(e, S) == e \in S /\ \A f \in S : f <= e
Earliest(e, S) == e \in S /\ \A f \in S : e <= f

\* The barbers the plan may take for the entry: each is looked up again as the plan is made.
Candidates(e) == {s \in Suits[e] \cap run.staff : StaffFree(s, e)}

PlanStopsAtUnmatched(e) ==
  /\ run.at = "plan" /\ Earliest(e, run.todo)
  /\ \/ /\ run.chairs = {} \/ Candidates(e) = {}
        /\ run' = [run EXCEPT !.todo = {}]
     \/ \E s \in Candidates(e), c \in run.chairs :
          run' = [run EXCEPT !.todo = @ \ {e}, !.staff = @ \ {s}, !.chairs = @ \ {c},
                             !.plan = @ \cup {<<e, s, c>>}]
  /\ UNCHANGED <<floor, owes, quiet>>
\* Who is chosen among equally eligible barbers, and the chairs' labels, are left open.
PlanEntry(e) ==
  /\ run.at = "plan" /\ Earliest(e, run.todo)
  /\ \/ /\ run.chairs = {} \/ Candidates(e) = {}
        /\ run' = [run EXCEPT !.todo = @ \ {e}]
     \/ \E s \in Candidates(e), c \in run.chairs :
          run' = [run EXCEPT !.todo = @ \ {e}, !.staff = @ \ {s}, !.chairs = @ \ {c},
                             !.plan = @ \cup {<<e, s, c>>}]
  /\ UNCHANGED <<floor, owes, quiet>>

PlanDone ==
  /\ run.at = "plan" /\ run.todo = {}
  /\ run' = [run EXCEPT !.at = IF run.plan = {} THEN "over" ELSE "seat", !.staff = {}, !.chairs = {}]
  /\ UNCHANGED <<floor, owes, quiet>>

\* The loop over the plan is at assignment t, and goes on after it.
Turn(t) == run.at = "seat" /\ Earliest(t[1], {u[1] : u \in run.plan})
AfterTurn(t, seated) ==
  [run EXCEPT !.at = IF run.plan = {t} THEN "over" ELSE "seat", !.plan = @ \ {t}, !.assigned = @ \cup seated]

SeatPlanned(t) ==
  /\ Turn(t)
  /\ Seatable(t[1], t[2], t[3])
  /\ Seat(t[1], t[2], t[3], "IN_SERVICE")
  /\ run' = AfterTurn(t, {t[1]})
  /\ UNCHANGED <<owes, quiet>>

\* One of CONFLICT_CODES: the customer stays as they are and the pass goes on.
SeatRefused(t) ==
  /\ Turn(t)
  /\ t[2] \in onDuty /\ ~Seatable(t[1], t[2], t[3])
  /\ run' = AfterTurn(t, {})
  /\ UNCHANGED <<floor, owes, quiet>>

\* STAFF_NOT_QUALIFIED, which a barber off duty meets, is not one of them: the pass is abandoned.
SeatAbandons(t) ==
  /\ Turn(t)
  /\ t[2] \notin onDuty
  /\ run' = [run EXCEPT !.at = "over", !.plan = {}]
  /\ UNCHANGED <<floor, owes, quiet>>

\* Any other error at any point, logged by the trigger.
PassFails ==
  /\ run.at \notin {"none", "over"}
  /\ run' = [NoRun EXCEPT !.at = "over", !.again = run.again]
  /\ quiet' = FALSE
  /\ UNCHANGED <<floor, owes>>

PassStep ==
  \/ ReadSetting \/ ReadEntries \/ ReadFloor \/ PlanDone \/ PassEnd
  \/ \E e \in Entry : PlanEntry(e)
  \/ \E t \in run.plan : SeatPlanned(t) \/ SeatRefused(t) \/ SeatAbandons(t)

HandlerStep ==
  \/ \E r \in Request, e \in Entry : Arrive(r, e) \/ Finish(r, e)
  \/ \E e \in Entry, s \in Staff, c \in Chair : AssignByHand(e, s, c)
  \/ \E e \in Entry : SweepUnassigned(e) \/ StartAssigned(e)
  \/ \E r \in Request, s \in Staff : ClockIn(r, s) \/ ClockOut(r, s)
  \/ \E s \in Staff : Reserve(s)
  \/ \E r \in Request, c \in Chair : ChangeLocal(r, c)
  \/ \E r \in Request : SetEnabled(r) \/ FailBeforeTrigger(r) \/ Trigger(r)

Next == PassStep \/ PassFails \/ HandlerStep

Spec == Init /\ [][Next]_vars

\* A pass goes on: each of its awaits is a database call that answers or fails.
FairSpec == Spec /\ WF_vars(PassStep)

(***************************************************************************)
(* Properties.                                                             *)
(***************************************************************************)
\* The rows and the pass's locals keep their types, and whoever is engaged has a barber and a chair.
TypeOK ==
  /\ status \in [Entry -> Phase]
  /\ staffOf \in [Entry -> Staff \cup {None}] /\ chairOf \in [Entry -> Chair \cup {None}]
  /\ \A e \in Entry : Engaged(e) => staffOf[e] \in Staff /\ chairOf[e] \in Chair
  /\ onDuty \subseteq Staff /\ booked \subseteq Staff /\ local \subseteq Chair
  /\ enabled \in BOOLEAN /\ owes \subseteq Request /\ run \in Run /\ quiet \in BOOLEAN

\* "an entry that cannot be matched never blocks a later one that can": a pass in which nothing else
\* changed leaves no customer waiting whom a barber and a chair could have served.
PassLeavesNobody ==
  run.at = "over" /\ quiet =>
    \A e \in Entry : status[e] = "WAITING" => \A s \in Suits[e], c \in Chair : ~Seatable(e, s, c)

\* "FIFO by join time": a pass in which nothing else changed seats nobody with a barber who suits
\* a customer who came earlier and still waits.
NobodyOvertaken ==
  run.at = "over" /\ quiet =>
    \A e \in Entry, f \in run.assigned : status[e] = "WAITING" /\ e < f => staffOf[f] \notin Suits[e]

\* A change that calls the trigger during a pass is looked at by a pass that starts after it.
FollowUpPass == run.again ~> run.at = "setting"

Barber == [e \in Entry |-> IF status[e] = "IN_SERVICE" THEN staffOf[e] ELSE None]
Place == [e \in Entry |-> IF status[e] = "IN_SERVICE" THEN chairOf[e] ELSE None]
Floor == INSTANCE ServiceFloor WITH
           seated <- {e \in Entry : status[e] = "IN_SERVICE"}, served <- {e \in Entry : status[e] = "SERVED"},
           barber <- Barber, place <- Place, local <- local

\* However the passes and the handlers interleave, and however stale a plan is, the seating keeps
\* the shop floor: one barber, one chair, one customer.
ImplementsFloor == Floor!Spec
=============================================================================
