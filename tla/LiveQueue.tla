----------------------------- MODULE LiveQueue -----------------------------
(***************************************************************************)
(* The Live Queue of one salon: the queue entries, the barber and chair    *)
(* reserved for or serving each of them, the service sessions, the chairs  *)
(* taken by local customers, and the barbers and chairs that may be used.  *)
(*                                                                         *)
(* All of this is rows of one PostgreSQL database that HTTP handlers read  *)
(* and write concurrently.  A handler whose checks run before the          *)
(* transaction that writes is two actions here: XxxRead keeps in req[r]    *)
(* what the handler saw, XxxCommit is its transaction.  A transaction is   *)
(* one step: those that seat somebody hold the salon's advisory lock and   *)
(* the chair's, every other writes with a conditional UPDATE.  A handler   *)
(* whose conditional UPDATE repeats all of its earlier checks is a single  *)
(* action.  Refuse(r) ends a request at any point without a further write: *)
(* an early return on data this module leaves out (permissions, services,  *)
(* appointment windows of Bookings), a failed transaction, a crash of the  *)
(* server.                                                                 *)
(***************************************************************************)
EXTENDS FiniteSets

CONSTANTS Entry,    \* QueueEntry ids, of the visits that may join
          Staff,    \* SalonStaff ids
          Chair,    \* Chair ids
          Request,  \* the HTTP requests that may be in flight together
          None      \* SQL NULL

ASSUME NoneAssumption == None \notin Entry \cup Staff \cup Chair

VARIABLES
  status,     \* QueueEntry.status; "ABSENT" before the row exists
  staffOf,    \* QueueEntry.assignedStaffId
  chairOf,    \* QueueEntry.assignedChairId
  arrived,    \* whether QueueEntry.arrivedAt is set
  session,    \* the entry's ServiceSession
  local,      \* the chairs with an open ManualChairOccupancy
  onDuty,     \* SalonStaff.status = ACTIVE
  revoked,    \* whether SalonStaff.accessRevokedAt is set
  usable,     \* Chair.status = ACTIVE
  req         \* what each request in flight has read and is about to do

rows == <<status, staffOf, chairOf, arrived, session>>
shop == <<local, onDuty, revoked, usable>>
vars == <<status, staffOf, chairOf, arrived, session, local, onDuty, revoked, usable, req>>

Status == {"ABSENT", "WAITING", "CALLED", "IN_SERVICE", "COMPLETED", "CANCELLED", "NO_SHOW", "EXPIRED"}
Unstarted == {"WAITING", "CALLED"}

Op == {"idle", "assign", "start", "reassign", "complete", "noShow", "clockIn", "revoke", "release", "rows"}

Session == [status : {"NONE", "ACTIVE", "COMPLETED", "CANCELLED"},
            staff : Staff \cup {None}, chair : Chair \cup {None}]

(* entry, staff, chair: the row the request is about, as it was read;     *)
(* toStaff, toChair: where the caller wants the visit; flag: startService *)
(* of an assign, "the entry was WAITING" of a no-show; held: the rows a   *)
(* release has listed and not yet handled, each with the barber listed.   *)
Req == [op : Op, entry : Entry \cup {None}, staff : Staff \cup {None}, chair : Chair \cup {None},
        toStaff : Staff \cup {None}, toChair : Chair \cup {None}, flag : BOOLEAN,
        held : SUBSET (Entry \X Staff)]

NoSession == [status |-> "NONE", staff |-> None, chair |-> None]
Idle == [op |-> "idle", entry |-> None, staff |-> None, chair |-> None,
         toStaff |-> None, toChair |-> None, flag |-> FALSE, held |-> {}]

Init ==
  /\ status = [e \in Entry |-> "ABSENT"]
  /\ staffOf = [e \in Entry |-> None]
  /\ chairOf = [e \in Entry |-> None]
  /\ arrived = [e \in Entry |-> FALSE]
  /\ session = [e \in Entry |-> NoSession]
  /\ local = {}
  /\ onDuty = [s \in Staff |-> TRUE]
  /\ revoked = [s \in Staff |-> FALSE]
  /\ usable = [c \in Chair |-> TRUE]
  /\ req = [r \in Request |-> Idle]

Active(e) == session[e].status = "ACTIVE"
\* ASSIGNED: called to a reserved barber and chair, the service not started.
Held(e) == status[e] = "CALLED" /\ staffOf[e] # None

(***************************************************************************)
(* Joining and the single-step transitions of an entry.                    *)
(***************************************************************************)
\* A check-in or an operator's entry is arrived from the start, a walk-in join is not.
Join(e) ==
  /\ status[e] = "ABSENT"
  /\ status' = [status EXCEPT ![e] = "WAITING"]
  /\ \E here \in BOOLEAN : arrived' = [arrived EXCEPT ![e] = here]
  /\ UNCHANGED <<staffOf, chairOf, session, shop, req>>

Move(e, from, to) ==
  /\ status[e] \in from
  /\ status' = [status EXCEPT ![e] = to]
  /\ UNCHANGED <<staffOf, chairOf, arrived, shop, req>>

Call(e) == Move(e, {"WAITING"}, "CALLED") /\ UNCHANGED session

MarkArrived(e) ==
  /\ status[e] \in Unstarted /\ ~arrived[e]
  /\ arrived' = [arrived EXCEPT ![e] = TRUE]
  /\ UNCHANGED <<status, staffOf, chairOf, session, shop, req>>

\* By the customer, the guest, or the cancellation of the booking the entry came from.
CancelUnstarted(e) == Move(e, Unstarted, "CANCELLED") /\ UNCHANGED session

CancelByStaffNoCascade(e) == Move(e, Unstarted \cup {"IN_SERVICE"}, "CANCELLED") /\ UNCHANGED session
CancelByStaff(e) ==
  /\ Move(e, Unstarted \cup {"IN_SERVICE"}, "CANCELLED")
  /\ session' = IF Active(e) THEN [session EXCEPT ![e].status = "CANCELLED"] ELSE session

\* The sweep: a called customer without a barber who does not respond, a waiting one at closing
\* time, an assignment left over at the end of its day.  The clock is left open.
OverdueNoShow(e) == staffOf[e] = None /\ Move(e, {"CALLED"}, "NO_SHOW") /\ UNCHANGED session
ExpireWaiting(e) == Move(e, {"WAITING"}, "EXPIRED") /\ UNCHANGED session
ExpireAssigned(e) == Held(e) /\ Move(e, {"CALLED"}, "EXPIRED") /\ UNCHANGED session

(***************************************************************************)
(* Requests: what a handler reads first, and its end.                      *)
(***************************************************************************)
Begin(r, q) ==
  /\ req[r] = Idle
  /\ req' = [req EXCEPT ![r] = q]

End(r) == req' = [req EXCEPT ![r] = Idle]

Refuse(r) == req[r] # Idle /\ End(r) /\ UNCHANGED <<rows, shop>>

(***************************************************************************)
(* Assigning a barber and a chair, with or without starting the service.   *)
(***************************************************************************)
\* No other customer is served by the barber or assigned to them.
StaffFreeOfSessions(s, e) == \A f \in Entry \ {e} : ~(Active(f) /\ session[f].staff = s)
StaffFree(s, e) ==
  /\ StaffFreeOfSessions(s, e)
  /\ \A f \in Entry \ {e} : ~(status[f] = "CALLED" /\ staffOf[f] = s)

\* The partial unique indexes on ACTIVE sessions, for the row of entry e.
SessionUniqueBarber(e, s, c) == \A f \in Entry \ {e} : Active(f) => session[f].staff # s
SessionUnique(e, s, c) ==
  \A f \in Entry \ {e} : Active(f) => session[f].staff # s /\ session[f].chair # c

OpenSession(e, s, c) ==
  /\ SessionUnique(e, s, c)
  /\ session' = [session EXCEPT ![e] = [status |-> "ACTIVE", staff |-> s, chair |-> c]]

AssignRead(r, e, s, c, startNow) ==
  /\ status[e] # "ABSENT"
  /\ onDuty[s] /\ usable[c]
  /\ Begin(r, [Idle EXCEPT !.op = "assign", !.entry = e, !.toStaff = s, !.toChair = c, !.flag = startNow])
  /\ UNCHANGED <<rows, shop>>

\* No other customer is assigned to the chair (a session in progress does not count).
ChairUnheld(c, e) == \A f \in Entry \ {e} : ~(status[f] = "CALLED" /\ chairOf[f] = c)

\* The partial unique indexes on CALLED entries.
HoldUnique(e, s, c) ==
  \A f \in Entry \ {e} : status[f] = "CALLED" => staffOf[f] # s /\ chairOf[f] # c

AssignCommit(r) ==
  LET q == req[r]  e == q.entry  s == q.toStaff  c == q.toChair IN
  /\ q.op = "assign"
  /\ c \notin local
  /\ StaffFree(s, e)
  /\ ChairUnheld(c, e)
  /\ status[e] \in Unstarted
  /\ staffOf' = [staffOf EXCEPT ![e] = s]
  /\ chairOf' = [chairOf EXCEPT ![e] = c]
  /\ \/ /\ q.flag
        /\ status' = [status EXCEPT ![e] = "IN_SERVICE"]
        /\ arrived' = [arrived EXCEPT ![e] = TRUE]
        /\ OpenSession(e, s, c)
     \/ /\ ~q.flag
        /\ HoldUnique(e, s, c)
        /\ status' = [status EXCEPT ![e] = "CALLED"]
        /\ UNCHANGED <<arrived, session>>
  /\ End(r)
  /\ UNCHANGED shop

(***************************************************************************)
(* Starting an assigned service.                                           *)
(***************************************************************************)
StartRead(r, e) ==
  /\ Held(e) /\ chairOf[e] # None
  /\ onDuty[staffOf[e]] /\ ~revoked[staffOf[e]] /\ usable[chairOf[e]]
  /\ Begin(r, [Idle EXCEPT !.op = "start", !.entry = e, !.staff = staffOf[e], !.chair = chairOf[e]])
  /\ UNCHANGED <<rows, shop>>

StartCommit(r) ==
  LET q == req[r]  e == q.entry IN
  /\ q.op = "start"
  /\ q.chair \notin local
  /\ StaffFree(q.staff, e)
  /\ status[e] = "CALLED" /\ staffOf[e] = q.staff /\ chairOf[e] = q.chair
  /\ status' = [status EXCEPT ![e] = "IN_SERVICE"]
  /\ arrived' = [arrived EXCEPT ![e] = TRUE]
  /\ OpenSession(e, q.staff, q.chair)
  /\ End(r)
  /\ UNCHANGED <<staffOf, chairOf, shop>>

(***************************************************************************)
(* Moving a visit in service to another barber or chair.                   *)
(***************************************************************************)
ReassignRead(r, e, s, c) ==
  /\ status[e] = "IN_SERVICE" /\ Active(e)
  /\ onDuty[s] /\ usable[c]
  /\ s # session[e].staff \/ c # session[e].chair
  /\ Begin(r, [Idle EXCEPT !.op = "reassign", !.entry = e, !.staff = session[e].staff,
                           !.chair = session[e].chair, !.toStaff = s, !.toChair = c])
  /\ UNCHANGED <<rows, shop>>

ReassignCommit(r) ==
  LET q == req[r]  e == q.entry IN
  /\ q.op = "reassign"
  /\ q.toStaff # q.staff => StaffFree(q.toStaff, e)
  /\ q.toChair \notin local
  /\ session[e] = [status |-> "ACTIVE", staff |-> q.staff, chair |-> q.chair]
  /\ status[e] = "IN_SERVICE" /\ staffOf[e] = q.staff /\ chairOf[e] = q.chair
  /\ OpenSession(e, q.toStaff, q.toChair)
  /\ staffOf' = [staffOf EXCEPT ![e] = q.toStaff]
  /\ chairOf' = [chairOf EXCEPT ![e] = q.toChair]
  /\ End(r)
  /\ UNCHANGED <<status, arrived, shop>>

(***************************************************************************)
(* Completing a service, and marking a no-show by hand.                    *)
(***************************************************************************)
\* The owner may complete any service; a barber only the one read to be theirs (staff).
CompleteRead(r, e, byBarber) ==
  /\ session[e].status # "NONE"
  /\ Begin(r, [Idle EXCEPT !.op = "complete", !.entry = e,
                           !.staff = IF byBarber THEN session[e].staff ELSE None])
  /\ UNCHANGED <<rows, shop>>

CompleteUnclaimed(r) ==
  LET q == req[r]  e == q.entry IN
  /\ q.op = "complete"
  /\ session' = [session EXCEPT ![e].status = "COMPLETED"]
  /\ status' = [status EXCEPT ![e] = "COMPLETED"]
  /\ End(r)
  /\ UNCHANGED <<staffOf, chairOf, arrived, shop>>
CompleteCommit(r) ==
  LET q == req[r]  e == q.entry IN
  /\ q.op = "complete"
  /\ Active(e)
  /\ session' = [session EXCEPT ![e].status = "COMPLETED"]
  /\ status' = [status EXCEPT ![e] = "COMPLETED"]
  /\ End(r)
  /\ UNCHANGED <<staffOf, chairOf, arrived, shop>>

NoShowRead(r, e) ==
  /\ status[e] # "ABSENT"
  /\ Begin(r, [Idle EXCEPT !.op = "noShow", !.entry = e, !.flag = (status[e] = "WAITING")])
  /\ UNCHANGED <<rows, shop>>

NoShowCommit(r) ==
  LET q == req[r]  e == q.entry IN
  /\ q.op = "noShow"
  /\ status[e] \in Unstarted
  /\ q.flag => ~arrived[e]
  /\ status' = [status EXCEPT ![e] = "NO_SHOW"]
  /\ End(r)
  /\ UNCHANGED <<staffOf, chairOf, arrived, session, shop>>

(***************************************************************************)
(* Barbers and chairs leaving and coming back, and the release of the      *)
(* customers assigned to one that left.                                    *)
(***************************************************************************)
\* After the row is written the same request goes on to release the assignments.
ThenRelease(r, s, c) == req' = [req EXCEPT ![r] = [Idle EXCEPT !.op = "release", !.staff = s, !.chair = c]]

ClockOut(r, s) ==
  /\ req[r] = Idle
  /\ onDuty' = [onDuty EXCEPT ![s] = FALSE]
  /\ ThenRelease(r, s, None)
  /\ UNCHANGED <<rows, local, revoked, usable>>

ClockInRead(r, s) ==
  /\ ~revoked[s]
  /\ Begin(r, [Idle EXCEPT !.op = "clockIn", !.staff = s])
  /\ UNCHANGED <<rows, shop>>

ClockInCommit(r) ==
  /\ req[r].op = "clockIn"
  /\ onDuty' = [onDuty EXCEPT ![req[r].staff] = TRUE]
  /\ End(r)
  /\ UNCHANGED <<rows, local, revoked, usable>>

RevokeRead(r, s) ==
  /\ ~revoked[s]
  /\ \A e \in Entry : ~(Active(e) /\ session[e].staff = s)
  /\ Begin(r, [Idle EXCEPT !.op = "revoke", !.staff = s])
  /\ UNCHANGED <<rows, shop>>

RevokeCommit(r) ==
  LET s == req[r].staff IN
  /\ req[r].op = "revoke"
  /\ onDuty' = [onDuty EXCEPT ![s] = FALSE]
  /\ revoked' = [revoked EXCEPT ![s] = TRUE]
  /\ ThenRelease(r, s, None)
  /\ UNCHANGED <<rows, local, usable>>

Restore(s) ==
  /\ revoked[s]
  /\ revoked' = [revoked EXCEPT ![s] = FALSE]
  /\ UNCHANGED <<rows, local, onDuty, usable, req>>

DisableChair(r, c) ==
  /\ req[r] = Idle
  /\ usable' = [usable EXCEPT ![c] = FALSE]
  /\ ThenRelease(r, None, c)
  /\ UNCHANGED <<rows, local, onDuty, revoked>>

EnableChair(c) ==
  /\ ~usable[c]
  /\ usable' = [usable EXCEPT ![c] = TRUE]
  /\ UNCHANGED <<rows, local, onDuty, revoked, req>>

\* No conflict on the chair: session, local customer, assignment.
ChairClear(c) ==
  /\ c \notin local
  /\ \A e \in Entry : ~(Active(e) /\ session[e].chair = c) /\ ~(status[e] = "CALLED" /\ chairOf[e] = c)

BulkDeactivate(C) ==
  /\ \A c \in C : usable[c] /\ ChairClear(c)
  /\ usable' = [c \in Chair |-> usable[c] /\ c \notin C]
  /\ UNCHANGED <<rows, local, onDuty, revoked, req>>

ReleaseRead(r) ==
  LET q == req[r]
      mine == {e \in Entry : Held(e) /\ IF q.chair = None THEN staffOf[e] = q.staff ELSE chairOf[e] = q.chair} IN
  /\ q.op = "release"
  /\ req' = [req EXCEPT ![r] = [q EXCEPT !.op = "rows", !.held = {<<e, staffOf[e]>> : e \in mine}]]
  /\ UNCHANGED <<rows, shop>>

\* One listed row: a conditional claim, then back to waiting with arrival and place kept.
ReleaseUnclaimed(r) ==
  \E h \in req[r].held :
    /\ req[r].op = "rows"
    /\ req' = [req EXCEPT ![r].held = @ \ {h}]
    /\ status' = [status EXCEPT ![h[1]] = "WAITING"]
    /\ staffOf' = [staffOf EXCEPT ![h[1]] = None]
    /\ chairOf' = [chairOf EXCEPT ![h[1]] = None]
    /\ UNCHANGED <<arrived, session, shop>>
ReleaseRow(r) ==
  \E h \in req[r].held :
    /\ req[r].op = "rows"
    /\ req' = [req EXCEPT ![r].held = @ \ {h}]
    /\ \/ /\ status[h[1]] = "CALLED" /\ staffOf[h[1]] = h[2]
          /\ status' = [status EXCEPT ![h[1]] = "WAITING"]
          /\ staffOf' = [staffOf EXCEPT ![h[1]] = None]
          /\ chairOf' = [chairOf EXCEPT ![h[1]] = None]
       \/ /\ ~(status[h[1]] = "CALLED" /\ staffOf[h[1]] = h[2])
          /\ UNCHANGED <<status, staffOf, chairOf>>
    /\ UNCHANGED <<arrived, session, shop>>

ReleaseDone(r) ==
  /\ req[r].op = "rows" /\ req[r].held = {}
  /\ End(r)
  /\ UNCHANGED <<rows, shop>>

(***************************************************************************)
(* Local customers.                                                        *)
(***************************************************************************)
OccupyLocal(c) ==
  /\ usable[c] /\ ChairClear(c)
  /\ local' = local \cup {c}
  /\ UNCHANGED <<rows, onDuty, revoked, usable, req>>

FreeLocal(C) ==
  /\ C # {} /\ C \subseteq local
  /\ local' = local \ C
  /\ UNCHANGED <<rows, onDuty, revoked, usable, req>>

EntryStep(e) ==
  \/ Join(e) \/ Call(e) \/ MarkArrived(e) \/ CancelUnstarted(e) \/ CancelByStaff(e)
  \/ OverdueNoShow(e) \/ ExpireWaiting(e) \/ ExpireAssigned(e)

RequestStep(r) ==
  \/ \E e \in Entry, s \in Staff, c \in Chair, now \in BOOLEAN : AssignRead(r, e, s, c, now)
  \/ AssignCommit(r)
  \/ \E e \in Entry : StartRead(r, e)
  \/ StartCommit(r)
  \/ \E e \in Entry, s \in Staff, c \in Chair : ReassignRead(r, e, s, c)
  \/ ReassignCommit(r)
  \/ \E e \in Entry, byBarber \in BOOLEAN : CompleteRead(r, e, byBarber)
  \/ CompleteCommit(r)
  \/ \E e \in Entry : NoShowRead(r, e)
  \/ NoShowCommit(r)
  \/ \E s \in Staff : ClockOut(r, s) \/ ClockInRead(r, s) \/ RevokeRead(r, s)
  \/ ClockInCommit(r)
  \/ RevokeCommit(r)
  \/ \E c \in Chair : DisableChair(r, c)
  \/ ReleaseRead(r) \/ ReleaseRow(r) \/ ReleaseDone(r)
  \/ Refuse(r)

ShopStep ==
  \/ \E s \in Staff : Restore(s)
  \/ \E c \in Chair : EnableChair(c) \/ OccupyLocal(c)
  \/ \E C \in (SUBSET Chair) \ {{}} : BulkDeactivate(C)
  \/ \E C \in {local} \cup {{c} : c \in local} : FreeLocal(C)

Next == \/ \E e \in Entry : EntryStep(e)
        \/ \E r \in Request : RequestStep(r)
        \/ ShopStep

Spec == Init /\ [][Next]_vars

(***************************************************************************)
(* Properties.                                                             *)
(***************************************************************************)
\* Every variable holds a value of its column, every request one of its record.
TypeOK ==
  /\ status \in [Entry -> Status]
  /\ staffOf \in [Entry -> Staff \cup {None}]
  /\ chairOf \in [Entry -> Chair \cup {None}]
  /\ arrived \in [Entry -> BOOLEAN]
  /\ session \in [Entry -> Session]
  /\ local \in SUBSET Chair
  /\ onDuty \in [Staff -> BOOLEAN]
  /\ revoked \in [Staff -> BOOLEAN]
  /\ usable \in [Chair -> BOOLEAN]
  /\ req \in [Request -> Req]

\* An entry is IN_SERVICE exactly while its session is ACTIVE, and then the two rows name the same
\* barber and chair.  They are written by different statements of assign, startService, reassign,
\* completeSession and cancelByStaff, and completeSession writes the entry without a condition.
SessionMatchesEntry ==
  \A e \in Entry :
    /\ status[e] = "IN_SERVICE" <=> Active(e)
    /\ Active(e) => session[e].staff = staffOf[e] /\ session[e].chair = chairOf[e]

\* The visit needs its barber: assigned to them or in service.
Engaged(e) == Held(e) \/ status[e] = "IN_SERVICE"

\* A barber has one customer at a time, whether assigned or in service.  No index spans the two
\* tables: only the salon lock and isStaffFreeForInterval keep an assignment and a session apart.
BarberHasOneCustomer ==
  \A e, f \in Entry : e # f /\ Engaged(e) /\ Engaged(f) => staffOf[e] # staffOf[f]

\* A chair taken by a local customer is neither assigned nor in use: occupyLocal and the queue's
\* transactions look at each other's rows under the chair's advisory lock.
LocalChairIsFree == \A e \in Entry : Engaged(e) => chairOf[e] \notin local

\* Two customers are never in service in one chair, and never assigned to one chair.
ChairHasOneCustomer ==
  \A e, f \in Entry : e # f /\ Engaged(e) /\ Engaged(f) /\ status[e] = status[f] => chairOf[e] # chairOf[f]

\* No barber and no chair has two customers, although who is assigned, who is served and who walked
\* in are rows of three tables.
NothingShared == BarberHasOneCustomer /\ LocalChairIsFree /\ ChairHasOneCustomer

\* A waiting customer has no barber or chair, and an assigned or served one has both: Call would
\* otherwise turn a forgotten assignment into a live one.
AssignmentIsWhole ==
  \A e \in Entry :
    /\ status[e] \in {"ABSENT", "WAITING"} => staffOf[e] = None
    /\ staffOf[e] = None <=> chairOf[e] = None
    /\ status[e] = "IN_SERVICE" => staffOf[e] # None

\* The edges of the queue entry's life, as the handlers take them.
Edge ==
  [ABSENT |-> {"WAITING"},
   WAITING |-> {"CALLED", "IN_SERVICE", "CANCELLED", "NO_SHOW", "EXPIRED"},
   CALLED |-> {"WAITING", "IN_SERVICE", "CANCELLED", "NO_SHOW", "EXPIRED"},
   IN_SERVICE |-> {"COMPLETED", "CANCELLED"},
   COMPLETED |-> {}, CANCELLED |-> {}, NO_SHOW |-> {}, EXPIRED |-> {}]

\* A finished visit is never reopened or finished a second way and a service in progress is only
\* completed or cancelled by the shop, whatever stale request, release or sweep commits late.
FollowsLifecycle ==
  [][\A e \in Entry : status'[e] \in {status[e]} \cup Edge[status[e]]]_vars

\* The record of a finished service is history: no stale completion, reassignment or cancellation
\* rewrites how it ended, who performed it or in which chair.
ServiceRecordIsFinal ==
  [][\A e \in Entry : session[e].status \in {"COMPLETED", "CANCELLED"} => session'[e] = session[e]]_vars

\* The floor the queue's rows show: who sits where, and who has been.
Seated == {e \in Entry : Active(e)}
Served == {e \in Entry : session[e].status \in {"COMPLETED", "CANCELLED"}}
BarberOf == [e \in Entry |-> IF Active(e) THEN session[e].staff ELSE None]
PlaceOf == [e \in Entry |-> IF Active(e) THEN session[e].chair ELSE None]

Floor == INSTANCE ServiceFloor WITH
  seated <- Seated, served <- Served, barber <- BarberOf, place <- PlaceOf

\* Every step of the queue is a step of the shop floor or leaves the floor as it is: a customer is
\* seated at most once, by one barber, in one chair, neither shared, and leaves for good.
ImplementsFloor == Floor!Spec
=============================================================================
