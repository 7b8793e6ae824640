-------------------------- MODULE LiveQueueProofs --------------------------
(***************************************************************************)
(* Proofs about LiveQueue, for any number of customers, barbers, chairs    *)
(* and requests in flight.                                                 *)
(***************************************************************************)
EXTENDS LiveQueue, TLAPS

\* What a request in flight has filled in, by its kind.
ReqFilled ==
  \A r \in Request :
    LET q == req[r] IN
    /\ q.op \in {"assign", "start", "reassign", "complete", "noShow"} => q.entry \in Entry
    /\ q.op \in {"start", "reassign"} => q.staff \in Staff /\ q.chair \in Chair
    /\ q.op \in {"assign", "reassign"} => q.toStaff \in Staff /\ q.toChair \in Chair
    /\ q.op \in {"clockIn", "revoke"} => q.staff \in Staff

\* The inductive invariant.  The exclusivity of barbers and chairs speaks of entries, the handlers
\* check sessions: SessionMatchesEntry joins the two, and AssignmentIsWhole keeps a call, which
\* looks at the status alone, from reviving an assignment.
Safety ==
  /\ SessionMatchesEntry
  /\ BarberHasOneCustomer
  /\ LocalChairIsFree
  /\ ChairHasOneCustomer
  /\ AssignmentIsWhole

Inv == TypeOK /\ ReqFilled /\ Safety

\* Before anybody has joined, the invariant holds.
THEOREM InitInv == Init => Inv
<1> SUFFICES ASSUME Init PROVE Inv
  OBVIOUS
<1>1. TypeOK
  BY DEF Init, TypeOK, NoSession, Session, Status, Req, Idle, Op
<1>2. ReqFilled
  BY DEF Init, ReqFilled, Idle
<1>3. Safety
  BY DEF Init, Safety, SessionMatchesEntry, BarberHasOneCustomer, LocalChairIsFree, ChairHasOneCustomer,
         AssignmentIsWhole, Engaged, Held, Active, NoSession
<1> QED BY <1>1, <1>2, <1>3 DEF Inv

(***************************************************************************)
(* Steps that only read the rows, or that change who is on duty: they can  *)
(* disturb nothing but the requests.                                       *)
(***************************************************************************)
\* A step that leaves the rows, the local customers and the request records' validity alone keeps
\* Safety: the read of every handler.
LEMMA ReadKeepsSafety ==
  ASSUME Safety, UNCHANGED rows, UNCHANGED local PROVE Safety'
BY DEF Safety, SessionMatchesEntry, BarberHasOneCustomer, LocalChairIsFree, ChairHasOneCustomer,
       AssignmentIsWhole, Engaged, Held, Active, rows

\* A request takes up a record of its type.
LEMMA BeginKeepsRequests ==
  ASSUME NEW r \in Request, NEW q \in Req, TypeOK, ReqFilled, req' = [req EXCEPT ![r] = q],
         q.op \in {"assign", "start", "reassign", "complete", "noShow"} => q.entry \in Entry,
         q.op \in {"start", "reassign"} => q.staff \in Staff /\ q.chair \in Chair,
         q.op \in {"assign", "reassign"} => q.toStaff \in Staff /\ q.toChair \in Chair,
         q.op \in {"clockIn", "revoke"} => q.staff \in Staff
  PROVE  req' \in [Request -> Req] /\ ReqFilled'
<1>1. req' \in [Request -> Req]
  BY DEF TypeOK
<1>2. \A x \in Request : req'[x] = IF x = r THEN q ELSE req[x]
  BY DEF TypeOK
<1>3. ReqFilled'
  BY <1>2 DEF ReqFilled
<1> QED BY <1>1, <1>3

\* The record of an idle request is of its type.
LEMMA IdleIsReq == Idle \in Req
BY DEF Idle, Req, Op

\* A request that ends leaves well-typed records.
LEMMA EndKeepsRequests ==
  ASSUME NEW r \in Request, TypeOK, ReqFilled, End(r)
  PROVE  req' \in [Request -> Req] /\ ReqFilled'
BY BeginKeepsRequests, IdleIsReq DEF End, Idle

(***************************************************************************)
(* The single-step transitions of an entry.                                *)
(***************************************************************************)

\* Joining the queue keeps the invariant.
LEMMA JoinInv == ASSUME Inv, NEW e \in Entry, Join(e) PROVE Inv'
<1> USE DEF Inv
<1>1. TypeOK'
  BY DEF TypeOK, Join, Status, Unstarted, shop, Session, Active
<1>2. ReqFilled'
  BY DEF ReqFilled, Join, shop
<1>3. Safety'
  BY DEF TypeOK, Join, Unstarted, shop, Session, Safety, SessionMatchesEntry, BarberHasOneCustomer,
     LocalChairIsFree, ChairHasOneCustomer,
         AssignmentIsWhole, Engaged, Held, Active
<1> QED BY <1>1, <1>2, <1>3

\* Calling a waiting customer keeps the invariant: there is no assignment left on the row.
LEMMA CallInv == ASSUME Inv, NEW e \in Entry, Call(e) PROVE Inv'
<1> USE DEF Inv
<1>1. TypeOK'
  BY DEF TypeOK, Call, Move, Status, Unstarted, shop, Session, Active
<1>2. ReqFilled'
  BY DEF ReqFilled, Call, Move, shop
<1>3. Safety'
  BY DEF TypeOK, Call, Move, Unstarted, shop, Session, Safety, SessionMatchesEntry, BarberHasOneCustomer,
     LocalChairIsFree, ChairHasOneCustomer,
         AssignmentIsWhole, Engaged, Held, Active
<1> QED BY <1>1, <1>2, <1>3

\* The customer's own cancellation keeps the invariant.
LEMMA CancelUnstartedInv == ASSUME Inv, NEW e \in Entry, CancelUnstarted(e) PROVE Inv'
<1> USE DEF Inv
<1>1. TypeOK'
  BY DEF TypeOK, CancelUnstarted, Move, Status, Unstarted, shop, Session, Active
<1>2. ReqFilled'
  BY DEF ReqFilled, CancelUnstarted, Move, shop
<1>3. Safety'
  BY DEF TypeOK, CancelUnstarted, Move, Unstarted, shop, Session, Safety, SessionMatchesEntry,
     BarberHasOneCustomer, LocalChairIsFree, ChairHasOneCustomer,
         AssignmentIsWhole, Engaged, Held, Active
<1> QED BY <1>1, <1>2, <1>3

\* The shop's cancellation keeps the invariant: the session is cancelled with the entry.
LEMMA CancelByStaffInv == ASSUME Inv, NEW e \in Entry, CancelByStaff(e) PROVE Inv'
<1> USE DEF Inv
<1>1. TypeOK'
  BY DEF TypeOK, CancelByStaff, Move, Status, Unstarted, shop, Session, Active
<1>2. ReqFilled'
  BY DEF ReqFilled, CancelByStaff, Move, shop
<1>3. Safety'
  BY DEF TypeOK, CancelByStaff, Move, Unstarted, shop, Session, Safety, SessionMatchesEntry,
     BarberHasOneCustomer, LocalChairIsFree, ChairHasOneCustomer,
         AssignmentIsWhole, Engaged, Held, Active
<1> QED BY <1>1, <1>2, <1>3

\* The sweep of called customers who did not come keeps the invariant.
LEMMA OverdueNoShowInv == ASSUME Inv, NEW e \in Entry, OverdueNoShow(e) PROVE Inv'
<1> USE DEF Inv
<1>1. TypeOK'
  BY DEF TypeOK, OverdueNoShow, Move, Status, Unstarted, shop, Session, Active
<1>2. ReqFilled'
  BY DEF ReqFilled, OverdueNoShow, Move, shop
<1>3. Safety'
  BY DEF TypeOK, OverdueNoShow, Move, Unstarted, shop, Session, Safety, SessionMatchesEntry,
     BarberHasOneCustomer, LocalChairIsFree, ChairHasOneCustomer,
         AssignmentIsWhole, Engaged, Held, Active
<1> QED BY <1>1, <1>2, <1>3

\* The sweep of waiting customers at closing time keeps the invariant.
LEMMA ExpireWaitingInv == ASSUME Inv, NEW e \in Entry, ExpireWaiting(e) PROVE Inv'
<1> USE DEF Inv
<1>1. TypeOK'
  BY DEF TypeOK, ExpireWaiting, Move, Status, Unstarted, shop, Session, Active
<1>2. ReqFilled'
  BY DEF ReqFilled, ExpireWaiting, Move, shop
<1>3. Safety'
  BY DEF TypeOK, ExpireWaiting, Move, Unstarted, shop, Session, Safety, SessionMatchesEntry,
     BarberHasOneCustomer, LocalChairIsFree, ChairHasOneCustomer,
         AssignmentIsWhole, Engaged, Held, Active
<1> QED BY <1>1, <1>2, <1>3

\* The sweep of left-over assignments keeps the invariant.
LEMMA ExpireAssignedInv == ASSUME Inv, NEW e \in Entry, ExpireAssigned(e) PROVE Inv'
<1> USE DEF Inv
<1>1. TypeOK'
  BY DEF TypeOK, ExpireAssigned, Move, Held, Status, Unstarted, shop, Session, Active
<1>2. ReqFilled'
  BY DEF ReqFilled, ExpireAssigned, Move, Held, shop
<1>3. Safety'
  BY DEF TypeOK, ExpireAssigned, Move, Held, Unstarted, shop, Session, Safety, SessionMatchesEntry,
     BarberHasOneCustomer, LocalChairIsFree, ChairHasOneCustomer,
         AssignmentIsWhole, Engaged, Held, Active
<1> QED BY <1>1, <1>2, <1>3

\* Recording an arrival keeps the invariant.
LEMMA MarkArrivedInv == ASSUME Inv, NEW e \in Entry, MarkArrived(e) PROVE Inv'
<1> USE DEF Inv
<1>1. TypeOK'
  BY DEF TypeOK, MarkArrived, Status, Unstarted, shop, Session, Active
<1>2. ReqFilled'
  BY DEF ReqFilled, MarkArrived, shop
<1>3. Safety'
  BY DEF TypeOK, MarkArrived, Unstarted, shop, Session, Safety, SessionMatchesEntry, BarberHasOneCustomer,
     LocalChairIsFree, ChairHasOneCustomer,
         AssignmentIsWhole, Engaged, Held, Active
<1> QED BY <1>1, <1>2, <1>3

(***************************************************************************)
(* The transactions.                                                       *)
(***************************************************************************)

\* assign keeps the invariant, whatever committed since its checks.
LEMMA AssignCommitInv == ASSUME Inv, NEW r \in Request, AssignCommit(r) PROVE Inv'
<1> USE DEF Inv
<1> DEFINE q == req[r]
           e == q.entry
<1>1. PICK x \in Request : x = r /\ End(x)
  BY DEF AssignCommit
<1>2. req' \in [Request -> Req] /\ ReqFilled'
  BY <1>1, EndKeepsRequests
<1>3. /\ q \in Req /\ e \in Entry
      /\ q.op \in {"start", "reassign"} => q.staff \in Staff /\ q.chair \in Chair
      /\ q.op \in {"assign", "reassign"} => q.toStaff \in Staff /\ q.toChair \in Chair
  BY DEF TypeOK, ReqFilled, AssignCommit
<1>4. TypeOK'
  <2>1. status' \in [Entry -> Status] /\ staffOf' \in [Entry -> Staff \cup {None}] /\ chairOf' \in [Entry -> Chair \cup {None}]
    BY <1>3 DEF TypeOK, AssignCommit, Status, shop
  <2>2. arrived' \in [Entry -> BOOLEAN]
    BY <1>3 DEF TypeOK, AssignCommit, shop
  <2>3. session' \in [Entry -> Session]
    BY <1>3 DEF TypeOK, AssignCommit, OpenSession, SessionUnique, StaffFree, StaffFreeOfSessions, ChairUnheld,
       Session, shop
  <2> QED BY <1>2, <2>1, <2>2, <2>3 DEF TypeOK, AssignCommit, shop
<1>5. SessionMatchesEntry'
  BY <1>3, NoneAssumption DEF TypeOK, AssignCommit, OpenSession, SessionUnique, StaffFree, StaffFreeOfSessions,
     ChairUnheld, Unstarted, Session, Safety, SessionMatchesEntry, BarberHasOneCustomer, LocalChairIsFree,
     ChairHasOneCustomer,
         AssignmentIsWhole, Engaged, Held, Active
<1>6. BarberHasOneCustomer' /\ LocalChairIsFree'
  BY <1>3, NoneAssumption DEF TypeOK, AssignCommit, OpenSession, SessionUnique, StaffFree, StaffFreeOfSessions,
     ChairUnheld, Unstarted, shop, Session, Safety, SessionMatchesEntry, BarberHasOneCustomer, LocalChairIsFree,
     ChairHasOneCustomer,
         AssignmentIsWhole, Engaged, Held, Active
<1>7. ChairHasOneCustomer' /\ AssignmentIsWhole'
  BY <1>3, NoneAssumption DEF TypeOK, AssignCommit, OpenSession, SessionUnique, StaffFree, StaffFreeOfSessions,
     ChairUnheld, Unstarted, Session, Safety, SessionMatchesEntry, BarberHasOneCustomer, LocalChairIsFree,
     ChairHasOneCustomer,
         AssignmentIsWhole, Engaged, Held, Active
<1> QED BY <1>2, <1>4, <1>5, <1>6, <1>7 DEF Safety

\* startService keeps the invariant, whatever committed since its validation.
LEMMA StartCommitInv == ASSUME Inv, NEW r \in Request, StartCommit(r) PROVE Inv'
<1> USE DEF Inv
<1> DEFINE q == req[r]
           e == q.entry
<1>1. PICK x \in Request : x = r /\ End(x)
  BY DEF StartCommit
<1>2. req' \in [Request -> Req] /\ ReqFilled'
  BY <1>1, EndKeepsRequests
<1>3. /\ q \in Req /\ e \in Entry
      /\ q.op \in {"start", "reassign"} => q.staff \in Staff /\ q.chair \in Chair
      /\ q.op \in {"assign", "reassign"} => q.toStaff \in Staff /\ q.toChair \in Chair
  BY DEF TypeOK, ReqFilled, StartCommit
<1>4. TypeOK'
  <2>1. status' \in [Entry -> Status] /\ staffOf' \in [Entry -> Staff \cup {None}] /\ chairOf' \in [Entry -> Chair \cup {None}]
    BY <1>3 DEF TypeOK, StartCommit, Status, shop
  <2>2. arrived' \in [Entry -> BOOLEAN]
    BY <1>3 DEF TypeOK, StartCommit, shop
  <2>3. session' \in [Entry -> Session]
    BY <1>3 DEF TypeOK, StartCommit, OpenSession, SessionUnique, StaffFree, StaffFreeOfSessions, Session, shop
  <2> QED BY <1>2, <2>1, <2>2, <2>3 DEF TypeOK, StartCommit, shop
<1>5. SessionMatchesEntry'
  BY <1>3, NoneAssumption DEF TypeOK, StartCommit, OpenSession, SessionUnique, StaffFree, StaffFreeOfSessions,
     Unstarted, Session, Safety, SessionMatchesEntry, BarberHasOneCustomer, LocalChairIsFree,
     ChairHasOneCustomer,
         AssignmentIsWhole, Engaged, Held, Active
<1>6. BarberHasOneCustomer' /\ LocalChairIsFree'
  BY <1>3, NoneAssumption DEF TypeOK, StartCommit, OpenSession, SessionUnique, StaffFree, StaffFreeOfSessions,
     Unstarted, shop, Session, Safety, SessionMatchesEntry, BarberHasOneCustomer, LocalChairIsFree,
     ChairHasOneCustomer,
         AssignmentIsWhole, Engaged, Held, Active
<1>7. ChairHasOneCustomer' /\ AssignmentIsWhole'
  BY <1>3, NoneAssumption DEF TypeOK, StartCommit, OpenSession, SessionUnique, StaffFree, StaffFreeOfSessions,
     Unstarted, Session, Safety, SessionMatchesEntry, BarberHasOneCustomer, LocalChairIsFree,
     ChairHasOneCustomer,
         AssignmentIsWhole, Engaged, Held, Active
<1> QED BY <1>2, <1>4, <1>5, <1>6, <1>7 DEF Safety

\* reassign keeps the invariant: the claim on the session makes the stale read harmless.
LEMMA ReassignCommitInv == ASSUME Inv, NEW r \in Request, ReassignCommit(r) PROVE Inv'
<1> USE DEF Inv
<1> DEFINE q == req[r]
           e == q.entry
<1>1. PICK x \in Request : x = r /\ End(x)
  BY DEF ReassignCommit
<1>2. req' \in [Request -> Req] /\ ReqFilled'
  BY <1>1, EndKeepsRequests
<1>3. /\ q \in Req /\ e \in Entry
      /\ q.op \in {"start", "reassign"} => q.staff \in Staff /\ q.chair \in Chair
      /\ q.op \in {"assign", "reassign"} => q.toStaff \in Staff /\ q.toChair \in Chair
  BY DEF TypeOK, ReqFilled, ReassignCommit
<1>4. TypeOK'
  <2>1. status' \in [Entry -> Status] /\ staffOf' \in [Entry -> Staff \cup {None}] /\ chairOf' \in [Entry -> Chair \cup {None}]
    BY <1>3 DEF TypeOK, ReassignCommit, Status, shop
  <2>2. arrived' \in [Entry -> BOOLEAN]
    BY <1>3 DEF TypeOK, ReassignCommit, shop
  <2>3. session' \in [Entry -> Session]
    BY <1>3 DEF TypeOK, ReassignCommit, OpenSession, SessionUnique, StaffFree, StaffFreeOfSessions, Session, shop
  <2> QED BY <1>2, <2>1, <2>2, <2>3 DEF TypeOK, ReassignCommit, shop
<1>5. SessionMatchesEntry'
  BY <1>3, NoneAssumption DEF TypeOK, ReassignCommit, OpenSession, SessionUnique, StaffFree,
     StaffFreeOfSessions, Unstarted, Session, Safety, SessionMatchesEntry, BarberHasOneCustomer,
     LocalChairIsFree, ChairHasOneCustomer,
         AssignmentIsWhole, Engaged, Held, Active
<1>6. BarberHasOneCustomer' /\ LocalChairIsFree'
  BY <1>3, NoneAssumption DEF TypeOK, ReassignCommit, OpenSession, SessionUnique, StaffFree,
     StaffFreeOfSessions, Unstarted, shop, Session, Safety, SessionMatchesEntry, BarberHasOneCustomer,
     LocalChairIsFree, ChairHasOneCustomer,
         AssignmentIsWhole, Engaged, Held, Active
<1>7. ChairHasOneCustomer' /\ AssignmentIsWhole'
  BY <1>3, NoneAssumption DEF TypeOK, ReassignCommit, OpenSession, SessionUnique, StaffFree,
     StaffFreeOfSessions, Unstarted, Session, Safety, SessionMatchesEntry, BarberHasOneCustomer,
     LocalChairIsFree, ChairHasOneCustomer,
         AssignmentIsWhole, Engaged, Held, Active
<1> QED BY <1>2, <1>4, <1>5, <1>6, <1>7 DEF Safety

\* completeSession keeps the invariant although it writes the entry unconditionally.
LEMMA CompleteCommitInv == ASSUME Inv, NEW r \in Request, CompleteCommit(r) PROVE Inv'
<1> USE DEF Inv
<1> DEFINE q == req[r]
           e == q.entry
<1>1. PICK x \in Request : x = r /\ End(x)
  BY DEF CompleteCommit
<1>2. req' \in [Request -> Req] /\ ReqFilled'
  BY <1>1, EndKeepsRequests
<1>3. /\ q \in Req /\ e \in Entry
      /\ q.op \in {"start", "reassign"} => q.staff \in Staff /\ q.chair \in Chair
      /\ q.op \in {"assign", "reassign"} => q.toStaff \in Staff /\ q.toChair \in Chair
  BY DEF TypeOK, ReqFilled, CompleteCommit
<1>4. TypeOK'
  <2>1. status' \in [Entry -> Status] /\ staffOf' \in [Entry -> Staff \cup {None}] /\ chairOf' \in [Entry -> Chair \cup {None}]
    BY <1>3 DEF TypeOK, CompleteCommit, Status, shop
  <2>2. arrived' \in [Entry -> BOOLEAN]
    BY <1>3 DEF TypeOK, CompleteCommit, shop
  <2>3. session' \in [Entry -> Session]
    BY <1>3, ZenonT(30) DEF TypeOK, CompleteCommit, Session, shop
  <2> QED BY <1>2, <2>1, <2>2, <2>3 DEF TypeOK, CompleteCommit, shop
<1>5. SessionMatchesEntry'
  BY <1>3, NoneAssumption DEF TypeOK, CompleteCommit, Unstarted, Session, Safety, SessionMatchesEntry,
     BarberHasOneCustomer, LocalChairIsFree, ChairHasOneCustomer,
         AssignmentIsWhole, Engaged, Held, Active
<1>6. BarberHasOneCustomer' /\ LocalChairIsFree'
  BY <1>3, NoneAssumption DEF TypeOK, CompleteCommit, Unstarted, shop, Session, Safety, SessionMatchesEntry,
     BarberHasOneCustomer, LocalChairIsFree, ChairHasOneCustomer,
         AssignmentIsWhole, Engaged, Held, Active
<1>7. ChairHasOneCustomer' /\ AssignmentIsWhole'
  BY <1>3, NoneAssumption DEF TypeOK, CompleteCommit, Unstarted, Session, Safety, SessionMatchesEntry,
     BarberHasOneCustomer, LocalChairIsFree, ChairHasOneCustomer,
         AssignmentIsWhole, Engaged, Held, Active
<1> QED BY <1>2, <1>4, <1>5, <1>6, <1>7 DEF Safety

\* A no-show recorded by hand keeps the invariant.
LEMMA NoShowCommitInv == ASSUME Inv, NEW r \in Request, NoShowCommit(r) PROVE Inv'
<1> USE DEF Inv
<1> DEFINE q == req[r]
           e == q.entry
<1>1. PICK x \in Request : x = r /\ End(x)
  BY DEF NoShowCommit
<1>2. req' \in [Request -> Req] /\ ReqFilled'
  BY <1>1, EndKeepsRequests
<1>3. /\ q \in Req /\ e \in Entry
      /\ q.op \in {"start", "reassign"} => q.staff \in Staff /\ q.chair \in Chair
      /\ q.op \in {"assign", "reassign"} => q.toStaff \in Staff /\ q.toChair \in Chair
  BY DEF TypeOK, ReqFilled, NoShowCommit
<1>4. TypeOK'
  <2>1. status' \in [Entry -> Status] /\ staffOf' \in [Entry -> Staff \cup {None}] /\ chairOf' \in [Entry -> Chair \cup {None}]
    BY <1>3 DEF TypeOK, NoShowCommit, Status, shop
  <2>2. arrived' \in [Entry -> BOOLEAN]
    BY <1>3 DEF TypeOK, NoShowCommit, shop
  <2>3. session' \in [Entry -> Session]
    BY <1>3 DEF TypeOK, NoShowCommit, Session, shop
  <2> QED BY <1>2, <2>1, <2>2, <2>3 DEF TypeOK, NoShowCommit, shop
<1>5. SessionMatchesEntry'
  BY <1>3, NoneAssumption DEF TypeOK, NoShowCommit, Unstarted, Session, Safety, SessionMatchesEntry,
     BarberHasOneCustomer, LocalChairIsFree, ChairHasOneCustomer,
         AssignmentIsWhole, Engaged, Held, Active
<1>6. BarberHasOneCustomer' /\ LocalChairIsFree'
  BY <1>3, NoneAssumption DEF TypeOK, NoShowCommit, Unstarted, shop, Session, Safety, SessionMatchesEntry,
     BarberHasOneCustomer, LocalChairIsFree, ChairHasOneCustomer,
         AssignmentIsWhole, Engaged, Held, Active
<1>7. ChairHasOneCustomer' /\ AssignmentIsWhole'
  BY <1>3, NoneAssumption DEF TypeOK, NoShowCommit, Unstarted, Session, Safety, SessionMatchesEntry,
     BarberHasOneCustomer, LocalChairIsFree, ChairHasOneCustomer,
         AssignmentIsWhole, Engaged, Held, Active
<1> QED BY <1>2, <1>4, <1>5, <1>6, <1>7 DEF Safety

\* Releasing one listed assignment keeps the invariant, claimed or skipped.
LEMMA ReleaseRowInv == ASSUME Inv, NEW r \in Request, ReleaseRow(r) PROVE Inv'
<1> USE DEF Inv
<1>1. PICK h \in req[r].held :
        /\ req' = [req EXCEPT ![r].held = @ \ {h}]
        /\ \/ /\ status[h[1]] = "CALLED" /\ staffOf[h[1]] = h[2]
              /\ status' = [status EXCEPT ![h[1]] = "WAITING"]
              /\ staffOf' = [staffOf EXCEPT ![h[1]] = None]
              /\ chairOf' = [chairOf EXCEPT ![h[1]] = None]
           \/ UNCHANGED <<status, staffOf, chairOf>>
        /\ UNCHANGED <<arrived, session, shop>>
  BY DEF ReleaseRow
<1>2. req[r].op = "rows"
  BY DEF ReleaseRow
<1> DEFINE q == [req[r] EXCEPT !.held = @ \ {h}]
<1>3. req[r] \in Req /\ h \in Entry \X Staff
  BY DEF TypeOK, Req
<1>4. q \in Req /\ q.op = "rows" /\ req' = [req EXCEPT ![r] = q]
  BY <1>1, <1>2, <1>3 DEF Req, TypeOK
<1>5. req' \in [Request -> Req] /\ ReqFilled'
  <2> HIDE DEF q
  <2> QED BY <1>4, BeginKeepsRequests
<1>6. PICK e \in Entry : h[1] = e
  BY <1>3
<1>7. TypeOK'
  BY <1>1, <1>5, <1>6 DEF TypeOK, Status, shop
<1>8. Safety'
  <2>1. CASE UNCHANGED <<status, staffOf, chairOf>>
    BY <2>1, <1>1, ReadKeepsSafety DEF rows, shop
  <2>2. CASE /\ status[e] = "CALLED"
             /\ status' = [status EXCEPT ![e] = "WAITING"]
             /\ staffOf' = [staffOf EXCEPT ![e] = None]
             /\ chairOf' = [chairOf EXCEPT ![e] = None]
    BY <2>2, <1>1 DEF TypeOK, shop, Session, Safety, SessionMatchesEntry, BarberHasOneCustomer,
       LocalChairIsFree, ChairHasOneCustomer,
         AssignmentIsWhole, Engaged, Held, Active
  <2> QED BY <1>1, <1>6, <2>1, <2>2
<1> QED BY <1>5, <1>7, <1>8

(***************************************************************************)
(* Local customers.                                                        *)
(***************************************************************************)
\* Seating a local customer keeps the invariant.
LEMMA OccupyLocalInv == ASSUME Inv, NEW c \in Chair, OccupyLocal(c) PROVE Inv'
<1> USE DEF Inv
<1>1. TypeOK' /\ ReqFilled'
  BY DEF TypeOK, ReqFilled, OccupyLocal, rows
<1>2. Safety'
  BY DEF TypeOK, OccupyLocal, ChairClear, rows, Safety, SessionMatchesEntry, BarberHasOneCustomer,
     LocalChairIsFree, ChairHasOneCustomer,
         AssignmentIsWhole, Engaged, Held, Active
<1> QED BY <1>1, <1>2

\* Freeing chairs of local customers keeps the invariant.
LEMMA FreeLocalInv == ASSUME Inv, NEW C, FreeLocal(C) PROVE Inv'
<1> USE DEF Inv
<1>1. TypeOK' /\ ReqFilled'
  BY DEF TypeOK, ReqFilled, FreeLocal, rows
<1>2. Safety'
  BY DEF TypeOK, FreeLocal, rows, Safety, SessionMatchesEntry, BarberHasOneCustomer, LocalChairIsFree,
     ChairHasOneCustomer,
         AssignmentIsWhole, Engaged, Held, Active
<1> QED BY <1>1, <1>2

(***************************************************************************)
(* What a handler reads, and the state of the shop.                        *)
(***************************************************************************)
\* Changes of duty, access and chairs alone keep the invariant: it speaks of none of them.
LEMMA ShopKeepsInv ==
  ASSUME Inv, UNCHANGED rows, UNCHANGED local, req' \in [Request -> Req], ReqFilled',
         onDuty' \in [Staff -> BOOLEAN], revoked' \in [Staff -> BOOLEAN], usable' \in [Chair -> BOOLEAN]
  PROVE  Inv'
<1>1. Safety'
  BY ReadKeepsSafety DEF Inv
<1>2. TypeOK'
  BY DEF Inv, TypeOK, rows
<1> QED BY <1>1, <1>2 DEF Inv

\* A step that only takes up or ends a request keeps the invariant.
LEMMA RequestOnlyInv ==
  ASSUME Inv, UNCHANGED <<rows, shop>>, req' \in [Request -> Req], ReqFilled'
  PROVE  Inv'
BY ShopKeepsInv DEF Inv, TypeOK, shop

\* The checks of assign keep the invariant.
LEMMA AssignReadInv ==
  ASSUME Inv, NEW r \in Request, NEW e \in Entry, NEW s \in Staff, NEW c \in Chair, NEW b \in BOOLEAN, AssignRead(r, e, s, c, b)
  PROVE  Inv'
<1> USE DEF Inv
<1> DEFINE q == [Idle EXCEPT !.op = "assign", !.entry = e, !.toStaff = s, !.toChair = c, !.flag = b]
<1>1. q \in Req /\ q.op = "assign" /\ q.entry = e /\ q.toStaff = s /\ q.toChair = c
  BY DEF Req, Idle, Op
<1>2. req' = [req EXCEPT ![r] = q] /\ UNCHANGED <<rows, shop>>
  BY DEF AssignRead, Begin
<1> HIDE DEF q
<1> QED BY <1>1, <1>2, BeginKeepsRequests, RequestOnlyInv

\* The validation of startService keeps the invariant.
LEMMA StartReadInv ==
  ASSUME Inv, NEW r \in Request, NEW e \in Entry, StartRead(r, e)
  PROVE  Inv'
<1> USE DEF Inv
<1> DEFINE q == [Idle EXCEPT !.op = "start", !.entry = e, !.staff = staffOf[e], !.chair = chairOf[e]]
<1>1. staffOf[e] \in Staff /\ chairOf[e] \in Chair
  BY DEF StartRead, Held, TypeOK
<1>2. q \in Req /\ q.op = "start" /\ q.entry = e /\ q.staff \in Staff /\ q.chair \in Chair
  BY <1>1 DEF Req, Idle, Op
<1>3. req' = [req EXCEPT ![r] = q] /\ UNCHANGED <<rows, shop>>
  BY DEF StartRead, Begin
<1> HIDE DEF q
<1> QED BY <1>2, <1>3, BeginKeepsRequests, RequestOnlyInv

\* The checks of reassign keep the invariant.
LEMMA ReassignReadInv ==
  ASSUME Inv, NEW r \in Request, NEW e \in Entry, NEW s \in Staff, NEW c \in Chair, ReassignRead(r, e, s, c)
  PROVE  Inv'
<1> USE DEF Inv
<1> DEFINE q == [Idle EXCEPT !.op = "reassign", !.entry = e, !.staff = session[e].staff,
                             !.chair = session[e].chair, !.toStaff = s, !.toChair = c]
<1>1. session[e].staff \in Staff /\ session[e].chair \in Chair
  BY NoneAssumption DEF ReassignRead, TypeOK, Session, Safety, SessionMatchesEntry, AssignmentIsWhole
<1>2. /\ q \in Req /\ q.op = "reassign" /\ q.entry = e /\ q.staff \in Staff /\ q.chair \in Chair
      /\ q.toStaff = s /\ q.toChair = c
  BY <1>1 DEF Req, Idle, Op
<1>3. req' = [req EXCEPT ![r] = q] /\ UNCHANGED <<rows, shop>>
  BY DEF ReassignRead, Begin
<1> HIDE DEF q
<1> QED BY <1>2, <1>3, BeginKeepsRequests, RequestOnlyInv

\* The checks of completeSession keep the invariant.
LEMMA CompleteReadInv ==
  ASSUME Inv, NEW r \in Request, NEW e \in Entry, NEW b \in BOOLEAN, CompleteRead(r, e, b)
  PROVE  Inv'
<1> USE DEF Inv
<1> DEFINE q == [Idle EXCEPT !.op = "complete", !.entry = e, !.staff = IF b THEN session[e].staff ELSE None]
<1>1. session[e].staff \in Staff \cup {None}
  BY DEF TypeOK, Session
<1>2. q \in Req /\ q.op = "complete" /\ q.entry = e
  BY <1>1 DEF Req, Idle, Op
<1>3. req' = [req EXCEPT ![r] = q] /\ UNCHANGED <<rows, shop>>
  BY DEF CompleteRead, Begin
<1> HIDE DEF q
<1> QED BY <1>2, <1>3, BeginKeepsRequests, RequestOnlyInv

\* The read of a no-show by hand keeps the invariant.
LEMMA NoShowReadInv ==
  ASSUME Inv, NEW r \in Request, NEW e \in Entry, NoShowRead(r, e)
  PROVE  Inv'
<1> USE DEF Inv
<1> DEFINE q == [Idle EXCEPT !.op = "noShow", !.entry = e, !.flag = (status[e] = "WAITING")]
<1>1. q \in Req /\ q.op = "noShow" /\ q.entry = e
  BY DEF Req, Idle, Op
<1>2. req' = [req EXCEPT ![r] = q] /\ UNCHANGED <<rows, shop>>
  BY DEF NoShowRead, Begin
<1> HIDE DEF q
<1> QED BY <1>1, <1>2, BeginKeepsRequests, RequestOnlyInv

\* The checks of a clock-in and of a revocation keep the invariant.
LEMMA StaffReadInv ==
  ASSUME Inv, NEW r \in Request, NEW s \in Staff, ClockInRead(r, s) \/ RevokeRead(r, s)
  PROVE  Inv'
<1> USE DEF Inv
<1>1. PICK o \in {"clockIn", "revoke"} : req' = [req EXCEPT ![r] = [Idle EXCEPT !.op = o, !.staff = s]]
  BY DEF ClockInRead, RevokeRead, Begin
<1> DEFINE q == [Idle EXCEPT !.op = o, !.staff = s]
<1>2. q \in Req /\ q.op = o /\ q.staff = s
  BY DEF Req, Idle, Op
<1>3. req' = [req EXCEPT ![r] = q] /\ UNCHANGED <<rows, shop>>
  BY <1>1 DEF ClockInRead, RevokeRead
<1> HIDE DEF q
<1> QED BY <1>2, <1>3, BeginKeepsRequests, RequestOnlyInv


\* A request that goes on to release assignments is of its type.
LEMMA ThenReleaseKeepsRequests ==
  ASSUME NEW r \in Request, NEW s \in Staff \cup {None}, NEW c \in Chair \cup {None}, TypeOK, ReqFilled,
         ThenRelease(r, s, c)
  PROVE  req' \in [Request -> Req] /\ ReqFilled'
<1> DEFINE q == [Idle EXCEPT !.op = "release", !.staff = s, !.chair = c]
<1>1. q \in Req /\ q.op = "release"
  BY DEF Req, Idle, Op
<1>2. req' = [req EXCEPT ![r] = q]
  BY DEF ThenRelease
<1> HIDE DEF q
<1> QED BY <1>1, <1>2, BeginKeepsRequests

\* A barber clocking out and a chair taken out of use keep the invariant.
LEMMA LeaveInv ==
  ASSUME Inv, NEW r \in Request, NEW s \in Staff \cup {None}, NEW c \in Chair \cup {None},
         (s \in Staff /\ ClockOut(r, s)) \/ (c \in Chair /\ DisableChair(r, c))
  PROVE  Inv'
<1> USE DEF Inv
<1>1. req' \in [Request -> Req] /\ ReqFilled'
  BY ThenReleaseKeepsRequests DEF ClockOut, DisableChair
<1>2. UNCHANGED rows /\ UNCHANGED local
  BY DEF ClockOut, DisableChair
<1>3. onDuty' \in [Staff -> BOOLEAN] /\ revoked' \in [Staff -> BOOLEAN] /\ usable' \in [Chair -> BOOLEAN]
  BY DEF ClockOut, DisableChair, TypeOK
<1> QED BY <1>1, <1>2, <1>3, ShopKeepsInv

\* The writes of a clock-in and of a revocation.
LEMMA DutyInv ==
  ASSUME Inv, NEW r \in Request, ClockInCommit(r) \/ RevokeCommit(r)
  PROVE  Inv'
<1> USE DEF Inv
<1>1. CASE ClockInCommit(r)
  <2>1. req' \in [Request -> Req] /\ ReqFilled'
    BY <1>1, EndKeepsRequests DEF ClockInCommit
  <2> QED BY <1>1, <2>1, ShopKeepsInv DEF ClockInCommit, TypeOK
<1>2. CASE RevokeCommit(r)
  <2>1. req[r].staff \in Staff
    BY <1>2 DEF RevokeCommit, ReqFilled
  <2>2. req' \in [Request -> Req] /\ ReqFilled'
    BY <1>2, <2>1, ThenReleaseKeepsRequests DEF RevokeCommit
  <2> QED BY <1>2, <2>2, ShopKeepsInv DEF RevokeCommit, TypeOK
<1> QED BY <1>1, <1>2

\* Listing the assignments to release keeps the invariant.
LEMMA ReleaseReadInv == ASSUME Inv, NEW r \in Request, ReleaseRead(r) PROVE Inv'
<1> USE DEF Inv
<1> DEFINE mine == {e \in Entry : Held(e) /\ IF req[r].chair = None THEN staffOf[e] = req[r].staff
                                                                  ELSE chairOf[e] = req[r].chair}
           q == [req[r] EXCEPT !.op = "rows", !.held = {<<e, staffOf[e]>> : e \in mine}]
<1>1. req[r] \in Req
  BY DEF TypeOK
<1>2. {<<e, staffOf[e]>> : e \in mine} \in SUBSET (Entry \X Staff)
  BY DEF TypeOK, Held
<1>3. q \in Req /\ q.op = "rows"
  <2> HIDE DEF mine
  <2> QED BY <1>1, <1>2 DEF Req, Op
<1>4. req' = [req EXCEPT ![r] = q] /\ UNCHANGED <<rows, shop>>
  BY DEF ReleaseRead
<1> HIDE DEF q
<1> QED BY <1>3, <1>4, BeginKeepsRequests, RequestOnlyInv

\* A refusal, a crash or the end of a release keeps the invariant.
LEMMA EndInv ==
  ASSUME Inv, NEW r \in Request, ReleaseDone(r) \/ Refuse(r)
  PROVE  Inv'
<1>1. req' \in [Request -> Req] /\ ReqFilled'
  BY EndKeepsRequests DEF Inv, ReleaseDone, Refuse
<1> QED BY <1>1, RequestOnlyInv DEF ReleaseDone, Refuse

\* The single-step changes of barbers, chairs and local customers keep the invariant.
LEMMA ShopInv ==
  ASSUME Inv,
         \/ \E s \in Staff : Restore(s)
         \/ \E c \in Chair : EnableChair(c)
         \/ \E C \in SUBSET Chair : BulkDeactivate(C)
  PROVE  Inv'
<1> USE DEF Inv
<1>1. req' \in [Request -> Req] /\ ReqFilled' /\ UNCHANGED rows /\ UNCHANGED local
  BY DEF TypeOK, ReqFilled, Restore, EnableChair, BulkDeactivate
<1>2. onDuty' \in [Staff -> BOOLEAN] /\ revoked' \in [Staff -> BOOLEAN] /\ usable' \in [Chair -> BOOLEAN]
  BY DEF TypeOK, Restore, EnableChair, BulkDeactivate
<1> QED BY <1>1, <1>2, ShopKeepsInv

(***************************************************************************)
(* Every step, and the theorems.                                           *)
(***************************************************************************)
\* A stuttering step keeps the invariant.
LEMMA StutterInv == ASSUME Inv, UNCHANGED vars PROVE Inv'
<1> USE DEF Inv
<1>1. UNCHANGED <<rows, shop>> /\ req' = req
  BY DEF vars, rows, shop
<1>2. req' \in [Request -> Req] /\ ReqFilled'
  BY <1>1 DEF TypeOK, ReqFilled
<1> QED BY <1>1, <1>2, RequestOnlyInv

\* The invariant is inductive.
THEOREM NextInv == Inv /\ [Next]_vars => Inv'
<1> SUFFICES ASSUME Inv, [Next]_vars PROVE Inv'
  OBVIOUS
<1>1. ASSUME NEW e \in Entry, EntryStep(e) PROVE Inv'
  BY <1>1, JoinInv, CallInv, MarkArrivedInv, CancelUnstartedInv, CancelByStaffInv, OverdueNoShowInv,
     ExpireWaitingInv, ExpireAssignedInv DEF EntryStep
<1>2. ASSUME NEW r \in Request, RequestStep(r) PROVE Inv'
  <2>1. CASE \/ \E e \in Entry, s \in Staff, c \in Chair, now \in BOOLEAN : AssignRead(r, e, s, c, now)
             \/ \E e \in Entry, s \in Staff, c \in Chair : ReassignRead(r, e, s, c)
             \/ \E e \in Entry, byBarber \in BOOLEAN : CompleteRead(r, e, byBarber)
             \/ \E e \in Entry : StartRead(r, e) \/ NoShowRead(r, e)
             \/ \E s \in Staff : ClockInRead(r, s) \/ RevokeRead(r, s)
    BY <2>1, AssignReadInv, ReassignReadInv, CompleteReadInv, StartReadInv, NoShowReadInv, StaffReadInv
  <2>2. CASE AssignCommit(r) \/ StartCommit(r) \/ ReassignCommit(r) \/ CompleteCommit(r) \/ NoShowCommit(r)
    BY <2>2, AssignCommitInv, StartCommitInv, ReassignCommitInv, CompleteCommitInv, NoShowCommitInv
  <2>3. CASE \E s \in Staff : ClockOut(r, s)
    BY <2>3, LeaveInv
  <2>4. CASE \E c \in Chair : DisableChair(r, c)
    BY <2>4, LeaveInv
  <2>5. CASE ClockInCommit(r) \/ RevokeCommit(r)
    BY <2>5, DutyInv
  <2>6. CASE ReleaseRead(r) \/ ReleaseRow(r) \/ ReleaseDone(r) \/ Refuse(r)
    BY <2>6, ReleaseReadInv, ReleaseRowInv, EndInv
  <2> QED BY <1>2, <2>1, <2>2, <2>3, <2>4, <2>5, <2>6 DEF RequestStep
<1>3. CASE ShopStep
  <2>1. CASE \E c \in Chair : OccupyLocal(c)
    BY <2>1, OccupyLocalInv
  <2>2. CASE \E C \in {local} \cup {{c} : c \in local} : FreeLocal(C)
    BY <2>2, FreeLocalInv
  <2> QED BY <1>3, <2>1, <2>2, ShopInv DEF ShopStep
<1>4. CASE UNCHANGED vars
  BY <1>4, StutterInv
<1> QED BY <1>1, <1>2, <1>3, <1>4 DEF Next

\* The inductive invariant holds in every state of every behaviour.
THEOREM AlwaysInv == Spec => []Inv
<1>1. Init => Inv
  BY InitInv
<1>2. Inv /\ [Next]_vars => Inv'
  BY NextInv
<1> QED BY <1>1, <1>2, PTL DEF Spec

\* Type correctness for any number of customers, barbers, chairs and requests.
THEOREM TypesCorrect == Spec => []TypeOK
<1>1. Inv => TypeOK
  BY DEF Inv
<1> QED BY <1>1, AlwaysInv, PTL

\* The status of an entry and its session always tell the same story.
THEOREM SessionsMatchEntries == Spec => []SessionMatchesEntry
<1>1. Inv => SessionMatchesEntry
  BY DEF Inv, Safety
<1> QED BY <1>1, AlwaysInv, PTL

\* A barber never has two customers, assigned or in service; a chair never has two, nor one beside a
\* local customer.
THEOREM NothingIsShared == Spec => []NothingShared
<1>1. Inv => NothingShared
  BY DEF Inv, Safety, NothingShared
<1> QED BY <1>1, AlwaysInv, PTL

\* A waiting customer has neither barber nor chair, a served one has both.
THEOREM AssignmentsAreWhole == Spec => []AssignmentIsWhole
<1>1. Inv => AssignmentIsWhole
  BY DEF Inv, Safety
<1> QED BY <1>1, AlwaysInv, PTL

(***************************************************************************)
(* What the steps may do to a visit, and that they are steps of            *)
(* ServiceFloor.                                                           *)
(***************************************************************************)
\* A visit that has not begun has no session row: assign and startService, which open one, find none.
Fresh == \A e \in Entry : status[e] \in {"ABSENT", "WAITING", "CALLED"} => session[e] = NoSession

\* A step changes the status of at most the entries its action names, along an edge.
LEMMA EntryStepFollows ==
  ASSUME TypeOK, NEW x \in Entry, EntryStep(x), NEW e \in Entry
  PROVE  status'[e] \in {status[e]} \cup Edge[status[e]]
BY DEF TypeOK, EntryStep, Join, Call, MarkArrived, CancelUnstarted, CancelByStaff, OverdueNoShow,
       ExpireWaiting, ExpireAssigned, Move, Held, Unstarted, Edge, Status

\* The same for the step of a request.
LEMMA RequestStepFollows ==
  ASSUME Inv, NEW r \in Request, RequestStep(r), NEW e \in Entry
  PROVE  status'[e] \in {status[e]} \cup Edge[status[e]]
<1> USE DEF Inv
<1>1. CASE AssignCommit(r) \/ StartCommit(r)
  BY <1>1 DEF TypeOK, AssignCommit, StartCommit, Unstarted, Edge, Status
<1>2. CASE CompleteCommit(r)
  BY <1>2 DEF TypeOK, CompleteCommit, Edge, Status, Safety, SessionMatchesEntry
<1>3. CASE NoShowCommit(r)
  BY <1>3 DEF TypeOK, NoShowCommit, Unstarted, Edge, Status
<1>4. CASE ReleaseRow(r)
  <2>1. CASE status' = status
    BY <2>1 
  <2>2. CASE \E h \in req[r].held : status[h[1]] = "CALLED" /\ status' = [status EXCEPT ![h[1]] = "WAITING"]
    BY <2>2 DEF TypeOK, Edge, Status
  <2> QED BY <1>4, <2>1, <2>2 DEF ReleaseRow
<1>5. CASE status' = status
  BY <1>5
<1>6. RequestStep(r) => \/ AssignCommit(r) \/ StartCommit(r) \/ CompleteCommit(r) \/ NoShowCommit(r)
                        \/ ReleaseRow(r) \/ status' = status
  BY DEF RequestStep, AssignRead, StartRead, ReassignRead, CompleteRead, NoShowRead, ReassignCommit, ClockOut,
         ClockInRead, RevokeRead, ClockInCommit, RevokeCommit, DisableChair, ReleaseRead, ReleaseDone, Refuse, rows
<1> QED BY <1>1, <1>2, <1>3, <1>4, <1>5, <1>6

\* A finished visit is never reopened, whatever commits late.
THEOREM LifecycleFollowed == Spec => FollowsLifecycle
<1>1. Inv /\ [Next]_vars => [\A e \in Entry : status'[e] \in {status[e]} \cup Edge[status[e]]]_vars
  <2> SUFFICES ASSUME Inv, Next, NEW e \in Entry PROVE status'[e] \in {status[e]} \cup Edge[status[e]]
    OBVIOUS
  <2>1. CASE \E x \in Entry : EntryStep(x)
    BY <2>1, EntryStepFollows DEF Inv
  <2>2. CASE \E r \in Request : RequestStep(r)
    BY <2>2, RequestStepFollows
  <2>3. CASE ShopStep
    BY <2>3 DEF ShopStep, Restore, EnableChair, OccupyLocal, BulkDeactivate, FreeLocal, rows
  <2> QED BY <2>1, <2>2, <2>3 DEF Next
<1> QED BY <1>1, AlwaysInv, PTL DEF Spec, FollowsLifecycle

(***************************************************************************)
(* One session for a visit.                                                *)
(***************************************************************************)
\* Fresh is kept by the steps of an entry.
LEMMA EntryStepFresh == ASSUME Inv, Fresh, NEW x \in Entry, EntryStep(x) PROVE Fresh'
BY DEF Inv, TypeOK, Fresh, EntryStep, Join, Call, MarkArrived, CancelUnstarted, CancelByStaff, OverdueNoShow,
       ExpireWaiting, ExpireAssigned, Move, Held, Unstarted, Status, shop

\* The request steps that write neither a status nor a session.
LEMMA QuietRequestStep ==
  ASSUME NEW r \in Request, RequestStep(r)
  PROVE  \/ AssignCommit(r) \/ StartCommit(r) \/ ReassignCommit(r) \/ CompleteCommit(r) \/ NoShowCommit(r)
         \/ ReleaseRow(r) \/ UNCHANGED <<rows, local>>
BY DEF RequestStep, AssignRead, StartRead, ReassignRead, CompleteRead, NoShowRead, ClockOut,
         ClockInRead, RevokeRead, ClockInCommit, RevokeCommit, DisableChair, ReleaseRead, ReleaseDone, Refuse, rows, shop

\* Fresh is kept by the steps of a request.
LEMMA RequestStepFresh == ASSUME Inv, Fresh, NEW r \in Request, RequestStep(r) PROVE Fresh'
<1> USE DEF Inv
<1>1. CASE AssignCommit(r) \/ StartCommit(r)
  <2>1. PICK e \in Entry : e = req[r].entry
    BY <1>1 DEF AssignCommit, StartCommit, ReqFilled
  <2>2. \/ status' = [status EXCEPT ![e] = "IN_SERVICE"] /\ (\E x : session' = [session EXCEPT ![e] = x])
        \/ status' = [status EXCEPT ![e] = "CALLED"] /\ session' = session /\ status[e] \in Unstarted
    BY <1>1, <2>1 DEF AssignCommit, StartCommit, OpenSession
  <2> QED BY <2>2 DEF TypeOK, Fresh, Unstarted
<1>2. CASE ReassignCommit(r)
  BY <1>2 DEF TypeOK, ReqFilled, Fresh, ReassignCommit, OpenSession
<1>3. CASE CompleteCommit(r) \/ NoShowCommit(r)
  BY <1>3 DEF TypeOK, ReqFilled, Fresh, CompleteCommit, NoShowCommit
<1>4. CASE ReleaseRow(r)
  <2>1. PICK h \in req[r].held : \/ status[h[1]] = "CALLED" /\ status' = [status EXCEPT ![h[1]] = "WAITING"]
                                 \/ status' = status
    BY <1>4 DEF ReleaseRow
  <2>2. session' = session
    BY <1>4 DEF ReleaseRow
  <2> QED BY <2>1, <2>2 DEF TypeOK, Fresh
<1>5. CASE UNCHANGED <<rows, local>>
  BY <1>5 DEF Fresh, rows
<1> QED BY <1>1, <1>2, <1>3, <1>4, <1>5, QuietRequestStep

\* Fresh holds in every state.
THEOREM AlwaysFresh == Spec => []Fresh
<1>1. Init => Fresh
  BY DEF Init, Fresh
<1>2. Inv /\ Fresh /\ [Next]_vars => Fresh'
  <2> SUFFICES ASSUME Inv, Fresh, [Next]_vars PROVE Fresh'
    OBVIOUS
  <2>1. CASE \E x \in Entry : EntryStep(x)
    BY <2>1, EntryStepFresh
  <2>2. CASE \E r \in Request : RequestStep(r)
    BY <2>2, RequestStepFresh
  <2>3. CASE ShopStep
    BY <2>3 DEF ShopStep, Restore, EnableChair, OccupyLocal, BulkDeactivate, FreeLocal, rows, Fresh
  <2>4. CASE UNCHANGED vars
    BY <2>4 DEF vars, Fresh
  <2> QED BY <2>1, <2>2, <2>3, <2>4 DEF Next
<1> QED BY <1>1, <1>2, AlwaysInv, PTL DEF Spec

\* A request does not touch the session of a finished service.
LEMMA RequestStepKeepsRecord ==
  ASSUME Inv, Fresh, NEW r \in Request, RequestStep(r), NEW e \in Entry,
         session[e].status \in {"COMPLETED", "CANCELLED"}
  PROVE  session'[e] = session[e]
<1> USE DEF Inv
<1>1. ~Active(e) /\ session[e] # NoSession
  BY DEF Active, NoSession
<1>2. CASE AssignCommit(r) \/ StartCommit(r)
  BY <1>1, <1>2 DEF TypeOK, ReqFilled, Fresh, AssignCommit, StartCommit, OpenSession, Unstarted
<1>3. CASE ReassignCommit(r)
  BY <1>1, <1>3 DEF TypeOK, ReqFilled, ReassignCommit, OpenSession, Active
<1>4. CASE CompleteCommit(r) \/ NoShowCommit(r)
  BY <1>1, <1>4 DEF TypeOK, ReqFilled, CompleteCommit, NoShowCommit
<1>5. CASE ReleaseRow(r) \/ UNCHANGED <<rows, local>>
  BY <1>5 DEF ReleaseRow, rows
<1> QED BY <1>2, <1>3, <1>4, <1>5, QuietRequestStep

\* No step rewrites the session of a finished service.
THEOREM RecordsFinal == Spec => ServiceRecordIsFinal
<1> DEFINE Kept == \A e \in Entry : session[e].status \in {"COMPLETED", "CANCELLED"} => session'[e] = session[e]
<1>1. Inv /\ Fresh /\ [Next]_vars => [Kept]_vars
  <2> SUFFICES ASSUME Inv, Fresh, Next, NEW e \in Entry, session[e].status \in {"COMPLETED", "CANCELLED"}
               PROVE  session'[e] = session[e]
    OBVIOUS
  <2> USE DEF Inv
  <2>1. ~Active(e) /\ session[e].status # "NONE"
    BY DEF Active
  <2>2. CASE \E x \in Entry : EntryStep(x)
    BY <2>2, <2>1 DEF TypeOK, EntryStep, Join, Call, MarkArrived, CancelUnstarted, CancelByStaff, OverdueNoShow,
                ExpireWaiting, ExpireAssigned, Move, shop
  <2>3. CASE \E r \in Request : RequestStep(r)
    BY <2>3, RequestStepKeepsRecord
  <2>4. CASE ShopStep
    BY <2>4 DEF ShopStep, Restore, EnableChair, OccupyLocal, BulkDeactivate, FreeLocal, rows
  <2> QED BY <2>2, <2>3, <2>4 DEF Next
<1> QED BY <1>1, AlwaysInv, AlwaysFresh, PTL DEF Spec, ServiceRecordIsFinal

(***************************************************************************)
(* The refinement.                                                         *)
(***************************************************************************)
\* Two functions on one set that agree but at one point.
LEMMA PointUpdate ==
  ASSUME NEW S, NEW F, NEW G, NEW e \in S, NEW v, F = [x \in S |-> F[x]], G = [x \in S |-> G[x]],
         \A x \in S : G[x] = IF x = e THEN v ELSE F[x]
  PROVE  G = [F EXCEPT ![e] = v]
OBVIOUS

\* How the floor changes when one session is replaced by another.
LEMMA FloorUpdate ==
  ASSUME Inv, NEW e \in Entry, NEW w \in Session, \A f \in Entry : session'[f] = IF f = e THEN w ELSE session[f]
  PROVE  /\ Seated' = IF w.status = "ACTIVE" THEN Seated \cup {e} ELSE Seated \ {e}
         /\ Served' = IF w.status \in {"COMPLETED", "CANCELLED"} THEN Served \cup {e} ELSE Served \ {e}
         /\ BarberOf' = [BarberOf EXCEPT ![e] = IF w.status = "ACTIVE" THEN w.staff ELSE None]
         /\ PlaceOf' = [PlaceOf EXCEPT ![e] = IF w.status = "ACTIVE" THEN w.chair ELSE None]
<1>1. \A f \in Entry : Active(f)' <=> IF f = e THEN w.status = "ACTIVE" ELSE Active(f)
  BY DEF Active
<1>2. Seated' = IF w.status = "ACTIVE" THEN Seated \cup {e} ELSE Seated \ {e}
  BY <1>1 DEF Seated
<1>3. Served' = IF w.status \in {"COMPLETED", "CANCELLED"} THEN Served \cup {e} ELSE Served \ {e}
  BY DEF Served
<1>4. BarberOf' = [BarberOf EXCEPT ![e] = IF w.status = "ACTIVE" THEN w.staff ELSE None]
  <2>1. BarberOf = [f \in Entry |-> BarberOf[f]] /\ BarberOf' = [f \in Entry |-> BarberOf'[f]]
    BY DEF BarberOf
  <2>2. \A f \in Entry : BarberOf'[f] = IF f = e THEN (IF w.status = "ACTIVE" THEN w.staff ELSE None) ELSE BarberOf[f]
    BY <1>1 DEF BarberOf
  <2> QED BY <2>1, <2>2, PointUpdate
<1>5. PlaceOf' = [PlaceOf EXCEPT ![e] = IF w.status = "ACTIVE" THEN w.chair ELSE None]
  <2>1. PlaceOf = [f \in Entry |-> PlaceOf[f]] /\ PlaceOf' = [f \in Entry |-> PlaceOf'[f]]
    BY DEF PlaceOf
  <2>2. \A f \in Entry : PlaceOf'[f] = IF f = e THEN (IF w.status = "ACTIVE" THEN w.chair ELSE None) ELSE PlaceOf[f]
    BY <1>1 DEF PlaceOf
  <2> QED BY <2>1, <2>2, PointUpdate
<1> QED BY <1>2, <1>3, <1>4, <1>5

\* A session opened passes the checks the floor makes of the chair, and of every other session.
LEMMA OpenIsFree ==
  ASSUME NEW e \in Entry, NEW s \in Staff, NEW c \in Chair, OpenSession(e, s, c)
  PROVE  \A f \in Seated \ {e} : BarberOf[f] # s /\ PlaceOf[f] # c
BY DEF OpenSession, SessionUnique, Seated, BarberOf, PlaceOf

\* The service of a waiting or called visit begins: it is seated.
LEMMA OpenSeats ==
  ASSUME Inv, Fresh, NEW e \in Entry, NEW s \in Staff, NEW c \in Chair, status[e] \in Unstarted,
         c \notin local, OpenSession(e, s, c), local' = local
  PROVE  Floor!Seat(e, s, c)
<1> DEFINE w == [status |-> "ACTIVE", staff |-> s, chair |-> c]
<1>1. e \notin Seated /\ e \notin Served
  BY DEF Fresh, Unstarted, NoSession, Seated, Served, Active
<1>2. w \in Session /\ w.status = "ACTIVE" /\ w.staff = s /\ w.chair = c
  BY DEF Session
<1>3. \A f \in Entry : session'[f] = IF f = e THEN w ELSE session[f]
  BY DEF Inv, TypeOK, OpenSession
<1> HIDE DEF w
<1>4. /\ Seated' = Seated \cup {e} /\ Served' = Served
      /\ BarberOf' = [BarberOf EXCEPT ![e] = s] /\ PlaceOf' = [PlaceOf EXCEPT ![e] = c]
  <2>1. Served' = Served \ {e}
    BY <1>2, <1>3, FloorUpdate
  <2> QED BY <1>1, <1>2, <1>3, <2>1, FloorUpdate
<1> QED BY <1>1, <1>4, OpenIsFree DEF Floor!Seat, Floor!BarberFree, Floor!ChairFree

\* A service in progress ends, completed or cancelled: the visit leaves.
LEMMA EndLeaves ==
  ASSUME Inv, NEW e \in Entry, Active(e), NEW w \in {"COMPLETED", "CANCELLED"},
         session' = [session EXCEPT ![e].status = w], local' = local
  PROVE  Floor!Leave(e)
<1> DEFINE x == [session[e] EXCEPT !.status = w]
<1>1. x \in Session /\ x.status = w
  BY DEF Inv, TypeOK, Session
<1>2. \A f \in Entry : session'[f] = IF f = e THEN x ELSE session[f]
  BY DEF Inv, TypeOK
<1> HIDE DEF x
<1>3. e \in Seated
  BY DEF Seated
<1>4. /\ Seated' = Seated \ {e} /\ Served' = Served \cup {e}
      /\ BarberOf' = [BarberOf EXCEPT ![e] = None] /\ PlaceOf' = [PlaceOf EXCEPT ![e] = None]
  BY <1>1, <1>2, FloorUpdate
<1> QED BY <1>3, <1>4 DEF Floor!Leave

\* A reassignment moves the visit.
LEMMA ReassignMoves ==
  ASSUME Inv, NEW r \in Request, ReassignCommit(r), NEW e \in Entry, NEW s \in Staff, NEW c \in Chair,
         e = req[r].entry, s = req[r].toStaff, c = req[r].toChair
  PROVE  Floor!Move(e, s, c)
<1> DEFINE w == [status |-> "ACTIVE", staff |-> s, chair |-> c]
<1>1. /\ Active(e) /\ session[e].staff = req[r].staff
      /\ c \notin local /\ local' = local
      /\ OpenSession(e, s, c)
  BY DEF ReassignCommit, Active, shop
<1>2. w \in Session /\ w.status = "ACTIVE" /\ w.staff = s /\ w.chair = c
  BY DEF Session
<1>3. \A f \in Entry : session'[f] = IF f = e THEN w ELSE session[f]
  BY <1>1 DEF Inv, TypeOK, OpenSession
<1> HIDE DEF w
<1>4. e \in Seated /\ e \notin Served
  BY <1>1 DEF Seated, Served, Active
<1>5. /\ Seated' = Seated /\ Served' = Served
      /\ BarberOf' = [BarberOf EXCEPT ![e] = s] /\ PlaceOf' = [PlaceOf EXCEPT ![e] = c]
  <2>1. Seated' = Seated \cup {e} /\ Served' = Served \ {e}
    BY <1>2, <1>3, FloorUpdate
  <2> QED BY <1>2, <1>3, <1>4, <2>1, FloorUpdate
<1>6. s = BarberOf[e] \/ Floor!BarberFree(s)
  <2>1. BarberOf[e] = session[e].staff
    BY <1>1 DEF BarberOf
  <2>2. CASE s = session[e].staff
    BY <2>1, <2>2
  <2>3. CASE s # session[e].staff
    BY <1>1, <2>1, <2>3, OpenIsFree DEF Floor!BarberFree
  <2> QED BY <2>2, <2>3
<1> QED BY <1>1, <1>4, <1>5, <1>6, OpenIsFree DEF Floor!Move

\* What leaves the sessions and the local customers alone leaves the floor alone.
LEMMA SameFloor ==
  ASSUME UNCHANGED <<session, local>> PROVE UNCHANGED Floor!vars
BY DEF Floor!vars, Seated, Served, BarberOf, PlaceOf, Active

\* Every step of the queue is a step of the floor, or none.
LEMMA StepRefines == ASSUME Inv, Fresh, [Next]_vars PROVE [Floor!Next]_(Floor!vars)
<1> USE DEF Inv
<1>1. CASE \E x \in Entry : EntryStep(x)
  <2>1. PICK x \in Entry : EntryStep(x)
    BY <1>1
  <2>2. CASE CancelByStaff(x) /\ Active(x)
    <3>1. Floor!Leave(x)
      BY <2>2, EndLeaves DEF CancelByStaff, Move, shop
    <3> QED BY <3>1 DEF Floor!Next
  <2>3. CASE ~(CancelByStaff(x) /\ Active(x))
    <3>1. UNCHANGED <<session, local>>
      BY <2>1, <2>3 DEF EntryStep, Join, Call, MarkArrived, CancelUnstarted, CancelByStaff, OverdueNoShow,
                ExpireWaiting, ExpireAssigned, Move, shop
    <3> QED BY <3>1, SameFloor
  <2> QED BY <2>2, <2>3
<1>2. CASE \E r \in Request : RequestStep(r)
  <2>1. PICK r \in Request : RequestStep(r)
    BY <1>2
  <2>2. CASE AssignCommit(r) /\ req[r].flag
    <3>1. PICK e \in Entry, s \in Staff, c \in Chair : e = req[r].entry /\ s = req[r].toStaff /\ c = req[r].toChair
      BY <2>2 DEF AssignCommit, ReqFilled
    <3>2. /\ status[e] \in Unstarted /\ c \notin local /\ OpenSession(e, s, c)
          /\ local' = local
      BY <2>2, <3>1 DEF AssignCommit, shop
    <3>3. Floor!Seat(e, s, c)
      BY <3>2, OpenSeats
    <3> QED BY <3>3 DEF Floor!Next
  <2>3. CASE StartCommit(r)
    <3>1. PICK e \in Entry, s \in Staff, c \in Chair : e = req[r].entry /\ s = req[r].staff /\ c = req[r].chair
      BY <2>3 DEF StartCommit, ReqFilled
    <3>2. /\ status[e] \in Unstarted /\ c \notin local /\ OpenSession(e, s, c)
          /\ local' = local
      BY <2>3, <3>1 DEF StartCommit, Unstarted, shop
    <3>3. Floor!Seat(e, s, c)
      BY <3>2, OpenSeats
    <3> QED BY <3>3 DEF Floor!Next
  <2>4. CASE ReassignCommit(r)
    <3>1. PICK e \in Entry, s \in Staff, c \in Chair : e = req[r].entry /\ s = req[r].toStaff /\ c = req[r].toChair
      BY <2>4 DEF ReassignCommit, ReqFilled
    <3>2. Floor!Move(e, s, c)
      BY <2>4, <3>1, ReassignMoves
    <3> QED BY <3>2 DEF Floor!Next
  <2>5. CASE CompleteCommit(r)
    <3>1. PICK e \in Entry : e = req[r].entry
      BY <2>5 DEF CompleteCommit, ReqFilled
    <3>2. Active(e) /\ session' = [session EXCEPT ![e].status = "COMPLETED"] /\ local' = local
      BY <2>5, <3>1 DEF CompleteCommit, shop
    <3>3. Floor!Leave(e)
      BY <3>2, EndLeaves
    <3> QED BY <3>3 DEF Floor!Next
  <2>6. CASE (AssignCommit(r) /\ ~req[r].flag) \/ NoShowCommit(r) \/ ReleaseRow(r) \/ UNCHANGED <<rows, local>>
    <3>1. UNCHANGED <<session, local>>
      BY <2>6 DEF AssignCommit, NoShowCommit, ReleaseRow, rows, shop
    <3> QED BY <3>1, SameFloor
  <2> QED BY <2>1, <2>2, <2>3, <2>4, <2>5, <2>6, QuietRequestStep
<1>3. CASE ShopStep
  <2>1. CASE \E c \in Chair : OccupyLocal(c)
    <3>1. PICK c \in Chair : OccupyLocal(c)
      BY <2>1
    <3>2. \A f \in Seated : PlaceOf[f] # c
      BY <3>1 DEF OccupyLocal, ChairClear, Seated, PlaceOf
    <3>3. Floor!Occupy(c)
      BY <3>1, <3>2 DEF OccupyLocal, ChairClear, Floor!Occupy, Floor!ChairFree, rows,
                          Seated, Served, BarberOf, PlaceOf, Active
    <3> QED BY <3>3 DEF Floor!Next
  <2>2. CASE \E C \in {local} \cup {{c} : c \in local} : FreeLocal(C)
    <3>1. PICK C \in SUBSET Chair : FreeLocal(C)
      BY <2>2 DEF TypeOK
    <3>2. Floor!Free(C)
      BY <3>1 DEF FreeLocal, Floor!Free, rows, Seated, Served, BarberOf, PlaceOf, Active
    <3> QED BY <3>2 DEF Floor!Next
  <2>3. CASE UNCHANGED <<session, local>>
    BY <2>3, SameFloor
  <2> QED BY <1>3, <2>1, <2>2, <2>3 DEF ShopStep, Restore, EnableChair, BulkDeactivate, rows
<1>4. CASE UNCHANGED vars
  BY <1>4, SameFloor DEF vars
<1> QED BY <1>1, <1>2, <1>3, <1>4 DEF Next

\* LiveQueue implements ServiceFloor.
THEOREM FloorImplemented == Spec => ImplementsFloor
<1>1. Init => Floor!Init
  BY DEF Init, Floor!Init, Seated, Served, BarberOf, PlaceOf, Active, NoSession
<1>2. Inv /\ Fresh /\ [Next]_vars => [Floor!Next]_(Floor!vars)
  BY StepRefines
<1> QED BY <1>1, <1>2, AlwaysInv, AlwaysFresh, PTL DEF Spec, ImplementsFloor, Floor!Spec
============================================================================
