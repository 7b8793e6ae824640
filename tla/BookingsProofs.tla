--------------------------- MODULE BookingsProofs ---------------------------
(***************************************************************************)
(* Proofs about Bookings, for any number of bookings, requests, slots and  *)
(* any capacity, and about Reservations, for any day, bookings, barbers    *)
(* and chairs.                                                             *)
(***************************************************************************)
EXTENDS Bookings, Agenda, FiniteSetTheorems, SequenceTheorems, TLAPS

\* What a request in flight has filled in, by its kind.
ReqFilled ==
  \A r \in Request :
    LET q == req[r] IN
    /\ q.op # "idle" => q.booking \in Booking
    /\ q.op \in {"create", "reschedule"} => q.slot \in Slot
    /\ q.op \in {"restoreDue", "courtesy"} => q.due \in DOMAIN ledger[q.booking]

\* The lock: one cancellation of a booking at a time.
CancelExclusive ==
  \A r, o \in Request : r # o /\ req[r].op = "cancel" /\ req[o].op = "cancel" => req[r].booking # req[o].booking

\* While one holds the lock, the booking may expire, be completed or be marked a no-show, but what
\* the cancellation is about to write has not been written.
CancelPending ==
  \A r \in Request : req[r].op = "cancel" =>
    LET b == req[r].booking IN
    /\ booking[b] \notin {"ABSENT", "CANCELLED"}
    /\ restored[b] = 0
    /\ \A i \in DOMAIN ledger[b] : ledger[b][i].reason # "CANCELLATION_CHARGE"

\* A check-in in flight has read a confirmed booking, which never goes back to a payment hold.
CheckInConfirmed ==
  \A r \in Request : req[r].op = "checkIn" => booking[req[r].booking] \notin {"ABSENT", "PENDING_PAYMENT", "EXPIRED"}

\* A booking that does not exist has no rows.
AbsentIsBlank ==
  \A b \in Booking : booking[b] = "ABSENT" =>
    ledger[b] = <<>> /\ restored[b] = 0 /\ ~shown[b] /\ ~spent[b] /\ subsidy[b] = "NONE"

Locks == ReqFilled /\ CancelExclusive /\ CancelPending /\ CheckInConfirmed
Rows == AbsentIsBlank /\ CreditsReturnedOnce /\ ChargedOncePerReason /\ OpenIsUnsettled /\ VisitWasConfirmed
Inv == TypeOK /\ Locks /\ Rows

\* Nothing has been written or read at the start.
LEMMA InitInv == Init => Inv
BY DEF Init, Inv, TypeOK, Locks, ReqFilled, CancelExclusive, CancelPending, CheckInConfirmed, Rows, AbsentIsBlank,
       CreditsReturnedOnce, ChargedOncePerReason, OpenIsUnsettled, VisitWasConfirmed, Idle, Req, Op, BookingStatus,
       Visit, Open

(***************************************************************************)
(* The dues of a booking as a sequence: what adding one and changing the   *)
(* status of one keep.                                                     *)
(***************************************************************************)
\* A due may be waived and restored, never dropped or given another reason.
LEMMA DueSet ==
  ASSUME NEW dues \in Seq(Due), NEW i \in DOMAIN dues, NEW to \in {"OUTSTANDING", "WAIVED"}
  PROVE  LET new == [dues EXCEPT ![i].status = to] IN
         /\ new \in Seq(Due)
         /\ DOMAIN new = DOMAIN dues
         /\ \A j \in DOMAIN dues : new[j].reason = dues[j].reason
<1>1. DOMAIN dues = 1 .. Len(dues) /\ dues \in [1 .. Len(dues) -> Due]
  BY LenProperties
<1>2. [dues[i] EXCEPT !.status = to] \in Due /\ [dues[i] EXCEPT !.status = to].reason = dues[i].reason
  BY <1>1 DEF Due
<1>3. [dues EXCEPT ![i] = [dues[i] EXCEPT !.status = to]] \in Seq(Due)
  BY <1>1, <1>2, ExceptSeq
<1>4. [dues EXCEPT ![i].status = to] = [dues EXCEPT ![i] = [dues[i] EXCEPT !.status = to]]
  BY <1>1
<1> QED
  BY <1>1, <1>2, <1>3, <1>4

\* The same for waiving every no-show due.
LEMMA WaivedDues ==
  ASSUME NEW dues \in Seq(Due)
  PROVE  /\ Waived(dues) \in Seq(Due)
         /\ DOMAIN Waived(dues) = DOMAIN dues
         /\ \A j \in DOMAIN dues : Waived(dues)[j].reason = dues[j].reason
<1>1. DOMAIN dues = 1 .. Len(dues) /\ dues \in [1 .. Len(dues) -> Due] /\ Len(dues) \in Nat
  BY LenProperties
<1>2. Waived(dues) \in [1 .. Len(dues) -> Due]
  BY <1>1 DEF Waived, Due
<1>3. Waived(dues) \in Seq(Due)
  BY <1>1, <1>2, SeqDef
<1> QED
  BY <1>1, <1>3 DEF Waived, Due

\* Adding a due keeps those there are, in their places.
LEMMA DueAdded ==
  ASSUME NEW dues \in Seq(Due), NEW due \in Due
  PROVE  /\ Append(dues, due) \in Seq(Due)
         /\ DOMAIN Append(dues, due) = DOMAIN dues \cup {Len(dues) + 1}
         /\ \A j \in DOMAIN dues : Append(dues, due)[j] = dues[j]
         /\ Append(dues, due)[Len(dues) + 1] = due
OBVIOUS

\* A charge is a due.
LEMMA ChargeIsDue == \A reason \in {"CANCELLATION_CHARGE", "NO_SHOW_CHARGE"} : Charge(reason) \in Due
BY DEF Charge, Due

(***************************************************************************)
(* The three parts of the invariant, action by action.                     *)
(***************************************************************************)

\* No action writes a value a column does not hold.
LEMMA TypesKept == ASSUME Inv, Next PROVE TypeOK'
<1> USE DEF Inv, Locks, TypeOK, ReqFilled, Req, Op, Idle, Slot, BookingStatus, Visit, Open, money
<1>1. CASE Tick
  BY <1>1 DEF Tick
<1>2. ASSUME NEW b \in Booking, NEW s \in Slot, CreateInShop(b, s) PROVE TypeOK'
  BY <1>2 DEF CreateInShop
<1>3. ASSUME NEW b \in Booking, Expire(b) PROVE TypeOK'
  BY <1>3 DEF Expire
<1>4. ASSUME NEW b \in Booking, CorrectToCompleted(b) PROVE TypeOK'
  BY <1>4, WaivedDues DEF CorrectToCompleted
<1>5. ASSUME NEW b \in Booking, Start(b) PROVE TypeOK'
  BY <1>5 DEF Start
<1>6. ASSUME NEW b \in Booking, CompleteSession(b) PROVE TypeOK'
  BY <1>6 DEF CompleteSession
<1>7. ASSUME NEW b \in Booking, VisitEnds(b) PROVE TypeOK'
  <2>1. PICK end \in {"CANCELLED", "NO_SHOW", "EXPIRED"} : visit' = [visit EXCEPT ![b] = end]
    BY <1>7 DEF VisitEnds
  <2> QED
    BY <1>7, <2>1 DEF VisitEnds
<1>8. ASSUME NEW b \in Booking, NEW charged \in BOOLEAN, MarkNoShow(b, charged) PROVE TypeOK'
  BY <1>8, DueAdded, ChargeIsDue DEF MarkNoShow
<1>9. ASSUME NEW b \in Booking, NEW i \in DOMAIN ledger[b], WaiveNoShowDue(b, i) PROVE TypeOK'
  BY <1>9, DueSet, ZenonT(30) DEF WaiveNoShowDue, SetDue
<1>10. ASSUME NEW b \in Booking, NEW i \in DOMAIN ledger[b], CourtesyRestore(b, i) PROVE TypeOK'
  BY <1>10, DueSet DEF CourtesyRestore, SetDue
<1>11. ASSUME NEW r \in Request, NEW b \in Booking, NEW s \in Slot, CreateRead(r, b, s) PROVE TypeOK'
  BY <1>11 DEF CreateRead, Begin
<1>12. ASSUME NEW r \in Request, NEW b \in Booking, NEW s \in Slot, RescheduleRead(r, b, s) PROVE TypeOK'
  BY <1>12 DEF RescheduleRead, Begin
<1>13. ASSUME NEW r \in Request, NEW b \in Booking, NEW byShop \in BOOLEAN, NEW charged \in BOOLEAN,
              CancelLock(r, b, byShop, charged)
       PROVE  TypeOK'
  BY <1>13 DEF CancelLock, Begin
<1>14. ASSUME NEW r \in Request, NEW b \in Booking, CheckInRead(r, b) PROVE TypeOK'
  BY <1>14 DEF CheckInRead, Begin
<1>15. ASSUME NEW r \in Request, NEW b \in Booking, NEW i \in DOMAIN ledger[b], RestoreDueRead(r, b, i) PROVE TypeOK'
  <2>1. i \in Nat
    BY LenProperties
  <2> QED
    BY <1>15, <2>1 DEF RestoreDueRead, Begin
<1>16. ASSUME NEW r \in Request, NEW b \in Booking, NEW i \in DOMAIN ledger[b], CourtesyCount(r, b, i) PROVE TypeOK'
  <2>1. i \in Nat
    BY LenProperties
  <2> QED
    BY <1>16, <2>1 DEF CourtesyCount, Begin
<1>17. ASSUME NEW r \in Request, CreateCommit(r) PROVE TypeOK'
  BY <1>17 DEF CreateCommit, End
<1>18. ASSUME NEW r \in Request, RescheduleCommit(r) PROVE TypeOK'
  BY <1>18 DEF RescheduleCommit, End
<1>19. ASSUME NEW r \in Request, CancelCommit(r) PROVE TypeOK'
  BY <1>19, DueAdded, ChargeIsDue DEF CancelCommit, End
<1>20. ASSUME NEW r \in Request, CheckInCommit(r) PROVE TypeOK'
  BY <1>20 DEF CheckInCommit, End
<1>21. ASSUME NEW r \in Request, RestoreDueCommit(r) PROVE TypeOK'
  <2> DEFINE b == req[r].booking
  <2>1. b \in Booking /\ ledger[b] \in Seq(Due) /\ req[r].due \in DOMAIN ledger[b]
    BY <1>21 DEF RestoreDueCommit
  <2>2. ledger' = [ledger EXCEPT ![b] = [ledger[b] EXCEPT ![req[r].due].status = "OUTSTANDING"]]
    BY <1>21, <2>1 DEF RestoreDueCommit, SetDue
  <2>3. ledger' \in [Booking -> Seq(Due)]
    BY <2>1, <2>2, DueSet
  <2> QED
    BY <1>21, <2>3 DEF RestoreDueCommit, SetDue, End
<1>22. ASSUME NEW r \in Request, CourtesyClaim(r) PROVE TypeOK'
  <2> DEFINE b == req[r].booking
  <2>1. b \in Booking /\ ledger[b] \in Seq(Due) /\ req[r].due \in DOMAIN ledger[b]
    BY <1>22 DEF CourtesyClaim
  <2>2. ledger' = [ledger EXCEPT ![b] = [ledger[b] EXCEPT ![req[r].due].status = "WAIVED"]]
    BY <1>22, <2>1 DEF CourtesyClaim, SetDue
  <2>3. ledger' \in [Booking -> Seq(Due)]
    BY <2>1, <2>2, DueSet
  <2> QED
    BY <1>22, <2>3 DEF CourtesyClaim, SetDue, End
<1>23. ASSUME NEW r \in Request, Refuse(r) PROVE TypeOK'
  BY <1>23 DEF Refuse, End
<1> HIDE DEF Inv, Locks, TypeOK, ReqFilled, Req, Op, Idle, Slot, BookingStatus, Visit, Open, money
<1> QED
  BY <1>1, <1>2, <1>3, <1>4, <1>5, <1>6, <1>7, <1>8, <1>9, <1>10, <1>11, <1>12, <1>13, <1>14, <1>15, <1>16,
     <1>17, <1>18, <1>19, <1>20, <1>21, <1>22, <1>23 DEF Next, BookingStep, RequestStep

\* What a request in flight relies on stays true until it commits, whatever else commits meanwhile.
LEMMA LocksKept == ASSUME Inv, Next PROVE Locks'
<1> USE DEF Inv, TypeOK, Locks, ReqFilled, CancelExclusive, CancelPending, CheckInConfirmed, Rows, AbsentIsBlank,
           OpenIsUnsettled, Open, Idle, money
<1>1. CASE Tick
  BY <1>1 DEF Tick
<1>2. ASSUME NEW b \in Booking, NEW s \in Slot, CreateInShop(b, s) PROVE Locks'
  BY <1>2 DEF CreateInShop
<1>3. ASSUME NEW b \in Booking, Expire(b) PROVE Locks'
  BY <1>3 DEF Expire
<1>4. ASSUME NEW b \in Booking, CorrectToCompleted(b) PROVE Locks'
  BY <1>4, WaivedDues DEF CorrectToCompleted
<1>5. ASSUME NEW b \in Booking, Start(b) PROVE Locks'
  BY <1>5 DEF Start
<1>6. ASSUME NEW b \in Booking, CompleteSession(b) PROVE Locks'
  BY <1>6 DEF CompleteSession
<1>7. ASSUME NEW b \in Booking, VisitEnds(b) PROVE Locks'
  BY <1>7 DEF VisitEnds
<1>8. ASSUME NEW b \in Booking, NEW charged \in BOOLEAN, MarkNoShow(b, charged) PROVE Locks'
  <2>1. ledger[b] \in Seq(Due) /\ ledger[b] = <<>>
    BY <1>8 DEF MarkNoShow
  <2>2. \A i \in DOMAIN ledger'[b] : ledger'[b][i].reason # "CANCELLATION_CHARGE"
    BY <1>8, <2>1 DEF MarkNoShow, Charge
  <2>3. \A a \in Booking : DOMAIN ledger[a] \subseteq DOMAIN ledger'[a] /\ (a # b => ledger'[a] = ledger[a])
    BY <1>8, <2>1 DEF MarkNoShow
  <2> QED
    BY <1>8, <2>2, <2>3 DEF MarkNoShow
<1>9. ASSUME NEW b \in Booking, NEW i \in DOMAIN ledger[b], WaiveNoShowDue(b, i) PROVE Locks'
  BY <1>9, DueSet DEF WaiveNoShowDue, SetDue
<1>10. ASSUME NEW b \in Booking, NEW i \in DOMAIN ledger[b], CourtesyRestore(b, i) PROVE Locks'
  BY <1>10, DueSet DEF CourtesyRestore, SetDue
<1>11. ASSUME NEW r \in Request, NEW b \in Booking, NEW s \in Slot, CreateRead(r, b, s) PROVE Locks'
  BY <1>11 DEF CreateRead, Begin
<1>12. ASSUME NEW r \in Request, NEW b \in Booking, NEW s \in Slot, RescheduleRead(r, b, s) PROVE Locks'
  BY <1>12 DEF RescheduleRead, Begin
<1>13. ASSUME NEW r \in Request, NEW b \in Booking, NEW byShop \in BOOLEAN, NEW charged \in BOOLEAN,
              CancelLock(r, b, byShop, charged)
       PROVE  Locks'
  BY <1>13 DEF CancelLock, Begin
<1>14. ASSUME NEW r \in Request, NEW b \in Booking, CheckInRead(r, b) PROVE Locks'
  BY <1>14 DEF CheckInRead, Begin
<1>15. ASSUME NEW r \in Request, NEW b \in Booking, NEW i \in DOMAIN ledger[b], RestoreDueRead(r, b, i) PROVE Locks'
  BY <1>15 DEF RestoreDueRead, Begin
<1>16. ASSUME NEW r \in Request, NEW b \in Booking, NEW i \in DOMAIN ledger[b], CourtesyCount(r, b, i) PROVE Locks'
  BY <1>16 DEF CourtesyCount, Begin
<1>17. ASSUME NEW r \in Request, CreateCommit(r) PROVE Locks'
  BY <1>17 DEF CreateCommit, End
<1>18. ASSUME NEW r \in Request, RescheduleCommit(r) PROVE Locks'
  BY <1>18 DEF RescheduleCommit, End
<1>19. ASSUME NEW r \in Request, CancelCommit(r) PROVE Locks'
  BY <1>19, DueAdded, ChargeIsDue DEF CancelCommit, End
<1>20. ASSUME NEW r \in Request, CheckInCommit(r) PROVE Locks'
  BY <1>20 DEF CheckInCommit, End
<1>21. ASSUME NEW r \in Request, RestoreDueCommit(r) PROVE Locks'
  BY <1>21, DueSet, SMTT(30) DEF RestoreDueCommit, End, SetDue
<1>22. ASSUME NEW r \in Request, CourtesyClaim(r) PROVE Locks'
  BY <1>22, DueSet, SMTT(30) DEF CourtesyClaim, End, SetDue
<1>23. ASSUME NEW r \in Request, Refuse(r) PROVE Locks'
  BY <1>23 DEF Refuse, End
<1> HIDE DEF Inv, TypeOK, Locks, ReqFilled, CancelExclusive, CancelPending, CheckInConfirmed, Rows, AbsentIsBlank,
           OpenIsUnsettled, Open, Idle, money
<1> QED
  BY <1>1, <1>2, <1>3, <1>4, <1>5, <1>6, <1>7, <1>8, <1>9, <1>10, <1>11, <1>12, <1>13, <1>14, <1>15, <1>16,
     <1>17, <1>18, <1>19, <1>20, <1>21, <1>22, <1>23 DEF Next, BookingStep, RequestStep

\* No action, however stale its read, breaks what the rows of a booking say together.
LEMMA RowsKept == ASSUME Inv, Next PROVE Rows'
<1> USE DEF Inv, TypeOK, Locks, ReqFilled, CancelPending, CheckInConfirmed, Rows, AbsentIsBlank, CreditsReturnedOnce,
           ChargedOncePerReason, OpenIsUnsettled, VisitWasConfirmed, Open, money
<1>1. CASE Tick
  BY <1>1 DEF Tick
<1>2. ASSUME NEW b \in Booking, NEW s \in Slot, CreateInShop(b, s) PROVE Rows'
  BY <1>2 DEF CreateInShop
<1>3. ASSUME NEW b \in Booking, Expire(b) PROVE Rows'
  BY <1>3 DEF Expire
<1>4. ASSUME NEW b \in Booking, CorrectToCompleted(b) PROVE Rows'
  BY <1>4, WaivedDues DEF CorrectToCompleted
<1>5. ASSUME NEW b \in Booking, Start(b) PROVE Rows'
  BY <1>5 DEF Start
<1>6. ASSUME NEW b \in Booking, CompleteSession(b) PROVE Rows'
  BY <1>6 DEF CompleteSession
<1>7. ASSUME NEW b \in Booking, VisitEnds(b) PROVE Rows'
  BY <1>7 DEF VisitEnds
<1>8. ASSUME NEW b \in Booking, NEW charged \in BOOLEAN, MarkNoShow(b, charged) PROVE Rows'
  BY <1>8, DueAdded, ChargeIsDue DEF MarkNoShow
<1>9. ASSUME NEW b \in Booking, NEW i \in DOMAIN ledger[b], WaiveNoShowDue(b, i) PROVE Rows'
  BY <1>9, DueSet DEF WaiveNoShowDue, SetDue
<1>10. ASSUME NEW b \in Booking, NEW i \in DOMAIN ledger[b], CourtesyRestore(b, i) PROVE Rows'
  BY <1>10, DueSet DEF CourtesyRestore, SetDue
<1>11. ASSUME NEW r \in Request, NEW b \in Booking, NEW s \in Slot, CreateRead(r, b, s) PROVE Rows'
  BY <1>11 DEF CreateRead, Begin
<1>12. ASSUME NEW r \in Request, NEW b \in Booking, NEW s \in Slot, RescheduleRead(r, b, s) PROVE Rows'
  BY <1>12 DEF RescheduleRead, Begin
<1>13. ASSUME NEW r \in Request, NEW b \in Booking, NEW byShop \in BOOLEAN, NEW charged \in BOOLEAN,
              CancelLock(r, b, byShop, charged)
       PROVE  Rows'
  BY <1>13 DEF CancelLock, Begin
<1>14. ASSUME NEW r \in Request, NEW b \in Booking, CheckInRead(r, b) PROVE Rows'
  BY <1>14 DEF CheckInRead, Begin
<1>15. ASSUME NEW r \in Request, NEW b \in Booking, NEW i \in DOMAIN ledger[b], RestoreDueRead(r, b, i) PROVE Rows'
  BY <1>15 DEF RestoreDueRead, Begin
<1>16. ASSUME NEW r \in Request, NEW b \in Booking, NEW i \in DOMAIN ledger[b], CourtesyCount(r, b, i) PROVE Rows'
  BY <1>16 DEF CourtesyCount, Begin
<1>17. ASSUME NEW r \in Request, CreateCommit(r) PROVE Rows'
  BY <1>17 DEF CreateCommit, End
<1>18. ASSUME NEW r \in Request, RescheduleCommit(r) PROVE Rows'
  BY <1>18 DEF RescheduleCommit, End
<1>19. ASSUME NEW r \in Request, CancelCommit(r) PROVE Rows'
  <2> DEFINE b == req[r].booking
  <2>1. b \in Booking /\ restored[b] = 0 /\ booking[b] # "ABSENT" /\ ledger[b] \in Seq(Due)
    BY <1>19 DEF CancelCommit
  <2>2. \A i \in DOMAIN ledger[b] : ledger[b][i].reason # "CANCELLATION_CHARGE"
    BY <1>19 DEF CancelCommit
  <2>3. \A a \in Booking \ {b} : ledger'[a] = ledger[a]
    BY <1>19 DEF CancelCommit
  <2>4. CASE ~req[r].charged
    BY <1>19, <2>1, <2>4 DEF CancelCommit
  <2>5. CASE req[r].charged
    <3>1. ledger'[b] = Append(ledger[b], Charge("CANCELLATION_CHARGE"))
      BY <1>19, <2>1, <2>5 DEF CancelCommit
    <3>2. \A i, j \in DOMAIN ledger'[b] : i # j => ledger'[b][i].reason # ledger'[b][j].reason
      <4>1. \A j \in DOMAIN ledger[b] : ledger'[b][j] = ledger[b][j]
        BY <2>1, <3>1, DueAdded, ChargeIsDue
      <4>2. DOMAIN ledger'[b] = DOMAIN ledger[b] \cup {Len(ledger[b]) + 1}
        BY <2>1, <3>1, DueAdded, ChargeIsDue
      <4>3. ledger'[b][Len(ledger[b]) + 1].reason = "CANCELLATION_CHARGE"
        BY <2>1, <3>1, DueAdded, ChargeIsDue DEF Charge
      <4>4. \A i, j \in DOMAIN ledger[b] : i # j => ledger[b][i].reason # ledger[b][j].reason
        BY <2>1
      <4> QED
        BY <2>2, <4>1, <4>2, <4>3, <4>4
    <3>3. ChargedOncePerReason'
      <4>1. ASSUME NEW a \in Booking
            PROVE  \A i, j \in DOMAIN ledger'[a] : i # j => ledger'[a][i].reason # ledger'[a][j].reason
        <5>1. CASE a = b
          BY <5>1, <3>2
        <5>2. CASE a # b
          BY <5>2, <2>3
        <5> QED
          BY <5>1, <5>2
      <4> QED
        BY <4>1
    <3>4. (AbsentIsBlank /\ CreditsReturnedOnce /\ OpenIsUnsettled /\ VisitWasConfirmed)'
      BY <1>19, <2>1, <2>3 DEF CancelCommit
    <3> QED
      BY <3>3, <3>4
  <2> QED
    BY <2>4, <2>5
<1>20. ASSUME NEW r \in Request, CheckInCommit(r) PROVE Rows'
  BY <1>20 DEF CheckInCommit, End
<1>21. ASSUME NEW r \in Request, RestoreDueCommit(r) PROVE Rows'
  BY <1>21, DueSet, SMTT(30) DEF RestoreDueCommit, End, SetDue
<1>22. ASSUME NEW r \in Request, CourtesyClaim(r) PROVE Rows'
  BY <1>22, DueSet, SMTT(30) DEF CourtesyClaim, End, SetDue
<1>23. ASSUME NEW r \in Request, Refuse(r) PROVE Rows'
  BY <1>23 DEF Refuse, End
<1> HIDE DEF Inv, TypeOK, Locks, ReqFilled, CancelPending, CheckInConfirmed, Rows, AbsentIsBlank, CreditsReturnedOnce,
           ChargedOncePerReason, OpenIsUnsettled, VisitWasConfirmed, Open, money
<1> QED
  BY <1>1, <1>2, <1>3, <1>4, <1>5, <1>6, <1>7, <1>8, <1>9, <1>10, <1>11, <1>12, <1>13, <1>14, <1>15, <1>16,
     <1>17, <1>18, <1>19, <1>20, <1>21, <1>22, <1>23 DEF Next, BookingStep, RequestStep

\* The invariant is inductive.
THEOREM NextInv == Inv /\ [Next]_vars => Inv'
<1>1. ASSUME Inv, Next PROVE Inv'
  BY <1>1, TypesKept, LocksKept, RowsKept DEF Inv
<1>2. ASSUME Inv, UNCHANGED vars PROVE Inv'
  BY <1>2 DEF Inv, vars, TypeOK, Locks, ReqFilled, CancelExclusive, CancelPending, CheckInConfirmed, Rows,
              AbsentIsBlank, CreditsReturnedOnce, ChargedOncePerReason, OpenIsUnsettled, VisitWasConfirmed
<1> QED
  BY <1>1, <1>2

\* The inductive invariant holds in every state of every behaviour.
THEOREM AlwaysInv == Spec => []Inv
<1>1. Init => Inv
  BY InitInv
<1>2. Inv /\ [Next]_vars => Inv'
  BY NextInv
<1> QED
  BY <1>1, <1>2, PTL DEF Spec

\* Type correctness for any number of bookings, requests and slots.
THEOREM TypesCorrect == Spec => []TypeOK
<1>1. Inv => TypeOK
  BY DEF Inv
<1> QED
  BY <1>1, AlwaysInv, PTL

\* Credits come back exactly once for a cancelled booking, whoever races to cancel it.
THEOREM CreditsReturned == Spec => []CreditsReturnedOnce
<1>1. Inv => CreditsReturnedOnce
  BY DEF Inv, Rows
<1> QED
  BY <1>1, AlwaysInv, PTL

\* A booking is never charged twice for one reason.
THEOREM ChargesAreSingle == Spec => []ChargedOncePerReason
<1>1. Inv => ChargedOncePerReason
  BY DEF Inv, Rows
<1> QED
  BY <1>1, AlwaysInv, PTL

\* A booking that can still be cancelled or moved has not been settled: none is ever reopened.
THEOREM OpenStaysUnsettled == Spec => []OpenIsUnsettled
<1>1. Inv => OpenIsUnsettled
  BY DEF Inv, Rows
<1> QED
  BY <1>1, AlwaysInv, PTL

\* Nobody is queued on a booking that was never confirmed.
THEOREM VisitsWereConfirmed == Spec => []VisitWasConfirmed
<1>1. Inv => VisitWasConfirmed
  BY DEF Inv, Rows
<1> QED
  BY <1>1, AlwaysInv, PTL

(***************************************************************************)
(* Slots.                                                                  *)
(***************************************************************************)
\* The bookings that can still be served in slot s.
Holding(s) == {b \in Booking : booking[b] \in Open /\ slot[b] = s}

\* A step after which no booking is open that was not, or in another slot, oversells nothing.
LEMMA NothingOpened ==
  ASSUME SlotNotOversold, Capacity \in Nat,
         \A b \in Booking : booking'[b] \in Open => booking[b] \in Open /\ slot'[b] = slot[b]
  PROVE  SlotNotOversold'
<1> SUFFICES ASSUME NEW s \in Slot PROVE Cardinality(Holding(s)') <= Capacity
  BY DEF SlotNotOversold, Holding
<1>1. Holding(s)' \subseteq Holding(s)
  BY DEF Holding
<1>2. IsFiniteSet(Holding(s))
  BY FiniteAssumption, FS_Subset DEF Holding
<1>3. Cardinality(Holding(s)) <= Capacity
  BY DEF SlotNotOversold, Holding
<1>4. Cardinality(Holding(s)') <= Cardinality(Holding(s))
  BY <1>1, <1>2, FS_Subset
<1>5. Cardinality(Holding(s)) \in Nat /\ Cardinality(Holding(s)') \in Nat
  BY <1>1, <1>2, FS_Subset, FS_CardinalityType
<1> QED
  BY <1>3, <1>4, <1>5

\* A step that puts one booking into a slot with room oversells nothing.
LEMMA OneTaken ==
  ASSUME SlotNotOversold, Capacity \in Nat, NEW b \in Booking, NEW s \in Slot, Bookable(s, b), slot'[b] = s,
         \A a \in Booking \ {b} : booking'[a] = booking[a] /\ slot'[a] = slot[a]
  PROVE  SlotNotOversold'
<1> SUFFICES ASSUME NEW t \in Slot PROVE Cardinality(Holding(t)') <= Capacity
  BY DEF SlotNotOversold, Holding
<1>1. CASE t = s
  <2> DEFINE P == {a \in Booking \ {b} : booking[a] \in Reserving /\ slot[a] = s}
  <2>1. Holding(s)' \subseteq P \cup {b}
    BY DEF Holding, Open, Reserving
  <2>2. IsFiniteSet(P) /\ Cardinality(P) \in Nat
    BY FiniteAssumption, FS_Subset, FS_CardinalityType
  <2>3. Cardinality(P) < Capacity
    BY DEF Bookable, PoolReservations
  <2>4. IsFiniteSet(P \cup {b}) /\ Cardinality(P \cup {b}) <= Cardinality(P) + 1
    BY <2>2, FS_AddElement
  <2>5. Cardinality(Holding(s)') <= Cardinality(P \cup {b})
    BY <2>1, <2>4, FS_Subset
  <2>6. Cardinality(Holding(s)') \in Nat /\ Cardinality(P \cup {b}) \in Nat
    BY <2>1, <2>4, FS_Subset, FS_CardinalityType
  <2> HIDE DEF P
  <2> QED
    BY <1>1, <2>2, <2>3, <2>4, <2>5, <2>6
<1>2. CASE t # s
  <2>1. Holding(t)' \subseteq Holding(t)
    BY <1>2 DEF Holding
  <2>2. IsFiniteSet(Holding(t))
    BY FiniteAssumption, FS_Subset DEF Holding
  <2>3. Cardinality(Holding(t)) <= Capacity
    BY DEF SlotNotOversold, Holding
  <2>4. Cardinality(Holding(t)') <= Cardinality(Holding(t))
    BY <2>1, <2>2, FS_Subset
  <2>5. Cardinality(Holding(t)) \in Nat /\ Cardinality(Holding(t)') \in Nat
    BY <2>1, <2>2, FS_Subset, FS_CardinalityType
  <2> QED
    BY <2>3, <2>4, <2>5
<1> QED
  BY <1>1, <1>2

\* Every other step leaves the slots alone, or closes a booking.
LEMMA OthersOpenNothing ==
  ASSUME TypeOK, Next, ~(\E b \in Booking, s \in Slot : CreateInShop(b, s)),
         ~(\E r \in Request : CreateCommit(r) \/ RescheduleCommit(r)),
         \A r \in Request : req[r].op # "idle" => req[r].booking \in Booking,
         NEW a \in Booking, booking'[a] \in Open
  PROVE  booking[a] \in Open /\ slot'[a] = slot[a]
<1> USE DEF TypeOK, Open
<1>1. CASE Tick
  BY <1>1 DEF Tick
<1>2. ASSUME NEW b \in Booking, BookingStep(b) PROVE booking[a] \in Open /\ slot'[a] = slot[a]
  BY <1>2 DEF BookingStep, Expire, CorrectToCompleted, Start, CompleteSession, VisitEnds, MarkNoShow, WaiveNoShowDue,
              CourtesyRestore, SetDue
<1>3. ASSUME NEW r \in Request, RequestStep(r) PROVE booking[a] \in Open /\ slot'[a] = slot[a]
  BY <1>3 DEF RequestStep, CreateRead, RescheduleRead, CancelLock, CheckInRead, RestoreDueRead, CourtesyCount, Begin,
              CancelCommit, CheckInCommit, RestoreDueCommit, CourtesyClaim, SetDue, Refuse
<1> QED
  BY <1>1, <1>2, <1>3 DEF Next

\* No slot is ever sold beyond its capacity.
THEOREM SlotsNotOversold == Spec => []SlotNotOversold
<1> USE BoundsAssumption
<1>1. Init => SlotNotOversold
  <2> SUFFICES ASSUME Init, NEW s \in Slot PROVE Cardinality(Holding(s)) <= Capacity
    BY DEF SlotNotOversold, Holding
  <2>1. Holding(s) = {}
    BY DEF Init, Holding, Open
  <2> QED
    BY <2>1, FS_EmptySet
<1>2. Inv /\ SlotNotOversold /\ [Next]_vars => SlotNotOversold'
  <2> SUFFICES ASSUME Inv, SlotNotOversold, [Next]_vars PROVE SlotNotOversold'
    OBVIOUS
  <2>1. ASSUME NEW b \in Booking, NEW s \in Slot, CreateInShop(b, s) PROVE SlotNotOversold'
    <3>1. slot'[b] = s /\ \A a \in Booking \ {b} : booking'[a] = booking[a] /\ slot'[a] = slot[a]
      BY <2>1 DEF Inv, TypeOK, CreateInShop
    <3> QED
      BY <2>1, <3>1, OneTaken DEF CreateInShop
  <2>2. ASSUME NEW r \in Request, CreateCommit(r) \/ RescheduleCommit(r) PROVE SlotNotOversold'
    <3> DEFINE b == req[r].booking  s == req[r].slot
    <3>1. b \in Booking /\ s \in Slot
      BY <2>2 DEF Inv, Locks, ReqFilled, CreateCommit, RescheduleCommit
    <3>2. slot'[b] = s /\ \A a \in Booking \ {b} : booking'[a] = booking[a] /\ slot'[a] = slot[a]
      BY <2>2, <3>1 DEF Inv, TypeOK, CreateCommit, RescheduleCommit
    <3>3. Bookable(s, b)
      BY <2>2 DEF CreateCommit, RescheduleCommit
    <3> HIDE DEF b, s
    <3> QED
      BY <3>1, <3>2, <3>3, OneTaken
  <2>3. CASE /\ Next
             /\ ~(\E b \in Booking, s \in Slot : CreateInShop(b, s))
             /\ ~(\E r \in Request : CreateCommit(r) \/ RescheduleCommit(r))
    <3>1. TypeOK /\ \A r \in Request : req[r].op # "idle" => req[r].booking \in Booking
      BY DEF Inv, Locks, ReqFilled
    <3> QED
      BY <2>3, <3>1, OthersOpenNothing, NothingOpened
  <2>4. CASE UNCHANGED vars
    BY <2>4 DEF vars, SlotNotOversold
  <2> QED
    BY <2>1, <2>2, <2>3, <2>4
<1> QED
  BY <1>1, <1>2, AlwaysInv, PTL DEF Spec

(***************************************************************************)
(* The day of a shop (Agenda), for any number of appointments, barbers and *)
(* chairs, any lengths and any closing time.                               *)
(***************************************************************************)
\* What the theorems assume of the day.
DayAssumptions == Day!TimesAssumption /\ Day!RowsAssumption

\* A row of bookings, and what is known of a customer in the shop.
AgendaRows == [status : {"NONE", "CONFIRMED", "COMPLETED", "NO_SHOW", "CANCELLED"},
         start : 0 .. Close, end : 0 .. Close, staff : Staff \cup {None}, arrived : BOOLEAN]
Visits == [from : 0 .. Close, length : Length \cup {0}, walkIn : BOOLEAN, booking : Appointment \cup {None}, started : BOOLEAN]

\* The booking of a customer in the shop has its row, even if it was cancelled meanwhile.
VisitorsKnown == \A s \in Staff : seat[s].booking # None => agenda[seat[s].booking] # Day!NoBooking

\* No customer's visit begins later than now, whoever serves it.
VisitsBegan == \A s \in Staff : seat[s].from <= time

DayInv == Day!TypeOK /\ VisitorsKnown /\ VisitsBegan /\ Day!NamedBarberKept /\ Day!WithinCapacity

\* A service that overruns does not end before it was to.
LEMMA EndsNoEarlier ==
  ASSUME NEW v, v.from \in Int, v.length \in Int, time \in Int
  PROVE  Day!ProjectedEnd(v) \in Int /\ Day!ProjectedEnd(v) >= v.from + v.length
<1>1. \E x \in {v.from + v.length, time} : \A y \in {v.from + v.length, time} : x >= y
  OBVIOUS
<1> QED BY <1>1 DEF Day!ProjectedEnd, Day!Max

\* Counting is the same in the instance.
LEMMA Counts == ASSUME NEW S PROVE Day!Cardinality(S) = Cardinality(S) /\ Day!IsFiniteSet(S) = IsFiniteSet(S)
BY DEF Day!Cardinality, Cardinality, Day!IsFiniteSet, IsFiniteSet

\* The capacity is a number.
LEMMA CapacityIsInt ==
  ASSUME DayAssumptions PROVE Day!Capacity \in Int
<1>1. Cardinality(Staff) \in Int /\ Chairs \in Int
  BY Counts, FS_CardinalityType DEF DayAssumptions, Day!TimesAssumption, Day!RowsAssumption
<1>2. \E x \in {Cardinality(Staff), Chairs} : \A y \in {Cardinality(Staff), Chairs} : x =< y
  BY <1>1
<1> QED BY <1>1, <1>2, Counts DEF Day!Capacity, Day!Min

\* TypeOK in terms of these sets, which then need not be looked into.
LEMMA DayTypes ==
  /\ Day!TypeOK <=>
       /\ time \in 0 .. Close /\ agenda \in [Appointment -> AgendaRows] /\ seat \in [Staff -> Visits]
       /\ \A b \in Appointment : agenda[b] # Day!NoBooking => agenda[b].start < agenda[b].end
  /\ Day!TypeOK' <=>
       /\ time' \in 0 .. Close /\ agenda' \in [Appointment -> AgendaRows] /\ seat' \in [Staff -> Visits]
       /\ \A b \in Appointment : agenda'[b] # Day!NoBooking => agenda'[b].start < agenda'[b].end
BY DEF Day!TypeOK, AgendaRows, Visits

\* A row that is not there, and a barber who has nobody, are of the columns' types.
LEMMA NothingTyped ==
  ASSUME DayAssumptions PROVE Day!NoBooking \in AgendaRows /\ Day!NoVisit \in Visits
BY DEF DayAssumptions, Day!TimesAssumption, Day!NoBooking, Day!NoVisit, AgendaRows, Visits

\* What TypeOK says of a visit.
LEMMA VisitType ==
  ASSUME DayAssumptions, Day!TypeOK, NEW s \in Staff
  PROVE  seat[s].from \in Int /\ seat[s].length \in Int /\ seat[s].length >= 0 /\ time \in Int
<1>1. seat[s] \in [from : 0 .. Close, length : Length \cup {0}, walkIn : BOOLEAN,
                  booking : Appointment \cup {None}, started : BOOLEAN]
  BY DEF Day!TypeOK
<1>2. Length \subseteq Nat /\ Close \in Nat /\ time \in Int
  BY DEF DayAssumptions, Day!TimesAssumption, Day!TypeOK
<1>3. seat[s].from \in 0 .. Close /\ seat[s].length \in Length \cup {0}
  BY <1>1
<1>4. \A l \in Length \cup {0} : l \in Nat
  BY <1>2
<1>5. seat[s].length \in Nat
  BY <1>3, <1>4
<1> QED BY <1>2, <1>3, <1>5

\* The slot of booking b becomes [start, end), which the checks of a transaction that leaves the
\* booking own out of account accept: then it is in nobody's way, and the barber asked for is free.
LEMMA BooksKeep ==
  ASSUME DayAssumptions, Day!TypeOK, Day!NamedBarberKept, Day!WithinCapacity,
         NEW b \in Appointment, NEW new, agenda' = [agenda EXCEPT ![b] = new],
         new \in [status : {"CONFIRMED"}, start : 0 .. Close, end : 0 .. Close, staff : Staff \cup {None}, arrived : BOOLEAN],
         new.start < new.end,
         Day!Accepts(new.start, new.end, new.staff, b), UNCHANGED <<time, seat>>
  PROVE  Day!TypeOK' /\ Day!NamedBarberKept' /\ Day!WithinCapacity'
<1> USE DEF DayAssumptions, Day!TimesAssumption, Day!RowsAssumption
<1>1. Day!TypeOK'
  BY DEF Day!TypeOK
<1>2. \A a \in Appointment \ {b} : agenda'[a] = agenda[a]
  BY DEF Day!TypeOK
<1>3. agenda'[b] = new
  BY DEF Day!TypeOK
<1>4. Day!NamedBarberKept'
  <2> SUFFICES ASSUME NEW a \in Day!Upcoming', agenda'[a].staff # None
               PROVE  /\ \A c \in Day!Upcoming' \ {a} : agenda'[c].staff = agenda'[a].staff => Day!Apart(a, c)'
                      /\ LET v == seat'[agenda'[a].staff] IN
                           \/ v = Day!NoVisit \/ v.booking = a \/ agenda'[a].end <= time'
                           \/ ~Day!Overlap(v.from, v.from + v.length, agenda'[a].start, agenda'[a].end)
    BY DEF Day!NamedBarberKept
  <2> a \in Appointment
    BY DEF Day!Upcoming
  <2>1. \A c \in Appointment \ {b} : c \in Day!Upcoming' <=> c \in Day!Upcoming
    BY <1>2 DEF Day!Upcoming
  <2>2. new.staff # None => \A c \in Day!Upcoming \ {b} : agenda[c].staff = new.staff =>
          ~Day!Overlap(agenda[c].start, agenda[c].end, new.start, new.end)
    BY DEF Day!Accepts, Day!StaffFree, Day!Conflicts, Day!Booked, Day!Reserving, Day!Upcoming
  <2>3. CASE a = b
    <3>1. \A c \in Day!Upcoming' \ {a} : agenda'[c].staff = agenda'[a].staff => Day!Apart(a, c)'
      <4> SUFFICES ASSUME NEW c \in Day!Upcoming' \ {a}, agenda'[c].staff = agenda'[a].staff PROVE Day!Apart(a, c)'
        OBVIOUS
      <4> c \in Appointment BY DEF Day!Upcoming
      <4> QED BY <2>1, <2>2, <2>3, <1>2, <1>3 DEF Day!Apart, Day!Overlap, Day!TypeOK
    <3>2. LET v == seat[new.staff] IN
            v = Day!NoVisit \/ ~Day!Overlap(v.from, v.from + v.length, new.start, new.end)
      <4> DEFINE v == seat[new.staff]
      <4>1. new.staff \in Staff
        BY <2>3, <1>3
      <4>2. v.from \in Int /\ v.length \in Int /\ time \in Int
        BY <4>1, VisitType DEF DayAssumptions
      <4>3. Day!ProjectedEnd(v) \in Int /\ Day!ProjectedEnd(v) >= v.from + v.length
        BY <4>2, EndsNoEarlier
      <4>4. v = Day!NoVisit \/ ~Day!Overlap(v.from, Day!ProjectedEnd(v), new.start, new.end)
        BY <4>1 DEF Day!Accepts, Day!StaffFree, Day!Visited
      <4> QED BY <4>2, <4>3, <4>4 DEF Day!Overlap
    <3> QED BY <3>1, <3>2, <2>3, <1>3
  <2>4. CASE a # b
    <3>1. a \in Day!Upcoming /\ agenda'[a] = agenda[a]
      BY <2>4, <2>1, <1>2
    <3>2. \A c \in Day!Upcoming' \ {a} : agenda'[c].staff = agenda'[a].staff => Day!Apart(a, c)'
      <4> SUFFICES ASSUME NEW c \in Day!Upcoming' \ {a}, agenda'[c].staff = agenda'[a].staff PROVE Day!Apart(a, c)'
        OBVIOUS
      <4> c \in Appointment BY DEF Day!Upcoming
      <4>1. CASE c = b
        BY <4>1, <3>1, <2>2, <2>4, <1>3 DEF Day!Apart, Day!Overlap, Day!TypeOK
      <4>2. CASE c # b
        BY <4>2, <3>1, <2>1, <1>2 DEF Day!NamedBarberKept, Day!Apart
      <4> QED BY <4>1, <4>2
    <3> QED BY <3>1, <3>2 DEF Day!NamedBarberKept
  <2> QED BY <2>3, <2>4
<1>5. Day!WithinCapacity'
  <2> SUFFICES ASSUME NEW t \in 0 .. Close
               PROVE  Cardinality({a \in Day!Upcoming' : agenda'[a].start <= t /\ t < agenda'[a].end}) <= Day!Capacity
    BY Counts DEF Day!WithinCapacity
  <2> DEFINE Old == {a \in Day!Upcoming : agenda[a].start <= t /\ t < agenda[a].end}
             New == {a \in Day!Upcoming' : agenda'[a].start <= t /\ t < agenda'[a].end}
             Others == Day!Booked(new.start, new.end) \ {b}
  <2>0. IsFiniteSet(Appointment) /\ IsFiniteSet(Staff)
    BY Counts
  <2>1. Cardinality(Old) <= Day!Capacity
    BY Counts DEF Day!WithinCapacity
  <2>2. Old \subseteq Appointment /\ New \subseteq Appointment /\ Others \subseteq Appointment /\ Day!WalkIns(new.start, new.end) \subseteq Staff
    BY DEF Day!Upcoming, Day!Booked, Day!WalkIns, Day!Visited
  <2>3. /\ IsFiniteSet(Old) /\ IsFiniteSet(New) /\ IsFiniteSet(Others) /\ IsFiniteSet(Day!WalkIns(new.start, new.end))
        /\ Cardinality(Old) \in Nat /\ Cardinality(New) \in Nat /\ Cardinality(Others) \in Nat
        /\ Cardinality(Day!WalkIns(new.start, new.end)) \in Nat
    BY <2>0, <2>2, FS_Subset, FS_CardinalityType
  <2>4. CASE new.start <= t /\ t < new.end
    <3>1. New \subseteq Others \cup {b}
      BY <2>4, <1>2 DEF Day!Upcoming, Day!Booked, Day!Reserving, Day!Overlap, Day!TypeOK
    <3>2. Cardinality(Others) + Cardinality(Day!WalkIns(new.start, new.end)) < Day!Capacity
      BY Counts DEF Day!Accepts, Day!Reservations
    <3>3. Cardinality(Others \cup {b}) = Cardinality(Others) + 1 /\ IsFiniteSet(Others \cup {b})
      BY <2>3, FS_AddElement
    <3>4. Cardinality(New) <= Cardinality(Others) + 1
      BY <3>1, <3>3, FS_Subset
    <3> QED BY <3>2, <3>4, <2>3, CapacityIsInt
  <2>5. CASE ~(new.start <= t /\ t < new.end)
    <3>1. New \subseteq Old
      BY <2>5, <1>2, <1>3 DEF Day!Upcoming
    <3>2. Cardinality(New) <= Cardinality(Old)
      BY <3>1, <2>3, FS_Subset
    <3> QED BY <3>2, <2>1, <2>3, CapacityIsInt
  <2> QED BY <2>4, <2>5
<1> QED BY <1>1, <1>4, <1>5

\* Nothing of the appointments changes but that some leave, or that their customers arrive; and each
\* visit is as it was, or ends, or begins (again) now in a way that keeps the barber's appointments.
LEMMA FewerKeep ==
  ASSUME DayAssumptions, Day!TypeOK, Day!NamedBarberKept, Day!WithinCapacity, Day!TypeOK', time' >= time,
         \A b \in Day!Upcoming' : /\ b \in Day!Upcoming
                                  /\ agenda'[b].start = agenda[b].start /\ agenda'[b].end = agenda[b].end
                                  /\ agenda'[b].staff = agenda[b].staff,
         \A a \in Day!Upcoming' : agenda'[a].staff # None =>
           LET v == seat'[agenda'[a].staff] IN
             \/ v = seat[agenda'[a].staff] \/ v = Day!NoVisit \/ v.booking = a \/ agenda'[a].end <= time'
             \/ ~Day!Overlap(v.from, v.from + v.length, agenda'[a].start, agenda'[a].end)
  PROVE  Day!NamedBarberKept' /\ Day!WithinCapacity'
<1>1. Day!NamedBarberKept'
  <2>1. \A a \in Day!Upcoming' : agenda[a].end <= time => agenda'[a].end <= time'
    BY DEF Day!TypeOK, Day!Upcoming, DayAssumptions, Day!TimesAssumption
  <2> QED BY <2>1 DEF Day!NamedBarberKept, Day!Apart, Day!Overlap
<1>2. ASSUME NEW t \in 0 .. Close
      PROVE  Cardinality({a \in Day!Upcoming' : agenda'[a].start <= t /\ t < agenda'[a].end}) <= Day!Capacity
  <2> DEFINE Old == {a \in Day!Upcoming : agenda[a].start <= t /\ t < agenda[a].end}
             New == {a \in Day!Upcoming' : agenda'[a].start <= t /\ t < agenda'[a].end}
  <2>1. Cardinality(Old) <= Day!Capacity
    BY Counts DEF Day!WithinCapacity
  <2>2. New \subseteq Old /\ Old \subseteq Appointment
    BY DEF Day!Upcoming
  <2>3. IsFiniteSet(Old)
    BY <2>2, Counts, FS_Subset DEF DayAssumptions, Day!RowsAssumption
  <2>4. Cardinality(New) <= Cardinality(Old) /\ Cardinality(New) \in Nat /\ Cardinality(Old) \in Nat
    BY <2>2, <2>3, FS_Subset, FS_CardinalityType
  <2> QED BY <2>1, <2>4, CapacityIsInt
<1> QED BY <1>1, <1>2, Counts DEF Day!WithinCapacity

\* A visit stays where it was, or with another barber; or it begins now.
LEMMA BeganStays ==
  ASSUME DayAssumptions, Day!TypeOK, VisitsBegan, time' \in Int, time' >= time,
         \A s \in Staff : \/ \E t \in Staff : seat'[s] = seat[t]
                          \/ seat'[s] = Day!NoVisit
                          \/ seat'[s].from = time'
  PROVE  VisitsBegan'
<1>1. \A s \in Staff : seat[s].from \in Int /\ seat[s].from <= time
  BY VisitType DEF VisitsBegan
<1>2. time \in Int /\ time >= 0 /\ Day!NoVisit.from = 0
  BY DEF Day!TypeOK, DayAssumptions, Day!TimesAssumption, Day!NoVisit
<1>3. \A s \in Staff : seat'[s].from <= time'
  BY <1>1, <1>2
<1> QED BY <1>3 DEF VisitsBegan

\* One lemma per operation.  Cancelling only takes appointments and assigned customers away.
LEMMA CancelKeeps ==
  ASSUME DayAssumptions, DayInv, NEW b \in Appointment, Day!Cancel(b)
  PROVE  DayInv'
<1> USE DEF DayInv
<1>1. Day!TypeOK'
  <2>1. \A r \in AgendaRows : [r EXCEPT !.status = "CANCELLED"] \in AgendaRows
    BY DEF AgendaRows
  <2>2. agenda' \in [Appointment -> AgendaRows] /\ seat' \in [Staff -> Visits] /\ time' \in 0 .. Close
    BY <2>1, DayTypes, NothingTyped DEF Day!Cancel
  <2>3. \A a \in Appointment : agenda'[a] # Day!NoBooking =>
          agenda[a] # Day!NoBooking /\ agenda'[a].start = agenda[a].start /\ agenda'[a].end = agenda[a].end
    <3>1. \A r \in AgendaRows : LET n == [r EXCEPT !.status = "CANCELLED"] IN n.start = r.start /\ n.end = r.end
      BY DEF AgendaRows
    <3>2. agenda[b] # Day!NoBooking
      BY DEF Day!Cancel, Day!NoBooking
    <3>3. \A a \in Appointment : \/ agenda'[a] = agenda[a]
                                 \/ agenda'[a] = Day!NoBooking
                                 \/ a = b /\ agenda'[a] = [agenda[a] EXCEPT !.status = "CANCELLED"]
      BY DayTypes DEF Day!Cancel
    <3> QED BY <3>1, <3>2, <3>3, DayTypes
  <2> QED BY <2>2, <2>3, DayTypes
<1>2. VisitorsKnown'
  BY DEF Day!Cancel, Day!TypeOK, Day!NoBooking, Day!NoVisit, VisitorsKnown
<1>3. \A a \in Day!Upcoming' : a \in Day!Upcoming /\ agenda'[a] = agenda[a]
  BY DEF Day!Cancel, Day!Upcoming, Day!TypeOK, Day!NoBooking
<1>4. \A s \in Staff : seat'[s] = seat[s] \/ seat'[s] = Day!NoVisit
  BY DEF Day!Cancel
<1>5. \A a \in Day!Upcoming' : agenda'[a].staff # None => agenda'[a].staff \in Staff
  BY <1>1 DEF Day!TypeOK, Day!Upcoming
<1>6. time' = time /\ time \in Int
  BY DEF Day!Cancel, Day!TypeOK, DayAssumptions, Day!TimesAssumption
<1>7. VisitsBegan'
  BY <1>4, <1>6, BeganStays
<1> QED BY <1>1, <1>2, <1>3, <1>4, <1>5, <1>6, <1>7, FewerKeep

\* A no-show and its correction only take an appointment away.
LEMMA BecomesKeeps ==
  ASSUME DayAssumptions, DayInv, NEW b \in Appointment, Day!MarkNoShow(b) \/ Day!CorrectToCompleted(b)
  PROVE  DayInv'
<1> USE DEF DayInv
<1>1. PICK from \in {"CONFIRMED", "NO_SHOW"}, to \in {"NO_SHOW", "COMPLETED"} : Day!Becomes(b, from, to)
  BY DEF Day!MarkNoShow, Day!CorrectToCompleted
<1>2. /\ agenda[b].status = from /\ agenda[b] # Day!NoBooking
      /\ agenda' = [agenda EXCEPT ![b].status = to] /\ UNCHANGED <<time, seat>>
  BY <1>1 DEF Day!Becomes, Day!NoBooking
<1>3. \A a \in Appointment : /\ agenda'[a].start = agenda[a].start /\ agenda'[a].end = agenda[a].end
                             /\ a # b => agenda'[a] = agenda[a]
                             /\ agenda'[b].status = to
  BY <1>2 DEF Day!TypeOK
<1>4. Day!TypeOK'
  BY <1>2, <1>3 DEF Day!TypeOK
<1>5. VisitorsKnown'
  <2>1. \A s \in Staff : seat[s].booking \in Appointment \cup {None}
    BY DayTypes DEF Visits
  <2>2. Day!NoBooking.status = "NONE" /\ agenda'[b].status = to
    BY <1>3 DEF Day!NoBooking
  <2> QED BY <2>1, <2>2, <1>2, <1>3 DEF VisitorsKnown
<1>6. \A a \in Day!Upcoming' : a \in Day!Upcoming /\ agenda'[a] = agenda[a]
  BY <1>3 DEF Day!Upcoming
<1>7. time \in Int
  BY DEF Day!TypeOK, DayAssumptions, Day!TimesAssumption
<1>8. VisitsBegan'
  BY <1>2, <1>7, BeganStays
<1> QED BY <1>2, <1>4, <1>5, <1>6, <1>7, <1>8, FewerKeep

\* An assignment is made only if no appointment asks for the barber while the service lasts.
LEMMA SeatKeeps ==
  ASSUME DayAssumptions, DayInv,
         NEW s \in Staff, NEW length \in Length, NEW own \in Appointment \cup {None}, Day!Seat(s, length, own)
  PROVE  DayInv'
<1> USE DEF DayInv
<1>1. \A a \in Appointment :
        /\ agenda'[a].start = agenda[a].start /\ agenda'[a].end = agenda[a].end
        /\ agenda'[a].staff = agenda[a].staff /\ agenda'[a].status = agenda[a].status
        /\ agenda'[a] # agenda[a] => agenda[a] # Day!NoBooking
        /\ agenda'[a] = Day!NoBooking => agenda[a] = Day!NoBooking
  <2>1. \A a \in Appointment :
          \/ agenda'[a] = agenda[a]
          \/ /\ agenda[a].status = "CONFIRMED"
             /\ agenda'[a] = [agenda[a] EXCEPT !.arrived = TRUE]
    BY DEF Day!Seat, DayAssumptions, Day!RowsAssumption
  <2>2. \A r \in AgendaRows : LET n == [r EXCEPT !.arrived = TRUE] IN
          n.start = r.start /\ n.end = r.end /\ n.staff = r.staff /\ n.status = r.status
    BY DEF AgendaRows
  <2>3. Day!NoBooking.status = "NONE"
    BY DEF Day!NoBooking
  <2> TAKE a \in Appointment
  <2>4. CASE agenda'[a] = agenda[a]
    BY <2>4
  <2>5. CASE agenda[a].status = "CONFIRMED" /\ agenda'[a] = [agenda[a] EXCEPT !.arrived = TRUE]
    BY <2>2, <2>3, <2>5, DayTypes, ZenonT(30)
  <2> QED BY <2>1, <2>4, <2>5
<1>2. /\ seat' = [seat EXCEPT ![s] = [from |-> time, length |-> length, walkIn |-> own = None,
                                     booking |-> own, started |-> FALSE]]
      /\ time' = time
      /\ own # None => agenda[own] # Day!NoBooking
  BY DEF Day!Seat, Day!NoBooking
<1>3. Day!TypeOK'
  <2>1. \A r \in AgendaRows : [r EXCEPT !.arrived = TRUE] \in AgendaRows
    BY DEF AgendaRows
  <2>2. agenda' \in [Appointment -> AgendaRows]
    BY <2>1, DayTypes DEF Day!Seat
  <2>3. time \in 0 .. Close => [from |-> time, length |-> length, walkIn |-> own = None,
                              booking |-> own, started |-> FALSE] \in Visits
    BY DEF Visits
  <2> QED BY <2>2, <2>3, <1>1, <1>2, DayTypes
<1>4. VisitorsKnown'
  BY <1>1, <1>2, <1>3 DEF VisitorsKnown, Day!TypeOK
<1>5. \A a \in Day!Upcoming' : a \in Day!Upcoming /\ a \in Appointment
  BY <1>1 DEF Day!Upcoming
<1>6. ASSUME NEW a \in Day!Upcoming', agenda'[a].staff # None
      PROVE  LET v == seat'[agenda'[a].staff] IN
               \/ v = seat[agenda'[a].staff] \/ v = Day!NoVisit \/ v.booking = a \/ agenda'[a].end <= time'
               \/ ~Day!Overlap(v.from, v.from + v.length, agenda'[a].start, agenda'[a].end)
  <2>1. agenda'[a].staff \in Staff /\ a \in Appointment
    BY <1>3, <1>6 DEF Day!TypeOK, Day!Upcoming
  <2>2. CASE agenda'[a].staff # s
    BY <2>1, <2>2, <1>2 DEF Day!TypeOK
  <2>3. CASE agenda'[a].staff = s
    <3>1. seat'[s].from = time /\ seat'[s].length = length /\ seat'[s].booking = own
      BY <1>2 DEF Day!TypeOK
    <3>2. a = own \/ ~Day!Overlap(agenda[a].start, agenda[a].end, time, time + length)
      BY <1>1, <1>5, <1>6, <2>1, <2>3
         DEF Day!Seat, Day!StaffFree, Day!Conflicts, Day!Booked, Day!Reserving, Day!Upcoming
    <3>3. agenda[a].start \in Int /\ agenda[a].end \in Int /\ time \in Int
      BY <2>1 DEF Day!TypeOK
    <3>4. length \in Int
      BY DEF DayAssumptions, Day!TimesAssumption
    <3> QED BY <2>1, <2>3, <3>1, <3>2, <3>3, <3>4, <1>1 DEF Day!Overlap
  <2> QED BY <2>2, <2>3
<1>7. time' = time /\ time \in Int
  BY <1>2 DEF Day!TypeOK, DayAssumptions, Day!TimesAssumption
<1>8. VisitsBegan'
  <2>1. \A t \in Staff : seat'[t] = seat[t] \/ seat'[t].from = time'
    BY <1>2 DEF Day!TypeOK
  <2> QED BY <1>7, <2>1, BeganStays
<1> QED BY <1>1, <1>3, <1>4, <1>5, <1>6, <1>7, <1>8, FewerKeep

\* So is a start, which is when the service's time begins.
LEMMA StartKeeps ==
  ASSUME DayAssumptions, DayInv, NEW s \in Staff, Day!Start(s)
  PROVE  DayInv'
<1> USE DEF DayInv
<1>1. Day!TypeOK'
  BY DEF DayAssumptions, Day!TimesAssumption, Day!Start, Day!TypeOK
<1>2. VisitorsKnown'
  BY DEF Day!Start, Day!TypeOK, VisitorsKnown
<1>3. \A a \in Day!Upcoming' : a \in Day!Upcoming /\ agenda'[a] = agenda[a]
  BY DEF Day!Start, Day!Upcoming
<1>4. ASSUME NEW a \in Day!Upcoming', agenda'[a].staff # None
      PROVE  LET v == seat'[agenda'[a].staff] IN
               \/ v = seat[agenda'[a].staff] \/ v = Day!NoVisit \/ v.booking = a \/ agenda'[a].end <= time'
               \/ ~Day!Overlap(v.from, v.from + v.length, agenda'[a].start, agenda'[a].end)
  <2>1. agenda'[a].staff \in Staff /\ a \in Appointment
    BY <1>1, <1>4 DEF Day!TypeOK, Day!Upcoming
  <2>2. CASE agenda'[a].staff # s
    BY <2>1, <2>2 DEF Day!Start, Day!TypeOK
  <2>3. CASE agenda'[a].staff = s
    <3>1. seat'[s].from = time /\ seat'[s].length = seat[s].length /\ seat'[s].booking = seat[s].booking
      BY DEF Day!Start, Day!TypeOK
    <3>2. a = seat[s].booking \/ ~Day!Overlap(agenda[a].start, agenda[a].end, time, time + seat[s].length)
      BY <1>3, <1>4, <2>1, <2>3 DEF Day!Start, Day!Conflicts, Day!Booked, Day!Reserving, Day!Upcoming
    <3>3. agenda[a].start \in Int /\ agenda[a].end \in Int /\ time \in Int /\ seat[s].length \in Int
      BY <2>1, VisitType DEF DayAssumptions, Day!TimesAssumption, Day!TypeOK
    <3> QED BY <2>3, <3>1, <3>2, <3>3, <1>3 DEF Day!Overlap
  <2> QED BY <2>2, <2>3
<1>5. time' = time /\ time \in Int
  BY DEF Day!Start, Day!TypeOK, DayAssumptions, Day!TimesAssumption
<1>6. VisitsBegan'
  <2>1. \A t \in Staff : seat'[t] = seat[t] \/ seat'[t].from = time'
    BY DEF Day!Start, Day!TypeOK
  <2> QED BY <1>5, <2>1, BeganStays
<1> QED BY <1>1, <1>2, <1>3, <1>4, <1>5, <1>6, FewerKeep

\* A completion writes the row of the customer's booking: VisitorsKnown says that it is there, so that it
\* keeps its slot's order.
LEMMA LeavesKeep ==
  ASSUME DayAssumptions, DayInv, NEW s \in Staff, Day!Release(s) \/ Day!Complete(s)
  PROVE  DayInv'
<1> USE DEF DayInv
<1>1. \A t \in Staff : seat'[t] = seat[t] \/ seat'[t] = Day!NoVisit
  BY DEF Day!Release, Day!Complete, Day!TypeOK
<1>2. \A a \in Appointment :
        \/ agenda'[a] = agenda[a]
        \/ agenda[a] # Day!NoBooking /\ agenda'[a] = [agenda[a] EXCEPT !.status = "COMPLETED"]
  BY DEF DayAssumptions, Day!RowsAssumption, Day!Release, Day!Complete, VisitorsKnown
<1>3. Day!TypeOK'
  <2>1. \A r \in AgendaRows : LET n == [r EXCEPT !.status = "COMPLETED"] IN n \in AgendaRows /\ n.start = r.start /\ n.end = r.end
    BY DEF AgendaRows
  <2>2. agenda' \in [Appointment -> AgendaRows] /\ seat' \in [Staff -> Visits] /\ time' \in 0 .. Close
    BY <2>1, DayTypes, NothingTyped DEF Day!Release, Day!Complete
  <2> QED BY <2>1, <2>2, <1>2, DayTypes
<1>4. VisitorsKnown'
  <2>1. \A a \in Appointment : agenda[a] # Day!NoBooking => agenda'[a] # Day!NoBooking
    <3>1. \A r \in AgendaRows : [r EXCEPT !.status = "COMPLETED"].status = "COMPLETED"
      BY DEF AgendaRows
    <3>2. Day!NoBooking.status = "NONE"
      BY DEF Day!NoBooking
    <3> QED BY <3>1, <3>2, <1>2, DayTypes
  <2>2. \A t \in Staff : seat[t].booking \in Appointment \cup {None}
    BY DayTypes DEF Visits
  <2>3. Day!NoVisit.booking = None
    BY DEF Day!NoVisit
  <2> QED BY <2>1, <2>2, <2>3, <1>1 DEF VisitorsKnown
<1>5. \A a \in Day!Upcoming' : a \in Day!Upcoming /\ agenda'[a] = agenda[a]
  BY <1>2 DEF Day!Upcoming, Day!TypeOK
<1>6. \A a \in Day!Upcoming' : agenda'[a].staff # None => agenda'[a].staff \in Staff
  BY <1>3 DEF Day!TypeOK, Day!Upcoming
<1>7. time' = time /\ time \in Int
  BY DEF Day!Release, Day!Complete, Day!TypeOK, DayAssumptions, Day!TimesAssumption
<1>8. VisitsBegan'
  BY <1>1, <1>7, BeganStays
<1> QED BY <1>1, <1>3, <1>4, <1>5, <1>6, <1>7, <1>8, FewerKeep

\* A service that goes on with another barber is due to end, from now on, before what that barber is
\* asked for; what was asked of the barber earlier is over.
LEMMA ReassignKeeps ==
  ASSUME DayAssumptions, DayInv, NEW s \in Staff, NEW t \in Staff, Day!Reassign(s, t)
  PROVE  DayInv'
<1> USE DEF DayInv
<1>1. /\ seat' = [seat EXCEPT ![s] = Day!NoVisit, ![t] = seat[s]] /\ UNCHANGED <<time, agenda>>
      /\ Day!StaffFree(t, time, time + seat[s].length, seat[s].booking)
  BY DEF Day!Reassign
<1>2. seat' \in [Staff -> Visits]
  BY <1>1, DayTypes, NothingTyped
<1>3. Day!TypeOK'
  BY <1>1, <1>2, DayTypes
<1>4. /\ seat'[t] = seat[s]
      /\ \A x \in Staff : x # t => seat'[x] = seat[x] \/ seat'[x] = Day!NoVisit
  BY <1>1, DayTypes
<1>5. VisitorsKnown'
  <2>1. Day!NoVisit.booking = None
    BY DEF Day!NoVisit
  <2> QED BY <1>1, <1>4, <2>1 DEF VisitorsKnown
<1>6. time' = time /\ time \in Int
  BY <1>1 DEF Day!TypeOK, DayAssumptions, Day!TimesAssumption
<1>7. VisitsBegan'
  <2>1. \A x \in Staff : (\E y \in Staff : seat'[x] = seat[y]) \/ seat'[x] = Day!NoVisit
    BY <1>4
  <2> QED BY <1>6, <2>1, BeganStays
<1>8. \A a \in Day!Upcoming' : a \in Day!Upcoming /\ agenda'[a] = agenda[a]
  BY <1>1 DEF Day!Upcoming
<1>9. ASSUME NEW a \in Day!Upcoming', agenda'[a].staff # None
      PROVE  LET v == seat'[agenda'[a].staff] IN
               \/ v = seat[agenda'[a].staff] \/ v = Day!NoVisit \/ v.booking = a \/ agenda'[a].end <= time'
               \/ ~Day!Overlap(v.from, v.from + v.length, agenda'[a].start, agenda'[a].end)
  <2>1. agenda'[a].staff \in Staff /\ a \in Appointment /\ agenda[a].status = "CONFIRMED"
    BY <1>3, <1>8, <1>9 DEF Day!TypeOK, Day!Upcoming
  <2>2. CASE agenda'[a].staff # t
    BY <1>4, <2>1, <2>2
  <2>3. CASE agenda'[a].staff = t
    <3>1. a = seat[s].booking \/ ~Day!Overlap(agenda[a].start, agenda[a].end, time, time + seat[s].length)
      BY <1>1, <1>8, <2>1, <2>3 DEF Day!StaffFree, Day!Conflicts, Day!Booked, Day!Reserving
    <3>2. /\ agenda[a].start \in Int /\ agenda[a].end \in Int
          /\ seat[s].from \in Int /\ seat[s].length \in Int /\ seat[s].from <= time
      BY <2>1, VisitType DEF VisitsBegan, Day!TypeOK
    <3> QED BY <1>4, <1>6, <1>8, <2>3, <3>1, <3>2 DEF Day!Overlap
  <2> QED BY <2>2, <2>3
<1> QED BY <1>3, <1>5, <1>6, <1>7, <1>8, <1>9, FewerKeep

\* Every step keeps the invariant.
LEMMA DayStep ==
  ASSUME DayAssumptions, DayInv, [Day!Next]_Day!vars
  PROVE  DayInv'
<1> USE DEF DayInv
<1>1. ASSUME NEW b \in Appointment, NEW start \in 0 .. Close, NEW length \in Length, NEW s \in Staff \cup {None},
             Day!Create(b, start, length, s) \/ Day!CreateInShop(b, start, length, s)
      PROVE  DayInv'
  <2> DEFINE new == Day!Confirmed(start, length, s)
  <2>1. length \in Nat \ {0} /\ Close \in Nat /\ start + length <= Close
    BY <1>1 DEF Day!Create, Day!CreateInShop, Day!Bookable, DayAssumptions, Day!TimesAssumption
  <2>2. /\ new \in [status : {"CONFIRMED"}, start : 0 .. Close, end : 0 .. Close, staff : Staff \cup {None}, arrived : BOOLEAN]
        /\ new.start = start /\ new.end = start + length /\ new.staff = s
    BY <2>1 DEF Day!Confirmed
  <2>3. agenda' = [agenda EXCEPT ![b] = new] /\ UNCHANGED <<time, seat>>
    BY <1>1 DEF Day!Create, Day!CreateInShop
  <2>4. \A from, to : Day!Booked(from, to) \ {None} = Day!Booked(from, to) \ {b}
    BY <1>1 DEF Day!Create, Day!CreateInShop, Day!New, Day!Booked, Day!Reserving, Day!NoBooking,
                DayAssumptions, Day!RowsAssumption
  <2>5. Day!Accepts(new.start, new.end, new.staff, b)
    <3>1. Day!Accepts(start, start + length, s, None) \/ Day!Accepts(start, start + length, s, b)
      BY <1>1 DEF Day!Create, Day!CreateInShop, Day!Bookable
    <3>2. Day!Accepts(start, start + length, s, None) => Day!Accepts(start, start + length, s, b)
      BY <2>4 DEF Day!Accepts, Day!Reservations, Day!StaffFree, Day!Conflicts
    <3> QED BY <2>2, <3>1, <3>2
  <2>6. VisitorsKnown'
    BY <1>1, <2>2, <2>3 DEF VisitorsKnown, Day!Create, Day!CreateInShop, Day!New, Day!TypeOK
  <2>7. new.start < new.end /\ VisitsBegan'
    BY <2>1, <2>2, <2>3 DEF VisitsBegan
  <2> HIDE DEF new
  <2> QED BY <2>2, <2>3, <2>5, <2>6, <2>7, BooksKeep
<1>2. ASSUME NEW b \in Appointment, NEW start \in 0 .. Close, Day!Reschedule(b, start)
      PROVE  DayInv'
  <2> DEFINE end == start + agenda[b].end - agenda[b].start
             new == [agenda[b] EXCEPT !.start = start, !.end = end]
  <2>1. /\ agenda[b] \in [status : {"CONFIRMED"}, start : 0 .. Close, end : 0 .. Close, staff : Staff \cup {None}, arrived : BOOLEAN]
        /\ agenda[b].start < agenda[b].end /\ end <= Close /\ Close \in Nat
    BY <1>2 DEF Day!Reschedule, Day!TypeOK, Day!NoBooking, DayAssumptions, Day!TimesAssumption
  <2>2. start < end /\ end \in 0 .. Close
    BY <2>1
  <2>3. /\ new \in [status : {"CONFIRMED"}, start : 0 .. Close, end : 0 .. Close, staff : Staff \cup {None}, arrived : BOOLEAN]
        /\ new.start = start /\ new.end = end /\ new.staff = agenda[b].staff
    BY <2>1, <2>2
  <2>4. agenda' = [agenda EXCEPT ![b] = new] /\ UNCHANGED <<time, seat>>
    BY <1>2 DEF Day!Reschedule, Day!TypeOK
  <2>5. Day!Accepts(new.start, new.end, new.staff, b)
    BY <1>2, <2>3 DEF Day!Reschedule
  <2>6. VisitorsKnown'
    BY <2>3, <2>4 DEF VisitorsKnown, Day!TypeOK, Day!NoBooking
  <2>7. VisitsBegan'
    BY <2>4 DEF VisitsBegan
  <2> HIDE DEF new
  <2> QED BY <2>2, <2>3, <2>4, <2>5, <2>6, <2>7, BooksKeep
<1>3. ASSUME Day!Tick PROVE DayInv'
  <2>1. Day!TypeOK' /\ VisitorsKnown'
    BY <1>3 DEF Day!Tick, Day!TypeOK, VisitorsKnown, DayAssumptions, Day!TimesAssumption
  <2>2. time' \in Int /\ time' >= time /\ UNCHANGED seat
    BY <1>3 DEF Day!Tick, Day!TypeOK, DayAssumptions, Day!TimesAssumption
  <2>3. VisitsBegan'
    BY <2>2, BeganStays
  <2> QED BY <1>3, <2>1, <2>2, <2>3, FewerKeep DEF Day!Tick, Day!Upcoming
<1>4. CASE UNCHANGED Day!vars
  <2>1. Day!TypeOK' /\ VisitorsKnown' /\ VisitsBegan'
    BY <1>4 DEF Day!vars, Day!TypeOK, VisitorsKnown, VisitsBegan
  <2>2. time' >= time
    BY <1>4 DEF Day!vars, Day!TypeOK, DayAssumptions, Day!TimesAssumption
  <2> QED BY <1>4, <2>1, <2>2, FewerKeep DEF Day!vars, Day!Upcoming
<1> HIDE DEF DayInv
<1> QED BY <1>1, <1>2, <1>3, <1>4, CancelKeeps, BecomesKeeps, SeatKeeps, StartKeeps, ReassignKeeps, LeavesKeep DEF Day!Next

\* A slot of the grid is shown as available exactly if booking it now would be accepted.
LEMMA ShownIsBookable ==
  ASSUME DayAssumptions PROVE Day!GridAgrees
<1>1. \A from, to : Day!Booked(from, to) \ {None} = Day!Booked(from, to)
  BY DEF DayAssumptions, Day!RowsAssumption, Day!Booked
<1> QED BY <1>1 DEF Day!GridAgrees, Day!Shown, Day!Bookable, Day!Accepts, Day!StaffFree, Day!Conflicts, Day!Reservations

\* It holds of an empty day.
LEMMA DayBegins ==
  ASSUME DayAssumptions, Day!Init
  PROVE  DayInv
<1>1. Day!TypeOK /\ VisitorsKnown /\ VisitsBegan /\ Day!Upcoming = {}
  BY DEF VisitorsKnown, VisitsBegan, DayAssumptions, Day!TimesAssumption, Day!Init, Day!TypeOK, Day!Upcoming, Day!NoBooking, Day!NoVisit
<1>2. ASSUME NEW t \in 0 .. Close
      PROVE  Cardinality({a \in Day!Upcoming : agenda[a].start <= t /\ t < agenda[a].end}) <= Day!Capacity
  <2>1. {a \in Day!Upcoming : agenda[a].start <= t /\ t < agenda[a].end} = {}
    BY <1>1
  <2>2. 0 <= Cardinality(Staff) /\ 0 <= Chairs
    BY Counts, FS_CardinalityType DEF DayAssumptions, Day!TimesAssumption, Day!RowsAssumption
  <2>3. \A m \in {Cardinality(Staff), Chairs} : 0 <= m
    BY <2>2
  <2>4. \E x \in {Cardinality(Staff), Chairs} : \A y \in {Cardinality(Staff), Chairs} : x =< y
    BY Counts, FS_CardinalityType DEF DayAssumptions, Day!TimesAssumption, Day!RowsAssumption
  <2>5. Day!Capacity >= 0
    BY <2>3, <2>4, Counts DEF Day!Capacity, Day!Min
  <2> QED BY <2>1, <2>5, FS_EmptySet
<1> QED BY <1>1, <1>2, Counts DEF DayInv, Day!NamedBarberKept, Day!WithinCapacity

\* However appointments are made, moved, cancelled and corrected, and customers assigned, started and
\* completed, no barber who was asked for by name is due at two places at one time.
THEOREM DayIsKept == ASSUME DayAssumptions PROVE Day!Spec => []DayKept
<1>1. Day!Init => DayInv
  BY DayBegins
<1>2. DayInv /\ [Day!Next]_Day!vars => DayInv'
  BY DayStep
<1>3. DayInv => DayKept
  BY DEF DayInv, DayKept, Day!DayKept
<1> QED BY <1>1, <1>2, <1>3, PTL DEF Day!Spec

\* No transaction that books lets a moment have more appointments than barbers, or than chairs.
THEOREM CapacityIsKept == ASSUME DayAssumptions PROVE Day!Spec => []WithinCapacity
<1>1. Day!Init => DayInv
  BY DayBegins
<1>2. DayInv /\ [Day!Next]_Day!vars => DayInv'
  BY DayStep
<1>3. DayInv => WithinCapacity
  BY DEF DayInv, WithinCapacity
<1> QED BY <1>1, <1>2, <1>3, PTL DEF Day!Spec

\* The grid computes its own answer (AvailabilityService) and agrees with the transaction's in every state.
THEOREM GridAlwaysAgrees == ASSUME DayAssumptions PROVE Day!Spec => []GridAgrees
<1>1. GridAgrees
  BY ShownIsBookable DEF GridAgrees
<1> QED BY <1>1, PTL
=============================================================================
