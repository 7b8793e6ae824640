----------------------------- MODULE DeliveryProofs -----------------------------
(***************************************************************************)
(* Proofs about Delivery and ArrivalPrompts, for any number of events,     *)
(* entries, processes and faults.                                          *)
(*                                                                         *)
(* That a push is accepted once is a matter of counting: the pushes that   *)
(* Expo accepted, those that attempts under way may still have accepted,   *)
(* and the one that a row hands to the next sweep are never more than one  *)
(* and the slips of the row together.                                      *)
(***************************************************************************)
EXTENDS ArrivalPrompts, FiniteSetTheorems, TLAPS

Tries(a, k) == a.key = k /\ a.step \in {"send", "answered"}
Owes(a, k) == Tries(a, k) /\ ~(a.step = "answered" /\ a.answer = "accepted")

\* The attempts on a row that Expo may still accept, or whose next attempt may be.
Pending(k) == {t \in Thread : Owes(attempt[t], k)}

\* A row that is open hands one attempt to the next sweep, if nobody holds it.
Handed(k) == IF Open(k) /\ (Trying(k) = {} \/ ledger[k].due = "now") THEN 1 ELSE 0

RowInv(k) ==
  /\ Open(k) => ledger[k].due # "never" /\ ledger[k].attempts < MaxAttempts
  /\ ~Open(k) => ledger[k].due = "never"
  /\ \A s \in Sweeper : k \in listed[s] => Open(k) /\ ledger[k].due = "now"
HolderInv(k) ==
  /\ ledger[k] = NoRow => Trying(k) = {} /\ accepted[k] = 0
  /\ slips[k] = 0 => \A t \in Trying(k) : Trying(k) = {t} /\ Open(k) /\ ledger[k].due = "later"
BudgetInv(k) == accepted[k] + Cardinality(Pending(k)) + Handed(k) <= 1 + slips[k]
KeyInv(k) == RowInv(k) /\ HolderInv(k) /\ BudgetInv(k)

LEMMA PendingIsFinite ==
  ASSUME NEW k \in Key
  PROVE  /\ IsFiniteSet(Pending(k)) /\ Cardinality(Pending(k)) \in Nat
         /\ IsFiniteSet(Pending(k)') /\ Cardinality(Pending(k)') \in Nat
<1>1. IsFiniteSet(Thread)
  BY ThreadAssumption DEF Thread
<1>2. Pending(k) \subseteq Thread /\ Pending(k)' \subseteq Thread
  BY DEF Pending
<1> QED BY <1>1, <1>2, FS_Subset, FS_CardinalityType

\* What a thread does to the attempts on a row and to the count of the pending ones.
LEMMA AttemptChanges ==
  ASSUME DeliveryTypeOK, NEW t \in Thread, NEW a \in Attempt, attempt' = [attempt EXCEPT ![t] = a], NEW k \in Key
  PROVE  /\ Trying(k)' = IF Tries(a, k) THEN Trying(k) \cup {t} ELSE Trying(k) \ {t}
         /\ Cardinality(Pending(k)') = IF Owes(a, k) <=> Owes(attempt[t], k) THEN Cardinality(Pending(k))
                                       ELSE IF Owes(a, k) THEN Cardinality(Pending(k)) + 1
                                       ELSE Cardinality(Pending(k)) - 1
         /\ t \in Trying(k) <=> Tries(attempt[t], k)
<1>1. \A u \in Thread : attempt'[u] = IF u = t THEN a ELSE attempt[u]
  BY DEF DeliveryTypeOK
<1>2. Trying(k)' = IF Tries(a, k) THEN Trying(k) \cup {t} ELSE Trying(k) \ {t}
  BY <1>1 DEF Trying, Tries
<1>3. t \in Pending(k) <=> Owes(attempt[t], k)
  BY DEF Pending
<1>4. Pending(k)' = IF Owes(a, k) THEN Pending(k) \cup {t} ELSE Pending(k) \ {t}
  BY <1>1 DEF Pending
<1>5. Cardinality(Pending(k) \cup {t}) = IF t \in Pending(k) THEN Cardinality(Pending(k)) ELSE Cardinality(Pending(k)) + 1
  BY PendingIsFinite, FS_AddElement
<1>6. Cardinality(Pending(k) \ {t}) = IF t \in Pending(k) THEN Cardinality(Pending(k)) - 1 ELSE Cardinality(Pending(k))
  BY PendingIsFinite, FS_RemoveElement
<1>7. t \in Trying(k) <=> Tries(attempt[t], k)
  BY DEF Trying, Tries
<1>8. CASE Owes(a, k)
  BY <1>3, <1>4, <1>5, <1>8, <1>2, <1>7
<1>9. CASE ~Owes(a, k)
  BY <1>3, <1>4, <1>6, <1>9, <1>2, <1>7
<1> QED BY <1>8, <1>9

\* A row that a thread neither attempted nor attempts now, and that is not written.
LEMMA OtherRow ==
  ASSUME DeliveryTypeOK, NEW k \in Key, KeyInv(k),
         NEW t \in Thread, NEW a \in Attempt, attempt' = [attempt EXCEPT ![t] = a],
         ~Tries(attempt[t], k), ~Tries(a, k),
         ledger'[k] = ledger[k], accepted'[k] = accepted[k], slips'[k] = slips[k],
         \A s \in Sweeper : k \in listed'[s] => k \in listed[s]
  PROVE  KeyInv(k)'
<1>1. Trying(k)' = Trying(k)
  <2>1. t \notin Trying(k) /\ Trying(k)' = Trying(k) \ {t}
    BY AttemptChanges
  <2> QED BY <2>1
<1>2. Cardinality(Pending(k)') = Cardinality(Pending(k))
  <2>1. ~Owes(a, k) /\ ~Owes(attempt[t], k)
    BY DEF Owes
  <2> QED BY <2>1, AttemptChanges
<1>3. Open(k)' <=> Open(k)
  BY DEF Open
<1>4. RowInv(k)'
  BY <1>3 DEF KeyInv, RowInv
<1>5. HolderInv(k)'
  BY <1>1, <1>3 DEF KeyInv, HolderInv
<1>6. Handed(k)' = Handed(k)
  BY <1>1, <1>3 DEF Handed
<1>7. BudgetInv(k)'
  BY <1>2, <1>6 DEF KeyInv, BudgetInv
<1> QED BY <1>4, <1>5, <1>7 DEF KeyInv

LEMMA Defaults == /\ NoRow \in Row /\ Idle \in Attempt /\ NoKey \notin Key
                  /\ \A k \in Key : ~Tries(Idle, k) /\ ~Owes(Idle, k)
<1>1. NoRow \in Row
  BY DEF NoRow, Row, Unsettled
<1>2. Idle \in Attempt
  BY DEF Idle, Attempt, Answer
<1>3. \A k \in Key : ~Tries(Idle, k) /\ ~Owes(Idle, k)
  BY DEF Idle, Tries, Owes
<1> QED BY <1>1, <1>2, <1>3, NoKeyAssumption

\* What is written after an attempt: a row that stays open has attempts left and a time to come.
LEMMA ResultType ==
  ASSUME NEW answer \in Answer, NEW n \in Nat
  PROVE  /\ Result(answer, n) \in Row /\ Result(answer, n) # NoRow
         /\ Result(answer, n).status \in Unsettled =>
              answer = "transient" /\ Result(answer, n).attempts < MaxAttempts /\ Result(answer, n).due = "later"
         /\ Result(answer, n).status \notin Unsettled => Result(answer, n).due = "never"
<1>1. CASE answer = "noDevices"
  BY <1>1 DEF Result, Row, Unsettled, NoRow
<1>2. CASE answer = "accepted"
  BY <1>2 DEF Result, Row, Unsettled, NoRow
<1>3. CASE answer = "rejected" \/ (answer = "transient" /\ n >= MaxAttempts)
  BY <1>3 DEF Result, Row, Unsettled, NoRow
<1>4. CASE answer = "transient" /\ ~(n >= MaxAttempts)
  BY <1>4, BoundsAssumption DEF Result, Row, Unsettled, NoRow
<1> QED BY <1>1, <1>2, <1>3, <1>4 DEF Answer

(***************************************************************************)
(* The steps of a thread.  t is the thread, k any row.                     *)
(***************************************************************************)
LEMMA QuietKeeps ==
  ASSUME DeliveryTypeOK, NEW t \in Thread, NEW x \in Key, NEW k \in Key, KeyInv(k),
         Report(t, x) \/ PushRecorded(t) \/ PushNotRecorded(t)
  PROVE  KeyInv(k)'
<1> DEFINE a == IF Report(t, x) THEN [Idle EXCEPT !.step = "push", !.key = x] ELSE Idle
<1>1. a \in Attempt /\ attempt' = [attempt EXCEPT ![t] = a] /\ ~Tries(a, k)
  BY DEF Report, PushRecorded, PushNotRecorded, Attempt, Idle, Answer, Tries
<1>2. ~Tries(attempt[t], k)
  BY DEF Report, PushRecorded, PushNotRecorded, Free, Tries
<1>3. /\ ledger' = ledger /\ listed' = listed /\ accepted' = accepted /\ slips' = slips
  BY DEF Report, PushRecorded, PushNotRecorded, NoFault
<1> QED BY <1>1, <1>2, <1>3, OtherRow

LEMMA RecordPushKeeps ==
  ASSUME DeliveryTypeOK, NEW t \in Thread, NEW k \in Key, KeyInv(k), RecordPush(t)
  PROVE  KeyInv(k)'
<1> DEFINE x == attempt[t].key
           a == [attempt[t] EXCEPT !.step = "send"]
           row == [status |-> "PENDING", attempts |-> 0, due |-> "later"]
<1>1. attempt[t] \in Attempt /\ a \in Attempt /\ attempt[t].step = "push" /\ a.key = x /\ a.step = "send"
  BY DEF RecordPush, DeliveryTypeOK, Attempt
<1>2. /\ attempt' = [attempt EXCEPT ![t] = a]
      /\ ledger' = [ledger EXCEPT ![x] = row] /\ listed' = [s \in Sweeper |-> listed[s] \ {x}]
      /\ ledger[x] = NoRow /\ accepted' = accepted /\ slips' = slips
  BY DEF RecordPush, Write, NoFault, DeliveryTypeOK
<1> HIDE DEF a
<1>3. ~Tries(attempt[t], k) /\ ~Owes(attempt[t], k)
  BY <1>1 DEF Tries, Owes
<1>4. CASE k # x
  <2>1. ~Tries(a, k)
    BY <1>1, <1>4 DEF Tries
  <2>2. ledger'[k] = ledger[k] /\ \A s \in Sweeper : k \in listed'[s] => k \in listed[s]
    BY <1>2, <1>4 DEF DeliveryTypeOK
  <2> QED BY <1>1, <1>2, <1>3, <2>1, <2>2, OtherRow
<1>5. CASE k = x
  <2>1. Tries(a, k) /\ Owes(a, k)
    BY <1>1, <1>5 DEF Tries, Owes
  <2>2. Trying(k) = {} /\ accepted[k] = 0
    BY <1>2, <1>5 DEF KeyInv, HolderInv
  <2>3. Trying(k)' = {t}
    <3>1. Trying(k)' = Trying(k) \cup {t}
      BY <1>1, <1>2, <2>1, AttemptChanges
    <3> QED BY <2>2, <3>1
  <2>4. Pending(k) \subseteq Trying(k)
    BY DEF Pending, Owes, Tries, Trying
  <2>5. Cardinality(Pending(k)') = 1
    <3>1. Pending(k) = {}
      BY <2>2, <2>4
    <3>2. Cardinality(Pending(k)') = Cardinality(Pending(k)) + 1
      BY <1>1, <1>2, <1>3, <2>1, AttemptChanges
    <3> QED BY <3>1, <3>2, FS_EmptySet
  <2>6. ledger'[k] = row /\ \A s \in Sweeper : k \notin listed'[s]
    BY <1>2, <1>5 DEF DeliveryTypeOK
  <2>7. Open(k)' /\ ledger'[k].due = "later" /\ ledger'[k].attempts = 0 /\ ledger'[k] # NoRow
    BY <2>6 DEF Open, Unsettled, NoRow
  <2>8. RowInv(k)'
    BY <2>6, <2>7, BoundsAssumption DEF RowInv
  <2>9. HolderInv(k)'
    BY <2>3, <2>7 DEF HolderInv
  <2>10. Handed(k)' = 0
    BY <2>3, <2>7 DEF Handed
  <2>11. slips[k] \in Nat
    BY DEF DeliveryTypeOK
  <2>12. BudgetInv(k)'
    BY <1>2, <2>2, <2>5, <2>10, <2>11 DEF BudgetInv
  <2> QED BY <2>8, <2>9, <2>12 DEF KeyInv
<1> QED BY <1>4, <1>5

\* A thread that tries x stops trying it, and writes the row of x: closed, or due later if its last
\* attempt may be followed by another.
LEMMA Concludes ==
  ASSUME DeliveryTypeOK, NEW t \in Thread, NEW k \in Key, KeyInv(k), NEW x \in Key, NEW row \in Row,
         attempt[t].key = x, Tries(attempt[t], x), attempt' = [attempt EXCEPT ![t] = Idle],
         ledger' = [ledger EXCEPT ![x] = row], listed' = [s \in Sweeper |-> listed[s] \ {x}],
         accepted' = accepted, slips' = slips, row # NoRow,
         row.status \in Unsettled => Owes(attempt[t], x) /\ row.attempts < MaxAttempts /\ row.due = "later",
         row.status \notin Unsettled => row.due = "never"
  PROVE  KeyInv(k)'
<1>1. CASE k # x
  <2>1. ~Tries(attempt[t], k) /\ ~Tries(Idle, k)
    BY <1>1, Defaults DEF Tries
  <2>2. ledger'[k] = ledger[k] /\ \A s \in Sweeper : k \in listed'[s] => k \in listed[s]
    BY <1>1 DEF DeliveryTypeOK
  <2> QED BY <2>1, <2>2, Defaults, OtherRow
<1>2. CASE k = x
  <2>1. ledger'[k] = row /\ \A s \in Sweeper : k \notin listed'[s]
    BY <1>2 DEF DeliveryTypeOK
  <2>2. Open(k)' <=> row.status \in Unsettled
    BY <2>1 DEF Open
  <2>3. RowInv(k)'
    BY <2>1, <2>2 DEF RowInv
  <2>4. t \in Trying(k) /\ Trying(k)' = Trying(k) \ {t}
    BY <1>2, Defaults, AttemptChanges
  <2>5. slips[k] = 0 => Trying(k)' = {}
    BY <2>4 DEF KeyInv, HolderInv
  <2>6. HolderInv(k)'
    BY <2>1, <2>5 DEF HolderInv
  <2>7. Cardinality(Pending(k)') = IF Owes(attempt[t], k) THEN Cardinality(Pending(k)) - 1 ELSE Cardinality(Pending(k))
    BY Defaults, AttemptChanges
  <2>8. Handed(k) \in {0, 1} /\ Handed(k)' \in {0, 1} /\ (Handed(k)' = 1 => Owes(attempt[t], k))
    BY <1>2, <2>2 DEF Handed
  <2>9. accepted[k] \in Nat /\ slips[k] \in Nat /\ Cardinality(Pending(k)) \in Nat
    BY PendingIsFinite DEF DeliveryTypeOK
  <2>10. BudgetInv(k)'
    BY <2>7, <2>8, <2>9 DEF KeyInv, BudgetInv
  <2> QED BY <2>3, <2>6, <2>10 DEF KeyInv
<1> QED BY <1>1, <1>2

LEMMA ConcludesKeeps ==
  ASSUME DeliveryTypeOK, NEW t \in Thread, NEW k \in Key, KeyInv(k), Finish(t) \/ Disallowed(t)
  PROVE  KeyInv(k)'
<1> DEFINE x == attempt[t].key
<1>0. attempt[t] \in Attempt /\ attempt[t].step \in {"send", "answered"} /\ x \in Key /\ Tries(attempt[t], x)
  BY DEF Finish, Disallowed, DeliveryTypeOK, Free, Attempt, Tries
<1>1. CASE Finish(t)
  <2> DEFINE row == Result(attempt[t].answer, attempt[t].before + 1)
  <2>1. attempt[t].answer \in Answer /\ attempt[t].before + 1 \in Nat
    BY <1>0 DEF Attempt
  <2>2. /\ row \in Row /\ row # NoRow
        /\ row.status \in Unsettled => attempt[t].answer = "transient" /\ row.attempts < MaxAttempts /\ row.due = "later"
        /\ row.status \notin Unsettled => row.due = "never"
    BY <2>1, ResultType
  <2>3. attempt[t].answer = "transient" => Owes(attempt[t], x)
    BY <1>0 DEF Owes
  <2>4. /\ attempt' = [attempt EXCEPT ![t] = Idle] /\ ledger' = [ledger EXCEPT ![x] = row]
        /\ listed' = [s \in Sweeper |-> listed[s] \ {x}] /\ accepted' = accepted /\ slips' = slips
    BY <1>1 DEF Finish, Write, NoFault
  <2> HIDE DEF row, x
  <2> QED BY <1>0, <2>2, <2>3, <2>4, Concludes DEF x
<1>2. CASE Disallowed(t)
  <2> DEFINE row == [status |-> "SKIPPED", attempts |-> 0, due |-> "never"]
  <2>1. row \in Row /\ row # NoRow /\ row.status \notin Unsettled /\ row.due = "never"
    BY DEF Row, NoRow, Unsettled
  <2>2. /\ attempt' = [attempt EXCEPT ![t] = Idle] /\ ledger' = [ledger EXCEPT ![x] = row]
        /\ listed' = [s \in Sweeper |-> listed[s] \ {x}] /\ accepted' = accepted /\ slips' = slips
    BY <1>2 DEF Disallowed, Write, NoFault
  <2> HIDE DEF row, x
  <2> QED BY <1>0, <2>1, <2>2, Concludes DEF x
<1> QED BY <1>1, <1>2

LEMMA SendKeeps ==
  ASSUME DeliveryTypeOK, NEW t \in Thread, NEW k \in Key, KeyInv(k), Send(t)
  PROVE  KeyInv(k)'
<1> DEFINE x == attempt[t].key
<1>0. attempt[t] \in Attempt /\ attempt[t].step = "send" /\ x \in Key /\ Tries(attempt[t], x) /\ Owes(attempt[t], x)
  BY DEF Send, DeliveryTypeOK, Free, Attempt, Tries, Owes
<1>1. PICK answer \in Answer, unheard \in BOOLEAN :
        /\ attempt' = [attempt EXCEPT ![t].step = "answered", ![t].answer = answer]
        /\ answer = "accepted" => ~unheard
        /\ accepted' = IF answer = "accepted" \/ unheard THEN [accepted EXCEPT ![x] = @ + 1] ELSE accepted
        /\ slips' = IF unheard THEN [slips EXCEPT ![x] = @ + 1] ELSE slips
  <2>1. CASE NoFault
    <3>1. PICK answer \in Answer :
            /\ attempt' = [attempt EXCEPT ![t].step = "answered", ![t].answer = answer]
            /\ accepted' = IF answer = "accepted" THEN [accepted EXCEPT ![x] = @ + 1] ELSE accepted
      BY <2>1 DEF Send, NoFault, Slip, Answer, DeliveryTypeOK, Fault
    <3> QED BY <2>1, <3>1 DEF NoFault
  <2>2. CASE Slip(x) /\ attempt' = [attempt EXCEPT ![t].step = "answered", ![t].answer = "transient"]
             /\ accepted' = [accepted EXCEPT ![x] = @ + 1]
    <3>1. "transient" \in Answer /\ TRUE \in BOOLEAN
      BY DEF Answer
    <3> QED BY <2>2, <3>1 DEF Slip
  <2> QED BY <2>1, <2>2 DEF Send
<1> DEFINE a == [attempt[t] EXCEPT !.step = "answered", !.answer = answer]
<1>2. a \in Attempt /\ a.key = x /\ a.step = "answered" /\ a.answer = answer /\ attempt' = [attempt EXCEPT ![t] = a]
  BY <1>0, <1>1 DEF Attempt, DeliveryTypeOK
<1>3. Tries(a, x) /\ (Owes(a, x) <=> answer # "accepted")
  BY <1>2 DEF Tries, Owes
<1>4. ledger' = ledger /\ listed' = listed
  BY DEF Send
<1>5. accepted \in [Key -> Nat] /\ slips \in [Key -> Nat]
  BY DEF DeliveryTypeOK
<1> HIDE DEF a
<1>6. CASE k # x
  <2>1. ~Tries(attempt[t], k) /\ ~Tries(a, k)
    BY <1>2, <1>6 DEF Tries
  <2>2. accepted'[k] = accepted[k] /\ slips'[k] = slips[k]
    BY <1>0, <1>1, <1>5, <1>6
  <2> QED BY <1>2, <1>4, <2>1, <2>2, OtherRow
<1>7. CASE k = x
  <2>1. Trying(k)' = Trying(k)
    <3>1. t \in Trying(k) /\ Trying(k)' = Trying(k) \cup {t}
      BY <1>0, <1>2, <1>3, <1>7, AttemptChanges
    <3> QED BY <3>1
  <2>2. Cardinality(Pending(k)') = IF answer = "accepted" THEN Cardinality(Pending(k)) - 1 ELSE Cardinality(Pending(k))
    BY <1>0, <1>2, <1>3, <1>7, AttemptChanges
  <2>3. Open(k)' <=> Open(k)
    BY <1>4 DEF Open
  <2>4. RowInv(k)'
    BY <1>4, <2>3 DEF KeyInv, RowInv
  <2>5. Handed(k)' = Handed(k)
    BY <1>4, <2>1, <2>3 DEF Handed
  <2>6. /\ accepted'[k] = IF answer = "accepted" \/ unheard THEN accepted[k] + 1 ELSE accepted[k]
        /\ slips'[k] = IF unheard THEN slips[k] + 1 ELSE slips[k]
    BY <1>0, <1>1, <1>5, <1>7
  <2>7. t \in Trying(k)
    BY <1>0, <1>2, <1>7, AttemptChanges
  <2>8. HolderInv(k)'
    BY <1>4, <1>5, <2>1, <2>3, <2>6, <2>7 DEF KeyInv, HolderInv
  <2>9. Handed(k) \in {0, 1} /\ Cardinality(Pending(k)) \in Nat /\ accepted[k] \in Nat /\ slips[k] \in Nat
    BY <1>5, PendingIsFinite DEF Handed
  <2>10. BudgetInv(k)'
    BY <1>1, <2>2, <2>5, <2>6, <2>9 DEF KeyInv, BudgetInv
  <2> QED BY <2>4, <2>8, <2>10 DEF KeyInv
<1> QED BY <1>6, <1>7

\* A thread that dies, between rounds or within.
LEMMA DeathKeeps ==
  ASSUME DeliveryTypeOK, NEW t \in Thread, NEW k \in Key, KeyInv(k), attempt' = [attempt EXCEPT ![t] = Idle],
         slips' = SlipsAfter(t), ledger' = ledger, accepted' = accepted,
         \A s \in Sweeper : k \in listed'[s] => k \in listed[s]
  PROVE  KeyInv(k)'
<1> DEFINE x == attempt[t].key
           heard == attempt[t].step = "answered" /\ attempt[t].answer = "accepted"
<1>0. attempt[t] \in Attempt /\ accepted \in [Key -> Nat] /\ slips \in [Key -> Nat]
  BY DEF DeliveryTypeOK
<1>1. CASE ~Tries(attempt[t], k)
  <2>1. slips'[k] = slips[k]
    BY <1>0, <1>1 DEF SlipsAfter, Tries
  <2> QED BY <1>1, <2>1, Defaults, OtherRow
<1>2. CASE Tries(attempt[t], k)
  <2>1. k = x /\ (Owes(attempt[t], k) <=> ~heard)
    BY <1>2 DEF Tries, Owes
  <2>2. t \in Trying(k) /\ Trying(k)' = Trying(k) \ {t}
    BY <1>2, Defaults, AttemptChanges
  <2>3. Cardinality(Pending(k)') = IF heard THEN Cardinality(Pending(k)) ELSE Cardinality(Pending(k)) - 1
    BY <2>1, Defaults, AttemptChanges
  <2>4. Open(k)' <=> Open(k)
    BY DEF Open
  <2>5. RowInv(k)'
    BY <2>4 DEF KeyInv, RowInv
  <2>6. slips'[k] = IF heard THEN slips[k] + 1 ELSE slips[k]
    BY <1>0, <2>1 DEF SlipsAfter
  <2>7. HolderInv(k)'
    <3>1. ledger[k] = NoRow => Trying(k)' = {} /\ accepted'[k] = 0
      BY <2>2 DEF KeyInv, HolderInv
    <3>2. slips'[k] = 0 => slips[k] = 0
      BY <1>0, <2>6
    <3>3. slips'[k] = 0 => Trying(k)' = {}
      BY <2>2, <3>2 DEF KeyInv, HolderInv
    <3> QED BY <3>1, <3>3 DEF HolderInv
  <2>8. Handed(k) \in {0, 1} /\ Handed(k)' \in {0, 1} /\ Cardinality(Pending(k)) \in Nat
        /\ accepted[k] \in Nat /\ slips[k] \in Nat
    BY <1>0, PendingIsFinite DEF Handed
  <2>9. BudgetInv(k)'
    BY <2>3, <2>6, <2>8 DEF KeyInv, BudgetInv
  <2> QED BY <2>5, <2>7, <2>9 DEF KeyInv
<1> QED BY <1>1, <1>2

(***************************************************************************)
(* The sweep, the clock, and everything else.                              *)
(***************************************************************************)
LEMMA ClaimRowKeeps ==
  ASSUME DeliveryTypeOK, NEW t \in Sweeper, NEW x \in Key, NEW k \in Key, KeyInv(k), ClaimRow(t, x)
  PROVE  KeyInv(k)'
<1> DEFINE a == [Idle EXCEPT !.step = "send", !.key = x, !.before = ledger[x].attempts]
<1>0. t \in Thread /\ ledger[x] \in Row /\ accepted \in [Key -> Nat] /\ slips \in [Key -> Nat]
  BY DEF Thread, DeliveryTypeOK
<1>1. a \in Attempt /\ attempt' = [attempt EXCEPT ![t] = a] /\ a.key = x /\ a.step = "send"
  BY <1>0 DEF ClaimRow, Idle, Attempt, Answer, Row
<1>2. ~Tries(attempt[t], k) /\ ~Owes(attempt[t], k)
  BY DEF ClaimRow, Free, Tries, Owes
<1>3. PICK due \in {"later", "now"} :
        /\ ledger' = [ledger EXCEPT ![x] = [ledger[x] EXCEPT !.due = due]]
        /\ listed' = [s \in Sweeper |-> listed[s] \ {x}]
        /\ due = "later" => slips' = slips
        /\ due = "now" => slips' = [slips EXCEPT ![x] = @ + 1]
  BY DEF ClaimRow, Write, NoFault, Slip
<1>4. accepted' = accepted
  BY DEF ClaimRow
<1> HIDE DEF a
<1>5. CASE k # x
  <2>1. ~Tries(a, k)
    BY <1>1, <1>5 DEF Tries
  <2>2. /\ ledger'[k] = ledger[k] /\ slips'[k] = slips[k]
        /\ \A s \in Sweeper : k \in listed'[s] => k \in listed[s]
    BY <1>0, <1>3, <1>5 DEF DeliveryTypeOK
  <2> QED BY <1>0, <1>1, <1>2, <1>4, <2>1, <2>2, OtherRow
<1>6. CASE k = x
  <2>1. Tries(a, k) /\ Owes(a, k)
    BY <1>1, <1>6 DEF Tries, Owes
  <2>2. Open(k) /\ ledger[k].due = "now" /\ ledger[k].attempts < MaxAttempts /\ ledger[k] # NoRow
    BY <1>6 DEF ClaimRow, KeyInv, RowInv, Open, NoRow, Unsettled
  <2>3. /\ ledger'[k].due = due /\ ledger'[k].attempts = ledger[k].attempts /\ ledger'[k].status = ledger[k].status
        /\ \A s \in Sweeper : k \notin listed'[s]
    BY <1>0, <1>3, <1>6 DEF DeliveryTypeOK, Row
  <2>4. Open(k)' /\ ledger'[k] # NoRow
    BY <2>2, <2>3 DEF Open, NoRow, Unsettled
  <2>5. RowInv(k)'
    BY <2>2, <2>3, <2>4 DEF RowInv
  <2>6. Trying(k)' = Trying(k) \cup {t}
    BY <1>0, <1>1, <2>1, AttemptChanges
  <2>7. Cardinality(Pending(k)') = Cardinality(Pending(k)) + 1
    BY <1>0, <1>1, <1>2, <2>1, AttemptChanges
  <2>8. slips'[k] = IF due = "now" THEN slips[k] + 1 ELSE slips[k]
    BY <1>0, <1>3, <1>6
  <2>9. slips[k] = 0 => Trying(k) = {}
    BY <2>2 DEF KeyInv, HolderInv
  <2>10. HolderInv(k)'
    BY <1>0, <2>3, <2>4, <2>6, <2>8, <2>9 DEF HolderInv
  <2>11. Handed(k) = 1 /\ (due = "later" => Handed(k)' = 0) /\ Handed(k)' \in {0, 1}
    BY <2>2, <2>3, <2>6 DEF Handed
  <2>12. Cardinality(Pending(k)) \in Nat /\ accepted[k] \in Nat /\ slips[k] \in Nat
    BY <1>0, PendingIsFinite
  <2>13. BudgetInv(k)'
    BY <1>4, <2>7, <2>8, <2>11, <2>12 DEF KeyInv, BudgetInv
  <2> QED BY <2>5, <2>10, <2>13 DEF KeyInv
<1> QED BY <1>5, <1>6

LEMMA ListKeeps ==
  ASSUME DeliveryTypeOK, NEW s \in Sweeper, NEW k \in Key, KeyInv(k), List(s)
  PROVE  KeyInv(k)'
<1>1. ledger' = ledger /\ attempt' = attempt /\ accepted' = accepted /\ slips' = slips
  BY DEF List, NoFault
<1>2. \A u \in Sweeper : k \in listed'[u] => k \in listed[u] \/ (Open(k) /\ ledger[k].due = "now")
  BY DEF List, DeliveryTypeOK
<1>3. Trying(k)' = Trying(k) /\ Pending(k)' = Pending(k) /\ (Open(k)' <=> Open(k))
  BY <1>1 DEF Trying, Pending, Open
<1>4. RowInv(k)'
  BY <1>1, <1>2, <1>3 DEF KeyInv, RowInv
<1>5. HolderInv(k)' /\ BudgetInv(k)'
  BY <1>1, <1>3 DEF KeyInv, HolderInv, BudgetInv, Handed
<1> QED BY <1>4, <1>5 DEF KeyInv

LEMMA ClockKeeps ==
  ASSUME DeliveryTypeOK, NEW x \in Key, NEW k \in Key, KeyInv(k), Elapse(x) \/ Outlives(x)
  PROVE  KeyInv(k)'
<1>0. ledger[x] \in Row /\ accepted \in [Key -> Nat] /\ slips \in [Key -> Nat]
  BY DEF DeliveryTypeOK
<1>1. /\ ledger' = [ledger EXCEPT ![x].due = "now"] /\ ledger[x].due = "later"
      /\ attempt' = attempt /\ accepted' = accepted /\ listed' = listed
      /\ slips' = slips \/ (slips' = [slips EXCEPT ![x] = @ + 1] /\ Trying(x) # {})
      /\ slips' = slips => Trying(x) = {}
  BY <1>0 DEF Elapse, Outlives, NoFault, Slip
<1>2. Trying(k)' = Trying(k) /\ Pending(k)' = Pending(k)
  BY <1>1 DEF Trying, Pending
<1>3. ledger'[k].status = ledger[k].status /\ ledger'[k].attempts = ledger[k].attempts
  BY <1>0, <1>1 DEF DeliveryTypeOK, Row
<1>4. Open(k)' <=> Open(k)
  BY <1>3 DEF Open
<1>5. CASE k # x
  <2>1. ledger'[k] = ledger[k] /\ slips'[k] = slips[k]
    BY <1>0, <1>1, <1>5 DEF DeliveryTypeOK
  <2> QED BY <1>1, <1>2, <1>4, <2>1 DEF KeyInv, RowInv, HolderInv, BudgetInv, Handed
<1>6. CASE k = x
  <2>1. ledger'[k].due = "now" /\ ledger[k].due = "later"
    BY <1>0, <1>1, <1>6 DEF DeliveryTypeOK, Row
  <2>2. Open(k) /\ ledger[k] # NoRow
    BY <2>1 DEF KeyInv, RowInv, NoRow
  <2>3. ledger'[k] # NoRow
    BY <2>1 DEF NoRow
  <2>4. RowInv(k)'
    BY <1>1, <1>3, <1>4, <2>1, <2>2 DEF KeyInv, RowInv
  <2>5. slips'[k] = 0 => Trying(k)' = {}
    BY <1>0, <1>1, <1>2, <1>6
  <2>6. HolderInv(k)'
    BY <2>3, <2>5 DEF HolderInv
  <2>7. slips'[k] = slips[k] + 1 \/ (slips'[k] = slips[k] /\ Trying(k) = {})
    BY <1>0, <1>1, <1>6
  <2>8. Handed(k)' = 1 /\ Handed(k) \in {0, 1} /\ (Trying(k) = {} => Handed(k) = 1)
    BY <1>4, <2>1, <2>2 DEF Handed
  <2>9. Cardinality(Pending(k)) \in Nat /\ accepted[k] \in Nat /\ slips[k] \in Nat
    BY <1>0, PendingIsFinite
  <2>10. BudgetInv(k)'
    BY <1>1, <1>2, <2>7, <2>8, <2>9 DEF KeyInv, BudgetInv
  <2> QED BY <2>4, <2>6, <2>10 DEF KeyInv
<1> QED BY <1>5, <1>6

LEMMA UntouchedKeeps ==
  ASSUME NEW k \in Key, KeyInv(k), UNCHANGED <<ledger, attempt, listed, accepted, slips>>
  PROVE  KeyInv(k)'
<1>1. Trying(k)' = Trying(k) /\ Pending(k)' = Pending(k) /\ (Open(k)' <=> Open(k))
  BY DEF Trying, Pending, Open
<1> QED BY <1>1 DEF KeyInv, RowInv, HolderInv, BudgetInv, Handed

LEMMA KeysKept ==
  ASSUME TypeOK, [Next]_vars, NEW k \in Key, KeyInv(k)
  PROVE  KeyInv(k)'
<1>0. DeliveryTypeOK /\ Prompter \subseteq Thread /\ Sweeper \subseteq Thread /\ Reporter \subseteq Thread
  BY PrompterAssumption DEF TypeOK, Thread
<1>1. CASE UNCHANGED vars
  BY <1>1, UntouchedKeeps DEF vars
<1>2. ASSUME NEW e \in Entry, Leaves(e) \/ registerGuestPush(e) \/ \E p \in Prompter : ClaimPrompt(p, e)
      PROVE  KeyInv(k)'
  BY <1>2, UntouchedKeeps DEF Leaves, registerGuestPush, ClaimPrompt, delivery
<1>3. ASSUME NEW p \in Prompter, TellGuest(p) \/ EndRound(p) PROVE KeyInv(k)'
  BY <1>3, UntouchedKeeps DEF TellGuest, EndRound, delivery
<1>4. ASSUME NEW p \in Prompter, NEW r \in {"owner", "customer"}, Tell(p, r) PROVE KeyInv(k)'
  <2>1. <<round[p].entry, r>> \in Key
    <3>1. round[p].entry \in Entry
      BY <1>4 DEF Tell, TypeOK, NoRound
    <3> QED BY <3>1, EntryAssumption
  <2> QED BY <1>0, <1>4, <2>1, QuietKeeps DEF Tell
<1>5. ASSUME NEW p \in Prompter, PrompterDies(p) PROVE KeyInv(k)'
  BY <1>0, <1>5, DeathKeeps DEF PrompterDies
<1>6. ASSUME NEW c \in Reporter, NEW x \in Key, Notify(c, x) PROVE KeyInv(k)'
  BY <1>0, <1>6, QuietKeeps DEF Notify
<1>7. ASSUME NEW t \in Thread, Ledger(AttemptStep(t) \/ PushNotRecorded(t) \/ Dies(t)) PROVE KeyInv(k)'
  <2>1. CASE PushRecorded(t) \/ PushNotRecorded(t)
    BY <1>0, <2>1, QuietKeeps
  <2>2. CASE RecordPush(t) \/ Disallowed(t) \/ Finish(t) \/ Send(t)
    BY <1>0, <2>2, RecordPushKeeps, ConcludesKeeps, SendKeeps
  <2>3. CASE Dies(t)
    <3>1. \A s \in Sweeper : k \in listed'[s] => k \in listed[s]
      BY <2>3 DEF Dies
    <3> QED BY <1>0, <2>3, <3>1, DeathKeeps DEF Dies
  <2> QED BY <1>7, <2>1, <2>2, <2>3 DEF Ledger, AttemptStep
<1>8. ASSUME NEW s \in Sweeper, Ledger(SweepStep(s)) PROVE KeyInv(k)'
  BY <1>0, <1>8, ListKeeps, ClaimRowKeeps DEF Ledger, SweepStep
<1>9. ASSUME NEW x \in Key, Ledger(Elapse(x) \/ Outlives(x)) PROVE KeyInv(k)'
  BY <1>0, <1>9, ClockKeeps DEF Ledger
<1> QED BY <1>1, <1>2, <1>3, <1>4, <1>5, <1>6, <1>7, <1>8, <1>9 DEF Next, PromptStep

(***************************************************************************)
(* Types.                                                                  *)
(***************************************************************************)
PromptTypes ==
  /\ changes \in SUBSET Key
  /\ patron \in [Entry -> {"customer", "guest"}]
  /\ waiting \in SUBSET Entry /\ tokens \in SUBSET Entry /\ prompted \in SUBSET Entry /\ lost \in SUBSET Entry
  /\ round \in [Prompter -> [entry : Entry \cup {NoEntry}, left : SUBSET {"owner", "customer", "guest"}]]
Apart == \A p \in Prompter : round[p].entry = NoEntry => round[p] = NoRound /\ Free(p)

LEMMA TypeParts == (TypeOK <=> DeliveryTypeOK /\ PromptTypes /\ Apart)
                   /\ (TypeOK' <=> DeliveryTypeOK' /\ PromptTypes' /\ Apart')
BY DEF TypeOK, PromptTypes, Apart

LEMMA InitTypes == Init => TypeOK
<1> SUFFICES ASSUME Init PROVE TypeOK
  OBVIOUS
<1>1. DeliveryTypeOK
  BY Defaults DEF Init, DeliveryInit, DeliveryTypeOK, Free, Idle
<1>2. PromptTypes
  BY SceneAssumption DEF Init, PromptTypes, NoRound
<1>3. Apart
  BY PrompterAssumption DEF Init, DeliveryInit, Apart, Free, Idle, Thread
<1> QED BY <1>1, <1>2, <1>3, TypeParts

\* The types of what a thread does, as one change of its attempt.
LEMMA AttemptTypes ==
  ASSUME DeliveryTypeOK, NEW t \in Thread, NEW a \in Attempt, attempt' = [attempt EXCEPT ![t] = a],
         a.key = NoKey <=> a.step = "idle", a.step = "push" => t \in Reporter,
         inApp' \in SUBSET Key, ledger' \in [Key -> Row], listed' \in [Sweeper -> SUBSET Key],
         failed' \in SUBSET Reporter, accepted' \in [Key -> Nat], slips' \in [Key -> Nat], faults' \in Nat
  PROVE  DeliveryTypeOK'
<1>1. \A u \in Thread : attempt'[u] = IF u = t THEN a ELSE attempt[u]
  BY DEF DeliveryTypeOK
<1>2. /\ attempt' \in [Thread -> Attempt]
      /\ \A u \in Thread : (attempt'[u].key = NoKey <=> attempt'[u].step = "idle") /\ (attempt'[u].step = "push" => u \in Reporter)
  BY <1>1 DEF DeliveryTypeOK, Free
<1> QED BY <1>2 DEF DeliveryTypeOK, Free

LEMMA IdleTypes == Idle \in Attempt /\ Idle.key = NoKey /\ Idle.step = "idle"
BY DEF Idle, Attempt, Answer

LEMMA ReportTypes ==
  ASSUME DeliveryTypeOK, NEW t \in Reporter, NEW x \in Key, Report(t, x)
  PROVE  DeliveryTypeOK'
<1> DEFINE a == [Idle EXCEPT !.step = "push", !.key = x]
<1>1. a \in Attempt /\ a.key # NoKey /\ a.step # "idle" /\ t \in Thread
  BY NoKeyAssumption DEF Idle, Attempt, Answer, Thread
<1>2. attempt' = [attempt EXCEPT ![t] = a] /\ UNCHANGED <<ledger, listed, accepted, slips>>
  BY DEF Report
<1> HIDE DEF a
<1>3. inApp' \in SUBSET Key /\ failed' \in SUBSET Reporter /\ faults' \in Nat
  BY DEF Report, Fault, DeliveryTypeOK
<1> QED BY <1>1, <1>2, <1>3, AttemptTypes DEF DeliveryTypeOK

LEMMA ThreadTypes ==
  ASSUME DeliveryTypeOK, NEW t \in Thread, AttemptStep(t) \/ Dies(t) \/ (t \in Reporter /\ PushNotRecorded(t))
  PROVE  DeliveryTypeOK'
<1> DEFINE x == attempt[t].key
<1>0. /\ attempt[t] \in Attempt /\ (x = NoKey <=> attempt[t].step = "idle")
      /\ inApp \in SUBSET Key /\ ledger \in [Key -> Row] /\ listed \in [Sweeper -> SUBSET Key] /\ failed \in SUBSET Reporter
      /\ accepted \in [Key -> Nat] /\ slips \in [Key -> Nat] /\ faults \in Nat
  BY DEF DeliveryTypeOK, Free
<1>1. CASE RecordPush(t)
  <2> DEFINE a == [attempt[t] EXCEPT !.step = "send"]
  <2>1. a \in Attempt /\ a.key = x /\ a.step = "send" /\ x # NoKey /\ attempt' = [attempt EXCEPT ![t] = a]
    BY <1>0, <1>1 DEF RecordPush, Attempt, DeliveryTypeOK
  <2>2. [status |-> "PENDING", attempts |-> 0, due |-> "later"] \in Row
    BY DEF Row, Unsettled
  <2>3. ledger' \in [Key -> Row] /\ listed' \in [Sweeper -> SUBSET Key]
    BY <1>0, <1>1, <2>2 DEF RecordPush, Write
  <2>4. UNCHANGED <<inApp, failed, accepted, slips, faults>>
    BY <1>1 DEF RecordPush, NoFault
  <2> HIDE DEF a
  <2> QED BY <1>0, <2>1, <2>3, <2>4, AttemptTypes
<1>2. CASE PushRecorded(t) \/ (t \in Reporter /\ PushNotRecorded(t))
  <2>1. t \in Reporter
    BY <1>2 DEF PushRecorded, DeliveryTypeOK
  <2>2. /\ attempt' = [attempt EXCEPT ![t] = Idle] /\ UNCHANGED <<inApp, ledger, listed, accepted, slips>> /\ faults' \in Nat
    BY <1>0, <1>2 DEF PushRecorded, PushNotRecorded, NoFault, Fault
  <2>3. failed' \in SUBSET Reporter
    BY <1>0, <1>2, <2>1 DEF PushRecorded, PushNotRecorded
  <2> QED BY <1>0, <2>2, <2>3, IdleTypes, AttemptTypes
<1>3. CASE Disallowed(t)
  <2>1. [status |-> "SKIPPED", attempts |-> 0, due |-> "never"] \in Row
    BY DEF Row, Unsettled
  <2>2. ledger' \in [Key -> Row] /\ listed' \in [Sweeper -> SUBSET Key]
    BY <1>0, <1>3, <2>1 DEF Disallowed, Write
  <2>3. attempt' = [attempt EXCEPT ![t] = Idle] /\ UNCHANGED <<inApp, failed, accepted, slips, faults>>
    BY <1>3 DEF Disallowed, NoFault
  <2> QED BY <1>0, <2>2, <2>3, IdleTypes, AttemptTypes
<1>4. CASE Finish(t)
  <2>1. Result(attempt[t].answer, attempt[t].before + 1) \in Row
    BY <1>0, ResultType DEF Attempt
  <2>2. ledger' \in [Key -> Row] /\ listed' \in [Sweeper -> SUBSET Key]
    BY <1>0, <1>4, <2>1 DEF Finish, Write
  <2>3. attempt' = [attempt EXCEPT ![t] = Idle] /\ failed' \in SUBSET Reporter /\ UNCHANGED <<inApp, accepted, slips, faults>>
    BY <1>0, <1>4 DEF Finish, NoFault
  <2> QED BY <1>0, <2>2, <2>3, IdleTypes, AttemptTypes
<1>5. CASE Send(t)
  <2>1. PICK answer \in Answer : attempt' = [attempt EXCEPT ![t].step = "answered", ![t].answer = answer]
    BY <1>5 DEF Send, Answer
  <2> DEFINE a == [attempt[t] EXCEPT !.step = "answered", !.answer = answer]
  <2>2. a \in Attempt /\ a.key = x /\ a.step = "answered" /\ x # NoKey /\ attempt' = [attempt EXCEPT ![t] = a]
    BY <1>0, <1>5, <2>1 DEF Send, Attempt, DeliveryTypeOK
  <2>3. accepted' \in [Key -> Nat] /\ slips' \in [Key -> Nat] /\ faults' \in Nat
    BY <1>0, <1>5 DEF Send, Slip, Fault, NoFault
  <2>4. UNCHANGED <<inApp, ledger, failed, listed>>
    BY <1>5 DEF Send
  <2> HIDE DEF a
  <2> QED BY <1>0, <2>2, <2>3, <2>4, AttemptTypes
<1>6. CASE Dies(t)
  <2>1. slips' \in [Key -> Nat] /\ faults' \in Nat /\ failed' \in SUBSET Reporter /\ listed' \in [Sweeper -> SUBSET Key]
    BY <1>0, <1>6 DEF Dies, SlipsAfter, Fault, Attempt, Free
  <2>2. attempt' = [attempt EXCEPT ![t] = Idle] /\ UNCHANGED <<inApp, ledger, accepted>>
    BY <1>6 DEF Dies
  <2> QED BY <1>0, <2>1, <2>2, IdleTypes, AttemptTypes
<1> QED BY <1>1, <1>2, <1>3, <1>4, <1>5, <1>6 DEF AttemptStep

LEMMA SweepTypes ==
  ASSUME DeliveryTypeOK, NEW s \in Sweeper, SweepStep(s)
  PROVE  DeliveryTypeOK'
<1>1. CASE List(s)
  BY <1>1 DEF List, NoFault, DeliveryTypeOK, Free
<1>2. ASSUME NEW x \in Key, ClaimRow(s, x) PROVE DeliveryTypeOK'
  <2> DEFINE a == [Idle EXCEPT !.step = "send", !.key = x, !.before = ledger[x].attempts]
  <2>0. ledger[x] \in Row /\ s \in Thread
    BY DEF DeliveryTypeOK, Thread
  <2>1. a \in Attempt /\ a.key = x /\ a.step = "send" /\ x # NoKey /\ attempt' = [attempt EXCEPT ![s] = a]
    BY <1>2, <2>0, NoKeyAssumption DEF ClaimRow, Idle, Attempt, Answer, Row
  <2>2. [ledger[x] EXCEPT !.due = "later"] \in Row /\ [ledger[x] EXCEPT !.due = "now"] \in Row
    BY <2>0 DEF Row
  <2>3. ledger' \in [Key -> Row] /\ listed' \in [Sweeper -> SUBSET Key]
    BY <1>2, <2>2 DEF ClaimRow, Write, DeliveryTypeOK
  <2>4. slips' \in [Key -> Nat] /\ faults' \in Nat
    BY <1>2 DEF ClaimRow, NoFault, Slip, Fault, DeliveryTypeOK
  <2>5. UNCHANGED <<inApp, failed, accepted>>
    BY <1>2 DEF ClaimRow
  <2> HIDE DEF a
  <2> QED BY <2>0, <2>1, <2>3, <2>4, <2>5, AttemptTypes DEF DeliveryTypeOK
<1> QED BY <1>1, <1>2 DEF SweepStep

LEMMA ClockTypes ==
  ASSUME DeliveryTypeOK, NEW x \in Key, Elapse(x) \/ Outlives(x)
  PROVE  DeliveryTypeOK'
<1>1. ledger' \in [Key -> Row]
  BY ZenonT(30) DEF Elapse, Outlives, DeliveryTypeOK, Row
<1>2. slips' \in [Key -> Nat] /\ faults' \in Nat /\ UNCHANGED <<inApp, attempt, failed, listed, accepted>>
  BY DEF Elapse, Outlives, NoFault, Slip, Fault, DeliveryTypeOK
<1> QED BY <1>1, <1>2 DEF DeliveryTypeOK, Free

LEMMA TypesKept ==
  ASSUME TypeOK, [Next]_vars
  PROVE  TypeOK'
<1>0. DeliveryTypeOK /\ PromptTypes /\ Apart /\ Prompter \subseteq Thread /\ Prompter \subseteq Reporter
  BY TypeParts, PrompterAssumption DEF Thread
<1>1. CASE UNCHANGED vars
  BY <1>1, <1>0, TypeParts DEF vars, DeliveryTypeOK, PromptTypes, Apart, Free
<1>2. ASSUME NEW e \in Entry, Leaves(e) \/ registerGuestPush(e) PROVE TypeOK'
  BY <1>0, <1>2, TypeParts DEF Leaves, registerGuestPush, delivery, DeliveryTypeOK, PromptTypes, Apart, Free
<1>3. ASSUME NEW e \in Entry, NEW p \in Prompter, ClaimPrompt(p, e) PROVE TypeOK'
  <2>1. Recipients(e) \in SUBSET {"owner", "customer", "guest"}
    BY DEF Recipients
  <2>2. PromptTypes'
    BY <1>0, <1>3, <2>1 DEF ClaimPrompt, PromptTypes
  <2>3. DeliveryTypeOK' /\ Apart'
    BY <1>0, <1>3, EntryAssumption DEF ClaimPrompt, DeliveryTypeOK, PromptTypes, Apart, Free
  <2> QED BY <2>2, <2>3, TypeParts
<1>4. ASSUME NEW p \in Prompter, NEW r \in {"owner", "customer"}, Tell(p, r) PROVE TypeOK'
  <2>1. round[p].entry \in Entry
    BY <1>0, <1>4 DEF Tell, PromptTypes, Apart, NoRound
  <2>2. <<round[p].entry, r>> \in Key
    BY <2>1, EntryAssumption
  <2>3. DeliveryTypeOK'
    BY <1>0, <1>4, <2>2, ReportTypes DEF Tell
  <2>4. PromptTypes'
    BY <1>0, <1>4, <2>1 DEF Tell, PromptTypes
  <2>5. \A q \in Prompter : q # p => attempt'[q] = attempt[q]
    BY <1>0, <1>4 DEF Tell, Report, DeliveryTypeOK
  <2>6. Apart'
    BY <1>0, <1>4, <2>1, <2>5, EntryAssumption DEF Tell, Apart, Free, PromptTypes
  <2> QED BY <2>3, <2>4, <2>6, TypeParts
<1>5. ASSUME NEW p \in Prompter, TellGuest(p) PROVE TypeOK'
  <2>1. round[p].entry \in Entry
    <3>1. "guest" \in round[p].left
      BY <1>5 DEF TellGuest
    <3> QED BY <1>0, <3>1 DEF PromptTypes, Apart, NoRound
  <2>2. PromptTypes'
    BY <1>0, <1>5, <2>1 DEF TellGuest, PromptTypes, Fault
  <2>3. DeliveryTypeOK'
    BY <1>0, <1>5 DEF TellGuest, DeliveryTypeOK, Fault, Free
  <2>4. Apart'
    BY <1>0, <1>5, <2>1, EntryAssumption DEF TellGuest, Apart, Free, PromptTypes
  <2> QED BY <2>2, <2>3, <2>4, TypeParts
<1>6. ASSUME NEW p \in Prompter, EndRound(p) PROVE TypeOK'
  <2>1. PromptTypes' /\ DeliveryTypeOK'
    BY <1>0, <1>6 DEF EndRound, PromptTypes, NoRound, delivery, DeliveryTypeOK, Free
  <2>2. Apart'
    BY <1>0, <1>6 DEF EndRound, Apart, Free, PromptTypes, delivery
  <2> QED BY <2>1, <2>2, TypeParts
<1>7. ASSUME NEW p \in Prompter, PrompterDies(p) PROVE TypeOK'
  <2>1. attempt[p] \in Attempt /\ slips \in [Key -> Nat] /\ faults \in Nat /\ (attempt[p].key = NoKey <=> attempt[p].step = "idle")
    BY <1>0 DEF DeliveryTypeOK, Free
  <2>2. slips' \in [Key -> Nat] /\ faults' \in Nat
    BY <1>7, <2>1 DEF PrompterDies, SlipsAfter, Fault, Attempt
  <2>3. attempt' = [attempt EXCEPT ![p] = Idle] /\ UNCHANGED <<inApp, ledger, failed, listed, accepted>>
    BY <1>7 DEF PrompterDies
  <2>4. DeliveryTypeOK'
    BY <1>0, <2>2, <2>3, IdleTypes, AttemptTypes DEF DeliveryTypeOK
  <2>5. round[p].entry \in Entry
    BY <1>0, <1>7 DEF PrompterDies, PromptTypes, Apart
  <2>6. PromptTypes'
    BY <1>0, <1>7, <2>5 DEF PrompterDies, PromptTypes, NoRound
  <2>7. Apart'
    BY <1>0, <1>7, <2>3, IdleTypes DEF PrompterDies, Apart, Free, PromptTypes, DeliveryTypeOK
  <2> QED BY <2>4, <2>6, <2>7, TypeParts
<1>8. ASSUME NEW c \in Reporter, NEW x \in Key, Notify(c, x) PROVE TypeOK'
  <2>1. DeliveryTypeOK'
    BY <1>0, <1>8, ReportTypes DEF Notify
  <2>2. PromptTypes'
    BY <1>0, <1>8 DEF Notify, prompts, PromptTypes
  <2>3. \A q \in Prompter : attempt'[q] = attempt[q]
    BY <1>0, <1>8 DEF Notify, Report, DeliveryTypeOK
  <2>4. Apart'
    BY <1>0, <1>8, <2>3 DEF Notify, prompts, Apart, Free
  <2> QED BY <2>1, <2>2, <2>4, TypeParts
<1>9. ASSUME NEW t \in Thread, Ledger(AttemptStep(t) \/ PushNotRecorded(t) \/ Dies(t)) PROVE TypeOK'
  <2>1. PushNotRecorded(t) => t \in Reporter
    BY <1>0 DEF PushNotRecorded, DeliveryTypeOK
  <2>2. DeliveryTypeOK'
    BY <1>0, <1>9, <2>1, ThreadTypes DEF Ledger
  <2>3. PromptTypes'
    BY <1>0, <1>9 DEF Ledger, prompts, PromptTypes
  <2>4. ~Free(t) /\ \E a : attempt' = [attempt EXCEPT ![t] = a]
    <3>1. CASE Send(t)
      <4>1. PICK answer : attempt' = [attempt EXCEPT ![t].step = "answered", ![t].answer = answer]
        BY <3>1 DEF Send
      <4>2. attempt' = [attempt EXCEPT ![t] = [attempt[t] EXCEPT !.step = "answered", !.answer = answer]]
        BY <1>0, <4>1 DEF DeliveryTypeOK
      <4> QED BY <3>1, <4>2 DEF Send, Free
    <3>2. CASE RecordPush(t)
      <4>1. attempt' = [attempt EXCEPT ![t] = [attempt[t] EXCEPT !.step = "send"]]
        BY <1>0, <3>2 DEF RecordPush, DeliveryTypeOK
      <4> QED BY <3>2, <4>1 DEF RecordPush, Free
    <3>3. CASE PushRecorded(t) \/ PushNotRecorded(t) \/ Disallowed(t) \/ Finish(t) \/ Dies(t)
      <4>1. attempt' = [attempt EXCEPT ![t] = Idle]
        BY <3>3 DEF PushRecorded, PushNotRecorded, Disallowed, Finish, Dies
      <4> QED BY <3>3, <4>1 DEF PushRecorded, PushNotRecorded, Disallowed, Finish, Dies, Free
    <3> QED BY <1>9, <3>1, <3>2, <3>3 DEF Ledger, AttemptStep
  <2>5. \A q \in Prompter : q # t => attempt'[q] = attempt[q]
    BY <1>0, <2>4 DEF DeliveryTypeOK
  <2>6. Apart'
    BY <1>0, <1>9, <2>4, <2>5 DEF Ledger, prompts, Apart, Free
  <2> QED BY <2>2, <2>3, <2>6, TypeParts
<1>10. ASSUME NEW s \in Sweeper, Ledger(SweepStep(s)) PROVE TypeOK'
  <2>1. DeliveryTypeOK' /\ PromptTypes'
    BY <1>0, <1>10, SweepTypes DEF Ledger, prompts, PromptTypes
  <2>2. \A q \in Prompter : Free(q) => attempt'[q] = attempt[q] \/ q = s
    BY <1>0, <1>10 DEF Ledger, SweepStep, List, ClaimRow, DeliveryTypeOK
  <2>3. s \notin Prompter
    BY <1>0, SweeperAssumption
  <2> QED BY <1>0, <1>10, <2>1, <2>2, <2>3, TypeParts DEF Ledger, prompts, Apart, Free
<1>11. ASSUME NEW x \in Key, Ledger(Elapse(x) \/ Outlives(x)) PROVE TypeOK'
  <2>1. DeliveryTypeOK' /\ PromptTypes'
    BY <1>0, <1>11, ClockTypes DEF Ledger, prompts, PromptTypes
  <2>2. Apart'
    BY <1>0, <1>11 DEF Ledger, prompts, Elapse, Outlives, Apart, Free
  <2> QED BY <2>1, <2>2, TypeParts
<1> QED BY <1>1, <1>2, <1>3, <1>4, <1>5, <1>6, <1>7, <1>8, <1>9, <1>10, <1>11 DEF Next, PromptStep

(***************************************************************************)
(* The prompts.                                                            *)
(***************************************************************************)
Recorded(e, r) == <<e, r>> \in inApp /\ ledger[<<e, r>>] # NoRow
Owed(e) == {"owner", patron[e]} \ {"guest"}

\* Of a round: who is neither recorded nor being recorded is still to be told, or one has failed.
RoundInv(p) ==
  LET e == round[p].entry IN
  e # NoEntry =>
    /\ e \in prompted
    /\ \A q \in Prompter : round[q].entry = e => q = p
    /\ \/ p \in failed
       \/ \A r \in Owed(e) : \/ r \in round[p].left \/ Recorded(e, r)
                             \/ attempt[p].step = "push" /\ attempt[p].key = <<e, r>> /\ <<e, r>> \in inApp
PromptInv == PromptIsRecorded /\ \A p \in Prompter : RoundInv(p)

\* No row of the ledger and no notification goes away.
LEMMA RowsStay ==
  ASSUME TypeOK, [Next]_vars, NEW k \in Key, KeyInv(k)
  PROVE  (ledger[k] # NoRow => ledger'[k] # NoRow) /\ (k \in inApp => k \in inApp')
<1>0. ledger \in [Key -> Row] /\ DeliveryTypeOK
  BY DEF TypeOK, DeliveryTypeOK
<1>1. CASE UNCHANGED <<ledger, inApp>>
  BY <1>1
<1>2. ASSUME NEW t \in Thread, NEW x \in Key, Report(t, x)
      PROVE  (ledger[k] # NoRow => ledger'[k] # NoRow) /\ (k \in inApp => k \in inApp')
  BY <1>2 DEF Report
<1>3. ASSUME NEW t \in Thread, AttemptStep(t) \/ PushNotRecorded(t) \/ Dies(t)
      PROVE  (ledger[k] # NoRow => ledger'[k] # NoRow) /\ (k \in inApp => k \in inApp')
  <2>1. CASE PushRecorded(t) \/ Send(t) \/ PushNotRecorded(t) \/ Dies(t)
    BY <1>1, <2>1 DEF PushRecorded, Send, PushNotRecorded, Dies
  <2>2. CASE RecordPush(t)
    BY <1>0, <2>2 DEF RecordPush, Write, NoRow
  <2>3. CASE Disallowed(t)
    BY <1>0, <2>3 DEF Disallowed, Write, NoRow
  <2>4. CASE Finish(t)
    <3>1. Result(attempt[t].answer, attempt[t].before + 1) # NoRow
      <4>1. attempt[t].answer \in Answer /\ attempt[t].before + 1 \in Nat
        BY <1>0 DEF DeliveryTypeOK, Attempt
      <4> QED BY <4>1, ResultType
    <3> QED BY <1>0, <2>4, <3>1 DEF Finish, Write
  <2> QED BY <1>3, <2>1, <2>2, <2>3, <2>4 DEF AttemptStep
<1>4. ASSUME NEW s \in Sweeper, SweepStep(s)
      PROVE  (ledger[k] # NoRow => ledger'[k] # NoRow) /\ (k \in inApp => k \in inApp')
  <2>1. CASE List(s)
    BY <1>1, <2>1 DEF List
  <2>2. ASSUME NEW x \in Key, ClaimRow(s, x)
        PROVE  (ledger[k] # NoRow => ledger'[k] # NoRow) /\ (k \in inApp => k \in inApp')
    BY <1>0, <2>2 DEF ClaimRow, Write, Open, Unsettled, NoRow, Row
  <2> QED BY <1>4, <2>1, <2>2 DEF SweepStep
<1>5. ASSUME NEW x \in Key, Elapse(x) \/ Outlives(x)
      PROVE  (ledger[k] # NoRow => ledger'[k] # NoRow) /\ (k \in inApp => k \in inApp')
  BY <1>0, <1>5 DEF Elapse, Outlives, NoRow, Row
<1>6. ASSUME NEW p \in Prompter, NEW r \in {"owner", "customer"}, Tell(p, r)
      PROVE  (ledger[k] # NoRow => ledger'[k] # NoRow) /\ (k \in inApp => k \in inApp')
  BY <1>6 DEF Tell, Report
<1>7. ASSUME NEW p \in Prompter, TellGuest(p) \/ EndRound(p) \/ PrompterDies(p)
      PROVE  UNCHANGED <<ledger, inApp>>
  BY <1>7 DEF TellGuest, EndRound, PrompterDies, delivery
<1>8. ASSUME NEW e \in Entry, Leaves(e) \/ registerGuestPush(e) \/ \E p \in Prompter : ClaimPrompt(p, e)
      PROVE  UNCHANGED <<ledger, inApp>>
  BY <1>8 DEF Leaves, registerGuestPush, ClaimPrompt, delivery
<1>9. CASE Next
  BY <1>1, <1>2, <1>3, <1>4, <1>5, <1>6, <1>7, <1>8, <1>9, PrompterAssumption
     DEF Next, PromptStep, Ledger, Notify, Thread
<1> QED BY <1>1, <1>9 DEF vars

\* A round that goes on as it was, its reporter failing or recording what it had begun.
LEMMA RoundsStay ==
  ASSUME TypeOK, \A k \in Key : KeyInv(k), [Next]_vars, NEW p \in Prompter, RoundInv(p),
         round'[p] = round[p], round[p].entry \in prompted => round[p].entry \in prompted',
         \A q \in Prompter : round'[q].entry = round[p].entry => round[q].entry = round[p].entry,
         patron' = patron, p \in failed => p \in failed',
         attempt[p].step = "push" => attempt'[p] = attempt[p] \/ p \in failed' \/ ledger'[attempt[p].key] # NoRow
  PROVE  RoundInv(p)'
<1>0. PICK e : e = round[p].entry
  OBVIOUS
<1>1. SUFFICES ASSUME e # NoEntry PROVE RoundInv(p)'
  BY <1>0 DEF RoundInv
<1>2. e \in Entry /\ patron \in [Entry -> {"customer", "guest"}]
  BY <1>0, <1>1 DEF TypeOK
<1>3. \A r \in Owed(e) : r \in {"owner", "customer"} /\ <<e, r>> \in Key
  BY <1>2, EntryAssumption DEF Owed
<1>4. Owed(e)' = Owed(e)
  BY DEF Owed
<1>5. \A r \in Owed(e) : Recorded(e, r) => Recorded(e, r)'
  BY <1>3, RowsStay DEF Recorded
<1>6. /\ e = round'[p].entry /\ e \in prompted' /\ \A q \in Prompter : round'[q].entry = e => q = p
      /\ \/ p \in failed'
         \/ \A r \in Owed(e) : \/ r \in round'[p].left \/ Recorded(e, r)
                               \/ attempt[p].step = "push" /\ attempt[p].key = <<e, r>> /\ <<e, r>> \in inApp
  BY <1>0, <1>1 DEF RoundInv
<1>7. CASE p \in failed'
  BY <1>6, <1>7 DEF RoundInv
<1>8. CASE p \notin failed'
  <2> SUFFICES ASSUME NEW r \in Owed(e), r \notin round'[p].left, ~Recorded(e, r)'
               PROVE  attempt'[p].step = "push" /\ attempt'[p].key = <<e, r>> /\ <<e, r>> \in inApp'
    BY <1>4, <1>6 DEF RoundInv, Recorded, Owed
  <2>1. attempt[p].step = "push" /\ attempt[p].key = <<e, r>> /\ <<e, r>> \in inApp
    BY <1>5, <1>6, <1>8
  <2>2. <<e, r>> \in inApp'
    BY <1>3, <2>1, RowsStay
  <2>3. attempt'[p] = attempt[p]
    BY <1>8, <2>1, <2>2 DEF Recorded
  <2> QED BY <2>1, <2>2, <2>3
<1> QED BY <1>7, <1>8

\* What was recorded of the prompts that no step claims, ends or loses.
LEMMA PromptsStay ==
  ASSUME TypeOK, \A k \in Key : KeyInv(k), [Next]_vars, PromptIsRecorded, NEW e \in prompted \ lost, patron' = patron,
         \A p \in Prompter : round[p].entry = e => round'[p].entry = e
  PROVE  \/ \E p \in Prompter : round'[p].entry = e
         \/ \A r \in Owed(e)' : Recorded(e, r)'
<1>1. e \in Entry /\ patron \in [Entry -> {"customer", "guest"}]
  BY DEF TypeOK
<1>2. \A r \in Owed(e) : <<e, r>> \in Key
  BY <1>1, EntryAssumption DEF Owed
<1>3. (\E p \in Prompter : round[p].entry = e) \/ \A r \in Owed(e) : Recorded(e, r)
  BY DEF PromptIsRecorded, Owed, Recorded
<1>4. \A r \in Owed(e) : Recorded(e, r) => Recorded(e, r)'
  BY <1>2, RowsStay DEF Recorded
<1>5. Owed(e)' = Owed(e)
  BY DEF Owed
<1> QED BY <1>3, <1>4, <1>5

LEMMA PromptsKept ==
  ASSUME TypeOK, TypeOK', \A k \in Key : KeyInv(k), PromptInv, [Next]_vars
  PROVE  PromptInv'
<1> USE DEF PromptInv
<1>0. DeliveryTypeOK /\ PromptTypes /\ Apart /\ Prompter \subseteq Thread /\ Prompter \subseteq Reporter
  BY TypeParts, PrompterAssumption DEF Thread
<1>1. ASSUME \A e \in prompted' \ lost' : (\E p \in Prompter : round'[p].entry = e) \/ \A r \in Owed(e)' : Recorded(e, r)'
      PROVE  PromptIsRecorded'
  BY <1>1 DEF PromptIsRecorded, Owed, Recorded
\* Steps that leave the rounds as they are.
<1>2. ASSUME UNCHANGED <<round, prompted, lost, patron>>,
             \A p \in Prompter : p \in failed => p \in failed',
             \A p \in Prompter : attempt[p].step = "push" =>
               attempt'[p] = attempt[p] \/ p \in failed' \/ ledger'[attempt[p].key] # NoRow
      PROVE  PromptInv'
  <2>1. ASSUME NEW p \in Prompter PROVE RoundInv(p)'
    <3>1. /\ RoundInv(p) /\ round'[p] = round[p] /\ patron' = patron
          /\ round[p].entry \in prompted => round[p].entry \in prompted'
          /\ \A q \in Prompter : round'[q].entry = round[p].entry => round[q].entry = round[p].entry
      BY <1>2
    <3>2. /\ p \in failed => p \in failed'
          /\ attempt[p].step = "push" => attempt'[p] = attempt[p] \/ p \in failed' \/ ledger'[attempt[p].key] # NoRow
      BY <1>2
    <3> HIDE DEF PromptInv
    <3> QED BY <3>1, <3>2, RoundsStay
  <2>2. \A e \in prompted' \ lost' : (\E p \in Prompter : round'[p].entry = e) \/ \A r \in Owed(e)' : Recorded(e, r)'
    BY <1>2, PromptsStay
  <2> QED BY <1>1, <2>1, <2>2
<1>3. ASSUME UNCHANGED vars PROVE PromptInv'
  BY <1>2, <1>3 DEF vars
<1>4. ASSUME NEW e \in Entry, Leaves(e) \/ registerGuestPush(e) PROVE PromptInv'
  BY <1>2, <1>4 DEF Leaves, registerGuestPush, delivery
<1>5. ASSUME NEW c \in Reporter, NEW x \in Key, Notify(c, x) PROVE PromptInv'
  BY <1>0, <1>2, <1>5 DEF Notify, Report, prompts, DeliveryTypeOK
<1>6. ASSUME NEW s \in Sweeper, Ledger(SweepStep(s)) PROVE PromptInv'
  <2>1. s \notin Prompter
    BY <1>0, SweeperAssumption
  <2>2. UNCHANGED <<round, prompted, lost, patron, failed>> /\ \A p \in Prompter : attempt'[p] = attempt[p]
    BY <1>0, <1>6, <2>1 DEF Ledger, SweepStep, List, ClaimRow, prompts, DeliveryTypeOK
  <2> QED BY <1>2, <2>2
<1>7. ASSUME NEW x \in Key, Ledger(Elapse(x) \/ Outlives(x)) PROVE PromptInv'
  BY <1>2, <1>7 DEF Ledger, Elapse, Outlives, prompts
<1>8. ASSUME NEW t \in Thread, Ledger(AttemptStep(t) \/ PushNotRecorded(t) \/ Dies(t)) PROVE PromptInv'
  <2>1. UNCHANGED <<round, prompted, lost, patron>>
    BY <1>8 DEF Ledger, prompts
  <2>2. failed \subseteq failed'
    BY <1>8 DEF Ledger, AttemptStep, RecordPush, PushRecorded, Disallowed, Send, Finish, PushNotRecorded, Dies
  <2>3. \A p \in Prompter : p # t => attempt'[p] = attempt[p]
    <3>1. CASE Send(t) \/ RecordPush(t)
      BY <1>0, <3>1 DEF Send, RecordPush, DeliveryTypeOK
    <3>2. CASE PushRecorded(t) \/ PushNotRecorded(t) \/ Disallowed(t) \/ Finish(t) \/ Dies(t)
      BY <1>0, <3>2 DEF PushRecorded, PushNotRecorded, Disallowed, Finish, Dies, DeliveryTypeOK
    <3> QED BY <1>8, <3>1, <3>2 DEF Ledger, AttemptStep
  <2>4. ASSUME t \in Prompter, attempt[t].step = "push"
        PROVE  t \in failed' \/ ledger'[attempt[t].key] # NoRow
    <3>1. ledger \in [Key -> Row] /\ attempt[t].key \in Key
      BY <1>0, <2>4 DEF DeliveryTypeOK, Attempt, Free
    <3>2. CASE RecordPush(t)
      BY <3>1, <3>2 DEF RecordPush, Write, NoRow
    <3>3. CASE PushRecorded(t)
      BY <3>3 DEF PushRecorded
    <3>4. CASE PushNotRecorded(t) \/ Dies(t)
      BY <1>0, <2>4, <3>4 DEF PushNotRecorded, Dies
    <3>5. ~Send(t) /\ ~Disallowed(t) /\ ~Finish(t)
      BY <2>4 DEF Send, Disallowed, Finish
    <3> QED BY <1>8, <3>2, <3>3, <3>4, <3>5 DEF Ledger, AttemptStep
  <2> QED BY <1>2, <2>1, <2>2, <2>3, <2>4
\* The steps of a round.
<1>9. ASSUME NEW p \in Prompter, NEW r \in {"owner", "customer"}, Tell(p, r) PROVE PromptInv'
  <2> DEFINE e == round[p].entry
  <2>1. /\ round' = [round EXCEPT ![p] = [entry |-> e, left |-> round[p].left \ {r}]]
        /\ UNCHANGED <<patron, prompted, lost>> /\ e # NoEntry
        /\ attempt' = [attempt EXCEPT ![p] = [Idle EXCEPT !.step = "push", !.key = <<e, r>>]]
        /\ attempt[p].step = "idle"
        /\ failed \subseteq failed' /\ (p \in failed' \/ <<e, r>> \in inApp')
    BY <1>0, <1>9 DEF Tell, Report, Free, Apart, NoRound
  <2>2. \A q \in Prompter : round'[q].entry = round[q].entry /\ (q # p => round'[q] = round[q] /\ attempt'[q] = attempt[q])
    BY <1>0, <2>1 DEF PromptTypes, DeliveryTypeOK
  <2>3. \A q \in Prompter : q # p => RoundInv(q)'
    BY <2>1, <2>2, RoundsStay
  <2>4. attempt'[p].step = "push" /\ attempt'[p].key = <<e, r>> /\ round'[p].left = round[p].left \ {r}
    BY <1>0, <2>1 DEF PromptTypes, DeliveryTypeOK, Idle
  <2>5. RoundInv(p)'
    <3>1. e \in Entry /\ \A u \in Owed(e) : <<e, u>> \in Key
      BY <1>0, <2>1, EntryAssumption DEF PromptTypes, Owed
    <3>2. \A u \in Owed(e) : Recorded(e, u) => Recorded(e, u)'
      BY <2>2, <3>1, RowsStay DEF Recorded
    <3>3. Owed(e)' = Owed(e)
      BY <2>1, <2>2 DEF Owed
    <3>4. /\ e \in prompted /\ \A q \in Prompter : round[q].entry = e => q = p
          /\ p \in failed \/ \A u \in Owed(e) : u \in round[p].left \/ Recorded(e, u)
      BY <2>1 DEF RoundInv
    <3>5. p \in failed' \/ \A u \in Owed(e) :
            \/ u \in round'[p].left \/ Recorded(e, u)'
            \/ attempt'[p].step = "push" /\ attempt'[p].key = <<e, u>> /\ <<e, u>> \in inApp'
      BY <2>1, <2>4, <3>2, <3>4
    <3>6. e = round'[p].entry
      BY <2>2
    <3> QED BY <2>1, <2>2, <3>3, <3>4, <3>5, <3>6 DEF RoundInv, Owed, Recorded
  <2>6. \A d \in prompted' \ lost' : (\E q \in Prompter : round'[q].entry = d) \/ \A u \in Owed(d)' : Recorded(d, u)'
    BY <2>1, <2>2, PromptsStay
  <2> QED BY <1>1, <2>3, <2>5, <2>6
<1>10. ASSUME NEW p \in Prompter, TellGuest(p) PROVE PromptInv'
  <2> DEFINE e == round[p].entry
  <2>1. /\ round' = [round EXCEPT ![p] = [entry |-> e, left |-> {}]] /\ round[p].left = {"guest"}
        /\ UNCHANGED <<patron, prompted, lost, attempt, inApp, ledger>> /\ failed \subseteq failed' /\ attempt[p].step = "idle"
    BY <1>10 DEF TellGuest, Free
  <2>2. \A q \in Prompter : round'[q].entry = round[q].entry /\ (q # p => round'[q] = round[q])
    BY <1>0, <2>1 DEF PromptTypes
  <2>3. \A q \in Prompter : q # p => RoundInv(q)'
    BY <2>1, <2>2, RoundsStay
  <2>4. \A u \in Owed(e) : u \notin round[p].left
    BY <2>1 DEF Owed
  <2>5. e # NoEntry => /\ e \in prompted /\ \A q \in Prompter : round[q].entry = e => q = p
                       /\ p \in failed \/ \A u \in Owed(e) : Recorded(e, u)
    BY <2>1, <2>4 DEF RoundInv
  <2>6. e = round'[p].entry /\ Owed(e)' = Owed(e) /\ \A u \in Owed(e) : Recorded(e, u)' <=> Recorded(e, u)
    BY <2>1, <2>2 DEF Owed, Recorded
  <2>7. RoundInv(p)'
    BY <2>1, <2>2, <2>5, <2>6 DEF RoundInv, Owed, Recorded
  <2>8. \A d \in prompted' \ lost' : (\E q \in Prompter : round'[q].entry = d) \/ \A u \in Owed(d)' : Recorded(d, u)'
    BY <2>1, <2>2, PromptsStay
  <2> QED BY <1>1, <2>3, <2>7, <2>8
<1>11. ASSUME NEW p \in Prompter, NEW e \in Entry, ClaimPrompt(p, e) PROVE PromptInv'
  <2>1. /\ round' = [round EXCEPT ![p] = [entry |-> e, left |-> Recipients(e)]] /\ round[p] = NoRound
        /\ prompted' = prompted \cup {e} /\ e \notin prompted /\ failed' = failed \ {p}
        /\ UNCHANGED <<patron, lost, attempt, inApp, ledger>>
    BY <1>11 DEF ClaimPrompt
  <2>2. round'[p] = [entry |-> e, left |-> Recipients(e)] /\ \A q \in Prompter : q # p => round'[q] = round[q]
    BY <1>0, <2>1 DEF PromptTypes
  <2>3. \A q \in Prompter : round[q].entry # e
    BY <2>1, EntryAssumption DEF RoundInv
  <2>4. \A q \in Prompter : q # p => RoundInv(q)'
    <3> SUFFICES ASSUME NEW q \in Prompter, q # p PROVE RoundInv(q)'
      OBVIOUS
    <3>1. \A w \in Prompter : round'[w].entry = round[q].entry => round[w].entry = round[q].entry
      BY <2>2, <2>3
    <3> QED BY <2>1, <2>2, <3>1, RoundsStay
  <2>5. Owed(e) \subseteq Recipients(e) /\ Owed(e)' = Owed(e)
    BY <1>0, <2>1 DEF Owed, Recipients, PromptTypes
  <2>6. RoundInv(p)'
    BY <2>1, <2>2, <2>3, <2>5 DEF RoundInv, Owed, Recorded
  <2>7. \A d \in prompted' \ lost' : (\E q \in Prompter : round'[q].entry = d) \/ \A u \in Owed(d)' : Recorded(d, u)'
    <3> SUFFICES ASSUME NEW d \in prompted' \ lost'
                 PROVE  (\E q \in Prompter : round'[q].entry = d) \/ \A u \in Owed(d)' : Recorded(d, u)'
      OBVIOUS
    <3>1. CASE d = e
      BY <2>2, <3>1
    <3>2. CASE d # e
      <4>1. d \in prompted \ lost /\ d \in Entry
        BY <1>0, <2>1, <3>2 DEF PromptTypes
      <4>2. \A q \in Prompter : round[q].entry = d => round'[q].entry = d
        BY <2>1, <2>2, <4>1, EntryAssumption DEF NoRound
      <4> QED BY <2>1, <4>1, <4>2, PromptsStay
    <3> QED BY <3>1, <3>2
  <2> QED BY <1>1, <2>4, <2>6, <2>7
\* A round that ends, or is lost with its process.
<1>12. ASSUME NEW p \in Prompter, EndRound(p) \/ PrompterDies(p) PROVE PromptInv'
  <2> DEFINE e == round[p].entry
  <2>1. /\ round' = [round EXCEPT ![p] = NoRound] /\ UNCHANGED <<patron, failed, inApp, ledger>> /\ round[p] # NoRound
        /\ lost \subseteq lost' /\ prompted \ {e} \subseteq prompted' /\ prompted' \subseteq prompted
    BY <1>12 DEF EndRound, PrompterDies, delivery
  <2>2. e \in Entry /\ round'[p] = NoRound /\ \A q \in Prompter : q # p => round'[q] = round[q]
    BY <1>0, <2>1 DEF PromptTypes, Apart
  <2>3. \A q \in Prompter : q # p => attempt'[q] = attempt[q] /\ round[q].entry # e
    BY <1>0, <1>12, <2>2, EntryAssumption DEF EndRound, PrompterDies, delivery, DeliveryTypeOK, RoundInv
  <2>4. RoundInv(p)'
    BY <2>2 DEF RoundInv, NoRound
  <2>5. \A q \in Prompter : q # p => RoundInv(q)'
    <3> SUFFICES ASSUME NEW q \in Prompter, q # p PROVE RoundInv(q)'
      OBVIOUS
    <3>1. CASE round[q].entry = NoEntry
      BY <2>2, <3>1 DEF RoundInv
    <3>2. CASE round[q].entry # NoEntry
      <4>1. \A w \in Prompter : round'[w].entry = round[q].entry => round[w].entry = round[q].entry
        BY <2>2, <3>2 DEF NoRound
      <4>2. round[q].entry \in prompted => round[q].entry \in prompted'
        BY <2>1, <2>3
      <4> QED BY <2>1, <2>2, <2>3, <4>1, <4>2, RoundsStay
    <3> QED BY <3>1, <3>2
  <2>6. \A d \in prompted' \ lost' : (\E q \in Prompter : round'[q].entry = d) \/ \A u \in Owed(d)' : Recorded(d, u)'
    <3> SUFFICES ASSUME NEW d \in prompted' \ lost'
                 PROVE  (\E q \in Prompter : round'[q].entry = d) \/ \A u \in Owed(d)' : Recorded(d, u)'
      OBVIOUS
    <3>1. d \in prompted \ lost
      BY <2>1
    <3>2. CASE d # e
      <4>1. \A q \in Prompter : round[q].entry = d => round'[q].entry = d
        BY <2>2, <3>2
      <4> QED BY <2>1, <3>1, <4>1, PromptsStay
    <3>3. CASE d = e
      <4>1. EndRound(p)
        BY <1>12, <3>3 DEF PrompterDies
      <4>2. p \notin failed /\ attempt[p].step = "idle" /\ round[p].left = {}
        BY <3>3, <4>1 DEF EndRound, Free
      <4>3. \A u \in Owed(e) : Recorded(e, u)
        BY <2>2, <4>2, EntryAssumption DEF RoundInv
      <4>4. \A u \in Owed(d) : Recorded(d, u)
        BY <3>3, <4>3
      <4>5. Owed(d)' = Owed(d) /\ \A u \in Owed(d) : Recorded(d, u)' <=> Recorded(d, u)
        BY <2>1 DEF Owed, Recorded
      <4> QED BY <4>4, <4>5
    <3> QED BY <3>2, <3>3
  <2> QED BY <1>1, <2>4, <2>5, <2>6
<1> QED BY <1>3, <1>4, <1>5, <1>6, <1>7, <1>8, <1>9, <1>10, <1>11, <1>12 DEF Next, PromptStep

(***************************************************************************)
(* The invariant.                                                          *)
(***************************************************************************)
LEMMA InitKeeps ==
  ASSUME Init
  PROVE  (\A k \in Key : KeyInv(k)) /\ PromptInv
<1>1. /\ \A t \in Thread : attempt[t] = Idle
      /\ \A k \in Key : ledger[k] = NoRow /\ accepted[k] = 0 /\ slips[k] = 0
      /\ \A s \in Sweeper : listed[s] = {}
      /\ prompted = {} /\ \A p \in Prompter : round[p] = NoRound
  BY DEF Init, DeliveryInit
<1>2. ASSUME NEW k \in Key PROVE KeyInv(k)
  <2>1. Trying(k) = {} /\ Pending(k) = {}
    BY <1>1, Defaults DEF Trying, Pending, Tries
  <2>2. ~Open(k) /\ ledger[k].due = "never"
    BY <1>1 DEF Open, NoRow, Unsettled
  <2>3. Handed(k) = 0 /\ Cardinality(Pending(k)) = 0
    BY <2>1, <2>2, FS_EmptySet DEF Handed
  <2> QED BY <1>1, <2>1, <2>2, <2>3 DEF KeyInv, RowInv, HolderInv, BudgetInv
<1>3. PromptInv
  BY <1>1 DEF PromptInv, PromptIsRecorded, RoundInv, NoRound
<1> QED BY <1>2, <1>3

LEMMA Invariants == Spec => [](TypeOK /\ (\A k \in Key : KeyInv(k)) /\ PromptInv)
<1>1. Init => TypeOK /\ (\A k \in Key : KeyInv(k)) /\ PromptInv
  BY InitTypes, InitKeeps
<1>2. TypeOK /\ (\A k \in Key : KeyInv(k)) /\ PromptInv /\ [Next]_vars
        => TypeOK' /\ (\A k \in Key : KeyInv(k))' /\ PromptInv'
  <2> SUFFICES ASSUME TypeOK, \A k \in Key : KeyInv(k), PromptInv, [Next]_vars
               PROVE  TypeOK' /\ (\A k \in Key : KeyInv(k))' /\ PromptInv'
    OBVIOUS
  <2>1. TypeOK'
    BY TypesKept
  <2>2. \A k \in Key : KeyInv(k)'
    BY KeysKept
  <2>3. PromptInv'
    BY <2>1, PromptsKept
  <2> QED BY <2>1, <2>2, <2>3
<1> QED BY <1>1, <1>2, PTL DEF Spec

\* Every variable holds a value of its column; a prompter that reports has claimed the entry.
THEOREM Typing == Spec => []TypeOK
<1> QED BY Invariants, PTL

\* deliverPush, attemptPush and sweepRetries: however many reporters and sweeps there are, Expo accepts
\* a push once, and once more at most for each slip.
THEOREM PushAcceptedOnce == Spec => []PushedOnce
<1>1. TypeOK /\ (\A k \in Key : KeyInv(k)) => PushedOnce
  <2> SUFFICES ASSUME TypeOK, \A k \in Key : KeyInv(k), NEW k \in Key
               PROVE  accepted[k] <= 1 + slips[k]
    BY DEF PushedOnce
  <2>1. accepted[k] \in Nat /\ slips[k] \in Nat /\ Cardinality(Pending(k)) \in Nat /\ Handed(k) \in {0, 1}
    BY PendingIsFinite DEF TypeOK, DeliveryTypeOK, Handed
  <2> QED BY <2>1 DEF KeyInv, BudgetInv
<1> QED BY <1>1, Invariants, PTL

\* finish, sweepRetries: nothing rewrites a row that is SENT unless an attempt outlived its lease or
\* its answer was lost.
THEOREM SentStays == Spec => SentIsKept
<1>1. TypeOK /\ (\A k \in Key : KeyInv(k)) /\ [Next]_vars
        => [\A k \in Key : ledger[k].status = "SENT" /\ ledger'[k] # ledger[k] => slips[k] > 0]_delivery
  <2> SUFFICES ASSUME TypeOK, \A x \in Key : KeyInv(x), [Next]_vars,
                      NEW k \in Key, ledger[k].status = "SENT", ledger'[k] # ledger[k], slips[k] = 0
               PROVE  FALSE
    BY DEF TypeOK, DeliveryTypeOK
  <2>1. ~Open(k) /\ Trying(k) = {} /\ ledger[k] # NoRow /\ ledger[k].due = "never"
    BY DEF Open, Unsettled, KeyInv, HolderInv, RowInv, NoRow
  <2>2. ledger \in [Key -> Row] /\ \A t \in Thread : attempt[t].key = k => attempt[t].step \notin {"send", "answered"}
    BY <2>1 DEF TypeOK, DeliveryTypeOK, Trying
  <2>3. \A t \in Thread : AttemptStep(t) => ledger'[k] = ledger[k]
    BY <2>1, <2>2 DEF AttemptStep, RecordPush, PushRecorded, Disallowed, Send, Finish, Write
  <2>4. \A t \in Thread : PushNotRecorded(t) \/ Dies(t) => ledger'[k] = ledger[k]
    BY DEF PushNotRecorded, Dies
  <2>5. \A s \in Sweeper : SweepStep(s) => ledger'[k] = ledger[k]
    BY <2>1, <2>2 DEF SweepStep, List, ClaimRow, Write
  <2>6. \A x \in Key : Elapse(x) \/ Outlives(x) => ledger'[k] = ledger[k]
    BY <2>1, <2>2 DEF Elapse, Outlives
  <2>7. \A p \in Prompter : PromptStep(p) \/ PrompterDies(p) => ledger' = ledger
    BY DEF PromptStep, Tell, TellGuest, EndRound, PrompterDies, Report, delivery
  <2>8. \A e \in Entry : Leaves(e) \/ registerGuestPush(e) \/ (\E p \in Prompter : ClaimPrompt(p, e)) => ledger' = ledger
    BY DEF Leaves, registerGuestPush, ClaimPrompt, delivery
  <2>9. \A c \in Reporter, x \in Key : Notify(c, x) => ledger' = ledger
    BY DEF Notify, Report
  <2> QED BY <2>3, <2>4, <2>5, <2>6, <2>7, <2>8, <2>9 DEF Next, Ledger, vars
<1> QED BY <1>1, Invariants, PTL DEF Spec, SentIsKept

\* sweepRetries and finish: a row that is open has a time to come and attempts left.
THEOREM RowsAreDue == Spec => []NoRowStuck
<1>1. (\A k \in Key : KeyInv(k)) => NoRowStuck
  BY DEF KeyInv, RowInv, NoRowStuck
<1> QED BY <1>1, Invariants, PTL

\* sendDueReminders: an arrival prompt that stays claimed was recorded for the owner and the customer.
THEOREM PromptsAreRecorded == Spec => []PromptIsRecorded
<1>1. PromptInv => PromptIsRecorded
  BY DEF PromptInv
<1> QED BY <1>1, Invariants, PTL
===============================================================================
