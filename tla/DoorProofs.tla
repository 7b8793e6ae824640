------------------------------- MODULE DoorProofs -------------------------------
(***************************************************************************)
(* Proofs about Door, for any number of salons, customers, phones, logins  *)
(* and requests in progress, and any limits.                               *)
(***************************************************************************)
EXTENDS Door, FiniteSetTheorems, TLAPS

(***************************************************************************)
(* QueueJoin.                                                              *)
(***************************************************************************)
\* A row that is there was asked for.
Known ==
  /\ \A e \in Entry : entry[e] # Absent => entry[e].by \in Request /\ entry[e].status # "ABSENT"
  /\ \A a \in Call : call[a].step # "idle" => call[a].by \in Request

\* The salon's lock: one transaction at a time.  What it has read still holds when it inserts, although
\* other entries are served, leave and age meanwhile: its token is the next, and nothing refuses it.
LockedAlone ==
  \A a, o \in Call :
    call[a].step = "locked" /\ call[o].step = "locked" /\ call[a].by.salon = call[o].by.salon => a = o
Holds(a) == call[a].token = Cardinality(Made(call[a].by.salon)) + 1 /\ ~Refused(call[a].by)
ReadStillHolds == \A a \in Call : call[a].step = "locked" => Holds(a)

JoinInv == HeldOnce /\ Known /\ LockedAlone /\ ReadStillHolds /\ TokensConsecutive

\* The tokens of a salon, with the 0 of the rows that are not there, are the numbers up to the last one:
\* the next is one more than there are rows.
LEMMA NextIsCount ==
  ASSUME TypeOK, TokensConsecutive, NEW s \in Salon
  PROVE  Cardinality(Made(s)) \in Nat /\ NextToken(s) = Cardinality(Made(s)) + 1
<1>1. Cardinality(Made(s)) \in Nat
  <2>1. Made(s) \subseteq Entry
    BY DEF Made, At
  <2> QED BY <2>1, RowsAssumption, FS_Subset, FS_CardinalityType
<1>2. {entry[e].token : e \in At(s)} \cup {0} = 0 .. Cardinality(Made(s))
  <2>1. {entry[e].token : e \in Made(s)} = 1 .. Cardinality(Made(s))
    BY DEF TokensConsecutive
  <2>2. \A e \in At(s) \ Made(s) : entry[e].token = 0
    BY DEF Made, Absent
  <2>3. Made(s) \subseteq At(s)
    BY DEF Made
  <2>4. {entry[e].token : e \in At(s)} \cup {0} = {entry[e].token : e \in Made(s)} \cup {0}
    BY <2>2, <2>3
  <2> QED BY <2>1, <2>4, <1>1
<1>3. Max(0 .. Cardinality(Made(s))) = Cardinality(Made(s))
  <2>1. \E x \in 0 .. Cardinality(Made(s)) : \A y \in 0 .. Cardinality(Made(s)) : x >= y
    BY <1>1
  <2> QED BY <1>1, <2>1 DEF Max
<1> QED BY <1>1, <1>2, <1>3 DEF NextToken

\* The rows may be served, leave or age, and requests end: whoever was not refused is not refused now.
LEMMA FewerRefuse ==
  ASSUME TypeOK, TypeOK', UNCHANGED booked,
         \A e \in Entry : entry'[e].by = entry[e].by /\ (entry'[e] = Absent <=> entry[e] = Absent),
         \A e \in Entry : entry'[e].token = entry[e].token,
         Active' \subseteq Active, Waiting' \subseteq Waiting, old \subseteq old'
  PROVE  /\ \A s : Made(s)' = Made(s)
         /\ TokensConsecutive => TokensConsecutive'
         /\ \A r \in Request : ~Refused(r) => ~Refused(r)'
         /\ GuestHoldsOne /\ AddedOnce => GuestHoldsOne' /\ AddedOnce'
<1>1. \A s : At(s)' = At(s) /\ Made(s)' = Made(s)
  BY DEF At, Made
<1>2. ASSUME TokensConsecutive PROVE TokensConsecutive'
  <2> SUFFICES ASSUME NEW s \in Salon PROVE {entry'[e].token : e \in Made(s)'} = 1 .. Cardinality(Made(s)')
    BY DEF TokensConsecutive
  <2>1. {entry'[e].token : e \in Made(s)} = {entry[e].token : e \in Made(s)}
    BY DEF Made, At
  <2> QED BY <1>1, <1>2, <2>1 DEF TokensConsecutive
<1>3. ASSUME NEW r \in Request, ~Refused(r) PROVE ~Refused(r)'
  <2>1. (Active \cap At(r.salon))' \subseteq Active \cap At(r.salon)
    BY <1>1
  <2>2. IsFiniteSet(Active \cap At(r.salon))
    BY RowsAssumption, FS_Subset DEF Active
  <2>3. /\ Cardinality((Active \cap At(r.salon))') <= Cardinality(Active \cap At(r.salon))
        /\ Cardinality((Active \cap At(r.salon))') \in Nat /\ Cardinality(Active \cap At(r.salon)) \in Nat
    BY <2>1, <2>2, FS_Subset, FS_CardinalityType
  <2>4. Capacity \in Nat
    BY CapacityAssumption
  <2>5. GuestRefused(r)' => GuestRefused(r)
    BY <2>1, <2>3, <2>4 DEF GuestRefused, Active
  <2>6. JustAdded(r)' => JustAdded(r)
    BY <1>1 DEF JustAdded, Waiting
  <2> QED BY <1>3, <2>5, <2>6 DEF Refused
<1>4. ASSUME GuestHoldsOne, AddedOnce PROVE GuestHoldsOne' /\ AddedOnce'
  BY <1>4 DEF GuestHoldsOne, AddedOnce, Active, Waiting
<1> QED BY <1>1, <1>2, <1>3, <1>4

\* A request that looks, or ends, changes no row and holds no lock.
LEMMA CallsKeep ==
  ASSUME JoinInv, NEW a \in Call, (\E r \in Request : Looks(a, r)) \/ GivesUp(a)
  PROVE  JoinInv'
<1> USE DEF JoinInv, HeldOnce
<1>1. UNCHANGED <<booked, entry, old>>
  BY DEF Looks, GivesUp
<1>2. \E c : /\ call' = [call EXCEPT ![a] = c] /\ c.step # "locked" /\ (c.step # "idle" => c.by \in Request)
             /\ c \in [step : {"idle", "looked"}, token : {0}, by : Request \cup {NoRequest}]
  BY DEF Looks, GivesUp, Idle
<1>3. TypeOK'
  BY <1>1, <1>2 DEF TypeOK
<1>4. Known'
  BY <1>1, <1>2 DEF Known, TypeOK
<1>5. \A o \in Call : call'[o].step = "locked" => call'[o] = call[o]
  BY <1>2 DEF TypeOK
<1>6. LockedAlone'
  BY <1>5 DEF LockedAlone
<1>7. /\ \A s : Made(s)' = Made(s)
      /\ TokensConsecutive'
      /\ \A r \in Request : ~Refused(r) => ~Refused(r)'
      /\ GuestHoldsOne' /\ AddedOnce'
  BY <1>1, <1>3, FewerRefuse DEF Active, Waiting
<1>8. ReadStillHolds'
  BY <1>5, <1>7 DEF ReadStillHolds, Holds, Known
<1> QED BY <1>3, <1>4, <1>6, <1>7, <1>8

\* The lock is taken, and the next token read under it.
LEMMA LocksKeep ==
  ASSUME JoinInv, NEW a \in Call, Locks(a)
  PROVE  JoinInv'
<1> USE DEF JoinInv, HeldOnce
<1>1. PICK r \in Request : r = call[a].by
  BY DEF Locks, Known
<1>2. UNCHANGED <<booked, entry, old>> /\ ~Refused(r) /\ r.salon \in Salon
  BY <1>1 DEF Locks, Request
<1>3. PICK n \in Nat \ {0} : n = NextToken(r.salon) /\ n = Cardinality(Made(r.salon)) + 1
  BY <1>2, NextIsCount
<1>4. call' = [call EXCEPT ![a] = [@ EXCEPT !.step = "locked", !.token = n]]
  BY <1>1, <1>3 DEF Locks, TypeOK
<1>5. /\ call'[a].step = "locked" /\ call'[a].token = n /\ call'[a].by = r
      /\ \A o \in Call \ {a} : call'[o] = call[o]
  BY <1>1, <1>4 DEF TypeOK
<1>6. TypeOK'
  <2>1. call' \in [Call -> [step : {"idle", "looked", "locked"}, token : Nat, by : Request \cup {NoRequest}]]
    BY <1>4 DEF TypeOK
  <2> QED BY <1>2, <1>5, <2>1 DEF TypeOK
<1>7. Known'
  BY <1>2, <1>5 DEF Known
<1>8. LockedAlone'
  <2>1. \A o \in Call : call[o].step = "locked" => call[o].by.salon # r.salon
    BY <1>1 DEF Locks, Free
  <2> QED BY <1>5, <2>1 DEF LockedAlone
<1>9. /\ \A s : Made(s)' = Made(s)
      /\ TokensConsecutive'
      /\ \A q \in Request : ~Refused(q) => ~Refused(q)'
      /\ GuestHoldsOne' /\ AddedOnce'
  BY <1>2, <1>6, FewerRefuse DEF Active, Waiting
<1>10. Holds(a)'
  BY <1>2, <1>3, <1>5, <1>9 DEF Holds
<1>11. ASSUME NEW o \in Call \ {a}, call'[o].step = "locked" PROVE Holds(o)'
  BY <1>5, <1>9, <1>11 DEF Holds, ReadStillHolds, Known
<1> QED BY <1>6, <1>7, <1>8, <1>9, <1>10, <1>11 DEF ReadStillHolds

\* An entry is served, leaves the queue, or ages.
LEMMA EntriesKeep ==
  ASSUME JoinInv, NEW e \in Entry, Served(e) \/ Leaves(e) \/ Ages(e)
  PROVE  JoinInv'
<1> USE DEF JoinInv, HeldOnce
<1>1. TypeOK'
  BY DEF TypeOK, Served, Leaves, Ages, Waiting, Active
<1>2. UNCHANGED <<booked, call>> /\ old \subseteq old'
  BY DEF Served, Leaves, Ages
<1>3. \A f \in Entry :
        /\ entry'[f].by = entry[f].by /\ entry'[f].token = entry[f].token
        /\ entry'[f] # entry[f] => entry[f].status # "ABSENT" /\ entry'[f].status # "ABSENT"
  BY DEF TypeOK, Served, Leaves, Ages, Waiting, Active
<1>4. \A f \in Entry : entry'[f] = Absent <=> entry[f] = Absent
  BY <1>3 DEF Absent
<1>5. Active' \subseteq Active /\ Waiting' \subseteq Waiting
  BY DEF TypeOK, Served, Leaves, Ages, Waiting, Active
<1>6. Known'
  BY <1>2, <1>3, <1>4 DEF Known
<1>7. LockedAlone'
  BY <1>2 DEF LockedAlone
<1>8. /\ \A s : Made(s)' = Made(s)
      /\ TokensConsecutive'
      /\ \A q \in Request : ~Refused(q) => ~Refused(q)'
      /\ GuestHoldsOne' /\ AddedOnce'
  BY <1>1, <1>2, <1>3, <1>4, <1>5, FewerRefuse
<1>9. ReadStillHolds'
  BY <1>2, <1>8 DEF ReadStillHolds, Holds, Known
<1> QED BY <1>1, <1>6, <1>7, <1>8, <1>9

\* The entry is made: it is nobody else's, takes the next token, and is within the capacity.
LEMMA JoinsKeeps ==
  ASSUME JoinInv, NEW a \in Call, NEW e \in Entry, Joins(a, e)
  PROVE  /\ JoinInv'
         /\ call[a].by.source = "guest" => Cardinality((Active \cap At(call[a].by.salon)) \cup {e}) <= Capacity
<1> USE DEF JoinInv, HeldOnce
<1>1. PICK r \in Request : r = call[a].by
  BY DEF Joins, Known
<1>2. /\ call[a].step = "locked" /\ entry[e] = Absent /\ UNCHANGED <<booked, old>>
      /\ r.salon \in Salon /\ r.source \in Source /\ ~Refused(r)
      /\ call[a].token = Cardinality(Made(r.salon)) + 1
  BY <1>1 DEF Joins, Request, ReadStillHolds, Holds
<1>3. PICK n \in Nat : n = Cardinality(Made(r.salon)) /\ IsFiniteSet(Made(r.salon))
  BY <1>2, NextIsCount, RowsAssumption, FS_Subset DEF Made, At
<1>4. /\ entry'[e] = [status |-> "WAITING", token |-> n + 1, by |-> r]
      /\ \A f \in Entry \ {e} : entry'[f] = entry[f]
  BY <1>1, <1>2, <1>3 DEF Joins, TypeOK
<1>5. call' = [call EXCEPT ![a] = Idle] /\ call'[a] = Idle /\ \A o \in Call \ {a} : call'[o] = call[o]
  BY DEF Joins, TypeOK
<1>6. TypeOK'
  <2>1. entry' \in [Entry -> [status : {"ABSENT", "WAITING", "IN_SERVICE", "CLOSED"}, token : Nat,
                             by : Request \cup {NoRequest}]]
    BY <1>2, <1>3, <1>4 DEF Joins, TypeOK
  <2>2. call' \in [Call -> [step : {"idle", "looked", "locked"}, token : Nat, by : Request \cup {NoRequest}]]
    BY <1>5 DEF TypeOK, Idle
  <2> QED BY <1>2, <1>5, <2>1, <2>2 DEF TypeOK, Idle
<1>7. Known'
  BY <1>2, <1>4, <1>5 DEF Known, Absent, Idle
<1>8. LockedAlone'
  BY <1>5 DEF LockedAlone, Idle
<1>9. /\ Made(r.salon)' = Made(r.salon) \cup {e} /\ e \notin Made(r.salon)
      /\ \A s : s # r.salon => Made(s)' = Made(s)
  <2>1. entry'[e] # Absent /\ entry'[e].by = r
    BY <1>4 DEF Absent
  <2> QED BY <1>2, <1>4, <2>1 DEF Made, At
<1>10. Cardinality(Made(r.salon)') = n + 1
  BY <1>3, <1>9, FS_AddElement
<1>11. TokensConsecutive'
  <2> SUFFICES ASSUME NEW s \in Salon PROVE {entry'[f].token : f \in Made(s)'} = 1 .. Cardinality(Made(s)')
    BY DEF TokensConsecutive
  <2>1. \A f \in Made(s) : f \in Entry \ {e}
    BY <1>2 DEF Made, At
  <2>2. {entry'[f].token : f \in Made(s)} = {entry[f].token : f \in Made(s)}
    BY <1>4, <2>1
  <2>3. CASE s # r.salon
    BY <2>2, <2>3, <1>9 DEF TokensConsecutive
  <2>4. CASE s = r.salon
    <3>1. {entry'[f].token : f \in Made(s)'} = {entry'[f].token : f \in Made(s)} \cup {n + 1}
      BY <2>4, <1>4, <1>9
    <3>2. {entry[f].token : f \in Made(s)} = 1 .. n
      BY <2>4, <1>3 DEF TokensConsecutive
    <3>3. (1 .. n) \cup {n + 1} = 1 .. n + 1
      OBVIOUS
    <3>4. Cardinality(Made(s)') = n + 1
      BY <2>4, <1>10
    <3> QED BY <2>2, <3>1, <3>2, <3>3, <3>4
  <2> QED BY <2>3, <2>4
<1>12. ASSUME NEW o \in Call, call'[o].step = "locked" PROVE Holds(o)'
  <2>1. o # a /\ call'[o] = call[o] /\ call[o].by.salon # r.salon
    BY <1>1, <1>2, <1>5, <1>12 DEF LockedAlone, Idle
  <2>2. PICK q \in Request : q = call[o].by
    BY <2>1, <1>12 DEF Known
  <2>3. ~Refused(q) /\ call[o].token = Cardinality(Made(q.salon)) + 1
    BY <1>12, <2>1, <2>2 DEF ReadStillHolds, Holds
  <2>4. \A f \in Entry : (f \in At(q.salon)' <=> f \in At(q.salon) \ {e}) /\ (f \in At(q.salon) \ {e} => entry'[f] = entry[f])
    BY <2>1, <2>2, <1>4 DEF At
  <2>5. /\ (Active \cap At(q.salon))' = Active \cap At(q.salon)
        /\ (Waiting \cap At(q.salon))' = Waiting \cap At(q.salon)
        /\ e \notin Active /\ e \notin Waiting
    BY <2>4, <1>2 DEF Active, Waiting, At, Absent
  <2>6. GuestRefused(q)' => GuestRefused(q)
    BY <2>4, <2>5 DEF GuestRefused, At
  <2>7. JustAdded(q)' => JustAdded(q)
    BY <2>4, <2>5, <1>2 DEF JustAdded, At
  <2>8. ~Refused(q)' /\ Made(q.salon)' = Made(q.salon)
    BY <2>1, <2>2, <2>3, <2>6, <2>7, <1>9 DEF Refused
  <2> QED BY <2>1, <2>2, <2>3, <2>8 DEF Holds
<1>13. GuestHoldsOne'
  <2>1. \A f \in Active' \ {e} : f \in Active /\ entry'[f] = entry[f]
    BY <1>4 DEF Active
  <2>2. r.source = "guest" => \A f \in Active \ {e} : entry[f].by.salon = r.salon => entry[f].by.phone # r.phone
    BY <1>2 DEF Refused, GuestRefused, At, Active
  <2> QED BY <2>1, <2>2, <1>4 DEF GuestHoldsOne
<1>14. AddedOnce'
  <2>1. \A f \in (Waiting \ old)' \ {e} : f \in Waiting \ old /\ entry'[f] = entry[f]
    BY <1>2, <1>4 DEF Waiting
  <2>2. r.source = "operator" => \A f \in (Waiting \ old) \ {e} :
          entry[f].by.salon = r.salon /\ entry[f].by.source = "operator" => entry[f].by.name # r.name
    BY <1>2 DEF Refused, JustAdded, At, Waiting
  <2> QED BY <2>1, <2>2, <1>4 DEF AddedOnce
<1>15. r.source = "guest" => Cardinality((Active \cap At(r.salon)) \cup {e}) <= Capacity
  <2>1. IsFiniteSet(Active \cap At(r.salon)) /\ Capacity \in Nat
    BY RowsAssumption, CapacityAssumption, FS_Subset DEF Active
  <2>2. e \notin Active \cap At(r.salon)
    BY <1>2 DEF Active, Absent
  <2>3. /\ Cardinality((Active \cap At(r.salon)) \cup {e}) = Cardinality(Active \cap At(r.salon)) + 1
        /\ Cardinality(Active \cap At(r.salon)) \in Nat
    BY <2>1, <2>2, FS_AddElement, FS_CardinalityType
  <2>4. r.source = "guest" => ~(Cardinality(Active \cap At(r.salon)) >= Capacity)
    BY <1>2 DEF Refused, GuestRefused
  <2> QED BY <2>1, <2>4, <2>3
<1> QED BY <1>1, <1>6, <1>7, <1>8, <1>11, <1>12, <1>13, <1>14, <1>15 DEF ReadStillHolds

\* Every step keeps the invariant, and a guest's entry within the capacity.
LEMMA JoinStep ==
  ASSUME JoinInv, [Next]_vars
  PROVE  /\ JoinInv'
         /\ \A e \in Entry : entry[e] = Absent /\ entry'[e].by.source = "guest" =>
              Cardinality((Active \cap At(entry'[e].by.salon)) \cup {e}) <= Capacity
<1>1. "guest" # None /\ Absent.by.source = None
  BY NoneAssumption DEF Source, Absent, NoRequest
<1>2. CASE \E a \in Call : (\E r \in Request : Looks(a, r)) \/ GivesUp(a)
  <2>1. entry' = entry
    BY <1>2 DEF Looks, GivesUp
  <2> QED BY <1>1, <1>2, <2>1, CallsKeep
<1>3. CASE \E a \in Call : Locks(a)
  <2>1. entry' = entry
    BY <1>3 DEF Locks
  <2> QED BY <1>1, <1>3, <2>1, LocksKeep
<1>4. CASE \E e \in Entry : Served(e) \/ Leaves(e) \/ Ages(e)
  <2>1. \A e \in Entry : entry[e] = Absent => entry'[e] = Absent
    BY <1>4 DEF JoinInv, HeldOnce, TypeOK, Served, Leaves, Ages, Active, Waiting, Absent
  <2> QED BY <1>1, <1>4, <2>1, EntriesKeep
<1>5. ASSUME NEW a \in Call, NEW e \in Entry, Joins(a, e)
      PROVE  /\ JoinInv'
             /\ \A f \in Entry : entry[f] = Absent /\ entry'[f].by.source = "guest" =>
                  Cardinality((Active \cap At(entry'[f].by.salon)) \cup {f}) <= Capacity
  <2>1. entry'[e].by = call[a].by /\ \A f \in Entry \ {e} : entry'[f] = entry[f]
    BY <1>5 DEF JoinInv, HeldOnce, TypeOK, Joins
  <2> QED BY <1>1, <1>5, <2>1, JoinsKeeps
<1>6. CASE UNCHANGED vars
  <2>1. TypeOK'
    BY <1>6 DEF vars, JoinInv, HeldOnce, TypeOK
  <2>2. /\ \A s : Made(s)' = Made(s)
        /\ TokensConsecutive'
        /\ \A q \in Request : ~Refused(q) => ~Refused(q)'
        /\ GuestHoldsOne' /\ AddedOnce'
    BY <1>6, <2>1, FewerRefuse DEF vars, JoinInv, HeldOnce, Active, Waiting
  <2>3. Known' /\ LockedAlone' /\ ReadStillHolds'
    BY <1>6, <2>2 DEF vars, JoinInv, Known, LockedAlone, ReadStillHolds, Holds
  <2> QED BY <1>1, <1>6, <2>1, <2>2, <2>3 DEF vars, JoinInv, HeldOnce
<1> QED BY <1>2, <1>3, <1>4, <1>5, <1>6 DEF Next

\* It holds of empty queues.
LEMMA JoinBegins ==
  ASSUME Init PROVE JoinInv
<1>1. TypeOK
  BY DEF Init, TypeOK, Absent, Idle
<1>2. Known /\ LockedAlone /\ ReadStillHolds
  BY DEF Init, Known, LockedAlone, ReadStillHolds, Idle
<1>3. GuestHoldsOne /\ AddedOnce
  BY DEF Init, GuestHoldsOne, AddedOnce, Active, Waiting, Absent
<1>4. TokensConsecutive
  <2>1. \A s : Made(s) = {}
    BY DEF Init, Made, At
  <2>2. 1 .. Cardinality({}) = {}
    BY FS_EmptySet
  <2> QED BY <2>1, <2>2 DEF TokensConsecutive
<1> QED BY <1>1, <1>2, <1>3, <1>4 DEF JoinInv, HeldOnce

\* So it always holds.
LEMMA AlwaysJoinInv == Spec => []JoinInv
<1>1. JoinInv /\ [Next]_vars => JoinInv'
  BY JoinStep
<1> QED BY <1>1, JoinBegins, PTL DEF Spec

\* Whoever joins at the same time, a guest's phone and whom an operator adds stand in a queue once.
THEOREM QueueHoldsOnce == Spec => []HeldOnce
<1>1. JoinInv => HeldOnce
  BY DEF JoinInv
<1> QED BY <1>1, AlwaysJoinInv, PTL

\* The tokens a salon gives out on a day leave no gap and are given once.
THEOREM TokensAreConsecutive == Spec => []TokensConsecutive
<1>1. JoinInv => TokensConsecutive
  BY DEF JoinInv
<1> QED BY <1>1, AlwaysJoinInv, PTL

\* The capacity a guest was admitted by is the capacity when its entry is made.
THEOREM GuestsWithinCapacity == Spec => WithinCapacity
<1>1. JoinInv /\ [Next]_vars =>
        [\A e \in Entry : entry[e] = Absent /\ entry'[e].by.source = "guest" =>
           Cardinality((Active \cap At(entry'[e].by.salon)) \cup {e}) <= Capacity]_vars
  BY JoinStep
<1> QED BY <1>1, AlwaysJoinInv, PTL DEF Spec, WithinCapacity

(***************************************************************************)
(* Sessions.                                                               *)
(***************************************************************************)
UserAssumptions == User!AudienceAssumption /\ User!NoneAssumption

\* Every row and every call goes back to a login that was made, and a claimed token to its call's login.
Traced ==
  /\ \A t \in Token : token[t] # User!NoToken =>
       token[t].status # "absent" /\ token[t].login \in Login /\ entered[token[t].login] # None
  /\ \A a \in Call :
       \/ using[a] = User!Idle
       \/ using[a].step \in {"issuing", "claimed"} /\ using[a].login \in Login /\ entered[using[a].login] # None
  /\ \A a \in Call : using[a].step = "claimed" =>
       /\ using[a].token \in Token /\ token[using[a].token] # User!NoToken
       /\ token[using[a].token].login = using[a].login

\* A login's session is handed from a live token to an exchange and back: never two of them.
HandedOn ==
  /\ \A t, u \in User!Live : token[t].login = token[u].login => t = u
  /\ \A a, b \in Call : using[a].login = using[b].login /\ using[a] # User!Idle => a = b
  /\ \A t \in User!Live, a \in Call : token[t].login # using[a].login

SessionInv == User!TypeOK /\ Traced /\ HandedOn /\ User!AudienceIsKept

\* A set whose elements are all the same has at most one.
LEMMA AtMostOne ==
  ASSUME NEW S, \A x, y \in S : x = y
  PROVE  User!Cardinality(S) \in {0, 1} /\ (User!Cardinality(S) = 1 => S # {})
<1>1. User!Cardinality(S) = Cardinality(S)
  BY DEF User!Cardinality, Cardinality
<1>2. CASE S = {}
  BY <1>1, <1>2, FS_EmptySet
<1>3. CASE S # {}
  <2>1. PICK x : S = {x}
    BY <1>3
  <2> QED BY <1>1, <1>3, <2>1, FS_Singleton
<1> QED BY <1>2, <1>3

\* A login's live tokens and the calls that hand one on are one at most.
LEMMA OneSession ==
  ASSUME UserAssumptions, SessionInv
  PROVE  User!LoginIsOneSession
<1> USE DEF SessionInv
<1>1. ASSUME NEW l \in Login
      PROVE  User!Cardinality({t \in User!Live : token[t].login = l}) + User!Cardinality({a \in Call : using[a].login = l}) <= 1
  <2> DEFINE T == {t \in User!Live : token[t].login = l}
             C == {a \in Call : using[a].login = l}
  <2>1. User!Idle.login = None /\ l # None
    BY DEF User!Idle, UserAssumptions, User!NoneAssumption
  <2>2. /\ User!Cardinality(T) \in {0, 1} /\ (User!Cardinality(T) = 1 => T # {})
    BY AtMostOne DEF HandedOn
  <2>3. /\ User!Cardinality(C) \in {0, 1} /\ (User!Cardinality(C) = 1 => C # {})
    BY <2>1, AtMostOne DEF HandedOn
  <2>4. T = {} \/ C = {}
    BY DEF HandedOn
  <2> HIDE DEF T, C
  <2>5. User!Cardinality(T) + User!Cardinality(C) <= 1
    BY <2>2, <2>3, <2>4
  <2> QED BY <2>5 DEF T, C
<1> QED BY <1>1 DEF User!LoginIsOneSession, User!OneSessionPerLogin

\* Rows of tokens that are live end, or those that are there: nothing else of them changes.
LEMMA EndingKeeps ==
  ASSUME UserAssumptions, SessionInv, NEW ts \in SUBSET {t \in Token : token[t] # User!NoToken},
         NEW status \in {"revoked", "expired", "deleted"}, User!Ended(ts, status),
         UNCHANGED <<entered, using>>, account' \in BOOLEAN, held' \subseteq Audience
  PROVE  SessionInv'
<1> USE DEF SessionInv
<1>1. token' \in [Token -> [status : {"absent", "live", "revoked", "expired", "deleted"},
                          login : Login \cup {None}, audience : Audience \cup {None}]]
  BY DEF User!TypeOK, User!Ended
<1>2. ASSUME NEW t \in Token
      PROVE  /\ token'[t].login = token[t].login /\ token'[t].audience = token[t].audience
             /\ token'[t] # User!NoToken <=> token[t] # User!NoToken
             /\ token'[t] # User!NoToken => token'[t].status # "absent"
             /\ token'[t].status = "live" => token[t].status = "live"
  <2>1. CASE token'[t] = token[t]
    BY <2>1 DEF Traced
  <2>2. CASE token[t] # User!NoToken /\ token'[t] = [token[t] EXCEPT !.status = status]
    <3>1. token[t] \in [status : {"absent", "live", "revoked", "expired", "deleted"},
                       login : Login \cup {None}, audience : Audience \cup {None}]
      BY DEF User!TypeOK
    <3>2. token'[t].status = status /\ token'[t].login = token[t].login /\ token'[t].audience = token[t].audience
      BY <2>2, <3>1
    <3> QED BY <2>2, <3>2 DEF User!NoToken
  <2> QED BY <2>1, <2>2 DEF User!Ended
<1>3. User!Live' \subseteq User!Live
  BY <1>2 DEF User!Live
<1>4. User!TypeOK'
  BY <1>1 DEF User!TypeOK
<1>5. Traced'
  BY <1>2 DEF Traced
<1>6. HandedOn'
  BY <1>2, <1>3 DEF HandedOn, User!Live
<1>7. User!AudienceIsKept'
  BY <1>2 DEF User!AudienceIsKept
<1> QED BY <1>4, <1>5, <1>6, <1>7

\* A login begins: no row and no call goes back to it yet.
LEMMA LogsInKeeps ==
  ASSUME UserAssumptions, SessionInv, NEW a \in Call, NEW l \in Login, NEW x \in Audience, User!LogsIn(a, l, x)
  PROVE  SessionInv'
<1> USE DEF SessionInv
<1>1. PICK c : c = [step |-> "issuing", token |-> None, login |-> l, audience |-> x]
  OBVIOUS
<1>2. /\ using[a] = User!Idle /\ entered[l] = None /\ UNCHANGED token /\ c # User!Idle /\ x # None /\ l # None
      /\ using'[a] = c /\ \A b \in Call \ {a} : using'[b] = using[b]
      /\ entered'[l] = x /\ \A k \in Login \ {l} : entered'[k] = entered[k]
  BY <1>1 DEF User!LogsIn, User!Goes, User!TypeOK, User!Idle, UserAssumptions, User!NoneAssumption
<1>3. User!TypeOK'
  BY DEF User!LogsIn, User!Goes, User!TypeOK
<1>4. /\ \A t \in Token : token[t] # User!NoToken => token[t].login \in Login \ {l}
      /\ \A b \in Call : using[b] # User!Idle => using[b].login \in Login \ {l}
  BY <1>2 DEF Traced
<1>5. User!Idle.login = None /\ \A t \in User!Live : token[t] # User!NoToken
  BY DEF User!Idle, User!Live, User!NoToken
<1>6. Traced'
  BY <1>1, <1>2, <1>4 DEF Traced
<1>7. HandedOn'
  BY <1>1, <1>2, <1>4, <1>5 DEF HandedOn, User!Live
<1>8. User!AudienceIsKept'
  BY <1>1, <1>2, <1>4 DEF User!AudienceIsKept, Traced, User!Idle
<1> QED BY <1>3, <1>6, <1>7, <1>8

\* The call's session passes to the token it issues.
LEMMA IssueKeeps ==
  ASSUME UserAssumptions, SessionInv, NEW a \in Call, NEW t \in Token, User!Issue(a, t)
  PROVE  SessionInv'
<1> USE DEF SessionInv
<1>1. PICK l \in Login, x \in {using[a].audience} : l = using[a].login /\ x = using[a].audience /\ entered[l] = x /\ x # None
  BY DEF User!Issue, User!Idle, Traced, User!AudienceIsKept
<1>2. /\ token'[t] = [status |-> "live", login |-> l, audience |-> x]
      /\ \A u \in Token \ {t} : token'[u] = token[u]
      /\ using'[a] = User!Idle /\ \A b \in Call \ {a} : using'[b] = using[b]
      /\ token[t] = User!NoToken /\ UNCHANGED entered /\ using[a] # User!Idle /\ l # None
  BY <1>1 DEF User!Issue, User!Goes, User!TypeOK, User!Idle, UserAssumptions, User!NoneAssumption
<1>3. User!TypeOK'
  BY DEF User!Issue, User!Goes, User!TypeOK, User!Idle
<1>4. Traced'
  BY <1>1, <1>2 DEF Traced, User!NoToken, User!Idle
<1>5. User!Live' = User!Live \cup {t} /\ t \notin User!Live
  BY <1>2 DEF User!Live, User!NoToken
<1>6. /\ \A u \in User!Live : token[u].login # l
      /\ \A b \in Call \ {a} : using[b].login # l
  BY <1>1, <1>2 DEF HandedOn
<1>7. User!Idle.login = None /\ \A u \in User!Live : token[u].login \in Login
  BY DEF User!Idle, User!Live, User!NoToken, Traced
<1>8. HandedOn'
  <2>1. token'[t].login = l /\ \A u \in User!Live' \ {t} : u \in User!Live /\ token'[u] = token[u]
    BY <1>2, <1>5 DEF User!Live
  <2>2. \A u, v \in User!Live' : token'[u].login = token'[v].login => u = v
    BY <1>6, <2>1 DEF HandedOn
  <2>3. \A b, c \in Call : using'[b].login = using'[c].login /\ using'[b] # User!Idle => b = c
    BY <1>2, <1>7 DEF HandedOn, Traced, UserAssumptions, User!NoneAssumption
  <2>4. \A u \in User!Live', b \in Call : token'[u].login # using'[b].login
    BY <1>2, <1>6, <1>7, <2>1 DEF HandedOn, UserAssumptions, User!NoneAssumption
  <2> QED BY <2>2, <2>3, <2>4 DEF HandedOn
<1>9. User!AudienceIsKept'
  BY <1>1, <1>2 DEF User!AudienceIsKept, User!Idle
<1> QED BY <1>3, <1>4, <1>8, <1>9

\* A token is claimed by one call, and is not live any more: its session passes to the call.
LEMMA ClaimKeeps ==
  ASSUME UserAssumptions, SessionInv, NEW a \in Call, NEW t \in Token, User!Claim(a, t)
  PROVE  SessionInv'
<1> USE DEF SessionInv
<1>1. PICK l \in Login : l = token[t].login /\ entered[l] # None
  BY DEF User!Claim, User!Live, User!NoToken, Traced
<1>2. /\ token'[t] = [token[t] EXCEPT !.status = "revoked"] /\ \A u \in Token \ {t} : token'[u] = token[u]
      /\ using'[a] = [step |-> "claimed", token |-> t, login |-> l, audience |-> None]
      /\ \A b \in Call \ {a} : using'[b] = using[b]
      /\ t \in User!Live /\ UNCHANGED entered /\ using[a] = User!Idle /\ l # None
  BY <1>1 DEF User!Claim, User!Goes, User!Ended, User!TypeOK, UserAssumptions, User!NoneAssumption
<1>3. token[t] \in [status : {"absent", "live", "revoked", "expired", "deleted"},
                   login : Login \cup {None}, audience : Audience \cup {None}]
  BY DEF User!TypeOK
<1>4. token'[t].status = "revoked" /\ token'[t].login = l /\ token'[t].audience = token[t].audience
  BY <1>1, <1>2, <1>3
<1>5. token'[t] # User!NoToken /\ token[t] # User!NoToken
  BY <1>2, <1>4 DEF User!NoToken, User!Live
<1>6. User!TypeOK'
  BY DEF User!Claim, User!Goes, User!Ended, User!TypeOK
<1>7. \A u \in Token : /\ token'[u].login = token[u].login /\ token'[u].audience = token[u].audience
                       /\ token'[u] # User!NoToken <=> token[u] # User!NoToken
                       /\ token'[u] # User!NoToken => token'[u].status # "absent"
  BY <1>1, <1>2, <1>4, <1>5 DEF Traced
<1>8. Traced'
  BY <1>1, <1>2, <1>5, <1>7 DEF Traced, User!Idle
<1>9. User!Live' = User!Live \ {t}
  BY <1>2, <1>4, ZenonT(30) DEF User!Live
<1>10. User!Idle.login = None
  BY DEF User!Idle
<1>11. HandedOn'
  BY <1>1, <1>2, <1>9, <1>10 DEF HandedOn, User!Live
<1>12. User!AudienceIsKept'
  BY <1>2, <1>7 DEF User!AudienceIsKept
<1> QED BY <1>6, <1>8, <1>11, <1>12

\* The roles are read again, or the call fails.
LEMMA ScopeFailsKeep ==
  ASSUME UserAssumptions, SessionInv, NEW a \in Call, User!Scope(a) \/ User!Fails(a)
  PROVE  SessionInv'
<1> USE DEF SessionInv
<1>1. UNCHANGED <<account, held, entered, token>> /\ using[a] # User!Idle
  BY DEF User!Scope, User!Fails, User!Idle
<1>2. \/ using' = [using EXCEPT ![a] = User!Idle]
      \/ /\ using[a].step = "claimed" /\ token[using[a].token].audience \in held
         /\ using' = [using EXCEPT ![a] = [using[a] EXCEPT !.step = "issuing", !.audience = token[using[a].token].audience]]
  BY DEF User!Scope, User!Fails, User!Goes
<1> DEFINE Calls == [step : {"idle", "issuing", "claimed"}, token : Token \cup {None},
                   login : Login \cup {None}, audience : Audience \cup {None}]
<1>3. User!Idle \in Calls /\ using \in [Call -> Calls] /\ using[a] \in Calls
  BY DEF User!TypeOK, User!Idle
<1>4. PICK c \in Calls :
        /\ using' = [using EXCEPT ![a] = c]
        /\ \/ c = User!Idle
           \/ /\ using[a].step = "claimed" /\ c.step = "issuing" /\ c.login = using[a].login
              /\ c.audience = token[using[a].token].audience
  <2>1. CASE using' = [using EXCEPT ![a] = User!Idle]
    BY <2>1, <1>3
  <2>2. CASE /\ using[a].step = "claimed"
             /\ using' = [using EXCEPT ![a] = [using[a] EXCEPT !.step = "issuing", !.audience = token[using[a].token].audience]]
    <3>1. PICK x \in Audience \cup {None} : x = token[using[a].token].audience
      BY <2>2 DEF User!TypeOK, Traced
    <3>2. PICK c : c = [using[a] EXCEPT !.step = "issuing", !.audience = x]
      OBVIOUS
    <3>3. c \in Calls /\ c.step = "issuing" /\ c.login = using[a].login /\ c.audience = x
      BY <3>1, <3>2, <1>3
    <3> QED BY <2>2, <3>1, <3>2, <3>3
  <2> QED BY <1>2, <2>1, <2>2
<1>5. User!TypeOK'
  BY <1>1, <1>3, <1>4 DEF User!TypeOK
<1> HIDE DEF Calls
<1>6. using'[a] = c /\ \A b \in Call \ {a} : using'[b] = using[b]
  BY <1>3, <1>4
<1>7. Traced'
  BY <1>1, <1>4, <1>6 DEF Traced, User!Idle
<1>8. User!Idle.login = None /\ User!Idle.step = "idle"
  BY DEF User!Idle
<1>9. \A t \in User!Live : token[t].login # None
  BY DEF Traced, User!Live, User!NoToken, UserAssumptions, User!NoneAssumption
<1>10. HandedOn'
  BY <1>1, <1>4, <1>6, <1>8, <1>9 DEF HandedOn, User!Live, Traced, UserAssumptions, User!NoneAssumption
<1>11. User!AudienceIsKept'
  BY <1>1, <1>4, <1>6, <1>8 DEF User!AudienceIsKept, Traced
<1> QED BY <1>5, <1>7, <1>10, <1>11

\* Every step keeps the invariant.
LEMMA SessionStep ==
  ASSUME UserAssumptions, SessionInv, [User!Next]_(User!vars)
  PROVE  SessionInv'
<1>1. User!Live \subseteq {t \in Token : token[t] # User!NoToken}
  BY DEF User!Live, User!NoToken
<1>2. User!TypeOK
  BY DEF SessionInv
<1>3. CASE \E t \in Token, status \in {"revoked", "expired"} : User!EndsOne(t, status)
  <2>1. PICK t \in Token, status \in {"revoked", "expired"} : User!EndsOne(t, status)
    BY <1>3
  <2>2. {t} \in SUBSET {u \in Token : token[u] # User!NoToken} /\ User!Ended({t}, status)
    BY <2>1, <1>1 DEF User!EndsOne
  <2> QED BY <2>1, <2>2, <1>2, EndingKeeps DEF User!EndsOne, User!TypeOK
<1>4. CASE User!RevokeAll
  BY <1>1, <1>2, <1>4, EndingKeeps DEF User!RevokeAll, User!TypeOK
<1>5. CASE User!DeleteAccount
  BY <1>2, <1>5, EndingKeeps DEF User!DeleteAccount, User!TypeOK
<1>6. CASE \E x \in Audience : User!Loses(x)
  <2>1. PICK x \in Audience : User!Loses(x)
    BY <1>6
  <2>2. {t \in User!Live : x = "ADMIN" \/ token[t].audience = x} \in SUBSET {u \in Token : token[u] # User!NoToken}
    BY <1>1
  <2> QED BY <2>1, <2>2, <1>2, EndingKeeps DEF User!Loses, User!TypeOK
<1>7. CASE (\E x \in Audience : User!Gains(x)) \/ UNCHANGED User!vars
  <2>1. UNCHANGED <<entered, using>> /\ account' \in BOOLEAN /\ held' \subseteq Audience
    BY <1>2, <1>7 DEF User!Gains, User!vars, User!TypeOK
  <2>2. CASE User!Ended(User!Live, "revoked")
    BY <1>1, <2>1, <2>2, EndingKeeps
  <2>3. CASE UNCHANGED token
    BY <2>1, <2>3 DEF SessionInv, User!TypeOK, Traced, HandedOn, User!Live, User!AudienceIsKept
  <2> QED BY <1>7, <2>2, <2>3 DEF User!Gains, User!vars
<1> QED BY <1>3, <1>4, <1>5, <1>6, <1>7, LogsInKeeps, IssueKeeps, ClaimKeeps, ScopeFailsKeep DEF User!Next

\* However requests that present a login's tokens race, fail and are repeated, the login is one session,
\* of the audience it was made for.
THEOREM LoginStaysOneSession == ASSUME UserAssumptions PROVE User!Spec => []LoginIsOneSession
<1>1. User!Init => SessionInv
  BY DEF User!Init, SessionInv, User!TypeOK, Traced, HandedOn, User!AudienceIsKept, User!Live, User!NoToken, User!Idle
<1>2. SessionInv /\ [User!Next]_(User!vars) => SessionInv'
  BY SessionStep
<1>3. SessionInv => LoginIsOneSession
  BY OneSession DEF LoginIsOneSession
<1> QED BY <1>1, <1>2, <1>3, PTL DEF User!Spec

(***************************************************************************)
(* OneTimeCodes.                                                           *)
(***************************************************************************)
CodeAssumptions == Codes!LimitsAssumption /\ Codes!NoneAssumption /\ Codes!RowsAssumption

\* What a row is, if it is there; and a request.
OtpRow == [phone : Phone, scope : Codes!Scope, at : 0 .. MaxNow, open : BOOLEAN, tries : 0 .. MaxTries]
SendRow == [status : {"RESERVED", "ACCEPTED", "UNKNOWN"}, at : 0 .. MaxNow]
AnyCall == [step : {"idle", "admitted", "sending", "read"}, phone : Phone \cup {None},
            scope : Codes!Scope, code : Code \cup {None}, at : 0 .. MaxNow]

Columns ==
  /\ now \in 0 .. MaxNow
  /\ otp \in [Code -> OtpRow \cup {Codes!NoOtp}]
  /\ send \in [Code -> SendRow \cup {Codes!NoSend}]
  /\ asking \in [Call -> AnyCall]
  /\ accepted \in [Code -> Nat]

\* A request in progress has a phone, or the code it made, or the one it read.
Filled ==
  \A a \in Call :
    /\ asking[a].step = "admitted" => asking[a].phone \in Phone
    /\ asking[a].step = "sending" => asking[a].code \in Codes!Sent
    /\ asking[a].step = "read" => asking[a].code \in Code

\* One more code sent to the phone at time t is within every limit.
Fits(phone, t) ==
  /\ \A c \in Codes!To(phone) : otp[c].at + Cooldown <= t
  /\ Cardinality({c \in Codes!To(phone) : otp[c].at + Window >= t}) < WindowMax
  /\ Cardinality({c \in Codes!To(phone) : otp[c].at + Day >= t}) < DayMax
  /\ Cardinality({c \in Codes!Sent : send[c].at + Day >= t}) < Budget

\* The lock keeps what a request was admitted by: no code is sent until its own, and a deletion of rows
\* only makes room.
Admitted ==
  \A a \in Call : asking[a].step = "admitted" =>
    /\ \A o \in Call : asking[o].step = "admitted" => o = a
    /\ asking[a].at <= now
    /\ \A c \in Codes!Sent : send[c].at <= asking[a].at
    /\ Fits(asking[a].phone, asking[a].at)
Past == \A c \in Codes!Sent : send[c].at <= now

\* A code that is open was not accepted, and none was made in its place since.
OpenIsNewest ==
  /\ \A c \in Code \ Codes!Sent : accepted[c] = 0
  /\ \A c \in Codes!Made : otp[c].open =>
       /\ accepted[c] = 0
       /\ \A d \in Codes!For(otp[c].phone, otp[c].scope) : otp[d].at <= otp[c].at

CodeInv == Codes!TypeOK /\ Filled /\ Admitted /\ Past /\ OpenIsNewest /\ Codes!OneOpen /\ Codes!SendsLimited

\* Counting is the same in the instance.
LEMMA CodesCount == ASSUME NEW S PROVE Codes!Cardinality(S) = Cardinality(S) /\ Codes!IsFiniteSet(S) = IsFiniteSet(S)
BY DEF Codes!Cardinality, Cardinality, Codes!IsFiniteSet, IsFiniteSet

\* The columns, and what ties a code to its attempt, are the types.
LEMMA CodeTypes ==
  /\ Codes!TypeOK <=> Columns /\ \A c \in Codes!Made : c \in Codes!Sent /\ send[c].at = otp[c].at
  /\ Codes!TypeOK' <=> Columns' /\ \A c \in Codes!Made' : c \in Codes!Sent' /\ send'[c].at = otp'[c].at
BY DEF Codes!TypeOK, Columns, OtpRow, SendRow, AnyCall

\* A row is there exactly if it has a phone, an attempt exactly if it has a status.
LEMMA RowTypes ==
  ASSUME CodeAssumptions
  PROVE  /\ Codes!NoOtp \notin OtpRow /\ Codes!NoOtp.open = FALSE
         /\ Codes!NoSend \notin SendRow
<1>1. Codes!NoOtp.phone = None /\ Codes!NoOtp.open = FALSE /\ Codes!NoSend.status = "NONE"
  BY DEF Codes!NoOtp, Codes!NoSend
<1>2. \A r \in OtpRow : r.phone \in Phone
  BY DEF OtpRow
<1>3. \A r \in SendRow : r.status # "NONE"
  BY DEF SendRow
<1> QED BY <1>1, <1>2, <1>3 DEF CodeAssumptions, Codes!NoneAssumption

\* A code was made exactly when its row is there, and then it was sent, at its time.
LEMMA MadeRow ==
  ASSUME CodeAssumptions, Codes!TypeOK, NEW c \in Code
  PROVE  /\ c \in Codes!Made <=> otp[c] \in OtpRow
         /\ c \in Codes!Sent <=> send[c] \in SendRow
         /\ c \in Codes!Made => c \in Codes!Sent /\ send[c].at = otp[c].at
         /\ otp[c].open \in BOOLEAN /\ (otp[c].open => c \in Codes!Made)
         /\ c \in Codes!Made => otp[c].at \in Int
         /\ c \in Codes!Sent => send[c].at \in Int
<1>1. otp[c] \in OtpRow \cup {Codes!NoOtp} /\ send[c] \in SendRow \cup {Codes!NoSend}
  BY CodeTypes DEF Columns
<1>2. /\ c \in Codes!Made <=> otp[c] \in OtpRow
      /\ c \in Codes!Sent <=> send[c] \in SendRow
  BY <1>1, RowTypes DEF Codes!Made, Codes!Sent
<1>3. otp[c] \in OtpRow => otp[c].open \in BOOLEAN /\ otp[c].at \in Int
  BY DEF OtpRow
<1>4. send[c] \in SendRow => send[c].at \in Int
  BY DEF SendRow
<1>5. c \in Codes!Made => c \in Codes!Sent /\ send[c].at = otp[c].at
  BY CodeTypes
<1> QED BY <1>1, <1>2, <1>3, <1>4, <1>5, RowTypes

\* SendsLimited, phone by phone, and of the attempts.
PhoneKept(p) ==
  \A c \in Codes!To(p) :
    /\ \A d \in Codes!To(p) \ {c} : otp[d].at <= otp[c].at => otp[d].at + Cooldown <= otp[c].at
    /\ Cardinality(Codes!Until(otp, c, Codes!To(p), Window)) <= WindowMax
    /\ Cardinality(Codes!Until(otp, c, Codes!To(p), Day)) <= DayMax
BudgetKept == \A c \in Codes!Sent : Cardinality(Codes!Until(send, c, Codes!Sent, Day)) <= Budget
\* The limits, said of each phone, and the budget of all.
LEMMA LimitsOfEach ==
  /\ Codes!SendsLimited <=> (\A p \in Phone : PhoneKept(p)) /\ BudgetKept
  /\ Codes!SendsLimited' <=> (\A p \in Phone : PhoneKept(p)') /\ BudgetKept'
BY CodesCount DEF Codes!SendsLimited, PhoneKept, BudgetKept

\* No code is made or sent: rows are closed, accepted, tried, or those of a phone deleted.
NoneMade ==
  /\ now' >= now
  /\ \A c \in Code :
       /\ send'[c].at = send[c].at /\ (send'[c] = Codes!NoSend <=> send[c] = Codes!NoSend)
       /\ otp'[c] # Codes!NoOtp =>
            /\ otp[c] # Codes!NoOtp
            /\ otp'[c].phone = otp[c].phone /\ otp'[c].scope = otp[c].scope /\ otp'[c].at = otp[c].at
            /\ otp'[c].open => otp[c].open
       /\ accepted'[c] # accepted[c] => otp[c].open /\ ~otp'[c].open
  /\ \A p : Codes!To(p)' = Codes!To(p) \/ Codes!To(p)' = {}

\* Such a step only makes room.
LEMMA RoomStays ==
  ASSUME CodeAssumptions, CodeInv, NoneMade
  PROVE  /\ Codes!Made' \subseteq Codes!Made /\ Codes!Sent' = Codes!Sent
         /\ \A p, t : Fits(p, t) => Fits(p, t)'
         /\ BudgetKept' /\ \A p \in Phone : PhoneKept(p)'
<1>1. /\ Codes!Made' \subseteq Codes!Made /\ Codes!Made \subseteq Code
      /\ Codes!Sent' = Codes!Sent /\ Codes!Sent \subseteq Code
      /\ \A d \in Codes!Sent : send'[d].at = send[d].at
      /\ \A d \in Codes!Made' : otp'[d].at = otp[d].at
  BY DEF NoneMade, Codes!Made, Codes!Sent
<1>2. /\ \A p : Codes!To(p) \subseteq Codes!Made
      /\ \A p : Codes!To(p)' \subseteq Codes!Made'
      /\ \A p : Codes!To(p)' = Codes!To(p) \/ Codes!To(p)' = {}
  BY DEF NoneMade, Codes!To
<1>3. WindowMax \in Nat \ {0} /\ DayMax \in Nat \ {0}
  BY DEF CodeAssumptions, Codes!LimitsAssumption
<1>4. ASSUME NEW p, NEW t, Fits(p, t) PROVE Fits(p, t)'
  <2>1. {c \in Codes!Sent' : send'[c].at + Day >= t} = {c \in Codes!Sent : send[c].at + Day >= t}
    BY <1>1
  <2>2. CASE Codes!To(p)' = Codes!To(p)
    <3>1. \A w : {c \in Codes!To(p)' : otp'[c].at + w >= t} = {c \in Codes!To(p) : otp[c].at + w >= t}
      BY <1>1, <1>2, <2>2
    <3>2. \A c \in Codes!To(p)' : otp'[c].at + Cooldown <= t
      BY <1>1, <1>2, <1>4, <2>2 DEF Fits
    <3> QED BY <1>4, <2>1, <3>1, <3>2 DEF Fits
  <2>3. CASE Codes!To(p)' = {}
    <3>1. \A w : {c \in Codes!To(p)' : otp'[c].at + w >= t} = {}
      BY <2>3
    <3>2. Cardinality({}) < WindowMax /\ Cardinality({}) < DayMax
      BY <1>3, FS_EmptySet
    <3> QED BY <1>4, <2>1, <2>3, <3>1, <3>2 DEF Fits
  <2> QED BY <1>2, <2>2, <2>3
<1>5. BudgetKept'
  <2>1. ASSUME NEW c \in Codes!Sent
        PROVE  Codes!Until(send, c, Codes!Sent, Day)' = Codes!Until(send, c, Codes!Sent, Day)
    BY <1>1 DEF Codes!Until
  <2> QED BY <1>1, <2>1, LimitsOfEach DEF BudgetKept, CodeInv
<1>6. ASSUME NEW p \in Phone PROVE PhoneKept(p)'
  <2>1. CASE Codes!To(p)' = {}
    BY <2>1 DEF PhoneKept
  <2>2. CASE Codes!To(p)' = Codes!To(p)
    <3>1. \A d \in Codes!To(p) : otp'[d].at = otp[d].at
      BY <1>1, <1>2, <2>2
    <3>2. ASSUME NEW c \in Codes!To(p), NEW w
          PROVE  Codes!Until(otp, c, Codes!To(p), w)' = Codes!Until(otp, c, Codes!To(p), w)
      BY <2>2, <3>1 DEF Codes!Until
    <3>3. PhoneKept(p)
      BY LimitsOfEach DEF CodeInv
    <3> QED BY <2>2, <3>1, <3>2, <3>3 DEF PhoneKept
  <2> QED BY <1>2, <2>1, <2>2
<1> QED BY <1>1, <1>4, <1>5, <1>6

\* ... and the invariant stays, if the requests but those that end or read go on as they were.
LEMMA OthersGoOn ==
  ASSUME CodeAssumptions, CodeInv, NoneMade, Columns',
         \A a \in Call : \/ asking'[a] = asking[a]
                         \/ asking'[a].step = "idle"
                         \/ asking'[a].step = "read" /\ asking'[a].code \in Code
  PROVE  CodeInv'
<1>1. /\ Codes!Made' \subseteq Codes!Made /\ Codes!Sent' = Codes!Sent
      /\ \A p, t : Fits(p, t) => Fits(p, t)'
      /\ Codes!SendsLimited'
  BY RoomStays, LimitsOfEach
<1>2. /\ Codes!Made \subseteq Code /\ Codes!Sent \subseteq Code
      /\ \A c \in Codes!Sent : send'[c].at = send[c].at
      /\ \A c \in Codes!Made' :
           /\ otp'[c].phone = otp[c].phone /\ otp'[c].scope = otp[c].scope /\ otp'[c].at = otp[c].at
           /\ otp'[c].open => otp[c].open
      /\ \A c \in Code : accepted'[c] # accepted[c] => otp[c].open /\ ~otp'[c].open
  BY <1>1 DEF NoneMade, Codes!Made, Codes!Sent
<1>3. Codes!TypeOK'
  BY <1>1, <1>2, CodeTypes DEF CodeInv
<1>4. Filled'
  BY <1>1 DEF CodeInv, Filled
<1>5. now \in Int /\ now' \in Int /\ now' >= now
  BY CodeTypes DEF CodeInv, Columns, NoneMade
<1>6. Past'
  <2>1. \A c \in Codes!Sent : send[c].at \in Int
    BY <1>2, MadeRow DEF CodeInv
  <2> QED BY <1>1, <1>2, <1>5, <2>1 DEF Past, CodeInv
<1>7. Admitted'
  <2> SUFFICES ASSUME NEW a \in Call, asking'[a].step = "admitted"
               PROVE  /\ \A o \in Call : asking'[o].step = "admitted" => o = a
                      /\ asking'[a].at <= now'
                      /\ \A c \in Codes!Sent' : send'[c].at <= asking'[a].at
                      /\ Fits(asking[a].phone, asking[a].at)'
    BY DEF Admitted
  <2>1. asking'[a] = asking[a] /\ \A o \in Call : asking'[o].step = "admitted" => asking[o].step = "admitted"
    OBVIOUS
  <2>2. PICK p, t : p = asking[a].phone /\ t = asking[a].at /\ p = asking'[a].phone /\ t = asking'[a].at
    BY <2>1
  <2>3. Fits(p, t)'
    BY <1>1, <2>1, <2>2 DEF CodeInv, Admitted
  <2>4. t \in Int
    BY <2>2, CodeTypes DEF CodeInv, Columns, AnyCall
  <2>5. t <= now'
    BY <1>5, <2>1, <2>2, <2>4 DEF CodeInv, Admitted
  <2>6. \A c \in Codes!Sent' : send'[c].at <= t
    BY <1>1, <1>2, <2>1, <2>2 DEF CodeInv, Admitted
  <2>7. Fits(asking[a].phone, asking[a].at)'
    BY <2>2, <2>3 DEF Fits, Codes!To
  <2> QED BY <2>1, <2>2, <2>5, <2>6, <2>7 DEF CodeInv, Admitted
<1>8. OpenIsNewest'
  <2>1. \A c \in Code \ Codes!Sent' : accepted'[c] = 0
    BY <1>1, <1>2, MadeRow DEF CodeInv, OpenIsNewest
  <2>2. ASSUME NEW c \in Codes!Made', otp'[c].open
        PROVE  accepted'[c] = 0 /\ \A d \in Codes!For(otp[c].phone, otp[c].scope)' : otp'[d].at <= otp'[c].at
    <3>1. c \in Codes!Made /\ otp[c].open /\ accepted'[c] = accepted[c]
      BY <1>1, <1>2, <2>2
    <3>2. \A d \in Codes!For(otp[c].phone, otp[c].scope)' :
            d \in Codes!Made' /\ d \in Codes!For(otp[c].phone, otp[c].scope)
      BY <1>1, <1>2, <3>1 DEF Codes!For, Codes!To
    <3> QED BY <1>2, <3>1, <3>2 DEF CodeInv, OpenIsNewest
  <2> QED BY <2>1, <2>2 DEF OpenIsNewest
<1>9. Codes!OneOpen'
  BY <1>1, <1>2 DEF CodeInv, Codes!OneOpen
<1> QED BY <1>1, <1>3, <1>4, <1>6, <1>7, <1>8, <1>9 DEF CodeInv

\* One row is closed, tried or accepted, if it is there, and the request that did so ends.
LEMMA RowKeeps ==
  ASSUME CodeAssumptions, CodeInv, NEW k \in Code, NEW r, NEW s,
         r = otp[k] \/ (/\ otp[k] \in OtpRow /\ r \in OtpRow
                        /\ r.phone = otp[k].phone /\ r.scope = otp[k].scope /\ r.at = otp[k].at
                        /\ r.open => otp[k].open),
         s = send[k] \/ (send[k] \in SendRow /\ s \in SendRow /\ s.at = send[k].at),
         otp' = [otp EXCEPT ![k] = r], send' = [send EXCEPT ![k] = s], now' = now,
         accepted' \in [Code -> Nat],
         \A c \in Code : accepted'[c] # accepted[c] => c = k /\ otp[k].open /\ ~r.open,
         asking' = asking \/ \E a \in Call : asking' = [asking EXCEPT ![a] = Codes!Idle]
  PROVE  CodeInv'
<1>1. Columns /\ MaxNow \in Nat
  BY CodeTypes DEF CodeInv, CodeAssumptions, Codes!LimitsAssumption
<1>2. Codes!Idle \in AnyCall /\ Codes!Idle.step = "idle"
  BY <1>1 DEF Codes!Idle, AnyCall, Codes!Scope
<1>3. /\ r \in OtpRow \cup {Codes!NoOtp} /\ s \in SendRow \cup {Codes!NoSend}
      /\ r = Codes!NoOtp <=> otp[k] = Codes!NoOtp
      /\ s = Codes!NoSend <=> send[k] = Codes!NoSend
      /\ s.at = send[k].at
      /\ r # Codes!NoOtp => r.phone = otp[k].phone /\ r.scope = otp[k].scope /\ r.at = otp[k].at /\ (r.open => otp[k].open)
  BY <1>1, RowTypes DEF Columns
<1>4. Columns'
  BY <1>1, <1>2, <1>3 DEF Columns
<1>5. \A a \in Call : asking'[a] = asking[a] \/ asking'[a].step = "idle"
  BY <1>1, <1>2 DEF Columns
<1>6. /\ otp \in [Code -> OtpRow \cup {Codes!NoOtp}] /\ send \in [Code -> SendRow \cup {Codes!NoSend}]
      /\ now' >= now
  BY <1>1 DEF Columns
<1>7. \A c \in Code :
        /\ send'[c].at = send[c].at /\ (send'[c] = Codes!NoSend <=> send[c] = Codes!NoSend)
        /\ otp'[c] = Codes!NoOtp <=> otp[c] = Codes!NoOtp
        /\ otp'[c] # Codes!NoOtp => /\ otp'[c].phone = otp[c].phone /\ otp'[c].scope = otp[c].scope
                                    /\ otp'[c].at = otp[c].at /\ (otp'[c].open => otp[c].open)
        /\ accepted'[c] # accepted[c] => otp[c].open /\ ~otp'[c].open
  BY <1>3, <1>6
<1>8. \A p : Codes!To(p)' = Codes!To(p)
  BY <1>7 DEF Codes!To, Codes!Made
<1>9. NoneMade
  BY <1>6, <1>7, <1>8 DEF NoneMade
<1> QED BY <1>4, <1>5, <1>9, OthersGoOn

\* The provider has answered; the row of a code whose account was deleted meanwhile is not there to close.
LEMMA SentKeeps ==
  ASSUME CodeAssumptions, CodeInv, NEW a \in Call, Codes!SendAccepted(a) \/ Codes!SendUnknown(a)
  PROVE  CodeInv'
<1>1. PICK k \in Codes!Sent : k = asking[a].code
  BY DEF Codes!SendAccepted, Codes!SendUnknown, CodeInv, Filled
<1>2. k \in Code /\ send[k] \in SendRow /\ Columns
  BY MadeRow, CodeTypes DEF Codes!Sent, CodeInv
<1>3. PICK st \in {"ACCEPTED", "UNKNOWN"} : send' = [send EXCEPT ![k].status = st]
  BY <1>1 DEF Codes!SendAccepted, Codes!SendUnknown
<1>4. PICK s : s = [send[k] EXCEPT !.status = st]
  OBVIOUS
<1>5. s \in SendRow /\ s.at = send[k].at /\ send' = [send EXCEPT ![k] = s]
  BY <1>2, <1>3, <1>4 DEF SendRow
<1>6. \E r : /\ r = otp[k] \/ (otp[k] \in OtpRow /\ r = [otp[k] EXCEPT !.open = FALSE])
             /\ otp' = [otp EXCEPT ![k] = r]
  <2>1. CASE UNCHANGED otp
    <3>1. otp' = [otp EXCEPT ![k] = otp[k]]
      BY <1>2, <2>1 DEF Columns
    <3> QED BY <3>1
  <2>2. CASE Codes!SendUnknown(a)
    <3>1. otp' = [otp EXCEPT ![k] = [otp[k] EXCEPT !.open = FALSE]]
      BY <1>1, <2>2 DEF Codes!SendUnknown
    <3>2. otp[k] \in OtpRow \/ [otp[k] EXCEPT !.open = FALSE] = otp[k]
      <4>1. Codes!NoOtp \in [phone : {None}, scope : {Codes!LogIn}, at : {0}, open : {FALSE}, tries : {0}]
        BY DEF Codes!NoOtp
      <4>2. otp[k] \in OtpRow \/ otp[k] = Codes!NoOtp
        BY <1>2 DEF Columns
      <4> QED BY <4>1, <4>2
    <3> QED BY <3>1, <3>2
  <2> QED BY <2>1, <2>2 DEF Codes!SendAccepted
<1>7. PICK r : /\ otp' = [otp EXCEPT ![k] = r]
               /\ r = otp[k] \/ (otp[k] \in OtpRow /\ r = [otp[k] EXCEPT !.open = FALSE])
  BY <1>6
<1>8. r = otp[k] \/ (/\ otp[k] \in OtpRow /\ r \in OtpRow
                     /\ r.phone = otp[k].phone /\ r.scope = otp[k].scope /\ r.at = otp[k].at
                     /\ r.open => otp[k].open)
  BY <1>7 DEF OtpRow
<1>9. UNCHANGED <<now, accepted>> /\ accepted \in [Code -> Nat] /\ asking' = [asking EXCEPT ![a] = Codes!Idle]
  BY <1>2 DEF Codes!SendAccepted, Codes!SendUnknown, Codes!Ends, Columns
<1>10. \A c \in Code : accepted'[c] = accepted[c]
  BY <1>9
<1> QED BY <1>2, <1>5, <1>7, <1>8, <1>9, <1>10, RowKeeps

\* A code is tried or accepted, or has expired: its row is there, since it is open.
LEMMA TriedKeeps ==
  ASSUME CodeAssumptions, CodeInv,
         (\E a \in Call : Codes!IsWrong(a) \/ Codes!IsRight(a)) \/ \E c \in Code : Codes!Expires(c)
  PROVE  CodeInv'
<1>1. PICK k \in Codes!Made :
        /\ otp[k].open
        /\ \/ Codes!Expires(k)
           \/ \E a \in Call : asking[a].code = k /\ (Codes!IsWrong(a) \/ Codes!IsRight(a))
  <2>1. \A c \in Code : otp[c].open => c \in Codes!Made
    BY MadeRow DEF CodeInv
  <2>2. \A a \in Call : asking[a].step = "read" => asking[a].code \in Code
    BY DEF CodeInv, Filled
  <2> QED BY <2>1, <2>2 DEF Codes!IsWrong, Codes!IsRight, Codes!Stands, Codes!Expires
<1>2. /\ k \in Code /\ otp[k] \in OtpRow /\ Columns /\ MaxTries \in Nat
  BY MadeRow, CodeTypes DEF Codes!Made, CodeInv, CodeAssumptions, Codes!LimitsAssumption
<1>3. /\ accepted \in [Code -> Nat] /\ send' = [send EXCEPT ![k] = send[k]] /\ now' = now
      /\ asking' = asking \/ \E a \in Call : asking' = [asking EXCEPT ![a] = Codes!Idle]
  BY <1>1, <1>2 DEF Codes!IsWrong, Codes!IsRight, Codes!Expires, Codes!Ends, Columns
<1>4. \E r : /\ otp' = [otp EXCEPT ![k] = r]
             /\ \/ r = [otp[k] EXCEPT !.open = FALSE]
                \/ r = [otp[k] EXCEPT !.tries = @ + 1] /\ otp[k].tries < MaxTries /\ accepted' = accepted
             /\ accepted' \in {accepted, [accepted EXCEPT ![k] = @ + 1]}
  BY <1>1 DEF Codes!IsWrong, Codes!IsRight, Codes!Expires, Codes!Stands
<1>5. PICK r : /\ otp' = [otp EXCEPT ![k] = r]
               /\ \/ r = [otp[k] EXCEPT !.open = FALSE]
                  \/ r = [otp[k] EXCEPT !.tries = @ + 1] /\ otp[k].tries < MaxTries /\ accepted' = accepted
               /\ accepted' \in {accepted, [accepted EXCEPT ![k] = @ + 1]}
  BY <1>4
<1>6. r \in OtpRow /\ r.phone = otp[k].phone /\ r.scope = otp[k].scope /\ r.at = otp[k].at
  <2>1. CASE r = [otp[k] EXCEPT !.open = FALSE]
    BY <1>2, <2>1 DEF OtpRow
  <2>2. CASE r = [otp[k] EXCEPT !.tries = @ + 1] /\ otp[k].tries < MaxTries
    <3>1. otp[k].tries + 1 \in 0 .. MaxTries
      BY <1>2, <2>2 DEF OtpRow
    <3> QED BY <1>2, <2>2, <3>1 DEF OtpRow
  <2> QED BY <1>5, <2>1, <2>2
<1>7. r = [otp[k] EXCEPT !.open = FALSE] => ~r.open
  BY <1>2 DEF OtpRow
<1>8. accepted' \in [Code -> Nat] /\ \A c \in Code : accepted'[c] # accepted[c] => c = k /\ otp[k].open /\ ~r.open
  BY <1>1, <1>3, <1>5, <1>7
<1> QED BY <1>1, <1>2, <1>3, <1>5, <1>6, <1>8, RowKeeps

\* A request ends, or reads a row; or time passes.
LEMMA IdleKeeps ==
  ASSUME CodeAssumptions, CodeInv,
         \/ \E a \in Call : Codes!GivesUp(a) \/ \E c \in Code : Codes!Reads(a, c)
         \/ Codes!Tick \/ UNCHANGED Codes!vars
  PROVE  CodeInv'
<1>1. Columns /\ MaxNow \in Nat
  BY CodeTypes DEF CodeInv, CodeAssumptions, Codes!LimitsAssumption
<1>2. UNCHANGED <<otp, send, accepted>> /\ now' \in {now, now + 1} /\ (now' = now \/ now < MaxNow)
  BY DEF Codes!GivesUp, Codes!Reads, Codes!Tick, Codes!vars
<1>3. now \in 0 .. MaxNow /\ now' \in 0 .. MaxNow /\ now' >= now
  BY <1>1, <1>2 DEF Columns
<1>4. NoneMade
  BY <1>2, <1>3 DEF NoneMade, Codes!To, Codes!Made
<1>5. \/ asking' = asking
      \/ \E a \in Call : \E r \in AnyCall : /\ asking' = [asking EXCEPT ![a] = r]
                                            /\ r.step = "idle" \/ (r.step = "read" /\ r.code \in Code)
  <2>1. Codes!Idle \in AnyCall /\ Codes!Idle.step = "idle"
    BY <1>1 DEF Codes!Idle, AnyCall, Codes!Scope
  <2>2. ASSUME NEW a \in Call, NEW c \in Code, Codes!Reads(a, c)
        PROVE  \E r \in AnyCall : /\ asking' = [asking EXCEPT ![a] = r]
                                  /\ r.step = "idle" \/ (r.step = "read" /\ r.code \in Code)
    <3>1. PICK r : r = [Codes!Idle EXCEPT !.step = "read", !.code = c]
      OBVIOUS
    <3>2. r \in AnyCall /\ r.step = "read" /\ r.code = c
      BY <2>1, <3>1 DEF AnyCall
    <3> QED BY <2>2, <3>1, <3>2 DEF Codes!Reads
  <2> QED BY <2>1, <2>2 DEF Codes!GivesUp, Codes!Ends, Codes!Tick, Codes!vars
<1>6. /\ asking' \in [Call -> AnyCall]
      /\ \A o \in Call : \/ asking'[o] = asking[o]
                         \/ asking'[o].step = "idle"
                         \/ asking'[o].step = "read" /\ asking'[o].code \in Code
  BY <1>1, <1>5 DEF Columns
<1>7. Columns'
  BY <1>1, <1>2, <1>3, <1>6 DEF Columns
<1> QED BY <1>4, <1>6, <1>7, OthersGoOn

\* The rows of a phone are deleted, whatever requests are doing: there is room for a request that counted
\* them, and the code of one that read it no longer stands.
LEMMA DeletionKeeps ==
  ASSUME CodeAssumptions, CodeInv, NEW phone \in Phone, Codes!DeleteCustomerAccount(phone)
  PROVE  CodeInv'
<1>1. Columns
  BY CodeTypes DEF CodeInv
<1>2. /\ UNCHANGED <<now, send, asking, accepted>>
      /\ otp' = [c \in Code |-> IF c \in Codes!To(phone) THEN Codes!NoOtp ELSE otp[c]]
  BY DEF Codes!DeleteCustomerAccount
<1>3. Columns'
  BY <1>1, <1>2 DEF Columns
<1>4. \A c \in Code : otp'[c] # Codes!NoOtp => c \notin Codes!To(phone) /\ otp'[c] = otp[c]
  BY <1>2
<1>5. \A p : Codes!To(p)' = IF p = phone THEN {} ELSE Codes!To(p)
  BY <1>2, <1>4 DEF Codes!To, Codes!Made
<1>6. NoneMade
  <2>1. now' >= now
    BY <1>1, <1>2 DEF Columns
  <2> QED BY <1>2, <1>4, <1>5, <2>1 DEF NoneMade
<1> QED BY <1>2, <1>3, <1>6, OthersGoOn

\* The lock is free, so no code is sent between the counting and the next request's own.
LEMMA AdmitsKeeps ==
  ASSUME CodeAssumptions, CodeInv, NEW a \in Call, NEW phone \in Phone, NEW scope \in Codes!Scope,
         Codes!Admits(a, phone, scope)
  PROVE  CodeInv'
<1>1. UNCHANGED <<now, otp, send, accepted>> /\ Columns /\ now \in Int
  BY CodeTypes DEF Codes!Admits, CodeInv, Columns
<1>2. PICK r : r = [step |-> "admitted", phone |-> phone, scope |-> scope, code |-> None, at |-> now]
  OBVIOUS
<1>3. r \in AnyCall /\ r.step = "admitted" /\ r.phone = phone /\ r.at = now
  BY <1>1, <1>2 DEF AnyCall, Columns
<1>4. /\ asking' = [asking EXCEPT ![a] = r] /\ asking'[a] = r
      /\ \A o \in Call \ {a} : asking'[o] = asking[o] /\ asking[o].step # "admitted"
  BY <1>1, <1>2 DEF Codes!Admits, Columns
<1>5. Columns'
  BY <1>1, <1>3, <1>4 DEF Columns
<1>6. NoneMade
  BY <1>1 DEF NoneMade, Codes!To, Codes!Made
<1>7. Codes!Made' = Codes!Made /\ Codes!Sent' = Codes!Sent /\ Codes!SendsLimited' /\ \A p, t : Fits(p, t) => Fits(p, t)'
  BY <1>1, <1>6, RoomStays, LimitsOfEach DEF Codes!Made
<1>8. Codes!TypeOK'
  BY <1>1, <1>5, <1>7, CodeTypes DEF CodeInv
<1>9. Filled'
  BY <1>3, <1>4, <1>7 DEF CodeInv, Filled
<1>10. Fits(phone, now)
  <2>1. ~Codes!RateLimited(phone)
    BY DEF Codes!Admits
  <2>2. Codes!To(phone) \subseteq Code /\ Codes!Made \subseteq Code /\ Codes!Sent \subseteq Code
    BY DEF Codes!To, Codes!Made, Codes!Sent
  <2>3. \A c \in Codes!To(phone) : otp[c].at + Cooldown \in Int
    BY <2>2, MadeRow DEF CodeInv, Codes!To, CodeAssumptions, Codes!LimitsAssumption
  <2>4. \A S \in SUBSET Code : Cardinality(S) \in Nat
    BY CodesCount, FS_Subset, FS_CardinalityType DEF CodeAssumptions, Codes!RowsAssumption
  <2>5. /\ Cardinality({c \in Codes!To(phone) : otp[c].at + Window >= now}) \in Nat
        /\ Cardinality({c \in Codes!To(phone) : otp[c].at + Day >= now}) \in Nat
        /\ Cardinality({c \in Codes!Sent : send[c].at + Day >= now}) \in Nat
    BY <2>2, <2>4
  <2>6. WindowMax \in Nat /\ DayMax \in Nat /\ Budget \in Nat
    BY DEF CodeAssumptions, Codes!LimitsAssumption
  <2>7. \A c \in Codes!To(phone) : otp[c].at + Cooldown <= now
    BY <1>1, <2>1, <2>3 DEF Codes!RateLimited
  <2>8. /\ ~(Cardinality({c \in Codes!To(phone) : otp[c].at + Window >= now}) >= WindowMax)
        /\ ~(Cardinality({c \in Codes!To(phone) : otp[c].at + Day >= now}) >= DayMax)
        /\ ~(Cardinality({c \in Codes!Sent : send[c].at + Day >= now}) >= Budget)
    BY <2>1, CodesCount DEF Codes!RateLimited, Codes!Since
  <2> QED BY <2>5, <2>6, <2>7, <2>8 DEF Fits
<1>11. Admitted'
  <2>1. \A o \in Call : asking'[o].step = "admitted" => o = a
    BY <1>4
  <2>2. \A c \in Codes!Sent' : send'[c].at <= now
    BY <1>1, <1>7 DEF CodeInv, Past
  <2>3. Fits(phone, now)'
    BY <1>1, <1>7, <1>10 DEF Fits, Codes!To
  <2>4. asking'[a].phone = phone /\ asking'[a].at = now /\ now' = now
    BY <1>1, <1>3, <1>4
  <2>5. Fits(asking[a].phone, asking[a].at)'
    BY <2>3, <2>4 DEF Fits, Codes!To
  <2> QED BY <1>1, <2>1, <2>2, <2>4, <2>5 DEF Admitted
<1>12. Past' /\ OpenIsNewest' /\ Codes!OneOpen'
  BY <1>1, <1>7 DEF CodeInv, Past, OpenIsNewest, Codes!OneOpen, Codes!For, Codes!To
<1> QED BY <1>7, <1>8, <1>9, <1>11, <1>12 DEF CodeInv

\* One more row in a column of rows, the latest of them: its count is what there was room for.
LEMMA OneMoreCounts ==
  ASSUME CodeAssumptions, NEW S \in SUBSET Code, NEW R \in SUBSET S, NEW c \in Code \ S, NEW w, NEW m \in Nat,
         NEW new, Codes!Until(new, c, S \cup {c}, w) \subseteq R \cup {c}, Cardinality(R) < m
  PROVE  Cardinality(Codes!Until(new, c, S \cup {c}, w)) <= m
<1> DEFINE U == Codes!Until(new, c, S \cup {c}, w)
<1>1. IsFiniteSet(Code)
  BY CodesCount DEF CodeAssumptions, Codes!RowsAssumption
<1>2. IsFiniteSet(R) /\ Cardinality(R) \in Nat
  BY <1>1, FS_Subset, FS_CardinalityType
<1>3. IsFiniteSet(R \cup {c}) /\ Cardinality(R \cup {c}) = Cardinality(R) + 1 /\ Cardinality(R \cup {c}) \in Nat
  BY <1>2, FS_AddElement, FS_CardinalityType
<1>4. Cardinality(U) <= Cardinality(R \cup {c}) /\ Cardinality(U) \in Nat
  BY <1>3, FS_Subset, FS_CardinalityType
<1> QED BY <1>2, <1>3, <1>4

\* The new code is within the limits its request was admitted by; those sent before it to its phone are
\* older, so their limits do not count it; an attempt for another phone that is as old counts the same ones.
LEMMA PersistsSends ==
  ASSUME CodeAssumptions, CodeInv, NEW a \in Call, NEW c \in Code \ Codes!Sent,
         NEW p \in Phone, NEW t \in Int, Fits(p, t),
         \A d \in Codes!Sent : send[d].at <= t,
         Codes!Made' = Codes!Made \cup {c}, Codes!Sent' = Codes!Sent \cup {c},
         otp'[c].phone = p, otp'[c].at = t, send'[c].at = t,
         \A d \in Codes!Made : otp'[d].phone = otp[d].phone /\ otp'[d].at = otp[d].at,
         \A d \in Codes!Sent : send'[d].at = send[d].at
  PROVE  Codes!SendsLimited'
<1>1. /\ Codes!Made \subseteq Codes!Sent /\ Codes!Sent \subseteq Code
      /\ \A d \in Codes!Sent : send[d].at \in Int
      /\ \A d \in Codes!Made : otp[d].at \in Int /\ otp[d].at <= t
  BY MadeRow DEF CodeInv, Codes!Made, Codes!Sent
<1>2. /\ WindowMax \in Nat /\ DayMax \in Nat /\ Budget \in Nat /\ Window \in Nat /\ Day \in Nat
      /\ Cooldown \in Nat \ {0}
  BY DEF CodeAssumptions, Codes!LimitsAssumption
<1>3. /\ Codes!To(p)' = Codes!To(p) \cup {c}
      /\ \A q : q # p => Codes!To(q)' = Codes!To(q)
      /\ \A q : Codes!To(q) \subseteq Codes!Made
  BY <1>1 DEF Codes!To
<1>4. (\A q \in Phone : PhoneKept(q)) /\ BudgetKept
  BY LimitsOfEach DEF CodeInv
<1>5. BudgetKept'
  <2>1. PICK R \in SUBSET Codes!Sent : R = {d \in Codes!Sent : send[d].at + Day >= t} /\ Cardinality(R) < Budget
    BY DEF Fits
  <2>2. Codes!Until(send', c, Codes!Sent \cup {c}, Day) \subseteq R \cup {c}
    BY <1>1, <2>1 DEF Codes!Until
  <2>3. Cardinality(Codes!Until(send', c, Codes!Sent \cup {c}, Day)) <= Budget
    BY <1>1, <1>2, <2>1, <2>2, OneMoreCounts
  <2>4. \A x \in Codes!Sent : send[x].at < t =>
          Codes!Until(send', x, Codes!Sent \cup {c}, Day) = Codes!Until(send, x, Codes!Sent, Day)
    BY <1>1 DEF Codes!Until
  <2>5. \A x \in Codes!Sent : send[x].at = t =>
          Codes!Until(send', x, Codes!Sent \cup {c}, Day) = Codes!Until(send', c, Codes!Sent \cup {c}, Day)
    BY <1>1 DEF Codes!Until
  <2>6. \A x \in Codes!Sent : send[x].at < t \/ send[x].at = t
    BY <1>1
  <2>7. \A x \in Codes!Sent \cup {c} : Cardinality(Codes!Until(send', x, Codes!Sent \cup {c}, Day)) <= Budget
    BY <1>4, <2>3, <2>4, <2>5, <2>6 DEF BudgetKept
  <2> QED BY <2>7 DEF BudgetKept, Codes!Until
<1>6. PhoneKept(p)'
  <2> DEFINE S == Codes!To(p)
  <2>1. /\ Cardinality({d \in S : otp[d].at + Window >= t}) < WindowMax
        /\ Cardinality({d \in S : otp[d].at + Day >= t}) < DayMax
        /\ \A d \in S : otp[d].at + Cooldown <= t
    BY DEF Fits
  <2>2. /\ S \in SUBSET Code /\ c \in Code \ S
        /\ \A d \in S : otp[d].at \in Int /\ otp[d].at <= t /\ otp'[d].at = otp[d].at
    BY <1>1, <1>3
  <2>3. \A d \in S : otp[d].at < t
    BY <1>2, <2>1, <2>2
  <2>4. S' = S \cup {c}
    BY <1>3
  <2>5. \A x \in S : /\ \A d \in S \ {x} : otp[d].at <= otp[x].at => otp[d].at + Cooldown <= otp[x].at
                     /\ Cardinality(Codes!Until(otp, x, S, Window)) <= WindowMax
                     /\ Cardinality(Codes!Until(otp, x, S, Day)) <= DayMax
    BY <1>4 DEF PhoneKept
  <2> HIDE DEF S
  <2>6. ASSUME NEW w \in Nat, NEW m \in Nat, Cardinality({d \in S : otp[d].at + w >= t}) < m
        PROVE  /\ Cardinality(Codes!Until(otp', c, S \cup {c}, w)) <= m
               /\ \A x \in S : Codes!Until(otp', x, S \cup {c}, w) = Codes!Until(otp, x, S, w)
    <3>1. PICK R \in SUBSET S : R = {d \in S : otp[d].at + w >= t} /\ Cardinality(R) < m
      BY <2>6
    <3>2. Codes!Until(otp', c, S \cup {c}, w) \subseteq R \cup {c}
      BY <2>2, <3>1 DEF Codes!Until
    <3>3. Cardinality(Codes!Until(otp', c, S \cup {c}, w)) <= m
      BY <2>2, <3>1, <3>2, OneMoreCounts
    <3>4. \A x \in S : Codes!Until(otp', x, S \cup {c}, w) = Codes!Until(otp, x, S, w)
      BY <2>2, <2>3 DEF Codes!Until
    <3> QED BY <3>3, <3>4
  <2>7. /\ Cardinality(Codes!Until(otp', c, S \cup {c}, Window)) <= WindowMax
        /\ Cardinality(Codes!Until(otp', c, S \cup {c}, Day)) <= DayMax
        /\ \A x \in S : /\ Codes!Until(otp', x, S \cup {c}, Window) = Codes!Until(otp, x, S, Window)
                        /\ Codes!Until(otp', x, S \cup {c}, Day) = Codes!Until(otp, x, S, Day)
    BY <1>2, <2>1, <2>6
  <2>8. \A x \in S \cup {c} : \A d \in (S \cup {c}) \ {x} : otp'[d].at <= otp'[x].at => otp'[d].at + Cooldown <= otp'[x].at
    BY <2>1, <2>2, <2>3, <2>5
  <2>9. \A x \in S \cup {c} : /\ Cardinality(Codes!Until(otp', x, S \cup {c}, Window)) <= WindowMax
                              /\ Cardinality(Codes!Until(otp', x, S \cup {c}, Day)) <= DayMax
    BY <2>5, <2>7
  <2> QED BY <2>4, <2>8, <2>9 DEF PhoneKept, S, Codes!Until
<1>7. ASSUME NEW q \in Phone, q # p PROVE PhoneKept(q)'
  <2>1. Codes!To(q)' = Codes!To(q) /\ \A d \in Codes!To(q) : otp'[d].at = otp[d].at
    BY <1>3, <1>7
  <2>2. \A x \in Codes!To(q) : \A w : Codes!Until(otp, x, Codes!To(q), w)' = Codes!Until(otp, x, Codes!To(q), w)
    BY <2>1 DEF Codes!Until
  <2> QED BY <1>4, <2>1, <2>2 DEF PhoneKept
<1> QED BY <1>5, <1>6, <1>7, LimitsOfEach

\* The new code closes what was open in its place, is the newest there, and frees the lock.
LEMMA PersistsKeeps ==
  ASSUME CodeAssumptions, CodeInv, NEW a \in Call, NEW c \in Code, Codes!Persists(a, c)
  PROVE  CodeInv'
<1>1. Columns /\ MaxTries \in Nat /\ MaxNow \in Nat /\ c \notin Codes!Sent
  BY CodeTypes DEF CodeInv, CodeAssumptions, Codes!LimitsAssumption, Codes!Persists
<1>2. PICK p \in Phone, u \in Codes!Scope, t \in 0 .. MaxNow :
        p = asking[a].phone /\ u = asking[a].scope /\ t = asking[a].at
  BY <1>1 DEF Codes!Persists, CodeInv, Columns, AnyCall, Filled
<1>3. PICK r, s : /\ r = [phone |-> p, scope |-> u, at |-> t, open |-> TRUE, tries |-> 0]
                  /\ s = [status |-> "RESERVED", at |-> t]
  OBVIOUS
<1>4. /\ r \in OtpRow /\ r.phone = p /\ r.scope = u /\ r.at = t /\ r.open /\ r # Codes!NoOtp
      /\ s \in SendRow /\ s.at = t /\ s # Codes!NoSend
  <2>1. r \in OtpRow /\ r.phone = p /\ r.scope = u /\ r.at = t /\ r.open
    BY <1>1, <1>3 DEF OtpRow
  <2>2. s \in SendRow /\ s.at = t
    BY <1>3 DEF SendRow
  <2> QED BY <2>1, <2>2, RowTypes
<1>5. /\ otp'[c] = r /\ otp' \in [Code -> {otp'[d] : d \in Code}]
      /\ \A d \in Code \ {c} : otp'[d] = [otp[d] EXCEPT !.open = @ /\ d \notin Codes!For(p, u)]
      /\ send' = [send EXCEPT ![c] = s] /\ UNCHANGED <<now, accepted>>
  BY <1>2, <1>3 DEF Codes!Persists
<1>6. ASSUME NEW d \in Code \ {c}
      PROVE  /\ otp'[d] \in OtpRow \cup {Codes!NoOtp} /\ (otp'[d] = Codes!NoOtp <=> otp[d] = Codes!NoOtp)
             /\ otp'[d].phone = otp[d].phone /\ otp'[d].scope = otp[d].scope /\ otp'[d].at = otp[d].at
             /\ otp'[d].open <=> otp[d].open /\ d \notin Codes!For(p, u)
  <2>1. PICK v \in BOOLEAN : v <=> otp[d].open /\ d \notin Codes!For(p, u)
    OBVIOUS
  <2>2. otp[d].open \in BOOLEAN
    BY MadeRow DEF CodeInv
  <2>3. otp'[d] = [otp[d] EXCEPT !.open = v]
    BY <1>5, <2>1, <2>2
  <2>4. CASE otp[d] = Codes!NoOtp
    <3>1. Codes!NoOtp \in [phone : {None}, scope : {Codes!LogIn}, at : {0}, open : {FALSE}, tries : {0}]
      BY DEF Codes!NoOtp
    <3>2. v = FALSE
      BY <2>1, <2>4, <3>1
    <3>3. otp'[d] = otp[d]
      BY <2>3, <2>4, <3>1, <3>2
    <3> QED BY <2>1, <2>4, <3>2, <3>3, <3>1
  <2>5. CASE otp[d] \in OtpRow
    <3>1. /\ otp'[d] \in OtpRow /\ otp'[d].phone = otp[d].phone /\ otp'[d].scope = otp[d].scope
          /\ otp'[d].at = otp[d].at /\ otp'[d].open = v
      BY <2>3, <2>5 DEF OtpRow
    <3> QED BY <2>1, <2>5, <3>1, RowTypes
  <2> QED BY <1>1, <2>4, <2>5 DEF Columns
<1>7. PICK q : q = [Codes!Idle EXCEPT !.step = "sending", !.code = c]
  OBVIOUS
<1>8. q \in AnyCall /\ q.step = "sending" /\ q.code = c
  <2>1. Codes!Idle \in AnyCall
    BY <1>1 DEF Codes!Idle, AnyCall, Codes!Scope, Columns
  <2> QED BY <1>7, <2>1 DEF AnyCall
<1>9. asking' = [asking EXCEPT ![a] = q]
  BY <1>7 DEF Codes!Persists
<1>10. Columns'
  <2>1. otp' \in [Code -> OtpRow \cup {Codes!NoOtp}]
    BY <1>4, <1>5, <1>6
  <2> QED BY <1>1, <1>4, <1>5, <1>8, <1>9, <2>1 DEF Columns
<1>11. /\ Codes!Made \subseteq Codes!Sent /\ Codes!Sent \subseteq Code
       /\ c \notin Codes!Made /\ Codes!Made' = Codes!Made \cup {c} /\ Codes!Sent' = Codes!Sent \cup {c}
       /\ \A d \in Codes!Sent : send'[d] = send[d]
       /\ send'[c] = s
  <2>1. Codes!Made \subseteq Codes!Sent /\ Codes!Sent \subseteq Code
    BY MadeRow DEF CodeInv, Codes!Made, Codes!Sent
  <2>2. Codes!Made' = Codes!Made \cup {c}
    BY <1>4, <1>5, <1>6 DEF Codes!Made
  <2>3. Codes!Sent' = Codes!Sent \cup {c} /\ send'[c] = s /\ \A d \in Code \ {c} : send'[d] = send[d]
    BY <1>1, <1>4, <1>5 DEF Codes!Sent, Columns
  <2> QED BY <1>1, <2>1, <2>2, <2>3
<1>12. Codes!TypeOK'
  BY <1>4, <1>5, <1>6, <1>10, <1>11, CodeTypes DEF CodeInv
<1>13. /\ asking'[a] = q /\ \A o \in Call \ {a} : asking'[o] = asking[o] /\ asking'[o].step # "admitted"
  BY <1>1, <1>9 DEF Codes!Persists, CodeInv, Columns, Admitted
<1>14. Filled'
  BY <1>8, <1>11, <1>13 DEF CodeInv, Filled
<1>15. Admitted'
  BY <1>8, <1>13 DEF Admitted
<1>16. /\ t <= now /\ t \in Int /\ Fits(p, t)
       /\ \A d \in Codes!Sent : send[d].at <= t /\ send[d].at <= now
       /\ \A d \in Codes!Made : otp[d].at <= t /\ otp'[d].phone = otp[d].phone /\ otp'[d].at = otp[d].at
  <2>1. asking[a].step = "admitted"
    BY DEF Codes!Persists
  <2>2. t <= now /\ Fits(p, t) /\ \A d \in Codes!Sent : send[d].at <= t /\ send[d].at <= now
    BY <1>2, <2>1 DEF CodeInv, Admitted, Past, Fits, Codes!To
  <2>3. \A d \in Codes!Made : send[d].at = otp[d].at /\ d \in Code \ {c}
    BY <1>11, MadeRow DEF CodeInv
  <2> QED BY <1>2, <1>6, <1>11, <2>2, <2>3
<1>17. Past'
  BY <1>4, <1>5, <1>11, <1>16 DEF Past
<1>18. \A d \in Codes!Made : /\ otp'[d].scope = otp[d].scope
                             /\ otp'[d].open <=> otp[d].open /\ ~(otp[d].phone = p /\ otp[d].scope = u)
  <2>1. \A d \in Codes!Made : d \in Code \ {c} /\ (d \in Codes!For(p, u) <=> otp[d].phone = p /\ otp[d].scope = u)
    BY <1>11 DEF Codes!For, Codes!To
  <2> QED BY <1>6, <2>1
<1>19. OpenIsNewest'
  <2>1. \A d \in Code \ Codes!Sent' : accepted'[d] = 0
    BY <1>5, <1>11 DEF CodeInv, OpenIsNewest
  <2>2. ASSUME NEW d \in Codes!Made', otp'[d].open
        PROVE  /\ accepted'[d] = 0
               /\ \A e \in Codes!Made' : otp'[e].phone = otp'[d].phone /\ otp'[e].scope = otp'[d].scope
                                        => otp'[e].at <= otp'[d].at
    <3>1. CASE d = c
      <4>1. accepted'[d] = 0
        BY <1>1, <1>5, <3>1 DEF CodeInv, OpenIsNewest
      <4>2. \A e \in Codes!Made' : otp'[e].at <= t
        BY <1>4, <1>5, <1>11, <1>16
      <4> QED BY <1>4, <1>5, <3>1, <4>1, <4>2
    <3>2. CASE d # c
      <4>1. d \in Codes!Made /\ otp[d].open /\ ~(otp[d].phone = p /\ otp[d].scope = u)
        BY <1>11, <1>18, <2>2, <3>2
      <4>2. \A e \in Codes!Made : otp[e].phone = otp[d].phone /\ otp[e].scope = otp[d].scope => otp[e].at <= otp[d].at
        BY <4>1 DEF CodeInv, OpenIsNewest, Codes!For, Codes!To
      <4>3. accepted'[d] = 0
        BY <1>5, <4>1 DEF CodeInv, OpenIsNewest
      <4> QED BY <1>4, <1>5, <1>11, <1>16, <1>18, <4>1, <4>2, <4>3
    <3> QED BY <3>1, <3>2
  <2> QED BY <2>1, <2>2 DEF OpenIsNewest, Codes!For, Codes!To
<1>20. Codes!OneOpen'
  BY <1>4, <1>5, <1>11, <1>16, <1>18 DEF CodeInv, Codes!OneOpen
<1>21. Codes!SendsLimited'
  BY <1>1, <1>4, <1>5, <1>11, <1>16, PersistsSends
<1> QED BY <1>12, <1>14, <1>15, <1>17, <1>19, <1>20, <1>21 DEF CodeInv

\* It holds of no codes, and every step keeps it.
LEMMA CodesBegin == ASSUME CodeAssumptions, Codes!Init PROVE CodeInv
<1>1. Codes!Made = {} /\ Codes!Sent = {}
  BY DEF Codes!Init, Codes!Made, Codes!Sent
<1>2. Columns
  BY DEF CodeAssumptions, Codes!LimitsAssumption, Codes!Init, Columns, Codes!Idle, AnyCall, Codes!Scope
<1>3. \A a \in Call : asking[a].step = "idle"
  BY DEF Codes!Init, Codes!Idle
<1>4. \A c \in Code : accepted[c] = 0
  BY DEF Codes!Init
<1>5. Codes!TypeOK
  BY <1>1, <1>2, CodeTypes
<1>6. Codes!SendsLimited
  BY <1>1 DEF Codes!SendsLimited, Codes!To
<1> QED BY <1>1, <1>3, <1>4, <1>5, <1>6 DEF CodeInv, Filled, Admitted, Past, OpenIsNewest, Codes!OneOpen

\* Every step keeps the invariant.
LEMMA CodeStep == ASSUME CodeAssumptions, CodeInv, [Codes!Next]_(Codes!vars) PROVE CodeInv'
BY SentKeeps, TriedKeeps, IdleKeeps, DeletionKeeps, AdmitsKeeps, PersistsKeeps DEF Codes!Next

\* So it always holds.
LEMMA AlwaysCodeInv == ASSUME CodeAssumptions PROVE Codes!Spec => []CodeInv
<1>1. CodeInv /\ [Codes!Next]_(Codes!vars) => CodeInv'
  BY CodeStep
<1> QED BY <1>1, CodesBegin, PTL DEF Codes!Spec

\* A right code is accepted of an open row: for the first time, as the newest in its place, and not of an
\* account that was deleted.
LEMMA AcceptsOnce ==
  ASSUME CodeAssumptions, CodeInv, [Codes!Next]_(Codes!vars)
  PROVE  [\A c \in Code : accepted'[c] # accepted[c] =>
            /\ accepted[c] = 0 /\ c \in Codes!Made /\ otp[c].tries < MaxTries
            /\ \A d \in Codes!For(otp[c].phone, otp[c].scope) : otp[d].at <= otp[c].at]_(Codes!vars)
<1>1. CASE UNCHANGED accepted
  BY <1>1
<1>2. ASSUME NEW a \in Call, Codes!IsRight(a)
      PROVE  \A c \in Code : accepted'[c] # accepted[c] =>
               /\ accepted[c] = 0 /\ c \in Codes!Made /\ otp[c].tries < MaxTries
               /\ \A d \in Codes!For(otp[c].phone, otp[c].scope) : otp[d].at <= otp[c].at
  <2>1. asking[a].code \in Code /\ otp[asking[a].code].open /\ otp[asking[a].code].tries < MaxTries
    BY <1>2 DEF Codes!IsRight, Codes!Stands, CodeInv, Filled
  <2>2. asking[a].code \in Codes!Made
    BY <2>1, MadeRow DEF CodeInv
  <2>3. \A c \in Code : accepted'[c] # accepted[c] => c = asking[a].code
    BY <1>2 DEF Codes!IsRight, CodeInv, Codes!TypeOK
  <2> QED BY <2>1, <2>2, <2>3 DEF CodeInv, OpenIsNewest
<1> QED BY <1>1, <1>2 DEF Codes!Next, Codes!vars, Codes!Admits, Codes!Persists, Codes!Reads, Codes!SendAccepted,
             Codes!SendUnknown, Codes!IsWrong, Codes!GivesUp, Codes!Expires, Codes!DeleteCustomerAccount, Codes!Tick

\* Whatever requests race, replicas crash, answers are lost and accounts are deleted: of the codes of a phone
\* for one purpose and user one is open, and a code is accepted once, while it is the newest of them and has
\* tries left.
THEOREM CodesAreKept == ASSUME CodeAssumptions PROVE Codes!Spec => CodesKept
<1>1. CodeInv => Codes!TypeOK /\ Codes!OneOpen
  BY DEF CodeInv
<1>2. Codes!Spec => [][Codes!Next]_(Codes!vars)
  BY PTL DEF Codes!Spec
<1>3. CodeInv /\ [Codes!Next]_(Codes!vars) =>
        [\A c \in Code : accepted'[c] # accepted[c] =>
           /\ accepted[c] = 0 /\ c \in Codes!Made /\ otp[c].tries < MaxTries
           /\ \A d \in Codes!For(otp[c].phone, otp[c].scope) : otp[d].at <= otp[c].at]_(Codes!vars)
  BY AcceptsOnce
<1> QED BY <1>1, <1>2, <1>3, AlwaysCodeInv, PTL DEF CodesKept, Codes!CodesKept, Codes!AcceptedOnce

\* In no window of time are more codes sent to a phone than its limits say, of those since an account with it
\* was last deleted, nor more to all phones than the budget, of all that were ever sent, although the counters
\* are read before the row they admit is written, and rows may go in between.
THEOREM SendsAreLimited == ASSUME CodeAssumptions PROVE Codes!Spec => []SendsLimited
<1>1. CodeInv => SendsLimited
  BY DEF CodeInv, SendsLimited
<1> QED BY <1>1, AlwaysCodeInv, PTL
===============================================================================
