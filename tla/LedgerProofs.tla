------------------------------ MODULE LedgerProofs ------------------------------
(***************************************************************************)
(* Proofs about what is counted: Stock, Invoices, AiCredits and Offers,    *)
(* for any products, keys, requests in flight, visits, subscriptions,      *)
(* bookings and limits.                                                    *)
(***************************************************************************)
EXTENDS Stock, Ledgers, FiniteSetTheorems, WellFoundedInduction, TLAPS

(***************************************************************************)
(* Stock.                                                                  *)
(*                                                                         *)
(* Locks: a request holds the least of the products it needs, and no two   *)
(* requests one product, so that along a chain of waiting requests the     *)
(* products waited for grow.  Usages: a row that is being reversed is      *)
(* claimed by one request, which either reverses it or gives it back.      *)
(***************************************************************************)
ReqRow == [op : {"none", "record", "reverse", "transfer"}, step : {"idle", "find", "lock"},
           plan : [Work -> SUBSET Product], find : SUBSET Work, usage : Usage \cup {None},
           key : Key \cup {None}, move : [out : SUBSET Product, in : SUBSET Product],
           need : SUBSET Product, holds : SUBSET Product]
UsageRow == [status : {"ABSENT", "RECORDED", "REVERSING", "REVERSED"}, work : Work \cup {None}, items : SUBSET Product]

\* What one request holds and needs.
Orderly(x) ==
  /\ x.holds \subseteq x.need
  /\ \A p \in x.holds, q \in x.need \ x.holds : p < q
  /\ x.step # "lock" => x.holds = {}
  /\ x.op = "record" /\ x.step = "lock" => x.need = UNION {x.plan[w] : w \in Work}
  /\ x.usage # None => x.op = "reverse"
  /\ x.op = "reverse" => x.usage \in Usage
  /\ x.op = "transfer" => x.key \in Key

ReqInv ==
  /\ \A r \in Request : Orderly(req[r])
  /\ \A r, o \in Request : r # o => req[r].holds \cap req[o].holds = {}
  /\ \A r, o \in Request : req[r].usage # None /\ req[r].usage = req[o].usage => r = o
  /\ \A r \in Request : req[r].usage # None => usage[req[r].usage].status = "REVERSING"

IInv == TypeOK /\ ReqInv /\ RecordedOnce /\ StockAccounted

LEMMA IdleRow == Idle \in ReqRow /\ Orderly(Idle)
BY NoneAssumption DEF Idle, ReqRow, Orderly, NoPlan, NoMove

LEMMA Rows ==
  ASSUME TypeOK
  PROVE  /\ req \in [Request -> ReqRow] /\ usage \in [Usage -> UsageRow]
         /\ stock \in [Product -> Nat] /\ moved \in [Key -> [out : SUBSET Product, in : SUBSET Product]]
BY DEF TypeOK, ReqRow, UsageRow

\* A request goes on to x, and the claims of the others stay.
LEMMA RequestGoes ==
  ASSUME IInv, NEW r \in Request, NEW x \in ReqRow, req' = [req EXCEPT ![r] = x], Orderly(x),
         \A o \in Request \ {r} : x.holds \cap req[o].holds = {},
         \A o \in Request \ {r} : x.usage # None => req[o].usage # x.usage,
         x.usage # None => usage'[x.usage].status = "REVERSING",
         \A o \in Request \ {r} : req[o].usage # None => usage'[req[o].usage].status = "REVERSING"
  PROVE  ReqInv' /\ req' \in [Request -> ReqRow]
<1>1. req' \in [Request -> ReqRow] /\ \A o \in Request : req'[o] = IF o = r THEN x ELSE req[o]
  BY Rows DEF IInv
<1>2. \A o \in Request : Orderly(req'[o])
  BY <1>1 DEF IInv, ReqInv
<1>3. \A a, o \in Request : a # o => req'[a].holds \cap req'[o].holds = {}
  BY <1>1 DEF IInv, ReqInv
<1>4. \A a, o \in Request : req'[a].usage # None /\ req'[a].usage = req'[o].usage => a = o
  BY <1>1 DEF IInv, ReqInv
<1>5. \A o \in Request : req'[o].usage # None => usage'[req'[o].usage].status = "REVERSING"
  BY <1>1 DEF IInv, ReqInv
<1>6. (\A o \in Request : Orderly(req[o]))'
  BY <1>2 DEF Orderly
<1> QED BY <1>1, <1>3, <1>4, <1>5, <1>6 DEF ReqInv

\* A request that ends, its own claim apart.
LEMMA RequestEnds ==
  ASSUME IInv, NEW r \in Request, End(r),
         \A o \in Request \ {r} : req[o].usage # None => usage'[req[o].usage].status = "REVERSING"
  PROVE  ReqInv' /\ req' \in [Request -> ReqRow]
<1>1. Idle.holds = {} /\ Idle.usage = None
  BY DEF Idle
<1> QED BY <1>1, IdleRow, RequestGoes DEF End

\* The usages are as they were, but for the claims on them.
SameUsages == \A u \in Usage : /\ Recorded(u)' <=> Recorded(u)
                               /\ usage'[u].work = usage[u].work /\ usage'[u].items = usage[u].items

LEMMA Nothing ==
  ASSUME IInv, UNCHANGED <<stock, moved>>, SameUsages
  PROVE  RecordedOnce' /\ StockAccounted'
<1>1. RecordedOnce'
  BY DEF RecordedOnce, IInv, SameUsages
<1>2. \A p \in Product : {u \in Usage : Recorded(u)' /\ p \in usage'[u].items} = {u \in Usage : Recorded(u) /\ p \in usage[u].items}
  BY DEF SameUsages
<1>3. StockAccounted'
  BY <1>2 DEF StockAccounted, IInv
<1> QED BY <1>1, <1>3

LEMMA Together ==
  ASSUME IInv, ReqInv', req' \in [Request -> ReqRow], RecordedOnce', StockAccounted',
         usage' \in [Usage -> UsageRow], stock' \in [Product -> Nat],
         moved' \in [Key -> [out : SUBSET Product, in : SUBSET Product]]
  PROVE  IInv'
BY DEF IInv, TypeOK, ReqRow, UsageRow

\* A step that changes nothing but a request.
LEMMA OnlyRequest ==
  ASSUME IInv, ReqInv', req' \in [Request -> ReqRow], UNCHANGED <<stock, moved, usage>>
  PROVE  IInv'
<1>1. SameUsages
  BY DEF SameUsages, Recorded
<1> QED BY <1>1, Nothing, Together, Rows DEF IInv

LEMMA JustEnds ==
  ASSUME IInv, NEW r \in Request, End(r), UNCHANGED <<stock, moved, usage>>
  PROVE  IInv'
<1>1. ReqInv' /\ req' \in [Request -> ReqRow]
  BY RequestEnds DEF IInv, ReqInv
<1> QED BY <1>1, OnlyRequest

(***************************************************************************)
(* Movements.                                                              *)
(***************************************************************************)
LEMMA MoveAccounted ==
  ASSUME IInv, NEW k \in Key, NEW m \in [out : SUBSET Product, in : SUBSET Product],
         moved[k] = NoMove, InStock(m), Applied(m), moved' = [moved EXCEPT ![k] = m], UNCHANGED usage
  PROVE  /\ stock' \in [Product -> Nat] /\ moved' \in [Key -> [out : SUBSET Product, in : SUBSET Product]]
         /\ RecordedOnce' /\ StockAccounted'
<1>1. stock \in [Product -> Nat] /\ moved \in [Key -> [out : SUBSET Product, in : SUBSET Product]]
  BY Rows DEF IInv
<1>2. moved' \in [Key -> [out : SUBSET Product, in : SUBSET Product]] /\ \A j \in Key : moved'[j] = IF j = k THEN m ELSE moved[j]
  BY <1>1
<1>3. \A p \in Product : stock'[p] = stock[p] + (IF p \in m.in THEN 1 ELSE 0) - (IF p \in m.out THEN 1 ELSE 0)
  BY DEF Applied
<1>4. stock' \in [Product -> Nat]
  <2>1. \A p \in Product : stock'[p] \in Nat
    BY <1>1, <1>3 DEF InStock
  <2> QED BY <2>1 DEF Applied
<1>5. RecordedOnce'
  BY DEF IInv, RecordedOnce, Recorded
<1>6. StockAccounted'
  <2> SUFFICES ASSUME NEW p \in Product
               PROVE  stock'[p] + Cardinality({j \in Key : p \in moved'[j].out})
                        + Cardinality({u \in Usage : Recorded(u)' /\ p \in usage'[u].items})
                        = Cardinality({j \in Key : p \in moved'[j].in})
    BY DEF StockAccounted
  <2> DEFINE Out == {j \in Key : p \in moved[j].out}
             In == {j \in Key : p \in moved[j].in}
             Rec == {u \in Usage : Recorded(u) /\ p \in usage[u].items}
             Out2 == {j \in Key : p \in moved'[j].out}
             In2 == {j \in Key : p \in moved'[j].in}
             a == IF p \in m.out THEN 1 ELSE 0
             b == IF p \in m.in THEN 1 ELSE 0
  <2>1. stock[p] + Cardinality(Out) + Cardinality(Rec) = Cardinality(In)
    BY DEF IInv, StockAccounted
  <2>2. {u \in Usage : Recorded(u)' /\ p \in usage'[u].items} = Rec
    BY DEF Recorded
  <2>3. Out2 = IF p \in m.out THEN Out \cup {k} ELSE Out
    BY <1>2 DEF NoMove
  <2>4. In2 = IF p \in m.in THEN In \cup {k} ELSE In
    BY <1>2 DEF NoMove
  <2>5. k \notin Out /\ k \notin In
    BY DEF NoMove
  <2>6. IsFiniteSet(Out) /\ IsFiniteSet(In) /\ IsFiniteSet(Rec)
    BY FS_Subset, WorkAssumption
  <2>7. /\ a \in {0, 1} /\ b \in {0, 1}
        /\ (p \in m.out => a = 1) /\ (p \notin m.out => a = 0)
        /\ (p \in m.in => b = 1) /\ (p \notin m.in => b = 0)
    OBVIOUS
  <2>8. stock'[p] = stock[p] + b - a /\ stock[p] \in Nat
    BY <1>1, <1>3
  <2> HIDE DEF Out, In, Rec, Out2, In2, a, b
  <2>9. Cardinality(Out) \in Nat /\ Cardinality(In) \in Nat /\ Cardinality(Rec) \in Nat
    BY <2>6, FS_CardinalityType
  <2>10. Cardinality(Out \cup {k}) = Cardinality(Out) + 1 /\ Cardinality(In \cup {k}) = Cardinality(In) + 1
    BY <2>5, <2>6, FS_AddElement
  <2>11. Cardinality(Out2) = Cardinality(Out) + a
    BY <2>3, <2>7, <2>9, <2>10
  <2>12. Cardinality(In2) = Cardinality(In) + b
    BY <2>4, <2>7, <2>9, <2>10
  <2>13. stock'[p] + Cardinality(Out2) + Cardinality(Rec) = Cardinality(In2)
    BY <2>1, <2>7, <2>8, <2>9, <2>11, <2>12
  <2> QED BY <2>2, <2>13 DEF Out2, In2
<1> QED BY <1>2, <1>4, <1>5, <1>6
(***************************************************************************)
(* Usages.                                                                 *)
(***************************************************************************)
\* Two sets of equal size: what new picks for the services, and the services.
LEMMA Picked ==
  ASSUME NEW W, IsFiniteSet(W), NEW U, NEW new \in [U -> W],
         \A w \in W : \E u \in U : new[u] = w,
         \A u, v \in U : new[u] = new[v] => u = v
  PROVE  IsFiniteSet(U) /\ Cardinality(U) = Cardinality(W)
<1>1. new \in Injection(U, W) /\ new \in Surjection(U, W)
  BY DEF Injection, IsInjective, Surjection
<1> QED BY <1>1, FS_Injection

LEMMA WriteAccounted ==
  ASSUME IInv, NEW r \in Request, Ready(r, "record"), Enough(r),
         \A u \in Usage : Recorded(u) => usage[u].work \notin ToWrite(r),
         Write(r)
  PROVE  /\ stock' \in [Product -> Nat] /\ usage' \in [Usage -> UsageRow]
         /\ RecordedOnce' /\ StockAccounted'
         /\ \A u \in Usage : usage[u].status = "REVERSING" => usage'[u] = usage[u]
<1> DEFINE plan == req[r].plan
<1>1. PICK new \in [Usage -> ToWrite(r) \cup {None}] :
        /\ \A w \in ToWrite(r) : \E u \in Usage : new[u] = w
        /\ \A u, v \in Usage : new[u] = new[v] /\ new[u] # None => u = v
        /\ \A u \in Usage : new[u] # None => usage[u] = NoUsage
        /\ usage' = [u \in Usage |-> IF new[u] = None THEN usage[u]
                                     ELSE [status |-> "RECORDED", work |-> new[u], items |-> plan[new[u]]]]
  BY DEF Write
<1>2. /\ stock' = [p \in Product |-> stock[p] - Used(r, p)] /\ moved' = moved
      /\ stock \in [Product -> Nat] /\ usage \in [Usage -> UsageRow] /\ plan \in [Work -> SUBSET Product]
      /\ ToWrite(r) \subseteq Work /\ None \notin ToWrite(r)
  BY Rows, NoneAssumption DEF Write, IInv, ReqRow, ToWrite
<1>3. req[r].need = UNION {plan[w] : w \in Work}
  BY DEF IInv, ReqInv, Orderly, Ready
<1> DEFINE W(p) == {w \in Work : p \in plan[w]}
<1>4. \A p \in Product : Used(r, p) = Cardinality(W(p)) /\ IsFiniteSet(W(p)) /\ Cardinality(W(p)) \in Nat /\ W(p) \subseteq ToWrite(r)
  BY WorkAssumption, FS_Subset, FS_CardinalityType DEF Used, ToWrite
<1>5. \A p \in Product : stock[p] >= Used(r, p)
  <2> SUFFICES ASSUME NEW p \in Product PROVE stock[p] >= Used(r, p)
    OBVIOUS
  <2>1. CASE p \in req[r].need
    BY <2>1 DEF Enough
  <2>2. CASE p \notin req[r].need
    <3>1. W(p) = {}
      BY <1>3, <2>2
    <3>2. Used(r, p) = 0
      BY <1>4, <3>1, FS_EmptySet
    <3> QED BY <1>2, <3>2
  <2> QED BY <2>1, <2>2
<1> HIDE DEF plan
<1>6. \A u \in Usage : usage'[u] = IF new[u] = None THEN usage[u]
                                   ELSE [status |-> "RECORDED", work |-> new[u], items |-> plan[new[u]]]
  BY <1>1
<1>7. /\ \A u \in Usage : new[u] = None => usage'[u] = usage[u] /\ (Recorded(u)' <=> Recorded(u))
      /\ \A u \in Usage : new[u] # None => /\ new[u] \in ToWrite(r) /\ Recorded(u)' /\ ~Recorded(u)
                                           /\ usage'[u].work = new[u] /\ usage'[u].items = plan[new[u]]
  BY <1>1, <1>6 DEF Recorded, NoUsage
<1>8. stock' \in [Product -> Nat]
  <2>1. ASSUME NEW p \in Product PROVE stock[p] - Used(r, p) \in Nat
    <3>1. Used(r, p) \in Nat /\ stock[p] \in Nat /\ stock[p] >= Used(r, p)
      BY <1>2, <1>4, <1>5
    <3> QED BY <3>1
  <2> DEFINE g(p) == stock[p] - Used(r, p)
  <2>2. stock' = [p \in Product |-> g(p)] /\ \A p \in Product : g(p) \in Nat
    BY <1>2, <2>1
  <2> HIDE DEF g
  <2> QED BY <2>2
<1>9. usage' \in [Usage -> UsageRow]
  <2>1. \A u \in Usage : usage'[u] \in UsageRow
    BY <1>1, <1>2, <1>6 DEF UsageRow
  <2> QED BY <1>1, <2>1
<1>10. RecordedOnce'
  <2> SUFFICES ASSUME NEW u \in Usage, NEW v \in Usage, Recorded(u)', Recorded(v)', usage'[u].work = usage'[v].work
               PROVE  u = v
    BY DEF RecordedOnce
  <2>1. CASE new[u] = None /\ new[v] = None
    BY <1>7, <2>1 DEF IInv, RecordedOnce
  <2>2. CASE new[u] = None /\ new[v] # None
    BY <1>7, <2>2
  <2>3. CASE new[u] # None /\ new[v] = None
    BY <1>7, <2>3
  <2>4. CASE new[u] # None /\ new[v] # None
    BY <1>1, <1>7, <2>4
  <2> QED BY <2>1, <2>2, <2>3, <2>4
<1>11. StockAccounted'
  <2> SUFFICES ASSUME NEW p \in Product
               PROVE  stock'[p] + Cardinality({j \in Key : p \in moved'[j].out})
                        + Cardinality({u \in Usage : Recorded(u)' /\ p \in usage'[u].items})
                        = Cardinality({j \in Key : p \in moved'[j].in})
    BY DEF StockAccounted
  <2> DEFINE Rec == {u \in Usage : Recorded(u) /\ p \in usage[u].items}
             Rec2 == {u \in Usage : Recorded(u)' /\ p \in usage'[u].items}
             U == {u \in Usage : new[u] \in W(p)}
             Out == {j \in Key : p \in moved[j].out}
             In == {j \in Key : p \in moved[j].in}
  <2>1. Rec2 = Rec \cup U
    <3>1. \A u \in Usage : new[u] = None => (u \in Rec2 <=> u \in Rec) /\ u \notin U
      BY <1>2, <1>4, <1>7
    <3>2. \A u \in Usage : new[u] # None => (u \in Rec2 <=> u \in U) /\ u \notin Rec
      BY <1>2, <1>7
    <3> QED BY <3>1, <3>2
  <2>2. Rec \cap U = {}
    BY <1>2, <1>4, <1>7
  <2>3. IsFiniteSet(U) /\ Cardinality(U) = Cardinality(W(p))
    <3> DEFINE f == [u \in U |-> new[u]]
    <3>1. f \in [U -> W(p)]
      OBVIOUS
    <3>2. \A w \in W(p) : \E u \in U : f[u] = w
      BY <1>1, <1>4
    <3>3. \A u, v \in U : f[u] = f[v] => u = v
      BY <1>1, <1>2, <1>4
    <3> HIDE DEF f, U, W
    <3> QED BY <1>4, <3>1, <3>2, <3>3, Picked
  <2>4. IsFiniteSet(Rec)
    BY FS_Subset, WorkAssumption
  <2>5. IsFiniteSet(Out) /\ IsFiniteSet(In)
    BY FS_Subset, WorkAssumption
  <2>6. stock[p] + Cardinality(Out) + Cardinality(Rec) = Cardinality(In)
    BY DEF IInv, StockAccounted
  <2>7. {j \in Key : p \in moved'[j].out} = Out /\ {j \in Key : p \in moved'[j].in} = In
    BY <1>2
  <2>8. stock'[p] = stock[p] - Cardinality(W(p)) /\ stock[p] \in Nat /\ Cardinality(W(p)) \in Nat
    BY <1>2, <1>4
  <2> HIDE DEF Rec, Rec2, U, Out, In, W
  <2>9. Cardinality(Rec2) = Cardinality(Rec) + Cardinality(U)
    <3>1. Cardinality(Rec \cup U) = Cardinality(Rec) + Cardinality(U) - Cardinality(Rec \cap U)
      BY <2>3, <2>4, FS_Union
    <3>2. Cardinality(Rec) \in Nat /\ Cardinality(U) \in Nat /\ Cardinality(Rec \cap U) = 0
      BY <2>2, <2>3, <2>4, FS_CardinalityType, FS_EmptySet
    <3> QED BY <2>1, <3>1, <3>2
  <2>10. Cardinality(Rec) \in Nat /\ Cardinality(Out) \in Nat /\ Cardinality(In) \in Nat
    BY <2>4, <2>5, FS_CardinalityType
  <2>11. stock'[p] + Cardinality(Out) + Cardinality(Rec2) = Cardinality(In)
    BY <2>3, <2>6, <2>8, <2>9, <2>10
  <2> QED BY <2>7, <2>11 DEF Rec2
<1>12. \A u \in Usage : usage[u].status = "REVERSING" => usage'[u] = usage[u]
  BY <1>1, <1>7 DEF NoUsage
<1> QED BY <1>8, <1>9, <1>10, <1>11, <1>12

\* A correction puts back what its usage took.
LEMMA ReverseAccounted ==
  ASSUME IInv, NEW r \in Request, Reverse(r)
  PROVE  /\ stock' \in [Product -> Nat] /\ usage' \in [Usage -> UsageRow]
         /\ RecordedOnce' /\ StockAccounted'
         /\ \A u \in Usage : u # req[r].usage => usage'[u] = usage[u]
<1>9. req[r].usage \in Usage /\ usage[req[r].usage].status = "REVERSING"
  BY NoneAssumption DEF Reverse, Ready, IInv, ReqInv, Orderly
<1>10. PICK x \in Usage : x = req[r].usage
  BY <1>9
<1>1. usage[x].status = "REVERSING" /\ Recorded(x)
  BY <1>9, <1>10 DEF Recorded
<1>2. /\ usage' = [usage EXCEPT ![x].status = "REVERSED"] /\ moved' = moved
      /\ stock' = [p \in Product |-> stock[p] + (IF p \in usage[x].items THEN 1 ELSE 0)]
      /\ stock \in [Product -> Nat] /\ usage \in [Usage -> UsageRow]
  BY Rows, <1>10 DEF Reverse, IInv
<1> DEFINE rec == [usage[x] EXCEPT !.status = "REVERSED"]
<1>0. rec \in UsageRow /\ rec.status = "REVERSED" /\ rec.work = usage[x].work /\ rec.items = usage[x].items
  <2>1. usage[x] \in UsageRow
    BY <1>1, <1>2
  <2> QED BY <2>1 DEF UsageRow
<1>31. usage'[x] = rec /\ \A u \in Usage \ {x} : usage'[u] = usage[u]
  BY <1>1, <1>2
<1>4. usage' \in [Usage -> UsageRow]
  <2>1. usage' = [usage EXCEPT ![x] = rec]
    BY <1>2
  <2> HIDE DEF rec
  <2> QED BY <1>0, <1>1, <1>2, <2>1
<1> HIDE DEF rec
<1>3. /\ \A u \in Usage \ {x} : usage'[u] = usage[u] /\ (Recorded(u)' <=> Recorded(u))
      /\ usage'[x].status = "REVERSED" /\ ~Recorded(x)'
      /\ \A u \in Usage : usage'[u].work = usage[u].work /\ usage'[u].items = usage[u].items
  BY <1>0, <1>1, <1>31 DEF Recorded
<1>5. stock' \in [Product -> Nat]
  BY <1>2
<1>6. RecordedOnce'
  BY <1>3 DEF RecordedOnce, IInv
<1>7. StockAccounted'
  <2> SUFFICES ASSUME NEW p \in Product
               PROVE  stock'[p] + Cardinality({j \in Key : p \in moved'[j].out})
                        + Cardinality({u \in Usage : Recorded(u)' /\ p \in usage'[u].items})
                        = Cardinality({j \in Key : p \in moved'[j].in})
    BY DEF StockAccounted
  <2> DEFINE Rec == {u \in Usage : Recorded(u) /\ p \in usage[u].items}
             Out == {j \in Key : p \in moved[j].out}
             In == {j \in Key : p \in moved[j].in}
             Rec2 == {u \in Usage : Recorded(u)' /\ p \in usage'[u].items}
  <2>1. Rec2 = Rec \ {x}
    <3>1. \A u \in Usage : u \in Rec2 <=> u \in Rec /\ u # x
      BY <1>3
    <3> QED BY <3>1
  <2>2. x \in Rec <=> p \in usage[x].items
    BY <1>1
  <2>3. IsFiniteSet(Rec) /\ IsFiniteSet(Out) /\ IsFiniteSet(In)
    BY FS_Subset, WorkAssumption
  <2>4. stock[p] + Cardinality(Out) + Cardinality(Rec) = Cardinality(In)
    BY DEF IInv, StockAccounted
  <2>5. {j \in Key : p \in moved'[j].out} = Out /\ {j \in Key : p \in moved'[j].in} = In
    BY <1>2
  <2>6. stock'[p] = stock[p] + (IF p \in usage[x].items THEN 1 ELSE 0) /\ stock[p] \in Nat
    BY <1>2
  <2> HIDE DEF Rec, Out, In
  <2>7. Cardinality(Rec \ {x}) = IF x \in Rec THEN Cardinality(Rec) - 1 ELSE Cardinality(Rec)
    BY <2>3, FS_RemoveElement
  <2>8. Cardinality(Rec) \in Nat /\ Cardinality(Out) \in Nat /\ Cardinality(In) \in Nat
    BY <2>3, FS_CardinalityType
  <2>9. stock'[p] + Cardinality(Out) + Cardinality(Rec \ {x}) = Cardinality(In)
    BY <2>2, <2>4, <2>6, <2>7, <2>8
  <2>10. {u \in Usage : Recorded(u)' /\ p \in usage'[u].items} = Rec \ {x}
    BY <2>1
  <2> QED BY <2>5, <2>9, <2>10
<1> QED BY <1>3, <1>4, <1>5, <1>6, <1>7, <1>10

(***************************************************************************)
(* The steps.                                                              *)
(***************************************************************************)
\* A request goes on and nothing else changes.
LEMMA GoesOn ==
  ASSUME IInv, NEW r \in Request, NEW x \in ReqRow, req' = [req EXCEPT ![r] = x], Orderly(x),
         \A o \in Request \ {r} : x.holds \cap req[o].holds = {},
         x.usage = req[r].usage, UNCHANGED <<stock, moved, usage>>
  PROVE  IInv'
<1>1. \A o \in Request : req[o].usage # None => usage'[req[o].usage].status = "REVERSING"
  BY DEF IInv, ReqInv
<1>2. \A o \in Request \ {r} : x.usage # None => req[o].usage # x.usage
  BY DEF IInv, ReqInv
<1>3. x.usage # None => usage'[x.usage].status = "REVERSING"
  BY <1>1
<1>4. ReqInv' /\ req' \in [Request -> ReqRow]
  BY <1>1, <1>2, <1>3, RequestGoes
<1> QED BY <1>4, OnlyRequest

LEMMA LockKeeps ==
  ASSUME IInv, NEW r \in Request, NEW p \in Product, Lock(r, p)
  PROVE  IInv'
<1> DEFINE x == [req[r] EXCEPT !.holds = @ \cup {p}]
<1>1. req[r] \in ReqRow /\ Orderly(req[r])
  BY Rows DEF IInv, ReqInv
<1>2. /\ x \in ReqRow /\ x.holds = req[r].holds \cup {p} /\ x.need = req[r].need /\ x.step = req[r].step
      /\ x.op = req[r].op /\ x.usage = req[r].usage /\ x.plan = req[r].plan /\ x.key = req[r].key
  BY <1>1 DEF ReqRow
<1>3. req' = [req EXCEPT ![r] = x]
  BY DEF Lock
<1>4. /\ req[r].step = "lock" /\ p \in req[r].need /\ \A q \in req[r].need \ req[r].holds : p <= q
      /\ \A o \in Request : p \notin req[o].holds
  BY DEF Lock, Wants, Free
<1>5. \A q \in req[r].need : q \in Nat
  BY <1>1, ProductAssumption DEF ReqRow
<1> HIDE DEF x
<1>6. Orderly(x)
  <2>1. \A h \in x.holds, q \in x.need \ x.holds : h < q
    BY <1>1, <1>2, <1>4, <1>5 DEF Orderly
  <2> QED BY <1>1, <1>2, <1>4, <2>1 DEF Orderly
<1>7. \A o \in Request \ {r} : x.holds \cap req[o].holds = {}
  BY <1>2, <1>4 DEF IInv, ReqInv
<1>8. UNCHANGED <<stock, moved, usage>>
  BY DEF Lock
<1> QED BY <1>2, <1>3, <1>6, <1>7, <1>8, GoesOn

LEMMA BeginKeeps ==
  ASSUME IInv, NEW r \in Request, NEW x \in ReqRow, Begin(r, x), Orderly(x), x.holds = {}, x.usage = None,
         UNCHANGED <<stock, moved, usage>>
  PROVE  IInv'
<1>1. req[r].usage = None
  BY DEF Begin, Idle
<1> QED BY <1>1, GoesOn DEF Begin

LEMMA BeginTransferKeeps ==
  ASSUME IInv, NEW r \in Request, NEW k \in Key, NEW p \in Product, NEW q \in Product, BeginTransfer(r, k, p, q)
  PROVE  IInv'
<1> DEFINE x == [Idle EXCEPT !.op = "transfer", !.step = "lock", !.key = k, !.need = {p, q},
                             !.move = [out |-> {p}, in |-> {q}]]
<1>1. x \in ReqRow /\ Orderly(x) /\ x.holds = {} /\ x.usage = None
  BY NoneAssumption DEF Idle, ReqRow, Orderly, NoPlan, NoMove
<1>2. Begin(r, x) /\ UNCHANGED <<stock, moved, usage>>
  BY DEF BeginTransfer
<1> HIDE DEF x
<1> QED BY <1>1, <1>2, BeginKeeps

LEMMA BeginRecordKeeps ==
  ASSUME IInv, NEW r \in Request, NEW plan \in [Work -> SUBSET Product], BeginRecord(r, plan)
  PROVE  IInv'
<1> DEFINE x == [Idle EXCEPT !.op = "record", !.step = "find", !.plan = plan, !.find = {w \in Work : plan[w] # {}}]
<1>1. x \in ReqRow /\ Orderly(x) /\ x.holds = {} /\ x.usage = None
  BY NoneAssumption DEF Idle, ReqRow, Orderly, NoPlan, NoMove
<1>2. Begin(r, x) /\ UNCHANGED <<stock, moved, usage>>
  BY DEF BeginRecord
<1> HIDE DEF x
<1> QED BY <1>1, <1>2, BeginKeeps

LEMMA LookUpKeeps ==
  ASSUME IInv, NEW r \in Request, NEW w \in Work, LookUp(r, w)
  PROVE  IInv'
<1>0. UNCHANGED <<stock, moved, usage>> /\ req[r].step = "find"
  BY DEF LookUp
<1>1. CASE End(r)
  BY <1>0, <1>1, JustEnds
<1>2. ASSUME NEW i \in SUBSET Product,
             req' = [req EXCEPT ![r].find = @ \ {w}, ![r].plan[w] = i]
      PROVE  IInv'
  <2> DEFINE x == [req[r] EXCEPT !.find = @ \ {w}, !.plan[w] = i]
  <2>1. req[r] \in ReqRow /\ Orderly(req[r])
    BY Rows DEF IInv, ReqInv
  <2>2. /\ x \in ReqRow /\ x.holds = req[r].holds /\ x.need = req[r].need /\ x.step = req[r].step
        /\ x.op = req[r].op /\ x.usage = req[r].usage /\ x.key = req[r].key
    BY <2>1 DEF ReqRow
  <2>3. req' = [req EXCEPT ![r] = x]
    BY <1>2
  <2> HIDE DEF x
  <2>4. Orderly(x)
    BY <1>0, <2>1, <2>2 DEF Orderly
  <2>5. \A o \in Request \ {r} : x.holds \cap req[o].holds = {}
    BY <2>2 DEF IInv, ReqInv
  <2> QED BY <1>0, <2>2, <2>3, <2>4, <2>5, GoesOn
<1> DEFINE found == {u \in Usage : Recorded(u) /\ usage[u].work = w}
<1>3. CASE req' = [req EXCEPT ![r].find = @ \ {w}, ![r].plan[w] = IF found = {} THEN @ ELSE {}]
  <2>1. req[r].plan[w] \in SUBSET Product
    BY Rows DEF IInv, ReqRow
  <2>2. CASE found = {}
    <3>1. req' = [req EXCEPT ![r].find = @ \ {w}, ![r].plan[w] = req[r].plan[w]]
      BY <1>3, <2>2
    <3> QED BY <1>2, <2>1, <3>1
  <2>3. CASE found # {}
    <3>1. req' = [req EXCEPT ![r].find = @ \ {w}, ![r].plan[w] = {}]
      BY <1>3, <2>3
    <3>2. {} \in SUBSET Product
      OBVIOUS
    <3> QED BY <1>2, <3>1, <3>2
  <2> QED BY <2>2, <2>3
<1> QED BY <1>1, <1>3 DEF LookUp

LEMMA FoundKeeps ==
  ASSUME IInv, NEW r \in Request, Found(r)
  PROVE  IInv'
<1>0. UNCHANGED <<stock, moved, usage>> /\ req[r].step = "find"
  BY DEF Found
<1>1. CASE End(r)
  BY <1>0, <1>1, JustEnds
<1>2. CASE req' = [req EXCEPT ![r].step = "lock", ![r].need = UNION {req[r].plan[w] : w \in Work}]
  <2> DEFINE x == [req[r] EXCEPT !.step = "lock", !.need = UNION {req[r].plan[w] : w \in Work}]
  <2>1. req[r] \in ReqRow /\ Orderly(req[r])
    BY Rows DEF IInv, ReqInv
  <2>2. UNION {req[r].plan[w] : w \in Work} \in SUBSET Product
    BY <2>1 DEF ReqRow
  <2>3. /\ x \in ReqRow /\ x.holds = req[r].holds /\ x.need = UNION {req[r].plan[w] : w \in Work} /\ x.step = "lock"
        /\ x.op = req[r].op /\ x.usage = req[r].usage /\ x.plan = req[r].plan /\ x.key = req[r].key
    BY <2>1, <2>2 DEF ReqRow
  <2>4. req' = [req EXCEPT ![r] = x]
    BY <1>2
  <2> HIDE DEF x
  <2>5. x.holds = {}
    BY <1>0, <2>1, <2>3 DEF Orderly
  <2>6. Orderly(x)
    BY <2>1, <2>3, <2>5 DEF Orderly
  <2> QED BY <1>0, <2>3, <2>4, <2>5, <2>6, GoesOn
<1> QED BY <1>1, <1>2 DEF Found

LEMMA MoveKeeps ==
  ASSUME IInv, NEW k \in Key, NEW m \in [out : SUBSET Product, in : SUBSET Product], Move(k, m)
  PROVE  IInv'
<1>1. /\ stock' \in [Product -> Nat] /\ moved' \in [Key -> [out : SUBSET Product, in : SUBSET Product]]
      /\ RecordedOnce' /\ StockAccounted'
  BY MoveAccounted DEF Move
<1>2. usage' = usage /\ req' = req
  BY DEF Move
<1>3. ReqInv'
  BY <1>2 DEF IInv, ReqInv, Orderly
<1> QED BY <1>1, <1>2, <1>3, Together, Rows DEF IInv

LEMMA TransferKeeps ==
  ASSUME IInv, NEW r \in Request, Transfer(r)
  PROVE  IInv'
<1>1. req[r].key \in Key /\ req[r].move \in [out : SUBSET Product, in : SUBSET Product]
  BY Rows DEF IInv, ReqInv, Orderly, Transfer, Ready, ReqRow
<1>2. /\ stock' \in [Product -> Nat] /\ moved' \in [Key -> [out : SUBSET Product, in : SUBSET Product]]
      /\ RecordedOnce' /\ StockAccounted'
  BY <1>1, MoveAccounted DEF Transfer
<1>3. ReqInv' /\ req' \in [Request -> ReqRow]
  BY RequestEnds DEF Transfer, IInv, ReqInv
<1> QED BY <1>2, <1>3, Together, Rows DEF IInv, Transfer

LEMMA RecordKeeps ==
  ASSUME IInv, NEW r \in Request, Record(r)
  PROVE  IInv'
<1>1. /\ stock' \in [Product -> Nat] /\ usage' \in [Usage -> UsageRow] /\ RecordedOnce' /\ StockAccounted'
      /\ \A u \in Usage : usage[u].status = "REVERSING" => usage'[u] = usage[u]
  BY WriteAccounted DEF Record
<1>2. End(r) /\ moved' = moved
  BY DEF Record, Write
<1>3. \A o \in Request : req[o].usage # None => req[o].usage \in Usage /\ usage[req[o].usage].status = "REVERSING"
  BY Rows DEF IInv, ReqInv, ReqRow
<1>4. ReqInv' /\ req' \in [Request -> ReqRow]
  BY <1>1, <1>2, <1>3, RequestEnds
<1> QED BY <1>1, <1>2, <1>4, Together, Rows DEF IInv

LEMMA ReverseKeeps ==
  ASSUME IInv, NEW r \in Request, Reverse(r)
  PROVE  IInv'
<1>1. /\ stock' \in [Product -> Nat] /\ usage' \in [Usage -> UsageRow] /\ RecordedOnce' /\ StockAccounted'
      /\ \A u \in Usage : u # req[r].usage => usage'[u] = usage[u]
  BY ReverseAccounted
<1>2. End(r) /\ moved' = moved
  BY DEF Reverse
<1>3. \A o \in Request \ {r} : req[o].usage # None =>
        req[o].usage \in Usage /\ usage[req[o].usage].status = "REVERSING" /\ req[o].usage # req[r].usage
  BY Rows DEF IInv, ReqInv, ReqRow
<1>4. ReqInv' /\ req' \in [Request -> ReqRow]
  BY <1>1, <1>2, <1>3, RequestEnds
<1> QED BY <1>1, <1>2, <1>4, Together, Rows DEF IInv

LEMMA ClaimKeeps ==
  ASSUME IInv, NEW r \in Request, NEW u \in Usage, Claim(r, u)
  PROVE  IInv'
<1> DEFINE x == [Idle EXCEPT !.op = "reverse", !.step = "lock", !.usage = u, !.need = usage[u].items]
           rec == [usage[u] EXCEPT !.status = "REVERSING"]
<1>1. usage \in [Usage -> UsageRow] /\ usage[u] \in UsageRow /\ usage[u].status = "RECORDED"
  BY Rows DEF IInv, Claim
<1>2. x \in ReqRow /\ Orderly(x) /\ x.holds = {} /\ x.usage = u
  BY <1>1, NoneAssumption DEF Idle, ReqRow, UsageRow, Orderly, NoPlan, NoMove
<1>3. rec \in UsageRow /\ rec.status = "REVERSING" /\ rec.work = usage[u].work /\ rec.items = usage[u].items
  BY <1>1 DEF UsageRow
<1>4. usage' = [usage EXCEPT ![u] = rec] /\ req' = [req EXCEPT ![r] = x] /\ UNCHANGED <<stock, moved>>
  BY DEF Claim, Begin
<1> HIDE DEF x, rec
<1>5. usage'[u] = rec /\ \A v \in Usage \ {u} : usage'[v] = usage[v]
  BY <1>1, <1>4
<1>6. SameUsages
  BY <1>1, <1>3, <1>5 DEF SameUsages, Recorded
<1>7. \A o \in Request : req[o].usage # None =>
        req[o].usage \in Usage /\ usage[req[o].usage].status = "REVERSING" /\ req[o].usage # u
  BY <1>1, Rows DEF IInv, ReqInv, ReqRow
<1>8. ReqInv' /\ req' \in [Request -> ReqRow]
  <2>1. \A o \in Request \ {r} : x.holds \cap req[o].holds = {} /\ (x.usage # None => req[o].usage # x.usage)
    BY <1>2, <1>7, NoneAssumption
  <2>2. x.usage # None => usage'[x.usage].status = "REVERSING"
    BY <1>2, <1>3, <1>5
  <2>3. \A o \in Request \ {r} : req[o].usage # None => usage'[req[o].usage].status = "REVERSING"
    BY <1>5, <1>7
  <2>4. x \in ReqRow /\ Orderly(x) /\ req' = [req EXCEPT ![r] = x]
    BY <1>2, <1>4
  <2> QED BY <2>1, <2>2, <2>3, <2>4, RequestGoes
<1>9. usage' \in [Usage -> UsageRow]
  BY <1>1, <1>3, <1>4
<1>10. RecordedOnce' /\ StockAccounted'
  BY <1>4, <1>6, Nothing
<1> QED BY <1>4, <1>8, <1>9, <1>10, Together, Rows DEF IInv

LEMMA AbortKeeps ==
  ASSUME IInv, NEW r \in Request, Abort(r)
  PROVE  IInv'
<1>1. /\ usage' = [u \in Usage |-> IF req[r].usage = u THEN [usage[u] EXCEPT !.status = "RECORDED"] ELSE usage[u]]
      /\ End(r) /\ UNCHANGED <<stock, moved>> /\ usage \in [Usage -> UsageRow]
  BY Rows DEF Abort, IInv
<1>2. \A u \in Usage : /\ usage'[u] \in UsageRow /\ usage'[u].work = usage[u].work /\ usage'[u].items = usage[u].items
                       /\ usage'[u].status = IF req[r].usage = u THEN "RECORDED" ELSE usage[u].status
  <2> SUFFICES ASSUME NEW u \in Usage
               PROVE  /\ usage'[u] \in UsageRow /\ usage'[u].work = usage[u].work /\ usage'[u].items = usage[u].items
                      /\ usage'[u].status = IF req[r].usage = u THEN "RECORDED" ELSE usage[u].status
    OBVIOUS
  <2> DEFINE rec == [usage[u] EXCEPT !.status = "RECORDED"]
  <2>1. usage[u] \in UsageRow
    BY <1>1
  <2>2. rec \in UsageRow /\ rec.status = "RECORDED" /\ rec.work = usage[u].work /\ rec.items = usage[u].items
    BY <2>1 DEF UsageRow
  <2>3. usage'[u] = IF req[r].usage = u THEN rec ELSE usage[u]
    BY <1>1
  <2> HIDE DEF rec
  <2> QED BY <2>1, <2>2, <2>3
<1>3. \A u \in Usage : req[r].usage = u => usage[u].status = "REVERSING"
  BY NoneAssumption DEF IInv, ReqInv
<1>4. SameUsages
  BY <1>2, <1>3 DEF SameUsages, Recorded
<1>5. \A o \in Request \ {r} : req[o].usage # None =>
        req[o].usage \in Usage /\ usage[req[o].usage].status = "REVERSING" /\ req[o].usage # req[r].usage
  BY Rows DEF IInv, ReqInv, ReqRow
<1>6. ReqInv' /\ req' \in [Request -> ReqRow]
  BY <1>1, <1>2, <1>5, RequestEnds
<1>7. usage' \in [Usage -> UsageRow]
  BY <1>1, <1>2
<1>8. RecordedOnce' /\ StockAccounted'
  BY <1>1, <1>4, Nothing
<1> QED BY <1>1, <1>6, <1>7, <1>8, Together, Rows DEF IInv

(***************************************************************************)
(* The theorems.                                                           *)
(***************************************************************************)
LEMMA InitHolds == Init => IInv
<1> SUFFICES ASSUME Init PROVE IInv
  OBVIOUS
<1>1. TypeOK
  BY IdleRow, NoneAssumption DEF Init, TypeOK, ReqRow, NoMove, NoUsage
<1>2. \A r \in Request : req[r] = Idle
  BY DEF Init
<1>3. ReqInv
  BY <1>2, IdleRow DEF ReqInv, Idle
<1>4. \A u \in Usage : ~Recorded(u)
  BY DEF Init, Recorded, NoUsage
<1>5. RecordedOnce
  BY <1>4 DEF RecordedOnce
<1>6. StockAccounted
  <2> SUFFICES ASSUME NEW p \in Product
               PROVE  stock[p] + Cardinality({k \in Key : p \in moved[k].out})
                        + Cardinality({u \in Usage : Recorded(u) /\ p \in usage[u].items})
                        = Cardinality({k \in Key : p \in moved[k].in})
    BY DEF StockAccounted
  <2>1. {k \in Key : p \in moved[k].out} = {} /\ {k \in Key : p \in moved[k].in} = {}
    BY DEF Init, NoMove
  <2>2. {u \in Usage : Recorded(u) /\ p \in usage[u].items} = {}
    BY <1>4
  <2>3. stock[p] = 0 /\ Cardinality({}) = 0
    BY FS_EmptySet DEF Init
  <2>4. Cardinality({k \in Key : p \in moved[k].out}) = 0 /\ Cardinality({k \in Key : p \in moved[k].in}) = 0
    BY <2>1, <2>3
  <2>5. Cardinality({u \in Usage : Recorded(u) /\ p \in usage[u].items}) = 0
    BY <2>2, <2>3
  <2>6. \A a, b, c, d : a = 0 /\ b = 0 /\ c = 0 /\ d = 0 => a + b + c = d
    OBVIOUS
  <2> QED BY <2>3, <2>4, <2>5, <2>6
<1> QED BY <1>1, <1>3, <1>5, <1>6 DEF IInv

LEMMA NextKeeps == IInv /\ [Next]_vars => IInv'
<1> SUFFICES ASSUME IInv, [Next]_vars PROVE IInv'
  OBVIOUS
<1>1. ASSUME NEW k \in Key, NEW m \in Single, Move(k, m) PROVE IInv'
  <2>1. m \in [out : SUBSET Product, in : SUBSET Product]
    BY DEF Single
  <2> QED BY <1>1, <2>1, MoveKeeps
<1>2. ASSUME NEW r \in Request, RecordShort(r) \/ RecordTwice(r) \/ TransferShort(r) \/ TransferDone(r) PROVE IInv'
  <2>1. End(r) /\ UNCHANGED <<stock, moved, usage>>
    BY <1>2 DEF RecordShort, RecordTwice, TransferShort, TransferDone
  <2> QED BY <2>1, JustEnds
<1>3. CASE UNCHANGED vars
  BY <1>3 DEF vars, IInv, TypeOK, ReqInv, Orderly, RecordedOnce, StockAccounted, Recorded
<1>4. CASE Next
  BY <1>1, <1>2, <1>4, BeginTransferKeeps, BeginRecordKeeps, ClaimKeeps, LookUpKeeps, LockKeeps, FoundKeeps,
     RecordKeeps, TransferKeeps, ReverseKeeps, AbortKeeps DEF Next
<1> QED BY <1>3, <1>4

LEMMA Invariant == Spec => []IInv
<1>1. Init => IInv
  BY InitHolds
<1>2. IInv /\ [Next]_vars => IInv'
  BY NextKeeps
<1> QED BY <1>1, <1>2, PTL DEF Spec

\* Stock is never negative, and rows and requests hold what they may, whatever is in flight together.
THEOREM Typing == Spec => []TypeOK
<1>1. IInv => TypeOK
  BY DEF IInv
<1> QED BY <1>1, Invariant, PTL

\* A service of a visit is recorded once, however many devices and completions record it together.
THEOREM RecordedOnlyOnce == Spec => []RecordedOnce
<1>1. IInv => RecordedOnce
  BY DEF IInv
<1> QED BY <1>1, Invariant, PTL

\* The stock of every product is what its movements and its recorded usages make of it.
THEOREM StockIsAccounted == Spec => []StockAccounted
<1>1. IInv => StockAccounted
  BY DEF IInv
<1> QED BY <1>1, Invariant, PTL

(***************************************************************************)
(* Locks: a waiting request waits for the least product it wants, and the  *)
(* one that holds it wants only greater ones.                              *)
(***************************************************************************)
Above(p) == {q \in Product : p < q}
WaitsFor(r, o, p) == p \in req[o].holds /\ p \in Wants(r) /\ \A q \in Wants(r) : p <= q

LEMMA Greater ==
  ASSUME IInv, NEW r \in Request, NEW o \in Request, NEW s \in Request, NEW p, NEW q,
         WaitsFor(r, o, p), WaitsFor(o, s, q)
  PROVE  p \in Product /\ q \in Product /\ Above(q) \subseteq Above(p) /\ Above(q) # Above(p)
<1>1. p \in Product /\ q \in Product
  BY Rows DEF IInv, ReqRow, WaitsFor
<1>2. p < q
  BY DEF IInv, ReqInv, Orderly, WaitsFor, Wants
<1>3. p \in Nat /\ q \in Nat /\ \A x \in Product : x \in Nat
  BY <1>1, ProductAssumption
<1>4. q \in Above(p) /\ q \notin Above(q)
  BY <1>1, <1>2, <1>3 DEF Above
<1>5. Above(q) \subseteq Above(p)
  BY <1>2, <1>3 DEF Above
<1> QED BY <1>1, <1>4, <1>5

LEMMA NoCycleHolds == IInv => NoLockCycle
<1> SUFFICES ASSUME IInv, NEW S \in (SUBSET Request) \ {{}}, \A r \in S : \E o \in S : AwaitsProduct(r, o)
             PROVE  FALSE
  BY DEF NoLockCycle
<1>1. \A r \in S : \E o \in S : \E p \in Product : WaitsFor(r, o, p)
  BY Rows DEF IInv, ReqRow, AwaitsProduct, WaitsFor
<1> DEFINE W == {p \in Product : \E r, o \in S : WaitsFor(r, o, p)}
           T == {Above(p) : p \in W}
<1>2. \A r, o \in S : \A p : WaitsFor(r, o, p) => p \in W
  BY Rows DEF IInv, ReqRow, WaitsFor
<1>3. T # {} /\ T \subseteq SUBSET Product
  <2>1. PICK r \in S : TRUE
    OBVIOUS
  <2>2. W # {}
    BY <1>1, <1>2, <2>1
  <2>3. T # {}
    BY <2>2
  <2> QED BY <2>3 DEF Above
<1>4. IsWellFoundedOn(StrictSubsetOrdering(Product), SUBSET Product)
  BY FS_StrictSubsetOrderingWellFounded, FS_FiniteSubsetsOfFinite, ProductAssumption
<1>5. \E x \in T : \A y \in T : <<y, x>> \notin StrictSubsetOrdering(Product)
  <2> HIDE DEF T
  <2> QED BY <1>3, <1>4, WFMin
<1>6. PICK p \in W : \A q \in W : <<Above(q), Above(p)>> \notin StrictSubsetOrdering(Product)
  BY <1>5
<1>7. PICK r \in S, o \in S : WaitsFor(r, o, p)
  BY <1>6
<1>8. PICK s \in S, q \in Product : WaitsFor(o, s, q)
  BY <1>1, <1>7
<1>9. q \in W
  BY <1>2, <1>7, <1>8
<1>10. Above(q) \subseteq Above(p) /\ Above(q) # Above(p)
  BY <1>7, <1>8, Greater
<1>11. Above(q) \in SUBSET Product /\ Above(p) \in SUBSET Product
  BY DEF Above
<1>12. <<Above(q), Above(p)>> \in StrictSubsetOrdering(Product)
  BY <1>10, <1>11 DEF StrictSubsetOrdering
<1> QED BY <1>6, <1>9, <1>12

\* Of any requests, one does not wait for the product of another of them: they lock in the order of ids.
THEOREM NoCycle == Spec => []NoLockCycle
BY Invariant, NoCycleHolds, PTL

(***************************************************************************)
(* Invoices.                                                               *)
(***************************************************************************)
BillAssumptions == Bills!TotalAssumption /\ Bills!RowsAssumption /\ Bills!NamesAssumption

BillCall == [step : {"idle", "running", "drafted", "locked", "lost", "done", "failed"}, key : InvoiceKey \cup {Null},
             body : Bills!Body \cup {Null}, result : Invoice \cup {Null}]

\* A request that is at work has come with a key and a body, and what is done has a result.
Bears(c) ==
  /\ c.step # "idle" => c.key \in InvoiceKey /\ c.body \in Bills!Body
  /\ c.step = "done" => c.result \in Invoice

\* The locks of rows: one transaction at a time.  What it has read still holds when it writes: the
\* number it has drawn is the next, and what is on the invoice allows what it brings.
RowLockedOnce ==
  \A a, o \in Call :
    call[a].step = "locked" /\ call[o].step = "locked" /\ Bills!Locked(call[a].body) = Bills!Locked(call[o].body) => a = o
Stands(body, number) ==
  /\ body.op = "issue" => number = next
  /\ body.op # "issue" => invoice[body.invoice].status = "ISSUED" /\ Bills!Allowed(body)
LockedStands == \A a \in Call : call[a].step = "locked" => Stands(call[a].body, drawn[a])

OneInvoice == \A v \in Visit : \A i, j \in Bills!IssuedFor(v) : i = j

BillInv ==
  /\ Bills!TypeOK /\ \A a \in Call : Bears(call[a])
  /\ RowLockedOnce /\ LockedStands
  /\ OneInvoice /\ Bills!NumbersConsecutive /\ Bills!KeptWithinTotal

\* What a body asks for.
LEMMA BodyKinds ==
  ASSUME NEW body \in Bills!Body
  PROVE  \/ body.op = "issue" /\ body.visit \in Visit
         \/ body.op \in {"payment", "refund"} /\ body.invoice \in Invoice /\ body.amount \in 1 .. Total
         \/ body.op = "void" /\ body.invoice \in Invoice
BY DEF Bills!Body

\* Counting is the same in the instance.
LEMMA BillsCount == ASSUME NEW S PROVE Bills!Cardinality(S) = Cardinality(S) /\ Bills!IsFiniteSet(S) = IsFiniteSet(S)
BY DEF Bills!Cardinality, Cardinality, Bills!IsFiniteSet, IsFiniteSet

\* The units on an invoice can be counted.
LEMMA UnitsFinite ==
  ASSUME BillAssumptions, NEW kind, NEW i
  PROVE  /\ IsFiniteSet(Bills!Units(kind, i)) /\ Cardinality(Bills!Units(kind, i)) \in Nat
         /\ Bills!Units(kind, i) \subseteq InvoiceKey \X (1 .. Total)
<1>1. IsFiniteSet(InvoiceKey) /\ IsFiniteSet(1 .. Total)
  BY BillsCount, FS_Interval DEF BillAssumptions, Bills!RowsAssumption, Bills!TotalAssumption
<1>2. IsFiniteSet(InvoiceKey \X (1 .. Total)) /\ Bills!Units(kind, i) \subseteq InvoiceKey \X (1 .. Total)
  BY <1>1, FS_Product DEF Bills!Units
<1> QED BY <1>2, FS_Subset, FS_CardinalityType

\* A step of one request, after which it holds no lock: it has moved on, or ended.
LEMMA OneMoves ==
  ASSUME Bills!TypeOK, NEW a \in Call, NEW c \in BillCall, call' = [call EXCEPT ![a] = c]
  PROVE  /\ call' \in [Call -> BillCall] /\ call'[a] = c
         /\ \A o \in Call \ {a} : call'[o] = call[o]
BY DEF Bills!TypeOK, BillCall

\* The request in its next step, and its result.
LEMMA NextCall ==
  ASSUME BillInv, NEW a \in Call,
         NEW step \in {"running", "drafted", "locked", "lost", "failed"}, call[a].step # "idle",
         Bills!Goes(a, step)
  PROVE  \E c \in BillCall :
           /\ call' = [call EXCEPT ![a] = c] /\ Bears(c)
           /\ c.step = step /\ c.key = call[a].key /\ c.body = call[a].body
<1>1. call[a] \in BillCall /\ Bears(call[a])
  BY DEF BillInv, Bills!TypeOK, BillCall
<1>2. PICK c : c = [call[a] EXCEPT !.step = step]
  OBVIOUS
<1>3. c \in BillCall /\ c.step = step /\ c.key = call[a].key /\ c.body = call[a].body
  BY <1>1, <1>2 DEF BillCall
<1>4. call' = [call EXCEPT ![a] = c]
  BY <1>2 DEF Bills!Goes
<1> QED BY <1>1, <1>3, <1>4 DEF Bears

LEMMA DoneCall ==
  ASSUME BillInv, NEW a \in Call, NEW i \in Invoice, call[a].step # "idle", Bills!Done(a, i)
  PROVE  \E c \in BillCall :
           /\ call' = [call EXCEPT ![a] = c] /\ Bears(c)
           /\ c.step = "done"
<1>1. call[a] \in BillCall /\ Bears(call[a])
  BY DEF BillInv, Bills!TypeOK, BillCall
<1>2. PICK c : c = [call[a] EXCEPT !.step = "done", !.result = i]
  OBVIOUS
<1>3. c \in BillCall /\ c.step = "done" /\ c.key = call[a].key /\ c.body = call[a].body /\ c.result = i
  BY <1>1, <1>2 DEF BillCall
<1>4. call' = [call EXCEPT ![a] = c]
  BY <1>2 DEF Bills!Done
<1> QED BY <1>1, <1>3, <1>4 DEF Bears

\* A request that takes no lock and writes nothing to the ledger disturbs nobody.
Quietly(a) ==
  /\ \E c \in BillCall : Bears(c) /\ c.step # "locked" /\ call' = [call EXCEPT ![a] = c]
  /\ drawn' = [drawn EXCEPT ![a] = 0]
  /\ UNCHANGED Bills!ledger

LEMMA QuietKeeps ==
  ASSUME BillAssumptions, BillInv, NEW a \in Call, Quietly(a),
         row' \in [InvoiceKey -> [body : Bills!Body \cup {Null}, snapshot : Invoice \cup {Null}]],
         answers' \in [InvoiceKey -> SUBSET Invoice], faults' \in Nat
  PROVE  BillInv'
<1>1. PICK c \in BillCall : Bears(c) /\ c.step # "locked" /\ call' = [call EXCEPT ![a] = c]
  BY DEF Quietly
<1>2. /\ call' \in [Call -> BillCall] /\ call'[a] = c
      /\ \A o \in Call \ {a} : call'[o] = call[o] /\ drawn'[o] = drawn[o]
      /\ drawn' \in [Call -> Nat] /\ drawn'[a] = 0
  BY <1>1, OneMoves DEF BillInv, Bills!TypeOK, Quietly
<1>3. UNCHANGED <<next, invoice, payment>>
  BY DEF Quietly, Bills!ledger
<1>4. Bills!TypeOK'
  BY <1>2, <1>3 DEF BillInv, Bills!TypeOK, BillCall
<1>5. \A o \in Call : Bears(call[o])'
  BY <1>1, <1>2 DEF BillInv, Bears
<1>6. \A o \in Call : call'[o].step = "locked" => o # a /\ call'[o] = call[o] /\ drawn'[o] = drawn[o]
  BY <1>1, <1>2
<1>7. RowLockedOnce'
  BY <1>6 DEF BillInv, RowLockedOnce
<1>8. \A body, n : Stands(body, n)' = Stands(body, n)
  BY <1>3 DEF Stands, Bills!Allowed, Bills!Paid, Bills!Units
<1>9. LockedStands'
  BY <1>6, <1>8 DEF BillInv, LockedStands
<1>10. OneInvoice' /\ Bills!NumbersConsecutive' /\ Bills!KeptWithinTotal'
  BY <1>3 DEF BillInv, OneInvoice, Bills!IssuedFor, Bills!NumbersConsecutive, Bills!Issued,
              Bills!KeptWithinTotal, Bills!Paid, Bills!Units
<1> QED BY <1>4, <1>5, <1>7, <1>9, <1>10 DEF BillInv

\* The interceptor's steps, and those of a handler that take no lock.
LEMMA ProtocolQuiet ==
  ASSUME BillAssumptions, BillInv, NEW a \in Call, Bills!Settles(a)
  PROVE  BillInv'
<1>1. call[a] \in BillCall /\ Bears(call[a]) /\ Bills!Idle \in BillCall /\ Bears(Bills!Idle) /\ Bills!Idle.step = "idle"
  BY DEF BillInv, Bills!TypeOK, BillCall, Bears, Bills!Idle
<1>2. /\ row \in [InvoiceKey -> [body : Bills!Body \cup {Null}, snapshot : Invoice \cup {Null}]]
      /\ answers \in [InvoiceKey -> SUBSET Invoice] /\ faults \in Nat
  BY DEF BillInv, Bills!TypeOK
<1>3. Bills!NoRow \in [body : Bills!Body \cup {Null}, snapshot : Invoice \cup {Null}]
  BY DEF Bills!NoRow
<1>4. drawn' = [drawn EXCEPT ![a] = 0] /\ UNCHANGED Bills!ledger /\ Bills!ProtocolStep(a)
  BY DEF Bills!Settles
<1>5. CASE Bills!Record(a)
  <2>1. call[a].key \in InvoiceKey /\ call[a].result \in Invoice /\ call' = [call EXCEPT ![a] = Bills!Idle]
    BY <1>1, <1>5 DEF Bills!Record, Bears
  <2>2. Quietly(a)
    BY <1>1, <1>4, <2>1 DEF Quietly
  <2>3. row' \in [InvoiceKey -> [body : Bills!Body \cup {Null}, snapshot : Invoice \cup {Null}]]
    BY <1>2, <1>5, <2>1 DEF Bills!Record
  <2>4. answers' \in [InvoiceKey -> SUBSET Invoice] /\ faults' \in Nat
    BY <1>2, <1>5, <2>1 DEF Bills!Record, Bills!Answer
  <2> QED BY <2>2, <2>3, <2>4, QuietKeeps
<1>6. CASE Bills!NotRecorded(a)
  <2>1. call[a].step # "idle" /\ Bills!Goes(a, "failed")
    BY <1>6 DEF Bills!NotRecorded
  <2>2. Quietly(a)
    BY <1>4, <2>1, NextCall DEF Quietly
  <2>3. UNCHANGED <<row, answers>> /\ faults' \in Nat
    BY <1>2, <1>6 DEF Bills!NotRecorded, Bills!Fault
  <2> QED BY <1>2, <2>2, <2>3, QuietKeeps
<1>7. CASE Bills!Release(a) \/ Bills!Dies(a)
  <2>1. Quietly(a)
    BY <1>1, <1>4, <1>7 DEF Quietly, Bills!Release, Bills!Dies
  <2>2. row' \in [InvoiceKey -> [body : Bills!Body \cup {Null}, snapshot : Invoice \cup {Null}]]
    BY <1>2, <1>3, <1>7 DEF Bills!Release, Bills!Dies
  <2>3. UNCHANGED answers /\ faults' \in Nat
    BY <1>2, <1>7 DEF Bills!Release, Bills!Dies, Bills!Fault
  <2> QED BY <1>2, <2>1, <2>2, <2>3, QuietKeeps
<1> QED BY <1>4, <1>5, <1>6, <1>7 DEF Bills!ProtocolStep

LEMMA HandlerQuiet ==
  ASSUME BillAssumptions, BillInv, NEW a \in Call,
         \/ Bills!AlreadyIssued(a) \/ Bills!Draft(a) \/ Bills!IssueLoses(a)
         \/ Bills!PayReplayed(a) \/ Bills!VoidAgain(a) \/ Bills!Fails(a)
  PROVE  BillInv'
<1>1. call[a] \in BillCall /\ Bears(call[a])
  BY DEF BillInv, Bills!TypeOK, BillCall
<1>2. /\ row \in [InvoiceKey -> [body : Bills!Body \cup {Null}, snapshot : Invoice \cup {Null}]]
      /\ answers \in [InvoiceKey -> SUBSET Invoice] /\ faults \in Nat
  BY DEF BillInv, Bills!TypeOK
<1>3. UNCHANGED <<row, answers, faults>>
  BY DEF Bills!AlreadyIssued, Bills!Draft, Bills!IssueLoses, Bills!PayReplayed, Bills!VoidAgain, Bills!Fails,
         Bills!Done, Bills!Moves, Bills!Protocol
<1>4. CASE Bills!AlreadyIssued(a)
  <2>1. PICK i \in Invoice : Bills!Done(a, i)
    BY <1>4 DEF Bills!AlreadyIssued, Bills!IssuedFor
  <2>2. call[a].step # "idle" /\ UNCHANGED Bills!ledger
    BY <1>4 DEF Bills!AlreadyIssued, Bills!At
  <2>3. Quietly(a)
    BY <2>1, <2>2, DoneCall DEF Quietly, Bills!Done
  <2> QED BY <1>2, <1>3, <2>3, QuietKeeps
<1>5. CASE Bills!PayReplayed(a) \/ Bills!VoidAgain(a)
  <2>1. call[a].step # "idle" /\ call[a].body.op # "issue" /\ Bills!Done(a, call[a].body.invoice) /\ UNCHANGED Bills!ledger
    BY <1>5 DEF Bills!PayReplayed, Bills!VoidAgain, Bills!At
  <2>2. call[a].body.invoice \in Invoice
    BY <1>1, <2>1, BodyKinds DEF Bears
  <2>3. Quietly(a)
    BY <2>1, <2>2, DoneCall DEF Quietly, Bills!Done
  <2> QED BY <1>2, <1>3, <2>3, QuietKeeps
<1>6. CASE Bills!Draft(a)
  <2>1. call[a].step = "running" /\ Bills!Goes(a, "drafted") /\ UNCHANGED <<next, invoice, payment, drawn>>
    BY <1>6 DEF Bills!Draft, Bills!At, Bills!Moves
  <2>2. drawn' = [drawn EXCEPT ![a] = 0]
    BY <2>1 DEF BillInv, Bills!TypeOK
  <2>3. Quietly(a)
    BY <2>1, <2>2, NextCall, ZenonT(30) DEF Quietly, Bills!ledger
  <2> QED BY <1>2, <1>3, <2>3, QuietKeeps
<1>7. CASE Bills!IssueLoses(a) \/ Bills!Fails(a)
  <2>1. /\ call[a].step # "idle" /\ drawn' = [drawn EXCEPT ![a] = 0] /\ UNCHANGED Bills!ledger
        /\ Bills!Goes(a, "lost") \/ Bills!Goes(a, "failed")
    BY <1>7 DEF Bills!IssueLoses, Bills!Fails, Bills!At, Bills!Moves
  <2>2. Quietly(a)
    BY <2>1, NextCall DEF Quietly
  <2> QED BY <1>2, <1>3, <2>2, QuietKeeps
<1> QED BY <1>4, <1>5, <1>6, <1>7

\* A request comes.
LEMMA ArrivesKeeps ==
  ASSUME BillAssumptions, BillInv, NEW a \in Call, NEW k \in InvoiceKey, NEW body \in Bills!Body,
         Bills!Arrives(a, k, body)
  PROVE  BillInv'
<1>1. /\ row \in [InvoiceKey -> [body : Bills!Body \cup {Null}, snapshot : Invoice \cup {Null}]]
      /\ answers \in [InvoiceKey -> SUBSET Invoice] /\ faults \in Nat
  BY DEF BillInv, Bills!TypeOK
<1>2. /\ call[a].step = "idle" /\ UNCHANGED <<next, invoice, payment, drawn, answers, faults>>
      /\ row' = [row EXCEPT ![k] = [body |-> body, snapshot |-> Null]]
      /\ call' = [call EXCEPT ![a] = [step |-> "running", key |-> k, body |-> body, result |-> Null]]
  BY DEF Bills!Arrives, Bills!Claim, Bills!Working
<1>3. PICK c : c = [step |-> "running", key |-> k, body |-> body, result |-> Null]
  OBVIOUS
<1>4. c \in BillCall /\ Bears(c) /\ c.step # "locked"
  BY <1>3 DEF BillCall, Bears
<1>5. drawn' = [drawn EXCEPT ![a] = 0]
  BY <1>2 DEF BillInv, Bills!TypeOK
<1>6. Quietly(a)
  BY <1>2, <1>3, <1>4, <1>5 DEF Quietly, Bills!ledger
<1>7. row' \in [InvoiceKey -> [body : Bills!Body \cup {Null}, snapshot : Invoice \cup {Null}]]
  BY <1>1, <1>2
<1> QED BY <1>1, <1>2, <1>6, <1>7, QuietKeeps

\* A request that has been answered comes again.
LEMMA AgainKeeps ==
  ASSUME BillAssumptions, BillInv, NEW k \in InvoiceKey, NEW body \in Bills!Body, Bills!Again(k, body)
  PROVE  BillInv'
<1>1. UNCHANGED <<row, call, faults, next, invoice, payment, drawn>>
  BY DEF Bills!Again, Bills!Replay
<1>2. answers' \in [InvoiceKey -> SUBSET Invoice]
  BY DEF Bills!Again, Bills!Replay, Bills!Answer, BillInv, Bills!TypeOK
<1>3. Bills!TypeOK'
  BY <1>1, <1>2 DEF BillInv, Bills!TypeOK
<1>4. \A b, n : Stands(b, n)' = Stands(b, n)
  BY <1>1 DEF Stands, Bills!Allowed, Bills!Paid, Bills!Units
<1>5. /\ \A o \in Call : Bears(call[o])'
      /\ RowLockedOnce' /\ LockedStands'
  BY <1>1, <1>4 DEF BillInv, Bears, RowLockedOnce, LockedStands
<1>6. OneInvoice' /\ Bills!NumbersConsecutive' /\ Bills!KeptWithinTotal'
  BY <1>1 DEF BillInv, OneInvoice, Bills!IssuedFor, Bills!NumbersConsecutive, Bills!Issued,
              Bills!KeptWithinTotal, Bills!Paid, Bills!Units
<1> QED BY <1>3, <1>5, <1>6 DEF BillInv

\* A transaction takes its lock, and reads.
LEMMA LocksKeep ==
  ASSUME BillAssumptions, BillInv, NEW a \in Call, Bills!Number(a) \/ Bills!Lock(a)
  PROVE  BillInv'
<1>1. /\ call[a].step # "idle" /\ call[a].step # "locked" /\ Bills!Goes(a, "locked") /\ Bills!Unlocked(call[a].body)
      /\ UNCHANGED <<next, invoice, payment, row, answers, faults>>
  BY DEF Bills!Number, Bills!Lock, Bills!At, Bills!Moves, Bills!Protocol, Bills!ledger
<1>2. PICK b \in Bills!Body : b = call[a].body
  BY <1>1 DEF BillInv, Bears
<1>3. PICK c \in BillCall :
        /\ call' = [call EXCEPT ![a] = c] /\ Bears(c)
        /\ c.step = "locked" /\ c.body = b
  BY <1>1, <1>2, NextCall
<1>4. call' \in [Call -> BillCall] /\ call'[a] = c /\ \A o \in Call \ {a} : call'[o] = call[o]
  BY <1>3, OneMoves DEF BillInv
<1>5. PICK n \in Nat :
        /\ drawn' = [drawn EXCEPT ![a] = n] /\ (b.op = "issue" => n = next)
        /\ b.op # "issue" => invoice[b.invoice].status = "ISSUED" /\ Bills!Allowed(b)
  <2>1. CASE Bills!Number(a)
    BY <1>2, <2>1 DEF Bills!Number, Bills!At, BillInv, Bills!TypeOK
  <2>2. CASE Bills!Lock(a)
    <3>1. drawn[a] = 0 /\ UNCHANGED drawn /\ b.op # "issue"
      BY <1>1, <1>2, <2>2 DEF Bills!Lock, Bills!At, BillInv, Bills!TypeOK
    <3> QED BY <1>2, <2>2, <3>1 DEF Bills!Lock, BillInv, Bills!TypeOK
  <2> QED BY <2>1, <2>2
<1>6. Bills!TypeOK'
  BY <1>1, <1>3, <1>4, <1>5 DEF BillInv, Bills!TypeOK, BillCall
<1>7. \A o \in Call : Bears(call[o])'
  BY <1>3, <1>4 DEF BillInv, Bears
<1>8. RowLockedOnce'
  BY <1>1, <1>2, <1>3, <1>4 DEF BillInv, RowLockedOnce, Bills!Unlocked, Bills!Locked
<1>9. \A body, m : Stands(body, m)' = Stands(body, m)
  BY <1>1 DEF Stands, Bills!Allowed, Bills!Paid, Bills!Units
<1>10. \A o \in Call \ {a} : drawn'[o] = drawn[o]
  BY <1>5 DEF BillInv, Bills!TypeOK
<1>11. Stands(b, n) /\ drawn'[a] = n
  BY <1>5 DEF Stands, BillInv, Bills!TypeOK
<1>12. LockedStands'
  BY <1>3, <1>4, <1>9, <1>10, <1>11 DEF BillInv, LockedStands
<1>13. OneInvoice' /\ Bills!NumbersConsecutive' /\ Bills!KeptWithinTotal'
  BY <1>1 DEF BillInv, OneInvoice, Bills!IssuedFor, Bills!NumbersConsecutive, Bills!Issued,
              Bills!KeptWithinTotal, Bills!Paid, Bills!Units
<1> QED BY <1>6, <1>7, <1>8, <1>12, <1>13 DEF BillInv

\* A transaction commits: its request is done, and others hold the locks they held.
LEMMA CommitMoves ==
  ASSUME BillAssumptions, BillInv, NEW a \in Call, NEW i \in Invoice,
         call[a].step = "locked", Bills!Done(a, i)
  PROVE  /\ call' \in [Call -> BillCall] /\ \A o \in Call : Bears(call[o])'
         /\ drawn' \in [Call -> Nat] /\ \A o \in Call : drawn'[o] # 0 => call'[o].step = "locked"
         /\ \A o \in Call : call'[o].step = "locked" => o # a /\ call'[o] = call[o] /\ drawn'[o] = drawn[o]
         /\ RowLockedOnce' /\ UNCHANGED <<row, answers, faults>>
<1>1. PICK c \in BillCall : call' = [call EXCEPT ![a] = c] /\ Bears(c) /\ c.step = "done"
  BY DoneCall
<1>2. call' \in [Call -> BillCall] /\ call'[a] = c /\ \A o \in Call \ {a} : call'[o] = call[o]
  BY <1>1, OneMoves DEF BillInv
<1>3. drawn' = [drawn EXCEPT ![a] = 0] /\ UNCHANGED <<row, answers, faults>>
  BY DEF Bills!Done, Bills!Protocol
<1>4. /\ drawn' \in [Call -> Nat] /\ drawn'[a] = 0 /\ \A o \in Call \ {a} : drawn'[o] = drawn[o]
      /\ \A o \in Call : drawn[o] # 0 => call[o].step = "locked"
  BY <1>3 DEF BillInv, Bills!TypeOK
<1>5. \A o \in Call : Bears(call[o])'
  BY <1>1, <1>2 DEF BillInv, Bears
<1>6. \A o \in Call : call'[o].step = "locked" => o # a /\ call'[o] = call[o] /\ drawn'[o] = drawn[o]
  BY <1>1, <1>2, <1>4
<1>7. RowLockedOnce'
  BY <1>6 DEF BillInv, RowLockedOnce
<1> QED BY <1>2, <1>3, <1>4, <1>5, <1>6, <1>7

\* The new invoice has the number that is next, and is the only one of its visit.
LEMMA IssueKeeps ==
  ASSUME BillAssumptions, BillInv, NEW a \in Call, NEW i \in Invoice, Bills!Issue(a, i)
  PROVE  BillInv'
<1>1. call[a].step = "locked" /\ call[a].body.op = "issue" /\ call[a].body.visit \in Visit /\ Bears(call[a])
  BY BodyKinds DEF Bills!Issue, Bills!At, BillInv, Bears
<1>2. PICK v \in Visit, k \in InvoiceKey : v = call[a].body.visit /\ k = call[a].key
  BY <1>1 DEF Bears
<1>3. drawn[a] = next /\ next \in Nat \ {0}
  BY <1>1 DEF BillInv, Bills!TypeOK, LockedStands, Stands
<1>4. PICK r : r = [status |-> "ISSUED", visit |-> v, sequence |-> next, key |-> k]
  OBVIOUS
<1>5. /\ invoice[i] = Bills!NoInvoice /\ invoice' = [invoice EXCEPT ![i] = r] /\ next' = next + 1
      /\ Bills!IssuedFor(v) = {} /\ Bills!Done(a, i) /\ UNCHANGED payment
  BY <1>2, <1>3, <1>4 DEF Bills!Issue, Bills!Duplicate
<1>6. /\ r \in [status : {"ABSENT", "ISSUED", "VOID"}, visit : Visit \cup {Null}, sequence : Nat, key : InvoiceKey \cup {Null}]
      /\ r.status = "ISSUED" /\ r.visit = v /\ r.sequence = next
  BY <1>3, <1>4
<1>7. /\ invoice'[i] = r /\ \A j \in Invoice \ {i} : invoice'[j] = invoice[j]
      /\ invoice' \in [Invoice -> [status : {"ABSENT", "ISSUED", "VOID"}, visit : Visit \cup {Null},
                                   sequence : Nat, key : InvoiceKey \cup {Null}]]
      /\ invoice[i].status = "ABSENT" /\ invoice \in [Invoice -> [status : {"ABSENT", "ISSUED", "VOID"}, visit : Visit \cup {Null},
                                   sequence : Nat, key : InvoiceKey \cup {Null}]]
  BY <1>5, <1>6 DEF BillInv, Bills!TypeOK, Bills!NoInvoice
<1>8. Bills!TypeOK'
  BY <1>1, <1>3, <1>5, <1>7, CommitMoves DEF BillInv, Bills!TypeOK, BillCall
<1>9. OneInvoice'
  BY <1>5, <1>6, <1>7 DEF BillInv, OneInvoice, Bills!IssuedFor
<1>10. Bills!NumbersConsecutive'
  <2>1. Bills!Issued' = Bills!Issued \cup {i} /\ i \notin Bills!Issued
    BY <1>6, <1>7 DEF Bills!Issued
  <2>2. \A j \in Bills!Issued : invoice'[j] = invoice[j] /\ invoice[j].sequence \in 1 .. next - 1
    BY <1>7, <2>1 DEF BillInv, Bills!NumbersConsecutive, Bills!Issued
  <2>3. {invoice'[j].sequence : j \in Bills!Issued} = 1 .. next - 1
    BY <2>2 DEF BillInv, Bills!NumbersConsecutive
  <2>4. {invoice'[j].sequence : j \in Bills!Issued'} = {invoice'[j].sequence : j \in Bills!Issued} \cup {next}
    BY <1>6, <1>7, <2>1
  <2>5. (1 .. next - 1) \cup {next} = 1 .. next' - 1
    BY <1>3, <1>5
  <2>6. \A j, o \in Bills!Issued' : invoice'[j].sequence = invoice'[o].sequence => j = o
    BY <1>3, <1>6, <1>7, <2>1, <2>2 DEF BillInv, Bills!NumbersConsecutive
  <2> QED BY <2>3, <2>4, <2>5, <2>6 DEF Bills!NumbersConsecutive
<1>11. \A j \in Invoice : Bills!Paid(j)' = Bills!Paid(j)
  BY <1>5 DEF Bills!Paid, Bills!Units
<1>12. Bills!KeptWithinTotal'
  <2>1. Bills!Paid(i) \in 0 .. 0 /\ Total \in Nat
    BY <1>7 DEF BillInv, Bills!KeptWithinTotal, BillAssumptions, Bills!TotalAssumption
  <2> QED BY <1>6, <1>7, <1>11, <2>1 DEF BillInv, Bills!KeptWithinTotal
<1>13. LockedStands'
  <2>1. ASSUME NEW o \in Call, call'[o].step = "locked" PROVE Stands(call[o].body, drawn[o])'
    <3>1. o # a /\ call'[o] = call[o] /\ call[o].step = "locked"
      BY <1>1, <1>5, <2>1, CommitMoves
    <3>2. PICK b \in Bills!Body : b = call[o].body
      BY <3>1 DEF BillInv, Bears
    <3>3. b.op # "issue"
      BY <1>1, <3>1, <3>2 DEF BillInv, RowLockedOnce, Bills!Locked
    <3>4. b.invoice \in Invoice /\ invoice[b.invoice].status = "ISSUED" /\ Bills!Allowed(b)
      BY <3>1, <3>2, <3>3, BodyKinds DEF BillInv, LockedStands, Stands
    <3>5. b.invoice # i /\ Bills!Allowed(b)'
      BY <1>7, <1>11, <3>4 DEF Bills!Allowed
    <3> QED BY <1>7, <3>1, <3>2, <3>3, <3>4, <3>5 DEF Stands
  <2> QED BY <2>1 DEF LockedStands
<1> QED BY <1>1, <1>5, <1>8, <1>9, <1>10, <1>12, <1>13, CommitMoves DEF BillInv

\* A payment or refund adds its units to those of its kind on its invoice.
LEMMA PayUnits ==
  ASSUME BillAssumptions, Bills!TypeOK, NEW k \in InvoiceKey, NEW q \in {"payment", "refund"}, NEW i \in Invoice,
         NEW n \in 1 .. Total, payment[k] = Bills!NoPayment,
         payment' = [payment EXCEPT ![k] = [kind |-> q, invoice |-> i, amount |-> n]]
  PROVE  /\ Cardinality(Bills!Units(q, i)') = Cardinality(Bills!Units(q, i)) + n
         /\ \A kind \in {"payment", "refund"}, j \in Invoice :
              kind # q \/ j # i => Bills!Units(kind, j)' = Bills!Units(kind, j)
<1>1. /\ payment'[k].kind = q /\ payment'[k].invoice = i /\ payment'[k].amount = n
      /\ \A l \in InvoiceKey \ {k} : payment'[l] = payment[l]
      /\ payment[k].kind = Null /\ Null \notin {"payment", "refund"} /\ Total \in Nat
  BY DEF Bills!TypeOK, Bills!NoPayment, BillAssumptions, Bills!NamesAssumption, Bills!TotalAssumption
<1>2. Bills!Units(q, i)' = Bills!Units(q, i) \cup ({k} \X (1 .. n))
  BY <1>1 DEF Bills!Units
<1>3. Bills!Units(q, i) \cap ({k} \X (1 .. n)) = {}
  BY <1>1 DEF Bills!Units
<1>4. IsFiniteSet({k} \X (1 .. n)) /\ Cardinality({k} \X (1 .. n)) = n
  <2>1. n \in Nat /\ 1 \in Int /\ n \in Int /\ ~(1 > n) /\ n - 1 + 1 = n
    BY <1>1
  <2>2. IsFiniteSet(1 .. n) /\ Cardinality(1 .. n) = n
    BY <2>1, FS_Interval
  <2>3. IsFiniteSet({k}) /\ Cardinality({k}) = 1
    BY FS_Singleton
  <2>4. IsFiniteSet({k} \X (1 .. n)) /\ Cardinality({k} \X (1 .. n)) = Cardinality({k}) * Cardinality(1 .. n)
    BY <2>2, <2>3, FS_Product
  <2>5. 1 * n = n
    BY <2>1
  <2> QED BY <2>2, <2>3, <2>4, <2>5
<1>5. IsFiniteSet(Bills!Units(q, i)) /\ Cardinality(Bills!Units(q, i)) \in Nat
  BY UnitsFinite
<1>6. Cardinality(Bills!Units(q, i)') = Cardinality(Bills!Units(q, i)) + n
  <2> DEFINE S == Bills!Units(q, i)
             T == {k} \X (1 .. n)
  <2>1. Cardinality(S \cap T) = 0
    BY <1>3, FS_EmptySet
  <2>2. Cardinality(S \cup T) = Cardinality(S) + Cardinality(T) - Cardinality(S \cap T)
    BY <1>4, <1>5, FS_Union
  <2> HIDE DEF S, T
  <2>3. Cardinality(S \cup T) = Cardinality(S) + n
    BY <1>4, <1>5, <2>1, <2>2 DEF S, T
  <2> QED BY <1>2, <2>3 DEF S, T
<1>7. \A kind \in {"payment", "refund"}, j \in Invoice :
        kind # q \/ j # i => Bills!Units(kind, j)' = Bills!Units(kind, j)
  BY <1>1 DEF Bills!Units
<1> QED BY <1>6, <1>7

\* The payment was allowed when its invoice was locked, and is allowed still.
LEMMA PayKeeps ==
  ASSUME BillAssumptions, BillInv, NEW a \in Call, Bills!Pay(a)
  PROVE  BillInv'
<1>1. /\ call[a].step = "locked" /\ call[a].body.op \in {"payment", "refund"}
      /\ Bears(call[a]) /\ Stands(call[a].body, drawn[a])
  BY DEF Bills!Pay, Bills!At, BillInv, LockedStands
<1>2. PICK k \in InvoiceKey, b \in Bills!Body : k = call[a].key /\ b = call[a].body
  BY <1>1 DEF Bears
<1>3. PICK q \in {"payment", "refund"}, i \in Invoice, n \in 1 .. Total : q = b.op /\ i = b.invoice /\ n = b.amount
  BY <1>1, <1>2, BodyKinds
<1>4. /\ payment[k] = Bills!NoPayment
      /\ payment' = [payment EXCEPT ![k] = [kind |-> q, invoice |-> i, amount |-> n]]
      /\ Bills!Done(a, i) /\ UNCHANGED <<next, invoice>>
  BY <1>2, <1>3 DEF Bills!Pay
<1>5. payment' \in [InvoiceKey -> [kind : {"payment", "refund", Null}, invoice : Invoice \cup {Null}, amount : 0 .. Total]]
  <2>1. [kind |-> q, invoice |-> i, amount |-> n]
          \in [kind : {"payment", "refund", Null}, invoice : Invoice \cup {Null}, amount : 0 .. Total]
    BY DEF BillAssumptions, Bills!TotalAssumption
  <2> QED BY <1>4, <2>1 DEF BillInv, Bills!TypeOK
<1>6. Bills!TypeOK'
  BY <1>1, <1>4, <1>5, CommitMoves DEF BillInv, Bills!TypeOK, BillCall
<1>7. \A j \in Invoice \ {i} : Bills!Paid(j)' = Bills!Paid(j)
  BY <1>4, PayUnits DEF Bills!Paid, BillInv
<1>8. invoice[i].status = "ISSUED" /\ Bills!Paid(i)' \in 0 .. Total
  <2> DEFINE P == Cardinality(Bills!Units("payment", i))
             R == Cardinality(Bills!Units("refund", i))
  <2>1. P \in Nat /\ R \in Nat /\ Bills!Paid(i) = P - R /\ Total \in Nat
    BY UnitsFinite, BillsCount DEF Bills!Paid, BillAssumptions, Bills!TotalAssumption
  <2>2. invoice[i].status = "ISSUED" /\ P - R \in 0 .. Total
    BY <1>1, <1>2, <1>3, <2>1 DEF Stands, BillInv, Bills!KeptWithinTotal
  <2>3. CASE q = "payment"
    <3>1. P - R + n <= Total
      BY <1>1, <1>2, <1>3, <2>1, <2>3 DEF Stands, Bills!Allowed
    <3>2. P' = P + n /\ R' = R
      BY <1>4, <2>3, PayUnits DEF BillInv
    <3>3. Bills!Paid(i)' = P' - R'
      BY BillsCount DEF Bills!Paid
    <3> HIDE DEF P, R
    <3> QED BY <2>1, <2>2, <3>1, <3>2, <3>3
  <2>4. CASE q = "refund"
    <3>1. n <= P - R
      BY <1>1, <1>2, <1>3, <2>1, <2>4 DEF Stands, Bills!Allowed
    <3>2. P' = P /\ R' = R + n
      BY <1>4, <2>4, PayUnits DEF BillInv
    <3>3. Bills!Paid(i)' = P' - R'
      BY BillsCount DEF Bills!Paid
    <3> HIDE DEF P, R
    <3> QED BY <2>1, <2>2, <3>1, <3>2, <3>3
  <2> QED BY <2>3, <2>4
<1>9. Bills!KeptWithinTotal'
  BY <1>4, <1>7, <1>8 DEF BillInv, Bills!KeptWithinTotal
<1>10. LockedStands'
  <2>1. ASSUME NEW o \in Call, call'[o].step = "locked" PROVE Stands(call[o].body, drawn[o])'
    <3>1. /\ o # a /\ call'[o] = call[o] /\ drawn'[o] = drawn[o] /\ call[o].step = "locked"
          /\ Stands(call[o].body, drawn[o])
      BY <1>1, <1>4, <2>1, CommitMoves DEF BillInv, LockedStands
    <3>2. PICK c \in Bills!Body : c = call[o].body
      BY <3>1 DEF BillInv, Bears
    <3>3. CASE c.op = "issue"
      BY <1>4, <3>1, <3>2, <3>3 DEF Stands
    <3>4. CASE c.op # "issue"
      <4>1. c.invoice \in Invoice
        BY <3>4, BodyKinds
      <4>2. c.invoice # i
        BY <1>1, <1>2, <1>3, <3>1, <3>2, <3>4 DEF BillInv, RowLockedOnce, Bills!Locked
      <4>3. Bills!Allowed(c)' <=> Bills!Allowed(c)
        BY <1>7, <4>1, <4>2 DEF Bills!Allowed
      <4> QED BY <1>4, <3>1, <3>2, <3>4, <4>3 DEF Stands
    <3> QED BY <3>3, <3>4
  <2> QED BY <2>1 DEF LockedStands
<1>11. OneInvoice' /\ Bills!NumbersConsecutive'
  BY <1>4 DEF BillInv, OneInvoice, Bills!IssuedFor, Bills!NumbersConsecutive, Bills!Issued
<1> QED BY <1>1, <1>4, <1>6, <1>9, <1>10, <1>11, CommitMoves DEF BillInv

\* What is voided has nothing kept on it.
LEMMA VoidKeeps ==
  ASSUME BillAssumptions, BillInv, NEW a \in Call, Bills!Void(a)
  PROVE  BillInv'
<1>1. call[a].step = "locked" /\ call[a].body.op = "void" /\ Bears(call[a]) /\ Stands(call[a].body, drawn[a])
  BY DEF Bills!Void, Bills!At, BillInv, LockedStands
<1>2. PICK b \in Bills!Body : b = call[a].body
  BY <1>1 DEF Bears
<1>3. PICK i \in Invoice : i = b.invoice
  BY <1>1, <1>2, BodyKinds
<1>4. invoice' = [invoice EXCEPT ![i].status = "VOID"] /\ Bills!Done(a, i) /\ UNCHANGED <<next, payment>>
  BY <1>2, <1>3 DEF Bills!Void
<1> DEFINE InvoiceRow == [status : {"ABSENT", "ISSUED", "VOID"}, visit : Visit \cup {Null},
                          sequence : Nat, key : InvoiceKey \cup {Null}]
<1>5. invoice \in [Invoice -> InvoiceRow]
  BY DEF BillInv, Bills!TypeOK
<1>6. /\ invoice' \in [Invoice -> InvoiceRow] /\ \A j \in Invoice \ {i} : invoice'[j] = invoice[j]
      /\ invoice'[i].status = "VOID" /\ invoice'[i].sequence = invoice[i].sequence
  BY <1>4, <1>5
<1>7. Bills!TypeOK'
  BY <1>1, <1>4, <1>6, CommitMoves DEF BillInv, Bills!TypeOK, BillCall
<1> HIDE DEF InvoiceRow
<1>8. \A j \in Invoice : Bills!Paid(j)' = Bills!Paid(j)
  BY <1>4 DEF Bills!Paid, Bills!Units
<1>9. invoice[i].status = "ISSUED" /\ Bills!Paid(i) <= 0
  BY <1>1, <1>2, <1>3 DEF Stands, Bills!Allowed
<1>10. Bills!KeptWithinTotal'
  <2>1. Bills!Paid(i) \in 0 .. Total /\ Total \in Nat
    BY <1>9 DEF BillInv, Bills!KeptWithinTotal, BillAssumptions, Bills!TotalAssumption
  <2>2. Bills!Paid(i) \in 0 .. 0
    BY <1>9, <2>1
  <2> QED BY <1>6, <1>8, <2>2 DEF BillInv, Bills!KeptWithinTotal
<1>11. OneInvoice'
  BY <1>6 DEF BillInv, OneInvoice, Bills!IssuedFor
<1>12. Bills!NumbersConsecutive'
  <2>1. Bills!Issued' = Bills!Issued
    BY <1>6, <1>9 DEF Bills!Issued
  <2>2. \A j \in Bills!Issued : invoice'[j].sequence = invoice[j].sequence
    BY <1>6 DEF Bills!Issued
  <2> QED BY <1>4, <2>1, <2>2 DEF BillInv, Bills!NumbersConsecutive
<1>13. LockedStands'
  <2>1. ASSUME NEW o \in Call, call'[o].step = "locked" PROVE Stands(call[o].body, drawn[o])'
    <3>1. /\ o # a /\ call'[o] = call[o] /\ drawn'[o] = drawn[o] /\ call[o].step = "locked"
          /\ Stands(call[o].body, drawn[o])
      BY <1>1, <1>4, <2>1, CommitMoves DEF BillInv, LockedStands
    <3>2. PICK c \in Bills!Body : c = call[o].body
      BY <3>1 DEF BillInv, Bears
    <3>3. CASE c.op = "issue"
      BY <1>4, <3>1, <3>2, <3>3 DEF Stands
    <3>4. CASE c.op # "issue"
      <4>1. c.invoice \in Invoice
        BY <3>4, BodyKinds
      <4>2. c.invoice # i
        BY <1>1, <1>2, <1>3, <3>1, <3>2, <3>4 DEF BillInv, RowLockedOnce, Bills!Locked
      <4>3. Bills!Allowed(c)' <=> Bills!Allowed(c)
        BY <1>8, <4>1 DEF Bills!Allowed
      <4> QED BY <1>6, <3>1, <3>2, <3>4, <4>1, <4>2, <4>3 DEF Stands
    <3> QED BY <3>3, <3>4
  <2> QED BY <2>1 DEF LockedStands
<1> QED BY <1>1, <1>4, <1>7, <1>10, <1>11, <1>12, <1>13, CommitMoves DEF BillInv

\* At first nothing is issued.
LEMMA BillsBegin == ASSUME BillAssumptions, Bills!Init PROVE BillInv
<1>1. \A i \in Invoice : invoice[i] = Bills!NoInvoice /\ invoice[i].status = "ABSENT"
  BY DEF Bills!Init, Bills!NoInvoice
<1>2. \A a \in Call : call[a] = Bills!Idle /\ call[a].step = "idle"
  BY DEF Bills!Init, Bills!ProtocolInit, Bills!Idle
<1>3. Bills!TypeOK
  <2>1. row \in [InvoiceKey -> [body : Bills!Body \cup {Null}, snapshot : Invoice \cup {Null}]]
    BY DEF Bills!Init, Bills!ProtocolInit, Bills!NoRow
  <2>2. call \in [Call -> [step : {"idle", "running", "drafted", "locked", "lost", "done", "failed"}, key : InvoiceKey \cup {Null},
                        body : Bills!Body \cup {Null}, result : Invoice \cup {Null}]]
    BY DEF Bills!Init, Bills!ProtocolInit, Bills!Idle
  <2>3. Total \in Nat
    BY DEF BillAssumptions, Bills!TotalAssumption
  <2> QED BY <2>1, <2>2, <2>3 DEF Bills!Init, Bills!ProtocolInit, Bills!NoInvoice, Bills!NoPayment, Bills!TypeOK
<1>4. \A kind \in {"payment", "refund"} : \A i : Bills!Units(kind, i) = {}
  BY DEF Bills!Init, Bills!NoPayment, Bills!Units, BillAssumptions, Bills!NamesAssumption
<1>5. Bills!KeptWithinTotal
  <2>1. \A i \in Invoice : Bills!Paid(i) = 0
    BY <1>4, BillsCount, FS_EmptySet DEF Bills!Paid
  <2> QED BY <2>1, <1>1 DEF Bills!KeptWithinTotal
<1>6. Bills!NumbersConsecutive
  <2>1. Bills!Issued = {} /\ next = 1
    BY <1>1 DEF Bills!Issued, Bills!Init
  <2> QED BY <2>1 DEF Bills!NumbersConsecutive
<1> QED BY <1>1, <1>2, <1>3, <1>5, <1>6
     DEF BillInv, Bears, RowLockedOnce, LockedStands, OneInvoice, Bills!IssuedFor

\* Every step keeps the invariant.
LEMMA BillStep == ASSUME BillAssumptions, BillInv, [Bills!Next]_(Bills!vars) PROVE BillInv'
<1>1. CASE \E a \in Call : Bills!IssueStep(a) \/ Bills!PaymentStep(a) \/ Bills!Fails(a) \/ Bills!Settles(a)
  BY <1>1, HandlerQuiet, ProtocolQuiet, LocksKeep, IssueKeeps, PayKeeps, VoidKeeps DEF Bills!IssueStep, Bills!PaymentStep
<1>2. CASE \E a \in Call, k \in InvoiceKey, body \in Bills!Body : Bills!Arrives(a, k, body)
  BY <1>2, ArrivesKeeps
<1>3. CASE \E k \in InvoiceKey, body \in Bills!Body : Bills!Again(k, body)
  BY <1>3, AgainKeeps
<1>4. CASE UNCHANGED Bills!vars
  <2>1. UNCHANGED <<row, call, answers, faults, next, invoice, payment, drawn>>
    BY <1>4 DEF Bills!vars
  <2>2. \A b, n : Stands(b, n)' = Stands(b, n)
    BY <2>1 DEF Stands, Bills!Allowed, Bills!Paid, Bills!Units
  <2>3. Bills!TypeOK' /\ \A o \in Call : Bears(call[o])'
    BY <2>1 DEF BillInv, Bills!TypeOK, Bears
  <2>4. RowLockedOnce' /\ LockedStands'
    BY <2>1, <2>2 DEF BillInv, RowLockedOnce, LockedStands
  <2>5. OneInvoice' /\ Bills!NumbersConsecutive' /\ Bills!KeptWithinTotal'
    BY <2>1 DEF BillInv, OneInvoice, Bills!IssuedFor, Bills!NumbersConsecutive, Bills!Issued,
                Bills!KeptWithinTotal, Bills!Paid, Bills!Units
  <2> QED BY <2>3, <2>4, <2>5 DEF BillInv
<1> QED BY <1>1, <1>2, <1>3, <1>4 DEF Bills!Next

\* So it always holds.
LEMMA AlwaysBillInv == ASSUME BillAssumptions PROVE Bills!Spec => []BillInv
<1>1. BillInv /\ [Bills!Next]_(Bills!vars) => BillInv'
  BY BillStep
<1> QED BY <1>1, BillsBegin, PTL DEF Bills!Spec

\* Payments, refunds and voids race for an invoice, and are sent again: what is kept on it stays within
\* what it asks for, nothing is kept on one that is voided, and a visit has one invoice that stands.
THEOREM InvoicesAreKept == ASSUME BillAssumptions PROVE Bills!Spec => []InvoicesKept
<1>1. BillInv => InvoicesKept
  <2>1. ASSUME BillInv, NEW v \in Visit PROVE Bills!Cardinality(Bills!IssuedFor(v)) <= 1
    <3>1. \A i, j \in Bills!IssuedFor(v) : i = j
      BY <2>1 DEF BillInv, OneInvoice
    <3>2. CASE Bills!IssuedFor(v) = {}
      BY <3>2, BillsCount, FS_EmptySet
    <3>3. CASE Bills!IssuedFor(v) # {}
      <4>1. PICK i : Bills!IssuedFor(v) = {i}
        BY <3>1, <3>3
      <4>2. Cardinality({i}) = 1
        BY FS_Singleton
      <4> QED BY <4>1, <4>2, BillsCount
    <3> QED BY <3>2, <3>3
  <2> QED BY <2>1 DEF BillInv, InvoicesKept, Bills!InvoicesKept, Bills!BilledOnce
<1> QED BY <1>1, AlwaysBillInv, PTL

\* The numbers of the invoices leave no gap, whoever issues them and whatever fails.
THEOREM NumbersAreConsecutive == ASSUME BillAssumptions PROVE Bills!Spec => []NumbersConsecutive
<1>1. BillInv => NumbersConsecutive
  BY DEF BillInv, NumbersConsecutive
<1> QED BY <1>1, AlwaysBillInv, PTL

(***************************************************************************)
(* AiCredits.                                                              *)
(***************************************************************************)
CreditAssumptions == Credit!AllocatedAssumption /\ Credit!NoneAssumption

\* A request past its reservation is of a subscription.
Placed == \A g \in Generation : generation[g].step \notin {"new", "failed"} => Credit!Of(g) \in Subscription

\* The user's lock: one reservation at a time, and the credit it has found is available until it takes it.
OneReserves ==
  /\ \A g, h \in Generation : generation[g].step = "locked" /\ generation[h].step = "locked" => g = h
  /\ \A g \in Generation : generation[g].step = "locked" => Credit!Available(Credit!Of(g))

CreditInv == Credit!CreditsAccounted /\ Placed /\ OneReserves

\* A request in its next step, and every other where it was.
LEMMA GenerationGoes ==
  ASSUME CreditInv, NEW g \in Generation,
         NEW step \in {"generating", "generated", "broken", "served", "failed"}, Credit!Goes(g, step)
  PROVE  /\ generation' \in [Generation -> [step : {"new", "locked", "generating", "generated", "broken", "served", "failed"},
                                            of : Subscription \cup {Null}]]
         /\ generation'[g].step = step /\ generation'[g].of = generation[g].of
         /\ \A h \in Generation \ {g} : generation'[h] = generation[h]
BY DEF Credit!Goes, CreditInv, Credit!CreditsAccounted, Credit!TypeOK

\* A step of a request that counts nothing.
LEMMA UncountedKeeps ==
  ASSUME CreditInv, UNCHANGED <<active, credits, log>>, NEW g \in Generation,
         NEW step \in {"generating", "generated", "broken", "served", "failed"}, Credit!Goes(g, step),
         generation[g].step = "new" => step = "failed",
         generation[g].step = "failed" => step = "failed"
  PROVE  CreditInv'
<1>1. /\ generation'[g].step = step /\ generation'[g].of = generation[g].of
      /\ \A h \in Generation \ {g} : generation'[h] = generation[h]
      /\ Credit!TypeOK'
  BY GenerationGoes DEF CreditInv, Credit!CreditsAccounted, Credit!TypeOK
<1>2. Credit!CountersMatchLog' /\ Credit!WithinAllocation'
  BY DEF CreditInv, Credit!CreditsAccounted, Credit!CountersMatchLog, Credit!WithinAllocation
<1>3. Placed'
  BY <1>1 DEF CreditInv, Placed, Credit!Of
<1>4. OneReserves'
  BY <1>1 DEF CreditInv, OneReserves, Credit!Of, Credit!Available
<1> QED BY <1>1, <1>2, <1>3, <1>4 DEF CreditInv, Credit!CreditsAccounted

\* The reservation under the lock.
LEMMA ReserveKeeps ==
  ASSUME CreditInv, NEW g \in Generation, Credit!Reserve(g)
  PROVE  CreditInv'
<1>1. /\ \A h \in Generation : generation[h].step # "locked"
      /\ active \in Subscription /\ Credit!Available(active) /\ UNCHANGED <<active, credits, log>>
      /\ generation' = [generation EXCEPT ![g] = [step |-> "locked", of |-> active]]
  BY DEF Credit!Reserve, CreditInv, Credit!CreditsAccounted, Credit!TypeOK
<1>2. /\ generation'[g].step = "locked" /\ generation'[g].of = active
      /\ \A h \in Generation \ {g} : generation'[h] = generation[h]
      /\ Credit!TypeOK'
  BY <1>1 DEF CreditInv, Credit!CreditsAccounted, Credit!TypeOK
<1>3. Credit!CountersMatchLog' /\ Credit!WithinAllocation'
  BY <1>1 DEF CreditInv, Credit!CreditsAccounted, Credit!CountersMatchLog, Credit!WithinAllocation
<1>4. Placed'
  BY <1>1, <1>2 DEF CreditInv, Placed, Credit!Of
<1>5. OneReserves'
  BY <1>1, <1>2 DEF CreditInv, OneReserves, Credit!Of, Credit!Available
<1> QED BY <1>2, <1>3, <1>4, <1>5 DEF CreditInv, Credit!CreditsAccounted

\* What a step counts, of one subscription: c and w are its counters and its transactions then.
Counts(s, c, w) ==
  /\ credits' = [credits EXCEPT ![s] = c] /\ log' = [log EXCEPT ![s] = w]
  /\ c \in [reserved : Nat, consumed : Nat] /\ w \in [reservation : Nat, consumption : Nat, release : Nat]
  /\ c.reserved + w.consumption + w.release = w.reservation /\ c.consumed = w.consumption
  /\ c.reserved + c.consumed <= Allocated

LEMMA CountsKeep ==
  ASSUME CreditAssumptions, CreditInv, NEW g \in Generation, NEW s \in Subscription, NEW c, NEW w, Counts(s, c, w), UNCHANGED active,
         NEW step \in {"generating", "generated", "broken", "served", "failed"}, Credit!Goes(g, step),
         s = Credit!Of(g), generation[g].step \notin {"new", "failed"},
         generation[g].step # "locked" => c.reserved + c.consumed <= credits[s].reserved + credits[s].consumed
  PROVE  CreditInv'
<1>1. /\ generation'[g].step = step /\ generation'[g].of = generation[g].of
      /\ \A h \in Generation \ {g} : generation'[h] = generation[h]
  BY GenerationGoes
<1>2. /\ credits' \in [Subscription -> [reserved : Nat, consumed : Nat]]
      /\ log' \in [Subscription -> [reservation : Nat, consumption : Nat, release : Nat]]
      /\ credits'[s] = c /\ log'[s] = w
      /\ \A o \in Subscription \ {s} : credits'[o] = credits[o] /\ log'[o] = log[o]
  BY DEF Counts, CreditInv, Credit!CreditsAccounted, Credit!TypeOK
<1>3. Credit!TypeOK'
  BY <1>2, GenerationGoes DEF CreditInv, Credit!CreditsAccounted, Credit!TypeOK
<1>4. Credit!CountersMatchLog' /\ Credit!WithinAllocation'
  BY <1>2 DEF Counts, CreditInv, Credit!CreditsAccounted, Credit!CountersMatchLog, Credit!WithinAllocation
<1>5. Placed'
  BY <1>1 DEF CreditInv, Placed, Credit!Of
<1>6. OneReserves'
  <2>1. ASSUME NEW h \in Generation, generation'[h].step = "locked" PROVE Credit!Available(Credit!Of(h))'
    <3>1. h # g /\ generation'[h] = generation[h] /\ generation[h].step = "locked" /\ generation[g].step # "locked"
      BY <1>1, <2>1 DEF CreditInv, OneReserves
    <3>2. PICK o \in Subscription : o = generation[h].of
      BY <3>1 DEF CreditInv, Placed, Credit!Of
    <3>3. credits[o].reserved + credits[o].consumed < Allocated
      BY <3>1, <3>2 DEF CreditInv, OneReserves, Credit!Available, Credit!Of
    <3>4. credits[s].reserved \in Nat /\ credits[s].consumed \in Nat /\ c.reserved \in Nat /\ c.consumed \in Nat
      BY DEF CreditInv, Credit!CreditsAccounted, Credit!TypeOK, Counts
    <3>5. credits'[o].reserved + credits'[o].consumed < Allocated
      <4>1. CASE o = s
        BY <1>2, <3>1, <3>3, <3>4, <4>1 DEF CreditAssumptions, Credit!AllocatedAssumption
      <4>2. CASE o # s
        BY <1>2, <3>3, <4>2
      <4> QED BY <4>1, <4>2
    <3> QED BY <3>1, <3>2, <3>5 DEF Credit!Available, Credit!Of
  <2> QED BY <1>1, <2>1 DEF CreditInv, OneReserves
<1> QED BY <1>3, <1>4, <1>5, <1>6 DEF CreditInv, Credit!CreditsAccounted

\* What the three transactions count.
LEMMA TransactionsCount ==
  ASSUME CreditAssumptions, CreditInv, NEW g \in Generation,
         NEW step \in {"generating", "generated", "broken", "served", "failed"},
         Credit!Reserved(g, step) \/ Credit!Consume(g, step) \/ Credit!Release(g)
  PROVE  CreditInv'
<1>1. PICK s \in Subscription : s = Credit!Of(g)
  BY DEF CreditInv, Placed, Credit!Reserved, Credit!Consume, Credit!Release
<1>2. PICK x \in [reserved : Nat, consumed : Nat], y \in [reservation : Nat, consumption : Nat, release : Nat] :
        x = credits[s] /\ y = log[s]
  BY DEF CreditInv, Credit!CreditsAccounted, Credit!TypeOK
<1>3. /\ x.reserved + y.consumption + y.release = y.reservation /\ x.consumed = y.consumption
      /\ x.reserved + x.consumed <= Allocated /\ Allocated \in Nat
  BY <1>2 DEF CreditInv, Credit!CreditsAccounted, Credit!CountersMatchLog, Credit!WithinAllocation,
              CreditAssumptions, Credit!AllocatedAssumption
<1>4. x.reserved \in Nat /\ x.consumed \in Nat /\ y.reservation \in Nat /\ y.consumption \in Nat /\ y.release \in Nat
  OBVIOUS
<1>5. CASE Credit!Reserved(g, step)
  <2>1. PICK c, w : c = [x EXCEPT !.reserved = x.reserved + 1] /\ w = [y EXCEPT !.reservation = y.reservation + 1]
    OBVIOUS
  <2>2. /\ c \in [reserved : Nat, consumed : Nat] /\ c.reserved = x.reserved + 1 /\ c.consumed = x.consumed
        /\ w \in [reservation : Nat, consumption : Nat, release : Nat]
        /\ w.reservation = y.reservation + 1 /\ w.consumption = y.consumption /\ w.release = y.release
    BY <1>4, <2>1
  <2>3. x.reserved + x.consumed < Allocated
    BY <1>1, <1>2, <1>5 DEF Credit!Reserved, CreditInv, OneReserves, Credit!Available
  <2>4. credits' = [credits EXCEPT ![s] = c] /\ log' = [log EXCEPT ![s] = w]
    BY <1>1, <1>2, <1>5, <2>1 DEF Credit!Reserved, CreditInv, Credit!CreditsAccounted, Credit!TypeOK
  <2>5. Counts(s, c, w)
    BY <1>3, <1>4, <2>2, <2>3, <2>4 DEF Counts
  <2>6. generation[g].step = "locked" /\ Credit!Goes(g, step) /\ UNCHANGED active
    BY <1>5 DEF Credit!Reserved
  <2> QED BY <1>1, <2>5, <2>6, CountsKeep
<1>6. CASE Credit!Consume(g, step)
  <2>1. PICK c, w : c = [reserved |-> x.reserved - 1, consumed |-> x.consumed + 1]
                    /\ w = [y EXCEPT !.consumption = y.consumption + 1]
    OBVIOUS
  <2>2. x.reserved >= 1
    BY <1>1, <1>2, <1>6 DEF Credit!Consume
  <2>3. /\ c \in [reserved : Nat, consumed : Nat] /\ c.reserved = x.reserved - 1 /\ c.consumed = x.consumed + 1
        /\ w \in [reservation : Nat, consumption : Nat, release : Nat]
        /\ w.reservation = y.reservation /\ w.consumption = y.consumption + 1 /\ w.release = y.release
    BY <1>4, <2>1, <2>2
  <2>4. credits' = [credits EXCEPT ![s] = c] /\ log' = [log EXCEPT ![s] = w]
    BY <1>1, <1>2, <1>6, <2>1 DEF Credit!Consume, CreditInv, Credit!CreditsAccounted, Credit!TypeOK
  <2>5. Counts(s, c, w) /\ c.reserved + c.consumed <= x.reserved + x.consumed
    BY <1>3, <1>4, <2>2, <2>3, <2>4 DEF Counts
  <2>6. generation[g].step = "generated" /\ Credit!Goes(g, step) /\ UNCHANGED active
    BY <1>6 DEF Credit!Consume
  <2> QED BY <1>1, <1>2, <2>5, <2>6, CountsKeep
<1>7. CASE Credit!Release(g)
  <2>1. PICK c, w : c = [x EXCEPT !.reserved = x.reserved - 1] /\ w = [y EXCEPT !.release = y.release + 1]
    OBVIOUS
  <2>2. x.reserved >= 1
    BY <1>1, <1>2, <1>7 DEF Credit!Release
  <2>3. /\ c \in [reserved : Nat, consumed : Nat] /\ c.reserved = x.reserved - 1 /\ c.consumed = x.consumed
        /\ w \in [reservation : Nat, consumption : Nat, release : Nat]
        /\ w.reservation = y.reservation /\ w.consumption = y.consumption /\ w.release = y.release + 1
    BY <1>4, <2>1, <2>2
  <2>4. credits' = [credits EXCEPT ![s] = c] /\ log' = [log EXCEPT ![s] = w]
    BY <1>1, <1>2, <1>7, <2>1 DEF Credit!Release, CreditInv, Credit!CreditsAccounted, Credit!TypeOK
  <2>5. Counts(s, c, w) /\ c.reserved + c.consumed <= x.reserved + x.consumed
    BY <1>3, <1>4, <2>2, <2>3, <2>4 DEF Counts
  <2>6. generation[g].step = "broken" /\ Credit!Goes(g, "failed") /\ UNCHANGED active
    BY <1>7 DEF Credit!Release
  <2> QED BY <1>1, <1>2, <2>5, <2>6, CountsKeep
<1> QED BY <1>5, <1>6, <1>7

\* Every step keeps the invariant.
LEMMA CreditStep ==
  ASSUME CreditAssumptions, CreditInv, [Credit!Next]_(Credit!vars)
  PROVE  CreditInv'
<1>1. CASE \/ \E s \in Subscription : Credit!Activates(s)
           \/ Credit!RunsOut \/ UNCHANGED Credit!vars
  <2>1. UNCHANGED <<credits, log, generation>> /\ active' \in Subscription \cup {Null}
    BY <1>1 DEF Credit!Activates, Credit!RunsOut, Credit!vars, CreditInv, Credit!CreditsAccounted, Credit!TypeOK
  <2> QED BY <2>1 DEF CreditInv, Credit!CreditsAccounted, Credit!TypeOK, Credit!CountersMatchLog,
                      Credit!WithinAllocation, Placed, OneReserves, Credit!Of, Credit!Available
<1>2. ASSUME NEW g \in Generation,
             \/ Credit!Ignored(g) \/ Credit!FailsTransaction(g) \/ Credit!Crashes(g)
             \/ \E step \in {"generated", "broken"} : Credit!Generated(g, step)
      PROVE  CreditInv'
  <2>1. CASE Credit!Ignored(g) \/ Credit!FailsTransaction(g) \/ Credit!Crashes(g)
    BY <2>1, UncountedKeeps DEF Credit!Ignored, Credit!FailsTransaction, Credit!Crashes
  <2>2. CASE \E step \in {"generated", "broken"} : Credit!Generated(g, step)
    BY <2>2, UncountedKeeps DEF Credit!Generated
  <2> QED BY <1>2, <2>1, <2>2
<1>3. ASSUME NEW g \in Generation,
             \/ Credit!Release(g)
             \/ \E step \in {"generating", "failed"} : Credit!Reserved(g, step)
             \/ \E step \in {"served", "broken"} : Credit!Consume(g, step)
      PROVE  CreditInv'
  BY <1>3, TransactionsCount
<1> QED BY <1>1, <1>2, <1>3, ReserveKeeps DEF Credit!Next

\* At first nothing is reserved.
LEMMA CreditsBegin == ASSUME CreditAssumptions, Credit!Init PROVE CreditInv
<1>1. Credit!TypeOK
  BY DEF Credit!Init, Credit!TypeOK
<1>2. Credit!CountersMatchLog /\ Credit!WithinAllocation
  BY DEF Credit!Init, Credit!CountersMatchLog, Credit!WithinAllocation, CreditAssumptions, Credit!AllocatedAssumption
<1>3. Placed /\ OneReserves
  BY DEF Credit!Init, Placed, OneReserves
<1> QED BY <1>1, <1>2, <1>3 DEF CreditInv, Credit!CreditsAccounted

\* However many requests reserve, consume and release a credit, fail, crash or are told nothing, the counters
\* of a subscription are what its transactions add up to, and stay within what it was allocated.
THEOREM CreditsAreAccounted == ASSUME CreditAssumptions PROVE Credit!Spec => []CreditsAccounted
<1>1. CreditInv /\ [Credit!Next]_(Credit!vars) => CreditInv'
  BY CreditStep
<1>2. CreditInv => CreditsAccounted
  BY DEF CreditInv, CreditsAccounted
<1> QED BY <1>1, <1>2, CreditsBegin, PTL DEF Credit!Spec

(***************************************************************************)
(* Offers.                                                                 *)
(***************************************************************************)
OfferAssumptions == Redeem!LimitsAssumption /\ Redeem!RowsAssumption /\ Redeem!NoneAssumption

Making == [step : {"idle", "loaded", "previewed", "locked"}, customer : Customer \cup {Null},
           price : Price \cup {Null}, terms : Terms \cup {Null}, version : 0 .. MaxVersion]

\* A booking that is being made is of a customer, and what it has read was there.
Reads(c) ==
  /\ c.step # "idle" => c.customer \in Customer /\ c.price \in Price
  /\ c.step \in {"previewed", "locked"} => c.terms \in Terms

\* The salon's lock: one booking at a time.  What was prepared still stands when it commits, but that
\* the offer may have ended meanwhile.
SalonLocked == \A a, o \in Call : making[a].step = "locked" /\ making[o].step = "locked" => a = o
Prepared(c) ==
  /\ offer.status = "ACTIVE" /\ c.price = price /\ c.terms = offer.terms
  /\ Cardinality(Redeem!Redeemed) < offer.max
  /\ Cardinality(Redeem!Of(c.customer)) < PerCustomer
LockedPrepared == \A a \in Call : making[a].step = "locked" => Prepared(making[a])

OfferInv ==
  /\ Redeem!TypeOK /\ Redeem!SameDiscount /\ \A a \in Call : Reads(making[a])
  /\ SalonLocked /\ LockedPrepared

\* Counting is the same in the instance.
LEMMA RedeemCounts == ASSUME NEW S PROVE Redeem!Cardinality(S) = Cardinality(S) /\ Redeem!IsFiniteSet(S) = IsFiniteSet(S)
BY DEF Redeem!Cardinality, Cardinality, Redeem!IsFiniteSet, IsFiniteSet

\* The owner's step, which no locked booking sees but the end of the offer.
LEMMA OwnerKeeps ==
  ASSUME OfferAssumptions, OfferInv,
         \/ Redeem!Publish \/ Redeem!Pause \/ Redeem!Ends
         \/ \E terms \in Terms, max \in 1 .. MaxRedemptions, over \in BOOLEAN : Redeem!Edit(terms, max, over)
         \/ \E p \in Price : Redeem!Reprice(p)
  PROVE  OfferInv'
<1> DEFINE Offers == [status : {"DRAFT", "ACTIVE", "PAUSED"}, terms : Terms, max : 1 .. MaxRedemptions,
                      version : 1 .. MaxVersion, over : BOOLEAN]
<1>1. offer \in Offers /\ price \in Price /\ MaxVersion \in Nat
  BY DEF OfferInv, Redeem!TypeOK, OfferAssumptions, Redeem!LimitsAssumption
<1>2. ASSUME NEW r \in Offers, Redeem!Updates(r) PROVE offer' \in Offers
  <2>1. offer' = [r EXCEPT !.version = offer.version + 1] /\ offer.version < MaxVersion
    BY <1>2 DEF Redeem!Updates
  <2> QED BY <1>1, <1>2, <2>1
<1>3. UNCHANGED <<booking, making>>
  BY DEF Redeem!Publish, Redeem!Pause, Redeem!Ends, Redeem!Edit, Redeem!Reprice, Redeem!Updates
<1>4. offer' \in Offers /\ price' \in Price
  <2>1. CASE Redeem!Publish
    <3>1. [offer EXCEPT !.status = "ACTIVE"] \in Offers /\ Redeem!Updates([offer EXCEPT !.status = "ACTIVE"])
      BY <1>1, <2>1 DEF Redeem!Publish
    <3> QED BY <1>1, <1>2, <3>1 DEF Redeem!Updates
  <2>2. CASE Redeem!Pause
    <3>1. [offer EXCEPT !.status = "PAUSED"] \in Offers /\ Redeem!Updates([offer EXCEPT !.status = "PAUSED"])
      BY <1>1, <2>2 DEF Redeem!Pause
    <3> QED BY <1>1, <1>2, <3>1 DEF Redeem!Updates
  <2>3. CASE Redeem!Ends
    BY <1>1, <2>3 DEF Redeem!Ends
  <2>4. CASE \E terms \in Terms, max \in 1 .. MaxRedemptions, over \in BOOLEAN : Redeem!Edit(terms, max, over)
    <3>1. PICK terms \in Terms, max \in 1 .. MaxRedemptions, over \in BOOLEAN : Redeem!Edit(terms, max, over)
      BY <2>4
    <3>2. PICK ends \in BOOLEAN : ends = (offer.over /\ over)
      BY <1>1
    <3>3. Redeem!Updates([offer EXCEPT !.terms = terms, !.max = max, !.over = ends])
      BY <3>1, <3>2 DEF Redeem!Edit
    <3>4. [offer EXCEPT !.terms = terms, !.max = max, !.over = ends] \in Offers
      BY <1>1
    <3> QED BY <1>1, <1>2, <3>3, <3>4 DEF Redeem!Updates
  <2>5. CASE \E p \in Price : Redeem!Reprice(p)
    BY <1>1, <2>5 DEF Redeem!Reprice
  <2> QED BY <2>1, <2>2, <2>3, <2>4, <2>5
<1>5. \/ \A a \in Call : making[a].step # "locked"
      \/ offer' = [offer EXCEPT !.over = TRUE] /\ UNCHANGED price
  BY DEF Redeem!Publish, Redeem!Pause, Redeem!Ends, Redeem!Edit, Redeem!Reprice, Redeem!Locked
<1>6. \/ \A a \in Call : making[a].step # "locked"
      \/ offer'.status = offer.status /\ offer'.terms = offer.terms /\ offer'.max = offer.max /\ UNCHANGED price
  BY <1>1, <1>5
<1>7. Redeem!TypeOK' /\ Redeem!SameDiscount' /\ \A a \in Call : Reads(making[a])'
  BY <1>3, <1>4 DEF OfferInv, Redeem!TypeOK, Redeem!SameDiscount, Redeem!Redeemed, Reads
<1>8. SalonLocked' /\ LockedPrepared'
  BY <1>3, <1>6 DEF OfferInv, SalonLocked, LockedPrepared, Prepared, Redeem!Redeemed, Redeem!Of
<1> QED BY <1>7, <1>8 DEF OfferInv

\* A booking being prepared reads, or takes the lock, or fails.
LEMMA PreparingKeeps ==
  ASSUME OfferAssumptions, OfferInv, NEW a \in Call,
         \/ \E customer \in Customer : Redeem!Load(a, customer)
         \/ Redeem!Preview(a) \/ Redeem!Lock(a) \/ Redeem!Fail(a)
  PROVE  OfferInv'
<1>1. UNCHANGED <<offer, price, booking>>
  BY DEF Redeem!Load, Redeem!Preview, Redeem!Lock, Redeem!Fail
<1>2. /\ making \in [Call -> Making] /\ making[a] \in Making /\ Reads(making[a])
      /\ making[a].version = 0 <=> making[a].step \in {"idle", "loaded"}
      /\ offer.version \in 1 .. MaxVersion /\ offer.terms \in Terms /\ price \in Price
      /\ Null \notin Customer /\ MaxVersion \in Nat
  BY DEF OfferInv, Redeem!TypeOK, Making, OfferAssumptions, Redeem!NoneAssumption, Redeem!LimitsAssumption
<1>3. PICK c \in Making :
        /\ making' = [making EXCEPT ![a] = c] /\ Reads(c) /\ (c.version = 0 <=> c.step \in {"idle", "loaded"})
        /\ c.step = "locked" => Prepared(c) /\ \A o \in Call : making[o].step # "locked"
  <2>1. CASE \E customer \in Customer : Redeem!Load(a, customer)
    <3>1. PICK customer \in Customer : Redeem!Load(a, customer)
      BY <2>1
    <3>2. Redeem!Idle \in Making /\ Redeem!Idle.version = 0
      BY <1>2 DEF Redeem!Idle, Making
    <3>3. PICK c : c = [Redeem!Idle EXCEPT !.step = "loaded", !.customer = customer, !.price = price]
      OBVIOUS
    <3>4. making' = [making EXCEPT ![a] = c]
      BY <3>1, <3>3 DEF Redeem!Load
    <3>5. c \in Making /\ c.step = "loaded" /\ c.customer = customer /\ c.price = price /\ c.version = 0
      BY <1>2, <3>2, <3>3 DEF Making
    <3> QED BY <1>2, <3>4, <3>5 DEF Reads
  <2>2. CASE Redeem!Preview(a)
    <3>1. PICK t \in Terms, v \in 0 .. MaxVersion : t = offer.terms /\ v = offer.version /\ v # 0
      BY <1>2
    <3>2. PICK c : c = [making[a] EXCEPT !.step = "previewed", !.terms = t, !.version = v]
      OBVIOUS
    <3>3. making' = [making EXCEPT ![a] = c] /\ making[a].step = "loaded"
      BY <2>2, <3>1, <3>2 DEF Redeem!Preview
    <3>4. /\ c \in Making /\ c.step = "previewed" /\ c.terms = t /\ c.version = v
          /\ c.customer = making[a].customer /\ c.price = making[a].price
      BY <1>2, <3>2 DEF Making
    <3> QED BY <1>2, <3>1, <3>3, <3>4 DEF Reads
  <2>3. CASE Redeem!Lock(a)
    <3>1. PICK c : c = [making[a] EXCEPT !.step = "locked"]
      OBVIOUS
    <3>2. /\ making' = [making EXCEPT ![a] = c] /\ making[a].step = "previewed"
          /\ price = making[a].price /\ offer.terms = making[a].terms
          /\ Redeem!Valid(making[a].customer) /\ \A o \in Call : making[o].step # "locked"
      BY <2>3, <3>1 DEF Redeem!Lock, Redeem!Locked
    <3>3. /\ c \in Making /\ c.step = "locked" /\ c.terms = making[a].terms /\ c.version = making[a].version
          /\ c.customer = making[a].customer /\ c.price = making[a].price
      BY <1>2, <3>1 DEF Making
    <3>4. Prepared(c)
      BY <3>2, <3>3, RedeemCounts DEF Prepared, Redeem!Valid
    <3> QED BY <1>2, <3>2, <3>3, <3>4 DEF Reads
  <2>4. CASE Redeem!Fail(a)
    <3>1. making' = [making EXCEPT ![a] = Redeem!Idle]
      BY <2>4 DEF Redeem!Fail
    <3>2. Redeem!Idle \in Making /\ Reads(Redeem!Idle) /\ Redeem!Idle.version = 0 /\ Redeem!Idle.step = "idle"
      BY <1>2 DEF Redeem!Idle, Making, Reads
    <3> QED BY <3>1, <3>2
  <2> QED BY <2>1, <2>2, <2>3, <2>4
<1>4. making' \in [Call -> Making] /\ making'[a] = c /\ \A o \in Call \ {a} : making'[o] = making[o]
  BY <1>2, <1>3
<1>5. Redeem!TypeOK'
  BY <1>1, <1>3, <1>4 DEF OfferInv, Redeem!TypeOK, Making, Redeem!NoBooking
<1>6. Redeem!SameDiscount' /\ \A o \in Call : Reads(making[o])'
  BY <1>1, <1>3, <1>4 DEF OfferInv, Redeem!SameDiscount, Redeem!Redeemed, Redeem!NoBooking, Reads
<1>7. SalonLocked'
  BY <1>3, <1>4 DEF OfferInv, SalonLocked
<1>8. \A x : Prepared(x)' <=> Prepared(x)
  BY <1>1 DEF Prepared, Redeem!Redeemed, Redeem!Of, Redeem!NoBooking
<1>9. LockedPrepared'
  BY <1>3, <1>4, <1>8 DEF OfferInv, LockedPrepared
<1> QED BY <1>5, <1>6, <1>7, <1>9 DEF OfferInv

\* The booking is made with what was prepared, within the limits.
LEMMA BookRedeems ==
  ASSUME OfferAssumptions, OfferInv, NEW a \in Call, NEW b \in Booking, Redeem!Book(a, b)
  PROVE  /\ OfferInv'
         /\ \A d \in Booking : Redeem!Redeems(d) =>
              /\ Cardinality(Redeem!Redeemed) + 1 <= offer.max
              /\ Cardinality(Redeem!Of(booking'[d].customer)) + 1 <= PerCustomer
              /\ offer.status = "ACTIVE" /\ booking'[d].price = price
<1>1. making[a].step = "locked" /\ booking[b] = Redeem!NoBooking /\ UNCHANGED <<offer, price>>
  BY DEF Redeem!Book
<1>2. PICK w \in Customer, p \in Price, t \in Terms :
        w = making[a].customer /\ p = making[a].price /\ t = making[a].terms
  BY <1>1 DEF OfferInv, Reads
<1>3. /\ offer.status = "ACTIVE" /\ p = price /\ t = offer.terms
      /\ Cardinality(Redeem!Redeemed) < offer.max /\ Cardinality(Redeem!Of(w)) < PerCustomer
  BY <1>1, <1>2 DEF OfferInv, LockedPrepared, Prepared
<1>4. PICK r : r = [customer |-> w, price |-> p, terms |-> t, redeemed |-> t]
  OBVIOUS
<1>5. /\ r \in [customer : Customer, price : Price, terms : Terms, redeemed : Terms]
      /\ r.customer = w /\ r.price = p /\ r.terms = t /\ r.redeemed = t
  BY <1>4
<1>6. booking' = [booking EXCEPT ![b] = r] /\ making' = [making EXCEPT ![a] = Redeem!Idle]
  BY <1>2, <1>3, <1>4 DEF Redeem!Book
<1>7. booking'[b] = r /\ \A d \in Booking \ {b} : booking'[d] = booking[d]
  BY <1>6 DEF OfferInv, Redeem!TypeOK
<1>8. Redeem!Idle \in Making /\ Reads(Redeem!Idle) /\ Redeem!Idle.version = 0 /\ Redeem!Idle.step = "idle"
  BY DEF Redeem!Idle, Making, Reads, OfferAssumptions, Redeem!LimitsAssumption
<1>9. making' \in [Call -> Making] /\ making'[a] = Redeem!Idle /\ \A o \in Call \ {a} : making'[o] = making[o]
  BY <1>6, <1>8 DEF OfferInv, Redeem!TypeOK, Making
<1>10. Redeem!TypeOK'
  <2>1. booking' \in [Booking -> [customer : Customer, price : Price, terms : Terms, redeemed : Terms] \cup {Redeem!NoBooking}]
    BY <1>5, <1>6 DEF OfferInv, Redeem!TypeOK
  <2> QED BY <1>1, <1>8, <1>9, <2>1 DEF OfferInv, Redeem!TypeOK, Making
<1>11. Redeem!SameDiscount' /\ \A o \in Call : Reads(making[o])'
  BY <1>5, <1>7, <1>8, <1>9 DEF OfferInv, Redeem!SameDiscount, Redeem!Redeemed, Redeem!NoBooking, Reads
<1>12. \A o \in Call : making'[o].step # "locked"
  BY <1>1, <1>8, <1>9 DEF OfferInv, SalonLocked
<1>13. SalonLocked' /\ LockedPrepared'
  BY <1>12 DEF SalonLocked, LockedPrepared
<1>14. Cardinality(Redeem!Redeemed) \in Nat /\ Cardinality(Redeem!Of(w)) \in Nat
  <2>1. IsFiniteSet(Booking) /\ Redeem!Redeemed \subseteq Booking /\ Redeem!Of(w) \subseteq Booking
    BY RedeemCounts DEF OfferAssumptions, Redeem!RowsAssumption, Redeem!Redeemed, Redeem!Of
  <2> QED BY <2>1, FS_Subset, FS_CardinalityType
<1>15. \A d \in Booking : Redeem!Redeems(d) => d = b
  BY <1>7 DEF Redeem!Redeems
<1>16. offer.max \in Nat /\ PerCustomer \in Nat
  BY DEF OfferInv, Redeem!TypeOK, OfferAssumptions, Redeem!LimitsAssumption
<1> QED BY <1>3, <1>5, <1>7, <1>10, <1>11, <1>13, <1>14, <1>15, <1>16 DEF OfferInv

\* Every step keeps the invariant, and redeems as the offer says.
LEMMA OfferStep ==
  ASSUME OfferAssumptions, OfferInv, [Redeem!Next]_(Redeem!vars)
  PROVE  /\ OfferInv'
         /\ [\A b \in Booking : Redeem!Redeems(b) =>
              /\ Redeem!Cardinality(Redeem!Redeemed) + 1 <= offer.max
              /\ Redeem!Cardinality(Redeem!Of(booking'[b].customer)) + 1 <= PerCustomer]_(Redeem!vars)
         /\ [\A b \in Booking : Redeem!Redeems(b) => offer.status = "ACTIVE" /\ booking'[b].price = price]_(Redeem!vars)
<1>1. ASSUME UNCHANGED booking PROVE \A b \in Booking : ~Redeem!Redeems(b)
  BY <1>1 DEF Redeem!Redeems
<1>2. CASE \/ Redeem!Publish \/ Redeem!Pause \/ Redeem!Ends
           \/ \E terms \in Terms, max \in 1 .. MaxRedemptions, over \in BOOLEAN : Redeem!Edit(terms, max, over)
           \/ \E p \in Price : Redeem!Reprice(p)
  <2>1. UNCHANGED booking
    BY <1>2 DEF Redeem!Publish, Redeem!Pause, Redeem!Ends, Redeem!Edit, Redeem!Reprice, Redeem!Updates
  <2> QED BY <1>1, <1>2, <2>1, OwnerKeeps
<1>3. CASE \E a \in Call :
             \/ \E customer \in Customer : Redeem!Load(a, customer)
             \/ Redeem!Preview(a) \/ Redeem!Lock(a) \/ Redeem!Fail(a)
  <2>1. UNCHANGED booking
    BY <1>3 DEF Redeem!Load, Redeem!Preview, Redeem!Lock, Redeem!Fail
  <2> QED BY <1>1, <1>3, <2>1, PreparingKeeps
<1>4. CASE \E a \in Call, b \in Booking : Redeem!Book(a, b)
  <2>1. /\ OfferInv'
        /\ \A d \in Booking : Redeem!Redeems(d) =>
              /\ Cardinality(Redeem!Redeemed) + 1 <= offer.max
              /\ Cardinality(Redeem!Of(booking'[d].customer)) + 1 <= PerCustomer
              /\ offer.status = "ACTIVE" /\ booking'[d].price = price
    BY <1>4, BookRedeems
  <2> QED BY <2>1, RedeemCounts
<1>5. CASE UNCHANGED Redeem!vars
  <2>1. UNCHANGED <<offer, price, booking, making>>
    BY <1>5 DEF Redeem!vars
  <2> QED BY <1>5, <2>1 DEF OfferInv, Redeem!TypeOK, Redeem!SameDiscount, Redeem!Redeemed, Reads,
                            SalonLocked, LockedPrepared, Prepared, Redeem!Of
<1> QED BY <1>2, <1>3, <1>4, <1>5 DEF Redeem!Next

\* At first nothing is booked.
LEMMA OffersBegin == ASSUME OfferAssumptions, Redeem!Init PROVE OfferInv
<1>1. \A a \in Call : making[a] = Redeem!Idle /\ making[a].step = "idle"
  BY DEF Redeem!Init, Redeem!Idle
<1>2. Redeem!Redeemed = {}
  BY DEF Redeem!Init, Redeem!Redeemed
<1>3. Redeem!TypeOK
  <2>1. MaxVersion \in Nat \ {0} /\ MaxRedemptions \in Nat
    BY DEF OfferAssumptions, Redeem!LimitsAssumption
  <2>2. offer \in [status : {"DRAFT", "ACTIVE", "PAUSED"}, terms : Terms, max : 1 .. MaxRedemptions,
                  version : 1 .. MaxVersion, over : BOOLEAN]
    <3>1. {1} \subseteq 1 .. MaxVersion
      BY <2>1
    <3> QED BY <3>1 DEF Redeem!Init
  <2>3. Redeem!Idle \in [step : {"idle", "loaded", "previewed", "locked"}, customer : Customer \cup {Null},
                        price : Price \cup {Null}, terms : Terms \cup {Null}, version : 0 .. MaxVersion]
    BY <2>1 DEF Redeem!Idle
  <2>4. \A a \in Call : making[a].version = 0
    BY <1>1 DEF Redeem!Idle
  <2> QED BY <1>1, <2>2, <2>3, <2>4 DEF Redeem!Init, Redeem!TypeOK
<1> QED BY <1>1, <1>2, <1>3 DEF OfferInv, Redeem!SameDiscount, Reads, SalonLocked, LockedPrepared

\* However an owner edits, pauses and prices while customers book: an offer is redeemed within its limits,
\* while it is offered, at the price asked, and with the discount the booking shows.
THEOREM OfferIsKept == ASSUME OfferAssumptions PROVE Redeem!Spec => OfferKept
<1>1. OfferInv /\ [Redeem!Next]_(Redeem!vars) =>
        /\ OfferInv'
        /\ [\A b \in Booking : Redeem!Redeems(b) =>
              /\ Redeem!Cardinality(Redeem!Redeemed) + 1 <= offer.max
              /\ Redeem!Cardinality(Redeem!Of(booking'[b].customer)) + 1 <= PerCustomer]_(Redeem!vars)
        /\ [\A b \in Booking : Redeem!Redeems(b) => offer.status = "ACTIVE" /\ booking'[b].price = price]_(Redeem!vars)
  BY OfferStep
<1>2. OfferInv => Redeem!TypeOK /\ Redeem!SameDiscount
  BY DEF OfferInv
<1> QED BY <1>1, <1>2, OffersBegin, PTL DEF Redeem!Spec, OfferKept, Redeem!OfferKept, Redeem!LimitsKept, Redeem!RedeemedAsOffered
==================================================================================
