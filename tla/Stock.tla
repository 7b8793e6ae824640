--------------------------------- MODULE Stock ---------------------------------
(***************************************************************************)
(* A shop's stock: InventoryService, ProductCatalogService.transfer and    *)
(* ServiceUsageService over the products, their movements and the usage    *)
(* recorded for the services of a visit.                                   *)
(*                                                                         *)
(* Every transaction locks the products it writes, in the order of their   *)
(* ids; the trigger of the movements keeps the stock.  A movement or a     *)
(* line of a usage is for one unit of its product.                         *)
(***************************************************************************)
EXTENDS Integers, FiniteSets

CONSTANTS Product,  \* InventoryProduct ids, compared as the database orders them
          Work,     \* the services of the visits, by visit and service
          Usage,    \* ServiceUsage ids: bounds the usages there may ever be
          Key,      \* the Idempotency-Keys of the movements
          Request,  \* the requests, and completions, that may be in flight together
          None

ASSUME ProductAssumption == Product \subseteq Nat /\ IsFiniteSet(Product)
ASSUME WorkAssumption == IsFiniteSet(Work) /\ IsFiniteSet(Usage) /\ IsFiniteSet(Key)
ASSUME NoneAssumption == None \notin Work \cup Usage \cup Key

VARIABLES
  stock,  \* InventoryProduct.stockOnHand
  moved,  \* the manual movements of each key: a unit of each product out, and in
  usage,  \* the ServiceUsage rows; "REVERSING": claimed by an open transaction
  req     \* what each request is doing, and the products it has locked

vars == <<stock, moved, usage, req>>

NoMove == [out |-> {}, in |-> {}]
NoUsage == [status |-> "ABSENT", work |-> None, items |-> {}]
NoPlan == [w \in Work |-> {}]
Idle == [op |-> "none", step |-> "idle", plan |-> NoPlan, find |-> {}, usage |-> None,
         key |-> None, move |-> NoMove, need |-> {}, holds |-> {}]

Init ==
  /\ stock = [p \in Product |-> 0]
  /\ moved = [k \in Key |-> NoMove]
  /\ usage = [u \in Usage |-> NoUsage]
  /\ req = [r \in Request |-> Idle]

End(r) == req' = [req EXCEPT ![r] = Idle]
Begin(r, new) == req[r] = Idle /\ req' = [req EXCEPT ![r] = new]

\* What the other transactions see as RECORDED.
Recorded(u) == usage[u].status \in {"RECORDED", "REVERSING"}

(***************************************************************************)
(* Locks: SELECT ... ORDER BY "id" FOR UPDATE.                             *)
(***************************************************************************)
Free(p) == \A o \in Request : p \notin req[o].holds
Wants(r) == req[r].need \ req[r].holds

LockAny(r, p) ==
  /\ req[r].step = "lock" /\ p \in Wants(r)
  /\ Free(p)
  /\ req' = [req EXCEPT ![r].holds = @ \cup {p}]
  /\ UNCHANGED <<stock, moved, usage>>
Lock(r, p) ==
  /\ req[r].step = "lock" /\ p \in Wants(r) /\ \A q \in Wants(r) : p <= q
  /\ Free(p)
  /\ req' = [req EXCEPT ![r].holds = @ \cup {p}]
  /\ UNCHANGED <<stock, moved, usage>>

Ready(r, op) == req[r].step = "lock" /\ req[r].op = op /\ Wants(r) = {}

(***************************************************************************)
(* Movements: createMovement, of one product, and transfer, of two shelves *)
(* of one catalogue product.                                               *)
(***************************************************************************)
Applied(m) == stock' = [p \in Product |-> stock[p] + (IF p \in m.in THEN 1 ELSE 0) - (IF p \in m.out THEN 1 ELSE 0)]
InStock(m) == \A p \in m.out : stock[p] > 0

\* One transaction under the lock of its product; with a key that was used it changes nothing.
Move(k, m) ==
  /\ \A p \in m.out \cup m.in : Free(p)
  /\ moved[k] = NoMove
  /\ InStock(m)
  /\ Applied(m) /\ moved' = [moved EXCEPT ![k] = m]
  /\ UNCHANGED <<usage, req>>

\* The key is looked up before the transaction; one that was used is answered with success.
BeginTransfer(r, k, p, q) ==
  /\ moved[k] = NoMove
  /\ Begin(r, [Idle EXCEPT !.op = "transfer", !.step = "lock", !.key = k, !.need = {p, q},
                           !.move = [out |-> {p}, in |-> {q}]])
  /\ UNCHANGED <<stock, moved, usage>>

TransferShort(r) ==
  /\ Ready(r, "transfer") /\ ~InStock(req[r].move)
  /\ End(r)
  /\ UNCHANGED <<stock, moved, usage>>

\* The key was used since: the insertion fails, and the transfer counts as done.
TransferDone(r) ==
  /\ Ready(r, "transfer") /\ InStock(req[r].move) /\ moved[req[r].key] # NoMove
  /\ End(r)
  /\ UNCHANGED <<stock, moved, usage>>

Transfer(r) ==
  /\ Ready(r, "transfer") /\ InStock(req[r].move) /\ moved[req[r].key] = NoMove
  /\ Applied(req[r].move) /\ moved' = [moved EXCEPT ![req[r].key] = req[r].move]
  /\ End(r)
  /\ UNCHANGED usage

(***************************************************************************)
(* Usage: record, by a person or for a completed service (autoRecord).     *)
(***************************************************************************)
BeginRecord(r, plan) ==
  /\ plan # NoPlan
  /\ Begin(r, [Idle EXCEPT !.op = "record", !.step = "find", !.plan = plan, !.find = {w \in Work : plan[w] # {}}])
  /\ UNCHANGED <<stock, moved, usage>>

\* The services are looked up one by one: one that was recorded with the same products is done.
LookUp(r, w) ==
  /\ req[r].step = "find" /\ w \in req[r].find
  /\ LET found == {u \in Usage : Recorded(u) /\ usage[u].work = w} IN
     \/ /\ \A u \in found : usage[u].items = req[r].plan[w]
        /\ req' = [req EXCEPT ![r].find = @ \ {w}, ![r].plan[w] = IF found = {} THEN @ ELSE {}]
     \/ /\ \E u \in found : usage[u].items # req[r].plan[w]
        /\ End(r)
  /\ UNCHANGED <<stock, moved, usage>>

Found(r) ==
  /\ req[r].step = "find" /\ req[r].find = {}
  /\ \/ req[r].plan = NoPlan /\ End(r)
     \/ /\ req[r].plan # NoPlan
        /\ req' = [req EXCEPT ![r].step = "lock", ![r].need = UNION {req[r].plan[w] : w \in Work}]
  /\ UNCHANGED <<stock, moved, usage>>

Used(r, p) == Cardinality({w \in Work : p \in req[r].plan[w]})
Enough(r) == \A p \in req[r].need : stock[p] >= Used(r, p)
ToWrite(r) == {w \in Work : req[r].plan[w] # {}}

RecordShort(r) ==
  /\ Ready(r, "record") /\ ~Enough(r)
  /\ End(r)
  /\ UNCHANGED <<stock, moved, usage>>

\* One RECORDED usage per visit and service: the insertion fails, and all is rolled back.
RecordTwice(r) ==
  /\ Ready(r, "record") /\ Enough(r)
  /\ \E u \in Usage : usage[u].status = "RECORDED" /\ usage[u].work \in ToWrite(r)
  /\ End(r)
  /\ UNCHANGED <<stock, moved, usage>>

\* A usage, and a movement for each of its products, for every service that is left to write.
Write(r) ==
  /\ \E new \in [Usage -> ToWrite(r) \cup {None}] :
       /\ \A w \in ToWrite(r) : \E u \in Usage : new[u] = w
       /\ \A u, v \in Usage : new[u] = new[v] /\ new[u] # None => u = v
       /\ \A u \in Usage : new[u] # None => usage[u] = NoUsage
       /\ usage' = [u \in Usage |-> IF new[u] = None THEN usage[u]
                                    ELSE [status |-> "RECORDED", work |-> new[u], items |-> req[r].plan[new[u]]]]
  /\ stock' = [p \in Product |-> stock[p] - Used(r, p)]
  /\ End(r)
  /\ UNCHANGED moved

RecordUnindexed(r) ==
  /\ Ready(r, "record") /\ Enough(r)
  /\ Write(r)
\* The insertion of a usage waits for the transaction that is reversing another of its service.
Record(r) ==
  /\ Ready(r, "record") /\ Enough(r)
  /\ \A u \in Usage : Recorded(u) => usage[u].work \notin ToWrite(r)
  /\ Write(r)

(***************************************************************************)
(* Its correction: reverse.  The row is claimed, then the products locked. *)
(***************************************************************************)
ClaimReversed(r, u) ==
  /\ usage[u].status \in {"RECORDED", "REVERSED"}
  /\ Begin(r, [Idle EXCEPT !.op = "reverse", !.step = "lock", !.usage = u, !.need = usage[u].items])
  /\ usage' = [usage EXCEPT ![u].status = "REVERSING"]
  /\ UNCHANGED <<stock, moved>>
Claim(r, u) ==
  /\ usage[u].status = "RECORDED"
  /\ Begin(r, [Idle EXCEPT !.op = "reverse", !.step = "lock", !.usage = u, !.need = usage[u].items])
  /\ usage' = [usage EXCEPT ![u].status = "REVERSING"]
  /\ UNCHANGED <<stock, moved>>

Reverse(r) ==
  /\ Ready(r, "reverse")
  /\ usage' = [usage EXCEPT ![req[r].usage].status = "REVERSED"]
  /\ stock' = [p \in Product |-> stock[p] + (IF p \in usage[req[r].usage].items THEN 1 ELSE 0)]
  /\ End(r)
  /\ UNCHANGED moved

\* A transaction fails, times out, is the victim of a deadlock or dies with its process.
Abort(r) ==
  /\ req[r] # Idle
  /\ usage' = [u \in Usage |-> IF req[r].usage = u THEN [usage[u] EXCEPT !.status = "RECORDED"] ELSE usage[u]]
  /\ End(r)
  /\ UNCHANGED <<stock, moved>>

Single == [out : {{p} : p \in Product}, in : {{}}] \cup [out : {{}}, in : {{p} : p \in Product}]

Next ==
  \/ \E k \in Key, m \in Single : Move(k, m)
  \/ \E r \in Request :
       \/ \E k \in Key, p, q \in Product : p # q /\ BeginTransfer(r, k, p, q)
       \/ \E plan \in [Work -> SUBSET Product] : BeginRecord(r, plan)
       \/ \E u \in Usage : Claim(r, u)
       \/ \E w \in Work : LookUp(r, w)
       \/ \E p \in Product : Lock(r, p)
       \/ Found(r) \/ RecordShort(r) \/ RecordTwice(r) \/ Record(r)
       \/ TransferShort(r) \/ TransferDone(r) \/ Transfer(r)
       \/ Reverse(r) \/ Abort(r)

Spec == Init /\ [][Next]_vars

(***************************************************************************)
(* Properties.                                                             *)
(***************************************************************************)
\* Stock is never negative; rows and requests hold what they may.
TypeOK ==
  /\ stock \in [Product -> Nat]
  /\ moved \in [Key -> [out : SUBSET Product, in : SUBSET Product]]
  /\ usage \in [Usage -> [status : {"ABSENT", "RECORDED", "REVERSING", "REVERSED"},
                          work : Work \cup {None}, items : SUBSET Product]]
  /\ req \in [Request -> [op : {"none", "record", "reverse", "transfer"}, step : {"idle", "find", "lock"},
                          plan : [Work -> SUBSET Product], find : SUBSET Work, usage : Usage \cup {None},
                          key : Key \cup {None}, move : [out : SUBSET Product, in : SUBSET Product],
                          need : SUBSET Product, holds : SUBSET Product]]

\* A service of a visit has its products recorded once at most, whatever devices and the
\* completion of the service record at the same time.
RecordedOnce ==
  \A u, v \in Usage : Recorded(u) /\ Recorded(v) /\ usage[u].work = usage[v].work => u = v

\* The stock of a product is what came in, less what went out and what the recorded usages took:
\* a retry moves nothing twice, and a correction puts back what it undoes, once.
StockAccounted ==
  \A p \in Product :
    stock[p] + Cardinality({k \in Key : p \in moved[k].out}) + Cardinality({u \in Usage : Recorded(u) /\ p \in usage[u].items})
      = Cardinality({k \in Key : p \in moved[k].in})

\* A transaction that waits for the lock of a product that another holds.
AwaitsProduct(r, o) == req[r].step = "lock" /\ \E p \in req[o].holds : p \in Wants(r) /\ \A q \in Wants(r) : p <= q

\* Those who wait for products do not wait for each other.
NoLockCycle == \A S \in (SUBSET Request) \ {{}} : \E r \in S : \A o \in S : ~AwaitsProduct(r, o)
=================================================================================
