-------------------------------- MODULE Invoices --------------------------------
(***************************************************************************)
(* InvoicesService: the invoices of one shop's completed visits and the    *)
(* payments recorded on them, behind the idempotency interceptor.          *)
(*                                                                         *)
(* The update of the billing profile that draws a number, and SELECT FOR   *)
(* UPDATE on an invoice, lock their row to the end of the transaction,     *)
(* which is two steps: the second writes by what the first has read.       *)
(***************************************************************************)
EXTENDS IdempotentRequests

CONSTANTS Visit,    \* completed visits: bookings, or entries of the queue without one
          Invoice,  \* Invoice ids
          Total     \* what a visit costs

TotalAssumption == Total \in Nat \ {0}
RowsAssumption == IsFiniteSet(Key)
NamesAssumption == None \notin Key \cup Visit \cup Invoice \cup {"payment", "refund"}

VARIABLES
  next,     \* SalonBillingProfile.nextInvoiceSequence
  invoice,  \* Invoice.status, idempotencyKey and sequence, and the visit it is for
  payment,  \* the InvoicePayment rows, by their idempotencyKey
  drawn     \* the number that each transaction in progress has drawn

ledger == <<next, invoice, payment>>
vars == <<row, call, answers, faults, next, invoice, payment, drawn>>

Body == [op : {"issue"}, visit : Visit]
          \cup [op : {"payment", "refund"}, invoice : Invoice, amount : 1 .. Total]
          \cup [op : {"void"}, invoice : Invoice]

NoInvoice == [status |-> "ABSENT", visit |-> None, sequence |-> 0, key |-> None]
NoPayment == [kind |-> None, invoice |-> None, amount |-> 0]

Init ==
  /\ ProtocolInit
  /\ next = 1
  /\ invoice = [i \in Invoice |-> NoInvoice]
  /\ payment = [k \in Key |-> NoPayment]
  /\ drawn = [a \in Call |-> 0]

Protocol == UNCHANGED <<row, answers, faults>>
At(a, step, op) == call[a].step = step /\ call[a].body.op \in op
Moves(a, step) == Goes(a, step) /\ Protocol
Done(a, result) ==
  /\ call' = [call EXCEPT ![a].step = "done", ![a].result = result]
  /\ drawn' = [drawn EXCEPT ![a] = 0]
  /\ Protocol

\* The row that the transaction of a request locks.
Locked(body) == IF body.op = "issue" THEN "profile" ELSE body.invoice
Unlocked(body) == \A o \in Call : call[o].step = "locked" => Locked(call[o].body) # Locked(body)

\* The handler throws and its transaction is rolled back: a refusal, or an error.
Fails(a) ==
  /\ call[a].step \in {"running", "drafted", "locked", "lost"}
  /\ Moves(a, "failed")
  /\ drawn' = [drawn EXCEPT ![a] = 0]
  /\ UNCHANGED ledger

(***************************************************************************)
(* issue.                                                                  *)
(***************************************************************************)
\* findIssuedForSource, which the partial unique indexes make one at most.
IssuedFor(v) == {i \in Invoice : invoice[i].status = "ISSUED" /\ invoice[i].visit = v}

\* Looked up before the transaction, and after it has been lost to another.
AlreadyIssued(a) ==
  /\ At(a, "running", {"issue"}) \/ At(a, "lost", {"issue"})
  /\ \E i \in IssuedFor(call[a].body.visit) : Done(a, i)
  /\ UNCHANGED ledger

Draft(a) ==
  /\ At(a, "running", {"issue"})
  /\ IssuedFor(call[a].body.visit) = {}
  /\ Moves(a, "drafted")
  /\ UNCHANGED <<next, invoice, payment, drawn>>

NumberUnlocked(a) ==
  /\ At(a, "drafted", {"issue"})
  /\ drawn' = [drawn EXCEPT ![a] = next]
  /\ Moves(a, "locked")
  /\ UNCHANGED ledger
\* The transaction begins: the number is drawn, and the profile locked.
Number(a) ==
  /\ At(a, "drafted", {"issue"}) /\ Unlocked(call[a].body)
  /\ drawn' = [drawn EXCEPT ![a] = next]
  /\ Moves(a, "locked")
  /\ UNCHANGED ledger

\* The partial unique index on the visit, and the unique key.
Duplicate(a) ==
  \/ IssuedFor(call[a].body.visit) # {}
  \/ \E i \in Invoice : invoice[i].key = call[a].key

Issue(a, i) ==
  /\ At(a, "locked", {"issue"}) /\ ~Duplicate(a)
  /\ invoice[i] = NoInvoice
  /\ invoice' = [invoice EXCEPT ![i] = [status |-> "ISSUED", visit |-> call[a].body.visit,
                                        sequence |-> drawn[a], key |-> call[a].key]]
  /\ next' = drawn[a] + 1
  /\ Done(a, i)
  /\ UNCHANGED payment

\* P2002: the number goes back with the transaction.
IssueLoses(a) ==
  /\ At(a, "locked", {"issue"}) /\ Duplicate(a)
  /\ Moves(a, "lost")
  /\ drawn' = [drawn EXCEPT ![a] = 0]
  /\ UNCHANGED ledger

(***************************************************************************)
(* recordPayment and voidInvoice.                                          *)
(***************************************************************************)
\* The units of an invoice's total that its rows of a kind add up to: amount of them for each row.
Units(kind, i) ==
  {u \in Key \X (1 .. Total) :
     payment[u[1]].kind = kind /\ payment[u[1]].invoice = i /\ u[2] <= payment[u[1]].amount}
Paid(i) == Cardinality(Units("payment", i)) - Cardinality(Units("refund", i))

\* What is on the invoice allows it: no overpayment, no refund of what was not paid, and nothing
\* is paid on an invoice that is voided.
Allowed(body) ==
  CASE body.op = "payment" -> Paid(body.invoice) + body.amount <= Total
    [] body.op = "refund"  -> body.amount <= Paid(body.invoice)
    [] body.op = "void"    -> Paid(body.invoice) <= 0

LockStale(a) ==
  LET body == call[a].body IN
  /\ At(a, "running", {"payment", "refund", "void"})
  /\ invoice[body.invoice].status = "ISSUED" /\ Allowed(body)
  /\ Moves(a, "locked")
  /\ UNCHANGED <<next, invoice, payment, drawn>>
Lock(a) ==
  LET body == call[a].body IN
  /\ At(a, "running", {"payment", "refund", "void"}) /\ Unlocked(body)
  /\ invoice[body.invoice].status = "ISSUED" /\ Allowed(body)
  /\ Moves(a, "locked")
  /\ UNCHANGED <<next, invoice, payment, drawn>>

\* InvoicePayment.idempotencyKey is unique.
Pay(a) ==
  LET body == call[a].body IN
  /\ At(a, "locked", {"payment", "refund"})
  /\ payment[call[a].key] = NoPayment
  /\ payment' = [payment EXCEPT ![call[a].key] =
       [kind |-> body.op, invoice |-> body.invoice, amount |-> body.amount]]
  /\ Done(a, body.invoice)
  /\ UNCHANGED <<next, invoice>>

\* P2002 on a payment of this invoice: a replay.  (Of another invoice, the request fails.)
PayReplayed(a) ==
  /\ At(a, "locked", {"payment", "refund"})
  /\ payment[call[a].key].invoice = call[a].body.invoice
  /\ Done(a, call[a].body.invoice)
  /\ UNCHANGED ledger

Void(a) ==
  /\ At(a, "locked", {"void"})
  /\ invoice' = [invoice EXCEPT ![call[a].body.invoice].status = "VOID"]
  /\ Done(a, call[a].body.invoice)
  /\ UNCHANGED <<next, payment>>

\* An invoice that is voided stays so: the request is answered.
VoidAgain(a) ==
  LET body == call[a].body IN
  /\ At(a, "running", {"void"}) /\ Unlocked(body)
  /\ invoice[body.invoice].status = "VOID"
  /\ Done(a, body.invoice)
  /\ UNCHANGED ledger

(***************************************************************************)
(* The specification.                                                      *)
(***************************************************************************)
\* A request comes with a new key, or with the key and body of one whose answer it did not get.
Arrives(a, k, body) == Claim(a, k, body) /\ UNCHANGED <<next, invoice, payment, drawn>>
Again(k, body) == Replay(k, body) /\ UNCHANGED <<next, invoice, payment, drawn>>
Settles(a) == ProtocolStep(a) /\ drawn' = [drawn EXCEPT ![a] = 0] /\ UNCHANGED ledger

IssueStep(a) == AlreadyIssued(a) \/ Draft(a) \/ Number(a) \/ (\E i \in Invoice : Issue(a, i)) \/ IssueLoses(a)
PaymentStep(a) == Lock(a) \/ Pay(a) \/ PayReplayed(a) \/ Void(a) \/ VoidAgain(a)

Next ==
  \/ \E a \in Call, k \in Key, body \in Body : Arrives(a, k, body)
  \/ \E k \in Key, body \in Body : Again(k, body)
  \/ \E a \in Call : IssueStep(a) \/ PaymentStep(a) \/ Fails(a) \/ Settles(a)

Spec == Init /\ [][Next]_vars

(***************************************************************************)
(* Properties.                                                             *)
(***************************************************************************)
\* Every variable holds a value of its column, and only a transaction in progress has a number drawn.
TypeOK ==
  /\ row \in [Key -> [body : Body \cup {None}, snapshot : Invoice \cup {None}]]
  /\ call \in [Call -> [step : {"idle", "running", "drafted", "locked", "lost", "done", "failed"}, key : Key \cup {None},
                        body : Body \cup {None}, result : Invoice \cup {None}]]
  /\ answers \in [Key -> SUBSET Invoice]
  /\ faults \in Nat /\ next \in Nat \ {0}
  /\ invoice \in [Invoice -> [status : {"ABSENT", "ISSUED", "VOID"}, visit : Visit \cup {None},
                              sequence : Nat, key : Key \cup {None}]]
  /\ payment \in [Key -> [kind : {"payment", "refund", None}, invoice : Invoice \cup {None}, amount : 0 .. Total]]
  /\ drawn \in [Call -> Nat] /\ \A a \in Call : drawn[a] # 0 => call[a].step = "locked"

\* No more is kept on an invoice than it asks for and no more refunded than was paid, however
\* payments and refunds race and whatever is sent again; nothing is kept on one that is voided.
KeptWithinTotal ==
  \A i \in Invoice : Paid(i) \in 0 .. (IF invoice[i].status = "ISSUED" THEN Total ELSE 0)

\* A visit has one invoice that stands, whoever issues it and how often.
BilledOnce == \A v \in Visit : Cardinality(IssuedFor(v)) <= 1

\* The numbers of the invoices are consecutive: a failed or lost issue leaves no gap, and none is drawn twice.
Issued == {i \in Invoice : invoice[i].status # "ABSENT"}
NumbersConsecutive ==
  /\ {invoice[i].sequence : i \in Issued} = 1 .. next - 1
  /\ \A i, j \in Issued : invoice[i].sequence = invoice[j].sequence => i = j

\* What is kept of the payments of an invoice never exceeds its total, and a visit has one invoice
\* that is not void.
InvoicesKept == TypeOK /\ KeptWithinTotal /\ BilledOnce
=================================================================================
