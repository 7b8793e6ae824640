------------------------------ MODULE MCLedgers -------------------------------
(***************************************************************************)
(* A small instance of Ledgers.  Its three components share no state: each *)
(* behaviour is of one of them, while the others stay as they were.        *)
(***************************************************************************)
EXTENDS Ledgers, TLC

VARIABLE part  \* the component that acts in this behaviour

ASSUME Bills!TotalAssumption /\ Bills!RowsAssumption /\ Bills!NamesAssumption
ASSUME Redeem!LimitsAssumption /\ Redeem!RowsAssumption /\ Redeem!NoneAssumption
ASSUME Credit!AllocatedAssumption /\ Credit!NoneAssumption

billVars == <<row, call, answers, faults, next, invoice, payment, drawn>>
offerVars == <<offer, price, booking, making>>
creditVars == <<active, credits, log, generation>>
ledgerVars == <<part, billVars, offerVars, creditVars>>

LedgersInit ==
  /\ part \in {"invoices", "offers", "credits"}
  /\ Bills!Init /\ Redeem!Init /\ Credit!Init
  /\ part # "offers" => price = (CHOOSE p \in Price : TRUE) /\ offer.terms = (CHOOSE t \in Terms : TRUE) /\ offer.max = 1
LedgersNext ==
  \/ part = "invoices" /\ Bills!Next /\ UNCHANGED <<part, offerVars, creditVars>>
  \/ part = "offers" /\ Redeem!Next /\ UNCHANGED <<part, billVars, creditVars>>
  \/ part = "credits" /\ Credit!Next /\ UNCHANGED <<part, billVars, offerVars>>
LedgersSpec == LedgersInit /\ [][LedgersNext]_ledgerVars

\* Visits, customers and subscriptions may have the same names.
Symmetry ==
  Permutations(InvoiceKey) \cup Permutations(Call) \cup Permutations(Visit) \cup Permutations(Invoice)
===============================================================================
