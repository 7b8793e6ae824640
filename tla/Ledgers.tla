--------------------------------- MODULE Ledgers ---------------------------------
(***************************************************************************)
(* What a shop and FastQue count beside the stock: the invoices of visits  *)
(* and their payments (Invoices), the redemptions of an offer (Offers) and *)
(* the credits of a subscription (AiCredits).  They share no state.        *)
(***************************************************************************)
CONSTANTS
  Null,                                                                       \* None of all three
  InvoiceKey, Call, MaxFaults, Visit, Invoice, Total,                         \* of Invoices
  Customer, Booking, Terms, Price, MaxRedemptions, PerCustomer, MaxVersion,   \* of Offers
  Subscription, Generation, Allocated                                         \* of AiCredits

VARIABLES
  row, call, answers, faults, next, invoice, payment, drawn,  \* of Invoices
  offer, price, booking, making,                              \* of Offers
  active, credits, log, generation                            \* of AiCredits

Bills == INSTANCE Invoices WITH Key <- InvoiceKey, None <- Null
Redeem == INSTANCE Offers WITH call <- making, None <- Null
Credit == INSTANCE AiCredits WITH None <- Null

\* What is kept of the payments of an invoice never exceeds its total, and a visit has one invoice
\* that is not void (InvoicesService).
InvoicesKept == Bills!InvoicesKept

\* The numbers of the issued invoices are 1, 2, 3 and so on: none is skipped and none given twice.
NumbersConsecutive == Bills!NumbersConsecutive

\* What is reserved and consumed of a subscription stays within what it was allocated, and is what the log
\* of its transactions adds up to (AiCreditService).
CreditsAccounted == Credit!CreditsAccounted

\* No booking takes the offer past a limit; it is redeemed while it is offered and at a price the shop asks,
\* and the discount on a booking is the one its redemption records (OffersService).
OfferKept == Redeem!OfferKept
==================================================================================
