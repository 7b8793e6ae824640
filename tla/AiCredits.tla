------------------------------- MODULE AiCredits -------------------------------
(***************************************************************************)
(* AiCreditService, as StyleAdvisorService.generate uses it: the credits   *)
(* of one customer's subscriptions are reserved before a preview is        *)
(* generated, then consumed or released.  Each of the three is one         *)
(* transaction; the first reads the counters under an advisory lock and    *)
(* then writes by them, so it is two steps.  The answer to a commit may be *)
(* lost, and the process may crash between two of them.                    *)
(***************************************************************************)
EXTENDS Naturals, FiniteSets

CONSTANTS Subscription, Generation, None,
          Allocated  \* aiCreditsPerYear

AllocatedAssumption == Allocated \in Nat
NoneAssumption == None \notin Subscription

VARIABLES
  active,      \* the subscription that findFirst finds
  credits,     \* aiCreditsReserved and aiCreditsConsumed of each
  log,         \* the AiCreditTransaction rows of each, counted by type
  generation   \* the requests

vars == <<active, credits, log, generation>>

Init ==
  /\ active = None
  /\ credits = [s \in Subscription |-> [reserved |-> 0, consumed |-> 0]]
  /\ log = [s \in Subscription |-> [reservation |-> 0, consumption |-> 0, release |-> 0]]
  /\ generation = [g \in Generation |-> [step |-> "new", of |-> None]]

Goes(g, step) == generation' = [generation EXCEPT ![g].step = step]
Of(g) == generation[g].of

\* A new subscription, which no request has found yet, takes the place of the one before.
Activates(s) ==
  /\ s # active /\ \A g \in Generation : Of(g) # s
  /\ active' = s
  /\ UNCHANGED <<credits, log, generation>>
RunsOut ==
  /\ active # None /\ active' = None
  /\ UNCHANGED <<credits, log, generation>>

Available(s) == credits[s].reserved + credits[s].consumed < Allocated

ReserveUnlocked(g) ==
  /\ generation[g].step = "new"
  /\ active # None /\ Available(active)
  /\ generation' = [generation EXCEPT ![g] = [step |-> "locked", of |-> active]]
  /\ UNCHANGED <<active, credits, log>>
\* reserveCredit, under the user's advisory lock, finds a credit that is available.
Reserve(g) ==
  /\ generation[g].step = "new"
  /\ \A o \in Generation : generation[o].step # "locked"
  /\ active # None /\ Available(active)
  /\ generation' = [generation EXCEPT ![g] = [step |-> "locked", of |-> active]]
  /\ UNCHANGED <<active, credits, log>>

\* ... and takes it; if the answer is lost the request fails without releasing it.
Reserved(g, step) ==
  /\ generation[g].step = "locked" /\ step \in {"generating", "failed"}
  /\ credits' = [credits EXCEPT ![Of(g)].reserved = @ + 1]
  /\ log' = [log EXCEPT ![Of(g)].reservation = @ + 1]
  /\ Goes(g, step)
  /\ UNCHANGED active

\* The provider answers, or fails.
Generated(g, step) ==
  /\ generation[g].step = "generating" /\ step \in {"generated", "broken"}
  /\ Goes(g, step)
  /\ UNCHANGED <<active, credits, log>>

\* consumeCredit; if its answer is lost, generate catches the error and releases.
Consume(g, step) ==
  /\ generation[g].step = "generated" /\ step \in {"served", "broken"}
  /\ credits[Of(g)].reserved >= 1
  /\ credits' = [credits EXCEPT ![Of(g)] = [reserved |-> @.reserved - 1, consumed |-> @.consumed + 1]]
  /\ log' = [log EXCEPT ![Of(g)].consumption = @ + 1]
  /\ Goes(g, step)
  /\ UNCHANGED active

\* releaseCredit.
Release(g) ==
  /\ generation[g].step = "broken"
  /\ credits[Of(g)].reserved >= 1
  /\ credits' = [credits EXCEPT ![Of(g)].reserved = @ - 1]
  /\ log' = [log EXCEPT ![Of(g)].release = @ + 1]
  /\ Goes(g, "failed")
  /\ UNCHANGED active

\* With no outstanding reservation, either is ignored.
Ignored(g) ==
  /\ generation[g].step \in {"generated", "broken"} /\ credits[Of(g)].reserved = 0
  /\ Goes(g, IF generation[g].step = "generated" THEN "served" ELSE "failed")
  /\ UNCHANGED <<active, credits, log>>

\* A transaction fails: of the reservation, or the release, the request too; of the consumption, it is released.
FailsTransaction(g) ==
  /\ generation[g].step \in {"new", "locked", "generated", "broken"}
  /\ Goes(g, IF generation[g].step = "generated" THEN "broken" ELSE "failed")
  /\ UNCHANGED <<active, credits, log>>
Crashes(g) ==
  /\ generation[g].step \in {"generating", "generated", "broken"}
  /\ Goes(g, "failed")
  /\ UNCHANGED <<active, credits, log>>

Next ==
  \/ \E s \in Subscription : Activates(s)
  \/ RunsOut
  \/ \E g \in Generation :
       \/ Reserve(g) \/ Release(g) \/ Ignored(g) \/ FailsTransaction(g) \/ Crashes(g)
       \/ \E step \in {"generating", "failed"} : Reserved(g, step)
       \/ \E step \in {"generated", "broken"} : Generated(g, step)
       \/ \E step \in {"served", "broken"} : Consume(g, step)

Spec == Init /\ [][Next]_vars

(***************************************************************************)
(* Properties.                                                             *)
(***************************************************************************)
\* Every variable holds a value of its column: the reservations of a subscription are never negative.
TypeOK ==
  /\ active \in Subscription \cup {None}
  /\ credits \in [Subscription -> [reserved : Nat, consumed : Nat]]
  /\ log \in [Subscription -> [reservation : Nat, consumption : Nat, release : Nat]]
  /\ generation \in [Generation -> [step : {"new", "locked", "generating", "generated", "broken", "served", "failed"},
                                    of : Subscription \cup {None}]]

\* No subscription has more reserved and consumed than it was allocated, however many requests run
\* at a time, are settled twice, or crash.
WithinAllocation == \A s \in Subscription : credits[s].reserved + credits[s].consumed <= Allocated

\* The two counters of a subscription are what its transactions add up to.
CountersMatchLog ==
  \A s \in Subscription :
    /\ credits[s].reserved + log[s].consumption + log[s].release = log[s].reservation
    /\ credits[s].consumed = log[s].consumption

\* The two counters of a subscription are what its transactions add up to, and what is reserved and
\* consumed stays within the allocation.
CreditsAccounted == TypeOK /\ CountersMatchLog /\ WithinAllocation
================================================================================
