---------------------------- MODULE ArrivalPrompts ----------------------------
(***************************************************************************)
(* QueueArrivalReminderService, on top of the delivery ledger: ten minutes *)
(* before the service is expected, one process claims the entry, tells the *)
(* shop's owner and the customer through the ledger, or a guest directly,  *)
(* and releases the claim when one of them could not be told.  The shop's  *)
(* changes of a booking are reported through the same ledger.              *)
(***************************************************************************)
EXTENDS Delivery

CONSTANTS Entry,      \* QueueEntry ids
          Prompter,   \* the prompt sweep of each process
          Scene,      \* bound: the entries and the shop's changes of bookings of one behaviour
          NoEntry

ASSUME EntryAssumption == Entry \X {"owner", "customer"} \subseteq Key /\ NoEntry \notin Entry
ASSUME SceneAssumption == Scene \subseteq (SUBSET Entry) \X SUBSET (Key \ (Entry \X {"owner", "customer"}))
ASSUME PrompterAssumption == Prompter \subseteq Reporter

VARIABLES
  changes,   \* the changes of bookings that the shop makes
  patron,    \* "customer" has customerId, "guest" a ticket
  waiting,   \* the entries that are WAITING, their customers not arrived
  tokens,    \* guestExpoPushToken is set
  prompted,  \* arrivalPromptSentAt is set
  round,     \* the entry a prompter has claimed, and who is still to be told
  lost       \* history: the entries whose prompter died

prompts == <<changes, patron, waiting, tokens, prompted, round, lost>>
vars == <<inApp, ledger, attempt, failed, listed, accepted, slips, faults,
          changes, patron, waiting, tokens, prompted, round, lost>>

NoRound == [entry |-> NoEntry, left |-> {}]

Init ==
  /\ DeliveryInit
  /\ patron \in [Entry -> {"customer", "guest"}]
  /\ \E scene \in Scene : waiting = scene[1] /\ changes = scene[2]
  /\ tokens = {}
  /\ prompted = {}
  /\ round = [p \in Prompter |-> NoRound]
  /\ lost = {}

\* The entry is called, taken or cancelled, or its customer arrives.
Leaves(e) ==
  /\ e \in waiting
  /\ waiting' = waiting \ {e}
  /\ UNCHANGED <<delivery, changes, patron, tokens, prompted, round, lost>>

registerGuestPush(e) ==
  /\ patron[e] = "guest" /\ e \in waiting /\ e \notin tokens
  /\ tokens' = tokens \cup {e}
  /\ UNCHANGED <<delivery, changes, patron, waiting, prompted, round, lost>>

Recipients(e) == {"owner"} \cup (IF patron[e] = "customer" THEN {"customer"}
                                 ELSE IF e \in tokens THEN {"guest"} ELSE {})

\* The estimate has fallen to ten minutes, and no other process has claimed the entry.
ClaimPrompt(p, e) ==
  /\ Free(p) /\ round[p] = NoRound
  /\ e \in waiting \ prompted
  /\ prompted' = prompted \cup {e}
  /\ round' = [round EXCEPT ![p] = [entry |-> e, left |-> Recipients(e)]]
  /\ failed' = failed \ {p}
  /\ UNCHANGED <<inApp, ledger, attempt, listed, accepted, slips, faults, changes, patron, waiting, tokens, lost>>

\* Through the ledger, the owner first.
Tell(p, r) ==
  LET e == round[p].entry IN
  /\ r \in round[p].left \ {"guest"}
  /\ "owner" \in round[p].left => r = "owner"
  /\ Report(p, <<e, r>>)
  /\ round' = [round EXCEPT ![p] = [entry |-> e, left |-> round[p].left \ {r}]]
  /\ UNCHANGED <<changes, patron, waiting, tokens, prompted, lost>>

\* The guest's push has no row in the ledger: Expo accepts it, rejects the token, or fails.
TellGuest(p) ==
  LET e == round[p].entry IN
  /\ Free(p) /\ round[p].left = {"guest"}
  /\ round' = [round EXCEPT ![p] = [entry |-> e, left |-> {}]]
  /\ \/ UNCHANGED <<tokens, failed, faults>>
     \/ tokens' = tokens \ {e} /\ UNCHANGED <<failed, faults>>
     \/ Fault /\ failed' = failed \cup {p} /\ UNCHANGED tokens
  /\ UNCHANGED <<inApp, ledger, attempt, listed, accepted, slips, changes, patron, waiting, prompted, lost>>

EndRoundKept(p) ==
  /\ Free(p) /\ round[p] # NoRound /\ round[p].left = {}
  /\ round' = [round EXCEPT ![p] = NoRound]
  /\ UNCHANGED <<delivery, changes, patron, waiting, tokens, prompted, lost>>
EndRound(p) ==
  /\ Free(p) /\ round[p] # NoRound /\ round[p].left = {}
  /\ prompted' = IF p \in failed THEN prompted \ {round[p].entry} ELSE prompted
  /\ round' = [round EXCEPT ![p] = NoRound]
  /\ UNCHANGED <<delivery, changes, patron, waiting, tokens, lost>>

\* The process dies between two steps of a round: the claim stays.
PrompterDies(p) ==
  /\ Fault
  /\ round[p] # NoRound
  /\ attempt' = [attempt EXCEPT ![p] = Idle]
  /\ slips' = SlipsAfter(p)
  /\ round' = [round EXCEPT ![p] = NoRound]
  /\ lost' = lost \cup {round[p].entry}
  /\ UNCHANGED <<inApp, ledger, failed, listed, accepted, changes, patron, waiting, tokens, prompted>>

\* The shop cancels or moves a booking, and tells the customer.
Notify(c, k) ==
  /\ c \in Reporter \ Prompter /\ k \in changes
  /\ Report(c, k)
  /\ UNCHANGED prompts

Ledger(A) == A /\ UNCHANGED prompts
PromptStep(p) == (\E r \in {"owner", "customer"} : Tell(p, r)) \/ TellGuest(p) \/ EndRound(p)

Next ==
  \/ \E e \in Entry : Leaves(e) \/ registerGuestPush(e) \/ \E p \in Prompter : ClaimPrompt(p, e)
  \/ \E p \in Prompter : PromptStep(p) \/ PrompterDies(p)
  \/ \E c \in Reporter, k \in Key : Notify(c, k)
  \/ \E t \in Thread : Ledger(AttemptStep(t) \/ PushNotRecorded(t) \/ Dies(t))
  \/ \E s \in Sweeper : Ledger(SweepStep(s))
  \/ \E k \in Key : Ledger(Elapse(k) \/ Outlives(k))

Spec == Init /\ [][Next]_vars

\* Time passes, Expo answers, and every process that runs sweeps: the deadline scheduler reads when
\* the next row is due after each run and every hour.
Fairness ==
  /\ \A k \in Key : WF_vars(Ledger(Elapse(k)))
  /\ \A t \in Thread : WF_vars(Ledger(AttemptStep(t)))
  /\ \A s \in Sweeper : WF_vars(Ledger(SweepStep(s)))
FairSpec == Spec /\ Fairness

(***************************************************************************)
(* Properties.                                                             *)
(***************************************************************************)
\* Every variable holds a value of its column, and a prompter that reports has claimed the entry.
TypeOK ==
  /\ DeliveryTypeOK
  /\ changes \in SUBSET Key
  /\ patron \in [Entry -> {"customer", "guest"}]
  /\ {waiting, tokens, prompted, lost} \subseteq SUBSET Entry
  /\ round \in [Prompter -> [entry : Entry \cup {NoEntry}, left : SUBSET {"owner", "customer", "guest"}]]
  /\ \A p \in Prompter : round[p].entry = NoEntry => round[p] = NoRound /\ Free(p)

\* A prompt that stays claimed was recorded for everybody it was for, in the app and as a push: one
\* that failed for one of them is released for the next sweep, unless the process died meanwhile.
PromptIsRecorded ==
  \A e \in prompted \ lost :
    \/ \E p \in Prompter : round[p].entry = e
    \/ \A r \in {"owner", patron[e]} \ {"guest"} :
         <<e, r>> \in inApp /\ ledger[<<e, r>>] # NoRow
===============================================================================
