----------------------------- MODULE OneTimeCodes -----------------------------
(***************************************************************************)
(* OtpService: the codes sent to phones, and their verification, by        *)
(* replicas that share one clock and one database.                         *)
(*                                                                         *)
(* requestOtp is a transaction under one advisory lock, that reads the     *)
(* counters and then writes by them, and the call to the provider after    *)
(* its commit; verifyOtp is a read and one conditional update.  A replica  *)
(* may crash between any two steps.  Times are ticks; all numbers belong   *)
(* to one country calling code.  An OtpDeliveryAttempt, which the budget   *)
(* counts, goes by the code of the OtpRequest made in its transaction, and *)
(* outlives it: the deletion of an account takes a phone's OtpRequest rows *)
(* away, at any time and without the lock (whose account has the phone is  *)
(* not modelled, so it may be any phone, and any number of times).         *)
(***************************************************************************)
EXTENDS Naturals, FiniteSets

CONSTANTS Phone, Code, Call, None,
          Purpose, Subject,   \* the purposes that name a user (OWNER_LOGIN, PHONE_LINK); subjectUserId
          Ttl,        \* OTP_TTL_MINUTES
          Cooldown,   \* RESEND_COOLDOWN_SECONDS
          Window, WindowMax,  \* REQUEST_WINDOW_MINUTES, MAX_REQUESTS_PER_WINDOW
          Day, DayMax,        \* 24 hours, MAX_REQUESTS_PER_DAY
          Budget,     \* otpDeliveryLimits: sends in any 24 hours
          MaxTries,   \* MAX_VERIFY_ATTEMPTS
          MaxNow      \* bound: the ticks of a run

LimitsAssumption ==
  /\ {Ttl, Window, Day, MaxTries, MaxNow} \subseteq Nat
  /\ {Cooldown, WindowMax, DayMax, Budget} \subseteq Nat \ {0}
NoneAssumption == None \notin Phone \cup Code
RowsAssumption == IsFiniteSet(Code)

VARIABLES
  now,
  otp,      \* the OtpRequest rows: one per code, until they are deleted
  send,     \* the OtpDeliveryAttempt rows, by the code they are for
  call,     \* the requests in progress
  accepted  \* how many requests were told that a code is right

vars == <<now, otp, send, call, accepted>>

\* What a code is good for: LOGIN, or a purpose of one user.
LogIn == <<"LOGIN", None>>
Scope == {LogIn} \cup (Purpose \X Subject)

NoOtp == [phone |-> None, scope |-> LogIn, at |-> 0, open |-> FALSE, tries |-> 0]
NoSend == [status |-> "NONE", at |-> 0]
Idle == [step |-> "idle", phone |-> None, scope |-> LogIn, code |-> None, at |-> 0]

Init ==
  /\ now = 0
  /\ otp = [c \in Code |-> NoOtp]
  /\ send = [c \in Code |-> NoSend]
  /\ call = [a \in Call |-> Idle]
  /\ accepted = [c \in Code |-> 0]

Ends(a) == call' = [call EXCEPT ![a] = Idle]
Made == {c \in Code : otp[c] # NoOtp}
Sent == {c \in Code : send[c] # NoSend}

(***************************************************************************)
(* requestOtp.                                                             *)
(***************************************************************************)
To(phone) == {c \in Made : otp[c].phone = phone}
For(phone, scope) == {c \in To(phone) : otp[c].scope = scope}
\* createdAt >= now - width.
Since(rows, codes, width) == {c \in codes : rows[c].at + width >= now}

RateLimited(phone) ==
  \/ \E c \in To(phone) : otp[c].at + Cooldown > now
  \/ Cardinality(Since(otp, To(phone), Window)) >= WindowMax
  \/ Cardinality(Since(otp, To(phone), Day)) >= DayMax
  \/ Cardinality(Since(send, Sent, Day)) >= Budget

AdmitsUnlocked(a, phone, scope) ==
  /\ call[a] = Idle
  /\ ~RateLimited(phone)
  /\ call' = [call EXCEPT ![a] = [step |-> "admitted", phone |-> phone, scope |-> scope, code |-> None, at |-> now]]
  /\ UNCHANGED <<now, otp, send, accepted>>
\* The lock is free, and the counters read under it admit the request; a refusal changes nothing.
Admits(a, phone, scope) ==
  /\ call[a] = Idle
  /\ \A o \in Call : call[o].step # "admitted"
  /\ ~RateLimited(phone)
  /\ call' = [call EXCEPT ![a] = [step |-> "admitted", phone |-> phone, scope |-> scope, code |-> None, at |-> now]]
  /\ UNCHANGED <<now, otp, send, accepted>>

\* What was open for the phone, the purpose and the user is superseded, the new code and its send are
\* reserved, and the lock is released.
Persists(a, c) ==
  LET r == call[a] IN
  /\ r.step = "admitted" /\ c \notin Sent
  /\ otp' = [d \in Code |->
       IF d = c
       THEN [phone |-> r.phone, scope |-> r.scope, at |-> r.at, open |-> TRUE, tries |-> 0]
       ELSE [otp[d] EXCEPT !.open = @ /\ d \notin For(r.phone, r.scope)]]
  /\ send' = [send EXCEPT ![c] = [status |-> "RESERVED", at |-> r.at]]
  /\ call' = [call EXCEPT ![a] = [Idle EXCEPT !.step = "sending", !.code = c]]
  /\ UNCHANGED <<now, accepted>>

SendAccepted(a) ==
  /\ call[a].step = "sending"
  /\ send' = [send EXCEPT ![call[a].code].status = "ACCEPTED"]
  /\ Ends(a)
  /\ UNCHANGED <<now, otp, accepted>>

\* The provider's answer is an error, or lost: the code is withdrawn, if its row is still there, and the
\* reservation kept.
SendUnknown(a) ==
  /\ call[a].step = "sending"
  /\ otp' = [otp EXCEPT ![call[a].code].open = FALSE]
  /\ send' = [send EXCEPT ![call[a].code].status = "UNKNOWN"]
  /\ Ends(a)
  /\ UNCHANGED <<now, accepted>>

(***************************************************************************)
(* verifyOtp.                                                              *)
(***************************************************************************)
\* The newest open row of the phone, the purpose and the user is read; one that is spent or expired is
\* refused.
Reads(a, c) ==
  /\ call[a] = Idle
  /\ otp[c].open
  /\ \A d \in For(otp[c].phone, otp[c].scope) : otp[d].open => otp[d].at <= otp[c].at
  /\ otp[c].at + Ttl > now /\ otp[c].tries < MaxTries
  /\ call' = [call EXCEPT ![a] = [Idle EXCEPT !.step = "read", !.code = c]]
  /\ UNCHANGED <<now, otp, send, accepted>>

\* OTP_EXPIRED closes the row.
Expires(c) ==
  /\ otp[c].open /\ otp[c].at + Ttl <= now
  /\ otp' = [otp EXCEPT ![c].open = FALSE]
  /\ UNCHANGED <<now, send, call, accepted>>

\* The conditional update finds the row as it was read.
Stands(a) == otp[call[a].code].open /\ otp[call[a].code].tries < MaxTries

IsWrong(a) ==
  /\ call[a].step = "read" /\ Stands(a)
  /\ otp' = [otp EXCEPT ![call[a].code].tries = @ + 1]
  /\ Ends(a)
  /\ UNCHANGED <<now, send, accepted>>

IsRightUnchecked(a) ==
  /\ call[a].step = "read"
  /\ otp' = [otp EXCEPT ![call[a].code].open = FALSE]
  /\ accepted' = [accepted EXCEPT ![call[a].code] = @ + 1]
  /\ Ends(a)
  /\ UNCHANGED <<now, send>>
\* The code typed is the one that was read.
IsRight(a) ==
  /\ call[a].step = "read" /\ Stands(a)
  /\ otp' = [otp EXCEPT ![call[a].code].open = FALSE]
  /\ accepted' = [accepted EXCEPT ![call[a].code] = @ + 1]
  /\ Ends(a)
  /\ UNCHANGED <<now, send>>

\* A crash, a transaction that fails, or a code that no longer stands: nothing more is written.
GivesUp(a) ==
  /\ call[a].step # "idle"
  /\ Ends(a)
  /\ UNCHANGED <<now, otp, send, accepted>>

\* deleteCustomerAccount, of the account that has the phone: the attempts name no phone, and stay.
DeleteCustomerAccount(phone) ==
  /\ otp' = [c \in Code |-> IF c \in To(phone) THEN NoOtp ELSE otp[c]]
  /\ UNCHANGED <<now, send, call, accepted>>

Tick == now < MaxNow /\ now' = now + 1 /\ UNCHANGED <<otp, send, call, accepted>>

Next ==
  \/ \E a \in Call, phone \in Phone, scope \in Scope : Admits(a, phone, scope)
  \/ \E a \in Call, c \in Code : Persists(a, c) \/ Reads(a, c)
  \/ \E a \in Call : SendAccepted(a) \/ SendUnknown(a) \/ IsWrong(a) \/ IsRight(a) \/ GivesUp(a)
  \/ \E c \in Code : Expires(c)
  \/ \E phone \in Phone : DeleteCustomerAccount(phone)
  \/ Tick

Spec == Init /\ [][Next]_vars

(***************************************************************************)
(* Properties.                                                             *)
(***************************************************************************)
\* Every variable holds a value of its column; wrong codes are counted up to MAX_VERIFY_ATTEMPTS,
\* however many are tried at a time; a code's row came with its attempt.
TypeOK ==
  /\ now \in 0 .. MaxNow
  /\ otp \in [Code -> [phone : Phone, scope : Scope, at : 0 .. MaxNow, open : BOOLEAN, tries : 0 .. MaxTries] \cup {NoOtp}]
  /\ send \in [Code -> [status : {"RESERVED", "ACCEPTED", "UNKNOWN"}, at : 0 .. MaxNow] \cup {NoSend}]
  /\ call \in [Call -> [step : {"idle", "admitted", "sending", "read"}, phone : Phone \cup {None},
                        scope : Scope, code : Code \cup {None}, at : 0 .. MaxNow]]
  /\ accepted \in [Code -> Nat]
  /\ \A c \in Made : c \in Sent /\ send[c].at = otp[c].at

\* Of the codes of a phone for one purpose and one user, at most one can still be accepted, however
\* requests race.  A code for another user is no matter: two who link one phone may each have one.
OneOpen ==
  \A c, d \in Made :
    otp[c].open /\ otp[d].open /\ otp[c].phone = otp[d].phone /\ otp[c].scope = otp[d].scope => c = d

\* A code is accepted once, of those who type it at the same time; not after another has been sent
\* in its place, nor after as many wrong ones as are allowed, nor after the account was deleted.
AcceptedOnce ==
  [][\A c \in Code : accepted'[c] # accepted[c] =>
       /\ accepted[c] = 0 /\ c \in Made /\ otp[c].tries < MaxTries
       /\ \A d \in For(otp[c].phone, otp[c].scope) : otp[d].at <= otp[c].at]_vars

\* A phone has one open code for a purpose and a user; it is accepted once, not after another was sent
\* in its place, nor after too many wrong ones, nor after the account was deleted.
CodesKept == [](TypeOK /\ OneOpen) /\ AcceptedOnce

\* The codes sent in the time of this width that ends with c.
Until(rows, c, codes, width) == {d \in codes : rows[d].at <= rows[c].at /\ rows[d].at + width >= rows[c].at}

\* No phone is sent more than the limits say, of the codes sent to it since an account with it was last
\* deleted; and all of them together are not, deleted or not; in any window of time and however the sends end.
SendsLimited ==
  /\ \A phone \in Phone : \A c \in To(phone) :
       /\ \A d \in To(phone) \ {c} : otp[d].at <= otp[c].at => otp[d].at + Cooldown <= otp[c].at
       /\ Cardinality(Until(otp, c, To(phone), Window)) <= WindowMax
       /\ Cardinality(Until(otp, c, To(phone), Day)) <= DayMax
  /\ \A c \in Sent : Cardinality(Until(send, c, Sent, Day)) <= Budget
================================================================================
