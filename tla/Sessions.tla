------------------------------- MODULE Sessions -------------------------------
(***************************************************************************)
(* TokenService: the sessions of one user.  A login on some surface (its   *)
(* audience) issues a refresh token; presenting the token claims it, reads *)
(* the user's roles again and issues another in its place.  Meanwhile the  *)
(* user logs out here or everywhere, gains and loses roles, or deletes the *)
(* account.                                                                *)
(***************************************************************************)
EXTENDS Naturals, FiniteSets

CONSTANTS Login,     \* the times the user logs in
          Token,     \* the RefreshToken rows that may be made
          Audience,  \* the login surfaces, of CUSTOMER, STAFF and ADMIN
          Call, None

AudienceAssumption == Audience \subseteq {"CUSTOMER", "STAFF", "ADMIN"}
NoneAssumption == None \notin Login \cup Token \cup Audience

VARIABLES
  account,  \* whether the account is not deleted
  held,     \* the audiences for which the user has a role
  entered,  \* history: the audience of each login
  token,    \* the RefreshToken rows, each with the login it goes back to
  call      \* logins and exchanges in flight

vars == <<account, held, entered, token, call>>

NoToken == [status |-> "absent", login |-> None, audience |-> None]
Idle == [step |-> "idle", token |-> None, login |-> None, audience |-> None]

Init ==
  /\ account = TRUE
  /\ held \in SUBSET Audience
  /\ entered = [l \in Login |-> None]
  /\ token = [t \in Token |-> NoToken]
  /\ call = [a \in Call |-> Idle]

Live == {t \in Token : token[t].status = "live"}
Ended(ts, status) == token' = [t \in Token |-> IF t \in ts THEN [token[t] EXCEPT !.status = status] ELSE token[t]]
Goes(a, c) == call' = [call EXCEPT ![a] = c]

\* A login reads the roles; one with a customer's phone gives the customer's role to who lacks it.
LogsIn(a, l, x) ==
  /\ account /\ call[a] = Idle /\ entered[l] = None
  /\ x = "CUSTOMER" \/ x \in held
  /\ held' = held \cup {x}
  /\ entered' = [entered EXCEPT ![l] = x]
  /\ Goes(a, [step |-> "issuing", token |-> None, login |-> l, audience |-> x])
  /\ UNCHANGED <<account, token>>

\* issueTokenPair, after a login or an exchange.
Issue(a, t) ==
  /\ call[a].step = "issuing" /\ token[t] = NoToken
  /\ token' = [token EXCEPT ![t] = [status |-> "live", login |-> call[a].login, audience |-> call[a].audience]]
  /\ Goes(a, Idle)
  /\ UNCHANGED <<account, held, entered>>

ClaimByHash(a, t) ==
  /\ call[a] = Idle /\ token[t].status \in {"live", "revoked"}
  /\ Ended({t}, "revoked")
  /\ Goes(a, [step |-> "claimed", token |-> t, login |-> token[t].login, audience |-> None])
  /\ UNCHANGED <<account, held, entered>>
\* rotateRefreshToken revokes the token that is presented, if it is neither revoked nor expired.
Claim(a, t) ==
  /\ call[a] = Idle /\ t \in Live
  /\ Ended({t}, "revoked")
  /\ Goes(a, [step |-> "claimed", token |-> t, login |-> token[t].login, audience |-> None])
  /\ UNCHANGED <<account, held, entered>>

\* ... and reads its row with the roles of now: they must still include one of the token's audience.
Scope(a) ==
  LET t == call[a].token IN
  /\ call[a].step = "claimed"
  /\ token[t].status # "deleted" /\ token[t].audience \in held
  /\ Goes(a, [call[a] EXCEPT !.step = "issuing", !.audience = token[t].audience])
  /\ UNCHANGED <<account, held, entered, token>>

\* A refusal, an error, a crash: the token that was claimed stays revoked.
Fails(a) ==
  /\ call[a] # Idle
  /\ Goes(a, Idle)
  /\ UNCHANGED <<account, held, entered, token>>

\* logout, revokeSession; expiresAt passes.
EndsOne(t, status) ==
  /\ t \in Live /\ status \in {"revoked", "expired"}
  /\ Ended({t}, status)
  /\ UNCHANGED <<account, held, entered, call>>

\* logoutAll, a new password, a suspension, a phone that is linked.
RevokeAll ==
  /\ Live # {} /\ Ended(Live, "revoked")
  /\ UNCHANGED <<account, held, entered, call>>

\* A role is granted; an administrator's begins with new sessions.
Gains(x) ==
  /\ account /\ x \in Audience \ held
  /\ held' = held \cup {x}
  /\ IF x = "ADMIN" THEN Ended(Live, "revoked") ELSE UNCHANGED token
  /\ UNCHANGED <<account, entered, call>>

\* The last role of an audience is taken away: a barber's sessions of that audience end, all of an administrator's.
Loses(x) ==
  /\ x \in held \ {"CUSTOMER"}
  /\ held' = held \ {x}
  /\ Ended({t \in Live : x = "ADMIN" \/ token[t].audience = x}, "revoked")
  /\ UNCHANGED <<account, entered, call>>

\* deleteCustomerAccount removes the rows of tokens that exist.
DeleteAccount ==
  /\ account /\ held = {"CUSTOMER"}
  /\ account' = FALSE /\ held' = {}
  /\ Ended({t \in Token : token[t] # NoToken}, "deleted")
  /\ UNCHANGED <<entered, call>>

Next ==
  \/ \E a \in Call :
       \/ Scope(a) \/ Fails(a)
       \/ \E t \in Token : Issue(a, t) \/ Claim(a, t)
       \/ \E l \in Login, x \in Audience : LogsIn(a, l, x)
  \/ \E t \in Token, status \in {"revoked", "expired"} : EndsOne(t, status)
  \/ \E x \in Audience : Gains(x) \/ Loses(x)
  \/ RevokeAll \/ DeleteAccount

Spec == Init /\ [][Next]_vars

(***************************************************************************)
(* Properties.                                                             *)
(***************************************************************************)
\* Every variable holds a value of its type.
TypeOK ==
  /\ account \in BOOLEAN /\ held \subseteq Audience
  /\ entered \in [Login -> Audience \cup {None}]
  /\ token \in [Token -> [status : {"absent", "live", "revoked", "expired", "deleted"},
                          login : Login \cup {None}, audience : Audience \cup {None}]]
  /\ call \in [Call -> [step : {"idle", "issuing", "claimed"}, token : Token \cup {None},
                        login : Login \cup {None}, audience : Audience \cup {None}]]

\* A login is one session, however many requests present its tokens at a time or again: one token of it
\* is live, or one exchange is under way.
OneSessionPerLogin ==
  \A l \in Login :
    Cardinality({t \in Live : token[t].login = l}) + Cardinality({a \in Call : call[a].login = l}) <= 1

\* A session keeps the audience of its login, whatever roles its user has gained since.
AudienceIsKept ==
  /\ \A t \in Token : token[t] # NoToken => token[t].audience = entered[token[t].login]
  /\ \A a \in Call : call[a].step = "issuing" => call[a].audience = entered[call[a].login]

\* A login is one session, of the audience it was for, whoever presents its tokens at a time or again.
LoginIsOneSession == TypeOK /\ OneSessionPerLogin /\ AudienceIsKept
================================================================================
