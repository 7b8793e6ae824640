---------------------------------- MODULE Door ----------------------------------
(***************************************************************************)
(* How customers come in: into a shop's queue (QueueJoin), and into their  *)
(* accounts, with a code sent to their phone (OneTimeCodes) and then with  *)
(* the tokens of a session (Sessions).                                     *)
(***************************************************************************)
EXTENDS QueueJoin

CONSTANTS Phone, Purpose, Subject, Code, Ttl, Cooldown, Window, WindowMax, Day, DayMax, Budget, MaxTries, MaxNow,
          Login, Token, Audience

VARIABLES
  now, otp, send, asking, accepted,     \* of OneTimeCodes
  account, held, entered, token, using  \* of Sessions

Codes == INSTANCE OneTimeCodes WITH call <- asking
User == INSTANCE Sessions WITH call <- using

\* A phone has one open code for a purpose and a user; it is accepted once, not after another was sent
\* in its place, nor after too many wrong ones, nor after the account was deleted (OtpService).
CodesKept == Codes!CodesKept

\* No phone is sent more codes than the limits say since an account with it was last deleted, nor are
\* all of them together, deleted or not, in any window of time.
SendsLimited == Codes!SendsLimited

\* A login is one session, of the audience it was for, whoever presents its tokens at a time or again
\* (TokenService).
LoginIsOneSession == User!LoginIsOneSession
================================================================================
