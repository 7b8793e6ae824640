-------------------------------- MODULE MCDoor --------------------------------
(***************************************************************************)
(* A small instance of Door.  Its three components share no state: each    *)
(* behaviour is of one of them, while the others stay as they were.        *)
(***************************************************************************)
EXTENDS Door, TLC

VARIABLE part  \* the component that acts in this behaviour

ASSUME Codes!LimitsAssumption /\ Codes!NoneAssumption /\ Codes!RowsAssumption
ASSUME User!AudienceAssumption /\ User!NoneAssumption

codeVars == <<now, otp, send, asking, accepted>>
userVars == <<account, held, entered, token, using>>
doorVars == <<part, vars, codeVars, userVars>>

DoorInit ==
  /\ part \in {"queue", "codes", "sessions"}
  /\ Init /\ Codes!Init /\ User!Init
  /\ part # "queue" => \A b \in Booking : booked[b].customer = None
  /\ part # "sessions" => held = {}
DoorNext ==
  \/ part = "queue" /\ Next /\ UNCHANGED <<part, codeVars, userVars>>
  \/ part = "codes" /\ Codes!Next /\ UNCHANGED <<part, vars, userVars>>
  \/ part = "sessions" /\ User!Next /\ UNCHANGED <<part, vars, codeVars>>
DoorSpec == DoorInit /\ [][DoorNext]_doorVars

\* Codes for login go to two phones; those for all purposes and users to one.
OnePhoneOrPurpose ==
  \/ \A c \in Codes!Made : otp[c].scope = Codes!LogIn
  \/ \A c, d \in Codes!Made : otp[c].phone = otp[d].phone

\* Codes and tokens may have the same names, and so may phones and logins.
Symmetry == Permutations(Entry) \cup Permutations(Code) \cup Permutations(Call) \cup Permutations(Phone)
            \cup Permutations(Subject)
===============================================================================
