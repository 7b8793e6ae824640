---------------------------- MODULE MCLiveQueue ----------------------------
(***************************************************************************)
(* Small instances of LiveQueue, and what a comment of the code says of it *)
(* that a run finds the code to do otherwise.                              *)
(***************************************************************************)
EXTENDS LiveQueue, Naturals, TLC

Symmetry == Permutations(Entry) \cup Permutations(Staff) \cup Permutations(Chair) \cup Permutations(Request)

\* The two instances of one run: two visits compete in a shop whose barbers stay on duty, with at most
\* one of its chairs taken by a local customer; or one barber or chair is away, under one visit.
Away == {s \in Staff : ~onDuty[s] \/ revoked[s]} \cup {c \in Chair : ~usable[c]}
TwoVisitsOrOneAway ==
  /\ Cardinality(Away \cup local) <= 1
  /\ \/ Cardinality({e \in Entry : status[e] # "ABSENT"}) <= 1
     \/ /\ Away = {}
        /\ \A r \in Request : req[r].op \notin {"release", "rows"}
        /\ \A e \in Entry : arrived[e] => session[e] # NoSession
        /\ \E e \in Entry : status[e] \in Unstarted \cup {"ABSENT", "IN_SERVICE"}

\* An assigned customer "must never stay stuck behind a barber or chair that can no longer serve
\* them": once every release has run, no assignment is to an off-duty barber or an unusable chair.
AssignedCanBeServed ==
  (\A r \in Request : req[r].op \notin {"release", "rows"})
    => \A e \in Entry : Held(e) => onDuty[staffOf[e]] /\ usable[chairOf[e]]

\* No release is cut short: neither by a crash nor by an error.
ReleasesFinish == \A r \in Request : req[r].op \in {"release", "rows"} /\ req'[r] = Idle => req[r].op = "rows" /\ req[r].held = {}
SpecReleasesFinish == Init /\ [][Next /\ ReleasesFinish]_vars
=============================================================================
