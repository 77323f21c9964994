-------------------------- MODULE SessionContract ---------------------------
(***************************************************************************)
(* What the session service promises, without tickets, clocks, locks or    *)
(* workers: a session is admitted to its place at most once, only when the *)
(* place has room at that moment, and ends for good.                       *)
(***************************************************************************)
EXTENDS Naturals, FiniteSets

CONSTANTS SessionId, Place, NoPlace

VARIABLES
  stage,    \* "none", "pending", "open" or "ended"
  place,    \* where the session counts, fixed when it comes into being
  capacity  \* how many sessions may be open in each place

contractVars == <<stage, place, capacity>>

OpenAt(p) == {s \in SessionId : place[s] = p /\ stage[s] = "open"}

Init ==
  /\ stage = [s \in SessionId |-> "none"]
  /\ place = [s \in SessionId |-> NoPlace]
  /\ capacity \in [Place -> Nat]

Prepare(s, p) ==
  /\ stage[s] = "none"
  /\ stage' = [stage EXCEPT ![s] = "pending"]
  /\ place' = [place EXCEPT ![s] = p]
  /\ UNCHANGED capacity

\* A session prepared for place p, or one that comes into being there, opens.
Admit(s, p) ==
  /\ stage[s] = "none" \/ (stage[s] = "pending" /\ place[s] = p)
  /\ Cardinality(OpenAt(p)) < capacity[p]
  /\ stage' = [stage EXCEPT ![s] = "open"]
  /\ place' = [place EXCEPT ![s] = p]
  /\ UNCHANGED capacity

End(s) ==
  /\ stage[s] \in {"pending", "open"}
  /\ stage' = [stage EXCEPT ![s] = "ended"]
  /\ UNCHANGED <<place, capacity>>

\* Lowering a capacity ends nothing: it holds back what comes next.
Resize ==
  /\ capacity' \in [Place -> Nat]
  /\ UNCHANGED <<stage, place>>

Next ==
  \/ \E s \in SessionId, p \in Place : Prepare(s, p) \/ Admit(s, p)
  \/ \E s \in SessionId : End(s)
  \/ Resize

Spec == Init /\ [][Next]_contractVars
=============================================================================
