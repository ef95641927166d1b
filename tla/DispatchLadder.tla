---------------------------- MODULE DispatchLadder ----------------------------
(***************************************************************************)
(* What the reaction dispatch workflow promises its operator, whatever the *)
(* endpoints do: an item passes the gates one at a time and in order, and  *)
(* an item that was closed (refused at a gate, cancelled, or planned under *)
(* a lease that has lapsed) passes no further gate, ever.                  *)
(***************************************************************************)
EXTENDS Naturals

CONSTANT Items

\* Candidate, approval, boundary, queue, plan, dry run, adapter, simulation.
Top == 8

VARIABLES rung, closed

ladderVars == <<rung, closed>>

Init ==
  /\ rung = [k \in Items |-> 0]
  /\ closed = [k \in Items |-> FALSE]

\* A candidate may be blocked from the start.
Propose(k) ==
  /\ rung[k] = 0 /\ ~closed[k]
  /\ rung' = [rung EXCEPT ![k] = 1]
  /\ \E blocked \in BOOLEAN : closed' = [closed EXCEPT ![k] = blocked]

Climb(k) ==
  /\ rung[k] \in 1 .. Top - 1 /\ ~closed[k]
  /\ rung' = [rung EXCEPT ![k] = @ + 1]
  /\ UNCHANGED closed

\* Time closes every item whose lease it ends, so several may close at once.
Close ==
  /\ closed' \in [Items -> BOOLEAN]
  /\ \A k \in Items : closed[k] => closed'[k]
  /\ UNCHANGED rung

Next == (\E k \in Items : Propose(k) \/ Climb(k)) \/ Close

Spec == Init /\ [][Next]_ladderVars
=============================================================================
