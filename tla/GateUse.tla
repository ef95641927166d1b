------------------------------- MODULE GateUse -------------------------------
(***************************************************************************)
(* What the recording of a provider apply promises: an approved manual     *)
(* gate is used once, by one job, together with both audit rows; an apply  *)
(* that failed leaves the gate alone; and nothing else changes the rows.   *)
(***************************************************************************)
CONSTANTS Gates, Jobs, Txns, GateOfJob

VARIABLES gate, job, audit

rows == <<gate, job, audit>>

Init ==
  /\ gate = [g \in Gates |-> "approved"]
  /\ job = [j \in Jobs |-> "planned"]
  /\ audit = {}

Use(j, t) ==
  /\ gate[GateOfJob[j]] = "approved" /\ job[j] = "planned"
  /\ <<t, "provider">> \notin audit
  /\ gate' = [gate EXCEPT ![GateOfJob[j]] = "used"]
  /\ job' = [job EXCEPT ![j] = "applied"]
  /\ audit' = audit \cup {<<t, "provider">>, <<t, "gate">>}

RecordFailure(j, t) ==
  /\ gate[GateOfJob[j]] = "approved" /\ job[j] = "planned"
  /\ <<t, "provider">> \notin audit
  /\ job' = [job EXCEPT ![j] = "failed"]
  /\ audit' = audit \cup {<<t, "provider">>}
  /\ UNCHANGED gate

Append(t) ==
  /\ audit' = audit \cup {<<t, "provider">>}
  /\ UNCHANGED <<gate, job>>

Next == \E t \in Txns : Append(t) \/ \E j \in Jobs : Use(j, t) \/ RecordFailure(j, t)

Spec == Init /\ [][Next]_rows
=============================================================================
