------------------------------ MODULE JobQueue ------------------------------
(***************************************************************************)
(* What the outbox promises about each job while nobody requeues it: the   *)
(* handler is called at least once and only for a job that is still open,  *)
(* a job is completed only when a call has resolved and given up only when *)
(* its attempts failed or one was terminal, and then it is let alone.      *)
(* A completion that was not acknowledged is no completion to the worker:  *)
(* the job counts as failed and may be tried again.                        *)
(***************************************************************************)
EXTENDS Naturals

CONSTANTS Jobs, MaxRetry

VARIABLES
  phase,      \* "absent", "open", "completed" or "dead_lettered"
  delivered,  \* jobs a call of the handler has resolved for
  failures,   \* failed attempts, up to MaxRetry
  fatal,      \* jobs an attempt of which failed for good
  unacked     \* jobs with a completion that was not acknowledged

vars == <<phase, delivered, failures, fatal, unacked>>

Init ==
  /\ phase = [j \in Jobs |-> "absent"]
  /\ delivered = {} /\ fatal = {} /\ unacked = {}
  /\ failures = [j \in Jobs |-> 0]

Moves(j, from, to) == phase[j] = from /\ phase' = [phase EXCEPT ![j] = to]

Unsettled(j) ==
  \/ phase[j] = "open"
  \/ phase[j] = "completed" /\ j \in unacked

CountFailure(j) ==
  failures' = [failures EXCEPT ![j] = IF @ < MaxRetry[j] THEN @ + 1 ELSE @]

Enqueue(j) ==
  /\ Moves(j, "absent", "open")
  /\ UNCHANGED <<delivered, failures, fatal, unacked>>

Deliver(j) ==
  /\ phase[j] = "open"
  /\ delivered' = delivered \cup {j}
  /\ UNCHANGED <<phase, failures, fatal, unacked>>

Fail(j) ==
  /\ phase[j] = "open"
  /\ CountFailure(j)
  /\ UNCHANGED <<phase, delivered, fatal, unacked>>

FailForGood(j) ==
  /\ phase[j] = "open"
  /\ fatal' = fatal \cup {j}
  /\ UNCHANGED <<phase, delivered, failures, unacked>>

Complete(j) ==
  /\ j \in delivered
  /\ Moves(j, "open", "completed")
  /\ UNCHANGED <<delivered, failures, fatal, unacked>>

CompleteUnheard(j) ==
  /\ j \in delivered
  /\ \/ Moves(j, "open", "completed")
     \/ phase[j] = "open" /\ UNCHANGED phase
  /\ CountFailure(j)
  /\ unacked' = unacked \cup {j}
  /\ UNCHANGED <<delivered, fatal>>

TryAgain(j) ==
  /\ j \in unacked
  /\ Moves(j, "completed", "open")
  /\ UNCHANGED <<delivered, failures, fatal, unacked>>

GiveUp(j) ==
  /\ Unsettled(j)
  /\ j \in fatal \/ failures[j] >= MaxRetry[j]
  /\ phase' = [phase EXCEPT ![j] = "dead_lettered"]
  /\ UNCHANGED <<delivered, failures, fatal, unacked>>

Next ==
  \E j \in Jobs :
    \/ Enqueue(j) \/ Deliver(j) \/ Fail(j) \/ FailForGood(j)
    \/ Complete(j) \/ CompleteUnheard(j) \/ TryAgain(j) \/ GiveUp(j)

Spec == Init /\ [][Next]_vars
=============================================================================
