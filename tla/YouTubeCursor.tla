---------------------------- MODULE YouTubeCursor ----------------------------
(***************************************************************************)
(* Reading a YouTube live chat page by page: YouTubeLiveChatListConnector- *)
(* Service.run, the planner that lets it poll or not, and the cursor in    *)
(* the API process that the fixture routes guard, advance and clear.       *)
(*                                                                         *)
(* A step ends where the code awaits: the transport, a request to a route, *)
(* or the support pipeline, which stores one event of a page at a time.    *)
(* The page posted for a token has the same messages each time.            *)
(***************************************************************************)
EXTENDS Naturals, FiniteSets

CONSTANTS
  PageCount,    \* pages of the chat; page p is read with token p, 0 is null
  Events,       \* the super chats
  EventsOf,     \* the super chats on each page
  Runs,         \* callers of run, one call at a time each
  MaxCycles,    \* max_cycles
  RepeatLimit,  \* same_failure_repeat_limit
  Polls,        \* quota_budget_remaining in polls
  Classes,      \* the failure classes the transport may answer
  MaxFaults,    \* bound: transport failures and failed requests
  MaxRestarts   \* bound: restarts of the API process

ASSUME ConstantsAssumption ==
  /\ PageCount \in Nat \ {0}
  /\ EventsOf \in [0 .. PageCount - 1 -> SUBSET Events]
  /\ MaxCycles \in 1 .. 5 /\ RepeatLimit \in 1 .. 2
  /\ Polls \in Nat /\ MaxFaults \in Nat /\ MaxRestarts \in Nat
  /\ "none" \notin Classes

Pages == 0 .. PageCount - 1

\* Classes after which the planner schedules no call.
Blockers == {"network_forbidden", "real_api_not_configured", "oauth_missing",
             "live_chat_ended", "live_chat_disabled", "live_chat_not_found"}

VARIABLES
  cursor,     \* the cursor's state in the API process
  persisted,  \* stored support events
  run,        \* each caller's progress in run and in its request
  streak,     \* history: same transport failures in a row
  faults, restarts

vars == <<cursor, persisted, run, streak, faults, restarts>>

NoFailure == [class |-> "none", count |-> 0]

NewCursor == [next |-> 0, status |-> "not_started", ingested |-> 0, seen |-> {},
              results |-> {}, failure |-> NoFailure]

Idle == [pc |-> "idle", next |-> 0, caughtUp |-> FALSE, failure |-> NoFailure,
         cycles |-> 0, polls |-> 0, todo |-> {}, applied |-> {}]

Init ==
  /\ cursor = NewCursor
  /\ persisted = {}
  /\ run = [r \in Runs |-> Idle]
  /\ streak = NoFailure
  /\ faults = 0 /\ restarts = 0

At(r, pc) == run[r].pc = pc

Become(r, state) == run' = [run EXCEPT ![r] = state]

\* One more failure of this class, or the first.
Again(failure, c) ==
  [class |-> c, count |-> IF failure.class = c THEN failure.count + 1 ELSE 1]

-----------------------------------------------------------------------------
(* The connector.                                                          *)

\* Mutant: one failure is enough to stop polling.
Allowed_NoRetry(l) ==
  /\ l.cycles < MaxCycles
  /\ l.polls > 0
  /\ l.failure.count < 1

\* planYouTubeLiveChatQuotaPolling, with the loop condition of run.
Allowed(l) ==
  /\ l.cycles < MaxCycles
  /\ l.polls > 0
  /\ l.failure.count < 2
  /\ l.failure.class \notin Blockers

\* Mutant: the next cycle starts without asking the planner.
NextCycle_NotPlanned(l) == [l EXCEPT !.pc = "list", !.polls = @ - 1]

\* The next cycle, or the end of the run.
NextCycle(l) == IF Allowed(l) THEN [l EXCEPT !.pc = "list", !.polls = @ - 1] ELSE Idle

\* Mutant: the failure state kept on the cursor is not taken up.
Observe_ForgetsFailure(r) ==
  /\ At(r, "idle")
  /\ cursor.status # "caught_up_fixture"
  /\ Become(r, NextCycle([Idle EXCEPT !.next = cursor.next, !.polls = Polls]))
  /\ UNCHANGED <<cursor, persisted, streak, faults, restarts>>

Observe(r) ==
  /\ At(r, "idle")
  /\ cursor.status # "caught_up_fixture"
  /\ Become(r, NextCycle([Idle EXCEPT
       !.next = cursor.next, !.failure = cursor.failure, !.polls = Polls]))
  /\ UNCHANGED <<cursor, persisted, streak, faults, restarts>>

ListSucceeds(r) ==
  /\ At(r, "list")
  /\ Become(r, [run[r] EXCEPT !.pc = "post", !.cycles = @ + 1])
  /\ streak' = NoFailure
  /\ UNCHANGED <<cursor, persisted, faults, restarts>>

ListFails(r, c) ==
  /\ At(r, "list")
  /\ faults < MaxFaults
  /\ faults' = faults + 1
  /\ Become(r, [run[r] EXCEPT !.pc = "report", !.failure = Again(@, c)])
  /\ streak' = Again(streak, c)
  /\ UNCHANGED <<cursor, persisted, restarts>>

\* updateConnectorFailureState; every failure ends the run, as a repeated
\* failure, as a back-off or as a block.
Report(r) ==
  /\ At(r, "report")
  /\ cursor' = [cursor EXCEPT !.failure = run[r].failure]
  /\ Become(r, Idle)
  /\ UNCHANGED <<persisted, streak, faults, restarts>>

\* clearConnectorFailureState, and the loop goes on unless the chat is read.
Clear(r) ==
  /\ At(r, "clear")
  /\ cursor' = [cursor EXCEPT !.failure = NoFailure]
  /\ Become(r, IF run[r].next = 0 \/ run[r].caughtUp THEN Idle ELSE NextCycle(run[r]))
  /\ UNCHANGED <<persisted, streak, faults, restarts>>

-----------------------------------------------------------------------------
(* POST .../pages/ingest.                                                  *)

Page(r) == run[r].next

\* What run keeps of the cursor in the answer.
Answered(l, c) ==
  [l EXCEPT !.pc = "clear", !.next = c.next, !.caughtUp = c.status = "caught_up_fixture",
            !.failure = NoFailure, !.todo = {}, !.applied = {}]

\* advanceYouTubeLiveChatFixtureCursorPage: whatever the cursor is by now.
Advanced(c, p, events) ==
  [next |-> (p + 1) % PageCount,
   status |-> IF p + 1 < PageCount THEN "page_ingested" ELSE "caught_up_fixture",
   ingested |-> c.ingested + 1,
   seen |-> c.seen \cup events \cup EventsOf[p],
   results |-> c.results \cup {p},
   failure |-> NoFailure]

Replay(r) ==
  /\ At(r, "post")
  /\ Page(r) \in cursor.results
  /\ Become(r, Answered(run[r], cursor))
  /\ UNCHANGED <<cursor, persisted, streak, faults, restarts>>

\* guardYouTubeLiveChatFixturePageToken.
Expected(p) == cursor.next = p

PageBlocked(r) ==
  /\ At(r, "post")
  /\ Page(r) \notin cursor.results /\ ~Expected(Page(r))
  /\ Become(r, Idle)
  /\ UNCHANGED <<cursor, persisted, streak, faults, restarts>>

\* A page whose events were all seen is ingested without an await.
Accept(r) ==
  LET todo == EventsOf[Page(r)] \ cursor.seen
  IN /\ At(r, "post")
     /\ Page(r) \notin cursor.results /\ Expected(Page(r))
     /\ IF todo = {}
        THEN /\ cursor' = Advanced(cursor, Page(r), {})
             /\ Become(r, Answered(run[r], cursor'))
        ELSE /\ Become(r, [run[r] EXCEPT !.pc = "apply", !.todo = todo])
             /\ UNCHANGED cursor
     /\ UNCHANGED <<persisted, streak, faults, restarts>>

\* applySupportReceived, which stores an event once.
Apply(r, e) ==
  /\ At(r, "apply") /\ e \in run[r].todo
  /\ persisted' = persisted \cup {e}
  /\ Become(r, [run[r] EXCEPT !.todo = @ \ {e}, !.applied = @ \cup {e}])
  /\ UNCHANGED <<cursor, streak, faults, restarts>>

\* Mutant: an event that cannot be stored is passed over.
ApplyFails_GoesOn(r) ==
  /\ At(r, "apply") /\ run[r].todo # {}
  /\ faults < MaxFaults
  /\ faults' = faults + 1
  /\ \E e \in run[r].todo : Become(r, [run[r] EXCEPT !.todo = @ \ {e}])
  /\ UNCHANGED <<cursor, persisted, streak, restarts>>

\* The event may be stored all the same: applySupportReceived rejects later.
ApplyFails(r) ==
  /\ At(r, "apply") /\ run[r].todo # {}
  /\ faults < MaxFaults
  /\ faults' = faults + 1
  /\ persisted' \in {persisted \cup stored : stored \in {{}} \cup {{e} : e \in run[r].todo}}
  /\ Become(r, Idle)
  /\ UNCHANGED <<cursor, streak, restarts>>

Advance(r) ==
  /\ At(r, "apply") /\ run[r].todo = {}
  /\ cursor' = Advanced(cursor, Page(r), run[r].applied)
  /\ Become(r, Answered(run[r], cursor'))
  /\ UNCHANGED <<persisted, streak, faults, restarts>>

-----------------------------------------------------------------------------
\* DELETE .../failure-state by an operator.
OperatorClear ==
  /\ cursor.failure # NoFailure
  /\ cursor' = [cursor EXCEPT !.failure = NoFailure]
  /\ streak' = NoFailure
  /\ UNCHANGED <<persisted, run, faults, restarts>>

\* The cursor is gone and created again under the same id; requests end.
Restart ==
  /\ restarts < MaxRestarts
  /\ restarts' = restarts + 1
  /\ cursor' = NewCursor
  /\ run' = [r \in Runs |-> IF At(r, "apply") THEN Idle ELSE run[r]]
  /\ streak' = NoFailure
  /\ UNCHANGED <<persisted, faults>>

Step(r) ==
  \/ Observe(r) \/ ListSucceeds(r) \/ Report(r) \/ Clear(r)
  \/ Replay(r) \/ PageBlocked(r) \/ Accept(r) \/ (\E e \in Events : Apply(r, e)) \/ Advance(r)

Next ==
  \/ \E r \in Runs : Step(r) \/ ApplyFails(r) \/ \E c \in Classes : ListFails(r, c)
  \/ OperatorClear \/ Restart

Spec == Init /\ [][Next]_vars

\* A failure that only an operator can clear.
Stopped == cursor.failure.count = RepeatLimit \/ cursor.failure.class \in Blockers

\* Somebody runs the connector again and again, its awaits return, and an
\* operator clears a failure that stops it for good.
FairSpec ==
  /\ Spec
  /\ \A r \in Runs : WF_vars(Step(r))
  /\ WF_vars(Stopped /\ OperatorClear)

-----------------------------------------------------------------------------
Failure == [class : Classes \cup {"none"}, count : 0 .. 2]

TypeOK ==
  /\ cursor \in [next : Pages, status : {"not_started", "page_ingested", "caught_up_fixture"},
                 ingested : Nat, seen : SUBSET Events, results : SUBSET Pages, failure : Failure]
  /\ persisted \subseteq Events
  /\ run \in [Runs -> [pc : {"idle", "list", "report", "post", "apply", "clear"},
                       next : Pages, caughtUp : BOOLEAN, failure : Failure,
                       cycles : 0 .. MaxCycles, polls : 0 .. Polls,
                       todo : SUBSET Events, applied : SUBSET Events]]
  /\ streak.class \in Classes \cup {"none"} /\ streak.count \in Nat
  /\ faults \in 0 .. MaxFaults /\ restarts \in 0 .. MaxRestarts

\* The cursor passes a page only once every super chat on it is stored, also
\* when a page fails half way, is posted twice or the process restarts.
NoEventLost ==
  /\ cursor.seen \subseteq persisted
  /\ \A p \in cursor.results : EventsOf[p] \subseteq persisted

\* No two callers are reading at once.
Alone == \A r, q \in Runs : ~At(r, "idle") /\ ~At(q, "idle") => r = q

\* Where calls of run do not overlap, the transport is not called again after
\* the same failure came RepeatLimit times in a row, over however many runs
\* ("hard caps of five cycles and two repeated same failures").
RepeatsBounded == []Alone => [](streak.count <= RepeatLimit)

\* Where calls of run do not overlap, the chat is read to its end, whatever
\* failed on the way.
CatchesUp ==
  []Alone =>
    <>(cursor.status = "caught_up_fixture" /\ persisted = UNION {EventsOf[p] : p \in Pages})
=============================================================================
