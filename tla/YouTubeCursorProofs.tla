------------------------- MODULE YouTubeCursorProofs -------------------------
(***************************************************************************)
(* Theorems about YouTubeCursor, for any chat and any number of concurrent *)
(* runs of the connector: types and the budgets of a run, that no super    *)
(* chat is lost, and that a failure is not repeated beyond the planner's   *)
(* limit by runs that do not overlap.                                      *)
(***************************************************************************)
EXTENDS YouTubeCursor, TLAPS

CursorState ==
  [next : Pages, status : {"not_started", "page_ingested", "caught_up_fixture"},
   ingested : Nat, seen : SUBSET Events, results : SUBSET Pages, failure : Failure]

RunState ==
  [pc : {"idle", "list", "report", "post", "apply", "clear"},
   next : Pages, caughtUp : BOOLEAN, failure : Failure,
   cycles : 0 .. MaxCycles, polls : 0 .. Polls,
   todo : SUBSET Events, applied : SUBSET Events]

\* What the cursor has passed is stored.
GoodCursor(c, stored) ==
  /\ c \in CursorState
  /\ c.seen \subseteq stored
  /\ \A p \in c.results : EventsOf[p] \subseteq stored

\* A run inside its budgets; of the page it applies, what is not left to do
\* is stored, and so is what it applied.
GoodRun(l, stored) ==
  /\ l \in RunState
  /\ l.pc = "list" => l.cycles < MaxCycles /\ l.failure.count < 2
  /\ l.applied \subseteq stored
  /\ l.pc = "apply" => EventsOf[l.next] \subseteq stored \cup l.todo

IInv ==
  /\ GoodCursor(cursor, persisted)
  /\ persisted \subseteq Events
  /\ run \in [Runs -> RunState]
  /\ \A r \in Runs : GoodRun(run[r], persisted)
  /\ streak.class \in Classes \cup {"none"} /\ streak.count \in Nat
  /\ faults \in 0 .. MaxFaults /\ restarts \in 0 .. MaxRestarts

-----------------------------------------------------------------------------
(* Records.                                                                *)

LEMMA Numbers ==
  /\ PageCount \in Nat /\ PageCount > 0 /\ 0 \in Pages
  /\ MaxCycles \in Nat /\ MaxCycles > 0 /\ Polls \in Nat
  /\ NoFailure \in Failure /\ NoFailure.count = 0
BY ConstantsAssumption DEF Pages, NoFailure, Failure

LEMMA IdleGood == ASSUME NEW stored PROVE GoodRun(Idle, stored) /\ Idle \in RunState
BY Numbers DEF GoodRun, RunState, Idle

LEMMA NewCursorGood == ASSUME NEW stored PROVE GoodCursor(NewCursor, stored)
BY Numbers DEF GoodCursor, CursorState, NewCursor

\* More stored events harm nobody.
LEMMA Monotone ==
  ASSUME NEW stored, NEW more, stored \subseteq more
  PROVE  /\ \A c : GoodCursor(c, stored) => GoodCursor(c, more)
         /\ \A l : GoodRun(l, stored) => GoodRun(l, more)
BY DEF GoodCursor, GoodRun

\* The next cycle of a run keeps to the budgets.
LEMMA NextCycleGood ==
  ASSUME NEW l \in RunState, NEW stored, l.applied \subseteq stored
  PROVE  GoodRun(NextCycle(l), stored)
<1>1. CASE ~Allowed(l)
  BY <1>1, IdleGood DEF NextCycle
<1>2. CASE Allowed(l)
  <2>. DEFINE s == [l EXCEPT !.pc = "list", !.polls = @ - 1]
  <2>1. l.polls - 1 \in 0 .. Polls /\ l.cycles < MaxCycles /\ l.failure.count < 2
    BY <1>2, Numbers DEF Allowed, RunState
  <2>2. s \in RunState /\ s.pc = "list" /\ s.cycles = l.cycles /\ s.failure = l.failure /\ s.applied = l.applied
    BY <2>1 DEF RunState
  <2>3. GoodRun(s, stored)
    BY <2>1, <2>2 DEF GoodRun
  <2>. QED
    BY <1>2, <2>3 DEF NextCycle
<1>. QED
  BY <1>1, <1>2

\* What a run keeps of the cursor in an answer.
LEMMA AnsweredGood ==
  ASSUME NEW l \in RunState, NEW c \in CursorState, NEW stored
  PROVE  GoodRun(Answered(l, c), stored)
<1>1. Answered(l, c) \in RunState /\ Answered(l, c).pc = "clear" /\ Answered(l, c).applied = {}
  BY Numbers DEF Answered, RunState, CursorState
<1>. QED
  BY <1>1 DEF GoodRun

\* A cursor that advances over a page whose events are stored.
LEMMA AdvancedGood ==
  ASSUME NEW c, NEW stored, GoodCursor(c, stored), NEW p \in Pages, NEW events,
         events \subseteq stored, EventsOf[p] \subseteq stored, stored \subseteq Events
  PROVE  GoodCursor(Advanced(c, p, events), stored)
<1>1. (p + 1) % PageCount \in Pages
  BY Numbers DEF Pages
<1>2. c.ingested + 1 \in Nat
  BY DEF GoodCursor, CursorState
<1>3. Advanced(c, p, events) \in CursorState
  BY <1>1, <1>2, Numbers DEF Advanced, CursorState, GoodCursor
<1>. QED
  BY <1>3 DEF Advanced, GoodCursor

\* One caller of run moves on and nothing is lost.
LEMMA BecomeKeeps ==
  ASSUME IInv, NEW r \in Runs, NEW l, Become(r, l), persisted \subseteq persisted',
         persisted' \subseteq Events, GoodRun(l, persisted'), GoodCursor(cursor', persisted'),
         streak'.class \in Classes \cup {"none"}, streak'.count \in Nat,
         faults' \in 0 .. MaxFaults, restarts' \in 0 .. MaxRestarts
  PROVE  IInv'
<1>1. run' \in [Runs -> RunState] /\ run'[r] = l /\ \A q \in Runs \ {r} : run'[q] = run[q]
  BY DEF Become, IInv, GoodRun
<1>2. \A q \in Runs : GoodRun(run'[q], persisted')
  BY <1>1, Monotone DEF IInv
<1>. QED
  BY <1>1, <1>2 DEF IInv

\* The history of failures.
LEMMA AgainGood ==
  ASSUME NEW f, f.class \in Classes \cup {"none"}, f.count \in Nat, NEW c \in Classes
  PROVE  /\ Again(f, c).class = c /\ Again(f, c).count \in Nat
         /\ f.count < 2 => Again(f, c) \in Failure
BY DEF Again, Failure

-----------------------------------------------------------------------------
LEMMA InitGood == Init => IInv
BY Numbers, IdleGood, NewCursorGood, ConstantsAssumption DEF Init, IInv, NoFailure

\* The facts about caller r that each step starts from.
LEMMA Caller ==
  ASSUME IInv, NEW r \in Runs
  PROVE  /\ run[r] \in RunState /\ GoodRun(run[r], persisted) /\ Page(r) \in Pages
         /\ GoodCursor(cursor, persisted) /\ cursor \in CursorState /\ persisted \subseteq Events
BY DEF IInv, GoodRun, GoodCursor, RunState, Page

LEMMA ObserveKeeps == ASSUME IInv, NEW r \in Runs, Observe(r) PROVE IInv'
<1>. DEFINE l == [Idle EXCEPT !.next = cursor.next, !.failure = cursor.failure, !.polls = Polls]
<1>0. ASSUME NEW n \in Pages, NEW f \in Failure
      PROVE  LET z == [Idle EXCEPT !.next = n, !.failure = f, !.polls = Polls]
             IN  z \in RunState /\ z.applied = {}
  <2>1. ASSUME NEW i \in RunState
        PROVE  LET z == [i EXCEPT !.next = n, !.failure = f, !.polls = Polls]
               IN  z \in RunState /\ z.applied = i.applied
    <3>1. Polls \in 0 .. Polls
      BY Numbers
    <3>. QED
      BY <1>0, <3>1 DEF RunState
  <2>2. Idle \in RunState /\ Idle.applied = {}
    BY IdleGood DEF Idle
  <2>. QED
    BY <2>1, <2>2
<1>1. l \in RunState /\ l.applied = {}
  <2>1. cursor.next \in Pages /\ cursor.failure \in Failure
    BY Caller DEF CursorState
  <2>. QED
    BY <1>0, <2>1
<1>2. GoodRun(NextCycle(l), persisted)
  BY <1>1, NextCycleGood
<1>3. Become(r, NextCycle(l))
  BY DEF Observe
<1>. HIDE DEF l
<1>. QED
  BY <1>2, <1>3, BecomeKeeps, Caller DEF Observe, IInv

LEMMA ListSucceedsKeeps == ASSUME IInv, NEW r \in Runs, ListSucceeds(r) PROVE IInv'
<1>. DEFINE l == [run[r] EXCEPT !.pc = "post", !.cycles = @ + 1]
<1>1. ASSUME NEW s \in RunState, NEW n \in 0 .. MaxCycles
      PROVE  LET z == [s EXCEPT !.pc = "post", !.cycles = n]
             IN  z \in RunState /\ z.pc = "post" /\ z.applied = s.applied
  BY DEF RunState
<1>2. run[r].cycles + 1 \in 0 .. MaxCycles
  BY Caller, Numbers DEF ListSucceeds, At, GoodRun, RunState
<1>3. l \in RunState /\ l.pc = "post" /\ l.applied = run[r].applied
  BY <1>1, <1>2, Caller
<1>4. Become(r, l)
  BY DEF ListSucceeds
<1>. HIDE DEF l
<1>5. GoodRun(l, persisted)
  BY <1>3, Caller DEF GoodRun
<1>. QED
  BY <1>4, <1>5, BecomeKeeps, Caller DEF ListSucceeds, IInv, NoFailure

LEMMA ListFailsKeeps == ASSUME IInv, NEW r \in Runs, NEW c \in Classes, ListFails(r, c) PROVE IInv'
<1>. DEFINE f == Again(run[r].failure, c)
            l == [run[r] EXCEPT !.pc = "report", !.failure = f]
<1>1. ASSUME NEW s \in RunState, NEW g \in Failure
      PROVE  LET z == [s EXCEPT !.pc = "report", !.failure = g]
             IN  z \in RunState /\ z.pc = "report" /\ z.applied = s.applied
  BY DEF RunState
<1>2. run[r].failure \in Failure /\ run[r].failure.count < 2
  BY Caller DEF ListFails, At, GoodRun, RunState
<1>3. f \in Failure
  BY <1>2, AgainGood DEF Failure
<1>4. Become(r, l)
  BY DEF ListFails
<1>. HIDE DEF f
<1>5. l \in RunState /\ l.pc = "report" /\ l.applied = run[r].applied
  BY <1>1, <1>3, Caller
<1>. HIDE DEF l
<1>6. GoodRun(l, persisted)
  BY <1>5, Caller DEF GoodRun
<1>7. streak'.class \in Classes \cup {"none"} /\ streak'.count \in Nat
  BY AgainGood DEF ListFails, IInv
<1>8. faults' \in 0 .. MaxFaults
  BY ConstantsAssumption DEF ListFails, IInv
<1>. QED
  BY <1>4, <1>6, <1>7, <1>8, BecomeKeeps, Caller DEF ListFails, IInv

\* Both steps that write the failure state.
LEMMA FailureWritten ==
  ASSUME NEW c, NEW stored, GoodCursor(c, stored), NEW f \in Failure
  PROVE  GoodCursor([c EXCEPT !.failure = f], stored)
<1>1. ASSUME NEW s \in CursorState
      PROVE  LET z == [s EXCEPT !.failure = f]
             IN  z \in CursorState /\ z.seen = s.seen /\ z.results = s.results
  BY DEF CursorState
<1>. QED
  BY <1>1 DEF GoodCursor

LEMMA ReportKeeps == ASSUME IInv, NEW r \in Runs, Report(r) PROVE IInv'
<1>1. GoodCursor(cursor', persisted)
  BY FailureWritten, Caller DEF Report, RunState
<1>. QED
  BY <1>1, IdleGood, BecomeKeeps, Caller DEF Report, IInv

LEMMA ClearKeeps == ASSUME IInv, NEW r \in Runs, Clear(r) PROVE IInv'
<1>. DEFINE l == IF run[r].next = 0 \/ run[r].caughtUp THEN Idle ELSE NextCycle(run[r])
<1>1. GoodCursor(cursor', persisted)
  BY FailureWritten, Caller, Numbers DEF Clear
<1>2. GoodRun(l, persisted)
  BY IdleGood, NextCycleGood, Caller DEF GoodRun
<1>3. Become(r, l)
  BY DEF Clear
<1>. HIDE DEF l
<1>. QED
  BY <1>1, <1>2, <1>3, BecomeKeeps, Caller DEF Clear, IInv

LEMMA ReplayKeeps == ASSUME IInv, NEW r \in Runs, Replay(r) PROVE IInv'
<1>1. GoodRun(Answered(run[r], cursor), persisted)
  BY AnsweredGood, Caller
<1>. QED
  BY <1>1, BecomeKeeps, Caller DEF Replay, IInv

LEMMA PageBlockedKeeps == ASSUME IInv, NEW r \in Runs, PageBlocked(r) PROVE IInv'
BY IdleGood, BecomeKeeps, Caller DEF PageBlocked, IInv

\* The answer of an ingested page.
LEMMA AdvancedKeeps ==
  ASSUME IInv, NEW r \in Runs, NEW events, events \subseteq persisted,
         EventsOf[Page(r)] \subseteq persisted,
         cursor' = Advanced(cursor, Page(r), events), Become(r, Answered(run[r], cursor')),
         UNCHANGED <<persisted, streak, faults, restarts>>
  PROVE  IInv'
<1>1. GoodCursor(cursor', persisted)
  BY AdvancedGood, Caller
<1>2. GoodRun(Answered(run[r], cursor'), persisted)
  BY <1>1, AnsweredGood, Caller DEF GoodCursor
<1>. QED
  BY <1>1, <1>2, BecomeKeeps, Caller DEF IInv

LEMMA AcceptKeeps == ASSUME IInv, NEW r \in Runs, Accept(r) PROVE IInv'
<1>. DEFINE todo == EventsOf[Page(r)] \ cursor.seen
<1>0. EventsOf[Page(r)] \subseteq persisted \cup todo /\ todo \subseteq Events
  BY Caller, ConstantsAssumption DEF GoodCursor, Pages
<1>1. CASE todo = {}
  BY <1>0, <1>1, AdvancedKeeps DEF Accept
<1>2. CASE todo # {}
  <2>. DEFINE l == [run[r] EXCEPT !.pc = "apply", !.todo = todo]
  <2>1. ASSUME NEW s \in RunState, NEW t \in SUBSET Events
        PROVE  LET z == [s EXCEPT !.pc = "apply", !.todo = t]
               IN  z \in RunState /\ z.pc = "apply" /\ z.todo = t /\ z.applied = s.applied /\ z.next = s.next
    BY DEF RunState
  <2>2. Become(r, l) /\ cursor' = cursor
    BY <1>2 DEF Accept
  <2>. HIDE DEF todo
  <2>3. l \in RunState /\ l.pc = "apply" /\ l.todo = todo /\ l.applied = run[r].applied /\ l.next = run[r].next
    BY <1>0, <2>1, Caller
  <2>. HIDE DEF l
  <2>4. GoodRun(l, persisted)
    BY <1>0, <2>3, Caller DEF GoodRun, Page
  <2>. QED
    BY <2>2, <2>4, BecomeKeeps, Caller DEF Accept, IInv
<1>. QED
  BY <1>1, <1>2

LEMMA ApplyKeeps == ASSUME IInv, NEW r \in Runs, NEW e \in Events, Apply(r, e) PROVE IInv'
<1>. DEFINE l == [run[r] EXCEPT !.todo = @ \ {e}, !.applied = @ \cup {e}]
<1>1. ASSUME NEW s \in RunState
      PROVE  LET z == [s EXCEPT !.todo = @ \ {e}, !.applied = @ \cup {e}]
             IN  /\ z \in RunState /\ z.pc = s.pc /\ z.next = s.next
                 /\ z.todo = s.todo \ {e} /\ z.applied = s.applied \cup {e}
  BY DEF RunState
<1>2. Become(r, l)
  BY DEF Apply
<1>3. /\ l \in RunState /\ l.pc = "apply" /\ l.next = run[r].next
      /\ l.todo = run[r].todo \ {e} /\ l.applied = run[r].applied \cup {e}
  BY <1>1, Caller DEF Apply, At
<1>. HIDE DEF l
<1>4. persisted' = persisted \cup {e} /\ persisted' \subseteq Events
  BY Caller DEF Apply
<1>5. GoodRun(l, persisted')
  BY <1>3, <1>4, Caller DEF GoodRun, Apply, At
<1>6. GoodCursor(cursor', persisted')
  BY <1>4, Monotone, Caller DEF Apply
<1>. QED
  BY <1>2, <1>4, <1>5, <1>6, BecomeKeeps DEF Apply, IInv

LEMMA ApplyFailsKeeps == ASSUME IInv, NEW r \in Runs, ApplyFails(r) PROVE IInv'
<1>1. run[r].todo \subseteq Events
  BY Caller DEF RunState
<1>2. persisted \subseteq persisted' /\ persisted' \subseteq Events
  BY <1>1, Caller DEF ApplyFails
<1>3. GoodCursor(cursor', persisted')
  BY <1>2, Monotone, Caller DEF ApplyFails
<1>4. faults' \in 0 .. MaxFaults
  BY ConstantsAssumption DEF ApplyFails, IInv
<1>. QED
  BY <1>2, <1>3, <1>4, IdleGood, BecomeKeeps DEF ApplyFails, IInv

LEMMA AdvanceKeeps == ASSUME IInv, NEW r \in Runs, Advance(r) PROVE IInv'
<1>1. EventsOf[Page(r)] \subseteq persisted /\ run[r].applied \subseteq persisted
  BY Caller DEF Advance, At, GoodRun, Page
<1>. QED
  BY <1>1, AdvancedKeeps DEF Advance

LEMMA OperatorClearKeeps == ASSUME IInv, OperatorClear PROVE IInv'
<1>1. GoodCursor(cursor', persisted)
  BY FailureWritten, Numbers DEF OperatorClear, IInv
<1>. QED
  BY <1>1 DEF OperatorClear, IInv, NoFailure

LEMMA RestartKeeps == ASSUME IInv, Restart PROVE IInv'
<1>1. GoodCursor(cursor', persisted')
  BY NewCursorGood DEF Restart
<1>2. \A r \in Runs : run'[r] = Idle \/ run'[r] = run[r]
  BY DEF Restart
<1>3. run' \in [Runs -> RunState] /\ \A r \in Runs : GoodRun(run'[r], persisted)
  <2>1. \A r \in Runs : GoodRun(run'[r], persisted)
    BY <1>2, IdleGood DEF IInv
  <2>2. run' = [r \in Runs |-> run'[r]]
    BY DEF Restart
  <2>. QED
    BY <2>1, <2>2 DEF GoodRun
<1>4. restarts' \in 0 .. MaxRestarts
  BY ConstantsAssumption DEF Restart, IInv
<1>. QED
  BY <1>1, <1>3, <1>4 DEF Restart, IInv, NoFailure

LEMMA NextGood == IInv /\ [Next]_vars => IInv'
<1>. SUFFICES ASSUME IInv, [Next]_vars PROVE IInv'
  OBVIOUS
<1>1. ASSUME NEW r \in Runs, Step(r) PROVE IInv'
  BY <1>1, ObserveKeeps, ListSucceedsKeeps, ReportKeeps, ClearKeeps, ReplayKeeps, PageBlockedKeeps,
     AcceptKeeps, ApplyKeeps, AdvanceKeeps DEF Step
<1>2. ASSUME NEW r \in Runs, ApplyFails(r) \/ \E c \in Classes : ListFails(r, c) PROVE IInv'
  BY <1>2, ApplyFailsKeeps, ListFailsKeeps
<1>3. CASE UNCHANGED vars
  BY <1>3 DEF vars, IInv
<1>. QED
  BY <1>1, <1>2, <1>3, OperatorClearKeeps, RestartKeeps DEF Next

\* Types, with the cycles and polls of a run inside their budgets and a
\* failure count of at most two, for any number of runs at once.
THEOREM TypeCorrect == Spec => []TypeOK
<1>1. IInv => TypeOK
  BY DEF IInv, TypeOK, GoodCursor, CursorState, RunState
<1>. QED
  BY InitGood, NextGood, <1>1, PTL DEF Spec

\* The cursor never passes a super chat that is not stored, for any number of
\* runs, failures and restarts.
THEOREM NothingIsLost == Spec => []NoEventLost
<1>1. IInv => NoEventLost
  BY DEF IInv, NoEventLost, GoodCursor
<1>. QED
  BY InitGood, NextGood, <1>1, PTL DEF Spec

-----------------------------------------------------------------------------
(* Repeated failures, where calls of run do not overlap.                   *)

\* A failure state remembers at least the failures in a row there were.
Remembers(failure) ==
  \/ streak = NoFailure
  \/ streak.class = failure.class /\ streak.count <= failure.count

\* Whoever calls the transport remembers, and so does the cursor between runs.
StreakInv ==
  /\ \A r \in Runs :
       /\ run[r].pc \in {"list", "report"} => Remembers(run[r].failure)
       /\ run[r].pc \in {"post", "apply", "clear"} => streak = NoFailure
  /\ (\A r \in Runs : At(r, "idle")) => Remembers(cursor.failure)

\* When only caller r is not idle, its state and the cursor's decide.
LEMMA OnlyCaller ==
  ASSUME NEW r \in Runs, \A q \in Runs \ {r} : At(q, "idle")',
         (run[r].pc \in {"list", "report"} => Remembers(run[r].failure))',
         (run[r].pc \in {"post", "apply", "clear"} => streak = NoFailure)',
         (At(r, "idle") => Remembers(cursor.failure))'
  PROVE  StreakInv'
BY DEF StreakInv, At, Remembers

\* The next cycle of a run, if there is one, has its failure state.
LEMMA NextCycleRemembers ==
  ASSUME NEW l \in RunState
  PROVE  \/ NextCycle(l) = Idle
         \/ NextCycle(l).pc = "list" /\ NextCycle(l).failure = l.failure
BY DEF NextCycle, RunState

\* A call that failed once more is remembered once more.
LEMMA AgainRemembers ==
  ASSUME NEW f \in Failure, NEW c \in Classes, IInv, Remembers(f)
  PROVE  /\ Again(streak, c).class = Again(f, c).class
         /\ Again(streak, c).count <= Again(f, c).count
<1>1. f.count \in Nat /\ streak.count \in Nat
  BY DEF Failure, IInv
<1>2. CASE streak = NoFailure
  BY <1>1, <1>2, ConstantsAssumption DEF Again, NoFailure
<1>3. CASE streak.class = f.class /\ streak.count <= f.count
  BY <1>1, <1>3 DEF Again
<1>. QED
  BY <1>2, <1>3 DEF Remembers

\* A step of the only caller.
LEMMA CallerRemembers ==
  ASSUME IInv, StreakInv, Alone, Alone', NEW r \in Runs,
         Step(r) \/ ApplyFails(r) \/ \E c \in Classes : ListFails(r, c)
  PROVE  StreakInv'
<1>1. /\ run[r] \in RunState /\ cursor \in CursorState /\ Idle.pc = "idle"
      /\ run \in [Runs -> RunState]
  BY Caller DEF IInv, Idle
<1>2. PICK l : Become(r, l)
  BY DEF Step, Observe, ListSucceeds, Report, Clear, Replay, PageBlocked, Accept, Apply, Advance,
         ApplyFails, ListFails
<1>3. run'[r] = l /\ \A q \in Runs \ {r} : run'[q] = run[q]
  BY <1>1, <1>2 DEF Become
<1>4. CASE ~At(r, "idle")
  <2>1. \A q \in Runs \ {r} : At(q, "idle")'
    BY <1>3, <1>4 DEF Alone, At
  <2>2. CASE ListSucceeds(r)
    <3>1. streak' = NoFailure /\ run'[r].pc = "post"
      BY <1>1, <1>3, <2>2 DEF ListSucceeds, Become, RunState
    <3>. QED
      BY <2>1, <3>1, OnlyCaller DEF At, Remembers
  <2>3. ASSUME NEW c \in Classes, ListFails(r, c)
        PROVE  StreakInv'
    <3>1. Remembers(run[r].failure) /\ run[r].failure \in Failure
      BY <1>1, <2>3 DEF ListFails, At, StreakInv, RunState
    <3>2. streak' = Again(streak, c) /\ run'[r].pc = "report" /\ run'[r].failure = Again(run[r].failure, c)
      BY <1>1, <1>3, <2>3 DEF ListFails, Become, RunState
    <3>3. Remembers(run[r].failure)'
      BY <3>1, <3>2, AgainRemembers DEF Remembers
    <3>. QED
      BY <2>1, <3>2, <3>3, OnlyCaller DEF At
  <2>4. CASE Report(r)
    <3>1. /\ Remembers(run[r].failure) /\ streak' = streak /\ run'[r].pc = "idle"
          /\ cursor'.failure = run[r].failure
      BY <1>1, <1>3, <2>4 DEF Report, At, StreakInv, Become, CursorState
    <3>2. Remembers(cursor.failure)'
      BY <3>1 DEF Remembers
    <3>. QED
      BY <2>1, <3>1, <3>2, OnlyCaller DEF At
  <2>5. CASE run[r].pc \in {"post", "apply", "clear"}
    <3>1. streak = NoFailure /\ streak' = streak
      BY <2>5
      DEF StreakInv, Step, Observe, ListSucceeds, Report, Clear, Replay, PageBlocked, Accept, Apply, Advance,
          ApplyFails, ListFails, At
    <3>. QED
      BY <2>1, <3>1, OnlyCaller DEF Remembers
  <2>. QED
    BY <1>1, <1>4, <2>2, <2>3, <2>4, <2>5
    DEF Step, Observe, ListSucceeds, Report, Clear, Replay, PageBlocked, Accept, Apply, Advance,
        ApplyFails, ListFails, At
<1>5. CASE At(r, "idle")
  <2>1. Observe(r)
    BY <1>5
    DEF Step, Observe, ListSucceeds, Report, Clear, Replay, PageBlocked, Accept, Apply, Advance,
        ApplyFails, ListFails, At
  <2>2. PICK n \in Pages, f \in Failure : n = cursor.next /\ f = cursor.failure
    BY <1>1 DEF CursorState
  <2>. DEFINE seed == [Idle EXCEPT !.next = n, !.failure = f, !.polls = Polls]
  <2>3. seed \in RunState /\ seed.failure = f
    <3>1. ASSUME NEW i \in RunState
          PROVE  LET z == [i EXCEPT !.next = n, !.failure = f, !.polls = Polls]
                 IN  z \in RunState /\ z.failure = f
      <4>1. Polls \in 0 .. Polls
        BY Numbers
      <4>. QED
        BY <2>2, <4>1 DEF RunState
    <3>. QED
      BY <3>1, IdleGood
  <2>4. l = NextCycle(seed) /\ UNCHANGED <<cursor, streak>>
    <3>1. Become(r, NextCycle(seed))
      BY <2>1, <2>2 DEF Observe
    <3>. QED
      BY <1>1, <1>3, <2>1, <3>1 DEF Become, Observe
  <2>. HIDE DEF seed
  <2>5. CASE l = Idle
    <3>1. (\A q \in Runs : At(q, "idle")') => \A q \in Runs : At(q, "idle")
      BY <1>3, <1>5 DEF At
    <3>. QED
      BY <1>1, <1>3, <2>4, <2>5, <3>1 DEF StreakInv, Remembers, At
  <2>6. CASE l.pc = "list" /\ l.failure = f
    <3>1. \A q \in Runs \ {r} : At(q, "idle")'
      BY <1>3, <2>6 DEF Alone, At
    <3>2. \A q \in Runs : At(q, "idle")
      BY <1>3, <1>5, <3>1 DEF At
    <3>3. Remembers(f)'
      BY <2>2, <2>4, <3>2 DEF StreakInv, Remembers
    <3>. QED
      BY <1>3, <2>6, <3>1, <3>3, OnlyCaller DEF At, Remembers
  <2>. QED
    BY <2>3, <2>4, <2>5, <2>6, NextCycleRemembers
<1>. QED
  BY <1>4, <1>5

\* Where calls of run do not overlap, the failures in a row are remembered.
LEMMA StreakKeeps == IInv /\ StreakInv /\ Alone /\ Alone' /\ [Next]_vars => StreakInv'
<1>. SUFFICES ASSUME IInv, StreakInv, Alone, Alone', [Next]_vars PROVE StreakInv'
  OBVIOUS
<1>1. CASE OperatorClear \/ Restart
  <2>1. streak' = NoFailure
    BY <1>1 DEF OperatorClear, Restart
  <2>. QED
    BY <2>1 DEF StreakInv, Remembers
<1>2. CASE UNCHANGED vars
  BY <1>2 DEF vars, StreakInv, Remembers, At
<1>. QED
  BY <1>1, <1>2, CallerRemembers DEF Next

\* For any chat, any number of runs after each other, failures and restarts:
\* where calls of run do not overlap, no failure comes more often in a row than
\* the limit the planner has.
THEOREM RepeatsAreBounded ==
  ASSUME RepeatLimit = 2
  PROVE  Spec => RepeatsBounded
<1>1. Init => StreakInv
  BY DEF Init, StreakInv, Remembers
<1>2. IInv /\ StreakInv => streak.count <= RepeatLimit
  <2>. SUFFICES ASSUME IInv, StreakInv PROVE streak.count <= 2
    OBVIOUS
  <2>1. CASE streak = NoFailure
    BY <2>1 DEF NoFailure
  <2>2. ASSUME NEW f \in Failure, Remembers(f), streak # NoFailure PROVE streak.count <= 2
    BY <2>2 DEF Failure, Remembers, IInv
  <2>3. ASSUME NEW r \in Runs, ~At(r, "idle"), streak # NoFailure PROVE \E f \in Failure : Remembers(f)
    BY <2>3, Caller DEF StreakInv, RunState, At
  <2>4. ASSUME \A r \in Runs : At(r, "idle") PROVE \E f \in Failure : Remembers(f)
    BY <2>4 DEF StreakInv, IInv, GoodCursor, CursorState
  <2>. QED
    BY <2>1, <2>2, <2>3, <2>4
<1>3. Spec => []IInv
  BY InitGood, NextGood, PTL DEF Spec
<1>4. Spec /\ []Alone => []StreakInv
  BY <1>1, <1>3, StreakKeeps, PTL DEF Spec
<1>. QED
  BY <1>2, <1>3, <1>4, PTL DEF RepeatsBounded

=============================================================================
