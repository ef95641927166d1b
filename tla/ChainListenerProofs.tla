------------------------- MODULE ChainListenerProofs -------------------------
(***************************************************************************)
(* For any number of tips and callbacks and any length of the chain: the   *)
(* types; no tip is skipped by the cursor; and, when the confirmation      *)
(* window is longer than every reorganisation, what was handed to          *)
(* support.normalize stays canonical.                                      *)
(***************************************************************************)
EXTENDS ChainListener, TLAPS

Writing == {"mark_reorged", "mark_pending", "mark_confirmed", "normalize"}

\* Types, with the bounds that the chain as it is now puts on what is known of it.
TypeInv ==
  /\ TypeOK
  /\ hash \in [Blocks -> 0 .. forks]
  /\ mined \in [Tips -> 0 .. head]
  /\ scan.latest \in 0 .. head
  /\ scan.pc \in Writing => scan.cur \in Tips
  /\ \A p \in Procs : call[p].pc # "idle" => call[p].log \in Log

\* Init establishes the types.
LEMMA InitTypes == Init => TypeInv
  BY ConstantsAssumption
  DEF Init, TypeInv, TypeOK, TxRow, CallState, ScanState, NoTx, NoCall, NoScan, NoLog, Blocks, Log, Writing

\* The log of a mined tip is a log.
LEMMA CanonicalIsLog ==
  ASSUME TypeInv, NEW k \in Tips, mined[k] # 0
  PROVE  CanonicalLog(k) \in Log
<1>1. mined[k] \in Blocks
  BY ConstantsAssumption DEF TypeInv, TypeOK, Blocks
<1>2. hash[mined[k]] \in 0 .. MaxForks
  BY <1>1 DEF TypeInv, TypeOK
<1> QED
  BY <1>1, <1>2 DEF CanonicalLog, Log

\* A new block keeps the types.
LEMMA BlockTypes ==
  ASSUME TypeInv, NewBlock
  PROVE  TypeInv'
<1> USE ConstantsAssumption DEF TypeInv, TypeOK, NewBlock, Blocks
<1>1. head' \in 0 .. MaxHead /\ head' = head + 1 /\ head + 1 \in Blocks
  OBVIOUS
<1>2. hash' \in [Blocks -> 0 .. MaxForks] /\ hash' \in [Blocks -> 0 .. forks']
  BY <1>1
<1>3. PICK K \in SUBSET {k \in Tips : mined[k] = 0} :
         /\ mined' = [k \in Tips |-> IF k \in K THEN head + 1 ELSE mined[k]]
         /\ feed' = feed \cup {[tip |-> k, block |-> head + 1, hash |-> forks, removed |-> FALSE] : k \in K}
  OBVIOUS
<1>4. mined' \in [Tips -> 0 .. MaxHead] /\ mined' \in [Tips -> 0 .. head']
  BY <1>1, <1>3
<1>5. feed' \subseteq Log
  <2>1. \A k \in K : [tip |-> k, block |-> head + 1, hash |-> forks, removed |-> FALSE] \in Log
    BY <1>1 DEF Log
  <2> QED
    BY <1>3, <2>1
<1>6. cursor' \in 0 .. head' /\ scan'.latest \in 0 .. head'
  OBVIOUS
<1> QED
  BY <1>1, <1>2, <1>4, <1>5, <1>6, Zenon DEF chain, outbox, Procs

\* A reorganisation keeps the types.
LEMMA ReorgTypes ==
  ASSUME TypeInv, NEW d \in 1 .. MaxDepth, Reorg(d)
  PROVE  TypeInv'
<1> DEFINE replaced == head - d + 1 .. head
           orphans == {k \in Tips : mined[k] \in replaced}
<1> USE ConstantsAssumption DEF TypeInv, TypeOK, Reorg, Blocks
<1>1. d \in Nat \ {0} /\ d <= head /\ replaced \subseteq Blocks /\ forks + 1 \in 0 .. MaxForks
  OBVIOUS
<1>2. hash' \in [Blocks -> 0 .. MaxForks] /\ hash' \in [Blocks -> 0 .. forks']
  BY <1>1
<1>3. PICK move \in [orphans -> replaced \cup {0}] :
        /\ mined' = [k \in Tips |-> IF k \in orphans THEN move[k] ELSE mined[k]]
        /\ feed' = feed
             \cup {[CanonicalLog(k) EXCEPT !.removed = TRUE] : k \in orphans}
             \cup {[tip |-> k, block |-> move[k], hash |-> forks + 1, removed |-> FALSE] :
                     k \in {o \in orphans : move[o] # 0}}
  BY Zenon
<1>4. mined' \in [Tips -> 0 .. MaxHead] /\ mined' \in [Tips -> 0 .. head']
  <2>1. \A k \in orphans : move[k] \in 0 .. head
    BY <1>1
  <2> HIDE DEF orphans, replaced
  <2>2. mined' \in [Tips -> 0 .. head]
    BY <1>3, <2>1
  <2> QED
    BY <2>2
<1>5. feed' \subseteq Log
  <2>1. \A k \in orphans : [CanonicalLog(k) EXCEPT !.removed = TRUE] \in Log
    <3> SUFFICES ASSUME NEW k \in orphans PROVE [CanonicalLog(k) EXCEPT !.removed = TRUE] \in Log
      OBVIOUS
    <3>1. mined[k] # 0
      BY <1>1
    <3>2. CanonicalLog(k) \in Log
      BY <3>1, CanonicalIsLog
    <3> QED
      BY <3>2 DEF Log
  <2>2. \A k \in {o \in orphans : move[o] # 0} :
          [tip |-> k, block |-> move[k], hash |-> forks + 1, removed |-> FALSE] \in Log
    BY <1>1 DEF Log
  <2> QED
    BY <1>3, <2>1, <2>2
<1>6. cursor' \in 0 .. head' /\ scan'.latest \in 0 .. head' /\ forks' \in 0 .. MaxForks
  BY <1>1
<1> QED
  BY <1>1, <1>2, <1>4, <1>5, <1>6, Zenon DEF outbox, Procs

\* A call of processLog, by a callback or by the scan.
LEMMA BeginTypes ==
  ASSUME TypeInv, NEW p \in Procs, NEW log \in Log, BeginLog(p, log)
  PROVE  /\ call' \in [Procs -> CallState]
         /\ \A q \in Procs : call'[q].pc # "idle" => call'[q].log \in Log
<1> DEFINE c == IF ~log.removed THEN [pc |-> "record", log |-> log, found |-> Recorded(log.tip)]
                ELSE IF Recorded(log.tip) THEN [pc |-> "mark_removed", log |-> log, found |-> TRUE]
                ELSE NoCall
<1>1. c \in CallState /\ (c.pc # "idle" => c.log \in Log)
  <2>1. Recorded(log.tip) \in BOOLEAN
    BY DEF Recorded
  <2> QED
    BY <2>1 DEF CallState, NoCall
<1>2. call' = [call EXCEPT ![p] = c]
  BY DEF BeginLog
<1> HIDE DEF c
<1> QED
  BY <1>1, <1>2 DEF TypeInv, TypeOK

\* The statements of processLog keep the types.
LEMMA LogTypes ==
  ASSUME TypeInv, NEW p \in Procs, LogStep(p)
  PROVE  TypeInv'
<1>1. call[p].pc # "idle" /\ call[p].log \in Log /\ call[p].log.tip \in Tips
  BY DEF LogStep, MarkRemoved, RecordTx, EnqueueDetected, TypeInv, Log
<1>2. NoCall \in CallState /\ [call[p] EXCEPT !.pc = "enqueue"] \in CallState
  BY ConstantsAssumption DEF NoCall, NoLog, CallState, TypeInv, TypeOK
<1>3. call' \in [Procs -> CallState] /\ \A q \in Procs : call'[q].pc # "idle" => call'[q].log \in Log
  <2>1. [call[p] EXCEPT !.pc = "enqueue"].log \in Log /\ NoCall.pc = "idle"
    BY <1>1 DEF NoCall, TypeInv, TypeOK, CallState
  <2>2. PICK c \in {NoCall, [call[p] EXCEPT !.pc = "enqueue"]} : call' = [call EXCEPT ![p] = c]
    BY Zenon DEF LogStep, MarkRemoved, RecordTx, EnqueueDetected
  <2>3. c \in CallState /\ (c.pc # "idle" => c.log \in Log)
    BY <1>2, <2>1
  <2> QED
    BY <2>2, <2>3 DEF TypeInv, TypeOK
<1>4. tx' \in [Tips -> TxRow]
  <2>1. CASE MarkRemoved(p)
    BY <1>1, <2>1 DEF MarkRemoved, TxRow, TypeInv, TypeOK
  <2>2. CASE RecordTx(p)
    <3>1. Insert(call[p].log.tip, call[p].log) \in TxRow
      BY <1>1, ConstantsAssumption DEF Insert, TxRow, Log, Blocks, TypeInv, TypeOK
    <3> QED
      BY <3>1, <2>2 DEF RecordTx, TypeInv, TypeOK
  <2>3. CASE EnqueueDetected(p)
    BY <2>3 DEF EnqueueDetected, TypeInv, TypeOK
  <2> QED
    BY <2>1, <2>2, <2>3 DEF LogStep
<1>5. detected' \subseteq Tips
  BY <1>1 DEF LogStep, MarkRemoved, RecordTx, EnqueueDetected, outbox, TypeInv, TypeOK
<1>6. UNCHANGED <<head, hash, mined, forks, feed, cursor, normalized, scan, failures>>
  BY DEF LogStep, MarkRemoved, RecordTx, EnqueueDetected, outbox, chain
<1> QED
  BY <1>3, <1>4, <1>5, <1>6 DEF TypeInv, TypeOK

\* So does a delivered notification.
LEMMA DeliverTypes ==
  ASSUME TypeInv, NEW h \in Handlers, NEW log \in feed, Deliver(h, log)
  PROVE  TypeInv'
<1>1. h \in Procs /\ log \in Log
  BY DEF Procs, TypeInv, TypeOK
<1>2. call' \in [Procs -> CallState] /\ \A q \in Procs : call'[q].pc # "idle" => call'[q].log \in Log
  BY <1>1, BeginTypes DEF Deliver
<1>3. feed' \subseteq Log /\ UNCHANGED <<head, hash, mined, forks, tx, cursor, detected, normalized, scan, failures>>
  BY DEF Deliver, chain, outbox, TypeInv, TypeOK
<1> QED
  BY <1>2, <1>3 DEF TypeInv, TypeOK

\* And a rejected call.
LEMMA FailureTypes ==
  ASSUME TypeInv, (\E h \in Handlers : HandlerFails(h)) \/ ScanFails
  PROVE  TypeInv'
<1>1. NoCall \in CallState /\ NoScan \in ScanState /\ NoScan.latest = 0 /\ NoScan.pc = "idle" /\ NoCall.pc = "idle"
  BY ConstantsAssumption DEF NoCall, NoLog, NoScan, CallState, ScanState
<1>2. PICK p \in Procs : call' = [call EXCEPT ![p] = NoCall] /\ (scan' = scan \/ scan' = NoScan)
  BY DEF HandlerFails, ScanFails, Procs
<1>3. call' \in [Procs -> CallState] /\ \A q \in Procs : call'[q].pc # "idle" => call'[q].log \in Log
  BY <1>1, <1>2 DEF TypeInv, TypeOK
<1>4. scan' \in ScanState /\ scan'.latest \in 0 .. head /\ (scan'.pc \in Writing => scan'.cur \in Tips)
  BY <1>1, <1>2, ConstantsAssumption DEF TypeInv, TypeOK, Writing
<1>5. failures' \in 0 .. MaxFailures /\ UNCHANGED <<head, hash, mined, forks, feed, tx, cursor, detected, normalized>>
  BY ConstantsAssumption DEF HandlerFails, ScanFails, chain, outbox, TypeInv, TypeOK
<1> QED
  BY <1>3, <1>4, <1>5 DEF TypeInv, TypeOK

\* The state of the scan between two transactions is well typed.
LEMMA ContinueTypes ==
  ASSUME TypeInv, NEW pending \in SUBSET Tips
  PROVE  /\ Continue(pending) \in ScanState
         /\ Continue(pending).latest \in 0 .. head
         /\ Continue(pending).pc \in {"idle", "check"}
<1>1. NoScan \in ScanState /\ NoScan.latest = 0 /\ NoScan.pc = "idle"
  BY ConstantsAssumption DEF NoScan, ScanState
<1>2. [scan EXCEPT !.pc = "check", !.pending = pending, !.cur = NoTip] \in ScanState
  BY DEF TypeInv, TypeOK, ScanState
<1>3. /\ [scan EXCEPT !.pc = "check", !.pending = pending, !.cur = NoTip].latest = scan.latest
      /\ [scan EXCEPT !.pc = "check", !.pending = pending, !.cur = NoTip].pc = "check"
  BY DEF TypeInv, TypeOK, ScanState
<1> QED
  BY <1>1, <1>2, <1>3 DEF Continue, TypeInv, TypeOK

\* What a step of the scan may do to the scan's own state.
GoodScan(s) ==
  s \in ScanState /\ s.latest \in 0 .. head /\ (s.pc \in Writing => s.cur \in Tips)

\* Every step of catchUp leaves the scan well typed.
LEMMA ScanStateTypes ==
  ASSUME TypeInv,
         \/ ScanStart \/ ScanGetLogs \/ ScanLog \/ ScanSaveCursor \/ ConfirmList
         \/ (\E k \in Tips : ConfirmCheck(k)) \/ ConfirmWrite \/ EnqueueNormalize
  PROVE  GoodScan(scan')
<1> USE ConstantsAssumption DEF Writing
<1>1. scan \in ScanState /\ scan.latest \in 0 .. head /\ head \in 0 .. MaxHead /\ scan.pending \subseteq Tips
  BY DEF TypeInv, TypeOK, ScanState
<1>2. CASE ScanStart
  <2>1. PICK pc \in {"list", "get_logs"} : scan' = [NoScan EXCEPT !.latest = head, !.pc = pc]
    BY <1>2, Zenon DEF ScanStart
  <2>2. scan' = [pc |-> pc, latest |-> head, logs |-> {}, pending |-> {}, cur |-> NoTip]
    BY <2>1 DEF NoScan
  <2>3. head \in 0 .. head
    BY <1>1
  <2> QED
    BY <1>1, <2>2, <2>3 DEF ScanState, GoodScan
<1>3. CASE ScanGetLogs
  <2> DEFINE logs == {CanonicalLog(k) : k \in {t \in Tips : mined[t] \in cursor + 1 .. scan.latest}}
  <2>1. logs \subseteq Log
    <3>1. \A k \in Tips : mined[k] \in cursor + 1 .. scan.latest => mined[k] # 0
      BY <1>1 DEF TypeInv, TypeOK
    <3> QED
      BY <3>1, CanonicalIsLog
  <2>2. scan' = [scan EXCEPT !.pc = "logs", !.logs = logs]
    BY <1>3, Zenon DEF ScanGetLogs
  <2> HIDE DEF logs
  <2> QED
    BY <1>1, <2>1, <2>2 DEF ScanState, GoodScan
<1>4. CASE ScanLog
  <2>1. PICK log \in scan.logs : scan' = [scan EXCEPT !.logs = scan.logs \ {log}]
    BY <1>4, Zenon DEF ScanLog
  <2>2. scan.pc = "logs" /\ scan.logs \ {log} \in SUBSET Log
    BY <1>1, <1>4 DEF ScanLog, ScanState
  <2> QED
    BY <1>1, <2>1, <2>2 DEF ScanState, GoodScan
<1>5. CASE ScanSaveCursor
  BY <1>1, <1>5 DEF ScanSaveCursor, ScanState, GoodScan
<1>6. CASE ConfirmList
  <2>1. PICK pending \in SUBSET Tips : scan' = Continue(pending)
    BY <1>6 DEF ConfirmList
  <2> QED
    BY <2>1, ContinueTypes DEF GoodScan
<1>7. ASSUME NEW k \in Tips, ConfirmCheck(k) PROVE GoodScan(scan')
  <2>1. PICK pc \in {"mark_reorged", "mark_confirmed", "mark_pending"} :
          scan' = [scan EXCEPT !.cur = k, !.pending = scan.pending \ {k}, !.pc = pc]
    BY <1>7, Zenon DEF ConfirmCheck
  <2> QED
    BY <1>1, <2>1 DEF ScanState, GoodScan
<1>8. CASE ConfirmWrite
  <2>1. scan' = Continue(scan.pending) \/ (scan.pc = "mark_confirmed" /\ scan' = [scan EXCEPT !.pc = "normalize"])
    BY <1>8, Zenon DEF ConfirmWrite
  <2>2. CASE scan' = Continue(scan.pending)
    BY <1>1, <2>2, ContinueTypes DEF GoodScan
  <2>3. CASE scan.pc = "mark_confirmed" /\ scan' = [scan EXCEPT !.pc = "normalize"]
    BY <1>1, <2>3 DEF ScanState, GoodScan, TypeInv
  <2> QED
    BY <2>1, <2>2, <2>3
<1>9. CASE EnqueueNormalize
  BY <1>1, <1>9, ContinueTypes DEF EnqueueNormalize, GoodScan
<1> QED
  BY <1>2, <1>3, <1>4, <1>5, <1>6, <1>7, <1>8, <1>9

\* Every step of catchUp keeps the types.
LEMMA ScanTypes ==
  ASSUME TypeInv,
         \/ ScanStart \/ ScanGetLogs \/ ScanLog \/ ScanSaveCursor \/ ConfirmList
         \/ (\E k \in Tips : ConfirmCheck(k)) \/ ConfirmWrite \/ EnqueueNormalize
  PROVE  TypeInv'
<1>1. GoodScan(scan')
  BY ScanStateTypes
<1>2. UNCHANGED <<head, hash, mined, forks, feed, failures, detected>>
  BY DEF ScanStart, ScanGetLogs, ScanLog, ScanSaveCursor, ConfirmList, ConfirmCheck,
         ConfirmWrite, EnqueueNormalize, chain, outbox
<1>3. call' \in [Procs -> CallState] /\ \A q \in Procs : call'[q].pc # "idle" => call'[q].log \in Log
  <2>1. CASE ScanLog
    <3>1. PICK log \in scan.logs : BeginLog(Scanner, log)
      BY <2>1 DEF ScanLog
    <3>2. log \in Log /\ Scanner \in Procs
      BY DEF TypeInv, TypeOK, ScanState, Procs
    <3> QED
      BY <3>1, <3>2, BeginTypes
  <2>2. CASE call' = call
    BY <2>2 DEF TypeInv, TypeOK
  <2> QED
    BY <2>1, <2>2 DEF ScanStart, ScanGetLogs, ScanLog, ScanSaveCursor, ConfirmList, ConfirmCheck,
         ConfirmWrite, EnqueueNormalize
<1>4. tx' \in [Tips -> TxRow]
  <2>1. CASE ConfirmWrite
    <3>1. scan.cur \in Tips
      BY <2>1 DEF ConfirmWrite, TypeInv, Writing
    <3>2. PICK st \in {"reorged", "pending_confirmation", "confirmed"} : tx' = [tx EXCEPT ![scan.cur].status = st]
      BY <2>1, Zenon DEF ConfirmWrite
    <3> QED
      BY <3>1, <3>2 DEF TypeInv, TypeOK, TxRow
  <2>2. CASE tx' = tx
    BY <2>2 DEF TypeInv, TypeOK
  <2> QED
    BY <2>1, <2>2 DEF ScanStart, ScanGetLogs, ScanLog, ScanSaveCursor, ConfirmList, ConfirmCheck,
         ConfirmWrite, EnqueueNormalize
<1>5. cursor' \in 0 .. head'
  BY <1>2 DEF ScanStart, ScanGetLogs, ScanLog, ScanSaveCursor, ConfirmList, ConfirmCheck,
         ConfirmWrite, EnqueueNormalize, TypeInv, TypeOK
<1>6. normalized' \subseteq Tips
  BY DEF ScanStart, ScanGetLogs, ScanLog, ScanSaveCursor, ConfirmList, ConfirmCheck,
         ConfirmWrite, EnqueueNormalize, TypeInv, TypeOK, outbox, Writing
<1> QED
  BY <1>1, <1>2, <1>3, <1>4, <1>5, <1>6 DEF GoodScan, TypeInv, TypeOK

\* The types are inductive.
LEMMA NextTypes == TypeInv /\ [Next]_vars => TypeInv'
<1>1. ASSUME TypeInv, Next PROVE TypeInv'
  <2> USE <1>1
  <2>1. ASSUME NEW h \in Handlers, LogStep(h) PROVE TypeInv'
    BY <2>1, LogTypes DEF Procs
  <2>2. CASE ScanStep
    <3>1. CASE LogStep(Scanner)
      BY <3>1, LogTypes DEF Procs
    <3> QED
      BY <3>1, <2>2, ScanTypes DEF ScanStep
  <2> QED
    BY <1>1, <2>1, <2>2, BlockTypes, ReorgTypes, DeliverTypes, FailureTypes, ScanTypes DEF Next
<1>2. CASE UNCHANGED vars
  BY <1>2 DEF vars, TypeInv, TypeOK
<1> QED
  BY <1>1, <1>2

\* Everything is typed, and the cursor never runs ahead of the chain, for any
\* number of tips, callbacks, reorganisations and failures.
THEOREM TypeCorrect == Spec => []TypeOK
<1>1. Spec => []TypeInv
  BY InitTypes, NextTypes, PTL DEF Spec
<1> QED
  BY <1>1, PTL DEF TypeInv

-----------------------------------------------------------------------------
(* What the listener knows of the chain.  A log it has met, in a           *)
(* notification, in a scan, in a call or in a row, is genuine: if the      *)
(* block it was in is canonical, that block is where the log is mined.     *)

Genuine(k, b, h) ==
  /\ b \in 1 .. head
  /\ h \in 0 .. forks
  /\ hash[b] = h => mined[k] = b

\* The same of the state after a step.
GenuineNext(k, b, h) ==
  /\ b \in 1 .. head'
  /\ h \in 0 .. forks'
  /\ hash'[b] = h => mined'[k] = b

RecordedNext(k) == tx'[k].status # "none"

LogsGenuine ==
  /\ \A l \in feed \cup scan.logs : Genuine(l.tip, l.block, l.hash)
  /\ \A p \in Procs : call[p].pc # "idle" => Genuine(call[p].log.tip, call[p].log.block, call[p].log.hash)
  /\ \A k \in Tips : Recorded(k) => Genuine(k, tx[k].block, tx[k].hash)

\* Only recorded tips are updated.
UpdatesRecorded ==
  /\ \A p \in Procs : call[p].pc = "mark_removed" => Recorded(call[p].log.tip)
  /\ \A k \in scan.pending : Recorded(k)
  /\ scan.pc \in Writing => Recorded(scan.cur)

KnowledgeInv == TypeInv /\ LogsGenuine /\ UpdatesRecorded

\* Nothing is known at the start.
LEMMA InitKnowledge == Init => KnowledgeInv
<1>1. Init => TypeInv
  BY InitTypes
<1>2. Init => LogsGenuine /\ UpdatesRecorded
  BY DEF Init, LogsGenuine, UpdatesRecorded, NoCall, NoScan, NoTx, Recorded, Writing
<1> QED
  BY <1>1, <1>2 DEF KnowledgeInv

\* The chain changes by a new block or by a reorganisation only.
LEMMA ChainSteps ==
  ASSUME [Next]_vars
  PROVE  NewBlock \/ (\E d \in 1 .. MaxDepth : Reorg(d)) \/ UNCHANGED chain
BY Zenon DEF Next, vars, chain, LogStep, MarkRemoved, RecordTx, EnqueueDetected, HandlerFails, Deliver,
       ScanStart, ScanStep, ScanGetLogs, ScanLog, ScanSaveCursor, ConfirmList, ConfirmCheck,
       ConfirmWrite, EnqueueNormalize, ScanFails

\* Neither a new block nor a reorganisation makes a genuine log a fake.
LEMMA GenuineKept ==
  ASSUME TypeInv, [Next]_vars, NEW k \in Tips, NEW b, NEW h, Genuine(k, b, h)
  PROVE  GenuineNext(k, b, h)
<1> USE ConstantsAssumption DEF Genuine, GenuineNext, TypeInv, TypeOK, Blocks
<1>1. CASE NewBlock
  <2>1. PICK K \in SUBSET {t \in Tips : mined[t] = 0} :
          mined' = [t \in Tips |-> IF t \in K THEN head + 1 ELSE mined[t]]
    BY <1>1 DEF NewBlock
  <2>2. hash'[b] = hash[b] /\ head' = head + 1 /\ forks' = forks
    BY <1>1 DEF NewBlock
  <2>3. hash[b] = h => mined'[k] = b
    BY <2>1
  <2> QED
    BY <2>2, <2>3
<1>2. ASSUME NEW d \in 1 .. MaxDepth, Reorg(d) PROVE GenuineNext(k, b, h)
  <2> DEFINE replaced == head - d + 1 .. head
             orphans == {t \in Tips : mined[t] \in replaced}
  <2>1. PICK move \in [orphans -> replaced \cup {0}] :
          mined' = [t \in Tips |-> IF t \in orphans THEN move[t] ELSE mined[t]]
    BY <1>2, Zenon DEF Reorg
  <2>2. head' = head /\ forks' = forks + 1 /\ hash' = [c \in Blocks |-> IF c \in replaced THEN forks + 1 ELSE hash[c]]
    BY <1>2, Zenon DEF Reorg
  <2>3. CASE b \in replaced
    BY <2>2, <2>3
  <2>4. CASE b \notin replaced
    <3>1. hash'[b] = hash[b]
      BY <2>2, <2>4
    <3>2. hash[b] = h => mined'[k] = b
      BY <2>1, <2>4
    <3> QED
      BY <2>2, <3>1, <3>2
  <2> QED
    BY <2>3, <2>4
<1>3. CASE UNCHANGED chain
  BY <1>3 DEF chain
<1> QED
  BY <1>1, <1>2, <1>3, ChainSteps

\* A row keeps its block for ever; a new row is that of the log in hand.
LEMMA RowsKept ==
  ASSUME KnowledgeInv, [Next]_vars, NEW k \in Tips
  PROVE  /\ Recorded(k) => RecordedNext(k) /\ tx'[k].block = tx[k].block /\ tx'[k].hash = tx[k].hash
         /\ ~Recorded(k) /\ RecordedNext(k) =>
              \E p \in Procs : /\ call[p].pc = "record" /\ call[p].log.tip = k
                              /\ tx'[k].block = call[p].log.block /\ tx'[k].hash = call[p].log.hash
<1> USE DEF KnowledgeInv, UpdatesRecorded, TypeInv, TypeOK, TxRow, Recorded, RecordedNext
<1>1. CASE tx' = tx
  BY <1>1
<1>2. ASSUME NEW p \in Procs, MarkRemoved(p)
      PROVE  RecordedNext(k) = Recorded(k) /\ (Recorded(k) => tx'[k].block = tx[k].block /\ tx'[k].hash = tx[k].hash)
  <2>1. Recorded(call[p].log.tip) /\ tx' = [tx EXCEPT ![call[p].log.tip].status = "reorged"]
    BY <1>2 DEF MarkRemoved
  <2> QED
    BY <2>1
<1>3. CASE ConfirmWrite
  <2>1. Recorded(scan.cur)
    BY <1>3 DEF ConfirmWrite, Writing
  <2>2. PICK st \in {"reorged", "pending_confirmation", "confirmed"} : tx' = [tx EXCEPT ![scan.cur].status = st]
    BY <1>3, Zenon DEF ConfirmWrite
  <2> QED
    BY <2>1, <2>2
<1>4. ASSUME NEW p \in Procs, RecordTx(p)
      PROVE  /\ Recorded(k) => tx'[k] = tx[k]
             /\ ~Recorded(k) /\ RecordedNext(k) =>
                  /\ call[p].pc = "record" /\ call[p].log.tip = k
                  /\ tx'[k].block = call[p].log.block /\ tx'[k].hash = call[p].log.hash
  BY <1>4 DEF RecordTx, Insert
<1>5. \/ tx' = tx \/ ConfirmWrite
      \/ \E p \in Procs : MarkRemoved(p) \/ RecordTx(p)
  BY Zenon DEF Next, vars, NewBlock, Reorg, LogStep, EnqueueDetected, HandlerFails, Deliver,
       ScanStart, ScanStep, ScanGetLogs, ScanLog, ScanSaveCursor, ConfirmList, ConfirmCheck,
       EnqueueNormalize, ScanFails, Procs
<1>6. CASE \E p \in Procs : MarkRemoved(p)
  BY <1>2, <1>6, Zenon
<1>7. CASE \E p \in Procs : RecordTx(p)
  <2>1. PICK p \in Procs : RecordTx(p)
    BY <1>7
  <2>2. (Recorded(k) => tx'[k] = tx[k]) /\ (Recorded(k) => RecordedNext(k))
    BY <1>4, <2>1
  <2> QED
    BY <1>4, <2>1, <2>2, Zenon
<1> QED
  BY <1>1, <1>3, <1>5, <1>6, <1>7, Zenon

\* Where a log is mined is genuine.
LEMMA CanonicalGenuine ==
  ASSUME TypeInv, NEW k \in Tips, mined[k] # 0
  PROVE  Genuine(k, mined[k], hash[mined[k]])
<1>1. mined[k] \in Blocks /\ mined[k] \in 1 .. head
  BY ConstantsAssumption DEF TypeInv, TypeOK, Blocks
<1> QED
  BY <1>1 DEF TypeInv, Genuine

\* Every new notification tells the truth about the chain as it now is.
LEMMA NewBlockGenuine ==
  ASSUME TypeInv, NewBlock
  PROVE  \A l \in feed' \ feed : GenuineNext(l.tip, l.block, l.hash)
<1>1. PICK K \in SUBSET {k \in Tips : mined[k] = 0} :
         /\ mined' = [k \in Tips |-> IF k \in K THEN head + 1 ELSE mined[k]]
         /\ feed' = feed \cup {[tip |-> k, block |-> head + 1, hash |-> forks, removed |-> FALSE] : k \in K}
  BY DEF NewBlock
<1>2. head' = head + 1 /\ forks' = forks
  BY DEF NewBlock
<1>3. \A k \in K : GenuineNext(k, head + 1, forks)
  BY <1>1, <1>2, ConstantsAssumption DEF GenuineNext, TypeInv, TypeOK
<1> QED
  BY <1>1, <1>2, <1>3

\* The same of the notifications of a reorganisation.
LEMMA ReorgGenuine ==
  ASSUME TypeInv, NEW d \in 1 .. MaxDepth, Reorg(d)
  PROVE  \A l \in feed' \ feed : GenuineNext(l.tip, l.block, l.hash)
<1> DEFINE replaced == head - d + 1 .. head
           orphans == {k \in Tips : mined[k] \in replaced}
<1>1. PICK move \in [orphans -> replaced \cup {0}] :
        /\ mined' = [k \in Tips |-> IF k \in orphans THEN move[k] ELSE mined[k]]
        /\ feed' = feed
             \cup {[CanonicalLog(k) EXCEPT !.removed = TRUE] : k \in orphans}
             \cup {[tip |-> k, block |-> move[k], hash |-> forks + 1, removed |-> FALSE] :
                     k \in {o \in orphans : move[o] # 0}}
  BY Zenon DEF Reorg
<1>2. head' = head /\ forks' = forks + 1 /\ hash' = [c \in Blocks |-> IF c \in replaced THEN forks + 1 ELSE hash[c]]
  BY Zenon DEF Reorg
<1>3. \A k \in orphans : mined[k] # 0
  BY ConstantsAssumption DEF Reorg, TypeInv, TypeOK
<1>4. \A k \in orphans : Genuine(k, mined[k], hash[mined[k]])
  BY <1>3, CanonicalGenuine
<1>5. \A k \in orphans : LET l == [CanonicalLog(k) EXCEPT !.removed = TRUE]
                         IN  l.tip = k /\ l.block = mined[k] /\ l.hash = hash[mined[k]]
  BY DEF CanonicalLog
<1>6. ASSUME NEW k \in orphans PROVE LET l == [CanonicalLog(k) EXCEPT !.removed = TRUE]
                                    IN  GenuineNext(l.tip, l.block, l.hash)
  <2> DEFINE l == [CanonicalLog(k) EXCEPT !.removed = TRUE]
  <2>1. l.tip = k /\ l.block \in replaced /\ l.block \in 1 .. head /\ l.hash \in 0 .. forks
    BY <1>4, <1>5 DEF Genuine
  <2> HIDE DEF l
  <2>2. hash'[l.block] = forks + 1
    <3>1. l.block \in Blocks
      BY <2>1, ConstantsAssumption DEF TypeInv, TypeOK, Blocks
    <3> HIDE DEF replaced
    <3> QED
      BY <1>2, <2>1, <3>1
  <2>4. l.hash # forks + 1 /\ l.hash \in 0 .. forks + 1
    BY <2>1, ConstantsAssumption DEF TypeInv, TypeOK
  <2>3. GenuineNext(l.tip, l.block, l.hash)
    BY <1>2, <2>1, <2>2, <2>4 DEF GenuineNext
  <2> QED
    BY <2>3 DEF l
<1>7. ASSUME NEW k \in orphans, move[k] # 0 PROVE GenuineNext(k, move[k], forks + 1)
  <2>1. move[k] \in 1 .. head /\ mined'[k] = move[k]
    BY <1>1, <1>7, ConstantsAssumption DEF Reorg, TypeInv, TypeOK
  <2> QED
    BY <1>2, <2>1, ConstantsAssumption DEF GenuineNext, TypeInv, TypeOK, Blocks
<1> QED
  <2> SUFFICES ASSUME NEW l \in feed' \ feed PROVE GenuineNext(l.tip, l.block, l.hash)
    OBVIOUS
  <2> HIDE DEF orphans, replaced
  <2>1. \/ \E k \in orphans : l = [CanonicalLog(k) EXCEPT !.removed = TRUE]
        \/ \E k \in orphans : move[k] # 0 /\ l = [tip |-> k, block |-> move[k], hash |-> forks + 1, removed |-> FALSE]
    BY <1>1, Zenon
  <2>2. CASE \E k \in orphans : l = [CanonicalLog(k) EXCEPT !.removed = TRUE]
    BY <1>6, <2>2, Zenon
  <2>3. CASE \E k \in orphans : move[k] # 0 /\ l = [tip |-> k, block |-> move[k], hash |-> forks + 1, removed |-> FALSE]
    <3>1. PICK k \in orphans : move[k] # 0 /\ l = [tip |-> k, block |-> move[k], hash |-> forks + 1, removed |-> FALSE]
      BY <2>3
    <3>2. l.tip = k /\ l.block = move[k] /\ l.hash = forks + 1
      BY <3>1
    <3>3. GenuineNext(k, move[k], forks + 1)
      BY <1>7, <3>1
    <3> QED
      BY <3>2, <3>3
  <2> QED
    BY <2>1, <2>2, <2>3

\* What a call or a scan works on is a log it had, or one from the feed.
LEMMA CallSteps ==
  ASSUME KnowledgeInv, [Next]_vars, NEW p \in Procs, call'[p].pc # "idle"
  PROVE  \/ /\ call[p].pc # "idle" /\ call'[p].log = call[p].log
            /\ call'[p].pc = "mark_removed" => call[p].pc = "mark_removed"
         \/ /\ call'[p].log \in feed \cup scan.logs
            /\ call'[p].pc = "mark_removed" => Recorded(call'[p].log.tip)
<1> USE DEF KnowledgeInv, TypeInv, TypeOK, CallState
<1>1. CASE call' = call
  BY <1>1
<1>2. ASSUME NEW q \in Procs, call' = [call EXCEPT ![q] = NoCall]
      PROVE  call'[p] = call[p]
  BY <1>2 DEF NoCall
<1>3. ASSUME NEW q \in Procs, NEW log \in feed \cup scan.logs, BeginLog(q, log)
      PROVE  \/ call'[p] = call[p]
             \/ /\ call'[p].log \in feed \cup scan.logs
                /\ call'[p].pc = "mark_removed" => Recorded(call'[p].log.tip)
  BY <1>3 DEF BeginLog, NoCall
<1>4. ASSUME NEW q \in Procs, RecordTx(q)
      PROVE  \/ call'[p] = call[p]
             \/ call[p].pc # "idle" /\ call'[p].log = call[p].log /\ call'[p].pc # "mark_removed"
  BY <1>4 DEF RecordTx, NoCall
<1>5. \/ call' = call
      \/ \E q \in Procs : call' = [call EXCEPT ![q] = NoCall] \/ RecordTx(q)
      \/ \E q \in Procs, log \in feed \cup scan.logs : BeginLog(q, log)
  BY Zenon DEF Next, vars, NewBlock, Reorg, LogStep, MarkRemoved, EnqueueDetected, HandlerFails, Deliver,
       ScanStart, ScanStep, ScanGetLogs, ScanLog, ScanSaveCursor, ConfirmList, ConfirmCheck,
       ConfirmWrite, EnqueueNormalize, ScanFails, Procs
<1> QED
  BY <1>1, <1>2, <1>3, <1>4, <1>5, Zenon

\* What a step of catchUp may take in hand.
LEMMA ScanSteps ==
  ASSUME KnowledgeInv, [Next]_vars
  PROVE  /\ \A l \in scan'.logs : l \in scan.logs \/ (chain' = chain /\ \E k \in Tips : mined[k] # 0 /\ l = CanonicalLog(k))
         /\ \A k \in scan'.pending : k \in scan.pending \/ Recorded(k)
         /\ scan'.pc \in Writing =>
              scan'.cur \in scan.pending \/ (scan.pc \in Writing /\ scan'.cur = scan.cur)
<1> USE DEF KnowledgeInv, TypeInv, TypeOK, ScanState, Writing
<1>1. CASE scan' = scan
  BY <1>1
<1>2. CASE scan'.logs = {} /\ scan'.pending = {} /\ scan'.pc \notin Writing
  BY <1>2
<1>3. CASE ScanGetLogs
  <2> DEFINE logs == {CanonicalLog(k) : k \in {t \in Tips : mined[t] \in cursor + 1 .. scan.latest}}
  <2>1. scan' = [scan EXCEPT !.pc = "logs", !.logs = logs] /\ chain' = chain
    BY <1>3, Zenon DEF ScanGetLogs
  <2>2. \A k \in Tips : mined[k] \in cursor + 1 .. scan.latest => mined[k] # 0
    BY ConstantsAssumption
  <2>3. \A l \in logs : \E k \in Tips : mined[k] # 0 /\ l = CanonicalLog(k)
    BY <2>2
  <2> HIDE DEF logs
  <2>4. scan'.logs = logs /\ scan'.pending = scan.pending /\ scan'.pc = "logs"
    BY <2>1
  <2> QED
    BY <2>1, <2>3, <2>4
<1>4. CASE ScanLog \/ ScanSaveCursor
  <2>1. PICK L \in SUBSET scan.logs, pc \in {"logs", "list"} : scan' = [scan EXCEPT !.logs = L, !.pc = pc]
    <3>1. CASE ScanLog
      <4>1. PICK log \in scan.logs : scan' = [scan EXCEPT !.logs = scan.logs \ {log}]
        BY <3>1, Zenon DEF ScanLog
      <4>2. scan' = [scan EXCEPT !.logs = scan.logs \ {log}, !.pc = "logs"]
        BY <3>1, <4>1 DEF ScanLog
      <4>3. scan.logs \ {log} \in SUBSET scan.logs
        OBVIOUS
      <4> QED
        BY <4>2, <4>3
    <3>2. CASE ScanSaveCursor
      <4>1. scan' = [scan EXCEPT !.logs = scan.logs, !.pc = "list"]
        BY <3>2 DEF ScanSaveCursor
      <4> QED
        BY <4>1
    <3> QED
      BY <1>4, <3>1, <3>2
  <2> QED
    BY <2>1
<1>5. ASSUME NEW pending \in SUBSET Tips, scan' = Continue(pending)
      PROVE  /\ scan'.logs \subseteq scan.logs /\ scan'.pending \subseteq pending /\ scan'.pc \notin Writing
  BY <1>5 DEF Continue, NoScan
<1>6. CASE ConfirmList
  BY <1>5, <1>6 DEF ConfirmList, Recorded
<1>7. ASSUME NEW k \in Tips, ConfirmCheck(k)
      PROVE  scan'.logs = scan.logs /\ scan'.pending \subseteq scan.pending /\ scan'.cur \in scan.pending
  <2>1. PICK pc \in {"mark_reorged", "mark_confirmed", "mark_pending"} :
          scan' = [scan EXCEPT !.cur = k, !.pending = scan.pending \ {k}, !.pc = pc]
    BY <1>7, Zenon DEF ConfirmCheck
  <2>2. k \in scan.pending
    BY <1>7 DEF ConfirmCheck
  <2> QED
    BY <2>1, <2>2
<1>8. CASE scan' = Continue(scan.pending)
  BY <1>5, <1>8
<1>9. CASE scan.pc = "mark_confirmed" /\ scan' = [scan EXCEPT !.pc = "normalize"]
  BY <1>9
<1>10. NoScan.logs = {} /\ NoScan.pending = {} /\ NoScan.pc \notin Writing
  BY DEF NoScan
<1>11. CASE ScanStart
  <2>1. PICK pc \in {"list", "get_logs"} : scan' = [NoScan EXCEPT !.latest = head, !.pc = pc]
    BY <1>11, Zenon DEF ScanStart
  <2> QED
    BY <2>1, <1>2 DEF NoScan
<1>12. \/ scan' = scan \/ scan' = NoScan \/ ScanStart \/ ScanGetLogs \/ ScanLog \/ ScanSaveCursor \/ ConfirmList
       \/ (\E k \in Tips : ConfirmCheck(k)) \/ scan' = Continue(scan.pending)
       \/ (scan.pc = "mark_confirmed" /\ scan' = [scan EXCEPT !.pc = "normalize"])
  BY Zenon DEF Next, vars, NewBlock, Reorg, LogStep, MarkRemoved, RecordTx, EnqueueDetected, HandlerFails, Deliver,
       ScanStep, ConfirmWrite, EnqueueNormalize, ScanFails
<1>13. CASE scan' = NoScan
  BY <1>2, <1>10, <1>13
<1>14. CASE \E k \in Tips : ConfirmCheck(k)
  BY <1>7, <1>14
<1> QED
  BY <1>1, <1>3, <1>4, <1>6, <1>8, <1>9, <1>11, <1>12, <1>13, <1>14, Zenon

\* The listener goes on knowing genuine logs only.
LEMMA NextKnowledge == KnowledgeInv /\ [Next]_vars => KnowledgeInv'
<1> SUFFICES ASSUME KnowledgeInv, [Next]_vars PROVE KnowledgeInv'
  OBVIOUS
<1>0. TypeInv /\ LogsGenuine /\ UpdatesRecorded
  BY DEF KnowledgeInv
<1>1. TypeInv'
  BY <1>0, NextTypes
<1>2. \A l \in feed \cup scan.logs : GenuineNext(l.tip, l.block, l.hash)
  <2>1. \A l \in feed \cup scan.logs : l.tip \in Tips
    BY <1>0 DEF TypeInv, TypeOK, ScanState, Log
  <2> QED
    BY <1>0, <2>1, GenuineKept DEF LogsGenuine
<1>3. \A l \in feed' : GenuineNext(l.tip, l.block, l.hash)
  <2>1. CASE feed' \subseteq feed
    BY <1>2, <2>1
  <2>2. \/ feed' \subseteq feed \/ NewBlock \/ \E d \in 1 .. MaxDepth : Reorg(d)
    BY DEF Next, vars, LogStep, MarkRemoved, RecordTx, EnqueueDetected, HandlerFails, Deliver,
       ScanStart, ScanStep, ScanGetLogs, ScanLog, ScanSaveCursor, ConfirmList, ConfirmCheck,
       ConfirmWrite, EnqueueNormalize, ScanFails
  <2> QED
    BY <1>0, <1>2, <2>1, <2>2, NewBlockGenuine, ReorgGenuine
<1>4. \A l \in scan'.logs : GenuineNext(l.tip, l.block, l.hash)
  <2> SUFFICES ASSUME NEW l \in scan'.logs, l \notin scan.logs PROVE GenuineNext(l.tip, l.block, l.hash)
    BY <1>2
  <2>1. chain' = chain /\ \E k \in Tips : mined[k] # 0 /\ l = CanonicalLog(k)
    BY ScanSteps
  <2>2. PICK k \in Tips : mined[k] # 0 /\ l = CanonicalLog(k)
    BY <2>1
  <2>3. Genuine(k, mined[k], hash[mined[k]]) /\ l.tip = k /\ l.block = mined[k] /\ l.hash = hash[mined[k]]
    BY <1>0, <2>2, CanonicalGenuine DEF CanonicalLog
  <2> QED
    BY <2>1, <2>3 DEF chain, Genuine, GenuineNext
<1>5. \A p \in Procs : call'[p].pc # "idle" => GenuineNext(call'[p].log.tip, call'[p].log.block, call'[p].log.hash)
  <2> SUFFICES ASSUME NEW p \in Procs, call'[p].pc # "idle"
               PROVE  GenuineNext(call'[p].log.tip, call'[p].log.block, call'[p].log.hash)
    OBVIOUS
  <2>1. CASE call'[p].log \in feed \cup scan.logs
    BY <1>2, <2>1
  <2>2. CASE call[p].pc # "idle" /\ call'[p].log = call[p].log
    <3>1. call[p].log.tip \in Tips /\ Genuine(call[p].log.tip, call[p].log.block, call[p].log.hash)
      BY <1>0, <2>2 DEF TypeInv, Log, LogsGenuine
    <3> DEFINE k == call[p].log.tip  b == call[p].log.block  h == call[p].log.hash
    <3>2. call'[p].log.tip = k /\ call'[p].log.block = b /\ call'[p].log.hash = h
      BY <2>2
    <3>3. \A l \in Log : Genuine(l.tip, l.block, l.hash) => GenuineNext(l.tip, l.block, l.hash)
      BY <1>0, GenuineKept DEF Log
    <3>4. call[p].log \in Log
      BY <1>0, <2>2 DEF TypeInv
    <3> QED
      BY <2>2, <3>1, <3>3, <3>4
  <2> QED
    BY <2>1, <2>2, CallSteps
<1>6. \A k \in Tips : RecordedNext(k) => GenuineNext(k, tx'[k].block, tx'[k].hash)
  <2> SUFFICES ASSUME NEW k \in Tips, RecordedNext(k) PROVE GenuineNext(k, tx'[k].block, tx'[k].hash)
    OBVIOUS
  <2>1. CASE Recorded(k)
    <3>1. tx'[k].block = tx[k].block /\ tx'[k].hash = tx[k].hash
      BY <2>1, RowsKept
    <3>2. \A b \in 0 .. MaxHead, h \in 0 .. MaxForks : Genuine(k, b, h) => GenuineNext(k, b, h)
      BY <1>0, GenuineKept
    <3>3. tx[k].block \in 0 .. MaxHead /\ tx[k].hash \in 0 .. MaxForks /\ Genuine(k, tx[k].block, tx[k].hash)
      BY <1>0, <2>1 DEF TypeInv, TypeOK, TxRow, LogsGenuine
    <3> QED
      BY <3>1, <3>2, <3>3
  <2>2. CASE ~Recorded(k)
    <3>1. PICK p \in Procs : /\ call[p].pc = "record" /\ call[p].log.tip = k
                            /\ tx'[k].block = call[p].log.block /\ tx'[k].hash = call[p].log.hash
      BY <2>2, RowsKept
    <3>2. \A l \in Log : Genuine(l.tip, l.block, l.hash) => GenuineNext(l.tip, l.block, l.hash)
      BY <1>0, GenuineKept DEF Log
    <3>3. call[p].log \in Log /\ Genuine(call[p].log.tip, call[p].log.block, call[p].log.hash)
      BY <1>0, <3>1 DEF TypeInv, LogsGenuine
    <3> QED
      BY <3>1, <3>2, <3>3
  <2> QED
    BY <2>1, <2>2
<1>7. UpdatesRecorded'
  <2>0. \A k \in Tips : Recorded(k) => RecordedNext(k)
    BY RowsKept
  <2>1. \A p \in Procs : call'[p].pc = "mark_removed" => RecordedNext(call'[p].log.tip)
    <3> SUFFICES ASSUME NEW p \in Procs, call'[p].pc = "mark_removed" PROVE RecordedNext(call'[p].log.tip)
      OBVIOUS
    <3>1. Recorded(call'[p].log.tip)
      BY <1>0, CallSteps DEF UpdatesRecorded
    <3>2. call'[p].log.tip \in Tips
      BY <1>1 DEF TypeInv, Log
    <3> QED
      BY <2>0, <3>1, <3>2
  <2>2. \A k \in scan'.pending : RecordedNext(k)
    <3>1. \A k \in scan'.pending : Recorded(k) /\ k \in Tips
      BY <1>0, <1>1, ScanSteps DEF UpdatesRecorded, TypeInv, TypeOK, ScanState
    <3> QED
      BY <2>0, <3>1
  <2>3. scan'.pc \in Writing => RecordedNext(scan'.cur)
    <3>1. scan'.pc \in Writing => Recorded(scan'.cur) /\ scan'.cur \in Tips
      BY <1>0, <1>1, ScanSteps DEF UpdatesRecorded, TypeInv
    <3> QED
      BY <2>0, <3>1
  <2> QED
    BY <2>1, <2>2, <2>3 DEF UpdatesRecorded, Recorded, RecordedNext
<1>8. LogsGenuine'
  BY <1>3, <1>4, <1>5, <1>6 DEF LogsGenuine, Genuine, GenuineNext, Recorded, RecordedNext
<1> QED
  BY <1>1, <1>7, <1>8 DEF KnowledgeInv

\* So it is in every behaviour.
LEMMA Knowledge == Spec => []KnowledgeInv
BY InitKnowledge, NextKnowledge, PTL DEF Spec

-----------------------------------------------------------------------------
(* Confirmation.                                                           *)

\* As deep as a reorganisation cannot reach, in the block its row names.
Settled(k) ==
  /\ Recorded(k)
  /\ tx[k].block + confirmationBlocks <= head + 1
  /\ hash[tx[k].block] = tx[k].hash

SettledInv ==
  /\ scan.pc \in {"mark_confirmed", "normalize"} => Settled(scan.cur)
  /\ \A k \in normalized : Settled(k)

SettledNext(k) ==
  /\ RecordedNext(k)
  /\ tx'[k].block + confirmationBlocks <= head' + 1
  /\ hash'[tx'[k].block] = tx'[k].hash

\* No reorganisation shorter than the confirmation window reaches a settled tip.
LEMMA SettledKept ==
  ASSUME MaxDepth < confirmationBlocks, KnowledgeInv, [Next]_vars,
         NEW k \in Tips, Settled(k)
  PROVE  SettledNext(k)
<1>1. RecordedNext(k) /\ tx'[k].block = tx[k].block /\ tx'[k].hash = tx[k].hash
  BY RowsKept DEF Settled, Recorded, RecordedNext
<1> DEFINE b == tx[k].block
<1>2. b \in 1 .. head /\ b \in Blocks /\ b + confirmationBlocks <= head + 1 /\ head \in Nat
  BY ConstantsAssumption DEF KnowledgeInv, LogsGenuine, Genuine, Settled, TypeInv, TypeOK, Blocks
<1>3. head' >= head /\ head' \in Nat /\ hash'[b] = hash[b]
  <2>1. CASE NewBlock
    BY <1>2, <2>1 DEF NewBlock, KnowledgeInv, TypeInv, TypeOK
  <2>2. ASSUME NEW d \in 1 .. MaxDepth, Reorg(d) PROVE head' = head /\ hash'[b] = hash[b]
    <3>1. b \notin head - d + 1 .. head
      BY <1>2, ConstantsAssumption
    <3> HIDE DEF b
    <3>2. head' = head /\ hash' = [c \in Blocks |-> IF c \in head - d + 1 .. head THEN forks + 1 ELSE hash[c]]
      BY <2>2, Zenon DEF Reorg
    <3> QED
      BY <1>2, <3>1, <3>2
  <2>3. CASE UNCHANGED chain
    BY <1>2, <2>3 DEF chain
  <2> HIDE DEF b
  <2> QED
    BY <1>2, <2>1, <2>2, <2>3, ChainSteps
<1> QED
  BY <1>1, <1>2, <1>3, ConstantsAssumption DEF Settled, SettledNext

\* What is confirmed, or handed over, is settled and stays so.
LEMMA NextSettled ==
  ASSUME MaxDepth < confirmationBlocks, KnowledgeInv, SettledInv, [Next]_vars
  PROVE  SettledInv'
<1> USE DEF KnowledgeInv, TypeInv
<1>1. \A k \in Tips : Settled(k) => SettledNext(k)
  BY SettledKept
<1>2. ASSUME scan'.pc \in {"mark_confirmed", "normalize"}
      PROVE  scan'.cur \in Tips /\ Settled(scan'.cur)
  <2>1. scan'.cur \in Tips
    BY <1>2, NextTypes DEF Writing
  <2>2. CASE scan' = scan
    BY <1>2, <2>1, <2>2 DEF SettledInv
  <2>3. ASSUME NEW k \in Tips, ConfirmCheck(k) PROVE Settled(scan'.cur)
    <3>1. scan' = [scan EXCEPT !.cur = k, !.pending = scan.pending \ {k},
                     !.pc = IF hash[tx[k].block] # tx[k].hash THEN "mark_reorged"
                            ELSE IF Deep(k) THEN "mark_confirmed"
                            ELSE "mark_pending"]
      BY <2>3, Zenon DEF ConfirmCheck
    <3>2. scan'.cur = k /\ hash[tx[k].block] = tx[k].hash /\ Deep(k)
      BY <1>2, <3>1 DEF TypeOK, ScanState
    <3>3. Recorded(k)
      BY <2>3 DEF ConfirmCheck, UpdatesRecorded
    <3> QED
      BY <3>2, <3>3, ConstantsAssumption DEF Deep, Settled, TypeOK, TxRow
  <2>4. CASE scan.pc = "mark_confirmed" /\ scan' = [scan EXCEPT !.pc = "normalize"]
    BY <2>1, <2>4 DEF SettledInv, TypeOK, ScanState
  <2>5. ASSUME NEW pending, scan' = Continue(pending) PROVE FALSE
    BY <1>2, <2>5 DEF Continue, NoScan, TypeOK, ScanState
  <2>6. CASE scan' = NoScan
    BY <1>2, <2>6 DEF NoScan
  <2>7. ScanStart \/ ScanGetLogs \/ ScanLog \/ ScanSaveCursor => FALSE
    BY <1>2 DEF ScanStart, ScanGetLogs, ScanLog, ScanSaveCursor, NoScan, TypeOK, ScanState
  <2>8. \/ scan' = scan \/ scan' = NoScan \/ ScanStart \/ ScanGetLogs \/ ScanLog \/ ScanSaveCursor
        \/ (\E k \in Tips : ConfirmCheck(k)) \/ (\E pending : scan' = Continue(pending))
        \/ (scan.pc = "mark_confirmed" /\ scan' = [scan EXCEPT !.pc = "normalize"])
    BY Zenon DEF Next, vars, NewBlock, Reorg, LogStep, MarkRemoved, RecordTx, EnqueueDetected, HandlerFails, Deliver,
         ScanStep, ConfirmList, ConfirmWrite, EnqueueNormalize, ScanFails
  <2> QED
    BY <2>1, <2>2, <2>3, <2>4, <2>5, <2>6, <2>7, <2>8
<1>3. \A k \in normalized' : k \in Tips /\ Settled(k)
  <2>1. CASE normalized' = normalized
    BY <2>1 DEF SettledInv, TypeOK
  <2>2. CASE EnqueueNormalize
    BY <2>2 DEF EnqueueNormalize, SettledInv, TypeOK, Writing
  <2> QED
    BY <2>1, <2>2 DEF Next, vars, NewBlock, Reorg, LogStep, MarkRemoved, RecordTx, EnqueueDetected, HandlerFails, Deliver,
         ScanStart, ScanStep, ScanGetLogs, ScanLog, ScanSaveCursor, ConfirmList, ConfirmCheck, ConfirmWrite, ScanFails, outbox
<1>4. (scan'.pc \in {"mark_confirmed", "normalize"} => SettledNext(scan'.cur)) /\ \A k \in normalized' : SettledNext(k)
  BY <1>1, <1>2, <1>3
<1> QED
  BY <1>4 DEF SettledInv, Settled, SettledNext, Recorded, RecordedNext

\* As long as no reorganisation is as deep as the confirmation window, what
\* was handed to support.normalize stays canonical, in the block it was
\* recorded from, for any chain, any callbacks and any failures.
THEOREM NormalizedStaysCanonical ==
  ASSUME MaxDepth < confirmationBlocks
  PROVE  Spec => []NormalizedIsCanonical
<1>1. Init => SettledInv
  BY DEF Init, SettledInv, NoScan
<1>2. KnowledgeInv /\ SettledInv /\ [Next]_vars => SettledInv'
  BY NextSettled
<1>3. KnowledgeInv /\ SettledInv => NormalizedIsCanonical
  BY DEF KnowledgeInv, LogsGenuine, Genuine, SettledInv, Settled, NormalizedIsCanonical, TypeInv, TypeOK
<1> QED
  BY <1>1, <1>2, <1>3, Knowledge, PTL DEF Spec

-----------------------------------------------------------------------------
(* Coverage.                                                               *)

\* What the scan still has in hand of the blocks that it is about to pass.
InHand(k) ==
  \/ \E l \in scan.logs : l.tip = k
  \/ call[Scanner].pc = "record" /\ call[Scanner].log.tip = k

CoverageInv ==
  /\ CursorCoversTips
  /\ \A l \in scan.logs : ~l.removed
  /\ forks = 0 /\ scan.pc = "logs" =>
       \A k \in Tips : mined[k] \in cursor + 1 .. scan.latest => Recorded(k) \/ InHand(k)

\* A new block holds nothing that the cursor or the running scan has passed.
LEMMA CoverageOfChain ==
  ASSUME KnowledgeInv, CoverageInv, NewBlock \/ (\E d \in 1 .. MaxDepth : Reorg(d))
  PROVE  CoverageInv'
<1> USE DEF CoverageInv, KnowledgeInv, TypeInv, TypeOK, CursorCoversTips, Recorded, InHand
<1>1. CASE NewBlock
  <2>1. PICK K \in SUBSET {t \in Tips : mined[t] = 0} :
          mined' = [t \in Tips |-> IF t \in K THEN head + 1 ELSE mined[t]]
    BY <1>1 DEF NewBlock
  <2>2. UNCHANGED <<forks, tx, cursor, call, scan>>
    BY <1>1 DEF NewBlock
  <2>3. \A k \in Tips : mined'[k] \in 1 .. scan.latest \/ mined'[k] \in 1 .. cursor => mined'[k] = mined[k]
    BY <2>1, ConstantsAssumption
  <2> QED
    BY <2>2, <2>3, ConstantsAssumption
<1>2. CASE \E d \in 1 .. MaxDepth : Reorg(d)
  BY <1>2, ConstantsAssumption DEF Reorg
<1> QED
  BY <1>1, <1>2

\* No step of another process takes a log out of the scan's hand.
LEMMA CoverageOfCalls ==
  ASSUME KnowledgeInv, CoverageInv, [Next]_vars,
         UNCHANGED <<chain, cursor, scan>>,
         call'[Scanner] = call[Scanner]
  PROVE  CoverageInv'
<1>1. \A k \in Tips : Recorded(k) => Recorded(k)'
  BY RowsKept DEF Recorded, RecordedNext
<1>2. CursorCoversTips'
  BY <1>1 DEF CoverageInv, CursorCoversTips, chain
<1>3. \A k \in Tips : InHand(k)' = InHand(k)
  BY DEF InHand
<1>4. (\A l \in scan.logs : ~l.removed)'
  BY DEF CoverageInv
<1>5. (forks = 0 /\ scan.pc = "logs" =>
        \A k \in Tips : mined[k] \in cursor + 1 .. scan.latest => Recorded(k) \/ InHand(k))'
  BY <1>1, <1>3 DEF CoverageInv, chain
<1> QED
  BY <1>2, <1>4, <1>5 DEF CoverageInv

\* A log leaves the scan's hand when its row is there.
LEMMA CoverageOfScanner ==
  ASSUME KnowledgeInv, CoverageInv, LogStep(Scanner)
  PROVE  CoverageInv'
<1> USE DEF CoverageInv, KnowledgeInv, TypeInv, TypeOK, CursorCoversTips
<1>1. Scanner \in Procs /\ UNCHANGED <<chain, cursor, scan>>
  BY DEF Procs, LogStep, MarkRemoved, RecordTx, EnqueueDetected
<1>2. \A k \in Tips : Recorded(k) => Recorded(k)'
  BY RowsKept, Zenon DEF Next, ScanStep, Recorded, RecordedNext
<1>3. ASSUME NEW k \in Tips, InHand(k) PROVE (Recorded(k) \/ InHand(k))'
  <2>1. CASE \E l \in scan.logs : l.tip = k
    BY <1>1, <2>1 DEF InHand
  <2>2. CASE call[Scanner].pc = "record" /\ call[Scanner].log.tip = k
    <3>1. RecordTx(Scanner)
      BY <2>2 DEF LogStep, MarkRemoved, EnqueueDetected
    <3>2. tx'[k] = Insert(k, call[Scanner].log)
      BY <2>2, <3>1 DEF RecordTx
    <3> QED
      BY <3>2 DEF Insert, Recorded
  <2> QED
    BY <1>3, <2>1, <2>2 DEF InHand
<1> QED
  BY <1>1, <1>2, <1>3 DEF chain

\* The steps of catchUp itself, saveChainCursor above all.
LEMMA CoverageOfScan ==
  ASSUME KnowledgeInv, CoverageInv,
         \/ ScanStart \/ ScanGetLogs \/ ScanLog \/ ScanSaveCursor \/ ConfirmList
         \/ (\E k \in Tips : ConfirmCheck(k)) \/ ConfirmWrite \/ EnqueueNormalize \/ ScanFails
  PROVE  CoverageInv'
<1> USE DEF KnowledgeInv, TypeInv, TypeOK
<1>0. UNCHANGED <<mined, forks>>
  BY DEF chain, ScanStart, ScanGetLogs, ScanLog, ScanSaveCursor, ConfirmList, ConfirmCheck,
         ConfirmWrite, EnqueueNormalize, ScanFails
<1>1. \A k \in Tips : Recorded(k) => Recorded(k)'
  BY RowsKept, Zenon DEF Next, ScanStep, Recorded, RecordedNext
<1>2. CASE ScanGetLogs
  <2> DEFINE due == {t \in Tips : mined[t] \in cursor + 1 .. scan.latest}
             logs == {CanonicalLog(k) : k \in due}
  <2>1. scan' = [scan EXCEPT !.pc = "logs", !.logs = logs] /\ tx' = tx /\ cursor' = cursor /\ call' = call
    BY <1>2, Zenon DEF ScanGetLogs
  <2>2. \A k \in due : CanonicalLog(k) \in logs /\ CanonicalLog(k).tip = k
    BY DEF CanonicalLog
  <2>3. \A l \in logs : ~l.removed
    BY DEF CanonicalLog
  <2> HIDE DEF logs
  <2>4. scan'.logs = logs /\ scan'.latest = scan.latest
    BY <2>1 DEF ScanState
  <2>5. \A k \in Tips : mined[k] \in cursor + 1 .. scan.latest => \E l \in logs : l.tip = k
    BY <2>2
  <2> QED
    BY <1>0, <2>1, <2>3, <2>4, <2>5 DEF CoverageInv, CursorCoversTips, Recorded, InHand
<1>3. CASE ScanLog
  <2>1. PICK log \in scan.logs : BeginLog(Scanner, log) /\ scan' = [scan EXCEPT !.logs = scan.logs \ {log}]
    BY <1>3, Zenon DEF ScanLog
  <2>2. tx' = tx /\ cursor' = cursor /\ ~log.removed /\ Scanner \in Procs
    BY <1>3 DEF ScanLog, CoverageInv, Procs
  <2>3. call[Scanner].pc = "idle" /\ call'[Scanner].pc = "record" /\ call'[Scanner].log = log
    BY <2>1, <2>2 DEF BeginLog
  <2>4. scan'.logs = scan.logs \ {log} /\ scan'.latest = scan.latest /\ scan'.pc = scan.pc
    BY <2>1 DEF ScanState
  <2>5. \A k \in Tips : InHand(k) => InHand(k)'
    BY <2>3, <2>4 DEF InHand
  <2> QED
    BY <1>0, <2>2, <2>4, <2>5 DEF CoverageInv, CursorCoversTips, Recorded
<1>4. CASE ScanSaveCursor
  <2>1. cursor' = scan.latest /\ scan.pc = "logs" /\ scan.logs = {} /\ call[Scanner].pc = "idle" /\ tx' = tx
    BY <1>4 DEF ScanSaveCursor
  <2>2. scan'.pc = "list" /\ scan'.logs = {}
    BY <1>4, <2>1 DEF ScanSaveCursor, ScanState
  <2>3. forks = 0 => \A k \in Tips : mined[k] \in cursor + 1 .. scan.latest => Recorded(k)
    BY <2>1 DEF CoverageInv, InHand
  <2>4. \A k \in Tips : mined[k] \in 1 .. scan.latest => mined[k] \in 1 .. cursor \/ mined[k] \in cursor + 1 .. scan.latest
    BY ConstantsAssumption
  <2> QED
    BY <1>0, <2>1, <2>2, <2>3, <2>4 DEF CoverageInv, CursorCoversTips, Recorded
<1>5. CASE cursor' = cursor /\ scan'.pc # "logs" /\ scan'.logs \subseteq scan.logs
  BY <1>0, <1>1, <1>5 DEF CoverageInv, CursorCoversTips
<1>6. \A pending : Continue(pending).pc # "logs" /\ Continue(pending).logs \subseteq scan.logs
  BY DEF Continue, NoScan, ScanState
<1>7. NoScan.pc = "idle" /\ NoScan.logs = {}
  BY DEF NoScan
<1>8. ScanStart => cursor' = cursor /\ scan'.pc # "logs" /\ scan'.logs \subseteq scan.logs
  BY DEF ScanStart, NoScan
<1>9. ASSUME NEW k \in Tips, ConfirmCheck(k)
      PROVE  cursor' = cursor /\ scan'.pc # "logs" /\ scan'.logs = scan.logs
  BY <1>9 DEF ConfirmCheck, ScanState
<1>10. ConfirmWrite => cursor' = cursor /\ scan'.pc # "logs" /\ scan'.logs \subseteq scan.logs
  <2> SUFFICES ASSUME ConfirmWrite PROVE cursor' = cursor /\ scan'.pc # "logs" /\ scan'.logs \subseteq scan.logs
    OBVIOUS
  <2>1. scan' = Continue(scan.pending) \/ scan' = [scan EXCEPT !.pc = "normalize"]
    BY Zenon DEF ConfirmWrite
  <2> QED
    BY <1>6, <2>1 DEF ConfirmWrite, ScanState
<1>11. ConfirmList \/ EnqueueNormalize \/ ScanFails => cursor' = cursor /\ scan'.pc # "logs" /\ scan'.logs \subseteq scan.logs
  BY <1>6, <1>7 DEF ConfirmList, EnqueueNormalize, ScanFails
<1> QED
  BY <1>2, <1>3, <1>4, <1>5, <1>8, <1>9, <1>10, <1>11

\* Coverage is inductive.
LEMMA NextCoverage == KnowledgeInv /\ CoverageInv /\ [Next]_vars => CoverageInv'
<1> SUFFICES ASSUME KnowledgeInv, CoverageInv, [Next]_vars PROVE CoverageInv'
  OBVIOUS
<1>1. ASSUME NEW h \in Handlers, LogStep(h) \/ HandlerFails(h) \/ \E log \in feed : Deliver(h, log)
      PROVE  UNCHANGED <<chain, cursor, scan>> /\ call'[Scanner] = call[Scanner]
  <2>1. h # Scanner
    BY ConstantsAssumption
  <2>2. UNCHANGED <<chain, cursor, scan>>
    BY <1>1 DEF LogStep, MarkRemoved, RecordTx, EnqueueDetected, HandlerFails, Deliver
  <2>3. PICK c : call' = [call EXCEPT ![h] = c]
    BY <1>1, Zenon DEF LogStep, MarkRemoved, RecordTx, EnqueueDetected, HandlerFails, Deliver, BeginLog
  <2> QED
    BY <2>1, <2>2, <2>3 DEF KnowledgeInv, TypeInv, TypeOK, Procs
<1>2. CASE UNCHANGED vars
  BY <1>2, CoverageOfCalls DEF vars, chain
<1>3. CASE \E h \in Handlers : LogStep(h) \/ HandlerFails(h) \/ \E log \in feed : Deliver(h, log)
  BY <1>1, <1>3, CoverageOfCalls
<1>4. CASE ScanStep
  BY <1>4, CoverageOfScanner, CoverageOfScan DEF ScanStep
<1> QED
  BY <1>2, <1>3, <1>4, CoverageOfChain, CoverageOfScan DEF Next

\* While the chain does not reorganise, no tip in a block that the cursor has
\* passed is missing from tip_transactions, however many scans and callbacks
\* run and reject.
THEOREM CursorSkipsNoTip == Spec => []CursorCoversTips
<1>1. Init => CoverageInv
  BY ConstantsAssumption DEF Init, CoverageInv, CursorCoversTips, NoScan
<1>2. CoverageInv => CursorCoversTips
  BY DEF CoverageInv
<1> QED
  BY <1>1, <1>2, NextCoverage, Knowledge, PTL DEF Spec

=============================================================================
