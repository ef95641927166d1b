---------------------------- MODULE ChainListener ----------------------------
(***************************************************************************)
(* TipRouterChainListener: the catch-up scan and the confirmation pass of  *)
(* catchUp, the log handler processLog that the scan and the WebSocket     *)
(* subscription share, and the rows they write: tip_transactions,          *)
(* chain_cursors and the outbox keys chain.tip.detected and                *)
(* support.normalize.                                                      *)
(*                                                                         *)
(* One step is one awaited call of the repository or of the RPC provider.  *)
(* The chain is external: it grows, and it replaces its last blocks.  A    *)
(* block's hash is the number of the fork it was mined on.                 *)
(***************************************************************************)
EXTENDS Integers, FiniteSets

CONSTANTS
  Tips,               \* chain logs, by chain_id:contract:tx_hash:log_index
  NoTip,              \* no log in hand
  Handlers,           \* concurrently running subscription callbacks
  Scanner,            \* the process that runs catchUp
  confirmationBlocks, \* ChainListenerConfig
  MaxHead,            \* bound: length of the chain
  MaxForks,           \* bound: number of reorganisations
  MaxDepth,           \* how many blocks a reorganisation replaces at most
  MaxFailures         \* bound: how many runs reject or die half way

ASSUME ConstantsAssumption ==
  /\ NoTip \notin Tips
  /\ Scanner \notin Handlers
  /\ confirmationBlocks \in Nat \ {0}
  /\ MaxHead \in Nat /\ MaxForks \in Nat /\ MaxDepth \in Nat /\ MaxFailures \in Nat

VARIABLES
  head,        \* external: number of the latest block
  hash,        \* external: the canonical block hash at each height
  mined,       \* external: the canonical block holding each log, 0 if none
  forks,       \* external: how many reorganisations happened
  feed,        \* external: notifications on their way to the subscription
  tx,          \* the tip_transactions row of each log
  cursor,      \* chain_cursors.last_scanned_block
  detected,    \* keys with a chain.tip.detected job
  normalized,  \* keys with a support.normalize job
  call,        \* where each processLog call is
  scan,        \* where catchUp is
  failures     \* how many runs rejected so far

chain == <<head, hash, mined, forks>>
outbox == <<detected, normalized>>
vars == <<head, hash, mined, forks, feed, tx, cursor, detected, normalized, call, scan, failures>>

Blocks == 1 .. MaxHead
Procs == Handlers \cup {Scanner}

\* startBlock is 1, so the cursor of a listener that never ran is 0.
Log == [tip : Tips, block : Blocks, hash : 0 .. MaxForks, removed : BOOLEAN]
NoLog == [tip |-> NoTip, block |-> 0, hash |-> 0, removed |-> FALSE]

CanonicalLog(k) ==
  [tip |-> k, block |-> mined[k], hash |-> hash[mined[k]], removed |-> FALSE]

-----------------------------------------------------------------------------
(* The chain and the notifications of the subscription.                    *)

NewBlock ==
  /\ head < MaxHead
  /\ head' = head + 1
  /\ hash' = [hash EXCEPT ![head + 1] = forks]
  /\ \E K \in SUBSET {k \in Tips : mined[k] = 0} :
       /\ mined' = [k \in Tips |-> IF k \in K THEN head + 1 ELSE mined[k]]
       /\ feed' = feed \cup {[tip |-> k, block |-> head + 1, hash |-> forks, removed |-> FALSE] : k \in K}
  /\ UNCHANGED <<forks, tx, cursor, outbox, call, scan, failures>>

\* The last d blocks are replaced; a log in one of them moves to another of
\* the new blocks or back to the mempool.
Reorg(d) ==
  /\ forks < MaxForks
  /\ d <= head
  /\ LET replaced == head - d + 1 .. head
         orphans == {k \in Tips : mined[k] \in replaced}
     IN  /\ hash' = [b \in Blocks |-> IF b \in replaced THEN forks + 1 ELSE hash[b]]
         /\ \E move \in [orphans -> replaced \cup {0}] :
              /\ mined' = [k \in Tips |-> IF k \in orphans THEN move[k] ELSE mined[k]]
              /\ feed' = feed
                   \cup {[CanonicalLog(k) EXCEPT !.removed = TRUE] : k \in orphans}
                   \cup {[tip |-> k, block |-> move[k], hash |-> forks + 1, removed |-> FALSE] :
                           k \in {o \in orphans : move[o] # 0}}
  /\ forks' = forks + 1
  /\ UNCHANGED <<head, tx, cursor, outbox, call, scan, failures>>

-----------------------------------------------------------------------------
(* processLog.                                                             *)

NoTx == [status |-> "none", block |-> 0, hash |-> 0]

Recorded(k) == tx[k].status # "none"

NoCall == [pc |-> "idle", log |-> NoLog, found |-> FALSE]

\* findTipTransactionByChainLog; a removed log of an unknown tip is dropped.
BeginLog(p, log) ==
  /\ call[p].pc = "idle"
  /\ call' = [call EXCEPT ![p] =
       IF ~log.removed THEN [pc |-> "record", log |-> log, found |-> Recorded(log.tip)]
       ELSE IF Recorded(log.tip) THEN [pc |-> "mark_removed", log |-> log, found |-> TRUE]
       ELSE NoCall]

\* updateTipTransactionByChainLog with {status: "reorged"}, whatever the
\* status was and whatever block the removed log was in.
MarkRemoved(p) ==
  /\ call[p].pc = "mark_removed"
  /\ tx' = [tx EXCEPT ![call[p].log.tip].status = "reorged"]
  /\ call' = [call EXCEPT ![p] = NoCall]
  /\ UNCHANGED <<chain, feed, cursor, outbox, scan, failures>>

\* recordTipTransaction: on conflict do nothing, whatever the existing row says.
Insert(k, log) ==
  IF Recorded(k) THEN tx[k] ELSE [status |-> "pending_confirmation", block |-> log.block, hash |-> log.hash]

RecordTx(p) ==
  /\ call[p].pc = "record"
  /\ LET log == call[p].log
     IN  tx' = [tx EXCEPT ![log.tip] = Insert(log.tip, log)]
  /\ call' = [call EXCEPT ![p] = IF call[p].found THEN NoCall ELSE [@ EXCEPT !.pc = "enqueue"]]
  /\ UNCHANGED <<chain, feed, cursor, outbox, scan, failures>>

EnqueueDetected(p) ==
  /\ call[p].pc = "enqueue"
  /\ detected' = detected \cup {call[p].log.tip}
  /\ call' = [call EXCEPT ![p] = NoCall]
  /\ UNCHANGED <<chain, feed, tx, cursor, normalized, scan, failures>>

LogStep(p) == MarkRemoved(p) \/ RecordTx(p) \/ EnqueueDetected(p)

\* The subscription hands a notification to processLog without awaiting it,
\* so the statements of several calls reach the database in any order.
Deliver(h, log) ==
  /\ log \in feed
  /\ feed' = feed \ {log}
  /\ BeginLog(h, log)
  /\ UNCHANGED <<chain, tx, cursor, outbox, scan, failures>>

-----------------------------------------------------------------------------
(* catchUp.                                                                *)

NoScan == [pc |-> "idle", latest |-> 0, logs |-> {}, pending |-> {}, cur |-> NoTip]

\* getLatestBlockNumber and getChainCursor.
ScanStart ==
  /\ scan.pc = "idle"
  /\ scan' = [NoScan EXCEPT !.latest = head,
                            !.pc = IF cursor + 1 > head THEN "list" ELSE "get_logs"]
  /\ UNCHANGED <<chain, feed, tx, cursor, outbox, call, failures>>

\* The chain may have changed since latest was read.
ScanGetLogs ==
  /\ scan.pc = "get_logs"
  /\ scan' = [scan EXCEPT !.pc = "logs",
       !.logs = {CanonicalLog(k) : k \in {t \in Tips : mined[t] \in cursor + 1 .. scan.latest}}]
  /\ UNCHANGED <<chain, feed, tx, cursor, outbox, call, failures>>

ScanLog ==
  /\ scan.pc = "logs"
  /\ \E log \in scan.logs :
       /\ BeginLog(Scanner, log)
       /\ scan' = [scan EXCEPT !.logs = @ \ {log}]
  /\ UNCHANGED <<chain, feed, tx, cursor, outbox, failures>>

\* Mutants: the next block to scan is saved; the head of the chain as it is by now.
ScanSaveCursor_Next ==
  /\ scan.pc = "logs"
  /\ scan.logs = {} /\ call[Scanner].pc = "idle"
  /\ cursor' = scan.latest + 1
  /\ scan' = [scan EXCEPT !.pc = "list"]
  /\ UNCHANGED <<chain, feed, tx, outbox, call, failures>>

ScanSaveCursor_Head ==
  /\ scan.pc = "logs"
  /\ scan.logs = {} /\ call[Scanner].pc = "idle"
  /\ cursor' = head
  /\ scan' = [scan EXCEPT !.pc = "list"]
  /\ UNCHANGED <<chain, feed, tx, outbox, call, failures>>

ScanSaveCursor ==
  /\ scan.pc = "logs"
  /\ scan.logs = {} /\ call[Scanner].pc = "idle"
  /\ cursor' = scan.latest
  /\ scan' = [scan EXCEPT !.pc = "list"]
  /\ UNCHANGED <<chain, feed, tx, outbox, call, failures>>

\* listPendingTipTransactions: the loop works on this snapshot.
\* Here and after each transaction, the run is over when none is left.
Continue(pending) ==
  IF pending = {} THEN NoScan
  ELSE [scan EXCEPT !.pc = "check", !.pending = pending, !.cur = NoTip]

ConfirmList ==
  /\ scan.pc = "list"
  /\ scan' = Continue({k \in Tips : tx[k].status = "pending_confirmation"})
  /\ UNCHANGED <<chain, feed, tx, cursor, outbox, call, failures>>

\* Mutants: one confirmation too few, one too many.
Deep_Early(k) == scan.latest - tx[k].block + 2 >= confirmationBlocks
Deep_Late(k) == scan.latest - tx[k].block + 1 > confirmationBlocks

Deep(k) == scan.latest - tx[k].block + 1 >= confirmationBlocks

\* getBlockHash, and what the answer and the depth lead to; the list is in
\* block order.
ConfirmCheck(k) ==
  /\ scan.pc = "check" /\ k \in scan.pending
  /\ \A o \in scan.pending : tx[k].block <= tx[o].block
  /\ scan' = [scan EXCEPT !.cur = k, !.pending = @ \ {k},
       !.pc = IF hash[tx[k].block] # tx[k].hash THEN "mark_reorged"
              ELSE IF Deep(k) THEN "mark_confirmed"
              ELSE "mark_pending"]
  /\ UNCHANGED <<chain, feed, tx, cursor, outbox, call, failures>>

\* The writes do not look at the status the row has by now.
ConfirmWrite ==
  /\ \/ /\ scan.pc = "mark_reorged"
        /\ tx' = [tx EXCEPT ![scan.cur].status = "reorged"]
        /\ scan' = Continue(scan.pending)
     \/ /\ scan.pc = "mark_pending"
        /\ tx' = [tx EXCEPT ![scan.cur].status = "pending_confirmation"]
        /\ scan' = Continue(scan.pending)
     \/ /\ scan.pc = "mark_confirmed"
        /\ tx' = [tx EXCEPT ![scan.cur].status = "confirmed"]
        /\ scan' = [scan EXCEPT !.pc = "normalize"]
  /\ UNCHANGED <<chain, feed, cursor, outbox, call, failures>>

EnqueueNormalize ==
  /\ scan.pc = "normalize"
  /\ normalized' = normalized \cup {scan.cur}
  /\ scan' = Continue(scan.pending)
  /\ UNCHANGED <<chain, feed, tx, cursor, detected, call, failures>>

-----------------------------------------------------------------------------
(* A provider or repository call rejects, or the process dies: a callback  *)
(* ends silently, catchUp rejects and is run again.                        *)

HandlerFails(h) ==
  /\ call[h].pc # "idle"
  /\ failures < MaxFailures
  /\ failures' = failures + 1
  /\ call' = [call EXCEPT ![h] = NoCall]
  /\ UNCHANGED <<chain, feed, tx, cursor, outbox, scan>>

ScanFails ==
  /\ scan.pc # "idle"
  /\ failures < MaxFailures
  /\ failures' = failures + 1
  /\ scan' = NoScan
  /\ call' = [call EXCEPT ![Scanner] = NoCall]
  /\ UNCHANGED <<chain, feed, tx, cursor, outbox>>

Init ==
  /\ head = 0 /\ forks = 0
  /\ hash = [b \in Blocks |-> 0]
  /\ mined = [k \in Tips |-> 0]
  /\ feed = {}
  /\ tx = [k \in Tips |-> NoTx]
  /\ cursor = 0
  /\ detected = {} /\ normalized = {}
  /\ call = [p \in Procs |-> NoCall]
  /\ scan = NoScan
  /\ failures = 0

ScanStep ==
  \/ ScanGetLogs \/ ScanLog \/ LogStep(Scanner) \/ ScanSaveCursor
  \/ ConfirmList \/ (\E k \in Tips : ConfirmCheck(k)) \/ ConfirmWrite \/ EnqueueNormalize

Next ==
  \/ NewBlock
  \/ \E d \in 1 .. MaxDepth : Reorg(d)
  \/ \E h \in Handlers : LogStep(h) \/ HandlerFails(h) \/ \E log \in feed : Deliver(h, log)
  \/ ScanStart \/ ScanStep \/ ScanFails

Spec == Init /\ [][Next]_vars

(***************************************************************************)
(* The chain grows, catchUp is run again and again and its awaits return,  *)
(* and so do those of a callback.  A notification need not arrive.         *)
(***************************************************************************)
Fairness ==
  /\ WF_vars(NewBlock) /\ WF_vars(ScanStart) /\ WF_vars(ScanStep)
  /\ \A h \in Handlers : WF_vars(LogStep(h))

FairSpec == Spec /\ Fairness

-----------------------------------------------------------------------------
(* What the listener promises.                                             *)

TxRow == [status : {"none", "pending_confirmation", "confirmed", "reorged"},
          block : 0 .. MaxHead, hash : 0 .. MaxForks]

CallState == [pc : {"idle", "record", "mark_removed", "enqueue"},
              log : Log \cup {NoLog}, found : BOOLEAN]

ScanState ==
  [pc : {"idle", "get_logs", "logs", "list", "check", "mark_reorged", "mark_pending",
         "mark_confirmed", "normalize"},
   latest : 0 .. MaxHead, logs : SUBSET Log, pending : SUBSET Tips, cur : Tips \cup {NoTip}]

\* Types; the cursor never runs ahead of the chain, so no block is skipped
\* before it exists.
TypeOK ==
  /\ head \in 0 .. MaxHead
  /\ hash \in [Blocks -> 0 .. MaxForks]
  /\ mined \in [Tips -> 0 .. MaxHead]
  /\ forks \in 0 .. MaxForks
  /\ feed \subseteq Log
  /\ tx \in [Tips -> TxRow]
  /\ cursor \in 0 .. head
  /\ detected \subseteq Tips /\ normalized \subseteq Tips
  /\ call \in [Procs -> CallState]
  /\ scan \in ScanState
  /\ failures \in 0 .. MaxFailures

\* A tip handed to support.normalize is on the canonical chain, in the very
\* block it was recorded from, and stays there, as long as no reorganisation
\* is as deep as the confirmation window: whatever the chain did between the
\* calls of catchUp, whatever notifications were late, lost or out of order.
NormalizedIsCanonical ==
  \A k \in normalized : mined[k] = tx[k].block /\ hash[tx[k].block] = tx[k].hash

\* While the chain does not reorganise, a log the cursor has passed is
\* recorded, also when scans reject half way: no tip is skipped.
CursorCoversTips ==
  forks = 0 => \A k \in Tips : mined[k] \in 1 .. cursor => Recorded(k)

\* Without reorganisations and failures, every tip that the chain still has
\* room to confirm is announced and normalized, with the subscription and
\* the scan racing for it.
EveryTipNormalized ==
  [](forks = 0 /\ failures = 0) =>
    \A k \in Tips :
      mined[k] \in 1 .. MaxHead - confirmationBlocks + 1 ~> k \in detected /\ k \in normalized

\* docs/CHAIN_LISTENER.md: "Confirmed transactions enqueue support.normalize
\* exactly once by idempotency key."
ConfirmedIsNormalized ==
  \A k \in Tips : tx[k].status = "confirmed" ~> k \in normalized
=============================================================================
