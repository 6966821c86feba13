----------------------------- MODULE SpotEngine -----------------------------
(***************************************************************************)
(* The matching engine of one product of gitbitex-spot                     *)
(* (cex/gitbitex-spot/matching/engine.go with its Kafka reader, Kafka log  *)
(* store and Redis snapshot store): four goroutines joined by channels.    *)
(*                                                                         *)
(*   fetcher --orderCh--> applier --logCh--> committer --> log topic       *)
(*      ^                  ^    \--snapshotApproveReqCh-->  |              *)
(*  order topic      snapshotReqCh                      snapshotCh         *)
(*                          \------- snapshots <-----------/ --> Redis     *)
(*                                                                         *)
(* The process may crash between any two steps; what Kafka and Redis hold  *)
(* survives, and NewEngine restores the rest from the last snapshot.       *)
(***************************************************************************)
EXTENDS SpotOrderBook

CONSTANTS
  Topics,          \* the order topics to start from: sequences of messages
                   \* [order |-> an element of Orders, cancel |-> BOOLEAN]
  SnapshotDelta,   \* offsets that must pass between snapshots (1000)
  LogBatch,        \* logs the committer buffers at most (100)
  OrderChCap,      \* capacity of orderCh (10000)
  LogChCap,        \* capacity of logCh (10000)
  MaxRequests,     \* snapshot requests under way at once; each of the
                   \* snapshot channels holds 32, so below that none blocks
  MaxCrashes       \* crashes of the process

ASSUME EngineAssumption ==
  /\ \A t \in Topics : t \in Seq([order : Orders, cancel : BOOLEAN])
  /\ SnapshotDelta \in Nat
  /\ LogBatch \in Nat \ {0}
  /\ OrderChCap \in Nat \ {0}
  /\ LogChCap \in Nat \ {0}
  /\ MaxRequests \in Nat
  /\ MaxCrashes \in Nat

NoSnapshot == [orderOffset |-> 0, logSeq |-> 0, tradeSeq |-> 0,
               depths |-> [s \in Sides |-> {}], window |-> {}, exists |-> FALSE]

Snapshot ==
  [orderOffset : Nat, logSeq : Nat, tradeSeq : Nat,
   depths : [Sides -> SUBSET BookOrder],
   window : SUBSET (0 .. WindowCap - 1), exists : BOOLEAN]

VARIABLES
  topic,        \* the Kafka topic of order messages; offsets start at 0
  logTopic,     \* the Kafka topic of logs
  stored,       \* the snapshot in Redis
  fetchPos,     \* fetcher: offset of the next message
  orderCh,      \* offsets of the messages in the channel
  cur,          \* applier: offset of the order it is working on, or -1
  orderOffset,  \* applier: offset of the last order it finished
  logCh,        \* logs
  committing,   \* committer: it has read its initial seq
  seq,          \* committer: seq of the last log it accepted
  buf,          \* committer: logs accepted and not yet stored
  pending,      \* committer: the snapshot that waits for approval
  reqCh,        \* snapshotReqCh: offsets of the last stored snapshot
  approveCh,    \* snapshotApproveReqCh
  snapshotCh,   \* approved snapshots
  lastOffset,   \* snapshots: offset of the last snapshot it stored
  crashes,
  lost          \* history: numbers of the logs that two races lost, see
                \* CommitterStart and Restart

persistent == <<topic, logTopic, stored>>
applierVars == <<orderCh, cur, orderOffset>>
committerVars == <<committing, seq, buf, pending>>
snapshotVars == <<reqCh, approveCh, snapshotCh, lastOffset>>
vars == <<bookVars, persistent, fetchPos, applierVars, logCh, committerVars,
          snapshotVars, crashes, lost>>

-----------------------------------------------------------------------------
(* The fetcher. *)

\* Faults: the offset is read again, skipped, or off by one downwards.
StartOffsetAgain(offset) == offset
StartOffsetSkip(offset) == IF offset > 0 THEN offset + 2 ELSE offset
StartOffsetBack(offset) == offset - 1

\* runFetcher starts after the snapshot's offset, or at 0 without one.
StartOffset(offset) == IF offset > 0 THEN offset + 1 ELSE offset

Fetch ==
  /\ fetchPos < Len(topic)
  /\ Len(orderCh) < OrderChCap
  /\ orderCh' = Append(orderCh, fetchPos)
  /\ fetchPos' = fetchPos + 1
  /\ UNCHANGED <<bookVars, persistent, cur, orderOffset, logCh, committerVars,
                 snapshotVars, crashes, lost>>

-----------------------------------------------------------------------------
(* The applier. *)

TakeOrder ==
  /\ cur = -1
  /\ orderCh # <<>>
  /\ LET msg == topic[Head(orderCh) + 1]
     IN IF msg.cancel THEN CancelOrder(msg.order) ELSE Receive(msg.order)
  /\ cur' = Head(orderCh)
  /\ orderCh' = Tail(orderCh)
  /\ UNCHANGED <<persistent, fetchPos, orderOffset, logCh, committerVars,
                 snapshotVars, crashes, lost>>

ApplierMatch ==
  /\ MatchMaker \/ FinishTaker
  /\ UNCHANGED <<persistent, fetchPos, applierVars, logCh, committerVars,
                 snapshotVars, crashes, lost>>

\* One log is written to logCh, which may be full.
SendLog ==
  /\ taker = NoTaker /\ out # <<>>
  /\ Len(logCh) < LogChCap
  /\ logCh' = Append(logCh, Head(out))
  /\ out' = Tail(out)
  /\ UNCHANGED <<depths, logSeq, tradeSeq, window, taker, left, persistent,
                 fetchPos, applierVars, committerVars, snapshotVars, crashes, lost>>

\* All logs of the order are sent.
OrderDone ==
  /\ cur # -1
  /\ Idle
  /\ orderOffset' = cur
  /\ cur' = -1
  /\ UNCHANGED <<bookVars, persistent, fetchPos, orderCh, logCh, committerVars,
                 snapshotVars, crashes, lost>>

\* orderBook.Snapshot copies the orders; the window is copied as a struct, so
\* its Bitmap stays the live one and is read only when the snapshot is stored.
TakeSnapshot ==
  [orderOffset |-> orderOffset, logSeq |-> logSeq, tradeSeq |-> tradeSeq,
   depths |-> depths, window |-> {}, exists |-> TRUE]

\* Fault: the distance to the last snapshot is not looked at.
SnapshotRequestAlways ==
  /\ cur = -1
  /\ reqCh # <<>>
  /\ reqCh' = Tail(reqCh)
  /\ approveCh' = Append(approveCh, TakeSnapshot)
  /\ UNCHANGED <<bookVars, persistent, fetchPos, applierVars, logCh,
                 committerVars, snapshotCh, lastOffset, crashes, lost>>

SnapshotRequest ==
  /\ cur = -1
  /\ reqCh # <<>>
  /\ reqCh' = Tail(reqCh)
  /\ approveCh' = IF orderOffset - Head(reqCh) <= SnapshotDelta THEN approveCh
                  ELSE Append(approveCh, TakeSnapshot)
  /\ UNCHANGED <<bookVars, persistent, fetchPos, applierVars, logCh,
                 committerVars, snapshotCh, lastOffset, crashes, lost>>

-----------------------------------------------------------------------------
(* The committer. *)

\* The first statement of runCommitter reads the live book's logSeq; the
\* applier may already be running, and what it logged since the restart will
\* be discarded as a duplicate.
CommitterStart ==
  /\ ~ committing
  /\ committing' = TRUE
  /\ seq' = logSeq
  /\ lost' = lost \cup (stored.logSeq + 1 .. logSeq)
  /\ UNCHANGED <<bookVars, persistent, fetchPos, applierVars, logCh, buf,
                 pending, snapshotVars, crashes>>

\* Fault: approved one log too early.
ApprovedEarly(snapshot) == seq' + 1 >= snapshot.logSeq

Approved(snapshot) == seq' >= snapshot.logSeq

\* Fault: only a full buffer is stored.
ReadsOnToTheEnd == Len(buf) + 1 < LogBatch

\* The committer reads on: the channel is not empty and the buffer not full.
ReadsOn == Len(logCh) > 1 /\ Len(buf) + 1 < LogBatch

\* A log is discarded as a duplicate, buffered while more are waiting, or
\* stored with the buffer, which may approve the pending snapshot.
CommitLog ==
  /\ committing
  /\ logCh # <<>>
  /\ logCh' = Tail(logCh)
  /\ LET log == Head(logCh)
     IN \/ /\ log.seq <= seq
           /\ UNCHANGED <<seq, buf, pending, logTopic, snapshotCh>>
        \/ /\ log.seq > seq
           /\ seq' = log.seq
           /\ ReadsOn
           /\ buf' = Append(buf, log)
           /\ UNCHANGED <<pending, logTopic, snapshotCh>>
        \/ /\ log.seq > seq
           /\ seq' = log.seq
           /\ ~ ReadsOn
           /\ logTopic' = logTopic \o Append(buf, log)
           /\ buf' = <<>>
           /\ IF pending.exists /\ Approved(pending)
              THEN snapshotCh' = Append(snapshotCh, pending) /\ pending' = NoSnapshot
              ELSE UNCHANGED <<snapshotCh, pending>>
  /\ UNCHANGED <<bookVars, topic, stored, fetchPos, applierVars, committing,
                 reqCh, approveCh, lastOffset, crashes, lost>>

\* A snapshot whose logs were accepted goes on; otherwise it waits, in place
\* of an older one.
ApproveSnapshot ==
  /\ committing
  /\ approveCh # <<>>
  /\ approveCh' = Tail(approveCh)
  /\ UNCHANGED seq
  /\ IF Approved(Head(approveCh))
     THEN snapshotCh' = Append(snapshotCh, Head(approveCh)) /\ pending' = NoSnapshot
     ELSE pending' = Head(approveCh) /\ UNCHANGED snapshotCh
  /\ UNCHANGED <<bookVars, persistent, fetchPos, applierVars, logCh, committing,
                 buf, reqCh, lastOffset, crashes, lost>>

-----------------------------------------------------------------------------
(* The snapshots goroutine. *)

Underway == Len(reqCh) + Len(approveCh) + Len(snapshotCh)
              + (IF pending.exists THEN 1 ELSE 0)

\* The timer of the select fires only when no snapshot is waiting.
RequestSnapshot ==
  /\ snapshotCh = <<>>
  /\ Underway < MaxRequests
  /\ reqCh' = Append(reqCh, lastOffset)
  /\ UNCHANGED <<bookVars, persistent, fetchPos, applierVars, logCh,
                 committerVars, approveCh, snapshotCh, lastOffset, crashes, lost>>

\* Redis SET of the marshalled snapshot, which may fail.
StoreSnapshot ==
  /\ snapshotCh # <<>>
  /\ snapshotCh' = Tail(snapshotCh)
  /\ \/ /\ stored' = [Head(snapshotCh) EXCEPT !.window = window]
        /\ lastOffset' = Head(snapshotCh).orderOffset
     \/ UNCHANGED <<stored, lastOffset>>
  /\ UNCHANGED <<bookVars, topic, logTopic, fetchPos, applierVars, logCh,
                 committerVars, reqCh, approveCh, crashes, lost>>

-----------------------------------------------------------------------------
(* The process dies and comes up again: NewEngine, restore, Start. *)

\* Logs the stored snapshot covers that were accepted but not yet written: they
\* approved the snapshot, and the restart neither has nor produces them again.
CoveredInBuffer == {n \in {buf[k].seq : k \in 1 .. Len(buf)} : n <= stored.logSeq}

Restart ==
  /\ crashes < MaxCrashes
  /\ crashes' = crashes + 1
  /\ depths' = stored.depths
  /\ logSeq' = stored.logSeq
  /\ tradeSeq' = stored.tradeSeq
  /\ window' = stored.window
  /\ taker' = NoTaker /\ left' = {} /\ out' = <<>>
  /\ fetchPos' = StartOffset(stored.orderOffset)
  /\ orderCh' = <<>> /\ cur' = -1 /\ orderOffset' = 0
  /\ logCh' = <<>>
  /\ committing' = FALSE /\ seq' = 0 /\ buf' = <<>> /\ pending' = NoSnapshot
  /\ reqCh' = <<>> /\ approveCh' = <<>> /\ snapshotCh' = <<>>
  /\ lastOffset' = stored.orderOffset
  /\ lost' = lost \cup CoveredInBuffer
  /\ UNCHANGED persistent

Init ==
  /\ BookInit
  /\ topic \in Topics
  /\ logTopic = <<>> /\ stored = NoSnapshot
  /\ fetchPos = 0 /\ orderCh = <<>> /\ cur = -1 /\ orderOffset = 0
  /\ logCh = <<>>
  /\ committing = FALSE /\ seq = 0 /\ buf = <<>> /\ pending = NoSnapshot
  /\ reqCh = <<>> /\ approveCh = <<>> /\ snapshotCh = <<>> /\ lastOffset = 0
  /\ crashes = 0 /\ lost = {}

Next ==
  \/ Fetch
  \/ TakeOrder \/ ApplierMatch \/ SendLog \/ OrderDone \/ SnapshotRequest
  \/ CommitterStart \/ CommitLog \/ ApproveSnapshot
  \/ RequestSnapshot \/ StoreSnapshot
  \/ Restart

\* Every goroutine that can move moves; crashes and the timer are not promised.
Fairness ==
  /\ WF_vars(Fetch)
  /\ WF_vars(TakeOrder) /\ WF_vars(ApplierMatch) /\ WF_vars(SendLog)
  /\ WF_vars(OrderDone) /\ WF_vars(SnapshotRequest)
  /\ WF_vars(CommitterStart) /\ WF_vars(CommitLog) /\ WF_vars(ApproveSnapshot)
  /\ WF_vars(StoreSnapshot)

Spec == Init /\ [][Next]_vars /\ Fairness

-----------------------------------------------------------------------------
\* The type of the engine's state: offsets and sequence numbers are natural
\* numbers, what a restart restores is a book, and what is stored is a snapshot.
EngineTypeOK ==
  /\ BookTypeOK
  /\ topic \in Seq([order : Orders, cancel : BOOLEAN])
  /\ logTopic \in Seq(Log) /\ logCh \in Seq(Log) /\ buf \in Seq(Log)
  /\ stored \in Snapshot /\ pending \in Snapshot
  /\ fetchPos \in Nat /\ orderCh \in Seq(Nat)
  /\ cur \in Nat \cup {-1} /\ orderOffset \in Nat
  /\ committing \in BOOLEAN /\ seq \in Nat
  /\ reqCh \in Seq(Nat)
  /\ approveCh \in Seq(Snapshot) /\ snapshotCh \in Seq(Snapshot)
  /\ lastOffset \in Nat /\ crashes \in Nat /\ lost \in SUBSET Nat

\* The log topic is in order and misses nothing: the logs before any log of it
\* were written before it, unless one of two races lost them.  The committer
\* reads its first number while the applier already works (CommitterStart), or
\* a snapshot approved by logs that were accepted and not yet written is stored
\* before a crash (CoveredInBuffer).
GapsAreKnown ==
  \A i \in 1 .. Len(logTopic) : \A n \in 1 .. logTopic[i].seq :
    n \in lost \/ \E j \in 1 .. i : logTopic[j].seq = n

\* Two logs with the same sequence number are the same log, however often the
\* engine was restarted and replayed its orders: this is what lets every
\* reader discard a log by its number alone.
LogAgrees ==
  \A i, j \in 1 .. Len(logTopic) :
    logTopic[i].seq = logTopic[j].seq => logTopic[i] = logTopic[j]

\* The log is what a KafkaLogReader accepts: no number is skipped.
LogGapless ==
  \A i \in 1 .. Len(logTopic) :
    logTopic[i].seq = 1 \/ \E j \in 1 .. i - 1 : logTopic[j].seq = logTopic[i].seq - 1

\* The logs up to the stored snapshot have been committed.
SnapshotCommitted ==
  stored.exists => \E i \in 1 .. Len(logTopic) : logTopic[i].seq >= stored.logSeq

\* A stored snapshot knows only of orders up to its own offset.
SnapshotConsistent ==
  \A b \in stored.window :
    \E k \in 0 .. stored.orderOffset : Bit(topic[k + 1].order.id) = b

\* The snapshot in Redis never goes back to an older offset or log.
SnapshotAdvances ==
  [][/\ stored'.orderOffset >= stored.orderOffset
     /\ stored'.logSeq >= stored.logSeq]_stored

\* The applier works off the whole order topic, despite crashes.
AllApplied ==
  <>[](fetchPos = Len(topic) /\ orderCh = <<>> /\ cur = -1)

\* Every log the book has produced is in the log topic in the end, also those
\* the stored snapshot covers, unless one of the two races lost it.
AllCommitted ==
  <>[](\A n \in 1 .. logSeq :
         n \in lost \/ \E i \in 1 .. Len(logTopic) : logTopic[i].seq = n)

\* The logs of one order are stored together: the topic never ends in the
\* middle of ApplyOrder, which ends with the open or done log of its taker.
OrderLogsTogether ==
  logTopic # <<>> => logTopic[Len(logTopic)].type # "match"
=============================================================================
