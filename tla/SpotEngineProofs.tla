-------------------------- MODULE SpotEngineProofs --------------------------
(***************************************************************************)
(* Proofs about the matching engine of gitbitex-spot, for any order topic, *)
(* any channel capacities and batch sizes, and any number of snapshots and *)
(* crashes.                                                                *)
(***************************************************************************)
EXTENDS SpotEngine, SpotOrderBookProofs

\* The types of what the engine adds to the book.
ChannelsTypeOK ==
  /\ topic \in Seq([order : Orders, cancel : BOOLEAN])
  /\ logTopic \in Seq(Log) /\ logCh \in Seq(Log) /\ buf \in Seq(Log)
  /\ fetchPos \in Nat /\ orderCh \in Seq(Nat)
  /\ cur \in Nat \cup {-1} /\ orderOffset \in Nat
  /\ committing \in BOOLEAN /\ seq \in Nat
  /\ reqCh \in Seq(Nat) /\ lastOffset \in Nat /\ crashes \in Nat
  /\ lost \in SUBSET Nat

\* A snapshot holds a book that NewEngine may start from.
GoodSnapshot ==
  {s \in Snapshot :
     /\ \A d \in Sides : \A o \in s.depths[d] :
          o.side = d /\ o.type = "limit" /\ o.price \in Prices
     /\ \A b \in s.depths["buy"], a \in s.depths["sell"] : b.price < a.price}

SnapshotsOK ==
  /\ stored \in GoodSnapshot /\ pending \in GoodSnapshot
  /\ approveCh \in Seq(GoodSnapshot) /\ snapshotCh \in Seq(GoodSnapshot)

\* The fetcher hands on offsets of messages only.
OffsetsOK == \A k \in 1 .. Len(orderCh) : orderCh[k] < Len(topic)

TypeInv == BookInv /\ ChannelsTypeOK /\ SnapshotsOK /\ OffsetsOK

-----------------------------------------------------------------------------
\* The initial state.
LEMMA EngineInit == Init => TypeInv
<1> SUFFICES ASSUME Init PROVE TypeInv
  OBVIOUS
<1>1. BookInv
  BY BookInitInv DEF Init
<1>2. NoSnapshot \in GoodSnapshot
  BY BookAssumption DEF NoSnapshot, GoodSnapshot, Snapshot, Sides
<1>3. SnapshotsOK
  BY <1>2 DEF Init, SnapshotsOK
<1>4. ChannelsTypeOK /\ OffsetsOK
  <2>1. topic \in Seq([order : Orders, cancel : BOOLEAN])
    BY EngineAssumption, Zenon DEF Init
  <2>2. /\ logTopic = <<>> /\ logCh = <<>> /\ buf = <<>> /\ orderCh = <<>>
        /\ reqCh = <<>> /\ fetchPos = 0 /\ cur = -1 /\ orderOffset = 0
        /\ committing = FALSE /\ seq = 0 /\ lastOffset = 0 /\ crashes = 0
        /\ lost = {}
    BY DEF Init
  <2>3. OffsetsOK
    BY <2>2 DEF OffsetsOK
  <2>4. logTopic \in Seq(Log) /\ logCh \in Seq(Log) /\ buf \in Seq(Log)
        /\ orderCh \in Seq(Nat) /\ reqCh \in Seq(Nat)
    BY <2>2
  <2> QED BY <2>1, <2>2, <2>3, <2>4, Zenon DEF ChannelsTypeOK
<1> QED BY <1>1, <1>3, <1>4 DEF TypeInv

\* orderBook.Snapshot of a good book is a good snapshot.
LEMMA TakenIsGood ==
  ASSUME BookInv, orderOffset \in Nat
  PROVE  TakeSnapshot \in GoodSnapshot
<1>1. TakeSnapshot \in Snapshot
  BY BookAssumption DEF TakeSnapshot, Snapshot, BookInv, BookTypeOK
<1> QED BY <1>1 DEF TakeSnapshot, GoodSnapshot, BookInv, DepthsOK, NotCrossed

\* The message the applier takes is an order of the topic.
LEMMA MessageType ==
  ASSUME ChannelsTypeOK, OffsetsOK, orderCh # <<>>
  PROVE  topic[Head(orderCh) + 1].order \in Orders
<1>1. orderCh \in Seq(Nat) /\ Head(orderCh) = orderCh[1] /\ 1 \in 1 .. Len(orderCh)
  BY DEF ChannelsTypeOK
<1>2. Head(orderCh) \in Nat /\ Head(orderCh) < Len(topic)
  BY <1>1 DEF OffsetsOK
<1>3. Head(orderCh) + 1 \in 1 .. Len(topic)
  BY <1>2 DEF ChannelsTypeOK
<1>4. topic[Head(orderCh) + 1] \in [order : Orders, cancel : BOOLEAN]
  <2> DEFINE M == [order : Orders, cancel : BOOLEAN]
  <2>1. topic \in Seq(M)
    BY DEF ChannelsTypeOK
  <2> HIDE DEF M
  <2>2. topic[Head(orderCh) + 1] \in M
    BY <1>3, <2>1
  <2> QED BY <2>2 DEF M
<1> QED BY <1>4

\* TakeOrder, ApplierMatch and SendLog keep the book's invariant.
LEMMA ApplierBook ==
  ASSUME TypeInv, TakeOrder \/ ApplierMatch \/ SendLog
  PROVE  BookInv'
<1> USE DEF TypeInv
<1>1. CASE TakeOrder
  <2> DEFINE msg == topic[Head(orderCh) + 1]
  <2>1. msg.order \in Orders
    BY <1>1, MessageType DEF TakeOrder
  <2>2. CancelOrder(msg.order) \/ Receive(msg.order)
    BY <1>1 DEF TakeOrder
  <2> HIDE DEF msg
  <2> QED BY <2>1, <2>2, CancelInv, ReceiveInv
<1>2. CASE ApplierMatch
  BY <1>2, MatchInv, FinishInv DEF ApplierMatch
<1>3. CASE SendLog
  BY <1>3, PopInv DEF SendLog
<1> QED BY <1>1, <1>2, <1>3

\* NewEngine starts from the book of the stored snapshot.
LEMMA RestartBook ==
  ASSUME TypeInv, Restart
  PROVE  BookInv'
<1>1. stored \in GoodSnapshot
  BY DEF TypeInv, SnapshotsOK
<1>2. stored \in Snapshot
  BY <1>1 DEF GoodSnapshot
<1>3. BookTypeOK'
  BY <1>2 DEF Restart, BookTypeOK, Snapshot
<1>4. DepthsOK' /\ NotCrossed'
  BY <1>1 DEF Restart, GoodSnapshot, DepthsOK, NotCrossed
<1>5. TakerOK' /\ OutNumbered'
  BY DEF Restart, TakerOK, OutNumbered
<1> QED BY <1>3, <1>4, <1>5 DEF BookInv

\* Every step keeps the types.
LEMMA TypeStep == TypeInv /\ [Next]_vars => TypeInv'
<1> SUFFICES ASSUME TypeInv, [Next]_vars PROVE TypeInv'
  OBVIOUS
<1> USE DEF TypeInv
<1>1. CASE Fetch
  <2>1. BookInv'
    BY <1>1, BookStutter DEF Fetch
  <2>2. ChannelsTypeOK' /\ SnapshotsOK'
    BY <1>1 DEF Fetch, ChannelsTypeOK, SnapshotsOK, persistent, committerVars,
                snapshotVars
  <2>3. OffsetsOK'
    <3>1. /\ orderCh \in Seq(Nat) /\ fetchPos \in Nat /\ fetchPos < Len(topic)
          /\ orderCh' = Append(orderCh, fetchPos) /\ topic' = topic
      BY <1>1 DEF Fetch, ChannelsTypeOK, persistent
    <3>2. /\ Len(orderCh') = Len(orderCh) + 1
          /\ \A k \in 1 .. Len(orderCh) : orderCh'[k] = orderCh[k]
          /\ orderCh'[Len(orderCh) + 1] = fetchPos
      BY <3>1
    <3>3. ASSUME NEW k \in 1 .. Len(orderCh') PROVE orderCh'[k] < Len(topic')
      <4>1. CASE k \in 1 .. Len(orderCh)
        BY <4>1, <3>1, <3>2 DEF OffsetsOK
      <4>2. CASE k = Len(orderCh) + 1
        BY <4>2, <3>1, <3>2
      <4> QED BY <3>1, <3>2, <4>1, <4>2
    <3> QED BY <3>3 DEF OffsetsOK
  <2> QED BY <2>1, <2>2, <2>3
<1>2. CASE TakeOrder
  <2>1. BookInv'
    BY <1>2, ApplierBook
  <2>2. /\ orderCh \in Seq(Nat) /\ orderCh # <<>>
        /\ orderCh' = Tail(orderCh) /\ cur' = Head(orderCh)
        /\ UNCHANGED <<persistent, fetchPos, orderOffset, logCh, committerVars,
                       snapshotVars, crashes, lost>>
    BY <1>2 DEF TakeOrder, ChannelsTypeOK
  <2>3. ChannelsTypeOK' /\ SnapshotsOK'
    BY <2>2 DEF ChannelsTypeOK, SnapshotsOK, persistent, committerVars, snapshotVars
  <2>4. OffsetsOK'
    <3>1. /\ Len(orderCh') = Len(orderCh) - 1
          /\ \A k \in 1 .. Len(orderCh') : orderCh'[k] = orderCh[k + 1]
      BY <2>2
    <3> QED BY <3>1, <2>2 DEF OffsetsOK, persistent
  <2> QED BY <2>1, <2>3, <2>4
<1>3. CASE ApplierMatch
  <2>1. BookInv'
    BY <1>3, ApplierBook
  <2> QED BY <1>3, <2>1 DEF ApplierMatch, ChannelsTypeOK, SnapshotsOK, OffsetsOK,
               persistent, applierVars, committerVars, snapshotVars
<1>4. CASE SendLog
  <2>1. BookInv'
    BY <1>4, ApplierBook
  <2>2. out \in Seq(Log) /\ out # <<>> /\ logCh' = Append(logCh, Head(out))
    BY <1>4 DEF SendLog, BookInv, BookTypeOK
  <2>3. logCh' \in Seq(Log)
    BY <2>2 DEF ChannelsTypeOK
  <2> QED BY <1>4, <2>1, <2>3 DEF SendLog, ChannelsTypeOK, SnapshotsOK, OffsetsOK,
               persistent, applierVars, committerVars, snapshotVars
<1>5. CASE OrderDone
  <2>1. BookInv'
    BY <1>5, BookStutter DEF OrderDone
  <2> QED BY <1>5, <2>1 DEF OrderDone, ChannelsTypeOK, SnapshotsOK, OffsetsOK,
               persistent, committerVars, snapshotVars
<1>6. CASE SnapshotRequest
  <2>1. BookInv'
    BY <1>6, BookStutter DEF SnapshotRequest
  <2>2. reqCh' \in Seq(Nat)
    BY <1>6 DEF SnapshotRequest, ChannelsTypeOK
  <2>3. TakeSnapshot \in GoodSnapshot
    BY TakenIsGood DEF ChannelsTypeOK
  <2>4. approveCh' \in Seq(GoodSnapshot)
    <3>1. approveCh' = approveCh \/ approveCh' = Append(approveCh, TakeSnapshot)
      BY <1>6 DEF SnapshotRequest
    <3> QED BY <3>1, <2>3 DEF SnapshotsOK
  <2> QED BY <1>6, <2>1, <2>2, <2>4 DEF SnapshotRequest, ChannelsTypeOK,
               SnapshotsOK, OffsetsOK, persistent, applierVars, committerVars
<1>7. CASE CommitterStart
  <2>1. BookInv'
    BY <1>7, BookStutter DEF CommitterStart
  <2>2. seq' \in Nat /\ committing' \in BOOLEAN
    BY <1>7 DEF CommitterStart, BookInv, BookTypeOK
  <2>3. lost' \in SUBSET Nat
    <3>1. logSeq \in Nat /\ stored.logSeq \in Nat /\ lost \in SUBSET Nat
      BY DEF BookInv, BookTypeOK, SnapshotsOK, GoodSnapshot, Snapshot, ChannelsTypeOK
    <3>2. (stored.logSeq + 1 .. logSeq) \subseteq Nat
      BY <3>1
    <3> QED BY <1>7, <3>1, <3>2, Zenon DEF CommitterStart
  <2> QED BY <1>7, <2>1, <2>2, <2>3 DEF CommitterStart, ChannelsTypeOK, SnapshotsOK,
               OffsetsOK, persistent, applierVars, snapshotVars
<1>8. CASE CommitLog
  <2>1. BookInv'
    BY <1>8, BookStutter DEF CommitLog
  <2>2. /\ logCh \in Seq(Log) /\ logCh # <<>> /\ logCh' = Tail(logCh)
        /\ Head(logCh) \in Log /\ Head(logCh).seq \in Nat
    <3>1. logCh \in Seq(Log) /\ logCh # <<>> /\ logCh' = Tail(logCh)
      BY <1>8 DEF CommitLog, ChannelsTypeOK
    <3>2. Head(logCh) \in Log
      BY <3>1
    <3> QED BY <3>1, <3>2 DEF Log
  <2>3. seq' \in Nat /\ buf' \in Seq(Log) /\ logTopic' \in Seq(Log)
    <3>1. seq \in Nat /\ buf \in Seq(Log) /\ logTopic \in Seq(Log)
      BY DEF ChannelsTypeOK
    <3>2. /\ seq' = seq \/ seq' = Head(logCh).seq
          /\ buf' = buf \/ buf' = Append(buf, Head(logCh)) \/ buf' = <<>>
          /\ logTopic' = logTopic \/ logTopic' = logTopic \o Append(buf, Head(logCh))
      BY <1>8 DEF CommitLog
    <3>3. Append(buf, Head(logCh)) \in Seq(Log)
      BY <2>2, <3>1
    <3>4. logTopic \o Append(buf, Head(logCh)) \in Seq(Log)
      BY <3>1, <3>3
    <3>5. <<>> \in Seq(Log)
      OBVIOUS
    <3>6. seq' \in Nat
      BY <2>2, <3>1, <3>2
    <3>7. buf' \in Seq(Log)
      BY <3>1, <3>2, <3>3, <3>5, Zenon
    <3>8. logTopic' \in Seq(Log)
      BY <3>1, <3>2, <3>4, Zenon
    <3> QED BY <3>6, <3>7, <3>8
  <2>4. NoSnapshot \in GoodSnapshot
    BY BookAssumption DEF NoSnapshot, GoodSnapshot, Snapshot, Sides
  <2>5. pending' \in GoodSnapshot /\ snapshotCh' \in Seq(GoodSnapshot)
    <3>1. /\ pending' = pending \/ pending' = NoSnapshot
          /\ snapshotCh' = snapshotCh \/ snapshotCh' = Append(snapshotCh, pending)
      BY <1>8, Zenon DEF CommitLog
    <3> QED BY <3>1, <2>4 DEF SnapshotsOK
  <2> QED BY <1>8, <2>1, <2>2, <2>3, <2>5 DEF CommitLog, ChannelsTypeOK,
               SnapshotsOK, OffsetsOK, applierVars
<1>9. CASE ApproveSnapshot
  <2>1. BookInv'
    BY <1>9, BookStutter DEF ApproveSnapshot
  <2>2. /\ approveCh \in Seq(GoodSnapshot) /\ approveCh # <<>>
        /\ approveCh' = Tail(approveCh) /\ Head(approveCh) \in GoodSnapshot
    BY <1>9 DEF ApproveSnapshot, SnapshotsOK
  <2>3. NoSnapshot \in GoodSnapshot
    BY BookAssumption DEF NoSnapshot, GoodSnapshot, Snapshot, Sides
  <2>4. pending' \in GoodSnapshot /\ snapshotCh' \in Seq(GoodSnapshot)
    <3>1. /\ pending' = Head(approveCh) \/ pending' = NoSnapshot
          /\ \/ snapshotCh' = snapshotCh
             \/ snapshotCh' = Append(snapshotCh, Head(approveCh))
      BY <1>9, Zenon DEF ApproveSnapshot
    <3>2. snapshotCh \in Seq(GoodSnapshot)
      BY DEF SnapshotsOK
    <3>3. Append(snapshotCh, Head(approveCh)) \in Seq(GoodSnapshot)
      BY <3>2, <2>2
    <3> QED BY <3>1, <3>2, <3>3, <2>2, <2>3, Zenon
  <2> QED BY <1>9, <2>1, <2>2, <2>4 DEF ApproveSnapshot, ChannelsTypeOK,
               SnapshotsOK, OffsetsOK, persistent, applierVars
<1>10. CASE RequestSnapshot
  <2>1. BookInv'
    BY <1>10, BookStutter DEF RequestSnapshot
  <2> QED BY <1>10, <2>1 DEF RequestSnapshot, ChannelsTypeOK, SnapshotsOK,
               OffsetsOK, persistent, applierVars, committerVars
<1>11. CASE StoreSnapshot
  <2>1. BookInv'
    BY <1>11, BookStutter DEF StoreSnapshot
  <2>2. /\ snapshotCh \in Seq(GoodSnapshot) /\ snapshotCh # <<>>
        /\ snapshotCh' = Tail(snapshotCh) /\ Head(snapshotCh) \in GoodSnapshot
        /\ Head(snapshotCh) \in Snapshot
    BY <1>11 DEF StoreSnapshot, SnapshotsOK, GoodSnapshot
  <2>3. [Head(snapshotCh) EXCEPT !.window = window] \in GoodSnapshot
    <3>1. window \in SUBSET (0 .. WindowCap - 1)
      BY DEF BookInv, BookTypeOK
    <3> QED BY <2>2, <3>1 DEF GoodSnapshot, Snapshot
  <2>4. stored' \in GoodSnapshot /\ lastOffset' \in Nat
    BY <1>11, <2>2, <2>3 DEF StoreSnapshot, SnapshotsOK, ChannelsTypeOK, Snapshot
  <2>5. snapshotCh' \in Seq(GoodSnapshot)
    BY <2>2
  <2> QED BY <1>11, <2>1, <2>4, <2>5 DEF StoreSnapshot, ChannelsTypeOK,
               SnapshotsOK, OffsetsOK, applierVars, committerVars
<1>12. CASE Restart
  <2>1. BookInv'
    BY <1>12, RestartBook
  <2>2. stored \in Snapshot /\ stored.orderOffset \in Nat
    BY DEF SnapshotsOK, GoodSnapshot, Snapshot
  <2>3. fetchPos' \in Nat /\ lastOffset' \in Nat
    BY <1>12, <2>2 DEF Restart, StartOffset
  <2>4. NoSnapshot \in GoodSnapshot
    BY BookAssumption DEF NoSnapshot, GoodSnapshot, Snapshot, Sides
  <2>5. /\ topic' = topic /\ logTopic' = logTopic /\ stored' = stored
        /\ logCh' = <<>> /\ buf' = <<>> /\ orderCh' = <<>> /\ reqCh' = <<>>
        /\ approveCh' = <<>> /\ snapshotCh' = <<>> /\ pending' = NoSnapshot
        /\ cur' = -1 /\ orderOffset' = 0 /\ committing' = FALSE /\ seq' = 0
        /\ crashes' = crashes + 1
    BY <1>12 DEF Restart, persistent
  <2>6. /\ logCh' \in Seq(Log) /\ buf' \in Seq(Log) /\ orderCh' \in Seq(Nat)
        /\ reqCh' \in Seq(Nat) /\ approveCh' \in Seq(GoodSnapshot)
        /\ snapshotCh' \in Seq(GoodSnapshot)
    BY <2>5
  <2>7. cur' \in Nat \cup {-1} /\ orderOffset' \in Nat /\ committing' \in BOOLEAN
        /\ seq' \in Nat /\ crashes' \in Nat
    <3>1. committing' \in BOOLEAN /\ cur' \in Nat \cup {-1}
      BY <2>5, Zenon
    <3>2. crashes \in Nat
      BY DEF ChannelsTypeOK
    <3>3. orderOffset' \in Nat /\ seq' \in Nat /\ crashes' \in Nat
      BY <2>5, <3>2
    <3> QED BY <3>1, <3>3
  <2>8. ChannelsTypeOK'
    <3>1. lost' \in SUBSET Nat
      <4>1. \A k \in 1 .. Len(buf) : buf[k].seq \in Nat
        <5>1. buf \in Seq(Log) /\ \A l \in Log : l.seq \in Nat
          BY DEF ChannelsTypeOK, Log
        <5> QED BY <5>1
      <4>2. CoveredInBuffer \subseteq Nat
        BY <4>1, Zenon DEF CoveredInBuffer
      <4>3. lost' = lost \cup CoveredInBuffer /\ lost \in SUBSET Nat
        BY <1>12 DEF Restart, ChannelsTypeOK
      <4> QED BY <4>2, <4>3, Zenon
    <3> QED BY <2>3, <2>5, <2>6, <2>7, <3>1 DEF ChannelsTypeOK
  <2>9. SnapshotsOK' /\ OffsetsOK'
    BY <2>4, <2>5, <2>6 DEF SnapshotsOK, OffsetsOK
  <2> QED BY <2>1, <2>8, <2>9
<1>13. CASE UNCHANGED vars
  <2>1. BookInv'
    BY <1>13, BookStutter DEF vars
  <2> QED BY <1>13, <2>1 DEF vars, ChannelsTypeOK, SnapshotsOK, OffsetsOK,
               persistent, applierVars, committerVars, snapshotVars
<1> QED BY <1>1, <1>2, <1>3, <1>4, <1>5, <1>6, <1>7, <1>8, <1>9, <1>10, <1>11,
           <1>12, <1>13 DEF Next

\* Whatever orders it reads and however often it restarts, the engine's
\* channels, buffers and snapshots keep their types: the snapshot NewEngine
\* restores is a book, and every offset and sequence number is a natural.
THEOREM EngineTypeCorrect == Spec => []EngineTypeOK
<1>1. TypeInv => EngineTypeOK
  <2> SUFFICES ASSUME TypeInv PROVE EngineTypeOK
    OBVIOUS
  <2>1. stored \in Snapshot /\ pending \in Snapshot
    BY DEF TypeInv, SnapshotsOK, GoodSnapshot
  <2>2. approveCh \in Seq(Snapshot) /\ snapshotCh \in Seq(Snapshot)
    BY DEF TypeInv, SnapshotsOK, GoodSnapshot
  <2> QED BY <2>1, <2>2 DEF TypeInv, BookInv, ChannelsTypeOK, EngineTypeOK
<1>2. Init => TypeInv
  BY EngineInit
<1> QED BY <1>1, <1>2, TypeStep, PTL DEF Spec

-----------------------------------------------------------------------------
(* The log topic. *)

\* What the committer has accepted, in this order: the topic and its buffer.
Accepted == logTopic \o buf

GapsIn(W, L) ==
  \A i \in 1 .. Len(W) : \A n \in 1 .. W[i].seq :
    n \in L \/ \E j \in 1 .. i : W[j].seq = n

\* Every number up to m is in W or in L.
Covers(W, L, m) ==
  \A n \in 1 .. m : n \in L \/ \E j \in 1 .. Len(W) : W[j].seq = n

\* The number of the last log that logCh has handed to the committer.
Base == logSeq - Len(out) - Len(logCh)

\* The logs in logCh are consecutive, and those in out go on from there.  Once
\* it has read its first number the committer has accepted, or lost, all logs
\* up to seq, which no snapshot behind it exceeds; before, the log goes on
\* behind the stored snapshot.
GapInv ==
  /\ Base \in Nat
  /\ \A i \in 1 .. Len(logCh) : logCh[i].seq = Base + i
  /\ GapsIn(Accepted, lost)
  /\ committing => /\ Base <= seq /\ stored.logSeq <= seq
                   /\ \A i \in 1 .. Len(snapshotCh) : snapshotCh[i].logSeq <= seq
                   /\ Covers(Accepted, lost, seq)
  /\ ~ committing => /\ Base = stored.logSeq
                     /\ snapshotCh = <<>> /\ buf = <<>>
                     /\ Covers(Accepted, lost, stored.logSeq)

LEMMA GapInit == Init => GapInv
<1> SUFFICES ASSUME Init PROVE GapInv
  OBVIOUS
<1>1. /\ logSeq = 0 /\ out = <<>> /\ logCh = <<>> /\ logTopic = <<>> /\ buf = <<>>
      /\ snapshotCh = <<>> /\ stored.logSeq = 0 /\ committing = FALSE
  BY DEF Init, BookInit, NoSnapshot
<1>2. Base = 0 /\ Len(Accepted) = 0
  <2>1. Len(out) = 0 /\ Len(logCh) = 0
    BY <1>1
  <2>2. Len(<<>> \o <<>>) = 0
    OBVIOUS
  <2>3. Len(Accepted) = 0
    BY <1>1, <2>2, Zenon DEF Accepted
  <2>4. Base = 0 - 0 - 0
    BY <1>1, <2>1, Zenon DEF Base
  <2> QED BY <2>3, <2>4
<1> QED BY <1>1, <1>2 DEF GapInv, GapsIn, Covers

\* The types the steps need.
LEMMA GapTypes ==
  ASSUME TypeInv
  PROVE  /\ logSeq \in Nat /\ seq \in Nat /\ committing \in BOOLEAN
         /\ out \in Seq(Log) /\ logCh \in Seq(Log)
         /\ logTopic \in Seq(Log) /\ buf \in Seq(Log)
         /\ stored \in Snapshot /\ stored.logSeq \in Nat
         /\ snapshotCh \in Seq(Snapshot)
         /\ \A l \in Log : l.seq \in Nat
<1>1. stored \in Snapshot /\ snapshotCh \in Seq(Snapshot)
  BY DEF TypeInv, SnapshotsOK, GoodSnapshot
<1> QED BY <1>1 DEF TypeInv, BookInv, BookTypeOK, ChannelsTypeOK, Snapshot, Log

\* The applier numbers its logs without gaps.
LEMMA ApplierNumbers ==
  ASSUME TypeInv, TakeOrder \/ ApplierMatch
  PROVE  /\ logSeq' - Len(out') = logSeq - Len(out)
         /\ UNCHANGED <<logTopic, stored, logCh, committing, seq, buf, snapshotCh, lost>>
<1>0. logSeq \in Nat /\ out \in Seq(Log)
  BY GapTypes
<1>1. CASE TakeOrder
  <2>1. out = <<>>
    BY <1>1 DEF TakeOrder, CancelOrder, Receive, Idle
  <2>2. \/ logSeq' = logSeq /\ out' = out
        \/ logSeq' = logSeq + 1 /\ Len(out') = 1
    <3> DEFINE msg == topic[Head(orderCh) + 1]
    <3>1. CASE CancelOrder(msg.order)
      <4>1. \/ UNCHANGED <<logSeq, out>>
            \/ logSeq' = logSeq + 1 /\ \E d : out' = <<d>>
        BY <3>1 DEF CancelOrder
      <4> QED BY <4>1
    <3>2. CASE Receive(msg.order)
      BY <3>2 DEF Receive, bookVars
    <3> QED BY <1>1, <3>1, <3>2 DEF TakeOrder
  <2>3. logSeq' - Len(out') = logSeq - Len(out)
    <3>1. Len(out) = 0
      BY <2>1
    <3>2. \/ logSeq' = logSeq /\ Len(out') = 0
          \/ logSeq' = logSeq + 1 /\ Len(out') = 1
      BY <2>1, <2>2
    <3>3. CASE logSeq' = logSeq /\ Len(out') = 0
      BY <1>0, <3>1, <3>3
    <3>4. CASE logSeq' = logSeq + 1 /\ Len(out') = 1
      BY <1>0, <3>1, <3>4
    <3> QED BY <3>2, <3>3, <3>4
  <2> QED BY <1>1, <2>3 DEF TakeOrder, persistent, committerVars, snapshotVars
<1>2. CASE ApplierMatch
  <2>1. CASE FinishTaker
    <3>1. logSeq' = logSeq + 1
      BY <2>1 DEF FinishTaker
    <3>2. PICK log : out' = Append(out, log)
      BY <2>1 DEF FinishTaker
    <3>3. Len(out') = Len(out) + 1 /\ Len(out) \in Nat
      BY <3>2, <1>0
    <3> QED BY <1>0, <1>2, <3>1, <3>3
         DEF ApplierMatch, persistent, committerVars, snapshotVars
  <2>2. CASE MatchMaker
    <3>1. \/ logSeq' = logSeq + 2 /\ \E a, b : out' = out \o <<a>> \o <<b>>
          \/ logSeq' = logSeq + 1 /\ \E a : out' = out \o <<a>> \o <<>>
      BY <2>2 DEF MatchMaker
    <3>2. logSeq' - Len(out') = logSeq - Len(out)
      <4>1. CASE logSeq' = logSeq + 2 /\ \E a, b : out' = out \o <<a>> \o <<b>>
        <5>1. Len(out') = Len(out) + 2 /\ Len(out) \in Nat
          BY <1>0, <4>1
        <5> QED BY <1>0, <4>1, <5>1
      <4>2. CASE logSeq' = logSeq + 1 /\ \E a : out' = out \o <<a>> \o <<>>
        <5>1. Len(out') = Len(out) + 1 /\ Len(out) \in Nat
          BY <1>0, <4>2
        <5> QED BY <1>0, <4>2, <5>1
      <4> QED BY <3>1, <4>1, <4>2
    <3> QED BY <1>2, <3>2
         DEF ApplierMatch, persistent, committerVars, snapshotVars
  <2> QED BY <1>2, <2>1, <2>2 DEF ApplierMatch
<1> QED BY <1>1, <1>2

\* A log accepted behind the last one leaves no gap.
LEMMA AcceptGaps ==
  ASSUME NEW W \in Seq(Log), NEW m \in Nat, NEW log \in Log, NEW L,
         log.seq = m + 1,  GapsIn(W, L), Covers(W, L, m)
  PROVE  GapsIn(Append(W, log), L) /\ Covers(Append(W, log), L, m + 1)
<1> DEFINE V == Append(W, log)
<1>1. /\ Len(V) = Len(W) + 1 /\ Len(W) \in Nat /\ V[Len(W) + 1] = log
      /\ \A i \in 1 .. Len(W) : V[i] = W[i]
  OBVIOUS
<1> HIDE DEF V
<1>2. ASSUME NEW n \in 1 .. m + 1
      PROVE  n \in L \/ \E j \in 1 .. Len(V) : V[j].seq = n
  <2>1. CASE n = m + 1
    <3>1. Len(W) + 1 \in 1 .. Len(V)
      BY <1>1
    <3> QED BY <1>1, <2>1, <3>1
  <2>2. CASE n \in 1 .. m /\ n \notin L
    <3>1. PICK j \in 1 .. Len(W) : W[j].seq = n
      BY <2>2 DEF Covers
    <3>2. j \in 1 .. Len(V) /\ V[j] = W[j]
      BY <1>1
    <3> QED BY <3>1, <3>2
  <2> QED BY <2>1, <2>2
<1>3. ASSUME NEW i \in 1 .. Len(V), NEW n \in 1 .. V[i].seq
      PROVE  n \in L \/ \E j \in 1 .. i : V[j].seq = n
  <2>1. CASE i = Len(W) + 1
    BY <1>1, <1>2, <2>1
  <2>2. CASE i \in 1 .. Len(W)
    <3>1. n \in 1 .. W[i].seq
      BY <1>1, <2>2
    <3>2. CASE n \notin L
      <4>1. PICK j \in 1 .. i : W[j].seq = n
        BY <2>2, <3>1, <3>2 DEF GapsIn
      <4>2. j \in 1 .. Len(W)
        BY <1>1, <2>2
      <4> QED BY <1>1, <4>1, <4>2
    <3> QED BY <3>2
  <2> QED BY <1>1, <2>1, <2>2
<1>4. GapsIn(V, L) /\ Covers(V, L, m + 1)
  BY <1>2, <1>3 DEF GapsIn, Covers
<1> QED BY <1>4 DEF V

\* More logs known to be lost excuse no less.
LEMMA GapsStay ==
  ASSUME NEW W, NEW m, NEW L, NEW K, L \subseteq K
  PROVE  /\ GapsIn(W, L) => GapsIn(W, K)
         /\ Covers(W, L, m) => Covers(W, K, m)
BY DEF GapsIn, Covers

LEMMA GapStep ==
  ASSUME TypeInv, TypeInv', GapInv, [Next]_vars
  PROVE  GapInv'
<1> USE DEF GapInv
<1>0. /\ logSeq \in Nat /\ seq \in Nat /\ committing \in BOOLEAN
      /\ out \in Seq(Log) /\ logCh \in Seq(Log)
      /\ logTopic \in Seq(Log) /\ buf \in Seq(Log)
      /\ stored \in Snapshot /\ stored.logSeq \in Nat
      /\ snapshotCh \in Seq(Snapshot)
      /\ \A l \in Log : l.seq \in Nat
      /\ Len(out) \in Nat /\ Len(logCh) \in Nat
  BY GapTypes
<1>1. CASE TakeOrder \/ ApplierMatch
  <2>1. /\ logSeq' - Len(out') = logSeq - Len(out)
        /\ UNCHANGED <<logTopic, stored, logCh, committing, seq, buf, snapshotCh, lost>>
    BY <1>1, ApplierNumbers
  <2>2. Base' = Base /\ Accepted' = Accepted
    BY <2>1 DEF Base, Accepted
  <2> QED BY <2>1, <2>2
<1>2. CASE SendLog
  <2>1. /\ out # <<>> /\ out' = Tail(out) /\ logCh' = Append(logCh, Head(out))
        /\ UNCHANGED <<logSeq, logTopic, stored, committing, seq, buf, snapshotCh, lost>>
    BY <1>2 DEF SendLog, persistent, committerVars, snapshotVars
  <2>2. /\ Len(out') = Len(out) - 1 /\ Len(logCh') = Len(logCh) + 1
        /\ logCh'[Len(logCh) + 1] = out[1] /\ 1 \in 1 .. Len(out)
        /\ \A i \in 1 .. Len(logCh) : logCh'[i] = logCh[i]
    BY <1>0, <2>1
  <2>3. out[1].seq = logSeq - Len(out) + 1
    BY <2>2 DEF TypeInv, BookInv, OutNumbered
  <2>4. Base' = Base /\ Accepted' = Accepted
    BY <1>0, <2>1, <2>2 DEF Base, Accepted
  <2>5. ASSUME NEW i \in 1 .. Len(logCh') PROVE logCh'[i].seq = Base + i
    <3>1. CASE i \in 1 .. Len(logCh)
      BY <2>2, <3>1
    <3>2. CASE i = Len(logCh) + 1
      BY <1>0, <2>2, <2>3, <3>2 DEF Base
    <3> QED BY <1>0, <2>2, <3>1, <3>2
  <2> QED BY <2>1, <2>4, <2>5
<1>3. CASE CommitterStart
  <2>1. /\ ~ committing /\ committing' = TRUE /\ seq' = logSeq
        /\ lost' = lost \cup (stored.logSeq + 1 .. logSeq)
        /\ UNCHANGED <<logSeq, out, logTopic, stored, logCh, buf, snapshotCh>>
    BY <1>3 DEF CommitterStart, bookVars, persistent, snapshotVars
  <2>2. Base' = Base /\ Accepted' = Accepted
    BY <2>1 DEF Base, Accepted
  <2>3. GapsIn(Accepted, lost') /\ Covers(Accepted, lost', stored.logSeq)
    BY <2>1, GapsStay
  <2>4. Covers(Accepted, lost', logSeq)
    <3> SUFFICES ASSUME NEW n \in 1 .. logSeq
                 PROVE n \in lost' \/ \E j \in 1 .. Len(Accepted) : Accepted[j].seq = n
      BY DEF Covers
    <3>1. CASE n \in 1 .. stored.logSeq
      BY <2>3, <3>1 DEF Covers
    <3>2. CASE n \in stored.logSeq + 1 .. logSeq
      BY <2>1, <3>2
    <3> QED BY <1>0, <3>1, <3>2
  <2>5. Base <= logSeq /\ stored.logSeq <= logSeq
    BY <1>0, <2>1 DEF Base
  <2>6. snapshotCh' = <<>> /\ Len(snapshotCh') = 0
    BY <2>1
  <2> QED BY <2>1, <2>2, <2>3, <2>4, <2>5, <2>6
<1>4. CASE CommitLog
  <2>1. /\ committing /\ committing' = committing /\ logCh # <<>>
        /\ logCh' = Tail(logCh)
        /\ UNCHANGED <<logSeq, out, stored, lost>>
    BY <1>4 DEF CommitLog, bookVars
  <2>2. /\ Head(logCh) = logCh[1] /\ 1 \in 1 .. Len(logCh) /\ Head(logCh) \in Log
        /\ Len(logCh') = Len(logCh) - 1
        /\ \A i \in 1 .. Len(logCh') : logCh'[i] = logCh[i + 1]
    BY <1>0, <2>1
  <2>3. Head(logCh).seq = Base + 1
    BY <2>2
  <2>4. Base' = Base + 1 /\ Base' \in Nat
    BY <1>0, <2>1, <2>2 DEF Base
  <2>5. ASSUME NEW i \in 1 .. Len(logCh') PROVE logCh'[i].seq = Base' + i
    <3>1. i + 1 \in 1 .. Len(logCh)
      BY <1>0, <2>2
    <3> QED BY <2>2, <2>4, <3>1
  <2>6. CASE UNCHANGED <<seq, buf, pending, logTopic, snapshotCh>> /\ Head(logCh).seq <= seq
    <3>1. Accepted' = Accepted /\ Base' <= seq
      BY <2>3, <2>4, <2>6 DEF Accepted
    <3> QED BY <2>1, <2>4, <2>5, <2>6, <3>1
  <2>7. CASE seq' = Head(logCh).seq /\ Head(logCh).seq > seq
    <3>1. seq' = seq + 1 /\ Base' = seq'
      BY <1>0, <2>1, <2>3, <2>4, <2>7
    <3>2. Accepted' = Append(Accepted, Head(logCh))
      <4> DEFINE log == Head(logCh)
      <4>0. logTopic \o Append(buf, log) = Append(logTopic \o buf, log)
        <5>1. logTopic \in Seq(Log) /\ buf \in Seq(Log) /\ log \in Log
          BY <1>0, <2>2
        <5> HIDE DEF log
        <5> QED BY <5>1
      <4>1. CASE buf' = Append(buf, log) /\ logTopic' = logTopic
        BY <4>0, <4>1, Zenon DEF Accepted
      <4>2. CASE buf' = <<>> /\ logTopic' = logTopic \o Append(buf, log)
        <5> HIDE DEF log
        <5>1. Append(buf, log) \in Seq(Log) /\ logTopic' \in Seq(Log)
          <6>1. log \in Log
            BY <2>2 DEF log
          <6>2. Append(buf, log) \in Seq(Log)
            BY <1>0, <6>1
          <6> QED BY <1>0, <4>2, <6>2
        <5>2. logTopic' \o <<>> = logTopic'
          BY <5>1
        <5>3. Accepted' = logTopic'
          BY <4>2, <5>2, Zenon DEF Accepted
        <5>4. logTopic \o Append(buf, log) = Append(Accepted, log)
          BY <4>0, Zenon DEF Accepted, log
        <5> QED BY <4>2, <5>3, <5>4, Zenon DEF log
      <4>3. \/ buf' = Append(buf, log) /\ logTopic' = logTopic
            \/ buf' = <<>> /\ logTopic' = logTopic \o Append(buf, log)
        <5>1. ~ (log.seq <= seq)
          BY <1>0, <2>2, <2>7
        <5> QED BY <1>4, <5>1, Zenon DEF CommitLog
      <4> QED BY <4>1, <4>2, <4>3
    <3>3. Accepted \in Seq(Log)
      BY <1>0 DEF Accepted
    <3>4. GapsIn(Accepted', lost) /\ Covers(Accepted', lost, seq')
      BY <1>0, <2>1, <2>2, <2>7, <3>1, <3>2, <3>3, AcceptGaps
    <3>5. ASSUME NEW i \in 1 .. Len(snapshotCh') PROVE snapshotCh'[i].logSeq <= seq'
      <4>1. pending \in Snapshot
        BY DEF TypeInv, SnapshotsOK, GoodSnapshot
      <4>2. CASE snapshotCh' = snapshotCh
        <5>1. snapshotCh[i] \in Snapshot /\ snapshotCh[i].logSeq <= seq
          BY <1>0, <2>1, <4>2
        <5>2. snapshotCh[i].logSeq \in Nat /\ snapshotCh'[i] = snapshotCh[i]
          BY <4>2, <5>1 DEF Snapshot
        <5> QED BY <1>0, <3>1, <5>1, <5>2
      <4>3. CASE snapshotCh' = Append(snapshotCh, pending) /\ seq' >= pending.logSeq
        <5>1. CASE i \in 1 .. Len(snapshotCh)
          <6>1. snapshotCh[i] \in Snapshot /\ snapshotCh[i].logSeq <= seq
            BY <1>0, <2>1, <5>1
          <6>2. snapshotCh'[i] = snapshotCh[i]
            BY <1>0, <4>1, <4>3, <5>1
          <6> QED BY <1>0, <3>1, <6>1, <6>2 DEF Snapshot
        <5>2. CASE i = Len(snapshotCh) + 1
          <6>1. snapshotCh'[i] = pending
            BY <1>0, <4>1, <4>3, <5>2
          <6> QED BY <1>0, <3>1, <4>1, <4>3, <6>1 DEF Snapshot
        <5> QED BY <1>0, <4>1, <4>3, <5>1, <5>2
      <4> QED BY <1>4, <4>2, <4>3 DEF CommitLog, Approved
    <3>6. stored.logSeq <= seq'
      BY <1>0, <2>1, <3>1
    <3> QED BY <2>1, <2>4, <2>5, <3>1, <3>4, <3>5, <3>6
  <2> QED BY <1>4, <2>6, <2>7 DEF CommitLog
<1>5. CASE ApproveSnapshot
  <2>1. /\ committing /\ seq' = seq
        /\ UNCHANGED <<logSeq, out, logCh, logTopic, stored, committing, buf, lost>>
        /\ \/ snapshotCh' = snapshotCh
           \/ /\ snapshotCh' = Append(snapshotCh, Head(approveCh))
              /\ seq >= Head(approveCh).logSeq
    BY <1>5 DEF ApproveSnapshot, Approved, bookVars, persistent
  <2>2. Head(approveCh) \in Snapshot
    BY <1>5 DEF ApproveSnapshot, TypeInv, SnapshotsOK, GoodSnapshot
  <2>3. Base' = Base /\ Accepted' = Accepted
    BY <2>1 DEF Base, Accepted
  <2>4. ASSUME NEW i \in 1 .. Len(snapshotCh') PROVE snapshotCh'[i].logSeq <= seq
    <3>1. CASE snapshotCh' = snapshotCh
      BY <2>1, <3>1
    <3>2. CASE /\ snapshotCh' = Append(snapshotCh, Head(approveCh))
               /\ seq >= Head(approveCh).logSeq
      <4>1. CASE i \in 1 .. Len(snapshotCh)
        BY <1>0, <2>1, <2>2, <3>2, <4>1
      <4>2. CASE i = Len(snapshotCh) + 1
        <5>1. snapshotCh'[i] = Head(approveCh)
          BY <1>0, <2>2, <3>2, <4>2
        <5> QED BY <1>0, <2>2, <3>2, <5>1 DEF Snapshot
      <4> QED BY <1>0, <2>2, <3>2, <4>1, <4>2
    <3> QED BY <2>1, <3>1, <3>2
  <2> QED BY <2>1, <2>3, <2>4
<1>6. CASE StoreSnapshot
  <2>1. /\ snapshotCh # <<>> /\ snapshotCh' = Tail(snapshotCh)
        /\ stored' = stored \/ stored' = [Head(snapshotCh) EXCEPT !.window = window]
        /\ UNCHANGED <<logSeq, out, logCh, logTopic, committing, seq, buf, lost>>
    BY <1>6 DEF StoreSnapshot, bookVars, committerVars
  <2>2. /\ Head(snapshotCh) = snapshotCh[1] /\ 1 \in 1 .. Len(snapshotCh)
        /\ Head(snapshotCh) \in Snapshot
        /\ Len(snapshotCh') = Len(snapshotCh) - 1
        /\ \A i \in 1 .. Len(snapshotCh') : snapshotCh'[i] = snapshotCh[i + 1]
    BY <1>0, <2>1
  <2>3. committing
    BY <1>0, <2>1
  <2>4. stored'.logSeq <= seq
    <3>1. [Head(snapshotCh) EXCEPT !.window = window].logSeq = Head(snapshotCh).logSeq
      BY <2>2 DEF Snapshot
    <3>2. Head(snapshotCh).logSeq <= seq
      BY <2>2, <2>3
    <3> QED BY <2>1, <2>3, <3>1, <3>2
  <2>5. ASSUME NEW i \in 1 .. Len(snapshotCh') PROVE snapshotCh'[i].logSeq <= seq
    <3>1. i + 1 \in 1 .. Len(snapshotCh)
      BY <1>0, <2>2
    <3> QED BY <2>2, <2>3, <3>1
  <2>6. Base' = Base /\ Accepted' = Accepted
    BY <2>1 DEF Base, Accepted
  <2> QED BY <2>1, <2>3, <2>4, <2>5, <2>6
<1>7. CASE Restart
  <2>1. /\ logSeq' = stored.logSeq /\ out' = <<>> /\ logCh' = <<>> /\ buf' = <<>>
        /\ snapshotCh' = <<>> /\ committing' = FALSE
        /\ logTopic' = logTopic /\ stored' = stored
        /\ lost' = lost \cup CoveredInBuffer
    BY <1>7 DEF Restart, persistent
  <2>2. Base' = stored.logSeq /\ Accepted' = logTopic
    BY <1>0, <2>1 DEF Base, Accepted
  <2>3. /\ Len(Accepted) = Len(logTopic) + Len(buf)
        /\ Len(logTopic) \in Nat /\ Len(buf) \in Nat
        /\ \A i \in 1 .. Len(logTopic) : Accepted[i] = logTopic[i]
        /\ \A i \in 1 .. Len(buf) : Accepted[Len(logTopic) + i] = buf[i]
    BY <1>0 DEF Accepted
  <2>4. GapsIn(logTopic, lost')
    <3> SUFFICES ASSUME NEW i \in 1 .. Len(logTopic), NEW n \in 1 .. logTopic[i].seq,
                        n \notin lost
                 PROVE  \E j \in 1 .. i : logTopic[j].seq = n
      BY <2>1 DEF GapsIn
    <3>1. i \in 1 .. Len(Accepted) /\ n \in 1 .. Accepted[i].seq
      BY <2>3
    <3>2. PICK j \in 1 .. i : Accepted[j].seq = n
      BY <3>1 DEF GapsIn
    <3>3. j \in 1 .. Len(logTopic)
      BY <2>3
    <3> QED BY <2>3, <3>2, <3>3
  <2>5. Covers(logTopic, lost', stored.logSeq)
    <3> SUFFICES ASSUME NEW n \in 1 .. stored.logSeq, n \notin lost'
                 PROVE  \E j \in 1 .. Len(logTopic) : logTopic[j].seq = n
      BY DEF Covers
    <3>1. PICK j \in 1 .. Len(Accepted) : Accepted[j].seq = n
      <4>1. Covers(Accepted, lost, stored.logSeq)
        <5>1. CASE committing
          BY <1>0, <5>1 DEF Covers
        <5>2. CASE ~ committing
          BY <5>2
        <5> QED BY <5>1, <5>2
      <4> QED BY <2>1, <4>1 DEF Covers
    <3>2. CASE j \in 1 .. Len(logTopic)
      BY <2>3, <3>1, <3>2
    <3>3. CASE j \notin 1 .. Len(logTopic)
      <4>1. j - Len(logTopic) \in 1 .. Len(buf)
        BY <2>3, <3>3
      <4>2. buf[j - Len(logTopic)].seq = n
        BY <2>3, <3>1, <4>1
      <4>3. n \in CoveredInBuffer
        BY <4>1, <4>2 DEF CoveredInBuffer
      <4> QED BY <2>1, <4>3
    <3> QED BY <3>2, <3>3
  <2>6. Len(logCh') = 0
    BY <2>1
  <2> QED BY <1>0, <2>1, <2>2, <2>4, <2>5, <2>6
<1>8. CASE \/ Fetch \/ OrderDone \/ SnapshotRequest \/ RequestSnapshot
           \/ UNCHANGED vars
  <2>1. UNCHANGED <<logSeq, out, logTopic, stored, logCh, committing, seq, buf,
                    snapshotCh, lost>>
    BY <1>8 DEF Fetch, OrderDone, SnapshotRequest, RequestSnapshot, vars, bookVars,
         persistent, committerVars, snapshotVars
  <2>2. Base' = Base /\ Accepted' = Accepted
    BY <2>1 DEF Base, Accepted
  <2> QED BY <2>1, <2>2
<1> QED BY <1>1, <1>2, <1>3, <1>4, <1>5, <1>6, <1>7, <1>8 DEF Next

\* However the committer and the applier start, however logs are batched and
\* whatever crashes and snapshots come between, the logs before any log of the
\* topic were written before it, unless one of the two races lost them: the
\* first number read late, or a snapshot stored before its logs.
THEOREM OnlyKnownGaps == Spec => []GapsAreKnown
<1>1. Init => TypeInv /\ GapInv
  BY EngineInit, GapInit
<1>2. (TypeInv /\ GapInv) /\ [Next]_vars => (TypeInv /\ GapInv)'
  BY TypeStep, GapStep
<1>3. TypeInv /\ GapInv => GapsAreKnown
  <2> SUFFICES ASSUME TypeInv, GapInv, NEW i \in 1 .. Len(logTopic),
                      NEW n \in 1 .. logTopic[i].seq, n \notin lost
               PROVE  \E j \in 1 .. i : logTopic[j].seq = n
    BY DEF GapsAreKnown
  <2>1. /\ Len(Accepted) = Len(logTopic) + Len(buf)
        /\ Len(logTopic) \in Nat /\ Len(buf) \in Nat
        /\ \A k \in 1 .. Len(logTopic) : Accepted[k] = logTopic[k]
    BY GapTypes DEF Accepted
  <2>2. i \in 1 .. Len(Accepted) /\ n \in 1 .. Accepted[i].seq
    BY <2>1
  <2>3. PICK j \in 1 .. i : Accepted[j].seq = n
    BY <2>2 DEF GapInv, GapsIn
  <2>4. j \in 1 .. Len(logTopic)
    BY <2>1
  <2> QED BY <2>1, <2>3, <2>4
<1> QED BY <1>1, <1>2, <1>3, PTL DEF Spec

-----------------------------------------------------------------------------
(* The snapshots on their way to Redis. *)

Older(a, b) == a.orderOffset <= b.orderOffset /\ a.logSeq <= b.logSeq

\* The fetcher reads upwards, and the applier finishes orders in this order.
FetchInv ==
  /\ \A i \in 1 .. Len(orderCh) :
       /\ orderCh[i] < fetchPos /\ cur < orderCh[i] /\ orderOffset <= orderCh[i]
  /\ \A i, j \in 1 .. Len(orderCh) : i < j => orderCh[i] < orderCh[j]
  /\ cur < fetchPos /\ orderOffset <= fetchPos
  /\ cur # -1 => orderOffset <= cur

\* The line of snapshots from the stored one, low, to the applier's state,
\* high: S in snapshotCh, the pending p, and A in approveCh.  None is older
\* than one before it.
InLine(low, S, p, A, high) ==
  /\ \A i \in 1 .. Len(S) : Older(low, S[i]) /\ Older(S[i], high)
  /\ \A j \in 1 .. Len(A) : A[j].exists /\ Older(low, A[j]) /\ Older(A[j], high)
  /\ \A i, j \in 1 .. Len(S) : i < j => Older(S[i], S[j])
  /\ \A i, j \in 1 .. Len(A) : i < j => Older(A[i], A[j])
  /\ \A i \in 1 .. Len(S) : \A j \in 1 .. Len(A) : Older(S[i], A[j])
  /\ p.exists =>
       /\ Older(low, p) /\ Older(p, high)
       /\ \A i \in 1 .. Len(S) : Older(S[i], p)
       /\ \A j \in 1 .. Len(A) : Older(p, A[j])

LineInv == InLine(stored, snapshotCh, pending, approveCh, TakeSnapshot)

\* After a restart the applier's offset is 0 and so behind the stored snapshot;
\* until it has caught up every request names the offset of that snapshot,
\* which the applier must have passed before it takes another.
RequestInv ==
  /\ lastOffset = stored.orderOffset
  /\ stored.logSeq <= logSeq
  /\ \/ stored.orderOffset <= orderOffset
     \/ \A i \in 1 .. Len(reqCh) : reqCh[i] = stored.orderOffset

AdvanceInv == FetchInv /\ LineInv /\ RequestInv

\* The numbers that are compared.
LEMMA AdvanceTypes ==
  ASSUME TypeInv
  PROVE  /\ orderCh \in Seq(Nat) /\ fetchPos \in Nat /\ cur \in Int /\ cur >= -1
         /\ orderOffset \in Nat /\ logSeq \in Nat /\ reqCh \in Seq(Nat)
         /\ lastOffset \in Nat
         /\ stored \in Snapshot /\ pending \in Snapshot
         /\ approveCh \in Seq(Snapshot) /\ snapshotCh \in Seq(Snapshot)
         /\ TakeSnapshot \in Snapshot
<1>1. /\ orderCh \in Seq(Nat) /\ fetchPos \in Nat /\ cur \in Int /\ cur >= -1
      /\ orderOffset \in Nat /\ reqCh \in Seq(Nat) /\ lastOffset \in Nat
  BY DEF TypeInv, ChannelsTypeOK
<1>2. logSeq \in Nat
  BY DEF TypeInv, BookInv, BookTypeOK
<1>3. /\ stored \in Snapshot /\ pending \in Snapshot
      /\ approveCh \in Seq(Snapshot) /\ snapshotCh \in Seq(Snapshot)
  BY DEF TypeInv, SnapshotsOK, GoodSnapshot
<1>4. TakeSnapshot \in Snapshot
  BY TakenIsGood, <1>1 DEF TypeInv, GoodSnapshot
<1> QED BY <1>1, <1>2, <1>3, <1>4

\* Older is transitive.
LEMMA OlderTransitive ==
  ASSUME NEW a \in Snapshot, NEW b \in Snapshot, NEW c \in Snapshot,
         Older(a, b), Older(b, c)
  PROVE  Older(a, c)
BY DEF Older, Snapshot

\* No snapshot is under way at the start.
LEMMA AdvanceInit == Init => AdvanceInv
<1> SUFFICES ASSUME Init PROVE AdvanceInv
  OBVIOUS
<1>1. FetchInv
  BY DEF Init, FetchInv
<1>2. LineInv
  BY DEF Init, LineInv, InLine, NoSnapshot
<1>3. RequestInv
  BY DEF Init, BookInit, RequestInv, NoSnapshot
<1> QED BY <1>1, <1>2, <1>3 DEF AdvanceInv

\* Every action of the book gives out numbers upwards.
LEMMA NumbersGrow ==
  ASSUME TypeInv, TakeOrder \/ ApplierMatch
  PROVE  logSeq <= logSeq'
<1>0. logSeq \in Nat
  BY AdvanceTypes
<1>1. CASE TakeOrder
  <2> DEFINE msg == topic[Head(orderCh) + 1]
  <2>1. CASE CancelOrder(msg.order)
    <3>1. logSeq' = logSeq \/ logSeq' = logSeq + 1
      BY <2>1 DEF CancelOrder
    <3> QED BY <3>1, <1>0
  <2>2. CASE Receive(msg.order)
    <3>1. logSeq' = logSeq
      BY <2>2 DEF Receive, bookVars
    <3> QED BY <3>1, <1>0
  <2> QED BY <1>1, <2>1, <2>2 DEF TakeOrder
<1>2. CASE ApplierMatch
  <2>1. CASE MatchMaker
    <3>1. logSeq' = logSeq + 2 \/ logSeq' = logSeq + 1
      BY <2>1 DEF MatchMaker
    <3> QED BY <3>1, <1>0
  <2>2. CASE FinishTaker
    BY <2>2, <1>0 DEF FinishTaker
  <2> QED BY <1>2, <2>1, <2>2 DEF ApplierMatch
<1> QED BY <1>1, <1>2

\* The order of the messages between the fetcher and the applier.
LEMMA FetchStep ==
  ASSUME TypeInv, FetchInv, [Next]_vars
  PROVE  FetchInv'
<1>0. /\ orderCh \in Seq(Nat) /\ fetchPos \in Nat /\ cur \in Int /\ cur >= -1
      /\ orderOffset \in Nat /\ stored.orderOffset \in Nat
  BY AdvanceTypes DEF Snapshot
<1>1. CASE Fetch
  <2>1. /\ orderCh' = Append(orderCh, fetchPos) /\ fetchPos' = fetchPos + 1
        /\ cur' = cur /\ orderOffset' = orderOffset
    BY <1>1 DEF Fetch
  <2>2. PICK n \in Nat : n = Len(orderCh)
    BY <1>0
  <2>3. /\ Len(orderCh') = n + 1 /\ orderCh'[n + 1] = fetchPos
        /\ \A i \in 1 .. n : orderCh'[i] = orderCh[i] /\ orderCh[i] \in Nat
    BY <1>0, <2>1, <2>2
  <2> QED BY <1>0, <2>1, <2>2, <2>3 DEF FetchInv
<1>2. CASE TakeOrder
  <2>1. /\ orderCh # <<>> /\ orderCh' = Tail(orderCh) /\ cur' = Head(orderCh)
        /\ fetchPos' = fetchPos /\ orderOffset' = orderOffset
    BY <1>2 DEF TakeOrder
  <2>2. PICK n \in Nat : n = Len(orderCh)
    BY <1>0
  <2>3. /\ n >= 1 /\ cur' = orderCh[1] /\ Len(orderCh') = n - 1
        /\ \A i \in 1 .. n - 1 : orderCh'[i] = orderCh[i + 1]
        /\ \A i \in 1 .. n : orderCh[i] \in Nat
    BY <1>0, <2>1, <2>2
  <2> QED BY <1>0, <2>1, <2>2, <2>3 DEF FetchInv
<1>3. CASE OrderDone
  <2>1. /\ cur # -1 /\ orderOffset' = cur /\ cur' = -1
        /\ orderCh' = orderCh /\ fetchPos' = fetchPos
    BY <1>3 DEF OrderDone
  <2>2. PICK n \in Nat : n = Len(orderCh)
    BY <1>0
  <2>3. \A i \in 1 .. n : orderCh[i] \in Nat
    BY <1>0, <2>2
  <2> QED BY <1>0, <2>1, <2>2, <2>3 DEF FetchInv
<1>4. CASE Restart
  <2>1. /\ fetchPos' = StartOffset(stored.orderOffset)
        /\ orderCh' = <<>> /\ cur' = -1 /\ orderOffset' = 0
    BY <1>4 DEF Restart
  <2>2. fetchPos' \in Nat
    BY <1>0, <2>1 DEF StartOffset
  <2> QED BY <2>1, <2>2 DEF FetchInv
<1>5. CASE UNCHANGED <<orderCh, fetchPos, cur, orderOffset>>
  BY <1>5 DEF FetchInv
<1> QED BY <1>1, <1>2, <1>3, <1>4, <1>5 DEF Next, ApplierMatch, SendLog,
         SnapshotRequest, CommitterStart, CommitLog, ApproveSnapshot,
         RequestSnapshot, StoreSnapshot, vars, applierVars

\* While the applier moves on, the snapshots under way keep their places.
LEMMA LineMoves ==
  ASSUME NEW low \in Snapshot, NEW S \in Seq(Snapshot), NEW p \in Snapshot,
         NEW A \in Seq(Snapshot), NEW high \in Snapshot, NEW new \in Snapshot,
         InLine(low, S, p, A, high), Older(high, new)
  PROVE  InLine(low, S, p, A, new)
<1>1. ASSUME NEW s \in Snapshot, Older(s, high) PROVE Older(s, new)
  BY <1>1, OlderTransitive
<1>2. /\ \A i \in 1 .. Len(S) : S[i] \in Snapshot
      /\ \A i \in 1 .. Len(A) : A[i] \in Snapshot
  OBVIOUS
<1> QED BY <1>1, <1>2 DEF InLine

\* orderBook.Snapshot: the applier's state joins the line at its end.
LEMMA LineTakes ==
  ASSUME NEW low \in Snapshot, NEW S \in Seq(Snapshot), NEW p \in Snapshot,
         NEW A \in Seq(Snapshot), NEW high \in Snapshot,
         InLine(low, S, p, A, high), Older(low, high), high.exists
  PROVE  InLine(low, S, p, Append(A, high), high)
<1>1. PICK n \in Nat : n = Len(A)
  OBVIOUS
<1>2. PICK B : B = Append(A, high)
  OBVIOUS
<1>3. /\ Len(B) = n + 1 /\ B[n + 1] = high
      /\ \A i \in 1 .. n : B[i] = A[i]
  BY <1>1, <1>2
<1>4. Older(high, high)
  BY DEF Older, Snapshot
<1>5. ASSUME NEW j \in 1 .. Len(B)
      PROVE  /\ B[j].exists /\ Older(low, B[j]) /\ Older(B[j], high)
             /\ \A i \in 1 .. Len(S) : Older(S[i], B[j])
             /\ p.exists => Older(p, B[j])
  <2>1. CASE j \in 1 .. n
    BY <1>1, <1>3, <2>1 DEF InLine
  <2>2. CASE j = n + 1
    BY <1>3, <1>4, <2>2 DEF InLine
  <2> QED BY <1>3, <2>1, <2>2
<1>6. ASSUME NEW i \in 1 .. Len(B), NEW j \in 1 .. Len(B), i < j
      PROVE  Older(B[i], B[j])
  <2>1. i \in 1 .. n
    BY <1>3, <1>6
  <2>2. CASE j \in 1 .. n
    BY <1>1, <1>3, <1>6, <2>1, <2>2 DEF InLine
  <2>3. CASE j = n + 1
    BY <1>1, <1>3, <2>1, <2>3 DEF InLine
  <2> QED BY <1>3, <2>2, <2>3
<1>7. InLine(low, S, p, B, high)
  BY <1>5, <1>6 DEF InLine
<1> QED BY <1>2, <1>7

\* The first of approveCh, as the committer takes it out.
LEMMA LineHead ==
  ASSUME NEW low \in Snapshot, NEW S \in Seq(Snapshot), NEW p \in Snapshot,
         NEW A \in Seq(Snapshot), NEW high \in Snapshot,
         InLine(low, S, p, A, high), A # <<>>
  PROVE  Head(A).exists /\ InLine(low, S, Head(A), Tail(A), high)
<1>1. PICK n \in Nat : n = Len(A)
  OBVIOUS
<1>2. PICK B : B = Tail(A)
  OBVIOUS
<1>3. /\ n >= 1 /\ Head(A) = A[1] /\ Len(B) = n - 1
      /\ \A i \in 1 .. n - 1 : B[i] = A[i + 1] /\ i + 1 \in 1 .. n
  BY <1>1, <1>2
<1>4. 1 \in 1 .. n /\ \A i \in 1 .. n - 1 : 1 < i + 1
  BY <1>3
<1>5. \A i, j \in 1 .. n - 1 : i < j => i + 1 < j + 1
  OBVIOUS
<1>6. PICK q : q = A[1]
  OBVIOUS
<1>7. q.exists /\ InLine(low, S, q, B, high)
  BY <1>1, <1>3, <1>4, <1>5, <1>6 DEF InLine
<1> QED BY <1>2, <1>3, <1>6, <1>7

\* The committer approves the snapshot that waits.
LEMMA LineApproves ==
  ASSUME NEW low \in Snapshot, NEW S \in Seq(Snapshot), NEW p \in Snapshot,
         NEW A \in Seq(Snapshot), NEW high \in Snapshot,
         InLine(low, S, p, A, high), p.exists
  PROVE  InLine(low, Append(S, p), NoSnapshot, A, high)
<1>1. PICK n \in Nat : n = Len(S)
  OBVIOUS
<1>2. PICK B : B = Append(S, p)
  OBVIOUS
<1>3. /\ Len(B) = n + 1 /\ B[n + 1] = p
      /\ \A i \in 1 .. n : B[i] = S[i]
  BY <1>1, <1>2
<1>4. ASSUME NEW j \in 1 .. Len(B)
      PROVE  /\ Older(low, B[j]) /\ Older(B[j], high)
             /\ \A i \in 1 .. Len(A) : Older(B[j], A[i])
  <2>1. CASE j \in 1 .. n
    BY <1>1, <1>3, <2>1 DEF InLine
  <2>2. CASE j = n + 1
    BY <1>3, <2>2 DEF InLine
  <2> QED BY <1>3, <2>1, <2>2
<1>5. ASSUME NEW i \in 1 .. Len(B), NEW j \in 1 .. Len(B), i < j
      PROVE  Older(B[i], B[j])
  <2>1. i \in 1 .. n
    BY <1>3, <1>5
  <2>2. CASE j \in 1 .. n
    BY <1>1, <1>3, <1>5, <2>1, <2>2 DEF InLine
  <2>3. CASE j = n + 1
    BY <1>1, <1>3, <2>1, <2>3 DEF InLine
  <2> QED BY <1>3, <2>2, <2>3
<1>6. ~ NoSnapshot.exists
  BY DEF NoSnapshot
<1>7. InLine(low, B, NoSnapshot, A, high)
  BY <1>4, <1>5, <1>6 DEF InLine
<1> QED BY <1>2, <1>7

\* A snapshot leaves the line: it is stored, or Redis fails and it is lost.
LEMMA LineStores ==
  ASSUME NEW low \in Snapshot, NEW S \in Seq(Snapshot), NEW p \in Snapshot,
         NEW A \in Seq(Snapshot), NEW high \in Snapshot,
         InLine(low, S, p, A, high), S # <<>>
  PROVE  /\ Older(low, S[1]) /\ Older(S[1], high)
         /\ InLine(S[1], Tail(S), p, A, high)
         /\ InLine(low, Tail(S), p, A, high)
<1>1. PICK n \in Nat : n = Len(S)
  OBVIOUS
<1>2. PICK B : B = Tail(S)
  OBVIOUS
<1>3. /\ n >= 1 /\ Len(B) = n - 1
      /\ \A i \in 1 .. n - 1 : B[i] = S[i + 1] /\ i + 1 \in 1 .. n
  BY <1>1, <1>2
<1>4. 1 \in 1 .. n /\ \A i \in 1 .. n - 1 : 1 < i + 1
  BY <1>3
<1>5. \A i, j \in 1 .. n - 1 : i < j => i + 1 < j + 1
  OBVIOUS
<1>6. InLine(low, B, p, A, high)
  BY <1>1, <1>3, <1>4, <1>5 DEF InLine
<1>7. InLine(S[1], B, p, A, high)
  <2>1. PICK q : q = S[1]
    OBVIOUS
  <2>2. /\ \A i \in 1 .. n - 1 : Older(q, B[i])
        /\ \A j \in 1 .. Len(A) : Older(q, A[j])
        /\ p.exists => Older(q, p)
    BY <1>1, <1>3, <1>4, <2>1 DEF InLine
  <2>3. InLine(q, B, p, A, high)
    BY <1>3, <1>6, <2>2 DEF InLine
  <2> QED BY <2>1, <2>3
<1> QED BY <1>1, <1>2, <1>4, <1>6, <1>7 DEF InLine

\* Every step keeps the line in order.
LEMMA AdvanceStep ==
  ASSUME TypeInv, TypeInv', FetchInv, LineInv, RequestInv, [Next]_vars
  PROVE  LineInv' /\ RequestInv'
<1>0. /\ reqCh \in Seq(Nat) /\ orderOffset \in Nat /\ logSeq \in Nat
      /\ lastOffset \in Nat /\ cur \in Int
      /\ approveCh \in Seq(Snapshot) /\ snapshotCh \in Seq(Snapshot)
      /\ stored \in Snapshot /\ pending \in Snapshot /\ TakeSnapshot \in Snapshot
  BY AdvanceTypes
<1>00. /\ stored.orderOffset \in Nat /\ stored.logSeq \in Nat
       /\ TakeSnapshot' \in Snapshot /\ orderOffset' \in Nat /\ logSeq' \in Nat
  <2>1. stored.orderOffset \in Nat /\ stored.logSeq \in Nat
    BY <1>0 DEF Snapshot
  <2>2. TakeSnapshot' \in Snapshot /\ orderOffset' \in Nat /\ logSeq' \in Nat
    BY BookAssumption DEF TakeSnapshot, Snapshot, TypeInv, BookInv, BookTypeOK,
       ChannelsTypeOK
  <2> QED BY <2>1, <2>2
<1>1. CASE TakeOrder \/ ApplierMatch \/ OrderDone
  <2>1. UNCHANGED <<stored, snapshotCh, approveCh, pending, reqCh, lastOffset>>
    BY <1>1 DEF TakeOrder, ApplierMatch, OrderDone, persistent, committerVars,
         snapshotVars
  <2>2. orderOffset <= orderOffset' /\ logSeq <= logSeq'
    <3>1. CASE TakeOrder \/ ApplierMatch
      <4>1. orderOffset' = orderOffset
        BY <3>1 DEF TakeOrder, ApplierMatch, applierVars
      <4> QED BY <3>1, <4>1, <1>0, NumbersGrow
    <3>2. CASE OrderDone
      BY <3>2, <1>0 DEF OrderDone, FetchInv, bookVars
    <3> QED BY <1>1, <3>1, <3>2
  <2>3. Older(TakeSnapshot, TakeSnapshot')
    BY <2>2 DEF Older, TakeSnapshot
  <2>4. LineInv'
    <3>1. InLine(stored, snapshotCh, pending, approveCh, TakeSnapshot')
      BY <1>0, <1>00, <2>3, LineMoves DEF LineInv
    <3> QED BY <2>1, <3>1 DEF LineInv
  <2>5. RequestInv'
    BY <1>0, <1>00, <2>1, <2>2 DEF RequestInv
  <2> QED BY <2>4, <2>5
<1>2. CASE SnapshotRequest
  <2>1. /\ reqCh # <<>> /\ reqCh' = Tail(reqCh)
        /\ UNCHANGED <<stored, snapshotCh, pending, orderOffset, logSeq, lastOffset>>
        /\ TakeSnapshot' = TakeSnapshot
    BY <1>2 DEF SnapshotRequest, persistent, committerVars, applierVars, bookVars,
         TakeSnapshot
  <2>2. RequestInv'
    <3>1. PICK n \in Nat : n = Len(reqCh)
      BY <1>0
    <3>2. Len(reqCh') = n - 1 /\ \A i \in 1 .. n - 1 : reqCh'[i] = reqCh[i + 1]
      BY <1>0, <2>1, <3>1
    <3> QED BY <1>0, <2>1, <3>1, <3>2 DEF RequestInv
  <2>3. CASE orderOffset - Head(reqCh) <= SnapshotDelta
    <3>1. approveCh' = approveCh
      BY <1>2, <2>3 DEF SnapshotRequest
    <3> QED BY <2>1, <2>2, <3>1 DEF LineInv
  <2>4. CASE ~ (orderOffset - Head(reqCh) <= SnapshotDelta)
    <3>1. approveCh' = Append(approveCh, TakeSnapshot)
      BY <1>2, <2>4 DEF SnapshotRequest
    <3>2. stored.orderOffset <= orderOffset
      <4>1. Head(reqCh) = reqCh[1] /\ 1 \in 1 .. Len(reqCh) /\ Head(reqCh) \in Nat
        BY <1>0, <2>1
      <4>2. CASE \A i \in 1 .. Len(reqCh) : reqCh[i] = stored.orderOffset
        BY <1>0, <1>00, <2>4, <4>1, <4>2, EngineAssumption
      <4> QED BY <4>2 DEF RequestInv
    <3>3. Older(stored, TakeSnapshot) /\ TakeSnapshot.exists
      BY <3>2 DEF Older, TakeSnapshot, RequestInv
    <3>4. InLine(stored, snapshotCh, pending, Append(approveCh, TakeSnapshot),
                 TakeSnapshot)
      BY <1>0, <3>3, LineTakes DEF LineInv
    <3> QED BY <2>1, <2>2, <3>1, <3>4 DEF LineInv
  <2> QED BY <2>3, <2>4
<1>3. CASE CommitLog
  <2>1. /\ UNCHANGED <<stored, approveCh, reqCh, orderOffset, logSeq, lastOffset>>
        /\ TakeSnapshot' = TakeSnapshot
    BY <1>3 DEF CommitLog, applierVars, bookVars, TakeSnapshot
  <2>2. \/ UNCHANGED <<snapshotCh, pending>>
        \/ /\ pending.exists
           /\ snapshotCh' = Append(snapshotCh, pending) /\ pending' = NoSnapshot
    BY <1>3, Zenon DEF CommitLog
  <2>3. RequestInv'
    BY <2>1 DEF RequestInv
  <2>4. CASE UNCHANGED <<snapshotCh, pending>>
    BY <2>1, <2>3, <2>4 DEF LineInv
  <2>5. CASE /\ pending.exists
             /\ snapshotCh' = Append(snapshotCh, pending) /\ pending' = NoSnapshot
    <3>1. InLine(stored, Append(snapshotCh, pending), NoSnapshot, approveCh,
                 TakeSnapshot)
      BY <1>0, <2>5, LineApproves DEF LineInv
    <3> QED BY <2>1, <2>3, <2>5, <3>1 DEF LineInv
  <2> QED BY <2>2, <2>4, <2>5
<1>4. CASE ApproveSnapshot
  <2>1. /\ UNCHANGED <<stored, reqCh, orderOffset, logSeq, lastOffset>>
        /\ TakeSnapshot' = TakeSnapshot
        /\ approveCh # <<>> /\ approveCh' = Tail(approveCh)
    BY <1>4 DEF ApproveSnapshot, persistent, applierVars, bookVars, TakeSnapshot
  <2>2. RequestInv'
    BY <2>1 DEF RequestInv
  <2>3. Head(approveCh) \in Snapshot /\ Tail(approveCh) \in Seq(Snapshot)
    BY <1>0, <2>1
  <2>4. /\ Head(approveCh).exists
        /\ InLine(stored, snapshotCh, Head(approveCh), Tail(approveCh), TakeSnapshot)
    BY <1>0, <2>1, LineHead DEF LineInv
  <2>5. CASE /\ snapshotCh' = Append(snapshotCh, Head(approveCh))
             /\ pending' = NoSnapshot
    <3>1. InLine(stored, Append(snapshotCh, Head(approveCh)), NoSnapshot,
                 Tail(approveCh), TakeSnapshot)
      BY <1>0, <2>3, <2>4, LineApproves
    <3> QED BY <2>1, <2>2, <2>5, <3>1 DEF LineInv
  <2>6. CASE snapshotCh' = snapshotCh /\ pending' = Head(approveCh)
    BY <2>1, <2>2, <2>4, <2>6 DEF LineInv
  <2> QED BY <1>4, <2>5, <2>6 DEF ApproveSnapshot
<1>5. CASE RequestSnapshot
  <2>1. /\ UNCHANGED <<stored, snapshotCh, pending, approveCh, orderOffset, logSeq,
                       lastOffset>>
        /\ TakeSnapshot' = TakeSnapshot /\ reqCh' = Append(reqCh, lastOffset)
    BY <1>5 DEF RequestSnapshot, persistent, committerVars, applierVars, bookVars,
         TakeSnapshot
  <2>2. PICK n \in Nat : n = Len(reqCh)
    BY <1>0
  <2>3. /\ Len(reqCh') = n + 1 /\ reqCh'[n + 1] = lastOffset
        /\ \A i \in 1 .. n : reqCh'[i] = reqCh[i]
    BY <1>0, <2>1, <2>2
  <2>4. RequestInv'
    BY <1>0, <1>00, <2>1, <2>2, <2>3 DEF RequestInv
  <2> QED BY <2>1, <2>4 DEF LineInv
<1>6. CASE StoreSnapshot
  <2>1. /\ UNCHANGED <<pending, approveCh, reqCh, orderOffset, logSeq>>
        /\ TakeSnapshot' = TakeSnapshot
        /\ snapshotCh # <<>> /\ snapshotCh' = Tail(snapshotCh)
        /\ Head(snapshotCh) = snapshotCh[1] /\ snapshotCh[1] \in Snapshot
    BY <1>0, <1>6 DEF StoreSnapshot, committerVars, applierVars, bookVars,
         TakeSnapshot
  <2>2. /\ Older(stored, snapshotCh[1]) /\ Older(snapshotCh[1], TakeSnapshot)
        /\ InLine(snapshotCh[1], Tail(snapshotCh), pending, approveCh, TakeSnapshot)
        /\ InLine(stored, Tail(snapshotCh), pending, approveCh, TakeSnapshot)
    BY <1>0, <2>1, LineStores DEF LineInv
  <2>3. CASE UNCHANGED <<stored, lastOffset>>
    BY <2>1, <2>2, <2>3 DEF LineInv, RequestInv
  <2>4. CASE /\ stored' = [Head(snapshotCh) EXCEPT !.window = window]
             /\ lastOffset' = Head(snapshotCh).orderOffset
    <3>1. /\ stored'.orderOffset = snapshotCh[1].orderOffset
          /\ stored'.logSeq = snapshotCh[1].logSeq
      BY <2>1, <2>4 DEF Snapshot
    <3>2. LineInv'
      <4>1. InLine(stored', Tail(snapshotCh), pending, approveCh, TakeSnapshot)
        BY <2>2, <3>1 DEF InLine, Older
      <4> QED BY <2>1, <4>1 DEF LineInv
    <3>3. RequestInv'
      BY <2>1, <2>2, <2>4, <3>1 DEF RequestInv, Older, TakeSnapshot
    <3> QED BY <3>2, <3>3
  <2> QED BY <1>6, <2>3, <2>4 DEF StoreSnapshot
<1>7. CASE Restart
  <2>1. /\ stored' = stored /\ lastOffset' = stored.orderOffset
        /\ logSeq' = stored.logSeq /\ pending' = NoSnapshot
        /\ reqCh' = <<>> /\ approveCh' = <<>> /\ snapshotCh' = <<>>
    BY <1>7 DEF Restart, persistent
  <2>2. LineInv'
    BY <2>1 DEF LineInv, InLine, NoSnapshot
  <2>3. RequestInv'
    BY <1>00, <2>1 DEF RequestInv
  <2> QED BY <2>2, <2>3
<1>8. CASE UNCHANGED <<stored, snapshotCh, pending, approveCh, depths, tradeSeq,
                       orderOffset, logSeq, reqCh, lastOffset>>
  <2>1. TakeSnapshot' = TakeSnapshot
    BY <1>8 DEF TakeSnapshot
  <2> QED BY <1>8, <2>1 DEF LineInv, RequestInv
<1>9. CASE Fetch \/ SendLog \/ CommitterStart \/ UNCHANGED vars
  <2>1. UNCHANGED <<stored, snapshotCh, pending, approveCh, depths, tradeSeq,
                    orderOffset, logSeq, reqCh, lastOffset>>
    BY <1>9 DEF Fetch, SendLog, CommitterStart, vars, bookVars, persistent,
         committerVars, applierVars, snapshotVars
  <2> QED BY <1>8, <2>1
<1> QED BY <1>1, <1>2, <1>3, <1>4, <1>5, <1>6, <1>7, <1>9 DEF Next

\* The snapshot that NewEngine restores from never goes back, neither in the
\* order topic nor in the log, although several snapshots may be under way, an
\* unapproved one gives way to a later one, Redis may fail, and after a restart
\* the applier replays from behind: what it takes then is never older.
THEOREM SnapshotNeverGoesBack == Spec => SnapshotAdvances
<1>1. Init => TypeInv /\ AdvanceInv
  BY EngineInit, AdvanceInit
<1>2. (TypeInv /\ AdvanceInv) /\ [Next]_vars => (TypeInv /\ AdvanceInv)'
  BY TypeStep, FetchStep, AdvanceStep DEF AdvanceInv
<1>3. (TypeInv /\ AdvanceInv) /\ [Next]_vars =>
        [/\ stored'.orderOffset >= stored.orderOffset
         /\ stored'.logSeq >= stored.logSeq]_stored
  <2> SUFFICES ASSUME TypeInv, AdvanceInv, [Next]_vars, stored' # stored
               PROVE  /\ stored'.orderOffset >= stored.orderOffset
                      /\ stored'.logSeq >= stored.logSeq
    OBVIOUS
  <2>1. StoreSnapshot
    BY DEF Next, Fetch, TakeOrder, ApplierMatch, SendLog, OrderDone, SnapshotRequest,
       CommitterStart, CommitLog, ApproveSnapshot, RequestSnapshot, Restart, vars,
       persistent
  <2>2. /\ stored \in Snapshot /\ snapshotCh \in Seq(Snapshot) /\ pending \in Snapshot
        /\ approveCh \in Seq(Snapshot) /\ TakeSnapshot \in Snapshot
    BY AdvanceTypes
  <2>3. /\ snapshotCh # <<>> /\ Head(snapshotCh) = snapshotCh[1]
        /\ snapshotCh[1] \in Snapshot
        /\ stored' = [Head(snapshotCh) EXCEPT !.window = window]
    BY <2>1, <2>2 DEF StoreSnapshot
  <2>4. Older(stored, snapshotCh[1])
    BY <2>2, <2>3, LineStores DEF AdvanceInv, LineInv
  <2> QED BY <2>2, <2>3, <2>4 DEF Older, Snapshot
<1> QED BY <1>1, <1>2, <1>3, PTL DEF Spec, SnapshotAdvances

-----------------------------------------------------------------------------
(* What the applier does with its orders, as a run: the states of the book
   between its steps, from the empty one on, and the logs of each step.  After
   a crash the applier does a part of the run again. *)

\* A state of the applier: the offset of the next message, and the book without
\* its window and without the logs that wait.
State(pos, D, ls, ts, t, l) ==
  [pos |-> pos, depths |-> D, logSeq |-> ls, tradeSeq |-> ts, taker |-> t, left |-> l]

\* TakeOrder, MatchMaker and FinishTaker from state c to state d with the logs L,
\* where the window rejects nothing.
TakeStep(tp, c, d, L) ==
  /\ c.taker = NoTaker
  /\ LET o == tp[c.pos + 1].order
     IN \/ /\ ~ tp[c.pos + 1].cancel
           /\ d = State(c.pos + 1, c.depths, c.logSeq, c.tradeSeq, TakerOf(o),
                        c.depths[Opposite(o.side)])
           /\ L = {}
        \/ /\ tp[c.pos + 1].cancel
           /\ \A x \in c.depths[o.side] : x.id # o.id
           /\ d = State(c.pos + 1, c.depths, c.logSeq, c.tradeSeq, NoTaker, c.left)
           /\ L = {}
        \/ /\ tp[c.pos + 1].cancel
           /\ \E x \in c.depths[o.side] :
                /\ x.id = o.id
                /\ d = State(c.pos + 1,
                             [c.depths EXCEPT ![o.side] = Decreased(@, x, x.size)],
                             c.logSeq + 1, c.tradeSeq, NoTaker, c.left)
                /\ L = {DoneLog(c.logSeq + 1, x, x.size, "cancelled")}

Filled(t, m, size) ==
  IF MarketBuy(t) THEN [t EXCEPT !.funds = @ - size * m.price]
  ELSE [t EXCEPT !.size = @ - size]

MatchWith(c, d, L, m, side, size) ==
  /\ d = State(c.pos, [c.depths EXCEPT ![side] = Decreased(@, m, size)],
               c.logSeq + (IF size = m.size THEN 2 ELSE 1), c.tradeSeq + 1,
               Filled(c.taker, m, size), c.left \ {m})
  /\ L = {MatchLog(c.logSeq + 1, c.tradeSeq + 1, c.taker, m, size)} \cup
           (IF size = m.size THEN {DoneLog(c.logSeq + 2, m, 0, "filled")} ELSE {})

MatchStep(c, d, L) ==
  /\ c.taker # NoTaker
  /\ \E m \in c.left :
       /\ First(Opposite(c.taker.side), c.left, m)
       /\ Crosses(c.taker, m)
       /\ Wanted(c.taker, m) # 0
       /\ MatchWith(c, d, L, m, Opposite(c.taker.side),
                    Smaller(Wanted(c.taker, m), m.size))

Ends(c) ==
  \/ c.left = {}
  \/ \E m \in c.left : /\ First(Opposite(c.taker.side), c.left, m)
                       /\ ~ Crosses(c.taker, m) \/ Wanted(c.taker, m) = 0

FinishWith(c, d, D, L, log) ==
  /\ d = State(c.pos, D, c.logSeq + 1, c.tradeSeq, NoTaker, {})
  /\ L = {log}

FinishStep(c, d, L) ==
  /\ c.taker # NoTaker
  /\ Ends(c)
  /\ \/ /\ c.taker.type = "limit" /\ c.taker.size > 0
        /\ FinishWith(c, d, [c.depths EXCEPT ![c.taker.side] = Added(@, c.taker)], L,
                      OpenLog(c.logSeq + 1, c.taker))
     \/ /\ c.taker.type = "limit" /\ c.taker.size = 0
        /\ FinishWith(c, d, c.depths, L, DoneLog(c.logSeq + 1, c.taker, 0, "filled"))
     \/ /\ c.taker.type = "market"
        /\ FinishWith(c, d, c.depths, L,
             DoneLog(c.logSeq + 1, [c.taker EXCEPT !.price = 0], 0,
                     IF (IF c.taker.side = "buy" THEN c.taker.funds
                                                 ELSE c.taker.size) > 0
                     THEN "cancelled" ELSE "filled"))

Step(tp, c, d, L) == TakeStep(tp, c, d, L) \/ MatchStep(c, d, L) \/ FinishStep(c, d, L)

\* No id is on one side of the book twice.
UniqueIds(D) == \A s \in Sides : \A x, y \in D[s] : x.id = y.id => x = y

TypedState(c) ==
  /\ c.logSeq \in Nat
  /\ c.depths \in [Sides -> SUBSET BookOrder]
  /\ c.left \subseteq BookOrder
  /\ c.taker # NoTaker => /\ c.taker \in BookOrder
                          /\ c.left \subseteq c.depths[Opposite(c.taker.side)]

GoodState(c) == TypedState(c) /\ UniqueIds(c.depths)

-----------------------------------------------------------------------------
\* There is one order at the front of a depth.
LEMMA OneFirst ==
  ASSUME NEW side, NEW S \in SUBSET BookOrder, NEW a \in S, NEW b \in S,
         First(side, S, a), First(side, S, b)
  PROVE  a = b
<1> SUFFICES ASSUME a # b PROVE FALSE
  OBVIOUS
<1>1. Before(side, a, b) /\ Before(side, b, a)
  BY DEF First
<1>2. a \in BookOrder /\ b \in BookOrder
  OBVIOUS
<1>3. \A x \in BookOrder : x.price \in Int /\ x.id \in Int
  <2> TAKE x \in BookOrder
  <2>1. x.price \in Nat /\ x.id \in OrderIds
    BY DEF BookOrder
  <2>2. x.id \in Nat
    <3>1. PICK i \in OrderIds : i = x.id
      BY <2>1
    <3>2. i \in Nat
      BY BookAssumption
    <3> QED BY <3>1, <3>2
  <2>3. \A k \in Nat : k \in Int
    OBVIOUS
  <2> QED BY <2>1, <2>2, <2>3, Zenon
<1> QED BY <1>1, <1>2, <1>3 DEF Before

\* The loop either trades or ends.
LEMMA TradeOrEnd ==
  ASSUME NEW c, c.left \subseteq BookOrder, NEW m \in c.left,
         First(Opposite(c.taker.side), c.left, m),
         Crosses(c.taker, m), Wanted(c.taker, m) # 0
  PROVE  ~ Ends(c)
<1> SUFFICES ASSUME NEW n \in c.left, First(Opposite(c.taker.side), c.left, n),
                    ~ Crosses(c.taker, n) \/ Wanted(c.taker, n) = 0
             PROVE FALSE
  BY DEF Ends
<1>1. m = n
  BY OneFirst
<1> QED BY <1>1

\* ApplyOrder and CancelOrder leave no choice: from the same state the same
\* message has the same outcome and the same logs.
LEMMA OneOutcome ==
  ASSUME NEW tp, NEW c, GoodState(c),
         tp[c.pos + 1].order.side \in Sides \/ c.taker # NoTaker,
         NEW d, NEW L, Step(tp, c, d, L),
         NEW e, NEW K, Step(tp, c, e, K)
  PROVE  d = e /\ L = K
<1>1. CASE c.taker = NoTaker
  <2> DEFINE o == tp[c.pos + 1].order
  <2>1. TakeStep(tp, c, d, L) /\ TakeStep(tp, c, e, K)
    BY <1>1 DEF Step, MatchStep, FinishStep
  <2>2. \A x, y \in c.depths[o.side] : x.id = o.id /\ y.id = o.id => x = y
    BY <1>1 DEF GoodState, UniqueIds
  <2> QED BY <2>1, <2>2 DEF TakeStep
<1>2. CASE c.taker # NoTaker /\ MatchStep(c, d, L)
  <2>1. c.left \subseteq BookOrder
    BY DEF GoodState, TypedState
  <2>2. PICK m \in c.left :
          /\ First(Opposite(c.taker.side), c.left, m)
          /\ Crosses(c.taker, m) /\ Wanted(c.taker, m) # 0
          /\ MatchWith(c, d, L, m, Opposite(c.taker.side),
                       Smaller(Wanted(c.taker, m), m.size))
    BY <1>2 DEF MatchStep
  <2>3. ~ Ends(c)
    BY <2>1, <2>2, TradeOrEnd
  <2>4. MatchStep(c, e, K)
    BY <1>2, <2>3 DEF Step, TakeStep, FinishStep
  <2>5. PICK n \in c.left :
          /\ First(Opposite(c.taker.side), c.left, n)
          /\ MatchWith(c, e, K, n, Opposite(c.taker.side),
                       Smaller(Wanted(c.taker, n), n.size))
    BY <2>4 DEF MatchStep
  <2>6. m = n
    BY <2>1, <2>2, <2>5, OneFirst
  <2> QED BY <2>2, <2>5, <2>6, Zenon DEF MatchWith
<1>3. CASE c.taker # NoTaker /\ FinishStep(c, d, L)
  <2>1. c.left \subseteq BookOrder
    BY DEF GoodState, TypedState
  <2>2. Ends(c)
    BY <1>3 DEF FinishStep
  <2>3. ~ MatchStep(c, e, K)
    BY <2>1, <2>2, TradeOrEnd DEF MatchStep
  <2>4. FinishStep(c, e, K)
    BY <1>3, <2>3 DEF Step, TakeStep
  <2>5. ~ (c.taker.size > 0 /\ c.taker.size = 0)
    OBVIOUS
  <2> HIDE DEF FinishStep
  <2>6. CASE c.taker.type = "limit" /\ c.taker.size > 0
    BY <1>3, <2>4, <2>6 DEF FinishStep, FinishWith
  <2>7. CASE c.taker.type = "limit" /\ c.taker.size = 0
    BY <1>3, <2>4, <2>7 DEF FinishStep, FinishWith
  <2>8. CASE c.taker.type = "market"
    BY <1>3, <2>4, <2>8 DEF FinishStep, FinishWith
  <2> QED BY <1>3, <2>6, <2>7, <2>8 DEF FinishStep
<1> QED BY <1>1, <1>2, <1>3 DEF Step, TakeStep

\* The logs of a step carry the numbers the step gives out, each once.
LEMMA StepNumbers ==
  ASSUME NEW tp, NEW c, c.logSeq \in Nat, NEW d, NEW L, Step(tp, c, d, L)
  PROVE  /\ d.logSeq \in Nat /\ c.logSeq <= d.logSeq
         /\ \A l \in L : l.seq \in Nat /\ c.logSeq < l.seq /\ l.seq <= d.logSeq
         /\ \A l, k \in L : l.seq = k.seq => l = k
<1>1. CASE TakeStep(tp, c, d, L)
  <2>1. CASE d.logSeq = c.logSeq /\ L = {}
    BY <2>1
  <2>2. CASE d.logSeq = c.logSeq + 1 /\ \E l : L = {l} /\ l.seq = c.logSeq + 1
    BY <2>2
  <2>3. \A x, n, size, why : DoneLog(n, x, size, why).seq = n
    BY DEF DoneLog
  <2> HIDE DEF DoneLog
  <2>4. \/ d.logSeq = c.logSeq /\ L = {}
        \/ d.logSeq = c.logSeq + 1 /\ \E l : L = {l} /\ l.seq = c.logSeq + 1
    <3> DEFINE o == tp[c.pos + 1].order
    <3>1. \/ L = {} /\ \E p, D, t, l : d = State(p, D, c.logSeq, c.tradeSeq, t, l)
          \/ \E x \in c.depths[o.side] :
               /\ \E p, D, t, l : d = State(p, D, c.logSeq + 1, c.tradeSeq, t, l)
               /\ L = {DoneLog(c.logSeq + 1, x, x.size, "cancelled")}
      BY <1>1, Zenon DEF TakeStep
    <3> HIDE DEF o
    <3>2. CASE L = {} /\ \E p, D, t, l : d = State(p, D, c.logSeq, c.tradeSeq, t, l)
      BY <3>2 DEF State
    <3>3. CASE \E x \in c.depths[o.side] :
               /\ \E p, D, t, l : d = State(p, D, c.logSeq + 1, c.tradeSeq, t, l)
               /\ L = {DoneLog(c.logSeq + 1, x, x.size, "cancelled")}
      BY <3>3, <2>3 DEF State
    <3> QED BY <3>1, <3>2, <3>3
  <2> QED BY <2>1, <2>2, <2>4
<1>2. CASE MatchStep(c, d, L)
  <2>1. PICK m \in c.left : MatchWith(c, d, L, m, Opposite(c.taker.side),
                                      Smaller(Wanted(c.taker, m), m.size))
    BY <1>2 DEF MatchStep
  <2> DEFINE size == Smaller(Wanted(c.taker, m), m.size)
             a == MatchLog(c.logSeq + 1, c.tradeSeq + 1, c.taker, m, size)
             b == DoneLog(c.logSeq + 2, m, 0, "filled")
  <2>2. a.seq = c.logSeq + 1 /\ b.seq = c.logSeq + 2
    BY DEF MatchLog, DoneLog
  <2>3. \/ L = {a, b} /\ d.logSeq = c.logSeq + 2
        \/ L = {a} /\ d.logSeq = c.logSeq + 1
    BY <2>1 DEF MatchWith, State
  <2> HIDE DEF a, b
  <2> QED BY <2>2, <2>3
<1>3. CASE FinishStep(c, d, L)
  <2>1. /\ \A x, n : OpenLog(n, x).seq = n
        /\ \A x, n, size, why : DoneLog(n, x, size, why).seq = n
    BY DEF OpenLog, DoneLog
  <2>2. d.logSeq = c.logSeq + 1 /\ \E l : L = {l} /\ l.seq = c.logSeq + 1
    BY <1>3, <2>1 DEF FinishStep, FinishWith, State
  <2> QED BY <2>2
<1> QED BY <1>1, <1>2, <1>3 DEF Step
-----------------------------------------------------------------------------
\* T is a run of the applier over the topic tp, and E the logs of its steps.
Run(tp, T, E, n) ==
  /\ \A k \in 1 .. n : GoodState(T[k])
  /\ \A k \in 1 .. n - 1 : Step(tp, T[k], T[k + 1], E[k])
  /\ \A j, k \in 1 .. n : j <= k => T[j].logSeq <= T[k].logSeq

StatesOf(T, n) == {T[k] : k \in 1 .. n}
LogsOf(E, n) == UNION {E[k] : k \in 1 .. n - 1}

\* R and M are the states and the logs of one run.
History(tp, R, M) ==
  \E n \in Nat \ {0} : \E T, E :
    /\ Run(tp, T, E, n)
    /\ R = StatesOf(T, n)
    /\ M = LogsOf(E, n)

\* A step from the last state of a run makes it longer.
LEMMA RunGrows ==
  ASSUME NEW tp, NEW n \in Nat \ {0}, NEW T, NEW E, Run(tp, T, E, n),
         NEW d, NEW L, Step(tp, T[n], d, L), GoodState(d)
  PROVE  \E U, F :
           /\ Run(tp, U, F, n + 1)
           /\ StatesOf(U, n + 1) = StatesOf(T, n) \cup {d}
           /\ LogsOf(F, n + 1) = LogsOf(E, n) \cup L
<1> DEFINE V == [k \in 1 .. n + 1 |-> IF k = n + 1 THEN d ELSE T[k]]
           G == [k \in 1 .. n |-> IF k = n THEN L ELSE E[k]]
<1>1. PICK U : U = V
  OBVIOUS
<1>2. PICK F : F = G
  OBVIOUS
<1>3. /\ \A k \in 1 .. n : U[k] = T[k]
      /\ U[n + 1] = d
      /\ \A k \in 1 .. n - 1 : F[k] = E[k]
      /\ F[n] = L
  BY <1>1, <1>2
<1> HIDE DEF V, G
<1>4. /\ 1 .. n + 1 = (1 .. n) \cup {n + 1} /\ n \in 1 .. n
      /\ 1 .. n = (1 .. n - 1) \cup {n}
      /\ \A k \in 1 .. n - 1 : k \in 1 .. n /\ k + 1 \in 1 .. n
      /\ \A k \in 1 .. n : k <= n /\ k \in Int /\ ~ (n + 1 <= k)
  OBVIOUS
<1>5. \A k \in 1 .. n + 1 : GoodState(U[k])
  BY <1>3, <1>4, Zenon DEF Run
<1>6. \A k \in 1 .. n : Step(tp, U[k], U[k + 1], F[k])
  <2>1. \A k \in 1 .. n - 1 : Step(tp, U[k], U[k + 1], F[k])
    BY <1>3, <1>4, Zenon DEF Run
  <2>2. Step(tp, U[n], U[n + 1], F[n])
    BY <1>3, <1>4, Zenon
  <2> QED BY <1>4, <2>1, <2>2, Zenon
<1>7. T[n].logSeq \in Nat /\ \A k \in 1 .. n : T[k].logSeq \in Nat
  BY <1>4 DEF Run, GoodState, TypedState
<1>8. T[n].logSeq <= d.logSeq /\ d.logSeq \in Nat
  BY <1>7, StepNumbers
<1>9. \A j, k \in 1 .. n + 1 : j <= k => U[j].logSeq <= U[k].logSeq
  <2>1. \A j \in 1 .. n : T[j].logSeq <= T[n].logSeq
    BY <1>4 DEF Run
  <2>2. \A j \in 1 .. n : T[j].logSeq <= d.logSeq
    BY <1>7, <1>8, <2>1
  <2>3. \A j, k \in 1 .. n : j <= k => U[j].logSeq <= U[k].logSeq
    BY <1>3 DEF Run
  <2>4. \A j \in 1 .. n : U[j].logSeq <= U[n + 1].logSeq
    BY <1>3, <2>2
  <2>5. U[n + 1].logSeq <= U[n + 1].logSeq
    BY <1>3, <1>8
  <2> QED BY <1>4, <2>3, <2>4, <2>5
<1>10. n + 1 - 1 = n
  OBVIOUS
<1>11. Run(tp, U, F, n + 1)
  BY <1>5, <1>6, <1>9, <1>10 DEF Run
<1>12. StatesOf(U, n + 1) = StatesOf(T, n) \cup {d}
  BY <1>3, <1>4 DEF StatesOf
<1>13. LogsOf(F, n + 1) = LogsOf(E, n) \cup L
  <2>1. ASSUME NEW l PROVE l \in LogsOf(F, n + 1) <=> \E k \in 1 .. n : l \in F[k]
    BY <1>10 DEF LogsOf
  <2>2. ASSUME NEW l PROVE l \in LogsOf(E, n) <=> \E k \in 1 .. n - 1 : l \in E[k]
    BY DEF LogsOf
  <2> QED BY <1>3, <1>4, <2>1, <2>2, Zenon
<1> QED BY <1>11, <1>12, <1>13, Zenon

\* A step from any state of a run, again or for the first time, stays in it.
LEMMA HistoryGrows ==
  ASSUME NEW tp, NEW R, NEW M, History(tp, R, M),
         NEW c \in R, tp[c.pos + 1].order.side \in Sides \/ c.taker # NoTaker,
         NEW d, NEW L, Step(tp, c, d, L), GoodState(d)
  PROVE  \E Q, N : /\ History(tp, Q, N)
                   /\ R \subseteq Q /\ d \in Q /\ M \subseteq N /\ L \subseteq N
<1>1. PICK n, T, E :
        /\ n \in Nat \ {0}
        /\ Run(tp, T, E, n)
        /\ R = StatesOf(T, n)
        /\ M = LogsOf(E, n)
  BY DEF History
<1>2. PICK k \in 1 .. n : c = T[k]
  BY <1>1 DEF StatesOf
<1>3. CASE k = n
  <2>1. PICK U, F :
          /\ Run(tp, U, F, n + 1)
          /\ StatesOf(U, n + 1) = R \cup {d}
          /\ LogsOf(F, n + 1) = M \cup L
    <3>1. Step(tp, T[n], d, L)
      BY <1>2, <1>3
    <3>2. \E U, F :
            /\ Run(tp, U, F, n + 1)
            /\ StatesOf(U, n + 1) = StatesOf(T, n) \cup {d}
            /\ LogsOf(F, n + 1) = LogsOf(E, n) \cup L
      <4>1. Run(tp, T, E, n)
        BY <1>1
      <4>2. n \in Nat \ {0}
        BY <1>1
      <4>3. GoodState(d)
        OBVIOUS
      <4> HIDE DEF Run, StatesOf, LogsOf, Step, GoodState
      <4> QED BY ONLY <3>1, <4>1, <4>2, <4>3, RunGrows
    <3> QED BY <1>1, <3>2
  <2>2. n + 1 \in Nat \ {0}
    BY <1>1
  <2>3. History(tp, R \cup {d}, M \cup L)
    BY <2>1, <2>2, Zenon DEF History
  <2> QED BY <2>3
<1>4. CASE k # n
  <2>1. k \in 1 .. n - 1 /\ k + 1 \in 1 .. n
    BY <1>1, <1>4
  <2>2. GoodState(c) /\ Step(tp, c, T[k + 1], E[k])
    BY <1>1, <1>2, <2>1 DEF Run
  <2>3. d = T[k + 1] /\ L = E[k]
    BY <2>2, OneOutcome, Zenon
  <2>4. d \in R /\ L \subseteq M
    BY <1>1, <2>1, <2>3 DEF StatesOf, LogsOf
  <2> QED BY <2>4
<1> QED BY <1>3, <1>4

\* A run gives out each number once.
LEMMA HistoryAgrees ==
  ASSUME NEW tp, NEW R, NEW M, History(tp, R, M),
         NEW a \in M, NEW b \in M, a.seq = b.seq
  PROVE  a = b
<1>1. PICK n, T, E :
        /\ n \in Nat \ {0}
        /\ Run(tp, T, E, n)
        /\ M = LogsOf(E, n)
  BY DEF History
<1>2. PICK i \in 1 .. n - 1 : a \in E[i]
  BY <1>1 DEF LogsOf
<1>3. PICK j \in 1 .. n - 1 : b \in E[j]
  BY <1>1 DEF LogsOf
<1>4. ASSUME NEW k \in 1 .. n - 1
      PROVE  /\ k + 1 \in 1 .. n /\ k \in 1 .. n
             /\ T[k].logSeq \in Nat /\ T[k + 1].logSeq \in Nat
             /\ \A l \in E[k] :
                  l.seq \in Nat /\ T[k].logSeq < l.seq /\ l.seq <= T[k + 1].logSeq
             /\ \A l, m \in E[k] : l.seq = m.seq => l = m
  <2>1. k + 1 \in 1 .. n /\ k \in 1 .. n
    BY <1>1
  <2>2. T[k].logSeq \in Nat /\ T[k + 1].logSeq \in Nat
    BY <1>1, <2>1 DEF Run, GoodState, TypedState
  <2>3. Step(tp, T[k], T[k + 1], E[k])
    BY <1>1 DEF Run
  <2> QED BY <2>1, <2>2, <2>3, StepNumbers
<1>5. \A k, m \in 1 .. n : k <= m => T[k].logSeq <= T[m].logSeq
  BY <1>1 DEF Run
<1>6. ~ (i < j)
  <2> SUFFICES ASSUME i < j PROVE FALSE
    OBVIOUS
  <2>1. i + 1 <= j
    OBVIOUS
  <2>2. T[i + 1].logSeq <= T[j].logSeq
    BY <1>4, <1>5, <2>1
  <2> QED BY <1>2, <1>3, <1>4, <2>2
<1>7. ~ (j < i)
  <2> SUFFICES ASSUME j < i PROVE FALSE
    OBVIOUS
  <2>1. j + 1 <= i
    OBVIOUS
  <2>2. T[j + 1].logSeq <= T[i].logSeq
    BY <1>4, <1>5, <2>1
  <2> QED BY <1>2, <1>3, <1>4, <2>2
<1>8. i = j
  BY <1>6, <1>7
<1> QED BY <1>2, <1>3, <1>4, <1>8
-----------------------------------------------------------------------------
\* No step puts an id on one side of the book twice.
LEMMA StepUnique ==
  ASSUME NEW tp, NEW c, GoodState(c), NEW d, NEW L, Step(tp, c, d, L)
  PROVE  UniqueIds(d.depths)
<1>0. /\ c.depths \in [Sides -> SUBSET BookOrder] /\ UniqueIds(c.depths)
      /\ c.taker # NoTaker => c.left \subseteq c.depths[Opposite(c.taker.side)]
  BY DEF GoodState, TypedState
<1>1. ASSUME NEW s, NEW S, UniqueIds([c.depths EXCEPT ![s] = S]) \/ S = c.depths[s],
             d.depths = [c.depths EXCEPT ![s] = S]
      PROVE  UniqueIds(d.depths)
  BY <1>0, <1>1 DEF UniqueIds
<1>2. ASSUME NEW s \in Sides, NEW S,
             \A x, y \in S : x.id = y.id => x = y
      PROVE  UniqueIds([c.depths EXCEPT ![s] = S])
  BY <1>0, <1>2 DEF UniqueIds
<1>3. ASSUME NEW s \in Sides, NEW m \in c.depths[s], NEW size
      PROVE  UniqueIds([c.depths EXCEPT ![s] = Decreased(@, m, size)])
  <2>1. \A x, y \in c.depths[s] : x.id = y.id => x = y
    BY <1>0 DEF UniqueIds
  <2>2. m \in BookOrder
    BY <1>0
  <2>3. [m EXCEPT !.size = @ - size].id = m.id
    BY <2>2 DEF BookOrder
  <2>4. \A x, y \in Decreased(c.depths[s], m, size) : x.id = y.id => x = y
    <3>1. PICK q : q = [m EXCEPT !.size = @ - size]
      OBVIOUS
    <3>2. \A x \in Decreased(c.depths[s], m, size) :
            x = q \/ (x \in c.depths[s] /\ x # m)
      BY <3>1 DEF Decreased
    <3>3. q.id = m.id
      BY <2>3, <3>1
    <3> QED BY <2>1, <3>2, <3>3
  <2> QED BY <1>2, <2>4
<1>4. CASE TakeStep(tp, c, d, L)
  <2> DEFINE o == tp[c.pos + 1].order
  <2>1. \/ d.depths = c.depths
        \/ \E x \in c.depths[o.side] :
             d.depths = [c.depths EXCEPT ![o.side] = Decreased(@, x, x.size)]
    <3>1. \/ \E p, t, l : d = State(p, c.depths, c.logSeq, c.tradeSeq, t, l)
          \/ \E x \in c.depths[o.side] : \E p, n, t, l :
               d = State(p, [c.depths EXCEPT ![o.side] = Decreased(@, x, x.size)], n,
                         c.tradeSeq, t, l)
      BY <1>4, Zenon DEF TakeStep
    <3>2. \A p, D, n, u, t, l : State(p, D, n, u, t, l).depths = D
      BY DEF State
    <3> HIDE DEF o, State
    <3>3. CASE \E p, t, l : d = State(p, c.depths, c.logSeq, c.tradeSeq, t, l)
      BY <3>2, <3>3
    <3>4. CASE \E x \in c.depths[o.side] : \E p, n, t, l :
               d = State(p, [c.depths EXCEPT ![o.side] = Decreased(@, x, x.size)], n,
                         c.tradeSeq, t, l)
      <4>1. PICK x \in c.depths[o.side] : \E p, n, t, l :
               d = State(p, [c.depths EXCEPT ![o.side] = Decreased(@, x, x.size)], n,
                         c.tradeSeq, t, l)
        BY <3>4
      <4>2. d.depths = [c.depths EXCEPT ![o.side] = Decreased(@, x, x.size)]
        BY <3>2, <4>1
      <4> QED BY <4>2
    <3> QED BY <3>1, <3>3, <3>4
  <2> HIDE DEF o
  <2>2. ASSUME NEW x \in c.depths[o.side],
               d.depths = [c.depths EXCEPT ![o.side] = Decreased(@, x, x.size)]
        PROVE  UniqueIds(d.depths)
    <3>1. CASE o.side \in Sides
      BY <2>2, <3>1, <1>3
    <3>2. CASE o.side \notin Sides
      <4>1. d.depths = c.depths
        BY <1>0, <2>2, <3>2
      <4> QED BY <1>0, <4>1
    <3> QED BY <3>1, <3>2
  <2> QED BY <1>0, <2>1, <2>2
<1>5. CASE MatchStep(c, d, L)
  <2>1. PICK m \in c.left : MatchWith(c, d, L, m, Opposite(c.taker.side),
                                      Smaller(Wanted(c.taker, m), m.size))
    BY <1>5 DEF MatchStep
  <2> DEFINE side == Opposite(c.taker.side)
             size == Smaller(Wanted(c.taker, m), m.size)
  <2>2. d.depths = [c.depths EXCEPT ![side] = Decreased(@, m, size)]
    BY <2>1 DEF MatchWith, State
  <2>3. m \in c.depths[side] /\ side \in Sides
    BY <1>0, <1>5 DEF MatchStep, Opposite, Sides
  <2> HIDE DEF side, size
  <2> QED BY <1>3, <2>2, <2>3
<1>6. CASE FinishStep(c, d, L)
  <2>1. \/ d.depths = c.depths
        \/ d.depths = [c.depths EXCEPT ![c.taker.side] = Added(@, c.taker)]
    BY <1>6 DEF FinishStep, FinishWith, State
  <2>2. c.taker.side \in Sides
    BY <1>6 DEF FinishStep, GoodState, TypedState, BookOrder
  <2>3. \A x, y \in Added(c.depths[c.taker.side], c.taker) : x.id = y.id => x = y
    BY <1>0, <2>2 DEF Added, UniqueIds
  <2>4. UniqueIds([c.depths EXCEPT ![c.taker.side] = Added(@, c.taker)])
    BY <1>2, <2>2, <2>3
  <2> QED BY <1>0, <2>1, <2>4
<1> QED BY <1>4, <1>5, <1>6 DEF Step

-----------------------------------------------------------------------------
(* The engine as a part of such a run. *)

\* The offset of the message the applier takes next.
Pos == fetchPos - Len(orderCh)

\* The messages come one by one, and a snapshot is taken between two of them.
PlaceInv ==
  /\ Pos \in Nat
  /\ \A i \in 1 .. Len(orderCh) : orderCh[i] = Pos + i - 1
  /\ cur # -1 => cur = Pos - 1
  /\ cur = -1 /\ orderOffset > 0 => orderOffset = Pos - 1
  /\ cur = -1 => taker = NoTaker
  /\ taker = NoTaker => left = {}

Now == State(Pos, depths, logSeq, tradeSeq, taker, left)

\* Where the applier is after a restart from snapshot s.
Resumed(s) ==
  State(StartOffset(s.orderOffset), s.depths, s.logSeq, s.tradeSeq, NoTaker, {})

Kept(R) == {s \in Snapshot : Resumed(s) \in R}

\* The state, every snapshot and every log are part of the run R, M.
PartOf(R, M) ==
  /\ History(topic, R, M)
  /\ Now \in R
  /\ NoSnapshot \in Kept(R) /\ stored \in Kept(R) /\ pending \in Kept(R)
  /\ approveCh \in Seq(Kept(R)) /\ snapshotCh \in Seq(Kept(R))
  /\ logTopic \in Seq(M) /\ buf \in Seq(M) /\ logCh \in Seq(M) /\ out \in Seq(M)

ReplayInv == PlaceInv /\ \E R, M : PartOf(R, M)

\* The fetcher starts at the first message.
LEMMA PlaceInit == Init => PlaceInv
BY DEF Init, BookInit, PlaceInv, Pos

\* The place in the topic survives every step, a restart included: the fetcher
\* starts right after the orders that the stored book already has.
LEMMA PlaceStep ==
  ASSUME TypeInv, PlaceInv, [Next]_vars
  PROVE  PlaceInv'
<1>0. /\ orderCh \in Seq(Nat) /\ fetchPos \in Nat /\ cur \in Int
      /\ orderOffset \in Nat /\ stored.orderOffset \in Nat
  BY AdvanceTypes DEF Snapshot
<1>1. PICK n \in Nat : n = Len(orderCh)
  BY <1>0
<1>2. CASE Fetch
  <2>1. /\ orderCh' = Append(orderCh, fetchPos) /\ fetchPos' = fetchPos + 1
        /\ UNCHANGED <<cur, orderOffset, taker, left>>
    BY <1>2 DEF Fetch, bookVars
  <2>2. /\ Len(orderCh') = n + 1 /\ orderCh'[n + 1] = fetchPos
        /\ \A i \in 1 .. n : orderCh'[i] = orderCh[i]
    BY <1>0, <1>1, <2>1
  <2>3. Pos' = Pos /\ Pos + n = fetchPos
    BY <1>0, <1>1, <2>1, <2>2 DEF Pos
  <2>4. \A i \in 1 .. n + 1 : orderCh'[i] = Pos + i - 1
    <3>1. \A i \in 1 .. n : orderCh'[i] = Pos + i - 1
      BY <1>1, <2>2 DEF PlaceInv
    <3>2. orderCh'[n + 1] = Pos + (n + 1) - 1
      BY <1>0, <2>2, <2>3
    <3>3. 1 .. n + 1 = (1 .. n) \cup {n + 1}
      OBVIOUS
    <3> QED BY <3>1, <3>2, <3>3
  <2> QED BY <2>1, <2>2, <2>3, <2>4 DEF PlaceInv
<1>3. CASE TakeOrder
  <2>1. /\ cur = -1 /\ orderCh # <<>> /\ orderCh' = Tail(orderCh)
        /\ cur' = Head(orderCh) /\ fetchPos' = fetchPos
        /\ orderOffset' = orderOffset
    BY <1>3 DEF TakeOrder
  <2>2. /\ n >= 1 /\ cur' = orderCh[1] /\ Len(orderCh') = n - 1
        /\ \A i \in 1 .. n - 1 : orderCh'[i] = orderCh[i + 1]
    BY <1>0, <1>1, <2>1
  <2>3. Pos' = Pos + 1 /\ Pos \in Nat /\ cur' = Pos
    BY <1>0, <1>1, <2>1, <2>2 DEF Pos, PlaceInv
  <2>4. \A i \in 1 .. n - 1 : orderCh'[i] = Pos' + i - 1
    BY <1>1, <2>2, <2>3 DEF PlaceInv
  <2>5. taker' = NoTaker => left' = {}
    <3> DEFINE msg == topic[Head(orderCh) + 1]
    <3>1. CASE CancelOrder(msg.order)
      BY <3>1 DEF CancelOrder, PlaceInv
    <3>2. CASE Receive(msg.order)
      <4>1. msg.order \in Orders
        BY <2>1, MessageType DEF TypeInv
      <4> HIDE DEF msg
      <4>2. TakerOf(msg.order) # NoTaker
        BY <4>1, OrdersType
      <4> QED BY <3>2, <4>2 DEF Receive, PlaceInv, bookVars
    <3> QED BY <1>3, <3>1, <3>2 DEF TakeOrder
  <2>6. cur' # -1 /\ cur' = Pos' - 1 /\ Pos' \in Nat
    BY <2>3
  <2> QED BY <2>2, <2>4, <2>5, <2>6 DEF PlaceInv
<1>4. CASE ApplierMatch
  <2>1. /\ taker # NoTaker /\ UNCHANGED <<fetchPos, orderCh, cur, orderOffset>>
    BY <1>4 DEF ApplierMatch, MatchMaker, FinishTaker, applierVars
  <2>2. Pos' = Pos /\ cur # -1
    BY <2>1 DEF Pos, PlaceInv
  <2>3. taker' = NoTaker => left' = {}
    <3>1. CASE FinishTaker
      BY <3>1 DEF FinishTaker
    <3>2. CASE MatchMaker
      <4>1. taker' # NoTaker
        <5>1. taker \in BookOrder
          BY <2>1 DEF TypeInv, BookInv, BookTypeOK
        <5>2. \E s : \/ taker' = [taker EXCEPT !.funds = s]
                      \/ taker' = [taker EXCEPT !.size = s]
          BY <3>2 DEF MatchMaker
        <5>3. taker'.id = taker.id /\ taker.id \in OrderIds
          BY <5>1, <5>2 DEF BookOrder
        <5>4. NoTaker.id = 0 /\ 0 \notin OrderIds
          BY BookAssumption DEF NoTaker
        <5> QED BY <5>3, <5>4
      <4> QED BY <4>1
    <3> QED BY <1>4, <3>1, <3>2 DEF ApplierMatch
  <2> QED BY <2>1, <2>2, <2>3 DEF PlaceInv
<1>5. CASE OrderDone
  <2>1. /\ cur # -1 /\ orderOffset' = cur /\ cur' = -1 /\ taker = NoTaker
        /\ UNCHANGED <<fetchPos, orderCh, taker, left>>
    BY <1>5 DEF OrderDone, Idle, bookVars
  <2>2. Pos' = Pos
    BY <2>1 DEF Pos
  <2> QED BY <2>1, <2>2 DEF PlaceInv
<1>6. CASE Restart
  <2>1. /\ fetchPos' = StartOffset(stored.orderOffset) /\ orderCh' = <<>>
        /\ cur' = -1 /\ orderOffset' = 0 /\ taker' = NoTaker /\ left' = {}
    BY <1>6 DEF Restart
  <2>2. fetchPos' \in Nat
    BY <1>0, <2>1 DEF StartOffset
  <2>3. Pos' = fetchPos' /\ Len(orderCh') = 0
    BY <2>1, <2>2 DEF Pos
  <2> QED BY <2>1, <2>2, <2>3 DEF PlaceInv
<1>7. CASE UNCHANGED <<fetchPos, orderCh, cur, orderOffset, taker, left>>
  <2>1. Pos' = Pos
    BY <1>7 DEF Pos
  <2> QED BY <1>7, <2>1 DEF PlaceInv
<1> QED BY <1>2, <1>3, <1>4, <1>5, <1>6, <1>7 DEF Next, SendLog, SnapshotRequest,
         CommitterStart, CommitLog, ApproveSnapshot, RequestSnapshot, StoreSnapshot,
         vars, applierVars, bookVars

\* The ids have outgrown the window: no message is dropped as a duplicate.
PastWindow == \A i \in OrderIds : i > WindowCap

\* Taking a message is the step of the run that its offset says.
LEMMA TakeIsStep ==
  ASSUME PastWindow, TypeInv, PlaceInv, PlaceInv', TakeOrder
  PROVE  /\ topic[Now.pos + 1].order.side \in Sides
         /\ \E L : /\ Step(topic, Now, Now', L)
                   /\ \A N : L \subseteq N /\ out \in Seq(N) => out' \in Seq(N)
<1>0. orderCh \in Seq(Nat) /\ fetchPos \in Nat
  BY AdvanceTypes
<1>1. /\ cur = -1 /\ orderCh # <<>> /\ orderCh' = Tail(orderCh)
      /\ cur' = Head(orderCh) /\ fetchPos' = fetchPos
  BY DEF TakeOrder
<1>2. Head(orderCh) = Pos /\ Pos' = Pos + 1
  <2>1. PICK n \in Nat : n = Len(orderCh)
    BY <1>0
  <2>2. n >= 1 /\ Head(orderCh) = orderCh[1] /\ Len(orderCh') = n - 1
    BY <1>0, <1>1, <2>1
  <2>3. orderCh[1] = Pos + 1 - 1 /\ Pos \in Nat
    BY <2>1, <2>2 DEF PlaceInv
  <2> QED BY <1>0, <1>1, <2>1, <2>2, <2>3 DEF Pos
<1>3. PICK o : o = topic[Pos + 1].order
  OBVIOUS
<1>4. o \in Orders
  BY <1>1, <1>2, <1>3, MessageType DEF TypeInv
<1>5. o \in BookOrder /\ o.side \in Sides /\ o.id \in OrderIds
  BY <1>4, OrdersType DEF BookOrder
<1>6. ~ Rejected(o.id)
  <2>1. o.id \in Nat /\ o.id > WindowCap /\ WindowCap \in Nat
    BY <1>5, BookAssumption DEF PastWindow
  <2> QED BY <2>1 DEF Rejected
<1>7. taker = NoTaker /\ left = {}
  BY <1>1 DEF PlaceInv
<1>8. PICK c : c = Now
  OBVIOUS
<1>9. /\ c.pos = Pos /\ c.depths = depths /\ c.logSeq = logSeq /\ c.tradeSeq = tradeSeq
      /\ c.taker = NoTaker /\ c.left = left
  BY <1>7, <1>8 DEF Now, State
<1>10. Now' = State(Pos + 1, depths', logSeq', tradeSeq', taker', left')
  BY <1>2 DEF Now
<1>11. out = <<>> /\ \/ topic[Pos + 1].cancel /\ CancelOrder(o)
                     \/ ~ topic[Pos + 1].cancel /\ Receive(o)
  BY <1>2, <1>3 DEF TakeOrder, CancelOrder, Receive, Idle
<1>12. CASE ~ topic[Pos + 1].cancel /\ Receive(o)
  <2>1. /\ taker' = TakerOf(o) /\ left' = depths[Opposite(o.side)]
        /\ UNCHANGED <<depths, logSeq, tradeSeq, out>>
    BY <1>6, <1>12 DEF Receive
  <2>2. TakeStep(topic, c, Now', {})
    BY <1>3, <1>9, <1>10, <1>12, <2>1 DEF TakeStep
  <2>3. Step(topic, Now, Now', {})
    BY <1>8, <2>2 DEF Step
  <2> QED BY <1>3, <1>5, <1>8, <1>9, <2>1, <2>3
<1>13. CASE topic[Pos + 1].cancel /\ CancelOrder(o)
  <2>1. UNCHANGED <<tradeSeq, taker, left>>
    BY <1>13 DEF CancelOrder
  <2>2. CASE (\A x \in depths[o.side] : x.id # o.id) /\ UNCHANGED <<depths, logSeq, out>>
    <3>1. TakeStep(topic, c, Now', {})
      BY <1>3, <1>7, <1>9, <1>10, <1>13, <2>1, <2>2 DEF TakeStep
    <3>2. Step(topic, Now, Now', {})
      BY <1>8, <3>1 DEF Step
    <3> QED BY <1>3, <1>5, <1>8, <1>9, <2>2, <3>2
  <2>3. ASSUME NEW x \in depths[o.side], x.id = o.id,
               depths' = [depths EXCEPT ![o.side] = Decreased(@, x, x.size)],
               logSeq' = logSeq + 1,
               out' = <<DoneLog(logSeq + 1, x, x.size, "cancelled")>>
        PROVE  \E L : /\ Step(topic, Now, Now', L)
                      /\ \A N : L \subseteq N /\ out \in Seq(N) => out' \in Seq(N)
    <3>1. PICK log : log = DoneLog(logSeq + 1, x, x.size, "cancelled")
      OBVIOUS
    <3>2. TakeStep(topic, c, Now', {log})
      BY <1>3, <1>7, <1>9, <1>10, <1>13, <2>1, <2>3, <3>1 DEF TakeStep
    <3>3. Step(topic, Now, Now', {log})
      BY <1>8, <3>2 DEF Step
    <3>4. \A N : {log} \subseteq N => <<log>> \in Seq(N)
      OBVIOUS
    <3> QED BY <2>3, <3>1, <3>3, <3>4
  <2>4. \E L : /\ Step(topic, Now, Now', L)
               /\ \A N : L \subseteq N /\ out \in Seq(N) => out' \in Seq(N)
    BY <1>13, <2>2, <2>3 DEF CancelOrder
  <2> QED BY <1>3, <1>5, <1>8, <1>9, <2>4
<1> QED BY <1>11, <1>12, <1>13

\* Each turn of the loop of ApplyOrder is a step of the run.
LEMMA MatchIsStep ==
  ASSUME TypeInv, PlaceInv, ApplierMatch
  PROVE  /\ Now.taker # NoTaker
         /\ \E L : /\ Step(topic, Now, Now', L)
                   /\ \A N : L \subseteq N /\ out \in Seq(N) => out' \in Seq(N)
<1>1. Pos' = Pos
  BY DEF ApplierMatch, applierVars, Pos
<1>2. PICK c : c = Now
  OBVIOUS
<1>3. /\ c.pos = Pos /\ c.depths = depths /\ c.logSeq = logSeq /\ c.tradeSeq = tradeSeq
      /\ c.taker = taker /\ c.left = left
  BY <1>2 DEF Now, State
<1>4. Now' = State(Pos, depths', logSeq', tradeSeq', taker', left')
  BY <1>1 DEF Now
<1>5. taker # NoTaker
  BY DEF ApplierMatch, MatchMaker, FinishTaker
<1>6. CASE FinishTaker
  <2>1. Ends(c)
    BY <1>3, <1>6 DEF FinishTaker, LoopEnds, Ends
  <2>2. logSeq' = logSeq + 1 /\ taker' = NoTaker /\ left' = {} /\ tradeSeq' = tradeSeq
    BY <1>6 DEF FinishTaker
  <2>3. PICK log :
          /\ out' = Append(out, log)
          /\ \/ /\ taker.type = "limit" /\ taker.size > 0
                /\ depths' = [depths EXCEPT ![taker.side] = Added(@, taker)]
                /\ log = OpenLog(logSeq + 1, taker)
             \/ /\ taker.type = "limit" /\ taker.size = 0 /\ depths' = depths
                /\ log = DoneLog(logSeq + 1, taker, 0, "filled")
             \/ /\ taker.type = "market" /\ depths' = depths
                /\ log = DoneLog(logSeq + 1, [taker EXCEPT !.price = 0], 0,
                     IF (IF taker.side = "buy" THEN taker.funds
                                               ELSE taker.size) > 0
                     THEN "cancelled" ELSE "filled")
    BY <1>6, Zenon DEF FinishTaker
  <2>4. FinishStep(c, Now', {log})
    BY <1>3, <1>4, <1>5, <2>1, <2>2, <2>3, Zenon DEF FinishStep, FinishWith
  <2>5. Step(topic, Now, Now', {log})
    BY <1>2, <2>4 DEF Step
  <2>6. \A N : {log} \subseteq N /\ out \in Seq(N) => Append(out, log) \in Seq(N)
    OBVIOUS
  <2> QED BY <1>2, <1>3, <1>5, <2>3, <2>5, <2>6
<1>7. CASE MatchMaker
  <2>1. PICK m \in left :
          LET side == Opposite(taker.side)
              size == Smaller(Wanted(taker, m), m.size)
              full == size = m.size
          IN /\ First(side, left, m)
             /\ Crosses(taker, m)
             /\ Wanted(taker, m) # 0
             /\ taker' = Filled(taker, m, size)
             /\ depths' = [depths EXCEPT ![side] = Decreased(@, m, size)]
             /\ left' = left \ {m}
             /\ tradeSeq' = tradeSeq + 1
             /\ logSeq' = logSeq + (IF full THEN 2 ELSE 1)
             /\ out' = out \o <<MatchLog(logSeq + 1, tradeSeq + 1, taker, m, size)>>
                           \o (IF full THEN <<DoneLog(logSeq + 2, m, 0, "filled")>>
                                       ELSE <<>>)
    BY <1>7, Zenon DEF MatchMaker, Filled
  <2> DEFINE side == Opposite(taker.side)
             size == Smaller(Wanted(taker, m), m.size)
             a == MatchLog(logSeq + 1, tradeSeq + 1, taker, m, size)
             b == DoneLog(logSeq + 2, m, 0, "filled")
             L == {a} \cup (IF size = m.size THEN {b} ELSE {})
  <2>2. MatchWith(c, Now', L, m, side, size)
    BY <1>3, <1>4, <2>1, Zenon DEF MatchWith
  <2>3. MatchStep(c, Now', L)
    BY <1>3, <1>5, <2>1, <2>2, Zenon DEF MatchStep
  <2>4. Step(topic, Now, Now', L)
    BY <1>2, <2>3, Zenon DEF Step
  <2>5. out' = out \o <<a>> \o (IF size = m.size THEN <<b>> ELSE <<>>)
    BY <2>1, Zenon
  <2> HIDE DEF a, b, size
  <2>6. ASSUME NEW N, L \subseteq N, out \in Seq(N) PROVE out' \in Seq(N)
    <3>1. a \in N /\ out \o <<a>> \in Seq(N)
      BY <2>6
    <3>2. CASE size = m.size
      <4>1. b \in N /\ <<b>> \in Seq(N)
        BY <2>6, <3>2
      <4> QED BY <2>5, <3>1, <3>2, <4>1
    <3>3. CASE size # m.size
      <4>1. out' = out \o <<a>> \o <<>>
        BY <2>5, <3>3
      <4> QED BY <3>1, <4>1
    <3> QED BY <3>2, <3>3
  <2> HIDE DEF L
  <2> QED BY <1>2, <1>3, <1>5, <2>4, <2>6
<1> QED BY <1>6, <1>7 DEF ApplierMatch

\* The book as it is between two steps of the applier is a state of a run.
LEMMA NowTyped ==
  ASSUME BookInv, Pos \in Int
  PROVE  TypedState(Now)
<1>1. /\ Now.depths = depths /\ Now.logSeq = logSeq /\ Now.taker = taker
      /\ Now.left = left
  BY DEF Now, State
<1>2. /\ logSeq \in Nat /\ depths \in [Sides -> SUBSET BookOrder]
      /\ left \subseteq BookOrder /\ taker \in BookOrder \cup {NoTaker}
      /\ taker # NoTaker => left \subseteq depths[Opposite(taker.side)]
  BY DEF BookInv, BookTypeOK, TakerOK
<1> QED BY <1>1, <1>2, Zenon DEF TypedState

\* A step of the applier adds to the run what it has not done before.
LEMMA ApplierReplays ==
  ASSUME PastWindow, TypeInv, PlaceInv, TypeInv', PlaceInv',
         TakeOrder \/ ApplierMatch, NEW R, NEW M, PartOf(R, M)
  PROVE  \E Q, N : PartOf(Q, N)'
<1>1. /\ topic[Now.pos + 1].order.side \in Sides \/ Now.taker # NoTaker
      /\ \E L : /\ Step(topic, Now, Now', L)
                /\ \A N : L \subseteq N /\ out \in Seq(N) => out' \in Seq(N)
  BY TakeIsStep, MatchIsStep
<1>2. PICK L : /\ Step(topic, Now, Now', L)
               /\ \A N : L \subseteq N /\ out \in Seq(N) => out' \in Seq(N)
  BY <1>1
<1>3. PICK c : c = Now
  OBVIOUS
<1>4. PICK d : d = Now'
  OBVIOUS
<1>5. History(topic, R, M) /\ c \in R /\ Step(topic, c, d, L)
  BY <1>2, <1>3, <1>4 DEF PartOf
<1>6. GoodState(c)
  <2>1. PICK n, T, E :
          n \in Nat \ {0} /\ Run(topic, T, E, n) /\ R = StatesOf(T, n)
    BY <1>5 DEF History
  <2> QED BY <1>5, <2>1 DEF Run, StatesOf
<1>7. GoodState(d)
  <2>1. UniqueIds(d.depths)
    BY <1>5, <1>6, StepUnique
  <2>2. TypedState(d)
    <3>1. (BookInv /\ Pos \in Int)'
      BY DEF TypeInv, PlaceInv
    <3>2. (BookInv /\ Pos \in Int => TypedState(Now))'
      BY NowTyped, PTL
    <3>3. TypedState(Now')
      BY <3>1, <3>2 DEF TypedState
    <3> QED BY <1>4, <3>3
  <2> QED BY <2>1, <2>2 DEF GoodState
<1>8. PICK Q, N : /\ History(topic, Q, N)
                  /\ R \subseteq Q /\ d \in Q /\ M \subseteq N /\ L \subseteq N
  <2>1. topic[c.pos + 1].order.side \in Sides \/ c.taker # NoTaker
    BY <1>1, <1>3
  <2> HIDE DEF History, Step, GoodState
  <2> QED BY ONLY <1>5, <1>7, <2>1, HistoryGrows
<1>9. UNCHANGED <<topic, logTopic, stored, logCh, buf, pending, approveCh, snapshotCh>>
  BY DEF TakeOrder, ApplierMatch, persistent, committerVars, snapshotVars
<1>10. Kept(R) \subseteq Kept(Q)
  BY <1>8 DEF Kept
<1>11. /\ logTopic \in Seq(N) /\ buf \in Seq(N) /\ logCh \in Seq(N) /\ out \in Seq(N)
       /\ approveCh \in Seq(Kept(Q)) /\ snapshotCh \in Seq(Kept(Q))
       /\ NoSnapshot \in Kept(Q) /\ stored \in Kept(Q) /\ pending \in Kept(Q)
  <2>1. /\ \A s : s \in Seq(M) => s \in Seq(N)
        /\ \A s : s \in Seq(Kept(R)) => s \in Seq(Kept(Q))
    BY <1>8, <1>10
  <2> QED BY <1>10, <2>1 DEF PartOf
<1>12. out' \in Seq(N)
  BY <1>2, <1>8, <1>11
<1>13. PartOf(Q, N)'
  BY <1>4, <1>8, <1>9, <1>11, <1>12 DEF PartOf, Kept
<1> QED BY <1>13

\* The run starts with the empty book.
LEMMA ReplayInit ==
  ASSUME TypeInv, Init
  PROVE  ReplayInv
<1>1. PlaceInv
  BY PlaceInit
<1>2. PICK c : c = Now
  OBVIOUS
<1>3. Resumed(NoSnapshot) = c
  <2>1. Pos = 0 /\ StartOffset(0) = 0
    <3>1. fetchPos = 0 /\ orderCh = <<>>
      BY DEF Init
    <3>2. Len(orderCh) = 0
      BY <3>1
    <3>3. Pos = 0
      <4>1. PICK n \in Nat : n = Len(orderCh) /\ n = 0
        BY <3>2
      <4>2. Pos = fetchPos - n /\ fetchPos = 0
        BY <3>1, <4>1, Zenon DEF Pos
      <4> QED BY <4>1, <4>2
    <3>4. StartOffset(0) = 0
      BY DEF StartOffset
    <3> QED BY <3>3, <3>4
  <2> QED BY <1>2, <2>1 DEF Init, BookInit, Now, Resumed, State, NoSnapshot
<1>4. GoodState(c)
  <2>1. TypedState(c)
    BY <1>1, <1>2, NowTyped DEF TypeInv, PlaceInv
  <2>2. c.depths = [s \in Sides |-> {}]
    BY <1>2 DEF Init, BookInit, Now, State
  <2> QED BY <2>1, <2>2 DEF GoodState, UniqueIds
<1>5. History(topic, {c}, {})
  <2>1. PICK T : T = [k \in 1 .. 1 |-> c]
    OBVIOUS
  <2>2. PICK E : E = [k \in 1 .. 0 |-> {}]
    OBVIOUS
  <2>3. 1 \in Nat \ {0} /\ 1 - 1 = 0 /\ 1 .. 0 = {} /\ 1 .. 1 = {1} /\ T[1] = c
    BY <2>1
  <2>4. c.logSeq <= c.logSeq
    BY <1>4 DEF GoodState, TypedState
  <2>5. Run(topic, T, E, 1)
    BY <1>4, <2>3, <2>4 DEF Run
  <2>6. StatesOf(T, 1) = {c} /\ LogsOf(E, 1) = {}
    BY <2>3 DEF StatesOf, LogsOf
  <2> QED BY <2>3, <2>5, <2>6, Zenon DEF History
<1>6. NoSnapshot \in Kept({c}) /\ stored = NoSnapshot /\ pending = NoSnapshot
  <2>1. NoSnapshot \in Snapshot
    BY BookAssumption DEF NoSnapshot, Snapshot, Sides
  <2> QED BY <1>3, <2>1 DEF Kept, Init
<1>7. /\ approveCh = <<>> /\ snapshotCh = <<>> /\ logTopic = <<>> /\ buf = <<>>
      /\ logCh = <<>> /\ out = <<>>
  BY DEF Init, BookInit
<1>8. \A S : <<>> \in Seq(S)
  OBVIOUS
<1>9. PartOf({c}, {})
  BY <1>2, <1>5, <1>6, <1>7, <1>8, Zenon DEF PartOf
<1> QED BY <1>1, <1>9 DEF ReplayInv

\* The other steps pass on what the run already has.
LEMMA OthersReplay ==
  ASSUME TypeInv, PlaceInv, TypeInv', PlaceInv',
         [Next]_vars, ~ TakeOrder, ~ ApplierMatch, NEW R, NEW M, PartOf(R, M)
  PROVE  PartOf(R, M)'
<1> DEFINE S == Kept(R)
<1>0. /\ History(topic, R, M) /\ Now \in R /\ topic' = topic
      /\ NoSnapshot \in S /\ stored \in S /\ pending \in S
      /\ approveCh \in Seq(S) /\ snapshotCh \in Seq(S)
      /\ logTopic \in Seq(M) /\ buf \in Seq(M) /\ logCh \in Seq(M) /\ out \in Seq(M)
  BY Zenon DEF PartOf, Next, Fetch, SendLog, OrderDone, SnapshotRequest,
     CommitterStart, CommitLog, ApproveSnapshot, RequestSnapshot, StoreSnapshot,
     Restart, vars, persistent
<1>00. stored \in Snapshot /\ Resumed(stored) \in R
  BY <1>0 DEF Kept
<1>1. Now' \in R
  <2>1. CASE Restart
    <3>1. Pos' = StartOffset(stored.orderOffset)
      <4>1. fetchPos' = StartOffset(stored.orderOffset) /\ orderCh' = <<>>
        BY <2>1 DEF Restart
      <4>2. fetchPos' \in Nat
        BY DEF TypeInv, ChannelsTypeOK
      <4> QED BY <4>1, <4>2 DEF Pos
    <3>2. Now' = Resumed(stored)
      BY <2>1, <3>1 DEF Restart, Now, Resumed
    <3> QED BY <1>00, <3>2
  <2>2. CASE Fetch
    <3>1. /\ orderCh' = Append(orderCh, fetchPos) /\ fetchPos' = fetchPos + 1
          /\ UNCHANGED <<depths, logSeq, tradeSeq, taker, left>>
      BY <2>2 DEF Fetch, bookVars
    <3>2. Pos' = Pos
      <4>1. orderCh \in Seq(Nat) /\ fetchPos \in Nat
        BY AdvanceTypes
      <4>2. Len(orderCh') = Len(orderCh) + 1 /\ Len(orderCh) \in Nat
        BY <3>1, <4>1
      <4> QED BY <3>1, <4>1, <4>2 DEF Pos
    <3>3. Now' = Now
      BY <3>1, <3>2 DEF Now
    <3> QED BY <1>0, <3>3
  <2>3. CASE UNCHANGED <<fetchPos, orderCh, depths, logSeq, tradeSeq, taker, left>>
    <3>1. Now' = Now
      BY <2>3 DEF Now, Pos
    <3> QED BY <1>0, <3>1
  <2> QED BY <2>1, <2>2, <2>3 DEF Next, SendLog, OrderDone, SnapshotRequest,
       CommitterStart, CommitLog, ApproveSnapshot, RequestSnapshot, StoreSnapshot,
       vars, applierVars, bookVars
<1>2. logTopic' \in Seq(M) /\ buf' \in Seq(M) /\ logCh' \in Seq(M) /\ out' \in Seq(M)
  <2>1. CASE SendLog
    <3>1. /\ out # <<>> /\ logCh' = Append(logCh, Head(out)) /\ out' = Tail(out)
          /\ logTopic' = logTopic /\ buf' = buf
      BY <2>1 DEF SendLog, persistent, committerVars
    <3>2. Head(out) \in M /\ Tail(out) \in Seq(M)
      BY <1>0, <3>1
    <3>3. Append(logCh, Head(out)) \in Seq(M)
      BY <1>0, <3>2
    <3> QED BY <1>0, <3>1, <3>2, <3>3, Zenon
  <2>2. CASE CommitLog
    <3>1. /\ logCh # <<>> /\ logCh' = Tail(logCh) /\ out' = out
          /\ buf' = buf \/ buf' = Append(buf, Head(logCh)) \/ buf' = <<>>
          /\ logTopic' = logTopic \/ logTopic' = logTopic \o Append(buf, Head(logCh))
      BY <2>2 DEF CommitLog, bookVars
    <3>2. Head(logCh) \in M /\ Tail(logCh) \in Seq(M)
      BY <1>0, <3>1
    <3>3. Append(buf, Head(logCh)) \in Seq(M) /\ <<>> \in Seq(M)
      BY <1>0, <3>2
    <3>4. logTopic \o Append(buf, Head(logCh)) \in Seq(M)
      BY <1>0, <3>3
    <3> QED BY <1>0, <3>1, <3>2, <3>3, <3>4, Zenon
  <2>3. CASE Restart
    <3>1. logTopic' = logTopic /\ buf' = <<>> /\ logCh' = <<>> /\ out' = <<>>
      BY <2>3 DEF Restart, persistent
    <3>2. <<>> \in Seq(M)
      OBVIOUS
    <3> QED BY <1>0, <3>1, <3>2, Zenon
  <2>4. CASE UNCHANGED <<logTopic, buf, logCh, out>>
    BY <1>0, <2>4, Zenon
  <2> QED BY <2>1, <2>2, <2>3, <2>4 DEF Next, Fetch, OrderDone, SnapshotRequest,
       CommitterStart, ApproveSnapshot, RequestSnapshot, StoreSnapshot,
       vars, persistent, committerVars, bookVars
<1>3. stored' \in S /\ pending' \in S /\ approveCh' \in Seq(S) /\ snapshotCh' \in Seq(S)
  <2>1. CASE SnapshotRequest
    <3>1. UNCHANGED <<stored, pending, snapshotCh>>
      BY <2>1 DEF SnapshotRequest, persistent, committerVars
    <3>2. CASE approveCh' = approveCh
      BY <1>0, <3>1, <3>2, Zenon
    <3>3. CASE /\ cur = -1 /\ reqCh # <<>>
               /\ ~ (orderOffset - Head(reqCh) <= SnapshotDelta)
               /\ approveCh' = Append(approveCh, TakeSnapshot)
      <4>1. Head(reqCh) \in Nat /\ orderOffset \in Nat
        BY <3>3, AdvanceTypes
      <4>2. orderOffset > 0
        BY <3>3, <4>1, EngineAssumption
      <4>3. orderOffset = Pos - 1 /\ Pos \in Nat /\ taker = NoTaker /\ left = {}
        BY <3>3, <4>2 DEF PlaceInv
      <4>4. StartOffset(orderOffset) = Pos
        BY <4>1, <4>2, <4>3 DEF StartOffset
      <4>5. Resumed(TakeSnapshot) = Now
        BY <4>3, <4>4 DEF Resumed, TakeSnapshot, Now
      <4>6. TakeSnapshot \in S
        BY <1>0, <4>5, AdvanceTypes DEF Kept
      <4>7. Append(approveCh, TakeSnapshot) \in Seq(S)
        BY <1>0, <4>6
      <4> QED BY <1>0, <3>1, <3>3, <4>7, Zenon
    <3> QED BY <2>1, <3>2, <3>3 DEF SnapshotRequest
  <2>2. CASE CommitLog
    <3>1. /\ UNCHANGED <<stored, approveCh>>
          /\ pending' = pending \/ pending' = NoSnapshot
          /\ snapshotCh' = snapshotCh \/ snapshotCh' = Append(snapshotCh, pending)
      BY <2>2, Zenon DEF CommitLog
    <3>2. Append(snapshotCh, pending) \in Seq(S)
      BY <1>0
    <3> QED BY <1>0, <3>1, <3>2, Zenon
  <2>3. CASE ApproveSnapshot
    <3>1. /\ stored' = stored /\ approveCh # <<>> /\ approveCh' = Tail(approveCh)
          /\ pending' = Head(approveCh) \/ pending' = NoSnapshot
          /\ \/ snapshotCh' = snapshotCh
             \/ snapshotCh' = Append(snapshotCh, Head(approveCh))
      BY <2>3, Zenon DEF ApproveSnapshot, persistent
    <3>2. Head(approveCh) \in S /\ Tail(approveCh) \in Seq(S)
      BY <1>0, <3>1
    <3>3. Append(snapshotCh, Head(approveCh)) \in Seq(S)
      BY <1>0, <3>2
    <3> QED BY <1>0, <3>1, <3>2, <3>3, Zenon
  <2>4. CASE StoreSnapshot
    <3>1. /\ UNCHANGED <<pending, approveCh>>
          /\ snapshotCh # <<>> /\ snapshotCh' = Tail(snapshotCh)
          /\ \/ stored' = stored
             \/ stored' = [Head(snapshotCh) EXCEPT !.window = window]
      BY <2>4, Zenon DEF StoreSnapshot, committerVars
    <3>2. PICK h \in S : h = Head(snapshotCh)
      BY <1>0, <3>1
    <3>3. Tail(snapshotCh) \in Seq(S)
      BY <1>0, <3>1
    <3>4. h \in Snapshot /\ Resumed(h) \in R
      BY <3>2 DEF Kept
    <3>5. window \in SUBSET (0 .. WindowCap - 1)
      BY DEF TypeInv, BookInv, BookTypeOK
    <3>6. /\ [h EXCEPT !.window = window] \in Snapshot
          /\ Resumed([h EXCEPT !.window = window]) = Resumed(h)
      BY <3>4, <3>5 DEF Snapshot, Resumed
    <3>7. [Head(snapshotCh) EXCEPT !.window = window] \in S
      BY <3>2, <3>4, <3>6 DEF Kept
    <3> QED BY <1>0, <3>1, <3>3, <3>7, Zenon
  <2>5. CASE Restart
    <3>1. /\ stored' = stored /\ pending' = NoSnapshot
          /\ approveCh' = <<>> /\ snapshotCh' = <<>>
      BY <2>5 DEF Restart, persistent
    <3>2. <<>> \in Seq(S)
      OBVIOUS
    <3> QED BY <1>0, <3>1, <3>2, Zenon
  <2>6. CASE UNCHANGED <<stored, pending, approveCh, snapshotCh>>
    BY <1>0, <2>6, Zenon
  <2> QED BY <2>1, <2>2, <2>3, <2>4, <2>5, <2>6 DEF Next, Fetch, SendLog, OrderDone,
       CommitterStart, RequestSnapshot, vars, persistent, committerVars, snapshotVars
<1>4. Kept(R)' = Kept(R)
  BY DEF Kept
<1> HIDE DEF S
<1>5. PartOf(R, M)'
  BY <1>0, <1>1, <1>2, <1>3, <1>4, Zenon DEF PartOf, S
<1> QED BY <1>5

\* Every step of the engine stays in the run or makes it longer.
LEMMA ReplayStep ==
  ASSUME PastWindow, TypeInv, ReplayInv, TypeInv', [Next]_vars
  PROVE  ReplayInv'
<1>1. PlaceInv /\ PlaceInv'
  BY PlaceStep DEF ReplayInv
<1>2. PICK R, M : PartOf(R, M)
  BY DEF ReplayInv
<1>3. CASE TakeOrder \/ ApplierMatch
  BY <1>1, <1>2, <1>3, ApplierReplays DEF ReplayInv
<1>4. CASE ~ TakeOrder /\ ~ ApplierMatch
  <2>1. PartOf(R, M)'
    BY <1>1, <1>2, <1>4, OthersReplay
  <2> QED BY <1>1, <2>1 DEF ReplayInv
<1> QED BY <1>3, <1>4

\* However often the engine crashes and replays its orders from a snapshot, two
\* logs of the topic with the same number are the same log.  This needs the ids
\* of the orders to be past the window: with a smaller id the window stored
\* with a snapshot already has the orders after it, so a replay drops them.
THEOREM ReplayReproducesLogs ==
  ASSUME PastWindow
  PROVE  Spec => []LogAgrees
<1>1. Init => TypeInv /\ ReplayInv
  BY EngineInit, ReplayInit
<1>2. (TypeInv /\ ReplayInv) /\ [Next]_vars => (TypeInv /\ ReplayInv)'
  BY TypeStep, ReplayStep
<1>3. ReplayInv => LogAgrees
  <2> SUFFICES ASSUME ReplayInv, NEW i \in 1 .. Len(logTopic),
                      NEW j \in 1 .. Len(logTopic), logTopic[i].seq = logTopic[j].seq
               PROVE  logTopic[i] = logTopic[j]
    BY DEF LogAgrees
  <2>1. PICK R, M : PartOf(R, M)
    BY DEF ReplayInv
  <2>2. History(topic, R, M) /\ logTopic \in Seq(M)
    BY <2>1 DEF PartOf
  <2>3. logTopic[i] \in M /\ logTopic[j] \in M
    BY <2>2
  <2> QED BY <2>2, <2>3, HistoryAgrees
<1> QED BY <1>1, <1>2, <1>3, PTL DEF Spec
=============================================================================
