------------------------ MODULE SpotSettlementProofs ------------------------
(***************************************************************************)
(* Proofs about the money of gitbitex-spot: no account is overdrawn while  *)
(* the requests of a user come one after the other, what an account holds  *)
(* is what its unfinished orders have reserved, and until the process dies *)
(* settled trading adds up to what was deposited.                          *)
(*                                                                         *)
(* The second needs the whole way of an order: what the log charges it is  *)
(* within what it had put on hold (AccountInv), each fill on its way or in *)
(* g_fill tells of a match log of its own (PostInv), and a row of g_order  *)
(* says what the settled fills amount to (RowInv).  The third needs what   *)
(* the log never tells (nothing of an order after its done log, TaleInv),  *)
(* that a finished row has its done fill and all before it settled         *)
(* (DeadInv), that the fills are those of the log in its order, two for a  *)
(* match (CleanInv), and that the purses are the deposits and the settled  *)
(* fills (PaidInv).                                                        *)
(***************************************************************************)
EXTENDS SpotSettlement, SpotOrderBookProofs, FiniteSetTheorems

-----------------------------------------------------------------------------
(* Sums and selections. *)

LEMMA SumDef ==
  ASSUME NEW s \in Seq(Int), NEW f, Adds(f, Len(s), s)
  PROVE  SumOf(s) = f[Len(s)]
<1> DEFINE E(h) == [k \in 0 .. Len(s) |-> IF k = 0 THEN 0 ELSE h[k - 1] + s[k]]
<1>1. f = E(f)
  BY DEF Adds
<1>2. PICK g : g = CHOOSE h : h = E(h)
  OBVIOUS
<1>3. g = E(g)
  BY <1>1, <1>2
<1>4. SumOf(s) = g[Len(s)]
  BY <1>2 DEF SumOf
<1> HIDE DEF E
<1>5. \A k \in 0 .. Len(s) : E(g)[k] = IF k = 0 THEN 0 ELSE g[k - 1] + s[k]
  BY DEF E
<1>6. g[0] = 0 /\ \A k \in 1 .. Len(s) : g[k] = g[k - 1] + s[k]
  BY <1>3, <1>5
<1>7. f[Len(s)] = g[Len(s)]
  BY <1>6, AddsEqually
<1> QED
  BY <1>4, <1>7

\* What is known of SumOf: it ends a sequence of partial sums.
LEMMA SumIs ==
  ASSUME NEW s \in Seq(Int)
  PROVE  \E f : Adds(f, Len(s), s) /\ SumOf(s) = f[Len(s)] /\ SumOf(s) \in Int
<1>1. s \in [1 .. Len(s) -> Int] /\ Len(s) \in Nat
  OBVIOUS
<1>2. PICK f : Adds(f, Len(s), s)
  BY <1>1, Addition
<1>3. SumOf(s) = f[Len(s)]
  BY <1>2, SumDef
<1>4. f[Len(s)] \in Int
  BY <1>1, <1>2 DEF Adds
<1> QED
  BY <1>2, <1>3, <1>4

\* Nothing negative adds up to nothing negative.
LEMMA SumOfNats ==
  ASSUME NEW s \in Seq(Nat)
  PROVE  SumOf(s) \in Nat
<1>1. s \in Seq(Int) /\ Len(s) \in Nat /\ \A k \in 1 .. Len(s) : s[k] \in Nat
  OBVIOUS
<1>2. PICK f : Adds(f, Len(s), s) /\ SumOf(s) = f[Len(s)]
  BY <1>1, SumIs
<1> DEFINE T == {k \in 0 .. Len(s) : f[k] \in Nat}
<1>3. 0 \in T
  BY <1>1, <1>2 DEF Adds
<1>4. ASSUME NEW k \in 0 .. Len(s), k \in T, k < Len(s) PROVE k + 1 \in T
  <2>1. k + 1 \in 1 .. Len(s) /\ (k + 1) - 1 = k
    BY <1>1, <1>4
  <2>2. f[k + 1] = f[k] + s[k + 1] /\ s[k + 1] \in Nat
    BY <1>1, <1>2, <2>1 DEF Adds
  <2> QED
    BY <1>4, <2>1, <2>2
<1>5. \A k \in 0 .. Len(s) : k \in T
  <2> HIDE DEF T
  <2> QED
    BY <1>1, <1>3, <1>4, Upwards
<1> QED
  BY <1>1, <1>2, <1>5

\* What is known of Kept.
Keeps(f, s, P, S) ==
  /\ f \in [0 .. Len(s) -> Seq(S)] /\ f[0] = <<>>
  /\ \A k \in 1 .. Len(s) : f[k] = IF k \in P THEN Append(f[k - 1], s[k]) ELSE f[k - 1]

LEMMA KeptIs ==
  ASSUME NEW S, NEW s \in Seq(S), NEW P
  PROVE  \E f : Keeps(f, s, P, S) /\ Kept(s, P) = f[Len(s)]
<1> DEFINE E(h) == [k \in 0 .. Len(s) |->
                      IF k = 0 THEN <<>> ELSE IF k \in P THEN Append(h[k - 1], s[k]) ELSE h[k - 1]]
<1>1. Len(s) \in Nat /\ <<>> \in Seq(S) /\ \A k \in 1 .. Len(s) : s[k] \in S
  OBVIOUS
<1>2. PICK G : G = [k \in 1 .. Len(s) |-> [x \in Seq(S) |-> IF k \in P THEN Append(x, s[k]) ELSE x]]
  OBVIOUS
<1>3. G \in [1 .. Len(s) -> [Seq(S) -> Seq(S)]]
  <2>1. \A k \in 1 .. Len(s), x \in Seq(S) : Append(x, s[k]) \in Seq(S)
    BY <1>1
  <2> QED
    BY <1>2, <2>1
<1>4. PICK f : Iterates(f, Len(s), Seq(S), <<>>, G)
  BY <1>1, <1>3, Recursion
<1>5. f \in [0 .. Len(s) -> Seq(S)] /\ f[0] = <<>>
  BY <1>4 DEF Iterates
<1>6. ASSUME NEW k \in 1 .. Len(s)
      PROVE  f[k] = IF k \in P THEN Append(f[k - 1], s[k]) ELSE f[k - 1]
  <2>1. f[k - 1] \in Seq(S)
    BY <1>5
  <2>2. f[k] = G[k][f[k - 1]]
    BY <1>4 DEF Iterates
  <2> QED
    BY <1>2, <2>1, <2>2
<1>7. f = E(f)
  <2>1. f = [k \in 0 .. Len(s) |-> f[k]]
    BY <1>5
  <2>2. ASSUME NEW k \in 0 .. Len(s)
        PROVE  f[k] = IF k = 0 THEN <<>> ELSE IF k \in P THEN Append(f[k - 1], s[k]) ELSE f[k - 1]
    <3>1. CASE k = 0
      BY <1>5, <3>1
    <3>2. CASE k # 0
      <4>1. k \in 1 .. Len(s)
        BY <3>2
      <4> QED
        BY <1>6, <3>2, <4>1
    <3> QED
      BY <3>1, <3>2
  <2> QED
    BY <2>1, <2>2
<1>8. PICK g : g = CHOOSE h : h = E(h)
  OBVIOUS
<1>9. g = E(g)
  BY <1>7, <1>8
<1>10. Kept(s, P) = g[Len(s)]
  BY <1>8 DEF Kept
<1> HIDE DEF E
<1>11. \A k \in 0 .. Len(s) :
         E(g)[k] = IF k = 0 THEN <<>> ELSE IF k \in P THEN Append(g[k - 1], s[k]) ELSE g[k - 1]
  BY DEF E
<1>12. g[0] = <<>> /\ \A k \in 1 .. Len(s) : g[k] = IF k \in P THEN Append(g[k - 1], s[k]) ELSE g[k - 1]
  BY <1>9, <1>11
<1> DEFINE T == {k \in 0 .. Len(s) : f[k] = g[k]}
<1>13. 0 \in T
  BY <1>1, <1>5, <1>12
<1>14. ASSUME NEW k \in 0 .. Len(s), k \in T, k < Len(s) PROVE k + 1 \in T
  <2>1. k + 1 \in 1 .. Len(s) /\ (k + 1) - 1 = k
    BY <1>1, <1>14
  <2>2. f[k + 1] = IF k + 1 \in P THEN Append(f[k], s[k + 1]) ELSE f[k]
    BY <1>6, <2>1
  <2>3. g[k + 1] = IF k + 1 \in P THEN Append(g[k], s[k + 1]) ELSE g[k]
    BY <1>12, <2>1
  <2> QED
    BY <1>14, <2>1, <2>2, <2>3
<1>15. \A k \in 0 .. Len(s) : k \in T
  <2> HIDE DEF T
  <2> QED
    BY <1>1, <1>13, <1>14, Upwards
<1>16. f[Len(s)] = g[Len(s)]
  BY <1>1, <1>15
<1> QED
  BY <1>5, <1>6, <1>10, <1>16 DEF Keeps

LEMMA KeptType ==
  ASSUME NEW S, NEW s \in Seq(S), NEW P
  PROVE  Kept(s, P) \in Seq(S)
<1>1. PICK f : Keeps(f, s, P, S) /\ Kept(s, P) = f[Len(s)]
  BY KeptIs
<1>2. Len(s) \in 0 .. Len(s)
  OBVIOUS
<1> QED
  BY <1>1, <1>2 DEF Keeps

-----------------------------------------------------------------------------
(* The inductive invariant. *)

Credit == [available : Nat, hold : Int]

Row == [status : {"none", "new", "open", "", "filled", "cancelled"}, filled : Nat, executed : Nat]

\* A row of g_fill; its order is one of OrderIds or, in a row nobody fetches, 0.
FillRow ==
  [order : OrderIds \cup {0}, seq : Nat, offset : Nat, size : Nat, price : Nat,
   done : BOOLEAN, reason : {"", "filled", "cancelled"}, settled : BOOLEAN]

\* The logs and fills that are under way, and the tables.
PipeInv ==
  /\ BookInv /\ plan \in Plans /\ topic \subseteq [id : OrderIds, cancel : BOOLEAN]
  /\ logTopic \in Seq(Log) /\ readPos \in Nat
  /\ todo \in Seq(FillRow) /\ fillCh \in Seq(FillRow) /\ fillBuf \in Seq(FillRow)
  /\ fills \in Seq(FillRow)

\* A bill never takes anything from what is available.
TableInv ==
  /\ rows \in [OrderIds -> Row]
  /\ bills \in [Users -> [Currencies -> Seq(Credit)]]
  /\ accounts \in [Users -> [Currencies -> [available : Int, hold : Int]]]

\* An account on which no two requests met is not overdrawn, and covers the one
\* request that has passed the check.
CoverInv ==
  /\ OverdrawnOnlyInRace
  /\ \A i \in checked : HoldAccount(i) \notin raced =>
       /\ accounts[User(i)][HoldCurrency(Order(i))].available >= HoldSize(Order(i))
       /\ \A j \in checked : HoldAccount(j) = HoldAccount(i) => j = i

BaseInv == PipeInv /\ TableInv /\ checked \subseteq OrderIds

Inv == BaseInv /\ CoverInv

LEMMA PlanType ==
  ASSUME plan \in Plans, NEW i \in OrderIds
  PROVE  /\ Order(i) \in Orders /\ User(i) \in Users
         /\ HoldCurrency(Order(i)) \in Currencies /\ HoldSize(Order(i)) \in Nat
         /\ Order(i).funds \in Nat /\ Order(i).size \in Nat
<1>1. plan \in [OrderIds -> [user : Users, order : Orders]]
  BY SettlementAssumption
<1>2. Order(i) \in Orders /\ User(i) \in Users
  BY <1>1 DEF Order, User
<1>3. Order(i) \in BookOrder
  BY <1>2, OrdersType
<1> QED
  BY <1>2, <1>3 DEF BookOrder, HoldCurrency, HoldSize, Currencies

LEMMA InitInv == Init => Inv
<1> SUFFICES ASSUME Init PROVE Inv
  OBVIOUS
<1>1. PipeInv
  BY BookInitInv DEF Init, PipeInv
<1>2. TableInv
  <2>1. rows \in [OrderIds -> Row]
    BY DEF Init, Row
  <2>2. bills \in [Users -> [Currencies -> Seq(Credit)]]
    <3>1. PICK none \in Seq(Credit) : none = <<>>
      <4>1. <<>> \in Seq(Credit)
        OBVIOUS
      <4> QED
        BY <4>1
    <3>2. [base |-> none, quote |-> none] \in [Currencies -> Seq(Credit)]
      BY DEF Currencies
    <3> QED
      BY <3>1, <3>2 DEF Init
  <2>3. accounts \in [Users -> [Currencies -> [available : Int, hold : Int]]]
    BY SettlementAssumption DEF Init
  <2> QED
    BY <2>1, <2>2, <2>3 DEF TableInv
<1>3. CoverInv /\ checked \subseteq OrderIds
  <2>1. OverdrawnOnlyInRace
    BY SettlementAssumption DEF Init, OverdrawnOnlyInRace
  <2>2. checked = {}
    BY DEF Init
  <2> QED
    BY <2>1, <2>2 DEF CoverInv
<1> QED
  BY <1>1, <1>2, <1>3 DEF Inv, BaseInv

-----------------------------------------------------------------------------
(* Logs and fills. *)

LEMMA FillType ==
  ASSUME NEW log \in Log, NEW n \in Nat, NEW i \in OrderIds \cup {0}
  PROVE  NewFill(log, n, i) \in FillRow
  BY DEF NewFill, Log, FillRow

\* The fills a log makes.
LEMMA FillsType ==
  ASSUME NEW log \in Log, NEW n \in Nat
  PROVE  /\ <<NewFill(log, n, log.order), NewFill(log, n, log.maker)>> \in Seq(FillRow)
         /\ <<NewFill(log, n, log.order)>> \in Seq(FillRow)
<1>1. log.order \in OrderIds \cup {0} /\ log.maker \in OrderIds \cup {0}
  BY DEF Log
<1>2. NewFill(log, n, log.order) \in FillRow /\ NewFill(log, n, log.maker) \in FillRow
  BY <1>1, FillType
<1> QED
  BY <1>2

LEMMA CheckedStep ==
  ASSUME BaseInv, Next
  PROVE  checked' \subseteq OrderIds
<1>1. checked \subseteq OrderIds
  BY DEF BaseInv
<1>2. ASSUME NEW i \in OrderIds, CheckBalance(i) \/ PlaceOrder(i) \/ SubmitOrder(i) \/ RequestCancel(i) \/ ExecuteFill(i)
      PROVE  checked' \subseteq OrderIds
  BY <1>1, <1>2 DEF CheckBalance, PassCheck, PlaceOrder, SubmitOrder, RequestCancel, ExecuteFill, restVars
<1>3. ASSUME NEW m \in topic, Engine(m) PROVE checked' \subseteq OrderIds
  BY <1>1, <1>3 DEF Engine
<1>4. CASE EngineMatch \/ EngineLogs \/ ReadLog \/ SendFill \/ FlushFill \/ Crash
  BY <1>1, <1>4 DEF EngineMatch, EngineLogs, ReadLog, SendFill, FlushFill, Crash, restVars
<1>5. ASSUME NEW u \in Users, NEW c \in Currencies, ExecuteBill(u, c) PROVE checked' \subseteq OrderIds
  BY <1>1, <1>5 DEF ExecuteBill, restVars
<1> QED
  BY <1>2, <1>3, <1>4, <1>5 DEF Next, Settle

LEMMA PipeStep ==
  ASSUME BaseInv, Next
  PROVE  PipeInv'
<1>1. PipeInv
  BY DEF BaseInv
<1>2. /\ BookInv /\ plan \in Plans /\ logTopic \in Seq(Log) /\ out \in Seq(Log) /\ readPos \in Nat
      /\ todo \in Seq(FillRow) /\ fillCh \in Seq(FillRow) /\ fillBuf \in Seq(FillRow)
      /\ fills \in Seq(FillRow)
  BY <1>1 DEF PipeInv, BookInv, BookTypeOK
<1>3. topic \subseteq [id : OrderIds, cancel : BOOLEAN]
  BY <1>1 DEF PipeInv
<1>4. ASSUME NEW i \in OrderIds, CheckBalance(i) \/ PlaceOrder(i) \/ SubmitOrder(i) \/ RequestCancel(i)
      PROVE  PipeInv'
  <2>1. UNCHANGED <<bookVars, plan, logTopic, makerVars, fills>>
    BY <1>4 DEF CheckBalance, PlaceOrder, SubmitOrder, RequestCancel, dbVars
  <2>2. BookInv'
    BY <1>2, <2>1, BookStutter
  <2>3. topic' \subseteq [id : OrderIds, cancel : BOOLEAN]
    <3>1. \A b \in BOOLEAN : [id |-> i, cancel |-> b] \in [id : OrderIds, cancel : BOOLEAN]
      OBVIOUS
    <3>2. topic' = topic \/ \E b \in BOOLEAN : topic' = topic \cup {[id |-> i, cancel |-> b]}
      BY <1>4 DEF CheckBalance, PlaceOrder, SubmitOrder, RequestCancel
    <3> QED
      BY <1>3, <3>1, <3>2
  <2> QED
    BY <1>2, <2>1, <2>2, <2>3 DEF PipeInv, makerVars
<1>5. ASSUME NEW m \in topic, Engine(m)
      PROVE  PipeInv'
  <2>1. m.id \in OrderIds /\ Order(m.id) \in Orders
    BY <1>2, <1>3, PlanType
  <2>2. BookInv'
    BY <1>2, <1>5, <2>1, ReceiveInv, CancelInv DEF Engine
  <2> QED
    BY <1>2, <1>3, <1>5, <2>2 DEF Engine, PipeInv, dbVars, makerVars
<1>6. CASE EngineMatch
  <2>1. BookInv'
    BY <1>2, <1>6, MatchInv, FinishInv DEF EngineMatch
  <2> QED
    BY <1>2, <1>3, <1>6, <2>1 DEF EngineMatch, PipeInv, dbVars, makerVars, restVars
<1>7. CASE EngineLogs
  <2>1. out' = <<>> /\ UNCHANGED <<depths, logSeq, tradeSeq, window, taker, left>> /\ logTopic' = logTopic \o out
    BY <1>7 DEF EngineLogs
  <2>2. BookInv'
    <3>1. out' \in Seq(Log) /\ Len(out') = 0
      BY <2>1
    <3> QED
      BY <1>2, <2>1, <3>1 DEF BookInv, BookTypeOK, DepthsOK, TakerOK, NotCrossed, OutNumbered
  <2>3. logTopic' \in Seq(Log)
    BY <1>2, <2>1
  <2> QED
    BY <1>2, <1>3, <1>7, <2>2, <2>3 DEF EngineLogs, PipeInv, dbVars, makerVars, restVars
<1>8. CASE ReadLog
  <2>1. /\ UNCHANGED <<bookVars, plan, topic, logTopic, fillCh, fillBuf, fills>> /\ readPos' \in Nat
    BY <1>2, <1>8 DEF ReadLog, restVars
  <2>2. PICK log \in Log : log = logTopic[readPos + 1]
    BY <1>2, <1>8 DEF ReadLog
  <2>3. \/ todo' = todo \/ todo' = <<>>
        \/ todo' = <<NewFill(log, readPos, log.order), NewFill(log, readPos, log.maker)>>
        \/ todo' = <<NewFill(log, readPos, log.order)>>
    <3>1. log.type \in {"open", "match", "done"}
      BY <2>2 DEF Log
    <3> QED
      BY <1>8, <2>2, <3>1 DEF ReadLog
  <2>4. todo' \in Seq(FillRow)
    <3>1. <<>> \in Seq(FillRow)
      OBVIOUS
    <3> QED
      BY <1>2, <2>2, <2>3, <3>1, FillsType
  <2>5. BookInv'
    BY <1>2, <2>1, BookStutter
  <2> QED
    BY <1>2, <1>3, <2>1, <2>4, <2>5 DEF PipeInv
<1>9. CASE SendFill
  <2>1. todo' \in Seq(FillRow) /\ fillCh' \in Seq(FillRow)
    BY <1>2, <1>9 DEF SendFill
  <2>2. BookInv'
    BY <1>2, <1>9, BookStutter DEF SendFill
  <2> QED
    BY <1>2, <1>3, <1>9, <2>1, <2>2 DEF SendFill, PipeInv, dbVars, restVars
<1>10. CASE FlushFill
  <2>1. fillCh # <<>> /\ fillCh' = Tail(fillCh)
    BY <1>10 DEF FlushFill
  <2>2. Head(fillCh) \in FillRow /\ fillCh' \in Seq(FillRow)
    BY <1>2, <2>1
  <2>3. PICK buf \in Seq(FillRow) : buf = Append(fillBuf, Head(fillCh))
    <3>1. Append(fillBuf, Head(fillCh)) \in Seq(FillRow)
      BY <1>2, <2>2
    <3> QED
      BY <3>1
  <2>4. \/ fillBuf' = buf /\ fills' = fills
        \/ fillBuf' = <<>> /\ fills' = fills \o Kept(buf, {k \in DOMAIN buf : ~ Recorded(buf[k])})
    BY <1>10, <2>3 DEF FlushFill, AddFills
  <2>5. Kept(buf, {k \in DOMAIN buf : ~ Recorded(buf[k])}) \in Seq(FillRow)
    BY KeptType
  <2>6. fillBuf' \in Seq(FillRow) /\ fills' \in Seq(FillRow)
    <3>1. PICK new \in Seq(FillRow) : new = Kept(buf, {k \in DOMAIN buf : ~ Recorded(buf[k])})
      BY <2>5
    <3>2. (fills \o new) \in Seq(FillRow) /\ <<>> \in Seq(FillRow)
      BY <1>2
    <3> QED
      BY <1>2, <2>4, <3>1, <3>2
  <2>7. BookInv' /\ UNCHANGED <<plan, topic, logTopic, readPos, todo>>
    BY <1>2, <1>10, BookStutter DEF FlushFill, restVars
  <2> QED
    BY <1>2, <1>3, <2>2, <2>6, <2>7 DEF PipeInv
<1>11. ASSUME NEW i \in OrderIds, ExecuteFill(i)
       PROVE  PipeInv'
  <2>1. PICK p : fills' = [k \in DOMAIN fills |->
                   IF k \in p THEN [fills[k] EXCEPT !.settled = TRUE] ELSE fills[k]]
    BY <1>11 DEF ExecuteFill
  <2>2. \A k \in DOMAIN fills : fills[k] \in FillRow
    BY <1>2
  <2>3. \A k \in DOMAIN fills : [fills[k] EXCEPT !.settled = TRUE] \in FillRow
    BY <2>2 DEF FillRow
  <2>4. fills' \in Seq(FillRow)
    <3>1. PICK n \in Nat : n = Len(fills) /\ DOMAIN fills = 1 .. n
      BY <1>2
    <3>2. fills' \in [1 .. n -> FillRow]
      BY <2>1, <2>2, <2>3, <3>1
    <3> QED
      BY <3>2, ListIsSeq
  <2>5. BookInv' /\ UNCHANGED <<plan, topic, logTopic, makerVars>>
    BY <1>2, <1>11, BookStutter DEF ExecuteFill, restVars
  <2> QED
    BY <1>2, <1>3, <2>4, <2>5 DEF PipeInv, makerVars
<1>12. ASSUME NEW u \in Users, NEW c \in Currencies, ExecuteBill(u, c)
       PROVE  PipeInv'
  <2>1. BookInv' /\ UNCHANGED <<plan, topic, logTopic, makerVars, fills>>
    BY <1>2, <1>12, BookStutter DEF ExecuteBill, restVars
  <2> QED
    BY <1>2, <1>3, <2>1 DEF PipeInv, makerVars
<1>13. CASE Crash
  <2>1. BookInv' /\ UNCHANGED <<plan, topic, logTopic, fills>> /\ todo' = <<>> /\ fillCh' = <<>> /\ fillBuf' = <<>>
    BY <1>2, <1>13, BookStutter DEF Crash, dbVars
  <2>2. readPos' \in Nat
    <3>1. CASE fills = <<>>
      BY <1>13, <3>1 DEF Crash
    <3>2. CASE fills # <<>>
      <4>1. fills[Len(fills)] \in FillRow
        BY <1>2, <3>2
      <4>2. fills[Len(fills)].offset \in Nat
        BY <4>1 DEF FillRow
      <4> QED
        BY <1>13, <3>2, <4>2 DEF Crash, ResumeAt
    <3> QED
      BY <3>1, <3>2
  <2>3. <<>> \in Seq(FillRow)
    OBVIOUS
  <2> QED
    BY <1>2, <1>3, <2>1, <2>2, <2>3 DEF PipeInv
<1> QED
  BY <1>4, <1>5, <1>6, <1>7, <1>8, <1>9, <1>10, <1>11, <1>12, <1>13 DEF Next, Settle

-----------------------------------------------------------------------------
(* Bills. *)

LEMMA SumAtType ==
  ASSUME fills \in Seq(FillRow), NEW P
  PROVE  SumAt(P, Size) \in Nat /\ SumAt(P, Value) \in Nat
<1>1. \A k \in DOMAIN fills : fills[k] \in FillRow
  OBVIOUS
<1>2. \A k \in DOMAIN fills : fills[k].size \in Nat /\ fills[k].price \in Nat
  BY <1>1 DEF FillRow
<1>3. PICK sizes : sizes = [k \in DOMAIN fills |-> IF k \in P THEN Size(fills[k]) ELSE 0]
  OBVIOUS
<1>4. PICK values : values = [k \in DOMAIN fills |-> IF k \in P THEN Value(fills[k]) ELSE 0]
  OBVIOUS
<1>5. DOMAIN fills = 1 .. Len(fills) /\ Len(fills) \in Nat
  OBVIOUS
<1>6. sizes \in [1 .. Len(fills) -> Nat]
  BY <1>2, <1>3, <1>5 DEF Size
<1>7. \A k \in DOMAIN fills : fills[k].size * fills[k].price \in Nat
  BY <1>2
<1>8. values \in [1 .. Len(fills) -> Nat]
  BY <1>4, <1>5, <1>7 DEF Value
<1>9. sizes \in Seq(Nat) /\ values \in Seq(Nat)
  BY <1>5, <1>6, <1>8, ListIsSeq
<1>10. SumOf(sizes) \in Nat /\ SumOf(values) \in Nat
  BY <1>9, SumOfNats
<1>11. SumAt(P, Size) = SumOf(sizes)
  BY <1>3 DEF SumAt
<1>12. SumAt(P, Value) = SumOf(values)
  BY <1>4 DEF SumAt
<1> QED
  BY <1>10, <1>11, <1>12

LEMMA BillsType ==
  ASSUME NEW m \in Seq(FillRow), NEW side
  PROVE  BaseBills(side, m) \in Seq(Credit) /\ QuoteBills(side, m) \in Seq(Credit)
<1>1. DOMAIN m = 1 .. Len(m) /\ Len(m) \in Nat /\ \A k \in DOMAIN m : m[k] \in FillRow
  OBVIOUS
<1>2. \A k \in DOMAIN m : m[k].size \in Nat /\ m[k].price \in Nat
  BY <1>1 DEF FillRow
<1>3. \A k \in DOMAIN m : m[k].size * m[k].price \in Nat
  BY <1>2
<1>4. \A x \in Nat : /\ [available |-> x, hold |-> 0] \in Credit
                     /\ [available |-> 0, hold |-> - x] \in Credit
  BY DEF Credit
<1>5. BaseBills(side, m) \in [1 .. Len(m) -> Credit]
  BY <1>1, <1>2, <1>4 DEF BaseBills
<1>6. QuoteBills(side, m) \in [1 .. Len(m) -> Credit]
  BY <1>1, <1>3, <1>4 DEF QuoteBills
<1>7. PICK b : b = BaseBills(side, m)
  OBVIOUS
<1>8. PICK q : q = QuoteBills(side, m)
  OBVIOUS
<1>9. b \in Seq(Credit) /\ q \in Seq(Credit)
  BY <1>1, <1>5, <1>6, <1>7, <1>8, ListIsSeq
<1> QED
  BY <1>7, <1>8, <1>9

LEMMA ReleaseType ==
  ASSUME NEW o \in Orders, NEW row \in Row
  PROVE  Release(o, row) \in Seq(Credit)
<1>1. o.funds \in Nat /\ o.size \in Nat
  BY OrdersType DEF BookOrder
<1>2. PICK rest : rest = IF o.side = "buy" THEN o.funds - row.executed ELSE o.size - row.filled
  OBVIOUS
<1>3. rest \in Int
  <2>1. row.executed \in Nat /\ row.filled \in Nat
    BY DEF Row
  <2>2. (o.funds - row.executed) \in Int /\ (o.size - row.filled) \in Int
    BY <1>1, <2>1
  <2> QED
    BY <1>2, <2>2
<1>4. Release(o, row) = IF rest > 0 THEN <<[available |-> rest, hold |-> - rest]>> ELSE <<>>
  BY <1>2 DEF Release
<1>5. rest > 0 => [available |-> rest, hold |-> - rest] \in Credit
  BY <1>3 DEF Credit
<1> QED
  BY <1>4, <1>5

LEMMA FillTables ==
  ASSUME BaseInv, NEW i \in OrderIds, ExecuteFill(i)
  PROVE  TableInv'
<1>1. /\ fills \in Seq(FillRow) /\ plan \in Plans /\ rows \in [OrderIds -> Row]
      /\ bills \in [Users -> [Currencies -> Seq(Credit)]]
      /\ accounts \in [Users -> [Currencies -> [available : Int, hold : Int]]]
  BY DEF BaseInv, PipeInv, TableInv
<1>2. Order(i) \in Orders /\ User(i) \in Users
  BY <1>1, PlanType
<1>3. PICK p : p = Processed(Fetched(i))
  OBVIOUS
<1>4. PICK ends : ends = {k \in p : fills[k].done}
  OBVIOUS
<1>5. PICK m \in Seq(FillRow) : m = Kept(fills, p \ ends)
  BY <1>1, KeptType
<1>6. PICK row : row = [status |-> IF ends = {} THEN rows[i].status
                                   ELSE fills[CHOOSE k \in ends : TRUE].reason,
                        filled |-> rows[i].filled + SumAt(p \ ends, Size),
                        executed |-> rows[i].executed + SumAt(p \ ends, Value)]
  OBVIOUS
<1>7. PICK freed : freed = IF ends = {} THEN <<>> ELSE Release(Order(i), row)
  OBVIOUS
<1>8. /\ rows' = [rows EXCEPT ![i] = row] /\ UNCHANGED accounts
      /\ bills' = [bills EXCEPT
           ![User(i)] =
              [base |-> @.base \o BaseBills(Order(i).side, m)
                          \o (IF Order(i).side = "sell" THEN freed ELSE <<>>),
               quote |-> @.quote \o QuoteBills(Order(i).side, m)
                           \o (IF Order(i).side = "buy" THEN freed ELSE <<>>)]]
  BY <1>3, <1>4, <1>5, <1>6, <1>7 DEF ExecuteFill
<1>9. row \in Row
  <2>1. rows[i] \in Row
    BY <1>1
  <2>2. SumAt(p \ ends, Size) \in Nat /\ SumAt(p \ ends, Value) \in Nat
    BY <1>1, SumAtType
  <2>3. ends # {} => fills[CHOOSE k \in ends : TRUE].reason \in {"", "filled", "cancelled"}
    <3>1. p \subseteq DOMAIN fills
      BY <1>3 DEF Processed, Fetched, FirstOf
    <3>2. \A k \in p : fills[k] \in FillRow
      BY <1>1, <3>1
    <3> QED
      BY <1>4, <3>2 DEF FillRow
  <2>9. rows[i].filled \in Nat /\ rows[i].executed \in Nat
    BY <2>1 DEF Row
  <2>4. PICK f \in Nat : f = rows[i].filled + SumAt(p \ ends, Size)
    BY <2>2, <2>9
  <2>5. PICK e \in Nat : e = rows[i].executed + SumAt(p \ ends, Value)
    BY <2>2, <2>9
  <2>6. PICK st : st = IF ends = {} THEN rows[i].status ELSE fills[CHOOSE k \in ends : TRUE].reason
    OBVIOUS
  <2>7. st \in {"none", "new", "open", "", "filled", "cancelled"}
    BY <2>1, <2>3, <2>6 DEF Row
  <2>8. row = [status |-> st, filled |-> f, executed |-> e]
    BY <1>6, <2>4, <2>5, <2>6
  <2> QED
    BY <2>7, <2>8 DEF Row
<1>10. freed \in Seq(Credit)
  <2>1. <<>> \in Seq(Credit)
    OBVIOUS
  <2> QED
    BY <1>2, <1>7, <1>9, <2>1, ReleaseType
<1>11. BaseBills(Order(i).side, m) \in Seq(Credit) /\ QuoteBills(Order(i).side, m) \in Seq(Credit)
  BY BillsType
<1>12. bills[User(i)].base \in Seq(Credit) /\ bills[User(i)].quote \in Seq(Credit)
  BY <1>1, <1>2 DEF Currencies
<1>13. PICK base : base = bills[User(i)].base \o BaseBills(Order(i).side, m)
                            \o (IF Order(i).side = "sell" THEN freed ELSE <<>>)
  OBVIOUS
<1>14. PICK quote : quote = bills[User(i)].quote \o QuoteBills(Order(i).side, m)
                              \o (IF Order(i).side = "buy" THEN freed ELSE <<>>)
  OBVIOUS
<1>15. base \in Seq(Credit) /\ quote \in Seq(Credit)
  <2>1. \A a, b \in Seq(Credit) : a \o b \in Seq(Credit)
    OBVIOUS
  <2>2. PICK f1 \in Seq(Credit) : f1 = IF Order(i).side = "sell" THEN freed ELSE <<>>
    <3>1. <<>> \in Seq(Credit)
      OBVIOUS
    <3> QED
      BY <1>10, <3>1
  <2>3. PICK f2 \in Seq(Credit) : f2 = IF Order(i).side = "buy" THEN freed ELSE <<>>
    <3>1. <<>> \in Seq(Credit)
      OBVIOUS
    <3> QED
      BY <1>10, <3>1
  <2> QED
    BY <1>11, <1>12, <1>13, <1>14, <2>1, <2>2, <2>3
<1>16. [base |-> base, quote |-> quote] \in [Currencies -> Seq(Credit)]
  BY <1>15 DEF Currencies
<1>17. bills' = [bills EXCEPT ![User(i)] = [base |-> base, quote |-> quote]]
  BY <1>8, <1>13, <1>14
<1>18. bills' \in [Users -> [Currencies -> Seq(Credit)]]
  BY <1>1, <1>2, <1>16, <1>17
<1>19. rows' \in [OrderIds -> Row]
  BY <1>1, <1>8, <1>9
<1> QED
  BY <1>1, <1>8, <1>18, <1>19 DEF TableInv

\* ExecuteBill adds to what is available, and adds something to the hold.
LEMMA BillSums ==
  ASSUME BaseInv, NEW u \in Users, NEW c \in Currencies, ExecuteBill(u, c)
  PROVE  \E a \in Nat, h \in Int :
           accounts' = [accounts EXCEPT ![u][c] = [available |-> accounts[u][c].available + a,
                                                   hold |-> accounts[u][c].hold + h]]
<1>1. /\ bills \in [Users -> [Currencies -> Seq(Credit)]]
      /\ accounts \in [Users -> [Currencies -> [available : Int, hold : Int]]]
  BY DEF BaseInv, TableInv
<1>2. PICK s \in Seq(Credit) : s = bills[u][c]
  BY <1>1
<1>3. PICK n \in Nat : n = Smaller(Len(s), BillLimit)
  BY SettlementAssumption DEF Smaller
<1>4. n <= Len(s)
  BY <1>3, SettlementAssumption DEF Smaller
<1>5. PICK b \in Seq(Credit) : b = SubSeq(s, 1, n)
  <2>1. SubSeq(s, 1, n) \in Seq(Credit)
    BY <1>4
  <2> QED
    BY <2>1
<1>6. \A k \in 1 .. n : b[k] \in Credit
  BY <1>4, <1>5
<1>7. PICK as : as = [k \in 1 .. n |-> b[k].available]
  OBVIOUS
<1>8. PICK hs : hs = [k \in 1 .. n |-> b[k].hold]
  OBVIOUS
<1>9. \A k \in 1 .. n : b[k].available \in Nat /\ b[k].hold \in Int
  BY <1>6 DEF Credit
<1>10. as \in [1 .. n -> Nat] /\ hs \in [1 .. n -> Int]
  BY <1>7, <1>8, <1>9
<1>11. as \in Seq(Nat) /\ hs \in Seq(Int)
  BY <1>10, ListIsSeq
<1>12. SumOf(as) \in Nat /\ SumOf(hs) \in Int
  BY <1>11, SumOfNats, SumIs
<1>13. accounts' = [accounts EXCEPT ![u][c] = [available |-> @.available + SumOf(as), hold |-> @.hold + SumOf(hs)]]
  BY <1>2, <1>3, <1>5, <1>7, <1>8 DEF ExecuteBill
<1>14. accounts' = [accounts EXCEPT ![u][c] = [available |-> accounts[u][c].available + SumOf(as),
                                               hold |-> accounts[u][c].hold + SumOf(hs)]]
  BY <1>1, <1>13
<1> QED
  BY <1>12, <1>14

LEMMA TableStep ==
  ASSUME BaseInv, Next
  PROVE  TableInv'
<1>1. /\ fills \in Seq(FillRow) /\ plan \in Plans /\ rows \in [OrderIds -> Row]
      /\ bills \in [Users -> [Currencies -> Seq(Credit)]]
      /\ accounts \in [Users -> [Currencies -> [available : Int, hold : Int]]]
      /\ logTopic \in Seq(Log) /\ readPos \in Nat /\ checked \subseteq OrderIds
  BY DEF BaseInv, PipeInv, TableInv
<1>2. \A i \in OrderIds : [rows EXCEPT ![i].status = "new"] \in [OrderIds -> Row]
  BY <1>1 DEF Row
<1>3. \A i \in OrderIds : [rows EXCEPT ![i].status = "open"] \in [OrderIds -> Row]
  BY <1>1 DEF Row
<1>4. ASSUME NEW u \in Users, NEW c \in Currencies, NEW a \in Int, NEW h \in Int
      PROVE  [accounts EXCEPT ![u][c] = [available |-> a, hold |-> h]]
               \in [Users -> [Currencies -> [available : Int, hold : Int]]]
  <2>1. [available |-> a, hold |-> h] \in [available : Int, hold : Int]
    OBVIOUS
  <2> QED
    BY <1>1, <2>1
<1>5. \A u \in Users, c \in Currencies : accounts[u][c].available \in Int /\ accounts[u][c].hold \in Int
  BY <1>1
<1>6. ASSUME NEW i \in OrderIds, CheckBalance(i) \/ SubmitOrder(i) \/ RequestCancel(i)
      PROVE  TableInv'
  BY <1>1, <1>6 DEF CheckBalance, SubmitOrder, RequestCancel, TableInv, dbVars
<1>7. ASSUME NEW i \in OrderIds, PlaceOrder(i)
      PROVE  TableInv'
  <2>1. User(i) \in Users /\ HoldCurrency(Order(i)) \in Currencies /\ HoldSize(Order(i)) \in Nat
    BY <1>1, PlanType
  <2>2. PICK u \in Users, c \in Currencies, h \in Nat :
          u = User(i) /\ c = HoldCurrency(Order(i)) /\ h = HoldSize(Order(i))
    BY <2>1
  <2>3. accounts' = [accounts EXCEPT ![u][c] = [available |-> accounts[u][c].available - h,
                                               hold |-> accounts[u][c].hold + h]]
    BY <1>1, <1>7, <2>2 DEF PlaceOrder
  <2>4. accounts' \in [Users -> [Currencies -> [available : Int, hold : Int]]]
    <3>1. (accounts[u][c].available - h) \in Int /\ (accounts[u][c].hold + h) \in Int
      BY <1>5
    <3> QED
      BY <1>4, <2>3, <3>1
  <2>5. rows' = [rows EXCEPT ![i].status = "new"] /\ UNCHANGED bills
    BY <1>7 DEF PlaceOrder
  <2> QED
    BY <1>1, <1>2, <2>4, <2>5 DEF TableInv
<1>8. ASSUME NEW m \in topic, Engine(m)
      PROVE  TableInv'
  BY <1>1, <1>8 DEF Engine, TableInv, dbVars
<1>9. CASE EngineMatch \/ EngineLogs \/ SendFill \/ Crash
  BY <1>1, <1>9 DEF EngineMatch, EngineLogs, SendFill, Crash, TableInv, dbVars
<1>10. CASE ReadLog
  <2>1. PICK log \in Log : log = logTopic[readPos + 1]
    BY <1>1, <1>10 DEF ReadLog
  <2>2. UNCHANGED <<accounts, bills>>
    BY <1>10 DEF ReadLog
  <2>3. rows' = rows \/ (rows' = [rows EXCEPT ![log.order].status = "open"] /\ log.type = "open")
    BY <1>10, <2>1 DEF ReadLog
  <2>4. [rows EXCEPT ![log.order].status = "open"] \in [OrderIds -> Row]
    <3>1. CASE log.order \in OrderIds
      BY <1>3, <3>1
    <3>2. CASE log.order \notin OrderIds
      <4>1. [rows EXCEPT ![log.order].status = "open"] = rows
        BY <1>1, <3>2
      <4> QED
        BY <1>1, <4>1
    <3> QED
      BY <3>1, <3>2
  <2>5. rows' \in [OrderIds -> Row]
    BY <1>1, <2>3, <2>4
  <2> QED
    BY <1>1, <2>2, <2>5 DEF TableInv
<1>11. CASE FlushFill
  BY <1>1, <1>11 DEF FlushFill, TableInv
<1>12. ASSUME NEW i \in OrderIds, ExecuteFill(i)
       PROVE  TableInv'
  BY <1>12, FillTables
<1>13. ASSUME NEW u \in Users, NEW c \in Currencies, ExecuteBill(u, c)
       PROVE  TableInv'
  <2>1. PICK a \in Nat, h \in Int :
          accounts' = [accounts EXCEPT ![u][c] = [available |-> accounts[u][c].available + a,
                                                  hold |-> accounts[u][c].hold + h]]
    BY <1>13, BillSums
  <2>2. accounts' \in [Users -> [Currencies -> [available : Int, hold : Int]]]
    <3>1. (accounts[u][c].available + a) \in Int /\ (accounts[u][c].hold + h) \in Int
      BY <1>5
    <3> QED
      BY <1>4, <2>1, <3>1
  <2>3. bills[u][c] \in Seq(Credit) /\ Len(bills[u][c]) \in Nat
    BY <1>1
  <2>4. PICK n \in Nat : bills' = [bills EXCEPT ![u][c] = SubSeq(@, n + 1, Len(@))]
    <3>1. Smaller(Len(bills[u][c]), BillLimit) \in Nat
      BY <2>3, SettlementAssumption DEF Smaller
    <3> QED
      BY <1>13, <3>1 DEF ExecuteBill
  <2>5. PICK rest \in Seq(Credit) : rest = SubSeq(bills[u][c], n + 1, Len(bills[u][c]))
    <3>1. SubSeq(bills[u][c], n + 1, Len(bills[u][c])) \in Seq(Credit)
      <4>1. PICK s \in Seq(Credit) : s = bills[u][c]
        BY <2>3
      <4>2. SubSeq(s, n + 1, Len(s)) \in Seq(Credit)
        OBVIOUS
      <4> QED
        BY <4>1, <4>2
    <3> QED
      BY <3>1
  <2>6. bills' = [bills EXCEPT ![u][c] = rest]
    BY <1>1, <2>4, <2>5
  <2>7. bills' \in [Users -> [Currencies -> Seq(Credit)]]
    BY <1>1, <2>5, <2>6
  <2>8. UNCHANGED rows
    BY <1>13 DEF ExecuteBill
  <2> QED
    BY <1>1, <2>2, <2>7, <2>8 DEF TableInv
<1> QED
  BY <1>6, <1>7, <1>8, <1>9, <1>10, <1>11, <1>12, <1>13 DEF Next, Settle

-----------------------------------------------------------------------------
(* No account is overdrawn but by two requests that met. *)

\* What an account has available, and the cover of the requests, after it has changed in
\* one place.
LEMMA CoverStep ==
  ASSUME Inv, Next
  PROVE  CoverInv'
<1>1. /\ plan \in Plans /\ checked \subseteq OrderIds
      /\ accounts \in [Users -> [Currencies -> [available : Int, hold : Int]]]
      /\ \A u \in Users, c \in Currencies : accounts[u][c].available < 0 => <<u, c>> \in raced
      /\ \A i \in checked : HoldAccount(i) \notin raced =>
           /\ accounts[User(i)][HoldCurrency(Order(i))].available >= HoldSize(Order(i))
           /\ \A j \in checked : HoldAccount(j) = HoldAccount(i) => j = i
  BY DEF Inv, BaseInv, PipeInv, TableInv, CoverInv, OverdrawnOnlyInRace
<1>2. \A i \in OrderIds : /\ User(i) \in Users /\ HoldCurrency(Order(i)) \in Currencies
                          /\ HoldSize(Order(i)) \in Nat
  BY <1>1, PlanType
<1>3. \A u \in Users, c \in Currencies : accounts[u][c].available \in Int
  BY <1>1
<1>4. ASSUME UNCHANGED plan
      PROVE  \A i : User(i)' = User(i) /\ Order(i)' = Order(i) /\ HoldAccount(i)' = HoldAccount(i)
  BY <1>4 DEF User, Order, HoldAccount, HoldCurrency
<1>5. CASE UNCHANGED <<plan, checked, accounts, raced>>
  BY <1>1, <1>4, <1>5 DEF CoverInv, OverdrawnOnlyInRace
<1>6. ASSUME NEW i \in OrderIds, CheckBalance(i)
      PROVE  CoverInv'
  <2>1. /\ checked' = checked \cup {i} /\ raced \subseteq raced' /\ UNCHANGED <<plan, accounts>>
        /\ HoldAccount(i) \notin raced' => \A j \in checked : HoldAccount(j) # HoldAccount(i)
    BY <1>6 DEF CheckBalance, PassCheck, dbVars
  <2>2. accounts[User(i)][HoldCurrency(Order(i))].available >= HoldSize(Order(i))
    BY <1>6 DEF CheckBalance
  <2>3. OverdrawnOnlyInRace'
    BY <1>1, <2>1 DEF OverdrawnOnlyInRace
  <2>4. ASSUME NEW j \in checked', HoldAccount(j) \notin raced'
        PROVE  /\ accounts[User(j)][HoldCurrency(Order(j))].available >= HoldSize(Order(j))
               /\ \A k \in checked' : HoldAccount(k) = HoldAccount(j) => k = j
    BY <1>1, <2>1, <2>2, <2>4
  <2> QED
    BY <1>4, <2>1, <2>3, <2>4 DEF CoverInv
<1>7. ASSUME NEW i \in OrderIds, PlaceOrder(i)
      PROVE  CoverInv'
  <2>1. checked' = checked \ {i} /\ i \in checked /\ UNCHANGED <<plan, raced>>
    BY <1>7 DEF PlaceOrder
  <2>2. PICK u \in Users, c \in Currencies, h \in Nat :
          u = User(i) /\ c = HoldCurrency(Order(i)) /\ h = HoldSize(Order(i))
    BY <1>2
  <2>3. accounts' = [accounts EXCEPT ![u][c] = [available |-> accounts[u][c].available - h,
                                               hold |-> accounts[u][c].hold + h]]
    BY <1>1, <1>7, <2>2 DEF PlaceOrder
  <2>4. HoldAccount(i) = <<u, c>> /\ (<<u, c>> \notin raced => accounts[u][c].available >= h)
    BY <1>1, <2>1, <2>2 DEF HoldAccount
  <2>5. ASSUME NEW v \in Users, NEW d \in Currencies
        PROVE  accounts'[v][d].available = IF v = u /\ d = c THEN accounts[u][c].available - h
                                           ELSE accounts[v][d].available
    BY <1>1, <2>3
  <2>6. OverdrawnOnlyInRace'
    <3> SUFFICES ASSUME NEW v \in Users, NEW d \in Currencies, accounts'[v][d].available < 0
                 PROVE  <<v, d>> \in raced
      BY <2>1 DEF OverdrawnOnlyInRace
    <3>1. CASE v = u /\ d = c
      <4>1. accounts[u][c].available - h < 0
        BY <2>5, <3>1
      <4> QED
        BY <1>3, <2>4, <3>1, <4>1
    <3>2. CASE ~ (v = u /\ d = c)
      BY <1>1, <2>5, <3>2
    <3> QED
      BY <3>1, <3>2
  <2>7. ASSUME NEW j \in checked', HoldAccount(j) \notin raced
        PROVE  /\ accounts'[User(j)][HoldCurrency(Order(j))].available >= HoldSize(Order(j))
               /\ \A k \in checked' : HoldAccount(k) = HoldAccount(j) => k = j
    <3>1. j \in checked /\ j # i
      BY <2>1
    <3>2. HoldAccount(j) # HoldAccount(i)
      BY <1>1, <2>1, <2>7, <3>1
    <3>3. PICK v \in Users, d \in Currencies : v = User(j) /\ d = HoldCurrency(Order(j))
      BY <1>1, <1>2, <3>1
    <3>4. ~ (v = u /\ d = c)
      BY <2>4, <3>2, <3>3 DEF HoldAccount
    <3>5. accounts'[v][d].available = accounts[v][d].available
      BY <2>5, <3>4
    <3>6. \A k \in checked' : HoldAccount(k) = HoldAccount(j) => k = j
      BY <1>1, <2>1, <2>7, <3>1
    <3>7. accounts[v][d].available >= HoldSize(Order(j))
      BY <1>1, <2>7, <3>1, <3>3
    <3> QED
      BY <3>3, <3>5, <3>6, <3>7
  <2> QED
    BY <1>4, <2>1, <2>6, <2>7 DEF CoverInv
<1>8. ASSUME NEW u \in Users, NEW c \in Currencies, ExecuteBill(u, c)
      PROVE  CoverInv'
  <2>1. PICK a \in Nat, h \in Int :
          accounts' = [accounts EXCEPT ![u][c] = [available |-> accounts[u][c].available + a,
                                                  hold |-> accounts[u][c].hold + h]]
    BY <1>8, BillSums DEF Inv
  <2>2. UNCHANGED <<plan, checked, raced>>
    BY <1>8 DEF ExecuteBill, restVars
  <2>3. ASSUME NEW v \in Users, NEW d \in Currencies
        PROVE  accounts'[v][d].available = IF v = u /\ d = c THEN accounts[u][c].available + a
                                           ELSE accounts[v][d].available
    BY <1>1, <2>1
  <2>4. \A v \in Users, d \in Currencies : accounts'[v][d].available >= accounts[v][d].available
                                           /\ accounts'[v][d].available \in Int
    BY <1>3, <2>3
  <2>5. OverdrawnOnlyInRace'
    <3> SUFFICES ASSUME NEW v \in Users, NEW d \in Currencies, accounts'[v][d].available < 0
                 PROVE  <<v, d>> \in raced
      BY <2>2 DEF OverdrawnOnlyInRace
    <3>1. accounts[v][d].available < 0
      BY <1>3, <2>4
    <3> QED
      BY <1>1, <3>1
  <2>6. ASSUME NEW j \in checked, HoldAccount(j) \notin raced
        PROVE  accounts'[User(j)][HoldCurrency(Order(j))].available >= HoldSize(Order(j))
    <3>1. PICK v \in Users, d \in Currencies, n \in Nat :
            v = User(j) /\ d = HoldCurrency(Order(j)) /\ n = HoldSize(Order(j))
      BY <1>1, <1>2
    <3>2. accounts[v][d].available >= n
      BY <1>1, <2>6, <3>1
    <3>3. accounts'[v][d].available >= n
      BY <1>3, <2>4, <3>2
    <3> QED
      BY <3>1, <3>3
  <2> QED
    BY <1>1, <1>4, <2>2, <2>5, <2>6 DEF CoverInv
<1>9. CASE Crash
  <2>1. checked' = {} /\ UNCHANGED <<plan, accounts, raced>>
    BY <1>9 DEF Crash, dbVars
  <2> QED
    BY <1>1, <2>1 DEF CoverInv, OverdrawnOnlyInRace
<1>10. ASSUME NEW i \in OrderIds, SubmitOrder(i) \/ RequestCancel(i) \/ ExecuteFill(i)
       PROVE  UNCHANGED <<plan, checked, accounts, raced>>
  BY <1>10 DEF SubmitOrder, RequestCancel, ExecuteFill, dbVars, restVars
<1>11. ASSUME NEW m \in topic, Engine(m)
       PROVE  UNCHANGED <<plan, checked, accounts, raced>>
  BY <1>11 DEF Engine, dbVars
<1>12. CASE EngineMatch \/ EngineLogs \/ ReadLog \/ SendFill \/ FlushFill
  <2>1. UNCHANGED <<plan, checked, accounts, raced>>
    BY <1>12 DEF EngineMatch, EngineLogs, ReadLog, SendFill, FlushFill, dbVars, restVars
  <2> QED
    BY <1>5, <2>1
<1> QED
  BY <1>5, <1>6, <1>7, <1>8, <1>9, <1>10, <1>11, <1>12 DEF Next, Settle

LEMMA InvStep ==
  ASSUME Inv, [Next]_vars
  PROVE  Inv'
<1>1. CASE Next
  BY <1>1, PipeStep, TableStep, CheckedStep, CoverStep DEF Inv, BaseInv
<1>2. CASE UNCHANGED vars
  <2>1. BookInv'
    BY <1>2, BookStutter DEF Inv, BaseInv, PipeInv, vars
  <2> QED
    BY <1>2, <2>1 DEF vars, dbVars, restVars, makerVars, Inv, BaseInv, PipeInv, TableInv, CoverInv,
                      OverdrawnOnlyInRace, User, Order, HoldSize, HoldCurrency, HoldAccount
<1> QED
  BY <1>1, <1>2

\* However many requests of a user are under way, PlaceOrder takes an available balance
\* below zero only on an account for which two of them were past HasEnoughBalance
\* together: bills only add to what is available, and between the look at the balance and
\* the transaction nobody else takes from the account.  SpotOverdraw shows that two
\* requests do overdraw it.
THEOREM OverdrawnByRaceOnly == Spec => []OverdrawnOnlyInRace
<1>1. Inv => OverdrawnOnlyInRace
  BY DEF Inv, CoverInv
<1>2. Inv /\ [Next]_vars => Inv'
  BY InvStep
<1> QED
  BY <1>1, <1>2, InitInv, PTL DEF Spec

-----------------------------------------------------------------------------
(* Sums of parts. *)

\* Two parts.
LEMMA SumUnion ==
  ASSUME NEW A, IsFiniteSet(A), NEW B, IsFiniteSet(B), A \cap B = {}, NEW f,
         \A x \in A \cup B : f[x] \in Int
  PROVE  /\ SumFunctionOnSet(f, A \cup B) = SumFunctionOnSet(f, A) + SumFunctionOnSet(f, B)
         /\ IsFiniteSet(A \cup B)
<1> DEFINE Q == {C \in SUBSET B : SumFunctionOnSet(f, A \cup C) = SumFunctionOnSet(f, A) + SumFunctionOnSet(f, C)}
<1>1. {} \in Q
  <2>1. A \cup {} = A
    OBVIOUS
  <2>2. SumFunctionOnSet(f, A) \in Int
    BY SumType
  <2> QED
    BY <2>1, <2>2, SumOfNone
<1>2. ASSUME NEW C \in SUBSET B, C # {}, \A x \in C : C \ {x} \in Q
      PROVE  C \in Q
  <2>1. PICK y \in C : TRUE
    BY <1>2
  <2>2. IsFiniteSet(C) /\ IsFiniteSet(A \cup C)
    BY FS_Subset, FS_Union
  <2>3. (A \cup C) \ {y} = A \cup (C \ {y})
    OBVIOUS
  <2>4. /\ SumFunctionOnSet(f, A \cup C) = f[y] + SumFunctionOnSet(f, (A \cup C) \ {y})
        /\ SumFunctionOnSet(f, (A \cup C) \ {y}) \in Int
    BY <2>2, SumWithout
  <2>5. /\ SumFunctionOnSet(f, C) = f[y] + SumFunctionOnSet(f, C \ {y})
        /\ SumFunctionOnSet(f, C \ {y}) \in Int
    BY <2>2, SumWithout
  <2>6. SumFunctionOnSet(f, A \cup (C \ {y})) = SumFunctionOnSet(f, A) + SumFunctionOnSet(f, C \ {y})
    BY <1>2
  <2>7. SumFunctionOnSet(f, A) \in Int /\ f[y] \in Int
    BY SumType
  <2>8. PICK a \in Int, c \in Int, d \in Int :
          a = SumFunctionOnSet(f, A) /\ c = SumFunctionOnSet(f, C \ {y}) /\ d = f[y]
    BY <2>5, <2>7
  <2>9. SumFunctionOnSet(f, A \cup C) = d + (a + c) /\ SumFunctionOnSet(f, C) = d + c
    BY <2>3, <2>4, <2>5, <2>6, <2>8
  <2>10. SumFunctionOnSet(f, A \cup C) = SumFunctionOnSet(f, A) + SumFunctionOnSet(f, C)
    BY <2>8, <2>9
  <2> QED
    BY <2>10
<1>3. \A C \in SUBSET B : C \in Q
  <2> HIDE DEF Q
  <2> QED
    BY <1>1, <1>2, BySize
<1>4. IsFiniteSet(A \cup B)
  BY FS_Union
<1> QED
  BY <1>3, <1>4

\* A part of natural numbers is not more than the whole.
LEMMA SumOfPart ==
  ASSUME NEW B, IsFiniteSet(B), NEW A \in SUBSET B, NEW f, \A x \in B : f[x] \in Nat
  PROVE  /\ SumFunctionOnSet(f, A) <= SumFunctionOnSet(f, B)
         /\ SumFunctionOnSet(f, A) \in Nat /\ SumFunctionOnSet(f, B) \in Nat /\ IsFiniteSet(A)
<1>1. PICK C \in SUBSET B : A \cup C = B /\ A \cap C = {}
  <2>1. A \cup (B \ A) = B /\ A \cap (B \ A) = {}
    OBVIOUS
  <2> QED
    BY <2>1
<1>2. IsFiniteSet(A) /\ IsFiniteSet(C)
  BY FS_Subset
<1>3. SumFunctionOnSet(f, A) \in Nat /\ SumFunctionOnSet(f, C) \in Nat
  BY <1>2, SumNat
<1>4. SumFunctionOnSet(f, A \cup C) = SumFunctionOnSet(f, A) + SumFunctionOnSet(f, C)
  <2>1. \A x \in A \cup C : f[x] \in Int
    OBVIOUS
  <2> QED
    BY <1>1, <1>2, <2>1, SumUnion
<1>5. SumFunctionOnSet(f, B) = SumFunctionOnSet(f, A) + SumFunctionOnSet(f, C)
  BY <1>1, <1>4
<1> QED
  BY <1>2, <1>3, <1>5

\* The first n numbers.
LEMMA UpTo ==
  ASSUME NEW n \in Nat
  PROVE  IsFiniteSet(1 .. n) /\ IsFiniteSet(0 .. n)
  BY FS_Interval

\* The sum of a sequence with zeros outside of P is the sum over P.
LEMMA SumOfMarked ==
  ASSUME NEW s \in Seq(Int), NEW P \in SUBSET DOMAIN s, NEW v, \A k \in P : s[k] = v[k],
         \A k \in DOMAIN s : k \notin P => s[k] = 0
  PROVE  SumOf(s) = SumFunctionOnSet(v, P) /\ IsFiniteSet(P)
<1>1. DOMAIN s = 1 .. Len(s) /\ Len(s) \in Nat /\ \A k \in DOMAIN s : s[k] \in Int
  OBVIOUS
<1>2. PICK f : Adds(f, Len(s), s) /\ SumOf(s) = f[Len(s)]
  BY SumIs
<1>3. IsFiniteSet(P)
  BY <1>1, UpTo, FS_Subset
<1> DEFINE Up(k) == {j \in P : j <= k}
           T == {k \in 0 .. Len(s) : f[k] = SumFunctionOnSet(v, Up(k))}
<1>4. \A k : IsFiniteSet(Up(k)) /\ \A j \in Up(k) : v[j] \in Int
  BY <1>1, <1>3, FS_Subset
<1>5. 0 \in T
  <2>1. Up(0) = {}
    BY <1>1
  <2> HIDE DEF Up
  <2>2. f[0] = 0 /\ SumFunctionOnSet(v, {}) = 0
    BY <1>2, SumOfNone DEF Adds
  <2>3. f[0] = SumFunctionOnSet(v, Up(0))
    BY <2>1, <2>2
  <2> QED
    BY <1>1, <2>3
<1>6. ASSUME NEW k \in 0 .. Len(s), k \in T, k < Len(s) PROVE k + 1 \in T
  <2>1. k + 1 \in 1 .. Len(s) /\ (k + 1) - 1 = k
    BY <1>1, <1>6
  <2>2. f[k + 1] = f[k] + s[k + 1] /\ f[k] \in Int
    BY <1>1, <1>2, <2>1 DEF Adds
  <2>3. CASE k + 1 \in P
    <3>1. Up(k + 1) \ {k + 1} = Up(k) /\ k + 1 \in Up(k + 1)
      BY <1>1, <2>3
    <3> HIDE DEF Up
    <3>2. SumFunctionOnSet(v, Up(k + 1)) = v[k + 1] + SumFunctionOnSet(v, Up(k))
      BY <1>4, <3>1, SumWithout
    <3>3. SumFunctionOnSet(v, Up(k)) = f[k] /\ v[k + 1] = s[k + 1] /\ s[k + 1] \in Int
      BY <1>1, <1>6, <2>1, <2>3
    <3> QED
      BY <2>1, <2>2, <3>2, <3>3
  <2>4. CASE k + 1 \notin P
    <3>1. Up(k + 1) = Up(k)
      BY <1>1, <2>4
    <3> HIDE DEF Up
    <3>2. s[k + 1] = 0
      BY <1>1, <2>1, <2>4
    <3> QED
      BY <1>6, <2>1, <2>2, <3>1, <3>2
  <2> QED
    BY <2>3, <2>4
<1>7. \A k \in 0 .. Len(s) : k \in T
  <2> HIDE DEF T
  <2> QED
    BY <1>1, <1>5, <1>6, Upwards
<1>8. Up(Len(s)) = P
  BY <1>1
<1> HIDE DEF Up
<1>9. f[Len(s)] = SumFunctionOnSet(v, Up(Len(s)))
  BY <1>1, <1>7
<1> QED
  BY <1>2, <1>3, <1>8, <1>9

LEMMA SumAdds ==
  ASSUME NEW S, IsFiniteSet(S), NEW f, NEW e, NEW h,
         \A x \in S : f[x] \in Int /\ e[x] \in Int /\ h[x] = f[x] + e[x]
  PROVE  SumFunctionOnSet(h, S) = SumFunctionOnSet(f, S) + SumFunctionOnSet(e, S)
<1> DEFINE Q == {C \in SUBSET S : SumFunctionOnSet(h, C) = SumFunctionOnSet(f, C) + SumFunctionOnSet(e, C)}
<1>1. {} \in Q
  <2>1. SumFunctionOnSet(h, {}) = 0 /\ SumFunctionOnSet(f, {}) = 0 /\ SumFunctionOnSet(e, {}) = 0
    BY SumOfNone
  <2> QED
    BY <2>1
<1>2. ASSUME NEW C \in SUBSET S, C # {}, \A x \in C : C \ {x} \in Q
      PROVE  C \in Q
  <2>1. PICK y \in C : TRUE
    BY <1>2
  <2>2. IsFiniteSet(C)
    BY FS_Subset
  <2>3. \A x \in C : f[x] \in Int /\ e[x] \in Int /\ h[x] \in Int
    OBVIOUS
  <2>4. /\ SumFunctionOnSet(h, C) = h[y] + SumFunctionOnSet(h, C \ {y})
        /\ SumFunctionOnSet(f, C) = f[y] + SumFunctionOnSet(f, C \ {y})
        /\ SumFunctionOnSet(e, C) = e[y] + SumFunctionOnSet(e, C \ {y})
        /\ SumFunctionOnSet(f, C \ {y}) \in Int /\ SumFunctionOnSet(e, C \ {y}) \in Int
    BY <2>2, <2>3, SumWithout
  <2>5. PICK a \in Int, b \in Int, c \in Int, d \in Int :
          /\ a = SumFunctionOnSet(f, C \ {y}) /\ b = SumFunctionOnSet(e, C \ {y})
          /\ c = f[y] /\ d = e[y]
    BY <2>3, <2>4
  <2>6. SumFunctionOnSet(h, C \ {y}) = a + b /\ h[y] = c + d
    BY <1>2, <2>5
  <2>7. SumFunctionOnSet(h, C) = (c + d) + (a + b) /\ SumFunctionOnSet(f, C) = c + a /\ SumFunctionOnSet(e, C) = d + b
    BY <2>4, <2>5, <2>6
  <2>8. SumFunctionOnSet(h, C) = SumFunctionOnSet(f, C) + SumFunctionOnSet(e, C)
    BY <2>7
  <2> QED
    BY <2>8
<1>3. \A C \in SUBSET S : C \in Q
  <2> HIDE DEF Q
  <2> QED
    BY <1>1, <1>2, BySize
<1> QED
  BY <1>3

LEMMA SumOfZeros ==
  ASSUME NEW S, IsFiniteSet(S), NEW f, \A x \in S : f[x] = 0
  PROVE  SumFunctionOnSet(f, S) = 0
<1>1. SumFunctionOnSet(f, S) \in Int
  BY SumType
<1>2. SumFunctionOnSet(f, S) = SumFunctionOnSet(f, S) + SumFunctionOnSet(f, S)
  BY SumAdds
<1>3. \A a \in Int : a = a + a => a = 0
  OBVIOUS
<1> QED
  BY <1>1, <1>2, <1>3

LEMMA SumNegated ==
  ASSUME NEW S, IsFiniteSet(S), NEW f, NEW e, \A x \in S : f[x] \in Int /\ e[x] = - f[x]
  PROVE  SumFunctionOnSet(e, S) = - SumFunctionOnSet(f, S)
<1>1. PICK z : z = [x \in S |-> 0]
  OBVIOUS
<1>2. \A x \in S : z[x] = 0 /\ e[x] \in Int /\ z[x] = f[x] + e[x]
  BY <1>1
<1>3. SumFunctionOnSet(z, S) = 0 /\ SumFunctionOnSet(f, S) \in Int /\ SumFunctionOnSet(e, S) \in Int
  BY <1>2, SumOfZeros, SumType
<1>4. SumFunctionOnSet(z, S) = SumFunctionOnSet(f, S) + SumFunctionOnSet(e, S)
  BY <1>2, SumAdds
<1> QED
  BY <1>3, <1>4

\* SumOf of a longer sequence.
LEMMA SumOfEmpty == SumOf(<<>>) = 0
<1>1. PICK s \in Seq(Int) : s = <<>>
  <2>1. <<>> \in Seq(Int)
    OBVIOUS
  <2> QED
    BY <2>1
<1>2. Len(s) = 0
  BY <1>1
<1>3. PICK f : Adds(f, Len(s), s) /\ SumOf(s) = f[Len(s)]
  BY SumIs
<1>4. f[0] = 0
  BY <1>3 DEF Adds
<1> QED
  BY <1>1, <1>2, <1>3, <1>4

LEMMA SumIsAmount ==
  ASSUME NEW s \in Seq(Int)
  PROVE  SumOf(s) = Amount(s) /\ SumOf(s) \in Int
<1>1. PICK f : Adds(f, Len(s), s) /\ SumOf(s) = f[Len(s)] /\ SumOf(s) \in Int
  BY SumIs
<1> QED
  BY <1>1, AmountEqual

LEMMA SumAppend ==
  ASSUME NEW s \in Seq(Int), NEW x \in Int
  PROVE  SumOf(Append(s, x)) = SumOf(s) + x
<1>1. PICK t \in Seq(Int) : t = Append(s, x)
  <2>1. Append(s, x) \in Seq(Int)
    OBVIOUS
  <2> QED
    BY <2>1
<1>2. SumOf(t) = Amount(t) /\ SumOf(s) = Amount(s)
  BY SumIsAmount
<1>3. Amount(t) = Amount(s) + x
  BY <1>1, AmountAppend
<1> QED
  BY <1>1, <1>2, <1>3

\* The start of a sequence.
Start(t, k) == [j \in 1 .. k |-> t[j]]

LEMMA StartMore ==
  ASSUME NEW S, NEW t \in Seq(S), NEW k \in 0 .. Len(t)
  PROVE  /\ Start(t, k) \in Seq(S) /\ Len(Start(t, k)) = k
         /\ k < Len(t) => Start(t, k + 1) = Append(Start(t, k), t[k + 1]) /\ t[k + 1] \in S
         /\ Start(t, Len(t)) = t
<1>1. Len(t) \in Nat /\ \A j \in 1 .. Len(t) : t[j] \in S
  OBVIOUS
<1>2. \A n \in 0 .. Len(t) : Start(t, n) \in [1 .. n -> S]
  BY <1>1 DEF Start
<1>3. \A n \in 0 .. Len(t) : n \in Nat
  BY <1>1
<1>4. \A n \in 0 .. Len(t) : Start(t, n) \in Seq(S) /\ Len(Start(t, n)) = n
  BY <1>2, <1>3, ListIsSeq
<1>5. ASSUME k < Len(t)
      PROVE  Start(t, k + 1) = Append(Start(t, k), t[k + 1]) /\ t[k + 1] \in S
  <2>1. k + 1 \in 0 .. Len(t) /\ k + 1 \in 1 .. Len(t) /\ k \in Nat
    BY <1>1, <1>5
  <2>2. PICK a \in Seq(S), b \in Seq(S), x \in S :
          /\ a = Start(t, k) /\ b = Start(t, k + 1) /\ x = t[k + 1]
    BY <1>1, <1>4, <2>1
  <2>3. Len(a) = k /\ Len(b) = k + 1
    BY <1>4, <2>1, <2>2
  <2>4. \A j \in 1 .. k + 1 : b[j] = Append(a, x)[j]
    BY <2>1, <2>2, <2>3 DEF Start
  <2>5. Len(Append(a, x)) = k + 1 /\ Append(a, x) \in Seq(S)
    BY <2>3
  <2>6. b = Append(a, x)
    BY <2>3, <2>4, <2>5
  <2> QED
    BY <1>1, <2>1, <2>2, <2>6
<1>6. Start(t, Len(t)) = t
  BY <1>1 DEF Start
<1> QED
  BY <1>4, <1>5, <1>6

LEMMA SumConcat ==
  ASSUME NEW s \in Seq(Int), NEW t \in Seq(Int)
  PROVE  SumOf(s \o t) = SumOf(s) + SumOf(t)
<1>1. Len(t) \in Nat /\ SumOf(s) \in Int
  BY SumIsAmount
<1> DEFINE T == {k \in 0 .. Len(t) : SumOf(s \o Start(t, k)) = SumOf(s) + SumOf(Start(t, k))}
<1>2. 0 \in T
  <2>1. Start(t, 0) = <<>>
    BY DEF Start
  <2>2. s \o <<>> = s
    OBVIOUS
  <2>3. PICK p \in Int : p = SumOf(s) /\ p + 0 = p
    BY <1>1
  <2>4. SumOf(s \o Start(t, 0)) = p /\ SumOf(Start(t, 0)) = 0
    BY <2>1, <2>2, <2>3, SumOfEmpty
  <2>5. SumOf(s \o Start(t, 0)) = SumOf(s) + SumOf(Start(t, 0))
    BY <2>3, <2>4
  <2> QED
    BY <1>1, <2>5
<1>3. ASSUME NEW k \in 0 .. Len(t), k \in T, k < Len(t) PROVE k + 1 \in T
  <2>1. PICK a \in Seq(Int), x \in Int : a = Start(t, k) /\ x = t[k + 1] /\ Start(t, k + 1) = Append(a, x)
    <3>1. Start(t, k) \in Seq(Int) /\ Start(t, k + 1) = Append(Start(t, k), t[k + 1]) /\ t[k + 1] \in Int
      BY <1>3, StartMore
    <3> QED
      BY <3>1
  <2>2. s \o Append(a, x) = Append(s \o a, x) /\ s \o a \in Seq(Int)
    OBVIOUS
  <2>3. SumOf(Append(s \o a, x)) = SumOf(s \o a) + x
    BY <2>2, SumAppend
  <2>4. SumOf(Append(a, x)) = SumOf(a) + x /\ SumOf(a) \in Int
    BY SumAppend, SumIsAmount
  <2>5. SumOf(s \o a) = SumOf(s) + SumOf(a)
    BY <1>3, <2>1
  <2>6. SumOf(s \o Start(t, k + 1)) = SumOf(s) + SumOf(Start(t, k + 1))
    <3>1. PICK p \in Int, q \in Int : p = SumOf(s) /\ q = SumOf(a)
      BY <1>1, <2>4
    <3>2. SumOf(s \o Start(t, k + 1)) = (p + q) + x /\ SumOf(Start(t, k + 1)) = q + x
      BY <2>1, <2>2, <2>3, <2>4, <2>5, <3>1
    <3> QED
      BY <3>1, <3>2
  <2>7. k + 1 \in 0 .. Len(t)
    BY <1>1, <1>3
  <2> QED
    BY <2>6, <2>7
<1>4. \A k \in 0 .. Len(t) : k \in T
  <2> HIDE DEF T
  <2> QED
    BY <1>1, <1>2, <1>3, Upwards
<1>5. Start(t, Len(t)) = t /\ Len(t) \in 0 .. Len(t)
  BY <1>1, StartMore
<1> QED
  BY <1>4, <1>5

-----------------------------------------------------------------------------
(* What Kept keeps. *)

LEMMA SameSeq ==
  ASSUME NEW S, NEW a \in Seq(S), NEW b \in Seq(S), Len(a) = Len(b), \A k \in 1 .. Len(a) : a[k] = b[k]
  PROVE  a = b
  OBVIOUS

Weighed(w, s) == [j \in DOMAIN s |-> w[s[j]]]

LEMMA WeighedType ==
  ASSUME NEW S, NEW w \in [S -> Int], NEW s \in Seq(S)
  PROVE  Weighed(w, s) \in Seq(Int) /\ Len(Weighed(w, s)) = Len(s)
<1>1. PICK n \in Nat : n = Len(s) /\ DOMAIN s = 1 .. n /\ \A k \in 1 .. n : s[k] \in S
  OBVIOUS
<1>2. Weighed(w, s) \in [1 .. n -> Int]
  BY <1>1 DEF Weighed
<1> QED
  BY <1>1, <1>2, ListIsSeq

LEMMA WeighedAppend ==
  ASSUME NEW S, NEW w \in [S -> Int], NEW s \in Seq(S), NEW x \in S
  PROVE  Weighed(w, Append(s, x)) = Append(Weighed(w, s), w[x])
<1>1. PICK t \in Seq(S) : t = Append(s, x)
  <2>1. Append(s, x) \in Seq(S)
    OBVIOUS
  <2> QED
    BY <2>1
<1>2. PICK a \in Seq(Int), b \in Seq(Int), y \in Int : a = Weighed(w, s) /\ b = Weighed(w, t) /\ y = w[x]
  BY WeighedType
<1>3. Len(a) = Len(s) /\ Len(b) = Len(t) /\ Len(t) = Len(s) + 1 /\ Len(s) \in Nat
  <2>1. Len(a) = Len(s) /\ Len(b) = Len(t)
    BY <1>2, WeighedType
  <2>2. Len(t) = Len(s) + 1 /\ Len(s) \in Nat
    BY <1>1
  <2> QED
    BY <2>1, <2>2
<1>4. \A k \in 1 .. Len(s) : t[k] = s[k]
  BY <1>1
<1>5. t[Len(s) + 1] = x
  BY <1>1
<1>6. \A k \in 1 .. Len(t) : b[k] = w[t[k]]
  BY <1>2 DEF Weighed
<1>7. \A k \in 1 .. Len(s) : a[k] = w[s[k]]
  BY <1>2 DEF Weighed
<1>8. \A k \in 1 .. Len(b) : b[k] = Append(a, y)[k]
  BY <1>2, <1>3, <1>4, <1>5, <1>6, <1>7
<1>9. Append(a, y) \in Seq(Int) /\ Len(Append(a, y)) = Len(b)
  BY <1>3
<1>10. b = Append(a, y)
  BY <1>8, <1>9, SameSeq
<1> QED
  BY <1>1, <1>2, <1>10

LEMMA WeighedConcat ==
  ASSUME NEW S, NEW w \in [S -> Int], NEW s \in Seq(S), NEW t \in Seq(S)
  PROVE  Weighed(w, s \o t) = Weighed(w, s) \o Weighed(w, t)
<1>1. PICK r \in Seq(S) : r = s \o t
  <2>1. s \o t \in Seq(S)
    OBVIOUS
  <2> QED
    BY <2>1
<1>2. PICK a \in Seq(Int), b \in Seq(Int), c \in Seq(Int) : a = Weighed(w, s) /\ b = Weighed(w, t) /\ c = Weighed(w, r)
  BY WeighedType
<1>3. Len(a) = Len(s) /\ Len(b) = Len(t) /\ Len(c) = Len(r) /\ Len(r) = Len(s) + Len(t) /\ Len(s) \in Nat /\ Len(t) \in Nat
  <2>1. Len(a) = Len(s) /\ Len(b) = Len(t) /\ Len(c) = Len(r)
    BY <1>2, WeighedType
  <2>2. Len(r) = Len(s) + Len(t) /\ Len(s) \in Nat /\ Len(t) \in Nat
    BY <1>1
  <2> QED
    BY <2>1, <2>2
<1>4. \A k \in 1 .. Len(r) : r[k] = IF k <= Len(s) THEN s[k] ELSE t[k - Len(s)]
  BY <1>1
<1>5. \A k \in 1 .. Len(r) : c[k] = w[r[k]]
  BY <1>2 DEF Weighed
<1>6. (\A k \in 1 .. Len(s) : a[k] = w[s[k]]) /\ (\A k \in 1 .. Len(t) : b[k] = w[t[k]])
  BY <1>2 DEF Weighed
<1>7. PICK d \in Seq(Int) : /\ d = a \o b /\ Len(d) = Len(a) + Len(b)
                           /\ \A k \in 1 .. Len(d) : d[k] = IF k <= Len(a) THEN a[k] ELSE b[k - Len(a)]
  <2>1. a \o b \in Seq(Int) /\ Len(a \o b) = Len(a) + Len(b)
    OBVIOUS
  <2>2. \A k \in 1 .. Len(a) + Len(b) : (a \o b)[k] = IF k <= Len(a) THEN a[k] ELSE b[k - Len(a)]
    OBVIOUS
  <2> QED
    BY <2>1, <2>2
<1>8. ASSUME NEW k \in 1 .. Len(c) PROVE c[k] = d[k]
  <2>1. k \in 1 .. Len(r) /\ k \in 1 .. Len(d) /\ Len(a) = Len(s)
    BY <1>3, <1>7
  <2>2. CASE k <= Len(s)
    <3>1. k \in 1 .. Len(s)
      BY <1>3, <2>1, <2>2
    <3>2. r[k] = s[k] /\ d[k] = a[k]
      BY <1>4, <1>7, <2>1, <2>2
    <3>3. c[k] = w[r[k]] /\ a[k] = w[s[k]]
      BY <1>5, <1>6, <2>1, <3>1
    <3> QED
      BY <3>2, <3>3
  <2>3. CASE ~ (k <= Len(s))
    <3>1. k - Len(s) \in 1 .. Len(t)
      BY <1>3, <2>1, <2>3
    <3>2. r[k] = t[k - Len(s)] /\ d[k] = b[k - Len(s)]
      BY <1>4, <1>7, <2>1, <2>3
    <3>3. c[k] = w[r[k]] /\ b[k - Len(s)] = w[t[k - Len(s)]]
      BY <1>5, <1>6, <2>1, <3>1
    <3> QED
      BY <3>2, <3>3
  <2> QED
    BY <2>2, <2>3
<1>9. Len(c) = Len(d)
  BY <1>3, <1>7
<1>10. c = a \o b
  BY <1>7, <1>8, <1>9, SameSeq
<1> QED
  BY <1>1, <1>2, <1>10

\* What the kept elements weigh together.
LEMMA KeptSum ==
  ASSUME NEW S, NEW s \in Seq(S), NEW P \in SUBSET DOMAIN s, NEW w \in [S -> Int], NEW v,
         \A k \in P : v[k] = w[s[k]]
  PROVE  SumOf(Weighed(w, Kept(s, P))) = SumFunctionOnSet(v, P) /\ IsFiniteSet(P)
<1>1. DOMAIN s = 1 .. Len(s) /\ Len(s) \in Nat /\ \A k \in DOMAIN s : s[k] \in S
  OBVIOUS
<1>2. PICK f : Keeps(f, s, P, S) /\ Kept(s, P) = f[Len(s)]
  BY KeptIs
<1>3. IsFiniteSet(P)
  BY <1>1, UpTo, FS_Subset
<1> DEFINE Up(k) == {j \in P : j <= k}
           T == {k \in 0 .. Len(s) : SumOf(Weighed(w, f[k])) = SumFunctionOnSet(v, Up(k))}
<1>4. \A k : IsFiniteSet(Up(k)) /\ \A j \in Up(k) : v[j] \in Int
  BY <1>1, <1>3, FS_Subset
<1>5. 0 \in T
  <2>1. Up(0) = {}
    BY <1>1
  <2> HIDE DEF Up
  <2>2. f[0] = <<>> /\ SumFunctionOnSet(v, {}) = 0
    BY <1>2, SumOfNone DEF Keeps
  <2>3. Weighed(w, <<>>) = <<>>
    BY DEF Weighed
  <2>4. SumOf(Weighed(w, f[0])) = SumFunctionOnSet(v, Up(0))
    BY <2>1, <2>2, <2>3, SumOfEmpty
  <2> QED
    BY <1>1, <2>4
<1>6. ASSUME NEW k \in 0 .. Len(s), k \in T, k < Len(s) PROVE k + 1 \in T
  <2>1. k + 1 \in 1 .. Len(s) /\ (k + 1) - 1 = k /\ k + 1 \in 0 .. Len(s)
    BY <1>1, <1>6
  <2>2. /\ f[k + 1] = IF k + 1 \in P THEN Append(f[k], s[k + 1]) ELSE f[k]
        /\ f[k] \in Seq(S)
    BY <1>1, <1>2, <2>1 DEF Keeps
  <2>3. CASE k + 1 \in P
    <3>1. Up(k + 1) \ {k + 1} = Up(k) /\ k + 1 \in Up(k + 1)
      BY <1>1, <2>3
    <3> HIDE DEF Up
    <3>2. SumFunctionOnSet(v, Up(k + 1)) = v[k + 1] + SumFunctionOnSet(v, Up(k)) /\ SumFunctionOnSet(v, Up(k)) \in Int
      BY <1>4, <3>1, SumWithout
    <3>3. PICK x \in S, a \in Seq(S) : x = s[k + 1] /\ a = f[k]
      BY <1>1, <2>1, <2>2
    <3>4. PICK n \in Int, m \in Int : n = SumFunctionOnSet(v, Up(k)) /\ m = w[x]
      BY <3>2
    <3>5. SumOf(Weighed(w, a)) = n /\ Weighed(w, a) \in Seq(Int)
      BY <1>6, <3>3, <3>4, WeighedType
    <3>6. Weighed(w, Append(a, x)) = Append(Weighed(w, a), m)
      BY <3>4, WeighedAppend
    <3>7. SumOf(Weighed(w, Append(a, x))) = n + m
      BY <3>5, <3>6, SumAppend
    <3>8. SumFunctionOnSet(v, Up(k + 1)) = m + n
      BY <2>3, <3>2, <3>3, <3>4
    <3>9. SumOf(Weighed(w, f[k + 1])) = SumFunctionOnSet(v, Up(k + 1))
      BY <2>2, <2>3, <3>3, <3>4, <3>7, <3>8
    <3> QED
      BY <2>1, <3>9
  <2>4. CASE k + 1 \notin P
    <3>1. Up(k + 1) = Up(k)
      BY <1>1, <2>4
    <3> HIDE DEF Up
    <3> QED
      BY <1>6, <2>1, <2>2, <2>4, <3>1
  <2> QED
    BY <2>3, <2>4
<1>7. \A k \in 0 .. Len(s) : k \in T
  <2> HIDE DEF T
  <2> QED
    BY <1>1, <1>5, <1>6, Upwards
<1>8. Up(Len(s)) = P
  BY <1>1
<1> HIDE DEF Up
<1>9. SumOf(Weighed(w, f[Len(s)])) = SumFunctionOnSet(v, Up(Len(s)))
  BY <1>1, <1>7
<1> QED
  BY <1>2, <1>3, <1>8, <1>9

\* Two rows of g_fill the unique key tells apart.
Unlike(a, b) == a.order # b.order \/ a.seq # b.seq

Apart(s) == \A j, k \in DOMAIN s : j # k => Unlike(s[j], s[k])

LEMMA KeptApart ==
  ASSUME NEW S, NEW s \in Seq(S), NEW P, Apart(s)
  PROVE  /\ Apart(Kept(s, P))
         /\ \A j \in DOMAIN Kept(s, P) : \E k \in DOMAIN s : k \in P /\ Kept(s, P)[j] = s[k]
         /\ \A k \in DOMAIN s : k \in P => \E j \in DOMAIN Kept(s, P) : Kept(s, P)[j] = s[k]
<1>1. DOMAIN s = 1 .. Len(s) /\ Len(s) \in Nat /\ \A k \in DOMAIN s : s[k] \in S
  OBVIOUS
<1>2. PICK f : Keeps(f, s, P, S) /\ Kept(s, P) = f[Len(s)]
  BY KeptIs
<1> DEFINE From(k) == \A j \in DOMAIN f[k] : \E i \in 1 .. k : i \in P /\ f[k][j] = s[i]
           To(k) == \A i \in 1 .. k : i \in P => \E j \in DOMAIN f[k] : f[k][j] = s[i]
           T == {k \in 0 .. Len(s) : Apart(f[k]) /\ From(k) /\ To(k)}
<1>3. 0 \in T
  <2>1. f[0] = <<>>
    BY <1>2 DEF Keeps
  <2>2. DOMAIN f[0] = {}
    BY <2>1
  <2>3. Apart(f[0]) /\ From(0) /\ To(0)
    BY <2>2 DEF Apart
  <2> QED
    BY <1>1, <2>3
<1>4. ASSUME NEW k \in 0 .. Len(s), k \in T, k < Len(s) PROVE k + 1 \in T
  <2>1. k + 1 \in 1 .. Len(s) /\ (k + 1) - 1 = k /\ k + 1 \in 0 .. Len(s) /\ k \in Nat
    BY <1>1, <1>4
  <2>2. /\ f[k + 1] = IF k + 1 \in P THEN Append(f[k], s[k + 1]) ELSE f[k]
        /\ f[k] \in Seq(S)
    BY <1>1, <1>2, <2>1 DEF Keeps
  <2>3. CASE k + 1 \in P
    <3>1. PICK x \in S, a \in Seq(S), b \in Seq(S) : x = s[k + 1] /\ a = f[k] /\ b = f[k + 1] /\ b = Append(a, x)
      <4>1. s[k + 1] \in S /\ Append(f[k], s[k + 1]) \in Seq(S)
        BY <1>1, <2>1, <2>2
      <4> QED
        BY <2>2, <2>3, <4>1
    <3>2. /\ Len(b) = Len(a) + 1 /\ Len(a) \in Nat /\ b[Len(a) + 1] = x
          /\ DOMAIN a = 1 .. Len(a) /\ DOMAIN b = 1 .. Len(a) + 1
          /\ \A j \in 1 .. Len(a) : b[j] = a[j]
      BY <3>1
    <3>3. \A j \in DOMAIN a : \E i \in 1 .. k : i \in P /\ a[j] = s[i]
      BY <1>4, <3>1
    <3>4. \A j \in DOMAIN a : Unlike(a[j], x) /\ Unlike(x, a[j])
      <4>1. ASSUME NEW j \in DOMAIN a PROVE Unlike(a[j], x) /\ Unlike(x, a[j])
        <5>1. PICK i \in 1 .. k : a[j] = s[i]
          BY <3>3
        <5>2. i # k + 1 /\ i \in DOMAIN s /\ k + 1 \in DOMAIN s
          BY <1>1, <2>1
        <5> QED
          BY <3>1, <5>1, <5>2 DEF Apart
      <4> QED
        BY <4>1
    <3>5. \A i, j \in DOMAIN a : i # j => Unlike(a[i], a[j])
      BY <1>4, <3>1 DEF Apart
    <3>6. Apart(b)
      <4>1. ASSUME NEW i \in DOMAIN b, NEW j \in DOMAIN b, i # j PROVE Unlike(b[i], b[j])
        <5>1. (i \in DOMAIN a /\ b[i] = a[i]) \/ (i = Len(a) + 1 /\ b[i] = x)
          BY <3>2
        <5>2. (j \in DOMAIN a /\ b[j] = a[j]) \/ (j = Len(a) + 1 /\ b[j] = x)
          BY <3>2
        <5> QED
          BY <3>4, <3>5, <4>1, <5>1, <5>2
      <4> QED
        BY <4>1 DEF Apart
    <3>7. From(k + 1)
      <4>1. ASSUME NEW j \in DOMAIN b PROVE \E i \in 1 .. k + 1 : i \in P /\ b[j] = s[i]
        <5>1. CASE j \in DOMAIN a
          <6>1. PICK i \in 1 .. k : i \in P /\ a[j] = s[i]
            BY <3>3, <5>1
          <6>2. i \in 1 .. k + 1 /\ b[j] = a[j]
            BY <2>1, <3>2, <5>1
          <6> QED
            BY <6>1, <6>2
        <5>2. CASE j \notin DOMAIN a
          <6>1. b[j] = x /\ k + 1 \in 1 .. k + 1
            BY <2>1, <3>2, <5>2
          <6> QED
            BY <2>3, <3>1, <6>1
        <5> QED
          BY <5>1, <5>2
      <4> QED
        BY <3>1, <4>1
    <3>8. To(k + 1)
      <4>1. ASSUME NEW i \in 1 .. k + 1, i \in P PROVE \E j \in DOMAIN b : b[j] = s[i]
        <5>1. CASE i = k + 1
          <6>1. Len(a) + 1 \in DOMAIN b
            BY <3>2
          <6> QED
            BY <3>1, <3>2, <5>1, <6>1
        <5>2. CASE i # k + 1
          <6>1. i \in 1 .. k
            BY <2>1, <5>2
          <6>2. PICK j \in DOMAIN a : a[j] = s[i]
            BY <1>4, <3>1, <4>1, <6>1
          <6>3. j \in DOMAIN b /\ b[j] = a[j]
            BY <3>2
          <6> QED
            BY <6>2, <6>3
        <5> QED
          BY <5>1, <5>2
      <4> QED
        BY <3>1, <4>1
    <3> HIDE DEF From, To
    <3> QED
      BY <2>1, <3>1, <3>6, <3>7, <3>8
  <2>4. CASE k + 1 \notin P
    <3>1. f[k + 1] = f[k]
      BY <2>2, <2>4
    <3>2. From(k + 1)
      BY <1>4, <2>1, <3>1
    <3>3. To(k + 1)
      <4>1. ASSUME NEW i \in 1 .. k + 1, i \in P PROVE i \in 1 .. k
        BY <2>1, <2>4, <4>1
      <4> QED
        BY <1>4, <3>1, <4>1
    <3>4. Apart(f[k + 1])
      BY <1>4, <3>1
    <3> HIDE DEF From, To
    <3> QED
      BY <2>1, <3>2, <3>3, <3>4
  <2> QED
    BY <2>3, <2>4
<1>5. \A k \in 0 .. Len(s) : k \in T
  <2> HIDE DEF T
  <2> QED
    BY <1>1, <1>3, <1>4, Upwards
<1>6. Apart(f[Len(s)]) /\ From(Len(s)) /\ To(Len(s))
  <2> HIDE DEF From, To
  <2> QED
    BY <1>1, <1>5
<1> QED
  BY <1>1, <1>2, <1>6

-----------------------------------------------------------------------------
(* What the log charges an order with. *)

\* All logs so far.
Story == logTopic \o out

\* In quote currency for a buy, in base currency for a sell.
CostOf(o) ==
  [log \in Log |-> IF log.type # "match" \/ o.id \notin {log.order, log.maker} THEN 0
                   ELSE IF o.side = "buy" THEN log.size * log.price ELSE log.size]

Charge(o, story) == SumOf(Weighed(CostOf(o), story))

Charged(i) == Charge(Order(i), Story)

Message(i) == [id |-> i, cancel |-> FALSE]

\* The engine has not seen the order, but may.
Fresh(i) == rows[i].status = "none" \/ i \in unsent \/ Message(i) \in topic

\* x is what is left of order i.
Remains(i, x) ==
  /\ x.side = Order(i).side /\ x.type = Order(i).type
  /\ x.type = "limit" => x.price = Order(i).price
  /\ Charged(i) + Claim(x) <= Claim(Order(i))

Account(i) ==
  /\ Fresh(i) => OnBook(i) = {} /\ taker.id # i /\ Charged(i) = 0
  /\ \A x \in OnBook(i) : OnBook(i) = {x} /\ Remains(i, x)
  /\ taker.id = i => OnBook(i) = {} /\ Remains(i, taker)
  /\ Charged(i) <= Claim(Order(i))

\* A request is on its way once.
Request(i) ==
  /\ i \in checked => rows[i].status = "none"
  /\ i \in unsent => rows[i].status # "none" /\ Message(i) \notin topic
  /\ Message(i) \in topic => rows[i].status # "none"
  /\ rows[i].status = "none" => rows[i].filled = 0 /\ rows[i].executed = 0

\* The logs are numbered from 1, and nobody trades with himself.
Numbered(story) ==
  \A n \in DOMAIN story : story[n].seq = n /\ (story[n].type = "match" => story[n].order # story[n].maker)

StoryInv == Len(Story) = logSeq /\ Numbered(Story)

AccountInv == BaseInv /\ StoryInv /\ \A i \in OrderIds : Account(i) /\ Request(i)

LEMMA CostType ==
  ASSUME NEW o
  PROVE  CostOf(o) \in [Log -> Nat] /\ CostOf(o) \in [Log -> Int]
<1>1. \A log \in Log : log.size \in Nat /\ log.price \in Nat
  BY DEF Log
<1>2. \A log \in Log : log.size * log.price \in Nat
  BY <1>1
<1>3. CostOf(o) \in [Log -> Nat]
  BY <1>1, <1>2 DEF CostOf
<1> QED
  BY <1>3

LEMMA ChargeType ==
  ASSUME NEW o, NEW story \in Seq(Log)
  PROVE  Charge(o, story) \in Nat
<1>1. PICK w \in [Log -> Nat] : w = CostOf(o)
  BY CostType
<1>2. Weighed(w, story) \in [1 .. Len(story) -> Nat] /\ Len(story) \in Nat
  BY DEF Weighed
<1>3. PICK s : s = Weighed(w, story)
  OBVIOUS
<1>4. s \in Seq(Nat)
  BY <1>2, <1>3, ListIsSeq
<1>5. SumOf(s) \in Nat
  BY <1>4, SumOfNats
<1> QED
  BY <1>1, <1>3, <1>5 DEF Charge

LEMMA ChargeAppend ==
  ASSUME NEW o, NEW story \in Seq(Log), NEW log \in Log
  PROVE  /\ Charge(o, Append(story, log)) = Charge(o, story) + CostOf(o)[log]
         /\ CostOf(o)[log] \in Nat
<1>1. PICK w \in [Log -> Int] : w = CostOf(o)
  BY CostType
<1>2. Weighed(w, Append(story, log)) = Append(Weighed(w, story), w[log])
  BY WeighedAppend
<1>3. PICK s \in Seq(Int), x \in Int : s = Weighed(w, story) /\ x = w[log]
  BY WeighedType
<1>4. SumOf(Append(s, x)) = SumOf(s) + x
  BY SumAppend
<1>5. CostOf(o)[log] \in Nat
  BY CostType
<1> QED
  BY <1>1, <1>2, <1>3, <1>4, <1>5 DEF Charge

\* A log that is no match of the order.
LEMMA ChargeOther ==
  ASSUME NEW o, NEW story \in Seq(Log), NEW log \in Log, log.type # "match" \/ o.id \notin {log.order, log.maker}
  PROVE  Charge(o, Append(story, log)) = Charge(o, story)
<1>1. CostOf(o)[log] = 0
  BY DEF CostOf
<1>2. PICK c \in Nat : c = Charge(o, story)
  BY ChargeType
<1>3. c + 0 = c
  OBVIOUS
<1> QED
  BY <1>1, <1>2, <1>3, ChargeAppend

LEMMA ChargeMatch ==
  ASSUME NEW o, NEW story \in Seq(Log), NEW log \in Log, log.type = "match", o.id \in {log.order, log.maker}
  PROVE  Charge(o, Append(story, log)) = Charge(o, story) + (IF o.side = "buy" THEN log.size * log.price ELSE log.size)
<1>1. CostOf(o)[log] = IF o.side = "buy" THEN log.size * log.price ELSE log.size
  BY DEF CostOf
<1> QED
  BY <1>1, ChargeAppend

\* The facts the steps start from.
LEMMA Facts ==
  ASSUME AccountInv
  PROVE  /\ BaseInv /\ BookInv /\ plan \in Plans /\ StoryInv
         /\ out \in Seq(Log) /\ logTopic \in Seq(Log) /\ Story \in Seq(Log)
         /\ depths \in [Sides -> SUBSET BookOrder] /\ logSeq \in Nat /\ tradeSeq \in Nat
         /\ topic \subseteq [id : OrderIds, cancel : BOOLEAN]
         /\ \A i \in OrderIds : /\ Account(i) /\ Request(i)
                                /\ Order(i) \in Orders /\ Order(i) \in BookOrder /\ Order(i).id = i
<1>1. /\ BaseInv /\ BookInv /\ plan \in Plans /\ StoryInv /\ out \in Seq(Log) /\ logTopic \in Seq(Log)
      /\ depths \in [Sides -> SUBSET BookOrder] /\ logSeq \in Nat /\ tradeSeq \in Nat
      /\ topic \subseteq [id : OrderIds, cancel : BOOLEAN]
  BY DEF AccountInv, BaseInv, PipeInv, BookInv, BookTypeOK
<1>2. Story \in Seq(Log)
  BY <1>1 DEF Story
<1>3. ASSUME NEW i \in OrderIds
      PROVE  Order(i) \in Orders /\ Order(i) \in BookOrder /\ Order(i).id = i
  <2>1. Order(i) \in Orders /\ plan[i].order.id = i
    BY <1>1, PlanType, SettlementAssumption
  <2> QED
    BY <2>1, OrdersType DEF Order
<1> QED
  BY <1>1, <1>2, <1>3 DEF AccountInv

\* Nothing happens to an order.
LEMMA SameAccount ==
  ASSUME NEW i \in OrderIds, Account(i), UNCHANGED plan,
         OnBook(i)' = OnBook(i), taker'.id = i <=> taker.id = i, taker.id = i => taker' = taker,
         Charged(i)' = Charged(i), Fresh(i)' => Fresh(i)
  PROVE  Account(i)'
<1>1. Order(i)' = Order(i)
  BY DEF Order
<1>2. PICK o : o = Order(i)
  OBVIOUS
<1>3. PICK c : c = Charged(i)
  OBVIOUS
<1>4. ASSUME NEW x, Remains(i, x) PROVE Remains(i, x)'
  <2>1. (Charged(i) + Claim(x) <= Claim(Order(i)))'
    BY <1>1, <1>4 DEF Remains, Claim
  <2> QED
    BY <1>1, <1>4, <2>1 DEF Remains
<1>6. \A x \in OnBook(i)' : OnBook(i)' = {x} /\ Remains(i, x)'
  BY <1>4 DEF Account
<1>7. taker'.id = i => OnBook(i)' = {} /\ Remains(i, taker)'
  BY <1>1, <1>2, <1>3 DEF Account, Remains, Claim
<1>8. Charged(i)' <= Claim(Order(i))'
  BY <1>1 DEF Account, Claim
<1>9. Fresh(i)' => (OnBook(i)' = {} /\ taker'.id # i /\ Charged(i)' = 0)
  BY DEF Account
<1> QED
  BY <1>6, <1>7, <1>8, <1>9 DEF Account

-----------------------------------------------------------------------------
(* Requests. *)

LEMMA RequestStep ==
  ASSUME AccountInv, Next, NEW i \in OrderIds
  PROVE  Request(i)' /\ (Fresh(i)' => Fresh(i))
<1>1. /\ Request(i) /\ checked \subseteq OrderIds /\ rows \in [OrderIds -> Row] /\ logTopic \in Seq(Log)
      /\ readPos \in Nat /\ fills \in Seq(FillRow)
  BY DEF AccountInv, BaseInv, PipeInv, TableInv
<1>2. CASE UNCHANGED <<rows, checked, unsent>> /\ (Message(i) \in topic' <=> Message(i) \in topic)
  BY <1>1, <1>2 DEF Request, Fresh
<1>3. ASSUME NEW j \in OrderIds, CheckBalance(j) PROVE Request(i)' /\ (Fresh(i)' => Fresh(i))
  <2>1. rows[j].status = "none" /\ checked' = checked \cup {j} /\ UNCHANGED <<rows, unsent, topic>>
    BY <1>3 DEF CheckBalance, PassCheck, dbVars
  <2> QED
    BY <1>1, <2>1 DEF Request, Fresh
<1>4. ASSUME NEW j \in OrderIds, PlaceOrder(j) PROVE Request(i)' /\ (Fresh(i)' => Fresh(i))
  <2>1. /\ j \in checked /\ checked' = checked \ {j} /\ unsent' = unsent \cup {j} /\ UNCHANGED topic
        /\ rows' = [rows EXCEPT ![j].status = "new"]
    BY <1>4 DEF PlaceOrder
  <2>2. CASE i = j
    <3>1. rows'[i].status = "new"
      BY <1>1, <2>1, <2>2 DEF Row
    <3>2. rows[i].status = "none"
      BY <1>1, <2>1, <2>2 DEF Request
    <3> QED
      BY <1>1, <2>1, <2>2, <3>1, <3>2 DEF Request, Fresh
  <2>3. CASE i # j
    <3>1. rows'[i] = rows[i]
      BY <1>1, <2>1, <2>3
    <3> QED
      BY <1>1, <2>1, <2>3, <3>1 DEF Request, Fresh
  <2> QED
    BY <2>2, <2>3
<1>5. ASSUME NEW j \in OrderIds, SubmitOrder(j) PROVE Request(i)' /\ (Fresh(i)' => Fresh(i))
  <2>1. /\ j \in unsent /\ unsent' = unsent \ {j} /\ UNCHANGED <<rows, checked>>
        /\ topic' = topic \cup {Message(j)} \/ topic' = topic
    BY <1>5 DEF SubmitOrder, Message, dbVars
  <2>2. Message(i) = Message(j) => i = j
    BY DEF Message
  <2> QED
    BY <1>1, <2>1, <2>2 DEF Request, Fresh
<1>6. ASSUME NEW j \in OrderIds, RequestCancel(j) PROVE Request(i)' /\ (Fresh(i)' => Fresh(i))
  <2>1. topic' = topic \cup {[id |-> j, cancel |-> TRUE]} /\ UNCHANGED <<rows, checked, unsent>>
    BY <1>6 DEF RequestCancel, dbVars
  <2>2. Message(i) # [id |-> j, cancel |-> TRUE]
    BY DEF Message
  <2> QED
    BY <1>2, <2>1, <2>2
<1>7. ASSUME NEW m \in topic, Engine(m) PROVE Request(i)' /\ (Fresh(i)' => Fresh(i))
  <2>1. topic' = topic \ {m} /\ UNCHANGED <<rows, checked, unsent>>
    BY <1>7 DEF Engine, dbVars
  <2> QED
    BY <1>1, <2>1 DEF Request, Fresh
<1>8. CASE EngineMatch \/ EngineLogs \/ SendFill \/ FlushFill
  <2>1. UNCHANGED <<rows, checked, unsent, topic>>
    BY <1>8 DEF EngineMatch, EngineLogs, SendFill, FlushFill, dbVars, restVars
  <2> QED
    BY <1>2, <2>1
<1>9. CASE ReadLog
  <2>1. UNCHANGED <<checked, unsent, topic>>
    BY <1>9 DEF ReadLog, restVars
  <2>2. PICK log \in Log : log = logTopic[readPos + 1]
    BY <1>1, <1>9 DEF ReadLog
  <2>3. rows' = rows \/ (rows' = [rows EXCEPT ![log.order].status = "open"] /\ rows[log.order].status = "new")
    BY <1>9, <2>2 DEF ReadLog
  <2>4. \/ rows'[i] = rows[i]
        \/ rows[i].status = "new" /\ rows'[i].status = "open"
    <3>1. CASE rows' = rows
      BY <3>1
    <3>2. CASE rows' = [rows EXCEPT ![log.order].status = "open"] /\ rows[log.order].status = "new"
      <4>1. CASE log.order = i
        BY <1>1, <3>2, <4>1 DEF Row
      <4>2. CASE log.order # i
        BY <1>1, <3>2, <4>2
      <4> QED
        BY <4>1, <4>2
    <3> QED
      BY <2>3, <3>1, <3>2
  <2> QED
    BY <1>1, <2>1, <2>4 DEF Request, Fresh
<1>10. ASSUME NEW j \in OrderIds, ExecuteFill(j) PROVE Request(i)' /\ (Fresh(i)' => Fresh(i))
  <2>1. UNCHANGED <<checked, unsent, topic>> /\ rows[j].status \in {"new", "open"}
    BY <1>10 DEF ExecuteFill, restVars, Live
  <2>2. PICK row : rows' = [rows EXCEPT ![j] = row] /\ row.status # "none"
    <3>1. PICK p, ends : p = Processed(Fetched(j)) /\ ends = {k \in p : fills[k].done}
      OBVIOUS
    <3>2. PICK st : st = IF ends = {} THEN rows[j].status ELSE fills[CHOOSE k \in ends : TRUE].reason
      OBVIOUS
    <3>3. st # "none"
      <4>1. p \subseteq DOMAIN fills
        BY <3>1 DEF Processed, Fetched, FirstOf
      <4>2. ends # {} => (CHOOSE k \in ends : TRUE) \in DOMAIN fills
        BY <3>1, <4>1
      <4>3. \A k \in DOMAIN fills : fills[k].reason \in {"", "filled", "cancelled"}
        <5>1. \A k \in DOMAIN fills : fills[k] \in FillRow
          BY <1>1
        <5> QED
          BY <5>1 DEF FillRow
      <4>4. ends # {} => fills[CHOOSE k \in ends : TRUE].reason \in {"", "filled", "cancelled"}
        BY <4>2, <4>3
      <4> QED
        BY <2>1, <3>2, <4>4
    <3>4. PICK row : /\ row = [status |-> st,
                               filled |-> rows[j].filled + SumAt(p \ ends, Size),
                               executed |-> rows[j].executed + SumAt(p \ ends, Value)]
                     /\ rows' = [rows EXCEPT ![j] = row]
      BY <1>10, <3>1, <3>2 DEF ExecuteFill
    <3>5. row.status = st
      BY <3>4
    <3> QED
      BY <3>3, <3>4, <3>5
  <2>3. rows'[i] = IF i = j THEN row ELSE rows[i]
    BY <1>1, <2>2
  <2> QED
    BY <1>1, <2>1, <2>2, <2>3 DEF Request, Fresh
<1>11. ASSUME NEW u \in Users, NEW c \in Currencies, ExecuteBill(u, c) PROVE Request(i)' /\ (Fresh(i)' => Fresh(i))
  <2>1. UNCHANGED <<rows, checked, unsent, topic>>
    BY <1>11 DEF ExecuteBill, restVars
  <2> QED
    BY <1>2, <2>1
<1>12. CASE Crash
  <2>1. checked' = {} /\ unsent' = {} /\ UNCHANGED <<rows, topic>>
    BY <1>12 DEF Crash, dbVars
  <2> QED
    BY <1>1, <2>1 DEF Request, Fresh
<1> QED
  BY <1>3, <1>4, <1>5, <1>6, <1>7, <1>8, <1>9, <1>10, <1>11, <1>12 DEF Next, Settle

-----------------------------------------------------------------------------
(* The log grows. *)

LEMMA NumberedMore ==
  ASSUME NEW story \in Seq(Log), Numbered(story), NEW log \in Log, log.seq = Len(story) + 1,
         log.type = "match" => log.order # log.maker
  PROVE  /\ Numbered(Append(story, log)) /\ Len(Append(story, log)) = Len(story) + 1
         /\ Append(story, log) \in Seq(Log)
<1>1. PICK more \in Seq(Log) : more = Append(story, log)
  <2>1. Append(story, log) \in Seq(Log)
    OBVIOUS
  <2> QED
    BY <2>1
<1>2. /\ Len(more) = Len(story) + 1 /\ Len(story) \in Nat /\ DOMAIN more = 1 .. Len(story) + 1
      /\ DOMAIN story = 1 .. Len(story)
      /\ more[Len(story) + 1] = log /\ \A n \in 1 .. Len(story) : more[n] = story[n]
  BY <1>1
<1>3. \A n \in DOMAIN more : more[n].seq = n /\ (more[n].type = "match" => more[n].order # more[n].maker)
  <2>1. ASSUME NEW n \in DOMAIN more, n # Len(story) + 1
        PROVE  n \in DOMAIN story /\ more[n] = story[n]
    BY <1>2, <2>1
  <2> QED
    BY <1>2, <2>1 DEF Numbered
<1> QED
  BY <1>1, <1>2, <1>3 DEF Numbered

\* A log at the end of what waits is at the end of all logs.
LEMMA StoryMore ==
  ASSUME NEW a \in Seq(Log), NEW b \in Seq(Log), NEW log \in Log
  PROVE  a \o Append(b, log) = Append(a \o b, log)
  OBVIOUS

\* The step of an action that adds at most one log, not a match.
LEMMA StoryOne ==
  ASSUME AccountInv, UNCHANGED logTopic, NEW log \in Log, log.type # "match", log.seq = logSeq + 1,
         out' = Append(out, log), logSeq' = logSeq + 1
  PROVE  Story' = Append(Story, log) /\ StoryInv'
<1>1. out \in Seq(Log) /\ logTopic \in Seq(Log) /\ Story \in Seq(Log) /\ StoryInv /\ logSeq \in Nat
  BY Facts
<1>2. Story' = Append(Story, log)
  BY <1>1, StoryMore DEF Story
<1>3. Numbered(Append(Story, log)) /\ Len(Append(Story, log)) = Len(Story) + 1
  BY <1>1, NumberedMore DEF StoryInv
<1> QED
  BY <1>1, <1>2, <1>3 DEF StoryInv, Numbered

\* What the log says next of an order.
LEMMA ChargedNow ==
  ASSUME NEW i, UNCHANGED plan, NEW story, Story' = story
  PROVE  Charged(i)' = Charge(Order(i), story)
  BY DEF Charged, Charge, Order, Weighed, CostOf, SumOf

-----------------------------------------------------------------------------
(* The account of an order with the engine. *)

\* The book and all logs stay as they are.
LEMMA QuietAccount ==
  ASSUME AccountInv, Next, UNCHANGED <<depths, taker, logSeq, plan>>, Story' = Story
  PROVE  StoryInv' /\ \A i \in OrderIds : Account(i)'
<1>1. Story \in Seq(Log) /\ StoryInv /\ \A i \in OrderIds : Account(i)
  BY Facts
<1>2. StoryInv'
  BY <1>1 DEF StoryInv, Numbered
<1>3. ASSUME NEW i \in OrderIds PROVE Account(i)'
  <2>1. Charged(i)' = Charged(i)
    BY ChargedNow DEF Charged
  <2>2. OnBook(i)' = OnBook(i)
    BY DEF OnBook
  <2>3. Fresh(i)' => Fresh(i)
    BY RequestStep
  <2> QED
    BY <1>1, <2>1, <2>2, <2>3, SameAccount
<1> QED
  BY <1>2, <1>3

\* A log that is no match.
LEMMA OneLog ==
  ASSUME AccountInv, UNCHANGED <<plan, logTopic>>, NEW log \in Log, log.type # "match", log.seq = logSeq + 1,
         out' = Append(out, log), logSeq' = logSeq + 1
  PROVE  StoryInv' /\ \A i \in OrderIds : Charged(i)' = Charged(i)
<1>1. Story' = Append(Story, log) /\ StoryInv'
  BY StoryOne
<1>2. ASSUME NEW i \in OrderIds PROVE Charged(i)' = Charged(i)
  <2>1. PICK story : story = Append(Story, log)
    OBVIOUS
  <2>2. Charged(i)' = Charge(Order(i), story)
    BY <1>1, <2>1, ChargedNow
  <2>3. Charge(Order(i), Append(Story, log)) = Charge(Order(i), Story)
    BY Facts, ChargeOther
  <2> QED
    BY <2>1, <2>2, <2>3 DEF Charged
<1> QED
  BY <1>1, <1>2

\* An order that the engine has done with.
LEMMA GoneAccount ==
  ASSUME NEW i \in OrderIds, UNCHANGED plan, OnBook(i)' = {}, taker'.id # i, ~ Fresh(i)',
         Charged(i)' <= Claim(Order(i))
  PROVE  Account(i)'
<1>1. Claim(Order(i))' = Claim(Order(i))
  BY DEF Claim, Order
<1> QED
  BY <1>1 DEF Account

\* An order that rests on the book.
LEMMA RestAccount ==
  ASSUME NEW i \in OrderIds, UNCHANGED plan, NEW x, OnBook(i)' = {x}, taker'.id # i, ~ Fresh(i)',
         x.side = Order(i).side, x.type = Order(i).type, x.type = "limit" => x.price = Order(i).price,
         Claim(x) \in Nat, Charged(i)' \in Nat, Claim(Order(i)) \in Nat,
         Charged(i)' + Claim(x) <= Claim(Order(i))
  PROVE  Account(i)'
<1>1. Claim(Order(i))' = Claim(Order(i)) /\ Order(i)' = Order(i)
  BY DEF Claim, Order
<1>2. Remains(i, x)'
  BY <1>1 DEF Remains, Claim
<1>3. Charged(i)' <= Claim(Order(i))'
  BY <1>1
<1> QED
  BY <1>2, <1>3 DEF Account

\* An order that is being matched.
LEMMA TakerAccount ==
  ASSUME NEW i \in OrderIds, UNCHANGED plan, NEW t, taker' = t, t.id = i, OnBook(i)' = {}, ~ Fresh(i)',
         t.side = Order(i).side, t.type = Order(i).type, t.type = "limit" => t.price = Order(i).price,
         Claim(t) \in Nat, Charged(i)' \in Nat, Claim(Order(i)) \in Nat,
         Charged(i)' + Claim(t) <= Claim(Order(i))
  PROVE  Account(i)'
<1>1. Claim(Order(i))' = Claim(Order(i)) /\ Order(i)' = Order(i) /\ Claim(taker)' = Claim(t)
  BY DEF Claim, Order
<1>2. Remains(i, taker)'
  BY <1>1 DEF Remains
<1>3. Charged(i)' <= Claim(Order(i))'
  BY <1>1
<1> QED
  BY <1>2, <1>3 DEF Account

LEMMA ChargedType ==
  ASSUME AccountInv, NEW i \in OrderIds
  PROVE  Charged(i) \in Nat /\ Claim(Order(i)) \in Nat
  BY Facts, ChargeType, ClaimType DEF Charged

LEMMA ReceiveAccount ==
  ASSUME AccountInv, Next, NEW m \in topic, Engine(m), ~ m.cancel
  PROVE  StoryInv' /\ \A i \in OrderIds : Account(i)'
<1>1. /\ topic \subseteq [id : OrderIds, cancel : BOOLEAN] /\ Story \in Seq(Log) /\ StoryInv
      /\ \A i \in OrderIds : Account(i) /\ Request(i) /\ Order(i) \in Orders /\ Order(i) \in BookOrder /\ Order(i).id = i
  BY Facts
<1>2. PICK i \in OrderIds : i = m.id /\ m = Message(i)
  BY <1>1 DEF Message
<1>3. Receive(Order(i)) /\ topic' = topic \ {m} /\ UNCHANGED <<plan, logTopic, rows, unsent>>
  BY <1>2 DEF Engine, dbVars
<1>4. taker = NoTaker /\ UNCHANGED <<depths, logSeq, out>>
  BY <1>3 DEF Receive, Idle, bookVars
<1>5. Story' = Story
  BY <1>3, <1>4 DEF Story
<1>6. CASE Rejected(Order(i).id)
  <2>1. UNCHANGED taker
    BY <1>3, <1>6 DEF Receive, bookVars
  <2> QED
    BY <1>3, <1>4, <1>5, <2>1, QuietAccount
<1>7. CASE ~ Rejected(Order(i).id)
  <2>1. taker' = TakerOf(Order(i))
    BY <1>3, <1>7 DEF Receive
  <2>2. PICK t : t = TakerOf(Order(i))
    OBVIOUS
  <2>3. t.id = i /\ Claim(t) = Claim(Order(i))
    BY <1>1, <2>2, TakerClaim
  <2>4. \A j \in OrderIds : OnBook(j)' = OnBook(j) /\ taker.id # j
    BY <1>4, BookAssumption DEF OnBook, NoTaker
  <2>5. ASSUME NEW j \in OrderIds PROVE Charged(j)' = Charged(j)
    BY <1>3, <1>5, ChargedNow DEF Charged
  <2>6. ASSUME NEW j \in OrderIds, j # i PROVE Account(j)'
    <3>1. Fresh(j)' => Fresh(j)
      BY RequestStep
    <3> QED
      BY <1>1, <1>3, <2>1, <2>2, <2>3, <2>4, <2>5, <2>6, <3>1, SameAccount
  <2>7. Account(i)'
    <3>1. Fresh(i)
      BY <1>2 DEF Fresh
    <3>2. OnBook(i)' = {} /\ Charged(i)' = 0
      BY <1>1, <2>4, <2>5, <3>1 DEF Account
    <3>3. ~ Fresh(i)'
      <4>1. rows[i].status # "none" /\ i \notin unsent
        BY <1>1, <1>2 DEF Request
      <4> QED
        BY <1>2, <1>3, <4>1 DEF Fresh
    <3>4. t.side = Order(i).side /\ t.type = Order(i).type /\ (t.type = "limit" => t.price = Order(i).price)
      BY <1>1, <2>2 DEF TakerOf, BookOrder
    <3>5. PICK c \in Nat : c = Claim(Order(i)) /\ 0 + c <= c
      BY ChargedType
    <3> QED
      BY <1>3, <2>1, <2>2, <2>3, <3>2, <3>3, <3>4, <3>5, TakerAccount
  <2>8. StoryInv'
    BY <1>1, <1>4, <1>5 DEF StoryInv, Numbered
  <2> QED
    BY <2>6, <2>7, <2>8
<1> QED
  BY <1>6, <1>7

LEMMA CancelAccount ==
  ASSUME AccountInv, Next, NEW m \in topic, Engine(m), m.cancel
  PROVE  StoryInv' /\ \A i \in OrderIds : Account(i)'
<1>1. /\ BookInv /\ topic \subseteq [id : OrderIds, cancel : BOOLEAN] /\ out \in Seq(Log) /\ logSeq \in Nat
      /\ depths \in [Sides -> SUBSET BookOrder]
      /\ \A i \in OrderIds : Account(i) /\ Request(i) /\ Order(i) \in BookOrder /\ Order(i).id = i
  BY Facts
<1>2. PICK i \in OrderIds : i = m.id
  BY <1>1
<1>3. CancelOrder(Order(i)) /\ UNCHANGED <<plan, logTopic>>
  BY <1>2 DEF Engine
<1>4. taker' = taker /\ taker = NoTaker /\ out = <<>>
  BY <1>3 DEF CancelOrder, Idle
<1>5. \A j \in OrderIds : taker.id # j /\ (Fresh(j)' => Fresh(j))
  BY <1>4, BookAssumption, RequestStep DEF NoTaker
<1>6. CASE UNCHANGED <<depths, logSeq, out>>
  <2>1. Story' = Story
    BY <1>3, <1>6 DEF Story
  <2> QED
    BY <1>3, <1>4, <1>6, <2>1, QuietAccount
<1>7. ASSUME NEW x \in depths[Order(i).side], x.id = i,
             depths' = [depths EXCEPT ![Order(i).side] = Decreased(@, x, x.size)],
             logSeq' = logSeq + 1, out' = <<DoneLog(logSeq + 1, x, x.size, "cancelled")>>
      PROVE  StoryInv' /\ \A j \in OrderIds : Account(j)'
  <2>1. PICK s \in Sides : s = Order(i).side
    BY <1>1 DEF BookOrder
  <2>2. x \in BookOrder /\ x \in OnBook(i) /\ x.size \in Nat
    <3>1. x \in BookOrder
      BY <1>1, <1>7, <2>1
    <3> QED
      BY <1>7, <2>1, <3>1 DEF OnBook, Sides, BookOrder
  <2>3. OnBook(i) = {x} /\ ~ Fresh(i) /\ Charged(i) <= Claim(Order(i))
    BY <1>1, <2>2 DEF Account
  <2>4. (\A j : j # i => OnBook(j)' = OnBook(j)) /\ OnBook(i)' = {}
    <3>1. depths' = [depths EXCEPT ![s] = Decreased(@, x, x.size)]
      BY <1>7, <2>1
    <3>2. x \in depths[s] /\ x.size <= x.size /\ \A y \in OnBook(x.id) : y = x
      BY <1>7, <2>1, <2>2, <2>3
    <3>3. /\ \A j : j # x.id => OnBook(j)' = OnBook(j)
          /\ OnBook(x.id)' = IF x.size = x.size THEN {} ELSE {[x EXCEPT !.size = @ - x.size]}
      BY <1>1, <2>2, <3>1, <3>2, OnBookAfter
    <3> QED
      BY <1>7, <3>3
  <2>5. PICK log \in Log : log = DoneLog(logSeq + 1, x, x.size, "cancelled")
    <3>1. logSeq + 1 \in Nat
      BY <1>1
    <3>2. DoneLog(logSeq + 1, x, x.size, "cancelled") \in Log
      BY <2>2, <3>1, LogTypes
    <3> QED
      BY <3>2
  <2>6. out' = Append(out, log) /\ log.type = "done" /\ log.seq = logSeq + 1
    BY <1>4, <1>7, <2>5 DEF DoneLog
  <2>7. StoryInv' /\ \A j \in OrderIds : Charged(j)' = Charged(j)
    BY <1>3, <1>7, <2>6, OneLog
  <2>8. ASSUME NEW j \in OrderIds, j # i PROVE Account(j)'
    BY <1>1, <1>3, <1>4, <1>5, <2>4, <2>7, <2>8, SameAccount
  <2>9. Account(i)'
    BY <1>3, <1>4, <1>5, <2>3, <2>4, <2>7, GoneAccount
  <2> QED
    BY <2>7, <2>8, <2>9
<1> QED
  BY <1>1, <1>3, <1>6, <1>7 DEF CancelOrder

LEMMA FinishAccount ==
  ASSUME AccountInv, Next, FinishTaker, UNCHANGED <<plan, logTopic>>
  PROVE  StoryInv' /\ \A i \in OrderIds : Account(i)'
<1>1. /\ BookInv /\ out \in Seq(Log) /\ logSeq \in Nat /\ depths \in [Sides -> SUBSET BookOrder]
      /\ \A j \in OrderIds : Account(j) /\ Order(j) \in BookOrder
  BY Facts
<1>2. taker # NoTaker /\ taker' = NoTaker /\ logSeq' = logSeq + 1 /\ logSeq + 1 \in Nat
  BY <1>1 DEF FinishTaker
<1>3. taker \in BookOrder /\ taker.id \in OrderIds
  BY <1>1, <1>2 DEF BookInv, BookTypeOK, BookOrder
<1>4. PICK i \in OrderIds, t \in BookOrder : i = taker.id /\ t = taker
  BY <1>3
<1>5. OnBook(i) = {} /\ Remains(i, t) /\ ~ Fresh(i) /\ Charged(i) <= Claim(Order(i))
  BY <1>1, <1>4 DEF Account
<1>6. \A j \in OrderIds : (Fresh(j)' => Fresh(j)) /\ taker'.id # j
  BY <1>2, BookAssumption, RequestStep DEF NoTaker
<1>7. ASSUME NEW log \in Log, out' = Append(out, log), log.type # "match", log.seq = logSeq + 1,
             \A j : j # i => OnBook(j)' = OnBook(j), OnBook(i)' = {} \/ OnBook(i)' = {t}
      PROVE  StoryInv' /\ \A j \in OrderIds : Account(j)'
  <2>1. StoryInv' /\ \A j \in OrderIds : Charged(j)' = Charged(j)
    BY <1>2, <1>7, OneLog
  <2>2. ASSUME NEW j \in OrderIds, j # i PROVE Account(j)'
    BY <1>1, <1>4, <1>6, <1>7, <2>1, <2>2, SameAccount
  <2>3. Account(i)'
    <3>1. CASE OnBook(i)' = {}
      BY <1>5, <1>6, <2>1, <3>1, GoneAccount
    <3>2. CASE OnBook(i)' = {t}
      <4>1. Claim(t) \in Nat /\ Charged(i)' \in Nat /\ Claim(Order(i)) \in Nat
        BY <2>1, ChargedType, ClaimType
      <4>2. /\ t.side = Order(i).side /\ t.type = Order(i).type /\ (t.type = "limit" => t.price = Order(i).price)
            /\ Charged(i)' + Claim(t) <= Claim(Order(i))
        BY <1>5, <2>1 DEF Remains
      <4> QED
        BY <1>5, <1>6, <3>2, <4>1, <4>2, RestAccount
    <3> QED
      BY <1>7, <3>1, <3>2
  <2> QED
    BY <2>1, <2>2, <2>3
<1>8. UNCHANGED depths => (\A j : OnBook(j)' = OnBook(j))
  BY DEF OnBook
<1>9. CASE /\ taker.type = "limit" /\ taker.size > 0
           /\ depths' = [depths EXCEPT ![taker.side] = Added(@, taker)]
           /\ out' = Append(out, OpenLog(logSeq + 1, taker))
  <2>1. PICK log \in Log : log = OpenLog(logSeq + 1, taker)
    BY <1>2, <1>3, LogTypes
  <2>2. log.type = "open" /\ log.seq = logSeq + 1
    BY <2>1 DEF OpenLog
  <2>3. (\A j : j # t.id => OnBook(j)' = OnBook(j)) /\ OnBook(t.id)' = {t}
    <3>1. depths' = [depths EXCEPT ![t.side] = Added(@, t)] /\ OnBook(t.id) = {}
      BY <1>4, <1>5, <1>9
    <3> QED
      BY <1>1, <3>1, OnBookMore
  <2> QED
    BY <1>4, <1>7, <1>9, <2>1, <2>2, <2>3
<1>10. CASE /\ taker.type = "limit" /\ taker.size = 0
            /\ out' = Append(out, DoneLog(logSeq + 1, taker, 0, "filled"))
            /\ UNCHANGED depths
  <2>1. PICK log \in Log : log = DoneLog(logSeq + 1, taker, 0, "filled")
    BY <1>2, <1>3, LogTypes
  <2>2. log.type = "done" /\ log.seq = logSeq + 1
    BY <2>1 DEF DoneLog
  <2> QED
    BY <1>5, <1>7, <1>8, <1>10, <2>1, <2>2
<1>11. CASE /\ taker.type = "market" /\ UNCHANGED depths
            /\ out' = Append(out,
                 DoneLog(logSeq + 1, [taker EXCEPT !.price = 0], 0,
                         IF (IF taker.side = "buy" THEN taker.funds
                                                   ELSE taker.size) > 0
                         THEN "cancelled" ELSE "filled"))
  <2>1. PICK n \in BookOrder : n = [taker EXCEPT !.price = 0]
    <3>1. [taker EXCEPT !.price = 0] \in BookOrder
      BY <1>3 DEF BookOrder
    <3> QED
      BY <3>1
  <2>2. PICK w \in {"filled", "cancelled"} :
          w = IF (IF taker.side = "buy" THEN taker.funds ELSE taker.size) > 0 THEN "cancelled" ELSE "filled"
    OBVIOUS
  <2>3. PICK log \in Log : log = DoneLog(logSeq + 1, n, 0, w)
    <3>1. DoneLog(logSeq + 1, n, 0, w) \in Log
      BY <1>2, LogTypes
    <3> QED
      BY <3>1
  <2>4. log.type = "done" /\ log.seq = logSeq + 1
    BY <2>3 DEF DoneLog
  <2>5. out' = Append(out, log)
    BY <1>11, <2>1, <2>2, <2>3
  <2> QED
    BY <1>5, <1>7, <1>8, <1>11, <2>4, <2>5
<1> QED
  BY <1>9, <1>10, <1>11 DEF FinishTaker

\* A trade of z in order i, of which o was left and n is left now.
LEMMA TradeRemains ==
  ASSUME AccountInv, NEW i \in OrderIds, NEW o \in BookOrder, Remains(i, o), NEW n \in BookOrder,
         NEW z \in Nat, NEW q \in Nat, n.side = o.side, n.type = o.type, n.price = o.price,
         MarketBuy(o) => z * q <= o.funds /\ n.funds = o.funds - z * q,
         ~ MarketBuy(o) => z <= o.size /\ n.size = o.size - z,
         o.side = "buy" /\ o.type = "limit" => q <= o.price,
         NEW log \in Log, log.type = "match", i \in {log.order, log.maker}, log.size = z, log.price = q
  PROVE  /\ Charge(Order(i), Append(Story, log)) + Claim(n) <= Claim(Order(i))
         /\ Charge(Order(i), Append(Story, log)) \in Nat /\ Claim(n) \in Nat
<1>1. (IF o.side = "buy" THEN z * q ELSE z) + Claim(n) <= Claim(o)
  BY ClaimPays
<1>2. PICK c \in Nat : c = IF o.side = "buy" THEN z * q ELSE z
  <2>1. z * q \in Nat
    OBVIOUS
  <2> QED
    BY <2>1
<1>3. o.side = Order(i).side /\ Charged(i) + Claim(o) <= Claim(Order(i))
  BY DEF Remains
<1>4. Charge(Order(i), Append(Story, log)) = Charged(i) + c
  BY <1>2, <1>3, Facts, ChargeMatch DEF Charged
<1>5. Charged(i) \in Nat /\ Claim(Order(i)) \in Nat /\ Claim(n) \in Nat /\ Claim(o) \in Nat
  BY ChargedType, ClaimType
<1>6. c + Claim(n) <= Claim(o)
  BY <1>1, <1>2
<1>7. \A u, x, y, p \in Nat : c + x <= y /\ u + y <= p => (u + c) + x <= p
  OBVIOUS
<1>8. (Charged(i) + c) + Claim(n) <= Claim(Order(i))
  BY <1>3, <1>5, <1>6, <1>7
<1> QED
  BY <1>4, <1>5, <1>8

\* What is left of a maker after a trade of z.
LessOf(m, z) == [m EXCEPT !.size = @ - z]

\* The taker a trades z with m, which is what is left of b: log, and done if that was all of it.
Trade(m, z, a, b, log, done, with) ==
  /\ m \in BookOrder /\ m.price \in Nat \ {0} /\ taker \in BookOrder /\ z \in Nat /\ z <= m.size
  /\ MarketBuy(taker) => z * m.price \in Nat /\ z * m.price <= taker.funds
  /\ ~ MarketBuy(taker) => z <= taker.size
  /\ Crosses(taker, m)
  /\ taker' = IF MarketBuy(taker) THEN [taker EXCEPT !.funds = @ - z * m.price]
                                  ELSE [taker EXCEPT !.size = @ - z]
  /\ logSeq' = logSeq + (IF z = m.size THEN 2 ELSE 1)
  /\ m.side = Opposite(taker.side) /\ m.side \in Sides /\ m.type = "limit" /\ m.size \in Nat
  /\ a \in OrderIds /\ b \in OrderIds /\ a = taker.id /\ b = m.id /\ a # b
  /\ OnBook(a) = {} /\ Remains(a, taker) /\ ~ Fresh(a)
  /\ OnBook(b) = {m} /\ Remains(b, m) /\ ~ Fresh(b)
  /\ \A j : j # b => OnBook(j)' = OnBook(j)
  /\ OnBook(b)' = IF m.size = z THEN {} ELSE {LessOf(m, z)}
  /\ log \in Log /\ log.type = "match" /\ log.order = a /\ log.maker = b /\ log.size = z
  /\ log.price = m.price /\ log.seq = logSeq + 1
  /\ done \in Log /\ done.type = "done" /\ done.order = b /\ done.seq = logSeq + 2
  /\ with \in Seq(Log) /\ with = Append(Story, log)
  /\ Story' = IF z = m.size THEN Append(with, done) ELSE with

LEMMA MatchTrade ==
  ASSUME AccountInv, MatchMaker, UNCHANGED logTopic
  PROVE  \E m, z, a, b, log, done, with : Trade(m, z, a, b, log, done, with)
<1>1. /\ BookInv /\ out \in Seq(Log) /\ logTopic \in Seq(Log) /\ Story \in Seq(Log)
      /\ logSeq \in Nat /\ tradeSeq \in Nat /\ StoryInv
      /\ depths \in [Sides -> SUBSET BookOrder]
      /\ \A j \in OrderIds : Account(j) /\ Order(j) \in BookOrder /\ Order(j).id = j
  BY Facts
<1>2. taker # NoTaker
  BY DEF MatchMaker
<1>3. PICK m \in left :
        LET side == Opposite(taker.side)
            size == Smaller(Wanted(taker, m), m.size)
            full == size = m.size
        IN /\ Crosses(taker, m)
           /\ Wanted(taker, m) # 0
           /\ taker' = IF MarketBuy(taker)
                       THEN [taker EXCEPT !.funds = @ - size * m.price]
                       ELSE [taker EXCEPT !.size = @ - size]
           /\ depths' = [depths EXCEPT ![side] = Decreased(@, m, size)]
           /\ logSeq' = logSeq + (IF full THEN 2 ELSE 1)
           /\ out' = out \o <<MatchLog(logSeq + 1, tradeSeq + 1, taker, m, size)>>
                         \o (IF full THEN <<DoneLog(logSeq + 2, m, 0, "filled")>>
                                     ELSE <<>>)
  BY DEF MatchMaker
<1>4. PICK z : z = Smaller(Wanted(taker, m), m.size)
  OBVIOUS
<1>5. PICK s \in Sides : s = Opposite(taker.side)
  BY <1>1, <1>2, <1>3, TradeSize DEF BookInv
<1>6. /\ m \in BookOrder /\ m.price \in Nat \ {0} /\ m \in depths[s] /\ taker \in BookOrder
      /\ z \in Nat /\ z <= m.size
      /\ MarketBuy(taker) => z * m.price \in Nat /\ z * m.price <= taker.funds
      /\ ~ MarketBuy(taker) => z <= taker.size
  BY <1>1, <1>2, <1>3, <1>4, <1>5, TradeSize DEF BookInv
<1>7. /\ Crosses(taker, m)
      /\ taker' = IF MarketBuy(taker) THEN [taker EXCEPT !.funds = @ - z * m.price]
                                      ELSE [taker EXCEPT !.size = @ - z]
      /\ depths' = [depths EXCEPT ![s] = Decreased(@, m, z)]
      /\ logSeq' = logSeq + (IF z = m.size THEN 2 ELSE 1)
      /\ out' = out \o <<MatchLog(logSeq + 1, tradeSeq + 1, taker, m, z)>>
                    \o (IF z = m.size THEN <<DoneLog(logSeq + 2, m, 0, "filled")>> ELSE <<>>)
  BY <1>3, <1>4, <1>5
<1>8. m.side = s /\ m.type = "limit" /\ m.id \in OrderIds /\ taker.id \in OrderIds /\ m.size \in Nat
  BY <1>1, <1>5, <1>6 DEF BookInv, DepthsOK, BookOrder
<1>9. PICK a \in OrderIds, b \in OrderIds : a = taker.id /\ b = m.id
  BY <1>8
<1>10. OnBook(a) = {} /\ Remains(a, taker) /\ ~ Fresh(a)
  BY <1>1, <1>9 DEF Account
<1>11. m \in OnBook(b)
  BY <1>5, <1>6, <1>9 DEF OnBook, Sides
<1>12. a # b /\ OnBook(b) = {m} /\ Remains(b, m) /\ ~ Fresh(b)
  BY <1>1, <1>10, <1>11 DEF Account
<1>13. PICK n : n = LessOf(m, z)
  OBVIOUS
<1>14. /\ \A j : j # b => OnBook(j)' = OnBook(j)
       /\ OnBook(b)' = IF m.size = z THEN {} ELSE {n}
  <2>1. \A x \in OnBook(m.id) : x = m
    BY <1>9, <1>12
  <2>2. /\ \A j : j # m.id => OnBook(j)' = OnBook(j)
        /\ OnBook(m.id)' = IF m.size = z THEN {} ELSE {[m EXCEPT !.size = @ - z]}
    BY <1>1, <1>6, <1>7, <2>1, OnBookAfter
  <2> QED
    BY <1>9, <1>13, <2>2 DEF LessOf
<1>15. PICK log \in Log : log = MatchLog(logSeq + 1, tradeSeq + 1, taker, m, z)
  <2>1. logSeq + 1 \in Nat /\ tradeSeq + 1 \in Nat
    BY <1>1
  <2> QED
    BY <1>6, <2>1, LogTypes
<1>16. PICK done \in Log : done = DoneLog(logSeq + 2, m, 0, "filled")
  <2>1. logSeq + 2 \in Nat
    BY <1>1
  <2> QED
    BY <1>6, <2>1, LogTypes
<1>17. /\ log.type = "match" /\ log.order = a /\ log.maker = b /\ log.size = z /\ log.price = m.price
       /\ log.seq = logSeq + 1
  <2>1. log.type = "match" /\ log.size = z /\ log.price = m.price /\ log.seq = logSeq + 1
    BY <1>15 DEF MatchLog
  <2>2. log.order = taker.id /\ log.maker = m.id
    BY <1>15 DEF MatchLog
  <2> QED
    BY <1>9, <2>1, <2>2
<1>18. done.type = "done" /\ done.order = b /\ done.seq = logSeq + 2
  BY <1>9, <1>16 DEF DoneLog
<1>19. PICK with \in Seq(Log) : with = Append(Story, log)
  <2>1. Append(Story, log) \in Seq(Log)
    BY <1>1
  <2> QED
    BY <2>1
<1>20. Story' = IF z = m.size THEN Append(with, done) ELSE with
  <2>1. PICK u \in Seq(Log) : u = Append(out, log)
    <3>1. Append(out, log) \in Seq(Log)
      BY <1>1
    <3> QED
      BY <3>1
  <2>2. out' = IF z = m.size THEN out \o <<log>> \o <<done>> ELSE out \o <<log>> \o <<>>
    BY <1>7, <1>15, <1>16
  <2>3. out \o <<log>> = u
    BY <1>1, <2>1
  <2>4. u \o <<done>> = Append(u, done) /\ u \o <<>> = u
    OBVIOUS
  <2>5. out' = IF z = m.size THEN Append(u, done) ELSE u
    BY <2>2, <2>3, <2>4
  <2>6. logTopic \o u = with /\ logTopic \o Append(u, done) = Append(with, done)
    <3>1. logTopic \o u = Append(logTopic \o out, log)
      BY <1>1, <2>1, StoryMore
    <3>2. logTopic \o u = with
      BY <1>19, <3>1 DEF Story
    <3>3. logTopic \o Append(u, done) = Append(logTopic \o u, done)
      BY <1>1, StoryMore
    <3> QED
      BY <3>2, <3>3
  <2> QED
    BY <2>5, <2>6 DEF Story
<1>21. m.side = Opposite(taker.side) /\ m.side \in Sides
  BY <1>5, <1>8
<1>22. Trade(m, z, a, b, log, done, with)
  BY <1>6, <1>7, <1>8, <1>9, <1>10, <1>12, <1>13, <1>14, <1>17, <1>18, <1>19, <1>20, <1>21, Zenon DEF Trade
<1> QED
  BY <1>22

LEMMA MatchAccount ==
  ASSUME AccountInv, Next, MatchMaker, UNCHANGED <<plan, logTopic>>
  PROVE  StoryInv' /\ \A i \in OrderIds : Account(i)'
<1>1. /\ Story \in Seq(Log) /\ logSeq \in Nat /\ StoryInv
      /\ \A j \in OrderIds : Account(j) /\ Order(j) \in BookOrder /\ Order(j).id = j
  BY Facts
<1>2. PICK m, z, a, b, log, done, with : Trade(m, z, a, b, log, done, with)
  BY MatchTrade
<1>3. a \in OrderIds /\ b \in OrderIds /\ log \in Log /\ done \in Log
  BY <1>2 DEF Trade
<1>6. /\ m \in BookOrder /\ m.price \in Nat \ {0} /\ taker \in BookOrder /\ z \in Nat /\ z <= m.size
      /\ MarketBuy(taker) => z * m.price \in Nat /\ z * m.price <= taker.funds
      /\ ~ MarketBuy(taker) => z <= taker.size
  BY <1>2 DEF Trade
<1>7. /\ Crosses(taker, m)
      /\ taker' = IF MarketBuy(taker) THEN [taker EXCEPT !.funds = @ - z * m.price]
                                      ELSE [taker EXCEPT !.size = @ - z]
      /\ logSeq' = logSeq + (IF z = m.size THEN 2 ELSE 1)
  BY <1>2 DEF Trade
<1>8. m.type = "limit" /\ m.size \in Nat
  BY <1>2 DEF Trade
<1>9. a = taker.id /\ b = m.id
  BY <1>2 DEF Trade
<1>10. OnBook(a) = {} /\ Remains(a, taker) /\ ~ Fresh(a)
  BY <1>2 DEF Trade
<1>12. a # b /\ OnBook(b) = {m} /\ Remains(b, m) /\ ~ Fresh(b)
  BY <1>2 DEF Trade
<1>13. PICK n : n = LessOf(m, z)
  OBVIOUS
<1>14. /\ \A j : j # b => OnBook(j)' = OnBook(j)
       /\ OnBook(b)' = IF m.size = z THEN {} ELSE {n}
  BY <1>2, <1>13 DEF Trade
<1>17. /\ log.type = "match" /\ log.order = a /\ log.maker = b /\ log.size = z /\ log.price = m.price
       /\ log.seq = logSeq + 1
  BY <1>2 DEF Trade
<1>18. done.type = "done" /\ done.seq = logSeq + 2
  BY <1>2 DEF Trade
<1>19. with \in Seq(Log) /\ with = Append(Story, log)
  BY <1>2 DEF Trade
<1>20. Story' = IF z = m.size THEN Append(with, done) ELSE with
  BY <1>2 DEF Trade
<1>21. StoryInv'
  <2>1. Numbered(with) /\ Len(with) = logSeq + 1
    BY <1>1, <1>3, <1>12, <1>17, <1>19, NumberedMore DEF StoryInv
  <2>2. CASE z # m.size
    BY <1>7, <1>20, <2>1, <2>2 DEF StoryInv, Numbered
  <2>3. CASE z = m.size
    <3>1. logSeq + 2 = Len(with) + 1
      BY <1>1, <2>1
    <3>2. Numbered(Append(with, done)) /\ Len(Append(with, done)) = Len(with) + 1
      BY <1>3, <1>19, <1>18, <2>1, <3>1, NumberedMore
    <3>3. Story' = Append(with, done) /\ logSeq' = Len(with) + 1
      BY <1>7, <1>20, <2>3, <3>1
    <3> QED
      BY <3>2, <3>3 DEF StoryInv, Numbered
  <2> QED
    BY <2>2, <2>3
<1>22. ASSUME NEW j \in OrderIds PROVE Charged(j)' = Charge(Order(j), with)
  <2>1. PICK more : more = Append(with, done)
    OBVIOUS
  <2>2. Charge(Order(j), more) = Charge(Order(j), with)
    BY <1>3, <1>19, <1>18, <2>1, ChargeOther
  <2>3. Story' = more \/ Story' = with
    BY <1>20, <2>1
  <2>4. Charged(j)' = Charge(Order(j), more) \/ Charged(j)' = Charge(Order(j), with)
    BY <2>3, ChargedNow
  <2> QED
    BY <2>2, <2>4
<1>23. /\ taker' \in BookOrder /\ taker'.side = taker.side /\ taker'.type = taker.type
       /\ taker'.price = taker.price /\ taker'.id = a
       /\ MarketBuy(taker) => taker'.funds = taker.funds - z * m.price
       /\ ~ MarketBuy(taker) => taker'.size = taker.size - z
  <2>1. CASE MarketBuy(taker)
    <3>1. taker' = [taker EXCEPT !.funds = @ - z * m.price]
      BY <1>7, <2>1
    <3>2. taker.funds - z * m.price \in Nat
      BY <1>6, <2>1 DEF BookOrder
    <3> QED
      BY <1>6, <1>9, <2>1, <3>1, <3>2 DEF BookOrder
  <2>2. CASE ~ MarketBuy(taker)
    <3>1. taker' = [taker EXCEPT !.size = @ - z]
      BY <1>7, <2>2
    <3>2. taker.size - z \in Nat
      BY <1>6, <2>2 DEF BookOrder
    <3> QED
      BY <1>6, <1>9, <2>2, <3>1, <3>2 DEF BookOrder
  <2> QED
    BY <2>1, <2>2
<1>24. n \in BookOrder /\ n.side = m.side /\ n.type = m.type /\ n.price = m.price /\ n.size = m.size - z
  <2>1. m.size - z \in Nat
    BY <1>6, <1>8
  <2>2. n \in BookOrder
    BY <1>6, <1>13, <2>1 DEF BookOrder, LessOf
  <2> QED
    BY <1>6, <1>13, <2>2 DEF BookOrder, LessOf
<1>25. \A j \in OrderIds : Fresh(j)' => Fresh(j)
  BY RequestStep
<1>26. ASSUME NEW j \in OrderIds, j # a, j # b PROVE Account(j)'
  <2>1. Charge(Order(j), with) = Charge(Order(j), Story)
    BY <1>1, <1>17, <1>19, <1>26, ChargeOther
  <2>2. OnBook(j)' = OnBook(j) /\ taker.id # j /\ taker'.id # j /\ Charged(j)' = Charged(j)
    BY <1>9, <1>14, <1>22, <1>23, <1>26, <2>1 DEF Charged
  <2> QED
    BY <1>1, <1>25, <2>2, SameAccount
<1>27. PICK q \in Nat : q = m.price
  BY <1>6
<1>28. Account(a)'
  <2>1. PICK t \in BookOrder : t = taker'
    BY <1>23
  <2>2. taker.side = "buy" /\ taker.type = "limit" => q <= taker.price
    BY <1>7, <1>27 DEF Crosses
  <2>3. /\ t.side = taker.side /\ t.type = taker.type /\ t.price = taker.price
        /\ MarketBuy(taker) => z * q <= taker.funds /\ t.funds = taker.funds - z * q
        /\ ~ MarketBuy(taker) => z <= taker.size /\ t.size = taker.size - z
        /\ log.size = z /\ log.price = q /\ log.type = "match" /\ a \in {log.order, log.maker}
    BY <1>6, <1>17, <1>23, <1>27, <2>1
  <2>4. /\ Charge(Order(a), Append(Story, log)) + Claim(t) <= Claim(Order(a))
        /\ Charge(Order(a), Append(Story, log)) \in Nat /\ Claim(t) \in Nat
    BY <1>3, <1>6, <1>10, <2>2, <2>3, TradeRemains
  <2>5. Charged(a)' + Claim(t) <= Claim(Order(a)) /\ Charged(a)' \in Nat /\ Claim(Order(a)) \in Nat
    BY <1>3, <1>19, <1>22, <2>4, ChargedType
  <2>6. /\ t.side = Order(a).side /\ t.type = Order(a).type /\ t.id = a
        /\ t.type = "limit" => t.price = Order(a).price
    BY <1>10, <1>23, <2>1, <2>3 DEF Remains
  <2>7. OnBook(a)' = {} /\ ~ Fresh(a)'
    BY <1>3, <1>10, <1>12, <1>14, <1>25
  <2> QED
    BY <1>3, <2>1, <2>4, <2>5, <2>6, <2>7, TakerAccount
<1>29. Account(b)'
  <2>1. /\ ~ MarketBuy(m) /\ z <= m.size /\ q <= m.price
        /\ log.size = z /\ log.price = q /\ log.type = "match" /\ b \in {log.order, log.maker}
    BY <1>6, <1>8, <1>17, <1>27 DEF MarketBuy
  <2>2. /\ Charge(Order(b), Append(Story, log)) + Claim(n) <= Claim(Order(b))
        /\ Charge(Order(b), Append(Story, log)) \in Nat /\ Claim(n) \in Nat
    BY <1>3, <1>6, <1>12, <1>24, <2>1, TradeRemains
  <2>3. Charged(b)' + Claim(n) <= Claim(Order(b)) /\ Charged(b)' \in Nat /\ Claim(Order(b)) \in Nat
    BY <1>3, <1>19, <1>22, <2>2, ChargedType
  <2>4. n.side = Order(b).side /\ n.type = Order(b).type /\ n.price = Order(b).price
    BY <1>8, <1>12, <1>24 DEF Remains
  <2>5. taker'.id # b /\ ~ Fresh(b)'
    BY <1>3, <1>12, <1>23, <1>25
  <2>6. CASE z # m.size
    <3>1. OnBook(b)' = {n}
      BY <1>14, <2>6
    <3> QED
      BY <1>3, <2>2, <2>3, <2>4, <2>5, <3>1, RestAccount
  <2>7. CASE z = m.size
    <3>1. OnBook(b)' = {} /\ Charged(b)' <= Claim(Order(b))
      BY <1>14, <2>2, <2>3, <2>7
    <3> QED
      BY <1>3, <2>5, <3>1, GoneAccount
  <2> QED
    BY <2>6, <2>7
<1> QED
  BY <1>21, <1>26, <1>28, <1>29

LEMMA AccountInit ==
  ASSUME Init
  PROVE  AccountInv
<1>1. BaseInv /\ plan \in Plans
  BY InitInv DEF Inv, BaseInv, PipeInv
<1>2. Story = <<>> /\ logSeq = 0 /\ taker = NoTaker /\ depths = [s \in Sides |-> {}]
  <2>1. out = <<>> /\ logTopic = <<>>
    BY DEF Init, BookInit
  <2>2. logTopic \o out = <<>>
    BY <2>1
  <2> QED
    BY <2>2 DEF Story, Init, BookInit
<1>3. StoryInv
  BY <1>2 DEF StoryInv, Numbered
<1>4. ASSUME NEW i \in OrderIds PROVE Account(i) /\ Request(i)
  <2>1. OnBook(i) = {}
    BY <1>2 DEF OnBook, Sides
  <2>2. taker.id # i
    BY <1>2, BookAssumption DEF NoTaker
  <2>3. Charged(i) = 0
    <3>1. Weighed(CostOf(Order(i)), <<>>) = <<>>
      BY DEF Weighed
    <3> QED
      BY <1>2, <3>1, SumOfEmpty DEF Charged, Charge
  <2>4. Claim(Order(i)) \in Nat
    BY <1>1, PlanType, OrdersType, ClaimType
  <2>5. Account(i)
    BY <2>1, <2>2, <2>3, <2>4 DEF Account
  <2>6. rows[i].status = "none" /\ rows[i].filled = 0 /\ rows[i].executed = 0
    BY DEF Init
  <2> QED
    BY <2>5, <2>6 DEF Request, Init
<1> QED
  BY <1>1, <1>3, <1>4 DEF AccountInv

LEMMA AccountStep ==
  ASSUME AccountInv, [Next]_vars
  PROVE  AccountInv'
<1>1. CASE UNCHANGED vars
  <2>1. BaseInv'
    <3>1. BookInv /\ PipeInv /\ TableInv /\ checked \subseteq OrderIds /\ UNCHANGED bookVars
      BY <1>1 DEF vars, AccountInv, BaseInv, PipeInv
    <3>2. BookInv'
      BY <3>1, BookStutter
    <3> QED
      BY <1>1, <3>1, <3>2 DEF BaseInv, PipeInv, TableInv, vars, dbVars, restVars, makerVars
  <2>2. Story' = Story
    BY <1>1 DEF vars, bookVars, Story
  <2>3. StoryInv'
    BY <1>1, <2>2 DEF AccountInv, StoryInv, Numbered, vars, bookVars
  <2>4. ASSUME NEW i \in OrderIds PROVE Account(i)' /\ Request(i)'
    <3>1. UNCHANGED <<plan, depths, taker, rows, checked, unsent, topic>>
      BY <1>1 DEF vars, bookVars, dbVars, restVars
    <3>2. Charged(i)' = Charged(i)
      BY <2>2, <3>1, ChargedNow DEF Charged
    <3>3. OnBook(i)' = OnBook(i) /\ (Fresh(i)' => Fresh(i)) /\ Account(i) /\ Request(i)
      BY <3>1 DEF OnBook, Fresh, AccountInv
    <3> QED
      BY <3>1, <3>2, <3>3, SameAccount DEF Request
  <2> QED
    BY <2>1, <2>3, <2>4 DEF AccountInv
<1>2. CASE Next
  <2>1. BaseInv /\ BaseInv'
    BY <1>2, PipeStep, TableStep, CheckedStep DEF AccountInv, BaseInv
  <2>2. \A i \in OrderIds : Request(i)'
    BY <1>2, RequestStep
  <2>3. StoryInv' /\ \A i \in OrderIds : Account(i)'
    <3>1. ASSUME UNCHANGED <<bookVars, plan, logTopic>> PROVE StoryInv' /\ \A i \in OrderIds : Account(i)'
      <4>1. Story' = Story /\ UNCHANGED <<depths, taker, logSeq, plan>>
        BY <3>1 DEF bookVars, Story
      <4> QED
        BY <1>2, <4>1, QuietAccount
    <3>2. ASSUME NEW i \in OrderIds,
                 CheckBalance(i) \/ PlaceOrder(i) \/ SubmitOrder(i) \/ RequestCancel(i) \/ ExecuteFill(i)
          PROVE  UNCHANGED <<bookVars, plan, logTopic>>
      BY <3>2 DEF CheckBalance, PlaceOrder, SubmitOrder, RequestCancel, ExecuteFill
    <3>3. ASSUME NEW m \in topic, Engine(m) PROVE StoryInv' /\ \A i \in OrderIds : Account(i)'
      BY <1>2, <3>3, ReceiveAccount, CancelAccount
    <3>4. CASE EngineMatch
      <4>1. (MatchMaker \/ FinishTaker) /\ UNCHANGED <<plan, logTopic>>
        BY <3>4 DEF EngineMatch
      <4> QED
        BY <1>2, <4>1, MatchAccount, FinishAccount
    <3>5. CASE EngineLogs
      <4>1. out' = <<>> /\ logTopic' = logTopic \o out /\ UNCHANGED <<depths, taker, logSeq, plan>>
        BY <3>5 DEF EngineLogs
      <4>2. Story \in Seq(Log)
        BY Facts
      <4>3. Story \o <<>> = Story
        BY <4>2
      <4>4. Story' = Story
        BY <4>1, <4>3 DEF Story
      <4> QED
        BY <1>2, <4>1, <4>4, QuietAccount
    <3>6. CASE ReadLog \/ SendFill \/ FlushFill \/ Crash
      <4>1. UNCHANGED <<bookVars, plan, logTopic>>
        BY <3>6 DEF ReadLog, SendFill, FlushFill, Crash
      <4> QED
        BY <3>1, <4>1
    <3>7. ASSUME NEW u \in Users, NEW c \in Currencies, ExecuteBill(u, c)
          PROVE  UNCHANGED <<bookVars, plan, logTopic>>
      BY <3>7 DEF ExecuteBill
    <3> QED
      BY <1>2, <3>1, <3>2, <3>3, <3>4, <3>5, <3>6, <3>7 DEF Next, Settle
  <2> QED
    BY <2>1, <2>2, <2>3 DEF AccountInv
<1> QED
  BY <1>1, <1>2

-----------------------------------------------------------------------------
(* The fills on their way to the table. *)

LEMMA Joined ==
  ASSUME NEW S, NEW a \in Seq(S), NEW b \in Seq(S)
  PROVE  /\ a \o b \in Seq(S)
         /\ \A k \in DOMAIN a : k \in DOMAIN (a \o b) /\ (a \o b)[k] = a[k]
         /\ \A k \in DOMAIN b : Len(a) + k \in DOMAIN (a \o b) /\ (a \o b)[Len(a) + k] = b[k]
         /\ \A k \in DOMAIN (a \o b) : k \in DOMAIN a \/ (k - Len(a) \in DOMAIN b /\ k = Len(a) + (k - Len(a)))
<1>1. PICK m \in Nat, n \in Nat : m = Len(a) /\ n = Len(b) /\ DOMAIN a = 1 .. m /\ DOMAIN b = 1 .. n
  OBVIOUS
<1>2. PICK c \in Seq(S) : c = a \o b
  <2>1. a \o b \in Seq(S)
    OBVIOUS
  <2> QED
    BY <2>1
<1>3. DOMAIN c = 1 .. m + n
  BY <1>1, <1>2
<1>4. \A k \in 1 .. m : k \in DOMAIN c /\ c[k] = a[k]
  BY <1>1, <1>2, <1>3
<1>5. \A k \in 1 .. n : m + k \in DOMAIN c /\ c[m + k] = b[k]
  BY <1>1, <1>2, <1>3
<1>6. ASSUME NEW k \in DOMAIN c, k \notin 1 .. m PROVE k - m \in 1 .. n /\ k = m + (k - m)
  BY <1>1, <1>3, <1>6
<1> QED
  BY <1>1, <1>2, <1>4, <1>5, <1>6

\* The same with a name for the whole.
LEMMA JoinedIs ==
  ASSUME NEW S, NEW a \in Seq(S), NEW b \in Seq(S), NEW c, c = a \o b, NEW m, m = Len(a)
  PROVE  /\ c \in Seq(S) /\ m \in Nat
         /\ \A k \in DOMAIN a : k \in DOMAIN c /\ c[k] = a[k]
         /\ \A k \in DOMAIN b : m + k \in DOMAIN c /\ c[m + k] = b[k]
         /\ \A k \in DOMAIN c : k \in DOMAIN a \/ (k - m \in DOMAIN b /\ k = m + (k - m))
  BY Joined

LEMMA ApartParts ==
  ASSUME NEW S, NEW a \in Seq(S), NEW b \in Seq(S), Apart(a \o b)
  PROVE  Apart(a) /\ Apart(b)
<1>1. PICK m \in Nat : m = Len(a)
  OBVIOUS
<1>2. PICK c : c = a \o b
  OBVIOUS
<1>3. /\ \A k \in DOMAIN a : k \in DOMAIN c /\ c[k] = a[k]
      /\ \A k \in DOMAIN b : m + k \in DOMAIN c /\ c[m + k] = b[k]
  BY <1>1, <1>2, Joined
<1>4. \A j, k \in DOMAIN c : j # k => Unlike(c[j], c[k])
  BY <1>2 DEF Apart
<1>5. Apart(a)
  BY <1>3, <1>4 DEF Apart
<1>6. ASSUME NEW j \in DOMAIN b, NEW k \in DOMAIN b, j # k PROVE Unlike(b[j], b[k])
  <2>1. j \in Nat /\ k \in Nat
    OBVIOUS
  <2>2. m + j # m + k
    BY <1>6, <2>1
  <2>3. m + j \in DOMAIN c /\ m + k \in DOMAIN c /\ c[m + j] = b[j] /\ c[m + k] = b[k]
    BY <1>3
  <2> QED
    BY <1>4, <2>2, <2>3
<1> QED
  BY <1>5, <1>6 DEF Apart

LEMMA ApartJoined ==
  ASSUME NEW S, NEW a \in Seq(S), NEW b \in Seq(S), Apart(a), Apart(b),
         \A j \in DOMAIN a, k \in DOMAIN b : Unlike(a[j], b[k])
  PROVE  Apart(a \o b)
<1>1. PICK m \in Nat : m = Len(a)
  OBVIOUS
<1>2. PICK c : c = a \o b
  OBVIOUS
<1>3. /\ \A k \in DOMAIN a : c[k] = a[k]
      /\ \A k \in DOMAIN b : c[m + k] = b[k]
      /\ \A k \in DOMAIN c : k \in DOMAIN a \/ \E j \in DOMAIN b : k = m + j
  <2>1. /\ \A k \in DOMAIN a : c[k] = a[k]
        /\ \A k \in DOMAIN b : c[m + k] = b[k]
        /\ \A k \in DOMAIN c : k \in DOMAIN a \/ (k - m \in DOMAIN b /\ k = m + (k - m))
    BY <1>1, <1>2, Joined
  <2> QED
    BY <2>1
<1>4. \A x, y : Unlike(x, y) <=> Unlike(y, x)
  BY DEF Unlike
<1>5. ASSUME NEW j \in DOMAIN c, NEW k \in DOMAIN c, j # k PROVE Unlike(c[j], c[k])
  <2>1. CASE j \in DOMAIN a /\ k \in DOMAIN a
    BY <1>3, <1>5, <2>1 DEF Apart
  <2>2. ASSUME j \in DOMAIN a, NEW l \in DOMAIN b, k = m + l PROVE Unlike(c[j], c[k])
    BY <1>3, <2>2
  <2>3. ASSUME k \in DOMAIN a, NEW l \in DOMAIN b, j = m + l PROVE Unlike(c[j], c[k])
    BY <1>3, <1>4, <2>3
  <2>4. ASSUME NEW g \in DOMAIN b, NEW h \in DOMAIN b, j = m + g, k = m + h PROVE Unlike(c[j], c[k])
    BY <1>3, <1>5, <2>4 DEF Apart
  <2> QED
    BY <1>3, <2>1, <2>2, <2>3, <2>4
<1> QED
  BY <1>2, <1>5 DEF Apart

\* What the log f was made of says of it.
Tells(f) ==
  /\ f.seq \in DOMAIN logTopic
  /\ LET log == logTopic[f.seq]
     IN /\ f.order \in {log.order, log.maker} /\ f.size = log.size
        /\ f.done => log.type = "done" /\ f.order = log.order
        /\ ~ f.done => log.type = "match" /\ f.price = log.price

\* The fills FillMaker has made and not yet put into the table.
Line == fillBuf \o fillCh \o todo

Waiting(f) == Tells(f) /\ ~ f.settled /\ f.seq <= lastSeq

LineInv == lastSeq \in Nat /\ Apart(Line) /\ \A k \in DOMAIN Line : Waiting(Line[k])

FillsInv == Apart(fills) /\ \A k \in DOMAIN fills : Tells(fills[k])

PostInv == AccountInv /\ LineInv /\ FillsInv

LEMMA PostFacts ==
  ASSUME PostInv
  PROVE  /\ AccountInv /\ LineInv /\ FillsInv /\ logTopic \in Seq(Log) /\ fills \in Seq(FillRow)
         /\ fillBuf \in Seq(FillRow) /\ fillCh \in Seq(FillRow) /\ todo \in Seq(FillRow)
         /\ Line \in Seq(FillRow) /\ lastSeq \in Nat /\ readPos \in Nat
<1>1. /\ AccountInv /\ LineInv /\ FillsInv /\ logTopic \in Seq(Log) /\ fills \in Seq(FillRow)
      /\ fillBuf \in Seq(FillRow) /\ fillCh \in Seq(FillRow) /\ todo \in Seq(FillRow)
      /\ lastSeq \in Nat /\ readPos \in Nat
  BY DEF PostInv, AccountInv, BaseInv, PipeInv, LineInv
<1>2. Line \in Seq(FillRow)
  BY <1>1 DEF Line
<1> QED
  BY <1>1, <1>2

\* The log topic only grows.
LEMMA TellsOn ==
  ASSUME logTopic \in Seq(Log), out \in Seq(Log), logTopic' = logTopic \/ logTopic' = logTopic \o out,
         NEW f, Tells(f)
  PROVE  Tells(f)'
<1>1. PICK q : q = f.seq
  OBVIOUS
<1>2. q \in DOMAIN logTopic' /\ logTopic'[q] = logTopic[q]
  <2>1. q \in DOMAIN logTopic
    BY <1>1 DEF Tells
  <2>2. q \in DOMAIN (logTopic \o out) /\ (logTopic \o out)[q] = logTopic[q]
    BY <2>1, Joined
  <2> QED
    BY <2>1, <2>2
<1> QED
  BY <1>1, <1>2 DEF Tells

LEMMA JoinThree ==
  ASSUME NEW S, NEW a \in Seq(S), NEW b \in Seq(S), NEW c \in Seq(S)
  PROVE  (a \o b) \o c = a \o (b \o c)
<1>1. PICK l \in Seq(S), r \in Seq(S) : l = (a \o b) \o c /\ r = a \o (b \o c)
  <2>1. (a \o b) \o c \in Seq(S) /\ a \o (b \o c) \in Seq(S)
    OBVIOUS
  <2> QED
    BY <2>1
<1>2. Len(l) = Len(r) /\ \A k \in 1 .. Len(l) : l[k] = r[k]
  BY <1>1
<1> QED
  BY <1>1, <1>2, SameSeq

\* The first element of b goes to the end of a.
LEMMA JoinMoves ==
  ASSUME NEW S, NEW a \in Seq(S), NEW b \in Seq(S), b # <<>>
  PROVE  /\ Append(a, Head(b)) \o Tail(b) = a \o b
         /\ Append(a, Head(b)) \in Seq(S) /\ Tail(b) \in Seq(S) /\ Head(b) \in S
<1>1. Head(b) \in S /\ Tail(b) \in Seq(S) /\ Head(b) = b[1] /\ Len(b) \in Nat \ {0}
  OBVIOUS
<1>2. PICK h \in S, t \in Seq(S) : h = Head(b) /\ t = Tail(b)
  BY <1>1
<1>3. Len(t) = Len(b) - 1 /\ \A k \in 1 .. Len(b) - 1 : t[k] = b[k + 1]
  BY <1>1, <1>2
<1>4. PICK x \in Seq(S) : x = Append(a, h)
  <2>1. Append(a, h) \in Seq(S)
    OBVIOUS
  <2> QED
    BY <2>1
<1>5. PICK m \in Nat, n \in Nat : m = Len(a) /\ n = Len(b) /\ n > 0 /\ Len(t) = n - 1 /\ Len(x) = m + 1
  BY <1>1, <1>3, <1>4
<1>6. PICK l \in Seq(S), r \in Seq(S) : l = x \o t /\ r = a \o b /\ Len(l) = m + n /\ Len(r) = m + n
  <2>1. x \o t \in Seq(S) /\ a \o b \in Seq(S) /\ Len(x \o t) = Len(x) + Len(t) /\ Len(a \o b) = Len(a) + Len(b)
    OBVIOUS
  <2>2. (m + 1) + (n - 1) = m + n
    OBVIOUS
  <2>3. Len(x) + Len(t) = m + n /\ Len(a) + Len(b) = m + n
    BY <1>5, <2>2
  <2> QED
    BY <2>1, <2>3
<1>7. ASSUME NEW k \in 1 .. m + n PROVE l[k] = r[k]
  <2>1. CASE k <= m
    BY <1>4, <1>5, <1>6, <2>1
  <2>2. CASE k = m + 1
    <3>1. l[k] = h
      BY <1>4, <1>5, <1>6, <2>2
    <3>2. r[k] = b[1]
      BY <1>5, <1>6, <2>2
    <3> QED
      BY <1>1, <1>2, <3>1, <3>2
  <2>3. CASE k > m + 1
    <3>1. k - (m + 1) \in 1 .. n - 1 /\ (k - (m + 1)) + 1 = k - m /\ k - m \in 1 .. n
      BY <1>5, <2>3
    <3>2. l[k] = t[k - (m + 1)]
      BY <1>5, <1>6, <2>3, <3>1
    <3>3. r[k] = b[k - m]
      BY <1>5, <1>6, <2>3, <3>1
    <3> QED
      BY <1>3, <1>5, <3>1, <3>2, <3>3
  <2> QED
    BY <1>5, <2>1, <2>2, <2>3
<1>8. l = r
  BY <1>6, <1>7, SameSeq
<1> QED
  BY <1>1, <1>2, <1>4, <1>6, <1>8

LEMMA QuietLine ==
  ASSUME PostInv, Line' = Line, UNCHANGED lastSeq, logTopic' = logTopic \/ logTopic' = logTopic \o out
  PROVE  LineInv'
<1>1. LineInv /\ logTopic \in Seq(Log) /\ out \in Seq(Log)
  BY PostFacts, Facts
<1>2. ASSUME NEW k \in DOMAIN Line PROVE Waiting(Line[k])'
  <2>1. PICK f : f = Line[k] /\ Waiting(f)
    BY <1>1 DEF LineInv
  <2>2. Tells(f)'
    BY <1>1, <2>1, TellsOn DEF Waiting
  <2>3. Waiting(f)'
    BY <2>1, <2>2 DEF Waiting
  <2>4. Line'[k] = f
    BY <2>1
  <2> QED
    BY <2>3, <2>4 DEF Waiting, Tells
<1>3. Apart(Line)'
  BY <1>1 DEF LineInv, Apart, Unlike
<1> QED
  BY <1>1, <1>2, <1>3 DEF LineInv

LEMMA QuietFills ==
  ASSUME PostInv, UNCHANGED fills, logTopic' = logTopic \/ logTopic' = logTopic \o out
  PROVE  FillsInv'
<1>1. FillsInv /\ logTopic \in Seq(Log) /\ out \in Seq(Log)
  BY PostFacts, Facts
<1>2. ASSUME NEW k \in DOMAIN fills PROVE Tells(fills[k])'
  <2>1. PICK f : f = fills[k] /\ Tells(f)
    BY <1>1 DEF FillsInv
  <2>2. Tells(f)'
    BY <1>1, <2>1, TellsOn
  <2> QED
    BY <2>1, <2>2 DEF Tells
<1> QED
  BY <1>1, <1>2 DEF FillsInv, Apart, Unlike

\* What FillMaker makes of a log.
LEMMA NewFillTells ==
  ASSUME logTopic \in Seq(Log), NEW n \in DOMAIN logTopic, NEW log \in Log, log = logTopic[n], log.seq = n,
         NEW at, NEW i, log.type = "match" \/ log.type = "done",
         i = log.order \/ (i = log.maker /\ log.type = "match")
  PROVE  /\ Tells(NewFill(log, at, i)) /\ ~ NewFill(log, at, i).settled
         /\ NewFill(log, at, i).seq = n /\ NewFill(log, at, i).order = i
<1>1. PICK f : f = NewFill(log, at, i)
  OBVIOUS
<1>2. /\ f.order = i /\ f.seq = n /\ f.size = log.size /\ (f.done <=> log.type = "done") /\ f.settled = FALSE
      /\ log.type = "match" => f.price = log.price
  BY <1>1 DEF NewFill
<1>3. Tells(f)
  BY <1>2 DEF Tells
<1> QED
  BY <1>1, <1>2, <1>3

LEMMA ReadLine ==
  ASSUME PostInv, ReadLog
  PROVE  LineInv'
<1>1. /\ AccountInv /\ LineInv /\ logTopic \in Seq(Log) /\ out \in Seq(Log) /\ lastSeq \in Nat /\ readPos \in Nat
      /\ fillBuf \in Seq(FillRow) /\ fillCh \in Seq(FillRow) /\ Line \in Seq(FillRow) /\ StoryInv
  BY PostFacts, Facts
<1>2. todo = <<>> /\ readPos < Len(logTopic) /\ UNCHANGED <<fillCh, fillBuf, logTopic>>
  BY DEF ReadLog
<1>3. PICK n \in DOMAIN logTopic : n = readPos + 1
  BY <1>1, <1>2
<1>4. PICK log \in Log : log = logTopic[n]
  BY <1>1
<1>5. log.seq = n /\ (log.type = "match" => log.order # log.maker)
  <2>1. n \in DOMAIN Story /\ Story[n] = logTopic[n]
    BY <1>1, Joined DEF Story
  <2> QED
    BY <1>1, <1>4, <2>1 DEF StoryInv, Numbered
<1>6. PICK a \in Seq(FillRow) : a = fillBuf \o fillCh /\ Line = a /\ Line' = a \o todo'
  <2>1. fillBuf \o fillCh \in Seq(FillRow)
    BY <1>1
  <2>2. (fillBuf \o fillCh) \o <<>> = fillBuf \o fillCh
    BY <2>1
  <2> QED
    BY <1>2, <2>1, <2>2 DEF Line
<1>7. CASE log.seq <= lastSeq
  <2>1. UNCHANGED <<lastSeq, todo>>
    BY <1>1, <1>3, <1>4, <1>5, <1>7 DEF ReadLog
  <2>2. Line' = Line
    BY <1>2, <2>1 DEF Line
  <2> QED
    BY <1>2, <2>1, <2>2, QuietLine
<1>8. CASE log.seq > lastSeq
  <2>1. lastSeq' = n
    BY <1>1, <1>3, <1>4, <1>5, <1>8 DEF ReadLog
  <2>2. \/ todo' = <<>>
        \/ log.type = "match" /\ todo' = <<NewFill(log, readPos, log.order), NewFill(log, readPos, log.maker)>>
        \/ log.type = "done" /\ todo' = <<NewFill(log, readPos, log.order)>>
    <3>1. log.type \in {"open", "match", "done"}
      BY DEF Log
    <3> QED
      BY <1>1, <1>3, <1>4, <1>5, <1>8, <3>1 DEF ReadLog
  <2>3. PICK b \in Seq(FillRow) : b = todo'
    <3>1. <<>> \in Seq(FillRow)
      OBVIOUS
    <3> QED
      BY <1>1, <2>2, <3>1, FillsType
  <2>4. Apart(b) /\ \A k \in DOMAIN b : Tells(b[k]) /\ ~ b[k].settled /\ b[k].seq = n
    <3>1. CASE b = <<>>
      BY <3>1 DEF Apart
    <3>2. CASE log.type = "match" /\ b = <<NewFill(log, readPos, log.order), NewFill(log, readPos, log.maker)>>
      <4>1. PICK f, g : f = NewFill(log, readPos, log.order) /\ g = NewFill(log, readPos, log.maker)
        OBVIOUS
      <4>2. Tells(f) /\ ~ f.settled /\ f.seq = n /\ f.order = log.order
        <5>1. log.type = "match"
          BY <3>2
        <5> QED
          BY <1>1, <1>4, <1>5, <4>1, <5>1, NewFillTells
      <4>3. Tells(g) /\ ~ g.settled /\ g.seq = n /\ g.order = log.maker
        <5>1. log.type = "match"
          BY <3>2
        <5> QED
          BY <1>1, <1>4, <1>5, <4>1, <5>1, NewFillTells
      <4>4. DOMAIN b = {1, 2} /\ b[1] = f /\ b[2] = g
        BY <3>2, <4>1
      <4>5. f.order # g.order
        BY <1>5, <3>2, <4>2, <4>3
      <4>6. Unlike(f, g) /\ Unlike(g, f)
        BY <4>5 DEF Unlike
      <4>7. Apart(b)
        BY <4>4, <4>6 DEF Apart
      <4> QED
        BY <4>2, <4>3, <4>4, <4>7
    <3>3. CASE log.type = "done" /\ b = <<NewFill(log, readPos, log.order)>>
      <4>1. PICK f : f = NewFill(log, readPos, log.order)
        OBVIOUS
      <4>2. Tells(f) /\ ~ f.settled /\ f.seq = n
        BY <1>1, <1>4, <1>5, <3>3, <4>1, NewFillTells
      <4>3. DOMAIN b = {1} /\ b[1] = f
        BY <3>3, <4>1
      <4> QED
        BY <4>2, <4>3 DEF Apart
    <3> QED
      BY <2>2, <2>3, <3>1, <3>2, <3>3
  <2>5. n \in Nat /\ lastSeq < n
    BY <1>1, <1>3, <1>5, <1>8
  <2>6. ASSUME NEW j \in DOMAIN a PROVE Tells(a[j]) /\ ~ a[j].settled /\ a[j].seq <= lastSeq /\ a[j].seq \in Nat
    <3>1. Tells(a[j]) /\ ~ a[j].settled /\ a[j].seq <= lastSeq
      BY <1>1, <1>6 DEF LineInv, Waiting
    <3>2. a[j] \in FillRow
      OBVIOUS
    <3> QED
      BY <3>1, <3>2 DEF FillRow
  <2>7. Apart(a \o b)
    <3>1. ASSUME NEW j \in DOMAIN a, NEW k \in DOMAIN b PROVE Unlike(a[j], b[k])
      <4>1. a[j].seq # b[k].seq
        BY <1>1, <2>4, <2>5, <2>6
      <4> QED
        BY <4>1 DEF Unlike
    <3>2. Apart(a)
      BY <1>1, <1>6 DEF LineInv
    <3> QED
      BY <2>4, <3>1, <3>2, ApartJoined
  <2>8. ASSUME NEW f, Tells(f), ~ f.settled, f.seq \in Nat, f.seq <= n PROVE Waiting(f)'
    <3>1. Tells(f)'
      BY <1>1, <1>2, <2>8, TellsOn
    <3> QED
      BY <2>1, <2>8, <3>1 DEF Waiting
  <2>9. ASSUME NEW k \in DOMAIN (a \o b) PROVE Waiting((a \o b)[k])'
    <3>1. PICK f : f = (a \o b)[k] /\ (f \in {a[j] : j \in DOMAIN a} \/ f \in {b[j] : j \in DOMAIN b})
      <4>1. /\ k \in DOMAIN a => (a \o b)[k] = a[k]
            /\ k \notin DOMAIN a => k - Len(a) \in DOMAIN b /\ (a \o b)[Len(a) + (k - Len(a))] = b[k - Len(a)]
                                    /\ k = Len(a) + (k - Len(a))
        BY Joined
      <4> QED
        BY <4>1
    <3>2. Tells(f) /\ ~ f.settled /\ f.seq \in Nat /\ f.seq <= n
      <4>1. ASSUME NEW j \in DOMAIN a PROVE Tells(a[j]) /\ ~ a[j].settled /\ a[j].seq \in Nat /\ a[j].seq <= n
        BY <1>1, <2>5, <2>6
      <4>2. ASSUME NEW j \in DOMAIN b PROVE Tells(b[j]) /\ ~ b[j].settled /\ b[j].seq \in Nat /\ b[j].seq <= n
        BY <2>4, <2>5
      <4> QED
        BY <3>1, <4>1, <4>2
    <3>3. Waiting(f)'
      BY <2>8, <3>2
    <3>4. (a \o b)[k]' = f
      BY <2>3, <3>1
    <3> QED
      BY <3>1, <3>3
  <2>10. Line' = a \o b
    BY <1>6, <2>3
  <2> QED
    BY <2>1, <2>5, <2>7, <2>9, <2>10 DEF LineInv, Waiting, Tells, Apart
<1>9. log.seq \in Nat
  BY DEF Log
<1> QED
  BY <1>1, <1>7, <1>8, <1>9

LEMMA FlushLine ==
  ASSUME PostInv, FlushFill
  PROVE  LineInv' /\ FillsInv'
<1>1. /\ LineInv /\ FillsInv /\ logTopic \in Seq(Log) /\ lastSeq \in Nat /\ fills \in Seq(FillRow)
      /\ fillBuf \in Seq(FillRow) /\ fillCh \in Seq(FillRow) /\ todo \in Seq(FillRow) /\ Line \in Seq(FillRow)
  BY PostFacts
<1>2. fillCh # <<>> /\ fillCh' = Tail(fillCh) /\ UNCHANGED <<logTopic, lastSeq, todo>>
  BY DEF FlushFill
<1>3. PICK buf \in Seq(FillRow), t \in Seq(FillRow) :
        buf = Append(fillBuf, Head(fillCh)) /\ t = Tail(fillCh) /\ buf \o t = fillBuf \o fillCh
  BY <1>1, <1>2, JoinMoves
<1>4. PICK rest \in Seq(FillRow) : rest = t \o todo /\ Line = buf \o rest
  <2>1. t \o todo \in Seq(FillRow)
    BY <1>1
  <2>2. (buf \o t) \o todo = buf \o (t \o todo)
    <3>1. todo \in Seq(FillRow)
      BY <1>1
    <3> QED
      BY <3>1, JoinThree
  <2> QED
    BY <1>3, <2>1, <2>2 DEF Line
<1>5. CASE fillBuf' = buf /\ fills' = fills
  <2>1. Line' = Line
    BY <1>2, <1>3, <1>4, <1>5 DEF Line
  <2> QED
    BY <1>2, <1>5, <2>1, QuietLine, QuietFills
<1>6. PICK P : P = {k \in DOMAIN buf : ~ Recorded(buf[k])}
  OBVIOUS
<1>7. CASE fillBuf' = <<>> /\ fills' = fills \o Kept(buf, P)
  <2>1. Line' = rest
    <3>1. <<>> \o t = t
      OBVIOUS
    <3> QED
      BY <1>2, <1>3, <1>4, <1>7, <3>1 DEF Line
  <2>2. Apart(buf) /\ Apart(rest)
    BY <1>1, <1>4, ApartParts DEF LineInv
  <2>3. /\ \A k \in DOMAIN buf : Tells(buf[k])
        /\ \A k \in DOMAIN rest : Waiting(rest[k])
    <3>1. PICK m \in Nat : m = Len(buf)
      OBVIOUS
    <3>2. \A k \in DOMAIN buf : k \in DOMAIN Line /\ Line[k] = buf[k]
      BY <1>4, Joined
    <3>3. \A k \in DOMAIN rest : m + k \in DOMAIN Line /\ Line[m + k] = rest[k]
      BY <1>4, <3>1, JoinedIs
    <3>4. \A k \in DOMAIN Line : Waiting(Line[k])
      BY <1>1 DEF LineInv
    <3>5. \A k \in DOMAIN buf : Waiting(buf[k])
      BY <3>2, <3>4
    <3>6. \A k \in DOMAIN rest : Waiting(rest[k])
      BY <3>3, <3>4
    <3> QED
      BY <3>5, <3>6 DEF Waiting
  <2>4. LineInv'
    <3>1. ASSUME NEW k \in DOMAIN rest PROVE Waiting(rest[k])'
      <4>1. PICK f : f = rest[k] /\ Waiting(f)
        BY <2>3
      <4>2. Waiting(f)'
        BY <1>2, <4>1 DEF Waiting, Tells
      <4> QED
        BY <1>2, <1>3, <1>4, <4>1, <4>2 DEF Waiting, Tells
    <3> QED
      BY <1>1, <1>2, <2>1, <2>2, <3>1 DEF LineInv, Waiting, Tells, Apart
  <2>5. PICK new \in Seq(FillRow) : new = Kept(buf, P)
    BY KeptType
  <2>6. Apart(new) /\ \A j \in DOMAIN new : \E k \in DOMAIN buf : k \in P /\ new[j] = buf[k]
    BY <2>2, <2>5, KeptApart
  <2>7. Apart(fills \o new)
    <3>1. ASSUME NEW j \in DOMAIN fills, NEW k \in DOMAIN new PROVE Unlike(fills[j], new[k])
      <4>1. PICK l \in DOMAIN buf : l \in P /\ new[k] = buf[l]
        BY <2>6
      <4> QED
        BY <1>6, <4>1 DEF Recorded, Unlike
    <3> QED
      BY <1>1, <2>6, <3>1, ApartJoined DEF FillsInv
  <2>8. PICK all : all = fills \o new
    OBVIOUS
  <2>9. \A k \in DOMAIN all : Tells(all[k])
    <3>1. PICK m \in Nat : m = Len(fills)
      BY <1>1
    <3>2. /\ \A k \in DOMAIN fills : all[k] = fills[k]
          /\ \A k \in DOMAIN new : all[m + k] = new[k]
          /\ \A k \in DOMAIN all : k \in DOMAIN fills \/ (k - m \in DOMAIN new /\ k = m + (k - m))
      <4>1. fills \in Seq(FillRow)
        BY <1>1
      <4> QED
        BY <2>8, <3>1, <4>1, JoinedIs
    <3>3. \A k \in DOMAIN new : Tells(new[k])
      BY <2>3, <2>6
    <3>4. \A k \in DOMAIN fills : Tells(fills[k])
      BY <1>1 DEF FillsInv
    <3> QED
      BY <3>2, <3>3, <3>4
  <2>10. FillsInv'
    <3>1. fills' = all /\ logTopic' = logTopic
      BY <1>2, <1>7, <2>5, <2>8
    <3> QED
      BY <2>7, <2>8, <2>9, <3>1 DEF FillsInv, Tells, Apart
  <2> QED
    BY <2>4, <2>10
<1> QED
  BY <1>3, <1>5, <1>6, <1>7 DEF FlushFill, AddFills

\* Settling a fill changes only its mark.
LEMMA MarkFills ==
  ASSUME PostInv, NEW p, UNCHANGED logTopic,
         fills' = [k \in DOMAIN fills |-> IF k \in p THEN [fills[k] EXCEPT !.settled = TRUE] ELSE fills[k]]
  PROVE  /\ FillsInv' /\ DOMAIN fills' = DOMAIN fills
         /\ \A k \in DOMAIN fills :
              /\ fills'[k].order = fills[k].order /\ fills'[k].done = fills[k].done
              /\ fills'[k].size = fills[k].size /\ fills'[k].price = fills[k].price
              /\ fills'[k].settled = (fills[k].settled \/ k \in p)
<1>1. FillsInv /\ \A k \in DOMAIN fills : fills[k] \in FillRow
  BY PostFacts
<1>2. DOMAIN fills' = DOMAIN fills
  OBVIOUS
<1>3. ASSUME NEW k \in DOMAIN fills
      PROVE  /\ fills'[k].order = fills[k].order /\ fills'[k].done = fills[k].done
             /\ fills'[k].size = fills[k].size /\ fills'[k].price = fills[k].price /\ fills'[k].seq = fills[k].seq
             /\ fills'[k].settled = (fills[k].settled \/ k \in p)
  <2>1. fills[k] \in FillRow
    BY <1>1
  <2>2. CASE k \in p
    <3>1. fills'[k] = [fills[k] EXCEPT !.settled = TRUE]
      BY <2>2
    <3> QED
      BY <2>1, <2>2, <3>1 DEF FillRow
  <2>3. CASE k \notin p
    <3>1. fills'[k] = fills[k]
      BY <2>3
    <3> QED
      BY <2>1, <2>3, <3>1 DEF FillRow
  <2> QED
    BY <2>2, <2>3
<1>4. ASSUME NEW k \in DOMAIN fills PROVE Tells(fills[k])'
  BY <1>1, <1>3 DEF FillsInv, Tells
<1>5. Apart(fills)'
  <2>1. \A j, k \in DOMAIN fills : j # k => Unlike(fills'[j], fills'[k])
    BY <1>1, <1>3 DEF FillsInv, Apart, Unlike
  <2> QED
    BY <1>2, <2>1 DEF Apart
<1> QED
  BY <1>2, <1>3, <1>4, <1>5 DEF FillsInv

\* A fill that goes into fillCh stays where it is in the line.
LEMMA SendLine ==
  ASSUME PostInv, SendFill
  PROVE  Line' = Line
<1>1. todo # <<>> /\ fillBuf \in Seq(FillRow) /\ fillCh \in Seq(FillRow) /\ todo \in Seq(FillRow)
  BY PostFacts DEF SendFill
<1>2. PICK ch \in Seq(FillRow), t \in Seq(FillRow) :
        ch = Append(fillCh, Head(todo)) /\ t = Tail(todo) /\ ch \o t = fillCh \o todo
  BY <1>1, JoinMoves
<1>3. (fillBuf \o ch) \o t = fillBuf \o (ch \o t)
  <2>1. fillBuf \in Seq(FillRow)
    BY <1>1
  <2> QED
    BY <2>1, JoinThree
<1>4. (fillBuf \o fillCh) \o todo = fillBuf \o (fillCh \o todo)
  BY <1>1, JoinThree
<1>5. fillCh' = ch /\ todo' = t /\ fillBuf' = fillBuf
  BY <1>2 DEF SendFill
<1> QED
  BY <1>2, <1>3, <1>4, <1>5 DEF Line

LEMMA PostInit ==
  ASSUME Init
  PROVE  PostInv
<1>1. AccountInv
  BY AccountInit
<1>2. Line = <<>> /\ fills = <<>> /\ lastSeq = 0
  <2>1. todo = <<>> /\ fillCh = <<>> /\ fillBuf = <<>> /\ fills = <<>> /\ lastSeq = 0
    BY DEF Init
  <2>2. (<<>> \o <<>>) \o <<>> = <<>>
    OBVIOUS
  <2> QED
    BY <2>1, <2>2 DEF Line
<1> QED
  BY <1>1, <1>2 DEF PostInv, LineInv, FillsInv, Apart

LEMMA PostStep ==
  ASSUME PostInv, [Next]_vars
  PROVE  PostInv'
<1>1. AccountInv'
  BY AccountStep DEF PostInv
<1> SUFFICES LineInv' /\ FillsInv'
  BY <1>1 DEF PostInv
<1>2. ASSUME UNCHANGED <<makerVars, fills>>, logTopic' = logTopic \/ logTopic' = logTopic \o out
      PROVE  LineInv' /\ FillsInv'
  <2>1. Line' = Line /\ UNCHANGED lastSeq
    BY <1>2 DEF Line, makerVars
  <2> QED
    BY <1>2, <2>1, QuietLine, QuietFills
<1>3. ASSUME NEW i \in OrderIds, CheckBalance(i) \/ PlaceOrder(i) \/ SubmitOrder(i) \/ RequestCancel(i)
      PROVE  LineInv' /\ FillsInv'
  <2>1. UNCHANGED <<makerVars, fills, logTopic>>
    BY <1>3 DEF CheckBalance, PlaceOrder, SubmitOrder, RequestCancel, dbVars
  <2> QED
    BY <1>2, <2>1
<1>4. ASSUME NEW m \in topic, Engine(m) PROVE LineInv' /\ FillsInv'
  <2>1. UNCHANGED <<makerVars, fills, logTopic>>
    BY <1>4 DEF Engine, dbVars
  <2> QED
    BY <1>2, <2>1
<1>5. CASE EngineMatch \/ EngineLogs \/ UNCHANGED vars
  <2>1. UNCHANGED <<makerVars, fills>> /\ (logTopic' = logTopic \/ logTopic' = logTopic \o out)
    BY <1>5 DEF EngineMatch, EngineLogs, vars, dbVars
  <2> QED
    BY <1>2, <2>1
<1>6. CASE ReadLog
  <2>1. UNCHANGED <<fills, logTopic>>
    BY <1>6 DEF ReadLog
  <2> QED
    BY <1>6, <2>1, ReadLine, QuietFills
<1>7. CASE SendFill
  <2>1. UNCHANGED <<fills, logTopic, lastSeq>>
    BY <1>7 DEF SendFill, dbVars
  <2> QED
    BY <1>7, <2>1, SendLine, QuietLine, QuietFills
<1>8. CASE FlushFill
  BY <1>8, FlushLine
<1>9. ASSUME NEW i \in OrderIds, ExecuteFill(i) PROVE LineInv' /\ FillsInv'
  <2>1. UNCHANGED <<makerVars, logTopic>>
    BY <1>9 DEF ExecuteFill
  <2>2. PICK p : fills' = [k \in DOMAIN fills |->
                   IF k \in p THEN [fills[k] EXCEPT !.settled = TRUE] ELSE fills[k]]
    BY <1>9 DEF ExecuteFill
  <2>3. FillsInv'
    BY <2>1, <2>2, MarkFills
  <2>4. Line' = Line /\ UNCHANGED lastSeq
    BY <2>1 DEF Line, makerVars
  <2> QED
    BY <2>1, <2>3, <2>4, QuietLine
<1>10. ASSUME NEW u \in Users, NEW c \in Currencies, ExecuteBill(u, c) PROVE LineInv' /\ FillsInv'
  <2>1. UNCHANGED <<makerVars, fills, logTopic>>
    BY <1>10 DEF ExecuteBill
  <2> QED
    BY <1>2, <2>1
<1>11. CASE Crash
  <2>1. UNCHANGED <<fills, logTopic>> /\ todo' = <<>> /\ fillCh' = <<>> /\ fillBuf' = <<>>
    BY <1>11 DEF Crash, dbVars
  <2>2. Line' = <<>>
    <3>1. (<<>> \o <<>>) \o <<>> = <<>>
      OBVIOUS
    <3> QED
      BY <2>1, <3>1 DEF Line
  <2>3. lastSeq' \in Nat
    <3>1. CASE fills = <<>>
      BY <1>11, <3>1 DEF Crash
    <3>2. CASE fills # <<>>
      <4>1. fills[Len(fills)] \in FillRow
        BY <3>2, PostFacts
      <4>2. fills[Len(fills)].seq \in Nat
        BY <4>1 DEF FillRow
      <4> QED
        BY <1>11, <3>2, <4>2 DEF Crash
    <3> QED
      BY <3>1, <3>2
  <2>4. LineInv'
    BY <2>2, <2>3 DEF LineInv, Apart
  <2> QED
    BY <2>1, <2>4, QuietFills
<1> QED
  BY <1>3, <1>4, <1>5, <1>6, <1>7, <1>8, <1>9, <1>10, <1>11 DEF Next, Settle

-----------------------------------------------------------------------------
(* The rows. *)

FillSizes == [k \in DOMAIN fills |-> Size(fills[k])]

FillValues == [k \in DOMAIN fills |-> Value(fills[k])]

\* The trades of order i that are settled.
SettledOf(i) == {k \in DOMAIN fills : fills[k].order = i /\ fills[k].settled /\ ~ fills[k].done}

Told(i) ==
  /\ rows[i].filled = SumFunctionOnSet(FillSizes, SettledOf(i))
  /\ rows[i].executed = SumFunctionOnSet(FillValues, SettledOf(i))

RowInv == PostInv /\ \A i \in OrderIds : Told(i)

LEMMA FillNumbers ==
  ASSUME PostInv
  PROVE  /\ IsFiniteSet(DOMAIN fills) /\ DOMAIN fills = 1 .. Len(fills) /\ Len(fills) \in Nat
         /\ \A k \in DOMAIN fills : /\ FillSizes[k] = fills[k].size /\ FillSizes[k] \in Nat
                                    /\ FillValues[k] = fills[k].size * fills[k].price /\ FillValues[k] \in Nat
         /\ \A i : SettledOf(i) \subseteq DOMAIN fills
<1>1. fills \in Seq(FillRow)
  BY PostFacts
<1>2. DOMAIN fills = 1 .. Len(fills) /\ Len(fills) \in Nat
  BY <1>1
<1>3. IsFiniteSet(DOMAIN fills)
  BY <1>2, UpTo
<1>4. ASSUME NEW k \in DOMAIN fills
      PROVE  /\ FillSizes[k] = fills[k].size /\ FillSizes[k] \in Nat
             /\ FillValues[k] = fills[k].size * fills[k].price /\ FillValues[k] \in Nat
  <2>1. fills[k] \in FillRow
    BY <1>1
  <2>2. fills[k].size \in Nat /\ fills[k].price \in Nat
    BY <2>1 DEF FillRow
  <2>3. fills[k].size * fills[k].price \in Nat
    BY <2>2
  <2> QED
    BY <2>2, <2>3 DEF FillSizes, FillValues, Size, Value
<1> QED
  BY <1>2, <1>3, <1>4 DEF SettledOf

LEMMA SumAtIs ==
  ASSUME PostInv, NEW P \in SUBSET DOMAIN fills
  PROVE  /\ SumAt(P, Size) = SumFunctionOnSet(FillSizes, P)
         /\ SumAt(P, Value) = SumFunctionOnSet(FillValues, P)
         /\ SumAt(P, Size) \in Nat /\ SumAt(P, Value) \in Nat
<1>1. fills \in Seq(FillRow) /\ DOMAIN fills = 1 .. Len(fills) /\ Len(fills) \in Nat
  BY PostFacts, FillNumbers
<1>2. SumAt(P, Size) \in Nat /\ SumAt(P, Value) \in Nat
  BY <1>1, SumAtType
<1>3. SumAt(P, Size) = SumFunctionOnSet(FillSizes, P)
  <2>1. PICK s : s = [k \in DOMAIN fills |-> IF k \in P THEN Size(fills[k]) ELSE 0]
    OBVIOUS
  <2>2. /\ DOMAIN s = DOMAIN fills /\ \A k \in P : s[k] = FillSizes[k]
        /\ \A k \in DOMAIN s : k \notin P => s[k] = 0
    BY <2>1 DEF FillSizes
  <2>3. s \in Seq(Int)
    <3>1. \A k \in 1 .. Len(fills) : s[k] \in Int
      BY <1>1, <2>2, FillNumbers
    <3>2. s \in [1 .. Len(fills) -> Int]
      BY <1>1, <2>1, <3>1
    <3> QED
      BY <1>1, <3>2, ListIsSeq
  <2>4. SumOf(s) = SumFunctionOnSet(FillSizes, P)
    BY <2>2, <2>3, SumOfMarked
  <2> QED
    BY <2>1, <2>4 DEF SumAt
<1>4. SumAt(P, Value) = SumFunctionOnSet(FillValues, P)
  <2>1. PICK s : s = [k \in DOMAIN fills |-> IF k \in P THEN Value(fills[k]) ELSE 0]
    OBVIOUS
  <2>2. /\ DOMAIN s = DOMAIN fills /\ \A k \in P : s[k] = FillValues[k]
        /\ \A k \in DOMAIN s : k \notin P => s[k] = 0
    BY <2>1 DEF FillValues
  <2>3. s \in Seq(Int)
    <3>1. \A k \in 1 .. Len(fills) : s[k] \in Int
      BY <1>1, <2>2, FillNumbers
    <3>2. s \in [1 .. Len(fills) -> Int]
      BY <1>1, <2>1, <3>1
    <3> QED
      BY <1>1, <3>2, ListIsSeq
  <2>4. SumOf(s) = SumFunctionOnSet(FillValues, P)
    BY <2>2, <2>3, SumOfMarked
  <2> QED
    BY <2>1, <2>4 DEF SumAt
<1> QED
  BY <1>2, <1>3, <1>4

\* The settled trades, and what they amount to, stay the same.
LEMMA SameTold ==
  ASSUME RowInv, NEW i \in OrderIds, rows'[i].filled = rows[i].filled, rows'[i].executed = rows[i].executed,
         DOMAIN fills \subseteq DOMAIN fills',
         \A k \in DOMAIN fills : fills'[k].size = fills[k].size /\ fills'[k].price = fills[k].price,
         SettledOf(i)' = SettledOf(i)
  PROVE  Told(i)'
<1>1. PostInv /\ Told(i)
  BY DEF RowInv
<1>2. PICK S : S = SettledOf(i)
  OBVIOUS
<1>3. PICK a, b, c, d : a = FillSizes /\ b = FillValues /\ c = FillSizes' /\ d = FillValues'
  OBVIOUS
<1>4. IsFiniteSet(S) /\ \A k \in S : k \in DOMAIN fills /\ a[k] \in Int /\ b[k] \in Int
  <2>1. IsFiniteSet(DOMAIN fills) /\ S \subseteq DOMAIN fills
    BY <1>1, <1>2, FillNumbers
  <2>2. \A k \in DOMAIN fills : a[k] \in Nat /\ b[k] \in Nat
    BY <1>1, <1>3, FillNumbers
  <2> QED
    BY <2>1, <2>2, FS_Subset
<1>5. \A k \in S : c[k] = a[k] /\ d[k] = b[k]
  BY <1>3, <1>4 DEF FillSizes, FillValues, Size, Value
<1>6. SumFunctionOnSet(a, S) = SumFunctionOnSet(c, S) /\ SumFunctionOnSet(b, S) = SumFunctionOnSet(d, S)
  BY <1>4, <1>5, SumEqual
<1>7. /\ rows[i].filled = SumFunctionOnSet(a, S) /\ rows[i].executed = SumFunctionOnSet(b, S)
  BY <1>1, <1>2, <1>3 DEF Told
<1>8. /\ rows'[i].filled = SumFunctionOnSet(c, S) /\ rows'[i].executed = SumFunctionOnSet(d, S)
  BY <1>6, <1>7
<1>9. SumFunctionOnSet(FillSizes, SettledOf(i))' = SumFunctionOnSet(c, S)
  BY <1>2, <1>3 DEF SumFunctionOnSet, FoldFunctionOnSet, MapThenFoldSet
<1>10. SumFunctionOnSet(FillValues, SettledOf(i))' = SumFunctionOnSet(d, S)
  BY <1>2, <1>3 DEF SumFunctionOnSet, FoldFunctionOnSet, MapThenFoldSet
<1> QED
  BY <1>8, <1>9, <1>10 DEF Told

\* ExecuteFill of order i settles the fills p, of which the ones in ends are done.
Settling(i, p, ends, row, freed) ==
  /\ p = Processed(Fetched(i))
  /\ Live(i) /\ p \subseteq DOMAIN fills /\ ends = {k \in p : fills[k].done}
  /\ \A k \in p : fills[k].order = i /\ ~ fills[k].settled
  /\ ends = {} => row.status = rows[i].status
  /\ ends # {} => row.status \notin {"new", "open"}
  /\ row.filled = rows[i].filled + SumFunctionOnSet(FillSizes, p \ ends)
  /\ row.executed = rows[i].executed + SumFunctionOnSet(FillValues, p \ ends)
  /\ rows' = [rows EXCEPT ![i] = row]
  /\ fills' = [k \in DOMAIN fills |-> IF k \in p THEN [fills[k] EXCEPT !.settled = TRUE] ELSE fills[k]]
  /\ freed = IF ends = {} THEN <<>> ELSE Release(Order(i), row)

LEMMA SettlingIs ==
  ASSUME PostInv, NEW i \in OrderIds, ExecuteFill(i)
  PROVE  \E p, ends, row, freed :
           /\ Settling(i, p, ends, row, freed)
           /\ bills' = [bills EXCEPT
                ![User(i)] =
                   [base |-> @.base \o BaseBills(Order(i).side, Kept(fills, p \ ends))
                               \o (IF Order(i).side = "sell" THEN freed ELSE <<>>),
                    quote |-> @.quote \o QuoteBills(Order(i).side, Kept(fills, p \ ends))
                                \o (IF Order(i).side = "buy" THEN freed ELSE <<>>)]]
<1>1. fills \in Seq(FillRow) /\ \A k \in DOMAIN fills : fills[k] \in FillRow
  BY PostFacts
<1>2. PICK p, ends : p = Processed(Fetched(i)) /\ ends = {k \in p : fills[k].done}
  OBVIOUS
<1>3. p \subseteq DOMAIN fills /\ \A k \in p : fills[k].order = i /\ ~ fills[k].settled
  BY <1>2 DEF Processed, Fetched, FirstOf
<1>4. PICK st : st = IF ends = {} THEN rows[i].status ELSE fills[CHOOSE k \in ends : TRUE].reason
  OBVIOUS
<1>5. ends # {} => st \notin {"new", "open"}
  <2>1. \A k \in DOMAIN fills : fills[k].reason \in {"", "filled", "cancelled"}
    BY <1>1 DEF FillRow
  <2>2. ends # {} => (CHOOSE k \in ends : TRUE) \in DOMAIN fills
    BY <1>2, <1>3
  <2> QED
    BY <1>4, <2>1, <2>2
<1>6. PICK row : row = [status |-> st, filled |-> rows[i].filled + SumAt(p \ ends, Size),
                        executed |-> rows[i].executed + SumAt(p \ ends, Value)]
  OBVIOUS
<1>7. PICK freed : freed = IF ends = {} THEN <<>> ELSE Release(Order(i), row)
  OBVIOUS
<1>8. SumAt(p \ ends, Size) = SumFunctionOnSet(FillSizes, p \ ends) /\ SumAt(p \ ends, Value) = SumFunctionOnSet(FillValues, p \ ends)
  <2>1. p \ ends \in SUBSET DOMAIN fills
    BY <1>3
  <2> QED
    BY <2>1, SumAtIs
<1>9. /\ rows' = [rows EXCEPT ![i] = row]
      /\ fills' = [k \in DOMAIN fills |-> IF k \in p THEN [fills[k] EXCEPT !.settled = TRUE] ELSE fills[k]]
      /\ bills' = [bills EXCEPT
                ![User(i)] =
                   [base |-> @.base \o BaseBills(Order(i).side, Kept(fills, p \ ends))
                               \o (IF Order(i).side = "sell" THEN freed ELSE <<>>),
                    quote |-> @.quote \o QuoteBills(Order(i).side, Kept(fills, p \ ends))
                                \o (IF Order(i).side = "buy" THEN freed ELSE <<>>)]]
  BY <1>2, <1>4, <1>6, <1>7 DEF ExecuteFill
<1>10. /\ row.status = st /\ row.filled = rows[i].filled + SumFunctionOnSet(FillSizes, p \ ends)
       /\ row.executed = rows[i].executed + SumFunctionOnSet(FillValues, p \ ends)
  BY <1>6, <1>8
<1>11. Live(i)
  BY DEF ExecuteFill
<1>12. Settling(i, p, ends, row, freed)
  <2>1. (ends = {} => row.status = rows[i].status) /\ (ends # {} => row.status \notin {"new", "open"})
    BY <1>4, <1>5, <1>10
  <2>2. /\ row.filled = rows[i].filled + SumFunctionOnSet(FillSizes, p \ ends)
        /\ row.executed = rows[i].executed + SumFunctionOnSet(FillValues, p \ ends)
    BY <1>10
  <2>3. /\ rows' = [rows EXCEPT ![i] = row]
        /\ fills' = [k \in DOMAIN fills |-> IF k \in p THEN [fills[k] EXCEPT !.settled = TRUE] ELSE fills[k]]
    BY <1>9
  <2> QED
    BY <1>2, <1>3, <1>7, <1>11, <2>1, <2>2, <2>3, Zenon DEF Settling
<1> QED
  BY <1>9, <1>12

LEMMA FillTold ==
  ASSUME RowInv, NEW i \in OrderIds, ExecuteFill(i), NEW j \in OrderIds
  PROVE  Told(j)'
<1>1. PostInv /\ Told(i) /\ rows \in [OrderIds -> Row] /\ UNCHANGED logTopic
  BY DEF RowInv, PostInv, AccountInv, BaseInv, TableInv, ExecuteFill
<1>2. PICK p, ends, row, freed : Settling(i, p, ends, row, freed)
  BY <1>1, SettlingIs
<1>3. /\ p \subseteq DOMAIN fills /\ ends = {k \in p : fills[k].done}
      /\ \A k \in p : fills[k].order = i /\ ~ fills[k].settled
      /\ rows' = [rows EXCEPT ![i] = row]
      /\ fills' = [k \in DOMAIN fills |-> IF k \in p THEN [fills[k] EXCEPT !.settled = TRUE] ELSE fills[k]]
  BY <1>2 DEF Settling
<1>4. /\ DOMAIN fills' = DOMAIN fills
      /\ \A k \in DOMAIN fills :
           /\ fills'[k].order = fills[k].order /\ fills'[k].done = fills[k].done
           /\ fills'[k].size = fills[k].size /\ fills'[k].price = fills[k].price
           /\ fills'[k].settled = (fills[k].settled \/ k \in p)
  BY <1>1, <1>3, MarkFills
<1>5. CASE j # i
  <2>1. SettledOf(j)' = SettledOf(j)
    BY <1>3, <1>4, <1>5 DEF SettledOf
  <2>2. rows'[j] = rows[j]
    BY <1>1, <1>3, <1>5
  <2> QED
    BY <1>4, <2>1, <2>2, SameTold
<1>6. CASE j = i
  <2>1. PICK S, T : S = SettledOf(i) /\ T = p \ ends
    OBVIOUS
  <2>2. S \cap T = {} /\ S \subseteq DOMAIN fills /\ T \subseteq DOMAIN fills
    BY <1>3, <2>1 DEF SettledOf
  <2>3. SettledOf(i)' = S \cup T
    <3>1. \A k \in DOMAIN fills : fills[k].done \in BOOLEAN /\ fills[k].settled \in BOOLEAN
      <4>1. \A k \in DOMAIN fills : fills[k] \in FillRow
        BY <1>1, PostFacts
      <4> QED
        BY <4>1 DEF FillRow
    <3> QED
      BY <1>3, <1>4, <2>1, <3>1 DEF SettledOf
  <2>4. PICK a, b, c, d : a = FillSizes /\ b = FillValues /\ c = FillSizes' /\ d = FillValues'
    OBVIOUS
  <2>5. \A k \in DOMAIN fills : a[k] \in Nat /\ b[k] \in Nat /\ c[k] = a[k] /\ d[k] = b[k]
    <3>1. \A k \in DOMAIN fills : a[k] \in Nat /\ b[k] \in Nat
      BY <1>1, <2>4, FillNumbers
    <3>2. \A k \in DOMAIN fills : c[k] = a[k] /\ d[k] = b[k]
      BY <1>4, <2>4 DEF FillSizes, FillValues, Size, Value
    <3> QED
      BY <3>1, <3>2
  <2>6. IsFiniteSet(S) /\ IsFiniteSet(T) /\ IsFiniteSet(S \cup T)
    <3>1. IsFiniteSet(DOMAIN fills)
      BY <1>1, FillNumbers
    <3> QED
      BY <2>2, <3>1, FS_Subset, FS_Union
  <2>7. \A k \in S \cup T : a[k] \in Int /\ b[k] \in Int /\ a[k] = c[k] /\ b[k] = d[k]
    BY <2>2, <2>5
  <2>8. SumFunctionOnSet(a, S \cup T) = SumFunctionOnSet(c, S \cup T) /\ SumFunctionOnSet(b, S \cup T) = SumFunctionOnSet(d, S \cup T)
    BY <2>6, <2>7, SumEqual
  <2>9. SumFunctionOnSet(a, S \cup T) = SumFunctionOnSet(a, S) + SumFunctionOnSet(a, T)
    BY <2>2, <2>6, <2>7, SumUnion
  <2>10. SumFunctionOnSet(b, S \cup T) = SumFunctionOnSet(b, S) + SumFunctionOnSet(b, T)
    BY <2>2, <2>6, <2>7, SumUnion
  <2>11. rows'[i] = row
    BY <1>1, <1>3
  <2>12. rows[i].filled = SumFunctionOnSet(a, S) /\ rows[i].executed = SumFunctionOnSet(b, S)
    BY <1>1, <2>1, <2>4 DEF Told
  <2>13. row.filled = rows[i].filled + SumFunctionOnSet(a, T) /\ row.executed = rows[i].executed + SumFunctionOnSet(b, T)
    BY <1>2, <2>1, <2>4 DEF Settling
  <2>14. rows'[i].filled = SumFunctionOnSet(c, S \cup T) /\ rows'[i].executed = SumFunctionOnSet(d, S \cup T)
    BY <2>8, <2>9, <2>10, <2>11, <2>12, <2>13
  <2>15. PICK U : U = S \cup T
    OBVIOUS
  <2>16. SumFunctionOnSet(FillSizes, SettledOf(i))' = SumFunctionOnSet(c, U)
    BY <2>3, <2>4, <2>15 DEF SumFunctionOnSet, FoldFunctionOnSet, MapThenFoldSet
  <2>17. SumFunctionOnSet(FillValues, SettledOf(i))' = SumFunctionOnSet(d, U)
    BY <2>3, <2>4, <2>15 DEF SumFunctionOnSet, FoldFunctionOnSet, MapThenFoldSet
  <2> QED
    BY <1>6, <2>14, <2>15, <2>16, <2>17 DEF Told
<1> QED
  BY <1>5, <1>6

\* The flusher adds fills that are not settled.
LEMMA FlushKeeps ==
  ASSUME PostInv, FlushFill
  PROVE  /\ \A k \in DOMAIN fills : k \in DOMAIN fills' /\ fills'[k] = fills[k]
         /\ \A k \in DOMAIN fills' : k \notin DOMAIN fills => ~ fills'[k].settled
<1>1. /\ LineInv /\ fills \in Seq(FillRow) /\ fillBuf \in Seq(FillRow) /\ fillCh \in Seq(FillRow)
      /\ todo \in Seq(FillRow)
  BY PostFacts
<1>2. fillCh # <<>>
  BY DEF FlushFill
<1>3. PICK buf \in Seq(FillRow), t \in Seq(FillRow) :
        buf = Append(fillBuf, Head(fillCh)) /\ t = Tail(fillCh) /\ buf \o t = fillBuf \o fillCh
  BY <1>1, <1>2, JoinMoves
<1>4. CASE fills' = fills
  BY <1>4
<1>5. PICK P : P = {k \in DOMAIN buf : ~ Recorded(buf[k])}
  OBVIOUS
<1>6. CASE fills' = fills \o Kept(buf, P)
  <2>1. PICK rest \in Seq(FillRow) : Line = buf \o rest
    <3>1. t \o todo \in Seq(FillRow)
      BY <1>1
    <3>2. (buf \o t) \o todo = buf \o (t \o todo)
      <4>1. todo \in Seq(FillRow)
        BY <1>1
      <4> QED
        BY <4>1, JoinThree
    <3> QED
      BY <1>3, <3>1, <3>2 DEF Line
  <2>2. \A k \in DOMAIN buf : ~ buf[k].settled
    <3>1. \A k \in DOMAIN buf : k \in DOMAIN Line /\ Line[k] = buf[k]
      BY <2>1, Joined
    <3> QED
      BY <1>1, <3>1 DEF LineInv, Waiting
  <2>3. Apart(buf)
    BY <1>1, <2>1, ApartParts DEF LineInv
  <2>4. PICK new \in Seq(FillRow) : new = Kept(buf, P)
    BY KeptType
  <2>5. \A j \in DOMAIN new : ~ new[j].settled
    <3>1. \A j \in DOMAIN new : \E k \in DOMAIN buf : k \in P /\ new[j] = buf[k]
      BY <2>3, <2>4, KeptApart
    <3> QED
      BY <2>2, <3>1
  <2>6. PICK m \in Nat : m = Len(fills)
    BY <1>1
  <2>7. PICK all : all = fills \o new /\ fills' = all
    BY <1>6, <2>4
  <2>8. /\ \A k \in DOMAIN fills : k \in DOMAIN all /\ all[k] = fills[k]
        /\ \A k \in DOMAIN new : all[m + k] = new[k]
        /\ \A k \in DOMAIN all : k \in DOMAIN fills \/ (k - m \in DOMAIN new /\ k = m + (k - m))
    <3>1. fills \in Seq(FillRow) /\ all = fills \o new
      BY <1>1, <2>7
    <3> QED
      BY <2>6, <3>1, JoinedIs
  <2>9. ASSUME NEW k \in DOMAIN all, k \notin DOMAIN fills PROVE ~ all[k].settled
    BY <2>5, <2>8, <2>9
  <2> QED
    BY <2>7, <2>8, <2>9
<1> QED
  BY <1>3, <1>4, <1>5, <1>6 DEF FlushFill, AddFills

LEMMA RowInit ==
  ASSUME Init
  PROVE  RowInv
<1>1. PostInv
  BY PostInit
<1>2. ASSUME NEW i \in OrderIds PROVE Told(i)
  <2>1. SettledOf(i) = {}
    BY DEF SettledOf, Init
  <2>2. rows[i].filled = 0 /\ rows[i].executed = 0
    BY DEF Init
  <2>3. SumFunctionOnSet(FillSizes, {}) = 0 /\ SumFunctionOnSet(FillValues, {}) = 0
    BY SumOfNone
  <2> QED
    BY <2>1, <2>2, <2>3 DEF Told
<1> QED
  BY <1>1, <1>2 DEF RowInv

LEMMA RowStep ==
  ASSUME RowInv, [Next]_vars
  PROVE  RowInv'
<1>1. PostInv /\ rows \in [OrderIds -> Row] /\ fills \in Seq(FillRow) /\ logTopic \in Seq(Log) /\ readPos \in Nat
  BY PostFacts DEF RowInv, PostInv, AccountInv, BaseInv, TableInv
<1>2. PostInv'
  BY <1>1, PostStep
<1> SUFFICES ASSUME NEW j \in OrderIds PROVE Told(j)'
  BY <1>2 DEF RowInv
<1>3. ASSUME UNCHANGED fills, rows'[j].filled = rows[j].filled, rows'[j].executed = rows[j].executed PROVE Told(j)'
  <2>1. SettledOf(j)' = SettledOf(j)
    BY <1>3 DEF SettledOf
  <2> QED
    BY <1>3, <2>1, SameTold
<1>4. ASSUME NEW i \in OrderIds, CheckBalance(i) \/ SubmitOrder(i) \/ RequestCancel(i) PROVE Told(j)'
  <2>1. UNCHANGED <<rows, fills>>
    BY <1>4 DEF CheckBalance, SubmitOrder, RequestCancel, dbVars
  <2> QED
    BY <1>3, <2>1
<1>5. ASSUME NEW i \in OrderIds, PlaceOrder(i) PROVE Told(j)'
  <2>1. rows' = [rows EXCEPT ![i].status = "new"] /\ UNCHANGED fills
    BY <1>5 DEF PlaceOrder
  <2>2. rows'[j].filled = rows[j].filled /\ rows'[j].executed = rows[j].executed
    BY <1>1, <2>1 DEF Row
  <2> QED
    BY <1>3, <2>1, <2>2
<1>6. ASSUME NEW m \in topic, Engine(m) PROVE Told(j)'
  <2>1. UNCHANGED <<rows, fills>>
    BY <1>6 DEF Engine, dbVars
  <2> QED
    BY <1>3, <2>1
<1>7. CASE EngineMatch \/ EngineLogs \/ SendFill \/ Crash \/ UNCHANGED vars
  <2>1. UNCHANGED <<rows, fills>>
    BY <1>7 DEF EngineMatch, EngineLogs, SendFill, Crash, vars, dbVars
  <2> QED
    BY <1>3, <2>1
<1>8. CASE ReadLog
  <2>1. PICK i : rows' = rows \/ rows' = [rows EXCEPT ![i].status = "open"]
    BY <1>8 DEF ReadLog
  <2>2. UNCHANGED fills
    BY <1>8 DEF ReadLog
  <2>3. rows'[j].filled = rows[j].filled /\ rows'[j].executed = rows[j].executed
    <3>1. CASE rows'[j] = rows[j]
      BY <3>1
    <3>2. CASE i = j /\ rows' = [rows EXCEPT ![i].status = "open"]
      BY <1>1, <3>2 DEF Row
    <3>3. CASE i # j
      BY <1>1, <2>1, <3>3
    <3> QED
      BY <2>1, <3>1, <3>2, <3>3
  <2> QED
    BY <1>3, <2>2, <2>3
<1>9. CASE FlushFill
  <2>1. UNCHANGED rows
    BY <1>9 DEF FlushFill
  <2>2. /\ \A k \in DOMAIN fills : k \in DOMAIN fills' /\ fills'[k] = fills[k]
        /\ \A k \in DOMAIN fills' : k \notin DOMAIN fills => ~ fills'[k].settled
    BY <1>1, <1>9, FlushKeeps
  <2>3. SettledOf(j)' = SettledOf(j)
    BY <2>2 DEF SettledOf
  <2> QED
    BY <2>1, <2>2, <2>3, SameTold
<1>10. ASSUME NEW i \in OrderIds, ExecuteFill(i) PROVE Told(j)'
  BY <1>10, FillTold
<1>11. ASSUME NEW u \in Users, NEW c \in Currencies, ExecuteBill(u, c) PROVE Told(j)'
  <2>1. UNCHANGED <<rows, fills>>
    BY <1>11 DEF ExecuteBill
  <2> QED
    BY <1>3, <2>1
<1> QED
  BY <1>4, <1>5, <1>6, <1>7, <1>8, <1>9, <1>10, <1>11 DEF Next, Settle

\* What the settled trades of an order have used of what PlaceOrder put on hold for it.
Spent(i) == IF Order(i).side = "buy" THEN rows[i].executed ELSE rows[i].filled

\* It is never more than that: each settled trade is a match log of its own.
LEMMA WithinHold ==
  ASSUME RowInv, NEW i \in OrderIds
  PROVE  Spent(i) \in Nat /\ HoldSize(Order(i)) \in Nat /\ Spent(i) <= HoldSize(Order(i))
<1>1. /\ PostInv /\ FillsInv /\ AccountInv /\ Told(i) /\ Account(i) /\ StoryInv
      /\ Story \in Seq(Log) /\ logTopic \in Seq(Log) /\ out \in Seq(Log) /\ fills \in Seq(FillRow)
      /\ Order(i) \in Orders /\ Order(i) \in BookOrder /\ Order(i).id = i
  BY PostFacts, Facts DEF RowInv
<1>2. PICK o : o = Order(i)
  OBVIOUS
<1>3. PICK w \in [Log -> Nat] : w = CostOf(o)
  BY CostType
<1>4. PICK s : s = Weighed(w, Story)
  OBVIOUS
<1>5. s \in Seq(Int) /\ DOMAIN s = DOMAIN Story /\ \A n \in DOMAIN Story : s[n] = w[Story[n]] /\ s[n] \in Nat
  <2>1. w \in [Log -> Int]
    BY <1>3, CostType
  <2>2. s \in Seq(Int)
    BY <1>1, <1>4, <2>1, WeighedType
  <2>3. \A n \in DOMAIN Story : Story[n] \in Log
    BY <1>1
  <2>4. DOMAIN s = DOMAIN Story /\ \A n \in DOMAIN Story : s[n] = w[Story[n]]
    BY <1>4 DEF Weighed
  <2> QED
    BY <2>2, <2>3, <2>4
<1>6. Charged(i) = SumFunctionOnSet(s, DOMAIN s) /\ IsFiniteSet(DOMAIN s)
  <2>1. SumOf(s) = SumFunctionOnSet(s, DOMAIN s) /\ IsFiniteSet(DOMAIN s)
    BY <1>5, SumOfMarked
  <2> QED
    BY <1>2, <1>3, <1>4, <2>1 DEF Charged, Charge
<1>7. PICK S : S = SettledOf(i)
  OBVIOUS
<1>8. IsFiniteSet(S) /\ S \subseteq DOMAIN fills
  BY <1>1, <1>7, FillNumbers, FS_Subset
<1>9. PICK b, f : b = [k \in DOMAIN fills |-> fills[k].seq] /\ f = IF o.side = "buy" THEN FillValues ELSE FillSizes
  OBVIOUS
<1>10. ASSUME NEW k \in S PROVE b[k] \in DOMAIN s /\ s[b[k]] = f[k] /\ f[k] \in Int
  <2>1. k \in DOMAIN fills /\ fills[k].order = i /\ ~ fills[k].done
    BY <1>7 DEF SettledOf
  <2>2. PICK q : q = fills[k].seq /\ b[k] = q
    BY <1>9, <2>1
  <2>3. PICK log : log = logTopic[q]
    OBVIOUS
  <2>4. q \in DOMAIN logTopic /\ i \in {log.order, log.maker} /\ fills[k].size = log.size
        /\ log.type = "match" /\ fills[k].price = log.price
    BY <1>1, <2>1, <2>2, <2>3 DEF FillsInv, Tells
  <2>5. q \in DOMAIN Story /\ Story[q] = log /\ log \in Log
    <3>1. q \in DOMAIN Story /\ Story[q] = logTopic[q]
      BY <1>1, <2>4, Joined DEF Story
    <3>2. logTopic[q] \in Log
      BY <1>1, <2>4
    <3> QED
      BY <2>3, <3>1, <3>2
  <2>6. w[log] = IF o.side = "buy" THEN log.size * log.price ELSE log.size
    BY <1>1, <1>2, <1>3, <2>4, <2>5 DEF CostOf
  <2>7. FillSizes[k] = fills[k].size /\ FillValues[k] = fills[k].size * fills[k].price /\ FillSizes[k] \in Nat /\ FillValues[k] \in Nat
    BY <1>1, <2>1, FillNumbers
  <2>8. f[k] = w[log]
    BY <1>9, <2>4, <2>6, <2>7
  <2>9. f[k] \in Int
    BY <1>9, <2>7
  <2> QED
    BY <1>5, <2>2, <2>5, <2>8, <2>9
<1>11. ASSUME NEW j \in S, NEW k \in S, b[j] = b[k] PROVE j = k
  <2>1. j \in DOMAIN fills /\ k \in DOMAIN fills /\ fills[j].order = i /\ fills[k].order = i
    BY <1>7 DEF SettledOf
  <2>2. fills[j].seq = fills[k].seq
    BY <1>9, <1>11, <2>1
  <2> QED
    BY <1>1, <2>1, <2>2 DEF FillsInv, Apart, Unlike
<1>12. SumFunctionOnSet(s, ImageOf(b, S)) = SumFunctionOnSet(f, S)
  BY <1>8, <1>10, <1>11, SumOfImage
<1>13. ImageOf(b, S) \in SUBSET DOMAIN s
  BY <1>10 DEF ImageOf
<1>14. SumFunctionOnSet(s, ImageOf(b, S)) <= SumFunctionOnSet(s, DOMAIN s) /\ SumFunctionOnSet(s, ImageOf(b, S)) \in Nat
  BY <1>5, <1>6, <1>13, SumOfPart
<1>15. Spent(i) = SumFunctionOnSet(f, S)
  BY <1>1, <1>2, <1>7, <1>9 DEF Spent, Told
<1>16. Charged(i) <= Claim(o) /\ Charged(i) \in Nat /\ Claim(o) \in Nat
  BY <1>1, <1>2, ChargedType DEF Account
<1>17. Claim(o) = HoldSize(o)
  <2>1. o.side = "buy" \/ o.side = "sell"
    BY <1>1, <1>2 DEF BookOrder, Sides
  <2>2. (o.side = "buy" => Claim(o) = o.funds) /\ (o.side = "sell" => Claim(o) = o.size)
    BY <1>1, <1>2, HoldClaim
  <2> QED
    BY <2>1, <2>2 DEF HoldSize
<1>18. PICK x \in Nat, y \in Nat, z \in Nat : x = Spent(i) /\ y = Charged(i) /\ z = HoldSize(o) /\ x <= y /\ y <= z
  BY <1>6, <1>12, <1>14, <1>15, <1>16, <1>17
<1> QED
  BY <1>2, <1>18

-----------------------------------------------------------------------------
(* What an account holds. *)

HoldField == [b \in Credit |-> b.hold]

\* What unsettled bills add to the hold.
Due(s) == SumOf(Weighed(HoldField, s))

\* What a row with this content reserves for its order.
ReservedBy(o, row) ==
  IF row.status \notin {"new", "open"} THEN 0
  ELSE IF o.side = "buy" THEN o.funds - row.executed ELSE o.size - row.filled

Own(u, c) == {i \in OrderIds : User(i) = u /\ HoldCurrency(Order(i)) = c}

Holding == [i \in OrderIds |-> Reserved(i)]

HoldAt(u, c) == Total(u, c, "hold") = SumFunctionOnSet(Holding, Own(u, c))

LEMMA DueType ==
  ASSUME NEW s \in Seq(Credit)
  PROVE  Due(s) \in Int
<1>1. HoldField \in [Credit -> Int]
  BY DEF HoldField, Credit
<1>2. Weighed(HoldField, s) \in Seq(Int)
  BY <1>1, WeighedType
<1> QED
  BY <1>2, SumIsAmount DEF Due

LEMMA DueConcat ==
  ASSUME NEW s \in Seq(Credit), NEW t \in Seq(Credit)
  PROVE  Due(s \o t) = Due(s) + Due(t) /\ s \o t \in Seq(Credit)
<1>1. HoldField \in [Credit -> Int]
  BY DEF HoldField, Credit
<1>2. PICK a \in Seq(Int), b \in Seq(Int) : a = Weighed(HoldField, s) /\ b = Weighed(HoldField, t)
  BY <1>1, WeighedType
<1>3. Weighed(HoldField, s \o t) = a \o b
  BY <1>1, <1>2, WeighedConcat
<1>4. SumOf(a \o b) = SumOf(a) + SumOf(b)
  BY SumConcat
<1> QED
  BY <1>2, <1>3, <1>4 DEF Due

LEMMA HoldsOf ==
  ASSUME NEW s \in Seq(Credit)
  PROVE  [k \in DOMAIN s |-> s[k].hold] = Weighed(HoldField, s)
<1>1. \A k \in DOMAIN s : s[k] \in Credit
  OBVIOUS
<1>2. \A k \in DOMAIN s : HoldField[s[k]] = s[k].hold
  BY <1>1 DEF HoldField
<1> QED
  BY <1>2 DEF Weighed

LEMMA HoldTotal ==
  ASSUME NEW a \in [available : Int, hold : Int], NEW s \in Seq(Credit)
  PROVE  /\ a["hold"] + SumOf([k \in DOMAIN s |-> s[k]["hold"]]) = a.hold + Due(s)
         /\ a.hold \in Int /\ Due(s) \in Int
<1>1. [k \in DOMAIN s |-> s[k].hold] = Weighed(HoldField, s)
  BY HoldsOf
<1>2. [k \in DOMAIN s |-> s[k]["hold"]] = [k \in DOMAIN s |-> s[k].hold] /\ a["hold"] = a.hold
  <2>1. \A k \in DOMAIN s : s[k] \in Credit
    OBVIOUS
  <2>2. a["hold"] = a.hold
    OBVIOUS
  <2>3. \A k \in DOMAIN s : s[k]["hold"] = s[k].hold
    BY <2>1 DEF Credit
  <2> QED
    BY <2>2, <2>3
<1>3. a.hold \in Int
  OBVIOUS
<1> QED
  BY <1>1, <1>2, <1>3, DueType DEF Due

LEMMA ReservedIs ==
  ASSUME NEW i \in OrderIds
  PROVE  /\ Reserved(i) = ReservedBy(Order(i), rows[i])
         /\ plan' = plan => Reserved(i)' = ReservedBy(Order(i), rows'[i])
  BY DEF Reserved, ReservedBy, Live, Order

LEMMA ReservedType ==
  ASSUME NEW o \in BookOrder, NEW row \in Row
  PROVE  ReservedBy(o, row) \in Int
<1>1. o.funds \in Nat /\ o.size \in Nat /\ row.executed \in Nat /\ row.filled \in Nat
  BY DEF BookOrder, Row
<1>2. (o.funds - row.executed) \in Int /\ (o.size - row.filled) \in Int
  BY <1>1
<1> QED
  BY <1>2 DEF ReservedBy

\* The terms of e over S are those of f, but for the one of y, which is d more.
Shifted(S, f, e, y, d) ==
  /\ y \in S /\ d \in Int
  /\ \A x \in S : f[x] \in Int
  /\ \A x \in S : e[x] \in Int
  /\ \A x \in S : x # y => e[x] = f[x]
  /\ e[y] = f[y] + d

LEMMA SumShift ==
  ASSUME NEW S, IsFiniteSet(S), NEW f, NEW e, NEW y, NEW d, Shifted(S, f, e, y, d)
  PROVE  SumFunctionOnSet(e, S) = SumFunctionOnSet(f, S) + d
<1>5. y \in S /\ d \in Int /\ e[y] = f[y] + d
  BY DEF Shifted
<1>6. \A x \in S : f[x] \in Int
  BY DEF Shifted
<1>7. \A x \in S : e[x] \in Int
  BY DEF Shifted
<1>8. \A x \in S : x # y => e[x] = f[x]
  BY DEF Shifted
<1>1. SumFunctionOnSet(f, S) = f[y] + SumFunctionOnSet(f, S \ {y}) /\ SumFunctionOnSet(f, S \ {y}) \in Int
  BY <1>5, <1>6, SumWithout
<1>2. SumFunctionOnSet(e, S) = e[y] + SumFunctionOnSet(e, S \ {y})
  BY <1>5, <1>7, SumWithout
<1>3. SumFunctionOnSet(f, S \ {y}) = SumFunctionOnSet(e, S \ {y})
  <2>1. IsFiniteSet(S \ {y})
    BY FS_Subset
  <2>2. \A x \in S \ {y} : f[x] \in Int /\ f[x] = e[x]
    BY <1>6, <1>8
  <2> QED
    BY <2>1, <2>2, SumEqual
<1>4. f[y] \in Int /\ e[y] \in Int
  BY <1>5, <1>6, <1>7
<1> QED
  BY <1>1, <1>2, <1>3, <1>4, <1>5

\* An account's hold changes by what the row of one of its orders reserves more or less.
LEMMA HoldMoves ==
  ASSUME IsFiniteSet(OrderIds), RowInv, UNCHANGED plan, rows' \in [OrderIds -> Row],
         NEW u \in Users, NEW c \in Currencies, HoldAt(u, c),
         NEW a \in [available : Int, hold : Int], NEW s \in Seq(Credit),
         a = accounts'[u][c], s = bills'[u][c], NEW d \in Int,
         a.hold + Due(s) = accounts[u][c].hold + Due(bills[u][c]) + d,
         NEW y, \A x \in OrderIds : x # y => rows'[x] = rows[x],
         y \in Own(u, c) => ReservedBy(Order(y), rows'[y]) = ReservedBy(Order(y), rows[y]) + d,
         y \notin Own(u, c) => d = 0
  PROVE  HoldAt(u, c)'
<1>1. /\ rows \in [OrderIds -> Row] /\ bills[u][c] \in Seq(Credit) /\ plan \in Plans
      /\ accounts[u][c] \in [available : Int, hold : Int]
  BY DEF RowInv, PostInv, AccountInv, BaseInv, TableInv, PipeInv
<1>2. PICK f, e, S : f = Holding /\ e = Holding' /\ S = Own(u, c)
  OBVIOUS
<1>3. IsFiniteSet(S) /\ S \subseteq OrderIds
  BY <1>2, FS_Subset DEF Own
<1>4. ASSUME NEW x \in OrderIds
      PROVE  f[x] = ReservedBy(Order(x), rows[x]) /\ e[x] = ReservedBy(Order(x), rows'[x]) /\ f[x] \in Int /\ e[x] \in Int
  <2>1. f[x] = ReservedBy(Order(x), rows[x])
    BY <1>2, ReservedIs DEF Holding
  <2>2. e[x] = ReservedBy(Order(x), rows'[x])
    <3>1. e = [i \in OrderIds |-> Reserved(i)']
      BY <1>2 DEF Holding
    <3>2. e[x] = Reserved(x)'
      BY <3>1
    <3> QED
      BY <3>2, ReservedIs
  <2>3. Order(x) \in BookOrder
    BY <1>1, PlanType, OrdersType
  <2>4. rows[x] \in Row /\ rows'[x] \in Row
    BY <1>1
  <2>5. ReservedBy(Order(x), rows[x]) \in Int /\ ReservedBy(Order(x), rows'[x]) \in Int
    BY <2>3, <2>4, ReservedType
  <2> QED
    BY <2>1, <2>2, <2>5
<1>5. SumFunctionOnSet(e, S) = SumFunctionOnSet(f, S) + d /\ SumFunctionOnSet(f, S) \in Int
  <2>1. \A x \in S : f[x] \in Int
    BY <1>3, <1>4
  <2>5. \A x \in S : e[x] \in Int
    BY <1>3, <1>4
  <2>2. \A x \in S : x # y => e[x] = f[x]
    BY <1>3, <1>4
  <2>3. SumFunctionOnSet(f, S) \in Int
    BY <1>3, <2>1, SumType
  <2>4. CASE y \in S
    <3>1. e[y] = f[y] + d
      BY <1>2, <1>3, <1>4, <2>4
    <3>2. SumFunctionOnSet(e, S) = SumFunctionOnSet(f, S) + d
      <4>1. IsFiniteSet(S)
        BY <1>3
      <4>2. Shifted(S, f, e, y, d)
        BY <2>1, <2>2, <2>4, <2>5, <3>1 DEF Shifted
      <4> QED
        BY <4>1, <4>2, SumShift
    <3> QED
      BY <2>3, <3>2
  <2>6. CASE y \notin S
    <3>1. \A x \in S : f[x] \in Int /\ f[x] = e[x]
      BY <2>1, <2>2, <2>6
    <3>2. SumFunctionOnSet(f, S) = SumFunctionOnSet(e, S)
      BY <1>3, <3>1, SumEqual
    <3> QED
      BY <1>2, <2>3, <2>6, <3>2
  <2> QED
    BY <2>4, <2>6
<1>6. PICK b \in [available : Int, hold : Int], t \in Seq(Credit) : b = accounts[u][c] /\ t = bills[u][c]
  BY <1>1
<1>7. Total(u, c, "hold") = b.hold + Due(t)
  <2>1. Total(u, c, "hold") = b["hold"] + SumOf([k \in DOMAIN t |-> t[k]["hold"]])
    BY <1>6 DEF Total
  <2> QED
    BY <2>1, HoldTotal
<1>8. Total(u, c, "hold")' = a.hold + Due(s)
  <2>1. Total(u, c, "hold")' = a["hold"] + SumOf([k \in DOMAIN s |-> s[k]["hold"]])
    BY DEF Total, SumOf
  <2> QED
    BY <2>1, HoldTotal
<1>9. b.hold + Due(t) = SumFunctionOnSet(f, S)
  BY <1>2, <1>7 DEF HoldAt
<1>10. a.hold + Due(s) = SumFunctionOnSet(e, S)
  BY <1>5, <1>6, <1>9
<1>11. Own(u, c)' = S
  BY <1>2 DEF Own, User, Order
<1>12. SumFunctionOnSet(Holding, Own(u, c))' = SumFunctionOnSet(e, S)
  BY <1>2, <1>11 DEF SumFunctionOnSet, FoldFunctionOnSet, MapThenFoldSet
<1> QED
  BY <1>8, <1>10, <1>12 DEF HoldAt

LEMMA HoldFacts ==
  ASSUME RowInv, NEW u \in Users, NEW c \in Currencies
  PROVE  /\ rows \in [OrderIds -> Row] /\ bills \in [Users -> [Currencies -> Seq(Credit)]] /\ plan \in Plans
         /\ accounts \in [Users -> [Currencies -> [available : Int, hold : Int]]]
         /\ accounts[u][c] \in [available : Int, hold : Int] /\ bills[u][c] \in Seq(Credit)
         /\ accounts[u][c].hold \in Int /\ Due(bills[u][c]) \in Int
<1>1. /\ rows \in [OrderIds -> Row] /\ bills \in [Users -> [Currencies -> Seq(Credit)]] /\ plan \in Plans
      /\ accounts \in [Users -> [Currencies -> [available : Int, hold : Int]]]
  BY DEF RowInv, PostInv, AccountInv, BaseInv, TableInv, PipeInv
<1>2. accounts[u][c] \in [available : Int, hold : Int] /\ bills[u][c] \in Seq(Credit)
  BY <1>1
<1>3. accounts[u][c].hold \in Int
  BY <1>2
<1> QED
  BY <1>1, <1>2, <1>3, DueType

\* The accounts and bills stay, and so does what each row reserves.
LEMMA HoldStays ==
  ASSUME IsFiniteSet(OrderIds), RowInv, UNCHANGED <<plan, accounts, bills>>, rows' \in [OrderIds -> Row],
         NEW u \in Users, NEW c \in Currencies, HoldAt(u, c),
         NEW y, \A x \in OrderIds : x # y => rows'[x] = rows[x],
         y \in OrderIds => ReservedBy(Order(y), rows'[y]) = ReservedBy(Order(y), rows[y])
  PROVE  HoldAt(u, c)'
<1>1. PICK a \in [available : Int, hold : Int], s \in Seq(Credit) : a = accounts[u][c] /\ s = bills[u][c]
  BY HoldFacts
<1>2. a.hold + Due(s) = accounts[u][c].hold + Due(bills[u][c]) + 0
  BY <1>1, HoldFacts
<1>3. y \in Own(u, c) => ReservedBy(Order(y), rows'[y]) = ReservedBy(Order(y), rows[y]) + 0
  <2> SUFFICES ASSUME y \in OrderIds PROVE ReservedBy(Order(y), rows'[y]) = ReservedBy(Order(y), rows[y]) + 0
    BY DEF Own
  <2>1. plan \in Plans /\ rows[y] \in Row
    BY HoldFacts
  <2>2. Order(y) \in BookOrder
    BY <2>1, PlanType, OrdersType
  <2>3. ReservedBy(Order(y), rows[y]) \in Int
    BY <2>1, <2>2, ReservedType
  <2> QED
    BY <2>3
<1>4. UNCHANGED plan /\ a = accounts'[u][c] /\ s = bills'[u][c] /\ 0 \in Int
  BY <1>1
<1> QED
  BY <1>2, <1>3, <1>4, HoldMoves

LEMMA HoldPlace ==
  ASSUME IsFiniteSet(OrderIds), RowInv, NEW i \in OrderIds, PlaceOrder(i), rows' \in [OrderIds -> Row],
         NEW u \in Users, NEW c \in Currencies, HoldAt(u, c)
  PROVE  HoldAt(u, c)'
<1>1. PICK h : h = HoldSize(Order(i))
  OBVIOUS
<1>2. /\ UNCHANGED <<plan, bills>> /\ i \in checked
      /\ accounts' = [accounts EXCEPT ![User(i)][HoldCurrency(Order(i))] =
                        [available |-> @.available - h, hold |-> @.hold + h]]
      /\ rows' = [rows EXCEPT ![i].status = "new"]
  BY <1>1 DEF PlaceOrder
<1>3. /\ rows \in [OrderIds -> Row] /\ plan \in Plans
      /\ accounts \in [Users -> [Currencies -> [available : Int, hold : Int]]]
      /\ accounts[u][c] \in [available : Int, hold : Int] /\ bills[u][c] \in Seq(Credit)
      /\ accounts[u][c].hold \in Int /\ Due(bills[u][c]) \in Int
  BY HoldFacts
<1>4. /\ h \in Nat /\ User(i) \in Users /\ HoldCurrency(Order(i)) \in Currencies /\ Order(i) \in BookOrder
      /\ Order(i).funds \in Nat /\ Order(i).size \in Nat
  BY <1>1, <1>3, PlanType, OrdersType
<1>5. rows[i].status = "none" /\ rows[i].filled = 0 /\ rows[i].executed = 0
  <2>1. Request(i)
    BY DEF RowInv, PostInv, AccountInv
  <2> QED
    BY <1>2, <2>1 DEF Request
<1>6. rows'[i].status = "new" /\ rows'[i].filled = 0 /\ rows'[i].executed = 0
  BY <1>2, <1>3, <1>5 DEF Row
<1>7. ReservedBy(Order(i), rows[i]) = 0 /\ ReservedBy(Order(i), rows'[i]) = h
  BY <1>1, <1>4, <1>5, <1>6 DEF ReservedBy, HoldSize
<1>8. \A x \in OrderIds : x # i => rows'[x] = rows[x]
  BY <1>2, <1>3
<1>9. PICK d \in Int : d = IF i \in Own(u, c) THEN h ELSE 0
  BY <1>4
<1>10. PICK a : a = accounts'[u][c]
  OBVIOUS
<1>11. a \in [available : Int, hold : Int] /\ a.hold = accounts[u][c].hold + d
  <2>1. CASE i \in Own(u, c)
    <3>1. User(i) = u /\ HoldCurrency(Order(i)) = c
      BY <2>1 DEF Own
    <3>2. a = [available |-> accounts[u][c].available - h, hold |-> accounts[u][c].hold + h]
      BY <1>2, <1>3, <1>10, <3>1
    <3>3. accounts[u][c].available \in Int
      BY <1>3
    <3>4. (accounts[u][c].available - h) \in Int /\ (accounts[u][c].hold + h) \in Int
      BY <1>3, <1>4, <3>3
    <3> QED
      BY <1>9, <2>1, <3>2, <3>4
  <2>2. CASE i \notin Own(u, c)
    <3>1. ~ (User(i) = u /\ HoldCurrency(Order(i)) = c)
      BY <2>2 DEF Own
    <3>2. a = accounts[u][c]
      BY <1>2, <1>3, <1>4, <1>10, <3>1
    <3> QED
      BY <1>3, <1>9, <2>2, <3>2
  <2> QED
    BY <2>1, <2>2
<1>12. PICK s \in Seq(Credit) : s = bills[u][c]
  BY <1>3
<1>13. a.hold + Due(s) = accounts[u][c].hold + Due(bills[u][c]) + d
  BY <1>3, <1>11, <1>12
<1>14. i \in Own(u, c) => ReservedBy(Order(i), rows'[i]) = ReservedBy(Order(i), rows[i]) + d
  BY <1>4, <1>7, <1>9
<1>15. i \notin Own(u, c) => d = 0
  BY <1>9
<1>16. UNCHANGED plan /\ s = bills'[u][c]
  BY <1>2, <1>12
<1> QED
  BY <1>8, <1>10, <1>11, <1>13, <1>14, <1>15, <1>16, HoldMoves

\* The rows stay, and so does the hold with the bills.
LEMMA HoldPays ==
  ASSUME IsFiniteSet(OrderIds), RowInv, UNCHANGED <<plan, rows>>,
         NEW u \in Users, NEW c \in Currencies, HoldAt(u, c),
         NEW a \in [available : Int, hold : Int], NEW s \in Seq(Credit),
         a = accounts'[u][c], s = bills'[u][c],
         a.hold + Due(s) = accounts[u][c].hold + Due(bills[u][c])
  PROVE  HoldAt(u, c)'
<1>1. PICK h \in Int, t \in Int : h = accounts[u][c].hold /\ t = Due(bills[u][c])
  BY HoldFacts
<1>2. PICK d \in Int : d = 0
  OBVIOUS
<1>3. a.hold + Due(s) = accounts[u][c].hold + Due(bills[u][c]) + d
  BY <1>1, <1>2
<1>4. PICK y : y = 0
  OBVIOUS
<1>5. y \notin Own(u, c)
  BY <1>4, BookAssumption DEF Own
<1>6. rows' \in [OrderIds -> Row] /\ UNCHANGED plan /\ \A x \in OrderIds : x # y => rows'[x] = rows[x]
  BY HoldFacts
<1>7. y \in Own(u, c) => ReservedBy(Order(y), rows'[y]) = ReservedBy(Order(y), rows[y]) + d
  BY <1>5
<1>8. y \notin Own(u, c) => d = 0
  BY <1>2
<1> QED
  BY <1>3, <1>6, <1>7, <1>8, HoldMoves

\* ExecuteBill takes the first bills of an account and adds up what they hold.
Paying(v, b, first, rest, al, hs) ==
  /\ first \in Seq(Credit) /\ rest \in Seq(Credit) /\ bills[v][b] = first \o rest
  /\ al = SumOf([k \in DOMAIN first |-> first[k].available])
  /\ hs = SumOf([k \in DOMAIN first |-> first[k].hold])
  /\ accounts' = [accounts EXCEPT ![v][b] = [available |-> accounts[v][b].available + al,
                                             hold |-> accounts[v][b].hold + hs]]
  /\ bills' = [bills EXCEPT ![v][b] = rest]

LEMMA PayingIs ==
  ASSUME RowInv, NEW v \in Users, NEW b \in Currencies, ExecuteBill(v, b)
  PROVE  /\ \E first, rest, al, hs : Paying(v, b, first, rest, al, hs)
         /\ UNCHANGED <<plan, rows, fills>>
<1>1. bills \in [Users -> [Currencies -> Seq(Credit)]]
  BY HoldFacts
<1>2. PICK t \in Seq(Credit) : t = bills[v][b]
  BY <1>1
<1>3. PICK n \in Nat : n = Smaller(Len(t), BillLimit) /\ n <= Len(t)
  BY SettlementAssumption DEF Smaller
<1>4. PICK first \in Seq(Credit) : first = SubSeq(t, 1, n)
  <2>1. SubSeq(t, 1, n) \in Seq(Credit)
    BY <1>3
  <2> QED
    BY <2>1
<1>5. PICK rest \in Seq(Credit) : rest = SubSeq(t, n + 1, Len(t))
  <2>1. SubSeq(t, n + 1, Len(t)) \in Seq(Credit)
    BY <1>3
  <2> QED
    BY <2>1
<1>6. PICK al, hs : al = SumOf([k \in 1 .. n |-> first[k].available]) /\ hs = SumOf([k \in 1 .. n |-> first[k].hold])
  OBVIOUS
<1>7. /\ accounts' = [accounts EXCEPT ![v][b] = [available |-> accounts[v][b].available + al,
                                                 hold |-> accounts[v][b].hold + hs]]
      /\ bills' = [bills EXCEPT ![v][b] = rest]
      /\ UNCHANGED <<plan, rows, fills>>
  <2>1. /\ accounts' = [accounts EXCEPT ![v][b] = [available |-> @.available + al, hold |-> @.hold + hs]]
        /\ bills' = [bills EXCEPT ![v][b] = SubSeq(@, n + 1, Len(@))]
        /\ UNCHANGED <<plan, rows, fills>>
    BY <1>2, <1>3, <1>4, <1>6 DEF ExecuteBill
  <2>2. bills' = [bills EXCEPT ![v][b] = rest]
    BY <1>2, <1>5, <2>1
  <2> QED
    BY <2>1, <2>2
<1>8. t = first \o rest /\ Len(first) = n
  <2>1. Len(first) = n
    BY <1>3, <1>4
  <2>2. Len(rest) = Len(t) - n
    BY <1>3, <1>5
  <2>3. PICK w \in Seq(Credit) : w = first \o rest
    <3>1. first \o rest \in Seq(Credit)
      OBVIOUS
    <3> QED
      BY <3>1
  <2>4. Len(w) = Len(t)
    BY <1>3, <2>1, <2>2, <2>3
  <2>5. ASSUME NEW k \in 1 .. Len(t) PROVE t[k] = w[k]
    <3>1. CASE k <= n
      <4>1. w[k] = first[k]
        BY <1>3, <2>1, <2>3, <3>1
      <4>2. first[k] = t[k]
        BY <1>3, <1>4, <3>1
      <4> QED
        BY <4>1, <4>2
    <3>2. CASE ~ (k <= n)
      <4>4. PICK l \in Nat : l = Len(t) /\ k \in 1 .. l
        OBVIOUS
      <4>5. k - n \in 1 .. l - n /\ k - n \in Nat /\ n + (k - n) = k /\ Len(rest) = l - n
        BY <1>3, <2>2, <3>2, <4>4
      <4>1. PICK m \in Nat : m = k - n /\ m \in 1 .. Len(rest) /\ n + m = k
        BY <4>5
      <4>2. w[k] = rest[m]
        BY <2>1, <2>3, <4>1, JoinedIs
      <4>3. rest[m] = t[k]
        <5>1. m \in 1 .. l - (n + 1) + 1 /\ rest = SubSeq(t, n + 1, l) /\ l = Len(t)
          BY <1>5, <4>1, <4>4, <4>5
        <5>2. rest[m] = t[(n + 1) + m - 1]
          BY <5>1
        <5>3. (n + 1) + m - 1 = k
          BY <4>1
        <5> QED
          BY <5>2, <5>3
      <4> QED
        BY <4>2, <4>3
    <3> QED
      BY <3>1, <3>2
  <2>6. t = w
    BY <2>4, <2>5, SameSeq
  <2> QED
    BY <2>1, <2>3, <2>6
<1>9. DOMAIN first = 1 .. n
  BY <1>8
<1>10. Paying(v, b, first, rest, al, hs)
  <2>1. al = SumOf([k \in DOMAIN first |-> first[k].available]) /\ hs = SumOf([k \in DOMAIN first |-> first[k].hold])
    BY <1>6, <1>9
  <2>2. /\ accounts' = [accounts EXCEPT ![v][b] = [available |-> accounts[v][b].available + al,
                                                   hold |-> accounts[v][b].hold + hs]]
        /\ bills' = [bills EXCEPT ![v][b] = rest]
    BY <1>7
  <2>3. first \in Seq(Credit) /\ rest \in Seq(Credit) /\ bills[v][b] = first \o rest
    BY <1>2, <1>8
  <2> QED
    BY <2>1, <2>2, <2>3, Zenon DEF Paying
<1> QED
  BY <1>7, <1>10

\* ExecuteBill moves the first bills of an account into its hold.
LEMMA HoldBill ==
  ASSUME IsFiniteSet(OrderIds), RowInv, NEW v \in Users, NEW b \in Currencies, ExecuteBill(v, b),
         NEW u \in Users, NEW c \in Currencies, HoldAt(u, c)
  PROVE  HoldAt(u, c)'
<1>1. /\ rows \in [OrderIds -> Row] /\ bills \in [Users -> [Currencies -> Seq(Credit)]] /\ plan \in Plans
      /\ accounts \in [Users -> [Currencies -> [available : Int, hold : Int]]]
      /\ accounts[u][c] \in [available : Int, hold : Int] /\ bills[u][c] \in Seq(Credit)
      /\ accounts[u][c].hold \in Int /\ Due(bills[u][c]) \in Int
  BY HoldFacts
<1>2. UNCHANGED <<plan, rows>>
  BY PayingIs
<1>3. PICK first, rest, al, hs : Paying(v, b, first, rest, al, hs)
  BY PayingIs
<1>4. PICK t : t = bills[v][b]
  OBVIOUS
<1>7. /\ accounts' = [accounts EXCEPT ![v][b] = [available |-> accounts[v][b].available + al,
                                                 hold |-> accounts[v][b].hold + hs]]
      /\ bills' = [bills EXCEPT ![v][b] = rest]
      /\ UNCHANGED <<plan, rows>>
  BY <1>2, <1>3 DEF Paying
<1>8. t = first \o rest /\ first \in Seq(Credit) /\ rest \in Seq(Credit)
  BY <1>3, <1>4 DEF Paying
<1>9. hs = Due(first) /\ hs \in Int
  <2>1. hs = SumOf([k \in DOMAIN first |-> first[k].hold])
    BY <1>3 DEF Paying
  <2>2. [k \in DOMAIN first |-> first[k].hold] = Weighed(HoldField, first)
    BY <1>8, HoldsOf
  <2> QED
    BY <1>8, <2>1, <2>2, DueType DEF Due
<1>10. al \in Int
  <2>1. PICK as : as = [k \in DOMAIN first |-> first[k].available]
    OBVIOUS
  <2>2. PICK n \in Nat : DOMAIN first = 1 .. n /\ \A k \in 1 .. n : first[k] \in Credit
    BY <1>8
  <2>3. as \in [1 .. n -> Int]
    BY <2>1, <2>2 DEF Credit
  <2>4. as \in Seq(Int)
    BY <2>3, ListIsSeq
  <2>5. al = SumOf(as)
    BY <1>3, <2>1 DEF Paying
  <2> QED
    BY <2>4, <2>5, SumIsAmount
<1>11. Due(t) = hs + Due(rest) /\ Due(rest) \in Int
  BY <1>8, <1>9, DueConcat, DueType
<1>13. CASE ~ (u = v /\ c = b)
  <2>1. PICK a \in [available : Int, hold : Int], s \in Seq(Credit) : a = accounts[u][c] /\ s = bills[u][c]
    BY <1>1
  <2>2. a = accounts'[u][c] /\ s = bills'[u][c]
    BY <1>1, <1>7, <1>13, <2>1
  <2>3. a.hold + Due(s) = accounts[u][c].hold + Due(bills[u][c])
    BY <1>1, <2>1
  <2> QED
    BY <1>7, <2>2, <2>3, HoldPays
<1>14. CASE u = v /\ c = b
  <2>1. PICK av \in Int, hd \in Int : av = accounts[u][c].available /\ hd = accounts[u][c].hold
    BY <1>1
  <2>2. PICK a : a = [available |-> av + al, hold |-> hd + hs]
    OBVIOUS
  <2>3. a \in [available : Int, hold : Int] /\ a.hold = hd + hs
    <3>1. (av + al) \in Int /\ (hd + hs) \in Int
      BY <1>9, <1>10
    <3> QED
      BY <2>2, <3>1
  <2>4. a = accounts'[u][c] /\ rest = bills'[u][c]
    BY <1>1, <1>7, <1>14, <2>1, <2>2
  <2>5. Due(bills[u][c]) = hs + Due(rest)
    BY <1>4, <1>11, <1>14
  <2>6. a.hold + Due(rest) = accounts[u][c].hold + Due(bills[u][c])
    BY <1>9, <1>11, <2>1, <2>3, <2>5
  <2>7. a \in [available : Int, hold : Int] /\ rest \in Seq(Credit) /\ UNCHANGED <<plan, rows>>
    BY <1>7, <1>8, <2>3
  <2> QED
    BY <2>4, <2>6, <2>7, HoldPays
<1> QED
  BY <1>13, <1>14

\* What the bills of the trades in T take from the hold.
LEMMA TradeDues ==
  ASSUME PostInv, NEW T \in SUBSET DOMAIN fills, NEW side, NEW m, m = Kept(fills, T)
  PROVE  /\ Due(BaseBills(side, m)) = IF side = "buy" THEN 0 ELSE - SumFunctionOnSet(FillSizes, T)
         /\ Due(QuoteBills(side, m)) = IF side = "buy" THEN - SumFunctionOnSet(FillValues, T) ELSE 0
<1>1. fills \in Seq(FillRow) /\ m \in Seq(FillRow)
  BY PostFacts, KeptType
<1>2. PICK W, V : /\ W = [f \in FillRow |-> IF side = "buy" THEN 0 ELSE - f.size]
                  /\ V = [f \in FillRow |-> IF side = "buy" THEN - (f.size * f.price) ELSE 0]
  OBVIOUS
<1>3. \A f \in FillRow : f.size \in Nat /\ f.price \in Nat
  BY DEF FillRow
<1>4. W \in [FillRow -> Int]
  BY <1>2, <1>3
<1>5. V \in [FillRow -> Int]
  <2>1. \A f \in FillRow : (- (f.size * f.price)) \in Int
    BY <1>3
  <2> QED
    BY <1>2, <2>1
<1>6. PICK b, q : b = BaseBills(side, m) /\ q = QuoteBills(side, m)
  OBVIOUS
<1>7. b \in Seq(Credit) /\ q \in Seq(Credit) /\ DOMAIN b = DOMAIN m /\ DOMAIN q = DOMAIN m
  BY <1>1, <1>6, BillsType DEF BaseBills, QuoteBills
<1>8. \A k \in DOMAIN m : m[k] \in FillRow /\ b[k] \in Credit /\ q[k] \in Credit
  BY <1>1, <1>7
<1>9. Weighed(HoldField, b) = Weighed(W, m)
  <2>1. ASSUME NEW k \in DOMAIN m PROVE HoldField[b[k]] = W[m[k]]
    <3>1. HoldField[b[k]] = b[k].hold
      BY <1>8 DEF HoldField
    <3>2. b[k].hold = IF side = "buy" THEN 0 ELSE - m[k].size
      BY <1>6 DEF BaseBills
    <3>3. W[m[k]] = IF side = "buy" THEN 0 ELSE - m[k].size
      BY <1>2, <1>8
    <3> QED
      BY <3>1, <3>2, <3>3
  <2> QED
    BY <1>7, <2>1 DEF Weighed
<1>10. Weighed(HoldField, q) = Weighed(V, m)
  <2>1. ASSUME NEW k \in DOMAIN m PROVE HoldField[q[k]] = V[m[k]]
    <3>1. HoldField[q[k]] = q[k].hold
      BY <1>8 DEF HoldField
    <3>2. q[k].hold = IF side = "buy" THEN - (m[k].size * m[k].price) ELSE 0
      BY <1>6 DEF QuoteBills
    <3>3. V[m[k]] = IF side = "buy" THEN - (m[k].size * m[k].price) ELSE 0
      BY <1>2, <1>8
    <3> QED
      BY <3>1, <3>2, <3>3
  <2> QED
    BY <1>7, <2>1 DEF Weighed
<1>11. PICK w, v : w = [k \in DOMAIN fills |-> W[fills[k]]] /\ v = [k \in DOMAIN fills |-> V[fills[k]]]
  OBVIOUS
<1>12. SumOf(Weighed(W, m)) = SumFunctionOnSet(w, T) /\ IsFiniteSet(T)
  <2>1. \A k \in T : w[k] = W[fills[k]]
    BY <1>11
  <2>2. SumOf(Weighed(W, Kept(fills, T))) = SumFunctionOnSet(w, T) /\ IsFiniteSet(T)
    <3>1. T \in SUBSET DOMAIN fills /\ fills \in Seq(FillRow)
      BY <1>1
    <3> QED
      BY <1>4, <2>1, <3>1, KeptSum
  <2> QED
    BY <2>2
<1>13. SumOf(Weighed(V, m)) = SumFunctionOnSet(v, T)
  <2>1. \A k \in T : v[k] = V[fills[k]]
    BY <1>11
  <2>2. SumOf(Weighed(V, Kept(fills, T))) = SumFunctionOnSet(v, T)
    <3>1. T \in SUBSET DOMAIN fills /\ fills \in Seq(FillRow)
      BY <1>1
    <3> QED
      BY <1>5, <2>1, <3>1, KeptSum
  <2> QED
    BY <2>2
<1>14. PICK sizes, values : sizes = FillSizes /\ values = FillValues
  OBVIOUS
<1>15. ASSUME NEW k \in T
       PROVE  /\ w[k] = IF side = "buy" THEN 0 ELSE - sizes[k]
              /\ v[k] = IF side = "buy" THEN - values[k] ELSE 0
              /\ sizes[k] \in Int /\ values[k] \in Int
  <2>1. fills[k] \in FillRow
    BY <1>1
  <2>2. /\ sizes[k] = fills[k].size /\ values[k] = fills[k].size * fills[k].price
        /\ sizes[k] \in Nat /\ values[k] \in Nat
    BY <1>14, FillNumbers
  <2>3. w[k] = IF side = "buy" THEN 0 ELSE - fills[k].size
    BY <1>2, <1>11, <2>1
  <2>4. v[k] = IF side = "buy" THEN - (fills[k].size * fills[k].price) ELSE 0
    BY <1>2, <1>11, <2>1
  <2> QED
    BY <2>2, <2>3, <2>4
<1>16. CASE side = "buy"
  <2>1. \A k \in T : w[k] = 0
    BY <1>15, <1>16
  <2>2. \A k \in T : values[k] \in Int /\ v[k] = - values[k]
    BY <1>15, <1>16
  <2>3. SumFunctionOnSet(w, T) = 0
    BY <1>12, <2>1, SumOfZeros
  <2>4. SumFunctionOnSet(v, T) = - SumFunctionOnSet(values, T)
    BY <1>12, <2>2, SumNegated
  <2> QED
    BY <1>6, <1>9, <1>10, <1>12, <1>13, <1>14, <1>16, <2>3, <2>4 DEF Due
<1>17. CASE side # "buy"
  <2>1. \A k \in T : v[k] = 0
    BY <1>15, <1>17
  <2>2. \A k \in T : sizes[k] \in Int /\ w[k] = - sizes[k]
    BY <1>15, <1>17
  <2>3. SumFunctionOnSet(v, T) = 0
    BY <1>12, <2>1, SumOfZeros
  <2>4. SumFunctionOnSet(w, T) = - SumFunctionOnSet(sizes, T)
    BY <1>12, <2>2, SumNegated
  <2> QED
    BY <1>6, <1>9, <1>10, <1>12, <1>13, <1>14, <1>17, <2>3, <2>4 DEF Due
<1> QED
  BY <1>16, <1>17

\* What a done order's bill takes from the hold is what its row left of it.
LEMMA ReleaseDue ==
  ASSUME NEW o \in Orders, NEW row \in Row, NEW x \in Nat,
         x = IF o.side = "buy" THEN row.executed ELSE row.filled, x <= HoldSize(o)
  PROVE  /\ Release(o, row) \in Seq(Credit)
         /\ Due(Release(o, row)) = x - HoldSize(o) /\ HoldSize(o) \in Nat
<1>1. o.funds \in Nat /\ o.size \in Nat
  BY OrdersType DEF BookOrder
<1>2. PICK h \in Nat, rest \in Nat : h = HoldSize(o) /\ rest = h - x
  <2>1. HoldSize(o) \in Nat
    BY <1>1 DEF HoldSize
  <2>2. HoldSize(o) - x \in Nat
    BY <2>1
  <2> QED
    BY <2>1, <2>2
<1>3. rest = IF o.side = "buy" THEN o.funds - row.executed ELSE o.size - row.filled
  BY <1>2 DEF HoldSize
<1>4. Release(o, row) = IF rest > 0 THEN <<[available |-> rest, hold |-> - rest]>> ELSE <<>>
  BY <1>3 DEF Release
<1>5. Release(o, row) \in Seq(Credit)
  BY ReleaseType
<1>6. CASE rest > 0
  <2>14. PICK n \in Int : n = - rest
    OBVIOUS
  <2>1. PICK b \in Credit : b = [available |-> rest, hold |-> n] /\ b.hold = - rest
    <3>1. [available |-> rest, hold |-> n] \in Credit
      BY DEF Credit
    <3> QED
      BY <2>14, <3>1
  <2>2. PICK s \in Seq(Credit) : s = <<b>> /\ Len(s) = 1 /\ DOMAIN s = 1 .. 1
    <3>1. <<b>> \in Seq(Credit) /\ Len(<<b>>) = 1 /\ DOMAIN <<b>> = 1 .. 1
      OBVIOUS
    <3> QED
      BY <3>1, Zenon
  <2>3. s[1] = b
    BY <2>2
  <2>4. PICK ts \in Seq(Int) : ts = <<>>
    <3>1. <<>> \in Seq(Int)
      OBVIOUS
    <3> QED
      BY <3>1
  <2>5. (- rest) \in Int
    OBVIOUS
  <2>6. PICK w \in Seq(Int) : w = Append(ts, - rest)
    <3>1. Append(ts, n) \in Seq(Int)
      OBVIOUS
    <3> QED
      BY <2>14, <3>1
  <2>7. PICK z \in Seq(Int) : z = Weighed(HoldField, s) /\ Len(z) = 1
    <3>1. HoldField \in [Credit -> Int]
      BY DEF HoldField, Credit
    <3> QED
      BY <2>2, <3>1, WeighedType
  <2>8. z[1] = - rest
    BY <2>1, <2>2, <2>3, <2>7 DEF Weighed, HoldField
  <2>9. Len(w) = 1 /\ w[1] = - rest
    BY <2>4, <2>5, <2>6
  <2>10. z = w
    <3>1. \A k \in 1 .. Len(z) : z[k] = w[k]
      BY <2>7, <2>8, <2>9
    <3> QED
      BY <2>7, <2>9, <3>1, SameSeq
  <2>11. SumOf(w) = 0 + (- rest)
    BY <2>4, <2>5, <2>6, SumAppend, SumOfEmpty
  <2>12. Due(s) = - rest
    BY <2>5, <2>7, <2>10, <2>11 DEF Due
  <2>13. Release(o, row) = s
    BY <1>4, <1>6, <2>1, <2>2, <2>14
  <2> QED
    BY <1>2, <1>5, <2>12, <2>13
<1>7. CASE ~ (rest > 0)
  <2>1. Release(o, row) = <<>> /\ rest = 0
    BY <1>4, <1>7
  <2>2. Weighed(HoldField, <<>>) = <<>>
    BY DEF Weighed
  <2>3. Due(<<>>) = 0
    BY <2>2, SumOfEmpty DEF Due
  <2> QED
    BY <1>2, <1>5, <2>1, <2>3
<1> QED
  BY <1>6, <1>7

\* What a fill's trades and release do to the row of an order, and to the hold.
Used(o, row) == IF o.side = "buy" THEN row.executed ELSE row.filled

Traded(o, T) == IF o.side = "buy" THEN SumFunctionOnSet(FillValues, T) ELSE SumFunctionOnSet(FillSizes, T)

LEMMA SettlingDues ==
  ASSUME RowInv, NEW i \in OrderIds, ExecuteFill(i), rows' \in [OrderIds -> Row],
         NEW p, NEW ends, NEW row, NEW freed, Settling(i, p, ends, row, freed),
         Used(Order(i), row) <= HoldSize(Order(i))
  PROVE  /\ freed \in Seq(Credit) /\ Traded(Order(i), p \ ends) \in Nat /\ Due(freed) \in Int
         /\ ReservedBy(Order(i), row) = ReservedBy(Order(i), rows[i]) + (Due(freed) - Traded(Order(i), p \ ends))
         /\ rows'[i] = row /\ \A x \in OrderIds : x # i => rows'[x] = rows[x]
<1>1. /\ PostInv /\ rows \in [OrderIds -> Row] /\ plan \in Plans
  BY DEF RowInv, PostInv, AccountInv, BaseInv, TableInv, PipeInv
<1>17. PICK q : q = Traded(Order(i), p \ ends)
  OBVIOUS
<1>2. PICK o \in Orders : o = Order(i) /\ o \in BookOrder
  BY <1>1, PlanType, OrdersType
<1>3. /\ Live(i) /\ ends = {} => row.status = rows[i].status
      /\ p \subseteq DOMAIN fills
      /\ rows' = [rows EXCEPT ![i] = row]
      /\ freed = IF ends = {} THEN <<>> ELSE Release(Order(i), row)
  BY DEF Settling
<1>4. row.filled = rows[i].filled + SumFunctionOnSet(FillSizes, p \ ends)
  BY DEF Settling
<1>5. row.executed = rows[i].executed + SumFunctionOnSet(FillValues, p \ ends)
  BY DEF Settling
<1>6. (ends = {} => row.status = rows[i].status) /\ (ends # {} => row.status \notin {"new", "open"}) /\ Live(i)
  BY Zenon DEF Settling
<1>7. rows'[i] = row /\ row \in Row /\ rows[i] \in Row /\ \A x \in OrderIds : x # i => rows'[x] = rows[x]
  BY <1>1, <1>3
<1>8. PICK h \in Nat : h = HoldSize(o)
  BY <1>1, <1>2, PlanType
<1>9. PICK y, x : y = (IF o.side = "buy" THEN rows[i].executed ELSE rows[i].filled)
                  /\ x = (IF o.side = "buy" THEN row.executed ELSE row.filled)
  OBVIOUS
<1>10. y \in Nat /\ x \in Nat
  BY <1>7, <1>9 DEF Row
<1>11. q \in Nat
  <2>1. p \ ends \in SUBSET DOMAIN fills
    BY <1>3
  <2>2. SumFunctionOnSet(FillSizes, p \ ends) \in Nat /\ SumFunctionOnSet(FillValues, p \ ends) \in Nat
    BY <1>1, <2>1, SumAtIs
  <2> QED
    BY <1>17, <2>2 DEF Traded
<1>12. x = y + q
  BY <1>2, <1>4, <1>5, <1>9, <1>17 DEF Traded
<1>13. x <= h
  BY <1>2, <1>8, <1>9 DEF Used
<1>14. ReservedBy(o, rows[i]) = h - y
  BY <1>6, <1>8, <1>9 DEF ReservedBy, Live, HoldSize
<1>15. CASE ends = {}
  <2>1. freed = <<>> /\ row.status \in {"new", "open"}
    BY <1>3, <1>6, <1>15 DEF Live
  <2>2. ReservedBy(o, row) = h - x
    BY <1>8, <1>9, <2>1 DEF ReservedBy, HoldSize
  <2>3. Due(<<>>) = 0
    <3>1. Weighed(HoldField, <<>>) = <<>>
      BY DEF Weighed
    <3> QED
      BY <3>1, SumOfEmpty DEF Due
  <2>4. freed \in Seq(Credit)
    <3>1. <<>> \in Seq(Credit)
      OBVIOUS
    <3> QED
      BY <2>1, <3>1
  <2>5. h - x = (h - y) + (0 - q)
    BY <1>10, <1>11, <1>12
  <2>6. Due(freed) = 0
    BY <2>1, <2>3
  <2> QED
    BY <1>2, <1>7, <1>11, <1>14, <1>17, <2>2, <2>4, <2>5, <2>6
<1>16. CASE ends # {}
  <2>1. freed = Release(o, row) /\ row.status \notin {"new", "open"}
    BY <1>2, <1>3, <1>6, <1>16
  <2>2. ReservedBy(o, row) = 0
    BY <2>1 DEF ReservedBy
  <2>3. Release(o, row) \in Seq(Credit) /\ Due(Release(o, row)) = x - HoldSize(o)
    BY <1>7, <1>8, <1>9, <1>10, <1>13, ReleaseDue
  <2>4. freed \in Seq(Credit) /\ Due(freed) = x - h
    BY <1>8, <2>1, <2>3
  <2>5. 0 = (h - y) + ((x - h) - q) /\ (x - h) \in Int
    BY <1>10, <1>11, <1>12
  <2> QED
    BY <1>2, <1>7, <1>11, <1>14, <1>17, <2>2, <2>4, <2>5
<1> QED
  BY <1>15, <1>16

\* Three parts.
LEMMA DueThree ==
  ASSUME NEW a \in Seq(Credit), NEW b \in Seq(Credit), NEW d \in Seq(Credit)
  PROVE  Due(a \o b \o d) = Due(a) + Due(b) + Due(d) /\ a \o b \o d \in Seq(Credit)
<1>1. PICK e \in Seq(Credit) : e = a \o b /\ Due(e) = Due(a) + Due(b)
  BY DueConcat
<1>2. Due(e \o d) = Due(e) + Due(d) /\ e \o d \in Seq(Credit)
  BY DueConcat
<1> QED
  BY <1>1, <1>2

LEMMA HoldFill ==
  ASSUME IsFiniteSet(OrderIds), RowInv, NEW i \in OrderIds, ExecuteFill(i), rows' \in [OrderIds -> Row],
         Spent(i)' <= HoldSize(Order(i)),
         NEW u \in Users, NEW c \in Currencies, HoldAt(u, c)
  PROVE  HoldAt(u, c)'
<1>1. /\ PostInv /\ plan \in Plans /\ bills \in [Users -> [Currencies -> Seq(Credit)]]
      /\ accounts[u][c] \in [available : Int, hold : Int] /\ bills[u][c] \in Seq(Credit)
      /\ accounts[u][c].hold \in Int /\ Due(bills[u][c]) \in Int
  BY HoldFacts DEF RowInv
<1>2. PICK p, ends, row, freed :
        /\ Settling(i, p, ends, row, freed)
        /\ bills' = [bills EXCEPT
             ![User(i)] =
                [base |-> @.base \o BaseBills(Order(i).side, Kept(fills, p \ ends))
                            \o (IF Order(i).side = "sell" THEN freed ELSE <<>>),
                 quote |-> @.quote \o QuoteBills(Order(i).side, Kept(fills, p \ ends))
                             \o (IF Order(i).side = "buy" THEN freed ELSE <<>>)]]
  BY <1>1, SettlingIs
<1>3. PICK side, m, T : side = Order(i).side /\ T = p \ ends /\ m = Kept(fills, T)
  OBVIOUS
<1>4. side \in {"buy", "sell"} /\ User(i) \in Users
  <2>1. Order(i) \in BookOrder /\ User(i) \in Users
    BY <1>1, PlanType, OrdersType
  <2> QED
    BY <1>3, <2>1 DEF BookOrder, Sides
<1>22. PICK q : q = Traded(Order(i), p \ ends)
  OBVIOUS
<1>5. q = IF side = "buy" THEN SumFunctionOnSet(FillValues, T) ELSE SumFunctionOnSet(FillSizes, T)
  BY <1>3, <1>22 DEF Traded
<1>6. /\ freed \in Seq(Credit) /\ q \in Nat /\ Due(freed) \in Int
      /\ ReservedBy(Order(i), row) = ReservedBy(Order(i), rows[i]) + (Due(freed) - q)
      /\ rows'[i] = row /\ \A x \in OrderIds : x # i => rows'[x] = rows[x]
  <2>1. Settling(i, p, ends, row, freed)
    BY <1>2
  <2>3. Used(Order(i), row) <= HoldSize(Order(i))
    <3>1. plan' = plan
      BY DEF ExecuteFill
    <3>2. rows' = [rows EXCEPT ![i] = row] /\ rows \in [OrderIds -> Row]
      BY <2>1, HoldFacts DEF Settling
    <3>3. rows'[i] = row
      BY <3>2
    <3>4. Spent(i)' = Used(Order(i), row)
      BY <3>1, <3>3 DEF Spent, Used, Order
    <3> QED
      BY <3>4
  <2> QED
    BY <1>22, <2>1, <2>3, SettlingDues
<1>7. PICK f \in Int : f = Due(freed)
  BY <1>6
<1>8. PICK none \in Seq(Credit) : none = <<>> /\ Due(none) = 0
  <2>1. Weighed(HoldField, <<>>) = <<>>
    BY DEF Weighed
  <2>2. Due(<<>>) = 0
    BY <2>1, SumOfEmpty DEF Due
  <2>3. <<>> \in Seq(Credit)
    OBVIOUS
  <2> QED
    BY <2>2, <2>3
<1>9. PICK b \in Seq(Credit), t \in Seq(Credit) : b = BaseBills(side, m) /\ t = QuoteBills(side, m)
  <2>1. m \in Seq(FillRow)
    <3>1. fills \in Seq(FillRow)
      BY <1>1, PostFacts
    <3> QED
      BY <1>3, <3>1, KeptType
  <2> QED
    BY <2>1, BillsType
<1>10. /\ side = "buy" => Due(b) = 0 /\ Due(t) = - q
       /\ side = "sell" => Due(b) = - q /\ Due(t) = 0
  <2>1. T \in SUBSET DOMAIN fills
    BY <1>2, <1>3 DEF Settling
  <2>2. /\ Due(BaseBills(side, m)) = IF side = "buy" THEN 0 ELSE - SumFunctionOnSet(FillSizes, T)
        /\ Due(QuoteBills(side, m)) = IF side = "buy" THEN - SumFunctionOnSet(FillValues, T) ELSE 0
    <3>1. PostInv /\ m = Kept(fills, T)
      BY <1>1, <1>3
    <3> QED
      BY <2>1, <3>1, TradeDues
  <2> QED
    BY <1>5, <1>9, <2>2
<1>11. PICK fb \in Seq(Credit), fq \in Seq(Credit) :
         fb = (IF side = "sell" THEN freed ELSE none) /\ fq = (IF side = "buy" THEN freed ELSE none)
  <2>1. freed \in Seq(Credit) /\ none \in Seq(Credit)
    BY <1>6, Zenon
  <2>2. \A x, y \in Seq(Credit) : (IF side = "sell" THEN x ELSE y) \in Seq(Credit) /\ (IF side = "buy" THEN x ELSE y) \in Seq(Credit)
    OBVIOUS
  <2> QED
    BY <2>1, <2>2
<1>12. /\ side = "buy" => Due(fb) = 0 /\ Due(fq) = f
       /\ side = "sell" => Due(fb) = f /\ Due(fq) = 0
  BY <1>7, <1>8, <1>11
<1>13. bills' = [bills EXCEPT ![User(i)] = [base |-> bills[User(i)].base \o b \o fb, quote |-> bills[User(i)].quote \o t \o fq]]
  BY <1>2, <1>3, <1>8, <1>9, <1>11
<1>14. UNCHANGED <<plan, accounts>>
  BY DEF ExecuteFill
<1>15. PICK d \in Int : d = IF i \in Own(u, c) THEN f - q ELSE 0
  <2>1. q \in Nat
    BY <1>6
  <2>2. PICK e \in Int : e = f - q
    BY <2>1
  <2>3. CASE i \in Own(u, c)
    BY <2>2, <2>3
  <2>4. CASE i \notin Own(u, c)
    BY <2>4
  <2> QED
    BY <2>3, <2>4
<1>16. PICK s \in Seq(Credit) : s = bills'[u][c] /\ Due(s) = Due(bills[u][c]) + d
  <2>1. CASE User(i) # u
    <3>1. bills'[u][c] = bills[u][c]
      BY <1>1, <1>13, <2>1
    <3>2. d = 0
      BY <1>15, <2>1 DEF Own
    <3> QED
      BY <1>1, <3>1, <3>2
  <2>2. CASE User(i) = u /\ c = "base"
    <3>1. PICK old \in Seq(Credit) : old = bills[u][c] /\ old = bills[User(i)].base
      BY <1>1, <2>2
    <3>2. bills'[u][c] = old \o b \o fb
      BY <1>1, <1>4, <1>13, <2>2, <3>1
    <3>3. Due(old \o b \o fb) = Due(old) + Due(b) + Due(fb) /\ old \o b \o fb \in Seq(Credit)
      BY DueThree
    <3>4. PICK od \in Int : od = Due(old)
      BY DueType
    <3>5. (side = "buy" => d = 0) /\ (side = "sell" => d = f - q)
      BY <1>3, <1>15, <2>2 DEF Own, HoldCurrency
    <3>6. od + Due(b) + Due(fb) = od + d
      <4>1. q \in Int
        BY <1>6
      <4>2. CASE side = "buy"
        BY <1>10, <1>12, <3>5, <4>1, <4>2
      <4>3. CASE side = "sell"
        BY <1>10, <1>12, <3>5, <4>1, <4>3
      <4> QED
        BY <1>4, <4>2, <4>3
    <3> QED
      BY <3>1, <3>2, <3>3, <3>4, <3>6
  <2>3. CASE User(i) = u /\ c = "quote"
    <3>1. PICK old \in Seq(Credit) : old = bills[u][c] /\ old = bills[User(i)].quote
      BY <1>1, <2>3
    <3>2. bills'[u][c] = old \o t \o fq
      BY <1>1, <1>4, <1>13, <2>3, <3>1
    <3>3. Due(old \o t \o fq) = Due(old) + Due(t) + Due(fq) /\ old \o t \o fq \in Seq(Credit)
      BY DueThree
    <3>4. PICK od \in Int : od = Due(old)
      BY DueType
    <3>5. (side = "buy" => d = f - q) /\ (side = "sell" => d = 0)
      BY <1>3, <1>15, <2>3 DEF Own, HoldCurrency
    <3>6. od + Due(t) + Due(fq) = od + d
      <4>1. q \in Int
        BY <1>6
      <4>2. CASE side = "buy"
        BY <1>10, <1>12, <3>5, <4>1, <4>2
      <4>3. CASE side = "sell"
        BY <1>10, <1>12, <3>5, <4>1, <4>3
      <4> QED
        BY <1>4, <4>2, <4>3
    <3> QED
      BY <3>1, <3>2, <3>3, <3>4, <3>6
  <2> QED
    BY <2>1, <2>2, <2>3 DEF Currencies
<1>17. PICK a : a = accounts[u][c] /\ a \in [available : Int, hold : Int]
  BY <1>1
<1>18. a = accounts'[u][c] /\ a.hold + Due(s) = accounts[u][c].hold + Due(bills[u][c]) + d
  <2>1. PICK x \in Int, y \in Int : x = accounts[u][c].hold /\ y = Due(bills[u][c])
    BY <1>1
  <2>2. x + (y + d) = x + y + d
    OBVIOUS
  <2> QED
    BY <1>14, <1>16, <1>17, <2>1, <2>2
<1>19. i \in Own(u, c) => ReservedBy(Order(i), rows'[i]) = ReservedBy(Order(i), rows[i]) + d
  BY <1>6, <1>7, <1>15
<1>20. i \notin Own(u, c) => d = 0
  BY <1>15
<1>21. (\A x \in OrderIds : x # i => rows'[x] = rows[x]) /\ UNCHANGED plan /\ s = bills'[u][c]
  BY <1>6, <1>14, <1>16
<1>23. a = accounts'[u][c] /\ s = bills'[u][c] /\ UNCHANGED plan
  BY <1>18, <1>21
<1>24. a.hold + Due(s) = accounts[u][c].hold + Due(bills[u][c]) + d
  BY <1>18
<1>25. \A x \in OrderIds : x # i => rows'[x] = rows[x]
  BY <1>21
<1>26. rows' \in [OrderIds -> Row] /\ RowInv /\ HoldAt(u, c) /\ IsFiniteSet(OrderIds)
  OBVIOUS
<1> QED
  BY <1>19, <1>20, <1>23, <1>24, <1>25, <1>26, <1>17, HoldMoves

Within == \A i \in OrderIds : Spent(i) <= HoldSize(Order(i))

LEMMA HoldInit ==
  ASSUME IsFiniteSet(OrderIds), Init, NEW u \in Users, NEW c \in Currencies
  PROVE  HoldAt(u, c)
<1>1. PICK a : a = accounts[u][c]
  OBVIOUS
<1>2. a \in [available : Int, hold : Int] /\ a.hold = 0
  <2>1. a = [available |-> Deposits[u][c], hold |-> 0]
    BY <1>1 DEF Init
  <2>2. Deposits[u][c] \in Nat
    BY SettlementAssumption
  <2> QED
    BY <2>1, <2>2
<1>3. PICK s \in Seq(Credit) : s = <<>> /\ s = bills[u][c] /\ Due(s) = 0
  <2>1. Weighed(HoldField, <<>>) = <<>>
    BY DEF Weighed
  <2>2. Due(<<>>) = 0
    BY <2>1, SumOfEmpty DEF Due
  <2>3. <<>> \in Seq(Credit)
    OBVIOUS
  <2>4. bills[u][c] = <<>>
    BY DEF Init, Currencies
  <2> QED
    BY <2>2, <2>3, <2>4
<1>4. Total(u, c, "hold") = 0
  <2>1. Total(u, c, "hold") = a["hold"] + SumOf([k \in DOMAIN s |-> s[k]["hold"]])
    BY <1>1, <1>3 DEF Total
  <2>2. a["hold"] + SumOf([k \in DOMAIN s |-> s[k]["hold"]]) = a.hold + Due(s)
    BY <1>2, HoldTotal
  <2> QED
    BY <1>2, <1>3, <2>1, <2>2
<1>5. SumFunctionOnSet(Holding, Own(u, c)) = 0
  <2>1. \A x \in Own(u, c) : Holding[x] = 0
    BY DEF Own, Holding, Reserved, Live, Init
  <2>2. IsFiniteSet(Own(u, c))
    BY FS_Subset DEF Own
  <2> QED
    BY <2>1, <2>2, SumOfZeros
<1> QED
  BY <1>4, <1>5 DEF HoldAt

\* ReadLog opens a new order, which reserves what it did.
LEMMA HoldRead ==
  ASSUME IsFiniteSet(OrderIds), RowInv, ReadLog, rows' \in [OrderIds -> Row],
         NEW u \in Users, NEW c \in Currencies, HoldAt(u, c)
  PROVE  HoldAt(u, c)'
<1>1. rows \in [OrderIds -> Row]
  BY HoldFacts
<1>2. PICK y : rows' = rows \/ (rows[y].status = "new" /\ rows' = [rows EXCEPT ![y].status = "open"])
  BY DEF ReadLog
<1>3. UNCHANGED <<plan, accounts, bills>>
  BY DEF ReadLog
<1>4. \A x \in OrderIds : x # y => rows'[x] = rows[x]
  BY <1>1, <1>2
<1>5. y \in OrderIds => ReservedBy(Order(y), rows'[y]) = ReservedBy(Order(y), rows[y])
  <2> SUFFICES ASSUME y \in OrderIds, rows' # rows
               PROVE  ReservedBy(Order(y), rows'[y]) = ReservedBy(Order(y), rows[y])
    BY <1>2
  <2>1. /\ rows'[y].status = "open" /\ rows[y].status = "new"
        /\ rows'[y].filled = rows[y].filled /\ rows'[y].executed = rows[y].executed
    BY <1>1, <1>2 DEF Row
  <2> QED
    BY <2>1 DEF ReservedBy
<1> QED
  BY <1>3, <1>4, <1>5, HoldStays

LEMMA HoldQuiet ==
  ASSUME IsFiniteSet(OrderIds), RowInv, UNCHANGED <<plan, rows, accounts, bills>>,
         NEW u \in Users, NEW c \in Currencies, HoldAt(u, c)
  PROVE  HoldAt(u, c)'
<1>1. rows' \in [OrderIds -> Row]
  BY HoldFacts
<1>2. PICK y : y = 0
  OBVIOUS
<1>3. \A x \in OrderIds : x # y => rows'[x] = rows[x]
  OBVIOUS
<1>4. y \in OrderIds => ReservedBy(Order(y), rows'[y]) = ReservedBy(Order(y), rows[y])
  OBVIOUS
<1> QED
  BY <1>1, <1>3, <1>4, HoldStays

LEMMA HoldBackedIs == HoldBacked <=> \A u \in Users, c \in Currencies : HoldAt(u, c)
  BY DEF HoldBacked, HoldAt, Holding, Own

LEMMA HoldStep ==
  ASSUME IsFiniteSet(OrderIds), RowInv, RowInv', Within', [Next]_vars,
         NEW u \in Users, NEW c \in Currencies, HoldAt(u, c)
  PROVE  HoldAt(u, c)'
<1>1. rows' \in [OrderIds -> Row]
  BY DEF RowInv, PostInv, AccountInv, BaseInv, TableInv
<1>2. ASSUME NEW i \in OrderIds, CheckBalance(i) \/ SubmitOrder(i) \/ RequestCancel(i) PROVE HoldAt(u, c)'
  <2>1. UNCHANGED <<plan, rows, accounts, bills>>
    BY <1>2 DEF CheckBalance, SubmitOrder, RequestCancel, dbVars
  <2> QED
    BY <2>1, HoldQuiet
<1>3. ASSUME NEW i \in OrderIds, PlaceOrder(i) PROVE HoldAt(u, c)'
  BY <1>1, <1>3, HoldPlace
<1>4. ASSUME NEW m \in topic, Engine(m) PROVE HoldAt(u, c)'
  <2>1. UNCHANGED <<plan, rows, accounts, bills>>
    BY <1>4 DEF Engine, dbVars
  <2> QED
    BY <2>1, HoldQuiet
<1>5. CASE EngineMatch \/ EngineLogs \/ SendFill \/ FlushFill \/ Crash \/ UNCHANGED vars
  <2>1. UNCHANGED <<plan, rows, accounts, bills>>
    BY <1>5 DEF EngineMatch, EngineLogs, SendFill, FlushFill, Crash, vars, dbVars
  <2> QED
    BY <2>1, HoldQuiet
<1>6. CASE ReadLog
  BY <1>1, <1>6, HoldRead
<1>7. ASSUME NEW i \in OrderIds, ExecuteFill(i) PROVE HoldAt(u, c)'
  <2>1. UNCHANGED plan
    BY <1>7 DEF ExecuteFill
  <2>2. Spent(i)' <= HoldSize(Order(i))
    BY <2>1 DEF Within, HoldSize, Order
  <2> QED
    BY <1>1, <1>7, <2>2, HoldFill
<1>8. ASSUME NEW v \in Users, NEW b \in Currencies, ExecuteBill(v, b) PROVE HoldAt(u, c)'
  BY <1>8, HoldBill
<1> QED
  BY <1>2, <1>3, <1>4, <1>5, <1>6, <1>7, <1>8 DEF Next, Settle

\* At all times what an account holds, unsettled bills included, is exactly what the
\* unfinished orders of its user have reserved by their rows and not yet spent: over every
\* crash and replay of the log, the amounts PlaceOrder puts on hold come back or are paid once.
THEOREM HoldsAreBacked ==
  ASSUME IsFiniteSet(OrderIds)
  PROVE  Spec => []HoldBacked
<1>1. Init => RowInv
  BY RowInit
<1>2. RowInv /\ [Next]_vars => RowInv'
  BY RowStep
<1>3. RowInv => Within
  BY WithinHold DEF Within
<1>4. Init => HoldBacked
  BY HoldInit, HoldBackedIs
<1>5. HoldBacked /\ RowInv /\ RowInv' /\ Within' /\ [Next]_vars => HoldBacked'
  <2> SUFFICES ASSUME HoldBacked, RowInv, RowInv', Within', [Next]_vars PROVE HoldBacked'
    OBVIOUS
  <2>1. ASSUME NEW u \in Users, NEW c \in Currencies PROVE HoldAt(u, c)'
    <3>1. HoldAt(u, c)
      BY HoldBackedIs
    <3> QED
      BY <3>1, HoldStep
  <2> QED
    BY <2>1 DEF HoldBacked, HoldAt, Holding, Own
<1> QED
  BY <1>1, <1>2, <1>3, <1>4, <1>5, PTL DEF Spec


-----------------------------------------------------------------------------
(* The tale of an order in the log. *)

\* The orders a log is about.
Named(log) == IF log.type = "match" THEN {log.order, log.maker} ELSE {log.order}

NamedIn(story, i) == \E n \in DOMAIN story : i \in Named(story[n])

DoneIn(story, i) == \E n \in DOMAIN story : story[n].type = "done" /\ story[n].order = i

\* A match is between a buy and a sell.
Facing(log) ==
  log.type = "match" =>
    /\ log.maker \in OrderIds
    /\ Order(log.order).side = "buy" <=> Order(log.maker).side # "buy"

Opposed(story) == \A n \in DOMAIN story : Facing(story[n])

\* After its done log an order is not heard of again.
DoneLast(story) ==
  \A n, k \in DOMAIN story : n < k /\ story[n].type = "done" => story[n].order \notin Named(story[k])

\* The engine does not have the order.
Gone(i) == OnBook(i) = {} /\ taker.id # i

TaleOf(i) == (NamedIn(Story, i) => ~ Fresh(i)) /\ (DoneIn(Story, i) => Gone(i))

TaleInv == DoneLast(Story) /\ Opposed(Story) /\ \A i \in OrderIds : TaleOf(i)

LEMMA TaleAppend ==
  ASSUME NEW story \in Seq(Log), NEW log \in Log, NEW more, more = Append(story, log)
  PROVE  /\ more \in Seq(Log)
         /\ \A i : NamedIn(more, i) <=> NamedIn(story, i) \/ i \in Named(log)
         /\ \A i : DoneIn(more, i) <=> DoneIn(story, i) \/ (log.type = "done" /\ log.order = i)
         /\ Opposed(story) /\ Facing(log) => Opposed(more)
         /\ DoneLast(story) /\ (\A i \in Named(log) : ~ DoneIn(story, i)) => DoneLast(more)
<1>1. PICK m \in Nat : m = Len(story) /\ DOMAIN story = 1 .. m
  OBVIOUS
<1>2. /\ more \in Seq(Log) /\ DOMAIN more = 1 .. m + 1 /\ more[m + 1] = log
      /\ \A n \in 1 .. m : more[n] = story[n]
  BY <1>1
<1>3. /\ m + 1 \in DOMAIN more
      /\ \A n \in DOMAIN story : n \in DOMAIN more /\ n < m + 1
      /\ \A n \in DOMAIN more : n \in DOMAIN story \/ n = m + 1
  BY <1>1, <1>2
<1>4. \A n \in DOMAIN story : more[n] = story[n]
  BY <1>1, <1>2
<1>5. \A i : NamedIn(more, i) <=> NamedIn(story, i) \/ i \in Named(log)
  BY <1>2, <1>3, <1>4 DEF NamedIn
<1>6. \A i : DoneIn(more, i) <=> DoneIn(story, i) \/ (log.type = "done" /\ log.order = i)
  BY <1>2, <1>3, <1>4 DEF DoneIn
<1>7. Opposed(story) /\ Facing(log) => Opposed(more)
  BY <1>2, <1>3, <1>4 DEF Opposed
<1>8. ASSUME DoneLast(story), \A i \in Named(log) : ~ DoneIn(story, i)
      PROVE  DoneLast(more)
  <2> SUFFICES ASSUME NEW n \in DOMAIN more, NEW k \in DOMAIN more, n < k, more[n].type = "done"
               PROVE  more[n].order \notin Named(more[k])
    BY DEF DoneLast
  <2>1. n \in DOMAIN story
    BY <1>1, <1>2, <1>3
  <2>2. CASE k \in DOMAIN story
    BY <1>4, <1>8, <2>1, <2>2 DEF DoneLast
  <2>3. CASE k = m + 1
    <3>1. more[n] = story[n] /\ more[k] = log
      BY <1>2, <1>4, <2>1, <2>3
    <3>2. DoneIn(story, more[n].order)
      BY <2>1, <3>1 DEF DoneIn
    <3> QED
      BY <1>8, <3>1, <3>2
  <2> QED
    BY <1>3, <2>2, <2>3
<1> QED
  BY <1>2, <1>5, <1>6, <1>7, <1>8

\* The plan stays.
LEMMA TaleParts ==
  ASSUME UNCHANGED plan, NEW story, story = Story'
  PROVE  /\ DoneLast(Story)' <=> DoneLast(story)
         /\ Opposed(Story)' <=> Opposed(story)
         /\ \A i : TaleOf(i)' <=> (NamedIn(story, i) => ~ Fresh(i)') /\ (DoneIn(story, i) => OnBook(i)' = {} /\ taker'.id # i)
<1>1. DoneLast(Story)' <=> DoneLast(story)
  BY DEF DoneLast, Named
<1>2. Opposed(Story)' <=> Opposed(story)
  BY DEF Opposed, Facing, Order
<1>3. \A i : TaleOf(i)' <=> (NamedIn(story, i) => ~ Fresh(i)') /\ (DoneIn(story, i) => OnBook(i)' = {} /\ taker'.id # i)
  BY DEF TaleOf, NamedIn, DoneIn, Named, Gone
<1> QED
  BY <1>1, <1>2, <1>3

\* A done log names its order.
LEMMA DoneNamed ==
  ASSUME NEW story, NEW i, DoneIn(story, i)
  PROVE  NamedIn(story, i)
<1>1. PICK n \in DOMAIN story : story[n].type = "done" /\ story[n].order = i
  BY DEF DoneIn
<1>2. i \in Named(story[n])
  BY <1>1 DEF Named
<1> QED
  BY <1>2 DEF NamedIn

\* No log is added, and an order that the engine has seen does not come back.
LEMMA TaleQuiet ==
  ASSUME AccountInv, TaleInv, Next, UNCHANGED plan, Story' = Story,
         \A i \in OrderIds : ~ Fresh(i) /\ Gone(i) => OnBook(i)' = {} /\ taker'.id # i
  PROVE  TaleInv'
<1>1. PICK story : story = Story /\ story = Story'
  OBVIOUS
<1>2. DoneLast(story) /\ Opposed(story) /\ \A i \in OrderIds : TaleOf(i)
  BY <1>1 DEF TaleInv
<1>3. ASSUME NEW i \in OrderIds PROVE TaleOf(i)'
  <2>1. Fresh(i)' => Fresh(i)
    BY RequestStep
  <2>2. (NamedIn(story, i) => ~ Fresh(i)) /\ (DoneIn(story, i) => Gone(i) /\ NamedIn(story, i))
    BY <1>1, <1>2, DoneNamed DEF TaleOf
  <2> QED
    BY <1>1, <2>1, <2>2, TaleParts
<1>4. DoneLast(Story)' /\ Opposed(Story)'
  BY <1>1, <1>2, TaleParts
<1> QED
  BY <1>3, <1>4 DEF TaleInv

\* One log is added.
LEMMA TaleMore ==
  ASSUME AccountInv, TaleInv, Next, UNCHANGED plan, NEW log \in Log, Story' = Append(Story, log), Facing(log),
         \A i \in Named(log) : i \in OrderIds /\ ~ Fresh(i) /\ ~ Gone(i),
         \A i \in OrderIds : Gone(i) => OnBook(i)' = {} /\ taker'.id # i,
         log.type = "done" => OnBook(log.order)' = {} /\ taker'.id # log.order
  PROVE  TaleInv'
<1>1. PICK story, more : story = Story /\ more = Append(story, log) /\ more = Story'
  OBVIOUS
<1>2. story \in Seq(Log) /\ DoneLast(story) /\ Opposed(story) /\ \A i \in OrderIds : TaleOf(i)
  BY <1>1, Facts DEF TaleInv
<1>3. \A i \in Named(log) : ~ DoneIn(story, i)
  BY <1>1, <1>2 DEF TaleOf
<1>4. /\ DoneLast(more) /\ Opposed(more)
      /\ \A i : NamedIn(more, i) <=> NamedIn(story, i) \/ i \in Named(log)
      /\ \A i : DoneIn(more, i) <=> DoneIn(story, i) \/ (log.type = "done" /\ log.order = i)
  BY <1>1, <1>2, <1>3, TaleAppend
<1>5. ASSUME NEW i \in OrderIds PROVE TaleOf(i)'
  <2>1. Fresh(i)' => Fresh(i)
    BY RequestStep
  <2>2. (NamedIn(story, i) => ~ Fresh(i)) /\ (DoneIn(story, i) => Gone(i))
    BY <1>1, <1>2 DEF TaleOf
  <2>3. NamedIn(more, i) => ~ Fresh(i)'
    BY <1>4, <2>1, <2>2
  <2>4. DoneIn(more, i) => OnBook(i)' = {} /\ taker'.id # i
    BY <1>4, <2>2
  <2> QED
    BY <1>1, <2>3, <2>4, TaleParts
<1>6. DoneLast(Story)' /\ Opposed(Story)'
  BY <1>1, <1>4, TaleParts
<1> QED
  BY <1>5, <1>6 DEF TaleInv

LEMMA ReceiveTale ==
  ASSUME AccountInv, TaleInv, Next, NEW m \in topic, Engine(m), ~ m.cancel
  PROVE  TaleInv'
<1>1. /\ topic \subseteq [id : OrderIds, cancel : BOOLEAN]
      /\ \A i \in OrderIds : Order(i) \in Orders /\ Order(i).id = i
  BY Facts
<1>2. PICK i \in OrderIds : i = m.id /\ m = Message(i)
  BY <1>1 DEF Message
<1>3. Receive(Order(i)) /\ UNCHANGED <<plan, logTopic>>
  BY <1>2 DEF Engine
<1>4. UNCHANGED <<depths, out>> /\ (taker' = taker \/ taker' = TakerOf(Order(i)))
  BY <1>3 DEF Receive, bookVars
<1>5. Story' = Story
  BY <1>3, <1>4 DEF Story
<1>6. Fresh(i) /\ TakerOf(Order(i)).id = i
  BY <1>1, <1>2, TakerClaim DEF Fresh
<1>7. ASSUME NEW j \in OrderIds, ~ Fresh(j), Gone(j) PROVE OnBook(j)' = {} /\ taker'.id # j
  <2>1. OnBook(j)' = {}
    BY <1>4, <1>7 DEF OnBook, Gone
  <2>2. taker'.id # j
    BY <1>4, <1>6, <1>7 DEF Gone
  <2> QED
    BY <2>1, <2>2
<1> QED
  BY <1>3, <1>5, <1>7, TaleQuiet

LEMMA CancelTale ==
  ASSUME AccountInv, TaleInv, Next, NEW m \in topic, Engine(m), m.cancel
  PROVE  TaleInv'
<1>1. /\ BookInv /\ topic \subseteq [id : OrderIds, cancel : BOOLEAN] /\ out \in Seq(Log) /\ logSeq \in Nat
      /\ depths \in [Sides -> SUBSET BookOrder]
      /\ \A i \in OrderIds : Account(i) /\ Order(i) \in BookOrder /\ Order(i).id = i
  BY Facts
<1>2. PICK i \in OrderIds : i = m.id
  BY <1>1
<1>3. CancelOrder(Order(i)) /\ UNCHANGED <<plan, logTopic>>
  BY <1>2 DEF Engine
<1>4. taker' = taker /\ taker = NoTaker /\ out = <<>>
  BY <1>3 DEF CancelOrder, Idle
<1>5. \A j \in OrderIds : taker.id # j
  BY <1>4, BookAssumption DEF NoTaker
<1>6. CASE UNCHANGED <<depths, logSeq, out>>
  <2>1. Story' = Story
    BY <1>3, <1>6 DEF Story
  <2>2. \A j \in OrderIds : ~ Fresh(j) /\ Gone(j) => OnBook(j)' = {} /\ taker'.id # j
    BY <1>4, <1>6 DEF OnBook, Gone
  <2> QED
    BY <1>3, <2>1, <2>2, TaleQuiet
<1>7. ASSUME NEW x \in depths[Order(i).side], x.id = i,
             depths' = [depths EXCEPT ![Order(i).side] = Decreased(@, x, x.size)],
             logSeq' = logSeq + 1, out' = <<DoneLog(logSeq + 1, x, x.size, "cancelled")>>
      PROVE  TaleInv'
  <2>1. PICK s \in Sides : s = Order(i).side
    BY <1>1 DEF BookOrder
  <2>2. x \in BookOrder /\ x \in OnBook(i) /\ x.size \in Nat
    <3>1. x \in BookOrder
      BY <1>1, <1>7, <2>1
    <3> QED
      BY <1>7, <2>1, <3>1 DEF OnBook, Sides, BookOrder
  <2>3. OnBook(i) = {x} /\ ~ Fresh(i)
    BY <1>1, <2>2 DEF Account
  <2>4. (\A j : j # i => OnBook(j)' = OnBook(j)) /\ OnBook(i)' = {}
    <3>1. depths' = [depths EXCEPT ![s] = Decreased(@, x, x.size)]
      BY <1>7, <2>1
    <3>2. x \in depths[s] /\ x.size <= x.size /\ \A y \in OnBook(x.id) : y = x
      BY <1>7, <2>1, <2>2, <2>3
    <3>3. /\ \A j : j # x.id => OnBook(j)' = OnBook(j)
          /\ OnBook(x.id)' = IF x.size = x.size THEN {} ELSE {[x EXCEPT !.size = @ - x.size]}
      BY <1>1, <2>2, <3>1, <3>2, OnBookAfter
    <3> QED
      BY <1>7, <3>3
  <2>5. PICK log \in Log : log = DoneLog(logSeq + 1, x, x.size, "cancelled")
    <3>1. logSeq + 1 \in Nat
      BY <1>1
    <3>2. DoneLog(logSeq + 1, x, x.size, "cancelled") \in Log
      BY <2>2, <3>1, LogTypes
    <3> QED
      BY <3>2
  <2>6. out' = Append(out, log) /\ log.type = "done" /\ log.order = i
    BY <1>4, <1>7, <2>5 DEF DoneLog
  <2>7. Story' = Append(Story, log)
    <3>1. logTopic \in Seq(Log)
      BY Facts
    <3> QED
      BY <1>1, <1>3, <2>6, <3>1, StoryMore DEF Story
  <2>8. Facing(log) /\ Named(log) = {i} /\ ~ Gone(i)
    BY <2>3, <2>6 DEF Facing, Named, Gone
  <2>9. \A j \in OrderIds : Gone(j) => OnBook(j)' = {} /\ taker'.id # j
    BY <1>4, <2>4, <2>8 DEF Gone
  <2>10. OnBook(log.order)' = {} /\ taker'.id # log.order
    BY <1>4, <1>5, <2>4, <2>6
  <2> QED
    BY <1>3, <2>3, <2>7, <2>8, <2>9, <2>10, TaleMore
<1> QED
  BY <1>1, <1>3, <1>6, <1>7 DEF CancelOrder

LEMMA MatchTale ==
  ASSUME AccountInv, TaleInv, Next, MatchMaker, UNCHANGED <<plan, logTopic>>
  PROVE  TaleInv'
<1>1. Story \in Seq(Log) /\ \A j \in OrderIds : Order(j) \in BookOrder
  BY Facts
<1>2. PICK m, z, a, b, log, done, with : Trade(m, z, a, b, log, done, with)
  BY MatchTrade
<1>3. PICK story, more : story = Story /\ more = Story'
  OBVIOUS
<1>4. story \in Seq(Log) /\ DoneLast(story) /\ Opposed(story) /\ \A i \in OrderIds : TaleOf(i)
  BY <1>1, <1>3 DEF TaleInv
<1>5. /\ a \in OrderIds /\ b \in OrderIds /\ a # b /\ log \in Log /\ done \in Log /\ with \in Seq(Log)
      /\ with = Append(story, log) /\ more = IF z = m.size THEN Append(with, done) ELSE with
      /\ log.type = "match" /\ log.order = a /\ log.maker = b /\ done.type = "done" /\ done.order = b
      /\ a = taker.id /\ ~ Fresh(a) /\ ~ Fresh(b) /\ OnBook(b) # {}
      /\ \A j : j # b => OnBook(j)' = OnBook(j)
      /\ z = m.size => OnBook(b)' = {}
  BY <1>2, <1>3 DEF Trade
<1>6. taker'.id = a
  <2>1. taker \in BookOrder
    BY <1>2 DEF Trade
  <2>2. taker' = [taker EXCEPT !.funds = @ - z * m.price] \/ taker' = [taker EXCEPT !.size = @ - z]
    BY <1>2 DEF Trade
  <2> QED
    BY <1>5, <2>1, <2>2 DEF BookOrder
<1>7. Facing(log)
  <2>1. Order(a).side = taker.side /\ Order(b).side = m.side
    BY <1>2 DEF Trade, Remains
  <2>2. m.side = Opposite(taker.side) /\ Order(a).side \in {"buy", "sell"}
    BY <1>1, <1>2, <1>5 DEF Trade, BookOrder, Sides
  <2>3. Order(a).side = "buy" <=> Order(b).side # "buy"
    BY <2>1, <2>2 DEF Opposite
  <2> QED
    BY <1>5, <2>3 DEF Facing
<1>8. Named(log) = {a, b} /\ Named(done) = {b} /\ ~ Gone(a) /\ ~ Gone(b)
  BY <1>5 DEF Named, Gone
<1>9. ~ DoneIn(story, a) /\ ~ DoneIn(story, b)
  BY <1>3, <1>4, <1>5, <1>8 DEF TaleOf
<1>10. /\ DoneLast(with) /\ Opposed(with)
       /\ \A i : NamedIn(with, i) <=> NamedIn(story, i) \/ i \in {a, b}
       /\ \A i : DoneIn(with, i) <=> DoneIn(story, i)
  <2>1. \A i \in Named(log) : ~ DoneIn(story, i)
    BY <1>8, <1>9
  <2> QED
    BY <1>4, <1>5, <1>7, <1>8, <2>1, TaleAppend
<1>11. /\ DoneLast(more) /\ Opposed(more)
       /\ \A i : NamedIn(more, i) <=> NamedIn(story, i) \/ i \in {a, b}
       /\ \A i : DoneIn(more, i) => DoneIn(story, i) \/ (z = m.size /\ i = b)
  <2>1. CASE z # m.size
    BY <1>5, <1>10, <2>1
  <2>2. CASE z = m.size
    <3>1. Facing(done) /\ \A i \in Named(done) : ~ DoneIn(with, i)
      BY <1>5, <1>8, <1>9, <1>10 DEF Facing
    <3>2. /\ DoneLast(more) /\ Opposed(more)
          /\ \A i : NamedIn(more, i) <=> NamedIn(with, i) \/ i \in Named(done)
          /\ \A i : DoneIn(more, i) <=> DoneIn(with, i) \/ (done.type = "done" /\ done.order = i)
      <4>1. more = Append(with, done)
        BY <1>5, <2>2
      <4> QED
        BY <1>5, <1>10, <3>1, <4>1, TaleAppend
    <3> QED
      BY <1>5, <1>8, <1>10, <2>2, <3>2
  <2> QED
    BY <2>1, <2>2
<1>12. ASSUME NEW i \in OrderIds PROVE TaleOf(i)'
  <2>1. Fresh(i)' => Fresh(i)
    BY RequestStep
  <2>2. (NamedIn(story, i) => ~ Fresh(i)) /\ (DoneIn(story, i) => Gone(i))
    BY <1>3, <1>4 DEF TaleOf
  <2>3. NamedIn(more, i) => ~ Fresh(i)'
    BY <1>5, <1>11, <2>1, <2>2
  <2>4. DoneIn(more, i) => OnBook(i)' = {} /\ taker'.id # i
    <3>1. CASE i = b
      BY <1>5, <1>6, <1>8, <1>11, <2>2, <3>1
    <3>2. CASE i # b
      BY <1>5, <1>6, <1>8, <1>11, <2>2, <3>2 DEF Gone
    <3> QED
      BY <3>1, <3>2
  <2> QED
    BY <1>3, <2>3, <2>4, TaleParts
<1>13. DoneLast(Story)' /\ Opposed(Story)'
  BY <1>3, <1>11, TaleParts
<1> QED
  BY <1>12, <1>13 DEF TaleInv

LEMMA FinishTale ==
  ASSUME AccountInv, TaleInv, Next, FinishTaker, UNCHANGED <<plan, logTopic>>
  PROVE  TaleInv'
<1>1. /\ BookInv /\ out \in Seq(Log) /\ logTopic \in Seq(Log) /\ logSeq \in Nat
      /\ depths \in [Sides -> SUBSET BookOrder] /\ \A j \in OrderIds : Account(j)
  BY Facts
<1>2. taker # NoTaker /\ taker' = NoTaker /\ logSeq + 1 \in Nat
  BY <1>1 DEF FinishTaker
<1>3. taker \in BookOrder /\ taker.id \in OrderIds
  BY <1>1, <1>2 DEF BookInv, BookTypeOK, BookOrder
<1>4. PICK i \in OrderIds, t \in BookOrder : i = taker.id /\ t = taker
  BY <1>3
<1>5. OnBook(i) = {} /\ ~ Fresh(i) /\ ~ Gone(i)
  BY <1>1, <1>4 DEF Account, Gone
<1>6. \A j \in OrderIds : taker'.id # j
  BY <1>2, BookAssumption DEF NoTaker
<1>7. ASSUME NEW log \in Log, out' = Append(out, log), log.type # "match", log.order = i,
             \A j : j # i => OnBook(j)' = OnBook(j), log.type = "done" => OnBook(i)' = {}
      PROVE  TaleInv'
  <2>1. Story' = Append(Story, log)
    BY <1>1, <1>7, StoryMore DEF Story
  <2>2. Facing(log) /\ Named(log) = {i}
    BY <1>7 DEF Facing, Named
  <2>3. \A j \in OrderIds : Gone(j) => OnBook(j)' = {} /\ taker'.id # j
    BY <1>5, <1>6, <1>7 DEF Gone
  <2>4. log.type = "done" => OnBook(log.order)' = {} /\ taker'.id # log.order
    BY <1>6, <1>7
  <2>5. \A j \in Named(log) : j \in OrderIds /\ ~ Fresh(j) /\ ~ Gone(j)
    BY <1>5, <2>2
  <2> QED
    BY <2>1, <2>2, <2>3, <2>4, <2>5, TaleMore
<1>8. UNCHANGED depths => (\A j : OnBook(j)' = OnBook(j))
  BY DEF OnBook
<1>9. CASE /\ taker.type = "limit" /\ taker.size > 0
           /\ depths' = [depths EXCEPT ![taker.side] = Added(@, taker)]
           /\ out' = Append(out, OpenLog(logSeq + 1, taker))
  <2>1. PICK log \in Log : log = OpenLog(logSeq + 1, taker)
    BY <1>2, <1>3, LogTypes
  <2>2. log.type = "open" /\ log.order = i
    BY <1>4, <2>1 DEF OpenLog
  <2>3. (\A j : j # t.id => OnBook(j)' = OnBook(j)) /\ OnBook(t.id)' = {t}
    <3>1. depths' = [depths EXCEPT ![t.side] = Added(@, t)] /\ OnBook(t.id) = {}
      BY <1>4, <1>5, <1>9
    <3> QED
      BY <1>1, <3>1, OnBookMore
  <2> QED
    BY <1>4, <1>7, <1>9, <2>1, <2>2, <2>3
<1>10. CASE /\ taker.type = "limit" /\ taker.size = 0
            /\ out' = Append(out, DoneLog(logSeq + 1, taker, 0, "filled"))
            /\ UNCHANGED depths
  <2>1. PICK log \in Log : log = DoneLog(logSeq + 1, taker, 0, "filled")
    BY <1>2, <1>3, LogTypes
  <2>2. log.type = "done" /\ log.order = i
    BY <1>4, <2>1 DEF DoneLog
  <2> QED
    BY <1>5, <1>7, <1>8, <1>10, <2>1, <2>2
<1>11. CASE /\ taker.type = "market" /\ UNCHANGED depths
            /\ out' = Append(out,
                 DoneLog(logSeq + 1, [taker EXCEPT !.price = 0], 0,
                         IF (IF taker.side = "buy" THEN taker.funds
                                                   ELSE taker.size) > 0
                         THEN "cancelled" ELSE "filled"))
  <2>1. PICK n \in BookOrder : n = [taker EXCEPT !.price = 0]
    <3>1. [taker EXCEPT !.price = 0] \in BookOrder
      BY <1>3 DEF BookOrder
    <3> QED
      BY <3>1
  <2>2. PICK w \in {"filled", "cancelled"} :
          w = IF (IF taker.side = "buy" THEN taker.funds ELSE taker.size) > 0 THEN "cancelled" ELSE "filled"
    OBVIOUS
  <2>3. PICK log \in Log : log = DoneLog(logSeq + 1, n, 0, w)
    <3>1. DoneLog(logSeq + 1, n, 0, w) \in Log
      BY <1>2, LogTypes
    <3> QED
      BY <3>1
  <2>4. log.type = "done" /\ log.order = i
    <3>1. n.id = i
      BY <1>3, <1>4, <2>1 DEF BookOrder
    <3> QED
      BY <2>3, <3>1 DEF DoneLog
  <2>5. out' = Append(out, log)
    BY <1>11, <2>1, <2>2, <2>3
  <2> QED
    BY <1>5, <1>7, <1>8, <1>11, <2>4, <2>5
<1> QED
  BY <1>9, <1>10, <1>11 DEF FinishTaker

LEMMA TaleInit ==
  ASSUME Init
  PROVE  TaleInv
<1>1. Story = <<>>
  <2>1. out = <<>> /\ logTopic = <<>>
    BY DEF Init, BookInit
  <2>2. logTopic \o out = <<>>
    BY <2>1
  <2> QED
    BY <2>2 DEF Story
<1>2. DOMAIN Story = {}
  BY <1>1
<1> QED
  BY <1>2 DEF TaleInv, DoneLast, Opposed, TaleOf, NamedIn, DoneIn

LEMMA TaleStep ==
  ASSUME AccountInv, TaleInv, [Next]_vars
  PROVE  TaleInv'
<1>1. CASE UNCHANGED vars
  <2>1. Story' = Story /\ UNCHANGED <<plan, depths, taker, rows, unsent, topic>>
    BY <1>1 DEF vars, bookVars, dbVars, restVars, Story
  <2>2. PICK story : story = Story /\ story = Story'
    BY <2>1
  <2>3. DoneLast(story) /\ Opposed(story) /\ \A i \in OrderIds : TaleOf(i)
    BY <2>2 DEF TaleInv
  <2>4. ASSUME NEW i \in OrderIds PROVE TaleOf(i)'
    <3>1. Fresh(i)' <=> Fresh(i)
      BY <2>1 DEF Fresh
    <3>2. OnBook(i)' = OnBook(i) /\ taker'.id = taker.id
      BY <2>1 DEF OnBook
    <3>3. (NamedIn(story, i) => ~ Fresh(i)) /\ (DoneIn(story, i) => OnBook(i) = {} /\ taker.id # i)
      BY <2>2, <2>3 DEF TaleOf, Gone
    <3> QED
      BY <2>1, <2>2, <3>1, <3>2, <3>3, TaleParts
  <2>5. DoneLast(Story)' /\ Opposed(Story)'
    BY <2>1, <2>2, <2>3, TaleParts
  <2> QED
    BY <2>4, <2>5 DEF TaleInv
<1>2. CASE Next
  <2>1. ASSUME UNCHANGED <<bookVars, plan, logTopic>> PROVE TaleInv'
    <3>1. Story' = Story /\ UNCHANGED <<depths, taker, plan>>
      BY <2>1 DEF bookVars, Story
    <3>2. \A i \in OrderIds : ~ Fresh(i) /\ Gone(i) => OnBook(i)' = {} /\ taker'.id # i
      BY <3>1 DEF OnBook, Gone
    <3> QED
      BY <1>2, <3>1, <3>2, TaleQuiet
  <2>2. ASSUME NEW i \in OrderIds,
               CheckBalance(i) \/ PlaceOrder(i) \/ SubmitOrder(i) \/ RequestCancel(i) \/ ExecuteFill(i)
        PROVE  UNCHANGED <<bookVars, plan, logTopic>>
    BY <2>2 DEF CheckBalance, PlaceOrder, SubmitOrder, RequestCancel, ExecuteFill
  <2>3. ASSUME NEW m \in topic, Engine(m) PROVE TaleInv'
    BY <1>2, <2>3, ReceiveTale, CancelTale
  <2>4. CASE EngineMatch
    <3>1. (MatchMaker \/ FinishTaker) /\ UNCHANGED <<plan, logTopic>>
      BY <2>4 DEF EngineMatch
    <3> QED
      BY <1>2, <3>1, MatchTale, FinishTale
  <2>5. CASE EngineLogs
    <3>1. out' = <<>> /\ logTopic' = logTopic \o out /\ UNCHANGED <<depths, taker, plan>>
      BY <2>5 DEF EngineLogs
    <3>2. Story \in Seq(Log)
      BY Facts
    <3>3. Story \o <<>> = Story
      BY <3>2
    <3>4. Story' = Story
      BY <3>1, <3>3 DEF Story
    <3>5. \A i \in OrderIds : ~ Fresh(i) /\ Gone(i) => OnBook(i)' = {} /\ taker'.id # i
      BY <3>1 DEF OnBook, Gone
    <3> QED
      BY <1>2, <3>1, <3>4, <3>5, TaleQuiet
  <2>6. CASE ReadLog \/ SendFill \/ FlushFill \/ Crash
    <3>1. UNCHANGED <<bookVars, plan, logTopic>>
      BY <2>6 DEF ReadLog, SendFill, FlushFill, Crash
    <3> QED
      BY <2>1, <3>1
  <2>7. ASSUME NEW u \in Users, NEW c \in Currencies, ExecuteBill(u, c)
        PROVE  UNCHANGED <<bookVars, plan, logTopic>>
    BY <2>7 DEF ExecuteBill
  <2> QED
    BY <1>2, <2>1, <2>2, <2>3, <2>4, <2>5, <2>6, <2>7 DEF Next, Settle
<1> QED
  BY <1>1, <1>2


-----------------------------------------------------------------------------
(* An order is finished by its done fill, and all its fills before that are settled. *)

Ended(i, k) ==
  /\ k \in DOMAIN fills /\ fills[k].order = i /\ fills[k].done
  /\ \A j \in DOMAIN fills : j <= k /\ fills[j].order = i => fills[j].settled

DeadInv == \A i \in OrderIds : rows[i].status \notin {"none", "new", "open"} => \E k : Ended(i, k)

LEMMA FirstDown ==
  ASSUME NEW P, IsFiniteSet(P), P \subseteq Nat, NEW n \in Nat, NEW k \in FirstOf(P, n), NEW j \in P, j <= k
  PROVE  j \in FirstOf(P, n)
<1>1. k \in P /\ Cardinality({x \in P : x <= k}) <= n
  BY DEF FirstOf
<1>2. PICK K, J : K = {x \in P : x <= k} /\ J = {x \in P : x <= j}
  OBVIOUS
<1>3. J \subseteq K /\ K \subseteq P
  <2>1. \A x \in Nat, y \in Nat, z \in Nat : x <= y /\ y <= z => x <= z
    OBVIOUS
  <2> QED
    BY <1>1, <1>2, <2>1
<1>4. IsFiniteSet(K)
  BY <1>3, FS_Subset
<1>5. Cardinality(J) <= Cardinality(K) /\ Cardinality(J) \in Nat /\ Cardinality(K) \in Nat
  BY <1>3, <1>4, FS_Subset, FS_CardinalityType
<1>6. Cardinality(J) <= n
  BY <1>1, <1>2, <1>5
<1> QED
  BY <1>2, <1>6 DEF FirstOf

\* The table of fills keeps what it has.
LEMMA DeadKept ==
  ASSUME DeadInv, fills \in Seq(FillRow), fills' \in Seq(FillRow),
         \A k \in DOMAIN fills :
           /\ k \in DOMAIN fills'
           /\ fills'[k].order = fills[k].order /\ fills'[k].done = fills[k].done
           /\ fills[k].settled => fills'[k].settled,
         NEW i \in OrderIds, rows[i].status \notin {"none", "new", "open"}
  PROVE  \E k : Ended(i, k)'
<1>1. PICK k : Ended(i, k)
  BY DEF DeadInv
<1>2. PICK m \in Nat, n \in Nat : DOMAIN fills = 1 .. m /\ DOMAIN fills' = 1 .. n
  OBVIOUS
<1>3. k \in 1 .. m
  BY <1>1, <1>2 DEF Ended
<1>4. ASSUME NEW j \in DOMAIN fills', j <= k PROVE j \in DOMAIN fills
  BY <1>2, <1>3, <1>4
<1>5. Ended(i, k)'
  <2>1. k \in DOMAIN fills' /\ fills'[k].order = i /\ fills'[k].done
    BY <1>1 DEF Ended
  <2>2. \A j \in DOMAIN fills' : j <= k /\ fills'[j].order = i => fills'[j].settled
    BY <1>1, <1>4 DEF Ended
  <2> QED
    BY <2>1, <2>2 DEF Ended
<1> QED
  BY <1>5

\* No row is finished.
LEMMA DeadQuiet ==
  ASSUME DeadInv, fills \in Seq(FillRow), fills' \in Seq(FillRow),
         \A k \in DOMAIN fills :
           /\ k \in DOMAIN fills'
           /\ fills'[k].order = fills[k].order /\ fills'[k].done = fills[k].done
           /\ fills[k].settled => fills'[k].settled,
         \A i \in OrderIds : rows'[i].status = rows[i].status \/ rows'[i].status \in {"new", "open"}
  PROVE  DeadInv'
<1>1. ASSUME NEW i \in OrderIds, rows'[i].status \notin {"none", "new", "open"} PROVE \E k : Ended(i, k)'
  <2>1. rows[i].status \notin {"none", "new", "open"}
    BY <1>1
  <2> QED
    BY <2>1, DeadKept
<1> QED
  BY <1>1 DEF DeadInv

LEMMA DeadFill ==
  ASSUME RowInv, DeadInv, NEW i \in OrderIds, ExecuteFill(i)
  PROVE  DeadInv'
<1>1. /\ PostInv /\ rows \in [OrderIds -> Row] /\ fills \in Seq(FillRow) /\ UNCHANGED logTopic
      /\ DOMAIN fills \subseteq Nat /\ IsFiniteSet(DOMAIN fills)
  BY PostFacts, FillNumbers DEF RowInv, PostInv, AccountInv, BaseInv, TableInv, ExecuteFill
<1>2. PICK p, ends, row, freed : Settling(i, p, ends, row, freed)
  BY <1>1, SettlingIs
<1>3. /\ p = Processed(Fetched(i)) /\ p \subseteq DOMAIN fills /\ ends = {k \in p : fills[k].done}
      /\ \A k \in p : fills[k].order = i
      /\ ends = {} => row.status = rows[i].status
      /\ rows' = [rows EXCEPT ![i] = row]
      /\ fills' = [k \in DOMAIN fills |-> IF k \in p THEN [fills[k] EXCEPT !.settled = TRUE] ELSE fills[k]]
  BY <1>2 DEF Settling
<1>4. /\ DOMAIN fills' = DOMAIN fills
      /\ \A k \in DOMAIN fills :
           /\ fills'[k].order = fills[k].order /\ fills'[k].done = fills[k].done
           /\ fills'[k].size = fills[k].size /\ fills'[k].price = fills[k].price
           /\ fills'[k].settled = (fills[k].settled \/ k \in p)
  <2>1. /\ PostInv /\ UNCHANGED logTopic
        /\ fills' = [k \in DOMAIN fills |-> IF k \in p THEN [fills[k] EXCEPT !.settled = TRUE] ELSE fills[k]]
    BY <1>1, <1>3
  <2> QED
    BY <2>1, MarkFills
<1>5. fills' \in Seq(FillRow)
  <2>1. PICK n \in Nat : DOMAIN fills = 1 .. n /\ \A k \in 1 .. n : fills[k] \in FillRow
    BY <1>1
  <2>2. \A k \in 1 .. n : [fills[k] EXCEPT !.settled = TRUE] \in FillRow
    BY <2>1 DEF FillRow
  <2>3. fills' \in [1 .. n -> FillRow]
    BY <1>3, <2>1, <2>2
  <2> QED
    BY <2>3, ListIsSeq
<1>6. CASE ends = {}
  <2>1. rows'[i].status = rows[i].status /\ \A j \in OrderIds : j # i => rows'[j] = rows[j]
    BY <1>1, <1>3, <1>6
  <2>2. \A j \in OrderIds : rows'[j].status = rows[j].status
    BY <2>1
  <2> QED
    BY <1>1, <1>4, <1>5, <2>2, DeadQuiet
<1>7. ASSUME NEW k \in ends PROVE DeadInv'
  <2>1. PICK P : P = {x \in DOMAIN fills : fills[x].order = i /\ ~ fills[x].settled}
    OBVIOUS
  <2>2. Fetched(i) = FirstOf(P, FillLimit) /\ FillLimit \in Nat
    BY <2>1, SettlementAssumption DEF Fetched
  <2>3. P \subseteq Nat /\ IsFiniteSet(P)
    BY <1>1, <2>1, FS_Subset
  <2>4. k \in p /\ k \in Fetched(i) /\ fills[k].done /\ fills[k].order = i /\ k \in DOMAIN fills
    BY <1>3, <1>7 DEF Processed
  <2>5. ASSUME NEW j \in DOMAIN fills, j <= k, fills[j].order = i, ~ fills[j].settled PROVE j \in p
    <3>1. j \in P
      BY <2>1, <2>5
    <3>2. j \in Fetched(i)
      BY <2>2, <2>3, <2>4, <2>5, <3>1, FirstDown
    <3>3. \A l \in Fetched(i) : fills[l].done => j <= l
      <4>1. \A l \in Fetched(i) : fills[l].done => k <= l
        BY <1>3, <2>4 DEF Processed
      <4>2. Fetched(i) \subseteq Nat
        BY <2>2, <2>3 DEF FirstOf
      <4>3. j \in Nat /\ k \in Nat /\ j <= k
        BY <1>1, <2>4, <2>5
      <4>4. ASSUME NEW l \in Fetched(i), fills[l].done PROVE j <= l
        <5>1. l \in Nat /\ k <= l
          BY <4>1, <4>2, <4>4
        <5> QED
          BY <4>3, <5>1
      <4> QED
        BY <4>4
    <3> QED
      BY <1>3, <3>2, <3>3 DEF Processed
  <2>6. Ended(i, k)'
    <3>1. k \in DOMAIN fills' /\ fills'[k].order = i /\ fills'[k].done
      BY <1>4, <2>4
    <3>2. \A j \in DOMAIN fills' : j <= k /\ fills'[j].order = i => fills'[j].settled
      BY <1>4, <2>5
    <3> QED
      BY <3>1, <3>2 DEF Ended
  <2>7. ASSUME NEW j \in OrderIds, rows'[j].status \notin {"none", "new", "open"} PROVE \E l : Ended(j, l)'
    <3>1. CASE j = i
      BY <2>6, <3>1
    <3>2. CASE j # i
      <4>1. rows'[j] = rows[j]
        BY <1>1, <1>3, <3>2
      <4>2. rows[j].status \notin {"none", "new", "open"}
        BY <2>7, <4>1
      <4>3. \A x \in DOMAIN fills :
              /\ x \in DOMAIN fills' /\ fills'[x].order = fills[x].order /\ fills'[x].done = fills[x].done
              /\ fills[x].settled => fills'[x].settled
        BY <1>4
      <4> QED
        BY <1>1, <1>5, <4>2, <4>3, DeadKept
    <3> QED
      BY <3>1, <3>2
  <2> QED
    BY <2>7 DEF DeadInv
<1> QED
  BY <1>6, <1>7

LEMMA DeadStep ==
  ASSUME RowInv, RowInv', DeadInv, [Next]_vars
  PROVE  DeadInv'
<1>1. PostInv /\ rows \in [OrderIds -> Row] /\ fills \in Seq(FillRow)
  BY PostFacts DEF RowInv, PostInv, AccountInv, BaseInv, TableInv
<1>2. fills' \in Seq(FillRow)
  BY DEF RowInv, PostInv, AccountInv, BaseInv, PipeInv
<1>3. ASSUME UNCHANGED fills, \A i \in OrderIds : rows'[i].status = rows[i].status \/ rows'[i].status \in {"new", "open"}
      PROVE  DeadInv'
  BY <1>1, <1>2, <1>3, DeadQuiet
<1>4. ASSUME NEW i \in OrderIds, CheckBalance(i) \/ SubmitOrder(i) \/ RequestCancel(i) PROVE DeadInv'
  <2>1. UNCHANGED <<rows, fills>>
    BY <1>4 DEF CheckBalance, SubmitOrder, RequestCancel, dbVars
  <2> QED
    BY <1>3, <2>1
<1>5. ASSUME NEW i \in OrderIds, PlaceOrder(i) PROVE DeadInv'
  <2>1. rows' = [rows EXCEPT ![i].status = "new"] /\ UNCHANGED fills
    BY <1>5 DEF PlaceOrder
  <2>2. ASSUME NEW j \in OrderIds PROVE rows'[j].status = rows[j].status \/ rows'[j].status \in {"new", "open"}
    BY <1>1, <2>1 DEF Row
  <2> QED
    BY <1>3, <2>1, <2>2
<1>6. ASSUME NEW m \in topic, Engine(m) PROVE DeadInv'
  <2>1. UNCHANGED <<rows, fills>>
    BY <1>6 DEF Engine, dbVars
  <2> QED
    BY <1>3, <2>1
<1>7. CASE EngineMatch \/ EngineLogs \/ SendFill \/ Crash \/ UNCHANGED vars
  <2>1. UNCHANGED <<rows, fills>>
    BY <1>7 DEF EngineMatch, EngineLogs, SendFill, Crash, vars, dbVars
  <2> QED
    BY <1>3, <2>1
<1>8. CASE ReadLog
  <2>1. PICK i : rows' = rows \/ rows' = [rows EXCEPT ![i].status = "open"]
    BY <1>8 DEF ReadLog
  <2>2. UNCHANGED fills
    BY <1>8 DEF ReadLog
  <2>3. ASSUME NEW j \in OrderIds PROVE rows'[j].status = rows[j].status \/ rows'[j].status \in {"new", "open"}
    <3>1. CASE rows'[j] = rows[j]
      BY <3>1
    <3>2. CASE i = j /\ rows' = [rows EXCEPT ![i].status = "open"]
      BY <1>1, <3>2 DEF Row
    <3>3. CASE i # j
      BY <1>1, <2>1, <3>3
    <3> QED
      BY <2>1, <3>1, <3>2, <3>3
  <2> QED
    BY <1>3, <2>2, <2>3
<1>9. CASE FlushFill
  <2>1. UNCHANGED rows
    BY <1>9 DEF FlushFill
  <2>2. \A k \in DOMAIN fills : k \in DOMAIN fills' /\ fills'[k] = fills[k]
    BY <1>1, <1>9, FlushKeeps
  <2> QED
    BY <1>1, <1>2, <2>1, <2>2, DeadQuiet
<1>10. ASSUME NEW i \in OrderIds, ExecuteFill(i) PROVE DeadInv'
  BY <1>10, DeadFill
<1>11. ASSUME NEW u \in Users, NEW c \in Currencies, ExecuteBill(u, c) PROVE DeadInv'
  <2>1. UNCHANGED <<rows, fills>>
    BY <1>11 DEF ExecuteBill
  <2> QED
    BY <1>3, <2>1
<1> QED
  BY <1>4, <1>5, <1>6, <1>7, <1>8, <1>9, <1>10, <1>11 DEF Next, Settle


-----------------------------------------------------------------------------
(* Until the process dies, the fills are those of the log in its order. *)

Precedes(f, g) == f.seq < g.seq \/ (f.seq = g.seq /\ f.order # g.order)

InOrder(s) == \A j, k \in DOMAIN s : j < k => Precedes(s[j], s[k])

\* The fills in the table and those on their way to it.
All == fills \o Line

\* What a trade brings an order of this side.
Flow(c, side, f) ==
  IF c = "base" THEN IF side = "buy" THEN f.size ELSE - f.size
  ELSE IF side = "buy" THEN - (f.size * f.price) ELSE f.size * f.price

Signed(c) == [f \in FillRow |-> IF f.done THEN 0 ELSE Flow(c, Order(f.order).side, f)]

\* What one side gets, the other side pays.
Even(s) == \A c \in Currencies : SumOf(Weighed(Signed(c), s)) = 0

Clean(s, last) == InOrder(s) /\ Even(s) /\ \A k \in DOMAIN s : s[k].seq <= last

CleanInv == crashes \in Nat /\ (crashes = 0 => Clean(All, lastSeq))

LEMMA SignedType ==
  ASSUME NEW c
  PROVE  /\ Signed(c) \in [FillRow -> Int]
         /\ \A f \in FillRow : f.size \in Nat /\ f.price \in Nat /\ f.size * f.price \in Nat
         /\ \A side, f \in FillRow : Flow(c, side, f) \in Int
<1>1. \A f \in FillRow : f.size \in Nat /\ f.price \in Nat
  BY DEF FillRow
<1>2. \A f \in FillRow : f.size * f.price \in Nat
  BY <1>1
<1>3. ASSUME NEW f \in FillRow, NEW side PROVE Flow(c, side, f) \in Int
  <2>1. PICK z \in Nat, v \in Nat : z = f.size /\ v = f.size * f.price
    BY <1>1, <1>2
  <2>2. (- z) \in Int /\ (- v) \in Int
    OBVIOUS
  <2> QED
    BY <2>1, <2>2 DEF Flow
<1>4. Signed(c) \in [FillRow -> Int]
  BY <1>3 DEF Signed
<1> QED
  BY <1>1, <1>2, <1>3, <1>4

LEMMA WeighedOne ==
  ASSUME NEW S, NEW w \in [S -> Int], NEW x \in S
  PROVE  SumOf(Weighed(w, <<x>>)) = w[x] /\ Weighed(w, <<x>>) \in Seq(Int)
<1>1. PICK none \in Seq(S), zero \in Seq(Int) : none = <<>> /\ zero = <<>> /\ zero = Weighed(w, none)
  <2>1. <<>> \in Seq(S) /\ <<>> \in Seq(Int)
    OBVIOUS
  <2>2. Weighed(w, <<>>) = <<>>
    BY DEF Weighed
  <2> QED
    BY <2>1, <2>2
<1>2. Append(none, x) = <<x>>
  BY <1>1
<1>3. Weighed(w, <<x>>) = Append(zero, w[x])
  BY <1>1, <1>2, WeighedAppend
<1>4. w[x] \in Int
  OBVIOUS
<1>5. SumOf(Append(zero, w[x])) = SumOf(zero) + w[x] /\ Append(zero, w[x]) \in Seq(Int)
  BY <1>4, SumAppend
<1>6. SumOf(zero) = 0
  BY <1>1, SumOfEmpty
<1>7. PICK n \in Int : n = w[x]
  BY <1>4
<1>8. SumOf(Weighed(w, <<x>>)) = 0 + n
  BY <1>3, <1>5, <1>6, <1>7
<1>9. 0 + n = n
  OBVIOUS
<1>10. SumOf(Weighed(w, <<x>>)) = w[x]
  BY <1>7, <1>8, <1>9
<1> QED
  BY <1>3, <1>5, <1>10

LEMMA WeighedTwo ==
  ASSUME NEW S, NEW w \in [S -> Int], NEW x \in S, NEW y \in S
  PROVE  SumOf(Weighed(w, <<x, y>>)) = w[x] + w[y]
<1>1. PICK s \in Seq(S) : s = <<x>>
  <2>1. <<x>> \in Seq(S)
    OBVIOUS
  <2> QED
    BY <2>1
<1>2. Append(s, y) = <<x, y>>
  <2>1. PICK a \in Seq(S), b \in Seq(S) : a = Append(s, y) /\ b = <<x, y>>
    <3>1. Append(s, y) \in Seq(S) /\ <<x, y>> \in Seq(S)
      OBVIOUS
    <3> QED
      BY <3>1
  <2>2. Len(a) = 2 /\ Len(b) = 2 /\ a[1] = x /\ b[1] = x /\ a[2] = y /\ b[2] = y
    BY <1>1, <2>1
  <2>3. \A k \in 1 .. Len(a) : a[k] = b[k]
    BY <2>2
  <2> QED
    BY <2>1, <2>2, <2>3, SameSeq
<1>3. PICK t \in Seq(Int) : t = Weighed(w, s) /\ SumOf(t) = w[x]
  BY <1>1, WeighedOne
<1>4. Weighed(w, <<x, y>>) = Append(t, w[y])
  BY <1>2, <1>3, WeighedAppend
<1>5. SumOf(Append(t, w[y])) = SumOf(t) + w[y]
  <2>1. w[y] \in Int
    OBVIOUS
  <2> QED
    BY <2>1, SumAppend
<1> QED
  BY <1>3, <1>4, <1>5

\* Keeping everything keeps the sequence.
LEMMA KeptAll ==
  ASSUME NEW S, NEW s \in Seq(S)
  PROVE  Kept(s, DOMAIN s) = s
<1>1. DOMAIN s = 1 .. Len(s) /\ Len(s) \in Nat
  OBVIOUS
<1>2. PICK f : Keeps(f, s, DOMAIN s, S) /\ Kept(s, DOMAIN s) = f[Len(s)]
  BY KeptIs
<1> DEFINE T == {k \in 0 .. Len(s) : f[k] = Start(s, k)}
<1>3. 0 \in T
  <2>1. Start(s, 0) = <<>>
    BY DEF Start
  <2> QED
    BY <1>1, <1>2, <2>1 DEF Keeps
<1>4. ASSUME NEW k \in 0 .. Len(s), k \in T, k < Len(s) PROVE k + 1 \in T
  <2>1. k + 1 \in 1 .. Len(s) /\ (k + 1) - 1 = k /\ k + 1 \in 0 .. Len(s) /\ k + 1 \in DOMAIN s
    BY <1>1, <1>4
  <2>2. f[k + 1] = Append(f[k], s[k + 1])
    BY <1>2, <2>1 DEF Keeps
  <2>3. Start(s, k + 1) = Append(Start(s, k), s[k + 1])
    BY <1>4, StartMore
  <2> QED
    BY <1>4, <2>1, <2>2, <2>3
<1>5. \A k \in 0 .. Len(s) : k \in T
  <2> HIDE DEF T
  <2> QED
    BY <1>1, <1>3, <1>4, Upwards
<1>6. Len(s) \in 0 .. Len(s) /\ Start(s, Len(s)) = s
  BY <1>1, StartMore
<1> QED
  BY <1>2, <1>5, <1>6

\* The parts of a whole.
LEMMA CleanJoined ==
  ASSUME NEW a \in Seq(FillRow), NEW b \in Seq(FillRow), NEW c, c = a \o b, NEW last \in Nat, NEW n \in Nat, last < n,
         Clean(a, last), InOrder(b), Even(b), \A k \in DOMAIN b : b[k].seq = n
  PROVE  Clean(c, n)
<1>1. PICK m : m = Len(a)
  OBVIOUS
<1>2. /\ c \in Seq(FillRow) /\ m \in Nat
      /\ \A k \in DOMAIN a : k \in DOMAIN c /\ c[k] = a[k]
      /\ \A k \in DOMAIN b : m + k \in DOMAIN c /\ c[m + k] = b[k]
      /\ \A k \in DOMAIN c : k \in DOMAIN a \/ (k - m \in DOMAIN b /\ k = m + (k - m))
  BY <1>1, JoinedIs
<1>3. DOMAIN a = 1 .. m /\ DOMAIN b \subseteq Nat \ {0} /\ DOMAIN c \subseteq Nat
  BY <1>1, <1>2
<1>4. \A k \in DOMAIN a : a[k].seq <= last /\ a[k].seq \in Nat
  <2>1. \A k \in DOMAIN a : a[k] \in FillRow
    OBVIOUS
  <2> QED
    BY <2>1 DEF Clean, FillRow
<1>5. \A k \in DOMAIN a : a[k].seq < n
  BY <1>4
<1>6. InOrder(c)
  <2> SUFFICES ASSUME NEW j \in DOMAIN c, NEW k \in DOMAIN c, j < k PROVE Precedes(c[j], c[k])
    BY DEF InOrder
  <2>1. CASE j \in DOMAIN a /\ k \in DOMAIN a
    <3>1. Precedes(a[j], a[k])
      BY <2>1 DEF Clean, InOrder
    <3> QED
      BY <1>2, <2>1, <3>1
  <2>2. CASE j \in DOMAIN a /\ k \notin DOMAIN a
    <3>1. c[j].seq < n /\ c[k].seq = n
      BY <1>2, <1>5, <2>2
    <3> QED
      BY <3>1 DEF Precedes
  <2>3. CASE j \notin DOMAIN a
    <3>1. PICK x, y : x = j - m /\ y = k - m
      OBVIOUS
    <3>2. k \notin DOMAIN a
      BY <1>2, <1>3, <2>3
    <3>3. x \in DOMAIN b /\ y \in DOMAIN b /\ j = m + x /\ k = m + y
      BY <1>2, <2>3, <3>1, <3>2
    <3>4. x < y
      BY <1>2, <1>3, <3>3
    <3>5. Precedes(b[x], b[y])
      BY <3>3, <3>4 DEF InOrder
    <3> QED
      BY <1>2, <3>3, <3>5
  <2> QED
    BY <2>1, <2>2, <2>3
<1>7. Even(c)
  <2> SUFFICES ASSUME NEW x \in Currencies PROVE SumOf(Weighed(Signed(x), c)) = 0
    BY DEF Even
  <2>1. PICK w \in [FillRow -> Int] : w = Signed(x)
    BY SignedType
  <2>2. Weighed(w, c) = Weighed(w, a) \o Weighed(w, b)
    BY WeighedConcat
  <2>3. PICK s \in Seq(Int), t \in Seq(Int) : s = Weighed(w, a) /\ t = Weighed(w, b)
    BY WeighedType
  <2>4. SumOf(s \o t) = SumOf(s) + SumOf(t)
    BY SumConcat
  <2>5. SumOf(s) = 0 /\ SumOf(t) = 0
    BY <2>1, <2>3 DEF Clean, Even
  <2> QED
    BY <2>1, <2>2, <2>3, <2>4, <2>5
<1>8. \A k \in DOMAIN c : c[k].seq <= n
  <2> SUFFICES ASSUME NEW k \in DOMAIN c PROVE c[k].seq <= n
    OBVIOUS
  <2>1. CASE k \in DOMAIN a
    BY <1>2, <1>4, <1>5, <2>1
  <2>2. CASE k \notin DOMAIN a
    <3>1. c[k].seq = n
      BY <1>2, <2>2
    <3> QED
      BY <3>1
  <2> QED
    BY <2>1, <2>2
<1> QED
  BY <1>6, <1>7, <1>8 DEF Clean


\* FillMaker makes the two fills of a match, which are even, the one of a done log, or none.
Made(b, n) == b \in Seq(FillRow) /\ InOrder(b) /\ Even(b) /\ \A k \in DOMAIN b : b[k].seq = n

LEMMA MadeNone ==
  ASSUME NEW n
  PROVE  Made(<<>>, n)
<1>1. <<>> \in Seq(FillRow) /\ DOMAIN <<>> = {}
  OBVIOUS
<1>2. ASSUME NEW c \in Currencies PROVE SumOf(Weighed(Signed(c), <<>>)) = 0
  <2>1. Weighed(Signed(c), <<>>) = <<>>
    BY DEF Weighed
  <2> QED
    BY <2>1, SumOfEmpty
<1> QED
  BY <1>1, <1>2 DEF Made, InOrder, Even

LEMMA MadeDone ==
  ASSUME NEW n, NEW f \in FillRow, f.seq = n, f.done
  PROVE  Made(<<f>>, n)
<1>1. PICK b \in Seq(FillRow) : b = <<f>>
  <2>1. <<f>> \in Seq(FillRow)
    OBVIOUS
  <2> QED
    BY <2>1
<1>2. DOMAIN b = {1} /\ b[1] = f
  BY <1>1
<1>3. ASSUME NEW c \in Currencies PROVE SumOf(Weighed(Signed(c), b)) = 0
  <2>1. PICK w \in [FillRow -> Int] : w = Signed(c)
    BY SignedType
  <2>2. w[f] = 0
    BY <2>1 DEF Signed
  <2>3. SumOf(Weighed(w, <<f>>)) = w[f]
    BY WeighedOne
  <2> QED
    BY <1>1, <2>1, <2>2, <2>3
<1>4. InOrder(b)
  BY <1>2 DEF InOrder
<1> QED
  BY <1>1, <1>2, <1>3, <1>4 DEF Made, Even

LEMMA MadeMatch ==
  ASSUME NEW n, NEW f \in FillRow, NEW g \in FillRow, f.seq = n, g.seq = n, f.order # g.order, ~ f.done, ~ g.done,
         f.size = g.size, f.price = g.price, Order(f.order).side = "buy" <=> Order(g.order).side # "buy"
  PROVE  Made(<<f, g>>, n)
<1>1. PICK b \in Seq(FillRow) : b = <<f, g>>
  <2>1. <<f, g>> \in Seq(FillRow)
    OBVIOUS
  <2> QED
    BY <2>1
<1>2. DOMAIN b = {1, 2} /\ b[1] = f /\ b[2] = g
  BY <1>1
<1>3. ASSUME NEW c \in Currencies PROVE SumOf(Weighed(Signed(c), b)) = 0
  <2>1. PICK w \in [FillRow -> Int] : w = Signed(c)
    BY SignedType
  <2>2. PICK z \in Nat, v \in Nat : z = f.size /\ z = g.size /\ v = f.size * f.price /\ v = g.size * g.price
    BY SignedType
  <2>3. w[f] = Flow(c, Order(f.order).side, f) /\ w[g] = Flow(c, Order(g.order).side, g)
    BY <2>1 DEF Signed
  <2>4. \/ w[f] = z /\ w[g] = - z
        \/ w[f] = - z /\ w[g] = z
        \/ w[f] = v /\ w[g] = - v
        \/ w[f] = - v /\ w[g] = v
    BY <2>2, <2>3 DEF Flow
  <2>5. w[f] + w[g] = 0
    BY <2>4
  <2>6. SumOf(Weighed(w, <<f, g>>)) = w[f] + w[g]
    BY WeighedTwo
  <2> QED
    BY <1>1, <2>1, <2>5, <2>6
<1>4. InOrder(b)
  <2>1. Precedes(f, g)
    BY DEF Precedes
  <2>2. \A j, k \in {1, 2} : j < k => j = 1 /\ k = 2
    OBVIOUS
  <2> QED
    BY <1>2, <2>1, <2>2 DEF InOrder
<1> QED
  BY <1>1, <1>2, <1>3, <1>4 DEF Made, Even

LEMMA ReadMakes ==
  ASSUME PostInv, TaleInv, ReadLog
  PROVE  \/ UNCHANGED <<lastSeq, todo>>
         \/ \E n \in Nat : lastSeq' = n /\ lastSeq < n /\ Made(todo', n)
<1>1. /\ AccountInv /\ logTopic \in Seq(Log) /\ out \in Seq(Log) /\ lastSeq \in Nat /\ readPos \in Nat /\ StoryInv
      /\ Opposed(Story)
  BY PostFacts, Facts DEF TaleInv
<1>2. todo = <<>> /\ readPos < Len(logTopic)
  BY DEF ReadLog
<1>3. PICK n \in DOMAIN logTopic : n = readPos + 1
  BY <1>1, <1>2
<1>4. PICK log \in Log : log = logTopic[n]
  BY <1>1
<1>5. log.seq = n /\ (log.type = "match" => log.order # log.maker) /\ Facing(log)
  <2>1. n \in DOMAIN Story /\ Story[n] = logTopic[n]
    BY <1>1, Joined DEF Story
  <2> QED
    BY <1>1, <1>4, <2>1 DEF StoryInv, Numbered, Opposed
<1>6. n \in Nat /\ log.order \in OrderIds /\ log.type \in {"open", "match", "done"}
  <2>1. n \in Nat
    BY <1>1, <1>3
  <2>2. log \in Log
    BY <1>4
  <2> QED
    BY <2>1, <2>2 DEF Log
<1>7. CASE log.seq <= lastSeq
  BY <1>1, <1>3, <1>4, <1>5, <1>7 DEF ReadLog
<1>8. CASE log.seq > lastSeq
  <2>1. lastSeq' = n /\ lastSeq < n
    BY <1>1, <1>3, <1>4, <1>5, <1>6, <1>8 DEF ReadLog
  <2>2. \/ todo' = <<>>
        \/ log.type = "match" /\ todo' = <<NewFill(log, readPos, log.order), NewFill(log, readPos, log.maker)>>
        \/ log.type = "done" /\ todo' = <<NewFill(log, readPos, log.order)>>
    BY <1>1, <1>3, <1>4, <1>5, <1>6, <1>8 DEF ReadLog
  <2>3. CASE todo' = <<>>
    BY <1>6, <2>1, <2>3, MadeNone
  <2>4. CASE log.type = "match" /\ todo' = <<NewFill(log, readPos, log.order), NewFill(log, readPos, log.maker)>>
    <3>1. log.maker \in OrderIds
      BY <1>5, <2>4 DEF Facing
    <3>2. PICK f \in FillRow, g \in FillRow : f = NewFill(log, readPos, log.order) /\ g = NewFill(log, readPos, log.maker)
      BY <1>1, <1>6, <3>1, FillType
    <3>3. /\ f.order = log.order /\ f.seq = n /\ f.size = log.size /\ f.price = log.price /\ ~ f.done
          /\ g.order = log.maker /\ g.seq = n /\ g.size = log.size /\ g.price = log.price /\ ~ g.done
      BY <1>5, <2>4, <3>2 DEF NewFill
    <3>4. f.order # g.order /\ (Order(f.order).side = "buy" <=> Order(g.order).side # "buy")
      BY <1>5, <2>4, <3>3 DEF Facing
    <3>5. Made(<<f, g>>, n)
      BY <3>3, <3>4, MadeMatch
    <3> QED
      BY <1>6, <2>1, <2>4, <3>2, <3>5
  <2>5. CASE log.type = "done" /\ todo' = <<NewFill(log, readPos, log.order)>>
    <3>1. PICK f \in FillRow : f = NewFill(log, readPos, log.order)
      BY <1>1, <1>6, FillType
    <3>2. f.seq = n /\ f.done
      BY <1>5, <2>5, <3>1 DEF NewFill
    <3>3. Made(<<f>>, n)
      BY <3>2, MadeDone
    <3> QED
      BY <1>6, <2>1, <2>5, <3>1, <3>3
  <2> QED
    BY <2>2, <2>3, <2>4, <2>5
<1>9. log.seq \in Nat
  BY <1>5, <1>6
<1> QED
  BY <1>1, <1>7, <1>8, <1>9

\* The flusher's buffer goes into the table as it is.
LEMMA FlushAll ==
  ASSUME PostInv, InOrder(All), FlushFill
  PROVE  All' = All
<1>1. /\ fills \in Seq(FillRow) /\ fillBuf \in Seq(FillRow) /\ fillCh \in Seq(FillRow)
      /\ todo \in Seq(FillRow) /\ Line \in Seq(FillRow)
  BY PostFacts
<1>2. fillCh # <<>> /\ fillCh' = Tail(fillCh) /\ UNCHANGED todo
  BY DEF FlushFill
<1>3. PICK buf \in Seq(FillRow), t \in Seq(FillRow) :
        buf = Append(fillBuf, Head(fillCh)) /\ t = Tail(fillCh) /\ buf \o t = fillBuf \o fillCh
  BY <1>1, <1>2, JoinMoves
<1>4. PICK rest \in Seq(FillRow) : rest = t \o todo /\ Line = buf \o rest
  <2>1. t \o todo \in Seq(FillRow)
    BY <1>1
  <2>2. (buf \o t) \o todo = buf \o (t \o todo)
    <3>1. todo \in Seq(FillRow)
      BY <1>1
    <3> QED
      BY <3>1, JoinThree
  <2> QED
    BY <1>3, <2>1, <2>2 DEF Line
<1>5. CASE fillBuf' = buf /\ fills' = fills
  <2>1. Line' = Line
    BY <1>2, <1>3, <1>4, <1>5 DEF Line
  <2> QED
    BY <1>5, <2>1 DEF All
<1>6. PICK P : P = {k \in DOMAIN buf : ~ Recorded(buf[k])}
  OBVIOUS
<1>7. CASE fillBuf' = <<>> /\ fills' = fills \o Kept(buf, P)
  <2>1. Line' = rest
    <3>1. <<>> \o t = t
      OBVIOUS
    <3> QED
      BY <1>2, <1>3, <1>4, <1>7, <3>1 DEF Line
  <2>2. ASSUME NEW k \in DOMAIN buf PROVE ~ Recorded(buf[k])
    <3>1. k \in DOMAIN Line /\ Line[k] = buf[k]
      BY <1>4, Joined
    <3>2. PICK all, m : all = All /\ m = Len(fills)
      OBVIOUS
    <3>3. /\ \A j \in DOMAIN fills : j \in DOMAIN all /\ all[j] = fills[j]
          /\ \A j \in DOMAIN Line : m + j \in DOMAIN all /\ all[m + j] = Line[j]
          /\ m \in Nat
      <4>1. fills \in Seq(FillRow) /\ Line \in Seq(FillRow)
        BY <1>1
      <4> QED
        BY <3>2, <4>1, JoinedIs DEF All
    <3>4. DOMAIN fills = 1 .. m /\ k \in Nat \ {0}
      BY <1>1, <3>2
    <3>5. ASSUME NEW j \in DOMAIN fills PROVE fills[j].order # buf[k].order \/ fills[j].seq # buf[k].seq
      <4>1. j < m + k
        BY <3>3, <3>4
      <4>2. Precedes(all[j], all[m + k])
        BY <3>1, <3>2, <3>3, <4>1 DEF InOrder
      <4>3. Precedes(fills[j], buf[k])
        BY <3>1, <3>3, <4>2
      <4>4. fills[j].seq \in Nat /\ buf[k].seq \in Nat
        <5>1. fills[j] \in FillRow /\ buf[k] \in FillRow
          BY <1>1
        <5> QED
          BY <5>1 DEF FillRow
      <4> QED
        BY <4>3, <4>4 DEF Precedes
    <3> QED
      BY <3>5 DEF Recorded
  <2>3. P = DOMAIN buf
    BY <1>6, <2>2
  <2>4. Kept(buf, P) = buf
    BY <2>3, KeptAll
  <2>5. (fills \o buf) \o rest = fills \o (buf \o rest)
    <3>1. fills \in Seq(FillRow)
      BY <1>1
    <3> QED
      BY <3>1, JoinThree
  <2> QED
    BY <1>4, <1>7, <2>1, <2>4, <2>5 DEF All
<1> QED
  BY <1>3, <1>5, <1>6, <1>7 DEF FlushFill, AddFills

Like(f, g) == f.order = g.order /\ f.seq = g.seq /\ f.size = g.size /\ f.price = g.price /\ f.done = g.done

LEMMA CleanLike ==
  ASSUME NEW a \in Seq(FillRow), NEW b \in Seq(FillRow), DOMAIN a = DOMAIN b,
         \A k \in DOMAIN a : Like(b[k], a[k]), NEW last, Clean(a, last)
  PROVE  Clean(b, last)
<1>1. InOrder(b) /\ \A k \in DOMAIN b : b[k].seq <= last
  BY DEF Clean, InOrder, Precedes, Like
<1>2. ASSUME NEW c \in Currencies PROVE SumOf(Weighed(Signed(c), b)) = 0
  <2>1. ASSUME NEW k \in DOMAIN a PROVE Signed(c)[b[k]] = Signed(c)[a[k]]
    <3>1. a[k] \in FillRow /\ b[k] \in FillRow /\ Like(b[k], a[k])
      OBVIOUS
    <3>2. PICK f \in FillRow, g \in FillRow : f = a[k] /\ g = b[k]
      BY <3>1
    <3>3. g.order = f.order /\ g.size = f.size /\ g.price = f.price /\ g.done = f.done
      BY <3>1, <3>2 DEF Like
    <3>4. \A side : Flow(c, side, g) = Flow(c, side, f)
      BY <3>3 DEF Flow
    <3>5. Signed(c)[g] = Signed(c)[f]
      BY <3>3, <3>4 DEF Signed
    <3> QED
      BY <3>2, <3>5
  <2>2. Weighed(Signed(c), b) = Weighed(Signed(c), a)
    BY <2>1 DEF Weighed
  <2> QED
    BY <2>2 DEF Clean, Even
<1> QED
  BY <1>1, <1>2 DEF Clean, Even

\* ExecuteFill marks fills.
LEMMA CleanFill ==
  ASSUME PostInv, PostInv', Clean(All, lastSeq), NEW i \in OrderIds, ExecuteFill(i)
  PROVE  Clean(All', lastSeq)
<1>1. /\ fills \in Seq(FillRow) /\ Line \in Seq(FillRow) /\ fills' \in Seq(FillRow)
      /\ \A k \in DOMAIN fills : fills[k] \in FillRow
  BY PostFacts DEF PostInv, AccountInv, BaseInv, PipeInv
<1>2. PICK p : fills' = [k \in DOMAIN fills |-> IF k \in p THEN [fills[k] EXCEPT !.settled = TRUE] ELSE fills[k]]
  BY DEF ExecuteFill
<1>3. Line' = Line
  BY DEF ExecuteFill, makerVars, Line
<1>4. DOMAIN fills' = DOMAIN fills
  BY <1>2
<1>5. ASSUME NEW k \in DOMAIN fills PROVE Like(fills'[k], fills[k])
  <2>1. fills[k] \in FillRow
    BY <1>1
  <2>2. CASE k \in p
    <3>1. fills'[k] = [fills[k] EXCEPT !.settled = TRUE]
      BY <1>2, <2>2
    <3> QED
      BY <2>1, <3>1 DEF FillRow, Like
  <2>3. CASE k \notin p
    <3>1. fills'[k] = fills[k]
      BY <1>2, <2>3
    <3> QED
      BY <3>1 DEF Like
  <2> QED
    BY <2>2, <2>3
<1>6. PICK a, b, f, g, l : a = All /\ b = All' /\ f = fills /\ g = fills' /\ l = Line
  OBVIOUS
<1>7. /\ f \in Seq(FillRow) /\ g \in Seq(FillRow) /\ l \in Seq(FillRow) /\ a = f \o l /\ b = g \o l
      /\ DOMAIN f = DOMAIN g /\ \A k \in DOMAIN f : Like(g[k], f[k])
  BY <1>1, <1>3, <1>4, <1>5, <1>6 DEF All
<1>8. PICK m \in Nat : m = Len(f) /\ m = Len(g)
  <2>1. /\ Len(f) \in Nat /\ DOMAIN f = 1 .. Len(f)
        /\ Len(g) \in Nat /\ DOMAIN g = 1 .. Len(g)
    BY <1>7
  <2>2. PICK x \in Nat, y \in Nat : x = Len(f) /\ y = Len(g)
    BY <2>1
  <2>3. 1 .. x = 1 .. y
    BY <1>7, <2>1, <2>2
  <2>4. x = y
    BY <2>3
  <2> QED
    BY <2>2, <2>4
<1>9. /\ a \in Seq(FillRow)
      /\ \A k \in DOMAIN f : a[k] = f[k]
      /\ \A k \in DOMAIN l : a[m + k] = l[k]
      /\ \A k \in DOMAIN a : k \in DOMAIN f \/ (k - m \in DOMAIN l /\ k = m + (k - m))
  BY <1>7, <1>8, JoinedIs
<1>10. /\ b \in Seq(FillRow)
       /\ \A k \in DOMAIN g : b[k] = g[k]
       /\ \A k \in DOMAIN l : b[m + k] = l[k]
  BY <1>7, <1>8, JoinedIs
<1>11. DOMAIN a = DOMAIN b
  <2>1. /\ Len(f) \in Nat /\ Len(g) \in Nat /\ Len(l) \in Nat
        /\ DOMAIN a = 1 .. Len(a) /\ DOMAIN b = 1 .. Len(b)
    BY <1>7, <1>9, <1>10
  <2>2. Len(f \o l) = Len(f) + Len(l)
    BY <1>7
  <2>3. Len(g \o l) = Len(g) + Len(l)
    BY <1>7
  <2>4. Len(a) = Len(b)
    BY <1>7, <1>8, <2>2, <2>3
  <2> QED
    BY <2>1, <2>4
<1>12. ASSUME NEW k \in DOMAIN a PROVE Like(b[k], a[k])
  <2>1. CASE k \in DOMAIN f
    BY <1>7, <1>9, <1>10, <2>1
  <2>2. CASE k \notin DOMAIN f
    <3>1. PICK j \in DOMAIN l : k = m + j
      BY <1>9, <2>2
    <3>2. b[k] = l[j] /\ a[k] = l[j]
      BY <1>9, <1>10, <3>1
    <3> QED
      BY <3>2 DEF Like
  <2> QED
    BY <2>1, <2>2
<1> QED
  BY <1>6, <1>9, <1>10, <1>11, <1>12, CleanLike

LEMMA CleanStep ==
  ASSUME PostInv, PostInv', TaleInv, CleanInv, [Next]_vars
  PROVE  CleanInv'
<1>1. crashes \in Nat
  BY DEF CleanInv
<1>2. UNCHANGED plan
  BY DEF Next, vars, CheckBalance, PlaceOrder, SubmitOrder, RequestCancel, Engine, EngineMatch, EngineLogs,
     ReadLog, SendFill, FlushFill, Settle, ExecuteFill, ExecuteBill, Crash
<1>3. \A s, last : Clean(s, last)' <=> Clean(s', last')
  BY <1>2 DEF Clean, Even, InOrder, Precedes, Signed, Order, Weighed, SumOf, Flow
<1>4. CASE UNCHANGED crashes
  <2> SUFFICES ASSUME crashes = 0 PROVE Clean(All', lastSeq')
    BY <1>1, <1>3, <1>4 DEF CleanInv
  <2>1. Clean(All, lastSeq) /\ InOrder(All)
    BY DEF CleanInv, Clean
  <2>2. ASSUME UNCHANGED <<fills, makerVars>> PROVE Clean(All', lastSeq')
    <3>1. All' = All /\ lastSeq' = lastSeq
      BY <2>2 DEF All, Line, makerVars
    <3> QED
      BY <2>1, <3>1
  <2>3. ASSUME NEW i \in OrderIds, CheckBalance(i) \/ PlaceOrder(i) \/ SubmitOrder(i) \/ RequestCancel(i)
        PROVE  Clean(All', lastSeq')
    BY <2>2, <2>3 DEF CheckBalance, PlaceOrder, SubmitOrder, RequestCancel, dbVars
  <2>4. ASSUME NEW m \in topic, Engine(m) PROVE Clean(All', lastSeq')
    BY <2>2, <2>4 DEF Engine, dbVars
  <2>5. CASE EngineMatch \/ EngineLogs \/ UNCHANGED vars
    BY <2>2, <2>5 DEF EngineMatch, EngineLogs, vars, dbVars
  <2>6. CASE ReadLog
    <3>1. UNCHANGED <<fills, fillCh, fillBuf>> /\ todo = <<>>
      BY <2>6 DEF ReadLog
    <3>2. CASE UNCHANGED <<lastSeq, todo>>
      <4>1. UNCHANGED <<fills, Line, lastSeq>>
        BY <3>1, <3>2 DEF Line
      <4> QED
        BY <2>1, <4>1 DEF All
    <3>3. ASSUME NEW n \in Nat, lastSeq' = n, lastSeq < n, Made(todo', n) PROVE Clean(All', lastSeq')
      <4>1. /\ fills \in Seq(FillRow) /\ fillBuf \in Seq(FillRow) /\ fillCh \in Seq(FillRow)
            /\ Line \in Seq(FillRow) /\ lastSeq \in Nat
        BY PostFacts
      <4>2. PICK a \in Seq(FillRow) : a = fillBuf \o fillCh /\ Line = a /\ Line' = a \o todo'
        <5>1. fillBuf \o fillCh \in Seq(FillRow)
          BY <4>1
        <5>2. (fillBuf \o fillCh) \o <<>> = fillBuf \o fillCh
          BY <5>1
        <5> QED
          BY <3>1, <5>1, <5>2 DEF Line
      <4>3. PICK b \in Seq(FillRow) : b = todo'
        BY <3>3 DEF Made
      <4>4. PICK f \in Seq(FillRow), all \in Seq(FillRow) : f = fills /\ all = f \o a /\ all = All
        <5>1. fills \o a \in Seq(FillRow)
          BY <4>1
        <5> QED
          BY <4>1, <4>2, <5>1 DEF All
      <4>5. All' = f \o (a \o b)
        BY <3>1, <4>2, <4>3, <4>4 DEF All
      <4>6. (f \o a) \o b = f \o (a \o b)
        BY JoinThree
      <4>7. Clean(all, lastSeq) /\ InOrder(b) /\ Even(b) /\ \A k \in DOMAIN b : b[k].seq = n
        BY <2>1, <3>3, <4>3, <4>4 DEF Made
      <4>8. Clean(all \o b, n)
        BY <3>3, <4>1, <4>7, CleanJoined
      <4> QED
        BY <3>3, <4>4, <4>5, <4>6, <4>8
    <3> QED
      BY <2>6, <3>2, <3>3, ReadMakes
  <2>7. CASE SendFill
    <3>1. Line' = Line /\ UNCHANGED <<fills, lastSeq>>
      BY <2>7, SendLine DEF SendFill, dbVars
    <3> QED
      BY <2>1, <3>1 DEF All
  <2>8. CASE FlushFill
    <3>1. All' = All /\ UNCHANGED lastSeq
      BY <2>1, <2>8, FlushAll DEF FlushFill
    <3> QED
      BY <2>1, <3>1
  <2>9. ASSUME NEW i \in OrderIds, ExecuteFill(i) PROVE Clean(All', lastSeq')
    <3>1. UNCHANGED lastSeq
      BY <2>9 DEF ExecuteFill, makerVars
    <3>2. Clean(All', lastSeq)
      BY <2>1, <2>9, CleanFill
    <3> QED
      BY <3>1, <3>2
  <2>10. ASSUME NEW u \in Users, NEW c \in Currencies, ExecuteBill(u, c) PROVE Clean(All', lastSeq')
    BY <2>2, <2>10 DEF ExecuteBill
  <2>11. CASE Crash
    <3>1. crashes' = crashes + 1
      BY <2>11 DEF Crash
    <3> QED
      BY <1>1, <1>4, <3>1
  <2> QED
    BY <2>3, <2>4, <2>5, <2>6, <2>7, <2>8, <2>9, <2>10, <2>11 DEF Next, Settle
<1>5. CASE Crash
  <2>1. crashes' = crashes + 1
    BY <1>5 DEF Crash
  <2>2. crashes' \in Nat /\ crashes' # 0
    BY <1>1, <2>1
  <2> QED
    BY <2>2 DEF CleanInv
<1>6. Crash \/ UNCHANGED crashes
  BY DEF Next, vars, CheckBalance, PlaceOrder, SubmitOrder, RequestCancel, Engine, EngineMatch, EngineLogs,
     ReadLog, SendFill, FlushFill, Settle, ExecuteFill, ExecuteBill
<1> QED
  BY <1>4, <1>5, <1>6

LEMMA CleanInit ==
  ASSUME Init
  PROVE  CleanInv
<1>1. fills = <<>> /\ todo = <<>> /\ fillCh = <<>> /\ fillBuf = <<>> /\ crashes = 0
  BY DEF Init
<1>2. All = <<>>
  <2>1. <<>> \o ((<<>> \o <<>>) \o <<>>) = <<>>
    OBVIOUS
  <2> QED
    BY <1>1, <2>1 DEF All, Line
<1>3. Made(All, 0) /\ DOMAIN All = {}
  BY <1>2, MadeNone
<1> QED
  BY <1>1, <1>3 DEF CleanInv, Clean, Made


-----------------------------------------------------------------------------
(* Money: what the users own is what they deposited and what the settled fills moved. *)

NetField == [b \in Credit |-> b.available + b.hold]

\* What unsettled bills add to the worth of an account.
Net(s) == SumOf(Weighed(NetField, s))

Purse(u, c) == accounts[u][c].available + accounts[u][c].hold + Net(bills[u][c])

Purses(c) == [u \in Users |-> Purse(u, c)]

Deposited(c) == SumFunctionOnSet([u \in Users |-> Deposits[u][c]], Users)

SettledFills == {k \in DOMAIN fills : fills[k].settled}

\* What the settled fills have brought and taken.
Paid(c) == SumFunctionOnSet(Weighed(Signed(c), fills), SettledFills)

PaidAt(c) == SumFunctionOnSet(Purses(c), Users) = Deposited(c) + Paid(c)

PaidInv == \A c \in Currencies : PaidAt(c)

LEMMA NetFieldType == NetField \in [Credit -> Int]
<1>1. \A b \in Credit : b.available \in Int /\ b.hold \in Int
  BY DEF Credit
<1>2. \A b \in Credit : b.available + b.hold \in Int
  BY <1>1
<1> QED
  BY <1>2 DEF NetField

LEMMA NetType ==
  ASSUME NEW s \in Seq(Credit)
  PROVE  Net(s) \in Int
<1>1. Weighed(NetField, s) \in Seq(Int)
  BY NetFieldType, WeighedType
<1> QED
  BY <1>1, SumIsAmount DEF Net

LEMMA NetNone == Net(<<>>) = 0
<1>1. Weighed(NetField, <<>>) = <<>>
  BY DEF Weighed
<1> QED
  BY <1>1, SumOfEmpty DEF Net

LEMMA NetConcat ==
  ASSUME NEW s \in Seq(Credit), NEW t \in Seq(Credit)
  PROVE  Net(s \o t) = Net(s) + Net(t) /\ s \o t \in Seq(Credit)
<1>1. PICK a \in Seq(Int), b \in Seq(Int) : a = Weighed(NetField, s) /\ b = Weighed(NetField, t)
  BY NetFieldType, WeighedType
<1>2. Weighed(NetField, s \o t) = a \o b
  BY <1>1, NetFieldType, WeighedConcat
<1>3. SumOf(a \o b) = SumOf(a) + SumOf(b)
  BY SumConcat
<1> QED
  BY <1>1, <1>2, <1>3 DEF Net

\* The sums ExecuteBill takes of the two fields.
LEMMA NetParts ==
  ASSUME NEW s \in Seq(Credit), NEW al, al = SumOf([k \in DOMAIN s |-> s[k].available]),
         NEW hs, hs = SumOf([k \in DOMAIN s |-> s[k].hold])
  PROVE  al \in Int /\ hs \in Int /\ al + hs = Net(s)
<1>1. PICK n \in Nat : DOMAIN s = 1 .. n /\ \A k \in 1 .. n : s[k] \in Credit
  OBVIOUS
<1>2. \A k \in 1 .. n : s[k].available \in Int /\ s[k].hold \in Int
  BY <1>1 DEF Credit
<1>3. PICK as, ws : as = [k \in 1 .. n |-> s[k].available] /\ ws = [k \in 1 .. n |-> s[k].hold]
  OBVIOUS
<1>4. as \in Seq(Int) /\ ws \in Seq(Int) /\ DOMAIN as = 1 .. n /\ DOMAIN ws = 1 .. n
  <2>1. as \in [1 .. n -> Int] /\ ws \in [1 .. n -> Int]
    BY <1>2, <1>3
  <2> QED
    BY <2>1, ListIsSeq
<1>5. PICK ns \in Seq(Int) : ns = Weighed(NetField, s)
  BY NetFieldType, WeighedType
<1>6. DOMAIN ns = 1 .. n /\ \A k \in 1 .. n : ns[k] = NetField[s[k]]
  BY <1>1, <1>5 DEF Weighed
<1>7. \A k \in 1 .. n : NetField[s[k]] = s[k].available + s[k].hold
  BY <1>1 DEF NetField
<1>8. \A k \in 1 .. n : as[k] \in Int /\ ws[k] \in Int /\ ns[k] = as[k] + ws[k]
  BY <1>2, <1>3, <1>6, <1>7
<1>9. PICK D : D = 1 .. n
  OBVIOUS
<1>10. SumOf(as) = SumFunctionOnSet(as, D) /\ SumOf(ws) = SumFunctionOnSet(ws, D)
       /\ SumOf(ns) = SumFunctionOnSet(ns, D) /\ IsFiniteSet(D)
  <2>1. D \in SUBSET DOMAIN as /\ D \in SUBSET DOMAIN ws /\ D \in SUBSET DOMAIN ns
    BY <1>4, <1>6, <1>9
  <2>2. SumOf(as) = SumFunctionOnSet(as, D) /\ IsFiniteSet(D)
    BY <1>4, <1>9, <2>1, SumOfMarked
  <2>3. SumOf(ws) = SumFunctionOnSet(ws, D)
    BY <1>4, <1>9, <2>1, SumOfMarked
  <2>4. SumOf(ns) = SumFunctionOnSet(ns, D)
    BY <1>6, <1>9, <2>1, SumOfMarked
  <2> QED
    BY <2>2, <2>3, <2>4
<1>11. SumFunctionOnSet(ns, D) = SumFunctionOnSet(as, D) + SumFunctionOnSet(ws, D)
  BY <1>8, <1>9, <1>10, SumAdds
<1>12. al = SumOf(as) /\ hs = SumOf(ws)
  BY <1>1, <1>3
<1>13. SumOf(as) \in Int /\ SumOf(ws) \in Int
  BY <1>4, SumIsAmount
<1> QED
  BY <1>5, <1>10, <1>11, <1>12, <1>13 DEF Net

LEMMA PaidFacts ==
  ASSUME RowInv, NEW c \in Currencies
  PROVE  /\ fills \in Seq(FillRow) /\ \A k \in DOMAIN fills : fills[k] \in FillRow
         /\ IsFiniteSet(DOMAIN fills) /\ SettledFills \subseteq DOMAIN fills /\ IsFiniteSet(SettledFills)
         /\ \A k \in DOMAIN fills : /\ Weighed(Signed(c), fills)[k] = Signed(c)[fills[k]]
                                    /\ Weighed(Signed(c), fills)[k] \in Int
         /\ Paid(c) \in Int
<1>1. PostInv
  BY DEF RowInv
<1>2. fills \in Seq(FillRow) /\ \A k \in DOMAIN fills : fills[k] \in FillRow
  BY <1>1, PostFacts
<1>3. IsFiniteSet(DOMAIN fills) /\ SettledFills \subseteq DOMAIN fills
  BY <1>1, FillNumbers DEF SettledFills
<1>4. IsFiniteSet(SettledFills)
  BY <1>3, FS_Subset
<1>5. PICK w \in [FillRow -> Int] : w = Signed(c)
  BY SignedType
<1>6. PICK v : v = Weighed(w, fills)
  OBVIOUS
<1>7. \A k \in DOMAIN fills : v[k] = w[fills[k]] /\ v[k] \in Int
  BY <1>2, <1>6 DEF Weighed
<1>8. SumFunctionOnSet(v, SettledFills) \in Int
  BY <1>3, <1>4, <1>7, SumType
<1> QED
  BY <1>2, <1>3, <1>4, <1>5, <1>6, <1>7, <1>8 DEF Paid

LEMMA PurseType ==
  ASSUME RowInv, NEW u \in Users, NEW c \in Currencies
  PROVE  /\ accounts[u][c].available \in Int /\ accounts[u][c].hold \in Int /\ Net(bills[u][c]) \in Int
         /\ Purse(u, c) \in Int
<1>1. accounts[u][c] \in [available : Int, hold : Int] /\ bills[u][c] \in Seq(Credit)
  BY HoldFacts
<1>2. accounts[u][c].available \in Int /\ accounts[u][c].hold \in Int
  BY <1>1
<1>3. Net(bills[u][c]) \in Int
  BY <1>1, NetType
<1> QED
  BY <1>2, <1>3 DEF Purse

LEMMA DepositedType ==
  ASSUME IsFiniteSet(Users), NEW c \in Currencies
  PROVE  Deposited(c) \in Int
<1>1. PICK g : g = [u \in Users |-> Deposits[u][c]]
  OBVIOUS
<1>2. \A u \in Users : g[u] \in Int
  BY <1>1, SettlementAssumption
<1> QED
  BY <1>1, <1>2, SumType DEF Deposited

\* One purse grows by what is paid, and the others stay.
LEMMA PaidMoves ==
  ASSUME IsFiniteSet(Users), RowInv, RowInv', NEW c \in Currencies, PaidAt(c),
         NEW y \in Users, NEW d \in Int, Purse(y, c)' = Purse(y, c) + d,
         \A u \in Users : u # y => Purse(u, c)' = Purse(u, c), Paid(c)' = Paid(c) + d
  PROVE  PaidAt(c)'
<1>1. PICK f, e : f = Purses(c) /\ e = Purses(c)'
  OBVIOUS
<1>2. \A u \in Users : f[u] = Purse(u, c) /\ f[u] \in Int
  BY <1>1, PurseType DEF Purses
<1>3. e = [u \in Users |-> Purse(u, c)']
  BY <1>1 DEF Purses
<1>4. \A u \in Users : e[u] = Purse(u, c)'
  BY <1>3
<1>5. e[y] = f[y] + d /\ e[y] \in Int
  <2>1. e[y] = f[y] + d /\ f[y] \in Int
    BY <1>2, <1>4
  <2> QED
    BY <2>1
<1>6. \A u \in Users : u # y => e[u] = f[u]
  BY <1>2, <1>4
<1>7. \A u \in Users : e[u] \in Int
  BY <1>2, <1>5, <1>6
<1>8. Shifted(Users, f, e, y, d)
  BY <1>2, <1>5, <1>6, <1>7 DEF Shifted
<1>9. SumFunctionOnSet(e, Users) = SumFunctionOnSet(f, Users) + d
  BY <1>8, SumShift
<1>10. SumFunctionOnSet(Purses(c), Users)' = SumFunctionOnSet(e, Users)
  BY <1>1 DEF SumFunctionOnSet, FoldFunctionOnSet, MapThenFoldSet
<1>11. Deposited(c)' = Deposited(c)
  BY DEF Deposited, SumFunctionOnSet, FoldFunctionOnSet, MapThenFoldSet
<1>12. PICK p \in Int, m \in Int : p = Paid(c) /\ m = Deposited(c)
  <2>1. Deposited(c) \in Int
    BY DepositedType
  <2> QED
    BY <2>1, PaidFacts
<1>13. SumFunctionOnSet(f, Users) = m + p
  BY <1>1, <1>12 DEF PaidAt
<1>14. (m + p) + d = m + (p + d)
  OBVIOUS
<1>15. SumFunctionOnSet(Purses(c), Users)' = Deposited(c)' + Paid(c)'
  BY <1>9, <1>10, <1>11, <1>12, <1>13, <1>14
<1> QED
  BY <1>15 DEF PaidAt

\* No purse changes, and nothing is paid.
LEMMA PaidQuiet ==
  ASSUME NEW c \in Currencies, PaidAt(c),
         \A u \in Users : Purse(u, c)' = Purse(u, c), Paid(c)' = Paid(c)
  PROVE  PaidAt(c)'
<1>1. Purses(c)' = Purses(c)
  <2>1. Purses(c)' = [u \in Users |-> Purse(u, c)']
    BY DEF Purses
  <2> QED
    BY <2>1 DEF Purses
<1>2. SumFunctionOnSet(Purses(c), Users)' = SumFunctionOnSet(Purses(c), Users)
  BY <1>1 DEF SumFunctionOnSet, FoldFunctionOnSet, MapThenFoldSet
<1>3. Deposited(c)' = Deposited(c)
  BY DEF Deposited, SumFunctionOnSet, FoldFunctionOnSet, MapThenFoldSet
<1> QED
  BY <1>2, <1>3 DEF PaidAt

LEMMA PurseSame ==
  ASSUME UNCHANGED <<accounts, bills>>, NEW u, NEW c
  PROVE  Purse(u, c)' = Purse(u, c)
  BY DEF Purse, Net, Weighed, SumOf, NetField

LEMMA PaidSame ==
  ASSUME UNCHANGED <<plan, fills>>, NEW c
  PROVE  Paid(c)' = Paid(c)
<1>1. Weighed(Signed(c), fills)' = Weighed(Signed(c), fills)
  BY DEF Weighed, Signed, Flow, Order
<1>2. SettledFills' = SettledFills
  BY DEF SettledFills
<1> QED
  BY <1>1, <1>2 DEF Paid, SumFunctionOnSet, FoldFunctionOnSet, MapThenFoldSet

\* PlaceOrder moves money within an account.
LEMMA PaidPlace ==
  ASSUME RowInv, NEW i \in OrderIds, PlaceOrder(i), NEW c \in Currencies, PaidAt(c)
  PROVE  PaidAt(c)'
<1>1. PICK h : h = HoldSize(Order(i))
  OBVIOUS
<1>2. /\ UNCHANGED <<plan, bills, fills>>
      /\ accounts' = [accounts EXCEPT ![User(i)][HoldCurrency(Order(i))] =
                        [available |-> @.available - h, hold |-> @.hold + h]]
  BY <1>1 DEF PlaceOrder
<1>3. ASSUME NEW u \in Users PROVE Purse(u, c)' = Purse(u, c)
  <2>1. /\ accounts \in [Users -> [Currencies -> [available : Int, hold : Int]]] /\ plan \in Plans
        /\ accounts[u][c].available \in Int /\ accounts[u][c].hold \in Int /\ Net(bills[u][c]) \in Int
    BY HoldFacts, PurseType
  <2>2. h \in Int /\ User(i) \in Users /\ HoldCurrency(Order(i)) \in Currencies
    BY <1>1, <2>1, PlanType, OrdersType
  <2>3. PICK av \in Int, hd \in Int, n \in Int :
          av = accounts[u][c].available /\ hd = accounts[u][c].hold /\ n = Net(bills[u][c])
    BY <2>1
  <2>4. Purse(u, c)' = accounts'[u][c].available + accounts'[u][c].hold + n
    <3>1. PICK s : s = bills'[u][c]
      OBVIOUS
    <3>2. Purse(u, c)' = accounts'[u][c].available + accounts'[u][c].hold + Net(s)
      BY <3>1 DEF Purse, Net, Weighed, SumOf, NetField
    <3> QED
      BY <1>2, <2>3, <3>1, <3>2
  <2>5. CASE u = User(i) /\ c = HoldCurrency(Order(i))
    <3>1. accounts'[u][c] = [available |-> av - h, hold |-> hd + h]
      BY <1>2, <2>1, <2>3, <2>5
    <3>2. accounts'[u][c].available = av - h /\ accounts'[u][c].hold = hd + h
      BY <3>1
    <3>3. (av - h) + (hd + h) + n = av + hd + n
      BY <2>2
    <3> QED
      BY <2>3, <2>4, <3>2, <3>3 DEF Purse
  <2>6. CASE ~ (u = User(i) /\ c = HoldCurrency(Order(i)))
    <3>1. accounts'[u][c] = accounts[u][c]
      BY <1>2, <2>1, <2>2, <2>6
    <3> QED
      BY <2>3, <2>4, <3>1 DEF Purse
  <2> QED
    BY <2>5, <2>6
<1> QED
  BY <1>2, <1>3, PaidQuiet, PaidSame

\* ExecuteBill moves what bills hold into the account.
LEMMA PaidBill ==
  ASSUME RowInv, NEW v \in Users, NEW b \in Currencies, ExecuteBill(v, b), NEW c \in Currencies, PaidAt(c)
  PROVE  PaidAt(c)'
<1>1. PICK first, rest, al, hs : Paying(v, b, first, rest, al, hs)
  BY PayingIs
<1>2. UNCHANGED <<plan, fills>>
  BY PayingIs
<1>3. /\ first \in Seq(Credit) /\ rest \in Seq(Credit) /\ bills[v][b] = first \o rest
      /\ al = SumOf([k \in DOMAIN first |-> first[k].available])
      /\ hs = SumOf([k \in DOMAIN first |-> first[k].hold])
      /\ accounts' = [accounts EXCEPT ![v][b] = [available |-> accounts[v][b].available + al,
                                                 hold |-> accounts[v][b].hold + hs]]
      /\ bills' = [bills EXCEPT ![v][b] = rest]
  BY <1>1 DEF Paying
<1>4. al \in Int /\ hs \in Int /\ al + hs = Net(first)
  BY <1>3, NetParts
<1>5. Net(bills[v][b]) = Net(first) + Net(rest) /\ Net(rest) \in Int
  BY <1>3, NetConcat, NetType
<1>6. ASSUME NEW u \in Users PROVE Purse(u, c)' = Purse(u, c)
  <2>1. /\ accounts \in [Users -> [Currencies -> [available : Int, hold : Int]]]
        /\ bills \in [Users -> [Currencies -> Seq(Credit)]]
    BY HoldFacts
  <2>2. PICK av \in Int, hd \in Int : av = accounts[u][c].available /\ hd = accounts[u][c].hold
    BY PurseType
  <2>3. PICK s : s = bills'[u][c]
    OBVIOUS
  <2>4. Purse(u, c)' = accounts'[u][c].available + accounts'[u][c].hold + Net(s)
    BY <2>3 DEF Purse, Net, Weighed, SumOf, NetField
  <2>5. CASE u = v /\ c = b
    <3>1. accounts'[u][c] = [available |-> av + al, hold |-> hd + hs] /\ s = rest
      BY <1>3, <2>1, <2>2, <2>3, <2>5
    <3>2. accounts'[u][c].available = av + al /\ accounts'[u][c].hold = hd + hs
      BY <3>1
    <3>3. PICK r \in Int : r = Net(rest)
      BY <1>5
    <3>4. Net(bills[u][c]) = (al + hs) + r
      BY <1>4, <1>5, <2>5, <3>3
    <3>5. (av + al) + (hd + hs) + r = av + hd + ((al + hs) + r)
      BY <1>4
    <3>6. Purse(u, c) = av + hd + ((al + hs) + r)
      BY <2>2, <3>4 DEF Purse
    <3> QED
      BY <2>4, <3>1, <3>2, <3>3, <3>5, <3>6
  <2>6. CASE ~ (u = v /\ c = b)
    <3>1. accounts'[u][c] = accounts[u][c] /\ s = bills[u][c]
      BY <1>3, <2>1, <2>3, <2>6
    <3> QED
      BY <2>4, <3>1 DEF Purse
  <2> QED
    BY <2>5, <2>6
<1> QED
  BY <1>2, <1>6, PaidQuiet, PaidSame

\* The flusher's fills are not settled.
LEMMA PaidFlush ==
  ASSUME RowInv, RowInv', FlushFill, NEW c \in Currencies, PaidAt(c)
  PROVE  PaidAt(c)'
<1>1. UNCHANGED <<plan, accounts, bills>> /\ PostInv
  BY DEF FlushFill, RowInv
<1>2. /\ \A k \in DOMAIN fills : k \in DOMAIN fills' /\ fills'[k] = fills[k]
      /\ \A k \in DOMAIN fills' : k \notin DOMAIN fills => ~ fills'[k].settled
  BY <1>1, FlushKeeps
<1>3. PICK S : S = SettledFills
  OBVIOUS
<1>4. SettledFills' = S
  BY <1>2, <1>3 DEF SettledFills
<1>5. PICK w : w = Signed(c)
  OBVIOUS
<1>6. Signed(c)' = w
  BY <1>1, <1>5 DEF Signed, Flow, Order
<1>7. PICK f, g : f = Weighed(w, fills) /\ g = Weighed(w, fills')
  OBVIOUS
<1>8. IsFiniteSet(S) /\ S \subseteq DOMAIN fills /\ \A k \in S : f[k] \in Int
  BY <1>3, <1>5, <1>7, PaidFacts
<1>9. \A k \in S : g[k] = f[k]
  BY <1>2, <1>7, <1>8 DEF Weighed
<1>10. SumFunctionOnSet(f, S) = SumFunctionOnSet(g, S)
  BY <1>8, <1>9, SumEqual
<1>11. Weighed(Signed(c), fills)' = g
  BY <1>6, <1>7 DEF Weighed
<1>12. Paid(c)' = SumFunctionOnSet(g, S)
  BY <1>4, <1>11 DEF Paid, SumFunctionOnSet, FoldFunctionOnSet, MapThenFoldSet
<1>13. Paid(c) = SumFunctionOnSet(f, S)
  BY <1>3, <1>5, <1>7 DEF Paid
<1>14. Paid(c)' = Paid(c)
  BY <1>10, <1>12, <1>13
<1> QED
  BY <1>1, <1>14, PaidQuiet, PurseSame

\* What the bills of the trades in T, all of order i, add to an account.
LEMMA TradeNets ==
  ASSUME RowInv, NEW i \in OrderIds, NEW T \in SUBSET DOMAIN fills, NEW m, m = Kept(fills, T),
         \A k \in T : fills[k].order = i /\ ~ fills[k].done, NEW side, side = Order(i).side
  PROVE  /\ Net(BaseBills(side, m)) = SumFunctionOnSet(Weighed(Signed("base"), fills), T)
         /\ Net(QuoteBills(side, m)) = SumFunctionOnSet(Weighed(Signed("quote"), fills), T)
         /\ BaseBills(side, m) \in Seq(Credit) /\ QuoteBills(side, m) \in Seq(Credit)
<1>1. "base" \in Currencies /\ "quote" \in Currencies
  BY DEF Currencies
<1>2. /\ fills \in Seq(FillRow) /\ \A k \in DOMAIN fills : fills[k] \in FillRow
      /\ T \in SUBSET DOMAIN fills
  BY <1>1, PaidFacts
<1>3. m \in Seq(FillRow) /\ \A k \in DOMAIN m : m[k] \in FillRow
  BY <1>2, KeptType
<1>4. PICK b, q : b = BaseBills(side, m) /\ q = QuoteBills(side, m)
  OBVIOUS
<1>5. b \in Seq(Credit) /\ q \in Seq(Credit) /\ DOMAIN b = DOMAIN m /\ DOMAIN q = DOMAIN m
  BY <1>3, <1>4, BillsType DEF BaseBills, QuoteBills
<1>6. \A k \in DOMAIN m : b[k] \in Credit /\ q[k] \in Credit
  BY <1>5
<1>7. PICK W, V : W = [f \in FillRow |-> Flow("base", side, f)] /\ V = [f \in FillRow |-> Flow("quote", side, f)]
  OBVIOUS
<1>8. ASSUME NEW c, NEW f \in FillRow PROVE Flow(c, side, f) \in Int
  <2>1. f.size \in Nat /\ f.size * f.price \in Nat
    BY SignedType
  <2>2. PICK z \in Nat, v \in Nat : z = f.size /\ v = f.size * f.price
    BY <2>1
  <2>3. (- z) \in Int /\ (- v) \in Int
    OBVIOUS
  <2> QED
    BY <2>2, <2>3 DEF Flow
<1>9. W \in [FillRow -> Int] /\ V \in [FillRow -> Int]
  BY <1>7, <1>8
<1>10. \A f \in FillRow : f.size \in Nat /\ f.size * f.price \in Nat
  BY SignedType
<1>11. ASSUME NEW k \in DOMAIN m PROVE NetField[b[k]] = W[m[k]] /\ NetField[q[k]] = V[m[k]]
  <2>1. PICK z \in Int, v \in Int : z = m[k].size /\ v = m[k].size * m[k].price
    BY <1>3, <1>10
  <2>2. b[k] = IF side = "buy" THEN [available |-> z, hold |-> 0] ELSE [available |-> 0, hold |-> - z]
    BY <1>4, <2>1 DEF BaseBills
  <2>3. q[k] = IF side = "buy" THEN [available |-> 0, hold |-> - v] ELSE [available |-> v, hold |-> 0]
    BY <1>4, <2>1 DEF QuoteBills
  <2>4. NetField[b[k]] = b[k].available + b[k].hold /\ NetField[q[k]] = q[k].available + q[k].hold
    BY <1>6 DEF NetField
  <2>5. W[m[k]] = IF side = "buy" THEN z ELSE - z
    BY <1>3, <1>7, <2>1 DEF Flow
  <2>6. V[m[k]] = IF side = "buy" THEN - v ELSE v
    BY <1>3, <1>7, <2>1 DEF Flow
  <2>7. CASE side = "buy"
    <3>1. b[k].available = z /\ b[k].hold = 0 /\ q[k].available = 0 /\ q[k].hold = - v
      BY <2>2, <2>3, <2>7
    <3>2. z + 0 = z /\ 0 + (- v) = - v
      OBVIOUS
    <3> QED
      BY <2>4, <2>5, <2>6, <2>7, <3>1, <3>2
  <2>8. CASE side # "buy"
    <3>1. b[k].available = 0 /\ b[k].hold = - z /\ q[k].available = v /\ q[k].hold = 0
      BY <2>2, <2>3, <2>8
    <3>2. 0 + (- z) = - z /\ v + 0 = v
      OBVIOUS
    <3> QED
      BY <2>4, <2>5, <2>6, <2>8, <3>1, <3>2
  <2> QED
    BY <2>7, <2>8
<1>12. Weighed(NetField, b) = Weighed(W, m) /\ Weighed(NetField, q) = Weighed(V, m)
  BY <1>5, <1>11 DEF Weighed
<1>13. PICK w, v : w = Weighed(Signed("base"), fills) /\ v = Weighed(Signed("quote"), fills)
  OBVIOUS
<1>14. ASSUME NEW k \in T PROVE w[k] = W[fills[k]] /\ v[k] = V[fills[k]]
  <2>1. PICK f \in FillRow : f = fills[k] /\ f.order = i /\ ~ f.done
    BY <1>2
  <2>2. w[k] = Signed("base")[f] /\ v[k] = Signed("quote")[f]
    BY <1>1, <1>2, <1>13, <2>1, PaidFacts
  <2>3. Signed("base")[f] = Flow("base", side, f)
    BY <2>1 DEF Signed
  <2>4. Signed("quote")[f] = Flow("quote", side, f)
    BY <2>1 DEF Signed
  <2> QED
    BY <1>7, <2>1, <2>2, <2>3, <2>4
<1>15. SumOf(Weighed(W, Kept(fills, T))) = SumFunctionOnSet(w, T)
  BY <1>2, <1>9, <1>14, KeptSum
<1>16. SumOf(Weighed(V, Kept(fills, T))) = SumFunctionOnSet(v, T)
  BY <1>2, <1>9, <1>14, KeptSum
<1> QED
  BY <1>4, <1>5, <1>12, <1>13, <1>15, <1>16 DEF Net

\* Unfreezing what is left adds nothing.
LEMMA ReleaseNets ==
  ASSUME NEW o \in Orders, NEW row \in Row
  PROVE  Release(o, row) \in Seq(Credit) /\ Net(Release(o, row)) = 0
<1>1. o.funds \in Nat /\ o.size \in Nat /\ row.executed \in Nat /\ row.filled \in Nat
  BY OrdersType DEF BookOrder, Row
<1>2. (o.funds - row.executed) \in Int /\ (o.size - row.filled) \in Int
  BY <1>1
<1>3. PICK rest \in Int : rest = IF o.side = "buy" THEN o.funds - row.executed ELSE o.size - row.filled
  BY <1>2
<1>4. Release(o, row) = IF rest > 0 THEN <<[available |-> rest, hold |-> - rest]>> ELSE <<>>
  BY <1>3 DEF Release
<1>5. CASE rest > 0
  <2>5. PICK n \in Int : n = - rest
    OBVIOUS
  <2>1. PICK b \in Credit : b = [available |-> rest, hold |-> n]
    <3>1. [available |-> rest, hold |-> n] \in Credit
      BY <1>5 DEF Credit
    <3> QED
      BY <3>1
  <2>2. NetField[b] = 0
    <3>1. b.available = rest /\ b.hold = n /\ rest + n = 0
      BY <2>1, <2>5
    <3> QED
      BY <3>1 DEF NetField
  <2>3. SumOf(Weighed(NetField, <<b>>)) = 0
    BY <2>2, NetFieldType, WeighedOne
  <2>4. Release(o, row) = <<b>>
    BY <1>4, <1>5, <2>1, <2>5
  <2> QED
    BY <2>3, <2>4, ReleaseType DEF Net
<1>6. CASE ~ (rest > 0)
  <2>1. Release(o, row) = <<>>
    BY <1>4, <1>6
  <2> QED
    BY <2>1, NetNone, ReleaseType
<1> QED
  BY <1>5, <1>6

LEMMA NetThree ==
  ASSUME NEW a \in Seq(Credit), NEW b \in Seq(Credit), NEW d \in Seq(Credit)
  PROVE  Net(a \o b \o d) = Net(a) + Net(b) + Net(d)
<1>1. PICK e \in Seq(Credit) : e = a \o b /\ Net(e) = Net(a) + Net(b)
  BY NetConcat
<1>2. Net(e \o d) = Net(e) + Net(d)
  BY NetConcat
<1> QED
  BY <1>1, <1>2

\* What the fills p, of which those in ends are done, add to what is paid.
LEMMA PaidMore ==
  ASSUME RowInv, RowInv', NEW i \in OrderIds, UNCHANGED plan, NEW c \in Currencies,
         NEW p, NEW ends, NEW row, NEW freed, Settling(i, p, ends, row, freed),
         NEW d, d = SumFunctionOnSet(Weighed(Signed(c), fills), p \ ends)
  PROVE  d \in Int /\ Paid(c)' = Paid(c) + d
<1>1. /\ p \subseteq DOMAIN fills /\ ends = {k \in p : fills[k].done}
      /\ \A k \in p : ~ fills[k].settled
      /\ fills' = [k \in DOMAIN fills |-> IF k \in p THEN [fills[k] EXCEPT !.settled = TRUE] ELSE fills[k]]
  BY DEF Settling
<1>2. PICK w \in [FillRow -> Int] : w = Signed(c)
  BY SignedType
<1>3. PICK v, e : v = Weighed(w, fills) /\ e = Weighed(w, fills')
  OBVIOUS
<1>4. /\ fills \in Seq(FillRow) /\ \A k \in DOMAIN fills : fills[k] \in FillRow
      /\ IsFiniteSet(DOMAIN fills) /\ SettledFills \subseteq DOMAIN fills /\ IsFiniteSet(SettledFills)
      /\ \A k \in DOMAIN fills : v[k] = w[fills[k]] /\ v[k] \in Int
  BY <1>2, <1>3, PaidFacts
<1>5. PICK S : S = SettledFills
  OBVIOUS
<1>6. \A k \in DOMAIN fills : e[k] = v[k] /\ fills'[k].settled = (fills[k].settled \/ k \in p)
  <2> SUFFICES ASSUME NEW k \in DOMAIN fills
               PROVE  e[k] = v[k] /\ fills'[k].settled = (fills[k].settled \/ k \in p)
    OBVIOUS
  <2>1. PICK f \in FillRow : f = fills[k] /\ f.settled \in BOOLEAN
    BY <1>4 DEF FillRow
  <2>2. e[k] = w[fills'[k]] /\ v[k] = w[f]
    BY <1>1, <1>3, <2>1 DEF Weighed
  <2>3. CASE k \notin p
    <3>1. fills'[k] = f
      BY <1>1, <2>1, <2>3
    <3> QED
      BY <2>1, <2>2, <2>3, <3>1
  <2>4. CASE k \in p
    <3>1. PICK g \in FillRow : g = fills'[k] /\ g = [f EXCEPT !.settled = TRUE]
      BY <1>1, <2>1, <2>4 DEF FillRow
    <3>2. g.order = f.order /\ g.size = f.size /\ g.price = f.price /\ g.done = f.done /\ g.settled = TRUE
      BY <3>1 DEF FillRow
    <3>3. \A side : Flow(c, side, g) = Flow(c, side, f)
      BY <3>2 DEF Flow
    <3>4. Signed(c)[g] = Signed(c)[f]
      BY <3>2, <3>3 DEF Signed
    <3> QED
      BY <1>2, <2>1, <2>2, <2>4, <3>1, <3>2, <3>4
  <2> QED
    BY <2>3, <2>4
<1>7. SettledFills' = S \cup p
  <2>1. DOMAIN fills' = DOMAIN fills
    BY <1>1
  <2> QED
    BY <1>1, <1>5, <1>6, <2>1 DEF SettledFills
<1>8. PICK T : T = p \ ends
  OBVIOUS
<1>9. /\ S \cap p = {} /\ T \cap ends = {} /\ p = T \cup ends
      /\ S \subseteq DOMAIN fills /\ T \subseteq DOMAIN fills /\ ends \subseteq DOMAIN fills
  BY <1>1, <1>4, <1>5, <1>8 DEF SettledFills
<1>10. IsFiniteSet(S) /\ IsFiniteSet(T) /\ IsFiniteSet(ends) /\ IsFiniteSet(p) /\ IsFiniteSet(S \cup p)
  BY <1>1, <1>4, <1>9, FS_Subset, FS_Union
<1>11. \A k \in ends : v[k] = 0
  <2> SUFFICES ASSUME NEW k \in ends PROVE v[k] = 0
    OBVIOUS
  <2>1. PICK f \in FillRow : f = fills[k] /\ f.done
    BY <1>1, <1>4, <1>9
  <2>2. Signed(c)[f] = 0
    BY <2>1 DEF Signed
  <2> QED
    BY <1>2, <1>4, <1>9, <2>1, <2>2
<1>12. PICK x \in Int, y \in Int : x = SumFunctionOnSet(v, S) /\ y = SumFunctionOnSet(v, T)
  <2>1. (\A k \in S : v[k] \in Int) /\ (\A k \in T : v[k] \in Int)
    BY <1>4, <1>9
  <2> QED
    BY <1>10, <2>1, SumType
<1>13. SumFunctionOnSet(v, ends) = 0
  BY <1>10, <1>11, SumOfZeros
<1>14. SumFunctionOnSet(v, p) = y + 0
  <2>1. \A k \in T \cup ends : v[k] \in Int
    BY <1>4, <1>9
  <2> QED
    BY <1>9, <1>10, <1>12, <1>13, <2>1, SumUnion
<1>15. SumFunctionOnSet(v, S \cup p) = x + SumFunctionOnSet(v, p)
  <2>1. \A k \in S \cup p : v[k] \in Int
    BY <1>1, <1>4, <1>9
  <2> QED
    BY <1>9, <1>10, <1>12, <2>1, SumUnion
<1>16. SumFunctionOnSet(v, S \cup p) = SumFunctionOnSet(e, S \cup p)
  <2>1. \A k \in S \cup p : v[k] \in Int /\ v[k] = e[k]
    BY <1>1, <1>4, <1>6, <1>9
  <2> QED
    BY <1>10, <2>1, SumEqual
<1>17. PICK U : U = S \cup p
  OBVIOUS
<1>18. Weighed(Signed(c), fills)' = e
  <2>1. Signed(c)' = w
    BY <1>2 DEF Signed, Flow, Order
  <2> QED
    BY <1>3, <2>1 DEF Weighed
<1>19. Paid(c)' = SumFunctionOnSet(e, U)
  BY <1>7, <1>17, <1>18 DEF Paid, SumFunctionOnSet, FoldFunctionOnSet, MapThenFoldSet
<1>20. Paid(c) = x /\ d = y
  BY <1>2, <1>3, <1>5, <1>8, <1>12 DEF Paid
<1>21. y + 0 = y
  OBVIOUS
<1> QED
  BY <1>12, <1>14, <1>15, <1>16, <1>17, <1>19, <1>20, <1>21

\* ExecuteFill puts into the bills what it settles.
LEMMA PaidFill ==
  ASSUME IsFiniteSet(Users), RowInv, RowInv', NEW i \in OrderIds, ExecuteFill(i),
         NEW c \in Currencies, PaidAt(c)
  PROVE  PaidAt(c)'
<1>1. PostInv /\ plan \in Plans /\ bills \in [Users -> [Currencies -> Seq(Credit)]] /\ rows' \in [OrderIds -> Row]
  BY DEF RowInv, PostInv, AccountInv, BaseInv, TableInv, PipeInv
<1>2. PICK p, ends, row, freed :
        /\ Settling(i, p, ends, row, freed)
        /\ bills' = [bills EXCEPT
             ![User(i)] =
                [base |-> @.base \o BaseBills(Order(i).side, Kept(fills, p \ ends))
                            \o (IF Order(i).side = "sell" THEN freed ELSE <<>>),
                 quote |-> @.quote \o QuoteBills(Order(i).side, Kept(fills, p \ ends))
                             \o (IF Order(i).side = "buy" THEN freed ELSE <<>>)]]
  BY <1>1, SettlingIs
<1>3. PICK o, side, m, T : o = Order(i) /\ side = o.side /\ T = p \ ends /\ m = Kept(fills, T)
  OBVIOUS
<1>4. /\ T \in SUBSET DOMAIN fills /\ \A k \in T : fills[k].order = i /\ ~ fills[k].done
      /\ freed = (IF ends = {} THEN <<>> ELSE Release(o, row)) /\ rows' = [rows EXCEPT ![i] = row]
  BY <1>2, <1>3 DEF Settling
<1>5. UNCHANGED <<plan, accounts>> /\ User(i) \in Users /\ o \in Orders
  BY <1>1, <1>3, PlanType DEF ExecuteFill
<1>6. row \in Row
  <2>1. rows \in [OrderIds -> Row]
    BY DEF RowInv, PostInv, AccountInv, BaseInv, TableInv
  <2>2. rows'[i] = row
    BY <1>4, <2>1
  <2> QED
    BY <1>1, <2>2
<1>7. PICK none \in Seq(Credit) : none = <<>> /\ Net(none) = 0
  <2>1. <<>> \in Seq(Credit)
    OBVIOUS
  <2> QED
    BY <2>1, NetNone
<1>8. PICK r \in Seq(Credit) : r = freed /\ Net(r) = 0
  <2>1. CASE ends = {}
    BY <1>4, <1>7, <2>1
  <2>2. CASE ends # {}
    BY <1>4, <1>5, <1>6, <2>2, ReleaseNets
  <2> QED
    BY <2>1, <2>2
<1>9. PICK d : d = SumFunctionOnSet(Weighed(Signed(c), fills), T)
  OBVIOUS
<1>10. d \in Int /\ Paid(c)' = Paid(c) + d
  BY <1>2, <1>3, <1>5, <1>9, PaidMore
<1>11. PICK b \in Seq(Credit), q \in Seq(Credit) :
         /\ b = BaseBills(side, m) /\ q = QuoteBills(side, m)
         /\ Net(b) = SumFunctionOnSet(Weighed(Signed("base"), fills), T)
         /\ Net(q) = SumFunctionOnSet(Weighed(Signed("quote"), fills), T)
  BY <1>3, <1>4, TradeNets
<1>12. PICK old \in Seq(Credit), more \in Seq(Credit), rest \in Seq(Credit) :
         /\ old = bills[User(i)][c] /\ bills'[User(i)][c] = old \o more \o rest
         /\ Net(more) = d /\ Net(rest) = 0
  <2>1. bills[User(i)].base \in Seq(Credit) /\ bills[User(i)].quote \in Seq(Credit)
    BY <1>1, <1>5 DEF Currencies
  <2>2. PICK fb \in Seq(Credit), fq \in Seq(Credit) :
          /\ fb = (IF side = "sell" THEN r ELSE none) /\ fq = (IF side = "buy" THEN r ELSE none)
          /\ Net(fb) = 0 /\ Net(fq) = 0
    BY <1>7, <1>8
  <2>3. bills' = [bills EXCEPT ![User(i)] = [base |-> bills[User(i)].base \o b \o fb, quote |-> bills[User(i)].quote \o q \o fq]]
    BY <1>2, <1>3, <1>7, <1>8, <1>11, <2>2
  <2>4. bills'[User(i)] = [base |-> bills[User(i)].base \o b \o fb, quote |-> bills[User(i)].quote \o q \o fq]
    BY <1>1, <1>5, <2>3
  <2>5. CASE c = "base"
    <3>1. bills[User(i)][c] = bills[User(i)].base /\ bills'[User(i)][c] = bills[User(i)].base \o b \o fb
      BY <2>4, <2>5
    <3> QED
      BY <1>9, <1>11, <2>1, <2>2, <2>5, <3>1
  <2>6. CASE c = "quote"
    <3>1. bills[User(i)][c] = bills[User(i)].quote /\ bills'[User(i)][c] = bills[User(i)].quote \o q \o fq
      BY <2>4, <2>6
    <3> QED
      BY <1>9, <1>11, <2>1, <2>2, <2>6, <3>1
  <2> QED
    BY <2>5, <2>6 DEF Currencies
<1>13. PICK s : s = bills'[User(i)][c]
  OBVIOUS
<1>14. Net(s) = Net(old) + d + 0
  BY <1>12, <1>13, NetThree
<1>15. Purse(User(i), c)' = Purse(User(i), c) + d
  <2>1. PICK av \in Int, hd \in Int, n \in Int :
          av = accounts[User(i)][c].available /\ hd = accounts[User(i)][c].hold /\ n = Net(old)
    BY <1>5, <1>12, PurseType
  <2>2. Purse(User(i), c) = av + hd + n
    BY <1>12, <2>1 DEF Purse
  <2>3. User(i)' = User(i)
    BY <1>5 DEF User
  <2>4. Purse(User(i), c)' = accounts'[User(i)][c].available + accounts'[User(i)][c].hold + Net(s)
    BY <1>13, <2>3 DEF Purse, Net, Weighed, SumOf, NetField
  <2>5. av + hd + (n + d + 0) = (av + hd + n) + d
    BY <1>10
  <2> QED
    BY <1>5, <1>14, <2>1, <2>2, <2>4, <2>5
<1>16. \A u \in Users : u # User(i) => Purse(u, c)' = Purse(u, c)
  <2> SUFFICES ASSUME NEW u \in Users, u # User(i) PROVE Purse(u, c)' = Purse(u, c)
    OBVIOUS
  <2>1. PICK t : t = bills'[u][c]
    OBVIOUS
  <2>2. t = bills[u][c]
    BY <1>1, <1>2, <2>1
  <2>3. Purse(u, c)' = accounts'[u][c].available + accounts'[u][c].hold + Net(t)
    BY <2>1 DEF Purse, Net, Weighed, SumOf, NetField
  <2> QED
    BY <1>5, <2>2, <2>3 DEF Purse
<1>17. PICK y \in Users : y = User(i)
  BY <1>5
<1>18. Purse(y, c)' = Purse(y, c) + d
  <2>1. User(i)' = User(i)
    BY <1>5 DEF User
  <2> QED
    BY <1>15, <1>17, <2>1
<1> QED
  BY <1>10, <1>16, <1>17, <1>18, PaidMoves

LEMMA PaidInit ==
  ASSUME IsFiniteSet(Users), Init
  PROVE  PaidInv
<1> SUFFICES ASSUME NEW c \in Currencies PROVE PaidAt(c)
  BY DEF PaidInv
<1>1. ASSUME NEW u \in Users PROVE Purse(u, c) = Deposits[u][c]
  <2>1. PICK n \in Nat : n = Deposits[u][c]
    BY SettlementAssumption
  <2>2. accounts[u][c] = [available |-> n, hold |-> 0] /\ bills[u][c] = <<>>
    BY <2>1 DEF Init, Currencies
  <2>3. accounts[u][c].available = n /\ accounts[u][c].hold = 0
    BY <2>2
  <2>4. n + 0 + 0 = n
    OBVIOUS
  <2> QED
    BY <2>1, <2>2, <2>3, <2>4, NetNone DEF Purse
<1>2. Purses(c) = [u \in Users |-> Deposits[u][c]]
  BY <1>1 DEF Purses
<1>3. Paid(c) = 0
  <2>1. SettledFills = {}
    BY DEF SettledFills, Init
  <2> QED
    BY <2>1, SumOfNone DEF Paid
<1>4. Deposited(c) \in Int
  BY DepositedType
<1>5. Deposited(c) + 0 = Deposited(c)
  BY <1>4
<1> QED
  BY <1>2, <1>3, <1>5 DEF PaidAt, Deposited

LEMMA PaidStep ==
  ASSUME IsFiniteSet(Users), RowInv, RowInv', PaidInv, [Next]_vars
  PROVE  PaidInv'
<1> SUFFICES ASSUME NEW c \in Currencies PROVE PaidAt(c)'
  BY DEF PaidInv
<1>1. PaidAt(c)
  BY DEF PaidInv
<1>2. ASSUME UNCHANGED <<plan, accounts, bills, fills>> PROVE PaidAt(c)'
  BY <1>1, <1>2, PaidQuiet, PurseSame, PaidSame
<1>3. ASSUME NEW i \in OrderIds, CheckBalance(i) \/ SubmitOrder(i) \/ RequestCancel(i) PROVE PaidAt(c)'
  BY <1>2, <1>3 DEF CheckBalance, SubmitOrder, RequestCancel, dbVars
<1>4. ASSUME NEW i \in OrderIds, PlaceOrder(i) PROVE PaidAt(c)'
  BY <1>1, <1>4, PaidPlace
<1>5. ASSUME NEW m \in topic, Engine(m) PROVE PaidAt(c)'
  BY <1>2, <1>5 DEF Engine, dbVars
<1>6. CASE EngineMatch \/ EngineLogs \/ SendFill \/ ReadLog \/ Crash \/ UNCHANGED vars
  BY <1>2, <1>6 DEF EngineMatch, EngineLogs, SendFill, ReadLog, Crash, vars, dbVars
<1>7. CASE FlushFill
  BY <1>1, <1>7, PaidFlush
<1>8. ASSUME NEW i \in OrderIds, ExecuteFill(i) PROVE PaidAt(c)'
  BY <1>1, <1>8, PaidFill
<1>9. ASSUME NEW u \in Users, NEW b \in Currencies, ExecuteBill(u, b) PROVE PaidAt(c)'
  BY <1>1, <1>9, PaidBill
<1> QED
  BY <1>3, <1>4, <1>5, <1>6, <1>7, <1>8, <1>9 DEF Next, Settle

LEMMA DeadInit ==
  ASSUME Init
  PROVE  DeadInv
  BY DEF DeadInv, Init

\* A fill left unsettled when its order is finished is the done fill of the order.
LEMMA LateIsDone ==
  ASSUME RowInv, TaleInv, DeadInv, InOrder(fills), NEW k \in DOMAIN fills,
         ~ fills[k].settled, ~ Live(fills[k].order)
  PROVE  fills[k].done
<1> SUFFICES ASSUME ~ fills[k].done PROVE FALSE
  OBVIOUS
<1>1. /\ PostInv /\ FillsInv /\ StoryInv /\ fills \in Seq(FillRow)
      /\ logTopic \in Seq(Log) /\ out \in Seq(Log) /\ Story \in Seq(Log)
  BY PostFacts, Facts DEF RowInv, PostInv, AccountInv
<1>2. PICK f, i, log : f = fills[k] /\ i = f.order /\ log = logTopic[f.seq]
  OBVIOUS
<1>3. \A n \in DOMAIN logTopic : n \in DOMAIN Story /\ Story[n] = logTopic[n]
  BY <1>1, Joined DEF Story
<1>4. f.seq \in DOMAIN Story /\ Story[f.seq] = log /\ log.type = "match" /\ i \in {log.order, log.maker}
  <2>1. Tells(fills[k])
    BY <1>1 DEF FillsInv
  <2>2. f.seq \in DOMAIN logTopic /\ log.type = "match" /\ i \in {log.order, log.maker}
    BY <1>2, <2>1 DEF Tells
  <2> QED
    BY <1>2, <1>3, <2>2
<1>5. i \in Named(Story[f.seq]) /\ NamedIn(Story, i)
  BY <1>4 DEF Named, NamedIn
<1>6. i \in OrderIds
  <2>1. Facing(log)
    BY <1>4 DEF TaleInv, Opposed
  <2>2. log.order \in OrderIds
    <3>1. log \in Log
      BY <1>1, <1>4
    <3> QED
      BY <3>1 DEF Log
  <2> QED
    BY <1>4, <2>1, <2>2 DEF Facing
<1>7. ~ Fresh(i)
  BY <1>5, <1>6 DEF TaleInv, TaleOf
<1>8. rows[i].status \notin {"none", "new", "open"}
  BY <1>2, <1>7 DEF Fresh, Live
<1>9. PICK d : Ended(i, d)
  BY <1>6, <1>8 DEF DeadInv
<1>10. d \in DOMAIN fills /\ fills[d].order = i /\ fills[d].done /\ ~ (k <= d)
  BY <1>2, <1>9 DEF Ended
<1>11. d < k
  <2>1. DOMAIN fills \subseteq Int
    BY <1>1
  <2> QED
    BY <1>10, <2>1
<1>12. fills[d].seq < f.seq
  <2>1. Precedes(fills[d], fills[k])
    BY <1>10, <1>11 DEF InOrder
  <2> QED
    BY <1>2, <1>10, <2>1 DEF Precedes
<1>13. fills[d].seq \in DOMAIN Story /\ Story[fills[d].seq].type = "done" /\ Story[fills[d].seq].order = i
  <2>1. Tells(fills[d])
    BY <1>1, <1>10 DEF FillsInv
  <2> QED
    BY <1>3, <1>10, <2>1 DEF Tells
<1>14. DoneLast(Story)
  BY DEF TaleInv
<1> QED
  BY <1>4, <1>5, <1>12, <1>13, <1>14 DEF DoneLast

\* Then the settled fills are even.
LEMMA PaidEven ==
  ASSUME RowInv, TaleInv, DeadInv, CleanInv, crashes = 0, Settled, NEW c \in Currencies
  PROVE  Paid(c) = 0
<1>1. Clean(fills, lastSeq)
  <2>1. Line = <<>>
    BY DEF Settled, FillMakerIdle, Line
  <2>2. fills \in Seq(FillRow)
    BY PaidFacts
  <2>3. fills \o <<>> = fills
    BY <2>2
  <2> QED
    BY <2>1, <2>3 DEF CleanInv, All
<1>2. InOrder(fills) /\ SumOf(Weighed(Signed(c), fills)) = 0
  BY <1>1 DEF Clean, Even
<1>3. /\ fills \in Seq(FillRow) /\ \A k \in DOMAIN fills : fills[k] \in FillRow
      /\ SettledFills \subseteq DOMAIN fills
      /\ \A k \in DOMAIN fills : Weighed(Signed(c), fills)[k] = Signed(c)[fills[k]]
  BY PaidFacts
<1>4. PICK s \in Seq(Int) : s = Weighed(Signed(c), fills)
  BY <1>3, SignedType, WeighedType
<1>5. DOMAIN s = DOMAIN fills
  BY <1>4 DEF Weighed
<1>6. ASSUME NEW k \in DOMAIN s, k \notin SettledFills PROVE s[k] = 0
  <2>1. k \in DOMAIN fills /\ ~ fills[k].settled
    BY <1>5, <1>6 DEF SettledFills
  <2>2. ~ Live(fills[k].order)
    BY <2>1 DEF Settled
  <2>3. fills[k].done
    BY <1>2, <2>1, <2>2, LateIsDone
  <2>4. Signed(c)[fills[k]] = 0
    BY <1>3, <2>1, <2>3 DEF Signed
  <2> QED
    BY <1>3, <1>4, <2>1, <2>4
<1>7. SumOf(s) = SumFunctionOnSet(s, SettledFills)
  BY <1>3, <1>5, <1>6, SumOfMarked
<1> QED
  BY <1>2, <1>4, <1>7 DEF Paid

LEMMA WorthIsPurse ==
  ASSUME RowInv, Settled, NEW c \in Currencies
  PROVE  [u \in Users |-> Worth(u, c)] = Purses(c)
<1>1. ASSUME NEW u \in Users PROVE Worth(u, c) = Purse(u, c)
  <2>1. bills[u][c] = <<>>
    BY DEF Settled
  <2>2. PICK av \in Int, hd \in Int : av = accounts[u][c].available /\ hd = accounts[u][c].hold
    BY PurseType
  <2>3. av + hd + 0 = av + hd
    OBVIOUS
  <2> QED
    BY <2>1, <2>2, <2>3, NetNone DEF Worth, Purse
<1> QED
  BY <1>1 DEF Purses

\* Trading creates and destroys nothing while the process lives: whatever the users place and
\* cancel and in whatever order the executors run, once all is settled each currency adds up to
\* what was deposited.  A crash can split the two fills of a match, so it is left out.
THEOREM NothingIsMinted ==
  ASSUME IsFiniteSet(Users)
  PROVE  Spec => [](crashes = 0 => Conserved)
<1>1. Init => RowInv /\ TaleInv /\ DeadInv /\ CleanInv /\ PaidInv
  BY RowInit, TaleInit, DeadInit, CleanInit, PaidInit
<1>2. RowInv /\ [Next]_vars => RowInv'
  BY RowStep
<1>3. RowInv => PostInv /\ AccountInv
  BY DEF RowInv, PostInv
<1>4. TaleInv /\ AccountInv /\ [Next]_vars => TaleInv'
  BY TaleStep
<1>5. DeadInv /\ RowInv /\ RowInv' /\ [Next]_vars => DeadInv'
  BY DeadStep
<1>6. CleanInv /\ TaleInv /\ PostInv /\ PostInv' /\ [Next]_vars => CleanInv'
  BY CleanStep
<1>7. PaidInv /\ RowInv /\ RowInv' /\ [Next]_vars => PaidInv'
  BY PaidStep
<1>8. RowInv /\ TaleInv /\ DeadInv /\ CleanInv /\ PaidInv => (crashes = 0 => Conserved)
  <2> SUFFICES ASSUME RowInv, TaleInv, DeadInv, CleanInv, PaidInv, crashes = 0, Settled, NEW c \in Currencies
               PROVE  SumFunctionOnSet([u \in Users |-> Worth(u, c)], Users)
                        = SumFunctionOnSet([u \in Users |-> Deposits[u][c]], Users)
    BY DEF Conserved
  <2>1. Paid(c) = 0 /\ [u \in Users |-> Worth(u, c)] = Purses(c)
    BY PaidEven, WorthIsPurse
  <2>2. SumFunctionOnSet(Purses(c), Users) = Deposited(c) + Paid(c)
    BY DEF PaidInv, PaidAt
  <2>3. Deposited(c) \in Int
    BY DepositedType
  <2>4. Deposited(c) + 0 = Deposited(c)
    BY <2>3
  <2> QED
    BY <2>1, <2>2, <2>4 DEF Deposited
<1> QED
  BY <1>1, <1>2, <1>3, <1>4, <1>5, <1>6, <1>7, <1>8, PTL DEF Spec
=============================================================================
