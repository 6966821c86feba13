------------------------ MODULE SpotOrderBookProofs ------------------------
(***************************************************************************)
(* The inductive invariant of the order book of gitbitex-spot and the      *)
(* lemmas that its operations keep it, for any set of order ids, prices    *)
(* and sizes.  SpotFeedProofs and SpotEngineProofs build on them.          *)
(***************************************************************************)
EXTENDS SpotOrderBook, FiniteSetTheorems, TLAPS

-----------------------------------------------------------------------------
(* The inductive invariant. *)

\* Only limit orders rest, on their own side, at a limit price.
DepthsOK ==
  \A s \in Sides : \A o \in depths[s] :
    o.side = s /\ o.type = "limit" /\ o.price \in Prices

\* A limit taker still has its limit price; what the loop has not visited is
\* on the opposite side of the book; and a maker that was visited and is
\* still there has used up the taker.
TakerOK ==
  taker # NoTaker =>
    /\ taker.type = "limit" => taker.price \in Prices
    /\ left \subseteq depths[Opposite(taker.side)]
    /\ (taker.type = "limit" /\ taker.size > 0)
         => depths[Opposite(taker.side)] \subseteq left

\* The logs that wait for logCh carry the last numbers given out, in order.
OutNumbered == \A i \in 1 .. Len(out) : out[i].seq = logSeq - Len(out) + i

BookInv == BookTypeOK /\ DepthsOK /\ TakerOK /\ NotCrossed /\ OutNumbered

-----------------------------------------------------------------------------
\* An order message is a BookOrder, and a limit order has a limit price.
LEMMA OrdersType ==
  ASSUME NEW o \in Orders
  PROVE  /\ o \in BookOrder
         /\ o.type = "limit" => o.price \in Prices
         /\ TakerOf(o) \in BookOrder
         /\ TakerOf(o).side = o.side /\ TakerOf(o).type = o.type
         /\ o.type = "limit" => TakerOf(o).price = o.price
         /\ TakerOf(o) # NoTaker
<1> USE BookAssumption DEF BookOrder, TakerOf, NoTaker, Sides
<1>1. CASE o \in LimitOrders
  <2>1. PICK i \in OrderIds, s \in Sides, z \in Sizes, p \in Prices :
          o = [id |-> i, side |-> s, type |-> "limit", size |-> z,
               price |-> p, funds |-> z * p]
    BY <1>1 DEF LimitOrders
  <2>2. z \in Nat /\ p \in Nat /\ z * p \in Nat /\ i # 0
    OBVIOUS
  <2> QED BY <2>1, <2>2
<1>2. CASE o \in MarketBuys
  <2>1. PICK i \in OrderIds, f \in Funds :
          o = [id |-> i, side |-> "buy", type |-> "market", size |-> 0,
               price |-> 0, funds |-> f]
    BY <1>2 DEF MarketBuys
  <2> QED BY <2>1
<1>3. CASE o \in MarketSells
  <2>1. PICK i \in OrderIds, z \in Sizes :
          o = [id |-> i, side |-> "sell", type |-> "market", size |-> z,
               price |-> 0, funds |-> 0]
    BY <1>3 DEF MarketSells
  <2> QED BY <2>1
<1> QED BY <1>1, <1>2, <1>3 DEF Orders

\* A market buy never spends more than its funds: the truncated quotient,
\* times the price, is at most the funds.
LEMMA QuotientBound ==
  ASSUME NEW f \in Nat, NEW p \in Nat \ {0}, NEW n \in Nat, n <= f \div p
  PROVE  n * p <= f
<1>1. (f \div p) \in Nat /\ (f \div p) * p <= f
  OBVIOUS
<1>2. n * p <= (f \div p) * p
  BY <1>1
<1> QED BY <1>1, <1>2

\* Every id has a bit in the Bitmap.
LEMMA BitRange ==
  ASSUME NEW i \in OrderIds
  PROVE  Bit(i) \in 0 .. WindowCap - 1
<1>1. i \in Nat /\ WindowCap \in Nat \ {0}
  BY BookAssumption
<1>2. i % WindowCap \in 0 .. WindowCap - 1
  BY <1>1
<1> QED BY <1>2 DEF Bit

\* The book is empty at the start.
LEMMA BookInitInv == BookInit => BookInv
BY BookAssumption
   DEF BookInit, BookInv, BookTypeOK, DepthsOK, TakerOK, NotCrossed,
       OutNumbered, Sides, NoTaker

\* The invariant is about the book only.
LEMMA BookStutter == BookInv /\ UNCHANGED bookVars => BookInv'
BY DEF BookInv, bookVars, BookTypeOK, DepthsOK, TakerOK, NotCrossed, OutNumbered

\* Passing on the oldest log keeps the invariant.
LEMMA PopInv ==
  ASSUME BookInv, out # <<>>, out' = Tail(out),
         UNCHANGED <<depths, logSeq, tradeSeq, window, taker, left>>
  PROVE  BookInv'
<1> USE DEF BookInv
<1>1. out \in Seq(Log) /\ logSeq \in Nat
  BY DEF BookTypeOK
<1>2. out' \in Seq(Log) /\ Len(out') = Len(out) - 1
  BY <1>1
<1>3. OutNumbered'
  BY <1>1, <1>2 DEF OutNumbered
<1> QED BY <1>2, <1>3 DEF BookTypeOK, DepthsOK, TakerOK, NotCrossed

\* Taking an order from the channel starts the loop over the whole of the
\* opposite depth, or drops a duplicate.
LEMMA ReceiveInv ==
  ASSUME BookInv, NEW o \in Orders, Receive(o)
  PROVE  BookInv'
<1> USE DEF BookInv
<1>1. CASE Rejected(o.id)
  BY <1>1, BookStutter DEF Receive
<1>2. CASE ~ Rejected(o.id)
  <2>1. /\ window' = window \cup {Bit(o.id)}
        /\ taker' = TakerOf(o)
        /\ left' = depths[Opposite(o.side)]
        /\ UNCHANGED <<depths, logSeq, tradeSeq, out>>
    BY <1>2 DEF Receive, Put
  <2>2. o \in BookOrder /\ o.id \in OrderIds /\ Opposite(o.side) \in Sides
    BY OrdersType DEF BookOrder, Opposite, Sides
  <2>3. Bit(o.id) \in 0 .. WindowCap - 1
    BY <2>2, BitRange
  <2>4. BookTypeOK'
    BY <2>1, <2>2, <2>3, OrdersType DEF BookTypeOK
  <2>5. DepthsOK' /\ NotCrossed' /\ OutNumbered'
    BY <2>1 DEF DepthsOK, NotCrossed, OutNumbered
  <2>6. TakerOK'
    BY <2>1, OrdersType DEF TakerOK
  <2> QED BY <2>4, <2>5, <2>6
<1> QED BY <1>1, <1>2

\* What one iteration does to the sizes: the traded size is positive, at most
\* what the maker has and at most what the taker wants.
LEMMA TradeSize ==
  ASSUME BookTypeOK, DepthsOK, TakerOK, taker # NoTaker,
         NEW m \in left, Wanted(taker, m) # 0
  PROVE  LET size == Smaller(Wanted(taker, m), m.size)
         IN /\ m \in BookOrder /\ m.price \in Nat \ {0}
            /\ m \in depths[Opposite(taker.side)]
            /\ Opposite(taker.side) \in Sides
            /\ taker \in BookOrder
            /\ size \in Nat /\ size <= m.size
            /\ MarketBuy(taker) => size * m.price \in Nat /\ size * m.price <= taker.funds
            /\ ~ MarketBuy(taker) => size <= taker.size
            /\ size # m.size /\ ~ MarketBuy(taker) => size = taker.size
<1> DEFINE size == Smaller(Wanted(taker, m), m.size)
<1>1. /\ taker \in BookOrder /\ Opposite(taker.side) \in Sides
      /\ m \in BookOrder /\ m \in depths[Opposite(taker.side)]
  BY DEF BookTypeOK, TakerOK, Opposite, Sides, BookOrder
<1>2. m.price \in Nat \ {0}
  BY <1>1, BookAssumption DEF DepthsOK
<1>3. m.size \in Nat /\ taker.size \in Nat /\ taker.funds \in Nat
  BY <1>1 DEF BookOrder
<1>4. Wanted(taker, m) \in Nat
  BY <1>2, <1>3 DEF Wanted
<1>5. size \in Nat /\ size <= m.size /\ size <= Wanted(taker, m)
  BY <1>3, <1>4 DEF Smaller
<1>6. MarketBuy(taker) => size * m.price \in Nat /\ size * m.price <= taker.funds
  <2> SUFFICES ASSUME MarketBuy(taker)
               PROVE  size * m.price \in Nat /\ size * m.price <= taker.funds
    OBVIOUS
  <2>1. size <= taker.funds \div m.price
    BY <1>5 DEF Wanted
  <2>2. size * m.price <= taker.funds
    BY <2>1, <1>2, <1>3, <1>5, QuotientBound
  <2>3. size * m.price \in Nat
    BY <1>2, <1>5
  <2> QED BY <2>2, <2>3
<1>7. ~ MarketBuy(taker) => size <= taker.size
  BY <1>5 DEF Wanted
<1>8. size # m.size /\ ~ MarketBuy(taker) => size = taker.size
  BY <1>3, <1>4 DEF Smaller, Wanted
<1> QED BY <1>1, <1>2, <1>5, <1>6, <1>7, <1>8

\* The three kinds of log have the type of a log.
LEMMA LogTypes ==
  ASSUME NEW q \in Nat, NEW d \in Nat, NEW z \in Nat,
         NEW o \in BookOrder, NEW m \in BookOrder,
         NEW w \in {"filled", "cancelled"}
  PROVE  /\ OpenLog(q, o) \in Log
         /\ MatchLog(q, d, o, m, z) \in Log
         /\ DoneLog(q, o, z, w) \in Log
BY DEF OpenLog, MatchLog, DoneLog, Log, BookOrder

\* decrSize leaves BookOrders, and changes nothing but the size of one.
LEMMA DecreasedType ==
  ASSUME NEW S \in SUBSET BookOrder, NEW m \in S,
         NEW z \in Nat, z <= m.size
  PROVE  /\ Decreased(S, m, z) \in SUBSET BookOrder
         /\ \A x \in Decreased(S, m, z) :
              \E y \in S : x.side = y.side /\ x.type = y.type /\ x.price = y.price
         /\ S \ {m} \subseteq Decreased(S, m, z)
         /\ z = m.size => Decreased(S, m, z) = S \ {m}
<1>1. m \in BookOrder /\ m.size - z \in Nat
  BY DEF BookOrder
<1>2. [m EXCEPT !.size = @ - z] \in BookOrder
  BY <1>1 DEF BookOrder
<1>3. /\ [m EXCEPT !.size = @ - z].side = m.side
      /\ [m EXCEPT !.size = @ - z].type = m.type
      /\ [m EXCEPT !.size = @ - z].price = m.price
  BY <1>1 DEF BookOrder
<1> QED BY <1>2, <1>3 DEF Decreased

\* One iteration of the loop keeps the invariant: either the maker leaves the
\* book or the taker is used up.
LEMMA MatchInv ==
  ASSUME BookInv, MatchMaker
  PROVE  BookInv'
<1> USE DEF BookInv
<1>1. PICK m \in left :
        LET side == Opposite(taker.side)
            size == Smaller(Wanted(taker, m), m.size)
            full == size = m.size
        IN /\ Wanted(taker, m) # 0
           /\ taker' = IF MarketBuy(taker)
                       THEN [taker EXCEPT !.funds = @ - size * m.price]
                       ELSE [taker EXCEPT !.size = @ - size]
           /\ depths' = [depths EXCEPT ![side] = Decreased(@, m, size)]
           /\ left' = left \ {m}
           /\ tradeSeq' = tradeSeq + 1
           /\ logSeq' = logSeq + (IF full THEN 2 ELSE 1)
           /\ out' = out \o <<MatchLog(logSeq + 1, tradeSeq + 1, taker, m, size)>>
                         \o (IF full THEN <<DoneLog(logSeq + 2, m, 0, "filled")>>
                                     ELSE <<>>)
  BY DEF MatchMaker
<1>2. taker # NoTaker /\ window' = window
  BY DEF MatchMaker
<1> DEFINE side == Opposite(taker.side)
           size == Smaller(Wanted(taker, m), m.size)
<1>3. /\ m \in BookOrder /\ m.price \in Nat \ {0} /\ m \in depths[side]
      /\ side \in Sides /\ taker \in BookOrder
      /\ size \in Nat /\ size <= m.size
      /\ MarketBuy(taker) => size * m.price \in Nat /\ size * m.price <= taker.funds
      /\ ~ MarketBuy(taker) => size <= taker.size
      /\ size # m.size /\ ~ MarketBuy(taker) => size = taker.size
  BY <1>1, <1>2, TradeSize
<1> HIDE DEF size
<1>4. /\ taker' \in BookOrder /\ taker'.side = taker.side
      /\ taker'.type = taker.type /\ taker'.price = taker.price
      /\ ~ MarketBuy(taker) => taker'.size = taker.size - size
  <2>1. CASE MarketBuy(taker)
    <3>1. taker' = [taker EXCEPT !.funds = @ - size * m.price]
      BY <1>1, <2>1 DEF size
    <3>2. taker.funds - size * m.price \in Nat
      BY <1>3, <2>1 DEF BookOrder
    <3> QED BY <3>1, <3>2, <1>3, <2>1 DEF BookOrder
  <2>2. CASE ~ MarketBuy(taker)
    <3>1. taker' = [taker EXCEPT !.size = @ - size]
      BY <1>1, <2>2 DEF size
    <3>2. taker.size - size \in Nat
      BY <1>3, <2>2 DEF BookOrder
    <3> QED BY <3>1, <3>2, <1>3 DEF BookOrder
  <2> QED BY <2>1, <2>2
<1>5. /\ depths[side] \in SUBSET BookOrder
      /\ depths' = [depths EXCEPT ![side] = Decreased(@, m, size)]
      /\ left' = left \ {m}
  BY <1>1, <1>3 DEF BookTypeOK, size
<1>6. /\ Decreased(depths[side], m, size) \in SUBSET BookOrder
      /\ \A x \in Decreased(depths[side], m, size) : \E y \in depths[side] :
           x.side = y.side /\ x.type = y.type /\ x.price = y.price
      /\ depths[side] \ {m} \subseteq Decreased(depths[side], m, size)
      /\ size = m.size => Decreased(depths[side], m, size) = depths[side] \ {m}
  BY <1>3, <1>5, DecreasedType
<1>7. \A s \in Sides : \A x \in depths'[s] : \E y \in depths[s] :
        x.side = y.side /\ x.type = y.type /\ x.price = y.price
  BY <1>3, <1>5, <1>6 DEF BookTypeOK
<1>8. out' \in Seq(Log)
  <2>1. /\ logSeq \in Nat /\ tradeSeq \in Nat /\ out \in Seq(Log)
        /\ logSeq + 1 \in Nat /\ tradeSeq + 1 \in Nat /\ logSeq + 2 \in Nat
    BY DEF BookTypeOK
  <2>2. /\ MatchLog(logSeq + 1, tradeSeq + 1, taker, m, size) \in Log
        /\ DoneLog(logSeq + 2, m, 0, "filled") \in Log
    BY <2>1, <1>3, LogTypes
  <2>3. CASE size = m.size
    <3>1. out' = out \o <<MatchLog(logSeq + 1, tradeSeq + 1, taker, m, size)>>
                      \o <<DoneLog(logSeq + 2, m, 0, "filled")>>
      BY <1>1, <2>3 DEF size
    <3> QED BY <3>1, <2>1, <2>2
  <2>4. CASE size # m.size
    <3>1. out' = out \o <<MatchLog(logSeq + 1, tradeSeq + 1, taker, m, size)>> \o <<>>
      BY <1>1, <2>4 DEF size
    <3> QED BY <3>1, <2>1, <2>2
  <2> QED BY <2>3, <2>4
<1>9. BookTypeOK'
  <2>1. depths' \in [Sides -> SUBSET BookOrder]
    BY <1>3, <1>5, <1>6 DEF BookTypeOK
  <2>2. logSeq' \in Nat /\ tradeSeq' \in Nat /\ left' \subseteq BookOrder
    BY <1>1 DEF BookTypeOK
  <2> QED BY <2>1, <2>2, <1>2, <1>4, <1>8 DEF BookTypeOK
<1>10. DepthsOK' /\ NotCrossed'
  BY <1>7 DEF DepthsOK, NotCrossed, Sides
<1>11. TakerOK'
  <2>1. Opposite(taker'.side) = side
    BY <1>4
  <2>2. left' \subseteq depths'[side]
    BY <1>2, <1>3, <1>5, <1>6 DEF TakerOK, BookTypeOK
  <2>3. ASSUME taker'.type = "limit", taker'.size > 0
        PROVE  depths'[side] \subseteq left'
    <3>1. ~ MarketBuy(taker) /\ taker.type = "limit"
      BY <1>4, <2>3 DEF MarketBuy
    <3>2. size = m.size /\ taker.size > 0
      BY <1>3, <1>4, <2>3, <3>1 DEF BookOrder
    <3>3. depths[side] \subseteq left
      BY <1>2, <3>1, <3>2 DEF TakerOK
    <3> QED BY <1>3, <1>5, <1>6, <3>2, <3>3 DEF BookTypeOK
  <2>4. taker.type = "limit" => taker.price \in Prices
    BY <1>2 DEF TakerOK
  <2> QED BY <2>1, <2>2, <2>3, <2>4, <1>4 DEF TakerOK
<1>12. OutNumbered'
  <2>1. logSeq \in Nat /\ out \in Seq(Log)
    BY DEF BookTypeOK
  <2> DEFINE a == MatchLog(logSeq + 1, tradeSeq + 1, taker, m, size)
             b == DoneLog(logSeq + 2, m, 0, "filled")
  <2>2. a.seq = logSeq + 1 /\ b.seq = logSeq + 2
    BY DEF MatchLog, DoneLog
  <2> HIDE DEF a, b
  <2>3. CASE size = m.size
    <3>1. out' = out \o <<a>> \o <<b>> /\ logSeq' = logSeq + 2
      BY <1>1, <2>3 DEF size, a, b
    <3>2. /\ Len(out') = Len(out) + 2
          /\ \A i \in 1 .. Len(out) : out'[i] = out[i]
          /\ out'[Len(out) + 1] = a /\ out'[Len(out) + 2] = b
      BY <3>1, <2>1
    <3>3. ASSUME NEW i \in 1 .. Len(out') PROVE out'[i].seq = logSeq' - Len(out') + i
      <4>1. CASE i \in 1 .. Len(out)
        BY <4>1, <3>1, <3>2, <2>1 DEF OutNumbered
      <4>2. CASE i = Len(out) + 1
        BY <4>2, <3>1, <3>2, <2>1, <2>2
      <4>3. CASE i = Len(out) + 2
        BY <4>3, <3>1, <3>2, <2>1, <2>2
      <4> QED BY <3>2, <2>1, <4>1, <4>2, <4>3
    <3> QED BY <3>3 DEF OutNumbered
  <2>4. CASE size # m.size
    <3>1. out' = out \o <<a>> \o <<>> /\ logSeq' = logSeq + 1
      BY <1>1, <2>4 DEF size, a
    <3>2. /\ Len(out') = Len(out) + 1
          /\ \A i \in 1 .. Len(out) : out'[i] = out[i]
          /\ out'[Len(out) + 1] = a
      BY <3>1, <2>1
    <3>3. ASSUME NEW i \in 1 .. Len(out') PROVE out'[i].seq = logSeq' - Len(out') + i
      <4>1. CASE i \in 1 .. Len(out)
        BY <4>1, <3>1, <3>2, <2>1 DEF OutNumbered
      <4>2. CASE i = Len(out) + 1
        BY <4>2, <3>1, <3>2, <2>1, <2>2
      <4> QED BY <3>2, <2>1, <4>1, <4>2
    <3> QED BY <3>3 DEF OutNumbered
  <2> QED BY <2>3, <2>4
<1> QED BY <1>9, <1>10, <1>11, <1>12

\* When the loop ends with a limit taker that still has a size, no order of
\* the opposite depth crosses it: the makers it did not visit come after one
\* that does not cross.
LEMMA NothingCrosses ==
  ASSUME BookInv, taker # NoTaker, LoopEnds,
         taker.type = "limit", taker.size > 0,
         NEW x \in depths[Opposite(taker.side)]
  PROVE  ~ Crosses(taker, x)
<1> USE DEF BookInv
<1>1. x \in left
  BY DEF TakerOK
<1>2. PICK m \in left : /\ First(Opposite(taker.side), left, m)
                        /\ ~ Crosses(taker, m) \/ Wanted(taker, m) = 0
  BY <1>1 DEF LoopEnds
<1>3. ~ Crosses(taker, m)
  BY <1>2 DEF Wanted, MarketBuy, BookTypeOK, BookOrder
<1>4. /\ taker \in BookOrder /\ m \in BookOrder /\ x \in BookOrder
      /\ x = m \/ Before(Opposite(taker.side), m, x)
  BY <1>1, <1>2 DEF First, BookTypeOK
<1>5. taker.price \in Nat /\ m.price \in Nat /\ x.price \in Nat
  BY <1>4 DEF BookOrder
<1>6. CASE x = m
  BY <1>3, <1>6
<1>7. CASE taker.side = "buy" /\ Before("sell", m, x)
  <2>1. m.price <= x.price
    BY <1>5, <1>7 DEF Before
  <2> QED BY <2>1, <1>3, <1>5, <1>7 DEF Crosses
<1>8. CASE taker.side = "sell" /\ Before("buy", m, x)
  <2>1. x.price <= m.price
    BY <1>5, <1>8 DEF Before
  <2> QED BY <2>1, <1>3, <1>5, <1>8 DEF Crosses
<1>9. taker.side = "buy" \/ taker.side = "sell"
  BY <1>4 DEF BookOrder, Sides
<1> QED BY <1>4, <1>6, <1>7, <1>8, <1>9 DEF Opposite

\* The tail of ApplyOrder keeps the invariant.
LEMMA FinishInv ==
  ASSUME BookInv, FinishTaker
  PROVE  BookInv'
<1> USE DEF BookInv
<1>1. /\ taker # NoTaker /\ LoopEnds
      /\ logSeq' = logSeq + 1 /\ taker' = NoTaker /\ left' = {}
      /\ UNCHANGED <<tradeSeq, window>>
  BY DEF FinishTaker
<1>2. /\ taker \in BookOrder /\ taker.side \in Sides /\ taker.size \in Nat
      /\ taker.type = "limit" => taker.price \in Prices
  BY <1>1 DEF BookTypeOK, TakerOK, BookOrder
<1>3. /\ logSeq \in Nat /\ logSeq + 1 \in Nat /\ out \in Seq(Log)
      /\ depths \in [Sides -> SUBSET BookOrder] /\ tradeSeq \in Nat
      /\ window \subseteq 0 .. WindowCap - 1
  BY DEF BookTypeOK
<1>4. TakerOK' /\ OutNumbered'
  <2>1. PICK log : out' = Append(out, log) /\ log.seq = logSeq + 1
    <3>1. ASSUME NEW q, NEW o, NEW z, NEW w
          PROVE  OpenLog(q, o).seq = q /\ DoneLog(q, o, z, w).seq = q
      BY DEF OpenLog, DoneLog
    <3> QED BY <3>1 DEF FinishTaker
  <2>2. /\ Len(out') = Len(out) + 1 /\ out'[Len(out) + 1] = log
        /\ \A i \in 1 .. Len(out) : out'[i] = out[i]
    BY <1>3, <2>1
  <2>3. ASSUME NEW i \in 1 .. Len(out') PROVE out'[i].seq = logSeq' - Len(out') + i
    <3>1. CASE i \in 1 .. Len(out)
      BY <3>1, <1>1, <1>3, <2>2 DEF OutNumbered
    <3>2. CASE i = Len(out) + 1
      BY <3>2, <1>1, <1>3, <2>1, <2>2
    <3> QED BY <1>3, <2>2, <3>1, <3>2
  <2> QED BY <1>1, <2>3 DEF TakerOK, OutNumbered
<1>5. CASE /\ taker.type = "limit" /\ taker.size > 0
           /\ depths' = [depths EXCEPT ![taker.side] = Added(@, taker)]
           /\ out' = Append(out, OpenLog(logSeq + 1, taker))
  <2>1. Added(depths[taker.side], taker) \in SUBSET BookOrder
    BY <1>2, <1>3 DEF Added
  <2>2. depths' \in [Sides -> SUBSET BookOrder]
    BY <1>2, <1>3, <1>5, <2>1
  <2>3. OpenLog(logSeq + 1, taker) \in Log
    BY <1>2, <1>3, LogTypes
  <2>4. BookTypeOK'
    BY <1>1, <1>3, <1>5, <2>2, <2>3 DEF BookTypeOK
  <2>5. \A s \in Sides : \A x \in depths'[s] :
          x \in depths[s] \/ (s = taker.side /\ x = taker)
    BY <1>2, <1>3, <1>5 DEF Added
  <2>6. DepthsOK'
    BY <2>5, <1>2, <1>5 DEF DepthsOK
  <2>7. \A x \in depths[Opposite(taker.side)] : ~ Crosses(taker, x)
    BY <1>1, <1>5, NothingCrosses
  <2>8. NotCrossed'
    <3> SUFFICES ASSUME NEW b \in depths'["buy"], NEW a \in depths'["sell"]
                 PROVE  b.price < a.price
      BY DEF NotCrossed
    <3>0. b \in BookOrder /\ a \in BookOrder /\ b.price \in Nat /\ a.price \in Nat
      BY <2>2 DEF BookOrder, Sides
    <3>1. CASE b \in depths["buy"] /\ a \in depths["sell"]
      BY <3>1 DEF NotCrossed
    <3>2. CASE b = taker /\ taker.side = "buy" /\ a \in depths["sell"]
      BY <2>7, <3>0, <3>2 DEF Crosses, Opposite
    <3>3. CASE a = taker /\ taker.side = "sell" /\ b \in depths["buy"]
      BY <2>7, <3>0, <3>3 DEF Crosses, Opposite
    <3> QED BY <2>5, <3>1, <3>2, <3>3 DEF Sides
  <2> QED BY <2>4, <2>6, <2>8, <1>4
<1>6. CASE /\ taker.type = "limit" /\ taker.size = 0
           /\ out' = Append(out, DoneLog(logSeq + 1, taker, 0, "filled"))
           /\ UNCHANGED depths
  <2>1. DoneLog(logSeq + 1, taker, 0, "filled") \in Log
    BY <1>2, <1>3, LogTypes
  <2>2. BookTypeOK'
    BY <1>1, <1>3, <1>6, <2>1 DEF BookTypeOK
  <2> QED BY <2>2, <1>4, <1>6 DEF DepthsOK, NotCrossed
<1>7. CASE /\ taker.type = "market"
           /\ out' = Append(out,
                DoneLog(logSeq + 1, [taker EXCEPT !.price = 0], 0,
                        IF (IF taker.side = "buy" THEN taker.funds
                                                  ELSE taker.size) > 0
                        THEN "cancelled" ELSE "filled"))
           /\ UNCHANGED depths
  <2>1. [taker EXCEPT !.price = 0] \in BookOrder
    BY <1>2 DEF BookOrder
  <2>2. \A w \in {"filled", "cancelled"} :
          DoneLog(logSeq + 1, [taker EXCEPT !.price = 0], 0, w) \in Log
    BY <2>1, <1>3, LogTypes
  <2>3. out' \in Seq(Log)
    BY <2>2, <1>3, <1>7
  <2>4. BookTypeOK'
    BY <1>1, <1>3, <1>7, <2>3 DEF BookTypeOK
  <2> QED BY <2>4, <1>4, <1>7 DEF DepthsOK, NotCrossed
<1> QED BY <1>5, <1>6, <1>7 DEF FinishTaker

\* A cancel removes at most one order.
LEMMA CancelInv ==
  ASSUME BookInv, NEW o \in Orders, CancelOrder(o)
  PROVE  BookInv'
<1> USE DEF BookInv
<1>1. /\ window' = window \cup {Bit(o.id)}
      /\ UNCHANGED <<tradeSeq, taker, left>> /\ taker = NoTaker /\ out = <<>>
  BY DEF CancelOrder, Put, Idle
<1>2. o \in BookOrder /\ o.id \in OrderIds /\ o.side \in Sides
  BY OrdersType DEF BookOrder
<1>3. Bit(o.id) \in 0 .. WindowCap - 1
  BY <1>2, BitRange
<1>4. TakerOK'
  BY <1>1 DEF TakerOK
<1>5. CASE UNCHANGED <<depths, logSeq, out>>
  <2>1. BookTypeOK'
    BY <1>1, <1>3, <1>5 DEF BookTypeOK
  <2> QED BY <2>1, <1>4, <1>5 DEF DepthsOK, NotCrossed, OutNumbered
<1>6. CASE \E x \in depths[o.side] :
             /\ x.id = o.id
             /\ depths' = [depths EXCEPT ![o.side] = Decreased(@, x, x.size)]
             /\ logSeq' = logSeq + 1
             /\ out' = <<DoneLog(logSeq + 1, x, x.size, "cancelled")>>
  <2>1. PICK x \in depths[o.side] :
             /\ depths' = [depths EXCEPT ![o.side] = Decreased(@, x, x.size)]
             /\ logSeq' = logSeq + 1
             /\ out' = <<DoneLog(logSeq + 1, x, x.size, "cancelled")>>
    BY <1>6
  <2>2. /\ x \in BookOrder /\ x.size \in Nat /\ logSeq + 1 \in Nat
        /\ depths \in [Sides -> SUBSET BookOrder]
        /\ depths[o.side] \in SUBSET BookOrder /\ tradeSeq \in Nat
        /\ window \subseteq 0 .. WindowCap - 1
    BY <1>2 DEF BookTypeOK, BookOrder
  <2>3. Decreased(depths[o.side], x, x.size) = depths[o.side] \ {x}
    BY <2>2, DecreasedType
  <2>4. DoneLog(logSeq + 1, x, x.size, "cancelled") \in Log
    BY <2>2, LogTypes
  <2>5. depths' = [depths EXCEPT ![o.side] = depths[o.side] \ {x}]
    BY <2>1, <2>3
  <2>6. BookTypeOK'
    <3>1. depths' \in [Sides -> SUBSET BookOrder]
      BY <2>2, <2>5
    <3>2. out' \in Seq(Log)
      BY <2>1, <2>4
    <3> QED BY <1>1, <1>3, <2>1, <2>2, <3>1, <3>2 DEF BookTypeOK
  <2>7. \A s \in Sides : depths'[s] \subseteq depths[s]
    BY <2>2, <2>5
  <2>8. DepthsOK' /\ NotCrossed'
    BY <2>7 DEF DepthsOK, NotCrossed, Sides
  <2>9. OutNumbered'
    BY <2>1, <2>2 DEF OutNumbered, DoneLog
  <2> QED BY <2>6, <2>8, <2>9, <1>4
<1> QED BY <1>5, <1>6 DEF CancelOrder

-----------------------------------------------------------------------------
(* Recursive functions, by induction with sets. *)

\* Induction up to n.
LEMMA Upwards ==
  ASSUME NEW n \in Nat, NEW T, 0 \in T, \A k \in 0 .. n : k \in T /\ k < n => k + 1 \in T
  PROVE  \A k \in 0 .. n : k \in T
<1> DEFINE R == OpToRel(<, Nat)
           U == {k \in 0 .. n : k \notin T}
<1> SUFFICES ASSUME U # {} PROVE FALSE
  OBVIOUS
<1>1. IsWellFoundedOn(R, Nat)
  BY NatLessThanWellFounded
<1>2. U \subseteq Nat
  OBVIOUS
<1>3. \A x, y \in Nat : x < y => <<x, y>> \in R
  BY DEF OpToRel
<1> HIDE DEF R
<1>4. PICK x \in U : \A y \in U : ~(<<y, x>> \in R)
  <2> HIDE DEF U
  <2> QED
    BY <1>1, <1>2, WFMin
<1>5. \A y \in U : ~(y < x)
  BY <1>2, <1>3, <1>4
<1>6. x # 0 /\ x - 1 \in 0 .. n /\ x - 1 < n
  BY <1>4
<1>7. x - 1 \notin U
  BY <1>5, <1>6
<1> QED
  BY <1>4, <1>6, <1>7

\* f goes from a by the steps of G.
Iterates(f, n, S, a, G) ==
  f \in [0 .. n -> S] /\ f[0] = a /\ \A k \in 1 .. n : f[k] = G[k][f[k - 1]]

LEMMA Recursion ==
  ASSUME NEW n \in Nat, NEW S, NEW a \in S, NEW G \in [1 .. n -> [S -> S]]
  PROVE  \E f : Iterates(f, n, S, a, G)
<1> DEFINE Ok(k) == \E f \in [0 .. k -> S] : f[0] = a /\ \A j \in 1 .. k : f[j] = G[j][f[j - 1]]
           T == {k \in 0 .. n : Ok(k)}
<1>1. 0 \in T
  <2>1. PICK f : f = [k \in 0 .. 0 |-> a]
    OBVIOUS
  <2>2. f \in [0 .. 0 -> S] /\ f[0] = a /\ \A j \in 1 .. 0 : f[j] = G[j][f[j - 1]]
    BY <2>1
  <2>3. Ok(0)
    BY <2>2
  <2> QED
    BY <2>3
<1>2. ASSUME NEW k \in 0 .. n, k \in T, k < n PROVE k + 1 \in T
  <2>1. PICK f \in [0 .. k -> S] : f[0] = a /\ \A j \in 1 .. k : f[j] = G[j][f[j - 1]]
    BY <1>2
  <2>2. PICK g : g = [j \in 0 .. (k + 1) |-> IF j <= k THEN f[j] ELSE G[k + 1][f[k]]]
    OBVIOUS
  <2>3. G[k + 1][f[k]] \in S
    <3>1. f[k] \in S /\ k + 1 \in 1 .. n
      BY <2>1, <1>2
    <3> QED
      BY <3>1
  <2>4. g \in [0 .. (k + 1) -> S]
    BY <2>1, <2>2, <2>3
  <2>5. g[0] = a
    BY <2>1, <2>2
  <2>6. \A j \in 1 .. (k + 1) : g[j] = G[j][g[j - 1]]
    <3> SUFFICES ASSUME NEW j \in 1 .. (k + 1) PROVE g[j] = G[j][g[j - 1]]
      OBVIOUS
    <3>1. CASE j <= k
      BY <2>1, <2>2, <3>1
    <3>2. CASE j = k + 1
      BY <2>1, <2>2, <3>2
    <3> QED
      BY <3>1, <3>2
  <2>7. Ok(k + 1)
    BY <2>4, <2>5, <2>6
  <2>8. k + 1 \in 0 .. n
    BY <1>2
  <2> HIDE DEF Ok
  <2> QED
    BY <2>7, <2>8
<1>3. \A k \in 0 .. n : k \in T
  <2> HIDE DEF T
  <2> QED
    BY <1>1, <1>2, Upwards
<1> QED
  BY <1>3 DEF Iterates

\* The function f has the partial sums of s.
Adds(f, n, s) ==
  /\ f \in [0 .. n -> Int] /\ f[0] = 0
  /\ \A k \in 1 .. n : f[k] = f[k - 1] + s[k]

LEMMA Addition ==
  ASSUME NEW n \in Nat, NEW s \in [1 .. n -> Int]
  PROVE  \E f : Adds(f, n, s)
<1>1. PICK G : G = [k \in 1 .. n |-> [x \in Int |-> x + s[k]]]
  OBVIOUS
<1>2. G \in [1 .. n -> [Int -> Int]] /\ \A k \in 1 .. n, x \in Int : G[k][x] = x + s[k]
  BY <1>1
<1>3. PICK f \in [0 .. n -> Int] : f[0] = 0 /\ \A k \in 1 .. n : f[k] = G[k][f[k - 1]]
  <2>1. 0 \in Int
    OBVIOUS
  <2>2. \E f : Iterates(f, n, Int, 0, G)
    BY <1>2, <2>1, Recursion
  <2> QED
    BY <2>2 DEF Iterates
<1>4. ASSUME NEW k \in 1 .. n PROVE f[k] = f[k - 1] + s[k]
  <2>1. f[k - 1] \in Int
    BY <1>3
  <2> QED
    BY <1>2, <1>3, <2>1
<1> QED
  BY <1>3, <1>4 DEF Adds

LEMMA AddsEqually ==
  ASSUME NEW n \in Nat, NEW s, NEW f, NEW g, Adds(f, n, s),
         g[0] = 0, \A k \in 1 .. n : g[k] = g[k - 1] + s[k]
  PROVE  \A k \in 0 .. n : f[k] = g[k]
<1> DEFINE T == {k \in 0 .. n : f[k] = g[k]}
<1>1. 0 \in T
  BY DEF Adds
<1>2. ASSUME NEW k \in 0 .. n, k \in T, k < n PROVE k + 1 \in T
  <2>1. k + 1 \in 1 .. n /\ (k + 1) - 1 = k
    BY <1>2
  <2>2. f[k + 1] = f[k] + s[k + 1] /\ g[k + 1] = g[k] + s[k + 1]
    BY <2>1 DEF Adds
  <2> QED
    BY <1>2, <2>1, <2>2
<1>3. \A k \in 0 .. n : k \in T
  <2> HIDE DEF T
  <2> QED
    BY <1>1, <1>2, Upwards
<1> QED
  BY <1>3

LEMMA ListIsSeq ==
  ASSUME NEW S, NEW n \in Nat, NEW s \in [1 .. n -> S]
  PROVE  s \in Seq(S) /\ Len(s) = n
  OBVIOUS

\* The sum of a sequence.
Amount(s) == (CHOOSE f : Adds(f, Len(s), s))[Len(s)]

LEMMA AmountIs ==
  ASSUME NEW s \in Seq(Int)
  PROVE  \E f : Adds(f, Len(s), s) /\ Amount(s) = f[Len(s)] /\ Amount(s) \in Int
<1>1. s \in [1 .. Len(s) -> Int] /\ Len(s) \in Nat
  OBVIOUS
<1>2. \E f : Adds(f, Len(s), s)
  BY <1>1, Addition
<1>3. PICK f : f = CHOOSE g : Adds(g, Len(s), s)
  OBVIOUS
<1>4. Adds(f, Len(s), s)
  BY <1>2, <1>3
<1>5. Amount(s) = f[Len(s)]
  BY <1>3 DEF Amount
<1>6. f[Len(s)] \in Int
  BY <1>1, <1>4 DEF Adds
<1> QED
  BY <1>4, <1>5, <1>6

LEMMA AmountEqual ==
  ASSUME NEW s \in Seq(Int), NEW f, Adds(f, Len(s), s)
  PROVE  Amount(s) = f[Len(s)]
<1>1. PICK g : Adds(g, Len(s), s) /\ Amount(s) = g[Len(s)]
  BY AmountIs
<1>2. Len(s) \in Nat /\ Len(s) \in 0 .. Len(s)
  OBVIOUS
<1>3. g[0] = 0 /\ \A k \in 1 .. Len(s) : g[k] = g[k - 1] + s[k]
  BY <1>1 DEF Adds
<1>4. \A k \in 0 .. Len(s) : f[k] = g[k]
  BY <1>2, <1>3, AddsEqually
<1> QED
  BY <1>1, <1>2, <1>4

LEMMA AmountEmpty == Amount(<<>>) = 0
<1>1. PICK s \in Seq(Int) : s = <<>>
  <2>1. <<>> \in Seq(Int)
    OBVIOUS
  <2> QED
    BY <2>1
<1>2. Len(s) = 0
  BY <1>1
<1>3. PICK f : Adds(f, Len(s), s) /\ Amount(s) = f[Len(s)]
  BY AmountIs
<1>4. f[0] = 0
  BY <1>3 DEF Adds
<1> QED
  BY <1>1, <1>2, <1>3, <1>4

LEMMA AmountAppend ==
  ASSUME NEW s \in Seq(Int), NEW x \in Int
  PROVE  Amount(Append(s, x)) = Amount(s) + x
<1>1. PICK t \in Seq(Int) : t = Append(s, x)
  <2>1. Append(s, x) \in Seq(Int)
    OBVIOUS
  <2> QED
    BY <2>1
<1>2. PICK n \in Nat : n = Len(s)
  OBVIOUS
<1>3. Len(t) = n + 1 /\ t[n + 1] = x /\ \A k \in 1 .. n : t[k] = s[k]
  BY <1>1, <1>2
<1>4. PICK g : Adds(g, Len(t), t) /\ Amount(t) = g[Len(t)]
  BY AmountIs
<1>5. g \in [0 .. n + 1 -> Int] /\ g[0] = 0 /\ \A k \in 1 .. n + 1 : g[k] = g[k - 1] + t[k]
  BY <1>3, <1>4 DEF Adds
<1>6. PICK h : h = [k \in 0 .. n |-> g[k]]
  OBVIOUS
<1>7. h \in [0 .. n -> Int] /\ \A k \in 0 .. n : h[k] = g[k]
  BY <1>5, <1>6
<1>8. ASSUME NEW k \in 1 .. n PROVE h[k] = h[k - 1] + s[k]
  <2>1. k \in 1 .. n + 1 /\ k - 1 \in 0 .. n /\ k \in 0 .. n
    OBVIOUS
  <2> QED
    BY <1>3, <1>5, <1>7, <2>1
<1>9. h[0] = 0
  BY <1>5, <1>7
<1>10. Adds(h, n, s)
  BY <1>7, <1>8, <1>9 DEF Adds
<1>11. Amount(s) = g[n]
  BY <1>2, <1>7, <1>10, AmountEqual
<1>12. g[n + 1] = g[n] + x
  <2>1. n + 1 \in 1 .. n + 1 /\ (n + 1) - 1 = n
    OBVIOUS
  <2> QED
    BY <1>3, <1>5, <2>1
<1> QED
  BY <1>1, <1>3, <1>4, <1>11, <1>12

LEMMA AmountTail ==
  ASSUME NEW s \in Seq(Int), s # <<>>
  PROVE  Amount(s) = s[1] + Amount(Tail(s))
<1>1. PICK n \in Nat : Len(s) = n + 1
  <2>1. Len(s) \in Nat /\ Len(s) # 0
    OBVIOUS
  <2>2. Len(s) - 1 \in Nat /\ Len(s) = (Len(s) - 1) + 1
    BY <2>1
  <2> QED
    BY <2>2
<1>2. PICK t \in Seq(Int) : t = Tail(s)
  <2>1. Tail(s) \in Seq(Int)
    OBVIOUS
  <2> QED
    BY <2>1
<1>3. Len(t) = n /\ \A k \in 1 .. n : t[k] = s[k + 1]
  BY <1>1, <1>2
<1>4. PICK a \in Int : a = s[1]
  BY <1>1
<1>5. PICK g : Adds(g, Len(s), s) /\ Amount(s) = g[Len(s)]
  BY AmountIs
<1>6. g \in [0 .. n + 1 -> Int] /\ g[0] = 0 /\ \A k \in 1 .. n + 1 : g[k] = g[k - 1] + s[k]
  BY <1>1, <1>5 DEF Adds
<1>7. PICK h : h = [k \in 0 .. n |-> g[k + 1] - a]
  OBVIOUS
<1>8. \A k \in 0 .. n : k + 1 \in 0 .. n + 1 /\ g[k + 1] \in Int
  BY <1>6
<1>9. h \in [0 .. n -> Int] /\ \A k \in 0 .. n : h[k] = g[k + 1] - a
  BY <1>7, <1>8
<1>10. ASSUME NEW k \in 1 .. n PROVE h[k] = h[k - 1] + t[k]
  <2>1. k \in 0 .. n /\ k - 1 \in 0 .. n /\ k + 1 \in 1 .. n + 1 /\ (k + 1) - 1 = k /\ (k - 1) + 1 = k
    OBVIOUS
  <2>2. h[k] = g[k + 1] - a /\ h[k - 1] = g[k] - a
    BY <1>9, <2>1
  <2>3. g[k + 1] = g[k] + s[k + 1]
    BY <1>6, <2>1
  <2>5. g[k] \in Int
    BY <1>8, <2>1
  <2>4. s[k + 1] \in Int /\ t[k] = s[k + 1]
    BY <1>1, <1>3, <2>1
  <2> QED
    BY <2>2, <2>3, <2>4, <2>5
<1>11. h[0] = 0
  <2>1. 0 \in 0 .. n /\ 1 \in 1 .. n + 1
    OBVIOUS
  <2>2. g[1] = g[1 - 1] + s[1]
    BY <1>6, <2>1
  <2>3. g[1] = a
    BY <1>4, <1>6, <2>2
  <2>4. h[0] = g[0 + 1] - a
    BY <1>9, <2>1
  <2> QED
    BY <2>3, <2>4
<1>12. Adds(h, n, t)
  BY <1>9, <1>10, <1>11 DEF Adds
<1>13. Amount(t) = h[n]
  BY <1>3, <1>12, AmountEqual
<1>14. h[n] = g[n + 1] - a /\ g[n + 1] \in Int
  BY <1>8, <1>9
<1> QED
  BY <1>1, <1>2, <1>4, <1>5, <1>13, <1>14

LEMMA AmountNat ==
  ASSUME NEW s \in Seq(Nat)
  PROVE  Amount(s) \in Nat
<1>1. s \in Seq(Int) /\ Len(s) \in Nat /\ \A k \in 1 .. Len(s) : s[k] \in Nat
  OBVIOUS
<1>2. PICK f : Adds(f, Len(s), s) /\ Amount(s) = f[Len(s)]
  BY <1>1, AmountIs
<1> DEFINE T == {k \in 0 .. Len(s) : f[k] \in Nat}
<1>3. 0 \in T
  BY <1>1, <1>2 DEF Adds
<1>4. ASSUME NEW k \in 0 .. Len(s), k \in T, k < Len(s) PROVE k + 1 \in T
  <2>1. k + 1 \in 1 .. Len(s) /\ (k + 1) - 1 = k
    BY <1>1, <1>4
  <2>2. f[k + 1] = f[k] + s[k + 1] /\ s[k + 1] \in Nat
    BY <1>1, <1>2, <2>1 DEF Adds
  <2> QED
    BY <1>4, <2>1, <2>2
<1>5. \A k \in 0 .. Len(s) : k \in T
  <2> HIDE DEF T
  <2> QED
    BY <1>1, <1>3, <1>4, Upwards
<1> QED
  BY <1>1, <1>2, <1>5

\* The sum of what G says of the logs.
Tally(G, logs) == Amount([k \in DOMAIN logs |-> G[logs[k]]])

LEMMA TallyType ==
  ASSUME NEW G \in [Log -> Nat], NEW logs \in Seq(Log)
  PROVE  Tally(G, logs) \in Nat
<1>1. PICK s : s = [k \in DOMAIN logs |-> G[logs[k]]]
  OBVIOUS
<1>2. DOMAIN logs = 1 .. Len(logs) /\ Len(logs) \in Nat /\ \A k \in 1 .. Len(logs) : logs[k] \in Log
  OBVIOUS
<1>3. s \in [1 .. Len(logs) -> Nat]
  BY <1>1, <1>2
<1>4. s \in Seq(Nat)
  BY <1>2, <1>3, ListIsSeq
<1> QED
  BY <1>1, <1>4, AmountNat DEF Tally

LEMMA TallyEmpty ==
  ASSUME NEW G
  PROVE  Tally(G, <<>>) = 0
<1>1. [k \in DOMAIN <<>> |-> G[<<>>[k]]] = <<>>
  OBVIOUS
<1> QED
  BY <1>1, AmountEmpty DEF Tally

LEMMA TallyAppend ==
  ASSUME NEW G \in [Log -> Nat], NEW logs \in Seq(Log), NEW log \in Log
  PROVE  Tally(G, Append(logs, log)) = Tally(G, logs) + G[log]
<1>1. PICK s : s = [k \in DOMAIN logs |-> G[logs[k]]]
  OBVIOUS
<1>2. PICK more \in Seq(Log) : more = Append(logs, log)
  <2>1. Append(logs, log) \in Seq(Log)
    OBVIOUS
  <2> QED
    BY <2>1
<1>3. PICK t : t = [k \in DOMAIN more |-> G[more[k]]]
  OBVIOUS
<1>4. PICK n \in Nat : n = Len(logs)
  OBVIOUS
<1>5. /\ DOMAIN logs = 1 .. n /\ DOMAIN more = 1 .. n + 1
      /\ \A k \in 1 .. n : logs[k] \in Log /\ more[k] = logs[k]
      /\ more[n + 1] = log
  BY <1>2, <1>4
<1>6. s \in [1 .. n -> Int]
  BY <1>1, <1>5
<1>7. s \in Seq(Int) /\ Len(s) = n
  BY <1>6, ListIsSeq
<1>8. t \in [1 .. n + 1 -> Int] /\ t[n + 1] = G[log] /\ \A k \in 1 .. n : t[k] = s[k]
  BY <1>1, <1>3, <1>5
<1>9. t \in Seq(Int) /\ Len(t) = n + 1
  BY <1>8, ListIsSeq
<1>10. G[log] \in Int
  OBVIOUS
<1>11. t = Append(s, G[log])
  BY <1>7, <1>8, <1>9, <1>10
<1>12. Amount(t) = Amount(s) + G[log]
  BY <1>7, <1>10, <1>11, AmountAppend
<1> QED
  BY <1>1, <1>2, <1>3, <1>12 DEF Tally

LEMMA TallyTail ==
  ASSUME NEW G \in [Log -> Nat], NEW logs \in Seq(Log), logs # <<>>
  PROVE  Tally(G, logs) = G[Head(logs)] + Tally(G, Tail(logs))
<1>1. PICK s : s = [k \in DOMAIN logs |-> G[logs[k]]]
  OBVIOUS
<1>2. PICK rest \in Seq(Log) : rest = Tail(logs)
  <2>1. Tail(logs) \in Seq(Log)
    OBVIOUS
  <2> QED
    BY <2>1
<1>3. PICK t : t = [k \in DOMAIN rest |-> G[rest[k]]]
  OBVIOUS
<1>4. PICK n \in Nat : Len(logs) = n + 1
  <2>1. Len(logs) \in Nat /\ Len(logs) # 0
    OBVIOUS
  <2>2. Len(logs) - 1 \in Nat /\ Len(logs) = (Len(logs) - 1) + 1
    BY <2>1
  <2> QED
    BY <2>2
<1>5. /\ DOMAIN logs = 1 .. n + 1 /\ DOMAIN rest = 1 .. n
      /\ \A k \in 1 .. n + 1 : logs[k] \in Log
      /\ \A k \in 1 .. n : rest[k] = logs[k + 1]
      /\ Head(logs) = logs[1]
  BY <1>2, <1>4
<1>6. s \in [1 .. n + 1 -> Int] /\ s[1] = G[Head(logs)]
  BY <1>1, <1>5
<1>7. s \in Seq(Int) /\ Len(s) = n + 1
  BY <1>6, ListIsSeq
<1>8. t \in [1 .. n -> Int] /\ \A k \in 1 .. n : t[k] = s[k + 1]
  BY <1>1, <1>3, <1>5
<1>9. t \in Seq(Int) /\ Len(t) = n
  BY <1>8, ListIsSeq
<1>10. s # <<>> /\ Tail(s) \in Seq(Int) /\ Len(Tail(s)) = n /\ \A k \in 1 .. n : Tail(s)[k] = s[k + 1]
  BY <1>7
<1>11. t = Tail(s)
  <2>1. PICK u \in Seq(Int) : u = Tail(s)
    BY <1>10
  <2>2. Len(u) = n /\ \A k \in 1 .. n : u[k] = t[k]
    BY <1>8, <1>10, <2>1
  <2>3. u \in [1 .. n -> Int]
    BY <2>2
  <2>4. t = u
    BY <1>8, <2>2, <2>3
  <2> QED
    BY <2>1, <2>4
<1>12. Amount(s) = s[1] + Amount(t)
  BY <1>7, <1>10, <1>11, AmountTail
<1> QED
  BY <1>1, <1>2, <1>3, <1>6, <1>12 DEF Tally

-----------------------------------------------------------------------------
(* Sums over finite sets: SumFunctionOnSet of the community modules. *)

Some(T) == CHOOSE x \in T : TRUE

\* g adds up f over every subset of S, in the order in which Some takes them.
SumsUp(g, f, S) ==
  \A T \in SUBSET S : g[T] = IF T = {} THEN 0 ELSE f[Some(T)] + g[T \ {Some(T)}]

LEMMA SomeOf ==
  ASSUME NEW T, T # {}
  PROVE  Some(T) \in T
  BY DEF Some

\* A smaller finite set.
LEMMA OneLess ==
  ASSUME NEW S, IsFiniteSet(S), NEW T \in SUBSET S, NEW x \in T, NEW k \in Nat,
         Cardinality(T) <= k + 1
  PROVE  T \ {x} \in SUBSET S /\ Cardinality(T \ {x}) \in Nat /\ Cardinality(T \ {x}) <= k
<1>1. IsFiniteSet(T)
  BY FS_Subset
<1>2. Cardinality(T) \in Nat
  BY <1>1, FS_CardinalityType
<1>3. IsFiniteSet(T \ {x}) /\ Cardinality(T \ {x}) = Cardinality(T) - 1
  BY <1>1, FS_RemoveElement
<1>4. Cardinality(T \ {x}) \in Nat
  BY <1>3, FS_CardinalityType
<1> QED
  BY <1>2, <1>3, <1>4

\* What is true of the empty subset, and of one with one element more, is true
\* of all.
LEMMA BySize ==
  ASSUME NEW S, IsFiniteSet(S), NEW Q, {} \in Q,
         \A T \in SUBSET S : T # {} /\ (\A x \in T : T \ {x} \in Q) => T \in Q
  PROVE  \A T \in SUBSET S : T \in Q
<1>1. PICK n \in Nat : n = Cardinality(S)
  BY FS_CardinalityType
<1> DEFINE K == {k \in 0 .. n : \A T \in SUBSET S : Cardinality(T) <= k => T \in Q}
<1>2. \A T \in SUBSET S : IsFiniteSet(T) /\ Cardinality(T) \in Nat /\ Cardinality(T) <= n
  BY <1>1, FS_Subset, FS_CardinalityType
<1>3. 0 \in K
  <2>1. ASSUME NEW T \in SUBSET S, Cardinality(T) <= 0 PROVE T = {}
    BY <1>2, <2>1, FS_EmptySet
  <2> QED
    BY <2>1
<1>4. ASSUME NEW k \in 0 .. n, k \in K, k < n PROVE k + 1 \in K
  <2>1. ASSUME NEW T \in SUBSET S, Cardinality(T) <= k + 1 PROVE T \in Q
    <3>1. CASE T = {}
      BY <3>1
    <3>2. CASE T # {}
      <4>1. ASSUME NEW x \in T PROVE T \ {x} \in Q
        <5>1. T \ {x} \in SUBSET S /\ Cardinality(T \ {x}) <= k
          BY <2>1, OneLess
        <5> QED
          BY <1>4, <5>1
      <4> QED
        BY <3>2, <4>1
    <3> QED
      BY <3>1, <3>2
  <2> QED
    BY <1>4, <2>1
<1>5. \A k \in 0 .. n : k \in K
  <2> HIDE DEF K
  <2> QED
    BY <1>3, <1>4, Upwards
<1> QED
  BY <1>2, <1>5

LEMMA SumExists ==
  ASSUME NEW S, IsFiniteSet(S), NEW f, \A x \in S : f[x] \in Int
  PROVE  \E g \in [SUBSET S -> Int] : SumsUp(g, f, S)
<1> DEFINE V == [SUBSET S -> Int]
           E(v) == [T \in SUBSET S |-> IF T = {} THEN 0 ELSE f[Some(T)] + v[T \ {Some(T)}]]
<1>1. PICK n \in Nat : n = Cardinality(S)
  BY FS_CardinalityType
<1>2. ASSUME NEW v \in V PROVE E(v) \in V
  <2>1. ASSUME NEW T \in SUBSET S, T # {} PROVE f[Some(T)] + v[T \ {Some(T)}] \in Int
    <3>1. Some(T) \in T
      BY <2>1, SomeOf
    <3>2. f[Some(T)] \in Int /\ v[T \ {Some(T)}] \in Int
      BY <3>1
    <3> QED
      BY <3>2
  <2> QED
    BY <2>1
<1>3. PICK a \in V : a = [T \in SUBSET S |-> 0]
  <2>1. [T \in SUBSET S |-> 0] \in V
    OBVIOUS
  <2> QED
    BY <2>1
<1>4. PICK G : G = [k \in 1 .. n |-> [v \in V |-> E(v)]]
  OBVIOUS
<1>5. G \in [1 .. n -> [V -> V]] /\ \A k \in 1 .. n, v \in V : G[k][v] = E(v)
  <2> HIDE DEF V, E
  <2> QED
    BY <1>2, <1>4
<1>6. PICK h : Iterates(h, n, V, a, G)
  <2> HIDE DEF V, E
  <2> QED
    BY <1>5, Recursion
<1>7. h \in [0 .. n -> V] /\ h[0] = a /\ \A k \in 1 .. n : h[k] = E(h[k - 1])
  <2> HIDE DEF V, E
  <2>1. h \in [0 .. n -> V] /\ h[0] = a /\ \A k \in 1 .. n : h[k] = G[k][h[k - 1]]
    BY <1>6 DEF Iterates
  <2>2. \A k \in 1 .. n : h[k - 1] \in V
    BY <2>1
  <2> QED
    BY <1>5, <2>1, <2>2
<1> DEFINE K == {k \in 0 .. n : \A T \in SUBSET S : Cardinality(T) <= k => E(h[k])[T] = h[k][T]}
<1>8. \A T \in SUBSET S : IsFiniteSet(T) /\ Cardinality(T) \in Nat /\ Cardinality(T) <= n
  BY <1>1, FS_Subset, FS_CardinalityType
<1>9. 0 \in K
  <2>1. ASSUME NEW T \in SUBSET S, Cardinality(T) <= 0 PROVE T = {}
    BY <1>8, <2>1, FS_EmptySet
  <2>2. E(h[0])[{}] = 0 /\ h[0][{}] = 0
    BY <1>3, <1>7
  <2> HIDE DEF E
  <2> QED
    BY <2>1, <2>2
<1>10. ASSUME NEW k \in 0 .. n, k \in K, k < n PROVE k + 1 \in K
  <2>0. k + 1 \in 1 .. n /\ (k + 1) - 1 = k
    BY <1>10
  <2>1. h[k + 1] = E(h[k])
    BY <1>7, <2>0
  <2>2. ASSUME NEW T \in SUBSET S, Cardinality(T) <= k + 1 PROVE E(h[k + 1])[T] = h[k + 1][T]
    <3>1. CASE T = {}
      BY <2>1, <3>1
    <3>2. CASE T # {}
      <4>1. PICK x \in T : x = Some(T)
        BY <3>2, SomeOf
      <4>2. T \ {x} \in SUBSET S /\ Cardinality(T \ {x}) <= k
        BY <2>2, OneLess
      <4>3. h[k + 1][T \ {x}] = h[k][T \ {x}]
        <5> HIDE DEF E
        <5> QED
          BY <1>10, <2>1, <4>2
      <4>4. E(h[k + 1])[T] = f[x] + h[k + 1][T \ {x}]
        BY <3>2, <4>1
      <4>5. E(h[k])[T] = f[x] + h[k][T \ {x}]
        BY <3>2, <4>1
      <4> HIDE DEF E
      <4> QED
        BY <2>1, <4>3, <4>4, <4>5
    <3> QED
      BY <3>1, <3>2
  <2> HIDE DEF E
  <2> QED
    BY <1>10, <2>2
<1>11. \A k \in 0 .. n : k \in K
  <2> HIDE DEF K
  <2> QED
    BY <1>9, <1>10, Upwards
<1>12. h[n] \in V /\ \A T \in SUBSET S : E(h[n])[T] = h[n][T]
  <2> HIDE DEF E, V
  <2> QED
    BY <1>7, <1>8, <1>11
<1> QED
  BY <1>12 DEF SumsUp

LEMMA SumIsOf ==
  ASSUME NEW S, IsFiniteSet(S), NEW f, \A x \in S : f[x] \in Int
  PROVE  \E g : SumsUp(g, f, S) /\ SumFunctionOnSet(f, S) = g[S]
<1> DEFINE E(v) == [T \in SUBSET S |-> IF T = {} THEN 0 ELSE f[Some(T)] + v[T \ {Some(T)}]]
<1>1. PICK h \in [SUBSET S -> Int] : SumsUp(h, f, S)
  BY SumExists
<1>2. h = E(h)
  <2>1. h = [T \in SUBSET S |-> h[T]]
    OBVIOUS
  <2>2. \A T \in SUBSET S : h[T] = IF T = {} THEN 0 ELSE f[Some(T)] + h[T \ {Some(T)}]
    BY <1>1 DEF SumsUp
  <2> QED
    BY <2>1, <2>2
<1>3. PICK g : g = CHOOSE v : v = E(v)
  OBVIOUS
<1>4. g = E(g)
  BY <1>2, <1>3
<1>5. SumFunctionOnSet(f, S) = g[S]
  BY <1>3 DEF SumFunctionOnSet, FoldFunctionOnSet, MapThenFoldSet, Some
<1>6. SumsUp(g, f, S)
  <2> HIDE DEF E
  <2>1. \A T \in SUBSET S : E(g)[T] = IF T = {} THEN 0 ELSE f[Some(T)] + g[T \ {Some(T)}]
    BY DEF E
  <2> QED
    BY <1>4, <2>1 DEF SumsUp
<1> QED
  BY <1>5, <1>6

LEMMA SumsType ==
  ASSUME NEW S, IsFiniteSet(S), NEW f, \A x \in S : f[x] \in Int, NEW g, SumsUp(g, f, S)
  PROVE  \A T \in SUBSET S : g[T] \in Int
<1> DEFINE Q == {T \in SUBSET S : g[T] \in Int}
<1>1. {} \in Q
  <2>1. g[{}] = 0
    BY DEF SumsUp
  <2> QED
    BY <2>1
<1>2. ASSUME NEW T \in SUBSET S, T # {}, \A x \in T : T \ {x} \in Q
      PROVE  T \in Q
  <2>1. PICK y \in T : y = Some(T)
    BY <1>2, SomeOf
  <2>2. g[T] = f[y] + g[T \ {y}]
    BY <1>2, <2>1 DEF SumsUp
  <2>3. f[y] \in Int /\ g[T \ {y}] \in Int
    BY <1>2
  <2>4. g[T] \in Int
    BY <2>2, <2>3
  <2> QED
    BY <2>4
<1> HIDE DEF Q
<1>3. \A T \in SUBSET S : T \in Q
  BY <1>1, <1>2, BySize
<1> QED
  BY <1>3 DEF Q

\* The order in which the elements are taken does not matter.
LEMMA AnyFirst ==
  ASSUME NEW S, IsFiniteSet(S), NEW f, \A x \in S : f[x] \in Int, NEW g, SumsUp(g, f, S)
  PROVE  \A T \in SUBSET S : g[T] \in Int /\ \A x \in T : g[T] = f[x] + g[T \ {x}]
<1>0. \A T \in SUBSET S : g[T] \in Int
  BY SumsType
<1> DEFINE Q == {T \in SUBSET S : \A x \in T : g[T] = f[x] + g[T \ {x}]}
<1>1. {} \in Q
  BY DEF SumsUp
<1>2. ASSUME NEW T \in SUBSET S, T # {}, \A x \in T : T \ {x} \in Q
      PROVE  T \in Q
  <2>1. PICK y \in T : y = Some(T)
    BY <1>2, SomeOf
  <2>2. g[T] = f[y] + g[T \ {y}]
    BY <1>2, <2>1 DEF SumsUp
  <2>4. ASSUME NEW x \in T PROVE g[T] = f[x] + g[T \ {x}]
    <3>1. CASE x = y
      BY <2>2, <3>1
    <3>2. CASE x # y
      <4>1. x \in T \ {y} /\ y \in T \ {x} /\ T \ {x} \in Q /\ T \ {y} \in Q
        BY <1>2, <3>2
      <4>2. (T \ {y}) \ {x} = (T \ {x}) \ {y} /\ (T \ {x}) \ {y} \in SUBSET S
        OBVIOUS
      <4>3. PICK z \in Int : z = g[(T \ {x}) \ {y}]
        BY <1>0, <4>2
      <4>4. g[T \ {y}] = f[x] + z
        BY <4>1, <4>2, <4>3
      <4>5. g[T \ {x}] = f[y] + z
        BY <4>1, <4>3
      <4>6. f[x] \in Int /\ f[y] \in Int
        OBVIOUS
      <4> HIDE DEF Q
      <4> QED
        BY <2>2, <4>4, <4>5, <4>6
    <3> QED
      BY <3>1, <3>2
  <2> QED
    BY <2>4
<1> HIDE DEF Q
<1>3. \A T \in SUBSET S : T \in Q
  BY <1>1, <1>2, BySize
<1> QED
  BY <1>0, <1>3 DEF Q

\* Equal terms, equal sums.
LEMMA SumsAgree ==
  ASSUME NEW S, IsFiniteSet(S), NEW A, NEW B, S \subseteq A, S \subseteq B,
         NEW f, NEW e, \A x \in S : f[x] = e[x], NEW g, SumsUp(g, f, A), NEW h, SumsUp(h, e, B)
  PROVE  g[S] = h[S]
<1> DEFINE Q == {T \in SUBSET S : g[T] = h[T]}
<1>1. {} \in Q
  BY DEF SumsUp
<1>2. ASSUME NEW T \in SUBSET S, T # {}, \A x \in T : T \ {x} \in Q
      PROVE  T \in Q
  <2>1. PICK y \in T : y = Some(T)
    BY <1>2, SomeOf
  <2>2. g[T] = f[y] + g[T \ {y}]
    BY <1>2, <2>1 DEF SumsUp
  <2>3. h[T] = e[y] + h[T \ {y}]
    BY <1>2, <2>1 DEF SumsUp
  <2> QED
    BY <1>2, <2>2, <2>3
<1> HIDE DEF Q
<1>3. \A T \in SUBSET S : T \in Q
  BY <1>1, <1>2, BySize
<1> QED
  BY <1>3 DEF Q

\* The sum over nothing, and over one element more.
LEMMA SumOfNone ==
  ASSUME NEW f
  PROVE  SumFunctionOnSet(f, {}) = 0
<1>1. PICK g : SumsUp(g, f, {}) /\ SumFunctionOnSet(f, {}) = g[{}]
  BY SumIsOf, FS_EmptySet
<1> QED
  BY <1>1 DEF SumsUp

LEMMA SumType ==
  ASSUME NEW S, IsFiniteSet(S), NEW f, \A x \in S : f[x] \in Int
  PROVE  SumFunctionOnSet(f, S) \in Int
<1>1. PICK g : SumsUp(g, f, S) /\ SumFunctionOnSet(f, S) = g[S]
  BY SumIsOf
<1> QED
  BY <1>1, AnyFirst

LEMMA SumEqual ==
  ASSUME NEW S, IsFiniteSet(S), NEW f, NEW e, \A x \in S : f[x] \in Int /\ f[x] = e[x]
  PROVE  SumFunctionOnSet(f, S) = SumFunctionOnSet(e, S)
<1>1. PICK g : SumsUp(g, f, S) /\ SumFunctionOnSet(f, S) = g[S]
  BY SumIsOf
<1>2. PICK h : SumsUp(h, e, S) /\ SumFunctionOnSet(e, S) = h[S]
  BY SumIsOf
<1> QED
  BY <1>1, <1>2, SumsAgree

LEMMA SumWithout ==
  ASSUME NEW S, IsFiniteSet(S), NEW f, \A x \in S : f[x] \in Int, NEW y \in S
  PROVE  /\ SumFunctionOnSet(f, S) = f[y] + SumFunctionOnSet(f, S \ {y})
         /\ SumFunctionOnSet(f, S \ {y}) \in Int
<1>1. PICK g : SumsUp(g, f, S) /\ SumFunctionOnSet(f, S) = g[S]
  BY SumIsOf
<1>2. IsFiniteSet(S \ {y}) /\ \A x \in S \ {y} : f[x] \in Int
  BY FS_RemoveElement
<1>3. PICK h : SumsUp(h, f, S \ {y}) /\ SumFunctionOnSet(f, S \ {y}) = h[S \ {y}]
  BY <1>2, SumIsOf
<1>4. g[S \ {y}] = h[S \ {y}]
  <2>1. S \ {y} \subseteq S
    OBVIOUS
  <2> QED
    BY <1>1, <1>2, <1>3, <2>1, SumsAgree
<1>5. g[S] = f[y] + g[S \ {y}]
  BY <1>1, AnyFirst
<1> QED
  BY <1>1, <1>2, <1>3, <1>4, <1>5, SumType

\* Nothing negative adds up to nothing negative.
LEMMA SumNat ==
  ASSUME NEW S, IsFiniteSet(S), NEW f, \A x \in S : f[x] \in Nat
  PROVE  SumFunctionOnSet(f, S) \in Nat
<1> DEFINE Q == {T \in SUBSET S : SumFunctionOnSet(f, T) \in Nat}
<1>1. {} \in Q
  BY SumOfNone
<1>2. ASSUME NEW T \in SUBSET S, T # {}, \A x \in T : T \ {x} \in Q
      PROVE  T \in Q
  <2>1. PICK y \in T : TRUE
    BY <1>2
  <2>2. IsFiniteSet(T) /\ \A x \in T : f[x] \in Int
    BY FS_Subset
  <2>3. SumFunctionOnSet(f, T) = f[y] + SumFunctionOnSet(f, T \ {y})
    BY <2>2, SumWithout
  <2> QED
    BY <1>2, <2>3
<1> HIDE DEF Q
<1>3. \A T \in SUBSET S : T \in Q
  BY <1>1, <1>2, BySize
<1> QED
  BY <1>3 DEF Q

\* A sum, and a count, over the images of a one-to-one function.
ImageOf(b, S) == {b[x] : x \in S}

LEMMA SumOfImage ==
  ASSUME NEW S, IsFiniteSet(S), NEW b, NEW f, NEW e,
         \A x, y \in S : b[x] = b[y] => x = y,
         \A x \in S : f[x] \in Int /\ e[b[x]] = f[x]
  PROVE  /\ IsFiniteSet(ImageOf(b, S)) /\ Cardinality(ImageOf(b, S)) = Cardinality(S)
         /\ SumFunctionOnSet(e, ImageOf(b, S)) = SumFunctionOnSet(f, S)
<1> DEFINE Im(A) == {b[x] : x \in A}
           Q == {A \in SUBSET S : /\ IsFiniteSet(Im(A)) /\ Cardinality(Im(A)) = Cardinality(A)
                                  /\ SumFunctionOnSet(e, Im(A)) = SumFunctionOnSet(f, A)}
<1>1. {} \in Q
  <2>1. Im({}) = {}
    OBVIOUS
  <2> HIDE DEF Im
  <2> QED
    BY <2>1, FS_EmptySet, SumOfNone
<1>2. ASSUME NEW A \in SUBSET S, A # {}, \A x \in A : A \ {x} \in Q
      PROVE  A \in Q
  <2>1. PICK y \in A : TRUE
    BY <1>2
  <2>2. Im(A) = Im(A \ {y}) \cup {b[y]} /\ b[y] \notin Im(A \ {y})
    OBVIOUS
  <2>3. \A v \in Im(A) : e[v] \in Int
    OBVIOUS
  <2> HIDE DEF Im
  <2>4. /\ IsFiniteSet(Im(A \ {y})) /\ Cardinality(Im(A \ {y})) = Cardinality(A \ {y})
        /\ SumFunctionOnSet(e, Im(A \ {y})) = SumFunctionOnSet(f, A \ {y})
    BY <1>2
  <2>5. IsFiniteSet(A) /\ (\A x \in A : f[x] \in Int) /\ Cardinality(A) \in Nat
    BY FS_Subset, FS_CardinalityType
  <2>6. IsFiniteSet(Im(A)) /\ Cardinality(Im(A)) = Cardinality(Im(A \ {y})) + 1
    <3>1. PICK B : B = Im(A \ {y})
      OBVIOUS
    <3>2. IsFiniteSet(B) /\ b[y] \notin B /\ Im(A) = B \cup {b[y]}
      BY <2>2, <2>4, <3>1
    <3>3. IsFiniteSet(B \cup {b[y]}) /\ Cardinality(B \cup {b[y]}) = Cardinality(B) + 1
      BY <3>2, FS_AddElement
    <3> QED
      BY <3>1, <3>2, <3>3
  <2>7. Cardinality(A \ {y}) = Cardinality(A) - 1
    BY <2>5, FS_RemoveElement
  <2>8. Im(A) \ {b[y]} = Im(A \ {y}) /\ b[y] \in Im(A)
    BY <2>2
  <2>9. SumFunctionOnSet(e, Im(A)) = e[b[y]] + SumFunctionOnSet(e, Im(A) \ {b[y]})
    BY <2>3, <2>6, <2>8, SumWithout
  <2>10. SumFunctionOnSet(f, A) = f[y] + SumFunctionOnSet(f, A \ {y})
    BY <2>5, SumWithout
  <2>11. SumFunctionOnSet(e, Im(A)) = SumFunctionOnSet(f, A)
    BY <2>4, <2>8, <2>9, <2>10
  <2>12. Cardinality(Im(A)) = Cardinality(A)
    BY <2>4, <2>5, <2>6, <2>7
  <2> QED
    BY <2>6, <2>11, <2>12
<1>3. \A A \in SUBSET S : A \in Q
  <2> HIDE DEF Q
  <2> QED
    BY <1>1, <1>2, BySize
<1> QED
  BY <1>3 DEF ImageOf

-----------------------------------------------------------------------------
(* What a trade does to the claim of its parties. *)

\* What an order may still be charged.
Claim(o) == IF o.side = "sell" THEN o.size ELSE IF o.type = "limit" THEN o.size * o.price ELSE o.funds

LEMMA BuyerClaim ==
  ASSUME NEW s \in Nat, NEW z \in Nat, NEW p \in Nat, NEW q \in Nat, z <= s, q <= p
  PROVE  z * q + (s - z) * p <= s * p
<1>1. z * q <= z * p
  OBVIOUS
<1>2. (s - z) * p = s * p - z * p
  OBVIOUS
<1>3. z * q \in Nat /\ z * p \in Nat /\ s * p \in Nat
  OBVIOUS
<1> QED
  BY <1>1, <1>2, <1>3

LEMMA ClaimType ==
  ASSUME NEW o \in BookOrder
  PROVE  Claim(o) \in Nat
<1>1. o.size \in Nat /\ o.price \in Nat /\ o.funds \in Nat
  BY DEF BookOrder
<1>2. o.size * o.price \in Nat
  BY <1>1
<1> QED
  BY <1>1, <1>2 DEF Claim

\* A trade of z at a price no worse than the order's takes at least its cost off the claim.
LEMMA ClaimPays ==
  ASSUME NEW o \in BookOrder, NEW n \in BookOrder, NEW z \in Nat, NEW q \in Nat,
         n.side = o.side, n.type = o.type, n.price = o.price,
         MarketBuy(o) => z * q <= o.funds /\ n.funds = o.funds - z * q,
         ~ MarketBuy(o) => z <= o.size /\ n.size = o.size - z,
         o.side = "buy" /\ o.type = "limit" => q <= o.price
  PROVE  (IF o.side = "buy" THEN z * q ELSE z) + Claim(n) <= Claim(o)
<1>1. /\ o.size \in Nat /\ o.price \in Nat /\ o.funds \in Nat /\ z * q \in Nat
      /\ n.size \in Nat /\ n.price \in Nat /\ n.funds \in Nat
      /\ o.side \in {"buy", "sell"} /\ o.type \in {"limit", "market"}
  BY DEF BookOrder, Sides
<1>2. CASE o.side = "sell"
  <2>1. Claim(o) = o.size /\ Claim(n) = o.size - z /\ z <= o.size
    BY <1>2 DEF Claim, MarketBuy
  <2> QED
    BY <1>1, <1>2, <2>1
<1>3. CASE o.side = "buy" /\ o.type = "limit"
  <2>1. Claim(o) = o.size * o.price /\ Claim(n) = (o.size - z) * o.price /\ z <= o.size
    BY <1>3 DEF Claim, MarketBuy
  <2>2. z * q + (o.size - z) * o.price <= o.size * o.price
    BY <1>1, <1>3, <2>1, BuyerClaim
  <2> QED
    BY <1>3, <2>1, <2>2
<1>4. CASE o.side = "buy" /\ o.type = "market"
  <2>1. Claim(o) = o.funds /\ Claim(n) = o.funds - z * q /\ z * q <= o.funds
    BY <1>4 DEF Claim, MarketBuy
  <2> QED
    BY <1>1, <1>4, <2>1
<1> QED
  BY <1>1, <1>2, <1>3, <1>4

\* What newBookOrder makes of an order has its claim.
LEMMA TakerClaim ==
  ASSUME NEW o \in Orders
  PROVE  /\ Claim(TakerOf(o)) = Claim(o) /\ TakerOf(o).id = o.id /\ TakerOf(o).size = o.size
<1>1. o \in BookOrder
  BY OrdersType
<1>2. CASE o.type = "market" /\ o.side = "buy"
  <2>1. TakerOf(o) = [o EXCEPT !.price = MaxPrice]
    BY <1>2 DEF TakerOf
  <2>2. /\ TakerOf(o).side = "buy" /\ TakerOf(o).type = "market" /\ TakerOf(o).funds = o.funds
        /\ TakerOf(o).id = o.id /\ TakerOf(o).size = o.size
    BY <1>1, <1>2, <2>1 DEF BookOrder
  <2> QED
    BY <1>2, <2>2 DEF Claim
<1>3. CASE ~ (o.type = "market" /\ o.side = "buy")
  BY <1>3 DEF TakerOf
<1> QED
  BY <1>2, <1>3

\* What PlaceOrder puts on hold is the claim.
LEMMA HoldClaim ==
  ASSUME NEW o \in Orders
  PROVE  /\ o.side = "buy" => Claim(o) = o.funds
         /\ o.side = "sell" => Claim(o) = o.size
<1>1. CASE o \in LimitOrders
  <2>1. PICK i \in OrderIds, s \in Sides, z \in Sizes, p \in Prices :
          o = [id |-> i, side |-> s, type |-> "limit", size |-> z, price |-> p, funds |-> z * p]
    BY <1>1 DEF LimitOrders
  <2>2. o.size = z /\ o.price = p /\ o.funds = z * p /\ o.type = "limit"
    BY <2>1
  <2> QED
    BY <2>2 DEF Claim
<1>2. CASE o \in MarketBuys
  <2>1. o.side = "buy" /\ o.type = "market"
    BY <1>2 DEF MarketBuys
  <2> QED
    BY <2>1 DEF Claim
<1>3. CASE o \in MarketSells
  <2>1. o.side = "sell"
    BY <1>3 DEF MarketSells
  <2> QED
    BY <2>1 DEF Claim
<1> QED
  BY <1>1, <1>2, <1>3 DEF Orders

-----------------------------------------------------------------------------
(* The orders on the book. *)

OnBook(i) == {x \in depths["buy"] \cup depths["sell"] : x.id = i}

\* The orders on the book after decrSize.
LEMMA OnBookAfter ==
  ASSUME BookInv, NEW s \in Sides, NEW m \in depths[s], NEW z \in Nat, z <= m.size,
         \A x \in OnBook(m.id) : x = m,
         depths' = [depths EXCEPT ![s] = Decreased(@, m, z)]
  PROVE  /\ \A i : i # m.id => OnBook(i)' = OnBook(i)
         /\ OnBook(m.id)' = IF m.size = z THEN {} ELSE {[m EXCEPT !.size = @ - z]}
<1>1. depths \in [Sides -> SUBSET BookOrder] /\ Sides = {"buy", "sell"}
  BY DEF BookInv, BookTypeOK, Sides
<1>2. m \in BookOrder
  BY <1>1
<1>3. PICK n : n = [m EXCEPT !.size = @ - z]
  OBVIOUS
<1>4. n.id = m.id
  BY <1>2, <1>3 DEF BookOrder
<1>5. PICK new : new = IF m.size = z THEN {} ELSE {n}
  OBVIOUS
<1>6. \A x \in new : x.id = m.id
  BY <1>4, <1>5
<1>7. depths'[s] = (depths[s] \ {m}) \cup new /\ \A t \in Sides : t # s => depths'[t] = depths[t]
  BY <1>1, <1>3, <1>5 DEF Decreased
<1>8. \A t \in Sides : t # s => m \notin depths[t]
  BY DEF BookInv, DepthsOK
<1>9. PICK all : all = depths["buy"] \cup depths["sell"]
  OBVIOUS
<1>10. depths'["buy"] \cup depths'["sell"] = (all \ {m}) \cup new
  <2>1. CASE s = "buy"
    BY <1>1, <1>7, <1>8, <1>9, <2>1
  <2>2. CASE s = "sell"
    BY <1>1, <1>7, <1>8, <1>9, <2>2
  <2> QED
    BY <1>1, <2>1, <2>2
<1>11. \A i : OnBook(i)' = {o \in (all \ {m}) \cup new : o.id = i} /\ OnBook(i) = {o \in all : o.id = i}
  BY <1>9, <1>10 DEF OnBook
<1>12. ASSUME NEW i, i # m.id PROVE OnBook(i)' = OnBook(i)
  BY <1>6, <1>11, <1>12
<1>13. OnBook(m.id)' = new
  <2>1. \A x \in all : x.id = m.id => x = m
    BY <1>11
  <2> QED
    BY <1>6, <1>11, <2>1
<1> QED
  BY <1>3, <1>5, <1>12, <1>13

\* The orders on the book after an order has come to rest.
LEMMA OnBookMore ==
  ASSUME BookInv, NEW o \in BookOrder, OnBook(o.id) = {},
         depths' = [depths EXCEPT ![o.side] = Added(@, o)]
  PROVE  (\A i : i # o.id => OnBook(i)' = OnBook(i)) /\ OnBook(o.id)' = {o}
<1>1. depths \in [Sides -> SUBSET BookOrder]
  BY DEF BookInv, BookTypeOK
<1>2. PICK s \in Sides : s = o.side
  BY DEF BookOrder
<1>3. /\ depths'[s] = {x \in depths[s] : x.id # o.id} \cup {o}
      /\ \A t \in Sides : t # s => depths'[t] = depths[t]
  BY <1>1, <1>2 DEF Added
<1>4. \A t \in Sides : \A x \in depths[t] : x.id # o.id
  BY DEF OnBook, Sides
<1>5. depths'["buy"] \cup depths'["sell"] = depths["buy"] \cup depths["sell"] \cup {o}
  BY <1>3, <1>4 DEF Sides
<1>6. \A i : OnBook(i)' = {x \in depths["buy"] \cup depths["sell"] \cup {o} : x.id = i}
  BY <1>5 DEF OnBook
<1>7. ASSUME NEW i, i # o.id PROVE OnBook(i)' = OnBook(i)
  BY <1>6, <1>7 DEF OnBook
<1>8. OnBook(o.id)' = {o}
  BY <1>4, <1>6 DEF Sides
<1> QED
  BY <1>7, <1>8

=============================================================================
