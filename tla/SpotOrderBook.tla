--------------------------- MODULE SpotOrderBook ---------------------------
(***************************************************************************)
(* The order book of one product of gitbitex-spot                          *)
(* (cex/gitbitex-spot/matching/order_book.go, window.go, log.go).          *)
(*                                                                         *)
(* ApplyOrder is a loop over the opposite depth.  It runs in one goroutine *)
(* and nobody sees the book in the middle of it, but each iteration is an  *)
(* action of its own here (Receive, MatchMaker, FinishTaker), so that what *)
(* the loop keeps true can be proved without recursion.                    *)
(*                                                                         *)
(* Sizes, prices and funds are natural numbers counted in the smallest     *)
(* unit of the product (BaseScale, QuoteScale).                            *)
(***************************************************************************)
EXTENDS Integers, Sequences

CONSTANTS
  OrderIds,    \* ids of g_order rows (AUTO_INCREMENT, so positive)
  Prices,      \* limit prices
  Sizes,       \* order sizes
  Funds,       \* funds of market buy orders
  MaxPrice,    \* decimal.NewFromFloat(math.MaxFloat32)
  WindowCap    \* orderIdWindowCap (10000)

ASSUME BookAssumption ==
  /\ OrderIds \subseteq Nat \ {0}
  /\ Prices \subseteq Nat \ {0}
  /\ Sizes \subseteq Nat \ {0}
  /\ Funds \subseteq Nat \ {0}
  /\ MaxPrice \in Nat
  /\ \A p \in Prices : p <= MaxPrice
  /\ WindowCap \in Nat \ {0}

Sides == {"buy", "sell"}

Opposite(side) == IF side = "buy" THEN "sell" ELSE "buy"

(***************************************************************************)
(* What service.PlaceOrder stores and rest.submitOrder sends: a limit      *)
(* order with funds = size * price, a market buy that only has funds, a    *)
(* market sell that only has a size.                                       *)
(***************************************************************************)
LimitOrders ==
  {[id |-> i, side |-> s, type |-> "limit", size |-> z, price |-> p,
    funds |-> z * p] :
      i \in OrderIds, s \in Sides, z \in Sizes, p \in Prices}

MarketBuys ==
  {[id |-> i, side |-> "buy", type |-> "market", size |-> 0, price |-> 0,
    funds |-> f] : i \in OrderIds, f \in Funds}

MarketSells ==
  {[id |-> i, side |-> "sell", type |-> "market", size |-> z, price |-> 0,
    funds |-> 0] : i \in OrderIds, z \in Sizes}

Orders == LimitOrders \cup MarketBuys \cup MarketSells

\* The BookOrder struct.
BookOrder ==
  [id : OrderIds, side : Sides, type : {"limit", "market"},
   size : Nat, price : Nat, funds : Nat]

\* OpenLog, MatchLog and DoneLog.  Time and product id are left out; maker
\* and trade are 0 and reason is "" where the struct has no such field.
Log ==
  [type : {"open", "match", "done"}, seq : Nat, order : OrderIds,
   maker : OrderIds \cup {0}, trade : Nat, side : Sides, price : Nat,
   size : Nat, reason : {"", "filled", "cancelled"}]

NoTaker == [id |-> 0]

VARIABLES
  depths,    \* side -> set of BookOrder; the queue is this set in the order
             \* of its (price, orderId) keys
  logSeq,    \* last log sequence number given out
  tradeSeq,  \* last trade id given out
  window,    \* bits set in the Bitmap of orderIdWindow
  taker,     \* the order ApplyOrder is matching, or NoTaker
  left,      \* maker orders the iterator of the loop has not visited yet
  out        \* logs made and not yet written to logCh

bookVars == <<depths, logSeq, tradeSeq, window, taker, left, out>>

-----------------------------------------------------------------------------
(* orderIdWindow.  put has a value receiver, so the assignments to Min and
   Max are lost: the window stays [0, WindowCap] for ever, and only the bits
   of the shared Bitmap change. *)

Bit(id) == id % WindowCap

\* Fault: put never fails, so that a repeated order is matched again.
RejectedNever(id) == FALSE

\* put returns an error: the id is in the window and its bit is set.
Rejected(id) == id <= WindowCap /\ Bit(id) \in window

Put(id) == window' = window \cup {Bit(id)}

-----------------------------------------------------------------------------
(* The depths. *)

\* priceOrderIdKeyAscComparator for asks, ...DescComparator for bids.
Before(side, a, b) ==
  IF a.price = b.price THEN a.id < b.id
  ELSE IF side = "sell" THEN a.price < b.price ELSE b.price < a.price

First(side, S, m) == m \in S /\ \A x \in S : x = m \/ Before(side, m, x)

\* Fault: orders at the same price do not trade.
CrossesStrictly(t, m) ==
  IF t.side = "buy" THEN m.price < t.price ELSE t.price < m.price

\* The negation of the test that breaks out of the loop.
Crosses(t, m) ==
  IF t.side = "buy" THEN m.price <= t.price ELSE t.price <= m.price

\* depth.add: orders is a map, so an order with the same id is replaced.
Added(S, o) == {x \in S : x.id # o.id} \cup {o}

\* depth.decrSize, when size does not exceed the order's.
Decreased(S, o, size) ==
  (S \ {o}) \cup (IF o.size = size THEN {} ELSE {[o EXCEPT !.size = @ - size]})

-----------------------------------------------------------------------------
(* The logs. *)

OpenLog(seq, o) ==
  [type |-> "open", seq |-> seq, order |-> o.id, maker |-> 0, trade |-> 0,
   side |-> o.side, price |-> o.price, size |-> o.size, reason |-> ""]

\* Fault: taker and maker are swapped.
MatchLogSwapped(seq, trade, t, m, size) ==
  [type |-> "match", seq |-> seq, order |-> m.id, maker |-> t.id,
   trade |-> trade, side |-> m.side, price |-> m.price, size |-> size,
   reason |-> ""]

MatchLog(seq, trade, t, m, size) ==
  [type |-> "match", seq |-> seq, order |-> t.id, maker |-> m.id,
   trade |-> trade, side |-> m.side, price |-> m.price, size |-> size,
   reason |-> ""]

\* Fault: the remaining size is dropped.
DoneLogEmpty(seq, o, remaining, why) ==
  [type |-> "done", seq |-> seq, order |-> o.id, maker |-> 0, trade |-> 0,
   side |-> o.side, price |-> o.price, size |-> 0, reason |-> why]

DoneLog(seq, o, remaining, why) ==
  [type |-> "done", seq |-> seq, order |-> o.id, maker |-> 0, trade |-> 0,
   side |-> o.side, price |-> o.price, size |-> remaining, reason |-> why]

-----------------------------------------------------------------------------
(* ApplyOrder, one action for its head, its loop body and its tail. *)

Idle == taker = NoTaker /\ out = <<>>

\* newBookOrder, with the price that makes a market order cross.
TakerOf(o) ==
  IF o.type = "market" /\ o.side = "buy" THEN [o EXCEPT !.price = MaxPrice]
  ELSE o

Receive(o) ==
  /\ Idle
  /\ IF Rejected(o.id)
     THEN UNCHANGED bookVars
     ELSE /\ Put(o.id)
          /\ taker' = TakerOf(o)
          /\ left' = depths[Opposite(o.side)]
          /\ UNCHANGED <<depths, logSeq, tradeSeq, out>>

MarketBuy(t) == t.type = "market" /\ t.side = "buy"

\* Fault: the quotient is rounded up instead of truncated.
WantedRoundedUp(t, m) ==
  IF MarketBuy(t) THEN (t.funds + m.price - 1) \div m.price ELSE t.size

\* What the taker can still take at the price of m.
Wanted(t, m) == IF MarketBuy(t) THEN t.funds \div m.price ELSE t.size

Smaller(x, y) == IF x <= y THEN x ELSE y

\* The loop stops: no maker left, no crossing, or nothing wanted.
LoopEnds ==
  \/ left = {}
  \/ \E m \in left : /\ First(Opposite(taker.side), left, m)
                     /\ ~ Crosses(taker, m) \/ Wanted(taker, m) = 0

MatchMaker ==
  /\ taker # NoTaker
  /\ \E m \in left :
       LET side == Opposite(taker.side)
           size == Smaller(Wanted(taker, m), m.size)
           full == size = m.size
       IN /\ First(side, left, m)
          /\ Crosses(taker, m)
          /\ Wanted(taker, m) # 0
          /\ taker' = IF MarketBuy(taker)
                      THEN [taker EXCEPT !.funds = @ - size * m.price]
                      ELSE [taker EXCEPT !.size = @ - size]
          /\ depths' = [depths EXCEPT ![side] = Decreased(@, m, size)]
          /\ left' = left \ {m}
          /\ tradeSeq' = tradeSeq + 1
          /\ logSeq' = logSeq + (IF full THEN 2 ELSE 1)
          /\ out' = out \o <<MatchLog(logSeq + 1, tradeSeq + 1, taker, m, size)>>
                        \o (IF full THEN <<DoneLog(logSeq + 2, m, 0, "filled")>>
                                    ELSE <<>>)
  /\ UNCHANGED window

\* A limit order with a size left rests on the book; any other taker is done.
FinishTaker ==
  /\ taker # NoTaker
  /\ LoopEnds
  /\ logSeq' = logSeq + 1
  /\ taker' = NoTaker
  /\ left' = {}
  /\ \/ /\ taker.type = "limit" /\ taker.size > 0
        /\ depths' = [depths EXCEPT ![taker.side] = Added(@, taker)]
        /\ out' = Append(out, OpenLog(logSeq + 1, taker))
     \/ /\ taker.type = "limit" /\ taker.size = 0
        /\ out' = Append(out, DoneLog(logSeq + 1, taker, 0, "filled"))
        /\ UNCHANGED depths
     \/ /\ taker.type = "market"
        /\ out' = Append(out,
             DoneLog(logSeq + 1, [taker EXCEPT !.price = 0], 0,
                     IF (IF taker.side = "buy" THEN taker.funds
                                               ELSE taker.size) > 0
                     THEN "cancelled" ELSE "filled"))
        /\ UNCHANGED depths
  /\ UNCHANGED <<tradeSeq, window>>

\* The whole of CancelOrder.  The error of put is ignored.
CancelOrder(o) ==
  /\ Idle
  /\ Put(o.id)
  /\ \/ /\ \A x \in depths[o.side] : x.id # o.id
        /\ UNCHANGED <<depths, logSeq, out>>
     \/ \E x \in depths[o.side] :
          /\ x.id = o.id
          /\ depths' = [depths EXCEPT ![o.side] = Decreased(@, x, x.size)]
          /\ logSeq' = logSeq + 1
          /\ out' = <<DoneLog(logSeq + 1, x, x.size, "cancelled")>>
  /\ UNCHANGED <<tradeSeq, taker, left>>

\* NewOrderBook.
BookInit ==
  /\ depths = [s \in Sides |-> {}]
  /\ logSeq = 0
  /\ tradeSeq = 0
  /\ window = {}
  /\ taker = NoTaker
  /\ left = {}
  /\ out = <<>>

-----------------------------------------------------------------------------
\* The type of every part of the book: in particular ApplyOrder never takes more
\* from a taker or a maker than it has, so that no size or fund goes negative.
BookTypeOK ==
  /\ depths \in [Sides -> SUBSET BookOrder]
  /\ logSeq \in Nat
  /\ tradeSeq \in Nat
  /\ window \subseteq 0 .. WindowCap - 1
  /\ taker \in BookOrder \cup {NoTaker}
  /\ left \subseteq BookOrder
  /\ out \in Seq(Log)

\* The book is never crossed: every resting buy is below every resting sell,
\* whatever the loop of ApplyOrder left behind.
NotCrossed ==
  \A b \in depths["buy"], s \in depths["sell"] : b.price < s.price
=============================================================================
