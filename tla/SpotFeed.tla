------------------------------ MODULE SpotFeed ------------------------------
(***************************************************************************)
(* The order book of gitbitex-spot between its two neighbours: the orders  *)
(* that REST handlers submit (rest/order_controller.go), in any order, with *)
(* duplicates and with cancel requests racing the order they cancel, and   *)
(* the consumers of the matching log: the push server's copy of the book   *)
(* and the account each fill is charged to.                                *)
(***************************************************************************)
EXTENDS SpotOrderBook, SpotPushBook, FiniteSetsExt

CONSTANTS
  MaxDeliveries,  \* times one order message may reach the engine
  MaxCancels      \* cancel messages per order

ASSUME FeedAssumption == MaxDeliveries \in Nat /\ MaxCancels \in Nat

VARIABLES
  placed,     \* the rows of g_order, one for each id
  delivered,  \* id -> deliveries of the order message
  cancels,    \* id -> deliveries of a cancel message
  push,       \* the push server's book
  offset,     \* logs published so far
  filled,     \* id -> size of its published matches
  spent,      \* id -> value of its published matches
  released    \* id -> sizes of its published done logs, in order

feedVars == <<placed, delivered, cancels, push, offset, filled, spent, released>>
vars == <<bookVars, feedVars>>

Init ==
  /\ BookInit
  /\ placed \in [OrderIds -> Orders]
  /\ \A i \in OrderIds : placed[i].id = i
  /\ delivered = [i \in OrderIds |-> 0]
  /\ cancels = [i \in OrderIds |-> 0]
  /\ push = NewPushBook
  /\ offset = 0
  /\ filled = [i \in OrderIds |-> 0]
  /\ spent = [i \in OrderIds |-> 0]
  /\ released = [i \in OrderIds |-> <<>>]

\* submitOrder: the order message reaches the applier, perhaps again (the
\* Kafka writer retries a write whose answer it lost).
Deliver(i) ==
  /\ delivered[i] < MaxDeliveries
  /\ Receive(placed[i])
  /\ delivered' = [delivered EXCEPT ![i] = @ + 1]
  /\ UNCHANGED <<placed, cancels, push, offset, filled, spent, released>>

\* CancelOrder / CancelOrders of the REST server: an order is cancelled from
\* its database row, so the message may overtake the order's own.
Cancel(i) ==
  /\ cancels[i] < MaxCancels
  /\ CancelOrder(placed[i])
  /\ cancels' = [cancels EXCEPT ![i] = @ + 1]
  /\ UNCHANGED <<placed, delivered, push, offset, filled, spent, released>>

\* One log leaves the engine: the push server applies it, and the fills it
\* stands for are counted for their orders.
Publish ==
  /\ taker = NoTaker /\ out # <<>>
  /\ LET log == Head(out)
         parties == IF log.type = "match" THEN {log.order, log.maker} ELSE {}
     IN /\ push' = ApplyLog(push, offset, log)
        /\ filled' = [i \in OrderIds |->
                        filled[i] + IF i \in parties THEN log.size ELSE 0]
        /\ spent' = [i \in OrderIds |->
                        spent[i] + IF i \in parties THEN log.size * log.price ELSE 0]
        /\ released' = IF log.type = "done"
                       THEN [released EXCEPT ![log.order] = Append(@, log.size)]
                       ELSE released
  /\ out' = Tail(out)
  /\ offset' = offset + 1
  /\ UNCHANGED <<depths, logSeq, tradeSeq, window, taker, left, placed,
                 delivered, cancels>>

Match == MatchMaker /\ UNCHANGED feedVars
Finish == FinishTaker /\ UNCHANGED feedVars

Next ==
  \/ \E i \in OrderIds : Deliver(i) \/ Cancel(i)
  \/ Match
  \/ Finish
  \/ Publish

Spec == Init /\ [][Next]_vars /\ WF_vars(Match) /\ WF_vars(Finish) /\ WF_vars(Publish)

-----------------------------------------------------------------------------
Quiet == Idle

Resting(i) == {o \in depths["buy"] \cup depths["sell"] : o.id = i}

\* The push server's book is the engine's: once every log is published it
\* holds the same orders with the same sizes, and each price level is the sum
\* of its orders.
PushBookFollows ==
  Quiet =>
    /\ push.orders = {[id |-> o.id, size |-> o.size, side |-> o.side,
                       price |-> o.price] : o \in depths["buy"] \cup depths["sell"]}
    /\ \A s \in Sides :
         push.levels[s] =
           {[price |-> p,
             size |-> SumFunctionOnSet([o \in depths[s] |-> o.size],
                                       {o \in depths[s] : o.price = p}),
             count |-> Cardinality({o \in depths[s] : o.price = p})] :
               p \in {o.price : o \in depths[s]}}

\* saveOrder and the "should not happen" branch of runApplier never panic,
\* whatever the order in which orders, duplicates and cancels arrive.
PushNeverPanics == ~ push.panic

\* What an order has been charged never exceeds what PlaceOrder put on hold
\* for it: funds for a buy, size for a sell.
WithinHold ==
  \A i \in OrderIds :
    /\ placed[i].side = "buy" => spent[i] <= placed[i].funds
    /\ placed[i].side = "sell" => filled[i] <= placed[i].size

\* Every unit of a limit order is on the book, traded, or released by exactly
\* one done log.
LimitAccounted ==
  Quiet => \A i \in OrderIds :
    LET o == placed[i]
    IN (o.type = "limit" /\ \/ Resting(i) # {} \/ filled[i] > 0 \/ released[i] # <<>>)
         => /\ Len(released[i]) <= 1
            /\ (released[i] # <<>>) = (Resting(i) = {})
            /\ \A x \in Resting(i) : Resting(i) = {x} /\ o.size = filled[i] + x.size
            /\ released[i] # <<>> => o.size = filled[i] + released[i][1]
=============================================================================
