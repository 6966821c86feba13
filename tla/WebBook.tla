------------------------------- MODULE WebBook -------------------------------
(***************************************************************************)
(* The order book that TradeStore (gitbitex-web, store/trade.ts) shows.  A *)
(* snapshot replaces it at once; updates wait in bookBuffer                *)
(* (store/buffer.ts) for a timer.  Both sides of the book are treated      *)
(* alike: the model has one.                                               *)
(*                                                                         *)
(* updateOrderBook keys the levels it finds by Number(price) and the       *)
(* changes by the price as it was sent.  For most prices this is the same  *)
(* key; for a price below 0.000001 it is not (1e-7 and 0.0000001).         *)
(***************************************************************************)
EXTENDS WebLink

CONSTANTS
  Levels,  \* prices
  Odd,     \* of these, the ones below 0.000001
  Sizes    \* sizes of a level, 0 when it is empty

ASSUME BookAssumption == Odd \subseteq Levels /\ 0 \in Sizes /\ Sizes \subseteq Nat

VARIABLES
  market,      \* the book at the exchange
  book,        \* orderBook, by key
  bookBuffer,  \* updates not applied yet
  late         \* history: levels with an update older than the last snapshot
               \* that was applied after it

bookVars == <<market, book, bookBuffer, late>>

Raw(l) == <<l, "sent">>
Num(l) == IF l \in Odd THEN <<l, "number">> ELSE Raw(l)
Keys == {Raw(l) : l \in Levels} \cup {Num(l) : l \in Levels}

NoLevels == [k \in Keys |-> 0]

BookInit ==
  /\ market \in [Levels -> Sizes]
  /\ book = NoLevels
  /\ bookBuffer = <<>> /\ late = {}

-----------------------------------------------------------------------------
(* The exchange. *)

\* The messages about the book.
BookMsgs(s) == {i \in DOMAIN s : s[i].type \in {"snapshot", "l2update"}}

\* A level changes; who is subscribed is told.
Trade ==
  /\ events < MaxEvents /\ events' = events + 1
  /\ \E l \in Levels, z \in Sizes :
       /\ z # market[l]
       /\ market' = [market EXCEPT ![l] = z]
       /\ net' = IF "level2" \in subs
                 THEN Append(net, [type |-> "l2update", level |-> l, size |-> z])
                 ELSE net
  /\ UNCHANGED <<ws, older, started, page, reqs, subs, closes, slow, hides, book, bookBuffer, late>>

-----------------------------------------------------------------------------
(* The store. *)

\* Fault: a snapshot is merged into the levels that are shown.
MergedBook(m) == [k \in Keys |-> IF \E l \in Levels : k = Raw(l) /\ m.book[l] # 0
                                 THEN m.book[k[1]] ELSE book[k]]

\* setOrderBook: what was shown is replaced.
SetOrderBook(m) == [k \in Keys |-> IF k[2] = "sent" THEN m.book[k[1]] ELSE 0]

OnSnapshot ==
  /\ ws = "open" /\ net # <<>> /\ Head(net).type = "snapshot"
  /\ book' = SetOrderBook(Head(net))
  /\ late' = {bookBuffer[i].level : i \in DOMAIN bookBuffer}
  /\ net' = Tail(net)
  /\ UNCHANGED <<ws, older, started, page, reqs, subs, closes, slow, hides, events, market, bookBuffer>>

OnL2Update ==
  /\ ws = "open" /\ net # <<>> /\ Head(net).type = "l2update"
  /\ bookBuffer' = Append(bookBuffer, Head(net))
  /\ late' = late \ {Head(net).level}
  /\ net' = Tail(net)
  /\ UNCHANGED <<ws, older, started, page, reqs, subs, closes, slow, hides, events, market, book>>

\* The levels that are shown, keyed by their number.  When a level is there twice
\* it depends on the side which of the two is met last.
Rekeyed ==
  {b \in [Keys -> Sizes] :
     /\ \A k \in Keys : k \notin {Num(l) : l \in Levels} => b[k] = 0
     /\ \A l \in Levels :
          LET found == {book[Num(l)], book[Raw(l)]} \ {0} IN
            IF found = {} THEN b[Num(l)] = 0 ELSE b[Num(l)] \in found}

\* The buffered changes on top of it, in the order they came in; size 0 deletes.
Changed(b) ==
  [k \in Keys |->
     LET at == {i \in DOMAIN bookBuffer : Raw(bookBuffer[i].level) = k}
     IN IF at = {} THEN b[k]
        ELSE bookBuffer[CHOOSE i \in at : \A j \in at : j <= i].size]

\* The timer of bookBuffer: updateOrderBook.
FlushBook ==
  /\ bookBuffer # <<>>
  /\ \E b \in Rekeyed : book' = Changed(b)
  /\ bookBuffer' = <<>>
  /\ UNCHANGED <<linkVars, market, late>>

BookNext == Trade \/ OnSnapshot \/ OnL2Update \/ FlushBook

-----------------------------------------------------------------------------
(* Properties. *)

BookTypeOK ==
  /\ market \in [Levels -> Sizes] /\ book \in [Keys -> Sizes]
  /\ \A i \in DOMAIN bookBuffer :
       bookBuffer[i].level \in Levels /\ bookBuffer[i].size \in Sizes
  /\ late \subseteq Levels

\* When everything that was sent has been applied the page shows the book of the
\* exchange, through all hiding, showing and reconnecting.  Left out are the
\* levels an update of an earlier subscription was put over: it had waited in
\* bookBuffer while the snapshot came in, and stays until the level changes again.
BookFollows ==
  /\ Subscribed("level2")
  /\ BookMsgs(net) = {} /\ bookBuffer = <<>>
  => \A l \in Levels \ (late \cup Odd) : book[Raw(l)] = market[l]

\* The same at every level.  It does not hold: updates received before a snapshot
\* are applied after it, and a level whose price has two keys is not deleted.
BookFollowsAll ==
  /\ Subscribed("level2")
  /\ BookMsgs(net) = {} /\ bookBuffer = <<>>
  => \A l \in Levels : {book[Raw(l)], book[Num(l)]} \subseteq {0, market[l]}

=============================================================================
