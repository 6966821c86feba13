---------------------------- MODULE SpotPushBook ----------------------------
(***************************************************************************)
(* The order book the push server of gitbitex-spot rebuilds from the       *)
(* matching log (cex/gitbitex-spot/pushing/order_book.go and the applier   *)
(* of order_book_stream.go).  It keeps the resting orders and, per side,   *)
(* the aggregated price levels that level-2 clients are sent.              *)
(*                                                                         *)
(* The book is one record so that the operators below can be used on a     *)
(* live book and on a snapshot alike.  panic records that the code would   *)
(* have panicked, which ends the process.                                  *)
(***************************************************************************)
EXTENDS Integers, Sequences

PushSides == {"buy", "sell"}

NewPushBook ==
  [orders |-> {}, levels |-> [s \in PushSides |-> {}], seq |-> 0,
   logSeq |-> 0, logOffset |-> 0, panic |-> FALSE]

OrderWith(b, id) == {o \in b.orders : o.id = id}

LevelAt(b, side, price) == {l \in b.levels[side] : l.price = price}

\* Fault: the order count of a level is not kept.
LevelChangedSize(L, l, dSize, dCount) ==
  IF l.size + dSize = 0 THEN L \ {l}
  ELSE (L \ {l}) \cup {[l EXCEPT !.size = @ + dSize]}

\* The level after size and count were added to it; an empty one is removed.
\* The count is left alone when the level is removed.
LevelChanged(L, l, dSize, dCount) ==
  IF l.size + dSize = 0 THEN L \ {l}
  ELSE (L \ {l}) \cup {[l EXCEPT !.size = @ + dSize, !.count = @ + dCount]}

\* saveOrder, first branch: the order is new to the book.
SaveNew(b, offset, logSeq, id, newSize, price, side) ==
  LET old == LevelAt(b, side, price)
      L == b.levels[side]
  IN [b EXCEPT
        !.orders = @ \cup {[id |-> id, size |-> newSize, side |-> side,
                            price |-> price]},
        !.levels[side] =
           IF old = {} THEN L \cup {[price |-> price, size |-> newSize, count |-> 1]}
           ELSE LevelChanged(L, CHOOSE l \in old : TRUE, newSize, 1),
        !.seq = @ + 1, !.logSeq = logSeq, !.logOffset = offset]

\* saveOrder, second branch: the order is known and its size changes.
SaveKnown(b, offset, logSeq, o, newSize, price, side) ==
  LET old == LevelAt(b, side, price)
      keep == IF newSize = 0 THEN {} ELSE {[o EXCEPT !.size = newSize]}
  IN IF old = {} THEN [b EXCEPT !.panic = TRUE]
     ELSE [b EXCEPT
             !.orders = (@ \ {o}) \cup keep,
             !.levels[side] = LevelChanged(@, CHOOSE l \in old : TRUE,
                                newSize - o.size, IF newSize = 0 THEN -1 ELSE 0),
             !.seq = @ + 1, !.logSeq = logSeq, !.logOffset = offset]

SaveOrder(b, offset, logSeq, id, newSize, price, side) ==
  IF newSize < 0 THEN [b EXCEPT !.panic = TRUE]
  ELSE IF OrderWith(b, id) # {}
  THEN SaveKnown(b, offset, logSeq, CHOOSE o \in OrderWith(b, id) : TRUE,
                 newSize, price, side)
  ELSE IF newSize = 0 THEN b
  ELSE SaveNew(b, offset, logSeq, id, newSize, price, side)

\* One log taken from logCh by runApplier.
ApplyLog(b, offset, log) ==
  LET id == IF log.type = "match" THEN log.maker ELSE log.order
      known == OrderWith(b, id)
      size == (CHOOSE o \in known : TRUE).size
  IN CASE log.type = "open" ->
            SaveOrder(b, offset, log.seq, id, log.size, log.price, log.side)
       [] log.type = "done" /\ known = {} -> b
       [] log.type = "match" /\ known = {} -> [b EXCEPT !.panic = TRUE]
       [] log.type # "open" /\ known # {} ->
            SaveOrder(b, offset, log.seq, id, size - log.size, log.price, log.side)
=============================================================================
