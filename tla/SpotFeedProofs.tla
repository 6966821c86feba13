--------------------------- MODULE SpotFeedProofs ---------------------------
(***************************************************************************)
(* The book of gitbitex-spot is never crossed and always well typed, for   *)
(* any number of orders, duplicates and cancels; while no order is matched *)
(* twice it charges no order more than was put on hold for it; and the     *)
(* push server's copy of it never panics and never drifts away from it.    *)
(***************************************************************************)
EXTENDS SpotFeed, SpotOrderBookProofs

PlacedOK == placed \in [OrderIds -> Orders]

FeedInv == BookInv /\ PlacedOK

\* The invariant holds at the start.
LEMMA InitInv == Init => FeedInv
BY BookInitInv DEF Init, FeedInv, PlacedOK

\* Every step keeps the invariant.
LEMMA NextInv == FeedInv /\ [Next]_vars => FeedInv'
<1> SUFFICES ASSUME FeedInv, [Next]_vars PROVE FeedInv'
  OBVIOUS
<1>1. ASSUME NEW i \in OrderIds, Deliver(i) PROVE FeedInv'
  <2>1. placed[i] \in Orders /\ Receive(placed[i]) /\ placed' = placed
    BY <1>1 DEF Deliver, FeedInv, PlacedOK
  <2> QED BY <2>1, ReceiveInv DEF FeedInv, PlacedOK
<1>2. ASSUME NEW i \in OrderIds, Cancel(i) PROVE FeedInv'
  <2>1. placed[i] \in Orders /\ CancelOrder(placed[i]) /\ placed' = placed
    BY <1>2 DEF Cancel, FeedInv, PlacedOK
  <2> QED BY <2>1, CancelInv DEF FeedInv, PlacedOK
<1>3. CASE Match
  BY <1>3, MatchInv DEF Match, FeedInv, PlacedOK, feedVars
<1>4. CASE Finish
  BY <1>4, FinishInv DEF Finish, FeedInv, PlacedOK, feedVars
<1>5. CASE Publish
  BY <1>5, PopInv DEF Publish, FeedInv, PlacedOK
<1>6. CASE UNCHANGED vars
  BY <1>6, BookStutter DEF vars, feedVars, FeedInv, PlacedOK
<1> QED BY <1>1, <1>2, <1>3, <1>4, <1>5, <1>6 DEF Next

\* The state of the order book (depths, sequence numbers, window, the taker of
\* ApplyOrder) always has its type; in particular no size or funds goes
\* negative in the matching loop.
THEOREM BookTypeCorrect == Spec => []BookTypeOK
<1>1. FeedInv => BookTypeOK
  BY DEF FeedInv, BookInv
<1> QED BY InitInv, NextInv, <1>1, PTL DEF Spec

\* The book of gitbitex-spot is never crossed, whatever orders, duplicates and
\* cancels reach ApplyOrder and CancelOrder, in whatever order.
THEOREM NeverCrossed == Spec => []NotCrossed
<1>1. FeedInv => NotCrossed
  BY DEF FeedInv, BookInv
<1> QED BY InitInv, NextInv, <1>1, PTL DEF Spec

-----------------------------------------------------------------------------
(* What an order has traded, been charged and been released, by the logs the consumers
   have and by those that are still to be published. *)

Party(log, i) == log.type = "match" /\ i \in {log.order, log.maker}

Ends(log, i) == log.type = "done" /\ log.order = i

PartOf(i) == [log \in Log |-> IF Party(log, i) THEN log.size ELSE 0]

\* In quote currency for a buy, in base currency for a sell.
CostOf(i) ==
  [log \in Log |-> IF ~ Party(log, i) THEN 0
                   ELSE IF placed[i].side = "buy" THEN log.size * log.price ELSE log.size]

DoneOf(i) == [log \in Log |-> IF Ends(log, i) THEN 1 ELSE 0]

FreedOf(i) == [log \in Log |-> IF Ends(log, i) THEN log.size ELSE 0]

Filled(i, logs) == filled[i] + Tally(PartOf(i), logs)
Used(i, logs) == (IF placed[i].side = "buy" THEN spent[i] ELSE filled[i]) + Tally(CostOf(i), logs)
Dones(i, logs) == Len(released[i]) + Tally(DoneOf(i), logs)
Freed(i, logs) == (IF released[i] = <<>> THEN 0 ELSE released[i][1]) + Tally(FreedOf(i), logs)

\* ApplyOrder would still match an order message.
Fresh(i) == delivered[i] < MaxDeliveries /\ ~ Rejected(i)

Untouched(i) ==
  Used(i, out) = 0 /\ Filled(i, out) = 0 /\ Dones(i, out) = 0 /\ Freed(i, out) = 0

\* o is what is left of order i.
Remains(i, o) ==
  /\ o.side = placed[i].side /\ o.type = placed[i].type
  /\ ~ Fresh(i) /\ Dones(i, out) = 0 /\ Freed(i, out) = 0
  /\ Used(i, out) + Claim(o) <= Claim(placed[i])
  /\ o.type = "limit" => o.price = placed[i].price /\ Filled(i, out) + o.size = placed[i].size

Over(i) ==
  /\ ~ Fresh(i) /\ Dones(i, out) = 1 /\ Used(i, out) <= Claim(placed[i])
  /\ placed[i].type = "limit" => Filled(i, out) + Freed(i, out) = placed[i].size

\* An order is on the book, or it is the taker, or it has not been seen or is done.
Account(i) ==
  /\ \A x \in Resting(i) : Resting(i) = {x} /\ Remains(i, x)
  /\ taker.id = i => Resting(i) = {} /\ Remains(i, taker)
  /\ Resting(i) = {} /\ taker.id # i => Untouched(i) \/ Over(i)

FeedTypes ==
  /\ \A i \in OrderIds : placed[i].id = i
  /\ delivered \in [OrderIds -> Nat]
  /\ filled \in [OrderIds -> Nat] /\ spent \in [OrderIds -> Nat]
  /\ released \in [OrderIds -> Seq(Nat)]

AccountInv == FeedInv /\ FeedTypes /\ \A i \in OrderIds : Account(i)

\* No order message is matched twice: either it is delivered once only, or its id is in the
\* window, which stays at [0, WindowCap].
Once == MaxDeliveries <= 1 \/ \A i \in OrderIds : i <= WindowCap

-----------------------------------------------------------------------------
(* The totals. *)

LEMMA WeightTypes ==
  ASSUME NEW i \in OrderIds
  PROVE  /\ PartOf(i) \in [Log -> Nat] /\ CostOf(i) \in [Log -> Nat]
         /\ DoneOf(i) \in [Log -> Nat] /\ FreedOf(i) \in [Log -> Nat]
<1>1. \A log \in Log : log.size \in Nat /\ log.price \in Nat
  BY DEF Log
<1>2. \A log \in Log : log.size * log.price \in Nat
  BY <1>1
<1> QED
  BY <1>1, <1>2 DEF PartOf, CostOf, DoneOf, FreedOf

LEMMA TotalTypes ==
  ASSUME FeedTypes, NEW i \in OrderIds, NEW logs \in Seq(Log)
  PROVE  /\ Used(i, logs) \in Nat /\ Filled(i, logs) \in Nat
         /\ Dones(i, logs) \in Nat /\ Freed(i, logs) \in Nat
         /\ Used(i, logs) >= IF placed[i].side = "buy" THEN spent[i] ELSE filled[i]
<1>1. filled[i] \in Nat /\ spent[i] \in Nat /\ released[i] \in Seq(Nat)
  BY DEF FeedTypes
<1>2. /\ Tally(PartOf(i), logs) \in Nat /\ Tally(CostOf(i), logs) \in Nat
      /\ Tally(DoneOf(i), logs) \in Nat /\ Tally(FreedOf(i), logs) \in Nat
  BY WeightTypes, TallyType
<1>3. (IF released[i] = <<>> THEN 0 ELSE released[i][1]) \in Nat /\ Len(released[i]) \in Nat
  BY <1>1
<1>4. Used(i, logs) \in Nat /\ Used(i, logs) >= IF placed[i].side = "buy" THEN spent[i] ELSE filled[i]
  <2>1. PICK n \in Nat : n = IF placed[i].side = "buy" THEN spent[i] ELSE filled[i]
    BY <1>1
  <2>2. Used(i, logs) = n + Tally(CostOf(i), logs)
    BY <2>1 DEF Used
  <2>3. Used(i, logs) \in Nat /\ Used(i, logs) >= n
    BY <1>2, <2>2
  <2> QED
    BY <2>1, <2>3
<1>5. Filled(i, logs) \in Nat
  BY <1>1, <1>2 DEF Filled
<1>6. Dones(i, logs) \in Nat
  BY <1>2, <1>3 DEF Dones
<1>7. Freed(i, logs) \in Nat
  BY <1>2, <1>3 DEF Freed
<1> QED
  BY <1>4, <1>5, <1>6, <1>7

\* A log is written.
LEMMA AddLog ==
  ASSUME FeedTypes, NEW i \in OrderIds, NEW logs \in Seq(Log), NEW log \in Log
  PROVE  /\ Used(i, Append(logs, log)) = Used(i, logs) + CostOf(i)[log]
         /\ Filled(i, Append(logs, log)) = Filled(i, logs) + PartOf(i)[log]
         /\ Dones(i, Append(logs, log)) = Dones(i, logs) + DoneOf(i)[log]
         /\ Freed(i, Append(logs, log)) = Freed(i, logs) + FreedOf(i)[log]
<1>1. filled[i] \in Nat /\ spent[i] \in Nat /\ released[i] \in Seq(Nat)
  BY DEF FeedTypes
<1>2. /\ Tally(PartOf(i), logs) \in Nat /\ Tally(CostOf(i), logs) \in Nat
      /\ Tally(DoneOf(i), logs) \in Nat /\ Tally(FreedOf(i), logs) \in Nat
  BY WeightTypes, TallyType
<1>3. (IF released[i] = <<>> THEN 0 ELSE released[i][1]) \in Nat /\ Len(released[i]) \in Nat
  BY <1>1
<1>4. /\ CostOf(i)[log] \in Nat /\ PartOf(i)[log] \in Nat
      /\ DoneOf(i)[log] \in Nat /\ FreedOf(i)[log] \in Nat
  BY WeightTypes
<1>5. /\ Tally(CostOf(i), Append(logs, log)) = Tally(CostOf(i), logs) + CostOf(i)[log]
      /\ Tally(PartOf(i), Append(logs, log)) = Tally(PartOf(i), logs) + PartOf(i)[log]
      /\ Tally(DoneOf(i), Append(logs, log)) = Tally(DoneOf(i), logs) + DoneOf(i)[log]
      /\ Tally(FreedOf(i), Append(logs, log)) = Tally(FreedOf(i), logs) + FreedOf(i)[log]
  BY WeightTypes, TallyAppend
<1>6. Used(i, Append(logs, log)) = Used(i, logs) + CostOf(i)[log]
  <2>1. PICK n \in Nat : n = IF placed[i].side = "buy" THEN spent[i] ELSE filled[i]
    BY <1>1
  <2>2. \A l : Used(i, l) = n + Tally(CostOf(i), l)
    BY <2>1 DEF Used
  <2> QED
    BY <1>2, <1>4, <1>5, <2>2
<1>7. Filled(i, Append(logs, log)) = Filled(i, logs) + PartOf(i)[log]
  <2>1. PICK n \in Nat : n = filled[i]
    BY <1>1
  <2>2. \A l : Filled(i, l) = n + Tally(PartOf(i), l)
    BY <2>1 DEF Filled
  <2> QED
    BY <1>2, <1>4, <1>5, <2>2
<1>8. Dones(i, Append(logs, log)) = Dones(i, logs) + DoneOf(i)[log]
  <2>1. PICK n \in Nat : n = Len(released[i])
    BY <1>3
  <2>2. \A l : Dones(i, l) = n + Tally(DoneOf(i), l)
    BY <2>1 DEF Dones
  <2> QED
    BY <1>2, <1>4, <1>5, <2>2
<1>9. Freed(i, Append(logs, log)) = Freed(i, logs) + FreedOf(i)[log]
  <2>1. PICK n \in Nat : n = IF released[i] = <<>> THEN 0 ELSE released[i][1]
    BY <1>3
  <2>2. \A l : Freed(i, l) = n + Tally(FreedOf(i), l)
    BY <2>1 DEF Freed
  <2> QED
    BY <1>2, <1>4, <1>5, <2>2
<1> QED
  BY <1>6, <1>7, <1>8, <1>9

\* A log that does not concern an order.
LEMMA OtherLog ==
  ASSUME FeedTypes, NEW i \in OrderIds, NEW logs \in Seq(Log), NEW log \in Log,
         ~ Party(log, i), ~ Ends(log, i)
  PROVE  /\ Used(i, Append(logs, log)) = Used(i, logs)
         /\ Filled(i, Append(logs, log)) = Filled(i, logs)
         /\ Dones(i, Append(logs, log)) = Dones(i, logs)
         /\ Freed(i, Append(logs, log)) = Freed(i, logs)
<1>1. CostOf(i)[log] = 0 /\ PartOf(i)[log] = 0 /\ DoneOf(i)[log] = 0 /\ FreedOf(i)[log] = 0
  BY DEF CostOf, PartOf, DoneOf, FreedOf
<1>2. /\ Used(i, logs) \in Nat /\ Filled(i, logs) \in Nat
      /\ Dones(i, logs) \in Nat /\ Freed(i, logs) \in Nat
  BY TotalTypes
<1> QED
  BY <1>1, <1>2, AddLog

\* A match of z at price q.
LEMMA MatchLogAdds ==
  ASSUME FeedTypes, NEW i \in OrderIds, NEW logs \in Seq(Log), NEW log \in Log, Party(log, i)
  PROVE  /\ Used(i, Append(logs, log)) =
              Used(i, logs) + (IF placed[i].side = "buy" THEN log.size * log.price ELSE log.size)
         /\ Filled(i, Append(logs, log)) = Filled(i, logs) + log.size
         /\ Dones(i, Append(logs, log)) = Dones(i, logs)
         /\ Freed(i, Append(logs, log)) = Freed(i, logs)
<1>1. /\ CostOf(i)[log] = IF placed[i].side = "buy" THEN log.size * log.price ELSE log.size
      /\ PartOf(i)[log] = log.size
  BY DEF CostOf, PartOf
<1>2. DoneOf(i)[log] = 0 /\ FreedOf(i)[log] = 0
  BY DEF DoneOf, FreedOf, Party, Ends
<1>3. Dones(i, logs) \in Nat /\ Freed(i, logs) \in Nat
  BY TotalTypes
<1> QED
  BY <1>1, <1>2, <1>3, AddLog

LEMMA DoneLogAdds ==
  ASSUME FeedTypes, NEW i \in OrderIds, NEW logs \in Seq(Log), NEW log \in Log, Ends(log, i)
  PROVE  /\ Used(i, Append(logs, log)) = Used(i, logs)
         /\ Filled(i, Append(logs, log)) = Filled(i, logs)
         /\ Dones(i, Append(logs, log)) = Dones(i, logs) + 1
         /\ Freed(i, Append(logs, log)) = Freed(i, logs) + log.size
<1>1. CostOf(i)[log] = 0 /\ PartOf(i)[log] = 0
  BY DEF CostOf, PartOf, Party, Ends
<1>2. DoneOf(i)[log] = 1 /\ FreedOf(i)[log] = log.size
  BY DEF DoneOf, FreedOf
<1>3. Used(i, logs) \in Nat /\ Filled(i, logs) \in Nat
  BY TotalTypes
<1> QED
  BY <1>1, <1>2, <1>3, AddLog

\* Publishing moves the oldest log from one side of the totals to the other.
LEMMA PublishTotals ==
  ASSUME FeedInv, FeedTypes, Publish, NEW i \in OrderIds, Dones(i, out) <= 1
  PROVE  /\ Used(i, out)' = Used(i, out) /\ Filled(i, out)' = Filled(i, out)
         /\ Dones(i, out)' = Dones(i, out) /\ Freed(i, out)' = Freed(i, out)
         /\ filled'[i] \in Nat /\ spent'[i] \in Nat /\ released'[i] \in Seq(Nat)
<1>1. out \in Seq(Log) /\ out # <<>> /\ out' = Tail(out) /\ UNCHANGED placed
  BY DEF Publish, FeedInv, BookInv, BookTypeOK
<1>2. PICK log \in Log : log = Head(out)
  BY <1>1
<1>3. PICK rest \in Seq(Log) : rest = Tail(out)
  <2>1. Tail(out) \in Seq(Log)
    BY <1>1
  <2> QED
    BY <2>1
<1>4. log.size \in Nat /\ log.price \in Nat /\ log.order \in OrderIds
  BY DEF Log
<1>5. log.size * log.price \in Nat
  BY <1>4
<1>6. filled[i] \in Nat /\ spent[i] \in Nat /\ released[i] \in Seq(Nat) /\ released \in [OrderIds -> Seq(Nat)]
  BY DEF FeedTypes
<1>7. /\ Tally(PartOf(i), rest) \in Nat /\ Tally(CostOf(i), rest) \in Nat
      /\ Tally(DoneOf(i), rest) \in Nat /\ Tally(FreedOf(i), rest) \in Nat
  BY WeightTypes, TallyType
<1>8. /\ Tally(CostOf(i), out) = CostOf(i)[log] + Tally(CostOf(i), rest)
      /\ Tally(PartOf(i), out) = PartOf(i)[log] + Tally(PartOf(i), rest)
      /\ Tally(DoneOf(i), out) = DoneOf(i)[log] + Tally(DoneOf(i), rest)
      /\ Tally(FreedOf(i), out) = FreedOf(i)[log] + Tally(FreedOf(i), rest)
  BY <1>1, <1>2, <1>3, WeightTypes, TallyTail
<1>9. /\ PartOf(i)' = PartOf(i) /\ CostOf(i)' = CostOf(i)
      /\ DoneOf(i)' = DoneOf(i) /\ FreedOf(i)' = FreedOf(i)
  BY <1>1 DEF PartOf, CostOf, DoneOf, FreedOf
<1>10. PartOf(i)[log] \in Nat /\ CostOf(i)[log] \in Nat
  BY WeightTypes
<1>11. filled'[i] = filled[i] + PartOf(i)[log]
  <2>1. filled'[i] = filled[i] + IF Party(log, i) THEN log.size ELSE 0
    BY <1>2 DEF Publish, Party
  <2> QED
    BY <2>1 DEF PartOf
<1>12. Filled(i, out)' = Filled(i, out)
  BY <1>1, <1>3, <1>6, <1>7, <1>8, <1>9, <1>10, <1>11 DEF Filled
<1>13. spent'[i] = spent[i] + IF Party(log, i) THEN log.size * log.price ELSE 0
  BY <1>2 DEF Publish, Party
<1>14. Used(i, out)' = Used(i, out)
  <2>1. CASE placed[i].side = "buy"
    <3>1. CostOf(i)[log] = IF Party(log, i) THEN log.size * log.price ELSE 0
      BY <2>1 DEF CostOf
    <3>2. spent'[i] = spent[i] + CostOf(i)[log]
      BY <1>13, <3>1
    <3>3. Used(i, out)' = spent'[i] + Tally(CostOf(i), rest)
      BY <1>1, <1>3, <1>9, <2>1 DEF Used
    <3>4. Used(i, out) = spent[i] + Tally(CostOf(i), out)
      BY <2>1 DEF Used
    <3> QED
      BY <1>6, <1>7, <1>8, <1>10, <3>2, <3>3, <3>4
  <2>2. CASE placed[i].side # "buy"
    <3>1. CostOf(i)[log] = PartOf(i)[log]
      BY <2>2 DEF CostOf, PartOf
    <3>2. Used(i, out)' = filled'[i] + Tally(CostOf(i), rest)
      BY <1>1, <1>3, <1>9, <2>2 DEF Used
    <3>3. Used(i, out) = filled[i] + Tally(CostOf(i), out)
      BY <2>2 DEF Used
    <3>4. \A a, b, c \in Nat : (a + b) + c = a + (b + c)
      OBVIOUS
    <3>5. /\ Used(i, out)' = (filled[i] + CostOf(i)[log]) + Tally(CostOf(i), rest)
          /\ Used(i, out) = filled[i] + (CostOf(i)[log] + Tally(CostOf(i), rest))
      BY <1>8, <1>11, <3>1, <3>2, <3>3
    <3> QED
      BY <1>6, <1>7, <1>10, <3>4, <3>5
  <2> QED
    BY <2>1, <2>2
<1>15. filled'[i] \in Nat /\ spent'[i] \in Nat
  <2>1. filled[i] \in Nat /\ spent[i] \in Nat
    BY DEF FeedTypes
  <2>2. filled'[i] \in Nat
    BY <1>10, <1>11, <2>1
  <2>3. PICK z \in Nat : z = log.size * log.price
    <3>1. log.size * log.price \in Nat
      BY <1>4
    <3> QED
      BY <3>1
  <2>4. spent'[i] \in Nat
    BY <1>13, <2>1, <2>3
  <2> QED
    BY <2>2, <2>4
<1>16. CASE Ends(log, i)
  <2>1. DoneOf(i)[log] = 1 /\ FreedOf(i)[log] = log.size
    BY <1>16 DEF DoneOf, FreedOf
  <2>2. Len(released[i]) = 0 /\ Tally(DoneOf(i), rest) = 0
    <3>1. Len(released[i]) + (1 + Tally(DoneOf(i), rest)) <= 1
      BY <1>8, <2>1 DEF Dones
    <3>2. Len(released[i]) \in Nat
      BY <1>6
    <3> QED
      BY <1>7, <3>1, <3>2
  <2>3. released[i] = <<>>
    BY <1>6, <2>2
  <2>4. released' = [released EXCEPT ![i] = Append(@, log.size)]
    BY <1>2, <1>16 DEF Publish, Ends
  <2>5. released'[i] = Append(released[i], log.size)
    BY <1>6, <2>4
  <2>6. PICK s \in Seq(Nat) : s = Append(released[i], log.size)
    <3>1. Append(released[i], log.size) \in Seq(Nat)
      BY <1>4, <1>6
    <3> QED
      BY <3>1
  <2>7. s # <<>> /\ Len(s) = 1 /\ s[1] = log.size
    <3>1. PICK r \in Seq(Nat) : r = released[i]
      BY <1>6
    <3>2. PICK z \in Nat : z = log.size
      BY <1>4
    <3>3. Len(r) = 0 /\ s = Append(r, z)
      BY <2>2, <2>6, <3>1, <3>2
    <3>4. Len(s) = 1 /\ s[1] = z
      BY <3>3
    <3>5. ASSUME s = <<>> PROVE FALSE
      <4>1. Len(s) = 0
        BY <3>5
      <4> QED
        BY <3>4, <4>1
    <3>6. s # <<>>
      BY <3>5
    <3> QED
      BY <3>2, <3>4, <3>6
  <2>8. Dones(i, out)' = 1 + Tally(DoneOf(i), rest)
    BY <1>1, <1>3, <1>9, <2>5, <2>6, <2>7 DEF Dones
  <2>9. Freed(i, out)' = log.size + Tally(FreedOf(i), rest)
    BY <1>1, <1>3, <1>9, <2>5, <2>6, <2>7 DEF Freed
  <2>10. Dones(i, out) = 0 + (1 + Tally(DoneOf(i), rest))
    BY <1>8, <2>1, <2>2 DEF Dones
  <2>11. Freed(i, out) = 0 + (log.size + Tally(FreedOf(i), rest))
    BY <1>8, <2>1, <2>3 DEF Freed
  <2>12. Dones(i, out)' = Dones(i, out)
    BY <1>7, <2>8, <2>10
  <2>13. Freed(i, out)' = Freed(i, out)
    BY <1>4, <1>7, <2>9, <2>11
  <2>14. released'[i] \in Seq(Nat)
    BY <2>5, <2>6
  <2> QED
    BY <1>12, <1>14, <1>15, <2>12, <2>13, <2>14
<1>17. CASE ~ Ends(log, i)
  <2>1. DoneOf(i)[log] = 0 /\ FreedOf(i)[log] = 0
    BY <1>17 DEF DoneOf, FreedOf
  <2>2. released'[i] = released[i]
    <3>1. CASE log.type = "done"
      <4>1. released' = [released EXCEPT ![log.order] = Append(@, log.size)] /\ log.order # i
        BY <1>2, <1>17, <3>1 DEF Publish, Ends
      <4> QED
        BY <1>6, <4>1
    <3>2. CASE log.type # "done"
      BY <1>2, <3>2 DEF Publish
    <3> QED
      BY <3>1, <3>2
  <2>3. PICK n \in Nat : n = Len(released[i])
    BY <1>6
  <2>4. PICK z \in Nat : z = IF released[i] = <<>> THEN 0 ELSE released[i][1]
    BY <1>6
  <2>5. Dones(i, out)' = n + Tally(DoneOf(i), rest) /\ Freed(i, out)' = z + Tally(FreedOf(i), rest)
    BY <1>1, <1>3, <1>9, <2>2, <2>3, <2>4 DEF Dones, Freed
  <2>6. /\ Dones(i, out) = n + (0 + Tally(DoneOf(i), rest))
        /\ Freed(i, out) = z + (0 + Tally(FreedOf(i), rest))
    BY <1>8, <2>1, <2>3, <2>4 DEF Dones, Freed
  <2>7. Dones(i, out)' = Dones(i, out)
    BY <1>7, <2>5, <2>6
  <2>8. Freed(i, out)' = Freed(i, out)
    BY <1>7, <2>5, <2>6
  <2> QED
    BY <1>6, <1>12, <1>14, <1>15, <2>2, <2>7, <2>8
<1> QED
  BY <1>16, <1>17

-----------------------------------------------------------------------------
(* The invariant and the steps. *)

\* Nothing happens to an order.
LEMMA SameAccount ==
  ASSUME NEW i \in OrderIds, Account(i), UNCHANGED <<placed>>,
         Resting(i)' = Resting(i), taker'.id = i <=> taker.id = i, taker.id = i => taker' = taker,
         Used(i, out)' = Used(i, out), Filled(i, out)' = Filled(i, out),
         Dones(i, out)' = Dones(i, out), Freed(i, out)' = Freed(i, out),
         Fresh(i)' => Fresh(i)
  PROVE  Account(i)'
<1>1. ASSUME NEW o, Remains(i, o) PROVE Remains(i, o)'
  BY <1>1 DEF Remains
<1>2. Untouched(i) => Untouched(i)'
  BY DEF Untouched
<1>3. Over(i) => Over(i)'
  BY DEF Over
<1>4. \A x \in Resting(i)' : Resting(i)' = {x} /\ Remains(i, x)'
  BY <1>1 DEF Account
<1>5. taker'.id = i => Resting(i)' = {} /\ Remains(i, taker)'
  BY <1>1 DEF Account, Remains
<1>6. (Resting(i)' = {} /\ taker'.id # i) => (Untouched(i)' \/ Over(i)')
  BY <1>2, <1>3 DEF Account
<1> QED
  BY <1>4, <1>5, <1>6 DEF Account

LEMMA AccountInit ==
  ASSUME Init
  PROVE  AccountInv
<1>1. FeedInv
  BY InitInv
<1>2. FeedTypes
  <2>1. <<>> \in Seq(Nat)
    OBVIOUS
  <2> QED
    BY <2>1 DEF Init, FeedTypes
<1>3. ASSUME NEW i \in OrderIds PROVE Account(i)
  <2>1. Resting(i) = {}
    BY DEF Init, BookInit, Resting, Sides
  <2>2. taker.id # i
    BY BookAssumption DEF Init, BookInit, NoTaker
  <2>3. out = <<>> /\ filled[i] = 0 /\ spent[i] = 0 /\ released[i] = <<>>
    BY DEF Init, BookInit
  <2>4. \A G : Tally(G, out) = 0
    BY <2>3, TallyEmpty
  <2>5. Len(released[i]) = 0
    BY <2>3
  <2>6. Untouched(i)
    BY <2>3, <2>4, <2>5 DEF Untouched, Used, Filled, Dones, Freed
  <2> QED
    BY <2>1, <2>2, <2>6 DEF Account
<1> QED
  BY <1>1, <1>2, <1>3 DEF AccountInv

\* The facts the steps start from.
LEMMA Facts ==
  ASSUME AccountInv
  PROVE  /\ FeedInv /\ FeedTypes /\ BookInv /\ out \in Seq(Log)
         /\ depths \in [Sides -> SUBSET BookOrder] /\ logSeq \in Nat /\ tradeSeq \in Nat
         /\ \A i \in OrderIds : /\ Account(i) /\ placed[i] \in Orders /\ placed[i].id = i
                                /\ placed[i] \in BookOrder
BY OrdersType DEF AccountInv, FeedInv, FeedTypes, PlacedOK, BookInv, BookTypeOK

\* Once an order is marked as seen, or nothing more of it is delivered, it stays so.
LEMMA FreshShrinks ==
  ASSUME FeedTypes, NEW i \in OrderIds, window \subseteq window',
         delivered' = delivered \/ \E j \in OrderIds : delivered' = [delivered EXCEPT ![j] = @ + 1]
  PROVE  Fresh(i)' => Fresh(i)
<1>1. delivered[i] \in Nat /\ MaxDeliveries \in Nat /\ delivered \in [OrderIds -> Nat]
  BY FeedAssumption DEF FeedTypes
<1>2. delivered'[i] = delivered[i] \/ delivered'[i] = delivered[i] + 1
  BY <1>1
<1>3. delivered'[i] < MaxDeliveries => delivered[i] < MaxDeliveries
  BY <1>1, <1>2
<1>4. Rejected(i) => Rejected(i)'
  BY DEF Rejected
<1> QED
  BY <1>3, <1>4 DEF Fresh

\* The totals are about the logs and the tables of the consumers.
LEMMA SameTotals ==
  ASSUME NEW i \in OrderIds, UNCHANGED <<placed, filled, spent, released>>
  PROVE  /\ \A logs : /\ Used(i, logs)' = Used(i, logs) /\ Filled(i, logs)' = Filled(i, logs)
                      /\ Dones(i, logs)' = Dones(i, logs) /\ Freed(i, logs)' = Freed(i, logs)
         /\ Used(i, out)' = Used(i, out') /\ Filled(i, out)' = Filled(i, out')
         /\ Dones(i, out)' = Dones(i, out') /\ Freed(i, out)' = Freed(i, out')
<1>1. /\ PartOf(i)' = PartOf(i) /\ CostOf(i)' = CostOf(i)
      /\ DoneOf(i)' = DoneOf(i) /\ FreedOf(i)' = FreedOf(i)
  BY DEF PartOf, CostOf, DoneOf, FreedOf
<1> QED
  BY <1>1 DEF Used, Filled, Dones, Freed

LEMMA DeliverAccount ==
  ASSUME Once, AccountInv, NEW i \in OrderIds, Deliver(i)
  PROVE  AccountInv'
<1>1. /\ FeedInv /\ FeedTypes /\ BookInv
      /\ \A j \in OrderIds : Account(j) /\ placed[j] \in Orders /\ placed[j].id = j /\ placed[j] \in BookOrder
  BY Facts
<1>2. /\ delivered[i] < MaxDeliveries /\ Receive(placed[i])
      /\ delivered' = [delivered EXCEPT ![i] = @ + 1]
      /\ UNCHANGED <<placed, cancels, push, offset, filled, spent, released>>
  BY DEF Deliver
<1>3. FeedInv'
  BY <1>1, NextInv DEF Next
<1>4. FeedTypes'
  <2>1. delivered \in [OrderIds -> Nat]
    BY <1>1 DEF FeedTypes
  <2>2. delivered' \in [OrderIds -> Nat]
    BY <1>2, <2>1
  <2> QED
    BY <1>1, <1>2, <2>2 DEF FeedTypes
<1>5. UNCHANGED <<depths, out>> /\ taker = NoTaker /\ out = <<>> /\ window \subseteq window'
  BY <1>2 DEF Receive, Put, bookVars, Idle
<1>6. \A j : Resting(j)' = Resting(j)
  BY <1>5 DEF Resting
<1>7. ASSUME NEW j \in OrderIds
      PROVE  /\ Used(j, out)' = Used(j, out) /\ Filled(j, out)' = Filled(j, out)
             /\ Dones(j, out)' = Dones(j, out) /\ Freed(j, out)' = Freed(j, out)
             /\ Fresh(j)' => Fresh(j)
  <2>1. Fresh(j)' => Fresh(j)
    BY <1>1, <1>2, <1>5, FreshShrinks
  <2> QED
    BY <1>2, <1>5, <2>1, SameTotals
<1>8. \A j \in OrderIds : taker.id # j
  BY <1>5, BookAssumption DEF NoTaker
<1>9. ASSUME NEW j \in OrderIds
      PROVE  Account(j)'
  <2>1. CASE Rejected(placed[i].id) \/ j # i
    <3>1. taker'.id # j
      <4>1. CASE Rejected(placed[i].id)
        BY <1>2, <1>8, <4>1 DEF Receive, bookVars
      <4>2. CASE ~ Rejected(placed[i].id)
        BY <1>1, <1>2, <2>1, <4>2, TakerClaim DEF Receive
      <4> QED
        BY <4>1, <4>2
    <3> QED
      BY <1>1, <1>2, <1>6, <1>7, <1>8, <3>1, SameAccount
  <2>2. CASE ~ Rejected(placed[i].id) /\ j = i
    <3>1. taker' = TakerOf(placed[i]) /\ Bit(i) \in window'
      BY <1>1, <1>2, <2>2 DEF Receive, Put
    <3>2. Fresh(i)
      BY <1>1, <1>2, <2>2 DEF Fresh
    <3>3. Resting(i) = {} /\ Untouched(i)
      BY <1>1, <1>8, <3>2 DEF Account, Remains, Over
    <3>4. ~ Fresh(i)'
      <4>1. CASE MaxDeliveries <= 1
        <5>1. delivered \in [OrderIds -> Nat] /\ MaxDeliveries \in Nat
          BY <1>1, FeedAssumption DEF FeedTypes
        <5>2. delivered'[i] = delivered[i] + 1 /\ delivered[i] \in Nat
          BY <1>2, <5>1
        <5>3. ~ (delivered'[i] < MaxDeliveries)
          BY <4>1, <5>1, <5>2
        <5> QED
          BY <5>3 DEF Fresh
      <4>2. CASE \A k \in OrderIds : k <= WindowCap
        BY <3>1, <4>2 DEF Fresh, Rejected
      <4> QED
        BY <4>1, <4>2 DEF Once
    <3>5. /\ taker'.side = placed[i].side /\ taker'.type = placed[i].type /\ taker'.id = i
          /\ taker'.type = "limit" => taker'.price = placed[i].price
          /\ taker'.size = placed[i].size /\ Claim(taker') = Claim(placed[i])
      BY <1>1, <3>1, OrdersType, TakerClaim
    <3>6. Used(i, out)' = 0 /\ Filled(i, out)' = 0 /\ Dones(i, out)' = 0 /\ Freed(i, out)' = 0
      BY <1>7, <3>3 DEF Untouched
    <3>7. Claim(placed[i]) \in Nat /\ placed[i].size \in Nat
      BY <1>1, ClaimType DEF BookOrder
    <3>8. Remains(i, taker)'
      BY <1>2, <3>4, <3>5, <3>6, <3>7 DEF Remains, Claim
    <3> QED
      BY <1>6, <2>2, <3>3, <3>5, <3>8 DEF Account
  <2> QED
    BY <2>1, <2>2
<1> QED
  BY <1>3, <1>4, <1>9 DEF AccountInv

LEMMA PublishAccount ==
  ASSUME AccountInv, Publish
  PROVE  AccountInv'
<1>1. /\ FeedInv /\ FeedTypes /\ BookInv /\ out \in Seq(Log)
      /\ \A j \in OrderIds : Account(j)
  BY Facts
<1>2. UNCHANGED <<depths, window, taker, placed, delivered>>
  BY DEF Publish
<1>3. FeedInv'
  BY <1>1, NextInv DEF Next
<1>4. ASSUME NEW i \in OrderIds PROVE Dones(i, out) <= 1
  <2>1. Dones(i, out) = 0 \/ Dones(i, out) = 1
    <3>1. CASE Resting(i) # {}
      BY <1>1, <3>1 DEF Account, Remains
    <3>2. CASE Resting(i) = {}
      BY <1>1, <3>2 DEF Account, Remains, Untouched, Over
    <3> QED
      BY <3>1, <3>2
  <2> QED
    BY <2>1
<1>5. ASSUME NEW i \in OrderIds
      PROVE  /\ Used(i, out)' = Used(i, out) /\ Filled(i, out)' = Filled(i, out)
             /\ Dones(i, out)' = Dones(i, out) /\ Freed(i, out)' = Freed(i, out)
             /\ filled'[i] \in Nat /\ spent'[i] \in Nat /\ released'[i] \in Seq(Nat)
  BY <1>1, <1>4, PublishTotals
<1>6. FeedTypes'
  <2>1. /\ filled' = [i \in OrderIds |-> filled'[i]]
        /\ spent' = [i \in OrderIds |-> spent'[i]]
    BY DEF Publish
  <2>2. filled' \in [OrderIds -> Nat] /\ spent' \in [OrderIds -> Nat]
    BY <1>5, <2>1
  <2>3. released \in [OrderIds -> Seq(Nat)]
    BY <1>1 DEF FeedTypes
  <2>4. released' = [i \in OrderIds |-> released'[i]]
    BY <2>3 DEF Publish
  <2>5. released' \in [OrderIds -> Seq(Nat)]
    BY <1>5, <2>4
  <2> QED
    BY <1>1, <1>2, <2>2, <2>5 DEF FeedTypes
<1>7. ASSUME NEW i \in OrderIds
      PROVE  Account(i)'
  <2>1. Resting(i)' = Resting(i) /\ (Fresh(i)' <=> Fresh(i))
    BY <1>2 DEF Resting, Fresh, Rejected
  <2> QED
    BY <1>1, <1>2, <1>5, <2>1, SameAccount
<1> QED
  BY <1>3, <1>6, <1>7 DEF AccountInv

\* The orders on the book after decrSize.
LEMMA RestingAfter ==
  ASSUME BookInv, NEW s \in Sides, NEW m \in depths[s], NEW z \in Nat, z <= m.size,
         \A x \in Resting(m.id) : x = m,
         depths' = [depths EXCEPT ![s] = Decreased(@, m, z)]
  PROVE  /\ \A i : i # m.id => Resting(i)' = Resting(i)
         /\ Resting(m.id)' = IF m.size = z THEN {} ELSE {[m EXCEPT !.size = @ - z]}
<1>1. \A i : Resting(i) = OnBook(i) /\ Resting(i)' = OnBook(i)'
  BY DEF Resting, OnBook
<1> QED
  BY <1>1, OnBookAfter

LEMMA CancelAccount ==
  ASSUME AccountInv, NEW i \in OrderIds, Cancel(i)
  PROVE  AccountInv'
<1>1. /\ FeedInv /\ FeedTypes /\ BookInv /\ out \in Seq(Log) /\ logSeq \in Nat
      /\ depths \in [Sides -> SUBSET BookOrder]
      /\ \A j \in OrderIds : Account(j) /\ placed[j] \in Orders /\ placed[j].id = j /\ placed[j] \in BookOrder
  BY Facts
<1>2. /\ CancelOrder(placed[i])
      /\ UNCHANGED <<placed, delivered, push, offset, filled, spent, released>>
  BY DEF Cancel
<1>3. FeedInv'
  BY <1>1, NextInv DEF Next
<1>4. FeedTypes'
  BY <1>1, <1>2 DEF FeedTypes
<1>5. taker' = taker /\ taker = NoTaker /\ out = <<>> /\ window \subseteq window'
  BY <1>2 DEF CancelOrder, Put, Idle
<1>6. \A j \in OrderIds : Fresh(j)' => Fresh(j)
  BY <1>1, <1>2, <1>5, FreshShrinks
<1>7. \A j \in OrderIds : taker.id # j
  BY <1>5, BookAssumption DEF NoTaker
<1>8. CASE UNCHANGED <<depths, out>>
  <2>1. \A j : Resting(j)' = Resting(j)
    BY <1>8 DEF Resting
  <2>2. ASSUME NEW j \in OrderIds PROVE Account(j)'
    <3>1. /\ Used(j, out)' = Used(j, out) /\ Filled(j, out)' = Filled(j, out)
          /\ Dones(j, out)' = Dones(j, out) /\ Freed(j, out)' = Freed(j, out)
      BY <1>2, <1>8, SameTotals
    <3> QED
      BY <1>1, <1>2, <1>5, <1>6, <2>1, <3>1, SameAccount
  <2> QED
    BY <1>3, <1>4, <2>2 DEF AccountInv
<1>9. ASSUME NEW x \in depths[placed[i].side], x.id = i,
             depths' = [depths EXCEPT ![placed[i].side] = Decreased(@, x, x.size)],
             out' = <<DoneLog(logSeq + 1, x, x.size, "cancelled")>>
      PROVE  AccountInv'
  <2>1. PICK s \in Sides : s = placed[i].side
    BY <1>1 DEF BookOrder
  <2>2. x \in BookOrder /\ x \in Resting(i) /\ x.size \in Nat
    <3>1. x \in BookOrder
      BY <1>1, <1>9, <2>1
    <3> QED
      BY <1>9, <2>1, <3>1 DEF Resting, Sides, BookOrder
  <2>3. Resting(i) = {x} /\ Remains(i, x)
    BY <1>1, <2>2 DEF Account
  <2>4. (\A j : j # i => Resting(j)' = Resting(j)) /\ Resting(i)' = {}
    <3>1. depths' = [depths EXCEPT ![s] = Decreased(@, x, x.size)]
      BY <1>9, <2>1
    <3>2. x \in depths[s] /\ x.size <= x.size /\ \A y \in Resting(x.id) : y = x
      BY <1>9, <2>1, <2>2, <2>3
    <3>3. /\ \A j : j # x.id => Resting(j)' = Resting(j)
          /\ Resting(x.id)' = IF x.size = x.size THEN {} ELSE {[x EXCEPT !.size = @ - x.size]}
      BY <1>1, <2>2, <3>1, <3>2, RestingAfter
    <3> QED
      BY <1>9, <3>3
  <2>5. PICK log \in Log : log = DoneLog(logSeq + 1, x, x.size, "cancelled")
    BY <1>1, <2>2, LogTypes
  <2>6. out' = Append(out, log)
    BY <1>5, <1>9, <2>5
  <2>7. log.type = "done" /\ log.order = i /\ log.size = x.size
    BY <1>9, <2>5 DEF DoneLog
  <2>8. ASSUME NEW j \in OrderIds, j # i PROVE Account(j)'
    <3>1. ~ Party(log, j) /\ ~ Ends(log, j)
      BY <2>7, <2>8 DEF Party, Ends
    <3>2. /\ Used(j, out)' = Used(j, out) /\ Filled(j, out)' = Filled(j, out)
          /\ Dones(j, out)' = Dones(j, out) /\ Freed(j, out)' = Freed(j, out)
      BY <1>1, <1>2, <2>6, <3>1, SameTotals, OtherLog
    <3> QED
      BY <1>1, <1>2, <1>5, <1>6, <2>4, <2>8, <3>2, SameAccount
  <2>9. Account(i)'
    <3>1. Ends(log, i)
      BY <2>7 DEF Ends
    <3>2. /\ Used(i, out)' = Used(i, out) /\ Filled(i, out)' = Filled(i, out)
          /\ Dones(i, out)' = Dones(i, out) + 1 /\ Freed(i, out)' = Freed(i, out) + x.size
      BY <1>1, <1>2, <2>6, <2>7, <3>1, SameTotals, DoneLogAdds
    <3>3. Used(i, out) \in Nat /\ Claim(x) \in Nat /\ Claim(placed[i]) \in Nat
      BY <1>1, <2>2, TotalTypes, ClaimType
    <3>4. x.type = placed[i].type /\ Claim(placed[i])' = Claim(placed[i])
      BY <1>2, <2>3 DEF Remains, Claim
    <3>5. Used(i, out)' <= Claim(placed[i])
      BY <2>3, <3>2, <3>3 DEF Remains
    <3>6. Dones(i, out)' = 1 /\ Freed(i, out)' = x.size
      BY <2>2, <2>3, <3>2 DEF Remains
    <3>7. placed[i].type = "limit" => Filled(i, out)' + Freed(i, out)' = placed[i].size
      BY <2>3, <3>2, <3>4, <3>6 DEF Remains
    <3>8. ~ Fresh(i)'
      BY <1>6, <2>3 DEF Remains
    <3>9. Over(i)'
      BY <1>2, <3>4, <3>5, <3>6, <3>7, <3>8 DEF Over
    <3>10. taker'.id # i
      BY <1>5, <1>7
    <3> QED
      BY <2>4, <3>9, <3>10 DEF Account
  <2> QED
    BY <1>3, <1>4, <2>8, <2>9 DEF AccountInv
<1> QED
  BY <1>1, <1>2, <1>8, <1>9 DEF CancelOrder

LEMMA FinishAccount ==
  ASSUME AccountInv, Finish
  PROVE  AccountInv'
<1>1. /\ FeedInv /\ FeedTypes /\ BookInv /\ out \in Seq(Log) /\ logSeq \in Nat
      /\ depths \in [Sides -> SUBSET BookOrder]
      /\ \A j \in OrderIds : Account(j) /\ placed[j] \in Orders /\ placed[j].id = j /\ placed[j] \in BookOrder
  BY Facts
<1>2. FinishTaker /\ UNCHANGED <<placed, delivered, filled, spent, released>>
  BY DEF Finish, feedVars
<1>3. FeedInv'
  BY <1>1, NextInv DEF Next
<1>4. FeedTypes'
  BY <1>1, <1>2 DEF FeedTypes
<1>5. taker # NoTaker /\ taker' = NoTaker /\ window' = window
  BY <1>2 DEF FinishTaker
<1>6. taker \in BookOrder /\ taker.id \in OrderIds /\ taker.side \in Sides /\ taker.size \in Nat
  BY <1>1, <1>5 DEF BookInv, BookTypeOK, BookOrder
<1>7. PICK i \in OrderIds : i = taker.id
  BY <1>6
<1>8. Resting(i) = {} /\ Remains(i, taker)
  BY <1>1, <1>7 DEF Account
<1>9. \A j \in OrderIds : (Fresh(j)' <=> Fresh(j)) /\ taker'.id # j
  BY <1>2, <1>5, BookAssumption DEF Fresh, Rejected, NoTaker
<1>10. ASSUME NEW log \in Log, out' = Append(out, log), log.type # "match", log.order = i,
              \A j : j # i => Resting(j)' = Resting(j)
       PROVE  \A j \in OrderIds : j # i => Account(j)'
  <2> SUFFICES ASSUME NEW j \in OrderIds, j # i PROVE Account(j)'
    OBVIOUS
  <2>1. ~ Party(log, j) /\ ~ Ends(log, j)
    BY <1>10 DEF Party, Ends
  <2>2. /\ Used(j, out)' = Used(j, out) /\ Filled(j, out)' = Filled(j, out)
        /\ Dones(j, out)' = Dones(j, out) /\ Freed(j, out)' = Freed(j, out)
    BY <1>1, <1>2, <1>10, <2>1, SameTotals, OtherLog
  <2> QED
    BY <1>1, <1>2, <1>7, <1>9, <1>10, <2>2, SameAccount
<1>11. CASE /\ taker.type = "limit" /\ taker.size > 0
            /\ depths' = [depths EXCEPT ![taker.side] = Added(@, taker)]
            /\ out' = Append(out, OpenLog(logSeq + 1, taker))
  <2>1. PICK log \in Log : log = OpenLog(logSeq + 1, taker)
    BY <1>1, <1>6, LogTypes
  <2>2. log.type = "open" /\ log.order = i
    BY <1>7, <2>1 DEF OpenLog
  <2>3. (\A j : j # i => Resting(j)' = Resting(j)) /\ Resting(i)' = {taker}
    <3>1. PICK s \in Sides : s = taker.side
      BY <1>6
    <3>2. /\ depths'[s] = {x \in depths[s] : x.id # i} \cup {taker}
          /\ \A t \in Sides : t # s => depths'[t] = depths[t]
      BY <1>1, <1>7, <1>11, <3>1 DEF Added
    <3>3. \A t \in Sides : \A x \in depths[t] : x.id # i
      BY <1>8 DEF Resting, Sides
    <3>4. depths'["buy"] \cup depths'["sell"] = depths["buy"] \cup depths["sell"] \cup {taker}
      BY <3>2, <3>3 DEF Sides
    <3>5. \A j : Resting(j)' = {o \in depths["buy"] \cup depths["sell"] \cup {taker} : o.id = j}
      BY <3>4 DEF Resting
    <3>6. ASSUME NEW j, j # i PROVE Resting(j)' = Resting(j)
      BY <1>7, <3>5, <3>6 DEF Resting
    <3>7. Resting(i)' = {taker}
      BY <1>7, <3>3, <3>5 DEF Sides
    <3> QED
      BY <3>6, <3>7
  <2>4. \A j \in OrderIds : j # i => Account(j)'
    BY <1>10, <1>11, <2>1, <2>2, <2>3
  <2>5. /\ Used(i, out)' = Used(i, out) /\ Filled(i, out)' = Filled(i, out)
        /\ Dones(i, out)' = Dones(i, out) /\ Freed(i, out)' = Freed(i, out)
    <3>1. ~ Party(log, i) /\ ~ Ends(log, i)
      BY <2>2 DEF Party, Ends
    <3> QED
      BY <1>1, <1>2, <1>11, <2>1, <3>1, SameTotals, OtherLog
  <2>6. PICK t : t = taker
    OBVIOUS
  <2>7. Remains(i, t)'
    BY <1>2, <1>8, <1>9, <2>5, <2>6 DEF Remains
  <2>8. Account(i)'
    BY <1>9, <2>3, <2>6, <2>7 DEF Account
  <2> QED
    BY <1>3, <1>4, <2>4, <2>8 DEF AccountInv
<1>12. ASSUME NEW log \in Log, out' = Append(out, log), UNCHANGED depths, log.type = "done",
              log.order = i, log.size = 0, taker.type = "limit" => taker.size = 0
       PROVE  AccountInv'
  <2>1. \A j : Resting(j)' = Resting(j)
    BY <1>12 DEF Resting
  <2>2. \A j \in OrderIds : j # i => Account(j)'
    BY <1>10, <1>12, <2>1
  <2>3. Ends(log, i)
    BY <1>12 DEF Ends
  <2>4. /\ Used(i, out)' = Used(i, out) /\ Filled(i, out)' = Filled(i, out)
        /\ Dones(i, out)' = Dones(i, out) + 1 /\ Freed(i, out)' = Freed(i, out) + 0
    BY <1>1, <1>2, <1>12, <2>3, SameTotals, DoneLogAdds
  <2>5. Used(i, out) \in Nat /\ Filled(i, out) \in Nat /\ Claim(taker) \in Nat /\ Claim(placed[i]) \in Nat
    BY <1>1, <1>6, TotalTypes, ClaimType
  <2>6. Used(i, out)' <= Claim(placed[i])
    BY <1>8, <2>4, <2>5 DEF Remains
  <2>7. Dones(i, out)' = 1 /\ Freed(i, out)' = 0
    BY <1>8, <2>4 DEF Remains
  <2>8. placed[i].type = "limit" => Filled(i, out)' + Freed(i, out)' = placed[i].size
    BY <1>8, <1>12, <2>4, <2>5, <2>7 DEF Remains
  <2>9. ~ Fresh(i)'
    BY <1>8, <1>9 DEF Remains
  <2>10. Claim(placed[i])' = Claim(placed[i])
    BY <1>2 DEF Claim
  <2>11. Over(i)'
    BY <1>2, <2>6, <2>7, <2>8, <2>9, <2>10 DEF Over
  <2>12. Account(i)'
    BY <1>8, <1>9, <2>1, <2>11 DEF Account
  <2> QED
    BY <1>3, <1>4, <2>2, <2>12 DEF AccountInv
<1>13. CASE /\ taker.type = "limit" /\ taker.size = 0
            /\ out' = Append(out, DoneLog(logSeq + 1, taker, 0, "filled"))
            /\ UNCHANGED depths
  <2>1. PICK log \in Log : log = DoneLog(logSeq + 1, taker, 0, "filled")
    BY <1>1, <1>6, LogTypes
  <2>2. log.type = "done" /\ log.order = i /\ log.size = 0
    BY <1>7, <2>1 DEF DoneLog
  <2> QED
    BY <1>12, <1>13, <2>1, <2>2
<1>14. CASE /\ taker.type = "market" /\ UNCHANGED depths
            /\ out' = Append(out,
                 DoneLog(logSeq + 1, [taker EXCEPT !.price = 0], 0,
                         IF (IF taker.side = "buy" THEN taker.funds
                                                   ELSE taker.size) > 0
                         THEN "cancelled" ELSE "filled"))
  <2>1. PICK t \in BookOrder : t = [taker EXCEPT !.price = 0] /\ t.id = taker.id
    <3>1. [taker EXCEPT !.price = 0] \in BookOrder
      BY <1>6 DEF BookOrder
    <3>2. [taker EXCEPT !.price = 0].id = taker.id
      BY <1>6 DEF BookOrder
    <3> QED
      BY <3>1, <3>2
  <2>2. PICK w \in {"filled", "cancelled"} :
          w = IF (IF taker.side = "buy" THEN taker.funds ELSE taker.size) > 0 THEN "cancelled" ELSE "filled"
    OBVIOUS
  <2>3. PICK log \in Log : log = DoneLog(logSeq + 1, t, 0, w)
    <3>1. logSeq + 1 \in Nat
      BY <1>1
    <3>2. DoneLog(logSeq + 1, t, 0, w) \in Log
      BY <3>1, LogTypes
    <3> QED
      BY <3>2
  <2>4. log.type = "done" /\ log.order = i /\ log.size = 0
    BY <1>7, <2>1, <2>3 DEF DoneLog
  <2>5. out' = Append(out, log)
    BY <1>14, <2>1, <2>2, <2>3
  <2> QED
    BY <1>12, <1>14, <2>4, <2>5
<1> QED
  BY <1>2, <1>11, <1>13, <1>14 DEF FinishTaker

\* A trade of z in order i, of which o was left and n is left now.
LEMMA TradeRemains ==
  ASSUME FeedTypes, NEW i \in OrderIds, placed[i] \in BookOrder, out \in Seq(Log),
         NEW o \in BookOrder, Remains(i, o), NEW n \in BookOrder, NEW z \in Nat, NEW q \in Nat,
         n.side = o.side, n.type = o.type, n.price = o.price,
         MarketBuy(o) => z * q <= o.funds /\ n.funds = o.funds - z * q,
         ~ MarketBuy(o) => z <= o.size /\ n.size = o.size - z,
         o.side = "buy" /\ o.type = "limit" => q <= o.price,
         NEW log \in Log, Party(log, i), log.size = z, log.price = q
  PROVE  /\ Used(i, Append(out, log)) + Claim(n) <= Claim(placed[i])
         /\ n.type = "limit" => Filled(i, Append(out, log)) + n.size = placed[i].size
         /\ Dones(i, Append(out, log)) = 0 /\ Freed(i, Append(out, log)) = 0
<1>1. (IF o.side = "buy" THEN z * q ELSE z) + Claim(n) <= Claim(o)
  BY ClaimPays
<1>2. PICK c \in Nat : c = IF o.side = "buy" THEN z * q ELSE z
  <2>1. z * q \in Nat
    OBVIOUS
  <2> QED
    BY <2>1
<1>3. o.side = placed[i].side
  BY DEF Remains
<1>4. /\ Used(i, Append(out, log)) = Used(i, out) + c
      /\ Filled(i, Append(out, log)) = Filled(i, out) + z
      /\ Dones(i, Append(out, log)) = Dones(i, out) /\ Freed(i, Append(out, log)) = Freed(i, out)
  BY <1>2, <1>3, MatchLogAdds
<1>5. Used(i, out) \in Nat /\ Filled(i, out) \in Nat
  BY TotalTypes
<1>6. Claim(n) \in Nat /\ Claim(o) \in Nat /\ Claim(placed[i]) \in Nat
  BY ClaimType
<1>7. Used(i, out) + Claim(o) <= Claim(placed[i]) /\ Dones(i, out) = 0 /\ Freed(i, out) = 0
  BY DEF Remains
<1>8. Used(i, Append(out, log)) + Claim(n) <= Claim(placed[i])
  <2>1. c + Claim(n) <= Claim(o)
    BY <1>1, <1>2
  <2>2. \A u, x, y, p \in Nat : c + x <= y /\ u + y <= p => (u + c) + x <= p
    OBVIOUS
  <2>3. (Used(i, out) + c) + Claim(n) <= Claim(placed[i])
    BY <1>5, <1>6, <1>7, <2>1, <2>2
  <2> QED
    BY <1>4, <2>3
<1>9. n.type = "limit" => Filled(i, Append(out, log)) + n.size = placed[i].size
  <2> SUFFICES ASSUME n.type = "limit" PROVE Filled(i, Append(out, log)) + n.size = placed[i].size
    OBVIOUS
  <2>1. Filled(i, out) + o.size = placed[i].size
    BY DEF Remains
  <2>2. n.size = o.size - z /\ z <= o.size /\ o.size \in Nat
    BY DEF MarketBuy, BookOrder
  <2> QED
    BY <1>4, <1>5, <2>1, <2>2
<1> QED
  BY <1>4, <1>7, <1>8, <1>9

LEMMA MatchAccount ==
  ASSUME AccountInv, Match
  PROVE  AccountInv'
<1>1. /\ FeedInv /\ FeedTypes /\ BookInv /\ out \in Seq(Log) /\ logSeq \in Nat /\ tradeSeq \in Nat
      /\ depths \in [Sides -> SUBSET BookOrder]
      /\ \A j \in OrderIds : Account(j) /\ placed[j] \in Orders /\ placed[j].id = j /\ placed[j] \in BookOrder
  BY Facts
<1>2. MatchMaker /\ UNCHANGED <<placed, delivered, filled, spent, released>>
  BY DEF Match, feedVars
<1>3. FeedInv'
  BY <1>1, NextInv DEF Next
<1>4. FeedTypes'
  BY <1>1, <1>2 DEF FeedTypes
<1>5. taker # NoTaker /\ window' = window
  BY <1>2 DEF MatchMaker
<1>6. PICK m \in left :
        LET side == Opposite(taker.side)
            size == Smaller(Wanted(taker, m), m.size)
            full == size = m.size
        IN /\ Crosses(taker, m)
           /\ Wanted(taker, m) # 0
           /\ taker' = IF MarketBuy(taker)
                       THEN [taker EXCEPT !.funds = @ - size * m.price]
                       ELSE [taker EXCEPT !.size = @ - size]
           /\ depths' = [depths EXCEPT ![side] = Decreased(@, m, size)]
           /\ out' = out \o <<MatchLog(logSeq + 1, tradeSeq + 1, taker, m, size)>>
                         \o (IF full THEN <<DoneLog(logSeq + 2, m, 0, "filled")>>
                                     ELSE <<>>)
  BY <1>2 DEF MatchMaker
<1>7. PICK z : z = Smaller(Wanted(taker, m), m.size)
  OBVIOUS
<1>8. PICK s \in Sides : s = Opposite(taker.side)
  BY <1>1, <1>5, <1>6, TradeSize DEF BookInv
<1>9. /\ m \in BookOrder /\ m.price \in Nat \ {0} /\ m \in depths[s] /\ taker \in BookOrder
      /\ z \in Nat /\ z <= m.size
      /\ MarketBuy(taker) => z * m.price \in Nat /\ z * m.price <= taker.funds
      /\ ~ MarketBuy(taker) => z <= taker.size
  BY <1>1, <1>5, <1>6, <1>7, <1>8, TradeSize DEF BookInv
<1>10. /\ Crosses(taker, m)
       /\ taker' = IF MarketBuy(taker) THEN [taker EXCEPT !.funds = @ - z * m.price]
                                       ELSE [taker EXCEPT !.size = @ - z]
       /\ depths' = [depths EXCEPT ![s] = Decreased(@, m, z)]
       /\ out' = out \o <<MatchLog(logSeq + 1, tradeSeq + 1, taker, m, z)>>
                     \o (IF z = m.size THEN <<DoneLog(logSeq + 2, m, 0, "filled")>> ELSE <<>>)
  BY <1>6, <1>7, <1>8
<1>11. m.side = s /\ m.type = "limit" /\ m.id \in OrderIds /\ taker.id \in OrderIds /\ m.size \in Nat
  BY <1>1, <1>8, <1>9 DEF BookInv, DepthsOK, BookOrder
<1>12. PICK a \in OrderIds, b \in OrderIds : a = taker.id /\ b = m.id
  BY <1>11
<1>13. Resting(a) = {} /\ Remains(a, taker)
  BY <1>1, <1>12 DEF Account
<1>14. m \in Resting(b)
  BY <1>8, <1>9, <1>12 DEF Resting, Sides
<1>15. a # b /\ Resting(b) = {m} /\ Remains(b, m)
  BY <1>1, <1>13, <1>14 DEF Account
<1>16. PICK n : n = [m EXCEPT !.size = @ - z]
  OBVIOUS
<1>17. /\ \A j : j # b => Resting(j)' = Resting(j)
       /\ Resting(b)' = IF m.size = z THEN {} ELSE {n}
  <2>1. \A x \in Resting(m.id) : x = m
    BY <1>12, <1>15
  <2>2. /\ \A j : j # m.id => Resting(j)' = Resting(j)
        /\ Resting(m.id)' = IF m.size = z THEN {} ELSE {[m EXCEPT !.size = @ - z]}
    BY <1>1, <1>9, <1>10, <2>1, RestingAfter
  <2> QED
    BY <1>12, <1>16, <2>2
<1>18. PICK log \in Log : log = MatchLog(logSeq + 1, tradeSeq + 1, taker, m, z)
  <2>1. logSeq + 1 \in Nat /\ tradeSeq + 1 \in Nat
    BY <1>1
  <2> QED
    BY <1>9, <2>1, LogTypes
<1>19. PICK done \in Log : done = DoneLog(logSeq + 2, m, 0, "filled")
  <2>1. logSeq + 2 \in Nat
    BY <1>1
  <2> QED
    BY <1>9, <2>1, LogTypes
<1>20. log.type = "match" /\ log.order = a /\ log.maker = b /\ log.size = z /\ log.price = m.price
  BY <1>12, <1>18 DEF MatchLog
<1>21. done.type = "done" /\ done.order = b /\ done.size = 0
  BY <1>12, <1>19 DEF DoneLog
<1>22. PICK with \in Seq(Log) : with = Append(out, log)
  <2>1. Append(out, log) \in Seq(Log)
    BY <1>1
  <2> QED
    BY <2>1
<1>23. out' = IF z = m.size THEN Append(with, done) ELSE with
  <2>1. out' = IF z = m.size THEN out \o <<log>> \o <<done>> ELSE out \o <<log>> \o <<>>
    BY <1>10, <1>18, <1>19
  <2>2. out \o <<log>> = with
    BY <1>1, <1>22
  <2>3. with \o <<done>> = Append(with, done) /\ with \o <<>> = with
    OBVIOUS
  <2> QED
    BY <2>1, <2>2, <2>3
<1>24. ASSUME NEW j \in OrderIds, j # b
       PROVE  /\ Used(j, out)' = Used(j, with) /\ Filled(j, out)' = Filled(j, with)
              /\ Dones(j, out)' = Dones(j, with) /\ Freed(j, out)' = Freed(j, with)
  <2>1. ~ Party(done, j) /\ ~ Ends(done, j)
    BY <1>21, <1>24 DEF Party, Ends
  <2>2. /\ Used(j, Append(with, done)) = Used(j, with) /\ Filled(j, Append(with, done)) = Filled(j, with)
        /\ Dones(j, Append(with, done)) = Dones(j, with) /\ Freed(j, Append(with, done)) = Freed(j, with)
    BY <1>1, <2>1, OtherLog
  <2> QED
    BY <1>2, <1>23, <2>2, SameTotals
<1>25. /\ taker' \in BookOrder /\ taker'.side = taker.side /\ taker'.type = taker.type
       /\ taker'.price = taker.price /\ taker'.id = a
       /\ MarketBuy(taker) => taker'.funds = taker.funds - z * m.price
       /\ ~ MarketBuy(taker) => taker'.size = taker.size - z
  <2>1. CASE MarketBuy(taker)
    <3>1. taker' = [taker EXCEPT !.funds = @ - z * m.price]
      BY <1>10, <2>1
    <3>2. taker.funds - z * m.price \in Nat
      BY <1>9, <2>1 DEF BookOrder
    <3> QED
      BY <1>9, <1>12, <2>1, <3>1, <3>2 DEF BookOrder
  <2>2. CASE ~ MarketBuy(taker)
    <3>1. taker' = [taker EXCEPT !.size = @ - z]
      BY <1>10, <2>2
    <3>2. taker.size - z \in Nat
      BY <1>9, <2>2 DEF BookOrder
    <3> QED
      BY <1>9, <1>12, <2>2, <3>1, <3>2 DEF BookOrder
  <2> QED
    BY <2>1, <2>2
<1>26. n \in BookOrder /\ n.side = m.side /\ n.type = m.type /\ n.price = m.price /\ n.size = m.size - z
  <2>1. m.size - z \in Nat
    BY <1>9, <1>11
  <2>2. n \in BookOrder
    BY <1>9, <1>16, <2>1 DEF BookOrder
  <2> QED
    BY <1>9, <1>16, <2>2 DEF BookOrder
<1>27. \A j \in OrderIds : Fresh(j)' <=> Fresh(j)
  BY <1>2, <1>5 DEF Fresh, Rejected
<1>28. \A j : Claim(placed[j])' = Claim(placed[j])
  BY <1>2 DEF Claim
<1>29. ASSUME NEW j \in OrderIds, j # a, j # b PROVE Account(j)'
  <2>1. ~ Party(log, j) /\ ~ Ends(log, j)
    BY <1>20, <1>29 DEF Party, Ends
  <2>2. /\ Used(j, with) = Used(j, out) /\ Filled(j, with) = Filled(j, out)
        /\ Dones(j, with) = Dones(j, out) /\ Freed(j, with) = Freed(j, out)
    BY <1>1, <1>22, <2>1, OtherLog
  <2>3. Resting(j)' = Resting(j) /\ taker.id # j /\ taker'.id # j
    BY <1>12, <1>17, <1>25, <1>29
  <2>4. /\ Used(j, out)' = Used(j, out) /\ Filled(j, out)' = Filled(j, out)
        /\ Dones(j, out)' = Dones(j, out) /\ Freed(j, out)' = Freed(j, out)
    BY <1>24, <1>29, <2>2
  <2> QED
    BY <1>1, <1>2, <1>27, <2>3, <2>4, SameAccount
<1>30. Account(a)'
  <2>1. PICK t \in BookOrder : t = taker'
    BY <1>25
  <2>2. PICK q \in Nat : q = m.price
    BY <1>9
  <2>3. taker.side = "buy" /\ taker.type = "limit" => q <= taker.price
    BY <1>10, <2>2 DEF Crosses
  <2>4. Party(log, a)
    BY <1>20 DEF Party
  <2>5. /\ t.side = taker.side /\ t.type = taker.type /\ t.price = taker.price
        /\ MarketBuy(taker) => z * q <= taker.funds /\ t.funds = taker.funds - z * q
        /\ ~ MarketBuy(taker) => z <= taker.size /\ t.size = taker.size - z
        /\ log.size = z /\ log.price = q
    BY <1>9, <1>20, <1>25, <2>1, <2>2
  <2>6. /\ Used(a, with) + Claim(t) <= Claim(placed[a])
        /\ t.type = "limit" => Filled(a, with) + t.size = placed[a].size
        /\ Dones(a, with) = 0 /\ Freed(a, with) = 0
    BY <1>1, <1>9, <1>13, <1>22, <2>3, <2>4, <2>5, TradeRemains
  <2>7. /\ t.side = placed[a].side /\ t.type = placed[a].type /\ ~ Fresh(a)
        /\ t.type = "limit" => t.price = placed[a].price
    BY <1>13, <2>5 DEF Remains
  <2>8. Claim(taker)' = Claim(t)
    BY <2>1 DEF Claim
  <2>9. Remains(a, taker)'
    BY <1>2, <1>15, <1>24, <1>27, <1>28, <2>1, <2>6, <2>7, <2>8 DEF Remains
  <2>10. Resting(a)' = {}
    BY <1>13, <1>15, <1>17
  <2> QED
    BY <1>25, <2>9, <2>10 DEF Account
<1>31. Account(b)'
  <2>1. PICK q \in Nat : q = m.price
    BY <1>9
  <2>2. Party(log, b)
    BY <1>20 DEF Party
  <2>3. /\ ~ MarketBuy(m) /\ z <= m.size /\ log.size = z /\ log.price = q /\ q <= m.price
    BY <1>9, <1>11, <1>20, <2>1 DEF MarketBuy
  <2>4. /\ Used(b, with) + Claim(n) <= Claim(placed[b])
        /\ n.type = "limit" => Filled(b, with) + n.size = placed[b].size
        /\ Dones(b, with) = 0 /\ Freed(b, with) = 0
    BY <1>1, <1>9, <1>15, <1>22, <1>26, <2>2, <2>3, TradeRemains
  <2>5. /\ n.side = placed[b].side /\ n.type = placed[b].type /\ ~ Fresh(b)
        /\ n.price = placed[b].price /\ n.type = "limit"
    BY <1>11, <1>15, <1>26 DEF Remains
  <2>6. taker'.id # b
    BY <1>15, <1>25
  <2>7. CASE z # m.size
    <3>1. out' = with /\ Resting(b)' = {n}
      BY <1>17, <1>23, <2>7
    <3>2. /\ Used(b, out)' = Used(b, with) /\ Filled(b, out)' = Filled(b, with)
          /\ Dones(b, out)' = Dones(b, with) /\ Freed(b, out)' = Freed(b, with)
      BY <1>2, <3>1, SameTotals
    <3>3. Remains(b, n)'
      BY <1>2, <1>27, <1>28, <2>4, <2>5, <3>2 DEF Remains
    <3> QED
      BY <2>6, <3>1, <3>3 DEF Account
  <2>8. CASE z = m.size
    <3>1. out' = Append(with, done) /\ Resting(b)' = {}
      BY <1>17, <1>23, <2>8
    <3>2. Ends(done, b)
      BY <1>21 DEF Ends
    <3>3. /\ Used(b, out)' = Used(b, with) /\ Filled(b, out)' = Filled(b, with)
          /\ Dones(b, out)' = Dones(b, with) + 1 /\ Freed(b, out)' = Freed(b, with) + 0
      BY <1>1, <1>2, <1>21, <3>1, <3>2, SameTotals, DoneLogAdds
    <3>4. Used(b, with) \in Nat /\ Filled(b, with) \in Nat /\ Claim(n) \in Nat /\ Claim(placed[b]) \in Nat
      BY <1>1, <1>26, TotalTypes, ClaimType
    <3>5. Used(b, out)' <= Claim(placed[b]) /\ Dones(b, out)' = 1 /\ Freed(b, out)' = 0
      BY <2>4, <3>3, <3>4
    <3>6. n.size = 0
      BY <1>11, <1>26, <2>8
    <3>7. Filled(b, out)' + Freed(b, out)' = placed[b].size
      BY <2>4, <2>5, <3>3, <3>4, <3>5, <3>6
    <3>8. Over(b)'
      BY <1>2, <1>27, <1>28, <2>5, <3>5, <3>7 DEF Over
    <3> QED
      BY <2>6, <3>1, <3>8 DEF Account
  <2> QED
    BY <2>7, <2>8
<1> QED
  BY <1>3, <1>4, <1>29, <1>30, <1>31 DEF AccountInv

LEMMA AccountStep ==
  ASSUME Once, AccountInv, [Next]_vars
  PROVE  AccountInv'
<1>1. CASE Next
  BY <1>1, DeliverAccount, CancelAccount, MatchAccount, FinishAccount, PublishAccount DEF Next
<1>2. CASE UNCHANGED vars
  <2>1. FeedInv'
    BY <1>2, NextInv DEF AccountInv
  <2>2. FeedTypes'
    BY <1>2 DEF AccountInv, FeedTypes, vars, feedVars
  <2>3. ASSUME NEW i \in OrderIds PROVE Account(i)'
    <3>1. Account(i)
      BY DEF AccountInv
    <3>2. /\ UNCHANGED <<placed, filled, spent, released>> /\ taker' = taker /\ out' = out
          /\ Resting(i)' = Resting(i) /\ (Fresh(i)' <=> Fresh(i))
      BY <1>2 DEF vars, feedVars, bookVars, Resting, Fresh, Rejected
    <3>3. /\ Used(i, out)' = Used(i, out) /\ Filled(i, out)' = Filled(i, out)
          /\ Dones(i, out)' = Dones(i, out) /\ Freed(i, out)' = Freed(i, out)
      BY <3>2, SameTotals
    <3> QED
      BY <3>1, <3>2, <3>3, SameAccount
  <2> QED
    BY <2>1, <2>2, <2>3 DEF AccountInv
<1> QED
  BY <1>1, <1>2

\* What the fills of an order charge never exceeds what PlaceOrder put on hold for it, as
\* long as no order message is matched twice: a limit order trades at its price or better, a
\* market buy spends no more than its funds, and a cancel or a duplicate in between changes
\* nothing.  Without the hypothesis it is false (SpotDuplicate).
THEOREM ChargedWithinHold ==
  ASSUME Once
  PROVE  Spec => []WithinHold
<1>1. ASSUME AccountInv PROVE WithinHold
  <2>1. ASSUME NEW i \in OrderIds
        PROVE  /\ placed[i].side = "buy" => spent[i] <= placed[i].funds
               /\ placed[i].side = "sell" => filled[i] <= placed[i].size
    <3>1. FeedTypes /\ Account(i) /\ placed[i] \in Orders /\ placed[i] \in BookOrder /\ out \in Seq(Log)
      BY <1>1, Facts
    <3>2. Claim(placed[i]) \in Nat /\ filled[i] \in Nat /\ spent[i] \in Nat
      BY <3>1, ClaimType DEF FeedTypes
    <3>3. /\ Used(i, out) \in Nat
          /\ Used(i, out) >= IF placed[i].side = "buy" THEN spent[i] ELSE filled[i]
      BY <3>1, TotalTypes
    <3>4. Used(i, out) <= Claim(placed[i])
      <4>1. CASE \E o \in BookOrder : Remains(i, o)
        <5>1. PICK o \in BookOrder : Remains(i, o)
          BY <4>1
        <5>2. Used(i, out) + Claim(o) <= Claim(placed[i]) /\ Claim(o) \in Nat
          BY <5>1, ClaimType DEF Remains
        <5> QED
          BY <3>2, <3>3, <5>2
      <4>2. CASE Untouched(i) \/ Over(i)
        BY <3>2, <4>2 DEF Untouched, Over
      <4>3. (\E o \in BookOrder : Remains(i, o)) \/ Untouched(i) \/ Over(i)
        <5>1. Resting(i) \subseteq BookOrder /\ (taker.id = i => taker \in BookOrder)
          BY <1>1, BookAssumption DEF AccountInv, FeedInv, BookInv, BookTypeOK, Resting, Sides, NoTaker
        <5> QED
          BY <3>1, <5>1 DEF Account
      <4> QED
        BY <4>1, <4>2, <4>3
    <3> QED
      BY <3>1, <3>2, <3>3, <3>4, HoldClaim
  <2> QED
    BY <2>1 DEF WithinHold
<1>2. AccountInv /\ [Next]_vars => AccountInv'
  BY AccountStep
<1> QED
  BY <1>1, <1>2, AccountInit, PTL DEF Spec

\* Every unit of a limit order rests on the book, has been traded, or has been released by
\* exactly one done log once the logs are out, as long as no order message is matched twice.
THEOREM LimitsAddUp ==
  ASSUME Once
  PROVE  Spec => []LimitAccounted
<1>1. ASSUME AccountInv PROVE LimitAccounted
  <2> SUFFICES ASSUME Quiet, NEW i \in OrderIds, placed[i].type = "limit",
                      Resting(i) # {} \/ filled[i] > 0 \/ released[i] # <<>>
               PROVE  /\ Len(released[i]) <= 1
                      /\ (released[i] # <<>>) = (Resting(i) = {})
                      /\ \A x \in Resting(i) : Resting(i) = {x} /\ placed[i].size = filled[i] + x.size
                      /\ released[i] # <<>> => placed[i].size = filled[i] + released[i][1]
    BY DEF LimitAccounted
  <2>1. FeedTypes /\ Account(i)
    BY <1>1, Facts
  <2>2. filled[i] \in Nat /\ released[i] \in Seq(Nat) /\ Len(released[i]) \in Nat
    BY <2>1 DEF FeedTypes
  <2>3. taker.id # i
    BY BookAssumption DEF Quiet, Idle, NoTaker
  <2>4. \A G : Tally(G, out) = 0
    BY TallyEmpty DEF Quiet, Idle
  <2>5. PICK r \in Nat : r = IF released[i] = <<>> THEN 0 ELSE released[i][1]
    BY <2>2
  <2>6. Filled(i, out) = filled[i] /\ Dones(i, out) = Len(released[i]) /\ Freed(i, out) = r
    BY <2>2, <2>4, <2>5 DEF Filled, Dones, Freed
  <2>7. CASE Resting(i) # {}
    <3>1. \A x \in Resting(i) : Resting(i) = {x} /\ Remains(i, x)
      BY <2>1 DEF Account
    <3>2. Len(released[i]) = 0
      BY <2>6, <2>7, <3>1 DEF Remains
    <3>3. released[i] = <<>>
      BY <2>2, <3>2
    <3>4. \A x \in Resting(i) : placed[i].size = filled[i] + x.size
      BY <2>6, <3>1 DEF Remains
    <3> QED
      BY <2>7, <3>1, <3>2, <3>3, <3>4
  <2>8. CASE Resting(i) = {}
    <3>1. ~ Untouched(i)
      <4>1. ASSUME Untouched(i) PROVE FALSE
        <5>1. filled[i] = 0 /\ Len(released[i]) = 0
          BY <2>6, <4>1 DEF Untouched
        <5>2. released[i] = <<>>
          BY <2>2, <5>1
        <5> QED
          BY <2>8, <5>1, <5>2
      <4> QED
        BY <4>1
    <3>2. Over(i)
      BY <2>1, <2>3, <2>8, <3>1 DEF Account
    <3>3. Len(released[i]) = 1 /\ filled[i] + r = placed[i].size
      BY <2>6, <3>2 DEF Over
    <3>4. released[i] # <<>>
      <4>1. PICK n \in Nat : n = Len(released[i])
        BY <2>2
      <4>2. released[i] = <<>> => n = 0
        BY <4>1
      <4> QED
        BY <3>3, <4>1, <4>2
    <3> QED
      BY <2>5, <2>8, <3>3, <3>4
  <2> QED
    BY <2>7, <2>8
<1>2. AccountInv /\ [Next]_vars => AccountInv'
  BY AccountStep
<1> QED
  BY <1>1, <1>2, AccountInit, PTL DEF Spec

-----------------------------------------------------------------------------
(* The push server's copy of the book.  z is a function from order ids to the sizes that
   rest, 0 for an order that does not; q is what was placed. *)

SizesOf == [OrderIds -> Nat]

Known(z) == {i \in OrderIds : z[i] > 0}

At(q, z, s, p) == {i \in Known(z) : q[i].side = s /\ q[i].price = p}

LevelOf(q, z, s, p) ==
  [price |-> p, size |-> SumFunctionOnSet(z, At(q, z, s, p)), count |-> Cardinality(At(q, z, s, p))]

PricesOf(q, z, s) == {q[i].price : i \in {j \in Known(z) : q[j].side = s}}

LevelsOf(q, z, s) == {LevelOf(q, z, s, p) : p \in PricesOf(q, z, s)}

OrderOf(q, z, i) == [id |-> i, size |-> z[i], side |-> q[i].side, price |-> q[i].price]

OrdersOf(q, z) == {OrderOf(q, z, i) : i \in Known(z)}

\* The book b shows the sizes z.
Shows(b, q, z) ==
  /\ b = [orders |-> b.orders, levels |-> b.levels, seq |-> b.seq, logSeq |-> b.logSeq,
          logOffset |-> b.logOffset, panic |-> b.panic]
  /\ b.panic = FALSE
  /\ IsFiniteSet(Known(z))
  /\ b.orders = OrdersOf(q, z)
  /\ b.levels = [s \in Sides |-> LevelsOf(q, z, s)]

\* The sum of a level is 0 only when no order is left.
LEMMA LevelSum ==
  ASSUME NEW z \in SizesOf, IsFiniteSet(Known(z)), NEW q, NEW s, NEW p
  PROVE  /\ IsFiniteSet(At(q, z, s, p)) /\ Cardinality(At(q, z, s, p)) \in Nat
         /\ \A i \in At(q, z, s, p) : z[i] \in Nat
         /\ SumFunctionOnSet(z, At(q, z, s, p)) \in Nat
         /\ At(q, z, s, p) # {} => SumFunctionOnSet(z, At(q, z, s, p)) > 0
<1>1. At(q, z, s, p) \subseteq Known(z)
  BY DEF At
<1>2. IsFiniteSet(At(q, z, s, p))
  BY <1>1, FS_Subset
<1>3. \A i \in At(q, z, s, p) : i \in OrderIds /\ z[i] \in Nat /\ z[i] \in Int /\ z[i] > 0
  BY DEF At, Known, SizesOf
<1>4. SumFunctionOnSet(z, At(q, z, s, p)) \in Nat
  BY <1>2, <1>3, SumNat
<1>5. ASSUME NEW i \in At(q, z, s, p) PROVE SumFunctionOnSet(z, At(q, z, s, p)) > 0
  <2>1. SumFunctionOnSet(z, At(q, z, s, p)) = z[i] + SumFunctionOnSet(z, At(q, z, s, p) \ {i})
    BY <1>2, <1>3, SumWithout
  <2>2. IsFiniteSet(At(q, z, s, p) \ {i}) /\ \A j \in At(q, z, s, p) \ {i} : z[j] \in Nat
    BY <1>2, <1>3, FS_RemoveElement
  <2>3. SumFunctionOnSet(z, At(q, z, s, p) \ {i}) \in Nat
    BY <2>2, SumNat
  <2> QED
    BY <1>3, <2>1, <2>3
<1> QED
  BY <1>2, <1>3, <1>4, <1>5, FS_CardinalityType

\* A level exists for each price some order has, and only one.
LEMMA LevelFound ==
  ASSUME NEW q, NEW z \in SizesOf, NEW b, Shows(b, q, z), NEW s \in Sides, NEW p
  PROVE  LevelAt(b, s, p) = IF At(q, z, s, p) = {} THEN {} ELSE {LevelOf(q, z, s, p)}
<1>1. b.levels[s] = LevelsOf(q, z, s)
  BY DEF Shows
<1>2. \A r : LevelOf(q, z, s, r).price = r
  BY DEF LevelOf
<1>3. LevelAt(b, s, p) = {l \in LevelsOf(q, z, s) : l.price = p}
  BY <1>1 DEF LevelAt
<1>4. LevelOf(q, z, s, p) \in LevelsOf(q, z, s) <=> At(q, z, s, p) # {}
  <2>1. ASSUME LevelOf(q, z, s, p) \in LevelsOf(q, z, s) PROVE At(q, z, s, p) # {}
    <3>1. PICK i \in Known(z) : q[i].side = s /\ LevelOf(q, z, s, p) = LevelOf(q, z, s, q[i].price)
      BY <2>1 DEF LevelsOf, PricesOf
    <3>2. q[i].price = p
      BY <1>2, <3>1
    <3> QED
      BY <3>1, <3>2 DEF At
  <2>2. ASSUME NEW i \in At(q, z, s, p) PROVE LevelOf(q, z, s, p) \in LevelsOf(q, z, s)
    BY DEF At, LevelsOf, PricesOf
  <2> QED
    BY <2>1, <2>2
<1>5. \A l \in LevelsOf(q, z, s) : l.price = p => l = LevelOf(q, z, s, p)
  <2> SUFFICES ASSUME NEW l \in LevelsOf(q, z, s), l.price = p PROVE l = LevelOf(q, z, s, p)
    OBVIOUS
  <2>1. PICK r : l = LevelOf(q, z, s, r)
    BY DEF LevelsOf, PricesOf
  <2> QED
    BY <1>2, <2>1
<1> QED
  BY <1>2, <1>3, <1>4, <1>5

\* An order of the book is found by its id.
LEMMA OrderFound ==
  ASSUME NEW q, NEW z \in SizesOf, NEW b, Shows(b, q, z), NEW i \in OrderIds
  PROVE  OrderWith(b, i) = IF z[i] = 0 THEN {} ELSE {OrderOf(q, z, i)}
<1>1. b.orders = OrdersOf(q, z)
  BY DEF Shows
<1>2. \A j : OrderOf(q, z, j).id = j
  BY DEF OrderOf
<1>3. i \in Known(z) <=> z[i] # 0
  BY DEF Known, SizesOf
<1> QED
  BY <1>1, <1>2, <1>3 DEF OrderWith, OrdersOf

LEMMA LevelsIs ==
  ASSUME NEW q, NEW z, NEW s, NEW l
  PROVE  l \in LevelsOf(q, z, s) <=> \E p : At(q, z, s, p) # {} /\ l = LevelOf(q, z, s, p)
<1>1. ASSUME l \in LevelsOf(q, z, s) PROVE \E p : At(q, z, s, p) # {} /\ l = LevelOf(q, z, s, p)
  <2>1. PICK i \in Known(z) : q[i].side = s /\ l = LevelOf(q, z, s, q[i].price)
    BY <1>1 DEF LevelsOf, PricesOf
  <2>2. i \in At(q, z, s, q[i].price)
    BY <2>1 DEF At
  <2> QED
    BY <2>1, <2>2
<1>2. ASSUME NEW p, At(q, z, s, p) # {}, l = LevelOf(q, z, s, p) PROVE l \in LevelsOf(q, z, s)
  <2>1. PICK i \in Known(z) : q[i].side = s /\ q[i].price = p
    BY <1>2 DEF At
  <2> QED
    BY <1>2, <2>1 DEF LevelsOf, PricesOf
<1> QED
  BY <1>1, <1>2

\* Order i gets the size n.
Resized(z, i, n) == [z EXCEPT ![i] = n]

LEMMA KnownAfter ==
  ASSUME NEW z \in SizesOf, NEW i \in OrderIds, NEW n \in Nat, IsFiniteSet(Known(z))
  PROVE  /\ Resized(z, i, n) \in SizesOf
         /\ Resized(z, i, n)[i] = n
         /\ \A j \in OrderIds : j # i => Resized(z, i, n)[j] = z[j]
         /\ Known(Resized(z, i, n)) = IF n = 0 THEN Known(z) \ {i} ELSE Known(z) \cup {i}
         /\ IsFiniteSet(Known(Resized(z, i, n)))
<1>1. Resized(z, i, n) \in SizesOf
  BY DEF Resized, SizesOf
<1>2. Resized(z, i, n)[i] = n /\ \A j \in OrderIds : j # i => Resized(z, i, n)[j] = z[j]
  BY DEF Resized, SizesOf
<1>3. Known(Resized(z, i, n)) = IF n = 0 THEN Known(z) \ {i} ELSE Known(z) \cup {i}
  BY <1>1, <1>2 DEF Known
<1>4. IsFiniteSet(Known(z) \ {i}) /\ IsFiniteSet(Known(z) \cup {i})
  BY FS_Subset, FS_AddElement
<1> QED
  BY <1>1, <1>2, <1>3, <1>4

\* Only the level of the order changes.
LEMMA OtherLevels ==
  ASSUME NEW q, NEW z \in SizesOf, NEW i \in OrderIds, NEW n \in Nat, IsFiniteSet(Known(z)),
         NEW s, NEW p, s # q[i].side \/ p # q[i].price
  PROVE  /\ At(q, Resized(z, i, n), s, p) = At(q, z, s, p)
         /\ LevelOf(q, Resized(z, i, n), s, p) = LevelOf(q, z, s, p)
<1>1. At(q, Resized(z, i, n), s, p) = At(q, z, s, p)
  BY KnownAfter DEF At
<1>2. IsFiniteSet(At(q, z, s, p)) /\ \A j \in At(q, z, s, p) : z[j] \in Nat
  BY LevelSum
<1>3. \A j \in At(q, z, s, p) : j \in OrderIds /\ j # i
  BY DEF At, Known
<1>4. \A j \in At(q, z, s, p) : z[j] \in Int /\ z[j] = Resized(z, i, n)[j]
  BY <1>2, <1>3, KnownAfter
<1>5. SumFunctionOnSet(z, At(q, z, s, p)) = SumFunctionOnSet(Resized(z, i, n), At(q, z, s, p))
  BY <1>2, <1>4, SumEqual
<1> QED
  BY <1>1, <1>5 DEF LevelOf

\* The orders of a level without order i, and with it.
LEMMA SplitLevel ==
  ASSUME NEW q, NEW z \in SizesOf, IsFiniteSet(Known(z)), NEW i \in OrderIds,
         NEW A, A = At(q, z, q[i].side, q[i].price)
  PROVE  /\ SumFunctionOnSet(z, A) = SumFunctionOnSet(z, A \ {i}) + z[i]
         /\ SumFunctionOnSet(z, A \ {i}) \in Nat
         /\ Cardinality(A \ {i}) \in Nat
         /\ Cardinality(A) = Cardinality(A \ {i}) + IF z[i] = 0 THEN 0 ELSE 1
         /\ i \in A <=> z[i] # 0
<1>1. IsFiniteSet(A) /\ \A j \in A : z[j] \in Nat /\ z[j] \in Int
  BY LevelSum
<1>2. IsFiniteSet(A \ {i}) /\ \A j \in A \ {i} : z[j] \in Nat
  BY <1>1, FS_Subset
<1>3. SumFunctionOnSet(z, A \ {i}) \in Nat /\ Cardinality(A \ {i}) \in Nat
  BY <1>2, SumNat, FS_CardinalityType
<1>4. i \in A <=> z[i] # 0
  BY DEF At, Known, SizesOf
<1>5. CASE z[i] = 0
  <2>1. A \ {i} = A
    BY <1>4, <1>5
  <2> QED
    BY <1>3, <1>4, <1>5, <2>1
<1>6. CASE z[i] # 0
  <2>1. SumFunctionOnSet(z, A) = z[i] + SumFunctionOnSet(z, A \ {i})
    BY <1>1, <1>4, <1>6, SumWithout
  <2>2. Cardinality(A \ {i}) = Cardinality(A) - 1 /\ Cardinality(A) \in Nat
    BY <1>1, <1>4, <1>6, FS_RemoveElement, FS_CardinalityType
  <2>3. z[i] \in Nat
    BY DEF SizesOf
  <2> QED
    BY <1>3, <1>4, <1>6, <2>1, <2>2, <2>3
<1> QED
  BY <1>5, <1>6

LEMMA EmptyLevel ==
  ASSUME NEW z \in SizesOf, IsFiniteSet(Known(z)), NEW q, NEW s, NEW p
  PROVE  At(q, z, s, p) = {} <=> LevelOf(q, z, s, p).size = 0
<1>1. LevelOf(q, z, s, p).size = SumFunctionOnSet(z, At(q, z, s, p))
  BY DEF LevelOf
<1> QED
  BY <1>1, LevelSum, SumOfNone

\* An order counts unless it is empty.
One(n) == IF n = 0 THEN 0 ELSE 1

\* What the new size of an order does to its level.
LEMMA LevelAfter ==
  ASSUME NEW q, NEW z \in SizesOf, IsFiniteSet(Known(z)), NEW i \in OrderIds, NEW n \in Nat,
         NEW s, s = q[i].side, NEW p, p = q[i].price,
         NEW l, l = LevelOf(q, z, s, p), NEW m, m = LevelOf(q, Resized(z, i, n), s, p)
  PROVE  /\ m.size = l.size + (n - z[i])
         /\ m.count = l.count + (One(n) - One(z[i]))
         /\ m.price = p /\ l.price = p /\ l.size \in Nat /\ m.size \in Nat
         /\ l.count \in Nat /\ m.count \in Nat
         /\ At(q, Resized(z, i, n), s, p) = {} <=> m.size = 0
         /\ At(q, z, s, p) = {} <=> l.size = 0
         /\ At(q, z, s, p) = {} => l.count = 0
<1>1. PICK y \in SizesOf : y = Resized(z, i, n)
  BY KnownAfter
<1>2. IsFiniteSet(Known(y)) /\ y[i] = n /\ \A j \in OrderIds : j # i => y[j] = z[j]
  BY <1>1, KnownAfter
<1>3. PICK A : A = At(q, z, s, p)
  OBVIOUS
<1>4. PICK B : B = At(q, y, s, p)
  OBVIOUS
<1>5. A \ {i} = B \ {i}
  BY <1>2, <1>3, <1>4 DEF At, Known
<1>6. /\ SumFunctionOnSet(z, A) = SumFunctionOnSet(z, A \ {i}) + z[i]
      /\ SumFunctionOnSet(z, A \ {i}) \in Nat /\ Cardinality(A \ {i}) \in Nat
      /\ Cardinality(A) = Cardinality(A \ {i}) + IF z[i] = 0 THEN 0 ELSE 1
  BY <1>3, SplitLevel
<1>7. /\ SumFunctionOnSet(y, B) = SumFunctionOnSet(y, B \ {i}) + y[i]
      /\ Cardinality(B) = Cardinality(B \ {i}) + IF y[i] = 0 THEN 0 ELSE 1
  BY <1>2, <1>4, SplitLevel
<1>8. SumFunctionOnSet(z, A \ {i}) = SumFunctionOnSet(y, A \ {i})
  <2>1. IsFiniteSet(A \ {i})
    BY <1>3, LevelSum, FS_Subset
  <2>2. \A j \in A \ {i} : j \in OrderIds /\ j # i
    BY <1>3 DEF At, Known
  <2>3. \A j \in OrderIds : z[j] \in Int
    BY DEF SizesOf
  <2>4. \A j \in A \ {i} : z[j] \in Int /\ z[j] = y[j]
    BY <1>2, <2>2, <2>3
  <2> QED
    BY <2>1, <2>4, SumEqual
<1>9. /\ m.size = SumFunctionOnSet(y, B) /\ m.count = Cardinality(B) /\ m.price = p
      /\ l.size = SumFunctionOnSet(z, A) /\ l.count = Cardinality(A) /\ l.price = p
  BY <1>1, <1>3, <1>4 DEF LevelOf
<1>10. z[i] \in Nat
  BY DEF SizesOf
<1>11. /\ l.size \in Nat /\ l.count \in Nat /\ (A = {} <=> l.size = 0)
  BY <1>3, <1>9, LevelSum, SumOfNone
<1>12. /\ m.size \in Nat /\ m.count \in Nat /\ (B = {} <=> m.size = 0)
  BY <1>2, <1>4, <1>9, LevelSum, SumOfNone
<1>13. A = {} => Cardinality(A) = 0
  BY FS_EmptySet
<1>14. m.size = l.size + (n - z[i])
  <2>1. PICK c \in Nat : c = SumFunctionOnSet(z, A \ {i})
    BY <1>6
  <2>2. SumFunctionOnSet(y, B \ {i}) = c
    BY <1>5, <1>8, <2>1
  <2>3. l.size = c + z[i] /\ m.size = c + n
    BY <1>2, <1>6, <1>7, <1>9, <2>1, <2>2
  <2> QED
    BY <1>10, <2>3
<1>15. m.count = l.count + (One(n) - One(z[i]))
  <2>1. PICK c \in Nat : c = Cardinality(A \ {i})
    BY <1>6
  <2>2. Cardinality(B \ {i}) = c
    BY <1>5, <2>1
  <2>3. /\ l.count = c + One(z[i])
        /\ m.count = c + One(n)
    BY <1>2, <1>6, <1>7, <1>9, <2>1, <2>2 DEF One
  <2>4. One(z[i]) \in Nat /\ One(n) \in Nat
    BY DEF One
  <2> QED
    BY <2>3, <2>4
<1> QED
  BY <1>1, <1>3, <1>4, <1>9, <1>11, <1>12, <1>13, <1>14, <1>15

\* The levels of a side after order i got the size n.
LEMMA LevelsAfter ==
  ASSUME NEW q, NEW z \in SizesOf, IsFiniteSet(Known(z)), NEW i \in OrderIds, NEW n \in Nat,
         NEW s, NEW p, p = q[i].price
  PROVE  LevelsOf(q, Resized(z, i, n), s) =
           IF s # q[i].side THEN LevelsOf(q, z, s)
           ELSE (LevelsOf(q, z, s) \ {LevelOf(q, z, s, p)})
                  \cup (IF At(q, Resized(z, i, n), s, p) = {} THEN {}
                        ELSE {LevelOf(q, Resized(z, i, n), s, p)})
<1>1. PICK y : y = Resized(z, i, n)
  OBVIOUS
<1>2. \A r : s # q[i].side \/ r # p => At(q, y, s, r) = At(q, z, s, r) /\ LevelOf(q, y, s, r) = LevelOf(q, z, s, r)
  BY <1>1, OtherLevels
<1>3. \A r : LevelOf(q, z, s, r).price = r
  BY DEF LevelOf
<1>4. CASE s # q[i].side
  <2>1. \A l : l \in LevelsOf(q, y, s) <=> l \in LevelsOf(q, z, s)
    BY <1>2, <1>4, LevelsIs
  <2> QED
    BY <1>1, <1>4, <2>1
<1>5. CASE s = q[i].side
  <2> DEFINE R == (LevelsOf(q, z, s) \ {LevelOf(q, z, s, p)})
                    \cup (IF At(q, y, s, p) = {} THEN {} ELSE {LevelOf(q, y, s, p)})
  <2>1. ASSUME NEW l \in LevelsOf(q, y, s) PROVE l \in R
    <3>1. PICK r : At(q, y, s, r) # {} /\ l = LevelOf(q, y, s, r)
      BY LevelsIs
    <3>2. CASE r = p
      BY <3>1, <3>2
    <3>3. CASE r # p
      <4>1. l \in LevelsOf(q, z, s) /\ l = LevelOf(q, z, s, r)
        BY <1>2, <3>1, <3>3, LevelsIs
      <4> QED
        BY <1>3, <3>3, <4>1
    <3> QED
      BY <3>2, <3>3
  <2>2. ASSUME NEW l \in R PROVE l \in LevelsOf(q, y, s)
    <3>1. CASE At(q, y, s, p) # {} /\ l = LevelOf(q, y, s, p)
      BY <3>1, LevelsIs
    <3>2. CASE l \in LevelsOf(q, z, s) \ {LevelOf(q, z, s, p)}
      <4>1. PICK r : At(q, z, s, r) # {} /\ l = LevelOf(q, z, s, r)
        BY <3>2, LevelsIs
      <4>2. r # p
        BY <3>2, <4>1
      <4> QED
        BY <1>2, <4>1, <4>2, LevelsIs
    <3> QED
      BY <3>1, <3>2
  <2>3. LevelsOf(q, y, s) = R
    BY <2>1, <2>2
  <2> QED
    BY <1>1, <1>5, <2>3
<1> QED
  BY <1>4, <1>5

LEMMA OrdersAfter ==
  ASSUME NEW q, NEW z \in SizesOf, IsFiniteSet(Known(z)), NEW i \in OrderIds, NEW n \in Nat,
         NEW y, y = Resized(z, i, n)
  PROVE  OrdersOf(q, y)
           = (OrdersOf(q, z) \ {OrderOf(q, z, i)})
               \cup (IF n = 0 THEN {} ELSE {OrderOf(q, y, i)})
<1>1. Known(y) = IF n = 0 THEN Known(z) \ {i} ELSE Known(z) \cup {i}
  BY KnownAfter
<1>2. \A j \in OrderIds : j # i => OrderOf(q, y, j) = OrderOf(q, z, j)
  BY KnownAfter DEF OrderOf
<1>3. \A j, k : OrderOf(q, z, j) = OrderOf(q, z, k) => j = k
  BY DEF OrderOf
<1>4. Known(z) \subseteq OrderIds
  BY DEF Known
<1> QED
  BY <1>1, <1>2, <1>3, <1>4 DEF OrdersOf

\* LevelChanged makes the level of an order what it has to be.
LEMMA ChangedLevels ==
  ASSUME NEW q, NEW z \in SizesOf, IsFiniteSet(Known(z)), NEW i \in OrderIds, NEW n \in Nat,
         NEW s, s = q[i].side, NEW p, p = q[i].price,
         NEW y, y = Resized(z, i, n), NEW c \in Int,
         n > 0 => c = IF z[i] = 0 THEN 1 ELSE 0, n = 0 => c = -1 /\ z[i] # 0
  PROVE  LevelChanged(LevelsOf(q, z, s), LevelOf(q, z, s, p), n - z[i], c) = LevelsOf(q, y, s)
<1>1. PICK l : l = LevelOf(q, z, s, p)
  OBVIOUS
<1>2. PICK m : m = LevelOf(q, y, s, p)
  OBVIOUS
<1>3. /\ m.size = l.size + (n - z[i]) /\ m.price = p /\ l.price = p
      /\ m.count = l.count + (One(n) - One(z[i]))
      /\ At(q, y, s, p) = {} <=> m.size = 0
      /\ l.count \in Nat
  <2>1. m = LevelOf(q, Resized(z, i, n), s, p)
    BY <1>2
  <2>2. At(q, y, s, p) = At(q, Resized(z, i, n), s, p)
    OBVIOUS
  <2>3. s = q[i].side /\ p = q[i].price
    OBVIOUS
  <2>4. m.size = l.size + (n - z[i])
    BY <1>1, <2>1, <2>3, LevelAfter
  <2>5. m.price = p /\ l.price = p /\ l.count \in Nat
    BY <1>1, <2>1, <2>3, LevelAfter
  <2>6. m.count = l.count + (One(n) - One(z[i]))
    BY <1>1, <2>1, <2>3, LevelAfter
  <2>7. At(q, Resized(z, i, n), s, p) = {} <=> m.size = 0
    BY <2>1, KnownAfter, EmptyLevel
  <2> QED
    BY <2>2, <2>4, <2>5, <2>6, <2>7
<1>4. m.count = l.count + c
  <2>1. z[i] \in Nat
    BY DEF SizesOf
  <2> QED
    BY <1>3, <2>1 DEF One
<1>5. l = [price |-> l.price, size |-> l.size, count |-> l.count]
  BY <1>1 DEF LevelOf
<1>6. m = [price |-> m.price, size |-> m.size, count |-> m.count]
  BY <1>2 DEF LevelOf
<1>7. [l EXCEPT !.size = @ + (n - z[i]), !.count = @ + c] = m
  BY <1>3, <1>4, <1>5, <1>6
<1>8. LevelsOf(q, y, s) = (LevelsOf(q, z, s) \ {l}) \cup (IF m.size = 0 THEN {} ELSE {m})
  <2>1. LevelsOf(q, y, s)
          = (LevelsOf(q, z, s) \ {l}) \cup (IF At(q, y, s, p) = {} THEN {} ELSE {m})
    BY <1>1, <1>2, LevelsAfter
  <2> QED
    BY <1>3, <2>1
<1>9. LevelChanged(LevelsOf(q, z, s), l, n - z[i], c) = LevelsOf(q, y, s)
  BY <1>3, <1>7, <1>8 DEF LevelChanged
<1> QED
  BY <1>1, <1>9

\* A book whose orders and levels were changed together.
Written(b, s, O, L, c, d, e) ==
  [b EXCEPT !.orders = O, !.levels[s] = L, !.seq = c, !.logSeq = d, !.logOffset = e]

LEMMA ShowsAfter ==
  ASSUME NEW q, NEW z \in SizesOf, NEW b, Shows(b, q, z), NEW i \in OrderIds, q[i].side \in Sides,
         NEW n \in Nat, NEW y, y = Resized(z, i, n), NEW O, NEW L, NEW c, NEW d, NEW e,
         O = OrdersOf(q, y), L = LevelsOf(q, y, q[i].side)
  PROVE  Shows(Written(b, q[i].side, O, L, c, d, e), q, y)
<1>1. PICK s \in Sides : s = q[i].side
  OBVIOUS
<1>2. PICK a : a = Written(b, s, O, L, c, d, e)
  OBVIOUS
<1>3. b = [orders |-> b.orders, levels |-> b.levels, seq |-> b.seq, logSeq |-> b.logSeq,
           logOffset |-> b.logOffset, panic |-> b.panic]
  BY DEF Shows
<1>4. a = [orders |-> O, levels |-> [b.levels EXCEPT ![s] = L], seq |-> c, logSeq |-> d,
           logOffset |-> e, panic |-> b.panic]
  BY <1>2, <1>3 DEF Written
<1>5. IsFiniteSet(Known(y))
  BY KnownAfter DEF Shows
<1>6. b.levels = [t \in Sides |-> LevelsOf(q, z, t)]
  BY DEF Shows
<1>7. \A t \in Sides : t # s => LevelsOf(q, y, t) = LevelsOf(q, z, t)
  BY <1>1, LevelsAfter DEF Shows
<1>8. [b.levels EXCEPT ![s] = L] = [t \in Sides |-> LevelsOf(q, y, t)]
  BY <1>1, <1>6, <1>7
<1>9. a.levels = [t \in Sides |-> LevelsOf(q, y, t)] /\ a.orders = O /\ a.panic = b.panic
  BY <1>4, <1>8
<1>10. a = [orders |-> a.orders, levels |-> a.levels, seq |-> a.seq, logSeq |-> a.logSeq,
           logOffset |-> a.logOffset, panic |-> a.panic]
  BY <1>4
<1>11. a.panic = FALSE
  BY <1>9 DEF Shows
<1>12. Shows(a, q, y)
  BY <1>5, <1>9, <1>10, <1>11 DEF Shows
<1> QED
  BY <1>1, <1>2, <1>12

LEMMA ChooseOne ==
  ASSUME NEW x
  PROVE  (CHOOSE y \in {x} : TRUE) = x
  OBVIOUS

\* saveOrder, for an order that is known.
LEMMA KnownFollows ==
  ASSUME NEW q, NEW z \in SizesOf, NEW b, Shows(b, q, z), NEW i \in OrderIds, q[i].side \in Sides,
         NEW n \in Nat, z[i] > 0, NEW d, NEW e
  PROVE  Shows(SaveOrder(b, e, d, i, n, q[i].price, q[i].side), q, Resized(z, i, n))
<1>1. PICK y : y = Resized(z, i, n)
  OBVIOUS
<1>2. PICK s \in Sides : s = q[i].side
  OBVIOUS
<1>3. PICK p : p = q[i].price
  OBVIOUS
<1>4. IsFiniteSet(Known(z)) /\ z[i] \in Nat
  BY DEF Shows, SizesOf
<1>5. PICK o : o = OrderOf(q, z, i)
  OBVIOUS
<1>6. OrderWith(b, i) = {o} /\ (CHOOSE x \in OrderWith(b, i) : TRUE) = o
  BY <1>4, <1>5, OrderFound, ChooseOne
<1>7. PICK l : l = LevelOf(q, z, s, p)
  OBVIOUS
<1>8. LevelAt(b, s, p) = {l} /\ (CHOOSE x \in LevelAt(b, s, p) : TRUE) = l
  <2>1. i \in At(q, z, s, p)
    BY <1>2, <1>3 DEF At, Known
  <2> QED
    BY <1>7, <2>1, LevelFound, ChooseOne
<1>9. SaveOrder(b, e, d, i, n, p, s) = SaveKnown(b, e, d, o, n, p, s)
  <2>1. ~ (n < 0)
    OBVIOUS
  <2> QED
    BY <1>6, <2>1 DEF SaveOrder
<1>10. PICK O : O = (b.orders \ {o}) \cup (IF n = 0 THEN {} ELSE {[o EXCEPT !.size = n]})
  OBVIOUS
<1>11. PICK c : c = IF n = 0 THEN -1 ELSE 0
  OBVIOUS
<1>12. PICK L : L = LevelChanged(b.levels[s], l, n - o.size, c)
  OBVIOUS
<1>13. SaveKnown(b, e, d, o, n, p, s)
         = Written(b, s, O, L, b.seq + 1, d, e)
  <2>1. b = [orders |-> b.orders, levels |-> b.levels, seq |-> b.seq, logSeq |-> b.logSeq,
             logOffset |-> b.logOffset, panic |-> b.panic]
    BY DEF Shows
  <2>2. b.levels = [t \in Sides |-> b.levels[t]]
    BY DEF Shows
  <2> QED
    BY <1>8, <1>10, <1>11, <1>12, <2>1, <2>2 DEF SaveKnown, Written
<1>14. O = OrdersOf(q, y)
  <2>1. [o EXCEPT !.size = n] = OrderOf(q, y, i)
    BY <1>1, <1>4, <1>5, KnownAfter DEF OrderOf
  <2>2. b.orders = OrdersOf(q, z)
    BY DEF Shows
  <2> QED
    BY <1>1, <1>4, <1>5, <1>10, <2>1, <2>2, OrdersAfter
<1>15. L = LevelsOf(q, y, s)
  <2>1. b.levels[s] = LevelsOf(q, z, s) /\ o.size = z[i]
    BY <1>5 DEF Shows, OrderOf
  <2>2. c \in Int /\ (n > 0 => c = IF z[i] = 0 THEN 1 ELSE 0) /\ (n = 0 => c = -1 /\ z[i] # 0)
    BY <1>4, <1>11
  <2>3. LevelChanged(LevelsOf(q, z, s), LevelOf(q, z, s, p), n - z[i], c) = LevelsOf(q, y, s)
    BY <1>1, <1>2, <1>3, <1>4, <2>2, ChangedLevels
  <2> QED
    BY <1>7, <1>12, <2>1, <2>3
<1>16. Shows(Written(b, q[i].side, O, L, b.seq + 1, d, e), q, y)
  BY <1>1, <1>2, <1>14, <1>15, ShowsAfter
<1> QED
  BY <1>1, <1>2, <1>3, <1>9, <1>13, <1>16

\* saveOrder, for an order that is new.
LEMMA NewFollows ==
  ASSUME NEW q, NEW z \in SizesOf, NEW b, Shows(b, q, z), NEW i \in OrderIds, q[i].side \in Sides,
         NEW n \in Nat, z[i] = 0, n > 0, NEW d, NEW e
  PROVE  Shows(SaveOrder(b, e, d, i, n, q[i].price, q[i].side), q, Resized(z, i, n))
<1>1. PICK y : y = Resized(z, i, n)
  OBVIOUS
<1>2. PICK s \in Sides : s = q[i].side
  OBVIOUS
<1>3. PICK p : p = q[i].price
  OBVIOUS
<1>4. IsFiniteSet(Known(z)) /\ z[i] \in Nat
  BY DEF Shows, SizesOf
<1>5. OrderWith(b, i) = {}
  BY OrderFound
<1>6. PICK l : l = LevelOf(q, z, s, p)
  OBVIOUS
<1>7. SaveOrder(b, e, d, i, n, p, s) = SaveNew(b, e, d, i, n, p, s)
  <2>1. ~ (n < 0) /\ n # 0
    OBVIOUS
  <2> QED
    BY <1>5, <2>1 DEF SaveOrder
<1>8. PICK O : O = b.orders \cup {[id |-> i, size |-> n, side |-> s, price |-> p]}
  OBVIOUS
<1>9. PICK L : L = IF LevelAt(b, s, p) = {}
                   THEN b.levels[s] \cup {[price |-> p, size |-> n, count |-> 1]}
                   ELSE LevelChanged(b.levels[s], CHOOSE x \in LevelAt(b, s, p) : TRUE, n, 1)
  OBVIOUS
<1>10. SaveNew(b, e, d, i, n, p, s)
         = Written(b, s, O, L, b.seq + 1, d, e)
  <2>1. b = [orders |-> b.orders, levels |-> b.levels, seq |-> b.seq, logSeq |-> b.logSeq,
             logOffset |-> b.logOffset, panic |-> b.panic]
    BY DEF Shows
  <2> QED
    BY <1>8, <1>9, <2>1 DEF SaveNew, Written
<1>11. O = OrdersOf(q, y)
  <2>1. OrderOf(q, y, i) = [id |-> i, size |-> n, side |-> s, price |-> p]
    BY <1>1, <1>2, <1>3, <1>4, KnownAfter DEF OrderOf
  <2>2. b.orders = OrdersOf(q, z)
    BY DEF Shows
  <2>3. OrderOf(q, z, i) \notin b.orders
    <3>1. \A j \in Known(z) : j # i
      BY DEF Known
    <3> QED
      BY <2>2, <3>1 DEF OrderOf, OrdersOf
  <2> QED
    BY <1>1, <1>4, <1>8, <2>1, <2>2, <2>3, OrdersAfter
<1>12. b.levels[s] = LevelsOf(q, z, s)
  BY DEF Shows
<1>13. L = LevelsOf(q, y, s)
  <2>1. CASE At(q, z, s, p) = {}
    <3>1. LevelAt(b, s, p) = {}
      BY <2>1, LevelFound
    <3>2. PICK m : m = LevelOf(q, y, s, p)
      OBVIOUS
    <3>3. l.size = 0 /\ l.count = 0
      BY <1>1, <1>2, <1>3, <1>4, <1>6, <2>1, <3>2, LevelAfter
    <3>4. m.size = l.size + (n - z[i]) /\ m.count = l.count + (One(n) - One(z[i]))
      BY <1>1, <1>2, <1>3, <1>4, <1>6, <3>2, LevelAfter
    <3>5. m.size = n /\ m.count = 1
      BY <3>3, <3>4 DEF One
    <3>6. m = [price |-> p, size |-> n, count |-> 1]
      BY <3>2, <3>5 DEF LevelOf
    <3>7. At(q, y, s, p) # {}
      BY <1>1, <1>4, <3>2, <3>5, KnownAfter, EmptyLevel
    <3>8. l \notin LevelsOf(q, z, s)
      <4>1. ASSUME l \in LevelsOf(q, z, s) PROVE FALSE
        <5>1. PICK r : At(q, z, s, r) # {} /\ l = LevelOf(q, z, s, r)
          BY <4>1, LevelsIs
        <5>2. r = p
          BY <1>6, <5>1 DEF LevelOf
        <5> QED
          BY <2>1, <5>1, <5>2
      <4> QED
        BY <4>1
    <3>9. LevelsOf(q, y, s) = (LevelsOf(q, z, s) \ {l}) \cup {m}
      BY <1>1, <1>2, <1>3, <1>4, <1>6, <3>2, <3>7, LevelsAfter
    <3> QED
      BY <1>9, <1>12, <3>1, <3>6, <3>8, <3>9
  <2>2. CASE At(q, z, s, p) # {}
    <3>1. LevelAt(b, s, p) = {l} /\ (CHOOSE x \in LevelAt(b, s, p) : TRUE) = l
      BY <1>6, <2>2, LevelFound, ChooseOne
    <3>2. LevelChanged(LevelsOf(q, z, s), l, n - z[i], 1) = LevelsOf(q, y, s)
      <4>1. 1 \in Int /\ (n > 0 => 1 = IF z[i] = 0 THEN 1 ELSE 0) /\ (n = 0 => 1 = -1 /\ z[i] # 0)
        OBVIOUS
      <4> QED
        BY <1>1, <1>2, <1>3, <1>4, <1>6, <4>1, ChangedLevels
    <3>3. n - z[i] = n
      OBVIOUS
    <3> QED
      BY <1>9, <1>12, <3>1, <3>2, <3>3
  <2> QED
    BY <2>1, <2>2
<1>14. Shows(Written(b, q[i].side, O, L, b.seq + 1, d, e), q, y)
  BY <1>1, <1>2, <1>11, <1>13, ShowsAfter
<1> QED
  BY <1>1, <1>2, <1>3, <1>7, <1>10, <1>14

-----------------------------------------------------------------------------
(* The logs. *)

\* What a log does to the sizes.
Effect(z, log) ==
  CASE log.type = "open" -> Resized(z, log.order, log.size)
    [] log.type = "match" -> Resized(z, log.maker, z[log.maker] - log.size)
    [] log.type = "done" ->
         IF z[log.order] = 0 THEN z ELSE Resized(z, log.order, z[log.order] - log.size)

\* The log carries the side and the price of order i.
Names(q, i, log) == i \in OrderIds /\ log.price = q[i].price /\ log.side = q[i].side

\* runApplier can apply the log to the sizes.
Fits(q, z, log) ==
  /\ log \in Log
  /\ log.type = "open" => log.size > 0 /\ Names(q, log.order, log)
  /\ log.type = "match" =>
       z[log.maker] > 0 /\ log.size <= z[log.maker] /\ Names(q, log.maker, log)
  /\ log.type = "done" /\ z[log.order] # 0 =>
       log.size <= z[log.order] /\ Names(q, log.order, log)

LEMMA EffectType ==
  ASSUME NEW q, NEW z \in SizesOf, NEW log, Fits(q, z, log)
  PROVE  Effect(z, log) \in SizesOf
<1>1. /\ log.size \in Nat /\ log.type \in {"open", "match", "done"} /\ log.order \in OrderIds
  BY DEF Fits, Log
<1>2. \A i \in OrderIds : z[i] \in Nat
  BY DEF SizesOf
<1>3. \A i \in OrderIds, n \in Nat : Resized(z, i, n) \in SizesOf
  BY DEF Resized, SizesOf
<1>4. CASE log.type = "open"
  BY <1>1, <1>3, <1>4 DEF Effect
<1>5. CASE log.type = "match"
  <2>1. log.maker \in OrderIds /\ z[log.maker] - log.size \in Nat
    BY <1>1, <1>2, <1>5 DEF Fits, Names
  <2> QED
    BY <1>3, <1>5, <2>1 DEF Effect
<1>6. CASE log.type = "done" /\ z[log.order] = 0
  BY <1>6 DEF Effect
<1>7. CASE log.type = "done" /\ z[log.order] # 0
  <2>1. z[log.order] - log.size \in Nat
    BY <1>1, <1>2, <1>7 DEF Fits
  <2> QED
    BY <1>1, <1>3, <1>7, <2>1 DEF Effect
<1> QED
  BY <1>1, <1>4, <1>5, <1>6, <1>7

LEMMA SaveFollows ==
  ASSUME NEW q, NEW z \in SizesOf, NEW b, Shows(b, q, z), NEW i \in OrderIds, q[i].side \in Sides,
         NEW n \in Nat, z[i] > 0 \/ n > 0, NEW d, NEW e
  PROVE  Shows(SaveOrder(b, e, d, i, n, q[i].price, q[i].side), q, Resized(z, i, n))
<1>1. z[i] \in Nat
  BY DEF SizesOf
<1>2. CASE z[i] > 0
  BY <1>2, KnownFollows
<1>3. CASE z[i] = 0 /\ n > 0
  BY <1>3, NewFollows
<1> QED
  BY <1>1, <1>2, <1>3

\* runApplier does not panic, and its book shows the sizes after the log.
LEMMA ApplyFollows ==
  ASSUME NEW q, NEW z \in SizesOf, NEW b, Shows(b, q, z), NEW log, Fits(q, z, log), NEW e
  PROVE  Shows(ApplyLog(b, e, log), q, Effect(z, log))
<1>1. /\ log.size \in Nat /\ log.type \in {"open", "match", "done"} /\ log.order \in OrderIds
      /\ log.side \in Sides
  BY DEF Fits, Log
<1>2. \A i \in OrderIds : z[i] \in Nat
  BY DEF SizesOf
<1>3. ASSUME NEW i \in OrderIds, z[i] # 0
      PROVE  OrderWith(b, i) # {} /\ (CHOOSE o \in OrderWith(b, i) : TRUE).size = z[i]
  <2>1. OrderWith(b, i) = {OrderOf(q, z, i)}
    BY <1>3, OrderFound
  <2>2. (CHOOSE o \in OrderWith(b, i) : TRUE) = OrderOf(q, z, i)
    BY <2>1, ChooseOne
  <2> QED
    BY <2>1, <2>2 DEF OrderOf
<1>4. CASE log.type = "open"
  <2>1. PICK i \in OrderIds : i = log.order
    BY <1>1
  <2>2. log.size > 0 /\ log.price = q[i].price /\ log.side = q[i].side
    BY <1>4, <2>1 DEF Fits, Names
  <2>3. ApplyLog(b, e, log) = SaveOrder(b, e, log.seq, i, log.size, q[i].price, q[i].side)
    BY <1>4, <2>1, <2>2 DEF ApplyLog
  <2>4. Effect(z, log) = Resized(z, i, log.size)
    BY <1>4, <2>1 DEF Effect
  <2> QED
    BY <1>1, <2>2, <2>3, <2>4, SaveFollows
<1>5. CASE log.type = "match"
  <2>1. PICK i \in OrderIds : i = log.maker
    BY <1>5 DEF Fits, Names
  <2>2. z[i] > 0 /\ log.size <= z[i] /\ log.price = q[i].price /\ log.side = q[i].side
    BY <1>5, <2>1 DEF Fits, Names
  <2>3. z[i] - log.size \in Nat
    BY <1>1, <1>2, <2>2
  <2>4. ApplyLog(b, e, log) = SaveOrder(b, e, log.seq, i, z[i] - log.size, q[i].price, q[i].side)
    BY <1>3, <1>5, <2>1, <2>2 DEF ApplyLog
  <2>5. Effect(z, log) = Resized(z, i, z[i] - log.size)
    BY <1>5, <2>1 DEF Effect
  <2> QED
    BY <1>1, <2>2, <2>3, <2>4, <2>5, SaveFollows
<1>6. CASE log.type = "done" /\ z[log.order] = 0
  <2>1. OrderWith(b, log.order) = {}
    BY <1>1, <1>6, OrderFound
  <2>2. ApplyLog(b, e, log) = b
    BY <1>6, <2>1 DEF ApplyLog
  <2> QED
    BY <1>6, <2>2 DEF Effect
<1>7. CASE log.type = "done" /\ z[log.order] # 0
  <2>1. PICK i \in OrderIds : i = log.order
    BY <1>1
  <2>2. z[i] > 0 /\ log.size <= z[i] /\ log.price = q[i].price /\ log.side = q[i].side
    BY <1>2, <1>7, <2>1 DEF Fits, Names
  <2>3. z[i] - log.size \in Nat
    BY <1>1, <1>2, <2>2
  <2>4. ApplyLog(b, e, log) = SaveOrder(b, e, log.seq, i, z[i] - log.size, q[i].price, q[i].side)
    BY <1>3, <1>7, <2>1, <2>2 DEF ApplyLog
  <2>5. Effect(z, log) = Resized(z, i, z[i] - log.size)
    BY <1>7, <2>1 DEF Effect
  <2> QED
    BY <1>1, <2>2, <2>3, <2>4, <2>5, SaveFollows
<1> QED
  BY <1>1, <1>4, <1>5, <1>6, <1>7

\* v are the sizes before, between and after the logs.
Replay(q, v, logs) ==
  /\ v \in [0 .. Len(logs) -> SizesOf]
  /\ \A k \in 1 .. Len(logs) : Fits(q, v[k - 1], logs[k]) /\ v[k] = Effect(v[k - 1], logs[k])

LEMMA ReplayMore ==
  ASSUME NEW q, NEW logs \in Seq(Log), NEW v, Replay(q, v, logs), NEW log,
         Fits(q, v[Len(logs)], log)
  PROVE  \E w : /\ Replay(q, w, Append(logs, log)) /\ w[0] = v[0]
                /\ w[Len(Append(logs, log))] = Effect(v[Len(logs)], log)
<1>1. PICK n \in Nat : n = Len(logs)
  OBVIOUS
<1>2. log \in Log
  BY DEF Fits
<1>3. v \in [0 .. n -> SizesOf] /\ \A k \in 1 .. n : Fits(q, v[k - 1], logs[k]) /\ v[k] = Effect(v[k - 1], logs[k])
  BY <1>1 DEF Replay
<1>4. PICK z \in SizesOf : z = Effect(v[n], log)
  <2>1. v[n] \in SizesOf
    BY <1>3
  <2> QED
    BY <1>1, <2>1, EffectType
<1>5. PICK all : all = Append(logs, log)
  OBVIOUS
<1>6. Len(all) = n + 1 /\ all[n + 1] = log /\ \A k \in 1 .. n : all[k] = logs[k]
  BY <1>1, <1>2, <1>5
<1>7. PICK w : w = [k \in 0 .. n + 1 |-> IF k = n + 1 THEN z ELSE v[k]]
  OBVIOUS
<1>8. w \in [0 .. n + 1 -> SizesOf]
  BY <1>3, <1>7
<1>9. w[n + 1] = z /\ \A k \in 0 .. n : w[k] = v[k]
  BY <1>7
<1>10. ASSUME NEW k \in 1 .. n + 1 PROVE Fits(q, w[k - 1], all[k]) /\ w[k] = Effect(w[k - 1], all[k])
  <2>1. CASE k = n + 1
    <3>1. k - 1 = n /\ w[k - 1] = v[n] /\ all[k] = log /\ w[k] = z
      BY <1>6, <1>9, <2>1
    <3> QED
      BY <1>1, <1>4, <3>1
  <2>2. CASE k \in 1 .. n
    <3>1. k - 1 \in 0 .. n /\ k \in 0 .. n
      BY <2>2
    <3>2. w[k - 1] = v[k - 1] /\ all[k] = logs[k] /\ w[k] = v[k]
      BY <1>6, <1>9, <2>2, <3>1
    <3> QED
      BY <1>3, <2>2, <3>2
  <2> QED
    BY <2>1, <2>2
<1>11. Replay(q, w, all)
  BY <1>6, <1>8, <1>10 DEF Replay
<1>12. w[0] = v[0] /\ w[Len(all)] = Effect(v[Len(logs)], log)
  BY <1>1, <1>4, <1>6, <1>9
<1> QED
  BY <1>5, <1>11, <1>12

LEMMA ReplayRest ==
  ASSUME NEW q, NEW logs \in Seq(Log), logs # <<>>, NEW v, Replay(q, v, logs)
  PROVE  \E w : /\ Replay(q, w, Tail(logs)) /\ w[0] = Effect(v[0], Head(logs))
                /\ w[Len(Tail(logs))] = v[Len(logs)]
                /\ Fits(q, v[0], Head(logs)) /\ v[0] \in SizesOf
<1>1. PICK n \in Nat : n + 1 = Len(logs)
  <2>1. Len(logs) \in Nat /\ Len(logs) # 0
    OBVIOUS
  <2>2. Len(logs) - 1 \in Nat /\ (Len(logs) - 1) + 1 = Len(logs)
    BY <2>1
  <2> QED
    BY <2>2
<1>2. PICK rest : rest = Tail(logs)
  OBVIOUS
<1>3. Len(rest) = n /\ Head(logs) = logs[1] /\ \A k \in 1 .. n : rest[k] = logs[k + 1]
  BY <1>1, <1>2
<1>4. v \in [0 .. n + 1 -> SizesOf] /\ \A k \in 1 .. n + 1 : Fits(q, v[k - 1], logs[k]) /\ v[k] = Effect(v[k - 1], logs[k])
  BY <1>1 DEF Replay
<1>5. PICK w : w = [k \in 0 .. n |-> v[k + 1]]
  OBVIOUS
<1>6. w \in [0 .. n -> SizesOf] /\ \A k \in 0 .. n : w[k] = v[k + 1]
  BY <1>4, <1>5
<1>7. ASSUME NEW k \in 1 .. n PROVE Fits(q, w[k - 1], rest[k]) /\ w[k] = Effect(w[k - 1], rest[k])
  <2>1. k - 1 \in 0 .. n /\ k \in 0 .. n /\ (k - 1) + 1 = k /\ k + 1 \in 1 .. n + 1 /\ (k + 1) - 1 = k
    OBVIOUS
  <2>2. w[k - 1] = v[k] /\ w[k] = v[k + 1] /\ rest[k] = logs[k + 1]
    BY <1>3, <1>6, <2>1
  <2> QED
    BY <1>4, <2>1, <2>2
<1>8. Replay(q, w, rest)
  BY <1>3, <1>6, <1>7 DEF Replay
<1>9. 1 \in 1 .. n + 1 /\ 1 - 1 = 0 /\ 0 \in 0 .. n + 1 /\ 0 \in 0 .. n /\ n \in 0 .. n
  OBVIOUS
<1>10. v[1] = Effect(v[0], logs[1]) /\ Fits(q, v[0], logs[1]) /\ v[0] \in SizesOf
  BY <1>4, <1>9
<1>11. w[0] = v[1] /\ w[n] = v[n + 1]
  BY <1>6, <1>9
<1> QED
  BY <1>1, <1>2, <1>3, <1>8, <1>10, <1>11

-----------------------------------------------------------------------------
(* The engine's book. *)

\* What is left of order i.
Part(q, z, i) == [q[i] EXCEPT !.size = z[i]]

\* The orders that rest in the depths d have the sizes z.
Rests(d, q, z) ==
  /\ \A s \in Sides : \A o \in d[s] : o.id \in Known(z) /\ q[o.id].side = s /\ o = Part(q, z, o.id)
  /\ \A i \in Known(z) : q[i].type = "limit" /\ Part(q, z, i) \in d[q[i].side]

\* The taker is what is left of the order that was placed.
TakerIs(t, q) ==
  t # NoTaker =>
    /\ t.id \in OrderIds /\ t.side = q[t.id].side /\ t.type = q[t.id].type
    /\ t.type = "limit" => t = [q[t.id] EXCEPT !.size = t.size]

PlacedAs(q) == \A i \in OrderIds : q[i] \in BookOrder /\ q[i].id = i

LEMMA PartIs ==
  ASSUME NEW q, PlacedAs(q), NEW z \in SizesOf, NEW i \in OrderIds
  PROVE  /\ Part(q, z, i).id = i /\ Part(q, z, i).size = z[i]
         /\ Part(q, z, i).side = q[i].side /\ Part(q, z, i).price = q[i].price
         /\ Part(q, z, i).type = q[i].type /\ Part(q, z, i).funds = q[i].funds
  BY DEF Part, PlacedAs, BookOrder

\* Two parts of an order with the same size are the same.
LEMMA PartSame ==
  ASSUME NEW q, NEW z, NEW y, NEW i, z[i] = y[i]
  PROVE  Part(q, z, i) = Part(q, y, i)
  BY DEF Part

\* The depths after depth.decrSize.
Lessened(d, s, m, n) == [d EXCEPT ![s] = Decreased(@, m, n)]

LEMMA RestsLess ==
  ASSUME NEW q, PlacedAs(q), NEW z \in SizesOf, NEW d \in [Sides -> SUBSET BookOrder], Rests(d, q, z),
         NEW s \in Sides, NEW m \in d[s], NEW n \in Nat, n <= m.size
  PROVE  /\ m.id \in OrderIds /\ z[m.id] > 0 /\ z[m.id] = m.size
         /\ m.price = q[m.id].price /\ m.side = q[m.id].side /\ q[m.id].side = s
         /\ Rests(Lessened(d, s, m, n), q, Resized(z, m.id, z[m.id] - n))
<1>1. PICK i \in OrderIds : i = m.id
  BY DEF Rests, Known
<1>2. z[i] > 0 /\ q[i].side = s /\ m = Part(q, z, i) /\ i \in Known(z)
  BY <1>1 DEF Rests, Known
<1>3. m.size = z[i] /\ m.price = q[i].price /\ m.side = q[i].side /\ q[i].type = "limit" /\ z[i] \in Nat
  BY <1>2, PartIs DEF Rests, SizesOf
<1>4. PICK k \in Nat : k = z[i] - n
  BY <1>3
<1>5. PICK y \in SizesOf : y = Resized(z, i, k)
  BY DEF Resized, SizesOf
<1>6. y[i] = k /\ \A j \in OrderIds : j # i => y[j] = z[j]
  BY <1>5 DEF Resized, SizesOf
<1>7. PICK c : c = Lessened(d, s, m, n)
  OBVIOUS
<1>8. \A t \in Sides : c[t] = IF t = s THEN Decreased(d[s], m, n) ELSE d[t]
  BY <1>7 DEF Lessened
<1>9. [m EXCEPT !.size = @ - n] = Part(q, y, i)
  <2>1. m \in BookOrder
    OBVIOUS
  <2>2. q[i] \in BookOrder
    BY DEF PlacedAs
  <2>3. m.size - n = y[i]
    BY <1>3, <1>4, <1>6
  <2>4. [m EXCEPT !.size = @ - n] = [m EXCEPT !.size = y[i]]
    BY <2>1, <2>3 DEF BookOrder
  <2>5. [m EXCEPT !.size = y[i]] = [q[i] EXCEPT !.size = y[i]]
    BY <1>2, <2>2 DEF BookOrder, Part
  <2> QED
    BY <2>4, <2>5 DEF Part
<1>10. Decreased(d[s], m, n) = (d[s] \ {m}) \cup (IF k = 0 THEN {} ELSE {Part(q, y, i)})
  <2>1. m.size = n <=> k = 0
    BY <1>3, <1>4
  <2> QED
    BY <1>9, <2>1 DEF Decreased
<1>11. \A o \in d[s] : o # m => o.id # i
  BY <1>2 DEF Rests
<1>12. ASSUME NEW t \in Sides, NEW o \in c[t]
       PROVE  o.id \in Known(y) /\ q[o.id].side = t /\ o = Part(q, y, o.id)
  <2>1. CASE t = s /\ k # 0 /\ o = Part(q, y, i)
    <3>1. o.id = i
      BY <2>1, PartIs
    <3> QED
      BY <1>2, <1>6, <2>1, <3>1 DEF Known
  <2>2. CASE o \in d[t] /\ o.id # i
    <3>1. o.id \in Known(z) /\ q[o.id].side = t /\ o = Part(q, z, o.id)
      BY <2>2 DEF Rests
    <3>2. o.id \in OrderIds /\ y[o.id] = z[o.id]
      BY <1>6, <2>2, <3>1 DEF Known
    <3> QED
      BY <3>1, <3>2, PartSame DEF Known
  <2>3. CASE t = s
    BY <1>8, <1>10, <1>11, <2>1, <2>2, <2>3
  <2>4. CASE t # s
    <3>1. o \in d[t]
      BY <1>8, <2>4
    <3>2. o.id # i
      BY <1>2, <2>4, <3>1 DEF Rests
    <3> QED
      BY <2>2, <3>1, <3>2
  <2> QED
    BY <2>3, <2>4
<1>13. ASSUME NEW j \in Known(y)
       PROVE  q[j].type = "limit" /\ Part(q, y, j) \in c[q[j].side]
  <2>1. CASE j = i
    <3>1. k # 0
      BY <1>6, <2>1 DEF Known
    <3> QED
      BY <1>2, <1>3, <1>8, <1>10, <2>1, <3>1
  <2>2. CASE j # i
    <3>1. j \in OrderIds /\ y[j] = z[j] /\ j \in Known(z)
      BY <1>6, <2>2 DEF Known
    <3>2. q[j].type = "limit" /\ Part(q, y, j) \in d[q[j].side]
      BY <3>1, PartSame DEF Rests
    <3>3. Part(q, y, j) # m
      BY <1>2, <2>2, <3>1, PartIs
    <3>4. q[j].side \in Sides
      BY <3>1 DEF PlacedAs, BookOrder
    <3> QED
      BY <1>8, <1>10, <3>2, <3>3, <3>4
  <2> QED
    BY <2>1, <2>2
<1>14. Rests(c, q, y)
  BY <1>12, <1>13 DEF Rests
<1> QED
  BY <1>1, <1>2, <1>3, <1>4, <1>5, <1>7, <1>14

\* depth.add.
LEMMA RestsMore ==
  ASSUME NEW q, PlacedAs(q), NEW z \in SizesOf, NEW d \in [Sides -> SUBSET BookOrder], Rests(d, q, z),
         NEW t \in BookOrder, TakerIs(t, q), t # NoTaker, t.type = "limit", t.size > 0
  PROVE  Rests([d EXCEPT ![t.side] = Added(@, t)], q, Resized(z, t.id, t.size))
<1>1. PICK i \in OrderIds : i = t.id
  BY DEF TakerIs
<1>2. PICK s \in Sides : s = t.side
  BY DEF BookOrder
<1>3. PICK y \in SizesOf : y = Resized(z, i, t.size)
  <2>1. t.size \in Nat
    BY DEF BookOrder
  <2> QED
    BY <2>1 DEF Resized, SizesOf
<1>4. y[i] = t.size /\ \A j \in OrderIds : j # i => y[j] = z[j]
  BY <1>3 DEF Resized, SizesOf
<1>5. t = Part(q, y, i) /\ q[i].side = s /\ q[i].type = "limit" /\ i \in Known(y)
  BY <1>1, <1>2, <1>4 DEF TakerIs, Part, Known
<1>6. PICK c : c = [d EXCEPT ![s] = Added(d[s], t)]
  OBVIOUS
<1>7. \A r \in Sides : c[r] = IF r = s THEN {x \in d[s] : x.id # i} \cup {t} ELSE d[r]
  BY <1>1, <1>6 DEF Added
<1>8. ASSUME NEW r \in Sides, NEW o \in c[r]
      PROVE  o.id \in Known(y) /\ q[o.id].side = r /\ o = Part(q, y, o.id)
  <2>1. CASE r = s /\ o = t
    BY <1>1, <1>5, <2>1
  <2>2. CASE o \in d[r] /\ o.id # i
    <3>1. o.id \in Known(z) /\ q[o.id].side = r /\ o = Part(q, z, o.id)
      BY <2>2 DEF Rests
    <3>2. o.id \in OrderIds /\ y[o.id] = z[o.id]
      BY <1>4, <2>2, <3>1 DEF Known
    <3> QED
      BY <3>1, <3>2, PartSame DEF Known
  <2>3. CASE r # s
    <3>1. o \in d[r]
      BY <1>7, <2>3
    <3>2. o.id # i
      BY <1>5, <2>3, <3>1 DEF Rests
    <3> QED
      BY <2>2, <3>1, <3>2
  <2>4. CASE r = s
    <3>1. o \in {x \in d[s] : x.id # i} \cup {t}
      BY <1>7, <2>4
    <3> QED
      BY <2>1, <2>2, <2>4, <3>1
  <2> QED
    BY <2>3, <2>4
<1>9. ASSUME NEW j \in Known(y)
      PROVE  q[j].type = "limit" /\ Part(q, y, j) \in c[q[j].side]
  <2>1. CASE j = i
    BY <1>5, <1>7, <2>1
  <2>2. CASE j # i
    <3>1. j \in OrderIds /\ y[j] = z[j] /\ j \in Known(z)
      BY <1>4, <2>2 DEF Known
    <3>2. q[j].type = "limit" /\ Part(q, y, j) \in d[q[j].side]
      BY <3>1, PartSame DEF Rests
    <3>3. Part(q, y, j).id = j
      BY <3>1, PartIs
    <3>4. q[j].side \in Sides
      BY <3>1 DEF PlacedAs, BookOrder
    <3> QED
      BY <1>7, <2>2, <3>2, <3>3, <3>4
  <2> QED
    BY <2>1, <2>2
<1>10. Rests(c, q, y)
  BY <1>8, <1>9 DEF Rests
<1> QED
  BY <1>1, <1>2, <1>3, <1>6, <1>10

-----------------------------------------------------------------------------
(* The inductive invariant: the push server's book with the logs that are under way is
   the engine's book. *)

Follows(b, q, logs, d) ==
  \E v : Replay(q, v, logs) /\ Shows(b, q, v[0]) /\ Rests(d, q, v[Len(logs)])

PushInv ==
  /\ FeedInv /\ PlacedAs(placed) /\ TakerIs(taker, placed)
  /\ Follows(push, placed, out, depths)

\* The engine makes a log, or two.
LEMMA FollowsOne ==
  ASSUME NEW b, NEW q, NEW logs \in Seq(Log), NEW d, NEW c, NEW log, Follows(b, q, logs, d),
         \A z \in SizesOf : Rests(d, q, z) => Fits(q, z, log) /\ Rests(c, q, Effect(z, log))
  PROVE  Follows(b, q, Append(logs, log), c)
<1>1. PICK v : Replay(q, v, logs) /\ Shows(b, q, v[0]) /\ Rests(d, q, v[Len(logs)])
  BY DEF Follows
<1>2. v[Len(logs)] \in SizesOf
  <2>1. Len(logs) \in 0 .. Len(logs)
    OBVIOUS
  <2> QED
    BY <1>1, <2>1 DEF Replay
<1>3. Fits(q, v[Len(logs)], log) /\ Rests(c, q, Effect(v[Len(logs)], log))
  BY <1>1, <1>2
<1>4. PICK w : /\ Replay(q, w, Append(logs, log)) /\ w[0] = v[0]
               /\ w[Len(Append(logs, log))] = Effect(v[Len(logs)], log)
  BY <1>1, <1>3, ReplayMore
<1> QED
  BY <1>1, <1>3, <1>4 DEF Follows

LEMMA FollowsTwo ==
  ASSUME NEW b, NEW q, NEW logs \in Seq(Log), NEW d, NEW c, NEW log \in Log, NEW last,
         Follows(b, q, logs, d),
         \A z \in SizesOf : Rests(d, q, z) =>
           /\ Fits(q, z, log) /\ Fits(q, Effect(z, log), last)
           /\ Rests(c, q, Effect(Effect(z, log), last))
  PROVE  Follows(b, q, Append(Append(logs, log), last), c)
<1>1. PICK v : Replay(q, v, logs) /\ Shows(b, q, v[0]) /\ Rests(d, q, v[Len(logs)])
  BY DEF Follows
<1>2. v[Len(logs)] \in SizesOf
  <2>1. Len(logs) \in 0 .. Len(logs)
    OBVIOUS
  <2> QED
    BY <1>1, <2>1 DEF Replay
<1>3. PICK z : z = v[Len(logs)]
  OBVIOUS
<1>4. Fits(q, z, log) /\ Fits(q, Effect(z, log), last) /\ Rests(c, q, Effect(Effect(z, log), last))
  BY <1>1, <1>2, <1>3
<1>5. PICK more \in Seq(Log) : more = Append(logs, log)
  <2>1. Append(logs, log) \in Seq(Log)
    OBVIOUS
  <2> QED
    BY <2>1
<1>6. PICK w : Replay(q, w, more) /\ w[0] = v[0] /\ w[Len(more)] = Effect(z, log)
  BY <1>1, <1>3, <1>4, <1>5, ReplayMore
<1>7. PICK u : /\ Replay(q, u, Append(more, last)) /\ u[0] = w[0]
               /\ u[Len(Append(more, last))] = Effect(w[Len(more)], last)
  BY <1>4, <1>6, ReplayMore
<1> QED
  BY <1>1, <1>4, <1>5, <1>6, <1>7 DEF Follows

LEMMA PushInit == Init => PushInv
<1> SUFFICES ASSUME Init PROVE PushInv
  OBVIOUS
<1>1. FeedInv /\ PlacedAs(placed)
  <2>1. FeedInv
    BY InitInv
  <2>2. \A i \in OrderIds : placed[i] \in Orders /\ placed[i].id = i
    BY DEF Init
  <2> QED
    BY <2>1, <2>2, OrdersType DEF PlacedAs
<1>2. taker = NoTaker /\ out = <<>> /\ push = NewPushBook /\ depths = [s \in Sides |-> {}]
  BY DEF Init, BookInit
<1>3. PICK z \in SizesOf : z = [i \in OrderIds |-> 0]
  <2>1. [i \in OrderIds |-> 0] \in SizesOf
    BY DEF SizesOf
  <2> QED
    BY <2>1
<1>4. Known(z) = {} /\ IsFiniteSet(Known(z))
  <2>1. Known(z) = {}
    BY <1>3 DEF Known
  <2> QED
    BY <2>1, FS_EmptySet
<1>5. \A s : LevelsOf(placed, z, s) = {}
  BY <1>4 DEF LevelsOf, PricesOf
<1>6. OrdersOf(placed, z) = {}
  BY <1>4 DEF OrdersOf
<1>7. Shows(push, placed, z)
  <2>1. push = [orders |-> {}, levels |-> [s \in Sides |-> {}], seq |-> 0, logSeq |-> 0,
                logOffset |-> 0, panic |-> FALSE]
    BY <1>2 DEF NewPushBook, PushSides, Sides
  <2> QED
    BY <1>4, <1>5, <1>6, <2>1 DEF Shows
<1>8. Rests(depths, placed, z)
  BY <1>2, <1>4 DEF Rests
<1>9. PICK v : v = [k \in 0 .. 0 |-> z]
  OBVIOUS
<1>10. Len(out) = 0 /\ v[0] = z
  BY <1>2, <1>9
<1>11. Replay(placed, v, out)
  BY <1>3, <1>9, <1>10 DEF Replay
<1>12. Follows(push, placed, out, depths)
  BY <1>7, <1>8, <1>10, <1>11 DEF Follows
<1> QED
  BY <1>1, <1>2, <1>12 DEF PushInv, TakerIs

LEMMA PushFacts ==
  ASSUME PushInv
  PROVE  /\ FeedInv /\ BookInv /\ out \in Seq(Log) /\ depths \in [Sides -> SUBSET BookOrder]
         /\ logSeq \in Nat /\ tradeSeq \in Nat /\ PlacedAs(placed) /\ TakerIs(taker, placed)
         /\ Follows(push, placed, out, depths)
         /\ \A i \in OrderIds : placed[i] \in Orders
  BY DEF PushInv, FeedInv, PlacedOK, BookInv, BookTypeOK

\* An order message becomes the taker.
LEMMA DeliverFollows ==
  ASSUME PushInv, NEW i \in OrderIds, Deliver(i)
  PROVE  PushInv'
<1>1. FeedInv'
  BY PushFacts, NextInv DEF Next
<1>2. PlacedAs(placed) /\ TakerIs(taker, placed) /\ placed[i] \in Orders
  BY PushFacts
<1>3. UNCHANGED <<placed, push, depths, out>> /\ (taker' = taker \/ taker' = TakerOf(placed[i]))
  BY DEF Deliver, Receive, bookVars
<1>4. TakerIs(taker', placed)
  <2>1. TakerIs(TakerOf(placed[i]), placed)
    <3>1. PICK t : t = TakerOf(placed[i])
      OBVIOUS
    <3>2. t.side = placed[i].side /\ t.type = placed[i].type
      BY <1>2, <3>1, OrdersType
    <3>3. placed[i].id = i /\ placed[i] \in BookOrder
      BY <1>2 DEF PlacedAs
    <3>4. t.id = i /\ (t.type = "limit" => t = placed[i])
      BY <3>1, <3>2, <3>3 DEF TakerOf, BookOrder
    <3>5. t.type = "limit" => t = [placed[i] EXCEPT !.size = t.size]
      BY <3>3, <3>4 DEF BookOrder
    <3> QED
      BY <3>1, <3>2, <3>4, <3>5 DEF TakerIs
  <2> QED
    BY <1>2, <1>3, <2>1
<1>5. Follows(push, placed, out, depths)
  BY PushFacts
<1> QED
  BY <1>1, <1>2, <1>3, <1>4, <1>5 DEF PushInv

\* runApplier takes a log.
LEMMA PublishFollows ==
  ASSUME PushInv, Publish
  PROVE  PushInv'
<1>1. FeedInv'
  BY PushFacts, NextInv DEF Next
<1>2. /\ PlacedAs(placed) /\ TakerIs(taker, placed) /\ Follows(push, placed, out, depths)
      /\ out \in Seq(Log)
  BY PushFacts
<1>3. /\ UNCHANGED <<placed, taker, depths>> /\ out # <<>> /\ out' = Tail(out)
      /\ push' = ApplyLog(push, offset, Head(out))
  BY DEF Publish
<1>4. PICK v : Replay(placed, v, out) /\ Shows(push, placed, v[0]) /\ Rests(depths, placed, v[Len(out)])
  BY <1>2 DEF Follows
<1>5. PICK w : /\ Replay(placed, w, Tail(out)) /\ w[0] = Effect(v[0], Head(out))
               /\ w[Len(Tail(out))] = v[Len(out)]
               /\ Fits(placed, v[0], Head(out)) /\ v[0] \in SizesOf
  BY <1>2, <1>3, <1>4, ReplayRest
<1>6. Shows(ApplyLog(push, offset, Head(out)), placed, w[0])
  BY <1>4, <1>5, ApplyFollows
<1>7. Follows(push', placed, out', depths)
  BY <1>3, <1>4, <1>5, <1>6 DEF Follows
<1> QED
  BY <1>1, <1>2, <1>3, <1>7 DEF PushInv

\* A done log of an order that rests, with all of its size.
LEMMA CancelFits ==
  ASSUME NEW q, PlacedAs(q), NEW d \in [Sides -> SUBSET BookOrder], NEW s \in Sides, NEW x \in d[s],
         NEW z \in SizesOf, Rests(d, q, z), NEW n \in Nat, NEW log, log = DoneLog(n, x, x.size, "cancelled")
  PROVE  Fits(q, z, log) /\ Rests(Lessened(d, s, x, x.size), q, Effect(z, log))
<1>1. x \in BookOrder /\ x.size \in Nat /\ x.size <= x.size
  BY DEF BookOrder
<1>2. /\ x.id \in OrderIds /\ z[x.id] > 0 /\ z[x.id] = x.size
      /\ x.price = q[x.id].price /\ x.side = q[x.id].side
      /\ Rests(Lessened(d, s, x, x.size), q, Resized(z, x.id, z[x.id] - x.size))
  BY <1>1, RestsLess
<1>3. log \in Log
  BY <1>1, LogTypes
<1>4. log.type = "done" /\ log.order = x.id /\ log.size = x.size /\ log.price = x.price /\ log.side = x.side
  BY DEF DoneLog
<1>5. Fits(q, z, log)
  BY <1>1, <1>2, <1>3, <1>4 DEF Fits, Names
<1>6. Effect(z, log) = Resized(z, x.id, z[x.id] - x.size)
  BY <1>1, <1>2, <1>4 DEF Effect
<1> QED
  BY <1>2, <1>5, <1>6

LEMMA CancelFollows ==
  ASSUME PushInv, NEW i \in OrderIds, Cancel(i)
  PROVE  PushInv'
<1>1. FeedInv'
  BY PushFacts, NextInv DEF Next
<1>2. /\ PlacedAs(placed) /\ TakerIs(taker, placed) /\ Follows(push, placed, out, depths)
      /\ out \in Seq(Log) /\ depths \in [Sides -> SUBSET BookOrder] /\ logSeq \in Nat
  BY PushFacts
<1>3. /\ UNCHANGED <<placed, taker, push>> /\ out = <<>>
      /\ \/ UNCHANGED <<depths, out>>
         \/ \E x \in depths[placed[i].side] :
              /\ depths' = [depths EXCEPT ![placed[i].side] = Decreased(@, x, x.size)]
              /\ out' = <<DoneLog(logSeq + 1, x, x.size, "cancelled")>>
  BY DEF Cancel, CancelOrder, Idle
<1>4. CASE UNCHANGED <<depths, out>>
  BY <1>1, <1>2, <1>3, <1>4 DEF PushInv
<1>5. CASE \E x \in depths[placed[i].side] :
              /\ depths' = [depths EXCEPT ![placed[i].side] = Decreased(@, x, x.size)]
              /\ out' = <<DoneLog(logSeq + 1, x, x.size, "cancelled")>>
  <2>1. PICK s \in Sides : s = placed[i].side
    BY <1>2 DEF PlacedAs, BookOrder
  <2>2. PICK x \in depths[s] : /\ depths' = [depths EXCEPT ![s] = Decreased(@, x, x.size)]
                               /\ out' = <<DoneLog(logSeq + 1, x, x.size, "cancelled")>>
    BY <1>5, <2>1
  <2>3. PICK log : log = DoneLog(logSeq + 1, x, x.size, "cancelled")
    OBVIOUS
  <2>4. out' = Append(out, log)
    BY <1>3, <2>2, <2>3
  <2>5. logSeq + 1 \in Nat
    BY <1>2
  <2>6. \A z \in SizesOf : Rests(depths, placed, z)
          => Fits(placed, z, log) /\ Rests(depths', placed, Effect(z, log))
    <3>1. depths' = Lessened(depths, s, x, x.size)
      BY <2>2 DEF Lessened
    <3> QED
      BY <1>2, <2>3, <2>5, <3>1, CancelFits
  <2>7. Follows(push, placed, out', depths')
    BY <1>2, <2>4, <2>6, FollowsOne
  <2> QED
    BY <1>1, <1>2, <1>3, <2>7 DEF PushInv
<1> QED
  BY <1>3, <1>4, <1>5

\* The done log of a taker that is used up changes nothing.
LEMMA DoneFits ==
  ASSUME NEW q, PlacedAs(q), NEW z \in SizesOf, NEW t \in BookOrder, NEW n \in Nat,
         NEW why \in {"filled", "cancelled"}, z[t.id] # 0 => t.price = q[t.id].price /\ t.side = q[t.id].side,
         NEW log, log = DoneLog(n, t, 0, why)
  PROVE  Fits(q, z, log) /\ Effect(z, log) = z
<1>1. log \in Log
  BY LogTypes
<1>2. log.type = "done" /\ log.order = t.id /\ log.size = 0 /\ log.price = t.price /\ log.side = t.side
  BY DEF DoneLog
<1>3. t.id \in OrderIds /\ z[t.id] \in Nat
  BY DEF BookOrder, SizesOf
<1>4. Fits(q, z, log)
  BY <1>1, <1>2, <1>3 DEF Fits, Names
<1>5. Resized(z, t.id, z[t.id] - 0) = z
  BY <1>3 DEF Resized, SizesOf
<1> QED
  BY <1>2, <1>4, <1>5 DEF Effect

LEMMA FinishFollows ==
  ASSUME PushInv, Finish
  PROVE  PushInv'
<1>1. FeedInv'
  BY PushFacts, NextInv DEF Next
<1>2. /\ PlacedAs(placed) /\ TakerIs(taker, placed) /\ Follows(push, placed, out, depths)
      /\ out \in Seq(Log) /\ depths \in [Sides -> SUBSET BookOrder] /\ logSeq + 1 \in Nat
  BY PushFacts
<1>3. UNCHANGED <<placed, push>> /\ taker # NoTaker /\ taker' = NoTaker
  BY DEF Finish, FinishTaker, feedVars
<1>4. taker \in BookOrder
  BY <1>3, PushFacts DEF BookInv, BookTypeOK
<1>5. TakerIs(taker', placed')
  BY <1>3 DEF TakerIs
<1>6. SUFFICES Follows(push, placed, out', depths')
  BY <1>1, <1>2, <1>3, <1>5 DEF PushInv
<1>7. taker.type \in {"limit", "market"} /\ taker.size \in Nat /\ taker.id \in OrderIds
  BY <1>4 DEF BookOrder
<1>8. CASE taker.type = "limit" /\ taker.size > 0
  <2>1. /\ depths' = [depths EXCEPT ![taker.side] = Added(@, taker)]
        /\ out' = Append(out, OpenLog(logSeq + 1, taker))
    BY <1>7, <1>8 DEF Finish, FinishTaker
  <2>2. PICK log : log = OpenLog(logSeq + 1, taker)
    OBVIOUS
  <2>3. log \in Log
    BY <1>2, <1>4, <2>2, LogTypes
  <2>4. /\ log.type = "open" /\ log.order = taker.id /\ log.size = taker.size
        /\ log.price = taker.price /\ log.side = taker.side
    BY <2>2 DEF OpenLog
  <2>5. taker.price = placed[taker.id].price /\ taker.side = placed[taker.id].side
    <3>1. taker = [placed[taker.id] EXCEPT !.size = taker.size] /\ placed[taker.id] \in BookOrder
      BY <1>2, <1>3, <1>7, <1>8 DEF TakerIs, PlacedAs
    <3>2. [placed[taker.id] EXCEPT !.size = taker.size].price = placed[taker.id].price
      BY <3>1 DEF BookOrder
    <3> QED
      BY <1>2, <1>3, <3>1, <3>2 DEF TakerIs
  <2>6. ASSUME NEW z \in SizesOf, Rests(depths, placed, z)
        PROVE  Fits(placed, z, log) /\ Rests(depths', placed, Effect(z, log))
    <3>1. Effect(z, log) = Resized(z, taker.id, taker.size)
      BY <2>4 DEF Effect
    <3>2. Rests(depths', placed, Resized(z, taker.id, taker.size))
      BY <1>2, <1>3, <1>4, <1>8, <2>1, <2>6, RestsMore
    <3>3. Fits(placed, z, log)
      BY <1>7, <1>8, <2>3, <2>4, <2>5 DEF Fits, Names
    <3> QED
      BY <3>1, <3>2, <3>3
  <2> QED
    BY <1>2, <2>1, <2>2, <2>6, FollowsOne
<1>9. CASE ~ (taker.type = "limit" /\ taker.size > 0)
  <2>0. PICK t : t = IF taker.type = "limit" THEN taker ELSE [taker EXCEPT !.price = 0]
    OBVIOUS
  <2>1. PICK why \in {"filled", "cancelled"} :
          /\ t = IF taker.type = "limit" THEN taker ELSE [taker EXCEPT !.price = 0]
          /\ out' = Append(out, DoneLog(logSeq + 1, t, 0, why)) /\ depths' = depths
    BY <1>7, <1>9, <2>0 DEF Finish, FinishTaker
  <2>2. PICK log : log = DoneLog(logSeq + 1, t, 0, why)
    OBVIOUS
  <2>3. t \in BookOrder /\ t.id = taker.id /\ t.side = taker.side /\ (taker.type = "limit" => t.price = taker.price)
    BY <1>4, <2>1 DEF BookOrder
  <2>4. ASSUME NEW z \in SizesOf, Rests(depths, placed, z)
        PROVE  Fits(placed, z, log) /\ Rests(depths', placed, Effect(z, log))
    <3>1. z[t.id] # 0 => t.price = placed[t.id].price /\ t.side = placed[t.id].side
      <4> SUFFICES ASSUME z[t.id] # 0 PROVE t.price = placed[t.id].price /\ t.side = placed[t.id].side
        OBVIOUS
      <4>1. t.id \in Known(z)
        BY <1>7, <2>3 DEF Known, SizesOf
      <4>2. taker.type = "limit"
        BY <1>2, <1>3, <2>3, <2>4, <4>1 DEF Rests, TakerIs
      <4>3. taker = [placed[taker.id] EXCEPT !.size = taker.size] /\ placed[taker.id] \in BookOrder
        BY <1>2, <1>3, <1>7, <4>2 DEF TakerIs, PlacedAs
      <4>4. [placed[taker.id] EXCEPT !.size = taker.size].price = placed[taker.id].price
        BY <4>3 DEF BookOrder
      <4> QED
        BY <1>2, <1>3, <2>3, <4>2, <4>3, <4>4 DEF TakerIs
    <3>2. Fits(placed, z, log) /\ Effect(z, log) = z
      BY <1>2, <2>2, <2>3, <3>1, DoneFits
    <3> QED
      BY <2>1, <2>4, <3>2
  <2> QED
    BY <1>2, <2>1, <2>2, <2>4, FollowsOne
<1> QED
  BY <1>8, <1>9

\* A match log, and the done log of a maker that was filled.
LEMMA MatchFits ==
  ASSUME NEW q, PlacedAs(q), NEW d \in [Sides -> SUBSET BookOrder], NEW s \in Sides, NEW m \in d[s],
         NEW z \in SizesOf, Rests(d, q, z), NEW t \in BookOrder, NEW n \in Nat, n <= m.size,
         NEW a \in Nat, NEW b \in Nat, NEW log, log = MatchLog(a, b, t, m, n),
         NEW done, done = DoneLog(a + 1, m, 0, "filled")
  PROVE  /\ Fits(q, z, log) /\ Rests(Lessened(d, s, m, n), q, Effect(z, log))
         /\ n = m.size => /\ Fits(q, Effect(z, log), done)
                          /\ Effect(Effect(z, log), done) = Effect(z, log)
<1>1. m \in BookOrder /\ m.size \in Nat
  BY DEF BookOrder
<1>2. /\ m.id \in OrderIds /\ z[m.id] > 0 /\ z[m.id] = m.size
      /\ m.price = q[m.id].price /\ m.side = q[m.id].side
      /\ Rests(Lessened(d, s, m, n), q, Resized(z, m.id, z[m.id] - n))
  BY RestsLess
<1>3. log \in Log
  BY <1>1, LogTypes
<1>4. log.type = "match" /\ log.maker = m.id /\ log.size = n /\ log.price = m.price /\ log.side = m.side
  BY DEF MatchLog
<1>5. Fits(q, z, log)
  BY <1>1, <1>2, <1>3, <1>4 DEF Fits, Names
<1>6. Effect(z, log) = Resized(z, m.id, z[m.id] - n)
  BY <1>4 DEF Effect
<1>7. PICK y \in SizesOf : y = Effect(z, log)
  BY <1>5, EffectType
<1>8. Fits(q, y, done) /\ Effect(y, done) = y
  <2>1. a + 1 \in Nat /\ "filled" \in {"filled", "cancelled"}
    OBVIOUS
  <2>2. y[m.id] # 0 => m.price = q[m.id].price /\ m.side = q[m.id].side
    BY <1>2
  <2> QED
    BY <1>1, <2>1, <2>2, DoneFits
<1> QED
  BY <1>2, <1>5, <1>6, <1>7, <1>8

LEMMA MatchFollows ==
  ASSUME PushInv, Match
  PROVE  PushInv'
<1>1. FeedInv'
  BY PushFacts, NextInv DEF Next
<1>2. /\ PlacedAs(placed) /\ TakerIs(taker, placed) /\ Follows(push, placed, out, depths) /\ BookInv
      /\ out \in Seq(Log) /\ depths \in [Sides -> SUBSET BookOrder]
      /\ logSeq \in Nat /\ tradeSeq \in Nat
  BY PushFacts
<1>3. MatchMaker /\ UNCHANGED <<placed, push>> /\ taker # NoTaker
  BY DEF Match, MatchMaker, feedVars
<1>4. PICK m \in left :
        LET side == Opposite(taker.side)
            size == Smaller(Wanted(taker, m), m.size)
            full == size = m.size
        IN /\ Wanted(taker, m) # 0
           /\ taker' = IF MarketBuy(taker)
                       THEN [taker EXCEPT !.funds = @ - size * m.price]
                       ELSE [taker EXCEPT !.size = @ - size]
           /\ depths' = [depths EXCEPT ![side] = Decreased(@, m, size)]
           /\ out' = out \o <<MatchLog(logSeq + 1, tradeSeq + 1, taker, m, size)>>
                         \o (IF full THEN <<DoneLog(logSeq + 2, m, 0, "filled")>>
                                     ELSE <<>>)
  BY <1>3 DEF MatchMaker
<1>5. PICK n : n = Smaller(Wanted(taker, m), m.size)
  OBVIOUS
<1>6. PICK s \in Sides : s = Opposite(taker.side)
  BY <1>2, <1>3, <1>4, TradeSize DEF BookInv
<1>7. m \in BookOrder /\ m \in depths[s] /\ taker \in BookOrder /\ n \in Nat /\ n <= m.size
  BY <1>2, <1>3, <1>4, <1>5, <1>6, TradeSize DEF BookInv
<1>8. PICK log : log = MatchLog(logSeq + 1, tradeSeq + 1, taker, m, n)
  OBVIOUS
<1>9. PICK done : done = DoneLog((logSeq + 1) + 1, m, 0, "filled")
  OBVIOUS
<1>10. /\ depths' = Lessened(depths, s, m, n)
       /\ out' = out \o <<log>> \o (IF n = m.size THEN <<done>> ELSE <<>>)
  <2>1. (logSeq + 1) + 1 = logSeq + 2
    BY <1>2
  <2> QED
    BY <1>4, <1>5, <1>6, <1>8, <1>9, <2>1 DEF Lessened
<1>11. log \in Log /\ done \in Log
  <2>1. logSeq + 1 \in Nat /\ tradeSeq + 1 \in Nat /\ (logSeq + 1) + 1 \in Nat
    BY <1>2
  <2> QED
    BY <1>7, <1>8, <1>9, <2>1, LogTypes
<1>12. out' = IF n = m.size THEN Append(Append(out, log), done) ELSE Append(out, log)
  BY <1>2, <1>10, <1>11
<1>13. ASSUME NEW z \in SizesOf, Rests(depths, placed, z)
       PROVE  /\ Fits(placed, z, log) /\ Rests(depths', placed, Effect(z, log))
              /\ n = m.size => /\ Fits(placed, Effect(z, log), done)
                               /\ Effect(Effect(z, log), done) = Effect(z, log)
  <2>1. logSeq + 1 \in Nat /\ tradeSeq + 1 \in Nat
    BY <1>2
  <2> QED
    BY <1>2, <1>7, <1>8, <1>9, <1>10, <1>13, <2>1, MatchFits
<1>14. Follows(push, placed, out', depths')
  <2>1. CASE n = m.size
    <3>1. \A z \in SizesOf : Rests(depths, placed, z) =>
            /\ Fits(placed, z, log) /\ Fits(placed, Effect(z, log), done)
            /\ Rests(depths', placed, Effect(Effect(z, log), done))
      BY <1>13, <2>1
    <3>2. out' = Append(Append(out, log), done)
      BY <1>12, <2>1
    <3> QED
      BY <1>2, <1>11, <3>1, <3>2, FollowsTwo
  <2>2. CASE n # m.size
    BY <1>2, <1>12, <1>13, <2>2, FollowsOne
  <2> QED
    BY <2>1, <2>2
<1>15. TakerIs(taker', placed)
  <2>1. /\ taker'.id = taker.id /\ taker'.side = taker.side /\ taker'.type = taker.type
        /\ taker.type = "limit" => taker' = [taker EXCEPT !.size = taker.size - n]
    <3>1. taker' = IF MarketBuy(taker) THEN [taker EXCEPT !.funds = @ - n * m.price]
                                       ELSE [taker EXCEPT !.size = @ - n]
      BY <1>4, <1>5
    <3>2. taker.type = "limit" => ~ MarketBuy(taker)
      BY DEF MarketBuy
    <3> QED
      BY <1>7, <3>1, <3>2 DEF BookOrder
  <2>2. taker.type = "limit" => taker' = [placed[taker.id] EXCEPT !.size = taker'.size]
    <3> SUFFICES ASSUME taker.type = "limit" PROVE taker' = [placed[taker.id] EXCEPT !.size = taker'.size]
      OBVIOUS
    <3>1. taker = [placed[taker.id] EXCEPT !.size = taker.size] /\ placed[taker.id] \in BookOrder
      BY <1>2, <1>3, <1>7 DEF TakerIs, PlacedAs
    <3>2. PICK o \in BookOrder : o = placed[taker.id]
      BY <3>1
    <3>3. PICK k : k = taker.size - n
      OBVIOUS
    <3>4. taker' = [taker EXCEPT !.size = k]
      BY <2>1, <3>3
    <3>5. taker = [o EXCEPT !.size = taker.size]
      BY <3>1, <3>2
    <3>6. taker' = [o EXCEPT !.size = k] /\ taker'.size = k
      BY <3>4, <3>5, <1>7 DEF BookOrder
    <3> QED
      BY <3>2, <3>6
  <2>3. taker.id \in OrderIds /\ taker.side = placed[taker.id].side /\ taker.type = placed[taker.id].type
    BY <1>2, <1>3 DEF TakerIs
  <2> QED
    BY <2>1, <2>2, <2>3 DEF TakerIs
<1> QED
  BY <1>1, <1>2, <1>3, <1>14, <1>15 DEF PushInv

LEMMA PushStep == PushInv /\ [Next]_vars => PushInv'
<1> SUFFICES ASSUME PushInv, [Next]_vars PROVE PushInv'
  OBVIOUS
<1>1. CASE UNCHANGED vars
  <2>1. FeedInv'
    BY PushFacts, NextInv
  <2>2. UNCHANGED <<placed, taker, push, out, depths>>
    BY <1>1 DEF vars, feedVars, bookVars
  <2> QED
    BY <2>1, <2>2, PushFacts DEF PushInv
<1> QED
  BY <1>1, DeliverFollows, CancelFollows, MatchFollows, FinishFollows, PublishFollows DEF Next

\* The push server never panics, for any number of orders, whatever the order in which orders,
\* duplicates and cancels reach the engine: each match log finds its maker and its level.
THEOREM PushKeepsRunning == Spec => []PushNeverPanics
<1>1. PushInv => PushNeverPanics
  BY DEF PushInv, Follows, Shows, PushNeverPanics
<1> QED
  BY PushInit, PushStep, <1>1, PTL DEF Spec

\* The sizes that rest are seen by both books.
LEMMA SameOrders ==
  ASSUME NEW q, PlacedAs(q), NEW z \in SizesOf, NEW d \in [Sides -> SUBSET BookOrder], Rests(d, q, z)
  PROVE  OrdersOf(q, z) = {[id |-> o.id, size |-> o.size, side |-> o.side, price |-> o.price] :
                             o \in d["buy"] \cup d["sell"]}
<1> DEFINE View(o) == [id |-> o.id, size |-> o.size, side |-> o.side, price |-> o.price]
<1>1. \A i \in Known(z) : View(Part(q, z, i)) = OrderOf(q, z, i)
  BY PartIs DEF OrderOf, Known
<1>2. ASSUME NEW i \in Known(z) PROVE Part(q, z, i) \in d["buy"] \cup d["sell"]
  <2>1. q[i].side \in {"buy", "sell"}
    BY DEF Known, PlacedAs, BookOrder, Sides
  <2> QED
    BY <2>1 DEF Rests
<1>3. ASSUME NEW o \in d["buy"] \cup d["sell"] PROVE o.id \in Known(z) /\ o = Part(q, z, o.id)
  BY DEF Rests, Sides
<1> HIDE DEF View
<1>4. \A o \in d["buy"] \cup d["sell"] : View(o) \in OrdersOf(q, z)
  BY <1>1, <1>3 DEF OrdersOf
<1>5. \A x \in OrdersOf(q, z) : \E o \in d["buy"] \cup d["sell"] : x = View(o)
  BY <1>1, <1>2 DEF OrdersOf
<1>6. OrdersOf(q, z) = {View(o) : o \in d["buy"] \cup d["sell"]}
  BY <1>4, <1>5
<1> QED
  BY <1>6 DEF View

LEMMA SameLevel ==
  ASSUME NEW q, PlacedAs(q), NEW z \in SizesOf, NEW d \in [Sides -> SUBSET BookOrder], Rests(d, q, z),
         IsFiniteSet(Known(z)), NEW s \in Sides, NEW p
  PROVE  LevelOf(q, z, s, p) =
           [price |-> p,
            size |-> SumFunctionOnSet([o \in d[s] |-> o.size], {o \in d[s] : o.price = p}),
            count |-> Cardinality({o \in d[s] : o.price = p})]
<1>1. PICK A : A = At(q, z, s, p)
  OBVIOUS
<1>2. /\ IsFiniteSet(A)
      /\ \A i \in A : /\ i \in OrderIds /\ i \in Known(z) /\ q[i].side = s /\ q[i].price = p
                      /\ z[i] \in Int
  <2>1. IsFiniteSet(A)
    BY <1>1, LevelSum
  <2>2. \A i \in OrderIds : z[i] \in Int
    BY DEF SizesOf
  <2>3. \A i \in A : i \in OrderIds /\ i \in Known(z) /\ q[i].side = s /\ q[i].price = p
    BY <1>1 DEF At, Known
  <2> QED
    BY <2>1, <2>2, <2>3
<1>3. PICK b : b = [i \in A |-> Part(q, z, i)]
  OBVIOUS
<1>4. PICK e : e = [o \in d[s] |-> o.size]
  OBVIOUS
<1>5. \A i \in A : b[i].id = i /\ b[i].size = z[i] /\ b[i].price = p /\ b[i] \in d[s]
  BY <1>2, <1>3, PartIs DEF Rests
<1>6. \A i, j \in A : b[i] = b[j] => i = j
  BY <1>5
<1>7. \A i \in A : z[i] \in Int /\ e[b[i]] = z[i]
  BY <1>2, <1>4, <1>5
<1>8. ImageOf(b, A) = {o \in d[s] : o.price = p}
  <2>1. ASSUME NEW o \in d[s], o.price = p PROVE o.id \in A /\ o = b[o.id]
    <3>1. o.id \in Known(z) /\ q[o.id].side = s /\ o = Part(q, z, o.id)
      BY DEF Rests
    <3>2. o.id \in OrderIds
      BY <3>1 DEF Known
    <3>3. q[o.id].price = p
      BY <2>1, <3>1, <3>2, PartIs
    <3>4. o.id \in A
      BY <1>1, <3>1, <3>3 DEF At
    <3> QED
      BY <1>3, <3>1, <3>4
  <2> QED
    BY <1>5, <2>1 DEF ImageOf
<1>9. /\ Cardinality(ImageOf(b, A)) = Cardinality(A)
      /\ SumFunctionOnSet(e, ImageOf(b, A)) = SumFunctionOnSet(z, A)
  BY <1>2, <1>6, <1>7, SumOfImage
<1> QED
  BY <1>1, <1>4, <1>8, <1>9 DEF LevelOf

LEMMA SamePrices ==
  ASSUME NEW q, PlacedAs(q), NEW z \in SizesOf, NEW d \in [Sides -> SUBSET BookOrder], Rests(d, q, z),
         NEW s \in Sides, NEW P, P = {o.price : o \in d[s]}
  PROVE  PricesOf(q, z, s) = P
<1>1. ASSUME NEW i \in Known(z), q[i].side = s
      PROVE  Part(q, z, i) \in d[s] /\ Part(q, z, i).price = q[i].price
  <2>1. i \in OrderIds
    BY DEF Known
  <2> QED
    BY <1>1, <2>1, PartIs DEF Rests
<1>2. ASSUME NEW o \in d[s]
      PROVE  o.id \in Known(z) /\ q[o.id].side = s /\ q[o.id].price = o.price
  <2>1. o.id \in Known(z) /\ q[o.id].side = s /\ o = Part(q, z, o.id) /\ o.id \in OrderIds
    BY DEF Rests, Known
  <2> QED
    BY <2>1, PartIs
<1> QED
  BY <1>1, <1>2 DEF PricesOf

\* Once every log is published the push server's book is the engine's, for any number of orders,
\* duplicates and cancels: the same orders with the same sizes, and price levels whose sizes and
\* counts are those of their orders, however long saveOrder has kept them by adding and taking away.
THEOREM PushFollowsEngine == Spec => []PushBookFollows
<1>1. PushInv => PushBookFollows
  <2> SUFFICES ASSUME PushInv, Quiet PROVE
        /\ push.orders = {[id |-> o.id, size |-> o.size, side |-> o.side,
                           price |-> o.price] : o \in depths["buy"] \cup depths["sell"]}
        /\ \A s \in Sides :
             push.levels[s] =
               {[price |-> p,
                 size |-> SumFunctionOnSet([o \in depths[s] |-> o.size],
                                           {o \in depths[s] : o.price = p}),
                 count |-> Cardinality({o \in depths[s] : o.price = p})] :
                   p \in {o.price : o \in depths[s]}}
    BY DEF PushBookFollows
  <2>1. PlacedAs(placed) /\ depths \in [Sides -> SUBSET BookOrder] /\ out = <<>>
    BY PushFacts DEF Quiet, Idle
  <2>2. PICK v : Replay(placed, v, out) /\ Shows(push, placed, v[0]) /\ Rests(depths, placed, v[Len(out)])
    BY PushFacts DEF Follows
  <2>3. Len(out) = 0
    BY <2>1
  <2>4. PICK z \in SizesOf : z = v[0]
    BY <2>2, <2>3 DEF Replay
  <2>5. Rests(depths, placed, z) /\ Shows(push, placed, z) /\ IsFiniteSet(Known(z))
    BY <2>2, <2>3, <2>4 DEF Shows
  <2>6. push.orders = OrdersOf(placed, z)
    BY <2>5 DEF Shows
  <2>7. ASSUME NEW s \in Sides
        PROVE  push.levels[s] =
                 {[price |-> p,
                   size |-> SumFunctionOnSet([o \in depths[s] |-> o.size],
                                             {o \in depths[s] : o.price = p}),
                   count |-> Cardinality({o \in depths[s] : o.price = p})] :
                     p \in {o.price : o \in depths[s]}}
    <3> DEFINE Line(p) == [price |-> p,
                           size |-> SumFunctionOnSet([o \in depths[s] |-> o.size],
                                                     {o \in depths[s] : o.price = p}),
                           count |-> Cardinality({o \in depths[s] : o.price = p})]
    <3>1. push.levels[s] = LevelsOf(placed, z, s)
      BY <2>5 DEF Shows
    <3>2. \A p : LevelOf(placed, z, s, p) = Line(p)
      BY <2>1, <2>5, SameLevel
    <3>3. PICK P : P = {o.price : o \in depths[s]}
      OBVIOUS
    <3>4. LevelsOf(placed, z, s) = {LevelOf(placed, z, s, p) : p \in P}
      <4>1. PricesOf(placed, z, s) = P
        BY <2>1, <2>5, <3>3, SamePrices
      <4> QED
        BY <4>1 DEF LevelsOf
    <3> HIDE DEF Line
    <3>5. LevelsOf(placed, z, s) = {Line(p) : p \in P}
      BY <3>2, <3>4
    <3> QED
      BY <3>1, <3>3, <3>5 DEF Line
  <2> QED
    BY <2>1, <2>5, <2>6, <2>7, SameOrders
<1> QED
  BY PushInit, PushStep, <1>1, PTL DEF Spec
=============================================================================
