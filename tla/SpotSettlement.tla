--------------------------- MODULE SpotSettlement ---------------------------
(***************************************************************************)
(* From a REST request to money in the accounts of gitbitex-spot:          *)
(*                                                                         *)
(*   PlaceOrder -> order topic -> order book -> log topic -> FillMaker     *)
(*      |  hold                                                 | g_fill   *)
(*   g_account <- ExecuteBill <- g_bill <- ExecuteFill <---------          *)
(*                                                                         *)
(* (service/order_service.go, service/account_service.go,                  *)
(* rest/order_controller.go, worker/fill_maker.go, fill_executor.go,       *)
(* bill_executor.go, matching/kafka_log_reader.go.)                        *)
(*                                                                         *)
(* A database transaction is one action: each of them starts by locking    *)
(* the row it changes (SELECT ... FOR UPDATE).  What the code reads before *)
(* it holds the lock is an action of its own.  The engine between the two  *)
(* topics is the order book; SpotEngine shows what its restarts do to the  *)
(* log, so here the log only grows.                                        *)
(***************************************************************************)
EXTENDS SpotOrderBook, FiniteSetsExt

CONSTANTS
  Users,
  Plans,            \* the orders the users may place: functions from
                    \* OrderIds to [user, order]
  Deposits,         \* [Users -> [Currencies -> Nat]]
  FillLimit,        \* fills one ExecuteFill settles (100)
  BillLimit,        \* bills one ExecuteBill settles (100)
  FillBatch,        \* fills the flusher buffers (1000)
  FillChCap,        \* capacity of fillCh (1000)
  RequestsPerUser,  \* PlaceOrder requests of a user under way at once
  MaxCancels,       \* cancel requests in all
  MaxSettleCrashes  \* crashes of the process

Currencies == {"base", "quote"}

ASSUME SettlementAssumption ==
  /\ \A p \in Plans :
       /\ p \in [OrderIds -> [user : Users, order : Orders]]
       /\ \A i \in OrderIds : p[i].order.id = i
  /\ Deposits \in [Users -> [Currencies -> Nat]]
  /\ {FillLimit, BillLimit, FillBatch, FillChCap} \subseteq Nat \ {0}
  /\ {RequestsPerUser, MaxCancels, MaxSettleCrashes} \subseteq Nat

\* A row of g_fill.  A match makes two with the same seq, a done log one.
Fill ==
  [order : OrderIds, seq : Nat, offset : Nat, size : Nat, price : Nat,
   done : BOOLEAN, reason : {"", "filled", "cancelled"}, settled : BOOLEAN]

Bill == [available : Int, hold : Int]

VARIABLES
  plan,      \* the request behind each order id
  rows,      \* g_order: id -> [status, filled, executed]
  accounts,  \* g_account: user -> currency -> [available, hold]
  bills,     \* unsettled g_bill rows: user -> currency -> sequence
  fills,     \* g_fill in the order of its ids
  checked,   \* orders past HasEnoughBalance and before their transaction
  unsent,    \* committed orders whose message is not yet written
  topic,     \* messages in the order topic: [id, cancel]
  cancels,   \* cancel requests so far
  raced,     \* history: accounts on which two requests were past
             \* HasEnoughBalance together
  logTopic,  \* the log topic
  readPos,   \* offset of the next log FillMaker's reader fetches
  lastSeq,   \* seq of the last log it passed on
  todo,      \* fills of the current log that are not yet in fillCh
  fillCh,
  fillBuf,   \* fills the flusher holds
  crashes

makerVars == <<readPos, lastSeq, todo, fillCh, fillBuf>>
dbVars == <<rows, accounts, bills, fills>>
restVars == <<checked, unsent, topic, cancels, raced>>
vars == <<bookVars, plan, dbVars, restVars, logTopic, makerVars, crashes>>

Order(i) == plan[i].order
User(i) == plan[i].user
Live(i) == rows[i].status \in {"new", "open"}

-----------------------------------------------------------------------------
(* Placing and cancelling orders. *)

HoldCurrency(o) == IF o.side = "buy" THEN "quote" ELSE "base"
HoldSize(o) == IF o.side = "buy" THEN o.funds ELSE o.size

\* The account an order is paid from.
HoldAccount(i) == <<User(i), HoldCurrency(Order(i))>>

\* The request is past the check and before its transaction; another one for
\* the same account may be, too.
PassCheck(i) ==
  /\ checked' = checked \cup {i}
  /\ raced' = IF \E j \in checked : HoldAccount(j) = HoldAccount(i)
              THEN raced \cup {HoldAccount(i)} ELSE raced

\* Fault: the balance is not looked at.
CheckBalanceNever(i) ==
  /\ rows[i].status = "none" /\ i \notin checked
  /\ Cardinality({j \in checked : User(j) = User(i)}) < RequestsPerUser
  /\ PassCheck(i)
  /\ UNCHANGED <<bookVars, plan, dbVars, unsent, topic, cancels, logTopic,
                 makerVars, crashes>>

\* HasEnoughBalance reads the account outside the transaction.
CheckBalance(i) ==
  /\ rows[i].status = "none" /\ i \notin checked
  /\ Cardinality({j \in checked : User(j) = User(i)}) < RequestsPerUser
  /\ accounts[User(i)][HoldCurrency(Order(i))].available >= HoldSize(Order(i))
  /\ PassCheck(i)
  /\ UNCHANGED <<bookVars, plan, dbVars, unsent, topic, cancels, logTopic,
                 makerVars, crashes>>

\* The transaction of service.PlaceOrder: hold the balance, add the order.
PlaceOrder(i) ==
  /\ i \in checked
  /\ LET h == HoldSize(Order(i))
     IN accounts' = [accounts EXCEPT ![User(i)][HoldCurrency(Order(i))] =
                       [available |-> @.available - h, hold |-> @.hold + h]]
  /\ rows' = [rows EXCEPT ![i].status = "new"]
  /\ checked' = checked \ {i}
  /\ unsent' = unsent \cup {i}
  /\ UNCHANGED <<bookVars, plan, bills, fills, topic, cancels, raced,
                 logTopic, makerVars, crashes>>

\* submitOrder; an error of the writer is only logged.
SubmitOrder(i) ==
  /\ i \in unsent
  /\ unsent' = unsent \ {i}
  /\ \/ topic' = topic \cup {[id |-> i, cancel |-> FALSE]}
     \/ UNCHANGED topic
  /\ UNCHANGED <<bookVars, plan, dbVars, checked, cancels, raced, logTopic,
                 makerVars, crashes>>

\* The REST CancelOrder needs the row only, whatever its status; messages of
\* two handlers reach the topic in any order.
RequestCancel(i) ==
  /\ rows[i].status # "none"
  /\ cancels < MaxCancels
  /\ cancels' = cancels + 1
  /\ topic' = topic \cup {[id |-> i, cancel |-> TRUE]}
  /\ UNCHANGED <<bookVars, plan, dbVars, checked, unsent, raced, logTopic,
                 makerVars, crashes>>

-----------------------------------------------------------------------------
(* The engine, from one topic to the other. *)

Engine(m) ==
  /\ m \in topic
  /\ IF m.cancel THEN CancelOrder(Order(m.id)) ELSE Receive(Order(m.id))
  /\ topic' = topic \ {m}
  /\ UNCHANGED <<plan, dbVars, checked, unsent, cancels, raced, logTopic,
                 makerVars, crashes>>

EngineMatch ==
  /\ MatchMaker \/ FinishTaker
  /\ UNCHANGED <<plan, dbVars, restVars, logTopic, makerVars, crashes>>

EngineLogs ==
  /\ taker = NoTaker /\ out # <<>>
  /\ logTopic' = logTopic \o out
  /\ out' = <<>>
  /\ UNCHANGED <<depths, logSeq, tradeSeq, window, taker, left, plan, dbVars,
                 restVars, makerVars, crashes>>

-----------------------------------------------------------------------------
(* FillMaker. *)

NewFill(log, offset, order) ==
  [order |-> order, seq |-> log.seq, offset |-> offset, size |-> log.size,
   price |-> IF log.type = "match" THEN log.price ELSE 0,
   done |-> log.type = "done", reason |-> log.reason, settled |-> FALSE]

\* One round of KafkaLogReader.Run with OnOpenLog, OnMatchLog or OnDoneLog.
ReadLog ==
  /\ todo = <<>>
  /\ readPos < Len(logTopic)
  /\ readPos' = readPos + 1
  /\ LET log == logTopic[readPos + 1]
     IN \/ /\ log.seq <= lastSeq
           /\ UNCHANGED <<lastSeq, todo, rows>>
        \/ /\ log.seq > lastSeq
           /\ lastSeq = 0 \/ log.seq = lastSeq + 1
           /\ lastSeq' = log.seq
           /\ todo' = CASE log.type = "open" -> <<>>
                        [] log.type = "match" ->
                             <<NewFill(log, readPos, log.order),
                               NewFill(log, readPos, log.maker)>>
                        [] log.type = "done" -> <<NewFill(log, readPos, log.order)>>
           /\ rows' = IF log.type = "open" /\ rows[log.order].status = "new"
                      THEN [rows EXCEPT ![log.order].status = "open"] ELSE rows
  /\ UNCHANGED <<bookVars, plan, accounts, bills, fills, restVars, logTopic,
                 fillCh, fillBuf, crashes>>

SendFill ==
  /\ todo # <<>>
  /\ Len(fillCh) < FillChCap
  /\ fillCh' = Append(fillCh, Head(todo))
  /\ todo' = Tail(todo)
  /\ UNCHANGED <<bookVars, plan, dbVars, restVars, logTopic, readPos, lastSeq,
                 fillBuf, crashes>>

\* Fault: the unique key is message_seq alone.
RecordedBySeq(f) == \E k \in DOMAIN fills : fills[k].seq = f.seq

Recorded(f) == \E k \in DOMAIN fills : fills[k].order = f.order /\ fills[k].seq = f.seq

\* The elements of s at the positions in P, in their order.
Kept(s, P) ==
  LET kept[k \in 0 .. Len(s)] ==
        IF k = 0 THEN <<>> ELSE IF k \in P THEN Append(kept[k - 1], s[k]) ELSE kept[k - 1]
  IN kept[Len(s)]

\* INSERT IGNORE with the unique key (order_id, message_seq).
AddFills(new) == fills' = fills \o Kept(new, {k \in DOMAIN new : ~ Recorded(new[k])})

\* The flusher waits for more while there is more, then inserts its buffer.
FlushFill ==
  /\ fillCh # <<>>
  /\ fillCh' = Tail(fillCh)
  /\ LET buf == Append(fillBuf, Head(fillCh))
     IN IF Len(fillCh) > 1 /\ Len(buf) < FillBatch
        THEN fillBuf' = buf /\ UNCHANGED fills
        ELSE fillBuf' = <<>> /\ AddFills(buf)
  /\ UNCHANGED <<bookVars, plan, rows, accounts, bills, restVars, logTopic,
                 readPos, lastSeq, todo, crashes>>

-----------------------------------------------------------------------------
(* Settlement. *)

SumOf(s) ==
  LET sum[k \in 0 .. Len(s)] == IF k = 0 THEN 0 ELSE sum[k - 1] + s[k]
  IN sum[Len(s)]

\* The sum of value over the fills at the positions in P.
SumAt(P, value(_)) == SumOf([k \in DOMAIN fills |-> IF k \in P THEN value(fills[k]) ELSE 0])

\* The n smallest of P.
FirstOf(P, n) == {k \in P : Cardinality({j \in P : j <= k}) <= n}

\* Fault: settled fills are read again.
FetchedAll(i) == FirstOf({k \in DOMAIN fills : fills[k].order = i}, FillLimit)

\* The ids of the fills ExecuteFill reads, and of these the ones its loop reaches:
\* it ends with the first that is done.
Fetched(i) ==
  FirstOf({k \in DOMAIN fills : fills[k].order = i /\ ~ fills[k].settled}, FillLimit)

Processed(P) == {k \in P : \A j \in P : fills[j].done => k <= j}

BaseBills(side, m) ==
  [k \in DOMAIN m |-> IF side = "buy" THEN [available |-> m[k].size, hold |-> 0]
                      ELSE [available |-> 0, hold |-> - m[k].size]]

QuoteBills(side, m) ==
  [k \in DOMAIN m |->
     LET value == m[k].size * m[k].price
     IN IF side = "buy" THEN [available |-> 0, hold |-> - value]
        ELSE [available |-> value, hold |-> 0]]

\* Fault: a done order releases all it ever held.
ReleaseAll(o, row) ==
  LET rest == IF o.side = "buy" THEN o.funds ELSE o.size
  IN <<[available |-> rest, hold |-> - rest]>>

\* The bill that unfreezes what a done order did not use.
Release(o, row) ==
  LET rest == IF o.side = "buy" THEN o.funds - row.executed
                                ELSE o.size - row.filled
  IN IF rest > 0 THEN <<[available |-> rest, hold |-> - rest]>> ELSE <<>>

Size(f) == f.size
Value(f) == f.size * f.price

ExecuteFill(i) ==
  /\ Live(i)
  /\ Fetched(i) # {}
  /\ LET o == Order(i)
         p == Processed(Fetched(i))
         ends == {k \in p : fills[k].done}
         m == Kept(fills, p \ ends)
         row == [status |-> IF ends = {} THEN rows[i].status
                            ELSE fills[CHOOSE k \in ends : TRUE].reason,
                 filled |-> rows[i].filled + SumAt(p \ ends, Size),
                 executed |-> rows[i].executed + SumAt(p \ ends, Value)]
         freed == IF ends = {} THEN <<>> ELSE Release(o, row)
     IN /\ rows' = [rows EXCEPT ![i] = row]
        /\ fills' = [k \in DOMAIN fills |->
                       IF k \in p THEN [fills[k] EXCEPT !.settled = TRUE] ELSE fills[k]]
        /\ bills' = [bills EXCEPT
             ![User(i)] =
                [base |-> @.base \o BaseBills(o.side, m)
                            \o (IF o.side = "sell" THEN freed ELSE <<>>),
                 quote |-> @.quote \o QuoteBills(o.side, m)
                             \o (IF o.side = "buy" THEN freed ELSE <<>>)]]
  /\ UNCHANGED <<bookVars, plan, accounts, restVars, logTopic, makerVars, crashes>>

ExecuteBill(u, c) ==
  /\ bills[u][c] # <<>>
  /\ LET n == Smaller(Len(bills[u][c]), BillLimit)
         b == SubSeq(bills[u][c], 1, n)
     IN /\ accounts' = [accounts EXCEPT ![u][c] =
             [available |-> @.available + SumOf([k \in 1 .. n |-> b[k].available]),
              hold |-> @.hold + SumOf([k \in 1 .. n |-> b[k].hold])]]
        /\ bills' = [bills EXCEPT ![u][c] = SubSeq(@, n + 1, Len(@))]
  /\ UNCHANGED <<bookVars, plan, rows, fills, restVars, logTopic, makerVars, crashes>>

-----------------------------------------------------------------------------
\* Fault: a log is skipped on restart.
ResumeAtSkip(offset) == offset + 2

\* FillMaker.Start: the log after the one of the last fill.
ResumeAt(offset) == IF offset > 0 THEN offset + 1 ELSE offset

\* The process dies.  Requests under way are gone; NewFillMaker resumes after
\* the fill with the greatest id.
Crash ==
  /\ crashes < MaxSettleCrashes
  /\ crashes' = crashes + 1
  /\ checked' = {} /\ unsent' = {}
  /\ todo' = <<>> /\ fillCh' = <<>> /\ fillBuf' = <<>>
  /\ IF fills = <<>> THEN readPos' = 0 /\ lastSeq' = 0
     ELSE /\ readPos' = ResumeAt(fills[Len(fills)].offset)
          /\ lastSeq' = fills[Len(fills)].seq
  /\ UNCHANGED <<bookVars, plan, dbVars, topic, cancels, raced, logTopic>>

Init ==
  /\ BookInit
  /\ plan \in Plans
  /\ rows = [i \in OrderIds |-> [status |-> "none", filled |-> 0, executed |-> 0]]
  /\ accounts = [u \in Users |-> [c \in Currencies |->
                   [available |-> Deposits[u][c], hold |-> 0]]]
  /\ bills = [u \in Users |-> [base |-> <<>>, quote |-> <<>>]]
  /\ fills = <<>> /\ checked = {} /\ unsent = {} /\ topic = {} /\ cancels = 0
  /\ raced = {}
  /\ logTopic = <<>> /\ readPos = 0 /\ lastSeq = 0
  /\ todo = <<>> /\ fillCh = <<>> /\ fillBuf = <<>> /\ crashes = 0

Settle ==
  \/ \E i \in OrderIds : ExecuteFill(i)
  \/ \E u \in Users, c \in Currencies : ExecuteBill(u, c)

Next ==
  \/ \E i \in OrderIds :
       CheckBalance(i) \/ PlaceOrder(i) \/ SubmitOrder(i) \/ RequestCancel(i)
  \/ \E m \in topic : Engine(m)
  \/ EngineMatch \/ EngineLogs
  \/ ReadLog \/ SendFill \/ FlushFill
  \/ Settle
  \/ Crash

\* The engine, FillMaker and the executors go on while there is work; the
\* executors are woken by the inspectors that poll both tables every second.
Fairness ==
  /\ WF_vars(\E m \in topic : Engine(m))
  /\ WF_vars(EngineMatch) /\ WF_vars(EngineLogs)
  /\ WF_vars(ReadLog) /\ WF_vars(SendFill) /\ WF_vars(FlushFill)
  /\ WF_vars(Settle)

Spec == Init /\ [][Next]_vars /\ Fairness

-----------------------------------------------------------------------------
\* The type of the tables and channels: a row gets one of the four statuses of
\* models.go from a fill, and only accounts and bills may be negative.
SettlementTypeOK ==
  /\ BookTypeOK
  /\ plan \in Plans
  /\ rows \in [OrderIds -> [status : {"none", "new", "open", "filled", "cancelled"},
                            filled : Nat, executed : Nat]]
  /\ accounts \in [Users -> [Currencies -> [available : Int, hold : Int]]]
  /\ bills \in [Users -> [Currencies -> Seq(Bill)]]
  /\ {fills, todo, fillCh, fillBuf} \subseteq Seq(Fill)
  /\ raced \subseteq Users \X Currencies
  /\ checked \subseteq OrderIds /\ unsent \subseteq OrderIds
  /\ topic \subseteq [id : OrderIds, cancel : BOOLEAN]
  /\ logTopic \in Seq(Log)
  /\ {cancels, readPos, lastSeq, crashes} \subseteq Nat

\* An account's balance with its unsettled bills.
Total(u, c, field) ==
  accounts[u][c][field] + SumOf([k \in DOMAIN bills[u][c] |-> bills[u][c][k][field]])

\* What an unfinished order still holds, by its row.
Reserved(i) ==
  IF ~ Live(i) THEN 0
  ELSE IF Order(i).side = "buy" THEN Order(i).funds - rows[i].executed
  ELSE Order(i).size - rows[i].filled

\* What an account holds, bills included, is what its unfinished orders have
\* reserved: nothing is released twice and nothing stays behind.
HoldBacked ==
  \A u \in Users, c \in Currencies :
    Total(u, c, "hold") =
      SumFunctionOnSet([i \in OrderIds |-> Reserved(i)],
                       {i \in OrderIds : User(i) = u /\ HoldCurrency(Order(i)) = c})

\* PlaceOrder refuses an order that is not covered: an available balance is
\* never negative.  Two requests that check it before either holds its part can
\* overdraw it all the same.
AvailableNonNegative ==
  \A u \in Users, c \in Currencies : accounts[u][c].available >= 0

\* Nothing else can: an account is overdrawn only after two requests were past
\* HasEnoughBalance for it together, whatever is matched, settled, released or
\* replayed.
OverdrawnOnlyInRace ==
  \A u \in Users, c \in Currencies :
    accounts[u][c].available < 0 => <<u, c>> \in raced

FillMakerIdle ==
  readPos = Len(logTopic) /\ todo = <<>> /\ fillCh = <<>> /\ fillBuf = <<>>

\* Nothing is left to settle for what the engine has logged.
Settled ==
  /\ FillMakerIdle
  /\ \A u \in Users, c \in Currencies : bills[u][c] = <<>>
  /\ \A k \in DOMAIN fills : fills[k].settled \/ ~ Live(fills[k].order)

\* Each match log has become a fill of the taker and a fill of the maker.
TwoFillsPerMatch ==
  FillMakerIdle =>
    \A n \in DOMAIN logTopic : logTopic[n].type = "match" =>
      \A i \in {logTopic[n].order, logTopic[n].maker} :
        \E k \in DOMAIN fills : fills[k].order = i /\ fills[k].seq = logTopic[n].seq

Worth(u, c) == accounts[u][c].available + accounts[u][c].hold

\* Trading creates and destroys nothing: once all is settled each currency has
\* the amount that was deposited.
Conserved ==
  Settled => \A c \in Currencies :
    SumFunctionOnSet([u \in Users |-> Worth(u, c)], Users)
      = SumFunctionOnSet([u \in Users |-> Deposits[u][c]], Users)

Matched(i) ==
  SumOf([n \in DOMAIN logTopic |->
           IF logTopic[n].type = "match" /\ i \in {logTopic[n].order, logTopic[n].maker}
           THEN logTopic[n].size ELSE 0])

Logged(i, type) == \E n \in DOMAIN logTopic : logTopic[n].type = type /\ logTopic[n].order = i

\* Once all is settled an order's row says what the log says of it: its size
\* matched, finished exactly when it is done, open exactly when it rests.
RowsFollowLog ==
  Settled => \A i \in OrderIds :
    /\ rows[i].filled = Matched(i)
    /\ rows[i].status \in {"filled", "cancelled"} <=> Logged(i, "done")
    /\ rows[i].status = "open" <=> Logged(i, "open") /\ ~ Logged(i, "done")

\* Whatever the engine logs is settled in the end.
SettlesInTheEnd == <>[]Settled
=============================================================================
