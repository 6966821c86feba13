--------------------------- MODULE SpotMarketData ---------------------------
(***************************************************************************)
(* The two workers of gitbitex-spot that turn the matching log into market *)
(* data: TradeMaker (worker/trade_maker.go), one g_trade row for a match,  *)
(* and TickMaker (worker/tick_maker.go), candles of several granularities. *)
(* Each reads the log through a KafkaLogReader of its own, hands rows over *)
(* a channel to a flusher that stores them in batches, and after a restart *)
(* resumes behind the last row it finds.                                   *)
(*                                                                         *)
(* The log may repeat logs: SpotEngine shows that a restarted engine writes *)
(* again what it replays, under the same numbers.                          *)
(***************************************************************************)
EXTENDS Integers, SequencesExt

CONSTANTS
  Topics,         \* the log topics to start from: sequences of MatchLog and
                  \* of logs the two workers ignore
  Granularities,  \* minutes: lengths of candles, in the order of the array
  ChCap,          \* capacity of tradeCh and tickCh (1000)
  Batch,          \* rows a flusher buffers (1000)
  MaxCrashes,     \* crashes of the process
  MaxLost         \* answers of the database that are lost after a commit

Log == [match : BOOLEAN, seq : Nat \ {0}, price : Nat, size : Nat, time : Nat]

ASSUME MarketAssumption ==
  /\ \A t \in Topics : t \in Seq(Log)
  /\ Granularities \in Seq(Nat \ {0}) /\ Granularities # <<>>
  /\ {ChCap, Batch} \subseteq Nat \ {0}
  /\ {MaxCrashes, MaxLost} \subseteq Nat

\* A row of g_trade, and one of g_tick.
Trade == [offset : Nat, seq : Nat, price : Nat, size : Nat]

Tick ==
  [granularity : Range(Granularities), time : Nat, open : Nat, low : Nat,
   high : Nat, close : Nat, volume : Nat, offset : Nat, seq : Nat]

NoTick == [granularity |-> 0]

\* One worker: where its reader is, the rows that wait for the channel, the
\* channel, and what the flusher has taken from it.
Reader(Row) == [pos : Nat, lastSeq : Nat, todo : Seq(Row), ch : Seq(Row), buf : Seq(Row)]

VARIABLES
  topic,   \* the log topic; offsets start at 0
  trader,  \* TradeMaker
  ticker,  \* TickMaker
  ticks,   \* TickMaker: granularity -> the candle it is working on, or NoTick
  trades,  \* g_trade in the order of its ids
  rows,    \* g_tick, a set with at most one row for a granularity and time
  lost,    \* answers lost so far
  crashes

vars == <<topic, trader, ticker, ticks, trades, rows, lost, crashes>>

-----------------------------------------------------------------------------
(* KafkaLogReader.Run. *)

\* Fault: a log is skipped on restart.
ResumeAtSkip(offset) == offset + 2

\* Start reads behind the offset of the last row, or from 0.
ResumeAt(offset) == IF offset > 0 THEN offset + 1 ELSE offset

StartReader(offset, seq) ==
  [pos |-> ResumeAt(offset), lastSeq |-> seq, todo |-> <<>>, ch |-> <<>>, buf |-> <<>>]

CanRead(r) == r.todo = <<>> /\ r.pos < Len(topic)

NextLog(r) == topic[r.pos + 1]

\* A repeated log is discarded; a gap would end the process.
Discarded(r) == NextLog(r).seq <= r.lastSeq
Gapless(r) == r.lastSeq = 0 \/ NextLog(r).seq = r.lastSeq + 1

Passed(r, out) == [r EXCEPT !.pos = @ + 1, !.lastSeq = NextLog(r).seq, !.todo = out]

Handed(r) == [r EXCEPT !.ch = Append(@, Head(r.todo)), !.todo = Tail(@)]

\* The flusher takes a row, and stores its buffer unless more is waiting and
\* there is room for it.
Taken(r) == [r EXCEPT !.ch = Tail(@), !.buf = Append(@, Head(r.ch))]
Waits(r) == Len(r.ch) > 1 /\ Len(r.buf) + 1 < Batch

-----------------------------------------------------------------------------
(* TradeMaker. *)

NewTrade(log, offset) ==
  [offset |-> offset, seq |-> log.seq, price |-> log.price, size |-> log.size]

TradeRead ==
  /\ CanRead(trader)
  /\ LET log == NextLog(trader)
     IN \/ Discarded(trader) /\ trader' = [trader EXCEPT !.pos = @ + 1]
        \/ /\ ~ Discarded(trader) /\ Gapless(trader)
           /\ trader' = Passed(trader,
                IF log.match THEN <<NewTrade(log, trader.pos)>> ELSE <<>>)
  /\ UNCHANGED <<topic, ticker, ticks, trades, rows, lost, crashes>>

TradeSend ==
  /\ trader.todo # <<>>
  /\ Len(trader.ch) < ChCap
  /\ trader' = Handed(trader)
  /\ UNCHANGED <<topic, ticker, ticks, trades, rows, lost, crashes>>

TradeBuffer ==
  /\ trader.ch # <<>> /\ Waits(trader)
  /\ trader' = Taken(trader)
  /\ UNCHANGED <<topic, ticker, ticks, trades, rows, lost, crashes>>

\* AddTrades: g_trade has no unique key besides its own id, so INSERT IGNORE
\* inserts every row.  The flusher repeats the statement when it gets an error,
\* which may be a lost answer to one that was executed.
TradeFlush ==
  /\ trader.ch # <<>> /\ ~ Waits(trader)
  /\ LET r == Taken(trader)
     IN /\ trader' = [r EXCEPT !.buf = <<>>]
        /\ \/ trades' = trades \o r.buf /\ UNCHANGED lost
           \/ /\ lost < MaxLost
              /\ lost' = lost + 1
              /\ trades' = trades \o r.buf \o r.buf
  /\ UNCHANGED <<topic, ticker, ticks, rows, crashes>>

-----------------------------------------------------------------------------
(* TickMaker. *)

Bucket(time, g) == (time \div g) * g

Least(x, y) == IF x <= y THEN x ELSE y
Greatest(x, y) == IF x >= y THEN x ELSE y

NewTick(g, log, offset) ==
  [granularity |-> g, time |-> Bucket(log.time, g), open |-> log.price,
   low |-> log.price, high |-> log.price, close |-> log.price,
   volume |-> log.size, offset |-> offset, seq |-> log.seq]

\* Fault: the volume of the candle is replaced, not increased.
MergedReplace(t, log, offset) ==
  [t EXCEPT !.close = log.price, !.low = Least(@, log.price),
            !.high = Greatest(@, log.price), !.volume = log.size,
            !.offset = offset, !.seq = log.seq]

Merged(t, log, offset) ==
  [t EXCEPT !.close = log.price, !.low = Least(@, log.price),
            !.high = Greatest(@, log.price), !.volume = @ + log.size,
            !.offset = offset, !.seq = log.seq]

\* A candle goes on while the match falls into its time.
TickAfter(g, log, offset) ==
  IF ticks[g] = NoTick \/ ticks[g].time # Bucket(log.time, g)
  THEN NewTick(g, log, offset) ELSE Merged(ticks[g], log, offset)

\* OnMatchLog changes the candle of each granularity and sends a copy of it.
TickRead ==
  /\ CanRead(ticker)
  /\ LET log == NextLog(ticker)
         after == [g \in Range(Granularities) |-> TickAfter(g, log, ticker.pos)]
     IN \/ /\ Discarded(ticker)
           /\ ticker' = [ticker EXCEPT !.pos = @ + 1]
           /\ UNCHANGED ticks
        \/ /\ ~ Discarded(ticker) /\ Gapless(ticker)
           /\ IF log.match
              THEN /\ ticks' = after
                   /\ ticker' = Passed(ticker, [k \in DOMAIN Granularities |->
                                                  after[Granularities[k]]])
              ELSE /\ ticker' = Passed(ticker, <<>>)
                   /\ UNCHANGED ticks
  /\ UNCHANGED <<topic, trader, trades, rows, lost, crashes>>

TickSend ==
  /\ ticker.todo # <<>>
  /\ Len(ticker.ch) < ChCap
  /\ ticker' = Handed(ticker)
  /\ UNCHANGED <<topic, trader, ticks, trades, rows, lost, crashes>>

TickBuffer ==
  /\ ticker.ch # <<>> /\ Waits(ticker)
  /\ ticker' = Taken(ticker)
  /\ UNCHANGED <<topic, trader, ticks, trades, rows, lost, crashes>>

SameKey(a, b) == a.granularity = b.granularity /\ a.time = b.time

\* REPLACE INTO g_tick with the unique key (product_id, granularity, time): the
\* last row of a batch with a key stays.  Storing a batch twice changes nothing.
Replaced(table, batch) ==
  LET final == {i \in DOMAIN batch :
                  \A j \in DOMAIN batch : j > i => ~ SameKey(batch[i], batch[j])}
  IN {x \in table : \A i \in DOMAIN batch : ~ SameKey(x, batch[i])}
       \cup {batch[i] : i \in final}

TickFlush ==
  /\ ticker.ch # <<>> /\ ~ Waits(ticker)
  /\ LET r == Taken(ticker)
     IN /\ ticker' = [r EXCEPT !.buf = <<>>]
        /\ rows' = Replaced(rows, r.buf)
  /\ UNCHANGED <<topic, trader, ticks, trades, lost, crashes>>

-----------------------------------------------------------------------------
(* The process dies and starts again. *)

\* GetLastTickByProductId.
LastTick(g) ==
  LET mine == {t \in rows : t.granularity = g}
  IN IF mine = {} THEN NoTick
     ELSE CHOOSE t \in mine : \A u \in mine : u.time <= t.time

\* NewTickMaker overwrites its offset with that of each candle it loads, so the
\* last granularity that has one decides.
ResumeTick ==
  LET found == {k \in DOMAIN Granularities : LastTick(Granularities[k]) # NoTick}
      last == CHOOSE k \in found : \A j \in found : j <= k
  IN IF found = {} THEN StartReader(0, 0)
     ELSE LET t == LastTick(Granularities[last]) IN StartReader(t.offset, t.seq)

\* Fault: TradeMaker resumes without the number of the last trade.
ResumeTradeNoSeq ==
  IF trades = <<>> THEN StartReader(0, 0) ELSE StartReader(Last(trades).offset, 0)

\* NewTradeMaker resumes behind the trade with the greatest id.
ResumeTrade ==
  IF trades = <<>> THEN StartReader(0, 0)
  ELSE StartReader(Last(trades).offset, Last(trades).seq)

Restart ==
  /\ crashes < MaxCrashes
  /\ crashes' = crashes + 1
  /\ trader' = ResumeTrade
  /\ ticker' = ResumeTick
  /\ ticks' = [g \in Range(Granularities) |-> LastTick(g)]
  /\ UNCHANGED <<topic, trades, rows, lost>>

Init ==
  /\ topic \in Topics
  /\ trader = StartReader(0, 0) /\ ticker = StartReader(0, 0)
  /\ ticks = [g \in Range(Granularities) |-> NoTick]
  /\ trades = <<>> /\ rows = {} /\ lost = 0 /\ crashes = 0

Next ==
  \/ TradeRead \/ TradeSend \/ TradeBuffer \/ TradeFlush
  \/ TickRead \/ TickSend \/ TickBuffer \/ TickFlush
  \/ Restart

\* The goroutines of both workers go on while they can; crashes and lost
\* answers are not promised.
Fairness ==
  /\ WF_vars(TradeRead) /\ WF_vars(TradeSend)
  /\ WF_vars(TradeBuffer) /\ WF_vars(TradeFlush)
  /\ WF_vars(TickRead) /\ WF_vars(TickSend)
  /\ WF_vars(TickBuffer) /\ WF_vars(TickFlush)

Spec == Init /\ [][Next]_vars /\ Fairness

-----------------------------------------------------------------------------
Done(r) == r.pos = Len(topic) /\ r.todo = <<>> /\ r.ch = <<>> /\ r.buf = <<>>

\* The type of both workers and tables; a reader never stands behind the end of
\* the topic, where it would wait for ever while new logs pass.
MarketTypeOK ==
  /\ topic \in Topics
  /\ trader \in Reader(Trade) /\ ticker \in Reader(Tick)
  /\ {trader.pos, ticker.pos} \subseteq 0 .. Len(topic)
  /\ ticks \in [Range(Granularities) -> Tick \cup {NoTick}]
  /\ trades \in Seq(Trade) /\ rows \subseteq Tick
  /\ {lost, crashes} \subseteq Nat

\* A trade is the one of the match at its offset; a candle has that match as its last.
TradeLogged(t) ==
  /\ t.offset < Len(topic) /\ topic[t.offset + 1].match
  /\ t = NewTrade(topic[t.offset + 1], t.offset)
TickLogged(t) ==
  /\ t.offset < Len(topic) /\ topic[t.offset + 1].match
  /\ t.seq = topic[t.offset + 1].seq /\ t.close = topic[t.offset + 1].price

Pending(r) == Range(r.todo) \cup Range(r.ch) \cup Range(r.buf)

\* Every row, stored or on its way, is of the match whose offset it has, so that what a
\* restart reads from the last of them (trade_maker.go:44, tick_maker.go:52) is true.
RowsLogged ==
  /\ \A t \in Range(trades) \cup Pending(trader) : TradeLogged(t)
  /\ \A t \in rows \cup Pending(ticker) : TickLogged(t)

\* The offsets of the matches, a repeated one counted where it is first.
Matches ==
  {n \in DOMAIN topic : /\ topic[n].match
                        /\ \A k \in 1 .. n - 1 : topic[k].seq # topic[n].seq}

\* No match is recorded twice in g_trade and the rows are in the order of the
\* log, though its logs repeat, TradeMaker is restarted at any moment and the
\* database may answer with an error.
TradesUnique ==
  \A i, j \in DOMAIN trades : i < j => trades[i].seq < trades[j].seq

\* The same while no answer of the database is lost after its commit.
TradesOnce == lost = 0 => TradesUnique

\* Each match becomes a trade with its price and size in the end.
AllTraded ==
  <>[](\A n \in Matches :
         \E i \in DOMAIN trades :
           /\ trades[i].seq = topic[n].seq
           /\ trades[i].price = topic[n].price /\ trades[i].size = topic[n].size)

\* What the matches in a set add up to, log by log.
Volume(in) ==
  LET upTo[n \in 0 .. Len(topic)] ==
        IF n = 0 THEN 0 ELSE upTo[n - 1] + (IF n \in in THEN topic[n].size ELSE 0)
  IN upTo[Len(topic)]

\* The candle of granularity g at time b, from the log alone.
Candle(g, b) ==
  LET in == {n \in Matches : Bucket(topic[n].time, g) = b}
      prices == {topic[n].price : n \in in}
      first == CHOOSE n \in in : \A k \in in : n <= k
      last == CHOOSE n \in in : \A k \in in : k <= n
  IN [granularity |-> g, time |-> b,
      open |-> topic[first].price, close |-> topic[last].price,
      low |-> CHOOSE p \in prices : \A q \in prices : p <= q,
      high |-> CHOOSE p \in prices : \A q \in prices : q <= p,
      volume |-> Volume(in)]

Ohlcv(t) ==
  [granularity |-> t.granularity, time |-> t.time, open |-> t.open,
   close |-> t.close, low |-> t.low, high |-> t.high, volume |-> t.volume]

\* Once TickMaker has caught up, g_tick has for each granularity exactly the
\* candles of the matches in the log, after a restart too.
CandlesExact ==
  Done(ticker) =>
    {Ohlcv(t) : t \in rows} =
      UNION {{Candle(g, Bucket(topic[n].time, g)) : n \in Matches} :
               g \in Range(Granularities)}

\* The same while TickMaker is not restarted, with every batching and with the
\* logs a restarted engine repeats.
TicksExact == crashes = 0 => CandlesExact
=============================================================================
