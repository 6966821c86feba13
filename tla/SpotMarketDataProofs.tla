------------------------- MODULE SpotMarketDataProofs -------------------------
(***************************************************************************)
(* Proofs about the market data workers of gitbitex-spot: TradeMaker stores *)
(* a match once (StoredOnce), the candles TickMaker stores are those of the *)
(* matches in the log (CandlesAreExact), and neither reader resumes behind  *)
(* the end of the log (ResumeWithinLog).                                    *)
(***************************************************************************)
EXTENDS SpotMarketData, WellFoundedInduction, TLAPS

-----------------------------------------------------------------------------
(* TradeMaker: the inductive invariant. *)

\* The rows of s are in the order of the log, each once.
Rising(s) == \A i, j \in DOMAIN s : i < j => s[i].seq < s[j].seq

\* Those of s come before those of t.
Before(s, t) == \A i \in DOMAIN s, j \in DOMAIN t : s[i].seq < t[j].seq

UpTo(s, n) == \A i \in DOMAIN s : s[i].seq <= n

\* What TradeMaker has stored, buffered, queued and still to queue follows one after the
\* other, and nothing of it is newer than the last log its reader has passed on.
Ordered(old, r) ==
  /\ Rising(old) /\ Rising(r.buf) /\ Rising(r.ch) /\ Rising(r.todo)
  /\ Before(old, r.buf) /\ Before(old, r.ch) /\ Before(old, r.todo)
  /\ Before(r.buf, r.ch) /\ Before(r.buf, r.todo) /\ Before(r.ch, r.todo)
  /\ UpTo(old, r.lastSeq) /\ UpTo(r.buf, r.lastSeq)
  /\ UpTo(r.ch, r.lastSeq) /\ UpTo(r.todo, r.lastSeq)

TradeInv ==
  /\ topic \in Seq(Log) /\ trader \in Reader(Trade) /\ trades \in Seq(Trade) /\ lost \in Nat
  /\ lost = 0 => Ordered(trades, trader)

-----------------------------------------------------------------------------
(* Facts about rows in order. *)

LEMMA TailRows ==
  ASSUME NEW s \in Seq(Trade), s # <<>>, NEW t \in Seq(Trade), NEW n \in Nat
  PROVE  /\ Tail(s) \in Seq(Trade) /\ Head(s) \in Trade
         /\ Rising(s) => Rising(Tail(s))
         /\ Before(t, s) => Before(t, Tail(s))
         /\ Before(s, t) => Before(Tail(s), t)
         /\ UpTo(s, n) => UpTo(Tail(s), n)
<1> DEFINE u == Tail(s)
<1>1. /\ u \in Seq(Trade) /\ Len(u) = Len(s) - 1 /\ Head(s) \in Trade
      /\ \A i \in 1 .. Len(u) : u[i] = s[i + 1]
  OBVIOUS
<1>2. Len(s) \in Nat /\ DOMAIN s = 1 .. Len(s) /\ DOMAIN u = 1 .. (Len(s) - 1)
  BY <1>1
<1> HIDE DEF u
<1>3. \A i \in DOMAIN u : (i + 1) \in DOMAIN s /\ u[i] = s[i + 1]
  BY <1>1, <1>2
<1>4. \A i, j \in DOMAIN u : i < j => i + 1 < j + 1
  BY <1>2
<1>5. Rising(s) => Rising(u)
  BY <1>3, <1>4 DEF Rising
<1>6. (Before(t, s) => Before(t, u)) /\ (Before(s, t) => Before(u, t))
  BY <1>3 DEF Before
<1>7. UpTo(s, n) => UpTo(u, n)
  BY <1>3 DEF UpTo
<1> QED
  BY <1>1, <1>5, <1>6, <1>7 DEF u

\* A row moves from the head of one sequence to the end of another.
LEMMA AppendRows ==
  ASSUME NEW s \in Seq(Trade), NEW t \in Seq(Trade), NEW m \in Trade, NEW n \in Nat
  PROVE  /\ Append(s, m) \in Seq(Trade)
         /\ Rising(s) /\ Before(s, <<m>>) => Rising(Append(s, m))
         /\ Before(t, s) /\ Before(t, <<m>>) => Before(t, Append(s, m))
         /\ Before(s, t) /\ Before(<<m>>, t) => Before(Append(s, m), t)
         /\ UpTo(s, n) /\ m.seq <= n => UpTo(Append(s, m), n)
<1> DEFINE u == Append(s, m)
<1>1. /\ u \in Seq(Trade) /\ Len(u) = Len(s) + 1 /\ u[Len(s) + 1] = m
      /\ \A i \in 1 .. Len(s) : u[i] = s[i]
  OBVIOUS
<1>2. Len(s) \in Nat /\ DOMAIN s = 1 .. Len(s) /\ DOMAIN u = 1 .. (Len(s) + 1)
  BY <1>1
<1>3. PICK one : one = <<m>>
  OBVIOUS
<1>4. DOMAIN one = {1} /\ one[1] = m
  BY <1>3
<1> HIDE DEF u
<1>5. \A i \in DOMAIN u : (i \in DOMAIN s /\ u[i] = s[i]) \/ (i = Len(s) + 1 /\ u[i] = m)
  BY <1>1, <1>2
<1>6. Rising(s) /\ Before(s, one) => Rising(u)
  BY <1>2, <1>4, <1>5 DEF Rising, Before
<1>7. /\ Before(t, s) /\ Before(t, one) => Before(t, u)
      /\ Before(s, t) /\ Before(one, t) => Before(u, t)
  BY <1>4, <1>5 DEF Before
<1>8. UpTo(s, n) /\ m.seq <= n => UpTo(u, n)
  BY <1>5 DEF UpTo
<1> QED
  BY <1>1, <1>3, <1>6, <1>7, <1>8 DEF u

LEMMA ConcatRows ==
  ASSUME NEW s \in Seq(Trade), NEW v \in Seq(Trade), NEW t \in Seq(Trade), NEW n \in Nat
  PROVE  /\ s \o v \in Seq(Trade)
         /\ Rising(s) /\ Rising(v) /\ Before(s, v) => Rising(s \o v)
         /\ Before(s, t) /\ Before(v, t) => Before(s \o v, t)
         /\ UpTo(s, n) /\ UpTo(v, n) => UpTo(s \o v, n)
<1> DEFINE u == s \o v
<1>1. /\ u \in Seq(Trade) /\ Len(u) = Len(s) + Len(v) /\ DOMAIN u = 1 .. (Len(s) + Len(v))
      /\ \A i \in 1 .. (Len(s) + Len(v)) : u[i] = IF i <= Len(s) THEN s[i] ELSE v[i - Len(s)]
  OBVIOUS
<1>2. /\ Len(s) \in Nat /\ Len(v) \in Nat /\ DOMAIN s = 1 .. Len(s) /\ DOMAIN v = 1 .. Len(v)
  OBVIOUS
<1> HIDE DEF u
<1>3. \A i \in DOMAIN u : \/ i \in DOMAIN s /\ u[i] = s[i]
                          \/ i > Len(s) /\ (i - Len(s)) \in DOMAIN v /\ u[i] = v[i - Len(s)]
  BY <1>1, <1>2
<1>4. ASSUME Rising(s), Rising(v), Before(s, v)
      PROVE  Rising(u)
  <2> SUFFICES ASSUME NEW i \in DOMAIN u, NEW j \in DOMAIN u, i < j
               PROVE  u[i].seq < u[j].seq
    BY DEF Rising
  <2>1. i \in Nat /\ j \in Nat
    BY <1>1
  <2>2. CASE j \in DOMAIN s /\ u[j] = s[j]
    <3>1. i \in DOMAIN s /\ u[i] = s[i]
      BY <1>2, <1>3, <2>1, <2>2
    <3> QED
      BY <1>4, <2>2, <3>1 DEF Rising
  <2>3. CASE j > Len(s) /\ (j - Len(s)) \in DOMAIN v /\ u[j] = v[j - Len(s)]
    <3>1. CASE i \in DOMAIN s /\ u[i] = s[i]
      BY <1>4, <2>3, <3>1 DEF Before
    <3>2. CASE i > Len(s) /\ (i - Len(s)) \in DOMAIN v /\ u[i] = v[i - Len(s)]
      <4>1. i - Len(s) < j - Len(s)
        BY <1>2, <2>1
      <4> QED
        BY <1>4, <2>3, <3>2, <4>1 DEF Rising
    <3> QED
      BY <1>3, <3>1, <3>2
  <2> QED
    BY <1>3, <2>2, <2>3
<1>5. Before(s, t) /\ Before(v, t) => Before(u, t)
  BY <1>3 DEF Before
<1>6. UpTo(s, n) /\ UpTo(v, n) => UpTo(u, n)
  BY <1>3 DEF UpTo
<1> QED
  BY <1>1, <1>4, <1>5, <1>6 DEF u

LEMMA HeadRows ==
  ASSUME NEW s \in Seq(Trade), s # <<>>, NEW t \in Seq(Trade), NEW n \in Nat
  PROVE  /\ Rising(s) => Before(<<Head(s)>>, Tail(s))
         /\ Before(t, s) => Before(t, <<Head(s)>>)
         /\ Before(s, t) => Before(<<Head(s)>>, t)
         /\ UpTo(s, n) => Head(s).seq <= n
<1>1. PICK one : one = <<Head(s)>>
  OBVIOUS
<1>2. DOMAIN one = {1} /\ one[1] = s[1] /\ 1 \in DOMAIN s /\ Head(s) = s[1]
  BY <1>1
<1>3. PICK u : u = Tail(s)
  OBVIOUS
<1>4. \A i \in DOMAIN u : (i + 1) \in DOMAIN s /\ u[i] = s[i + 1] /\ 1 < i + 1
  BY <1>3
<1>5. Rising(s) => Before(one, u)
  BY <1>2, <1>4 DEF Rising, Before
<1>6. (Before(t, s) => Before(t, one)) /\ (Before(s, t) => Before(one, t))
  BY <1>2 DEF Before
<1>7. UpTo(s, n) => Head(s).seq <= n
  BY <1>2 DEF UpTo
<1> QED
  BY <1>1, <1>3, <1>5, <1>6, <1>7

LEMMA EmptyRows ==
  ASSUME NEW t \in Seq(Trade), NEW n \in Nat
  PROVE  /\ <<>> \in Seq(Trade) /\ Rising(<<>>) /\ UpTo(<<>>, n)
         /\ Before(<<>>, t) /\ Before(t, <<>>)
  BY DEF Rising, Before, UpTo

LEMMA ReaderFields ==
  ASSUME NEW r \in Reader(Trade)
  PROVE  /\ r.pos \in Nat /\ r.lastSeq \in Nat
         /\ r.todo \in Seq(Trade) /\ r.ch \in Seq(Trade) /\ r.buf \in Seq(Trade)
  BY DEF Reader

-----------------------------------------------------------------------------
(* The steps of the worker. *)

\* A row goes from todo into the channel.
LEMMA HandedKeepsOrder ==
  ASSUME NEW old \in Seq(Trade), NEW r \in Reader(Trade), r.todo # <<>>
  PROVE  /\ Handed(r) \in Reader(Trade)
         /\ Ordered(old, r) => Ordered(old, Handed(r))
<1> DEFINE h == Handed(r)
<1>1. /\ r.pos \in Nat /\ r.lastSeq \in Nat
      /\ r.todo \in Seq(Trade) /\ r.ch \in Seq(Trade) /\ r.buf \in Seq(Trade)
  BY ReaderFields
<1>2. Head(r.todo) \in Trade /\ Tail(r.todo) \in Seq(Trade) /\ Append(r.ch, Head(r.todo)) \in Seq(Trade)
  BY <1>1, TailRows, AppendRows
<1>3. h \in Reader(Trade)
  BY <1>1, <1>2 DEF Handed, Reader
<1>4. /\ h.lastSeq = r.lastSeq /\ h.todo = Tail(r.todo) /\ h.ch = Append(r.ch, Head(r.todo))
      /\ h.buf = r.buf
  BY DEF Handed, Reader
<1> HIDE DEF h
<1>5. ASSUME Ordered(old, r) PROVE Ordered(old, h)
  <2> USE <1>1, <1>2, <1>4, <1>5 DEF Ordered
  <2>1. Rising(h.todo) /\ Before(old, h.todo) /\ Before(h.buf, h.todo) /\ UpTo(h.todo, h.lastSeq)
    BY TailRows
  <2>2. /\ Before(r.ch, <<Head(r.todo)>>) /\ Before(old, <<Head(r.todo)>>)
        /\ Before(r.buf, <<Head(r.todo)>>) /\ Before(<<Head(r.todo)>>, Tail(r.todo))
        /\ Head(r.todo).seq <= r.lastSeq
    BY HeadRows
  <2>3. Rising(h.ch) /\ Before(old, h.ch) /\ Before(h.buf, h.ch) /\ UpTo(h.ch, h.lastSeq)
    BY <2>2, AppendRows
  <2>4. Before(r.ch, Tail(r.todo))
    BY TailRows
  <2>5. Before(Append(r.ch, Head(r.todo)), Tail(r.todo))
    <3> HIDE <1>4, <1>5 DEF Ordered
    <3> QED
      BY <2>2, <2>4, AppendRows
  <2> QED
    BY <2>1, <2>3, <2>5
<1> QED
  BY <1>3, <1>5 DEF h

\* The flusher takes a row from the channel.
LEMMA TakenKeepsOrder ==
  ASSUME NEW old \in Seq(Trade), NEW r \in Reader(Trade), r.ch # <<>>
  PROVE  /\ Taken(r) \in Reader(Trade)
         /\ Ordered(old, r) => Ordered(old, Taken(r))
<1> DEFINE h == Taken(r)
<1>1. /\ r.pos \in Nat /\ r.lastSeq \in Nat
      /\ r.todo \in Seq(Trade) /\ r.ch \in Seq(Trade) /\ r.buf \in Seq(Trade)
  BY ReaderFields
<1>2. Head(r.ch) \in Trade /\ Tail(r.ch) \in Seq(Trade) /\ Append(r.buf, Head(r.ch)) \in Seq(Trade)
  BY <1>1, TailRows, AppendRows
<1>3. h \in Reader(Trade)
  BY <1>1, <1>2 DEF Taken, Reader
<1>4. /\ h.lastSeq = r.lastSeq /\ h.todo = r.todo /\ h.ch = Tail(r.ch)
      /\ h.buf = Append(r.buf, Head(r.ch))
  BY DEF Taken, Reader
<1> HIDE DEF h
<1>5. ASSUME Ordered(old, r) PROVE Ordered(old, h)
  <2> USE <1>1, <1>2, <1>4, <1>5 DEF Ordered
  <2>1. Rising(h.ch) /\ Before(old, h.ch) /\ Before(h.ch, h.todo) /\ UpTo(h.ch, h.lastSeq)
    BY TailRows
  <2>2. /\ Before(r.buf, <<Head(r.ch)>>) /\ Before(old, <<Head(r.ch)>>)
        /\ Before(<<Head(r.ch)>>, r.todo) /\ Before(<<Head(r.ch)>>, Tail(r.ch))
        /\ Head(r.ch).seq <= r.lastSeq
    BY HeadRows
  <2>3. Rising(h.buf) /\ Before(old, h.buf) /\ Before(h.buf, h.todo) /\ UpTo(h.buf, h.lastSeq)
    BY <2>2, AppendRows
  <2>4. Before(r.buf, Tail(r.ch))
    BY TailRows
  <2>5. Before(Append(r.buf, Head(r.ch)), Tail(r.ch))
    <3> HIDE <1>4, <1>5 DEF Ordered
    <3> QED
      BY <2>2, <2>4, AppendRows
  <2> QED
    BY <2>1, <2>3, <2>5
<1> QED
  BY <1>3, <1>5 DEF h

\* The buffer is stored.
LEMMA StoredKeepsOrder ==
  ASSUME NEW old \in Seq(Trade), NEW r \in Reader(Trade)
  PROVE  /\ [r EXCEPT !.buf = <<>>] \in Reader(Trade)
         /\ Ordered(old, r) => Ordered(old \o r.buf, [r EXCEPT !.buf = <<>>])
<1> DEFINE h == [r EXCEPT !.buf = <<>>]
<1>1. /\ r.pos \in Nat /\ r.lastSeq \in Nat
      /\ r.todo \in Seq(Trade) /\ r.ch \in Seq(Trade) /\ r.buf \in Seq(Trade)
  BY ReaderFields
<1>2. h \in Reader(Trade)
  <2>1. <<>> \in Seq(Trade)
    OBVIOUS
  <2> QED
    BY <1>1, <2>1 DEF Reader
<1>3. h.lastSeq = r.lastSeq /\ h.todo = r.todo /\ h.ch = r.ch /\ h.buf = <<>>
  BY DEF Reader
<1> HIDE DEF h
<1>4. ASSUME Ordered(old, r) PROVE Ordered(old \o r.buf, h)
  <2> USE <1>1, <1>3, <1>4 DEF Ordered
  <2>1. /\ (old \o r.buf) \in Seq(Trade) /\ Rising(old \o r.buf)
        /\ Before(old \o r.buf, h.ch) /\ Before(old \o r.buf, h.todo) /\ UpTo(old \o r.buf, h.lastSeq)
    BY ConcatRows
  <2>2. /\ Rising(h.buf) /\ UpTo(h.buf, h.lastSeq) /\ Before(old \o r.buf, h.buf)
        /\ Before(h.buf, h.ch) /\ Before(h.buf, h.todo)
    BY <2>1, EmptyRows
  <2> QED
    BY <2>1, <2>2
<1> QED
  BY <1>2, <1>4 DEF h

\* The worker starts, or starts again behind the last row it has stored.
LEMMA StartedInOrder ==
  ASSUME NEW old \in Seq(Trade)
  PROVE  LET h == IF old = <<>> THEN StartReader(0, 0)
                  ELSE StartReader(Last(old).offset, Last(old).seq)
         IN h \in Reader(Trade) /\ (Rising(old) => Ordered(old, h))
<1>1. ASSUME NEW a \in Nat, NEW n \in Nat
      PROVE  /\ StartReader(a, n) \in Reader(Trade)
             /\ Rising(old) /\ UpTo(old, n) => Ordered(old, StartReader(a, n))
  <2>1. ResumeAt(a) \in Nat /\ <<>> \in Seq(Trade)
    BY DEF ResumeAt
  <2>2. StartReader(a, n) \in Reader(Trade)
    BY <2>1 DEF StartReader, Reader
  <2>3. /\ StartReader(a, n).lastSeq = n /\ StartReader(a, n).todo = <<>>
        /\ StartReader(a, n).ch = <<>> /\ StartReader(a, n).buf = <<>>
    BY DEF StartReader
  <2>4. /\ Rising(<<>>) /\ UpTo(<<>>, n) /\ Before(old, <<>>) /\ Before(<<>>, <<>>)
    BY <2>1, EmptyRows
  <2> QED
    BY <2>2, <2>3, <2>4 DEF Ordered
<1>2. CASE old = <<>>
  BY <1>1, <1>2, EmptyRows
<1>3. CASE old # <<>>
  <2>1. Last(old) = old[Len(old)] /\ Len(old) \in DOMAIN old /\ Last(old) \in Trade
    BY <1>3 DEF Last
  <2>2. Last(old).offset \in Nat /\ Last(old).seq \in Nat
    BY <2>1 DEF Trade
  <2>3. Rising(old) => UpTo(old, Last(old).seq)
    <3> SUFFICES ASSUME Rising(old), NEW i \in DOMAIN old PROVE old[i].seq <= Last(old).seq
      BY DEF UpTo
    <3>1. i = Len(old) \/ i < Len(old)
      OBVIOUS
    <3>2. old[i] \in Trade
      OBVIOUS
    <3>3. old[i].seq \in Nat
      BY <3>2 DEF Trade
    <3> QED
      BY <2>1, <2>2, <3>1, <3>3 DEF Rising
  <2> QED
    BY <1>1, <1>3, <2>2, <2>3
<1> QED
  BY <1>2, <1>3

\* A log is read: a repeated one is discarded, and what another one makes is newer than
\* everything before it.
LEMMA ReadKeepsOrder ==
  ASSUME TradeInv, TradeRead
  PROVE  trader' \in Reader(Trade) /\ (lost = 0 => Ordered(trades, trader'))
<1>1. /\ topic \in Seq(Log) /\ trader \in Reader(Trade) /\ trades \in Seq(Trade)
      /\ lost = 0 => Ordered(trades, trader)
  BY DEF TradeInv
<1>2. /\ trader.pos \in Nat /\ trader.lastSeq \in Nat /\ trader.todo = <<>>
      /\ trader.ch \in Seq(Trade) /\ trader.buf \in Seq(Trade)
  BY <1>1, ReaderFields DEF TradeRead, CanRead
<1>3. PICK log \in Log : log = NextLog(trader)
  BY <1>1, <1>2 DEF TradeRead, CanRead, NextLog
<1>4. CASE trader' = [trader EXCEPT !.pos = @ + 1]
  <2>1. trader' \in Reader(Trade)
    <3>1. trader.pos + 1 \in Nat
      BY <1>2
    <3> QED
      BY <1>1, <1>2, <1>4, <3>1 DEF Reader
  <2>2. /\ trader'.lastSeq = trader.lastSeq /\ trader'.todo = trader.todo
        /\ trader'.ch = trader.ch /\ trader'.buf = trader.buf
    BY <1>1, <1>4 DEF Reader
  <2> QED
    BY <1>1, <2>1, <2>2 DEF Ordered
<1>5. ASSUME NEW out \in {<<>>, <<NewTrade(log, trader.pos)>>}, ~Discarded(trader),
             trader' = Passed(trader, out)
      PROVE  trader' \in Reader(Trade) /\ (lost = 0 => Ordered(trades, trader'))
  <2>1. log.seq \in Nat /\ log.seq > trader.lastSeq
    BY <1>2, <1>3, <1>5 DEF Discarded, Log
  <2>2. NewTrade(log, trader.pos) \in Trade /\ NewTrade(log, trader.pos).seq = log.seq
    BY <1>2, <1>3 DEF NewTrade, Trade, Log
  <2>3. out \in Seq(Trade) /\ \A i \in DOMAIN out : i = 1 /\ out[i].seq = log.seq
    <3>1. CASE out = <<>>
      BY <3>1
    <3>2. CASE out = <<NewTrade(log, trader.pos)>>
      BY <2>2, <3>2
    <3> QED
      BY <1>5, <3>1, <3>2
  <2>4. trader' \in Reader(Trade)
    <3>1. trader.pos + 1 \in Nat
      BY <1>2
    <3> QED
      BY <1>1, <1>2, <1>3, <1>5, <2>1, <2>3, <3>1 DEF Passed, Reader
  <2>5. /\ trader'.lastSeq = log.seq /\ trader'.todo = out
        /\ trader'.ch = trader.ch /\ trader'.buf = trader.buf
    BY <1>1, <1>3, <1>5 DEF Passed, Reader
  <2>6. Rising(out) /\ UpTo(out, log.seq)
    BY <2>1, <2>3 DEF Rising, UpTo
  <2>7. ASSUME NEW s \in Seq(Trade), UpTo(s, trader.lastSeq)
        PROVE  UpTo(s, log.seq) /\ Before(s, out)
    <3>1. \A i \in DOMAIN s : s[i] \in Trade
      OBVIOUS
    <3>2. \A i \in DOMAIN s : s[i].seq \in Nat
      BY <3>1 DEF Trade
    <3> QED
      BY <1>2, <2>1, <2>3, <2>7, <3>2 DEF UpTo, Before
  <2> QED
    BY <1>1, <1>2, <2>4, <2>5, <2>6, <2>7 DEF Ordered
<1> QED
  BY <1>3, <1>4, <1>5 DEF TradeRead

LEMMA TradeStep ==
  ASSUME TradeInv, [Next]_vars
  PROVE  TradeInv'
<1>1. /\ topic \in Seq(Log) /\ trader \in Reader(Trade) /\ trades \in Seq(Trade) /\ lost \in Nat
      /\ lost = 0 => Ordered(trades, trader)
  BY DEF TradeInv
<1>2. CASE TradeRead
  BY <1>1, <1>2, ReadKeepsOrder DEF TradeInv, TradeRead
<1>3. CASE TradeSend
  BY <1>1, <1>3, HandedKeepsOrder DEF TradeInv, TradeSend
<1>4. CASE TradeBuffer
  BY <1>1, <1>4, TakenKeepsOrder DEF TradeInv, TradeBuffer
<1>5. CASE TradeFlush
  <2>1. PICK r : r = Taken(trader)
    OBVIOUS
  <2>2. r \in Reader(Trade) /\ (Ordered(trades, trader) => Ordered(trades, r)) /\ r.buf \in Seq(Trade)
    BY <1>1, <1>5, <2>1, TakenKeepsOrder, ReaderFields DEF TradeFlush
  <2>3. /\ trader' = [r EXCEPT !.buf = <<>>] /\ topic' = topic
        /\ \/ trades' = trades \o r.buf /\ lost' = lost
           \/ lost' = lost + 1 /\ trades' = trades \o r.buf \o r.buf
    BY <1>5, <2>1 DEF TradeFlush
  <2>4. trader' \in Reader(Trade) /\ (Ordered(trades, r) => Ordered(trades \o r.buf, trader'))
    BY <1>1, <2>2, <2>3, StoredKeepsOrder
  <2>5. trades' \in Seq(Trade) /\ lost' \in Nat /\ (lost' = 0 => lost = 0 /\ trades' = trades \o r.buf)
    <3>1. (trades \o r.buf) \in Seq(Trade) /\ (trades \o r.buf \o r.buf) \in Seq(Trade)
      BY <1>1, <2>2
    <3>2. trades' \in Seq(Trade)
      BY <2>3, <3>1
    <3>3. CASE lost' = lost + 1
      BY <1>1, <3>2, <3>3
    <3>4. CASE trades' = trades \o r.buf /\ lost' = lost
      BY <1>1, <3>2, <3>4
    <3> QED
      BY <2>3, <3>3, <3>4
  <2> QED
    BY <1>1, <2>2, <2>3, <2>4, <2>5 DEF TradeInv
<1>6. CASE TickRead \/ TickSend \/ TickBuffer \/ TickFlush \/ UNCHANGED vars
  <2>1. UNCHANGED <<topic, trader, trades, lost>>
    BY <1>6 DEF TickRead, TickSend, TickBuffer, TickFlush, vars
  <2> QED
    BY <1>1, <2>1 DEF TradeInv
<1>7. CASE Restart
  <2>1. trader' = ResumeTrade /\ UNCHANGED <<topic, trades, lost>>
    BY <1>7 DEF Restart
  <2> QED
    BY <1>1, <2>1, StartedInOrder DEF TradeInv, ResumeTrade, Ordered
<1> QED
  BY <1>2, <1>3, <1>4, <1>5, <1>6, <1>7 DEF Next

\* TradeMaker (worker/trade_maker.go) with KafkaLogReader: whatever logs repeat in the
\* topic, however the channel and the batches fall, and wherever the process dies and
\* starts again, no match has two rows in g_trade and the rows are in the order of the
\* log, as long as no answer of the database is lost behind a commit.
THEOREM StoredOnce == Spec => []TradesOnce
<1>1. Init => TradeInv
  <2> SUFFICES ASSUME Init PROVE TradeInv
    OBVIOUS
  <2>1. topic \in Seq(Log) /\ trades = <<>> /\ lost = 0 /\ trader = StartReader(0, 0)
    BY MarketAssumption DEF Init
  <2>2. <<>> \in Seq(Trade) /\ Rising(<<>>)
    BY DEF Rising
  <2> QED
    BY <2>1, <2>2, StartedInOrder DEF TradeInv
<1>2. TradeInv /\ [Next]_vars => TradeInv'
  BY TradeStep
<1>3. TradeInv => TradesOnce
  BY DEF TradeInv, Ordered, Rising, TradesOnce, TradesUnique
<1> QED
  BY <1>1, <1>2, <1>3, PTL DEF Spec

-----------------------------------------------------------------------------
(* TickMaker: the inductive invariant. *)

\* What the engine writes: its logs are numbered from 1 (order_book.go:253 with the counter
\* at 0), and the clock it stamps a match with when it is first written does not go back.
FromOne(t) == t # <<>> => t[1].seq = 1

FirstMatch(t, n) ==
  n \in DOMAIN t /\ t[n].match /\ \A k \in 1 .. n - 1 : t[k].seq # t[n].seq

ClockRises(t) ==
  \A m, n \in DOMAIN t : FirstMatch(t, m) /\ FirstMatch(t, n) /\ m < n => t[m].time <= t[n].time

\* The matches up to position p, and those of them in the candle of t.
Seen(p) == {n \in Matches : n <= p}

Within(t, S) == {n \in S : Bucket(topic[n].time, t.granularity) = t.time}

\* The row t says of the matches in the set what a candle says.
Tells(t, in) ==
  /\ \E n \in in : t.open = topic[n].price /\ \A k \in in : n <= k
  /\ \E n \in in : t.close = topic[n].price /\ \A k \in in : k <= n
  /\ \E n \in in : t.low = topic[n].price /\ \A k \in in : t.low <= topic[k].price
  /\ \E n \in in : t.high = topic[n].price /\ \A k \in in : topic[k].price <= t.high
  /\ t.volume = Volume(in)

\* The reader has passed on every number up to lastSeq.
ReadOn(r) ==
  /\ r.pos <= Len(topic)
  /\ \A n \in 1 .. r.pos : topic[n].seq <= r.lastSeq
  /\ \A q \in 1 .. r.lastSeq : \E n \in 1 .. r.pos : topic[n].seq = q

\* The candle TickMaker works on is that of the last match.
Working(c, p) ==
  \A g \in Range(Granularities) :
    \/ c[g] = NoTick /\ Seen(p) = {}
    \/ /\ c[g] \in Tick /\ c[g].granularity = g /\ Tells(c[g], Within(c[g], Seen(p)))
       /\ \E n \in Seen(p) : c[g].time = Bucket(topic[n].time, g) /\ \A k \in Seen(p) : k <= n

\* The table has the candles of the matches up to position p, and no more.
Complete(table, p) ==
  /\ \A t \in table :
       /\ t \in Tick /\ Tells(t, Within(t, Seen(p)))
       /\ \E n \in Seen(p) : t.time = Bucket(topic[n].time, t.granularity)
  /\ \A g \in Range(Granularities), n \in Seen(p) :
       \E t \in table : t.granularity = g /\ t.time = Bucket(topic[n].time, g)

\* What is on its way to g_tick.
Waiting(r) == r.buf \o r.ch \o r.todo

\* While TickMaker is not restarted, g_tick will be complete as soon as everything that
\* waits is stored.
TickInv ==
  /\ topic \in Topics /\ crashes \in Nat
  /\ crashes = 0 =>
       /\ ticker \in Reader(Tick)
       /\ ReadOn(ticker)
       /\ Working(ticks, ticker.pos)
       /\ Complete(Replaced(rows, Waiting(ticker)), ticker.pos)

-----------------------------------------------------------------------------
(* What the matches of a set add up to. *)

\* Induction up to n.
LEMMA Upwards ==
  ASSUME NEW n \in Nat, NEW T, 0 \in T, \A k \in 0 .. n : k \in T /\ k < n => k + 1 \in T
  PROVE  \A k \in 0 .. n : k \in T
<1> DEFINE R == OpToRel(<, Nat)
           U == {k \in 0 .. n : k \notin T}
<1> SUFFICES ASSUME U # {} PROVE FALSE
  OBVIOUS
<1>1. IsWellFoundedOn(R, Nat)
  BY NatLessThanWellFounded
<1>2. U \subseteq Nat
  OBVIOUS
<1>3. \A x, y \in Nat : x < y => <<x, y>> \in R
  BY DEF OpToRel
<1> HIDE DEF R
<1>4. PICK x \in U : \A y \in U : ~(<<y, x>> \in R)
  <2> HIDE DEF U
  <2> QED
    BY <1>1, <1>2, WFMin
<1>5. x # 0 /\ x - 1 \in 0 .. n /\ x - 1 < n /\ x - 1 < x
  BY <1>4
<1>6. x - 1 \in T
  BY <1>2, <1>3, <1>4, <1>5
<1> QED
  BY <1>4, <1>5, <1>6

\* f is the recursive function of Volume.
AddsUp(f, in) ==
  /\ f \in [0 .. Len(topic) -> Nat] /\ f[0] = 0
  /\ \A n \in 1 .. Len(topic) : f[n] = f[n - 1] + (IF n \in in THEN topic[n].size ELSE 0)

LEMMA SizeType ==
  ASSUME topic \in Seq(Log), NEW n \in 1 .. Len(topic)
  PROVE  /\ topic[n] \in Log /\ topic[n].size \in Nat /\ topic[n].price \in Nat
         /\ topic[n].time \in Nat /\ topic[n].seq \in Nat \ {0} /\ topic[n].match \in BOOLEAN
<1>1. topic[n] \in Log
  OBVIOUS
<1> QED
  BY <1>1 DEF Log

LEMMA AddingExists ==
  ASSUME topic \in Seq(Log), NEW in
  PROVE  \E f : AddsUp(f, in)
<1>1. PICK L \in Nat : L = Len(topic)
  OBVIOUS
<1>2. PICK s \in [1 .. L -> Nat] : \A n \in 1 .. L : s[n] = IF n \in in THEN topic[n].size ELSE 0
  <2>1. PICK s : s = [n \in 1 .. L |-> IF n \in in THEN topic[n].size ELSE 0]
    OBVIOUS
  <2>2. \A n \in 1 .. L : topic[n].size \in Nat
    BY <1>1, SizeType
  <2> QED
    BY <2>1, <2>2
<1> DEFINE Ok(k) == \E f \in [0 .. k -> Nat] : f[0] = 0 /\ \A n \in 1 .. k : f[n] = f[n - 1] + s[n]
           T == {k \in 0 .. L : Ok(k)}
<1>3. 0 \in T
  <2>1. PICK f : f = [k \in 0 .. 0 |-> 0]
    OBVIOUS
  <2>2. f \in [0 .. 0 -> Nat] /\ f[0] = 0 /\ \A n \in 1 .. 0 : f[n] = f[n - 1] + s[n]
    BY <2>1
  <2>3. Ok(0)
    BY <2>2
  <2> QED
    BY <2>3
<1>4. ASSUME NEW k \in 0 .. L, k \in T, k < L PROVE k + 1 \in T
  <2>1. PICK f \in [0 .. k -> Nat] : f[0] = 0 /\ \A n \in 1 .. k : f[n] = f[n - 1] + s[n]
    BY <1>4
  <2>2. PICK h : h = [n \in 0 .. (k + 1) |-> IF n <= k THEN f[n] ELSE f[k] + s[k + 1]]
    OBVIOUS
  <2>3. f[k] \in Nat /\ s[k + 1] \in Nat
    <3>1. k \in 0 .. k /\ k + 1 \in 1 .. L
      BY <1>4
    <3> QED
      BY <2>1, <3>1
  <2>4. h \in [0 .. (k + 1) -> Nat] /\ h[0] = 0
    BY <2>1, <2>2, <2>3
  <2>5. ASSUME NEW n \in 1 .. (k + 1) PROVE h[n] = h[n - 1] + s[n]
    <3>1. CASE n <= k
      BY <2>1, <2>2, <3>1
    <3>2. CASE n = k + 1
      BY <2>2, <3>2
    <3> QED
      BY <3>1, <3>2
  <2>6. Ok(k + 1)
    BY <2>4, <2>5
  <2>7. k + 1 \in 0 .. L
    BY <1>4
  <2> HIDE DEF Ok
  <2> QED
    BY <2>6, <2>7
<1>5. \A k \in 0 .. L : k \in T
  <2> HIDE DEF T
  <2> QED
    BY <1>3, <1>4, Upwards
<1>6. PICK f \in [0 .. L -> Nat] : f[0] = 0 /\ \A n \in 1 .. L : f[n] = f[n - 1] + s[n]
  <2>1. L \in T
    <3> HIDE DEF T
    <3> QED
      BY <1>5
  <2> QED
    BY <2>1
<1>7. AddsUp(f, in)
  BY <1>1, <1>2, <1>6 DEF AddsUp
<1> QED
  BY <1>7

LEMMA VolumeIs ==
  ASSUME topic \in Seq(Log), NEW in
  PROVE  \E f : AddsUp(f, in) /\ Volume(in) = f[Len(topic)]
<1> DEFINE E(v) == [n \in 0 .. Len(topic) |->
                      IF n = 0 THEN 0 ELSE v[n - 1] + (IF n \in in THEN topic[n].size ELSE 0)]
<1>1. PICK h : AddsUp(h, in)
  BY AddingExists
<1>2. h = E(h)
  <2>1. h = [n \in 0 .. Len(topic) |-> h[n]]
    BY <1>1 DEF AddsUp
  <2>2. \A n \in 0 .. Len(topic) :
          h[n] = IF n = 0 THEN 0 ELSE h[n - 1] + (IF n \in in THEN topic[n].size ELSE 0)
    BY <1>1 DEF AddsUp
  <2> QED
    BY <2>1, <2>2
<1>3. PICK g : g = CHOOSE v : v = E(v)
  OBVIOUS
<1>4. g = E(g)
  BY <1>2, <1>3
<1>5. Volume(in) = g[Len(topic)]
  BY <1>3 DEF Volume
<1>6. PICK L \in Nat : L = Len(topic)
  OBVIOUS
<1>7. DOMAIN g = 0 .. L /\ g = [n \in 0 .. L |-> g[n]]
  BY <1>4, <1>6
<1>8. g[0] = 0 /\ \A n \in 1 .. L : g[n] = g[n - 1] + (IF n \in in THEN topic[n].size ELSE 0)
  <2>1. \A n \in 0 .. L : E(g)[n] = IF n = 0 THEN 0 ELSE g[n - 1] + (IF n \in in THEN topic[n].size ELSE 0)
    BY <1>6
  <2> HIDE DEF E
  <2> QED
    BY <1>4, <2>1
<1>9. \A k \in 0 .. L : g[k] \in Nat
  <2> DEFINE T == {k \in 0 .. L : g[k] \in Nat}
  <2>1. 0 \in T
    BY <1>6, <1>8
  <2>2. ASSUME NEW k \in 0 .. L, k \in T, k < L PROVE k + 1 \in T
    <3>1. k + 1 \in 1 .. L /\ (k + 1) - 1 = k
      BY <2>2
    <3>2. topic[k + 1].size \in Nat
      BY <1>6, <3>1, SizeType
    <3>3. g[k + 1] = g[k] + (IF k + 1 \in in THEN topic[k + 1].size ELSE 0)
      BY <1>8, <3>1
    <3> QED
      BY <2>2, <3>1, <3>2, <3>3
  <2>3. \A k \in 0 .. L : k \in T
    <3> HIDE DEF T
    <3> QED
      BY <2>1, <2>2, Upwards
  <2> QED
    BY <2>3
<1>10. g \in [0 .. L -> Nat]
  BY <1>7, <1>9
<1> HIDE DEF E
<1> QED
  BY <1>5, <1>6, <1>8, <1>10 DEF AddsUp

LEMMA VolumeOfNone ==
  ASSUME topic \in Seq(Log)
  PROVE  Volume({}) = 0
<1>1. PICK f : AddsUp(f, {}) /\ Volume({}) = f[Len(topic)]
  BY VolumeIs
<1>2. PICK L \in Nat : L = Len(topic)
  OBVIOUS
<1>3. f[0] = 0 /\ \A n \in 1 .. L : f[n] = f[n - 1] + 0
  BY <1>1, <1>2 DEF AddsUp
<1> DEFINE T == {k \in 0 .. L : f[k] = 0}
<1>4. 0 \in T
  BY <1>3
<1>5. ASSUME NEW k \in 0 .. L, k \in T, k < L PROVE k + 1 \in T
  <2>1. k + 1 \in 1 .. L /\ (k + 1) - 1 = k
    BY <1>5
  <2> QED
    BY <1>3, <1>5, <2>1
<1>6. \A k \in 0 .. L : k \in T
  <2> HIDE DEF T
  <2> QED
    BY <1>4, <1>5, Upwards
<1> QED
  BY <1>1, <1>2, <1>6

\* One match more.
LEMMA VolumeWith ==
  ASSUME topic \in Seq(Log), NEW in, NEW m \in 1 .. Len(topic), m \notin in
  PROVE  Volume(in \cup {m}) = Volume(in) + topic[m].size
<1>1. PICK f : AddsUp(f, in) /\ Volume(in) = f[Len(topic)]
  BY VolumeIs
<1>2. PICK h : AddsUp(h, in \cup {m}) /\ Volume(in \cup {m}) = h[Len(topic)]
  BY VolumeIs
<1>3. PICK L \in Nat : L = Len(topic)
  OBVIOUS
<1>4. /\ f \in [0 .. L -> Nat] /\ h \in [0 .. L -> Nat] /\ f[0] = 0 /\ h[0] = 0
      /\ \A n \in 1 .. L : f[n] = f[n - 1] + (IF n \in in THEN topic[n].size ELSE 0)
      /\ \A n \in 1 .. L : h[n] = h[n - 1] + (IF n \in in \cup {m} THEN topic[n].size ELSE 0)
  BY <1>1, <1>2, <1>3 DEF AddsUp
<1>5. PICK d \in Nat : d = topic[m].size
  BY SizeType
<1> DEFINE T == {k \in 0 .. L : h[k] = f[k] + (IF k < m THEN 0 ELSE d)}
<1>6. 0 \in T
  BY <1>3, <1>4
<1>7. ASSUME NEW k \in 0 .. L, k \in T, k < L PROVE k + 1 \in T
  <2>1. k + 1 \in 1 .. L /\ (k + 1) - 1 = k
    BY <1>7
  <2>2. f[k] \in Nat /\ h[k] \in Nat /\ topic[k + 1].size \in Nat
    BY <1>3, <1>4, <2>1, SizeType
  <2>3. /\ f[k + 1] = f[k] + (IF k + 1 \in in THEN topic[k + 1].size ELSE 0)
        /\ h[k + 1] = h[k] + (IF k + 1 \in in \cup {m} THEN topic[k + 1].size ELSE 0)
    BY <1>4, <2>1
  <2>4. CASE k + 1 = m
    BY <1>5, <1>7, <2>1, <2>2, <2>3, <2>4
  <2>5. CASE k + 1 # m
    <3>1. (k + 1 \in in \cup {m}) <=> (k + 1 \in in)
      BY <2>5
    <3>2. k + 1 < m <=> k < m
      BY <2>5, <1>3
    <3> QED
      BY <1>5, <1>7, <2>1, <2>2, <2>3, <3>1, <3>2
  <2> QED
    BY <2>4, <2>5
<1>8. \A k \in 0 .. L : k \in T
  <2> HIDE DEF T
  <2> QED
    BY <1>6, <1>7, Upwards
<1>9. h[L] = f[L] + d
  BY <1>3, <1>8
<1> QED
  BY <1>1, <1>2, <1>3, <1>5, <1>9

-----------------------------------------------------------------------------
(* Rows on their way, and the table they are stored in. *)

LEMMA JoinRows ==
  ASSUME NEW S, NEW s \in Seq(S), NEW t \in Seq(S)
  PROVE  /\ s \o t \in Seq(S) /\ Len(s \o t) = Len(s) + Len(t)
         /\ \A i \in 1 .. Len(s) : (s \o t)[i] = s[i]
         /\ \A i \in 1 .. Len(t) : (s \o t)[Len(s) + i] = t[i]
  OBVIOUS

LEMMA SameRows ==
  ASSUME NEW S, NEW s \in Seq(S), NEW t \in Seq(S), Len(s) = Len(t),
         \A i \in 1 .. Len(t) : s[i] = t[i]
  PROVE  s = t
  OBVIOUS

LEMMA MoveRow ==
  ASSUME NEW S, NEW s \in Seq(S), NEW t \in Seq(S), t # <<>>
  PROVE  /\ Head(t) \in S /\ Tail(t) \in Seq(S) /\ Append(s, Head(t)) \in Seq(S)
         /\ Append(s, Head(t)) \o Tail(t) = s \o t
<1>1. /\ Head(t) \in S /\ Tail(t) \in Seq(S) /\ Len(Tail(t)) = Len(t) - 1 /\ Head(t) = t[1]
      /\ \A i \in 1 .. Len(t) - 1 : Tail(t)[i] = t[i + 1]
  OBVIOUS
<1>2. PICK a \in Seq(S) : /\ a = Append(s, Head(t)) /\ Len(a) = Len(s) + 1 /\ a[Len(s) + 1] = t[1]
                          /\ \A i \in 1 .. Len(s) : a[i] = s[i]
  <2>1. PICK x \in S : x = Head(t)
    BY <1>1
  <2>2. /\ Append(s, x) \in Seq(S) /\ Len(Append(s, x)) = Len(s) + 1 /\ Append(s, x)[Len(s) + 1] = x
        /\ \A i \in 1 .. Len(s) : Append(s, x)[i] = s[i]
    OBVIOUS
  <2> QED
    BY <1>1, <2>1, <2>2
<1>3. PICK r \in Seq(S) : /\ r = Tail(t) /\ Len(r) = Len(t) - 1
                          /\ \A i \in 1 .. Len(t) - 1 : r[i] = t[i + 1]
  BY <1>1
<1>4. Len(s) \in Nat /\ Len(t) \in Nat \ {0}
  OBVIOUS
<1>5. /\ a \o r \in Seq(S) /\ s \o t \in Seq(S) /\ Len(a \o r) = Len(s \o t)
  BY <1>2, <1>3, <1>4, JoinRows
<1>6. ASSUME NEW i \in 1 .. Len(s \o t) PROVE (a \o r)[i] = (s \o t)[i]
  <2>0. Len(s \o t) = Len(s) + Len(t) /\ i \in Nat
    BY <1>5, JoinRows
  <2>1. CASE i <= Len(s)
    <3>1. i \in 1 .. Len(s) /\ i \in 1 .. Len(a)
      BY <1>2, <1>4, <2>1
    <3> QED
      BY <1>2, <3>1, JoinRows
  <2>2. CASE i = Len(s) + 1
    <3>1. i \in 1 .. Len(a) /\ 1 \in 1 .. Len(t)
      BY <1>2, <1>4, <2>2
    <3>2. (a \o r)[i] = a[i] /\ (s \o t)[i] = t[1]
      BY <2>2, <3>1, JoinRows
    <3> QED
      BY <1>2, <2>2, <3>2
  <2>3. CASE i > Len(s) + 1
    <3>1. PICK j \in 1 .. Len(r) : i = Len(a) + j
      <4>1. i - Len(a) \in 1 .. Len(r) /\ i = Len(a) + (i - Len(a))
        BY <1>2, <1>3, <1>4, <2>0, <2>3
      <4> QED
        BY <4>1
    <3>2. j \in 1 .. Len(t) - 1 /\ j + 1 \in 1 .. Len(t) /\ i = Len(s) + (j + 1)
      BY <1>2, <1>3, <1>4, <3>1
    <3>3. (a \o r)[i] = r[j] /\ (s \o t)[i] = t[j + 1]
      BY <3>1, <3>2, JoinRows
    <3> QED
      BY <1>3, <3>2, <3>3
  <2>4. i <= Len(s) \/ i = Len(s) + 1 \/ i > Len(s) + 1
    BY <1>4, <2>0
  <2> QED
    BY <2>1, <2>2, <2>3, <2>4
<1>7. a \o r = s \o t
  BY <1>5, <1>6, SameRows
<1> QED
  BY <1>1, <1>2, <1>3, <1>7

LEMMA JoinThree ==
  ASSUME NEW S, NEW s \in Seq(S), NEW t \in Seq(S), NEW u \in Seq(S)
  PROVE  (s \o t) \o u = s \o (t \o u)
  OBVIOUS

LEMMA TickReader ==
  ASSUME NEW r \in Reader(Tick)
  PROVE  /\ r.pos \in Nat /\ r.lastSeq \in Nat
         /\ r.todo \in Seq(Tick) /\ r.ch \in Seq(Tick) /\ r.buf \in Seq(Tick)
         /\ Waiting(r) \in Seq(Tick)
<1>1. /\ r.pos \in Nat /\ r.lastSeq \in Nat
      /\ r.todo \in Seq(Tick) /\ r.ch \in Seq(Tick) /\ r.buf \in Seq(Tick)
  BY DEF Reader
<1>2. r.buf \o r.ch \in Seq(Tick)
  BY <1>1, JoinRows
<1>3. (r.buf \o r.ch) \o r.todo \in Seq(Tick)
  BY <1>1, <1>2, JoinRows
<1> QED
  BY <1>1, <1>3 DEF Waiting

\* On the way through the channel and the flusher nothing is lost and nothing is swapped.
LEMMA HandedWaits ==
  ASSUME NEW r \in Reader(Tick), r.todo # <<>>
  PROVE  /\ Handed(r) \in Reader(Tick) /\ Waiting(Handed(r)) = Waiting(r)
         /\ Handed(r).pos = r.pos /\ Handed(r).lastSeq = r.lastSeq
<1>1. /\ r.pos \in Nat /\ r.lastSeq \in Nat
      /\ r.todo \in Seq(Tick) /\ r.ch \in Seq(Tick) /\ r.buf \in Seq(Tick)
  BY TickReader
<1>2. /\ Tail(r.todo) \in Seq(Tick) /\ Append(r.ch, Head(r.todo)) \in Seq(Tick)
      /\ Append(r.ch, Head(r.todo)) \o Tail(r.todo) = r.ch \o r.todo
  BY <1>1, MoveRow
<1>3. /\ Handed(r) \in Reader(Tick) /\ Handed(r).pos = r.pos /\ Handed(r).lastSeq = r.lastSeq
      /\ Handed(r).buf = r.buf /\ Handed(r).ch = Append(r.ch, Head(r.todo))
      /\ Handed(r).todo = Tail(r.todo)
  BY <1>1, <1>2 DEF Handed, Reader
<1>4. Waiting(Handed(r)) = r.buf \o (Append(r.ch, Head(r.todo)) \o Tail(r.todo))
  <2>1. Waiting(Handed(r)) = (r.buf \o Append(r.ch, Head(r.todo))) \o Tail(r.todo)
    BY <1>3 DEF Waiting
  <2>2. PICK b \in Seq(Tick), c \in Seq(Tick), d \in Seq(Tick) :
          b = r.buf /\ c = Append(r.ch, Head(r.todo)) /\ d = Tail(r.todo)
    BY <1>1, <1>2
  <2>3. (b \o c) \o d = b \o (c \o d)
    BY JoinThree
  <2> QED
    BY <2>1, <2>2, <2>3
<1>5. Waiting(r) = r.buf \o (r.ch \o r.todo)
  <2>1. Waiting(r) = (r.buf \o r.ch) \o r.todo
    BY DEF Waiting
  <2>2. PICK b \in Seq(Tick), c \in Seq(Tick), d \in Seq(Tick) :
          b = r.buf /\ c = r.ch /\ d = r.todo
    BY <1>1
  <2>3. (b \o c) \o d = b \o (c \o d)
    BY JoinThree
  <2> QED
    BY <2>1, <2>2, <2>3
<1> QED
  BY <1>2, <1>3, <1>4, <1>5

LEMMA TakenWaits ==
  ASSUME NEW r \in Reader(Tick), r.ch # <<>>
  PROVE  /\ Taken(r) \in Reader(Tick) /\ Waiting(Taken(r)) = Waiting(r)
         /\ Taken(r).pos = r.pos /\ Taken(r).lastSeq = r.lastSeq
<1>1. /\ r.pos \in Nat /\ r.lastSeq \in Nat
      /\ r.todo \in Seq(Tick) /\ r.ch \in Seq(Tick) /\ r.buf \in Seq(Tick)
  BY TickReader
<1>2. /\ Tail(r.ch) \in Seq(Tick) /\ Append(r.buf, Head(r.ch)) \in Seq(Tick)
      /\ Append(r.buf, Head(r.ch)) \o Tail(r.ch) = r.buf \o r.ch
  BY <1>1, MoveRow
<1>3. /\ Taken(r) \in Reader(Tick) /\ Taken(r).pos = r.pos /\ Taken(r).lastSeq = r.lastSeq
      /\ Taken(r).buf = Append(r.buf, Head(r.ch)) /\ Taken(r).ch = Tail(r.ch)
      /\ Taken(r).todo = r.todo
  BY <1>1, <1>2 DEF Taken, Reader
<1>4. Waiting(Taken(r)) = (Append(r.buf, Head(r.ch)) \o Tail(r.ch)) \o r.todo
  BY <1>3 DEF Waiting
<1>5. Waiting(r) = (r.buf \o r.ch) \o r.todo
  BY DEF Waiting
<1> QED
  BY <1>2, <1>3, <1>4, <1>5

LEMMA ReplacedHas ==
  ASSUME NEW T, NEW s, NEW x
  PROVE  x \in Replaced(T, s) <=>
           \/ x \in T /\ \A i \in DOMAIN s : ~ SameKey(x, s[i])
           \/ \E i \in DOMAIN s : x = s[i] /\ \A j \in DOMAIN s : j > i => ~ SameKey(s[i], s[j])
  BY DEF Replaced

LEMMA ReplacedByNone ==
  ASSUME NEW T
  PROVE  Replaced(T, <<>>) = T
  BY DEF Replaced

\* Two batches are as good as one.
LEMMA ReplacedTwice ==
  ASSUME NEW T, NEW S, NEW s \in Seq(S), NEW u \in Seq(S)
  PROVE  Replaced(Replaced(T, s), u) = Replaced(T, s \o u)
<1>1. PICK w \in Seq(S) : w = s \o u
  BY JoinRows
<1>2. PICK m \in Nat, n \in Nat : m = Len(s) /\ n = Len(u)
  OBVIOUS
<1>3. /\ DOMAIN s = 1 .. m /\ DOMAIN u = 1 .. n /\ DOMAIN w = 1 .. (m + n)
      /\ \A i \in 1 .. m : w[i] = s[i]
      /\ \A i \in 1 .. n : w[m + i] = u[i]
  BY <1>1, <1>2, JoinRows
<1>4. ASSUME NEW k \in 1 .. (m + n), k > m PROVE \E i \in 1 .. n : k = m + i
  <2>1. k - m \in 1 .. n /\ k = m + (k - m)
    BY <1>2, <1>4
  <2> QED
    BY <2>1
<1>5. ASSUME NEW x
      PROVE  (\A k \in DOMAIN w : ~ SameKey(x, w[k])) <=>
               (\A i \in DOMAIN s : ~ SameKey(x, s[i])) /\ (\A i \in DOMAIN u : ~ SameKey(x, u[i]))
  <2>1. ASSUME \A k \in DOMAIN w : ~ SameKey(x, w[k])
        PROVE  (\A i \in DOMAIN s : ~ SameKey(x, s[i])) /\ (\A i \in DOMAIN u : ~ SameKey(x, u[i]))
    <3>1. \A i \in 1 .. m : i \in DOMAIN w
      BY <1>2, <1>3
    <3>2. \A i \in 1 .. n : m + i \in DOMAIN w
      BY <1>2, <1>3
    <3> QED
      BY <1>3, <2>1, <3>1, <3>2
  <2>2. ASSUME \A i \in DOMAIN s : ~ SameKey(x, s[i]), \A i \in DOMAIN u : ~ SameKey(x, u[i]),
               NEW k \in DOMAIN w
        PROVE  ~ SameKey(x, w[k])
    <3>1. CASE k <= m
      <4>1. k \in 1 .. m
        BY <1>2, <1>3, <3>1
      <4> QED
        BY <1>3, <2>2, <4>1
    <3>2. CASE k > m
      <4>1. PICK i \in 1 .. n : k = m + i
        BY <1>3, <1>4, <3>2
      <4>2. w[k] = u[i] /\ i \in DOMAIN u
        BY <1>3, <4>1
      <4> QED
        BY <2>2, <4>2
    <3> QED
      BY <1>2, <1>3, <3>1, <3>2
  <2> QED
    BY <2>1, <2>2
<1> DEFINE KeptS(x) == \E i \in DOMAIN s : x = s[i] /\ \A j \in DOMAIN s : j > i => ~ SameKey(s[i], s[j])
           KeptU(x) == \E i \in DOMAIN u : x = u[i] /\ \A j \in DOMAIN u : j > i => ~ SameKey(u[i], u[j])
           KeptW(x) == \E i \in DOMAIN w : x = w[i] /\ \A j \in DOMAIN w : j > i => ~ SameKey(w[i], w[j])
<1>6. ASSUME NEW x, KeptU(x) PROVE KeptW(x)
  <2>1. PICK i \in 1 .. n : x = u[i] /\ \A j \in 1 .. n : j > i => ~ SameKey(u[i], u[j])
    BY <1>3, <1>6
  <2>2. m + i \in DOMAIN w /\ w[m + i] = u[i]
    BY <1>2, <1>3
  <2>3. ASSUME NEW k \in DOMAIN w, k > m + i PROVE ~ SameKey(w[m + i], w[k])
    <3>1. PICK j \in 1 .. n : k = m + j
      <4>1. k \in 1 .. (m + n) /\ k > m
        BY <1>2, <1>3, <2>3
      <4> QED
        BY <1>4, <4>1
    <3>2. j > i /\ w[k] = u[j]
      BY <1>2, <1>3, <2>3, <3>1
    <3> QED
      BY <2>1, <2>2, <3>2
  <2> QED
    BY <2>1, <2>2, <2>3
<1>7. ASSUME NEW x, KeptS(x), \A i \in DOMAIN u : ~ SameKey(x, u[i]) PROVE KeptW(x)
  <2>1. PICK i \in 1 .. m : x = s[i] /\ \A j \in 1 .. m : j > i => ~ SameKey(s[i], s[j])
    BY <1>3, <1>7
  <2>2. i \in DOMAIN w /\ w[i] = s[i]
    BY <1>2, <1>3
  <2>3. ASSUME NEW k \in DOMAIN w, k > i PROVE ~ SameKey(w[i], w[k])
    <3>1. CASE k <= m
      <4>1. k \in 1 .. m /\ w[k] = s[k]
        BY <1>2, <1>3, <3>1
      <4> QED
        BY <2>1, <2>2, <2>3, <4>1
    <3>2. CASE k > m
      <4>1. PICK j \in 1 .. n : k = m + j
        BY <1>3, <1>4, <3>2
      <4> QED
        BY <1>3, <1>7, <2>1, <2>2, <4>1
    <3> QED
      BY <1>2, <1>3, <3>1, <3>2
  <2> QED
    BY <2>1, <2>2, <2>3
<1>8. ASSUME NEW x, KeptW(x)
      PROVE  KeptU(x) \/ (KeptS(x) /\ \A i \in DOMAIN u : ~ SameKey(x, u[i]))
  <2>1. PICK k \in DOMAIN w : x = w[k] /\ \A j \in DOMAIN w : j > k => ~ SameKey(w[k], w[j])
    BY <1>8
  <2>2. CASE k <= m
    <3>1. k \in DOMAIN s /\ x = s[k]
      BY <1>2, <1>3, <2>1, <2>2
    <3>2. ASSUME NEW j \in DOMAIN s, j > k PROVE ~ SameKey(s[k], s[j])
      <4>1. j \in DOMAIN w /\ w[j] = s[j]
        BY <1>2, <1>3
      <4> QED
        BY <2>1, <3>1, <3>2, <4>1
    <3>3. ASSUME NEW i \in DOMAIN u PROVE ~ SameKey(x, u[i])
      <4>1. i \in 1 .. n /\ k \in 1 .. (m + n)
        BY <1>3
      <4>2. m + i \in 1 .. (m + n) /\ m + i > k
        BY <1>2, <2>2, <4>1
      <4>3. w[m + i] = u[i]
        BY <1>3, <4>1
      <4> QED
        BY <1>3, <2>1, <4>2, <4>3
    <3> QED
      BY <3>1, <3>2, <3>3
  <2>3. CASE k > m
    <3>1. PICK i \in 1 .. n : k = m + i
      BY <1>3, <1>4, <2>3
    <3>2. i \in DOMAIN u /\ x = u[i]
      BY <1>3, <2>1, <3>1
    <3>3. ASSUME NEW j \in DOMAIN u, j > i PROVE ~ SameKey(u[i], u[j])
      <4>1. j \in 1 .. n
        BY <1>3
      <4>2. m + j \in 1 .. (m + n) /\ m + j > k
        BY <1>2, <3>1, <3>3, <4>1
      <4>3. w[m + j] = u[j]
        BY <1>3, <4>1
      <4> QED
        BY <1>3, <2>1, <3>2, <4>2, <4>3
    <3>4. KeptU(x)
      BY <3>2, <3>3
    <3> QED
      BY <3>4
  <2> QED
    BY <1>2, <1>3, <2>2, <2>3
<1>9. ASSUME NEW x PROVE x \in Replaced(Replaced(T, s), u) <=> x \in Replaced(T, w)
  <2>1. x \in Replaced(T, s) <=> (x \in T /\ \A i \in DOMAIN s : ~ SameKey(x, s[i])) \/ KeptS(x)
    BY ReplacedHas
  <2>2. x \in Replaced(Replaced(T, s), u) <=>
          (x \in Replaced(T, s) /\ \A i \in DOMAIN u : ~ SameKey(x, u[i])) \/ KeptU(x)
    BY ReplacedHas
  <2>3. x \in Replaced(T, w) <=> (x \in T /\ \A i \in DOMAIN w : ~ SameKey(x, w[i])) \/ KeptW(x)
    BY ReplacedHas
  <2> HIDE DEF KeptS, KeptU, KeptW
  <2> QED
    BY <1>5, <1>6, <1>7, <1>8, <2>1, <2>2, <2>3
<1> QED
  BY <1>1, <1>9

\* Some row with each key of a batch is stored.
LEMMA ReplacedKeeps ==
  ASSUME NEW T, NEW s \in Seq(Tick), NEW k \in DOMAIN s
  PROVE  \E x \in Replaced(T, s) : SameKey(x, s[k])
<1>1. PICK L \in Nat : L = Len(s) /\ DOMAIN s = 1 .. L
  OBVIOUS
<1> DEFINE Ok(n) == \E j \in 1 .. L : /\ SameKey(s[j], s[k])
                                      /\ \A i \in 1 .. n : i > j => ~ SameKey(s[j], s[i])
           Q == {n \in 0 .. L : Ok(n)}
<1>2. 0 \in Q
  BY <1>1 DEF SameKey
<1>3. ASSUME NEW n \in 0 .. L, n \in Q, n < L PROVE n + 1 \in Q
  <2>1. PICK j \in 1 .. L : /\ SameKey(s[j], s[k])
                            /\ \A i \in 1 .. n : i > j => ~ SameKey(s[j], s[i])
    BY <1>3
  <2>2. n + 1 \in 1 .. L /\ n + 1 \in 0 .. L
    BY <1>3
  <2>3. CASE SameKey(s[j], s[n + 1])
    <3>1. SameKey(s[n + 1], s[k])
      BY <2>1, <2>3 DEF SameKey
    <3>2. \A i \in 1 .. n + 1 : ~ (i > n + 1)
      BY <1>3
    <3>3. Ok(n + 1)
      BY <2>2, <3>1, <3>2
    <3> QED
      BY <2>2, <3>3
  <2>4. CASE ~ SameKey(s[j], s[n + 1])
    <3>1. \A i \in 1 .. n + 1 : i \in 1 .. n \/ i = n + 1
      BY <1>3
    <3>2. Ok(n + 1)
      BY <2>1, <2>4, <3>1
    <3> QED
      BY <2>2, <3>2
  <2> QED
    BY <2>3, <2>4
<1>4. L \in Q
  <2>1. \A n \in 0 .. L : n \in Q
    <3> HIDE DEF Q
    <3> QED
      BY <1>2, <1>3, Upwards
  <2>2. L \in 0 .. L
    BY <1>1
  <2> HIDE DEF Q
  <2> QED
    BY <2>1, <2>2
<1>5. PICK j \in DOMAIN s : /\ SameKey(s[j], s[k])
                            /\ \A i \in DOMAIN s : i > j => ~ SameKey(s[j], s[i])
  BY <1>1, <1>4
<1>6. s[j] \in Replaced(T, s)
  BY <1>5, ReplacedHas
<1> QED
  BY <1>5, <1>6

-----------------------------------------------------------------------------
(* Reading a log. *)

LEMMA MatchesAre ==
  ASSUME topic \in Seq(Log), NEW n \in Matches
  PROVE  /\ n \in 1 .. Len(topic) /\ n \in DOMAIN topic /\ n \in Nat /\ topic[n].match
         /\ \A k \in 1 .. n - 1 : topic[k].seq # topic[n].seq
<1>1. DOMAIN topic = 1 .. Len(topic)
  OBVIOUS
<1> QED
  BY <1>1 DEF Matches

\* A log that is discarded has its number from an earlier one.
LEMMA SkippedLog ==
  ASSUME topic \in Seq(Log), NEW r \in Reader(Tick), ReadOn(r), CanRead(r), Discarded(r)
  PROVE  LET h == [r EXCEPT !.pos = @ + 1]
         IN /\ h \in Reader(Tick) /\ ReadOn(h)
            /\ Seen(h.pos) = Seen(r.pos) /\ Waiting(h) = Waiting(r)
<1>1. /\ r.pos \in Nat /\ r.lastSeq \in Nat
      /\ r.todo \in Seq(Tick) /\ r.ch \in Seq(Tick) /\ r.buf \in Seq(Tick)
  BY TickReader
<1>2. PICK h : h = [r EXCEPT !.pos = @ + 1]
  OBVIOUS
<1>3. PICK n \in 1 .. Len(topic) : n = r.pos + 1 /\ topic[n].seq <= r.lastSeq
  BY <1>1 DEF CanRead, Discarded, NextLog
<1>4. /\ h \in Reader(Tick) /\ h.pos = n /\ h.lastSeq = r.lastSeq
      /\ h.todo = r.todo /\ h.ch = r.ch /\ h.buf = r.buf
  BY <1>1, <1>2, <1>3 DEF Reader
<1>5. topic[n].seq \in 1 .. r.lastSeq
  BY <1>1, <1>3, SizeType
<1>6. PICK k \in 1 .. r.pos : topic[k].seq = topic[n].seq
  BY <1>5 DEF ReadOn
<1>7. n \notin Matches
  BY <1>1, <1>3, <1>6 DEF Matches
<1>8. Seen(n) = Seen(r.pos)
  <2>1. ASSUME NEW m \in Matches, m <= n PROVE m <= r.pos
    <3>1. m \in Nat /\ m # n
      BY <1>7, MatchesAre
    <3> QED
      BY <1>1, <1>3, <2>1, <3>1
  <2>2. ASSUME NEW m \in Matches, m <= r.pos PROVE m <= n
    <3>1. m \in Nat
      BY MatchesAre
    <3> QED
      BY <1>1, <1>3, <2>2, <3>1
  <2> QED
    BY <2>1, <2>2 DEF Seen
<1>9. ReadOn(h)
  <2>1. \A m \in 1 .. n : m \in 1 .. r.pos \/ m = n
    BY <1>1, <1>3
  <2>2. \A m \in 1 .. r.pos : m \in 1 .. n
    BY <1>1, <1>3
  <2> QED
    BY <1>3, <1>4, <2>1, <2>2 DEF ReadOn
<1>10. Waiting(h) = Waiting(r)
  BY <1>4 DEF Waiting
<1> QED
  BY <1>2, <1>4, <1>8, <1>9, <1>10

\* One that is passed on has the next number, for the first time.
LEMMA PassedLog ==
  ASSUME topic \in Seq(Log), FromOne(topic), NEW r \in Reader(Tick), ReadOn(r), CanRead(r),
         ~ Discarded(r), Gapless(r), NEW out \in Seq(Tick)
  PROVE  LET h == Passed(r, out)
             n == r.pos + 1
         IN /\ h \in Reader(Tick) /\ h.pos = n /\ ReadOn(h) /\ n \in 1 .. Len(topic)
            /\ Seen(n) = Seen(r.pos) \cup (IF topic[n].match THEN {n} ELSE {})
            /\ topic[n].match => n \in Matches
            /\ Waiting(h) = Waiting(r) \o out
<1>1. /\ r.pos \in Nat /\ r.lastSeq \in Nat /\ r.todo = <<>>
      /\ r.ch \in Seq(Tick) /\ r.buf \in Seq(Tick)
  BY TickReader DEF CanRead
<1>2. PICK h : h = Passed(r, out)
  OBVIOUS
<1>3. PICK n \in 1 .. Len(topic) : n = r.pos + 1 /\ NextLog(r) = topic[n]
  <2>1. r.pos + 1 \in 1 .. Len(topic)
    BY <1>1 DEF CanRead
  <2>2. NextLog(r) = topic[r.pos + 1]
    BY DEF NextLog
  <2> QED
    BY <2>1, <2>2
<1>4. topic[n].seq \in Nat \ {0} /\ topic[n].seq > r.lastSeq
  <2>1. topic[n].seq \in Nat \ {0}
    BY SizeType
  <2> QED
    BY <1>1, <1>3, <2>1 DEF Discarded
<1>5. topic[n].seq = r.lastSeq + 1
  <2>1. CASE r.lastSeq = 0
    <3>1. ASSUME r.pos # 0 PROVE FALSE
      <4>1. 1 \in 1 .. r.pos /\ 1 \in 1 .. Len(topic)
        BY <1>1, <1>3, <3>1
      <4>2. topic[1].seq <= 0 /\ topic[1].seq \in Nat \ {0}
        BY <2>1, <4>1, SizeType DEF ReadOn
      <4> QED
        BY <4>2
    <3>2. n = 1
      BY <1>1, <1>3, <3>1
    <3>3. topic # <<>>
      BY <1>3
    <3> QED
      BY <2>1, <3>2, <3>3 DEF FromOne
  <2>2. CASE r.lastSeq # 0
    BY <1>3, <2>2 DEF Gapless
  <2> QED
    BY <2>1, <2>2
<1>6. /\ h \in Reader(Tick) /\ h.pos = n /\ h.lastSeq = topic[n].seq
      /\ h.todo = out /\ h.ch = r.ch /\ h.buf = r.buf
  <2>1. n \in Nat /\ topic[n].seq \in Nat
    BY <1>3, <1>4
  <2>2. h = [r EXCEPT !.pos = n, !.lastSeq = topic[n].seq, !.todo = out]
    BY <1>2, <1>3 DEF Passed
  <2> QED
    BY <1>1, <2>1, <2>2 DEF Reader
<1>7. \A m \in 1 .. n : m \in 1 .. r.pos \/ m = n
  BY <1>1, <1>3
<1>8. \A m \in 1 .. r.pos : m \in 1 .. n /\ m \in 1 .. n - 1 /\ m \in 1 .. Len(topic)
  BY <1>1, <1>3
<1>9. ReadOn(h)
  <2>1. ASSUME NEW m \in 1 .. n PROVE topic[m].seq <= topic[n].seq
    <3>1. CASE m = n
      BY <1>4, <3>1
    <3>2. CASE m \in 1 .. r.pos
      <4>1. topic[m].seq \in Nat /\ topic[m].seq <= r.lastSeq
        BY <1>8, <3>2, SizeType DEF ReadOn
      <4> QED
        BY <1>1, <1>4, <4>1
    <3> QED
      BY <1>7, <3>1, <3>2
  <2>2. ASSUME NEW q \in 1 .. topic[n].seq PROVE \E m \in 1 .. n : topic[m].seq = q
    <3>1. CASE q = topic[n].seq
      <4>1. n \in 1 .. n
        BY <1>3
      <4> QED
        BY <3>1, <4>1
    <3>2. CASE q # topic[n].seq
      <4>1. q \in 1 .. r.lastSeq
        BY <1>1, <1>5, <3>2
      <4>2. PICK m \in 1 .. r.pos : topic[m].seq = q
        BY <4>1 DEF ReadOn
      <4> QED
        BY <1>8, <4>2
    <3> QED
      BY <3>1, <3>2
  <2>3. n <= Len(topic)
    BY <1>3
  <2> QED
    BY <1>6, <2>1, <2>2, <2>3 DEF ReadOn
<1>10. \A k \in 1 .. n - 1 : topic[k].seq # topic[n].seq
  <2> SUFFICES ASSUME NEW k \in 1 .. n - 1 PROVE topic[k].seq # topic[n].seq
    OBVIOUS
  <2>1. k \in 1 .. r.pos
    BY <1>1, <1>3
  <2>2. topic[k].seq <= r.lastSeq /\ topic[k].seq \in Nat
    BY <1>8, <2>1, SizeType DEF ReadOn
  <2> QED
    BY <1>1, <1>4, <2>2
<1>11. topic[n].match <=> n \in Matches
  <2>1. n \in DOMAIN topic
    BY <1>3
  <2> QED
    BY <1>10, <2>1 DEF Matches
<1>12. Seen(n) = Seen(r.pos) \cup (IF topic[n].match THEN {n} ELSE {})
  <2>1. ASSUME NEW m \in Matches PROVE m <= n <=> m <= r.pos \/ m = n
    <3>1. m \in Nat
      BY MatchesAre
    <3> QED
      BY <1>1, <1>3, <3>1
  <2> QED
    BY <1>11, <2>1 DEF Seen
<1>13. Waiting(h) = Waiting(r) \o out
  <2>1. PICK w \in Seq(Tick) : w = r.buf \o r.ch
    BY <1>1, JoinRows
  <2>2. w \o <<>> = w
    BY <2>1
  <2> QED
    BY <1>1, <1>6, <2>1, <2>2 DEF Waiting
<1> QED
  BY <1>2, <1>3, <1>6, <1>9, <1>11, <1>12, <1>13

-----------------------------------------------------------------------------
(* A candle and the next match. *)

\* A later match is not in an earlier candle.
LEMMA BucketRises ==
  ASSUME NEW a \in Nat, NEW b \in Nat, NEW g \in Nat \ {0}, a <= b
  PROVE  Bucket(a, g) \in Nat /\ Bucket(b, g) \in Nat /\ Bucket(a, g) <= Bucket(b, g)
<1>1. (a \div g) \in Nat /\ (b \div g) \in Nat /\ a \div g <= b \div g
  OBVIOUS
<1>2. (a \div g) * g <= (b \div g) * g
  BY <1>1
<1> QED
  BY <1>1, <1>2 DEF Bucket

LEMMA BucketType ==
  ASSUME NEW a \in Nat, NEW g \in Nat \ {0}
  PROVE  Bucket(a, g) \in Nat
  BY BucketRises

LEMMA GranularityType ==
  ASSUME NEW g \in Range(Granularities)
  PROVE  g \in Nat \ {0} /\ \E k \in DOMAIN Granularities : Granularities[k] = g
  BY MarketAssumption DEF Range

LEMMA TickFields ==
  ASSUME NEW t \in Tick
  PROVE  /\ t.granularity \in Range(Granularities) /\ t.time \in Nat /\ t.open \in Nat
         /\ t.low \in Nat /\ t.high \in Nat /\ t.close \in Nat /\ t.volume \in Nat
         /\ t.offset \in Nat /\ t.seq \in Nat
  BY DEF Tick

\* t is the candle of granularity g at time b with the matches in the set.
IsCandle(t, g, b, in) == t \in Tick /\ t.granularity = g /\ t.time = b /\ Tells(t, in)

LEMMA FirstOfCandle ==
  ASSUME topic \in Seq(Log), NEW n \in 1 .. Len(topic), NEW g \in Range(Granularities),
         NEW offset \in Nat, NEW t, t = NewTick(g, topic[n], offset)
  PROVE  IsCandle(t, g, Bucket(topic[n].time, g), {n})
<1>1. t = NewTick(g, topic[n], offset)
  OBVIOUS
<1>2. /\ topic[n].size \in Nat /\ topic[n].price \in Nat /\ topic[n].time \in Nat
      /\ topic[n].seq \in Nat
  BY SizeType
<1>3. Bucket(topic[n].time, g) \in Nat
  BY <1>2, BucketType, GranularityType
<1>4. /\ t \in Tick /\ t.granularity = g /\ t.time = Bucket(topic[n].time, g)
      /\ t.open = topic[n].price /\ t.close = topic[n].price /\ t.low = topic[n].price
      /\ t.high = topic[n].price /\ t.volume = topic[n].size
  BY <1>1, <1>2, <1>3 DEF NewTick, Tick
<1>5. Volume({n}) = topic[n].size
  <2>1. Volume({} \cup {n}) = Volume({}) + topic[n].size
    BY VolumeWith
  <2>2. {} \cup {n} = {n}
    OBVIOUS
  <2> QED
    BY <1>2, <2>1, <2>2, VolumeOfNone
<1>6. Tells(t, {n})
  BY <1>2, <1>4, <1>5 DEF Tells
<1> QED
  BY <1>4, <1>6 DEF IsCandle

LEMMA NextOfCandle ==
  ASSUME topic \in Seq(Log), NEW n \in 1 .. Len(topic), NEW offset \in Nat, NEW t \in Tick,
         NEW in \in SUBSET (1 .. Len(topic)), \A k \in in : k < n, Tells(t, in),
         NEW u, u = Merged(t, topic[n], offset)
  PROVE  IsCandle(u, t.granularity, t.time, in \cup {n})
<1>1. u = Merged(t, topic[n], offset)
  OBVIOUS
<1>2. /\ topic[n].size \in Nat /\ topic[n].price \in Nat /\ topic[n].time \in Nat
      /\ topic[n].seq \in Nat
  BY SizeType
<1>3. /\ t.low \in Nat /\ t.high \in Nat /\ t.volume \in Nat
      /\ Least(t.low, topic[n].price) \in Nat /\ Greatest(t.high, topic[n].price) \in Nat
      /\ t.volume + topic[n].size \in Nat
  BY <1>2, TickFields DEF Least, Greatest
<1>4. /\ u \in Tick /\ u.granularity = t.granularity /\ u.time = t.time /\ u.open = t.open
      /\ u.close = topic[n].price /\ u.low = Least(t.low, topic[n].price)
      /\ u.high = Greatest(t.high, topic[n].price) /\ u.volume = t.volume + topic[n].size
  BY <1>1, <1>2, <1>3 DEF Merged, Tick
<1>5. \A k \in in : k \in Nat /\ k < n /\ topic[k].price \in Nat
  BY SizeType
<1>6. \E m \in in \cup {n} : u.open = topic[m].price /\ \A k \in in \cup {n} : m <= k
  BY <1>4, <1>5 DEF Tells
<1>7. \E m \in in \cup {n} : u.close = topic[m].price /\ \A k \in in \cup {n} : k <= m
  BY <1>4, <1>5
<1>8. \E m \in in \cup {n} : u.low = topic[m].price /\ \A k \in in \cup {n} : u.low <= topic[k].price
  <2>1. PICK m \in in : t.low = topic[m].price /\ \A k \in in : t.low <= topic[k].price
    BY DEF Tells
  <2>2. CASE t.low <= topic[n].price
    <3>1. u.low = t.low
      BY <1>4, <2>2 DEF Least
    <3> QED
      BY <2>1, <2>2, <3>1
  <2>3. CASE ~ (t.low <= topic[n].price)
    <3>1. u.low = topic[n].price
      BY <1>4, <2>3 DEF Least
    <3>2. ASSUME NEW k \in in PROVE u.low <= topic[k].price
      <4>1. PICK x \in Nat, y \in Nat, z \in Nat :
              x = topic[k].price /\ y = t.low /\ z = topic[n].price /\ y <= x
        BY <1>2, <1>3, <1>5, <2>1
      <4>2. z <= x
        BY <2>3, <4>1
      <4> QED
        BY <3>1, <4>1, <4>2
    <3> QED
      BY <1>2, <3>1, <3>2
  <2> QED
    BY <2>2, <2>3
<1>9. \E m \in in \cup {n} : u.high = topic[m].price /\ \A k \in in \cup {n} : topic[k].price <= u.high
  <2>1. PICK m \in in : t.high = topic[m].price /\ \A k \in in : topic[k].price <= t.high
    BY DEF Tells
  <2>2. CASE t.high >= topic[n].price
    <3>1. u.high = t.high
      BY <1>4, <2>2 DEF Greatest
    <3> QED
      BY <1>2, <1>3, <2>1, <2>2, <3>1
  <2>3. CASE ~ (t.high >= topic[n].price)
    <3>1. u.high = topic[n].price
      BY <1>4, <2>3 DEF Greatest
    <3>2. ASSUME NEW k \in in PROVE topic[k].price <= u.high
      <4>1. PICK x \in Nat, y \in Nat, z \in Nat :
              x = topic[k].price /\ y = t.high /\ z = topic[n].price /\ x <= y
        BY <1>2, <1>3, <1>5, <2>1
      <4>2. x <= z
        BY <2>3, <4>1
      <4> QED
        BY <3>1, <4>1, <4>2
    <3> QED
      BY <1>2, <3>1, <3>2
  <2> QED
    BY <2>2, <2>3
<1>10. u.volume = Volume(in \cup {n})
  <2>1. n \notin in
    BY <1>5
  <2>2. Volume(in \cup {n}) = Volume(in) + topic[n].size
    BY <2>1, VolumeWith
  <2> QED
    BY <1>4, <2>2 DEF Tells
<1>11. Tells(u, in \cup {n})
  BY <1>6, <1>7, <1>8, <1>9, <1>10 DEF Tells
<1> QED
  BY <1>4, <1>11 DEF IsCandle

\* What the candle of granularity g becomes with a match is the candle it falls into.
LEMMA AfterTells ==
  ASSUME topic \in Seq(Log), ClockRises(topic), NEW p \in Nat, NEW n \in Matches, n = p + 1,
         Working(ticks, p), NEW g \in Range(Granularities), NEW offset \in Nat,
         NEW a, a = TickAfter(g, topic[n], offset)
  PROVE  IsCandle(a, g, Bucket(topic[n].time, g), Within(a, Seen(p) \cup {n}))
<1>1. a = TickAfter(g, topic[n], offset)
  OBVIOUS
<1>2. n \in 1 .. Len(topic) /\ n \in DOMAIN topic /\ n \in Nat
  BY MatchesAre
<1>3. PICK b \in Nat : b = Bucket(topic[n].time, g)
  BY <1>2, SizeType, BucketType, GranularityType
<1>4. g \in Nat \ {0}
  BY GranularityType
<1>5. ASSUME NEW m \in Seen(p)
      PROVE  m \in 1 .. Len(topic) /\ m \in DOMAIN topic /\ m \in Nat /\ m < n /\ m \in Matches
  BY <1>2, MatchesAre DEF Seen
<1>6. ASSUME NEW m \in Seen(p), NEW k \in Seen(p) \cup {n}, m <= k
      PROVE  /\ Bucket(topic[m].time, g) \in Nat /\ Bucket(topic[k].time, g) \in Nat
             /\ Bucket(topic[m].time, g) <= Bucket(topic[k].time, g)
  <2>1. /\ m \in 1 .. Len(topic) /\ m \in Matches /\ m \in Nat
        /\ k \in 1 .. Len(topic) /\ k \in Matches /\ k \in Nat
    BY <1>2, <1>5
  <2>2. topic[m].time \in Nat /\ topic[k].time \in Nat
    BY <2>1, SizeType
  <2>3. FirstMatch(topic, m) /\ FirstMatch(topic, k)
    BY <2>1, MatchesAre DEF FirstMatch
  <2>4. topic[m].time <= topic[k].time
    <3>1. CASE m = k
      BY <2>2, <3>1
    <3>2. CASE m # k
      <4>1. m < k /\ m \in DOMAIN topic /\ k \in DOMAIN topic
        BY <1>6, <2>1, <3>2, MatchesAre
      <4> QED
        BY <2>3, <4>1 DEF ClockRises
    <3> QED
      BY <3>1, <3>2
  <2> QED
    BY <1>4, <2>2, <2>4, BucketRises
<1>7. ASSUME a = NewTick(g, topic[n], offset), \A m \in Seen(p) : Bucket(topic[m].time, g) # b
      PROVE  IsCandle(a, g, b, Within(a, Seen(p) \cup {n}))
  <2>1. IsCandle(a, g, b, {n})
    BY <1>2, <1>3, <1>7, FirstOfCandle
  <2>2. Within(a, Seen(p) \cup {n}) = {n}
    BY <1>3, <1>7, <2>1 DEF Within, IsCandle
  <2> QED
    BY <2>1, <2>2
<1>8. CASE ticks[g] = NoTick
  <2>1. Seen(p) = {}
    <3>1. NoTick.granularity = 0
      BY DEF NoTick
    <3> QED
      BY <1>4, <1>8, <3>1 DEF Working
  <2>2. a = NewTick(g, topic[n], offset)
    BY <1>1, <1>8 DEF TickAfter
  <2> QED
    BY <1>1, <1>3, <1>7, <2>1, <2>2
<1>9. CASE ticks[g] # NoTick
  <2>1. PICK t \in Tick : t = ticks[g] /\ t.granularity = g /\ Tells(t, Within(t, Seen(p)))
    BY <1>9 DEF Working
  <2>2. PICK last \in Seen(p) : t.time = Bucket(topic[last].time, g) /\ \A k \in Seen(p) : k <= last
    BY <1>9, <2>1 DEF Working
  <2>3. last <= n /\ n \in Seen(p) \cup {n}
    BY <1>2, <1>5
  <2>4. t.time \in Nat /\ t.time <= b
    BY <1>3, <1>6, <2>2, <2>3
  <2>5. CASE t.time # b
    <3>1. ASSUME NEW m \in Seen(p) PROVE Bucket(topic[m].time, g) # b
      <4>1. Bucket(topic[m].time, g) <= t.time /\ Bucket(topic[m].time, g) \in Nat
        BY <1>6, <2>2
      <4> QED
        BY <1>3, <2>4, <2>5, <4>1
    <3>2. a = NewTick(g, topic[n], offset)
      BY <1>1, <1>3, <2>1, <2>5 DEF TickAfter
    <3> QED
      BY <1>1, <1>3, <1>7, <3>1, <3>2
  <2>6. CASE t.time = b
    <3>1. PICK in : in = Within(t, Seen(p))
      OBVIOUS
    <3>2. in \in SUBSET (1 .. Len(topic)) /\ \A k \in in : k < n
      BY <1>5, <3>1 DEF Within
    <3>3. a = Merged(t, topic[n], offset)
      BY <1>1, <1>3, <1>9, <2>1, <2>6 DEF TickAfter
    <3>4. IsCandle(a, t.granularity, t.time, in \cup {n})
      BY <1>2, <2>1, <3>1, <3>2, <3>3, NextOfCandle
    <3>5. Within(a, Seen(p) \cup {n}) = in \cup {n}
      BY <1>3, <2>1, <2>6, <3>1, <3>4 DEF Within, IsCandle
    <3> QED
      BY <1>3, <2>1, <2>6, <3>4, <3>5
  <2> QED
    BY <2>5, <2>6
<1> QED
  BY <1>8, <1>9

\* The rows a match makes.
RowsOf(c) == [k \in DOMAIN Granularities |-> c[Granularities[k]]]

\* The match n, the next one after position p, makes the candles c.
Follows(c, n, p) ==
  \A g \in Range(Granularities) :
    IsCandle(c[g], g, Bucket(topic[n].time, g), Within(c[g], Seen(p) \cup {n}))

LEMMA RowsOfType ==
  ASSUME NEW c, NEW n, NEW p, Follows(c, n, p)
  PROVE  /\ RowsOf(c) \in Seq(Tick) /\ DOMAIN RowsOf(c) = DOMAIN Granularities
         /\ \A k \in DOMAIN Granularities :
              Granularities[k] \in Range(Granularities) /\ RowsOf(c)[k] = c[Granularities[k]]
<1>1. \A k \in DOMAIN Granularities : Granularities[k] \in Range(Granularities)
  BY DEF Range
<1>2. DOMAIN Granularities = 1 .. Len(Granularities) /\ Len(Granularities) \in Nat
  BY MarketAssumption
<1>3. \A k \in DOMAIN Granularities : c[Granularities[k]] \in Tick
  BY <1>1 DEF Follows, IsCandle
<1>4. RowsOf(c) \in [1 .. Len(Granularities) -> Tick]
  BY <1>2, <1>3 DEF RowsOf
<1>5. RowsOf(c) \in Seq(Tick)
  BY <1>2, <1>4
<1> QED
  BY <1>1, <1>5 DEF RowsOf

LEMMA CompleteAfter ==
  ASSUME NEW table, NEW p \in Nat, NEW n \in Matches, n = p + 1,
         Complete(table, p), NEW c, Follows(c, n, p), Seen(n) = Seen(p) \cup {n}
  PROVE  Complete(Replaced(table, RowsOf(c)), n)
<1>1. PICK out \in Seq(Tick) : out = RowsOf(c)
  BY RowsOfType
<1>2. /\ DOMAIN out = DOMAIN Granularities
      /\ \A k \in DOMAIN out : Granularities[k] \in Range(Granularities) /\ out[k] = c[Granularities[k]]
  BY <1>1, RowsOfType
<1>3. \A k \in DOMAIN out :
        /\ out[k] \in Tick /\ out[k].granularity = Granularities[k]
        /\ out[k].time = Bucket(topic[n].time, Granularities[k])
        /\ Tells(out[k], Within(out[k], Seen(n)))
  BY <1>2 DEF Follows, IsCandle
<1>4. n \in Seen(n)
  OBVIOUS
<1>5. \A g \in Range(Granularities) : \E k \in DOMAIN out : Granularities[k] = g
  BY <1>2, GranularityType
<1>6. ASSUME NEW t \in Replaced(table, out)
      PROVE  /\ t \in Tick /\ Tells(t, Within(t, Seen(n)))
             /\ \E m \in Seen(n) : t.time = Bucket(topic[m].time, t.granularity)
  <2>1. CASE t \in table /\ \A i \in DOMAIN out : ~ SameKey(t, out[i])
    <3>1. /\ t \in Tick /\ Tells(t, Within(t, Seen(p)))
          /\ \E m \in Seen(p) : t.time = Bucket(topic[m].time, t.granularity)
      BY <2>1 DEF Complete
    <3>2. PICK k \in DOMAIN out : Granularities[k] = t.granularity
      BY <1>5, <3>1, TickFields
    <3>3. Bucket(topic[n].time, t.granularity) # t.time
      BY <1>3, <2>1, <3>2 DEF SameKey
    <3>4. Within(t, Seen(n)) = Within(t, Seen(p))
      BY <3>3 DEF Within
    <3> QED
      BY <3>1, <3>4
  <2>2. CASE \E i \in DOMAIN out : t = out[i]
    BY <1>3, <1>4, <2>2
  <2> QED
    BY <2>1, <2>2, ReplacedHas
<1>7. ASSUME NEW g \in Range(Granularities), NEW m \in Seen(n)
      PROVE  \E t \in Replaced(table, out) : t.granularity = g /\ t.time = Bucket(topic[m].time, g)
  <2>1. PICK k \in DOMAIN out : Granularities[k] = g
    BY <1>5
  <2>2. CASE Bucket(topic[m].time, g) = Bucket(topic[n].time, g)
    <3>1. PICK t \in Replaced(table, out) : SameKey(t, out[k])
      BY ReplacedKeeps
    <3> QED
      BY <1>3, <2>1, <2>2, <3>1 DEF SameKey
  <2>3. CASE Bucket(topic[m].time, g) # Bucket(topic[n].time, g)
    <3>1. m \in Seen(p)
      BY <2>3
    <3>2. PICK t \in table : t.granularity = g /\ t.time = Bucket(topic[m].time, g)
      BY <3>1 DEF Complete
    <3>3. \A i \in DOMAIN out : ~ SameKey(t, out[i])
      BY <1>3, <2>3, <3>2 DEF SameKey
    <3>4. t \in Replaced(table, out)
      BY <3>3, ReplacedHas
    <3> QED
      BY <3>2, <3>4
  <2> QED
    BY <2>2, <2>3
<1> QED
  BY <1>1, <1>6, <1>7 DEF Complete

-----------------------------------------------------------------------------
(* The steps of TickMaker. *)

\* The topic stays, so what is said of it stays as well.
LEMMA SameTopic ==
  ASSUME topic' = topic
  PROVE  /\ ReadOn(ticker') => ReadOn(ticker)'
         /\ Working(ticks', ticker'.pos) => Working(ticks, ticker.pos)'
         /\ Complete(Replaced(rows', Waiting(ticker')), ticker'.pos)
              => Complete(Replaced(rows, Waiting(ticker)), ticker.pos)'
<1>1. ReadOn(ticker') => ReadOn(ticker)'
  BY DEF ReadOn
<1>2. \A in : Volume(in)' = Volume(in)
  BY DEF Volume
<1>3. \A p : Seen(p)' = Seen(p)
  BY DEF Seen, Matches
<1>4. \A t, S : Within(t, S)' = Within(t, S)
  BY DEF Within
<1>5. \A t, in : Tells(t, in)' <=> Tells(t, in)
  BY <1>2 DEF Tells
<1>6. Working(ticks', ticker'.pos) => Working(ticks, ticker.pos)'
  BY <1>3, <1>4, <1>5 DEF Working
<1>7. Complete(Replaced(rows', Waiting(ticker')), ticker'.pos)
        => Complete(Replaced(rows, Waiting(ticker)), ticker.pos)'
  BY <1>3, <1>4, <1>5 DEF Complete
<1> QED
  BY <1>1, <1>6, <1>7

\* What TickInv says of the worker.
Keeps(r, c, table) ==
  /\ r \in Reader(Tick) /\ ReadOn(r) /\ Working(c, r.pos)
  /\ Complete(Replaced(table, Waiting(r)), r.pos)

LEMMA NoRows == <<>> \in Seq(Tick)
  OBVIOUS

\* A log is read.
LEMMA ReadKeeps ==
  ASSUME topic \in Seq(Log), FromOne(topic), ClockRises(topic), Keeps(ticker, ticks, rows), TickRead
  PROVE  Keeps(ticker', ticks', rows)
<1>1. /\ ticker \in Reader(Tick) /\ ReadOn(ticker) /\ Working(ticks, ticker.pos)
      /\ Complete(Replaced(rows, Waiting(ticker)), ticker.pos) /\ CanRead(ticker)
  BY DEF Keeps, TickRead
<1>2. ticker.pos \in Nat /\ Waiting(ticker) \in Seq(Tick)
  BY <1>1, TickReader
<1>3. CASE Discarded(ticker) /\ ticker' = [ticker EXCEPT !.pos = @ + 1] /\ UNCHANGED ticks
  <2>1. /\ ticker' \in Reader(Tick) /\ ReadOn(ticker')
        /\ Seen(ticker'.pos) = Seen(ticker.pos) /\ Waiting(ticker') = Waiting(ticker)
    BY <1>1, <1>3, SkippedLog
  <2>2. Working(ticks', ticker'.pos)
    BY <1>1, <1>3, <2>1 DEF Working
  <2>3. Complete(Replaced(rows, Waiting(ticker')), ticker'.pos)
    BY <1>1, <2>1 DEF Complete
  <2> QED
    BY <2>1, <2>2, <2>3 DEF Keeps
<1>4. CASE /\ ~ Discarded(ticker) /\ Gapless(ticker) /\ ~ NextLog(ticker).match
           /\ ticker' = Passed(ticker, <<>>) /\ UNCHANGED ticks
  <2>1. PICK n : n = ticker.pos + 1 /\ topic[n] = NextLog(ticker)
    BY DEF NextLog
  <2>2. PICK out \in Seq(Tick) : out = <<>>
    BY NoRows
  <2>3. /\ ticker' \in Reader(Tick) /\ ticker'.pos = n /\ ReadOn(ticker')
        /\ Seen(n) = Seen(ticker.pos) /\ Waiting(ticker') = Waiting(ticker) \o out
    BY <1>1, <1>4, <2>1, <2>2, PassedLog
  <2>4. Waiting(ticker') = Waiting(ticker)
    BY <1>2, <2>2, <2>3
  <2>5. Working(ticks', ticker'.pos)
    BY <1>1, <1>4, <2>3 DEF Working
  <2>6. Complete(Replaced(rows, Waiting(ticker')), ticker'.pos)
    BY <1>1, <2>3, <2>4 DEF Complete
  <2> QED
    BY <2>3, <2>5, <2>6 DEF Keeps
<1>5. ASSUME ~ Discarded(ticker), Gapless(ticker), NextLog(ticker).match,
             NEW after,
             after = [g \in Range(Granularities) |-> TickAfter(g, NextLog(ticker), ticker.pos)],
             ticks' = after,
             ticker' = Passed(ticker, [k \in DOMAIN Granularities |-> after[Granularities[k]]])
      PROVE  Keeps(ticker', ticks', rows)
  <2>1. PICK p \in Nat, n \in Nat : p = ticker.pos /\ n = p + 1 /\ topic[n] = NextLog(ticker)
    BY <1>2 DEF NextLog
  <2>2. /\ n \in Matches /\ Seen(n) = Seen(p) \cup {n}
    BY <1>1, <1>5, <2>1, NoRows, PassedLog
  <2>3. Follows(after, n, p)
    <3> SUFFICES ASSUME NEW g \in Range(Granularities)
                 PROVE  IsCandle(after[g], g, Bucket(topic[n].time, g),
                                 Within(after[g], Seen(p) \cup {n}))
      BY DEF Follows
    <3>1. after[g] = TickAfter(g, topic[n], p)
      BY <1>5, <2>1
    <3>2. PICK a : a = TickAfter(g, topic[n], p)
      OBVIOUS
    <3>3. IsCandle(a, g, Bucket(topic[n].time, g), Within(a, Seen(p) \cup {n}))
      <4>1. Working(ticks, p)
        BY <1>1, <2>1
      <4> QED
        BY <2>1, <2>2, <3>2, <4>1, AfterTells
    <3> QED
      BY <3>1, <3>2, <3>3
  <2>4. PICK out \in Seq(Tick) : out = RowsOf(after)
    BY <2>3, RowsOfType
  <2>5. ticker' = Passed(ticker, out)
    BY <1>5, <2>4 DEF RowsOf
  <2>6. /\ ticker' \in Reader(Tick) /\ ticker'.pos = n /\ ReadOn(ticker')
        /\ Waiting(ticker') = Waiting(ticker) \o out
    BY <1>1, <1>5, <2>1, <2>5, PassedLog
  <2>7. Complete(Replaced(Replaced(rows, Waiting(ticker)), out), n)
    BY <1>1, <2>1, <2>2, <2>3, <2>4, CompleteAfter
  <2>8. Complete(Replaced(rows, Waiting(ticker')), n)
    BY <1>2, <2>6, <2>7, ReplacedTwice
  <2>9. Working(ticks', n)
    <3> SUFFICES ASSUME NEW g \in Range(Granularities)
                 PROVE  /\ after[g] \in Tick /\ after[g].granularity = g
                        /\ Tells(after[g], Within(after[g], Seen(n)))
                        /\ \E m \in Seen(n) : /\ after[g].time = Bucket(topic[m].time, g)
                                              /\ \A k \in Seen(n) : k <= m
      BY <1>5 DEF Working
    <3>1. n \in Seen(n) /\ \A k \in Seen(n) : k <= n
      BY <2>2 DEF Seen
    <3> QED
      BY <2>2, <2>3, <3>1 DEF Follows, IsCandle
  <2> QED
    BY <2>6, <2>8, <2>9 DEF Keeps
<1> QED
  BY <1>3, <1>4, <1>5 DEF TickRead

\* A batch is stored.
LEMMA FlushKeeps ==
  ASSUME Keeps(ticker, ticks, rows), TickFlush
  PROVE  Keeps(ticker', ticks, rows')
<1>1. PICK r : r = Taken(ticker)
  OBVIOUS
<1>2. /\ ticker \in Reader(Tick) /\ ReadOn(ticker) /\ Working(ticks, ticker.pos)
      /\ Complete(Replaced(rows, Waiting(ticker)), ticker.pos)
      /\ ticker.ch # <<>> /\ ticker' = [r EXCEPT !.buf = <<>>] /\ rows' = Replaced(rows, r.buf)
  BY <1>1 DEF Keeps, TickFlush
<1>3. /\ r \in Reader(Tick) /\ Waiting(r) = Waiting(ticker)
      /\ r.pos = ticker.pos /\ r.lastSeq = ticker.lastSeq
  BY <1>1, <1>2, TakenWaits
<1>4. /\ r.pos \in Nat /\ r.lastSeq \in Nat
      /\ r.todo \in Seq(Tick) /\ r.ch \in Seq(Tick) /\ r.buf \in Seq(Tick)
  BY <1>3, TickReader
<1>5. /\ ticker' \in Reader(Tick) /\ ticker'.pos = r.pos /\ ticker'.lastSeq = r.lastSeq
      /\ ticker'.todo = r.todo /\ ticker'.ch = r.ch /\ ticker'.buf = <<>>
  <2>1. <<>> \in Seq(Tick)
    OBVIOUS
  <2> QED
    BY <1>2, <1>3, <1>4, <2>1 DEF Reader
<1>6. PICK w \in Seq(Tick) : w = r.ch \o r.todo
  BY <1>4, JoinRows
<1>7. Waiting(ticker') = w
  <2>1. <<>> \o r.ch = r.ch
    BY <1>4
  <2> QED
    BY <1>5, <1>6, <2>1 DEF Waiting
<1>8. Waiting(r) = r.buf \o w
  <2>1. PICK b \in Seq(Tick), c \in Seq(Tick), d \in Seq(Tick) :
          b = r.buf /\ c = r.ch /\ d = r.todo
    BY <1>4
  <2>2. (b \o c) \o d = b \o (c \o d)
    BY JoinThree
  <2> QED
    BY <1>6, <2>1, <2>2 DEF Waiting
<1>9. Replaced(rows', Waiting(ticker')) = Replaced(rows, Waiting(ticker))
  <2>1. PICK b \in Seq(Tick) : b = r.buf
    BY <1>4
  <2>2. Replaced(Replaced(rows, b), w) = Replaced(rows, b \o w)
    BY ReplacedTwice
  <2> QED
    BY <1>2, <1>3, <1>7, <1>8, <2>1, <2>2
<1>10. ReadOn(ticker')
  BY <1>2, <1>3, <1>5 DEF ReadOn
<1> QED
  BY <1>2, <1>3, <1>5, <1>9, <1>10 DEF Keeps

\* A row moves on.
LEMMA MoveKeeps ==
  ASSUME Keeps(ticker, ticks, rows), NEW r \in Reader(Tick), Waiting(r) = Waiting(ticker),
         r.pos = ticker.pos, r.lastSeq = ticker.lastSeq
  PROVE  Keeps(r, ticks, rows)
BY DEF Keeps, ReadOn

LEMMA TickStep ==
  ASSUME \A t \in Topics : FromOne(t) /\ ClockRises(t), TickInv, [Next]_vars
  PROVE  TickInv'
<1>1. topic \in Topics /\ crashes \in Nat
  BY DEF TickInv
<1>2. topic \in Seq(Log) /\ FromOne(topic) /\ ClockRises(topic)
  BY <1>1, MarketAssumption
<1>3. topic' = topic /\ (crashes' = crashes \/ (crashes' = crashes + 1 /\ Restart))
  <2>1. CASE TradeRead \/ TradeSend \/ TradeBuffer \/ TradeFlush
    BY <2>1 DEF TradeRead, TradeSend, TradeBuffer, TradeFlush
  <2>2. CASE TickRead \/ TickSend \/ TickBuffer \/ TickFlush
    BY <2>2 DEF TickRead, TickSend, TickBuffer, TickFlush
  <2>3. CASE Restart
    BY <2>3 DEF Restart
  <2>4. CASE UNCHANGED vars
    BY <2>4 DEF vars
  <2> QED
    BY <2>1, <2>2, <2>3, <2>4 DEF Next
<1> SUFFICES ASSUME crashes' = 0
             PROVE  /\ ticker' \in Reader(Tick) /\ ReadOn(ticker)'
                    /\ Working(ticks, ticker.pos)'
                    /\ Complete(Replaced(rows, Waiting(ticker)), ticker.pos)'
  BY <1>1, <1>3 DEF TickInv
<1>4. crashes = 0 /\ crashes' # crashes + 1
  BY <1>1, <1>3
<1>5. Keeps(ticker, ticks, rows)
  BY <1>4 DEF TickInv, Keeps
<1>6. CASE TickRead
  <2>1. rows' = rows
    BY <1>6 DEF TickRead
  <2>2. Keeps(ticker', ticks', rows)
    BY <1>2, <1>5, <1>6, ReadKeeps
  <2> QED
    BY <1>3, <2>1, <2>2, SameTopic DEF Keeps
<1>7. CASE TickSend
  <2>1. ticker.todo # <<>> /\ ticker' = Handed(ticker) /\ ticks' = ticks /\ rows' = rows
    BY <1>7 DEF TickSend
  <2>2. /\ ticker' \in Reader(Tick) /\ Waiting(ticker') = Waiting(ticker)
        /\ ticker'.pos = ticker.pos /\ ticker'.lastSeq = ticker.lastSeq
    BY <1>5, <2>1, HandedWaits DEF Keeps
  <2>3. Keeps(ticker', ticks', rows')
    BY <1>5, <2>1, <2>2, MoveKeeps
  <2> QED
    BY <1>3, <2>3, SameTopic DEF Keeps
<1>8. CASE TickBuffer
  <2>1. ticker.ch # <<>> /\ ticker' = Taken(ticker) /\ ticks' = ticks /\ rows' = rows
    BY <1>8 DEF TickBuffer
  <2>2. /\ ticker' \in Reader(Tick) /\ Waiting(ticker') = Waiting(ticker)
        /\ ticker'.pos = ticker.pos /\ ticker'.lastSeq = ticker.lastSeq
    BY <1>5, <2>1, TakenWaits DEF Keeps
  <2>3. Keeps(ticker', ticks', rows')
    BY <1>5, <2>1, <2>2, MoveKeeps
  <2> QED
    BY <1>3, <2>3, SameTopic DEF Keeps
<1>9. CASE TickFlush
  <2>1. ticks' = ticks
    BY <1>9 DEF TickFlush
  <2>2. Keeps(ticker', ticks, rows')
    BY <1>5, <1>9, FlushKeeps
  <2> QED
    BY <1>3, <2>1, <2>2, SameTopic DEF Keeps
<1>10. CASE TradeRead \/ TradeSend \/ TradeBuffer \/ TradeFlush \/ UNCHANGED vars
  <2>1. ticker' = ticker /\ ticks' = ticks /\ rows' = rows
    BY <1>10 DEF TradeRead, TradeSend, TradeBuffer, TradeFlush, vars
  <2>2. Keeps(ticker', ticks', rows')
    BY <1>5, <2>1
  <2> QED
    BY <1>3, <2>2, SameTopic DEF Keeps
<1>11. CASE Restart
  BY <1>4, <1>11 DEF Restart
<1> QED
  BY <1>6, <1>7, <1>8, <1>9, <1>10, <1>11 DEF Next

-----------------------------------------------------------------------------
(* g_tick once everything is stored. *)

\* What a row tells is the candle of its time.
LEMMA TellsIsCandle ==
  ASSUME topic \in Seq(Log), NEW t \in Tick, Tells(t, Within(t, Matches))
  PROVE  Ohlcv(t) = Candle(t.granularity, t.time)
<1>1. PICK in : in = Within(t, Matches)
  OBVIOUS
<1>2. in = {n \in Matches : Bucket(topic[n].time, t.granularity) = t.time}
  BY <1>1 DEF Within
<1>3. \A n \in in : n \in Nat /\ n \in 1 .. Len(topic) /\ topic[n].price \in Nat
  BY <1>2, MatchesAre, SizeType
<1>4. PICK first \in in : t.open = topic[first].price /\ \A k \in in : first <= k
  BY <1>1 DEF Tells
<1>5. PICK last \in in : t.close = topic[last].price /\ \A k \in in : k <= last
  BY <1>1 DEF Tells
<1>6. (CHOOSE n \in in : \A k \in in : n <= k) = first
  <2>1. PICK c : c = CHOOSE n \in in : \A k \in in : n <= k
    OBVIOUS
  <2>2. c \in in /\ \A k \in in : c <= k
    BY <1>4, <2>1
  <2>3. c <= first /\ first <= c /\ c \in Nat /\ first \in Nat
    BY <1>3, <1>4, <2>2
  <2> QED
    BY <2>1, <2>3
<1>7. (CHOOSE n \in in : \A k \in in : k <= n) = last
  <2>1. PICK c : c = CHOOSE n \in in : \A k \in in : k <= n
    OBVIOUS
  <2>2. c \in in /\ \A k \in in : k <= c
    BY <1>5, <2>1
  <2>3. c <= last /\ last <= c /\ c \in Nat /\ last \in Nat
    BY <1>3, <1>5, <2>2
  <2> QED
    BY <2>1, <2>3
<1>8. PICK prices : prices = {topic[n].price : n \in in}
  OBVIOUS
<1>9. /\ t.low \in prices /\ \A q \in prices : t.low <= q
      /\ t.high \in prices /\ \A q \in prices : q <= t.high
      /\ t.volume = Volume(in)
  BY <1>1, <1>8 DEF Tells
<1>10. \A q \in prices : q \in Nat
  BY <1>3, <1>8
<1>11. (CHOOSE x \in prices : \A q \in prices : x <= q) = t.low
  <2>1. PICK c : c = CHOOSE x \in prices : \A q \in prices : x <= q
    OBVIOUS
  <2>2. c \in prices /\ \A q \in prices : c <= q
    BY <1>9, <2>1
  <2>3. c <= t.low /\ t.low <= c /\ c \in Nat /\ t.low \in Nat
    BY <1>9, <1>10, <2>2
  <2> QED
    BY <2>1, <2>3
<1>12. (CHOOSE x \in prices : \A q \in prices : q <= x) = t.high
  <2>1. PICK c : c = CHOOSE x \in prices : \A q \in prices : q <= x
    OBVIOUS
  <2>2. c \in prices /\ \A q \in prices : q <= c
    BY <1>9, <2>1
  <2>3. c <= t.high /\ t.high <= c /\ c \in Nat /\ t.high \in Nat
    BY <1>9, <1>10, <2>2
  <2> QED
    BY <2>1, <2>3
<1>13. Candle(t.granularity, t.time) =
         [granularity |-> t.granularity, time |-> t.time,
          open |-> topic[CHOOSE n \in in : \A k \in in : n <= k].price,
          close |-> topic[CHOOSE n \in in : \A k \in in : k <= n].price,
          low |-> CHOOSE x \in prices : \A q \in prices : x <= q,
          high |-> CHOOSE x \in prices : \A q \in prices : q <= x,
          volume |-> Volume(in)]
  BY <1>2, <1>8 DEF Candle
<1> QED
  BY <1>4, <1>5, <1>6, <1>7, <1>9, <1>11, <1>12, <1>13 DEF Ohlcv

LEMMA CompleteIsExact ==
  ASSUME topic \in Seq(Log), Complete(rows, Len(topic))
  PROVE  {Ohlcv(t) : t \in rows} =
           UNION {{Candle(g, Bucket(topic[n].time, g)) : n \in Matches} :
                    g \in Range(Granularities)}
<1>1. Seen(Len(topic)) = Matches
  BY MatchesAre DEF Seen
<1>2. \A t \in rows :
        /\ t \in Tick /\ Ohlcv(t) = Candle(t.granularity, t.time)
        /\ t.granularity \in Range(Granularities)
        /\ \E n \in Matches : t.time = Bucket(topic[n].time, t.granularity)
  BY <1>1, TellsIsCandle, TickFields DEF Complete
<1>3. ASSUME NEW t \in rows
      PROVE  \E g \in Range(Granularities), n \in Matches :
               Ohlcv(t) = Candle(g, Bucket(topic[n].time, g))
  BY <1>2
<1>4. ASSUME NEW g \in Range(Granularities), NEW n \in Matches
      PROVE  \E t \in rows : Ohlcv(t) = Candle(g, Bucket(topic[n].time, g))
  <2>1. PICK t \in rows : t.granularity = g /\ t.time = Bucket(topic[n].time, g)
    BY <1>1 DEF Complete
  <2> QED
    BY <1>2, <2>1
<1> QED
  BY <1>3, <1>4

\* TickMaker (worker/tick_maker.go) with KafkaLogReader and REPLACE INTO g_tick: however the
\* copies of the candles fall into the channel and the batches, and whatever logs a restarted
\* engine repeats, g_tick has in the end for each granularity exactly the candles of the
\* matches, with the right open, high, low, close and volume.  The engine numbers its logs
\* from 1 and its clock does not go back; TickMaker itself is not restarted.
THEOREM CandlesAreExact ==
  ASSUME \A t \in Topics : FromOne(t) /\ ClockRises(t)
  PROVE  Spec => []TicksExact
<1>1. Init => TickInv
  <2> SUFFICES ASSUME Init PROVE TickInv
    OBVIOUS
  <2>1. /\ topic \in Topics /\ topic \in Seq(Log) /\ crashes = 0 /\ rows = {}
        /\ ticker = [pos |-> 0, lastSeq |-> 0, todo |-> <<>>, ch |-> <<>>, buf |-> <<>>]
        /\ ticks = [g \in Range(Granularities) |-> NoTick]
    BY MarketAssumption DEF Init, StartReader, ResumeAt
  <2>2. <<>> \in Seq(Tick)
    OBVIOUS
  <2>3. ticker \in Reader(Tick) /\ ticker.pos = 0 /\ ticker.lastSeq = 0
    BY <2>1, <2>2 DEF Reader
  <2>4. ReadOn(ticker)
    <3>1. Len(topic) \in Nat
      BY <2>1
    <3> QED
      BY <2>3, <3>1 DEF ReadOn
  <2>5. Seen(0) = {}
    BY <2>1, MatchesAre DEF Seen
  <2>6. Working(ticks, 0)
    BY <2>1, <2>5 DEF Working
  <2>7. Waiting(ticker) = <<>>
    BY <2>1 DEF Waiting
  <2>8. Replaced(rows, Waiting(ticker)) = {}
    BY <2>1, <2>7, ReplacedByNone
  <2>9. Complete(Replaced(rows, Waiting(ticker)), 0)
    BY <2>5, <2>8 DEF Complete
  <2> QED
    BY <2>1, <2>3, <2>4, <2>6, <2>9 DEF TickInv
<1>2. TickInv /\ [Next]_vars => TickInv'
  BY TickStep
<1>3. TickInv => TicksExact
  <2> SUFFICES ASSUME TickInv, crashes = 0, Done(ticker)
               PROVE  {Ohlcv(t) : t \in rows} =
                        UNION {{Candle(g, Bucket(topic[n].time, g)) : n \in Matches} :
                                 g \in Range(Granularities)}
    BY DEF TicksExact, CandlesExact
  <2>1. topic \in Seq(Log) /\ Complete(Replaced(rows, Waiting(ticker)), ticker.pos)
    BY MarketAssumption DEF TickInv
  <2>2. ticker.pos = Len(topic) /\ Waiting(ticker) = <<>>
    BY DEF Done, Waiting
  <2>3. Replaced(rows, Waiting(ticker)) = rows
    BY <2>2, ReplacedByNone
  <2> QED
    BY <2>1, <2>2, <2>3, CompleteIsExact
<1> QED
  BY <1>1, <1>2, <1>3, PTL DEF Spec

-----------------------------------------------------------------------------
(* The types of both workers, and where their readers start again. *)

\* The rows of matches in the topic.
TradeRow == {t \in Trade : TradeLogged(t)}
TickRow == {t \in Tick : TickLogged(t) /\ \E n \in DOMAIN topic : t.time <= topic[n].time}

\* Every row, stored or on its way, is of a log of the topic, and both readers are in it.
TypeInv ==
  /\ topic \in Topics
  /\ trader \in Reader(TradeRow) /\ ticker \in Reader(TickRow)
  /\ trader.pos <= Len(topic) /\ ticker.pos <= Len(topic)
  /\ ticks \in [Range(Granularities) -> TickRow \cup {NoTick}]
  /\ trades \in Seq(TradeRow) /\ rows \subseteq TickRow
  /\ lost \in Nat /\ crashes \in Nat

LEMMA FieldsOf ==
  ASSUME NEW S, NEW r \in Reader(S)
  PROVE  r.pos \in Nat /\ r.lastSeq \in Nat /\ r.todo \in Seq(S) /\ r.ch \in Seq(S) /\ r.buf \in Seq(S)
  BY DEF Reader

LEMMA HandedType ==
  ASSUME NEW S, NEW r \in Reader(S), r.todo # <<>>
  PROVE  Handed(r) \in Reader(S) /\ Handed(r).pos = r.pos
<1>1. /\ r.pos \in Nat /\ r.lastSeq \in Nat
      /\ r.todo \in Seq(S) /\ r.ch \in Seq(S) /\ r.buf \in Seq(S)
  BY FieldsOf
<1>2. Tail(r.todo) \in Seq(S) /\ Append(r.ch, Head(r.todo)) \in Seq(S)
  BY <1>1, MoveRow
<1> QED
  BY <1>1, <1>2 DEF Handed, Reader

LEMMA TakenType ==
  ASSUME NEW S, NEW r \in Reader(S), r.ch # <<>>
  PROVE  Taken(r) \in Reader(S) /\ Taken(r).pos = r.pos
<1>1. /\ r.pos \in Nat /\ r.lastSeq \in Nat
      /\ r.todo \in Seq(S) /\ r.ch \in Seq(S) /\ r.buf \in Seq(S)
  BY FieldsOf
<1>2. Tail(r.ch) \in Seq(S) /\ Append(r.buf, Head(r.ch)) \in Seq(S)
  BY <1>1, MoveRow
<1> QED
  BY <1>1, <1>2 DEF Taken, Reader

LEMMA StoredType ==
  ASSUME NEW S, NEW r \in Reader(S)
  PROVE  [r EXCEPT !.buf = <<>>] \in Reader(S) /\ [r EXCEPT !.buf = <<>>].pos = r.pos
<1>1. /\ r.pos \in Nat /\ r.lastSeq \in Nat
      /\ r.todo \in Seq(S) /\ r.ch \in Seq(S) /\ r.buf \in Seq(S)
  BY FieldsOf
<1>2. <<>> \in Seq(S)
  OBVIOUS
<1> QED
  BY <1>1, <1>2 DEF Reader

\* A log is passed over or passed on.
LEMMA PassedType ==
  ASSUME topic \in Seq(Log), NEW S, NEW r \in Reader(S), CanRead(r), NEW out \in Seq(S)
  PROVE  /\ r.pos \in Nat /\ r.pos < Len(topic) /\ r.pos + 1 \in 1 .. Len(topic)
         /\ NextLog(r) = topic[r.pos + 1] /\ NextLog(r) \in Log
         /\ [r EXCEPT !.pos = @ + 1] \in Reader(S) /\ [r EXCEPT !.pos = @ + 1].pos <= Len(topic)
         /\ Passed(r, out) \in Reader(S) /\ Passed(r, out).pos <= Len(topic)
<1>1. /\ r.pos \in Nat /\ r.lastSeq \in Nat
      /\ r.todo \in Seq(S) /\ r.ch \in Seq(S) /\ r.buf \in Seq(S)
  BY FieldsOf
<1>2. PICK n \in 1 .. Len(topic) : n = r.pos + 1 /\ n \in Nat /\ r.pos < Len(topic)
  BY <1>1 DEF CanRead
<1>3. NextLog(r) = topic[n] /\ topic[n] \in Log /\ topic[n].seq \in Nat
  BY <1>2, SizeType DEF NextLog
<1>4. /\ [r EXCEPT !.pos = n] \in Reader(S) /\ [r EXCEPT !.pos = n].pos = n
  BY <1>1, <1>2 DEF Reader
<1>5. [r EXCEPT !.pos = @ + 1] = [r EXCEPT !.pos = n]
  BY <1>2
<1>6. Passed(r, out) = [r EXCEPT !.pos = n, !.lastSeq = topic[n].seq, !.todo = out]
  BY <1>2, <1>3 DEF Passed
<1>7. Passed(r, out) \in Reader(S) /\ Passed(r, out).pos = n
  BY <1>1, <1>2, <1>3, <1>6 DEF Reader
<1>8. n <= Len(topic)
  BY <1>2
<1> QED
  BY <1>1, <1>2, <1>3, <1>4, <1>5, <1>7, <1>8

\* A reader starts at the beginning, or behind a row of the topic.
LEMMA StartType ==
  ASSUME topic \in Seq(Log), NEW S, NEW a \in Nat, NEW n \in Nat, a = 0 \/ a < Len(topic)
  PROVE  StartReader(a, n) \in Reader(S) /\ StartReader(a, n).pos <= Len(topic)
<1>1. <<>> \in Seq(S) /\ Len(topic) \in Nat
  OBVIOUS
<1>2. ResumeAt(a) \in Nat /\ ResumeAt(a) <= Len(topic)
  BY <1>1 DEF ResumeAt
<1> QED
  BY <1>1, <1>2 DEF StartReader, Reader

\* A set of numbers with a bound has a greatest one.
LEMMA GreatestOf ==
  ASSUME NEW B \in Nat, NEW S \in SUBSET (0 .. B), S # {}
  PROVE  \E m \in S : \A k \in S : k <= m
<1> DEFINE Ok(n) == (\E k \in S : k <= n) => \E m \in S : m <= n /\ \A k \in S : k <= n => k <= m
           T == {n \in 0 .. B : Ok(n)}
<1>1. 0 \in T
  BY DEF T
<1>2. ASSUME NEW n \in 0 .. B, n \in T, n < B PROVE n + 1 \in T
  <2>1. \A k \in S : k \in Nat /\ (k <= n + 1 <=> k <= n \/ k = n + 1)
    BY <1>2
  <2>2. CASE n + 1 \in S
    <3>1. Ok(n + 1)
      BY <2>1, <2>2
    <3> QED
      BY <1>2, <3>1
  <2>3. CASE n + 1 \notin S
    <3>1. \A k \in S : k <= n + 1 <=> k <= n
      BY <2>1, <2>3
    <3>2. Ok(n + 1)
      BY <1>2, <3>1
    <3> QED
      BY <1>2, <3>2
  <2> QED
    BY <2>2, <2>3
<1>3. B \in T
  <2>1. \A n \in 0 .. B : n \in T
    <3> HIDE DEF T
    <3> QED
      BY <1>1, <1>2, Upwards
  <2>2. B \in 0 .. B
    OBVIOUS
  <2> HIDE DEF T
  <2> QED
    BY <2>1, <2>2
<1>4. \A k \in S : k <= B
  OBVIOUS
<1> QED
  BY <1>3, <1>4

LEMMA TimesBounded ==
  ASSUME topic \in Seq(Log)
  PROVE  \E B \in Nat : \A n \in DOMAIN topic : topic[n].time <= B
<1>1. PICK L \in Nat : L = Len(topic) /\ DOMAIN topic = 1 .. L
  OBVIOUS
<1> DEFINE Ok(k) == \E B \in Nat : \A n \in 1 .. k : topic[n].time <= B
           T == {k \in 0 .. L : Ok(k)}
<1>2. 0 \in T
  BY <1>1
<1>3. ASSUME NEW k \in 0 .. L, k \in T, k < L PROVE k + 1 \in T
  <2>1. PICK B \in Nat : \A n \in 1 .. k : topic[n].time <= B
    BY <1>3
  <2>2. k + 1 \in 1 .. L /\ k + 1 \in 0 .. L
    BY <1>3
  <2>3. PICK x \in Nat : x = topic[k + 1].time
    BY <1>1, <2>2, SizeType
  <2>4. PICK C \in Nat : B <= C /\ x <= C
    <3>1. B + x \in Nat /\ B <= B + x /\ x <= B + x
      OBVIOUS
    <3> QED
      BY <3>1
  <2>5. ASSUME NEW n \in 1 .. k + 1 PROVE topic[n].time <= C
    <3>1. CASE n = k + 1
      BY <2>3, <2>4, <3>1
    <3>2. CASE n # k + 1
      <4>1. n \in 1 .. k /\ n \in 1 .. Len(topic)
        BY <1>1, <1>3, <3>2
      <4>2. topic[n].time \in Nat /\ topic[n].time <= B
        BY <2>1, <4>1, SizeType
      <4> QED
        BY <2>4, <4>2
    <3> QED
      BY <3>1, <3>2
  <2>6. Ok(k + 1)
    BY <2>5
  <2> QED
    BY <2>2, <2>6
<1>4. L \in T
  <2>1. \A k \in 0 .. L : k \in T
    <3> HIDE DEF T
    <3> QED
      BY <1>2, <1>3, Upwards
  <2>2. L \in 0 .. L
    OBVIOUS
  <2> HIDE DEF T
  <2> QED
    BY <2>1, <2>2
<1> QED
  BY <1>1, <1>4

LEMMA RowFields ==
  ASSUME NEW t \in TickRow
  PROVE  /\ t \in Tick /\ t.offset < Len(topic) /\ t.offset \in Nat /\ t.seq \in Nat /\ t.time \in Nat
         /\ t.granularity \in Range(Granularities) /\ \E n \in DOMAIN topic : t.time <= topic[n].time
  BY TickFields DEF TickRow, TickLogged

\* The candle with the greatest time is one that is stored.
LEMMA LastTickType ==
  ASSUME topic \in Seq(Log), rows \subseteq TickRow, NEW g
  PROVE  LastTick(g) \in TickRow \/ LastTick(g) = NoTick
<1>1. PICK mine : mine = {t \in rows : t.granularity = g}
  OBVIOUS
<1>2. CASE mine = {}
  BY <1>1, <1>2 DEF LastTick
<1>3. CASE mine # {}
  <2>1. PICK B \in Nat : \A n \in DOMAIN topic : topic[n].time <= B
    BY TimesBounded
  <2>2. PICK S : S = {t.time : t \in mine}
    OBVIOUS
  <2>3. \A t \in mine : t.time \in 0 .. B
    <3> SUFFICES ASSUME NEW t \in mine PROVE t.time \in 0 .. B
      OBVIOUS
    <3>1. t \in TickRow
      BY <1>1
    <3>2. PICK n \in DOMAIN topic : t.time <= topic[n].time
      BY <3>1, RowFields
    <3>3. t.time \in Nat /\ topic[n].time \in Nat /\ topic[n].time <= B
      BY <2>1, <3>1, SizeType, RowFields
    <3> QED
      BY <3>2, <3>3
  <2>4. S \in SUBSET (0 .. B) /\ S # {}
    BY <1>3, <2>2, <2>3
  <2>5. PICK m \in S : \A k \in S : k <= m
    BY <2>4, GreatestOf
  <2>6. \E t \in mine : \A u \in mine : u.time <= t.time
    BY <2>2, <2>5
  <2>7. LastTick(g) \in mine
    BY <1>1, <1>3, <2>6 DEF LastTick
  <2> QED
    BY <1>1, <2>7
<1> QED
  BY <1>2, <1>3

\* TickMaker resumes behind a stored candle.
LEMMA ResumeTickType ==
  ASSUME topic \in Seq(Log), rows \subseteq TickRow
  PROVE  ResumeTick \in Reader(TickRow) /\ ResumeTick.pos <= Len(topic)
<1>1. PICK found : found = {k \in DOMAIN Granularities : LastTick(Granularities[k]) # NoTick}
  OBVIOUS
<1>2. CASE found = {}
  <2>1. ResumeTick = StartReader(0, 0)
    BY <1>1, <1>2 DEF ResumeTick
  <2> QED
    BY <2>1, StartType
<1>3. CASE found # {}
  <2>1. PICK L \in Nat : DOMAIN Granularities = 1 .. L
    BY MarketAssumption
  <2>2. found \in SUBSET (0 .. L)
    BY <1>1, <2>1
  <2>3. \E k \in found : \A j \in found : j <= k
    BY <1>3, <2>2, GreatestOf
  <2>4. PICK last \in found : last = CHOOSE k \in found : \A j \in found : j <= k
    BY <2>3
  <2>5. PICK t \in TickRow : t = LastTick(Granularities[last])
    BY <1>1, LastTickType
  <2>6. ResumeTick = StartReader(t.offset, t.seq)
    BY <1>1, <1>3, <2>4, <2>5 DEF ResumeTick
  <2> QED
    BY <2>5, <2>6, RowFields, StartType
<1> QED
  BY <1>2, <1>3

LEMMA ResumeTradeType ==
  ASSUME topic \in Seq(Log), trades \in Seq(TradeRow)
  PROVE  ResumeTrade \in Reader(TradeRow) /\ ResumeTrade.pos <= Len(topic)
<1>1. CASE trades = <<>>
  <2>1. ResumeTrade = StartReader(0, 0)
    BY <1>1 DEF ResumeTrade
  <2> QED
    BY <2>1, StartType
<1>2. CASE trades # <<>>
  <2>1. PICK t \in TradeRow : t = Last(trades)
    <3>1. Last(trades) = trades[Len(trades)] /\ Len(trades) \in 1 .. Len(trades)
      BY <1>2 DEF Last
    <3> QED
      BY <3>1
  <2>2. t.offset \in Nat /\ t.seq \in Nat /\ t.offset < Len(topic)
    BY DEF TradeRow, TradeLogged, Trade
  <2>3. ResumeTrade = StartReader(t.offset, t.seq)
    BY <1>2, <2>1 DEF ResumeTrade
  <2> QED
    BY <2>2, <2>3, StartType
<1> QED
  BY <1>1, <1>2

\* A candle with one match more is of a log of the topic.
LEMMA AfterType ==
  ASSUME topic \in Seq(Log), NEW p \in Nat, NEW n \in 1 .. Len(topic), n = p + 1,
         NEW g \in Range(Granularities), ticks[g] \in TickRow \cup {NoTick}, topic[n].match
  PROVE  TickAfter(g, topic[n], p) \in TickRow
<1>1. /\ topic[n].size \in Nat /\ topic[n].price \in Nat /\ topic[n].time \in Nat
      /\ topic[n].seq \in Nat
  BY SizeType
<1>2. n \in DOMAIN topic /\ p < Len(topic)
  BY DEF Log
<1>3. PICK b \in Nat : b = Bucket(topic[n].time, g) /\ b <= topic[n].time
  <2>1. PICK x \in Nat, h \in Nat \ {0} : x = topic[n].time /\ h = g
    BY <1>1, GranularityType
  <2>2. Bucket(x, h) \in Nat /\ Bucket(x, h) <= x
    <3>1. (x \div h) \in Nat /\ (x \div h) * h <= x
      OBVIOUS
    <3>2. (x \div h) * h \in Nat
      BY <3>1
    <3> QED
      BY <3>1, <3>2 DEF Bucket
  <2> QED
    BY <2>1, <2>2
<1>4. PICK a : a = TickAfter(g, topic[n], p)
  OBVIOUS
<1>5. CASE a = NewTick(g, topic[n], p)
  <2>1. a \in Tick /\ a.offset = p /\ a.time = b /\ a.seq = topic[n].seq /\ a.close = topic[n].price
    BY <1>1, <1>3, <1>5 DEF NewTick, Tick
  <2> QED
    BY <1>2, <1>3, <1>4, <2>1 DEF TickRow, TickLogged
<1>6. CASE ticks[g] # NoTick /\ a = Merged(ticks[g], topic[n], p)
  <2>1. PICK t \in TickRow : t = ticks[g]
    BY <1>6
  <2>2. /\ t \in Tick /\ t.time \in Nat /\ t.low \in Nat /\ t.high \in Nat /\ t.volume \in Nat
        /\ \E m \in DOMAIN topic : t.time <= topic[m].time
    BY RowFields, TickFields
  <2>3. /\ Least(t.low, topic[n].price) \in Nat /\ Greatest(t.high, topic[n].price) \in Nat
        /\ t.volume + topic[n].size \in Nat
    BY <1>1, <2>2 DEF Least, Greatest
  <2>4. a \in Tick /\ a.offset = p /\ a.time = t.time /\ a.seq = topic[n].seq /\ a.close = topic[n].price
    BY <1>1, <1>6, <2>1, <2>2, <2>3 DEF Merged, Tick
  <2> QED
    BY <1>2, <1>4, <2>2, <2>4 DEF TickRow, TickLogged
<1> QED
  BY <1>4, <1>5, <1>6 DEF TickAfter

LEMMA TypeStep ==
  ASSUME TypeInv, [Next]_vars
  PROVE  TypeInv'
<1>1. /\ topic \in Topics /\ topic \in Seq(Log)
      /\ trader \in Reader(TradeRow) /\ ticker \in Reader(TickRow)
      /\ trader.pos <= Len(topic) /\ ticker.pos <= Len(topic)
      /\ ticks \in [Range(Granularities) -> TickRow \cup {NoTick}]
      /\ trades \in Seq(TradeRow) /\ rows \subseteq TickRow
      /\ lost \in Nat /\ crashes \in Nat
  BY MarketAssumption DEF TypeInv
<1> DEFINE Holds ==
      /\ topic' = topic /\ trader' \in Reader(TradeRow) /\ ticker' \in Reader(TickRow)
      /\ trader'.pos <= Len(topic) /\ ticker'.pos <= Len(topic)
      /\ ticks' \in [Range(Granularities) -> TickRow \cup {NoTick}]
      /\ trades' \in Seq(TradeRow) /\ rows' \subseteq TickRow
      /\ lost' \in Nat /\ crashes' \in Nat
<1>2. ASSUME Holds PROVE TypeInv'
  <2>1. TradeRow' = TradeRow /\ TickRow' = TickRow
    BY <1>2 DEF TradeRow, TickRow, TradeLogged, TickLogged
  <2> QED
    BY <1>1, <1>2, <2>1 DEF TypeInv
<1>3. CASE TradeRead
  <2>1. /\ CanRead(trader) /\ UNCHANGED <<topic, ticker, ticks, trades, rows, lost, crashes>>
        /\ \/ trader' = [trader EXCEPT !.pos = @ + 1]
           \/ /\ NextLog(trader).match
              /\ trader' = Passed(trader, <<NewTrade(NextLog(trader), trader.pos)>>)
           \/ trader' = Passed(trader, <<>>)
    BY <1>3 DEF TradeRead
  <2>2. <<>> \in Seq(TradeRow)
    OBVIOUS
  <2>3. /\ trader.pos \in Nat /\ trader.pos < Len(topic)
        /\ NextLog(trader) = topic[trader.pos + 1] /\ NextLog(trader) \in Log
    BY <1>1, <2>1, <2>2, PassedType
  <2>4. ASSUME NextLog(trader).match PROVE NewTrade(NextLog(trader), trader.pos) \in TradeRow
    <3>1. PICK t : t = NewTrade(NextLog(trader), trader.pos)
      OBVIOUS
    <3>2. t \in Trade /\ t.offset = trader.pos
      BY <2>3, <3>1 DEF NewTrade, Trade, Log
    <3> QED
      BY <2>3, <2>4, <3>1, <3>2 DEF TradeRow, TradeLogged
  <2>5. NextLog(trader).match => <<NewTrade(NextLog(trader), trader.pos)>> \in Seq(TradeRow)
    BY <2>4
  <2>6. trader' \in Reader(TradeRow) /\ trader'.pos <= Len(topic)
    <3>1. CASE trader' = [trader EXCEPT !.pos = @ + 1]
      BY <1>1, <2>1, <2>2, <3>1, PassedType
    <3>2. CASE /\ NextLog(trader).match
               /\ trader' = Passed(trader, <<NewTrade(NextLog(trader), trader.pos)>>)
      <4>1. PICK out \in Seq(TradeRow) : trader' = Passed(trader, out)
        BY <2>5, <3>2
      <4> QED
        BY <1>1, <2>1, <4>1, PassedType
    <3>3. CASE trader' = Passed(trader, <<>>)
      BY <1>1, <2>1, <2>2, <3>3, PassedType
    <3> QED
      BY <2>1, <3>1, <3>2, <3>3
  <2> QED
    BY <1>1, <1>2, <2>1, <2>6
<1>4. CASE TradeSend
  <2>1. trader.todo # <<>> /\ trader' = Handed(trader)
        /\ UNCHANGED <<topic, ticker, ticks, trades, rows, lost, crashes>>
    BY <1>4 DEF TradeSend
  <2> QED
    BY <1>1, <1>2, <2>1, HandedType
<1>5. CASE TradeBuffer
  <2>1. trader.ch # <<>> /\ trader' = Taken(trader)
        /\ UNCHANGED <<topic, ticker, ticks, trades, rows, lost, crashes>>
    BY <1>5 DEF TradeBuffer
  <2> QED
    BY <1>1, <1>2, <2>1, TakenType
<1>6. CASE TradeFlush
  <2>1. PICK r : r = Taken(trader)
    OBVIOUS
  <2>2. /\ trader.ch # <<>> /\ trader' = [r EXCEPT !.buf = <<>>]
        /\ \/ trades' = trades \o r.buf /\ lost' = lost
           \/ trades' = trades \o r.buf \o r.buf /\ lost' = lost + 1
        /\ UNCHANGED <<topic, ticker, ticks, rows, crashes>>
    BY <1>6, <2>1 DEF TradeFlush
  <2>3. r \in Reader(TradeRow) /\ r.pos = trader.pos /\ r.buf \in Seq(TradeRow)
    BY <1>1, <2>1, <2>2, TakenType, FieldsOf
  <2>4. trader' \in Reader(TradeRow) /\ trader'.pos <= Len(topic)
    BY <1>1, <2>2, <2>3, StoredType
  <2>5. trades' \in Seq(TradeRow) /\ lost' \in Nat
    <3>1. trades \o r.buf \in Seq(TradeRow)
      BY <1>1, <2>3, JoinRows
    <3>2. (trades \o r.buf) \o r.buf \in Seq(TradeRow)
      BY <2>3, <3>1, JoinRows
    <3>3. lost + 1 \in Nat
      BY <1>1
    <3> QED
      BY <1>1, <2>2, <3>1, <3>2, <3>3
  <2> QED
    BY <1>1, <1>2, <2>2, <2>4, <2>5
<1>7. CASE TickRead
  <2>1. /\ CanRead(ticker) /\ UNCHANGED <<topic, trader, trades, rows, lost, crashes>>
        /\ \/ ticker' = [ticker EXCEPT !.pos = @ + 1] /\ ticks' = ticks
           \/ ticker' = Passed(ticker, <<>>) /\ ticks' = ticks
           \/ /\ NextLog(ticker).match
              /\ ticks' = [g \in Range(Granularities) |-> TickAfter(g, NextLog(ticker), ticker.pos)]
              /\ ticker' = Passed(ticker, RowsOf(ticks'))
    BY <1>7 DEF TickRead, RowsOf
  <2>2. <<>> \in Seq(TickRow)
    OBVIOUS
  <2>3. PICK p \in Nat, n \in 1 .. Len(topic) : p = ticker.pos /\ n = p + 1 /\ NextLog(ticker) = topic[n]
    BY <1>1, <2>1, <2>2, PassedType
  <2>4. CASE ticks' = ticks /\ (ticker' = [ticker EXCEPT !.pos = @ + 1] \/ ticker' = Passed(ticker, <<>>))
    <3>1. ticker' \in Reader(TickRow) /\ ticker'.pos <= Len(topic)
      <4>1. /\ [ticker EXCEPT !.pos = @ + 1] \in Reader(TickRow)
            /\ [ticker EXCEPT !.pos = @ + 1].pos <= Len(topic)
        BY <1>1, <2>1, <2>2, PassedType
      <4>2. Passed(ticker, <<>>) \in Reader(TickRow) /\ Passed(ticker, <<>>).pos <= Len(topic)
        BY <1>1, <2>1, <2>2, PassedType
      <4>3. CASE ticker' = [ticker EXCEPT !.pos = @ + 1]
        BY <4>1, <4>3
      <4>4. CASE ticker' = Passed(ticker, <<>>)
        BY <4>2, <4>4
      <4> QED
        BY <2>4, <4>3, <4>4
    <3> QED
      BY <1>1, <1>2, <2>1, <2>4, <3>1
  <2>5. CASE /\ NextLog(ticker).match
             /\ ticks' = [g \in Range(Granularities) |-> TickAfter(g, NextLog(ticker), ticker.pos)]
             /\ ticker' = Passed(ticker, RowsOf(ticks'))
    <3>1. \A g \in Range(Granularities) : TickAfter(g, topic[n], p) \in TickRow
      BY <1>1, <2>3, <2>5, AfterType
    <3>2. ticks' \in [Range(Granularities) -> TickRow]
      BY <2>3, <2>5, <3>1
    <3>3. RowsOf(ticks') \in Seq(TickRow)
      <4>1. DOMAIN Granularities = 1 .. Len(Granularities) /\ Len(Granularities) \in Nat
        BY MarketAssumption
      <4>2. \A k \in DOMAIN Granularities : Granularities[k] \in Range(Granularities)
        BY DEF Range
      <4>3. RowsOf(ticks') \in [1 .. Len(Granularities) -> TickRow]
        BY <3>2, <4>1, <4>2 DEF RowsOf
      <4> QED
        BY <4>1, <4>3
    <3>4. ticker' \in Reader(TickRow) /\ ticker'.pos <= Len(topic)
      BY <1>1, <2>1, <2>5, <3>3, PassedType
    <3>5. ticks' \in [Range(Granularities) -> TickRow \cup {NoTick}]
      BY <3>2
    <3> QED
      BY <1>1, <1>2, <2>1, <3>4, <3>5
  <2> QED
    BY <2>1, <2>4, <2>5
<1>8. CASE TickSend
  <2>1. ticker.todo # <<>> /\ ticker' = Handed(ticker)
        /\ UNCHANGED <<topic, trader, ticks, trades, rows, lost, crashes>>
    BY <1>8 DEF TickSend
  <2> QED
    BY <1>1, <1>2, <2>1, HandedType
<1>9. CASE TickBuffer
  <2>1. ticker.ch # <<>> /\ ticker' = Taken(ticker)
        /\ UNCHANGED <<topic, trader, ticks, trades, rows, lost, crashes>>
    BY <1>9 DEF TickBuffer
  <2> QED
    BY <1>1, <1>2, <2>1, TakenType
<1>10. CASE TickFlush
  <2>1. PICK r : r = Taken(ticker)
    OBVIOUS
  <2>2. /\ ticker.ch # <<>> /\ ticker' = [r EXCEPT !.buf = <<>>] /\ rows' = Replaced(rows, r.buf)
        /\ UNCHANGED <<topic, trader, ticks, trades, lost, crashes>>
    BY <1>10, <2>1 DEF TickFlush
  <2>3. r \in Reader(TickRow) /\ r.pos = ticker.pos /\ r.buf \in Seq(TickRow)
    BY <1>1, <2>1, <2>2, TakenType, FieldsOf
  <2>4. ticker' \in Reader(TickRow) /\ ticker'.pos <= Len(topic)
    BY <1>1, <2>2, <2>3, StoredType
  <2>5. rows' \subseteq TickRow
    <3>1. \A i \in DOMAIN r.buf : r.buf[i] \in TickRow
      BY <2>3
    <3> QED
      BY <1>1, <2>2, <3>1, ReplacedHas
  <2> QED
    BY <1>1, <1>2, <2>2, <2>4, <2>5
<1>11. CASE Restart
  <2>1. /\ trader' = ResumeTrade /\ ticker' = ResumeTick /\ crashes' = crashes + 1
        /\ ticks' = [g \in Range(Granularities) |-> LastTick(g)]
        /\ UNCHANGED <<topic, trades, rows, lost>>
    BY <1>11 DEF Restart
  <2>2. ticks' \in [Range(Granularities) -> TickRow \cup {NoTick}]
    BY <1>1, <2>1, LastTickType
  <2>3. /\ trader' \in Reader(TradeRow) /\ trader'.pos <= Len(topic)
        /\ ticker' \in Reader(TickRow) /\ ticker'.pos <= Len(topic)
    BY <1>1, <2>1, ResumeTradeType, ResumeTickType
  <2> QED
    BY <1>1, <1>2, <2>1, <2>2, <2>3
<1>12. CASE UNCHANGED vars
  BY <1>1, <1>2, <1>12 DEF vars
<1> HIDE DEF Holds
<1> QED
  BY <1>3, <1>4, <1>5, <1>6, <1>7, <1>8, <1>9, <1>10, <1>11, <1>12 DEF Next

LEMMA RowOfRange ==
  ASSUME NEW S, NEW s \in Seq(S), NEW t \in Range(s)
  PROVE  t \in S
<1>1. PICK i \in DOMAIN s : t = s[i]
  BY DEF Range
<1>2. i \in 1 .. Len(s)
  OBVIOUS
<1> QED
  BY <1>1, <1>2

\* TradeMaker and TickMaker (worker/trade_maker.go, worker/tick_maker.go) and KafkaLogReader:
\* wherever the process dies, neither worker resumes behind the end of the log, where it would
\* pass over new logs, and every row that is stored or on its way is of the match in the log
\* whose offset it has, with its number and price.
THEOREM ResumeWithinLog == Spec => [](MarketTypeOK /\ RowsLogged)
<1>1. Init => TypeInv
  <2> SUFFICES ASSUME Init PROVE TypeInv
    OBVIOUS
  <2>1. /\ topic \in Topics /\ topic \in Seq(Log) /\ trades = <<>> /\ rows = {}
        /\ lost = 0 /\ crashes = 0 /\ trader = StartReader(0, 0) /\ ticker = StartReader(0, 0)
        /\ ticks = [g \in Range(Granularities) |-> NoTick]
    BY MarketAssumption DEF Init
  <2>2. /\ trader \in Reader(TradeRow) /\ ticker \in Reader(TickRow)
        /\ trader.pos <= Len(topic) /\ ticker.pos <= Len(topic)
    BY <2>1, StartType
  <2>3. <<>> \in Seq(TradeRow)
    OBVIOUS
  <2> QED
    BY <2>1, <2>2, <2>3 DEF TypeInv
<1>2. TypeInv /\ [Next]_vars => TypeInv'
  BY TypeStep
<1>3. TypeInv => MarketTypeOK
  <2> SUFFICES ASSUME TypeInv PROVE MarketTypeOK
    OBVIOUS
  <2>1. TradeRow \subseteq Trade /\ TickRow \subseteq Tick
    BY DEF TradeRow, TickRow
  <2>2. Seq(TradeRow) \subseteq Seq(Trade) /\ Seq(TickRow) \subseteq Seq(Tick)
    BY <2>1
  <2>3. Reader(TradeRow) \subseteq Reader(Trade) /\ Reader(TickRow) \subseteq Reader(Tick)
    BY <2>2 DEF Reader
  <2>4. trader.pos \in Nat /\ ticker.pos \in Nat /\ Len(topic) \in Nat
    BY MarketAssumption, FieldsOf DEF TypeInv
  <2>5. {trader.pos, ticker.pos} \subseteq 0 .. Len(topic)
    BY <2>4 DEF TypeInv
  <2>6. ticks \in [Range(Granularities) -> Tick \cup {NoTick}]
    BY <2>1 DEF TypeInv
  <2> QED
    BY <2>1, <2>2, <2>3, <2>5, <2>6 DEF TypeInv, MarketTypeOK
<1>4. TypeInv => RowsLogged
  <2> SUFFICES ASSUME TypeInv PROVE RowsLogged
    OBVIOUS
  <2>1. Pending(trader) \subseteq TradeRow /\ Pending(ticker) \subseteq TickRow
    BY FieldsOf, RowOfRange DEF TypeInv, Pending
  <2>2. Range(trades) \subseteq TradeRow /\ rows \subseteq TickRow
    BY RowOfRange DEF TypeInv
  <2>3. (\A t \in TradeRow : TradeLogged(t)) /\ \A t \in TickRow : TickLogged(t)
    BY DEF TradeRow, TickRow
  <2> QED
    BY <2>1, <2>2, <2>3 DEF RowsLogged
<1> QED
  BY <1>1, <1>2, <1>3, <1>4, PTL DEF Spec
=============================================================================
