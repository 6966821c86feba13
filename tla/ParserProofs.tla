---------------------------- MODULE ParserProofs ----------------------------
(***************************************************************************)
(* Proofs about blockchain-parser, for any transactions, any number of     *)
(* crashes, failed calls and reorganisations, any number of confirmations  *)
(* not below the chain's finality and any number of overlapping ticks.     *)
(***************************************************************************)
EXTENDS Parser, FiniteSetTheorems, TLAPS

\* What is known of the chain: the blocks that are final stay below its head, and
\* the head is never more than Finality blocks ahead of them.
ChainInv ==
  /\ chain \in Seq(Seq(Entries)) /\ mempool \subseteq Txs
  /\ final \in Nat /\ final <= Len(chain) /\ Len(chain) - Finality <= final
  /\ reorgs \in Nat /\ crashes \in Nat /\ faults \in Nat /\ up \in BOOLEAN

\* What a step may do to the chain: final blocks stay.
FinalStays ==
  /\ final <= final'
  /\ \A h \in 1 .. final : h \in DOMAIN chain' /\ chain'[h] = chain[h]

-----------------------------------------------------------------------------
(* The chain. *)

LEMMA BlockType ==
  ASSUME NEW S \in SUBSET Txs, NEW b \in Blocks(S)
  PROVE  b \in Seq(Entries)
<1>1. PICK n \in 0 .. BlockSize : b \in [1 .. n -> [tx : S, ok : BOOLEAN]]
  BY DEF Blocks
<1>2. [tx : S, ok : BOOLEAN] \subseteq Entries
  BY DEF Entries
<1>3. n \in Nat
  BY <1>1, ChainAssumption
<1>4. b \in [1 .. n -> Entries]
  BY <1>1, <1>2
<1> QED BY <1>3, <1>4

LEMMA TxsType ==
  ASSUME NEW b \in Seq(Entries)
  PROVE  TxsOf(b) \subseteq Txs
<1>1. \A i \in DOMAIN b : b[i] \in Entries
  OBVIOUS
<1> QED BY <1>1 DEF TxsOf, Entries

LEMMA MineChain ==
  ASSUME ChainInv, Mine
  PROVE  ChainInv' /\ FinalStays
<1>1. PICK b \in Blocks(mempool) :
        /\ chain' = Append(chain, b)
        /\ mempool' = mempool \ TxsOf(b)
        /\ final' = IF Height + 1 - Finality > final THEN Height + 1 - Finality ELSE final
        /\ UNCHANGED <<reorgs, up, crashes, faults>>
  BY DEF Mine
<1>2. b \in Seq(Entries)
  BY BlockType DEF ChainInv
<1>3. Finality \in Nat
  BY ChainAssumption
<1>4. /\ chain' \in Seq(Seq(Entries)) /\ Len(chain') = Len(chain) + 1
      /\ \A h \in 1 .. Len(chain) : h \in DOMAIN chain' /\ chain'[h] = chain[h]
  BY <1>1, <1>2 DEF ChainInv
<1>5. final' \in Nat /\ final' <= Len(chain') /\ Len(chain') - Finality <= final'
      /\ final <= final'
  BY <1>1, <1>3, <1>4 DEF ChainInv, Height
<1>6. mempool' \subseteq Txs
  BY <1>1 DEF ChainInv
<1>7. FinalStays
  <2>1. Len(chain) \in Nat /\ final \in Nat /\ final <= Len(chain)
    BY DEF ChainInv
  <2>2. \A h \in 1 .. final : h \in 1 .. Len(chain)
    BY <2>1
  <2> QED BY <1>4, <1>5, <2>2 DEF FinalStays
<1> QED BY <1>1, <1>4, <1>5, <1>6, <1>7 DEF ChainInv

LEMMA ReorgChain ==
  ASSUME ChainInv, Reorg
  PROVE  ChainInv' /\ FinalStays
<1>1. PICK h \in final .. (Height - 1) :
        /\ chain' = SubSeq(chain, 1, h)
        /\ mempool' = mempool \cup UNION {TxsOf(chain[i]) : i \in (h + 1) .. Height}
        /\ reorgs' = reorgs + 1
        /\ UNCHANGED <<final, up, crashes, faults>>
  BY DEF Reorg
<1>2. h \in Nat /\ final <= h /\ h <= Len(chain)
  BY DEF ChainInv, Height
<1>3. /\ chain' \in Seq(Seq(Entries)) /\ Len(chain') = h
      /\ \A j \in 1 .. h : chain'[j] = chain[j]
  BY <1>1, <1>2 DEF ChainInv
<1>4. ASSUME NEW j \in (h + 1) .. Height PROVE TxsOf(chain[j]) \subseteq Txs
  <2>1. chain[j] \in Seq(Entries)
    BY <1>2 DEF ChainInv, Height
  <2> QED BY <2>1, TxsType
<1>5. mempool' \subseteq Txs
  BY <1>1, <1>4 DEF ChainInv
<1>6. Finality \in Nat
  BY ChainAssumption
<1>7. final' = final /\ final <= Len(chain') /\ Len(chain') - Finality <= final
  BY <1>1, <1>2, <1>3, <1>6 DEF ChainInv
<1>8. FinalStays
  BY <1>1, <1>2, <1>3, <1>7 DEF FinalStays, ChainInv
<1> QED BY <1>1, <1>3, <1>5, <1>7, <1>8 DEF ChainInv

-----------------------------------------------------------------------------
(* The payment of withdrawals. *)

TickSteps == {"idle", "mark", "pay", "hash", "wait", "refund", "fail"}

TickState ==
  [pc : TickSteps, list : Seq(Withdrawals), i : Nat, tx : [Withdrawals -> Hashes]]

\* The types of the second service; the place of a tick in its list is one.
PayInv ==
  /\ wrow \in [Withdrawals -> [status : Statuses, tx : Hashes]]
  /\ tick \in [Ticks -> TickState]
  /\ \A k \in Ticks : tick[k].pc # "idle" => tick[k].i \in 1 .. Len(tick[k].list)
  /\ paid \in [Withdrawals -> 0 .. MaxPays]
  /\ paidNow \in [Withdrawals -> Nat] /\ refunds \in [Withdrawals -> Nat]

LEMMA NoTickType == NoTick \in TickState /\ NoTick.pc = "idle"
BY DEF NoTick, TickState, TickSteps, Hashes

LEMMA StepType ==
  ASSUME NEW g \in TickState, NEW pc \in TickSteps
  PROVE  /\ [g EXCEPT !.pc = pc] \in TickState
         /\ [g EXCEPT !.pc = pc].i = g.i /\ [g EXCEPT !.pc = pc].list = g.list
         /\ [g EXCEPT !.pc = pc].tx = g.tx /\ [g EXCEPT !.pc = pc].pc = pc
BY DEF TickState

\* Where a tick goes on is a place in its list, or nowhere.
LEMMA AdvanceType ==
  ASSUME PayInv, NEW k \in Ticks, tick[k].pc # "idle",
         NEW pc \in TickSteps \ {"idle"}, NEW after \in TickSteps
  PROVE  /\ Advance(k, pc, after) \in TickState
         /\ \/ Advance(k, pc, after) = NoTick
            \/ Advance(k, pc, after).i \in 1 .. Len(Advance(k, pc, after).list)
<1> DEFINE t == tick[k]
<1>1. t \in TickState /\ t.i \in 1 .. Len(t.list) /\ Len(t.list) \in Nat
  BY DEF PayInv, TickState
<1> HIDE DEF t
<1>2. CASE t.i < Len(t.list)
  <2>1. Advance(k, pc, after) = [t EXCEPT !.pc = pc, !.i = t.i + 1]
    BY <1>2 DEF Advance, t
  <2>2. t.i + 1 \in Nat /\ t.i + 1 \in 1 .. Len(t.list)
    BY <1>1, <1>2
  <2> DEFINE g == [t EXCEPT !.pc = pc, !.i = t.i + 1]
  <2>3. g \in TickState /\ g.list = t.list /\ g.i = t.i + 1
    BY <1>1, <2>2 DEF TickState
  <2> HIDE DEF g
  <2>4. Advance(k, pc, after) = g
    BY <2>1 DEF g
  <2> QED BY <2>2, <2>3, <2>4
<1>3. CASE ~(t.i < Len(t.list)) /\ after = "idle"
  BY <1>3, NoTickType DEF Advance, t
<1>4. CASE ~(t.i < Len(t.list)) /\ after # "idle"
  <2>1. Advance(k, pc, after) = [t EXCEPT !.pc = after, !.i = 1]
    BY <1>4 DEF Advance, t
  <2>2. 1 \in 1 .. Len(t.list)
    BY <1>1
  <2> DEFINE g == [t EXCEPT !.pc = after, !.i = 1]
  <2>3. g \in TickState /\ g.list = t.list /\ g.i = 1
    BY <1>1, <2>2 DEF TickState
  <2> HIDE DEF g
  <2>4. Advance(k, pc, after) = g
    BY <2>1 DEF g
  <2> QED BY <2>2, <2>3, <2>4
<1> QED BY <1>2, <1>3, <1>4

\* The withdrawal a tick works on, and the row it saves.
LEMMA PayingType ==
  ASSUME PayInv, NEW k \in Ticks, tick[k].pc # "idle"
  PROVE  /\ Paying(k) \in Withdrawals
         /\ tick[k].tx[Paying(k)] \in Hashes
         /\ \A s \in Statuses : Save(k, s) \in [Withdrawals -> [status : Statuses, tx : Hashes]]
<1>1. /\ tick[k] \in TickState /\ tick[k].i \in 1 .. Len(tick[k].list)
  BY DEF PayInv
<1>2. tick[k].list \in Seq(Withdrawals) /\ tick[k].tx \in [Withdrawals -> Hashes]
  BY <1>1 DEF TickState
<1>3. Paying(k) \in Withdrawals
  BY <1>1, <1>2 DEF Paying
<1> QED BY <1>2, <1>3 DEF Save, PayInv

\* find({status: 'init'}) returns a list without repetitions.
LEMMA OrdersType ==
  ASSUME NEW S \in SUBSET Withdrawals, S # {}, NEW s \in Orders(S)
  PROVE  /\ s \in Seq(Withdrawals) /\ 1 \in 1 .. Len(s)
         /\ \A j \in 1 .. Len(s) : s[j] \in S
         /\ \A i, j \in 1 .. Len(s) : i # j => s[i] # s[j]
<1>1. IsFiniteSet(S) /\ Cardinality(S) \in Nat /\ Cardinality(S) # 0
  BY ChainAssumption, FS_Subset, FS_CardinalityType, FS_EmptySet
<1>2. s \in [1 .. Cardinality(S) -> S] /\ \A i, j \in DOMAIN s : i # j => s[i] # s[j]
  BY DEF Orders
<1>3. s \in Seq(S) /\ Len(s) = Cardinality(S)
  BY <1>1, <1>2
<1> QED BY <1>1, <1>2, <1>3

LEMMA PayStep ==
  ASSUME PayInv, ChainInv, NEW k \in Ticks, TickStep(k)
  PROVE  PayInv' /\ ChainInv' /\ FinalStays
<1> DEFINE t == tick[k]
           Rows == [Withdrawals -> [status : Statuses, tx : Hashes]]
           Fine(g) == g \in TickState /\ (g.pc # "idle" => g.i \in 1 .. Len(g.list))
<1>1. Fine(t)
  BY DEF PayInv
<1>2. ASSUME NEW g, Fine(g), tick' = [tick EXCEPT ![k] = g], wrow' \in Rows,
             paid' \in [Withdrawals -> 0 .. MaxPays],
             paidNow' \in [Withdrawals -> Nat], refunds' \in [Withdrawals -> Nat]
      PROVE  PayInv'
  BY <1>2 DEF PayInv
<1>3. ASSUME NEW pc \in TickSteps \ {"idle"}, tick[k].pc # "idle"
      PROVE  Fine([tick[k] EXCEPT !.pc = pc])
  BY <1>1, <1>3, StepType
<1>4. ASSUME chain' = chain, final' = final, mempool' \subseteq Txs,
             UNCHANGED <<reorgs, up, crashes>>, faults' = faults \/ Fault
      PROVE  ChainInv' /\ FinalStays
  BY <1>4 DEF ChainInv, FinalStays, Fault
<1>5. /\ wrow \in Rows /\ paid \in [Withdrawals -> 0 .. MaxPays]
      /\ paidNow \in [Withdrawals -> Nat] /\ refunds \in [Withdrawals -> Nat]
      /\ mempool \subseteq Txs
  BY DEF PayInv, ChainInv
<1>6. {"pay", "mark", "hash", "wait", "refund", "fail"} = TickSteps \ {"idle"}
      /\ "idle" \in TickSteps
  BY DEF TickSteps
<1>7. tick[k].pc # "idle" => Fine(Advance(k, "mark", "pay")) /\ Fine(NextPay(k))
  BY <1>6, AdvanceType, NoTickType DEF NextPay
<1>8. tick[k].pc # "idle" =>
        /\ Paying(k) \in Withdrawals
        /\ \A s \in {"processing", "success", "failed"} : Save(k, s) \in Rows
  BY PayingType DEF Statuses
<1>9. CASE FindPending(k)
  <2> DEFINE S == {w \in Withdrawals : wrow[w].status = "init"}
             h == [w \in Withdrawals |-> wrow[w].tx]
  <2>1. PICK s \in Orders(S) :
          tick' = [tick EXCEPT ![k] = [pc |-> "mark", list |-> s, i |-> 1, tx |-> h]]
    BY <1>9 DEF FindPending
  <2>2. S # {} /\ S \in SUBSET Withdrawals
    BY <1>9 DEF FindPending
  <2>3. h \in [Withdrawals -> Hashes]
    BY <1>5
  <2>4. s \in Seq(Withdrawals) /\ 1 \in 1 .. Len(s)
    BY <2>2, OrdersType
  <2> HIDE DEF S, h
  <2>5. Fine([pc |-> "mark", list |-> s, i |-> 1, tx |-> h])
    BY <2>3, <2>4 DEF TickState, TickSteps
  <2>6. UNCHANGED <<chain, mempool, final, reorgs, up, crashes, faults, wrow, paid, paidNow, refunds>>
    BY <1>9 DEF FindPending, baseVars
  <2> HIDE DEF Fine, Rows
  <2>7. PayInv'
    BY <1>2, <1>5, <2>1, <2>5, <2>6
  <2> QED BY <1>4, <1>5, <2>6, <2>7
<1> HIDE DEF Fine, Rows, t
<1>10. CASE MarkOne(k)
  <2>1. /\ tick[k].pc = "mark" /\ tick' = [tick EXCEPT ![k] = Advance(k, "mark", "pay")]
        /\ wrow' = Save(k, "processing")
        /\ UNCHANGED <<chain, mempool, final, reorgs, up, crashes, faults, paid, paidNow, refunds>>
    BY <1>10 DEF MarkOne, baseVars
  <2>2. PayInv'
    BY <1>2, <1>5, <1>7, <1>8, <2>1
  <2> QED BY <1>4, <1>5, <2>1, <2>2
<1>11. CASE Pay(k)
  <2> DEFINE w == Paying(k)
             p == <<w, paid[w] + 1>>
             Send == /\ mempool' = mempool \cup {p}
                     /\ paid' = [paid EXCEPT ![w] = @ + 1]
                     /\ paidNow' = [paidNow EXCEPT ![w] = @ + 1]
  <2>1. /\ tick[k].pc = "pay" /\ paid[w] < MaxPays
        /\ UNCHANGED <<chain, final, reorgs, up, crashes, wrow, refunds>>
        /\ \/ Send /\ tick' = [tick EXCEPT ![k].pc = "hash", ![k].tx[w] = p] /\ UNCHANGED faults
           \/ /\ Fault /\ (Send \/ UNCHANGED <<mempool, paid, paidNow>>)
              /\ tick' = [tick EXCEPT ![k].pc = "fail"]
    BY <1>11 DEF Pay
  <2>2. w \in Withdrawals
    BY <1>8, <2>1
  <2>3. MaxPays \in Nat /\ paid[w] + 1 \in 1 .. MaxPays /\ paid[w] + 1 \in 0 .. MaxPays
    BY <1>5, <2>1, <2>2, ChainAssumption
  <2>4. p \in Payments /\ p \in Txs /\ p \in Hashes
    BY <2>2, <2>3 DEF Payments, Txs, Hashes
  <2> HIDE DEF p, w
  <2>5. Send \/ UNCHANGED <<mempool, paid, paidNow>>
        => /\ mempool' \subseteq Txs /\ paid' \in [Withdrawals -> 0 .. MaxPays]
           /\ paidNow' \in [Withdrawals -> Nat]
    BY <1>5, <2>2, <2>3, <2>4
  <2>6. Fine([tick[k] EXCEPT !.pc = "hash", !.tx[w] = p])
    BY <1>1, <2>1, <2>2, <2>4 DEF Fine, TickState, TickSteps, t
  <2>7. Fine([tick[k] EXCEPT !.pc = "fail"])
    BY <1>3, <1>6, <2>1
  <2>8. \/ tick' = [tick EXCEPT ![k] = [tick[k] EXCEPT !.pc = "hash", !.tx[w] = p]]
        \/ tick' = [tick EXCEPT ![k] = [tick[k] EXCEPT !.pc = "fail"]]
    BY <2>1
  <2>9. PayInv'
    BY <1>2, <1>5, <2>1, <2>5, <2>6, <2>7, <2>8
  <2> QED BY <1>4, <2>1, <2>5, <2>9
<1>12. CASE SaveHash(k)
  <2>1. /\ tick[k].pc = "hash" /\ wrow' \in {wrow, Save(k, "processing")}
        /\ faults' = faults \/ Fault
        /\ UNCHANGED <<chain, mempool, final, reorgs, up, crashes, paid, paidNow, refunds>>
        /\ \E pc \in {"wait", "fail"} : tick' = [tick EXCEPT ![k] = [tick[k] EXCEPT !.pc = pc]]
    BY <1>12 DEF SaveHash, chainVars
  <2>2. PayInv'
    BY <1>2, <1>3, <1>5, <1>6, <1>8, <2>1
  <2> QED BY <1>4, <1>5, <2>1, <2>2
<1>13. CASE Monitor(k)
  <2>1. /\ tick[k].pc = "wait" /\ wrow' \in {wrow, Save(k, "success"), Save(k, "failed")}
        /\ faults' = faults \/ Fault
        /\ UNCHANGED <<chain, mempool, final, reorgs, up, crashes, paid, paidNow, refunds>>
        /\ \/ \E pc \in {"refund", "fail"} : tick' = [tick EXCEPT ![k] = [tick[k] EXCEPT !.pc = pc]]
           \/ tick' = [tick EXCEPT ![k] = NextPay(k)]
    BY <1>13 DEF Monitor, chainVars
  <2>2. PayInv'
    BY <1>2, <1>3, <1>5, <1>6, <1>7, <1>8, <2>1
  <2> QED BY <1>4, <1>5, <2>1, <2>2
<1>14. CASE Refund(k)
  <2>1. /\ tick[k].pc = "refund"
        /\ refunds' \in {refunds, [refunds EXCEPT ![Paying(k)] = @ + 1]}
        /\ faults' = faults \/ Fault
        /\ UNCHANGED <<chain, mempool, final, reorgs, up, crashes, wrow, paid, paidNow>>
        /\ \/ tick' = [tick EXCEPT ![k] = [tick[k] EXCEPT !.pc = "fail"]]
           \/ tick' = [tick EXCEPT ![k] = NextPay(k)]
    BY <1>14 DEF Refund, chainVars
  <2>2. refunds' \in [Withdrawals -> Nat]
    BY <1>5, <1>8, <2>1
  <2>3. PayInv'
    BY <1>2, <1>3, <1>5, <1>6, <1>7, <2>1, <2>2
  <2> QED BY <1>4, <1>5, <2>1, <2>3
<1>15. CASE SaveFailed(k)
  <2>1. /\ tick[k].pc = "fail" /\ tick' = [tick EXCEPT ![k] = NextPay(k)]
        /\ wrow' = Save(k, "failed")
        /\ UNCHANGED <<chain, mempool, final, reorgs, up, crashes, faults, paid, paidNow, refunds>>
    BY <1>15 DEF SaveFailed, baseVars
  <2>2. PayInv'
    BY <1>2, <1>5, <1>7, <1>8, <2>1
  <2> QED BY <1>4, <1>5, <2>1, <2>2
<1> QED BY <1>9, <1>10, <1>11, <1>12, <1>13, <1>14, <1>15 DEF TickStep

-----------------------------------------------------------------------------
(* The scan of the chain. *)

EntriesOf(b) == {b[i] : i \in DOMAIN b}

ScanState == [pc : Steps, block : Int, upto : Int, todo : Seq(Entries), k : Nat \ {0}]

Working == {"lock", "gas", "record", "debit", "credit", "unlock"}

\* A round works on a block that is final, and what is left of it is of this block.
GoodScan(s) ==
  /\ s \in ScanState
  /\ s.pc # "idle" => s.block <= s.upto /\ s.upto <= final
  /\ s.pc \in Working => /\ s.todo # <<>>
                         /\ EntriesOf(s.todo) \subseteq EntriesOf(BlockAt(s.block))

ScanInv ==
  /\ lastBlock \in Int \cup {None} /\ first \in Int \cup {None}
  /\ up => lastBlock # None
  /\ locks \subseteq Txs /\ rows \subseteq Txs /\ copied \subseteq Txs /\ hurt \subseteq Txs
  /\ posts \in [Txs -> [gas : Nat, debit : Nat, credit : Nat]]
  /\ GoodScan(scan)

\* The row comes first, then the debit, then the credit; what the scan is about to
\* post has not been posted.
BooksInv ==
  /\ \A t \in Txs : /\ posts[t].debit \in {0, 1} /\ posts[t].credit \in {0, 1}
                    /\ posts[t].credit = 1 => posts[t].debit = 1
                    /\ posts[t].debit = 1 => t \in rows
  /\ scan.pc = "debit" => This.tx \in rows /\ posts[This.tx].debit = 0
  /\ scan.pc = "credit" => posts[This.tx].debit = 1 /\ posts[This.tx].credit = 0

LEMMA TailEntries ==
  ASSUME NEW s \in Seq(Entries), s # <<>>
  PROVE  /\ Head(s) \in Entries /\ Tail(s) \in Seq(Entries)
         /\ EntriesOf(s) = {Head(s)} \cup EntriesOf(Tail(s))
         /\ TxsOf(s) = {Head(s).tx} \cup TxsOf(Tail(s))
<1>1. /\ Head(s) \in Entries /\ Tail(s) \in Seq(Entries) /\ Head(s) = s[1]
      /\ Len(Tail(s)) = Len(s) - 1 /\ Len(s) \in Nat /\ Len(s) >= 1
      /\ DOMAIN s = 1 .. Len(s) /\ DOMAIN Tail(s) = 1 .. (Len(s) - 1)
      /\ \A i \in 1 .. (Len(s) - 1) : Tail(s)[i] = s[i + 1]
  OBVIOUS
<1>2. ASSUME NEW j \in DOMAIN s, j # 1
      PROVE  j - 1 \in DOMAIN Tail(s) /\ Tail(s)[j - 1] = s[j]
  BY <1>1, <1>2
<1>3. \A j \in DOMAIN Tail(s) : j + 1 \in DOMAIN s /\ Tail(s)[j] = s[j + 1]
  BY <1>1
<1>4. 1 \in DOMAIN s
  BY <1>1
<1> DEFINE r == Tail(s)
<1> HIDE DEF r
<1>5. \A j \in DOMAIN s : j = 1 \/ \E i \in DOMAIN r : r[i] = s[j]
  BY <1>2 DEF r
<1>6. \A i \in DOMAIN r : \E j \in DOMAIN s : r[i] = s[j]
  BY <1>3 DEF r
<1>7. EntriesOf(s) = {s[1]} \cup EntriesOf(r)
  <2>1. \A e : e \in EntriesOf(s) <=> \E j \in DOMAIN s : e = s[j]
    BY DEF EntriesOf
  <2>2. \A e : e \in EntriesOf(r) <=> \E j \in DOMAIN r : e = r[j]
    BY DEF EntriesOf
  <2> QED BY <1>4, <1>5, <1>6, <2>1, <2>2
<1>8. TxsOf(s) = {s[1].tx} \cup TxsOf(r)
  <2>1. \A e : e \in TxsOf(s) <=> \E j \in DOMAIN s : e = s[j].tx
    BY DEF TxsOf
  <2>2. \A e : e \in TxsOf(r) <=> \E j \in DOMAIN r : e = r[j].tx
    BY DEF TxsOf
  <2> QED BY <1>4, <1>5, <1>6, <2>1, <2>2
<1> QED BY <1>1, <1>7, <1>8 DEF r

\* A block that is final is the same after any step.
LEMMA BlockStays ==
  ASSUME ChainInv, ChainInv', FinalStays, NEW n \in Int, n <= final
  PROVE  BlockAt(n)' = BlockAt(n)
<1>1. DOMAIN chain = 1 .. Len(chain) /\ DOMAIN chain' = 1 .. Len(chain') /\ final \in Nat
      /\ Len(chain) \in Nat /\ Len(chain') \in Nat
  BY DEF ChainInv
<1>2. CASE n \in 1 .. final
  BY <1>1, <1>2 DEF BlockAt, FinalStays, ChainInv
<1>3. CASE n < 1
  BY <1>1, <1>3 DEF BlockAt
<1> QED BY <1>1, <1>2, <1>3

LEMMA BlockAtType ==
  ASSUME ChainInv, NEW n \in Int
  PROVE  BlockAt(n) \in Seq(Entries)
BY DEF ChainInv, BlockAt

\* What the chain does leaves the scan as good as it was.
LEMMA ChainKeepsScan ==
  ASSUME ChainInv, ChainInv', FinalStays, NEW s, GoodScan(s)
  PROVE  GoodScan(s)'
<1>1. s \in ScanState /\ s.block \in Int /\ s.upto \in Int /\ final \in Nat /\ final' \in Nat
  BY DEF GoodScan, ScanState, ChainInv
<1>2. s.pc # "idle" => s.upto <= final'
  BY <1>1 DEF GoodScan, FinalStays
<1>3. s.pc \in Working => s.pc # "idle"
  BY DEF Working
<1>4. s.pc \in Working => BlockAt(s.block)' = BlockAt(s.block)
  BY <1>1, <1>3, BlockStays DEF GoodScan
<1> QED BY <1>1, <1>2, <1>4 DEF GoodScan

\* The next transaction of the block.
LEMMA NextTxGood ==
  ASSUME GoodScan(scan), scan.pc # "idle", NEW todo \in Seq(Entries),
         EntriesOf(todo) \subseteq EntriesOf(BlockAt(scan.block))
  PROVE  /\ GoodScan(NextTx(todo))
         /\ NextTx(todo).pc \in {"lock", "mark"} /\ NextTx(todo).todo = todo
         /\ NextTx(todo).block = scan.block /\ NextTx(todo).upto = scan.upto
         /\ NextTx(todo).k = 1 /\ (NextTx(todo).pc = "mark" <=> todo = <<>>)
<1> DEFINE s == NextTx(todo)
           pc == IF todo = <<>> THEN "mark" ELSE "lock"
<1>1. s = [scan EXCEPT !.todo = todo, !.k = 1, !.pc = pc]
  BY DEF NextTx
<1>2. scan \in ScanState /\ pc \in Steps /\ pc \in {"mark", "lock"}
      /\ (pc = "mark" <=> todo = <<>>)
  BY DEF GoodScan, Steps
<1> HIDE DEF pc
<1> DEFINE u == [scan EXCEPT !.todo = todo, !.k = 1, !.pc = pc]
<1>5. /\ u \in ScanState /\ u.pc = pc /\ u.todo = todo
      /\ u.block = scan.block /\ u.upto = scan.upto /\ u.k = 1
  <2>1. u.pc = pc
    BY <1>2 DEF ScanState
  <2>2. u.todo = todo /\ u.k = 1
    BY <1>2 DEF ScanState
  <2>3. u.block = scan.block /\ u.upto = scan.upto
    BY <1>2 DEF ScanState
  <2>5. 1 \in Nat \ {0}
    OBVIOUS
  <2>4. u \in ScanState
    BY <1>2, <2>5 DEF ScanState
  <2> QED BY <2>1, <2>2, <2>3, <2>4
<1> HIDE DEF s, u
<1>3. /\ s \in ScanState /\ s.pc = pc /\ s.todo = todo
      /\ s.block = scan.block /\ s.upto = scan.upto /\ s.k = 1
  BY <1>1, <1>5 DEF u
<1> HIDE DEF s
<1>4. GoodScan(s)
  BY <1>2, <1>3 DEF GoodScan, Working
<1> QED BY <1>2, <1>3, <1>4 DEF s

\* A step within the transaction at hand.
LEMMA PcGood ==
  ASSUME GoodScan(scan), scan.pc \in Working, NEW pc \in Working
  PROVE  /\ GoodScan([scan EXCEPT !.pc = pc])
         /\ [scan EXCEPT !.pc = pc].todo = scan.todo /\ [scan EXCEPT !.pc = pc].pc = pc
         /\ [scan EXCEPT !.pc = pc].block = scan.block /\ [scan EXCEPT !.pc = pc].k = scan.k
<1>1. scan \in ScanState /\ Working \subseteq Steps \ {"idle"}
  BY DEF GoodScan, Working, Steps
<1> DEFINE s == [scan EXCEPT !.pc = pc]
<1>2. /\ s \in ScanState /\ s.pc = pc /\ s.todo = scan.todo /\ s.block = scan.block
      /\ s.upto = scan.upto /\ s.k = scan.k
  BY <1>1 DEF ScanState
<1> HIDE DEF s
<1>3. GoodScan(s)
  BY <1>1, <1>2 DEF GoodScan
<1> QED BY <1>2, <1>3 DEF s

\* The next event of the transaction at hand.
LEMMA EventGood ==
  ASSUME GoodScan(scan), scan.pc \in Working
  PROVE  /\ GoodScan([scan EXCEPT !.k = @ + 1])
         /\ [scan EXCEPT !.k = @ + 1].todo = scan.todo /\ [scan EXCEPT !.k = @ + 1].pc = scan.pc
<1>1. scan \in ScanState /\ scan.k + 1 \in Nat \ {0}
  BY DEF GoodScan, ScanState
<1> DEFINE s == [scan EXCEPT !.k = @ + 1]
<1>2. /\ s \in ScanState /\ s.pc = scan.pc /\ s.todo = scan.todo /\ s.block = scan.block
      /\ s.upto = scan.upto
  BY <1>1 DEF ScanState
<1> HIDE DEF s
<1>3. GoodScan(s)
  BY <1>1, <1>2 DEF GoodScan
<1> QED BY <1>2, <1>3 DEF s

\* The transaction at hand is in a final block.
LEMMA AtHand ==
  ASSUME ChainInv, GoodScan(scan), scan.pc \in Working
  PROVE  /\ This.tx \in Txs /\ This.ok \in BOOLEAN
         /\ \E h \in 1 .. final : This.tx \in TxsOf(chain[h])
         /\ Tail(scan.todo) \in Seq(Entries)
         /\ EntriesOf(Tail(scan.todo)) \subseteq EntriesOf(BlockAt(scan.block))
<1>1. /\ scan \in ScanState /\ scan.todo # <<>> /\ scan.pc # "idle"
      /\ EntriesOf(scan.todo) \subseteq EntriesOf(BlockAt(scan.block))
      /\ scan.block <= scan.upto /\ scan.upto <= final
  BY DEF GoodScan, Working
<1>2. scan.todo \in Seq(Entries) /\ scan.block \in Int /\ scan.upto \in Int
  BY <1>1 DEF ScanState
<1>3. /\ Head(scan.todo) \in Entries /\ Tail(scan.todo) \in Seq(Entries)
      /\ EntriesOf(scan.todo) = {Head(scan.todo)} \cup EntriesOf(Tail(scan.todo))
  BY <1>1, <1>2, TailEntries
<1>4. Head(scan.todo) \in EntriesOf(BlockAt(scan.block))
  BY <1>1, <1>3
<1>5. scan.block \in DOMAIN chain /\ BlockAt(scan.block) = chain[scan.block]
  <2>1. CASE scan.block \notin DOMAIN chain
    <3>1. BlockAt(scan.block) = <<>>
      BY <2>1 DEF BlockAt
    <3>2. EntriesOf(BlockAt(scan.block)) = {}
      BY <3>1 DEF EntriesOf
    <3> QED BY <1>4, <3>2
  <2> QED BY <2>1 DEF BlockAt
<1>6. scan.block \in 1 .. final
  BY <1>1, <1>2, <1>5 DEF ChainInv
<1>7. This.tx \in TxsOf(chain[scan.block])
  BY <1>4, <1>5 DEF EntriesOf, TxsOf, This
<1> QED BY <1>1, <1>3, <1>6, <1>7 DEF This, Entries

-----------------------------------------------------------------------------
(* The books. *)

LedgerStep ==
  [Ledger!Next]_<<rows, [t \in Txs |-> posts[t].debit], [t \in Txs |-> posts[t].credit]>>

Postings == [gas : Nat, debit : Nat, credit : Nat]

\* One more posting of one kind.
LEMMA PostOne ==
  ASSUME NEW q \in Postings
  PROVE  /\ [q EXCEPT !.gas = @ + 1] = [gas |-> q.gas + 1, debit |-> q.debit, credit |-> q.credit]
         /\ [q EXCEPT !.debit = @ + 1] = [gas |-> q.gas, debit |-> q.debit + 1, credit |-> q.credit]
         /\ [q EXCEPT !.credit = @ + 1] = [gas |-> q.gas, debit |-> q.debit, credit |-> q.credit + 1]
         /\ q.gas + 1 \in Nat /\ q.debit + 1 \in Nat /\ q.credit + 1 \in Nat
BY DEF Postings

\* The account tables when one transaction t has the postings q.
LEMMA PostAt ==
  ASSUME ScanInv, NEW t \in Txs, NEW q \in Postings, posts' = [posts EXCEPT ![t] = q]
  PROVE  /\ posts' \in [Txs -> Postings] /\ posts'[t] = q
         /\ \A x \in Txs \ {t} : posts'[x] = posts[x]
BY DEF ScanInv, Postings

\* What a step of the scan may do to the books, as a step of the ledger: nothing,
\* a row, a debit, a credit.
LEMMA LedgerStays ==
  ASSUME rows' = rows,
         \A x \in Txs : posts'[x].debit = posts[x].debit /\ posts'[x].credit = posts[x].credit
  PROVE  LedgerStep
BY DEF LedgerStep

LEMMA LedgerClaims ==
  ASSUME NEW t \in Txs, t \notin rows, rows' = rows \cup {t}, posts' = posts
  PROVE  LedgerStep
<1>1. Ledger!Claim(t)
  BY DEF Ledger!Claim
<1> QED BY <1>1 DEF LedgerStep, Ledger!Next

LEMMA LedgerDebits ==
  ASSUME NEW t \in Txs, t \in rows, posts[t].debit = 0, rows' = rows,
         posts'[t].debit = 1, posts'[t].credit = posts[t].credit,
         \A x \in Txs \ {t} : posts'[x] = posts[x]
  PROVE  LedgerStep
<1> DEFINE d == [x \in Txs |-> posts[x].debit]
           c == [x \in Txs |-> posts[x].credit]
<1>1. d[t] = 0 /\ d' = [d EXCEPT ![t] = 1] /\ c' = c
  OBVIOUS
<1>2. Ledger!Debit(t)
  BY <1>1 DEF Ledger!Debit
<1> QED BY <1>2 DEF LedgerStep, Ledger!Next

LEMMA LedgerCredits ==
  ASSUME NEW t \in Txs, posts[t].debit = 1, posts[t].credit = 0, rows' = rows,
         posts'[t].credit = 1, posts'[t].debit = posts[t].debit,
         \A x \in Txs \ {t} : posts'[x] = posts[x]
  PROVE  LedgerStep
<1> DEFINE d == [x \in Txs |-> posts[x].debit]
           c == [x \in Txs |-> posts[x].credit]
<1>1. d[t] = 1 /\ c[t] = 0 /\ c' = [c EXCEPT ![t] = 1] /\ d' = d
  OBVIOUS
<1>2. Ledger!Credit(t)
  BY <1>1 DEF Ledger!Credit
<1> QED BY <1>2 DEF LedgerStep, Ledger!Next

\* The invariant of the scan, of the books and of where a row stems from.
BooksKept == BooksInv' /\ BookedIsFinal' /\ LedgerStep

\* A step that books nothing.
LEMMA BooksSame ==
  ASSUME ScanInv, BooksInv, BookedIsFinal, chain' = chain, final' = final, rows' = rows,
         \A x \in Txs : posts'[x].debit = posts[x].debit /\ posts'[x].credit = posts[x].credit,
         scan'.pc \notin {"debit", "credit"}
  PROVE  BooksKept
<1>1. BooksInv'
  BY DEF BooksInv
<1>2. BookedIsFinal'
  BY DEF BookedIsFinal, TxsOf
<1> QED BY <1>1, <1>2, LedgerStays DEF BooksKept

\* A step that makes the row of the transaction at hand.
LEMMA BooksClaim ==
  ASSUME ChainInv, ScanInv, BooksInv, BookedIsFinal, chain' = chain, final' = final,
         scan.pc = "record", This.tx \notin rows, rows' = rows \cup {This.tx}, posts' = posts,
         scan'.pc # "credit", scan'.pc = "debit" => scan'.todo = scan.todo
  PROVE  BooksKept
<1> DEFINE t == This.tx
<1>1. t \in Txs /\ \E h \in 1 .. final : t \in TxsOf(chain[h])
  BY AtHand DEF ScanInv, Working
<1>2. scan'.pc = "debit" => This'.tx = t
  BY DEF This
<1> HIDE DEF t
<1>3. t \notin rows /\ rows' = rows \cup {t}
  BY DEF t
<1>4. posts[t].debit = 0
  BY <1>1, <1>3 DEF BooksInv
<1>5. BooksInv'
  BY <1>2, <1>3, <1>4 DEF BooksInv
<1>6. BookedIsFinal'
  BY <1>1, <1>3 DEF BookedIsFinal, TxsOf
<1> QED BY <1>1, <1>3, <1>5, <1>6, LedgerClaims DEF BooksKept

\* A step that posts the debit of the transaction at hand.
LEMMA BooksDebit ==
  ASSUME ChainInv, ScanInv, BooksInv, BookedIsFinal, chain' = chain, final' = final,
         scan.pc = "debit", rows' = rows, posts' = [posts EXCEPT ![This.tx].debit = @ + 1],
         scan'.pc # "debit", scan'.pc = "credit" => scan'.todo = scan.todo
  PROVE  BooksKept /\ posts' \in [Txs -> Postings]
<1> DEFINE t == This.tx
           q == [posts[t] EXCEPT !.debit = @ + 1]
<1>1. t \in Txs /\ posts[t] \in Postings
  BY AtHand DEF ScanInv, Working, Postings
<1>2. scan'.pc = "credit" => This'.tx = t
  BY DEF This
<1>3. t \in rows /\ posts[t].debit = 0
  BY DEF BooksInv
<1>4. posts' = [posts EXCEPT ![t] = q]
  OBVIOUS
<1> HIDE DEF t
<1>5. q \in Postings /\ q.debit = 1 /\ q.credit = posts[t].credit
  <2>1. q = [gas |-> posts[t].gas, debit |-> posts[t].debit + 1, credit |-> posts[t].credit]
    BY <1>1, PostOne
  <2> HIDE DEF q
  <2> QED BY <1>1, <1>3, <2>1 DEF Postings
<1> HIDE DEF q
<1>6. posts' \in [Txs -> Postings] /\ posts'[t] = q /\ \A x \in Txs \ {t} : posts'[x] = posts[x]
  BY <1>1, <1>4, <1>5, PostAt
<1>7. posts[t].credit = 0
  BY <1>1, <1>3 DEF BooksInv
<1>8. BooksInv'
  BY <1>1, <1>2, <1>3, <1>5, <1>6, <1>7 DEF BooksInv
<1>9. BookedIsFinal'
  BY DEF BookedIsFinal, TxsOf
<1>10. LedgerStep
  BY <1>1, <1>3, <1>5, <1>6, LedgerDebits
<1> QED BY <1>6, <1>8, <1>9, <1>10 DEF BooksKept

\* A step that posts its credit.
LEMMA BooksCredit ==
  ASSUME ChainInv, ScanInv, BooksInv, BookedIsFinal, chain' = chain, final' = final,
         scan.pc = "credit", rows' = rows, posts' = [posts EXCEPT ![This.tx].credit = @ + 1],
         scan'.pc \notin {"debit", "credit"}
  PROVE  BooksKept /\ posts' \in [Txs -> Postings]
<1> DEFINE t == This.tx
           q == [posts[t] EXCEPT !.credit = @ + 1]
<1>1. t \in Txs /\ posts[t] \in Postings
  BY AtHand DEF ScanInv, Working, Postings
<1>2. posts[t].debit = 1 /\ posts[t].credit = 0
  BY DEF BooksInv
<1>3. posts' = [posts EXCEPT ![t] = q]
  OBVIOUS
<1> HIDE DEF t
<1>4. q \in Postings /\ q.credit = 1 /\ q.debit = posts[t].debit
  <2>1. q = [gas |-> posts[t].gas, debit |-> posts[t].debit, credit |-> posts[t].credit + 1]
    BY <1>1, PostOne
  <2> HIDE DEF q
  <2> QED BY <1>1, <1>2, <2>1 DEF Postings
<1> HIDE DEF q
<1>5. posts' \in [Txs -> Postings] /\ posts'[t] = q /\ \A x \in Txs \ {t} : posts'[x] = posts[x]
  BY <1>1, <1>3, <1>4, PostAt
<1>6. BooksInv'
  BY <1>1, <1>2, <1>4, <1>5 DEF BooksInv
<1>7. BookedIsFinal'
  BY DEF BookedIsFinal, TxsOf
<1>8. LedgerStep
  BY <1>1, <1>2, <1>4, <1>5, LedgerCredits
<1> QED BY <1>5, <1>6, <1>7, <1>8 DEF BooksKept

\* A step that posts its gas.
LEMMA BooksGas ==
  ASSUME ChainInv, ScanInv, BooksInv, BookedIsFinal, chain' = chain, final' = final,
         scan.pc = "gas", rows' = rows, posts' = [posts EXCEPT ![This.tx].gas = @ + 1],
         scan'.pc \notin {"debit", "credit"}
  PROVE  BooksKept /\ posts' \in [Txs -> Postings]
<1> DEFINE t == This.tx
           q == [posts[t] EXCEPT !.gas = @ + 1]
<1>1. t \in Txs /\ posts[t] \in Postings
  BY AtHand DEF ScanInv, Working, Postings
<1>2. posts' = [posts EXCEPT ![t] = q]
  OBVIOUS
<1> HIDE DEF t
<1>3. q \in Postings /\ q.credit = posts[t].credit /\ q.debit = posts[t].debit
  BY <1>1, PostOne DEF Postings
<1> HIDE DEF q
<1>4. posts' \in [Txs -> Postings] /\ posts'[t] = q /\ \A x \in Txs \ {t} : posts'[x] = posts[x]
  BY <1>1, <1>2, <1>3, PostAt
<1>5. \A x \in Txs : posts'[x].debit = posts[x].debit /\ posts'[x].credit = posts[x].credit
  BY <1>3, <1>4
<1> QED BY <1>4, <1>5, BooksSame

-----------------------------------------------------------------------------
(* The steps of the scan. *)

\* What a step of the scan has to leave behind for ScanInv.
LEMMA ScanKept ==
  ASSUME ScanInv, chain' = chain, final' = final, up' = up, copied' = copied, first' = first,
         NEW s, GoodScan(s), scan' = s,
         lastBlock' = lastBlock \/ lastBlock' = scan.block,
         locks' \subseteq Txs, rows' \subseteq Txs, hurt' \subseteq Txs,
         posts' \in [Txs -> Postings]
  PROVE  ScanInv'
<1>1. scan.block \in Int /\ scan.block # None
  BY ScanAssumption DEF ScanInv, GoodScan, ScanState
<1>2. GoodScan(scan)'
  BY DEF GoodScan, BlockAt
<1> QED BY <1>1, <1>2 DEF ScanInv, Postings

LEMMA IdleGood == GoodScan(Idle) /\ Idle.pc = "idle"
<1>1. Idle \in ScanState /\ Idle.pc = "idle"
  BY DEF Idle, ScanState, Steps
<1> QED BY <1>1 DEF GoodScan, Working

\* A round begins: it ends with a block that is final.
LEMMA RoundGood ==
  ASSUME ChainInv, ScanInv, up, lastBlock < ConfirmedBlock
  PROVE  LET s == [Idle EXCEPT !.pc = "block", !.block = lastBlock + 1, !.upto = ConfirmedBlock]
         IN  GoodScan(s) /\ s.pc = "block"
<1> DEFINE s == [Idle EXCEPT !.pc = "block", !.block = lastBlock + 1, !.upto = ConfirmedBlock]
<1>1. lastBlock \in Int /\ ConfirmedBlock \in Int /\ ConfirmedBlock <= final
  BY ScanAssumption, ChainAssumption DEF ScanInv, ChainInv, ConfirmedBlock, Height
<1>2. lastBlock + 1 \in Int /\ lastBlock + 1 <= ConfirmedBlock
  BY <1>1
<1>3. s.pc = "block" /\ s.block = lastBlock + 1 /\ s.upto = ConfirmedBlock
  BY DEF Idle
<1>4. s \in ScanState
  <2>1. Idle \in ScanState /\ "block" \in Steps
    BY IdleGood DEF GoodScan, Steps
  <2> QED BY <1>1, <1>2, <2>1 DEF ScanState
<1> HIDE DEF s
<1>5. GoodScan(s)
  BY <1>1, <1>2, <1>3, <1>4 DEF GoodScan, Working
<1> QED BY <1>3, <1>5 DEF s

\* The next block of the round.
LEMMA BlockGood ==
  ASSUME GoodScan(scan), scan.pc # "idle", scan.block < scan.upto
  PROVE  LET s == [scan EXCEPT !.pc = "block", !.block = @ + 1] IN GoodScan(s) /\ s.pc = "block"
<1> DEFINE s == [scan EXCEPT !.pc = "block", !.block = @ + 1]
<1>1. scan \in ScanState /\ scan.block + 1 \in Int /\ scan.block + 1 <= scan.upto
      /\ scan.upto <= final
  BY DEF GoodScan, ScanState
<1>2. s \in ScanState
  BY <1>1 DEF ScanState, Steps
<1>3. s.pc = "block" /\ s.block = scan.block + 1 /\ s.upto = scan.upto
  BY <1>1 DEF ScanState
<1> HIDE DEF s
<1>4. GoodScan(s)
  BY <1>1, <1>2, <1>3 DEF GoodScan, Working
<1> QED BY <1>3, <1>4 DEF s

\* Every step of the scan that meets no failure.
LEMMA ScanStepKeeps ==
  ASSUME ChainInv, ScanInv, BooksInv, BookedIsFinal, ScanStep
  PROVE  ScanInv' /\ BooksKept /\ UNCHANGED baseVars
<1>1. /\ GoodScan(scan) /\ posts \in [Txs -> Postings] /\ locks \subseteq Txs
      /\ rows \subseteq Txs /\ hurt \subseteq Txs
  BY DEF ScanInv, Postings
<1>2. scan.pc \in Working =>
        /\ This.tx \in Txs /\ Tail(scan.todo) \in Seq(Entries)
        /\ EntriesOf(Tail(scan.todo)) \subseteq EntriesOf(BlockAt(scan.block))
  BY <1>1, AtHand
<1>3. UNCHANGED baseVars /\ chain' = chain /\ final' = final /\ up' = up
  BY DEF ScanStep, ProcessBlocks, ProcessBlock, Lock, Gas, Record, Debit, Credit, Unlock, Mark,
         baseVars
<1>4. scan.pc \in Working \cup {"block"} => scan.block \in Int
  BY <1>1 DEF GoodScan, ScanState
<1>5. CASE ProcessBlocks
  <2>1. PICK s : /\ s = [Idle EXCEPT !.pc = "block", !.block = lastBlock + 1, !.upto = ConfirmedBlock]
                 /\ scan' = s
    BY <1>5 DEF ProcessBlocks
  <2>2. UNCHANGED <<lastBlock, locks, rows, posts, copied, first, hurt>>
    BY <1>5 DEF ProcessBlocks
  <2>3. GoodScan(s) /\ s.pc = "block"
    BY <1>5, <2>1, RoundGood DEF ProcessBlocks
  <2>4. ScanInv'
    BY <1>1, <1>3, <2>1, <2>2, <2>3, ScanKept
  <2> QED BY <1>3, <2>1, <2>2, <2>3, <2>4, BooksSame
<1>6. CASE ProcessBlock
  <2>1. PICK s : s = NextTx(BlockAt(scan.block)) /\ scan' = s
    BY <1>6 DEF ProcessBlock
  <2>2. scan.pc = "block" /\ UNCHANGED <<lastBlock, locks, rows, posts, copied, first, hurt>>
    BY <1>6 DEF ProcessBlock
  <2>3. BlockAt(scan.block) \in Seq(Entries)
    BY <1>4, <2>2, BlockAtType
  <2>4. GoodScan(s) /\ s.pc \in {"lock", "mark"}
    BY <1>1, <2>1, <2>2, <2>3, NextTxGood
  <2>5. ScanInv'
    BY <1>1, <1>3, <2>1, <2>2, <2>4, ScanKept
  <2> QED BY <1>3, <2>1, <2>2, <2>4, <2>5, BooksSame
<1>7. CASE Lock \/ Unlock
  <2>1. /\ scan.pc \in {"lock", "unlock"} /\ UNCHANGED <<lastBlock, rows, posts, copied, first, hurt>>
        /\ scan' = NextTx(Tail(scan.todo)) \/ scan' = [scan EXCEPT !.pc = "gas"]
        /\ locks' \in {locks, locks \cup {This.tx}, locks \ {This.tx}}
    BY <1>7 DEF Lock, Unlock
  <2>2. scan.pc \in Working /\ scan.pc # "idle" /\ "gas" \in Working
    BY <2>1 DEF Working
  <2>3. PICK s : /\ s = NextTx(Tail(scan.todo)) \/ s = [scan EXCEPT !.pc = "gas"]
                 /\ scan' = s
    BY <2>1
  <2>4. GoodScan(s) /\ s.pc \in {"lock", "mark", "gas"}
    <3>1. CASE s = NextTx(Tail(scan.todo))
      BY <1>1, <1>2, <2>2, <3>1, NextTxGood
    <3>2. CASE s = [scan EXCEPT !.pc = "gas"]
      BY <1>1, <2>2, <3>2, PcGood
    <3> QED BY <2>3, <3>1, <3>2
  <2>5. locks' \subseteq Txs
    BY <1>1, <1>2, <2>1, <2>2
  <2>6. ScanInv'
    BY <1>1, <1>3, <2>1, <2>3, <2>4, <2>5, ScanKept
  <2> QED BY <1>3, <2>1, <2>3, <2>4, <2>6, BooksSame
<1>8. CASE Gas
  <2>1. PICK pc \in {"unlock", "record"} : scan' = [scan EXCEPT !.pc = pc]
    BY <1>8 DEF Gas
  <2>2. /\ scan.pc = "gas" /\ UNCHANGED <<lastBlock, locks, rows, copied, first, hurt>>
        /\ posts' = posts \/ posts' = [posts EXCEPT ![This.tx].gas = @ + 1]
    BY <1>8 DEF Gas
  <2>3. scan.pc \in Working /\ pc \in Working
    BY <2>1, <2>2 DEF Working
  <2>4. PICK s : s = [scan EXCEPT !.pc = pc] /\ scan' = s
    BY <2>1
  <2>5. GoodScan(s) /\ s.pc = pc
    BY <1>1, <2>3, <2>4, PcGood
  <2>6. BooksKept /\ posts' \in [Txs -> Postings]
    <3>1. CASE posts' = posts
      BY <1>1, <1>3, <2>1, <2>2, <2>4, <2>5, <3>1, BooksSame
    <3>2. CASE posts' = [posts EXCEPT ![This.tx].gas = @ + 1]
      BY <1>1, <1>3, <2>1, <2>2, <2>4, <2>5, <3>2, BooksGas
    <3> QED BY <2>2, <3>1, <3>2
  <2>7. ScanInv'
    BY <1>1, <1>3, <2>2, <2>4, <2>5, <2>6, ScanKept
  <2> QED BY <1>3, <2>6, <2>7
<1>9. CASE Record
  <2>1. PICK pc \in {"unlock", "debit"} :
          /\ scan' = [scan EXCEPT !.pc = pc]
          /\ \/ This.tx \notin rows /\ rows' = rows \cup {This.tx}
             \/ pc = "unlock" /\ rows' = rows
    BY <1>9 DEF Record
  <2>2. scan.pc = "record" /\ UNCHANGED <<lastBlock, locks, posts, copied, first, hurt>>
    BY <1>9 DEF Record
  <2>3. scan.pc \in Working /\ pc \in Working
    BY <2>1, <2>2 DEF Working
  <2>4. PICK s : s = [scan EXCEPT !.pc = pc] /\ scan' = s
    BY <2>1
  <2>5. GoodScan(s) /\ s.pc = pc /\ s.todo = scan.todo
    BY <1>1, <2>3, <2>4, PcGood
  <2>6. BooksKept
    <3>1. CASE This.tx \notin rows /\ rows' = rows \cup {This.tx}
      BY <1>3, <2>1, <2>2, <2>4, <2>5, <3>1, BooksClaim
    <3>2. CASE pc = "unlock" /\ rows' = rows
      BY <1>3, <2>2, <2>4, <2>5, <3>2, BooksSame
    <3> QED BY <2>1, <3>1, <3>2
  <2>7. rows' \subseteq Txs
    BY <1>1, <1>2, <2>1, <2>3
  <2>8. ScanInv'
    BY <1>1, <1>3, <2>2, <2>4, <2>5, <2>7, ScanKept
  <2> QED BY <1>3, <2>6, <2>8
<1>10. CASE Debit
  <2>1. PICK s : s = [scan EXCEPT !.pc = "credit"] /\ scan' = s
    BY <1>10 DEF Debit
  <2>2. /\ scan.pc = "debit" /\ UNCHANGED <<lastBlock, locks, rows, copied, first, hurt>>
        /\ posts' = [posts EXCEPT ![This.tx].debit = @ + 1]
    BY <1>10 DEF Debit
  <2>3. scan.pc \in Working /\ "credit" \in Working
    BY <2>2 DEF Working
  <2>4. GoodScan(s) /\ s.pc = "credit" /\ s.todo = scan.todo
    BY <1>1, <2>1, <2>3, PcGood
  <2>5. BooksKept /\ posts' \in [Txs -> Postings]
    BY <1>3, <2>1, <2>2, <2>4, BooksDebit
  <2>6. ScanInv'
    BY <1>1, <1>3, <2>1, <2>2, <2>4, <2>5, ScanKept
  <2> QED BY <1>3, <2>5, <2>6
<1>11. CASE Credit
  <2>1. PICK s : s = [scan EXCEPT !.pc = "unlock"] /\ scan' = s
    BY <1>11 DEF Credit
  <2>2. /\ scan.pc = "credit" /\ UNCHANGED <<lastBlock, locks, rows, copied, first, hurt>>
        /\ posts' = [posts EXCEPT ![This.tx].credit = @ + 1]
    BY <1>11 DEF Credit
  <2>3. scan.pc \in Working /\ "unlock" \in Working
    BY <2>2 DEF Working
  <2>4. GoodScan(s) /\ s.pc = "unlock" /\ s.todo = scan.todo
    BY <1>1, <2>1, <2>3, PcGood
  <2>5. BooksKept /\ posts' \in [Txs -> Postings]
    BY <1>3, <2>1, <2>2, <2>4, BooksCredit
  <2>6. ScanInv'
    BY <1>1, <1>3, <2>1, <2>2, <2>4, <2>5, ScanKept
  <2> QED BY <1>3, <2>5, <2>6
<1>12. CASE Mark
  <2>1. /\ scan.pc = "mark" /\ lastBlock' = scan.block
        /\ UNCHANGED <<locks, rows, posts, copied, first, hurt>>
    BY <1>12 DEF Mark
  <2>2. PICK s : /\ scan' = s
                 /\ \/ scan.block < scan.upto /\ s = [scan EXCEPT !.pc = "block", !.block = @ + 1]
                    \/ s = Idle
    BY <1>12 DEF Mark
  <2>3. GoodScan(s) /\ s.pc \in {"idle", "block"}
    BY <1>1, <2>1, <2>2, BlockGood, IdleGood
  <2>4. ScanInv'
    BY <1>1, <1>3, <2>1, <2>2, <2>3, ScanKept
  <2> QED BY <1>3, <2>1, <2>2, <2>3, <2>4, BooksSame
<1> QED BY <1>5, <1>6, <1>7, <1>8, <1>9, <1>10, <1>11, <1>12 DEF ScanStep

\* A call of the scan fails.
LEMMA ScanFailsKeeps ==
  ASSUME ChainInv, ScanInv, BooksInv, BookedIsFinal, ScanFails
  PROVE  ScanInv' /\ BooksKept /\ ChainInv' /\ FinalStays
<1>1. /\ GoodScan(scan) /\ posts \in [Txs -> Postings] /\ locks \subseteq Txs
      /\ rows \subseteq Txs /\ hurt \subseteq Txs /\ scan \in ScanState /\ scan.pc \in Steps
  BY DEF ScanInv, Postings, GoodScan, ScanState
<1>2. scan.pc \in Working =>
        /\ This.tx \in Txs /\ Tail(scan.todo) \in Seq(Entries)
        /\ EntriesOf(Tail(scan.todo)) \subseteq EntriesOf(BlockAt(scan.block))
        /\ scan.todo \in Seq(Entries) /\ scan.todo # <<>>
  BY <1>1, AtHand DEF GoodScan, ScanState
<1>3. /\ UNCHANGED <<chain, mempool, final, reorgs, up, crashes, copied, first>> /\ Fault
      /\ scan.pc # "idle" /\ scan' = AfterFault /\ hurt' = hurt \cup Abandoned
  BY DEF ScanFails, chainVars
<1>4. PICK done \in BOOLEAN :
        /\ rows' = IF done /\ scan.pc = "record" /\ BothKnown(TransfersOf(This.tx)[scan.k])
                   THEN rows \cup {This.tx} ELSE rows
        /\ posts' = IF \/ done /\ scan.pc \in {"debit", "credit"}
                       \/ done /\ scan.pc = "gas" /\ Info(This.tx).from \in Accounts
                    THEN [posts EXCEPT ![This.tx][scan.pc] = @ + 1] ELSE posts
        /\ locks' = CASE done /\ scan.pc = "lock"   -> locks \cup {This.tx}
                      [] done /\ scan.pc = "unlock" -> locks \ {This.tx}
                      [] OTHER                      -> locks
        /\ lastBlock' = IF done /\ scan.pc = "mark" THEN scan.block ELSE lastBlock
  BY DEF ScanFails
<1>5. ChainInv' /\ FinalStays
  BY <1>3 DEF ChainInv, FinalStays, Fault
<1>6. PICK s : s = AfterFault /\ scan' = s
  BY <1>3
<1>7. GoodScan(s) /\ s.pc \in {"mark", "record", "idle", "unlock"}
  <2>1. CASE scan.pc \in {"block", "lock", "unlock"}
    <3>1. s = NextTx(<<>>)
      BY <1>6, <2>1 DEF AfterFault
    <3>2. <<>> \in Seq(Entries) /\ EntriesOf(<<>>) = {}
      BY DEF EntriesOf
    <3> QED BY <1>1, <1>3, <3>1, <3>2, NextTxGood
  <2>2. CASE scan.pc = "record" /\ scan.k < Len(TransfersOf(This.tx))
    <3>1. s = [scan EXCEPT !.k = @ + 1]
      BY <1>6, <2>2 DEF AfterFault
    <3> QED BY <1>1, <2>2, <3>1, EventGood DEF Working
  <2>3. CASE scan.pc = "mark"
    BY <1>6, <2>3, IdleGood DEF AfterFault
  <2>4. CASE /\ scan.pc \in {"gas", "record", "debit", "credit"}
             /\ ~(scan.pc = "record" /\ scan.k < Len(TransfersOf(This.tx)))
    <3>1. s = [scan EXCEPT !.pc = "unlock"]
      BY <1>6, <2>4 DEF AfterFault
    <3>2. scan.pc \in Working /\ "unlock" \in Working
      BY <2>4 DEF Working
    <3> QED BY <1>1, <3>1, <3>2, PcGood
  <2> QED BY <1>1, <1>3, <2>1, <2>2, <2>3, <2>4 DEF Steps
<1>8. hurt' \subseteq Txs
  <2>1. ASSUME NEW b \in Seq(Entries) PROVE TxsOf(b) \subseteq Txs
    BY <2>1, TxsType
  <2>2. Abandoned \subseteq Txs
    <3>1. CASE scan.pc = "block"
      <4>1. Abandoned = TxsOf(BlockAt(scan.block)) /\ scan.block \in Int
        BY <1>1, <3>1 DEF Abandoned, ScanState
      <4> QED BY <2>1, <4>1, BlockAtType
    <3>2. CASE scan.pc \in {"lock", "unlock"}
      <4>1. Abandoned \in {TxsOf(scan.todo), TxsOf(Tail(scan.todo))} /\ scan.pc \in Working
        BY <3>2 DEF Abandoned, Working
      <4> QED BY <1>2, <2>1, <4>1
    <3>3. CASE scan.pc = "mark"
      BY <3>3 DEF Abandoned
    <3>4. CASE scan.pc \in {"gas", "record", "debit", "credit"}
      <4>1. Abandoned = {This.tx} /\ scan.pc \in Working
        BY <3>4 DEF Abandoned, Working
      <4> QED BY <1>2, <4>1
    <3> QED BY <1>1, <1>3, <3>1, <3>2, <3>3, <3>4 DEF Steps
  <2> QED BY <1>1, <1>3, <2>2
<1>9. locks' \subseteq Txs
  BY <1>1, <1>2, <1>4 DEF Working
<1>10. BooksKept /\ posts' \in [Txs -> Postings] /\ rows' \subseteq Txs
  <2>1. CASE rows' # rows
    <3>1. scan.pc = "record" /\ rows' = rows \cup {This.tx} /\ This.tx \notin rows /\ posts' = posts
      BY <1>4, <2>1
    <3>2. BooksKept
      BY <1>3, <1>6, <1>7, <3>1, BooksClaim
    <3> QED BY <1>1, <1>2, <3>1, <3>2 DEF Working
  <2>2. CASE rows' = rows /\ posts' = posts
    BY <1>1, <1>3, <1>6, <1>7, <2>2, BooksSame
  <2>3. CASE rows' = rows /\ posts' # posts
    <3>1. /\ posts' = [posts EXCEPT ![This.tx][scan.pc] = @ + 1]
          /\ scan.pc \in {"debit", "credit", "gas"}
      BY <1>4, <2>3
    <3>2. CASE scan.pc = "debit"
      <4>1. posts' = [posts EXCEPT ![This.tx].debit = @ + 1]
        BY <3>1, <3>2
      <4> QED BY <1>1, <1>3, <1>6, <1>7, <2>3, <3>2, <4>1, BooksDebit
    <3>3. CASE scan.pc = "credit"
      <4>1. posts' = [posts EXCEPT ![This.tx].credit = @ + 1]
        BY <3>1, <3>3
      <4> QED BY <1>1, <1>3, <1>6, <1>7, <2>3, <3>3, <4>1, BooksCredit
    <3>4. CASE scan.pc = "gas"
      <4>1. posts' = [posts EXCEPT ![This.tx].gas = @ + 1]
        BY <3>1, <3>4
      <4> QED BY <1>1, <1>3, <1>6, <1>7, <2>3, <3>4, <4>1, BooksGas
    <3> QED BY <3>1, <3>2, <3>3, <3>4
  <2> QED BY <2>1, <2>2, <2>3
<1>11. lastBlock' = lastBlock \/ lastBlock' = scan.block
  BY <1>4
<1>12. ScanInv'
  BY <1>3, <1>6, <1>7, <1>8, <1>9, <1>10, <1>11, ScanKept
<1> QED BY <1>5, <1>10, <1>12

LEMMA LockExpiresKeeps ==
  ASSUME ChainInv, ScanInv, BooksInv, BookedIsFinal, LockExpires
  PROVE  ScanInv' /\ BooksKept /\ UNCHANGED baseVars
<1>1. /\ UNCHANGED <<chain, final, up, lastBlock, rows, posts, copied, scan, first, hurt>>
      /\ locks' \subseteq locks /\ UNCHANGED baseVars
  BY DEF LockExpires, baseVars
<1>2. ScanInv'
  BY <1>1 DEF ScanInv, GoodScan, BlockAt
<1>3. BooksInv'
  BY <1>1 DEF BooksInv, This
<1>4. BookedIsFinal' /\ LedgerStep
  BY <1>1, LedgerStays DEF BookedIsFinal, TxsOf
<1> QED BY <1>1, <1>2, <1>3, <1>4 DEF BooksKept

\* What the rest of the system does, on the chain or to the withdrawals, leaves the
\* books alone, and so do a start and a crash.
LEMMA OthersKeep ==
  ASSUME ChainInv, ChainInv', FinalStays, ScanInv, BooksInv, BookedIsFinal, up' = up,
         UNCHANGED scanVars
  PROVE  ScanInv' /\ BooksKept
<1>1. UNCHANGED <<lastBlock, locks, rows, posts, copied, scan, first, hurt>>
  BY DEF scanVars
<1>2. GoodScan(scan)'
  <2>1. PICK s : s = scan
    OBVIOUS
  <2>2. GoodScan(s)'
    BY <2>1, ChainKeepsScan DEF ScanInv
  <2> QED BY <1>1, <2>1, <2>2 DEF GoodScan, BlockAt
<1>3. ScanInv'
  BY <1>1, <1>2 DEF ScanInv
<1>4. BooksInv'
  BY <1>1 DEF BooksInv, This
<1>5. BookedIsFinal'
  <2> SUFFICES ASSUME NEW t \in rows PROVE \E h \in 1 .. final' : t \in TxsOf(chain'[h])
    BY <1>1 DEF BookedIsFinal, TxsOf
  <2>1. PICK h \in 1 .. final : t \in TxsOf(chain[h])
    BY DEF BookedIsFinal
  <2>2. h \in 1 .. final' /\ chain'[h] = chain[h]
    BY DEF FinalStays, ChainInv
  <2> QED BY <2>1, <2>2
<1> QED BY <1>1, <1>3, <1>4, <1>5, LedgerStays DEF BooksKept

LEMMA StartKeeps ==
  ASSUME ChainInv, ScanInv, BooksInv, BookedIsFinal, Start
  PROVE  ScanInv' /\ BooksKept /\ ChainInv' /\ FinalStays
<1>1. /\ UNCHANGED <<chain, mempool, final, reorgs, crashes, faults, locks, rows, posts, hurt>>
      /\ up' = TRUE /\ scan' = Idle
  BY DEF Start, ScanStart, chainVars
<1>2. /\ lastBlock' = IF lastBlock = None THEN Height - Lookback ELSE lastBlock
      /\ first' = IF first = None THEN Height - Lookback ELSE first
      /\ copied' = UNION {TxsOf(chain[h]) : h \in 1 .. Height}
  BY DEF Start, ScanStart
<1>3. Height - Lookback \in Int
  BY ScanAssumption DEF ChainInv, Height
<1>4. copied' \subseteq Txs
  <2>1. \A h \in 1 .. Height : TxsOf(chain[h]) \subseteq Txs
    BY TxsType DEF ChainInv, Height
  <2> QED BY <1>2, <2>1
<1>5. GoodScan(scan)'
  BY <1>1, IdleGood DEF GoodScan, Working
<1>6. ScanInv'
  BY <1>1, <1>2, <1>3, <1>4, <1>5, ScanAssumption DEF ScanInv
<1>7. BooksKept
  BY <1>1, BooksSame, IdleGood
<1>8. ChainInv' /\ FinalStays
  BY <1>1 DEF ChainInv, FinalStays
<1> QED BY <1>6, <1>7, <1>8

LEMMA CrashKeeps ==
  ASSUME ChainInv, ScanInv, BooksInv, BookedIsFinal, Crash
  PROVE  ScanInv' /\ BooksKept /\ ChainInv' /\ FinalStays
<1>1. /\ UNCHANGED <<chain, mempool, final, reorgs, faults, lastBlock, locks, rows, posts, copied, first>>
      /\ up' = FALSE /\ scan' = Idle /\ crashes' = crashes + 1
      /\ hurt' = IF scan.pc \in {"gas", "record", "debit", "credit", "unlock"}
                 THEN hurt \cup {This.tx} ELSE hurt
  BY DEF Crash, ScanCrash, chainVars
<1>2. hurt' \subseteq Txs
  BY <1>1, AtHand DEF ScanInv, Working
<1>3. GoodScan(scan)'
  BY <1>1, IdleGood DEF GoodScan, Working
<1>4. ScanInv'
  BY <1>1, <1>2, <1>3 DEF ScanInv
<1>5. BooksKept
  BY <1>1, BooksSame, IdleGood
<1>6. ChainInv' /\ FinalStays
  <2>1. crashes' \in Nat
    BY <1>1 DEF ChainInv
  <2>2. up' \in BOOLEAN
    BY <1>1, Zenon
  <2>3. ChainInv'
    BY <1>1, <2>1, <2>2 DEF ChainInv
  <2> QED BY <1>1, <2>3 DEF ChainInv, FinalStays
<1> QED BY <1>4, <1>5, <1>6

-----------------------------------------------------------------------------
(* blockchain-parser as a whole. *)

\* The inductive invariant.
Inv == ChainInv /\ PayInv /\ ScanInv /\ BooksInv /\ BookedIsFinal

LEMMA InitInv == Init => Inv
<1> SUFFICES ASSUME Init PROVE Inv
  OBVIOUS
<1>1. Lookback \in Nat /\ Finality \in Nat
  BY ScanAssumption, ChainAssumption
<1>2. ChainInv
  <2>1. chain \in Seq(Seq(Entries)) /\ Len(chain) = Lookback
    <3>1. chain \in [1 .. Lookback -> Seq(Entries)]
      BY DEF Init
    <3> QED BY <1>1, <3>1
  <2>2. up \in BOOLEAN
    BY Zenon DEF Init
  <2>3. mempool \subseteq Txs
    BY DEF Init, Txs
  <2>4. /\ final \in Nat /\ final <= Len(chain) /\ Len(chain) - Finality <= final
        /\ reorgs \in Nat /\ crashes \in Nat /\ faults \in Nat
    BY <1>1, <2>1 DEF Init
  <2> QED BY <2>1, <2>2, <2>3, <2>4 DEF ChainInv
<1>3. PayInv
  <2>1. MaxPays \in Nat
    BY ChainAssumption
  <2>2. wrow \in [Withdrawals -> [status : Statuses, tx : Hashes]]
    BY DEF Init, PayInit, Statuses, Hashes
  <2>3. tick = [k \in Ticks |-> NoTick]
    BY DEF Init, PayInit
  <2>4. tick \in [Ticks -> TickState] /\ \A k \in Ticks : tick[k].pc = "idle"
    BY <2>3, NoTickType
  <2>5. /\ paid \in [Withdrawals -> 0 .. MaxPays]
        /\ paidNow \in [Withdrawals -> Nat] /\ refunds \in [Withdrawals -> Nat]
    BY <2>1 DEF Init, PayInit
  <2> QED BY <2>2, <2>4, <2>5 DEF PayInv
<1>4. /\ lastBlock = None /\ first = None /\ locks = {} /\ rows = {} /\ copied = {} /\ hurt = {}
      /\ posts = [t \in Txs |-> NoPosts] /\ scan = Idle /\ ~up
  BY DEF Init, ScanInit
<1>5. ScanInv
  BY <1>4, IdleGood DEF ScanInv, NoPosts
<1>6. BooksInv
  BY <1>4, IdleGood DEF BooksInv, NoPosts
<1>7. BookedIsFinal
  BY <1>4 DEF BookedIsFinal
<1> QED BY <1>2, <1>3, <1>5, <1>6, <1>7 DEF Inv

LEMMA PaySame == ASSUME PayInv, UNCHANGED payVars PROVE PayInv'
BY DEF PayInv, payVars

LEMMA NextKeeps ==
  ASSUME Inv, [Next]_vars
  PROVE  Inv' /\ LedgerStep
<1>1. ChainInv /\ PayInv /\ ScanInv /\ BooksInv /\ BookedIsFinal
  BY DEF Inv
<1>2. CASE (Mine \/ Reorg) /\ UNCHANGED <<scanVars, payVars>>
  <2>1. ChainInv' /\ FinalStays
    BY <1>1, <1>2, MineChain, ReorgChain
  <2>2. up' = up /\ UNCHANGED scanVars /\ UNCHANGED payVars
    BY <1>2 DEF Mine, Reorg
  <2> QED BY <1>1, <2>1, <2>2, OthersKeep, PaySame DEF Inv, BooksKept
<1>3. CASE ScanNext /\ UNCHANGED payVars
  <2>1. CASE ScanStep
    <3>1. ScanInv' /\ BooksKept /\ UNCHANGED baseVars
      BY <1>1, <2>1, ScanStepKeeps
    <3>2. ChainInv'
      BY <1>1, <3>1 DEF ChainInv, baseVars
    <3> QED BY <1>1, <1>3, <3>1, <3>2, PaySame DEF Inv, BooksKept
  <2>2. CASE ScanFails
    BY <1>1, <1>3, <2>2, ScanFailsKeeps, PaySame DEF Inv, BooksKept
  <2>3. CASE LockExpires
    <3>1. ScanInv' /\ BooksKept /\ UNCHANGED baseVars
      BY <1>1, <2>3, LockExpiresKeeps
    <3>2. ChainInv'
      BY <1>1, <3>1 DEF ChainInv, baseVars
    <3> QED BY <1>1, <1>3, <3>1, <3>2, PaySame DEF Inv, BooksKept
  <2> QED BY <1>3, <2>1, <2>2, <2>3 DEF ScanNext
<1>4. CASE PayNext /\ UNCHANGED scanVars
  <2>1. PICK k \in Ticks : TickStep(k)
    BY <1>4 DEF PayNext
  <2>2. PayInv' /\ ChainInv' /\ FinalStays
    BY <1>1, <2>1, PayStep
  <2>3. up' = up
    BY <2>1 DEF TickStep, FindPending, MarkOne, Pay, SaveHash, Monitor, Refund, SaveFailed, baseVars
  <2> QED BY <1>1, <1>4, <2>2, <2>3, OthersKeep DEF Inv, BooksKept
<1>5. CASE Start
  <2>1. PayInv'
    <3>1. /\ wrow' = [w \in Withdrawals |-> [wrow[w] EXCEPT !.status = "init"]]
          /\ paidNow' = [w \in Withdrawals |-> 0] /\ UNCHANGED <<tick, paid, refunds>>
      BY <1>5 DEF Start, PayStart
    <3>2. wrow' \in [Withdrawals -> [status : Statuses, tx : Hashes]]
      BY <1>1, <3>1 DEF PayInv, Statuses
    <3> QED BY <1>1, <3>1, <3>2 DEF PayInv
  <2> QED BY <1>1, <1>5, <2>1, StartKeeps DEF Inv, BooksKept
<1>6. CASE Crash
  <2>1. PayInv'
    <3>1. tick' = [k \in Ticks |-> NoTick] /\ UNCHANGED <<wrow, paid, paidNow, refunds>>
      BY <1>6 DEF Crash, PayCrash
    <3>2. tick' \in [Ticks -> TickState] /\ \A k \in Ticks : tick'[k].pc = "idle"
      BY <3>1, NoTickType
    <3> QED BY <1>1, <3>1, <3>2 DEF PayInv
  <2> QED BY <1>1, <1>6, <2>1, CrashKeeps DEF Inv, BooksKept
<1>7. CASE UNCHANGED vars
  <2>1. UNCHANGED baseVars /\ UNCHANGED scanVars /\ UNCHANGED payVars
    BY <1>7 DEF vars
  <2>2. ChainInv' /\ FinalStays /\ up' = up
    BY <1>1, <2>1 DEF ChainInv, FinalStays, baseVars
  <2> QED BY <1>1, <2>1, <2>2, OthersKeep, PaySame DEF Inv, BooksKept
<1> QED BY <1>2, <1>3, <1>4, <1>5, <1>6, <1>7 DEF Next

\* Every row stems from a block that is never replaced, whatever the chain does
\* while processBlocks is under way: the last block of a round is fixed when it
\* begins, ConfirmationBlocks below the head, and the head is never more than
\* Finality blocks above what is final.
THEOREM OnlyFinalIsBooked == Spec => []BookedIsFinal
<1>1. Inv /\ [Next]_vars => Inv'
  BY NextKeeps
<1>2. Inv => BookedIsFinal
  BY DEF Inv
<1> QED BY InitInv, <1>1, <1>2, PTL DEF Spec

\* Every step of the service is a step of TransferLedger or leaves the books alone:
\* row, debit and credit of a transaction come in this order and at most once, over
\* all failed calls, crashes and restarts.
THEOREM BookedOnce == Spec => BooksOnce
<1>1. Init => Ledger!Init
  <2> SUFFICES ASSUME Init PROVE Ledger!Init
    OBVIOUS
  <2>1. rows = {} /\ posts = [t \in Txs |-> NoPosts]
    BY DEF Init, ScanInit
  <2> QED BY <2>1 DEF Ledger!Init, NoPosts
<1>2. Inv /\ [Next]_vars => Inv' /\ LedgerStep
  BY NextKeeps
<1> QED BY InitInv, <1>1, <1>2, PTL DEF Spec, BooksOnce, Ledger!Spec, LedgerStep

-----------------------------------------------------------------------------
(* A transaction is in one place. *)

At(c, t, h, i) == h \in DOMAIN c /\ i \in DOMAIN c[h] /\ c[h][i].tx = t

\* A transaction is at one place of the chain c or waits for one in m, and the numbers
\* of the payments sent are the ones given out.
Once(c, m, pays) ==
  /\ \A g, h \in DOMAIN c : \A i \in DOMAIN c[g], j \in DOMAIN c[h] :
       c[g][i].tx = c[h][j].tx => g = h /\ i = j
  /\ \A h \in DOMAIN c : \A i \in DOMAIN c[h] : c[h][i].tx \notin m
  /\ \A p \in m \cap Payments : p[2] <= pays[p[1]]
  /\ \A h \in DOMAIN c : \A i \in DOMAIN c[h] :
       LET p == c[h][i].tx IN p \in Payments => p[2] <= pays[p[1]]

OnceInv == Once(chain, mempool, paid)

LEMMA OnceAt ==
  ASSUME NEW c, NEW m, NEW pays
  PROVE  Once(c, m, pays) <=>
           /\ \A t, g, h, i, j : At(c, t, g, i) /\ At(c, t, h, j) => g = h /\ i = j
           /\ \A t, h, i : At(c, t, h, i) => t \notin m
           /\ \A p \in Payments : p \in m \/ (\E h, i : At(c, p, h, i)) => p[2] <= pays[p[1]]
<1>1. ASSUME Once(c, m, pays)
      PROVE  /\ \A t, g, h, i, j : At(c, t, g, i) /\ At(c, t, h, j) => g = h /\ i = j
             /\ \A t, h, i : At(c, t, h, i) => t \notin m
             /\ \A p \in Payments : p \in m \/ (\E h, i : At(c, p, h, i)) => p[2] <= pays[p[1]]
  <2>1. ASSUME NEW t, NEW g, NEW h, NEW i, NEW j, At(c, t, g, i), At(c, t, h, j)
        PROVE  g = h /\ i = j
    BY <1>1, <2>1 DEF Once, At
  <2>2. ASSUME NEW t, NEW h, NEW i, At(c, t, h, i) PROVE t \notin m
    BY <1>1, <2>2 DEF Once, At
  <2>3. ASSUME NEW p \in Payments, p \in m \/ \E h, i : At(c, p, h, i)
        PROVE  p[2] <= pays[p[1]]
    BY <1>1, <2>3 DEF Once, At
  <2> QED BY <2>1, <2>2, <2>3
<1>2. ASSUME \A t, g, h, i, j : At(c, t, g, i) /\ At(c, t, h, j) => g = h /\ i = j,
             \A t, h, i : At(c, t, h, i) => t \notin m,
             \A p \in Payments : p \in m \/ (\E h, i : At(c, p, h, i)) => p[2] <= pays[p[1]]
      PROVE  Once(c, m, pays)
  <2>1. \A h \in DOMAIN c : \A i \in DOMAIN c[h] : At(c, c[h][i].tx, h, i)
    BY DEF At
  <2>2. \A g, h \in DOMAIN c : \A i \in DOMAIN c[g], j \in DOMAIN c[h] :
          c[g][i].tx = c[h][j].tx => g = h /\ i = j
    BY <1>2, <2>1
  <2>3. \A h \in DOMAIN c : \A i \in DOMAIN c[h] : c[h][i].tx \notin m
    BY <1>2, <2>1
  <2>4. \A h \in DOMAIN c : \A i \in DOMAIN c[h] :
          c[h][i].tx \in Payments => c[h][i].tx[2] <= pays[c[h][i].tx[1]]
    BY <1>2, <2>1
  <2> QED BY <1>2, <2>2, <2>3, <2>4 DEF Once
<1> QED BY <1>1, <1>2

\* The transactions of a new block waited, and are told apart.
LEMMA BlockOnce ==
  ASSUME NEW S, NEW b \in Blocks(S)
  PROVE  /\ \A i \in DOMAIN b : b[i].tx \in S
         /\ \A i, j \in DOMAIN b : b[i].tx = b[j].tx => i = j
<1>1. PICK n \in 0 .. BlockSize :
        /\ b \in [1 .. n -> [tx : S, ok : BOOLEAN]]
        /\ \A i, j \in 1 .. n : i # j => b[i].tx # b[j].tx
  BY DEF Blocks
<1> QED BY <1>1

LEMMA MineOnce ==
  ASSUME ChainInv, OnceInv, Mine, paid' = paid
  PROVE  OnceInv'
<1>1. PICK b \in Blocks(mempool) : chain' = Append(chain, b) /\ mempool' = mempool \ TxsOf(b)
  BY DEF Mine
<1>2. b \in Seq(Entries)
  BY BlockType DEF ChainInv
<1> DEFINE n == Len(chain) + 1
<1>3. /\ chain' \in Seq(Seq(Entries)) /\ n \in Nat /\ chain'[n] = b /\ n \notin DOMAIN chain
      /\ DOMAIN chain' = DOMAIN chain \cup {n}
      /\ \A h \in DOMAIN chain : chain'[h] = chain[h]
  BY <1>1, <1>2 DEF ChainInv
<1> HIDE DEF n
<1>4. ASSUME NEW t, NEW h, NEW i, At(chain', t, h, i)
      PROVE  \/ At(chain, t, h, i) /\ h # n
             \/ h = n /\ i \in DOMAIN b /\ b[i].tx = t /\ t \in mempool
  BY <1>1, <1>3, <1>4, BlockOnce DEF At
<1>5. ASSUME NEW t, NEW g, NEW h, NEW i, NEW j, At(chain', t, g, i), At(chain', t, h, j)
      PROVE  g = h /\ i = j
  BY <1>1, <1>4, <1>5, OnceAt, BlockOnce DEF OnceInv
<1>6. ASSUME NEW t, NEW h, NEW i, At(chain', t, h, i) PROVE t \notin mempool'
  BY <1>1, <1>4, <1>6, OnceAt DEF OnceInv, TxsOf
<1>7. ASSUME NEW p \in Payments, p \in mempool' \/ \E h, i : At(chain', p, h, i)
      PROVE  p[2] <= paid'[p[1]]
  BY <1>1, <1>4, <1>7, OnceAt DEF OnceInv
<1>8. Once(chain', mempool', paid')
  BY <1>5, <1>6, <1>7, OnceAt
<1> QED BY <1>8 DEF OnceInv, Once

LEMMA ReorgOnce ==
  ASSUME ChainInv, OnceInv, Reorg, paid' = paid
  PROVE  OnceInv'
<1>1. PICK n \in final .. (Height - 1) :
        /\ chain' = SubSeq(chain, 1, n)
        /\ mempool' = mempool \cup UNION {TxsOf(chain[i]) : i \in (n + 1) .. Height}
  BY DEF Reorg
<1>2. /\ n \in Nat /\ n < Len(chain) /\ Len(chain) \in Nat /\ DOMAIN chain = 1 .. Len(chain)
      /\ Height = Len(chain)
  BY DEF ChainInv, Height
<1>3. DOMAIN chain' = 1 .. n /\ \A h \in 1 .. n : chain'[h] = chain[h] /\ h \in DOMAIN chain
  BY <1>1, <1>2 DEF ChainInv
<1>4. ASSUME NEW t, NEW h, NEW i, At(chain', t, h, i)
      PROVE  At(chain, t, h, i) /\ h \in 1 .. n
  BY <1>3, <1>4 DEF At
<1>5. ASSUME NEW t \in mempool'
      PROVE  t \in mempool \/ \E h, i : At(chain, t, h, i) /\ h \notin 1 .. n
  <2>1. CASE t \notin mempool
    <3>1. PICK h \in (n + 1) .. Height : t \in TxsOf(chain[h])
      BY <1>1, <2>1
    <3>2. PICK i \in DOMAIN chain[h] : chain[h][i].tx = t
      BY <3>1 DEF TxsOf
    <3>3. h \in DOMAIN chain /\ h \notin 1 .. n
      BY <1>2, <3>1
    <3> QED BY <3>2, <3>3 DEF At
  <2> QED BY <2>1
<1>6. ASSUME NEW t, NEW g, NEW h, NEW i, NEW j, At(chain', t, g, i), At(chain', t, h, j)
      PROVE  g = h /\ i = j
  BY <1>4, <1>6, OnceAt DEF OnceInv
<1>7. ASSUME NEW t, NEW h, NEW i, At(chain', t, h, i) PROVE t \notin mempool'
  BY <1>4, <1>5, <1>7, OnceAt DEF OnceInv
<1>8. ASSUME NEW p \in Payments, p \in mempool' \/ \E h, i : At(chain', p, h, i)
      PROVE  p[2] <= paid'[p[1]]
  BY <1>4, <1>5, <1>8, OnceAt DEF OnceInv
<1>9. Once(chain', mempool', paid')
  BY <1>6, <1>7, <1>8, OnceAt
<1> QED BY <1>9 DEF OnceInv, Once

\* A payment is a new transaction.
LEMMA SendOnce ==
  ASSUME PayInv, OnceInv, NEW w \in Withdrawals, paid[w] < MaxPays, chain' = chain,
         mempool' = mempool \cup {<<w, paid[w] + 1>>}, paid' = [paid EXCEPT ![w] = @ + 1]
  PROVE  /\ OnceInv'
         /\ <<w, paid[w] + 1>> \notin mempool
         /\ \A h, i : ~At(chain, <<w, paid[w] + 1>>, h, i)
<1> DEFINE p == <<w, paid[w] + 1>>
<1>1. /\ MaxPays \in Nat /\ paid \in [Withdrawals -> 0 .. MaxPays] /\ paid[w] \in Nat
      /\ paid[w] + 1 \in 1 .. MaxPays
  BY ChainAssumption DEF PayInv
<1>2. p \in Payments /\ p[1] = w /\ p[2] = paid[w] + 1
  BY <1>1 DEF Payments
<1>3. ~(p[2] <= paid[p[1]])
  BY <1>1, <1>2
<1>4. \A q \in Payments : q[1] \in Withdrawals /\ q[2] \in 1 .. MaxPays
  BY DEF Payments
<1>5. mempool' = mempool \cup {p}
  OBVIOUS
<1> HIDE DEF p
<1>6. p \notin mempool /\ \A h, i : ~At(chain, p, h, i)
  BY <1>2, <1>3, OnceAt DEF OnceInv
<1>7. ASSUME NEW q \in Payments, q[2] <= paid[q[1]] PROVE q[2] <= paid'[q[1]]
  <2>1. q[1] \in Withdrawals /\ q[2] \in Nat /\ paid[q[1]] \in Nat
    BY <1>1, <1>4
  <2>2. paid'[q[1]] = paid[q[1]] \/ paid'[q[1]] = paid[q[1]] + 1
    BY <1>1, <2>1
  <2> QED BY <1>7, <2>1, <2>2
<1>8. p[2] <= paid'[p[1]]
  BY <1>1, <1>2
<1>9. ASSUME NEW q \in Payments, q \in mempool' \/ \E h, i : At(chain', q, h, i)
      PROVE  q[2] <= paid'[q[1]]
  <2>1. q = p \/ q[2] <= paid[q[1]]
    BY <1>5, <1>9, OnceAt DEF OnceInv
  <2> QED BY <1>7, <1>8, <2>1
<1>10. ASSUME NEW t, NEW h, NEW i, At(chain', t, h, i) PROVE t \notin mempool'
  BY <1>5, <1>6, <1>10, OnceAt DEF OnceInv
<1>11. Once(chain', mempool', paid')
  BY <1>9, <1>10, OnceAt DEF OnceInv
<1> QED BY <1>6, <1>11 DEF OnceInv, Once, p

\* What a step does to the chain, to what waits and to the payments.
LEMMA ChainSteps ==
  ASSUME Inv, [Next]_vars
  PROVE  \/ Mine /\ paid' = paid
         \/ Reorg /\ paid' = paid
         \/ UNCHANGED <<chain, final, mempool, paid>>
         \/ \E w \in Withdrawals :
              /\ paid[w] < MaxPays /\ UNCHANGED <<chain, final>>
              /\ mempool' = mempool \cup {<<w, paid[w] + 1>>}
              /\ paid' = [paid EXCEPT ![w] = @ + 1]
<1>1. CASE (Mine \/ Reorg) /\ UNCHANGED <<scanVars, payVars>>
  BY <1>1 DEF payVars
<1>2. CASE ScanNext /\ UNCHANGED payVars
  BY <1>2 DEF ScanNext, ScanStep, ProcessBlocks, ProcessBlock, Lock, Gas, Record, Debit, Credit,
              Unlock, Mark, ScanFails, LockExpires, baseVars, chainVars, payVars
<1>3. CASE PayNext
  <2>1. PICK k \in Ticks : TickStep(k)
    BY <1>3 DEF PayNext
  <2>2. CASE Pay(k)
    <3>1. Paying(k) \in Withdrawals
      BY <2>2, PayingType DEF Pay, Inv
    <3> QED BY <2>2, <3>1 DEF Pay
  <2>3. CASE ~Pay(k)
    BY <2>1, <2>3 DEF TickStep, FindPending, MarkOne, SaveHash, Monitor, Refund, SaveFailed,
                      baseVars, chainVars
  <2> QED BY <2>2, <2>3
<1>4. CASE Start \/ Crash
  BY <1>4 DEF Start, PayStart, Crash, PayCrash, chainVars
<1>5. CASE UNCHANGED vars
  BY <1>5 DEF vars, baseVars, payVars
<1> QED BY <1>1, <1>2, <1>3, <1>4, <1>5 DEF Next

LEMMA NextOnce ==
  ASSUME Inv, OnceInv, [Next]_vars
  PROVE  OnceInv'
<1>1. ChainInv /\ PayInv
  BY DEF Inv
<1>2. CASE UNCHANGED <<chain, mempool, paid>>
  BY <1>2 DEF OnceInv, Once
<1> QED BY <1>1, <1>2, ChainSteps, MineOnce, ReorgOnce, SendOnce

LEMMA InitOnce == Init => OnceInv
<1> SUFFICES ASSUME Init PROVE OnceInv
  OBVIOUS
<1>1. /\ \A h \in DOMAIN chain : DOMAIN chain[h] = {}
      /\ mempool \cap Payments = {}
  BY ChainAssumption DEF Init
<1> QED BY <1>1 DEF OnceInv, Once

LEMMA NextFinal ==
  ASSUME Inv, [Next]_vars
  PROVE  FinalStays
<1>1. CASE UNCHANGED <<chain, final>>
  BY <1>1 DEF FinalStays, Inv, ChainInv
<1> QED BY <1>1, ChainSteps, MineChain, ReorgChain DEF Inv

-----------------------------------------------------------------------------
(* Nothing is missed. *)

Held == Working \ {"lock"}

Exempt(t) ==
  \/ ~IsRelevant(t) \/ Info(t).from \notin Accounts \/ TransfersOf(t) = <<>>
  \/ ~BothKnown(TransfersOf(t)[1])

\* With the transactions H met half way, the rows R and the postings P, nothing is left
\* to do for the entry e of a block.
Done(e, H, R, P) ==
  \/ e.tx \in H \/ Exempt(e.tx)
  \/ e.tx \in R /\ (e.ok => P[e.tx].debit = 1 /\ P[e.tx].credit = 1)

Settled(c, t, H, R, P) ==
  \A h \in DOMAIN c : \A i \in DOMAIN c[h] : c[h][i].tx = t => Done(c[h][i], H, R, P)

\* A row or a mark means that the transaction is done or at hand: whoever finds one may
\* pass it over.
SettledInv ==
  /\ \A t \in rows : \/ scan.pc \in {"debit", "credit"} /\ This.tx = t
                     \/ Settled(chain, t, hurt, rows, posts)
  /\ \A t \in locks : \/ scan.pc \in Held /\ This.tx = t
                      \/ Settled(chain, t, hurt, rows, posts)
  /\ \A t \in locks : \E h \in 1 .. final : t \in TxsOf(chain[h])

\* The transaction at hand is done when its mark is taken away.
Progress(s, H, R, P) ==
  /\ s.pc \in {"lock", "gas"} => s.k = 1
  /\ s.pc = "record" => s.k = 1 \/ Head(s.todo).tx \in H
  /\ s.pc = "unlock" => Done(Head(s.todo), H, R, P)

\* What the scan s has behind it of the block b is done.
Covered(b, s, H, R, P) ==
  s.pc \in Working \cup {"mark"} =>
    \A e \in EntriesOf(b) : Done(e, H, R, P) \/ (s.pc \in Working /\ e \in EntriesOf(s.todo))

CoverInv ==
  /\ Progress(scan, hurt, rows, posts)
  /\ Covered(BlockAt(scan.block), scan, hurt, rows, posts)
  /\ scan.pc # "idle" => scan.block = lastBlock + 1
  /\ ~up => scan.pc = "idle"
  /\ lastBlock = None <=> first = None
  /\ lastBlock # None =>
       /\ lastBlock = first \/ lastBlock <= final
       /\ \A h \in (first + 1) .. lastBlock :
            \A e \in EntriesOf(BlockAt(h)) : Done(e, hurt, rows, posts)

\* Rows, postings and what was met half way only grow.
Grow ==
  /\ hurt \subseteq hurt' /\ rows \subseteq rows'
  /\ \A x \in Txs : /\ posts[x].debit = 1 => posts'[x].debit = 1
                    /\ posts[x].credit = 1 => posts'[x].credit = 1

LEMMA NextGrows ==
  ASSUME Inv, [Next]_vars
  PROVE  Grow
<1> DEFINE d == [t \in Txs |-> posts[t].debit]
           c == [t \in Txs |-> posts[t].credit]
<1>1. LedgerStep
  BY NextKeeps
<1>2. \/ rows' = rows /\ d' = d /\ c' = c
      \/ \E t \in Txs : \/ rows' = rows \cup {t} /\ d' = d /\ c' = c
                        \/ rows' = rows /\ d' = [d EXCEPT ![t] = 1] /\ c' = c
                        \/ rows' = rows /\ d' = d /\ c' = [c EXCEPT ![t] = 1]
  BY <1>1 DEF LedgerStep, Ledger!Next, Ledger!Claim, Ledger!Debit, Ledger!Credit
<1>3. \A x \in Txs : d[x] = posts[x].debit /\ d'[x] = posts'[x].debit
                     /\ c[x] = posts[x].credit /\ c'[x] = posts'[x].credit
  OBVIOUS
<1>4. d \in [Txs -> {d[x] : x \in Txs}] /\ c \in [Txs -> {c[x] : x \in Txs}]
  OBVIOUS
<1> HIDE DEF d, c
<1>5. rows \subseteq rows' /\ \A x \in Txs : (d[x] = 1 => d'[x] = 1) /\ (c[x] = 1 => c'[x] = 1)
  BY <1>2, <1>4
<1>6. hurt \subseteq hurt'
  <2>1. CASE ScanNext
    BY <2>1 DEF ScanNext, ScanStep, ProcessBlocks, ProcessBlock, Lock, Gas, Record, Debit, Credit,
                Unlock, Mark, ScanFails, LockExpires
  <2>2. CASE Start \/ Crash
    BY <2>2 DEF Start, ScanStart, Crash, ScanCrash
  <2>3. CASE UNCHANGED scanVars
    BY <2>3 DEF scanVars
  <2> QED BY <2>1, <2>2, <2>3 DEF Next, vars
<1> QED BY <1>3, <1>5, <1>6 DEF Grow

\* What is done stays done.
LEMMA DoneStays ==
  ASSUME Grow, NEW e, e.tx \in Txs, Done(e, hurt, rows, posts)
  PROVE  Done(e, hurt', rows', posts')
BY DEF Grow, Done

\* A transaction that is on the chain appears nowhere else.
LEMMA PlacedStays ==
  ASSUME Inv, OnceInv, [Next]_vars, NEW t, NEW g, NEW j, At(chain, t, g, j),
         NEW h, NEW i, At(chain', t, h, i)
  PROVE  At(chain, t, h, i) /\ chain'[h][i] = chain[h][i]
<1>1. CASE chain' = chain
  BY <1>1 DEF At
<1>2. CASE Mine
  <2>1. PICK b \in Blocks(mempool) : chain' = Append(chain, b)
    BY <1>2 DEF Mine
  <2>2. b \in Seq(Entries)
    BY BlockType DEF Inv, ChainInv
  <2>3. /\ DOMAIN chain' = DOMAIN chain \cup {Len(chain) + 1} /\ chain'[Len(chain) + 1] = b
        /\ \A n \in DOMAIN chain : chain'[n] = chain[n]
    BY <2>1, <2>2 DEF Inv, ChainInv
  <2>4. t \notin mempool
    BY OnceAt DEF OnceInv
  <2>5. h # Len(chain) + 1
    BY <2>3, <2>4, BlockOnce DEF At
  <2> QED BY <2>3, <2>5 DEF At
<1>3. CASE Reorg
  <2>1. PICK n \in final .. (Height - 1) : chain' = SubSeq(chain, 1, n)
    BY <1>3 DEF Reorg
  <2>2. DOMAIN chain' = 1 .. n /\ \A m \in 1 .. n : chain'[m] = chain[m] /\ m \in DOMAIN chain
    BY <2>1 DEF Inv, ChainInv, Height
  <2> QED BY <2>2 DEF At
<1> QED BY <1>1, <1>2, <1>3, ChainSteps

LEMMA SettledStays ==
  ASSUME Inv, OnceInv, [Next]_vars, NEW t \in Txs, NEW n \in 1 .. final, t \in TxsOf(chain[n]),
         Settled(chain, t, hurt, rows, posts)
  PROVE  Settled(chain', t, hurt', rows', posts')
<1>1. PICK j : At(chain, t, n, j)
  BY DEF TxsOf, At, Inv, ChainInv
<1>2. ASSUME NEW h \in DOMAIN chain', NEW i \in DOMAIN chain'[h], chain'[h][i].tx = t
      PROVE  Done(chain'[h][i], hurt', rows', posts')
  <2>1. At(chain', t, h, i)
    BY <1>2 DEF At
  <2>2. At(chain, t, h, i) /\ chain'[h][i] = chain[h][i]
    BY <1>1, <2>1, PlacedStays
  <2>3. Done(chain[h][i], hurt, rows, posts)
    BY <2>2 DEF Settled, At
  <2> QED BY <1>2, <2>2, <2>3, NextGrows, DoneStays
<1> QED BY <1>2 DEF Settled

\* The entry at hand is on the chain, and is the only one of its transaction.
LEMMA HandSettled ==
  ASSUME Inv, OnceInv, scan.pc \in Working, NEW H, NEW R, NEW P, Done(This, H, R, P)
  PROVE  Settled(chain, This.tx, H, R, P)
<1>1. /\ GoodScan(scan) /\ scan \in ScanState /\ scan.todo # <<>>
      /\ EntriesOf(scan.todo) \subseteq EntriesOf(BlockAt(scan.block))
  BY DEF Inv, ScanInv, GoodScan
<1>2. scan.todo \in Seq(Entries)
  BY <1>1 DEF ScanState
<1>3. This \in EntriesOf(BlockAt(scan.block))
  BY <1>1, <1>2, TailEntries DEF This
<1>4. scan.block \in DOMAIN chain
  <2>1. CASE scan.block \notin DOMAIN chain
    <3>1. EntriesOf(BlockAt(scan.block)) = {}
      BY <2>1 DEF BlockAt, EntriesOf
    <3> QED BY <1>3, <3>1
  <2> QED BY <2>1
<1>5. PICK j \in DOMAIN chain[scan.block] : chain[scan.block][j] = This
  BY <1>3, <1>4 DEF BlockAt, EntriesOf
<1>6. At(chain, This.tx, scan.block, j)
  BY <1>4, <1>5 DEF At
<1>7. ASSUME NEW h \in DOMAIN chain, NEW i \in DOMAIN chain[h], chain[h][i].tx = This.tx
      PROVE  chain[h][i] = This
  <2>1. At(chain, This.tx, h, i)
    BY <1>7 DEF At
  <2>2. h = scan.block /\ i = j
    BY <1>6, <2>1, OnceAt DEF OnceInv
  <2> QED BY <1>5, <2>2
<1> QED BY <1>7 DEF Settled

\* Rows and marks after a step that makes none.
LEMMA SettledSame ==
  ASSUME Inv, OnceInv, SettledInv, [Next]_vars, rows' = rows, locks' \subseteq locks,
         scan' = scan \/ scan.pc \notin Held
  PROVE  SettledInv'
<1>1. FinalStays /\ ChainInv /\ BookedIsFinal /\ rows \subseteq Txs /\ locks \subseteq Txs
  BY NextFinal DEF Inv, ScanInv
<1>2. scan.pc \in {"debit", "credit"} => scan.pc \in Held
  BY DEF Held, Working
<1>3. ASSUME NEW t \in rows, ~(scan'.pc \in {"debit", "credit"} /\ This'.tx = t)
      PROVE  Settled(chain', t, hurt', rows', posts')
  <2>1. Settled(chain, t, hurt, rows, posts)
    BY <1>2, <1>3 DEF SettledInv, This
  <2>2. PICK n \in 1 .. final : t \in TxsOf(chain[n])
    BY <1>1 DEF BookedIsFinal
  <2> QED BY <1>1, <2>1, <2>2, SettledStays
<1>4. ASSUME NEW t \in locks
      PROVE  /\ \E h \in 1 .. final' : t \in TxsOf(chain'[h])
             /\ \/ scan'.pc \in Held /\ This'.tx = t
                \/ Settled(chain', t, hurt', rows', posts')
  <2>1. PICK n \in 1 .. final : t \in TxsOf(chain[n])
    BY <1>1 DEF SettledInv
  <2>2. n \in 1 .. final' /\ t \in TxsOf(chain'[n])
    <3>1. final \in Nat /\ final' \in Nat
      BY NextKeeps DEF Inv, ChainInv
    <3> QED BY <1>1, <2>1, <3>1 DEF FinalStays
  <2>3. \/ scan'.pc \in Held /\ This'.tx = t
        \/ Settled(chain, t, hurt, rows, posts)
    BY DEF SettledInv, This
  <2> QED BY <1>1, <2>1, <2>2, <2>3, SettledStays
<1> QED BY <1>3, <1>4 DEF SettledInv, TxsOf, Settled, This

\* Rows and marks after a step on the transaction at hand.
LEMMA SettledHand ==
  ASSUME Inv, OnceInv, SettledInv, [Next]_vars, scan.pc \in Working, UNCHANGED <<chain, final>>,
         rows' \subseteq rows \cup {This.tx}, locks' \subseteq locks \cup {This.tx},
         This.tx \in rows' => \/ scan'.pc \in {"debit", "credit"} /\ scan'.todo = scan.todo
                              \/ Settled(chain, This.tx, hurt', rows', posts'),
         This.tx \in locks' => \/ scan'.pc \in Held /\ scan'.todo = scan.todo
                               \/ Settled(chain, This.tx, hurt', rows', posts')
  PROVE  SettledInv'
<1>1. /\ ChainInv /\ BookedIsFinal /\ rows \subseteq Txs /\ locks \subseteq Txs
      /\ GoodScan(scan)
  BY DEF Inv, ScanInv
<1> DEFINE x == This.tx
<1>2. PICK m \in 1 .. final : x \in TxsOf(chain[m])
  BY <1>1, AtHand
<1>3. scan'.todo = scan.todo => This'.tx = x
  BY DEF This
<1>4. ASSUME NEW t \in rows', t # x
      PROVE  Settled(chain', t, hurt', rows', posts')
  <2>1. t \in rows /\ Settled(chain, t, hurt, rows, posts)
    BY <1>4 DEF SettledInv
  <2>2. PICK n \in 1 .. final : t \in TxsOf(chain[n])
    BY <1>1, <2>1 DEF BookedIsFinal
  <2> QED BY <1>1, <2>1, <2>2, SettledStays
<1>5. ASSUME NEW t \in locks', t # x
      PROVE  /\ \E h \in 1 .. final : t \in TxsOf(chain[h])
             /\ Settled(chain', t, hurt', rows', posts')
  <2>1. t \in locks /\ Settled(chain, t, hurt, rows, posts)
    BY <1>5 DEF SettledInv
  <2>2. PICK n \in 1 .. final : t \in TxsOf(chain[n])
    BY <2>1 DEF SettledInv
  <2> QED BY <1>1, <2>1, <2>2, SettledStays
<1> HIDE DEF x
<1>6. /\ \A t \in rows' : \/ scan'.pc \in {"debit", "credit"} /\ This'.tx = t
                          \/ Settled(chain', t, hurt', rows', posts')
      /\ \A t \in locks' : \/ scan'.pc \in Held /\ This'.tx = t
                           \/ Settled(chain', t, hurt', rows', posts')
      /\ \A t \in locks' : \E h \in 1 .. final' : t \in TxsOf(chain'[h])
  BY <1>2, <1>3, <1>4, <1>5 DEF x
<1> QED BY <1>6 DEF SettledInv, TxsOf, Settled, This

\* Entries of a block are of known transactions.
LEMMA EntryTx ==
  ASSUME ChainInv, NEW n \in Int, NEW e \in EntriesOf(BlockAt(n))
  PROVE  e \in Entries /\ e.tx \in Txs
<1> DEFINE b == BlockAt(n)
<1>1. b \in Seq(Entries)
  BY BlockAtType
<1>2. PICK i \in DOMAIN b : e = b[i]
  BY DEF EntriesOf
<1> HIDE DEF b
<1>3. e \in Entries
  BY <1>1, <1>2
<1> QED BY <1>3 DEF Entries

\* The part of CoverInv on blocks that count as processed.
Behind ==
  /\ lastBlock = None <=> first = None
  /\ lastBlock # None =>
       /\ lastBlock = first \/ lastBlock <= final
       /\ \A h \in (first + 1) .. lastBlock :
            \A e \in EntriesOf(BlockAt(h)) : Done(e, hurt, rows, posts)

LEMMA BehindSame ==
  ASSUME Inv, [Next]_vars, Behind, UNCHANGED <<lastBlock, first>>
  PROVE  Behind'
<1>1. /\ FinalStays /\ Grow /\ ChainInv /\ ChainInv' /\ lastBlock \in Int \cup {None}
      /\ first \in Int \cup {None} /\ final \in Nat /\ final' \in Nat /\ final <= final'
  BY NextFinal, NextGrows, NextKeeps DEF Inv, ScanInv, ChainInv, FinalStays
<1>2. ASSUME lastBlock # None, NEW h \in (first + 1) .. lastBlock, NEW e \in EntriesOf(BlockAt(h)')
      PROVE  Done(e, hurt', rows', posts')
  <2>1. first \in Int /\ lastBlock \in Int /\ h \in Int
    BY <1>1, <1>2 DEF Behind
  <2>2. h <= final
    BY <1>1, <1>2, <2>1 DEF Behind
  <2>3. BlockAt(h)' = BlockAt(h)
    BY <1>1, <2>1, <2>2, BlockStays
  <2>4. e.tx \in Txs /\ Done(e, hurt, rows, posts)
    BY <1>1, <1>2, <2>1, <2>3, EntryTx DEF Behind
  <2> QED BY <1>1, <2>4, DoneStays
<1>3. lastBlock # None => lastBlock = first \/ lastBlock <= final'
  BY <1>1 DEF Behind
<1>4. ASSUME lastBlock' # None, NEW h \in (first' + 1) .. lastBlock', NEW e \in EntriesOf(BlockAt(h))'
      PROVE  Done(e, hurt', rows', posts')
  BY <1>2, <1>4 DEF EntriesOf
<1> QED BY <1>3, <1>4 DEF Behind, EntriesOf, Done

\* A block whose entries are all done counts as processed.
LEMMA BehindNext ==
  ASSUME Inv, [Next]_vars, Behind, UNCHANGED <<chain, final, first>>, scan.pc = "mark",
         lastBlock # None, scan.block = lastBlock + 1, lastBlock' = scan.block,
         Covered(BlockAt(scan.block), scan, hurt, rows, posts)
  PROVE  Behind'
<1>1. /\ Grow /\ ChainInv /\ lastBlock \in Int \cup {None} /\ GoodScan(scan)
      /\ first \in Int \cup {None} /\ final \in Nat
  BY NextGrows DEF Inv, ScanInv, ChainInv
<1>2. scan.block \in Int /\ scan.block <= final /\ lastBlock \in Int /\ first \in Int
  BY <1>1 DEF GoodScan, ScanState, Behind
<1>3. ASSUME NEW h \in (first + 1) .. scan.block, NEW e \in EntriesOf(BlockAt(h))
      PROVE  Done(e, hurt', rows', posts')
  <2>1. h \in Int /\ (h = scan.block \/ h \in (first + 1) .. lastBlock)
    BY <1>2
  <2>3. e.tx \in Txs
    BY <1>1, <1>3, <2>1, EntryTx
  <2>4. Done(e, hurt, rows, posts)
    <3>1. CASE h = scan.block
      BY <1>3, <3>1 DEF Covered, Working
    <3>2. CASE h \in (first + 1) .. lastBlock
      BY <1>3, <3>2 DEF Behind
    <3> QED BY <2>1, <3>1, <3>2
  <2> QED BY <1>1, <2>3, <2>4, DoneStays
<1>4. lastBlock' # None /\ first' # None /\ lastBlock' <= final'
  BY <1>1, <1>2, ScanAssumption
<1>5. ASSUME NEW h \in (first' + 1) .. lastBlock', NEW e \in EntriesOf(BlockAt(h))'
      PROVE  Done(e, hurt', rows', posts')
  <2>1. EntriesOf(BlockAt(h))' = EntriesOf(BlockAt(h))
    BY DEF EntriesOf, BlockAt
  <2> QED BY <1>3, <1>5, <2>1
<1> QED BY <1>4, <1>5 DEF Behind, EntriesOf, Done

\* The rest of the entries when the first one is done.
LEMMA CoveredTail ==
  ASSUME Inv, Grow, scan.pc \in Working, Covered(BlockAt(scan.block), scan, hurt, rows, posts),
         Done(This, hurt', rows', posts')
  PROVE  /\ Covered(BlockAt(scan.block), NextTx(Tail(scan.todo)), hurt', rows', posts')
         /\ Progress(NextTx(Tail(scan.todo)), hurt', rows', posts')
<1>1. /\ GoodScan(scan) /\ scan \in ScanState /\ scan.todo # <<>> /\ scan.pc # "idle" /\ ChainInv
  BY DEF Inv, ScanInv, GoodScan, Working
<1>2. scan.todo \in Seq(Entries) /\ scan.block \in Int
  BY <1>1 DEF ScanState
<1> DEFINE r == Tail(scan.todo)
           s == NextTx(r)
<1>3. /\ r \in Seq(Entries) /\ EntriesOf(scan.todo) = {This} \cup EntriesOf(r)
      /\ EntriesOf(r) \subseteq EntriesOf(BlockAt(scan.block))
  BY <1>1, <1>2, TailEntries, AtHand DEF This
<1>4. /\ s.pc \in {"lock", "mark"} /\ s.todo = r /\ s.k = 1 /\ (s.pc = "mark" <=> r = <<>>)
  BY <1>1, <1>3, NextTxGood
<1> HIDE DEF r, s
<1>5. ASSUME NEW e \in EntriesOf(BlockAt(scan.block))
      PROVE  Done(e, hurt', rows', posts') \/ (s.pc \in Working /\ e \in EntriesOf(s.todo))
  <2>1. e.tx \in Txs
    BY <1>1, <1>2, EntryTx
  <2>2. Done(e, hurt, rows, posts) \/ e = This \/ e \in EntriesOf(r)
    BY <1>3 DEF Covered
  <2>3. e \in EntriesOf(r) => s.pc = "lock"
    BY <1>4 DEF EntriesOf
  <2> QED BY <1>4, <2>1, <2>2, <2>3, DoneStays DEF Working
<1>6. Progress(s, hurt', rows', posts')
  BY <1>4 DEF Progress
<1> QED BY <1>5, <1>6 DEF Covered, s, r

\* The same entries are left.
LEMMA CoveredStays ==
  ASSUME Inv, Grow, NEW s, s.block = scan.block, s.todo = scan.todo, s.pc \in Working, scan.pc \in Working,
         Covered(BlockAt(scan.block), scan, hurt, rows, posts)
  PROVE  Covered(BlockAt(scan.block), s, hurt', rows', posts')
<1>1. scan.block \in Int /\ ChainInv
  BY DEF Inv, ScanInv, GoodScan, ScanState
<1>2. \A e \in EntriesOf(BlockAt(scan.block)) : e.tx \in Txs
  BY <1>1, EntryTx
<1> QED BY <1>2, DoneStays DEF Covered

LEMMA CoverFrom ==
  ASSUME chain' = chain, NEW s, scan' = s, Progress(s, hurt', rows', posts'),
         Covered(BlockAt(s.block), s, hurt', rows', posts'),
         s.pc # "idle" => s.block = lastBlock' + 1, ~up' => s.pc = "idle", Behind'
  PROVE  CoverInv'
<1>1. BlockAt(s.block)' = BlockAt(s.block) /\ BlockAt(scan.block)' = BlockAt(s.block)
  BY DEF BlockAt
<1>2. /\ Progress(scan, hurt, rows, posts)'
      /\ Covered(BlockAt(scan.block), scan, hurt, rows, posts)'
  BY <1>1 DEF Progress, Covered, Done, EntriesOf
<1> QED BY <1>2 DEF CoverInv, Behind

MissInv == SettledInv /\ CoverInv

\* The steps of the scan.
LEMMA MissStep ==
  ASSUME Inv, OnceInv, MissInv, ScanStep, [Next]_vars
  PROVE  MissInv'
<1>1. /\ Grow /\ ChainInv /\ ScanInv /\ BooksInv /\ GoodScan(scan) /\ SettledInv /\ Behind
      /\ Progress(scan, hurt, rows, posts) /\ Covered(BlockAt(scan.block), scan, hurt, rows, posts)
      /\ (scan.pc # "idle" => scan.block = lastBlock + 1) /\ scan \in ScanState
  BY NextGrows DEF Inv, MissInv, CoverInv, Behind, ScanInv, GoodScan
<1>2. /\ UNCHANGED <<chain, final, up>> /\ up /\ first' = first
  BY DEF ScanStep, ProcessBlocks, ProcessBlock, Lock, Gas, Record, Debit, Credit, Unlock, Mark, baseVars
<1>3. lastBlock # None /\ lastBlock \in Int
  BY <1>1, <1>2 DEF ScanInv
<1>4. scan.pc \in Working => This.tx \in Txs /\ This.ok \in BOOLEAN
  BY <1>1, AtHand
<1>5. ASSUME NEW s, scan' = s, lastBlock' = lastBlock, Progress(s, hurt', rows', posts'),
             Covered(BlockAt(s.block), s, hurt', rows', posts'),
             s.pc # "idle" => s.block = lastBlock + 1, SettledInv'
      PROVE  MissInv'
  BY <1>1, <1>2, <1>5, BehindSame, CoverFrom DEF MissInv
<1>6. ASSUME NEW pc \in Working, scan.pc \in Working, scan' = [scan EXCEPT !.pc = pc],
             lastBlock' = lastBlock,
             pc \notin {"lock", "gas", "record", "unlock"} \/ Progress([scan EXCEPT !.pc = pc], hurt', rows', posts'),
             SettledInv'
      PROVE  MissInv'
  <2> DEFINE s == [scan EXCEPT !.pc = pc]
  <2>1. s.pc = pc /\ s.todo = scan.todo /\ s.block = scan.block /\ s.k = scan.k
    BY <1>1, <1>6, PcGood
  <2> HIDE DEF s
  <2>2. Covered(BlockAt(s.block), s, hurt', rows', posts')
    BY <1>1, <1>6, <2>1, CoveredStays
  <2>3. Progress(s, hurt', rows', posts')
    BY <1>6, <2>1 DEF Progress, s
  <2>4. scan.pc # "idle"
    BY <1>6 DEF Working
  <2> QED BY <1>1, <1>5, <1>6, <2>1, <2>2, <2>3, <2>4 DEF s
<1>7. ASSUME scan.pc \in Working, scan' = NextTx(Tail(scan.todo)), lastBlock' = lastBlock,
             Done(This, hurt', rows', posts'), SettledInv'
      PROVE  MissInv'
  <2> DEFINE s == NextTx(Tail(scan.todo))
  <2>1. s.block = scan.block /\ scan.pc # "idle"
    BY <1>1, <1>7, NextTxGood, AtHand DEF Working
  <2>2. Covered(BlockAt(s.block), s, hurt', rows', posts') /\ Progress(s, hurt', rows', posts')
    BY <1>1, <1>7, <2>1, CoveredTail
  <2> HIDE DEF s
  <2> QED BY <1>1, <1>5, <1>7, <2>1, <2>2 DEF s
<1>8. CASE ProcessBlocks
  <2> DEFINE s == [Idle EXCEPT !.pc = "block", !.block = lastBlock + 1, !.upto = ConfirmedBlock]
  <2>1. s.pc = "block" /\ s.block = lastBlock + 1
    BY DEF Idle
  <2>2. /\ UNCHANGED <<rows, locks, lastBlock>> /\ scan.pc = "idle" /\ scan' = s
    BY <1>8 DEF ProcessBlocks
  <2> HIDE DEF s
  <2>3. SettledInv'
    BY <1>1, <2>2, SettledSame DEF Held, Working
  <2>4. Progress(s, hurt', rows', posts') /\ Covered(BlockAt(s.block), s, hurt', rows', posts')
    BY <2>1 DEF Progress, Covered, Working
  <2> QED BY <1>5, <2>1, <2>2, <2>3, <2>4
<1>9. CASE ProcessBlock
  <2> DEFINE b == BlockAt(scan.block)
             s == NextTx(b)
  <2>1. /\ UNCHANGED <<rows, locks, lastBlock>> /\ scan.pc = "block" /\ scan' = s
    BY <1>9 DEF ProcessBlock
  <2>2. b \in Seq(Entries)
    BY <1>1, BlockAtType DEF ScanState
  <2>3. /\ s.pc \in {"lock", "mark"} /\ s.todo = b /\ s.k = 1 /\ (s.pc = "mark" <=> b = <<>>)
        /\ s.block = scan.block
    BY <1>1, <2>1, <2>2, NextTxGood
  <2> HIDE DEF s
  <2>4. SettledInv'
    BY <1>1, <2>1, SettledSame DEF Held, Working
  <2>5. ASSUME NEW e \in EntriesOf(b) PROVE s.pc \in Working /\ e \in EntriesOf(s.todo)
    <3>1. b # <<>>
      BY <2>5 DEF EntriesOf
    <3> QED BY <2>3, <3>1 DEF Working
  <2>6. Progress(s, hurt', rows', posts') /\ Covered(BlockAt(s.block), s, hurt', rows', posts')
    BY <2>3, <2>5 DEF Progress, Covered
  <2> QED BY <1>1, <1>5, <2>1, <2>3, <2>4, <2>6
<1>10. CASE Lock
  <2>1. UNCHANGED <<rows, lastBlock, posts, hurt>> /\ scan.pc = "lock"
    BY <1>10 DEF Lock
  <2>2. scan.pc \in Working /\ scan.pc \notin Held /\ "gas" \in Working /\ "gas" \in Held
    BY <2>1 DEF Working, Held
  <2>3. CASE ~IsRelevant(This.tx) \/ This.tx \in locks
    <3>1. scan' = NextTx(Tail(scan.todo)) /\ locks' = locks
      BY <1>10, <2>3 DEF Lock
    <3>2. Done(This, hurt', rows', posts')
      <4>1. CASE ~IsRelevant(This.tx)
        BY <4>1 DEF Done, Exempt
      <4>2. CASE This.tx \in locks
        <5>1. Settled(chain, This.tx, hurt, rows, posts)
          BY <1>1, <2>2, <4>2 DEF SettledInv
        <5>2. \E h \in DOMAIN chain : \E i \in DOMAIN chain[h] : chain[h][i] = This
          <6>1. This \in EntriesOf(BlockAt(scan.block))
            BY <1>1, <2>2, TailEntries DEF GoodScan, ScanState, This
          <6> QED BY <6>1 DEF BlockAt, EntriesOf
        <5> QED BY <2>1, <5>1, <5>2 DEF Settled
      <4> QED BY <2>3, <4>1, <4>2
    <3>3. SettledInv'
      BY <1>1, <2>1, <2>2, <3>1, SettledSame
    <3> QED BY <1>7, <2>1, <2>2, <3>1, <3>2, <3>3
  <2>4. CASE ~(~IsRelevant(This.tx) \/ This.tx \in locks)
    <3>1. scan' = [scan EXCEPT !.pc = "gas"] /\ locks' = locks \cup {This.tx}
      BY <1>10, <2>4 DEF Lock
    <3>2. [scan EXCEPT !.pc = "gas"].pc = "gas" /\ [scan EXCEPT !.pc = "gas"].todo = scan.todo
          /\ [scan EXCEPT !.pc = "gas"].k = scan.k
      BY <1>1, <2>2, PcGood
    <3>3. This.tx \in rows' => Settled(chain, This.tx, hurt', rows', posts')
      BY <1>1, <2>1 DEF SettledInv
    <3>4. SettledInv'
      BY <1>1, <1>2, <2>1, <2>2, <3>1, <3>2, <3>3, SettledHand
    <3>5. Progress([scan EXCEPT !.pc = "gas"], hurt', rows', posts')
      BY <1>1, <2>1, <3>2 DEF Progress
    <3> QED BY <1>6, <2>1, <2>2, <3>1, <3>4, <3>5
  <2> QED BY <2>3, <2>4
<1>11. CASE Unlock
  <2>1. /\ UNCHANGED <<rows, lastBlock, posts, hurt>> /\ scan.pc = "unlock"
        /\ scan' = NextTx(Tail(scan.todo)) /\ locks' = locks \ {This.tx}
    BY <1>11 DEF Unlock
  <2>2. scan.pc \in Working
    BY <2>1 DEF Working
  <2>3. Done(This, hurt', rows', posts')
    BY <1>1, <2>1 DEF Progress, This
  <2>4. This.tx \in rows' => Settled(chain, This.tx, hurt', rows', posts')
    BY <2>2, <2>3, HandSettled
  <2>5. SettledInv'
    BY <1>1, <1>2, <2>1, <2>2, <2>4, SettledHand
  <2> QED BY <1>7, <2>1, <2>2, <2>3, <2>5
<1>12. CASE Gas
  <2>1. UNCHANGED <<rows, locks, lastBlock, hurt>> /\ scan.pc = "gas"
    BY <1>12 DEF Gas
  <2>2. PICK pc \in {"unlock", "record"} :
          /\ scan' = [scan EXCEPT !.pc = pc]
          /\ pc = "unlock" => Info(This.tx).from \notin Accounts \/ TransfersOf(This.tx) = <<>>
    BY <1>12 DEF Gas
  <2>3. scan.pc \in Working /\ pc \in Working /\ pc \in Held
    BY <2>1, <2>2 DEF Working, Held
  <2> DEFINE s == [scan EXCEPT !.pc = pc]
  <2>4. s.pc = pc /\ s.todo = scan.todo /\ s.k = scan.k
    BY <1>1, <2>3, PcGood
  <2> HIDE DEF s
  <2>5. This.tx \in rows' => Settled(chain, This.tx, hurt', rows', posts')
    <3>1. This.tx \in rows => Settled(chain, This.tx, hurt, rows, posts)
      BY <1>1, <2>1 DEF SettledInv
    <3>2. PICK m \in 1 .. final : This.tx \in TxsOf(chain[m])
      BY <1>1, <2>3, AtHand
    <3> QED BY <1>2, <1>4, <2>1, <2>3, <3>1, <3>2, SettledStays
  <2>6. SettledInv'
    BY <1>1, <1>2, <2>1, <2>2, <2>3, <2>4, <2>5, SettledHand DEF s
  <2>7. Progress(s, hurt', rows', posts')
    <3>1. pc = "unlock" => Done(Head(s.todo), hurt', rows', posts')
      BY <2>2, <2>4 DEF Done, Exempt, This
    <3>2. s.k = 1
      BY <1>1, <2>1, <2>4 DEF Progress
    <3> QED BY <2>2, <2>4, <3>1, <3>2 DEF Progress
  <2> QED BY <1>6, <2>1, <2>2, <2>3, <2>6, <2>7 DEF s
<1>13. CASE Record
  <2>1. UNCHANGED <<locks, posts, lastBlock, hurt>> /\ scan.pc = "record"
    BY <1>13 DEF Record
  <2>2. PICK pc \in {"unlock", "debit"} :
          /\ scan' = [scan EXCEPT !.pc = pc]
          /\ \/ rows' = rows \cup {This.tx} /\ (pc = "debit" \/ ~This.ok)
             \/ /\ pc = "unlock" /\ rows' = rows
                /\ This.tx \in rows \/ ~BothKnown(TransfersOf(This.tx)[scan.k])
    BY <1>13 DEF Record
  <2>3. scan.pc \in Working /\ pc \in Working /\ pc \in Held
    BY <2>1, <2>2 DEF Working, Held
  <2> DEFINE s == [scan EXCEPT !.pc = pc]
  <2>4. s.pc = pc /\ s.todo = scan.todo /\ s.k = scan.k
    BY <1>1, <2>3, PcGood
  <2> HIDE DEF s
  <2>5. pc = "unlock" => Done(This, hurt', rows', posts')
    <3>1. CASE rows' = rows \cup {This.tx} /\ ~This.ok
      BY <3>1 DEF Done
    <3>2. CASE rows' = rows /\ This.tx \in rows
      <4>1. Settled(chain, This.tx, hurt, rows, posts)
        BY <1>1, <2>1, <3>2 DEF SettledInv
      <4>2. \E h \in DOMAIN chain : \E i \in DOMAIN chain[h] : chain[h][i] = This
        <5>1. This \in EntriesOf(BlockAt(scan.block))
          BY <1>1, <2>3, TailEntries DEF GoodScan, ScanState, This
        <5> QED BY <5>1 DEF BlockAt, EntriesOf
      <4> QED BY <2>1, <3>2, <4>1, <4>2 DEF Settled
    <3>3. CASE ~BothKnown(TransfersOf(This.tx)[scan.k])
      <4>1. scan.k = 1 \/ This.tx \in hurt
        BY <1>1, <2>1 DEF Progress, This
      <4> QED BY <2>1, <3>3, <4>1 DEF Done, Exempt
    <3> QED BY <2>2, <3>1, <3>2, <3>3
  <2>6. pc = "unlock" => Settled(chain, This.tx, hurt', rows', posts')
    BY <2>3, <2>5, HandSettled
  <2>7. SettledInv'
    BY <1>1, <1>2, <2>1, <2>2, <2>3, <2>4, <2>6, SettledHand DEF s
  <2>8. Progress(s, hurt', rows', posts')
    BY <2>2, <2>4, <2>5 DEF Progress, This
  <2> QED BY <1>6, <2>1, <2>2, <2>3, <2>7, <2>8 DEF s
<1>14. CASE Debit
  <2>1. /\ UNCHANGED <<rows, locks, lastBlock, hurt>> /\ scan.pc = "debit"
        /\ scan' = [scan EXCEPT !.pc = "credit"]
    BY <1>14 DEF Debit
  <2>2. scan.pc \in Working /\ "credit" \in Working /\ "credit" \in Held
    BY <2>1 DEF Working, Held
  <2>3. [scan EXCEPT !.pc = "credit"].pc = "credit" /\ [scan EXCEPT !.pc = "credit"].todo = scan.todo
    BY <1>1, <2>2, PcGood
  <2>4. SettledInv'
    BY <1>1, <1>2, <2>1, <2>2, <2>3, SettledHand
  <2> QED BY <1>6, <2>1, <2>2, <2>4
<1>15. CASE Credit
  <2>1. /\ UNCHANGED <<rows, locks, lastBlock, hurt>> /\ scan.pc = "credit"
        /\ posts' = [posts EXCEPT ![This.tx].credit = @ + 1]
        /\ scan' = [scan EXCEPT !.pc = "unlock"]
    BY <1>15 DEF Credit
  <2>2. scan.pc \in Working /\ "unlock" \in Working /\ "unlock" \in Held
    BY <2>1 DEF Working, Held
  <2> DEFINE s == [scan EXCEPT !.pc = "unlock"]
  <2>3. s.pc = "unlock" /\ s.todo = scan.todo
    BY <1>1, <2>2, PcGood
  <2> HIDE DEF s
  <2>4. This.tx \in rows /\ posts'[This.tx].debit = 1 /\ posts'[This.tx].credit = 1
    <3>1. posts[This.tx].debit = 1 /\ posts[This.tx].credit = 0 /\ This.tx \in rows
      BY <1>1, <1>4, <2>1, <2>2 DEF BooksInv
    <3>2. posts \in [Txs -> Postings] /\ This.tx \in Txs
      BY <1>1, <1>4, <2>2 DEF ScanInv, Postings
    <3> DEFINE q == [posts[This.tx] EXCEPT !.credit = @ + 1]
    <3>3. posts'[This.tx] = q
      BY <2>1, <3>2
    <3>4. q = [gas |-> posts[This.tx].gas, debit |-> posts[This.tx].debit, credit |-> posts[This.tx].credit + 1]
      BY <3>2, PostOne
    <3> HIDE DEF q
    <3> QED BY <3>1, <3>3, <3>4
  <2>5. Done(This, hurt', rows', posts')
    BY <2>1, <2>4 DEF Done
  <2>6. Settled(chain, This.tx, hurt', rows', posts')
    BY <2>2, <2>5, HandSettled
  <2>7. SettledInv'
    BY <1>1, <1>2, <2>1, <2>2, <2>3, <2>6, SettledHand DEF s
  <2>8. Progress(s, hurt', rows', posts')
    BY <2>3, <2>5 DEF Progress, This
  <2> QED BY <1>6, <2>1, <2>2, <2>7, <2>8 DEF s
<1>16. CASE Mark
  <2>1. /\ UNCHANGED <<rows, locks, posts, hurt>> /\ scan.pc = "mark" /\ lastBlock' = scan.block
    BY <1>16 DEF Mark
  <2>2. SettledInv'
    BY <1>1, <2>1, SettledSame DEF Held, Working
  <2>3. Behind'
    BY <1>1, <1>2, <1>3, <2>1, BehindNext
  <2>4. PICK s : /\ scan' = s
                 /\ \/ s.pc = "block" /\ s.block = scan.block + 1
                    \/ s.pc = "idle"
    <3>1. CASE scan.block < scan.upto
      <4> DEFINE s == [scan EXCEPT !.pc = "block", !.block = @ + 1]
      <4>1. scan' = s
        BY <1>16, <3>1 DEF Mark
      <4>2. s.pc = "block" /\ s.block = scan.block + 1
        BY <1>1 DEF ScanState
      <4> HIDE DEF s
      <4> QED BY <4>1, <4>2
    <3>2. CASE ~(scan.block < scan.upto)
      BY <1>16, <3>2, IdleGood DEF Mark
    <3> QED BY <3>1, <3>2
  <2>5. Progress(s, hurt', rows', posts') /\ Covered(BlockAt(s.block), s, hurt', rows', posts')
    BY <2>4 DEF Progress, Covered, Working
  <2>6. CoverInv'
    BY <1>2, <2>1, <2>3, <2>4, <2>5, CoverFrom
  <2> QED BY <2>2, <2>6 DEF MissInv
<1> QED BY <1>8, <1>9, <1>10, <1>11, <1>12, <1>13, <1>14, <1>15, <1>16 DEF ScanStep

\* A call of the scan fails: what it takes out of the block is counted as met half way.
LEMMA MissFails ==
  ASSUME Inv, OnceInv, MissInv, ScanFails, [Next]_vars
  PROVE  MissInv'
<1>1. /\ Grow /\ ChainInv /\ ScanInv /\ GoodScan(scan) /\ SettledInv /\ Behind
      /\ Progress(scan, hurt, rows, posts) /\ Covered(BlockAt(scan.block), scan, hurt, rows, posts)
      /\ (scan.pc # "idle" => scan.block = lastBlock + 1) /\ scan \in ScanState
  BY NextGrows DEF Inv, MissInv, CoverInv, Behind, ScanInv, GoodScan
<1>2. /\ UNCHANGED <<chain, final, up>> /\ up /\ first' = first
      /\ scan.pc # "idle" /\ scan' = AfterFault /\ hurt' = hurt \cup Abandoned
  BY DEF ScanFails, chainVars
<1>3. lastBlock # None /\ lastBlock \in Int /\ scan.block \in Int /\ scan.pc \in Steps
  BY <1>1, <1>2 DEF ScanInv, ScanState
<1>4. /\ rows' = rows \/ (scan.pc = "record" /\ rows' = rows \cup {This.tx})
      /\ \/ locks' = locks
         \/ scan.pc = "lock" /\ locks' = locks \cup {This.tx}
         \/ scan.pc = "unlock" /\ locks' = locks \ {This.tx}
      /\ lastBlock' = lastBlock \/ (scan.pc = "mark" /\ lastBlock' = scan.block)
  <2>1. PICK done \in BOOLEAN :
          /\ rows' = IF done /\ scan.pc = "record" /\ BothKnown(TransfersOf(This.tx)[scan.k])
                     THEN rows \cup {This.tx} ELSE rows
          /\ locks' = CASE done /\ scan.pc = "lock"   -> locks \cup {This.tx}
                        [] done /\ scan.pc = "unlock" -> locks \ {This.tx}
                        [] OTHER                      -> locks
          /\ lastBlock' = IF done /\ scan.pc = "mark" THEN scan.block ELSE lastBlock
    BY DEF ScanFails
  <2>2. rows' = rows \/ (scan.pc = "record" /\ rows' = rows \cup {This.tx})
    BY <2>1
  <2>3. \/ locks' = locks
        \/ scan.pc = "lock" /\ locks' = locks \cup {This.tx}
        \/ scan.pc = "unlock" /\ locks' = locks \ {This.tx}
    BY <2>1
  <2> QED BY <2>1, <2>2, <2>3
<1>5. \A b : \A e \in EntriesOf(b) : e.tx \in TxsOf(b)
  BY DEF EntriesOf, TxsOf
<1>6. ASSUME NEW s, scan' = s, lastBlock' = lastBlock, Progress(s, hurt', rows', posts'),
             Covered(BlockAt(s.block), s, hurt', rows', posts'),
             s.block = scan.block, SettledInv'
      PROVE  MissInv'
  BY <1>1, <1>2, <1>6, BehindSame, CoverFrom DEF MissInv
<1>7. CASE scan.pc \in {"block", "lock", "unlock"}
  <2> DEFINE s == NextTx(<<>>)
  <2>1. /\ s.pc = "mark" /\ s.block = scan.block
    <3>1. <<>> \in Seq(Entries) /\ EntriesOf(<<>>) = {}
      BY DEF EntriesOf
    <3> QED BY <1>1, <1>2, <3>1, NextTxGood
  <2>2. scan' = s /\ rows' = rows /\ lastBlock' = lastBlock
    BY <1>2, <1>4, <1>7 DEF AfterFault
  <2> HIDE DEF s
  <2>3. Progress(s, hurt', rows', posts')
    BY <2>1 DEF Progress
  <2>4. scan.pc \in {"lock", "unlock"} =>
          /\ scan.pc \in Working /\ This \in EntriesOf(scan.todo)
          /\ EntriesOf(scan.todo) = {This} \cup EntriesOf(Tail(scan.todo))
    BY <1>1, TailEntries DEF GoodScan, ScanState, Working, This
  <2>5. scan.pc \in {"lock", "unlock"} => Done(This, hurt', rows', posts')
    <3>1. CASE scan.pc = "lock"
      <4>1. This.tx \in Abandoned
        BY <1>5, <2>4, <3>1 DEF Abandoned
      <4> QED BY <1>2, <4>1 DEF Done
    <3>2. CASE scan.pc = "unlock"
      <4>1. Done(This, hurt, rows, posts)
        BY <1>1, <3>2 DEF Progress, This
      <4>2. This.tx \in Txs
        BY <1>1, <2>4, <3>2, AtHand
      <4> QED BY <1>1, <4>1, <4>2, DoneStays
    <3> QED BY <3>1, <3>2
  <2>6. SettledInv'
    <3>1. CASE scan.pc = "block"
      BY <1>1, <1>4, <2>2, <3>1, SettledSame DEF Held, Working
    <3>2. CASE scan.pc \in {"lock", "unlock"}
      <4>1. Settled(chain, This.tx, hurt', rows', posts')
        BY <2>4, <2>5, <3>2, HandSettled
      <4> QED BY <1>1, <1>2, <1>4, <2>2, <2>4, <3>2, <4>1, SettledHand
    <3> QED BY <1>7, <3>1, <3>2
  <2>7. ASSUME NEW e \in EntriesOf(BlockAt(scan.block))
        PROVE  Done(e, hurt', rows', posts')
    <3>1. e.tx \in Txs
      BY <1>1, <1>3, EntryTx
    <3>2. CASE scan.pc = "block"
      <4>1. e.tx \in Abandoned
        BY <1>5, <3>2 DEF Abandoned
      <4> QED BY <1>2, <4>1 DEF Done
    <3>3. CASE scan.pc \in {"lock", "unlock"}
      <4>1. Done(e, hurt, rows, posts) \/ e = This \/ e \in EntriesOf(Tail(scan.todo))
        BY <1>1, <2>4, <3>3 DEF Covered
      <4>2. e \in EntriesOf(Tail(scan.todo)) => e.tx \in Abandoned
        BY <1>5, <2>4, <3>3 DEF Abandoned
      <4>3. e \in EntriesOf(Tail(scan.todo)) => Done(e, hurt', rows', posts')
        BY <1>2, <4>2 DEF Done
      <4> QED BY <1>1, <2>5, <3>1, <3>3, <4>1, <4>3, DoneStays
    <3> QED BY <1>7, <3>2, <3>3
  <2>8. Covered(BlockAt(s.block), s, hurt', rows', posts')
    BY <2>1, <2>7 DEF Covered
  <2> QED BY <1>6, <2>1, <2>2, <2>3, <2>6, <2>8
<1>8. CASE scan.pc = "mark"
  <2>1. scan' = Idle /\ rows' = rows /\ locks' = locks
    BY <1>2, <1>4, <1>8 DEF AfterFault
  <2>2. SettledInv'
    BY <1>1, <1>8, <2>1, SettledSame DEF Held, Working
  <2>3. Behind'
    BY <1>1, <1>2, <1>3, <1>4, <1>8, BehindSame, BehindNext
  <2>4. Progress(Idle, hurt', rows', posts') /\ Covered(BlockAt(Idle.block), Idle, hurt', rows', posts')
    BY IdleGood DEF Progress, Covered, Working
  <2>5. CoverInv'
    BY <1>2, <2>1, <2>3, <2>4, IdleGood, CoverFrom
  <2> QED BY <2>2, <2>5 DEF MissInv
<1>9. CASE scan.pc \in {"gas", "record", "debit", "credit"}
  <2>1. /\ scan.pc \in Working /\ scan.pc \in Held /\ "unlock" \in Working /\ "unlock" \in Held
        /\ Abandoned = {This.tx} /\ locks' = locks /\ lastBlock' = lastBlock
    BY <1>4, <1>9 DEF Working, Held, Abandoned
  <2>2. PICK s : /\ scan' = s /\ s.todo = scan.todo /\ s.block = scan.block
                 /\ s.pc \in {"unlock", "record"}
    <3>1. CASE scan.pc = "record" /\ scan.k < Len(TransfersOf(This.tx))
      <4> DEFINE s == [scan EXCEPT !.k = @ + 1]
      <4>1. scan' = s
        BY <1>2, <3>1 DEF AfterFault
      <4>2. s.todo = scan.todo /\ s.pc = scan.pc
        BY <1>1, <2>1, EventGood
      <4>3. s.block = scan.block
        BY <1>1 DEF ScanState
      <4> HIDE DEF s
      <4> QED BY <3>1, <4>1, <4>2, <4>3
    <3>2. CASE ~(scan.pc = "record" /\ scan.k < Len(TransfersOf(This.tx)))
      <4> DEFINE s == [scan EXCEPT !.pc = "unlock"]
      <4>1. scan' = s
        BY <1>2, <1>9, <3>2 DEF AfterFault
      <4>2. s.todo = scan.todo /\ s.pc = "unlock" /\ s.block = scan.block
        BY <1>1, <2>1, PcGood
      <4> HIDE DEF s
      <4> QED BY <4>1, <4>2
    <3> QED BY <3>1, <3>2
  <2>3. This.tx \in hurt' /\ Done(This, hurt', rows', posts')
    BY <1>2, <2>1 DEF Done
  <2>4. Settled(chain, This.tx, hurt', rows', posts')
    BY <2>1, <2>3, HandSettled
  <2>5. SettledInv'
    BY <1>1, <1>2, <1>4, <2>1, <2>4, SettledHand
  <2>6. Progress(s, hurt', rows', posts')
    BY <2>2, <2>3 DEF Progress, This
  <2>7. s.pc \in Working
    BY <2>2 DEF Working
  <2>8. Covered(BlockAt(s.block), s, hurt', rows', posts')
    BY <1>1, <2>1, <2>2, <2>7, CoveredStays
  <2> QED BY <1>6, <2>1, <2>2, <2>5, <2>6, <2>8
<1> QED BY <1>2, <1>3, <1>7, <1>8, <1>9 DEF Steps

\* Steps that leave the scan alone: of the chain, of the payments, and of a mark that
\* expires.
LEMMA MissOthers ==
  ASSUME Inv, OnceInv, MissInv, [Next]_vars, locks' \subseteq locks,
         UNCHANGED <<lastBlock, rows, posts, scan, first, hurt, up>>
  PROVE  MissInv'
<1>1. /\ ChainInv /\ ChainInv' /\ FinalStays /\ GoodScan(scan) /\ SettledInv /\ Behind
      /\ Progress(scan, hurt, rows, posts) /\ Covered(BlockAt(scan.block), scan, hurt, rows, posts)
      /\ (scan.pc # "idle" => scan.block = lastBlock + 1) /\ scan \in ScanState
      /\ (~up => scan.pc = "idle")
  BY NextKeeps, NextFinal DEF Inv, MissInv, CoverInv, Behind, ScanInv, GoodScan
<1>2. SettledInv'
  BY <1>1, SettledSame
<1>3. Behind'
  BY <1>1, BehindSame
<1>4. Covered(BlockAt(scan.block)', scan, hurt, rows, posts)
  <2>1. CASE scan.pc \notin Working \cup {"mark"}
    BY <2>1 DEF Covered
  <2>2. CASE scan.pc \in Working \cup {"mark"}
    <3>1. scan.pc # "idle"
      BY <2>2 DEF Working
    <3>2. scan.block \in Int /\ scan.upto \in Int /\ scan.block <= final
      BY <1>1, <3>1 DEF GoodScan, ScanState, ChainInv
    <3>3. PICK n \in Int : n = scan.block
      BY <3>2
    <3>4. BlockAt(n)' = BlockAt(n)
      BY <1>1, <3>2, <3>3, BlockStays
    <3>5. BlockAt(scan.block)' = BlockAt(scan.block)
      BY <3>3, <3>4 DEF BlockAt
    <3> QED BY <1>1, <3>5
  <2> QED BY <2>1, <2>2
<1>5. /\ Progress(scan, hurt, rows, posts)'
      /\ Covered(BlockAt(scan.block), scan, hurt, rows, posts)'
  BY <1>1, <1>4 DEF Progress, Covered, Done, EntriesOf
<1> QED BY <1>1, <1>2, <1>3, <1>5 DEF MissInv, CoverInv, Behind

\* The process dies: the transaction it had marked is counted as met half way.
LEMMA MissCrash ==
  ASSUME Inv, OnceInv, MissInv, Crash, [Next]_vars
  PROVE  MissInv'
<1>1. /\ SettledInv /\ Behind
  BY DEF MissInv, CoverInv, Behind
<1>2. /\ UNCHANGED <<chain, final, lastBlock, locks, rows, posts, first>> /\ ~up' /\ scan' = Idle
      /\ hurt' = IF scan.pc \in {"gas", "record", "debit", "credit", "unlock"}
                 THEN hurt \cup {This.tx} ELSE hurt
  BY DEF Crash, ScanCrash, chainVars
<1>3. SettledInv'
  <2>1. CASE scan.pc \in Held
    <3>1. scan.pc \in Working /\ This.tx \in hurt'
      BY <1>2, <2>1 DEF Held, Working
    <3>2. Done(This, hurt', rows', posts')
      BY <3>1 DEF Done
    <3>3. Settled(chain, This.tx, hurt', rows', posts')
      BY <3>1, <3>2, HandSettled
    <3> QED BY <1>1, <1>2, <3>1, <3>3, SettledHand
  <2>2. CASE scan.pc \notin Held
    BY <1>1, <1>2, <2>2, SettledSame
  <2> QED BY <2>1, <2>2
<1>4. Behind'
  BY <1>1, <1>2, BehindSame
<1>5. Progress(Idle, hurt', rows', posts') /\ Covered(BlockAt(Idle.block), Idle, hurt', rows', posts')
  BY IdleGood DEF Progress, Covered, Working
<1>6. CoverInv'
  BY <1>2, <1>4, <1>5, IdleGood, CoverFrom
<1> QED BY <1>3, <1>6 DEF MissInv

\* The process starts: where the scan has to begin is fixed by the first start.
LEMMA MissStart ==
  ASSUME Inv, OnceInv, MissInv, Start, [Next]_vars
  PROVE  MissInv'
<1>1. /\ SettledInv /\ Behind /\ ChainInv /\ (~up => scan.pc = "idle")
  BY DEF Inv, MissInv, CoverInv, Behind
<1>2. /\ UNCHANGED <<chain, final, locks, rows, posts, hurt>> /\ up' = TRUE /\ scan' = Idle /\ ~up
      /\ lastBlock' = IF lastBlock = None THEN Height - Lookback ELSE lastBlock
      /\ first' = IF first = None THEN Height - Lookback ELSE first
  BY DEF Start, ScanStart, chainVars
<1>3. SettledInv'
  BY <1>1, <1>2, SettledSame DEF Held, Working
<1>4. Behind'
  <2>1. CASE lastBlock # None
    BY <1>1, <1>2, <2>1, BehindSame DEF Behind
  <2>2. CASE lastBlock = None
    <3>1. Height - Lookback \in Int
      BY <1>1, ScanAssumption DEF ChainInv, Height
    <3>2. lastBlock' = first' /\ first' \in Int /\ lastBlock' # None
      BY <1>1, <1>2, <2>2, <3>1, ScanAssumption DEF Behind
    <3>3. \A n \in Int : \A h \in (n + 1) .. n : FALSE
      OBVIOUS
    <3>4. \A h \in (first' + 1) .. lastBlock' : FALSE
      BY <3>2, <3>3, Zenon
    <3> QED BY <3>2, <3>4 DEF Behind
  <2> QED BY <2>1, <2>2
<1>5. Progress(Idle, hurt', rows', posts') /\ Covered(BlockAt(Idle.block), Idle, hurt', rows', posts')
  BY IdleGood DEF Progress, Covered, Working
<1>6. CoverInv'
  BY <1>2, <1>4, <1>5, IdleGood, CoverFrom
<1> QED BY <1>3, <1>6 DEF MissInv

LEMMA InitMiss == Init => MissInv
<1> SUFFICES ASSUME Init PROVE MissInv
  OBVIOUS
<1>1. lastBlock = None /\ first = None /\ locks = {} /\ rows = {} /\ scan = Idle
  BY DEF Init, ScanInit
<1>2. SettledInv
  BY <1>1 DEF SettledInv
<1>3. CoverInv
  BY <1>1, IdleGood DEF CoverInv, Progress, Covered, Working
<1> QED BY <1>2, <1>3 DEF MissInv

LEMMA NextMiss ==
  ASSUME Inv, OnceInv, MissInv, [Next]_vars
  PROVE  MissInv'
<1>1. CASE (Mine \/ Reorg) /\ UNCHANGED <<scanVars, payVars>>
  <2>1. UNCHANGED <<lastBlock, locks, rows, posts, scan, first, hurt, up>>
    BY <1>1 DEF Mine, Reorg, scanVars
  <2> QED BY <2>1, MissOthers
<1>2. CASE ScanNext /\ UNCHANGED payVars
  <2>1. CASE LockExpires
    <3>1. locks' \subseteq locks /\ UNCHANGED <<lastBlock, rows, posts, scan, first, hurt, up>>
      BY <2>1 DEF LockExpires, baseVars
    <3> QED BY <3>1, MissOthers
  <2> QED BY <1>2, <2>1, MissStep, MissFails DEF ScanNext
<1>3. CASE PayNext /\ UNCHANGED scanVars
  <2>1. PICK k \in Ticks : TickStep(k)
    BY <1>3 DEF PayNext
  <2>2. up' = up
    BY <2>1 DEF TickStep, FindPending, MarkOne, Pay, SaveHash, Monitor, Refund, SaveFailed, baseVars
  <2>3. UNCHANGED <<lastBlock, locks, rows, posts, scan, first, hurt>>
    BY <1>3 DEF scanVars
  <2> QED BY <2>2, <2>3, MissOthers
<1>4. CASE UNCHANGED vars
  <2>1. UNCHANGED <<lastBlock, locks, rows, posts, scan, first, hurt, up>>
    BY <1>4 DEF vars, scanVars, baseVars
  <2> QED BY <2>1, MissOthers
<1> QED BY <1>1, <1>2, <1>3, <1>4, MissStart, MissCrash DEF Next

\* Every transfer of a block that counts as processed is booked, or was met half way by
\* a crash or a failed call: the scan skips no block and forgets no transaction, over
\* reorganisations of the chain, marks left in Redis by an earlier run, failed calls,
\* crashes and restarts.
THEOREM NothingIsMissed == Spec => []NothingMissed
<1>1. Inv /\ OnceInv /\ MissInv /\ [Next]_vars => Inv' /\ OnceInv' /\ MissInv'
  BY NextKeeps, NextOnce, NextMiss
<1>2. Inv /\ MissInv => NothingMissed
  <2> SUFFICES ASSUME Inv, MissInv, lastBlock # None, NEW h \in (first + 1) .. lastBlock,
                      NEW i \in DOMAIN BlockAt(h)
               PROVE  \/ chain[h][i].tx \in hurt
                      \/ Exempt(chain[h][i].tx)
                      \/ /\ chain[h][i].tx \in rows
                         /\ chain[h][i].ok => /\ posts[chain[h][i].tx].debit = 1
                                              /\ posts[chain[h][i].tx].credit = 1
    BY DEF NothingMissed, Exempt
  <2>1. BlockAt(h) = chain[h]
    BY DEF BlockAt
  <2>2. chain[h][i] \in EntriesOf(BlockAt(h))
    BY <2>1 DEF EntriesOf
  <2>3. Done(chain[h][i], hurt, rows, posts)
    BY <2>2 DEF MissInv, CoverInv
  <2> QED BY <2>3 DEF Done
<1> QED BY InitInv, InitOnce, InitMiss, <1>1, <1>2, PTL DEF Spec

-----------------------------------------------------------------------------
(* Who pays what. *)

\* The tick will still pay withdrawal w.
Owes(g, w) ==
  /\ g.pc # "idle"
  /\ \E j \in 1 .. Len(g.list) :
       /\ g.list[j] = w
       /\ g.pc = "mark" \/ j > g.i \/ (g.pc = "pay" /\ j = g.i)

\* It has yet to mark it.
Unmarked(g, w) == g.pc = "mark" /\ \E j \in g.i .. Len(g.list) : g.list[j] = w

Distinct(g) == \A i, j \in 1 .. Len(g.list) : i # j => g.list[i] # g.list[j]

\* A withdrawal that some tick will pay is unpaid and is this tick's alone; a row
\* with status init is unpaid and at most on the list of the one tick that is
\* marking, which has not come to it.
ClaimInv ==
  /\ \A k \in Ticks : Distinct(tick[k])
  /\ \A k \in Ticks, w \in Withdrawals : Owes(tick[k], w) => paidNow[w] = 0
  /\ \A k, l \in Ticks, w \in Withdrawals : Owes(tick[k], w) /\ Owes(tick[l], w) => k = l
  /\ \A w \in Withdrawals : wrow[w].status = "init" =>
       paidNow[w] = 0 /\ \A k \in Ticks : Owes(tick[k], w) => Unmarked(tick[k], w)
  /\ ~up => \A k \in Ticks : tick[k] = NoTick
  /\ PaidOncePerStart

LEMMA NoTickOwes ==
  /\ Distinct(NoTick)
  /\ \A w : ~Owes(NoTick, w)
<1>1. NoTick.pc = "idle" /\ NoTick.list = <<>>
  BY DEF NoTick
<1> QED BY <1>1 DEF Distinct, Owes

\* A step of a tick that pays nothing and takes nothing on.
LEMMA TickMoves ==
  ASSUME PayInv, ClaimInv, NEW k \in Ticks, NEW g, tick' = [tick EXCEPT ![k] = g],
         paidNow' = paidNow, up, up' = up, Distinct(g),
         \A w \in Withdrawals : Owes(g, w) => Owes(tick[k], w),
         \A w \in Withdrawals : wrow'[w].status = "init" =>
           wrow[w].status = "init" /\ (Owes(g, w) => Unmarked(g, w))
  PROVE  ClaimInv'
<1>1. tick'[k] = g /\ \A l \in Ticks \ {k} : tick'[l] = tick[l]
  BY DEF PayInv
<1>2. \A l \in Ticks, w \in Withdrawals : Owes(tick'[l], w) => Owes(tick[l], w)
  BY <1>1
<1>3. \A l \in Ticks : Distinct(tick'[l])
  BY <1>1 DEF ClaimInv
<1>4. \A l \in Ticks, w \in Withdrawals : Owes(tick'[l], w) => paidNow'[w] = 0
  BY <1>2 DEF ClaimInv
<1>5. \A j, l \in Ticks, w \in Withdrawals : Owes(tick'[j], w) /\ Owes(tick'[l], w) => j = l
  BY <1>2 DEF ClaimInv
<1>6. ASSUME NEW w \in Withdrawals, wrow'[w].status = "init", NEW l \in Ticks, Owes(tick'[l], w)
      PROVE  Unmarked(tick'[l], w)
  BY <1>1, <1>6 DEF ClaimInv
<1>7. \A w \in Withdrawals : wrow'[w].status = "init" => paidNow'[w] = 0
  BY DEF ClaimInv
<1>8. PaidOncePerStart'
  BY DEF ClaimInv, PaidOncePerStart
<1> QED BY <1>3, <1>4, <1>5, <1>6, <1>7, <1>8 DEF ClaimInv, Distinct, Owes, Unmarked

\* Where Advance leads.
LEMMA AdvanceTo ==
  ASSUME PayInv, NEW k \in Ticks, tick[k].pc # "idle", NEW pc, NEW after
  PROVE  LET t == tick[k]  g == Advance(k, pc, after) IN
           \/ t.i < Len(t.list) /\ g.pc = pc /\ g.i = t.i + 1 /\ g.list = t.list
           \/ t.i = Len(t.list) /\ after = "idle" /\ g = NoTick
           \/ t.i = Len(t.list) /\ after # "idle" /\ g.pc = after /\ g.i = 1 /\ g.list = t.list
<1> DEFINE t == tick[k]
           g == Advance(k, pc, after)
<1>1. t \in TickState /\ t.i \in 1 .. Len(t.list) /\ Len(t.list) \in Nat
  BY DEF PayInv, TickState
<1>2. g = IF t.i < Len(t.list) THEN [t EXCEPT !.pc = pc, !.i = t.i + 1]
          ELSE IF after = "idle" THEN NoTick ELSE [t EXCEPT !.pc = after, !.i = 1]
  BY DEF Advance
<1> HIDE DEF t, g
<1>3. t.i < Len(t.list) \/ t.i = Len(t.list)
  BY <1>1
<1>4. CASE t.i < Len(t.list)
  <2>1. g = [t EXCEPT !.pc = pc, !.i = t.i + 1]
    BY <1>2, <1>4
  <2> QED BY <1>1, <1>4, <2>1 DEF TickState, t, g
<1>5. CASE t.i = Len(t.list) /\ after = "idle"
  BY <1>1, <1>2, <1>5 DEF t, g
<1>6. CASE t.i = Len(t.list) /\ after # "idle"
  <2>1. g = [t EXCEPT !.pc = after, !.i = 1]
    BY <1>1, <1>2, <1>6
  <2> QED BY <1>1, <1>6, <2>1 DEF TickState, t, g
<1> QED BY <1>3, <1>4, <1>5, <1>6

After == {"hash", "wait", "refund", "fail"}

\* Behind a payment a tick takes nothing on.
LEMMA BehindPay ==
  ASSUME PayInv, ClaimInv, NEW k \in Ticks, tick[k].pc \in After, NEW g,
         g = NextPay(k) \/ \E pc \in After : g = [tick[k] EXCEPT !.pc = pc]
  PROVE  Distinct(g) /\ \A w : Owes(g, w) => Owes(tick[k], w)
<1> DEFINE t == tick[k]
<1>1. /\ t \in TickState /\ t.i \in 1 .. Len(t.list) /\ Len(t.list) \in Nat /\ t.pc \in After
      /\ t.pc # "idle"
  BY DEF PayInv, TickState, After
<1>2. Distinct(t)
  BY DEF ClaimInv
<1>3. \/ t.i < Len(t.list) /\ g.pc = "pay" /\ g.i = t.i + 1 /\ g.list = t.list
      \/ g = NoTick
      \/ g.pc \in After /\ g.i = t.i /\ g.list = t.list
  <2>1. CASE g = NextPay(k)
    BY <1>1, <2>1, AdvanceTo DEF NextPay
  <2>2. ASSUME NEW pc \in After, g = [tick[k] EXCEPT !.pc = pc]
        PROVE  g.pc \in After /\ g.i = t.i /\ g.list = t.list
    <3>1. pc \in TickSteps
      BY DEF After, TickSteps
    <3> QED BY <1>1, <2>2, <3>1, StepType
  <2> QED BY <2>1, <2>2
<1> HIDE DEF t
<1>4. CASE g = NoTick
  BY <1>4, NoTickOwes
<1>5. CASE t.i < Len(t.list) /\ g.pc = "pay" /\ g.i = t.i + 1 /\ g.list = t.list
  <2>1. Distinct(g)
    BY <1>2, <1>5 DEF Distinct
  <2>2. ASSUME NEW w, Owes(g, w) PROVE Owes(t, w)
    <3>1. PICK j \in 1 .. Len(t.list) : t.list[j] = w /\ (j > t.i + 1 \/ j = t.i + 1)
      BY <1>5, <2>2 DEF Owes
    <3> QED BY <1>1, <3>1 DEF Owes
  <2> QED BY <2>1, <2>2 DEF t
<1>6. CASE g.pc \in After /\ g.i = t.i /\ g.list = t.list
  <2>1. Distinct(g)
    BY <1>2, <1>6 DEF Distinct
  <2>2. ASSUME NEW w, Owes(g, w) PROVE Owes(t, w)
    <3>1. PICK j \in 1 .. Len(t.list) : t.list[j] = w /\ j > t.i
      BY <1>6, <2>2 DEF Owes, After
    <3> QED BY <1>1, <3>1 DEF Owes
  <2> QED BY <2>1, <2>2 DEF t
<1> QED BY <1>3, <1>4, <1>5, <1>6

\* A save of another status than init makes no row pending.
LEMMA SavesNoInit ==
  ASSUME PayInv, NEW k \in Ticks, tick[k].pc # "idle", NEW s \in Statuses \ {"init"},
         wrow' = wrow \/ wrow' = Save(k, s)
  PROVE  /\ \A w \in Withdrawals : wrow'[w].status = "init" => wrow[w].status = "init"
         /\ wrow' = Save(k, s) => wrow'[Paying(k)].status # "init"
<1>1. Paying(k) \in Withdrawals
  BY PayingType
<1>2. wrow \in [Withdrawals -> [status : Statuses, tx : Hashes]]
  BY DEF PayInv
<1> QED BY <1>1, <1>2 DEF Save

\* The steps behind a payment.
LEMMA BehindKeeps ==
  ASSUME PayInv, ClaimInv, NEW k \in Ticks, SaveHash(k) \/ Monitor(k) \/ Refund(k) \/ SaveFailed(k)
  PROVE  ClaimInv'
<1>1. /\ up /\ up' = up /\ paidNow' = paidNow /\ tick[k].pc \in After
      /\ \E s \in {"processing", "success", "failed"} : wrow' = wrow \/ wrow' = Save(k, s)
      /\ \/ tick' = [tick EXCEPT ![k] = NextPay(k)]
         \/ \E pc \in After : tick' = [tick EXCEPT ![k] = [tick[k] EXCEPT !.pc = pc]]
  BY DEF SaveHash, Monitor, Refund, SaveFailed, chainVars, baseVars, After
<1>2. PICK g : /\ tick' = [tick EXCEPT ![k] = g]
               /\ g = NextPay(k) \/ \E pc \in After : g = [tick[k] EXCEPT !.pc = pc]
  BY <1>1
<1>3. Distinct(g) /\ \A w : Owes(g, w) => Owes(tick[k], w)
  BY <1>1, <1>2, BehindPay
<1>4. tick[k].pc # "idle" /\ tick[k].pc # "mark"
  BY <1>1 DEF After
<1>5. \A w \in Withdrawals : wrow'[w].status = "init" => wrow[w].status = "init"
  BY <1>1, <1>4, SavesNoInit DEF Statuses
<1>6. \A w \in Withdrawals : wrow[w].status = "init" => ~Owes(tick[k], w)
  BY <1>4 DEF ClaimInv, Unmarked
<1> QED BY <1>1, <1>2, <1>3, <1>5, <1>6, TickMoves

\* The first loop.
LEMMA MarkKeeps ==
  ASSUME PayInv, ClaimInv, NEW k \in Ticks, MarkOne(k)
  PROVE  ClaimInv'
<1> DEFINE t == tick[k]
           g == Advance(k, "mark", "pay")
<1>1. /\ up /\ up' = up /\ paidNow' = paidNow /\ t.pc = "mark" /\ t.pc # "idle"
      /\ wrow' = Save(k, "processing") /\ tick' = [tick EXCEPT ![k] = g]
  BY DEF MarkOne, baseVars
<1>2. t \in TickState /\ t.i \in 1 .. Len(t.list) /\ Len(t.list) \in Nat
  BY <1>1 DEF PayInv, TickState
<1>3. \/ t.i < Len(t.list) /\ g.pc = "mark" /\ g.i = t.i + 1 /\ g.list = t.list
      \/ t.i = Len(t.list) /\ g.pc = "pay" /\ g.i = 1 /\ g.list = t.list
  BY <1>1, AdvanceTo
<1>4. /\ \A w \in Withdrawals : wrow'[w].status = "init" => wrow[w].status = "init"
      /\ wrow'[Paying(k)].status # "init" /\ Paying(k) = t.list[t.i]
  BY <1>1, SavesNoInit DEF Statuses, Paying
<1>5. Distinct(t) /\ \A w \in Withdrawals : wrow[w].status = "init" /\ Owes(t, w) => Unmarked(t, w)
  BY DEF ClaimInv
<1> HIDE DEF t, g
<1>6. Distinct(g)
  BY <1>3, <1>5 DEF Distinct
<1>7. ASSUME NEW w, Owes(g, w) PROVE Owes(t, w)
  <2>1. \E j \in 1 .. Len(t.list) : t.list[j] = w
    BY <1>3, <1>7 DEF Owes
  <2> QED BY <1>1, <2>1 DEF Owes
<1>8. ASSUME NEW w \in Withdrawals, wrow'[w].status = "init", Owes(g, w) PROVE Unmarked(g, w)
  <2>1. Unmarked(t, w) /\ w # t.list[t.i]
    BY <1>4, <1>5, <1>7, <1>8
  <2>2. PICK j \in t.i .. Len(t.list) : t.list[j] = w
    BY <2>1 DEF Unmarked
  <2>3. j \in (t.i + 1) .. Len(t.list)
    BY <1>2, <2>1, <2>2
  <2>4. g.pc = "mark" /\ g.i = t.i + 1 /\ g.list = t.list
    BY <1>2, <1>3, <2>3
  <2> QED BY <2>2, <2>3, <2>4 DEF Unmarked
<1> QED BY <1>1, <1>4, <1>6, <1>7, <1>8, TickMoves DEF t

\* A payment: nobody owes it any more.
LEMMA PayKeeps ==
  ASSUME PayInv, ClaimInv, NEW k \in Ticks, Pay(k)
  PROVE  ClaimInv'
<1> DEFINE t == tick[k]
           v == Paying(k)
<1>1. /\ up /\ up' = up /\ wrow' = wrow /\ t.pc = "pay" /\ t.pc # "idle"
      /\ paidNow' = paidNow \/ paidNow' = [paidNow EXCEPT ![v] = @ + 1]
      /\ \/ tick' = [tick EXCEPT ![k].pc = "fail"]
         \/ tick' = [tick EXCEPT ![k].pc = "hash", ![k].tx[v] = <<v, paid[v] + 1>>]
  BY DEF Pay
<1>2. /\ t \in TickState /\ t.i \in 1 .. Len(t.list) /\ Len(t.list) \in Nat
      /\ v \in Withdrawals
  <2>1. v \in Withdrawals
    BY <1>1, PayingType
  <2> QED BY <1>1, <2>1 DEF PayInv, TickState
<1>3. PICK g : /\ tick' = [tick EXCEPT ![k] = g] /\ g.pc \in {"fail", "hash"}
               /\ g.i = t.i /\ g.list = t.list
  <2>1. CASE tick' = [tick EXCEPT ![k].pc = "fail"]
    <3> DEFINE g == [tick[k] EXCEPT !.pc = "fail"]
    <3>1. tick' = [tick EXCEPT ![k] = g]
      BY <2>1
    <3>2. g.pc = "fail" /\ g.i = t.i /\ g.list = t.list
      BY <1>2 DEF TickState
    <3> HIDE DEF g
    <3> QED BY <3>1, <3>2
  <2>2. CASE tick' = [tick EXCEPT ![k].pc = "hash", ![k].tx[v] = <<v, paid[v] + 1>>]
    <3> DEFINE p == <<v, paid[v] + 1>>
               g == [tick[k] EXCEPT !.pc = "hash", !.tx[v] = p]
    <3>1. tick' = [tick EXCEPT ![k] = g]
      BY <2>2
    <3> HIDE DEF p
    <3>2. g.pc = "hash" /\ g.i = t.i /\ g.list = t.list
      BY <1>2 DEF TickState
    <3> HIDE DEF g
    <3> QED BY <3>1, <3>2
  <2> QED BY <1>1, <2>1, <2>2
<1>4. Distinct(t) /\ v = t.list[t.i]
  BY DEF ClaimInv, Paying
<1> HIDE DEF t, v
<1>5. Owes(t, v) /\ ~Unmarked(t, v)
  BY <1>1, <1>2, <1>4 DEF Owes, Unmarked
<1>6. Distinct(g)
  BY <1>3, <1>4 DEF Distinct
<1>7. ASSUME NEW w, Owes(g, w) PROVE Owes(t, w) /\ w # v
  <2>1. PICK j \in 1 .. Len(t.list) : t.list[j] = w /\ j > t.i
    BY <1>3, <1>7 DEF Owes
  <2> QED BY <1>1, <1>2, <1>4, <2>1 DEF Owes, Distinct
<1>8. tick'[k] = g /\ \A l \in Ticks \ {k} : tick'[l] = tick[l]
  BY <1>3 DEF PayInv
<1>9. \A l \in Ticks, w \in Withdrawals : Owes(tick'[l], w) => Owes(tick[l], w) /\ w # v
  BY <1>2, <1>5, <1>7, <1>8 DEF ClaimInv, t
<1>10. wrow[v].status # "init" /\ paidNow[v] = 0
  BY <1>2, <1>5 DEF ClaimInv, t
<1>11. paidNow'[v] \in {0, 1} /\ \A w \in Withdrawals \ {v} : paidNow'[w] = paidNow[w]
  <2>1. paidNow \in [Withdrawals -> Nat]
    BY DEF PayInv
  <2>2. CASE paidNow' = paidNow
    BY <1>10, <2>2
  <2>3. CASE paidNow' = [paidNow EXCEPT ![v] = @ + 1]
    BY <1>2, <1>10, <2>1, <2>3
  <2> QED BY <1>1, <2>2, <2>3
<1>12. \A l \in Ticks : Distinct(tick'[l])
  BY <1>6, <1>8 DEF ClaimInv
<1>13. \A l \in Ticks, w \in Withdrawals : Owes(tick'[l], w) => paidNow'[w] = 0
  BY <1>9, <1>11 DEF ClaimInv
<1>14. \A j, l \in Ticks, w \in Withdrawals : Owes(tick'[j], w) /\ Owes(tick'[l], w) => j = l
  BY <1>9 DEF ClaimInv
<1>15. ASSUME NEW w \in Withdrawals, wrow'[w].status = "init"
       PROVE  paidNow'[w] = 0 /\ \A l \in Ticks : Owes(tick'[l], w) => Unmarked(tick'[l], w)
  <2>1. wrow[w].status = "init" /\ w # v /\ paidNow'[w] = 0
    BY <1>1, <1>10, <1>11, <1>15 DEF ClaimInv
  <2>2. ASSUME NEW l \in Ticks, Owes(tick'[l], w) PROVE Unmarked(tick'[l], w)
    <3>1. Unmarked(tick[l], w)
      BY <1>9, <2>1, <2>2 DEF ClaimInv
    <3>2. l # k
      BY <1>1, <3>1 DEF Unmarked, t
    <3> QED BY <1>8, <3>1, <3>2
  <2> QED BY <2>1, <2>2
<1>16. PaidOncePerStart'
  BY <1>11 DEF ClaimInv, PaidOncePerStart
<1> QED BY <1>1, <1>12, <1>13, <1>14, <1>15, <1>16 DEF ClaimInv, Distinct, Owes, Unmarked

\* A tick begins.  No other is marking, so what it finds is on no list.
LEMMA FindKeeps ==
  ASSUME PayInv, ClaimInv, PromptMarks, NEW k \in Ticks, FindPending(k)
  PROVE  ClaimInv'
<1> DEFINE S == {w \in Withdrawals : wrow[w].status = "init"}
<1>1. /\ up /\ up' = up /\ UNCHANGED <<wrow, paidNow>> /\ S # {}
      /\ \A j \in Ticks : tick[j].pc # "mark"
  BY DEF FindPending, baseVars
<1>2. PICK s \in Orders(S) :
        tick' = [tick EXCEPT ![k] = [pc |-> "mark", list |-> s, i |-> 1,
                                     tx |-> [w \in Withdrawals |-> wrow[w].tx]]]
  BY DEF FindPending
<1>3. /\ s \in Seq(Withdrawals) /\ Len(s) \in Nat
      /\ \A j \in 1 .. Len(s) : s[j] \in S
      /\ \A i, j \in 1 .. Len(s) : i # j => s[i] # s[j]
  <2>1. S \in SUBSET Withdrawals /\ S # {}
    BY <1>1
  <2> HIDE DEF S
  <2>2. /\ s \in Seq(Withdrawals)
        /\ \A j \in 1 .. Len(s) : s[j] \in S
        /\ \A i, j \in 1 .. Len(s) : i # j => s[i] # s[j]
    BY <2>1, OrdersType
  <2>3. Len(s) \in Nat
    BY <2>2
  <2> QED BY <2>2, <2>3
<1>4. \A w \in S : w \in Withdrawals /\ wrow[w].status = "init"
  OBVIOUS
<1> HIDE DEF S
<1>5. PICK g : tick' = [tick EXCEPT ![k] = g] /\ g.pc = "mark" /\ g.i = 1 /\ g.list = s
  <2> DEFINE h == [w \in Withdrawals |-> wrow[w].tx]
  <2> HIDE DEF h
  <2> DEFINE g == [pc |-> "mark", list |-> s, i |-> 1, tx |-> h]
  <2>1. g.pc = "mark" /\ g.i = 1 /\ g.list = s
    OBVIOUS
  <2>2. tick' = [tick EXCEPT ![k] = g]
    BY <1>2 DEF h
  <2> HIDE DEF g
  <2> QED BY <2>1, <2>2
<1>6. tick'[k] = g /\ \A l \in Ticks \ {k} : tick'[l] = tick[l]
  BY <1>5 DEF PayInv
<1>7. ASSUME NEW w, Owes(g, w) PROVE w \in S /\ Unmarked(g, w)
  <2>1. PICK j \in 1 .. Len(s) : s[j] = w
    BY <1>5, <1>7 DEF Owes
  <2> QED BY <1>3, <1>5, <2>1 DEF Unmarked
<1>8. \A w \in S : paidNow[w] = 0 /\ \A l \in Ticks : ~Owes(tick[l], w)
  BY <1>1, <1>4 DEF ClaimInv, Unmarked
<1>9. Distinct(g)
  BY <1>3, <1>5 DEF Distinct
<1>10. \A l \in Ticks : Distinct(tick'[l])
  BY <1>6, <1>9 DEF ClaimInv
<1>11. \A l \in Ticks, w \in Withdrawals : Owes(tick'[l], w) => paidNow'[w] = 0
  BY <1>1, <1>6, <1>7, <1>8 DEF ClaimInv
<1>12. \A j, l \in Ticks, w \in Withdrawals : Owes(tick'[j], w) /\ Owes(tick'[l], w) => j = l
  BY <1>6, <1>7, <1>8 DEF ClaimInv
<1>13. ASSUME NEW w \in Withdrawals, wrow'[w].status = "init"
       PROVE  paidNow'[w] = 0 /\ \A l \in Ticks : Owes(tick'[l], w) => Unmarked(tick'[l], w)
  <2>1. w \in S
    BY <1>1, <1>13 DEF S
  <2> QED BY <1>1, <1>6, <1>7, <1>8, <2>1
<1>14. PaidOncePerStart'
  BY <1>1 DEF ClaimInv, PaidOncePerStart
<1> QED BY <1>1, <1>10, <1>11, <1>12, <1>13, <1>14 DEF ClaimInv, Distinct, Owes, Unmarked

\* A start and a crash find or leave no tick.
LEMMA RestartKeeps ==
  ASSUME PayInv, ClaimInv, Start \/ Crash
  PROVE  ClaimInv'
<1>1. \A k \in Ticks : tick'[k] = NoTick
  BY DEF ClaimInv, Start, PayStart, Crash, PayCrash
<1>2. \A k \in Ticks : Distinct(tick'[k]) /\ \A w : ~Owes(tick'[k], w)
  BY <1>1, NoTickOwes
<1>3. /\ \A w \in Withdrawals : wrow'[w].status = "init" => paidNow'[w] = 0
      /\ \A w \in Withdrawals : paidNow'[w] <= 1
  <2>1. CASE Start
    BY <2>1 DEF Start, PayStart
  <2>2. CASE Crash
    BY <2>2 DEF ClaimInv, Crash, PayCrash, PaidOncePerStart
  <2> QED BY <2>1, <2>2
<1>4. PaidOncePerStart'
  BY <1>3 DEF PaidOncePerStart
<1>5. /\ (\A k \in Ticks : Distinct(tick[k]))'
      /\ (\A k \in Ticks, w \in Withdrawals : ~Owes(tick[k], w))'
  BY <1>2 DEF Distinct, Owes
<1> QED BY <1>1, <1>3, <1>4, <1>5 DEF ClaimInv

LEMMA ClaimsKept ==
  ASSUME PromptMarks, Inv, ClaimInv, [Next]_vars
  PROVE  ClaimInv'
<1>1. PayInv
  BY DEF Inv
<1>2. CASE UNCHANGED <<tick, wrow, paidNow, up>>
  BY <1>2 DEF ClaimInv, PaidOncePerStart, Distinct, Owes, Unmarked
<1>3. CASE (Mine \/ Reorg) /\ UNCHANGED <<scanVars, payVars>>
  BY <1>2, <1>3 DEF Mine, Reorg, payVars
<1>4. CASE ScanNext /\ UNCHANGED payVars
  BY <1>2, <1>4 DEF ScanNext, ScanStep, ProcessBlocks, ProcessBlock, Lock, Gas, Record, Debit, Credit,
                    Unlock, Mark, ScanFails, LockExpires, baseVars, payVars
<1>5. CASE PayNext
  <2>1. PICK k \in Ticks : TickStep(k)
    BY <1>5 DEF PayNext
  <2> QED BY <1>1, <2>1, FindKeeps, MarkKeeps, PayKeeps, BehindKeeps DEF TickStep
<1>6. CASE Start \/ Crash
  BY <1>1, <1>6, RestartKeeps
<1>7. CASE UNCHANGED vars
  BY <1>2, <1>7 DEF vars, baseVars, payVars
<1> QED BY <1>3, <1>4, <1>5, <1>6, <1>7 DEF Next

\* While the process runs a withdrawal is paid at most once, with any number of
\* ticks under way, if a tick has marked its rows before the next one begins
\* (without which it is false).  paidNow <= 1 alone is not inductive: it needs that
\* the lists of the ticks are disjoint where they still have to pay.
THEOREM PaysOncePerStart ==
  ASSUME PromptMarks
  PROVE  Spec => []PaidOncePerStart
<1>1. Init => ClaimInv
  <2> SUFFICES ASSUME Init PROVE ClaimInv
    OBVIOUS
  <2>1. /\ \A k \in Ticks : tick[k] = NoTick
        /\ \A w \in Withdrawals : paidNow[w] = 0
    BY DEF Init, PayInit
  <2>2. \A k \in Ticks : Distinct(tick[k]) /\ \A w : ~Owes(tick[k], w)
    BY <2>1, NoTickOwes
  <2> QED BY <2>1, <2>2 DEF ClaimInv, PaidOncePerStart
<1>2. Inv /\ ClaimInv /\ [Next]_vars => Inv' /\ ClaimInv'
  BY NextKeeps, ClaimsKept
<1>3. ClaimInv => PaidOncePerStart
  BY DEF ClaimInv
<1> QED BY InitInv, <1>1, <1>2, <1>3, PTL DEF Spec

-----------------------------------------------------------------------------
(* What the status of a row says of the chain. *)

\* While no block is replaced, what became of a confirmed transaction stays.
LEMMA ReceiptStays ==
  ASSUME Inv, OnceInv, [Next]_vars, reorgs' = 0, NEW t, NEW n \in Nat \ {0}, Confirmed(t, n)
  PROVE  Confirmed(t, n)' /\ (ReceiptOk(t)' <=> ReceiptOk(t))
<1>1. CASE chain' = chain
  BY <1>1 DEF Confirmed, ReceiptOk, Height, TxsOf
<1>2. CASE Mine
  <2>1. PICK b \in Blocks(mempool) : chain' = Append(chain, b)
    BY <1>2 DEF Mine
  <2>2. b \in Seq(Entries) /\ Len(chain) \in Nat
    BY BlockType DEF Inv, ChainInv
  <2>3. /\ Len(chain') = Len(chain) + 1 /\ chain'[Len(chain) + 1] = b
        /\ \A h \in 1 .. Len(chain) : chain'[h] = chain[h]
    BY <2>1, <2>2 DEF Inv, ChainInv
  <2>4. PICK h \in 1 .. Len(chain) : h <= Len(chain) - n + 1 /\ t \in TxsOf(chain[h])
    BY DEF Confirmed, Height
  <2>5. h \in 1 .. Len(chain') /\ h <= Len(chain') - n + 1 /\ t \in TxsOf(chain'[h])
    BY <2>2, <2>3, <2>4
  <2>6. Confirmed(t, n)'
    BY <2>5 DEF Confirmed, Height, TxsOf
  <2>7. PICK i \in DOMAIN chain[h] : chain[h][i].tx = t
    BY <2>4 DEF TxsOf
  <2>8. h \in DOMAIN chain
    BY <2>4 DEF Inv, ChainInv
  <2>9. t \notin mempool
    BY <2>7, <2>8, OnceAt DEF OnceInv, At
  <2>10. \A j \in DOMAIN b : b[j].tx # t
    BY <2>9, BlockOnce
  <2>11. ASSUME ReceiptOk(t) PROVE ReceiptOk(t)'
    <3>1. PICK g \in 1 .. Len(chain) : \E j \in DOMAIN chain[g] : chain[g][j] = [tx |-> t, ok |-> TRUE]
      BY <2>11 DEF ReceiptOk, Height
    <3>2. g \in 1 .. Len(chain') /\ chain'[g] = chain[g]
      BY <2>2, <2>3
    <3> QED BY <3>1, <3>2 DEF ReceiptOk, Height
  <2>12. ASSUME ReceiptOk(t)' PROVE ReceiptOk(t)
    <3>1. PICK g \in 1 .. Len(chain') : \E j \in DOMAIN chain'[g] : chain'[g][j] = [tx |-> t, ok |-> TRUE]
      BY <2>12 DEF ReceiptOk, Height
    <3>2. PICK j \in DOMAIN chain'[g] : chain'[g][j] = [tx |-> t, ok |-> TRUE]
      BY <3>1
    <3>3. chain'[g][j].tx = t
      BY <3>2
    <3>4. g # Len(chain) + 1
      BY <2>3, <2>10, <3>2, <3>3
    <3>5. g \in 1 .. Len(chain) /\ chain'[g] = chain[g]
      BY <2>2, <2>3, <3>4
    <3> QED BY <3>2, <3>5 DEF ReceiptOk, Height
  <2> QED BY <2>6, <2>11, <2>12
<1>3. CASE Reorg
  BY <1>3 DEF Reorg, Inv, ChainInv
<1> QED BY <1>1, <1>2, <1>3, ChainSteps

\* What a row says is true.
Told(r) ==
  r.status \in {"success", "failed"} =>
    Confirmed(r.tx, PayConf) /\ (r.status = "success" <=> ReceiptOk(r.tx))

OutcomeInv ==
  /\ faults = 0 => \A k \in Ticks : tick[k].pc # "fail"
  /\ faults = 0 /\ reorgs = 0 => \A w \in Withdrawals : Told(wrow[w])

\* Failed calls and reorganisations are counted.
LEMMA CountsGrow ==
  ASSUME Inv, [Next]_vars
  PROVE  (faults' = 0 => faults = 0) /\ (reorgs' = 0 => reorgs = 0)
<1>1. faults \in Nat /\ reorgs \in Nat
  BY DEF Inv, ChainInv
<1>2. faults' \in {faults, faults + 1} /\ reorgs' \in {reorgs, reorgs + 1}
  <2>1. CASE (Mine \/ Reorg) /\ UNCHANGED <<scanVars, payVars>>
    BY <2>1 DEF Mine, Reorg
  <2>2. CASE ScanNext /\ UNCHANGED payVars
    BY <2>2 DEF ScanNext, ScanStep, ProcessBlocks, ProcessBlock, Lock, Gas, Record, Debit, Credit,
                Unlock, Mark, ScanFails, LockExpires, baseVars, chainVars, Fault
  <2>3. CASE PayNext
    BY <2>3 DEF PayNext, TickStep, FindPending, MarkOne, Pay, SaveHash, Monitor, Refund, SaveFailed,
                baseVars, chainVars, Fault
  <2>4. CASE Start \/ Crash
    BY <2>4 DEF Start, Crash, chainVars
  <2>5. CASE UNCHANGED vars
    BY <2>5 DEF vars, baseVars
  <2> QED BY <2>1, <2>2, <2>3, <2>4, <2>5 DEF Next
<1> QED BY <1>1, <1>2

\* A row that a step leaves alone stays true.
LEMMA ToldStays ==
  ASSUME Inv, OnceInv, [Next]_vars, reorgs' = 0, NEW r, Told(r)
  PROVE  Told(r)'
<1>1. PayConf \in Nat \ {0}
  BY PayoutAssumption
<1>2. CASE r.status \in {"success", "failed"}
  <2>1. Confirmed(r.tx, PayConf) /\ (r.status = "success" <=> ReceiptOk(r.tx))
    BY <1>2 DEF Told
  <2>2. Confirmed(r.tx, PayConf)' /\ (ReceiptOk(r.tx)' <=> ReceiptOk(r.tx))
    BY <1>1, <2>1, ReceiptStays
  <2> QED BY <2>1, <2>2 DEF Told
<1> QED BY <1>2 DEF Told

\* What a step writes into a row, while no call fails.
LEMMA RowsTold ==
  ASSUME Inv, OnceInv, OutcomeInv, [Next]_vars, faults' = 0, reorgs' = 0, NEW w \in Withdrawals
  PROVE  \/ wrow'[w] = wrow[w]
         \/ wrow'[w].status \notin {"success", "failed"}
         \/ chain' = chain /\ Told(wrow'[w])
<1>1. /\ wrow \in [Withdrawals -> [status : Statuses, tx : Hashes]] /\ PayInv
      /\ faults \in Nat /\ faults = 0
  BY CountsGrow DEF Inv, PayInv, ChainInv
<1>2. CASE wrow' = wrow
  BY <1>2
<1>3. CASE PayNext
  <2>1. PICK k \in Ticks : TickStep(k)
    BY <1>3 DEF PayNext
  <2>2. tick[k].pc # "fail" /\ ~Fault
    BY <1>1 DEF OutcomeInv, Fault
  <2>3. ASSUME NEW s \in Statuses, wrow' = Save(k, s), tick[k].pc # "idle"
        PROVE  /\ wrow'[w] = wrow[w] \/ w = Paying(k)
               /\ wrow'[Paying(k)].status = s
               /\ wrow'[Paying(k)].tx = tick[k].tx[Paying(k)]
    <3>1. Paying(k) \in Withdrawals
      BY <1>1, <2>3, PayingType
    <3> QED BY <1>1, <2>3, <3>1 DEF Save
  <2>4. CASE MarkOne(k) \/ SaveHash(k)
    <3>1. wrow' = Save(k, "processing") /\ tick[k].pc # "idle"
      BY <2>2, <2>4 DEF MarkOne, SaveHash
    <3> QED BY <2>3, <3>1 DEF Statuses
  <2>5. CASE Monitor(k)
    <3> DEFINE t == tick[k].tx[Paying(k)]
    <3>1. /\ Confirmed(t, PayConf) /\ chain' = chain /\ tick[k].pc # "idle"
          /\ \/ ReceiptOk(t) /\ wrow' = Save(k, "success")
             \/ ~ReceiptOk(t) /\ wrow' = Save(k, "failed")
      BY <2>2, <2>5 DEF Monitor, Succeeded, chainVars
    <3>2. CASE ReceiptOk(t) /\ wrow' = Save(k, "success")
      <4>1. /\ wrow'[w] = wrow[w] \/ w = Paying(k)
            /\ wrow'[Paying(k)].status = "success" /\ wrow'[Paying(k)].tx = t
        BY <2>3, <3>1, <3>2 DEF Statuses
      <4> QED BY <3>1, <3>2, <4>1 DEF Told
    <3>3. CASE ~ReceiptOk(t) /\ wrow' = Save(k, "failed")
      <4>1. /\ wrow'[w] = wrow[w] \/ w = Paying(k)
            /\ wrow'[Paying(k)].status = "failed" /\ wrow'[Paying(k)].tx = t
        BY <2>3, <3>1, <3>3 DEF Statuses
      <4> QED BY <3>1, <3>3, <4>1 DEF Told
    <3> QED BY <3>1, <3>2, <3>3
  <2>6. CASE FindPending(k) \/ Pay(k) \/ Refund(k)
    BY <1>2, <2>6 DEF FindPending, Pay, Refund
  <2>7. ~SaveFailed(k)
    BY <2>2 DEF SaveFailed
  <2> QED BY <2>1, <2>4, <2>5, <2>6, <2>7 DEF TickStep
<1>4. CASE Start
  BY <1>1, <1>4 DEF Start, PayStart
<1>5. CASE Crash
  BY <1>2, <1>5 DEF Crash, PayCrash
<1>6. CASE UNCHANGED payVars
  BY <1>2, <1>6 DEF payVars
<1> QED BY <1>3, <1>4, <1>5, <1>6 DEF Next, vars

LEMMA OutcomeKept ==
  ASSUME Inv, OnceInv, OutcomeInv, [Next]_vars
  PROVE  OutcomeInv'
<1>1. ASSUME faults' = 0, NEW k \in Ticks PROVE tick'[k].pc # "fail"
  <2>1. faults = 0 /\ \A l \in Ticks : tick[l].pc # "fail"
    BY <1>1, CountsGrow DEF OutcomeInv
  <2>2. ~Fault
    BY <1>1, <2>1 DEF Fault
  <2>3. PayInv /\ tick \in [Ticks -> TickState]
    BY DEF Inv, PayInv
  <2>4. CASE PayNext
    <3>1. PICK l \in Ticks : TickStep(l)
      BY <2>4 DEF PayNext
    <3>2. PICK g : tick' = [tick EXCEPT ![l] = g] /\ g.pc # "fail"
      <4>1. CASE FindPending(l)
        <5> DEFINE h == [w \in Withdrawals |-> wrow[w].tx]
        <5>1. PICK s : tick' = [tick EXCEPT ![l] = [pc |-> "mark", list |-> s, i |-> 1, tx |-> h]]
          BY <4>1 DEF FindPending
        <5> HIDE DEF h
        <5> DEFINE g == [pc |-> "mark", list |-> s, i |-> 1, tx |-> h]
        <5>2. g.pc = "mark"
          OBVIOUS
        <5> HIDE DEF g
        <5> QED BY <5>1, <5>2 DEF g
      <4>2. CASE MarkOne(l)
        <5>1. tick[l].pc # "idle" /\ tick' = [tick EXCEPT ![l] = Advance(l, "mark", "pay")]
          BY <4>2 DEF MarkOne
        <5>2. Advance(l, "mark", "pay").pc \in {"mark", "pay"}
          BY <2>3, <5>1, AdvanceTo
        <5> QED BY <5>1, <5>2
      <4>3. CASE Pay(l)
        <5> DEFINE p == <<Paying(l), paid[Paying(l)] + 1>>
                   g == [tick[l] EXCEPT !.pc = "hash", !.tx[Paying(l)] = p]
        <5>1. tick' = [tick EXCEPT ![l] = g]
          BY <2>2, <4>3 DEF Pay
        <5>2. g.pc = "hash"
          BY <2>3 DEF TickState
        <5> HIDE DEF g
        <5> QED BY <5>1, <5>2
      <4>4. CASE SaveHash(l)
        <5> DEFINE g == [tick[l] EXCEPT !.pc = "wait"]
        <5>1. tick' = [tick EXCEPT ![l] = g]
          BY <2>2, <4>4 DEF SaveHash
        <5>2. g.pc = "wait"
          BY <2>3 DEF TickState
        <5> HIDE DEF g
        <5> QED BY <5>1, <5>2
      <4>5. CASE Monitor(l) /\ tick' # [tick EXCEPT ![l] = NextPay(l)]
        <5> DEFINE g == [tick[l] EXCEPT !.pc = "refund"]
        <5>1. tick' = [tick EXCEPT ![l] = g]
          BY <2>2, <4>5 DEF Monitor
        <5>2. g.pc = "refund"
          BY <2>3 DEF TickState
        <5> HIDE DEF g
        <5> QED BY <5>1, <5>2
      <4>6. CASE tick[l].pc # "idle" /\ tick' = [tick EXCEPT ![l] = NextPay(l)]
        BY <2>3, <4>6, AdvanceTo, NoTickType DEF NextPay
      <4>7. ~SaveFailed(l)
        BY <2>1 DEF SaveFailed
      <4>8. Refund(l) \/ Monitor(l) => tick[l].pc # "idle"
        BY DEF Refund, Monitor
      <4>9. Refund(l) => tick' = [tick EXCEPT ![l] = NextPay(l)]
        BY <2>2 DEF Refund
      <4> QED BY <3>1, <4>1, <4>2, <4>3, <4>4, <4>5, <4>6, <4>7, <4>8, <4>9 DEF TickStep
    <3> QED BY <2>1, <2>3, <3>2
  <2>5. CASE tick' = tick
    BY <2>1, <2>5
  <2>6. CASE Crash
    BY <2>6, NoTickType DEF Crash, PayCrash
  <2> QED BY <2>4, <2>5, <2>6 DEF Next, Start, PayStart, vars, payVars
<1>2. ASSUME faults' = 0, reorgs' = 0, NEW w \in Withdrawals PROVE Told(wrow[w])'
  <2>1. Told(wrow[w])
    BY <1>2, CountsGrow DEF OutcomeInv
  <2>2. PICK r : r = wrow[w]
    OBVIOUS
  <2>3. CASE wrow'[w] = r
    <3>1. Told(r)'
      BY <1>2, <2>1, <2>2, ToldStays
    <3> QED BY <2>3, <3>1 DEF Told, Confirmed, ReceiptOk
  <2>4. CASE wrow'[w].status \notin {"success", "failed"}
    BY <2>4 DEF Told
  <2>5. CASE chain' = chain /\ Told(wrow'[w])
    BY <2>5 DEF Told, Confirmed, ReceiptOk, Height, TxsOf
  <2> QED BY <1>2, <2>2, <2>3, <2>4, <2>5, RowsTold
<1> QED BY <1>1, <1>2 DEF OutcomeInv

\* As long as no call fails and no block is replaced, the status of a row that is done
\* tells what became of the payment it names, with any number of overlapping ticks and
\* of restarts.  It rests on OnceInv: a transaction is mined once, so a receipt with a
\* bad status is not followed by a good one.
THEOREM OutcomeIsTrue == Spec => []OutcomeTrue
<1>1. Init => OutcomeInv
  <2> SUFFICES ASSUME Init PROVE OutcomeInv
    OBVIOUS
  <2>1. /\ \A k \in Ticks : tick[k] = NoTick
        /\ \A w \in Withdrawals : wrow[w].status = "none"
    BY DEF Init, PayInit
  <2> QED BY <2>1, NoTickType DEF OutcomeInv, Told
<1>2. Inv /\ OnceInv /\ OutcomeInv /\ [Next]_vars => Inv' /\ OnceInv' /\ OutcomeInv'
  BY NextKeeps, NextOnce, OutcomeKept
<1>3. OutcomeInv => OutcomeTrue
  BY DEF OutcomeInv, OutcomeTrue, Told
<1> QED BY InitInv, InitOnce, <1>1, <1>2, <1>3, PTL DEF Spec

-----------------------------------------------------------------------------
(* What is given back. *)

\* A tick that knows the hash of the payment at hand, and the payment.
Busy == {"hash", "wait", "refund"}

NamedBy(g) == g.tx[g.list[g.i]]

\* The payments that the chain has refused.
Refused ==
  {p \in Payments : p[2] \in 1 .. paid[p[1]] /\ Confirmed(p, PayConf) /\ ~ReceiptOk(p)}

\* The effect of a step of a tick on what it names, on the payments and on the refunds.
LEMMA TickEffect ==
  ASSUME Inv, NEW k \in Ticks, TickStep(k)
  PROVE  LET w == Paying(k)  t == tick[k] IN
         \E g : /\ tick' = [tick EXCEPT ![k] = g] /\ chain' = chain
                /\ \/ /\ g.pc \notin Busy /\ refunds' = refunds
                      /\ \/ paid' = paid
                         \/ t.pc = "pay" /\ paid[w] < MaxPays /\ paid' = [paid EXCEPT ![w] = @ + 1]
                   \/ /\ t.pc \in Busy /\ g.pc \in Busy /\ UNCHANGED <<refunds, paid>>
                      /\ g.list = t.list /\ g.i = t.i /\ g.tx = t.tx
                      /\ g.pc = "refund" => Confirmed(NamedBy(t), PayConf) /\ ~ReceiptOk(NamedBy(t))
                   \/ /\ t.pc = "pay" /\ g.pc = "hash" /\ refunds' = refunds
                      /\ g.list = t.list /\ g.i = t.i /\ NamedBy(g) = <<w, paid[w] + 1>>
                      /\ paid[w] < MaxPays /\ paid' = [paid EXCEPT ![w] = @ + 1]
                   \/ /\ t.pc = "refund" /\ g.pc \notin Busy
                      /\ refunds' = [refunds EXCEPT ![w] = @ + 1] /\ paid' = paid
<1> DEFINE w == Paying(k)
           t == tick[k]
           Effect(g) ==
             \/ /\ g.pc \notin Busy /\ refunds' = refunds
                /\ \/ paid' = paid
                   \/ t.pc = "pay" /\ paid[w] < MaxPays /\ paid' = [paid EXCEPT ![w] = @ + 1]
             \/ /\ t.pc \in Busy /\ g.pc \in Busy /\ UNCHANGED <<refunds, paid>>
                /\ g.list = t.list /\ g.i = t.i /\ g.tx = t.tx
                /\ g.pc = "refund" => Confirmed(NamedBy(t), PayConf) /\ ~ReceiptOk(NamedBy(t))
             \/ /\ t.pc = "pay" /\ g.pc = "hash" /\ refunds' = refunds
                /\ g.list = t.list /\ g.i = t.i /\ NamedBy(g) = <<w, paid[w] + 1>>
                /\ paid[w] < MaxPays /\ paid' = [paid EXCEPT ![w] = @ + 1]
             \/ /\ t.pc = "refund" /\ g.pc \notin Busy
                /\ refunds' = [refunds EXCEPT ![w] = @ + 1] /\ paid' = paid
<1> SUFFICES \E g : tick' = [tick EXCEPT ![k] = g] /\ chain' = chain /\ Effect(g)
  OBVIOUS
<1>1. PayInv /\ t \in TickState /\ (t.pc # "idle" => w \in Withdrawals) /\ w = t.list[t.i]
  BY PayingType DEF Inv, PayInv, Paying
<1>2. ASSUME NEW g, tick' = [tick EXCEPT ![k] = g], chain' = chain, Effect(g)
      PROVE  \E f : tick' = [tick EXCEPT ![k] = f] /\ chain' = chain /\ Effect(f)
  BY <1>2
<1>3. ASSUME NEW pc \in TickSteps
      PROVE  LET g == [t EXCEPT !.pc = pc] IN
               g.pc = pc /\ g.list = t.list /\ g.i = t.i /\ g.tx = t.tx
  BY <1>1 DEF TickState
<1>4. /\ t.pc # "idle" => NextPay(k).pc \notin Busy /\ Advance(k, "mark", "pay").pc \notin Busy
      /\ "fail" \notin Busy /\ {"wait", "refund", "fail"} \subseteq TickSteps
  BY <1>1, AdvanceTo, NoTickType DEF NextPay, Busy, TickSteps
<1>5. CASE FindPending(k)
  <2> DEFINE h == [v \in Withdrawals |-> wrow[v].tx]
  <2>1. PICK s : tick' = [tick EXCEPT ![k] = [pc |-> "mark", list |-> s, i |-> 1, tx |-> h]]
    BY <1>5 DEF FindPending
  <2> HIDE DEF h
  <2> DEFINE g == [pc |-> "mark", list |-> s, i |-> 1, tx |-> h]
  <2>2. g.pc \notin Busy
    BY DEF Busy
  <2>3. UNCHANGED <<chain, refunds, paid>> /\ tick' = [tick EXCEPT ![k] = g]
    BY <1>5, <2>1 DEF FindPending, baseVars
  <2> HIDE DEF g
  <2> QED BY <1>2, <2>2, <2>3
<1>6. CASE MarkOne(k) \/ SaveFailed(k)
  <2>1. /\ t.pc # "idle" /\ UNCHANGED <<chain, refunds, paid>>
        /\ \/ tick' = [tick EXCEPT ![k] = NextPay(k)]
           \/ tick' = [tick EXCEPT ![k] = Advance(k, "mark", "pay")]
    BY <1>6 DEF MarkOne, SaveFailed, baseVars
  <2> QED BY <1>2, <1>4, <2>1
<1>7. CASE Pay(k)
  <2> DEFINE p == <<w, paid[w] + 1>>
             f == [t EXCEPT !.pc = "fail"]
             g == [t EXCEPT !.pc = "hash", !.tx[w] = p]
  <2>1. /\ t.pc = "pay" /\ paid[w] < MaxPays /\ UNCHANGED <<chain, refunds>>
        /\ \/ tick' = [tick EXCEPT ![k] = g] /\ paid' = [paid EXCEPT ![w] = @ + 1]
           \/ /\ tick' = [tick EXCEPT ![k] = f]
              /\ paid' = paid \/ paid' = [paid EXCEPT ![w] = @ + 1]
    BY <1>7 DEF Pay
  <2> HIDE DEF p
  <2>2. f.pc \notin Busy
    BY <1>3, <1>4
  <2>3. g.pc = "hash" /\ g.list = t.list /\ g.i = t.i
    BY <1>1 DEF TickState
  <2>4. NamedBy(g) = p
    <3>1. t.tx \in [Withdrawals -> Hashes] /\ w \in Withdrawals /\ g.list[g.i] = w
      BY <1>1, <2>1, <2>3 DEF TickState
    <3>2. g.tx = [t.tx EXCEPT ![w] = p]
      BY <1>1 DEF TickState
    <3>3. g.tx[w] = p
      BY <3>1, <3>2
    <3> QED BY <3>1, <3>3 DEF NamedBy
  <2> HIDE DEF f, g
  <2>5. CASE tick' = [tick EXCEPT ![k] = g] /\ paid' = [paid EXCEPT ![w] = @ + 1]
    <3>1. Effect(g)
      BY <2>1, <2>3, <2>4, <2>5 DEF p
    <3> QED BY <1>2, <2>1, <2>5, <3>1
  <2>6. CASE tick' = [tick EXCEPT ![k] = f] /\ (paid' = paid \/ paid' = [paid EXCEPT ![w] = @ + 1])
    <3>1. Effect(f)
      BY <2>1, <2>2, <2>6
    <3> QED BY <1>2, <2>1, <2>6, <3>1
  <2> QED BY <2>1, <2>5, <2>6
<1>8. CASE SaveHash(k) \/ Monitor(k)
  <2>1. UNCHANGED <<chain, refunds, paid>> /\ t.pc \in Busy /\ t.pc # "idle"
    BY <1>8 DEF SaveHash, Monitor, chainVars, Busy
  <2>2. \/ tick' = [tick EXCEPT ![k] = NextPay(k)]
        \/ tick' = [tick EXCEPT ![k] = [t EXCEPT !.pc = "fail"]]
        \/ tick' = [tick EXCEPT ![k] = [t EXCEPT !.pc = "wait"]]
        \/ /\ tick' = [tick EXCEPT ![k] = [t EXCEPT !.pc = "refund"]]
           /\ Confirmed(t.tx[w], PayConf) /\ ~ReceiptOk(t.tx[w])
    BY <1>8 DEF SaveHash, Monitor, Succeeded
  <2>3. t.tx[w] = NamedBy(t)
    BY <1>1 DEF NamedBy
  <2>4. CASE tick' = [tick EXCEPT ![k] = NextPay(k)]
    BY <1>2, <1>4, <2>1, <2>4
  <2>5. CASE tick' = [tick EXCEPT ![k] = [t EXCEPT !.pc = "fail"]]
    <3> DEFINE g == [t EXCEPT !.pc = "fail"]
    <3>1. g.pc \notin Busy
      BY <1>3, <1>4
    <3> HIDE DEF g
    <3> QED BY <1>2, <2>1, <2>5, <3>1 DEF g
  <2>6. CASE tick' = [tick EXCEPT ![k] = [t EXCEPT !.pc = "wait"]]
    <3> DEFINE g == [t EXCEPT !.pc = "wait"]
    <3>1. g.pc = "wait" /\ g.pc \in Busy /\ g.list = t.list /\ g.i = t.i /\ g.tx = t.tx
      BY <1>3, <1>4 DEF Busy
    <3> HIDE DEF g
    <3>2. Effect(g)
      BY <2>1, <3>1
    <3> QED BY <1>2, <2>1, <2>6, <3>2 DEF g
  <2>7. CASE /\ tick' = [tick EXCEPT ![k] = [t EXCEPT !.pc = "refund"]]
             /\ Confirmed(t.tx[w], PayConf) /\ ~ReceiptOk(t.tx[w])
    <3> DEFINE g == [t EXCEPT !.pc = "refund"]
    <3>1. g.pc = "refund" /\ g.pc \in Busy /\ g.list = t.list /\ g.i = t.i /\ g.tx = t.tx
      BY <1>3, <1>4 DEF Busy
    <3> HIDE DEF g
    <3>2. Effect(g)
      BY <2>1, <2>3, <2>7, <3>1
    <3> QED BY <1>2, <2>1, <2>7, <3>2 DEF g
  <2> QED BY <2>2, <2>4, <2>5, <2>6, <2>7
<1>9. CASE Refund(k)
  <2>1. /\ UNCHANGED <<chain, paid>> /\ t.pc = "refund" /\ t.pc # "idle"
        /\ refunds' = refunds \/ refunds' = [refunds EXCEPT ![w] = @ + 1]
        /\ \/ tick' = [tick EXCEPT ![k] = NextPay(k)]
           \/ tick' = [tick EXCEPT ![k] = [t EXCEPT !.pc = "fail"]]
    BY <1>9 DEF Refund, chainVars
  <2>2. PICK g : g.pc \notin Busy /\ tick' = [tick EXCEPT ![k] = g]
    BY <1>3, <1>4, <2>1
  <2>3. Effect(g)
    BY <2>1, <2>2
  <2> QED BY <1>2, <2>1, <2>2, <2>3
<1> QED BY <1>5, <1>6, <1>7, <1>8, <1>9 DEF TickStep

Hand(g) == g.list[g.i]

\* The payments that ticks name were sent, and each is named by one tick.
HashInv ==
  /\ \A k \in Ticks : tick[k].pc \in Busy =>
       NamedBy(tick[k]) \in {Hand(tick[k])} \X (1 .. paid[Hand(tick[k])])
  /\ \A k, l \in Ticks : /\ tick[k].pc \in Busy /\ tick[l].pc \in Busy
                         /\ NamedBy(tick[k]) = NamedBy(tick[l])
                         => k = l

\* back[w] are the payments of w that were given back: refused ones, each counted once,
\* and none that a tick still has at hand.
GivenBack(back) ==
  /\ \A w \in Withdrawals :
       /\ IsFiniteSet(back[w]) /\ Cardinality(back[w]) = refunds[w]
       /\ back[w] \subseteq Refused /\ \A p \in back[w] : p[1] = w
  /\ \A k \in Ticks :
       /\ tick[k].pc \in Busy => NamedBy(tick[k]) \notin back[Hand(tick[k])]
       /\ tick[k].pc = "refund" => NamedBy(tick[k]) \in Refused

RefundInv ==
  /\ HashInv
  /\ reorgs = 0 => \E back \in [Withdrawals -> SUBSET Payments] : GivenBack(back)

LEMMA HandType ==
  ASSUME PayInv, NEW k \in Ticks, tick[k].pc # "idle"
  PROVE  Hand(tick[k]) \in Withdrawals /\ Hand(tick[k]) = Paying(k)
BY PayingType DEF Hand, Paying

LEMMA PaidGrows ==
  ASSUME PayInv, PayInv', NEW w \in Withdrawals,
         paid' = paid \/ \E v \in Withdrawals : paid' = [paid EXCEPT ![v] = @ + 1]
  PROVE  1 .. paid[w] \subseteq 1 .. paid'[w]
<1>1. paid[w] \in Nat /\ paid'[w] \in Nat /\ paid \in [Withdrawals -> 0 .. MaxPays]
  BY ChainAssumption DEF PayInv
<1>2. paid'[w] = paid[w] \/ paid'[w] = paid[w] + 1
  BY <1>1
<1> QED BY <1>1, <1>2

LEMMA HashKept ==
  ASSUME Inv, Inv', HashInv, [Next]_vars
  PROVE  HashInv'
<1>1. PayInv /\ PayInv' /\ tick \in [Ticks -> TickState]
  BY DEF Inv, PayInv
<1>2. CASE UNCHANGED <<tick, paid>>
  BY <1>2 DEF HashInv, NamedBy, Hand
<1>3. CASE PayNext
  <2>1. PICK k \in Ticks : TickStep(k)
    BY <1>3 DEF PayNext
  <2> DEFINE w == Paying(k)
  <2>2. PICK g : /\ tick' = [tick EXCEPT ![k] = g]
                 /\ \/ /\ g.pc \notin Busy
                       /\ paid' = paid \/ (tick[k].pc = "pay" /\ paid' = [paid EXCEPT ![w] = @ + 1])
                    \/ /\ tick[k].pc \in Busy /\ g.pc \in Busy /\ paid' = paid
                       /\ g.list = tick[k].list /\ g.i = tick[k].i /\ g.tx = tick[k].tx
                    \/ /\ tick[k].pc = "pay" /\ g.pc \in Busy
                       /\ g.list = tick[k].list /\ g.i = tick[k].i /\ NamedBy(g) = <<w, paid[w] + 1>>
                       /\ paid' = [paid EXCEPT ![w] = @ + 1]
    <3>1. "hash" \in Busy
      BY DEF Busy
    <3> QED BY <2>1, <3>1, TickEffect, Zenon
  <2>3. tick'[k] = g /\ \A l \in Ticks \ {k} : tick'[l] = tick[l]
    BY <1>1, <2>2
  <2>4. \A pc \in Busy : pc # "idle"
    BY DEF Busy
  <2>5. paid' = paid \/ (w \in Withdrawals /\ paid' = [paid EXCEPT ![w] = @ + 1])
    BY <1>1, <2>2, PayingType
  <2>6. ASSUME NEW l \in Ticks, tick[l].pc \in Busy
        PROVE  NamedBy(tick[l]) \in {Hand(tick[l])} \X (1 .. paid'[Hand(tick[l])])
    <3>1. Hand(tick[l]) \in Withdrawals
      BY <1>1, <2>4, <2>6, HandType
    <3>2. 1 .. paid[Hand(tick[l])] \subseteq 1 .. paid'[Hand(tick[l])]
      BY <1>1, <2>5, <3>1, PaidGrows
    <3>3. NamedBy(tick[l]) \in {Hand(tick[l])} \X (1 .. paid[Hand(tick[l])])
      BY <2>6 DEF HashInv
    <3> QED BY <3>2, <3>3
  <2>7. CASE g.pc \notin Busy
    <3>1. \A l \in Ticks : tick'[l].pc \in Busy => l # k /\ tick'[l] = tick[l]
      BY <2>3, <2>7
    <3>2. /\ \A l \in Ticks : tick'[l].pc \in Busy =>
               NamedBy(tick'[l]) \in {Hand(tick'[l])} \X (1 .. paid'[Hand(tick'[l])])
          /\ \A j, l \in Ticks : /\ tick'[j].pc \in Busy /\ tick'[l].pc \in Busy
                                 /\ NamedBy(tick'[j]) = NamedBy(tick'[l])
                                 => j = l
      BY <2>6, <3>1 DEF HashInv
    <3> QED BY <3>2 DEF HashInv, NamedBy, Hand
  <2>8. CASE /\ tick[k].pc \in Busy /\ g.pc \in Busy /\ paid' = paid
             /\ g.list = tick[k].list /\ g.i = tick[k].i /\ g.tx = tick[k].tx
    <3>1. Hand(g) = Hand(tick[k]) /\ NamedBy(g) = NamedBy(tick[k])
      BY <2>8 DEF Hand, NamedBy
    <3>2. \A l \in Ticks : tick'[l].pc \in Busy =>
            tick[l].pc \in Busy /\ Hand(tick'[l]) = Hand(tick[l]) /\ NamedBy(tick'[l]) = NamedBy(tick[l])
      BY <2>3, <2>8, <3>1
    <3>3. /\ \A l \in Ticks : tick'[l].pc \in Busy =>
               NamedBy(tick'[l]) \in {Hand(tick'[l])} \X (1 .. paid'[Hand(tick'[l])])
          /\ \A j, l \in Ticks : /\ tick'[j].pc \in Busy /\ tick'[l].pc \in Busy
                                 /\ NamedBy(tick'[j]) = NamedBy(tick'[l])
                                 => j = l
      BY <2>6, <3>2 DEF HashInv
    <3> QED BY <3>3 DEF HashInv, NamedBy, Hand
  <2>9. CASE /\ tick[k].pc = "pay" /\ g.pc \in Busy
             /\ g.list = tick[k].list /\ g.i = tick[k].i /\ NamedBy(g) = <<w, paid[w] + 1>>
             /\ paid' = [paid EXCEPT ![w] = @ + 1]
    <3>1. Hand(g) = w /\ w \in Withdrawals
      BY <1>1, <2>9, PayingType DEF Hand, Paying
    <3>2. paid[w] \in Nat /\ paid'[w] = paid[w] + 1
      BY <1>1, <2>9, <3>1, ChainAssumption DEF PayInv
    <3> DEFINE p == <<w, paid[w] + 1>>
    <3>3. p \in {w} \X (1 .. paid'[w]) /\ p \notin {w} \X (1 .. paid[w])
      BY <3>2
    <3>4. \A v : v # w => p \notin {v} \X (1 .. paid[v])
      OBVIOUS
    <3> HIDE DEF p
    <3>5. \A l \in Ticks : tick[l].pc \in Busy => NamedBy(tick[l]) # p
      BY <3>3, <3>4 DEF HashInv
    <3>6. NamedBy(g) = p
      BY <2>9 DEF p
    <3>7. /\ \A l \in Ticks : tick'[l].pc \in Busy =>
               NamedBy(tick'[l]) \in {Hand(tick'[l])} \X (1 .. paid'[Hand(tick'[l])])
          /\ \A j, l \in Ticks : /\ tick'[j].pc \in Busy /\ tick'[l].pc \in Busy
                                 /\ NamedBy(tick'[j]) = NamedBy(tick'[l])
                                 => j = l
      BY <2>3, <2>6, <3>1, <3>3, <3>5, <3>6 DEF HashInv
    <3> QED BY <3>7 DEF HashInv, NamedBy, Hand
  <2> QED BY <2>2, <2>7, <2>8, <2>9
<1>4. CASE Crash
  <2>1. \A k \in Ticks : tick'[k].pc \notin Busy
    BY <1>4, NoTickType DEF Crash, PayCrash, Busy
  <2> QED BY <2>1 DEF HashInv
<1> QED BY <1>2, <1>3, <1>4 DEF Next, Start, PayStart, vars, payVars

\* What is refused stays refused while no block is replaced.
LEMMA RefusedStays ==
  ASSUME Inv, Inv', OnceInv, [Next]_vars, reorgs' = 0
  PROVE  Refused \subseteq Refused'
<1> SUFFICES ASSUME NEW p \in Refused PROVE p \in Refused'
  OBVIOUS
<1>1. p \in Payments /\ p[2] \in 1 .. paid[p[1]] /\ Confirmed(p, PayConf) /\ ~ReceiptOk(p)
  BY DEF Refused
<1>2. Confirmed(p, PayConf)' /\ ~ReceiptOk(p)'
  BY <1>1, ReceiptStays, PayoutAssumption
<1>3. p[1] \in Withdrawals
  BY <1>1 DEF Payments
<1>4. paid' = paid \/ \E v \in Withdrawals : paid' = [paid EXCEPT ![v] = @ + 1]
  BY ChainSteps
<1>5. p[2] \in 1 .. paid'[p[1]]
  BY <1>1, <1>3, <1>4, PaidGrows DEF Inv
<1> QED BY <1>1, <1>2, <1>5 DEF Refused

LEMMA RefundKept ==
  ASSUME Inv, Inv', OnceInv, RefundInv, [Next]_vars
  PROVE  RefundInv'
<1>1. PayInv /\ tick \in [Ticks -> TickState] /\ refunds \in [Withdrawals -> Nat] /\ HashInv
  BY DEF Inv, PayInv, RefundInv
<1>2. HashInv'
  BY <1>1, HashKept
<1> SUFFICES ASSUME reorgs' = 0
             PROVE  \E back \in [Withdrawals -> SUBSET Payments] : GivenBack(back)'
  BY <1>2 DEF RefundInv
<1>3. PICK back \in [Withdrawals -> SUBSET Payments] : GivenBack(back)
  BY CountsGrow DEF RefundInv
<1>4. Refused \subseteq Refused'
  BY RefusedStays
<1>5. /\ \A w \in Withdrawals :
           /\ IsFiniteSet(back[w]) /\ Cardinality(back[w]) = refunds[w]
           /\ back[w] \subseteq Refused' /\ \A p \in back[w] : p[1] = w
      /\ \A k \in Ticks : /\ tick[k].pc \in Busy => NamedBy(tick[k]) \notin back[Hand(tick[k])]
                          /\ tick[k].pc = "refund" => NamedBy(tick[k]) \in Refused'
  BY <1>3, <1>4 DEF GivenBack
<1>6. CASE refunds' = refunds /\ tick' = tick
  BY <1>5, <1>6 DEF GivenBack, NamedBy, Hand
<1>7. CASE Crash
  <2>1. /\ \A k \in Ticks : tick'[k].pc \notin Busy /\ tick'[k].pc # "refund"
        /\ refunds' = refunds
    BY <1>7, NoTickType DEF Crash, PayCrash, Busy
  <2> QED BY <1>5, <2>1 DEF GivenBack
<1>8. CASE PayNext
  <2>1. PICK k \in Ticks : TickStep(k)
    BY <1>8 DEF PayNext
  <2> DEFINE w == Paying(k)
             t == tick[k]
  <2>2. PICK g : /\ tick' = [tick EXCEPT ![k] = g]
                 /\ \/ g.pc \notin Busy /\ refunds' = refunds
                    \/ /\ t.pc \in Busy /\ g.pc \in Busy /\ UNCHANGED <<refunds, paid>>
                       /\ g.list = t.list /\ g.i = t.i /\ g.tx = t.tx
                       /\ g.pc = "refund" => Confirmed(NamedBy(t), PayConf) /\ ~ReceiptOk(NamedBy(t))
                    \/ /\ t.pc = "pay" /\ g.pc = "hash" /\ refunds' = refunds
                       /\ g.list = t.list /\ g.i = t.i /\ NamedBy(g) = <<w, paid[w] + 1>>
                    \/ /\ t.pc = "refund" /\ g.pc \notin Busy
                       /\ refunds' = [refunds EXCEPT ![w] = @ + 1]
    BY <2>1, TickEffect, Zenon
  <2>3. tick'[k] = g /\ \A l \in Ticks \ {k} : tick'[l] = tick[l]
    BY <1>1, <2>2
  <2>4. (\A pc \in Busy : pc # "idle") /\ "refund" \in Busy
    BY DEF Busy
  <2>5. ASSUME NEW bk \in [Withdrawals -> SUBSET Payments],
               \A v \in Withdrawals :
                 /\ IsFiniteSet(bk[v]) /\ Cardinality(bk[v]) = refunds'[v]
                 /\ bk[v] \subseteq Refused' /\ \A p \in bk[v] : p[1] = v,
               \A l \in Ticks \ {k} : tick[l].pc \in Busy => NamedBy(tick[l]) \notin bk[Hand(tick[l])],
               g.pc \in Busy => NamedBy(g) \notin bk[Hand(g)],
               g.pc = "refund" => NamedBy(g) \in Refused'
        PROVE  \E b \in [Withdrawals -> SUBSET Payments] : GivenBack(b)'
    <3>1. \A l \in Ticks : /\ tick'[l].pc \in Busy => NamedBy(tick'[l]) \notin bk[Hand(tick'[l])]
                           /\ tick'[l].pc = "refund" => NamedBy(tick'[l]) \in Refused'
      BY <1>5, <2>3, <2>5
    <3>2. GivenBack(bk)'
      BY <2>5, <3>1 DEF GivenBack, NamedBy, Hand
    <3> QED BY <3>2
  <2> HIDE DEF t
  <2>6. CASE g.pc \notin Busy /\ refunds' = refunds
    BY <1>3, <1>5, <2>4, <2>5, <2>6
  <2>7. CASE /\ t.pc \in Busy /\ g.pc \in Busy /\ UNCHANGED <<refunds, paid>>
             /\ g.list = t.list /\ g.i = t.i /\ g.tx = t.tx
             /\ g.pc = "refund" => Confirmed(NamedBy(t), PayConf) /\ ~ReceiptOk(NamedBy(t))
    <3>1. NamedBy(g) = NamedBy(t) /\ Hand(g) = Hand(t)
      BY <2>7 DEF NamedBy, Hand
    <3>2. g.pc = "refund" => NamedBy(g) \in Refused'
      <4> SUFFICES ASSUME g.pc = "refund" PROVE NamedBy(t) \in Refused
        BY <1>4, <3>1
      <4>1. NamedBy(t) \in {Hand(t)} \X (1 .. paid[Hand(t)]) /\ Hand(t) \in Withdrawals
        BY <1>1, <2>4, <2>7, HandType DEF HashInv, t
      <4>2. paid[Hand(t)] \in 0 .. MaxPays /\ MaxPays \in Nat
        BY <1>1, <4>1, ChainAssumption DEF PayInv
      <4>3. NamedBy(t) \in Payments /\ NamedBy(t)[2] \in 1 .. paid[NamedBy(t)[1]]
        BY <4>1, <4>2 DEF Payments
      <4> QED BY <2>7, <4>3 DEF Refused
    <3>3. NamedBy(g) \notin back[Hand(g)]
      BY <1>5, <2>7, <3>1 DEF t
    <3> QED BY <1>3, <1>5, <2>5, <2>7, <3>2, <3>3
  <2>8. CASE /\ t.pc = "pay" /\ g.pc = "hash" /\ refunds' = refunds
             /\ g.list = t.list /\ g.i = t.i /\ NamedBy(g) = <<w, paid[w] + 1>>
    <3>1. Hand(g) = w /\ w \in Withdrawals /\ paid[w] \in Nat
      BY <1>1, <2>8, PayingType, ChainAssumption DEF Hand, Paying, PayInv, t
    <3> DEFINE p == <<w, paid[w] + 1>>
    <3>2. p \notin Refused
      BY <3>1 DEF Refused
    <3>3. p \notin back[w]
      BY <1>3, <3>1, <3>2 DEF GivenBack
    <3>4. NamedBy(g) \notin back[Hand(g)]
      BY <2>8, <3>1, <3>3
    <3> HIDE DEF p
    <3>5. g.pc # "refund"
      BY <2>8
    <3> QED BY <1>3, <1>5, <2>5, <2>8, <3>4, <3>5
  <2>9. CASE /\ t.pc = "refund" /\ g.pc \notin Busy
             /\ refunds' = [refunds EXCEPT ![w] = @ + 1]
    <3> DEFINE p == NamedBy(t)
               bk == [back EXCEPT ![w] = @ \cup {p}]
    <3>1. Hand(t) = w /\ w \in Withdrawals
      BY <1>1, <2>9, HandType, PayingType DEF t
    <3>2. p \in Refused' /\ p \in Payments /\ p[1] = w /\ p \notin back[w]
      <4>1. p \in {w} \X (1 .. paid[w]) /\ p \notin back[w] /\ p \in Refused' /\ p \in Refused
        BY <1>1, <1>3, <1>5, <2>4, <2>9, <3>1 DEF HashInv, GivenBack, t
      <4> QED BY <4>1 DEF Refused
    <3> HIDE DEF p
    <3>3. bk \in [Withdrawals -> SUBSET Payments]
      BY <3>1, <3>2
    <3>4. bk[w] = back[w] \cup {p} /\ \A v \in Withdrawals \ {w} : bk[v] = back[v]
      BY <1>3, <3>1
    <3>5. refunds'[w] = refunds[w] + 1 /\ \A v \in Withdrawals \ {w} : refunds'[v] = refunds[v]
      BY <1>1, <2>9, <3>1
    <3>6. IsFiniteSet(bk[w]) /\ Cardinality(bk[w]) = refunds'[w]
      <4>1. IsFiniteSet(back[w]) /\ Cardinality(back[w]) = refunds[w]
        BY <1>5, <3>1
      <4>2. IsFiniteSet(back[w] \cup {p}) /\ Cardinality(back[w] \cup {p}) = Cardinality(back[w]) + 1
        BY <3>2, <4>1, FS_AddElement
      <4> QED BY <3>4, <3>5, <4>1, <4>2
    <3> HIDE DEF bk
    <3>7. ASSUME NEW v \in Withdrawals
          PROVE  /\ IsFiniteSet(bk[v]) /\ Cardinality(bk[v]) = refunds'[v]
                 /\ bk[v] \subseteq Refused' /\ \A q \in bk[v] : q[1] = v
      BY <1>5, <3>2, <3>4, <3>5, <3>6
    <3>8. ASSUME NEW l \in Ticks \ {k}, tick[l].pc \in Busy
          PROVE  NamedBy(tick[l]) \notin bk[Hand(tick[l])]
      <4>1. NamedBy(tick[l]) # p
        BY <1>1, <2>4, <2>9, <3>8 DEF HashInv, t, p
      <4>2. Hand(tick[l]) \in Withdrawals
        BY <1>1, <2>4, <3>8, HandType
      <4> QED BY <1>5, <3>4, <3>8, <4>1, <4>2
    <3>9. g.pc \notin Busy /\ g.pc # "refund"
      BY <2>4, <2>9 DEF Busy
    <3> QED BY <2>5, <3>3, <3>7, <3>8, <3>9
  <2> QED BY <2>2, <2>6, <2>7, <2>8, <2>9 DEF t
<1> QED BY <1>6, <1>7, <1>8 DEF Next, Start, PayStart, vars, payVars

\* While no block is replaced, an amount is given back at most once for each payment the
\* chain has refused, whatever calls fail, whenever the process dies, and also when several
\* ticks pay the same withdrawal.  A refund is tied to a payment by the set back, which
\* no variable of the model holds: the invariant says that some such set exists.
THEOREM RefundsAreBacked == Spec => []RefundsMatch
<1>1. Init => RefundInv
  <2> SUFFICES ASSUME Init PROVE RefundInv
    OBVIOUS
  <2>1. /\ \A k \in Ticks : tick[k] = NoTick
        /\ \A w \in Withdrawals : refunds[w] = 0
    BY DEF Init, PayInit
  <2>2. \A k \in Ticks : tick[k].pc \notin Busy /\ tick[k].pc # "refund"
    BY <2>1, NoTickType DEF Busy
  <2> DEFINE back == [w \in Withdrawals |-> {}]
  <2>3. back \in [Withdrawals -> SUBSET Payments]
    OBVIOUS
  <2>4. \A w \in Withdrawals : back[w] = {} /\ IsFiniteSet(back[w]) /\ Cardinality(back[w]) = 0
    BY FS_EmptySet
  <2> HIDE DEF back
  <2>5. GivenBack(back)
    BY <2>1, <2>2, <2>4 DEF GivenBack
  <2> QED BY <2>2, <2>3, <2>5 DEF RefundInv, HashInv
<1>2. Inv /\ OnceInv /\ RefundInv /\ [Next]_vars => Inv' /\ OnceInv' /\ RefundInv'
  BY NextKeeps, NextOnce, RefundKept
<1>3. Inv /\ RefundInv => RefundsMatch
  <2> SUFFICES ASSUME Inv, RefundInv, reorgs = 0, NEW w \in Withdrawals
               PROVE  refunds[w] <= Cardinality({p \in {w} \X (1 .. paid[w]) :
                                                   Confirmed(p, PayConf) /\ ~ReceiptOk(p)})
    BY DEF RefundsMatch
  <2> DEFINE S == {p \in {w} \X (1 .. paid[w]) : Confirmed(p, PayConf) /\ ~ReceiptOk(p)}
  <2>1. PICK back \in [Withdrawals -> SUBSET Payments] : GivenBack(back)
    BY DEF RefundInv
  <2>2. Cardinality(back[w]) = refunds[w]
    BY <2>1 DEF GivenBack
  <2>3. back[w] \subseteq S
    <3> SUFFICES ASSUME NEW p \in back[w] PROVE p \in S
      OBVIOUS
    <3>1. p \in Refused /\ p[1] = w
      BY <2>1 DEF GivenBack
    <3>2. p \in Payments /\ p[2] \in 1 .. paid[w] /\ Confirmed(p, PayConf) /\ ~ReceiptOk(p)
      BY <3>1 DEF Refused
    <3>3. p = <<p[1], p[2]>>
      BY <3>2 DEF Payments
    <3> QED BY <3>1, <3>2, <3>3
  <2>4. IsFiniteSet(S)
    <3>1. paid[w] \in Nat
      BY ChainAssumption DEF Inv, PayInv
    <3>2. IsFiniteSet({w}) /\ IsFiniteSet(1 .. paid[w])
      <4>1. IsFiniteSet({w})
        BY FS_Singleton
      <4>2. 1 \in Int /\ paid[w] \in Int
        BY <3>1
      <4> QED BY <4>1, <4>2, FS_Interval
    <3>3. IsFiniteSet({w} \X (1 .. paid[w]))
      BY <3>2, FS_Product
    <3> QED BY <3>3, FS_Subset
  <2> HIDE DEF S
  <2> QED BY <2>2, <2>3, <2>4, FS_Subset DEF S
<1> QED BY InitInv, InitOnce, <1>1, <1>2, <1>3, PTL DEF Spec

=============================================================================
