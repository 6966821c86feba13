----------------------------- MODULE ParserPayout -----------------------------
(***************************************************************************)
(* WithdrawalService (blockchain-parser/src/withdrawalService.js).  Every  *)
(* five seconds processWithdrawals is called, whether or not an earlier    *)
(* call has returned: it reads the rows with status init, marks them one   *)
(* by one, then pays them one by one and waits for each payment.  A tick   *)
(* is one such call.  It works on the entities it has read: every save     *)
(* writes the whole row as this tick knows it.                             *)
(***************************************************************************)
EXTENDS ParserChain

CONSTANTS
  Ticks,        \* calls that may be under way at a time, numbers; the first free
                \* one is taken
  PayConf,      \* confirmations monitorTransaction waits for (3)
  PromptMarks   \* a tick has marked its rows before the next one begins

ASSUME PayoutAssumption ==
  Ticks \subseteq Nat /\ PayConf \in Nat \ {0} /\ PromptMarks \in BOOLEAN

VARIABLES
  wrow,     \* table withdrawal: status and tx_hash
  tick,     \* tick -> where it is, its list, its place in it, the hashes it knows
  paid,     \* payments of each withdrawal ever sent
  paidNow,  \* of these, the ones since the last start
  refunds   \* times monitorTransaction has given the amount back

payVars == <<wrow, tick, paid, paidNow, refunds>>

Statuses == {"none", "init", "processing", "success", "failed"}

Hashes == Payments \cup {None}

NoTick == [pc |-> "idle", list |-> <<>>, i |-> 1, tx |-> [w \in Withdrawals |-> None]]

PayInit ==
  /\ wrow = [w \in Withdrawals |-> [status |-> "none", tx |-> None]]
  /\ tick = [k \in Ticks |-> NoTick]
  /\ paid = [w \in Withdrawals |-> 0]
  /\ paidNow = [w \in Withdrawals |-> 0]
  /\ refunds = [w \in Withdrawals |-> 0]

\* Fault: a later start leaves the rows as they are.
PayStartKeep ==
  /\ wrow' = [w \in Withdrawals |->
                IF wrow[w].status = "none" THEN [wrow[w] EXCEPT !.status = "init"] ELSE wrow[w]]
  /\ paidNow' = [w \in Withdrawals |-> 0]
  /\ UNCHANGED <<tick, paid, refunds>>

\* initData: the first start creates the rows, every later one sets all of them
\* back to init.
PayStart ==
  /\ wrow' = [w \in Withdrawals |-> [wrow[w] EXCEPT !.status = "init"]]
  /\ paidNow' = [w \in Withdrawals |-> 0]
  /\ UNCHANGED <<tick, paid, refunds>>

PayCrash ==
  /\ tick' = [k \in Ticks |-> NoTick]
  /\ UNCHANGED <<wrow, paid, paidNow, refunds>>

-----------------------------------------------------------------------------

\* The withdrawal at hand, and a save of it.
Paying(k) == tick[k].list[tick[k].i]

Save(k, status) == [wrow EXCEPT ![Paying(k)] = [status |-> status, tx |-> tick[k].tx[Paying(k)]]]

\* The next withdrawal of the loop a tick is in; behind the last one, what follows.
Advance(k, pc, after) ==
  IF tick[k].i < Len(tick[k].list)
  THEN [tick[k] EXCEPT !.pc = pc, !.i = @ + 1]
  ELSE IF after = "idle" THEN NoTick ELSE [tick[k] EXCEPT !.pc = after, !.i = 1]

NextPay(k) == Advance(k, "pay", "idle")

Orders(S) ==
  {s \in [1 .. Cardinality(S) -> S] : \A i, j \in DOMAIN s : i # j => s[i] # s[j]}

\* find({status: 'init'}).
FindPending(k) ==
  /\ up /\ tick[k].pc = "idle" /\ \A j \in Ticks : j < k => tick[j].pc # "idle"
  /\ PromptMarks => \A j \in Ticks : tick[j].pc # "mark"
  /\ LET pending == {w \in Withdrawals : wrow[w].status = "init"} IN
       /\ pending # {}
       /\ \E s \in Orders(pending) :
            tick' = [tick EXCEPT ![k] = [pc |-> "mark", list |-> s, i |-> 1,
                                         tx |-> [w \in Withdrawals |-> wrow[w].tx]]]
  /\ UNCHANGED <<baseVars, wrow, paid, paidNow, refunds>>

\* Fault: the mark is kept in memory only.
MarkInMemory(k) ==
  /\ up /\ tick[k].pc = "mark"
  /\ tick' = [tick EXCEPT ![k] = Advance(k, "mark", "pay")]
  /\ UNCHANGED <<baseVars, wrow, paid, paidNow, refunds>>

\* The first loop: status processing.
MarkOne(k) ==
  /\ up /\ tick[k].pc = "mark"
  /\ wrow' = Save(k, "processing")
  /\ tick' = [tick EXCEPT ![k] = Advance(k, "mark", "pay")]
  /\ UNCHANGED <<baseVars, paid, paidNow, refunds>>

\* withdrawBNB or withdrawUSDT.  A call that fails may have sent the payment.
Pay(k) ==
  /\ up /\ tick[k].pc = "pay" /\ paid[Paying(k)] < MaxPays
  /\ LET w == Paying(k)
         p == <<w, paid[w] + 1>>
         Send == /\ mempool' = mempool \cup {p}
                 /\ paid' = [paid EXCEPT ![w] = @ + 1]
                 /\ paidNow' = [paidNow EXCEPT ![w] = @ + 1]
     IN \/ /\ Send
           /\ tick' = [tick EXCEPT ![k].pc = "hash", ![k].tx[w] = p]
           /\ UNCHANGED faults
        \/ /\ Fault
           /\ Send \/ UNCHANGED <<mempool, paid, paidNow>>
           /\ tick' = [tick EXCEPT ![k].pc = "fail"]
  /\ UNCHANGED <<chain, final, reorgs, up, crashes, wrow, refunds>>

\* The hash is saved with the row.
SaveHash(k) ==
  /\ up /\ tick[k].pc = "hash"
  /\ \/ /\ wrow' = Save(k, "processing")
        /\ tick' = [tick EXCEPT ![k].pc = "wait"]
        /\ UNCHANGED faults
     \/ /\ Fault
        /\ wrow' \in {wrow, Save(k, "processing")}
        /\ tick' = [tick EXCEPT ![k].pc = "fail"]
  /\ UNCHANGED <<chainVars, up, crashes, paid, paidNow, refunds>>

\* Fault: the receipt's status is not looked at.
AlwaysOk(t) == TRUE

Succeeded(t) == ReceiptOk(t)

\* monitorTransaction: the payment is confirmed, well or badly, or the wait fails.
Monitor(k) ==
  /\ up /\ tick[k].pc = "wait"
  /\ LET t == tick[k].tx[Paying(k)] IN
       \/ /\ Confirmed(t, PayConf) /\ Succeeded(t)
          /\ wrow' = Save(k, "success")
          /\ tick' = [tick EXCEPT ![k] = NextPay(k)]
          /\ UNCHANGED faults
       \/ /\ Confirmed(t, PayConf) /\ ~Succeeded(t)
          /\ wrow' = Save(k, "failed")
          /\ tick' = [tick EXCEPT ![k].pc = "refund"]
          /\ UNCHANGED faults
       \/ /\ Fault
          /\ wrow' \in {wrow} \cup IF Confirmed(t, PayConf)
                                   THEN {Save(k, IF Succeeded(t) THEN "success" ELSE "failed")}
                                   ELSE {}
          /\ tick' = [tick EXCEPT ![k].pc = "fail"]
  /\ UNCHANGED <<chainVars, up, crashes, paid, paidNow, refunds>>

\* Fault: the amount is given back again when the first try looked like a failure.
RefundRetried(k) ==
  /\ up /\ tick[k].pc = "refund"
  /\ \/ /\ refunds' = [refunds EXCEPT ![Paying(k)] = @ + 1]
        /\ tick' = [tick EXCEPT ![k] = NextPay(k)]
        /\ UNCHANGED faults
     \/ /\ Fault
        /\ refunds' = [refunds EXCEPT ![Paying(k)] = @ + 1]
        /\ UNCHANGED tick
  /\ UNCHANGED <<chainVars, up, crashes, wrow, paid, paidNow>>

\* The amount goes back to the account.
Refund(k) ==
  /\ up /\ tick[k].pc = "refund"
  /\ \/ /\ refunds' = [refunds EXCEPT ![Paying(k)] = @ + 1]
        /\ tick' = [tick EXCEPT ![k] = NextPay(k)]
        /\ UNCHANGED faults
     \/ /\ Fault
        /\ refunds' \in {refunds, [refunds EXCEPT ![Paying(k)] = @ + 1]}
        /\ tick' = [tick EXCEPT ![k].pc = "fail"]
  /\ UNCHANGED <<chainVars, up, crashes, wrow, paid, paidNow>>

\* The catch clauses: status failed, and on with the next withdrawal.
SaveFailed(k) ==
  /\ up /\ tick[k].pc = "fail"
  /\ wrow' = Save(k, "failed")
  /\ tick' = [tick EXCEPT ![k] = NextPay(k)]
  /\ UNCHANGED <<baseVars, paid, paidNow, refunds>>

TickStep(k) ==
  \/ FindPending(k) \/ MarkOne(k) \/ Pay(k) \/ SaveHash(k) \/ Monitor(k) \/ Refund(k)
  \/ SaveFailed(k)

PayNext == \E k \in Ticks : TickStep(k)

-----------------------------------------------------------------------------
(* Properties. *)

PayTypeOK ==
  /\ wrow \in [Withdrawals -> [status : Statuses, tx : Hashes]]
  /\ \A k \in Ticks :
       /\ tick[k].pc \in {"idle", "mark", "pay", "hash", "wait", "refund", "fail"}
       /\ tick[k].list \in Seq(Withdrawals) /\ tick[k].tx \in [Withdrawals -> Hashes]
       /\ tick[k].pc # "idle" => tick[k].i \in DOMAIN tick[k].list
  /\ paid \in [Withdrawals -> 0 .. MaxPays]
  /\ paidNow \in [Withdrawals -> 0 .. MaxPays] /\ refunds \in [Withdrawals -> Nat]

\* While the process runs it pays a withdrawal once: a row that one tick has
\* marked is not found by the next.  It rests on PromptMarks and stops at a
\* restart, after which initData has every row paid again.
PaidOncePerStart == \A w \in Withdrawals : paidNow[w] <= 1

\* As long as no call fails and the chain keeps its blocks, the status of a row
\* that is done tells what became of the payment the row names.
OutcomeTrue ==
  faults = 0 /\ reorgs = 0 =>
    \A w \in Withdrawals :
      wrow[w].status \in {"success", "failed"} =>
        /\ Confirmed(wrow[w].tx, PayConf)
        /\ (wrow[w].status = "success") <=> ReceiptOk(wrow[w].tx)

\* Money is given back at most once for a payment the chain has refused.
RefundsMatch ==
  reorgs = 0 =>
    \A w \in Withdrawals :
      refunds[w] <= Cardinality({p \in {w} \X (1 .. paid[w]) : Confirmed(p, PayConf) /\ ~ReceiptOk(p)})

\* "这里不需要更新用户余额，因为提现时已经扣减": what is given back was taken before.
\* Nothing in the service takes it.
RefundsTaken == \A w \in Withdrawals : refunds[w] = 0

\* "原子性更新提现状态（防止重复处理）": no withdrawal is paid twice.
PaidOnce == \A w \in Withdrawals : paid[w] <= 1

\* Every withdrawal comes to an end, also when the process dies on the way and is
\* started again.
AllPaidOut == <>[](\A w \in Withdrawals : wrow[w].status \in {"success", "failed"})

=============================================================================
