------------------------------ MODULE ParserScan ------------------------------
(***************************************************************************)
(* BlockchainParser (blockchain-parser/src/blockchainParser.js): every few *)
(* seconds it reads the confirmed blocks it has not seen, and books the    *)
(* transfers of the project's address.  Redis holds the number of the last *)
(* block and a mark on each transaction that is being processed; the       *)
(* database holds one row for a transaction and the accounts.              *)
(*                                                                         *)
(* An account's amount is the amount initData copied from the chain plus   *)
(* the postings made since: the model keeps the postings of each           *)
(* transaction (gas, the sender's side, the receiver's side) and the       *)
(* transactions whose effect the copied amounts already contain.           *)
(***************************************************************************)
EXTENDS ParserChain

CONSTANTS
  ConfirmationBlocks,  \* config.app.confirmationBlocks (6)
  Lookback             \* blocks before the head the first start begins with (100)

ASSUME ScanAssumption ==
  /\ ConfirmationBlocks \in Nat /\ ConfirmationBlocks >= Finality
  /\ Lookback \in Nat /\ None \notin Int

VARIABLES
  lastBlock,  \* Redis: last_processed_block, None before the first start
  locks,      \* Redis: tx:processing marks
  rows,       \* table transaction, by tx_hash
  posts,      \* table account: postings of each transaction
  copied,     \* transactions that the amounts copied by initData contain
  scan,       \* processBlocks: where it is, the block, the last block of this
              \* round, the block's transactions left, and the transfer at hand
  first,      \* history: the block the first start began behind
  hurt        \* history: transactions a crash or a failed call met half way

scanVars == <<lastBlock, locks, rows, posts, copied, scan, first, hurt>>

Steps == {"idle", "block", "lock", "gas", "record", "debit", "credit", "unlock", "mark"}

Idle == [pc |-> "idle", block |-> 0, upto |-> 0, todo |-> <<>>, k |-> 1]

NoPosts == [gas |-> 0, debit |-> 0, credit |-> 0]

ScanInit ==
  /\ lastBlock = None /\ first = None
  /\ locks = {} /\ rows = {} /\ copied = {} /\ hurt = {}
  /\ posts = [t \in Txs |-> NoPosts]
  /\ scan = Idle

-----------------------------------------------------------------------------
(* Which transactions count, and for what. *)

\* The filter of processBlock.
IsRelevant(t) == Info(t).from = Project \/ Info(t).to \in {Project, Usdt}

\* The transfers of a transaction: itself, or the Transfer events that name the
\* project's address.
TransfersOf(t) ==
  CASE Info(t).kind = "bnb"  -> <<[from |-> Info(t).from, to |-> Info(t).to]>>
    [] Info(t).kind = "call" -> SelectSeq(Info(t).logs, LAMBDA l : Project \in {l.from, l.to})
    [] OTHER                 -> <<>>

\* findUserByAddress finds both sides.
BothKnown(l) == {l.from, l.to} \subseteq Accounts

\* The entry at hand.
This == Head(scan.todo)

\* Fault: one confirmation too few.
EarlyBlock == Height - ConfirmationBlocks + 1

ConfirmedBlock == Height - ConfirmationBlocks

-----------------------------------------------------------------------------
(* Steps of processBlocks. *)

\* start(): initData has copied what the chain says at this moment.
ScanStart ==
  /\ lastBlock' = IF lastBlock = None THEN Height - Lookback ELSE lastBlock
  /\ first' = IF first = None THEN Height - Lookback ELSE first
  /\ copied' = UNION {TxsOf(chain[h]) : h \in 1 .. Height}
  /\ scan' = Idle
  /\ UNCHANGED <<locks, rows, posts, hurt>>

\* The timer fires.  While isProcessing holds it does nothing.
ProcessBlocks ==
  /\ up /\ scan.pc = "idle" /\ lastBlock < ConfirmedBlock
  /\ scan' = [Idle EXCEPT !.pc = "block", !.block = lastBlock + 1, !.upto = ConfirmedBlock]
  /\ UNCHANGED <<baseVars, lastBlock, locks, rows, posts, copied, first, hurt>>

\* The next transaction of the block, or the end of the block.
NextTx(todo) ==
  [scan EXCEPT !.todo = todo, !.k = 1, !.pc = IF todo = <<>> THEN "mark" ELSE "lock"]

\* getBlock with its transactions.  A block that is not there is an error, which
\* ends the block like any other.
BlockAt(n) == IF n \in DOMAIN chain THEN chain[n] ELSE <<>>

ProcessBlock ==
  /\ up /\ scan.pc = "block"
  /\ scan' = NextTx(BlockAt(scan.block))
  /\ UNCHANGED <<baseVars, lastBlock, locks, rows, posts, copied, first, hurt>>

\* The filter of processBlock, then isTxProcessing and setTxProcessing: a mark left
\* behind by anyone, an earlier run of this process included, means the transaction
\* is passed over.
Lock ==
  /\ up /\ scan.pc = "lock"
  /\ IF ~IsRelevant(This.tx) \/ This.tx \in locks
     THEN scan' = NextTx(Tail(scan.todo)) /\ UNCHANGED locks
     ELSE scan' = [scan EXCEPT !.pc = "gas"] /\ locks' = locks \cup {This.tx}
  /\ UNCHANGED <<baseVars, lastBlock, rows, posts, copied, first, hurt>>

\* The receipt, the sender's account and the gas it paid.
Gas ==
  /\ up /\ scan.pc = "gas"
  /\ IF Info(This.tx).from \in Accounts
     THEN /\ posts' = [posts EXCEPT ![This.tx].gas = @ + 1]
          /\ scan' = [scan EXCEPT !.pc = IF TransfersOf(This.tx) = <<>> THEN "unlock" ELSE "record"]
     ELSE scan' = [scan EXCEPT !.pc = "unlock"] /\ UNCHANGED posts
  /\ UNCHANGED <<baseVars, lastBlock, locks, rows, copied, first, hurt>>

\* Fault: the row is not looked up, and the index not there to refuse it.
RecordAgain ==
  /\ up /\ scan.pc = "record"
  /\ IF BothKnown(TransfersOf(This.tx)[scan.k])
     THEN /\ rows' = rows \cup {This.tx}
          /\ scan' = [scan EXCEPT !.pc = IF This.ok THEN "debit" ELSE "unlock"]
     ELSE scan' = [scan EXCEPT !.pc = "unlock"] /\ UNCHANGED rows
  /\ UNCHANGED <<baseVars, lastBlock, locks, posts, copied, first, hurt>>

\* The row of the transaction.  It is the claim to book it: whoever finds it
\* there leaves the transaction alone, so later events of the same transaction
\* are passed over as well.
Record ==
  /\ up /\ scan.pc = "record"
  /\ IF BothKnown(TransfersOf(This.tx)[scan.k]) /\ This.tx \notin rows
     THEN /\ rows' = rows \cup {This.tx}
          /\ scan' = [scan EXCEPT !.pc = IF This.ok THEN "debit" ELSE "unlock"]
     ELSE scan' = [scan EXCEPT !.pc = "unlock"] /\ UNCHANGED rows
  /\ UNCHANGED <<baseVars, lastBlock, locks, posts, copied, first, hurt>>

\* The sender's account, then the receiver's.
Debit ==
  /\ up /\ scan.pc = "debit"
  /\ posts' = [posts EXCEPT ![This.tx].debit = @ + 1]
  /\ scan' = [scan EXCEPT !.pc = "credit"]
  /\ UNCHANGED <<baseVars, lastBlock, locks, rows, copied, first, hurt>>

Credit ==
  /\ up /\ scan.pc = "credit"
  /\ posts' = [posts EXCEPT ![This.tx].credit = @ + 1]
  /\ scan' = [scan EXCEPT !.pc = "unlock"]
  /\ UNCHANGED <<baseVars, lastBlock, locks, rows, copied, first, hurt>>

\* The finally of processTransaction.
Unlock ==
  /\ up /\ scan.pc = "unlock"
  /\ locks' = locks \ {This.tx}
  /\ scan' = NextTx(Tail(scan.todo))
  /\ UNCHANGED <<baseVars, lastBlock, rows, posts, copied, first, hurt>>

\* Fault: the whole round counts as processed with its first block.
MarkRound ==
  /\ up /\ scan.pc = "mark"
  /\ lastBlock' = scan.upto
  /\ scan' = IF scan.block < scan.upto
             THEN [scan EXCEPT !.pc = "block", !.block = @ + 1]
             ELSE Idle
  /\ UNCHANGED <<baseVars, locks, rows, posts, copied, first, hurt>>

\* setLastProcessedBlock, and the next block of the round.
Mark ==
  /\ up /\ scan.pc = "mark"
  /\ lastBlock' = scan.block
  /\ scan' = IF scan.block < scan.upto
             THEN [scan EXCEPT !.pc = "block", !.block = @ + 1]
             ELSE Idle
  /\ UNCHANGED <<baseVars, locks, rows, posts, copied, first, hurt>>

-----------------------------------------------------------------------------
(* What goes wrong around it. *)

\* The transactions that a failed call takes out of this block.
Abandoned ==
  CASE scan.pc = "block" -> TxsOf(BlockAt(scan.block))
    [] scan.pc = "lock" -> TxsOf(scan.todo)
    [] scan.pc = "unlock" -> TxsOf(Tail(scan.todo))
    [] scan.pc = "mark" -> {}
    [] OTHER -> {This.tx}

\* Fault: the flag isProcessing is not reset when a round ends early.
StuckAfterFault ==
  CASE scan.pc \in {"block", "lock", "unlock"} -> NextTx(<<>>)
    [] scan.pc = "mark" -> [scan EXCEPT !.pc = "stuck"]
    [] OTHER -> [scan EXCEPT !.pc = "unlock"]

\* Where the catch clauses lead: a call of processTransaction itself ends the
\* transaction (of an ERC20 transfer that could not be recorded, the event), one
\* outside of its try ends the block, which counts as processed all the same, and
\* the failed update of last_processed_block ends the round.
AfterFault ==
  CASE scan.pc \in {"block", "lock", "unlock"} -> NextTx(<<>>)
    [] scan.pc = "record" /\ scan.k < Len(TransfersOf(This.tx)) -> [scan EXCEPT !.k = @ + 1]
    [] scan.pc = "mark" -> Idle
    [] OTHER -> [scan EXCEPT !.pc = "unlock"]

\* A call fails.  Whether the statement it carried was executed is not known.
ScanFails ==
  /\ up /\ scan.pc # "idle" /\ Fault
  /\ scan.pc = "lock" => IsRelevant(This.tx)
  /\ scan' = AfterFault
  /\ hurt' = hurt \cup Abandoned
  /\ \E done \in BOOLEAN :
       /\ rows' = IF done /\ scan.pc = "record" /\ BothKnown(TransfersOf(This.tx)[scan.k])
                  THEN rows \cup {This.tx} ELSE rows
       /\ posts' = IF \/ done /\ scan.pc \in {"debit", "credit"}
                      \/ done /\ scan.pc = "gas" /\ Info(This.tx).from \in Accounts
                   THEN [posts EXCEPT ![This.tx][scan.pc] = @ + 1] ELSE posts
       /\ locks' = CASE done /\ scan.pc = "lock"   -> locks \cup {This.tx}
                     [] done /\ scan.pc = "unlock" -> locks \ {This.tx}
                     [] OTHER                      -> locks
       /\ lastBlock' = IF done /\ scan.pc = "mark" THEN scan.block ELSE lastBlock
  /\ UNCHANGED <<chainVars, up, crashes, copied, first>>

\* The process dies; Redis and the database stay.
ScanCrash ==
  /\ hurt' = IF scan.pc \in {"gas", "record", "debit", "credit", "unlock"}
             THEN hurt \cup {This.tx} ELSE hurt
  /\ scan' = Idle
  /\ UNCHANGED <<lastBlock, locks, rows, posts, copied, first>>

\* A mark in Redis is as old as its time to live (300 seconds).
LockExpires ==
  /\ \E t \in locks : locks' = locks \ {t}
  /\ UNCHANGED <<baseVars, lastBlock, rows, posts, copied, scan, first, hurt>>

ScanStep ==
  \/ ProcessBlocks \/ ProcessBlock \/ Lock \/ Gas \/ Record \/ Debit \/ Credit
  \/ Unlock \/ Mark

ScanNext == ScanStep \/ ScanFails \/ LockExpires

-----------------------------------------------------------------------------
(* Properties. *)

ScanTypeOK ==
  /\ lastBlock \in Int \cup {None} /\ first \in Int \cup {None}
  /\ locks \subseteq Txs /\ rows \subseteq Txs /\ copied \subseteq Txs /\ hurt \subseteq Txs
  /\ posts \in [Txs -> [gas : Nat, debit : Nat, credit : Nat]]
  /\ scan.pc \in Steps /\ scan.todo \in Seq(Entries)
  /\ scan.pc \in {"lock", "gas", "record", "debit", "credit", "unlock"} => scan.todo # <<>>

\* Every row, and so every amount moved, stems from a block that is never
\* replaced: processBlocks reads confirmed blocks only, also when the chain was
\* reorganised after it had asked for the height.
BookedIsFinal == \A t \in rows : \E h \in 1 .. final : t \in TxsOf(chain[h])

\* A block that counts as processed has all its transfers booked: processBlocks
\* neither skips nor forgets one, however often it starts again.  The exceptions
\* are the transactions that were in work when the process died or a call failed;
\* these are lost, as their catch clauses go on.
NothingMissed ==
  lastBlock # None =>
    \A h \in (first + 1) .. lastBlock : \A i \in DOMAIN BlockAt(h) :
      LET t == chain[h][i].tx IN
        \/ t \in hurt
        \/ ~IsRelevant(t) \/ Info(t).from \notin Accounts \/ TransfersOf(t) = <<>>
        \/ ~BothKnown(TransfersOf(t)[1])
        \/ t \in rows /\ (chain[h][i].ok => posts[t].debit = 1 /\ posts[t].credit = 1)

\* The books are those of TransferLedger: a row comes first and exactly one
\* posting on each side follows, in this order, whatever is repeated.
Ledger ==
  INSTANCE TransferLedger WITH
    Transfers <- Txs,
    claimed <- rows,
    debits <- [t \in Txs |-> posts[t].debit],
    credits <- [t \in Txs |-> posts[t].credit]

BooksOnce == Ledger!Spec

\* "使用 Redis 和数据库确保交易不被重复处理": of a transaction nothing is booked
\* twice.  The gas is, as it is posted before the row is looked up.
GasOnce == \A t \in Txs : posts[t].gas <= 1

\* What the copied amounts contain is not booked again on top of them.
CountedOnce ==
  [][\A t \in Txs : posts'[t].debit > posts[t].debit => t \notin copied]_<<posts, copied>>

\* The scan reaches every confirmed block: no failed call and no crash leaves
\* isProcessing set or a block in front of it that it cannot pass.
CatchesUp == <>[](lastBlock # None /\ lastBlock >= ConfirmedBlock)

=============================================================================
