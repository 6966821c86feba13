----------------------------- MODULE ParserChain -----------------------------
(***************************************************************************)
(* The chain as blockchain-parser meets it through its RPC provider, and   *)
(* the process of blockchain-parser as far as both of its services share   *)
(* it: it runs or it is down.  A block that has Finality blocks on top of  *)
(* it is never replaced; younger blocks may be.                            *)
(***************************************************************************)
EXTENDS Integers, Sequences, FiniteSets

CONSTANTS
  Deposits,     \* transactions the users of the chain send by themselves
  DepositInfo,  \* what a deposit is, see Info
  Withdrawals,  \* rows of the table withdrawal
  MaxPays,      \* payments of one withdrawal, over all restarts
  Project,      \* config.blockchain.projectAddress
  Usdt,         \* config.blockchain.usdtAddress
  Accounts,     \* addresses with a row in the table account
  Payee,        \* to_address of the withdrawals
  Finality,     \* blocks on top of a block after which it is never replaced
  BlockSize,    \* transactions in one block
  MaxReorgs,    \* times the youngest blocks are replaced
  MaxCrashes,   \* crashes of the process
  MaxFaults,    \* calls to the node, to Redis or to the database that fail
  MaxTroubles,  \* of all these together
  None

\* The n-th payment of a withdrawal is a transaction of its own.
Payments == Withdrawals \X (1 .. MaxPays)

Txs == Deposits \cup Payments

\* A transaction: its sender and target, what it is (a plain transfer, a call
\* with data, the creation of a contract or a plain transfer of nothing) and
\* the USDT Transfer events of its receipt.
Info(t) ==
  IF t \in Deposits
  THEN DepositInfo[t]
  ELSE [from |-> Project, to |-> Payee, kind |-> "bnb", logs |-> <<>>]

ASSUME ChainAssumption ==
  /\ Deposits \cap Payments = {}
  /\ \A d \in Deposits :
       /\ DOMAIN DepositInfo[d] = {"from", "to", "kind", "logs"}
       /\ DepositInfo[d].kind \in {"bnb", "call", "create", "nothing"}
  /\ {MaxPays, Finality, MaxReorgs, MaxCrashes, MaxFaults, MaxTroubles} \subseteq Nat
  /\ BlockSize \in Nat \ {0}
  /\ IsFiniteSet(Withdrawals)

VARIABLES
  chain,    \* the blocks; a block is a sequence of [tx, ok], ok the receipt's status
  mempool,  \* transactions sent and not in a block
  final,    \* height up to which no block is replaced any more
  up,       \* the process runs
  crashes, faults, reorgs

chainVars == <<chain, mempool, final, reorgs>>
baseVars == <<chain, mempool, final, reorgs, up, crashes, faults>>

Entries == [tx : Txs, ok : BOOLEAN]

Blocks(S) ==
  UNION {{b \in [1 .. n -> [tx : S, ok : BOOLEAN]] :
            \A i, j \in 1 .. n : i # j => b[i].tx # b[j].tx} : n \in 0 .. BlockSize}

TxsOf(b) == {b[i].tx : i \in DOMAIN b}

\* The number of the youngest block, what getBlockNumber returns.
Height == Len(chain)

\* A block is added.  Empty blocks only come while the last transactions still
\* wait for theirs to become final, which keeps the chain of a run finite.
Mine ==
  \E b \in Blocks(mempool) :
    /\ b = <<>> => \E h \in (Height - Finality) .. Height : h > 0 /\ chain[h] # <<>>
    /\ chain' = Append(chain, b)
    /\ mempool' = mempool \ TxsOf(b)
    /\ final' = IF Height + 1 - Finality > final THEN Height + 1 - Finality ELSE final
    /\ UNCHANGED <<reorgs, up, crashes, faults>>

Trouble == reorgs + crashes + faults < MaxTroubles

\* The youngest blocks are dropped; their transactions wait again.
Reorg ==
  /\ Trouble /\ reorgs < MaxReorgs
  /\ \E h \in final .. (Height - 1) :
       /\ chain' = SubSeq(chain, 1, h)
       /\ mempool' = mempool \cup UNION {TxsOf(chain[i]) : i \in (h + 1) .. Height}
  /\ reorgs' = reorgs + 1
  /\ UNCHANGED <<final, up, crashes, faults>>

\* One of the calls a step awaits fails.
Fault ==
  /\ Trouble /\ faults < MaxFaults
  /\ faults' = faults + 1

\* provider.waitForTransaction(hash, n) has an answer: the receipt's status.
Confirmed(t, n) ==
  \E h \in 1 .. Height : h <= Height - n + 1 /\ t \in TxsOf(chain[h])

ReceiptOk(t) ==
  \E h \in 1 .. Height : \E i \in DOMAIN chain[h] : chain[h][i] = [tx |-> t, ok |-> TRUE]

=============================================================================
