----------------------------- MODULE NovaSaleProofs -----------------------------
(***************************************************************************)
(* Proofs about NovaLaunch's sale: what the contract promises to every     *)
(* account, that nobody buys who did not ask for it, that the page works   *)
(* on one click at a time, and that it comes to show the contract's state. *)
(***************************************************************************)
EXTENDS NovaSale, FiniteSetTheorems, TLAPS

-----------------------------------------------------------------------------
(* The inductive invariant. *)

\* What a click on withdraw may name.
Ids == Portions \cup {First}
Someone == Accounts \cup {NoAccount}

FlowType == [id : Nat, kind : Kinds, acct : Someone, step : {"approve", "sign", "call", "wait"},
             portions : SUBSET Ids, sig : Someone]

TxType == [id : Nat, kind : Kinds, from : Accounts, sig : Someone, portions : SUBSET Ids,
           res : {"pending", "ok", "failed"}]

QueryType == [of : Accounts, left : SUBSET Facts, seen : [Facts -> BOOLEAN]]

\* The contract: what was paid and what was paid out are what it keeps a record of.
BookInv ==
  /\ now \in Nat
  /\ registered \in [Accounts -> BOOLEAN] /\ participated \in [Accounts -> BOOLEAN]
  /\ withdrawn \in [Accounts -> SUBSET Ids]
  /\ paid \in [Accounts -> Nat] /\ payouts \in [Accounts -> [Portions -> Nat]]
  /\ \A a \in Accounts :
       /\ paid[a] = IF participated[a] THEN 1 ELSE 0
       /\ ~participated[a] => withdrawn[a] = {}
       /\ \A p \in Portions : /\ payouts[a][p] = IF p \in withdrawn[a] THEN 1 ELSE 0
                              /\ p \in withdrawn[a] => UnlockAt[p] <= now

\* The accounts the page and the extension deal with.
AccountInv == selected \in Accounts /\ wallet \in Someone

\* The transactions that wait for the user or for the chain.
Sent == dialogs \cup pool

\* A flow holds a signature for no other account than the one that asked for it.
GoodFlow(f) ==
  /\ f \in FlowType /\ f.id <= clicks
  /\ f.sig \in {NoAccount, f.acct} /\ <<f.kind, f.acct>> \in asked
  /\ f.kind = "withdraw" => f.acct # NoAccount

GoodTx(t) ==
  /\ t \in TxType /\ t.id <= clicks
  /\ t.sig = NoAccount \/ <<t.kind, t.sig>> \in asked

ClickInv ==
  /\ clicks \in Nat
  /\ loading \in BOOLEAN /\ thrown \in BOOLEAN
  /\ (loading <=> flows # {} \/ thrown) /\ (thrown => flows = {})
  /\ \A f, g \in flows : f = g
  /\ \A f \in flows : GoodFlow(f)
  /\ \A t \in Sent : GoodTx(t)

\* A transaction is with the extension or with the chain, and is the only one of its
\* click; a flow has sent none before it waits for it, and waits for its receipt.
TxInv ==
  /\ \A t, u \in Sent : t.id = u.id => t = u
  /\ dialogs \cap pool = {}
  /\ \A t \in dialogs : t.res = "pending"
  /\ \A t \in Sent : \A f \in Waiting(t) :
       /\ f.step = "wait" /\ f.sig = t.sig /\ f.kind = t.kind
       /\ t.res = "ok" => f.acct # NoAccount
  /\ \A t \in pool : t.res # "pending" => Waiting(t) # {}

\* What a query has read can only have grown since.
QueryInv ==
  /\ IsABag(refreshes) /\ IsABag(infos)
  /\ shown \in [Facts -> [of : Someone, val : BOOLEAN]]
  /\ \A r \in BagToSet(refreshes) :
       r \in QueryType /\ \A k \in Facts : r.seen[k] => Fact(k, r.of)
  /\ \A q \in BagToSet(infos) : q.of \in Accounts /\ q.seen \subseteq withdrawn[q.of]

\* Something is under way after which the page asks again or has a reason for doubt: a
\* receipt, or an answer for another account.
Coming ==
  \/ \E t \in pool : t.res = "ok"
  \/ \E r \in BagToSet(refreshes) : r.of # wallet

Connected == wallet # NoAccount /\ SaleContract /\ doubt = {}

\* Each fact is shown as the contract has it, or a query that has read it so is under way.
FactsInv ==
  Connected =>
    \A k \in Facts :
      \/ Coming
      \/ shown[k].of = wallet /\ shown[k].val = Fact(k, wallet)
      \/ \E r \in BagToSet(refreshes) : k \in r.left /\ r.seen[k] = Fact(k, wallet)

\* The same for the portions withdrawn, which are asked for after the participation.
InfoInv ==
  Connected /\ participated[wallet] =>
    \/ Coming
    \/ info.of = wallet /\ info.portions = withdrawn[wallet]
    \/ \E q \in BagToSet(infos) : q.of # wallet \/ q.seen = withdrawn[wallet]
    \/ \E r \in BagToSet(refreshes) : "participated" \in r.left /\ r.seen["participated"]

ShowInv == QueryInv /\ FactsInv /\ InfoInv

Inv == BookInv /\ AccountInv /\ ClickInv /\ TxInv

-----------------------------------------------------------------------------
(* Bags. *)

LEMMA BagAdd ==
  ASSUME NEW B, IsABag(B), NEW x
  PROVE  /\ IsABag(B (+) SetToBag({x}))
         /\ BagToSet(B (+) SetToBag({x})) = BagToSet(B) \cup {x}
BY DEF IsABag, BagToSet, SetToBag, (+)

LEMMA BagEmpty == IsABag(EmptyBag) /\ BagToSet(EmptyBag) = {}
BY DEF IsABag, BagToSet, SetToBag, EmptyBag

LEMMA BagAddNone ==
  ASSUME NEW B, IsABag(B)
  PROVE  IsABag(B (+) EmptyBag) /\ BagToSet(B (+) EmptyBag) = BagToSet(B)
BY DEF IsABag, BagToSet, SetToBag, EmptyBag, (+)

LEMMA BagTake ==
  ASSUME NEW B, IsABag(B), NEW x
  PROVE  /\ IsABag(B (-) SetToBag({x}))
         /\ BagToSet(B) \ {x} \subseteq BagToSet(B (-) SetToBag({x}))
         /\ BagToSet(B (-) SetToBag({x})) \subseteq BagToSet(B)
BY DEF IsABag, BagToSet, SetToBag, (-)

-----------------------------------------------------------------------------
(* The contract. *)

\* A call that is mined takes nothing back of what the contract has recorded.
Grows ==
  \A a \in Accounts :
    /\ registered[a] => registered'[a]
    /\ participated[a] => participated'[a]
    /\ withdrawn[a] \subseteq withdrawn'[a]

LEMMA RegisterKeeps ==
  ASSUME BookInv, NEW t \in TxType, RegisterForSale(t), now' = now
  PROVE  BookInv' /\ Grows
<1>1. t.from \in Accounts
  BY DEF TxType
<1>2. registered' = [registered EXCEPT ![t.from] = TRUE]
  BY DEF RegisterForSale
<1>3. registered' \in [Accounts -> BOOLEAN] /\ \A a \in Accounts : registered[a] => registered'[a]
  BY <1>1, <1>2, Zenon DEF BookInv
<1> QED BY <1>3 DEF BookInv, Grows, RegisterForSale

LEMMA ParticipateKeeps ==
  ASSUME BookInv, NEW t \in TxType, Participate(t), ParticipatePasses(t), now' = now
  PROVE  BookInv' /\ Grows
<1>1. t.from \in Accounts
  BY DEF TxType
<1>2. /\ participated' = [participated EXCEPT ![t.from] = TRUE]
      /\ withdrawn' = [withdrawn EXCEPT ![t.from] = {}]
      /\ paid' = [paid EXCEPT ![t.from] = @ + 1]
      /\ UNCHANGED <<registered, payouts>>
      /\ ~participated[t.from]
  BY DEF Participate, ParticipatePasses
<1>3. withdrawn' = withdrawn
  BY <1>1, <1>2 DEF BookInv
<1>4. paid' \in [Accounts -> Nat] /\ \A a \in Accounts : paid'[a] = IF a = t.from THEN 1 ELSE paid[a]
  BY <1>1, <1>2 DEF BookInv
<1>5. participated' \in [Accounts -> BOOLEAN]
      /\ \A a \in Accounts : participated'[a] = IF a = t.from THEN TRUE ELSE participated[a]
  <2>1. participated' \in [Accounts -> BOOLEAN]
    BY <1>1, <1>2, Zenon DEF BookInv
  <2> QED BY <1>1, <1>2, <2>1 DEF BookInv
<1>6. \A a \in Accounts : /\ paid'[a] = IF participated'[a] THEN 1 ELSE 0
                          /\ ~participated'[a] => withdrawn'[a] = {}
  BY <1>3, <1>4, <1>5 DEF BookInv
<1> QED BY <1>2, <1>3, <1>4, <1>5, <1>6 DEF BookInv, Grows

LEMMA WithdrawKeeps ==
  ASSUME BookInv, NEW t \in TxType, WithdrawMultiplePortions(t), WithdrawPasses(t), now' = now
  PROVE  BookInv' /\ Grows
<1>1. t.from \in Accounts /\ t.portions \subseteq Ids
  BY DEF TxType
<1> DEFINE P == Payable(t)
           x == t.from
<1>2. /\ withdrawn' = [withdrawn EXCEPT ![x] = @ \cup P]
      /\ payouts' = [payouts EXCEPT ![x] = [p \in Portions |-> IF p \in P THEN @[p] + 1 ELSE @[p]]]
      /\ UNCHANGED <<registered, participated, paid>>
  BY DEF WithdrawMultiplePortions
<1>3. P \subseteq Ids /\ \A p \in P : p \notin withdrawn[x] /\ UnlockAt[p] <= now
  BY <1>1 DEF Payable
<1>4. participated[x] \/ P = {}
  BY DEF WithdrawPasses, Payable
<1> HIDE DEF P, x
<1>5. x \in Accounts
  BY <1>1 DEF x
<1>6. /\ withdrawn' \in [Accounts -> SUBSET Ids]
      /\ \A a \in Accounts : withdrawn'[a] = IF a = x THEN withdrawn[x] \cup P ELSE withdrawn[a]
  BY <1>2, <1>3, <1>5 DEF BookInv
<1> DEFINE q == [p \in Portions |-> IF p \in P THEN payouts[x][p] + 1 ELSE payouts[x][p]]
<1>7. payouts' = [payouts EXCEPT ![x] = q]
  BY <1>2
<1>8. /\ q \in [Portions -> Nat]
      /\ \A p \in Portions : q[p] = IF p \in P THEN payouts[x][p] + 1 ELSE payouts[x][p]
  BY <1>5 DEF BookInv
<1> HIDE DEF q
<1>9. /\ payouts' \in [Accounts -> [Portions -> Nat]]
      /\ \A a \in Accounts : payouts'[a] = IF a = x THEN q ELSE payouts[a]
  BY <1>5, <1>7, <1>8 DEF BookInv
<1>10. ASSUME NEW a \in Accounts, NEW p \in Portions
       PROVE  /\ payouts'[a][p] = IF p \in withdrawn'[a] THEN 1 ELSE 0
              /\ p \in withdrawn'[a] => UnlockAt[p] <= now
  <2>1. CASE a = x
    <3>1. payouts'[a][p] = IF p \in P THEN payouts[x][p] + 1 ELSE payouts[x][p]
      BY <1>8, <1>9, <2>1
    <3>2. payouts[x][p] = IF p \in withdrawn[x] THEN 1 ELSE 0
      BY <1>5 DEF BookInv
    <3>3. p \in withdrawn'[a] <=> p \in withdrawn[x] \/ p \in P
      BY <1>6, <2>1
    <3>4. p \in withdrawn[x] => UnlockAt[p] <= now
      BY <1>5 DEF BookInv
    <3> QED BY <1>3, <3>1, <3>2, <3>3, <3>4
  <2>2. CASE a # x
    BY <1>6, <1>9, <2>2 DEF BookInv
  <2> QED BY <2>1, <2>2
<1>11. \A a \in Accounts : ~participated[a] => withdrawn'[a] = {}
  BY <1>4, <1>6 DEF BookInv
<1>12. BookInv'
  BY <1>2, <1>6, <1>9, <1>10, <1>11 DEF BookInv
<1> QED BY <1>2, <1>6, <1>12 DEF Grows

\* Only a transaction that is mined changes what the contract has recorded.
LEMMA Records ==
  ASSUME [Next]_vars
  PROVE  \/ Mine
         \/ /\ UNCHANGED <<registered, participated, withdrawn, paid, payouts>>
            /\ now' = now \/ (now < MaxTime /\ now' = now + 1)
<1>1. CASE Mine
  BY <1>1
<1>2. CASE TimePasses
  BY <1>2 DEF TimePasses, PassTime
<1>3. CASE UNCHANGED vars
  BY <1>3 DEF vars, contractVars, chainVars
<1>4. CASE Answer \/ AnswerInfo \/ NewSigner \/ AccountChanges \/ ApproveSettles \/ SignAnswers
  BY <1>4 DEF Answer, AnswerInfo, NewSigner, AccountChanges, ApproveSettles, SignAnswers,
              contractVars, chainVars
<1>5. CASE CallContract \/ Confirm \/ Reject \/ WaitEnds \/ Reload
  BY <1>5 DEF CallContract, Confirm, Reject, WaitEnds, Reload, chainVars
<1>6. CASE LoadProject \/ JudgePoolStatus \/ LogIn \/ LogOut \/ SelectAccount \/ OpenModal
           \/ CloseModal \/ AnswerFails \/ InfoFails \/ SignFails
  BY <1>6 DEF LoadProject, JudgePoolStatus, LogIn, LogOut, SelectAccount, OpenModal, CloseModal,
              AnswerFails, InfoFails, SignFails, contractVars, chainVars
<1>7. CASE ClickRegister \/ ClickPurchase \/ ClickWithdraw
  BY <1>7 DEF ClickRegister, ClickPurchase, ClickWithdraw, Start, Throw, contractVars, chainVars
<1> QED BY <1>1, <1>2, <1>3, <1>4, <1>5, <1>6, <1>7 DEF Next, Work

LEMMA BookKept ==
  ASSUME Inv, [Next]_vars
  PROVE  BookInv' /\ Grows
<1>1. BookInv
  BY DEF Inv
<1>2. CASE Mine
  <2>1. PICK t \in pool : IF Passes(t) THEN Execute(t)
                          ELSE UNCHANGED <<registered, participated, withdrawn, paid, payouts>>
    BY <1>2 DEF Mine
  <2>2. now' = now /\ t \in TxType
    BY <1>2 DEF Mine, Inv, ClickInv, Sent, GoodTx
  <2>3. CASE ~Passes(t)
    BY <1>1, <2>1, <2>2, <2>3 DEF BookInv, Grows
  <2>4. CASE Passes(t) /\ t.kind = "register" /\ RegisterForSale(t)
    BY <1>1, <2>2, <2>4, RegisterKeeps
  <2>5. CASE Passes(t) /\ t.kind = "participate" /\ Participate(t)
    BY <1>1, <2>2, <2>5, ParticipateKeeps DEF Passes
  <2>6. CASE Passes(t) /\ t.kind = "withdraw" /\ WithdrawMultiplePortions(t)
    BY <1>1, <2>2, <2>6, WithdrawKeeps DEF Passes
  <2> QED BY <2>1, <2>3, <2>4, <2>5, <2>6 DEF Execute
<1>3. CASE /\ UNCHANGED <<registered, participated, withdrawn, paid, payouts>>
           /\ now' = now \/ (now < MaxTime /\ now' = now + 1)
  <2>1. UnlockAt \in [Portions -> Nat]
    BY NovaAssumption
  <2>2. now' \in Nat /\ \A p \in Portions : UnlockAt[p] <= now => UnlockAt[p] <= now'
    BY <1>1, <1>3, <2>1 DEF BookInv
  <2> QED BY <1>1, <1>3, <2>2 DEF BookInv, Grows
<1> QED BY <1>2, <1>3, Records

-----------------------------------------------------------------------------
(* Clicks, their flows and their transactions. *)

SameClicks == UNCHANGED <<flows, loading, thrown, clicks, asked, dialogs, pool>>

ClickSteps ==
  \/ ApproveSettles \/ SignAnswers \/ SignFails \/ CallContract
  \/ Confirm \/ Reject \/ Mine \/ WaitEnds \/ Reload

\* The flow a click starts.
Fresh(f) ==
  /\ f \in FlowType /\ f.id = clicks + 1 /\ f.acct = wallet /\ f.sig = NoAccount
  /\ f.kind = "withdraw" => wallet # NoAccount

LEMMA FlowFresh ==
  ASSUME AccountInv, clicks \in Nat, NEW k \in Kinds, NEW step \in {"approve", "sign", "call"},
         NEW ps \in SUBSET Ids, k = "withdraw" => wallet # NoAccount
  PROVE  Fresh(Flow(k, step, ps))
<1> DEFINE f == Flow(k, step, ps)
<1>1. f \in FlowType
  BY DEF Flow, FlowType, AccountInv, Someone
<1>2. f.id = clicks + 1 /\ f.acct = wallet /\ f.sig = NoAccount /\ f.kind = k
  BY DEF Flow
<1> HIDE DEF f
<1> QED BY <1>1, <1>2 DEF Fresh, f

LEMMA ClickCases ==
  ASSUME AccountInv, clicks \in Nat, [Next]_vars
  PROVE  \/ SameClicks \/ ClickSteps
         \/ ~loading /\ Throw
         \/ \E f : ~loading /\ Start(f) /\ Fresh(f)
<1>1. CASE ClickRegister
  BY <1>1, FlowFresh DEF ClickRegister, CanClick, Kinds
<1>2. CASE ClickPurchase
  BY <1>2, FlowFresh DEF ClickPurchase, Kinds
<1>3. CASE ClickWithdraw
  <2>1. CanWithdraw \in SUBSET Ids
    BY DEF CanWithdraw, Ids
  <2> QED BY <1>3, <2>1, FlowFresh DEF ClickWithdraw, Kinds
<1>4. CASE UNCHANGED vars
  BY <1>4 DEF vars, contractVars, pageVars, SameClicks
<1>5. CASE Answer \/ AnswerInfo \/ NewSigner \/ AccountChanges \/ AnswerFails \/ InfoFails
  BY <1>5 DEF Answer, AnswerInfo, NewSigner, AccountChanges, AnswerFails, InfoFails, contractVars,
              SameClicks
<1>6. CASE LoadProject \/ JudgePoolStatus \/ LogIn \/ LogOut \/ SelectAccount \/ OpenModal \/ CloseModal
  BY <1>6 DEF LoadProject, JudgePoolStatus, LogIn, LogOut, SelectAccount, OpenModal, CloseModal,
              contractVars, SameClicks
<1>7. CASE TimePasses
  BY <1>7 DEF TimePasses, PassTime, pageVars, SameClicks
<1> QED BY <1>1, <1>2, <1>3, <1>4, <1>5, <1>6, <1>7 DEF Next, Work, ClickSteps

LEMMA AccountKept ==
  ASSUME AccountInv, [Next]_vars
  PROVE  AccountInv'
<1>1. CASE UNCHANGED <<selected, wallet>>
  BY <1>1 DEF AccountInv
<1>2. CASE AccountChanges \/ LogIn \/ LogOut \/ SelectAccount \/ Reload
  BY <1>2 DEF AccountChanges, HearSwitch, LogIn, Connect, LogOut, Disconnect, SelectAccount, Switch,
              Reload, AccountInv, Someone
<1>3. CASE UNCHANGED vars
  BY <1>1, <1>3 DEF vars, walletVars
<1>4. CASE Answer \/ AnswerInfo \/ NewSigner \/ AnswerFails \/ InfoFails \/ TimePasses
  BY <1>1, <1>4 DEF Answer, AnswerInfo, NewSigner, SignerReady, AnswerFails, InfoFails, TimePasses,
                    walletVars
<1>5. CASE LoadProject \/ JudgePoolStatus \/ OpenModal \/ CloseModal
           \/ ClickRegister \/ ClickPurchase \/ ClickWithdraw
  BY <1>1, <1>5 DEF LoadProject, JudgePoolStatus, OpenModal, CloseModal, ClickRegister,
                    ClickPurchase, ClickWithdraw, Start, Throw, walletVars
<1>6. CASE ApproveSettles \/ SignAnswers \/ SignFails \/ CallContract \/ Confirm \/ Reject \/ Mine \/ WaitEnds
  BY <1>1, <1>6 DEF ApproveSettles, SignAnswers, SignFails, CallContract, Confirm, Reject, Mine,
                    WaitEnds, walletVars
<1> QED BY <1>2, <1>3, <1>4, <1>5, <1>6 DEF Next, Work

\* A flow takes a step before it has sent its transaction.
LEMMA StepKeeps ==
  ASSUME ClickInv, TxInv, NEW f \in flows, NEW g, f.step # "wait", Step(f, g), GoodFlow(g), g.id = f.id,
         UNCHANGED <<loading, thrown, clicks, asked, dialogs, pool>>
  PROVE  ClickInv' /\ TxInv'
<1>1. flows = {f} /\ flows' = {g}
  BY DEF ClickInv, Step
<1>2. ClickInv'
  BY <1>1 DEF ClickInv, Sent, GoodFlow, GoodTx
<1>3. \A t \in Sent : Waiting(t) = {} /\ Waiting(t)' = {}
  BY <1>1 DEF TxInv, Waiting
<1> QED BY <1>2, <1>3 DEF TxInv, Sent

\* A flow ends, and no transaction of it is left with the chain.
LEMMA SettleKeeps ==
  ASSUME ClickInv, TxInv, NEW f \in flows, Settle(f), UNCHANGED <<thrown, clicks, asked>>,
         dialogs' \subseteq dialogs, pool' \subseteq pool,
         \A t \in pool' : t.id # f.id
  PROVE  ClickInv' /\ TxInv'
<1>1. flows = {f} /\ flows' = {} /\ loading' = FALSE
  BY DEF ClickInv, Settle
<1>2. loading' \in BOOLEAN
  BY <1>1, Zenon
<1>3. ClickInv'
  BY <1>1, <1>2 DEF ClickInv, Sent, GoodFlow, GoodTx
<1>4. \A t \in pool' : t.res = "pending"
  BY <1>1 DEF TxInv, Waiting
<1>5. \A t : Waiting(t)' = {}
  BY <1>1 DEF Waiting
<1>6. Sent' \subseteq Sent
  BY DEF Sent
<1> QED BY <1>3, <1>4, <1>5, <1>6 DEF TxInv

\* A click.
LEMMA StartKeeps ==
  ASSUME ClickInv, TxInv, NEW f, ~loading, Start(f), Fresh(f)
  PROVE  ClickInv' /\ TxInv'
<1>1. /\ flows = {} /\ flows' = {f} /\ clicks' = clicks + 1 /\ loading' = TRUE
      /\ asked' = asked \cup {<<f.kind, f.acct>>} /\ UNCHANGED <<dialogs, pool>>
      /\ thrown = FALSE /\ thrown' = FALSE
  BY DEF ClickInv, Start, contractVars
<1>2. loading' \in BOOLEAN /\ thrown' \in BOOLEAN /\ (loading' <=> flows' # {} \/ thrown')
      /\ ~thrown'
  BY <1>1, Zenon
<1>3. GoodFlow(f)'
  <2>1. f \in FlowType /\ f.id <= clicks' /\ f.sig = NoAccount /\ <<f.kind, f.acct>> \in asked'
    BY <1>1 DEF Fresh, ClickInv
  <2>2. f.kind = "withdraw" => f.acct # NoAccount
    BY DEF Fresh
  <2> QED BY <2>1, <2>2 DEF GoodFlow
<1>4. \A t \in Sent : t.id \in Nat /\ t.id <= clicks
  BY DEF ClickInv, GoodTx, TxType
<1>5. ASSUME NEW t \in Sent PROVE GoodTx(t)'
  <2>1. GoodTx(t) /\ t.id \in Nat /\ clicks \in Nat
    BY <1>4 DEF ClickInv
  <2>2. t.id <= clicks' /\ asked \subseteq asked'
    BY <1>1, <2>1 DEF GoodTx
  <2> QED BY <2>1, <2>2 DEF GoodTx
<1>6. ClickInv'
  BY <1>1, <1>2, <1>3, <1>5 DEF ClickInv, Sent
<1>7. \A t \in Sent : Waiting(t)' = {}
  <2>1. f.id = clicks + 1 /\ clicks \in Nat
    BY DEF Fresh, ClickInv
  <2> QED BY <1>1, <1>4, <2>1 DEF Waiting
<1>8. \A t \in Sent : Waiting(t) = {}
  BY <1>1 DEF Waiting
<1> QED BY <1>1, <1>6, <1>7, <1>8 DEF TxInv, Sent

\* A click throws.
LEMMA ThrowKeeps ==
  ASSUME ClickInv, TxInv, ~loading, Throw
  PROVE  ClickInv' /\ TxInv'
<1>1. flows = {} /\ flows' = {} /\ loading' = TRUE /\ thrown' = TRUE /\ clicks' = clicks + 1
  BY DEF ClickInv, Throw
<1>2. UNCHANGED <<asked, dialogs, pool>>
  BY DEF Throw, contractVars
<1>3. loading' \in BOOLEAN /\ thrown' \in BOOLEAN /\ (loading' <=> flows' # {} \/ thrown')
  BY <1>1, Zenon
<1>4. Sent' = Sent /\ \A t : Waiting(t)' = Waiting(t)
  BY <1>1, <1>2 DEF Sent, Waiting
<1>5. ASSUME NEW t \in Sent PROVE GoodTx(t)'
  <2>1. GoodTx(t) /\ t.id \in Nat /\ clicks \in Nat
    BY DEF ClickInv, GoodTx, TxType
  <2> QED BY <1>1, <1>2, <2>1 DEF GoodTx
<1>6. ClickInv'
  BY <1>1, <1>3, <1>4, <1>5 DEF ClickInv
<1> QED BY <1>2, <1>4, <1>6 DEF TxInv

\* The call of a flow goes to the extension.
LEMMA CallKeeps ==
  ASSUME ClickInv, TxInv, AccountInv, NEW f \in flows, f.step = "call",
         dialogs' = dialogs \cup {Tx(f)}, Step(f, [f EXCEPT !.step = "wait"]),
         UNCHANGED <<loading, thrown, clicks, asked, pool>>
  PROVE  ClickInv' /\ TxInv'
<1> DEFINE g == [f EXCEPT !.step = "wait"]
<1>0. PICK x : x = Tx(f)
  OBVIOUS
<1>1. f \in FlowType /\ GoodFlow(f)
  BY DEF ClickInv, GoodFlow
<1>2. g \in FlowType
  BY <1>1 DEF FlowType
<1>3. g.id = f.id /\ g.kind = f.kind /\ g.acct = f.acct
  BY <1>1 DEF FlowType
<1>4. g.sig = f.sig /\ g.step = "wait"
  BY <1>1 DEF FlowType
<1>5. x \in TxType
  BY <1>0, <1>1 DEF Tx, FlowType, TxType, AccountInv
<1>6. x.id = f.id /\ x.kind = f.kind /\ x.sig = f.sig /\ x.res = "pending"
  BY <1>0 DEF Tx
<1>7. flows = {f} /\ flows' = {g} /\ dialogs' = dialogs \cup {x}
  BY <1>0 DEF ClickInv, Step
<1> HIDE DEF g
<1>8. GoodFlow(g)' /\ GoodTx(x)'
  <2>1. GoodFlow(g)'
    BY <1>1, <1>2, <1>3, <1>4 DEF GoodFlow
  <2>2. GoodTx(x)'
    BY <1>1, <1>5, <1>6 DEF GoodFlow, GoodTx
  <2> QED BY <2>1, <2>2
<1>9. \A t \in Sent : t.id # f.id
  BY DEF TxInv, Waiting
<1>10. Sent' = Sent \cup {x}
  BY <1>7 DEF Sent
<1>11. ClickInv'
  BY <1>7, <1>8, <1>10 DEF ClickInv, GoodTx
<1>12. \A t \in Sent : Waiting(t) = {} /\ Waiting(t)' = {}
  BY <1>3, <1>7, <1>9 DEF Waiting
<1>13. Waiting(x)' = {g}
  BY <1>3, <1>6, <1>7 DEF Waiting
<1>14. x \notin Sent
  BY <1>6, <1>9
<1>15. \A t \in Sent' : \A h \in Waiting(t)' :
         /\ h.step = "wait" /\ h.sig = t.sig /\ h.kind = t.kind
         /\ t.res = "ok" => h.acct # NoAccount
  BY <1>3, <1>4, <1>6, <1>10, <1>12, <1>13
<1>16. \A t, u \in Sent' : t.id = u.id => t = u
  BY <1>6, <1>9, <1>10 DEF TxInv
<1>17. dialogs' \cap pool' = {} /\ (\A t \in dialogs' : t.res = "pending")
       /\ \A t \in pool' : t.res # "pending" => Waiting(t)' # {}
  BY <1>6, <1>7, <1>12, <1>14 DEF TxInv, Sent
<1> QED BY <1>11, <1>15, <1>16, <1>17 DEF TxInv

\* The user confirms.
LEMMA ConfirmKeeps ==
  ASSUME ClickInv, TxInv, Confirm
  PROVE  ClickInv' /\ TxInv'
<1>1. PICK t \in dialogs : dialogs' = dialogs \ {t} /\ pool' = pool \cup {t}
  BY DEF Confirm
<1>2. UNCHANGED <<flows, loading, thrown, clicks, asked>>
  BY DEF Confirm, pageVars
<1>3. Sent' = Sent
  BY <1>1 DEF Sent
<1>4. \A u : Waiting(u)' = Waiting(u)
  BY <1>2 DEF Waiting
<1>5. ClickInv'
  BY <1>2, <1>3 DEF ClickInv, GoodFlow, GoodTx
<1> QED BY <1>1, <1>3, <1>4, <1>5 DEF TxInv

\* The user rejects.
LEMMA RejectKeeps ==
  ASSUME ClickInv, TxInv, Reject
  PROVE  ClickInv' /\ TxInv'
<1>1. PICK t \in dialogs : /\ dialogs' = dialogs \ {t}
                           /\ flows' = flows \ Waiting(t)
                           /\ loading' = (loading /\ Waiting(t) = {})
  BY DEF Reject
<1>2. UNCHANGED <<pool, thrown, clicks, asked>>
  BY DEF Reject
<1>3. CASE Waiting(t) = {}
  <2>1. flows' = flows
    BY <1>1, <1>3
  <2>2. loading' = loading
    BY <1>1, <1>3, Zenon DEF ClickInv
  <2>3. \A u : Waiting(u)' = Waiting(u)
    BY <2>1 DEF Waiting
  <2>4. Sent' \subseteq Sent
    BY <1>1, <1>2 DEF Sent
  <2>5. ClickInv'
    BY <1>2, <2>1, <2>2, <2>4 DEF ClickInv, GoodFlow, GoodTx
  <2> QED BY <1>1, <1>2, <2>3, <2>4, <2>5 DEF TxInv
<1>4. CASE Waiting(t) # {}
  <2>1. PICK f \in flows : f.id = t.id
    BY <1>4 DEF Waiting
  <2>2. flows' = flows \ {f}
    BY <1>1, <2>1 DEF ClickInv, Waiting
  <2>3. loading' = FALSE
    BY <1>1, <1>4, Zenon
  <2>4. \A u \in pool : u.id # f.id
    BY <1>1, <2>1 DEF TxInv, Sent
  <2> QED BY <1>1, <1>2, <2>2, <2>3, <2>4, SettleKeeps DEF Settle
<1> QED BY <1>3, <1>4

\* A transaction is mined.
LEMMA MineKeeps ==
  ASSUME ClickInv, TxInv, Mine
  PROVE  ClickInv' /\ TxInv'
<1> DEFINE Res(u) == IF Passes(u) THEN "ok" ELSE "failed"
<1>1. PICK t \in pool : /\ t.res = "pending"
                        /\ pool' = (pool \ {t}) \cup (IF Waiting(t) = {} THEN {} ELSE {[t EXCEPT !.res = Res(t)]})
  BY DEF Mine
<1>2. UNCHANGED <<flows, loading, thrown, clicks, asked, dialogs>>
  BY DEF Mine
<1>3. t \in Sent /\ GoodTx(t) /\ t \in TxType
  BY DEF Sent, ClickInv, GoodTx
<1> DEFINE r == Res(t)
           d == [t EXCEPT !.res = r]
<1>4. r \in {"ok", "failed"} /\ (r = "ok" <=> Passes(t))
  OBVIOUS
<1> HIDE DEF r
<1>5. d \in TxType
  BY <1>3, <1>4 DEF TxType
<1>6. d.id = t.id /\ d.kind = t.kind /\ d.from = t.from
  BY <1>3 DEF TxType
<1>7. d.sig = t.sig /\ d.res = r
  BY <1>3 DEF TxType
<1>8. pool' = (pool \ {t}) \cup (IF Waiting(t) = {} THEN {} ELSE {d})
  BY <1>1 DEF r
<1> HIDE DEF d
<1>9. GoodTx(d)
  BY <1>3, <1>5, <1>6, <1>7 DEF GoodTx
<1>10. t \notin dialogs
  BY DEF TxInv
<1>11. Sent' = (Sent \ {t}) \cup (IF Waiting(t) = {} THEN {} ELSE {d})
  BY <1>2, <1>8, <1>10 DEF Sent
<1>12. \A u \in Sent' : GoodTx(u)
  BY <1>9, <1>11 DEF ClickInv
<1>13. ClickInv'
  BY <1>2, <1>12 DEF ClickInv, GoodFlow, GoodTx
<1>14. \A u : Waiting(u)' = Waiting(u)
  BY <1>2 DEF Waiting
<1>15. Waiting(d) = Waiting(t)
  BY <1>6 DEF Waiting
<1>16. ASSUME NEW f \in Waiting(t), Passes(t) PROVE f.acct # NoAccount
  <2>1. f \in flows /\ GoodFlow(f) /\ f.sig = t.sig /\ f.kind = t.kind
    BY <1>3 DEF TxInv, Waiting, ClickInv
  <2>2. t.from \in Accounts /\ t.kind \in Kinds /\ NoAccount \notin Accounts
    BY <1>3, NovaAssumption DEF TxType
  <2>3. CASE t.kind = "withdraw"
    BY <2>1, <2>3 DEF GoodFlow
  <2>4. CASE t.kind \in {"register", "participate"}
    <3>1. t.sig = t.from
      BY <1>16, <2>4 DEF Passes, RegisterPasses, ParticipatePasses
    <3> QED BY <2>1, <2>2, <3>1 DEF GoodFlow
  <2> QED BY <2>2, <2>3, <2>4 DEF Kinds
<1>17. \A u \in Sent' : \A f \in Waiting(u) :
         /\ f.step = "wait" /\ f.sig = u.sig /\ f.kind = u.kind
         /\ u.res = "ok" => f.acct # NoAccount
  BY <1>3, <1>4, <1>6, <1>7, <1>11, <1>15, <1>16 DEF TxInv
<1>18. \A u, v \in Sent' : u.id = v.id => u = v
  BY <1>3, <1>6, <1>11 DEF TxInv
<1>19. \A u \in pool' : u.res # "pending" => Waiting(u) # {}
  BY <1>8, <1>15 DEF TxInv
<1>20. dialogs' \cap pool' = {}
  <2>1. d \notin dialogs
    BY <1>4, <1>7 DEF TxInv
  <2> QED BY <1>2, <1>8, <2>1 DEF TxInv
<1> QED BY <1>2, <1>13, <1>14, <1>17, <1>18, <1>19, <1>20 DEF TxInv

LEMMA ClickKept ==
  ASSUME Inv, [Next]_vars
  PROVE  ClickInv' /\ TxInv'
<1>1. ClickInv /\ TxInv /\ AccountInv /\ clicks \in Nat
  BY DEF Inv, ClickInv
<1>2. CASE SameClicks
  <2>1. Sent' = Sent /\ \A t : Waiting(t)' = Waiting(t)
    BY <1>2 DEF SameClicks, Sent, Waiting
  <2>2. ClickInv'
    BY <1>1, <1>2, <2>1 DEF SameClicks, ClickInv, GoodFlow, GoodTx
  <2> QED BY <1>1, <1>2, <2>1, <2>2 DEF SameClicks, TxInv
<1>3. CASE \E f : ~loading /\ Start(f) /\ Fresh(f)
  BY <1>1, <1>3, StartKeeps
<1>10. CASE ~loading /\ Throw
  BY <1>1, <1>10, ThrowKeeps
<1>4. CASE ApproveSettles
  <2>1. PICK f \in flows : f.step = "approve" /\ Step(f, [f EXCEPT !.step = "sign"])
    BY <1>4 DEF ApproveSettles
  <2> DEFINE g == [f EXCEPT !.step = "sign"]
  <2>2. f \in FlowType /\ GoodFlow(f)
    BY <1>1 DEF ClickInv, GoodFlow
  <2>3. g \in FlowType
    BY <2>2 DEF FlowType
  <2>4. g.id = f.id /\ g.kind = f.kind /\ g.acct = f.acct /\ g.sig = f.sig
    BY <2>2 DEF FlowType
  <2>5. Step(f, g) /\ UNCHANGED <<loading, thrown, clicks, asked, dialogs, pool>>
    BY <1>4, <2>1 DEF ApproveSettles, contractVars
  <2> HIDE DEF g
  <2>6. GoodFlow(g)
    BY <2>2, <2>3, <2>4 DEF GoodFlow
  <2> QED BY <1>1, <2>1, <2>4, <2>5, <2>6, StepKeeps
<1>5. CASE SignAnswers
  <2>1. PICK f \in flows : f.step = "sign" /\ Step(f, [f EXCEPT !.step = "call", !.sig = f.acct])
    BY <1>5 DEF SignAnswers
  <2> DEFINE g == [f EXCEPT !.step = "call", !.sig = f.acct]
  <2>2. f \in FlowType /\ GoodFlow(f)
    BY <1>1 DEF ClickInv, GoodFlow
  <2>3. g \in FlowType
    BY <2>2 DEF FlowType
  <2>4. g.id = f.id /\ g.kind = f.kind /\ g.acct = f.acct
    BY <2>2 DEF FlowType
  <2>5. g.sig = f.acct
    BY <2>2 DEF FlowType
  <2>6. Step(f, g) /\ UNCHANGED <<loading, thrown, clicks, asked, dialogs, pool>>
    BY <1>5, <2>1 DEF SignAnswers, contractVars
  <2> HIDE DEF g
  <2>7. GoodFlow(g)
    BY <2>2, <2>3, <2>4, <2>5 DEF GoodFlow
  <2> QED BY <1>1, <2>1, <2>4, <2>6, <2>7, StepKeeps
<1>6. CASE SignFails
  <2>1. PICK f \in flows : f.step = "sign" /\ Settle(f)
    BY <1>6 DEF SignFails
  <2>2. UNCHANGED <<thrown, clicks, asked, dialogs, pool>>
    BY <1>6 DEF SignFails, contractVars
  <2>3. \A t \in pool : t.id # f.id
    BY <1>1, <2>1 DEF TxInv, Waiting, Sent
  <2> QED BY <1>1, <2>1, <2>2, <2>3, SettleKeeps
<1>7. CASE CallContract
  <2>1. PICK f \in flows :
          /\ f.step = "call"
          /\ IF Passes(Tx(f))
             THEN /\ dialogs' = dialogs \cup {Tx(f)}
                  /\ Step(f, [f EXCEPT !.step = "wait"])
                  /\ UNCHANGED loading
             ELSE /\ Settle(f)
                  /\ UNCHANGED dialogs
    BY <1>7 DEF CallContract
  <2>2. UNCHANGED <<thrown, clicks, asked, pool>>
    BY <1>7 DEF CallContract
  <2>3. CASE Passes(Tx(f))
    BY <1>1, <2>1, <2>2, <2>3, CallKeeps
  <2>4. CASE ~Passes(Tx(f))
    <3>1. \A t \in pool : t.id # f.id
      BY <1>1, <2>1 DEF TxInv, Waiting, Sent
    <3> QED BY <1>1, <2>1, <2>2, <2>4, <3>1, SettleKeeps
  <2> QED BY <2>3, <2>4
<1>8. CASE WaitEnds
  <2>1. PICK t \in pool : \E f \in Waiting(t) : pool' = pool \ {t} /\ Settle(f)
    BY <1>8 DEF WaitEnds
  <2>2. PICK f \in flows : f.id = t.id /\ pool' = pool \ {t} /\ Settle(f)
    BY <2>1 DEF Waiting
  <2>3. UNCHANGED <<thrown, clicks, asked, dialogs>>
    BY <1>8 DEF WaitEnds
  <2>4. \A u \in pool' : u.id # f.id
    BY <1>1, <2>1, <2>2 DEF TxInv, Sent
  <2> QED BY <1>1, <2>2, <2>3, <2>4, SettleKeeps
<1>9. CASE Reload
  <2>1. /\ flows' = {} /\ loading' = FALSE /\ thrown' = FALSE /\ UNCHANGED <<dialogs, clicks, asked>>
        /\ pool' = {t \in pool : t.res = "pending"}
    BY <1>9 DEF Reload
  <2>2. loading' \in BOOLEAN /\ thrown' \in BOOLEAN
    BY <2>1, Zenon
  <2>3. Sent' \subseteq Sent /\ \A t : Waiting(t)' = {}
    BY <2>1 DEF Sent, Waiting
  <2>4. ClickInv'
    BY <1>1, <2>1, <2>2, <2>3 DEF ClickInv, GoodTx
  <2> QED BY <1>1, <2>1, <2>3, <2>4 DEF TxInv
<1> QED BY <1>1, <1>2, <1>3, <1>4, <1>5, <1>6, <1>7, <1>8, <1>9, <1>10, ClickCases,
           ConfirmKeeps, RejectKeeps, MineKeeps DEF ClickSteps

\* Who is registered or has bought has asked for it.
LEMMA AskedKept ==
  ASSUME Inv, OnlyAsked, [Next]_vars
  PROVE  OnlyAsked'
<1>1. asked \subseteq asked'
  <2>1. CASE SameClicks
    BY <2>1 DEF SameClicks
  <2>2. CASE Throw \/ \E f : Start(f)
    BY <2>2 DEF Start, Throw
  <2>3. CASE ClickSteps
    BY <2>3 DEF ClickSteps, ApproveSettles, SignAnswers, SignFails, CallContract, Confirm, Reject,
                Mine, WaitEnds, Reload, pageVars
  <2> QED BY <2>1, <2>2, <2>3, ClickCases DEF Inv, ClickInv
<1>2. CASE UNCHANGED <<registered, participated>>
  BY <1>1, <1>2 DEF OnlyAsked
<1>3. CASE Mine /\ ~UNCHANGED <<registered, participated>>
  <2>1. PICK t \in pool : IF Passes(t) THEN Execute(t)
                          ELSE UNCHANGED <<registered, participated, withdrawn, paid, payouts>>
    BY <1>3 DEF Mine
  <2>2. GoodTx(t) /\ t.from \in Accounts /\ NoAccount \notin Accounts
    BY NovaAssumption DEF Inv, ClickInv, Sent, GoodTx, TxType
  <2>3. CASE Passes(t) /\ t.kind = "register" /\ RegisterForSale(t)
    <3>1. <<"register", t.from>> \in asked
      BY <2>2, <2>3 DEF Passes, RegisterPasses, GoodTx
    <3>2. \A a \in Accounts : registered'[a] => registered[a] \/ a = t.from
      BY <2>3 DEF RegisterForSale, Inv, BookInv
    <3>3. participated' = participated
      BY <2>3 DEF RegisterForSale
    <3> QED BY <1>1, <3>1, <3>2, <3>3 DEF OnlyAsked
  <2>4. CASE Passes(t) /\ t.kind = "participate" /\ Participate(t)
    <3>1. <<"participate", t.from>> \in asked
      BY <2>2, <2>4 DEF Passes, ParticipatePasses, GoodTx
    <3>2. \A a \in Accounts : participated'[a] => participated[a] \/ a = t.from
      BY <2>4 DEF Participate, Inv, BookInv
    <3>3. registered' = registered
      BY <2>4 DEF Participate
    <3> QED BY <1>1, <3>1, <3>2, <3>3 DEF OnlyAsked
  <2> QED BY <1>3, <2>1, <2>3, <2>4 DEF Execute, WithdrawMultiplePortions
<1> QED BY <1>2, <1>3, Records

LEMMA InitInv == Init => Inv /\ OnlyAsked
<1> SUFFICES ASSUME Init PROVE Inv /\ OnlyAsked
  OBVIOUS
<1>1. PICK o \in Openings :
        /\ now = o.now
        /\ registered = [a \in Accounts |-> a \in o.registered]
        /\ participated = [a \in Accounts |-> a \in o.bought]
        /\ paid = [a \in Accounts |-> IF a \in o.bought THEN 1 ELSE 0]
  BY DEF Init, ContractInit
<1>2. /\ withdrawn = [a \in Accounts |-> {}] /\ payouts = [a \in Accounts |-> [p \in Portions |-> 0]]
      /\ dialogs = {} /\ pool = {} /\ flows = {} /\ loading = FALSE /\ thrown = FALSE
      /\ clicks = 0
      /\ wallet = NoAccount /\ selected = CHOOSE a \in Accounts : TRUE
  BY DEF Init, ContractInit, WalletInit
<1>3. registered \in [Accounts -> BOOLEAN] /\ participated \in [Accounts -> BOOLEAN]
  BY <1>1
<1>4. now \in Nat /\ Accounts # {}
  BY <1>1, NovaAssumption
<1>5. /\ withdrawn \in [Accounts -> SUBSET Ids] /\ \A a \in Accounts : withdrawn[a] = {}
      /\ payouts \in [Accounts -> [Portions -> Nat]]
      /\ \A a \in Accounts : \A p \in Portions : payouts[a][p] = 0
  BY <1>2
<1>6. /\ paid \in [Accounts -> Nat]
      /\ \A a \in Accounts : paid[a] = IF participated[a] THEN 1 ELSE 0
  BY <1>1
<1>7. BookInv
  BY <1>3, <1>4, <1>5, <1>6 DEF BookInv
<1>8. AccountInv
  BY <1>2, <1>4 DEF AccountInv, Someone
<1>9. loading \in BOOLEAN /\ thrown \in BOOLEAN
  BY <1>2, Zenon
<1>10. ClickInv /\ TxInv
  BY <1>2, <1>9 DEF ClickInv, TxInv, Sent
<1>11. OnlyAsked
  BY DEF Init, OnlyAsked
<1> QED BY <1>7, <1>8, <1>10, <1>11 DEF Inv

LEMMA NextKeeps ==
  ASSUME Inv, [Next]_vars
  PROVE  Inv'
<1>1. BookInv' /\ AccountInv' /\ ClickInv' /\ TxInv'
  BY BookKept, AccountKept, ClickKept DEF Inv
<1> QED BY <1>1 DEF Inv

\* Every account pays at most once, and every portion is paid out to it at most once and
\* not before it unlocks, for any number of accounts, portions, clicks, reloads and
\* changes of account.
THEOREM PaidOnce == Spec => []OncePerAccount
<1>1. Inv => OncePerAccount
  <2> SUFFICES ASSUME Inv, NEW a \in Accounts
               PROVE  /\ paid[a] = (IF participated[a] THEN 1 ELSE 0)
                      /\ \A p \in Portions : /\ payouts[a][p] <= paid[a]
                                             /\ payouts[a][p] > 0 => UnlockAt[p] <= now
    BY DEF OncePerAccount
  <2> QED BY DEF Inv, BookInv
<1>2. Inv /\ [Next]_vars => Inv'
  BY NextKeeps
<1> QED BY InitInv, <1>1, <1>2, PTL DEF Spec

\* Nobody is registered or buys without a click for that account: whatever account is
\* selected when the call goes out, the signature it carries is for the one that clicked.
THEOREM NobodyUnasked == Spec => []OnlyAsked
<1>1. Inv /\ OnlyAsked /\ [Next]_vars => Inv' /\ OnlyAsked'
  BY NextKeeps, AskedKept
<1> QED BY InitInv, <1>1, PTL DEF Spec

\* The page works on one click at a time and its buttons wait exactly as long as it does,
\* or for good after a click that threw on a missing price, the only thing that leaves
\* the flag set.
THEOREM OneClickAtATime == Spec => []OneFlow
<1>1. Inv => OneFlow
  <2> SUFFICES ASSUME Inv PROVE OneFlow
    OBVIOUS
  <2>1. loading = (flows # {} \/ thrown)
    BY Zenon DEF Inv, ClickInv
  <2>2. Cardinality(flows) <= 1
    <3>1. CASE flows = {}
      BY <3>1, FS_EmptySet
    <3>2. CASE flows # {}
      <4>1. PICK f : flows = {f}
        BY <3>2 DEF Inv, ClickInv
      <4>2. Cardinality({f}) = 1
        BY FS_Singleton
      <4> QED BY <4>1, <4>2
    <3> QED BY <3>1, <3>2
  <2> QED BY <2>1, <2>2 DEF OneFlow
<1>2. Inv /\ [Next]_vars => Inv'
  BY NextKeeps
<1> QED BY InitInv, <1>1, <1>2, PTL DEF Spec

-----------------------------------------------------------------------------
(* What the page shows. *)

LEMMA FactGrows ==
  ASSUME BookInv, Grows, NEW k \in Facts, NEW a \in Accounts
  PROVE  /\ Fact(k, a) \in BOOLEAN
         /\ Fact(k, a) => Fact(k, a)'
<1>1. registered[a] \in BOOLEAN /\ participated[a] \in BOOLEAN
  BY DEF BookInv
<1>2. Fact(k, a) \in BOOLEAN
  BY <1>1 DEF Fact
<1> QED BY <1>2 DEF Grows, Fact

LEMMA QueryGood ==
  ASSUME BookInv, NEW a \in Accounts
  PROVE  /\ Query(a) \in QueryType /\ Query(a).of = a /\ Query(a).left = Facts
         /\ \A k \in Facts : Query(a).seen[k] = Fact(k, a)
<1>1. \A k \in Facts : Fact(k, a) \in BOOLEAN
  BY DEF Fact, BookInv
<1>2. [k \in Facts |-> Fact(k, a)] \in [Facts -> BOOLEAN]
  BY <1>1
<1> QED BY <1>2 DEF Query, QueryType

\* Queries and what was shown stay good when the contract records more.
LEMMA QueryStays ==
  ASSUME BookInv, Grows, QueryInv, UNCHANGED <<refreshes, infos, shown>>
  PROVE  QueryInv'
<1>1. ASSUME NEW r \in BagToSet(refreshes), NEW k \in Facts, r.seen[k]
      PROVE  Fact(k, r.of)'
  <2>1. r.of \in Accounts /\ Fact(k, r.of)
    BY <1>1 DEF QueryInv, QueryType
  <2> QED BY <2>1, FactGrows
<1>2. \A q \in BagToSet(infos) : q.seen \subseteq withdrawn'[q.of]
  BY DEF QueryInv, Grows
<1> QED BY <1>1, <1>2 DEF QueryInv, BagToSet, IsABag

\* The page asks for the state of account a.
LEMMA AskKeeps ==
  ASSUME BookInv, Grows, QueryInv, NEW a \in Accounts, RefreshStates(a), UNCHANGED <<infos, shown>>
  PROVE  QueryInv' /\ BagToSet(refreshes') = BagToSet(refreshes) \cup {Query(a)}
<1>1. PICK q : q = Query(a)
  OBVIOUS
<1>2. /\ IsABag(refreshes') /\ BagToSet(refreshes') = BagToSet(refreshes) \cup {q}
  <2>1. IsABag(refreshes)
    BY DEF QueryInv
  <2> QED BY <1>1, <2>1, BagAdd DEF RefreshStates
<1>3. q \in QueryType /\ q.of = a /\ \A k \in Facts : q.seen[k] = Fact(k, a)
  BY <1>1, QueryGood
<1>4. ASSUME NEW r \in BagToSet(refreshes'), NEW k \in Facts, r.seen[k]
      PROVE  Fact(k, r.of)'
  <2>1. r.of \in Accounts /\ Fact(k, r.of)
    BY <1>2, <1>3, <1>4 DEF QueryInv, QueryType
  <2> QED BY <2>1, FactGrows
<1>5. \A r \in BagToSet(refreshes') : r \in QueryType
  BY <1>2, <1>3 DEF QueryInv
<1>6. \A x \in BagToSet(infos) : x.of \in Accounts /\ x.seen \subseteq withdrawn'[x.of]
  BY DEF QueryInv, Grows
<1>7. QueryInv'
  BY <1>2, <1>4, <1>5, <1>6 DEF QueryInv, BagToSet, IsABag
<1> QED BY <1>1, <1>2, <1>7

\* The page has asked for the state of the connected account.
LEMMA AskShows ==
  ASSUME BookInv, NEW a \in Accounts, Query(a) \in BagToSet(refreshes'), wallet' = a,
         UNCHANGED <<registered, participated>>
  PROVE  FactsInv' /\ InfoInv'
<1>1. PICK q : q = Query(a)
  OBVIOUS
<1>2. q \in BagToSet(refreshes') /\ q.left = Facts /\ \A k \in Facts : q.seen[k] = Fact(k, a)
  BY <1>1, QueryGood
<1>3. \A k \in Facts : Fact(k, wallet)' = Fact(k, a)
  BY DEF Fact
<1>4. \A k \in Facts : k \in q.left /\ q.seen[k] = Fact(k, wallet)'
  BY <1>2, <1>3
<1>5. FactsInv'
  BY <1>2, <1>4 DEF FactsInv, BagToSet
<1>6. participated'[wallet'] => "participated" \in q.left /\ q.seen["participated"]
  <2>1. "participated" \in Facts /\ Fact("participated", a) = participated[a]
    BY DEF Facts, Fact
  <2> QED BY <1>2, <2>1
<1>7. InfoInv'
  BY <1>2, <1>6 DEF InfoInv, BagToSet
<1> QED BY <1>5, <1>7

\* Nothing the page goes by has changed.
LEMMA ShowStays ==
  ASSUME ShowInv, pool \subseteq pool',
         UNCHANGED <<registered, participated, withdrawn, shown, info, wallet, infos, refreshes,
                     doubt, signer, loaded>>
  PROVE  FactsInv' /\ InfoInv'
<1>1. Coming => Coming'
  BY DEF Coming, BagToSet
<1>2. Connected' => Connected
  BY DEF Connected, SaleContract
<1>3. FactsInv'
  BY <1>1, <1>2 DEF ShowInv, FactsInv, Fact, BagToSet
<1> QED BY <1>1, <1>2, <1>3 DEF ShowInv, InfoInv, BagToSet

LEMMA ShowOff == ~Connected' => FactsInv' /\ InfoInv'
BY DEF FactsInv, InfoInv

\* One query of refreshStates is answered.
LEMMA WithoutGood ==
  ASSUME QueryInv, NEW r \in BagToSet(refreshes), NEW k \in r.left
  PROVE  LET rest == [r EXCEPT !.left = @ \ {k}] IN
         /\ IsABag(Without(r, k))
         /\ BagToSet(refreshes) \ {r} \subseteq BagToSet(Without(r, k))
         /\ BagToSet(Without(r, k)) \subseteq BagToSet(refreshes) \cup {rest}
         /\ r.left # {k} => rest \in BagToSet(Without(r, k))
         /\ rest \in QueryType /\ rest.of = r.of /\ rest.seen = r.seen /\ rest.left = r.left \ {k}
<1> DEFINE rest == [r EXCEPT !.left = @ \ {k}]
           B == refreshes (-) SetToBag({r})
<1>1. r \in QueryType /\ IsABag(refreshes)
  BY DEF QueryInv
<1>2. rest \in QueryType /\ rest.of = r.of /\ rest.seen = r.seen /\ rest.left = r.left \ {k}
  BY <1>1 DEF QueryType
<1>3. Without(r, k) = B (+) (IF rest.left = {} THEN EmptyBag ELSE SetToBag({rest}))
  BY DEF Without
<1>4. /\ IsABag(B) /\ BagToSet(refreshes) \ {r} \subseteq BagToSet(B)
      /\ BagToSet(B) \subseteq BagToSet(refreshes)
  BY <1>1, BagTake
<1> HIDE DEF rest, B
<1>5. CASE rest.left = {}
  <2>1. Without(r, k) = B (+) EmptyBag /\ r.left = {k}
    BY <1>2, <1>3, <1>5
  <2> QED BY <1>2, <1>4, <2>1, BagAddNone DEF rest
<1>6. CASE rest.left # {}
  <2>1. Without(r, k) = B (+) SetToBag({rest})
    BY <1>3, <1>6
  <2>2. IsABag(B (+) SetToBag({rest})) /\ BagToSet(B (+) SetToBag({rest})) = BagToSet(B) \cup {rest}
    BY <1>4, BagAdd, Zenon
  <2>3. IsABag(Without(r, k)) /\ BagToSet(Without(r, k)) = BagToSet(B) \cup {rest}
    BY <2>1, <2>2, Zenon
  <2> QED BY <1>2, <1>4, <2>3 DEF rest
<1> QED BY <1>5, <1>6

\* What the page has under way apart from the query r, which is answered for k.
LEMMA AnswerLeaves ==
  ASSUME QueryInv, NEW r \in BagToSet(refreshes), NEW k \in r.left, refreshes' = Without(r, k)
  PROVE  /\ IsABag(refreshes')
         /\ \A x \in BagToSet(refreshes') :
              x \in QueryType /\ \A j \in Facts : x.seen[j] => Fact(j, x.of)
         /\ \A x \in BagToSet(refreshes) : x # r => x \in BagToSet(refreshes')
         /\ \A j \in r.left : j # k =>
              \E x \in BagToSet(refreshes') : j \in x.left /\ x.seen = r.seen
<1> DEFINE rest == [r EXCEPT !.left = @ \ {k}]
<1>1. /\ IsABag(refreshes')
      /\ BagToSet(refreshes) \ {r} \subseteq BagToSet(refreshes')
      /\ BagToSet(refreshes') \subseteq BagToSet(refreshes) \cup {rest}
      /\ r.left # {k} => rest \in BagToSet(refreshes')
      /\ rest \in QueryType /\ rest.of = r.of /\ rest.seen = r.seen /\ rest.left = r.left \ {k}
  BY WithoutGood
<1> HIDE DEF rest
<1>2. \A x \in BagToSet(refreshes) : x \in QueryType /\ \A j \in Facts : x.seen[j] => Fact(j, x.of)
  BY DEF QueryInv
<1>3. \A j \in Facts : rest.seen[j] => Fact(j, rest.of)
  BY <1>1, <1>2
<1>4. \A j \in r.left : j # k => j \in rest.left /\ r.left # {k}
  BY <1>1
<1> QED BY <1>1, <1>2, <1>3, <1>4

\* A reason for doubt is kept.
LEMMA DoubtsSeen ==
  ASSUME NEW of, NEW older
  PROVE  /\ of # wallet => "other account" \in Doubts(of, older)
         /\ older => "overtaken" \in Doubts(of, older)
BY Zenon DEF Doubts

LEMMA AnswerKeeps ==
  ASSUME Inv, ShowInv, Answer
  PROVE  ShowInv'
<1>1. BookInv /\ AccountInv /\ QueryInv /\ FactsInv /\ InfoInv /\ NoAccount \notin Accounts
  BY NovaAssumption DEF Inv, ShowInv
<1> DEFINE Ans(r, k, v) ==
        /\ shown' = [shown EXCEPT ![k] = [of |-> r.of, val |-> v]]
        /\ doubt' = doubt \cup Doubts(r.of, shown[k].of = r.of /\ shown[k].val /\ ~v)
        /\ refreshes' = Without(r, k)
        /\ infos' = IF k = "participated" /\ v
                    THEN infos (+) SetToBag({[of |-> r.of, seen |-> withdrawn[r.of]]})
                    ELSE infos
<1>2. PICK r \in BagToSet(refreshes) : \E k \in r.left : \E v \in {r.seen[k], Fact(k, r.of)} : Ans(r, k, v)
  BY DEF Answer
<1>2a. PICK k \in r.left : \E v \in {r.seen[k], Fact(k, r.of)} : Ans(r, k, v)
  BY <1>2
<1>3. PICK v \in {r.seen[k], Fact(k, r.of)} : Ans(r, k, v)
  BY <1>2a
<1>4. UNCHANGED <<registered, participated, withdrawn, pool, wallet, signer, loaded, info>>
  BY DEF Answer, contractVars, chainVars, walletVars
<1>5. /\ r \in QueryType /\ r.of \in Accounts /\ k \in Facts /\ r.seen[k] \in BOOLEAN
      /\ r.seen[k] => Fact(k, r.of)
  BY <1>1 DEF QueryInv, QueryType
<1>6. Fact(k, r.of) \in BOOLEAN /\ v \in BOOLEAN
  <2>1. Fact(k, r.of) \in BOOLEAN
    BY <1>1, <1>5 DEF Fact, BookInv
  <2> QED BY <1>5, <2>1
<1>7. /\ IsABag(refreshes')
      /\ \A x \in BagToSet(refreshes') :
           x \in QueryType /\ \A j \in Facts : x.seen[j] => Fact(j, x.of)
      /\ \A x \in BagToSet(refreshes) : x # r => x \in BagToSet(refreshes')
      /\ \A j \in r.left : j # k =>
           \E x \in BagToSet(refreshes') : j \in x.left /\ x.seen = r.seen
  BY <1>1, <1>3, AnswerLeaves
<1>8. PICK q : q = [of |-> r.of, seen |-> withdrawn[r.of]]
  OBVIOUS
<1>9. /\ IsABag(infos') /\ BagToSet(infos) \subseteq BagToSet(infos')
      /\ BagToSet(infos') \subseteq BagToSet(infos) \cup {q}
      /\ k = "participated" /\ v => q \in BagToSet(infos')
  <2>1. CASE k = "participated" /\ v
    BY <1>1, <1>3, <1>8, <2>1, BagAdd DEF QueryInv
  <2>2. CASE ~(k = "participated" /\ v)
    BY <1>1, <1>3, <2>2 DEF QueryInv
  <2> QED BY <2>1, <2>2
<1>10. shown' \in [Facts -> [of : Someone, val : BOOLEAN]]
       /\ shown'[k].of = r.of /\ shown'[k].val = v
       /\ \A j \in Facts : j # k => shown'[j] = shown[j]
  BY <1>1, <1>3, <1>5, <1>6 DEF QueryInv, Someone
<1>11. \A j, a : Fact(j, a)' = Fact(j, a)
  BY <1>4 DEF Fact
<1>12. QueryInv'
  <2>1. \A x \in BagToSet(infos') : x.of \in Accounts /\ x.seen \subseteq withdrawn[x.of]
    BY <1>1, <1>5, <1>8, <1>9 DEF QueryInv
  <2> QED BY <1>4, <1>7, <1>9, <1>10, <1>11, <2>1 DEF QueryInv, BagToSet, IsABag
<1>13. Connected' => /\ Connected /\ r.of = wallet
                     /\ ~(shown[k].of = r.of /\ shown[k].val /\ ~v)
  <2> SUFFICES ASSUME Connected' PROVE Connected /\ r.of = wallet /\ ~(shown[k].of = r.of /\ shown[k].val /\ ~v)
    OBVIOUS
  <2>1. doubt' = {} /\ wallet # NoAccount /\ SaleContract
    BY <1>4 DEF Connected, SaleContract
  <2>2. doubt = {} /\ Doubts(r.of, shown[k].of = r.of /\ shown[k].val /\ ~v) = {}
    BY <1>3, <2>1
  <2>3. r.of = wallet
    BY <2>2, DoubtsSeen, Zenon
  <2>4. ~(shown[k].of = r.of /\ shown[k].val /\ ~v)
    BY <2>2, DoubtsSeen, Zenon
  <2> QED BY <2>1, <2>2, <2>3, <2>4 DEF Connected
<1>14. ASSUME Connected', Coming PROVE Coming'
  BY <1>4, <1>7, <1>13, <1>14 DEF Coming, BagToSet
<1>15. ASSUME Connected', NEW j \in Facts
       PROVE  \/ Coming'
              \/ shown'[j].of = wallet /\ shown'[j].val = Fact(j, wallet)
              \/ \E x \in BagToSet(refreshes') : j \in x.left /\ x.seen[j] = Fact(j, wallet)
  <2>1. CASE Coming
    BY <1>14, <1>15, <2>1
  <2>2. CASE shown[j].of = wallet /\ shown[j].val = Fact(j, wallet)
    <3>1. CASE j # k
      BY <1>10, <2>2, <3>1
    <3>2. CASE j = k
      <4>1. v = Fact(k, wallet)
        BY <1>3, <1>5, <1>6, <1>13, <1>15, <2>2, <3>2
      <4> QED BY <1>10, <1>13, <1>15, <3>2, <4>1
    <3> QED BY <3>1, <3>2
  <2>3. ASSUME NEW x \in BagToSet(refreshes), j \in x.left, x.seen[j] = Fact(j, wallet)
        PROVE  \/ shown'[j].of = wallet /\ shown'[j].val = Fact(j, wallet)
               \/ \E y \in BagToSet(refreshes') : j \in y.left /\ y.seen[j] = Fact(j, wallet)
    <3>1. CASE x # r
      BY <1>7, <2>3, <3>1
    <3>2. CASE x = r /\ j # k
      BY <1>7, <2>3, <3>2
    <3>3. CASE x = r /\ j = k
      BY <1>3, <1>10, <1>13, <1>15, <2>3, <3>3
    <3> QED BY <3>1, <3>2, <3>3
  <2> QED BY <1>1, <1>13, <1>15, <2>1, <2>2, <2>3 DEF FactsInv
<1>16. FactsInv'
  BY <1>4, <1>11, <1>15 DEF FactsInv, BagToSet
<1>17. ASSUME Connected', participated[wallet]
       PROVE  \/ Coming'
              \/ info.of = wallet /\ info.portions = withdrawn[wallet]
              \/ \E x \in BagToSet(infos') : x.of # wallet \/ x.seen = withdrawn[wallet]
              \/ \E x \in BagToSet(refreshes') : "participated" \in x.left /\ x.seen["participated"]
  <2>1. ASSUME NEW x \in BagToSet(refreshes), "participated" \in x.left, x.seen["participated"]
        PROVE  \/ \E y \in BagToSet(infos') : y.seen = withdrawn[wallet]
               \/ \E y \in BagToSet(refreshes') : "participated" \in y.left /\ y.seen["participated"]
    <3>1. CASE x # r
      BY <1>7, <2>1, <3>1
    <3>2. CASE x = r /\ k # "participated"
      BY <1>7, <2>1, <3>2
    <3>3. CASE x = r /\ k = "participated"
      <4>1. v
        <5>1. Fact(k, r.of)
          BY <1>5, <2>1, <3>3
        <5> QED BY <1>3, <2>1, <3>3, <5>1
      <4>2. q \in BagToSet(infos') /\ q.seen = withdrawn[wallet]
        BY <1>8, <1>9, <1>13, <1>17, <3>3, <4>1
      <4> QED BY <4>2
    <3> QED BY <3>1, <3>2, <3>3
  <2> QED BY <1>1, <1>9, <1>13, <1>14, <1>17, <2>1 DEF InfoInv
<1>18. InfoInv'
  BY <1>4, <1>17 DEF InfoInv, BagToSet
<1> QED BY <1>12, <1>16, <1>18 DEF ShowInv

\* The answer to getParticipateInfo.
LEMMA InfoKeeps ==
  ASSUME Inv, ShowInv, AnswerInfo
  PROVE  ShowInv'
<1>1. BookInv /\ AccountInv /\ QueryInv /\ FactsInv /\ InfoInv
  BY DEF Inv, ShowInv
<1> DEFINE Ans(q, ps) ==
        /\ infos' = infos (-) SetToBag({q})
        /\ info' = [of |-> q.of, portions |-> ps]
        /\ doubt' = doubt \cup Doubts(q.of, info.of = q.of /\ ~(info.portions \subseteq ps))
<1>2a. PICK q \in BagToSet(infos) : \E ps \in {q.seen, withdrawn[q.of]} : Ans(q, ps)
  BY DEF AnswerInfo
<1>2. PICK ps \in {q.seen, withdrawn[q.of]} : Ans(q, ps)
  BY <1>2a
<1>3. UNCHANGED <<registered, participated, withdrawn, pool, wallet, signer, loaded, shown, refreshes>>
  BY DEF AnswerInfo, contractVars, chainVars, walletVars
<1>4. /\ IsABag(infos') /\ BagToSet(infos) \ {q} \subseteq BagToSet(infos')
      /\ BagToSet(infos') \subseteq BagToSet(infos)
  BY <1>1, <1>2, BagTake DEF QueryInv
<1>5. \A j, a : Fact(j, a)' = Fact(j, a)
  BY <1>3 DEF Fact
<1>6. QueryInv'
  BY <1>1, <1>3, <1>4, <1>5 DEF QueryInv, BagToSet, IsABag
<1>7. Connected' => /\ Connected /\ q.of = wallet
                    /\ ~(info.of = q.of /\ ~(info.portions \subseteq ps))
  <2> SUFFICES ASSUME Connected' PROVE Connected /\ q.of = wallet /\ ~(info.of = q.of /\ ~(info.portions \subseteq ps))
    OBVIOUS
  <2>1. doubt' = {} /\ wallet # NoAccount /\ SaleContract
    BY <1>3 DEF Connected, SaleContract
  <2>2. doubt = {} /\ Doubts(q.of, info.of = q.of /\ ~(info.portions \subseteq ps)) = {}
    BY <1>2, <2>1
  <2>3. q.of = wallet
    BY <2>2, DoubtsSeen, Zenon
  <2>4. ~(info.of = q.of /\ ~(info.portions \subseteq ps))
    BY <2>2, DoubtsSeen, Zenon
  <2> QED BY <2>1, <2>2, <2>3, <2>4 DEF Connected
<1>8. Coming => Coming'
  BY <1>3 DEF Coming, BagToSet
<1>9. FactsInv'
  BY <1>1, <1>3, <1>5, <1>7, <1>8 DEF FactsInv, BagToSet
<1>10. ASSUME Connected', participated[wallet]
       PROVE  \/ Coming'
              \/ info'.of = wallet /\ info'.portions = withdrawn[wallet]
              \/ \E x \in BagToSet(infos') : x.of # wallet \/ x.seen = withdrawn[wallet]
              \/ \E x \in BagToSet(refreshes) : "participated" \in x.left /\ x.seen["participated"]
  <2>1. q.seen \subseteq withdrawn[wallet] /\ q.of = wallet
    BY <1>1, <1>7, <1>10 DEF QueryInv
  <2>2. info'.of = wallet /\ info'.portions = ps
    BY <1>2, <2>1
  <2>3. CASE ps = withdrawn[wallet]
    BY <2>2, <2>3
  <2>4. CASE ps # withdrawn[wallet]
    <3>1. ps = q.seen /\ ps \subseteq withdrawn[wallet]
      BY <1>2, <2>1, <2>4
    <3>2. ~(info.of = wallet /\ info.portions = withdrawn[wallet])
      BY <1>7, <1>10, <2>1, <2>4, <3>1
    <3>3. \A x \in BagToSet(infos) : x.of # wallet \/ x.seen = withdrawn[wallet] => x \in BagToSet(infos')
      BY <1>4, <2>1, <2>4, <3>1
    <3> QED BY <1>1, <1>7, <1>8, <1>10, <3>2, <3>3 DEF InfoInv
  <2> QED BY <2>3, <2>4
<1>11. InfoInv'
  BY <1>3, <1>10 DEF InfoInv, BagToSet
<1> QED BY <1>6, <1>9, <1>11 DEF ShowInv

\* A query fails: there is a reason for doubt.
LEMMA FailKeeps ==
  ASSUME Inv, ShowInv, AnswerFails \/ InfoFails
  PROVE  ShowInv'
<1>1. BookInv /\ QueryInv
  BY DEF Inv, ShowInv
<1>2. "failed" \in doubt'
  BY DEF AnswerFails, InfoFails
<1>3. ~Connected'
  BY <1>2 DEF Connected
<1>4. UNCHANGED <<registered, participated, withdrawn, shown>>
  BY DEF AnswerFails, InfoFails, contractVars, chainVars
<1>5. \A j, a : Fact(j, a)' = Fact(j, a)
  BY <1>4 DEF Fact
<1>6. CASE AnswerFails
  <2>1. PICK r \in BagToSet(refreshes) : \E k \in r.left : refreshes' = Without(r, k)
    BY <1>6 DEF AnswerFails
  <2>2. PICK k \in r.left : refreshes' = Without(r, k)
    BY <2>1
  <2>3. /\ IsABag(refreshes')
        /\ \A x \in BagToSet(refreshes') :
             x \in QueryType /\ \A j \in Facts : x.seen[j] => Fact(j, x.of)
    BY <1>1, <2>2, AnswerLeaves
  <2>4. infos' = infos
    BY <1>6 DEF AnswerFails
  <2>5. QueryInv'
    BY <1>1, <1>4, <1>5, <2>3, <2>4 DEF QueryInv, BagToSet, IsABag
  <2> QED BY <1>3, <2>5, ShowOff DEF ShowInv
<1>7. CASE InfoFails
  <2>1. PICK q \in BagToSet(infos) : infos' = infos (-) SetToBag({q})
    BY <1>7 DEF InfoFails
  <2>2. IsABag(infos') /\ BagToSet(infos') \subseteq BagToSet(infos)
    BY <1>1, <2>1, BagTake DEF QueryInv
  <2>3. refreshes' = refreshes
    BY <1>7 DEF InfoFails
  <2>4. QueryInv'
    BY <1>1, <1>4, <1>5, <2>2, <2>3 DEF QueryInv, BagToSet, IsABag
  <2> QED BY <1>3, <2>4, ShowOff DEF ShowInv
<1> QED BY <1>6, <1>7

\* A transaction is mined: its receipt is waited for, or there is a reason for doubt.
LEMMA MineShows ==
  ASSUME Inv, ShowInv, Mine, [Next]_vars
  PROVE  ShowInv'
<1>1. BookInv /\ QueryInv /\ Grows /\ ClickInv /\ TxInv
  BY BookKept DEF Inv, ShowInv
<1>2. UNCHANGED <<wallet, signer, loaded, shown, info, refreshes, infos>>
  BY DEF Mine, walletVars
<1>3. QueryInv'
  BY <1>1, <1>2, QueryStays
<1>4. PICK t \in pool :
        /\ t.res = "pending"
        /\ pool' = (pool \ {t}) \cup
             (IF Waiting(t) = {} THEN {} ELSE {[t EXCEPT !.res = IF Passes(t) THEN "ok" ELSE "failed"]})
        /\ IF Passes(t) THEN Execute(t)
           ELSE UNCHANGED <<registered, participated, withdrawn, paid, payouts>>
        /\ doubt' = IF Waiting(t) = {} THEN doubt \cup {"unseen"} ELSE doubt
  BY DEF Mine
<1>5. CASE Waiting(t) = {}
  <2>1. ~Connected'
    BY <1>4, <1>5 DEF Connected
  <2> QED BY <1>3, <2>1, ShowOff DEF ShowInv
<1>6. CASE Waiting(t) # {} /\ Passes(t)
  <2> DEFINE d == [t EXCEPT !.res = "ok"]
  <2>1. t \in TxType
    BY <1>1 DEF ClickInv, Sent, GoodTx
  <2>2. d.res = "ok"
    BY <2>1 DEF TxType
  <2>3. d \in pool'
    BY <1>4, <1>6
  <2> HIDE DEF d
  <2>4. Coming'
    BY <2>2, <2>3 DEF Coming
  <2>5. FactsInv' /\ InfoInv'
    BY <2>4 DEF FactsInv, InfoInv
  <2> QED BY <1>3, <2>5 DEF ShowInv
<1>7. CASE Waiting(t) # {} /\ ~Passes(t)
  <2>1. UNCHANGED <<registered, participated, withdrawn, doubt>> /\ pool \ {t} \subseteq pool'
    BY <1>4, <1>7
  <2>2. Coming => Coming'
    BY <1>2, <1>4, <2>1 DEF Coming, BagToSet
  <2>3. Connected' => Connected
    BY <1>2, <2>1 DEF Connected, SaleContract
  <2>4. FactsInv'
    BY <1>2, <2>1, <2>2, <2>3 DEF ShowInv, FactsInv, Fact, BagToSet
  <2>5. InfoInv'
    BY <1>2, <2>1, <2>2, <2>3 DEF ShowInv, InfoInv, BagToSet
  <2> QED BY <1>3, <2>4, <2>5 DEF ShowInv
<1> QED BY <1>5, <1>6, <1>7

\* The receipt of a success makes the page ask again, for the account of the click.
LEMMA WaitShows ==
  ASSUME Inv, ShowInv, WaitEnds, [Next]_vars
  PROVE  ShowInv'
<1>1. BookInv /\ QueryInv /\ Grows /\ ClickInv /\ TxInv /\ AccountInv /\ FactsInv /\ InfoInv
  BY BookKept DEF Inv, ShowInv
<1>2. UNCHANGED <<registered, participated, withdrawn, wallet, signer, loaded, shown, info, infos, doubt>>
  BY DEF WaitEnds, chainVars, walletVars
<1>3. PICK t \in pool : \E f \in Waiting(t) : pool' = pool \ {t} /\ RefreshIf(t.res = "ok", f.acct)
  BY DEF WaitEnds
<1>4. PICK f \in Waiting(t) : pool' = pool \ {t} /\ RefreshIf(t.res = "ok", f.acct)
  BY <1>3
<1>5. f \in flows /\ GoodFlow(f) /\ t \in Sent
  BY <1>1 DEF Waiting, ClickInv, Sent
<1>6. CASE t.res # "ok"
  <2>1. refreshes' = refreshes
    BY <1>4, <1>6 DEF RefreshIf
  <2>2. QueryInv'
    BY <1>1, <1>2, <2>1, QueryStays
  <2>3. Coming => Coming'
    BY <1>2, <1>4, <1>6, <2>1 DEF Coming, BagToSet
  <2>4. Connected' => Connected
    BY <1>2 DEF Connected, SaleContract
  <2>5. FactsInv'
    BY <1>1, <1>2, <2>1, <2>3, <2>4 DEF FactsInv, Fact, BagToSet
  <2>6. InfoInv'
    BY <1>1, <1>2, <2>1, <2>3, <2>4 DEF InfoInv, BagToSet
  <2> QED BY <2>2, <2>5, <2>6 DEF ShowInv
<1>7. CASE t.res = "ok"
  <2>1. f.acct # NoAccount /\ f.acct \in Accounts
    BY <1>1, <1>5, <1>7 DEF TxInv, GoodFlow, FlowType, Someone
  <2>2. PICK a \in Accounts : a = f.acct
    BY <2>1
  <2>3. RefreshStates(a)
    BY <1>4, <1>7, <2>1, <2>2 DEF RefreshIf
  <2>4. QueryInv' /\ BagToSet(refreshes') = BagToSet(refreshes) \cup {Query(a)}
    BY <1>1, <1>2, <2>3, AskKeeps
  <2>5. CASE a = wallet
    BY <1>1, <1>2, <2>4, <2>5, AskShows DEF ShowInv
  <2>6. CASE a # wallet
    <3>1. Query(a).of = a
      BY <1>1, QueryGood
    <3>2. PICK q : q = Query(a)
      OBVIOUS
    <3>3. q \in BagToSet(refreshes') /\ q.of # wallet'
      BY <1>2, <2>4, <2>6, <3>1, <3>2
    <3>4. Coming'
      BY <3>3 DEF Coming, BagToSet
    <3>5. FactsInv' /\ InfoInv'
      BY <3>4 DEF FactsInv, InfoInv
    <3> QED BY <2>4, <3>5 DEF ShowInv
  <2> QED BY <2>5, <2>6
<1> QED BY <1>6, <1>7

\* The sale contract is made, or another account is connected.
LEMMA ConnectShows ==
  ASSUME Inv, ShowInv, [Next]_vars, LoadProject \/ AccountChanges \/ LogIn \/ NewSigner
  PROVE  ShowInv'
<1>1. BookInv /\ QueryInv /\ Grows /\ AccountInv'
  BY BookKept, AccountKept DEF Inv, ShowInv
<1>2. UNCHANGED <<registered, participated, withdrawn, infos, shown>>
  BY DEF LoadProject, AccountChanges, LogIn, NewSigner, contractVars, chainVars
<1>3. \/ RefreshStates(wallet') /\ wallet' # NoAccount
      \/ refreshes' = refreshes /\ ~Connected'
  <2>1. CASE LoadProject
    BY <2>1 DEF LoadProject, RefreshIf, Connected, SaleContract, walletVars
  <2>2. CASE AccountChanges
    BY <2>2 DEF AccountChanges, HearSwitch, RefreshIf, Connected, SaleContract
  <2>3. CASE LogIn
    BY <2>3 DEF LogIn, Connect, RefreshIf, Connected, SaleContract
  <2>4. CASE NewSigner
    BY <2>4 DEF NewSigner, SignerReady, RefreshIf, Connected, SaleContract
  <2> QED BY <2>1, <2>2, <2>3, <2>4
<1>4. CASE RefreshStates(wallet') /\ wallet' # NoAccount
  <2>1. PICK a \in Accounts : a = wallet'
    BY <1>1, <1>4 DEF AccountInv, Someone
  <2>2. RefreshStates(a)
    BY <1>4, <2>1
  <2>3. QueryInv' /\ BagToSet(refreshes') = BagToSet(refreshes) \cup {Query(a)}
    BY <1>1, <1>2, <2>2, AskKeeps
  <2> QED BY <1>1, <1>2, <2>1, <2>3, AskShows DEF ShowInv
<1>5. CASE refreshes' = refreshes /\ ~Connected'
  <2>1. QueryInv'
    BY <1>1, <1>2, <1>5, QueryStays
  <2> QED BY <1>5, <2>1, ShowOff DEF ShowInv
<1> QED BY <1>3, <1>4, <1>5

LEMMA ShowKept ==
  ASSUME Inv, ShowInv, [Next]_vars
  PROVE  ShowInv'
<1>1. BookInv /\ QueryInv /\ Grows
  BY BookKept DEF Inv, ShowInv
<1>2. CASE /\ pool \subseteq pool'
           /\ UNCHANGED <<registered, participated, withdrawn, shown, info, wallet, infos, refreshes,
                          doubt, signer, loaded>>
  <2>1. QueryInv'
    BY <1>1, <1>2, QueryStays
  <2> QED BY <1>2, <2>1, ShowStays DEF ShowInv
<1>3. CASE Reload
  <2>1. /\ refreshes' = EmptyBag /\ infos' = EmptyBag /\ shown' = NoFacts /\ wallet' = NoAccount
    BY <1>3 DEF Reload
  <2>2. NoFacts \in [Facts -> [of : Someone, val : BOOLEAN]]
    <3>1. [of |-> NoAccount, val |-> FALSE] \in [of : Someone, val : BOOLEAN]
      BY DEF Someone
    <3> QED BY <3>1 DEF NoFacts
  <2>3. QueryInv'
    BY <2>1, <2>2, BagEmpty DEF QueryInv, BagToSet, IsABag
  <2>4. ~Connected'
    BY <2>1 DEF Connected
  <2> QED BY <2>3, <2>4, ShowOff DEF ShowInv
<1>4. CASE LogOut
  <2>1. UNCHANGED <<refreshes, infos, shown>> /\ wallet' = NoAccount
    BY <1>4 DEF LogOut, Disconnect
  <2>2. QueryInv'
    BY <1>1, <2>1, QueryStays
  <2>3. ~Connected'
    BY <2>1 DEF Connected
  <2> QED BY <2>2, <2>3, ShowOff DEF ShowInv
<1>5. CASE JudgePoolStatus \/ SelectAccount \/ TimePasses \/ OpenModal \/ CloseModal
  BY <1>2, <1>5 DEF JudgePoolStatus, SelectAccount, Switch, TimePasses, PassTime, OpenModal, CloseModal,
                    contractVars, chainVars, walletVars, pageVars
<1>6. CASE ClickRegister \/ ClickPurchase \/ ClickWithdraw
  BY <1>2, <1>6 DEF ClickRegister, ClickPurchase, ClickWithdraw, Start, Throw, contractVars, chainVars,
              walletVars
<1>7. CASE ApproveSettles \/ SignAnswers \/ SignFails
  <2>1. UNCHANGED <<contractVars, walletVars, loaded, shown, info, refreshes, infos, doubt>>
    BY <1>7 DEF ApproveSettles, SignAnswers, SignFails
  <2> QED BY <1>2, <2>1 DEF contractVars, chainVars, walletVars
<1>8. CASE CallContract \/ Confirm \/ Reject
  <2>1. pool \subseteq pool'
    BY <1>8 DEF CallContract, Confirm, Reject
  <2>2. UNCHANGED <<registered, participated, withdrawn, shown, info, wallet, infos, refreshes,
                    doubt, signer, loaded>>
    BY <1>8 DEF CallContract, Confirm, Reject, chainVars, walletVars, pageVars
  <2> QED BY <1>2, <2>1, <2>2
<1>9. CASE UNCHANGED vars
  BY <1>2, <1>9 DEF vars, contractVars, chainVars, walletVars, pageVars
<1> QED BY <1>3, <1>4, <1>5, <1>6, <1>7, <1>8, <1>9, AnswerKeeps, InfoKeeps, FailKeeps, MineShows,
           WaitShows, ConnectShows DEF Next, Work

LEMMA InitShow == Init => ShowInv
<1> SUFFICES ASSUME Init PROVE ShowInv
  OBVIOUS
<1>1. refreshes = EmptyBag /\ infos = EmptyBag /\ shown = NoFacts /\ wallet = NoAccount
  BY DEF Init, WalletInit
<1>2. NoFacts \in [Facts -> [of : Someone, val : BOOLEAN]]
  <2>1. [of |-> NoAccount, val |-> FALSE] \in [of : Someone, val : BOOLEAN]
    BY DEF Someone
  <2> QED BY <2>1 DEF NoFacts
<1>3. QueryInv
  BY <1>1, <1>2, BagEmpty DEF QueryInv
<1>4. ~Connected
  BY <1>1 DEF Connected
<1> QED BY <1>3, <1>4 DEF ShowInv, FactsInv, InfoInv

\* A page that has nothing under way and no reason for doubt shows what the contract has
\* recorded of the connected account, after any sequence of changes of account, log-ins,
\* reloads, clicks and answers in any order.
THEOREM ShowsTheContract == Spec => []ShownFollows
<1>1. Inv /\ ShowInv /\ [Next]_vars => Inv' /\ ShowInv'
  BY NextKeeps, ShowKept
<1>2. Inv /\ ShowInv => ShownFollows
  <2> SUFFICES ASSUME Inv, ShowInv, Quiet, doubt = {} PROVE Right
    BY DEF ShownFollows
  <2>1. Connected /\ flows = {} /\ BagToSet(refreshes) = {} /\ BagToSet(infos) = {}
    BY BagEmpty DEF Quiet, Connected
  <2>2. \A t \in pool : t.res = "pending"
    BY <2>1 DEF Inv, TxInv, Waiting
  <2>3. ~Coming
    BY <2>1, <2>2 DEF Coming
  <2>4. \A k \in Facts : shown[k].val = Fact(k, wallet)
    BY <2>1, <2>3 DEF ShowInv, FactsInv
  <2>5. participated[wallet] => info.portions = withdrawn[wallet]
    BY <2>1, <2>3 DEF ShowInv, InfoInv
  <2> QED BY <2>4, <2>5 DEF Right
<1> QED BY InitInv, InitShow, <1>1, <1>2, PTL DEF Spec

=============================================================================
