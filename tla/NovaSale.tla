------------------------------- MODULE NovaSale -------------------------------
(***************************************************************************)
(* The project page of nova-fe (pages/project.tsx) with the wallet and the *)
(* sale contract: it asks the contract for the state of the connected      *)
(* account (refreshStates), shows the button that fits the state and the   *)
(* phase of the sale, and runs one flow per click: a signature of the back *)
(* end, a call, the wait for the receipt, and a new refreshStates.  Every  *)
(* request carries the account of the render that made it, and its answer  *)
(* is stored whatever account is connected by then.                        *)
(*                                                                         *)
(* The account has a stake (depositedAmount is not 0), and the chain is    *)
(* the one of the project.                                                 *)
(***************************************************************************)
EXTENDS NovaWallet, Bags

CONSTANTS
  Listed,      \* the status column of the project in the back end
  Priced,      \* whether its price is there, as BigNumber.from can read it
  MaxClicks,   \* bound on clicks
  MaxTroubles  \* bound on changes of account, log-outs, reloads and failing requests together

VARIABLES
  loaded,     \* projectInfo is there, and with it the address of the sale
  priced,     \* projectInfo has a price: the column may be null
  status,     \* phase of the sale as the page sees it, -1 before it knows
  ready,      \* statesReady
  shown,      \* isRegistered and isParticipated, and the account they are of
  info,       \* participateInfo: portions withdrawn, and the account it is of
  refreshes,  \* bag of refreshStates under way
  infos,      \* bag of getParticipateInfo under way
  flows,      \* clicks being worked on
  loading,    \* the flag all transaction buttons share
  modal,      \* showParticipateModal
  asked,      \* history: what was clicked, for which account
  thrown,     \* history: a click threw on the missing price
  doubt,      \* history: why what is shown may be wrong
  clicks, troubles

pageVars == <<loaded, priced, status, ready, shown, info, refreshes, infos, flows, loading, modal,
              asked, thrown, doubt, clicks, troubles>>
vars == <<contractVars, walletVars, pageVars>>

Facts == {"registered", "participated"}
Fact(k, a) == IF k = "registered" THEN registered[a] ELSE participated[a]

NoInfo == [of |-> NoAccount, portions |-> {}]

Trouble == troubles < MaxTroubles /\ troubles' = troubles + 1

NoFacts == [k \in Facts |-> [of |-> NoAccount, val |-> FALSE]]

Init ==
  /\ ContractInit /\ WalletInit
  /\ loaded = FALSE /\ priced = FALSE /\ status = -1 /\ ready = FALSE
  /\ shown = NoFacts /\ info = NoInfo
  /\ refreshes = EmptyBag /\ infos = EmptyBag
  /\ flows = {} /\ loading = FALSE /\ modal = FALSE
  /\ doubt = {} /\ thrown = FALSE
  /\ asked = {<<"register", a>> : a \in {b \in Accounts : registered[b]}} \cup
             {<<"participate", a>> : a \in {b \in Accounts : participated[b]}}
  /\ clicks = 0 /\ troubles = 0

-----------------------------------------------------------------------------
(* Asking for the state of an account. *)

\* saleContract: made from the signer and the address, dropped with the signer.
SaleContract == signer /\ loaded

\* One run of refreshStates for account a: two queries, whose values the node reads
\* at some time between the request and its answer.
Query(a) == [of |-> a, left |-> Facts, seen |-> [k \in Facts |-> Fact(k, a)]]

RefreshStates(a) == refreshes' = refreshes (+) SetToBag({Query(a)})

\* The effect on [saleContract, walletAddress], with the values after the step.
RefreshIf(contract, a) == IF contract /\ a # NoAccount THEN RefreshStates(a) ELSE UNCHANGED refreshes

Without(r, k) ==
  LET rest == [r EXCEPT !.left = @ \ {k}] IN
  (refreshes (-) SetToBag({r})) (+) (IF rest.left = {} THEN EmptyBag ELSE SetToBag({rest}))

\* An answer may be of another account than the connected one, and it may have been
\* read before one of the same account that is shown already.
Doubts(of, older) == (IF of # wallet THEN {"other account"} ELSE {}) \cup
                     (IF older THEN {"overtaken"} ELSE {})

\* Mutated form of Answer: the participation of an account is asked for only once.
AnswerInfoOnce ==
  /\ \E r \in BagToSet(refreshes) : \E k \in r.left : \E v \in {r.seen[k], Fact(k, r.of)} :
       /\ shown' = [shown EXCEPT ![k] = [of |-> r.of, val |-> v]]
       /\ doubt' = doubt \cup Doubts(r.of, shown[k].of = r.of /\ shown[k].val /\ ~v)
       /\ refreshes' = Without(r, k)
       /\ ready' = (ready \/ r.left = {k})
       /\ infos' = IF k = "participated" /\ v /\ info.of # r.of
                   THEN infos (+) SetToBag({[of |-> r.of, seen |-> withdrawn[r.of]]})
                   ELSE infos
  /\ UNCHANGED <<contractVars, walletVars, loaded, priced, status, info, flows, loading, modal,
                 asked, thrown, clicks, troubles>>

Answer ==
  /\ \E r \in BagToSet(refreshes) : \E k \in r.left : \E v \in {r.seen[k], Fact(k, r.of)} :
       /\ shown' = [shown EXCEPT ![k] = [of |-> r.of, val |-> v]]
       /\ doubt' = doubt \cup Doubts(r.of, shown[k].of = r.of /\ shown[k].val /\ ~v)
       /\ refreshes' = Without(r, k)
       /\ ready' = (ready \/ r.left = {k})
       /\ infos' = IF k = "participated" /\ v
                   THEN infos (+) SetToBag({[of |-> r.of, seen |-> withdrawn[r.of]]})
                   ELSE infos
  /\ UNCHANGED <<contractVars, walletVars, loaded, priced, status, info, flows, loading, modal,
                 asked, thrown, clicks, troubles>>

\* The error is logged; the other query decides alone when the states are ready.
AnswerFails ==
  /\ Trouble
  /\ \E r \in BagToSet(refreshes) : \E k \in r.left :
       /\ refreshes' = Without(r, k)
       /\ ready' = (ready \/ r.left = {k})
  /\ doubt' = doubt \cup {"failed"}
  /\ UNCHANGED <<contractVars, walletVars, loaded, priced, status, shown, info, infos, flows,
                 loading, modal, asked, thrown, clicks>>

AnswerInfo ==
  /\ \E q \in BagToSet(infos) : \E ps \in {q.seen, withdrawn[q.of]} :
       /\ infos' = infos (-) SetToBag({q})
       /\ info' = [of |-> q.of, portions |-> ps]
       /\ doubt' = doubt \cup Doubts(q.of, info.of = q.of /\ ~(info.portions \subseteq ps))
  /\ UNCHANGED <<contractVars, walletVars, loaded, priced, status, ready, shown, refreshes, flows,
                 loading, modal, asked, thrown, clicks, troubles>>

InfoFails ==
  /\ Trouble
  /\ \E q \in BagToSet(infos) : infos' = infos (-) SetToBag({q})
  /\ doubt' = doubt \cup {"failed"}
  /\ UNCHANGED <<contractVars, walletVars, loaded, priced, status, ready, shown, info, refreshes,
                 flows, loading, modal, asked, thrown, clicks>>

-----------------------------------------------------------------------------
(* The project and its phase. *)

\* projectInfo arrives: the sale contract is made if there is a signer, and the
\* status is the one the back end stores, until the timer corrects it.
LoadProject ==
  /\ ~loaded
  /\ loaded' = TRUE
  /\ status' \in Listed /\ priced' \in Priced
  /\ RefreshIf(signer, wallet)
  /\ UNCHANGED <<contractVars, walletVars, ready, shown, info, infos, flows, loading, modal,
                 asked, thrown, doubt, clicks, troubles>>

Phase(t) == CASE t < RegStarts -> 0
              [] t >= RegStarts /\ t < RegEnds -> 1
              [] t >= RegEnds /\ t < SaleStart -> 2
              [] t >= SaleStart /\ t < SaleEnd -> 3
              [] t >= SaleEnd /\ t < Unlock -> 4
              [] t >= Unlock -> 5

JudgePoolStatus ==
  /\ loaded /\ status # Phase(now)
  /\ status' = Phase(now)
  /\ UNCHANGED <<contractVars, walletVars, loaded, priced, ready, shown, info, refreshes, infos,
                 flows, loading, modal, asked, thrown, doubt, clicks, troubles>>

-----------------------------------------------------------------------------
(* Changes of account, seen from the page. *)

\* The query for the list of accounts fails at once, which makes the states ready;
\* the one for the account follows.
AccountChanges ==
  /\ HearSwitch
  /\ ready' = (ready \/ SaleContract)
  /\ RefreshIf(SaleContract, wallet')
  /\ UNCHANGED <<contractVars, loaded, priced, status, shown, info, infos, flows, loading, modal,
                 asked, thrown, doubt, clicks, troubles>>

LogIn ==
  /\ Connect
  /\ RefreshIf(SaleContract, wallet')
  /\ UNCHANGED <<contractVars, loaded, priced, status, ready, shown, info, infos, flows, loading,
                 modal, asked, thrown, doubt, clicks, troubles>>

NewSigner ==
  /\ SignerReady
  /\ RefreshIf(loaded, wallet)
  /\ UNCHANGED <<contractVars, loaded, priced, status, ready, shown, info, infos, flows, loading,
                 modal, asked, thrown, doubt, clicks, troubles>>

-----------------------------------------------------------------------------
(* Clicks. *)

\* portionIds of withdrawTokens.  The unlock time is in seconds and is compared with
\* milliseconds, so that every portion looks unlocked.  Without an answer it is [0].
First == CHOOSE p \in Portions : \A q \in Portions : p <= q
CanWithdraw == IF info.of = NoAccount THEN {First} ELSE Portions \ info.portions

Flow(k, step, ps) == [id |-> clicks + 1, kind |-> k, acct |-> wallet, step |-> step,
                      portions |-> ps, sig |-> NoAccount]

Start(f) ==
  /\ clicks < MaxClicks /\ clicks' = clicks + 1
  /\ flows' = flows \cup {f}
  /\ loading' = TRUE
  /\ asked' = asked \cup {<<f.kind, f.acct>>}
  /\ UNCHANGED <<contractVars, walletVars, loaded, priced, status, ready, shown, info, refreshes,
                 infos, modal, thrown, doubt, troubles>>

\* BigNumber.from throws on a missing price with the flag set and nothing there that
\* clears it: participate has not come to finally(), TransactionButton has no try.
Throw ==
  /\ clicks < MaxClicks /\ clicks' = clicks + 1
  /\ loading' = TRUE /\ thrown' = TRUE
  /\ UNCHANGED <<contractVars, walletVars, loaded, priced, status, ready, shown, info, refreshes,
                 infos, flows, modal, asked, doubt, troubles>>

\* A TransactionButton that can be clicked.  Without a contract the click is
\* rejected at once.
CanClick == ~loading /\ wallet # NoAccount /\ SaleContract /\ ready

ClickRegister ==
  /\ CanClick /\ status = 1 /\ ~shown["registered"].val
  /\ Start(Flow("register", "sign", {}))

OpenModal ==
  /\ ~loading /\ wallet # NoAccount /\ ready
  /\ status = 3 /\ shown["registered"].val /\ ~shown["participated"].val
  /\ ~modal /\ modal' = TRUE
  /\ UNCHANGED <<contractVars, walletVars, loaded, priced, status, ready, shown, info, refreshes,
                 infos, flows, loading, asked, thrown, doubt, clicks, troubles>>

CloseModal ==
  /\ modal /\ modal' = FALSE
  /\ UNCHANGED <<contractVars, walletVars, loaded, priced, status, ready, shown, info, refreshes,
                 infos, flows, loading, asked, thrown, doubt, clicks, troubles>>

\* Mutated form of ClickPurchase: the button of the modal does not look at the flag.
ClickPurchaseBusy ==
  /\ modal /\ SaleContract
  /\ \/ priced /\ Start(Flow("participate", "approve", {}))
     \/ ~priced /\ Throw

\* The button in the modal, which stays open whatever becomes of phase and account.
ClickPurchase ==
  /\ modal /\ ~loading /\ SaleContract
  /\ \/ priced /\ Start(Flow("participate", "approve", {}))
     \/ ~priced /\ Throw

\* The price is read first, and for nothing; the contract is looked for after it.
ClickWithdraw ==
  /\ ~loading /\ wallet # NoAccount /\ ready
  /\ status = 5 /\ shown["participated"].val /\ CanWithdraw # {}
  /\ \/ priced /\ SaleContract /\ Start(Flow("withdraw", "call", CanWithdraw))
     \/ ~priced /\ Throw

-----------------------------------------------------------------------------
(* The steps of a flow. *)

Step(f, g) == flows' = (flows \ {f}) \cup {g}

\* The promise of the flow is settled, and the button or finally() clears the flag.
Settle(f) == flows' = flows \ {f} /\ loading' = FALSE

\* approve of the payment token: an error is logged and the flow goes on.
ApproveSettles ==
  /\ \E f \in flows : f.step = "approve" /\ Step(f, [f EXCEPT !.step = "sign"])
  /\ UNCHANGED <<contractVars, walletVars, loaded, priced, status, ready, shown, info, refreshes,
                 infos, loading, modal, asked, thrown, doubt, clicks, troubles>>

\* The back end signs for the account of the click.
SignAnswers ==
  /\ \E f \in flows : f.step = "sign" /\ Step(f, [f EXCEPT !.step = "call", !.sig = f.acct])
  /\ UNCHANGED <<contractVars, walletVars, loaded, priced, status, ready, shown, info, refreshes,
                 infos, loading, modal, asked, thrown, doubt, clicks, troubles>>

\* No signature: hexToBytes throws on undefined.
SignFails ==
  /\ Trouble
  /\ \E f \in flows : f.step = "sign" /\ Settle(f)
  /\ UNCHANGED <<contractVars, walletVars, loaded, priced, status, ready, shown, info, refreshes,
                 infos, modal, asked, thrown, doubt, clicks>>

\* The call goes out from the selected account.  The estimate of its gas fails if it
\* would revert now; otherwise the extension asks the user.
Tx(f) == [id |-> f.id, kind |-> f.kind, from |-> selected, sig |-> f.sig,
          portions |-> f.portions, res |-> "pending"]

CallContract ==
  /\ \E f \in flows :
       /\ f.step = "call"
       /\ IF Passes(Tx(f))
          THEN /\ dialogs' = dialogs \cup {Tx(f)}
               /\ Step(f, [f EXCEPT !.step = "wait"])
               /\ UNCHANGED loading
          ELSE /\ Settle(f)
               /\ UNCHANGED dialogs
  /\ UNCHANGED <<chainVars, pool, walletVars, loaded, priced, status, ready, shown, info,
                 refreshes, infos, modal, asked, thrown, doubt, clicks, troubles>>

Confirm ==
  /\ \E t \in dialogs : dialogs' = dialogs \ {t} /\ pool' = pool \cup {t}
  /\ UNCHANGED <<chainVars, walletVars, pageVars>>

\* Whose page is waiting for transaction t.
Waiting(t) == {f \in flows : f.id = t.id}

Reject ==
  /\ \E t \in dialogs :
       /\ dialogs' = dialogs \ {t}
       /\ flows' = flows \ Waiting(t)
       /\ loading' = (loading /\ Waiting(t) = {})
  /\ UNCHANGED <<chainVars, pool, walletVars, loaded, priced, status, ready, shown, info,
                 refreshes, infos, modal, asked, thrown, doubt, clicks, troubles>>

\* A transaction is mined.  The receipt of one whose page is gone is read by nobody.
Mine ==
  /\ \E t \in pool :
       /\ t.res = "pending"
       /\ LET done == [t EXCEPT !.res = IF Passes(t) THEN "ok" ELSE "failed"] IN
          pool' = (pool \ {t}) \cup (IF Waiting(t) = {} THEN {} ELSE {done})
       /\ IF Passes(t) THEN Execute(t)
          ELSE UNCHANGED <<registered, participated, withdrawn, paid, payouts>>
       /\ doubt' = IF Waiting(t) = {} THEN doubt \cup {"unseen"} ELSE doubt
  /\ UNCHANGED <<now, dialogs, walletVars, loaded, priced, status, ready, shown, info, refreshes,
                 infos, flows, loading, modal, asked, thrown, clicks, troubles>>

\* Mutated form of WaitEnds: a transaction that failed is waited for on.
WaitSucceeds ==
  /\ \E t \in pool : \E f \in Waiting(t) :
       /\ t.res = "ok"
       /\ pool' = pool \ {t}
       /\ Settle(f)
       /\ RefreshIf(t.res = "ok", f.acct)
       /\ modal' = (modal /\ ~(t.res = "ok" /\ f.kind = "participate"))
  /\ UNCHANGED <<chainVars, dialogs, walletVars, loaded, priced, status, ready, shown, info,
                 infos, asked, thrown, doubt, clicks, troubles>>

\* transaction.wait() is settled; after a success the page asks again, for the
\* account of the click, and closes the modal if it was a purchase.
WaitEnds ==
  /\ \E t \in pool : \E f \in Waiting(t) :
       /\ t.res # "pending"
       /\ pool' = pool \ {t}
       /\ Settle(f)
       /\ RefreshIf(t.res = "ok", f.acct)
       /\ modal' = (modal /\ ~(t.res = "ok" /\ f.kind = "participate"))
  /\ UNCHANGED <<chainVars, dialogs, walletVars, loaded, priced, status, ready, shown, info,
                 infos, asked, thrown, doubt, clicks, troubles>>

-----------------------------------------------------------------------------
(* Reload and log-out, the next-state relation and the specification. *)

\* All of the page is lost; dialogs and transactions are not.
Reload ==
  /\ Trouble
  /\ loaded' = FALSE /\ priced' = FALSE /\ status' = -1 /\ ready' = FALSE
  /\ shown' = NoFacts /\ info' = NoInfo
  /\ refreshes' = EmptyBag /\ infos' = EmptyBag
  /\ flows' = {} /\ loading' = FALSE /\ modal' = FALSE
  /\ doubt' = {} /\ thrown' = FALSE
  /\ wallet' = NoAccount /\ signers' = 0 /\ signer' = FALSE
  /\ pool' = {t \in pool : t.res = "pending"}
  /\ UNCHANGED <<chainVars, dialogs, selected, asked, clicks>>

LogOut ==
  /\ Trouble
  /\ Disconnect
  /\ UNCHANGED <<contractVars, loaded, priced, status, ready, shown, info, refreshes, infos,
                 flows, loading, modal, asked, thrown, doubt, clicks>>

SelectAccount ==
  /\ Trouble
  /\ Switch
  /\ UNCHANGED <<contractVars, loaded, priced, status, ready, shown, info, refreshes, infos,
                 flows, loading, modal, asked, thrown, doubt, clicks>>

TimePasses == PassTime /\ UNCHANGED <<walletVars, pageVars>>

\* What goes on by itself: requests are answered, effects run, the user answers the
\* extension's dialog one way or the other, and what is in the pool is mined.
Work ==
  \/ Answer \/ AnswerInfo \/ NewSigner \/ AccountChanges
  \/ ApproveSettles \/ SignAnswers \/ CallContract
  \/ Confirm \/ Reject \/ Mine \/ WaitEnds

Next ==
  \/ Work
  \/ LoadProject \/ JudgePoolStatus
  \/ LogIn \/ LogOut \/ SelectAccount \/ Reload
  \/ ClickRegister \/ OpenModal \/ CloseModal \/ ClickPurchase \/ ClickWithdraw
  \/ AnswerFails \/ InfoFails \/ SignFails
  \/ TimePasses

\* As long as something of this is left to do, some of it is done.
Fairness == WF_vars(Work)

Spec == Init /\ [][Next]_vars /\ Fairness

-----------------------------------------------------------------------------
(* Properties. *)

TypeOK ==
  /\ ContractTypeOK /\ WalletTypeOK
  /\ {loaded, priced, ready, loading, modal, thrown} \subseteq BOOLEAN
  /\ status \in -1..5
  /\ shown \in [Facts -> [of : Accounts \cup {NoAccount}, val : BOOLEAN]]
  /\ info \in [of : Accounts \cup {NoAccount}, portions : SUBSET Portions]
  /\ \A f \in flows : f.kind \in Kinds /\ f.acct \in Accounts \cup {NoAccount}
  /\ \A r \in BagToSet(refreshes) : r.of \in Accounts /\ r.left # {}

\* Nobody is registered or buys who did not ask for it on the page, although the
\* account may change between the click, the signature and the call: the signature
\* is for the account of the click and the contract holds it against the sender.
OnlyAsked ==
  \A a \in Accounts : /\ registered[a] => <<"register", a>> \in asked
                      /\ participated[a] => <<"participate", a>> \in asked

\* The page works on one click at a time, and its buttons wait exactly as long as it
\* does: the end of one flow never releases the buttons under another, and no path of
\* a flow leaves the shared flag set.  Only a click that throws on a missing price
\* (project.tsx:526 and 571, with the flag set at 523 and TransactionButton.tsx:58)
\* leaves it set, until the page is reloaded.
OneFlow == Cardinality(flows) <= 1 /\ loading = (flows # {} \/ thrown)

\* Once nothing is under way, the page shows the contract's state of the connected
\* account, unless it had a reason for doubt: an answer of another account, one that
\* was overtaken by a newer one, a failed request, or a transaction that outlived
\* the page that sent it.
Quiet == /\ wallet # NoAccount /\ SaleContract /\ signers = 0 /\ flows = {}
         /\ refreshes = EmptyBag /\ infos = EmptyBag
Right == /\ \A k \in Facts : shown[k].val = Fact(k, wallet)
         /\ participated[wallet] => info.portions = withdrawn[wallet]
ShownFollows == Quiet /\ doubt = {} => Right

\* As long as the buttons wait, other than after such a throw, or a purchase is not
\* shown to the connected account that made it and the page has no reason for doubt,
\* there is work left that will end it; a page that shows too little and waits for
\* nothing stays so.
Unseen == /\ wallet # NoAccount /\ SaleContract /\ doubt = {}
          /\ participated[wallet]
          /\ shown["participated"] # [of |-> wallet, val |-> TRUE]
Unsettled == (loading /\ ~thrown) \/ Unseen
NeverStuck == Unsettled => ENABLED Work

\* The same under fairness.
Settles == Unsettled ~> ~Unsettled

\* What the page would have to guarantee if answers were matched with the account
\* they were asked for.
ShownAlways == Quiet /\ doubt \subseteq {"other account"} => Right

\* "withdraw success" is shown only when something was withdrawn.
Reported == \A t \in pool : t.kind = "withdraw" /\ t.res = "ok" => withdrawn[t.from] \cap t.portions # {}

=============================================================================
