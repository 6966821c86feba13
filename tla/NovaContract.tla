----------------------------- MODULE NovaContract -----------------------------
(***************************************************************************)
(* The sale contract of NovaLaunch (nova-contracts, NovaSale.sol) as the   *)
(* pages of nova-fe use it: accounts register with a signature of the back *)
(* end, buy once, and withdraw the bought tokens in portions as these      *)
(* unlock.  Amounts are left out: an account has paid or has not.          *)
(*                                                                         *)
(* A transaction goes from the wallet's dialog, where the user confirms or *)
(* rejects it, to the pool of the chain, is mined, and its receipt waits   *)
(* for the page that sent it.  Dialogs and pool outlive the page.          *)
(***************************************************************************)
EXTENDS Integers, FiniteSets

CONSTANTS
  Accounts,
  NoAccount,                      \* no wallet connected, no signature
  RegStarts, RegEnds,             \* registration, both ends included
  SaleStart, SaleEnd, Unlock,     \* sale, end excluded; tokens unlock
  Portions,                       \* portionIds
  UnlockAt,                       \* portion -> vestingPortionsUnlockTime
  MaxTime,
  Openings    \* when the page is opened: the time, and who has registered and bought

ASSUME NovaAssumption ==
  /\ Accounts # {} /\ NoAccount \notin Accounts
  /\ {RegStarts, RegEnds, SaleStart, SaleEnd, Unlock, MaxTime} \subseteq Nat
  /\ RegStarts <= RegEnds /\ RegEnds <= SaleStart /\ SaleStart <= SaleEnd /\ SaleEnd <= Unlock
  /\ Portions # {} /\ Portions \subseteq Nat
  /\ UnlockAt \in [Portions -> Nat]
  /\ \A o \in Openings :
       /\ o.bought \subseteq o.registered /\ o.registered \subseteq Accounts
       /\ o.now \in 0..MaxTime
       /\ o.registered # {} => o.now >= RegStarts
       /\ o.bought # {} => o.now >= SaleStart

VARIABLES
  now,           \* block.timestamp
  registered,    \* isRegistered
  participated,  \* isParticipated
  withdrawn,     \* isPortionWithdrawn of each account's participation
  paid,          \* history: how often each account has paid
  payouts,       \* history: how often each portion has been paid out to each account
  dialogs,       \* transactions the user is asked to confirm
  pool           \* transactions sent, with their result

chainVars == <<now, registered, participated, withdrawn, paid, payouts>>
contractVars == <<chainVars, dialogs, pool>>

Kinds == {"register", "participate", "withdraw"}

ContractInit ==
  /\ \E o \in Openings :
       /\ now = o.now
       /\ registered = [a \in Accounts |-> a \in o.registered]
       /\ participated = [a \in Accounts |-> a \in o.bought]
       /\ paid = [a \in Accounts |-> IF a \in o.bought THEN 1 ELSE 0]
  /\ withdrawn = [a \in Accounts |-> {}]
  /\ payouts = [a \in Accounts |-> [p \in Portions |-> 0]]
  /\ dialogs = {}
  /\ pool = {}

-----------------------------------------------------------------------------
(* The three calls. *)

\* Mutated form of RegisterPasses: whose signature it is is not looked at.
AnySignaturePasses(t) ==
  /\ RegStarts <= now /\ now <= RegEnds
  /\ ~registered[t.from]

RegisterPasses(t) ==
  /\ RegStarts <= now /\ now <= RegEnds
  /\ t.sig = t.from
  /\ ~registered[t.from]

RegisterForSale(t) ==
  /\ registered' = [registered EXCEPT ![t.from] = TRUE]
  /\ UNCHANGED <<participated, withdrawn, paid, payouts>>

\* Mutated form of ParticipatePasses: an account may buy again.
ParticipateAgainPasses(t) ==
  /\ registered[t.from]
  /\ t.sig = t.from
  /\ SaleStart <= now /\ now < SaleEnd

ParticipatePasses(t) ==
  /\ registered[t.from]
  /\ t.sig = t.from
  /\ SaleStart <= now /\ now < SaleEnd
  /\ ~participated[t.from]

Participate(t) ==
  /\ participated' = [participated EXCEPT ![t.from] = TRUE]
  /\ withdrawn' = [withdrawn EXCEPT ![t.from] = {}]
  /\ paid' = [paid EXCEPT ![t.from] = @ + 1]
  /\ UNCHANGED <<registered, payouts>>

\* The participation of an account that has not bought has no portions: the access
\* to one of them reverts.
WithdrawPasses(t) == participated[t.from] \/ t.portions = {}

\* Portions already withdrawn, or still locked, are passed over.
Payable(t) == {p \in t.portions : p \notin withdrawn[t.from] /\ UnlockAt[p] <= now}

WithdrawMultiplePortions(t) ==
  /\ withdrawn' = [withdrawn EXCEPT ![t.from] = @ \cup Payable(t)]
  /\ payouts' = [payouts EXCEPT ![t.from] =
                   [p \in Portions |-> IF p \in Payable(t) THEN @[p] + 1 ELSE @[p]]]
  /\ UNCHANGED <<registered, participated, paid>>

Passes(t) == CASE t.kind = "register"    -> RegisterPasses(t)
               [] t.kind = "participate" -> ParticipatePasses(t)
               [] t.kind = "withdraw"    -> WithdrawPasses(t)

Execute(t) == \/ t.kind = "register"    /\ RegisterForSale(t)
              \/ t.kind = "participate" /\ Participate(t)
              \/ t.kind = "withdraw"    /\ WithdrawMultiplePortions(t)

-----------------------------------------------------------------------------
(* Time. *)

PassTime ==
  /\ now < MaxTime
  /\ now' = now + 1
  /\ UNCHANGED <<registered, participated, withdrawn, paid, payouts, dialogs, pool>>

-----------------------------------------------------------------------------
(* What the contract promises. *)

\* An account pays once, and each portion is paid out to it once and never before it
\* unlocks, however often its holder sends the call: from a page that was reloaded
\* with the first transaction under way, or that shows another account's state.
\* NovaSale.sol: "User can participate only once.", "Tokens already withdrawn or
\* portion not unlocked yet."
OncePerAccount ==
  \A a \in Accounts :
    /\ paid[a] = (IF participated[a] THEN 1 ELSE 0)
    /\ \A p \in Portions : /\ payouts[a][p] <= paid[a]
                           /\ payouts[a][p] > 0 => UnlockAt[p] <= now

ContractTypeOK ==
  /\ now \in 0..MaxTime
  /\ registered \in [Accounts -> BOOLEAN] /\ participated \in [Accounts -> BOOLEAN]
  /\ withdrawn \in [Accounts -> SUBSET Portions]
  /\ paid \in [Accounts -> Nat] /\ payouts \in [Accounts -> [Portions -> Nat]]

=============================================================================
