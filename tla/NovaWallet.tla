------------------------------ MODULE NovaWallet ------------------------------
(***************************************************************************)
(* The wallet side of nova-fe (hooks/useWallet.ts, useAuth.ts): which      *)
(* account the browser extension has selected, which one the page believes *)
(* in, and the signer, which is built asynchronously after every change of *)
(* account.  The signer is not bound to an account: what it sends goes out *)
(* from the account selected in the extension at that moment.              *)
(***************************************************************************)
EXTENDS NovaContract

VARIABLES
  selected,  \* the account selected in the extension
  wallet,    \* walletAddress in the store, or NoAccount
  signers,   \* signers being built
  signer     \* whether the store has a signer

walletVars == <<selected, wallet, signers, signer>>

WalletInit ==
  /\ selected = CHOOSE a \in Accounts : TRUE   \* they are interchangeable
  /\ wallet = NoAccount
  /\ signers = 0
  /\ signer = FALSE

\* The user selects another account in the extension; the page hears of it later.
Switch ==
  /\ \E a \in Accounts \ {selected} : selected' = a
  /\ UNCHANGED <<wallet, signers, signer>>

\* accountsChanged reaches both of its listeners.  The one installed on mount gets
\* the list of accounts and stores it as the address, the one of web3-react then
\* stores the account itself.  The effect that builds a signer runs for each, in the
\* same turn: one signer stands for both.
HearSwitch ==
  /\ wallet # NoAccount /\ wallet # selected
  /\ wallet' = selected
  /\ signers' = signers + 1
  /\ UNCHANGED <<selected, signer>>

\* login and the effect of the new account.  After a log-out the listener of the
\* mount may have left a list as address, with which nothing but this can be done.
Connect ==
  /\ wallet = NoAccount
  /\ wallet' = selected
  /\ signers' = signers + 1
  /\ UNCHANGED <<selected, signer>>

\* logout, or the extension is locked: the address goes, and the effect on it drops
\* the signer and with it the contracts.  A signer still being built is not dropped.
Disconnect ==
  /\ wallet # NoAccount
  /\ wallet' = NoAccount
  /\ signer' = FALSE
  /\ UNCHANGED <<selected, signers>>

SignerReady ==
  /\ signers > 0
  /\ signers' = signers - 1
  /\ signer' = TRUE
  /\ UNCHANGED <<selected, wallet>>

WalletTypeOK ==
  /\ selected \in Accounts /\ wallet \in Accounts \cup {NoAccount}
  /\ signers \in Nat /\ signer \in BOOLEAN

=============================================================================
