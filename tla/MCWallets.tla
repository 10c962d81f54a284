----------------------------- MODULE MCWallets -----------------------------
(***************************************************************************)
(* Instances of Wallets: words with and without a passphrase, which are    *)
(* two wallets, both members of each multisig wallet.                      *)
(***************************************************************************)
EXTENDS Wallets

MCDrafts == Wallet

MCMember == Wallet \X Multi

=============================================================================
