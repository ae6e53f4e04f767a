-------------------------- MODULE MCWalletSession --------------------------
(* TLC instances of WalletSession. *)
EXTENDS WalletSession
=============================================================================
