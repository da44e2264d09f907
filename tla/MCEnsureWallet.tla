--------------------------- MODULE MCEnsureWallet ---------------------------
(* Instance of EnsureWallet for TLC: model values in the .cfg. *)
EXTENDS EnsureWallet
=============================================================================
