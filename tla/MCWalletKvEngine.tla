------------------------- MODULE MCWalletKvEngine -------------------------
(* Instance of WalletKvEngine for TLC: a small namespace.                  *)
EXTENDS WalletKvEngine, TLC

Symmetry == Permutations(Writers) \cup Permutations(Partitions)
            \cup Permutations(Keys) \cup Permutations(Contents) \cup Permutations(Ids)
=============================================================================
