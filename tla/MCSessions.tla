------------------------------ MODULE MCSessions ------------------------------
(* Small instances of Sessions. *)
EXTENDS Sessions, TLC

Symmetric == Permutations(Refreshes) \union Permutations(Resets) \union Permutations(Handlers)
=============================================================================
