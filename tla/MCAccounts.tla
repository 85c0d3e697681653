------------------------------ MODULE MCAccounts ------------------------------
(* Small instances of Accounts. *)
EXTENDS Accounts, TLC

Symmetric == Permutations(Emails) \union Permutations(Accounts \ Legacy)
             \union Permutations(Organizations) \union Permutations(Firewalls)
             \union Permutations(Channels) \union Permutations(Handlers)
=============================================================================
