------------------------- MODULE MCFirewallRegistry -------------------------
(* Small instances of FirewallRegistry. *)
EXTENDS FirewallRegistry, TLC

Symmetric == Permutations(Firewalls) \union Permutations(Names)
             \union Permutations(Tokens) \union Permutations(Handlers)
=============================================================================
