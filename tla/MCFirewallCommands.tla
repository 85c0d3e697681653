------------------------- MODULE MCFirewallCommands -------------------------
(* Small instances of FirewallCommands. *)
EXTENDS FirewallCommands, TLC

CONSTANTS c3, f1, f2

\* Every command belongs to the one firewall
OneFirewall == [c \in Commands |-> f1]

\* One command for the second firewall, the others for the first
TwoFirewalls == [c \in Commands |-> IF c = c3 THEN f2 ELSE f1]

\* Commands of one firewall are interchangeable, and so are handlers
Symmetric == Permutations(Commands) \union Permutations(Handlers)
=============================================================================
