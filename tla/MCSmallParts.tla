---------------------------- MODULE MCSmallParts ----------------------------
(* Four parts that share no state, in one run: each behaviour is one of      *)
(* AnalysisChecks, AttemptLimiter, FirewallPages or BrowserClient, the       *)
(* others being at rest.                                                     *)
EXTENDS AnalysisChecks, AttemptLimiter, FirewallPages, BrowserClient, TLC

CONSTANTS r1, k1, k2, t1, t2, c1, c2
VARIABLE part

Rule(source, action, description) ==
    [interface |-> "lan", source |-> source, destination |-> "any", port |-> "any",
     protocol |-> "any", action |-> action, description |-> description]
Payload(rules, certificates, v) ==
    [rules |-> rules, certificates |-> certificates, interfaces |-> "i", system |-> "s",
     vpn_tunnels |-> "v", pfsense_version |-> v]

AllowAll == Rule("any", "pass", "all")
BlockAll == Rule("any", "block", "all")
FromLan == Rule("lan", "allow", "lan")
Renamed == [AllowAll EXCEPT !.description = "legacy"]

Rules == <<FromLan, AllowAll, BlockAll, Renamed>>

SomePayloads == {Payload(Rules, <<3>>, "2.4.4_1"), Payload(Rules, <<None, 1>>, None)}
SomePackets ==
    [interface : {"lan", "wan"}, source : {"lan", "wan"}, destination : {"lan"}, port : {443},
     protocol : {"tcp"}]
Cve == [v \in {"2.4.4_1"} |-> {"CVE-2018-20798"}]
SomeRenames == {r1}

SomeKeys == {k1, k2}
SomeLimits == {-1, 1, 2, 5}
SomeTabs == {t1, t2}
SomeCalls == {c1, c2}
Symmetry == Permutations(SomeTabs) \union Permutations(SomeCalls)

Init ==
    /\ ChecksInit /\ LimiterInit /\ PagesInit /\ BrowserInit
    /\ part \in {"checks", "limiter", "pages", "browser"}

Next ==
    /\ UNCHANGED part
    /\ \/ part = "checks" /\ ChecksNext /\ UNCHANGED <<limiterVars, pagesVars, browserVars>>
       \/ part = "limiter" /\ LimiterNext /\ UNCHANGED <<checksVars, pagesVars, browserVars>>
       \/ part = "pages" /\ PagesNext /\ UNCHANGED <<checksVars, limiterVars, browserVars>>
       \/ part = "browser" /\ BrowserNext /\ UNCHANGED <<checksVars, limiterVars, pagesVars>>

Spec == Init /\ [][Next]_<<checksVars, limiterVars, pagesVars, browserVars, part>>
=============================================================================
