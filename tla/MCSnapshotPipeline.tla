------------------------- MODULE MCSnapshotPipeline -------------------------
(* Small instances of SnapshotPipeline. *)
EXTENDS SnapshotPipeline, TLC

CONSTANTS fw1

OneFirewall == [s \in Snapshots |-> fw1]

\* agent_offline and config_drift return at most one finding, risky_rule,
\* duplicate_rule, expiring_cert and known_cve one for each offender
OneCheck == <<"risky_rule">>
TwoChecks == <<"config_drift", "risky_rule">>
Yields == [k \in {"config_drift", "risky_rule"} |-> IF k = "risky_rule" THEN 2 ELSE 1]

Symmetric == Permutations(Findings) \union Permutations(Channels) \union Permutations(Workers)
             \union Permutations(Snapshots)
=============================================================================
