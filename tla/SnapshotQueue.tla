---------------------------- MODULE SnapshotQueue ----------------------------
(***************************************************************************)
(* What the table of snapshots promises, without the worker that serves    *)
(* it: a queue.  A snapshot comes in in two steps, and is behind those     *)
(* that were in the queue, or had left it, when it began to.  Snapshots    *)
(* are served one at a time; one is started once, when all it is behind    *)
(* were, and is done at most once, by the service that started it.         *)
(***************************************************************************)
CONSTANTS Snapshots

VARIABLES state, before, serving

queueVars == <<state, before, serving>>

Init ==
    /\ state = [s \in Snapshots |-> "absent"]
    /\ before = [s \in Snapshots |-> {}]
    /\ serving = {}

Started == {s \in Snapshots : state[s] \in {"processing", "done"}}

Stored == {s \in Snapshots : state[s] = "queued"} \union Started

Arrive(s) ==
    /\ state[s] = "absent"
    /\ state' = [state EXCEPT ![s] = "arriving"]
    /\ before' = [before EXCEPT ![s] = Stored]
    /\ UNCHANGED serving

Store(s) ==
    /\ state[s] = "arriving"
    /\ state' = [state EXCEPT ![s] = "queued"]
    /\ UNCHANGED <<before, serving>>

Start(s) ==
    /\ serving = {}
    /\ state[s] = "queued"
    /\ before[s] \subseteq Started
    /\ state' = [state EXCEPT ![s] = "processing"]
    /\ serving' = {s}
    /\ UNCHANGED before

End(s) ==
    /\ serving = {s}
    /\ state[s] = "processing"
    /\ state' = [state EXCEPT ![s] = "done"]
    /\ serving' = {}
    /\ UNCHANGED before

\* The service fails; its snapshot is never started again
Fail ==
    /\ serving # {}
    /\ serving' = {}
    /\ UNCHANGED <<state, before>>

Next ==
    \/ \E s \in Snapshots : Arrive(s) \/ Store(s) \/ Start(s) \/ End(s)
    \/ Fail

Spec == Init /\ [][Next]_queueVars
=============================================================================
