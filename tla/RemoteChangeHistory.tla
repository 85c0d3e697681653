------------------------ MODULE RemoteChangeHistory ------------------------
(***************************************************************************)
(* What remote_change_logs promises, without the requests that write it: a *)
(* permanent history.  Rows are appended one at a time, each linked to a   *)
(* row already there or to nothing, are never removed and never re-linked; *)
(* a row becomes undone only in the step that appends the row of its       *)
(* rollback, and stays undone.                                             *)
(***************************************************************************)
CONSTANTS Commands, None

VARIABLES rows, link, undone

historyVars == <<rows, link, undone>>

Init ==
    /\ rows = {}
    /\ link = [c \in Commands |-> None]
    /\ undone = {}

Append(c, prev, undoes) ==
    /\ c \notin rows
    /\ rows' = rows \union {c}
    /\ link' = [link EXCEPT ![c] = prev]
    /\ undone' = undone \union undoes

Next ==
    \E c \in Commands, prev \in rows \union {None} :
        \/ Append(c, prev, {})
        \/ \E t \in rows : Append(c, prev, {t})

Spec == Init /\ [][Next]_historyVars
=============================================================================
