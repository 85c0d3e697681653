-------------------------- MODULE CommandLifecycle --------------------------
(***************************************************************************)
(* The life of a remote command as the use cases describe it: created      *)
(* pending, confirmed or expired, then sent to the agent, then applied or  *)
(* failed.  Each state is entered once and the last ones are final.  Of a  *)
(* command that two requests worked on at one time nothing is promised.    *)
(***************************************************************************)
CONSTANTS Commands

VARIABLES
    state,
    contested   \* the commands that two requests held at one time

Forward ==
    {<<"absent", "pending_confirmation">>,
     <<"pending_confirmation", "confirmed">>, <<"pending_confirmation", "expired">>,
     <<"confirmed", "sent_to_agent">>,
     <<"sent_to_agent", "applied">>, <<"sent_to_agent", "failed">>}

Init ==
    /\ state = [c \in Commands |-> "absent"]
    /\ contested = {}

Next ==
    /\ contested \subseteq contested'
    /\ \A c \in Commands \ contested :
         state'[c] = state[c] \/ <<state[c], state'[c]>> \in Forward

Spec == Init /\ [][Next]_<<state, contested>>
=============================================================================
