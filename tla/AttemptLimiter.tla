--------------------------- MODULE AttemptLimiter ---------------------------
(***************************************************************************)
(* The limiter of logins (5 in 15 minutes for an address and an e-mail),   *)
(* and that of password reset mails (3 for an e-mail), which is the same   *)
(* code.  The attempts are lists of times in the memory of the one API     *)
(* process; a list is only filtered, counted and appended to, so it is     *)
(* modelled as the set of the attempts it still holds, by their numbers.   *)
(* The function has no await, so a check is one step.                      *)
(***************************************************************************)
EXTENDS Naturals, Sequences, FiniteSets

CONSTANTS
    Keys,           \* "ip:email", or the e-mail
    MaxAttempts,
    Window,
    MaxLimiterTime  \* bound: the clock

ASSUME LimiterAssumption ==
    /\ MaxAttempts \in Nat \ {0} /\ Window \in Nat \ {0}
    /\ MaxLimiterTime \in Nat

VARIABLES
    clock,          \* time.monotonic()
    attempts,       \* the attempts each key's list holds: numbers in accepted
    accepted,       \* history: all the times this process let a key through
    answer          \* history: the last check, its time and its answer

limiterVars == <<clock, attempts, accepted, answer>>

NoAnswer == [key |-> "none", at |-> 0, ok |-> TRUE]

LimiterInit ==
    /\ clock = 0
    /\ attempts = [k \in Keys |-> {}]
    /\ accepted = [k \in Keys |-> <<>>]
    /\ answer = NoAnswer

LimiterTick ==
    /\ clock < MaxLimiterTime
    /\ clock' = clock + 1
    /\ UNCHANGED <<attempts, accepted, answer>>

\* Mutant: the edge of the window is kept.
RecentWithEdge(k) == {i \in attempts[k] : accepted[k][i] + Window >= clock}

\* The attempts after the start of the window
Recent(k) == {i \in attempts[k] : accepted[k][i] + Window > clock}

\* _login_rate_limit_check and _forgot_password_rate_limit_check: a refused
\* attempt is not recorded
RateLimitCheck(k) ==
    LET ok == Cardinality(Recent(k)) < MaxAttempts
        next == Len(accepted[k]) + 1
    IN
    /\ attempts' = [attempts EXCEPT ![k] = Recent(k) \union IF ok THEN {next} ELSE {}]
    /\ accepted' = IF ok THEN [accepted EXCEPT ![k] = Append(@, clock)] ELSE accepted
    /\ answer' = [key |-> k, at |-> clock, ok |-> ok]
    /\ UNCHANGED clock

\* The process is started again: its memory is gone
Restart ==
    /\ attempts' = [k \in Keys |-> {}]
    /\ accepted' = [k \in Keys |-> <<>>]
    /\ answer' = NoAnswer
    /\ UNCHANGED clock

LimiterNext == LimiterTick \/ (\E k \in Keys : RateLimitCheck(k)) \/ Restart

LimiterSpec == LimiterInit /\ [][LimiterNext]_limiterVars

\* As long as the process runs, no window of time holds more than MaxAttempts
\* accepted attempts of a key, and an attempt is refused only if the window
\* that ends with it is full: nobody is locked out by refused attempts, by
\* another key, or by one that left the window.
LimitIsExact ==
    /\ \A k \in Keys : \A i \in 1..Len(accepted[k]) :
         i + MaxAttempts <= Len(accepted[k]) =>
             accepted[k][i + MaxAttempts] >= accepted[k][i] + Window
    /\ ~answer.ok =>
         LET times == accepted[answer.key] IN
         /\ Len(times) >= MaxAttempts
         /\ times[Len(times) - MaxAttempts + 1] + Window > answer.at

=============================================================================
