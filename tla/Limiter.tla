------------------------------- MODULE Limiter -------------------------------
(***************************************************************************)
(* One limiter of platform/ratelimit as a state machine: requests arrive    *)
(* one after another, and each calls Allow.                                 *)
(***************************************************************************)
EXTENDS RateLimit

VARIABLES
    limiter,        \* buckets, last sweep and clock; made is the history
    calls           \* calls made so far

vars == <<limiter, calls>>

Init == limiter = NewLimiter /\ calls = 0

\* The middleware asks the limiter about a request of c.
Asks(c, pause) ==
    /\ calls < MaxCalls /\ calls' = calls + 1
    /\ limiter' = Allow(limiter, calls', [client |-> c, pause |-> pause])

Next == \E c \in Clients, pause \in Pauses : Asks(c, pause)

Spec == Init /\ [][Next]_vars

\* What docs/API.md promises of the limits ("per minute, sliding window"): in no
\* minute, wherever it begins, do more than PerMinute requests of a client pass.
\* Windows that open with a key's first request do not keep it.
WindowSlides ==
    \A e \in limiter.made :
        Cardinality({f \in Lately(limiter.made, e) : f.passed}) <= PerMinute
=============================================================================
