------------------------------ MODULE RateLimit ------------------------------
(***************************************************************************)
(* platform/ratelimit: events per key and minute, counted in the memory of  *)
(* one process.  The mutex makes Allow one step (the clock is read just     *)
(* before it is taken, in the same tick), so what a limiter admits is a     *)
(* function of the instants at which Allow is called.  Time is in ticks; a  *)
(* minute is Minute of them.                                                *)
(***************************************************************************)
EXTENDS Integers, Sequences, FiniteSets

CONSTANTS
    PerMinute,      \* events admitted in one window
    Minute,         \* ticks; a second is one of them
    Sweep,          \* ticks between two removals of old buckets: 5 minutes
    Clients,        \* keys: "ip:..." or a principal's
    Pauses,         \* ticks that may pass before the next call
    MaxCalls        \* bound: calls considered

ASSUME LimitAssumption ==
    /\ PerMinute \in Nat \ {0} /\ Minute \in Nat \ {0} /\ Sweep \in Nat /\ Sweep > Minute
    /\ Pauses \subseteq Nat /\ MaxCalls \in Nat

\* A bucket with count 0 is one the map does not hold.
NoBucket == [window |-> 0, count |-> 0]
NewLimiter == [bucket |-> [c \in Clients |-> NoBucket], last |-> 0, now |-> 0,
               made |-> {}]

\* Not Swept: removes young buckets as well.
SweptAll(l, now) ==
    IF now - l.last > Sweep
    THEN [l EXCEPT !.bucket = [c \in Clients |-> NoBucket], !.last = now]
    ELSE l

\* Every five minutes the buckets older than a minute go.
Swept(l, now) ==
    IF now - l.last > Sweep
    THEN [l EXCEPT !.bucket = [c \in Clients |->
                       IF now - l.bucket[c].window > Minute THEN NoBucket ELSE l.bucket[c]],
                   !.last = now]
    ELSE l

\* The bucket of a key after one more call: a new window, or one call more.
Counted(b, now) ==
    IF b.count = 0 \/ now - b.window >= Minute THEN [window |-> now, count |-> 1]
    ELSE [b EXCEPT !.count = b.count + 1]

\* Allow, for the n-th call; made records every call, the window it was counted
\* in and whether it passed.
Allow(l, n, call) ==
    LET now == l.now + call.pause
        swept == Swept(l, now)
        b == Counted(swept.bucket[call.client], now)
    IN  [swept EXCEPT
            !.bucket[call.client] = b,
            !.now = now,
            !.made = l.made \cup {[n |-> n, client |-> call.client, at |-> now,
                                   window |-> b.window,
                                   passed |-> b.count <= PerMinute]}]

Calls == UNION {[1..n -> [client : Clients, pause : Pauses]] : n \in 0..MaxCalls}

After(calls) ==
    LET limiter[n \in 0..Len(calls)] ==
            IF n = 0 THEN NewLimiter ELSE Allow(limiter[n - 1], n, calls[n])
    IN  limiter[Len(calls)]

\* The calls a client made in the minute that ends with call e.
Lately(made, e) ==
    {f \in made : f.client = e.client /\ f.n <= e.n /\ e.at - f.at < Minute}

\* No more than two windows touch a minute, so nobody passes more than twice
\* PerMinute times in it, wherever the sweeps fall.
WithinTwiceTheLimit(made) ==
    \A e \in made : Cardinality({f \in Lately(made, e) : f.passed}) <= 2 * PerMinute

\* A client that keeps to PerMinute calls in every minute is never refused.
PatientClientsPass(made) ==
    \A c \in Clients : LET calls == {e \in made : e.client = c} IN
        (\A e \in calls : Cardinality(Lately(made, e)) <= PerMinute) =>
            \A e \in calls : e.passed

LimitsAreKept ==
    \A calls \in Calls :
        LET made == After(calls).made
        IN  WithinTwiceTheLimit(made) /\ PatientClientsPass(made)
=============================================================================
