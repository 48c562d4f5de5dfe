----------------------------- MODULE Admission -----------------------------
(***************************************************************************)
(* Signing in behind the limiter that the routes of authentication share.   *)
(***************************************************************************)
EXTENDS SignIn, RateLimit

\* The limiter is a function of the calls made of it, so it is examined once, in
\* the initial state.

\* No client gets past the limiter more than twice PerMinute times in any
\* minute, and one that keeps to PerMinute is never refused, wherever the
\* windows and the sweeps fall (ratelimit.go, Allow).
AttemptsAreLimited == Init => LimitsAreKept
=============================================================================
