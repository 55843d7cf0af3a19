----------------------------- MODULE RateLimits -----------------------------
(***************************************************************************)
(* The limits of an API process: create_app (app/main.py) builds one       *)
(* limiter per budget, in Redis if there is one and in memory otherwise,   *)
(* or none at all, and enforce asks it.  The choice lasts as long as the   *)
(* process.                                                                *)
(***************************************************************************)
EXTENDS RateLimiter, RedisRateLimiter

VARIABLE backend  \* app.state.rate_limiters: off, memory or redis

LimitsInit ==
  /\ backend \in {"off", "memory", "redis"}
  /\ Init /\ SharedInit

\* enforce; without a limiter no request is asked about.
LimitsNext ==
  \/ backend = "memory" /\ Next /\ UNCHANGED <<backend, sharedVars>>
  \/ backend = "redis" /\ SharedNext /\ UNCHANGED <<backend, vars>>

LimitsSpec == LimitsInit /\ [][LimitsNext]_<<backend, vars, sharedVars>>

=============================================================================
