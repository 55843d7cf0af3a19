-------------------------- MODULE RedisRateLimiter --------------------------
(***************************************************************************)
(* RedisRateLimiter.acquire (app/core/rate_limit.py): one counter per      *)
(* caller and minute, kept in Redis for the threads of all API copies.     *)
(* The clock is a minute and a second of Seconds in a minute, so "60       *)
(* seconds later" is the same second of the next minute.  The copies'      *)
(* clocks agree.  Where a thread is:                                       *)
(*   idle, read (it has read the clock), first (INCR returned 1)           *)
(***************************************************************************)
EXTENDS Naturals, FiniteSets

CONSTANTS Keys,        \* the callers
          Handlers,    \* the threads of all API copies
          Limit,
          Seconds,     \* seconds in a minute
          MaxMinute,   \* bound: the last minute
          MaxRequests, \* bound: no new request once a counter is this high
          FaultKinds,  \* "store" (Redis unreachable), "restart" (its data is
                       \* lost), "stop" (an API copy stops)
          MaxFaults    \* bound: how many of them

ASSUME RedisAssumption ==
  /\ Limit \in Nat \ {0}
  /\ Seconds \in Nat \ {0}
  /\ MaxMinute \in Nat
  /\ MaxRequests \in Nat
  /\ MaxFaults \in Nat

VARIABLES minute, second,
          count,     \* per counter, its value, 0 if it does not exist
          expiry,    \* per counter, when Redis deletes it
          at,        \* per thread, see above
          counter,   \* per thread, its counter
          faults,
          allowed    \* per caller, requests this minute's counter let pass

store == <<count, expiry>>
calls == <<at, counter>>
sharedVars == <<minute, second, store, calls, faults, allowed>>

Minutes  == 0..MaxMinute
Counters == Keys \X Minutes
Never    == <<>>

SharedTypeOK ==
  /\ minute \in Minutes /\ second \in 0..(Seconds - 1)
  /\ count \in [Counters -> Nat]
  /\ expiry \in [Counters -> (Nat \X Nat) \cup {Never}]
  /\ at \in [Handlers -> {"idle", "read", "first"}]
  /\ counter \in [Handlers -> Counters]
  /\ faults \in Nat
  /\ allowed \in [Keys -> Nat]

SharedInit ==
  /\ minute = 0 /\ second = 0
  /\ count = [c \in Counters |-> 0]
  /\ expiry = [c \in Counters |-> Never]
  /\ at = [t \in Handlers |-> "idle"]
  /\ counter \in [Handlers -> Keys \X {0}]
  /\ faults = 0
  /\ allowed = [k \in Keys |-> 0]

Goes(t, place) == at' = [at EXCEPT ![t] = place]

Fault(kind) == /\ kind \in FaultKinds
               /\ faults < MaxFaults
               /\ faults' = faults + 1

---------------------------------------------------------------------------

ReadMinute(t, k) ==
  /\ at[t] = "idle"
  /\ count[<<k, minute>>] < MaxRequests
  /\ Goes(t, "read")
  /\ counter' = [counter EXCEPT ![t] = <<k, minute>>]
  /\ UNCHANGED <<minute, second, store, faults, allowed>>

\* Mutant of Passes: one request more.
PassesOneMore(n) == n - 1 <= Limit

Passes(n) == n <= Limit

\* Mutant of IsFirst: the wrong request sets the lifetime.
IsLast(n) == n = Limit + 1

IsFirst(n) == n = 1

\* INCR, then EXPIRE if the counter is new.
Incr(t) ==
  LET c == counter[t]
      n == count[c] + 1
  IN /\ at[t] = "read"
     /\ count' = [count EXCEPT ![c] = n]
     /\ Goes(t, IF IsFirst(n) THEN "first" ELSE "idle")
     /\ allowed' = [allowed EXCEPT ![c[1]] = IF Passes(n) /\ c[2] = minute THEN @ + 1 ELSE @]
     /\ UNCHANGED <<minute, second, expiry, counter, faults>>

\* 60 seconds
Lifetime == <<minute + 1, second>>

\* EXPIRE does nothing to a counter that is gone.
Expire(t) ==
  LET c == counter[t]
  IN /\ at[t] = "first"
     /\ expiry' = [expiry EXCEPT ![c] = IF count[c] = 0 THEN Never ELSE Lifetime]
     /\ Goes(t, "idle")
     /\ UNCHANGED <<minute, second, count, counter, faults, allowed>>

\* The store refuses, or its answer is lost on the way: INCR may have counted.
\* The request is allowed, and nothing more is tried.
StoreFails(t) ==
  /\ at[t] # "idle"
  /\ Fault("store")
  /\ Goes(t, "idle")
  /\ \/ UNCHANGED count
     \/ at[t] = "read" /\ count' = [count EXCEPT ![counter[t]] = @ + 1]
  /\ UNCHANGED <<minute, second, expiry, counter, allowed>>

CopyStops(t) ==
  /\ at[t] # "idle"
  /\ Fault("stop")
  /\ Goes(t, "idle")
  /\ UNCHANGED <<minute, second, store, counter, allowed>>

\* Redis has no disk: "everyone simply gets a fresh minute".
RedisRestarts ==
  /\ Fault("restart")
  /\ count' = [c \in Counters |-> 0]
  /\ expiry' = [c \in Counters |-> Never]
  /\ allowed' = [k \in Keys |-> 0]
  /\ UNCHANGED <<minute, second, calls>>

\* A second passes, and Redis deletes the counters whose time has come.
NextSecond ==
  /\ IF second + 1 < Seconds THEN second' = second + 1 /\ UNCHANGED minute
     ELSE minute < MaxMinute /\ second' = 0 /\ minute' = minute + 1
  /\ count'  = [c \in Counters |-> IF expiry[c] = <<minute', second'>> THEN 0 ELSE count[c]]
  /\ expiry' = [c \in Counters |-> IF expiry[c] = <<minute', second'>> THEN Never ELSE expiry[c]]
  /\ allowed' = [k \in Keys |-> IF minute' = minute THEN allowed[k] ELSE 0]
  /\ UNCHANGED <<calls, faults>>

SharedNext ==
  \/ \E t \in Handlers : \/ \E k \in Keys : ReadMinute(t, k)
                        \/ Incr(t) \/ Expire(t) \/ StoreFails(t) \/ CopyStops(t)
  \/ RedisRestarts
  \/ NextSecond

SharedSpec == SharedInit /\ [][SharedNext]_sharedVars

---------------------------------------------------------------------------

\* "Two API copies can never both read 4 and both let a 5th request through":
\* in no minute do the copies together let more than Limit requests of a
\* caller pass on this minute's counter, though the counter may be created
\* late, read late and deleted by its lifetime.
SharedBudget == \A k \in Keys : allowed[k] <= Limit

\* A counter Redis will never delete: "Redis deletes the counter by itself once
\* the minute is over" (rate_limit.py) needs a lifetime, or a thread about to set it.
Immortal(c) ==
  /\ count[c] # 0 /\ expiry[c] = Never
  /\ ~ \E t \in Handlers : at[t] = "first" /\ counter[t] = c

\* INCR and EXPIRE are two commands, so a copy that stops between them, or a
\* store that fails there, leaves such a counter.  Nothing else does: not races
\* of threads, not restarts of Redis, not counters that expire meanwhile.
CountersExpire == Cardinality({c \in Counters : Immortal(c)}) <= faults

---------------------------------------------------------------------------
(* The inductive invariant: this minute's counter outlives the minute, and *)
(* nobody knows a later minute than the clock.                             *)

OutlivesMinute(c) == expiry[c] # Never /\ c[2] = minute => expiry[c][1] > minute

SharedIInv ==
  /\ SharedTypeOK
  /\ \A t \in Handlers : counter[t][2] <= minute
  /\ \A c \in Counters : OutlivesMinute(c) /\ (c[2] > minute => expiry[c] = Never)
  /\ \A k \in Keys : allowed[k] <= Limit /\ allowed[k] <= count[<<k, minute>>]

=============================================================================
