---------------------------- MODULE RateLimiter ----------------------------
(***************************************************************************)
(* RateLimiter.acquire (app/core/rate_limit.py), the token bucket of one   *)
(* API process.  Time and tokens are counted in units: one unit of budget  *)
(* comes back per tick, and a request costs Cost units, so a bucket of     *)
(* Capacity requests refills in Capacity * Cost ticks, which is the minute *)
(* of per_minute.  A thread reads the clock before it takes the lock, so   *)
(* what it calls "now" may be long past when its turn comes.               *)
(***************************************************************************)
EXTENDS Integers, Sequences, SequencesExt

CONSTANTS Callers,    \* keys
          Threads,    \* of the process's pool
          Capacity,   \* requests per minute
          Cost,       \* units per request
          MaxKeys,    \* max_keys
          MaxTime,    \* bound: the last tick
          From, To    \* any window of time, to count requests in

ASSUME LimiterAssumption ==
  /\ Capacity \in Nat \ {0}
  /\ Cost \in Nat \ {0}
  /\ MaxKeys \in Nat \ {0}
  /\ MaxTime \in Nat
  /\ From \in Nat /\ To \in Nat /\ From <= To

VARIABLES clock,
          thread,     \* per thread, where it is, its key and its "now"
          order,      \* the keys of _buckets, in the dict's order
          tokens,     \* per key, its bucket's tokens, in units
          updatedAt,  \* per key, its bucket's updated_at
          spent,      \* per key, units granted in the window to its bucket
          promised,   \* per key, when the last refusal said to return, 0 if
                      \* it has been admitted since
          seen        \* every key, from least to most recently served

buckets == <<order, tokens, updatedAt>>
ghosts  == <<spent, promised, seen>>
vars    == <<clock, thread, buckets, ghosts>>

Full == Capacity * Cost

BudgetTypeOK ==
  /\ clock \in Nat
  /\ thread \in [Threads -> [at : {"idle", "read"}, key : Callers, now : Nat]]
  /\ tokens \in [Callers -> Int]
  /\ updatedAt \in [Callers -> Nat]
  /\ spent \in [Callers -> Nat]
  /\ promised \in [Callers -> Nat]

TypeOK ==
  /\ BudgetTypeOK
  /\ order \in Seq(Callers) /\ seen \in Seq(Callers)
  /\ \A k \in Callers : tokens[k] <= Full

Init ==
  /\ clock = 0
  /\ thread \in [Threads -> [at : {"idle"}, key : Callers, now : {0}]]
  /\ order = <<>>
  /\ tokens = [k \in Callers |-> 0]
  /\ updatedAt = [k \in Callers |-> 0]
  /\ spent = [k \in Callers |-> 0]
  /\ promised = [k \in Callers |-> 0]
  /\ seen = <<>>

---------------------------------------------------------------------------

ReadClock(t, k) ==
  /\ thread[t].at = "idle"
  /\ thread' = [thread EXCEPT ![t] = [at |-> "read", key |-> k, now |-> clock]]
  /\ UNCHANGED <<clock, buckets, ghosts>>

Known(k) == k \in Range(order)

\* Mutant of Others: the bucket stays where it is in the dict.
OthersInPlace(k) ==
  IF Known(k) THEN order
  ELSE IF Len(order) >= MaxKeys THEN Tail(order) ELSE order

\* The dict without k, and without the first key if k is new and needs room.
Others(k) ==
  IF Known(k) THEN RemoveFirst(order, k)
  ELSE IF Len(order) >= MaxKeys THEN Tail(order) ELSE order

\* Mutant of Refilled: a thread that read the clock early takes no time back,
\* though updated_at goes back with it.
RefilledTwice(k, now) ==
  LET sum == tokens[k] + (IF now > updatedAt[k] THEN now - updatedAt[k] ELSE 0)
  IN IF sum <= Full THEN sum ELSE Full

\* The lazy refill; a thread that read the clock early takes time back.
Refilled(k, now) ==
  LET sum == tokens[k] + (now - updatedAt[k])
  IN IF sum <= Full THEN sum ELSE Full

Have(k, now) == IF Known(k) THEN Refilled(k, now) ELSE Full

InWindow(now) == now \in From..To

\* Every bucket that leaves the dict takes its history along.
Count(k, units) ==
  spent' = [j \in Callers |-> IF j \notin Range(order') THEN 0
                              ELSE IF j = k THEN spent[j] + units ELSE spent[j]]

Admit(k, now, have) ==
  /\ tokens' = [tokens EXCEPT ![k] = have - Cost]
  /\ Count(k, IF InWindow(now) THEN Cost ELSE 0)
  /\ promised' = [promised EXCEPT ![k] = 0]

\* Mutant of Left: a refused request is charged as well.
LeftCharged(have) == have - 1

\* What a refusal leaves in the bucket.
Left(have) == have

\* The seconds until a token is available.
Wait(have) == Cost - have

Refuse(k, now, have) ==
  /\ tokens' = [tokens EXCEPT ![k] = Left(have)]
  /\ Count(k, 0)
  /\ promised' = [promised EXCEPT ![k] = now + Wait(have)]

\* Everything under the lock.
Acquire(t) ==
  LET k    == thread[t].key
      now  == thread[t].now
      have == Have(k, now)
  IN /\ thread[t].at = "read"
     /\ thread' = [thread EXCEPT ![t].at = "idle"]
     /\ order' = Append(Others(k), k)
     /\ seen' = Append(RemoveFirst(seen, k), k)
     /\ updatedAt' = [updatedAt EXCEPT ![k] = now]
     /\ \/ have >= Cost /\ Admit(k, now, have)
        \/ have < Cost /\ Refuse(k, now, have)
     /\ UNCHANGED clock

Tick == /\ clock < MaxTime
        /\ clock' = clock + 1
        /\ UNCHANGED <<thread, buckets, ghosts>>

Next == Tick \/ \E t \in Threads : Acquire(t) \/ \E k \in Callers : ReadClock(t, k)

Spec == Init /\ [][Next]_vars

---------------------------------------------------------------------------

\* The limit itself, for every window of time: requests that arrived in it are
\* admitted within the bucket and what came back meanwhile, whatever the
\* order in which threads with stale clocks reach the lock.
BudgetKept == \A k \in Callers : spent[k] <= Full + (To - From)

\* Memory is bounded, and at the bound a caller is forgotten only if max_keys
\* others have been served since.
RecentCallersKept ==
  LET n == IF Len(seen) <= MaxKeys THEN Len(seen) ELSE MaxKeys
  IN order = SubSeq(seen, Len(seen) - n + 1, Len(seen))

\* Retry-After is a promise: a caller who arrives at that time or later, with
\* nothing admitted for it in between, is admitted, however many other
\* attempts have been refused, evicted or served out of order meanwhile.
RetryAfterKept ==
  [][\A t \in Threads :
       LET k == thread[t].key
       IN Acquire(t) /\ promised[k] # 0 /\ thread[t].now >= promised[k]
            => promised'[k] = 0]_vars

---------------------------------------------------------------------------
(* The inductive invariant.  tokens - updatedAt never grows while a bucket *)
(* is kept: the passing of time cancels out, and a request never adds.     *)

Balance(k) == tokens[k] - updatedAt[k]

SpendingInv ==
  \A k \in Callers :
    /\ ~ Known(k) => spent[k] = 0
    /\ spent[k] > 0 => /\ Balance(k) + spent[k] <= Full - From
                       /\ spent[k] <= Full + (To - From)

PromiseInv == \A k \in Callers : promised[k] # 0 => Balance(k) + promised[k] >= Cost

Distinct(s) == \A i, j \in 1..Len(s) : s[i] = s[j] => i = j

\* The dict is the end of the list of all keys, in which no key is twice.
OrderInv ==
  /\ order \in Seq(Callers) /\ seen \in Seq(Callers)
  /\ Distinct(seen)
  /\ RecentCallersKept

IInv == BudgetTypeOK /\ SpendingInv /\ PromiseInv /\ OrderInv

=============================================================================
