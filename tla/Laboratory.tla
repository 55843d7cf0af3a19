----------------------------- MODULE Laboratory -----------------------------
(***************************************************************************)
(* The tickets service of system-design behind its gateways, in the setups *)
(* of the lab: one database, one with read replicas, or several shards.    *)
(* The service goes on with a call its gateway has given up.               *)
(* Where a call is in the service:                                         *)
(*   idle, service, inserted (the row is not committed), answered          *)
(***************************************************************************)
EXTENDS Integers, Sequences, FiniteSets, FiniteSetsExt, SequencesExt

CONSTANTS Setups,    \* numbers of shards and of replicas
          Users,     \* users 1..Users have tickets
          Seeded,    \* tickets 1..Seeded come from schema.sql
          Callers,   \* bound: calls; of the new ids, they look for the first
          NoUser     \* user_id is not given

ASSUME LabAssumption ==
  /\ \A x \in Setups : /\ x.shards \in Nat \ {0} /\ x.replicas \in Nat
                       /\ x.replicas # 0 => x.shards = 1
  /\ Users \in Nat \ {0} /\ Seeded \in Nat
  /\ NoUser \notin Int

VARIABLES setup,
          rows,      \* per shard, its table in the order of the commits
          ids,       \* per shard, its sequence
          copied,    \* per replica, how many of the primary's commits it has
          call       \* per caller, its call

labVars == <<setup, rows, ids, copied, call>>

Shards   == 0..(setup.shards - 1)
Replicas == 1..setup.replicas
Tickets  == [id : Nat, user : 1..Users]

\* Mutant of ShardFor: users are counted from 1.
ShardForFromOne(user) == IF user = NoUser THEN 0 ELSE (user - 1) % setup.shards

\* shard_for; without a user, the only shard.
ShardFor(user) == IF user = NoUser THEN 0 ELSE user % setup.shards

\* One series of tickets, of which a shard keeps those of its users; one INSERT
\* has stored them, so their order is nobody's business.
Series == [n \in 1..Seeded |-> [id |-> n, user |-> 1 + (n % Users)]]

Seed(shards, s) == SetToSeq({t \in Range(Series) : t.user % shards = s})

\* What the caller asks for; what the service has found out; what the caller is
\* told; and, when it asked, was the ticket there, and how many were in every
\* database that may count them.
NewCall(kind, user, id, at, there, least) ==
  [kind |-> kind, user |-> user, id |-> id, at |-> at, next |-> 0, total |-> 0,
   status |-> 0, told |-> 0, there |-> there, least |-> least]

Idle == NewCall("none", NoUser, 0, "idle", FALSE, 0)

Calls ==
  [kind : {"none", "create", "get", "stats"}, user : (1..Users) \cup {NoUser}, id : Nat,
   at : {"idle", "service", "inserted", "answered"}, next : Nat, total : Nat,
   status : {0, 200, 201, 400, 404, 500}, told : {0, 200, 201, 400, 404, 500, 502},
   there : BOOLEAN, least : Nat]

LabTypeOK ==
  /\ setup \in Setups
  /\ rows \in [Shards -> Seq(Tickets)] /\ ids \in [Shards -> Nat]
  /\ copied \in [Replicas -> Nat]
  /\ call \in [Callers -> Calls]

\* setval: each shard's new ids are above the seeded ones.
LabInit ==
  /\ setup \in Setups
  /\ rows = [s \in Shards |-> Seed(setup.shards, s)]
  /\ ids = [s \in Shards |-> Seeded]
  /\ copied = [r \in Replicas |-> Len(rows[0])]
  /\ call = [c \in Callers |-> Idle]

---------------------------------------------------------------------------
(* The gateways.                                                           *)

\* f[0] + ... + f[n - 1]
SumTo(f, n) ==
  LET sum[k \in Nat] == IF k = 0 THEN 0 ELSE f[k - 1] + sum[k - 1] IN sum[n]

\* The lengths of the tables; a shard that does not exist has no tickets.
Sizes == [s \in Nat |-> IF s \in Shards THEN Len(rows[s]) ELSE 0]

UpTo(n) == SumTo(Sizes, n)

Stored == UpTo(setup.shards)

Least == IF Replicas = {} THEN Stored ELSE Min({copied[r] : r \in Replicas})

There(id, user) ==
  \E s \in Shards : \E t \in Range(rows[s]) : t.id = id /\ user \in {t.user, NoUser}

Send(c, kind, user, id) ==
  /\ call[c].at = "idle"
  /\ call' = [call EXCEPT
                ![c] = NewCall(kind, user, id, "service", There(id, user), Least)]
  /\ UNCHANGED <<setup, rows, ids, copied>>

Call(c) ==
  \/ \E user \in 1..Users : Send(c, "create", user, 0)
  \/ \E user \in (1..Users) \cup {NoUser}, id \in 1..(Seeded + 1) :
       Send(c, "get", user, id)
  \/ Send(c, "stats", NoUser, 0)

\* forward passes the service's answer on, or gives up: it is down or too slow.
Forward(c) ==
  /\ call[c].at # "idle"
  /\ call[c].told = 0
  /\ \/ call[c].at = "answered" /\ call' = [call EXCEPT ![c].told = call[c].status]
     \/ call' = [call EXCEPT ![c].told = 502]
  /\ UNCHANGED <<setup, rows, ids, copied>>

---------------------------------------------------------------------------
(* The service.                                                            *)

Serving(c, kind) == call[c].at = "service" /\ call[c].kind = kind

Answer(c, status) ==
  call' = [call EXCEPT ![c] = [@ EXCEPT !.at = "answered", !.status = status]]

\* create_ticket: the INSERT, and the commit when its connection is returned.
Insert(c) ==
  LET s == ShardFor(call[c].user)
  IN /\ Serving(c, "create")
     /\ ids' = [ids EXCEPT ![s] = @ + 1]
     /\ call' = [call EXCEPT ![c] = [@ EXCEPT !.at = "inserted", !.id = ids[s] + 1]]
     /\ UNCHANGED <<setup, rows, copied>>

Commit(c) ==
  LET s == ShardFor(call[c].user)
  IN /\ call[c].at = "inserted"
     /\ rows' = [rows EXCEPT ![s] = Append(@, [id |-> call[c].id, user |-> call[c].user])]
     /\ Answer(c, 201)
     /\ UNCHANGED <<setup, ids, copied>>

\* get_ticket
GetTicket(c) ==
  LET found == {t \in Range(rows[ShardFor(call[c].user)]) : t.id = call[c].id}
  IN /\ Serving(c, "get")
     /\ Answer(c, IF setup.shards > 1 /\ call[c].user = NoUser THEN 400
                  ELSE IF found = {} THEN 404 ELSE 200)
     /\ UNCHANGED <<setup, rows, ids, copied>>

Added(c, n) == [call EXCEPT ![c] = [call[c] EXCEPT !.next = @ + 1, !.total = @ + n]]

\* Mutant of Pools: replicas are asked as shards are, one after another.
PoolsAll == IF Replicas = {} THEN setup.shards ELSE setup.replicas

\* How many databases stats asks.
Pools == IF Replicas = {} THEN setup.shards ELSE 1

\* The next shard, or some replica: which one's turn it is depends on the other
\* calls of this process.
Count(c) ==
  /\ Serving(c, "stats")
  /\ call[c].next < Pools
  /\ \/ Replicas = {} /\ call' = Added(c, Len(rows[call[c].next]))
     \/ \E r \in Replicas : call' = Added(c, copied[r])
  /\ UNCHANGED <<setup, rows, ids, copied>>

Counted(c) ==
  /\ Serving(c, "stats")
  /\ call[c].next = Pools
  /\ Answer(c, 200)
  /\ UNCHANGED <<setup, rows, ids, copied>>

\* A database does not answer: the transaction is rolled back.
Fail(c) ==
  /\ call[c].at \in {"service", "inserted"}
  /\ Answer(c, 500)
  /\ UNCHANGED <<setup, rows, ids, copied>>

\* A replica applies the primary's next commit.
Stream(r) ==
  /\ copied[r] < Len(rows[0])
  /\ copied' = [copied EXCEPT ![r] = @ + 1]
  /\ UNCHANGED <<setup, rows, ids, call>>

Serve(c) == Insert(c) \/ Commit(c) \/ GetTicket(c) \/ Count(c) \/ Counted(c) \/ Fail(c)

LabNext ==
  \/ \E c \in Callers : Call(c) \/ Serve(c) \/ Forward(c)
  \/ \E r \in Replicas : Stream(r)

LabSpec == LabInit /\ [][LabNext]_labVars

---------------------------------------------------------------------------

\* "All tickets of one user live on one shard": the id that create_ticket
\* returned names the user's new ticket and no other where the user's tickets
\* are looked for, though each shard counts its ids for itself; and a ticket that
\* was there is not told to be missing to the caller who names its user.
OwnTicketFound ==
  \A c \in Callers :
    /\ call[c].told = 201 =>
         {t \in Range(rows[ShardFor(call[c].user)]) : t.id = call[c].id}
           = {[id |-> call[c].id, user |-> call[c].user]}
    /\ call[c].told = 404 => ~ call[c].there

\* A count is one of a moment while it was made, or of what a replica had: no
\* less than every database had then when it was asked for, no more than there
\* is now, whatever is stored between two shards and however late replicas are.
StatsInTime ==
  \A c \in Callers : call[c].kind = "stats" /\ call[c].told = 200 =>
    /\ call[c].least <= call[c].total
    /\ call[c].total <= Stored

---------------------------------------------------------------------------
(* The inductive invariant.                                                *)

\* A shard gives an id once, and has its users' tickets; replicas follow.
RowsInv ==
  /\ \A s \in Shards : \A t \in Range(rows[s]) :
       /\ t.user % setup.shards = s /\ t.id <= ids[s]
       /\ \A u \in Range(rows[s]) : t.id = u.id => t = u
  /\ \A r \in Replicas : copied[r] <= Len(rows[0])

\* A ticket that is not committed yet has an id nobody else has.
Unborn(c) ==
  LET s == ShardFor(call[c].user)
  IN /\ call[c].id <= ids[s]
     /\ \A t \in Range(rows[s]) : t.id # call[c].id
     /\ \A d \in Callers \ {c} :
          call[d].at = "inserted" /\ ShardFor(call[d].user) = s => call[d].id # call[c].id

\* What a count still lacks the databases it has not asked have, and more.
Counting(c) ==
  LET n == call[c].next
  IN /\ n <= Pools
     /\ Replicas = {} => /\ call[c].total <= UpTo(n)
                         /\ call[c].least <= call[c].total + (Stored - UpTo(n))
     /\ Replicas # {} => IF n = 0 THEN \A r \in Replicas : call[c].least <= copied[r]
                         ELSE call[c].least <= call[c].total /\ call[c].total <= Len(rows[0])
     /\ n = 0 => call[c].total = 0

CallInv(c) ==
  /\ call[c].at = "idle" => call[c] = Idle
  /\ call[c].kind = "create" => call[c].user # NoUser
  /\ call[c].at = "inserted" => call[c].kind = "create" /\ Unborn(c)
  /\ call[c].at # "answered" => call[c].status = 0
  /\ call[c].told \in {0, 502, call[c].status}
  /\ call[c].status = 201 =>
       /\ call[c].kind = "create"
       /\ [id |-> call[c].id, user |-> call[c].user] \in Range(rows[ShardFor(call[c].user)])
  /\ call[c].kind = "get" /\ call[c].there => There(call[c].id, call[c].user)
  /\ call[c].status = 404 => ~ call[c].there
  /\ call[c].kind = "stats" /\ call[c].at = "service" => Counting(c)
  /\ call[c].kind = "stats" /\ call[c].status = 200 =>
       call[c].least <= call[c].total /\ call[c].total <= Stored

LabIInv == LabTypeOK /\ RowsInv /\ \A c \in Callers : CallInv(c)

=============================================================================
