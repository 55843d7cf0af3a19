------------------------------ MODULE Tickets ------------------------------
(***************************************************************************)
(* The tickets of app/tickets: submissions (POST /tickets), which classify *)
(* a text and store it, and one client that walks through the pages of     *)
(* GET /tickets while tickets are being stored.                            *)
(* Where a submission is:                                                  *)
(*   idle, classified, inserted (it has its id, nobody else sees it), over *)
(* Where the walk is:                                                      *)
(*   idle, asked, listed (the items are read, the total not yet), replied, *)
(*   over                                                                  *)
(***************************************************************************)
EXTENDS Integers, FiniteSets

CONSTANTS Submissions,    \* bound: the tickets that are submitted
          Orgs,           \* the organisations
          Labels,         \* classes of the pipeline
          Confidences,    \* of its predictions
          Threshold,      \* low_confidence_threshold
          Limits,         \* page sizes a caller asks for
          DefaultPage,    \* default_page_size
          MaxPage,        \* max_page_size
          Unset,          \* an optional parameter that is not given
          MaxFaults       \* bound: faults of the database or of the API

ASSUME TicketsAssumption ==
  /\ Labels # {}
  /\ Confidences \subseteq Int /\ Threshold \in Int
  /\ Limits \subseteq Int /\ DefaultPage \in Nat /\ MaxPage \in Nat \ {0}
  /\ Unset \notin Limits
  /\ MaxFaults \in Nat

VARIABLES loaded,   \* app.state.classifier is not None
          lastId,   \* of the table's sequence
          tickets,  \* the committed rows
          place,    \* per submission, see above
          draft,    \* per submission, its Ticket
          told,     \* per submission, what its sender was told
          walk,     \* the walk: where it is, what was asked, what was read
          faults

submission == <<place, draft, told>>
ticketVars == <<loaded, lastId, tickets, submission, walk, faults>>

Drafts == [id : Nat, organization : Orgs, label : Labels, review : BOOLEAN]

Walks == [at : {"idle", "asked", "listed", "replied", "over"},
          organization : Orgs,
          label : Labels \cup {Unset}, review : BOOLEAN \cup {Unset},
          limit : Nat, offset : Nat,
          items : SUBSET Drafts, total : Nat,
          start : SUBSET Drafts,  \* what there was when the walk began
          seen : SUBSET Drafts]   \* what its replies have shown

TicketsTypeOK ==
  /\ loaded \in BOOLEAN
  /\ lastId \in Nat
  /\ tickets \subseteq Drafts
  /\ place \in [Submissions -> {"idle", "classified", "inserted", "over"}]
  /\ draft \in [Submissions -> Drafts]
  /\ told \in [Submissions -> {"none", "created", "error", "unavailable"}]
  /\ walk \in Walks
  /\ faults \in Nat

TicketsInit ==
  /\ loaded \in BOOLEAN
  /\ lastId = 0
  /\ tickets = {}
  /\ place = [s \in Submissions |-> "idle"]
  /\ draft \in [Submissions -> [id : {0}, organization : Orgs,
                                label : {CHOOSE l \in Labels : TRUE}, review : {FALSE}]]
  /\ told = [s \in Submissions |-> "none"]
  /\ walk \in [at : {"idle"}, organization : Orgs,
               label : Labels \cup {Unset}, review : BOOLEAN \cup {Unset},
               limit : {DefaultPage}, offset : {0}, items : {{}}, total : {0},
               start : {{}}, seen : {{}}]
  /\ faults = 0

Goes(s, p) == place' = [place EXCEPT ![s] = p]
Tell(s, answer) == Goes(s, "over") /\ told' = [told EXCEPT ![s] = answer]

Fault == faults < MaxFaults /\ faults' = faults + 1

---------------------------------------------------------------------------
(* Submitting.                                                             *)

\* The label that has the highest probability, flagged if that is low.
Classify(s) ==
  /\ place[s] = "idle"
  /\ loaded
  /\ \E l \in Labels, confidence \in Confidences :
       draft' = [draft EXCEPT ![s].label = l, ![s].review = confidence < Threshold]
  /\ Goes(s, "classified")
  /\ UNCHANGED <<loaded, lastId, tickets, told, walk, faults>>

\* get_classifier has no model, or predict raises.
CannotClassify(s) ==
  /\ place[s] = "idle"
  /\ \/ ~ loaded /\ Tell(s, "unavailable") /\ UNCHANGED faults
     \/ loaded /\ Fault /\ Tell(s, "error")
  /\ UNCHANGED <<loaded, lastId, tickets, draft, walk>>

\* The first half of commit: the INSERT, with the next id of the sequence.
InsertTicket(s) ==
  /\ place[s] = "classified"
  /\ lastId' = lastId + 1
  /\ draft' = [draft EXCEPT ![s].id = lastId + 1]
  /\ Goes(s, "inserted")
  /\ UNCHANGED <<loaded, tickets, told, walk, faults>>

\* The second half: everybody sees the row.
CommitTicket(s) ==
  /\ place[s] = "inserted"
  /\ tickets' = tickets \cup {draft[s]}
  /\ Tell(s, "created")
  /\ UNCHANGED <<loaded, lastId, draft, walk, faults>>

\* StorageError: the transaction is rolled back, or its commit took effect and
\* the API did not hear of it.
SubmitFails(s) ==
  /\ place[s] \in {"classified", "inserted"}
  /\ Fault
  /\ Tell(s, "unavailable")
  /\ \/ UNCHANGED tickets
     \/ place[s] = "inserted" /\ tickets' = tickets \cup {draft[s]}
  /\ UNCHANGED <<loaded, lastId, draft, walk>>

Submit(s) ==
  Classify(s) \/ CannotClassify(s) \/ InsertTicket(s) \/ CommitTicket(s) \/ SubmitFails(s)

---------------------------------------------------------------------------
(* Listing.                                                                *)

\* Mutant of Get: the organisation is not asked for.
GetAnybodys(organization, id) == {t \in tickets : t.id = id}

\* get: another organisation's ticket is not there.
Get(organization, id) ==
  {t \in tickets : t.id = id /\ t.organization = organization}

\* The WHERE of both statements.
Filtered(t) ==
  /\ t.organization = walk.organization
  /\ walk.label # Unset => t.label = walk.label
  /\ walk.review # Unset => t.review = walk.review

Matching == {t \in tickets : Filtered(t)}

\* Mutant of Before: the rows are filtered after LIMIT and OFFSET.
BeforeUnfiltered(t) == Cardinality({u \in tickets : u.id < t.id})

\* ORDER BY id
Before(t) == Cardinality({u \in Matching : u.id < t.id})

\* LIMIT and OFFSET
Page == {t \in Matching : Before(t) \in walk.offset..(walk.offset + walk.limit - 1)}

\* What list_tickets lets through; other requests get 422.
Valid(limit) == limit # Unset => limit \in 1..MaxPage

\* The service defends the boundary for callers without a router.
Clamped(limit) ==
  LET asked == IF limit = Unset THEN DefaultPage ELSE limit
  IN IF asked < 1 THEN 1 ELSE IF asked > MaxPage THEN MaxPage ELSE asked

\* With or without the router in front of the service.  The service has the
\* classifier as a dependency, so without a model a list gets 503, too.
BeginWalk ==
  /\ walk.at = "idle"
  /\ loaded
  /\ \E limit \in Limits \cup {Unset}, routed \in BOOLEAN :
       /\ routed => Valid(limit)
       /\ walk' = [walk EXCEPT !.at = "asked", !.limit = Clamped(limit), !.start = Matching]
  /\ UNCHANGED <<loaded, lastId, tickets, submission, faults>>

\* Mutant of Read: the number is read first.
ReadCountFirst(n) ==
  IF n = 2 THEN [walk EXCEPT !.items = Page] ELSE [walk EXCEPT !.total = Cardinality(Matching)]

\* The two statements of TicketService.list, in their order.
Read(n) ==
  IF n = 1 THEN [walk EXCEPT !.items = Page] ELSE [walk EXCEPT !.total = Cardinality(Matching)]

ListItems ==
  /\ walk.at = "asked"
  /\ walk' = [Read(1) EXCEPT !.at = "listed"]
  /\ UNCHANGED <<loaded, lastId, tickets, submission, faults>>

Replied(w) == [w EXCEPT !.at = "replied", !.seen = @ \cup w.items]

\* The second statement sees what was committed meanwhile.
CountItems ==
  /\ walk.at = "listed"
  /\ walk' = Replied(Read(2))
  /\ UNCHANGED <<loaded, lastId, tickets, submission, faults>>

\* The client reads on until a page is empty.
NextPage ==
  /\ walk.at = "replied"
  /\ walk' = IF walk.items = {}
             THEN [walk EXCEPT !.at = "over"]
             ELSE [walk EXCEPT !.at = "asked", !.offset = @ + walk.limit]
  /\ UNCHANGED <<loaded, lastId, tickets, submission, faults>>

\* 503, and the client asks for the same page again.
ListFails ==
  /\ walk.at \in {"asked", "listed"}
  /\ Fault
  /\ walk' = [walk EXCEPT !.at = "asked"]
  /\ UNCHANGED <<loaded, lastId, tickets, submission>>

Walk == BeginWalk \/ ListItems \/ CountItems \/ NextPage \/ ListFails

TicketsNext == Walk \/ \E s \in Submissions : Submit(s)

TicketsSpec == TicketsInit /\ [][TicketsNext]_ticketVars

---------------------------------------------------------------------------

\* "two pages could overlap or skip" (repository.py:122), and ADR-010:18-19 says of
\* rows inserted during a walk that "a row can be seen twice or skipped".  Twice,
\* yes; but a ticket that was there when the walk began is never skipped, though
\* tickets are stored meanwhile, and in another order than that of their ids.
\* Only those can be missed, and nothing is said of them.
NoTicketSkipped == walk.at = "over" => walk.start \subseteq walk.seen

\* A reply is a page of one list: no longer than a page may be, of the caller's
\* organisation, as filtered, and inside the total next to it, though the two
\* are read one after the other.
PageInsideTotal ==
  walk.at = "replied" =>
    /\ Cardinality(walk.items) <= MaxPage
    /\ \A t \in walk.items : Filtered(t)
    /\ walk.items # {} => walk.offset + Cardinality(walk.items) <= walk.total

\* A sender who was told "created" finds this ticket and nothing else under
\* its id, and nobody else's caller finds anything there; one who was told that
\* classifying failed has stored nothing.
SubmissionsTold ==
  \A s \in Submissions :
    /\ told[s] = "created" => \A o \in Orgs :
         Get(o, draft[s].id) = IF o = draft[s].organization THEN {draft[s]} ELSE {}
    /\ told[s] = "error" => draft[s].id = 0

---------------------------------------------------------------------------
(* The inductive invariant.  An id is given once, and a row's place in the *)
(* list only ever moves back: what a walk has not shown lies ahead of it.  *)

IdsInv ==
  /\ IsFiniteSet(tickets)
  /\ \A t \in tickets : t.id <= lastId
  /\ \A t, u \in tickets : t.id = u.id => t = u
  /\ \A s \in Submissions : place[s] = "inserted" =>
       /\ draft[s].id <= lastId
       /\ \A t \in tickets : t.id # draft[s].id
       /\ \A r \in Submissions \ {s} : place[r] = "inserted" => draft[r].id # draft[s].id

ToldInv ==
  \A s \in Submissions :
    /\ place[s] # "over" => told[s] = "none"
    /\ place[s] \in {"idle", "classified"} \/ told[s] = "error" => draft[s].id = 0
    /\ told[s] = "created" => draft[s] \in tickets

Ahead(t, n) == t \in walk.seen \/ Before(t) >= n

PageInv ==
  /\ walk.items \subseteq Matching
  /\ Cardinality(walk.items) <= walk.limit
  /\ walk.items # {} => walk.offset + Cardinality(walk.items) <= Cardinality(Matching)
  /\ walk.items = {} => walk.start \subseteq walk.seen
  /\ \A t \in walk.start : t \in walk.items \/ Ahead(t, walk.offset + walk.limit)

WalkInv ==
  /\ walk.at = "idle" => walk.offset = 0
  /\ walk.at # "idle" => walk.limit \in 1..MaxPage /\ walk.start \subseteq Matching
  /\ walk.at \in {"asked", "listed"} => \A t \in walk.start : Ahead(t, walk.offset)
  /\ walk.at \in {"listed", "replied"} => PageInv
  /\ walk.at = "replied" =>
       /\ walk.items \subseteq walk.seen
       /\ walk.items # {} => walk.offset + Cardinality(walk.items) <= walk.total
  /\ walk.at = "over" => walk.start \subseteq walk.seen

TicketsIInv == TicketsTypeOK /\ IdsInv /\ ToldInv /\ WalkInv

=============================================================================
