--------------------------- MODULE TicketsProofs ---------------------------
(***************************************************************************)
(* The tickets of the API and those of the laboratory, for any number of   *)
(* submissions, callers, page sizes, shards and replicas.                  *)
(***************************************************************************)
EXTENDS Tickets, Laboratory, FiniteSetTheorems, Recursion

---------------------------------------------------------------------------
(* Places in the list.                                                     *)

\* What a walk lists is finite, and ids are naturals.
LEMMA MatchingFinite ==
  ASSUME IdsInv, tickets \subseteq Drafts
  PROVE  /\ IsFiniteSet(Matching) /\ Cardinality(Matching) \in Nat
         /\ \A t \in Matching : t \in tickets /\ t.id \in Nat
         /\ \A t, u \in Matching : t.id = u.id => t = u
<1>1. Matching \in SUBSET tickets
  BY DEF Matching
<1>2. IsFiniteSet(Matching)
  BY <1>1, FS_Subset DEF IdsInv
<1>3. \A t \in tickets : t.id \in Nat
  BY DEF Drafts
<1> QED BY <1>1, <1>2, <1>3, FS_CardinalityType DEF IdsInv

\* A ticket's place is below the number of tickets, and no two share one.
LEMMA PlacesDiffer ==
  ASSUME IdsInv, tickets \subseteq Drafts
  PROVE  /\ \A t \in Matching : Before(t) \in 0..(Cardinality(Matching) - 1)
         /\ \A t, u \in Matching : Before(t) = Before(u) => t = u
<1>1. /\ IsFiniteSet(Matching) /\ Cardinality(Matching) \in Nat
      /\ \A t \in Matching : t.id \in Nat
      /\ \A t, u \in Matching : t.id = u.id => t = u
  BY MatchingFinite
<1> DEFINE Lower(t) == {u \in Matching : u.id < t.id}
<1>2. \A t \in Matching : /\ IsFiniteSet(Lower(t)) /\ Cardinality(Lower(t)) \in Nat
                          /\ Before(t) = Cardinality(Lower(t))
  <2>1. \A t \in Matching : Lower(t) \in SUBSET Matching
    OBVIOUS
  <2>2. \A t \in Matching : Before(t) = Cardinality(Lower(t))
    BY DEF Before
  <2> HIDE DEF Lower
  <2> QED BY <1>1, <2>1, <2>2, FS_Subset, FS_CardinalityType
<1>3. ASSUME NEW t \in Matching, NEW S \in SUBSET Matching,
             Lower(t) \cup {t} \subseteq S, IsFiniteSet(S), Cardinality(S) \in Nat
      PROVE  Before(t) < Cardinality(S)
  <2>1. t \notin Lower(t)
    BY <1>1
  <2>2. Cardinality(Lower(t) \cup {t}) = Cardinality(Lower(t)) + 1
    <3> HIDE DEF Lower
    <3> QED BY <1>2, <2>1, FS_AddElement
  <2>3. Cardinality(Lower(t) \cup {t}) <= Cardinality(S)
    <3> HIDE DEF Lower
    <3> QED BY <1>3, FS_Subset
  <2> HIDE DEF Lower
  <2> QED BY <1>2, <1>3, <2>2, <2>3
<1>4. ASSUME NEW t \in Matching PROVE Before(t) \in 0..(Cardinality(Matching) - 1)
  <2>1. Lower(t) \cup {t} \subseteq Matching
    OBVIOUS
  <2>2. Before(t) < Cardinality(Matching)
    <3> HIDE DEF Lower
    <3> QED BY <1>1, <1>3, <2>1
  <2> HIDE DEF Lower
  <2> QED BY <1>1, <1>2, <2>2
<1>5. ASSUME NEW t \in Matching, NEW u \in Matching, t.id < u.id
      PROVE  Before(t) # Before(u)
  <2>1. Lower(t) \cup {t} \subseteq Lower(u) /\ Lower(u) \subseteq Matching
    BY <1>1, <1>5
  <2>2. Before(t) < Cardinality(Lower(u))
    <3> HIDE DEF Lower
    <3> QED BY <1>2, <1>3, <2>1
  <2> HIDE DEF Lower
  <2> QED BY <1>2, <2>2
<1>6. ASSUME NEW t \in Matching, NEW u \in Matching, t # u
      PROVE  t.id < u.id \/ u.id < t.id
  BY <1>1, <1>6
<1> QED BY <1>4, <1>5, <1>6

\* Every place below the number of tickets is somebody's.
LEMMA PlacesFilled ==
  ASSUME IdsInv, tickets \subseteq Drafts, NEW n \in 0..(Cardinality(Matching) - 1)
  PROVE  \E t \in Matching : Before(t) = n
<1> DEFINE N == 0..(Cardinality(Matching) - 1)
           f == [t \in Matching |-> Before(t)]
<1>1. IsFiniteSet(Matching) /\ Cardinality(Matching) \in Nat
  BY MatchingFinite
<1>2. IsFiniteSet(N) /\ Cardinality(N) = Cardinality(Matching)
  BY <1>1, FS_Interval
<1>3. f \in Injection(Matching, N)
  BY PlacesDiffer DEF Injection, IsInjective
<1>4. f \in Surjection(Matching, N)
  <2> HIDE DEF f, N
  <2> QED BY <1>2, <1>3, FS_Injection
<1>5. PICK t \in Matching : f[t] = n
  BY <1>4 DEF Surjection
<1> QED BY <1>5

\* A page is a part of the list no longer than the limit, and ends within it;
\* an empty page lies behind every ticket.
LEMMA PageFits ==
  ASSUME IdsInv, tickets \subseteq Drafts, walk.limit \in Nat \ {0}, walk.offset \in Nat
  PROVE  /\ IsFiniteSet(Page) /\ Cardinality(Page) \in Nat
         /\ Cardinality(Page) <= walk.limit
         /\ Page # {} => walk.offset + Cardinality(Page) <= Cardinality(Matching)
         /\ Page = {} => \A t \in Matching : Before(t) < walk.offset
<1>1. IsFiniteSet(Matching) /\ Cardinality(Matching) \in Nat
  BY MatchingFinite
<1>2. Page \in SUBSET Matching /\ IsFiniteSet(Page) /\ Cardinality(Page) \in Nat
  <2>1. Page \in SUBSET Matching
    BY DEF Page
  <2> QED BY <1>1, <2>1, FS_Subset, FS_CardinalityType
<1>3. \A t \in Page : Before(t) \in walk.offset..(walk.offset + walk.limit - 1)
  BY DEF Page
<1>4. ASSUME NEW b \in Int, \A t \in Page : Before(t) \in walk.offset..b
      PROVE  Cardinality(Page) <= IF walk.offset > b THEN 0 ELSE b - walk.offset + 1
  <2> DEFINE f == [t \in Page |-> Before(t)]
  <2>1. f \in Injection(Page, walk.offset..b)
    BY <1>2, <1>4, PlacesDiffer DEF Injection, IsInjective
  <2>2. IsFiniteSet(walk.offset..b)
        /\ Cardinality(walk.offset..b) = IF walk.offset > b THEN 0 ELSE b - walk.offset + 1
    <3>1. walk.offset \in Int
      OBVIOUS
    <3> QED BY <3>1, FS_Interval
  <2>3. Cardinality(Page) <= Cardinality(walk.offset..b)
    <3> HIDE DEF f
    <3> QED BY <2>1, <2>2, FS_Injection
  <2> QED BY <2>2, <2>3
<1>5. Cardinality(Page) <= walk.limit
  BY <1>2, <1>3, <1>4
<1>6. ASSUME Page # {} PROVE walk.offset + Cardinality(Page) <= Cardinality(Matching)
  <2>1. \A t \in Page : Before(t) \in walk.offset..(Cardinality(Matching) - 1)
    BY <1>1, <1>2, <1>3, PlacesDiffer
  <2>2. walk.offset <= Cardinality(Matching) - 1
    BY <1>1, <1>6, <2>1
  <2> QED BY <1>1, <1>2, <1>4, <2>1, <2>2
<1>7. ASSUME Page = {}, NEW t \in Matching, Before(t) >= walk.offset PROVE FALSE
  <2>1. Before(t) \in 0..(Cardinality(Matching) - 1)
    BY PlacesDiffer
  <2>2. walk.offset \in 0..(Cardinality(Matching) - 1)
    BY <1>1, <1>7, <2>1
  <2>3. PICK u \in Matching : Before(u) = walk.offset
    BY <2>2, PlacesFilled
  <2>4. u \in Page
    BY <2>3 DEF Page
  <2> QED BY <1>7, <2>4
<1>8. \A t \in Matching : Before(t) \in Int
  BY PlacesDiffer
<1> QED BY <1>2, <1>5, <1>6, <1>7, <1>8

\* More tickets move nobody forward.
LEMMA PlacesMoveBack ==
  ASSUME IdsInv, IdsInv', tickets \subseteq Drafts, tickets' \subseteq Drafts,
         tickets \subseteq tickets', UNCHANGED walk
  PROVE  /\ Matching \subseteq Matching'
         /\ \A t \in Matching : Before(t) <= Before(t)'
         /\ Cardinality(Matching) <= Cardinality(Matching')
         /\ Cardinality(Matching) \in Nat /\ Cardinality(Matching') \in Nat
         /\ \A t \in Matching : Before(t) \in Nat /\ Before(t)' \in Nat
<1>1. Matching \subseteq Matching'
  BY DEF Matching, Filtered
<1>2. /\ IsFiniteSet(Matching) /\ Cardinality(Matching) \in Nat
      /\ \A t \in Matching : t.id \in Nat
  BY MatchingFinite
<1>3. IsFiniteSet(Matching') /\ Cardinality(Matching') \in Nat
  <2>1. Matching' \in SUBSET tickets' /\ IsFiniteSet(tickets')
    BY DEF Matching, IdsInv
  <2> QED BY <2>1, FS_Subset, FS_CardinalityType
<1>4. Cardinality(Matching) <= Cardinality(Matching')
  BY <1>1, <1>3, FS_Subset
<1>5. ASSUME NEW t \in Matching
      PROVE  Before(t) <= Before(t)' /\ Before(t) \in Nat /\ Before(t)' \in Nat
  <2> DEFINE B == {u \in Matching : u.id < t.id}
             C == {u \in Matching' : u.id < t.id}
  <2>1. B \in SUBSET C /\ C \in SUBSET Matching'
    BY <1>1
  <2>2. Before(t) = Cardinality(B) /\ Before(t)' = Cardinality(C)
    BY DEF Before
  <2> HIDE DEF B, C
  <2>3. IsFiniteSet(C) /\ IsFiniteSet(B)
    BY <1>3, <2>1, FS_Subset
  <2> QED BY <2>1, <2>2, <2>3, FS_Subset, FS_CardinalityType
<1> QED BY <1>1, <1>2, <1>3, <1>4, <1>5

---------------------------------------------------------------------------
(* Submissions.                                                            *)

\* Nothing is submitted yet.
LEMMA InitTickets == TicketsInit => TicketsIInv
<1> SUFFICES ASSUME TicketsInit PROVE TicketsIInv
  OBVIOUS
<1>1. TicketsTypeOK
  <2>1. (CHOOSE l \in Labels : TRUE) \in Labels
    BY TicketsAssumption
  <2>2. draft \in [Submissions -> Drafts]
    <3> DEFINE l == CHOOSE l \in Labels : TRUE
    <3>1. draft \in [Submissions -> [id : {0}, organization : Orgs, label : {l}, review : {FALSE}]]
      BY DEF TicketsInit
    <3>2. l \in Labels
      BY <2>1
    <3> HIDE DEF l
    <3>3. ASSUME NEW s \in Submissions PROVE draft[s] \in Drafts
      <4>1. draft[s] \in [id : {0}, organization : Orgs, label : {l}, review : {FALSE}]
        BY <3>1
      <4>2. {0} \subseteq Nat /\ {l} \subseteq Labels /\ {FALSE} \subseteq BOOLEAN
        BY <3>2
      <4> QED BY <4>1, <4>2, Zenon DEF Drafts
    <3> QED BY <3>1, <3>3
  <2>3. walk \in Walks
    BY TicketsAssumption DEF TicketsInit, Walks
  <2> QED BY <2>2, <2>3 DEF TicketsInit, TicketsTypeOK
<1>2. IdsInv
  BY FS_EmptySet DEF TicketsInit, IdsInv
<1>3. ToldInv
  BY DEF TicketsInit, ToldInv
<1>4. WalkInv
  BY DEF TicketsInit, WalkInv
<1> QED BY <1>1, <1>2, <1>3, <1>4 DEF TicketsIInv

\* What a step of a submission leaves alone, and that a commit adds its draft.
LEMMA SubmitShape ==
  ASSUME NEW s \in Submissions, TicketsTypeOK, Submit(s)
  PROVE  /\ UNCHANGED <<loaded, walk>>
         /\ \A r \in Submissions \ {s} :
              place'[r] = place[r] /\ draft'[r] = draft[r] /\ told'[r] = told[r]
         /\ UNCHANGED tickets \/ (place[s] = "inserted" /\ tickets' = tickets \cup {draft[s]})
BY DEF Submit, Classify, CannotClassify, InsertTicket, CommitTicket, SubmitFails, TicketsTypeOK,
       Goes, Tell

\* Types.
LEMMA SubmitTyped ==
  ASSUME NEW s \in Submissions, TicketsTypeOK, Submit(s)
  PROVE  TicketsTypeOK'
<1> USE DEF TicketsTypeOK, Goes, Tell, Fault
<1>1. CASE Classify(s)
  <2>1. PICK l \in Labels, confidence \in Confidences :
          draft' = [draft EXCEPT ![s].label = l, ![s].review = confidence < Threshold]
    BY <1>1 DEF Classify
  <2>2. (confidence < Threshold) \in BOOLEAN
    BY TicketsAssumption
  <2> DEFINE new == [draft[s] EXCEPT !.label = l, !.review = confidence < Threshold]
  <2>3. new \in Drafts
    BY <2>2 DEF Drafts
  <2>4. draft' = [draft EXCEPT ![s] = new]
    BY <2>1
  <2> HIDE DEF new
  <2>5. draft' \in [Submissions -> Drafts]
    BY <2>3, <2>4
  <2> QED BY <1>1, <2>5 DEF Classify
<1>2. CASE CannotClassify(s) BY <1>2 DEF CannotClassify
<1>3. CASE InsertTicket(s)
  <2>1. draft' \in [Submissions -> Drafts]
    BY <1>3 DEF InsertTicket, Drafts
  <2> QED BY <1>3, <2>1 DEF InsertTicket
<1>4. CASE CommitTicket(s) BY <1>4 DEF CommitTicket
<1>5. CASE SubmitFails(s) BY <1>5 DEF SubmitFails
<1> QED BY <1>1, <1>2, <1>3, <1>4, <1>5 DEF Submit

\* An id is given once, and a row is stored under the id it was given.
LEMMA SubmitIds ==
  ASSUME NEW s \in Submissions, TicketsIInv, Submit(s)
  PROVE  IdsInv' /\ ToldInv'
<1> USE DEF TicketsIInv, TicketsTypeOK, IdsInv, ToldInv, Goes, Tell
<1>1. lastId \in Nat /\ draft[s].id \in Nat /\ IsFiniteSet(tickets \cup {draft[s]})
  <2>1. draft[s] \in Drafts
    OBVIOUS
  <2> QED BY <2>1, FS_AddElement DEF Drafts
<1>2. CASE Classify(s)
  <2>1. \A r \in Submissions : draft'[r].id = draft[r].id
    BY <1>2 DEF Classify, Drafts
  <2> QED BY <1>2, <2>1 DEF Classify
<1>3. CASE CannotClassify(s) BY <1>3 DEF CannotClassify
<1>4. CASE InsertTicket(s)
  <2>1. draft'[s].id = lastId + 1 /\ \A r \in Submissions \ {s} : draft'[r] = draft[r]
    BY <1>4 DEF InsertTicket, Drafts
  <2>2. \A r \in Submissions : draft[r].id \in Nat
    BY DEF Drafts
  <2>3. \A t \in tickets : t.id \in Nat
    BY DEF Drafts
  <2> QED BY <1>1, <1>4, <2>1, <2>2, <2>3 DEF InsertTicket
<1>5. CASE CommitTicket(s) BY <1>1, <1>5 DEF CommitTicket
<1>6. CASE SubmitFails(s)
  <2>1. /\ place[s] \in {"classified", "inserted"} /\ UNCHANGED <<lastId, draft>>
        /\ place' = [place EXCEPT ![s] = "over"] /\ told' = [told EXCEPT ![s] = "unavailable"]
        /\ \/ UNCHANGED tickets
           \/ place[s] = "inserted" /\ tickets' = tickets \cup {draft[s]}
    BY <1>6 DEF SubmitFails
  <2>2. IdsInv'
    <3>1. CASE UNCHANGED tickets
      BY <2>1, <3>1
    <3>2. CASE place[s] = "inserted" /\ tickets' = tickets \cup {draft[s]}
      BY <1>1, <2>1, <3>2
    <3> QED BY <2>1, <3>1, <3>2
  <2>3. ToldInv'
    BY <2>1
  <2> QED BY <2>2, <2>3
<1> QED BY <1>2, <1>3, <1>4, <1>5, <1>6 DEF Submit

\* What is stored meanwhile does not get in front of a walk.
LEMMA SubmitWalk ==
  ASSUME NEW s \in Submissions, TicketsIInv, Submit(s)
  PROVE  WalkInv'
<1>1. UNCHANGED walk /\ tickets \subseteq tickets'
  BY SubmitShape DEF TicketsIInv
<1>2. tickets \subseteq Drafts /\ tickets' \subseteq Drafts /\ IdsInv /\ IdsInv'
  BY SubmitTyped, SubmitIds DEF TicketsIInv, TicketsTypeOK
<1>3. /\ Matching \subseteq Matching'
      /\ \A t \in Matching : Before(t) <= Before(t)'
      /\ Cardinality(Matching) <= Cardinality(Matching')
      /\ Cardinality(Matching) \in Nat /\ Cardinality(Matching') \in Nat
      /\ \A t \in Matching : Before(t) \in Nat /\ Before(t)' \in Nat
  BY <1>1, <1>2, PlacesMoveBack
<1>4. WalkInv /\ walk \in Walks
  BY DEF TicketsIInv, TicketsTypeOK
<1>5. ASSUME NEW n \in Nat, NEW t \in Matching, Ahead(t, n) PROVE Ahead(t, n)'
  BY <1>1, <1>3, <1>5 DEF Ahead
<1>6. walk.offset \in Nat /\ walk.offset + walk.limit \in Nat
  BY <1>4 DEF Walks
<1>7. walk.at \in {"asked", "listed"} => \A t \in walk.start : Ahead(t, walk.offset)'
  BY <1>1, <1>4, <1>5, <1>6 DEF WalkInv
<1>8. PageInv /\ walk.start \subseteq Matching => PageInv'
  <2> SUFFICES ASSUME PageInv, walk.start \subseteq Matching PROVE PageInv'
    OBVIOUS
  <2>1. \A t \in walk.start : t \in walk.items \/ Ahead(t, walk.offset + walk.limit)'
    BY <1>1, <1>5, <1>6 DEF PageInv
  <2>2. walk.items # {} => walk.offset + Cardinality(walk.items) <= Cardinality(Matching')
    <3>1. IsFiniteSet(Matching) /\ walk.items \in SUBSET Matching
      BY <1>2, MatchingFinite DEF PageInv
    <3>2. Cardinality(walk.items) \in Nat
      BY <3>1, FS_Subset, FS_CardinalityType
    <3> QED BY <1>3, <1>6, <3>2 DEF PageInv
  <2> QED BY <1>1, <1>3, <2>1, <2>2 DEF PageInv
<1> QED BY <1>1, <1>3, <1>4, <1>7, <1>8 DEF WalkInv

---------------------------------------------------------------------------
(* The walk.                                                               *)

\* What a walk's step leaves alone.
LEMMA WalkShape ==
  ASSUME Walk
  PROVE  UNCHANGED <<loaded, lastId, tickets, submission>>
BY DEF Walk, BeginWalk, ListItems, CountItems, NextPage, ListFails

\* The page size that is used is one.
LEMMA ClampedFits ==
  ASSUME NEW limit \in Limits \cup {Unset}
  PROVE  Clamped(limit) \in 1..MaxPage
BY TicketsAssumption DEF Clamped

\* Types, and the filter of a walk is that of its first page.
LEMMA WalkTyped ==
  ASSUME TicketsTypeOK, IdsInv, Walk
  PROVE  TicketsTypeOK' /\ Matching' = Matching /\ \A t : Before(t)' = Before(t)
<1>1. UNCHANGED <<loaded, lastId, tickets, submission>>
  BY WalkShape
<1>2. faults' \in Nat
  <2>1. UNCHANGED faults \/ faults' = faults + 1
    BY DEF Walk, BeginWalk, ListItems, CountItems, NextPage, ListFails, Fault
  <2> QED BY <2>1 DEF TicketsTypeOK
<1>3. tickets \subseteq Drafts /\ walk \in Walks
  BY DEF TicketsTypeOK
<1>4. Matching \in SUBSET Drafts /\ Page \in SUBSET Drafts /\ Cardinality(Matching) \in Nat
  BY <1>3, MatchingFinite DEF Matching, Page
<1>5. walk' \in Walks /\ Matching' = Matching
  <2> USE DEF Walks, Matching, Filtered
  <2>1. CASE BeginWalk
    <3>1. PICK limit \in Limits \cup {Unset} :
            walk' = [walk EXCEPT !.at = "asked", !.limit = Clamped(limit), !.start = Matching]
      BY <2>1 DEF BeginWalk
    <3>2. Clamped(limit) \in Nat
      BY ClampedFits, TicketsAssumption
    <3> QED BY <1>1, <1>3, <1>4, <3>1, <3>2
  <2>2. CASE ListItems BY <1>1, <1>3, <1>4, <2>2 DEF ListItems, Read
  <2>3. CASE CountItems BY <1>1, <1>3, <1>4, <2>3 DEF CountItems, Read, Replied
  <2>4. CASE NextPage
    <3>1. walk.offset + walk.limit \in Nat
      BY <1>3
    <3>2. \/ walk' = [walk EXCEPT !.at = "over"]
          \/ walk' = [walk EXCEPT !.at = "asked", !.offset = walk.offset + walk.limit]
      BY <2>4 DEF NextPage
    <3>3. walk' \in Walks
      BY <1>3, <3>1, <3>2
    <3>4. /\ walk'.organization = walk.organization /\ walk'.label = walk.label
          /\ walk'.review = walk.review
      BY <1>3, <3>2
    <3> QED BY <1>1, <3>3, <3>4
  <2>5. CASE ListFails BY <1>1, <1>3, <2>5 DEF ListFails
  <2> QED BY <2>1, <2>2, <2>3, <2>4, <2>5 DEF Walk
<1>6. \A t : Before(t)' = Before(t)
  BY <1>5 DEF Before
<1> QED BY <1>1, <1>2, <1>5, <1>6 DEF TicketsTypeOK, submission

\* Each step of the walk.
LEMMA WalkKeeps ==
  ASSUME TicketsIInv, Walk
  PROVE  WalkInv'
<1>1. /\ WalkInv /\ IdsInv /\ tickets \subseteq Drafts /\ walk \in Walks
      /\ walk.offset \in Nat /\ walk.limit \in Nat
  BY DEF TicketsIInv, TicketsTypeOK, Walks
<1>2. Matching' = Matching /\ \A t : Before(t)' = Before(t)
  BY WalkTyped DEF TicketsIInv
<1>3. \A t \in Matching : Before(t) \in Nat
  BY <1>1, PlacesDiffer
<1> USE DEF WalkInv, Ahead
<1>4. CASE BeginWalk
  <2>1. PICK limit \in Limits \cup {Unset} :
          walk' = [walk EXCEPT !.at = "asked", !.limit = Clamped(limit), !.start = Matching]
    BY <1>4 DEF BeginWalk
  <2>2. walk.offset = 0
    BY <1>1, <1>4 DEF BeginWalk
  <2> QED BY <1>1, <1>2, <1>3, <2>1, <2>2, ClampedFits DEF Walks
<1>5. CASE ListItems
  <2>1. walk.at = "asked" /\ walk' = [walk EXCEPT !.items = Page, !.at = "listed"]
    BY <1>1, <1>5 DEF ListItems, Read, Walks
  <2>2. /\ walk.limit \in Nat \ {0} /\ walk.start \subseteq Matching
        /\ \A t \in walk.start : t \in walk.seen \/ Before(t) >= walk.offset
    BY <1>1, <2>1
  <2>3. /\ Page \subseteq Matching /\ Cardinality(Page) <= walk.limit
        /\ Page # {} => walk.offset + Cardinality(Page) <= Cardinality(Matching)
        /\ Page = {} => \A t \in Matching : Before(t) < walk.offset
    BY <1>1, <2>2, PageFits DEF Page
  <2>4. Page = {} => walk.start \subseteq walk.seen
    BY <1>1, <1>3, <2>2, <2>3
  <2>5. ASSUME NEW t \in walk.start, t \notin Page, t \notin walk.seen
        PROVE  Before(t) >= walk.offset + walk.limit
    <3>1. Before(t) \notin walk.offset..(walk.offset + walk.limit - 1)
      BY <2>2, <2>5 DEF Page
    <3> QED BY <1>1, <1>3, <2>2, <2>5, <3>1
  <2>6. /\ walk'.at = "listed" /\ walk'.items = Page /\ walk'.limit = walk.limit
        /\ walk'.offset = walk.offset /\ walk'.start = walk.start /\ walk'.seen = walk.seen
    BY <1>1, <2>1 DEF Walks
  <2>7. PageInv'
    BY <1>2, <2>3, <2>4, <2>5, <2>6 DEF PageInv
  <2> QED BY <1>1, <1>2, <2>1, <2>6, <2>7
<1>6. CASE CountItems
  <2>1. /\ walk.at = "listed"
        /\ walk' = [walk EXCEPT !.total = Cardinality(Matching), !.at = "replied",
                                !.seen = walk.seen \cup walk.items]
    BY <1>1, <1>6 DEF CountItems, Read, Replied, Walks
  <2>2. PageInv /\ walk.start \subseteq Matching
    BY <1>1, <2>1
  <2>3. /\ walk'.at = "replied" /\ walk'.items = walk.items /\ walk'.limit = walk.limit
        /\ walk'.offset = walk.offset /\ walk'.start = walk.start
        /\ walk'.seen = walk.seen \cup walk.items /\ walk'.total = Cardinality(Matching)
    BY <1>1, <2>1 DEF Walks
  <2>4. PageInv'
    BY <1>2, <2>2, <2>3 DEF PageInv
  <2> QED BY <1>1, <1>2, <2>1, <2>2, <2>3, <2>4 DEF PageInv
<1>7. CASE NextPage
  <2>1. walk.at = "replied" /\ PageInv /\ walk.items \subseteq walk.seen
    BY <1>1, <1>7 DEF NextPage
  <2>2. CASE walk.items = {}
    <3>1. walk' = [walk EXCEPT !.at = "over"]
      BY <1>7, <2>2 DEF NextPage
    <3> QED BY <1>1, <1>2, <2>1, <2>2, <3>1 DEF PageInv, Walks
  <2>3. CASE walk.items # {}
    <3>1. walk' = [walk EXCEPT !.at = "asked", !.offset = walk.offset + walk.limit]
      BY <1>7, <2>3 DEF NextPage
    <3> QED BY <1>1, <1>2, <2>1, <3>1 DEF PageInv, Walks
  <2> QED BY <2>2, <2>3
<1>8. CASE ListFails
  <2>1. walk' = [walk EXCEPT !.at = "asked"] /\ walk.at \in {"asked", "listed"}
    BY <1>8 DEF ListFails
  <2> QED BY <1>1, <1>2, <2>1 DEF Walks
<1> QED BY <1>4, <1>5, <1>6, <1>7, <1>8 DEF Walk

\* A walk reads: ids and what senders were told do not change.
LEMMA WalkIds ==
  ASSUME TicketsIInv, Walk
  PROVE  IdsInv' /\ ToldInv'
BY WalkShape DEF TicketsIInv, IdsInv, ToldInv, submission

\* The inductive step.
LEMMA TicketsStep == TicketsIInv /\ [TicketsNext]_ticketVars => TicketsIInv'
<1> SUFFICES ASSUME TicketsIInv, [TicketsNext]_ticketVars PROVE TicketsIInv'
  OBVIOUS
<1>1. CASE Walk
  BY <1>1, WalkTyped, WalkIds, WalkKeeps DEF TicketsIInv
<1>2. ASSUME NEW s \in Submissions, Submit(s) PROVE TicketsIInv'
  BY <1>2, SubmitTyped, SubmitIds, SubmitWalk DEF TicketsIInv
<1>3. CASE UNCHANGED ticketVars
  BY <1>3 DEF TicketsIInv, TicketsTypeOK, IdsInv, ToldInv, WalkInv, PageInv, Ahead, Matching,
              Filtered, Before, ticketVars, submission
<1> QED BY <1>1, <1>2, <1>3 DEF TicketsNext

---------------------------------------------------------------------------

\* Every reachable state satisfies the inductive invariant.
THEOREM TicketsInvariant == TicketsSpec => []TicketsIInv
<1> QED BY InitTickets, TicketsStep, PTL DEF TicketsSpec

\* However many tickets are stored while a client pages through the list, and
\* in whatever order their transactions commit, the client has seen every
\* ticket that was there when it began.
THEOREM EarlierTicketsAreShown == TicketsSpec => []NoTicketSkipped
<1>1. TicketsIInv => NoTicketSkipped
  BY DEF TicketsIInv, WalkInv, NoTicketSkipped
<1> QED BY <1>1, TicketsInvariant, PTL

\* A page is no longer than allowed, is filtered, and lies inside the total it
\* is returned with, though items and total are read one after the other.
THEOREM PagesInsideTotals == TicketsSpec => []PageInsideTotal
<1>1. TicketsIInv => PageInsideTotal
  <2> SUFFICES ASSUME TicketsIInv, walk.at = "replied"
               PROVE  /\ Cardinality(walk.items) <= MaxPage
                      /\ \A t \in walk.items : Filtered(t)
                      /\ walk.items # {} => walk.offset + Cardinality(walk.items) <= walk.total
    BY DEF PageInsideTotal
  <2>1. /\ walk.limit \in 1..MaxPage /\ walk.items \subseteq Matching
        /\ Cardinality(walk.items) <= walk.limit
        /\ walk.items # {} => walk.offset + Cardinality(walk.items) <= walk.total
    BY DEF TicketsIInv, WalkInv, PageInv
  <2>2. Cardinality(walk.items) \in Nat
    <3>1. IsFiniteSet(Matching)
      BY MatchingFinite DEF TicketsIInv, TicketsTypeOK
    <3> QED BY <2>1, <3>1, FS_Subset, FS_CardinalityType
  <2> QED BY <2>1, <2>2, TicketsAssumption DEF Matching
<1> QED BY <1>1, TicketsInvariant, PTL

\* Who was told "created" finds exactly the ticket that was sent under the id
\* that was returned, other organisations find nothing there, and nothing is
\* stored of a submission whose classification failed.
THEOREM SendersToldRight == TicketsSpec => []SubmissionsTold
<1>1. TicketsIInv => SubmissionsTold
  <2> SUFFICES ASSUME TicketsIInv, NEW s \in Submissions
               PROVE  /\ told[s] = "created" => \A o \in Orgs :
                           Get(o, draft[s].id) = IF o = draft[s].organization THEN {draft[s]} ELSE {}
                      /\ told[s] = "error" => draft[s].id = 0
    BY DEF SubmissionsTold
  <2> QED BY DEF TicketsIInv, IdsInv, ToldInv, Get
<1> QED BY <1>1, TicketsInvariant, PTL

---------------------------------------------------------------------------
(* Sums over shards.                                                       *)

\* The recursive function is what its definition says.
LEMMA SumStep ==
  ASSUME NEW f \in [Nat -> Nat]
  PROVE  /\ SumTo(f, 0) = 0
         /\ \A n \in Nat : SumTo(f, n) \in Nat /\ SumTo(f, n + 1) = f[n] + SumTo(f, n)
<1> DEFINE G == [n \in Nat |-> [x \in Nat |-> f[n] + x]]
           IsSum(h) == h = [k \in Nat |-> IF k = 0 THEN 0 ELSE f[k - 1] + h[k - 1]]
           sum == CHOOSE h : IsSum(h)
<1>1. G \in [Nat -> [Nat -> Nat]] /\ 0 \in Nat
  OBVIOUS
<1>2. PICK h : Iterates(h, Nat, 0, G)
  <2> HIDE DEF G
  <2> QED BY <1>1, Iteration
<1>3. h \in [Nat -> Nat] /\ h[0] = 0 /\ \A n \in Nat : h[n + 1] = f[n] + h[n]
  BY <1>2 DEF Iterates
<1>4. ASSUME NEW k \in Nat, k # 0 PROVE h[k] = f[k - 1] + h[k - 1]
  <2>1. k - 1 \in Nat /\ (k - 1) + 1 = k
    BY <1>4
  <2> QED BY <1>3, <2>1
<1>5. IsSum(h)
  BY <1>3, <1>4
<1>6. IsSum(sum)
  BY <1>5
<1> HIDE DEF IsSum
<1>7. \A n : SumTo(f, n) = sum[n]
  BY DEF SumTo, IsSum
<1>8. sum[0] = 0
  BY <1>6 DEF IsSum
<1>9. \A n \in Nat : sum[n + 1] = f[n] + sum[n]
  <2>1. \A n \in Nat : n + 1 \in Nat /\ n + 1 # 0 /\ (n + 1) - 1 = n
    OBVIOUS
  <2> HIDE DEF sum
  <2> QED BY <1>6, <2>1 DEF IsSum
<1>10. \A n \in Nat : sum[n] \in Nat
  <2> HIDE DEF sum
  <2> DEFINE S == {n \in Nat : sum[n] \in Nat}
  <2>1. S \in SUBSET Nat /\ 0 \in S
    BY <1>8
  <2>2. ASSUME NEW n \in S PROVE n + 1 \in S
    BY <1>9, <2>2
  <2>3. S = Nat
    <3> HIDE DEF S
    <3> QED BY <2>1, <2>2, InductiveSet
  <2> QED BY <2>3
<1> QED BY <1>7, <1>8, <1>9, <1>10

\* If every term is at least as large, so is every sum of consecutive ones.
LEMMA SumGrows ==
  ASSUME NEW f \in [Nat -> Nat], NEW g \in [Nat -> Nat], \A k \in Nat : f[k] <= g[k],
         NEW n \in Nat, NEW m \in Nat, n <= m
  PROVE  SumTo(f, m) - SumTo(f, n) <= SumTo(g, m) - SumTo(g, n)
<1> DEFINE S == {d \in Nat : SumTo(f, n + d) - SumTo(f, n) <= SumTo(g, n + d) - SumTo(g, n)}
<1>1. \A k \in Nat : SumTo(f, k) \in Nat /\ SumTo(g, k) \in Nat
  BY SumStep
<1>2. S \in SUBSET Nat /\ 0 \in S
  BY <1>1
<1>3. ASSUME NEW d \in S PROVE d + 1 \in S
  <2>1. d \in Nat /\ n + d \in Nat /\ n + (d + 1) = (n + d) + 1
    BY <1>3
  <2>2. SumTo(f, (n + d) + 1) = f[n + d] + SumTo(f, n + d)
    BY <2>1, SumStep
  <2>3. SumTo(g, (n + d) + 1) = g[n + d] + SumTo(g, n + d)
    BY <2>1, SumStep
  <2>4. f[n + d] <= g[n + d] /\ f[n + d] \in Nat /\ g[n + d] \in Nat
    BY <2>1
  <2>5. SumTo(f, n + d) - SumTo(f, n) <= SumTo(g, n + d) - SumTo(g, n)
    BY <1>3
  <2>6. SumTo(f, n + (d + 1)) - SumTo(f, n) <= SumTo(g, n + (d + 1)) - SumTo(g, n)
    BY <1>1, <2>1, <2>2, <2>3, <2>4, <2>5
  <2> QED BY <2>1, <2>6
<1>4. S = Nat
  <2> HIDE DEF S
  <2> QED BY <1>2, <1>3, InductiveSet
<1>5. m - n \in Nat /\ n + (m - n) = m
  OBVIOUS
<1>6. m - n \in S
  <2> HIDE DEF S
  <2> QED BY <1>4, <1>5
<1> QED BY <1>5, <1>6

---------------------------------------------------------------------------
(* The laboratory: where a user's tickets are, and what is stored.         *)

\* The setups have shards, and replicas only of one database.
LEMMA SetupFits ==
  ASSUME LabTypeOK
  PROVE  /\ setup.shards \in Nat \ {0} /\ setup.replicas \in Nat /\ 0 \in Shards
         /\ Replicas # {} => setup.shards = 1 /\ Shards = {0}
         /\ Replicas = {} <=> setup.replicas = 0
BY LabAssumption DEF LabTypeOK, Shards, Replicas

\* A user's shard is one of the shards.
LEMMA ShardExists ==
  ASSUME LabTypeOK
  PROVE  /\ \A u \in 1..Users : ShardFor(u) = u % setup.shards /\ ShardFor(u) \in Shards
         /\ ShardFor(NoUser) = 0 /\ 0 \in Shards
<1>1. \A u \in 1..Users : u # NoUser /\ u \in Nat
  BY LabAssumption
<1>2. setup.shards \in Nat \ {0} /\ 0 \in Shards
  BY SetupFits
<1>3. \A u \in Nat, n \in Nat \ {0} : u % n \in 0..(n - 1)
  OBVIOUS
<1> QED BY <1>1, <1>2, <1>3 DEF ShardFor, Shards

\* The sums of the tables' lengths.
LEMMA SizesAdd ==
  ASSUME LabTypeOK
  PROVE  /\ Sizes \in [Nat -> Nat] /\ Stored \in Nat /\ UpTo(0) = 0
         /\ \A n \in Nat : UpTo(n) \in Nat /\ UpTo(n + 1) = Sizes[n] + UpTo(n)
         /\ \A s \in Shards : s \in Nat /\ Sizes[s] = Len(rows[s])
         /\ Replicas # {} => Stored = Len(rows[0])
<1>1. \A s \in Shards : s \in Nat /\ Len(rows[s]) \in Nat
  BY SetupFits DEF LabTypeOK, Shards
<1>2. Sizes \in [Nat -> Nat] /\ \A s \in Shards : Sizes[s] = Len(rows[s])
  BY <1>1 DEF Sizes
<1>3. UpTo(0) = 0 /\ \A n \in Nat : UpTo(n) \in Nat /\ UpTo(n + 1) = Sizes[n] + UpTo(n)
  BY <1>2, SumStep DEF UpTo
<1>4. Stored \in Nat
  BY <1>3, SetupFits DEF Stored
<1>5. ASSUME Replicas # {} PROVE Stored = Len(rows[0])
  <2>1. setup.shards = 1 /\ 0 \in Shards
    BY <1>5, SetupFits
  <2>2. UpTo(0 + 1) = Sizes[0] + UpTo(0) /\ 0 + 1 = 1
    BY <1>3
  <2>3. Sizes[0] = Len(rows[0]) /\ Len(rows[0]) \in Nat
    BY <1>1, <1>2, <2>1
  <2>4. UpTo(1) = Len(rows[0]) + 0
    BY <1>3, <2>2, <2>3
  <2> QED BY <2>1, <2>3, <2>4 DEF Stored
<1> QED BY <1>1, <1>2, <1>3, <1>4, <1>5

\* No database that stats may ask has less than the least.
LEMMA LeastIsLeast ==
  ASSUME LabTypeOK
  PROVE  /\ Least \in Nat
         /\ Replicas = {} => Least = Stored
         /\ \A r \in Replicas : Least <= copied[r]
<1>1. CASE Replicas = {}
  BY <1>1, SizesAdd DEF Least
<1>2. CASE Replicas # {}
  <2> DEFINE T == {copied[r] : r \in Replicas}
  <2>1. T \in SUBSET Nat /\ T # {}
    BY <1>2 DEF LabTypeOK
  <2>2. \E m \in T : \A n \in T : m <= n
    <3> HIDE DEF T
    <3> QED BY <2>1, LeastNatural
  <2>3. Min(T) \in T /\ \A n \in T : Min(T) <= n
    BY <2>2 DEF Min
  <2>4. Least = Min(T)
    BY <1>2 DEF Least
  <2> QED BY <1>2, <2>1, <2>3, <2>4
<1> QED BY <1>1, <1>2

\* The sequence that one INSERT has stored.
LEMMA SeedStores ==
  ASSUME NEW n \in Nat, NEW s
  PROVE  /\ Seed(n, s) \in Seq(Tickets)
         /\ Range(Seed(n, s)) = {t \in Range(Series) : t.user % n = s}
<1> DEFINE R == Range(Series)
           T == {t \in R : t.user % n = s}
<1>1. R \subseteq Tickets
  BY LabAssumption DEF Range, Series, Tickets
<1>2. IsFiniteSet(T)
  <2>1. Series \in Surjection(1..Seeded, R) /\ Seeded \in Nat
    BY LabAssumption DEF Surjection, Range, Series
  <2>2. IsFiniteSet(R)
    <3> HIDE DEF R
    <3> QED BY <2>1, FS_NatSurjection DEF ExistsSurjection
  <2> QED BY <2>2, FS_Subset
<1>3. Cardinality(T) \in Nat /\ \E f \in Surjection(1..Cardinality(T), T) : IsInjective(f)
  <2> HIDE DEF T
  <2> QED BY <1>2, FS_CardinalityType DEF ExistsBijection, Bijection, Injection
<1>4. \E f \in [1..Cardinality(T) -> T] : IsInjective(f)
  BY <1>3 DEF Surjection
<1> DEFINE q == SetToSeq(T)
<1>5. q \in Injection(1..Cardinality(T), T)
  <2> HIDE DEF T
  <2> QED BY <1>4 DEF SetToSeq, Injection
<1>6. q \in Surjection(1..Cardinality(T), T)
  <2>1. IsFiniteSet(1..Cardinality(T)) /\ Cardinality(1..Cardinality(T)) = Cardinality(T)
    <3> HIDE DEF T
    <3> QED BY <1>3, FS_Interval
  <2> HIDE DEF T, q
  <2> QED BY <1>2, <1>5, <2>1, FS_Injection
<1>7. q \in Seq(Tickets) /\ Range(q) = T
  <2>1. T \subseteq Tickets
    BY <1>1
  <2> HIDE DEF T, q
  <2>2. q \in [1..Cardinality(T) -> T] /\ \A t \in T : \E i \in 1..Cardinality(T) : q[i] = t
    BY <1>6 DEF Surjection
  <2>3. q \in Seq(Tickets)
    BY <1>3, <2>1, <2>2
  <2> QED BY <2>2, <2>3 DEF Range
<1>8. Seed(n, s) = q
  BY DEF Seed
<1> QED BY <1>7, <1>8

---------------------------------------------------------------------------
(* The laboratory: its steps.                                              *)

\* The calls find nothing, and the tables are the seeded ones.
LEMMA InitLab == LabInit => LabIInv
<1> SUFFICES ASSUME LabInit PROVE LabIInv
  OBVIOUS
<1>1. setup.shards \in Nat \ {0} /\ 0 \in Shards /\ Seeded \in Nat
  BY LabAssumption DEF LabInit, Shards
<1>2. \A s \in Shards : rows[s] = Seed(setup.shards, s) /\ ids[s] = Seeded
  BY DEF LabInit
<1>3. rows \in [Shards -> Seq(Tickets)]
  BY <1>1, <1>2, SeedStores DEF LabInit
<1>4. Idle \in Calls
  BY SMTT(30) DEF Idle, NewCall, Calls
<1>5. LabTypeOK
  BY <1>1, <1>3, <1>4 DEF LabInit, LabTypeOK
<1>6. ASSUME NEW s \in Shards, NEW t \in Range(rows[s])
      PROVE  /\ t.user % setup.shards = s /\ t.id <= ids[s]
             /\ \A u \in Range(rows[s]) : t.id = u.id => t = u
  <2>1. \A u \in Range(rows[s]) :
          u.user % setup.shards = s /\ \E i \in 1..Seeded : u = Series[i]
    BY <1>1, <1>2, SeedStores DEF Range, Series
  <2>2. \A i \in 1..Seeded : Series[i] = [id |-> i, user |-> 1 + (i % Users)]
    BY DEF Series
  <2>3. ASSUME NEW u \in Range(rows[s]) PROVE u.id \in 1..Seeded /\ u = Series[u.id]
    <3>1. PICK i \in 1..Seeded : u = Series[i]
      BY <2>1
    <3>2. u = [id |-> i, user |-> 1 + (i % Users)]
      BY <2>2, <3>1
    <3>3. u.id = i
      BY <3>2
    <3> QED BY <3>1, <3>3
  <2> QED BY <1>2, <1>1, <2>1, <2>3
<1>7. RowsInv
  BY <1>1, <1>5, <1>6 DEF RowsInv, LabInit, LabTypeOK
<1>8. \A c \in Callers : CallInv(c)
  BY DEF LabInit, CallInv, Idle, NewCall
<1> QED BY <1>5, <1>7, <1>8 DEF LabIInv

\* A step of one call that leaves the databases alone leaves the others alone.
LEMMA OneCall ==
  ASSUME LabIInv, NEW c \in Callers, NEW new \in Calls,
         call' = [call EXCEPT ![c] = new], UNCHANGED <<setup, rows, ids, copied>>,
         new.at = "inserted" =>
           call[c].at = "inserted" /\ new.id = call[c].id /\ new.user = call[c].user
  PROVE  /\ LabTypeOK' /\ RowsInv' /\ call'[c] = new
         /\ \A d \in Callers \ {c} : CallInv(d)'
         /\ call[c].at = "inserted" /\ new.at = "inserted" => Unborn(c)'
         /\ Stored' = Stored /\ \A n : UpTo(n)' = UpTo(n)
<1>1. LabTypeOK /\ LabTypeOK' /\ RowsInv'
  BY DEF LabIInv, LabTypeOK, RowsInv, Shards, Replicas
<1>2. call'[c] = new /\ \A d \in Callers \ {c} : call'[d] = call[d]
  BY <1>1 DEF LabTypeOK
<1>3. /\ Shards' = Shards /\ Replicas' = Replicas /\ Pools' = Pools /\ Stored' = Stored
      /\ \A n : UpTo(n)' = UpTo(n)
      /\ \A u : ShardFor(u)' = ShardFor(u)
      /\ \A i, u : There(i, u)' = There(i, u)
  BY DEF Shards, Replicas, Pools, Stored, UpTo, Sizes, ShardFor, There
<1>4. ASSUME NEW d \in Callers, call[d].at = "inserted", call'[d].at = "inserted" PROVE Unborn(d)'
  <2>1. \A e \in Callers : call'[e].at = "inserted" =>
          call[e].at = "inserted" /\ call'[e].id = call[e].id /\ call'[e].user = call[e].user
    BY <1>2
  <2>2. Unborn(d)
    BY <1>4 DEF LabIInv, CallInv
  <2> QED BY <1>3, <1>4, <2>1, <2>2 DEF Unborn
<1>5. ASSUME NEW d \in Callers \ {c} PROVE CallInv(d)'
  <2>1. CallInv(d) /\ call'[d] = call[d]
    BY <1>2 DEF LabIInv
  <2>2. Counting(d)' <=> Counting(d)
    BY <1>3, <2>1 DEF Counting
  <2>3. call[d].at = "inserted" => Unborn(d)'
    BY <1>4, <2>1
  <2> QED BY <1>3, <2>1, <2>2, <2>3 DEF CallInv
<1> QED BY <1>1, <1>2, <1>3, <1>4, <1>5

\* What a caller sends is a call.
LEMMA SentCall ==
  ASSUME NEW kind \in {"create", "get", "stats"}, NEW user \in (1..Users) \cup {NoUser},
         NEW id \in Nat, NEW there \in BOOLEAN, NEW least \in Nat
  PROVE  NewCall(kind, user, id, "service", there, least) \in Calls
BY SMTT(30) DEF NewCall, Calls

\* A caller asks; what is there, and the least, are those of this moment.
LEMMA SendStep ==
  ASSUME LabIInv, NEW c \in Callers, Call(c)
  PROVE  LabIInv'
<1>1. PICK kind \in {"create", "get", "stats"}, user \in (1..Users) \cup {NoUser}, id \in Nat :
        Send(c, kind, user, id) /\ (kind = "create" => user # NoUser)
  <2>1. NoUser \notin 1..Users /\ 0 \in Nat /\ 1..(Seeded + 1) \subseteq Nat
    BY LabAssumption
  <2>2. CASE \E user \in 1..Users : Send(c, "create", user, 0)
    BY <2>1, <2>2
  <2>3. CASE \E user \in (1..Users) \cup {NoUser}, id \in 1..(Seeded + 1) : Send(c, "get", user, id)
    BY <2>1, <2>3
  <2>4. CASE Send(c, "stats", NoUser, 0)
    BY <2>1, <2>4
  <2> QED BY <2>2, <2>3, <2>4 DEF Call
<1> DEFINE new == NewCall(kind, user, id, "service", There(id, user), Least)
<1>2. LabTypeOK /\ There(id, user) \in BOOLEAN
  BY DEF LabIInv, There
<1>3. /\ new \in Calls /\ new.at = "service" /\ new.status = 0 /\ new.told = 0
      /\ new.next = 0 /\ new.total = 0 /\ new.kind = kind /\ new.user = user /\ new.id = id
      /\ new.there = There(id, user) /\ new.least = Least
  <2>1. Least \in Nat
    BY <1>2, LeastIsLeast
  <2>2. new \in Calls
    BY <1>2, <2>1, SentCall
  <2> QED BY <2>2 DEF NewCall
<1>4. call' = [call EXCEPT ![c] = new] /\ UNCHANGED <<setup, rows, ids, copied>>
  BY <1>1 DEF Send
<1> HIDE DEF new
<1>5. /\ LabTypeOK' /\ RowsInv' /\ call'[c] = new
      /\ \A d \in Callers \ {c} : CallInv(d)'
      /\ Stored' = Stored /\ \A n : UpTo(n)' = UpTo(n)
  BY <1>3, <1>4, OneCall
<1>6. Counting(c)'
  <2>1. Replicas' = Replicas /\ Pools' = Pools /\ Pools \in Nat
    BY <1>2, <1>4, SetupFits DEF Replicas, Pools
  <2>2. Stored \in Nat /\ UpTo(0) = 0
    BY <1>2, SizesAdd
  <2> QED BY <1>2, <1>3, <1>4, <1>5, <2>1, <2>2, LeastIsLeast DEF Counting
<1>7. There(id, user)' = There(id, user)
  BY <1>4 DEF There, Shards
<1>8. CallInv(c)'
  BY <1>1, <1>3, <1>5, <1>6, <1>7 DEF CallInv
<1> QED BY <1>5, <1>8 DEF LabIInv

\* The gateway passes the answer on, or gives up.
LEMMA ForwardStep ==
  ASSUME LabIInv, NEW c \in Callers, Forward(c)
  PROVE  LabIInv'
<1>1. PICK code \in {call[c].status, 502} : call' = [call EXCEPT ![c].told = code]
  BY DEF Forward
<1> DEFINE new == [call[c] EXCEPT !.told = code]
<1>2. LabTypeOK /\ CallInv(c) /\ call[c] \in Calls /\ call[c].at # "idle"
  BY DEF LabIInv, LabTypeOK, Forward
<1>3. /\ new \in Calls /\ new.told \in {call[c].status, 502}
      /\ new.kind = call[c].kind /\ new.user = call[c].user /\ new.id = call[c].id
      /\ new.at = call[c].at /\ new.next = call[c].next /\ new.total = call[c].total
      /\ new.status = call[c].status /\ new.there = call[c].there /\ new.least = call[c].least
  BY <1>1, <1>2 DEF Calls
<1>4. call' = [call EXCEPT ![c] = new] /\ UNCHANGED <<setup, rows, ids, copied>>
  BY <1>1 DEF Forward
<1> HIDE DEF new
<1>5. /\ LabTypeOK' /\ RowsInv' /\ call'[c] = new
      /\ \A d \in Callers \ {c} : CallInv(d)'
      /\ call[c].at = "inserted" /\ new.at = "inserted" => Unborn(c)'
      /\ Stored' = Stored /\ \A n : UpTo(n)' = UpTo(n)
  BY <1>3, <1>4, OneCall
<1>6. Counting(c) => Counting(c)'
  BY <1>3, <1>4, <1>5 DEF Counting, Replicas, Pools
<1>7. \A i, u : There(i, u)' = There(i, u) /\ ShardFor(u)' = ShardFor(u)
  BY <1>4 DEF There, Shards, ShardFor
<1>8. CallInv(c)'
  BY <1>2, <1>3, <1>4, <1>5, <1>6, <1>7 DEF CallInv
<1> QED BY <1>5, <1>8 DEF LabIInv

\* An answer that is not the one to a create.
LEMMA AnswerStep ==
  ASSUME LabIInv, NEW c \in Callers, NEW status \in {200, 400, 404, 500},
         call[c].at \in {"service", "inserted"}, Answer(c, status),
         UNCHANGED <<setup, rows, ids, copied>>,
         status = 404 => ~ call[c].there,
         call[c].kind = "stats" /\ status = 200 =>
           call[c].least <= call[c].total /\ call[c].total <= Stored
  PROVE  LabIInv'
<1> DEFINE new == [call[c] EXCEPT !.at = "answered", !.status = status]
<1>1. LabTypeOK /\ CallInv(c) /\ call[c] \in Calls
  BY DEF LabIInv, LabTypeOK
<1>2. /\ new \in Calls /\ new.told = call[c].told
      /\ new.kind = call[c].kind /\ new.user = call[c].user /\ new.id = call[c].id
      /\ new.at = "answered" /\ new.next = call[c].next /\ new.total = call[c].total
      /\ new.status = status /\ new.there = call[c].there /\ new.least = call[c].least
  <2> DEFINE late == [call[c] EXCEPT !.at = "answered"]
  <2>1. late \in Calls /\ new = [late EXCEPT !.status = status]
    BY <1>1 DEF Calls
  <2>2. [late EXCEPT !.status = status] \in Calls
    <3> HIDE DEF late
    <3> QED BY <2>1, SMTT(30) DEF Calls
  <2> QED BY <1>1, <2>1, <2>2 DEF Calls
<1>3. call' = [call EXCEPT ![c] = new] /\ UNCHANGED <<setup, rows, ids, copied>>
  BY <1>1 DEF Answer, LabTypeOK
<1> HIDE DEF new
<1>4. /\ LabTypeOK' /\ RowsInv' /\ call'[c] = new
      /\ \A d \in Callers \ {c} : CallInv(d)'
      /\ call[c].at = "inserted" /\ new.at = "inserted" => Unborn(c)'
      /\ Stored' = Stored /\ \A n : UpTo(n)' = UpTo(n)
  <2>1. new \in Calls /\ (new.at = "inserted" =>
           call[c].at = "inserted" /\ new.id = call[c].id /\ new.user = call[c].user)
    BY <1>2
  <2> QED BY <1>3, <2>1, OneCall
<1>5. \A i, u : There(i, u)' = There(i, u)
  BY DEF There, Shards
<1>6. call[c].told \in {0, 502}
  BY <1>1 DEF CallInv
<1>7. CallInv(c)'
  BY <1>1, <1>2, <1>4, <1>5, <1>6 DEF CallInv
<1> QED BY <1>4, <1>7 DEF LabIInv

\* A ticket that was there when it was asked for is found on its user's shard.
LEMMA GetTicketStep ==
  ASSUME LabIInv, NEW c \in Callers, GetTicket(c)
  PROVE  LabIInv'
<1>1. LabTypeOK /\ RowsInv /\ CallInv(c) /\ call[c] \in Calls
  BY DEF LabIInv, LabTypeOK
<1> DEFINE user == call[c].user
           found == {t \in Range(rows[ShardFor(user)]) : t.id = call[c].id}
<1>2. PICK status \in {200, 400, 404} :
        /\ Answer(c, status)
        /\ status = 404 => found = {} /\ ~ (setup.shards > 1 /\ user = NoUser)
  BY DEF GetTicket
<1>3. call[c].at = "service" /\ call[c].kind = "get" /\ UNCHANGED <<setup, rows, ids, copied>>
  BY DEF GetTicket, Serving
<1>4. ASSUME status = 404, call[c].there PROVE FALSE
  <2>1. PICK s \in Shards : \E t \in Range(rows[s]) : t.id = call[c].id /\ user \in {t.user, NoUser}
    BY <1>1, <1>3, <1>4 DEF CallInv, There
  <2>2. PICK t \in Range(rows[s]) : t.id = call[c].id /\ user \in {t.user, NoUser}
    BY <2>1
  <2>3. s = ShardFor(user)
    <3>1. CASE user = NoUser
      <4>1. ~ (setup.shards > 1) /\ setup.shards \in Nat \ {0}
        BY <1>1, <1>2, <1>4, <3>1, SetupFits
      <4>2. s = 0
        BY <4>1 DEF Shards
      <4> QED BY <3>1, <4>2 DEF ShardFor
    <3>2. CASE user # NoUser
      BY <1>1, <2>2, <3>2 DEF ShardFor, RowsInv
    <3> QED BY <3>1, <3>2
  <2> QED BY <1>2, <1>4, <2>2, <2>3
<1> QED BY <1>2, <1>3, <1>4, AnswerStep

\* A count of everything is between the least and what is stored.
LEMMA CountedStep ==
  ASSUME LabIInv, NEW c \in Callers, Counted(c)
  PROVE  LabIInv'
<1>1. LabTypeOK /\ Counting(c) /\ call[c] \in Calls
  BY DEF LabIInv, LabTypeOK, CallInv, Counted, Serving
<1>2. call[c].least <= call[c].total /\ call[c].total <= Stored
  <2>1. CASE Replicas = {}
    <3>1. call[c].next = setup.shards /\ UpTo(call[c].next) = Stored
      BY <2>1 DEF Counted, Pools, Stored
    <3>2. call[c].total <= Stored /\ call[c].least <= call[c].total + (Stored - Stored)
      BY <1>1, <2>1, <3>1 DEF Counting
    <3>3. Stored \in Nat /\ call[c].least \in Nat /\ call[c].total \in Nat
      <4>1. call[c].least \in Nat /\ call[c].total \in Nat
        BY <1>1 DEF Calls
      <4> QED BY <1>1, <4>1, SizesAdd
    <3> QED BY <3>2, <3>3
  <2>2. CASE Replicas # {}
    <3>1. call[c].next = 1
      BY <2>2 DEF Counted, Pools
    <3>2. call[c].least <= call[c].total /\ call[c].total <= Len(rows[0])
      BY <1>1, <2>2, <3>1 DEF Counting
    <3>3. Stored = Len(rows[0])
      BY <1>1, <2>2, SizesAdd
    <3> QED BY <3>2, <3>3
  <2> QED BY <2>1, <2>2
<1>3. /\ call[c].at \in {"service", "inserted"} /\ Answer(c, 200)
      /\ UNCHANGED <<setup, rows, ids, copied>>
  BY DEF Counted, Serving
<1> QED BY <1>2, <1>3, AnswerStep

\* A database does not answer.
LEMMA FailStep ==
  ASSUME LabIInv, NEW c \in Callers, Fail(c)
  PROVE  LabIInv'
BY AnswerStep DEF Fail

\* Stats asks the next shard, or a replica.
LEMMA CountStep ==
  ASSUME LabIInv, NEW c \in Callers, Count(c)
  PROVE  LabIInv'
<1>1. LabTypeOK /\ RowsInv /\ CallInv(c) /\ Counting(c) /\ call[c] \in Calls
  <2>1. CallInv(c) /\ LabTypeOK /\ RowsInv
    BY DEF LabIInv
  <2>2. call[c].kind = "stats" /\ call[c].at = "service"
    BY DEF Count, Serving
  <2> QED BY <2>1, <2>2 DEF CallInv, LabTypeOK
<1> DEFINE next == call[c].next
<1>2. next \in Nat /\ next < Pools /\ call[c].total \in Nat /\ call[c].least \in Nat
  BY <1>1 DEF Count, Calls
<1>3. PICK n \in Nat : /\ call' = Added(c, n)
                       /\ Replicas = {} => next \in Shards /\ n = Sizes[next]
                       /\ Replicas # {} => \E r \in Replicas : n = copied[r]
  <2>1. CASE Replicas = {}
    <3>1. next \in Shards
      BY <1>1, <1>2, <2>1, SetupFits DEF Pools, Shards
    <3>2. Len(rows[next]) \in Nat /\ Sizes[next] = Len(rows[next]) /\ call' = Added(c, Len(rows[next]))
      BY <1>1, <2>1, <3>1, SizesAdd DEF Count, LabTypeOK
    <3> QED BY <2>1, <3>1, <3>2
  <2>2. CASE Replicas # {}
    BY <1>1, <2>2 DEF Count, LabTypeOK
  <2> QED BY <2>1, <2>2
<1> DEFINE new == [call[c] EXCEPT !.next = next + 1, !.total = call[c].total + n]
<1>4. /\ new.next = next + 1 /\ new.total = call[c].total + n
      /\ new.kind = call[c].kind /\ new.user = call[c].user /\ new.id = call[c].id
      /\ new.at = call[c].at /\ new.status = call[c].status /\ new.told = call[c].told
      /\ new.there = call[c].there /\ new.least = call[c].least /\ new \in Calls
  <2> DEFINE step == [call[c] EXCEPT !.next = next + 1]
           total == call[c].total + n
  <2>1. step \in Calls /\ new = [step EXCEPT !.total = total] /\ total \in Nat
    BY <1>1, <1>2 DEF Calls
  <2>2. [step EXCEPT !.total = total] \in Calls
    <3> HIDE DEF step, total
    <3> QED BY <2>1, SMTT(30) DEF Calls
  <2> QED BY <1>1, <2>1, <2>2 DEF Calls
<1>5. call' = [call EXCEPT ![c] = new] /\ UNCHANGED <<setup, rows, ids, copied>>
  <2>1. Added(c, n) = [call EXCEPT ![c] = new]
    BY <1>1 DEF Added, LabTypeOK
  <2>2. UNCHANGED <<setup, rows, ids, copied>>
    BY DEF Count
  <2> QED BY <1>3, <2>1, <2>2
<1> HIDE DEF new
<1>6. /\ LabTypeOK' /\ RowsInv' /\ call'[c] = new
      /\ \A d \in Callers \ {c} : CallInv(d)'
      /\ call[c].at = "inserted" /\ new.at = "inserted" => Unborn(c)'
      /\ Stored' = Stored /\ \A i : UpTo(i)' = UpTo(i)
  BY <1>4, <1>5, OneCall
<1>7. Replicas' = Replicas /\ Pools' = Pools
  BY <1>5 DEF Replicas, Pools
<1>8. Counting(c)'
  <2>1. CASE Replicas = {}
    <3>1. UpTo(next + 1) = n + UpTo(next) /\ UpTo(next) \in Nat /\ Stored \in Nat
      BY <1>1, <1>2, <1>3, <2>1, SizesAdd
    <3>2. call[c].total <= UpTo(next) /\ call[c].least <= call[c].total + (Stored - UpTo(next))
      BY <1>1, <2>1 DEF Counting
    <3>3. /\ call[c].total + n <= UpTo(next + 1)
          /\ call[c].least <= (call[c].total + n) + (Stored - UpTo(next + 1))
      BY <1>2, <3>1, <3>2
    <3>4. next + 1 <= Pools /\ next + 1 # 0
      BY <1>1, <1>2, <2>1, SetupFits DEF Pools
    <3> QED BY <1>4, <1>6, <1>7, <2>1, <3>3, <3>4 DEF Counting
  <2>2. CASE Replicas # {}
    <3>1. Pools = 1 /\ next = 0 /\ call[c].total = 0
      BY <1>1, <1>2, <2>2 DEF Pools, Counting
    <3>2. PICK r \in Replicas : n = copied[r]
      BY <1>3, <2>2
    <3>3. call[c].least <= copied[r] /\ copied[r] <= Len(rows[0])
      BY <1>1, <2>2, <3>1 DEF Counting, RowsInv
    <3>4. new.next = 1 /\ new.total = n
      BY <1>4, <3>1
    <3> QED BY <1>4, <1>5, <1>6, <1>7, <2>2, <3>1, <3>2, <3>3, <3>4 DEF Counting
  <2> QED BY <2>1, <2>2
<1>9. call[c].kind = "stats" /\ call[c].at = "service" /\ call[c].status = 0
  BY <1>1 DEF Count, Serving, CallInv
<1>10. CallInv(c)'
  BY <1>1, <1>4, <1>6, <1>8, <1>9 DEF CallInv
<1> QED BY <1>6, <1>10 DEF LabIInv

\* A replica applies a commit: it has no more than the primary.
LEMMA StreamStep ==
  ASSUME LabIInv, NEW r \in Replicas, Stream(r)
  PROVE  LabIInv'
<1>1. LabTypeOK /\ RowsInv
  BY DEF LabIInv
<1>2. copied' = [copied EXCEPT ![r] = @ + 1] /\ UNCHANGED <<setup, rows, ids, call>>
  BY DEF Stream
<1>3. copied[r] \in Nat /\ Len(rows[0]) \in Nat /\ copied[r] + 1 <= Len(rows[0])
  BY <1>1, SetupFits DEF Stream, LabTypeOK
<1>4. Shards' = Shards /\ Replicas' = Replicas /\ Pools' = Pools /\ Stored' = Stored
      /\ (\A n : UpTo(n)' = UpTo(n)) /\ (\A u : ShardFor(u)' = ShardFor(u))
      /\ \A i, u : There(i, u)' = There(i, u)
  BY <1>2 DEF Shards, Replicas, Pools, Stored, UpTo, Sizes, ShardFor, There
<1>5. copied' \in [Replicas -> Nat] /\ \A q \in Replicas : copied[q] <= copied'[q]
  BY <1>1, <1>2, <1>3 DEF LabTypeOK
<1>6. LabTypeOK'
  BY <1>1, <1>2, <1>4, <1>5 DEF LabTypeOK
<1>7. RowsInv'
  BY <1>1, <1>2, <1>3, <1>4 DEF RowsInv, LabTypeOK
<1>8. ASSUME NEW c \in Callers PROVE CallInv(c)'
  <2>1. CallInv(c) /\ call[c].least \in Nat
    BY <1>1 DEF LabIInv, LabTypeOK, Calls
  <2>2. Unborn(c)' <=> Unborn(c)
    BY <1>2, <1>4 DEF Unborn
  <2>3. Counting(c) => Counting(c)'
    <3>1. ASSUME \A q \in Replicas : call[c].least <= copied[q]
          PROVE  \A q \in Replicas : call[c].least <= copied'[q]
      BY <1>1, <1>5, <2>1, <3>1 DEF LabTypeOK
    <3> QED BY <1>2, <1>4, <3>1 DEF Counting
  <2> QED BY <1>2, <1>4, <2>1, <2>2, <2>3 DEF CallInv
<1> QED BY <1>6, <1>7, <1>8 DEF LabIInv

\* A call in the service that creates has a user, a shard, and a new id.
LEMMA CreatingCall ==
  ASSUME LabIInv, NEW c \in Callers, call[c].kind = "create"
  PROVE  /\ call[c] \in Calls /\ call[c].user \in 1..Users /\ call[c].id \in Nat
         /\ ShardFor(call[c].user) = call[c].user % setup.shards
         /\ ShardFor(call[c].user) \in Shards /\ ids[ShardFor(call[c].user)] \in Nat
<1>1. LabTypeOK /\ CallInv(c) /\ call[c] \in Calls
  BY DEF LabIInv, LabTypeOK
<1>2. call[c].user \in 1..Users /\ call[c].id \in Nat
  BY <1>1 DEF CallInv, Calls
<1> QED BY <1>1, <1>2, ShardExists DEF LabTypeOK

\* The sequence gives an id that no row and no other call has.
LEMMA InsertStep ==
  ASSUME LabIInv, NEW c \in Callers, Insert(c)
  PROVE  LabIInv'
<1> DEFINE s == ShardFor(call[c].user)
           new == [call[c] EXCEPT !.at = "inserted", !.id = ids[s] + 1]
<1>1. LabTypeOK /\ RowsInv /\ CallInv(c)
  BY DEF LabIInv
<1>2. call[c].kind = "create" /\ call[c].at = "service" /\ call[c].status = 0
  BY <1>1 DEF Insert, Serving, CallInv
<1>3. call[c] \in Calls /\ s \in Shards /\ ids[s] \in Nat
  BY <1>2, CreatingCall
<1>4. /\ new.at = "inserted" /\ new.id = ids[s] + 1 /\ new \in Calls
      /\ new.kind = "create" /\ new.user = call[c].user /\ new.status = 0
      /\ new.told = call[c].told /\ new.there = call[c].there
  <2> DEFINE step == [call[c] EXCEPT !.at = "inserted"]
           id == ids[s] + 1
  <2>1. step \in Calls /\ new = [step EXCEPT !.id = id] /\ id \in Nat
    BY <1>3 DEF Calls
  <2>2. [step EXCEPT !.id = id] \in Calls
    <3> HIDE DEF step, id
    <3> QED BY <2>1, SMTT(30) DEF Calls
  <2> QED BY <1>2, <1>3, <2>1, <2>2 DEF Calls
<1>5. /\ call' = [call EXCEPT ![c] = new] /\ ids' = [ids EXCEPT ![s] = @ + 1]
      /\ UNCHANGED <<setup, rows, copied>>
  BY DEF Insert
<1> HIDE DEF new
<1>6. /\ Shards' = Shards /\ Replicas' = Replicas /\ Pools' = Pools /\ Stored' = Stored
      /\ (\A n : UpTo(n)' = UpTo(n)) /\ (\A u : ShardFor(u)' = ShardFor(u))
      /\ \A i, u : There(i, u)' = There(i, u)
  BY <1>5 DEF Shards, Replicas, Pools, Stored, UpTo, Sizes, ShardFor, There
<1>7. /\ call' \in [Callers -> Calls] /\ call'[c] = new
      /\ \A d \in Callers \ {c} : call'[d] = call[d]
  BY <1>1, <1>4, <1>5 DEF LabTypeOK
<1>8. /\ ids' \in [Shards -> Nat] /\ ids'[s] = ids[s] + 1
      /\ \A q \in Shards : ids[q] \in Nat /\ ids[q] <= ids'[q]
  BY <1>1, <1>3, <1>5 DEF LabTypeOK
<1>9. LabTypeOK'
  BY <1>1, <1>5, <1>6, <1>7, <1>8 DEF LabTypeOK
<1>10. \A q \in Shards : \A t \in Range(rows[q]) : t.id \in Nat /\ t.id <= ids[q]
  <2>1. \A q \in Shards : \A t \in Range(rows[q]) : t \in Tickets
    BY <1>1 DEF LabTypeOK, Range
  <2> QED BY <1>1, <2>1 DEF RowsInv, Tickets
<1>11. RowsInv'
  <2>1. \A q \in Shards : \A t \in Range(rows[q]) : t.id <= ids'[q]
    BY <1>8, <1>10
  <2> QED BY <1>1, <1>5, <1>6, <2>1 DEF RowsInv
<1>12. \A d \in Callers : call[d].at = "inserted" =>
         /\ Unborn(d) /\ call[d].id \in Nat /\ ShardFor(call[d].user) \in Shards
  BY CreatingCall DEF LabIInv, CallInv
<1>13. Unborn(c)'
  <2>1. new.id <= ids'[s] /\ \A t \in Range(rows[s]) : t.id # new.id
    BY <1>3, <1>4, <1>8, <1>10
  <2>2. ASSUME NEW d \in Callers \ {c}, call[d].at = "inserted", ShardFor(call[d].user) = s
        PROVE  call[d].id # new.id
    BY <1>3, <1>4, <1>12, <2>2 DEF Unborn
  <2> QED BY <1>4, <1>5, <1>6, <1>7, <2>1, <2>2 DEF Unborn
<1>14. ASSUME NEW d \in Callers \ {c}, call[d].at = "inserted" PROVE Unborn(d)'
  <2> DEFINE q == ShardFor(call[d].user)
  <2>1. Unborn(d) /\ call[d].id \in Nat /\ q \in Shards
    BY <1>12, <1>14
  <2>2. call[d].id <= ids'[q]
    BY <1>8, <2>1 DEF Unborn
  <2>3. q = s => call[d].id # new.id
    BY <1>3, <1>4, <2>1 DEF Unborn
  <2>4. \A e \in Callers \ {d} : call'[e].at = "inserted" /\ ShardFor(call'[e].user) = q =>
          call'[e].id # call[d].id
    BY <1>4, <1>7, <2>1, <2>3 DEF Unborn
  <2> QED BY <1>5, <1>6, <1>7, <2>1, <2>2, <2>4 DEF Unborn
<1>15. CallInv(c)'
  BY <1>1, <1>2, <1>4, <1>7, <1>13 DEF CallInv
<1>16. ASSUME NEW d \in Callers \ {c} PROVE CallInv(d)'
  <2>1. CallInv(d) /\ call'[d] = call[d]
    BY <1>7 DEF LabIInv
  <2>2. Counting(d) => Counting(d)'
    BY <1>5, <1>6, <2>1 DEF Counting
  <2> QED BY <1>5, <1>6, <1>14, <2>1, <2>2 DEF CallInv
<1> QED BY <1>9, <1>11, <1>15, <1>16 DEF LabIInv

\* The row is the last of its table: the tables have what they had, and it.
LEMMA CommitStores ==
  ASSUME LabIInv, NEW c \in Callers, Commit(c)
  PROVE  LET s   == ShardFor(call[c].user)
             row == [id |-> call[c].id, user |-> call[c].user]
         IN  /\ s \in Shards /\ row \in Tickets /\ row.user % setup.shards = s
             /\ row.id <= ids[s] /\ \A t \in Range(rows[s]) : t.id # row.id
             /\ rows' \in [Shards -> Seq(Tickets)]
             /\ Range(rows'[s]) = Range(rows[s]) \cup {row}
             /\ Len(rows'[s]) = Len(rows[s]) + 1
             /\ \A q \in Shards \ {s} : rows'[q] = rows[q]
<1> DEFINE s   == ShardFor(call[c].user)
           row == [id |-> call[c].id, user |-> call[c].user]
<1>1. LabTypeOK /\ CallInv(c) /\ call[c].at = "inserted"
  BY DEF LabIInv, Commit
<1>2. call[c].kind = "create" /\ Unborn(c)
  BY <1>1 DEF CallInv
<1>3. s \in Shards /\ s = call[c].user % setup.shards /\ row \in Tickets
  BY <1>2, CreatingCall DEF Tickets
<1>4. rows' = [rows EXCEPT ![s] = Append(@, row)]
  BY DEF Commit
<1>5. rows[s] \in Seq(Tickets) /\ rows'[s] = Append(rows[s], row)
  BY <1>1, <1>3, <1>4 DEF LabTypeOK
<1> HIDE DEF row, s
<1>6. Append(rows[s], row) \in Seq(Tickets) /\ Len(Append(rows[s], row)) = Len(rows[s]) + 1
  BY <1>3, <1>5
<1>7. Range(Append(rows[s], row)) = Range(rows[s]) \cup {row}
  <2> DEFINE q == rows[s]
             p == Append(q, row)
  <2>1. Len(q) \in Nat /\ DOMAIN q = 1..Len(q) /\ DOMAIN p = 1..(Len(q) + 1)
    BY <1>5, <1>6
  <2>2. p[Len(q) + 1] = row /\ \A i \in 1..Len(q) : p[i] = q[i]
    BY <1>3, <1>5
  <2> HIDE DEF p
  <2>3. \A i \in 1..(Len(q) + 1) : i \in 1..Len(q) \/ i = Len(q) + 1
    BY <2>1
  <2> QED BY <2>1, <2>2, <2>3 DEF Range
<1>8. rows' \in [Shards -> Seq(Tickets)] /\ \A q \in Shards \ {s} : rows'[q] = rows[q]
  BY <1>1, <1>3, <1>4, <1>5, <1>6 DEF LabTypeOK
<1>9. row.user % setup.shards = s /\ row.id <= ids[s] /\ \A t \in Range(rows[s]) : t.id # row.id
  BY <1>2, <1>3 DEF Unborn, row, s
<1>10. /\ s \in Shards /\ row \in Tickets /\ row.user % setup.shards = s
       /\ row.id <= ids[s] /\ \A t \in Range(rows[s]) : t.id # row.id
       /\ rows' \in [Shards -> Seq(Tickets)]
       /\ Range(rows'[s]) = Range(rows[s]) \cup {row}
       /\ Len(rows'[s]) = Len(rows[s]) + 1
       /\ \A q \in Shards \ {s} : rows'[q] = rows[q]
  BY <1>3, <1>5, <1>6, <1>7, <1>8, <1>9
<1> QED BY <1>10, Zenon DEF row, s

\* No table has fewer tickets, so no count lacks more than it did.
LEMMA CommitCounts ==
  ASSUME LabIInv, NEW c \in Callers, Commit(c), LabTypeOK'
  PROVE  /\ Stored \in Nat /\ Stored' \in Nat /\ Stored <= Stored'
         /\ \A n \in 0..setup.shards : /\ UpTo(n) \in Nat /\ UpTo(n)' \in Nat
                                       /\ UpTo(n) <= UpTo(n)'
                                       /\ Stored - UpTo(n) <= Stored' - UpTo(n)'
         /\ Len(rows[0]) \in Nat /\ Len(rows'[0]) \in Nat /\ Len(rows[0]) <= Len(rows'[0])
<1> DEFINE s == ShardFor(call[c].user)
           f == Sizes
           g == Sizes'
<1>1. LabTypeOK /\ setup' = setup /\ Shards' = Shards
  BY DEF LabIInv, Commit, Shards
<1>2. /\ s \in Shards /\ Len(rows'[s]) = Len(rows[s]) + 1
      /\ rows' \in [Shards -> Seq(Tickets)] /\ \A q \in Shards \ {s} : rows'[q] = rows[q]
  BY CommitStores
<1>3. \A q \in Shards : Len(rows[q]) \in Nat /\ Len(rows'[q]) \in Nat /\ Len(rows[q]) <= Len(rows'[q])
  <2>1. \A q \in Shards : Len(rows[q]) \in Nat
    BY <1>1 DEF LabTypeOK
  <2> HIDE DEF s
  <2> QED BY <1>2, <2>1
<1>4. f \in [Nat -> Nat] /\ g \in [Nat -> Nat] /\ \A k \in Nat : f[k] <= g[k]
  BY <1>1, <1>3 DEF Sizes
<1>5. /\ Stored = SumTo(f, setup.shards) /\ Stored' = SumTo(g, setup.shards)
      /\ \A n : UpTo(n) = SumTo(f, n) /\ UpTo(n)' = SumTo(g, n)
  BY <1>1 DEF Stored, UpTo
<1>6. setup.shards \in Nat /\ 0 \in Shards
  BY <1>1, SetupFits
<1> HIDE DEF f, g
<1>7. /\ \A n \in Nat : SumTo(f, n) \in Nat /\ SumTo(g, n) \in Nat
      /\ SumTo(f, 0) = 0 /\ SumTo(g, 0) = 0
  BY <1>4, SumStep
<1>8. \A n, m \in Nat : n <= m => SumTo(f, m) - SumTo(f, n) <= SumTo(g, m) - SumTo(g, n)
  BY <1>4, SumGrows
<1>9. \A n \in Nat : SumTo(f, n) <= SumTo(g, n)
  <2>1. ASSUME NEW n \in Nat PROVE SumTo(f, n) <= SumTo(g, n)
    <3>1. SumTo(f, n) - SumTo(f, 0) <= SumTo(g, n) - SumTo(g, 0)
      BY <1>8
    <3> QED BY <1>7, <3>1
  <2> QED BY <2>1
<1>10. \A n \in 0..setup.shards : n \in Nat /\ n <= setup.shards
  BY <1>6
<1> QED BY <1>3, <1>5, <1>6, <1>7, <1>8, <1>9, <1>10

\* The row is stored: it is its owner's, and everything stored before still is.
LEMMA CommitStep ==
  ASSUME LabIInv, NEW c \in Callers, Commit(c)
  PROVE  LabIInv'
<1> DEFINE s   == ShardFor(call[c].user)
           row == [id |-> call[c].id, user |-> call[c].user]
           new == [call[c] EXCEPT !.at = "answered", !.status = 201]
<1>1. LabTypeOK /\ RowsInv /\ CallInv(c) /\ call[c].at = "inserted" /\ call[c].kind = "create"
  BY DEF LabIInv, Commit, CallInv
<1>2. call[c] \in Calls /\ s \in Shards
  BY <1>1, CreatingCall
<1>3. /\ new.at = "answered" /\ new.status = 201 /\ new \in Calls /\ new.id = call[c].id
      /\ new.kind = "create" /\ new.user = call[c].user
      /\ new.told = call[c].told /\ new.there = call[c].there
  <2> DEFINE late == [call[c] EXCEPT !.at = "answered"]
  <2>1. late \in Calls /\ new = [late EXCEPT !.status = 201]
    BY <1>2 DEF Calls
  <2>2. [late EXCEPT !.status = 201] \in Calls
    <3> HIDE DEF late
    <3> QED BY <2>1, SMTT(30) DEF Calls
  <2> QED BY <1>1, <1>2, <2>1, <2>2 DEF Calls
<1>4. /\ call' = [call EXCEPT ![c] = new]
      /\ UNCHANGED <<setup, ids, copied>>
  BY <1>1 DEF Commit, Answer, LabTypeOK
<1>5. /\ row \in Tickets /\ row.user % setup.shards = s
      /\ row.id <= ids[s] /\ (\A t \in Range(rows[s]) : t.id # row.id)
      /\ rows' \in [Shards -> Seq(Tickets)]
      /\ Range(rows'[s]) = Range(rows[s]) \cup {row}
      /\ \A q \in Shards \ {s} : rows'[q] = rows[q]
  BY CommitStores
<1>6. row.id = call[c].id /\ row.user = call[c].user
  OBVIOUS
<1>7. /\ Shards' = Shards /\ Replicas' = Replicas /\ Pools' = Pools
      /\ \A u : ShardFor(u)' = ShardFor(u)
  BY <1>4 DEF Shards, Replicas, Pools, ShardFor
<1> HIDE DEF new, row, s
<1>8. /\ call' \in [Callers -> Calls] /\ call'[c] = new
      /\ \A d \in Callers \ {c} : call'[d] = call[d]
  BY <1>1, <1>3, <1>4 DEF LabTypeOK
<1>9. LabTypeOK'
  BY <1>1, <1>4, <1>5, <1>7, <1>8 DEF LabTypeOK
<1>10. \A q \in Shards : Range(rows[q]) \subseteq Range(rows'[q])
  BY <1>5
<1>11. \A i, u : There(i, u) => There(i, u)'
  BY <1>7, <1>10 DEF There
<1>12. /\ Stored \in Nat /\ Stored' \in Nat /\ Stored <= Stored'
       /\ \A n \in 0..setup.shards : /\ UpTo(n) \in Nat /\ UpTo(n)' \in Nat
                                     /\ UpTo(n) <= UpTo(n)'
                                     /\ Stored - UpTo(n) <= Stored' - UpTo(n)'
       /\ Len(rows[0]) \in Nat /\ Len(rows'[0]) \in Nat /\ Len(rows[0]) <= Len(rows'[0])
  BY <1>9, CommitCounts
<1>13. RowsInv'
  <2>1. ASSUME NEW q \in Shards, NEW t \in Range(rows'[q])
        PROVE  /\ t.user % setup.shards = q /\ t.id <= ids[q]
               /\ \A u \in Range(rows'[q]) : t.id = u.id => t = u
    <3>1. CASE q = s
      BY <1>1, <1>5, <2>1, <3>1 DEF RowsInv
    <3>2. CASE q # s
      BY <1>1, <1>5, <2>1, <3>2 DEF RowsInv
    <3> QED BY <3>1, <3>2
  <2>2. \A r \in Replicas : copied[r] <= Len(rows'[0])
    BY <1>1, <1>12 DEF RowsInv, LabTypeOK
  <2> QED BY <1>4, <1>7, <2>1, <2>2 DEF RowsInv
<1>14. ASSUME NEW d \in Callers \ {c}, call[d].at = "inserted" PROVE Unborn(d)'
  <2> DEFINE q == ShardFor(call[d].user)
  <2>1. Unborn(d) /\ q \in Shards
    BY <1>14, CreatingCall DEF LabIInv, CallInv
  <2>2. q = s => call[d].id # row.id
    BY <1>1, <1>6, <2>1 DEF Unborn, s
  <2>3. \A t \in Range(rows'[q]) : t.id # call[d].id
    BY <1>5, <2>1, <2>2 DEF Unborn
  <2>4. \A e \in Callers \ {d} : call'[e].at = "inserted" /\ ShardFor(call'[e].user) = q =>
          call'[e].id # call[d].id
    BY <1>3, <1>8, <2>1 DEF Unborn
  <2> QED BY <1>4, <1>7, <1>8, <2>1, <2>3, <2>4 DEF Unborn
<1>15. CallInv(c)'
  <2>1. call[c].told \in {0, 502}
    BY <1>1 DEF CallInv
  <2>2. row = [id |-> new.id, user |-> new.user] /\ s = ShardFor(new.user)
    BY <1>3 DEF row, s
  <2>3. row \in Range(rows'[s])
    BY <1>5
  <2>4. call[c].user # NoUser
    BY <1>1 DEF CallInv
  <2> QED BY <1>3, <1>7, <1>8, <2>1, <2>2, <2>3, <2>4 DEF CallInv
<1>16. ASSUME NEW d \in Callers \ {c} PROVE CallInv(d)'
  <2>1. CallInv(d) /\ call'[d] = call[d] /\ call[d] \in Calls
    BY <1>1, <1>8 DEF LabIInv, LabTypeOK
  <2>2. call[d].least \in Nat /\ call[d].total \in Nat /\ call[d].next \in Nat
    BY <2>1 DEF Calls
  <2>3. Counting(d) => Counting(d)'
    <3> SUFFICES ASSUME Counting(d) PROVE Counting(d)'
      OBVIOUS
    <3>1. call[d].next <= Pools
      BY DEF Counting
    <3>2. CASE Replicas = {}
      <4>1. PICK n \in 0..setup.shards : n = call[d].next
        BY <1>1, <2>2, <3>1, <3>2, SetupFits DEF Pools
      <4>2. call[d].total <= UpTo(n) /\ call[d].least <= call[d].total + (Stored - UpTo(n))
        BY <3>2, <4>1 DEF Counting
      <4>3. /\ UpTo(n) \in Nat /\ UpTo(n)' \in Nat /\ UpTo(n) <= UpTo(n)'
            /\ Stored - UpTo(n) <= Stored' - UpTo(n)'
        BY <1>12, <4>1
      <4>4. call[d].total <= UpTo(n)' /\ call[d].least <= call[d].total + (Stored' - UpTo(n)')
        <5>1. \A a, b, e, f, x, y \in Nat :
                a <= b /\ b <= e /\ x <= a + (f - b) /\ f - b <= y - e => a <= e /\ x <= a + (y - e)
          OBVIOUS
        <5>2. Stored \in Nat /\ Stored' \in Nat
          BY <1>12
        <5> QED BY <2>2, <4>2, <4>3, <5>1, <5>2
      <4>5. call'[d] = call[d] /\ call'[d].next = n
        BY <2>1, <4>1
      <4> QED BY <1>7, <3>1, <3>2, <4>1, <4>4, <4>5 DEF Counting
    <3>3. CASE Replicas # {}
      BY <1>4, <1>7, <1>12, <2>1, <2>2, <3>3 DEF Counting
    <3> QED BY <3>2, <3>3
  <2>4. ASSUME call[d].status = 201
        PROVE  /\ call[d].kind = "create"
               /\ [id |-> call[d].id, user |-> call[d].user] \in Range(rows'[ShardFor(call[d].user)])
    <3>1. call[d].kind = "create"
      BY <2>1, <2>4 DEF CallInv
    <3>2. ShardFor(call[d].user) \in Shards
      BY <3>1, CreatingCall
    <3> QED BY <1>10, <2>1, <2>4, <3>1, <3>2 DEF CallInv
  <2>5. call[d].total <= Stored => call[d].total <= Stored'
    BY <1>12, <2>2
  <2> QED BY <1>7, <1>11, <1>14, <2>1, <2>3, <2>4, <2>5 DEF CallInv
<1> QED BY <1>9, <1>13, <1>15, <1>16 DEF LabIInv

\* Every step of the laboratory keeps the invariant.
LEMMA LabStep == LabIInv /\ [LabNext]_labVars => LabIInv'
<1> SUFFICES ASSUME LabIInv, [LabNext]_labVars PROVE LabIInv'
  OBVIOUS
<1>1. ASSUME NEW c \in Callers, Call(c) PROVE LabIInv'
  BY <1>1, SendStep
<1>2. ASSUME NEW c \in Callers, Serve(c) PROVE LabIInv'
  BY <1>2, InsertStep, CommitStep, GetTicketStep, CountStep, CountedStep, FailStep DEF Serve
<1>3. ASSUME NEW c \in Callers, Forward(c) PROVE LabIInv'
  BY <1>3, ForwardStep
<1>4. ASSUME NEW r \in Replicas, Stream(r) PROVE LabIInv'
  BY <1>4, StreamStep
<1>5. CASE UNCHANGED labVars
  BY <1>5 DEF labVars, LabIInv, LabTypeOK, RowsInv, CallInv, Unborn, Counting, There, Shards,
              Replicas, Pools, Stored, UpTo, Sizes, ShardFor
<1> QED BY <1>1, <1>2, <1>3, <1>4, <1>5 DEF LabNext

\* The laboratory's invariant: its types, where tickets are, which ids are free,
\* and what a count still lacks, for any number of shards, replicas, users,
\* seeded tickets and callers.
THEOREM LabInvariant == LabSpec => []LabIInv
BY InitLab, LabStep, PTL DEF LabSpec

\* create_ticket's id names the new ticket and no other on its user's shard, and
\* get_ticket does not tell a user that a stored ticket of theirs is missing.
THEOREM OwnTicketIsFound == LabSpec => []OwnTicketFound
<1>1. LabIInv => OwnTicketFound
  <2> SUFFICES ASSUME LabIInv, NEW c \in Callers
               PROVE  /\ call[c].told = 201 =>
                           {t \in Range(rows[ShardFor(call[c].user)]) : t.id = call[c].id}
                             = {[id |-> call[c].id, user |-> call[c].user]}
                      /\ call[c].told = 404 => ~ call[c].there
    BY DEF OwnTicketFound
  <2>1. CallInv(c) /\ RowsInv
    BY DEF LabIInv
  <2>2. CASE call[c].told = 201
    <3> DEFINE row == [id |-> call[c].id, user |-> call[c].user]
               s   == ShardFor(call[c].user)
    <3>1. row \in Range(rows[s]) /\ call[c].kind = "create" /\ row.id = call[c].id
      BY <2>1, <2>2 DEF CallInv
    <3>2. s \in Shards
      BY <3>1, CreatingCall
    <3>3. \A t \in Range(rows[s]) : t.id = row.id => t = row
      BY <2>1, <3>1, <3>2 DEF RowsInv
    <3> QED BY <2>2, <3>1, <3>3
  <2>3. CASE call[c].told = 404
    BY <2>1, <2>3 DEF CallInv
  <2> QED BY <2>2, <2>3
<1> QED BY <1>1, LabInvariant, PTL

\* stats tells no less than there was in every database it may ask when it was
\* asked, and no more than there is.
THEOREM CountsAreInTime == LabSpec => []StatsInTime
<1>1. LabIInv => StatsInTime
  <2> SUFFICES ASSUME LabIInv, NEW c \in Callers, call[c].kind = "stats", call[c].told = 200
               PROVE  call[c].least <= call[c].total /\ call[c].total <= Stored
    BY DEF StatsInTime
  <2>1. CallInv(c)
    BY DEF LabIInv
  <2>2. call[c].status = 200
    BY <2>1 DEF CallInv
  <2> QED BY <2>1, <2>2 DEF CallInv
<1> QED BY <1>1, LabInvariant, PTL

=============================================================================
