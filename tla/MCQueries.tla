------------------------------ MODULE MCQueries ------------------------------
(***************************************************************************)
(* Small instances of Tickets, Knowledge and Laboratory, checked in one    *)
(* run: "part" says which of them a behaviour is about, and the others     *)
(* rest.                                                                   *)
(***************************************************************************)
EXTENDS Knowledge, Tickets, Laboratory, TLC

CONSTANTS s1, s2, s3, org, other, billing, old, new

VARIABLE part

all == <<part, vars, ticketVars, labVars>>

\* The steps of the lab.
MCSetups == {[shards |-> 1, replicas |-> 0], [shards |-> 1, replicas |-> 2],
             [shards |-> 2, replicas |-> 0]}

\* The callers of the laboratory have the names of the submissions.
MCSymmetry == Permutations(Submissions) \cup Permutations(Organizations)

TicketsRest ==
  /\ loaded
  /\ \A s \in Submissions : draft[s].organization = walk.organization
  /\ walk.label = Unset /\ walk.review = Unset

KnowledgeRests ==
  /\ serving = Null /\ search.mode = "keyword"
  /\ \A p \in DOMAIN setting : setting[p] = old
  /\ \A d \in Documents : status[d] = "absent" /\ owner[d] = search.organization

LaboratoryRests == setup.shards = 2

MCInit ==
  /\ part \in {"tickets", "knowledge", "laboratory"}
  /\ KnowledgeInit /\ (part # "knowledge" => KnowledgeRests)
  /\ TicketsInit /\ walk.organization = search.organization
  /\ (part # "tickets" => TicketsRest)
  /\ LabInit /\ (part # "laboratory" => LaboratoryRests)

MCNext ==
  \/ part = "tickets" /\ TicketsNext /\ UNCHANGED <<part, vars, labVars>>
  \/ part = "knowledge" /\ KnowledgeNext /\ UNCHANGED <<part, ticketVars, labVars>>
  \/ part = "laboratory" /\ LabNext /\ UNCHANGED <<part, vars, ticketVars>>

MCSpec == MCInit /\ [][MCNext]_all

=============================================================================
