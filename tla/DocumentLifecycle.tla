------------------------- MODULE DocumentLifecycle -------------------------
(***************************************************************************)
(* What the ingestion pipeline promises to the API's callers, with no      *)
(* workers, locks, attempts or files: an accepted document is pending      *)
(* until it is settled once, its passages appear together with "ready" and *)
(* exactly once, and an id is never used for a second document.            *)
(***************************************************************************)
EXTENDS Naturals

CONSTANT Ids

VARIABLES life,     \* "unused", "pending", "ready", "failed" or "gone"
          copies    \* how many times the document's passages can be found

vars == <<life, copies>>

Init == /\ life = [d \in Ids |-> "unused"]
        /\ copies = [d \in Ids |-> 0]

\* The upload is stored (202), or its id is lost with a refused insert.
Accept(d) ==
  /\ life[d] = "unused"
  /\ \E now \in {"pending", "gone"} : life' = [life EXCEPT ![d] = now]
  /\ UNCHANGED copies

Ready(d) ==
  /\ life[d] = "pending"
  /\ life' = [life EXCEPT ![d] = "ready"]
  /\ copies' = [copies EXCEPT ![d] = 1]

\* Several documents abandoned by dead workers are failed together.
FailTogether(S) ==
  /\ \A d \in S : life[d] = "pending"
  /\ life' = [d \in Ids |-> IF d \in S THEN "failed" ELSE life[d]]
  /\ UNCHANGED copies

Delete(d) ==
  /\ life[d] \in {"pending", "ready", "failed"}
  /\ life' = [life EXCEPT ![d] = "gone"]
  /\ copies' = [copies EXCEPT ![d] = 0]

Next ==
  \/ \E d \in Ids : Accept(d) \/ Ready(d) \/ Delete(d)
  \/ \E S \in SUBSET Ids : FailTogether(S)

Spec == Init /\ [][Next]_vars

\* Every accepted document is settled or deleted in the end.
Settles == \A d \in Ids : (life[d] = "pending") ~> (life[d] # "pending")

=============================================================================
