---------------------------- MODULE MCIngestion ----------------------------
(***************************************************************************)
(* Small instances of Ingestion for TLC.                                   *)
(***************************************************************************)
EXTENDS Ingestion, TLC

CONSTANTS w1, w2, r1, r2, good, long, bad, org, other

MCSymmetry == Permutations(Workers) \cup Permutations(Requests) \cup Permutations(Orgs)
              \cup Permutations(Contents \ Unreadable)

=============================================================================
