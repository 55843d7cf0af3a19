----------------------------- MODULE MCAccounts -----------------------------
(***************************************************************************)
(* Small instances of Registration and of Access, checked in one run:      *)
(* "part" says which of the two a behaviour is about, and the other one    *)
(* rests.                                                                  *)
(***************************************************************************)
EXTENDS Registration, Access, TLC

CONSTANTS r1, r2, r3, org, other, ada, Ada, bob, c1, c2, p1, p2

VARIABLE part

\* Two spellings of one address.
MCLower == [s \in Spellings |-> IF s = Ada THEN ada ELSE s]

MCSymmetry == Permutations(Clients) \cup Permutations(Passwords)

Resting == \A r \in Requests : name[r] = org /\ email[r] = ada

MCInit ==
  /\ part \in {"registration", "access"}
  /\ Init /\ AccessInit
  /\ part = "access" => Resting

MCNext ==
  \/ part = "registration" /\ Next /\ UNCHANGED <<part, accessVars>>
  \/ part = "access" /\ AccessNext /\ UNCHANGED <<part, vars>>

MCSpec == MCInit /\ [][MCNext]_<<part, vars, accessVars>>

=============================================================================
