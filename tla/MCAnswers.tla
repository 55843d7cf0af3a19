----------------------------- MODULE MCAnswers -----------------------------
(***************************************************************************)
(* Two small instances of Answers, checked in one run: "part" says whether *)
(* a behaviour is about one question with any reply, or about questions    *)
(* that meet, with replies of at most one short piece.                     *)
(***************************************************************************)
EXTENDS Answers

CONSTANTS c1, c2, word, space, refusal

VARIABLE part

\* Pieces of one and two tokens, so that a piece can straddle the hold-back.
MCPieces == {<<word>>, <<space>>, <<refusal>>, <<word, refusal>>}

ShortReplies == {<<>>} \cup {<<p>> : p \in {<<word>>, <<refusal>>}}

MCInit ==
  /\ part \in {"one", "several"}
  /\ Init
  /\ part = "one" => \A c \in Calls \ {c1} : kind[c] = "whole"

OneQuestion == part = "one" /\ Next /\ \A c \in Calls \ {c1} : place'[c] = "idle"
Questions   == part = "several" /\ Next /\ \A c \in Calls : written'[c] \in ShortReplies

MCNext == (OneQuestion \/ Questions) /\ UNCHANGED part

MCSpec == MCInit /\ [][MCNext]_<<part, vars>> /\ Fairness

=============================================================================
