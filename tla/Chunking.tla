------------------------------ MODULE Chunking ------------------------------
(***************************************************************************)
(* chunk_text (app/documents/chunking.py): one round of its loop is one    *)
(* action.  Positions count from 0, as in the code, and a passage is the   *)
(* text from its start up to, and without, its end.  Of a character only   *)
(* its kind matters.                                                       *)
(***************************************************************************)
EXTENDS Integers, Sequences

CONSTANTS Texts,     \* the extracted texts
          MaxChars,  \* chunk_max_chars
          Overlap    \* chunk_overlap_chars

Spaces     == {"space", "newline", "tab"}
Characters == Spaces \cup {"stop", "other"}

\* What chunk_text does not refuse.
ASSUME ChunkingAssumption ==
  /\ Texts \subseteq Seq(Characters)
  /\ MaxChars \in Nat \ {0}
  /\ Overlap \in Nat /\ Overlap < MaxChars \div 2

VARIABLES text, start, chunks, done

vars == <<text, start, chunks, done>>

Length == Len(text)

Init ==
  /\ text \in Texts
  /\ start = 0
  /\ chunks = <<>>
  /\ done = (text = <<>>)

---------------------------------------------------------------------------

\* isspace
Space(p) == text[p + 1] \in Spaces

\* The most natural break first.
Separators == << <<"newline", "newline">>, <<"stop", "space">>, <<"newline">>, <<"space">> >>

Limit == IF start + MaxChars < Length THEN start + MaxChars ELSE Length

WindowFloor == start + (Limit - start) \div 2

Found(s, p) ==
  /\ WindowFloor <= p /\ p + Len(Separators[s]) <= Limit
  /\ \A i \in 1..Len(Separators[s]) : text[p + i] = Separators[s][i]

Window == WindowFloor..(Limit - 1)

\* The last place of the best separator, or the limit if there is none.
BestBreak(end) ==
  \/ \E s \in 1..Len(Separators) :
       /\ Found(s, end - 1)
       /\ \A p \in Window : p >= end => ~ Found(s, p)
       /\ \A better \in 1..(s - 1), p \in Window : ~ Found(better, p)
  \/ /\ end = Limit
     /\ \A s \in 1..Len(Separators), p \in Window : ~ Found(s, p)

Ends(end) == IF Limit = Length THEN end = Length ELSE BestBreak(end)

\* The two trimming loops leave the text from first up to last.
Trimmed(end, first, last) ==
  /\ first <= last
  /\ \A p \in start..(first - 1) : Space(p)
  /\ first < end => ~ Space(first)
  /\ \A p \in last..(end - 1) : Space(p)
  /\ first < last => ~ Space(last - 1)

\* Mutant of BackFrom: no overlap.
BackFromNowhere(end) == end

BackFrom(end) == IF end - Overlap > start + 1 THEN end - Overlap ELSE start + 1

\* Mutant of NextStart: the search for a word does not stop at the break.
NextStartAnywhere(end, next) ==
  /\ BackFrom(end) <= next
  /\ Space(next - 1)
  /\ \A p \in BackFrom(end)..(next - 1) : ~ Space(p - 1)

\* Back by the overlap, then on to the start of a word.
NextStart(end, next) ==
  /\ BackFrom(end) <= next
  /\ next < end => Space(next - 1)
  /\ \A p \in BackFrom(end)..(next - 1) : p < end /\ ~ Space(p - 1)

Round ==
  /\ ~ done
  /\ \E end \in start..Length :
       /\ Ends(end)
       /\ \E first, last \in start..end :
            /\ Trimmed(end, first, last)
            /\ chunks' = IF first = last THEN chunks
                         ELSE Append(chunks, [start |-> first, end |-> last])
       /\ IF end >= Length
          THEN done' = TRUE /\ UNCHANGED start
          ELSE \E next \in 0..Length : NextStart(end, next) /\ start' = next /\ UNCHANGED done
  /\ UNCHANGED text

Spec == Init /\ [][Round]_vars

\* A loop of one thread.
FairSpec == Spec /\ WF_vars(Round)

---------------------------------------------------------------------------

\* A passage is never longer than chunk_max_chars, never empty, lies in the text
\* and neither begins nor ends with white space.
ChunksFit ==
  \A k \in 1..Len(chunks) :
    /\ 0 <= chunks[k].start /\ chunks[k].start < chunks[k].end /\ chunks[k].end <= Length
    /\ chunks[k].end - chunks[k].start <= MaxChars
    /\ ~ Space(chunks[k].start) /\ ~ Space(chunks[k].end - 1)

Inside(from, to) ==
  \E k \in 1..Len(chunks) : chunks[k].start <= from /\ to <= chunks[k].end

\* Every character that is not white space is in some passage (up to where the
\* loop has come), whatever was trimmed, cut or stepped over.
NothingLost ==
  \A p \in 0..(Length - 1) : (done \/ p < start) /\ ~ Space(p) => Inside(p, p + 1)

\* What starts with a word and is no longer than the overlap.
Phrase(from, to) ==
  /\ from < to /\ to - from <= Overlap
  /\ from = 0 \/ Space(from - 1)
  /\ ~ Space(from) /\ ~ Space(to - 1)

\* Whatever starts with a word and is no longer than the overlap is whole in one
\* of the passages, wherever the text is cut.  (config.py says it of "a sentence
\* cut at a boundary", of which a longer one may well be whole in none.)
PhrasesWhole ==
  \A from, to \in 0..Length :
    (done \/ from < start) /\ Phrase(from, to) => Inside(from, to)

\* Each round begins further on: "a long unbroken word is cut rather than
\* looping forever".
Advances == [][done' \/ start' > start]_vars

Terminates == <>done

---------------------------------------------------------------------------

TypeOK ==
  /\ text \in Seq(Characters)
  /\ start \in 0..Length
  /\ chunks \in Seq([start : Int, end : Int])
  /\ done \in BOOLEAN
  /\ ~ done => start < Length

\* The inductive invariant.
IInv == TypeOK /\ ChunksFit /\ NothingLost /\ PhrasesWhole

=============================================================================
