----------------------------- MODULE TextsProofs -----------------------------
(***************************************************************************)
(* What chunk_text keeps, for every text and every size it accepts, and    *)
(* what the page that asks shows, for answers of any length cut by the     *)
(* connection anywhere.                                                    *)
(***************************************************************************)
EXTENDS Chunking, AskPage, Recursion, TLAPS

LEMMA InitHolds == Init => IInv
<1> SUFFICES ASSUME Init PROVE IInv
  OBVIOUS
<1>1. /\ text \in Texts /\ text \in Seq(Characters) /\ start = 0 /\ chunks = <<>>
      /\ done \in BOOLEAN /\ (done <=> text = <<>>)
  <2>1. text \in Texts /\ start = 0 /\ chunks = <<>> /\ done = (text = <<>>)
    BY DEF Init
  <2>2. text \in Seq(Characters)
    BY <2>1, ChunkingAssumption
  <2> QED BY <2>1, <2>2
<1>2. Length \in Nat /\ (done => Length = 0) /\ (~ done => Length > 0)
  BY <1>1 DEF Length
<1>3. TypeOK
  BY <1>1, <1>2 DEF TypeOK
<1>4. ChunksFit
  BY <1>1 DEF ChunksFit
<1>5. NothingLost
  BY <1>1, <1>2 DEF NothingLost
<1>6. PhrasesWhole
  BY <1>1, <1>2 DEF PhrasesWhole, Phrase
<1> QED BY <1>3, <1>4, <1>5, <1>6 DEF IInv

\* A break lies in the second half of the window, or is the end of the text.
LEMMA BreakInWindow ==
  ASSUME TypeOK, ~ done, NEW end \in start..Length, Ends(end)
  PROVE  /\ start < end /\ end <= start + MaxChars
         /\ end < Length => end > start + Overlap + 1
<1>1. start \in Nat /\ Length \in Nat /\ start < Length /\ end \in Nat
  BY ChunkingAssumption DEF TypeOK, Length
<1>2. /\ MaxChars \in Nat /\ Overlap \in Nat
      /\ Overlap + 1 <= MaxChars \div 2 /\ 2 * (MaxChars \div 2) <= MaxChars
      /\ MaxChars \div 2 \in Nat
  BY ChunkingAssumption
<1>3. CASE Limit = Length
  BY <1>1, <1>2, <1>3 DEF Ends, Limit
<1>4. CASE Limit # Length
  <2>1. Limit = start + MaxChars /\ Limit < Length
    BY <1>1, <1>2, <1>4 DEF Limit
  <2>2. Limit - start = MaxChars
    BY <1>1, <1>2, <2>1
  <2>3. WindowFloor = start + MaxChars \div 2
    BY <2>2 DEF WindowFloor
  <2>4. BestBreak(end)
    BY <1>4 DEF Ends
  <2>5. ASSUME NEW s \in 1..Len(Separators), Found(s, end - 1)
        PROVE  WindowFloor < end /\ end <= Limit
    <3>1. Len(Separators[s]) \in Nat /\ Len(Separators[s]) >= 1
      BY DEF Separators
    <3> QED BY <1>1, <1>2, <2>1, <2>3, <2>5, <3>1 DEF Found
  <2>6. WindowFloor < end /\ end <= Limit
    BY <1>1, <1>2, <2>1, <2>3, <2>4, <2>5 DEF BestBreak
  <2> QED BY <1>1, <1>2, <2>1, <2>3, <2>6
<1> QED BY <1>3, <1>4

LEMMA InInterval ==
  ASSUME NEW a \in Int, NEW b \in Nat, NEW n \in Nat, a <= n, n < b
  PROVE  n \in a..(b - 1)
OBVIOUS

\* One round, with what its loops found: the passage it adds, what it covers,
\* and where the next one starts.
LEMMA RoundHolds ==
  ASSUME IInv, Round
  PROVE  IInv' /\ (done' \/ start' > start)
<1>1. /\ TypeOK /\ ~ done /\ text' = text /\ Length' = Length
      /\ start \in Nat /\ Length \in Nat /\ start < Length
      /\ chunks \in Seq([start : Int, end : Int]) /\ done \in BOOLEAN
  BY ChunkingAssumption DEF IInv, TypeOK, Round, Length
<1>end. PICK end \in start..Length :
        /\ Ends(end)
        /\ \E first, last \in start..end :
             /\ Trimmed(end, first, last)
             /\ chunks' = IF first = last THEN chunks
                          ELSE Append(chunks, [start |-> first, end |-> last])
        /\ IF end >= Length
           THEN done' = TRUE /\ UNCHANGED start
           ELSE \E next \in 0..Length : NextStart(end, next) /\ start' = next /\ UNCHANGED done
  BY DEF Round
<1>2. PICK first \in start..end, last \in start..end :
        /\ Trimmed(end, first, last)
        /\ chunks' = IF first = last THEN chunks
                     ELSE Append(chunks, [start |-> first, end |-> last])
  BY <1>end
<1>3. /\ end \in Nat /\ first \in Nat /\ last \in Nat
      /\ start <= first /\ first <= last /\ last <= end /\ end <= Length
      /\ \A p \in start..(first - 1) : Space(p)
      /\ \A p \in last..(end - 1) : Space(p)
      /\ first < last => ~ Space(first) /\ ~ Space(last - 1)
  BY <1>1, <1>end, <1>2 DEF Trimmed
<1>4. /\ start < end /\ end <= start + MaxChars
      /\ end < Length => end > start + Overlap + 1
  BY <1>1, <1>end, BreakInWindow
<1>5. MaxChars \in Nat /\ Overlap \in Nat
  BY ChunkingAssumption
<1>6. \A p : Space(p)' <=> Space(p)
  BY <1>1 DEF Space
<1>7. /\ chunks' \in Seq([start : Int, end : Int])
      /\ Len(chunks') \in Nat /\ Len(chunks) \in Nat /\ Len(chunks) <= Len(chunks')
      /\ \A k \in 1..Len(chunks) : chunks'[k] = chunks[k]
      /\ \A k \in 1..Len(chunks') : k > Len(chunks) =>
           first < last /\ chunks'[k].start = first /\ chunks'[k].end = last
      /\ first < last => Len(chunks') = Len(chunks) + 1
  <2>1. CASE first = last
    BY <1>1, <1>2, <1>3, <2>1
  <2>2. CASE first # last
    <3> DEFINE new == [start |-> first, end |-> last]
    <3>1. new \in [start : Int, end : Int] /\ new.start = first /\ new.end = last
      BY <1>3
    <3>2. chunks' = Append(chunks, new) /\ first < last
      BY <1>2, <1>3, <2>2
    <3> HIDE DEF new
    <3>3. /\ chunks' \in Seq([start : Int, end : Int])
          /\ Len(chunks) \in Nat /\ Len(chunks') = Len(chunks) + 1
          /\ \A k \in 1..Len(chunks) : chunks'[k] = chunks[k]
          /\ chunks'[Len(chunks) + 1] = new
      BY <1>1, <3>1, <3>2
    <3>4. \A k \in 1..Len(chunks') : k > Len(chunks) => k = Len(chunks) + 1
      BY <3>3
    <3> QED BY <3>1, <3>2, <3>3, <3>4
  <2> QED BY <2>1, <2>2
<1>8. ASSUME NEW from \in Int, NEW to \in Int, Inside(from, to)
      PROVE  Inside(from, to)'
  <2>1. PICK k \in 1..Len(chunks) : chunks[k].start <= from /\ to <= chunks[k].end
    BY <1>8 DEF Inside
  <2>2. k \in 1..Len(chunks') /\ chunks'[k] = chunks[k]
    BY <1>7
  <2> QED BY <2>1, <2>2 DEF Inside
<1>9. ASSUME NEW from \in Nat, NEW to \in Nat, start <= from, from < to, to <= end,
             ~ Space(from), ~ Space(to - 1)
      PROVE  Inside(from, to)'
  <2>1. first <= from /\ to <= last
    BY <1>1, <1>3, <1>9
  <2>2. Len(chunks') \in 1..Len(chunks') /\ Len(chunks') > Len(chunks)
    BY <1>3, <1>7, <1>9, <2>1
  <2> QED BY <1>7, <2>1, <2>2 DEF Inside
<1>10. /\ done' \in BOOLEAN /\ start' \in 0..Length
       /\ done' \/ start' > start
       /\ ~ done' => start' < Length
       /\ done' => end = Length
       /\ ~ done' => /\ end < Length /\ start' <= end
                     /\ \A p \in BackFrom(end)..(start' - 1) : ~ Space(p - 1)
  <2>1. CASE end >= Length
    BY <1>1, <1>end, <1>3, <2>1
  <2>2. CASE end < Length
    <3>1. PICK next \in 0..Length : NextStart(end, next) /\ start' = next /\ done' = done
      BY <1>1, <1>end, <1>3, <2>2
    <3>2. ~ done' /\ done' \in BOOLEAN
      BY <1>1, <3>1
    <3>3. next \in Nat /\ BackFrom(end) <= next
      BY <1>1, <3>1 DEF NextStart
    <3>4. \A p \in BackFrom(end)..(next - 1) : p < end /\ ~ Space(p - 1)
      BY <3>1 DEF NextStart
    <3>5. BackFrom(end) > start /\ BackFrom(end) <= end /\ BackFrom(end) \in Int
      BY <1>1, <1>3, <1>4, <1>5 DEF BackFrom
    <3>6. next <= end
      <4> SUFFICES ASSUME next > end PROVE FALSE
        BY <1>3, <3>3
      <4>1. next - 1 \in BackFrom(end)..(next - 1) /\ next - 1 >= end /\ next - 1 \in Int
        BY <1>3, <3>3, <3>5
      <4> QED BY <1>3, <3>4, <4>1
    <3>7. next < Length /\ next > start
      BY <1>1, <1>3, <2>2, <3>3, <3>5, <3>6
    <3> QED BY <1>1, <2>2, <3>1, <3>2, <3>4, <3>6, <3>7
  <2> QED BY <1>1, <1>3, <2>1, <2>2
<1>11. TypeOK'
  BY <1>1, <1>7, <1>10 DEF TypeOK
<1>12. ChunksFit'
  <2> SUFFICES ASSUME NEW k \in 1..Len(chunks')
               PROVE  /\ 0 <= chunks'[k].start /\ chunks'[k].start < chunks'[k].end
                      /\ chunks'[k].end <= Length
                      /\ chunks'[k].end - chunks'[k].start <= MaxChars
                      /\ ~ Space(chunks'[k].start) /\ ~ Space(chunks'[k].end - 1)
    BY <1>1, <1>6 DEF ChunksFit
  <2>1. CASE k <= Len(chunks)
    <3>1. k \in 1..Len(chunks) /\ chunks'[k] = chunks[k]
      BY <1>7, <2>1
    <3> QED BY <3>1 DEF IInv, ChunksFit
  <2>2. CASE k > Len(chunks)
    <3>1. first < last /\ chunks'[k].start = first /\ chunks'[k].end = last
      BY <1>7, <2>2
    <3>2. /\ 0 <= first /\ last <= Length /\ last - first <= MaxChars
      BY <1>1, <1>3, <1>4, <1>5
    <3> QED BY <1>3, <3>1, <3>2
  <2> QED BY <1>7, <2>1, <2>2
<1>13. NothingLost'
  <2> SUFFICES ASSUME NEW p \in 0..(Length - 1), done' \/ p < start', ~ Space(p)
               PROVE  Inside(p, p + 1)'
    BY <1>1, <1>6 DEF NothingLost
  <2>1. CASE p < start
    <3>1. Inside(p, p + 1)
      BY <1>1, <2>1 DEF IInv, NothingLost
    <3> QED BY <1>8, <3>1
  <2>2. CASE p >= start
    <3>1. p + 1 <= end
      <4>1. CASE done'
        BY <1>1, <1>10, <4>1
      <4>2. CASE ~ done'
        <5>1. p < start' /\ start' <= end /\ start' \in Nat
          BY <1>1, <1>10, <4>2
        <5> QED BY <1>3, <5>1
      <4> QED BY <4>1, <4>2
    <3>2. (p + 1) - 1 = p
      OBVIOUS
    <3> QED BY <1>9, <2>2, <3>1, <3>2
  <2> QED BY <1>1, <2>1, <2>2
<1>14. PhrasesWhole'
  <2> SUFFICES ASSUME NEW from \in 0..Length, NEW to \in 0..Length,
                      done' \/ from < start', Phrase(from, to)
               PROVE  Inside(from, to)'
    BY <1>1, <1>6 DEF PhrasesWhole, Phrase
  <2>1. /\ from \in Nat /\ to \in Nat /\ from < to /\ to <= from + Overlap
        /\ from = 0 \/ Space(from - 1)
        /\ ~ Space(from) /\ ~ Space(to - 1)
    BY <1>1, <1>5 DEF Phrase
  <2>2. CASE from < start
    <3>1. Inside(from, to)
      BY <1>1, <2>2 DEF IInv, PhrasesWhole
    <3> QED BY <1>8, <3>1
  <2>3. CASE from >= start
    <3>1. to <= end
      <4>1. CASE done'
        BY <1>1, <1>10, <4>1
      <4>2. CASE ~ done'
        <5>1. end < Length /\ from < start' /\ start' \in Nat /\ start' <= end
          BY <1>1, <1>10, <4>2
        <5>2. BackFrom(end) = end - Overlap /\ BackFrom(end) > 0
          BY <1>1, <1>3, <1>4, <1>5, <5>1 DEF BackFrom
        <5>3. from < BackFrom(end)
          <6> SUFFICES ASSUME from >= BackFrom(end) PROVE FALSE
            BY <1>3, <1>5, <2>1, <5>2
          <6>1. from # 0 /\ from >= end - Overlap /\ end - Overlap \in Int
            BY <1>3, <1>5, <2>1, <5>2
          <6>2. from \in (end - Overlap)..(start' - 1)
            BY <2>1, <5>1, <6>1, InInterval
          <6>3. ~ Space(from - 1)
            BY <1>10, <4>2, <5>2, <6>2
          <6> QED BY <2>1, <6>1, <6>3
        <5> QED BY <1>3, <1>5, <2>1, <5>2, <5>3
      <4> QED BY <4>1, <4>2
    <3> QED BY <1>9, <2>1, <2>3, <3>1
  <2> QED BY <1>1, <2>1, <2>2, <2>3
<1> QED BY <1>10, <1>11, <1>12, <1>13, <1>14 DEF IInv

\* The inductive invariant of chunk_text's loop.
THEOREM Invariant == Spec => []IInv
<1>1. IInv /\ [Round]_vars => IInv'
  <2>1. ASSUME IInv, UNCHANGED vars PROVE IInv'
    BY <2>1 DEF IInv, TypeOK, ChunksFit, NothingLost, PhrasesWhole, Phrase, Inside,
                Space, Length, vars
  <2> QED BY <2>1, RoundHolds
<1> QED BY InitHolds, <1>1, PTL DEF Spec

\* No passage chunk_text returns is too long, empty or outside the text.
THEOREM ChunksAlwaysFit == Spec => []ChunksFit
<1>1. IInv => ChunksFit
  BY DEF IInv
<1> QED BY Invariant, <1>1, PTL

\* chunk_text loses no character but white space.
THEOREM TextIsCovered == Spec => []NothingLost
<1>1. IInv => NothingLost
  BY DEF IInv
<1> QED BY Invariant, <1>1, PTL

\* Whatever starts with a word and is no longer than the overlap is whole in
\* some passage, wherever chunk_text cuts.
THEOREM PhrasesStayWhole == Spec => []PhrasesWhole
<1>1. IInv => PhrasesWhole
  BY DEF IInv
<1> QED BY Invariant, <1>1, PTL

\* Each round of chunk_text begins further on in the text, so that there are
\* no more rounds than characters.
THEOREM LoopAdvances == Spec => Advances
<1>1. IInv /\ [Round]_vars => [done' \/ start' > start]_vars
  BY RoundHolds
<1> QED BY Invariant, <1>1, PTL DEF Spec, Advances

---------------------------------------------------------------------------
(* The page that asks.                                                     *)

\* Lines whose texts are texts.
TextLines == {e \in Events : e.type = "text" => e.text \in Seq(Words)}

First(n) == SubSeq(lines, 1, n)

\* Lines that are the answer's refusal.
Declines(e) == e.type = "done" /\ e.text = Declined

\* What the screen shows once the lines ls have been read.
View(ls) ==
  [answer  |-> IF ls # <<>> /\ Declines(ls[Len(ls)]) THEN Declined ELSE TextOf(ls),
   sources |-> ls # <<>> /\ ls[1].type = "sources",
   note    |-> ls # <<>> /\ Declines(ls[Len(ls)]),
   error   |-> ls # <<>> /\ ls[Len(ls)].type = "error"]

\* The order in which lines are written.
LineInv(i) ==
  /\ lines[i].type = "sources" => i = 1
  /\ lines[i].type = "text" => i > 1
  /\ lines[i].type = "error" => i > 1
  /\ lines[i].type \in {"done", "error"} => i = Len(lines)
  /\ lines[i].type = "done" /\ ~ Declines(lines[i]) =>
       i > 1 /\ lines[i].text = Strip(TextOf(First(i - 1)))

LinesInv == lines \in Seq(TextLines) /\ \A i \in 1..Len(lines) : LineInv(i)

\* While an answer comes in, the screen shows the lines read so far.
AskIInv ==
  /\ AskTypeOK
  /\ LinesInv
  /\ place = "request" => lines = <<>> /\ got = 0 /\ screen = Empty
  /\ place \in {"stream", "broken"} => screen = View(First(got \div 2))
  /\ ScreenTellsOutcome

---------------------------------------------------------------------------

\* What is left of a text without the white space around it is a text.
LEMMA StripIsText ==
  ASSUME NEW t \in Seq(Words)
  PROVE  Strip(t) \in Seq(Words)
<1> DEFINE solid == {i \in 1..Len(t) : t[i] # Blank}
<1>1. Strip(t) = IF solid = {} THEN <<>> ELSE SubSeq(t, Min(solid), Max(solid))
  <2>1. DOMAIN t = 1..Len(t)
    OBVIOUS
  <2> QED BY <2>1 DEF Strip
<1>2. CASE solid = {}
  <2>1. <<>> \in Seq(Words)
    OBVIOUS
  <2> HIDE DEF solid
  <2> QED BY <1>1, <1>2, <2>1
<1>3. CASE solid # {}
  <2>1. solid \in SUBSET Nat /\ Len(t) \in Nat /\ \A i \in solid : i \in 1..Len(t) /\ i <= Len(t)
    OBVIOUS
  <2> HIDE DEF solid
  <2>2. \E n \in solid : \A i \in solid : n <= i
    BY <1>3, <2>1, LeastNatural
  <2>3. \E n \in solid : \A i \in solid : i <= n
    BY <1>3, <2>1, GreatestNatural
  <2>4. Min(solid) \in 1..Len(t) /\ Max(solid) \in 1..Len(t)
    BY <2>1, <2>2, <2>3 DEF Min, Max
  <2>5. SubSeq(t, Min(solid), Max(solid)) \in Seq(Words)
    BY <2>4
  <2> QED BY <1>1, <1>3, <2>5
<1> QED BY <1>2, <1>3

\* The texts of the lines, one line after the other.
LEMMA JoinedGrows ==
  ASSUME NEW ls \in Seq(TextLines), NEW e \in TextLines
  PROVE  /\ TextOf(<<>>) = <<>>
         /\ TextOf(ls) \in Seq(Words)
         /\ TextOf(Append(ls, e)) = TextOf(ls) \o (IF e.type = "text" THEN e.text ELSE <<>>)
<1> DEFINE Of(x) == IF x.type = "text" THEN x.text ELSE <<>>
           T(s)  == [i \in 1..Len(s) |-> Of(s[i])]
           new   == Append(ls, e)
<1>1. \A x \in TextLines : Of(x) \in Seq(Words)
  BY DEF TextLines
<1> HIDE DEF Of
<1>2. new \in Seq(TextLines) /\ Len(new) = Len(ls) + 1 /\ Len(ls) \in Nat
      /\ new[Len(ls) + 1] = e /\ \A i \in 1..Len(ls) : new[i] = ls[i]
  <2>1. Len(ls) \in Nat
    OBVIOUS
  <2> QED BY <2>1, AppendProperties
<1>3. ASSUME NEW s \in Seq(TextLines) PROVE T(s) \in Seq(Seq(Words)) /\ TextOf(s) = FlattenSeq(T(s))
  <2>1. Len(s) \in Nat /\ DOMAIN s = 1..Len(s) /\ \A i \in 1..Len(s) : s[i] \in TextLines
    OBVIOUS
  <2>2. T(s) \in Seq(Seq(Words))
    BY <1>1, <2>1
  <2>3. TextOf(s) = FlattenSeq(T(s))
    BY <2>1 DEF TextOf, Of
  <2> QED BY <2>2, <2>3
<1>4. T(new) = Append(T(ls), Of(e))
  <2>1. T(ls) \in Seq(Seq(Words)) /\ T(new) \in Seq(Seq(Words)) /\ Of(e) \in Seq(Words)
    BY <1>1, <1>2, <1>3
  <2>2. Len(T(ls)) = Len(ls) /\ Len(T(new)) = Len(ls) + 1
    BY <1>2
  <2> DEFINE r == Append(T(ls), Of(e))
  <2>3. /\ r \in Seq(Seq(Words)) /\ Len(r) = Len(ls) + 1 /\ r[Len(ls) + 1] = Of(e)
        /\ \A i \in 1..Len(ls) : r[i] = T(ls)[i]
    <3> HIDE DEF T
    <3> QED BY <2>1, <2>2, AppendProperties
  <2> HIDE DEF r, new
  <2>4. \A i \in 1..(Len(ls) + 1) : T(new)[i] = r[i]
    <3> TAKE i \in 1..(Len(ls) + 1)
    <3>1. CASE i = Len(ls) + 1
      BY <1>2, <2>3, <3>1
    <3>2. CASE i # Len(ls) + 1
      <4>1. i \in 1..Len(ls)
        BY <1>2, <3>2
      <4> QED BY <1>2, <2>3, <4>1
    <3> QED BY <3>1, <3>2
  <2>5. T(new) = r
    <3> HIDE DEF T
    <3> QED BY <2>1, <2>2, <2>3, <2>4, SeqEqual
  <2> QED BY <2>5 DEF r
<1>5. TextOf(<<>>) = <<>>
  BY DEF TextOf, FlattenSeq
<1> HIDE DEF T
<1>6. TextOf(ls) \in Seq(Words) /\ TextOf(new) = TextOf(ls) \o Of(e)
  <2>1. T(ls) \in Seq(Seq(Words)) /\ TextOf(ls) = FlattenSeq(T(ls)) /\ Of(e) \in Seq(Words)
    BY <1>1, <1>3
  <2>2. TextOf(new) = FlattenSeq(T(new))
    <3> HIDE DEF new
    <3> QED BY <1>2, <1>3
  <2> HIDE DEF new
  <2> QED BY <1>4, <2>1, <2>2, FlattenAppend
<1> QED BY <1>5, <1>6 DEF Of

\* The first lines.
LEMMA FirstLines ==
  ASSUME LinesInv, NEW n \in 0..Len(lines)
  PROVE  /\ First(n) \in Seq(TextLines) /\ Len(First(n)) = n /\ Len(lines) \in Nat
         /\ \A i \in 1..n : First(n)[i] = lines[i]
         /\ n = Len(lines) => First(n) = lines
         /\ n < Len(lines) => /\ First(n + 1) = Append(First(n), lines[n + 1])
                              /\ lines[n + 1] \in TextLines
<1>1. lines \in Seq(TextLines) /\ Len(lines) \in Nat
  BY DEF LinesInv
<1>2. First(n) \in Seq(TextLines) /\ Len(First(n)) = n /\ \A i \in 1..n : First(n)[i] = lines[i]
  BY <1>1, SubSeqProperties DEF First
<1>3. n = Len(lines) => First(n) = lines
  BY <1>1, SubSeqFull DEF First
<1>4. n < Len(lines) => First(n + 1) = Append(First(n), lines[n + 1]) /\ lines[n + 1] \in TextLines
  BY <1>1 DEF First
<1> QED BY <1>1, <1>2, <1>3, <1>4

\* One more line changes the screen as onEvent does.
LEMMA ViewStep ==
  ASSUME LinesInv, NEW n \in Nat, n < Len(lines)
  PROVE  Shown(View(First(n)), lines[n + 1]) = View(First(n + 1))
<1> DEFINE e == lines[n + 1]
           a == First(n)
           b == First(n + 1)
<1>1. n \in 0..Len(lines) /\ n + 1 \in 1..Len(lines) /\ n + 1 \in 0..Len(lines) /\ Len(lines) \in Nat
  <2>1. Len(lines) \in Nat
    BY DEF LinesInv
  <2> QED BY <2>1
<1>2. /\ a \in Seq(TextLines) /\ Len(a) = n /\ e \in TextLines /\ b = Append(a, e)
      /\ \A i \in 1..n : a[i] = lines[i]
      /\ Len(b) = n + 1 /\ \A i \in 1..(n + 1) : b[i] = lines[i]
  BY <1>1, FirstLines
<1>3. LineInv(n + 1) /\ (n # 0 => LineInv(n) /\ LineInv(1))
  BY <1>1 DEF LinesInv
<1>4. TextOf(b) = TextOf(a) \o (IF e.type = "text" THEN e.text ELSE <<>>) /\ TextOf(a) \in Seq(Words)
  BY <1>2, JoinedGrows
<1>5. /\ b # <<>> /\ b[Len(b)] = e /\ b[1] = lines[1]
      /\ (a # <<>> <=> n # 0)
      /\ n # 0 => a[Len(a)] = lines[n] /\ a[1] = lines[1]
  <2>1. n # 0 => 1 \in 1..n /\ n \in 1..n
    OBVIOUS
  <2>2. 1 \in 1..(n + 1) /\ n + 1 \in 1..(n + 1)
    OBVIOUS
  <2>3. a # <<>> <=> n # 0
    BY <1>2
  <2>4. b # <<>>
    BY <1>2
  <2> HIDE DEF a, b
  <2> QED BY <1>2, <2>1, <2>2, <2>3, <2>4
<1>6. n # 0 => lines[n].type \notin {"done", "error"}
  BY <1>1, <1>3 DEF LineInv
<1>7. n # 0 => e.type # "sources"
  BY <1>3 DEF LineInv
<1>8. n = 0 => e.type \in {"sources", "done"} /\ lines[1] = e /\ (e.type = "done" => Declines(e))
  <2>1. e.type \in {"sources", "text", "done", "error"}
    BY <1>2 DEF TextLines, Events
  <2> QED BY <1>3, <2>1 DEF LineInv
<1>9. n # 0 => lines[1].type \in {"sources", "done"} /\ (lines[1].type = "done" => FALSE)
  <2>1. ASSUME n # 0 PROVE lines[1].type = "sources"
    <3>1. 1 \in 0..Len(lines) /\ lines[0 + 1] \in TextLines
      <4>1. 0 \in 0..Len(lines) /\ 0 < Len(lines)
        BY <1>1
      <4> QED BY <1>1, <4>1, FirstLines
    <3>2. lines[1].type \in {"sources", "text", "done", "error"}
      BY <3>1 DEF TextLines, Events
    <3>3. 1 # Len(lines)
      <4>1. n + 1 <= Len(lines)
        BY <1>1
      <4>2. \A m \in Nat : n + 1 <= m => 1 # m
        BY <2>1
      <4> QED BY <1>1, <4>1, <4>2
    <3> QED BY <1>3, <2>1, <3>2, <3>3 DEF LineInv
  <2> QED BY <2>1
<1> HIDE DEF a, b, e
<1>10. View(a) = [answer |-> TextOf(a), sources |-> n # 0, note |-> FALSE, error |-> FALSE]
  <2> DEFINE asked == n # 0
  <2>1. /\ ~ (a # <<>> /\ Declines(a[Len(a)]))
        /\ (a # <<>> /\ a[1].type = "sources") = asked
        /\ (a # <<>> /\ a[Len(a)].type = "error") = FALSE
    BY <1>5, <1>6, <1>9 DEF Declines
  <2>2. (a # <<>> /\ Declines(a[Len(a)])) = FALSE
    BY <2>1
  <2> HIDE DEF asked
  <2>3. View(a) = [answer |-> TextOf(a), sources |-> asked, note |-> FALSE, error |-> FALSE]
    BY <2>1, <2>2 DEF View
  <2> QED BY <2>3 DEF asked
<1>11. Shown(View(a), e) = View(b)
  <2>1. e.type \in {"sources", "text", "done", "error"}
    BY <1>2 DEF TextLines, Events
  <2>2. CASE e.type = "sources"
    <3>1. /\ ~ (b # <<>> /\ Declines(b[Len(b)])) /\ (b # <<>> /\ Declines(b[Len(b)])) = FALSE
          /\ (b # <<>> /\ b[1].type = "sources") = TRUE
          /\ (b # <<>> /\ b[Len(b)].type = "error") = FALSE
      BY <1>5, <1>7, <1>8, <2>2 DEF Declines
    <3>2. TextOf(b) = TextOf(a)
      BY <1>4, <2>2
    <3>3. View(b) = [answer |-> TextOf(a), sources |-> TRUE, note |-> FALSE, error |-> FALSE]
      BY <3>1, <3>2 DEF View
    <3>4. Shown(View(a), e) = [[answer |-> TextOf(a), sources |-> n # 0, note |-> FALSE,
                                error |-> FALSE] EXCEPT !.sources = TRUE]
      BY <1>10, <2>2 DEF Shown
    <3> QED BY <3>3, <3>4
  <2>3. CASE e.type = "text"
    <3>0. n # 0
      BY <1>8, <2>3
    <3>1. /\ ~ (b # <<>> /\ Declines(b[Len(b)])) /\ (b # <<>> /\ Declines(b[Len(b)])) = FALSE
          /\ (b # <<>> /\ b[1].type = "sources") = TRUE
          /\ (b # <<>> /\ b[Len(b)].type = "error") = FALSE
      BY <1>5, <1>9, <2>3, <3>0 DEF Declines
    <3>2. TextOf(b) = TextOf(a) \o e.text
      BY <1>4, <2>3
    <3>3. View(b) = [answer |-> TextOf(a) \o e.text, sources |-> TRUE, note |-> FALSE, error |-> FALSE]
      BY <3>1, <3>2 DEF View
    <3>4. View(a) = [answer |-> TextOf(a), sources |-> TRUE, note |-> FALSE, error |-> FALSE]
      BY <1>10, <3>0
    <3>5. Shown(View(a), e) = [[answer |-> TextOf(a), sources |-> TRUE, note |-> FALSE,
                                error |-> FALSE] EXCEPT !.answer = TextOf(a) \o e.text]
      BY <2>3, <3>4 DEF Shown
    <3> QED BY <3>3, <3>5
  <2>4. CASE e.type = "error"
    <3>0. n # 0
      BY <1>8, <2>4
    <3>1. /\ ~ (b # <<>> /\ Declines(b[Len(b)])) /\ (b # <<>> /\ Declines(b[Len(b)])) = FALSE
          /\ (b # <<>> /\ b[1].type = "sources") = TRUE
          /\ (b # <<>> /\ b[Len(b)].type = "error") = TRUE
      BY <1>5, <1>9, <2>4, <3>0 DEF Declines
    <3>2. TextOf(b) = TextOf(a)
      BY <1>4, <2>4
    <3>3. View(b) = [answer |-> TextOf(a), sources |-> TRUE, note |-> FALSE, error |-> TRUE]
      BY <3>1, <3>2 DEF View
    <3>4. View(a) = [answer |-> TextOf(a), sources |-> TRUE, note |-> FALSE, error |-> FALSE]
      BY <1>10, <3>0
    <3>5. Shown(View(a), e) = [[answer |-> TextOf(a), sources |-> TRUE, note |-> FALSE,
                                error |-> FALSE] EXCEPT !.error = TRUE]
      BY <2>4, <3>4 DEF Shown
    <3> QED BY <3>3, <3>5
  <2>5. CASE e.type = "done"
    <3> DEFINE asked == n # 0
    <3>1. /\ (b # <<>> /\ b[1].type = "sources") = asked
          /\ (b # <<>> /\ b[Len(b)].type = "error") = FALSE
      <4>1. CASE n = 0
        BY <1>5, <1>8, <2>5, <4>1
      <4>2. CASE n # 0
        BY <1>5, <1>9, <2>5, <4>2
      <4> QED BY <4>1, <4>2
    <3>2. TextOf(b) = TextOf(a)
      BY <1>4, <2>5
    <3>3. View(a) = [answer |-> TextOf(a), sources |-> asked, note |-> FALSE, error |-> FALSE]
      BY <1>10
    <3>4. CASE e.text = Declined
      <4>1. b # <<>> /\ Declines(b[Len(b)]) /\ (b # <<>> /\ Declines(b[Len(b)])) = TRUE
        BY <1>5, <2>5, <3>4 DEF Declines
      <4> HIDE DEF asked
      <4>2. View(b) = [answer |-> Declined, sources |-> asked, note |-> TRUE, error |-> FALSE]
        BY <3>1, <4>1 DEF View
      <4>3. Shown(View(a), e) = [[answer |-> TextOf(a), sources |-> asked, note |-> FALSE,
                                  error |-> FALSE] EXCEPT !.answer = Declined, !.note = TRUE]
        BY <2>5, <3>3, <3>4 DEF Shown
      <4> QED BY <4>2, <4>3
    <3>5. CASE e.text # Declined
      <4>1. ~ (b # <<>> /\ Declines(b[Len(b)])) /\ (b # <<>> /\ Declines(b[Len(b)])) = FALSE
        BY <1>5, <2>5, <3>5 DEF Declines
      <4> HIDE DEF asked
      <4>2. View(b) = [answer |-> TextOf(a), sources |-> asked, note |-> FALSE, error |-> FALSE]
        BY <3>1, <3>2, <4>1 DEF View
      <4>3. Shown(View(a), e) = View(a)
        BY <2>5, <3>5 DEF Shown
      <4> QED BY <3>3, <4>2, <4>3
    <3> QED BY <3>4, <3>5
  <2> QED BY <2>1, <2>2, <2>3, <2>4, <2>5
<1> QED BY <1>11 DEF a, b, e

\* However many lines a chunk completes.
LEMMA ChunkShown ==
  ASSUME LinesInv, NEW a \in Nat, NEW b \in Nat, a <= b, b <= Len(lines)
  PROVE  ShownAll(View(First(a)), SubSeq(lines, a + 1, b)) = View(First(b))
<1> DEFINE n == b - a
           ls == SubSeq(lines, a + 1, b)
           base == View(First(a))
           IsAfter(f) == f = [k \in 0..n |-> IF k = 0 THEN base ELSE Shown(f[k - 1], ls[k])]
           after == CHOOSE f : IsAfter(f)
<1>1. /\ lines \in Seq(TextLines) /\ Len(lines) \in Nat /\ n \in Nat
      /\ Len(ls) = n /\ \A k \in 1..n : ls[k] = lines[a + k]
  <2>1. lines \in Seq(TextLines) /\ Len(lines) \in Nat
    BY DEF LinesInv
  <2>2. n \in Nat
    OBVIOUS
  <2>3. Len(ls) = n
    BY <2>1, <2>2
  <2>4. ASSUME NEW k \in 1..n PROVE ls[k] = lines[a + k]
    <3>1. (a + 1) + k - 1 = a + k /\ k \in 1..(b - (a + 1) + 1)
      BY <2>2
    <3>2. a + 1 \in 1..(Len(lines) + 1) /\ b \in a..Len(lines) /\ (a + 1) - 1 = a
      BY <2>1
    <3>3. ls[k] = lines[(a + 1) + k - 1]
      BY <2>1, <3>1, <3>2, SubSeqProperties
    <3> QED BY <3>1, <3>3
  <2> QED BY <2>1, <2>2, <2>3, <2>4
<1>2. ShownAll(base, ls) = after[n]
  <2> HIDE DEF base, ls, n
  <2> QED BY <1>1 DEF ShownAll
<1> HIDE DEF ls
<1>3. \A k \in 1..n : k - 1 \in 0..n /\ Shown(View(First(a + (k - 1))), ls[k]) = View(First(a + k))
  <2> TAKE k \in 1..n
  <2>1. /\ a + (k - 1) \in Nat /\ a + (k - 1) < Len(lines) /\ (a + (k - 1)) + 1 = a + k
        /\ k - 1 \in 0..n
    BY <1>1
  <2> QED BY <1>1, <2>1, ViewStep
<1>4. IsAfter([k \in 0..n |-> View(First(a + k))])
  <2> DEFINE g == [k \in 0..n |-> View(First(a + k))]
  <2>1. View(First(a + 0)) = base
    OBVIOUS
  <2>2. \A k \in 0..n : g[k] = IF k = 0 THEN base ELSE Shown(g[k - 1], ls[k])
    <3> TAKE k \in 0..n
    <3>1. CASE k = 0
      BY <2>1, <3>1
    <3>2. CASE k # 0
      <4>1. k \in 1..n
        BY <1>1, <3>2
      <4>2. k - 1 \in 0..n /\ g[k - 1] = View(First(a + (k - 1))) /\ g[k] = View(First(a + k))
        BY <1>3, <4>1
      <4> QED BY <1>3, <3>2, <4>1, <4>2
    <3> QED BY <3>1, <3>2
  <2>3. g = [k \in 0..n |-> IF k = 0 THEN base ELSE Shown(g[k - 1], ls[k])]
    <3> HIDE DEF base, n
    <3>1. g = [k \in 0..n |-> g[k]]
      OBVIOUS
    <3> HIDE DEF g
    <3> QED BY <2>2, <3>1
  <2> QED BY <2>3
<1>5. IsAfter(after)
  <2> HIDE DEF IsAfter
  <2> QED BY <1>4
<1> HIDE DEF after, n
<1>6. after[0] = base /\ \A k \in 1..n : after[k] = Shown(after[k - 1], ls[k])
  <2>1. 0 \in 0..n /\ \A k \in 1..n : k \in 0..n /\ k # 0
    BY <1>1
  <2> HIDE DEF base
  <2> QED BY <1>5, <2>1
<1> DEFINE S == {k \in Nat : k <= n => after[k] = View(First(a + k))}
<1>7. 0 \in S
  BY <1>6
<1>8. ASSUME NEW k \in S PROVE k + 1 \in S
  <2>1. k \in Nat /\ (k <= n => after[k] = View(First(a + k)))
    BY <1>8
  <2>2. ASSUME k + 1 <= n PROVE after[k + 1] = View(First(a + (k + 1)))
    <3>1. k + 1 \in 1..n /\ (k + 1) - 1 = k /\ after[k] = View(First(a + k))
      <4> HIDE DEF S
      <4> QED BY <1>1, <2>1, <2>2
    <3>2. after[k + 1] = Shown(after[k], ls[k + 1])
      BY <1>6, <3>1
    <3>3. Shown(View(First(a + k)), ls[k + 1]) = View(First(a + (k + 1)))
      BY <1>3, <3>1
    <3> QED BY <3>1, <3>2, <3>3
  <2> QED BY <2>1, <2>2
<1>9. S = Nat
  <2> HIDE DEF S
  <2>1. S \in SUBSET Nat BY DEF S
  <2> QED BY <1>7, <1>8, <2>1, InductiveSet
<1>10. after[n] = View(First(a + n)) /\ a + n = b
  <2>1. n \in S
    <3> HIDE DEF S
    <3> QED BY <1>1, <1>9
  <2>2. n <= n /\ a + n = b
    BY <1>1 DEF n
  <2> QED BY <2>1, <2>2
<1> QED BY <1>2, <1>10 DEF ls

\* The half of what is read, in whole lines.
LEMMA WholeLines ==
  ASSUME NEW m \in Nat, NEW n \in Nat, n <= 2 * m
  PROVE  n \div 2 \in 0..m /\ (n = 2 * m => n \div 2 = m)
OBVIOUS

\* A line more.
LEMMA WriteKeeps ==
  ASSUME AskIInv, Write
  PROVE  AskIInv'
<1>1. AskTypeOK /\ LinesInv /\ place = "stream" /\ screen = View(First(got \div 2))
  BY DEF AskIInv, Write
<1>2. UNCHANGED <<place, got, screen, questions>>
  BY DEF Write
<1>3. lines \in Seq(TextLines) /\ Len(lines) \in Nat /\ First(Len(lines)) = lines
  <2>1. lines \in Seq(TextLines) /\ Len(lines) \in Nat
    BY <1>1 DEF LinesInv
  <2> QED BY <2>1, SubSeqFull DEF First
<1>4. TextOf(lines) \in Seq(Words) /\ TextOf(<<>>) = <<>>
  <2>1. Line("sources", <<>>) \in TextLines
    BY DEF Line, TextLines, Events
  <2> QED BY <1>3, <2>1, JoinedGrows
<1>5. PICK e \in TextLines :
        /\ lines' = Append(lines, e)
        /\ ~ Over
        /\ e.type = "sources" => lines = <<>>
        /\ e.type \in {"text", "error"} => lines # <<>>
        /\ e.type = "done" /\ e.text # Declined => lines # <<>> /\ e.text = Strip(TextOf(lines))
  <2>1. PICK e \in {Line("sources", <<>>), Line("error", <<>>), Line("done", Declined),
                    Line("done", Strip(TextOf(lines)))} \cup {Line("text", <<w>>) : w \in Words} :
          Writable(e) /\ lines' = Append(lines, e)
    BY DEF Write
  <2>2. e \in TextLines
    <3>1. ASSUME NEW t \in {"sources", "text", "done", "error"}, NEW x \in Seq(Words)
          PROVE  Line(t, x) \in TextLines
      BY <3>1 DEF Line, TextLines, Events
    <3>2. Line("done", Declined) \in TextLines
      BY DEF Line, TextLines, Events
    <3>3. <<>> \in Seq(Words) /\ \A w \in Words : <<w>> \in Seq(Words)
      OBVIOUS
    <3>4. Strip(TextOf(lines)) \in Seq(Words)
      BY <1>4, StripIsText
    <3> QED BY <2>1, <3>1, <3>2, <3>3, <3>4
  <2>3. e.type \in {"sources", "text", "done", "error"}
    BY <2>2 DEF TextLines, Events
  <2>4. /\ ~ Over
        /\ e.type = "sources" => lines = <<>>
        /\ e.type \in {"text", "error"} => lines # <<>>
        /\ e.type = "done" /\ e.text # Declined => lines # <<>> /\ e.text = Strip(TextOf(lines))
    <3>1. CASE e.type = "sources" BY <2>1, <3>1 DEF Writable
    <3>2. CASE e.type = "text"    BY <2>1, <3>2 DEF Writable
    <3>3. CASE e.type = "error"   BY <2>1, <3>3 DEF Writable
    <3>4. CASE e.type = "done"    BY <2>1, <3>4 DEF Writable
    <3> QED BY <2>3, <3>1, <3>2, <3>3, <3>4
  <2> QED BY <2>1, <2>2, <2>4
<1>6. /\ lines' \in Seq(TextLines) /\ Len(lines') = Len(lines) + 1 /\ lines'[Len(lines) + 1] = e
      /\ \A i \in 1..Len(lines) : lines'[i] = lines[i]
  BY <1>3, <1>5, AppendProperties
<1>7. \A n \in 0..Len(lines) : First(n)' = First(n)
  <2> TAKE n \in 0..Len(lines)
  <2>1. SubSeq(lines', 1, n) = SubSeq(lines, 1, n)
    BY <1>3, <1>5, <1>6
  <2> QED BY <2>1 DEF First
<1>8. LinesInv'
  <2>1. ASSUME NEW i \in 1..Len(lines) PROVE LineInv(i)'
    <3>1. lines[i].type \notin {"done", "error"}
      <4>1. CASE i = Len(lines)
        BY <1>3, <1>5, <2>1, <4>1 DEF Over, Last
      <4>2. CASE i # Len(lines)
        BY <1>1, <2>1, <4>2 DEF LinesInv, LineInv
      <4> QED BY <4>1, <4>2
    <3>2. lines'[i] = lines[i] /\ LineInv(i)
      BY <1>1, <1>6, <2>1 DEF LinesInv
    <3> QED BY <3>1, <3>2 DEF LineInv
  <2>2. ASSUME NEW n \in Nat, n = Len(lines) + 1 PROVE LineInv(n)'
    <3>1. lines'[n] = e /\ n = Len(lines')
      BY <1>6, <2>2
    <3>2. (e.type = "sources" => n = 1) /\ (lines # <<>> => n > 1)
      BY <1>3, <1>5, <2>2
    <3>3. First(n - 1)' = lines
      <4>1. n - 1 = Len(lines)
        BY <1>3, <2>2
      <4>2. SubSeq(lines', 1, Len(lines)) = lines
        BY <1>3, <1>5, <1>6
      <4> QED BY <4>1, <4>2 DEF First
    <3>4. Strip(TextOf(First(n - 1)))' = Strip(TextOf(lines))
      BY <3>3 DEF TextOf, Strip
    <3>5. /\ lines'[n].type = "sources" => n = 1
          /\ lines'[n].type \in {"text", "error"} => n > 1
          /\ lines'[n].type = "done" /\ lines'[n].text # Declined =>
               n > 1 /\ lines'[n].text = Strip(TextOf(First(n - 1)))'
      BY <1>5, <3>1, <3>2, <3>4
    <3> QED BY <3>1, <3>5 DEF LineInv, Declines, Strip
  <2>3. Len(lines) + 1 \in Nat /\ \A i \in 1..Len(lines') : i \in 1..Len(lines) \/ i = Len(lines) + 1
    BY <1>3, <1>6
  <2>4. \A i \in 1..Len(lines') : LineInv(i)'
    BY <2>1, <2>2, <2>3
  <2> QED BY <1>6, <2>4 DEF LinesInv
<1>9. AskTypeOK'
  <2>1. got \in 0..(2 * Len(lines')) /\ lines' \in Seq(Events)
    <3>1. TextLines \subseteq Events
      BY DEF TextLines
    <3>2. lines' \in Seq(Events)
      BY <1>6, <3>1, SeqMonotonic
    <3> QED BY <1>1, <1>3, <1>6, <3>2 DEF AskTypeOK
  <2> QED BY <1>1, <1>2, <2>1 DEF AskTypeOK
<1>10. screen' = View(First(got \div 2))'
  <2>1. got \div 2 \in 0..Len(lines)
    BY <1>1, <1>3, WholeLines DEF AskTypeOK
  <2>2. First(got \div 2)' = First(got \div 2)
    <3> DEFINE m == got \div 2
    <3>1. m \in 0..Len(lines) /\ got' = got
      BY <1>2, <2>1
    <3>2. SubSeq(lines', 1, m) = SubSeq(lines, 1, m)
      <4> HIDE DEF m
      <4> QED BY <1>3, <1>5, <1>6, <3>1
    <3> QED BY <1>2, <3>2 DEF First
  <2> QED BY <1>1, <1>2, <2>2 DEF View, TextOf
<1> QED BY <1>1, <1>2, <1>8, <1>9, <1>10 DEF AskIInv, ScreenTellsOutcome

\* Part of what has arrived is read.
LEMMA ReadKeeps ==
  ASSUME AskIInv, Read
  PROVE  AskIInv'
<1>1. /\ AskTypeOK /\ LinesInv /\ place \in {"stream", "broken"}
      /\ screen = View(First(got \div 2))
  BY DEF AskIInv, Read
<1>2. PICK n \in (got + 1)..(2 * Len(lines)) :
        got' = n /\ screen' = ShownAll(screen, SubSeq(lines, got \div 2 + 1, n \div 2))
  BY DEF Read, Completed, Pick
<1>3. /\ got \in Nat /\ n \in Nat /\ got <= n /\ n <= 2 * Len(lines) /\ Len(lines) \in Nat
      /\ got <= 2 * Len(lines)
  <2>1. got \in 0..(2 * Len(lines)) /\ Len(lines) \in Nat
    BY <1>1 DEF AskTypeOK, LinesInv
  <2> QED BY <1>2, <2>1
<1>4. UNCHANGED <<place, lines, questions>>
  BY DEF Read
<1> DEFINE a == got \div 2
           b == n \div 2
<1>5. a \in 0..Len(lines) /\ b \in 0..Len(lines) /\ a <= b
  BY <1>3
<1>6. screen' = View(First(b))
  <2> HIDE DEF b
  <2>1. ShownAll(View(First(a)), SubSeq(lines, a + 1, b)) = View(First(b))
    <3> HIDE DEF a
    <3> QED BY <1>1, <1>5, ChunkShown DEF LinesInv
  <2> QED BY <1>1, <1>2, <2>1 DEF b
<1>7. View(First(b)) = View(First(got \div 2))'
  BY <1>2, <1>4 DEF View, First, TextOf, Declines
<1>8. LinesInv'
  BY <1>1, <1>4 DEF LinesInv, LineInv, Declines, TextOf, First
<1>9. AskTypeOK'
  <2>1. /\ View(First(b)).answer \in Seq(Words) \cup {Declined}
        /\ View(First(b)).sources \in BOOLEAN
        /\ View(First(b)).note \in BOOLEAN
        /\ View(First(b)).error \in BOOLEAN
    <3>1. Line("sources", <<>>) \in TextLines
      BY DEF Line, TextLines, Events
    <3>2. First(b) \in Seq(TextLines)
      BY <1>1, <1>5, FirstLines
    <3>3. TextOf(First(b)) \in Seq(Words)
      BY <3>1, <3>2, JoinedGrows
    <3> HIDE DEF b
    <3>4. View(First(b)).answer \in {Declined, TextOf(First(b))}
      BY DEF View
    <3>5. /\ View(First(b)).sources \in BOOLEAN
          /\ View(First(b)).note \in BOOLEAN
          /\ View(First(b)).error \in BOOLEAN
      BY DEF View, Declines
    <3> QED BY <3>3, <3>4, <3>5
  <2>2. got' \in 0..(2 * Len(lines'))
    BY <1>2, <1>3, <1>4
  <2> HIDE DEF b
  <2> QED BY <1>1, <1>4, <1>6, <2>1, <2>2 DEF AskTypeOK
<1>10. ScreenTellsOutcome'
  BY <1>1, <1>4 DEF ScreenTellsOutcome
<1>11. screen' = View(First(got \div 2))'
  BY <1>6, <1>7
<1> QED BY <1>1, <1>4, <1>8, <1>9, <1>10, <1>11 DEF AskIInv

\* The answer ends: the last line has been shown, or the page has an error.
LEMMA EndKeeps ==
  ASSUME AskIInv, End
  PROVE  AskIInv'
<1>1. AskTypeOK /\ LinesInv /\ UNCHANGED <<lines, got, questions>> /\ place' = "idle"
  BY DEF AskIInv, End
<1>2. LinesInv'
  BY <1>1 DEF LinesInv, LineInv, Declines, TextOf, First
<1>3. Len(lines) \in Nat /\ got \in 0..(2 * Len(lines))
  BY <1>1 DEF AskTypeOK, LinesInv
<1>4. place \in {"stream", "broken"} /\ screen = View(First(got \div 2))
  BY DEF End, AskIInv
<1>5. ASSUME Over, got = 2 * Len(lines), lines[Len(lines)].type = "done"
      PROVE  /\ IF lines[Len(lines)].text = Declined
                THEN screen.answer = Declined
                ELSE Strip(screen.answer) = lines[Len(lines)].text
             /\ screen.note = (lines[Len(lines)].text = Declined)
             /\ screen.sources = (lines[1].type = "sources")
  <2>1. First(got \div 2) = lines /\ lines # <<>>
    <3>1. got \div 2 = Len(lines) /\ Len(lines) \in 0..Len(lines)
      BY <1>3, <1>5, WholeLines
    <3> QED BY <1>1, <1>5, <3>1, FirstLines DEF Over
  <2> DEFINE k == Len(lines)
             e == lines[k]
  <2>2. k \in 1..Len(lines) /\ LineInv(k)
    <3>1. k # 0
      BY <1>1, <2>1 DEF LinesInv
    <3> QED BY <1>1, <1>3, <3>1 DEF LinesInv
  <2>3. Declines(e) <=> e.text = Declined
    BY <1>5 DEF Declines
  <2>4. ~ Declines(e) => e.text = Strip(TextOf(lines))
    <3>1. SUFFICES ASSUME ~ Declines(e) PROVE e.text = Strip(TextOf(lines))
      OBVIOUS
    <3>2. k > 1 /\ e.text = Strip(TextOf(First(k - 1)))
      BY <1>5, <2>2, <3>1 DEF LineInv
    <3>3. k - 1 \in 0..Len(lines) /\ k - 1 < Len(lines) /\ (k - 1) + 1 = k
      BY <1>3, <3>2
    <3>4. First(k) = Append(First(k - 1), lines[k]) /\ lines[k] \in TextLines /\ First(k - 1) \in Seq(TextLines)
      <4>1. ASSUME NEW m \in 0..Len(lines), m < Len(lines), m + 1 = k
            PROVE  First(k) = Append(First(m), lines[k]) /\ lines[k] \in TextLines /\ First(m) \in Seq(TextLines)
        <5> HIDE DEF k
        <5> QED BY <1>1, <4>1, FirstLines
      <4> DEFINE j == k - 1
      <4>2. j \in 0..Len(lines) /\ j < Len(lines) /\ j + 1 = k
        BY <3>3
      <4>3. First(k) = Append(First(j), lines[k]) /\ lines[k] \in TextLines /\ First(j) \in Seq(TextLines)
        <5> HIDE DEF j, k
        <5> QED BY <4>1, <4>2
      <4> QED BY <4>3
    <3>5. First(k) = lines
      <4>1. Len(lines) \in 0..Len(lines)
        BY <1>3
      <4> QED BY <1>1, <4>1, FirstLines
    <3>6. TextOf(lines) = TextOf(First(k - 1)) \o <<>> /\ TextOf(First(k - 1)) \in Seq(Words)
      <4> HIDE DEF k
      <4>1. lines[k].type # "text"
        BY <1>5 DEF k
      <4> QED BY <3>4, <3>5, <4>1, JoinedGrows
    <3> QED BY <3>2, <3>6, ConcatEmptySeq
  <2>5. screen = View(lines)
    BY <1>4, <2>1
  <2> HIDE DEF e
  <2>6. IF e.text = Declined THEN screen.answer = Declined ELSE Strip(screen.answer) = e.text
    BY <2>1, <2>3, <2>4, <2>5 DEF View, e
  <2>7. screen.note = (e.text = Declined) /\ screen.sources = (lines[1].type = "sources")
    BY <2>1, <2>3, <2>5 DEF View, e
  <2> QED BY <2>6, <2>7 DEF e
<1>6. ASSUME place = "stream" PROVE Over /\ got = 2 * Len(lines) /\ UNCHANGED screen
  BY <1>6 DEF End
<1>7. ASSUME place = "stream", lines[Len(lines)].type # "done" PROVE screen.error
  <2>1. First(got \div 2) = lines /\ lines # <<>> /\ lines[Len(lines)].type = "error"
    <3>1. got \div 2 = Len(lines) /\ Len(lines) \in 0..Len(lines)
      BY <1>3, <1>6, <1>7, WholeLines
    <3> QED BY <1>1, <1>6, <1>7, <3>1, FirstLines DEF Over, Last
  <2> QED BY <1>4, <2>1 DEF View
<1>8. AskTypeOK'
  <2>1. screen' = screen \/ screen' = [screen EXCEPT !.error = TRUE]
    BY DEF End
  <2>2. /\ screen'.answer = screen.answer /\ screen'.note = screen.note
        /\ screen'.sources = screen.sources /\ screen'.error \in BOOLEAN
    BY <1>1, <1>4, <2>1 DEF View, AskTypeOK
  <2> QED BY <1>1, <2>2 DEF AskTypeOK
<1>9. ScreenTellsOutcome'
  <2>1. CASE place = "stream"
    BY <1>1, <1>5, <1>6, <1>7, <2>1 DEF ScreenTellsOutcome, Over, Last
  <2>2. CASE place = "broken"
    <3>1. screen' = [screen EXCEPT !.error = TRUE]
      BY <2>2 DEF End
    <3>2. /\ screen'.answer = screen.answer /\ screen'.note = screen.note
          /\ screen'.sources = screen.sources /\ screen'.error = TRUE
      BY <1>4, <3>1 DEF View
    <3> QED BY <1>1, <1>5, <3>2 DEF ScreenTellsOutcome, Over, Last
  <2> QED BY <1>4, <2>1, <2>2
<1> QED BY <1>1, <1>2, <1>8, <1>9 DEF AskIInv

\* Every step keeps the invariant.
LEMMA AskStep == AskIInv /\ [AskNext]_askVars => AskIInv'
<1> SUFFICES ASSUME AskIInv, [AskNext]_askVars PROVE AskIInv'
  OBVIOUS
<1>1. CASE UNCHANGED askVars
  BY <1>1 DEF askVars, AskIInv, AskTypeOK, LinesInv, LineInv, Declines, TextOf, First, View,
              ScreenTellsOutcome, Over, Last
<1>2. CASE Ask
  <2>1. /\ place' = "request" /\ lines' = <<>> /\ got' = 0 /\ screen' = Empty
        /\ questions' \in Nat
    BY <1>2 DEF Ask, Cleared, AskIInv, AskTypeOK
  <2>2. LinesInv'
    BY <2>1 DEF LinesInv
  <2>3. AskTypeOK'
    BY <2>1 DEF AskTypeOK, Empty
  <2> QED BY <2>1, <2>2, <2>3 DEF AskIInv, ScreenTellsOutcome
<1>3. CASE Opens
  <2>1. /\ place' = "stream" /\ UNCHANGED <<lines, got, screen, questions>>
        /\ lines = <<>> /\ got = 0 /\ screen = Empty
    BY <1>3 DEF Opens, AskIInv
  <2>2. LinesInv' /\ AskTypeOK'
    BY <2>1 DEF AskIInv, LinesInv, AskTypeOK
  <2>3. screen' = View(First(got \div 2))'
    <3>1. got' \div 2 = 0 /\ SubSeq(lines', 1, 0) = <<>>
      BY <2>1
    <3>2. First(got \div 2)' = <<>>
      BY <3>1 DEF First
    <3>3. TextOf(<<>>) = <<>>
      BY DEF TextOf, FlattenSeq
    <3>4. View(<<>>) = Empty
      BY <3>3 DEF View, Empty
    <3>5. View(First(got \div 2))' = View(<<>>)
      BY <3>2 DEF View, TextOf
    <3> QED BY <2>1, <3>4, <3>5
  <2> QED BY <2>1, <2>2, <2>3 DEF AskIInv, ScreenTellsOutcome
<1>4. CASE Refuses
  <2>1. /\ place' = "idle" /\ UNCHANGED <<lines, got, questions>> /\ lines = <<>>
        /\ screen' = [screen EXCEPT !.error = TRUE] /\ screen = Empty
    BY <1>4 DEF Refuses, AskIInv
  <2>2. LinesInv' /\ AskTypeOK' /\ screen'.error = TRUE
    BY <2>1 DEF AskIInv, LinesInv, AskTypeOK, Empty
  <2> QED BY <2>1, <2>2 DEF AskIInv, ScreenTellsOutcome, Over
<1>5. CASE Break
  <2>1. place' = "broken" /\ UNCHANGED <<lines, got, screen, questions>> /\ place = "stream"
    BY <1>5 DEF Break
  <2> QED BY <2>1 DEF AskIInv, AskTypeOK, LinesInv, LineInv, Declines, TextOf, First, View,
                      ScreenTellsOutcome
<1> QED BY <1>1, <1>2, <1>3, <1>4, <1>5, WriteKeeps, ReadKeeps, EndKeeps DEF AskNext

\* The invariant is inductive.
THEOREM AskInvariant == AskSpec => []AskIInv
<1>1. AskInit => AskIInv
  <2> SUFFICES ASSUME AskInit PROVE AskIInv
    OBVIOUS
  <2>1. place = "idle" /\ lines = <<>> /\ got = 0 /\ screen = Empty /\ questions = 0
    BY DEF AskInit
  <2>2. AskTypeOK
    BY <2>1 DEF AskTypeOK, Empty
  <2> QED BY <2>1, <2>2 DEF AskIInv, LinesInv, ScreenTellsOutcome
<1> QED BY <1>1, AskStep, PTL DEF AskSpec

\* A page that is done shows what became of the last question, however the
\* connection cuts its lines and however long the answer is.
THEOREM ScreenIsRight == AskSpec => []ScreenTellsOutcome
<1>1. AskIInv => ScreenTellsOutcome
  BY DEF AskIInv
<1> QED BY <1>1, AskInvariant, PTL

==============================================================================
