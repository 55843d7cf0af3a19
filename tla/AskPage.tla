------------------------------ MODULE AskPage ------------------------------
(***************************************************************************)
(* Asking in the browser (askStream of frontend/src/api.js and             *)
(* components/Ask.jsx): the API's lines reach the page in chunks that may  *)
(* end in the middle of a line, and each complete line changes what is on  *)
(* screen.  A line travels as two halves, the second has the newline.      *)
(* Where the question is:                                                  *)
(*   idle, request (before the status), stream, broken (the connection)    *)
(***************************************************************************)
EXTENDS Integers, Sequences, SequencesExt

CONSTANTS Words,         \* what text lines carry
          Blank,         \* the one of Words that is white space
          MaxLines,      \* bound: lines of an answer
          MaxQuestions,  \* bound: questions
          Declined       \* the message of a declined answer

VARIABLES place,      \* see above
          lines,      \* what the API has written for this question
          got,        \* halves the page has read
          screen,     \* the states answer, sources, note, error
          questions

askVars == <<place, lines, got, screen, questions>>

Line(type, content) == [type |-> type, text |-> content]

Events == [type : {"sources", "text", "done", "error"}, text : Seq(Words) \cup {Declined}]

Empty == [answer |-> <<>>, sources |-> FALSE, note |-> FALSE, error |-> FALSE]

AskTypeOK ==
  /\ place \in {"idle", "request", "stream", "broken"}
  /\ lines \in Seq(Events)
  /\ got \in 0..(2 * Len(lines))
  /\ screen.answer \in Seq(Words) \cup {Declined}
  /\ screen.sources \in BOOLEAN /\ screen.note \in BOOLEAN /\ screen.error \in BOOLEAN
  /\ questions \in Nat

AskInit ==
  /\ place = "idle"
  /\ lines = <<>>
  /\ got = 0
  /\ screen = Empty
  /\ questions = 0

---------------------------------------------------------------------------
(* The API, as router.lines writes an answer.                              *)

Over == lines # <<>> /\ Last(lines).type \in {"done", "error"}

\* The texts so far.
TextOf(ls) == FlattenSeq([i \in DOMAIN ls |-> IF ls[i].type = "text" THEN ls[i].text ELSE <<>>])

\* str.strip
Strip(text) ==
  LET solid == {i \in DOMAIN text : text[i] # Blank}
  IN IF solid = {} THEN <<>> ELSE SubSeq(text, Min(solid), Max(solid))

\* Sources first, then texts; the last line has the verdict, and the whole reply
\* without the white space around it.  Without sources there is only that line.
Writable(e) ==
  /\ ~ Over
  /\ CASE e.type = "sources" -> lines = <<>>
       [] e.type = "text"    -> lines # <<>> /\ Len(lines) < MaxLines
       [] e.type = "error"   -> lines # <<>>
       [] e.type = "done"    -> \/ e.text = Declined
                                \/ lines # <<>> /\ e.text = Strip(TextOf(lines))

Write ==
  /\ place = "stream"
  /\ \E e \in {Line("sources", <<>>), Line("error", <<>>), Line("done", Declined),
               Line("done", Strip(TextOf(lines)))} \cup {Line("text", <<w>>) : w \in Words} :
       Writable(e) /\ lines' = Append(lines, e)
  /\ UNCHANGED <<place, got, screen, questions>>

\* 200: sources are found and the model has begun, or there are none.
Opens ==
  /\ place = "request"
  /\ place' = "stream"
  /\ UNCHANGED <<lines, got, screen, questions>>

\* to_http_error gives every known error a status of its own, anything else is
\* 500; the page shows the error.
Refuses ==
  /\ place = "request"
  /\ place' = "idle"
  /\ screen' = [screen EXCEPT !.error = TRUE]
  /\ UNCHANGED <<lines, got, questions>>

Break ==
  /\ place = "stream"
  /\ place' = "broken"
  /\ UNCHANGED <<lines, got, screen, questions>>

---------------------------------------------------------------------------
(* The page.                                                               *)

Cleared == Empty

\* The button is disabled while the page is busy.
Ask ==
  /\ place = "idle"
  /\ questions < MaxQuestions
  /\ place' = "request"
  /\ questions' = questions + 1
  /\ lines' = <<>> /\ got' = 0
  /\ screen' = Cleared

Pick(first, last) == SubSeq(lines, first, last)

\* Mutant of Completed: the unfinished part of a chunk is not kept.
CompletedDropped(n) == Pick((got + 1) \div 2 + 1, n \div 2)

\* The lines whose newline is among the halves up to n, and was not before.
Completed(n) == Pick(got \div 2 + 1, n \div 2)

\* onEvent
Shown(s, e) ==
  CASE e.type = "sources" -> [s EXCEPT !.sources = TRUE]
    [] e.type = "text"    -> [s EXCEPT !.answer = @ \o e.text]
    [] e.type = "error"   -> [s EXCEPT !.error = TRUE]
    [] OTHER -> IF e.text = Declined THEN [s EXCEPT !.answer = Declined, !.note = TRUE] ELSE s

\* onEvent for one line after the other.
ShownAll(s, ls) ==
  LET after[k \in 0..Len(ls)] == IF k = 0 THEN s ELSE Shown(after[k - 1], ls[k])
  IN  after[Len(ls)]

\* reader.read returns some of what has arrived.
Read ==
  /\ place \in {"stream", "broken"}
  /\ \E n \in (got + 1)..(2 * Len(lines)) :
       got' = n /\ screen' = ShownAll(screen, Completed(n))
  /\ UNCHANGED <<place, lines, questions>>

\* The body ends, or reading it throws.
End ==
  /\ \/ place = "stream" /\ Over /\ got = 2 * Len(lines) /\ UNCHANGED screen
     \/ place = "broken" /\ screen' = [screen EXCEPT !.error = TRUE]
  /\ place' = "idle"
  /\ UNCHANGED <<lines, got, questions>>

AskNext == Ask \/ Opens \/ Refuses \/ Write \/ Break \/ Read \/ End

AskSpec == AskInit /\ [][AskNext]_askVars

---------------------------------------------------------------------------

\* When the page is done, it shows what became of the last question, and
\* nothing of the one before: the whole answer of the last line, but for white
\* space around it, and no note; or the message of a declined one instead of the
\* text it had begun to show; or an error; wherever the chunks were cut.
ScreenTellsOutcome ==
  place = "idle" /\ questions > 0 =>
    IF Over /\ got = 2 * Len(lines) /\ Last(lines).type = "done"
    THEN /\ IF Last(lines).text = Declined
            THEN screen.answer = Declined
            ELSE Strip(screen.answer) = Last(lines).text
         /\ screen.note = (Last(lines).text = Declined)
         /\ screen.sources = (lines[1].type = "sources")
    ELSE screen.error

=============================================================================
