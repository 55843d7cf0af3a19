------------------------------ MODULE Answers ------------------------------
(***************************************************************************)
(* POST /answers and POST /answers/stream in the API (app/answers), over   *)
(* the model service.  A text is a sequence of tokens; RefusalEnd is the   *)
(* token that completes one of MODEL_DECLINES, Blank is white space.       *)
(* Where a question is in the API:                                         *)
(*   idle       not asked yet                                              *)
(*   calling    sources found, waiting for the service's status            *)
(*   unstarted  the response is returned, its generator not started        *)
(*   sources    suspended after the sources line                           *)
(*   reading    waiting for the model's next piece                         *)
(*   event      suspended after a text line                                *)
(*   over                                                                  *)
(***************************************************************************)
EXTENDS ModelService, SequencesExt, FiniteSetsExt

CONSTANTS HoldBack,     \* DECLINE_CHECK_CHARS
          RefusalEnd,
          Blank

\* What a text is made of.
Tokens == UNION {Range(p) : p \in Pieces}

ASSUME AnswersAssumption ==
  /\ HoldBack \in Nat \ {0}
  /\ RefusalEnd # Blank
  /\ Pieces \subseteq Seq(Tokens)

VARIABLES place,    \* per question, see above
          client,   \* is the user still connected?
          taken,    \* the pieces _events has read
          sent,     \* _events' flag: has text been sent?
          shown,    \* the text lines' text, as the client has it
          verdict,  \* what the user was told in the end
          answer    \* the final answer's text

answerVars == <<place, client, taken, sent, shown, verdict, answer>>
vars       == <<serviceView, answerVars>>

Verdicts == {"none", "answered", "declined", "sourceless", "busy",
             "unavailable", "error", "abandoned"}

Init ==
  /\ ServiceInit
  /\ place   = [c \in Calls |-> "idle"]
  /\ client  = [c \in Calls |-> "here"]
  /\ taken   = [c \in Calls |-> 0]
  /\ sent    = [c \in Calls |-> FALSE]
  /\ shown   = [c \in Calls |-> <<>>]
  /\ verdict = [c \in Calls |-> "none"]
  /\ answer  = [c \in Calls |-> <<>>]

---------------------------------------------------------------------------

Text(pieces) == FlattenSeq(pieces)

\* str.strip
Strip(text) ==
  LET solid == {i \in DOMAIN text : text[i] # Blank}
  IN IF solid = {} THEN <<>> ELSE SubSeq(text, Min(solid), Max(solid))

\* model_declined
Declined(text) == RefusalEnd \in Range(text)

\* What _events has read of the reply.
Reply(c, n) == Text(SubSeq(written[c], 1, n))

To(c, p) == place' = [place EXCEPT ![c] = p]
CloseConn(c) == conn' = [conn EXCEPT ![c] = "closed"]

Conclude(c, v) == To(c, "over") /\ verdict' = [verdict EXCEPT ![c] = v]

\* The verdict on a complete reply, for both endpoints.
Judge(c, text) ==
  /\ Conclude(c, IF Declined(text) THEN "declined" ELSE "answered")
  /\ answer' = [answer EXCEPT ![c] = IF Declined(text) THEN <<>> ELSE text]

\* retrieve found sources, and the call to the service is under way; or it
\* found none, or failed.
Ask(c) ==
  /\ place[c] = "idle"
  /\ \/ To(c, "calling") /\ Arrive(c) /\ UNCHANGED verdict
     \/ /\ \E v \in {"sourceless", "unavailable"} : Conclude(c, v)
        /\ UNCHANGED serviceView
  /\ UNCHANGED <<client, taken, sent, shown, answer>>

\* Mutant of Refused: a refused call is sent again.
RefusedRetries(c) ==
  /\ place[c] = "calling"
  /\ at[c] = "out"
  /\ response[c] \in {"busy", "unloaded", "500", "lost"}
  /\ Goes(c, "asked")
  /\ Responds(c, "none")
  /\ UNCHANGED <<loaded, inQueue, writer, kind, written, conn, restarts, answerVars>>

\* _check: every status but 200 closes the response and becomes a 503.
Refused(c) ==
  /\ place[c] = "calling"
  /\ at[c] = "out"
  /\ response[c] \in {"busy", "unloaded", "500", "lost"}
  /\ Conclude(c, IF response[c] = "busy" THEN "busy" ELSE "unavailable")
  /\ CloseConn(c)
  /\ UNCHANGED <<serviceVars, kind, client, taken, sent, shown, answer>>

\* AnswerService.answer
AnswerWhole(c) ==
  /\ place[c] = "calling"
  /\ at[c] = "out"
  /\ response[c] = "text"
  /\ Judge(c, Strip(Text(written[c])))
  /\ CloseConn(c)
  /\ UNCHANGED <<serviceVars, kind, client, taken, sent, shown>>

\* generate_stream returns as soon as the status is there.
OpenStream(c) ==
  /\ place[c] = "calling"
  /\ response[c] \in {"stream", "end", "error"}
  /\ To(c, "unstarted")
  /\ UNCHANGED <<serviceVars, kind, conn, client, taken, sent, shown, verdict, answer>>

\* The response asks the router's lines() for its next line.
Pull(c) ==
  /\ place[c] \in {"unstarted", "sources", "event"}
  /\ To(c, IF place[c] = "unstarted" THEN "sources" ELSE "reading")
  /\ UNCHANGED <<serviceVars, kind, conn, client, taken, sent, shown, verdict, answer>>

\* Mutant of MayShow: the start is held back, but not read.
MayShowUnread(reply) == Len(reply) >= HoldBack

\* The start of the reply is long enough, and no refusal.
MayShow(reply) == Len(reply) >= HoldBack /\ ~ Declined(reply)

\* _events reads a piece: it is shown, held back, or ends the answer.
ReadPiece(c) ==
  LET n     == taken[c] + 1
      reply == Reply(c, n)
      stop  == ~ sent[c] /\ Len(reply) >= HoldBack /\ ~ MayShow(reply)
  IN /\ place[c] = "reading"
     /\ n <= Len(written[c])
     /\ taken' = [taken EXCEPT ![c] = n]
     /\ \/ /\ sent[c] \/ MayShow(reply)
           /\ sent'  = [sent EXCEPT ![c] = TRUE]
           /\ shown' = [shown EXCEPT ![c] = IF sent[c] THEN @ \o written[c][n] ELSE reply]
           /\ To(c, "event")
           /\ UNCHANGED <<conn, verdict, answer>>
        \/ /\ ~ sent[c] /\ ~ MayShow(reply)
           /\ IF stop THEN Conclude(c, "declined") /\ CloseConn(c)
                      ELSE UNCHANGED <<place, verdict, conn>>
           /\ UNCHANGED <<sent, shown, answer>>
     /\ UNCHANGED <<serviceVars, kind, client>>

\* Mutant of JudgeStream: a reply that was shown counts as an answer.
JudgeUnsent(c, text) ==
  /\ Conclude(c, IF Declined(text) /\ ~ sent[c] THEN "declined" ELSE "answered")
  /\ answer' = [answer EXCEPT ![c] = text]

JudgeStream(c, text) == Judge(c, text)

\* The end of the reply: the text not sent yet, and the final event.
ReadEnd(c) ==
  LET reply == Strip(Reply(c, taken[c]))
  IN /\ place[c] = "reading"
     /\ taken[c] = Len(written[c])
     /\ response[c] = "end" /\ at[c] = "out"
     /\ JudgeStream(c, reply)
     /\ shown' = [shown EXCEPT ![c] = IF sent[c] \/ Declined(reply) THEN @ ELSE reply]
     /\ CloseConn(c)
     /\ UNCHANGED <<serviceVars, kind, client, taken, sent>>

\* The service's error line, or its connection breaks.
ReadError(c) ==
  /\ place[c] = "reading"
  /\ \/ response[c] = "error" /\ taken[c] = Len(written[c])
     \/ response[c] = "lost"
  /\ Conclude(c, "error")
  /\ CloseConn(c)
  /\ UNCHANGED <<serviceVars, kind, client, taken, sent, shown, answer>>

\* model_service_timeout_seconds pass without the next bytes.
Timeout(c) ==
  /\ place[c] \in {"calling", "reading"}
  /\ at[c] # "out"
  /\ taken[c] = Len(written[c]) \/ kind[c] = "whole"
  /\ Conclude(c, IF place[c] = "calling" THEN "unavailable" ELSE "error")
  /\ CloseConn(c)
  /\ UNCHANGED <<serviceVars, kind, client, taken, sent, shown, answer>>

Disconnect(c) ==
  /\ place[c] \notin {"idle", "over"}
  /\ client[c] = "here"
  /\ client' = [client EXCEPT ![c] = "gone"]
  /\ UNCHANGED <<serviceVars, kind, conn, place, taken, sent, shown, verdict, answer>>

\* Mutant of Abandon: the finally of _pieces is missing.
AbandonOpen(c) == UNCHANGED conn

\* Throwing lines() away closes the service's response only if _pieces was
\* started, that is once a piece has been asked for.
Abandon(c) ==
  IF place[c] = "event" THEN CloseConn(c) ELSE UNCHANGED conn

\* The user is gone, and the suspended generators are thrown away.
Collect(c) ==
  /\ client[c] = "gone"
  /\ place[c] \in {"unstarted", "sources", "event"}
  /\ Abandon(c)
  /\ Conclude(c, "abandoned")
  /\ UNCHANGED <<serviceVars, kind, client, taken, sent, shown, answer>>

\* What the API's threads do for a question, timeouts aside.
Handle(c) ==
  \/ Refused(c) \/ AnswerWhole(c) \/ OpenStream(c) \/ Pull(c)
  \/ ReadPiece(c) \/ ReadEnd(c) \/ ReadError(c) \/ Collect(c)

Next ==
  \/ \E c \in Calls : Ask(c) \/ Handle(c) \/ Timeout(c) \/ Disconnect(c)
  \/ ServiceStep /\ UNCHANGED answerVars

Spec == Init /\ [][Next]_vars

\* Both processes run their threads, and the lock is given to each of the few
\* calls that wait.  No user has to leave, and no timeout has to fire.
Fairness ==
  \A c \in Calls : /\ WF_vars(Handle(c))
                   /\ WF_vars(Serve(c) /\ UNCHANGED answerVars)

FairSpec == Spec /\ Fairness

TypeOK ==
  /\ ServiceTypeOK
  /\ place \in [Calls -> {"idle", "calling", "unstarted", "sources", "reading", "event", "over"}]
  /\ client \in [Calls -> {"here", "gone"}]
  /\ taken \in [Calls -> 0..MaxPieces]
  /\ sent \in [Calls -> BOOLEAN]
  /\ verdict \in [Calls -> Verdicts]
  /\ \A c \in Calls : shown[c] \in Seq(Tokens) /\ answer[c] \in Seq(Tokens)

---------------------------------------------------------------------------
(* Safety.                                                                 *)

\* "A refusal comes at the start of the reply, and it must never reach the
\* user as if it were an answer": a refusal within the first HoldBack tokens
\* never shows, however the model cuts its pieces.
RefusalHeldBack ==
  \A c \in Calls : shown[c] # <<>>
    => ~ Declined(SubSeq(Text(written[c]), 1, Min({HoldBack, Len(Text(written[c]))})))

\* "The final event has the last word": both endpoints call a reply answered
\* only if it holds no refusal, wherever it comes, and the model has come to its
\* end: one that broke off, or whose service was lost, is never an answer, also
\* if all of its text has been shown.  What was shown piece by piece is the
\* final answer.
VerdictFitsReply ==
  \A c \in Calls :
    /\ verdict[c] = "declined" => Declined(Text(written[c]))
    /\ verdict[c] = "answered" =>
         /\ ~ Declined(Text(written[c]))
         /\ response[c] \in {"end", "text"}
         /\ answer[c] = Strip(Text(written[c]))
         /\ kind[c] = "stream" => Strip(shown[c]) = answer[c]

\* An answer nobody reads any more gives its connection back, if the model
\* had been asked for a piece of it.
ReadStreamsClosed ==
  \A c \in Calls : place[c] = "over" /\ taken[c] > 0 => conn[c] = "closed"

\* generator.py, at the finally of _pieces: "Also runs when our own client
\* disconnects and this generator is closed".
ConnectionsClosed == \A c \in Calls : place[c] = "over" => conn[c] # "open"

\* The API uses the service as ModelService assumes of its callers.
UsesService == ServiceSpec

---------------------------------------------------------------------------
(* Liveness.                                                               *)

\* Every question comes to an end, and its place in the queue is free again,
\* whether users leave, the model fails or the service restarts.
EveryQuestionEnds ==
  \A c \in Calls : (place[c] # "idle") ~> (place[c] = "over" /\ at[c] = "out")

=============================================================================
