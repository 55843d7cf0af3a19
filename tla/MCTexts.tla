------------------------------- MODULE MCTexts -------------------------------
(***************************************************************************)
(* Small instances of Chunking and of the two pages of the browser,        *)
(* AskPage and DocumentsPage, checked in one run: "part" says which of     *)
(* them a behaviour is about, and the others rest.  Chunking gets texts    *)
(* such as Extraction leaves.                                              *)
(***************************************************************************)
EXTENDS Chunking, AskPage, Extraction

CONSTANTS MaxLength,  \* bound: of the texts
          Alphabets,  \* bound: sets of characters, each text is over one of them
          word, space, q1, q2,
          Documents, Requests, PageLimit, MaxUploads, MaxFaults

VARIABLES part,
          life, copies, request, shown, uploading, awaited, mine, faults

paging == <<life, copies, request, shown, uploading, awaited, mine, faults>>
all    == <<part, vars, askVars, paging>>

D == INSTANCE DocumentsPage

MCRaws  == SeqOf({"nul", "cr", "newline", "space", "other"}, 5)
MCPages == {<<>>, <<"space">>, <<"other">>, <<"space", "other">>, <<"other", "cr">>}

\* The empty text is among them: chunk_text can be called without extraction.
MCTextsOf == UNION {{t \in SeqOf(Kinds, MaxLength) : Normalized(t)} : Kinds \in Alphabets}

Chunk       == part = "chunking" /\ Round /\ UNCHANGED <<part, askVars, paging>>
Question    == part = "asking" /\ AskNext /\ UNCHANGED <<part, vars, paging>>
Paging(Act) == part = "documents" /\ Act /\ UNCHANGED <<part, vars, askVars>>

MCInit ==
  /\ part \in {"chunking", "asking", "documents"}
  /\ Init /\ (part # "chunking" => done)
  /\ AskInit
  /\ D!PageInit

MCNext == Chunk \/ Question \/ Paging(D!PageNext)

\* The fairness of Chunking!FairSpec and of DocumentsPage!PageSpec.
MCSpec ==
  /\ MCInit /\ [][MCNext]_all
  /\ WF_all(Chunk)
  /\ WF_all(Paging(D!Post))
  /\ WF_all(Paging(\E r \in Requests : D!PostAnswered(r)))
  /\ WF_all(Paging(\E r \in Requests : D!Poll(r)))
  /\ \A r \in Requests : WF_all(Paging(D!Evaluate(r))) /\ WF_all(Paging(D!Apply(r)))
  /\ \A d \in Documents : WF_all(Paging(D!Settle(d)))

---------------------------------------------------------------------------

\* DocumentsPage: no document is shown as being processed for good.
WaitingLeavesScreen == D!WaitingLeavesScreen

=============================================================================
