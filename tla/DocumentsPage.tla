--------------------------- MODULE DocumentsPage ---------------------------
(***************************************************************************)
(* The browser's list of documents (frontend/src/components/Documents.jsx) *)
(* over what the ingestion pipeline promises (DocumentLifecycle).  A list  *)
(* request is sent, evaluated by the API and applied to the screen, and    *)
(* several may be under way, so an older list can be applied last.         *)
(***************************************************************************)
EXTENDS Naturals, FiniteSets

CONSTANTS Documents,   \* ids, in the order of their uploads
          Requests,    \* bound: list requests under way at a time
          PageLimit,   \* the limit listDocuments asks for
          MaxUploads,  \* bound: uploads through this page
          MaxFaults    \* bound: requests that fail

VARIABLES life, copies,  \* of the documents, in the API
          request,       \* per request: idle, sent or answered, and its items
          shown,         \* the state `documents`: per document, what it shows
          uploading,     \* what upload() waits for: none, post, stored, refused
                         \* or refresh
          awaited,       \* the requests upload() waits for
          mine,          \* the documents uploaded through this page
          faults

server == <<life, copies>>
page   == <<request, shown, uploading, awaited, mine>>
vars   == <<server, page, faults>>

API == INSTANCE DocumentLifecycle WITH Ids <- Documents

Statuses == {"none", "pending", "ready", "failed"}
Nothing  == [d \in Documents |-> "none"]
Idle     == [at |-> "idle", items |-> Nothing]

PageTypeOK ==
  /\ request \in [Requests -> [at : {"idle", "sent", "answered"},
                               items : [Documents -> Statuses]]]
  /\ shown \in [Documents -> Statuses]
  /\ uploading \in {"none", "post", "stored", "refused", "refresh"}
  /\ awaited \subseteq Requests
  /\ mine \subseteq Documents
  /\ faults \in Nat

\* The page is mounted, and its first request is on its way.
PageInit ==
  /\ API!Init
  /\ LET r == CHOOSE r \in Requests : TRUE
     IN request = [q \in Requests |-> IF q = r THEN [Idle EXCEPT !.at = "sent"] ELSE Idle]
  /\ shown = Nothing
  /\ uploading = "none"
  /\ awaited = {}
  /\ mine = {}
  /\ faults = 0

Fault == faults < MaxFaults /\ faults' = faults + 1

---------------------------------------------------------------------------
(* The list.                                                               *)

Listed(d) == life[d] \in {"pending", "ready", "failed"}

\* The newest documents, as list_documents returns them.
Newest(d) == Listed(d) /\ Cardinality({e \in Documents : Listed(e) /\ e > d}) < PageLimit

List == [d \in Documents |-> IF Newest(d) THEN life[d] ELSE "none"]

Send(r) == request[r].at = "idle" /\ request' = [request EXCEPT ![r].at = "sent"]

\* Mutant of StillWorking: every instead of some.
StillWorkingAll == \A d \in Documents : shown[d] \in {"none", "pending"}

StillWorking == \E d \in Documents : shown[d] = "pending"

\* The timer of the second effect.
Poll(r) ==
  /\ StillWorking
  /\ Send(r)
  /\ UNCHANGED <<server, shown, uploading, awaited, mine, faults>>

Evaluate(r) ==
  /\ request[r].at = "sent"
  /\ request' = [request EXCEPT ![r] = [at |-> "answered", items |-> List]]
  /\ UNCHANGED <<server, shown, uploading, awaited, mine, faults>>

\* refresh() is over; an upload that waits for it is, too.
Finished(r) ==
  /\ request' = [request EXCEPT ![r] = Idle]
  /\ awaited' = awaited \ {r}
  /\ uploading' = IF r \in awaited THEN "none" ELSE uploading

Apply(r) ==
  /\ request[r].at = "answered"
  /\ shown' = request[r].items
  /\ Finished(r)
  /\ UNCHANGED <<server, mine, faults>>

\* An error status, or no answer: only a message is shown.
RefreshFails(r) ==
  /\ request[r].at # "idle"
  /\ Fault
  /\ Finished(r)
  /\ UNCHANGED <<server, shown, mine>>

---------------------------------------------------------------------------
(* Uploading.                                                              *)

\* The input is disabled while an upload is under way.
ChooseFile ==
  /\ uploading = "none"
  /\ Cardinality(mine) < MaxUploads
  /\ uploading' = "post"
  /\ UNCHANGED <<server, request, shown, awaited, mine, faults>>

\* Ids grow; 202, or the id is lost.
Store(d) == API!Accept(d) /\ \A e \in Documents : e < d => life[e] # "unused"

Post ==
  /\ uploading = "post"
  /\ \/ \E d \in Documents :
          /\ Store(d)
          /\ IF life'[d] = "pending"
             THEN uploading' = "stored" /\ mine' = mine \cup {d}
             ELSE uploading' = "refused" /\ UNCHANGED mine
     \/ uploading' = "refused" /\ UNCHANGED <<server, mine>>
  /\ UNCHANGED <<request, shown, awaited, faults>>

\* upload() goes on: it refreshes, or shows why not.
PostAnswered(r) ==
  /\ \/ uploading = "stored" /\ Send(r) /\ uploading' = "refresh" /\ awaited' = {r}
     \/ uploading = "refused" /\ uploading' = "none" /\ UNCHANGED <<request, awaited>>
  /\ UNCHANGED <<server, shown, mine, faults>>

\* The answer to the POST is lost, whether or not it had an effect.
PostFails ==
  /\ uploading \in {"post", "stored"}
  /\ Fault
  /\ uploading' = "none"
  /\ UNCHANGED <<server, request, shown, awaited, mine>>

\* Workers, deletes and other people's uploads.
Others ==
  /\ \/ \E d \in Documents : Store(d) \/ API!Ready(d) \/ API!Delete(d)
     \/ \E S \in SUBSET Documents \ {{}} : API!FailTogether(S)
  /\ UNCHANGED <<page, faults>>

PageNext ==
  \/ \E r \in Requests : Poll(r) \/ Evaluate(r) \/ Apply(r) \/ RefreshFails(r) \/ PostAnswered(r)
  \/ ChooseFile \/ Post \/ PostFails
  \/ Others

Settle(d) == (API!Ready(d) \/ API!FailTogether({d})) /\ UNCHANGED <<page, faults>>

\* The timer goes off, the browser and the API handle each request, and the
\* pipeline settles each document (Ingestion.EveryDocumentSettles).
PageSpec ==
  /\ PageInit /\ [][PageNext]_vars
  /\ WF_vars(Post)
  /\ WF_vars(\E r \in Requests : PostAnswered(r))
  /\ WF_vars(\E r \in Requests : Poll(r))
  /\ \A r \in Requests : WF_vars(Evaluate(r)) /\ WF_vars(Apply(r))
  /\ \A d \in Documents : WF_vars(Settle(d))

---------------------------------------------------------------------------

\* "Its status changes on screen by itself": what the screen shows as waiting
\* or being processed does not stay so for good, also when answers are late,
\* applied out of order or lost.
WaitingLeavesScreen == \A d \in Documents : (shown[d] = "pending") ~> (shown[d] # "pending")

\* The same of a document uploaded here: it does come to be shown as settled,
\* unless it was deleted or pushed off the page.
UploadSettlesOnScreen ==
  \A d \in Documents : (d \in mine) ~> (shown[d] \in {"ready", "failed"} \/ ~ Newest(d))

=============================================================================
