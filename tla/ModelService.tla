---------------------------- MODULE ModelService ----------------------------
(***************************************************************************)
(* The model service (app/model_service): at most MaxQueue answers may run *)
(* or wait, and _generation_lock lets one of them use the model.           *)
(* Where a call is on the service's side:                                  *)
(*   out       not arrived, or its handler and its generator are finished  *)
(*   asked     arrived, before the two checks                              *)
(*   primed    lines() is suspended at its first yield                     *)
(*   waiting   a thread waits for _generation_lock                         *)
(*   writing   a thread holds the lock and the model writes                *)
(*   paused    lines() is suspended after a piece, the lock still held     *)
(*   failed    lines() is suspended after the error line                   *)
(*   leaving   in the finally block, the lock already released             *)
(* Whatever the caller has to read of a streamed answer fits the socket's  *)
(* buffers (answer_max_tokens is 200), so sending never blocks.            *)
(***************************************************************************)
EXTENDS Naturals, Sequences, FiniteSets

CONSTANTS Calls,        \* bound: the questions that reach the service
          MaxQueue,     \* model_max_queue
          Pieces,       \* what the model can write at a time
          MaxPieces,    \* bound: pieces per answer, for max_tokens
          MaxRestarts,  \* bound: restarts of the service
          NoCall        \* nobody holds _generation_lock

ASSUME ServiceAssumption ==
  /\ MaxQueue \in Nat \ {0}
  /\ MaxPieces \in Nat
  /\ MaxRestarts \in Nat
  /\ NoCall \notin Calls
  /\ IsFiniteSet(Calls)

VARIABLES loaded,    \* _model is not None
          inQueue,   \* _in_queue
          writer,    \* who holds _generation_lock
          at,        \* per call, see above
          kind,      \* per call, /generate or /generate/stream
          written,   \* per call, the pieces the model has written
          response,  \* per call, what its caller has been told
          conn,      \* per call, the caller's connection
          restarts   \* restarts so far

callState   == <<at, written, response>>
serviceVars == <<loaded, inQueue, writer, callState, restarts>>

Inside == {"primed", "waiting", "writing", "paused", "failed", "leaving"}

\* "stream": 200 and lines to come; "lost": the connection broke.
Responses == {"none", "busy", "unloaded", "stream", "text", "end", "error", "500", "lost"}

ServiceTypeOK ==
  /\ loaded \in BOOLEAN
  /\ inQueue \in Nat
  /\ writer \in Calls \cup {NoCall}
  /\ at \in [Calls -> Inside \cup {"out", "asked"}]
  /\ kind \in [Calls -> {"whole", "stream"}]
  /\ written \in [Calls -> Seq(Pieces)]
  /\ response \in [Calls -> Responses]
  /\ conn \in [Calls -> {"none", "open", "closed"}]
  /\ restarts \in Nat

ServiceInit ==
  /\ loaded \in BOOLEAN
  /\ inQueue = 0
  /\ writer = NoCall
  /\ at = [c \in Calls |-> "out"]
  /\ kind \in [Calls -> {"whole", "stream"}]
  /\ written = [c \in Calls |-> <<>>]
  /\ response = [c \in Calls |-> "none"]
  /\ conn = [c \in Calls |-> "none"]
  /\ restarts = 0

Goes(c, place)   == at' = [at EXCEPT ![c] = place]
Responds(c, res) == response' = [response EXCEPT ![c] = res]

---------------------------------------------------------------------------

Full == inQueue >= MaxQueue

\* Where a call with a place begins: generate waits for the lock,
\* generate_stream runs lines() up to its first yield.
Begin(c) ==
  /\ inQueue' = inQueue + 1
  /\ IF kind[c] = "stream" THEN Goes(c, "primed") /\ Responds(c, "stream")
                           ELSE Goes(c, "waiting") /\ UNCHANGED response

\* The handler of both endpoints: is_loaded, then enter_queue.
Enter(c) ==
  /\ at[c] = "asked"
  /\ \/ loaded /\ ~ Full /\ Begin(c)
     \/ /\ ~ loaded \/ Full
        /\ Responds(c, IF loaded THEN "busy" ELSE "unloaded")
        /\ Goes(c, "out")
        /\ UNCHANGED inQueue
  /\ UNCHANGED <<loaded, writer, kind, written, conn, restarts>>

\* The response asks lines() for its next line.
NextLine(c) ==
  /\ at[c] \in {"primed", "paused", "failed"}
  /\ Goes(c, CASE at[c] = "primed" -> "waiting"
               [] at[c] = "paused" -> "writing"
               [] at[c] = "failed" -> "leaving")
  /\ UNCHANGED <<loaded, inQueue, writer, kind, written, response, conn, restarts>>

TakeLock(c) ==
  /\ at[c] = "waiting"
  /\ writer = NoCall
  /\ writer' = c
  /\ Goes(c, "writing")
  /\ UNCHANGED <<loaded, inQueue, kind, written, response, conn, restarts>>

WritePiece(c) ==
  /\ at[c] = "writing"
  /\ Len(written[c]) < MaxPieces
  /\ \E p \in Pieces : written' = [written EXCEPT ![c] = Append(@, p)]
  /\ IF kind[c] = "stream" THEN Goes(c, "paused") ELSE UNCHANGED at
  /\ UNCHANGED <<loaded, inQueue, writer, kind, response, conn, restarts>>

\* The model has finished: the lock is released before leave_queue runs, and
\* the caller learns of it only after that.
WriteEnd(c) ==
  /\ at[c] = "writing"
  /\ writer' = NoCall
  /\ Goes(c, "leaving")
  /\ Responds(c, IF kind[c] = "stream" THEN "end" ELSE "text")
  /\ UNCHANGED <<loaded, inQueue, kind, written, conn, restarts>>

\* llama.cpp raises: an error line in a stream, a 500 for a whole answer.
WriteFails(c) ==
  /\ at[c] = "writing"
  /\ writer' = NoCall
  /\ IF kind[c] = "stream" THEN Goes(c, "failed") /\ Responds(c, "error")
                           ELSE Goes(c, "leaving") /\ Responds(c, "500")
  /\ UNCHANGED <<loaded, inQueue, kind, written, conn, restarts>>

\* Mutant of Thrown: lines() was not started by the handler, so throwing it
\* away runs no finally block.
ThrownUnstarted(c) == IF at[c] = "primed" THEN "out" ELSE "leaving"

\* Closing a started generator runs its finally block.
Thrown(c) == "leaving"

\* Mutant of Unlocked: the lock is not released by a "with" block.
StillLocked(c) == writer

Unlocked(c) == IF at[c] = "paused" THEN NoCall ELSE writer

\* The caller is gone and the response throws the suspended generator away;
\* the model's generator is closed first, which releases the lock.
Drop(c) ==
  /\ conn[c] = "closed"
  /\ at[c] \in {"primed", "paused", "failed"}
  /\ writer' = Unlocked(c)
  /\ Goes(c, Thrown(c))
  /\ UNCHANGED <<loaded, inQueue, kind, written, response, conn, restarts>>

\* leave_queue: one place.
Freed(c) == 1

Leave(c) ==
  /\ at[c] = "leaving"
  /\ inQueue' = inQueue - Freed(c)
  /\ Goes(c, "out")
  /\ UNCHANGED <<loaded, writer, kind, written, response, conn, restarts>>

\* The process dies and a supervisor starts it again; load may fail.
ServiceRestarts ==
  /\ restarts < MaxRestarts
  /\ restarts' = restarts + 1
  /\ loaded' \in BOOLEAN
  /\ inQueue' = 0
  /\ writer' = NoCall
  /\ at' = [c \in Calls |-> "out"]
  /\ response' = [c \in Calls |-> IF at[c] = "out" THEN response[c] ELSE "lost"]
  /\ UNCHANGED <<kind, written, conn>>

\* What the service's threads do for a call, faults aside.
Serve(c) ==
  \/ Enter(c) \/ NextLine(c) \/ TakeLock(c) \/ Drop(c) \/ Leave(c)
  \/ WritePiece(c) \/ WriteEnd(c)

ServiceStep == (\E c \in Calls : Serve(c) \/ WriteFails(c)) \/ ServiceRestarts

---------------------------------------------------------------------------
(* The callers, as the service sees them: they call and they hang up.      *)

Arrive(c) ==
  /\ conn[c] = "none"
  /\ conn' = [conn EXCEPT ![c] = "open"]
  /\ Goes(c, "asked")
  /\ UNCHANGED <<loaded, inQueue, writer, kind, written, response, restarts>>

HangUp(c) ==
  /\ conn[c] = "open"
  /\ conn' = [conn EXCEPT ![c] = "closed"]
  /\ UNCHANGED <<serviceVars, kind>>

serviceView == <<serviceVars, kind, conn>>

ServiceNext == ServiceStep \/ \E c \in Calls : Arrive(c) \/ HangUp(c)

ServiceSpec == ServiceInit /\ [][ServiceNext]_serviceView

\* The service runs its threads, and the lock goes to each of the calls that
\* wait for it.
ServiceFairSpec ==
  ServiceSpec /\ \A c \in Calls : WF_serviceView(Serve(c))

---------------------------------------------------------------------------

\* _in_queue counts exactly the calls that run or wait, and never more than
\* model_max_queue: no place is lost to a disconnect, an error or a caller
\* that left before the first line, and none is given back twice.
PlacesCounted == /\ inQueue = Cardinality({c \in Calls : at[c] \in Inside})
                 /\ inQueue <= MaxQueue

\* The lock is held exactly by the one call the model writes for: a call that
\* ends in any way while others wait does not take it along.
LockHeldByWriter ==
  \A c \in Calls : writer = c <=> at[c] \in {"writing", "paused"}

\* A place that was taken becomes free again, whatever the callers do.
PlacesAreFreed == \A c \in Calls : (at[c] \in Inside) ~> (at[c] = "out")

=============================================================================
