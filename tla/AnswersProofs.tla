--------------------------- MODULE AnswersProofs ---------------------------
(***************************************************************************)
(* The model service's queue and lock, for any number of calls, places,    *)
(* pieces and restarts; the API as a caller the service can rely on, which *)
(* gives back the connection of every answer it has started to read; and   *)
(* what the user is shown and told of a reply, for any pieces and any      *)
(* length to hold back.                                                    *)
(***************************************************************************)
EXTENDS Answers, Recursion, FiniteSetTheorems, SequenceTheorems, TLAPS

---------------------------------------------------------------------------
(* The model service.                                                      *)

\* The calls that hold a place.
Placed == {c \in Calls : at[c] \in Inside}

\* A call that was never made is nowhere in the service.
Fresh == \A c \in Calls : conn[c] = "none" => at[c] = "out"

\* What makes the queue's count right: every place is counted while its call
\* is inside, and only a call that writes or is paused holds the lock.
QueueInv == ServiceTypeOK /\ PlacesCounted /\ LockHeldByWriter /\ Fresh

---------------------------------------------------------------------------

\* The service starts empty.
LEMMA InitQueue == ServiceInit => QueueInv
<1> SUFFICES ASSUME ServiceInit PROVE QueueInv
  OBVIOUS
<1>1. ServiceTypeOK
  BY DEF ServiceInit, ServiceTypeOK, Responses
<1>2. Placed = {}
  BY DEF ServiceInit, Inside, Placed
<1>3. Cardinality(Placed) = 0
  BY <1>2, FS_EmptySet
<1>4. PlacesCounted
  BY <1>3, ServiceAssumption DEF ServiceInit, PlacesCounted, Placed
<1>5. LockHeldByWriter /\ Fresh
  BY ServiceAssumption DEF ServiceInit, LockHeldByWriter, Fresh
<1> QED BY <1>1, <1>4, <1>5 DEF QueueInv

\* A step that neither takes nor frees a place.
LEMMA CountKept ==
  ASSUME PlacesCounted, UNCHANGED inQueue, Placed' = Placed
  PROVE  PlacesCounted'
  BY DEF PlacesCounted, Placed

\* enter_queue: one place more, and there was room.
LEMMA CountEnter ==
  ASSUME NEW c \in Calls, ServiceTypeOK, PlacesCounted, ~ Full,
         at[c] = "asked", at'[c] \in Inside, \A d \in Calls \ {c} : at'[d] = at[d],
         inQueue' = inQueue + 1
  PROVE  PlacesCounted'
<1>1. Placed' = Placed \cup {c} /\ c \notin Placed
  BY DEF Placed, Inside
<1>2. IsFiniteSet(Placed)
  BY FS_Subset, ServiceAssumption DEF Placed
<1>3. Cardinality(Placed') = Cardinality(Placed) + 1
  BY <1>1, <1>2, FS_AddElement
<1>4. inQueue' <= MaxQueue
  BY ServiceAssumption DEF Full, ServiceTypeOK
<1> QED BY <1>3, <1>4 DEF PlacesCounted, Placed

\* leave_queue: one place less, and there was one to free.
LEMMA CountLeave ==
  ASSUME NEW c \in Calls, ServiceTypeOK, PlacesCounted,
         at[c] = "leaving", at'[c] = "out", \A d \in Calls \ {c} : at'[d] = at[d],
         inQueue' = inQueue - 1
  PROVE  PlacesCounted' /\ inQueue' \in Nat
<1>1. Placed' = Placed \ {c} /\ c \in Placed
  BY DEF Placed, Inside
<1>2. IsFiniteSet(Placed)
  BY FS_Subset, ServiceAssumption DEF Placed
<1>3. Cardinality(Placed') = Cardinality(Placed) - 1
  BY <1>1, <1>2, FS_RemoveElement
<1>4. Cardinality(Placed') \in Nat
  BY <1>1, <1>2, FS_CardinalityType, FS_RemoveElement
<1>5. inQueue = Cardinality(Placed) /\ inQueue <= MaxQueue
  BY DEF PlacesCounted, Placed
<1> QED BY <1>3, <1>4, <1>5, ServiceAssumption DEF PlacesCounted, Placed, ServiceTypeOK

\* The model's steps and the two endpoints.
LEMMA ServeKeeps ==
  ASSUME NEW c \in Calls, QueueInv, Serve(c) \/ WriteFails(c)
  PROVE  QueueInv'
<1>a. ServiceTypeOK /\ PlacesCounted /\ LockHeldByWriter /\ Fresh
  BY DEF QueueInv
<1> USE DEF Goes, Responds
<1>b. Fresh'
  BY <1>a DEF Fresh, ServiceTypeOK, Serve, Enter, Begin, NextLine, TakeLock, Drop, Leave,
              WritePiece, WriteEnd, WriteFails
<1>1. CASE Enter(c)
  <2>1. ServiceTypeOK'
    <3>1. inQueue' \in Nat
      BY <1>1, <1>a DEF Enter, Begin, ServiceTypeOK
    <3>2. at' \in [Calls -> Inside \cup {"out", "asked"}]
      BY <1>1, <1>a DEF Enter, Begin, ServiceTypeOK, Inside
    <3>3. response' \in [Calls -> Responses]
      <4>1. response' = response \/ \E res \in {"stream", "busy", "unloaded"} : Responds(c, res)
        BY <1>1 DEF Enter, Begin
      <4> QED BY <4>1, <1>a DEF ServiceTypeOK, Responses
    <3> QED BY <1>1, <1>a, <3>1, <3>2, <3>3 DEF Enter, ServiceTypeOK
  <2>2. LockHeldByWriter'
    BY <1>1, <1>a, ServiceAssumption DEF Enter, Begin, ServiceTypeOK, LockHeldByWriter
  <2>3. CASE ~ Full /\ Begin(c)
    <3>1. at'[c] \in Inside /\ \A d \in Calls \ {c} : at'[d] = at[d]
      BY <2>3, <1>a DEF Begin, ServiceTypeOK, Inside
    <3> QED BY <1>b, <1>1, <2>1, <2>2, <2>3, <3>1, <1>a, CountEnter DEF Enter, Begin, QueueInv
  <2>4. CASE Goes(c, "out") /\ UNCHANGED inQueue
    <3>1. Placed' = Placed
      BY <1>1, <2>4, <1>a DEF Enter, Placed, ServiceTypeOK, Inside
    <3> QED BY <1>b, <2>1, <2>2, <2>4, <3>1, <1>a, CountKept DEF QueueInv
  <2> QED BY <1>1, <2>3, <2>4 DEF Enter
<1>2. CASE Leave(c)
  <2>1. at'[c] = "out" /\ \A d \in Calls \ {c} : at'[d] = at[d]
    BY <1>2, <1>a DEF Leave, ServiceTypeOK
  <2>2. PlacesCounted' /\ inQueue' \in Nat
    BY <1>2, <2>1, <1>a, CountLeave DEF Leave, Freed
  <2>3. ServiceTypeOK'
    BY <1>2, <2>2, <1>a DEF Leave, ServiceTypeOK
  <2>4. LockHeldByWriter'
    BY <1>2, <1>a DEF Leave, ServiceTypeOK, LockHeldByWriter
  <2> QED BY <1>b, <2>2, <2>3, <2>4 DEF QueueInv
<1>3. CASE NextLine(c) \/ TakeLock(c) \/ WritePiece(c) \/ WriteEnd(c) \/ WriteFails(c) \/ Drop(c)
  <2>1. ServiceTypeOK'
    <3>1. CASE NextLine(c) BY <3>1, <1>a DEF NextLine, ServiceTypeOK, Inside
    <3>2. CASE TakeLock(c) BY <3>2, <1>a DEF TakeLock, ServiceTypeOK, Inside
    <3>3. CASE WritePiece(c) BY <3>3, <1>a DEF WritePiece, ServiceTypeOK, Inside
    <3>4. CASE WriteEnd(c) BY <3>4, <1>a DEF WriteEnd, ServiceTypeOK, Inside, Responses
    <3>5. CASE WriteFails(c) BY <3>5, <1>a DEF WriteFails, ServiceTypeOK, Inside, Responses
    <3>6. CASE Drop(c) BY <3>6, <1>a DEF Drop, Unlocked, Thrown, ServiceTypeOK, Inside
    <3> QED BY <1>3, <3>1, <3>2, <3>3, <3>4, <3>5, <3>6
  <2>2. Placed' = Placed /\ UNCHANGED inQueue
    BY <1>3, <1>a
    DEF NextLine, TakeLock, WritePiece, WriteEnd, WriteFails, Drop, Thrown, Placed, ServiceTypeOK, Inside
  <2>3. LockHeldByWriter'
    BY <1>3, <1>a, ServiceAssumption
    DEF NextLine, TakeLock, WritePiece, WriteEnd, WriteFails, Drop, Unlocked, Thrown,
        LockHeldByWriter, ServiceTypeOK
  <2> QED BY <1>b, <2>1, <2>2, <2>3, <1>a, CountKept DEF QueueInv
<1> QED BY <1>1, <1>2, <1>3 DEF Serve

\* A restart forgets every place and the lock.
LEMMA RestartKeeps == QueueInv /\ ServiceRestarts => QueueInv'
<1> SUFFICES ASSUME QueueInv, ServiceRestarts PROVE QueueInv'
  OBVIOUS
<1>1. ServiceTypeOK'
  BY DEF QueueInv, ServiceRestarts, ServiceTypeOK, Responses
<1>2. Placed' = {}
  BY DEF ServiceRestarts, Inside, Placed
<1>3. Cardinality(Placed') = 0
  BY <1>2, FS_EmptySet
<1>4. PlacesCounted'
  BY <1>3, ServiceAssumption DEF ServiceRestarts, PlacesCounted, Placed
<1>5. LockHeldByWriter' /\ Fresh'
  BY ServiceAssumption DEF ServiceRestarts, LockHeldByWriter, Fresh
<1> QED BY <1>1, <1>4, <1>5 DEF QueueInv

\* Callers that call and hang up touch neither the count nor the lock.
LEMMA CallersKeep ==
  ASSUME NEW c \in Calls, QueueInv, Arrive(c) \/ HangUp(c)
  PROVE  QueueInv'
<1> USE DEF QueueInv, Arrive, HangUp, Goes, ServiceTypeOK, Fresh, serviceVars, callState
<1>1. ServiceTypeOK' /\ Fresh'
  OBVIOUS
<1>2. Placed' = Placed /\ UNCHANGED inQueue
  BY DEF Placed, Inside
<1>3. LockHeldByWriter'
  BY DEF LockHeldByWriter
<1> QED BY <1>1, <1>2, <1>3, CountKept

\* The inductive step.
LEMMA QueueStep == QueueInv /\ [ServiceNext]_serviceView => QueueInv'
<1> SUFFICES ASSUME QueueInv, [ServiceNext]_serviceView PROVE QueueInv'
  OBVIOUS
<1>1. CASE UNCHANGED serviceView
  BY <1>1 DEF QueueInv, ServiceTypeOK, PlacesCounted, LockHeldByWriter, Fresh,
              serviceView, serviceVars, callState
<1> QED BY <1>1, ServeKeeps, RestartKeeps, CallersKeep DEF ServiceNext, ServiceStep

---------------------------------------------------------------------------

\* Every reachable state satisfies the inductive invariant.
THEOREM QueueInvariant == ServiceSpec => []QueueInv
<1> QED BY InitQueue, QueueStep, PTL DEF ServiceSpec

\* _in_queue counts the calls that run or wait and stays within
\* model_max_queue, through disconnects, errors and restarts.
THEOREM PlacesAlwaysCounted == ServiceSpec => []PlacesCounted
<1>1. QueueInv => PlacesCounted BY DEF QueueInv
<1> QED BY <1>1, QueueInvariant, PTL

\* _generation_lock is held exactly by the call the model writes for.
THEOREM LockNeverLost == ServiceSpec => []LockHeldByWriter
<1>1. QueueInv => LockHeldByWriter BY DEF QueueInv
<1> QED BY <1>1, QueueInvariant, PTL

---------------------------------------------------------------------------
(* The API over it.                                                        *)

Places == {"idle", "calling", "unstarted", "sources", "reading", "event", "over"}

\* What the API knows about the connection of a question, by its place.
ConnInv ==
  /\ place \in [Calls -> Places]
  /\ conn \in [Calls -> {"none", "open", "closed"}]
  /\ taken \in [Calls -> Nat]
  /\ \A c \in Calls :
       /\ place[c] \notin {"idle", "over"} => conn[c] = "open"
       /\ place[c] \in {"idle", "calling", "unstarted", "sources"} => taken[c] = 0
       /\ place[c] = "over" /\ taken[c] > 0 => conn[c] = "closed"

USE DEF Places, To, CloseConn, Conclude, Judge, JudgeStream, Abandon, serviceView,
        serviceVars, callState

\* Nothing is asked yet.
LEMMA InitConn == Init => ConnInv
  BY DEF Init, ServiceInit, ConnInv

\* A question's own steps.
LEMMA HandleConn ==
  ASSUME NEW c \in Calls, ConnInv, Handle(c) \/ Timeout(c)
  PROVE  /\ ConnInv'
         /\ HangUp(c) \/ UNCHANGED serviceView
<1> USE DEF ConnInv, HangUp
<1>1. CASE Refused(c)     BY <1>1 DEF Refused
<1>2. CASE AnswerWhole(c) BY <1>2 DEF AnswerWhole
<1>3. CASE OpenStream(c)  BY <1>3 DEF OpenStream
<1>4. CASE Pull(c)        BY <1>4 DEF Pull
<1>5. CASE ReadPiece(c)
  <2>1. /\ place[c] = "reading"
        /\ taken' = [taken EXCEPT ![c] = taken[c] + 1]
        /\ UNCHANGED <<serviceVars, kind>>
        /\ \/ place' = [place EXCEPT ![c] = "event"] /\ UNCHANGED conn
           \/ place' = [place EXCEPT ![c] = "over"] /\ conn' = [conn EXCEPT ![c] = "closed"]
           \/ UNCHANGED <<place, conn>>
    BY <1>5 DEF ReadPiece
  <2> QED BY <2>1
<1>6. CASE ReadEnd(c)     BY <1>6 DEF ReadEnd
<1>7. CASE ReadError(c)   BY <1>7 DEF ReadError
<1>8. CASE Collect(c)     BY <1>8 DEF Collect
<1>9. CASE Timeout(c)     BY <1>9 DEF Timeout
<1> QED BY <1>1, <1>2, <1>3, <1>4, <1>5, <1>6, <1>7, <1>8, <1>9 DEF Handle

\* Every step keeps ConnInv, and is a call, a hang-up, a step of the service or
\* nothing to the service.
LEMMA AnswersStep == ConnInv /\ [Next]_vars => ConnInv' /\ [ServiceNext]_serviceView
<1> SUFFICES ASSUME ConnInv, [Next]_vars PROVE ConnInv' /\ [ServiceNext]_serviceView
  OBVIOUS
<1>1. CASE UNCHANGED vars
  BY <1>1 DEF vars, answerVars, ConnInv
<1>2. CASE ServiceStep /\ UNCHANGED answerVars
  <2>1. UNCHANGED conn
    BY <1>2 DEF ServiceStep, Serve, Enter, NextLine, TakeLock, Drop, Leave, WritePiece,
                WriteEnd, WriteFails, ServiceRestarts
  <2> QED BY <1>2, <2>1 DEF answerVars, ConnInv, ServiceNext
<1>3. ASSUME NEW c \in Calls, Ask(c) PROVE ConnInv' /\ [ServiceNext]_serviceView
  <2>1. CASE To(c, "calling") /\ Arrive(c)
    <3>1. /\ place[c] = "idle" /\ place' = [place EXCEPT ![c] = "calling"]
          /\ conn' = [conn EXCEPT ![c] = "open"] /\ UNCHANGED taken
      BY <1>3, <2>1 DEF Ask, Arrive
    <3>2. ConnInv'
      BY <3>1 DEF ConnInv
    <3> QED BY <2>1, <3>2 DEF ServiceNext
  <2>2. CASE (\E v \in {"sourceless", "unavailable"} : Conclude(c, v)) /\ UNCHANGED serviceView
    <3>1. /\ place[c] = "idle" /\ place' = [place EXCEPT ![c] = "over"]
          /\ UNCHANGED <<conn, taken>>
      BY <1>3, <2>2 DEF Ask
    <3>2. ConnInv'
      BY <3>1 DEF ConnInv
    <3>3. UNCHANGED serviceView
      BY <2>2
    <3> QED BY <3>2, <3>3
  <2> QED BY <1>3, <2>1, <2>2 DEF Ask
<1>4. ASSUME NEW c \in Calls, Disconnect(c) PROVE ConnInv' /\ [ServiceNext]_serviceView
  BY <1>4 DEF Disconnect, ConnInv
<1>5. ASSUME NEW c \in Calls, Handle(c) \/ Timeout(c)
      PROVE  ConnInv' /\ [ServiceNext]_serviceView
  BY <1>5, HandleConn DEF ServiceNext
<1> QED BY <1>1, <1>2, <1>3, <1>4, <1>5 DEF Next

---------------------------------------------------------------------------

\* To the model service the API is one of the callers ModelService allows, so
\* what is proved of the service holds in the whole.
THEOREM ApiUsesService == Spec => UsesService
<1>1. Init => ServiceInit BY DEF Init
<1> QED BY <1>1, InitConn, AnswersStep, PTL DEF Spec, UsesService, ServiceSpec

\* The queue's places are counted right, whatever users and the API do.
THEOREM PlacesCountedForApi == Spec => []PlacesCounted
  BY ApiUsesService, PlacesAlwaysCounted, PTL DEF UsesService

\* Once a piece has been read, the connection is closed when the question is
\* over, however it ends.
THEOREM StartedStreamsClosed == Spec => []ReadStreamsClosed
<1>1. ConnInv => ReadStreamsClosed BY DEF ConnInv, ReadStreamsClosed
<1> QED BY <1>1, InitConn, AnswersStep, PTL DEF Spec

---------------------------------------------------------------------------
(* Texts.                                                                  *)

Texts == Seq(Tokens)

\* A piece more is that piece at the end of the text.
LEMMA TextGrows ==
  ASSUME NEW s \in Seq(Texts), NEW p \in Texts
  PROVE  Text(<<>>) = <<>> /\ Text(s) \in Texts /\ Text(Append(s, p)) = Text(s) \o p
BY FlattenAppend DEF Text, Texts

\* The text of the first pieces is the start of the whole text.
LEMMA StartOfText ==
  ASSUME NEW s \in Seq(Texts), NEW n \in 0..Len(s)
  PROVE  \E r \in Texts : Text(s) = Text(SubSeq(s, 1, n)) \o r
BY FlattenStart DEF Text, Texts

\* A refusal is one of the tokens.
LEMMA DeclinedToken ==
  ASSUME NEW t \in Texts
  PROVE  Declined(t) <=> \E i \in 1..Len(t) : t[i] = RefusalEnd
<1>1. DOMAIN t = 1..Len(t)
  BY DEF Texts
<1> QED BY <1>1 DEF Declined, Range

\* The first HoldBack tokens are there, and no refusal.
Begun(t) == Len(t) >= HoldBack /\ ~ Declined(SubSeq(t, 1, HoldBack))

\* What more text changes: a refusal stays one, and a beginning stays as it is.
LEMMA MoreText ==
  ASSUME NEW t \in Texts, NEW r \in Texts
  PROVE  /\ t \o r \in Texts
         /\ Declined(t) => Declined(t \o r)
         /\ Begun(t) => Begun(t \o r)
         /\ MayShow(t) => Begun(t)
<1>1. /\ t \o r \in Texts /\ Len(t \o r) = Len(t) + Len(r) /\ Len(t) \in Nat /\ Len(r) \in Nat
      /\ \A i \in 1..Len(t) : (t \o r)[i] = t[i]
  BY DEF Texts
<1>2. Declined(t) => Declined(t \o r)
  <2>1. ASSUME NEW i \in 1..Len(t), t[i] = RefusalEnd PROVE Declined(t \o r)
    <3>1. i \in 1..Len(t \o r) /\ (t \o r)[i] = RefusalEnd
      BY <1>1, <2>1
    <3> QED BY <1>1, <3>1, DeclinedToken
  <2> QED BY <2>1, DeclinedToken
<1>3. HoldBack \in Nat /\ HoldBack > 0
  BY AnswersAssumption
<1>4. ASSUME Len(t) >= HoldBack
      PROVE  /\ SubSeq(t, 1, HoldBack) \in Texts /\ Len(SubSeq(t, 1, HoldBack)) = HoldBack
             /\ \A i \in 1..HoldBack : SubSeq(t, 1, HoldBack)[i] = t[i] /\ i \in 1..Len(t)
  BY <1>1, <1>3, <1>4 DEF Texts
<1>5. Begun(t) => Begun(t \o r)
  <2>0. Len(t) >= HoldBack => Len(t \o r) >= HoldBack
    BY <1>1, <1>3
  <2>1. SUFFICES ASSUME Len(t) >= HoldBack
                 PROVE  SubSeq(t \o r, 1, HoldBack) = SubSeq(t, 1, HoldBack)
    BY <2>0 DEF Begun
  <2>2. HoldBack \in 1..Len(t) /\ 1 \in 1..Len(t)
    BY <1>1, <1>3, <2>1
  <2> QED BY <2>2, SubSeqOfConcat1 DEF Texts
<1>6. MayShow(t) => Begun(t)
  <2>1. SUFFICES ASSUME Len(t) >= HoldBack, Declined(SubSeq(t, 1, HoldBack)) PROVE Declined(t)
    BY DEF MayShow, Begun
  <2>2. PICK i \in 1..HoldBack : SubSeq(t, 1, HoldBack)[i] = RefusalEnd
    BY <1>4, <2>1, DeclinedToken
  <2> QED BY <1>4, <2>1, <2>2, DeclinedToken
<1> QED BY <1>1, <1>2, <1>5, <1>6

\* Stripping a text keeps its first and last solid token and what is between.
LEMMA Stripped ==
  ASSUME NEW t \in Texts
  PROVE  /\ Strip(t) \in Texts
         /\ Strip(Strip(t)) = Strip(t)
         /\ Declined(Strip(t)) <=> Declined(t)
<1> DEFINE Solid(u) == {i \in 1..Len(u) : u[i] # Blank}
<1>1. ASSUME NEW u \in Texts
      PROVE  Strip(u) = IF Solid(u) = {} THEN <<>> ELSE SubSeq(u, Min(Solid(u)), Max(Solid(u)))
  <2>1. DOMAIN u = 1..Len(u)
    BY DEF Texts
  <2> QED BY <2>1 DEF Strip
<1>2. ASSUME NEW u \in Texts, Solid(u) # {}
      PROVE  /\ Min(Solid(u)) \in Solid(u) /\ \A i \in Solid(u) : Min(Solid(u)) <= i
             /\ Max(Solid(u)) \in Solid(u) /\ \A i \in Solid(u) : i <= Max(Solid(u))
  <2>1. Solid(u) \in SUBSET Nat /\ Len(u) \in Nat /\ \A i \in Solid(u) : i <= Len(u)
    BY DEF Texts
  <2> HIDE DEF Solid
  <2>2. \E m \in Solid(u) : \A i \in Solid(u) : m <= i
    BY <1>2, <2>1, LeastNatural
  <2>3. \E m \in Solid(u) : \A i \in Solid(u) : i <= m
    BY <1>2, <2>1, GreatestNatural
  <2> QED BY <2>2, <2>3 DEF Min, Max
<1>3. CASE Solid(t) = {}
  <2>1. Strip(t) = <<>> /\ <<>> \in Texts
    <3>1. <<>> \in Texts
      BY DEF Texts
    <3> HIDE DEF Solid
    <3> QED BY <1>1, <1>3, <3>1
  <2>2. Solid(<<>>) = {}
    OBVIOUS
  <2>3. Strip(<<>>) = <<>>
    BY <1>1, <2>1, <2>2
  <2>4. ~ Declined(t)
    BY <1>3, DeclinedToken, AnswersAssumption
  <2>5. ~ Declined(<<>>)
    BY <2>1, DeclinedToken
  <2> QED BY <2>1, <2>3, <2>4, <2>5
<1>4. CASE Solid(t) # {}
  <2> DEFINE a == Min(Solid(t))
             b == Max(Solid(t))
             u == SubSeq(t, a, b)
  <2>1. /\ a \in 1..Len(t) /\ b \in 1..Len(t) /\ a <= b
        /\ t[a] # Blank /\ t[b] # Blank
        /\ \A i \in 1..Len(t) : t[i] # Blank => a <= i /\ i <= b
    BY <1>2, <1>4
  <2>2. Strip(t) = u
    BY <1>1, <1>4
  <2> HIDE DEF a, b
  <2>3. /\ u \in Texts /\ Len(u) = b - a + 1 /\ \A i \in 1..Len(u) : u[i] = t[a + i - 1]
    BY <2>1 DEF Texts
  <2> HIDE DEF u
  <2>4. Len(u) \in Nat /\ 1 \in Solid(u) /\ Len(u) \in Solid(u)
    <3>1. /\ 1 \in 1..Len(u) /\ Len(u) \in 1..Len(u)
          /\ a + 1 - 1 = a /\ a + Len(u) - 1 = b
      BY <2>1, <2>3
    <3>2. u[1] = t[a] /\ u[Len(u)] = t[b]
      BY <2>3, <3>1
    <3> QED BY <2>1, <3>1, <3>2
  <2>5. Min(Solid(u)) = 1 /\ Max(Solid(u)) = Len(u)
    <3>1. Solid(u) # {} /\ \A i \in Solid(u) : i \in Nat /\ 1 <= i /\ i <= Len(u)
      BY <2>4
    <3> HIDE DEF Solid
    <3>2. /\ Min(Solid(u)) \in Solid(u) /\ Min(Solid(u)) <= 1
          /\ Max(Solid(u)) \in Solid(u) /\ Len(u) <= Max(Solid(u))
      BY <1>2, <2>3, <2>4, <3>1
    <3> QED BY <2>4, <3>1, <3>2
  <2>6. Strip(u) = u
    <3>1. Solid(u) # {}
      BY <2>4
    <3>2. SubSeq(u, 1, Len(u)) = u
      BY <2>3, SubSeqFull DEF Texts
    <3> HIDE DEF Solid
    <3> QED BY <1>1, <2>3, <2>5, <3>1, <3>2
  <2>7. Declined(u) => Declined(t)
    <3>1. SUFFICES ASSUME NEW i \in 1..Len(u), u[i] = RefusalEnd PROVE Declined(t)
      BY <2>3, DeclinedToken
    <3>2. a + i - 1 \in 1..Len(t) /\ t[a + i - 1] = RefusalEnd
      BY <2>1, <2>3, <3>1
    <3> QED BY <3>2, DeclinedToken
  <2>8. Declined(t) => Declined(u)
    <3>1. SUFFICES ASSUME NEW i \in 1..Len(t), t[i] = RefusalEnd PROVE Declined(u)
      BY DeclinedToken
    <3>2. a <= i /\ i <= b
      BY <2>1, <3>1, AnswersAssumption
    <3>3. i - a + 1 \in 1..Len(u) /\ a + (i - a + 1) - 1 = i
      BY <2>1, <2>3, <3>2
    <3>4. u[i - a + 1] = RefusalEnd
      BY <2>3, <3>1, <3>3
    <3> QED BY <2>3, <3>3, <3>4, DeclinedToken
  <2> QED BY <2>2, <2>3, <2>6, <2>7, <2>8
<1> QED BY <1>3, <1>4

---------------------------------------------------------------------------
(* What the user sees of a reply.                                          *)

AnswerTypeOK ==
  /\ client \in [Calls -> {"here", "gone"}]
  /\ sent \in [Calls -> BOOLEAN]
  /\ shown \in [Calls -> Texts]
  /\ verdict \in [Calls -> Verdicts]
  /\ answer \in [Calls -> Texts]

\* What an answered question has come to: the reply is complete and nothing
\* is written any more.
Answered(c) ==
  /\ at[c] = "out" /\ conn[c] = "closed" /\ response[c] \in {"end", "text"}
  /\ ~ Declined(Text(written[c]))
  /\ answer[c] = Strip(Text(written[c]))
  /\ kind[c] = "stream" => Strip(shown[c]) = answer[c]

\* What is shown is the part of the reply that has been read, and it is shown
\* because the reply does not begin with a refusal.
ReplyInv(c) ==
  /\ taken[c] <= Len(written[c]) /\ Len(written[c]) <= MaxPieces
  /\ response[c] = "text" => kind[c] = "whole"
  /\ place[c] # "over" => verdict[c] = "none"
  /\ sent[c] => shown[c] = Reply(c, taken[c]) /\ Begun(Text(written[c]))
  /\ ~ sent[c] /\ verdict[c] # "answered" => shown[c] = <<>>
  /\ verdict[c] = "declined" => Declined(Text(written[c]))
  /\ verdict[c] = "answered" => Answered(c)

AnswerInv == QueueInv /\ ConnInv /\ AnswerTypeOK /\ \A c \in Calls : ReplyInv(c)

LEMMA InitReply == Init => AnswerTypeOK /\ \A c \in Calls : ReplyInv(c)
<1> SUFFICES ASSUME Init PROVE AnswerTypeOK /\ \A c \in Calls : ReplyInv(c)
  OBVIOUS
<1>1. AnswerTypeOK
  BY DEF Init, AnswerTypeOK, Texts, Verdicts
<1>2. ASSUME NEW c \in Calls PROVE ReplyInv(c)
  <2>1. /\ taken[c] = 0 /\ written[c] = <<>> /\ response[c] = "none" /\ place[c] = "idle"
        /\ sent[c] = FALSE /\ verdict[c] = "none" /\ shown[c] = <<>>
    BY DEF Init, ServiceInit
  <2>2. taken[c] <= Len(written[c]) /\ Len(written[c]) <= MaxPieces
    BY <2>1, ServiceAssumption
  <2> QED BY <2>1, <2>2 DEF ReplyInv
<1> QED BY <1>1, <1>2

\* The reply as far as it is written, and as far as it is read.
LEMMA ReplyIsStart ==
  ASSUME ServiceTypeOK, NEW c \in Calls
  PROVE  /\ written[c] \in Seq(Texts) /\ Text(written[c]) \in Texts
         /\ \A n \in 0..Len(written[c]) :
              /\ Reply(c, n) \in Texts
              /\ \E r \in Texts : Text(written[c]) = Reply(c, n) \o r
         /\ \A n \in Nat : n + 1 <= Len(written[c]) =>
              Reply(c, n + 1) = Reply(c, n) \o written[c][n + 1]
         /\ Reply(c, Len(written[c])) = Text(written[c])
<1>1. written[c] \in Seq(Texts)
  <2>1. written[c] \in Seq(Pieces) /\ Pieces \subseteq Texts
    BY AnswersAssumption DEF ServiceTypeOK, Texts
  <2> QED BY <2>1
<1>2. <<>> \in Texts
  BY DEF Texts
<1>3. \A s \in Seq(Texts) : Text(s) \in Texts
  BY <1>2, TextGrows
<1>4. \A n \in 0..Len(written[c]) : SubSeq(written[c], 1, n) \in Seq(Texts)
  BY <1>1, SubSeqProperties
<1>5. \A n \in 0..Len(written[c]) :
        Reply(c, n) \in Texts /\ \E r \in Texts : Text(written[c]) = Reply(c, n) \o r
  BY <1>1, <1>3, <1>4, StartOfText DEF Reply
<1>6. ASSUME NEW n \in Nat, n + 1 <= Len(written[c])
      PROVE  Reply(c, n + 1) = Reply(c, n) \o written[c][n + 1]
  <2>1. n \in 0..Len(written[c]) /\ n + 1 \in 1..Len(written[c])
    BY <1>1, <1>6
  <2>2. SubSeq(written[c], 1, n + 1) = Append(SubSeq(written[c], 1, n), written[c][n + 1])
    BY <1>1, <2>1
  <2>3. written[c][n + 1] \in Texts
    BY <1>1, <2>1
  <2> QED BY <1>4, <2>1, <2>2, <2>3, TextGrows DEF Reply
<1>7. Reply(c, Len(written[c])) = Text(written[c])
  BY <1>1, SubSeqFull DEF Reply
<1> QED BY <1>1, <1>3, <1>5, <1>6, <1>7

\* The parts of a question's state ReplyInv is about.
Kept(c) ==
  /\ taken'[c] = taken[c] /\ written'[c] = written[c] /\ place'[c] = place[c]
  /\ verdict'[c] = verdict[c] /\ sent'[c] = sent[c] /\ shown'[c] = shown[c]
  /\ answer'[c] = answer[c] /\ kind'[c] = kind[c]

\* A step that leaves those alone.
LEMMA KeptIsFine ==
  ASSUME NEW c \in Calls, ReplyInv(c), Kept(c),
         at[c] = "out" /\ conn[c] = "closed" =>
           at'[c] = "out" /\ conn'[c] = "closed" /\ response'[c] = response[c],
         response'[c] = "text" => response[c] = "text" \/ kind[c] = "whole"
  PROVE  ReplyInv(c)'
BY DEF ReplyInv, Kept, Answered, Reply

---------------------------------------------------------------------------

\* The service writes at the end of a reply that is not complete, and to the
\* API nothing else of it changes.
LEMMA ServiceMoves ==
  ASSUME ServiceTypeOK, ServiceStep, NEW c \in Calls
  PROVE  /\ kind'[c] = kind[c] /\ conn'[c] = conn[c]
         /\ at[c] = "out" => at'[c] = "out" /\ response'[c] = response[c]
         /\ response'[c] = "text" => response[c] = "text" \/ kind[c] = "whole"
         /\ \/ written'[c] = written[c]
            \/ /\ at[c] = "writing" /\ Len(written[c]) < MaxPieces
               /\ \E p \in Pieces : written'[c] = Append(written[c], p)
<1> USE DEF ServiceTypeOK, Goes, Responds
<1>1. CASE ServiceRestarts
  BY <1>1 DEF ServiceRestarts
<1>2. ASSUME NEW d \in Calls, Serve(d) \/ WriteFails(d)
      PROVE  /\ kind'[c] = kind[c] /\ conn'[c] = conn[c]
             /\ at[c] = "out" => at'[c] = "out" /\ response'[c] = response[c]
             /\ response'[c] = "text" => response[c] = "text" \/ kind[c] = "whole"
             /\ \/ written'[c] = written[c]
                \/ /\ at[c] = "writing" /\ Len(written[c]) < MaxPieces
                   /\ \E p \in Pieces : written'[c] = Append(written[c], p)
  <2>1. CASE Enter(d)      BY <2>1 DEF Enter, Begin
  <2>2. CASE NextLine(d)   BY <2>2 DEF NextLine
  <2>3. CASE TakeLock(d)   BY <2>3 DEF TakeLock
  <2>4. CASE Drop(d)       BY <2>4 DEF Drop
  <2>5. CASE Leave(d)      BY <2>5 DEF Leave
  <2>6. CASE WritePiece(d)
    <3>1. PICK p \in Pieces : written' = [written EXCEPT ![d] = Append(written[d], p)]
      BY <2>6 DEF WritePiece
    <3> QED BY <2>6, <3>1 DEF WritePiece
  <2>7. CASE WriteEnd(d)   BY <2>7 DEF WriteEnd
  <2>8. CASE WriteFails(d) BY <2>8 DEF WriteFails
  <2> QED BY <1>2, <2>1, <2>2, <2>3, <2>4, <2>5, <2>6, <2>7, <2>8 DEF Serve
<1> QED BY <1>1, <1>2 DEF ServiceStep

\* More of the reply changes nothing of what was shown and said.
LEMMA ServiceKeepsReply ==
  ASSUME AnswerInv, ServiceStep, UNCHANGED answerVars, NEW c \in Calls
  PROVE  ReplyInv(c)'
<1>1. ServiceTypeOK /\ ReplyInv(c)
  BY DEF AnswerInv, QueueInv
<1>2. /\ kind'[c] = kind[c] /\ conn'[c] = conn[c]
      /\ at[c] = "out" => at'[c] = "out" /\ response'[c] = response[c]
      /\ response'[c] = "text" => response[c] = "text" \/ kind[c] = "whole"
  BY <1>1, ServiceMoves
<1>3. UNCHANGED <<taken, place, verdict, sent, shown, answer>>
  BY DEF answerVars
<1>4. CASE written'[c] = written[c]
  BY <1>1, <1>2, <1>3, <1>4, KeptIsFine DEF Kept
<1>5. ASSUME at[c] = "writing", Len(written[c]) < MaxPieces,
             NEW p \in Pieces, written'[c] = Append(written[c], p)
      PROVE  ReplyInv(c)'
  <2>1. /\ written[c] \in Seq(Texts) /\ p \in Texts /\ Text(written[c]) \in Texts
        /\ Text(written[c])' = Text(written[c]) \o p
    BY <1>1, <1>5, ReplyIsStart, AnswersAssumption, TextGrows DEF Texts
  <2>2. /\ Len(written[c])' = Len(written[c]) + 1 /\ Len(written[c]) \in Nat
        /\ \A n \in 0..Len(written[c]) : SubSeq(written'[c], 1, n) = SubSeq(written[c], 1, n)
    BY <1>5, <2>1
  <2>3. taken[c] \in Nat /\ taken[c] <= Len(written[c])
    BY <1>1 DEF AnswerInv, ConnInv, ReplyInv
  <2>4. Reply(c, taken[c])' = Reply(c, taken[c])
    <3>1. taken[c] \in 0..Len(written[c]) /\ taken'[c] = taken[c]
      BY <1>3, <2>2, <2>3
    <3>2. SubSeq(written'[c], 1, taken'[c]) = SubSeq(written[c], 1, taken[c])
      BY <2>2, <3>1
    <3> QED BY <3>2 DEF Reply
  <2>5. /\ Declined(Text(written[c])) => Declined(Text(written[c]))'
        /\ Begun(Text(written[c])) => Begun(Text(written[c]))'
    BY <2>1, MoreText
  <2>6. verdict[c] # "answered"
    BY <1>1, <1>5 DEF ReplyInv, Answered
  <2>7. taken'[c] <= Len(written'[c]) /\ Len(written'[c]) <= MaxPieces
    BY <1>3, <1>5, <2>2, <2>3, ServiceAssumption
  <2> QED BY <1>1, <1>2, <1>3, <2>4, <2>5, <2>6, <2>7 DEF ReplyInv
<1> QED BY <1>1, <1>4, <1>5, ServiceMoves

---------------------------------------------------------------------------

\* A question that moves on, or ends without a verdict on its reply.
LEMMA MovesOn ==
  ASSUME NEW c \in Calls, ReplyInv(c), verdict[c] = "none",
         taken'[c] = taken[c], written'[c] = written[c], sent'[c] = sent[c],
         shown'[c] = shown[c], kind'[c] = kind[c],
         response'[c] = "text" => response[c] = "text",
         \/ verdict'[c] = "none"
         \/ place'[c] = "over" /\ verdict'[c] \notin {"answered", "declined"}
  PROVE  ReplyInv(c)'
BY DEF ReplyInv, Reply

\* The API's steps for one question leave the others' replies alone.
LEMMA OthersReply ==
  ASSUME AnswerInv, NEW c \in Calls, NEW d \in Calls \ {c},
         written'[d] = written[d], at'[d] = at[d], response'[d] = response[d],
         kind'[d] = kind[d], conn'[d] = conn[d], taken'[d] = taken[d],
         place'[d] = place[d], verdict'[d] = verdict[d], sent'[d] = sent[d],
         shown'[d] = shown[d], answer'[d] = answer[d]
  PROVE  ReplyInv(d)'
<1>1. ReplyInv(d)
  BY DEF AnswerInv
<1>2. Kept(d)
  BY DEF Kept
<1> QED BY <1>1, <1>2, KeptIsFine

\* The verdict on a complete reply.
LEMMA JudgedRight ==
  ASSUME AnswerInv, NEW c \in Calls,
         UNCHANGED <<written, at, response, kind, taken, sent>>,
         Judge(c, Strip(Text(written[c]))), CloseConn(c), at[c] = "out",
         response[c] \in {"end", "text"},
         sent[c] => shown'[c] = shown[c],
         ~ sent[c] /\ Declined(Text(written[c])) => shown'[c] = <<>>,
         kind[c] = "stream" /\ ~ Declined(Text(written[c])) =>
           Strip(shown'[c]) = Strip(Text(written[c]))
  PROVE  ReplyInv(c)'
<1>1. ServiceTypeOK /\ ReplyInv(c) /\ ConnInv /\ AnswerTypeOK
  BY DEF AnswerInv, QueueInv
<1>2. Declined(Strip(Text(written[c]))) <=> Declined(Text(written[c]))
  BY <1>1, ReplyIsStart, Stripped
<1>3. /\ place'[c] = "over" /\ conn'[c] = "closed"
      /\ verdict'[c] = IF Declined(Text(written[c])) THEN "declined" ELSE "answered"
      /\ answer'[c] = IF Declined(Text(written[c])) THEN <<>> ELSE Strip(Text(written[c]))
  BY <1>1, <1>2 DEF ConnInv, AnswerTypeOK
<1>4. verdict'[c] = "answered" => Answered(c)'
  BY <1>3 DEF Answered
<1>5. sent[c] => shown'[c] = Reply(c, taken[c]) /\ Begun(Text(written[c]))
  BY <1>1 DEF ReplyInv
<1>6. ~ sent[c] /\ verdict'[c] # "answered" => shown'[c] = <<>>
  BY <1>3
<1>7. Reply(c, taken[c])' = Reply(c, taken[c]) /\ Begun(Text(written[c]))' = Begun(Text(written[c]))
  BY DEF Reply
<1> QED BY <1>1, <1>3, <1>4, <1>5, <1>6, <1>7 DEF ReplyInv

\* A piece is read: it is shown, held back, or ends the answer.
LEMMA ReadPieceReply ==
  ASSUME AnswerInv, NEW c \in Calls, ReadPiece(c)
  PROVE  AnswerTypeOK' /\ ReplyInv(c)'
<1> DEFINE n     == taken[c] + 1
           reply == Reply(c, n)
<1>1. ServiceTypeOK /\ ReplyInv(c) /\ ConnInv /\ AnswerTypeOK
  BY DEF AnswerInv, QueueInv
<1>2. /\ place[c] = "reading" /\ verdict[c] = "none"
      /\ taken[c] \in Nat /\ n <= Len(written[c]) /\ Len(written[c]) \in Nat
      /\ taken'[c] = n
      /\ UNCHANGED <<written, at, response, kind, client, answer>>
  <2>1. /\ place[c] = "reading" /\ n <= Len(written[c]) /\ taken' = [taken EXCEPT ![c] = n]
        /\ UNCHANGED <<written, at, response, kind, client>>
    BY DEF ReadPiece
  <2>2. UNCHANGED answer
    BY DEF ReadPiece
  <2>3. verdict[c] = "none"
    BY <1>1, <2>1 DEF ReplyInv
  <2>4. taken[c] \in Nat /\ taken'[c] = n
    BY <1>1, <2>1 DEF ConnInv
  <2>5. written[c] \in Seq(Pieces)
    BY <1>1 DEF ServiceTypeOK
  <2>6. Len(written[c]) \in Nat
    BY <2>5
  <2> QED BY <2>1, <2>2, <2>3, <2>4, <2>6
<1>3. /\ reply \in Texts /\ Text(written[c]) \in Texts
      /\ \E r \in Texts : Text(written[c]) = reply \o r
      /\ reply = Reply(c, taken[c]) \o written[c][n]
      /\ Reply(c, taken[c])' = reply /\ Text(written[c])' = Text(written[c])
  <2>1. n \in 0..Len(written[c])
    BY <1>2
  <2>2. reply \in Texts /\ \E r \in Texts : Text(written[c]) = reply \o r
    BY <1>1, <2>1, ReplyIsStart
  <2>3. Text(written[c]) \in Texts /\ reply = Reply(c, taken[c]) \o written[c][n]
    BY <1>1, <1>2, ReplyIsStart
  <2>5. Reply(c, taken[c])' = reply /\ Text(written[c])' = Text(written[c])
    BY <1>2 DEF Reply
  <2> QED BY <2>2, <2>3, <2>5
<1>4. /\ Declined(reply) => Declined(Text(written[c]))
      /\ MayShow(reply) => Begun(Text(written[c]))
  BY <1>3, MoreText
<1> HIDE DEF reply
<1>5. CASE /\ sent[c] \/ MayShow(reply)
           /\ sent'  = [sent EXCEPT ![c] = TRUE]
           /\ shown' = [shown EXCEPT ![c] = IF sent[c] THEN @ \o written[c][n] ELSE reply]
           /\ To(c, "event")
           /\ UNCHANGED <<conn, verdict, answer>>
  <2>1. shown'[c] = reply
    BY <1>1, <1>3, <1>5 DEF AnswerTypeOK, ReplyInv
  <2>2. shown' \in [Calls -> Texts]
    BY <1>1, <1>3, <1>5, <2>1 DEF AnswerTypeOK
  <2>3. AnswerTypeOK'
    BY <1>1, <1>2, <1>5, <2>2 DEF AnswerTypeOK
  <2>4. sent'[c] = TRUE /\ verdict'[c] = "none" /\ Begun(Text(written[c]))
    BY <1>1, <1>2, <1>4, <1>5 DEF AnswerTypeOK, ReplyInv
  <2>5. ReplyInv(c)'
    <3>1. sent[c]' => shown[c]' = Reply(c, taken[c])' /\ Begun(Text(written[c]))'
      BY <1>3, <2>1, <2>4
    <3> QED BY <1>1, <1>2, <2>4, <3>1 DEF ReplyInv
  <2> QED BY <2>3, <2>5
<1>6. CASE /\ ~ sent[c] /\ ~ MayShow(reply)
           /\ IF Len(reply) >= HoldBack
                THEN Conclude(c, "declined") /\ CloseConn(c)
                ELSE UNCHANGED <<place, verdict, conn>>
           /\ UNCHANGED <<sent, shown, answer>>
  <2>1. verdict' = verdict \/ verdict' = [verdict EXCEPT ![c] = "declined"]
    BY <1>6
  <2>2. AnswerTypeOK'
    <3>1. "declined" \in Verdicts
      BY DEF Verdicts
    <3>2. verdict' \in [Calls -> Verdicts]
      BY <1>1, <2>1, <3>1 DEF AnswerTypeOK
    <3> QED BY <1>1, <1>2, <1>6, <3>2 DEF AnswerTypeOK
  <2>3. shown'[c] = <<>> /\ sent'[c] = FALSE
    BY <1>1, <1>2, <1>6 DEF AnswerTypeOK, ReplyInv
  <2>4. \/ place'[c] # "over" /\ verdict'[c] = "none"
        \/ place'[c] = "over" /\ verdict'[c] = "declined" /\ Declined(reply)
    BY <1>1, <1>2, <1>6 DEF AnswerTypeOK, ConnInv, MayShow
  <2>5. ReplyInv(c)'
    BY <1>1, <1>2, <1>3, <1>4, <2>3, <2>4 DEF ReplyInv
  <2> QED BY <2>2, <2>5
<1>7. \/ /\ sent[c] \/ MayShow(reply)
         /\ sent'  = [sent EXCEPT ![c] = TRUE]
         /\ shown' = [shown EXCEPT ![c] = IF sent[c] THEN @ \o written[c][n] ELSE reply]
         /\ To(c, "event")
         /\ UNCHANGED <<conn, verdict, answer>>
      \/ /\ ~ sent[c] /\ ~ MayShow(reply)
         /\ IF Len(reply) >= HoldBack
              THEN Conclude(c, "declined") /\ CloseConn(c)
              ELSE UNCHANGED <<place, verdict, conn>>
         /\ UNCHANGED <<sent, shown, answer>>
  BY DEF ReadPiece, reply
<1> QED BY <1>5, <1>6, <1>7

\* The end of the reply is read.
LEMMA ReadEndReply ==
  ASSUME AnswerInv, NEW c \in Calls, ReadEnd(c)
  PROVE  AnswerTypeOK' /\ ReplyInv(c)'
<1> DEFINE text == Text(written[c])
<1>1. ServiceTypeOK /\ ReplyInv(c) /\ ConnInv /\ AnswerTypeOK
  BY DEF AnswerInv, QueueInv
<1>2. Reply(c, taken[c]) = text /\ text \in Texts
  BY <1>1, ReplyIsStart DEF ReadEnd
<1>3. /\ Strip(text) \in Texts /\ Strip(Strip(text)) = Strip(text)
      /\ Declined(Strip(text)) <=> Declined(text)
  BY <1>2, Stripped
<1>4. /\ Judge(c, Strip(text)) /\ CloseConn(c) /\ at[c] = "out" /\ place[c] = "reading"
      /\ response[c] = "end"
      /\ shown' = [shown EXCEPT ![c] = IF sent[c] \/ Declined(Strip(text)) THEN @ ELSE Strip(text)]
      /\ UNCHANGED <<written, at, response, kind, taken, sent, client>>
  BY <1>2 DEF ReadEnd
<1> HIDE DEF text
<1>5. shown'[c] = IF sent[c] \/ Declined(text) THEN shown[c] ELSE Strip(text)
  BY <1>1, <1>3, <1>4 DEF AnswerTypeOK
<1>6. verdict[c] = "none"
  BY <1>1, <1>4 DEF ReplyInv
<1>7. /\ sent[c] => shown'[c] = shown[c] /\ shown[c] = text
      /\ ~ sent[c] /\ Declined(text) => shown'[c] = <<>>
      /\ ~ Declined(text) => Strip(shown'[c]) = Strip(text)
  BY <1>1, <1>2, <1>3, <1>5, <1>6 DEF ReplyInv
<1>8. ReplyInv(c)'
  BY <1>4, <1>7, JudgedRight DEF text
<1>9. AnswerTypeOK'
  <2>1. shown' \in [Calls -> Texts]
    BY <1>1, <1>3, <1>4, <1>5 DEF AnswerTypeOK
  <2>2. verdict' \in [Calls -> Verdicts]
    <3> DEFINE v == IF Declined(Strip(text)) THEN "declined" ELSE "answered"
    <3>1. v \in Verdicts /\ verdict' = [verdict EXCEPT ![c] = v]
      BY <1>4 DEF Verdicts
    <3> HIDE DEF v
    <3> QED BY <1>1, <3>1 DEF AnswerTypeOK
  <2>3. answer' \in [Calls -> Texts]
    <3>1. <<>> \in Texts
      BY DEF Texts
    <3> QED BY <1>1, <1>3, <1>4, <3>1 DEF AnswerTypeOK
  <2> QED BY <1>1, <1>4, <2>1, <2>2, <2>3 DEF AnswerTypeOK
<1> QED BY <1>8, <1>9

\* The API's other steps for a question.
LEMMA OtherStepsReply ==
  ASSUME AnswerInv, NEW c \in Calls,
         Refused(c) \/ AnswerWhole(c) \/ OpenStream(c) \/ Pull(c) \/ ReadError(c)
           \/ Collect(c) \/ Timeout(c)
  PROVE  AnswerTypeOK' /\ ReplyInv(c)'
<1>1. ServiceTypeOK /\ ReplyInv(c) /\ ConnInv /\ AnswerTypeOK
  BY DEF AnswerInv, QueueInv
<1>2. place[c] # "over" /\ verdict[c] = "none"
  BY <1>1 DEF Refused, AnswerWhole, OpenStream, Pull, ReadError, Collect, Timeout, ReplyInv
<1>3. UNCHANGED <<written, response, kind, taken, sent, shown>>
  BY DEF Refused, AnswerWhole, OpenStream, Pull, ReadError, Collect, Timeout
<1>4. CASE AnswerWhole(c)
  <2>1. kind[c] = "whole"
    BY <1>1, <1>4 DEF AnswerWhole, ReplyInv
  <2>2. /\ Judge(c, Strip(Text(written[c]))) /\ CloseConn(c) /\ at[c] = "out"
        /\ response[c] = "text"
        /\ UNCHANGED <<written, at, response, kind, taken, sent, shown, client>>
    BY <1>4 DEF AnswerWhole
  <2>3. ~ sent[c] => shown'[c] = <<>>
    BY <1>1, <1>2, <2>2 DEF ReplyInv
  <2>4. ReplyInv(c)'
    BY <2>1, <2>2, <2>3, JudgedRight
  <2>5. Strip(Text(written[c])) \in Texts /\ <<>> \in Texts
    <3>1. Text(written[c]) \in Texts
      BY <1>1, ReplyIsStart
    <3> QED BY <3>1, Stripped DEF Texts
  <2>6. verdict' \in [Calls -> Verdicts] /\ answer' \in [Calls -> Texts]
    <3> DEFINE v == IF Declined(Strip(Text(written[c]))) THEN "declined" ELSE "answered"
    <3>1. v \in Verdicts /\ verdict' = [verdict EXCEPT ![c] = v]
      BY <2>2 DEF Verdicts
    <3> HIDE DEF v
    <3>2. PICK t \in Texts : answer' = [answer EXCEPT ![c] = t]
      BY <2>2, <2>5
    <3> QED BY <1>1, <3>1, <3>2 DEF AnswerTypeOK
  <2> QED BY <1>1, <2>2, <2>4, <2>6 DEF AnswerTypeOK
<1>5. CASE OpenStream(c) \/ Pull(c)
  <2>1. UNCHANGED <<verdict, answer, client>>
    BY <1>5 DEF OpenStream, Pull
  <2> QED BY <1>1, <1>2, <1>3, <2>1, MovesOn DEF AnswerTypeOK
<1>6. CASE Refused(c) \/ ReadError(c) \/ Collect(c) \/ Timeout(c)
  <2>1. PICK v \in Verdicts \ {"answered", "declined"} :
          /\ place' = [place EXCEPT ![c] = "over"]
          /\ verdict' = [verdict EXCEPT ![c] = v]
          /\ UNCHANGED <<answer, client>>
    <3> DEFINE Ends(v) == /\ place' = [place EXCEPT ![c] = "over"]
                          /\ verdict' = [verdict EXCEPT ![c] = v]
                          /\ UNCHANGED <<answer, client>>
    <3>1. \E v \in {"busy", "unavailable", "error", "abandoned"} : Ends(v)
      <4>1. CASE Refused(c)   BY <4>1 DEF Refused
      <4>2. CASE ReadError(c) BY <4>2 DEF ReadError
      <4>3. CASE Collect(c)   BY <4>3 DEF Collect
      <4>4. CASE Timeout(c)   BY <4>4 DEF Timeout
      <4> QED BY <1>6, <4>1, <4>2, <4>3, <4>4
    <3>2. {"busy", "unavailable", "error", "abandoned"} \subseteq Verdicts \ {"answered", "declined"}
      BY DEF Verdicts
    <3> QED BY <3>1, <3>2
  <2>2. AnswerTypeOK'
    BY <1>1, <1>3, <2>1 DEF AnswerTypeOK
  <2>3. place'[c] = "over" /\ verdict'[c] \notin {"answered", "declined"}
    BY <1>1, <2>1 DEF AnswerTypeOK, ConnInv
  <2>4. ReplyInv(c)'
    BY <1>1, <1>2, <1>3, <2>3, MovesOn
  <2> QED BY <2>2, <2>4
<1> QED BY <1>4, <1>5, <1>6

\* What the steps for a question change of the others: nothing.
LEMMA OneAtATime ==
  ASSUME AnswerInv, NEW c \in Calls, Handle(c) \/ Timeout(c), NEW d \in Calls \ {c}
  PROVE  ReplyInv(d)'
<1> USE DEF AnswerTypeOK, ConnInv, ServiceTypeOK
<1>1. ServiceTypeOK /\ ConnInv /\ AnswerTypeOK
  BY DEF AnswerInv, QueueInv
<1>2. UNCHANGED <<serviceVars, kind>>
  BY DEF Handle, Refused, AnswerWhole, OpenStream, Pull, ReadPiece, ReadEnd, ReadError, Collect, Timeout
<1>3. conn'[d] = conn[d] /\ place'[d] = place[d] /\ verdict'[d] = verdict[d] /\ answer'[d] = answer[d]
  BY <1>1 DEF Handle, Refused, AnswerWhole, OpenStream, Pull, ReadPiece, ReadEnd, ReadError, Collect, Timeout
<1>4. taken'[d] = taken[d] /\ sent'[d] = sent[d] /\ shown'[d] = shown[d]
  BY <1>1 DEF Handle, Refused, AnswerWhole, OpenStream, Pull, ReadPiece, ReadEnd, ReadError, Collect, Timeout
<1> QED BY <1>2, <1>3, <1>4, OthersReply

\* Every step keeps the invariant.
LEMMA ReplyStep ==
  ASSUME AnswerInv, [Next]_vars
  PROVE  AnswerTypeOK' /\ \A c \in Calls : ReplyInv(c)'
<1>1. ServiceTypeOK /\ ConnInv /\ AnswerTypeOK /\ \A c \in Calls : ReplyInv(c)
  BY DEF AnswerInv, QueueInv
<1>2. CASE UNCHANGED vars
  BY <1>1, <1>2 DEF vars, answerVars, AnswerTypeOK, ReplyInv, Reply, Answered
<1>3. CASE ServiceStep /\ UNCHANGED answerVars
  BY <1>1, <1>3, ServiceKeepsReply DEF answerVars, AnswerTypeOK
<1>4. ASSUME NEW c \in Calls, Ask(c)
      PROVE  AnswerTypeOK' /\ \A d \in Calls : ReplyInv(d)'
  <2>1. /\ place[c] = "idle" /\ verdict[c] = "none"
        /\ UNCHANGED <<written, response, kind, client, taken, sent, shown, answer>>
    <3>1. place[c] = "idle" /\ UNCHANGED <<client, taken, sent, shown, answer>>
      BY <1>4 DEF Ask
    <3>2. UNCHANGED serviceView => UNCHANGED <<written, response, kind>>
      OBVIOUS
    <3>3. Arrive(c) => UNCHANGED <<written, response, kind>>
      BY DEF Arrive
    <3>4. UNCHANGED <<written, response, kind>>
      BY <1>4, <3>2, <3>3 DEF Ask
    <3> QED BY <1>1, <3>1, <3>4 DEF ReplyInv
  <2>2. CASE To(c, "calling") /\ Arrive(c) /\ UNCHANGED verdict
    <3>1. /\ place' = [place EXCEPT ![c] = "calling"]
          /\ conn' = [conn EXCEPT ![c] = "open"]
          /\ at' = [at EXCEPT ![c] = "asked"]
      BY <2>2 DEF Arrive, Goes
    <3>2. AnswerTypeOK'
      BY <1>1, <2>1, <2>2 DEF AnswerTypeOK
    <3>3. ReplyInv(c)'
      BY <1>1, <2>1, <2>2, MovesOn
    <3>4. ASSUME NEW d \in Calls \ {c} PROVE ReplyInv(d)'
      <4>1. place'[d] = place[d] /\ at'[d] = at[d] /\ conn'[d] = conn[d]
        BY <1>1, <3>1 DEF ConnInv, ServiceTypeOK
      <4> QED BY <2>1, <2>2, <4>1, OthersReply
    <3> QED BY <3>2, <3>3, <3>4
  <2>3. ASSUME NEW v \in {"sourceless", "unavailable"}, UNCHANGED <<at, conn>>,
               place' = [place EXCEPT ![c] = "over"], verdict' = [verdict EXCEPT ![c] = v]
        PROVE  AnswerTypeOK' /\ \A d \in Calls : ReplyInv(d)'
    <3>1. v \in Verdicts \ {"answered", "declined"}
      BY <2>3 DEF Verdicts
    <3>2. AnswerTypeOK'
      BY <1>1, <2>1, <2>3, <3>1 DEF AnswerTypeOK
    <3>3. ReplyInv(c)'
      <4>1. place'[c] = "over" /\ verdict'[c] = v
        BY <1>1, <2>3 DEF ConnInv, AnswerTypeOK
      <4> QED BY <1>1, <2>1, <3>1, <4>1, MovesOn
    <3>4. ASSUME NEW d \in Calls \ {c} PROVE ReplyInv(d)'
      <4>1. place'[d] = place[d] /\ verdict'[d] = verdict[d]
        BY <1>1, <2>3 DEF ConnInv, AnswerTypeOK
      <4> QED BY <2>1, <2>3, <4>1, OthersReply
    <3> QED BY <3>2, <3>3, <3>4
  <2>4. \/ To(c, "calling") /\ Arrive(c) /\ UNCHANGED verdict
        \/ \E v \in {"sourceless", "unavailable"} :
             /\ place' = [place EXCEPT ![c] = "over"] /\ verdict' = [verdict EXCEPT ![c] = v]
             /\ UNCHANGED <<at, conn>>
    <3>1. UNCHANGED serviceView => UNCHANGED <<at, conn>>
      OBVIOUS
    <3>2. \/ To(c, "calling") /\ Arrive(c) /\ UNCHANGED verdict
          \/ (\E v \in {"sourceless", "unavailable"} : Conclude(c, v)) /\ UNCHANGED serviceView
      BY <1>4 DEF Ask
    <3> QED BY <3>1, <3>2
  <2> QED BY <2>2, <2>3, <2>4
<1>5. ASSUME NEW c \in Calls, Disconnect(c)
      PROVE  AnswerTypeOK' /\ \A d \in Calls : ReplyInv(d)'
  BY <1>1, <1>5 DEF Disconnect, AnswerTypeOK, ReplyInv, Reply, Answered
<1>6. ASSUME NEW c \in Calls, Handle(c) \/ Timeout(c)
      PROVE  AnswerTypeOK' /\ \A d \in Calls : ReplyInv(d)'
  <2>1. AnswerTypeOK' /\ ReplyInv(c)'
    BY <1>6, ReadPieceReply, ReadEndReply, OtherStepsReply DEF Handle
  <2> QED BY <1>6, <2>1, OneAtATime
<1> QED BY <1>2, <1>3, <1>4, <1>5, <1>6 DEF Next

\* The invariant is inductive, with what is known of the service.
THEOREM AnswersInvariant == Spec => []AnswerInv
<1>1. Init => AnswerInv
  BY InitQueue, InitConn, InitReply DEF Init, AnswerInv
<1>2. AnswerInv /\ [Next]_vars => AnswerInv'
  <2> SUFFICES ASSUME AnswerInv, [Next]_vars PROVE AnswerInv'
    OBVIOUS
  <2>1. ConnInv' /\ QueueInv'
    BY AnswersStep, QueueStep DEF AnswerInv
  <2> QED BY <2>1, ReplyStep DEF AnswerInv
<1> QED BY <1>1, <1>2, PTL DEF Spec

\* The variables' types.
THEOREM AnswersTyped == Spec => []TypeOK
<1>1. ASSUME AnswerInv PROVE TypeOK
  <2>1. \A c \in Calls : taken[c] \in 0..MaxPieces
    <3> TAKE c \in Calls
    <3>1. /\ taken[c] \in Nat /\ taken[c] <= Len(written[c]) /\ Len(written[c]) <= MaxPieces
          /\ Len(written[c]) \in Nat
      BY <1>1 DEF AnswerInv, QueueInv, ServiceTypeOK, ConnInv, ReplyInv
    <3> QED BY <3>1, ServiceAssumption
  <2>2. taken \in [Calls -> 0..MaxPieces]
    BY <1>1, <2>1 DEF AnswerInv, ConnInv
  <2> QED BY <1>1, <2>2 DEF AnswerInv, QueueInv, ConnInv, AnswerTypeOK, TypeOK, Texts
<1> QED BY <1>1, AnswersInvariant, PTL

\* A refusal at the start of a reply never reaches the user, however the model
\* cuts its pieces and however many there are.
THEOREM RefusalsHeldBack == Spec => []RefusalHeldBack
<1>1. ASSUME AnswerInv PROVE RefusalHeldBack
  <2> SUFFICES ASSUME NEW c \in Calls, shown[c] # <<>>
               PROVE  ~ Declined(SubSeq(Text(written[c]), 1, Min({HoldBack, Len(Text(written[c]))})))
    BY DEF RefusalHeldBack
  <2> DEFINE t == Text(written[c])
             k == Min({HoldBack, Len(t)})
  <2>1. ReplyInv(c) /\ t \in Texts
    BY <1>1, ReplyIsStart DEF AnswerInv, QueueInv
  <2>2. Len(t) \in Nat /\ HoldBack \in Nat \ {0}
    BY <2>1, AnswersAssumption DEF Texts
  <2>3. k = IF HoldBack <= Len(t) THEN HoldBack ELSE Len(t)
    <3> HIDE DEF t
    <3> QED BY <2>2 DEF Min
  <2>4. Begun(t) \/ ~ Declined(t)
    BY <2>1 DEF ReplyInv, Answered
  <2> HIDE DEF t, k
  <2>5. CASE Begun(t)
    BY <2>2, <2>3, <2>5 DEF Begun, k, t
  <2>6. CASE ~ Declined(t)
    <3>1. k \in 0..Len(t)
      BY <2>2, <2>3
    <3>2. /\ SubSeq(t, 1, k) \in Texts /\ Len(SubSeq(t, 1, k)) = k
          /\ \A i \in 1..k : SubSeq(t, 1, k)[i] = t[i] /\ i \in 1..Len(t)
      BY <2>1, <2>2, <3>1 DEF Texts
    <3>3. ~ Declined(SubSeq(t, 1, k))
      BY <2>1, <2>6, <3>2, DeclinedToken
    <3> QED BY <3>3 DEF k, t
  <2> QED BY <2>4, <2>5, <2>6
<1> QED BY <1>1, AnswersInvariant, PTL

\* Both endpoints call a reply answered exactly if it holds no refusal, and
\* what was shown piece by piece is the final answer.
THEOREM VerdictsFit == Spec => []VerdictFitsReply
<1>1. AnswerInv => VerdictFitsReply
  BY DEF AnswerInv, ReplyInv, Answered, VerdictFitsReply
<1> QED BY <1>1, AnswersInvariant, PTL

=============================================================================
