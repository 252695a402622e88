------------------------ MODULE SharedOutcomesProofs ------------------------
(***************************************************************************)
(* Proofs about SharedOutcomes for any number of recorders and readers and *)
(* any number of attempts boto3 makes.                                     *)
(***************************************************************************)
EXTENDS SharedOutcomes, TLAPS

\* The type invariant needs to know that only recorders put, and that a put
\* under way has attempts left.
Typed ==
  /\ TypeOK
  /\ \A c \in Calls :
       /\ pc[c] \in {"idle", "get"} => sent[c] = 0
       /\ pc[c] = "put" => c \in Recorders /\ sent[c] < Attempts

\* Every step keeps the types.
LEMMA TypedStep == Typed /\ [Next]_vars => Typed'
<1> SUFFICES ASSUME Typed, [Next]_vars PROVE Typed'
  OBVIOUS
<1>0. serial' \in BOOLEAN
  BY DEF Typed, TypeOK, Next, vars
<1> USE <1>0, AttemptsType DEF Typed, TypeOK, Move
<1>1. ASSUME NEW c \in Calls, Begin(c) PROVE Typed'
  BY <1>1 DEF Begin, Over
<1>2. ASSUME NEW c \in Calls, Get(c) PROVE Typed'
  BY <1>2 DEF Get
<1>3. ASSUME NEW c \in Calls, GetRaises(c) PROVE Typed'
  BY <1>3 DEF GetRaises
<1>4. ASSUME NEW c \in Calls, Put(c) PROVE Typed'
  BY <1>4 DEF Put
<1>5. ASSUME NEW c \in Calls, PutUnanswered(c) PROVE Typed'
  <2>0. pc[c] = "put" /\ c \in Recorders /\ sent[c] \in 0 .. Attempts - 1
    BY <1>5 DEF PutUnanswered
  <2>1. object' \in Seq(Recorders)
    <3>1. object' = object \/ object' = Append(events[c], c)
      BY <1>5 DEF PutUnanswered
    <3>2. object \in Seq(Recorders) /\ events[c] \in Seq(Recorders)
      OBVIOUS
    <3>3. Append(events[c], c) \in Seq(Recorders)
      BY <2>0, <3>2
    <3> QED
      BY <3>1, <3>2, <3>3, Zenon
  <2>2. sent' \in [Calls -> 0 .. Attempts] /\ sent'[c] = sent[c] + 1
        /\ \A d \in Calls \ {c} : sent'[d] = sent[d] /\ pc'[d] = pc[d]
    BY <1>5, <2>0 DEF PutUnanswered
  <2>3. pc'[c] = IF sent'[c] < Attempts THEN "put" ELSE "error"
    BY <1>5 DEF PutUnanswered
  <2>4. pc' \in [Calls -> {"idle", "get", "put", "answer", "ok", "error"}]
    BY <1>5 DEF PutUnanswered
  <2>6. UNCHANGED <<events, before>>
    BY <1>5 DEF PutUnanswered
  <2>7. TypeOK'
    BY <2>1, <2>2, <2>4, <2>6
  <2>8. \A d \in Calls : /\ pc'[d] \in {"idle", "get"} => sent'[d] = 0
                         /\ pc'[d] = "put" => d \in Recorders /\ sent'[d] < Attempts
    BY <2>0, <2>2, <2>3
  <2> QED
    BY <2>7, <2>8
<1>6. ASSUME NEW c \in Calls, Answer(c) PROVE Typed'
  BY <1>6 DEF Answer
<1>7. ASSUME NEW c \in Calls, TimeOut(c) PROVE Typed'
  BY <1>7 DEF TimeOut
<1>8. CASE UNCHANGED vars
  BY <1>8 DEF vars
<1> QED
  BY <1>1, <1>2, <1>3, <1>4, <1>5, <1>6, <1>7, <1>8 DEF Next, Step

\* The types of the object and of the calls on it.
THEOREM Typing == Spec => []TypeOK
<1>1. Init => Typed
  BY AttemptsType DEF Init, Typed, TypeOK
<1>2. Typed => TypeOK
  BY DEF Typed
<1> QED
  BY <1>1, <1>2, TypedStep, PTL DEF Spec
-----------------------------------------------------------------------------
(***************************************************************************)
(* Histories are sets of ended calls, so that calls which overlap always   *)
(* will; the object keeps the outcome of an undisturbed recorder because   *)
(* every later writer holds it, and a later reader holds it because the    *)
(* object does.                                                            *)
(***************************************************************************)
HistoryOK == \A c \in Calls : before[c] \subseteq Over /\ c \notin before[c]

InObject == \A c \in Recorders :
  pc[c] \in {"answer", "ok"} /\ Undisturbed(c) => Contains(object, c)

SeenInv == Typed /\ HistoryOK /\ InObject /\ AcknowledgedIsSeen

\* A call that is over stays as it is, one that has begun is never idle again
\* and does not read again, and its history is fixed when it begins.
LEMMA CallStep ==
  ASSUME TypeOK, [Next]_vars, NEW d \in Calls
  PROVE  /\ d \in Over => pc'[d] = pc[d]
         /\ pc[d] # "idle" => pc'[d] # "idle" /\ before'[d] = before[d]
         /\ pc[d] \notin {"idle", "get"} => pc'[d] \notin {"idle", "get"}
         /\ \/ before'[d] = before[d]
            \/ before'[d] = Over /\ d \notin Over
<1> DEFINE Goal ==
      /\ d \in Over => pc'[d] = pc[d]
      /\ pc[d] # "idle" => pc'[d] # "idle" /\ before'[d] = before[d]
      /\ pc[d] \notin {"idle", "get"} => pc'[d] \notin {"idle", "get"}
      /\ \/ before'[d] = before[d]
         \/ before'[d] = Over /\ d \notin Over
<1> SUFFICES Goal
  OBVIOUS
<1> USE DEF TypeOK, Move, Over
<1>1. ASSUME NEW c \in Calls, Begin(c) PROVE Goal
  BY <1>1 DEF Begin
<1>2. ASSUME NEW c \in Calls, Get(c) \/ GetRaises(c) PROVE Goal
  BY <1>2 DEF Get, GetRaises
<1>3. ASSUME NEW c \in Calls, Put(c) \/ Answer(c) PROVE Goal
  BY <1>3 DEF Put, Answer
<1>4. ASSUME NEW c \in Calls, PutUnanswered(c) PROVE Goal
  BY <1>4 DEF PutUnanswered
<1>5. ASSUME NEW c \in Calls, TimeOut(c) PROVE Goal
  BY <1>5 DEF TimeOut
<1>6. CASE UNCHANGED vars
  BY <1>6 DEF vars
<1> QED
  BY <1>1, <1>2, <1>3, <1>4, <1>5, <1>6 DEF Next, Step

\* Histories stay sets of ended calls.
LEMMA HistoryStep == TypeOK /\ HistoryOK /\ [Next]_vars => HistoryOK'
<1> SUFFICES ASSUME TypeOK, HistoryOK, [Next]_vars, NEW c \in Calls
             PROVE  before'[c] \subseteq Over' /\ c \notin before'[c]
  BY DEF HistoryOK
<1>1. Over \subseteq Over'
  BY CallStep DEF Over
<1>2. before'[c] = before[c] \/ (before'[c] = Over /\ c \notin Over)
  BY CallStep
<1> QED
  BY <1>1, <1>2 DEF HistoryOK

\* An undisturbed call was undisturbed before the step.
LEMMA UndisturbedBefore ==
  ASSUME TypeOK, [Next]_vars, NEW c \in Recorders, Undisturbed(c)'
  PROVE  Undisturbed(c)
<1> SUFFICES ASSUME NEW d \in Recorders, Overlap(c, d) PROVE Overlap(c, d)'
  BY DEF Undisturbed
<1>1. /\ pc'[c] # "idle" /\ before'[c] = before[c]
      /\ pc'[d] # "idle" /\ before'[d] = before[d]
  BY CallStep DEF Overlap, Calls
<1> QED
  BY <1>1 DEF Overlap

\* Only a put changes the object, to what its call read and the call itself.
LEMMA ObjectStep ==
  ASSUME Typed, [Next]_vars
  PROVE  \/ object' = object
         \/ \E d \in Recorders : /\ pc[d] = "put" /\ pc'[d] \notin {"idle", "get"}
                                 /\ events[d] \in Seq(Recorders)
                                 /\ object' = Append(events[d], d)
                                 /\ before' = before /\ events' = events
<1> DEFINE Goal == \/ object' = object
                   \/ \E d \in Recorders : /\ pc[d] = "put" /\ pc'[d] \notin {"idle", "get"}
                                           /\ events[d] \in Seq(Recorders)
                                           /\ object' = Append(events[d], d)
                                           /\ before' = before /\ events' = events
<1> SUFFICES Goal
  OBVIOUS
<1>1. ASSUME NEW d \in Calls, Put(d) PROVE Goal
  BY <1>1 DEF Put, Move, Typed, TypeOK
<1>2. ASSUME NEW d \in Calls, PutUnanswered(d) PROVE Goal
  BY <1>2 DEF PutUnanswered, Typed, TypeOK
<1> QED
  BY <1>1, <1>2 DEF Next, Step, Begin, Get, GetRaises, Answer, TimeOut, vars

\* The outcome of an undisturbed recorder stays in the object.
LEMMA InObjectStep == SeenInv /\ [Next]_vars => InObject'
<1> SUFFICES ASSUME SeenInv, [Next]_vars, NEW c \in Recorders,
                    pc'[c] \in {"answer", "ok"}, Undisturbed(c)'
             PROVE  Contains(object', c)
  BY DEF InObject, Contains
<1>0. Typed /\ TypeOK /\ c \in Calls /\ Undisturbed(c)
  BY UndisturbedBefore DEF SeenInv, Calls, Typed
<1>1. CASE object' # object
  <2>1. PICK d \in Recorders :
          /\ pc[d] = "put" /\ events[d] \in Seq(Recorders)
          /\ object' = Append(events[d], d)
          /\ before' = before
    BY <1>0, <1>1, ObjectStep
  <2>2. CASE c = d
    BY <2>1, <2>2 DEF Contains
  <2>3. CASE c # d
    <3>1. pc[c] # "idle"
      BY <1>0, <2>1, <2>3 DEF Next, Step, Begin, Get, GetRaises, Put, PutUnanswered, Answer,
                              TimeOut, Move, TypeOK, vars
    <3>2. d \notin before[c]
      BY <1>0, <2>1 DEF SeenInv, HistoryOK, Over
    <3>3. c \in before[d]
      BY <1>0, <2>1, <2>3, <3>1, <3>2 DEF Undisturbed, Overlap
    <3>4. pc[c] = "ok"
      BY <1>0, <3>3, CallStep DEF SeenInv, HistoryOK, Over, Calls
    <3>5. Contains(events[d], c)
      BY <1>0, <2>1, <3>3, <3>4 DEF SeenInv, AcknowledgedIsSeen, Calls, HasRead
    <3> QED
      BY <2>1, <3>5 DEF Contains
  <2> QED
    BY <2>2, <2>3
<1>2. CASE object' = object
  <2>1. CASE pc[c] \in {"answer", "ok"}
    BY <1>0, <1>2, <2>1 DEF SeenInv, InObject
  <2>2. CASE pc[c] \notin {"answer", "ok"}
    <3>1. Put(c)
      BY <1>0, <2>2 DEF Next, Step, Begin, Get, GetRaises, Put, PutUnanswered, Answer,
                        TimeOut, Move, Typed, TypeOK, vars
    <3>2. object' = Append(events[c], c) /\ events[c] \in Seq(Recorders)
      BY <1>0, <3>1 DEF Put, TypeOK
    <3> QED
      BY <3>2 DEF Contains
  <2> QED
    BY <2>1, <2>2
<1> QED
  BY <1>1, <1>2

\* A call that got past its read holds every undisturbed earlier outcome.
LEMMA SeenStep == SeenInv /\ [Next]_vars => AcknowledgedIsSeen'
<1> SUFFICES ASSUME SeenInv, [Next]_vars, NEW c \in Recorders, NEW d \in Calls,
                    pc'[c] = "ok", Undisturbed(c)', c \in before'[d],
                    pc'[d] \in {"put", "answer", "ok"}
             PROVE  Contains(events'[d], c)
  BY DEF AcknowledgedIsSeen, HasRead, Contains
<1>0. Typed /\ TypeOK /\ c \in Calls /\ Undisturbed(c)
  BY UndisturbedBefore DEF SeenInv, Calls, Typed
<1>1. pc[d] # "idle"
  BY <1>0 DEF Next, Step, Begin, Get, GetRaises, Put, PutUnanswered, Answer, TimeOut, Move,
              TypeOK, vars
<1>2. c \in before[d] /\ pc[c] = "ok"
  <2>1. c \in before[d]
    BY <1>0, <1>1, CallStep
  <2> QED
    BY <1>0, <2>1, CallStep DEF SeenInv, HistoryOK
<1>3. CASE pc[d] = "get"
  <2>1. events'[d] = object
    BY <1>0, <1>3 DEF Next, Step, Begin, Get, GetRaises, Put, PutUnanswered, Answer, TimeOut,
                      Move, TypeOK, vars
  <2> QED
    BY <1>0, <1>2, <2>1 DEF SeenInv, InObject
<1>4. CASE pc[d] # "get"
  <2>1. events'[d] = events[d]
    BY <1>0, <1>4 DEF Next, Step, Begin, Get, GetRaises, Put, PutUnanswered, Answer, TimeOut,
                      Move, TypeOK, vars
  <2>2. pc[d] \in {"put", "answer", "ok"}
    BY <1>0, <1>1, <1>4, CallStep DEF Over, TypeOK
  <2> QED
    BY <1>0, <1>2, <2>1, <2>2 DEF SeenInv, AcknowledgedIsSeen, HasRead
<1> QED
  BY <1>3, <1>4

\* An outcome whose recording overlapped no other recording is given to every
\* call that begins after its acknowledgement and is not answered by an error.
THEOREM AcknowledgedOutcomesAreSeen == Spec => []AcknowledgedIsSeen
<1>1. Init => SeenInv
  BY AttemptsType DEF Init, SeenInv, Typed, TypeOK, HistoryOK, InObject, AcknowledgedIsSeen,
                      Calls
<1>2. SeenInv /\ [Next]_vars => SeenInv'
  BY TypedStep, HistoryStep, InObjectStep, SeenStep DEF SeenInv, Typed
<1>3. SeenInv => AcknowledgedIsSeen
  BY DEF SeenInv
<1> QED
  BY <1>1, <1>2, <1>3, PTL DEF Spec
-----------------------------------------------------------------------------
(***************************************************************************)
(* The order of the object.  Every list, stored or read, holds calls that  *)
(* have put, each once and none before one that had ended when it began;    *)
(* a call about to put has not put before it read.                          *)
(***************************************************************************)
Orderly(doc) ==
  /\ \A i \in 1 .. Len(doc) : pc[doc[i]] \notin {"idle", "get"}
  /\ \A i, j \in 1 .. Len(doc) :
       /\ doc[i] = doc[j] => i = j
       /\ doc[i] \in before[doc[j]] => i < j

OrderInv ==
  /\ Typed /\ HistoryOK
  /\ Orderly(object)
  /\ \A c \in Calls : Orderly(events[c])
  /\ \A c \in Recorders : pc[c] = "put" => ~Contains(events[c], c)

\* A list stays orderly: its calls neither read again nor change their history.
LEMMA OrderlyStable ==
  ASSUME TypeOK, [Next]_vars, NEW doc \in Seq(Recorders), Orderly(doc)
  PROVE  Orderly(doc)'
<1>1. ASSUME NEW i \in 1 .. Len(doc)
      PROVE  pc'[doc[i]] \notin {"idle", "get"} /\ before'[doc[i]] = before[doc[i]]
  <2>1. doc[i] \in Calls /\ pc[doc[i]] \notin {"idle", "get"}
    BY DEF Calls, Orderly
  <2> QED
    BY <2>1, CallStep
<1> QED
  BY <1>1 DEF Orderly

\* What a put stores is orderly.
LEMMA OrderlyPut ==
  ASSUME OrderInv, [Next]_vars, NEW d \in Recorders,
         pc[d] = "put", pc'[d] \notin {"idle", "get"}, before' = before,
         object' = Append(events[d], d)
  PROVE  Orderly(object)'
<1> DEFINE doc == events[d]
<1> DEFINE new == Append(doc, d)
<1>0. TypeOK /\ d \in Calls /\ doc \in Seq(Recorders) /\ Orderly(doc) /\ ~Contains(doc, d)
  BY DEF OrderInv, Typed, TypeOK, Calls
<1>1. Orderly(doc)'
  <2>1. \A x \in Seq(Recorders) : Orderly(x) => (\A i \in 1 .. Len(x) :
          pc'[x[i]] \notin {"idle", "get"})
    <3> SUFFICES ASSUME NEW x \in Seq(Recorders), Orderly(x), NEW i \in 1 .. Len(x)
                 PROVE  pc'[x[i]] \notin {"idle", "get"}
      OBVIOUS
    <3>1. x[i] \in Calls /\ pc[x[i]] \notin {"idle", "get"}
      BY DEF Orderly, Calls
    <3> QED
      BY <1>0, <3>1, CallStep
  <2>2. events' = events \/ events'[d] = events[d]
    BY <1>0 DEF Next, Step, Begin, Get, GetRaises, Put, PutUnanswered, Answer, TimeOut, Move,
                TypeOK, vars
  <2> QED
    BY <1>0, <2>1, <2>2 DEF Orderly
<1>2. events'[d] = events[d]
  BY <1>0 DEF Next, Step, Begin, Get, GetRaises, Put, PutUnanswered, Answer, TimeOut, Move,
              TypeOK, vars
<1>3. \A i \in 1 .. Len(new) : \/ i \in 1 .. Len(doc) /\ new[i] = doc[i]
                               \/ i = Len(doc) + 1 /\ new[i] = d
  BY <1>0
<1>4. \A i \in 1 .. Len(doc) : doc[i] \in Calls /\ doc[i] # d /\ d \notin before[doc[i]]
  BY <1>0 DEF OrderInv, HistoryOK, Over, Calls, Contains
<1>5. d \notin before[d]
  BY <1>0 DEF OrderInv, HistoryOK
<1>6. \A i \in 1 .. Len(new) : pc'[new[i]] \notin {"idle", "get"}
  BY <1>1, <1>2, <1>3 DEF Orderly
<1>7. \A i, j \in 1 .. Len(new) :
        (new[i] = new[j] => i = j) /\ (new[i] \in before[new[j]] => i < j)
  BY <1>0, <1>3, <1>4, <1>5 DEF Orderly
<1> QED
  BY <1>6, <1>7 DEF Orderly

\* The order of the object and of every list read from it is kept.
LEMMA OrderStep == OrderInv /\ [Next]_vars => OrderInv'
<1> SUFFICES ASSUME OrderInv, [Next]_vars PROVE OrderInv'
  OBVIOUS
<1>1. Typed /\ TypeOK /\ Typed' /\ HistoryOK'
  BY TypedStep, HistoryStep DEF OrderInv, Typed
<1>2. Orderly(object)'
  <2>1. CASE object' = object
    <3>1. ASSUME NEW doc \in Seq(Recorders), Orderly(doc), object' = doc
          PROVE  Orderly(object)'
      BY <1>1, <3>1, OrderlyStable DEF Orderly
    <3> QED
      BY <1>1, <2>1, <3>1 DEF OrderInv, TypeOK
  <2>2. CASE object' # object
    BY <1>1, <2>2, ObjectStep, OrderlyPut
  <2> QED
    BY <2>1, <2>2
<1>3. ASSUME NEW c \in Calls PROVE Orderly(events[c])'
  <2>1. events'[c] = events[c] \/ events'[c] = object
    BY <1>1 DEF Next, Step, Begin, Get, GetRaises, Put, PutUnanswered, Answer, TimeOut,
                Move, TypeOK, vars
  <2>2. ASSUME NEW doc \in Seq(Recorders), Orderly(doc), events'[c] = doc
        PROVE  Orderly(events[c])'
    BY <1>1, <2>2, OrderlyStable DEF Orderly
  <2> QED
    BY <1>1, <2>1, <2>2 DEF OrderInv, TypeOK
<1>4. ASSUME NEW c \in Recorders, pc'[c] = "put" PROVE ~Contains(events'[c], c)
  <2>0. c \in Calls
    BY DEF Calls
  <2>1. CASE pc[c] = "put"
    <3>1. events'[c] = events[c]
      BY <1>1, <2>0, <2>1 DEF Next, Step, Begin, Get, GetRaises, Put, PutUnanswered, Answer,
                              TimeOut, Move, TypeOK, vars
    <3> QED
      BY <2>1, <3>1 DEF OrderInv
  <2>2. CASE pc[c] # "put"
    <3>1. pc[c] = "get" /\ events'[c] = object
      BY <1>1, <1>4, <2>0, <2>2 DEF Next, Step, Begin, Get, GetRaises, Put, PutUnanswered,
                                    Answer, TimeOut, Move, TypeOK, vars
    <3> QED
      BY <3>1 DEF OrderInv, Orderly, Contains
  <2> QED
    BY <2>1, <2>2
<1> QED
  BY <1>1, <1>2, <1>3, <1>4 DEF OrderInv, Contains

\* However calls overlap, are sent again or fail, the object holds no outcome
\* twice and an outcome whose call had ended when another's began before it.
THEOREM OutcomesInOrder == Spec => []InOrder
<1>1. Init => OrderInv
  BY AttemptsType DEF Init, OrderInv, Typed, TypeOK, HistoryOK, Orderly, Calls
<1>2. OrderInv => InOrder
  BY DEF OrderInv, Orderly, InOrder
<1> QED
  BY <1>1, <1>2, OrderStep, PTL DEF Spec
-----------------------------------------------------------------------------
(***************************************************************************)
(* The object implements OutcomeJournal where outcomes are recorded one at *)
(* a time.  The outcome of a recorder takes effect with the first put that *)
(* is applied, answered or not; the ones sent after it write the same list *)
(* again, because nobody else has written since the recorder read.         *)
(***************************************************************************)
UnderWay == {"get", "put", "answer"}

OneAtATime == \A c, d \in Recorders : pc[c] \in UnderWay /\ pc[d] \in UnderWay => c = d

PutIsNext == \A c \in Recorders :
  pc[c] = "put" => object = events[c] \/ object = Append(events[c], c)

TurnInv == OrderInv /\ (serial => OneAtATime /\ PutIsNext)

\* A recorder takes a step only in turn, so nobody puts between its read and
\* the last attempt of its put.
LEMMA TurnStep == TurnInv /\ [Next]_vars => TurnInv'
<1> SUFFICES ASSUME TurnInv, [Next]_vars, serial PROVE OneAtATime' /\ PutIsNext'
  BY OrderStep DEF TurnInv, Next, vars
<1>0. Typed /\ TypeOK /\ OneAtATime /\ PutIsNext
  BY DEF TurnInv, OrderInv, Typed
<1> USE DEF Move, UnderWay
<1>1. CASE UNCHANGED vars
  BY <1>0, <1>1 DEF vars, OneAtATime, PutIsNext
<1>2. ASSUME NEW c \in Calls, InTurn(c), Step(c) PROVE OneAtATime' /\ PutIsNext'
  <2>1. ASSUME NEW d \in Recorders, d # c PROVE pc'[d] = pc[d] /\ events'[d] = events[d]
    BY <1>0, <1>2, <2>1 DEF TypeOK, Calls, Step, Begin, Get, GetRaises, Put, PutUnanswered,
                            Answer, TimeOut
  <2>2. pc[c] # "idle" => pc[c] \in UnderWay
    BY <1>0, <1>2 DEF TypeOK, Step, Begin, Get, GetRaises, Put, PutUnanswered, Answer, TimeOut
  <2>3. OneAtATime'
    BY <1>0, <1>2, <2>1, <2>2 DEF InTurn, OneAtATime
  <2>4. ASSUME NEW d \in Recorders, pc'[d] = "put"
        PROVE  object' = events'[d] \/ object' = Append(events'[d], d)
    <3>1. CASE d # c
      <4>1. object' = object
        BY <1>0, <1>2, <2>1, <2>4, <3>1
        DEF Typed, TypeOK, Calls, OneAtATime, Step, Begin, Get, GetRaises, Put,
            PutUnanswered, Answer, TimeOut
      <4> QED
        BY <1>0, <2>1, <2>4, <3>1, <4>1 DEF PutIsNext
    <3>2. CASE d = c
      <4>1. Get(c) \/ PutUnanswered(c)
        BY <1>0, <1>2, <2>4, <3>2
        DEF TypeOK, Step, Begin, Get, GetRaises, Put, PutUnanswered, Answer, TimeOut
      <4>2. CASE Get(c)
        BY <1>0, <3>2, <4>2 DEF Get, TypeOK
      <4>3. CASE PutUnanswered(c)
        BY <1>0, <3>2, <4>3 DEF PutUnanswered, PutIsNext
      <4> QED
        BY <4>1, <4>2, <4>3
    <3> QED
      BY <3>1, <3>2
  <2> QED
    BY <2>3, <2>4 DEF PutIsNext
<1> QED
  BY <1>1, <1>2 DEF Next

\* The outcome of a call that has not put yet is not in the object; that of one
\* that puts is, exactly when a put of it was applied.
LEMMA Applied ==
  ASSUME TurnInv, serial, NEW c \in Recorders
  PROVE  /\ pc[c] \in {"idle", "get"} => ~Contains(object, c)
         /\ pc[c] = "put" => (Contains(object, c) <=> object = Append(events[c], c))
<1>1. pc[c] \in {"idle", "get"} => ~Contains(object, c)
  BY DEF TurnInv, OrderInv, Orderly, Contains
<1>2. ASSUME pc[c] = "put" PROVE Contains(object, c) <=> object = Append(events[c], c)
  <2>1. events[c] \in Seq(Recorders) /\ ~Contains(events[c], c)
    BY <1>2 DEF TurnInv, OrderInv, Typed, TypeOK, Calls
  <2>2. Contains(Append(events[c], c), c)
    BY <2>1 DEF Contains
  <2> QED
    BY <1>2, <2>1, <2>2 DEF TurnInv, PutIsNext
<1> QED
  BY <1>1, <1>2

\* The phases of the other calls do not depend on a call that takes a step.
LEMMA OtherPhases ==
  ASSUME TurnInv, serial, NEW c \in Calls, InTurn(c), Step(c), NEW d \in Calls, d # c
  PROVE  Phase(d)' = Phase(d)
<1>0. Typed /\ TypeOK /\ OneAtATime
  BY DEF TurnInv, OrderInv, Typed
<1>1. pc'[d] = pc[d]
  BY <1>0 DEF TypeOK, Step, Begin, Get, GetRaises, Put, PutUnanswered, Answer, TimeOut, Move
<1>2. CASE object' = object
  BY <1>1, <1>2 DEF Phase
<1>3. CASE object' # object
  <2>1. c \in Recorders /\ pc[c] = "put"
    BY <1>0, <1>3 DEF Typed, Step, Begin, Get, GetRaises, Put, PutUnanswered, Answer,
                      TimeOut, Move
  <2>2. d \in Recorders => pc[d] \in {"idle", "ok", "error"}
    BY <1>0, <2>1 DEF OneAtATime, UnderWay, TypeOK
  <2> QED
    BY <1>1, <2>2 DEF Phase
<1> QED
  BY <1>2, <1>3

\* Each step of a call is the step of the journal that it stands for, or none.
LEMMA CallImplementsJournal ==
  ASSUME TurnInv, serial, serial', NEW c \in Calls, InTurn(c), Step(c)
  PROVE  [Promise!Next]_(Promise!vars)
<1>0. Typed /\ TypeOK
  BY DEF TurnInv, OrderInv, Typed
<1>7. \A d \in Calls : d # c => Phase(d)' = Phase(d)
  BY OtherPhases
<1> USE RolesDisjoint DEF Move, Promise!Move, Promise!Calls, Calls
<1>1. CASE Begin(c)
  <2>1. Phase(c) = "idle" /\ Phase(c)' = "open"
    BY <1>0, <1>1, Applied DEF Begin, Phase, TypeOK
  <2>2. Promise!Open(c)
    BY <1>1, <1>7, <2>1 DEF Begin, Promise!Open
  <2> QED
    BY <2>2 DEF Promise!Next
<1>2. CASE Get(c) /\ c \in Planners
  <2>1. Phase(c) = "open" /\ Phase(c)' = "effective"
    BY <1>0, <1>2 DEF Get, Phase, TypeOK
  <2>2. \A d \in Calls : events'[d] = IF d = c THEN object ELSE events[d]
    BY <1>0, <1>2 DEF Get, TypeOK
  <2>3. Promise!Look(c)
    BY <1>2, <1>7, <2>1, <2>2 DEF Get, Promise!Look, Whole
  <2> QED
    BY <2>3 DEF Promise!Next
<1>3. CASE Get(c) /\ c \in Recorders
  <2>1. Phase(c)' = Phase(c)
    BY <1>0, <1>3, Applied DEF Get, Phase, TypeOK
  <2>2. \A d \in Planners : events'[d] = events[d]
    BY <1>0, <1>3 DEF Get, TypeOK
  <2>3. UNCHANGED Promise!vars
    BY <1>3, <1>7, <2>1, <2>2 DEF Get, Promise!vars
  <2> QED
    BY <2>3
<1>4. CASE GetRaises(c) \/ TimeOut(c)
  <2>1. Phase(c) \in {"open", "effective"} /\ Phase(c)' = "refused"
    BY <1>0, <1>4 DEF GetRaises, TimeOut, Phase, TypeOK
  <2>2. Promise!Fail({c})
    BY <1>4, <1>7, <2>1 DEF GetRaises, TimeOut, Promise!Fail
  <2> QED
    BY <2>2 DEF Promise!Next
<1>5. CASE Put(c) \/ PutUnanswered(c)
  <2>0. c \in Recorders /\ pc[c] = "put" /\ UNCHANGED events
    BY <1>0, <1>5 DEF Put, PutUnanswered, Typed
  <2>1. CASE object' = object
    <3>1. CASE pc'[c] = "error"
      <4>1. Phase(c) \in {"open", "effective"} /\ Phase(c)' = "refused"
        BY <2>0, <3>1 DEF Phase
      <4>2. Promise!Fail({c})
        BY <1>7, <2>0, <2>1, <4>1 DEF Promise!Fail
      <4> QED
        BY <4>2 DEF Promise!Next
    <3>2. CASE pc'[c] # "error"
      <4>1. pc'[c] = "put" \/ (pc'[c] = "answer" /\ Contains(object, c))
        BY <1>0, <1>5, <2>0, <2>1, <3>2, Applied DEF Put, PutUnanswered, TypeOK
      <4>2. Phase(c)' = Phase(c)
        BY <2>0, <2>1, <4>1 DEF Phase
      <4>3. UNCHANGED Promise!vars
        BY <1>7, <2>0, <2>1, <4>2 DEF Promise!vars
      <4> QED
        BY <4>3
    <3> QED
      BY <3>1, <3>2
  <2>2. CASE object' # object
    <3>1. object' = Append(events[c], c)
      BY <1>0, <1>5, <2>0, <2>2 DEF Put, PutUnanswered
    <3>2. object = events[c] /\ ~Contains(object, c)
      BY <2>0, <2>2, <3>1, Applied DEF TurnInv, PutIsNext
    <3>3. Contains(object', c)
      <4>1. events[c] \in Seq(Recorders)
        BY <1>0 DEF TypeOK
      <4>2. Len(object') = Len(events[c]) + 1 /\ object'[Len(object')] = c
        BY <2>0, <3>1, <4>1
      <4> QED
        BY <4>1, <4>2 DEF Contains
    <3>4. Phase(c) = "open"
      BY <2>0, <3>2 DEF Phase
    <3>5. CASE pc'[c] = "error"
      <4>1. Phase(c)' = "refused"
        BY <3>5 DEF Phase
      <4>2. Promise!CommitUnheard(c)
        BY <1>7, <2>0, <3>1, <3>2, <3>4, <4>1 DEF Promise!CommitUnheard
      <4> QED
        BY <4>2 DEF Promise!Next
    <3>6. CASE pc'[c] # "error"
      <4>1. pc'[c] \in {"put", "answer"}
        BY <1>0, <1>5, <3>6 DEF Put, PutUnanswered, TypeOK
      <4>2. Phase(c)' = "effective"
        BY <2>0, <3>3, <4>1 DEF Phase, Contains
      <4>3. Promise!Commit(c)
        BY <1>7, <2>0, <3>1, <3>2, <3>4, <4>2 DEF Promise!Commit
      <4> QED
        BY <4>3 DEF Promise!Next
    <3> QED
      BY <3>5, <3>6
  <2> QED
    BY <2>1, <2>2
<1>6. CASE Answer(c)
  <2>1. Phase(c) = "effective" /\ Phase(c)' = "done"
    BY <1>0, <1>6 DEF Answer, Phase, TypeOK
  <2>2. Promise!Answer(c)
    BY <1>6, <1>7, <2>1 DEF Answer, Promise!Answer
  <2> QED
    BY <2>2 DEF Promise!Next
<1> QED
  BY <1>0, <1>1, <1>2, <1>3, <1>4, <1>5, <1>6 DEF Step

\* Recorded one at a time, the object is the journal of OutcomeJournal,
\* although puts are sent again, cut off, or applied without an answer.
THEOREM ObjectIsJournal == Spec => ImplementsJournal
<1>1. Init => TurnInv /\ Promise!Init
  <2>1. Init => OrderInv
    BY AttemptsType DEF Init, OrderInv, Typed, TypeOK, HistoryOK, Orderly, Calls
  <2> QED
    BY <2>1, RolesDisjoint
    DEF Init, TurnInv, OneAtATime, UnderWay, PutIsNext, Promise!Init, Promise!Calls, Calls, Phase
<1>2. TurnInv /\ TurnInv' /\ [Next]_vars => [Promise!Next]_(Promise!vars)
  <2> SUFFICES ASSUME TurnInv, TurnInv', [Next]_vars PROVE [Promise!Next]_(Promise!vars)
    OBVIOUS
  <2>1. CASE UNCHANGED vars
    BY <2>1 DEF vars, Promise!vars, Phase, Contains
  <2>2. CASE ~serial
    BY <2>2 DEF Next, vars, Promise!vars
  <2>3. CASE serial /\ Next
    BY <2>3, CallImplementsJournal DEF Next
  <2> QED
    BY <2>1, <2>2, <2>3
<1> QED
  BY <1>1, <1>2, TurnStep, PTL DEF Spec, ImplementsJournal, Promise!Spec
=============================================================================
