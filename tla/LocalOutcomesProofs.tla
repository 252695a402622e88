------------------------- MODULE LocalOutcomesProofs -------------------------
(***************************************************************************)
(* Proofs about LocalOutcomes for any number of recorders and planner runs *)
(* and events of any length.                                               *)
(***************************************************************************)
EXTENDS LocalOutcomes, TLAPS

\* Every step keeps the types.
LEMMA TypingStep == TypeOK /\ [Next]_vars => TypeOK'
<1> SUFFICES ASSUME TypeOK, [Next]_vars PROVE TypeOK'
  OBVIOUS
<1>0. serial' \in BOOLEAN
  BY DEF TypeOK, Next, vars
<1> USE DEF TypeOK, Move
<1>1. ASSUME NEW c \in Calls, Begin(c) PROVE TypeOK'
  BY <1>0, <1>1 DEF Begin, Over
<1>2. ASSUME NEW c \in Calls, FindNoFile(c) PROVE TypeOK'
  BY <1>0, <1>2 DEF FindNoFile
<1>3. ASSUME NEW c \in Calls, FindFile(c) PROVE TypeOK'
  BY <1>0, <1>3 DEF FindFile
<1>4. ASSUME NEW c \in Calls, Load(c) PROVE TypeOK'
  BY <1>0, <1>4 DEF Load
<1>5. ASSUME NEW c \in Calls, LoadRaises(c) PROVE TypeOK'
  BY <1>0, <1>5 DEF LoadRaises
<1>6. ASSUME NEW c \in Calls, Truncate(c) PROVE TypeOK'
  BY <1>0, <1>6 DEF Truncate, Empty
<1>7. ASSUME NEW c \in Calls, Dump(c) PROVE TypeOK'
  BY <1>0, <1>7 DEF Dump, Overwrite, Text
<1>8. ASSUME NEW c \in Calls, Return(c) PROVE TypeOK'
  BY <1>0, <1>8 DEF Return
<1>9. CASE Crash
  BY <1>0, <1>9 DEF Crash
<1>10. CASE UNCHANGED vars
  BY <1>0, <1>10 DEF vars
<1> QED
  BY <1>1, <1>2, <1>3, <1>4, <1>5, <1>6, <1>7, <1>8, <1>9, <1>10 DEF Next, Step

\* The types of the local store: TypeOK is inductive as it stands.
THEOREM Typing == Spec => []TypeOK
<1>1. Init => TypeOK
  BY DEF Init, TypeOK, Absent
<1> QED
  BY <1>1, TypingStep, PTL DEF Spec
-----------------------------------------------------------------------------
(***************************************************************************)
(* The inductive invariant for AcknowledgedIsSeen.  HistoryOK says that    *)
(* before[c] is a set of ended calls, so that "overlaps" is stable: once   *)
(* two calls overlap they always do.  InFile says that the outcome of an    *)
(* undisturbed recorder stays in the file from its write on, unless the    *)
(* file is torn empty; InHand says that every later call that got past its *)
(* read holds it.  Each needs the other: a rewrite keeps the outcome       *)
(* because its writer holds it, and a reader holds it because of the file. *)
(***************************************************************************)
HistoryOK == \A c \in Calls : before[c] \subseteq Over /\ c \notin before[c]

InFile == \A c \in Recorders :
  pc[c] \in {"written", "ok"} /\ Undisturbed(c)
  => file.kind # "absent" /\ (file.kind = "empty" \/ Holds(file.doc, c))

InHand == AcknowledgedIsSeen

SeenInv == TypeOK /\ HistoryOK /\ InFile /\ InHand

\* Appending keeps every event and adds the new one.
LEMMA AppendHolds ==
  ASSUME NEW doc \in Seq(Recorders), NEW e \in Recorders, NEW c \in Recorders,
         Holds(doc, c) \/ c = e
  PROVE  Holds(Append(doc, e), c)
<1>1. CASE c = e
  <2>1. Len(doc) + 1 \in 1 .. Len(Append(doc, e)) /\ Append(doc, e)[Len(doc) + 1] = e
    OBVIOUS
  <2> QED
    BY <1>1, <2>1 DEF Holds
<1>2. CASE Holds(doc, c)
  <2>1. PICK i \in 1 .. Len(doc) : doc[i] = c
    BY <1>2 DEF Holds
  <2>2. i \in 1 .. Len(Append(doc, e)) /\ Append(doc, e)[i] = c
    BY <2>1
  <2> QED
    BY <2>2 DEF Holds
<1> QED
  BY <1>1, <1>2

\* A call that is over stays as it is, one that has begun is never idle again,
\* and its history is fixed when it begins.
LEMMA CallStep ==
  ASSUME TypeOK, [Next]_vars, NEW d \in Calls
  PROVE  /\ d \in Over => pc'[d] = pc[d]
         /\ pc[d] # "idle" => pc'[d] # "idle" /\ before'[d] = before[d]
         /\ \/ before'[d] = before[d]
            \/ before'[d] = Over /\ d \notin Over
<1> DEFINE Goal ==
      /\ d \in Over => pc'[d] = pc[d]
      /\ pc[d] # "idle" => pc'[d] # "idle" /\ before'[d] = before[d]
      /\ \/ before'[d] = before[d]
         \/ before'[d] = Over /\ d \notin Over
<1> SUFFICES Goal
  OBVIOUS
<1> USE DEF TypeOK, Move, Over
<1>1. ASSUME NEW c \in Calls, Begin(c) PROVE Goal
  BY <1>1 DEF Begin
<1>2. ASSUME NEW c \in Calls, FindNoFile(c) \/ FindFile(c) PROVE Goal
  BY <1>2 DEF FindNoFile, FindFile
<1>3. ASSUME NEW c \in Calls, Load(c) \/ LoadRaises(c) PROVE Goal
  BY <1>3 DEF Load, LoadRaises
<1>4. ASSUME NEW c \in Calls, Truncate(c) \/ Dump(c) PROVE Goal
  BY <1>4 DEF Truncate, Dump
<1>5. ASSUME NEW c \in Calls, Return(c) PROVE Goal
  BY <1>5 DEF Return
<1>6. CASE Crash
  BY <1>6 DEF Crash
<1>7. CASE UNCHANGED vars
  BY <1>7 DEF vars
<1> QED
  BY <1>1, <1>2, <1>3, <1>4, <1>5, <1>6, <1>7 DEF Next, Step

\* Histories stay sets of ended calls.
LEMMA HistoryStep == TypeOK /\ HistoryOK /\ [Next]_vars => HistoryOK'
<1> SUFFICES ASSUME TypeOK, HistoryOK, [Next]_vars, NEW c \in Calls
             PROVE  before'[c] \subseteq Over' /\ c \notin before'[c]
  BY DEF HistoryOK
<1>1. Over \subseteq Over'
  BY CallStep DEF Over
<1>2. before'[c] = before[c] \/ (before'[c] = Over /\ c \notin Over)
  BY CallStep
<1> QED
  BY <1>1, <1>2 DEF HistoryOK

\* Calls that overlap always will: an undisturbed call was undisturbed before.
LEMMA UndisturbedBefore ==
  ASSUME TypeOK, [Next]_vars, NEW c \in Recorders, Undisturbed(c)'
  PROVE  Undisturbed(c)
<1> SUFFICES ASSUME NEW d \in Recorders, Overlap(c, d) PROVE Overlap(c, d)'
  BY DEF Undisturbed
<1>1. /\ pc'[c] # "idle" /\ before'[c] = before[c]
      /\ pc'[d] # "idle" /\ before'[d] = before[d]
  BY CallStep DEF Overlap, Calls
<1> QED
  BY <1>1 DEF Overlap

\* The outcome of an undisturbed recorder stays in the file.
LEMMA InFileStep == SeenInv /\ [Next]_vars => InFile'
<1> SUFFICES ASSUME SeenInv, [Next]_vars, NEW c \in Recorders,
                    pc'[c] \in {"written", "ok"}, Undisturbed(c)'
             PROVE  file'.kind # "absent" /\ (file'.kind = "empty" \/ Holds(file'.doc, c))
  BY DEF InFile
<1> DEFINE Kept == file'.kind # "absent" /\ (file'.kind = "empty" \/ Holds(file'.doc, c))
<1> USE DEF Move
<1>0. TypeOK /\ c \in Calls /\ Undisturbed(c)
  BY UndisturbedBefore DEF SeenInv, Calls
<1>1. CASE pc[c] \in {"written", "ok"} /\ file' = file
  BY <1>0, <1>1 DEF SeenInv, InFile
<1>2. ASSUME NEW d \in Calls, Truncate(d) PROVE Kept
  BY <1>2 DEF Truncate, Empty
<1>3. ASSUME NEW d \in Calls, Dump(d) PROVE Kept
  <2>1. d \in Recorders /\ existing[d] \in Seq(Recorders) /\ pc[d] = "dump"
    BY <1>0, <1>3 DEF Dump, TypeOK
  <2>2. file'.kind = "text" /\ file'.doc = Append(existing[d], d)
    BY <1>3 DEF Dump, Overwrite, Text
  <2>3. CASE c = d
    BY <2>1, <2>2, <2>3, AppendHolds
  <2>4. CASE c # d
    <3>1. pc[c] \in {"written", "ok"}
      BY <1>0, <1>3, <2>4 DEF Dump, TypeOK
    <3>2. d \notin before[c]
      BY <1>0, <2>1 DEF SeenInv, HistoryOK, Over
    <3>3. c \in before[d]
      BY <1>0, <2>1, <2>4, <3>1, <3>2 DEF Undisturbed, Overlap
    <3>4. pc[c] = "ok"
      BY <2>1, <3>1, <3>3 DEF SeenInv, HistoryOK, Over, Calls
    <3>5. Holds(existing[d], c)
      BY <1>0, <2>1, <3>3, <3>4 DEF SeenInv, InHand, AcknowledgedIsSeen, Calls
    <3> QED
      BY <2>1, <2>2, <3>5, AppendHolds
  <2> QED
    BY <2>3, <2>4
<1>4. ASSUME NEW d \in Calls, Begin(d) \/ FindNoFile(d) \/ FindFile(d) PROVE Kept
  BY <1>0, <1>1, <1>4 DEF Begin, FindNoFile, FindFile, TypeOK
<1>5. ASSUME NEW d \in Calls, Load(d) \/ LoadRaises(d) \/ Return(d) PROVE Kept
  BY <1>0, <1>1, <1>5, CallsDisjoint DEF Load, LoadRaises, Return, TypeOK
<1>6. CASE Crash
  BY <1>0, <1>1, <1>6 DEF Crash
<1>7. CASE UNCHANGED vars
  BY <1>1, <1>7 DEF vars
<1> QED
  BY <1>2, <1>3, <1>4, <1>5, <1>6, <1>7 DEF Next, Step

\* A call that got past its read holds every undisturbed earlier outcome.
LEMMA InHandStep == SeenInv /\ [Next]_vars => InHand'
<1> SUFFICES ASSUME SeenInv, [Next]_vars, NEW c \in Recorders, NEW d \in Calls,
                    pc'[c] = "ok", Undisturbed(c)', c \in before'[d],
                    pc'[d] \in {"loaded", "dump", "written", "ok"}
             PROVE  Holds(existing'[d], c)
  BY DEF InHand, AcknowledgedIsSeen
<1> USE DEF Move
<1>0. TypeOK /\ c \in Calls /\ Undisturbed(c)
  BY UndisturbedBefore DEF SeenInv, Calls
<1>1. pc[d] # "idle" /\ c \in before[d] /\ pc[c] = "ok"
  <2>1. pc[d] # "idle"
    BY <1>0 DEF Next, Step, Begin, FindNoFile, FindFile, Load, LoadRaises, Truncate,
                Dump, Return, Crash, TypeOK, vars
  <2>2. c \in before[d]
    BY <2>1, <1>0, CallStep
  <2>3. c \in Over
    BY <2>2 DEF SeenInv, HistoryOK
  <2> QED
    BY <1>0, <2>1, <2>2, <2>3, CallStep
<1>2. pc[c] \in {"written", "ok"} /\ file.kind # "absent"
      /\ (file.kind = "text" => Holds(file.doc, c))
  BY <1>0, <1>1 DEF SeenInv, InFile
<1>3. CASE pc[d] \in {"loaded", "dump", "written", "ok"} /\ existing'[d] = existing[d]
  BY <1>0, <1>1, <1>3 DEF SeenInv, InHand, AcknowledgedIsSeen
<1>4. ASSUME NEW e \in Calls, Begin(e) \/ FindFile(e) \/ LoadRaises(e)
      PROVE  Holds(existing'[d], c)
  BY <1>0, <1>3, <1>4 DEF Begin, FindFile, LoadRaises, TypeOK
<1>5. ASSUME NEW e \in Calls, FindNoFile(e) PROVE Holds(existing'[d], c)
  BY <1>2, <1>5 DEF FindNoFile
<1>6. ASSUME NEW e \in Calls, Load(e) PROVE Holds(existing'[d], c)
  BY <1>0, <1>2, <1>3, <1>6 DEF Load, Readable, TypeOK
<1>7. ASSUME NEW e \in Calls, Truncate(e) \/ Dump(e) \/ Return(e)
      PROVE  Holds(existing'[d], c)
  BY <1>0, <1>3, <1>7 DEF Truncate, Dump, Return, TypeOK
<1>8. CASE Crash \/ UNCHANGED vars
  BY <1>0, <1>3, <1>8 DEF Crash, vars
<1> QED
  BY <1>4, <1>5, <1>6, <1>7, <1>8 DEF Next, Step

\* An outcome whose recording overlapped no other recording is given to every
\* later call that reads the outcomes at all.
THEOREM AcknowledgedOutcomesAreSeen == Spec => []AcknowledgedIsSeen
<1>1. Init => SeenInv
  BY DEF Init, SeenInv, TypeOK, HistoryOK, InFile, InHand, AcknowledgedIsSeen, Absent, Calls
<1>2. SeenInv /\ [Next]_vars => SeenInv'
  BY TypingStep, HistoryStep, InFileStep, InHandStep DEF SeenInv
<1>3. SeenInv => AcknowledgedIsSeen
  BY DEF SeenInv, InHand
<1> QED
  BY <1>1, <1>2, <1>3, PTL DEF Spec
-----------------------------------------------------------------------------
(***************************************************************************)
(* ReadsAreSound needs that the file is sound too, and that a list a       *)
(* recorder has read does not hold that recorder's own outcome yet.        *)
(***************************************************************************)
SoundInv == TypeOK /\ Sound(file.doc) /\ \A d \in Calls : Sound(existing[d])

\* A list stays sound, because no call leaves "written", "ok" and "killed".
LEMMA SoundStable ==
  ASSUME TypeOK, [Next]_vars, NEW doc \in Seq(Recorders), Sound(doc)
  PROVE  Sound(doc)'
<1> SUFFICES ASSUME NEW c \in Recorders, Holds(doc, c)
             PROVE  pc'[c] \in {"written", "ok", "killed"}
  BY DEF Sound, Holds
<1>1. pc[c] \in {"written", "ok", "killed"} /\ c \in Calls
  BY DEF Sound, Calls
<1> QED
  BY <1>1 DEF Next, Step, Begin, FindNoFile, FindFile, Load, LoadRaises, Truncate, Dump,
              Return, Crash, Move, TypeOK, vars

\* The document a writer writes is sound.
LEMMA SoundDump ==
  ASSUME SoundInv, NEW d \in Calls, Dump(d)
  PROVE  Sound(file.doc)'
<1> DEFINE new == Append(existing[d], d)
<1>1. /\ d \in Recorders /\ existing[d] \in Seq(Recorders)
      /\ pc[d] = "dump" /\ pc' = [pc EXCEPT ![d] = "written"] /\ file'.doc = new
  BY DEF SoundInv, TypeOK, Dump, Move, Overwrite, Text
<1>2. ~Holds(existing[d], d)
  BY <1>1 DEF SoundInv, Sound
<1>3. \A i \in 1 .. Len(new) : \/ i \in 1 .. Len(existing[d]) /\ new[i] = existing[d][i]
                               \/ i = Len(existing[d]) + 1 /\ new[i] = d
  BY <1>1
<1>4. \A i, j \in 1 .. Len(new) : new[i] = new[j] => i = j
  BY <1>2, <1>3 DEF SoundInv, Sound, Holds
<1>5. \A c \in Recorders : Holds(new, c) => c = d \/ Holds(existing[d], c)
  BY <1>3 DEF Holds
<1>6. \A c \in Recorders : Holds(new, c) => pc'[c] \in {"written", "ok", "killed"}
  BY <1>1, <1>5 DEF SoundInv, Sound, TypeOK
<1>7. \A c \in Recorders : Holds(file.doc, c)' <=> Holds(new, c)
  BY <1>1 DEF Holds
<1> QED
  BY <1>1, <1>4, <1>6, <1>7 DEF Sound

\* What a call reads holds no outcome twice and none of a call that failed.
THEOREM ReadOutcomesAreSound == Spec => []ReadsAreSound
<1>1. Init => SoundInv
  BY DEF Init, SoundInv, TypeOK, Sound, Holds, Absent
<1>2. SoundInv /\ [Next]_vars => SoundInv'
  <2> SUFFICES ASSUME SoundInv, [Next]_vars PROVE SoundInv'
    OBVIOUS
  <2>0. TypeOK /\ TypeOK'
    BY TypingStep DEF SoundInv
  <2>1. Sound(<< >>)'
    BY DEF Sound, Holds
  <2>2. Sound(file.doc)'
    <3>1. CASE file' = file
      BY <2>0, <3>1, SoundStable DEF SoundInv, TypeOK, Sound, Holds
    <3>2. ASSUME NEW d \in Calls, Truncate(d) PROVE Sound(file.doc)'
      BY <2>1, <3>2 DEF Truncate, Empty
    <3>3. ASSUME NEW d \in Calls, Dump(d) PROVE Sound(file.doc)'
      BY <3>3, SoundDump
    <3> QED
      BY <3>1, <3>2, <3>3 DEF Next, Step, Begin, FindNoFile, FindFile, Load,
                              LoadRaises, Return, Crash, vars
  <2>3. ASSUME NEW d \in Calls PROVE Sound(existing[d])'
    <3>1. existing'[d] \in {existing[d], file.doc, << >>}
      BY <2>0 DEF Next, Step, Begin, FindNoFile, FindFile, Load, LoadRaises, Truncate,
                  Dump, Return, Crash, TypeOK, vars
    <3>2. ASSUME NEW doc \in Seq(Recorders), Sound(doc), existing'[d] = doc
          PROVE  Sound(existing[d])'
      BY <2>0, <3>2, SoundStable DEF Sound, Holds
    <3>3. Sound(<< >>)
      BY DEF Sound, Holds
    <3> QED
      BY <2>0, <3>1, <3>2, <3>3 DEF SoundInv, TypeOK
  <2> QED
    BY <2>0, <2>2, <2>3 DEF SoundInv
<1>3. SoundInv => ReadsAreSound
  BY DEF SoundInv, ReadsAreSound
<1> QED
  BY <1>1, <1>2, <1>3, PTL DEF Spec

\* Once the file is there, unreadable, and no writer holds a list, it stays so.
THEOREM PoisonIsForever == Spec => PoisonedStaysPoisoned
<1>1. TypeOK /\ [Next]_vars => [Poisoned => Poisoned']_vars
  <2> SUFFICES ASSUME TypeOK, [Next]_vars, Poisoned PROVE Poisoned'
    OBVIOUS
  <2> USE DEF Move, Poisoned, TypeOK, Calls
  <2>1. file' = file
    BY DEF Next, Step, Begin, FindNoFile, FindFile, Load, LoadRaises, Truncate, Dump,
           Return, Crash, vars
  <2>2. ASSUME NEW c \in Recorders PROVE pc'[c] \notin {"loaded", "dump"}
    BY DEF Next, Step, Begin, FindNoFile, FindFile, Load, LoadRaises, Truncate, Dump,
           Return, Crash, vars
  <2> QED
    BY <2>1, <2>2 DEF Readable
<1> QED
  BY <1>1, Typing, PTL DEF Spec, PoisonedStaysPoisoned
-----------------------------------------------------------------------------
(***************************************************************************)
(* The file implements OutcomeJournal where outcomes are recorded one at a *)
(* time.  The mapping needs to know that it is: at most one recorder is    *)
(* under way, the file is unreadable only while that recorder holds it     *)
(* truncated, and the list in its hand is the journal, to which its dump   *)
(* then appends.  Planner runs overlap with it at every step.              *)
(***************************************************************************)
UnderWay == {"exists", "load", "loaded", "dump", "written"}

OneAtATime == \A c, d \in Recorders : pc[c] \in UnderWay /\ pc[d] \in UnderWay => c = d

Truncated == \E c \in Recorders : pc[c] = "dump"

FileStands == /\ Truncated => file = Empty
              /\ ~Truncated => file.kind = "absent" \/ Readable(file)

InHandIsJournal == \A c \in Recorders : pc[c] = "loaded" => existing[c] = Journal

TurnInv ==
  /\ TypeOK
  /\ serial => /\ \A c \in Calls : pc[c] # "killed"
               /\ file.kind = "absent" => file = Absent
               /\ OneAtATime /\ FileStands /\ InHandIsJournal

\* What is read of a file that nobody holds truncated is the journal.
LEMMA JournalRead ==
  ASSUME TurnInv, serial
  PROVE  /\ file.kind = "absent" => Journal = << >>
         /\ Readable(file) => Journal = file.doc
BY DEF Journal, Readable

\* While a recorder holds the file truncated the journal is what it loaded.
LEMMA JournalHeld ==
  ASSUME OneAtATime, file = Empty, NEW c \in Recorders, pc[c] = "dump"
  PROVE  Journal = existing[c]
<1>1. \A d \in Recorders : pc[d] = "dump" <=> d = c
  BY DEF OneAtATime, UnderWay
<1>2. (CHOOSE d \in Recorders : pc[d] = "dump") = c
  BY <1>1
<1> QED
  BY <1>2 DEF Journal, Empty, Readable

\* A recorder takes a step only in turn, so it stays the only one under way.
LEMMA TurnStep == TurnInv /\ [Next]_vars => TurnInv'
<1> SUFFICES ASSUME TurnInv, [Next]_vars, serial PROVE TurnInv'
  BY TypingStep DEF TurnInv, Next, vars
<1>0. TypeOK /\ TypeOK' /\ serial'
  BY TypingStep DEF TurnInv, Next, vars
<1> USE DEF Move, UnderWay
<1>1. CASE UNCHANGED vars
  BY <1>1, <1>0 DEF vars, TurnInv, TypeOK, OneAtATime, FileStands, Truncated, Readable,
                    InHandIsJournal, Journal
<1>2. ASSUME NEW c \in Calls, InTurn(c), Step(c) PROVE TurnInv'
  <2>1. \A d \in Calls : pc'[d] # "killed"
    BY <1>0, <1>2 DEF TurnInv, TypeOK, Step, Begin, FindNoFile, FindFile, Load, LoadRaises,
                      Truncate, Dump, Return
  <2>2. file'.kind = "absent" => file' = Absent
    BY <1>0, <1>2 DEF TurnInv, TypeOK, Step, Begin, FindNoFile, FindFile, Load, LoadRaises,
                      Truncate, Dump, Return, Empty, Overwrite, Text
  <2>3. OneAtATime'
    <3>1. ASSUME NEW d \in Recorders, d # c PROVE pc'[d] = pc[d]
      BY <1>0, <1>2, <3>1 DEF TypeOK, Calls, Step, Begin, FindNoFile, FindFile, Load,
                              LoadRaises, Truncate, Dump, Return
    <3>2. CASE pc[c] = "idle" /\ c \in Recorders
      BY <1>0, <1>2, <3>1, <3>2 DEF InTurn, OneAtATime
    <3>3. CASE pc[c] # "idle" /\ c \in Recorders
      <4>1. pc[c] \in UnderWay
        BY <1>0, <1>2, <3>3 DEF TypeOK, Step, Begin, FindNoFile, FindFile, Load,
                              LoadRaises, Truncate, Dump, Return
      <4> QED
        BY <3>1, <4>1, <3>3 DEF TurnInv, OneAtATime
    <3>4. CASE c \notin Recorders
      BY <3>1, <3>4 DEF TurnInv, OneAtATime
    <3> QED
      BY <3>2, <3>3, <3>4
  <2>4. CASE Truncate(c)
    <3>1. file' = Empty /\ c \in Recorders /\ pc'[c] = "dump"
      BY <1>0, <2>4 DEF Truncate, TypeOK
    <3>2. \A d \in Recorders : pc'[d] # "loaded"
      BY <2>3, <3>1 DEF OneAtATime
    <3> QED
      BY <1>0, <2>1, <2>2, <2>3, <3>1, <3>2
      DEF TurnInv, FileStands, Truncated, InHandIsJournal
  <2>5. CASE Dump(c)
    <3>1. c \in Recorders /\ pc[c] = "dump" /\ pc'[c] = "written"
      BY <1>0, <2>5 DEF Dump, TypeOK
    <3>2. file' = Overwrite(Empty, Append(existing[c], c))
      BY <2>5, <3>1 DEF Dump, TurnInv, FileStands, Truncated
    <3>3. Readable(file)'
      BY <3>2 DEF Readable, Overwrite, Empty, Text
    <3>4. \A d \in Recorders : pc'[d] \notin {"loaded", "dump"}
      BY <2>3, <3>1 DEF OneAtATime
    <3> QED
      BY <1>0, <2>1, <2>2, <2>3, <3>3, <3>4
      DEF TurnInv, FileStands, Truncated, InHandIsJournal
  <2>6. CASE FindNoFile(c) \/ Load(c)
    <3>1. /\ file' = file /\ pc[c] # "loaded" /\ pc[c] # "dump" /\ pc'[c] # "dump"
          /\ \A d \in Calls : d # c => pc'[d] = pc[d] /\ existing'[d] = existing[d]
      BY <1>0, <2>6 DEF FindNoFile, Load, TypeOK
    <3>2. FileStands'
      <4>1. Truncated' <=> Truncated
        BY <3>1, <1>0 DEF Truncated, Calls
      <4> QED
        BY <3>1, <4>1 DEF TurnInv, FileStands, Readable
    <3>3. ASSUME NEW d \in Recorders, pc'[d] = "loaded" PROVE existing'[d] = Journal'
      <4>1. ~Truncated'
        BY <2>3, <3>3 DEF OneAtATime, Truncated
      <4>2. file.kind = "absent" \/ Readable(file)
        BY <3>1, <3>2, <4>1 DEF FileStands, Readable
      <4>3. Journal' = Journal
        BY <3>1, <4>2 DEF Journal, Readable
      <4>4. CASE d = c
        BY <1>0, <2>6, <4>3, <4>4, JournalRead DEF FindNoFile, Load, TypeOK
      <4>5. CASE d # c
        BY <3>1, <3>3, <4>3, <4>5 DEF TurnInv, InHandIsJournal, Calls
      <4> QED
        BY <4>4, <4>5
    <3> QED
      BY <1>0, <2>1, <2>2, <2>3, <3>2, <3>3 DEF TurnInv, InHandIsJournal
  <2>7. CASE Begin(c) \/ FindFile(c) \/ LoadRaises(c) \/ Return(c)
    <3>1. /\ file' = file /\ existing' = existing
          /\ pc[c] # "dump" /\ pc'[c] \notin {"loaded", "dump"}
          /\ \A d \in Calls : d # c => pc'[d] = pc[d]
      BY <1>0, <2>7 DEF Begin, FindFile, LoadRaises, Return, TypeOK
    <3>2. \A d \in Recorders : pc'[d] = "dump" <=> pc[d] = "dump"
      BY <3>1, <1>0 DEF Calls
    <3>3. FileStands'
      BY <3>1, <3>2 DEF TurnInv, FileStands, Truncated, Readable
    <3>4. Journal' = Journal
      <4>1. (CHOOSE d \in Recorders : pc'[d] = "dump") = (CHOOSE d \in Recorders : pc[d] = "dump")
        BY <3>2, Zenon
      <4>2. existing'[CHOOSE d \in Recorders : pc'[d] = "dump"]
            = existing[CHOOSE d \in Recorders : pc[d] = "dump"]
        BY <3>1, <4>1, Zenon
      <4> QED
        BY <3>1, <4>2 DEF Journal, Readable
    <3>5. InHandIsJournal'
      BY <3>1, <3>4 DEF TurnInv, InHandIsJournal, Calls
    <3> QED
      BY <1>0, <2>1, <2>2, <2>3, <3>3, <3>5 DEF TurnInv
  <2> QED
    BY <1>2, <2>4, <2>5, <2>6, <2>7 DEF Step
<1> QED
  BY <1>1, <1>2 DEF Next, Crash

\* The journal is the same as long as nobody truncates the file or writes it.
LEMMA JournalKept ==
  ASSUME file' = file, existing' = existing \/ ~Truncated,
         \A d \in Recorders : pc'[d] = "dump" <=> pc[d] = "dump",
         Truncated \/ file.kind = "absent" \/ Readable(file)
  PROVE  Journal' = Journal
<1>1. CASE file.kind = "absent" \/ Readable(file)
  BY <1>1 DEF Journal, Readable
<1>2. CASE existing' = existing
  <2>1. (CHOOSE d \in Recorders : pc'[d] = "dump") = (CHOOSE d \in Recorders : pc[d] = "dump")
    BY Zenon
  <2>2. existing'[CHOOSE d \in Recorders : pc'[d] = "dump"]
        = existing[CHOOSE d \in Recorders : pc[d] = "dump"]
    BY <1>2, <2>1, Zenon
  <2> QED
    BY <2>2 DEF Journal, Readable
<1> QED
  BY <1>1, <1>2

\* Each step of a call is the step of the journal that it stands for, or none.
LEMMA CallImplementsJournal ==
  ASSUME TurnInv, TurnInv', serial, serial', NEW c \in Calls, Step(c)
  PROVE  [Promise!Next]_(Promise!vars)
<1>0. TypeOK /\ TypeOK'
  BY DEF TurnInv
<1> USE CallsDisjoint DEF Move, Promise!Move, Promise!Calls, Calls
<1>1. CASE Begin(c)
  <2>1. Journal' = Journal
    BY <1>0, <1>1, JournalKept DEF Begin, TurnInv, FileStands, TypeOK
  <2>2. Promise!Open(c)
    BY <1>0, <1>1, <2>1 DEF Begin, Promise!Open, Phase, TypeOK
  <2> QED
    BY <2>2 DEF Promise!Next
<1>2. CASE c \in Planners /\ (FindNoFile(c) \/ Load(c))
  <2>1. Journal' = Journal
    <3>1. ~Truncated
      BY <1>2 DEF TurnInv, FileStands, FindNoFile, Load, Readable, Empty
    <3>2. file' = file /\ \A d \in Recorders : pc'[d] = "dump" <=> pc[d] = "dump"
      BY <1>0, <1>2 DEF FindNoFile, Load, TypeOK
    <3> QED
      BY <3>1, <3>2, JournalKept DEF TurnInv, FileStands
  <2>2. existing'[c] = Journal
    BY <1>0, <1>2, JournalRead DEF FindNoFile, Load, TypeOK
  <2>3. Promise!Look(c)
    <3>0. pc[c] \in {"exists", "load"} /\ pc' = [pc EXCEPT ![c] = "loaded"]
      BY <1>0, <1>2 DEF FindNoFile, Load, TypeOK
    <3>1. Promise!Move(c, "open", "effective")
      <4>1. Phase(c) = "open" /\ Phase(c)' = "effective"
        BY <1>0, <1>2, <3>0 DEF Phase, TypeOK
      <4>2. \A d \in Calls : d # c => Phase(d)' = Phase(d)
        BY <1>0, <3>0 DEF Phase, TypeOK
      <4> QED
        BY <4>1, <4>2
    <3>2. \A d \in Calls : existing'[d] = IF d = c THEN Journal ELSE existing[d]
      BY <1>0, <1>2, <2>2 DEF FindNoFile, Load, TypeOK
    <3> QED
      BY <1>2, <2>1, <3>1, <3>2 DEF Promise!Look, Whole
  <2> QED
    BY <2>3 DEF Promise!Next
<1>3. CASE FindFile(c) \/ (c \in Recorders /\ (FindNoFile(c) \/ Load(c)))
  <2>1. Journal' = Journal
    <3>1. existing' = existing \/ ~Truncated
      BY <1>3 DEF TurnInv, FileStands, FindFile, FindNoFile, Load, Readable, Empty
    <3>2. file' = file /\ \A d \in Recorders : pc'[d] = "dump" <=> pc[d] = "dump"
      BY <1>0, <1>3 DEF FindFile, FindNoFile, Load, TypeOK
    <3> QED
      BY <3>1, <3>2, JournalKept DEF TurnInv, FileStands
  <2>2. UNCHANGED Promise!vars
    BY <1>0, <1>3, <2>1 DEF FindFile, FindNoFile, Load, Promise!vars, Phase, TypeOK
  <2> QED
    BY <2>2
<1>4. CASE LoadRaises(c)
  <2>1. Journal' = Journal
    BY <1>0, <1>4, JournalKept DEF LoadRaises, TurnInv, FileStands, TypeOK
  <2>2. Promise!Fail({c})
    BY <1>0, <1>4, <2>1 DEF LoadRaises, Promise!Fail, Phase, TypeOK
  <2> QED
    BY <2>2 DEF Promise!Next
<1>5. CASE Truncate(c)
  <2>1. Journal = existing[c] /\ Journal' = existing'[c]
    <3>1. Journal = existing[c]
      BY <1>5 DEF Truncate, TurnInv, InHandIsJournal
    <3>2. \A d \in Recorders : pc'[d] = "dump" <=> d = c
      BY <1>0, <1>5 DEF Truncate, TurnInv, OneAtATime, UnderWay, TypeOK
    <3>3. (CHOOSE d \in Recorders : pc'[d] = "dump") = c
      BY <1>5, <3>2 DEF Truncate
    <3>4. existing'[CHOOSE d \in Recorders : pc'[d] = "dump"] = existing'[c]
      BY <3>3, Zenon
    <3> QED
      BY <1>5, <3>1, <3>4 DEF Truncate, Journal, Empty, Readable
  <2>2. UNCHANGED Promise!vars
    BY <1>0, <1>5, <2>1 DEF Truncate, Promise!vars, Phase, TypeOK
  <2> QED
    BY <2>2
<1>6. CASE Dump(c)
  <2>1. Journal = existing[c]
    BY <1>0, <1>6, JournalHeld DEF Dump, TurnInv, FileStands, Truncated, TypeOK
  <2>2. Journal' = Append(Journal, c)
    <3>1. file' = Overwrite(Empty, Append(existing[c], c))
      BY <1>6 DEF Dump, TurnInv, FileStands, Truncated
    <3>2. Readable(file)' /\ file'.kind = "text" /\ file'.doc = Append(existing[c], c)
      BY <3>1 DEF Readable, Overwrite, Empty, Text
    <3> QED
      BY <2>1, <3>2 DEF Journal
  <2>3. Promise!Commit(c)
    BY <1>0, <1>6, <2>2 DEF Dump, Promise!Commit, Phase, TypeOK
  <2> QED
    BY <2>3 DEF Promise!Next
<1>7. CASE Return(c)
  <2>1. Journal' = Journal
    BY <1>0, <1>7, JournalKept DEF Return, TurnInv, FileStands, TypeOK
  <2>2. Promise!Answer(c)
    BY <1>0, <1>7, <2>1 DEF Return, Promise!Answer, Phase, TypeOK
  <2> QED
    BY <2>2 DEF Promise!Next
<1> QED
  BY <1>1, <1>2, <1>3, <1>4, <1>5, <1>6, <1>7 DEF Step

\* Recorded one at a time and without a crash, and read by any number of
\* overlapping planner runs, the file is the journal of OutcomeJournal.
THEOREM FileIsJournal == Spec => ImplementsJournal
<1>1. Init => TurnInv /\ Promise!Init
  BY CallsDisjoint
  DEF Init, TurnInv, TypeOK, OneAtATime, UnderWay, FileStands, Truncated, InHandIsJournal,
      Promise!Init, Promise!Calls, Calls, Journal, Phase, Absent
<1>2. TurnInv /\ TurnInv' /\ [Next]_vars => [Promise!Next]_(Promise!vars)
  <2> SUFFICES ASSUME TurnInv, TurnInv', [Next]_vars PROVE [Promise!Next]_(Promise!vars)
    OBVIOUS
  <2>1. CASE UNCHANGED vars
    BY <2>1 DEF vars, Promise!vars, Journal, Readable, Phase
  <2>2. CASE ~serial
    BY <2>2 DEF Next, vars, Promise!vars
  <2>3. CASE serial /\ Next
    BY <2>3, CallImplementsJournal DEF Next, Crash
  <2> QED
    BY <2>1, <2>2, <2>3
<1> QED
  BY <1>1, <1>2, TurnStep, PTL DEF Spec, ImplementsJournal, Promise!Spec
=============================================================================
