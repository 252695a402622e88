--------------------------- MODULE AgentLoopProofs ---------------------------
(***************************************************************************)
(* Proofs about AgentLoop for any window, any number of attempts, prompts,  *)
(* tools and turns.                                                        *)
(***************************************************************************)
EXTENDS AgentLoop, SequenceTheorems, FiniteSetTheorems, TLAPS

\* The calls of the next message with tool calls are among all calls.
LEMMA FreshAreCalls ==
  ASSUME turns \in Nat, turns < MaxTurns, NEW n \in 1 .. MaxUses
  PROVE  Fresh(n) \subseteq Calls
<1> SUFFICES ASSUME NEW k \in 1 .. n PROVE (turns * MaxUses) + k \in Calls
  BY DEF Fresh
<1>1. turns * MaxUses \in Nat /\ MaxUses \in Nat /\ MaxTurns \in Nat
  BY Bounds
<1>2. (turns + 1) * MaxUses = turns * MaxUses + MaxUses
  BY Bounds
<1>3. (turns + 1) * MaxUses <= MaxTurns * MaxUses
  <2>1. PICK d \in Nat : MaxTurns = turns + 1 + d
    <3>1. MaxTurns - (turns + 1) \in Nat
      BY Bounds
    <3> QED
      BY <3>1, Bounds
  <2>2. MaxTurns * MaxUses = (turns + 1) * MaxUses + d * MaxUses
    BY <2>1, Bounds
  <2>3. d * MaxUses \in Nat
    BY Bounds
  <2> QED
    BY <2>2, <2>3, <1>1
<1>4. MaxUses * MaxTurns = MaxTurns * MaxUses
  BY Bounds
<1>5. (turns * MaxUses) + k \in Int /\ (turns * MaxUses) + k >= 1
      /\ (turns * MaxUses) + k <= turns * MaxUses + MaxUses
  BY <1>1
<1> QED
  BY <1>1, <1>2, <1>3, <1>4, <1>5 DEF Calls

\* Each constructor makes a message.
LEMMA MessagesMade ==
  /\ Prompt \in Messages /\ Text \in Messages
  /\ \A ids \in SUBSET Calls : Uses(ids) \in Messages
  /\ \A ids \in SUBSET Calls, long \in BOOLEAN : Results(ids, long) \in Messages
BY DEF Prompt, Text, Uses, Results, Message, Messages

\* What is trimmed begins with a prompt or with a message of tool calls, and
\* ends as before.
LEMMA TrimmedIsSuffix ==
  ASSUME NEW ms \in Seq(Messages), NEW x \in Trimmed(ms)
  PROVE  \E i \in 1 .. Len(ms) :
           /\ ms[i].kind \in {"prompt", "uses"}
           /\ x \in Seq(Messages) /\ Len(x) = Len(ms) - i + 1
           /\ \A j \in 1 .. Len(x) : x[j] = ms[i + j - 1]
<1>1. PICK i \in TrimPoints(ms) : x = SubSeq(ms, i, Len(ms))
  BY DEF Trimmed
<1>2. i \in OfKind(ms, "prompt") \/ i \in Pairs(ms)
  BY <1>1 DEF TrimPoints, TheFirst
<1>3. i \in 1 .. Len(ms) /\ ms[i].kind \in {"prompt", "uses"}
  BY <1>2 DEF OfKind, Pairs
<1>4. x \in Seq(Messages) /\ Len(x) = Len(ms) - i + 1
      /\ \A j \in 1 .. Len(x) : x[j] = ms[i + j - 1]
  BY <1>1, <1>3
<1> QED
  BY <1>3, <1>4

\* A truncated message keeps its kind and its calls, the others are as before.
LEMMA TruncatedIsSame ==
  ASSUME NEW ms \in Seq(Messages), NEW i \in Truncatable(ms)
  PROVE  LET x == Truncated(ms, i) IN
         /\ x \in Seq(Messages) /\ Len(x) = Len(ms)
         /\ \A j \in 1 .. Len(ms) :
              x[j].kind = ms[j].kind /\ x[j].ids = ms[j].ids /\ Short(x[j]) = Short(ms[j])
<1> DEFINE x == Truncated(ms, i)
<1>1. i \in 1 .. Len(ms)
  BY DEF Truncatable, TheFirst, OfKind
<1>2. ms[i] \in Messages
  BY <1>1
<1>3. PICK m \in Messages : /\ x = [ms EXCEPT ![i] = m]
                            /\ m.kind = ms[i].kind /\ m.ids = ms[i].ids
                            /\ Short(m) = Short(ms[i])
  <2>1. [ms[i] EXCEPT !.long = FALSE] \in Messages
    BY <1>2 DEF Messages
  <2>2. /\ [ms[i] EXCEPT !.long = FALSE].kind = ms[i].kind
        /\ [ms[i] EXCEPT !.long = FALSE].ids = ms[i].ids
        /\ Short([ms[i] EXCEPT !.long = FALSE]) = Short(ms[i])
    BY <1>2 DEF Messages, Short
  <2> QED
    BY <2>1, <2>2 DEF Truncated
<1> HIDE DEF x
<1>4. [ms EXCEPT ![i] = m] \in Seq(Messages) /\ Len([ms EXCEPT ![i] = m]) = Len(ms)
      /\ \A j \in 1 .. Len(ms) : [ms EXCEPT ![i] = m][j] = IF j = i THEN m ELSE ms[j]
  BY <1>1, ExceptSeq
<1>5. x \in Seq(Messages) /\ Len(x) = Len(ms)
  BY <1>3, <1>4
<1>6. ASSUME NEW j \in 1 .. Len(ms)
      PROVE  x[j].kind = ms[j].kind /\ x[j].ids = ms[j].ids /\ Short(x[j]) = Short(ms[j])
  BY <1>3, <1>4
<1> QED
  BY <1>5, <1>6 DEF x

\* What an overflow leaves is a truncated or a trimmed conversation, and what the
\* end of an invocation leaves is the conversation or a trimmed one.
LEMMA ReducedIs ==
  ASSUME NEW ms, NEW x \in Reduced(ms)
  PROVE  \/ x \in Trimmed(ms)
         \/ \E i \in Truncatable(ms) : x = Truncated(ms, i)
BY DEF Reduced

LEMMA ManagedIs == ASSUME NEW ms, NEW x \in Managed(ms) PROVE x = ms \/ x \in Trimmed(ms)
BY DEF Managed
-----------------------------------------------------------------------------
(***************************************************************************)
(* Types.  While an invocation runs its retries are counted by both         *)
(* counters, so that the history is bounded as the program's counter is.    *)
(***************************************************************************)
Counted ==
  /\ pc = "idle" => throttled = 0 /\ attempt = 0
  /\ pc \in {"ask", "tools"} => throttled = attempt

Typed == TypeOK /\ Counted

LEMMA SeqsTyped ==
  ASSUME NEW ms \in Seq(Messages)
  PROVE  Reduced(ms) \subseteq Seq(Messages) /\ Managed(ms) \subseteq Seq(Messages)
<1>1. ASSUME NEW x \in Trimmed(ms) PROVE x \in Seq(Messages)
  BY TrimmedIsSuffix
<1>2. ASSUME NEW x \in Reduced(ms) PROVE x \in Seq(Messages)
  <2>1. ASSUME NEW i \in Truncatable(ms), x = Truncated(ms, i)
        PROVE  x \in Seq(Messages)
    BY <2>1, TruncatedIsSame
  <2> QED
    BY <1>1, <2>1, ReducedIs
<1>3. ASSUME NEW x \in Managed(ms) PROVE x \in Seq(Messages)
  BY <1>1, ManagedIs
<1> QED
  BY <1>2, <1>3

\* Every step keeps the types.
LEMMA TypedStep == Typed /\ [Next]_vars => Typed'
<1> SUFFICES ASSUME Typed, [Next]_vars PROVE Typed'
  OBVIOUS
<1> USE Bounds, MessagesMade DEF Typed, TypeOK, Counted, talk, tasks, tries
<1>1. CASE Call
  <2>1. prompts' \in 0 .. MaxPrompts
    BY <1>1 DEF Call
  <2>2. messages' \in Seq(Messages) /\ said' \in Seq(Messages)
    BY <1>1 DEF Call, Say
  <2> QED
    BY <1>1, <2>1, <2>2 DEF Call
<1>2. CASE Drop
  BY <1>2 DEF Drop
<1>3. CASE Answer
  <2>1. messages' \in Seq(Messages)
    <3>1. Append(messages, Text) \in Seq(Messages)
      OBVIOUS
    <3> QED
      BY <1>3, <3>1, SeqsTyped DEF Answer, EndWith
  <2> QED
    BY <1>3, <2>1 DEF Answer, EndWith
<1>4. CASE HitLimit
  <2>1. messages' \in Seq(Messages)
    <3>1. Append(messages, Text) \in Seq(Messages)
      OBVIOUS
    <3> QED
      BY <1>4, <3>1, SeqsTyped DEF HitLimit, EndWith
  <2> QED
    BY <1>4, <2>1 DEF HitLimit, EndWith
<1>5. CASE Throttle
  <2>1. CASE attempt + 1 < MaxAttempts
    BY <1>5, <2>1 DEF Throttle
  <2>2. CASE ~(attempt + 1 < MaxAttempts)
    <3>1. messages' \in Seq(Messages)
      BY <1>5, <2>2, SeqsTyped DEF Throttle, EndWith
    <3> QED
      BY <1>5, <2>2, <3>1 DEF Throttle, EndWith
  <2> QED
    BY <2>1, <2>2
<1>6. CASE Overflow
  <2>1. messages' \in Seq(Messages)
    BY <1>6, SeqsTyped DEF Overflow
  <2> QED
    BY <1>6, <2>1 DEF Overflow
<1>7. CASE Fail
  <2>1. messages' \in Seq(Messages)
    BY <1>7, SeqsTyped DEF Fail, EndWith
  <2> QED
    BY <1>7, <2>1 DEF Fail, EndWith
<1>8. ASSUME NEW n \in 1 .. MaxUses, UseTools(n) PROVE Typed'
  <2>1. Fresh(n) \subseteq Calls
    BY <1>8, FreshAreCalls DEF UseTools
  <2>2. Uses(Fresh(n)) \in Messages
    BY <2>1
  <2> QED
    BY <1>8, <2>1, <2>2 DEF UseTools, Say
<1>9. ASSUME NEW t \in Calls, ToolEnds(t) PROVE Typed'
  BY <1>9 DEF ToolEnds
<1>10. ASSUME NEW long \in BOOLEAN, AskAgain(long) PROVE Typed'
  BY <1>10 DEF AskAgain, Say
<1>11. CASE UNCHANGED vars
  BY <1>11 DEF vars
<1> QED
  BY <1>1, <1>2, <1>3, <1>4, <1>5, <1>6, <1>7, <1>8, <1>9, <1>10, <1>11 DEF Next, Step

LEMMA TypedInit == Init => Typed
BY Bounds DEF Init, Typed, TypeOK, Counted

\* The types of an agent and of its conversation.
THEOREM Typing == Spec => []TypeOK
<1>1. Typed => TypeOK
  BY DEF Typed
<1> QED
  BY <1>1, TypedInit, TypedStep, PTL DEF Spec

\* A model that is only throttled is asked MaxAttempts times, whatever overflows
\* come between.
THEOREM RetriesAreBounded == Spec => []AttemptsBounded
<1>1. Typed => AttemptsBounded
  BY Bounds DEF Typed, TypeOK, AttemptsBounded
<1> QED
  BY <1>1, TypedInit, TypedStep, PTL DEF Spec
-----------------------------------------------------------------------------
(***************************************************************************)
(* Pairing.  A conversation is chained when every message of tool calls    *)
(* that is not its last has exactly the results of its calls behind it, and *)
(* every message of results follows tool calls.  What is trimmed begins     *)
(* with a prompt or with calls, so it is chained too.                      *)
(***************************************************************************)
Chained(ms) ==
  \A i \in 1 .. Len(ms) :
    /\ ms[i].kind = "uses" /\ i < Len(ms)
         => ms[i + 1].kind = "results" /\ ms[i + 1].ids = ms[i].ids
    /\ ms[i].kind = "results" => i > 1 /\ ms[i - 1].kind = "uses"

Last(ms) == ms[Len(ms)]

\* Results come behind tool calls only, with their ids, and nothing else does.
MayFollow(ms, m) ==
  IF Len(ms) > 0 /\ Last(ms).kind = "uses"
  THEN m.kind = "results" /\ m.ids = Last(ms).ids
  ELSE m.kind # "results"

LEMMA ChainedAppend ==
  ASSUME NEW ms \in Seq(Messages), Chained(ms), NEW m \in Messages, MayFollow(ms, m)
  PROVE  Chained(Append(ms, m))
<1> DEFINE x == Append(ms, m)
<1>1. Len(x) = Len(ms) + 1 /\ x[Len(ms) + 1] = m /\ \A i \in 1 .. Len(ms) : x[i] = ms[i]
  OBVIOUS
<1> HIDE DEF x
<1>2. Chained(x)
  <2> SUFFICES ASSUME NEW i \in 1 .. Len(x)
               PROVE  /\ x[i].kind = "uses" /\ i < Len(x)
                           => x[i + 1].kind = "results" /\ x[i + 1].ids = x[i].ids
                      /\ x[i].kind = "results" => i > 1 /\ x[i - 1].kind = "uses"
    BY DEF Chained
  <2>1. CASE i = Len(ms) + 1
    BY <1>1, <2>1 DEF MayFollow, Last
  <2>2. CASE i = Len(ms)
    BY <1>1, <2>2 DEF MayFollow, Last, Chained
  <2>3. CASE i < Len(ms)
    BY <1>1, <2>3 DEF Chained
  <2> QED
    BY <1>1, <2>1, <2>2, <2>3
<1> QED
  BY <1>2 DEF x

\* Trimming and truncating keep the chain, and the kind and calls of its end.
LEMMA ChainedReduced ==
  ASSUME NEW ms \in Seq(Messages), Chained(ms), NEW x,
         x \in Trimmed(ms) \/ x \in Reduced(ms) \/ x \in Managed(ms)
  PROVE  /\ Chained(x) /\ x \in Seq(Messages)
         /\ (Len(ms) > 0) = (Len(x) > 0)
         /\ Len(ms) > 0 => Last(x).kind = Last(ms).kind /\ Last(x).ids = Last(ms).ids
<1> DEFINE Goal == /\ Chained(x) /\ x \in Seq(Messages)
                   /\ (Len(ms) > 0) = (Len(x) > 0)
                   /\ Len(ms) > 0 => Last(x).kind = Last(ms).kind /\ Last(x).ids = Last(ms).ids
<1>1. ASSUME x \in Trimmed(ms) PROVE Goal
  <2>1. PICK i \in 1 .. Len(ms) :
          /\ ms[i].kind \in {"prompt", "uses"}
          /\ x \in Seq(Messages) /\ Len(x) = Len(ms) - i + 1
          /\ \A j \in 1 .. Len(x) : x[j] = ms[i + j - 1]
    BY <1>1, TrimmedIsSuffix
  <2>2. Chained(x)
    <3> SUFFICES ASSUME NEW j \in 1 .. Len(x)
                 PROVE  /\ x[j].kind = "uses" /\ j < Len(x)
                             => x[j + 1].kind = "results" /\ x[j + 1].ids = x[j].ids
                        /\ x[j].kind = "results" => j > 1 /\ x[j - 1].kind = "uses"
      BY DEF Chained
    <3>1. j \in Int /\ i \in Int /\ i + j - 1 \in 1 .. Len(ms) /\ x[j] = ms[i + j - 1]
      BY <2>1
    <3>2. ASSUME j < Len(x)
          PROVE  i + j - 1 < Len(ms) /\ x[j + 1] = ms[(i + j - 1) + 1]
      <4>1. j + 1 \in 1 .. Len(x) /\ i + (j + 1) - 1 = (i + j - 1) + 1
        BY <3>1, <3>2, <2>1
      <4>2. x[j + 1] = ms[i + (j + 1) - 1]
        BY <4>1, <2>1
      <4>3. i + j - 1 < Len(ms)
        BY <3>1, <3>2, <2>1
      <4> QED
        BY <4>1, <4>2, <4>3
    <3>3. ASSUME j > 1
          PROVE  i + j - 1 > 1 /\ x[j - 1] = ms[(i + j - 1) - 1]
      <4>1. j - 1 \in 1 .. Len(x) /\ i + (j - 1) - 1 = (i + j - 1) - 1
        BY <3>1, <3>3, <2>1
      <4> QED
        BY <4>1, <3>1, <3>3, <2>1
    <3>4. j = 1 => x[j].kind # "results"
      <4>1. j = 1 => i + j - 1 = i
        BY <3>1
      <4> QED
        BY <4>1, <3>1, <2>1
    <3> QED
      BY <3>1, <3>2, <3>3, <3>4 DEF Chained
  <2>3. Len(ms) > 0 /\ Len(x) > 0 /\ Last(x) = Last(ms)
    BY <2>1 DEF Last
  <2> QED
    BY <2>1, <2>2, <2>3
<1>2. ASSUME NEW i \in Truncatable(ms), x = Truncated(ms, i) PROVE Goal
  <2>1. /\ x \in Seq(Messages) /\ Len(x) = Len(ms)
        /\ \A j \in 1 .. Len(ms) :
             x[j].kind = ms[j].kind /\ x[j].ids = ms[j].ids /\ Short(x[j]) = Short(ms[j])
    BY <1>2, TruncatedIsSame
  <2> QED
    BY <2>1 DEF Chained, Last
<1>3. CASE x = ms
  BY <1>3
<1> QED
  BY <1>1, <1>2, <1>3, ReducedIs, ManagedIs

\* The invariant: the conversation is chained, and its end fits the place.
EndFits ==
  /\ pc = "idle" /\ Len(messages) > 0 => Last(messages).kind = "text"
  /\ pc = "ask" => Len(messages) > 0 /\ Last(messages).kind \in {"prompt", "results"}
  /\ pc = "tools" => /\ Len(messages) > 0 /\ Last(messages).kind = "uses"
                     /\ Last(messages).ids = running \cup done

PairInv == Typed /\ Chained(messages) /\ EndFits

LEMMA AppendLast ==
  ASSUME NEW ms \in Seq(Messages), NEW m \in Messages
  PROVE  /\ Append(ms, m) \in Seq(Messages) /\ Len(Append(ms, m)) > 0
         /\ Last(Append(ms, m)) = m
BY DEF Last

\* Every step keeps the conversation chained.
LEMMA PairStep == PairInv /\ [Next]_vars => PairInv'
<1> SUFFICES ASSUME PairInv, [Next]_vars PROVE Chained(messages)' /\ EndFits'
  BY TypedStep DEF PairInv
<1>0. /\ messages \in Seq(Messages) /\ Chained(messages) /\ EndFits
      /\ running \subseteq Calls /\ done \subseteq Calls /\ turns \in Nat
  BY Bounds DEF PairInv, Typed, TypeOK
<1> USE <1>0, MessagesMade
<1>1. CASE Call
  <2>1. MayFollow(messages, Prompt) /\ Prompt.kind = "prompt"
    BY <1>1 DEF Call, EndFits, MayFollow, Prompt, Message
  <2>2. messages' = Append(messages, Prompt) /\ pc' = "ask"
    BY <1>1 DEF Call, Say
  <2> QED
    BY <2>1, <2>2, ChainedAppend, AppendLast DEF EndFits
<1>2. CASE Drop
  BY <1>2 DEF Drop, EndFits, talk
<1>3. CASE Answer \/ HitLimit
  <2>1. MayFollow(messages, Text) /\ Text.kind = "text"
    BY <1>3 DEF Answer, HitLimit, EndFits, MayFollow, Text, Message
  <2>2. messages' \in Managed(Append(messages, Text)) /\ pc' \in {"idle", "dropped"}
    BY <1>3 DEF Answer, HitLimit, EndWith
  <2>3. Chained(Append(messages, Text)) /\ Append(messages, Text) \in Seq(Messages)
        /\ Len(Append(messages, Text)) > 0 /\ Last(Append(messages, Text)) = Text
    BY <2>1, ChainedAppend, AppendLast
  <2>4. Chained(messages') /\ Len(messages') > 0 /\ Last(messages').kind = "text"
    BY <2>1, <2>2, <2>3, ChainedReduced
  <2> QED
    BY <2>2, <2>4 DEF EndFits
<1>4. CASE Throttle
  <2>1. UNCHANGED <<pc, messages>> \/ (pc' = "dropped" /\ messages' \in Managed(messages))
    BY <1>4 DEF Throttle, EndWith
  <2>2. pc = "ask" /\ running' = running /\ done' = done
    BY <1>4 DEF Throttle, tasks
  <2> QED
    BY <2>1, <2>2, ChainedReduced DEF EndFits
<1>5. CASE Overflow
  <2>1. messages' \in Reduced(messages) /\ pc = "ask" /\ pc' = "ask"
    BY <1>5 DEF Overflow
  <2>2. Chained(messages') /\ Len(messages') > 0 /\ Last(messages').kind = Last(messages).kind
    BY <2>1, ChainedReduced DEF EndFits
  <2> QED
    BY <2>1, <2>2 DEF EndFits
<1>6. CASE Fail
  <2>1. messages' \in Managed(messages) /\ pc' = "dropped"
    BY <1>6 DEF Fail, EndWith
  <2> QED
    BY <2>1, ChainedReduced DEF EndFits
<1>7. ASSUME NEW n \in 1 .. MaxUses, UseTools(n) PROVE Chained(messages)' /\ EndFits'
  <2>1. Fresh(n) \subseteq Calls
    BY <1>7, FreshAreCalls DEF UseTools
  <2>2. Uses(Fresh(n)) \in Messages /\ Uses(Fresh(n)).kind = "uses" /\ Uses(Fresh(n)).ids = Fresh(n)
    BY <2>1 DEF Uses, Message
  <2>3. MayFollow(messages, Uses(Fresh(n)))
    BY <1>7, <2>2 DEF UseTools, EndFits, MayFollow
  <2>4. /\ messages' = Append(messages, Uses(Fresh(n))) /\ pc' = "tools"
        /\ running' \cup done' = Fresh(n)
    BY <1>7 DEF UseTools, Say
  <2> QED
    BY <2>2, <2>3, <2>4, ChainedAppend, AppendLast DEF EndFits
<1>8. ASSUME NEW t \in Calls, ToolEnds(t) PROVE Chained(messages)' /\ EndFits'
  <2>1. running' \cup done' = running \cup done /\ messages' = messages /\ pc' = "tools"
        /\ pc = "tools"
    BY <1>8 DEF ToolEnds, talk
  <2> QED
    BY <2>1 DEF EndFits
<1>9. ASSUME NEW long \in BOOLEAN, AskAgain(long) PROVE Chained(messages)' /\ EndFits'
  <2>1. /\ Results(done, long) \in Messages
        /\ Results(done, long).kind = "results" /\ Results(done, long).ids = done
    BY DEF Results, Message
  <2>2. MayFollow(messages, Results(done, long))
    BY <1>9, <2>1 DEF AskAgain, EndFits, MayFollow
  <2>3. messages' = Append(messages, Results(done, long)) /\ pc' = "ask"
    BY <1>9 DEF AskAgain, Say
  <2> QED
    BY <2>1, <2>2, <2>3, ChainedAppend, AppendLast DEF EndFits
<1>10. CASE UNCHANGED vars
  BY <1>10 DEF vars, talk, tasks, EndFits
<1> QED
  BY <1>1, <1>2, <1>3, <1>4, <1>5, <1>6, <1>7, <1>8, <1>9, <1>10 DEF Next, Step

\* Every request is paired and ends with a message of the user, however often
\* the conversation was truncated, trimmed or retried.
THEOREM RequestsAreSound == Spec => []SoundRequests
<1>1. Init => PairInv
  BY TypedInit DEF Init, PairInv, Chained, EndFits
<1>2. PairInv => SoundRequests
  <2> SUFFICES ASSUME PairInv, pc = "ask"
               PROVE  /\ Paired(messages)
                      /\ messages # << >> /\ Last(messages).kind \in {"prompt", "results"}
    BY DEF SoundRequests, Last
  <2>1. Len(messages) > 0 /\ Last(messages).kind \in {"prompt", "results"}
        /\ messages \in Seq(Messages) /\ Chained(messages)
    BY DEF PairInv, EndFits, Typed, TypeOK
  <2>2. Paired(messages)
    BY <2>1 DEF Paired, Chained, OfKind, Last
  <2> QED
    BY <2>1, <2>2
<1> QED
  BY <1>1, <1>2, PairStep, PTL DEF Spec
-----------------------------------------------------------------------------
(***************************************************************************)
(* The end of the talk.  Appending adds one message to the conversation    *)
(* and to what was said, truncating changes no kind and no call, trimming  *)
(* takes messages from the front only.                                     *)
(***************************************************************************)
EndOf(ms, sd) ==
  /\ Len(ms) <= Len(sd)
  /\ \A i \in 1 .. Len(ms) : Short(ms[i]) = Short(sd[(Len(sd) - Len(ms)) + i])

LEMMA EndOfAppend ==
  ASSUME NEW ms \in Seq(Messages), NEW sd \in Seq(Messages), EndOf(ms, sd), NEW m \in Messages
  PROVE  EndOf(Append(ms, m), Append(sd, m))
<1> DEFINE x == Append(ms, m)
           y == Append(sd, m)
<1>1. /\ Len(x) = Len(ms) + 1 /\ x[Len(ms) + 1] = m /\ \A i \in 1 .. Len(ms) : x[i] = ms[i]
      /\ Len(y) = Len(sd) + 1 /\ y[Len(sd) + 1] = m /\ \A i \in 1 .. Len(sd) : y[i] = sd[i]
      /\ Len(ms) \in Nat /\ Len(sd) \in Nat
  OBVIOUS
<1> HIDE DEF x, y
<1>2. ASSUME NEW i \in 1 .. Len(x) PROVE Short(x[i]) = Short(y[(Len(y) - Len(x)) + i])
  <2>0. Len(y) - Len(x) = Len(sd) - Len(ms) /\ Len(sd) - Len(ms) \in Nat
    BY <1>1 DEF EndOf
  <2>1. CASE i = Len(ms) + 1
    <3>1. (Len(y) - Len(x)) + i = Len(sd) + 1
      BY <1>1, <2>0, <2>1
    <3> QED
      BY <1>1, <2>1, <3>1
  <2>2. CASE i \in 1 .. Len(ms)
    <3>1. (Len(sd) - Len(ms)) + i \in 1 .. Len(sd)
      BY <1>1, <2>0, <2>2
    <3>2. Short(ms[i]) = Short(sd[(Len(sd) - Len(ms)) + i])
      BY <2>2 DEF EndOf
    <3> QED
      BY <1>1, <2>0, <2>2, <3>1, <3>2
  <2> QED
    BY <1>1, <1>2, <2>1, <2>2
<1>3. EndOf(x, y)
  BY <1>1, <1>2 DEF EndOf
<1> QED
  BY <1>3 DEF x, y

LEMMA EndOfReduced ==
  ASSUME NEW ms \in Seq(Messages), NEW sd \in Seq(Messages), EndOf(ms, sd), NEW x,
         x \in Trimmed(ms) \/ x \in Reduced(ms) \/ x \in Managed(ms)
  PROVE  EndOf(x, sd)
<1>1. ASSUME x \in Trimmed(ms) PROVE EndOf(x, sd)
  <2>1. PICK i \in 1 .. Len(ms) :
          /\ ms[i].kind \in {"prompt", "uses"}
          /\ x \in Seq(Messages) /\ Len(x) = Len(ms) - i + 1
          /\ \A j \in 1 .. Len(x) : x[j] = ms[i + j - 1]
    BY <1>1, TrimmedIsSuffix
  <2>2. ASSUME NEW j \in 1 .. Len(x)
        PROVE  Short(x[j]) = Short(sd[(Len(sd) - Len(x)) + j])
    <3>1. i + j - 1 \in 1 .. Len(ms)
      BY <2>1
    <3>2. (Len(sd) - Len(ms)) + (i + j - 1) = (Len(sd) - Len(x)) + j
      BY <2>1
    <3>3. Short(ms[i + j - 1]) = Short(sd[(Len(sd) - Len(ms)) + (i + j - 1)])
      BY <3>1 DEF EndOf
    <3> QED
      BY <2>1, <3>2, <3>3
  <2>3. Len(x) <= Len(sd)
    BY <2>1 DEF EndOf
  <2> QED
    BY <2>2, <2>3 DEF EndOf
<1>2. ASSUME NEW i \in Truncatable(ms), x = Truncated(ms, i) PROVE EndOf(x, sd)
  <2>1. /\ x \in Seq(Messages) /\ Len(x) = Len(ms)
        /\ \A j \in 1 .. Len(ms) : Short(x[j]) = Short(ms[j])
    BY <1>2, TruncatedIsSame
  <2> QED
    BY <2>1 DEF EndOf
<1> QED
  BY <1>1, <1>2, ReducedIs, ManagedIs

\* All of it, until the context overflows: within the window at any time, past it
\* while the one invocation of an agent with tools lasts.
AllSaid ==
  overflows = 0 => \/ messages = said
                   \/ Len(said) > Window /\ (tools => pc \in {"idle", "dropped"} /\ prompts > 0)

\* A talk begins with a prompt; the request of an agent without tools ends with one.
Prompted ==
  /\ pc \in {"ask", "tools"} => prompts > 0
  /\ IF prompts > 0 THEN Len(said) > 0 /\ said[1].kind = "prompt"
                    ELSE messages = << >> /\ said = << >>
  /\ pc = "tools" => tools
  /\ pc = "ask" /\ ~tools => Last(messages).kind = "prompt"

TalkInv == PairInv /\ EndOf(messages, said) /\ AllSaid /\ Prompted

LEMMA FirstStays ==
  ASSUME NEW sd \in Seq(Messages), NEW m \in Messages
  PROVE  /\ Len(Append(sd, m)) > 0 /\ Append(sd, m) \in Seq(Messages)
         /\ Len(Append(sd, m)) = Len(sd) + 1
         /\ Append(sd, m)[1] = IF Len(sd) > 0 THEN sd[1] ELSE m
OBVIOUS

\* Every step keeps the conversation the end of what was said.
LEMMA TalkStep == TalkInv /\ [Next]_vars => TalkInv'
<1> SUFFICES ASSUME TalkInv, [Next]_vars
             PROVE  EndOf(messages, said)' /\ AllSaid' /\ Prompted'
  BY PairStep DEF TalkInv
<1>0. /\ messages \in Seq(Messages) /\ said \in Seq(Messages) /\ overflows \in Nat
      /\ EndOf(messages, said) /\ AllSaid /\ Prompted /\ PairInv /\ EndFits
      /\ done \subseteq Calls /\ turns \in Nat /\ prompts \in Nat /\ Window \in Nat
      /\ tools \in BOOLEAN /\ Chained(messages)
  BY Bounds DEF TalkInv, PairInv, Typed, TypeOK
<1> USE <1>0, MessagesMade
<1>1. CASE Call
  <2>1. /\ messages' = Append(messages, Prompt) /\ said' = Append(said, Prompt)
        /\ pc = "idle" /\ pc' = "ask" /\ prompts' = prompts + 1 /\ tools' = tools
        /\ overflows' = overflows /\ (tools => prompts = 0)
    BY <1>1 DEF Call, Say
  <2>2. EndOf(messages', said') /\ Last(messages') = Prompt /\ Prompt.kind = "prompt"
    BY <2>1, EndOfAppend, AppendLast DEF Prompt, Message
  <2>3. AllSaid'
    BY <2>1, FirstStays DEF AllSaid, Prompted
  <2>4. Prompted'
    BY <2>1, <2>2, FirstStays DEF Prompted
  <2> QED
    BY <2>2, <2>3, <2>4
<1>2. CASE Drop
  BY <1>2 DEF Drop, talk, AllSaid, Prompted
<1>3. CASE Answer \/ HitLimit
  <2>1. /\ messages' \in Managed(Append(messages, Text)) /\ said' = Append(said, Text)
        /\ pc = "ask" /\ pc' \in {"idle", "dropped"} /\ prompts' = prompts /\ tools' = tools
        /\ overflows' = overflows
    BY <1>3 DEF Answer, HitLimit, EndWith
  <2>2. EndOf(messages', said')
    BY <2>1, EndOfAppend, EndOfReduced, AppendLast
  <2>3. prompts > 0
    BY <2>1 DEF Prompted
  <2>4. AllSaid'
    <3> SUFFICES ASSUME overflows = 0, ~(Len(said') > Window) PROVE messages' = said'
      BY <2>1, <2>3 DEF AllSaid
    <3>1. Len(said') = Len(said) + 1
      BY <2>1, FirstStays
    <3>2. messages = said
      BY <3>1 DEF AllSaid
    <3>3. Len(Append(messages, Text)) <= Window
      BY <2>1, <3>2
    <3> QED
      BY <2>1, <3>2, <3>3 DEF Managed
  <2>5. Prompted'
    BY <2>1, <2>3, FirstStays DEF Prompted
  <2> QED
    BY <2>2, <2>4, <2>5
<1>4. CASE Throttle \/ Fail
  <2>1. /\ \/ messages' = messages /\ pc' = "ask"
           \/ messages' \in Managed(messages) /\ pc' = "dropped"
        /\ said' = said /\ pc = "ask" /\ prompts' = prompts /\ tools' = tools
        /\ overflows' = overflows
    <3>1. CASE Throttle
      <4>1. CASE attempt + 1 < MaxAttempts
        <5>1. messages' = messages /\ pc' = pc /\ pc = "ask" /\ said' = said
          BY <3>1, <4>1 DEF Throttle
        <5>2. prompts' = prompts /\ tools' = tools /\ overflows' = overflows
          BY <3>1 DEF Throttle
        <5> QED
          BY <5>1, <5>2
      <4>2. CASE ~(attempt + 1 < MaxAttempts)
        BY <3>1, <4>2 DEF Throttle, EndWith
      <4> QED
        BY <4>1, <4>2
    <3>2. CASE Fail
      BY <3>2 DEF Fail, EndWith
    <3> QED
      BY <1>4, <3>1, <3>2
  <2>2. EndOf(messages', said') /\ prompts > 0
    BY <2>1, EndOfReduced DEF Prompted
  <2>3. AllSaid'
    <3>1. messages' = messages \/ Len(messages) > Window
      BY <2>1 DEF Managed
    <3> QED
      BY <2>1, <2>2, <3>1 DEF AllSaid
  <2>4. Prompted'
    BY <2>1, <2>2 DEF Prompted
  <2> QED
    BY <2>2, <2>3, <2>4
<1>5. CASE Overflow
  <2>1. /\ messages' \in Reduced(messages) /\ said' = said /\ pc = "ask" /\ pc' = "ask"
        /\ prompts' = prompts /\ tools' = tools /\ overflows' = overflows + 1
    BY <1>5 DEF Overflow, tries
  <2>2. EndOf(messages', said') /\ Last(messages').kind = Last(messages).kind /\ prompts > 0
    BY <2>1, EndOfReduced, ChainedReduced DEF EndFits, Prompted
  <2>3. AllSaid' /\ Prompted'
    BY <2>1, <2>2 DEF AllSaid, Prompted
  <2> QED
    BY <2>2, <2>3
<1>6. ASSUME NEW n \in 1 .. MaxUses, UseTools(n)
      PROVE  EndOf(messages, said)' /\ AllSaid' /\ Prompted'
  <2>1. Uses(Fresh(n)) \in Messages
    BY <1>6, FreshAreCalls DEF UseTools
  <2>2. /\ messages' = Append(messages, Uses(Fresh(n))) /\ said' = Append(said, Uses(Fresh(n)))
        /\ pc = "ask" /\ pc' = "tools" /\ prompts' = prompts /\ tools /\ tools' = tools
        /\ overflows' = overflows
    BY <1>6 DEF UseTools, Say
  <2>3. EndOf(messages', said')
    BY <2>1, <2>2, EndOfAppend
  <2>4. AllSaid'
    BY <2>2 DEF AllSaid
  <2>5. Prompted'
    BY <2>1, <2>2, FirstStays DEF Prompted
  <2> QED
    BY <2>3, <2>4, <2>5
<1>7. ASSUME NEW t \in Calls, ToolEnds(t)
      PROVE  EndOf(messages, said)' /\ AllSaid' /\ Prompted'
  BY <1>7 DEF ToolEnds, talk, AllSaid, Prompted
<1>8. ASSUME NEW long \in BOOLEAN, AskAgain(long)
      PROVE  EndOf(messages, said)' /\ AllSaid' /\ Prompted'
  <2>1. Results(done, long) \in Messages
    OBVIOUS
  <2>2. /\ messages' = Append(messages, Results(done, long))
        /\ said' = Append(said, Results(done, long))
        /\ pc = "tools" /\ pc' = "ask" /\ prompts' = prompts /\ tools /\ tools' = tools
        /\ overflows' = overflows
    BY <1>8 DEF AskAgain, Say, Prompted
  <2>3. EndOf(messages', said')
    BY <2>1, <2>2, EndOfAppend
  <2>4. AllSaid'
    BY <2>2 DEF AllSaid
  <2>5. Prompted'
    BY <2>1, <2>2, FirstStays DEF Prompted
  <2> QED
    BY <2>3, <2>4, <2>5
<1>9. CASE UNCHANGED vars
  BY <1>9 DEF vars, talk, AllSaid, Prompted
<1> QED
  BY <1>1, <1>2, <1>3, <1>4, <1>5, <1>6, <1>7, <1>8, <1>9 DEF Next, Step

\* What the model is sent is the end of everything that was said, all of it until
\* the context overflows; an agent without tools is always sent its last prompt.
THEOREM RequestsEndTheTalk == Spec => []EndOfTheTalk
<1>1. Init => TalkInv
  <2>1. Init => PairInv
    BY TypedInit DEF Init, PairInv, Chained, EndFits
  <2> QED
    BY <2>1 DEF Init, TalkInv, EndOf, AllSaid, Prompted
<1>2. TalkInv => EndOfTheTalk
  <2> SUFFICES ASSUME TalkInv, pc = "ask"
               PROVE  /\ Len(said) - Len(messages) >= 0
                      /\ \A i \in 1 .. Len(messages) :
                           Short(messages[i]) = Short(said[(Len(said) - Len(messages)) + i])
                      /\ overflows = 0 /\ (tools \/ Len(said) <= Window) => messages = said
                      /\ OfKind(messages, "prompt") = {} => tools /\ overflows > 0
    BY DEF EndOfTheTalk
  <2>1. /\ messages \in Seq(Messages) /\ said \in Seq(Messages) /\ overflows \in Nat
        /\ EndOf(messages, said) /\ AllSaid /\ Prompted /\ EndFits /\ Window \in Nat
        /\ tools \in BOOLEAN
    BY Bounds DEF TalkInv, PairInv, Typed, TypeOK
  <2>2. overflows = 0 /\ (tools \/ Len(said) <= Window) => messages = said
    BY <2>1 DEF AllSaid
  <2>3. ASSUME OfKind(messages, "prompt") = {} PROVE tools /\ overflows > 0
    <3>1. \A i \in 1 .. Len(messages) : messages[i].kind # "prompt"
      BY <2>3 DEF OfKind
    <3>2. tools
      BY <2>1, <3>1 DEF Prompted, EndFits, Last
    <3>3. overflows # 0
      BY <2>1, <2>2, <3>1, <3>2 DEF Prompted
    <3> QED
      BY <2>1, <3>2, <3>3
  <2> QED
    BY <2>1, <2>2, <2>3 DEF EndOf
<1> QED
  BY <1>1, <1>2, TalkStep, PTL DEF Spec
-----------------------------------------------------------------------------
(***************************************************************************)
(* Overflows.  Every message pays for one: results by being truncated, any *)
(* other message by being dropped.  Results that were truncated are dropped *)
(* with the calls before them, which pay for that overflow.                 *)
(***************************************************************************)
LEMMA ReserveIsNumber ==
  ASSUME NEW ms \in Seq(Messages)
  PROVE  IsFiniteSet(Unspent(ms)) /\ Reserve(ms) \in Nat
<1>1. IsFiniteSet(1 .. Len(ms)) /\ Unspent(ms) \subseteq 1 .. Len(ms)
  BY FS_Interval DEF Unspent
<1> QED
  BY <1>1, FS_Subset, FS_CardinalityType DEF Reserve

\* A message adds at most one.
LEMMA ReserveOfAppend ==
  ASSUME NEW ms \in Seq(Messages), NEW m \in Messages
  PROVE  Reserve(Append(ms, m)) <= Reserve(ms) + 1
<1> DEFINE x == Append(ms, m)
           bound == Unspent(ms) \cup {Len(ms) + 1}
<1>1. Len(x) = Len(ms) + 1 /\ \A i \in 1 .. Len(ms) : x[i] = ms[i]
  OBVIOUS
<1> HIDE DEF x
<1>2. Unspent(x) \subseteq bound /\ Len(ms) + 1 \notin Unspent(ms)
  BY <1>1 DEF Unspent
<1>3. IsFiniteSet(bound) /\ Cardinality(bound) = Reserve(ms) + 1
  BY <1>2, ReserveIsNumber, FS_AddElement DEF Reserve
<1> HIDE DEF bound
<1>4. Cardinality(Unspent(x)) <= Cardinality(bound)
  BY <1>2, <1>3, FS_Subset
<1> QED
  BY <1>3, <1>4 DEF Reserve, x

\* To truncate results spends their one.
LEMMA ReserveOfTruncated ==
  ASSUME NEW ms \in Seq(Messages), NEW i \in Truncatable(ms)
  PROVE  Reserve(Truncated(ms, i)) = Reserve(ms) - 1
<1> DEFINE x == Truncated(ms, i)
<1>1. i \in 1 .. Len(ms) /\ ms[i].long /\ ms[i].kind = "results" /\ ms[i] \in Messages
  BY DEF Truncatable, TheFirst, OfKind
<1>2. Len(x) = Len(ms) /\ \A j \in 1 .. Len(ms) : x[j].kind = ms[j].kind
  BY TruncatedIsSame
<1>3. ~x[i].long /\ \A j \in 1 .. Len(ms) : j # i => x[j] = ms[j]
  BY <1>1 DEF Truncated, Messages
<1> HIDE DEF x
<1>4. Unspent(x) = Unspent(ms) \ {i} /\ i \in Unspent(ms)
  BY <1>1, <1>2, <1>3 DEF Unspent
<1>5. Cardinality(Unspent(x)) = Reserve(ms) - 1
  BY <1>4, ReserveIsNumber, FS_RemoveElement DEF Reserve
<1> QED
  BY <1>5 DEF Reserve, x

\* To trim drops the first message, which is never a message of results.
LEMMA ReserveOfTrimmed ==
  ASSUME NEW ms \in Seq(Messages), Chained(ms), NEW x \in Trimmed(ms)
  PROVE  Reserve(x) <= Reserve(ms) - 1
<1>1. PICK i \in TrimPoints(ms) : x = SubSeq(ms, i, Len(ms))
  BY DEF Trimmed
<1>2. i \in 1 .. Len(ms) /\ i >= Begins(ms)
  BY <1>1 DEF TrimPoints, TheFirst, OfKind, Pairs
<1>3. i > 1
  BY <1>2, Bounds DEF Begins
<1>4. Len(x) = Len(ms) - i + 1 /\ \A j \in 1 .. Len(x) : x[j] = ms[i + j - 1]
  BY <1>1, <1>2
<1> DEFINE rest == Unspent(ms) \ {1}
           shift == [j \in Unspent(x) |-> i + j - 1]
<1>5. 1 \in Unspent(ms)
  BY <1>2 DEF Unspent, Chained
<1>6. IsFiniteSet(rest) /\ Cardinality(rest) = Reserve(ms) - 1
  BY <1>5, ReserveIsNumber, FS_RemoveElement DEF Reserve
<1>7. ASSUME NEW j \in Unspent(x) PROVE i + j - 1 \in rest /\ j \in Int
  BY <1>2, <1>3, <1>4, <1>7 DEF Unspent
<1>8. shift \in Injection(Unspent(x), rest)
  <2>1. shift \in [Unspent(x) -> rest]
    BY <1>7
  <2>2. \A j, k \in Unspent(x) : shift[j] = shift[k] => j = k
    BY <1>2, <1>7
  <2> QED
    BY <2>1, <2>2 DEF Injection, IsInjective
<1> HIDE DEF rest, shift
<1>9. Cardinality(Unspent(x)) <= Cardinality(rest)
  BY <1>6, <1>8, FS_Injection
<1> QED
  BY <1>6, <1>9 DEF Reserve

\* What reduces the messages spends one.
LEMMA ReserveOfReduced ==
  ASSUME NEW ms \in Seq(Messages), Chained(ms), NEW x \in Reduced(ms)
  PROVE  Reserve(x) \in Nat /\ Reserve(x) <= Reserve(ms) - 1
<1>1. x \in Seq(Messages) /\ Reserve(x) \in Nat /\ Reserve(ms) \in Nat
  BY SeqsTyped, ReserveIsNumber
<1>2. CASE x \in Trimmed(ms)
  BY <1>1, <1>2, ReserveOfTrimmed
<1>3. ASSUME NEW i \in Truncatable(ms), x = Truncated(ms, i)
      PROVE  Reserve(x) = Reserve(ms) - 1
  BY <1>3, ReserveOfTruncated
<1> QED
  BY <1>1, <1>2, <1>3, ReducedIs

SpentInv == PairInv /\ overflows + Reserve(messages) <= Len(said)

LEMMA ReserveOfManaged ==
  ASSUME NEW ms \in Seq(Messages), Chained(ms), NEW x \in Managed(ms)
  PROVE  Reserve(x) <= Reserve(ms) /\ x \in Seq(Messages) /\ Reserve(x) \in Nat
<1>1. x \in Seq(Messages)
  BY SeqsTyped
<1>2. CASE x = ms
  BY <1>1, <1>2, ReserveIsNumber
<1>3. CASE x \in Trimmed(ms)
  BY <1>1, <1>3, ReserveIsNumber, ReserveOfTrimmed
<1> QED
  BY <1>2, <1>3, ManagedIs

\* Every message pays once.
LEMMA SpentStep == SpentInv /\ [Next]_vars => SpentInv'
<1> SUFFICES ASSUME SpentInv, [Next]_vars
             PROVE  overflows' + Reserve(messages') <= Len(said')
  BY PairStep DEF SpentInv, Reserve, Unspent
<1>0. /\ messages \in Seq(Messages) /\ said \in Seq(Messages) /\ overflows \in Nat
      /\ Chained(messages) /\ EndFits /\ done \subseteq Calls /\ turns \in Nat
      /\ Reserve(messages) \in Nat /\ overflows + Reserve(messages) <= Len(said)
  BY Bounds, ReserveIsNumber DEF SpentInv, PairInv, Typed, TypeOK
<1> USE <1>0, MessagesMade
\* One more message said, at most one more in reserve.
<1>1. ASSUME NEW m \in Messages, messages' = Append(messages, m), said' = Append(said, m),
             overflows' = overflows
      PROVE  overflows' + Reserve(messages') <= Len(said')
  <2>1. Len(said') = Len(said) + 1 /\ Append(messages, m) \in Seq(Messages)
    BY <1>1
  <2>2. Reserve(messages') <= Reserve(messages) + 1 /\ Reserve(messages') \in Nat
    BY <1>1, <2>1, ReserveOfAppend, ReserveIsNumber
  <2> QED
    BY <1>1, <2>1, <2>2
<1>2. CASE Call
  BY <1>1, <1>2 DEF Call, Say
<1>3. ASSUME NEW n \in 1 .. MaxUses, UseTools(n)
      PROVE  overflows' + Reserve(messages') <= Len(said')
  <2>1. Fresh(n) \subseteq Calls
    BY <1>3, FreshAreCalls DEF UseTools
  <2> QED
    BY <1>1, <1>3, <2>1 DEF UseTools, Say
<1>4. ASSUME NEW long \in BOOLEAN, AskAgain(long)
      PROVE  overflows' + Reserve(messages') <= Len(said')
  BY <1>1, <1>4 DEF AskAgain, Say
<1>5. CASE Answer \/ HitLimit
  <2>1. /\ messages' \in Managed(Append(messages, Text)) /\ overflows' = overflows
        /\ Len(said') = Len(said) + 1
    BY <1>5 DEF Answer, HitLimit, EndWith
  <2>2. MayFollow(messages, Text)
    BY <1>5 DEF Answer, HitLimit, EndFits, MayFollow, Text, Message
  <2>3. Chained(Append(messages, Text)) /\ Append(messages, Text) \in Seq(Messages)
    BY <2>2, ChainedAppend
  <2>4. /\ Reserve(messages') <= Reserve(Append(messages, Text)) /\ Reserve(messages') \in Nat
        /\ Reserve(Append(messages, Text)) <= Reserve(messages) + 1
        /\ Reserve(Append(messages, Text)) \in Nat
    BY <2>1, <2>3, ReserveOfManaged, ReserveOfAppend, ReserveIsNumber
  <2> QED
    BY <2>1, <2>4
<1>6. CASE Throttle \/ Fail
  <2>1. /\ messages' = messages \/ messages' \in Managed(messages)
        /\ overflows' = overflows /\ said' = said
    BY <1>6 DEF Throttle, Fail, EndWith
  <2>2. Reserve(messages') <= Reserve(messages) /\ Reserve(messages') \in Nat
    BY <2>1, ReserveOfManaged
  <2> QED
    BY <2>1, <2>2
<1>7. CASE Overflow
  <2>1. messages' \in Reduced(messages) /\ overflows' = overflows + 1 /\ said' = said
    BY <1>7 DEF Overflow
  <2>2. Reserve(messages') \in Nat /\ Reserve(messages') <= Reserve(messages) - 1
    BY <2>1, ReserveOfReduced
  <2> QED
    BY <2>1, <2>2
<1>8. CASE UNCHANGED talk
  BY <1>8 DEF talk
<1> QED
  BY <1>2, <1>3, <1>4, <1>5, <1>6, <1>7, <1>8 DEF Next, Step, Drop, ToolEnds, vars

\* An agent overflows the context at most once for each message that was said,
\* for any window and any number of prompts, tools and turns: it cannot go on
\* reducing and asking for ever.
THEOREM OverflowsEnd == Spec => []OverflowsBounded
<1>1. Init => SpentInv
  <2> SUFFICES ASSUME Init PROVE SpentInv
    OBVIOUS
  <2>1. PairInv /\ messages = << >> /\ said = << >> /\ overflows = 0
    BY TypedInit DEF Init, PairInv, Chained, EndFits
  <2>2. Unspent(messages) = {}
    BY <2>1 DEF Unspent
  <2>3. Reserve(messages) = 0
    BY <2>2, FS_EmptySet DEF Reserve
  <2> QED
    BY <2>1, <2>3 DEF SpentInv
<1>2. SpentInv => OverflowsBounded
  <2> SUFFICES ASSUME SpentInv PROVE overflows <= Len(said)
    BY DEF OverflowsBounded
  <2>1. messages \in Seq(Messages) /\ said \in Seq(Messages) /\ overflows \in Nat
        /\ overflows + Reserve(messages) <= Len(said)
    BY DEF SpentInv, PairInv, Typed, TypeOK
  <2> QED
    BY <2>1, ReserveIsNumber
<1> QED
  BY <1>1, <1>2, SpentStep, PTL DEF Spec
-----------------------------------------------------------------------------
(***************************************************************************)
(* The end of an invocation.  Each step burns fuel: a turn pays for what   *)
(* it adds, a throttled request for itself, an overflow from the reserve.   *)
(***************************************************************************)
LEMMA FewFresh ==
  ASSUME turns \in Nat, NEW n \in 1 .. MaxUses
  PROVE  IsFiniteSet(Fresh(n)) /\ Cardinality(Fresh(n)) \in Nat /\ Cardinality(Fresh(n)) <= MaxUses
<1>1. turns * MaxUses \in Nat /\ MaxUses \in Nat /\ n \in Nat /\ n <= MaxUses
  BY Bounds
<1> DEFINE base == turns * MaxUses
<1>2. base \in Nat /\ Fresh(n) = {base + k : k \in 1 .. n}
  BY <1>1 DEF Fresh
<1> HIDE DEF base
<1> DEFINE back == [x \in Fresh(n) |-> x - base]
<1>3. back \in Injection(Fresh(n), 1 .. n)
  <2>1. \A x \in Fresh(n) : x - base \in 1 .. n /\ x \in Int
    BY <1>1, <1>2
  <2>2. back \in [Fresh(n) -> 1 .. n]
    BY <2>1
  <2>3. \A x, y \in Fresh(n) : back[x] = back[y] => x = y
    BY <1>2, <2>1
  <2> QED
    BY <2>2, <2>3 DEF Injection, IsInjective
<1> HIDE DEF back
<1>4. IsFiniteSet(1 .. n) /\ Cardinality(1 .. n) = n
  BY <1>1, FS_Interval
<1>5. IsFiniteSet(Fresh(n)) /\ Cardinality(Fresh(n)) <= n
  BY <1>3, <1>4, FS_Injection
<1> QED
  BY <1>1, <1>5, FS_CardinalityType

LEMMA FuelLeft ==
  ASSUME NEW n \in 0 .. MaxTurns
  PROVE  /\ (MaxTurns - n) * PerTurn \in Nat /\ PerTurn \in Nat
         /\ n < MaxTurns => (MaxTurns - n) * PerTurn = (MaxTurns - (n + 1)) * PerTurn + PerTurn
<1>1. PerTurn \in Nat /\ MaxTurns - n \in Nat /\ MaxTurns \in Nat
  BY Bounds DEF PerTurn
<1>2. \A m \in Nat : m * PerTurn \in Nat /\ (m + 1) * PerTurn = m * PerTurn + PerTurn
  BY <1>1
<1>3. n < MaxTurns => MaxTurns - (n + 1) \in Nat /\ MaxTurns - n = (MaxTurns - (n + 1)) + 1
  BY <1>1
<1> QED
  BY <1>1, <1>2, <1>3

\* No step of an invocation undoes what another has done towards its end: for
\* any window and any number of attempts, tools and turns, it takes no more
\* than Fuel steps.
THEOREM InvocationsRunOut == Spec => StepsRunOut
<1>1. Init => PairInv
  BY TypedInit DEF Init, PairInv, Chained, EndFits
<1>2. PairInv /\ PairInv' /\ [Next]_vars => [Step => Fuel' \in Nat /\ Fuel' < Fuel]_vars
  <2> SUFFICES ASSUME PairInv, PairInv', Step PROVE Fuel' \in Nat /\ Fuel' < Fuel
    OBVIOUS
  <2>0. /\ messages \in Seq(Messages) /\ messages' \in Seq(Messages) /\ Chained(messages)
        /\ EndFits /\ done \subseteq Calls /\ running \subseteq Calls /\ running' \subseteq Calls
    BY DEF PairInv, Typed, TypeOK
  <2>1. /\ turns \in 0 .. MaxTurns /\ turns' \in 0 .. MaxTurns /\ turns \in Nat
        /\ attempt \in Nat /\ attempt < MaxAttempts /\ attempt' \in Nat /\ attempt' < MaxAttempts
        /\ MaxAttempts \in Nat /\ MaxUses \in Nat /\ MaxTurns \in Nat
    BY Bounds DEF PairInv, Typed, TypeOK
  <2>2. /\ Reserve(messages) \in Nat /\ Reserve(messages') \in Nat
    BY <2>0, ReserveIsNumber
  <2>3. /\ Cardinality(running) \in Nat /\ Cardinality(running') \in Nat
        /\ IsFiniteSet(running)
    <3>1. MaxUses * MaxTurns \in Nat
      BY <2>1
    <3>2. IsFiniteSet(Calls)
      BY <3>1, FS_Interval DEF Calls
    <3> QED
      BY <2>0, <3>2, FS_Subset, FS_CardinalityType
  <2>4. Place \in Nat /\ Place' \in Nat
    BY <2>1 DEF Place
  <2>5. /\ InTurn = Cardinality(running) + Reserve(messages) + (MaxAttempts - attempt) + Place
        /\ InTurn' = Cardinality(running') + Reserve(messages') + (MaxAttempts - attempt') + Place'
    BY DEF InTurn, Reserve, Unspent
  <2>6. InTurn \in Nat /\ InTurn' \in Nat
    BY <2>1, <2>2, <2>3, <2>4, <2>5
  \* Without a new turn the rest has to shrink.
  <2>7. ASSUME turns' = turns, InTurn' < InTurn PROVE Fuel' \in Nat /\ Fuel' < Fuel
    <3>1. (MaxTurns - turns) * PerTurn \in Nat
      BY <2>1, FuelLeft
    <3>2. Fuel = ((MaxTurns - turns) * PerTurn) + InTurn
          /\ Fuel' = ((MaxTurns - turns) * PerTurn) + InTurn'
      BY <2>7 DEF Fuel, PerTurn
    <3> QED
      BY <2>6, <2>7, <3>1, <3>2
  \* It does when the invocation ends, with one message more or none.
  <2>8. ASSUME pc = "ask", pc' \in {"idle", "dropped"}, running' = running,
               Reserve(messages') <= Reserve(messages) + 1
        PROVE  InTurn' < InTurn
    <3>1. Place = MaxAttempts + 2 /\ Place' = 0
      BY <2>8 DEF Place
    <3> QED
      BY <2>1, <2>2, <2>3, <2>5, <2>8, <3>1
  <2>9. CASE Answer \/ HitLimit
    <3>1. /\ messages' \in Managed(Append(messages, Text)) /\ pc = "ask"
          /\ pc' \in {"idle", "dropped"} /\ running' = running /\ turns' = turns
      BY <2>9 DEF Answer, HitLimit, EndWith, tasks
    <3>2. MayFollow(messages, Text) /\ Text \in Messages
      BY <2>0, <2>9, MessagesMade DEF Answer, HitLimit, EndFits, MayFollow, Text, Message
    <3>3. Chained(Append(messages, Text)) /\ Append(messages, Text) \in Seq(Messages)
      BY <2>0, <3>2, ChainedAppend
    <3>4. /\ Reserve(messages') <= Reserve(Append(messages, Text))
          /\ Reserve(Append(messages, Text)) <= Reserve(messages) + 1
          /\ Reserve(Append(messages, Text)) \in Nat
      BY <2>0, <3>1, <3>2, <3>3, ReserveOfManaged, ReserveOfAppend, ReserveIsNumber
    <3>5. Reserve(messages') <= Reserve(messages) + 1
      BY <2>2, <3>4
    <3> QED
      BY <2>7, <2>8, <3>1, <3>5
  <2>10. CASE Throttle
    <3>1. running' = running /\ turns' = turns /\ pc = "ask"
      BY <2>10 DEF Throttle, tasks
    <3>2. CASE attempt + 1 < MaxAttempts
      <4>1. attempt' = attempt + 1 /\ messages' = messages /\ pc' = pc
        BY <2>10, <3>2 DEF Throttle
      <4>2. Place' = Place
        BY <4>1 DEF Place
      <4>3. InTurn' < InTurn
        BY <2>1, <2>2, <2>3, <2>4, <2>5, <3>1, <4>1, <4>2
      <4> QED
        BY <2>7, <3>1, <4>3
    <3>3. CASE ~(attempt + 1 < MaxAttempts)
      <4>1. messages' \in Managed(messages) /\ pc' = "dropped"
        BY <2>10, <3>3 DEF Throttle, EndWith
      <4>2. Reserve(messages') <= Reserve(messages) + 1
        BY <2>0, <2>2, <4>1, ReserveOfManaged
      <4> QED
        BY <2>7, <2>8, <3>1, <4>1, <4>2
    <3> QED
      BY <3>2, <3>3
  <2>11. CASE Overflow
    <3>1. /\ messages' \in Reduced(messages) /\ running' = running /\ turns' = turns
          /\ attempt' = attempt /\ pc' = pc
      BY <2>11 DEF Overflow, tasks, tries
    <3>2. Reserve(messages') <= Reserve(messages) - 1
      BY <2>0, <2>2, <3>1, ReserveOfReduced
    <3>3. Place' = Place
      BY <3>1 DEF Place
    <3>4. InTurn' < InTurn
      BY <2>1, <2>2, <2>3, <2>4, <2>5, <3>1, <3>2, <3>3
    <3> QED
      BY <2>7, <3>1, <3>4
  <2>12. CASE Fail
    <3>1. /\ messages' \in Managed(messages) /\ running' = running /\ turns' = turns
          /\ pc = "ask" /\ pc' = "dropped"
      BY <2>12 DEF Fail, EndWith, tasks
    <3>2. Reserve(messages') <= Reserve(messages) + 1
      BY <2>0, <2>2, <3>1, ReserveOfManaged
    <3> QED
      BY <2>7, <2>8, <3>1, <3>2
  \* A new turn pays for its tools, its message and the attempts it starts anew.
  <2>13. ASSUME NEW n \in 1 .. MaxUses, UseTools(n) PROVE Fuel' \in Nat /\ Fuel' < Fuel
    <3>1. /\ pc = "ask" /\ pc' = "tools" /\ turns < MaxTurns /\ turns' = turns + 1
          /\ running' = Fresh(n) /\ messages' = Append(messages, Uses(Fresh(n)))
      BY <2>13 DEF UseTools, Say
    <3>2. Uses(Fresh(n)) \in Messages
      BY <2>1, <3>1, FreshAreCalls, MessagesMade
    <3>3. Reserve(messages') <= Reserve(messages) + 1
      BY <2>0, <3>1, <3>2, ReserveOfAppend
    <3>4. Cardinality(running') <= MaxUses
      BY <2>1, <3>1, FewFresh
    <3>5. Place = MaxAttempts + 2 /\ Place' = MaxAttempts + 4
      BY <3>1 DEF Place
    <3>6. PerTurn = MaxAttempts + MaxUses + 3
      BY DEF PerTurn
    <3>7. InTurn' < InTurn + PerTurn
      BY <2>1, <2>2, <2>3, <2>5, <3>3, <3>4, <3>5, <3>6
    <3>8. /\ (MaxTurns - turns) * PerTurn = (MaxTurns - (turns + 1)) * PerTurn + PerTurn
          /\ (MaxTurns - (turns + 1)) * PerTurn \in Nat /\ PerTurn \in Nat
      <4>1. turns + 1 \in 0 .. MaxTurns
        BY <2>1, <3>1
      <4> QED
        BY <2>1, <3>1, <4>1, FuelLeft
    <3>9. /\ Fuel = ((MaxTurns - turns) * PerTurn) + InTurn
          /\ Fuel' = ((MaxTurns - (turns + 1)) * PerTurn) + InTurn'
      BY <3>1 DEF Fuel, PerTurn
    <3> QED
      BY <2>6, <3>7, <3>8, <3>9
  <2>14. ASSUME NEW t \in Calls, ToolEnds(t) PROVE Fuel' \in Nat /\ Fuel' < Fuel
    <3>1. /\ t \in running /\ running' = running \ {t} /\ messages' = messages
          /\ turns' = turns /\ attempt' = attempt /\ pc' = pc
      BY <2>14 DEF ToolEnds, talk, tries
    <3>2. Cardinality(running') = Cardinality(running) - 1
      BY <2>3, <3>1, FS_RemoveElement
    <3>3. Place' = Place
      BY <3>1 DEF Place
    <3>4. InTurn' < InTurn
      BY <2>1, <2>2, <2>3, <2>4, <2>5, <3>1, <3>2, <3>3
    <3> QED
      BY <2>7, <3>1, <3>4
  <2>15. ASSUME NEW long \in BOOLEAN, AskAgain(long) PROVE Fuel' \in Nat /\ Fuel' < Fuel
    <3>1. /\ messages' = Append(messages, Results(done, long)) /\ running' = running
          /\ turns' = turns /\ attempt' = attempt /\ pc = "tools" /\ pc' = "ask"
      BY <2>15 DEF AskAgain, Say, tries
    <3>2. Reserve(messages') <= Reserve(messages) + 1
      BY <2>0, <3>1, MessagesMade, ReserveOfAppend
    <3>3. Place = MaxAttempts + 4 /\ Place' = MaxAttempts + 2
      BY <3>1 DEF Place
    <3>4. InTurn' < InTurn
      BY <2>1, <2>2, <2>3, <2>5, <3>1, <3>2, <3>3
    <3> QED
      BY <2>7, <3>1, <3>4
  <2> QED
    BY <2>9, <2>10, <2>11, <2>12, <2>13, <2>14, <2>15 DEF Step
<1> QED
  BY <1>1, <1>2, PairStep, PTL DEF Spec, StepsRunOut
=============================================================================
