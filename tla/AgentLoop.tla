------------------------------ MODULE AgentLoop ------------------------------
(***************************************************************************)
(* One Agent of agents.py and the strands event loop under it: a prompt is *)
(* appended to the messages, the model is asked, the tools it calls run    *)
(* concurrently, their results are appended and it is asked again, until   *)
(* it answers with text.  A throttled request is retried, one that does    *)
(* not fit the context is retried with the messages reduced, any other     *)
(* failure ends the agent, because its caller does not catch it.           *)
(*                                                                         *)
(* The planner has tools and gets one prompt; the wellness and the briefing *)
(* agent have none, and the briefing agent gets the whole payload again    *)
(* when its brief was not grounded, on top of its first messages.          *)
(***************************************************************************)
EXTENDS Integers, Sequences, FiniteSets

CONSTANTS
  Window,        \* messages the sliding window keeps (40)
  MaxAttempts,   \* throttled requests until the exception is raised (6)
  MaxPrompts,    \* prompts of an agent without tools (2: the brief and its rewrite)
  MaxUses,       \* bound on the tools called in one message
  MaxTurns       \* bound on the messages that call tools; the code has none

ASSUME Bounds ==
  /\ Window \in Nat \ {0} /\ MaxAttempts \in Nat \ {0} /\ MaxPrompts \in Nat \ {0}
  /\ MaxUses \in Nat \ {0} /\ MaxTurns \in Nat

VARIABLES
  tools,         \* whether the agent has tools
  pc,            \* idle between its invocations
  messages,      \* agent.messages
  running,       \* the tool calls whose task has not ended
  done,          \* those that have
  attempt,       \* _current_attempt of the retry strategy
  prompts,       \* prompts so far
  turns,         \* messages with tool calls so far
  said,          \* history: every message that was ever appended
  overflows,     \* history: requests that did not fit the context and were reduced
  throttled      \* history: requests throttled since the model last answered

talk == <<messages, said, overflows>>
tasks == <<running, done>>
tries == <<attempt, throttled>>
vars == <<tools, pc, talk, tasks, tries, prompts, turns>>

\* A message is a prompt, an answer in text, a message with tool calls, or the
\* message with their results; long is whether a result can still be truncated.
Message(kind, ids, long) == [kind |-> kind, ids |-> ids, long |-> long]
Prompt == Message("prompt", {}, FALSE)
Text == Message("text", {}, FALSE)
Uses(ids) == Message("uses", ids, FALSE)
Results(ids, long) == Message("results", ids, long)

Calls == 1 .. MaxUses * MaxTurns
Messages == [kind : {"prompt", "text", "uses", "results"}, ids : SUBSET Calls, long : BOOLEAN]

\* A call that is fresh in each message.
Fresh(n) == {(turns * MaxUses) + k : k \in 1 .. n}

Init ==
  /\ tools \in BOOLEAN
  /\ pc = "idle"
  /\ messages = << >> /\ said = << >> /\ overflows = 0
  /\ running = {} /\ done = {}
  /\ attempt = 0 /\ throttled = 0
  /\ prompts = 0 /\ turns = 0
-----------------------------------------------------------------------------
\* reduce_context.
TheFirst(S, from) == {i \in S : i >= from /\ \A j \in S : j >= from => i <= j}
OfKind(ms, kind) == {i \in 1 .. Len(ms) : ms[i].kind = kind}

\* The messages that may come first: a prompt if there is one, or else a message
\* whose tool results follow; from the third on, or from where the window begins.
Begins(ms) == IF Len(ms) <= Window THEN 3 ELSE Len(ms) - Window + 1
Pairs(ms) == {i \in OfKind(ms, "uses") : i + 1 \in OfKind(ms, "results")}
TrimPoints(ms) ==
  LET plain == TheFirst(OfKind(ms, "prompt"), Begins(ms))
  IN IF plain # {} THEN plain ELSE TheFirst(Pairs(ms), Begins(ms))

Trimmed(ms) == {SubSeq(ms, i, Len(ms)) : i \in TrimPoints(ms)}

\* Only the oldest message with results is truncated before messages are dropped.
Truncated(ms, i) == [ms EXCEPT ![i].long = FALSE]
Truncatable(ms) == {i \in TheFirst(OfKind(ms, "results"), 1) : ms[i].long}

BugKeepOnFailure(ms) ==  \* mutant: no error when nothing can be trimmed
  IF Truncatable(ms) # {}
  THEN {Truncated(ms, i) : i \in Truncatable(ms)}
  ELSE IF Trimmed(ms) # {} THEN Trimmed(ms) ELSE {ms}

\* What an overflow leaves of the messages: one possibility, or none.
Reduced(ms) ==
  IF Truncatable(ms) # {}
  THEN {Truncated(ms, i) : i \in Truncatable(ms)}
  ELSE Trimmed(ms)

\* apply_management, when an invocation ends: trimmed when possible.
Managed(ms) == IF Len(ms) <= Window \/ Trimmed(ms) = {} THEN {ms} ELSE Trimmed(ms)
-----------------------------------------------------------------------------
Say(m) == messages' = Append(messages, m) /\ said' = Append(said, m)

\* agent(prompt): run_planner, run_wellness, and each attempt of run_briefing.
Call ==
  /\ pc = "idle" /\ pc' = "ask"
  /\ prompts < (IF tools THEN 1 ELSE MaxPrompts)
  /\ prompts' = prompts + 1
  /\ Say(Prompt)
  /\ UNCHANGED <<tools, overflows, tasks, tries, turns>>

\* The caller has its reply, or lets the exception through: the agent is dropped.
Drop ==
  /\ pc = "idle" /\ prompts > 0 /\ pc' = "dropped"
  /\ UNCHANGED <<tools, talk, tasks, tries, prompts, turns>>

\* The invocation ends, with its reply or by an exception; both ways the window
\* is applied and the retry strategy is reset.
EndWith(to, ms) ==
  /\ pc' = to
  /\ messages' \in Managed(ms)
  /\ attempt' = 0

\* The model answers with text: the reply.
Answer ==
  /\ pc = "ask"
  /\ EndWith("idle", Append(messages, Text))
  /\ said' = Append(said, Text) /\ throttled' = 0
  /\ UNCHANGED <<tools, overflows, tasks, prompts, turns>>

\* It stops at the token limit: whatever tool calls the message holds become text,
\* the message is kept, and MaxTokensReachedException is raised.
HitLimit ==
  /\ pc = "ask"
  /\ EndWith("dropped", Append(messages, Text))
  /\ said' = Append(said, Text) /\ throttled' = 0
  /\ UNCHANGED <<tools, overflows, tasks, prompts, turns>>

\* It calls n tools; a task is started for each.
UseTools(n) ==
  /\ pc = "ask" /\ tools /\ turns < MaxTurns
  /\ pc' = "tools"
  /\ Say(Uses(Fresh(n)))
  /\ running' = Fresh(n) /\ done' = {}
  /\ turns' = turns + 1
  /\ attempt' = 0 /\ throttled' = 0
  /\ UNCHANGED <<tools, overflows, prompts>>

BugFirstEventOnly(t) ==  \* mutant: only the first task gets its event
  /\ pc = "tools" /\ t \in running /\ done = {}
  /\ running' = running \ {t} /\ done' = done \cup {t}
  /\ UNCHANGED <<tools, pc, talk, tries, prompts, turns>>

\* A tool returns, raises or has an invalid name: each way it has a result.
ToolEnds(t) ==
  /\ pc = "tools" /\ t \in running
  /\ running' = running \ {t} /\ done' = done \cup {t}
  /\ UNCHANGED <<tools, pc, talk, tries, prompts, turns>>

BugFirstResult(long) ==  \* mutant: as soon as one task has ended
  /\ pc = "tools" /\ done # {} /\ pc' = "ask"
  /\ Say(Results(done, long))
  /\ running' = {} /\ done' = {}
  /\ UNCHANGED <<tools, overflows, tries, prompts, turns>>

BugWindowEachTurn(long) ==  \* mutant: the window is applied before each request
  /\ pc = "tools" /\ running = {} /\ pc' = "ask"
  /\ messages' \in Managed(Append(messages, Results(done, long)))
  /\ said' = Append(said, Results(done, long))
  /\ done' = {}
  /\ UNCHANGED <<tools, overflows, running, tries, prompts, turns>>

\* All tasks have ended: their results are one message, and the model is asked again.
AskAgain(long) ==
  /\ pc = "tools" /\ running = {} /\ pc' = "ask"
  /\ Say(Results(done, long))
  /\ done' = {}
  /\ UNCHANGED <<tools, overflows, running, tries, prompts, turns>>

BugRetryForever ==  \* mutant: the attempts are counted and never compared
  /\ pc = "ask" /\ throttled' = throttled + 1 /\ attempt' = attempt + 1
  /\ UNCHANGED <<pc, talk, tools, tasks, prompts, turns>>

\* ModelThrottledException: asked again while attempts are left, or raised.
Throttle ==
  /\ pc = "ask" /\ throttled' = throttled + 1
  /\ IF attempt + 1 < MaxAttempts
     THEN /\ attempt' = attempt + 1
          /\ UNCHANGED <<pc, messages>>
     ELSE EndWith("dropped", messages)
  /\ UNCHANGED <<tools, said, overflows, tasks, prompts, turns>>

BugOverflowResets ==  \* mutant: the retries start anew after an overflow
  /\ pc = "ask" /\ Reduced(messages) # {}
  /\ messages' \in Reduced(messages)
  /\ overflows' = overflows + 1 /\ attempt' = 0
  /\ UNCHANGED <<tools, pc, said, throttled, tasks, prompts, turns>>

\* ContextWindowOverflowException: the cycle starts again with less.  The retry
\* strategy counts on.
Overflow ==
  /\ pc = "ask" /\ Reduced(messages) # {}
  /\ messages' \in Reduced(messages)
  /\ overflows' = overflows + 1
  /\ UNCHANGED <<tools, pc, said, tasks, tries, prompts, turns>>

\* An overflow that cannot be reduced, or any other exception of the model call.
Fail ==
  /\ pc = "ask"
  /\ EndWith("dropped", messages)
  /\ UNCHANGED <<tools, said, overflows, throttled, tasks, prompts, turns>>

\* A step of an invocation; the service answers each request in one of these ways.
Step ==
  \/ Answer \/ HitLimit \/ Throttle \/ Overflow \/ Fail
  \/ \E n \in 1 .. MaxUses : UseTools(n)
  \/ \E t \in Calls : ToolEnds(t)
  \/ \E long \in BOOLEAN : AskAgain(long)

Next == Call \/ Drop \/ Step

Spec == Init /\ [][Next]_vars

\* The service answers or the client's read times out, and the tools end.
FairSpec == Spec /\ WF_vars(Step)
-----------------------------------------------------------------------------
TypeOK ==
  /\ tools \in BOOLEAN /\ overflows \in Nat
  /\ pc \in {"idle", "ask", "tools", "dropped"}
  /\ messages \in Seq(Messages) /\ said \in Seq(Messages)
  /\ running \subseteq Calls /\ done \subseteq Calls
  /\ attempt \in 0 .. MaxAttempts - 1 /\ throttled \in 0 .. MaxAttempts
  /\ prompts \in 0 .. MaxPrompts /\ turns \in 0 .. MaxTurns

Paired(ms) ==
  /\ \A i \in OfKind(ms, "uses") : i + 1 \in OfKind(ms, "results") /\ ms[i + 1].ids = ms[i].ids
  /\ \A i \in OfKind(ms, "results") : i - 1 \in OfKind(ms, "uses")

\* Whatever was truncated or trimmed, the model is never sent a tool call without
\* the results of exactly its calls right behind it, nor results without their
\* calls, and the last message is the user's.
SoundRequests ==
  pc = "ask" =>
    /\ Paired(messages)
    /\ messages # << >> /\ messages[Len(messages)].kind \in {"prompt", "results"}

Short(m) == [m EXCEPT !.long = FALSE]

\* A request is the end of what was said, in order and without a gap, and all of
\* it until the context overflows, past the window too.  So an agent without
\* tools is always sent its last prompt, and the planner its client and the
\* advisor's outcomes unless the context overflowed.
EndOfTheTalk ==
  pc = "ask" =>
    LET gone == Len(said) - Len(messages)
    IN /\ gone >= 0
       /\ \A i \in 1 .. Len(messages) : Short(messages[i]) = Short(said[gone + i])
       /\ overflows = 0 /\ (tools \/ Len(said) <= Window) => messages = said
       /\ OfKind(messages, "prompt") = {} => tools /\ overflows > 0

\* Between two answers of the model at most MaxAttempts requests are throttled,
\* overflows between them included.
AttemptsBounded == throttled <= MaxAttempts

\* Every overflow makes the next request smaller: one truncates a message with
\* results, once, or drops messages, so no more than were said can follow.
OverflowsBounded == overflows <= Len(said)

\* The messages that can still pay for an overflow: results by being truncated,
\* any other message by being dropped.
Unspent(ms) == {i \in 1 .. Len(ms) : ms[i].long \/ ms[i].kind # "results"}
Reserve(ms) == Cardinality(Unspent(ms))

\* A bound on the steps an invocation has left, and on those before it calls
\* tools again: each message that does starts with the attempts anew.
PerTurn == MaxAttempts + MaxUses + 3
Place == IF pc = "ask" THEN MaxAttempts + 2 ELSE IF pc = "tools" THEN MaxAttempts + 4 ELSE 0
InTurn == Cardinality(running) + Reserve(messages) + (MaxAttempts - attempt) + Place
Fuel == ((MaxTurns - turns) * PerTurn) + InTurn

\* However throttled requests, overflows and tools alternate, no step of an
\* invocation undoes what another has done towards its end: it takes no more
\* than Fuel steps, so that only a model that never stops calling tools, or a
\* service that never answers, keeps it from ending.
StepsRunOut == [][Step => Fuel' \in Nat /\ Fuel' < Fuel]_vars

\* An invocation ends, as long as the model stops calling tools.
InvocationEnds == pc = "ask" ~> pc \in {"idle", "dropped"}
=============================================================================
