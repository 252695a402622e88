------------------------------- MODULE Runtime -------------------------------
(***************************************************************************)
(* The process of the runtime (BedrockAgentCoreApp) with the outcomes in   *)
(* AgentCore Memory.  An event loop accepts the requests; invoke is not a  *)
(* coroutine, so each invocation runs on a thread, and so does each /ping, *)
(* which starlette hands to the same pool.  A thread needs one of Tokens   *)
(* tokens; requests that find none wait in a queue.  The process may die   *)
(* with everything in it and is started again.                              *)
(***************************************************************************)
EXTENDS MemoryOutcomes

CONSTANTS
  Pings,       \* GET /ping
  Tokens       \* tokens of the thread limiter

ASSUME PingsType == Pings \cap Calls = {}
ASSUME TokensType == Tokens \in Nat \ {0}

Requests == Calls \cup Pings

VARIABLES
  stage,       \* where the event loop has each request
  queue        \* the requests that wait for a token

vars == <<memory, stage, queue>>

Running == {r \in Requests : stage[r] = "running"}

Init ==
  /\ MemoryInit
  /\ stage = [r \in Requests |-> "none"]
  /\ queue = << >>

\* acquire: a free token, unless others wait for one already.
Accept(r) ==
  /\ stage[r] = "none"
  /\ IF queue = << >> /\ Cardinality(Running) < Tokens
     THEN /\ stage' = [stage EXCEPT ![r] = "running"]
          /\ UNCHANGED queue
     ELSE /\ stage' = [stage EXCEPT ![r] = "waiting"]
          /\ queue' = Append(queue, r)
  /\ UNCHANGED memory

\* The thread of an invocation runs invoke, step by step.
Invoke(c) ==
  /\ \/ stage[c] = "running" /\ Begin(c)
     \/ c \in Recorders /\ Record(c)
     \/ c \in Planners /\ Run(c)
  /\ UNCHANGED <<stage, queue>>

\* The function of the request has returned or raised; that of a ping only
\* reads the status.
Finished(r) == r \in Pings \/ (r \in Calls /\ pc[r] \in {"ok", "failed"})

BugReleaseOnSuccess(r) ==  \* mutant: a failing invocation keeps its token
  /\ stage[r] = "running" /\ Finished(r)
  /\ r \in Calls => pc[r] = "ok"
  /\ IF queue = << >>
     THEN /\ stage' = [stage EXCEPT ![r] = "answered"]
          /\ UNCHANGED queue
     ELSE /\ stage' = [stage EXCEPT ![r] = "answered", ![Head(queue)] = "running"]
          /\ queue' = Tail(queue)
  /\ UNCHANGED memory

BugNoHandOver(r) ==  \* mutant: the released token is handed to nobody
  /\ stage[r] = "running" /\ Finished(r)
  /\ stage' = [stage EXCEPT ![r] = "answered"]
  /\ UNCHANGED <<queue, memory>>

\* The loop hears of it: the token goes to the first in the queue, and the
\* request is answered, with 500 when the function raised.
Respond(r) ==
  /\ stage[r] = "running" /\ Finished(r)
  /\ IF queue = << >>
     THEN /\ stage' = [stage EXCEPT ![r] = "answered"]
          /\ UNCHANGED queue
     ELSE /\ stage' = [stage EXCEPT ![r] = "answered", ![Head(queue)] = "running"]
          /\ queue' = Tail(queue)
  /\ UNCHANGED memory

InFlight(r) == stage[r] \in {"waiting", "running"}

\* The process dies; the requests in it are cut off.
Crash ==
  /\ \E r \in Requests : InFlight(r)
  /\ Kill
  /\ stage' = [r \in Requests |-> IF InFlight(r) THEN "cut" ELSE stage[r]]
  /\ queue' = << >>

Next ==
  \/ \E r \in Requests : Accept(r) \/ Respond(r)
  \/ \E c \in Calls : Invoke(c)
  \/ Crash

\* The loop and the threads run, and every call of a service and every agent
\* ends; which requests arrive, and when the process dies, is open.
Fairness ==
  /\ WF_vars(\E r \in Requests : Respond(r))
  /\ \A c \in Calls : WF_vars(Invoke(c))

Spec == Init /\ [][Next]_vars
FairSpec == Spec /\ Fairness
-----------------------------------------------------------------------------
TypeOK ==
  /\ MemoryTypeOK
  /\ stage \in [Requests -> {"none", "waiting", "running", "answered", "cut"}]
  /\ queue \in Seq(Requests)

\* No token is lost or given out twice: at most Tokens requests run, the queue
\* holds each waiting request once, and nobody waits while a token is free.
TokensInUse ==
  /\ Cardinality(Running) <= Tokens
  /\ IsInjective(queue)
  /\ {r \in Requests : stage[r] = "waiting"} = {queue[i] : i \in DOMAIN queue}
  /\ queue # << >> => Cardinality(Running) = Tokens

Promise == INSTANCE OutcomeJournal WITH
  View    <- Listed,
  side    <- order,
  journal <- events,
  phase   <- [c \in Calls |-> IF stage[c] = "answered" /\ Phase(c) = "effective"
                              THEN "done" ELSE Phase(c)],
  seen    <- [c \in Calls |-> Seen(c)]

\* However requests overlap, are resent, fail or die with the process, the
\* events are the journal that OutcomeJournal specifies, of which a run is given
\* one window as it was at some moment of its listing, or told that it could
\* not be read.
ImplementsJournal == Promise!Spec

\* A bound on the steps that are left to an invocation.
Fuel(c) ==
  IF pc[c] = "idle" THEN Attempts + Window + 2
  ELSE IF pc[c] = "create" THEN Attempts - sent[c]
  ELSE IF pc[c] = "list" THEN (Window - Len(pages[c])) + 1
  ELSE IF pc[c] = "agents" THEN 1 ELSE 0

\* No invocation can be kept going by the others: each of its steps brings it
\* nearer to its end, a create that is sent again and a page of a listing too,
\* however many events are created while it lists, and no step of another call,
\* of the loop or of a crash takes it further away.
InvocationsRunOut ==
  [][\A c \in Calls :
       /\ Fuel(c)' \in Nat /\ Fuel(c)' <= Fuel(c)
       /\ Invoke(c) => Fuel(c)' < Fuel(c)]_vars

\* Every request that is accepted, a ping behind any number of runs too, is
\* answered, unless the process dies first: once no more arrive, none is left.
EveryRequestEnds ==
  (\E r \in Requests : InFlight(r)) ~> (\A r \in Requests : ~InFlight(r))
=============================================================================
