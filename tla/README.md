# FinWise, specified

FinWise is a readiness harness for bank advisors. A run takes a client, has a
planner agent and a wellness agent look at the client's figures in parallel,
lets the wellness verdict adjust the planner's cards, ranks them, and has a
briefing agent write a cited brief for each. Advisors record what they did with
a card, and the next run's planner is given those outcomes. The models are
Claude; everything between the model calls is plain Python, and that Python is
what is specified here.

The program's own code is `agents.py`, `tools.py`, `handler.py`, `main.py` and
`backend.py` (about 650 lines). `deployment_package/` is the third-party code that
`build.sh` installs with pip and ships, half a million lines most of which the
program never reaches. Four parts of it are on the program's own path and
decide whether it is correct, and are modelled as the program uses them: the
agent loop of `strands`, the server and the Memory client of
`bedrock_agentcore`, the thread limiter of `anyio`, and the retries, tokens and
paginators of `botocore`. What a remote service does is marked external.

## The system

| Component | Code | State it keeps | Operations | Interacts with |
|---|---|---|---|---|
| Harness run | `agents.py` | threads of a pool of two, replies, cards, briefs | `run_harness`, `run_planner`, `run_wellness`, `apply_wellness`, `run_briefing` | models; tools; outcome store (read) |
| Agent loop | `strands/agent/agent.py`, `strands/event_loop/` | messages, running tools, attempts | one invocation of an agent | models; tools; its caller in `agents.py` |
| Grounding check | `agents.py:_ground` | none | one pure function | called for each attempt at a brief |
| Outcomes, local file | `tools.py:141-179` | `/tmp/outcomes_<id>.json` | `get_outcomes`, `record_outcome` | threads of the runtime share the file |
| Outcomes, AgentCore Memory | `tools.py:144-172` | events of a session | the same two | Memory service |
| Outcomes, S3 | `handler.py:192-204` | one object per client | the same two | Lambda instances share the object |
| Gateway | `handler.py:207-224` | none | `lambda_handler`, dispatch to five tools | exceptions become error results |
| Calculators | `tools.py:80-124`, `handler.py:147-189` | none | `assess_savings`, `check_qualification` | called by the planner's model |
| Signal engine | `tools.py:43-75`, `handler.py:32-131` | none | `compute_signals`, `get_signals` | read by both agents |
| Client book | `handler.py:134-144` | none | `list_clients` | lists, then loads each record |
| Entrypoint and server | `main.py`, `bedrock_agentcore/runtime/app.py`, `anyio` | requests under way, tokens of the thread pool and their queue | `invoke`: run, or record; `/ping` | calls the harness and the store on threads |
| Dashboard | `backend.py` | none | `book`, `brief`, `outcome` | asks a hosted model in prose |
| Prompts, skills | `*.md`, `gateway_tools.json` | none | none | instructions; nothing enforces them |

What is hard here: the two threads of a run and their exceptions; several
invocations for one client in one process (the runtime runs the synchronous
entrypoint on a thread pool, `bedrock_agentcore/runtime/app.py`) or in several
Lambda instances, none of which lock or condition their writes; a crash between
the truncation of a file and its write; answers that are lost and requests that
are sent again; listings in pages while what they list changes; conversations that
outgrow the context of the model; a pool of threads that is used up; replies of
a model that have any shape; a record that is replaced while a run reads it
several times; and rounding at thresholds.

What makes each component correct: a run returns cards only with a verdict, no
card escapes the verdict, the order is the documented one, each brief's mark is
true of its own card's evidence, and the run ends. A brief passes the check
exactly when everything in it is supported by the check's own rule. An acknowledged outcome reaches the
next planner, none appears twice or out of order. A model is sent a
conversation it can continue, and an invocation ends. No request is forgotten.
A client book has the clients of its advisor and no others. A calculator's answers do not
get worse when the client's position gets better, and what a client is told
changes in one direction only when they are moved between the deployments.

## Modules

`OutcomeJournal` is the abstract outcome store: a journal that grows by one
entry when a call takes effect, and reads that return a fixed view of it (the
whole of it, or a window at one of its ends) as it was at some moment of the
call. A call that fails may have taken effect or not, and stays so.

`LocalOutcomes` is the local file of `tools.py`. One action per file operation:
`FindNoFile`/`FindFile` (`os.path.exists`), `Load`/`LoadRaises` (`json.load`),
`Truncate` (`open(path, "w")`), `Dump` (`json.dump` and close, in one write),
`Return`, and `Crash`. A file is the JSON document it begins with and its length, because
that is what decides whether `json.load` accepts it: a shorter document written
over a longer one leaves a tail behind.

`SharedOutcomes` is the S3 object of `handler.py`. `Get` and `Put` are atomic;
`PutUnanswered` is a put whose answer is lost, applied or not, after which the
same body is sent again or the call fails; `TimeOut` is Lambda's.

`LocalOutcomes` and `SharedOutcomes` choose at the start whether the advisor
records one outcome at a time (`serial`); only then are they claimed to
implement `OutcomeJournal`, and the file only in a process that does not die
meanwhile: a crash in a recording leaves a file that nothing can read.

`MemoryOutcomes` is the Memory branch of `tools.py` with the SDK under it.
`Create` and `CreateUnanswered` are `create_event` and the attempts botocore
makes of it under one client token; `PageAndMore` and `PageAndDone` are the loop
of `list_events`, `ListRaises` the exception that `get_outcomes` turns into an
entry of the list. The service may list from either end (`order`), because the
SDK's docstring and its converter for strands sessions disagree.

`Runtime` extends it with the process that serves the requests: `Accept` takes a
token of the limiter or queues, `Invoke` is a step of `invoke` on its thread,
`Respond` hands the token to the first in the queue and answers, `Crash` ends
everything that is under way. Pings take tokens as invocations do.

`Book` is `list_clients`: `NextPage`, `EmptyPage` and `EndOfPage` are the
paginator, `Skip`, `Load` and `LoadRaises` the body of the loop for one key,
`Change` is anybody else's write. The client of a key and the key of a client
are constants (`ClientOf`, `KeyOf`), because the code takes the one from the
last segment of a key and builds the other, and the two need not be inverse.

`AgentLoop` is one `Agent` of `agents.py`: `Call` and `Drop` are its caller;
`Answer`, `UseTools`, `HitLimit`, `Throttle`, `Overflow` and `Fail` are the ways
a request to the model ends; `ToolEnds` and `AskAgain` are the concurrent
executor and the message with its results. `Reduced` and `Managed` are the two
uses of the sliding window. `said`, `overflows` and `throttled` are history
variables. `Fuel` bounds the steps that an invocation has left. `Harness` takes from it that an invocation returns a reply or raises.

`Grounding` is `_ground`. A brief is a sequence of tokens of which only what
the regular expressions tell apart is kept. The second half of the module is the reference definition,
`WellSupported`, stated token by token and without sentences. It is the rule of
the docstring (`agents.py:109`: "factual sentences must carry a valid citation")
with the exemption the code makes (`agents.py:114`), not the rules the documents
state, which contradict it and one another: they are listed under the
differences below, and that a brief passes says nothing of them. `MCGrounding` grows every brief up to a length (`Writing`), token by
token as the model writes it.

`Harness` is one `run_harness`, with program counters for the main thread
(`pc`) and the two pool threads (`planner`, `wellness`). `AwaitPlanner` and
`AwaitWellness` are the two `result()` calls in their order, `LeavePool` is the
end of the `with` block that waits for both threads before an exception goes
on. `Merge` is `apply_wellness` on every card and the sort; `MergeRaises` is
the same step when a field has a value the code cannot use. `BriefPasses`,
`BriefRetried` and `BriefWarned` are the turns of the loop in `run_briefing`.
A confidence is a whole number of units, of which a hundredth has `Unit`: the
planner's can be finer than the hundredths that `apply_wellness` rounds to.
`Nearest` is that rounding; at a tie it is either neighbour, as the code's binary
fractions decide it one way or the other. It extends `Grounding`: briefs are judged by the real check. `saw` is a history variable, read by properties only.

`Calculators` is both pairs of calculators, in exact integer arithmetic:
dollars for figures, cents for down payments, thousandths for payments.
Exact arithmetic decides `needed` against whole-dollar savings as the code's
floats do for every whole price up to three million. The annuity factor (6.8147 thousandths per
dollar at the stress-test rate) is the constant `PaymentRate`; the runs use 7,
and the theorems hold for every positive value. A float comparison of gds and
tds on the very limit is not modelled.

The calculators of the runtime and of the gateway read `clients/<id>.json` of one
bucket in two formats. `tools.py:45-66` indexes `product_telemetry` as a
dictionary and takes `annual_income`, `liquid_savings` and lists of six months;
`handler.py:35-44` iterates it as a list of dictionaries and takes `grossAnnual`,
`liquidity_savings` or the accounts. A record of either format makes the other
layer raise. So `household` is the client, with the figures both formats have
fields for and those that only the gateway's has, `format` says which layer can
read the record, and `Move` is the upload of the same client in the other
format. Properties speak of the layer that reads the record; the two are
compared across a `Move` only. A record that lacks a field of its own format is
not modelled. `NoPrice` is a call without `target_price`, for which `tools.py` has
a default; a price of 0 is a price to `tools.py` and none to `handler.py`.

`LocalOutcomes`, `SharedOutcomes` and `Runtime` are each composed with
`OutcomeJournal` by a refinement mapping, `Harness` with `Grounding` and
`Runtime` with `MemoryOutcomes` by extension.

Inputs. Replies of models are arbitrary members of `Plans`, `Risks` and
`Briefs`, or an exception. A field is a value, `Missing` or `Null` where the
code treats the three differently. Values of a wrong type other than null (a
confidence that is a string) are left out: they take the same exception path as
null. Null as `urgency_rank` is left out too. A lone card with a null rank is
returned; two cards with one null rank raise in the sort.

## Runs

| Run | Question | Instance | Result |
|---|---|---|---|
| `local` | What survives interleaved calls and crashes? Is the file the journal when outcomes are recorded one at a time? | 3 recorders, 1 planner run, events of 180, 121 and 120 bytes | holds |
| `journal_feedback` | Does each acknowledged outcome reach the next planner run? | 3 recorders, 1 planner run | violated |
| `shared` | No duplicates, no reordering, no loss without overlap in S3? The journal when recorded one at a time? | 3 recorders, 1 reader, 2 attempts per put | holds |
| `memory` | Are the events of Memory the journal, what may a run miss of it, is a token ever lost, can one invocation be kept going by the others, does every request end? | 1 past event, 2 recordings, 1 run, 1 ping, 2 tokens, window of 2, 2 attempts | holds |
| `grounding_check` | Does the check pass exactly the briefs that keep the rule of its docstring? | all briefs of up to 6 tokens, up to 1 item | holds |
| `grounding_hint` | Does the rewrite request name every fault? | as above | violated |
| `harness_run` | Is what the advisor gets right, and does the run end? | 9 plans, 7 wellness replies, 4 briefs, 1 retry, 2 versions of the record | holds |
| `harness_gate` | Does a failed qualification bind the planner? | as above | violated |
| `calculators_check` | Are answers monotone in client and price, months close, and does a move between the deployments change them in one direction only? | 2 or 3 values per figure, 6 prices, 2 formats | holds |
| `calculators_months` | Is the gap closed after `months_to_target`? | as above | violated |
| `book` | What does an answered client book hold? | 2 clients, 2 advisors, 4 keys (a folder marker, two records, a copy), 1 call, 3 changes | holds |
| `agent_loop` | What is the model sent, how often, does each step bring an invocation nearer to its end, and does it end? | window of 5, 3 attempts, 2 prompts, 4 messages of up to 2 tool calls | holds |

The violated ones are the project's findings, each with the sentence of the
repository it holds against the code, in PROJECT.json.

Bounds. Three recorders are the fewest with which a third writes over what two
have left (a lost update needs two, an unreadable file that a third call meets
needs three); the lengths make one document longer than another by an event or
by a byte. Six tokens hold two sentences with a separator, a citation on either
side of the stop, and a suggestion; the citations range from E0 to E2 over at
most one item, so below and above range both occur. The plans have a card that
a veto caps and one that is below the cap, two cards that tie after a veto in
the order opposite to their confidence, missing and null fields, a card without evidence, and two
confidences in thousandths (0.347 and 0.008, `Unit` is 10) that rounding raises
under a veto and under a downgrade; the
briefs include one that is supported only when the wellness reasons are
numbered with the card's own items. Two versions of the record are what a
change needs. The figures of `MCCalculators` lie on either side of each
threshold in the code, and so do its prices, with the price 0 and none.

The window of 2 stands for the 20 events of `tools.py`: with one event before
and two recordings, listings end below, at and above it, with an event created
before, between and after their pages. Two tokens stand for the 40 of anyio:
four requests fill them and the queue, with a ping behind a run. Two attempts
stand for botocore's; one more is one more resend of the same kind. Four keys
are a key without `.json`, two records and a copy of one; three changes delete a
record, bring it back and hand another one over. A window of 5 messages stands
for the default of 40: four messages with tool calls and their results grow past
it, with every choice of where the overflows fall. Three attempts stand for the
default of 6. `MaxPrompts` is the code's: a brief and its rewrite.

Named bounds: `Qualifying`, `LastRecord`, `Attempts` and `Retries` of their
modules, `LastChange` of `Book`, and `MaxTurns` and `MaxUses` of `AgentLoop`,
which the code does not have. `CHECK_DEADLOCK FALSE` stands where a run or a set
of calls comes to its end.

Fairness. `RunEnds` assumes weak fairness of each of the three threads of a run.
Threads are scheduled by the operating system, and a thread that is blocked in a
model call returns or raises, because the SDK's calls have read timeouts. One
assumption is the model's: weak fairness of the planner's steps would be met by
tool calls for ever, and it is the finiteness of `saw` that makes a repeated
tool call a stutter, so `RunEnds` says that a run ends if the planner's model
stops calling tools. `InvocationEnds` says the same of the agent loop, in which
`MaxTurns` is the assumption and weak fairness is of a step of the loop: each
request ends in one of the ways listed, and each tool returns or raises. Nothing
in the code bounds the number of turns.

`EveryRequestEnds` assumes weak fairness of the event loop (`Respond`) and of the
thread of each invocation (`Invoke`): the thread's calls to Memory and to the
models end, because their clients have timeouts and `Attempts`. Which requests
arrive and whether the process dies is not assumed.

## Proofs

All theorems hold for every value of the constants under the named ASSUMEs of
the modules, which say no more than the types of the constants, and that an
event of Memory is not mistaken for the entry `get_outcomes` makes of an error
(`ErrorsAreNoOutcomes`: an event is parsed from the text `record_outcome` stored, and
that is an object with other fields). TLC evaluates them on every run.

Every safety invariant, every action property and every refinement that a
passing run checks is stated by a theorem.

**The refinements.** `FileIsJournal`, `ObjectIsJournal` and `EventsAreJournal` say that
each store implements `OutcomeJournal`: the initial states map to its initial
states, and each step to one of its steps or to none. Where a call stands for the
journal (`Phase`) depends on the store as well as on the call, so a step of one
call might move another in the abstraction. In each proof a lemma shows first
that it does not, and then one case per action names the abstract step.
- The file and the object are claimed for one recording at a time (`serial`), and
  read by overlapping runs. `TurnInv` of `LocalOutcomesProofs` says that only one
  recorder is under way, that its list in hand is the journal, and that the file
  stands but between that call's truncation and its dump; that of
  `SharedOutcomesProofs` adds to the order of the lists that the body about to be
  put, or put again, is the journal and one entry.
- The events are claimed for any overlap. `JournalInv` is `MemoryInv`, `TokensInv`
  and `CallInv` (a recording has no event before it began, a run is given nothing
  before its listing ends, a request is answered after its function has ended).
  `LastPage` is the step with substance: what the last page completes is the
  window, from either end, of the events as they were at the first page or as they
  are now. `CrashImplementsJournal` maps a death of the process to the failure of
  all calls under way at once.

**The stores.** `LocalOutcomesProofs` also has `Typing`, `AcknowledgedOutcomesAreSeen`,
`ReadOutcomesAreSound` and `PoisonIsForever`. `AcknowledgedIsSeen` is not
inductive: it says nothing of the file, nor of what a recorder that is still
under way has in hand. `SeenInv` adds that an undisturbed acknowledged outcome
is in the file's document and in the list of every recorder about to write, and
`HistoryOK` that `before` holds only ended calls. `ReadOutcomesAreSound` needs
`SoundInv`: the file and every list in hand hold distinct events of calls that
reached their write, and never the event of the call that is about to append.

`SharedOutcomesProofs` has `Typing`, `AcknowledgedOutcomesAreSeen` and
`OutcomesInOrder`. The invariants say that an undisturbed acknowledged outcome
is in the object and in every list that a later call is about to put, resent
puts included, and that each list in hand is without duplicates and in order and
does not hold its own call's event before the append.

**Runtime and Memory.** `RuntimeProofs` has `OutcomesLeftOutByWindowOnly`,
`NoTokenIsLost` and `Typing`. What a run is given is not related to the events by
the property alone, so `MemoryInv` says how a listing stands half-way: the pages
of a run are the first items of its listing (`PagesOK`), what it was given is the
same up to `Window` and is full or complete (`GivenOK`), the end of the listing
does not move once the first page was served (`EndIsFixed`), and an outcome
acknowledged before the run began is within it (`SeenOK`). `EventsGrow` is the
fact about client tokens: a create leaves the events as they were or one longer,
without a duplicate. `TokensInv` adds to `TokensInUse` that only finitely many
requests run, which is why the set of requests need not be finite.
`NoInvocationIsKeptGoing` is the part of `EveryRequestEnds` that needs no
fairness: what is left of an invocation shrinks with each of its steps and grows
with nobody's. It needs that a listing under way has room for another event
(`Room`), and that every attempt of a create is counted.

**Client book.** `BookProofs` has `Typing`, `BooksAreBetween`, `BooksAreComplete` and
`ListedOncePerKey`. The inductive invariant accounts for every client between the
two ends of a call: one that the advisor had all along is found, or its key is
still on the page, or behind the last key listed while there is more to list;
what is found was the advisor's when it was loaded. The same accounting for a
key whose client cannot be read gives completeness. For `OncePerKey` it is a
count (`OnceInv`): a client has been found no more often than there are keys of it
that the listing has left behind, and a step of the listing never returns to one,
whatever is deleted and uploaded again meanwhile.

**Agent loop.** `AgentLoopProofs` has `Typing`, `RetriesAreBounded`,
`RequestsAreSound`, `RequestsEndTheTalk`, `OverflowsEnd` and `InvocationsRunOut`. The
invariant says of the messages, wherever the loop is, that each message with tool
calls is followed by its results or is the last one and its calls are running or
done, and that they are a suffix of what was said but for truncated results.
Trimming keeps both because a trim point is a prompt or a message whose results
follow. `OverflowsEnd` is an amortised count: each message said pays for one
overflow, results by being truncated and any other by being dropped, and what has
not paid yet is the `Reserve` of the conversation. The first message is never one
of results, so that to drop any number of messages spends at least one of it.
`InvocationsRunOut` adds the attempts, the running tools and the turns to that
reserve: a turn is charged for its tools, its message and the attempts it starts
anew, and no step restores what another has spent.

**Grounding.** `GroundingProofs` has `GroundedIsSupported`, that `_ground` passes a brief
exactly when `WellSupported` holds, for briefs of any length. The argument finds
the sentence around a token as the run between the nearest separators, by the
least-number principle over the naturals (`WellFoundedInduction`), and shows that
tokens share a sentence in the one sense exactly when they do in the other.
What is proved is the rule of the docstring, as for the run. `PassesTheSupported` and `LateCitationsCreditTheNext` state what the run checks, for
any length and any amount of evidence; the second rests on `EndedSentenceStays`,
that a sentence with a separator behind it is a sentence of every continuation.

**Harness.** In `HarnessProofs` the inductive invariant `Inv` is the type invariant,
`Control` (which replies are there at which program counter, and which threads
have ended) and `Progress` (how many briefs are written when). From it follow
`ThreadsEndFirst`, `FailsClosed` and `VerdictIsBinding`, for planner confidences in any
unit: `NearestIsClose` bounds the rounding by half a hundredth, `CapIsBelow` says
that it does not lift a cap of whole hundredths, and `MergedCards` carries both
through the permutation of the sort. `BriefsTellTheTruth`
adds `Checked`, that each brief's mark is `Passed` of its own card's evidence,
and replaces `Passed` by the reference with `GroundedIsSupported`.
`CardsAreRanked` reads the ranking off the permutation that `Merge` chooses.

**Calculators.** In `CalculatorsProofs`, `Round` is within half of its divisor, monotone in
the dividend and antitone in the divisor; from these `MonthsAreClose` and
`SavingIsSafe`, for which `NeededGrows` takes the down payment across the
thresholds of the price and `AvailableGrows` the savings across the RRSP limit.
`MovingIsOneSided` rests on `LayersDiffer`, the comparison of the two
deployments' formulas for one client at one price.

Only model-checked: the liveness properties `RunEnds`, `EveryRequestEnds` and
`InvocationEnds`, since liveness under fairness is out of the prover's reach. For
the last two the theorems on fuel are the safety half: with them, fairness only
has to keep the steps coming.

## Not modelled

- Signals: the telemetry fold, the mortgage and the renewal months of
  `handler.py` copy fields into a dictionary that only a model reads; no line
  says what they should be, so there is nothing to hold them against.
- Dashboard: `backend.py` keeps no state and asks a hosted model in prose.
  Whether that model calls `record_outcome` never, once or twice is no behaviour
  of the code; each call it makes is a recorder of `SharedOutcomes`.
- What models write, HTTP and Flask, packaging, and the third-party code beyond
  the parts named above: hooks, interrupts, checkpoints, cancellation, sessions
  and structured output of `strands`, the asynchronous and streaming handlers of
  `bedrock_agentcore`, the remaining packages of `deployment_package/`. The
  program uses none of it, or only as a library without state of its own.
- A document of outcomes longer than the buffer of its file (8 KB), which
  `json.dump` hands to the file in several writes: `Dump` is one. Between two of
  them a reader would find a file that does not parse, as it does between
  `Truncate` and `Dump`.
- Cancellation of a request that waits for a thread token
  (`anyio/_backends/_asyncio.py:2199-2211`): the server cancels none.
- The loss of `/tmp` with the machine of a session is not a step of
  `LocalOutcomes`: it is the loss of the whole store.
- A request whose payload is no JSON, or lacks `client_id`, is answered with an
  error before any step that the models have.

Assumed of the services: a put or a create that is not answered is applied
before its call ends or not at all; events are listed in the order in which they
were created, from either end; a page of Memory that comes with a token is not
empty.

What is left to do: a composition of `Harness` with `AgentLoop` in one state
machine, in place of the interface they share now, and a bound on the steps of a
whole run, as `Fuel` is of an invocation.

Differences between documents and code met on the way that no run states:

- `record_outcome` of `handler.py:201` loses an acknowledged outcome when two
  calls overlap, as `journal_feedback` shows for the local file;
  `AcknowledgedIsSeen` is the most that holds of both stores.
- ARCHITECTURE.md:816 drops cards below 0.5; `run_harness` returns them.
- ARCHITECTURE.md:804 and :807 cap a vetoed confidence and multiply a downgraded one
  by 0.7; `apply_wellness` rounds either to hundredths as well, so a veto can raise
  0.347 to 0.35 and a downgrade 0.008 to 0.01. `VerdictBinds` is exact about this:
  neither verdict raises a confidence by more than half a hundredth.
- README.md:33 and ARCHITECTURE.md:39 have up to two retries of a brief;
  `run_briefing` is called with its default of one.
- The prompt (`agents.py:97`) asks that a sentence "must end with a citation", and
  README.md:74 has every fact end with one; to `_ground` a citation counts wherever
  in the sentence it stands, so "[E1] fact." passes.
- ARCHITECTURE.md:552 has "Timing is immediate" as a "logical statement, no citation
  needed", and :553 "Consider opening with..." as a "suggestion, marked as such".
  `_ground` excuses only sentences that begin with "Suggested" or "You could open":
  a brief with either of these, uncited, fails and is sent back.
- ARCHITECTURE.md:517 and :549 take "[E2, E4]" for a citation; the pattern of
  `_ground` matches a single number only. `Grounding` has the token `Group`.
- The brief of ARCHITECTURE.md:517 cites [E5] with four items of evidence, and
  :519 shows it as passed; ARCHITECTURE.md:554 allows 1 to 4 only, as `_ground`
  does. Of the five sentences into which `_ground` splits the brief it would list
  four as uncited, and E5 as a bad reference.
- The runtime (README.md:57) and the gateway, its "alternative deployment"
  (README.md:48, ARCHITECTURE.md:141-142), are both pointed by `SIGNALS_BUCKET` at
  `clients/<id>.json`. No record can be read by both (see `Calculators`); the
  sample file has the runtime's format.
- A `target_price` of 0 is taken as the price by `tools.py:81` and as none by
  `handler.py:149`.
- `handler.py:185` reports gds and tds rounded to three places and compares
  them unrounded: a refused 0.3903 is quoted as 0.39, the limit.
- The docstring of `handler.py` names the default prefix `customers/`, the code
  uses `clients/`.
- The worked example of ARCHITECTURE.md:233 has 90000 as the down payment on
  900000, `assess_savings` gives 65000.
- ARCHITECTURE.md:135 lists `get_outcomes` as a gateway tool, `TOOLS` has
  `list_clients` in its place.
- ARCHITECTURE.md:16 draws "Load client data + prior outcomes" as one step before
  both agents; every tool call of the planner and the wellness thread's
  `get_signals` load the record again, so a verdict may rest on another version
  of it than the cards (`UpdateRecord` of `Harness`).
- `get_outcomes` keeps 20 events of the end at which the service starts. If that
  is the oldest end, as the docstring of `list_events` says, a client with more
  than 20 outcomes has the latest ones left out for good
  (`LeftOutByWindowOnly` is the most that holds of both orders).
- `_invoke_handler` (`bedrock_agentcore/runtime/app.py:815`) says that the loop
  "stays responsive for /ping health checks". `/ping` is a synchronous function,
  so it takes a token of the same pool: behind 40 invocations it waits for one of
  them to end. `EveryRequestEnds` is what is left of the promise.
- A copy of a record in a folder below `clients/` lists its client twice
  (`OncePerKey` counts one per key).
- `reduce_context` says that it truncates tool results "first before falling back
  to message trimming", but it looks at the oldest message with results only:
  once that is truncated, messages are dropped, the planner's prompt with the
  client and the advisor's outcomes first, while later results may still be long.
- A trimmed conversation may begin with the assistant's tool calls, although the
  comment at the trim point says "Starts with a user message (required by most
  model providers)".
- The attempts of the retry strategy are not reset by an overflow, so throttling
  before and after one counts together (`AttemptsBounded`).
