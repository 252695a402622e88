------------------------------- MODULE Harness -------------------------------
(***************************************************************************)
(* One run of run_harness of agents.py for one client.  The planner and     *)
(* the wellness agent run on the two threads of a pool, the main thread    *)
(* waits for them in that order, merges their replies, and then has the    *)
(* cards briefed one after the other.  What the models reply is arbitrary: *)
(* any plan of Plans, any wellness reply of Risks, any brief of Briefs, or  *)
(* no JSON at all.  The client's record may be replaced while a run is     *)
(* under way; record counts its versions.                                  *)
(*                                                                         *)
(* A confidence is any number the planner's model writes, while the code    *)
(* rounds what it computes to hundredths.  It is counted in units of which  *)
(* Unit make a hundredth.  A field the model left out is Missing, one it    *)
(* set to null is Null.                                                    *)
(***************************************************************************)
EXTENDS Grounding

CONSTANTS
  Plans,       \* replies of the planner that hold a JSON object
  Risks,       \* replies of the wellness agent that hold a JSON object
  Briefs,      \* replies of the briefing agent
  Unit,        \* units of confidence in a hundredth
  Tools,       \* the tools of the planner's agent
  Retries,     \* the parameter retries of run_briefing
  Qualifying,  \* versions of the record check_qualification accepts
  LastRecord,  \* bound on the versions of the record
  Missing, Null

Maybe(S) == S \cup {Missing, Null}

Card == [id: Nat, opportunity: STRING, urgency_rank: Int \cup {Missing},
         confidence: Maybe(Nat), evidence: Nat \cup {Missing}]

Verdicts == {"proceed", "downgrade", "veto", "unknown"}

\* reasons counts well-formed reasons; Null stands for a list run_briefing
\* cannot use (null, or a reason without claim, evidence_key or value).
Risk == [verdict: Verdicts, advisor_note: {"text", Missing, Null}, reasons: Maybe(Nat)]

ASSUME MissingAndNull == Missing # Null /\ {Missing, Null} \cap Int = {}
\* cards is a list, Missing, or Null.
ASSUME PlansType == \A p \in Plans : p.cards \in Maybe(Seq(Card))
ASSUME BriefsType == Briefs \subseteq {b \in Seq(Token) : Stripped(b)}
ASSUME RisksType == Risks \subseteq Risk
ASSUME BoundsType == Retries \in Nat /\ LastRecord \in Nat
ASSUME UnitType == Unit \in Nat \ {0}

VARIABLES
  pc,          \* where the main thread is
  planner,     \* the thread of run_planner
  wellness,    \* the thread of get_signals and run_wellness
  record,      \* version of the client's record in the store
  saw,         \* history: <<tool, version>> of the planner's tool calls
  withBriefs,  \* the with_briefs of the payload
  plan, risk,  \* the replies of the two agents
  cards,       \* the merged and sorted cards
  briefs,      \* the briefs of the first cards
  attempt      \* attempt at the next brief, from 1

threads == <<planner, wellness, saw, plan, risk>>
result == <<cards, briefs, attempt>>
vars == <<pc, record, withBriefs, threads, result>>

Ended(thread) == thread \in {"done", "raised"}
-----------------------------------------------------------------------------
Init ==
  /\ pc = "start" /\ planner = "none" /\ wellness = "none"
  /\ record = 0 /\ saw = {}
  /\ withBriefs \in BOOLEAN
  /\ plan = Missing /\ risk = Missing
  /\ cards = << >> /\ briefs = << >> /\ attempt = 1

\* Somebody uploads a new record of the client (external to the harness).
UpdateRecord ==
  /\ record < LastRecord
  /\ record' = record + 1
  /\ UNCHANGED <<pc, withBriefs, threads, result>>

\* Both agents are submitted to the pool.
Start ==
  /\ pc = "start" /\ pc' = "await_planner"
  /\ planner' = "outcomes" /\ wellness' = "signals"
  /\ UNCHANGED <<record, withBriefs, saw, plan, risk, result>>

\* run_planner: get_outcomes returns.
ReadOutcomes ==
  /\ planner = "outcomes" /\ planner' = "agent"
  /\ UNCHANGED <<pc, record, withBriefs, wellness, saw, plan, risk, result>>

\* The planner's model calls a tool, which loads the record as it is now.
PlannerTool(tool) ==
  /\ planner = "agent"
  /\ saw' = saw \cup {<<tool, record>>}
  /\ UNCHANGED <<pc, record, withBriefs, planner, wellness, plan, risk, result>>

PlannerReplies(p) ==
  /\ planner = "agent" /\ planner' = "done"
  /\ plan' = p
  /\ UNCHANGED <<pc, record, withBriefs, wellness, saw, risk, result>>

\* The outcomes cannot be read, the model call fails, or its reply has no JSON.
PlannerRaises ==
  /\ planner \in {"outcomes", "agent"} /\ planner' = "raised"
  /\ UNCHANGED <<pc, record, withBriefs, wellness, saw, plan, risk, result>>

\* The wellness thread calls get_signals itself, outside of any agent.
ReadSignals ==
  /\ wellness = "signals" /\ wellness' = "agent"
  /\ UNCHANGED <<pc, record, withBriefs, planner, saw, plan, risk, result>>

WellnessReplies(r) ==
  /\ wellness = "agent" /\ wellness' = "done"
  /\ risk' = r
  /\ UNCHANGED <<pc, record, withBriefs, planner, saw, plan, result>>

WellnessRaises ==
  /\ wellness \in {"signals", "agent"} /\ wellness' = "raised"
  /\ UNCHANGED <<pc, record, withBriefs, planner, saw, plan, risk, result>>

Goto(from, to) ==
  pc = from /\ pc' = to /\ UNCHANGED <<record, withBriefs, threads, result>>

BugAwaitPlannerOnly ==  \* mutant: polls for the result, never sees the exception
  planner = "done" /\ Goto("await_planner", "await_wellness")

\* planner_f.result(): the exception of the planner leaves the with block.
AwaitPlanner ==
  \/ planner = "done" /\ Goto("await_planner", "await_wellness")
  \/ planner = "raised" /\ Goto("await_planner", "leave_pool")

BugAwaitWellness ==  \* mutant: the exception of the wellness agent is swallowed
  Ended(wellness) /\ Goto("await_wellness", "merge")

\* wellness_f.result().
AwaitWellness ==
  \/ wellness = "done" /\ Goto("await_wellness", "merge")
  \/ wellness = "raised" /\ Goto("await_wellness", "leave_pool")

BugLeavePool == Goto("leave_pool", "failed")  \* mutant: shutdown(wait=False)

\* The end of the with block waits for both threads before it re-raises.
LeavePool == Ended(planner) /\ Ended(wellness) /\ Goto("leave_pool", "failed")
-----------------------------------------------------------------------------
\* round(n / d, 2), n / d in hundredths: the nearest, and either one at a tie,
\* which is decided by the binary fraction that stands for it.
Nearest(n, d) ==
  LET q == n \div d IN {h \in {q, q + 1} : 2 * n - d <= 2 * d * h /\ 2 * d * h <= 2 * n + d}

\* min(c, 0.35)
Capped(c) == IF c < 35 * Unit THEN c ELSE 35 * Unit

Adjust(c, confidence, override) ==
  [id |-> c.id, opportunity |-> c.opportunity, urgency_rank |-> c.urgency_rank,
   confidence |-> confidence, evidence |-> c.evidence, wellness_override |-> override]

BugVetoReplaces(c, r) ==  \* mutant: a veto sets the confidence and caps nothing
  CASE r.verdict = "veto" -> {Adjust(c, 35 * Unit, "veto")}
    [] r.verdict = "downgrade" ->
         {Adjust(c, Unit * h, "downgrade") : h \in Nearest(7 * c.confidence, 10 * Unit)}
    [] OTHER -> {Adjust(c, c.confidence, "none")}

\* apply_wellness: the cards it can make of c.  The recommended action of a
\* vetoed card is replaced too.
ApplyWellness(c, r) ==
  CASE r.verdict = "veto" ->
         {Adjust(c, Unit * h, "veto") : h \in Nearest(Capped(c.confidence), Unit)}
    [] r.verdict = "downgrade" ->
         {Adjust(c, Unit * h, "downgrade") : h \in Nearest(7 * c.confidence, 10 * Unit)}
    [] OTHER -> {Adjust(c, c.confidence, "none")}

PlannedCards == IF plan.cards = Missing THEN << >> ELSE plan.cards

\* Neither apply_wellness nor the sort key raises on any card.
Mergeable ==
  /\ plan.cards # Null
  /\ \A i \in 1 .. Len(PlannedCards) :
       LET c == PlannedCards[i] IN
       /\ c.confidence # Null
       /\ risk.verdict \in {"veto", "downgrade"} => c.confidence # Missing
       /\ risk.verdict = "veto" => risk.advisor_note # Null

Rank(c) == IF c.urgency_rank = Missing THEN 99 ELSE c.urgency_rank
Sureness(c) == IF c.confidence = Missing THEN 0 ELSE c.confidence

BugRankOnly(a, b) == Rank(a) < Rank(b)  \* mutant: confidence left out of the key

\* The sort key: most urgent first, then most confident.
Precedes(a, b) ==
  Rank(a) < Rank(b) \/ (Rank(a) = Rank(b) /\ Sureness(a) > Sureness(b))

\* list.sort is stable: p lists the positions of xs in its order.
StableOrder(xs, p) ==
  \A i, j \in 1 .. Len(xs) : i < j =>
    \/ Precedes(xs[p[i]], xs[p[j]])
    \/ ~Precedes(xs[p[j]], xs[p[i]]) /\ p[i] < p[j]

Merge ==
  /\ pc = "merge" /\ Mergeable
  /\ LET n == Len(PlannedCards)
         outcomes == [i \in 1 .. n |-> ApplyWellness(PlannedCards[i], risk)]
     IN \E applied \in [1 .. n -> UNION {outcomes[i] : i \in 1 .. n}],
           p \in [1 .. n -> 1 .. n] :
          /\ \A i \in 1 .. n : applied[i] \in outcomes[i]
          /\ StableOrder(applied, p)
          /\ cards' = [i \in 1 .. n |-> applied[p[i]]]
  /\ pc' = IF withBriefs /\ cards' # << >> THEN "brief" ELSE "returned"
  /\ UNCHANGED <<record, withBriefs, threads, briefs, attempt>>

MergeRaises == Goto("merge", "failed") /\ ~Mergeable
-----------------------------------------------------------------------------
\* The card run_briefing is called with, and the evidence it numbers: the
\* card's own items and then the reasons of the wellness agent.
Current == cards[Len(briefs) + 1]
Reasons == IF risk.reasons = Missing THEN 0 ELSE risk.reasons
Briefable == Current.evidence # Missing /\ risk.reasons # Null

BugCardEvidence(c) == c.evidence  \* mutant: the reasons are not numbered

Evidence(c) == c.evidence + Reasons

Brief(b, passed) ==
  [text |-> b, passed |-> passed, evidence |-> Evidence(Current), attempts |-> attempt]

Deliver(brief) ==
  /\ briefs' = Append(briefs, brief) /\ attempt' = 1
  /\ pc' = IF Len(briefs) + 1 < Len(cards) THEN "brief" ELSE "returned"
  /\ UNCHANGED <<record, withBriefs, threads, cards>>

BriefPasses(b) ==
  /\ pc = "brief" /\ Briefable
  /\ Passed(b, Evidence(Current))
  /\ Deliver(Brief(b, TRUE))

BugRetryForever(b) ==  \* mutant: the attempts are not counted out
  /\ pc = "brief" /\ Briefable
  /\ ~Passed(b, Evidence(Current)) /\ attempt <= Retries + 1
  /\ attempt' = attempt + 1
  /\ UNCHANGED <<pc, record, withBriefs, threads, cards, briefs>>

BriefRetried(b) ==
  /\ pc = "brief" /\ Briefable
  /\ ~Passed(b, Evidence(Current)) /\ attempt <= Retries
  /\ attempt' = attempt + 1
  /\ UNCHANGED <<pc, record, withBriefs, threads, cards, briefs>>

\* The last attempt is returned with a warning.
BriefWarned(b) ==
  /\ pc = "brief" /\ Briefable
  /\ ~Passed(b, Evidence(Current)) /\ attempt > Retries
  /\ Deliver(Brief(b, FALSE))

\* A card without evidence, reasons run_briefing cannot use, or a model call
\* that fails: the whole run fails, the briefs written so far included.
BriefRaises == Goto("brief", "failed")

MainStep ==
  \/ Start \/ AwaitPlanner \/ AwaitWellness \/ LeavePool \/ Merge \/ MergeRaises
  \/ \E b \in Briefs : BriefPasses(b) \/ BriefRetried(b) \/ BriefWarned(b)
  \/ BriefRaises

PlannerStep ==
  \/ ReadOutcomes \/ \E tool \in Tools : PlannerTool(tool)
  \/ \E p \in Plans : PlannerReplies(p)
  \/ PlannerRaises

WellnessStep ==
  ReadSignals \/ (\E r \in Risks : WellnessReplies(r)) \/ WellnessRaises

Next == MainStep \/ PlannerStep \/ WellnessStep \/ UpdateRecord

Spec == Init /\ [][Next]_vars

\* Every thread runs, every model call returns or raises, and the planner's
\* model stops calling tools.
Fairness == WF_vars(MainStep) /\ WF_vars(PlannerStep) /\ WF_vars(WellnessStep)

FairSpec == Spec /\ Fairness
-----------------------------------------------------------------------------
MergedCard == [id: Nat, opportunity: STRING, urgency_rank: Int \cup {Missing},
               confidence: Maybe(Nat), evidence: Nat \cup {Missing},
               wellness_override: {"veto", "downgrade", "none"}]

WrittenBrief == [text: Briefs, passed: BOOLEAN, evidence: Nat, attempts: 1 .. Retries + 1]

TypeOK ==
  /\ pc \in {"start", "await_planner", "await_wellness", "leave_pool", "merge", "brief",
             "returned", "failed"}
  /\ planner \in {"none", "outcomes", "agent", "done", "raised"}
  /\ wellness \in {"none", "signals", "agent", "done", "raised"}
  /\ record \in 0 .. LastRecord
  /\ saw \subseteq Tools \X (0 .. LastRecord)
  /\ withBriefs \in BOOLEAN
  /\ plan \in Plans \cup {Missing}
  /\ risk \in Risks \cup {Missing}
  /\ cards \in Seq(MergedCard)
  /\ briefs \in Seq(WrittenBrief)
  /\ attempt \in 1 .. Retries + 1

\* No model call outlives its run: when the run has left the pool, on either
\* way, both threads have ended.
NoOrphans ==
  pc \in {"merge", "brief", "returned", "failed"} => Ended(planner) /\ Ended(wellness)

\* The harness fails closed: it merges, briefs and returns cards only when both
\* agents have answered, never on the planner's word alone.
NoCardsWithoutVerdict ==
  pc \in {"merge", "brief", "returned"} => planner = "done" /\ wellness = "done"

Merged == pc \in {"brief", "returned"}

\* c is what the verdict v may leave of the planner's card d.  Rounded to
\* hundredths, a confidence can be half a hundredth above what the verdict makes
\* of it, but never above 0.35 under a veto.
Bound(c, d, v) ==
  /\ c.id = d.id /\ c.evidence = d.evidence
  /\ v = "veto" => c.confidence <= 35 * Unit /\ 2 * c.confidence <= 2 * d.confidence + Unit
  /\ v = "downgrade" => 20 * c.confidence <= 14 * d.confidence + 10 * Unit
  /\ v \notin {"veto", "downgrade"} => c.confidence = d.confidence

\* The verdict of the wellness agent binds every card the advisor gets: each is
\* a card of the planner with the confidence the verdict leaves it, to the
\* rounding.  That may raise it by half a hundredth: 0.347 becomes 0.35 under a
\* veto, and 0.008 becomes 0.01 under a downgrade.
VerdictBinds ==
  Merged =>
    \A i \in 1 .. Len(cards) :
      \E k \in 1 .. Len(PlannedCards) : Bound(cards[i], PlannedCards[k], risk.verdict)

\* xs holds every card of planned once, by urgency and then confidence; cards
\* equal in both keep their order.
RankedFrom(xs, planned) ==
  LET n == Len(planned) IN
  /\ Len(xs) = n
  /\ \E from \in [1 .. n -> 1 .. n] :
       /\ \A i, j \in 1 .. n : from[i] = from[j] => i = j
       /\ \A i \in 1 .. n : xs[i].id = planned[from[i]].id
       /\ \A i, j \in 1 .. n : i < j =>
            \/ Rank(xs[i]) < Rank(xs[j])
            \/ Rank(xs[i]) = Rank(xs[j]) /\ Sureness(xs[i]) > Sureness(xs[j])
            \/ /\ Rank(xs[i]) = Rank(xs[j]) /\ Sureness(xs[i]) = Sureness(xs[j])
               /\ from[i] < from[j]

\* The advisor gets every card of the planner once, in the order of urgency and
\* of the confidence that the verdict left; cards equal in both keep the
\* planner's order even where the planner was surer of the later one.
RankedAfterVerdict == Merged => RankedFrom(cards, PlannedCards)

\* Each brief belongs to the card at its place and is honest about its
\* grounding: it is marked as passed if and only if the items of that card and
\* the wellness reasons support it by the rule of _ground's docstring, and one
\* that is not was tried Retries + 1 times.
BriefsAreHonest ==
  Merged =>
    /\ Len(briefs) <= Len(cards)
    /\ pc = "returned" /\ withBriefs => Len(briefs) = Len(cards)
    /\ \A i \in 1 .. Len(briefs) :
         /\ briefs[i].passed
              <=> WellSupported(briefs[i].text, cards[i].evidence + Reasons)
         /\ briefs[i].passed \/ briefs[i].attempts = Retries + 1

\* Every run ends: with a result, or with an exception after both threads ended.
RunEnds == pc = "await_planner" ~> pc \in {"returned", "failed"}

\* "Planner CANNOT emit home_purchase card with confidence > 0.7 if
\* qualifies = false" (ARCHITECTURE.md:656).
QualificationBinds ==
  pc = "returned" =>
    \A i \in 1 .. Len(cards) :
      cards[i].opportunity = "home_purchase" /\ Sureness(cards[i]) > 70 * Unit
      => \A v \in 0 .. LastRecord : <<"check_qualification", v>> \in saw => v \in Qualifying
=============================================================================
