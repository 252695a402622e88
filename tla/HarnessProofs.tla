---------------------------- MODULE HarnessProofs ----------------------------
(***************************************************************************)
(* Proofs about Harness for any plans, wellness replies and briefs, any    *)
(* number of retries and any history of the client's record.               *)
(***************************************************************************)
EXTENDS Harness, GroundingProofs

\* Where the main thread is tells what the two threads have done, and a thread
\* that is done has left its reply.
Control ==
  /\ pc = "await_wellness" => planner = "done"
  /\ pc \in {"merge", "brief", "returned"} => planner = "done" /\ wellness = "done"
  /\ pc = "failed" => Ended(planner) /\ Ended(wellness)
  /\ pc = "start" => planner = "none" /\ wellness = "none"
  /\ planner = "done" => plan \in Plans
  /\ wellness = "done" => risk \in Risks

\* There is a card to brief whenever a brief is being written.
Progress ==
  /\ ~Merged /\ pc # "failed" => briefs = << >>
  /\ pc = "brief" => Len(briefs) < Len(cards)

Inv == TypeOK /\ Control /\ Progress

\* A nearest hundredth is within half a hundredth.
LEMMA NearestIsClose ==
  ASSUME NEW n \in Nat, NEW d \in Nat \ {0}, NEW h \in Nearest(n, d)
  PROVE  h \in Nat /\ 2 * (d * h) <= 2 * n + d
<1> DEFINE q == n \div d
<1>1. q \in Nat
  BY SMTT(30)
<1> HIDE DEF q
<1>2. (h = q \/ h = q + 1) /\ 2 * d * h <= 2 * n + d
  BY DEF Nearest, q
<1>3. h \in Nat
  BY <1>1, <1>2
<1>4. 2 * d * h = 2 * (d * h)
  BY <1>3
<1> QED
  BY <1>2, <1>3, <1>4

LEMMA CapIsBelow ==
  ASSUME NEW c \in Nat
  PROVE  Capped(c) \in Nat /\ Capped(c) <= c /\ Capped(c) <= 35 * Unit
BY UnitType DEF Capped

\* What apply_wellness makes of a card it does not raise on.
LEMMA AppliedCard ==
  ASSUME NEW c \in Card, NEW r \in Risk, c.confidence # Null,
         r.verdict \in {"veto", "downgrade"} => c.confidence # Missing,
         NEW a \in ApplyWellness(c, r)
  PROVE  a \in MergedCard /\ a.confidence # Null /\ Bound(a, c, r.verdict)
<1> USE MissingAndNull
<1>0. c.confidence = Missing \/ c.confidence \in Nat
  BY DEF Card, Maybe
<1>1. CASE r.verdict = "veto"
  <2>1. c.confidence \in Nat
    BY <1>0, <1>1
  <2>2. PICK h \in Nearest(Capped(c.confidence), Unit) : a = Adjust(c, Unit * h, "veto")
    BY <1>1 DEF ApplyWellness
  <2>3. h \in Nat /\ 2 * (Unit * h) <= 2 * Capped(c.confidence) + Unit
    BY <2>1, CapIsBelow, UnitType, NearestIsClose
  <2>4. PICK confidence \in Nat : confidence = Unit * h
    BY <2>3, UnitType
  <2>5. 2 * confidence <= 2 * c.confidence + Unit
    BY <2>1, <2>3, <2>4, CapIsBelow, UnitType
  <2>6. confidence <= 35 * Unit
    <3>1. 2 * (Unit * h) <= 71 * Unit
      BY <2>1, <2>3, <2>4, CapIsBelow, UnitType
    <3>2. h <= 35
      <4> SUFFICES ASSUME h >= 36 PROVE FALSE
        BY <2>3
      <4>1. Unit * h >= Unit * 36
        BY <2>3, UnitType
      <4> QED
        BY <3>1, <4>1, <2>4, UnitType
    <3> QED
      BY <2>3, <2>4, <3>2, UnitType
  <2>7. a = Adjust(c, confidence, "veto")
    BY <2>2, <2>4
  <2>8. a \in MergedCard /\ a.id = c.id /\ a.evidence = c.evidence /\ a.confidence = confidence
    BY <2>7 DEF Adjust, Card, MergedCard, Maybe
  <2> QED
    BY <1>1, <2>5, <2>6, <2>8 DEF Bound
<1>2. CASE r.verdict = "downgrade"
  <2>1. c.confidence \in Nat
    BY <1>0, <1>2
  <2>2. PICK h \in Nearest(7 * c.confidence, 10 * Unit) : a = Adjust(c, Unit * h, "downgrade")
    BY <1>2 DEF ApplyWellness
  <2>3. h \in Nat /\ 2 * (10 * Unit * h) <= 2 * (7 * c.confidence) + 10 * Unit
    BY <2>1, UnitType, NearestIsClose
  <2>4. PICK confidence \in Nat : confidence = Unit * h
    BY <2>3, UnitType
  <2>5. 10 * Unit * h = 10 * confidence
    BY <2>3, <2>4, UnitType
  <2>6. 20 * confidence <= 14 * c.confidence + 10 * Unit
    BY <2>1, <2>3, <2>4, <2>5, UnitType
  <2>7. a = Adjust(c, confidence, "downgrade")
    BY <2>2, <2>4
  <2>8. a \in MergedCard /\ a.id = c.id /\ a.evidence = c.evidence /\ a.confidence = confidence
    BY <2>7 DEF Adjust, Card, MergedCard, Maybe
  <2> QED
    BY <1>2, <2>6, <2>8 DEF Bound
<1>3. CASE r.verdict \notin {"veto", "downgrade"}
  <2>1. a = Adjust(c, c.confidence, "none")
    BY <1>3 DEF ApplyWellness
  <2> QED
    BY <1>0, <1>3, <2>1 DEF Adjust, Card, MergedCard, Maybe, Bound
<1> QED
  BY <1>1, <1>2, <1>3

\* What Merge makes of the planner's cards.
LEMMA MergedCards ==
  ASSUME Inv, Merge
  PROVE  /\ cards' \in Seq(MergedCard)
         /\ Len(cards') = Len(PlannedCards)
         /\ \A i \in 1 .. Len(cards') :
              \E k \in 1 .. Len(PlannedCards) :
                /\ cards'[i] \in MergedCard /\ cards'[i].confidence # Null
                /\ Bound(cards'[i], PlannedCards[k], risk.verdict)
<1>1. plan \in Plans /\ risk \in Risk
  BY RisksType DEF Inv, Control, Merge
<1>2. PlannedCards \in Seq(Card)
  BY <1>1, PlansType DEF Merge, Mergeable, PlannedCards, Maybe
<1> DEFINE n == Len(PlannedCards)
           outcomes == [i \in 1 .. n |-> ApplyWellness(PlannedCards[i], risk)]
<1>3. n \in Nat /\ \A k \in 1 .. n : PlannedCards[k] \in Card
  BY <1>2
<1>4. PICK applied \in [1 .. n -> UNION {outcomes[i] : i \in 1 .. n}], p \in [1 .. n -> 1 .. n] :
        /\ \A i \in 1 .. n : applied[i] \in outcomes[i]
        /\ cards' = [i \in 1 .. n |-> applied[p[i]]]
  BY DEF Merge
<1>5. \A k \in 1 .. n : /\ PlannedCards[k].confidence # Null
                        /\ risk.verdict \in {"veto", "downgrade"}
                             => PlannedCards[k].confidence # Missing
  BY DEF Merge, Mergeable
<1>6. \A k \in 1 .. n : /\ applied[k] \in MergedCard /\ applied[k].confidence # Null
                        /\ Bound(applied[k], PlannedCards[k], risk.verdict)
  <2> SUFFICES ASSUME NEW k \in 1 .. n
               PROVE  /\ applied[k] \in MergedCard /\ applied[k].confidence # Null
                      /\ Bound(applied[k], PlannedCards[k], risk.verdict)
    OBVIOUS
  <2>1. applied[k] \in ApplyWellness(PlannedCards[k], risk)
    BY <1>4
  <2> QED
    BY <1>1, <1>3, <1>5, <2>1, AppliedCard
<1>7. \A i \in 1 .. n : p[i] \in 1 .. n /\ cards'[i] = applied[p[i]]
  BY <1>4
<1>8. cards' \in [1 .. n -> MergedCard]
  BY <1>4, <1>6, <1>7
<1>9. cards' \in Seq(MergedCard) /\ Len(cards') = n
  BY <1>3, <1>8
<1> QED
  BY <1>6, <1>7, <1>9

\* The brief of the current card, and the place it takes.
LEMMA CurrentBrief ==
  ASSUME Inv, pc = "brief", Briefable, NEW b \in Briefs, NEW passed \in BOOLEAN
  PROVE  Brief(b, passed) \in WrittenBrief
<1>1. Current \in MergedCard
  BY DEF Inv, TypeOK, Progress, Current
<1>2. Current.evidence \in Nat
  BY <1>1 DEF MergedCard, Briefable
<1>3. Reasons \in Nat
  BY RisksType DEF Inv, Control, Briefable, Reasons, Risk, Maybe
<1> QED
  BY <1>2, <1>3 DEF Inv, TypeOK, Brief, Evidence, WrittenBrief
-----------------------------------------------------------------------------
LEMMA InitInv == Init => Inv
BY BoundsType DEF Init, Inv, TypeOK, Control, Progress, Merged, MergedCard, WrittenBrief

\* Steps of the two threads and of the record's owner.
LEMMA ThreadSteps ==
  ASSUME Inv, PlannerStep \/ WellnessStep \/ UpdateRecord PROVE Inv'
<1> USE BoundsType DEF Inv, TypeOK, Control, Progress, Merged, Ended, threads, result
<1>1. CASE ReadOutcomes
  BY <1>1 DEF ReadOutcomes
<1>2. ASSUME NEW tool \in Tools, PlannerTool(tool) PROVE Inv'
  BY <1>2 DEF PlannerTool
<1>3. ASSUME NEW p \in Plans, PlannerReplies(p) PROVE Inv'
  BY <1>3 DEF PlannerReplies
<1>4. CASE PlannerRaises
  BY <1>4 DEF PlannerRaises
<1>5. CASE ReadSignals
  BY <1>5 DEF ReadSignals
<1>6. ASSUME NEW r \in Risks, WellnessReplies(r) PROVE Inv'
  BY <1>6 DEF WellnessReplies
<1>7. CASE WellnessRaises
  BY <1>7 DEF WellnessRaises
<1>8. CASE UpdateRecord
  BY <1>8 DEF UpdateRecord
<1> QED
  BY <1>1, <1>2, <1>3, <1>4, <1>5, <1>6, <1>7, <1>8 DEF PlannerStep, WellnessStep

\* Steps of the main thread up to and out of the pool.
LEMMA PoolSteps ==
  ASSUME Inv, Start \/ AwaitPlanner \/ AwaitWellness \/ LeavePool PROVE Inv'
BY DEF Inv, TypeOK, Control, Progress, Merged, Ended, threads, result,
       Start, AwaitPlanner, AwaitWellness, LeavePool, Goto

LEMMA MergeStep == ASSUME Inv, Merge \/ MergeRaises PROVE Inv'
<1> USE DEF Inv, TypeOK, Control, Progress, Merged, threads, Ended
<1>1. CASE Merge
  <2>1. cards' \in Seq(MergedCard)
    BY <1>1, MergedCards
  <2>2. UNCHANGED <<record, withBriefs, threads, briefs, attempt>>
        /\ pc = "merge" /\ pc' = IF withBriefs /\ cards' # << >> THEN "brief" ELSE "returned"
    BY <1>1 DEF Merge
  <2>3. pc' = "brief" => Len(briefs') < Len(cards')
    BY <2>1, <2>2
  <2> QED
    BY <2>1, <2>2, <2>3
<1>2. CASE MergeRaises
  BY <1>2 DEF MergeRaises, Goto, result
<1> QED
  BY <1>1, <1>2

LEMMA DeliverStep ==
  ASSUME Inv, pc = "brief", NEW brief \in WrittenBrief, Deliver(brief) PROVE Inv'
<1> USE DEF Inv, TypeOK, Control, Progress, Merged, threads
<1>1. /\ briefs' \in Seq(WrittenBrief) /\ Len(briefs') = Len(briefs) + 1
      /\ attempt' = 1 /\ UNCHANGED <<record, withBriefs, threads, cards>>
      /\ pc' = IF Len(briefs) + 1 < Len(cards) THEN "brief" ELSE "returned"
  BY DEF Deliver
<1>2. 1 \in 1 .. Retries + 1
  BY BoundsType
<1> QED
  BY <1>1, <1>2

LEMMA BriefSteps ==
  ASSUME Inv, \/ \E b \in Briefs : BriefPasses(b) \/ BriefRetried(b) \/ BriefWarned(b)
              \/ BriefRaises
  PROVE  Inv'
<1>1. ASSUME NEW b \in Briefs, BriefPasses(b) PROVE Inv'
  BY <1>1, CurrentBrief, DeliverStep DEF BriefPasses
<1>2. ASSUME NEW b \in Briefs, BriefWarned(b) PROVE Inv'
  BY <1>2, CurrentBrief, DeliverStep DEF BriefWarned
<1>3. ASSUME NEW b \in Briefs, BriefRetried(b) PROVE Inv'
  <2>1. attempt' \in 1 .. Retries + 1
    BY <1>3, BoundsType DEF BriefRetried, Inv, TypeOK
  <2> QED
    BY <1>3, <2>1 DEF BriefRetried, Inv, TypeOK, Control, Progress, Merged, threads
<1>4. CASE BriefRaises
  BY <1>4 DEF BriefRaises, Goto, Inv, TypeOK, Control, Progress, Merged, Ended, threads, result
<1> QED
  BY <1>1, <1>2, <1>3, <1>4

LEMMA InvStep == Inv /\ [Next]_vars => Inv'
<1>1. ASSUME Inv, UNCHANGED vars PROVE Inv'
  BY <1>1 DEF vars, threads, result, Inv, TypeOK, Control, Progress, Merged, Ended
<1> QED
  BY <1>1, ThreadSteps, PoolSteps, MergeStep, BriefSteps DEF Next, MainStep

\* The inductive invariant holds of every run.
THEOREM Invariant == Spec => []Inv
BY InitInv, InvStep, PTL DEF Spec

\* The types of the harness.
THEOREM Typing == Spec => []TypeOK
<1>1. Inv => TypeOK
  BY DEF Inv
<1> QED
  BY <1>1, Invariant, PTL

\* No thread of a run is still under way when the run has left its pool.
THEOREM ThreadsEndFirst == Spec => []NoOrphans
<1>1. Inv => NoOrphans
  BY DEF Inv, Control, NoOrphans, Ended
<1> QED
  BY <1>1, Invariant, PTL

\* Cards are merged, briefed and returned only when both agents answered.
THEOREM FailsClosed == Spec => []NoCardsWithoutVerdict
<1>1. Inv => NoCardsWithoutVerdict
  BY DEF Inv, Control, NoCardsWithoutVerdict
<1> QED
  BY <1>1, Invariant, PTL

-----------------------------------------------------------------------------
\* Once both agents are done, their replies and the merged cards are fixed.
LEMMA RepliesFixed ==
  ASSUME Inv, [Next]_vars, Merged PROVE UNCHANGED <<plan, risk, cards>>
BY DEF Inv, Control, Merged, Next, MainStep, PlannerStep, WellnessStep, vars, threads, result,
       Start, AwaitPlanner, AwaitWellness, LeavePool, Merge, MergeRaises, BriefPasses,
       BriefRetried, BriefWarned, BriefRaises, Goto, Deliver, ReadOutcomes, PlannerTool,
       PlannerReplies, PlannerRaises, ReadSignals, WellnessReplies, WellnessRaises,
       UpdateRecord

\* Only Merge leads to the cards.
LEMMA MergedByMerge ==
  ASSUME [Next]_vars, ~Merged, ~Merge PROVE ~Merged'
BY DEF Merged, Next, MainStep, PlannerStep, WellnessStep, vars, Start, AwaitPlanner,
       AwaitWellness, LeavePool, MergeRaises, BriefPasses, BriefRetried, BriefWarned,
       BriefRaises, Goto, ReadOutcomes, PlannerTool, PlannerReplies, PlannerRaises,
       ReadSignals, WellnessReplies, WellnessRaises, UpdateRecord

\* The verdict binds every card: it is a card of the planner with the confidence
\* that the verdict leaves it, to the rounding, and never above 0.35 under a
\* veto.
THEOREM VerdictIsBinding == Spec => []VerdictBinds
<1>1. Init => VerdictBinds
  BY DEF Init, VerdictBinds, Merged
<1>2. Inv /\ VerdictBinds /\ [Next]_vars => VerdictBinds'
  <2> SUFFICES ASSUME Inv, VerdictBinds, [Next]_vars, Merged' PROVE VerdictBinds'
    BY DEF VerdictBinds
  <2>1. CASE Merged
    <3>1. cards' = cards /\ risk' = risk /\ plan' = plan
      BY <2>1, RepliesFixed
    <3>2. PlannedCards' = PlannedCards
      BY <3>1 DEF PlannedCards
    <3> QED
      BY <2>1, <3>1, <3>2 DEF VerdictBinds
  <2>2. CASE Merge
    <3>1. PlannedCards' = PlannedCards /\ risk' = risk
      BY <2>2 DEF Merge, threads, PlannedCards
    <3> QED
      BY <2>2, <3>1, MergedCards DEF VerdictBinds
  <2>3. CASE ~Merged /\ ~Merge
    BY <2>3, MergedByMerge
  <2> QED
    BY <2>1, <2>2, <2>3
<1> QED
  BY <1>1, <1>2, Invariant, PTL DEF Spec

-----------------------------------------------------------------------------
\* Every brief matches its card, and its verdict is what _ground found.
Checked == Merged =>
  /\ Len(briefs) <= Len(cards)
  /\ pc = "returned" /\ withBriefs => Len(briefs) = Len(cards)
  /\ \A i \in 1 .. Len(briefs) :
       /\ briefs[i].evidence = cards[i].evidence + Reasons
       /\ briefs[i].passed <=> Passed(briefs[i].text, briefs[i].evidence)
       /\ briefs[i].passed \/ briefs[i].attempts = Retries + 1

LEMMA CheckedDelivery ==
  ASSUME Inv, Checked, pc = "brief", Briefable, NEW b \in Briefs, NEW passed \in BOOLEAN,
         passed <=> Passed(b, Evidence(Current)), passed \/ attempt = Retries + 1,
         Deliver(Brief(b, passed))
  PROVE  Checked'
<1> DEFINE new == Brief(b, passed)
<1>1. /\ briefs \in Seq(WrittenBrief) /\ new \in WrittenBrief /\ briefs' = Append(briefs, new)
      /\ cards' = cards /\ risk' = risk /\ withBriefs' = withBriefs
      /\ pc' = IF Len(briefs) + 1 < Len(cards) THEN "brief" ELSE "returned"
      /\ Len(briefs) < Len(cards) /\ cards \in Seq(MergedCard)
  BY CurrentBrief DEF Deliver, Inv, TypeOK, Progress, threads
<1>2. Reasons' = Reasons
  BY <1>1 DEF Reasons
<1>3. /\ new.evidence = cards[Len(briefs) + 1].evidence + Reasons
      /\ new.passed = passed /\ new.text = b /\ new.attempts = attempt
      /\ new.evidence = Evidence(Current)
  BY DEF Brief, Evidence, Current
<1>4. \A i \in 1 .. Len(briefs') : \/ i \in 1 .. Len(briefs) /\ briefs'[i] = briefs[i]
                                   \/ i = Len(briefs) + 1 /\ briefs'[i] = new
  BY <1>1
<1>5. Len(briefs') = Len(briefs) + 1 /\ Len(briefs') <= Len(cards')
  BY <1>1
<1>6. pc' = "returned" => Len(briefs') = Len(cards')
  BY <1>1
<1>7. ASSUME NEW i \in 1 .. Len(briefs')
      PROVE  /\ briefs'[i].evidence = cards'[i].evidence + Reasons'
             /\ briefs'[i].passed <=> Passed(briefs'[i].text, briefs'[i].evidence)
             /\ briefs'[i].passed \/ briefs'[i].attempts = Retries + 1
  <2>1. CASE i \in 1 .. Len(briefs) /\ briefs'[i] = briefs[i]
    BY <1>1, <1>2, <2>1 DEF Checked, Merged
  <2>2. CASE i = Len(briefs) + 1 /\ briefs'[i] = new
    BY <1>1, <1>2, <1>3, <2>2
  <2> QED
    BY <1>4, <2>1, <2>2
<1> QED
  BY <1>5, <1>6, <1>7 DEF Checked

LEMMA CheckedStep == Inv /\ Checked /\ [Next]_vars => Checked'
<1> SUFFICES ASSUME Inv, Checked, [Next]_vars, Merged' PROVE Checked'
  BY DEF Checked
<1>1. ASSUME NEW b \in Briefs, BriefPasses(b) PROVE Checked'
  BY <1>1, CheckedDelivery DEF BriefPasses
<1>2. ASSUME NEW b \in Briefs, BriefWarned(b) PROVE Checked'
  <2>1. attempt = Retries + 1
    BY <1>2, BoundsType DEF BriefWarned, Inv, TypeOK
  <2> QED
    BY <1>2, <2>1, CheckedDelivery DEF BriefWarned
<1>3. CASE Merge
  <2>1. briefs' = << >> /\ cards' \in Seq(MergedCard) /\ withBriefs' = withBriefs
        /\ pc' = IF withBriefs /\ cards' # << >> THEN "brief" ELSE "returned"
    BY <1>3, MergedCards DEF Merge, Inv, Progress, Merged
  <2> QED
    BY <2>1 DEF Checked
<1>4. CASE UNCHANGED <<pc, withBriefs, risk, cards, briefs>>
  BY <1>4 DEF Checked, Merged, Reasons
<1>5. ASSUME ~Merge, ~\E b \in Briefs : BriefPasses(b) \/ BriefWarned(b)
      PROVE  UNCHANGED <<pc, withBriefs, risk, cards, briefs>>
  BY <1>5 DEF Merged, Next, MainStep, PlannerStep, WellnessStep, vars, threads, result, Start,
       AwaitPlanner, AwaitWellness, LeavePool, MergeRaises, BriefRetried, BriefRaises, Goto,
       ReadOutcomes, PlannerTool, PlannerReplies, PlannerRaises, ReadSignals, WellnessReplies,
       WellnessRaises, UpdateRecord, Inv, Control
<1> QED
  BY <1>1, <1>2, <1>3, <1>4, <1>5

\* Each brief the advisor gets belongs to the card at its place and is marked
\* as passed exactly when every token of it is supported by that card's items.
THEOREM BriefsTellTheTruth == Spec => []BriefsAreHonest
<1>1. Init => Checked
  BY DEF Init, Checked, Merged
<1>2. Inv /\ Checked => BriefsAreHonest
  <2> SUFFICES ASSUME Inv, Checked, Merged, NEW i \in 1 .. Len(briefs)
               PROVE  /\ briefs[i].passed
                           <=> WellSupported(briefs[i].text, cards[i].evidence + Reasons)
                      /\ briefs[i].passed \/ briefs[i].attempts = Retries + 1
    BY DEF BriefsAreHonest, Checked
  <2>1. briefs[i] \in WrittenBrief
    BY DEF Inv, TypeOK
  <2>2. briefs[i].evidence \in Nat /\ briefs[i].text \in Briefs
    BY <2>1 DEF WrittenBrief
  <2>3. Passed(briefs[i].text, briefs[i].evidence)
          <=> WellSupported(briefs[i].text, briefs[i].evidence)
    BY <2>2, BriefsType, GroundedIsSupported
  <2> QED
    BY <2>3 DEF Checked
<1> QED
  BY <1>1, <1>2, CheckedStep, Invariant, PTL DEF Spec

-----------------------------------------------------------------------------
\* The order Merge chooses, read off the cards it leaves.
LEMMA MergeRanks == ASSUME Inv, Merge PROVE RankedAfterVerdict'
<1> DEFINE n == Len(PlannedCards)
           outcomes == [i \in 1 .. n |-> ApplyWellness(PlannedCards[i], risk)]
<1>1. PICK applied \in [1 .. n -> UNION {outcomes[i] : i \in 1 .. n}], p \in [1 .. n -> 1 .. n] :
        /\ \A i \in 1 .. n : applied[i] \in outcomes[i]
        /\ StableOrder(applied, p)
        /\ cards' = [i \in 1 .. n |-> applied[p[i]]]
  BY DEF Merge
<1>2. n \in Nat /\ PlannedCards' = PlannedCards /\ plan' = plan /\ plan \in Plans
  <2>1. plan' = plan /\ plan \in Plans
    BY DEF Merge, threads, Inv, Control
  <2>2. PlannedCards \in Seq(Card)
    BY <2>1, PlansType DEF Merge, Mergeable, PlannedCards, Maybe
  <2> QED
    BY <2>1, <2>2 DEF PlannedCards
<1>3. Len(cards') = n /\ cards' \in Seq(MergedCard)
  BY <1>2, MergedCards
<1>4. Len(applied) = n
  BY <1>1, <1>2
<1>5. \A i \in 1 .. n : p[i] \in 1 .. n /\ cards'[i] = applied[p[i]]
                       /\ applied[p[i]] \in ApplyWellness(PlannedCards[p[i]], risk)
  BY <1>1
<1>6. \A i \in 1 .. n : cards'[i].id = PlannedCards[p[i]].id
  <2> SUFFICES ASSUME NEW c, NEW a \in ApplyWellness(c, risk) PROVE a.id = c.id
    BY <1>5
  <2>1. PICK confidence, override : a = Adjust(c, confidence, override)
    <3>1. CASE risk.verdict = "veto"
      BY <3>1 DEF ApplyWellness
    <3>2. CASE risk.verdict = "downgrade"
      BY <3>2 DEF ApplyWellness
    <3>3. CASE risk.verdict \notin {"veto", "downgrade"}
      BY <3>3 DEF ApplyWellness
    <3> QED
      BY <3>1, <3>2, <3>3
  <2> QED
    BY <2>1 DEF Adjust
<1>7. \A i \in 1 .. n : Rank(cards'[i]) \in Int /\ Sureness(cards'[i]) \in Int
  <2> SUFFICES ASSUME NEW i \in 1 .. n
               PROVE  Rank(cards'[i]) \in Int /\ Sureness(cards'[i]) \in Int
    OBVIOUS
  <2>1. cards'[i] \in MergedCard /\ cards'[i].confidence # Null
    BY <1>3, MergedCards
  <2> QED
    BY <2>1 DEF MergedCard, Maybe, Rank, Sureness
<1>8. ASSUME NEW i \in 1 .. n, NEW j \in 1 .. n, i < j
      PROVE  /\ p[i] # p[j]
             /\ \/ Rank(cards'[i]) < Rank(cards'[j])
                \/ /\ Rank(cards'[i]) = Rank(cards'[j])
                   /\ Sureness(cards'[i]) > Sureness(cards'[j])
                \/ /\ Rank(cards'[i]) = Rank(cards'[j])
                   /\ Sureness(cards'[i]) = Sureness(cards'[j])
                   /\ p[i] < p[j]
  <2>1. \/ Precedes(cards'[i], cards'[j])
        \/ ~Precedes(cards'[j], cards'[i]) /\ p[i] < p[j]
    BY <1>1, <1>4, <1>5, <1>8 DEF StableOrder
  <2>2. /\ Rank(cards'[i]) \in Int /\ Sureness(cards'[i]) \in Int
        /\ Rank(cards'[j]) \in Int /\ Sureness(cards'[j]) \in Int
        /\ p[i] \in Int /\ p[j] \in Int
    <3>1. p[i] \in 1 .. n /\ p[j] \in 1 .. n
      BY <1>5
    <3>2. /\ Rank(cards'[i]) \in Int /\ Sureness(cards'[i]) \in Int
          /\ Rank(cards'[j]) \in Int /\ Sureness(cards'[j]) \in Int
      BY <1>7, Zenon
    <3>3. p[i] \in Int /\ p[j] \in Int
      <4> HIDE DEF n
      <4> QED
        BY <1>2, <3>1
    <3> QED
      BY <3>2, <3>3
  <2>3. p[i] # p[j]
    <3> SUFFICES ASSUME p[i] = p[j] PROVE FALSE
      OBVIOUS
    <3>1. cards'[i] = cards'[j]
      BY <1>5
    <3>2. ~Precedes(cards'[i], cards'[j])
      BY <2>2, <3>1 DEF Precedes
    <3> QED
      BY <2>1, <2>2, <3>2
  <2>4. CASE Precedes(cards'[i], cards'[j])
    BY <2>3, <2>4 DEF Precedes
  <2>5. CASE ~Precedes(cards'[j], cards'[i]) /\ p[i] < p[j]
    <3> HIDE DEF n
    <3> QED
      BY <2>2, <2>3, <2>5 DEF Precedes
  <2> QED
    BY <2>1, <2>4, <2>5
<1>9. \A i, j \in 1 .. n : p[i] = p[j] => i = j
  BY <1>2, <1>8
<1>10. ASSUME NEW i \in 1 .. Len(PlannedCards'), NEW j \in 1 .. Len(PlannedCards'), i < j
       PROVE  \/ Rank(cards'[i]) < Rank(cards'[j])
              \/ /\ Rank(cards'[i]) = Rank(cards'[j])
                 /\ Sureness(cards'[i]) > Sureness(cards'[j])
              \/ /\ Rank(cards'[i]) = Rank(cards'[j])
                 /\ Sureness(cards'[i]) = Sureness(cards'[j])
                 /\ p[i] < p[j]
  BY <1>2, <1>8, <1>10
<1>11. /\ Len(cards') = Len(PlannedCards')
       /\ p \in [1 .. Len(PlannedCards') -> 1 .. Len(PlannedCards')]
       /\ \A i, j \in 1 .. Len(PlannedCards') : p[i] = p[j] => i = j
       /\ \A i \in 1 .. Len(PlannedCards') : cards'[i].id = PlannedCards'[p[i]].id
  BY <1>1, <1>2, <1>3, <1>6, <1>9
<1> HIDE DEF n, outcomes
<1> QED
  BY <1>10, <1>11 DEF RankedAfterVerdict, RankedFrom

\* The advisor gets every card of the planner once, ranked on the confidence
\* that the wellness verdict left.
THEOREM CardsAreRanked == Spec => []RankedAfterVerdict
<1>1. Init => RankedAfterVerdict
  BY DEF Init, RankedAfterVerdict, Merged
<1>2. Inv /\ RankedAfterVerdict /\ [Next]_vars => RankedAfterVerdict'
  <2> SUFFICES ASSUME Inv, RankedAfterVerdict, [Next]_vars, Merged' PROVE RankedAfterVerdict'
    BY DEF RankedAfterVerdict
  <2>1. CASE Merged
    <3>1. plan' = plan /\ cards' = cards
      BY <2>1, RepliesFixed
    <3>2. PlannedCards' = PlannedCards
      BY <3>1 DEF PlannedCards
    <3> QED
      BY <2>1, <3>1, <3>2 DEF RankedAfterVerdict
  <2>2. CASE Merge
    BY <2>2, MergeRanks
  <2>3. CASE ~Merged /\ ~Merge
    BY <2>3, MergedByMerge
  <2> QED
    BY <2>1, <2>2, <2>3
<1> QED
  BY <1>1, <1>2, Invariant, PTL DEF Spec
=============================================================================
