---------------------------- MODULE RuntimeProofs ----------------------------
(***************************************************************************)
(* Proofs about Runtime and MemoryOutcomes for any number of recordings,   *)
(* runs, pings and tokens, any past, window and number of attempts.        *)
(***************************************************************************)
EXTENDS Runtime, FiniteSetTheorems, SequenceTheorems, TLAPS

\* What a step does to the memory: one of its actions, or nothing.
MemoryStep ==
  \/ \E c \in Calls : \/ Begin(c)
                      \/ c \in Recorders /\ Record(c)
                      \/ c \in Planners /\ Run(c)
  \/ Kill
  \/ UNCHANGED memory

LEMMA StepOfMemory == [Next]_vars => MemoryStep
BY DEF Next, Accept, Respond, Invoke, Crash, MemoryStep, vars

\* First never adds anything and keeps its front in place.
LEMMA FirstIs ==
  ASSUME NEW S, NEW doc \in Seq(S), NEW n \in Nat
  PROVE  /\ First(doc, n) \in Seq(S)
         /\ Len(First(doc, n)) = IF n < Len(doc) THEN n ELSE Len(doc)
         /\ \A i \in 1 .. Len(First(doc, n)) : First(doc, n)[i] = doc[i]
<1> DEFINE m == IF n < Len(doc) THEN n ELSE Len(doc)
<1>1. m \in 0 .. Len(doc)
  OBVIOUS
<1>2. First(doc, n) = SubSeq(doc, 1, m)
  BY DEF First
<1> HIDE DEF m
<1>3. /\ SubSeq(doc, 1, m) \in Seq(S) /\ Len(SubSeq(doc, 1, m)) = m
      /\ \A i \in 1 .. m : SubSeq(doc, 1, m)[i] = doc[i]
  BY <1>1
<1> QED
  BY <1>2, <1>3 DEF m

\* A sequence followed by another.
LEMMA ThenIs ==
  ASSUME NEW S, NEW front \in Seq(S), NEW back \in Seq(S)
  PROVE  /\ front \o back \in Seq(S) /\ Len(front \o back) = Len(front) + Len(back)
         /\ \A i \in 1 .. Len(front) : (front \o back)[i] = front[i]
         /\ \A i \in 1 .. Len(back) : (front \o back)[Len(front) + i] = back[i]
OBVIOUS

\* A sequence turned round.
LEMMA ReverseIs ==
  ASSUME NEW S, NEW doc \in Seq(S)
  PROVE  /\ Reverse(doc) \in Seq(S) /\ Len(Reverse(doc)) = Len(doc)
         /\ \A i \in 1 .. Len(doc) : Reverse(doc)[i] = doc[(Len(doc) - i) + 1]
<1>1. Reverse(doc) = [i \in 1 .. Len(doc) |-> doc[(Len(doc) - i) + 1]]
  BY DEF Reverse
<1>2. \A i \in 1 .. Len(doc) : (Len(doc) - i) + 1 \in 1 .. Len(doc)
  OBVIOUS
<1>3. \A i \in 1 .. Len(doc) : doc[(Len(doc) - i) + 1] \in S
  BY <1>2
<1>4. Reverse(doc) \in [1 .. Len(doc) -> S]
  BY <1>1, <1>3
<1>5. Reverse(doc) \in Seq(S) /\ Len(Reverse(doc)) = Len(doc)
  BY <1>4
<1>6. \A i \in 1 .. Len(doc) : Reverse(doc)[i] = doc[(Len(doc) - i) + 1]
  BY <1>1
<1> QED
  BY <1>5, <1>6

-----------------------------------------------------------------------------
(***************************************************************************)
(* Types.  A create under way has attempts left.                           *)
(***************************************************************************)
MemoryTyped ==
  /\ MemoryTypeOK
  /\ \A c \in Recorders : pc[c] \in {"idle", "create"} => sent[c] < Attempts
  /\ \A c \in Calls : pc[c] = "create" => c \in Recorders
  /\ \A c \in Planners : pc[c] # "create"

\* What is still to be listed: the events behind the pages, in the order of the
\* listing.
Total(d) == IF order = "oldest" THEN Len(events) ELSE FirstSeen(d)
Item(d, i) == IF order = "oldest" THEN events[i] ELSE events[(FirstSeen(d) - i) + 1]

LEMMA RestIs ==
  ASSUME MemoryTypeOK, NEW d \in Planners, FirstSeen(d) <= Len(events),
         Len(pages[d]) <= Total(d)
  PROVE  /\ Rest(d) \in Seq(Outcomes) /\ FirstSeen(d) \in Nat /\ Total(d) \in Nat
         /\ Len(Rest(d)) = Total(d) - Len(pages[d])
         /\ \A i \in 1 .. Len(Rest(d)) : Rest(d)[i] = Item(d, Len(pages[d]) + i)
<1>0. /\ events \in Seq(Outcomes) /\ pages[d] \in Seq(Outcomes) /\ order \in {"newest", "oldest"}
      /\ upto[d] \in Nat \cup {-1} /\ Len(events) \in Nat
  BY DEF MemoryTypeOK
<1>1. FirstSeen(d) \in 0 .. Len(events)
  BY <1>0 DEF FirstSeen
<1> DEFINE seen == SubSeq(events, 1, FirstSeen(d))
           all == IF order = "oldest" THEN events ELSE Reverse(seen)
<1>2. /\ seen \in Seq(Outcomes) /\ Len(seen) = FirstSeen(d)
      /\ \A i \in 1 .. FirstSeen(d) : seen[i] = events[i]
  BY <1>0, <1>1
<1> HIDE DEF seen
<1>3. /\ Reverse(seen) \in Seq(Outcomes) /\ Len(Reverse(seen)) = FirstSeen(d)
      /\ \A i \in 1 .. FirstSeen(d) : Reverse(seen)[i] = events[(FirstSeen(d) - i) + 1]
  <2>1. /\ Reverse(seen) \in Seq(Outcomes) /\ Len(Reverse(seen)) = Len(seen)
        /\ \A i \in 1 .. Len(seen) : Reverse(seen)[i] = seen[(Len(seen) - i) + 1]
    BY <1>2, ReverseIs
  <2>2. \A i \in 1 .. FirstSeen(d) : (FirstSeen(d) - i) + 1 \in 1 .. FirstSeen(d)
    BY <1>1
  <2> QED
    BY <1>2, <2>1, <2>2
<1>4. /\ all \in Seq(Outcomes) /\ Len(all) = Total(d)
      /\ \A i \in 1 .. Total(d) : all[i] = Item(d, i)
  BY <1>0, <1>1, <1>3 DEF Total, Item
<1>5. Rest(d) = SubSeq(all, Len(pages[d]) + 1, Len(all))
  BY DEF Rest, seen
<1> HIDE DEF all
<1>6. Total(d) \in Nat /\ Len(pages[d]) \in 0 .. Total(d)
  BY <1>0, <1>1 DEF Total
<1>7. /\ Rest(d) \in Seq(Outcomes) /\ Len(Rest(d)) = Total(d) - Len(pages[d])
      /\ \A i \in 1 .. Len(Rest(d)) : Rest(d)[i] = all[Len(pages[d]) + i]
  BY <1>0, <1>4, <1>5, <1>6
<1>8. \A i \in 1 .. Len(Rest(d)) : Len(pages[d]) + i \in 1 .. Total(d)
  BY <1>6, <1>7
<1> QED
  BY <1>1, <1>4, <1>6, <1>7, <1>8
-----------------------------------------------------------------------------
(***************************************************************************)
(* The listing.  A planner's pages are the first items of the listing; the *)
(* events only grow at their end, so items once in reach stay where they    *)
(* are; and an outcome that was acknowledged before the run began is in     *)
(* reach of its first page.                                                *)
(***************************************************************************)
Bounded(d) ==
  /\ upto[d] <= Len(events) /\ Len(pages[d]) <= Total(d)
  /\ upto[d] = -1 => pages[d] = << >> /\ ~Informed(d)
  /\ pc[d] = "idle" => upto[d] = -1

PagesOK(d) == \A i \in 1 .. Len(pages[d]) : pages[d][i] = Item(d, i)

GivenOK(d) ==
  Informed(d) =>
    /\ Len(given[d]) <= Window /\ Len(given[d]) <= Total(d)
    /\ \A i \in 1 .. Len(given[d]) : given[d][i] = Item(d, i)
    /\ \/ Len(given[d]) = Window
       \/ \A c \in before[d] : pc[c] = "ok" => Contains(given[d], c)

InReach(d, c) == \E p \in 1 .. Len(events) : events[p] = c /\ (upto[d] # -1 => p <= upto[d])

SeenOK(d) == \A c \in before[d] : c \in Over /\ (pc[c] = "ok" => InReach(d, c))

PlannerOK(d) == Bounded(d) /\ PagesOK(d) /\ GivenOK(d) /\ SeenOK(d)

MemoryInv ==
  /\ MemoryTyped
  /\ IsInjective(events)
  /\ \A c \in Recorders : pc[c] = "ok" => Contains(events, c)
  /\ \A d \in Planners : PlannerOK(d)

\* A planner run whose own state a step leaves alone: the events may grow and
\* calls may end.
LEMMA PlannerCarried ==
  ASSUME MemoryInv, NEW d \in Planners,
         events' \in Seq(Outcomes), Len(events) <= Len(events'),
         \A i \in 1 .. Len(events) : events'[i] = events[i],
         order' = order, pages'[d] = pages[d], upto'[d] = upto[d], given'[d] = given[d],
         before'[d] = before[d], \A c \in Over : pc'[c] = pc[c],
         pc'[d] = "idle" => pc[d] = "idle"
  PROVE  PlannerOK(d)'
<1>0. /\ PlannerOK(d) /\ events \in Seq(Outcomes) /\ pages[d] \in Seq(Outcomes)
      /\ order \in {"newest", "oldest"} /\ upto[d] \in Nat \cup {-1} /\ before[d] \subseteq Recorders
  BY DEF MemoryInv, MemoryTyped, MemoryTypeOK
<1>1. (Informed(d))' = Informed(d)
  BY DEF Informed
<1>2. Total(d) <= Total(d)' /\ Total(d) \in Nat /\ Total(d)' \in Nat
  BY <1>0 DEF Total, FirstSeen
<1>3. Bounded(d)'
  BY <1>0, <1>1, <1>2 DEF PlannerOK, Bounded
<1>4. ASSUME upto[d] # -1, NEW i \in 1 .. Total(d) PROVE Item(d, i)' = Item(d, i)
  <2>1. CASE order = "oldest"
    BY <1>0, <1>4, <2>1 DEF Item, Total
  <2>2. CASE order = "newest"
    <3>1. FirstSeen(d) = upto[d] /\ FirstSeen(d)' = upto[d] /\ Total(d) = upto[d]
      BY <1>4, <2>2 DEF FirstSeen, Total
    <3>2. (upto[d] - i) + 1 \in 1 .. Len(events)
      BY <1>0, <1>4, <3>1 DEF PlannerOK, Bounded
    <3> QED
      BY <2>2, <3>1, <3>2 DEF Item
  <2> QED
    BY <1>0, <2>1, <2>2
<1>5. PagesOK(d)'
  <2>1. CASE upto[d] = -1
    BY <1>0, <2>1 DEF PlannerOK, Bounded, PagesOK
  <2>2. CASE upto[d] # -1
    <3>1. \A i \in 1 .. Len(pages[d]) : i \in 1 .. Total(d)
      BY <1>0, <1>2 DEF PlannerOK, Bounded
    <3> QED
      BY <1>0, <1>4, <2>2, <3>1 DEF PlannerOK, PagesOK
  <2> QED
    BY <2>1, <2>2
<1>6. GivenOK(d)'
  <2> SUFFICES ASSUME Informed(d)
               PROVE  /\ Len(given[d]) <= Window /\ Len(given[d]) <= Total(d)'
                      /\ \A i \in 1 .. Len(given[d]) : given[d][i] = Item(d, i)'
                      /\ \/ Len(given[d]) = Window
                         \/ \A c \in before[d] : pc'[c] = "ok" => Contains(given[d], c)
    BY <1>1 DEF GivenOK, Contains
  <2>1. /\ Len(given[d]) <= Window /\ Len(given[d]) <= Total(d)
        /\ \A i \in 1 .. Len(given[d]) : given[d][i] = Item(d, i)
        /\ \/ Len(given[d]) = Window
           \/ \A c \in before[d] : pc[c] = "ok" => Contains(given[d], c)
    BY <1>0 DEF PlannerOK, GivenOK
  <2>2. upto[d] # -1
    BY <1>0 DEF PlannerOK, Bounded
  <2>3. given[d] \in Seq(Outcomes)
    BY DEF Informed, MemoryInv, MemoryTyped, MemoryTypeOK
  <2>4. \A i \in 1 .. Len(given[d]) : i \in 1 .. Total(d)
    BY <1>2, <2>1, <2>3
  <2>5. \A c \in before[d] : pc'[c] = pc[c]
    BY <1>0 DEF PlannerOK, SeenOK
  <2>6. Window \in Nat /\ Len(given[d]) \in Nat
    BY <2>3, BoundsType
  <2> QED
    BY <1>2, <1>4, <2>1, <2>2, <2>4, <2>5, <2>6
<1>7. SeenOK(d)'
  <2> SUFFICES ASSUME NEW c \in before[d]
               PROVE  c \in Over' /\ (pc'[c] = "ok" => InReach(d, c)')
    BY DEF SeenOK
  <2>1. c \in Over /\ pc'[c] = pc[c] /\ (pc[c] = "ok" => InReach(d, c))
    BY <1>0 DEF PlannerOK, SeenOK
  <2>2. InReach(d, c) => InReach(d, c)'
    BY <1>0 DEF InReach
  <2> QED
    BY <2>1, <2>2 DEF Over
<1> QED
  BY <1>3, <1>5, <1>6, <1>7 DEF PlannerOK

\* What a create leaves: the events as they were, or one more at their end.
LEMMA EventsGrow ==
  ASSUME events \in Seq(Outcomes), IsInjective(events), NEW c \in Recorders,
         NEW es, es \in {events, AfterCreate(c)}
  PROVE  /\ es \in Seq(Outcomes) /\ IsInjective(es) /\ Len(events) <= Len(es)
         /\ \A i \in 1 .. Len(events) : es[i] = events[i]
         /\ \A x : Contains(events, x) => Contains(es, x)
         /\ es = AfterCreate(c) => Contains(es, c)
<1>1. c \in Outcomes
  BY DEF Outcomes
<1>2. CASE es = events
  BY <1>2 DEF AfterCreate, Created
<1>3. CASE es # events
  <2>1. es = Append(events, c) /\ ~Contains(events, c)
    BY <1>3 DEF AfterCreate, Created
  <2>2. /\ es \in Seq(Outcomes) /\ Len(es) = Len(events) + 1 /\ es[Len(events) + 1] = c
        /\ \A i \in 1 .. Len(events) : es[i] = events[i]
    BY <1>1, <2>1
  <2>3. \A i \in 1 .. Len(events) : events[i] # c
    BY <2>1 DEF Contains
  <2>4. IsInjective(es)
    <3> SUFFICES ASSUME NEW i \in 1 .. Len(es), NEW j \in 1 .. Len(es), es[i] = es[j] PROVE i = j
      BY <2>2 DEF IsInjective
    <3>1. CASE i \in 1 .. Len(events) /\ j \in 1 .. Len(events)
      BY <2>2, <3>1 DEF IsInjective
    <3> QED
      BY <2>2, <2>3, <3>1
  <2>5. ASSUME NEW x, Contains(events, x) PROVE Contains(es, x)
    BY <2>2, <2>5 DEF Contains
  <2>6. Contains(es, c)
    BY <2>2 DEF Contains
  <2> QED
    BY <2>2, <2>4, <2>5, <2>6
<1> QED
  BY <1>2, <1>3
-----------------------------------------------------------------------------
(***************************************************************************)
(* MemoryInv holds at the start and is kept by every step.                 *)
(***************************************************************************)
LEMMA MemoryInvAtStart == MemoryInit => MemoryInv
<1> SUFFICES ASSUME MemoryInit PROVE MemoryInv
  OBVIOUS
<1>1. events = Past /\ Past \in Seq(Outcomes) /\ IsInjective(Past)
  <2>1. Past \in Seq(Range(Past)) /\ Range(Past) \subseteq Outcomes
    BY PastType DEF Outcomes
  <2> QED
    BY <2>1, PastType DEF MemoryInit
<1>2. MemoryTyped
  BY <1>1, BoundsType DEF MemoryInit, MemoryTyped, MemoryTypeOK, Calls
<1>3. \A c \in Recorders : pc[c] # "ok"
  BY DEF MemoryInit, Calls
<1>4. ASSUME NEW d \in Planners PROVE PlannerOK(d)
  <2>1. pages[d] = << >> /\ upto[d] = -1 /\ ~Informed(d) /\ before[d] = {}
    BY DEF MemoryInit, Informed
  <2>2. FirstSeen(d) = Len(events) /\ Len(events) \in Nat
    BY <1>1, <2>1 DEF FirstSeen
  <2>3. Bounded(d)
    BY <2>1, <2>2 DEF Bounded, Total
  <2>4. PagesOK(d) /\ GivenOK(d) /\ SeenOK(d)
    BY <2>1 DEF PagesOK, GivenOK, SeenOK
  <2> QED
    BY <2>3, <2>4 DEF PlannerOK
<1> QED
  BY <1>1, <1>2, <1>3, <1>4 DEF MemoryInv

\* The pages and n more events are the first of the listing.
LEMMA ListedSoFar ==
  ASSUME MemoryInv, NEW d \in Planners, NEW n \in Nat, n <= Len(Rest(d)),
         NEW all, all = pages[d] \o First(Rest(d), n)
  PROVE  /\ all \in Seq(Outcomes) /\ Len(all) = Len(pages[d]) + n
         /\ Len(all) <= Total(d) /\ Total(d) \in Nat /\ FirstSeen(d) \in 0 .. Len(events)
         /\ Len(Rest(d)) = Total(d) - Len(pages[d]) /\ Len(pages[d]) \in Nat
         /\ \A i \in 1 .. Len(all) : all[i] = Item(d, i)
<1>0. /\ MemoryTypeOK /\ PlannerOK(d) /\ events \in Seq(Outcomes)
      /\ pages[d] \in Seq(Outcomes) /\ upto[d] \in Nat \cup {-1}
  BY DEF MemoryInv, MemoryTyped, MemoryTypeOK
<1>1. FirstSeen(d) \in 0 .. Len(events) /\ Len(pages[d]) <= Total(d)
  BY <1>0 DEF FirstSeen, PlannerOK, Bounded
<1>2. /\ Rest(d) \in Seq(Outcomes) /\ FirstSeen(d) \in Nat /\ Total(d) \in Nat
      /\ Len(Rest(d)) = Total(d) - Len(pages[d])
      /\ \A i \in 1 .. Len(Rest(d)) : Rest(d)[i] = Item(d, Len(pages[d]) + i)
  <2>1. FirstSeen(d) <= Len(events)
    BY <1>0, <1>1
  <2> QED
    BY <1>0, <1>1, <2>1, RestIs
<1> DEFINE more == First(Rest(d), n)
<1>3. /\ more \in Seq(Outcomes) /\ Len(more) = n
      /\ \A i \in 1 .. Len(more) : more[i] = Rest(d)[i]
  <2>1. Len(Rest(d)) \in Nat
    BY <1>2
  <2> QED
    BY <1>2, <2>1, FirstIs
<1> HIDE DEF more
<1>4. all = pages[d] \o more
  BY DEF more
<1>5. /\ all \in Seq(Outcomes) /\ Len(all) = Len(pages[d]) + n
      /\ \A i \in 1 .. Len(pages[d]) : all[i] = pages[d][i]
      /\ \A i \in 1 .. n : all[Len(pages[d]) + i] = more[i]
  <2>1. /\ pages[d] \o more \in Seq(Outcomes)
        /\ Len(pages[d] \o more) = Len(pages[d]) + Len(more)
        /\ \A i \in 1 .. Len(pages[d]) : (pages[d] \o more)[i] = pages[d][i]
        /\ \A i \in 1 .. Len(more) : (pages[d] \o more)[Len(pages[d]) + i] = more[i]
    <3>1. pages[d] \in Seq(Outcomes) /\ more \in Seq(Outcomes)
      BY <1>0, <1>3
    <3> QED
      BY <3>1, ThenIs
  <2> QED
    BY <1>3, <1>4, <2>1
<1>6. ASSUME NEW i \in 1 .. Len(all) PROVE all[i] = Item(d, i)
  <2>1. CASE i <= Len(pages[d])
    BY <1>0, <1>5, <2>1 DEF PlannerOK, PagesOK
  <2>2. CASE i > Len(pages[d])
    <3> DEFINE j == i - Len(pages[d])
    <3>1. Len(pages[d]) \in Nat /\ Len(all) \in Nat
      BY <1>0, <1>5
    <3>2. j \in 1 .. n /\ i = Len(pages[d]) + j
      BY <1>5, <2>2, <3>1
    <3>3. j \in 1 .. Len(Rest(d))
      BY <1>2, <3>1, <3>2
    <3> HIDE DEF j
    <3> QED
      BY <1>2, <1>3, <1>5, <3>2, <3>3
  <2> QED
    BY <1>0, <1>5, <2>1, <2>2
<1>7. Len(all) <= Total(d) /\ Len(pages[d]) \in Nat
  BY <1>0, <1>2, <1>5
<1> QED
  BY <1>1, <1>2, <1>5, <1>6, <1>7

\* A first page fixes the end of the listing where it is.
LEMMA EndIsFixed ==
  ASSUME NEW d \in Planners, upto'[d] = FirstSeen(d), FirstSeen(d) \in Nat,
         events' = events, order' = order
  PROVE  /\ FirstSeen(d)' = FirstSeen(d) /\ Total(d)' = Total(d)
         /\ \A i : Item(d, i)' = Item(d, i)
<1>1. FirstSeen(d)' = FirstSeen(d)
  BY DEF FirstSeen
<1> QED
  BY <1>1 DEF Total, Item

\* What was in reach stays in reach when the first page is served.
LEMMA ReachIsFixed ==
  ASSUME MemoryInv, NEW d \in Planners, upto'[d] = FirstSeen(d), events' = events,
         before'[d] = before[d], \A c \in Over : pc'[c] = pc[c]
  PROVE  SeenOK(d)'
<1> SUFFICES ASSUME NEW c \in before[d]
             PROVE  c \in Over' /\ (pc'[c] = "ok" => InReach(d, c)')
  BY DEF SeenOK
<1>1. PlannerOK(d) /\ events \in Seq(Outcomes)
  BY DEF MemoryInv, MemoryTyped, MemoryTypeOK
<1>2. c \in Over /\ pc'[c] = pc[c] /\ (pc[c] = "ok" => InReach(d, c))
  BY <1>1 DEF PlannerOK, SeenOK
<1>3. InReach(d, c) => InReach(d, c)'
  BY <1>1 DEF InReach, FirstSeen
<1> QED
  BY <1>2, <1>3 DEF Over

\* Steps that change only where calls stand.
LEMMA OnlyCallsMove ==
  ASSUME MemoryInv, MemoryTyped', events' = events, order' = order, pages' = pages,
         upto' = upto, given' = given, before' = before, \A c \in Over : pc'[c] = pc[c],
         \A c \in Recorders : pc'[c] = "ok" => pc[c] = "ok" \/ Contains(events, c),
         \A d \in Planners : pc'[d] = "idle" => pc[d] = "idle"
  PROVE  MemoryInv'
<1>0. events \in Seq(Outcomes) /\ Len(events) <= Len(events)
  BY DEF MemoryInv, MemoryTyped, MemoryTypeOK
<1>1. ASSUME NEW d \in Planners PROVE PlannerOK(d)'
  BY <1>0, PlannerCarried
<1>2. \A c \in Recorders : pc'[c] = "ok" => Contains(events', c)
  BY DEF MemoryInv
<1>3. IsInjective(events') /\ (\A c \in Recorders : pc[c] = "ok" => Contains(events, c))
  BY DEF MemoryInv
<1> QED
  BY <1>1, <1>2, <1>3 DEF MemoryInv, Contains, IsInjective

\* A recording begins.
LEMMA BeginRecordingKeeps ==
  ASSUME MemoryInv, NEW c \in Calls, BeginRecording(c) PROVE MemoryInv'
<1>0. MemoryTyped /\ MemoryTypeOK
  BY DEF MemoryInv, MemoryTyped
<1>1. MemoryTyped'
  BY <1>0, BoundsType, RolesDisjoint DEF BeginRecording, Move, MemoryTyped, MemoryTypeOK
<1>2. /\ \A x \in Over : pc'[x] = pc[x]
      /\ \A x \in Recorders : pc'[x] = "ok" => pc[x] = "ok"
      /\ \A d \in Planners : pc'[d] = "idle" => pc[d] = "idle"
  BY <1>0 DEF BeginRecording, Move, MemoryTypeOK, Over, Calls
<1> QED
  BY <1>1, <1>2, OnlyCallsMove DEF BeginRecording

\* The agents of a run return or raise, or the process dies.
LEMMA RunEndsKeeps ==
  ASSUME MemoryInv,
         (\E c \in Planners : RunReturns(c) \/ RunRaises(c)) \/ Kill PROVE MemoryInv'
<1>0. MemoryTyped /\ MemoryTypeOK
  BY DEF MemoryInv, MemoryTyped
<1>1. CASE Kill
  <2>1. MemoryTyped'
    BY <1>0, <1>1 DEF Kill, MemoryTyped, MemoryTypeOK, Calls, Over
  <2>2. /\ \A x \in Over : pc'[x] = pc[x]
        /\ \A x \in Recorders : pc'[x] = "ok" => pc[x] = "ok"
        /\ \A d \in Planners : pc'[d] = "idle" => pc[d] = "idle"
    BY <1>0, <1>1 DEF Kill, MemoryTypeOK, Over, Calls
  <2> QED
    BY <1>1, <2>1, <2>2, OnlyCallsMove DEF Kill
<1>2. ASSUME NEW c \in Planners, RunReturns(c) \/ RunRaises(c) PROVE MemoryInv'
  <2>1. MemoryTyped'
    BY <1>0, <1>2, RolesDisjoint DEF RunReturns, RunRaises, Move, MemoryTyped, MemoryTypeOK, Calls
  <2>2. /\ \A x \in Over : pc'[x] = pc[x]
        /\ \A x \in Recorders : pc'[x] = "ok" => pc[x] = "ok"
        /\ \A d \in Planners : pc'[d] = "idle" => pc[d] = "idle"
    BY <1>0, <1>2, RolesDisjoint DEF RunReturns, RunRaises, Move, MemoryTypeOK, Over, Calls
  <2> QED
    BY <1>2, <2>1, <2>2, OnlyCallsMove DEF RunReturns, RunRaises
<1> QED
  BY <1>1, <1>2

\* A run of the harness begins: nothing listed yet, and every outcome
\* acknowledged by now is in reach.
LEMMA BeginRunKeeps ==
  ASSUME MemoryInv, NEW c \in Calls, BeginRun(c) PROVE MemoryInv'
<1>0. MemoryTyped /\ MemoryTypeOK /\ c \in Planners /\ pc[c] = "idle"
  BY DEF MemoryInv, MemoryTyped, BeginRun, Move
<1>1. MemoryTyped'
  BY <1>0, RolesDisjoint DEF BeginRun, Move, MemoryTyped, MemoryTypeOK
<1>2. /\ \A x \in Over : pc'[x] = pc[x]
      /\ \A x \in Recorders : pc'[x] = pc[x]
      /\ \A d \in Planners : pc'[d] = "idle" => pc[d] = "idle"
  BY <1>0, RolesDisjoint DEF BeginRun, Move, MemoryTypeOK, Over, Calls
<1>3. ASSUME NEW d \in Planners, d # c PROVE PlannerOK(d)'
  <2>1. before'[d] = before[d]
    BY <1>0, <1>3 DEF BeginRun, MemoryTypeOK
  <2>2. events \in Seq(Outcomes) /\ Len(events) <= Len(events)
    BY <1>0 DEF MemoryTypeOK
  <2> QED
    BY <1>2, <2>1, <2>2, PlannerCarried DEF BeginRun
<1>4. PlannerOK(c)'
  <2>1. PlannerOK(c) /\ upto[c] = -1 /\ pages[c] = << >> /\ ~Informed(c)
    BY <1>0 DEF MemoryInv, PlannerOK, Bounded
  <2>2. upto'[c] = -1 /\ pages'[c] = << >> /\ (~Informed(c))'
    BY <2>1 DEF BeginRun, Informed
  <2>3. Bounded(c)'
    BY <2>1, <2>2 DEF BeginRun, PlannerOK, Bounded, Total, FirstSeen
  <2>4. PagesOK(c)' /\ GivenOK(c)'
    BY <2>2 DEF PagesOK, GivenOK
  <2>5. SeenOK(c)'
    <3> SUFFICES ASSUME NEW x \in before'[c]
                 PROVE  x \in Over' /\ (pc'[x] = "ok" => InReach(c, x)')
      BY DEF SeenOK
    <3>1. x \in Over \cap Recorders
      BY <1>0 DEF BeginRun, MemoryTypeOK
    <3>2. pc'[x] = pc[x] /\ (pc[x] = "ok" => Contains(events, x))
      BY <1>2, <3>1 DEF MemoryInv
    <3>3. Contains(events, x) => InReach(c, x)'
      BY <2>2 DEF BeginRun, InReach, Contains
    <3> QED
      BY <3>1, <3>2, <3>3 DEF Over
  <2> QED
    BY <2>3, <2>4, <2>5 DEF PlannerOK
<1>5. IsInjective(events)' /\ (\A x \in Recorders : pc[x] = "ok" => Contains(events, x))'
  BY <1>2 DEF MemoryInv, BeginRun, IsInjective, Contains
<1> QED
  BY <1>1, <1>3, <1>4, <1>5 DEF MemoryInv

\* A create is answered or not.
LEMMA RecordKeeps ==
  ASSUME MemoryInv, NEW c \in Recorders, Record(c) PROVE MemoryInv'
<1>0. /\ MemoryTyped /\ MemoryTypeOK /\ c \in Calls /\ pc[c] = "create"
      /\ sent[c] \in Nat /\ sent[c] < Attempts
  BY DEF MemoryInv, MemoryTyped, MemoryTypeOK, Record, Create, CreateUnanswered, Move, Calls
<1>1. events' \in {events, AfterCreate(c)} /\ (Create(c) => events' = AfterCreate(c))
  BY DEF Record, Create, CreateUnanswered
<1>2. /\ events' \in Seq(Outcomes) /\ IsInjective(events') /\ Len(events) <= Len(events')
      /\ \A i \in 1 .. Len(events) : events'[i] = events[i]
      /\ \A x : Contains(events, x) => Contains(events', x)
      /\ events' = AfterCreate(c) => Contains(events', c)
  <2>1. events \in Seq(Outcomes) /\ IsInjective(events)
    BY <1>0 DEF MemoryInv, MemoryTypeOK
  <2> QED
    BY <1>1, <2>1, EventsGrow
<1>3. /\ UNCHANGED <<order, pages, upto, given, before>>
      /\ \A x \in Calls : x # c => pc'[x] = pc[x]
  BY <1>0 DEF Record, Create, CreateUnanswered, Move, MemoryTypeOK
<1>4. /\ \A x \in Over : pc'[x] = pc[x]
      /\ \A d \in Planners : pc'[d] = pc[d]
  BY <1>0, <1>3, RolesDisjoint DEF Over, Calls
<1>5. MemoryTyped'
  <2>1. CASE Create(c)
    <3>1. pc' = [pc EXCEPT ![c] = "ok"] /\ sent' = sent
      BY <2>1 DEF Create, Move
    <3> QED
      BY <1>0, <1>2, <1>3, <3>1, RolesDisjoint DEF MemoryTyped, MemoryTypeOK, Calls
  <2>2. CASE CreateUnanswered(c)
    <3>1. /\ sent' = [sent EXCEPT ![c] = @ + 1]
          /\ pc' = [pc EXCEPT ![c] = IF sent'[c] < Attempts THEN "create" ELSE "failed"]
      BY <2>2 DEF CreateUnanswered
    <3>2. sent'[c] \in 0 .. Attempts /\ sent' \in [Recorders -> 0 .. Attempts]
      BY <1>0, <3>1, BoundsType DEF MemoryTypeOK
    <3>3. \A x \in Recorders : pc'[x] \in {"idle", "create"} => sent'[x] < Attempts
      BY <1>0, <1>3, <3>1 DEF MemoryTyped, MemoryTypeOK, Calls
    <3>4. pc' \in [Calls -> {"idle", "create", "list", "agents", "ok", "failed", "killed"}]
      BY <1>0, <3>1 DEF MemoryTypeOK
    <3>5. /\ \A x \in Calls : pc'[x] = "create" => x \in Recorders
          /\ \A x \in Planners : pc'[x] # "create"
      BY <1>0, <1>3, <1>4 DEF MemoryTyped
    <3> QED
      BY <1>0, <1>2, <1>3, <3>2, <3>3, <3>4, <3>5 DEF MemoryTyped, MemoryTypeOK
  <2> QED
    BY <2>1, <2>2 DEF Record
<1>6. ASSUME NEW d \in Planners PROVE PlannerOK(d)'
  BY <1>2, <1>3, <1>4, PlannerCarried
<1>7. ASSUME NEW x \in Recorders, pc'[x] = "ok" PROVE Contains(events', x)
  <2>1. CASE x = c
    <3>1. Create(c)
      BY <1>0, <1>7, <2>1 DEF Record, CreateUnanswered, MemoryTypeOK
    <3> QED
      BY <1>1, <1>2, <2>1, <3>1
  <2>2. CASE x # c
    BY <1>2, <1>3, <1>7, <2>2 DEF MemoryInv, Calls
  <2> QED
    BY <2>1, <2>2
<1> QED
  BY <1>2, <1>5, <1>6, <1>7 DEF MemoryInv, IsInjective, Contains

\* A step of the listing of one run: what the other runs have is left alone.
LEMMA ListingKeeps ==
  ASSUME MemoryInv, MemoryTyped', NEW d \in Planners, pc[d] = "list",
         UNCHANGED <<order, events, before>>,
         \A x \in Calls : x # d => pc'[x] = pc[x],
         \A x \in Planners : x # d => /\ pages'[x] = pages[x] /\ upto'[x] = upto[x]
                                      /\ given'[x] = given[x],
         PlannerOK(d)'
  PROVE  MemoryInv'
<1>1. \A x \in Over : pc'[x] = pc[x]
  BY DEF Over
<1>2. ASSUME NEW x \in Planners, x # d PROVE PlannerOK(x)'
  <2>1. events' \in Seq(Outcomes) /\ Len(events) <= Len(events') /\ x \in Calls
    BY DEF MemoryInv, MemoryTyped, MemoryTypeOK, Calls
  <2> QED
    BY <1>1, <1>2, <2>1, PlannerCarried
<1>3. d \notin Recorders
  BY RolesDisjoint
<1>4. \A x \in Recorders : pc'[x] = pc[x]
  BY <1>3 DEF Calls
<1> QED
  BY <1>2, <1>4 DEF MemoryInv, IsInjective, Contains

\* A page with a token.
LEMMA PageAndMoreKeeps ==
  ASSUME MemoryInv, NEW d \in Planners, NEW n \in Nat, PageAndMore(d, n) PROVE MemoryInv'
<1> DEFINE all == pages[d] \o First(Rest(d), n)
<1>0. /\ MemoryTyped /\ MemoryTypeOK /\ PlannerOK(d) /\ pc[d] = "list" /\ n < Len(Rest(d))
  BY DEF MemoryInv, MemoryTyped, PageAndMore
<1>1. n <= Len(Rest(d))
  <2>1. Rest(d) \in Seq(Outcomes)
    <3>1. FirstSeen(d) <= Len(events) /\ Len(pages[d]) <= Total(d)
      BY <1>0 DEF PlannerOK, Bounded, FirstSeen, MemoryTypeOK
    <3> QED
      BY <1>0, <3>1, RestIs
  <2> QED
    BY <1>0, <2>1
<1>2. /\ all \in Seq(Outcomes) /\ Len(all) <= Total(d) /\ Total(d) \in Nat
      /\ FirstSeen(d) \in 0 .. Len(events)
      /\ \A i \in 1 .. Len(all) : all[i] = Item(d, i)
  BY <1>1, ListedSoFar
<1> HIDE DEF all
<1>3. /\ pages' = [pages EXCEPT ![d] = all] /\ upto' = [upto EXCEPT ![d] = FirstSeen(d)]
      /\ UNCHANGED <<order, events, pc, given, sent, before>>
  BY DEF PageAndMore, all
<1>4. FirstSeen(d) \in Nat /\ events \in Seq(Outcomes)
  BY <1>0, <1>2 DEF MemoryTypeOK
<1>5. /\ pages'[d] = all /\ upto'[d] = FirstSeen(d)
      /\ \A x \in Planners : x # d => pages'[x] = pages[x] /\ upto'[x] = upto[x]
  BY <1>0, <1>3 DEF MemoryTypeOK
<1>6. MemoryTyped'
  BY <1>0, <1>2, <1>3, <1>4 DEF MemoryTyped, MemoryTypeOK
<1>7. /\ FirstSeen(d)' = FirstSeen(d) /\ Total(d)' = Total(d) /\ \A i : Item(d, i)' = Item(d, i)
  BY <1>3, <1>4, <1>5, EndIsFixed
<1>8. PlannerOK(d)'
  <2>1. Bounded(d)'
    BY <1>0, <1>2, <1>3, <1>4, <1>5, <1>7 DEF Bounded
  <2>2. PagesOK(d)'
    BY <1>2, <1>5, <1>7 DEF PagesOK
  <2>3. GivenOK(d)'
    <3>1. (Informed(d))' = Informed(d) /\ FirstSeen(d) \in Nat
      BY <1>3, <1>4 DEF Informed
    <3>2. Informed(d) => upto[d] # -1
      BY <1>0 DEF PlannerOK, Bounded
    <3> QED
      BY <1>0, <1>3, <1>7, <3>1 DEF PlannerOK, GivenOK, Contains
  <2>4. SeenOK(d)'
    BY <1>3, <1>5, ReachIsFixed
  <2> QED
    BY <2>1, <2>2, <2>3, <2>4 DEF PlannerOK
<1> QED
  BY <1>0, <1>3, <1>5, <1>6, <1>8, ListingKeeps

\* The last page: either the listing is full, or all there was is in it.
LEMMA PageAndDoneKeeps ==
  ASSUME MemoryInv, NEW d \in Planners, NEW n \in Nat, PageAndDone(d, n) PROVE MemoryInv'
<1> DEFINE all == pages[d] \o First(Rest(d), n)
           got == First(all, Window)
<1>0. /\ MemoryTyped /\ MemoryTypeOK /\ PlannerOK(d) /\ pc[d] = "list" /\ n <= Len(Rest(d))
      /\ d \in Calls /\ d \notin Recorders /\ Window \in Nat
  BY RolesDisjoint, BoundsType DEF MemoryInv, MemoryTyped, PageAndDone, Move, Calls
<1>1. /\ all \in Seq(Outcomes) /\ Len(all) = Len(pages[d]) + n /\ Len(all) <= Total(d)
      /\ Total(d) \in Nat /\ FirstSeen(d) \in 0 .. Len(events)
      /\ Len(Rest(d)) = Total(d) - Len(pages[d]) /\ Len(pages[d]) \in Nat
      /\ \A i \in 1 .. Len(all) : all[i] = Item(d, i)
  BY <1>0, ListedSoFar
<1>2. /\ pages' = [pages EXCEPT ![d] = << >>] /\ upto' = [upto EXCEPT ![d] = FirstSeen(d)]
      /\ given' = [given EXCEPT ![d] = got] /\ pc' = [pc EXCEPT ![d] = "agents"]
      /\ UNCHANGED <<order, events, sent, before>>
      /\ n = Len(Rest(d)) \/ Len(pages[d]) + n >= Window
  BY DEF PageAndDone, Move
<1> HIDE DEF all
<1>3. /\ got \in Seq(Outcomes) /\ Len(got) = IF Window < Len(all) THEN Window ELSE Len(all)
      /\ \A i \in 1 .. Len(got) : got[i] = all[i]
  BY <1>0, <1>1, FirstIs
<1> HIDE DEF got
<1>4. FirstSeen(d) \in Nat /\ events \in Seq(Outcomes) /\ Len(all) \in Nat
  BY <1>0, <1>1 DEF MemoryTypeOK
<1>5. /\ pages'[d] = << >> /\ upto'[d] = FirstSeen(d) /\ given'[d] = got /\ pc'[d] = "agents"
      /\ \A x \in Planners : x # d => /\ pages'[x] = pages[x] /\ upto'[x] = upto[x]
                                      /\ given'[x] = given[x]
      /\ \A x \in Calls : x # d => pc'[x] = pc[x]
  BY <1>0, <1>2 DEF MemoryTypeOK
<1>6. MemoryTyped'
  <2>1. pages' \in [Planners -> Seq(Outcomes)]
    BY <1>0, <1>2 DEF MemoryTypeOK
  <2>2. upto' \in [Planners -> Nat \cup {-1}]
    BY <1>0, <1>2, <1>4 DEF MemoryTypeOK
  <2>3. given' \in [Planners -> Seq(Outcomes) \cup {Nothing, Unavailable}]
    BY <1>0, <1>2, <1>3 DEF MemoryTypeOK
  <2>4. pc' \in [Calls -> {"idle", "create", "list", "agents", "ok", "failed", "killed"}]
    BY <1>0, <1>2 DEF MemoryTypeOK
  <2>5. MemoryTypeOK'
    BY <1>0, <1>2, <2>1, <2>2, <2>3, <2>4 DEF MemoryTypeOK
  <2> QED
    BY <1>0, <1>2, <2>5 DEF MemoryTyped, MemoryTypeOK, Calls
<1>7. /\ FirstSeen(d)' = FirstSeen(d) /\ Total(d)' = Total(d) /\ \A i : Item(d, i)' = Item(d, i)
  BY <1>2, <1>4, <1>5, EndIsFixed
<1>8. \A x \in Over : x \in Calls /\ x # d /\ pc'[x] = pc[x]
  BY <1>0, <1>5 DEF Over
<1>9. SeenOK(d)'
  BY <1>2, <1>5, <1>8, ReachIsFixed
<1>10. GivenOK(d)'
  <2>1. Len(got) <= Window /\ Len(got) <= Total(d)
    BY <1>0, <1>1, <1>3, <1>4
  <2>2. \A i \in 1 .. Len(got) : got[i] = Item(d, i)
    BY <1>0, <1>1, <1>3, <1>4
  <2>3. CASE Len(got) = Window
    BY <1>5, <1>7, <2>1, <2>2, <2>3 DEF GivenOK
  <2>4. CASE Len(got) # Window
    <3>0. Len(got) = Len(all) /\ Len(all) < Window
      BY <1>0, <1>3, <1>4, <2>4
    <3>1. Len(all) = Total(d) /\ Len(got) = Total(d)
      <4>1. /\ Len(all) = Len(pages[d]) + n /\ Len(Rest(d)) = Total(d) - Len(pages[d])
            /\ Total(d) \in Nat /\ Len(pages[d]) \in Nat
        BY <1>1
      <4>2. n = Len(Rest(d)) \/ Len(all) >= Window
        BY <1>2, <4>1
      <4> HIDE DEF got
      <4> QED
        BY <1>0, <1>4, <3>0, <4>1, <4>2
    <3>2. ASSUME NEW x \in before[d], pc'[x] = "ok" PROVE Contains(got, x)
      <4>1. x \in Over' /\ InReach(d, x)'
        BY <1>2, <1>9, <3>2 DEF SeenOK
      <4>2. PICK p \in 1 .. Len(events) : events[p] = x /\ p <= FirstSeen(d)
        BY <1>2, <1>4, <1>5, <4>1 DEF InReach
      <4>3. CASE order = "oldest"
        <5>1. p \in 1 .. Len(got)
          BY <3>1, <4>3 DEF Total
        <5>2. got[p] = x
          BY <2>2, <4>2, <4>3, <5>1 DEF Item
        <5> QED
          BY <5>1, <5>2 DEF Contains
      <4>4. CASE order # "oldest"
        <5> DEFINE i == (FirstSeen(d) - p) + 1
        <5>1. i \in 1 .. FirstSeen(d) /\ (FirstSeen(d) - i) + 1 = p
          BY <1>4, <4>2
        <5>2. Total(d) = FirstSeen(d) /\ Item(d, i) = events[(FirstSeen(d) - i) + 1]
          BY <4>4 DEF Total, Item
        <5> HIDE DEF i
        <5> QED
          BY <2>2, <3>1, <4>2, <5>1, <5>2 DEF Contains
      <4> QED
        BY <4>3, <4>4
    <3>3. \A x \in before'[d] : pc'[x] = "ok" => Contains(given'[d], x)
      BY <1>2, <1>5, <3>2
    <3> QED
      BY <1>5, <1>7, <2>1, <2>2, <3>3 DEF GivenOK, Contains
  <2> QED
    BY <2>3, <2>4
<1>11. Bounded(d)' /\ PagesOK(d)'
  <2>1. Len(pages'[d]) = 0 /\ upto'[d] # -1 /\ upto'[d] <= Len(events)
    BY <1>1, <1>4, <1>5
  <2> QED
    BY <1>1, <1>2, <1>5, <1>7, <2>1 DEF Bounded, PagesOK
<1> QED
  BY <1>0, <1>2, <1>5, <1>6, <1>9, <1>10, <1>11, ListingKeeps DEF PlannerOK

\* The listing raises.
LEMMA ListRaisesKeeps ==
  ASSUME MemoryInv, NEW d \in Planners, ListRaises(d) PROVE MemoryInv'
<1>0. /\ MemoryTyped /\ MemoryTypeOK /\ PlannerOK(d) /\ pc[d] = "list"
      /\ d \in Calls /\ d \notin Recorders /\ upto[d] \in Nat \cup {-1}
      /\ events \in Seq(Outcomes) /\ order \in {"newest", "oldest"}
  BY RolesDisjoint DEF MemoryInv, MemoryTyped, MemoryTypeOK, ListRaises, Move, Calls
<1>1. /\ pages' = [pages EXCEPT ![d] = << >>] /\ given' = [given EXCEPT ![d] = Unavailable]
      /\ pc' = [pc EXCEPT ![d] = "agents"] /\ UNCHANGED <<order, events, upto, sent, before>>
  BY DEF ListRaises, Move
<1>2. /\ pages'[d] = << >> /\ given'[d] = Unavailable /\ pc'[d] = "agents"
      /\ \A x \in Planners : x # d => pages'[x] = pages[x] /\ given'[x] = given[x]
      /\ \A x \in Calls : x # d => pc'[x] = pc[x]
  BY <1>0, <1>1 DEF MemoryTypeOK
<1>3. MemoryTyped'
  BY <1>0, <1>1 DEF MemoryTyped, MemoryTypeOK, Calls
<1>4. (~Informed(d))'
  BY <1>2 DEF Informed
<1>5. SeenOK(d)'
  BY <1>0, <1>1, <1>2 DEF PlannerOK, SeenOK, InReach, Over
<1>6. Bounded(d)'
  BY <1>0, <1>1, <1>2, <1>4 DEF PlannerOK, Bounded, Total, FirstSeen
<1>7. PagesOK(d)' /\ GivenOK(d)'
  BY <1>2, <1>4 DEF PagesOK, GivenOK
<1> QED
  BY <1>0, <1>1, <1>2, <1>3, <1>5, <1>6, <1>7, ListingKeeps DEF PlannerOK

LEMMA MemoryInvKept == MemoryInv /\ [Next]_vars => MemoryInv'
<1> SUFFICES ASSUME MemoryInv, MemoryStep PROVE MemoryInv'
  BY StepOfMemory
<1>1. ASSUME NEW c \in Calls, Begin(c) PROVE MemoryInv'
  BY <1>1, BeginRecordingKeeps, BeginRunKeeps DEF Begin
<1>2. ASSUME NEW c \in Recorders, Record(c) PROVE MemoryInv'
  BY <1>2, RecordKeeps
<1>3. ASSUME NEW c \in Planners, Run(c) PROVE MemoryInv'
  <2>1. PageLengths \cup {0} \subseteq Nat
    BY DEF PageLengths
  <2>2. ASSUME NEW n \in PageLengths, PageAndMore(c, n) PROVE MemoryInv'
    BY <2>1, <2>2, PageAndMoreKeeps
  <2>3. ASSUME NEW n \in PageLengths \cup {0}, PageAndDone(c, n) PROVE MemoryInv'
    BY <2>1, <2>3, PageAndDoneKeeps
  <2> QED
    BY <1>3, <2>2, <2>3, ListRaisesKeeps, RunEndsKeeps DEF Run
<1>4. CASE UNCHANGED memory
  BY <1>4, OnlyCallsMove DEF memory, MemoryInv, MemoryTyped, MemoryTypeOK, Over
<1> QED
  BY <1>1, <1>2, <1>3, <1>4, RunEndsKeeps DEF MemoryStep
-----------------------------------------------------------------------------
(***************************************************************************)
(* What a run is not given.                                                *)
(***************************************************************************)
\* The position of an event is where it is: no event is there twice.
LEMMA PositionIs ==
  ASSUME events \in Seq(Outcomes), IsInjective(events), NEW i \in 1 .. Len(events)
  PROVE  Position(events[i]) = i
BY DEF Position, IsInjective

LEMMA LeftOutFollows == MemoryInv => LeftOutByWindowOnly
<1> SUFFICES ASSUME MemoryInv, NEW c \in Recorders, NEW d \in Planners,
                    pc[c] = "ok", c \in before[d], Informed(d), ~Contains(given[d], c)
             PROVE  /\ Len(given[d]) = Window /\ IsInjective(given[d])
                    /\ \A i \in 1 .. Window :
                         IF order = "newest" THEN Position(given[d][i]) > Position(c)
                                             ELSE Position(given[d][i]) < Position(c)
  BY DEF LeftOutByWindowOnly
<1>1. /\ PlannerOK(d) /\ events \in Seq(Outcomes) /\ IsInjective(events)
      /\ given[d] \in Seq(Outcomes) /\ upto[d] \in Nat /\ order \in {"newest", "oldest"}
      /\ Window \in Nat
  BY BoundsType DEF MemoryInv, MemoryTyped, MemoryTypeOK, PlannerOK, Bounded, Informed
<1>2. /\ Len(given[d]) = Window /\ Window <= Total(d)
      /\ \A i \in 1 .. Window : given[d][i] = Item(d, i)
  BY <1>1 DEF PlannerOK, GivenOK
<1>3. PICK p \in 1 .. Len(events) : events[p] = c /\ p <= upto[d]
  BY <1>1 DEF PlannerOK, SeenOK, InReach
<1>4. Position(c) = p
  BY <1>1, <1>3, PositionIs
<1>5. \A i \in 1 .. Window : given[d][i] # c
  BY <1>1, <1>2 DEF Contains
<1>6. FirstSeen(d) = upto[d] /\ upto[d] <= Len(events)
  BY <1>1 DEF FirstSeen, PlannerOK, Bounded
<1>7. CASE order = "oldest"
  <2>1. \A i \in 1 .. Window : i \in 1 .. Len(events) /\ given[d][i] = events[i]
    BY <1>1, <1>2, <1>7 DEF Item, Total
  <2>2. \A i \in 1 .. Window : Position(given[d][i]) = i
    BY <1>1, <2>1, PositionIs
  <2>3. IsInjective(given[d])
    BY <1>1, <1>2, <2>1 DEF IsInjective
  <2>4. p > Window
    BY <1>1, <1>3, <1>5, <2>1
  <2> QED
    BY <1>1, <1>2, <1>4, <1>7, <2>2, <2>3, <2>4
<1>8. CASE order = "newest"
  <2>0. Total(d) = upto[d] /\ \A i : Item(d, i) = events[(upto[d] - i) + 1]
    BY <1>6, <1>8 DEF Item, Total
  <2>1. \A i \in 1 .. Window : /\ (upto[d] - i) + 1 \in 1 .. Len(events)
                               /\ given[d][i] = events[(upto[d] - i) + 1]
    BY <1>1, <1>2, <1>6, <2>0
  <2>2. \A i \in 1 .. Window : Position(given[d][i]) = (upto[d] - i) + 1
    BY <1>1, <2>1, PositionIs
  <2>3. IsInjective(given[d])
    <3> SUFFICES ASSUME NEW i \in 1 .. Window, NEW j \in 1 .. Window, given[d][i] = given[d][j]
                 PROVE  i = j
      BY <1>1, <1>2 DEF IsInjective
    <3>1. (upto[d] - i) + 1 = (upto[d] - j) + 1
      BY <2>2
    <3> QED
      BY <1>1, <3>1
  <2>4. p < (upto[d] - Window) + 1
    <3> SUFFICES ASSUME p >= (upto[d] - Window) + 1 PROVE FALSE
      BY <1>1, <1>3
    <3> DEFINE k == (upto[d] - p) + 1
    <3>1. k \in 1 .. Window /\ (upto[d] - k) + 1 = p
      BY <1>1, <1>3
    <3> HIDE DEF k
    <3> QED
      BY <1>3, <1>5, <2>1, <3>1
  <2>5. \A i \in 1 .. Window : (upto[d] - i) + 1 > p
    BY <1>1, <1>3, <2>4
  <2> QED
    BY <1>1, <1>2, <1>4, <1>8, <2>2, <2>3, <2>5
<1> QED
  BY <1>1, <1>7, <1>8

LEMMA MemoryInvAlways == Spec => []MemoryInv
<1>1. Init => MemoryInv
  BY MemoryInvAtStart DEF Init
<1> QED
  BY <1>1, MemoryInvKept, PTL DEF Spec

\* get_outcomes with MEMORY_ID: an acknowledged outcome that a later run is not
\* given is left out only because Window others, on the listed side of it,
\* filled the listing, for any number of events, pages and resent creates.
THEOREM OutcomesLeftOutByWindowOnly == Spec => []LeftOutByWindowOnly
BY MemoryInvAlways, LeftOutFollows, PTL
-----------------------------------------------------------------------------
(***************************************************************************)
(* The tokens.  TokensInUse is inductive with the types and the fact that   *)
(* only finitely many requests run, which is why any set of requests will   *)
(* do.                                                                      *)
(***************************************************************************)
TokensInv ==
  /\ stage \in [Requests -> {"none", "waiting", "running", "answered", "cut"}]
  /\ queue \in Seq(Requests)
  /\ IsFiniteSet(Running) /\ Cardinality(Running) <= Tokens
  /\ IsInjective(queue)
  /\ \A i \in 1 .. Len(queue) : stage[queue[i]] = "waiting"
  /\ \A r \in Requests : stage[r] = "waiting" => \E i \in 1 .. Len(queue) : queue[i] = r
  /\ queue # << >> => Cardinality(Running) = Tokens

LEMMA TokensInvAtStart == Init => TokensInv
<1> SUFFICES ASSUME Init PROVE TokensInv
  OBVIOUS
<1>1. Running = {}
  BY DEF Init, Running
<1>2. IsFiniteSet(Running) /\ Cardinality(Running) = 0
  BY <1>1, FS_EmptySet
<1> QED
  BY <1>2, TokensType DEF Init, TokensInv, IsInjective

LEMMA TokensFollow == TokensInv => TokensInUse
<1> SUFFICES ASSUME TokensInv PROVE TokensInUse
  OBVIOUS
<1>1. DOMAIN queue = 1 .. Len(queue) /\ \A i \in 1 .. Len(queue) : queue[i] \in Requests
  BY DEF TokensInv
<1>2. {r \in Requests : stage[r] = "waiting"} = {queue[i] : i \in DOMAIN queue}
  BY <1>1 DEF TokensInv
<1> QED
  BY <1>2 DEF TokensInv, TokensInUse

\* A request is taken in: it gets a token or is queued.
LEMMA AcceptKeeps ==
  ASSUME TokensInv, NEW r \in Requests, Accept(r) PROVE TokensInv'
<1>0. /\ stage \in [Requests -> {"none", "waiting", "running", "answered", "cut"}]
      /\ queue \in Seq(Requests) /\ stage[r] = "none" /\ r \notin Running
  BY DEF TokensInv, Accept, Running
<1>1. CASE queue = << >> /\ Cardinality(Running) < Tokens
  <2>1. stage' = [stage EXCEPT ![r] = "running"] /\ queue' = queue
    BY <1>1 DEF Accept
  <2>2. Running' = Running \cup {r}
    BY <1>0, <2>1 DEF Running
  <2>3. IsFiniteSet(Running') /\ Cardinality(Running') = Cardinality(Running) + 1
    BY <1>0, <2>2, FS_AddElement DEF TokensInv
  <2>4. Cardinality(Running) \in Nat
    BY FS_CardinalityType DEF TokensInv
  <2>5. Cardinality(Running') <= Tokens
    BY <1>1, <2>3, <2>4, TokensType
  <2>6. stage' \in [Requests -> {"none", "waiting", "running", "answered", "cut"}]
    BY <1>0, <2>1
  <2>7. \A x \in Requests : stage'[x] # "waiting"
    BY <1>0, <1>1, <2>1 DEF TokensInv
  <2> QED
    BY <1>0, <1>1, <2>1, <2>3, <2>5, <2>6, <2>7 DEF TokensInv, IsInjective
<1>2. CASE ~(queue = << >> /\ Cardinality(Running) < Tokens)
  <2>1. stage' = [stage EXCEPT ![r] = "waiting"] /\ queue' = Append(queue, r)
    BY <1>2 DEF Accept
  <2>2. Running' = Running
    BY <1>0, <2>1 DEF Running
  <2>3. Cardinality(Running) \in Nat /\ Cardinality(Running) = Tokens
    BY <1>2, FS_CardinalityType, TokensType DEF TokensInv
  <2>4. /\ queue' \in Seq(Requests) /\ Len(queue') = Len(queue) + 1
        /\ queue'[Len(queue) + 1] = r /\ \A i \in 1 .. Len(queue) : queue'[i] = queue[i]
        /\ Len(queue) \in Nat
    BY <1>0, <2>1
  <2>5. \A i \in 1 .. Len(queue) : queue[i] # r /\ queue[i] \in Requests
    BY <1>0 DEF TokensInv
  <2>6. IsInjective(queue')
    <3> SUFFICES ASSUME NEW i \in 1 .. Len(queue'), NEW j \in 1 .. Len(queue'),
                        queue'[i] = queue'[j]
                 PROVE  i = j
      BY <2>4 DEF IsInjective
    <3>1. CASE i \in 1 .. Len(queue) /\ j \in 1 .. Len(queue)
      BY <1>0, <2>4, <3>1 DEF TokensInv, IsInjective
    <3> QED
      BY <2>4, <2>5, <3>1
  <2>7. \A i \in 1 .. Len(queue') : stage'[queue'[i]] = "waiting"
    BY <1>0, <2>1, <2>4, <2>5 DEF TokensInv
  <2>8. ASSUME NEW x \in Requests, stage'[x] = "waiting"
        PROVE  \E i \in 1 .. Len(queue') : queue'[i] = x
    <3>1. CASE x = r
      BY <2>4, <3>1
    <3>2. CASE x # r
      <4>1. stage[x] = "waiting"
        BY <1>0, <2>1, <2>8, <3>2
      <4>2. PICK i \in 1 .. Len(queue) : queue[i] = x
        BY <4>1 DEF TokensInv
      <4> QED
        BY <2>4, <4>2
    <3> QED
      BY <3>1, <3>2
  <2>9. stage' \in [Requests -> {"none", "waiting", "running", "answered", "cut"}]
    BY <1>0, <2>1
  <2> QED
    BY <2>2, <2>3, <2>4, <2>6, <2>7, <2>8, <2>9 DEF TokensInv
<1> QED
  BY <1>1, <1>2

\* A request is answered: its token is free, or goes to the first in the queue.
LEMMA RespondKeeps ==
  ASSUME TokensInv, NEW r \in Requests, Respond(r) PROVE TokensInv'
<1>0. /\ stage \in [Requests -> {"none", "waiting", "running", "answered", "cut"}]
      /\ queue \in Seq(Requests) /\ stage[r] = "running" /\ r \in Running
      /\ IsFiniteSet(Running) /\ Cardinality(Running) \in Nat /\ Cardinality(Running) <= Tokens
  BY FS_CardinalityType DEF TokensInv, Respond, Running
<1>1. IsFiniteSet(Running \ {r}) /\ Cardinality(Running \ {r}) = Cardinality(Running) - 1
  BY <1>0, FS_RemoveElement
<1>2. CASE queue = << >>
  <2>1. stage' = [stage EXCEPT ![r] = "answered"] /\ queue' = queue
    BY <1>2 DEF Respond
  <2>2. Running' = Running \ {r}
    BY <1>0, <2>1 DEF Running
  <2>3. IsFiniteSet(Running') /\ Cardinality(Running') <= Tokens
    BY <1>0, <1>1, <2>2, TokensType
  <2>4. stage' \in [Requests -> {"none", "waiting", "running", "answered", "cut"}]
    BY <1>0, <2>1
  <2>5. \A x \in Requests : stage'[x] # "waiting"
    BY <1>0, <1>2, <2>1 DEF TokensInv
  <2> QED
    BY <1>0, <1>2, <2>1, <2>3, <2>4, <2>5 DEF TokensInv, IsInjective
<1>3. CASE queue # << >>
  <2> DEFINE h == Head(queue)
  <2>1. /\ h \in Requests /\ h = queue[1] /\ Len(queue) \in Nat /\ Len(queue) >= 1
    BY <1>0, <1>3
  <2>2. stage[h] = "waiting" /\ h # r /\ h \notin Running \ {r}
    BY <1>0, <2>1 DEF TokensInv, Running
  <2>3. /\ stage' = [stage EXCEPT ![r] = "answered", ![h] = "running"]
        /\ queue' = Tail(queue)
    BY <1>3 DEF Respond
  <2> HIDE DEF h
  <2>4. Running' = (Running \ {r}) \cup {h}
    BY <1>0, <2>1, <2>2, <2>3 DEF Running
  <2>5. IsFiniteSet(Running') /\ Cardinality(Running') = (Cardinality(Running) - 1) + 1
    BY <1>1, <2>2, <2>4, FS_AddElement
  <2>6. Cardinality(Running) = Tokens /\ Cardinality(Running') = Tokens
    BY <1>0, <1>3, <2>5 DEF TokensInv
  <2>7. /\ queue' \in Seq(Requests) /\ Len(queue') = Len(queue) - 1
        /\ \A i \in 1 .. Len(queue') : queue'[i] = queue[i + 1]
    BY <1>0, <1>3, <2>1, <2>3
  <2>8. \A i \in 1 .. Len(queue') : i + 1 \in 2 .. Len(queue)
    BY <2>1, <2>7
  <2>9. IsInjective(queue')
    <3> SUFFICES ASSUME NEW i \in 1 .. Len(queue'), NEW j \in 1 .. Len(queue'),
                        queue'[i] = queue'[j]
                 PROVE  i = j
      BY <2>7 DEF IsInjective
    <3>1. queue[i + 1] = queue[j + 1] /\ i + 1 \in 1 .. Len(queue) /\ j + 1 \in 1 .. Len(queue)
      BY <2>1, <2>7, <2>8
    <3>2. i + 1 = j + 1
      BY <1>0, <3>1 DEF TokensInv, IsInjective
    <3> QED
      BY <3>2
  <2>10. ASSUME NEW i \in 1 .. Len(queue') PROVE stage'[queue'[i]] = "waiting"
    <3>1. i + 1 \in 2 .. Len(queue)
      BY <2>8
    <3>2. queue'[i] = queue[i + 1] /\ queue[i + 1] \in Requests /\ stage[queue[i + 1]] = "waiting"
      BY <1>0, <2>1, <2>7, <3>1 DEF TokensInv
    <3>3. queue[i + 1] # h /\ queue[i + 1] # r
      BY <1>0, <2>1, <3>1, <3>2 DEF TokensInv, IsInjective
    <3> QED
      BY <1>0, <2>3, <3>2, <3>3
  <2>11. ASSUME NEW x \in Requests, stage'[x] = "waiting"
         PROVE  \E i \in 1 .. Len(queue') : queue'[i] = x
    <3>1. stage[x] = "waiting" /\ x # h
      BY <1>0, <2>1, <2>2, <2>3, <2>11
    <3>2. PICK j \in 1 .. Len(queue) : queue[j] = x
      BY <3>1 DEF TokensInv
    <3>3. j # 1
      BY <2>1, <3>1, <3>2
    <3>4. j - 1 \in 1 .. Len(queue') /\ (j - 1) + 1 = j
      BY <2>1, <2>7, <3>2, <3>3
    <3> QED
      BY <2>7, <3>2, <3>4
  <2>12. stage' \in [Requests -> {"none", "waiting", "running", "answered", "cut"}]
    BY <1>0, <2>3
  <2> QED
    BY <2>5, <2>6, <2>7, <2>9, <2>10, <2>11, <2>12, TokensType DEF TokensInv
<1> QED
  BY <1>2, <1>3

\* The process dies: nothing runs and nothing waits.
LEMMA CrashKeeps == ASSUME TokensInv, Crash PROVE TokensInv'
<1>1. /\ stage' = [r \in Requests |-> IF InFlight(r) THEN "cut" ELSE stage[r]]
      /\ queue' = << >>
  BY DEF Crash
<1>2. Running' = {} /\ \A r \in Requests : stage'[r] # "waiting"
  BY <1>1 DEF Running, InFlight
<1>3. IsFiniteSet(Running') /\ Cardinality(Running') = 0
  BY <1>2, FS_EmptySet
<1>4. stage' \in [Requests -> {"none", "waiting", "running", "answered", "cut"}]
  BY <1>1 DEF TokensInv
<1> QED
  BY <1>1, <1>2, <1>3, <1>4, TokensType DEF TokensInv, IsInjective

LEMMA TokensInvKept == TokensInv /\ [Next]_vars => TokensInv'
<1> SUFFICES ASSUME TokensInv, [Next]_vars PROVE TokensInv'
  OBVIOUS
<1>1. CASE UNCHANGED <<stage, queue>>
  <2>1. Running' = Running
    BY <1>1 DEF Running
  <2> QED
    BY <1>1, <2>1 DEF TokensInv, IsInjective
<1> QED
  BY <1>1, AcceptKeeps, RespondKeeps, CrashKeeps DEF Next, Invoke, vars

\* No token is lost or given out twice, for any number of requests and tokens
\* and wherever the process dies: at most Tokens requests run, the queue holds
\* each waiting request once, and none waits while a token is free.
THEOREM NoTokenIsLost == Spec => []TokensInUse
<1>1. Spec => []TokensInv
  BY TokensInvAtStart, TokensInvKept, PTL DEF Spec
<1> QED
  BY <1>1, TokensFollow, PTL

\* Every state of the runtime and of the memory behind it has its type.
THEOREM Typing == Spec => []TypeOK
<1>1. Spec => []TokensInv
  BY TokensInvAtStart, TokensInvKept, PTL DEF Spec
<1>2. MemoryInv /\ TokensInv => TypeOK
  BY DEF MemoryInv, MemoryTyped, TokensInv, TypeOK
<1> QED
  BY <1>1, <1>2, MemoryInvAlways, PTL
-----------------------------------------------------------------------------
(***************************************************************************)
(* The events implement OutcomeJournal.  A recording takes effect with the *)
(* first create that the service applies; a run is given its window when   *)
(* its last page is served, or, listed from the newest, with its first.     *)
(***************************************************************************)
CallInv ==
  /\ \A c \in Recorders : Contains(events, c) => pc[c] # "idle"
  /\ \A d \in Planners : pc[d] \in {"idle", "list"} => given[d] = Nothing
  /\ \A c \in Calls : stage[c] = "answered" => pc[c] \in {"ok", "failed"}

JournalInv == MemoryInv /\ TokensInv /\ CallInv

\* An event is created by its own call only, a run is given something when its
\* listing ends, and a request is answered when its function has ended.
LEMMA CallInvKept == JournalInv /\ [Next]_vars => CallInv'
<1> SUFFICES ASSUME JournalInv, [Next]_vars PROVE CallInv'
  OBVIOUS
<1>0. /\ MemoryTyped /\ MemoryTypeOK /\ CallInv
      /\ stage \in [Requests -> {"none", "waiting", "running", "answered", "cut"}]
  BY DEF JournalInv, MemoryInv, MemoryTyped, TokensInv
<1> USE RolesDisjoint DEF Move, Calls
<1>1. ASSUME NEW c \in Calls, Invoke(c) PROVE CallInv'
  <2>1. /\ \A d \in Calls : d # c => pc'[d] = pc[d]
        /\ stage' = stage
    BY <1>0, <1>1 DEF Invoke, Begin, BeginRecording, BeginRun, Record, Create,
       CreateUnanswered, Run, PageAndMore, PageAndDone, ListRaises, RunReturns, RunRaises,
       MemoryTypeOK
  <2>2. stage[c] # "answered" \/ pc'[c] \in {"ok", "failed"}
    BY <1>0, <1>1 DEF Invoke, Begin, BeginRecording, BeginRun, Record, Create,
       CreateUnanswered, Run, PageAndMore, PageAndDone, ListRaises, RunReturns, RunRaises,
       MemoryTypeOK, CallInv
  <2>3. pc'[c] # "idle"
    BY <1>0, <1>1 DEF Invoke, Begin, BeginRecording, BeginRun, Record, Create,
       CreateUnanswered, Run, PageAndMore, PageAndDone, ListRaises, RunReturns, RunRaises,
       MemoryTypeOK
  <2>4. ASSUME NEW d \in Recorders, Contains(events', d) PROVE pc'[d] # "idle"
    <3>1. CASE d = c
      BY <2>3, <3>1
    <3>2. CASE d # c /\ Contains(events, d)
      BY <1>0, <2>1, <3>2 DEF CallInv
    <3>3. CASE d # c /\ ~Contains(events, d)
      <4>1. c \in Recorders /\ events' = Append(events, c)
        BY <1>1, <2>4, <3>3 DEF Invoke, Begin, BeginRecording, BeginRun, Record, Create,
           CreateUnanswered, Run, PageAndMore, PageAndDone, ListRaises, RunReturns, RunRaises,
           AfterCreate, Created
      <4>2. events \in Seq(Outcomes) /\ c \in Outcomes
        BY <1>0, <4>1 DEF MemoryTypeOK, Outcomes
      <4>3. PICK i \in 1 .. Len(events') : events'[i] = d
        BY <2>4 DEF Contains
      <4>4. i \in 1 .. Len(events) /\ events[i] = d
        BY <3>3, <4>1, <4>2, <4>3
      <4> QED
        BY <3>3, <4>4 DEF Contains
    <3> QED
      BY <3>1, <3>2, <3>3
  <2>5. ASSUME NEW d \in Planners, pc'[d] \in {"idle", "list"} PROVE given'[d] = Nothing
    BY <1>0, <1>1, <2>1, <2>5
    DEF Invoke, Begin, BeginRecording, BeginRun, Record, Create, CreateUnanswered, Run,
        PageAndMore, PageAndDone, ListRaises, RunReturns, RunRaises, MemoryTypeOK, CallInv
  <2> QED
    BY <1>0, <2>1, <2>2, <2>4, <2>5 DEF CallInv, Contains
<1>2. ASSUME NEW r \in Requests, Accept(r) PROVE CallInv'
  BY <1>0, <1>2 DEF Accept, CallInv, memory, Contains, Requests
<1>3. ASSUME NEW r \in Requests, Respond(r) PROVE CallInv'
  <2>1. UNCHANGED memory /\ Finished(r)
        /\ \A c \in Calls : c # r => stage'[c] = "running" \/ stage'[c] = stage[c]
    BY <1>0, <1>3 DEF Respond, Requests
  <2>2. r \in Calls => pc[r] \in {"ok", "failed"}
    BY <2>1, PingsType DEF Finished
  <2> QED
    BY <1>0, <2>1, <2>2 DEF CallInv, memory, Contains
<1>4. CASE Crash
  <2>1. /\ pc' = [c \in Calls |-> IF pc[c] = "idle" \/ c \in Over THEN pc[c] ELSE "killed"]
        /\ UNCHANGED <<events, given>>
        /\ stage' = [r \in Requests |-> IF InFlight(r) THEN "cut" ELSE stage[r]]
    BY <1>4 DEF Crash, Kill
  <2> QED
    BY <1>0, <2>1 DEF CallInv, Contains, Over, Requests
<1>5. CASE UNCHANGED vars
  BY <1>0, <1>5 DEF vars, memory, CallInv, Contains
<1> QED
  BY <1>1, <1>2, <1>3, <1>4, <1>5 DEF Next

\* What the service lists to a run, oldest first: all events, or those that were
\* there when its first page was served.
Served(d) == IF order = "oldest" THEN events ELSE SubSeq(events, 1, FirstSeen(d))

\* The first items of the listing, as many as the window has room for, are the
\* part of the served events that OutcomeJournal lets a run see.
LEMMA WindowIsListed ==
  ASSUME MemoryTypeOK, NEW d \in Planners, FirstSeen(d) \in 0 .. Len(events),
         NEW got \in Seq(Outcomes),
         Len(got) = IF Window < Total(d) THEN Window ELSE Total(d),
         \A i \in 1 .. Len(got) : got[i] = Item(d, i)
  PROVE  OldestFirst(got) = Listed(Served(d), order)
<1>0. events \in Seq(Outcomes) /\ order \in {"newest", "oldest"} /\ Window \in Nat
  BY BoundsType DEF MemoryTypeOK
<1>1. CASE order = "oldest"
  <2>1. /\ First(events, Window) \in Seq(Outcomes)
        /\ Len(First(events, Window)) = IF Window < Len(events) THEN Window ELSE Len(events)
        /\ \A i \in 1 .. Len(First(events, Window)) : First(events, Window)[i] = events[i]
    BY <1>0, FirstIs
  <2>2. Len(got) = Len(First(events, Window))
        /\ \A i \in 1 .. Len(got) : got[i] = First(events, Window)[i]
    BY <1>1, <2>1 DEF Total, Item
  <2>3. got = First(events, Window)
    BY <2>1, <2>2, SeqEqual
  <2> QED
    BY <1>1, <2>3 DEF OldestFirst, Listed, Served
<1>2. CASE order = "newest"
  <2> DEFINE sub == SubSeq(events, 1, FirstSeen(d))
             back == Reverse(sub)
  <2>1. /\ sub \in Seq(Outcomes) /\ Len(sub) = FirstSeen(d)
        /\ \A i \in 1 .. FirstSeen(d) : sub[i] = events[i]
    BY <1>0
  <2> HIDE DEF sub
  <2>2. /\ back \in Seq(Outcomes) /\ Len(back) = FirstSeen(d)
        /\ \A i \in 1 .. FirstSeen(d) : back[i] = events[(FirstSeen(d) - i) + 1]
    <3>1. /\ back \in Seq(Outcomes) /\ Len(back) = Len(sub)
          /\ \A i \in 1 .. Len(sub) : back[i] = sub[(Len(sub) - i) + 1]
      BY <2>1, ReverseIs
    <3>2. \A i \in 1 .. FirstSeen(d) : (FirstSeen(d) - i) + 1 \in 1 .. FirstSeen(d)
      OBVIOUS
    <3> QED
      BY <2>1, <3>1, <3>2
  <2> HIDE DEF back
  <2>3. /\ First(back, Window) \in Seq(Outcomes)
        /\ Len(First(back, Window)) = IF Window < Len(back) THEN Window ELSE Len(back)
        /\ \A i \in 1 .. Len(First(back, Window)) : First(back, Window)[i] = back[i]
    BY <1>0, <2>2, FirstIs
  <2>4. Total(d) = FirstSeen(d) /\ \A i : Item(d, i) = events[(FirstSeen(d) - i) + 1]
    BY <1>2 DEF Total, Item
  <2>5. Len(got) = Len(First(back, Window)) /\ Len(got) <= FirstSeen(d) /\ Len(got) \in Nat
    BY <1>0, <2>2, <2>3, <2>4
  <2>6. ASSUME NEW i \in 1 .. Len(got) PROVE got[i] = First(back, Window)[i]
    <3>1. i \in 1 .. FirstSeen(d) /\ got[i] = Item(d, i)
      BY <2>5
    <3>2. got[i] = events[(FirstSeen(d) - i) + 1]
      BY <2>4, <3>1
    <3>3. First(back, Window)[i] = back[i]
      BY <2>3, <2>5
    <3> QED
      BY <2>2, <3>1, <3>2, <3>3
  <2>7. got = First(back, Window)
    BY <2>3, <2>5, <2>6, SeqEqual
  <2> QED
    BY <1>2, <2>7 DEF OldestFirst, Listed, Served, back, sub
<1> QED
  BY <1>0, <1>1, <1>2

\* What the last page makes of the listing is what OutcomeJournal lets it see.
LEMMA LastPage ==
  ASSUME MemoryInv, NEW d \in Planners, NEW n \in Nat, PageAndDone(d, n)
  PROVE  /\ given'[d] \in Seq(Outcomes) /\ given'[d] \notin {Nothing, Unavailable}
         /\ OldestFirst(given'[d]) = Listed(Served(d), order)
<1> DEFINE all == pages[d] \o First(Rest(d), n)
           got == First(all, Window)
<1>0. MemoryTypeOK /\ n <= Len(Rest(d)) /\ Window \in Nat /\ given \in [Planners ->
        Seq(Outcomes) \cup {Nothing, Unavailable}]
  BY BoundsType DEF MemoryInv, MemoryTyped, MemoryTypeOK, PageAndDone
<1>1. /\ all \in Seq(Outcomes) /\ Len(all) = Len(pages[d]) + n /\ Len(all) <= Total(d)
      /\ Total(d) \in Nat /\ FirstSeen(d) \in 0 .. Len(events)
      /\ Len(Rest(d)) = Total(d) - Len(pages[d]) /\ Len(pages[d]) \in Nat
      /\ \A i \in 1 .. Len(all) : all[i] = Item(d, i)
  BY <1>0, ListedSoFar
<1>2. given'[d] = got /\ (n = Len(Rest(d)) \/ Len(pages[d]) + n >= Window)
  BY <1>0 DEF PageAndDone
<1> HIDE DEF all
<1>3. /\ got \in Seq(Outcomes) /\ Len(got) = IF Window < Len(all) THEN Window ELSE Len(all)
      /\ \A i \in 1 .. Len(got) : got[i] = all[i]
  BY <1>0, <1>1, FirstIs
<1> HIDE DEF got
<1>4. Len(got) = IF Window < Total(d) THEN Window ELSE Total(d)
  <2>1. CASE n = Len(Rest(d))
    <3>1. Len(all) = Total(d)
      BY <1>1, <2>1
    <3> QED
      BY <1>3, <3>1
  <2>2. CASE Len(pages[d]) + n >= Window
    <3>1. Len(all) >= Window /\ Len(all) \in Nat
      BY <1>1, <2>2
    <3> QED
      BY <1>0, <1>1, <1>3, <3>1
  <2> QED
    BY <1>2, <2>1, <2>2
<1>5. \A i \in 1 .. Len(got) : got[i] = Item(d, i)
  BY <1>0, <1>1, <1>3
<1>6. OldestFirst(got) = Listed(Served(d), order)
  BY <1>0, <1>1, <1>3, <1>4, <1>5, WindowIsListed
<1>7. got \notin {Nothing, Unavailable}
  <2>1. ASSUME NEW e, got = <<e>> PROVE e \in Outcomes
    <3>1. Len(got) = 1 /\ got[1] = e
      BY <2>1
    <3> QED
      BY <1>3, <3>1
  <2> QED
    BY <2>1, ErrorsAreNoOutcomes DEF Nothing, Unavailable
<1> QED
  BY <1>2, <1>3, <1>6, <1>7

\* Where a call stands in the journal, once the answer to its request is out.
Stand(c) == IF stage[c] = "answered" /\ Phase(c) = "effective" THEN "done" ELSE Phase(c)

\* One more event behind the first m leaves these as they were.
LEMMA FrontStays ==
  ASSUME NEW S, NEW doc \in Seq(S), NEW e \in S, NEW m \in 0 .. Len(doc)
  PROVE  SubSeq(Append(doc, e), 1, m) = SubSeq(doc, 1, m)
<1> DEFINE long == Append(doc, e)
<1>1. long \in Seq(S) /\ Len(long) = Len(doc) + 1 /\ \A i \in 1 .. Len(doc) : long[i] = doc[i]
  OBVIOUS
<1> HIDE DEF long
<1>2. /\ SubSeq(long, 1, m) \in Seq(S) /\ Len(SubSeq(long, 1, m)) = m
      /\ \A i \in 1 .. m : SubSeq(long, 1, m)[i] = long[i]
  BY <1>1
<1>3. /\ SubSeq(doc, 1, m) \in Seq(S) /\ Len(SubSeq(doc, 1, m)) = m
      /\ \A i \in 1 .. m : SubSeq(doc, 1, m)[i] = doc[i]
  OBVIOUS
<1>4. SubSeq(long, 1, m) = SubSeq(doc, 1, m)
  BY <1>1, <1>2, <1>3, SeqEqual
<1> QED
  BY <1>4 DEF long

\* A call that a step does not advance stands where it stood, and has seen what
\* it had seen, although the events may have got one more.
LEMMA OthersStand ==
  ASSUME MemoryInv, NEW c \in Calls, NEW d \in Calls, d # c, order' = order,
         pc'[d] = pc[d], d \in Planners => given'[d] = given[d] /\ upto'[d] = upto[d],
         \/ events' = events
         \/ c \in Recorders /\ events' = Append(events, c)
  PROVE  Phase(d)' = Phase(d) /\ Seen(d)' = Seen(d)
<1>0. events \in Seq(Outcomes) /\ (d \in Planners => Bounded(d) /\ upto[d] \in Nat \cup {-1})
  BY DEF MemoryInv, MemoryTyped, MemoryTypeOK, PlannerOK
<1> USE RolesDisjoint DEF Calls
<1>1. CASE d \in Recorders
  <2>1. Created(d)' = Created(d)
    <3>1. CASE events' = events
      BY <3>1 DEF Created, Contains
    <3>2. CASE c \in Recorders /\ events' = Append(events, c)
      <4>1. c \in Outcomes
        BY <3>2 DEF Outcomes
      <4>2. /\ Len(events') = Len(events) + 1 /\ events'[Len(events) + 1] = c
            /\ \A i \in 1 .. Len(events) : events'[i] = events[i]
        BY <1>0, <3>2, <4>1
      <4>3. Contains(events', d) <=> Contains(events, d)
        BY <1>0, <4>2 DEF Contains
      <4> QED
        BY <4>3 DEF Created, Contains
    <3> QED
      BY <3>1, <3>2
  <2>2. (Phase(d)' = Phase(d))
    BY <1>1, <2>1 DEF Phase
  <2> QED
    BY <1>1, <2>2 DEF Seen
<1>2. CASE d \in Planners
  <2>1. Informed(d)' = Informed(d) /\ Decided(d)' = Decided(d) /\ given'[d] = given[d]
    BY <1>2 DEF Informed, Decided
  <2>2. Phase(d)' = Phase(d)
    BY <1>2, <2>1 DEF Phase
  <2>3. Decided(d) => SubSeq(events', 1, upto'[d]) = SubSeq(events, 1, upto[d])
    <3>1. CASE events' = events
      BY <1>2, <3>1
    <3>2. CASE Decided(d) /\ c \in Recorders /\ events' = Append(events, c)
      <4>1. c \in Outcomes /\ upto[d] \in 0 .. Len(events)
        BY <1>0, <1>2, <3>2 DEF Outcomes, Decided, Bounded
      <4> QED
        BY <1>0, <1>2, <3>2, <4>1, FrontStays
    <3> QED
      BY <3>1, <3>2
  <2>4. Seen(d)' = Seen(d)
    BY <1>2, <2>1, <2>3 DEF Seen, OldestFirst
  <2> QED
    BY <2>2, <2>4
<1> QED
  BY <1>1, <1>2

\* Each step of a call is the step of the journal that it stands for, or none.
LEMMA CallImplementsJournal ==
  ASSUME JournalInv, NEW c \in Calls, Invoke(c)
  PROVE  [Promise!Next]_(Promise!vars)
<1>0. /\ MemoryInv /\ MemoryTyped /\ MemoryTypeOK /\ CallInv /\ events \in Seq(Outcomes)
      /\ order' = order /\ stage' = stage
  BY DEF JournalInv, MemoryInv, MemoryTyped, MemoryTypeOK, Invoke, Begin, BeginRecording,
         BeginRun, Record, Create, CreateUnanswered, Run, PageAndMore, PageAndDone,
         ListRaises, RunReturns, RunRaises
<1> USE RolesDisjoint DEF Calls, Move
<1>1. stage[c] # "answered"
  BY <1>0 DEF CallInv, MemoryTypeOK, Invoke, Begin, BeginRecording, BeginRun, Record, Create,
     CreateUnanswered, Run, PageAndMore, PageAndDone, ListRaises, RunReturns, RunRaises
<1>2. Stand(c) = Phase(c) /\ Stand(c)' = Phase(c)'
  BY <1>0, <1>1 DEF Stand
<1>3. ASSUME NEW d \in Calls, d # c PROVE Stand(d)' = Stand(d) /\ Seen(d)' = Seen(d)
  <2>1. /\ pc'[d] = pc[d] /\ (d \in Planners => given'[d] = given[d] /\ upto'[d] = upto[d])
        /\ (events' = events \/ (c \in Recorders /\ events' = Append(events, c)))
    BY <1>0, <1>3 DEF MemoryTypeOK, Invoke, Begin, BeginRecording, BeginRun, Record, Create,
       CreateUnanswered, Run, PageAndMore, PageAndDone, ListRaises, RunReturns, RunRaises,
       AfterCreate
  <2>2. Phase(d)' = Phase(d) /\ Seen(d)' = Seen(d)
    BY <1>0, <1>3, <2>1, OthersStand
  <2> QED
    BY <1>0, <2>2 DEF Stand
<1> USE DEF Promise!Move, Promise!Calls
\* What a step of the call itself may be for the journal.
<1>4. ASSUME UNCHANGED events, Phase(c)' = Phase(c), Seen(c)' = Seen(c)
      PROVE  UNCHANGED Promise!vars
  BY <1>0, <1>2, <1>3, <1>4 DEF Promise!vars, Stand
<1>5. ASSUME UNCHANGED events, Phase(c) \in {"open", "effective"}, Phase(c)' = "refused",
             Seen(c)' = Seen(c)
      PROVE  Promise!Next
  <2>1. Promise!Fail({c})
    BY <1>0, <1>2, <1>3, <1>5 DEF Promise!Fail, Stand
  <2> QED
    BY <1>0, <2>1 DEF Promise!Next
<1>6. ASSUME UNCHANGED events, c \in Planners, Phase(c) = "open", Phase(c)' = "effective",
             Seen(c)' = Listed(events, order)
      PROVE  Promise!Next
  <2>1. Promise!Look(c)
    BY <1>0, <1>2, <1>3, <1>6 DEF Promise!Look, Stand
  <2> QED
    BY <1>0, <2>1 DEF Promise!Next
<1>7. ASSUME c \in Recorders, events' = Append(events, c), Phase(c) = "open",
             Phase(c)' \in {"effective", "refused"}
      PROVE  Promise!Next
  <2>1. Promise!Commit(c) \/ Promise!CommitUnheard(c)
    BY <1>0, <1>2, <1>3, <1>7 DEF Promise!Commit, Promise!CommitUnheard, Stand, Seen
  <2> QED
    BY <1>0, <2>1 DEF Promise!Next
<1>8. CASE Begin(c)
  <2>1. /\ pc[c] = "idle" /\ pc'[c] \in {"create", "list"}
        /\ UNCHANGED <<events, given, upto>>
    BY <1>0, <1>8 DEF Begin, BeginRecording, BeginRun, MemoryTypeOK
  <2>2. Phase(c) = "idle" /\ Seen(c)' = Seen(c)
    BY <1>0, <2>1 DEF Phase, Seen, Informed, Decided, OldestFirst
  <2>3. Phase(c)' = "open"
    <3>1. CASE c \in Recorders
      <4>1. ~Contains(events, c)
        BY <1>0, <2>1, <3>1 DEF CallInv
      <4> QED
        BY <2>1, <3>1, <4>1 DEF Phase, Created, Contains
    <3>2. CASE c \in Planners
      <4>1. given[c] = Nothing /\ upto[c] = -1
        BY <1>0, <2>1, <3>2 DEF CallInv, MemoryInv, PlannerOK, Bounded
      <4>2. Nothing # Unavailable
        <5>1. Nothing[1] # Unavailable[1]
          BY DEF Nothing, Unavailable
        <5> QED
          BY <5>1
      <4> QED
        BY <2>1, <3>2, <4>1, <4>2 DEF Phase, Informed, Decided
    <3> QED
      BY <3>1, <3>2
  <2>4. Promise!Open(c)
    BY <1>0, <1>2, <1>3, <2>1, <2>2, <2>3 DEF Promise!Open, Stand
  <2> QED
    BY <1>0, <2>4 DEF Promise!Next
<1>9. CASE c \in Recorders /\ Record(c)
  <2>1. /\ pc[c] = "create" /\ pc'[c] \in {"ok", "create", "failed"}
        /\ (events' = events \/ events' = AfterCreate(c))
        /\ (pc'[c] = "ok" => events' = AfterCreate(c))
    BY <1>0, <1>9 DEF Record, Create, CreateUnanswered, MemoryTypeOK
  <2>2. Phase(c) = (IF Created(c) THEN "effective" ELSE "open") /\ Seen(c)' = Seen(c)
    BY <1>9, <2>1 DEF Phase, Seen
  <2>3. CASE events' = events
    <3>1. Created(c)' = Created(c)
      BY <2>3 DEF Created, Contains
    <3>2. CASE pc'[c] = "failed"
      BY <1>5, <2>2, <2>3, <3>2 DEF Phase
    <3>3. CASE pc'[c] # "failed"
      <4>1. Phase(c)' = IF Created(c) THEN "effective" ELSE "open"
        BY <1>9, <2>1, <3>1, <3>3 DEF Phase
      <4> QED
        BY <1>4, <2>2, <2>3, <4>1
    <3> QED
      BY <3>2, <3>3
  <2>4. CASE events' # events
    <3>1. ~Created(c) /\ events' = Append(events, c)
      BY <2>1, <2>4 DEF AfterCreate
    <3>2. Created(c)'
      <4>1. c \in Outcomes
        BY <1>9 DEF Outcomes
      <4>2. Contains(events', c)
        BY <1>0, <3>1, <4>1 DEF Contains
      <4> QED
        BY <4>2 DEF Created, Contains
    <3>3. Phase(c)' \in {"effective", "refused"}
      BY <1>9, <2>1, <3>2 DEF Phase
    <3> QED
      BY <1>7, <1>9, <2>2, <3>1, <3>3
  <2> QED
    BY <2>3, <2>4
<1>10. ASSUME c \in Planners, NEW n \in PageLengths, PageAndMore(c, n)
       PROVE  [Promise!Next]_(Promise!vars)
  <2>1. /\ pc[c] = "list" /\ pc'[c] = "list" /\ UNCHANGED <<events, given>>
        /\ upto'[c] = FirstSeen(c) /\ given[c] = Nothing
        /\ upto[c] \in Nat \cup {-1} /\ Len(events) \in Nat
    BY <1>0, <1>10 DEF PageAndMore, MemoryTypeOK, CallInv
  <2>2. CASE order = "oldest" \/ upto[c] # -1
    <3>1. Decided(c)' = Decided(c) /\ (Decided(c) => upto'[c] = upto[c])
      BY <1>0, <2>1, <2>2 DEF Decided, FirstSeen
    <3>2. Phase(c)' = Phase(c) /\ Seen(c)' = Seen(c)
      BY <1>0, <1>10, <2>1, <3>1 DEF Phase, Seen, Informed, OldestFirst
    <3> QED
      BY <1>4, <2>1, <3>2
  <2>3. CASE order = "newest" /\ upto[c] = -1
    <3>1. upto'[c] = Len(events) /\ ~Decided(c) /\ Decided(c)' /\ ~Informed(c) /\ ~Informed(c)'
      BY <1>0, <2>1, <2>3 DEF Decided, FirstSeen, Informed
    <3>2. SubSeq(events, 1, Len(events)) = events
      BY <1>0
    <3>3. Seen(c)' = Listed(events, order)
      BY <1>0, <1>10, <2>1, <3>1, <3>2 DEF Seen
    <3>4. Phase(c) = "open" /\ Phase(c)' = "effective"
      <4>1. given[c] # Unavailable
        <5>1. Nothing[1] # Unavailable[1]
          BY DEF Nothing, Unavailable
        <5> QED
          BY <2>1, <5>1
      <4> QED
        BY <1>10, <2>1, <3>1, <4>1 DEF Phase
    <3> QED
      BY <1>6, <1>10, <2>1, <3>3, <3>4
  <2> QED
    BY <1>0, <2>2, <2>3 DEF MemoryTypeOK
<1>11. ASSUME c \in Planners, NEW n \in PageLengths \cup {0}, PageAndDone(c, n)
       PROVE  [Promise!Next]_(Promise!vars)
  <2>1. /\ pc[c] = "list" /\ pc'[c] = "agents" /\ UNCHANGED events
        /\ upto'[c] = FirstSeen(c) /\ given[c] = Nothing /\ n \in Nat
        /\ upto[c] \in Nat \cup {-1} /\ Len(events) \in Nat
    BY <1>0, <1>11 DEF PageAndDone, MemoryTypeOK, CallInv, PageLengths
  <2>2. given'[c] \notin {Nothing, Unavailable} /\ OldestFirst(given'[c]) = Listed(Served(c), order)
    BY <1>0, <1>11, <2>1, LastPage
  <2>3. ~Informed(c) /\ Informed(c)' /\ given[c] # Unavailable
    <3>1. Nothing[1] # Unavailable[1]
      BY DEF Nothing, Unavailable
    <3> QED
      BY <2>1, <2>2, <3>1 DEF Informed
  <2>4. Phase(c)' = "effective" /\ Seen(c)' = Listed(Served(c), order)
    BY <1>0, <1>11, <2>1, <2>2, <2>3 DEF Phase, Seen, OldestFirst
  <2>5. CASE order = "oldest" \/ upto[c] = -1
    <3>1. SubSeq(events, 1, Len(events)) = events
      BY <1>0
    <3>2. Served(c) = events
      BY <2>5, <3>1 DEF Served, FirstSeen
    <3>3. Phase(c) = "open"
      BY <1>11, <2>1, <2>3, <2>5 DEF Phase, Decided
    <3> QED
      BY <1>6, <1>11, <2>1, <2>4, <3>2, <3>3
  <2>6. CASE order = "newest" /\ upto[c] # -1
    <3>1. Decided(c) /\ Served(c) = SubSeq(events, 1, upto[c])
      BY <2>6 DEF Decided, Served, FirstSeen
    <3>2. Phase(c) = "effective" /\ Seen(c) = Listed(Served(c), order)
      BY <1>11, <2>1, <2>3, <3>1 DEF Phase, Seen
    <3> QED
      BY <1>4, <2>1, <2>4, <3>2
  <2> QED
    BY <1>0, <2>5, <2>6 DEF MemoryTypeOK
<1>12. CASE c \in Planners /\ ListRaises(c)
  <2>1. /\ pc[c] = "list" /\ pc'[c] = "agents" /\ UNCHANGED <<events, upto>>
        /\ given[c] = Nothing /\ given'[c] = Unavailable
    BY <1>0, <1>12 DEF ListRaises, MemoryTypeOK, CallInv
  <2>2. Nothing # Unavailable
    <3>1. Nothing[1] # Unavailable[1]
      BY DEF Nothing, Unavailable
    <3> QED
      BY <3>1
  <2>3. /\ Phase(c) \in {"open", "effective"} /\ Phase(c)' = "refused" /\ Seen(c)' = Seen(c)
    BY <1>0, <1>12, <2>1, <2>2 DEF Phase, Seen, Informed, Decided
  <2> QED
    BY <1>5, <2>1, <2>3
<1>13. CASE c \in Planners /\ (RunReturns(c) \/ RunRaises(c))
  <2>1. /\ pc[c] = "agents" /\ pc'[c] \in {"ok", "failed"} /\ UNCHANGED <<events, upto, given>>
    BY <1>0, <1>13 DEF RunReturns, RunRaises, MemoryTypeOK
  <2>2. Seen(c)' = Seen(c)
    BY <1>0, <1>13, <2>1 DEF Seen, Informed, Decided, OldestFirst
  <2>3. \/ Phase(c)' = Phase(c)
        \/ Phase(c) \in {"open", "effective"} /\ Phase(c)' = "refused"
    BY <1>0, <1>13, <2>1 DEF Phase, Informed, Decided
  <2> QED
    BY <1>4, <1>5, <2>1, <2>2, <2>3
<1> QED
  BY <1>8, <1>9, <1>10, <1>11, <1>12, <1>13 DEF Invoke, Run

\* A request that is answered ends its call for the journal; to hand its token
\* on, or to accept another, is nothing to the journal.
LEMMA LoopImplementsJournal ==
  ASSUME JournalInv, NEW r \in Requests, Accept(r) \/ Respond(r)
  PROVE  [Promise!Next]_(Promise!vars)
<1>0. /\ TokensInv /\ stage \in [Requests -> {"none", "waiting", "running", "answered", "cut"}]
      /\ UNCHANGED memory
  BY DEF JournalInv, TokensInv, Accept, Respond
<1>1. \A c \in Calls : Phase(c)' = Phase(c) /\ Seen(c)' = Seen(c)
  BY <1>0 DEF memory, Phase, Seen, Created, Contains, Informed, Decided, OldestFirst
<1> USE DEF Requests, Calls, Promise!Calls
<1>2. \A c \in Calls : c # r => (stage'[c] = "answered" <=> stage[c] = "answered")
  <2>1. CASE Accept(r)
    BY <1>0, <2>1 DEF Accept
  <2>2. CASE Respond(r) /\ queue = << >>
    BY <1>0, <2>2 DEF Respond
  <2>3. CASE Respond(r) /\ queue # << >>
    <3>1. Head(queue) = queue[1] /\ 1 \in 1 .. Len(queue) /\ stage[Head(queue)] = "waiting"
          /\ Head(queue) \in Requests
      BY <1>0, <2>3 DEF TokensInv
    <3>2. stage' = [stage EXCEPT ![r] = "answered", ![Head(queue)] = "running"]
      BY <2>3 DEF Respond
    <3> QED
      BY <1>0, <3>1, <3>2
  <2> QED
    BY <2>1, <2>2, <2>3
<1>3. \A c \in Calls : c # r => Stand(c)' = Stand(c)
  BY <1>1, <1>2 DEF Stand
<1>4. CASE r \in Calls /\ Respond(r) /\ Phase(r) = "effective"
  <2>1. stage[r] = "running" /\ stage'[r] = "answered"
    <3>1. CASE queue = << >>
      BY <1>0, <1>4, <3>1 DEF Respond
    <3>2. CASE queue # << >>
      <4>1. Head(queue) = queue[1] /\ 1 \in 1 .. Len(queue) /\ stage[Head(queue)] = "waiting"
        BY <1>0, <3>2 DEF TokensInv
      <4> QED
        BY <1>0, <1>4, <3>2, <4>1 DEF Respond
    <3> QED
      BY <3>1, <3>2
  <2>2. Stand(r) = "effective" /\ Stand(r)' = "done"
    BY <1>1, <1>4, <2>1 DEF Stand
  <2>3. Promise!Answer(r)
    BY <1>0, <1>1, <1>3, <1>4, <2>2 DEF memory, Promise!Answer, Promise!Move, Stand
  <2> QED
    BY <1>0, <1>4, <2>3 DEF memory, Promise!Next
<1>5. CASE ~(r \in Calls /\ Respond(r) /\ Phase(r) = "effective")
  <2>1. r \in Calls => Stand(r)' = Stand(r)
    <3>1. CASE Accept(r)
      BY <1>0, <1>1, <3>1 DEF Accept, Stand
    <3>2. CASE Phase(r) # "effective"
      BY <1>1, <3>2 DEF Stand
    <3> QED
      BY <1>5, <3>1, <3>2
  <2>2. UNCHANGED Promise!vars
    BY <1>0, <1>1, <1>3, <2>1 DEF memory, Promise!vars, Stand
  <2> QED
    BY <2>2
<1> QED
  BY <1>4, <1>5

\* A process that dies fails the calls in it, whatever they have done so far.
LEMMA CrashImplementsJournal ==
  ASSUME JournalInv, Crash PROVE Promise!Next
<1> PICK S : S = {c \in Calls : Stand(c) \in {"open", "effective"} /\ Phase(c)' = "refused"}
  OBVIOUS
<1>0. /\ MemoryTypeOK /\ CallInv
      /\ stage \in [Requests -> {"none", "waiting", "running", "answered", "cut"}]
      /\ pc' = [c \in Calls |-> IF pc[c] = "idle" \/ c \in Over THEN pc[c] ELSE "killed"]
      /\ UNCHANGED <<order, events, upto, given>>
      /\ stage' = [r \in Requests |-> IF InFlight(r) THEN "cut" ELSE stage[r]]
  BY DEF JournalInv, MemoryInv, MemoryTyped, TokensInv, Crash, Kill
<1>1. \A c \in Calls : Seen(c)' = Seen(c)
  BY <1>0 DEF Seen, Informed, Decided, OldestFirst
<1>2. \A c \in Calls : stage'[c] = "answered" <=> stage[c] = "answered"
  BY <1>0 DEF InFlight, Requests
<1>3. ASSUME NEW c \in Calls
      PROVE  IF c \in S THEN Stand(c)' = "refused" ELSE Stand(c)' = Stand(c)
  <2>1. CASE pc[c] = "idle" \/ c \in Over
    <3>1. Phase(c)' = Phase(c)
      BY <1>0, <2>1 DEF Phase, Created, Contains, Informed, Decided
    <3>2. c \notin S
      BY <3>1 DEF Stand
    <3> QED
      BY <1>2, <3>1, <3>2 DEF Stand
  <2>2. CASE ~(pc[c] = "idle" \/ c \in Over)
    <3>1. stage[c] # "answered" /\ pc'[c] = "killed"
      BY <1>0, <2>2 DEF CallInv, Over
    <3>2. Phase(c)' = "refused" /\ Stand(c)' = "refused" /\ Stand(c) = Phase(c)
      BY <3>1 DEF Phase, Stand
    <3>3. Phase(c) \in {"open", "effective", "refused"}
      BY <2>2 DEF Phase
    <3> QED
      BY <3>2, <3>3
  <2> QED
    BY <2>1, <2>2
<1>4. S \in SUBSET Calls /\ \A c \in S : Stand(c) \in {"open", "effective"}
  OBVIOUS
<1>5. Promise!Fail(S)
  BY <1>0, <1>1, <1>3, <1>4 DEF Promise!Fail, Promise!Calls, Calls, Stand
<1> QED
  BY <1>0, <1>4, <1>5 DEF Promise!Next, Promise!Calls, Calls

\* However requests overlap, are resent, fail or die with the process, for any
\* window, past and number of tokens, attempts and calls, and whichever end of
\* the events the service lists first: the events are the journal of
\* OutcomeJournal, and a run is given one window of it as it was at one moment.
THEOREM EventsAreJournal == Spec => ImplementsJournal
<1>1. Init => JournalInv /\ Promise!Init
  <2> SUFFICES ASSUME Init PROVE JournalInv /\ Promise!Init
    OBVIOUS
  <2>1. MemoryInv /\ TokensInv /\ MemoryInit
    BY MemoryInvAtStart, TokensInvAtStart DEF Init
  <2>2. \A c \in Recorders : ~Contains(events, c)
    <3>1. events = Past /\ Past \in Seq(Range(Past)) /\ Range(Past) \cap Recorders = {}
      BY <2>1, PastType DEF MemoryInit
    <3> QED
      BY <3>1 DEF Contains
  <2>3. CallInv
    BY <2>1, <2>2 DEF Init, MemoryInit, CallInv, Requests
  <2>4. \A c \in Calls : Phase(c) = "idle" /\ Stand(c) = "idle" /\ Seen(c) = << >>
    BY <2>1, RolesDisjoint DEF MemoryInit, Phase, Stand, Seen, Informed, Decided, Calls
  <2>5. Promise!Init
    BY <2>1, <2>4 DEF MemoryInit, Promise!Init, Promise!Calls, Calls, Stand
  <2> QED
    BY <2>1, <2>3, <2>5 DEF JournalInv
<1>2. JournalInv /\ [Next]_vars => JournalInv'
  BY MemoryInvKept, TokensInvKept, CallInvKept DEF JournalInv
<1>3. JournalInv /\ [Next]_vars => [Promise!Next]_(Promise!vars)
  <2> SUFFICES ASSUME JournalInv, [Next]_vars PROVE [Promise!Next]_(Promise!vars)
    OBVIOUS
  <2>1. CASE UNCHANGED vars
    BY <2>1 DEF vars, memory, Promise!vars, Phase, Seen, Created, Contains, Informed, Decided,
                OldestFirst
  <2> QED
    BY <2>1, CallImplementsJournal, LoopImplementsJournal, CrashImplementsJournal DEF Next
<1> QED
  BY <1>1, <1>2, <1>3, PTL DEF Spec, ImplementsJournal, Promise!Spec
-----------------------------------------------------------------------------
(***************************************************************************)
(* The end of an invocation.  While it lists, its pages have room for more. *)
(***************************************************************************)
Room == \A c \in Calls : pc[c] = "list" => c \in Planners /\ Len(pages[c]) < Window

LEMMA FuelIsNumber ==
  MemoryInv /\ Room => \A c \in Calls : Fuel(c) \in Nat
<1> SUFFICES ASSUME MemoryInv, Room, NEW c \in Calls PROVE Fuel(c) \in Nat
  OBVIOUS
<1>1. /\ pc[c] = "create" => Attempts - sent[c] \in Nat
      /\ pc[c] = "list" => (Window - Len(pages[c])) + 1 \in Nat
      /\ Attempts + Window + 2 \in Nat
  BY BoundsType DEF MemoryInv, MemoryTyped, MemoryTypeOK, Room
<1> QED
  BY <1>1 DEF Fuel

\* A call whose own state a step leaves alone.
LEMMA SameFuel ==
  ASSUME NEW d \in Calls, pc'[d] = pc[d], d \in Planners => pages'[d] = pages[d],
         d \in Recorders => sent'[d] = sent[d], MemoryInv, Room
  PROVE  Fuel(d)' = Fuel(d)
<1>1. /\ pc[d] = "list" => d \in Planners
      /\ pc[d] = "create" => d \in Recorders
  BY DEF Room, MemoryInv, MemoryTyped
<1> QED
  BY <1>1 DEF Fuel

\* A recording sends its create, and again; it ends with an answer or with the
\* last attempt.
LEMMA RecordBurns ==
  ASSUME MemoryInv, Room, NEW c \in Recorders, Record(c)
  PROVE  /\ Fuel(c)' \in Nat /\ Fuel(c)' < Fuel(c)
         /\ pc'[c] # "list" /\ pages' = pages
         /\ \A d \in Calls : d # c => pc'[d] = pc[d]
         /\ \A d \in Recorders : d # c => sent'[d] = sent[d]
<1>1. /\ c \in Calls /\ MemoryTypeOK /\ sent \in [Recorders -> 0 .. Attempts]
      /\ pc[c] = "create" /\ Attempts \in Nat
  BY BoundsType DEF MemoryInv, MemoryTyped, MemoryTypeOK, Calls, Record, Create,
     CreateUnanswered, Move
<1> USE DEF MemoryTypeOK
<1>2. sent[c] \in Nat /\ sent[c] < Attempts
  BY <1>1 DEF MemoryInv, MemoryTyped
<1>3. Fuel(c) = Attempts - sent[c]
  BY <1>1 DEF Fuel
<1>4. CASE Create(c)
  <2>1. pc'[c] = "ok" /\ sent' = sent /\ pages' = pages
        /\ \A d \in Calls : d # c => pc'[d] = pc[d]
    BY <1>1, <1>4 DEF Create, Move
  <2>2. Fuel(c)' = 0
    BY <2>1 DEF Fuel
  <2> QED
    BY <1>2, <1>1, <1>3, <2>1, <2>2
<1>5. CASE CreateUnanswered(c)
  <2>1. /\ sent'[c] = sent[c] + 1 /\ pages' = pages
        /\ pc'[c] = IF sent'[c] < Attempts THEN "create" ELSE "failed"
        /\ \A d \in Calls : d # c => pc'[d] = pc[d]
        /\ \A d \in Recorders : d # c => sent'[d] = sent[d]
    BY <1>1, <1>5 DEF CreateUnanswered
  <2>2. Fuel(c)' = IF sent[c] + 1 < Attempts THEN Attempts - (sent[c] + 1) ELSE 0
    BY <2>1 DEF Fuel
  <2> QED
    BY <1>2, <1>1, <1>3, <2>1, <2>2
<1> QED
  BY <1>4, <1>5 DEF Record

\* A run gets another page, of one event at least, or ends its listing.
LEMMA RunBurns ==
  ASSUME MemoryInv, Room, NEW c \in Planners, Run(c)
  PROVE  /\ Fuel(c)' \in Nat /\ Fuel(c)' < Fuel(c) /\ sent' = sent
         /\ pc'[c] = "list" => Len(pages'[c]) < Window
         /\ \A d \in Calls : d # c => pc'[d] = pc[d]
         /\ \A d \in Planners : d # c => pages'[d] = pages[d]
<1>1. /\ c \in Calls /\ MemoryTypeOK /\ Window \in Nat /\ pages[c] \in Seq(Outcomes)
      /\ (pc[c] = "list" => Len(pages[c]) < Window)
  BY BoundsType DEF MemoryInv, MemoryTyped, MemoryTypeOK, Calls, Room
<1>2. PICK k \in Nat : k = Len(pages[c])
  BY <1>1
<1>3. ASSUME NEW n \in PageLengths, PageAndMore(c, n)
      PROVE  /\ Fuel(c)' \in Nat /\ Fuel(c)' < Fuel(c) /\ sent' = sent
             /\ pc'[c] = "list" => Len(pages'[c]) < Window
             /\ \A d \in Calls : d # c => pc'[d] = pc[d]
             /\ \A d \in Planners : d # c => pages'[d] = pages[d]
  <2> DEFINE all == pages[c] \o First(Rest(c), n)
  <2>1. n \in Nat /\ n >= 1 /\ n <= Len(Rest(c))
    <3>1. n \in Nat /\ n >= 1
      BY DEF PageLengths
    <3>2. Rest(c) \in Seq(Outcomes)
      <4>1. PlannerOK(c) /\ upto[c] \in Nat \cup {-1} /\ events \in Seq(Outcomes)
        BY <1>1 DEF MemoryInv, MemoryTypeOK
      <4>2. FirstSeen(c) <= Len(events) /\ Len(pages[c]) <= Total(c)
        BY <4>1 DEF PlannerOK, Bounded, FirstSeen
      <4> QED
        BY <1>1, <4>2, RestIs
    <3> QED
      BY <1>3, <3>1, <3>2 DEF PageAndMore
  <2>2. Len(all) = k + n
    BY <1>2, <2>1, ListedSoFar
  <2> HIDE DEF all
  <2>3. /\ pc[c] = "list" /\ pc' = pc /\ sent' = sent
        /\ pages' = [pages EXCEPT ![c] = all] /\ Len(pages'[c]) < Window
    BY <1>3 DEF PageAndMore, all
  <2>4. pages'[c] = all /\ \A d \in Planners : d # c => pages'[d] = pages[d]
    BY <1>1, <2>3 DEF MemoryTypeOK
  <2>5. /\ Fuel(c) = (Window - k) + 1
        /\ Fuel(c)' = (Window - (k + n)) + 1
    BY <1>2, <2>2, <2>3, <2>4 DEF Fuel
  <2>6. Fuel(c)' \in Nat /\ Fuel(c)' < Fuel(c)
    <3>1. k + n < Window /\ Window \in Nat /\ n \in Nat /\ n >= 1 /\ k \in Nat
      BY <1>1, <1>2, <2>1, <2>2, <2>3, <2>4
    <3>2. (Window - (k + n)) + 1 \in Nat /\ (Window - (k + n)) + 1 < (Window - k) + 1
      BY <3>1
    <3> QED
      BY <2>5, <3>2
  <2> QED
    BY <2>3, <2>4, <2>6
<1>4. CASE ListRaises(c) \/ \E n \in PageLengths \cup {0} : PageAndDone(c, n)
  <2>1. /\ pc[c] = "list" /\ pc' = [pc EXCEPT ![c] = "agents"] /\ sent' = sent
        /\ pages' = [pages EXCEPT ![c] = << >>]
    BY <1>4 DEF ListRaises, PageAndDone, Move
  <2>2. /\ pc'[c] = "agents" /\ \A d \in Calls : d # c => pc'[d] = pc[d]
        /\ \A d \in Planners : d # c => pages'[d] = pages[d]
    BY <1>1, <2>1 DEF MemoryTypeOK
  <2>3. Fuel(c) = (Window - k) + 1 /\ Fuel(c)' = 1
    BY <1>2, <2>1, <2>2 DEF Fuel
  <2>4. k < Window /\ Window \in Nat /\ k \in Nat
    BY <1>1, <1>2, <2>1
  <2>5. Fuel(c)' \in Nat /\ Fuel(c)' < Fuel(c)
    <3>1. 1 < (Window - k) + 1
      BY <2>4
    <3> QED
      BY <2>3, <3>1
  <2> QED
    BY <2>1, <2>2, <2>5
<1>5. CASE RunReturns(c) \/ RunRaises(c)
  <2>1. /\ pc[c] = "agents" /\ sent' = sent /\ pages' = pages /\ pc'[c] \in {"ok", "failed"}
        /\ \A d \in Calls : d # c => pc'[d] = pc[d]
    BY <1>1, <1>5 DEF RunReturns, RunRaises, Move, MemoryTypeOK
  <2>2. Fuel(c) = 1 /\ Fuel(c)' = 0
    BY <2>1 DEF Fuel
  <2> QED
    BY <2>1, <2>2
<1> QED
  BY <1>3, <1>4, <1>5 DEF Run

LEMMA BeginBurns ==
  ASSUME MemoryInv, Room, NEW c \in Calls, Begin(c)
  PROVE  /\ Fuel(c)' \in Nat /\ Fuel(c)' < Fuel(c) /\ sent' = sent /\ pages' = pages
         /\ pc'[c] = "list" => c \in Planners /\ Len(pages'[c]) < Window
         /\ \A d \in Calls : d # c => pc'[d] = pc[d]
<1>1. MemoryTypeOK /\ Window \in Nat \ {0} /\ Attempts \in Nat \ {0}
  BY BoundsType DEF MemoryInv, MemoryTyped
<1>2. Fuel(c) = Attempts + Window + 2
  BY DEF Begin, BeginRecording, BeginRun, Move, Fuel
<1>3. CASE BeginRecording(c)
  <2>1. /\ c \in Recorders /\ pc[c] = "idle" /\ pc'[c] = "create" /\ sent' = sent /\ pages' = pages
        /\ \A d \in Calls : d # c => pc'[d] = pc[d]
    BY <1>1, <1>3 DEF BeginRecording, Move, MemoryTypeOK
  <2>2. sent[c] \in 0 .. Attempts - 1
    BY <1>1, <2>1 DEF MemoryInv, MemoryTyped, MemoryTypeOK
  <2>3. Fuel(c)' = Attempts - sent[c]
    BY <2>1 DEF Fuel
  <2> QED
    BY <1>1, <1>2, <2>1, <2>2, <2>3
<1>4. CASE BeginRun(c)
  <2>1. /\ c \in Planners /\ pc[c] = "idle" /\ pc'[c] = "list" /\ sent' = sent /\ pages' = pages
        /\ \A d \in Calls : d # c => pc'[d] = pc[d]
    BY <1>1, <1>4 DEF BeginRun, Move, MemoryTypeOK
  <2>2. pages[c] = << >>
    BY <2>1 DEF MemoryInv, PlannerOK, Bounded
  <2>3. Len(pages'[c]) = 0
    BY <2>1, <2>2
  <2>4. Fuel(c)' = Window + 1
    BY <1>1, <2>1, <2>3 DEF Fuel
  <2> QED
    BY <1>1, <1>2, <2>1, <2>3, <2>4
<1> QED
  BY <1>3, <1>4 DEF Begin

\* A step of a call burns its own fuel and nobody else's.
LEMMA InvokeBurns ==
  ASSUME MemoryInv, Room, NEW c \in Calls, Invoke(c)
  PROVE  /\ Room' /\ Fuel(c)' < Fuel(c)
         /\ \A d \in Calls : d # c => Fuel(d)' = Fuel(d)
<1>1. /\ Fuel(c)' < Fuel(c)
      /\ pc'[c] = "list" => c \in Planners /\ Len(pages'[c]) < Window
      /\ \A d \in Calls : d # c => pc'[d] = pc[d]
      /\ \A d \in Planners : d # c => pages'[d] = pages[d]
      /\ \A d \in Recorders : d # c => sent'[d] = sent[d]
  BY BeginBurns, RecordBurns, RunBurns DEF Invoke
<1>2. Room'
  BY <1>1 DEF Room
<1>3. \A d \in Calls : d # c => Fuel(d)' = Fuel(d)
  BY <1>1, SameFuel
<1> QED
  BY <1>1, <1>2, <1>3

\* No invocation can be kept going by the others, for any window, past and
\* number of attempts, calls and tokens: what is left of it only shrinks.
THEOREM NoInvocationIsKeptGoing == Spec => InvocationsRunOut
<1> DEFINE Burnt == \A c \in Calls : /\ Fuel(c)' \in Nat /\ Fuel(c)' <= Fuel(c)
                                     /\ Invoke(c) => Fuel(c)' < Fuel(c)
<1>0. MemoryInv' /\ Room' => (\A c \in Calls : Fuel(c) \in Nat)'
  BY FuelIsNumber, PTL
<1>1. Init => Room
  BY DEF Init, MemoryInit, Room
<1>2. MemoryInv /\ Room /\ [Next]_vars => Room'
  <2> SUFFICES ASSUME MemoryInv, Room, [Next]_vars PROVE Room'
    OBVIOUS
  <2>1. CASE UNCHANGED memory
    BY <2>1 DEF memory, Room
  <2>2. CASE Kill
    BY <2>2 DEF Kill, Room
  <2> QED
    BY <2>1, <2>2, InvokeBurns DEF Next, Accept, Respond, Crash, vars
<1>3. MemoryInv /\ Room /\ MemoryInv' /\ Room' /\ [Next]_vars => [Burnt]_vars
  <2> SUFFICES ASSUME MemoryInv, Room, MemoryInv', Room', Next, NEW c \in Calls
               PROVE  /\ Fuel(c)' \in Nat /\ Fuel(c)' <= Fuel(c)
                      /\ Invoke(c) => Fuel(c)' < Fuel(c)
    OBVIOUS
  <2>1. Fuel(c) \in Nat
    BY FuelIsNumber
  <2>2. Fuel(c)' \in Nat
    BY <1>0
  <2>3. Invoke(c) => Fuel(c)' < Fuel(c)
    BY InvokeBurns
  <2>4. Fuel(c)' <= Fuel(c)
    <3>1. CASE UNCHANGED memory
      BY <2>1, <3>1, SameFuel DEF memory
    <3>2. CASE Kill
      <4>1. pc'[c] = pc[c] \/ pc'[c] = "killed"
        BY <3>2 DEF Kill
      <4>2. CASE pc'[c] = pc[c]
        BY <2>1, <3>2, <4>2, SameFuel DEF Kill
      <4>3. CASE pc'[c] = "killed"
        BY <2>1, <4>3 DEF Fuel
      <4> QED
        BY <4>1, <4>2, <4>3
    <3>3. ASSUME NEW d \in Calls, Invoke(d) PROVE Fuel(c)' <= Fuel(c)
      BY <2>1, <2>2, <3>3, InvokeBurns
    <3> QED
      BY <3>1, <3>2, <3>3 DEF Next, Accept, Respond, Crash
  <2> QED
    BY <2>2, <2>3, <2>4
<1> QED
  BY <1>1, <1>2, <1>3, MemoryInvAlways, PTL DEF Spec, InvocationsRunOut
=============================================================================
