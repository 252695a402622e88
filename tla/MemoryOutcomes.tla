--------------------------- MODULE MemoryOutcomes ---------------------------
(***************************************************************************)
(* The advisor outcomes of one client in AgentCore Memory (tools.py with   *)
(* MEMORY_ID set): record_outcome creates an event, get_outcomes lists the *)
(* first Window events and turns any failure into an entry of the list.    *)
(*                                                                         *)
(* The service (external) appends events one at a time and ignores a create *)
(* whose client token it has seen; botocore puts one token on all attempts *)
(* of a call.  It serves pages of any length and does not say in which     *)
(* order: the docstring of list_events says the oldest first, the reversal *)
(* in the converter for strands sessions says the newest first, so order   *)
(* is either.  A token of a page continues behind the last event of it.    *)
(***************************************************************************)
EXTENDS Integers, Sequences, FiniteSets, SequencesExt

CONSTANTS
  Recorders,   \* calls of record_outcome; each call is its own event
  Planners,    \* runs of the harness, each of which calls get_outcomes once
  Past,        \* the events of earlier sessions, oldest first
  Window,      \* max_results of the listing
  Attempts     \* how often one create is sent at most

ASSUME RolesDisjoint == Recorders \cap Planners = {}
ASSUME PastType ==
  Past \in Seq(Range(Past)) /\ IsInjective(Past) /\ Range(Past) \cap Recorders = {}
ASSUME BoundsType == Window \in Nat \ {0} /\ Attempts \in Nat \ {0}

Calls == Recorders \cup Planners
Outcomes == Recorders \cup Range(Past)

VARIABLES
  order,       \* "newest" or "oldest": the end the listing starts at
  events,      \* the client's events, oldest first
  pc,          \* the step each call is at
  pages,       \* the pages each planner run has got so far
  upto,        \* number of events when the first page was served, or -1
  given,       \* what get_outcomes returned to each planner run
  sent,        \* how often the create of each call was sent
  before       \* history: the recordings that had ended when each run began

memory == <<order, events, pc, pages, upto, given, sent, before>>

Nothing == <<"nothing">>       \* get_outcomes has not returned yet
Unavailable == <<"memory_error">>

\* An event of the service is not the entry that get_outcomes makes of an error.
ASSUME ErrorsAreNoOutcomes == Outcomes \cap {"nothing", "memory_error"} = {}

Over == {c \in Calls : pc[c] \in {"ok", "failed", "killed"}}

MemoryInit ==
  /\ order \in {"newest", "oldest"}
  /\ events = Past
  /\ pc = [c \in Calls |-> "idle"]
  /\ pages = [c \in Planners |-> << >>]
  /\ upto = [c \in Planners |-> -1]
  /\ given = [c \in Planners |-> Nothing]
  /\ sent = [c \in Recorders |-> 0]
  /\ before = [c \in Planners |-> {}]

Move(c, from, to) == pc[c] = from /\ pc' = [pc EXCEPT ![c] = to]

\* invoke: the payload is a recording or a run.
BeginRecording(c) ==
  /\ c \in Recorders /\ Move(c, "idle", "create")
  /\ UNCHANGED <<order, events, pages, upto, given, sent, before>>

BeginRun(c) ==
  /\ c \in Planners /\ Move(c, "idle", "list")
  /\ before' = [before EXCEPT ![c] = Over \cap Recorders]
  /\ UNCHANGED <<order, events, pages, upto, given, sent>>

Begin(c) == BeginRecording(c) \/ BeginRun(c)

Created(c) == Contains(events, c)
AfterCreate(c) == IF Created(c) THEN events ELSE Append(events, c)

\* create_event, answered: the event is there, from this attempt or an earlier,
\* and record_outcome returns.
Create(c) ==
  /\ Move(c, "create", "ok")
  /\ events' = AfterCreate(c)
  /\ UNCHANGED <<order, pages, upto, given, sent, before>>

BugResendForever(c) ==  \* mutant: the attempts are not counted out
  /\ pc[c] = "create"
  /\ events' \in {events, AfterCreate(c)}
  /\ sent' = [sent EXCEPT ![c] = @ + 1]
  /\ pc' = [pc EXCEPT ![c] = IF sent[c] <= Attempts THEN "create" ELSE "failed"]
  /\ UNCHANGED <<order, pages, upto, given, before>>

BugNewToken(c) ==  \* mutant: every attempt carries a token of its own
  /\ pc[c] = "create"
  /\ events' \in {events, Append(events, c)}
  /\ sent' = [sent EXCEPT ![c] = @ + 1]
  /\ pc' = [pc EXCEPT ![c] = IF sent'[c] < Attempts THEN "create" ELSE "failed"]
  /\ UNCHANGED <<order, pages, upto, given, before>>

\* No answer, or an error, whether the create was applied or not: boto3 sends
\* it again, or raises after the last attempt and record_outcome with it.
CreateUnanswered(c) ==
  /\ pc[c] = "create"
  /\ events' \in {events, AfterCreate(c)}
  /\ sent' = [sent EXCEPT ![c] = @ + 1]
  /\ pc' = [pc EXCEPT ![c] = IF sent'[c] < Attempts THEN "create" ELSE "failed"]
  /\ UNCHANGED <<order, pages, upto, given, before>>

\* What the service has still to list to c, in its order.
FirstSeen(c) == IF upto[c] = -1 THEN Len(events) ELSE upto[c]
Rest(c) ==
  LET all == IF order = "oldest" THEN events ELSE Reverse(SubSeq(events, 1, FirstSeen(c)))
  IN  SubSeq(all, Len(pages[c]) + 1, Len(all))

First(doc, n) == SubSeq(doc, 1, IF n < Len(doc) THEN n ELSE Len(doc))

BugListOn(c, n) ==  \* mutant: the listing goes on when it has enough
  /\ pc[c] = "list" /\ n < Len(Rest(c))
  /\ pages' = [pages EXCEPT ![c] = @ \o First(Rest(c), n)]
  /\ upto' = [upto EXCEPT ![c] = FirstSeen(c)]
  /\ UNCHANGED <<order, events, pc, given, sent, before>>

\* list_events: a page with a token, and too few events so far.
PageAndMore(c, n) ==
  /\ pc[c] = "list" /\ n < Len(Rest(c))
  /\ pages' = [pages EXCEPT ![c] = @ \o First(Rest(c), n)]
  /\ Len(pages'[c]) < Window
  /\ upto' = [upto EXCEPT ![c] = FirstSeen(c)]
  /\ UNCHANGED <<order, events, pc, given, sent, before>>

BugLastPageOnly(c, n) ==  \* mutant: all_events = events
  /\ n <= Len(Rest(c)) /\ Move(c, "list", "agents")
  /\ n = Len(Rest(c)) \/ Len(pages[c]) + n >= Window
  /\ given' = [given EXCEPT ![c] = First(First(Rest(c), n), Window)]
  /\ upto' = [upto EXCEPT ![c] = FirstSeen(c)]
  /\ UNCHANGED <<order, events, pages, sent, before>>

\* The last page, or enough of them; what is too much is cut off.
PageAndDone(c, n) ==
  /\ n <= Len(Rest(c)) /\ Move(c, "list", "agents")
  /\ n = Len(Rest(c)) \/ Len(pages[c]) + n >= Window
  /\ given' = [given EXCEPT ![c] = First(pages[c] \o First(Rest(c), n), Window)]
  /\ upto' = [upto EXCEPT ![c] = FirstSeen(c)]
  /\ pages' = [pages EXCEPT ![c] = << >>]
  /\ UNCHANGED <<order, events, sent, before>>

\* Any exception of the listing: the run goes on with the error as its outcomes.
ListRaises(c) ==
  /\ Move(c, "list", "agents")
  /\ given' = [given EXCEPT ![c] = Unavailable]
  /\ pages' = [pages EXCEPT ![c] = << >>]
  /\ UNCHANGED <<order, events, upto, sent, before>>

\* The agents of the run return their cards or raise.
RunReturns(c) ==
  /\ Move(c, "agents", "ok")
  /\ UNCHANGED <<order, events, pages, upto, given, sent, before>>

RunRaises(c) ==
  /\ Move(c, "agents", "failed")
  /\ UNCHANGED <<order, events, pages, upto, given, sent, before>>

\* A page is never longer than what there is to list.
PageLengths == 1 .. Cardinality(Outcomes)

Record(c) == Create(c) \/ CreateUnanswered(c)

Run(c) == \/ \E n \in PageLengths : PageAndMore(c, n)
          \/ \E n \in PageLengths \cup {0} : PageAndDone(c, n)
          \/ ListRaises(c) \/ RunReturns(c) \/ RunRaises(c)

\* The process dies; the events are the service's.
Kill ==
  /\ pc' = [c \in Calls |-> IF pc[c] = "idle" \/ c \in Over THEN pc[c] ELSE "killed"]
  /\ UNCHANGED <<order, events, pages, upto, given, sent, before>>
-----------------------------------------------------------------------------
MemoryTypeOK ==
  /\ order \in {"newest", "oldest"}
  /\ events \in Seq(Outcomes)
  /\ pc \in [Calls -> {"idle", "create", "list", "agents", "ok", "failed",
                       "killed"}]
  /\ pages \in [Planners -> Seq(Outcomes)]
  /\ upto \in [Planners -> Nat \cup {-1}]
  /\ given \in [Planners -> Seq(Outcomes) \cup {Nothing, Unavailable}]
  /\ sent \in [Recorders -> 0 .. Attempts]
  /\ before \in [Planners -> SUBSET Recorders]

Informed(c) == given[c] \notin {Nothing, Unavailable}

Position(c) == CHOOSE i \in 1 .. Len(events) : events[i] = c

\* An acknowledged outcome is missing from the outcomes a later run is given
\* only when they are full, and then of outcomes on the listed side of it:
\* however many events are created while the pages are fetched, no page is
\* skipped and none is listed twice.
LeftOutByWindowOnly ==
  \A c \in Recorders, d \in Planners :
    pc[c] = "ok" /\ c \in before[d] /\ Informed(d) /\ ~Contains(given[d], c) =>
      /\ Len(given[d]) = Window /\ IsInjective(given[d])
      /\ \A i \in 1 .. Window :
           IF order = "newest" THEN Position(given[d][i]) > Position(c)
                               ELSE Position(given[d][i]) < Position(c)

\* The part of the journal that is listed, oldest first.
Listed(doc, side) ==
  IF side = "oldest" THEN First(doc, Window) ELSE Reverse(First(Reverse(doc), Window))

OldestFirst(doc) == IF order = "oldest" THEN doc ELSE Reverse(doc)

\* With the newest first, the first page decides what will be listed.
Decided(c) == order = "newest" /\ upto[c] # -1

\* Where each call stands, as far as the store knows.
Phase(c) ==
  IF pc[c] = "idle" THEN "idle"
  ELSE IF pc[c] \in {"failed", "killed"} THEN "refused"
  ELSE IF c \in Recorders THEN IF Created(c) THEN "effective" ELSE "open"
  ELSE IF given[c] = Unavailable THEN "refused"
  ELSE IF Informed(c) \/ Decided(c) THEN "effective" ELSE "open"

\* What each run has been given, oldest first, or will be.
Seen(c) == IF c \in Recorders THEN << >>
           ELSE IF Informed(c) THEN OldestFirst(given[c])
           ELSE IF Decided(c) THEN Listed(SubSeq(events, 1, upto[c]), order)
           ELSE << >>
=============================================================================
