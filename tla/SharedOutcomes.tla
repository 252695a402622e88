--------------------------- MODULE SharedOutcomes ---------------------------
(***************************************************************************)
(* The advisor outcomes of one client in the gateway deployment            *)
(* (handler.py): one S3 object, read whole by get_outcomes and replaced     *)
(* whole by record_outcome, from as many instances of the Lambda function   *)
(* as there are concurrent calls.                                          *)
(*                                                                         *)
(* S3 (external) reads and replaces an object atomically and serves the     *)
(* latest one.  boto3 (external) sends a put again when its answer is an    *)
(* error or does not come, up to Attempts times, and then raises; the put   *)
(* may have been applied all the same.  Lambda (external) ends a call that  *)
(* has run for too long wherever it is.                                    *)
(***************************************************************************)
EXTENDS Integers, Sequences, SequencesExt

CONSTANTS
  Recorders,   \* calls of record_outcome; each call is its own event
  Planners,    \* calls of get_signals, which returns the prior outcomes
  Attempts     \* how often one put is sent at most

ASSUME RolesDisjoint == Recorders \cap Planners = {}
ASSUME AttemptsType == Attempts \in Nat \ {0}

Calls == Recorders \cup Planners

VARIABLES
  object,      \* the client's outcomes object; << >> too when it does not exist
  pc,          \* the step each call is at
  events,      \* the list get_outcomes returned to each call
  sent,        \* how often the put of each call was sent
  before,      \* history: the calls that had ended when each call began
  serial       \* whether the outcomes are recorded one at a time

vars == <<object, pc, events, sent, before, serial>>

Over == {c \in Calls : pc[c] \in {"ok", "error"}}

Init ==
  /\ object = << >>
  /\ pc = [c \in Calls |-> "idle"]
  /\ events = [c \in Calls |-> << >>]
  /\ sent = [c \in Calls |-> 0]
  /\ before = [c \in Calls |-> {}]
  /\ serial \in BOOLEAN

Move(c, from, to) == pc[c] = from /\ pc' = [pc EXCEPT ![c] = to]

\* lambda_handler finds the tool; get_signals loads and evaluates the record.
Begin(c) ==
  /\ Move(c, "idle", "get")
  /\ before' = [before EXCEPT ![c] = Over]
  /\ UNCHANGED <<object, events, sent>>

BugErrorIsAnOutcome(c) ==  \* mutant: an exception becomes an entry of the list
  /\ Move(c, "get", IF c \in Recorders THEN "put" ELSE "answer")
  /\ events' = [events EXCEPT ![c] = <<"memory_error">>]
  /\ UNCHANGED <<object, sent, before>>

\* get_outcomes: the object as it is, or [] for NoSuchKey.
Get(c) ==
  /\ Move(c, "get", IF c \in Recorders THEN "put" ELSE "answer")
  /\ events' = [events EXCEPT ![c] = object]
  /\ UNCHANGED <<object, sent, before>>

\* Any other exception of the get: lambda_handler returns an error.
GetRaises(c) == Move(c, "get", "error") /\ UNCHANGED <<object, events, sent, before>>

BugPutsItsEventOnly(c) ==  \* mutant: the earlier outcomes are not put back
  /\ Move(c, "put", "answer")
  /\ object' = <<c>>
  /\ UNCHANGED <<events, sent, before>>

BugNewestFirst(c) ==  \* mutant: [ev] + get_outcomes(client_id)
  /\ Move(c, "put", "answer")
  /\ object' = <<c>> \o events[c]
  /\ UNCHANGED <<events, sent, before>>

\* put_object of the list and the new event, answered.
Put(c) ==
  /\ Move(c, "put", "answer")
  /\ object' = Append(events[c], c)
  /\ UNCHANGED <<events, sent, before>>

BugRetryReads(c) ==  \* mutant: the retry runs record_outcome again from the get
  /\ pc[c] = "put"
  /\ object' \in {object, Append(events[c], c)}
  /\ sent' = [sent EXCEPT ![c] = @ + 1]
  /\ pc' = [pc EXCEPT ![c] = IF sent'[c] < Attempts THEN "get" ELSE "error"]
  /\ UNCHANGED <<events, before>>

\* The put is not answered, or with an error, whether it was applied or not:
\* boto3 sends the same body again, or raises after the last attempt.
PutUnanswered(c) ==
  /\ pc[c] = "put"
  /\ object' \in {object, Append(events[c], c)}
  /\ sent' = [sent EXCEPT ![c] = @ + 1]
  /\ pc' = [pc EXCEPT ![c] = IF sent'[c] < Attempts THEN "put" ELSE "error"]
  /\ UNCHANGED <<events, before>>

\* The tool's result reaches the caller.
Answer(c) == Move(c, "answer", "ok") /\ UNCHANGED <<object, events, sent, before>>

\* Lambda ends the call: the caller gets an error.
TimeOut(c) ==
  /\ pc[c] \in {"get", "put", "answer"} /\ pc' = [pc EXCEPT ![c] = "error"]
  /\ UNCHANGED <<object, events, sent, before>>

Step(c) == \/ Begin(c) \/ Get(c) \/ GetRaises(c) \/ Put(c) \/ PutUnanswered(c)
           \/ Answer(c) \/ TimeOut(c)

\* Where the advisors of a client record one outcome at a time, a recorder
\* begins only when no other is under way; nothing in the code makes it wait.
InTurn(c) ==
  serial /\ c \in Recorders /\ pc[c] = "idle"
  => \A d \in Recorders \ {c} : pc[d] \in {"idle", "ok", "error"}

Next == (\E c \in Calls : InTurn(c) /\ Step(c)) /\ UNCHANGED serial

Spec == Init /\ [][Next]_vars
-----------------------------------------------------------------------------
TypeOK ==
  /\ object \in Seq(Recorders)
  /\ pc \in [Calls -> {"idle", "get", "put", "answer", "ok", "error"}]
  /\ events \in [Calls -> Seq(Recorders)]
  /\ sent \in [Calls -> 0 .. Attempts]
  /\ before \in [Calls -> SUBSET Calls]
  /\ serial \in BOOLEAN

\* Two calls were under way at the same time.
Overlap(c, d) ==
  /\ c # d /\ pc[c] # "idle" /\ pc[d] # "idle"
  /\ c \notin before[d] /\ d \notin before[c]

Undisturbed(c) == \A d \in Recorders : ~Overlap(c, d)

HasRead(c) == pc[c] \in {"put", "answer", "ok"}

\* An outcome whose recording overlapped no other recording is given to every
\* call that begins after its acknowledgement and is not answered by an error.
AcknowledgedIsSeen ==
  \A c \in Recorders, d \in Calls :
    pc[c] = "ok" /\ Undisturbed(c) /\ c \in before[d] /\ HasRead(d) => Contains(events[d], c)

\* However calls overlap, are sent again or fail half-way, the stored list
\* holds no outcome twice, and of two outcomes the one whose call had ended
\* when the other's began stands first: the planner may take the last entry of
\* a card for the advisor's latest word.
InOrder ==
  \A i, j \in 1 .. Len(object) :
    /\ object[i] = object[j] => i = j
    /\ object[i] \in before[object[j]] => i < j

Phase(c) == CASE pc[c] = "idle" -> "idle"
              [] pc[c] = "ok" -> "done"
              [] pc[c] = "error" -> "refused"
              [] pc[c] = "answer" -> "effective"
              [] c \in Recorders /\ pc[c] \in {"get", "put"} /\ Contains(object, c)
                 -> "effective"
              [] OTHER -> "open"

Whole(doc, side) == doc

Promise == INSTANCE OutcomeJournal WITH
  View    <- Whole,
  Past    <- << >>,
  side    <- "oldest",
  journal <- IF serial THEN object ELSE << >>,
  phase   <- [c \in Calls |-> IF serial THEN Phase(c) ELSE "idle"],
  seen    <- [c \in Calls |-> IF serial /\ c \in Planners THEN events[c] ELSE << >>]

\* Recorded one at a time, the object is the journal that OutcomeJournal
\* specifies, although puts are sent again and calls are cut off; of other
\* behaviours it says nothing.
ImplementsJournal == Promise!Spec
=============================================================================
