---------------------------- MODULE LocalOutcomes ----------------------------
(***************************************************************************)
(* The advisor outcomes of one client in the local store of tools.py       *)
(* (MEMORY_ID not set): the JSON file /tmp/outcomes_<client_id>.json, read  *)
(* and rewritten by get_outcomes and record_outcome.  The runtime runs each *)
(* invocation on a thread of a pool and nothing locks the file, so calls    *)
(* for the same client interleave at every file operation.                 *)
(*                                                                         *)
(* A file is modelled by the JSON document it begins with and its length   *)
(* in bytes: open(path, "w") leaves an empty file, json.dump writes at the *)
(* start of it, and bytes of a longer document that another writer left    *)
(* there stay behind the new one.  json.load accepts the file only when    *)
(* nothing follows the document.  A document fits one 8 KiB buffer, so it  *)
(* reaches the file in one write when the file is closed.                  *)
(* /tmp lives as long as the machine the runtime runs on; its loss with the *)
(* machine is the loss of the whole store and is not an action here.       *)
(***************************************************************************)
EXTENDS Integers, Sequences, SequencesExt

CONSTANTS
  Recorders,   \* calls of record_outcome; each call is its own event
  Planners,    \* runs of the planner, each of which calls get_outcomes once
  EventBytes   \* length of the JSON of each event

ASSUME CallsDisjoint == Recorders \cap Planners = {}

Calls == Recorders \cup Planners

VARIABLES
  file,        \* the client's file
  pc,          \* the step each call is at
  existing,    \* the list get_outcomes returned to each call
  before,      \* history: the calls that had ended when each call began
  serial       \* whether the outcomes are recorded one at a time

vars == <<file, pc, existing, before, serial>>

Absent == [kind |-> "absent", doc |-> << >>, bytes |-> 0]
Empty  == [kind |-> "empty",  doc |-> << >>, bytes |-> 0]
Text(doc, bytes) == [kind |-> "text", doc |-> doc, bytes |-> bytes]

\* Length of a document: the brackets, the events and a ", " between events.
Bytes(doc) == IF doc = << >> THEN 2
              ELSE FoldLeft(LAMBDA n, e : n + EventBytes[e] + 2, 0, doc)

Readable(f) == f.kind = "text" /\ f.bytes = Bytes(f.doc)

\* The file after doc is written at its start.
Overwrite(f, doc) ==
  Text(doc, IF f.kind = "text" /\ f.bytes > Bytes(doc) THEN f.bytes ELSE Bytes(doc))
-----------------------------------------------------------------------------
Over == {c \in Calls : pc[c] \in {"ok", "failed", "killed"}}

Init ==
  /\ file = Absent
  /\ pc = [c \in Calls |-> "idle"]
  /\ existing = [c \in Calls |-> << >>]
  /\ before = [c \in Calls |-> {}]
  /\ serial \in BOOLEAN

Move(c, from, to) == pc[c] = from /\ pc' = [pc EXCEPT ![c] = to]

\* The invocation reaches a thread; record_outcome builds its event.
Begin(c) ==
  /\ Move(c, "idle", "exists")
  /\ before' = [before EXCEPT ![c] = Over]
  /\ UNCHANGED <<file, existing>>

BugErrorEntry(c) ==  \* mutant: a missing file is reported as an entry of the list
  /\ file.kind = "absent"
  /\ Move(c, "exists", "loaded")
  /\ existing' = [existing EXCEPT ![c] = <<"no file">>]
  /\ UNCHANGED <<file, before>>

\* get_outcomes: os.path.exists(path), and [] when it is not there.
FindNoFile(c) ==
  /\ file.kind = "absent"
  /\ Move(c, "exists", "loaded")
  /\ existing' = [existing EXCEPT ![c] = << >>]
  /\ UNCHANGED <<file, before>>

FindFile(c) ==
  /\ file.kind # "absent"
  /\ Move(c, "exists", "load")
  /\ UNCHANGED <<file, existing, before>>

\* get_outcomes: open(path) and json.load; a JSONDecodeError ends the call.
Load(c) ==
  /\ Readable(file)
  /\ Move(c, "load", "loaded")
  /\ existing' = [existing EXCEPT ![c] = file.doc]
  /\ UNCHANGED <<file, before>>

BugUnreadableIsEmpty(c) ==  \* mutant: an unreadable file counts as no outcomes
  /\ ~Readable(file)
  /\ Move(c, "load", "loaded")
  /\ existing' = [existing EXCEPT ![c] = << >>]
  /\ UNCHANGED <<file, before>>

LoadRaises(c) ==
  /\ ~Readable(file)
  /\ Move(c, "load", "failed")
  /\ UNCHANGED <<file, existing, before>>

\* record_outcome: open(path, "w").
Truncate(c) ==
  /\ c \in Recorders
  /\ Move(c, "loaded", "dump")
  /\ file' = Empty
  /\ UNCHANGED <<existing, before>>

BugRetriedDump(c) ==  \* mutant: a failed write is retried, append included
  /\ c \in Recorders
  /\ pc[c] = "dump" /\ \E to \in {"loaded", "written"} : Move(c, "dump", to)
  /\ existing' = [existing EXCEPT ![c] = Append(existing[c], c)]
  /\ file' = Overwrite(file, Append(existing[c], c))
  /\ UNCHANGED before

BugDumpBeforeAppend(c) ==  \* mutant: the list is written before the append
  /\ c \in Recorders
  /\ Move(c, "dump", "written")
  /\ file' = Overwrite(file, existing[c])
  /\ UNCHANGED <<existing, before>>

\* record_outcome: json.dump(existing, f) and the close at the end of with.  The
\* document fits the buffer of the file and is written in one piece; a longer
\* one would be written in several.
Dump(c) ==
  /\ c \in Recorders
  /\ Move(c, "dump", "written")
  /\ file' = Overwrite(file, Append(existing[c], c))
  /\ UNCHANGED <<existing, before>>

\* The call returns: {"recorded": True, ...}, or the outcomes to run_planner.
Return(c) ==
  /\ \/ c \in Recorders /\ Move(c, "written", "ok")
     \/ c \in Planners /\ Move(c, "loaded", "ok")
  /\ UNCHANGED <<file, existing, before>>

Step(c) == \/ Begin(c) \/ FindNoFile(c) \/ FindFile(c) \/ Load(c) \/ LoadRaises(c)
           \/ Truncate(c) \/ Dump(c) \/ Return(c)

\* Nothing in the code makes the calls of a client wait for each other.  Where
\* the advisor does, a recorder begins only when no other is under way, in a
\* process that does not die; planner runs overlap with it freely.
InTurn(c) ==
  serial /\ c \in Recorders /\ pc[c] = "idle"
  => \A d \in Recorders \ {c} : pc[d] \in {"idle", "ok", "failed"}

\* The process dies and is started again; /tmp survives it.
Crash ==
  /\ ~serial
  /\ pc' = [c \in Calls |-> IF pc[c] = "idle" \/ c \in Over THEN pc[c] ELSE "killed"]
  /\ pc' # pc
  /\ UNCHANGED <<file, existing, before>>

Next == ((\E c \in Calls : InTurn(c) /\ Step(c)) \/ Crash) /\ UNCHANGED serial

Spec == Init /\ [][Next]_vars
-----------------------------------------------------------------------------
TypeOK ==
  /\ file.kind \in {"absent", "empty", "text"}
  /\ file.doc \in Seq(Recorders)
  /\ pc \in [Calls -> {"idle", "exists", "load", "loaded", "dump", "written",
                       "ok", "failed", "killed"}]
  /\ existing \in [Calls -> Seq(Recorders)]
  /\ before \in [Calls -> SUBSET Calls]
  /\ serial \in BOOLEAN

Holds(doc, c) == \E i \in 1 .. Len(doc) : doc[i] = c

\* Two calls were under way at the same time.
Overlap(c, d) ==
  /\ c # d /\ pc[c] # "idle" /\ pc[d] # "idle"
  /\ c \notin before[d] /\ d \notin before[c]

Undisturbed(c) == \A d \in Recorders : ~Overlap(c, d)

\* An outcome whose recording overlapped no other recording is given to every
\* call that begins after its acknowledgement and reads the outcomes at all:
\* the file may become unreadable (a crash, two writers), and then the read
\* raises, but no later read and no later rewrite silently leaves it out.
AcknowledgedIsSeen ==
  \A c \in Recorders, d \in Calls :
    /\ pc[c] = "ok" /\ Undisturbed(c)
    /\ c \in before[d] /\ pc[d] \in {"loaded", "dump", "written", "ok"}
    => Holds(existing[d], c)

Sound(doc) ==
  /\ \A i, j \in 1 .. Len(doc) : doc[i] = doc[j] => i = j
  /\ \A c \in Recorders : Holds(doc, c) => pc[c] \in {"written", "ok", "killed"}

\* What a call reads is a list of distinct recorded outcomes, each of a call
\* that did reach its write: no outcome twice, none of a call that failed.
ReadsAreSound ==
  \A d \in Calls : pc[d] \in {"loaded", "dump", "written", "ok"} => Sound(existing[d])

\* The file is there but unreadable, and no writer has already loaded a list.
Poisoned ==
  /\ file.kind # "absent" /\ ~Readable(file)
  /\ \A c \in Recorders : pc[c] \notin {"loaded", "dump"}

\* Nothing repairs a poisoned file: record_outcome reads before it writes, so
\* from then on every outcome and every run of the client fails.
PoisonedStaysPoisoned == [][Poisoned => Poisoned']_vars

\* While a writer holds the file truncated the journal is what it loaded.
Journal == IF file.kind = "absent" THEN << >>
           ELSE IF Readable(file) THEN file.doc
           ELSE existing[CHOOSE c \in Recorders : pc[c] = "dump"]

Phase(c) == CASE pc[c] = "idle" -> "idle"
              [] pc[c] = "ok" -> "done"
              [] pc[c] \in {"failed", "killed"} -> "refused"
              [] pc[c] = "written" \/ (c \in Planners /\ pc[c] = "loaded") -> "effective"
              [] OTHER -> "open"

Whole(doc, side) == doc

Promise == INSTANCE OutcomeJournal WITH
  View    <- Whole,
  Past    <- << >>,
  side    <- "oldest",
  journal <- IF serial THEN Journal ELSE << >>,
  phase   <- [c \in Calls |-> IF serial THEN Phase(c) ELSE "idle"],
  seen    <- [c \in Calls |-> IF serial /\ c \in Planners THEN existing[c] ELSE << >>]

\* Recorded one at a time, in a process that does not die, the file is the
\* journal that OutcomeJournal specifies; of other behaviours it says nothing.
ImplementsJournal == Promise!Spec

\* "Records what the advisor did with a card so the planner can suppress or
\* re-surface it next run" (tools.py:163): an acknowledged outcome is given to
\* every planner run that begins after it and succeeds in reading.
RecordedReachesPlanner ==
  \A c \in Recorders, p \in Planners :
    pc[c] = "ok" /\ c \in before[p] /\ pc[p] \in {"loaded", "ok"} => Holds(existing[p], c)
=============================================================================
