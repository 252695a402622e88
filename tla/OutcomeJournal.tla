--------------------------- MODULE OutcomeJournal ---------------------------
(***************************************************************************)
(* What record_outcome and get_outcomes promise one client's advisor and   *)
(* planner, whatever the store behind them: a journal that only grows, one *)
(* entry per acknowledged outcome, and reads that return the journal, or a *)
(* fixed part of it, as it was at some moment of the call.  A call may      *)
(* fail, and then its outcome is in the journal or it is not, and stays so. *)
(* Every recorder call is its own event, because its timestamp makes the   *)
(* event unique.                                                            *)
(***************************************************************************)
EXTENDS Sequences

CONSTANTS
  Recorders,   \* calls of record_outcome
  Planners,    \* runs of the planner, each of which calls get_outcomes once
  Past,        \* the outcomes recorded before, oldest first
  View(_, _)   \* what of a journal is given to a planner run, from one side

Calls == Recorders \cup Planners

VARIABLES
  side,        \* the end of the journal at which a view starts
  journal,     \* the client's outcomes, oldest first
  phase,       \* where each call stands
  seen         \* what each planner run was given

vars == <<side, journal, phase, seen>>

Init ==
  /\ side \in {"newest", "oldest"}
  /\ journal = Past
  /\ phase = [c \in Calls |-> "idle"]
  /\ seen = [c \in Calls |-> << >>]

Move(c, from, to) == phase[c] = from /\ phase' = [phase EXCEPT ![c] = to]

\* A call arrives.
Open(c) == Move(c, "idle", "open") /\ UNCHANGED <<journal, seen>>

\* The outcome takes effect: the one step that changes the journal.
Commit(c) ==
  /\ c \in Recorders
  /\ Move(c, "open", "effective")
  /\ journal' = Append(journal, c)
  /\ UNCHANGED seen

\* A planner run is given its view of the journal.
Look(c) ==
  /\ c \in Planners
  /\ Move(c, "open", "effective")
  /\ seen' = [seen EXCEPT ![c] = View(journal, side)]
  /\ UNCHANGED journal

\* The call returns its result.
Answer(c) == Move(c, "effective", "done") /\ UNCHANGED <<journal, seen>>

\* The outcome takes effect, but the call raises.
CommitUnheard(c) ==
  /\ c \in Recorders
  /\ Move(c, "open", "refused")
  /\ journal' = Append(journal, c)
  /\ UNCHANGED seen

\* Calls raise, or end with their process, with or without an effect.
Fail(S) ==
  /\ \A c \in S : phase[c] \in {"open", "effective"}
  /\ phase' = [c \in Calls |-> IF c \in S THEN "refused" ELSE phase[c]]
  /\ UNCHANGED <<journal, seen>>

Next ==
  /\ \/ \E c \in Calls : Open(c) \/ Commit(c) \/ Look(c) \/ Answer(c) \/ CommitUnheard(c)
     \/ \E S \in SUBSET Calls : Fail(S)
  /\ UNCHANGED side

Spec == Init /\ [][Next]_vars
=============================================================================
