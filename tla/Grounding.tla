------------------------------ MODULE Grounding ------------------------------
(***************************************************************************)
(* _ground of agents.py: the deterministic check that every sentence of a  *)
(* brief carries a citation and that every citation names an evidence item. *)
(*                                                                         *)
(* A brief is a sequence of tokens.  Only what the regular expressions of   *)
(* the check tell apart is kept: words, sentence stops (. ! ?), whitespace, *)
(* single citations "[E2]", and the opening words "Suggested" and "You      *)
(* could open".  A bracket that groups citations, "[E2, E4]", is a token of  *)
(* its own: a citation to ARCHITECTURE.md, a word to the pattern \[E(\d+)\]. *)
(***************************************************************************)
EXTENDS Integers, Sequences

Token == [kind : {"word", "stop", "space", "suggest", "group", "cite"}, ref : Int]

Plain(kind) == [kind |-> kind, ref |-> 0]
Word == Plain("word")
Stop == Plain("stop")
Space == Plain("space")
Suggest == Plain("suggest")
Group == Plain("group")
Cite(k) == [kind |-> "cite", ref |-> k]

\* str(agent(payload)).strip(): whitespace neither begins nor ends a brief.
Stripped(brief) ==
  brief # << >> => brief[1] # Space /\ brief[Len(brief)] # Space

\* re.split(r"(?<=[.!?])\s+", brief): the run of whitespace after a stop.
Separator(brief, i) ==
  /\ brief[i] = Space
  /\ \E j \in 1 .. i - 1 : /\ brief[j] = Stop
                           /\ \A k \in j + 1 .. i - 1 : brief[k] = Space

\* The sentences of a brief, as <<first, last>> token.
Sentences(brief) ==
  {s \in (1 .. Len(brief)) \X (1 .. Len(brief)) :
     /\ s[1] <= s[2]
     /\ \A i \in s[1] .. s[2] : ~Separator(brief, i)
     /\ s[1] = 1 \/ Separator(brief, s[1] - 1)
     /\ s[2] = Len(brief) \/ Separator(brief, s[2] + 1)}

BugCiteAfterStop(brief, s) ==  \* mutant: a citation behind the stop still counts
  {brief[i].ref : i \in {j \in s[1] .. s[2] + 2 :
                           j <= Len(brief) /\ brief[j].kind = "cite"}}

Refs(brief, s) == {brief[i].ref : i \in {j \in s[1] .. s[2] : brief[j].kind = "cite"}}

BugSuggestAnywhere(brief, s) ==  \* mutant: "suggested" in s, not s.startswith
  \E i \in s[1] .. s[2] : brief[i] = Suggest

\* s.lower().startswith(("suggested", "you could open"))
IsSuggestion(brief, s) == brief[s[1]] = Suggest

Uncited(brief) ==
  {s \in Sentences(brief) : Refs(brief, s) = {} /\ ~IsSuggestion(brief, s)}

BadRefs(brief, nEvidence) ==
  UNION {{r \in Refs(brief, s) : r < 1 \/ r > nEvidence} : s \in Sentences(brief)}

Passed(brief, nEvidence) == Uncited(brief) = {} /\ BadRefs(brief, nEvidence) = {}

\* The rewrite request of run_briefing (agents.py:134) lists the uncited
\* sentences and nothing else.
Hint(brief) == Uncited(brief)
-----------------------------------------------------------------------------
(***************************************************************************)
(* The reference: the rule in the docstring of _ground (agents.py:109),    *)
(* "factual sentences must carry a valid citation", token by token.  What  *)
(* is no fact is the code's own choice (agents.py:114): the suggested       *)
(* opening line.  Other documents state other rules: the prompt has the     *)
(* citation end the sentence (agents.py:97), which is not asked here, and   *)
(* ARCHITECTURE.md:552 excuses sentences that are not excused here.         *)
(***************************************************************************)
\* Tokens i and j stand in one sentence: no stop before whitespace between them.
SameSentence(brief, i, j) ==
  \A k \in 1 .. Len(brief) - 1 :
    brief[k] = Stop /\ brief[k + 1] = Space => ~(i <= k /\ k < j) /\ ~(j <= k /\ k < i)

ValidCite(brief, j, nEvidence) == brief[j].kind = "cite" /\ brief[j].ref \in 1 .. nEvidence

\* Token j is the word "Suggested" at the very beginning of its sentence.
OpensSuggestion(brief, j) ==
  brief[j] = Suggest /\ \A k \in 1 .. j - 1 : brief[k] # Space => ~SameSentence(brief, k, j)

\* A citation is valid; anything else shares its sentence with a valid citation
\* or stands in a suggestion.
Supported(brief, i, nEvidence) ==
  \/ brief[i] = Space
  \/ ValidCite(brief, i, nEvidence)
  \/ /\ brief[i].kind # "cite"
     /\ \E j \in 1 .. Len(brief) :
          /\ SameSentence(brief, i, j)
          /\ ValidCite(brief, j, nEvidence) \/ OpensSuggestion(brief, j)

WellSupported(brief, nEvidence) ==
  \A i \in 1 .. Len(brief) : Supported(brief, i, nEvidence)
=============================================================================
