----------------------------- MODULE MCGrounding -----------------------------
(***************************************************************************)
(* Every brief of up to MaxLength tokens, grown from left to right as the  *)
(* model writes it, checked against 0 .. MaxEvidence evidence items.       *)
(***************************************************************************)
EXTENDS Grounding

CONSTANTS MaxLength, MaxEvidence

ASSUME LengthsType == MaxLength \in Nat /\ MaxEvidence \in Nat

Tokens == {Word, Stop, Space, Suggest, Group} \cup {Cite(k) : k \in 0 .. MaxEvidence + 1}

VARIABLE written   \* the brief, as far as the model has written it

Blank == written = << >>

Write(token) == Len(written) < MaxLength /\ written' = Append(written, token)

WriteMore == \E token \in Tokens : Write(token)

Writing == Blank /\ [][WriteMore]_written

\* _ground keeps the rule of its docstring and no other: it passes a brief
\* exactly when every token of it is supported by a valid citation of its own
\* sentence, wherever in the sentence that stands, or belongs to a suggestion
\* as the code recognizes them.
PassedIsSupported ==
  Stripped(written) =>
    \A n \in 0 .. MaxEvidence : Passed(written, n) <=> WellSupported(written, n)

\* A sentence that ended without a citation stays uncited whatever is written
\* after it: "Fact. [E1]" credits the citation to the next sentence.
LateCitationDoesNotCount ==
  [][\A s \in Uncited(written) :
       s[2] < Len(written) /\ Separator(written, s[2] + 1) => s \in Uncited(written')]_written

\* "Rewrite: these sentences lacked a valid citation" (agents.py:134): the
\* request names every sentence without a valid citation that is no suggestion.
HintNamesEveryFault ==
  Stripped(written) =>
    \A n \in 0 .. MaxEvidence : \A s \in Sentences(written) :
      (\E i \in s[1] .. s[2] : ~Supported(written, i, n)) => s \in Hint(written)
=============================================================================
