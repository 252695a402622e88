--------------------------- MODULE GroundingProofs ---------------------------
(***************************************************************************)
(* _ground does what its docstring says, for briefs of any length: it      *)
(* passes exactly the briefs whose every token is supported.               *)
(***************************************************************************)
EXTENDS MCGrounding, WellFoundedInduction, TLAPS

\* A non-empty set of naturals has a least and, if bounded, a greatest element.
LEMMA Least ==
  ASSUME NEW T \in SUBSET Nat, T # {}
  PROVE  \E x \in T : \A y \in T : x <= y
<1> DEFINE Less == {ss \in Nat \X Nat : ss[1] < ss[2]}
<1>1. OpToRel(<, Nat) = Less
  BY Zenon DEF OpToRel
<1>2. IsWellFoundedOn(Less, Nat)
  BY <1>1, NatLessThanWellFounded, Zenon
<1> HIDE DEF Less
<1>3. PICK x \in T : \A y \in T : ~(<<y, x>> \in Less)
  BY <1>2, WFMin
<1>4. ASSUME NEW y \in T PROVE x <= y
  <2>1. <<y, x>> \in Nat \X Nat => ~(y < x)
    BY <1>3 DEF Less
  <2> QED
    BY <2>1
<1> QED
  BY <1>4

LEMMA Greatest ==
  ASSUME NEW n \in Nat, NEW T \in SUBSET (0 .. n), T # {}
  PROVE  \E x \in T : \A y \in T : y <= x
<1> DEFINE U == {n - y : y \in T}
<1>1. U \in SUBSET Nat /\ U # {}
  <2>1. \A y \in T : n - y \in Nat
    OBVIOUS
  <2>2. U \in SUBSET Nat
    BY <2>1
  <2> QED
    BY <2>2
<1>2. PICK u \in U : \A v \in U : u <= v
  BY <1>1, Least
<1>3. PICK x \in T : u = n - x
  BY <1>2
<1>4. ASSUME NEW y \in T PROVE y <= x
  <2>1. n - x <= n - y
    BY <1>2, <1>3
  <2> QED
    BY <2>1
<1> QED
  BY <1>4

-----------------------------------------------------------------------------
\* Every token that is not whitespace stands in a sentence.
LEMMA InSomeSentence ==
  ASSUME NEW brief \in Seq(Token), NEW i \in 1 .. Len(brief), brief[i] # Space
  PROVE  \E s \in Sentences(brief) : i \in s[1] .. s[2]
<1> DEFINE n == Len(brief)
           L == {k \in 1 .. i : \A m \in k .. i : ~Separator(brief, m)}
           R == {k \in i .. n : \A m \in i .. k : ~Separator(brief, m)}
<1>1. n \in Nat /\ ~Separator(brief, i)
  BY DEF Separator
<1>2. i \in L /\ i \in R
  BY <1>1
<1>3. PICK l \in L : \A k \in L : l <= k
  <2>1. L \in SUBSET Nat /\ L # {}
    BY <1>2
  <2> QED
    BY <2>1, Least
<1>4. PICK r \in R : \A k \in R : k <= r
  <2>1. R \in SUBSET (0 .. n) /\ R # {}
    BY <1>1, <1>2
  <2> QED
    BY <1>1, <2>1, Greatest
<1>5. \A m \in l .. r : ~Separator(brief, m)
  <2> SUFFICES ASSUME NEW m \in l .. r PROVE ~Separator(brief, m)
    OBVIOUS
  <2>1. m \in l .. i \/ m \in i .. r
    BY <1>3, <1>4
  <2> QED
    BY <1>3, <1>4, <2>1
<1>6. l = 1 \/ Separator(brief, l - 1)
  <2> SUFFICES ASSUME l # 1, ~Separator(brief, l - 1) PROVE FALSE
    OBVIOUS
  <2>1. l - 1 \in 1 .. i
    BY <1>3
  <2>2. \A m \in l - 1 .. i : m = l - 1 \/ m \in l .. i
    BY <1>3
  <2>3. l - 1 \in L
    BY <1>3, <2>1, <2>2
  <2> QED
    BY <1>3, <2>3
<1>7. r = n \/ Separator(brief, r + 1)
  <2> SUFFICES ASSUME r # n, ~Separator(brief, r + 1) PROVE FALSE
    OBVIOUS
  <2>1. r + 1 \in i .. n
    BY <1>1, <1>4
  <2>2. \A m \in i .. r + 1 : m = r + 1 \/ m \in i .. r
    BY <1>4
  <2>3. r + 1 \in R
    BY <1>4, <2>1, <2>2
  <2> QED
    BY <1>4, <2>3
<1>8. <<l, r>> \in Sentences(brief)
  BY <1>1, <1>3, <1>4, <1>5, <1>6, <1>7 DEF Sentences
<1> QED
  BY <1>3, <1>4, <1>8

\* Two tokens of one sentence have no sentence end between them.
LEMMA OneSentence ==
  ASSUME NEW brief \in Seq(Token), NEW s \in Sentences(brief),
         NEW i \in s[1] .. s[2], NEW j \in s[1] .. s[2]
  PROVE  SameSentence(brief, i, j)
<1> SUFFICES ASSUME NEW k \in 1 .. Len(brief) - 1, brief[k] = Stop, brief[k + 1] = Space,
                    (i <= k /\ k < j) \/ (j <= k /\ k < i)
             PROVE  FALSE
  BY DEF SameSentence
<1>1. s \in (1 .. Len(brief)) \X (1 .. Len(brief))
      /\ \A m \in s[1] .. s[2] : ~Separator(brief, m)
  BY DEF Sentences
<1>2. k + 1 \in s[1] .. s[2]
  BY <1>1
<1>3. Separator(brief, k + 1)
  <2>1. k \in 1 .. (k + 1) - 1 /\ \A m \in k + 1 .. (k + 1) - 1 : brief[m] = Space
    OBVIOUS
  <2> QED
    BY <2>1 DEF Separator
<1> QED
  BY <1>1, <1>2, <1>3

\* No sentence end between two tokens: they are in the same sentence.
LEMMA SentenceCloses ==
  ASSUME NEW brief \in Seq(Token), NEW s \in Sentences(brief), NEW i \in s[1] .. s[2],
         NEW j \in 1 .. Len(brief), brief[i] # Space, brief[j] # Space,
         SameSentence(brief, i, j) \/ SameSentence(brief, j, i)
  PROVE  j \in s[1] .. s[2]
<1>0. /\ s \in (1 .. Len(brief)) \X (1 .. Len(brief))
      /\ s[1] = 1 \/ Separator(brief, s[1] - 1)
      /\ s[2] = Len(brief) \/ Separator(brief, s[2] + 1)
  BY DEF Sentences
<1>1. ASSUME NEW a \in 1 .. Len(brief), NEW b \in 1 .. Len(brief), NEW x \in 1 .. Len(brief),
             brief[a] # Space, brief[b] # Space,
             Separator(brief, x), a < x, x < b
      PROVE  ~SameSentence(brief, a, b) /\ ~SameSentence(brief, b, a)
  <2>1. PICK q \in 1 .. x - 1 : /\ brief[q] = Stop
                                /\ \A k \in q + 1 .. x - 1 : brief[k] = Space
    BY <1>1 DEF Separator
  <2>2. brief[x] = Space
    BY <1>1 DEF Separator
  <2>3. q + 1 = x \/ q + 1 \in q + 1 .. x - 1
    BY <2>1, <1>1
  <2>4. brief[q + 1] = Space
    BY <2>1, <2>2, <2>3
  <2>5. a <= q
    <3> SUFFICES ASSUME a > q PROVE FALSE
      BY <2>1, <1>1
    <3>1. a \in q + 1 .. x - 1
      BY <1>1, <2>1
    <3> QED
      BY <1>1, <2>1, <3>1
  <2>6. q \in 1 .. Len(brief) - 1 /\ a <= q /\ q < b
    BY <1>1, <2>1, <2>5
  <2> QED
    BY <2>1, <2>4, <2>6 DEF SameSentence
<1>2. i \in 1 .. Len(brief) /\ s[1] <= i /\ i <= s[2]
  BY <1>0
<1>3. ~(j > s[2])
  <2> SUFFICES ASSUME j > s[2] PROVE FALSE
    OBVIOUS
  <2>1. Separator(brief, s[2] + 1) /\ s[2] + 1 \in 1 .. Len(brief)
    BY <1>0
  <2>2. brief[s[2] + 1] = Space
    BY <2>1 DEF Separator
  <2>3. s[2] + 1 < j
    BY <1>0, <2>2
  <2> QED
    BY <1>0, <1>1, <1>2, <2>1, <2>3
<1>4. ~(j < s[1])
  <2> SUFFICES ASSUME j < s[1] PROVE FALSE
    OBVIOUS
  <2>1. Separator(brief, s[1] - 1) /\ s[1] - 1 \in 1 .. Len(brief)
    BY <1>0
  <2>2. brief[s[1] - 1] = Space
    BY <2>1 DEF Separator
  <2>3. j < s[1] - 1
    BY <1>0, <2>2
  <2> QED
    BY <1>0, <1>1, <1>2, <2>1, <2>3
<1> QED
  BY <1>0, <1>3, <1>4

\* A sentence of a stripped brief does not begin with whitespace.
LEMMA SentenceBegins ==
  ASSUME NEW brief \in Seq(Token), Stripped(brief), NEW s \in Sentences(brief)
  PROVE  brief[s[1]] # Space
<1>0. /\ s \in (1 .. Len(brief)) \X (1 .. Len(brief)) /\ s[1] <= s[2]
      /\ s[1] = 1 \/ Separator(brief, s[1] - 1)
      /\ ~Separator(brief, s[1])
  BY DEF Sentences
<1>1. CASE s[1] = 1
  BY <1>0, <1>1 DEF Stripped
<1>2. CASE Separator(brief, s[1] - 1) /\ s[1] # 1
  <2> SUFFICES ASSUME brief[s[1]] = Space PROVE FALSE
    OBVIOUS
  <2> DEFINE x == s[1] - 1
  <2>1. x \in 1 .. Len(brief) /\ brief[x] = Space
    BY <1>0, <1>2 DEF Separator
  <2>2. PICK q \in 1 .. x - 1 : brief[q] = Stop /\ \A k \in q + 1 .. x - 1 : brief[k] = Space
    BY <1>2 DEF Separator
  <2>3. \A k \in q + 1 .. s[1] - 1 : k = x \/ k \in q + 1 .. x - 1
    BY <1>0, <2>2
  <2>4. q \in 1 .. s[1] - 1 /\ \A k \in q + 1 .. s[1] - 1 : brief[k] = Space
    BY <1>0, <2>1, <2>2, <2>3
  <2> QED
    BY <1>0, <2>2, <2>4 DEF Separator
<1> QED
  BY <1>0, <1>1, <1>2

\* A suggestion is what opens a sentence, and only that.
LEMMA SuggestionOpens ==
  ASSUME NEW brief \in Seq(Token), Stripped(brief), NEW s \in Sentences(brief),
         NEW j \in s[1] .. s[2]
  PROVE  OpensSuggestion(brief, j) <=> j = s[1] /\ IsSuggestion(brief, s)
<1>0. s \in (1 .. Len(brief)) \X (1 .. Len(brief)) /\ s[1] <= s[2] /\ brief[s[1]] # Space
  BY SentenceBegins DEF Sentences
<1>1. Space # Suggest
  BY DEF Space, Suggest, Plain
<1>2. ASSUME OpensSuggestion(brief, j), j # s[1] PROVE FALSE
  <2>1. SameSentence(brief, s[1], j)
    BY <1>0, OneSentence
  <2>2. s[1] \in 1 .. j - 1
    BY <1>0, <1>2
  <2> QED
    BY <1>0, <1>2, <2>1, <2>2 DEF OpensSuggestion
<1>3. ASSUME j = s[1], brief[j] = Suggest, NEW k \in 1 .. j - 1, brief[k] # Space
      PROVE  ~SameSentence(brief, k, j)
  <2> SUFFICES ASSUME SameSentence(brief, k, j) PROVE FALSE
    OBVIOUS
  <2>1. k \in 1 .. Len(brief)
    BY <1>0
  <2>2. k \in s[1] .. s[2]
    BY <1>1, <1>3, <2>1, SentenceCloses
  <2> QED
    BY <1>0, <1>3, <2>2
<1> QED
  BY <1>2, <1>3 DEF OpensSuggestion, IsSuggestion

\* _ground passes a brief exactly when every token of it is supported by a
\* valid citation of its own sentence or belongs to a suggestion.
THEOREM GroundedIsSupported ==
  ASSUME NEW brief \in Seq(Token), Stripped(brief), NEW n \in Nat
  PROVE  Passed(brief, n) <=> WellSupported(brief, n)
<1>0. \A i \in 1 .. Len(brief) : brief[i] \in Token /\ brief[i].ref \in Int
  <2> SUFFICES ASSUME NEW i \in 1 .. Len(brief)
               PROVE  brief[i] \in Token /\ brief[i].ref \in Int
    OBVIOUS
  <2>1. brief[i] \in Token
    OBVIOUS
  <2> QED
    BY <2>1 DEF Token
<1>1. Space.kind # "cite"
  BY DEF Space, Plain
<1>2. ASSUME Passed(brief, n), NEW i \in 1 .. Len(brief), brief[i] # Space
      PROVE  Supported(brief, i, n)
  <2>1. PICK s \in Sentences(brief) : i \in s[1] .. s[2]
    BY <1>2, InSomeSentence
  <2>2. s \in (1 .. Len(brief)) \X (1 .. Len(brief)) /\ s[1] <= s[2]
    BY DEF Sentences
  <2>3. \A j \in s[1] .. s[2] : brief[j].kind = "cite" => ValidCite(brief, j, n)
    <3> SUFFICES ASSUME NEW j \in s[1] .. s[2], brief[j].kind = "cite",
                        brief[j].ref < 1 \/ brief[j].ref > n
                 PROVE  FALSE
      BY <1>0, <2>2 DEF ValidCite
    <3>1. brief[j].ref \in {r \in Refs(brief, s) : r < 1 \/ r > n}
      BY DEF Refs
    <3>2. brief[j].ref \in BadRefs(brief, n)
      BY <3>1 DEF BadRefs
    <3> QED
      BY <1>2, <3>2 DEF Passed
  <2>4. CASE brief[i].kind = "cite"
    BY <2>1, <2>3, <2>4 DEF Supported
  <2>5. CASE brief[i].kind # "cite"
    <3>1. Refs(brief, s) # {} \/ IsSuggestion(brief, s)
      BY <1>2 DEF Passed, Uncited
    <3>2. PICK j \in s[1] .. s[2] : ValidCite(brief, j, n) \/ OpensSuggestion(brief, j)
      <4>1. CASE Refs(brief, s) # {}
        BY <2>3, <4>1 DEF Refs
      <4>2. CASE IsSuggestion(brief, s)
        BY <2>2, <4>2, SuggestionOpens
      <4> QED
        BY <3>1, <4>1, <4>2
    <3>3. SameSentence(brief, i, j) /\ j \in 1 .. Len(brief)
      BY <2>1, <2>2, OneSentence
    <3> QED
      BY <2>5, <3>2, <3>3 DEF Supported
  <2> QED
    BY <2>4, <2>5
<1>3. ASSUME WellSupported(brief, n), NEW s \in Uncited(brief) PROVE FALSE
  <2>1. s \in Sentences(brief) /\ Refs(brief, s) = {} /\ ~IsSuggestion(brief, s)
    BY DEF Uncited
  <2>2. /\ s \in (1 .. Len(brief)) \X (1 .. Len(brief)) /\ s[1] <= s[2]
        /\ brief[s[1]] # Space
    BY <2>1, SentenceBegins DEF Sentences
  <2>3. \A j \in s[1] .. s[2] : brief[j].kind # "cite"
    BY <2>1 DEF Refs
  <2>4. PICK j \in 1 .. Len(brief) :
          /\ SameSentence(brief, s[1], j)
          /\ ValidCite(brief, j, n) \/ OpensSuggestion(brief, j)
    BY <1>3, <2>2, <2>3 DEF WellSupported, Supported, ValidCite
  <2>5. brief[j] # Space
    BY <1>1, <2>4 DEF ValidCite, OpensSuggestion, Space, Suggest, Plain
  <2>6. j \in s[1] .. s[2]
    BY <2>1, <2>2, <2>4, <2>5, SentenceCloses
  <2> QED
    BY <2>1, <2>3, <2>4, <2>6, SuggestionOpens DEF ValidCite
<1>4. ASSUME WellSupported(brief, n), NEW r \in BadRefs(brief, n) PROVE FALSE
  <2>1. PICK s \in Sentences(brief) : r \in Refs(brief, s) /\ (r < 1 \/ r > n)
    BY DEF BadRefs
  <2>2. PICK j \in s[1] .. s[2] : brief[j].kind = "cite" /\ r = brief[j].ref
    BY <2>1 DEF Refs
  <2>3. j \in 1 .. Len(brief)
    BY DEF Sentences
  <2> QED
    BY <1>1, <1>4, <2>1, <2>2, <2>3 DEF WellSupported, Supported, ValidCite
<1>5. \A i \in 1 .. Len(brief) : brief[i] = Space => Supported(brief, i, n)
  BY DEF Supported
<1> QED
  BY <1>2, <1>3, <1>4, <1>5 DEF WellSupported, Passed
-----------------------------------------------------------------------------
(***************************************************************************)
(* The brief while it is written.                                          *)
(***************************************************************************)
WrittenTyped == written \in Seq(Token)

LEMMA TokensTyped == Tokens \subseteq Token
<1>1. /\ Word \in Token /\ Stop \in Token /\ Space \in Token
      /\ Suggest \in Token /\ Group \in Token
  BY DEF Word, Stop, Space, Suggest, Group, Plain, Token
<1>2. ASSUME NEW k \in 0 .. MaxEvidence + 1 PROVE Cite(k) \in Token
  <2>1. k \in Int
    BY LengthsType
  <2> QED
    BY <2>1 DEF Cite, Token
<1> QED
  BY <1>1, <1>2 DEF Tokens

LEMMA WrittenStep == WrittenTyped /\ [WriteMore]_written => WrittenTyped'
<1>1. ASSUME WrittenTyped, NEW token \in Tokens, Write(token) PROVE WrittenTyped'
  BY <1>1, TokensTyped DEF WrittenTyped, Write
<1> QED
  BY <1>1 DEF WriteMore, WrittenTyped

\* A brief is passed exactly when it is supported by the docstring's rule,
\* whatever the model has written and however much evidence there is.
THEOREM PassesTheSupported == Writing => []PassedIsSupported
<1>1. Blank => WrittenTyped
  BY DEF Blank, WrittenTyped
<1>2. WrittenTyped => PassedIsSupported
  BY GroundedIsSupported DEF WrittenTyped, PassedIsSupported
<1> QED
  BY <1>1, <1>2, WrittenStep, PTL DEF Writing

\* A sentence that has ended is the same sentence of a longer brief, with the
\* same citations.
LEMMA EndedSentenceStays ==
  ASSUME NEW brief \in Seq(Token), NEW token \in Token, NEW s \in Sentences(brief),
         s[2] < Len(brief), Separator(brief, s[2] + 1)
  PROVE  /\ s \in Sentences(Append(brief, token))
         /\ Refs(Append(brief, token), s) = Refs(brief, s)
         /\ IsSuggestion(Append(brief, token), s) = IsSuggestion(brief, s)
<1> DEFINE longer == Append(brief, token)
<1>1. /\ Len(longer) = Len(brief) + 1 /\ Len(brief) \in Nat
      /\ \A i \in 1 .. Len(brief) : longer[i] = brief[i]
  OBVIOUS
<1> HIDE DEF longer
<1>2. /\ s \in (1 .. Len(brief)) \X (1 .. Len(brief)) /\ s[1] <= s[2]
      /\ \A i \in s[1] .. s[2] : ~Separator(brief, i)
      /\ s[1] = 1 \/ Separator(brief, s[1] - 1)
  BY DEF Sentences
<1>3. ASSUME NEW i \in 1 .. Len(brief) PROVE Separator(longer, i) <=> Separator(brief, i)
  <2>1. \A j \in 1 .. i - 1 : j \in 1 .. Len(brief) /\ \A k \in j + 1 .. i - 1 : k \in 1 .. Len(brief)
    BY <1>1
  <2> QED
    BY <1>1, <2>1 DEF Separator
<1>4. /\ \A i \in s[1] .. s[2] : i \in 1 .. Len(brief)
      /\ s[2] + 1 \in 1 .. Len(brief)
      /\ s[1] # 1 => s[1] - 1 \in 1 .. Len(brief)
  BY <1>1, <1>2
<1>5. /\ \A i \in s[1] .. s[2] : ~Separator(longer, i)
      /\ s[1] = 1 \/ Separator(longer, s[1] - 1)
      /\ Separator(longer, s[2] + 1)
  BY <1>2, <1>3, <1>4
<1>6. s \in (1 .. Len(longer)) \X (1 .. Len(longer))
  BY <1>1, <1>2
<1>7. s \in Sentences(longer)
  BY <1>2, <1>5, <1>6 DEF Sentences
<1>8. Refs(longer, s) = Refs(brief, s)
  BY <1>1, <1>4 DEF Refs
<1>9. IsSuggestion(longer, s) = IsSuggestion(brief, s)
  BY <1>1, <1>2 DEF IsSuggestion
<1> QED
  BY <1>7, <1>8, <1>9 DEF longer

\* A sentence that ended without a citation stays uncited, whatever is written
\* after it and however long the brief becomes.
THEOREM LateCitationsCreditTheNext == Writing => LateCitationDoesNotCount
<1>1. Blank => WrittenTyped
  BY DEF Blank, WrittenTyped
<1>2. WrittenTyped /\ [WriteMore]_written =>
        [\A s \in Uncited(written) :
           s[2] < Len(written) /\ Separator(written, s[2] + 1) => s \in Uncited(written')]_written
  <2> SUFFICES ASSUME WrittenTyped, WriteMore, NEW s \in Uncited(written),
                      s[2] < Len(written), Separator(written, s[2] + 1)
               PROVE  s \in Uncited(written')
    OBVIOUS
  <2>1. PICK token \in Token : written' = Append(written, token)
    BY TokensTyped DEF WriteMore, Write
  <2>2. s \in Sentences(written) /\ Refs(written, s) = {} /\ ~IsSuggestion(written, s)
    BY DEF Uncited
  <2> QED
    BY <2>1, <2>2, EndedSentenceStays DEF WrittenTyped, Uncited
<1> QED
  BY <1>1, <1>2, WrittenStep, PTL DEF Writing, LateCitationDoesNotCount
=============================================================================
