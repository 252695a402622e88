------------------------------ MODULE BookProofs ------------------------------
(***************************************************************************)
(* Proofs about Book for any clients, advisors, calls and keys.            *)
(***************************************************************************)
EXTENDS Book, FiniteSetTheorems, TLAPS

\* Every step keeps the types.
LEMMA TypedStep == TypeOK /\ [Next]_vars => TypeOK'
<1> SUFFICES ASSUME TypeOK, [Next]_vars PROVE TypeOK'
  OBVIOUS
<1> USE KeysType DEF TypeOK, Keys, Move, store, cursor, history
<1>1. ASSUME NEW k \in Keys, NEW x \in Advisors \cup Unreadable, Change(k, x) PROVE TypeOK'
  BY <1>1 DEF Change, Owned, Broken
<1>2. ASSUME NEW c \in Requests, Begin(c) PROVE TypeOK'
  BY <1>2 DEF Begin, Owned, Broken
<1>3. ASSUME NEW c \in Requests, Reject(c) \/ Fail(c) PROVE TypeOK'
  BY <1>3 DEF Reject, Fail
<1>4. ASSUME NEW c \in Requests, NEW k \in Keys, NextPage(c, k) PROVE TypeOK'
  BY <1>4 DEF NextPage, Remaining
<1>5. ASSUME NEW c \in Requests, EmptyPage(c) \/ EndOfPage(c) PROVE TypeOK'
  BY <1>5 DEF EmptyPage, EndOfPage
<1>6. ASSUME NEW c \in Requests, NEW k \in Keys, Skip(c, k) \/ LoadRaises(c, k) PROVE TypeOK'
  BY <1>6 DEF Skip, LoadRaises, Pass
<1>7. ASSUME NEW c \in Requests, NEW k \in Keys, Load(c, k) PROVE TypeOK'
  <2>1. ClientOf[k] \in Clients /\ ids[c] \in Seq(Clients)
    BY <1>7 DEF Load
  <2>2. Append(ids[c], ClientOf[k]) \in Seq(Clients)
    BY <2>1
  <2>3. ids' \in [Requests -> Seq(Clients)]
    BY <1>7, <2>1, <2>2 DEF Load
  <2> QED
    BY <1>7, <2>3 DEF Load, Pass
<1>8. CASE UNCHANGED vars
  BY <1>8 DEF vars
<1> QED
  BY <1>1, <1>2, <1>3, <1>4, <1>5, <1>6, <1>7, <1>8 DEF Next

LEMMA TypedInit == Init => TypeOK
BY KeysType DEF Init, TypeOK, Keys

\* The types of the store and of the calls on it.
THEOREM Typing == Spec => []TypeOK
BY TypedInit, TypedStep, PTL DEF Spec
-----------------------------------------------------------------------------
(***************************************************************************)
(* What a call must still find is either found, on its page, or behind the *)
(* last key listed while there is more.  The histories bound what the      *)
(* store holds now: steady and broken from below, ever from above.         *)
(***************************************************************************)
UnderWay(c) == pc[c] \in {"page", "look"}

Ahead(c, k) == k \in page[c] \/ (k > last[c] /\ more[c])

HistoryOK(c) ==
  UnderWay(c) =>
    /\ steady[c] \subseteq Owned(object, AdvisorOf[c])
    /\ Owned(object, AdvisorOf[c]) \subseteq ever[c]
    /\ broken[c] \subseteq Broken(object)

FoundOK(c) ==
  /\ UnderWay(c) =>
       /\ \A i \in steady[c] : i \in Found(c) \/ Ahead(c, KeyOf[i])
       /\ \A k \in broken[c] : Ahead(c, k)
  /\ pc[c] = "idle" => Found(c) = {} /\ page[c] = {} /\ last[c] = 0 /\ more[c]
  /\ pc[c] = "page" => page[c] = {} /\ more[c]
  /\ pc[c] # "idle" => Found(c) \subseteq ever[c]
  /\ pc[c] = "answered" => steady[c] \subseteq Found(c) /\ broken[c] = {}

BookInv == TypeOK /\ \A c \in Requests : HistoryOK(c) /\ FoundOK(c)

LEMMA FoundAppend ==
  ASSUME NEW s \in Seq(Clients), NEW i \in Clients
  PROVE  {Append(s, i)[n] : n \in 1 .. Len(Append(s, i))} = {s[n] : n \in 1 .. Len(s)} \cup {i}
<1>1. Len(Append(s, i)) = Len(s) + 1 /\ Append(s, i)[Len(s) + 1] = i
      /\ \A n \in 1 .. Len(s) : Append(s, i)[n] = s[n]
  OBVIOUS
<1> QED
  BY <1>1

\* A call whose own state a step leaves alone, with its histories.
Same(c) ==
  /\ pc'[c] = pc[c] /\ page'[c] = page[c] /\ last'[c] = last[c] /\ more'[c] = more[c]
  /\ ids'[c] = ids[c]

LEMMA SameFound ==
  ASSUME NEW c \in Requests, Same(c)
  PROVE  /\ Found(c)' = Found(c) /\ UnderWay(c)' = UnderWay(c)
         /\ \A k : Ahead(c, k)' = Ahead(c, k)
<1>1. Found(c)' = Found(c)
  BY DEF Same, Found
<1>2. UnderWay(c)' = UnderWay(c)
  BY DEF Same, UnderWay
<1>3. ASSUME NEW k PROVE Ahead(c, k)' = Ahead(c, k)
  BY DEF Same, Ahead
<1> QED
  BY <1>1, <1>2, <1>3

LEMMA SameKeeps ==
  ASSUME BookInv, NEW c \in Requests, Same(c), object' = object,
         steady'[c] = steady[c], ever'[c] = ever[c], broken'[c] = broken[c]
  PROVE  HistoryOK(c)' /\ FoundOK(c)'
<1>1. HistoryOK(c) /\ FoundOK(c)
  BY DEF BookInv
<1>2. Owned(object, AdvisorOf[c])' = Owned(object, AdvisorOf[c]) /\ Broken(object)' = Broken(object)
  BY DEF Owned, Broken
<1>3. HistoryOK(c)'
  BY <1>1, <1>2, SameFound DEF HistoryOK
<1>4. FoundOK(c)'
  BY <1>1, SameFound DEF FoundOK, Same
<1> QED
  BY <1>3, <1>4

\* Every step keeps it.
LEMMA BookStep == BookInv /\ [Next]_vars => BookInv'
<1> SUFFICES ASSUME BookInv, [Next]_vars, NEW d \in Requests
             PROVE  HistoryOK(d)' /\ FoundOK(d)'
  BY TypedStep DEF BookInv
<1> DEFINE Goal == HistoryOK(d)' /\ FoundOK(d)'
<1>0. TypeOK /\ HistoryOK(d) /\ FoundOK(d)
  BY DEF BookInv
<1> USE <1>0
<1>1. ASSUME NEW k \in Keys, NEW x \in Advisors \cup Unreadable, Change(k, x) PROVE Goal
  <2>1. /\ steady'[d] = steady[d] \cap Owned(object', AdvisorOf[d])
        /\ ever'[d] = ever[d] \cup Owned(object', AdvisorOf[d])
        /\ broken'[d] = broken[d] \cap Broken(object')
    BY <1>1 DEF Change
  <2>2. Same(d)
    BY <1>1 DEF Change, Same, cursor
  <2>3. HistoryOK(d)'
    BY <2>1 DEF HistoryOK, Owned, Broken
  <2>4. FoundOK(d)'
    BY <2>1, <2>2, SameFound DEF FoundOK, Same
  <2> QED
    BY <2>3, <2>4
<1>2. ASSUME NEW c \in Requests, Begin(c) PROVE Goal
  <2>1. CASE c # d
    BY <1>2, <2>1, SameKeeps DEF Begin, Move, Same, store, cursor, TypeOK
  <2>2. CASE c = d
    <3>1. /\ pc[d] = "idle" /\ pc'[d] = "page" /\ object' = object
          /\ steady'[d] = Owned(object, AdvisorOf[d]) /\ ever'[d] = Owned(object, AdvisorOf[d])
          /\ broken'[d] = Broken(object)
          /\ page'[d] = page[d] /\ last'[d] = last[d] /\ more'[d] = more[d] /\ ids'[d] = ids[d]
      BY <1>2, <2>2 DEF Begin, Move, store, cursor, TypeOK
    <3>2. HistoryOK(d)'
      BY <3>1 DEF HistoryOK, Owned, Broken
    <3>3. /\ \A i \in Owned(object, AdvisorOf[d]) : KeyOf[i] \in Keys
          /\ Broken(object) \subseteq Keys /\ \A k \in Keys : k > 0
      BY KeysType DEF Owned, Broken, Keys
    <3>4. FoundOK(d)'
      BY <3>1, <3>3 DEF FoundOK, UnderWay, Ahead, Found
    <3> QED
      BY <3>2, <3>4
  <2> QED
    BY <2>1, <2>2
<1>3. ASSUME NEW c \in Requests, Reject(c) \/ Fail(c) PROVE Goal
  <2>1. CASE c # d
    BY <1>3, <2>1, SameKeeps DEF Reject, Fail, Move, Same, store, cursor, history, TypeOK
  <2>2. CASE c = d
    <3>1. /\ pc'[d] = "error" /\ ids'[d] = ids[d] /\ ever'[d] = ever[d]
          /\ pc[d] = "idle" => Found(d) = {}
      BY <1>3, <2>2 DEF Reject, Fail, Move, cursor, history, TypeOK, FoundOK
    <3> QED
      BY <3>1 DEF HistoryOK, FoundOK, UnderWay, Found
  <2> QED
    BY <2>1, <2>2
<1>4. ASSUME NEW c \in Requests, NEW end \in Keys, NextPage(c, end) PROVE Goal
  <2>1. CASE c # d
    BY <1>4, <2>1, SameKeeps DEF NextPage, Move, Same, store, history, TypeOK
  <2>2. CASE c = d
    <3>1. /\ pc[d] = "page" /\ pc'[d] = "look" /\ object' = object /\ ids'[d] = ids[d]
          /\ UNCHANGED <<steady, ever, broken>>
          /\ page'[d] = {k \in Remaining(d) : k <= end} /\ last'[d] = end
          /\ more'[d] = \E k \in Remaining(d) : k > end
          /\ end \in Remaining(d)
      BY <1>4, <2>2 DEF NextPage, Move, store, history, TypeOK
    <3>2. HistoryOK(d)'
      BY <3>1 DEF HistoryOK, UnderWay, Owned, Broken
    <3>3. ASSUME NEW k \in Keys, Ahead(d, k), object[k] # Absent PROVE Ahead(d, k)'
      <4>1. k \in Remaining(d)
        BY <3>1, <3>3 DEF FoundOK, Ahead, Remaining
      <4> QED
        BY <3>1, <4>1 DEF Ahead, Keys
    <3>4. /\ \A i \in steady[d] : KeyOf[i] \in Keys /\ object[KeyOf[i]] # Absent
          /\ \A k \in broken[d] : k \in Keys /\ object[k] # Absent
      BY <3>1, KeysType, AdvisorOfType, NamesDistinct
      DEF HistoryOK, UnderWay, Owned, Broken, Unreadable, Absent
    <3>5. Found(d)' = Found(d)
      BY <3>1 DEF Found
    <3>6. FoundOK(d)'
      BY <3>1, <3>3, <3>4, <3>5 DEF FoundOK, UnderWay
    <3> QED
      BY <3>2, <3>6
  <2> QED
    BY <2>1, <2>2
<1>5. ASSUME NEW c \in Requests, EmptyPage(c) PROVE Goal
  <2>1. CASE c # d
    BY <1>5, <2>1, SameKeeps DEF EmptyPage, Move, Same, store, history, TypeOK
  <2>2. CASE c = d
    <3>1. /\ pc[d] = "page" /\ pc'[d] = "look" /\ object' = object /\ ids'[d] = ids[d]
          /\ UNCHANGED <<steady, ever, broken>> /\ page'[d] = page[d] /\ Remaining(d) = {}
      BY <1>5, <2>2 DEF EmptyPage, Move, store, history, TypeOK
    <3>2. HistoryOK(d)'
      BY <3>1 DEF HistoryOK, UnderWay, Owned, Broken
    <3>3. /\ \A i \in steady[d] : KeyOf[i] \in Keys /\ object[KeyOf[i]] # Absent
          /\ \A k \in broken[d] : k \in Keys /\ object[k] # Absent
      BY <3>1, KeysType, AdvisorOfType, NamesDistinct
      DEF HistoryOK, UnderWay, Owned, Broken, Unreadable, Absent
    <3>4. \A k \in Keys : object[k] # Absent => ~Ahead(d, k)
      BY <3>1 DEF FoundOK, Ahead, Remaining
    <3>5. Found(d)' = Found(d)
      BY <3>1 DEF Found
    <3>6. FoundOK(d)'
      BY <3>1, <3>3, <3>4, <3>5 DEF FoundOK, UnderWay
    <3> QED
      BY <3>2, <3>6
  <2> QED
    BY <2>1, <2>2
<1>6. ASSUME NEW c \in Requests, EndOfPage(c) PROVE Goal
  <2>1. CASE c # d
    BY <1>6, <2>1, SameKeeps DEF EndOfPage, Move, Same, store, cursor, history, TypeOK
  <2>2. CASE c = d
    <3>1. /\ pc[d] = "look" /\ pc'[d] = (IF more[d] THEN "page" ELSE "answered") /\ page[d] = {}
          /\ UNCHANGED <<object, ids, steady, ever, broken, page, last, more>>
      BY <1>6, <2>2 DEF EndOfPage, Move, store, cursor, history, TypeOK
    <3>2. HistoryOK(d)'
      BY <3>1 DEF HistoryOK, UnderWay, Owned, Broken
    <3>3. FoundOK(d)'
      BY <3>1 DEF FoundOK, UnderWay, Ahead, Found
    <3> QED
      BY <3>2, <3>3
  <2> QED
    BY <2>1, <2>2
<1>7. ASSUME NEW c \in Requests, NEW k \in Keys, Skip(c, k) PROVE Goal
  <2>1. CASE c # d
    BY <1>7, <2>1, SameKeeps DEF Skip, Pass, At, Same, store, history, TypeOK
  <2>2. CASE c = d
    <3>1. /\ pc[d] = "look" /\ ClientOf[k] = NotJson /\ page'[d] = page[d] \ {k}
          /\ UNCHANGED <<object, pc, ids, steady, ever, broken, last, more>>
      BY <1>7, <2>2 DEF Skip, At, Pass, store, history, TypeOK
    <3>2. HistoryOK(d)'
      BY <3>1 DEF HistoryOK, UnderWay, Owned, Broken
    <3>3. /\ \A i \in steady[d] : KeyOf[i] # k
          /\ \A j \in broken[d] : j # k
      BY <3>1, KeysType, NamesDistinct DEF HistoryOK, UnderWay, Owned, Broken
    <3>4. \A j \in Keys : Ahead(d, j) /\ j # k => Ahead(d, j)'
      BY <3>1 DEF Ahead
    <3>5. (\A i \in steady[d] : KeyOf[i] \in Keys) /\ broken[d] \subseteq Keys
      BY KeysType DEF TypeOK
    <3>6. FoundOK(d)'
      BY <3>1, <3>3, <3>4, <3>5 DEF FoundOK, UnderWay, Found
    <3> QED
      BY <3>2, <3>6
  <2> QED
    BY <2>1, <2>2
<1>8. ASSUME NEW c \in Requests, NEW k \in Keys, Load(c, k) PROVE Goal
  <2>1. CASE c # d
    BY <1>8, <2>1, SameKeeps DEF Load, Pass, At, Same, store, history, TypeOK
  <2>2. CASE c = d
    <3>1. /\ pc[d] = "look" /\ ClientOf[k] # NotJson /\ page'[d] = page[d] \ {k}
          /\ Loaded(k) \notin Unreadable
          /\ UNCHANGED <<object, pc, steady, ever, broken, last, more>>
          /\ ids'[d] = IF Loaded(k) = AdvisorOf[d] THEN Append(ids[d], ClientOf[k]) ELSE ids[d]
      BY <1>8, <2>2 DEF Load, At, Pass, store, history, TypeOK
    <3>2. HistoryOK(d)'
      BY <3>1 DEF HistoryOK, UnderWay, Owned, Broken
    <3>3. ClientOf[k] \in Clients /\ ids[d] \in Seq(Clients)
      BY <3>1, KeysType DEF TypeOK
    <3>4. Found(d)' = IF Loaded(k) = AdvisorOf[d] THEN Found(d) \cup {ClientOf[k]} ELSE Found(d)
      BY <3>1, <3>3, FoundAppend DEF Found
    <3>5. Loaded(k) = AdvisorOf[d] => ClientOf[k] \in Owned(object, AdvisorOf[d])
      BY <3>3 DEF Owned, Loaded
    <3>6. /\ \A i \in steady[d] : KeyOf[i] = k => i \in Found(d)'
          /\ \A j \in broken[d] : j # k
      BY <3>1, <3>4, KeysType, NamesDistinct DEF HistoryOK, UnderWay, Owned, Broken, Loaded
    <3>7. \A j \in Keys : Ahead(d, j) /\ j # k => Ahead(d, j)'
      BY <3>1 DEF Ahead
    <3>8. (\A i \in steady[d] : KeyOf[i] \in Keys) /\ broken[d] \subseteq Keys
      BY KeysType DEF TypeOK
    <3>9. Found(d) \subseteq Found(d)'
      BY <3>4
    <3>10. Found(d)' \subseteq ever[d]
      BY <3>1, <3>4, <3>5 DEF FoundOK, HistoryOK, UnderWay
    <3>11. FoundOK(d)'
      BY <3>1, <3>6, <3>7, <3>8, <3>9, <3>10 DEF FoundOK, UnderWay
    <3> QED
      BY <3>2, <3>11
  <2> QED
    BY <2>1, <2>2
<1>9. ASSUME NEW c \in Requests, NEW k \in Keys, LoadRaises(c, k) PROVE Goal
  <2>1. CASE c # d
    BY <1>9, <2>1, SameKeeps DEF LoadRaises, At, Same, store, cursor, history, TypeOK
  <2>2. CASE c = d
    <3>1. pc[d] = "look" /\ pc'[d] = "error" /\ ids'[d] = ids[d] /\ ever'[d] = ever[d]
      BY <1>9, <2>2 DEF LoadRaises, At, cursor, history, TypeOK
    <3> QED
      BY <3>1 DEF HistoryOK, FoundOK, UnderWay, Found
  <2> QED
    BY <2>1, <2>2
<1>10. CASE UNCHANGED vars
  BY <1>10, SameKeeps DEF vars, Same, store, cursor, history
<1> QED
  BY <1>1, <1>2, <1>3, <1>4, <1>5, <1>6, <1>7, <1>8, <1>9, <1>10 DEF Next

LEMMA BookInit == Init => BookInv
<1> SUFFICES ASSUME Init, NEW c \in Requests PROVE HistoryOK(c) /\ FoundOK(c)
  BY TypedInit DEF BookInv
<1>1. /\ pc[c] = "idle" /\ page[c] = {} /\ last[c] = 0 /\ more[c] /\ ids[c] = << >>
  BY DEF Init
<1> QED
  BY <1>1 DEF HistoryOK, FoundOK, UnderWay, Found

\* A book that is answered holds every client the advisor had all through the
\* call and none that the advisor never had during it.
THEOREM BooksAreBetween == Spec => []BookIsBetween
<1>1. BookInv => BookIsBetween
  BY DEF BookInv, FoundOK, BookIsBetween
<1> QED
  BY <1>1, BookInit, BookStep, PTL DEF Spec

\* No book is answered past a record that stayed unreadable.
THEOREM BooksAreComplete == Spec => []NoneLeftOut
<1>1. BookInv => NoneLeftOut
  BY DEF BookInv, FoundOK, NoneLeftOut
<1> QED
  BY <1>1, BookInit, BookStep, PTL DEF Spec
-----------------------------------------------------------------------------
(***************************************************************************)
(* No client more often than it has keys: what a call has found so far     *)
(* comes from keys it has left behind, which no page lists again.          *)
(***************************************************************************)
Times(c, i) == {n \in 1 .. Len(ids[c]) : ids[c][n] = i}
Behind(c, i) == {k \in Keys : ClientOf[k] = i /\ k <= last[c] /\ k \notin page[c]}

OnceOK(c) ==
  /\ \A k \in page[c] : k <= last[c]
  /\ \A i \in Clients : Cardinality(Times(c, i)) <= Cardinality(Behind(c, i))

OnceInv == TypeOK /\ \A c \in Requests : OnceOK(c)

\* These sets are finite, so that their sizes are numbers.
LEMMA SizesAreNumbers ==
  ASSUME TypeOK, NEW c \in Requests, NEW i
  PROVE  /\ IsFiniteSet(Times(c, i)) /\ Cardinality(Times(c, i)) \in Nat
         /\ IsFiniteSet(Behind(c, i)) /\ Cardinality(Behind(c, i)) \in Nat
<1>1. Len(ids[c]) \in Nat /\ LastKey \in Nat
  BY KeysType DEF TypeOK
<1>2. IsFiniteSet(1 .. Len(ids[c])) /\ IsFiniteSet(Keys)
  BY <1>1, FS_Interval DEF Keys
<1>3. Times(c, i) \subseteq 1 .. Len(ids[c]) /\ Behind(c, i) \subseteq Keys
  BY DEF Times, Behind
<1>4. IsFiniteSet(Times(c, i)) /\ IsFiniteSet(Behind(c, i))
  BY <1>2, <1>3, FS_Subset
<1> QED
  BY <1>4, FS_CardinalityType

\* A step of a call that finds nothing and leaves no fewer keys behind.
LEMMA NothingFound ==
  ASSUME OnceInv, TypeOK', NEW c \in Requests, ids'[c] = ids[c],
         \A k \in page'[c] : k <= last'[c],
         \A k \in Keys : k <= last[c] /\ k \notin page[c] => k <= last'[c] /\ k \notin page'[c]
  PROVE  OnceOK(c)'
<1>1. TypeOK /\ OnceOK(c)
  BY DEF OnceInv
<1>2. ASSUME NEW i \in Clients PROVE Cardinality(Times(c, i)') <= Cardinality(Behind(c, i)')
  <2>1. Times(c, i)' = Times(c, i) /\ Behind(c, i) \subseteq Behind(c, i)'
    BY DEF Times, Behind
  <2>2. IsFiniteSet(Behind(c, i)') /\ Cardinality(Behind(c, i)') \in Nat
    <3>1. IsFiniteSet(Keys) /\ Behind(c, i)' \subseteq Keys
      BY KeysType, FS_Interval DEF Keys, Behind
    <3> QED
      BY <3>1, FS_Subset, FS_CardinalityType
  <2>3. Cardinality(Behind(c, i)) <= Cardinality(Behind(c, i)')
    BY <2>1, <2>2, FS_Subset
  <2> QED
    BY <1>1, <2>1, <2>2, <2>3, SizesAreNumbers DEF OnceOK
<1> QED
  BY <1>2 DEF OnceOK

\* The client of a key is found: one more, from a key that is now behind.
LEMMA OneFound ==
  ASSUME OnceInv, NEW c \in Requests, NEW k \in Keys, k \in page[c], ClientOf[k] \in Clients,
         ids'[c] = Append(ids[c], ClientOf[k]), page'[c] = page[c] \ {k}, last'[c] = last[c]
  PROVE  OnceOK(c)'
<1>1. TypeOK /\ OnceOK(c) /\ k <= last[c] /\ ids[c] \in Seq(Clients) /\ Len(ids[c]) \in Nat
  BY DEF OnceInv, OnceOK, TypeOK
<1>2. /\ Len(ids'[c]) = Len(ids[c]) + 1 /\ ids'[c][Len(ids[c]) + 1] = ClientOf[k]
      /\ \A n \in 1 .. Len(ids[c]) : ids'[c][n] = ids[c][n]
  BY <1>1
<1>3. ASSUME NEW i \in Clients PROVE Cardinality(Times(c, i)') <= Cardinality(Behind(c, i)')
  <2>0. /\ IsFiniteSet(Times(c, i)) /\ Cardinality(Times(c, i)) \in Nat
        /\ IsFiniteSet(Behind(c, i)) /\ Cardinality(Behind(c, i)) \in Nat
        /\ Cardinality(Times(c, i)) <= Cardinality(Behind(c, i))
    BY <1>1, SizesAreNumbers DEF OnceOK
  <2>1. CASE ClientOf[k] # i
    <3>1. Times(c, i)' = Times(c, i)
      BY <1>1, <1>2, <2>1 DEF Times
    <3>2. Behind(c, i)' = Behind(c, i)
      BY <2>1 DEF Behind
    <3> QED
      BY <2>0, <3>1, <3>2
  <2>2. CASE ClientOf[k] = i
    <3>1. Times(c, i)' = Times(c, i) \cup {Len(ids[c]) + 1} /\ Len(ids[c]) + 1 \notin Times(c, i)
      BY <1>1, <1>2, <2>2 DEF Times
    <3>2. Behind(c, i)' = Behind(c, i) \cup {k} /\ k \notin Behind(c, i)
      BY <1>1, <2>2 DEF Behind
    <3>3. Cardinality(Times(c, i)') = Cardinality(Times(c, i)) + 1
      BY <2>0, <3>1, FS_AddElement
    <3>4. Cardinality(Behind(c, i)') = Cardinality(Behind(c, i)) + 1
      BY <2>0, <3>2, FS_AddElement
    <3> QED
      BY <2>0, <3>3, <3>4
  <2> QED
    BY <2>1, <2>2
<1>4. \A j \in page'[c] : j <= last'[c]
  BY <1>1 DEF OnceOK
<1> QED
  BY <1>3, <1>4 DEF OnceOK

LEMMA OnceStep == OnceInv /\ [Next]_vars => OnceInv'
<1> SUFFICES ASSUME OnceInv, [Next]_vars, TypeOK', NEW d \in Requests PROVE OnceOK(d)'
  BY TypedStep DEF OnceInv
<1>0. /\ TypeOK /\ OnceOK(d) /\ page[d] \subseteq Keys /\ last[d] \in Nat
      /\ \A k \in page[d] : k <= last[d]
  BY DEF OnceInv, OnceOK, TypeOK
<1>1. CASE ids'[d] = ids[d] /\ page'[d] = page[d] /\ last'[d] = last[d]
  BY <1>0, <1>1, NothingFound
<1>2. ASSUME NEW end \in Keys, NextPage(d, end) PROVE OnceOK(d)'
  <2>1. /\ page'[d] = {k \in Remaining(d) : k <= end} /\ last'[d] = end /\ ids'[d] = ids[d]
        /\ end > last[d] /\ end \in Nat
    BY <1>0, <1>2 DEF NextPage, Remaining, TypeOK, Keys
  <2>2. /\ \A k \in page'[d] : k <= last'[d]
        /\ \A k \in Keys : k <= last[d] => k <= last'[d] /\ k \notin page'[d]
    BY <1>0, <2>1 DEF Remaining, Keys
  <2> QED
    BY <2>1, <2>2, NothingFound
<1>3. ASSUME NEW k \in Keys, Skip(d, k) PROVE OnceOK(d)'
  <2>1. page'[d] = page[d] \ {k} /\ last'[d] = last[d] /\ ids'[d] = ids[d]
    BY <1>0, <1>3 DEF Skip, Pass, TypeOK
  <2> QED
    BY <1>0, <2>1, NothingFound
<1>4. ASSUME NEW k \in Keys, Load(d, k) PROVE OnceOK(d)'
  <2>1. /\ k \in page[d] /\ page'[d] = page[d] \ {k} /\ last'[d] = last[d]
        /\ ids'[d] = ids[d] \/ ids'[d] = Append(ids[d], ClientOf[k])
        /\ ClientOf[k] \in Clients
    BY <1>0, <1>4, KeysType DEF Load, At, Pass, TypeOK
  <2> QED
    BY <1>0, <2>1, NothingFound, OneFound
<1>5. ASSUME Next,
             ~\E k \in Keys : NextPage(d, k) \/ Skip(d, k) \/ Load(d, k)
      PROVE  ids'[d] = ids[d] /\ page'[d] = page[d] /\ last'[d] = last[d]
  <2>1. ASSUME NEW k \in Keys, NEW x \in Advisors \cup Unreadable, Change(k, x)
        PROVE  ids'[d] = ids[d] /\ page'[d] = page[d] /\ last'[d] = last[d]
    BY <2>1 DEF Change, cursor
  <2>2. ASSUME NEW c \in Requests,
               \/ Begin(c) \/ Reject(c) \/ EmptyPage(c) \/ EndOfPage(c) \/ Fail(c)
               \/ \E k \in Keys : LoadRaises(c, k)
        PROVE  ids'[d] = ids[d] /\ page'[d] = page[d] /\ last'[d] = last[d]
    BY <2>2 DEF Begin, Reject, EmptyPage, EndOfPage, Fail, LoadRaises, cursor
  <2>3. ASSUME NEW c \in Requests, c # d, NEW k \in Keys,
               NextPage(c, k) \/ Skip(c, k) \/ Load(c, k)
        PROVE  ids'[d] = ids[d] /\ page'[d] = page[d] /\ last'[d] = last[d]
    BY <1>0, <2>3 DEF NextPage, Skip, Load, Pass, TypeOK
  <2> QED
    BY <1>5, <2>1, <2>2, <2>3 DEF Next
<1> QED
  BY <1>1, <1>2, <1>3, <1>4, <1>5 DEF vars, cursor

\* A client is listed at most once for each key that names it, for any number
\* of keys, pages and changes, although its record may be deleted and uploaded
\* again between two pages.
THEOREM ListedOncePerKey == Spec => []OncePerKey
<1>1. Init => OnceInv
  <2> SUFFICES ASSUME Init, NEW c \in Requests PROVE OnceOK(c)
    BY TypedInit DEF OnceInv
  <2>1. TypeOK /\ ids[c] = << >> /\ page[c] = {}
    BY TypedInit DEF Init
  <2>2. ASSUME NEW i \in Clients PROVE Cardinality(Times(c, i)) <= Cardinality(Behind(c, i))
    <3>1. Times(c, i) = {}
      BY <2>1 DEF Times
    <3>2. Cardinality(Times(c, i)) = 0
      BY <3>1, FS_EmptySet
    <3> QED
      BY <2>1, <3>2, SizesAreNumbers
  <2> QED
    BY <2>1, <2>2 DEF OnceOK
<1>2. OnceInv => OncePerKey
  <2> SUFFICES ASSUME OnceInv, NEW c \in Requests, NEW i \in Clients
               PROVE  Cardinality(Times(c, i)) <= Cardinality({k \in Keys : ClientOf[k] = i})
    BY DEF OncePerKey, Times
  <2>1. TypeOK /\ Cardinality(Times(c, i)) <= Cardinality(Behind(c, i))
    BY DEF OnceInv, OnceOK
  <2> DEFINE all == {k \in Keys : ClientOf[k] = i}
  <2>2. IsFiniteSet(Keys) /\ all \subseteq Keys /\ Behind(c, i) \subseteq all
    BY KeysType, FS_Interval DEF Keys, Behind
  <2>3. IsFiniteSet(all)
    BY <2>2, FS_Subset
  <2> HIDE DEF all
  <2>4. Cardinality(Behind(c, i)) <= Cardinality(all) /\ Cardinality(all) \in Nat
    BY <2>2, <2>3, FS_Subset, FS_CardinalityType
  <2>5. Cardinality(Times(c, i)) <= Cardinality(all)
    BY <2>1, <2>4, SizesAreNumbers
  <2> QED
    BY <2>5 DEF all
<1> QED
  BY <1>1, <1>2, OnceStep, PTL DEF Spec
=============================================================================
