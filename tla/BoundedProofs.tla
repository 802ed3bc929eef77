--------------------------- MODULE BoundedProofs ---------------------------
(***************************************************************************)
(* Theorems about the two stores that have a bound: SourceStore, for every *)
(* set of callers and sources, every size of a text and every budget, and  *)
(* Console, for every length of the log and however much is said and asked.*)
(***************************************************************************)
EXTENDS SourceStore, Console, ExcerptProofs, FiniteSetTheorems

(* SourceStore *)

\* What the arguments below need of the state's shape.
Shape ==
    /\ page \in Nat
    /\ generation \in Nat /\ generation <= page
    /\ cache.text \in [Sources -> Nat \cup {NoText}]
    /\ inflight \in [Sources -> Callers \cup {NoCaller}]
    /\ pc \in [Callers -> PCs]
    /\ want \in [Callers -> Sources]
    /\ joined \in [Callers -> Nat]
    /\ DOMAIN got = Callers

\* A fetched answer belongs to the page its leader joined in, or a later one.
AnswersCurrent ==
    \A c \in Callers :
        /\ joined[c] <= generation
        /\ pc[c] = "fetched" => got[c].page \in Nat /\ got[c].page >= joined[c]

CurrentInv == Shape /\ AnswersCurrent /\ CacheIsCurrent

-----------------------------------------------------------------------------
(* The cache *)

\* Making room only takes texts away.
LEMMA EvictionDrops ==
  ASSUME NEW k, NEW need, NEW s \in Sources
  PROVE  EvictFor(k, need).text[s] \in {NoText, k.text[s]}
<1>1. PICK out : EvictFor(k, need).text = [x \in Sources |-> IF x \in out THEN NoText ELSE k.text[x]]
  BY DEF EvictFor
<1>2. QED
  BY <1>1

LEMMA EvictionShape ==
  ASSUME NEW k, NEW need
  PROVE  EvictFor(k, need).text = [s \in Sources |-> EvictFor(k, need).text[s]]
  BY DEF EvictFor

\* An insertion puts the new text in and changes no other text but to drop it.
LEMMA InsertionKeeps ==
  ASSUME NEW k, k.text \in [Sources -> Nat \cup {NoText}], NEW s \in Sources, NEW p \in Nat
  PROVE  /\ Insert(k, s, p).text \in [Sources -> Nat \cup {NoText}]
         /\ Insert(k, s, p).text[s] = p
         /\ \A x \in Sources \ {s} : Insert(k, s, p).text[x] \in {NoText, k.text[x]}
<1> DEFINE r == Replaced(k, s)
           room == EvictFor(r, Size[s][p])
<1>1. \A x \in Sources : r.text[x] \in {NoText, k.text[x]}
  BY DEF Replaced
<1>2. Insert(k, s, p).text = [room.text EXCEPT ![s] = p]
  BY DEF Insert
<1> HIDE DEF r
<1>3. /\ room.text = [x \in Sources |-> room.text[x]]
      /\ \A x \in Sources : room.text[x] \in {NoText, r.text[x]}
  BY EvictionShape, EvictionDrops
<1> HIDE DEF room
<1>4. \A x \in Sources : room.text[x] \in {NoText, k.text[x]}
  BY <1>1, <1>3
<1>5. QED
  BY <1>2, <1>3, <1>4

LEMMA TouchKeeps ==
  ASSUME NEW k, NEW s
  PROVE  Touch(k, s).text = k.text
  BY DEF Touch

-----------------------------------------------------------------------------
(* Nothing stale is cached *)

\* What a call's step does to the cached texts.
LEMMA CallerTexts ==
  ASSUME Shape, NEW c \in Callers, CallStep(c)
  PROVE  \/ cache'.text = cache.text
         \/ /\ pc[c] = "fetched" /\ Keeps(c)
            /\ cache' = Insert(cache, want[c], got[c].page)
  BY TouchKeeps
     DEF CallStep, Looks, TakesRole, Fetched, Publishes, Wakes, Cancelled, Returns,
         cacheVars, Shape

LEMMA CurrentCaller ==
  ASSUME CurrentInv, NEW c \in Callers, CallStep(c)
  PROVE  CurrentInv'
<1> USE DEF CurrentInv
<1>1. page' = page /\ generation' = generation /\ want' = want
  BY DEF CallStep, Looks, TakesRole, Fetched, Publishes, Wakes, Cancelled, cacheVars
<1>2. /\ cache'.text \in [Sources -> Nat \cup {NoText}]
      /\ CacheIsCurrent'
  <2>1. CASE cache'.text = cache.text
    BY <1>1, <2>1 DEF Shape, CacheIsCurrent, Held
  <2>2. CASE /\ pc[c] = "fetched" /\ Keeps(c)
             /\ cache' = Insert(cache, want[c], got[c].page)
    <3>1. want[c] \in Sources /\ got[c].page \in Nat /\ got[c].page >= generation
      BY <2>2 DEF Shape, AnswersCurrent, Keeps
    <3>2. /\ cache'.text \in [Sources -> Nat \cup {NoText}]
          /\ cache'.text[want[c]] = got[c].page
          /\ \A x \in Sources \ {want[c]} : cache'.text[x] \in {NoText, cache.text[x]}
      <4> DEFINE new == Insert(cache, want[c], got[c].page)
      <4>1. cache.text \in [Sources -> Nat \cup {NoText}]
        BY DEF Shape
      <4>2. /\ new.text \in [Sources -> Nat \cup {NoText}]
            /\ new.text[want[c]] = got[c].page
            /\ \A x \in Sources \ {want[c]} : new.text[x] \in {NoText, cache.text[x]}
        BY <3>1, <4>1, InsertionKeeps
      <4> HIDE DEF new
      <4>3. cache' = new
        BY <2>2 DEF new
      <4>4. QED
        BY <4>2, <4>3
    <3>3. ASSUME NEW x \in Sources, cache'.text[x] # NoText
          PROVE  cache'.text[x] >= generation
      <4>1. CASE x = want[c]
        BY <3>1, <3>2, <4>1
      <4>2. CASE x # want[c]
        <5>1. cache'.text[x] = cache.text[x]
          BY <3>2, <3>3, <4>2
        <5>2. QED
          BY <3>3, <5>1 DEF CacheIsCurrent, Held
      <4>3. QED
        BY <4>1, <4>2
    <3>4. CacheIsCurrent'
      BY <1>1, <3>3 DEF CacheIsCurrent, Held
    <3>5. QED
      BY <3>2, <3>4
  <2>3. QED
    BY <2>1, <2>2, CallerTexts
<1>3. /\ inflight' \in [Sources -> Callers \cup {NoCaller}]
      /\ pc' \in [Callers -> PCs] /\ joined' \in [Callers -> Nat]
      /\ DOMAIN got' = Callers
  BY DEF CallStep, Looks, TakesRole, Fetched, Publishes, Wakes, Cancelled, Returns, Tells,
         cacheVars, Shape, PCs
<1>4. AnswersCurrent'
  <2>1. \A d \in Callers \ {c} : /\ pc'[d] = pc[d] /\ joined'[d] = joined[d]
                                 /\ got'[d] = got[d]
    BY DEF CallStep, Looks, TakesRole, Fetched, Publishes, Wakes, Cancelled, Returns,
           cacheVars, Shape
  <2>2. joined'[c] \in {joined[c], generation}
    BY DEF CallStep, Looks, TakesRole, Fetched, Publishes, Wakes, Cancelled, Shape
  <2>3. ASSUME pc'[c] = "fetched"
        PROVE  joined'[c] = joined[c] /\ got'[c].page = page
    BY <2>3 DEF CallStep, Looks, TakesRole, Fetched, Publishes, Wakes, Cancelled, Returns,
                Shape, Body
  <2>4. QED
    BY <1>1, <2>1, <2>2, <2>3 DEF AnswersCurrent, Shape
<1>5. QED
  BY <1>1, <1>2, <1>3, <1>4 DEF Shape

LEMMA Current == Spec => []CurrentInv
<1>1. Init => CurrentInv
  BY StoreConstants
     DEF Init, CurrentInv, Shape, AnswersCurrent, CacheIsCurrent, Held, Empty, PCs
<1>2. CurrentInv /\ [Next]_vars => CurrentInv'
  <2> SUFFICES ASSUME CurrentInv, [Next]_vars PROVE CurrentInv'
    OBVIOUS
  <2> USE DEF CurrentInv
  <2>1. ASSUME NEW s \in Sources, Peek(s)
        PROVE  CurrentInv'
    BY <2>1, TouchKeeps DEF Peek, callVars, Shape, AnswersCurrent, CacheIsCurrent, Held
  <2>2. CASE Clear
    BY <2>2 DEF Clear, callVars, Empty, Shape, AnswersCurrent, CacheIsCurrent, Held
  <2>3. CASE Navigates
    BY <2>3 DEF Navigates, cacheVars, callVars, Shape, AnswersCurrent, CacheIsCurrent, Held
  <2>4. CASE UNCHANGED vars
    BY <2>4 DEF vars, cacheVars, callVars, Shape, AnswersCurrent, CacheIsCurrent, Held
  <2>5. QED
    BY <2>1, <2>2, <2>3, <2>4, CurrentCaller DEF Next
<1>3. QED
  BY <1>1, <1>2, PTL DEF Spec

\* No text from before the last clear is ever in the cache.  [the generation
\* check of `text`]
THEOREM NothingStaleCached == Spec => []CacheIsCurrent
  BY Current, PTL DEF CurrentInv

-----------------------------------------------------------------------------
(* One flight *)

\* Until the first clear, a fetch in flight is the one `inflight` names.
FlightsListed ==
    generation = 0 =>
        \A c \in Callers : pc[c] \in {"leading", "fetched"} => inflight[want[c]] = c

LEMMA Flights == Spec => []FlightsListed
<1>1. Init => FlightsListed
  BY DEF Init, FlightsListed
<1>2. CurrentInv /\ FlightsListed /\ [Next]_vars => FlightsListed'
  <2> SUFFICES ASSUME Shape, FlightsListed, [Next]_vars, generation' = 0,
                      NEW d \in Callers, pc'[d] \in {"leading", "fetched"}
               PROVE  inflight'[want'[d]] = d
    BY DEF FlightsListed, CurrentInv
  <2>1. ASSUME NEW c \in Callers, CallStep(c)
        PROVE  inflight'[want'[d]] = d
    <3>1. generation = 0 /\ want' = want /\ \A x \in Callers \ {c} : pc'[x] = pc[x]
      BY <2>1 DEF CallStep, Looks, TakesRole, Fetched, Publishes, Wakes, Cancelled, Returns,
                  cacheVars, Shape
    <3>2. CASE TakesRole(c)
      <4>1. CASE d = c
        BY <3>1, <3>2, <4>1 DEF TakesRole, Returns, Shape
      <4>2. CASE d # c
        <5>1. inflight[want[d]] = d /\ d # NoCaller
          BY <3>1, <4>2, StoreConstants DEF FlightsListed
        <5>2. inflight'[want[d]] = inflight[want[d]]
          BY <3>2, <5>1 DEF TakesRole, Shape
        <5>3. QED
          BY <3>1, <5>1, <5>2
      <4>3. QED
        BY <4>1, <4>2
    <3>3. CASE Publishes(c)
      <4>1. pc[c] = "fetched" /\ pc'[c] = "done" /\ inflight' = [inflight EXCEPT ![want[c]] = NoCaller]
        BY <3>3 DEF Publishes, Tells, Shape
      <4>2. d # c /\ inflight[want[d]] = d /\ inflight[want[c]] = c
        BY <3>1, <4>1 DEF FlightsListed
      <4>3. QED
        BY <3>1, <4>1, <4>2 DEF Shape
    <3>4. CASE Looks(c) \/ Fetched(c) \/ Wakes(c) \/ Cancelled(c)
      <4>1. inflight' = inflight
        BY <3>4 DEF Looks, Fetched, Wakes, Cancelled, cacheVars
      <4>2. pc[d] \in {"leading", "fetched"}
        BY <3>1, <3>4 DEF Looks, Fetched, Wakes, Cancelled, Returns, Shape
      <4>3. QED
        BY <3>1, <4>1, <4>2 DEF FlightsListed
    <3>5. QED
      BY <2>1, <3>2, <3>3, <3>4 DEF CallStep
  <2>2. CASE (\E s \in Sources : Peek(s)) \/ Navigates \/ UNCHANGED vars
    BY <2>2 DEF Peek, Navigates, vars, cacheVars, callVars, FlightsListed
  <2>3. CASE Clear
    BY <2>3 DEF Clear, Shape
  <2>4. QED
    BY <2>1, <2>2, <2>3 DEF Next
<1>3. QED
  BY <1>1, <1>2, Current, PTL DEF Spec

\* Until the store is first cleared, at most one call fetches a source.
\* [the inflight table of `text`]
THEOREM OneFlight == Spec => []SingleFlight
<1>1. FlightsListed => SingleFlight
  BY DEF FlightsListed, SingleFlight
<1>2. QED
  BY <1>1, Flights, PTL
-----------------------------------------------------------------------------
(* The books *)

Spots == Pages \cup {NoText}

\* The recency list names each cached source once, and `bytes` counts them.
Listed(k) ==
    /\ k.text \in [Sources -> Spots]
    /\ k.lru \in Seq(Sources)
    /\ \A i, j \in 1..Len(k.lru) : k.lru[i] = k.lru[j] => i = j
    /\ \A s \in Sources : k.text[s] # NoText <=> \E i \in 1..Len(k.lru) : k.lru[i] = s
    /\ k.bytes = Bytes(k.text, Sources)

Books(k) == Listed(k) /\ (k.bytes <= Budget \/ Len(k.lru) = 1)

Units(text, those) ==
    UNION {{s} \X (1..Size[s][text[s]]) : s \in {t \in those : text[t] # NoText}}

LEMMA MinIs ==
    ASSUME NEW T \in SUBSET Nat, T # {}
    PROVE  Min(T) \in T /\ \A y \in T : Min(T) <= y
<1>1. \E x \in T : \A y \in T : x <= y  BY LeastNumber
<1> QED BY <1>1 DEF Min

\* What is taken out of a list that names it once.
LEMMA RemovalIs ==
    ASSUME NEW S, NEW list \in Seq(S), NEW e, NEW n \in 1..Len(list), list[n] = e,
           \A i \in 1..Len(list) : list[i] = e => i = n
    PROVE  /\ RemoveFirst(list, e) \in Seq(S)
           /\ Len(RemoveFirst(list, e)) = Len(list) - 1
           /\ \A i \in 1..(Len(list) - 1) :
                RemoveFirst(list, e)[i] = IF i < n THEN list[i] ELSE list[i + 1]
<1>1. PICK L \in Nat : L = Len(list)  BY LenProperties
<1>2. PICK I : I = {i \in 1..Len(list) : list[i] = e}  OBVIOUS
<1>3. I = {n}  BY <1>2
<1>4. Min(I) = n  BY <1>3 DEF Min
<1>5. SelectInSeq(list, LAMBDA v : v = e) = n
  BY <1>2, <1>3, <1>4 DEF SelectInSeq
<1>6. RemoveFirst(list, e) = SubSeq(list, 1, n - 1) \o SubSeq(list, n + 1, L)
  BY <1>1, <1>5 DEF RemoveFirst, RemoveAt
<1>7. PICK a \in Seq(S) :
        /\ a = SubSeq(list, 1, n - 1) /\ Len(a) = n - 1
        /\ \A i \in 1..(n - 1) : a[i] = list[i]
  <2>1. \A i \in 1..(n - 1) : list[i] \in S  BY <1>1, ElementOfSeq
  <2>2. 1 \in Nat /\ n - 1 \in Nat /\ 1 <= (n - 1) + 1  BY <1>1
  <2>3. /\ SubSeq(list, 1, n - 1) \in Seq(S)
        /\ Len(SubSeq(list, 1, n - 1)) = n - 1
        /\ \A i \in 1..(n - 1) : SubSeq(list, 1, n - 1)[i] = list[i]
    BY <1>1, <2>1
  <2> QED BY <2>3
<1>8. PICK b \in Seq(S) :
        /\ b = SubSeq(list, n + 1, L) /\ Len(b) = L - n
        /\ \A i \in 1..(L - n) : b[i] = list[n + i]
  <2>1. \A i \in 1..L : list[i] \in S  BY <1>1, ElementOfSeq
  <2>2. /\ SubSeq(list, n + 1, L) \in Seq(S)
        /\ Len(SubSeq(list, n + 1, L)) = L - n
        /\ \A i \in 1..(L - n) : SubSeq(list, n + 1, L)[i] = list[n + i]
    BY <1>1, <2>1
  <2> QED BY <2>2
<1>9. /\ a \o b \in Seq(S) /\ Len(a \o b) = (n - 1) + (L - n)
      /\ \A i \in 1..((n - 1) + (L - n)) : (a \o b)[i] = IF i <= n - 1 THEN a[i] ELSE b[i - (n - 1)]
  <2>1. /\ a \o b \in Seq(S) /\ Len(a \o b) = Len(a) + Len(b)
        /\ \A i \in 1..(Len(a) + Len(b)) : (a \o b)[i] = IF i <= Len(a) THEN a[i] ELSE b[i - Len(a)]
    BY ConcatProperties
  <2> QED BY <1>7, <1>8, <2>1
<1>10. (n - 1) + (L - n) = L - 1  BY <1>1
<1>11. \A i \in 1..(L - 1) : (a \o b)[i] = IF i < n THEN list[i] ELSE list[i + 1]
  <2> TAKE i \in 1..(L - 1)
  <2>1. CASE i < n
    <3>1. i <= n - 1 /\ i \in 1..(n - 1)  BY <1>1, <2>1
    <3> QED BY <1>7, <1>9, <1>10, <2>1, <3>1
  <2>2. CASE ~(i < n)
    <3>1. ~(i <= n - 1) /\ i - (n - 1) \in 1..(L - n) /\ n + (i - (n - 1)) = i + 1
      BY <1>1, <2>2
    <3> QED BY <1>8, <1>9, <1>10, <2>2, <3>1
  <2> QED BY <2>1, <2>2
<1> QED BY <1>1, <1>6, <1>7, <1>8, <1>9, <1>10, <1>11

-----------------------------------------------------------------------------
(* Bytes *)

LEMMA BytesIsUnits == \A text, those : Bytes(text, those) = Cardinality(Units(text, those))
BY DEF Bytes, Units

LEMMA UnitsAre ==
    ASSUME NEW text, NEW those, NEW u
    PROVE  u \in Units(text, those) <=>
             \E s \in those : text[s] # NoText /\ \E i \in 1..Size[s][text[s]] : u = <<s, i>>
BY DEF Units

\* Bytes depend on the texts that are there.
LEMMA BytesAgree ==
    ASSUME NEW text, NEW those, NEW other, NEW these,
           \A s \in those : text[s] # NoText => s \in these /\ other[s] = text[s],
           \A s \in these : other[s] # NoText => s \in those /\ other[s] = text[s]
    PROVE  Bytes(text, those) = Bytes(other, these)
<1>1. \A u : u \in Units(text, those) <=> u \in Units(other, these)
  <2> TAKE u
  <2>1. u \in Units(text, those) => u \in Units(other, these)
    <3> SUFFICES ASSUME NEW s \in those, text[s] # NoText,
                        NEW i \in 1..Size[s][text[s]], u = <<s, i>>
                 PROVE  u \in Units(other, these)
      BY UnitsAre
    <3>1. s \in these /\ other[s] = text[s]  OBVIOUS
    <3> QED BY <3>1, UnitsAre
  <2>2. u \in Units(other, these) => u \in Units(text, those)
    <3> SUFFICES ASSUME NEW s \in these, other[s] # NoText,
                        NEW i \in 1..Size[s][other[s]], u = <<s, i>>
                 PROVE  u \in Units(text, those)
      BY UnitsAre
    <3>1. s \in those /\ other[s] = text[s]  OBVIOUS
    <3> QED BY <3>1, UnitsAre
  <2> QED BY <2>1, <2>2
<1>2. Units(text, those) = Units(other, these)  BY <1>1
<1> QED BY <1>2, BytesIsUnits

LEMMA SizeIs == \A text \in [Sources -> Spots], s \in Sources :
                    text[s] # NoText => Size[s][text[s]] \in Nat
BY StoreConstants DEF Spots

LEMMA BytesAreFinite ==
    ASSUME NEW text \in [Sources -> Spots], NEW those \in SUBSET Sources, IsFiniteSet(those)
    PROVE  IsFiniteSet(Units(text, those)) /\ Bytes(text, those) \in Nat
<1> DEFINE some == {t \in those : text[t] # NoText}
           f == [s \in some |-> {s} \X (1..Size[s][text[s]])]
           all == {f[s] : s \in some}
<1>1. IsFiniteSet(some)  BY FS_Subset
<1>2. IsFiniteSet(all)
  <2>1. f \in Surjection(some, all)  BY DEF Surjection
  <2> QED BY <1>1, <2>1, FS_Surjection
<1>3. \A T \in all : IsFiniteSet(T)
  <2> TAKE T \in all
  <2>1. PICK s \in some : T = {s} \X (1..Size[s][text[s]])  OBVIOUS
  <2>2. Size[s][text[s]] \in Nat  BY SizeIs
  <2>3. PICK n \in Nat : n = Size[s][text[s]]  BY <2>2
  <2>4. IsFiniteSet(1..n)
    <3>1. 1 \in Int /\ n \in Int  OBVIOUS
    <3> QED BY <3>1, FS_Interval
  <2>5. IsFiniteSet({s})  BY FS_Singleton
  <2>6. IsFiniteSet({s} \X (1..n))  BY <2>4, <2>5, FS_Product
  <2> QED BY <2>1, <2>3, <2>6
<1>4. Units(text, those) = UNION all  BY DEF Units
<1> HIDE DEF all
<1>5. IsFiniteSet(Units(text, those))  BY <1>2, <1>3, <1>4, FS_UNION
<1> QED BY <1>5, BytesIsUnits, FS_CardinalityType

\* The bytes of two sets of sources that have none in common.
LEMMA BytesAdd ==
    ASSUME NEW text \in [Sources -> Spots], NEW A \in SUBSET Sources, NEW B \in SUBSET Sources,
           IsFiniteSet(A), IsFiniteSet(B), A \cap B = {}
    PROVE  Bytes(text, A \cup B) = Bytes(text, A) + Bytes(text, B)
<1>1. Units(text, A \cup B) = Units(text, A) \cup Units(text, B)
  BY DEF Units
<1>2. Units(text, A) \cap Units(text, B) = {}
  <2> SUFFICES ASSUME NEW u, u \in Units(text, A), u \in Units(text, B) PROVE FALSE
    OBVIOUS
  <2>1. PICK s \in A : \E i : u = <<s, i>>  BY UnitsAre
  <2>2. PICK t \in B : \E j : u = <<t, j>>  BY UnitsAre
  <2> QED BY <2>1, <2>2
<1>3. IsFiniteSet(Units(text, A)) /\ IsFiniteSet(Units(text, B))  BY BytesAreFinite
<1>4. Cardinality(Units(text, A) \cup Units(text, B))
        = Cardinality(Units(text, A)) + Cardinality(Units(text, B)) - Cardinality({})
  <2>1. PICK X, Y : X = Units(text, A) /\ Y = Units(text, B)  OBVIOUS
  <2>2. IsFiniteSet(X) /\ IsFiniteSet(Y) /\ X \cap Y = {}  BY <1>2, <1>3, <2>1
  <2>3. Cardinality(X \cup Y) = Cardinality(X) + Cardinality(Y) - Cardinality(X \cap Y)
    BY <2>2, FS_Union
  <2> QED BY <2>1, <2>2, <2>3
<1>5. Cardinality({}) = 0  BY FS_EmptySet
<1>6. PICK a \in Nat, b \in Nat : a = Bytes(text, A) /\ b = Bytes(text, B)  BY BytesAreFinite
<1>7. Bytes(text, A \cup B) = Bytes(text, A) + Bytes(text, B) - 0
  <2>1. /\ Bytes(text, A \cup B) = Cardinality(Units(text, A \cup B))
        /\ Bytes(text, A) = Cardinality(Units(text, A))
        /\ Bytes(text, B) = Cardinality(Units(text, B))
    BY BytesIsUnits
  <2> QED BY <1>1, <1>4, <1>5, <2>1
<1> QED BY <1>6, <1>7

\* The bytes of one source.
LEMMA BytesOfOne ==
    ASSUME NEW text \in [Sources -> Spots], NEW s \in Sources
    PROVE  Bytes(text, {s}) = IF text[s] = NoText THEN 0 ELSE Size[s][text[s]]
<1>1. CASE text[s] = NoText
  <2>1. Units(text, {s}) = {}  BY <1>1 DEF Units
  <2> QED BY <1>1, <2>1, BytesIsUnits, FS_EmptySet
<1>2. CASE text[s] # NoText
  <2>1. PICK n \in Nat : n = Size[s][text[s]]  BY <1>2, SizeIs
  <2>2. Units(text, {s}) = {s} \X (1..n)
    <3>1. \A u : u \in Units(text, {s}) <=> \E i \in 1..n : u = <<s, i>>
      BY <1>2, <2>1, UnitsAre
    <3> QED BY <3>1
  <2>3. IsFiniteSet(1..n) /\ Cardinality(1..n) = n
    <3>1. 1 \in Int /\ n \in Int  OBVIOUS
    <3> QED BY <3>1, FS_Interval
  <2>4. IsFiniteSet({s}) /\ Cardinality({s}) = 1  BY FS_Singleton
  <2>5. PICK one, many : one = {s} /\ many = 1..n  OBVIOUS
  <2>6. Cardinality(one \X many) = Cardinality(one) * Cardinality(many)
    BY <2>3, <2>4, <2>5, FS_Product
  <2>7. Cardinality(one \X many) = n
    <3>1. Cardinality(one) = 1 /\ Cardinality(many) = n  BY <2>3, <2>4, <2>5
    <3>2. 1 * n = n  OBVIOUS
    <3> QED BY <2>6, <3>1, <3>2
  <2>8. Bytes(text, {s}) = n  BY <2>2, <2>5, <2>7, BytesIsUnits
  <2> QED BY <1>2, <2>1, <2>8
<1> QED BY <1>1, <1>2

-----------------------------------------------------------------------------
(* What the operations do to the books *)

LEMMA OldestAre ==
    ASSUME NEW k, Listed(k), NEW m \in 0..Len(k.lru)
    PROVE  /\ Oldest(k, m) \in SUBSET Sources /\ IsFiniteSet(Oldest(k, m))
           /\ \A s \in Oldest(k, m) : k.text[s] # NoText
<1>1. PICK L \in Nat : L = Len(k.lru)  BY LenProperties DEF Listed
<1>2. \A i \in 1..L : k.lru[i] \in Sources /\ k.text[k.lru[i]] # NoText
  <2>1. \A i \in 1..L : k.lru[i] \in Sources  BY <1>1, ElementOfSeq DEF Listed
  <2> QED BY <1>1, <2>1 DEF Listed
<1>3. \A i \in 1..m : i \in 1..L  BY <1>1
<1>4. Oldest(k, m) \in SUBSET Sources /\ \A s \in Oldest(k, m) : k.text[s] # NoText
  BY <1>2, <1>3 DEF Oldest
<1>5. IsFiniteSet(1..m)
  <2>1. 1 \in Int /\ m \in Int  BY <1>1
  <2> QED BY <2>1, FS_Interval
<1>6. [i \in 1..m |-> k.lru[i]] \in Surjection(1..m, Oldest(k, m))
  BY DEF Surjection, Oldest
<1> QED BY <1>4, <1>5, <1>6, FS_Surjection

\* All that is held is in the list.
LEMMA HeldAre ==
    ASSUME NEW k, Listed(k), NEW those \in SUBSET Sources,
           \A s \in Sources : k.text[s] # NoText => s \in those
    PROVE  /\ {s \in those : k.text[s] # NoText} = Oldest(k, Len(k.lru))
           /\ k.bytes = Bytes(k.text, Oldest(k, Len(k.lru)))
           /\ k.bytes = Bytes(k.text, those)
<1>1. PICK L \in Nat : L = Len(k.lru)  BY LenProperties DEF Listed
<1>2. L \in 0..L  BY <1>1
<1>3. /\ Oldest(k, L) \in SUBSET Sources
      /\ \A s \in Oldest(k, L) : k.text[s] # NoText
  BY <1>1, <1>2, OldestAre
<1>4. \A s \in Sources : k.text[s] # NoText => s \in Oldest(k, L)
  BY <1>1 DEF Listed, Oldest
<1>5. Bytes(k.text, Sources) = Bytes(k.text, Oldest(k, L))
  BY <1>3, <1>4, BytesAgree
<1>6. Bytes(k.text, Sources) = Bytes(k.text, those)
  BY BytesAgree
<1> QED BY <1>1, <1>3, <1>4, <1>5, <1>6 DEF Listed

\* Eviction takes the oldest, no more of them than it must.
LEMMA EvictionIs ==
    ASSUME NEW k, Listed(k), NEW need \in Nat
    PROVE  \E n \in 0..Len(k.lru) :
             /\ EvictFor(k, need).text = [s \in Sources |-> IF s \in Oldest(k, n) THEN NoText ELSE k.text[s]]
             /\ EvictFor(k, need).lru = SubSeq(k.lru, n + 1, Len(k.lru))
             /\ EvictFor(k, need).bytes = k.bytes - Bytes(k.text, Oldest(k, n))
             /\ n = Len(k.lru) \/ k.bytes - Bytes(k.text, Oldest(k, n)) + need <= Budget
             /\ \A m \in 0..Len(k.lru) :
                  m < n => ~(k.bytes - Bytes(k.text, Oldest(k, m)) + need <= Budget)
<1>1. PICK L \in Nat : L = Len(k.lru)  BY LenProperties DEF Listed
<1>2. PICK T : T = {m \in 0..Len(k.lru) :
                     m = Len(k.lru) \/ k.bytes - Bytes(k.text, Oldest(k, m)) + need <= Budget}
  OBVIOUS
<1>3. T \in SUBSET Nat /\ L \in T  BY <1>1, <1>2
<1>4. PICK n \in T : n = Min(T) /\ \A y \in T : n <= y  BY <1>3, MinIs
<1>5. /\ EvictFor(k, need).text = [s \in Sources |-> IF s \in Oldest(k, n) THEN NoText ELSE k.text[s]]
      /\ EvictFor(k, need).lru = SubSeq(k.lru, n + 1, Len(k.lru))
      /\ EvictFor(k, need).bytes = k.bytes - Bytes(k.text, Oldest(k, n))
  BY <1>2, <1>4 DEF EvictFor
<1>6. n \in 0..Len(k.lru)
      /\ (n = Len(k.lru) \/ k.bytes - Bytes(k.text, Oldest(k, n)) + need <= Budget)
  BY <1>2, <1>4
<1>7. \A m \in 0..Len(k.lru) :
        m < n => ~(k.bytes - Bytes(k.text, Oldest(k, m)) + need <= Budget)
  <2> TAKE m \in 0..Len(k.lru)
  <2> HAVE m < n
  <2>1. ~(n <= m)  BY <1>1, <1>6
  <2>2. m \notin T  BY <1>4, <2>1
  <2> QED BY <1>2, <2>2
<1> QED BY <1>5, <1>6, <1>7

\* The part of a list after its first n.
LEMMA RestIs ==
    ASSUME NEW S, NEW list \in Seq(S), NEW n \in 0..Len(list)
    PROVE  /\ SubSeq(list, n + 1, Len(list)) \in Seq(S)
           /\ Len(SubSeq(list, n + 1, Len(list))) = Len(list) - n
           /\ \A i \in 1..(Len(list) - n) : SubSeq(list, n + 1, Len(list))[i] = list[n + i]
<1>1. PICK L \in Nat : L = Len(list)  BY LenProperties
<1>2. \A i \in 1..L : list[i] \in S  BY <1>1, ElementOfSeq
<1> QED BY <1>1, <1>2

\* What is left of the books after an eviction.
LEMMA EvictionLists ==
    ASSUME NEW k, Listed(k), NEW need \in Nat
    PROVE  /\ Listed(EvictFor(k, need))
           /\ Len(EvictFor(k, need).lru) = 0 \/ EvictFor(k, need).bytes + need <= Budget
<1>1. PICK L \in Nat : L = Len(k.lru)  BY LenProperties DEF Listed
<1>2. PICK n \in 0..L :
        /\ EvictFor(k, need).text = [s \in Sources |-> IF s \in Oldest(k, n) THEN NoText ELSE k.text[s]]
        /\ EvictFor(k, need).lru = SubSeq(k.lru, n + 1, L)
        /\ EvictFor(k, need).bytes = k.bytes - Bytes(k.text, Oldest(k, n))
        /\ n = L \/ k.bytes - Bytes(k.text, Oldest(k, n)) + need <= Budget
  BY <1>1, EvictionIs
<1>3. PICK text, lru, bytes :
        text = EvictFor(k, need).text /\ lru = EvictFor(k, need).lru /\ bytes = EvictFor(k, need).bytes
  OBVIOUS
<1>4. /\ lru \in Seq(Sources) /\ Len(lru) = L - n
      /\ \A i \in 1..(L - n) : lru[i] = k.lru[n + i]
  BY <1>1, <1>2, <1>3, RestIs DEF Listed
<1>5. Oldest(k, n) \in SUBSET Sources /\ IsFiniteSet(Oldest(k, n))
  BY <1>1, OldestAre
<1>6. /\ text \in [Sources -> Spots]
      /\ \A s \in Sources : text[s] = IF s \in Oldest(k, n) THEN NoText ELSE k.text[s]
  BY <1>2, <1>3 DEF Listed, Spots
<1>7. \A i \in 1..(L - n) : n + i \in 1..L  BY <1>1
<1>8. \A i, j \in 1..(L - n) : lru[i] = lru[j] => i = j
  <2> TAKE i, j \in 1..(L - n)
  <2> HAVE lru[i] = lru[j]
  <2>1. k.lru[n + i] = k.lru[n + j]  BY <1>4
  <2>2. n + i = n + j  BY <1>1, <1>7, <2>1 DEF Listed
  <2> QED BY <1>1, <2>2
<1>9. \A i \in 1..L : k.lru[i] \in Oldest(k, n) <=> i <= n
  <2> TAKE i \in 1..L
  <2>1. k.lru[i] \in Oldest(k, n) => i <= n
    <3> HAVE k.lru[i] \in Oldest(k, n)
    <3>1. PICK j \in 1..n : k.lru[i] = k.lru[j]  BY DEF Oldest
    <3>2. j \in 1..L  BY <1>1
    <3>3. i = j  BY <1>1, <3>1, <3>2 DEF Listed
    <3> QED BY <3>1, <3>3
  <2>2. i <= n => k.lru[i] \in Oldest(k, n)  BY DEF Oldest
  <2> QED BY <2>1, <2>2
<1>10. ASSUME NEW s \in Sources
       PROVE  text[s] # NoText <=> \E i \in 1..(L - n) : lru[i] = s
  <2>1. ASSUME text[s] # NoText PROVE \E i \in 1..(L - n) : lru[i] = s
    <3>1. s \notin Oldest(k, n) /\ k.text[s] # NoText  BY <1>6, <2>1
    <3>2. PICK i \in 1..L : k.lru[i] = s  BY <1>1, <3>1 DEF Listed
    <3>3. ~(i <= n)  BY <1>9, <3>1, <3>2
    <3>4. i - n \in 1..(L - n) /\ n + (i - n) = i  BY <1>1, <3>3
    <3> QED BY <1>4, <3>2, <3>4
  <2>2. ASSUME NEW i \in 1..(L - n), lru[i] = s PROVE text[s] # NoText
    <3>1. n + i \in 1..L /\ ~(n + i <= n) /\ k.lru[n + i] = s  BY <1>1, <1>4, <2>2
    <3>2. s \notin Oldest(k, n)  BY <1>9, <3>1
    <3>3. k.text[s] # NoText  BY <1>1, <3>1 DEF Listed
    <3> QED BY <1>6, <3>2, <3>3
  <2> QED BY <2>1, <2>2
<1>11. bytes = Bytes(text, Sources)
  <2>1. L \in 0..L  OBVIOUS
  <2>2. PICK H : H = Oldest(k, L)  OBVIOUS
  <2>3. H \in SUBSET Sources /\ IsFiniteSet(H) /\ Oldest(k, n) \subseteq H
    <3>1. H \in SUBSET Sources /\ IsFiniteSet(H)  BY <1>1, <2>1, <2>2, OldestAre
    <3>2. \A i \in 1..n : i \in 1..L  BY <1>1
    <3> QED BY <2>2, <3>1, <3>2 DEF Oldest
  <2>4. \A s \in Sources : k.text[s] # NoText => s \in H  BY <1>1, <2>2 DEF Listed, Oldest
  <2>5. k.bytes = Bytes(k.text, H)
    BY <1>1, <2>2, <2>3, <2>4, HeldAre
  <2>6. k.text \in [Sources -> Spots]  BY DEF Listed
  <2>7. PICK O, R : O = Oldest(k, n) /\ R = H \ O  OBVIOUS
  <2>8. /\ O \in SUBSET Sources /\ R \in SUBSET Sources /\ IsFiniteSet(O) /\ IsFiniteSet(R)
        /\ O \cap R = {} /\ O \cup R = H
    BY <1>5, <2>3, <2>7, FS_Subset
  <2>9. Bytes(k.text, H) = Bytes(k.text, O) + Bytes(k.text, R)
    BY <2>6, <2>8, BytesAdd
  <2>10. Bytes(k.text, O) \in Nat /\ Bytes(k.text, R) \in Nat
    BY <2>6, <2>8, BytesAreFinite
  <2>11. bytes = Bytes(k.text, R)
    <3>1. bytes = k.bytes - Bytes(k.text, O)  BY <1>2, <1>3, <2>7
    <3> QED BY <2>5, <2>9, <2>10, <3>1
  <2>12. Bytes(k.text, R) = Bytes(text, Sources)
    <3>1. \A s \in R : s \in Sources /\ text[s] = k.text[s]  BY <1>6, <2>7, <2>8
    <3>2. \A s \in Sources : text[s] # NoText => s \in R /\ text[s] = k.text[s]
      BY <1>6, <2>4, <2>7
    <3> QED BY <3>1, <3>2, BytesAgree
  <2> QED BY <2>11, <2>12
<1>12. Len(lru) = 0 \/ bytes + need <= Budget
  <2>1. CASE n = L  BY <1>1, <1>4, <2>1
  <2>2. CASE n # L  BY <1>2, <1>3, <2>2
  <2> QED BY <2>1, <2>2
<1>13. Listed(EvictFor(k, need))
  BY <1>3, <1>4, <1>6, <1>8, <1>10, <1>11 DEF Listed
<1> QED BY <1>3, <1>12, <1>13

\* Taking a source out of the recency list, wherever it stands, leaves the
\* others listed in their order.
Before(list, s, t) == \E i, j \in 1..Len(list) : i < j /\ list[i] = s /\ list[j] = t

Removal(list, s, rest) ==
    /\ rest \in Seq(Sources)
    /\ Len(rest) = Len(list) - 1
    /\ \A i, j \in 1..Len(rest) : rest[i] = rest[j] => i = j
    /\ \A i \in 1..Len(rest) : rest[i] # s
    /\ \A t : t # s => ((\E i \in 1..Len(rest) : rest[i] = t)
                           <=> (\E i \in 1..Len(list) : list[i] = t))
    /\ \A t, u : t # s /\ u # s /\ Before(list, t, u) => Before(rest, t, u)
    /\ \A t, u : Before(rest, t, u) => Before(list, t, u)

LEMMA RemovalLists ==
    ASSUME NEW list \in Seq(Sources), NEW s, NEW n \in 1..Len(list), list[n] = s,
           \A i, j \in 1..Len(list) : list[i] = list[j] => i = j
    PROVE  Removal(list, s, RemoveFirst(list, s))
<1>0. PICK rest : rest = RemoveFirst(list, s)  OBVIOUS
<1>1. PICK L \in Nat : L = Len(list)  BY LenProperties
<1>2. \A i \in 1..Len(list) : list[i] = s => i = n  OBVIOUS
<1>3. /\ rest \in Seq(Sources) /\ Len(rest) = L - 1
      /\ \A i \in 1..(L - 1) : rest[i] = IF i < n THEN list[i] ELSE list[i + 1]
  <2>1. rest \in Seq(Sources) /\ Len(rest) = Len(list) - 1  BY <1>0, <1>2, RemovalIs
  <2>2. \A i \in 1..(Len(list) - 1) :
          RemoveFirst(list, s)[i] = IF i < n THEN list[i] ELSE list[i + 1]
    BY ONLY <1>2, list \in Seq(Sources), n \in 1..Len(list), list[n] = s, RemovalIs
  <2> QED BY <1>0, <1>1, <2>1, <2>2
<1> DEFINE from(i) == IF i < n THEN i ELSE i + 1
           to(i) == IF i < n THEN i ELSE i - 1
<1>4. \A i \in 1..(L - 1) : from(i) \in 1..L /\ from(i) # n /\ rest[i] = list[from(i)]
  <2> TAKE i \in 1..(L - 1)
  <2>1. CASE i < n  BY <1>1, <1>3, <2>1
  <2>2. CASE ~(i < n)  BY <1>1, <1>3, <2>2
  <2> QED BY <2>1, <2>2
<1>5. \A i \in 1..L : i # n => to(i) \in 1..(L - 1) /\ from(to(i)) = i
  BY <1>1
<1>6. \A i, j \in 1..(L - 1) : (from(i) = from(j) => i = j) /\ (i < j => from(i) < from(j))
  BY <1>1
<1>7. \A i, j \in 1..L : i # n /\ j # n /\ i < j => to(i) < to(j)
  BY <1>1
<1> HIDE DEF from, to
<1>8. \A i, j \in 1..(L - 1) : rest[i] = rest[j] => i = j
  BY <1>1, <1>4, <1>6
<1>9. ASSUME NEW i \in 1..L, i # n PROVE to(i) \in 1..(L - 1) /\ rest[to(i)] = list[i]
  BY <1>4, <1>5, <1>9
<1>10. ASSUME NEW t
       PROVE  (\E i \in 1..(L - 1) : rest[i] = t) <=> t # s /\ \E i \in 1..L : list[i] = t
  <2>1. ASSUME NEW i \in 1..(L - 1), rest[i] = t PROVE t # s /\ \E j \in 1..L : list[j] = t
    <3>1. from(i) \in 1..L /\ from(i) # n /\ list[from(i)] = t  BY <1>4, <2>1
    <3> QED BY <1>1, <1>2, <3>1
  <2>2. ASSUME t # s, NEW i \in 1..L, list[i] = t PROVE \E j \in 1..(L - 1) : rest[j] = t
    <3>1. i # n  BY <2>2
    <3> QED BY <1>9, <2>2, <3>1
  <2> QED BY <2>1, <2>2
<1>11. ASSUME NEW t, NEW u, t # s, u # s, Before(list, t, u) PROVE Before(rest, t, u)
  <2>1. PICK i \in 1..L, j \in 1..L : i < j /\ list[i] = t /\ list[j] = u
    BY <1>1, <1>11 DEF Before
  <2>2. i # n /\ j # n  BY <1>11, <2>1
  <2>3. to(i) < to(j)  BY <1>7, <2>1, <2>2
  <2>4. to(i) \in 1..(L - 1) /\ to(j) \in 1..(L - 1) /\ rest[to(i)] = t /\ rest[to(j)] = u
    BY <1>9, <2>1, <2>2
  <2> QED BY <1>3, <2>3, <2>4 DEF Before
<1>12. ASSUME NEW t, NEW u, Before(rest, t, u) PROVE Before(list, t, u)
  <2>1. PICK i \in 1..(L - 1), j \in 1..(L - 1) : i < j /\ rest[i] = t /\ rest[j] = u
    BY <1>3, <1>12 DEF Before
  <2>2. from(i) \in 1..L /\ from(j) \in 1..L /\ list[from(i)] = t /\ list[from(j)] = u
    BY <1>4, <2>1
  <2>3. from(i) < from(j)  BY <1>6, <2>1
  <2> QED BY <1>1, <2>2, <2>3 DEF Before
<1>13. \A i \in 1..Len(rest) : rest[i] # s  BY <1>3, <1>10
<1>14. \A t : t # s => ((\E i \in 1..Len(rest) : rest[i] = t)
                           <=> (\E i \in 1..Len(list) : list[i] = t))
  BY <1>1, <1>3, <1>10
<1>15. \A i, j \in 1..Len(rest) : rest[i] = rest[j] => i = j  BY <1>3, <1>8
<1>16. rest \in Seq(Sources) /\ Len(rest) = Len(list) - 1  BY <1>1, <1>3
<1>17. Removal(list, s, rest)
  BY <1>11, <1>12, <1>13, <1>14, <1>15, <1>16 DEF Removal
<1> QED BY <1>0, <1>17

LEMMA TouchLists ==
    ASSUME NEW k, Listed(k), k = [text |-> k.text, lru |-> k.lru, bytes |-> k.bytes],
           NEW s \in Sources
    PROVE  /\ Listed(Touch(k, s)) /\ Len(Touch(k, s).lru) = Len(k.lru)
           /\ Touch(k, s) = [text |-> k.text, lru |-> Touch(k, s).lru, bytes |-> k.bytes]
<1>1. CASE ~Contains(k.lru, s)  BY <1>1 DEF Touch
<1>2. CASE Contains(k.lru, s)
  <2>1. PICK n \in 1..Len(k.lru) : k.lru[n] = s  BY <1>2 DEF Contains
  <2>2. PICK L \in Nat : L = Len(k.lru)  BY LenProperties DEF Listed
  <2>3. PICK rest : rest = RemoveFirst(k.lru, s)  OBVIOUS
  <2>4. k.lru \in Seq(Sources) /\ \A i, j \in 1..Len(k.lru) : k.lru[i] = k.lru[j] => i = j
    BY DEF Listed
  <2>5. /\ rest \in Seq(Sources) /\ Len(rest) = L - 1
        /\ \A i, j \in 1..(L - 1) : rest[i] = rest[j] => i = j
        /\ \A i \in 1..(L - 1) : rest[i] # s
        /\ \A t : t # s => ((\E i \in 1..(L - 1) : rest[i] = t)
                               <=> (\E i \in 1..L : k.lru[i] = t))
    <3>1. Removal(k.lru, s, rest)  BY <2>1, <2>3, <2>4, RemovalLists
    <3>2. rest \in Seq(Sources) /\ Len(rest) = L - 1  BY <2>2, <3>1 DEF Removal
    <3>3. \A i, j \in 1..(L - 1) : rest[i] = rest[j] => i = j  BY <3>1, <3>2 DEF Removal
    <3>4. \A i \in 1..(L - 1) : rest[i] # s  BY <3>1, <3>2 DEF Removal
    <3>5. \A t : t # s => ((\E i \in 1..(L - 1) : rest[i] = t)
                             <=> (\E i \in 1..L : k.lru[i] = t))
      BY <2>2, <3>1, <3>2 DEF Removal
    <3> QED BY <3>2, <3>3, <3>4, <3>5
  <2>6. PICK new : new = Append(rest, s)  OBVIOUS
  <2>7. /\ new \in Seq(Sources) /\ Len(new) = L /\ new[L] = s
        /\ \A i \in 1..(L - 1) : new[i] = rest[i]
    BY <2>2, <2>5, <2>6, AppendProperties
  <2>8. L \in 1..L  BY <2>1, <2>2
  <2>9. \A i \in 1..L : i \in 1..(L - 1) \/ i = L  BY <2>2
  <2>10. \A i \in 1..(L - 1) : new[i] # s /\ i \in 1..L
    BY <2>2, <2>5, <2>7
  <2>11. \A i, j \in 1..L : new[i] = new[j] => i = j
    BY <2>2, <2>5, <2>7, <2>9, <2>10
  <2>12. \A t \in Sources : (\E i \in 1..L : new[i] = t) <=> (\E i \in 1..L : k.lru[i] = t)
    <3> TAKE t \in Sources
    <3>1. CASE t = s  BY <2>1, <2>2, <2>7, <2>8, <3>1
    <3>2. CASE t # s
      <4>1. (\E i \in 1..L : new[i] = t) <=> (\E i \in 1..(L - 1) : rest[i] = t)
        BY <2>7, <2>9, <2>10, <3>2
      <4> QED BY <2>2, <2>5, <3>2, <4>1
    <3> QED BY <3>1, <3>2
  <2>13. Touch(k, s) = [text |-> k.text, lru |-> new, bytes |-> k.bytes]
    <3>1. Touch(k, s) = [k EXCEPT !.lru = new]  BY <1>2, <2>3, <2>6 DEF Touch
    <3> QED BY <3>1
  <2>14. PICK t : t = [text |-> k.text, lru |-> new, bytes |-> k.bytes]  OBVIOUS
  <2>15. t.text = k.text /\ t.lru = new /\ t.bytes = k.bytes  BY <2>14
  <2>16. Listed(t)
    <3>1. \A u \in Sources : t.text[u] # NoText <=> \E i \in 1..Len(t.lru) : t.lru[i] = u
      BY <2>2, <2>7, <2>12, <2>15 DEF Listed
    <3> QED BY <2>7, <2>11, <2>15, <3>1 DEF Listed
  <2> QED BY <2>2, <2>7, <2>13, <2>14, <2>15, <2>16
<1> QED BY <1>1, <1>2

\* The entry that is replaced leaves the books.
LEMMA ReplacementLists ==
    ASSUME NEW k, Listed(k), NEW s \in Sources, NEW r, r = Replaced(k, s)
    PROVE  /\ Listed(r) /\ r.text = [k.text EXCEPT ![s] = NoText]
           /\ \A t, u : t # s /\ u # s /\ Before(k.lru, t, u) => Before(r.lru, t, u)
           /\ \A t, u : Before(r.lru, t, u) => Before(k.lru, t, u)
<1>0. k.text \in [Sources -> Spots]  BY DEF Listed
<1>1. CASE k.text[s] = NoText
  <2>1. k.text = [k.text EXCEPT ![s] = NoText]  BY <1>0, <1>1
  <2> QED BY <1>1, <2>1 DEF Replaced
<1>2. CASE k.text[s] # NoText
  <2>1. PICK n \in 1..Len(k.lru) : k.lru[n] = s  BY <1>2 DEF Listed
  <2>2. k.lru \in Seq(Sources) /\ \A i, j \in 1..Len(k.lru) : k.lru[i] = k.lru[j] => i = j
    BY DEF Listed
  <2>3. PICK L \in Nat : L = Len(k.lru) /\ L \in 0..L  BY <2>2, LenProperties
  <2>4. /\ r.text = [k.text EXCEPT ![s] = NoText] /\ r.lru = RemoveFirst(k.lru, s)
        /\ r.bytes = k.bytes - Size[s][k.text[s]]
    BY <1>2 DEF Replaced
  <2>5. Removal(k.lru, s, r.lru)  BY <2>1, <2>2, <2>4, RemovalLists
  <2>6. /\ r.text \in [Sources -> Spots]
        /\ \A t \in Sources : r.text[t] = IF t = s THEN NoText ELSE k.text[t]
    BY <1>0, <2>4 DEF Spots
  <2>7. \A t \in Sources : r.text[t] # NoText <=> \E i \in 1..Len(r.lru) : r.lru[i] = t
    <3> TAKE t \in Sources
    <3>1. CASE t = s  BY <2>5, <2>6, <3>1 DEF Removal
    <3>2. CASE t # s
      <4>1. (\E i \in 1..Len(r.lru) : r.lru[i] = t) <=> (\E i \in 1..Len(k.lru) : k.lru[i] = t)
        BY <2>5, <3>2 DEF Removal
      <4> QED BY <2>6, <3>2, <4>1 DEF Listed
    <3> QED BY <3>1, <3>2
  <2>8. r.bytes = Bytes(r.text, Sources)
    <3>1. PICK H : H = Oldest(k, L)  OBVIOUS
    <3>2. H \in SUBSET Sources /\ IsFiniteSet(H)  BY <2>3, <3>1, OldestAre
    <3>3. \A t \in Sources : k.text[t] # NoText => t \in H
      BY <2>3, <3>1 DEF Listed, Oldest
    <3>4. k.bytes = Bytes(k.text, H)  BY <3>2, <3>3, HeldAre
    <3>5. PICK R, O : R = H \ {s} /\ O = {s}  OBVIOUS
    <3>6. /\ R \in SUBSET Sources /\ IsFiniteSet(R) /\ O \in SUBSET Sources /\ IsFiniteSet(O)
          /\ R \cap O = {} /\ R \cup O = H
      BY <1>2, <3>2, <3>3, <3>5, FS_Subset, FS_Singleton
    <3>7. Bytes(k.text, H) = Bytes(k.text, R) + Bytes(k.text, O)
      BY <1>0, <3>6, BytesAdd
    <3>8. Bytes(k.text, O) = Size[s][k.text[s]]
      BY <1>0, <1>2, <3>5, BytesOfOne
    <3>9. PICK a \in Nat, b \in Nat : a = Bytes(k.text, R) /\ b = Bytes(k.text, O)
      BY <1>0, <3>6, BytesAreFinite
    <3>10. r.bytes = a  BY <2>4, <3>4, <3>7, <3>8, <3>9
    <3>11. Bytes(k.text, R) = Bytes(r.text, Sources)
      <4>1. \A t \in R : t \in Sources /\ r.text[t] = k.text[t]  BY <2>6, <3>5, <3>6
      <4>2. \A t \in Sources : r.text[t] # NoText => t \in R /\ r.text[t] = k.text[t]
        BY <2>6, <3>3, <3>5
      <4> QED BY <4>1, <4>2, BytesAgree
    <3> QED BY <3>9, <3>10, <3>11
  <2>9. Listed(r)  BY <2>5, <2>6, <2>7, <2>8 DEF Listed, Removal
  <2>10. /\ \A t, u : t # s /\ u # s /\ Before(k.lru, t, u) => Before(r.lru, t, u)
         /\ \A t, u : Before(r.lru, t, u) => Before(k.lru, t, u)
    BY <2>5 DEF Removal
  <2> QED BY <2>4, <2>9, <2>10
<1> QED BY <1>1, <1>2

\* An insertion keeps the books and the budget.
LEMMA InsertionBooks ==
    ASSUME NEW k, Listed(k), NEW s \in Sources, NEW p \in Pages
    PROVE  /\ Books(Insert(k, s, p))
           /\ Insert(k, s, p) = [text |-> Insert(k, s, p).text, lru |-> Insert(k, s, p).lru,
                                 bytes |-> Insert(k, s, p).bytes]
<1>1. PICK need \in Nat : need = Size[s][p]  BY StoreConstants
<1>2. PICK r : r = Replaced(k, s)  OBVIOUS
<1>3. Listed(r) /\ r.text = [k.text EXCEPT ![s] = NoText]  BY <1>2, ReplacementLists
<1>4. PICK room : room = EvictFor(r, need)  OBVIOUS
<1>5. Listed(room) /\ (Len(room.lru) = 0 \/ room.bytes + need <= Budget)
  BY <1>3, <1>4, EvictionLists
<1>6. room.text[s] = NoText
  <2>1. r.text[s] = NoText  BY <1>3 DEF Listed
  <2> QED BY <1>4, <2>1, EvictionDrops
<1>7. PICK new : new = Insert(k, s, p)  OBVIOUS
<1>8. new = [text |-> [room.text EXCEPT ![s] = p], lru |-> Append(room.lru, s),
             bytes |-> room.bytes + need]
  BY <1>1, <1>2, <1>4, <1>7 DEF Insert
<1>9. /\ new.text = [room.text EXCEPT ![s] = p] /\ new.lru = Append(room.lru, s)
      /\ new.bytes = room.bytes + need
  BY <1>8
<1>10. PICK L \in Nat : L = Len(room.lru) /\ L \in 0..L  BY <1>5, LenProperties DEF Listed
<1>11. /\ new.lru \in Seq(Sources) /\ Len(new.lru) = L + 1 /\ new.lru[L + 1] = s
       /\ \A i \in 1..L : new.lru[i] = room.lru[i]
  BY <1>5, <1>9, <1>10, AppendProperties DEF Listed
<1>12. /\ new.text \in [Sources -> Spots] /\ p # NoText
       /\ \A t \in Sources : new.text[t] = IF t = s THEN p ELSE room.text[t]
  BY <1>5, <1>9, StoreConstants DEF Listed, Spots
<1>13. \A i \in 1..L : room.lru[i] # s /\ i \in 1..(L + 1)  BY <1>5, <1>6, <1>10 DEF Listed
<1>14. \A i \in 1..(L + 1) : i \in 1..L \/ i = L + 1  BY <1>10
<1>15. \A i, j \in 1..(L + 1) : new.lru[i] = new.lru[j] => i = j
  <2>1. \A i, j \in 1..L : new.lru[i] = new.lru[j] => i = j  BY <1>5, <1>10, <1>11 DEF Listed
  <2>2. \A i \in 1..L : new.lru[i] # new.lru[L + 1]  BY <1>11, <1>13
  <2> QED BY <1>14, <2>1, <2>2
<1>16. \A t \in Sources : new.text[t] # NoText <=> \E i \in 1..(L + 1) : new.lru[i] = t
  <2> TAKE t \in Sources
  <2>1. CASE t = s
    <3>1. L + 1 \in 1..(L + 1)  BY <1>10
    <3> QED BY <1>11, <1>12, <2>1, <3>1
  <2>2. CASE t # s
    <3>1. (\E i \in 1..(L + 1) : new.lru[i] = t) <=> (\E i \in 1..L : room.lru[i] = t)
      BY <1>11, <1>13, <1>14, <2>2
    <3> QED BY <1>5, <1>10, <1>12, <2>2, <3>1 DEF Listed
  <2> QED BY <2>1, <2>2
<1>17. new.bytes = Bytes(new.text, Sources) /\ (L = 0 => new.bytes \in Nat) /\ room.bytes \in Nat
  <2>1. PICK H, O : H = Oldest(room, L) /\ O = {s}  OBVIOUS
  <2>2. H \in SUBSET Sources /\ IsFiniteSet(H) /\ \A t \in H : room.text[t] # NoText
    BY <1>5, <1>10, <2>1, OldestAre
  <2>3. \A t \in Sources : room.text[t] # NoText => t \in H
    BY <1>5, <1>10, <2>1 DEF Listed, Oldest
  <2>4. room.bytes = Bytes(room.text, H)  BY <1>5, <2>2, <2>3, HeldAre
  <2>5. \A t \in H : new.text[t] = room.text[t]  BY <1>6, <1>12, <2>2
  <2>6. Bytes(room.text, H) = Bytes(new.text, H)  BY <2>5, BytesAgree
  <2>7. O \in SUBSET Sources /\ IsFiniteSet(O) /\ H \cap O = {}
    BY <1>6, <2>1, <2>2, FS_Singleton
  <2>8. Bytes(new.text, H \cup O) = Bytes(new.text, H) + Bytes(new.text, O)
    BY <1>12, <2>2, <2>7, BytesAdd
  <2>9. new.text[s] = p  BY <1>12
  <2>10. Bytes(new.text, O) = need  BY <1>1, <1>12, <2>1, <2>9, BytesOfOne
  <2>11. Bytes(new.text, H \cup O) = Bytes(new.text, Sources)
    <3>1. \A t \in Sources : new.text[t] # NoText => t \in H \cup O
      BY <1>12, <2>1, <2>3
    <3>2. H \cup O \subseteq Sources  BY <2>2, <2>7
    <3> QED BY <3>1, <3>2, BytesAgree
  <2>12. room.bytes \in Nat
    <3>1. room.text \in [Sources -> Spots]  BY <1>5 DEF Listed
    <3> QED BY <2>2, <2>4, <3>1, BytesAreFinite
  <2> QED BY <1>9, <2>4, <2>6, <2>8, <2>10, <2>11, <2>12
<1>18. Listed(new)  BY <1>11, <1>12, <1>15, <1>16, <1>17 DEF Listed
<1>19. new.bytes <= Budget \/ Len(new.lru) = 1
  <2>1. CASE L = 0  BY <1>11, <2>1
  <2>2. CASE L # 0  BY <1>5, <1>9, <1>10, <2>2
  <2> QED BY <2>1, <2>2
<1> QED BY <1>7, <1>8, <1>9, <1>18, <1>19 DEF Books

\* An insertion evicts what was used least recently, and stops when it may.
LEMMA InsertionEvicts ==
    ASSUME NEW k, Listed(k), NEW s \in Sources, NEW p \in Pages,
           NEW new, new = Insert(k, s, p),
           NEW t \in Sources, k.text[t] # NoText, new.text[t] = NoText
    PROVE  /\ new.lru[Len(new.lru)] = s
           /\ \A x \in Sources : k.text[x] # NoText /\ Before(k.lru, x, t)
                => new.text[x] = NoText \/ x = s
           /\ (\A x \in Sources : k.text[x] # NoText /\ new.text[x] = NoText => ~Before(k.lru, t, x))
                => new.bytes + Size[t][k.text[t]] > Budget
<1>1. PICK need \in Nat : need = Size[s][p]  BY StoreConstants
<1>2. PICK r : r = Replaced(k, s)  OBVIOUS
<1>3. /\ Listed(r) /\ r.text = [k.text EXCEPT ![s] = NoText]
      /\ \A x, y : x # s /\ y # s /\ Before(k.lru, x, y) => Before(r.lru, x, y)
      /\ \A x, y : Before(r.lru, x, y) => Before(k.lru, x, y)
  BY SMTT(30), <1>2, ReplacementLists
<1>4. PICK room : room = EvictFor(r, need)  OBVIOUS
<1>5. PICK L \in Nat : L = Len(r.lru)  BY <1>3, LenProperties DEF Listed
<1>6. PICK n \in 0..L :
        /\ room.text = [x \in Sources |-> IF x \in Oldest(r, n) THEN NoText ELSE r.text[x]]
        /\ room.bytes = r.bytes - Bytes(r.text, Oldest(r, n))
        /\ \A m \in 0..L : m < n => ~(r.bytes - Bytes(r.text, Oldest(r, m)) + need <= Budget)
  BY <1>1, <1>3, <1>4, <1>5, EvictionIs
<1>7. new = [text |-> [room.text EXCEPT ![s] = p], lru |-> Append(room.lru, s),
             bytes |-> room.bytes + need]
  BY <1>1, <1>2, <1>4 DEF Insert
<1>8. /\ new.text = [room.text EXCEPT ![s] = p] /\ new.lru = Append(room.lru, s)
      /\ new.bytes = room.bytes + need
  BY <1>7
<1>9. new.lru[Len(new.lru)] = s
  <2>1. Listed(room)  BY <1>1, <1>3, <1>4, EvictionLists
  <2>2. PICK list \in Seq(Sources) : list = room.lru  BY <2>1 DEF Listed
  <2> QED BY <1>8, <2>2, AppendProperties
<1>10. p # NoText  BY StoreConstants
<1>11. \A x \in Sources : new.text[x] = IF x = s THEN p
                                        ELSE IF x \in Oldest(r, n) THEN NoText ELSE r.text[x]
  BY <1>6, <1>8
<1>12. /\ \A x \in Sources : r.text[x] = IF x = s THEN NoText ELSE k.text[x]
       /\ r.text \in [Sources -> Spots] /\ k.text \in [Sources -> Spots]
  BY <1>3 DEF Listed
<1>13. t # s /\ r.text[t] = k.text[t] /\ t \in Oldest(r, n)
  BY <1>10, <1>11, <1>12
<1>14. PICK i \in 1..n : t = r.lru[i]  BY <1>13 DEF Oldest
<1>15. \A a, b \in 1..L : r.lru[a] = r.lru[b] => a = b  BY <1>3, <1>5 DEF Listed
<1>16. i \in 1..L /\ n \in 1..L /\ n \in 1..n  BY <1>5, <1>14
<1>17. ASSUME NEW x \in Sources, k.text[x] # NoText, Before(k.lru, x, t), x # s
       PROVE  new.text[x] = NoText
  <2>1. Before(r.lru, x, t)  BY <1>3, <1>13, <1>17
  <2>2. PICK a \in 1..L, b \in 1..L : a < b /\ r.lru[a] = x /\ r.lru[b] = t
    BY <1>5, <2>1 DEF Before
  <2>3. b = i  BY <1>14, <1>15, <1>16, <2>2
  <2>4. a \in 1..n  BY <1>14, <2>2, <2>3
  <2>5. x \in Oldest(r, n)  BY <2>2, <2>4 DEF Oldest
  <2> QED BY <1>11, <1>17, <2>5
<1>18. ASSUME \A x \in Sources : k.text[x] # NoText /\ new.text[x] = NoText => ~Before(k.lru, t, x)
       PROVE  new.bytes + Size[t][k.text[t]] > Budget
  <2>1. i = n
    <3> SUFFICES ASSUME i # n PROVE FALSE
      OBVIOUS
    <3>1. i < n  BY <1>14, <1>16
    <3>2. PICK x : x = r.lru[n]  OBVIOUS
    <3>3. Before(r.lru, t, x)  BY <1>5, <1>14, <1>16, <3>1, <3>2 DEF Before
    <3>4. Before(k.lru, t, x)  BY <1>3, <3>3
    <3>5. x \in Oldest(r, n)  BY <1>16, <3>2 DEF Oldest
    <3>6. x \in Sources /\ r.text[x] # NoText
      <4>1. n \in 0..Len(r.lru)  BY <1>5
      <4>2. Oldest(r, n) \in SUBSET Sources  BY <1>3, <4>1, OldestAre
      <4>3. \A y \in Oldest(r, n) : r.text[y] # NoText  BY <1>3, <4>1, OldestAre
      <4> QED BY <3>5, <4>2, <4>3
    <3>7. x # s /\ k.text[x] # NoText  BY <1>12, <3>6
    <3>8. new.text[x] = NoText  BY <1>11, <3>5, <3>6, <3>7
    <3> QED BY <1>18, <3>4, <3>6, <3>7, <3>8
  <2>2. n - 1 \in 0..L /\ n - 1 < n  BY <1>5, <1>16
  <2>3. ~(r.bytes - Bytes(r.text, Oldest(r, n - 1)) + need <= Budget)  BY <1>6, <2>2
  <2>4. PICK A, B : A = Oldest(r, n - 1) /\ B = {t}  OBVIOUS
  <2>5. A \in SUBSET Sources /\ IsFiniteSet(A)
    <3>1. n - 1 \in 0..Len(r.lru)  BY <1>5, <2>2
    <3> QED BY <1>3, <2>4, <3>1, OldestAre
  <2>6. Oldest(r, n) = A \cup B
    <3>1. \A a \in 1..n : a \in 1..(n - 1) \/ a = n  BY <1>16
    <3>2. \A a \in 1..(n - 1) : a \in 1..n  BY <1>16
    <3> QED BY <1>14, <1>16, <2>1, <2>4, <3>1, <3>2 DEF Oldest
  <2>7. t \notin A
    <3> SUFFICES ASSUME t \in A PROVE FALSE
      OBVIOUS
    <3>1. PICK a \in 1..(n - 1) : r.lru[a] = t  BY <2>4 DEF Oldest
    <3>2. a \in 1..L /\ a # n  BY <1>5, <1>16
    <3> QED BY <1>14, <1>15, <1>16, <2>1, <3>1, <3>2
  <2>8. B \in SUBSET Sources /\ IsFiniteSet(B) /\ A \cap B = {}
    BY <2>4, <2>7, FS_Singleton
  <2>9. Bytes(r.text, A \cup B) = Bytes(r.text, A) + Bytes(r.text, B)
    BY <1>12, <2>5, <2>8, BytesAdd
  <2>10. Bytes(r.text, B) = Size[t][k.text[t]]
    <3>1. r.text[t] # NoText  BY <1>13
    <3> QED BY <1>12, <1>13, <2>4, <3>1, BytesOfOne
  <2>11. PICK a \in Nat, b \in Nat : a = Bytes(r.text, A) /\ b = Bytes(r.text, B)
    BY <1>12, <2>5, <2>8, BytesAreFinite
  <2>12. PICK c \in Nat : c = r.bytes
    <3>1. PICK H : H = Oldest(r, L)  OBVIOUS
    <3>2. L \in 0..L  BY <1>5
    <3>3. H \in SUBSET Sources /\ IsFiniteSet(H)  BY <1>3, <1>5, <3>1, <3>2, OldestAre
    <3>4. \A x \in Sources : r.text[x] # NoText => x \in H
      BY <1>3, <1>5, <3>1 DEF Listed, Oldest
    <3>5. r.bytes = Bytes(r.text, H)  BY ZenonT(40), <1>3, <3>3, <3>4, HeldAre
    <3> QED BY <1>12, <3>3, <3>5, BytesAreFinite
  <2>13. new.bytes = c - (a + b) + need /\ Size[t][k.text[t]] = b
    BY <1>6, <1>8, <2>6, <2>9, <2>10, <2>11, <2>12
  <2>14. ~(c - a + need <= Budget)  BY <2>3, <2>4, <2>11, <2>12
  <2>15. Budget \in Nat  BY StoreConstants
  <2> QED BY <1>1, <2>11, <2>12, <2>13, <2>14, <2>15
<1> QED BY <1>9, <1>17, <1>18

-----------------------------------------------------------------------------
(* The books balance *)

\* Every state is well formed, and its cache is in order.
StoreInv ==
    /\ TypeOK
    /\ Books(cache)
    /\ \A c \in Callers : /\ pc[c] = "fetched" => got[c] \in Bodies
                          /\ pc[c] = "following" => follows[c] \in Callers

LEMMA NothingCached == Books(Empty) /\ Empty \in Caches
<1>1. Empty.text \in [Sources -> Spots] /\ Empty.lru = <<>> /\ Empty.bytes = 0
  BY DEF Empty, Spots
<1>2. \A s \in Sources : Empty.text[s] = NoText  BY DEF Empty
<1>3. Bytes(Empty.text, Sources) = 0
  <2>1. Units(Empty.text, Sources) = {}  BY <1>2 DEF Units
  <2>2. Bytes(Empty.text, Sources) = Cardinality(Units(Empty.text, Sources))  BY BytesIsUnits
  <2> QED BY <2>1, <2>2, FS_EmptySet
<1>4. <<>> \in Seq(Sources) /\ Len(<<>>) = 0  OBVIOUS
<1>5. Listed(Empty)  BY <1>1, <1>2, <1>3, <1>4 DEF Listed
<1>6. Books(Empty)  BY <1>1, <1>5, StoreConstants DEF Books
<1>7. Empty \in Caches
  <2>1. Empty.text \in [Sources -> Pages \cup {NoText}]  BY <1>1 DEF Spots
  <2> QED BY <1>1, <1>4, <2>1 DEF Empty, Caches
<1> QED BY <1>6, <1>7

\* Books are kept on records of three fields.
LEMMA BooksAreCaches ==
    ASSUME NEW k, Listed(k), k = [text |-> k.text, lru |-> k.lru, bytes |-> k.bytes]
    PROVE  k \in Caches
<1>1. k.text \in [Sources -> Pages \cup {NoText}] /\ k.lru \in Seq(Sources)
  BY DEF Listed, Spots
<1>2. PICK L \in Nat : L = Len(k.lru) /\ L \in 0..L  BY <1>1, LenProperties
<1>3. k.bytes = Bytes(k.text, Oldest(k, L))  BY <1>2, HeldAre
<1>4. Oldest(k, L) \in SUBSET Sources /\ IsFiniteSet(Oldest(k, L))  BY <1>2, OldestAre
<1>5. k.bytes \in Nat
  <2>1. k.text \in [Sources -> Spots]  BY DEF Listed
  <2> QED BY <1>3, <1>4, <2>1, BytesAreFinite
<1> QED BY <1>1, <1>5 DEF Caches

LEMMA CachesAreRecords ==
    ASSUME NEW k \in Caches
    PROVE  k = [text |-> k.text, lru |-> k.lru, bytes |-> k.bytes]
  BY DEF Caches

LEMMA TouchBooks ==
    ASSUME NEW k \in Caches, Books(k), NEW s \in Sources
    PROVE  Books(Touch(k, s)) /\ Touch(k, s) \in Caches /\ Touch(k, s).text = k.text
<1>1. k = [text |-> k.text, lru |-> k.lru, bytes |-> k.bytes]  BY CachesAreRecords
<1>2. Listed(k)  BY DEF Books
<1>3. PICK t : t = Touch(k, s)  OBVIOUS
<1>4. Listed(t) /\ Len(t.lru) = Len(k.lru)  BY <1>1, <1>2, <1>3, TouchLists
<1>5. t = [text |-> k.text, lru |-> t.lru, bytes |-> k.bytes]  BY <1>1, <1>2, <1>3, TouchLists
<1>6. t.text = k.text /\ t.bytes = k.bytes  BY <1>5
<1>7. t \in Caches  BY <1>4, <1>5, <1>6, BooksAreCaches
<1> QED BY <1>3, <1>4, <1>6, <1>7 DEF Books

LEMMA InsertionCaches ==
    ASSUME NEW k, Books(k), NEW s \in Sources, NEW p \in Pages
    PROVE  Books(Insert(k, s, p)) /\ Insert(k, s, p) \in Caches
<1>1. Listed(k)  BY DEF Books
<1>2. PICK new : new = Insert(k, s, p)  OBVIOUS
<1>3. Books(new)  BY <1>1, <1>2, InsertionBooks
<1>4. new = [text |-> new.text, lru |-> new.lru, bytes |-> new.bytes]
  BY <1>1, <1>2, InsertionBooks
<1>5. new \in Caches  BY <1>3, <1>4, BooksAreCaches DEF Books
<1> QED BY <1>2, <1>3, <1>5

\* What a step does to the cache.
LEMMA CallerCaches ==
    ASSUME StoreInv, NEW c \in Callers, CallStep(c)
    PROVE  \/ cache' = cache
           \/ cache' = Touch(cache, want[c])
           \/ /\ want[c] \in Sources /\ got[c].page \in Pages
              /\ cache' = Insert(cache, want[c], got[c].page)
<1>1. want[c] \in Sources  BY DEF StoreInv, TypeOK
<1>2. CASE Looks(c)  BY <1>2 DEF Looks
<1>3. CASE TakesRole(c)  BY <1>3 DEF TakesRole
<1>4. CASE Publishes(c)
  <2>1. pc[c] = "fetched" /\ cache' \in {cache, Insert(cache, want[c], got[c].page)}
    BY <1>4 DEF Publishes
  <2>2. got[c] \in Bodies  BY <2>1 DEF StoreInv
  <2>3. got[c].page \in Pages  BY <2>2 DEF Bodies
  <2> QED BY <1>1, <2>1, <2>3
<1>5. CASE Fetched(c) \/ Wakes(c) \/ Cancelled(c)
  BY <1>5 DEF Fetched, Wakes, Cancelled, cacheVars
<1> QED BY <1>2, <1>3, <1>4, <1>5 DEF CallStep

\* What a call's step leaves in each variable.
LEMMA CallerTypes ==
    ASSUME StoreInv, NEW c \in Callers, CallStep(c)
    PROVE  /\ inflight' \in [Sources -> Callers \cup {NoCaller}]
           /\ said' \in [Callers -> Bodies \cup {Silent, Closed}]
           /\ pc' \in [Callers -> PCs]
           /\ follows' \in [Callers -> Callers \cup {NoCaller}]
           /\ joined' \in [Callers -> Pages]
           /\ got' \in [Callers -> Bodies \cup {Silent}]
           /\ \A d \in Callers : /\ pc'[d] = "fetched" => got'[d] \in Bodies
                                 /\ pc'[d] = "following" => follows'[d] \in Callers
<1>1. /\ page \in Pages /\ generation \in Pages /\ want[c] \in Sources
      /\ inflight \in [Sources -> Callers \cup {NoCaller}]
      /\ said \in [Callers -> Bodies \cup {Silent, Closed}]
      /\ pc \in [Callers -> PCs]
      /\ follows \in [Callers -> Callers \cup {NoCaller}]
      /\ joined \in [Callers -> Pages]
      /\ got \in [Callers -> Bodies \cup {Silent}]
      /\ cache.text \in [Sources -> Pages \cup {NoText}]
  <2>1. page \in Pages /\ generation \in 0..page  BY DEF StoreInv, TypeOK
  <2>2. generation \in Pages  BY <2>1, StoreConstants DEF Pages
  <2>3. cache.text \in [Sources -> Pages \cup {NoText}]  BY DEF StoreInv, TypeOK, Caches
  <2> QED BY <2>1, <2>2, <2>3 DEF StoreInv, TypeOK
<1>2. \A d \in Callers : /\ pc[d] = "fetched" => got[d] \in Bodies
                         /\ pc[d] = "following" => follows[d] \in Callers
  BY DEF StoreInv
<1>3. \A s \in Held : Body("text", cache.text[s]) \in Bodies
  BY <1>1 DEF Held, Body, Bodies, Kinds
<1>4. \A k \in Kinds : Body(k, page) \in Bodies
  BY <1>1 DEF Body, Bodies
<1>5. {"idle", "missed", "leading", "fetched", "following", "retry", "done", "cancelled"} \subseteq PCs
  BY DEF PCs
<1>6. CASE Looks(c)
  <2>1. {"unavailable", "notText"} \subseteq Kinds  BY DEF Kinds
  <2> QED BY <1>1, <1>2, <1>3, <1>4, <1>5, <1>6, <2>1 DEF Looks, Returns
<1>7. CASE TakesRole(c)
  BY <1>1, <1>2, <1>3, <1>5, <1>7 DEF TakesRole, Returns
<1>8. CASE Fetched(c)
  <2>1. {"text"} \cup Failures \subseteq Kinds  BY StoreConstants DEF Kinds
  <2> QED BY <1>1, <1>2, <1>4, <1>5, <1>8, <2>1 DEF Fetched, cacheVars
<1>9. CASE Publishes(c)
  <2>1. pc[c] = "fetched"  BY <1>9 DEF Publishes
  <2>2. got[c] \in Bodies  BY <1>2, <2>1
  <2>3. Shared(got[c]) \in Bodies  BY <2>2 DEF Shared, Bodies, Kinds
  <2>4. said' \in [Callers -> Bodies \cup {Silent, Closed}]
    BY <1>1, <1>9, <2>3 DEF Publishes, Tells
  <2> QED BY <1>1, <1>2, <1>5, <1>9, <2>4 DEF Publishes, Tells
<1>10. CASE Wakes(c)
  <2>1. pc[c] = "following" /\ follows[c] \in Callers  BY <1>2, <1>10 DEF Wakes
  <2>2. said[follows[c]] \in Bodies \cup {Closed}  BY <1>1, <1>10, <2>1 DEF Wakes
  <2> QED BY <1>1, <1>2, <1>5, <1>10, <2>2 DEF Wakes, Returns, cacheVars
<1>11. CASE Cancelled(c)
  BY <1>1, <1>2, <1>5, <1>11 DEF Cancelled, cacheVars
<1> QED BY <1>6, <1>7, <1>8, <1>9, <1>10, <1>11 DEF CallStep

LEMMA StoreKept == StoreInv /\ [Next]_vars => StoreInv'
<1> SUFFICES ASSUME StoreInv, [Next]_vars PROVE StoreInv'
  OBVIOUS
<1>1. cache \in Caches /\ Books(cache) /\ page \in Pages /\ generation \in 0..page
  BY DEF StoreInv, TypeOK
<1>2. ASSUME NEW c \in Callers, CallStep(c) PROVE StoreInv'
  <2>1. page' = page /\ generation' = generation /\ want' = want
    BY <1>2 DEF CallStep, Looks, TakesRole, Fetched, Publishes, Wakes, Cancelled, cacheVars
  <2>2. Books(cache') /\ cache' \in Caches
    <3>1. CASE cache' = cache  BY <1>1, <3>1
    <3>2. CASE cache' = Touch(cache, want[c])
      <4>1. want[c] \in Sources  BY DEF StoreInv, TypeOK
      <4> QED BY <1>1, <3>2, <4>1, TouchBooks
    <3>3. CASE /\ want[c] \in Sources /\ got[c].page \in Pages
               /\ cache' = Insert(cache, want[c], got[c].page)
      BY <1>1, <3>3, InsertionCaches
    <3> QED BY <1>2, <3>1, <3>2, <3>3, CallerCaches
  <2>3. want' \in [Callers -> Sources] /\ page' \in Pages /\ generation' \in 0..page'
    BY <2>1 DEF StoreInv, TypeOK
  <2>4. TypeOK'  BY <1>2, <2>2, <2>3, CallerTypes DEF TypeOK
  <2>5. (\A d \in Callers : /\ pc[d] = "fetched" => got[d] \in Bodies
                            /\ pc[d] = "following" => follows[d] \in Callers)'
    BY <1>2, CallerTypes
  <2> QED BY <2>2, <2>4, <2>5 DEF StoreInv
<1>3. ASSUME NEW s \in Sources, Peek(s) PROVE StoreInv'
  <2>1. Books(cache') /\ cache' \in Caches  BY <1>1, <1>3, TouchBooks DEF Peek
  <2> QED BY <1>3, <2>1 DEF Peek, callVars, StoreInv, TypeOK
<1>4. CASE Clear
  <2>1. Books(cache') /\ cache' \in Caches  BY <1>4, NothingCached DEF Clear
  <2>2. generation' \in 0..page' /\ page' \in Pages
    BY <1>1, <1>4, StoreConstants DEF Clear, Pages
  <2>3. /\ inflight' \in [Sources -> Callers \cup {NoCaller}]
        /\ said' \in [Callers -> Bodies \cup {Silent, Closed}]
    BY <1>4 DEF Clear, StoreInv, TypeOK
  <2> QED BY <1>4, <2>1, <2>2, <2>3 DEF Clear, callVars, StoreInv, TypeOK
<1>5. CASE Navigates
  <2>1. page' \in Pages /\ generation' \in 0..page'
    BY <1>1, <1>5, StoreConstants DEF Navigates, Pages, cacheVars
  <2> QED BY <1>5, <2>1 DEF Navigates, cacheVars, callVars, StoreInv, TypeOK
<1>6. CASE UNCHANGED vars
  BY <1>6 DEF vars, cacheVars, callVars, StoreInv, TypeOK
<1> QED BY <1>2, <1>3, <1>4, <1>5, <1>6 DEF Next

LEMMA StoreInvariant == Spec => []StoreInv
<1>1. Init => StoreInv
  <2> SUFFICES ASSUME Init PROVE StoreInv
    OBVIOUS
  <2>1. Books(cache) /\ cache \in Caches  BY NothingCached DEF Init
  <2>2. 0 \in Pages /\ 0 \in 0..0  BY StoreConstants DEF Pages
  <2>3. TypeOK  BY <2>1, <2>2 DEF Init, TypeOK, PCs
  <2> QED BY <2>1, <2>3 DEF Init, StoreInv
<1> QED BY <1>1, StoreKept, PTL DEF Spec

\* Every state has its declared shape; in particular bytes_held is never
\* negative, so that no saturating_sub hides an imbalance.  [Inner]
THEOREM StoreTyped == Spec => []TypeOK
  BY StoreInvariant, PTL DEF StoreInv

\* The books balance in every state: the recency list names every cached source
\* once, bytes_held is what is cached, and the budget is kept unless one text
\* alone exceeds it.  [Inner::insert, Inner::evict_lru, clear]
THEOREM BooksBalance == Spec => []Accounting
<1>1. StoreInv => Accounting
  <2> SUFFICES ASSUME StoreInv PROVE Accounting
    OBVIOUS
  <2>1. Listed(cache) /\ (cache.bytes <= Budget \/ Len(cache.lru) = 1)
    BY DEF StoreInv, Books
  <2>2. PICK list \in Seq(Sources) : list = cache.lru  BY <2>1 DEF Listed
  <2>3. PICK L \in Nat : L = Len(list) /\ L \in 0..L  BY LenProperties
  <2>4. \A i \in 1..L : list[i] \in Sources  BY <2>3, ElementOfSeq
  <2>5. \A i, j \in 1..L : list[i] = list[j] => i = j  BY <2>1, <2>2, <2>3 DEF Listed
  <2>6. \A s \in Sources : s \in Held <=> \E i \in 1..L : list[i] = s
    BY <2>1, <2>2, <2>3 DEF Listed, Held
  <2>7. ToSet(list) = {list[i] : i \in 1..L}
    <3>1. DOMAIN list = 1..L  BY <2>3
    <3> QED BY <3>1 DEF ToSet
  <2>8. ToSet(cache.lru) = Held
    <3>1. Held \subseteq Sources  BY DEF Held
    <3> QED BY <2>2, <2>4, <2>6, <2>7, <3>1
  <2>9. Cardinality(Held) = L
    <3>1. PICK f : f = [i \in 1..L |-> list[i]]  OBVIOUS
    <3>2. ExistsBijection(1..L, Held)
      <4>1. \A i \in 1..L : f[i] = list[i]  BY <3>1
      <4>2. f \in [1..L -> Held]  BY <2>4, <2>6, <3>1
      <4>3. \A i, j \in 1..L : f[i] = f[j] => i = j  BY <2>5, <4>1
      <4>4. \A s \in Held : \E i \in 1..L : f[i] = s  BY <2>6, <4>1 DEF Held
      <4>5. f \in Bijection(1..L, Held)
        BY <4>2, <4>3, <4>4 DEF Bijection, Injection, Surjection, IsInjective
      <4> QED BY <4>5 DEF ExistsBijection
    <3> QED BY <2>3, <3>2, FS_CountingElements
  <2>10. cache.bytes = Bytes(cache.text, Held)
    <3>1. Held \in SUBSET Sources /\ \A s \in Sources : cache.text[s] # NoText => s \in Held
      BY DEF Held
    <3> QED BY <2>1, <3>1, HeldAre
  <2> QED BY <2>1, <2>2, <2>3, <2>8, <2>9, <2>10 DEF Accounting
<1> QED BY <1>1, StoreInvariant, PTL

-----------------------------------------------------------------------------
(* Eviction *)

\* An insertion evicts in order of last use and stops as soon as the new text
\* fits.  [Inner::insert]
THEOREM EvictionsAreDue == Spec => EvictsOnlyWhatItMust
<1>1. StoreInv /\ [Next]_vars =>
        [generation' = generation =>
           \A t \in Evicted :
              /\ \A s \in Held : UsedBefore(s, t) => s \in Evicted \/ cache'.lru[Len(cache'.lru)] = s
              /\ (\A s \in Evicted : ~UsedBefore(t, s))
                    => cache'.bytes + Size[t][cache.text[t]] > Budget]_vars
  <2> SUFFICES ASSUME StoreInv, Next, generation' = generation, NEW t \in Evicted
               PROVE  /\ \A s \in Held : UsedBefore(s, t) => s \in Evicted \/ cache'.lru[Len(cache'.lru)] = s
                      /\ (\A s \in Evicted : ~UsedBefore(t, s))
                            => cache'.bytes + Size[t][cache.text[t]] > Budget
    OBVIOUS
  <2>1. t \in Sources /\ cache.text[t] # NoText /\ cache'.text[t] = NoText
    BY DEF Evicted, Held
  <2>2. cache \in Caches /\ Books(cache) /\ generation \in Nat
    BY DEF StoreInv, TypeOK
  <2>3. cache'.text # cache.text  BY <2>1
  <2>4. ~Clear /\ ~Navigates  BY <2>2, <2>3 DEF Clear, Navigates, cacheVars
  <2>5. \A s \in Sources : ~Peek(s)  BY <2>2, <2>3, TouchBooks DEF Peek
  <2>6. PICK c \in Callers : CallStep(c)  BY <2>4, <2>5 DEF Next
  <2>7. want[c] \in Sources  BY DEF StoreInv, TypeOK
  <2>8. cache' # cache /\ cache' # Touch(cache, want[c])
    BY <2>2, <2>3, <2>7, TouchBooks
  <2>9. got[c].page \in Pages /\ cache' = Insert(cache, want[c], got[c].page)
    BY <2>6, <2>8, CallerCaches
  <2>10. PICK new : new = cache'  OBVIOUS
  <2>11. PICK w \in Sources, p \in Pages : w = want[c] /\ new = Insert(cache, w, p)
    BY <2>7, <2>9, <2>10
  <2>12. Listed(cache)  BY <2>2 DEF Books
  <2>13. new.text[t] = NoText  BY <2>1, <2>10
  <2>14. new.lru[Len(new.lru)] = w
    BY <2>1, <2>11, <2>12, <2>13, InsertionEvicts
  <2>15. \A x \in Sources : cache.text[x] # NoText /\ Before(cache.lru, x, t)
                              => new.text[x] = NoText \/ x = w
    BY <2>1, <2>11, <2>12, <2>13, InsertionEvicts
  <2>16. (\A x \in Sources : cache.text[x] # NoText /\ new.text[x] = NoText
                              => ~Before(cache.lru, t, x))
           => new.bytes + Size[t][cache.text[t]] > Budget
    BY <2>1, <2>11, <2>12, <2>13, InsertionEvicts
  <2>17. \A x, y : UsedBefore(x, y) <=> Before(cache.lru, x, y)  BY DEF UsedBefore, Before
  <2>18. \A x : x \in Evicted <=> x \in Sources /\ cache.text[x] # NoText /\ new.text[x] = NoText
    BY <2>10 DEF Evicted, Held
  <2>19. ASSUME NEW s \in Held, UsedBefore(s, t)
         PROVE  s \in Evicted \/ cache'.lru[Len(cache'.lru)] = s
    <3>1. s \in Sources /\ cache.text[s] # NoText  BY DEF Held
    <3>2. new.text[s] = NoText \/ s = w  BY <2>15, <2>17, <2>19, <3>1
    <3> QED BY <2>10, <2>14, <2>18, <3>1, <3>2
  <2>20. ASSUME \A s \in Evicted : ~UsedBefore(t, s)
         PROVE  cache'.bytes + Size[t][cache.text[t]] > Budget
    BY <2>10, <2>16, <2>17, <2>18, <2>20
  <2> QED BY <2>19, <2>20
<1> QED BY <1>1, StoreInvariant, PTL DEF Spec, EvictsOnlyWhatItMust

-----------------------------------------------------------------------------
(* Console: how many messages there are *)

SaidPlaces(events, n) == {i \in 1..n : events[i].kind = "added"}
SincePlaces(events, n) ==
    {i \in 1..n : events[i].kind = "added" /\ \A j \in i..n : events[j].kind # "cleared"}

LEMMA SaidIs ==
    ASSUME NEW events, NEW n \in Nat
    PROVE  /\ IsFiniteSet(SaidPlaces(events, n)) /\ IsFiniteSet(SincePlaces(events, n))
           /\ Said(events, n) = Cardinality(SaidPlaces(events, n))
           /\ SaidSince(events, n) = Cardinality(SincePlaces(events, n))
           /\ Said(events, n) \in Nat /\ SaidSince(events, n) \in Nat
           /\ SaidSince(events, n) <= Said(events, n)
<1>1. IsFiniteSet(1..n)  BY FS_Interval
<1>2. SaidPlaces(events, n) \subseteq 1..n /\ SincePlaces(events, n) \subseteq SaidPlaces(events, n)
  BY DEF SaidPlaces, SincePlaces
<1>3. IsFiniteSet(SaidPlaces(events, n))  BY <1>1, <1>2, FS_Subset
<1>4. /\ IsFiniteSet(SincePlaces(events, n))
      /\ Cardinality(SincePlaces(events, n)) <= Cardinality(SaidPlaces(events, n))
  BY <1>2, <1>3, FS_Subset
<1>5. Said(events, n) = Cardinality(SaidPlaces(events, n))
      /\ SaidSince(events, n) = Cardinality(SincePlaces(events, n))
  BY DEF Said, SaidSince, SaidPlaces, SincePlaces
<1>6. Cardinality(SaidPlaces(events, n)) \in Nat /\ Cardinality(SincePlaces(events, n)) \in Nat
  BY <1>3, <1>4, FS_CardinalityType
<1> QED BY <1>3, <1>4, <1>5, <1>6

\* Before the first event there are none.
LEMMA NothingSaid ==
    ASSUME NEW events
    PROVE  Said(events, 0) = 0 /\ SaidSince(events, 0) = 0
<1>1. SaidPlaces(events, 0) = {} /\ SincePlaces(events, 0) = {}
  BY DEF SaidPlaces, SincePlaces
<1> QED BY <1>1, SaidIs, FS_EmptySet

\* One event more.
LEMMA SaidNext ==
    ASSUME NEW events, NEW n \in Nat
    PROVE  /\ Said(events, n + 1) =
                 IF events[n + 1].kind = "added" THEN Said(events, n) + 1 ELSE Said(events, n)
           /\ events[n + 1].kind = "added" => SaidSince(events, n + 1) = SaidSince(events, n) + 1
           /\ events[n + 1].kind = "cleared" => SaidSince(events, n + 1) = 0
           /\ events[n + 1].kind = "repeated" => SaidSince(events, n + 1) = SaidSince(events, n)
<1> DEFINE last == events[n + 1].kind
<1>1. n + 1 \in Nat /\ n + 1 \notin 1..n /\ \A i : i \in 1..(n + 1) <=> i \in 1..n \/ i = n + 1
  OBVIOUS
<1>2. SaidPlaces(events, n + 1) =
        IF last = "added" THEN SaidPlaces(events, n) \cup {n + 1} ELSE SaidPlaces(events, n)
  BY <1>1 DEF SaidPlaces
<1>3. n + 1 \notin SaidPlaces(events, n) /\ n + 1 \notin SincePlaces(events, n)
  BY <1>1 DEF SaidPlaces, SincePlaces
<1>4. \A i \in 1..n : (\A j \in i..(n + 1) : events[j].kind # "cleared")
                        <=> (\A j \in i..n : events[j].kind # "cleared") /\ last # "cleared"
  <2> SUFFICES ASSUME NEW i \in 1..n
               PROVE  (\A j \in i..(n + 1) : events[j].kind # "cleared")
                        <=> (\A j \in i..n : events[j].kind # "cleared") /\ last # "cleared"
    OBVIOUS
  <2>1. \A j : j \in i..(n + 1) <=> j \in i..n \/ j = n + 1  OBVIOUS
  <2> QED BY <2>1
<1>5. \A j \in (n + 1)..(n + 1) : j = n + 1  OBVIOUS
<1>6. SincePlaces(events, n + 1) =
        IF last = "added" THEN SincePlaces(events, n) \cup {n + 1}
        ELSE IF last = "cleared" THEN {} ELSE SincePlaces(events, n)
  BY <1>1, <1>4, <1>5 DEF SincePlaces
<1>7. Cardinality(SaidPlaces(events, n) \cup {n + 1}) = Said(events, n) + 1
      /\ Cardinality(SincePlaces(events, n) \cup {n + 1}) = SaidSince(events, n) + 1
  <2>1. PICK A, B : A = SaidPlaces(events, n) /\ B = SincePlaces(events, n)  OBVIOUS
  <2>2. IsFiniteSet(A) /\ IsFiniteSet(B) /\ n + 1 \notin A /\ n + 1 \notin B  BY <1>3, <2>1, SaidIs
  <2>3. Cardinality(A \cup {n + 1}) = Cardinality(A) + 1 /\ Cardinality(B \cup {n + 1}) = Cardinality(B) + 1
    BY <2>2, FS_AddElement
  <2>4. Cardinality(A) = Said(events, n) /\ Cardinality(B) = SaidSince(events, n)  BY <2>1, SaidIs
  <2> QED BY <2>1, <2>3, <2>4
<1>8. Said(events, n + 1) = Cardinality(SaidPlaces(events, n + 1))
      /\ SaidSince(events, n + 1) = Cardinality(SincePlaces(events, n + 1))
      /\ Said(events, n) = Cardinality(SaidPlaces(events, n))
      /\ SaidSince(events, n) = Cardinality(SincePlaces(events, n))
  BY <1>1, SaidIs
<1>9. Cardinality({}) = 0  BY FS_EmptySet
<1> QED BY <1>2, <1>6, <1>7, <1>8, <1>9

\* They only become more.
LEMMA SaidGrows ==
    ASSUME NEW events, NEW n \in Nat, NEW k \in 0..n
    PROVE  Said(events, k) <= Said(events, n)
<1>1. SaidPlaces(events, k) \subseteq SaidPlaces(events, n)  BY DEF SaidPlaces
<1> QED BY <1>1, SaidIs, FS_Subset

\* Each message has a last event that mentions it.
Mentioned(events, n, x, j) ==
    j \in Mentions(events, n, x) /\ \A k \in Mentions(events, n, x) : k <= j

LEMMA MentionsNext ==
    ASSUME NEW events, NEW n \in Nat, NEW x
    PROVE  IF events[n + 1].kind # "cleared" /\ Said(events, n + 1) = x
           THEN Mentioned(events, n + 1, x, n + 1)
           ELSE Mentions(events, n + 1, x) = Mentions(events, n, x)
<1>1. \A i : i \in 1..(n + 1) <=> i \in 1..n \/ i = n + 1  OBVIOUS
<1>2. \A i \in 1..(n + 1) : i <= n + 1  OBVIOUS
<1> QED BY <1>1, <1>2 DEF Mentioned, Mentions

LEMMA EachIsMentioned ==
    ASSUME NEW events, NEW n \in Nat, NEW x \in 1..Said(events, n)
    PROVE  \E j \in 1..n : Mentioned(events, n, x, j)
<1> DEFINE All(i) == \A y \in 1..Said(events, i) : \E j \in 1..i : Mentioned(events, i, y, j)
           T == {i \in Nat : All(i)}
<1>1. 0 \in T
  <2>1. 1..Said(events, 0) = {}  BY NothingSaid
  <2> QED BY <2>1
<1>2. ASSUME NEW i \in Nat, i \in T PROVE i + 1 \in T
  <2> SUFFICES ASSUME NEW y \in 1..Said(events, i + 1)
               PROVE  \E j \in 1..(i + 1) : Mentioned(events, i + 1, y, j)
    OBVIOUS
  <2>1. CASE events[i + 1].kind # "cleared" /\ Said(events, i + 1) = y
    <3>1. Mentioned(events, i + 1, y, i + 1)  BY <2>1, MentionsNext
    <3>2. i + 1 \in 1..(i + 1)  OBVIOUS
    <3> QED BY <3>1, <3>2
  <2>2. CASE ~(events[i + 1].kind # "cleared" /\ Said(events, i + 1) = y)
    <3>1. Mentions(events, i + 1, y) = Mentions(events, i, y)  BY <2>2, MentionsNext
    <3>2. y \in 1..Said(events, i)
      <4>1. PICK a \in Nat, b \in Nat : a = Said(events, i) /\ b = Said(events, i + 1)
        BY SaidIs
      <4>2. b = IF events[i + 1].kind = "added" THEN a + 1 ELSE a  BY <4>1, SaidNext
      <4> QED BY <2>2, <4>1, <4>2
    <3>3. PICK j \in 1..i : Mentioned(events, i, y, j)  BY <1>2, <3>2
    <3>4. j \in 1..(i + 1)  OBVIOUS
    <3> QED BY <3>1, <3>3, <3>4 DEF Mentioned
  <2> QED BY <2>1, <2>2
<1> HIDE DEF T
<1>3. n \in T  BY <1>1, <1>2, SetInduction
<1> QED BY <1>3 DEF T

LEMMA FinalCountIs ==
    ASSUME NEW events, NEW n \in Nat, NEW x, NEW j \in 1..n, Mentioned(events, n, x, j)
    PROVE  FinalCount(events, n, x) = events[j].count
<1>1. \A i \in Mentions(events, n, x) : i \in Nat  BY DEF Mentions
<1>2. \A i \in Mentions(events, n, x) :
        (\A k \in Mentions(events, n, x) : k <= i) => i = j
  BY <1>1 DEF Mentioned
<1>3. j = CHOOSE i \in Mentions(events, n, x) : \A k \in Mentions(events, n, x) : k <= i
  BY <1>2 DEF Mentioned
<1> QED BY <1>3 DEF FinalCount

LEMMA FinalCountNext ==
    ASSUME NEW events, NEW n \in Nat, NEW x \in 1..Said(events, n + 1)
    PROVE  FinalCount(events, n + 1, x) =
              IF events[n + 1].kind # "cleared" /\ Said(events, n + 1) = x
              THEN events[n + 1].count ELSE FinalCount(events, n, x)
<1>1. n + 1 \in Nat /\ n + 1 \in 1..(n + 1)  OBVIOUS
<1>2. CASE events[n + 1].kind # "cleared" /\ Said(events, n + 1) = x
  <2>1. PICK i \in Nat : i = n + 1 /\ i \in 1..i  BY <1>1
  <2>2. Mentioned(events, i, x, i)  BY <1>2, <2>1, MentionsNext
  <2>3. FinalCount(events, i, x) = events[i].count  BY <2>1, <2>2, FinalCountIs
  <2> QED BY <1>2, <2>1, <2>3
<1>3. CASE ~(events[n + 1].kind # "cleared" /\ Said(events, n + 1) = x)
  <2>1. Mentions(events, n + 1, x) = Mentions(events, n, x)  BY <1>3, MentionsNext
  <2>2. FinalCount(events, n + 1, x) = FinalCount(events, n, x)  BY ONLY <2>1, Zenon DEF FinalCount
  <2> QED BY <1>3, <2>2
<1> QED BY <1>2, <1>3

-----------------------------------------------------------------------------
(* What a log should be *)

LEMMA LostIs ==
    ASSUME NEW events, NEW n \in Nat
    PROVE  IsFiniteSet(Lost(events, n)) /\ Cardinality(Lost(events, n)) \in Nat
<1>1. PICK a \in Nat : a = Said(events, n)  BY SaidIs
<1>2. IsFiniteSet(1..a)  BY FS_Interval
<1>3. Lost(events, n) \subseteq 1..a  BY <1>1 DEF Lost
<1>4. IsFiniteSet(Lost(events, n))  BY <1>2, <1>3, FS_Subset
<1> QED BY <1>4, FS_CardinalityType

\* A message that finds no room costs the oldest of the newest.
LEMMA LostNext ==
    ASSUME NEW events, NEW n \in Nat, events[n + 1].kind \in {"added", "repeated", "cleared"}
    PROVE  Cardinality(Lost(events, n + 1)) =
              IF events[n + 1].kind = "added" /\ SaidSince(events, n) >= Capacity
              THEN Cardinality(Lost(events, n)) + 1 ELSE Cardinality(Lost(events, n))
<1> DEFINE last == events[n + 1].kind
           Out(to, x) == Said(events, to) < x + SaidSince(events, to) /\ x + Capacity <= Said(events, to)
<1>1. Capacity \in Nat /\ Capacity >= 1  BY ConsoleConstants
<1>2. PICK A \in Nat, S \in Nat : A = Said(events, n) /\ S = SaidSince(events, n) /\ S <= A
  BY SaidIs
<1>3. PICK B \in Nat, R \in Nat : B = Said(events, n + 1) /\ R = SaidSince(events, n + 1) /\ R <= B
  BY SaidIs
<1>4. /\ last = "added" => B = A + 1 /\ R = S + 1
      /\ last = "repeated" => B = A /\ R = S
      /\ last = "cleared" => B = A /\ R = 0
  BY <1>2, <1>3, SaidNext
<1>5. \A to \in 1..n : Said(events, to) \in Nat /\ Said(events, to) <= A
  <2> SUFFICES ASSUME NEW to \in 1..n PROVE Said(events, to) \in Nat /\ Said(events, to) <= A
    OBVIOUS
  <2>1. to \in Nat /\ to \in 0..n  OBVIOUS
  <2> QED BY <1>2, <2>1, SaidIs, SaidGrows
<1>6. \A to : to \in 1..(n + 1) <=> to \in 1..n \/ to = n + 1  OBVIOUS
<1>7. n = 0 => A = 0  BY <1>2, NothingSaid
<1>8. \A x : x \in Lost(events, n) <=> x \in 1..A /\ \E to \in 1..n : Out(to, x)
  BY <1>2 DEF Lost
<1>9. \A x : x \in Lost(events, n + 1) <=> x \in 1..B /\ ((\E to \in 1..n : Out(to, x)) \/ Out(n + 1, x))
  BY <1>3, <1>6 DEF Lost
<1>10. \A x \in Nat : (\E to \in 1..n : Out(to, x)) => x + Capacity <= A
  <2> SUFFICES ASSUME NEW x \in Nat, NEW to \in 1..n, Out(to, x) PROVE x + Capacity <= A
    OBVIOUS
  <2>1. PICK y \in Nat : y = Said(events, to) /\ y <= A  BY <1>5
  <2> QED BY <1>1, <2>1
<1>11. \A x : Out(n + 1, x) <=> B < x + R /\ x + Capacity <= B  BY <1>3
<1>12. \A x \in 1..A : A < x + S /\ x + Capacity <= A => \E to \in 1..n : Out(to, x)
  <2> SUFFICES ASSUME NEW x \in 1..A, A < x + S, x + Capacity <= A
               PROVE  \E to \in 1..n : Out(to, x)
    OBVIOUS
  <2>1. n # 0  BY <1>7
  <2>2. n \in 1..n  BY <2>1
  <2>3. Out(n, x)  BY <1>2
  <2> QED BY <2>2, <2>3
<1> HIDE DEF Out
<1>13. CASE last = "added" /\ S >= Capacity
  <2> DEFINE y == (A + 1) - Capacity
  <2>1. y \in Nat /\ y \in 1..B /\ y + Capacity = A + 1 /\ B = A + 1 /\ R = S + 1
    BY <1>1, <1>2, <1>4, <1>13
  <2> HIDE DEF y
  <2>2. y \notin Lost(events, n)
    <3> SUFFICES ASSUME y \in Lost(events, n) PROVE FALSE
      OBVIOUS
    <3>1. y + Capacity <= A  BY <1>8, <1>10, <2>1
    <3> QED BY <2>1, <3>1
  <2>3. Out(n + 1, y)  BY <1>2, <1>11, <1>13, <1>1, <2>1
  <2>4. ASSUME NEW x PROVE x \in Lost(events, n + 1) <=> x \in Lost(events, n) \/ x = y
    <3>1. x \in Lost(events, n) => x \in Lost(events, n + 1)
      <4>1. x \in 1..A => x \in 1..B  BY <2>1
      <4> QED BY <1>8, <1>9, <4>1
    <3>2. y \in Lost(events, n + 1)  BY <1>9, <2>1, <2>3
    <3>3. ASSUME x \in Lost(events, n + 1), x # y PROVE x \in Lost(events, n)
      <4>1. x \in 1..B  BY <1>9, <3>3
      <4>2. x \in Nat  BY <4>1, <1>3
      <4>3. CASE \E to \in 1..n : Out(to, x)
        <5>1. x + Capacity <= A  BY <1>10, <4>2, <4>3
        <5>2. x \in 1..A  BY <1>1, <4>1, <5>1
        <5> QED BY <1>8, <4>3, <5>2
      <4>4. CASE Out(n + 1, x)
        <5>1. B < x + R /\ x + Capacity <= B  BY <1>11, <4>4
        <5>2. x + Capacity <= A /\ A < x + S  BY <1>1, <1>2, <1>3, <2>1, <3>3, <4>2, <5>1
        <5>3. x \in 1..A  BY <1>1, <4>1, <5>2
        <5> QED BY <1>8, <1>12, <5>2, <5>3
      <4> QED BY <1>9, <3>3, <4>3, <4>4
    <3> QED BY <3>1, <3>2, <3>3
  <2>5. Lost(events, n + 1) = Lost(events, n) \cup {y}  BY <2>4
  <2>6. PICK L : L = Lost(events, n)  OBVIOUS
  <2>7. Cardinality(L \cup {y}) = Cardinality(L) + 1  BY <2>2, <2>6, LostIs, FS_AddElement
  <2> QED BY <1>2, <1>13, <2>5, <2>6, <2>7
<1>14. CASE ~(last = "added" /\ S >= Capacity)
  <2>1. ASSUME NEW x PROVE x \in Lost(events, n + 1) <=> x \in Lost(events, n)
    <3>1. x \in Lost(events, n) => x \in Lost(events, n + 1)
      <4>1. x \in 1..A => x \in 1..B  BY <1>4
      <4> QED BY <1>8, <1>9, <4>1
    <3>2. ASSUME x \in Lost(events, n + 1) PROVE x \in Lost(events, n)
      <4>1. x \in 1..B  BY <1>9, <3>2
      <4>2. x \in Nat  BY <4>1, <1>3
      <4>3. CASE \E to \in 1..n : Out(to, x)
        <5>1. x + Capacity <= A  BY <1>10, <4>2, <4>3
        <5>2. x \in 1..A  BY <1>1, <4>1, <5>1
        <5> QED BY <1>8, <4>3, <5>2
      <4>4. CASE Out(n + 1, x)
        <5>1. B < x + R /\ x + Capacity <= B  BY <1>11, <4>4
        <5>2. CASE last = "added"
          <6>1. B = A + 1 /\ R = S + 1 /\ S < Capacity  BY <1>1, <1>4, <1>14, <5>2
          <6> QED BY <1>1, <4>2, <5>1, <6>1
        <5>3. CASE last = "repeated"
          <6>1. B = A /\ R = S  BY <1>4, <5>3
          <6>2. x \in 1..A  BY <4>1, <6>1
          <6> QED BY <1>8, <1>12, <5>1, <6>1, <6>2
        <5>4. CASE last = "cleared"
          <6>1. B = A /\ R = 0  BY <1>4, <5>4
          <6> QED BY <1>1, <4>2, <5>1, <6>1
        <5> QED BY <5>2, <5>3, <5>4
      <4> QED BY <1>9, <3>2, <4>3, <4>4
    <3> QED BY <3>1, <3>2
  <2>2. Lost(events, n + 1) = Lost(events, n)  BY <2>1
  <2> QED BY <1>2, <1>14, <2>2
<1> QED BY <1>13, <1>14

ConsoleEvents == [kind : {"added", "repeated", "cleared"}, count : Nat \ {0}]

LEMMA KeptIs ==
    ASSUME NEW events, NEW n \in Nat
    PROVE  /\ Kept(events, n) \in Nat /\ Kept(events, n) <= Capacity
           /\ Kept(events, n) <= Said(events, n)
<1>1. PICK a \in Nat, s \in Nat : a = Said(events, n) /\ s = SaidSince(events, n) /\ s <= a
  BY SaidIs
<1> QED BY <1>1, ConsoleConstants DEF Kept

LEMMA FinalCountTyped ==
    ASSUME NEW events \in Seq(ConsoleEvents), NEW n \in 0..Len(events), NEW x \in 1..Said(events, n)
    PROVE  FinalCount(events, n, x) \in Nat \ {0}
<1>1. PICK L \in Nat : L = Len(events)  BY LenProperties
<1>2. n \in Nat  BY <1>1
<1>3. PICK j \in 1..n : Mentioned(events, n, x, j)  BY <1>2, EachIsMentioned
<1>4. FinalCount(events, n, x) = events[j].count  BY <1>2, <1>3, FinalCountIs
<1>5. j \in 1..L  BY <1>1, <1>2
<1>6. events[j] \in ConsoleEvents  BY <1>1, <1>5, ElementOfSeq
<1> QED BY <1>4, <1>6 DEF ConsoleEvents

\* The log is as long as what is kept, row by row.
LEMMA ExpectedIs ==
    ASSUME NEW events \in Seq(ConsoleEvents), NEW n \in 0..Len(events)
    PROVE  LET rows == Expected(events, n).messages
               gone == Said(events, n) - Kept(events, n)
           IN  /\ rows \in Seq(Messages)
               /\ Len(rows) = Kept(events, n) /\ DOMAIN rows = 1..Kept(events, n)
               /\ gone \in Nat
               /\ \A k \in 1..Kept(events, n) :
                     rows[k] = Message(gone + k, FinalCount(events, n, gone + k))
               /\ Expected(events, n).dropped = Cardinality(Lost(events, n))
               /\ Expected(events, n).dropped \in Nat
               /\ Expected(events, n) = [messages |-> rows, dropped |-> Cardinality(Lost(events, n))]
               /\ Expected(events, n) \in Model
<1>1. PICK L \in Nat : L = Len(events)  BY LenProperties
<1>2. n \in Nat  BY <1>1
<1>3. PICK a \in Nat, K \in Nat, gone \in Nat :
        a = Said(events, n) /\ K = Kept(events, n) /\ gone = a - K /\ K <= a
  BY <1>2, SaidIs, KeptIs
<1> DEFINE rows == [k \in 1..K |-> Message(gone + k, FinalCount(events, n, gone + k))]
<1>4. Expected(events, n) = [messages |-> rows, dropped |-> Cardinality(Lost(events, n))]
  BY <1>3 DEF Expected
<1>5. ASSUME NEW k \in 1..K PROVE rows[k] \in Messages
  <2>1. PICK x : x = gone + k  OBVIOUS
  <2>2. x \in Nat /\ x \in 1..a  BY SMTT(30), <1>3, <2>1
  <2>3. x \in 1..Said(events, n)  BY <1>3, <2>2
  <2>4. FinalCount(events, n, x) \in Nat \ {0}  BY <2>3, FinalCountTyped
  <2> QED BY <2>1, <2>2, <2>4 DEF Message, Messages
<1>6. rows \in Seq(Messages)
  <2>1. rows \in [1..K -> Messages]  BY <1>5
  <2> QED BY <2>1, SeqDef
<1>7. Len(rows) = K
  <2>1. PICK l \in Nat : l = Len(rows) /\ 1..l = 1..K  BY <1>6, LenProperties
  <2>2. l \in 1..l \/ l = 0  OBVIOUS
  <2>3. K \in 1..K \/ K = 0  OBVIOUS
  <2> QED BY <2>1, <2>2, <2>3
<1>8. Cardinality(Lost(events, n)) \in Nat  BY <1>2, LostIs
<1>9. \A k \in 1..K : rows[k] = Message(gone + k, FinalCount(events, n, gone + k))  OBVIOUS
<1>10. DOMAIN rows = 1..K  OBVIOUS
<1> HIDE DEF rows
<1>11. Expected(events, n).messages = rows /\ Expected(events, n).dropped = Cardinality(Lost(events, n))
  BY <1>4
<1>12. Expected(events, n) \in Model  BY <1>4, <1>6, <1>8 DEF Model
<1> QED BY <1>3, <1>4, <1>6, <1>7, <1>8, <1>9, <1>10, <1>11, <1>12

-----------------------------------------------------------------------------
(* The log of an event more *)

\* Rows that show the messages after `gone`, each with its count so far.
Shows(events, n, gone, rows) ==
    \A k \in 1..Len(rows) : rows[k] = Message(gone + k, FinalCount(events, n, gone + k))

\* They are the log, if there are enough of them.
LEMMA ShownIsExpected ==
    ASSUME NEW events \in Seq(ConsoleEvents), NEW n \in 0..Len(events), NEW model \in Model,
           Len(model.messages) = Kept(events, n),
           Shows(events, n, Said(events, n) - Kept(events, n), model.messages),
           model.dropped = Cardinality(Lost(events, n))
    PROVE  model = Expected(events, n)
<1>1. PICK rows \in Seq(Messages), gone \in Nat :
        rows = Expected(events, n).messages /\ gone = Said(events, n) - Kept(events, n)
  BY ExpectedIs
<1>2. /\ Len(rows) = Kept(events, n)
      /\ \A k \in 1..Kept(events, n) : rows[k] = Message(gone + k, FinalCount(events, n, gone + k))
      /\ Expected(events, n) = [messages |-> rows, dropped |-> Cardinality(Lost(events, n))]
  BY <1>1, ExpectedIs
<1>3. model.messages \in Seq(Messages)
      /\ model = [messages |-> model.messages, dropped |-> model.dropped]
  BY DEF Model
<1>4. PICK held \in Seq(Messages) : held = model.messages  BY <1>3
<1>5. Len(held) = Len(rows) /\ \A k \in 1..Len(held) : held[k] = rows[k]
  BY <1>1, <1>2, <1>4 DEF Shows
<1>6. held = rows  BY <1>5, SeqEqual
<1> QED BY <1>2, <1>3, <1>4, <1>6

\* What a push leaves.
RoomFor(was, message, K, now) ==
    /\ now.dropped = was.dropped
    /\ Len(now.messages) = K + 1
    /\ \A k \in 1..K : now.messages[k] = was.messages[k]
    /\ now.messages[K + 1] = message

NoRoomFor(was, message, K, now) ==
    /\ now.dropped = was.dropped + 1
    /\ Len(now.messages) = K
    /\ \A k \in 1..(K - 1) : now.messages[k] = was.messages[k + 1]
    /\ now.messages[K] = message

LEMMA PushIs ==
    ASSUME NEW model \in Model, NEW message \in Messages, NEW K \in Nat,
           K = Len(model.messages), K <= Capacity
    PROVE  /\ Push(model, message) \in Model
           /\ K < Capacity => RoomFor(model, message, K, Push(model, message))
           /\ K = Capacity => NoRoomFor(model, message, K, Push(model, message))
<1>1. Capacity \in Nat /\ Capacity >= 1  BY ConsoleConstants
<1>2. PICK rows \in Seq(Messages) : rows = model.messages /\ Len(rows) = K  BY DEF Model
<1>3. model.dropped \in Nat  BY DEF Model
<1>4. CASE K < Capacity
  <2>1. Push(model, message) = [model EXCEPT !.messages = Append(rows, message)]
    BY <1>1, <1>2, <1>4 DEF Push
  <2>2. PICK longer \in Seq(Messages) : longer = Append(rows, message)  BY <1>2, AppendProperties
  <2>3. Len(longer) = K + 1 /\ longer[K + 1] = message /\ \A k \in 1..K : longer[k] = rows[k]
    BY <1>2, <2>2, AppendProperties
  <2>4. Push(model, message) = [messages |-> longer, dropped |-> model.dropped]
    BY <2>1, <2>2 DEF Model
  <2>5. Push(model, message).messages = longer /\ Push(model, message).dropped = model.dropped
        /\ Push(model, message) \in Model
    BY <1>3, <2>4 DEF Model
  <2> QED BY <1>2, <1>4, <2>3, <2>5 DEF RoomFor
<1>5. CASE K = Capacity
  <2>1. Push(model, message) = [messages |-> Append(Tail(rows), message), dropped |-> model.dropped + 1]
    BY <1>1, <1>2, <1>5 DEF Push
  <2>2. rows # <<>>
    <3> SUFFICES ASSUME rows = <<>> PROVE FALSE
      OBVIOUS
    <3>1. Len(rows) = 0  BY EmptySeq
    <3> QED BY <1>1, <1>2, <1>5, <3>1
  <2>3. PICK rest \in Seq(Messages) :
          /\ rest = Tail(rows) /\ Len(rest) = K - 1
          /\ \A k \in 1..Len(rest) : rest[k] = rows[k + 1]
    <3>1. /\ Tail(rows) \in Seq(Messages) /\ Len(Tail(rows)) = Len(rows) - 1
          /\ \A k \in 1..Len(Tail(rows)) : Tail(rows)[k] = rows[k + 1]
      BY <2>2, HeadTailProperties
    <3>2. PICK rest \in Seq(Messages) : rest = Tail(rows)  BY <3>1
    <3> QED BY <1>2, <3>1, <3>2
  <2>4. PICK longer \in Seq(Messages) : longer = Append(rest, message)  BY <2>3, AppendProperties
  <2>5. PICK r \in Nat : r = K - 1 /\ r + 1 = K  BY <1>1, <1>5
  <2>6. Len(longer) = r + 1 /\ longer[r + 1] = message /\ \A k \in 1..r : longer[k] = rest[k]
    BY <2>3, <2>4, <2>5, AppendProperties
  <2>7. Push(model, message).messages = longer /\ Push(model, message).dropped = model.dropped + 1
        /\ Push(model, message) \in Model
    BY <1>3, <2>1, <2>3, <2>4 DEF Model
  <2> QED BY <1>2, <1>5, <2>3, <2>5, <2>6, <2>7 DEF NoRoomFor
<1> QED BY <1>1, <1>4, <1>5

LEMMA FoldsAdded ==
    ASSUME NEW events \in Seq(ConsoleEvents), NEW n \in Nat, n + 1 <= Len(events),
           events[n + 1].kind = "added"
    PROVE  OnConsoleEvent(Expected(events, n), events[n + 1], Said(events, n + 1)) = Expected(events, n + 1)
<1>0. PICK L \in Nat : L = Len(events)  BY LenProperties
<1>1. n \in 0..Len(events) /\ n + 1 \in 0..Len(events) /\ n + 1 \in 1..Len(events) /\ n + 1 \in Nat
  BY <1>0
<1>2. PICK m \in 0..Len(events) : m = n + 1 /\ m \in 1..Len(events) /\ m \in Nat  BY <1>1
<1>3. PICK e \in ConsoleEvents : e = events[m]  BY <1>2, ElementOfSeq
<1>4. PICK was \in Model : was = Expected(events, n)  BY <1>1, ExpectedIs
<1>5. PICK A \in Nat, S \in Nat, K \in Nat, gone \in Nat :
        /\ A = Said(events, n) /\ S = SaidSince(events, n) /\ K = Kept(events, n) /\ gone = A - K
        /\ S <= A /\ K <= Capacity
  <2>1. Said(events, n) - Kept(events, n) \in Nat  BY <1>1, ExpectedIs
  <2> QED BY <2>1, SaidIs, KeptIs
<1>6. Said(events, m) = A + 1 /\ SaidSince(events, m) = S + 1  BY <1>2, <1>5, SaidNext
<1>7. Capacity \in Nat /\ Capacity >= 1  BY ConsoleConstants
<1>8. K = IF S > Capacity THEN Capacity ELSE S  BY <1>5 DEF Kept
<1>9. Kept(events, m) = IF S + 1 > Capacity THEN Capacity ELSE S + 1  BY <1>6 DEF Kept
<1>10. /\ Len(was.messages) = K /\ was.dropped = Cardinality(Lost(events, n)) /\ was.dropped \in Nat
       /\ \A k \in 1..K : was.messages[k] = Message(gone + k, FinalCount(events, n, gone + k))
  BY <1>1, <1>4, <1>5, ExpectedIs
<1>11. \A x \in 1..A : FinalCount(events, m, x) = FinalCount(events, n, x)
  <2> SUFFICES ASSUME NEW x \in 1..A PROVE FinalCount(events, m, x) = FinalCount(events, n, x)
    OBVIOUS
  <2>1. x \in 1..Said(events, n + 1) /\ Said(events, n + 1) # x  BY <1>2, <1>6
  <2> QED BY <1>2, <2>1, FinalCountNext
<1>12. FinalCount(events, m, A + 1) = e.count
  <2>1. PICK x : x = A + 1 /\ x \in 1..Said(events, n + 1) /\ Said(events, n + 1) = x
    BY <1>2, <1>6
  <2>2. FinalCount(events, n + 1, x) = events[n + 1].count  BY <2>1, FinalCountNext
  <2> QED BY <1>2, <1>3, <2>1, <2>2
<1>13. PICK message \in Messages : message = Message(A + 1, e.count)
  <2>1. e.count \in Nat \ {0} /\ A + 1 \in Nat  BY DEF ConsoleEvents
  <2>2. Message(A + 1, e.count) \in Messages  BY <2>1 DEF Message, Messages
  <2> QED BY <2>2
<1>14. OnConsoleEvent(was, e, A + 1) = Push(was, message)  BY <1>2, <1>3, <1>13 DEF OnConsoleEvent
<1>15. PICK now \in Model : now = Push(was, message)  BY <1>5, <1>10, PushIs
<1>16. Cardinality(Lost(events, m)) = IF S >= Capacity THEN was.dropped + 1 ELSE was.dropped
  BY <1>2, <1>5, <1>10, LostNext
<1>17. CASE S >= Capacity
  <2>1. K = Capacity /\ Kept(events, m) = K  BY <1>5, <1>7, <1>8, <1>9, <1>17
  <2>2. /\ now.dropped = was.dropped + 1 /\ Len(now.messages) = K
        /\ \A k \in 1..(K - 1) : now.messages[k] = was.messages[k + 1]
        /\ now.messages[K] = message
    <3>1. NoRoomFor(was, message, K, now)  BY <1>5, <1>10, <1>15, <2>1, PushIs
    <3> QED BY <3>1 DEF NoRoomFor
  <2>3. ASSUME NEW k \in 1..K
        PROVE  now.messages[k] = Message((gone + 1) + k, FinalCount(events, m, (gone + 1) + k))
    <3>1. CASE k = K
      <4>1. (gone + 1) + k = A + 1  BY SMTT(30), <1>5, <3>1
      <4> QED BY <1>12, <1>13, <2>2, <3>1, <4>1
    <3>2. CASE k # K
      <4>1. PICK j \in 1..K : j = k + 1  BY <3>2
      <4>2. k \in 1..(K - 1)  BY <3>2
      <4>3. PICK x \in 1..A : x = gone + j /\ x = (gone + 1) + k
        <5>1. gone = A - K /\ gone \in Nat /\ j \in 1..K /\ K \in Nat /\ A \in Nat  BY <1>5
        <5>2. gone + j \in 1..A  BY ONLY <5>1
        <5>3. gone + j = (gone + 1) + k  BY <4>1
        <5> QED BY <5>2, <5>3
      <4>4. now.messages[k] = Message(x, FinalCount(events, n, x))
        BY <1>10, <2>2, <4>1, <4>2, <4>3
      <4> QED BY <1>11, <4>3, <4>4
    <3> QED BY <3>1, <3>2
  <2>4. Said(events, m) - Kept(events, m) = gone + 1  BY <1>5, <1>6, <2>1
  <2>5. Shows(events, m, Said(events, m) - Kept(events, m), now.messages)
    BY <2>2, <2>3, <2>4 DEF Shows
  <2>6. now.dropped = Cardinality(Lost(events, m))  BY <1>16, <1>17, <2>2
  <2>7. now = Expected(events, m)  BY <2>1, <2>2, <2>5, <2>6, ShownIsExpected
  <2> QED BY <1>2, <1>3, <1>4, <1>6, <1>14, <1>15, <2>7
<1>18. CASE S < Capacity
  <2>1. K = S /\ Kept(events, m) = K + 1 /\ K < Capacity  BY <1>5, <1>7, <1>8, <1>9, <1>18
  <2>2. /\ now.dropped = was.dropped /\ Len(now.messages) = K + 1
        /\ \A k \in 1..K : now.messages[k] = was.messages[k]
        /\ now.messages[K + 1] = message
    <3>1. RoomFor(was, message, K, now)  BY <1>5, <1>10, <1>15, <2>1, PushIs
    <3> QED BY <3>1 DEF RoomFor
  <2>3. ASSUME NEW k \in 1..(K + 1)
        PROVE  now.messages[k] = Message(gone + k, FinalCount(events, m, gone + k))
    <3>1. CASE k = K + 1
      <4>1. gone + k = A + 1  BY SMTT(30), <1>5, <3>1
      <4> QED BY <1>12, <1>13, <2>2, <3>1, <4>1
    <3>2. CASE k # K + 1
      <4>1. k \in 1..K  BY <3>2
      <4>2. PICK x \in 1..A : x = gone + k
        <5>1. gone + k \in 1..A  BY SMTT(30), <1>5, <4>1
        <5> QED BY <5>1
      <4>3. now.messages[k] = Message(x, FinalCount(events, n, x))
        BY <1>10, <2>2, <4>1, <4>2
      <4> QED BY <1>11, <4>2, <4>3
    <3> QED BY <3>1, <3>2
  <2>4. Said(events, m) - Kept(events, m) = gone  BY <1>5, <1>6, <2>1
  <2>5. Shows(events, m, Said(events, m) - Kept(events, m), now.messages)
    BY <2>2, <2>3, <2>4 DEF Shows
  <2>6. now.dropped = Cardinality(Lost(events, m))  BY <1>5, <1>7, <1>16, <1>18, <2>2
  <2>7. now = Expected(events, m)  BY <2>1, <2>2, <2>5, <2>6, ShownIsExpected
  <2> QED BY <1>2, <1>3, <1>4, <1>6, <1>14, <1>15, <2>7
<1> QED BY <1>5, <1>7, <1>17, <1>18

LEMMA FoldsRepeated ==
    ASSUME NEW events \in Seq(ConsoleEvents), NEW n \in Nat, n + 1 <= Len(events),
           events[n + 1].kind = "repeated"
    PROVE  OnConsoleEvent(Expected(events, n), events[n + 1], Said(events, n + 1)) = Expected(events, n + 1)
<1>0. PICK L \in Nat : L = Len(events)  BY LenProperties
<1>1. n \in 0..Len(events) /\ n + 1 \in 0..Len(events) /\ n + 1 \in 1..Len(events) /\ n + 1 \in Nat
  BY <1>0
<1>2. PICK m \in 0..Len(events) : m = n + 1 /\ m \in 1..Len(events) /\ m \in Nat  BY <1>1
<1>3. PICK e \in ConsoleEvents : e = events[m]  BY <1>2, ElementOfSeq
<1>4. PICK was \in Model : was = Expected(events, n)  BY <1>1, ExpectedIs
<1>5. PICK A \in Nat, S \in Nat, K \in Nat, gone \in Nat :
        /\ A = Said(events, n) /\ S = SaidSince(events, n) /\ K = Kept(events, n) /\ gone = A - K
  <2>1. Said(events, n) - Kept(events, n) \in Nat  BY <1>1, ExpectedIs
  <2> QED BY <2>1, SaidIs, KeptIs
<1>6. Said(events, m) = A /\ SaidSince(events, m) = S  BY <1>2, <1>5, SaidNext
<1>7. Kept(events, m) = K  BY <1>5, <1>6 DEF Kept
<1>8. PICK rows \in Seq(Messages) :
        /\ rows = was.messages /\ Len(rows) = K
        /\ \A k \in 1..K : rows[k] = Message(gone + k, FinalCount(events, n, gone + k))
  BY <1>1, <1>4, <1>5, ExpectedIs
<1>9. was.dropped = Cardinality(Lost(events, n)) /\ was = [messages |-> rows, dropped |-> was.dropped]
  <2>1. was = [messages |-> was.messages, dropped |-> was.dropped]  BY DEF Model
  <2>2. was.dropped = Cardinality(Lost(events, n))  BY <1>1, <1>4, ExpectedIs
  <2> QED BY <1>8, <2>1, <2>2
<1>10. Cardinality(Lost(events, m)) = Cardinality(Lost(events, n))  BY <1>2, LostNext
<1>11. OnConsoleEvent(was, e, A) = SetLastRepeatCount(was, e.count)  BY <1>2, <1>3 DEF OnConsoleEvent
<1>12. ASSUME NEW x \in 1..A
       PROVE  FinalCount(events, m, x) = IF x = A THEN e.count ELSE FinalCount(events, n, x)
  <2>1. x \in 1..Said(events, n + 1) /\ Said(events, n + 1) = A  BY <1>2, <1>6
  <2>2. events[n + 1].kind # "cleared"  OBVIOUS
  <2> QED BY <1>2, <1>3, <2>1, <2>2, FinalCountNext
<1>13. \A k \in 1..K : gone + k \in 1..A /\ (gone + k = A <=> k = K)
  <2> SUFFICES ASSUME NEW k \in 1..K PROVE gone + k \in 1..A /\ (gone + k = A <=> k = K)
    OBVIOUS
  <2>1. gone + K = A  BY <1>5
  <2> QED BY <2>1
<1>14. Said(events, m) - Kept(events, m) = gone  BY <1>5, <1>6, <1>7
<1>15. CASE K = 0
  <2>1. rows = <<>>  BY <1>8, <1>15, EmptySeq
  <2>2. SetLastRepeatCount(was, e.count) = was  BY <1>8, <2>1 DEF SetLastRepeatCount
  <2>3. Shows(events, m, Said(events, m) - Kept(events, m), was.messages)
    BY <1>8, <1>15 DEF Shows
  <2>4. was = Expected(events, m)  BY <1>7, <1>8, <1>9, <1>10, <2>3, ShownIsExpected
  <2> QED BY <1>2, <1>3, <1>4, <1>6, <1>11, <2>2, <2>4
<1>16. CASE K # 0
  <2>1. rows # <<>> /\ K \in 1..Len(rows)
    <3>1. Len(<<>>) = 0  BY EmptySeq
    <3> QED BY <1>8, <1>16, <3>1
  <2>2. PICK last \in Messages : last = [rows[K] EXCEPT !.repeat = e.count]
    <3>1. rows[K] \in Messages  BY <2>1, ElementOfSeq
    <3>2. e.count \in Nat \ {0}  BY DEF ConsoleEvents
    <3>3. [rows[K] EXCEPT !.repeat = e.count] \in Messages  BY <3>1, <3>2 DEF Messages
    <3> QED BY <3>3
  <2>3. SetLastRepeatCount(was, e.count) =
          [messages |-> [rows EXCEPT ![K] = last], dropped |-> was.dropped]
    <3>1. SetLastRepeatCount(was, e.count) = [was EXCEPT !.messages[K].repeat = e.count]
      BY <1>8, <2>1 DEF SetLastRepeatCount
    <3> QED BY <1>8, <1>9, <2>2, <3>1
  <2>4. PICK turned \in Seq(Messages) :
          /\ turned = [rows EXCEPT ![K] = last] /\ Len(turned) = K
          /\ \A k \in 1..K : turned[k] = IF k = K THEN last ELSE rows[k]
    <3>1. /\ [rows EXCEPT ![K] = last] \in Seq(Messages) /\ Len([rows EXCEPT ![K] = last]) = Len(rows)
          /\ \A k \in 1..Len(rows) : [rows EXCEPT ![K] = last][k] = IF k = K THEN last ELSE rows[k]
      BY <2>1, ExceptSeq
    <3>2. PICK turned \in Seq(Messages) : turned = [rows EXCEPT ![K] = last]  BY <3>1
    <3> QED BY <1>8, <3>1, <3>2
  <2>5. PICK now \in Model : now = [messages |-> turned, dropped |-> was.dropped]
    <3>1. [messages |-> turned, dropped |-> was.dropped] \in Model  BY DEF Model
    <3> QED BY <3>1
  <2>6. ASSUME NEW k \in 1..K
        PROVE  turned[k] = Message(gone + k, FinalCount(events, m, gone + k))
    <3>1. PICK x \in 1..A : x = gone + k /\ (x = A <=> k = K)  BY <1>13
    <3>2. rows[k] = Message(x, FinalCount(events, n, x))  BY <1>8, <3>1
    <3>3. CASE k = K
      <4>1. last = Message(x, e.count)  BY SMTT(30), <2>2, <3>2, <3>3 DEF Message
      <4> QED BY <1>12, <2>4, <3>1, <3>3, <4>1
    <3>4. CASE k # K  BY <1>12, <2>4, <3>1, <3>2, <3>4
    <3> QED BY <3>3, <3>4
  <2>7. Shows(events, m, Said(events, m) - Kept(events, m), now.messages)
    BY <1>14, <2>4, <2>5, <2>6 DEF Shows
  <2>8. now = Expected(events, m)
    <3>1. now.messages = turned /\ now.dropped = was.dropped  BY <2>5
    <3>2. Len(now.messages) = Kept(events, m)  BY <1>7, <2>4, <3>1
    <3>3. now.dropped = Cardinality(Lost(events, m))  BY <1>9, <1>10, <3>1
    <3> QED BY <2>7, <3>2, <3>3, ShownIsExpected
  <2> QED BY <1>2, <1>3, <1>4, <1>6, <1>11, <2>3, <2>4, <2>5, <2>8
<1> QED BY <1>15, <1>16

LEMMA FoldsCleared ==
    ASSUME NEW events \in Seq(ConsoleEvents), NEW n \in Nat, n + 1 <= Len(events),
           events[n + 1].kind = "cleared"
    PROVE  OnConsoleEvent(Expected(events, n), events[n + 1], Said(events, n + 1)) = Expected(events, n + 1)
<1>0. PICK L \in Nat : L = Len(events)  BY LenProperties
<1>1. n \in 0..Len(events) /\ n + 1 \in 0..Len(events) /\ n + 1 \in Nat  BY <1>0
<1>2. PICK m \in 0..Len(events) : m = n + 1 /\ m \in Nat  BY <1>1
<1>3. PICK was \in Model : was = Expected(events, n)  BY <1>1, ExpectedIs
<1>4. OnConsoleEvent(was, events[n + 1], Said(events, n + 1)) = [was EXCEPT !.messages = <<>>]
  BY DEF OnConsoleEvent, ClearMessages
<1>5. PICK none \in Seq(Messages) : none = <<>> /\ Len(none) = 0  BY EmptySeq
<1>6. PICK now \in Model : now = [messages |-> none, dropped |-> was.dropped]
                           /\ now = [was EXCEPT !.messages = <<>>]
  <2>1. [was EXCEPT !.messages = <<>>] = [messages |-> none, dropped |-> was.dropped]
    BY <1>5 DEF Model
  <2>2. [messages |-> none, dropped |-> was.dropped] \in Model  BY DEF Model
  <2> QED BY <2>1, <2>2
<1>7. Kept(events, m) = 0
  <2>1. SaidSince(events, m) = 0  BY <1>2, SaidNext
  <2> QED BY <2>1, ConsoleConstants DEF Kept
<1>8. now.dropped = Cardinality(Lost(events, m))
  <2>1. Cardinality(Lost(events, m)) = Cardinality(Lost(events, n))  BY <1>2, LostNext
  <2>2. was.dropped = Cardinality(Lost(events, n))  BY <1>1, <1>3, ExpectedIs
  <2> QED BY <1>6, <2>1, <2>2
<1>9. Shows(events, m, Said(events, m) - Kept(events, m), now.messages)
  BY <1>5, <1>6 DEF Shows
<1>10. now = Expected(events, m)  BY <1>5, <1>6, <1>7, <1>8, <1>9, ShownIsExpected
<1> QED BY <1>2, <1>3, <1>4, <1>6, <1>10

\* Folding one event more gives the log of the events up to it.
LEMMA FoldsOne ==
    ASSUME NEW events \in Seq(ConsoleEvents), NEW n \in Nat, n + 1 <= Len(events)
    PROVE  OnConsoleEvent(Expected(events, n), events[n + 1], Said(events, n + 1)) = Expected(events, n + 1)
<1>1. PICK L \in Nat : L = Len(events)  BY LenProperties
<1>2. PICK m \in 1..Len(events) : m = n + 1  BY <1>1
<1>3. events[n + 1] \in ConsoleEvents  BY <1>2, ElementOfSeq
<1>4. events[n + 1].kind \in {"added", "repeated", "cleared"}  BY <1>3 DEF ConsoleEvents
<1> QED BY <1>4, FoldsAdded, FoldsRepeated, FoldsCleared

-----------------------------------------------------------------------------
(* A log depends on the events it is of, and on no later one *)

LEMMA SaidAgrees ==
    ASSUME NEW one, NEW other, NEW n \in Nat, \A i \in 1..n : one[i] = other[i]
    PROVE  \A k \in 0..n : Said(one, k) = Said(other, k) /\ SaidSince(one, k) = SaidSince(other, k)
<1> SUFFICES ASSUME NEW k \in 0..n
             PROVE  Said(one, k) = Said(other, k) /\ SaidSince(one, k) = SaidSince(other, k)
  OBVIOUS
<1>1. \A i \in 1..k : i \in 1..n /\ \A j \in i..k : j \in 1..n  OBVIOUS
<1>2. SaidPlaces(one, k) = SaidPlaces(other, k)  BY <1>1 DEF SaidPlaces
<1>3. \A i \in 1..k : (\A j \in i..k : one[j].kind # "cleared")
                        <=> (\A j \in i..k : other[j].kind # "cleared")
  BY <1>1
<1>4. SincePlaces(one, k) = SincePlaces(other, k)  BY <1>1, <1>3 DEF SincePlaces
<1> QED BY <1>2, <1>4, SaidIs

LEMMA ExpectedAgrees ==
    ASSUME NEW one \in Seq(ConsoleEvents), NEW other \in Seq(ConsoleEvents), NEW n \in Nat,
           n <= Len(one), n <= Len(other), \A i \in 1..n : one[i] = other[i]
    PROVE  Expected(one, n) = Expected(other, n)
<1>0. n \in 0..Len(one) /\ n \in 0..Len(other)
  <2>1. Len(one) \in Nat /\ Len(other) \in Nat  BY LenProperties
  <2> QED BY <2>1
<1>1. \A k \in 0..n : Said(one, k) = Said(other, k) /\ SaidSince(one, k) = SaidSince(other, k)
  BY SaidAgrees
<1>2. n \in 0..n /\ \A k \in 1..n : k \in 0..n  OBVIOUS
<1>3. Kept(one, n) = Kept(other, n)  BY <1>1, <1>2 DEF Kept
<1>4. Lost(one, n) = Lost(other, n)  BY <1>1, <1>2 DEF Lost
<1>5. ASSUME NEW x \in 1..Said(one, n) PROVE FinalCount(one, n, x) = FinalCount(other, n, x)
  <2>1. Mentions(one, n, x) = Mentions(other, n, x)  BY <1>1, <1>2 DEF Mentions
  <2>2. PICK j \in 1..n : Mentioned(one, n, x, j)  BY EachIsMentioned
  <2>3. Mentioned(other, n, x, j)  BY <2>1, <2>2 DEF Mentioned
  <2>4. FinalCount(one, n, x) = one[j].count /\ FinalCount(other, n, x) = other[j].count
    BY <2>2, <2>3, FinalCountIs
  <2> QED BY <2>4
<1>6. PICK was \in Model : was = Expected(one, n)  BY <1>0, ExpectedIs
<1>7. PICK A \in Nat, K \in Nat, gone \in Nat :
        A = Said(one, n) /\ K = Kept(one, n) /\ gone = A - K
  <2>1. Said(one, n) - Kept(one, n) \in Nat  BY <1>0, ExpectedIs
  <2> QED BY <2>1, SaidIs, KeptIs
<1>8. /\ Len(was.messages) = K /\ was.dropped = Cardinality(Lost(one, n))
      /\ \A k \in 1..K : was.messages[k] = Message(gone + k, FinalCount(one, n, gone + k))
  BY <1>0, <1>6, <1>7, ExpectedIs
<1>9. \A k \in 1..K : gone + k \in 1..A  BY SMTT(30), <1>7
<1>10. Shows(other, n, Said(other, n) - Kept(other, n), was.messages)
  <2>1. Said(other, n) - Kept(other, n) = gone  BY <1>1, <1>2, <1>3, <1>7
  <2>2. ASSUME NEW k \in 1..K
        PROVE  was.messages[k] = Message(gone + k, FinalCount(other, n, gone + k))
    <3>1. PICK x \in 1..A : x = gone + k  BY <1>9
    <3>2. was.messages[k] = Message(x, FinalCount(one, n, x))  BY <1>8, <3>1
    <3> QED BY <1>5, <1>7, <3>1, <3>2
  <2> QED BY <1>8, <2>1, <2>2 DEF Shows
<1>11. was = Expected(other, n)  BY <1>0, <1>3, <1>4, <1>7, <1>8, <1>10, ShownIsExpected
<1> QED BY <1>6, <1>11

-----------------------------------------------------------------------------
(* Evaluations after a log *)

\* A log with p expressions after it, each with its result.
Evaluated(messages, p, rows) ==
    /\ Len(rows) = Len(messages) + 2 * p
    /\ \A i \in 1..Len(messages) : rows[i] = messages[i]
    /\ \A q \in 1..p : /\ rows[Len(messages) + 2 * q - 1] = Input(rows[Len(messages) + 2 * q].number)
                       /\ rows[Len(messages) + 2 * q] = Output(rows[Len(messages) + 2 * q].number)

\* What is left of the rows when the oldest had to go, with their count.
Carries(model, rows, dropped) ==
    /\ model \in Model
    /\ Len(model.messages) <= Capacity /\ Len(model.messages) <= Len(rows)
    /\ model.dropped + Len(model.messages) = dropped + Len(rows)
    /\ \A i \in 1..Len(model.messages) :
          model.messages[i] = rows[(Len(rows) - Len(model.messages)) + i]

LEMMA EvaluatedNext ==
    ASSUME NEW messages \in Seq(Messages), NEW p \in Nat, NEW rows \in Seq(Messages),
           Evaluated(messages, p, rows), NEW x \in Nat, NEW more \in Seq(Messages),
           more = Append(Append(rows, Input(x)), Output(x))
    PROVE  Evaluated(messages, p + 1, more)
<1>1. PICK M \in Nat, R \in Nat : M = Len(messages) /\ R = Len(rows) /\ R = M + 2 * p
  BY LenProperties DEF Evaluated
<1>2. PICK a \in Messages, b \in Messages : a = Input(x) /\ b = Output(x)
  <2>1. Input(x) \in Messages /\ Output(x) \in Messages  BY DEF Input, Output, Messages
  <2> QED BY <2>1
<1>3. PICK mid \in Seq(Messages) : mid = Append(rows, a)  BY AppendProperties
<1>4. Len(mid) = R + 1 /\ mid[R + 1] = a /\ \A i \in 1..R : mid[i] = rows[i]
  <2>1. /\ Len(Append(rows, a)) = Len(rows) + 1
        /\ \A i \in 1..Len(rows) : Append(rows, a)[i] = rows[i]
        /\ Append(rows, a)[Len(rows) + 1] = a
    BY AppendProperties
  <2> QED BY <1>1, <1>3, <2>1
<1>5. PICK Q \in Nat : Q = R + 1 /\ Q + 1 = R + 2  OBVIOUS
<1>6. Len(more) = Q + 1 /\ more[Q + 1] = b /\ \A i \in 1..Q : more[i] = mid[i]
  BY <1>2, <1>3, <1>4, <1>5, AppendProperties
<1>7. \A i \in 1..R : i \in 1..Q  BY <1>5
<1>8. Len(more) = R + 2 /\ more[R + 2] = b /\ more[R + 1] = a /\ \A i \in 1..R : more[i] = rows[i]
  BY <1>4, <1>5, <1>6, <1>7
<1>9. Len(more) = M + 2 * (p + 1)  BY <1>1, <1>8
<1>10. \A i \in 1..M : more[i] = messages[i]
  <2>1. \A i \in 1..M : i \in 1..R  BY <1>1
  <2> QED BY <1>1, <1>8, <2>1 DEF Evaluated
<1>11. ASSUME NEW q \in 1..(p + 1)
       PROVE  /\ more[M + 2 * q - 1] = Input(more[M + 2 * q].number)
              /\ more[M + 2 * q] = Output(more[M + 2 * q].number)
  <2>1. CASE q = p + 1
    <3>1. M + 2 * q = R + 2 /\ M + 2 * q - 1 = R + 1  BY <1>1, <2>1
    <3>2. b.number = x  BY <1>2 DEF Output
    <3> QED BY <1>2, <1>8, <3>1, <3>2
  <2>2. CASE q # p + 1
    <3>1. q \in 1..p  BY <2>2
    <3>2. M + 2 * q - 1 \in 1..R /\ M + 2 * q \in 1..R  BY <1>1, <3>1
    <3>3. /\ rows[M + 2 * q - 1] = Input(rows[M + 2 * q].number)
          /\ rows[M + 2 * q] = Output(rows[M + 2 * q].number)
      BY <1>1, <3>1 DEF Evaluated
    <3> QED BY <1>8, <3>2, <3>3
  <2> QED BY <2>1, <2>2
<1> QED BY <1>1, <1>9, <1>10, <1>11 DEF Evaluated

LEMMA CarriesNext ==
    ASSUME NEW model, NEW rows \in Seq(Messages), NEW dropped \in Nat, NEW x \in Messages,
           Carries(model, rows, dropped), NEW more \in Seq(Messages), more = Append(rows, x)
    PROVE  Carries(Push(model, x), more, dropped)
<1>0. model \in Model  BY DEF Carries
<1>1. PICK K \in Nat, R \in Nat : K = Len(model.messages) /\ R = Len(rows)
  <2>1. model.messages \in Seq(Messages)  BY <1>0 DEF Model
  <2> QED BY <2>1, LenProperties
<1>2. /\ K <= Capacity /\ K <= R /\ model.dropped + K = dropped + R /\ model.dropped \in Nat
      /\ \A i \in 1..K : model.messages[i] = rows[(R - K) + i]
  BY <1>0, <1>1 DEF Carries, Model
<1>3. Len(more) = R + 1 /\ more[R + 1] = x /\ \A i \in 1..R : more[i] = rows[i]
  BY <1>1, AppendProperties
<1>4. PICK now \in Model : now = Push(model, x)  BY <1>0, <1>1, <1>2, PushIs
<1>5. Capacity \in Nat /\ Capacity >= 1  BY ConsoleConstants
<1>6. CASE K < Capacity
  <2>1. RoomFor(model, x, K, now)  BY <1>0, <1>1, <1>2, <1>4, <1>6, PushIs
  <2>2. ASSUME NEW i \in 1..(K + 1) PROVE now.messages[i] = more[((R + 1) - (K + 1)) + i]
    <3>1. CASE i = K + 1
      <4>1. ((R + 1) - (K + 1)) + i = R + 1  BY <3>1
      <4> QED BY <1>3, <2>1, <3>1, <4>1 DEF RoomFor
    <3>2. CASE i # K + 1
      <4>1. i \in 1..K /\ (R - K) + i \in 1..R /\ ((R + 1) - (K + 1)) + i = (R - K) + i
        <5>1. i \in 1..K  BY <3>2
        <5>2. (R - K) + i \in 1..R  BY <1>2, <5>1
        <5>3. ((R + 1) - (K + 1)) + i = (R - K) + i
          BY ONLY i \in 1..(K + 1), R \in Nat, K \in Nat
        <5> QED BY <5>1, <5>2, <5>3
      <4>2. now.messages[i] = model.messages[i]  BY <2>1, <4>1 DEF RoomFor
      <4> QED BY <1>2, <1>3, <4>1, <4>2
    <3> QED BY <3>1, <3>2
  <2>3. Len(now.messages) = K + 1 /\ now.dropped = model.dropped  BY <2>1 DEF RoomFor
  <2>4. K + 1 <= Capacity /\ K + 1 <= R + 1 /\ model.dropped + (K + 1) = dropped + (R + 1)
    <3>1. PICK d \in Nat : d = model.dropped /\ d + K = dropped + R  BY <1>2
    <3>2. d + (K + 1) = dropped + (R + 1)
      BY ONLY <3>1, d \in Nat, K \in Nat, R \in Nat, dropped \in Nat
    <3>3. K + 1 <= Capacity /\ K + 1 <= R + 1  BY <1>2, <1>5, <1>6
    <3> QED BY <3>1, <3>2, <3>3
  <2> QED BY <1>3, <1>4, <2>2, <2>3, <2>4 DEF Carries
<1>7. CASE K = Capacity
  <2>1. NoRoomFor(model, x, K, now)  BY <1>0, <1>1, <1>2, <1>4, <1>7, PushIs
  <2>2. ASSUME NEW i \in 1..K PROVE now.messages[i] = more[((R + 1) - K) + i]
    <3>1. CASE i = K
      <4>1. ((R + 1) - K) + i = R + 1  BY <3>1
      <4> QED BY <1>3, <2>1, <3>1, <4>1 DEF NoRoomFor
    <3>2. CASE i # K
      <4>1. i \in 1..(K - 1)  BY <3>2
      <4>2. PICK j \in 1..K : j = i + 1  BY <4>1
      <4>3. (R - K) + j \in 1..R /\ ((R + 1) - K) + i = (R - K) + j
        <5>1. (R - K) + j \in 1..R  BY <1>2
        <5>2. ((R + 1) - K) + i = (R - K) + j
          BY ONLY i \in 1..K, R \in Nat, K \in Nat, <4>2
        <5> QED BY <5>1, <5>2
      <4>4. now.messages[i] = model.messages[j]  BY <2>1, <4>1, <4>2 DEF NoRoomFor
      <4> QED BY <1>2, <1>3, <4>3, <4>4
    <3> QED BY <3>1, <3>2
  <2>3. Len(now.messages) = K /\ now.dropped = model.dropped + 1  BY <2>1 DEF NoRoomFor
  <2>4. K <= R + 1 /\ (model.dropped + 1) + K = dropped + (R + 1)  BY <1>2
  <2> QED BY <1>2, <1>3, <1>4, <2>2, <2>3, <2>4 DEF Carries
<1> QED BY <1>2, <1>5, <1>6, <1>7

\* An evaluation more.
LEMMA RecordIs ==
    ASSUME NEW messages \in Seq(Messages), NEW p \in Nat, NEW rows \in Seq(Messages),
           NEW dropped \in Nat, NEW model, NEW x \in Nat,
           Evaluated(messages, p, rows), Carries(model, rows, dropped)
    PROVE  \E more \in Seq(Messages) : /\ Evaluated(messages, p + 1, more)
                                       /\ Carries(RecordEvaluation(model, x), more, dropped)
<1>1. PICK a \in Messages, b \in Messages : a = Input(x) /\ b = Output(x)
  <2>1. Input(x) \in Messages /\ Output(x) \in Messages  BY DEF Input, Output, Messages
  <2> QED BY <2>1
<1>2. PICK mid \in Seq(Messages) : mid = Append(rows, a)  BY AppendProperties
<1>3. PICK more \in Seq(Messages) : more = Append(mid, b)  BY AppendProperties
<1>4. PICK between : between = Push(model, a)  OBVIOUS
<1>5. Carries(between, mid, dropped)  BY <1>2, <1>4, CarriesNext
<1>6. Carries(Push(between, b), more, dropped)  BY <1>3, <1>5, CarriesNext
<1>7. Evaluated(messages, p + 1, more)  BY <1>1, <1>2, <1>3, EvaluatedNext
<1>8. RecordEvaluation(model, x) = Push(between, b)  BY <1>1, <1>4 DEF RecordEvaluation
<1> QED BY <1>6, <1>7, <1>8

\* Every other row is an expression, and its result comes next.
LEMMA Parity == \A r \in Nat : \E q \in Nat : r = 2 * q \/ r = 2 * q + 1
<1> DEFINE T == {r \in Nat : \E q \in Nat : r = 2 * q \/ r = 2 * q + 1}
<1>1. 0 \in T
  <2>1. 0 = 2 * 0 /\ 0 \in Nat  OBVIOUS
  <2> QED BY <2>1
<1>2. ASSUME NEW r \in Nat, r \in T PROVE r + 1 \in T
  <2>1. PICK q \in Nat : r = 2 * q \/ r = 2 * q + 1  BY <1>2
  <2>2. PICK s \in Nat : s = q + 1  OBVIOUS
  <2>3. r + 1 = 2 * q + 1 \/ r + 1 = 2 * s  BY <2>1, <2>2
  <2> QED BY <2>3
<1> HIDE DEF T
<1>3. \A r \in Nat : r \in T  BY <1>1, <1>2, SetInduction
<1> QED BY <1>3 DEF T

\* Where a row of a log with evaluations comes from.
FromLog(messages, rows, k) == rows[k].what = "message" /\ rows[k] = messages[k]

FromEvaluation(messages, rows, k) ==
    \/ rows[k].what = "input" /\ k + 1 \in 1..Len(rows) /\ rows[k + 1] = Output(rows[k].number)
    \/ rows[k].what = "output" /\ k > Len(messages) + 1 /\ rows[k - 1] = Input(rows[k].number)

LEMMA RowsAre ==
    ASSUME NEW messages \in Seq(Messages), NEW p \in Nat, NEW rows \in Seq(Messages),
           Evaluated(messages, p, rows), \A i \in 1..Len(messages) : messages[i].what = "message",
           NEW k \in 1..Len(rows)
    PROVE  IF k <= Len(messages) THEN FromLog(messages, rows, k)
           ELSE FromEvaluation(messages, rows, k)
<1>1. PICK M \in Nat, R \in Nat : M = Len(messages) /\ R = Len(rows) /\ R = M + 2 * p
  BY LenProperties DEF Evaluated
<1>2. CASE k <= M  BY <1>1, <1>2 DEF Evaluated, FromLog
<1>3. CASE k > M
  <2>1. PICK r \in Nat : r = k - M
    <3>1. k - M \in Nat  BY <1>1, <1>3
    <3> QED BY <3>1
  <2>2. PICK h \in Nat : r = 2 * h \/ r = 2 * h + 1  BY Parity
  <2>3. CASE r = 2 * h
    <3>1. h \in 1..p /\ M + 2 * h = k /\ M + 2 * h - 1 = k - 1 /\ k > M + 1
      BY <1>1, <1>3, <2>1, <2>3
    <3>2. rows[M + 2 * h - 1] = Input(rows[M + 2 * h].number)
          /\ rows[M + 2 * h] = Output(rows[M + 2 * h].number)
      BY <1>1, <3>1 DEF Evaluated
    <3>3. rows[k].what = "output"  BY <3>1, <3>2 DEF Output
    <3>4. rows[k - 1] = Input(rows[k].number)  BY <3>1, <3>2
    <3> QED BY <1>1, <1>3, <3>1, <3>3, <3>4 DEF FromEvaluation
  <2>4. CASE r = 2 * h + 1
    <3>1. PICK q \in Nat : q = h + 1  OBVIOUS
    <3>2. q \in 1..p /\ M + 2 * q - 1 = k /\ M + 2 * q = k + 1  BY <1>1, <2>1, <2>4, <3>1
    <3>3. rows[M + 2 * q - 1] = Input(rows[M + 2 * q].number)
          /\ rows[M + 2 * q] = Output(rows[M + 2 * q].number)
      BY <1>1, <3>2 DEF Evaluated
    <3>4. rows[k] = Input(rows[k + 1].number) /\ rows[k + 1] = Output(rows[k + 1].number)
      BY <3>2, <3>3
    <3>5. rows[k].what = "input" /\ rows[k].number = rows[k + 1].number  BY <3>4 DEF Input
    <3>6. k + 1 \in 1..R  BY <1>1, <3>2
    <3> QED BY <1>1, <1>3, <3>4, <3>5, <3>6 DEF FromEvaluation
  <2> QED BY <2>2, <2>3, <2>4
<1> QED BY <1>1, <1>2, <1>3

\* What is carried of them is what PublishedAddsUp asks for.
Amounts(model, messages, dropped, p) ==
    /\ Paired(model.messages)
    /\ NewestOf(model.messages, messages)
    /\ model.dropped >= dropped
    /\ model.dropped + Len(model.messages) = dropped + Len(messages) + 2 * p

LEMMA CarriedAddsUp ==
    ASSUME NEW messages \in Seq(Messages), NEW p \in Nat, NEW rows \in Seq(Messages),
           NEW dropped \in Nat, NEW model,
           Evaluated(messages, p, rows), \A i \in 1..Len(messages) : messages[i].what = "message",
           Carries(model, rows, dropped)
    PROVE  Amounts(model, messages, dropped, p)
<1>1. PICK held \in Seq(Messages), d \in Nat : held = model.messages /\ d = model.dropped
  BY DEF Carries, Model
<1>2. PICK M \in Nat, R \in Nat, K \in Nat :
        M = Len(messages) /\ R = Len(rows) /\ K = Len(held) /\ R = M + 2 * p
  BY LenProperties DEF Evaluated
<1>3. K <= R /\ d + K = dropped + R  BY <1>1, <1>2 DEF Carries
<1>4. PICK off \in Nat : off = R - K  BY <1>3
<1>5. \A i \in 1..K : held[i] = rows[off + i]  BY <1>1, <1>2, <1>4 DEF Carries
<1>6. DOMAIN held = 1..K  BY <1>2, LenProperties
<1>7. \A i \in 1..K : off + i \in 1..R  BY <1>3, <1>4
<1>8. ASSUME NEW i \in 1..K
      PROVE  IF off + i <= M THEN held[i].what = "message" /\ held[i] = messages[off + i]
             ELSE \/ /\ held[i].what = "input" /\ i + 1 \in 1..K
                     /\ held[i + 1] = Output(held[i].number)
                  \/ /\ held[i].what = "output"
                     /\ i > 1 => held[i - 1] = Input(held[i].number)
  <2>1. PICK k \in 1..Len(rows) : k = off + i  BY <1>2, <1>7
  <2>2. IF k <= M THEN rows[k].what = "message" /\ rows[k] = messages[k]
        ELSE \/ /\ rows[k].what = "input" /\ k + 1 \in 1..R
                /\ rows[k + 1] = Output(rows[k].number)
             \/ /\ rows[k].what = "output" /\ k > M + 1
                /\ rows[k - 1] = Input(rows[k].number)
    <3>1. IF k <= M THEN FromLog(messages, rows, k) ELSE FromEvaluation(messages, rows, k)
      BY <1>2, RowsAre
    <3> QED BY <1>2, <3>1 DEF FromLog, FromEvaluation
  <2>3. held[i] = rows[k]  BY <1>5, <2>1
  <2>4. ASSUME k + 1 \in 1..R PROVE i + 1 \in 1..K /\ held[i + 1] = rows[k + 1]
    <3>1. i + 1 \in 1..K /\ off + (i + 1) = k + 1  BY <1>4, <1>3, <2>1, <2>4
    <3> QED BY <1>5, <3>1
  <2>5. ASSUME i > 1 PROVE held[i - 1] = rows[k - 1]
    <3>1. i - 1 \in 1..K /\ off + (i - 1) = k - 1  BY <2>1, <2>5
    <3> QED BY <1>5, <3>1
  <2> QED BY <2>1, <2>2, <2>3, <2>4, <2>5
<1>9. Paired(held)
  <2> SUFFICES ASSUME NEW i \in 1..K
               PROVE  /\ held[i].what = "input" => i < K /\ held[i + 1] = Output(held[i].number)
                      /\ (held[i].what = "output" /\ i > 1) => held[i - 1] = Input(held[i].number)
    BY <1>2, <1>6 DEF Paired
  <2>1. i + 1 \in 1..K => i < K  OBVIOUS
  <2> QED BY <1>8, <2>1
<1>10. NewestOf(held, messages)
  <2>1. PICK m \in Nat : m = IF off >= M THEN 0 ELSE M - off
    <3>1. (IF off >= M THEN 0 ELSE M - off) \in Nat  OBVIOUS
    <3> QED BY <3>1
  <2>2. m <= M /\ m <= K /\ (m # 0 => M - m = off)  BY <1>2, <1>4, <2>1
  <2>3. \A i \in 1..K : i <= m <=> off + i <= M  BY <2>1
  <2>4. {i \in DOMAIN held : held[i].what = "message"} = 1..m
    <3>1. \A i \in 1..K : held[i].what = "message" <=> off + i <= M  BY <1>8
    <3>2. \A i : i \in 1..m <=> i \in 1..K /\ i <= m  BY <2>2
    <3> QED BY <1>6, <2>3, <3>1, <3>2
  <2>5. Cardinality(1..m) = m
    <3>1. 1 \in Int /\ m \in Int  OBVIOUS
    <3>2. Cardinality(1..m) = IF 1 > m THEN 0 ELSE m - 1 + 1  BY ONLY <3>1, FS_Interval
    <3>3. m = IF 1 > m THEN 0 ELSE m - 1 + 1  BY ONLY m \in Nat
    <3> QED BY <3>2, <3>3
  <2>6. ASSUME NEW i \in 1..m PROVE held[i] = messages[Len(messages) - m + i]
    <3>1. i \in 1..K /\ off + i <= M  BY <2>2, <2>3
    <3>2. M - m = off  BY <2>2
    <3>3. held[i] = messages[off + i]  BY <1>8, <3>1
    <3> QED BY <1>2, <3>2, <3>3
  <2> QED BY <1>2, <2>2, <2>4, <2>5, <2>6 DEF NewestOf
<1>11. d >= dropped /\ d + K = dropped + M + 2 * p
  <2>1. K <= R  BY <1>3
  <2> QED BY <1>2, <1>3
<1> QED BY <1>1, <1>2, <1>9, <1>10, <1>11 DEF Amounts

-----------------------------------------------------------------------------
(* The console's invariant *)

Small(model) == model \in Model /\ Len(model.messages) <= Capacity

ConsoleShape ==
    /\ sent \in Seq(ConsoleEvents) /\ folded \in 0..Len(sent)
    /\ enabled \in BOOLEAN /\ attached \in BOOLEAN
    /\ ~enabled => sent = <<>>
    /\ attached => enabled
    /\ pauses \in Nat /\ halted \in 0..pauses /\ shown \in 0..pauses
    /\ eval \in [step : {"idle", "call", "answered", "store"}, pause : 0..pauses, held : Model]
    /\ Small(eval.held)
    /\ evals \in 0..MaxEvals
    /\ eval.step # "idle" => evals # 0

\* The evaluations that are over.
Finished == IF eval.step = "idle" THEN evals ELSE evals - 1

\* A log the agent had after n events, and p evaluations.
Holds(events, model, n, p) ==
    \E rows \in Seq(Messages) : /\ Evaluated(Expected(events, n).messages, p, rows)
                                /\ Carries(model, rows, Expected(events, n).dropped)

\* A model of such a log and as many evaluations as there were at most.
AddsUp(events, upTo, model, most) == \E n \in 0..upTo, p \in 0..most : Holds(events, model, n, p)

ConsoleInv ==
    /\ ConsoleShape
    /\ log = Expected(sent, folded)
    /\ AddsUp(sent, folded, published, Finished)
    /\ eval.step = "store" => AddsUp(sent, folded, eval.held, Finished)

LEMMA FinishedIs == ConsoleShape => Finished \in Nat /\ Finished <= evals
<1> SUFFICES ASSUME ConsoleShape PROVE Finished \in Nat /\ Finished <= evals
  OBVIOUS
<1>1. evals \in Nat /\ (eval.step # "idle" => evals # 0)
  BY ConsoleConstants DEF ConsoleShape
<1> QED BY <1>1 DEF Finished

\* What the agent has is a log with no evaluations.
LEMMA LogAddsUp ==
    ASSUME ConsoleShape, NEW n \in 0..folded, NEW most \in Nat
    PROVE  Small(Expected(sent, n)) /\ AddsUp(sent, folded, Expected(sent, n), most)
<1>1. n \in 0..Len(sent) /\ n \in Nat
  <2>1. Len(sent) \in Nat  BY LenProperties DEF ConsoleShape
  <2> QED BY <2>1 DEF ConsoleShape
<1>2. sent \in Seq(ConsoleEvents)  BY DEF ConsoleShape
<1>3. PICK was \in Model : was = Expected(sent, n)  BY <1>1, <1>2, ExpectedIs
<1>4. PICK rows \in Seq(Messages), d \in Nat : rows = was.messages /\ d = was.dropped  BY DEF Model
<1>5. PICK M \in Nat : M = Len(rows)  BY LenProperties
<1>6. M <= Capacity
  <2>1. Len(Expected(sent, n).messages) = Kept(sent, n)  BY <1>1, <1>2, ExpectedIs
  <2> QED BY <1>1, <1>3, <1>4, <1>5, <2>1, KeptIs
<1>7. Evaluated(rows, 0, rows)
  <2>1. M = M + 2 * 0 /\ 1..0 = {}  OBVIOUS
  <2> QED BY <1>5, <2>1 DEF Evaluated
<1>8. Carries(was, rows, d)
  <2>1. \A i \in 1..M : (M - M) + i = i  OBVIOUS
  <2> QED BY <1>4, <1>5, <1>6, <2>1 DEF Carries
<1>9. Holds(sent, was, n, 0)  BY <1>3, <1>4, <1>7, <1>8 DEF Holds
<1>10. 0 \in 0..most  OBVIOUS
<1> QED BY <1>3, <1>4, <1>5, <1>6, <1>9, <1>10 DEF AddsUp, Small

\* One evaluation more.
LEMMA RecordAddsUp ==
    ASSUME ConsoleShape, NEW model, NEW most \in Nat, AddsUp(sent, folded, model, most), NEW x \in Nat
    PROVE  AddsUp(sent, folded, RecordEvaluation(model, x), most + 1)
<1>1. PICK n \in 0..folded, p \in 0..most : Holds(sent, model, n, p)  BY DEF AddsUp
<1>2. n \in 0..Len(sent) /\ sent \in Seq(ConsoleEvents)
  <2>1. Len(sent) \in Nat  BY LenProperties DEF ConsoleShape
  <2> QED BY <2>1 DEF ConsoleShape
<1>3. PICK was \in Model : was = Expected(sent, n)  BY <1>2, ExpectedIs
<1>4. PICK messages \in Seq(Messages), d \in Nat : messages = was.messages /\ d = was.dropped
  BY DEF Model
<1>5. PICK rows \in Seq(Messages) : Evaluated(messages, p, rows) /\ Carries(model, rows, d)
  BY <1>1, <1>3, <1>4 DEF Holds
<1>6. p \in Nat /\ p + 1 \in 0..(most + 1)  OBVIOUS
<1>7. PICK more \in Seq(Messages) :
        Evaluated(messages, p + 1, more) /\ Carries(RecordEvaluation(model, x), more, d)
  BY <1>5, <1>6, RecordIs
<1>8. Holds(sent, RecordEvaluation(model, x), n, p + 1)  BY <1>3, <1>4, <1>7 DEF Holds
<1> QED BY <1>6, <1>8 DEF AddsUp

\* What adds up is small, and what the promise says.
LEMMA AddsUpMeans ==
    ASSUME ConsoleShape, NEW model, NEW most \in Nat, AddsUp(sent, folded, model, most)
    PROVE  /\ Small(model)
           /\ \E n \in 0..folded, p \in 0..most :
                 Amounts(model, Expected(sent, n).messages, Expected(sent, n).dropped, p)
<1>1. PICK n \in 0..folded, p \in 0..most : Holds(sent, model, n, p)  BY DEF AddsUp
<1>2. n \in 0..Len(sent) /\ sent \in Seq(ConsoleEvents)
  <2>1. Len(sent) \in Nat  BY LenProperties DEF ConsoleShape
  <2> QED BY <2>1 DEF ConsoleShape
<1>3. PICK was \in Model : was = Expected(sent, n)  BY <1>2, ExpectedIs
<1>4. PICK messages \in Seq(Messages), d \in Nat : messages = was.messages /\ d = was.dropped
  BY DEF Model
<1>5. PICK rows \in Seq(Messages) : Evaluated(messages, p, rows) /\ Carries(model, rows, d)
  BY <1>1, <1>3, <1>4 DEF Holds
<1>6. \A i \in 1..Len(messages) : messages[i].what = "message"
  <2>1. Len(messages) = Kept(sent, n)  BY <1>2, <1>3, <1>4, ExpectedIs
  <2>2. \A i \in 1..Kept(sent, n) : \E x, y : messages[i] = Message(x, y)
    BY <1>2, <1>3, <1>4, ExpectedIs
  <2>3. \A x, y : Message(x, y).what = "message"  BY DEF Message
  <2> QED BY <2>1, <2>2, <2>3
<1>7. p \in Nat  OBVIOUS
<1>8. Amounts(model, messages, d, p)  BY <1>5, <1>6, <1>7, CarriedAddsUp
<1>9. Small(model)  BY <1>5 DEF Carries, Small
<1> QED BY <1>3, <1>4, <1>8, <1>9

-----------------------------------------------------------------------------
(* The steps *)

\* Saying more changes no log that was.
LEMMA LogsStay ==
    ASSUME ConsoleShape, sent' \in Seq(ConsoleEvents), Len(sent') >= folded, folded' = folded,
           \A i \in 1..folded : sent'[i] = sent[i]
    PROVE  \A n \in 0..folded : Expected(sent', n) = Expected(sent, n)
<1> SUFFICES ASSUME NEW n \in 0..folded PROVE Expected(sent', n) = Expected(sent, n)
  OBVIOUS
<1>1. PICK before \in Seq(ConsoleEvents), after \in Seq(ConsoleEvents) : before = sent /\ after = sent'
  BY DEF ConsoleShape
<1>2. Len(before) \in Nat /\ Len(after) \in Nat  BY LenProperties
<1>3. folded \in Nat /\ folded <= Len(before) /\ folded <= Len(after)  BY <1>1, <1>2 DEF ConsoleShape
<1>4. n \in Nat /\ n <= Len(before) /\ n <= Len(after)  BY <1>2, <1>3
<1>5. \A i \in 1..n : before[i] = after[i]  BY <1>1, <1>3
<1>6. Expected(before, n) = Expected(after, n)  BY <1>4, <1>5, ExpectedAgrees
<1> QED BY <1>1, <1>6

LEMMA AddingStays ==
    ASSUME NEW events, NEW upTo \in Nat, NEW model, NEW most \in Nat,
           AddsUp(events, upTo, model, most),
           NEW later, NEW to \in Nat, NEW other \in Nat, other >= most, to >= upTo,
           \A n \in 0..upTo : Expected(later, n) = Expected(events, n)
    PROVE  AddsUp(later, to, model, other)
<1>1. PICK n \in 0..upTo, p \in 0..most : Holds(events, model, n, p)  BY DEF AddsUp
<1>2. n \in 0..to /\ p \in 0..other  OBVIOUS
<1>3. Expected(later, n) = Expected(events, n)  OBVIOUS
<1>4. Holds(later, model, n, p)  BY <1>1, <1>3 DEF Holds
<1> QED BY <1>2, <1>4 DEF AddsUp

\* What a step keeps of the invariant when it lets the logs be.
LEMMA SumsStay ==
    ASSUME ConsoleInv, ConsoleShape', folded' >= folded, Finished' >= Finished,
           \A n \in 0..folded : Expected(sent', n) = Expected(sent, n)
    PROVE  \A model : AddsUp(sent, folded, model, Finished) => AddsUp(sent', folded', model, Finished')
<1> SUFFICES ASSUME NEW model, AddsUp(sent, folded, model, Finished)
             PROVE  AddsUp(sent', folded', model, Finished')
  OBVIOUS
<1>1. ConsoleShape  BY DEF ConsoleInv
<1>2. Finished \in Nat  BY <1>1, FinishedIs
<1>3. Finished' \in Nat
  <2>1. (ConsoleShape => Finished \in Nat /\ Finished <= evals)'  BY FinishedIs, PTL
  <2> QED BY <2>1
<1>4. folded \in Nat  BY <1>1, LenProperties DEF ConsoleShape
<1>5. folded' \in Nat
  <2>1. Len(sent') \in Nat  BY LenProperties DEF ConsoleShape
  <2> QED BY <2>1 DEF ConsoleShape
<1>6. PICK f \in Nat, g \in Nat, a \in Nat, b \in Nat :
        f = folded /\ g = folded' /\ a = Finished /\ b = Finished'
  BY <1>2, <1>3, <1>4, <1>5
<1>7. PICK events, later : events = sent /\ later = sent'  OBVIOUS
<1>8. AddsUp(later, g, model, b)  BY <1>6, <1>7, AddingStays
<1> QED BY <1>6, <1>7, <1>8

LEMMA SaysKeeps ==
    ASSUME ConsoleInv, enabled, NEW e \in ConsoleEvents, Says(e)
    PROVE  ConsoleInv'
<1>1. /\ sent' = Append(sent, e)
      /\ UNCHANGED <<enabled, halted, pauses, shown, folded, log, attached, published, eval, evals>>
  BY DEF Says, logVars, hostVars
<1>2. ConsoleShape  BY DEF ConsoleInv
<1>3. PICK L \in Nat : L = Len(sent) /\ folded \in 0..L
  BY <1>2, LenProperties DEF ConsoleShape
<1>4. sent \in Seq(ConsoleEvents)  BY <1>2 DEF ConsoleShape
<1>5. /\ sent' \in Seq(ConsoleEvents) /\ Len(sent') = L + 1
      /\ \A i \in 1..L : sent'[i] = sent[i]
  <2>1. /\ Append(sent, e) \in Seq(ConsoleEvents) /\ Len(Append(sent, e)) = Len(sent) + 1
        /\ \A i \in 1..Len(sent) : Append(sent, e)[i] = sent[i]
    BY <1>4, AppendProperties
  <2> QED BY <1>1, <1>3, <2>1
<1>6. ConsoleShape'
  <2>1. folded' \in 0..Len(sent')  BY <1>1, <1>3, <1>5
  <2> QED BY <1>1, <1>2, <1>5, <2>1 DEF ConsoleShape
<1>7. \A n \in 0..folded : Expected(sent', n) = Expected(sent, n)
  <2>1. Len(sent') >= folded /\ \A i \in 1..folded : sent'[i] = sent[i]  BY <1>3, <1>5
  <2> QED BY <1>1, <1>2, <1>5, <2>1, LogsStay
<1>8. log' = Expected(sent', folded')
  <2>1. folded \in 0..folded  BY <1>3
  <2> QED BY <1>1, <1>7, <2>1 DEF ConsoleInv
<1>9. Finished' = Finished /\ Finished \in Nat  BY <1>1, <1>2, FinishedIs DEF Finished
<1>10. folded' >= folded /\ Finished' >= Finished  BY <1>1, <1>3, <1>9
<1>11. \A model : AddsUp(sent, folded, model, Finished) => AddsUp(sent', folded', model, Finished')
  BY <1>6, <1>7, <1>10, SumsStay
<1> QED BY <1>1, <1>6, <1>8, <1>11 DEF ConsoleInv

\* Where logs and sums stay as they are, or another is put in their place.
LEMMA EventsStay ==
    ASSUME ConsoleInv, sent' = sent, folded' = folded, log' = log, ConsoleShape',
           Finished' >= Finished
    PROVE  /\ log' = Expected(sent', folded')
           /\ \A model : AddsUp(sent, folded, model, Finished)
                            => AddsUp(sent', folded', model, Finished')
<1>1. folded \in Nat  BY LenProperties DEF ConsoleInv, ConsoleShape
<1>2. folded' >= folded  BY <1>1
<1> QED BY <1>2, SumsStay DEF ConsoleInv

LEMMA AttachKeeps ==
    ASSUME ConsoleInv, Attach
    PROVE  ConsoleInv'
<1>1. PICK drained \in 0..MaxSent :
        sent' = [i \in 1..drained |-> [kind |-> "added", count |-> 1]]
  BY DEF Attach
<1>2. /\ enabled' = TRUE /\ ~enabled
      /\ UNCHANGED <<halted, pauses, shown, folded, log, attached, published, eval, evals>>
  BY DEF Attach, logVars, hostVars
<1>3. ConsoleShape  BY DEF ConsoleInv
<1>4. folded = 0
  <2>1. sent = <<>>  BY <1>2, <1>3 DEF ConsoleShape
  <2>2. Len(sent) = 0  BY <2>1, EmptySeq
  <2> QED BY <1>3, <2>2 DEF ConsoleShape
<1>5. drained \in Nat  BY ConsoleConstants
<1>6. sent' \in Seq(ConsoleEvents)
  <2>1. [kind |-> "added", count |-> 1] \in ConsoleEvents  BY DEF ConsoleEvents
  <2>2. [i \in 1..drained |-> [kind |-> "added", count |-> 1]] \in [1..drained -> ConsoleEvents]
    BY <2>1
  <2> QED BY <1>1, <1>5, <2>2, SeqDef
<1>7. Len(sent') \in Nat  BY <1>6, LenProperties
<1>8. ConsoleShape'
  <2>1. folded' \in 0..Len(sent')  BY <1>2, <1>4, <1>7
  <2> QED BY <1>2, <1>3, <1>6, <2>1 DEF ConsoleShape
<1>9. \A n \in 0..folded : Expected(sent', n) = Expected(sent, n)
  <2>1. Len(sent') >= folded /\ \A i \in 1..folded : sent'[i] = sent[i]  BY <1>4, <1>7
  <2> QED BY <1>2, <1>3, <1>6, <2>1, LogsStay
<1>10. log' = Expected(sent', folded')
  <2>1. 0 \in 0..0  OBVIOUS
  <2> QED BY <1>2, <1>4, <1>9, <2>1 DEF ConsoleInv
<1>11. folded' >= folded /\ Finished' >= Finished
  <2>1. Finished' = Finished /\ Finished \in Nat  BY <1>2, <1>3, FinishedIs DEF Finished
  <2> QED BY <1>2, <1>4, <2>1
<1>12. \A model : AddsUp(sent, folded, model, Finished) => AddsUp(sent', folded', model, Finished')
  BY <1>8, <1>9, <1>11, SumsStay
<1> QED BY <1>2, <1>8, <1>10, <1>12 DEF ConsoleInv

LEMMA SeedKeeps ==
    ASSUME ConsoleInv, Seed
    PROVE  ConsoleInv'
<1>1. /\ enabled /\ attached' = TRUE /\ published' = log
      /\ UNCHANGED <<sent, enabled, halted, pauses, shown, folded, log, eval, evals>>
  BY DEF Seed, pageVars, hostVars
<1>2. ConsoleShape  BY DEF ConsoleInv
<1>3. ConsoleShape'  BY <1>1, <1>2 DEF ConsoleShape
<1>4. Finished' = Finished /\ Finished \in Nat /\ Finished' >= Finished
  BY <1>1, <1>2, FinishedIs DEF Finished
<1>5. /\ log' = Expected(sent', folded')
      /\ \A model : AddsUp(sent, folded, model, Finished) => AddsUp(sent', folded', model, Finished')
  BY <1>1, <1>3, <1>4, EventsStay
<1>6. AddsUp(sent, folded, log, Finished)
  <2>1. folded \in Nat  BY <1>2, LenProperties DEF ConsoleShape
  <2>2. folded \in 0..folded  BY <2>1
  <2>3. AddsUp(sent, folded, Expected(sent, folded), Finished)  BY <1>2, <1>4, <2>2, LogAddsUp
  <2> QED BY <2>3 DEF ConsoleInv
<1> QED BY <1>1, <1>3, <1>5, <1>6 DEF ConsoleInv

LogsAddUp ==
    ConsoleShape => \A n \in 0..folded, most \in Nat : AddsUp(sent, folded, Expected(sent, n), most)

LEMMA LogsAllAddUp == LogsAddUp
<1> QED BY LogAddsUp DEF LogsAddUp

LEMMA FoldsKeeps ==
    ASSUME ConsoleInv, Folds
    PROVE  ConsoleInv'
<1>1. /\ folded < Len(sent) /\ folded' = folded + 1 /\ published' = log'
      /\ log' = OnConsoleEvent(log, sent[folded + 1], Said(sent, folded + 1))
      /\ UNCHANGED <<sent, enabled, halted, pauses, shown, attached, eval, evals>>
  BY DEF Folds, pageVars, hostVars
<1>2. ConsoleShape  BY DEF ConsoleInv
<1>3. PICK L \in Nat : L = Len(sent) /\ folded \in Nat /\ folded + 1 <= L
  BY <1>1, <1>2, LenProperties DEF ConsoleShape
<1>4. sent \in Seq(ConsoleEvents)  BY <1>2 DEF ConsoleShape
<1>5. log' = Expected(sent, folded + 1)
  <2>1. log = Expected(sent, folded)  BY DEF ConsoleInv
  <2> QED BY <1>1, <1>3, <1>4, <2>1, FoldsOne
<1>6. ConsoleShape'
  <2>1. folded' \in 0..Len(sent')  BY <1>1, <1>3
  <2> QED BY <1>1, <1>2, <2>1 DEF ConsoleShape
<1>7. Finished' = Finished /\ Finished \in Nat /\ Finished' >= Finished
  BY <1>1, <1>2, FinishedIs DEF Finished
<1>8. \A model : AddsUp(sent, folded, model, Finished) => AddsUp(sent', folded', model, Finished')
  <2>1. folded' >= folded  BY <1>1, <1>3
  <2>2. \A n \in 0..folded : Expected(sent', n) = Expected(sent, n)  BY <1>1
  <2> QED BY <1>6, <1>7, <2>1, <2>2, SumsStay
<1>9. AddsUp(sent, folded, log, Finished)'
  <2>1. LogsAddUp'  BY LogsAllAddUp, PTL
  <2>2. folded' \in 0..folded' /\ Finished' \in Nat  BY <1>1, <1>3, <1>7
  <2>3. AddsUp(sent', folded', Expected(sent', folded'), Finished')
    BY <1>6, <2>1, <2>2 DEF LogsAddUp
  <2> QED BY <1>1, <1>5, <2>3
<1> QED BY <1>1, <1>5, <1>6, <1>8, <1>9 DEF ConsoleInv

\* What the debuggee and the debugger panel do besides.
LEMMA PausesKeep ==
    ASSUME ConsoleInv, Stops \/ GoesOn \/ PublishesPause
    PROVE  ConsoleInv'
<1>1. UNCHANGED <<sent, enabled, folded, log, attached, published, eval, evals>>
  BY DEF Stops, GoesOn, PublishesPause, logVars, hostVars
<1>2. ConsoleShape  BY DEF ConsoleInv
<1>3. /\ pauses' \in Nat /\ halted' \in 0..pauses' /\ shown' \in 0..pauses'
      /\ 0..pauses \subseteq 0..pauses'
  BY <1>2 DEF ConsoleShape, Stops, GoesOn, PublishesPause
<1>4. ConsoleShape'
  <2>1. eval.pause \in 0..pauses'  BY <1>2, <1>3 DEF ConsoleShape
  <2>2. eval' \in [step : {"idle", "call", "answered", "store"}, pause : 0..pauses', held : Model]
    BY <1>1, <1>2, <2>1 DEF ConsoleShape
  <2>3. Small(eval.held)'  BY <1>1, <1>2 DEF ConsoleShape, Small
  <2> QED BY <1>1, <1>2, <1>3, <2>2, <2>3 DEF ConsoleShape
<1>5. Finished' = Finished /\ Finished' >= Finished  BY <1>1, <1>2, FinishedIs DEF Finished
<1>6. /\ log' = Expected(sent', folded')
      /\ \A model : AddsUp(sent, folded, model, Finished) => AddsUp(sent', folded', model, Finished')
  BY <1>1, <1>4, <1>5, EventsStay
<1> QED BY <1>1, <1>4, <1>6 DEF ConsoleInv

LEMMA NothingIsSmall == NewModel \in Model /\ Small(NewModel)
<1>1. <<>> \in Seq(Messages) /\ Len(<<>>) = 0  BY EmptySeq
<1> QED BY <1>1, ConsoleConstants DEF NewModel, Small, Model

LEMMA HostKeeps ==
    ASSUME ConsoleInv, Asks \/ Answered \/ Refused \/ Loads
    PROVE  ConsoleInv'
<1>1. UNCHANGED <<sent, enabled, halted, pauses, shown, folded, log, attached, published>>
  BY DEF Asks, Answered, Refused, Loads, pageVars, logVars
<1>2. ConsoleShape  BY DEF ConsoleInv
<1>3. evals \in Nat /\ MaxEvals \in Nat  BY <1>2, ConsoleConstants DEF ConsoleShape
<1>4. AddsUp(sent, folded, published, Finished)  BY DEF ConsoleInv
<1>5. Finished \in Nat  BY <1>2, FinishedIs
<1>6. Small(published)  BY <1>2, <1>4, <1>5, AddsUpMeans
<1>7. CASE Asks
  <2>1. evals' = evals + 1 /\ evals' \in 0..MaxEvals /\ eval.step = "idle"  BY <1>3, <1>7 DEF Asks
  <2>2. eval' = [step |-> "call", pause |-> shown, held |-> NewModel]  BY <1>7 DEF Asks, NoEval
  <2>3. ConsoleShape'
    <3>1. eval' \in [step : {"idle", "call", "answered", "store"}, pause : 0..pauses', held : Model]
      BY <1>1, <1>2, <2>2, NothingIsSmall DEF ConsoleShape
    <3>2. Small(eval.held)'  BY <2>2, NothingIsSmall DEF Small
    <3>3. evals' # 0  BY <1>3, <2>1
    <3> QED BY <1>1, <1>2, <2>1, <3>1, <3>2, <3>3 DEF ConsoleShape
  <2>4. Finished' = Finished /\ Finished' >= Finished
    <3>1. eval'.step # "idle"  BY <2>2
    <3> QED BY <1>3, <2>1, <3>1 DEF Finished
  <2>5. /\ log' = Expected(sent', folded')
        /\ \A model : AddsUp(sent, folded, model, Finished) => AddsUp(sent', folded', model, Finished')
    BY <1>1, <2>3, <2>4, EventsStay
  <2>6. eval'.step # "store"  BY <2>2
  <2> QED BY <1>1, <1>4, <2>3, <2>5, <2>6 DEF ConsoleInv
<1>8. CASE Answered
  <2>1. evals' = evals /\ eval.step = "call" /\ eval' = [eval EXCEPT !.step = "answered"]
    BY <1>8 DEF Answered
  <2>2. ConsoleShape'
    <3>1. eval' \in [step : {"idle", "call", "answered", "store"}, pause : 0..pauses', held : Model]
          /\ eval'.held = eval.held /\ eval'.step = "answered"
      BY <1>1, <1>2, <2>1 DEF ConsoleShape
    <3>2. Small(eval.held)'  BY <1>2, <3>1 DEF ConsoleShape, Small
    <3> QED BY <1>1, <1>2, <2>1, <3>1, <3>2 DEF ConsoleShape
  <2>3. eval'.step = "answered"  BY <1>2, <2>1 DEF ConsoleShape
  <2>4. Finished' = Finished /\ Finished' >= Finished  BY <1>5, <2>1, <2>3 DEF Finished
  <2>5. /\ log' = Expected(sent', folded')
        /\ \A model : AddsUp(sent, folded, model, Finished) => AddsUp(sent', folded', model, Finished')
    BY <1>1, <2>2, <2>4, EventsStay
  <2> QED BY <1>1, <1>4, <2>2, <2>3, <2>5 DEF ConsoleInv
<1>9. CASE Refused
  <2>1. evals' = evals /\ eval.step = "call" /\ eval' = [step |-> "idle", pause |-> 0, held |-> NewModel]
    BY <1>9 DEF Refused, NoEval
  <2>2. ConsoleShape'
    <3>1. 0 \in 0..pauses'  BY <1>1, <1>2 DEF ConsoleShape
    <3>2. eval' \in [step : {"idle", "call", "answered", "store"}, pause : 0..pauses', held : Model]
      BY <2>1, <3>1, NothingIsSmall
    <3>3. Small(eval.held)'  BY <2>1, NothingIsSmall DEF Small
    <3>4. eval'.step = "idle"  BY <2>1
    <3> QED BY <1>1, <1>2, <2>1, <3>2, <3>3, <3>4 DEF ConsoleShape
  <2>3. eval'.step = "idle"  BY <2>1
  <2>4. Finished' >= Finished  BY <1>3, <2>1, <2>3 DEF Finished
  <2>5. /\ log' = Expected(sent', folded')
        /\ \A model : AddsUp(sent, folded, model, Finished) => AddsUp(sent', folded', model, Finished')
    BY <1>1, <2>2, <2>4, EventsStay
  <2> QED BY <1>1, <1>4, <2>2, <2>3, <2>5 DEF ConsoleInv
<1>10. CASE Loads
  <2>1. /\ evals' = evals /\ eval.step = "answered"
        /\ eval' = [eval EXCEPT !.step = "store", !.held = published]
    BY <1>10 DEF Loads
  <2>2. published \in Model  BY <1>6 DEF Small
  <2>3. eval' \in [step : {"idle", "call", "answered", "store"}, pause : 0..pauses', held : Model]
        /\ eval'.held = published /\ eval'.step = "store"
    BY <1>1, <1>2, <2>1, <2>2 DEF ConsoleShape
  <2>4. ConsoleShape'
    <3>1. Small(eval.held)'  BY <1>6, <2>3 DEF Small
    <3> QED BY <1>1, <1>2, <2>1, <2>3, <3>1 DEF ConsoleShape
  <2>5. Finished' = Finished /\ Finished' >= Finished  BY <1>5, <2>1, <2>3 DEF Finished
  <2>6. /\ log' = Expected(sent', folded')
        /\ \A model : AddsUp(sent, folded, model, Finished) => AddsUp(sent', folded', model, Finished')
    BY <1>1, <2>4, <2>5, EventsStay
  <2> QED BY <1>1, <1>4, <2>3, <2>4, <2>6 DEF ConsoleInv
<1> QED BY <1>7, <1>8, <1>9, <1>10

LEMMA StoresKeeps ==
    ASSUME ConsoleInv, Stores
    PROVE  ConsoleInv'
<1>1. /\ eval.step = "store" /\ evals' = evals
      /\ eval' = [step |-> "idle", pause |-> 0, held |-> NewModel]
      /\ published' = RecordEvaluation(eval.held, evals)
      /\ UNCHANGED <<sent, enabled, halted, pauses, shown, folded, log, attached>>
  BY DEF Stores, NoEval, pageVars, logVars
<1>2. ConsoleShape /\ AddsUp(sent, folded, eval.held, Finished)  BY <1>1 DEF ConsoleInv
<1>3. evals \in Nat /\ evals # 0 /\ Finished = evals - 1 /\ Finished \in Nat
  BY <1>1, <1>2, FinishedIs, ConsoleConstants DEF ConsoleShape, Finished
<1>4. ConsoleShape'
  <2>1. 0 \in 0..pauses'  BY <1>1, <1>2 DEF ConsoleShape
  <2>2. eval' \in [step : {"idle", "call", "answered", "store"}, pause : 0..pauses', held : Model]
    BY <1>1, <2>1, NothingIsSmall
  <2>3. Small(eval.held)'  BY <1>1, NothingIsSmall DEF Small
  <2>4. eval'.step = "idle"  BY <1>1
  <2> QED BY <1>1, <1>2, <2>2, <2>3, <2>4 DEF ConsoleShape
<1>5. Finished' = evals /\ eval'.step = "idle" /\ Finished' >= Finished /\ Finished + 1 = evals
  BY <1>1, <1>3 DEF Finished
<1>6. log' = Expected(sent', folded')  BY <1>1, <1>4, <1>5, EventsStay
<1>7. AddsUp(sent, folded, RecordEvaluation(eval.held, evals), Finished + 1)
  BY <1>2, <1>3, RecordAddsUp
<1>8. AddsUp(sent, folded, published, Finished)'  BY <1>1, <1>5, <1>7
<1> QED BY <1>4, <1>5, <1>6, <1>8 DEF ConsoleInv

LEMMA ConsoleStarts == ConsoleInit => ConsoleInv
<1> SUFFICES ASSUME ConsoleInit PROVE ConsoleInv
  OBVIOUS
<1>1. /\ sent = <<>> /\ enabled = FALSE /\ halted = 0 /\ pauses = 0 /\ shown = 0 /\ folded = 0
      /\ log = NewModel /\ attached = FALSE /\ published = NewModel
      /\ eval = [step |-> "idle", pause |-> 0, held |-> NewModel] /\ evals = 0
  BY DEF ConsoleInit, NoEval
<1>2. <<>> \in Seq(ConsoleEvents) /\ Len(<<>>) = 0  BY EmptySeq
<1>3. ConsoleShape
  <2>1. eval \in [step : {"idle", "call", "answered", "store"}, pause : 0..pauses, held : Model]
    BY <1>1, NothingIsSmall
  <2>2. Small(eval.held)  BY <1>1, NothingIsSmall
  <2>3. evals \in 0..MaxEvals  BY <1>1, ConsoleConstants
  <2> QED BY <1>1, <1>2, <2>1, <2>2, <2>3 DEF ConsoleShape
<1>4. Expected(sent, 0) = NewModel
  <2>1. PICK none \in Seq(ConsoleEvents) : none = <<>> /\ 0 \in 0..Len(none)
    <3>1. 0 \in 0..Len(<<>>)  BY <1>2
    <3> QED BY <1>2, <3>1
  <2>2. Kept(none, 0) = 0
    <3>1. SaidSince(none, 0) = 0  BY NothingSaid
    <3> QED BY <3>1, ConsoleConstants DEF Kept
  <2>3. Cardinality(Lost(none, 0)) = 0
    <3>1. Said(none, 0) = 0  BY NothingSaid
    <3>2. Lost(none, 0) = {}  BY <3>1 DEF Lost
    <3> QED BY <3>2, FS_EmptySet
  <2>4. PICK model \in Model : model = NewModel  BY NothingIsSmall
  <2>5. Len(model.messages) = 0 /\ model.dropped = 0
    <3>1. model.messages = <<>> /\ model.dropped = 0  BY <2>4 DEF NewModel
    <3> QED BY <1>2, <3>1
  <2>6. Shows(none, 0, Said(none, 0) - Kept(none, 0), model.messages)  BY <2>5 DEF Shows
  <2>7. model = Expected(none, 0)  BY <2>1, <2>2, <2>3, <2>5, <2>6, ShownIsExpected
  <2> QED BY <1>1, <2>1, <2>4, <2>7
<1>5. AddsUp(sent, folded, published, Finished)
  <2>1. Finished \in Nat /\ 0 \in 0..folded  BY <1>1, <1>3, FinishedIs
  <2> QED BY <1>1, <1>3, <1>4, <2>1, LogAddsUp
<1> QED BY <1>1, <1>3, <1>4, <1>5 DEF ConsoleInv

\* A step that changes nothing.
LEMMA ConsoleRests ==
    ASSUME ConsoleInv, UNCHANGED consoleVars
    PROVE  ConsoleInv'
<1>1. UNCHANGED <<sent, enabled, halted, pauses, shown, folded, log, attached, published, eval, evals>>
  BY DEF consoleVars, pageVars, logVars, hostVars
<1> QED BY <1>1 DEF ConsoleInv, ConsoleShape, Finished, Small

LEMMA DebuggeeKeeps ==
    ASSUME ConsoleInv, Logs \/ Repeats \/ Clears
    PROVE  ConsoleInv'
<1>0. \A kind \in {"added", "repeated", "cleared"}, count \in Nat \ {0} :
        [kind |-> kind, count |-> count] \in ConsoleEvents
  BY DEF ConsoleEvents
<1>1. sent \in Seq(ConsoleEvents)  BY DEF ConsoleInv, ConsoleShape
<1>2. CASE Logs
  <2>1. PICK e \in ConsoleEvents : e = [kind |-> "added", count |-> 1]
    <3>1. [kind |-> "added", count |-> 1] \in ConsoleEvents  BY <1>0
    <3> QED BY <3>1
  <2> QED BY <1>2, <2>1, SaysKeeps DEF Logs
<1>3. CASE Clears
  <2>1. PICK e \in ConsoleEvents : e = [kind |-> "cleared", count |-> 1]
    <3>1. [kind |-> "cleared", count |-> 1] \in ConsoleEvents  BY <1>0
    <3> QED BY <3>1
  <2> QED BY <1>3, <2>1, SaysKeeps DEF Clears
<1>4. CASE Repeats
  <2>1. PICK count \in 2..MaxRepeat : Says([kind |-> "repeated", count |-> count])
    BY <1>4 DEF Repeats
  <2>2. PICK e \in ConsoleEvents : e = [kind |-> "repeated", count |-> count]
    <3>1. MaxRepeat \in Nat  BY ConsoleConstants
    <3>2. count \in Nat \ {0}  BY <3>1
    <3>3. [kind |-> "repeated", count |-> count] \in ConsoleEvents  BY <1>0, <3>2
    <3> QED BY <3>3
  <2>3. Says(e) /\ enabled
    <3>1. enabled  BY <1>4 DEF Repeats
    <3> QED BY <2>1, <2>2, <3>1, Zenon
  <2> QED BY <2>3, SaysKeeps
<1> QED BY <1>2, <1>3, <1>4

LEMMA ConsoleKept == ConsoleInv /\ [ConsoleNext]_consoleVars => ConsoleInv'
<1> SUFFICES ASSUME ConsoleInv, [ConsoleNext]_consoleVars PROVE ConsoleInv'
  OBVIOUS
<1>1. CASE Logs \/ Repeats \/ Clears  BY <1>1, DebuggeeKeeps
<1>2. CASE Stops \/ GoesOn \/ PublishesPause  BY <1>2, PausesKeep
<1>3. CASE Attach  BY <1>3, AttachKeeps
<1>4. CASE Seed  BY <1>4, SeedKeeps
<1>5. CASE Folds  BY <1>5, FoldsKeeps
<1>6. CASE Asks \/ Answered \/ Refused \/ Loads  BY <1>6, HostKeeps
<1>7. CASE Stores  BY <1>7, StoresKeeps
<1>8. CASE UNCHANGED consoleVars  BY <1>8, ConsoleRests
<1> QED BY <1>1, <1>2, <1>3, <1>4, <1>5, <1>6, <1>7, <1>8 DEF ConsoleNext

LEMMA ConsoleInvariant == ConsoleSpec => []ConsoleInv
<1> QED BY ConsoleStarts, ConsoleKept, PTL DEF ConsoleSpec

\* Every model there is has its declared shape, and no more rows than there is
\* room for.  [ConsoleModel]
THEOREM ConsoleIsTyped == ConsoleSpec => []ConsoleTyped
<1>1. ConsoleInv => ConsoleTyped
  <2> SUFFICES ASSUME ConsoleInv PROVE ConsoleTyped
    OBVIOUS
  <2>1. ConsoleShape /\ folded \in Nat /\ folded \in 0..folded
    <3>1. ConsoleShape /\ Len(sent) \in Nat  BY LenProperties DEF ConsoleInv, ConsoleShape
    <3> QED BY <3>1 DEF ConsoleShape
  <2>2. Finished \in Nat  BY <2>1, FinishedIs
  <2>3. Small(log)
    <3>1. Small(Expected(sent, folded))  BY <2>1, <2>2, LogAddsUp
    <3> QED BY <3>1 DEF ConsoleInv
  <2>4. Small(published)
    <3>1. AddsUp(sent, folded, published, Finished)  BY DEF ConsoleInv
    <3> QED BY <2>1, <2>2, <3>1, AddsUpMeans
  <2> QED BY <2>1, <2>3, <2>4 DEF ConsoleShape, ConsoleTyped, Small
<1> QED BY <1>1, ConsoleInvariant, PTL

\* The agent's log is what the events it has folded amount to, however many
\* there are and however small the log: the newest messages, each with the
\* count it was last given, and no message gone uncounted.
\* [push, set_last_repeat_count, clear_messages, on_event]
THEOREM LogAlwaysHonest == ConsoleSpec => []LogIsHonest
<1>1. ConsoleInv => LogIsHonest  BY DEF ConsoleInv, LogIsHonest
<1> QED BY <1>1, ConsoleInvariant, PTL

\* However the host's load and store of the published model and the agent's
\* publications overtake each other, what is published is a log the agent once
\* had with whole evaluations after it, and its count of what is gone is
\* right.  [evaluate_expr, record_evaluation, run_agent]
THEOREM PublishedAlwaysAddsUp == ConsoleSpec => []PublishedAddsUp
<1>1. ConsoleInv => PublishedAddsUp
  <2> SUFFICES ASSUME ConsoleInv PROVE PublishedAddsUp
    OBVIOUS
  <2>1. ConsoleShape /\ AddsUp(sent, folded, published, Finished)  BY DEF ConsoleInv
  <2>2. Finished \in Nat /\ Finished <= evals /\ evals \in Nat
    BY <2>1, FinishedIs, ConsoleConstants DEF ConsoleShape
  <2>3. \E n \in 0..folded, p \in 0..Finished :
           Amounts(published, Expected(sent, n).messages, Expected(sent, n).dropped, p)
    <3>1. PICK most \in Nat : most = Finished  BY <2>2
    <3> QED BY <2>1, <3>1, AddsUpMeans
  <2>4. \A p \in 0..Finished : p \in 0..evals  BY <2>2
  <2>5. \E n \in 0..folded, p \in 0..evals :
              Amounts(published, Expected(sent, n).messages, Expected(sent, n).dropped, p)
    BY <2>3, <2>4
  <2>6. Paired(published.messages)  BY <2>5 DEF Amounts
  <2>7. \E n \in 0..folded, p \in 0..evals :
          LET was == Expected(sent, n)
          IN  /\ NewestOf(published.messages, was.messages)
              /\ published.dropped >= was.dropped
              /\ published.dropped + Len(published.messages)
                    = was.dropped + Len(was.messages) + 2 * p
    BY <2>5 DEF Amounts
  <2> QED BY <2>6, <2>7 DEF PublishedAddsUp
<1> QED BY <1>1, ConsoleInvariant, PTL
=============================================================================
