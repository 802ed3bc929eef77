---------------------------- MODULE ExcerptProofs ----------------------------
(***************************************************************************)
(* Induction over the naturals for sets in the place of predicates,        *)
(* functions defined by recursion, and what an excerpt of a list is.       *)
(***************************************************************************)
EXTENDS Excerpt, SequenceTheorems, WellFoundedInduction, TLAPS

\* A set of numbers has a least one.
LEMMA LeastNumber == \A T \in SUBSET Nat : T # {} => \E x \in T : \A y \in T : x <= y
<1> SUFFICES ASSUME NEW T \in SUBSET Nat, T # {}
             PROVE  \E x \in T : \A y \in T : x <= y
  OBVIOUS
<1>1. PICK x \in T : \A y \in T : ~(<<y, x>> \in OpToRel(<, Nat))
  BY NatLessThanWellFounded, WFMin
<1>2. \A y \in T : ~(y < x)
  BY <1>1 DEF OpToRel
<1> QED BY <1>2

\* Induction, with the set of the numbers it has reached.
LEMMA SetInduction ==
    ASSUME NEW P, 0 \in P, \A n \in Nat : n \in P => n + 1 \in P
    PROVE  \A n \in Nat : n \in P
<1> SUFFICES ASSUME NEW m \in Nat, m \notin P PROVE FALSE
  OBVIOUS
<1> DEFINE T == {k \in Nat : k \notin P}
<1>1. T \in SUBSET Nat /\ T # {}
  OBVIOUS
<1>2. PICK x \in T : \A y \in T : x <= y
  BY <1>1, LeastNumber
<1>3. x - 1 \in Nat /\ x - 1 \in P
  <2>1. x # 0 /\ x \in Nat  BY <1>2
  <2> QED BY <1>2, <2>1
<1> QED BY <1>2, <1>3

-----------------------------------------------------------------------------
(* Recursion *)

\* What a recursion does at each of its N steps, and the functions it defines.
Steps(N, V) == [1..N -> [V -> V]]
Runs(N, V, e, step) ==
    {f \in [0..N -> V] : f[0] = e /\ \A i \in 1..N : f[i] = step[i][f[i - 1]]}

\* There is one.
LEMMA RecursionExists ==
    ASSUME NEW N \in Nat, NEW V, NEW e \in V, NEW step \in Steps(N, V)
    PROVE  Runs(N, V, e, step) # {}
<1> SUFFICES \E f \in [0..N -> V] : f[0] = e /\ \A i \in 1..N : f[i] = step[i][f[i - 1]]
  BY DEF Runs
<1>0. step \in [1..N -> [V -> V]]
  BY DEF Steps
<1> DEFINE P == {m \in Nat : m <= N => \E f \in [0..m -> V] :
                              f[0] = e /\ \A i \in 1..m : f[i] = step[i][f[i - 1]]}
<1>1. 0 \in P
  <2> DEFINE g == [i \in 0..0 |-> e]
  <2>1. g \in [0..0 -> V] /\ g[0] = e /\ 1..0 = {}
    OBVIOUS
  <2> HIDE DEF g
  <2>2. \E f \in [0..0 -> V] : f[0] = e /\ \A i \in 1..0 : f[i] = step[i][f[i - 1]]
    BY <2>1
  <2> QED BY <2>2
<1>2. ASSUME NEW m \in Nat, m \in P PROVE m + 1 \in P
  <2> SUFFICES ASSUME m + 1 <= N
               PROVE  \E f \in [0..(m + 1) -> V] :
                          f[0] = e /\ \A i \in 1..(m + 1) : f[i] = step[i][f[i - 1]]
    OBVIOUS
  <2>1. PICK f \in [0..m -> V] : f[0] = e /\ \A i \in 1..m : f[i] = step[i][f[i - 1]]
    BY <1>2
  <2> DEFINE g == [i \in 0..(m + 1) |-> IF i = m + 1 THEN step[m + 1][f[m]] ELSE f[i]]
  <2>2. f[m] \in V /\ m + 1 \in 1..N
    OBVIOUS
  <2>3. step[m + 1][f[m]] \in V
    BY <2>2, <1>0
  <2>4. \A i \in 0..(m + 1) : i # m + 1 => i \in 0..m
    OBVIOUS
  <2>5. g \in [0..(m + 1) -> V]
    BY <2>3, <2>4
  <2>6. g[0] = e
    BY <2>1
  <2>7. ASSUME NEW i \in 1..(m + 1) PROVE g[i] = step[i][g[i - 1]]
    <3>1. i - 1 \in 0..m /\ g[i - 1] = f[i - 1]
      OBVIOUS
    <3>2. CASE i = m + 1  BY <3>1, <3>2
    <3>3. CASE i # m + 1  BY <3>1, <3>3, <2>1
    <3> QED BY <3>2, <3>3
  <2> QED BY <2>5, <2>6, <2>7
<1>3. N \in P
  <2> HIDE DEF P
  <2> QED BY <1>1, <1>2, SetInduction
<1> QED BY <1>3

-----------------------------------------------------------------------------
(* Excerpts *)

\* The excerpts of a list's beginnings, one after the other.
Begun(list, places, f) ==
    /\ f[0] = <<>>
    /\ \A i \in 1..Len(list) :
          f[i] = IF i \in places THEN Append(f[i - 1], list[i]) ELSE f[i - 1]

LEMMA ExcerptBegins ==
    ASSUME NEW S, NEW list \in Seq(S), NEW places
    PROVE  \E f : Begun(list, places, f) /\ f[Len(list)] = Excerpt(list, places)
<1> DEFINE V == Seq(S)
           step == [i \in 1..Len(list) |-> [v \in V |->
                       IF i \in places THEN Append(v, list[i]) ELSE v]]
           Body(f) == [i \in 0..Len(list) |->
                          IF i = 0 THEN <<>>
                          ELSE IF i \in places THEN Append(f[i - 1], list[i]) ELSE f[i - 1]]
           g == CHOOSE g : g = Body(g)
<1>1. PICK L \in Nat : L = Len(list)  BY LenProperties
<1>2. <<>> \in V  BY EmptySeq
<1>3. step \in [1..L -> [V -> V]]
  <2>1. \A i \in 1..Len(list), v \in V : Append(v, list[i]) \in V
    BY AppendProperties, ElementOfSeq
  <2> QED BY <2>1, <1>1
<1>4. \A i \in 1..L, v \in V : step[i][v] = IF i \in places THEN Append(v, list[i]) ELSE v
  BY <1>1
<1>5. Excerpt(list, places) = g[Len(list)]
  BY Zenon DEF Excerpt
<1>6. \A f : Body(f) = [i \in 0..L |->
                  IF i = 0 THEN <<>>
                  ELSE IF i \in places THEN Append(f[i - 1], list[i]) ELSE f[i - 1]]
  BY <1>1
<1> HIDE DEF g, V, step, Body
<1>7. PICK f \in [0..L -> V] : f[0] = <<>> /\ \A i \in 1..L : f[i] = step[i][f[i - 1]]
  <2>1. PICK e \in V : e = <<>>  BY <1>2
  <2>2. Runs(L, V, e, step) # {}
    BY <1>1, <1>3, <2>1, RecursionExists DEF Steps
  <2>3. PICK f \in Runs(L, V, e, step) : TRUE  BY <2>2
  <2> QED BY <2>1, <2>3 DEF Runs
<1>8. f = Body(f)
  <2>1. \A i \in 1..L : i - 1 \in 0..L  BY <1>1
  <2>2. \A i \in 1..L : f[i] = IF i \in places THEN Append(f[i - 1], list[i]) ELSE f[i - 1]
    BY <1>4, <1>7, <2>1
  <2>3. \A i \in 0..L : i = 0 \/ i \in 1..L  BY <1>1
  <2>4. \A i \in 0..L :
           f[i] = IF i = 0 THEN <<>>
                  ELSE IF i \in places THEN Append(f[i - 1], list[i]) ELSE f[i - 1]
    BY <2>2, <2>3, <1>7
  <2> QED BY <2>4, <1>7, <1>6
<1>9. g = Body(g)  BY <1>8 DEF g
<1>10. \A i \in 0..L :
          g[i] = IF i = 0 THEN <<>>
                 ELSE IF i \in places THEN Append(g[i - 1], list[i]) ELSE g[i - 1]
  BY <1>9, <1>6
<1>11. (\A i \in 1..L : i \in 0..L /\ i # 0) /\ 0 \in 0..L  BY <1>1
<1> QED BY <1>1, <1>5, <1>10, <1>11 DEF Begun

\* Lists that agree at the places chosen begin alike.
LEMMA BeginningsAgree ==
    ASSUME NEW a, NEW b, NEW P, NEW Q, NEW f, NEW g,
           Begun(a, P, f), Begun(b, Q, g),
           NEW n \in Nat, Len(a) \in Nat, Len(b) \in Nat, n <= Len(a), n <= Len(b),
           \A i \in 1..n : (i \in P <=> i \in Q) /\ (i \in P => a[i] = b[i])
    PROVE  f[n] = g[n]
<1> DEFINE T == {i \in Nat : i <= n => f[i] = g[i]}
<1>1. 0 \in T
  BY DEF Begun
<1>2. ASSUME NEW i \in Nat, i \in T PROVE i + 1 \in T
  <2> SUFFICES ASSUME i + 1 <= n PROVE f[i + 1] = g[i + 1]
    OBVIOUS
  <2>1. /\ f[i] = g[i] /\ i + 1 \in 1..n /\ i + 1 \in 1..Len(a) /\ i + 1 \in 1..Len(b)
        /\ (i + 1) - 1 = i
    BY <1>2
  <2>2. PICK j \in 1..n : j = i + 1 /\ j - 1 = i  BY <2>1
  <2>3. /\ f[j] = IF j \in P THEN Append(f[j - 1], a[j]) ELSE f[j - 1]
        /\ g[j] = IF j \in Q THEN Append(g[j - 1], b[j]) ELSE g[j - 1]
    BY <2>1, <2>2 DEF Begun
  <2>4. f[j - 1] = g[j - 1]  BY <2>1, <2>2
  <2> QED BY <2>2, <2>3, <2>4
<1>3. n \in T
  <2> HIDE DEF T
  <2> QED BY <1>1, <1>2, SetInduction
<1> QED BY <1>3

\* An excerpt depends on what is at its places only.
LEMMA ExcerptAgrees ==
    ASSUME NEW S, NEW a \in Seq(S), NEW b \in Seq(S), NEW P, NEW Q, Len(a) = Len(b),
           \A i \in 1..Len(a) : (i \in P <=> i \in Q) /\ (i \in P => a[i] = b[i])
    PROVE  Excerpt(a, P) = Excerpt(b, Q)
<1>1. PICK f : Begun(a, P, f) /\ f[Len(a)] = Excerpt(a, P)  BY ExcerptBegins
<1>2. PICK g : Begun(b, Q, g) /\ g[Len(b)] = Excerpt(b, Q)  BY ExcerptBegins
<1>3. PICK n \in Nat : n = Len(a)  BY LenProperties
<1>4. f[n] = g[n]
  BY <1>1, <1>2, <1>3, BeginningsAgree
<1> QED BY <1>1, <1>2, <1>3, <1>4

\* There is nothing in an empty list.
LEMMA ExcerptOfNothing == \A places : Excerpt(<<>>, places) = <<>>
<1> TAKE places
<1>1. <<>> \in Seq({}) /\ Len(<<>>) = 0  BY EmptySeq
<1>2. PICK f : Begun(<<>>, places, f) /\ f[Len(<<>>)] = Excerpt(<<>>, places)
  BY <1>1, ExcerptBegins
<1> QED BY <1>1, <1>2 DEF Begun

\* What is appended to the list is appended to its excerpt, or is not in it.
LEMMA ExcerptGrows ==
    ASSUME NEW S, NEW list \in Seq(S), NEW x \in S, NEW P, NEW Q,
           \A i \in 1..Len(list) : i \in P <=> i \in Q
    PROVE  Excerpt(Append(list, x), Q)
             = IF Len(list) + 1 \in Q THEN Append(Excerpt(list, P), x) ELSE Excerpt(list, P)
<1>1. PICK n \in Nat : n = Len(list)  BY LenProperties
<1>2. PICK longer \in Seq(S) : longer = Append(list, x)  BY AppendProperties
<1>3. /\ Len(longer) = n + 1 /\ longer[n + 1] = x
      /\ \A i \in 1..n : longer[i] = list[i]
  BY <1>1, <1>2, AppendProperties
<1>4. PICK f : Begun(list, P, f) /\ f[n] = Excerpt(list, P)  BY <1>1, ExcerptBegins
<1>5. PICK g : Begun(longer, Q, g) /\ g[n + 1] = Excerpt(longer, Q)
  BY <1>3, ExcerptBegins
<1>6. f[n] = g[n]
  <2>1. n + 1 \in Nat /\ n <= n + 1 /\ n <= n  OBVIOUS
  <2> QED BY <1>1, <1>3, <1>4, <1>5, <2>1, BeginningsAgree
<1>7. g[n + 1] = IF n + 1 \in Q THEN Append(g[n], longer[n + 1]) ELSE g[n]
  <2>1. n + 1 \in 1..Len(longer) /\ (n + 1) - 1 = n  BY <1>3
  <2> QED BY <1>5, <2>1 DEF Begun
<1> QED BY <1>1, <1>2, <1>3, <1>4, <1>5, <1>6, <1>7

\* What an excerpt is made of.
Chosen(list, places) == {list[i] : i \in {j \in 1..Len(list) : j \in places}}

LEMMA BeginningsChoose ==
    ASSUME NEW list, NEW P, NEW f, Begun(list, P, f), NEW n \in Nat, Len(list) \in Nat,
           n <= Len(list)
    PROVE  f[n] \in Seq(Chosen(list, P))
<1> DEFINE T == {i \in Nat : i <= n => f[i] \in Seq(Chosen(list, P))}
<1>1. 0 \in T
  <2>1. f[0] = <<>>  BY DEF Begun
  <2> QED BY <2>1, EmptySeq
<1>2. ASSUME NEW i \in Nat, i \in T PROVE i + 1 \in T
  <2> SUFFICES ASSUME i + 1 <= n PROVE f[i + 1] \in Seq(Chosen(list, P))
    OBVIOUS
  <2>1. PICK j \in 1..Len(list) : j = i + 1 /\ j - 1 = i  OBVIOUS
  <2>2. f[j - 1] \in Seq(Chosen(list, P))  BY <1>2, <2>1
  <2>3. f[j] = IF j \in P THEN Append(f[j - 1], list[j]) ELSE f[j - 1]
    BY <2>1 DEF Begun
  <2>4. j \in P => list[j] \in Chosen(list, P)  BY <2>1 DEF Chosen
  <2>5. j \in P => Append(f[j - 1], list[j]) \in Seq(Chosen(list, P))
    BY <2>2, <2>4, AppendProperties
  <2> QED BY <2>1, <2>2, <2>3, <2>5
<1>3. n \in T
  <2> HIDE DEF T
  <2> QED BY <1>1, <1>2, SetInduction
<1> QED BY <1>3

LEMMA ExcerptChooses ==
    ASSUME NEW S, NEW list \in Seq(S), NEW places
    PROVE  Excerpt(list, places) \in Seq(Chosen(list, places))
<1>1. PICK f : Begun(list, places, f) /\ f[Len(list)] = Excerpt(list, places)  BY ExcerptBegins
<1>2. PICK n \in Nat : n = Len(list) /\ n <= n  BY LenProperties
<1>3. f[n] \in Seq(Chosen(list, places))  BY <1>1, <1>2, BeginningsChoose
<1> QED BY <1>1, <1>2, <1>3

\* Nothing is taken from no place.
LEMMA ExcerptNowhere ==
    ASSUME NEW S, NEW list \in Seq(S), NEW places, \A i \in 1..Len(list) : i \notin places
    PROVE  Excerpt(list, places) = <<>>
<1>1. Chosen(list, places) = {}  BY DEF Chosen
<1>2. PICK e \in Seq({}) : e = Excerpt(list, places)  BY <1>1, ExcerptChooses
<1>3. PICK n \in Nat : n = Len(e)  BY LenProperties
<1>4. n = 0
  <2> SUFFICES ASSUME n # 0 PROVE FALSE
    OBVIOUS
  <2>1. 1 \in 1..n  BY <1>3
  <2>2. e[1] \in {}  BY <1>3, <2>1, ElementOfSeq
  <2> QED BY <2>2
<1>5. e = <<>>  BY <1>3, <1>4, EmptySeq
<1> QED BY <1>2, <1>5

\* An excerpt taken from a first and a later part of the list.
LEMMA ExcerptSplits ==
    ASSUME NEW S, NEW list \in Seq(S), NEW P, NEW Q, NEW R, NEW a \in Nat,
           \A i \in P : i \in Nat /\ i <= a, \A i \in Q : i \in Nat /\ a < i,
           \A i \in 1..Len(list) : i \in R <=> i \in P \/ i \in Q
    PROVE  Excerpt(list, R) = Excerpt(list, P) \o Excerpt(list, Q)
<1>1. PICK f : Begun(list, P, f) /\ f[Len(list)] = Excerpt(list, P)  BY ExcerptBegins
<1>2. PICK g : Begun(list, Q, g) /\ g[Len(list)] = Excerpt(list, Q)  BY ExcerptBegins
<1>3. PICK h : Begun(list, R, h) /\ h[Len(list)] = Excerpt(list, R)  BY ExcerptBegins
<1>4. PICK L \in Nat : L = Len(list) /\ L <= L  BY LenProperties
<1>5. ASSUME NEW n \in Nat, n <= L PROVE f[n] \in Seq(S) /\ g[n] \in Seq(S)
  <2>1. f[n] \in Seq(Chosen(list, P)) /\ g[n] \in Seq(Chosen(list, Q))
    BY <1>1, <1>2, <1>4, <1>5, BeginningsChoose
  <2>2. Chosen(list, P) \subseteq S /\ Chosen(list, Q) \subseteq S
    BY ElementOfSeq DEF Chosen
  <2> QED BY <2>1, <2>2, SeqMonotonic
<1> DEFINE Halves(n) == h[n] = f[n] \o g[n] /\ (n <= a => g[n] = <<>>)
           T == {n \in Nat : n <= L => Halves(n)}
<1>6. 0 \in T
  <2>1. f[0] = <<>> /\ g[0] = <<>> /\ h[0] = <<>>  BY <1>1, <1>2, <1>3 DEF Begun
  <2>2. <<>> \in Seq(S)  BY EmptySeq
  <2>3. <<>> \o <<>> = <<>>  BY <2>2, ConcatEmptySeq
  <2>4. Halves(0)  BY <2>1, <2>3
  <2> HIDE DEF Halves
  <2> QED BY <2>4
<1>7. ASSUME NEW n \in Nat, n \in T PROVE n + 1 \in T
  <2> HIDE DEF Halves
  <2> SUFFICES ASSUME n + 1 <= L PROVE Halves(n + 1)
    OBVIOUS
  <2>0. n <= L /\ Halves(n)  BY <1>7
  <2> USE DEF Halves
  <2>1. PICK j \in 1..L : j = n + 1 /\ j - 1 = n  OBVIOUS
  <2>2. /\ f[j] = IF j \in P THEN Append(f[n], list[j]) ELSE f[n]
        /\ g[j] = IF j \in Q THEN Append(g[n], list[j]) ELSE g[n]
        /\ h[j] = IF j \in R THEN Append(h[n], list[j]) ELSE h[n]
    BY <1>1, <1>2, <1>3, <1>4, <2>1 DEF Begun
  <2>3. n <= L /\ h[n] = f[n] \o g[n] /\ (n <= a => g[n] = <<>>)  BY <2>0
  <2>4. j \in R <=> j \in P \/ j \in Q  BY <1>4, <2>1
  <2>5. PICK x \in Seq(S), y \in Seq(S) : x = f[n] /\ y = g[n]  BY <1>5, <2>3
  <2>6. PICK v \in S : v = list[j]  BY <1>4, <2>1, ElementOfSeq
  <2>7. CASE j \in P
    <3>1. j <= a /\ n <= a /\ j \notin Q  BY <2>1, <2>7
    <3>2. y = <<>>  BY <2>3, <2>5, <3>1
    <3>3. f[j] = Append(x, v) /\ g[j] = <<>> /\ h[j] = Append(x \o y, v)
      BY <2>2, <2>3, <2>4, <2>5, <2>6, <2>7, <3>1, <3>2
    <3>4. Append(x, v) \in Seq(S)  BY AppendProperties
    <3>5. x \o y = x /\ Append(x, v) \o <<>> = Append(x, v)
      BY <3>2, <3>4, ConcatEmptySeq
    <3> QED BY <2>1, <3>3, <3>5
  <2>8. CASE j \in Q
    <3>1. a < j /\ j \notin P  BY <2>1, <2>8
    <3>2. f[j] = x /\ g[j] = Append(y, v) /\ h[j] = Append(x \o y, v)
      BY <2>2, <2>3, <2>4, <2>5, <2>6, <2>8, <3>1
    <3>3. Append(x \o y, v) = x \o Append(y, v)
      BY ONLY x \in Seq(S), y \in Seq(S), v \in S
    <3> QED BY <2>1, <3>1, <3>2, <3>3
  <2>9. CASE j \notin P /\ j \notin Q
    <3>1. j <= a => n <= a  BY <2>1
    <3> QED BY <2>1, <2>2, <2>3, <2>4, <2>9, <3>1
  <2> QED BY <2>7, <2>8, <2>9
<1>8. L \in T
  <2> HIDE DEF T
  <2> QED BY <1>6, <1>7, SetInduction
<1> QED BY <1>1, <1>2, <1>3, <1>4, <1>8

-----------------------------------------------------------------------------
\* A list's excerpt has everything at the places chosen, and nothing twice if
\* the list has nothing twice.
Distinct(list) == \A i, j \in 1..Len(list) : list[i] = list[j] => i = j
InList(list, x) == \E i \in 1..Len(list) : list[i] = x

LEMMA AppendHolds ==
    ASSUME NEW S, NEW list \in Seq(S), NEW x \in S, NEW y
    PROVE  InList(Append(list, x), y) <=> InList(list, y) \/ y = x
<1>1. PICK n \in Nat : n = Len(list)  BY LenProperties
<1>2. PICK longer \in Seq(S) : longer = Append(list, x)  BY AppendProperties
<1>3. Len(longer) = n + 1 /\ longer[n + 1] = x /\ \A i \in 1..n : longer[i] = list[i]
  BY <1>1, <1>2, AppendProperties
<1>4. ASSUME InList(list, y) PROVE InList(longer, y)
  <2>1. PICK i \in 1..n : list[i] = y  BY <1>1, <1>4 DEF InList
  <2>2. i \in 1..Len(longer) /\ longer[i] = y  BY <1>3, <2>1
  <2> QED BY <2>2 DEF InList
<1>5. ASSUME y = x PROVE InList(longer, y)
  <2>1. n + 1 \in 1..Len(longer)  BY <1>3
  <2> QED BY <1>3, <1>5, <2>1 DEF InList
<1>6. ASSUME InList(longer, y) PROVE InList(list, y) \/ y = x
  <2>1. PICK i \in 1..(n + 1) : longer[i] = y  BY <1>3, <1>6 DEF InList
  <2>2. CASE i = n + 1  BY <1>3, <2>1, <2>2
  <2>3. CASE i # n + 1
    <3>1. i \in 1..n  BY <2>3
    <3> QED BY <1>1, <1>3, <2>1, <3>1 DEF InList
  <2> QED BY <2>2, <2>3
<1> QED BY <1>2, <1>4, <1>5, <1>6

LEMMA AppendDistinct ==
    ASSUME NEW S, NEW list \in Seq(S), NEW x \in S, Distinct(list), ~InList(list, x)
    PROVE  Distinct(Append(list, x))
<1>1. PICK n \in Nat : n = Len(list)  BY LenProperties
<1>2. PICK longer \in Seq(S) : longer = Append(list, x)  BY AppendProperties
<1>3. Len(longer) = n + 1 /\ longer[n + 1] = x /\ \A i \in 1..n : longer[i] = list[i]
  BY <1>1, <1>2, AppendProperties
<1>4. \A i \in 1..n : longer[i] # x  BY <1>1, <1>3 DEF InList
<1>5. \A i, j \in 1..n : longer[i] = longer[j] => i = j  BY <1>1, <1>3 DEF Distinct
<1>6. \A i \in 1..(n + 1) : i = n + 1 \/ i \in 1..n  OBVIOUS
<1>7. \A i, j \in 1..(n + 1) : longer[i] = longer[j] => i = j
  BY <1>3, <1>4, <1>5, <1>6
<1> QED BY <1>2, <1>3, <1>7 DEF Distinct

\* What is chosen of the first n.
HoldsChosen(part, S, list, P, n) ==
    /\ part \in Seq(S) /\ Distinct(part)
    /\ \A x : InList(part, x) <=> \E i \in 1..n : i \in P /\ list[i] = x

LEMMA BeginningsHold ==
    ASSUME NEW S, NEW list \in Seq(S), NEW P, NEW f, Begun(list, P, f), Distinct(list),
           NEW n \in Nat, n <= Len(list)
    PROVE  HoldsChosen(f[n], S, list, P, n)
<1>1. PICK L \in Nat : L = Len(list)  BY LenProperties
<1> DEFINE Right(i) == /\ f[i] \in Seq(S) /\ Distinct(f[i])
                       /\ \A x : InList(f[i], x) <=> \E j \in 1..i : j \in P /\ list[j] = x
           T == {i \in Nat : i <= n => Right(i)}
<1>2. Right(0)
  <2>1. f[0] = <<>>  BY DEF Begun
  <2>2. <<>> \in Seq(S) /\ Len(<<>>) = 0  BY EmptySeq
  <2>3. 1..0 = {}  OBVIOUS
  <2> QED BY <2>1, <2>2, <2>3 DEF Distinct, InList
<1>3. ASSUME NEW i \in Nat, i + 1 <= n, Right(i) PROVE Right(i + 1)
  <2>1. PICK j \in 1..L : j = i + 1 /\ j - 1 = i  BY <1>1, <1>3
  <2>2. f[j] = IF j \in P THEN Append(f[i], list[j]) ELSE f[i]  BY <1>1, <2>1 DEF Begun
  <2>3. PICK x \in S : x = list[j]  BY <1>1, <2>1, ElementOfSeq
  <2>4. PICK b \in Seq(S) : b = f[i]  BY <1>3
  <2>5. \A y : InList(b, y) <=> \E k \in 1..i : k \in P /\ list[k] = y  BY <1>3, <2>4
  <2>6. ~InList(b, x)
    <3> SUFFICES ASSUME NEW k \in 1..i, list[k] = x PROVE FALSE
      BY <2>5
    <3>1. k \in 1..L /\ k # j  BY <1>1, <1>3, <2>1
    <3> QED BY <1>1, <2>1, <2>3, <3>1 DEF Distinct
  <2>7. \A k \in 1..j : k = j \/ k \in 1..i  BY <2>1
  <2>8. \A k \in 1..i : k \in 1..j  BY <2>1
  <2>9. CASE j \in P
    <3>1. f[j] = Append(b, x)  BY <2>2, <2>3, <2>4, <2>9
    <3>2. f[j] \in Seq(S)  BY <3>1, AppendProperties
    <3>3. Distinct(f[j])  BY <1>3, <2>4, <2>6, <3>1, AppendDistinct
    <3>4. \A y : InList(f[j], y) <=> InList(b, y) \/ y = x  BY <3>1, AppendHolds
    <3>5. \A y : InList(f[j], y) <=> \E k \in 1..j : k \in P /\ list[k] = y
      <4> SUFFICES ASSUME NEW y
                   PROVE  InList(f[j], y) <=> \E k \in 1..j : k \in P /\ list[k] = y
        OBVIOUS
      <4>1. ASSUME NEW k \in 1..j, k \in P, list[k] = y PROVE InList(b, y) \/ y = x
        BY <2>3, <2>5, <2>7, <4>1
      <4>2. ASSUME InList(b, y) PROVE \E k \in 1..j : k \in P /\ list[k] = y
        BY <2>5, <2>8, <4>2
      <4>3. j \in 1..j  BY <2>1
      <4> QED BY <2>3, <2>9, <3>4, <4>1, <4>2, <4>3
    <3> QED BY <2>1, <3>2, <3>3, <3>5
  <2>10. CASE j \notin P
    <3>1. f[j] = b  BY <2>2, <2>4, <2>10
    <3>2. \A y : InList(f[j], y) <=> \E k \in 1..j : k \in P /\ list[k] = y
      BY <2>5, <2>7, <2>8, <2>10, <3>1
    <3> QED BY <1>3, <2>1, <2>4, <3>1, <3>2
  <2> QED BY <2>9, <2>10
<1>4. n \in T
  <2> HIDE DEF Right
  <2>1. 0 \in T  BY <1>2
  <2>2. ASSUME NEW i \in Nat, i \in T PROVE i + 1 \in T
    BY <1>3, <2>2
  <2> HIDE DEF T
  <2> QED BY <2>1, <2>2, SetInduction
<1> QED BY <1>4 DEF HoldsChosen

\* An excerpt of distinct things.
LEMMA ExcerptHolds ==
    ASSUME NEW S, NEW list \in Seq(S), NEW P, Distinct(list)
    PROVE  /\ Excerpt(list, P) \in Seq(S) /\ Distinct(Excerpt(list, P))
           /\ \A x : InList(Excerpt(list, P), x) <=> \E i \in 1..Len(list) : i \in P /\ list[i] = x
<1>1. PICK f : Begun(list, P, f) /\ f[Len(list)] = Excerpt(list, P)  BY ExcerptBegins
<1>2. PICK n \in Nat : n = Len(list) /\ n <= n  BY LenProperties
<1>3. HoldsChosen(f[n], S, list, P, n)  BY <1>1, <1>2, BeginningsHold
<1> QED BY <1>1, <1>2, <1>3 DEF HoldsChosen
=============================================================================
