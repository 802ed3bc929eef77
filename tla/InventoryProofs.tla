--------------------------- MODULE InventoryProofs ---------------------------
(***************************************************************************)
(* Theorems about Inventory and about Shell, which composes it with the    *)
(* application's windows: for every set of URLs, every capacity of the     *)
(* ring, every number of pages, scripts and clicks. And about SourceMaps,  *)
(* for every number of sources, authored files and tokens: what the        *)
(* resolver's indexes lead to.                                             *)
(***************************************************************************)
EXTENDS Shell, SourceMaps, ExcerptProofs, FiniteSetTheorems, SequenceTheorems, TLAPS

\* The resource tree is read off a finite page.
Shape == TypeOK /\ IsFiniteSet(tree)

\* Before the host subscribes nothing is on its way and no script id is known.
Phases ==
    /\ host # "new" => enabled
    /\ host # "subscribed" =>
         /\ ring = <<>>
         /\ DOMAIN byScript = {}
         /\ \A i \in Ids : entries[i].script = NoScript

\* What the ring r holds of page p, whose scripts are l: it is true of the page,
\* it was not missed, it comes after all that is of earlier pages, and in the
\* order of its ids.
RingIsTrue(r, m, l, p) ==
    /\ \A j \in 1..Len(r) : r[j].page <= p
    /\ \A j \in 1..Len(r) : r[j].page = p =>
         r[j].script \in DOMAIN l \ m /\ l[r[j].script] = r[j].url
    /\ \A i, j \in 1..Len(r) : (i < j /\ r[i].page = p) =>
         r[j].page = p /\ r[i].script < r[j].script

\* What is not missed is still in the ring; or all the ring holds was parsed
\* later, and it is listed, or was replaced by another script of the same URL.
Held(s, r, p) == \E j \in 1..Len(r) : r[j].page = p /\ r[j].script = s
Passed(s, r, p) == \A j \in 1..Len(r) : r[j].page = p /\ r[j].script > s
Listed(s, l, es) == \E i \in 1..Len(es) : es[i].script = s /\ es[i].url = l[s]
Replaced(s, r, m, l, p) ==
    /\ l[s] # NoUrl
    /\ \E t \in DOMAIN l \ m : t > s /\ l[t] = l[s] /\ ~Held(t, r, p)
NothingLost(r, m, l, p, es) ==
    \A s \in DOMAIN l \ m :
        \/ Held(s, r, p)
        \/ Passed(s, r, p) /\ (Listed(s, l, es) \/ Replaced(s, r, m, l, p))

\* On the first page every id is its bearer's own, and older than what is on its
\* way.
FirstPage ==
    page = 0 => \A i \in Ids : entries[i].script # NoScript =>
        /\ entries[i].script \in DOMAIN loaded
        /\ loaded[entries[i].script] = entries[i].url
        /\ \A j \in 1..Len(ring) : entries[i].script < ring[j].script

InventoryInv ==
    /\ Shape
    /\ Phases
    /\ IndexesAgree
    /\ RingIsTrue(ring, missed, loaded, page)
    /\ host = "subscribed" => NothingLost(ring, missed, loaded, page, entries)
    /\ FirstPage

-----------------------------------------------------------------------------
(* The ring *)

\* An event's fields.
LEMMA EventShape ==
    ASSUME NEW e \in Events
    PROVE  /\ e.page \in Nat /\ e.script \in ScriptIds /\ e.url \in Urls \cup {NoUrl}
           /\ e = [page |-> e.page, script |-> e.script, url |-> e.url]
BY DEF Events

\* A ring without its oldest event.
LEMMA RingTail ==
    ASSUME NEW r \in Seq(Events), r # <<>>
    PROVE  \E n \in Nat :
            /\ Len(r) = n + 1 /\ Len(Tail(r)) = n /\ Tail(r) \in Seq(Events)
            /\ Head(r) = r[1] /\ r[1] \in Events
            /\ \A j \in 1..n : j + 1 \in 1..Len(r) /\ Tail(r)[j] = r[j + 1]
<1>1. Len(r) \in Nat /\ Len(r) # 0  BY EmptySeq, LenProperties
<1>2. PICK n \in Nat : n = Len(r) - 1
  <2>1. Len(r) - 1 \in Nat  BY <1>1
  <2> QED BY <2>1
<1>3. /\ Tail(r) \in Seq(Events) /\ Len(Tail(r)) = n /\ Head(r) = r[1] /\ r[1] \in Events
      /\ \A j \in 1..n : Tail(r)[j] = r[j + 1]
  BY <1>1, <1>2, HeadTailProperties
<1>4. Len(r) = n + 1 /\ \A j \in 1..n : j + 1 \in 1..Len(r)  BY <1>1, <1>2
<1> WITNESS n \in Nat
<1> QED BY <1>3, <1>4

\* An event at its end leaves the others where they are.
LEMMA RingAppend ==
    ASSUME NEW r \in Seq(Events), NEW e \in Events
    PROVE  /\ Append(r, e) \in Seq(Events) /\ Len(Append(r, e)) = Len(r) + 1 /\ Len(r) \in Nat
           /\ \A j \in 1..Len(r) : Append(r, e)[j] = r[j]
           /\ Append(r, e)[Len(r) + 1] = e
BY AppendProperties, LenProperties

\* The oldest event is overwritten: its script is missed, if it is of this page.
LEMMA RingOverwrites ==
    ASSUME NEW r \in Seq(Events), r # <<>>, NEW l \in Seq(Urls \cup {NoUrl}), NEW p \in Nat,
           NEW m, NEW es, RingIsTrue(r, m, l, p),
           NEW m2, m2 = m \cup {s \in DOMAIN l : Head(r) = [page |-> p, script |-> s, url |-> l[s]]}
    PROVE  /\ RingIsTrue(Tail(r), m2, l, p)
           /\ NothingLost(r, m, l, p, es) => NothingLost(Tail(r), m2, l, p, es)
<1>1. PICK n \in Nat :
        /\ Len(r) = n + 1 /\ Len(Tail(r)) = n /\ Tail(r) \in Seq(Events)
        /\ Head(r) = r[1] /\ r[1] \in Events
        /\ \A j \in 1..n : j + 1 \in 1..Len(r) /\ Tail(r)[j] = r[j + 1]
  BY RingTail
<1> DEFINE q == Tail(r)
<1>2. \A s \in DOMAIN l : s \in m2 <=> s \in m \/ (r[1].page = p /\ r[1].script = s)
  <2>1. r[1] = [page |-> r[1].page, script |-> r[1].script, url |-> r[1].url]
    BY <1>1, EventShape
  <2>2. 1 \in 1..Len(r)  BY <1>1
  <2>3. r[1].page = p => l[r[1].script] = r[1].url  BY <2>2 DEF RingIsTrue
  <2> TAKE s \in DOMAIN l
  <2>4. ASSUME r[1] = [page |-> p, script |-> s, url |-> l[s]]
        PROVE  r[1].page = p /\ r[1].script = s
    BY <2>4
  <2>5. ASSUME r[1].page = p, r[1].script = s
        PROVE  r[1] = [page |-> p, script |-> s, url |-> l[s]]
    BY <2>1, <2>3, <2>5
  <2> QED BY <1>1, <2>4, <2>5
<1>3. \A j \in 1..n : q[j] = r[j + 1] /\ 1 < j + 1 /\ 1 \in 1..Len(r)
  BY <1>1
<1>4. RingIsTrue(q, m2, l, p)
  <2>1. ASSUME NEW j \in 1..n PROVE q[j].page <= p
    BY <1>1 DEF RingIsTrue
  <2>2. ASSUME NEW j \in 1..n, q[j].page = p
        PROVE  q[j].script \in DOMAIN l \ m2 /\ l[q[j].script] = q[j].url
    <3>1. r[j + 1].script \in DOMAIN l \ m /\ l[r[j + 1].script] = r[j + 1].url
      BY <1>1, <2>2 DEF RingIsTrue
    <3>2. r[1].page = p => r[1].script < r[j + 1].script
      BY <1>1, <1>3 DEF RingIsTrue
    <3>3. r[1].script \in Nat /\ r[j + 1].script \in Nat
      <4>1. r[1] \in Events /\ r[j + 1] \in Events  BY <1>1, ElementOfSeq
      <4>2. r[1].script \in ScriptIds /\ r[j + 1].script \in ScriptIds  BY <4>1, EventShape
      <4> QED BY <4>2, InventoryConstants DEF ScriptIds
    <3>4. r[j + 1].script \notin m2  BY <1>2, <3>1, <3>2, <3>3
    <3>5. q[j] = r[j + 1]  BY <1>1
    <3> HIDE DEF q
    <3> QED BY <3>1, <3>4, <3>5
  <2>3. ASSUME NEW i \in 1..n, NEW j \in 1..n, i < j, q[i].page = p
        PROVE  q[j].page = p /\ q[i].script < q[j].script
    <3>1. i + 1 \in 1..Len(r) /\ j + 1 \in 1..Len(r) /\ i + 1 < j + 1  BY <1>1, <2>3
    <3>2. q[i] = r[i + 1] /\ q[j] = r[j + 1]  BY <1>1
    <3> QED BY <2>3, <3>1, <3>2 DEF RingIsTrue
  <2> HIDE DEF q
  <2> QED BY <1>1, <2>1, <2>2, <2>3 DEF RingIsTrue, q
<1>5. \A t : Held(t, q, p) => Held(t, r, p)
  <2> SUFFICES ASSUME NEW t, NEW j \in 1..n, q[j].page = p, q[j].script = t PROVE Held(t, r, p)
    BY <1>1 DEF Held
  <2> QED BY <1>1 DEF Held
<1>6. ASSUME NothingLost(r, m, l, p, es) PROVE NothingLost(q, m2, l, p, es)
  <2> SUFFICES ASSUME NEW s \in DOMAIN l \ m2
               PROVE  \/ Held(s, q, p)
                      \/ Passed(s, q, p) /\ (Listed(s, l, es) \/ Replaced(s, q, m2, l, p))
    BY DEF NothingLost
  <2>1. s \in DOMAIN l \ m /\ ~(r[1].page = p /\ r[1].script = s)  BY <1>2
  <2>2. CASE Held(s, r, p)
    <3>1. PICK j \in 1..Len(r) : r[j].page = p /\ r[j].script = s  BY <2>2 DEF Held
    <3>2. j - 1 \in 1..n /\ (j - 1) + 1 = j  BY <1>1, <2>1, <3>1
    <3>3. q[j - 1] = r[j]  BY <1>1, <3>2
    <3> QED BY <1>1, <3>1, <3>2, <3>3 DEF Held
  <2>3. CASE Passed(s, r, p) /\ (Listed(s, l, es) \/ Replaced(s, r, m, l, p))
    <3>1. Passed(s, q, p)
      <4>1. ASSUME NEW j \in 1..n PROVE q[j].page = p /\ q[j].script > s
        BY <1>1, <2>3 DEF Passed
      <4> QED BY <1>1, <4>1 DEF Passed
    <3>2. ASSUME Replaced(s, r, m, l, p) PROVE Replaced(s, q, m2, l, p)
      <4>1. PICK t \in DOMAIN l \ m : t > s /\ l[t] = l[s] /\ ~Held(t, r, p)
        BY <3>2 DEF Replaced
      <4>2. ~(r[1].page = p /\ r[1].script = t)  BY <1>1, <1>3, <4>1 DEF Held
      <4>3. t \in DOMAIN l \ m2 /\ ~Held(t, q, p)  BY <1>2, <1>5, <4>1, <4>2
      <4> QED BY <3>2, <4>1, <4>3 DEF Replaced
    <3> QED BY <2>3, <3>1, <3>2
  <2> QED BY <1>6, <2>1, <2>2, <2>3 DEF NothingLost
<1> QED BY <1>4, <1>6

\* The page's next script is announced: its id is above all others.
LEMMA RingHears ==
    ASSUME NEW r \in Seq(Events), NEW l \in Seq(Urls \cup {NoUrl}), NEW p \in Nat,
           NEW m \in SUBSET (DOMAIN l), NEW es, RingIsTrue(r, m, l, p), NEW u \in Urls \cup {NoUrl},
           NEW e \in Events, e = [page |-> p, script |-> Len(l) + 1, url |-> u]
    PROVE  /\ RingIsTrue(Append(r, e), m, Append(l, u), p)
           /\ NothingLost(r, m, l, p, es) => NothingLost(Append(r, e), m, Append(l, u), p, es)
<1> DEFINE q == Append(r, e)
           k == Append(l, u)
<1>0. PICK n \in Nat : n = Len(r)  BY LenProperties
<1>1. PICK z \in Nat : z = Len(l)  BY LenProperties
<1>2. /\ Len(q) = n + 1 /\ q[n + 1] = e
      /\ \A j \in 1..n : q[j] = r[j]
      /\ \A j \in 1..(n + 1) : j = n + 1 \/ j \in 1..n
      /\ \A j \in 1..n : j \in 1..(n + 1)
  <2>1. Len(q) = n + 1 /\ q[n + 1] = e /\ \A j \in 1..n : q[j] = r[j]
    BY <1>0, RingAppend
  <2> HIDE DEF q
  <2> QED BY <2>1
<1>3. /\ DOMAIN l = 1..z /\ DOMAIN k = 1..(z + 1) /\ k[z + 1] = u
      /\ \A s \in 1..z : k[s] = l[s]
  BY <1>1, AppendProperties, LenProperties
<1>4. e.page = p /\ e.script = z + 1 /\ e.url = u  BY <1>1
<1>5. z + 1 \notin m  BY <1>1, <1>3
<1> HIDE DEF q, k
<1>6. RingIsTrue(q, m, k, p)
  <2>1. ASSUME NEW j \in 1..(n + 1) PROVE q[j].page <= p
    BY <1>0, <1>2, <1>4 DEF RingIsTrue
  <2>2. ASSUME NEW j \in 1..(n + 1), q[j].page = p
        PROVE  q[j].script \in DOMAIN k \ m /\ k[q[j].script] = q[j].url
    <3>1. CASE j = n + 1  BY <3>1, <1>2, <1>3, <1>4, <1>5
    <3>2. CASE j \in 1..n
      <4>1. r[j].script \in DOMAIN l \ m /\ l[r[j].script] = r[j].url
        BY <3>2, <2>2, <1>0, <1>2 DEF RingIsTrue
      <4> QED BY <3>2, <4>1, <1>2, <1>3
    <3> QED BY <3>1, <3>2, <1>2
  <2>3. ASSUME NEW i \in 1..(n + 1), NEW j \in 1..(n + 1), i < j, q[i].page = p
        PROVE  q[j].page = p /\ q[i].script < q[j].script
    <3>1. i \in 1..n  BY <2>3, <1>2
    <3>2. CASE j = n + 1
      <4>1. r[i].script \in DOMAIN l  BY <3>1, <2>3, <1>0, <1>2 DEF RingIsTrue
      <4> QED BY <3>1, <3>2, <4>1, <1>2, <1>3, <1>4
    <3>3. CASE j \in 1..n  BY <3>1, <3>3, <2>3, <1>0, <1>2 DEF RingIsTrue
    <3> QED BY <3>2, <3>3, <1>2
  <2> QED BY <1>2, <2>1, <2>2, <2>3 DEF RingIsTrue
<1>7. ASSUME NEW t \in 1..z PROVE Held(t, q, p) <=> Held(t, r, p)
  <2>1. ASSUME Held(t, q, p) PROVE Held(t, r, p)
    <3>1. PICK j \in 1..(n + 1) : q[j].page = p /\ q[j].script = t  BY <2>1, <1>2 DEF Held
    <3>2. j # n + 1  BY <3>1, <1>2, <1>4
    <3> QED BY <3>1, <3>2, <1>0, <1>2 DEF Held
  <2>2. ASSUME Held(t, r, p) PROVE Held(t, q, p)
    <3>1. PICK j \in 1..n : r[j].page = p /\ r[j].script = t  BY <2>2, <1>0 DEF Held
    <3> QED BY <3>1, <1>2 DEF Held
  <2> QED BY <2>1, <2>2
<1>8. ASSUME NothingLost(r, m, l, p, es) PROVE NothingLost(q, m, k, p, es)
  <2> SUFFICES ASSUME NEW s \in DOMAIN k \ m
               PROVE  \/ Held(s, q, p)
                      \/ Passed(s, q, p) /\ (Listed(s, k, es) \/ Replaced(s, q, m, k, p))
    BY DEF NothingLost
  <2>1. CASE s = z + 1
    <3>1. n + 1 \in 1..Len(q)  BY <1>2
    <3> QED BY <2>1, <3>1, <1>2, <1>4 DEF Held
  <2>2. CASE s \in 1..z
    <3>1. CASE Held(s, r, p)  BY <2>2, <3>1, <1>7
    <3>2. CASE Passed(s, r, p) /\ (Listed(s, l, es) \/ Replaced(s, r, m, l, p))
      <4>1. Passed(s, q, p)
        <5>1. ASSUME NEW j \in 1..(n + 1) PROVE q[j].page = p /\ q[j].script > s
          BY <2>2, <3>2, <1>0, <1>2, <1>4 DEF Passed
        <5> QED BY <5>1, <1>2 DEF Passed
      <4>2. Listed(s, l, es) => Listed(s, k, es)  BY <2>2, <1>3 DEF Listed
      <4>3. ASSUME Replaced(s, r, m, l, p) PROVE Replaced(s, q, m, k, p)
        <5>1. PICK t \in DOMAIN l \ m : t > s /\ l[t] = l[s] /\ ~Held(t, r, p)
          BY <4>3 DEF Replaced
        <5>2. t \in DOMAIN k \ m /\ k[t] = k[s] /\ k[s] # NoUrl /\ ~Held(t, q, p)
          BY <2>2, <4>3, <5>1, <1>3, <1>7 DEF Replaced
        <5> QED BY <5>1, <5>2 DEF Replaced
      <4> QED BY <3>2, <4>1, <4>2, <4>3
    <3> QED BY <1>8, <2>2, <3>1, <3>2, <1>3 DEF NothingLost
  <2> QED BY <2>1, <2>2, <1>3
<1> QED BY <1>6, <1>8 DEF q, k

-----------------------------------------------------------------------------
(* The operators *)

\* What scriptParsed does to the inventory: one entry, new or the URL's own, is
\* the script's; the index forgets the id it had before.
Lists(s, u, id) ==
    /\ id \in 1..Len(entries')
    /\ entries' \in Seq(Entry)
    /\ entries'[id] = [url |-> u, script |-> s, kind |-> "script"]
    /\ \A i \in Ids : i # id => entries'[i] = entries[i]
    /\ id \in Ids =>
         /\ Len(entries') = Len(entries)
         /\ u \in DOMAIN byUrl /\ byUrl[u] = id /\ entries[id].url = u
         /\ byUrl' = byUrl
         /\ DOMAIN byScript' = {s} \cup (DOMAIN byScript \ {entries[id].script})
    /\ id \notin Ids =>
         /\ id = Len(entries) + 1 /\ Len(entries') = id
         /\ u \notin DOMAIN byUrl
         /\ byUrl' = IF u = NoUrl THEN byUrl ELSE Put(byUrl, u, id)
         /\ DOMAIN byScript' = {s} \cup DOMAIN byScript
    /\ byScript'[s] = id
    /\ \A t \in DOMAIN byScript' : t # s => byScript'[t] = byScript[t]

LEMMA ScriptIsListed ==
    ASSUME TypeOK, IndexesAgree,
           NEW s \in ScriptIds, NEW u \in Urls \cup {NoUrl},
           ScriptParsed(s, u)
    PROVE  \E id \in 1..Len(entries') : Lists(s, u, id)
<1> DEFINE e == [url |-> u, script |-> s, kind |-> "script"]
<1>0. s # NoScript /\ e \in Entry
  BY InventoryConstants DEF ScriptIds, Entry, Kinds
<1>1. CASE u \in DOMAIN byUrl
  <2> DEFINE id == byUrl[u]
  <2>1. Updates(id, s) /\ id \in 1..Len(entries) /\ Len(entries) \in Nat
    BY <1>1 DEF ScriptParsed, TypeOK, Ids
  <2>2. entries[id].url = u /\ entries[id] \in Entry
    BY <1>1, <2>1, ElementOfSeq DEF IndexesAgree, TypeOK
  <2>3. entries' = [entries EXCEPT ![id] = e]
    BY <2>1, <2>2 DEF Updates
  <2>4. /\ entries' \in Seq(Entry) /\ Len(entries') = Len(entries)
        /\ \A i \in 1..Len(entries) : entries'[i] = IF i = id THEN e ELSE entries[i]
    BY <1>0, <2>1, <2>3, ExceptSeq DEF TypeOK
  <2>5. /\ DOMAIN byScript' = {s} \cup (DOMAIN byScript \ {entries[id].script})
        /\ byScript'[s] = id
        /\ \A t \in DOMAIN byScript' : t # s => byScript'[t] = byScript[t]
    BY <2>1 DEF Updates, Put, Drop
  <2>6. Lists(s, u, id)
    <3> HIDE DEF id
    <3> QED BY <1>1, <2>1, <2>2, <2>4, <2>5 DEF Lists, Ids, Updates, id
  <2> QED BY <2>1, <2>4, <2>6
<1>2. CASE u \notin DOMAIN byUrl
  <2> DEFINE id == Len(entries) + 1
  <2>1. Inserts(e) /\ Len(entries) \in Nat
    BY <1>2 DEF ScriptParsed, TypeOK
  <2>2. /\ entries' \in Seq(Entry) /\ Len(entries') = id
        /\ \A i \in 1..Len(entries) : entries'[i] = entries[i]
        /\ entries'[id] = e
    BY <1>0, <2>1, AppendProperties DEF Inserts, TypeOK
  <2>3. byScript' = Put(byScript, s, id)
        /\ byUrl' = IF u = NoUrl THEN byUrl ELSE Put(byUrl, u, id)
    BY <1>0, <2>1 DEF Inserts
  <2>4. /\ DOMAIN byScript' = {s} \cup DOMAIN byScript
        /\ byScript'[s] = id
        /\ \A t \in DOMAIN byScript' : t # s => byScript'[t] = byScript[t]
    BY <2>3 DEF Put
  <2> QED BY <1>2, <2>1, <2>2, <2>3, <2>4 DEF Lists, Ids
<1> QED BY <1>1, <1>2

\* So the types and the indexes hold on, the last conjunct where the id is new.
LEMMA ListingKeepsIndexes ==
    ASSUME TypeOK, IndexesAgree,
           NEW s \in ScriptIds, NEW u \in Urls \cup {NoUrl}, NEW id, Lists(s, u, id),
           UNCHANGED page,
           page = 0 => s \notin DOMAIN byScript
    PROVE  /\ entries' \in Seq(Entry)
           /\ DOMAIN byUrl' \subseteq Urls /\ \A v \in DOMAIN byUrl' : byUrl'[v] \in Ids'
           /\ DOMAIN byScript' \subseteq ScriptIds
           /\ \A t \in DOMAIN byScript' : byScript'[t] \in Ids'
           /\ IndexesAgree'
<1>0. /\ Len(entries) \in Nat /\ Len(entries') \in Nat /\ id \in 1..Len(entries')
      /\ Ids = 1..Len(entries) /\ Ids' = 1..Len(entries')
      /\ s # NoScript /\ NoUrl \notin Urls
      /\ \A i \in Ids' : i = id \/ (i \in Ids /\ entries'[i] = entries[i])
      /\ Ids \subseteq Ids'
  BY LenProperties, InventoryConstants DEF TypeOK, Lists, Ids, ScriptIds
<1>1. entries' \in Seq(Entry) /\ entries'[id].url = u /\ entries'[id].script = s
  BY DEF Lists
<1>2. DOMAIN byUrl' \subseteq Urls /\ \A v \in DOMAIN byUrl' : byUrl'[v] \in Ids'
  BY <1>0 DEF Lists, Put, TypeOK
<1>3. DOMAIN byScript' \subseteq ScriptIds /\ \A t \in DOMAIN byScript' : byScript'[t] \in Ids'
  BY <1>0 DEF Lists, TypeOK
<1>4. \A i \in Ids' : entries'[i].url # NoUrl =>
        entries'[i].url \in DOMAIN byUrl' /\ byUrl'[entries'[i].url] = i
  <2>1. CASE id \in Ids  BY <2>1, <1>0, <1>1 DEF Lists, IndexesAgree
  <2>2. CASE id \notin Ids
    <3> TAKE i \in Ids'
    <3>1. CASE i = id  BY <2>2, <3>1, <1>0, <1>1 DEF Lists, Put
    <3>2. CASE i # id
      <4>1. i \in Ids /\ entries'[i] = entries[i]  BY <3>2, <1>0
      <4> QED BY <2>2, <4>1 DEF Lists, Put, IndexesAgree
    <3> QED BY <3>1, <3>2
  <2> QED BY <2>1, <2>2
<1>5. \A v \in DOMAIN byUrl' : entries'[byUrl'[v]].url = v
  <2>1. CASE id \in Ids  BY SMTT(30), <2>1, <1>0, <1>1 DEF Lists, IndexesAgree, TypeOK
  <2>2. CASE id \notin Ids
    <3>1. \A v \in DOMAIN byUrl : entries'[byUrl[v]].url = v
      BY <2>2, <1>0 DEF Lists, IndexesAgree, TypeOK
    <3> QED BY <2>2, <3>1, <1>1 DEF Lists, Put
  <2> QED BY <2>1, <2>2
<1>6. \A t \in DOMAIN byScript' : entries'[byScript'[t]].script = t
  <2> TAKE t \in DOMAIN byScript'
  <2>1. CASE t = s  BY <2>1, <1>1 DEF Lists
  <2>2. CASE t # s
    <3>1. t \in DOMAIN byScript /\ byScript'[t] = byScript[t]  BY <2>2 DEF Lists
    <3>2. entries[byScript[t]].script = t /\ byScript[t] \in Ids
      BY <3>1 DEF IndexesAgree, TypeOK
    <3>3. byScript[t] # id  BY <2>2, <3>2 DEF Lists
    <3> QED BY <3>1, <3>2, <3>3 DEF Lists
  <2> QED BY <2>1, <2>2
<1>7. page' = 0 => \A i \in Ids' : entries'[i].script # NoScript =>
        entries'[i].script \in DOMAIN byScript' /\ byScript'[entries'[i].script] = i
  <2> SUFFICES ASSUME page = 0, NEW i \in Ids', entries'[i].script # NoScript
               PROVE  entries'[i].script \in DOMAIN byScript' /\ byScript'[entries'[i].script] = i
    OBVIOUS
  <2>1. CASE i = id
    <3>1. s \in DOMAIN byScript' /\ byScript'[s] = id  BY DEF Lists
    <3> QED BY <2>1, <3>1, <1>1
  <2>2. CASE i # id
    <3>1. i \in Ids /\ entries'[i] = entries[i]  BY <2>2, <1>0
    <3> DEFINE t == entries[i].script
    <3>2. t \in DOMAIN byScript /\ byScript[t] = i  BY <3>1 DEF IndexesAgree
    <3>3. t # s  BY <3>2
    <3>4. id \in Ids => entries[id].script # t
      BY <2>2, <3>1, <3>2 DEF IndexesAgree
    <3>5. t \in DOMAIN byScript'  BY <3>2, <3>4 DEF Lists
    <3> QED BY <3>1, <3>2, <3>3, <3>5 DEF Lists
  <2> QED BY <2>1, <2>2
<1> QED BY <1>1, <1>2, <1>3, <1>4, <1>5, <1>6, <1>7 DEF IndexesAgree

\* The resource tree appends an entry for each URL that has none.
LEMMA TreeIsListed ==
    ASSUME TypeOK, IndexesAgree, NEW urls \in SUBSET Urls, IsFiniteSet(urls),
           ResourceTree(urls), UNCHANGED page
    PROVE  /\ entries' \in Seq(Entry)
           /\ DOMAIN byUrl' \subseteq Urls /\ \A v \in DOMAIN byUrl' : byUrl'[v] \in Ids'
           /\ \A t \in DOMAIN byScript' : byScript'[t] \in Ids'
           /\ \A v \in DOMAIN byUrl : v \in DOMAIN byUrl' /\ byUrl'[v] = byUrl[v]
           /\ \A i \in Ids' : i \notin Ids => entries'[i].script = NoScript /\ entries'[i].url \in Urls
           /\ \A i \in Ids : i \in Ids' /\ entries'[i].url = entries[i].url
                               /\ entries'[i].script = entries[i].script
                               /\ (entries[i].url = NoUrl => entries'[i] = entries[i])
           /\ IndexesAgree'
<1> DEFINE fresh == urls \ DOMAIN byUrl
           n == Cardinality(fresh)
<1>1. n \in Nat
  BY FS_Subset, FS_CardinalityType
<1>2. PICK kinds \in [urls -> Kinds], new \in Bijection(1..n, fresh) :
        /\ entries' =
             [i \in Ids |-> IF entries[i].url \in urls /\ entries[i].kind # "script"
                            THEN [entries[i] EXCEPT !.kind = kinds[entries[i].url]]
                            ELSE entries[i]]
             \o [i \in DOMAIN new |-> [url |-> new[i], script |-> NoScript, kind |-> kinds[new[i]]]]
        /\ byUrl' = [u \in DOMAIN byUrl \cup urls |->
             IF u \in DOMAIN byUrl THEN byUrl[u]
             ELSE Len(entries) + CHOOSE i \in DOMAIN new : new[i] = u]
        /\ UNCHANGED byScript
  BY DEF ResourceTree
<1> HIDE DEF n
<1>3. /\ new \in [1..n -> fresh] /\ DOMAIN new = 1..n
      /\ \A i, j \in 1..n : new[i] = new[j] => i = j
      /\ \A u \in fresh : \E i \in 1..n : new[i] = u
  BY <1>2 DEF Bijection, Injection, Surjection, IsInjective
<1>3a. Len(entries) \in Nat /\ Ids = 1..Len(entries) /\ \A i \in Ids : entries[i] \in Entry
  BY LenProperties, ElementOfSeq DEF TypeOK, Ids
<1> DEFINE known == [i \in 1..Len(entries) |->
                       IF entries[i].url \in urls /\ entries[i].kind # "script"
                       THEN [entries[i] EXCEPT !.kind = kinds[entries[i].url]]
                       ELSE entries[i]]
           more == [i \in 1..n |-> [url |-> new[i], script |-> NoScript, kind |-> kinds[new[i]]]]
<1>4. more \in Seq(Entry) /\ Len(more) = n
  <2>1. \A i \in 1..n : [url |-> new[i], script |-> NoScript, kind |-> kinds[new[i]]] \in Entry
    BY <1>3 DEF Entry
  <2>2. more \in [1..n -> Entry]  BY <2>1
  <2> QED BY <2>2, <1>1, SeqDef, LenProperties
<1>4a. /\ known \in Seq(Entry) /\ Len(known) = Len(entries)
       /\ \A i \in 1..Len(entries) :
            /\ known[i].url = entries[i].url /\ known[i].script = entries[i].script
            /\ (entries[i].url = NoUrl => known[i] = entries[i])
  <2>1. ASSUME NEW i \in 1..Len(entries)
        PROVE  /\ known[i] \in Entry
               /\ known[i].url = entries[i].url /\ known[i].script = entries[i].script
               /\ entries[i].url = NoUrl => known[i] = entries[i]
    <3>1. entries[i] \in Entry  BY <1>3a
    <3>2. CASE entries[i].url \in urls /\ entries[i].kind # "script"
      <4>1. kinds[entries[i].url] \in Kinds  BY <3>2
      <4>2. known[i] = [entries[i] EXCEPT !.kind = kinds[entries[i].url]]  BY <3>2
      <4>3. entries[i].url # NoUrl  BY <3>2, InventoryConstants
      <4> HIDE DEF known
      <4> QED BY <3>1, <4>1, <4>2, <4>3 DEF Entry
    <3>3. CASE ~(entries[i].url \in urls /\ entries[i].kind # "script")
      <4>1. known[i] = entries[i]  BY <3>3
      <4> QED BY <3>1, <4>1
    <3> QED BY <3>2, <3>3
  <2>2. known \in [1..Len(entries) -> Entry] /\ DOMAIN known = 1..Len(entries)
    <3>1. \A i \in 1..Len(entries) : known[i] \in Entry  BY <2>1
    <3> QED BY <3>1
  <2>3. known \in Seq(Entry)  BY <2>2, <1>3a, SeqDef
  <2> HIDE DEF known
  <2> QED BY <2>1, <2>2, <2>3, <1>3a, LenProperties
<1>5. /\ entries' \in Seq(Entry)
      /\ Len(entries') = Len(entries) + n
      /\ \A i \in 1..(Len(entries) + n) :
           entries'[i] = IF i <= Len(entries) THEN known[i] ELSE more[i - Len(entries)]
  <2>1. entries' = known \o more  BY <1>2, <1>3, <1>3a
  <2>2. known \in Seq(Entry) /\ Len(known) = Len(entries)  BY <1>4a
  <2> HIDE DEF known, more
  <2>3. /\ known \o more \in Seq(Entry) /\ Len(known \o more) = Len(known) + Len(more)
        /\ \A i \in 1..(Len(known) + Len(more)) :
             (known \o more)[i] = IF i <= Len(known) THEN known[i] ELSE more[i - Len(known)]
    BY <1>4, <2>2, ConcatProperties
  <2> QED BY <1>4, <2>1, <2>2, <2>3
<1>5a. \A i \in 1..n : more[i].url = new[i] /\ more[i].script = NoScript
  OBVIOUS
<1> HIDE DEF known, more
<1>6. Len(entries) \in Nat /\ Ids = 1..Len(entries) /\ Ids' = 1..(Len(entries) + n)
  <2>1. Len(entries) \in Nat  BY LenProperties DEF TypeOK
  <2> QED BY <2>1, <1>5 DEF Ids
<1>7. /\ \A i \in Ids : i \in Ids' /\ entries'[i].url = entries[i].url
                         /\ entries'[i].script = entries[i].script
                         /\ (entries[i].url = NoUrl => entries'[i] = entries[i])
      /\ \A i \in Ids' : i \notin Ids =>
           /\ i - Len(entries) \in 1..n
           /\ entries'[i].script = NoScript /\ entries'[i].url = new[i - Len(entries)]
  <2>1. ASSUME NEW i \in Ids
        PROVE  /\ i \in Ids' /\ entries'[i].url = entries[i].url
               /\ entries'[i].script = entries[i].script
               /\ (entries[i].url = NoUrl => entries'[i] = entries[i])
    <3>1. i \in Ids' /\ entries'[i] = known[i]  BY <1>1, <1>5, <1>6
    <3> QED BY <3>1, <1>4a, <1>6
  <2>2. ASSUME NEW i \in Ids', i \notin Ids
        PROVE  /\ i - Len(entries) \in 1..n
               /\ entries'[i].script = NoScript /\ entries'[i].url = new[i - Len(entries)]
    <3>1. i - Len(entries) \in 1..n /\ entries'[i] = more[i - Len(entries)]
      BY <2>2, <1>1, <1>5, <1>6
    <3> QED BY <3>1, <1>5a
  <2> QED BY <2>1, <2>2
<1>8. \A u \in fresh : \E i \in 1..n :
        new[i] = u /\ byUrl'[u] = Len(entries) + i /\ u \in DOMAIN byUrl'
  <2> TAKE u \in fresh
  <2>1. PICK i \in 1..n : new[i] = u  BY <1>3
  <2>2. (CHOOSE j \in DOMAIN new : new[j] = u) = i  BY <2>1, <1>3
  <2> QED BY <2>1, <2>2, <1>2
<1>9. /\ DOMAIN byUrl' = DOMAIN byUrl \cup fresh
      /\ \A v \in DOMAIN byUrl : v \in DOMAIN byUrl' /\ byUrl'[v] = byUrl[v]
  BY <1>2
<1>10. DOMAIN byUrl' \subseteq Urls /\ \A v \in DOMAIN byUrl' : byUrl'[v] \in Ids'
  BY <1>1, <1>6, <1>8, <1>9 DEF TypeOK
<1>11. \A t \in DOMAIN byScript' : byScript'[t] \in Ids'
  BY <1>1, <1>2, <1>6 DEF TypeOK
<1>12. \A i \in Ids' : entries'[i].url # NoUrl =>
         entries'[i].url \in DOMAIN byUrl' /\ byUrl'[entries'[i].url] = i
  <2> TAKE i \in Ids'
  <2>1. CASE i \in Ids  BY <2>1, <1>7, <1>9 DEF IndexesAgree
  <2>2. CASE i \notin Ids
    <3>1. i - Len(entries) \in 1..n /\ entries'[i].url = new[i - Len(entries)]
      BY <2>2, <1>7
    <3>2. new[i - Len(entries)] \in fresh  BY <3>1, <1>3
    <3>3. PICK j \in 1..n : /\ new[j] = new[i - Len(entries)]
                            /\ byUrl'[new[i - Len(entries)]] = Len(entries) + j
      BY <3>2, <1>8
    <3>4. j = i - Len(entries)  BY <3>1, <3>3, <1>3
    <3> QED BY <3>1, <3>2, <3>3, <3>4, <1>6, <1>9
  <2> QED BY <2>1, <2>2
<1>13. \A v \in DOMAIN byUrl' : entries'[byUrl'[v]].url = v
  <2> TAKE v \in DOMAIN byUrl'
  <2>1. CASE v \in DOMAIN byUrl  BY <2>1, <1>7, <1>9 DEF IndexesAgree, TypeOK
  <2>2. CASE v \in fresh
    <3>1. PICK j \in 1..n : new[j] = v /\ byUrl'[v] = Len(entries) + j  BY <2>2, <1>8
    <3> QED BY <3>1, <1>1, <1>6, <1>7
  <2> QED BY <2>1, <2>2, <1>9
<1>14. \A t \in DOMAIN byScript' : entries'[byScript'[t]].script = t
  <2> TAKE t \in DOMAIN byScript'
  <2>1. byScript' = byScript /\ t \in DOMAIN byScript  BY <1>2
  <2>2. byScript[t] \in Ids /\ entries[byScript[t]].script = t
    BY <2>1 DEF IndexesAgree, TypeOK
  <2> QED BY <2>1, <2>2, <1>7
<1>15. page' = 0 => \A i \in Ids' : entries'[i].script # NoScript =>
         entries'[i].script \in DOMAIN byScript' /\ byScript'[entries'[i].script] = i
  BY <1>2, <1>7 DEF IndexesAgree
<1>16. IndexesAgree'  BY <1>12, <1>13, <1>14, <1>15 DEF IndexesAgree
<1>17. \A i \in Ids' : i \notin Ids => entries'[i].script = NoScript /\ entries'[i].url \in Urls
  BY <1>3, <1>7
<1> QED BY <1>5, <1>7, <1>9, <1>10, <1>11, <1>16, <1>17

-----------------------------------------------------------------------------
(* The invariant *)

LEMMA InitInv == Init => InventoryInv
<1> SUFFICES ASSUME Init PROVE InventoryInv
  OBVIOUS
<1>1. Shape
  <2>1. loaded \in Seq(Urls \cup {NoUrl}) /\ Len(loaded) = 0  BY EmptySeq DEF Init
  <2>2. /\ ring \in Seq(Events) /\ Len(ring) <= Capacity
        /\ entries \in Seq(Entry) /\ Len(entries) = 0
    BY EmptySeq, InventoryConstants DEF Init
  <2>3. DOMAIN byUrl = {} /\ DOMAIN byScript = {} /\ IsFiniteSet(tree) /\ tree \subseteq Urls
    BY FS_EmptySet DEF Init
  <2>4. page \in 0..MaxPage /\ missed \subseteq DOMAIN loaded
    BY <2>1, InventoryConstants DEF Init
  <2>5. enabled \in BOOLEAN  BY Zenon DEF Init
  <2>6. host \in HostPcs /\ Len(loaded) <= MaxScript
    BY <2>1, InventoryConstants DEF Init, HostPcs
  <2> QED BY <2>1, <2>2, <2>3, <2>4, <2>5, <2>6 DEF Shape, TypeOK
<1>2. Len(ring) = 0 /\ Len(entries) = 0 /\ Ids = {} /\ DOMAIN byScript = {} /\ DOMAIN byUrl = {}
  BY EmptySeq DEF Init, Ids
<1>3. Phases /\ host # "subscribed"  BY <1>2 DEF Init, Phases
<1>4. IndexesAgree  BY <1>2 DEF IndexesAgree
<1>5. RingIsTrue(ring, missed, loaded, page) /\ FirstPage
  BY <1>2 DEF RingIsTrue, FirstPage
<1> QED BY <1>1, <1>3, <1>4, <1>5 DEF InventoryInv

\* The facts every step below uses.
LEMMA InvTypes ==
    ASSUME InventoryInv
    PROVE  /\ TypeOK /\ IndexesAgree
           /\ Len(ring) \in Nat /\ Len(loaded) \in Nat /\ Len(entries) \in Nat
           /\ ring \in Seq(Events) /\ loaded \in Seq(Urls \cup {NoUrl})
           /\ missed \in SUBSET (DOMAIN loaded) /\ DOMAIN loaded = 1..Len(loaded)
           /\ page \in Nat /\ MaxScript \in Nat /\ ScriptIds = 1..MaxScript
           /\ \A j \in 1..Len(ring) : ring[j].page \in Nat /\ ring[j].script \in ScriptIds
<1>1. TypeOK /\ IndexesAgree  BY DEF InventoryInv, Shape
<1>2. \A j \in 1..Len(ring) : ring[j] \in Events
  BY <1>1, ElementOfSeq DEF TypeOK
<1>3. page \in Nat  BY <1>1, InventoryConstants DEF TypeOK
<1> QED BY <1>1, <1>2, <1>3, LenProperties, EventShape, InventoryConstants DEF TypeOK, ScriptIds

\* What was announced is overwritten.
LEMMA SaysMoreKeepsInv ==
    ASSUME InventoryInv, DebuggeeSaysMore
    PROVE  InventoryInv'
<1> USE InvTypes
<1>1. /\ ring # <<>> /\ ring' = Tail(ring)
      /\ missed' = missed \cup {s \in DOMAIN loaded :
                       Head(ring) = [page |-> page, script |-> s, url |-> loaded[s]]}
      /\ UNCHANGED <<page, loaded, enabled, host, tree, entries, byUrl, byScript>>
  BY DEF DebuggeeSaysMore, Overwritten, Parsed, debuggeeVars, inventoryVars
<1>2. PICK n \in Nat :
        /\ Len(ring) = n + 1 /\ Len(ring') = n /\ ring' \in Seq(Events)
        /\ \A j \in 1..n : j + 1 \in 1..Len(ring) /\ ring'[j] = ring[j + 1]
  BY <1>1, RingTail
<1>3. Shape'
  BY <1>1, <1>2, InventoryConstants DEF InventoryInv, Shape, TypeOK, Ids
<1>4. host = "subscribed"  BY <1>1 DEF InventoryInv, Phases
<1>5. Phases' /\ IndexesAgree'  BY <1>1, <1>4 DEF InventoryInv, Phases, IndexesAgree, Ids
<1>6. /\ RingIsTrue(ring', missed', loaded, page)
      /\ NothingLost(ring', missed', loaded, page, entries)
  <2>1. RingIsTrue(ring, missed, loaded, page) /\ NothingLost(ring, missed, loaded, page, entries)
    BY <1>4 DEF InventoryInv
  <2> QED BY <1>1, <2>1, RingOverwrites
<1>7. FirstPage'
  BY <1>1, <1>2 DEF InventoryInv, FirstPage, Ids
<1> QED BY <1>1, <1>3, <1>5, <1>6, <1>7 DEF InventoryInv

\* A script is parsed.
LEMMA ParsesKeepsInv ==
    ASSUME InventoryInv, DebuggeeParses
    PROVE  InventoryInv'
<1> USE InvTypes
<1> DEFINE s == Len(loaded) + 1
<1>1. PICK u \in Urls \cup {NoUrl} :
        /\ loaded' = Append(loaded, u)
        /\ IF enabled THEN Hears(Parsed(s, u)) ELSE UNCHANGED <<ring, missed>>
  BY DEF DebuggeeParses
<1> DEFINE e == [page |-> page, script |-> s, url |-> u]
<1>2. /\ s \in ScriptIds /\ s <= MaxScript
      /\ UNCHANGED <<page, enabled, host, tree, entries, byUrl, byScript>>
  BY DEF DebuggeeParses, inventoryVars, ScriptIds
<1>3. e \in Events /\ e.script = s
  BY <1>2 DEF Events
<1>4. /\ loaded' \in Seq(Urls \cup {NoUrl}) /\ Len(loaded') = s
      /\ DOMAIN loaded' = 1..s
      /\ \A i \in 1..Len(loaded) : loaded'[i] = loaded[i]
  <2>1. loaded' \in Seq(Urls \cup {NoUrl}) /\ Len(loaded') = s
        /\ \A i \in 1..Len(loaded) : loaded'[i] = loaded[i]
    BY <1>1, AppendProperties
  <2> QED BY <2>1, LenProperties
\* Between the two: what a full ring gives up.
<1>5. \E q \in Seq(Events), m \in SUBSET (DOMAIN loaded) :
        /\ host = "subscribed" => ring' = Append(q, e) /\ Len(q) < Capacity
        /\ host # "subscribed" => ring' = ring /\ ring = q
        /\ missed' = m
        /\ RingIsTrue(q, m, loaded, page)
        /\ host = "subscribed" => NothingLost(q, m, loaded, page, entries)
        /\ \A j \in 1..Len(q) : \E i \in 1..Len(ring) : q[j] = ring[i]
  <2>1. /\ RingIsTrue(ring, missed, loaded, page)
        /\ host = "subscribed" => NothingLost(ring, missed, loaded, page, entries)
        /\ host = "subscribed" => enabled
        /\ Len(ring) <= Capacity /\ Capacity \in Nat \ {0}
    BY InventoryConstants DEF InventoryInv, Phases, TypeOK
  <2>2. CASE host # "subscribed"
    <3>1. ring' = ring /\ missed' = missed  BY <1>1, <2>2 DEF Hears
    <3> QED BY <2>1, <2>2, <3>1
  <2>3. CASE host = "subscribed" /\ Len(ring) # Capacity
    <3>1. ring' = Append(ring, e) /\ missed' = missed  BY <1>1, <2>1, <2>3 DEF Hears, Parsed
    <3>2. Len(ring) < Capacity  BY <2>1, <2>3
    <3> QED BY <2>1, <2>3, <3>1, <3>2
  <2>4. CASE host = "subscribed" /\ Len(ring) = Capacity
    <3>1. /\ ring' = Append(Tail(ring), e)
          /\ missed' = missed \cup {t \in DOMAIN loaded :
                         Head(ring) = [page |-> page, script |-> t, url |-> loaded[t]]}
      BY <1>1, <2>1, <2>4 DEF Hears, Parsed, Overwritten
    <3>2. ring # <<>>  BY <2>1, <2>4, EmptySeq
    <3>3. PICK n \in Nat :
            /\ Len(ring) = n + 1 /\ Len(Tail(ring)) = n /\ Tail(ring) \in Seq(Events)
            /\ \A j \in 1..n : j + 1 \in 1..Len(ring) /\ Tail(ring)[j] = ring[j + 1]
      BY <3>2, RingTail
    <3>4. RingIsTrue(Tail(ring), missed', loaded, page)
          /\ NothingLost(Tail(ring), missed', loaded, page, entries)
      BY <2>1, <2>4, <3>1, <3>2, RingOverwrites
    <3>5. missed' \in SUBSET (DOMAIN loaded) /\ Len(Tail(ring)) < Capacity
      BY <2>1, <2>4, <3>1, <3>3
    <3>6. \A j \in 1..Len(Tail(ring)) : \E i \in 1..Len(ring) : Tail(ring)[j] = ring[i]
      BY <3>3
    <3> QED BY <2>4, <3>1, <3>3, <3>4, <3>5, <3>6
  <2> QED BY <2>2, <2>3, <2>4
<1>6. PICK q \in Seq(Events), m \in SUBSET (DOMAIN loaded) :
        /\ host = "subscribed" => ring' = Append(q, e) /\ Len(q) < Capacity
        /\ host # "subscribed" => ring' = ring /\ ring = q
        /\ missed' = m
        /\ RingIsTrue(q, m, loaded, page)
        /\ host = "subscribed" => NothingLost(q, m, loaded, page, entries)
        /\ \A j \in 1..Len(q) : \E i \in 1..Len(ring) : q[j] = ring[i]
  BY <1>5
<1>7. /\ Append(q, e) \in Seq(Events) /\ Len(Append(q, e)) = Len(q) + 1 /\ Len(q) \in Nat
      /\ \A j \in 1..Len(q) : Append(q, e)[j] = q[j]
      /\ Append(q, e)[Len(q) + 1] = e
  BY <1>3, RingAppend
<1>8. ring' \in Seq(Events) /\ Len(ring') <= Capacity
  <2> HIDE DEF e
  <2>1. Capacity \in Nat /\ Len(ring) <= Capacity  BY InventoryConstants DEF TypeOK
  <2>2. CASE host = "subscribed"
    <3>1. ring' = Append(q, e) /\ Len(q) < Capacity  BY <2>2, <1>6
    <3>2. Len(q) + 1 <= Capacity  BY <2>1, <3>1, <1>7
    <3> QED BY <3>1, <3>2, <1>7
  <2>3. CASE host # "subscribed"  BY <2>1, <2>3, <1>6
  <2> QED BY <2>2, <2>3
<1>9. /\ RingIsTrue(ring', missed', loaded', page)
      /\ host = "subscribed" => NothingLost(ring', missed', loaded', page, entries)
  <2>1. CASE host = "subscribed"
    <3>1. /\ RingIsTrue(Append(q, e), m, Append(loaded, u), page)
          /\ NothingLost(Append(q, e), m, Append(loaded, u), page, entries)
      BY <2>1, <1>3, <1>6, RingHears
    <3> QED BY <2>1, <3>1, <1>1, <1>6
  <2>2. CASE host # "subscribed"
    <3>1. Len(ring') = 0  BY <2>2, <1>6, EmptySeq DEF InventoryInv, Phases
    <3> QED BY <2>2, <3>1 DEF RingIsTrue
  <2> QED BY <2>1, <2>2
<1> HIDE DEF e, s
<1>10. Shape'
  <2>1. missed' \subseteq DOMAIN loaded'  BY <1>4, <1>6 DEF s
  <2> QED BY <2>1, <1>2, <1>4, <1>8 DEF InventoryInv, Shape, TypeOK, Ids
<1>11. Phases' /\ IndexesAgree'
  BY <1>2, <1>6 DEF InventoryInv, Phases, IndexesAgree, Ids
<1>12. FirstPage'
  <2> SUFFICES ASSUME page = 0, NEW i \in Ids, entries[i].script # NoScript
               PROVE  /\ entries[i].script \in DOMAIN loaded'
                      /\ loaded'[entries[i].script] = entries[i].url
                      /\ \A j \in 1..Len(ring') : entries[i].script < ring'[j].script
    BY <1>2 DEF FirstPage, Ids
  <2>1. /\ entries[i].script \in DOMAIN loaded /\ loaded[entries[i].script] = entries[i].url
        /\ \A j \in 1..Len(ring) : entries[i].script < ring[j].script
    BY DEF InventoryInv, FirstPage
  <2>2. \A j \in 1..Len(q) : entries[i].script < q[j].script  BY <2>1, <1>6
  <2>3. entries[i].script < s  BY <2>1 DEF s
  <2>4. CASE host = "subscribed"
    <3>1. \A j \in 1..Len(ring') : j \in 1..Len(q) \/ j = Len(q) + 1  BY <2>4, <1>6, <1>7
    <3>2. \A j \in 1..Len(ring') : entries[i].script < ring'[j].script
      <4> TAKE j \in 1..Len(ring')
      <4>1. CASE j \in 1..Len(q)
        <5>1. ring'[j] = q[j]  BY <2>4, <4>1, <1>6, <1>7
        <5> QED BY <4>1, <5>1, <2>2
      <4>2. CASE j = Len(q) + 1
        <5>1. ring'[j] = e  BY <2>4, <4>2, <1>6, <1>7
        <5> QED BY <5>1, <2>3, <1>3
      <4> QED BY <3>1, <4>1, <4>2
    <3> QED BY <2>1, <3>2, <1>4 DEF s
  <2>5. CASE host # "subscribed"  BY <2>1, <2>5, <1>4, <1>6 DEF s
  <2> QED BY <2>4, <2>5
<1> QED BY <1>2, <1>9, <1>10, <1>11, <1>12 DEF InventoryInv

\* The debuggee navigates: what is on its way becomes of an earlier page.
LEMMA NavigatesKeepsInv ==
    ASSUME InventoryInv, DebuggeeNavigates
    PROVE  InventoryInv'
<1> USE InvTypes
<1>1. /\ loaded' = <<>> /\ missed' = {} /\ page' = page + 1 /\ page < MaxPage
      /\ UNCHANGED <<enabled, host, tree, ring, entries, byUrl, byScript>>
  BY DEF DebuggeeNavigates, inventoryVars
<1>2. loaded' \in Seq(Urls \cup {NoUrl}) /\ Len(loaded') = 0 /\ DOMAIN loaded' = {}
  BY <1>1, EmptySeq
<1>3. page' \in 0..MaxPage /\ page' # 0  BY <1>1, InventoryConstants DEF TypeOK
<1>4. Shape'
  BY <1>1, <1>2, <1>3, InventoryConstants DEF InventoryInv, Shape, TypeOK, Ids
<1>5. Phases' /\ IndexesAgree' /\ FirstPage'
  BY <1>1, <1>3 DEF InventoryInv, Phases, IndexesAgree, FirstPage, Ids
<1>6. RingIsTrue(ring, missed', loaded', page')
  <2>1. \A j \in 1..Len(ring) : ring[j].page <= page' /\ ring[j].page # page'
    BY <1>1 DEF InventoryInv, RingIsTrue
  <2> QED BY <2>1 DEF RingIsTrue
<1>7. NothingLost(ring, missed', loaded', page', entries)  BY <1>2 DEF NothingLost
<1> QED BY <1>1, <1>4, <1>5, <1>6, <1>7 DEF InventoryInv

\* The host's way to its subscription.
LEMMA HostKeepsInv ==
    ASSUME InventoryInv, HostEnables \/ HostAnswered \/ HostSeeds \/ HostSubscribes
    PROVE  InventoryInv'
<1> USE InvTypes
<1>0. /\ host # "subscribed"
      /\ ring = <<>> /\ Len(ring) = 0 /\ DOMAIN byScript = {}
      /\ \A i \in Ids : entries[i].script = NoScript
  BY EmptySeq DEF InventoryInv, Phases, HostEnables, HostAnswered, HostSeeds, HostSubscribes
<1>1. CASE HostEnables
  <2>1. host = "new" /\ enabled' = TRUE /\ host' = "enabled"
        /\ UNCHANGED <<page, loaded, tree, ring, missed, entries, byUrl, byScript>>
    BY <1>1 DEF HostEnables, inventoryVars
  <2>2. Shape'  BY <2>1 DEF InventoryInv, Shape, TypeOK, Ids, HostPcs
  <2>3. Phases'  BY <2>1, <1>0 DEF Phases, Ids
  <2>4. IndexesAgree' /\ FirstPage'  BY <2>1 DEF InventoryInv, IndexesAgree, FirstPage, Ids
  <2> QED BY <2>1, <2>2, <2>3, <2>4 DEF InventoryInv
<1>2. CASE HostAnswered
  <2>1. /\ host = "enabled" /\ host' = "answered" /\ tree' \in {{}, ToSet(loaded) \ {NoUrl}}
        /\ UNCHANGED <<page, loaded, enabled, ring, missed, entries, byUrl, byScript>>
    BY <1>2 DEF HostAnswered, debuggeeVars, inventoryVars
  <2>2. tree' \subseteq Urls /\ IsFiniteSet(tree')
    <3>1. ToSet(loaded) \subseteq Urls \cup {NoUrl}
      BY ElementOfSeq, LenProperties DEF ToSet
    <3>2. loaded \in Surjection(1..Len(loaded), ToSet(loaded))
      <4>1. loaded \in [1..Len(loaded) -> Urls \cup {NoUrl}]  BY LenProperties
      <4>2. loaded \in [1..Len(loaded) -> ToSet(loaded)]  BY <4>1 DEF ToSet
      <4> QED BY <4>1, <4>2 DEF Surjection, ToSet
    <3>3. IsFiniteSet(1..Len(loaded))  BY FS_Interval
    <3>4. IsFiniteSet(ToSet(loaded))  BY <3>2, <3>3, FS_Surjection
    <3>5. IsFiniteSet(ToSet(loaded) \ {NoUrl})
      <4>1. ToSet(loaded) \ {NoUrl} \in SUBSET ToSet(loaded)  OBVIOUS
      <4> HIDE DEF ToSet
      <4> QED BY <3>4, <4>1, FS_Subset
    <3> QED BY <2>1, <3>1, <3>5, FS_EmptySet
  <2>3. Shape'  BY <2>1, <2>2 DEF InventoryInv, Shape, TypeOK, Ids, HostPcs
  <2>4. Phases'  BY <2>1, <1>0 DEF InventoryInv, Phases, Ids
  <2>5. IndexesAgree' /\ FirstPage'  BY <2>1 DEF InventoryInv, IndexesAgree, FirstPage, Ids
  <2> QED BY <2>1, <2>3, <2>4, <2>5 DEF InventoryInv
<1>3. CASE HostSeeds
  <2>1. /\ host = "answered" /\ host' = "seeded" /\ ResourceTree(tree)
        /\ UNCHANGED <<page, loaded, enabled, tree, ring, missed>>
    BY <1>3 DEF HostSeeds, debuggeeVars
  <2>2. byScript' = byScript  BY <2>1 DEF ResourceTree
  <2>3. tree \in SUBSET Urls /\ IsFiniteSet(tree) /\ UNCHANGED page
    BY <2>1 DEF InventoryInv, Shape, TypeOK
  <2>4. /\ entries' \in Seq(Entry)
        /\ DOMAIN byUrl' \subseteq Urls /\ \A v \in DOMAIN byUrl' : byUrl'[v] \in Ids'
        /\ \A t \in DOMAIN byScript' : byScript'[t] \in Ids'
        /\ \A i \in Ids' : i \notin Ids => entries'[i].script = NoScript
        /\ \A i \in Ids : i \in Ids' /\ entries'[i].script = entries[i].script
        /\ IndexesAgree'
    BY <2>1, <2>3, TreeIsListed
  <2>5. Shape'  BY <2>1, <2>2, <2>3, <2>4 DEF Shape, TypeOK, HostPcs
  <2>6. \A i \in Ids' : entries'[i].script = NoScript  BY <2>4, <1>0
  <2>7. Phases'  BY <2>1, <2>2, <2>6, <1>0 DEF InventoryInv, Phases
  <2>8. FirstPage'  BY <2>6 DEF FirstPage
  <2> QED BY <2>1, <2>4, <2>5, <2>7, <2>8 DEF InventoryInv
<1>4. CASE HostSubscribes
  <2>1. /\ host = "seeded" /\ host' = "subscribed" /\ missed' = DOMAIN loaded
        /\ UNCHANGED <<page, loaded, enabled, tree, ring, entries, byUrl, byScript>>
    BY <1>4 DEF HostSubscribes, debuggeeVars, inventoryVars
  <2>2. Shape'  BY <2>1 DEF InventoryInv, Shape, TypeOK, Ids, HostPcs
  <2>3. Phases'  BY <2>1 DEF InventoryInv, Phases
  <2>4. IndexesAgree' /\ FirstPage'  BY <2>1 DEF InventoryInv, IndexesAgree, FirstPage, Ids
  <2>5. RingIsTrue(ring, missed', loaded, page)  BY <1>0 DEF RingIsTrue
  <2>6. NothingLost(ring, missed', loaded, page, entries)  BY <2>1 DEF NothingLost
  <2> QED BY <2>1, <2>2, <2>3, <2>4, <2>5, <2>6 DEF InventoryInv
<1> QED BY <1>1, <1>2, <1>3, <1>4

\* The oldest event is folded.
LEMMA FoldsScriptKeepsInv ==
    ASSUME InventoryInv, HostFolds
    PROVE  InventoryInv'
<1> USE InvTypes
<1>0. /\ ring # <<>> /\ ring' = Tail(ring)
      /\ ScriptParsed(Head(ring).script, Head(ring).url)
      /\ UNCHANGED <<page, loaded, enabled, host, tree, missed>>
  BY DEF HostFolds, debuggeeVars
<1>1. PICK n \in Nat :
        /\ Len(ring) = n + 1 /\ Len(ring') = n /\ ring' \in Seq(Events)
        /\ Head(ring) = ring[1] /\ ring[1] \in Events
        /\ \A j \in 1..n : j + 1 \in 1..Len(ring) /\ ring'[j] = ring[j + 1]
  BY <1>0, RingTail
<1>2. PICK s \in ScriptIds, u \in Urls \cup {NoUrl} :
        ring[1].script = s /\ ring[1].url = u
  BY <1>1, EventShape
<1>3. PICK id \in 1..Len(entries') : Lists(s, u, id)
  <2>1. ScriptParsed(s, u)  BY <1>0, <1>1, <1>2
  <2> QED BY <2>1, ScriptIsListed
<1>4. host = "subscribed"  BY <1>0 DEF InventoryInv, Phases
<1>5. /\ RingIsTrue(ring, missed, loaded, page)
      /\ NothingLost(ring, missed, loaded, page, entries)
      /\ FirstPage
  BY <1>4 DEF InventoryInv
<1>6. 1 \in 1..Len(ring) /\ \A j \in 1..n : 1 < j + 1  BY <1>1
<1>7. ASSUME page = 0 PROVE s \notin DOMAIN byScript
  <2> SUFFICES ASSUME s \in DOMAIN byScript PROVE FALSE
    OBVIOUS
  <2>1. byScript[s] \in Ids /\ entries[byScript[s]].script = s  BY DEF TypeOK, IndexesAgree
  <2>2. s # NoScript /\ s \in Nat  BY InventoryConstants DEF ScriptIds
  <2>3. s < ring[1].script  BY <1>5, <1>6, <1>7, <2>1, <2>2 DEF FirstPage
  <2> QED BY <1>2, <2>2, <2>3
<1>8. /\ entries' \in Seq(Entry)
      /\ DOMAIN byUrl' \subseteq Urls /\ \A v \in DOMAIN byUrl' : byUrl'[v] \in Ids'
      /\ DOMAIN byScript' \subseteq ScriptIds
      /\ \A t \in DOMAIN byScript' : byScript'[t] \in Ids'
      /\ IndexesAgree'
  BY <1>0, <1>3, <1>7, ListingKeepsIndexes
<1>9. Shape'  BY <1>0, <1>1, <1>8, InventoryConstants DEF InventoryInv, Shape, TypeOK
<1>10. Phases'  BY <1>0, <1>4 DEF InventoryInv, Phases
<1>11. RingIsTrue(ring', missed, loaded, page)
  <2>1. ASSUME NEW i \in 1..n, NEW j \in 1..n, i < j, ring'[i].page = page
        PROVE  ring'[j].page = page /\ ring'[i].script < ring'[j].script
    <3>1. /\ i + 1 \in 1..Len(ring) /\ j + 1 \in 1..Len(ring) /\ i + 1 < j + 1
          /\ ring'[i] = ring[i + 1] /\ ring'[j] = ring[j + 1]
      BY <1>1, <2>1
    <3>2. \A a, b \in 1..Len(ring) : (a < b /\ ring[a].page = page) =>
            ring[b].page = page /\ ring[a].script < ring[b].script
      BY <1>5 DEF RingIsTrue
    <3> QED BY <2>1, <3>1, <3>2
  <2>2. \A j \in 1..n : /\ ring'[j].page <= page
                        /\ ring'[j].page = page =>
                             /\ ring'[j].script \in DOMAIN loaded \ missed
                             /\ loaded[ring'[j].script] = ring'[j].url
    BY <1>1, <1>5 DEF RingIsTrue
  <2> QED BY <1>1, <2>1, <2>2 DEF RingIsTrue
<1>12. \A t : Held(t, ring', page) => Held(t, ring, page)
  BY <1>1 DEF Held
<1>13. ASSUME ring[1].page = page
       PROVE  /\ s \in DOMAIN loaded \ missed /\ loaded[s] = u
              /\ Passed(s, ring', page) /\ ~Held(s, ring', page)
  <2>1. s \in DOMAIN loaded \ missed /\ loaded[s] = u
    BY <1>2, <1>5, <1>6, <1>13 DEF RingIsTrue
  <2>2. \A j \in 1..n : ring'[j].page = page /\ s < ring'[j].script
    <3>1. \A b \in 1..Len(ring) : 1 < b => ring[b].page = page /\ ring[1].script < ring[b].script
      BY <1>5, <1>6, <1>13 DEF RingIsTrue
    <3> QED BY <1>1, <1>2, <1>6, <3>1
  <2>3. \A j \in 1..n : ring'[j].script \in ScriptIds  BY <1>1
  <2> QED BY <1>1, <2>1, <2>2, <2>3 DEF Passed, Held, ScriptIds
<1>14. NothingLost(ring', missed, loaded, page, entries')
  <2> SUFFICES ASSUME NEW t \in DOMAIN loaded \ missed
               PROVE  \/ Held(t, ring', page)
                      \/ /\ Passed(t, ring', page)
                         /\ Listed(t, loaded, entries') \/ Replaced(t, ring', missed, loaded, page)
    BY DEF NothingLost
  <2>1. CASE Held(t, ring, page)
    <3>1. PICK j \in 1..Len(ring) : ring[j].page = page /\ ring[j].script = t  BY <2>1 DEF Held
    <3>2. CASE j = 1
      <4>1. t = s /\ Passed(s, ring', page) /\ loaded[s] = u  BY <1>2, <1>13, <3>1, <3>2
      <4>2. Listed(s, loaded, entries')
        <5>1. entries'[id].script = s /\ entries'[id].url = u  BY <1>3 DEF Lists
        <5> QED BY <1>3, <4>1, <5>1 DEF Listed
      <4> QED BY <4>1, <4>2
    <3>3. CASE j # 1
      <4>1. j - 1 \in 1..n /\ (j - 1) + 1 = j  BY <1>1, <3>1, <3>3
      <4>2. ring'[j - 1] = ring[j]  BY <1>1, <4>1
      <4> QED BY <1>1, <3>1, <4>1, <4>2 DEF Held
    <3> QED BY <3>2, <3>3
  <2>2. CASE Passed(t, ring, page) /\ (Listed(t, loaded, entries) \/ Replaced(t, ring, missed, loaded, page))
    <3>1. Passed(t, ring', page)
      <4>1. \A j \in 1..n : ring'[j].page = page /\ ring'[j].script > t
        BY <1>1, <2>2 DEF Passed
      <4> QED BY <1>1, <4>1 DEF Passed
    <3>2. ring[1].page = page /\ s > t  BY <1>2, <1>6, <2>2 DEF Passed
    <3>3. CASE Replaced(t, ring, missed, loaded, page)
      <4>1. Replaced(t, ring', missed, loaded, page)  BY <3>3, <1>12 DEF Replaced
      <4> QED BY <3>1, <4>1
    <3>4. CASE Listed(t, loaded, entries)
      <4>1. PICK i \in Ids : entries[i].script = t /\ entries[i].url = loaded[t]
        BY <3>4 DEF Listed, Ids
      <4>2. CASE i # id
        <5>1. entries'[i] = entries[i] /\ i \in 1..Len(entries')
          BY <1>3, <4>2 DEF Lists, Ids
        <5> QED BY <3>1, <4>1, <5>1 DEF Listed
      <4>3. CASE i = id
        <5>1. entries[id].url = u /\ u \in Urls  BY <1>3, <4>3 DEF Lists, TypeOK
        <5>2. u # NoUrl  BY <5>1, InventoryConstants
        <5>3. Replaced(t, ring', missed, loaded, page)
          BY <1>13, <3>2, <4>1, <4>3, <5>1, <5>2 DEF Replaced
        <5> QED BY <3>1, <5>3
      <4> QED BY <4>2, <4>3
    <3> QED BY <2>2, <3>3, <3>4
  <2> QED BY <1>5, <2>1, <2>2 DEF NothingLost
<1>15. FirstPage'
  <2> SUFFICES ASSUME page = 0, NEW i \in Ids', entries'[i].script # NoScript
               PROVE  /\ entries'[i].script \in DOMAIN loaded
                      /\ loaded[entries'[i].script] = entries'[i].url
                      /\ \A j \in 1..n : entries'[i].script < ring'[j].script
    BY <1>0, <1>1 DEF FirstPage
  <2>1. CASE i = id
    <3>1. ring[1].page = page  BY <1>1, <1>6 DEF InventoryInv, RingIsTrue
    <3>2. entries'[i].script = s /\ entries'[i].url = u  BY <2>1, <1>3 DEF Lists
    <3>3. \A j \in 1..n : s < ring'[j].script
      BY <1>1, <1>2, <1>5, <1>6, <3>1 DEF RingIsTrue
    <3> QED BY <3>1, <3>2, <3>3, <1>13
  <2>2. CASE i # id
    <3>1. i \in Ids /\ entries'[i] = entries[i]  BY <2>2, <1>3 DEF Lists, Ids
    <3> QED BY <3>1, <1>1, <1>5 DEF FirstPage
  <2> QED BY <2>1, <2>2
<1> QED BY <1>0, <1>8, <1>9, <1>10, <1>11, <1>14, <1>15 DEF InventoryInv

LEMMA StepKeepsInv ==
    ASSUME InventoryInv, [Next]_vars
    PROVE  InventoryInv'
<1>1. CASE UNCHANGED vars
  <2>1. UNCHANGED <<page, loaded, enabled, host, tree, ring, missed, entries, byUrl, byScript>>
    BY <1>1 DEF vars, debuggeeVars, hostVars, inventoryVars
  <2> QED BY <2>1 DEF InventoryInv, Shape, TypeOK, Phases, IndexesAgree, FirstPage, Ids
<1>2. CASE Next
  BY <1>2, ParsesKeepsInv, SaysMoreKeepsInv, NavigatesKeepsInv, HostKeepsInv, FoldsScriptKeepsInv
  DEF Next
<1> QED BY <1>1, <1>2

-----------------------------------------------------------------------------
(* The theorems *)

THEOREM InvariantHolds == Spec => []InventoryInv
BY InitInv, StepKeepsInv, PTL DEF Spec

\* The state has its declared shape.
THEOREM InventoryTyped == Spec => []TypeOK
<1>1. InventoryInv => TypeOK  BY InvTypes
<1> QED BY <1>1, InvariantHolds, PTL

\* The indexes and the entries agree, however often the page navigates and its
\* script ids come again.
THEOREM IndexesAlwaysAgree == Spec => []IndexesAgree
<1>1. InventoryInv => IndexesAgree  BY DEF InventoryInv
<1> QED BY <1>1, InvariantHolds, PTL

\* With every event read, each script of the page that the host could hear of is
\* listed, whatever the ring overwrote and whichever page its id was used on.
THEOREM ScriptsAreAlwaysFound == Spec => []ScriptsAreFound
<1>1. ASSUME InventoryInv PROVE ScriptsAreFound
  <2> USE InvTypes
  <2> SUFFICES ASSUME host = "subscribed", ring = <<>>
               PROVE  /\ \A s \in DOMAIN loaded \ missed : ~Superseded(s) =>
                           \E i \in Ids : entries[i].script = s /\ entries[i].url = loaded[s]
                      /\ page = 0 => \A i \in Ids : entries[i].script # NoScript =>
                           /\ entries[i].script <= Len(loaded)
                           /\ loaded[entries[i].script] = entries[i].url
    BY DEF ScriptsAreFound
  <2>1. Len(ring) = 0 /\ NothingLost(ring, missed, loaded, page, entries) /\ FirstPage
    BY <1>1, EmptySeq DEF InventoryInv
  <2>2. ASSUME NEW s \in DOMAIN loaded \ missed, ~Superseded(s)
        PROVE  Listed(s, loaded, entries)
    BY <2>1, <2>2 DEF NothingLost, Held, Replaced, Superseded
  <2>3. page = 0 => \A i \in Ids : entries[i].script # NoScript =>
          entries[i].script <= Len(loaded) /\ loaded[entries[i].script] = entries[i].url
    BY <1>1, <2>1 DEF FirstPage
  <2> QED BY <2>2, <2>3 DEF Listed, Ids
<1> QED BY <1>1, InvariantHolds, PTL

\* A source keeps its id: no step takes a URL's id away or changes it.
THEOREM IdsAreAlwaysStable == Spec => IdsAreStable
<1>1. ASSUME InventoryInv, [Next]_vars
      PROVE  [\A u \in DOMAIN byUrl : u \in DOMAIN byUrl' /\ byUrl'[u] = byUrl[u]]_vars
  <2> USE InvTypes
  <2>0. IsFiniteSet(tree)  BY <1>1 DEF InventoryInv, Shape
  <2>1. CASE HostSeeds
    <3>1. ResourceTree(tree) /\ tree \in SUBSET Urls /\ UNCHANGED page
      BY <1>1, <2>1 DEF HostSeeds, TypeOK, debuggeeVars
    <3> QED BY <3>1, <2>0, <1>1, TreeIsListed
  <2>2. CASE HostFolds
    <3>1. ring # <<>> /\ ScriptParsed(Head(ring).script, Head(ring).url)
      BY <2>2 DEF HostFolds
    <3>2. Head(ring) \in Events  BY <3>1, <1>1, HeadTailProperties
    <3>3. PICK s \in ScriptIds, u \in Urls \cup {NoUrl} :
            Head(ring).script = s /\ Head(ring).url = u
      BY <3>2, EventShape
    <3>4. ScriptParsed(s, u)  BY <3>1, <3>3
    <3>5. PICK id \in 1..Len(entries') : Lists(s, u, id)
      BY <3>4, <1>1, ScriptIsListed
    <3> QED BY <3>5 DEF Lists, Put
  <2>3. CASE \/ DebuggeeParses \/ DebuggeeSaysMore \/ DebuggeeNavigates
             \/ HostEnables \/ HostAnswered \/ HostSubscribes
    BY <2>3 DEF DebuggeeParses, DebuggeeSaysMore, DebuggeeNavigates, HostEnables, HostAnswered,
                HostSubscribes, inventoryVars
  <2>4. CASE UNCHANGED vars  BY <2>4 DEF vars, inventoryVars
  <2> QED BY <1>1, <2>1, <2>2, <2>3, <2>4 DEF Next
<1> QED BY <1>1, InvariantHolds, PTL DEF Spec, IdsAreStable

-----------------------------------------------------------------------------
(* Shell: what a user clicks is what opens.                                *)
(* Every step of Shell is one of Inventory or leaves the inventory alone,  *)
(* so the invariant of Inventory is at hand.                               *)

Clicks == [kind : {"source", "frame"}, id : Nat, url : Urls \cup {NoUrl}]

\* The texts' ids are sources; the host waits for what it may ask.
ShellShape ==
    /\ shown \in [rows : Seq(Urls \cup {NoUrl}), selected : Nat \cup {None},
                  text : Nat \cup {None}]
    /\ pending \in Seq(Clicks) /\ inbox \in Seq(Clicks)
    /\ DOMAIN texts \subseteq Ids
    /\ opening \in Ids \cup {None}

\* A row, or a click on its way, names a source by its URL.
RowsNamed(rows) == Len(rows) <= Len(entries) /\ \A i \in 1..Len(rows) : entries[i].url = rows[i]
Names(click) == click.kind = "source" => click.id \in Ids /\ entries[click.id].url = click.url
Named(line) == \A j \in 1..Len(line) : Names(line[j])

\* Nothing is opened before the host subscribes.
ShellPhases ==
    /\ host # "subscribed" => texts = <<>> /\ opening = None
    /\ host \in {"seeded", "subscribed"} => Len(shown.rows) = Len(entries)

\* A source without a URL is a script.
OnlyEvalsUnnamed == \A i \in Ids : entries[i].url = NoUrl => entries[i].kind = "script"

\* What the store has of the first page is true of it.
TextIsTheirs(id) ==
    /\ texts[id].script \in DOMAIN loaded
    /\ IF entries[id].url = NoUrl THEN texts[id].script = entries[id].script
       ELSE loaded[texts[id].script] = entries[id].url
TextsAreTrue == page = 0 => \A id \in DOMAIN texts : TextIsTheirs(id)

ShellInv ==
    /\ InventoryInv
    /\ ShellShape
    /\ ShellPhases
    /\ RowsNamed(shown.rows) /\ Named(pending) /\ Named(inbox)
    /\ shown.text \in {None, shown.selected}
    /\ OnlyEvalsUnnamed
    /\ TextsAreTrue

-----------------------------------------------------------------------------
LEMMA ShellInitInv == ShellInit => ShellInv
<1> SUFFICES ASSUME ShellInit PROVE ShellInv
  OBVIOUS
<1>1. InventoryInv  BY InitInv DEF ShellInit
<1>2. Len(entries) = 0 /\ Ids = {} /\ host = "new"  BY EmptySeq DEF ShellInit, Init, Ids
<1>3. <<>> \in Seq(Urls \cup {NoUrl}) /\ <<>> \in Seq(Clicks) /\ Len(<<>>) = 0
  BY EmptySeq
<1>4. ShellShape /\ ShellPhases
  BY <1>2, <1>3, ShellConstants DEF ShellInit, ShellShape, ShellPhases
<1>5. RowsNamed(shown.rows) /\ Named(pending) /\ Named(inbox) /\ shown.text \in {None, shown.selected}
  BY <1>2, <1>3 DEF ShellInit, RowsNamed, Named
<1>6. OnlyEvalsUnnamed /\ TextsAreTrue
  BY <1>2 DEF ShellInit, OnlyEvalsUnnamed, TextsAreTrue
<1> QED BY <1>1, <1>4, <1>5, <1>6 DEF ShellInv

\* The facts every step below uses.
LEMMA ShellTypes ==
    ASSUME ShellInv
    PROVE  /\ InventoryInv /\ TypeOK /\ IndexesAgree
           /\ Len(entries) \in Nat /\ Ids = 1..Len(entries) /\ entries \in Seq(Entry)
           /\ \A i \in Ids : entries[i].url \in Urls \cup {NoUrl} /\ entries[i].kind \in Kinds
                               /\ entries[i].script \in ScriptIds \cup {NoScript}
           /\ Len(loaded) \in Nat /\ DOMAIN loaded = 1..Len(loaded)
           /\ NoUrl \notin Urls /\ None \notin Nat
<1>1. InventoryInv /\ TypeOK /\ IndexesAgree  BY InvTypes DEF ShellInv, InventoryInv
<1>2. Len(entries) \in Nat /\ Len(loaded) \in Nat /\ DOMAIN loaded = 1..Len(loaded)
  BY <1>1, InvTypes
<1>3. \A i \in 1..Len(entries) : entries[i] \in Entry  BY <1>1, ElementOfSeq DEF TypeOK
<1>4. \A i \in 1..Len(entries) : entries[i].url \in Urls \cup {NoUrl} /\ entries[i].kind \in Kinds
                                   /\ entries[i].script \in ScriptIds \cup {NoScript}
  BY <1>3 DEF Entry
<1> QED BY <1>1, <1>2, <1>4, InventoryConstants, ShellConstants DEF Ids, TypeOK

\* The rows of a tree are the URLs of its entries.
LEMMA RowsOf ==
    ASSUME NEW es \in Seq(Entry)
    PROVE  /\ Rows(es) \in Seq(Urls \cup {NoUrl}) /\ Len(Rows(es)) = Len(es)
           /\ \A i \in 1..Len(es) : Rows(es)[i] = es[i].url
<1>1. Len(es) \in Nat /\ DOMAIN es = 1..Len(es)  BY LenProperties
<1>2. \A i \in 1..Len(es) : es[i].url \in Urls \cup {NoUrl}
  <2>1. \A i \in 1..Len(es) : es[i] \in Entry  BY ElementOfSeq
  <2> QED BY <2>1 DEF Entry
<1>3. Rows(es) \in [1..Len(es) -> Urls \cup {NoUrl}]  BY <1>1, <1>2 DEF Rows
<1>4. Rows(es) \in Seq(Urls \cup {NoUrl}) /\ Len(Rows(es)) = Len(es)
  BY <1>1, <1>3, SeqDef, LenProperties
<1> QED BY <1>1, <1>4 DEF Rows

\* A click of Frame is well formed, and names what it shows.
LEMMA ClicksAreNamed ==
    ASSUME ShellInv,
           NEW click \in {OpenSource(id) : id \in DOMAIN shown.rows} \cup {SelectFrame}
    PROVE  click \in Clicks /\ Names(click)
<1>1. CASE click = SelectFrame
  BY <1>1 DEF SelectFrame, Clicks, Names
<1>2. ASSUME NEW id \in DOMAIN shown.rows, click = OpenSource(id)
      PROVE  click \in Clicks /\ Names(click)
  <2>1. shown.rows \in Seq(Urls \cup {NoUrl})  BY DEF ShellInv, ShellShape
  <2>2. id \in 1..Len(shown.rows) /\ shown.rows[id] \in Urls \cup {NoUrl}
    BY <1>2, <2>1, LenProperties, ElementOfSeq
  <2>3. id \in Ids /\ entries[id].url = shown.rows[id] /\ id \in Nat
    BY <2>1, <2>2, ShellTypes, LenProperties DEF ShellInv, RowsNamed
  <2> QED BY <1>2, <2>2, <2>3 DEF OpenSource, Clicks, Names
<1> QED BY <1>1, <1>2

\* Two lines of clicks, one behind the other.
LEMMA LinesJoin ==
    ASSUME NEW p \in Seq(Clicks), NEW q \in Seq(Clicks)
    PROVE  /\ p \o q \in Seq(Clicks)
           /\ Named(p) /\ Named(q) => Named(p \o q)
           /\ p # <<>> => /\ Tail(p) \in Seq(Clicks) /\ Head(p) \in Clicks
                          /\ Named(p) => Named(Tail(p)) /\ Names(Head(p))
<1>1. Len(p) \in Nat /\ Len(q) \in Nat  BY LenProperties
<1>2. /\ p \o q \in Seq(Clicks) /\ Len(p \o q) = Len(p) + Len(q)
      /\ \A i \in 1..(Len(p) + Len(q)) : (p \o q)[i] = IF i <= Len(p) THEN p[i] ELSE q[i - Len(p)]
  BY ConcatProperties
<1>3. ASSUME Named(p), Named(q) PROVE Named(p \o q)
  <2> SUFFICES ASSUME NEW i \in 1..(Len(p) + Len(q)) PROVE Names((p \o q)[i])
    BY <1>2 DEF Named
  <2>1. CASE i <= Len(p)  BY <1>1, <1>2, <1>3, <2>1 DEF Named
  <2>2. CASE ~(i <= Len(p))
    <3>1. i - Len(p) \in 1..Len(q) /\ (p \o q)[i] = q[i - Len(p)]  BY <1>1, <1>2, <2>2
    <3> QED BY <1>3, <3>1 DEF Named
  <2> QED BY <2>1, <2>2
<1>4. ASSUME p # <<>>
      PROVE  /\ Tail(p) \in Seq(Clicks) /\ Head(p) \in Clicks
             /\ Named(p) => Named(Tail(p)) /\ Names(Head(p))
  <2>1. /\ Head(p) \in Clicks /\ Tail(p) \in Seq(Clicks) /\ Len(Tail(p)) = Len(p) - 1
        /\ \A i \in 1..Len(Tail(p)) : Tail(p)[i] = p[i + 1]
        /\ Head(p) = p[1] /\ Len(p) # 0
    BY <1>4, HeadTailProperties, EmptySeq
  <2>2. \A i \in 1..Len(Tail(p)) : i + 1 \in 1..Len(p)  BY <1>1, <2>1
  <2>3. 1 \in 1..Len(p)  BY <1>1, <2>1
  <2> QED BY <2>1, <2>2, <2>3 DEF Named
<1> QED BY <1>2, <1>3, <1>4

-----------------------------------------------------------------------------
(* Steps that leave the inventory alone *)

\* What a step that moves only clicks, the snapshot and the texts keeps.
LEMMA InventoryStands ==
    ASSUME ShellInv, UNCHANGED vars
    PROVE  /\ InventoryInv' /\ OnlyEvalsUnnamed'
           /\ UNCHANGED <<page, loaded, host, entries>>
           /\ Ids' = Ids
<1>1. InventoryInv'  BY ShellTypes, StepKeepsInv
<1>2. UNCHANGED <<page, loaded, host, entries>>
  BY DEF vars, debuggeeVars, hostVars, inventoryVars
<1> QED BY <1>1, <1>2 DEF ShellInv, OnlyEvalsUnnamed, Ids

LEMMA FrameKeepsInv ==
    ASSUME ShellInv, Frame
    PROVE  ShellInv'
<1> USE InventoryStands, ShellTypes
<1>1. UNCHANGED <<vars, shown, opening, texts>> /\ inbox' = inbox \o pending
  BY DEF Frame
<1>2. pending' \in Seq(Clicks) /\ Named(pending')
  <2>1. CASE pending' = <<>>  BY <2>1, EmptySeq DEF Named
  <2>2. CASE \E click \in {OpenSource(id) : id \in DOMAIN shown.rows} \cup {SelectFrame} :
               pending' = <<click>>
    <3>1. PICK click \in {OpenSource(id) : id \in DOMAIN shown.rows} \cup {SelectFrame} :
            pending' = <<click>>
      BY <2>2
    <3>2. click \in Clicks /\ Names(click)  BY ClicksAreNamed
    <3> QED BY <3>1, <3>2 DEF Named
  <2> QED BY <2>1, <2>2 DEF Frame
<1>3. inbox' \in Seq(Clicks) /\ Named(inbox')
  BY <1>1, LinesJoin DEF ShellInv, ShellShape
<1>4. ShellShape' /\ ShellPhases' /\ RowsNamed(shown.rows)' /\ (shown.text \in {None, shown.selected})'
  BY <1>1, <1>2, <1>3 DEF ShellInv, ShellShape, ShellPhases, RowsNamed
<1>5. Named(pending)' /\ Named(inbox)'
  BY <1>1, <1>2, <1>3 DEF Named, Names
<1>6. TextsAreTrue'
  BY <1>1 DEF ShellInv, TextsAreTrue, TextIsTheirs
<1> QED BY <1>1, <1>4, <1>5, <1>6 DEF ShellInv

\* A publication of the tree as it is, with something selected.
LEMMA PublicationIsSound ==
    ASSUME ShellInv, UNCHANGED vars,
           NEW id \in Nat, NEW text \in {None, id}, Publishes(id, text)
    PROVE  /\ shown' \in [rows : Seq(Urls \cup {NoUrl}), selected : Nat \cup {None},
                          text : Nat \cup {None}]
           /\ Len(shown'.rows) = Len(entries)
           /\ RowsNamed(shown.rows)' /\ (shown.text \in {None, shown.selected})'
<1>1. Rows(entries) \in Seq(Urls \cup {NoUrl}) /\ Len(Rows(entries)) = Len(entries)
      /\ \A i \in 1..Len(entries) : Rows(entries)[i] = entries[i].url
  BY ShellTypes, RowsOf
<1>2. UNCHANGED entries  BY InventoryStands
<1>3. shown' = [rows |-> Rows(entries), selected |-> id, text |-> text]  BY DEF Publishes
<1>4. shown'.rows = Rows(entries) /\ shown'.selected = id /\ shown'.text = text  BY <1>3
<1> QED BY <1>1, <1>2, <1>3, <1>4, ShellTypes DEF RowsNamed

LEMMA TakesKeepsInv ==
    ASSUME ShellInv, HostTakes
    PROVE  ShellInv'
<1> USE InventoryStands, ShellTypes
<1> DEFINE click == Head(inbox)
<1>1. /\ UNCHANGED <<vars, pending, clicks, texts>> /\ inbox # <<>> /\ inbox' = Tail(inbox)
      /\ host = "subscribed" /\ opening = None
  BY DEF HostTakes
<1>2. inbox' \in Seq(Clicks) /\ Named(inbox') /\ click \in Clicks
  BY <1>1, LinesJoin DEF ShellInv, ShellShape
<1>3. click.id \in Nat  BY <1>2 DEF Clicks
<1>4. /\ shown' \in [rows : Seq(Urls \cup {NoUrl}), selected : Nat \cup {None},
                     text : Nat \cup {None}]
      /\ Len(shown'.rows) = Len(entries)
      /\ RowsNamed(shown.rows)' /\ (shown.text \in {None, shown.selected})'
      /\ opening' \in Ids \cup {None}
  <2>1. CASE UNCHANGED <<shown, opening>>
    BY <1>1, <2>1 DEF ShellInv, ShellShape, ShellPhases, RowsNamed
  <2>2. CASE /\ \E text \in Known(click.id) : Publishes(click.id, text)
             /\ UNCHANGED opening
    <3>1. PICK text \in Known(click.id) : Publishes(click.id, text)  BY <2>2
    <3>2. text \in {None, click.id}  BY <3>1 DEF Known
    <3> HIDE DEF click
    <3> QED BY <1>1, <1>3, <2>2, <3>1, <3>2, PublicationIsSound
  <2>3. CASE click.id \in Fetchable /\ opening' = click.id /\ UNCHANGED shown
    <3>1. opening' \in Ids  BY <2>3 DEF Fetchable
    <3> QED BY <1>1, <2>3, <3>1 DEF ShellInv, ShellShape, ShellPhases, RowsNamed
  <2> QED BY <2>1, <2>2, <2>3 DEF HostTakes
<1>5. ShellShape' /\ ShellPhases' /\ Named(pending)' /\ Named(inbox)'
  <2>1. Named(pending)' /\ Named(inbox)'
    BY <1>1, <1>2 DEF ShellInv, Named, Names
  <2>2. ShellShape'  BY <1>1, <1>2, <1>4 DEF ShellInv, ShellShape
  <2>3. ShellPhases'  BY <1>1, <1>4 DEF ShellPhases
  <2> QED BY <2>1, <2>2, <2>3
<1>6. TextsAreTrue'
  BY <1>1 DEF ShellInv, TextsAreTrue, TextIsTheirs
<1> QED BY <1>1, <1>4, <1>5, <1>6 DEF ShellInv

\* What the debuggee answers is true of the first page, because what the entries
\* say is.
LEMMA OpensKeepsInv ==
    ASSUME ShellInv, HostOpens
    PROVE  ShellInv'
<1> USE InventoryStands, ShellTypes
<1>1. UNCHANGED <<vars, pending, inbox, clicks>> /\ opening # None /\ opening' = None
  BY DEF HostOpens
<1>2. opening \in Ids /\ opening \in Nat /\ host = "subscribed"
  BY <1>1 DEF ShellInv, ShellShape, ShellPhases
<1>3. ASSUME NEW s \in Asked(entries[opening]),
             texts' = Put(texts, opening, [page |-> page, script |-> s]),
             Publishes(opening, opening)
      PROVE  ShellInv'
  <2>1. /\ DOMAIN texts' = DOMAIN texts \cup {opening}
        /\ texts'[opening] = [page |-> page, script |-> s]
        /\ \A id \in DOMAIN texts : id # opening => texts'[id] = texts[id]
    BY <1>3 DEF Put
  <2>2. ASSUME page = 0, NEW id \in DOMAIN texts' PROVE TextIsTheirs(id)'
    <3>1. CASE id # opening
      <4>1. TextIsTheirs(id)  BY <2>1, <2>2, <3>1 DEF ShellInv, TextsAreTrue
      <4> QED BY <1>1, <2>1, <3>1, <4>1 DEF TextIsTheirs
    <3>2. CASE id = opening
      <4> DEFINE e == entries[opening]
      <4>1. texts'[id].script = s  BY <2>1, <3>2
      <4>2. CASE e.kind = "script"
        <5>1. s = e.script /\ s \in DOMAIN loaded  BY <1>3, <4>2 DEF Asked
        <5>2. s # NoScript
          <6>1. s \in ScriptIds  BY <5>1, InvTypes DEF TypeOK
          <6> QED BY <6>1, InventoryConstants DEF ScriptIds
        <5>3. loaded[s] = e.url
          BY <1>2, <2>2, <5>1, <5>2 DEF ShellInv, InventoryInv, FirstPage
        <5> QED BY <1>1, <3>2, <4>1, <5>1, <5>3 DEF TextIsTheirs
      <4>3. CASE e.kind # "script"
        <5>1. s \in DOMAIN loaded /\ loaded[s] = e.url  BY <1>3, <4>3 DEF Asked
        <5>2. e.url # NoUrl  BY <1>2, <4>3 DEF ShellInv, OnlyEvalsUnnamed
        <5> QED BY <1>1, <3>2, <4>1, <5>1, <5>2 DEF TextIsTheirs
      <4> QED BY <4>2, <4>3
    <3> QED BY <3>1, <3>2
  <2>4. TextsAreTrue'  BY <1>1, <2>2 DEF TextsAreTrue
  <2>5. /\ shown' \in [rows : Seq(Urls \cup {NoUrl}), selected : Nat \cup {None},
                       text : Nat \cup {None}]
        /\ Len(shown'.rows) = Len(entries)
        /\ RowsNamed(shown.rows)' /\ (shown.text \in {None, shown.selected})'
    BY <1>1, <1>2, <1>3, PublicationIsSound
  <2>6. ShellShape' /\ ShellPhases' /\ Named(pending)' /\ Named(inbox)'
    <3>1. Named(pending)' /\ Named(inbox)'  BY <1>1 DEF ShellInv, Named, Names
    <3>2. ShellShape'  BY <1>1, <1>2, <2>1, <2>5 DEF ShellInv, ShellShape
    <3>3. ShellPhases'  BY <1>1, <1>2, <2>5 DEF ShellPhases
    <3> QED BY <3>1, <3>2, <3>3
  <2> QED BY <1>1, <2>4, <2>5, <2>6 DEF ShellInv
<1>4. ASSUME UNCHANGED texts, NEW text \in Known(opening), Publishes(opening, text)
      PROVE  ShellInv'
  <2>1. text \in {None, opening}  BY <1>4 DEF Known
  <2>2. /\ shown' \in [rows : Seq(Urls \cup {NoUrl}), selected : Nat \cup {None},
                       text : Nat \cup {None}]
        /\ Len(shown'.rows) = Len(entries)
        /\ RowsNamed(shown.rows)' /\ (shown.text \in {None, shown.selected})'
    BY <1>1, <1>2, <1>4, <2>1, PublicationIsSound
  <2>3. ShellShape' /\ ShellPhases' /\ Named(pending)' /\ Named(inbox)'
    <3>1. Named(pending)' /\ Named(inbox)'  BY <1>1 DEF ShellInv, Named, Names
    <3>2. ShellShape'  BY SMTT(30), <1>1, <1>2, <1>4, <2>2 DEF ShellInv, ShellShape
    <3>3. ShellPhases'  BY <1>1, <1>2, <2>2 DEF ShellPhases
    <3> QED BY <3>1, <3>2, <3>3
  <2>4. TextsAreTrue'
    BY <1>1, <1>4 DEF ShellInv, TextsAreTrue, TextIsTheirs
  <2> QED BY <1>1, <2>2, <2>3, <2>4 DEF ShellInv
<1> QED BY <1>3, <1>4 DEF HostOpens

-----------------------------------------------------------------------------
(* Steps that move the debuggee, or the inventory *)

\* The debuggee, and the host's attach but for its seeding: entries stand, and
\* the page only grows, until it is left.
LEMMA DebuggeeKeepsInv ==
    ASSUME ShellInv, UNCHANGED shellVars,
           \/ DebuggeeParses \/ DebuggeeSaysMore \/ DebuggeeNavigates
           \/ HostEnables \/ HostAnswered \/ HostSubscribes
    PROVE  ShellInv'
<1> USE ShellTypes
<1>1. UNCHANGED <<shown, pending, inbox, clicks, opening, texts>>  BY DEF shellVars
<1>2. UNCHANGED entries /\ Ids' = Ids
  BY DEF DebuggeeParses, DebuggeeSaysMore, DebuggeeNavigates, HostEnables, HostAnswered, HostSubscribes,
         inventoryVars, Ids
<1>3. InventoryInv'
  <2>1. [Next]_vars  BY DEF Next
  <2> QED BY <2>1, StepKeepsInv
<1>4. ShellShape' /\ RowsNamed(shown.rows)' /\ (shown.text \in {None, shown.selected})'
  BY <1>1, <1>2 DEF ShellInv, ShellShape, RowsNamed
<1>5. Named(pending)' /\ Named(inbox)' /\ OnlyEvalsUnnamed'
  BY <1>1, <1>2 DEF ShellInv, Named, Names, OnlyEvalsUnnamed
<1>6. ShellPhases'
  <2>1. \/ host' = host
        \/ host \in {"new", "enabled"} /\ host' \in {"enabled", "answered"}
        \/ host = "seeded" /\ host' = "subscribed"
    BY DEF DebuggeeParses, DebuggeeSaysMore, DebuggeeNavigates, HostEnables, HostAnswered, HostSubscribes
  <2> QED BY <1>1, <1>2, <2>1 DEF ShellInv, ShellPhases
<1>7. TextsAreTrue'
  <2>1. CASE DebuggeeParses
    <3>1. PICK u \in Urls \cup {NoUrl} : loaded' = Append(loaded, u)  BY <2>1 DEF DebuggeeParses
    <3>2. loaded' \in Seq(Urls \cup {NoUrl}) /\ Len(loaded') = Len(loaded) + 1
          /\ \A i \in 1..Len(loaded) : loaded'[i] = loaded[i]
      BY <3>1, AppendProperties DEF TypeOK
    <3>3. DOMAIN loaded' = 1..(Len(loaded) + 1)  BY <3>2, LenProperties
    <3>4. page' = page  BY <2>1 DEF DebuggeeParses
    <3>5. ASSUME NEW id \in DOMAIN texts, TextIsTheirs(id) PROVE TextIsTheirs(id)'
      BY <1>1, <1>2, <3>2, <3>3, <3>5 DEF TextIsTheirs
    <3> QED BY <1>1, <3>4, <3>5 DEF ShellInv, TextsAreTrue
  <2>2. CASE DebuggeeNavigates
    <3>1. page' # 0  BY <2>2, InventoryConstants DEF DebuggeeNavigates, TypeOK
    <3> QED BY <3>1 DEF TextsAreTrue
  <2>3. CASE DebuggeeSaysMore \/ HostEnables \/ HostAnswered \/ HostSubscribes
    <3>1. UNCHANGED <<page, loaded>>
      BY <2>3 DEF DebuggeeSaysMore, HostEnables, HostAnswered, HostSubscribes, debuggeeVars
    <3> QED BY <1>1, <1>2, <3>1 DEF ShellInv, TextsAreTrue, TextIsTheirs
  <2> QED BY <2>1, <2>2, <2>3
<1> QED BY <1>3, <1>4, <1>5, <1>6, <1>7 DEF ShellInv

\* What holds of the window when the entries grow and keep their URLs, and the
\* tree is published from them, or stays while their number does.
LEMMA WindowFollows ==
    ASSUME ShellInv, UNCHANGED <<pending, inbox>>,
           entries' \in Seq(Entry),
           \A i \in Ids : i \in Ids' /\ entries'[i].url = entries[i].url,
           PublishesTree \/ (UNCHANGED shown /\ Len(entries') = Len(entries))
    PROVE  /\ shown' \in [rows : Seq(Urls \cup {NoUrl}), selected : Nat \cup {None},
                          text : Nat \cup {None}]
           /\ RowsNamed(shown.rows)' /\ Named(pending)' /\ Named(inbox)'
           /\ (shown.text \in {None, shown.selected})'
           /\ PublishesTree => Len(shown'.rows) = Len(entries')
<1> USE ShellTypes
<1>1. Len(entries') \in Nat /\ Ids' = 1..Len(entries')  BY LenProperties DEF Ids
<1>2. shown \in [rows : Seq(Urls \cup {NoUrl}), selected : Nat \cup {None}, text : Nat \cup {None}]
  BY DEF ShellInv, ShellShape
<1>3. Named(pending)' /\ Named(inbox)'
  <2>1. \A click : Names(click) => (click.kind = "source" => /\ click.id \in Ids'
                                                           /\ entries'[click.id].url = click.url)
    BY DEF Names
  <2>2. Named(pending)'
    <3>1. Named(pending) /\ pending' = pending  BY DEF ShellInv
    <3> QED BY ONLY <2>1, <3>1 DEF Named, Names
  <2>3. Named(inbox)'
    <3>1. Named(inbox) /\ inbox' = inbox  BY DEF ShellInv
    <3> QED BY ONLY <2>1, <3>1 DEF Named, Names
  <2> QED BY <2>2, <2>3
<1>4. CASE PublishesTree
  <2>1. /\ Rows(entries') \in Seq(Urls \cup {NoUrl}) /\ Len(Rows(entries')) = Len(entries')
        /\ \A i \in 1..Len(entries') : Rows(entries')[i] = entries'[i].url
    <3>1. \A es \in Seq(Entry) :
            /\ Rows(es) \in Seq(Urls \cup {NoUrl}) /\ Len(Rows(es)) = Len(es)
            /\ \A i \in 1..Len(es) : Rows(es)[i] = es[i].url
      BY RowsOf
    <3> QED BY <3>1
  <2>2. shown'.rows = Rows(entries') /\ shown'.selected = shown.selected /\ shown'.text = shown.text
    BY <1>2, <1>4 DEF PublishesTree
  <2>3. shown' \in [rows : Seq(Urls \cup {NoUrl}), selected : Nat \cup {None}, text : Nat \cup {None}]
    BY <1>2, <1>4, <2>1 DEF PublishesTree
  <2> QED BY <1>1, <1>3, <2>1, <2>2, <2>3 DEF ShellInv, RowsNamed
<1>5. CASE UNCHANGED shown /\ Len(entries') = Len(entries) /\ ~PublishesTree
  <2>1. shown.rows \in Seq(Urls \cup {NoUrl})  BY <1>2
  <2>2. Len(shown.rows) \in Nat  BY <2>1, LenProperties
  <2>3. RowsNamed(shown.rows)'  BY <1>1, <1>5, <2>2 DEF ShellInv, RowsNamed
  <2> QED BY <1>2, <1>3, <1>5, <2>3 DEF ShellInv
<1> QED BY <1>4, <1>5

LEMMA SeedsKeepsInv ==
    ASSUME ShellInv, ShellSeeds
    PROVE  ShellInv'
<1> USE ShellTypes
<1>1. /\ PublishesTree /\ UNCHANGED <<pending, inbox, clicks, opening, texts>>
      /\ HostSeeds /\ host = "answered" /\ host' = "seeded" /\ UNCHANGED page
      /\ ResourceTree(tree) /\ tree \in SUBSET Urls /\ IsFiniteSet(tree)
  BY DEF ShellSeeds, HostSeeds, debuggeeVars, InventoryInv, Shape, TypeOK
<1>2. /\ entries' \in Seq(Entry)
      /\ \A i \in Ids' : i \notin Ids => entries'[i].url \in Urls
      /\ \A i \in Ids : i \in Ids' /\ entries'[i].url = entries[i].url
                          /\ (entries[i].url = NoUrl => entries'[i] = entries[i])
  BY <1>1, TreeIsListed
<1>3. InventoryInv'
  <2>1. [Next]_vars  BY <1>1 DEF Next
  <2> QED BY <2>1, StepKeepsInv
<1>4. texts = <<>> /\ opening = None  BY <1>1 DEF ShellInv, ShellPhases
<1>5. /\ shown' \in [rows : Seq(Urls \cup {NoUrl}), selected : Nat \cup {None},
                     text : Nat \cup {None}]
      /\ RowsNamed(shown.rows)' /\ Named(pending)' /\ Named(inbox)'
      /\ (shown.text \in {None, shown.selected})'
      /\ Len(shown'.rows) = Len(entries')
  BY <1>1, <1>2, WindowFollows
<1>6. Ids' \subseteq Nat  BY <1>2, LenProperties DEF Ids
<1>7. ShellShape'
  <2>1. DOMAIN texts' = {}  BY <1>1, <1>4
  <2>2. opening' = None /\ opening' \notin Ids'  BY <1>1, <1>4, <1>6
  <2> QED BY <1>1, <1>5, <2>1, <2>2 DEF ShellInv, ShellShape
<1>8. ShellPhases'  BY <1>1, <1>4, <1>5 DEF ShellPhases
<1>9. OnlyEvalsUnnamed'
  <2>1. ASSUME NEW i \in Ids', entries'[i].url = NoUrl
        PROVE  entries'[i].kind = "script"
    <3>1. i \in Ids  BY <2>1, <1>2, InventoryConstants
    <3>2. entries'[i] = entries[i]  BY <2>1, <3>1, <1>2
    <3> QED BY <2>1, <3>1, <3>2 DEF ShellInv, OnlyEvalsUnnamed
  <2> QED BY <2>1 DEF OnlyEvalsUnnamed
<1>10. TextsAreTrue'  BY <1>1, <1>4 DEF TextsAreTrue
<1> QED BY <1>3, <1>5, <1>7, <1>8, <1>9, <1>10 DEF ShellInv

LEMMA FoldsKeepsInv ==
    ASSUME ShellInv, ShellFolds
    PROVE  ShellInv'
<1> USE ShellTypes
<1>1. /\ opening = None /\ opening' = None /\ UNCHANGED <<pending, inbox, texts>>
      /\ ring # <<>> /\ ScriptParsed(Head(ring).script, Head(ring).url) /\ PublishesTree
      /\ UNCHANGED <<page, loaded, host>>
      /\ host = "subscribed"
  BY DEF ShellFolds, HostFolds, debuggeeVars, ShellInv, InventoryInv, Phases
<1>2. InventoryInv'
  <2>1. [Next]_vars  BY DEF ShellFolds, Next
  <2> QED BY <2>1, StepKeepsInv
<1>3. entries' \in Seq(Entry)  BY <1>2 DEF InventoryInv, Shape, TypeOK
<1>4. Head(ring) \in Events  BY <1>1, HeadTailProperties DEF TypeOK
<1>5. PICK s \in ScriptIds, u \in Urls \cup {NoUrl} :
        Head(ring).script = s /\ Head(ring).url = u
  BY <1>4, EventShape
<1>6. PICK id \in 1..Len(entries') : Lists(s, u, id)
  <2>1. ScriptParsed(s, u)  BY <1>1, <1>5
  <2> QED BY <2>1, ScriptIsListed
<1>7. /\ entries'[id] = [url |-> u, script |-> s, kind |-> "script"]
      /\ \A i \in Ids : i # id => entries'[i] = entries[i]
      /\ id \in Ids => Len(entries') = Len(entries) /\ u \in Urls /\ entries[id].url = u
      /\ id \notin Ids => id = Len(entries) + 1 /\ Len(entries') = id
  BY <1>6 DEF Lists, TypeOK
<1>8. /\ \A i \in Ids : i \in Ids' /\ entries'[i].url = entries[i].url
      /\ \A i \in Ids' : i = id \/ i \in Ids
      /\ Ids' \subseteq Nat
  BY <1>7, <1>3, LenProperties DEF Ids
<1>9. /\ shown' \in [rows : Seq(Urls \cup {NoUrl}), selected : Nat \cup {None},
                     text : Nat \cup {None}]
      /\ RowsNamed(shown.rows)' /\ Named(pending)' /\ Named(inbox)'
      /\ (shown.text \in {None, shown.selected})'
      /\ Len(shown'.rows) = Len(entries')
  BY <1>1, <1>3, <1>8, WindowFollows
<1>10. ShellShape'
  BY <1>1, <1>8, <1>9, ShellConstants DEF ShellInv, ShellShape
<1>11. ShellPhases'  BY <1>1, <1>9 DEF ShellPhases
<1>12. OnlyEvalsUnnamed'  BY <1>7, <1>8 DEF ShellInv, OnlyEvalsUnnamed
<1>13. TextsAreTrue'
  <2> SUFFICES ASSUME page = 0, NEW i \in DOMAIN texts PROVE TextIsTheirs(i)'
    BY <1>1 DEF TextsAreTrue
  <2>1. TextIsTheirs(i) /\ i \in Ids  BY DEF ShellInv, TextsAreTrue, ShellShape
  <2>2. entries'[i].url = entries[i].url
        /\ (entries[i].url = NoUrl => entries'[i].script = entries[i].script)
    BY <2>1, <1>7, <1>8
  <2> QED BY <1>1, <2>1, <2>2 DEF TextIsTheirs
<1> QED BY <1>2, <1>9, <1>10, <1>11, <1>12, <1>13 DEF ShellInv

LEMMA ShellStepKeepsInv == ShellInv /\ [ShellNext]_<<vars, shellVars>> => ShellInv'
<1> SUFFICES ASSUME ShellInv, [ShellNext]_<<vars, shellVars>> PROVE ShellInv'
  OBVIOUS
<1>1. CASE ShellNext
  BY <1>1, DebuggeeKeepsInv, SeedsKeepsInv, FoldsKeepsInv, FrameKeepsInv, TakesKeepsInv,
     OpensKeepsInv
  DEF ShellNext
<1>2. CASE UNCHANGED <<vars, shellVars>>
  <2>1. UNCHANGED <<vars, shown, pending, inbox, clicks, opening, texts>>
    BY <1>2 DEF shellVars
  <2>2. ShellShape' /\ ShellPhases' /\ RowsNamed(shown.rows)' /\ (shown.text \in {None, shown.selected})'
    BY <2>1, InventoryStands DEF ShellInv, ShellShape, ShellPhases, RowsNamed
  <2>3. Named(pending)' /\ Named(inbox)'
    BY <2>1, InventoryStands DEF ShellInv, Named, Names
  <2>4. TextsAreTrue'
    BY <2>1, InventoryStands DEF ShellInv, TextsAreTrue, TextIsTheirs
  <2> QED BY <2>1, <2>2, <2>3, <2>4, InventoryStands DEF ShellInv
<1> QED BY <1>1, <1>2

-----------------------------------------------------------------------------
(* The theorems *)

THEOREM ShellInvariantHolds == ShellSpec => []ShellInv
BY ShellInitInv, ShellStepKeepsInv, PTL DEF ShellSpec

\* Composed with the window, the host feeds the inventory as Inventory says.
THEOREM ShellImplementsInventory == ShellSpec => Spec
<1>1. ShellInit => Init  BY DEF ShellInit
<1>2. [ShellNext]_<<vars, shellVars>> => [Next]_vars
  BY DEF ShellNext, Next, ShellSeeds, ShellFolds, Frame, HostTakes, HostOpens
<1> QED BY <1>1, <1>2, PTL DEF ShellSpec, Spec

\* A row of the tree, and a click on its way, is the source it says.
THEOREM ClicksAlwaysReachTheirSource == ShellSpec => []ClicksReachTheirSource
<1>1. ASSUME ShellInv PROVE ClicksReachTheirSource
  <2> USE ShellTypes
  <2>1. pending \in Seq(Clicks) /\ inbox \in Seq(Clicks) /\ shown.rows \in Seq(Urls \cup {NoUrl})
    BY <1>1 DEF ShellInv, ShellShape
  <2>2. DOMAIN shown.rows = 1..Len(shown.rows) /\ Len(shown.rows) \in Nat  BY <2>1, LenProperties
  <2>3. \A i \in DOMAIN shown.rows : i \in Ids /\ entries[i].url = shown.rows[i]
    BY <1>1, <2>2 DEF ShellInv, RowsNamed
  <2>4. Named(pending \o inbox) /\ pending \o inbox \in Seq(Clicks)
    BY <1>1, <2>1, LinesJoin DEF ShellInv
  <2>5. \A click \in ToSet(pending \o inbox) : Names(click)
    BY <2>4, LenProperties DEF ToSet, Named
  <2> QED BY <1>1, <2>3, <2>5 DEF ClicksReachTheirSource, Names, ShellInv, ShellPhases
<1> QED BY <1>1, ShellInvariantHolds, PTL

\* Until the page navigates, a text the store keeps is that of its source.
THEOREM TextsAreAlwaysTheirs == ShellSpec => []TextsAreTheirs
<1>1. ASSUME ShellInv PROVE TextsAreTheirs
  BY <1>1 DEF ShellInv, TextsAreTrue, TextIsTheirs, TextsAreTheirs
<1> QED BY <1>1, ShellInvariantHolds, PTL

-----------------------------------------------------------------------------
(* Source maps: what a resolver is *)

MapKeys == Nat \X Nat
MapPlaces == [source : Generated, line : Nat, column : Nat]
PlaceLists == {list \in Seq(MapPlaces) : list # <<>> /\ Distinct(list)}
Tables(A, B) == UNION {[D -> B] : D \in SUBSET A}
Indexes == Tables(MapKeys, PlaceLists)

TokensSorted(tokens) ==
    \A i, j \in 1..Len(tokens) : i < j => Before(tokens[i], tokens[j])
LoadedMaps ==
    {m \in [tokens : Seq(MapTokens), ids : UNION {[1..n -> Nat] : n \in Nat}] : TokensSorted(m.tokens)}

Resolvers ==
    [maps : Tables(Generated, LoadedMaps),
     byUrl : Tables(Authored, Nat),
     originals : Tables(Nat, Authored),
     reverse : Indexes,
     next : Nat]

\* Every authored file has the id that leads back to it.
FilesNumbered(q) ==
    /\ IsFiniteSet(DOMAIN q.originals)
    /\ \A u \in DOMAIN q.byUrl :
          q.byUrl[u] \in DOMAIN q.originals /\ q.originals[q.byUrl[u]] = u
    /\ \A id \in DOMAIN q.originals :
          q.originals[id] \in DOMAIN q.byUrl /\ q.byUrl[q.originals[id]] = id

\* What the index says, and what the maps do.
Leads(rev, key, dst) == key \in DOMAIN rev /\ InList(rev[key], dst)
Comes(m, g, key, dst) == \E n \in 1..Len(m.tokens) : Site(m, g, m.tokens[n], key, dst)
IndexOf(rev, maps) ==
    \A key \in MapKeys, dst \in MapPlaces :
        Leads(rev, key, dst) <=> \E g \in DOMAIN maps : Comes(maps[g], g, key, dst)

IdsKnown(q) == \A g \in DOMAIN q.maps : \A n \in DOMAIN q.maps[g].ids : q.maps[g].ids[n] \in DOMAIN q.originals

Sound(q) ==
    /\ q \in Resolvers
    /\ IsFiniteSet(DOMAIN q.maps)
    /\ FilesNumbered(q) /\ IdsKnown(q)
    /\ IndexOf(q.reverse, q.maps)

\* One more entry of a table.
OneMore(t, f, k, v) ==
    /\ DOMAIN t = DOMAIN f \cup {k} /\ t[k] = v
    /\ \A j \in DOMAIN f : j # k => t[j] = f[j]

LEMMA EnteredTyped ==
    ASSUME NEW A, NEW B, NEW f \in Tables(A, B), NEW k \in A, NEW v \in B
    PROVE  Entered(f, k, v) \in Tables(A, B) /\ OneMore(Entered(f, k, v), f, k, v)
<1>1. PICK D \in SUBSET A : f \in [D -> B]  BY DEF Tables
<1>2. D \cup {k} \in SUBSET A  OBVIOUS
<1>3. Entered(f, k, v) \in [D \cup {k} -> B]  BY <1>1 DEF Entered
<1>4. Entered(f, k, v) \in Tables(A, B)
  BY <1>2, <1>3 DEF Tables
<1>5. /\ DOMAIN Entered(f, k, v) = DOMAIN f \cup {k} /\ Entered(f, k, v)[k] = v
      /\ \A j \in DOMAIN f : j # k => Entered(f, k, v)[j] = f[j]
  BY <1>1 DEF Entered
<1> QED BY <1>4, <1>5 DEF OneMore

\* There is a number for the next file that no source has.
LEMMA FreshId ==
    ASSUME NEW q, q.next \in Nat, IsFiniteSet(DOMAIN q.maps), IsFiniteSet(DOMAIN q.originals)
    PROVE  AllocId(q) \in Nat /\ AllocId(q) \notin DOMAIN q.maps \cup DOMAIN q.originals
<1>1. PICK c \in Nat, d \in Nat : c = Cardinality(DOMAIN q.maps) /\ d = Cardinality(DOMAIN q.originals)
  BY FS_CardinalityType
<1>2. PICK from \in Nat : from = q.next  OBVIOUS
<1> DEFINE used == DOMAIN q.maps \cup DOMAIN q.originals
           range == from..(from + c + d)
<1>3. IsFiniteSet(used) /\ Cardinality(used) <= c + d
  <2>1. IsFiniteSet(used) /\ Cardinality(used) = c + d - Cardinality(DOMAIN q.maps \cap DOMAIN q.originals)
    BY <1>1, FS_Union
  <2>2. IsFiniteSet(DOMAIN q.maps \cap DOMAIN q.originals)  BY FS_Intersection
  <2>3. Cardinality(DOMAIN q.maps \cap DOMAIN q.originals) \in Nat  BY <2>2, FS_CardinalityType
  <2> HIDE DEF used
  <2> QED BY <2>1, <2>3
<1>4. Cardinality(range) = c + d + 1
  <2>1. PICK a \in Int, b \in Int : a = from /\ b = from + c + d  OBVIOUS
  <2>2. Cardinality(a..b) = IF a > b THEN 0 ELSE b - a + 1  BY FS_Interval
  <2> QED BY <2>1, <2>2
<1>5. ~(range \subseteq used)
  <2> SUFFICES ASSUME range \subseteq used PROVE FALSE
    OBVIOUS
  <2> HIDE DEF range, used
  <2>1. range \in SUBSET used  OBVIOUS
  <2>2. Cardinality(range) <= Cardinality(used)  BY <1>3, <2>1, FS_Subset
  <2>3. Cardinality(used) \in Nat  BY <1>3, FS_CardinalityType
  <2> QED BY <1>3, <1>4, <2>2, <2>3
<1>6. PICK n \in range \ used : \A m \in range \ used : n <= m
  <2>1. range \ used \in SUBSET Nat /\ range \ used # {}  BY <1>5
  <2> HIDE DEF range, used
  <2> QED BY <2>1, LeastNumber
<1>7. \A m \in from..(n - 1) : m \in used
  <2> SUFFICES ASSUME NEW m \in from..(n - 1), m \notin used PROVE FALSE
    OBVIOUS
  <2>1. m \in range /\ m < n /\ n \in Nat /\ m \in Nat  BY <1>6
  <2>2. n <= m  BY <1>6, <2>1
  <2> QED BY <2>1, <2>2
<1>8. \E k \in range : k \notin used /\ \A m \in from..(k - 1) : m \in used
  BY <1>6, <1>7
<1>9. AllocId(q) = CHOOSE k \in range : k \notin used /\ \A m \in from..(k - 1) : m \in used
  BY <1>1, <1>2 DEF AllocId
<1>10. AllocId(q) \in range /\ AllocId(q) \notin used
  BY <1>8, <1>9
<1> QED BY <1>10

-----------------------------------------------------------------------------
(* The authored sources of a map *)

\* A resolver that has numbered more files than r.
MoreNumbered(r) ==
    {q \in Resolvers :
        /\ q.maps = r.maps /\ q.reverse = r.reverse
        /\ FilesNumbered(q)
        /\ DOMAIN r.originals \subseteq DOMAIN q.originals}

EnsuredResult(q, r, p, url) ==
    /\ q \in MoreNumbered(r)
    /\ url \in DOMAIN q.byUrl /\ DOMAIN p.byUrl \subseteq DOMAIN q.byUrl

LEMMA EnsureKeeps ==
    ASSUME NEW r, IsFiniteSet(DOMAIN r.maps), NEW q \in MoreNumbered(r), NEW url \in Authored
    PROVE  EnsuredResult(EnsureOriginal(q, url), r, q, url)
<1>1. q \in Resolvers /\ q.maps = r.maps /\ q.reverse = r.reverse /\ FilesNumbered(q)
      /\ DOMAIN r.originals \subseteq DOMAIN q.originals
  BY DEF MoreNumbered
<1>2. CASE url \in DOMAIN q.byUrl
  BY <1>2 DEF EnsureOriginal, EnsuredResult
<1>3. CASE url \notin DOMAIN q.byUrl
  <2>1. PICK id \in Nat : id = AllocId(q) /\ id \notin DOMAIN q.originals
    BY <1>1, FreshId DEF Resolvers, FilesNumbered
  <2>2. PICK urlIds \in Tables(Authored, Nat) : urlIds = q.byUrl
    BY <1>1 DEF Resolvers
  <2>3. PICK originals \in Tables(Nat, Authored) : originals = q.originals
    BY <1>1 DEF Resolvers
  <2>4. PICK moreUrls \in Tables(Authored, Nat) :
          moreUrls = Entered(urlIds, url, id) /\ OneMore(moreUrls, urlIds, url, id)
    BY EnteredTyped
  <2>5. PICK more \in Tables(Nat, Authored) :
          more = Entered(originals, id, url) /\ OneMore(more, originals, id, url)
    BY EnteredTyped
  <2>6. PICK t \in Resolvers : t = EnsureOriginal(q, url)
                               /\ t.maps = q.maps /\ t.reverse = q.reverse
                               /\ t.byUrl = moreUrls /\ t.originals = more
    <3>1. EnsureOriginal(q, url) = [q EXCEPT !.byUrl = moreUrls, !.originals = more, !.next = id + 1]
      BY <1>3, <2>1, <2>2, <2>3, <2>4, <2>5 DEF EnsureOriginal
    <3>2. id + 1 \in Nat  OBVIOUS
    <3> QED BY <1>1, <3>1, <3>2 DEF Resolvers
  <2>7. IsFiniteSet(DOMAIN more)
    <3>1. IsFiniteSet(DOMAIN originals)  BY <1>1, <2>3 DEF FilesNumbered
    <3>2. DOMAIN more = DOMAIN originals \cup {id}  BY <2>5 DEF OneMore
    <3>3. IsFiniteSet(DOMAIN originals \cup {id})  BY <3>1, FS_AddElement
    <3> QED BY <3>2, <3>3
  <2>8. \A u \in DOMAIN urlIds : u # url /\ urlIds[u] \in DOMAIN originals /\ originals[urlIds[u]] = u
                                /\ urlIds[u] # id
    BY <1>1, <1>3, <2>1, <2>2, <2>3 DEF FilesNumbered
  <2>9. \A n \in DOMAIN originals : n # id /\ originals[n] \in DOMAIN urlIds /\ urlIds[originals[n]] = n
                                    /\ originals[n] # url
    BY <1>1, <1>3, <2>1, <2>2, <2>3 DEF FilesNumbered
  <2>10. \A u \in DOMAIN moreUrls : moreUrls[u] \in DOMAIN more /\ more[moreUrls[u]] = u
    BY <2>4, <2>5, <2>8 DEF OneMore
  <2>11. \A n \in DOMAIN more : more[n] \in DOMAIN moreUrls /\ moreUrls[more[n]] = n
    BY <2>4, <2>5, <2>9 DEF OneMore
  <2>12. FilesNumbered(t)  BY <2>6, <2>7, <2>10, <2>11 DEF FilesNumbered
  <2> QED BY <1>1, <2>2, <2>3, <2>4, <2>5, <2>6, <2>12 DEF MoreNumbered, EnsuredResult, OneMore
<1> QED BY <1>2, <1>3

\* install_map's first loop.
Numbering(f, r, urls, N) ==
    /\ f \in [0..N -> MoreNumbered(r)]
    /\ f[0] = r /\ EnsureAll(r, urls) = f[N]
    /\ \A n \in 1..N : f[n] = EnsureOriginal(f[n - 1], urls[n])

LEMMA NumberingRuns ==
    ASSUME NEW r \in Resolvers, FilesNumbered(r), IsFiniteSet(DOMAIN r.maps),
           NEW urls \in Seq(Authored), NEW N \in Nat, N = Len(urls)
    PROVE  \E f : Numbering(f, r, urls, N)
<1> DEFINE V == MoreNumbered(r)
           step == [n \in 1..N |-> [q \in V |-> EnsureOriginal(q, urls[n])]]
           Body(f) == [n \in 0..Len(urls) |->
                          IF n = 0 THEN r ELSE EnsureOriginal(f[n - 1], urls[n])]
           g == CHOOSE g : g = Body(g)
<1>1. r \in V  BY DEF MoreNumbered
<1>2. \A n \in 1..N, q \in V : EnsureOriginal(q, urls[n]) \in V
  BY EnsureKeeps, ElementOfSeq DEF EnsuredResult
<1>3. step \in [1..N -> [V -> V]]  BY <1>2
<1>4. \A n \in 1..N, q \in V : step[n][q] = EnsureOriginal(q, urls[n])  OBVIOUS
<1>5. EnsureAll(r, urls) = g[Len(urls)]  BY Zenon DEF EnsureAll
<1>6. \A f : Body(f) = [n \in 0..N |-> IF n = 0 THEN r ELSE EnsureOriginal(f[n - 1], urls[n])]
  OBVIOUS
<1> HIDE DEF g, V, step, Body
<1>7. PICK f \in [0..N -> V] : f[0] = r /\ \A n \in 1..N : f[n] = step[n][f[n - 1]]
  <2>1. PICK e \in V : e = r  BY <1>1
  <2>2. Runs(N, V, e, step) # {}  BY <1>3, <2>1, RecursionExists DEF Steps
  <2>3. PICK f \in Runs(N, V, e, step) : TRUE  BY <2>2
  <2> QED BY <2>1, <2>3 DEF Runs
<1>8. f = Body(f)
  <2>1. \A n \in 1..N : n - 1 \in 0..N  OBVIOUS
  <2>2. \A n \in 1..N : f[n] = EnsureOriginal(f[n - 1], urls[n])  BY <1>4, <1>7, <2>1
  <2>3. \A n \in 0..N : n = 0 \/ n \in 1..N  OBVIOUS
  <2>4. \A n \in 0..N : f[n] = IF n = 0 THEN r ELSE EnsureOriginal(f[n - 1], urls[n])
    BY <1>7, <2>2, <2>3
  <2> QED BY <1>6, <1>7, <2>4
<1>9. g = Body(g)  BY <1>8 DEF g
<1>10. \A n \in 0..N : g[n] = IF n = 0 THEN r ELSE EnsureOriginal(g[n - 1], urls[n])
  BY <1>6, <1>9
<1>11. (\A n \in 1..N : n \in 0..N /\ n # 0) /\ 0 \in 0..N  OBVIOUS
<1>12. g[0] = r /\ \A n \in 1..N : g[n] = EnsureOriginal(g[n - 1], urls[n])
  BY <1>10, <1>11
<1>13. \A n \in 0..N : g[n] \in V
  <2> DEFINE T == {n \in Nat : n <= N => g[n] \in V}
  <2>1. 0 \in T  BY <1>1, <1>12
  <2>2. ASSUME NEW n \in Nat, n \in T PROVE n + 1 \in T
    <3> SUFFICES ASSUME n + 1 <= N PROVE g[n + 1] \in V
      OBVIOUS
    <3>1. PICK m \in 1..N : m = n + 1 /\ m - 1 = n  OBVIOUS
    <3>2. g[n] \in V  BY <2>2, <3>1
    <3>3. g[m] = EnsureOriginal(g[n], urls[m])  BY <1>12, <3>1
    <3>4. EnsureOriginal(g[n], urls[m]) \in V  BY <1>2, <3>2 DEF V
    <3> QED BY <3>1, <3>3, <3>4
  <2> HIDE DEF T
  <2>3. \A n \in Nat : n \in T  BY <2>1, <2>2, SetInduction
  <2> QED BY <2>3 DEF T
<1>14. g \in [0..N -> V]
  BY <1>6, <1>9, <1>13
<1> QED BY <1>5, <1>12, <1>14 DEF Numbering, V

LEMMA EnsureAllRight ==
    ASSUME NEW r \in Resolvers, FilesNumbered(r), IsFiniteSet(DOMAIN r.maps), NEW urls \in Seq(Authored)
    PROVE  /\ EnsureAll(r, urls) \in MoreNumbered(r)
           /\ \A i \in 1..Len(urls) : urls[i] \in DOMAIN EnsureAll(r, urls).byUrl
<1>1. PICK N \in Nat : N = Len(urls)  BY LenProperties
<1>2. PICK f : Numbering(f, r, urls, N)  BY <1>1, NumberingRuns
<1>3. /\ f \in [0..N -> MoreNumbered(r)] /\ EnsureAll(r, urls) = f[N]
      /\ \A n \in 1..N : f[n] = EnsureOriginal(f[n - 1], urls[n])
  BY <1>2 DEF Numbering
<1> DEFINE T == {n \in Nat : n <= N => \A i \in 1..n : urls[i] \in DOMAIN f[n].byUrl}
<1>4. 0 \in T  OBVIOUS
<1>5. ASSUME NEW n \in Nat, n \in T PROVE n + 1 \in T
  <2> SUFFICES ASSUME n + 1 <= N, NEW i \in 1..(n + 1) PROVE urls[i] \in DOMAIN f[n + 1].byUrl
    OBVIOUS
  <2>1. PICK m \in 1..N : m = n + 1 /\ m - 1 = n  OBVIOUS
  <2>2. f[m] = EnsureOriginal(f[n], urls[m])  BY <1>3, <2>1
  <2>3. n \in 0..N  BY <2>1
  <2>4. f[n] \in MoreNumbered(r)  BY <1>3, <2>3
  <2>5. urls[m] \in Authored  BY <1>1, ElementOfSeq
  <2>6. EnsuredResult(f[m], r, f[n], urls[m])  BY <2>2, <2>4, <2>5, EnsureKeeps
  <2>7. CASE i = m  BY <2>1, <2>6, <2>7 DEF EnsuredResult
  <2>8. CASE i # m
    <3>1. i \in 1..n  BY <2>1, <2>8
    <3>2. urls[i] \in DOMAIN f[n].byUrl  BY <1>5, <2>3, <3>1
    <3> QED BY <2>1, <2>6, <3>2 DEF EnsuredResult
  <2> QED BY <2>7, <2>8
<1>6. N \in T
  <2> HIDE DEF T
  <2> QED BY <1>4, <1>5, SetInduction
<1>7. N \in 0..N  OBVIOUS
<1> QED BY <1>1, <1>3, <1>6, <1>7

-----------------------------------------------------------------------------
(* The index *)

\* What a token adds to the index.
OfToken(g, ids, t, key, dst) ==
    t.src \in DOMAIN ids /\ key = <<ids[t.src], t.srcLine>> /\ dst = Loc(g, t.line, t.column)

IndexedResult(rev, next, g, ids, t) ==
    /\ next \in Indexes
    /\ \A key \in MapKeys : \A dst : Leads(next, key, dst) <=> Leads(rev, key, dst) \/ OfToken(g, ids, t, key, dst)

LEMMA IndexedRight ==
    ASSUME NEW rev \in Indexes, NEW g \in Generated, NEW n \in Nat, NEW ids \in [1..n -> Nat],
           NEW t \in MapTokens
    PROVE  IndexedResult(rev, Indexed(rev, g, ids, t), g, ids, t)
<1> DEFINE next == Indexed(rev, g, ids, t)
<1>1. CASE t.src \notin DOMAIN ids
  <2>1. next = rev  BY <1>1 DEF Indexed
  <2> QED BY <1>1, <2>1 DEF IndexedResult, OfToken
<1>2. CASE t.src \in DOMAIN ids
  <2>1. PICK key \in MapKeys : key = <<ids[t.src], t.srcLine>>
    BY <1>2 DEF MapKeys, MapTokens
  <2>2. PICK dst \in MapPlaces : dst = Loc(g, t.line, t.column)
    BY DEF MapPlaces, MapTokens, Loc
  <2>3. \A k, d : OfToken(g, ids, t, k, d) <=> k = key /\ d = dst
    BY <1>2, <2>1, <2>2 DEF OfToken
  <2>4. next = IF key \notin DOMAIN rev THEN Entered(rev, key, <<dst>>)
               ELSE IF \E i \in DOMAIN rev[key] : rev[key][i] = dst THEN rev
               ELSE [rev EXCEPT ![key] = Append(@, dst)]
    BY <1>2, <2>1, <2>2 DEF Indexed
  <2>5. CASE key \notin DOMAIN rev
    <3>1. PICK one \in PlaceLists : one = <<dst>> /\ \A d : InList(one, d) <=> d = dst
      <4>1. <<dst>> \in Seq(MapPlaces) /\ Len(<<dst>>) = 1 /\ <<dst>>[1] = dst /\ <<dst>> # <<>>
        OBVIOUS
      <4>2. \A i \in 1..1 : i = 1  OBVIOUS
      <4>3. <<dst>> \in PlaceLists  BY <4>1, <4>2 DEF PlaceLists, Distinct
      <4>4. 1 \in 1..1  OBVIOUS
      <4>5. \A d : InList(<<dst>>, d) <=> d = dst  BY <4>1, <4>2, <4>4 DEF InList
      <4> QED BY <4>3, <4>5
    <3>2. PICK more \in Indexes : more = Entered(rev, key, one) /\ OneMore(more, rev, key, one)
      BY EnteredTyped DEF Indexes
    <3>3. next = more  BY <2>4, <2>5, <3>1, <3>2
    <3>4. ASSUME NEW k \in MapKeys, NEW d
          PROVE  Leads(more, k, d) <=> Leads(rev, k, d) \/ (k = key /\ d = dst)
      <4>1. CASE k = key  BY <2>5, <3>1, <3>2, <4>1 DEF Leads, OneMore
      <4>2. CASE k # key  BY <3>2, <4>2 DEF Leads, OneMore
      <4> QED BY <4>1, <4>2
    <3> QED BY <2>3, <3>3, <3>4 DEF IndexedResult
  <2>6. CASE key \in DOMAIN rev
    <3>1. PICK D \in SUBSET MapKeys : rev \in [D -> PlaceLists]  BY DEF Indexes, Tables
    <3>2. PICK list \in Seq(MapPlaces) : list = rev[key] /\ list \in PlaceLists
      BY <2>6, <3>1 DEF PlaceLists
    <3>3. DOMAIN list = 1..Len(list)  BY <3>2
    <3>4. CASE InList(list, dst)
      <4>1. next = rev  BY <2>4, <2>6, <3>2, <3>3, <3>4 DEF InList
      <4>2. Leads(rev, key, dst)  BY <2>6, <3>2, <3>4 DEF Leads
      <4> QED BY <2>3, <4>1, <4>2 DEF IndexedResult
    <3>5. CASE ~InList(list, dst)
      <4>1. PICK longer \in Seq(MapPlaces) : longer = Append(list, dst)  BY AppendProperties
      <4>2. \A d : InList(longer, d) <=> InList(list, d) \/ d = dst  BY <4>1, AppendHolds
      <4>3. Distinct(longer)  BY <3>2, <3>5, <4>1, AppendDistinct DEF PlaceLists
      <4>4. longer # <<>>
        <5>1. Len(longer) = Len(list) + 1 /\ Len(list) \in Nat
          BY <4>1, AppendProperties, LenProperties
        <5> QED BY <5>1
      <4>5. longer \in PlaceLists  BY <4>3, <4>4 DEF PlaceLists
      <4>6. next = [rev EXCEPT ![key] = longer]
        BY <2>4, <2>6, <3>2, <3>3, <3>5, <4>1 DEF InList
      <4>7. next \in [D -> PlaceLists]  BY <3>1, <4>5, <4>6
      <4>8. /\ DOMAIN next = DOMAIN rev /\ next[key] = longer
            /\ \A k \in DOMAIN rev : k # key => next[k] = rev[k]
        BY <2>6, <3>1, <4>6
      <4>9. ASSUME NEW k \in MapKeys, NEW d
            PROVE  Leads(next, k, d) <=> Leads(rev, k, d) \/ (k = key /\ d = dst)
        <5> HIDE DEF next
        <5>1. CASE k = key  BY <2>6, <3>2, <4>2, <4>8, <5>1 DEF Leads
        <5>2. CASE k # key  BY <4>8, <5>2 DEF Leads
        <5> QED BY <5>1, <5>2
      <4> HIDE DEF next
      <4>10. next \in Indexes  BY <4>7 DEF Indexes, Tables
      <4>11. IndexedResult(rev, next, g, ids, t)  BY <2>3, <4>9, <4>10 DEF IndexedResult
      <4> QED BY <4>11 DEF next
    <3> QED BY <3>4, <3>5
  <2> QED BY <2>5, <2>6
<1> QED BY <1>1, <1>2

\* install_map's second loop.
Tracing(f, rev, g, ids, tokens, N) ==
    /\ f \in [0..N -> Indexes]
    /\ f[0] = rev /\ Traced(rev, g, ids, tokens) = f[N]
    /\ \A n \in 1..N : f[n] = Indexed(f[n - 1], g, ids, tokens[n])

LEMMA TracingRuns ==
    ASSUME NEW rev \in Indexes, NEW g \in Generated, NEW m \in Nat, NEW ids \in [1..m -> Nat],
           NEW tokens \in Seq(MapTokens), NEW N \in Nat, N = Len(tokens)
    PROVE  \E f : Tracing(f, rev, g, ids, tokens, N)
<1> DEFINE V == Indexes
           step == [n \in 1..N |-> [x \in V |-> Indexed(x, g, ids, tokens[n])]]
           Body(f) == [n \in 0..Len(tokens) |->
                          IF n = 0 THEN rev ELSE Indexed(f[n - 1], g, ids, tokens[n])]
           h == CHOOSE h : h = Body(h)
<1>1. \A n \in 1..N, x \in V : Indexed(x, g, ids, tokens[n]) \in V
  <2> SUFFICES ASSUME NEW n \in 1..N, NEW x \in V PROVE Indexed(x, g, ids, tokens[n]) \in V
    OBVIOUS
  <2>1. PICK t \in MapTokens : t = tokens[n]  BY ElementOfSeq
  <2>2. IndexedResult(x, Indexed(x, g, ids, t), g, ids, t)  BY IndexedRight
  <2> QED BY <2>1, <2>2 DEF IndexedResult
<1>2. step \in [1..N -> [V -> V]]  BY <1>1
<1>3. \A n \in 1..N, x \in V : step[n][x] = Indexed(x, g, ids, tokens[n])  OBVIOUS
<1>4. Traced(rev, g, ids, tokens) = h[Len(tokens)]  BY Zenon DEF Traced
<1>5. \A f : Body(f) = [n \in 0..N |-> IF n = 0 THEN rev ELSE Indexed(f[n - 1], g, ids, tokens[n])]
  OBVIOUS
<1>6. rev \in V  OBVIOUS
<1> HIDE DEF h, V, step, Body
<1>7. PICK f \in [0..N -> V] : f[0] = rev /\ \A n \in 1..N : f[n] = step[n][f[n - 1]]
  <2>1. PICK e \in V : e = rev  BY <1>6
  <2>2. Runs(N, V, e, step) # {}  BY <1>2, <2>1, RecursionExists DEF Steps
  <2>3. PICK f \in Runs(N, V, e, step) : TRUE  BY <2>2
  <2> QED BY <2>1, <2>3 DEF Runs
<1>8. f = Body(f)
  <2>1. \A n \in 1..N : n - 1 \in 0..N  OBVIOUS
  <2>2. \A n \in 1..N : f[n] = Indexed(f[n - 1], g, ids, tokens[n])  BY <1>3, <1>7, <2>1
  <2>3. \A n \in 0..N : n = 0 \/ n \in 1..N  OBVIOUS
  <2>4. \A n \in 0..N : f[n] = IF n = 0 THEN rev ELSE Indexed(f[n - 1], g, ids, tokens[n])
    BY <1>7, <2>2, <2>3
  <2> QED BY <1>5, <1>7, <2>4
<1>9. h = Body(h)  BY <1>8 DEF h
<1>10. \A n \in 0..N : h[n] = IF n = 0 THEN rev ELSE Indexed(h[n - 1], g, ids, tokens[n])
  BY <1>5, <1>9
<1>11. (\A n \in 1..N : n \in 0..N /\ n # 0) /\ 0 \in 0..N  OBVIOUS
<1>12. h[0] = rev /\ \A n \in 1..N : h[n] = Indexed(h[n - 1], g, ids, tokens[n])
  BY <1>10, <1>11
<1>13. \A n \in 0..N : h[n] \in V
  <2> DEFINE T == {n \in Nat : n <= N => h[n] \in V}
  <2>1. 0 \in T  BY <1>6, <1>12
  <2>2. ASSUME NEW n \in Nat, n \in T PROVE n + 1 \in T
    <3> SUFFICES ASSUME n + 1 <= N PROVE h[n + 1] \in V
      OBVIOUS
    <3>1. PICK k \in 1..N : k = n + 1 /\ k - 1 = n  OBVIOUS
    <3>2. h[n] \in V  BY <2>2, <3>1
    <3>3. h[k] = Indexed(h[n], g, ids, tokens[k])  BY <1>12, <3>1
    <3>4. Indexed(h[n], g, ids, tokens[k]) \in V  BY <1>1, <3>2
    <3> QED BY <3>1, <3>3, <3>4
  <2> HIDE DEF T
  <2>3. \A n \in Nat : n \in T  BY <2>1, <2>2, SetInduction
  <2> QED BY <2>3 DEF T
<1>14. h \in [0..N -> V]
  BY <1>5, <1>9, <1>13
<1> QED BY <1>4, <1>12, <1>14 DEF Tracing, V

\* The index has what it had and what the tokens add.
TracedResult(rev, next, g, ids, tokens) ==
    /\ next \in Indexes
    /\ \A key \in MapKeys : \A dst :
          Leads(next, key, dst) <=>
            Leads(rev, key, dst) \/ \E n \in 1..Len(tokens) : OfToken(g, ids, tokens[n], key, dst)

LEMMA TracedRight ==
    ASSUME NEW rev \in Indexes, NEW g \in Generated, NEW m \in Nat, NEW ids \in [1..m -> Nat],
           NEW tokens \in Seq(MapTokens)
    PROVE  TracedResult(rev, Traced(rev, g, ids, tokens), g, ids, tokens)
<1>1. PICK N \in Nat : N = Len(tokens)  BY LenProperties
<1>2. PICK f : Tracing(f, rev, g, ids, tokens, N)  BY <1>1, TracingRuns
<1>3. /\ f \in [0..N -> Indexes] /\ f[0] = rev /\ Traced(rev, g, ids, tokens) = f[N]
      /\ \A n \in 1..N : f[n] = Indexed(f[n - 1], g, ids, tokens[n])
  BY <1>2 DEF Tracing
<1> DEFINE Right(n) == \A key \in MapKeys : \A dst :
                          Leads(f[n], key, dst) <=>
                            Leads(rev, key, dst) \/ \E i \in 1..n : OfToken(g, ids, tokens[i], key, dst)
           T == {n \in Nat : n <= N => Right(n)}
<1>4. Right(0)
  <2>1. 1..0 = {}  OBVIOUS
  <2> QED BY <1>3, <2>1
<1>5. ASSUME NEW n \in Nat, n + 1 <= N, Right(n) PROVE Right(n + 1)
  <2>1. PICK k \in 1..N : k = n + 1 /\ k - 1 = n  BY <1>5
  <2>2. f[k] = Indexed(f[n], g, ids, tokens[k])  BY <1>3, <2>1
  <2>3. n \in 0..N  BY <2>1
  <2>4. PICK before \in Indexes : before = f[n]  BY <1>3, <2>3
  <2>5. PICK t \in MapTokens : t = tokens[k]  BY <1>1, ElementOfSeq
  <2>6. IndexedResult(before, Indexed(before, g, ids, t), g, ids, t)  BY IndexedRight
  <2>7. \A key \in MapKeys : \A dst :
           Leads(f[k], key, dst) <=> Leads(before, key, dst) \/ OfToken(g, ids, tokens[k], key, dst)
    BY <2>2, <2>4, <2>5, <2>6 DEF IndexedResult
  <2>8. \A i \in 1..k : i = k \/ i \in 1..n  BY <2>1
  <2>9. (\A i \in 1..n : i \in 1..k) /\ k \in 1..k  BY <2>1
  <2>10. \A key \in MapKeys : \A dst :
            Leads(before, key, dst) <=>
              Leads(rev, key, dst) \/ \E i \in 1..n : OfToken(g, ids, tokens[i], key, dst)
    BY <1>5, <2>4
  <2>11. \A key, dst : (\E i \in 1..k : OfToken(g, ids, tokens[i], key, dst)) <=>
            \/ \E i \in 1..n : OfToken(g, ids, tokens[i], key, dst)
            \/ OfToken(g, ids, tokens[k], key, dst)
    BY <2>8, <2>9
  <2>12. Right(k)  BY <2>7, <2>10, <2>11
  <2> HIDE DEF Right
  <2> QED BY <2>1, <2>12
<1>6. N \in T
  <2> HIDE DEF Right
  <2>1. 0 \in T  BY <1>4
  <2>2. ASSUME NEW n \in Nat, n \in T PROVE n + 1 \in T
    BY <1>5, <2>2
  <2> HIDE DEF T
  <2> QED BY <2>1, <2>2, SetInduction
<1>7. N \in 0..N  OBVIOUS
<1>8. f[N] \in Indexes  BY <1>3, <1>7
<1> QED BY <1>1, <1>3, <1>6, <1>8 DEF TracedResult

-----------------------------------------------------------------------------
(* A map is replaced *)

RevokedResult(q, r, g) ==
    /\ Sound(q) /\ DOMAIN q.maps = DOMAIN r.maps \ {g}

LEMMA RevokedRight ==
    ASSUME NEW r, Sound(r), NEW g \in DOMAIN r.maps
    PROVE  RevokedResult(Revoked(r, g), r, g)
<1>1. /\ r \in Resolvers /\ IsFiniteSet(DOMAIN r.maps) /\ FilesNumbered(r) /\ IdsKnown(r)
      /\ IndexOf(r.reverse, r.maps)
  BY DEF Sound
<1>2. PICK rev \in Indexes, D \in SUBSET MapKeys : rev = r.reverse /\ rev \in [D -> PlaceLists]
  BY <1>1 DEF Resolvers, Indexes, Tables
<1>3. PICK H \in SUBSET Generated : r.maps \in [H -> LoadedMaps]
  BY <1>1 DEF Resolvers, Tables
<1> DEFINE kept == [k \in DOMAIN rev |-> Excerpt(rev[k], {i \in DOMAIN rev[k] : rev[k][i].source # g})]
           left == [k \in {j \in DOMAIN kept : kept[j] # <<>>} |-> kept[k]]
           rest == [h \in DOMAIN r.maps \ {g} |-> r.maps[h]]
           q == Revoked(r, g)
<1>4. q = [r EXCEPT !.maps = rest, !.reverse = left]
  BY <1>2 DEF Revoked
<1>5. ASSUME NEW k \in D
      PROVE  /\ kept[k] \in Seq(MapPlaces) /\ Distinct(kept[k])
             /\ \A d : InList(kept[k], d) <=> InList(rev[k], d) /\ d.source # g
  <2>1. PICK list \in Seq(MapPlaces) : list = rev[k] /\ Distinct(list)
    BY <1>2 DEF PlaceLists
  <2>2. PICK P : P = {i \in DOMAIN list : list[i].source # g}  OBVIOUS
  <2>3. /\ Excerpt(list, P) \in Seq(MapPlaces) /\ Distinct(Excerpt(list, P))
        /\ \A d : InList(Excerpt(list, P), d) <=> \E i \in 1..Len(list) : i \in P /\ list[i] = d
    BY <2>1, ExcerptHolds
  <2>4. kept[k] = Excerpt(list, P)  BY <1>2, <2>1, <2>2
  <2>5. \A d : (\E i \in 1..Len(list) : i \in P /\ list[i] = d) <=> InList(list, d) /\ d.source # g
    BY <2>1, <2>2 DEF InList
  <2> HIDE DEF kept
  <2> QED BY <2>1, <2>3, <2>4, <2>5
<1>6. DOMAIN left \subseteq D /\ DOMAIN kept = D /\ \A k \in D : k \in DOMAIN left <=> kept[k] # <<>>
  BY <1>2
<1>7. \A k \in DOMAIN left : left[k] = kept[k] /\ kept[k] # <<>>
  OBVIOUS
<1> HIDE DEF kept
<1>8. left \in Indexes
  <2>1. \A k \in DOMAIN left : left[k] \in PlaceLists  BY <1>5, <1>6, <1>7 DEF PlaceLists
  <2>2. DOMAIN left \in SUBSET MapKeys  BY <1>6
  <2>3. left \in [DOMAIN left -> PlaceLists]  BY <2>1
  <2> HIDE DEF left
  <2> QED BY <2>2, <2>3 DEF Indexes, Tables
<1> HIDE DEF left
<1>9. \A k, d : Leads(left, k, d) <=> Leads(rev, k, d) /\ d.source # g
  <2> SUFFICES ASSUME NEW k, NEW d PROVE Leads(left, k, d) <=> Leads(rev, k, d) /\ d.source # g
    OBVIOUS
  <2>1. CASE k \notin D  BY <1>2, <1>6, <2>1 DEF Leads
  <2>2. CASE k \in D /\ kept[k] # <<>>
    BY <1>2, <1>5, <1>6, <1>7, <2>2 DEF Leads
  <2>3. CASE k \in D /\ kept[k] = <<>>
    <3>1. k \notin DOMAIN left  BY <1>6, <2>3
    <3>2. ~InList(kept[k], d)
      <4>1. Len(<<>>) = 0 /\ 1..0 = {}  OBVIOUS
      <4> QED BY <2>3, <4>1 DEF InList
    <3> QED BY <1>2, <1>5, <2>3, <3>1, <3>2 DEF Leads
  <2> QED BY <2>1, <2>2, <2>3
<1>10. /\ DOMAIN rest = DOMAIN r.maps \ {g} /\ \A h \in DOMAIN rest : rest[h] = r.maps[h]
       /\ rest \in Tables(Generated, LoadedMaps)
  <2>1. rest \in [H \ {g} -> LoadedMaps]  BY <1>3
  <2>2. H \ {g} \in SUBSET Generated  OBVIOUS
  <2>3. DOMAIN rest = DOMAIN r.maps \ {g} /\ \A h \in DOMAIN rest : rest[h] = r.maps[h]
    OBVIOUS
  <2> HIDE DEF rest
  <2> QED BY <2>1, <2>2, <2>3 DEF Tables
<1> HIDE DEF rest
<1>11. q \in Resolvers /\ q.maps = rest /\ q.reverse = left
       /\ q.originals = r.originals /\ q.byUrl = r.byUrl
  BY <1>1, <1>4, <1>8, <1>10 DEF Resolvers
<1> HIDE DEF q
<1>12. IsFiniteSet(DOMAIN q.maps)  BY <1>1, <1>10, <1>11, FS_RemoveElement
<1>13. FilesNumbered(q) /\ IdsKnown(q)
  BY <1>1, <1>10, <1>11 DEF FilesNumbered, IdsKnown
<1>14. ASSUME NEW k \in MapKeys, NEW d \in MapPlaces
       PROVE  Leads(left, k, d) <=> \E h \in DOMAIN rest : Comes(rest[h], h, k, d)
  <2>1. Leads(rev, k, d) <=> \E h \in DOMAIN r.maps : Comes(r.maps[h], h, k, d)
    BY <1>1, <1>2 DEF IndexOf
  <2>2. \A h : Comes(r.maps[h], h, k, d) => d.source = h
    BY DEF Comes, Site, Loc
  <2> QED BY <1>9, <1>10, <2>1, <2>2
<1>15. IndexOf(q.reverse, q.maps)  BY <1>11, <1>14 DEF IndexOf
<1>16. RevokedResult(q, r, g)
  BY <1>10, <1>11, <1>12, <1>13, <1>15 DEF RevokedResult, Sound
<1> QED BY <1>16 DEF q

\* What install_map does to a resolver in which the source has no map.
Added(r, g, map) ==
    LET named == EnsureAll(r, map.sources)
        ids == [i \in 1..Len(map.sources) |-> named.byUrl[map.sources[i]]]
    IN  [named EXCEPT
            !.reverse = Traced(@, g, ids, map.tokens),
            !.maps = Entered(@, g, [tokens |-> map.tokens, ids |-> ids])]

LEMMA AddedRight ==
    ASSUME NEW r, Sound(r), NEW g \in Generated, g \notin DOMAIN r.maps, NEW map \in Maps
    PROVE  Sound(Added(r, g, map))
<1>1. /\ r \in Resolvers /\ IsFiniteSet(DOMAIN r.maps) /\ FilesNumbered(r) /\ IdsKnown(r)
      /\ IndexOf(r.reverse, r.maps)
  BY DEF Sound
<1>2. PICK sources \in Seq(Authored), tokens \in Seq(MapTokens) :
        sources = map.sources /\ tokens = map.tokens /\ TokensSorted(tokens)
  BY MapsConstants DEF TokensSorted
<1>3. PICK named : named = EnsureAll(r, sources)  OBVIOUS
<1>4. named \in MoreNumbered(r) /\ \A i \in 1..Len(sources) : sources[i] \in DOMAIN named.byUrl
  BY <1>1, <1>3, EnsureAllRight
<1>5. /\ named \in Resolvers /\ named.maps = r.maps /\ named.reverse = r.reverse
      /\ FilesNumbered(named) /\ DOMAIN r.originals \subseteq DOMAIN named.originals
  BY <1>4 DEF MoreNumbered
<1>6. PICK n \in Nat : n = Len(sources)  BY LenProperties
<1>7. PICK ids : ids = [i \in 1..n |-> named.byUrl[sources[i]]]  OBVIOUS
<1>8. \A i \in 1..n : named.byUrl[sources[i]] \in Nat /\ named.byUrl[sources[i]] \in DOMAIN named.originals
  BY <1>4, <1>5, <1>6 DEF FilesNumbered, Resolvers, Tables
<1>9. ids \in [1..n -> Nat] /\ DOMAIN ids = 1..n /\ \A i \in 1..n : ids[i] \in DOMAIN named.originals
  BY <1>7, <1>8
<1>10. PICK m \in LoadedMaps : m = [tokens |-> tokens, ids |-> ids]
  <2>1. ids \in UNION {[1..k -> Nat] : k \in Nat}  BY <1>9
  <2> QED BY <1>2, <2>1 DEF LoadedMaps
<1>11. m.tokens = tokens /\ m.ids = ids  BY <1>10
<1>12. PICK rev \in Indexes : rev = r.reverse  BY <1>1 DEF Resolvers
<1>13. PICK next : next = Traced(rev, g, ids, tokens)  OBVIOUS
<1>14. TracedResult(rev, next, g, ids, tokens)  BY <1>9, <1>13, TracedRight
<1>15. PICK maps \in Tables(Generated, LoadedMaps) : maps = r.maps
  BY <1>1 DEF Resolvers
<1>16. PICK more \in Tables(Generated, LoadedMaps) : more = Entered(maps, g, m) /\ OneMore(more, maps, g, m)
  BY EnteredTyped
<1>17. /\ DOMAIN more = DOMAIN maps \cup {g} /\ more[g] = m
       /\ \A h \in DOMAIN maps : more[h] = maps[h]
  BY <1>15, <1>16 DEF OneMore
<1> DEFINE q == Added(r, g, map)
<1>18. q = [named EXCEPT !.reverse = next, !.maps = more]
  <2>1. Added(r, g, map) = [named EXCEPT !.reverse = Traced(named.reverse, g, ids, tokens),
                                         !.maps = Entered(named.maps, g, [tokens |-> tokens, ids |-> ids])]
    BY <1>2, <1>3, <1>6, <1>7 DEF Added
  <2> QED BY <1>5, <1>10, <1>12, <1>13, <1>15, <1>16, <2>1
<1>19. /\ q \in Resolvers /\ q.maps = more /\ q.reverse = next
       /\ q.originals = named.originals /\ q.byUrl = named.byUrl
  BY <1>5, <1>14, <1>18 DEF Resolvers, TracedResult
<1> HIDE DEF q
<1>20. IsFiniteSet(DOMAIN q.maps)
  <2>1. IsFiniteSet(DOMAIN maps)  BY <1>1, <1>15
  <2>2. IsFiniteSet(DOMAIN maps \cup {g})  BY <2>1, FS_AddElement
  <2> QED BY <1>17, <1>19, <2>2
<1>21. FilesNumbered(q)  BY <1>5, <1>19 DEF FilesNumbered
<1>22. IdsKnown(q)
  <2> SUFFICES ASSUME NEW h \in DOMAIN more, NEW i \in DOMAIN more[h].ids
               PROVE  more[h].ids[i] \in DOMAIN named.originals
    BY <1>19 DEF IdsKnown
  <2>1. CASE h = g  BY <1>9, <1>11, <1>17, <2>1
  <2>2. CASE h # g
    <3>1. h \in DOMAIN maps /\ more[h] = maps[h]  BY <1>17, <2>2
    <3>2. maps[h].ids[i] \in DOMAIN r.originals  BY <1>1, <1>15, <3>1 DEF IdsKnown
    <3> QED BY <1>5, <3>1, <3>2
  <2> QED BY <2>1, <2>2
<1>23. \A k, d : Comes(m, g, k, d) <=> \E i \in 1..Len(tokens) : OfToken(g, ids, tokens[i], k, d)
  BY <1>11 DEF Comes, Site, OfToken
<1>24. ASSUME NEW k \in MapKeys, NEW d \in MapPlaces
       PROVE  Leads(next, k, d) <=> \E h \in DOMAIN more : Comes(more[h], h, k, d)
  <2>1. Leads(rev, k, d) <=> \E h \in DOMAIN maps : Comes(maps[h], h, k, d)
    BY <1>1, <1>12, <1>15 DEF IndexOf
  <2>2. Leads(next, k, d) <=> Leads(rev, k, d) \/ Comes(m, g, k, d)
    BY <1>14, <1>23 DEF TracedResult
  <2>3. (\E h \in DOMAIN more : Comes(more[h], h, k, d)) <=>
          Comes(m, g, k, d) \/ \E h \in DOMAIN maps : Comes(maps[h], h, k, d)
    BY <1>17
  <2> QED BY <2>1, <2>2, <2>3
<1>25. IndexOf(q.reverse, q.maps)  BY <1>19, <1>24 DEF IndexOf
<1>26. Sound(q)  BY <1>19, <1>20, <1>21, <1>22, <1>25 DEF Sound
<1> QED BY <1>26 DEF q

\* install_map keeps a resolver sound.
LEMMA InstalledRight ==
    ASSUME NEW r, Sound(r), NEW g \in Generated, NEW map \in Maps
    PROVE  Sound(Installed(r, g, map))
<1>1. CASE g \in DOMAIN r.maps
  <2>1. PICK old : old = Revoked(r, g) /\ Sound(old) /\ g \notin DOMAIN old.maps
    BY <1>1, RevokedRight DEF RevokedResult
  <2>2. Installed(r, g, map) = Added(old, g, map)  BY <1>1, <2>1 DEF Installed, Added
  <2> QED BY <2>1, <2>2, AddedRight
<1>2. CASE g \notin DOMAIN r.maps
  <2>1. Installed(r, g, map) = Added(r, g, map)  BY <1>2 DEF Installed, Added
  <2> QED BY <1>2, <2>1, AddedRight
<1> QED BY <1>1, <1>2

LEMMA EmptySound == Sound(EmptyResolver)
<1>1. DOMAIN Nothing = {}  BY DEF Nothing
<1>2. \A A, B : Nothing \in Tables(A, B)
  <2> SUFFICES ASSUME NEW A, NEW B PROVE Nothing \in Tables(A, B)
    OBVIOUS
  <2>1. {} \in SUBSET A  OBVIOUS
  <2>2. Nothing \in [{} -> B]  BY DEF Nothing
  <2> QED BY <2>1, <2>2 DEF Tables
<1>3. EmptyResolver \in Resolvers  BY <1>2 DEF EmptyResolver, Resolvers, Indexes
<1>4. IsFiniteSet({})  BY FS_EmptySet
<1>5. /\ FilesNumbered(EmptyResolver) /\ IdsKnown(EmptyResolver)
      /\ IndexOf(EmptyResolver.reverse, EmptyResolver.maps)
  BY <1>1, <1>4 DEF EmptyResolver, FilesNumbered, IdsKnown, IndexOf, Leads
<1> QED BY <1>1, <1>3, <1>4, <1>5 DEF Sound, EmptyResolver

-----------------------------------------------------------------------------
(* Resolving *)

\* A token is found at its own place.
LEMMA LookupExact ==
    ASSUME NEW tokens \in Seq(MapTokens), TokensSorted(tokens), NEW n \in 1..Len(tokens)
    PROVE  LookupToken(tokens, tokens[n].line, tokens[n].column) = n
<1>1. PICK L \in Nat : L = Len(tokens)  BY LenProperties
<1>2. \A i \in 1..L : tokens[i].line \in Nat /\ tokens[i].column \in Nat
  <2> SUFFICES ASSUME NEW i \in 1..L PROVE tokens[i].line \in Nat /\ tokens[i].column \in Nat
    OBVIOUS
  <2>1. PICK t \in MapTokens : t = tokens[i]  BY <1>1, ElementOfSeq
  <2> QED BY <2>1 DEF MapTokens
<1>3. \A i, j \in 1..L : i < j => Before(tokens[i], tokens[j])
  BY <1>1 DEF TokensSorted
<1>4. PICK l \in Nat, c \in Nat : l = tokens[n].line /\ c = tokens[n].column
  BY <1>1, <1>2
<1>5. ASSUME NEW i \in 1..L PROVE AtOrBefore(tokens[i], l, c) <=> i <= n
  <2>1. PICK il \in Nat, ic \in Nat : il = tokens[i].line /\ ic = tokens[i].column  BY <1>2
  <2>2. CASE i = n  BY <1>4, <2>2 DEF AtOrBefore
  <2>3. CASE i < n  BY <1>1, <1>3, <1>4, <2>1, <2>3 DEF AtOrBefore, Before
  <2>4. CASE n < i  BY <1>1, <1>3, <1>4, <2>1, <2>4 DEF AtOrBefore, Before
  <2> QED BY <1>1, <2>2, <2>3, <2>4
<1>6. {i \in 1..L : AtOrBefore(tokens[i], l, c)} = 1..n
  BY <1>1, <1>5
<1>7. Cardinality(1..n) = n
  <2>1. PICK a \in Int, b \in Int : a = 1 /\ b = n  BY <1>1
  <2>2. Cardinality(a..b) = IF a > b THEN 0 ELSE b - a + 1  BY FS_Interval
  <2> QED BY <1>1, <2>1, <2>2
<1> QED BY <1>1, <1>4, <1>6, <1>7 DEF LookupToken

\* What the index leads to from an authored line resolves to that line.
LEMMA LeadsBack ==
    ASSUME NEW r, Sound(r), NEW key, NEW dst, Leads(r.reverse, key, dst)
    PROVE  \E o : ToOriginal(r, dst) = {o} /\ <<o.source, o.line>> = key
<1>1. PICK rev \in Indexes, D \in SUBSET MapKeys : rev = r.reverse /\ rev \in [D -> PlaceLists]
  BY DEF Sound, Resolvers, Indexes, Tables
<1>2. key \in MapKeys /\ dst \in MapPlaces
  <2>1. key \in D /\ InList(rev[key], dst)  BY <1>1 DEF Leads
  <2>2. rev[key] \in Seq(MapPlaces)  BY <1>1, <2>1 DEF PlaceLists
  <2>3. dst \in MapPlaces  BY <2>1, <2>2, ElementOfSeq DEF InList
  <2> QED BY <1>1, <2>1, <2>3
<1>3. PICK g \in DOMAIN r.maps : Comes(r.maps[g], g, key, dst)
  BY <1>2 DEF Sound, IndexOf
<1>4. PICK m \in LoadedMaps : m = r.maps[g]
  BY <1>3 DEF Sound, Resolvers, Tables
<1>5. PICK tokens \in Seq(MapTokens) : tokens = m.tokens /\ TokensSorted(tokens)
  BY DEF LoadedMaps
<1>6. PICK n \in 1..Len(tokens) : Site(m, g, tokens[n], key, dst)
  BY <1>3, <1>4, <1>5 DEF Comes
<1>7. /\ tokens[n].src \in DOMAIN m.ids /\ key = <<m.ids[tokens[n].src], tokens[n].srcLine>>
      /\ dst.source = g /\ dst.line = tokens[n].line /\ dst.column = tokens[n].column
  BY <1>6 DEF Site, Loc
<1>8. LookupToken(tokens, dst.line, dst.column) = n /\ n # 0
  BY <1>5, <1>6, <1>7, LookupExact
<1>9. PICK o : o = Loc(m.ids[tokens[n].src], tokens[n].srcLine, tokens[n].srcColumn)
  OBVIOUS
<1>10. ToOriginal(r, dst) = {o}
  BY <1>3, <1>4, <1>5, <1>7, <1>8, <1>9 DEF ToOriginal
<1>11. <<o.source, o.line>> = key  BY <1>7, <1>9 DEF Loc
<1> QED BY <1>10, <1>11

\* Every generated place of an authored one leads back to it.
LEMMA AllMapBack ==
    ASSUME NEW r, Sound(r), NEW loc
    PROVE  MapsBack(r, loc)
<1> DEFINE key == <<loc.source, loc.line>>
           all == IF key \in DOMAIN r.reverse THEN r.reverse[key] ELSE <<>>
           chosen == {i \in DOMAIN all : \E o \in ToOriginal(r, all[i]) : o.column = loc.column}
           exact == Excerpt(all, chosen)
<1>1. PICK rev \in Indexes, D \in SUBSET MapKeys : rev = r.reverse /\ rev \in [D -> PlaceLists]
  BY DEF Sound, Resolvers, Indexes, Tables
<1>2. all \in Seq(MapPlaces) /\ Distinct(all)
  <2>1. CASE key \in D  BY <1>1, <2>1 DEF PlaceLists
  <2>2. CASE key \notin D
    <3>1. <<>> \in Seq(MapPlaces) /\ Len(<<>>) = 0 /\ 1..0 = {}  BY EmptySeq
    <3>2. all = <<>>  BY <1>1, <2>2
    <3> QED BY <3>1, <3>2 DEF Distinct
  <2> QED BY <2>1, <2>2
<1>3. \A d : InList(all, d) => Leads(r.reverse, key, d)
  <2>1. CASE key \in DOMAIN r.reverse  BY <2>1 DEF Leads
  <2>2. CASE key \notin DOMAIN r.reverse
    <3>1. Len(<<>>) = 0 /\ 1..0 = {}  OBVIOUS
    <3> QED BY <2>2, <3>1 DEF InList
  <2> QED BY <2>1, <2>2
<1>4. ToGenerated(r, loc) = IF loc.column = 0 \/ exact = <<>> THEN all ELSE exact
  BY DEF ToGenerated
<1> HIDE DEF all
<1>5. DOMAIN all = 1..Len(all)  BY <1>2
<1>6. /\ exact \in Seq(MapPlaces)
      /\ \A d : InList(exact, d) <=> \E i \in 1..Len(all) : i \in chosen /\ all[i] = d
  <2>1. PICK P : P = chosen  OBVIOUS
  <2> HIDE DEF chosen
  <2> QED BY <1>2, <2>1, ExcerptHolds
<1>7. \A d : InList(exact, d) <=> InList(all, d) /\ \E o \in ToOriginal(r, d) : o.column = loc.column
  BY <1>5, <1>6 DEF InList
<1> HIDE DEF exact, chosen
<1>8. \A d : InList(all, d) => \E o : ToOriginal(r, d) = {o} /\ o.source = loc.source /\ o.line = loc.line
  <2> SUFFICES ASSUME NEW d, InList(all, d)
               PROVE  \E o : ToOriginal(r, d) = {o} /\ o.source = loc.source /\ o.line = loc.line
    OBVIOUS
  <2>1. PICK o : ToOriginal(r, d) = {o} /\ <<o.source, o.line>> = key
    BY <1>3, LeadsBack
  <2> QED BY <2>1
<1>9. PICK out : out = ToGenerated(r, loc)  OBVIOUS
<1>10. (out = all \/ out = exact) /\ (loc.column # 0 => out = exact \/ (exact = <<>> /\ out = all))
  <2>1. CASE loc.column = 0 \/ exact = <<>>
    <3>1. out = all  BY <1>4, <1>9, <2>1
    <3> QED BY <2>1, <3>1
  <2>2. CASE ~(loc.column = 0 \/ exact = <<>>)
    <3>1. out = exact  BY <1>4, <1>9, <2>2
    <3> QED BY <3>1
  <2> QED BY <2>1, <2>2
<1>11. \A i \in 1..Len(out) : InList(out, out[i])  BY DEF InList
<1>12. \A d : InList(out, d) => InList(all, d)  BY <1>7, <1>10
<1>13. \A i \in 1..Len(out) : \E o \in ToOriginal(r, out[i]) : o.source = loc.source /\ o.line = loc.line
  BY <1>8, <1>11, <1>12
<1>14. ASSUME loc.column # 0
       PROVE  \/ \A i \in 1..Len(out) : \E o \in ToOriginal(r, out[i]) : o.column = loc.column
              \/ \A i \in 1..Len(out) : \E o \in ToOriginal(r, out[i]) : o.column # loc.column
  <2>1. CASE out = exact  BY <1>7, <1>11, <2>1
  <2>2. CASE exact = <<>> /\ out = all
    <3>1. \A d : ~InList(exact, d)
      <4>1. Len(<<>>) = 0 /\ 1..0 = {}  OBVIOUS
      <4> QED BY <2>2, <4>1 DEF InList
    <3>2. \A d : InList(all, d) => \E o \in ToOriginal(r, d) : o.column # loc.column
      BY <1>7, <1>8, <3>1
    <3> QED BY <1>11, <2>2, <3>2
  <2> QED BY <1>10, <1>14, <2>1, <2>2
<1> QED BY <1>9, <1>13, <1>14 DEF MapsBack

\* A sound resolver's index is what its maps say.
LEMMA SoundIsExact ==
    ASSUME NEW r, Sound(r)
    PROVE  ReverseExact(r) /\ OneIdPerFile(r)
<1>1. PICK rev \in Indexes, D \in SUBSET MapKeys : rev = r.reverse /\ rev \in [D -> PlaceLists]
  BY DEF Sound, Resolvers, Indexes, Tables
<1>2. PICK H \in SUBSET Generated : r.maps \in [H -> LoadedMaps]
  BY DEF Sound, Resolvers, Tables
<1>3. IndexOf(rev, r.maps)  BY <1>1 DEF Sound
<1>4. ASSUME NEW k \in DOMAIN rev
      PROVE  /\ rev[k] # <<>>
             /\ \A i, j \in 1..Len(rev[k]) : rev[k][i] = rev[k][j] => i = j
             /\ \A i \in 1..Len(rev[k]) : \E g \in DOMAIN r.maps :
                   \E n \in 1..Len(r.maps[g].tokens) :
                      Site(r.maps[g], g, r.maps[g].tokens[n], k, rev[k][i])
  <2>1. k \in MapKeys /\ rev[k] \in PlaceLists  BY <1>1
  <2>2. rev[k] # <<>> /\ \A i, j \in 1..Len(rev[k]) : rev[k][i] = rev[k][j] => i = j
    BY <2>1 DEF PlaceLists, Distinct
  <2>3. ASSUME NEW i \in 1..Len(rev[k]) PROVE \E g \in DOMAIN r.maps : Comes(r.maps[g], g, k, rev[k][i])
    <3>1. rev[k][i] \in MapPlaces  BY <2>1, ElementOfSeq DEF PlaceLists
    <3>2. Leads(rev, k, rev[k][i])  BY DEF Leads, InList
    <3> QED BY <1>3, <2>1, <3>1, <3>2 DEF IndexOf
  <2> QED BY <2>2, <2>3 DEF Comes
<1>5. ASSUME NEW g \in DOMAIN r.maps, NEW n \in 1..Len(r.maps[g].tokens),
             r.maps[g].tokens[n].src \in DOMAIN r.maps[g].ids,
             NEW key, key = <<r.maps[g].ids[r.maps[g].tokens[n].src], r.maps[g].tokens[n].srcLine>>
      PROVE  /\ key \in DOMAIN rev
             /\ \E i \in 1..Len(rev[key]) : Site(r.maps[g], g, r.maps[g].tokens[n], key, rev[key][i])
  <2>1. PICK m \in LoadedMaps : m = r.maps[g]  BY <1>2
  <2>2. PICK t \in MapTokens : t = m.tokens[n]  BY <2>1, ElementOfSeq DEF LoadedMaps
  <2>3. key \in MapKeys
    <3>1. PICK k \in Nat : m.ids \in [1..k -> Nat]  BY DEF LoadedMaps
    <3>2. t.src \in DOMAIN m.ids /\ key = <<m.ids[t.src], t.srcLine>>  BY <1>5, <2>1, <2>2
    <3>3. m.ids[t.src] \in Nat  BY <3>1, <3>2
    <3>4. t.srcLine \in Nat  BY DEF MapTokens
    <3> QED BY <3>2, <3>3, <3>4 DEF MapKeys
  <2>4. PICK dst \in MapPlaces : dst = Loc(g, t.line, t.column)
    BY <1>2 DEF MapPlaces, MapTokens, Loc
  <2>5. Site(m, g, t, key, dst)  BY <1>5, <2>1, <2>2, <2>4 DEF Site
  <2>6. Comes(m, g, key, dst)  BY <2>1, <2>2, <2>5 DEF Comes
  <2>7. Leads(rev, key, dst)  BY <1>3, <2>1, <2>3, <2>6 DEF IndexOf
  <2> QED BY <2>1, <2>2, <2>5, <2>7 DEF Leads, InList
<1>6. ReverseExact(r)
  <2>1. \A k \in DOMAIN r.reverse :
          /\ r.reverse[k] # <<>>
          /\ \A i, j \in 1..Len(r.reverse[k]) : r.reverse[k][i] = r.reverse[k][j] => i = j
          /\ \A i \in 1..Len(r.reverse[k]) : \E g \in DOMAIN r.maps :
                \E n \in 1..Len(r.maps[g].tokens) :
                   Site(r.maps[g], g, r.maps[g].tokens[n], k, r.reverse[k][i])
    BY <1>1, <1>4
  <2>2. \A g \in DOMAIN r.maps : \A n \in 1..Len(r.maps[g].tokens) :
          LET m == r.maps[g]
              t == m.tokens[n]
              key == <<m.ids[t.src], t.srcLine>>
          IN  t.src \in DOMAIN m.ids =>
                 /\ key \in DOMAIN r.reverse
                 /\ \E i \in 1..Len(r.reverse[key]) : Site(m, g, t, key, r.reverse[key][i])
    BY <1>1, <1>5, Zenon
  <2> QED BY <2>1, <2>2, Zenon DEF ReverseExact
<1>7. OneIdPerFile(r)  BY DEF Sound, FilesNumbered, IdsKnown, OneIdPerFile
<1> QED BY <1>6, <1>7

\* The resolver is sound: its index is what its maps say, and files and ids lead
\* to each other.  [install_map, revoke_generated, ensure_original, alloc_id]
THEOREM ResolverIsSound == MapsSpec => []Sound(resolver)
<1>1. MapsInit => Sound(resolver)  BY EmptySound DEF MapsInit
<1>2. Sound(resolver) /\ [MapsNext]_mapsVars => Sound(resolver)'
  <2> SUFFICES ASSUME Sound(resolver), [MapsNext]_mapsVars PROVE Sound(resolver)'
    OBVIOUS
  <2>1. CASE MapsNext
    <3>1. PICK g \in Generated, map \in Maps : resolver' = Installed(resolver, g, map)
      BY <2>1 DEF MapsNext, LoadsMap
    <3>2. Sound(Installed(resolver, g, map))  BY InstalledRight
    <3>3. PICK q : q = Installed(resolver, g, map) /\ resolver' = q  BY <3>1
    <3>4. Sound(q)  BY <3>2, <3>3
    <3> QED BY <3>3, <3>4 DEF Sound, Resolvers, FilesNumbered, IdsKnown, IndexOf, Leads
  <2>2. CASE UNCHANGED mapsVars
    BY <2>2 DEF mapsVars, Sound, FilesNumbered, IdsKnown, IndexOf
  <2> QED BY <2>1, <2>2
<1> QED BY <1>1, <1>2, PTL DEF MapsSpec

\* Whatever maps are loaded and replaced, an authored line leads to exactly the
\* places the maps have for it, each once; what a breakpoint on it is set on leads
\* back to that line; and an authored file has one id, and no other.
\* [install_map, revoke_generated, to_generated, to_original]
THEOREM MapsAreAlwaysInverse == MapsSpec => []MapsAreInverse
<1>1. Sound(resolver) => MapsAreInverse
  BY SoundIsExact, AllMapBack DEF MapsAreInverse
<1> QED BY <1>1, ResolverIsSound, PTL
=============================================================================
