----------------------------- MODULE TcpProofs -----------------------------
(***************************************************************************)
(* Theorems about Tcp, for every number of messages, good and bad, every   *)
(* deadline and every way reads cut the stream. And about Wire, for every  *)
(* message and frame: what arrives, byte by byte, when the stream is cut   *)
(* anywhere.                                                               *)
(***************************************************************************)
EXTENDS Tcp, Wire, ExcerptProofs, FiniteSetTheorems

\* What the arguments need of the state's shape; what a message carries
\* besides its kind is of no account.
Shape ==
    /\ \E S : out \in Seq(S)
    /\ read \in 0..(2 * Len(out))
    /\ taken \in 0..(read \div 2)
    /\ phase = "new" => read = 0 /\ taken = 0 /\ ~saw
    /\ phase = "listing" => taken = read \div 2

\* A message of that kind was decoded.
Seen(K) == \E i \in 1..taken : out[i].kind \in K

\* While a listing goes on it has seen no target, and its setup if it says so.
Listing ==
    /\ phase = "listing" => ~Seen({"targets"}) /\ (saw => Seen({"didSetup"}))
    /\ phase = "listedNone" => ~Seen({"targets"}) /\ Seen({"didSetup"})
    /\ phase = "listedSome" => Seen({"targets"})

PeerGone == sock # "open" \/ Holds({"didClose"}, out)

\* recv marks the transport closed only once the peer is gone.
Releasing ==
    /\ (closed /\ ~done) => PeerGone
    /\ done => told \/ PeerGone

TcpInv == Shape /\ Listing /\ Releasing

-----------------------------------------------------------------------------
(* The stream *)

\* What a read completes lies behind what was decoded before.
LEMMA BatchIs ==
    ASSUME NEW S, out \in Seq(S), NEW r \in 0..(2 * Len(out)), taken \in 0..(r \div 2)
    PROVE  /\ Batch(r) \in Seq(S)
           /\ Len(Batch(r)) = (r \div 2) - taken
           /\ r \div 2 \in 0..Len(out)
           /\ \A i \in 1..((r \div 2) - taken) :
                Batch(r)[i] = out[taken + i] /\ taken + i \in 1..Len(out)
<1>1. Len(out) \in Nat /\ \A i \in 1..Len(out) : out[i] \in S
  BY LenProperties, ElementOfSeq
<1>2. PICK h \in Nat : h = r \div 2 /\ h <= Len(out)
  BY <1>1
<1>3. \A i \in (taken + 1)..h : out[i] \in S
  BY <1>1, <1>2
<1>4. /\ SubSeq(out, taken + 1, h) \in Seq(S)
      /\ Len(SubSeq(out, taken + 1, h)) = IF taken + 1 <= h THEN h - (taken + 1) + 1 ELSE 0
      /\ \A i \in 1..(h - (taken + 1) + 1) :
           SubSeq(out, taken + 1, h)[i] = out[(taken + 1) + i - 1]
  BY SMTT(30), <1>2, <1>3, SubSeqProperties
<1>5. \A i \in 1..(h - taken) :
        /\ i \in 1..(h - (taken + 1) + 1) /\ (taken + 1) + i - 1 = taken + i
        /\ taken + i \in 1..Len(out)
  BY <1>1, <1>2
<1>6. (IF taken + 1 <= h THEN h - (taken + 1) + 1 ELSE 0) = h - taken
  BY <1>2
<1> QED BY <1>2, <1>4, <1>5, <1>6 DEF Batch

\* A subset of 1..n has at most n elements ...
LEMMA AtMost ==
    ASSUME NEW n \in Nat, NEW A \in SUBSET (1..n)
    PROVE  IsFiniteSet(A) /\ Cardinality(A) \in 0..n
<1>1. IsFiniteSet(1..n) /\ Cardinality(1..n) = n
  <2>1. 0 \in Int /\ 1 \in Int /\ n \in Int  OBVIOUS
  <2> QED BY <2>1, FS_Interval
<1>2. IsFiniteSet(A) /\ Cardinality(A) <= Cardinality(1..n)
  BY <1>1, FS_Subset
<1>3. Cardinality(A) \in Nat
  BY <1>2, FS_CardinalityType
<1> QED BY <1>1, <1>2, <1>3

\* ... and a finite superset of it at least n.
LEMMA AtLeast ==
    ASSUME NEW n \in Nat, NEW B, IsFiniteSet(B), \A i \in 1..n : i \in B
    PROVE  n <= Cardinality(B)
<1>1. IsFiniteSet(1..n) /\ Cardinality(1..n) = n
  <2>1. 0 \in Int /\ 1 \in Int /\ n \in Int  OBVIOUS
  <2> QED BY <2>1, FS_Interval
<1>2. (1..n) \in SUBSET B  OBVIOUS
<1>3. Cardinality(1..n) <= Cardinality(B)  BY <1>2, FS_Subset
<1> QED BY <1>1, <1>3

\* Before cuts at the first message of those kinds.
LEMMA BeforeIs ==
    ASSUME NEW S, NEW ms \in Seq(S), NEW K
    PROVE  \E c \in 0..Len(ms) :
            /\ Before(K, ms) = SubSeq(ms, 1, c)
            /\ \A k \in 1..c : ms[k].kind \notin K
            /\ c < Len(ms) => ms[c + 1].kind \in K
<1>1. PICK L \in Nat : L = Len(ms) /\ DOMAIN ms = 1..L
  BY LenProperties
<1>2. PICK P \in SUBSET (1..L) : P = {n \in DOMAIN ms : \A k \in 1..n : ms[k].kind \notin K}
  BY <1>1
<1>3. PICK c \in 0..L : c = Cardinality(P) /\ IsFiniteSet(P)
  BY AtMost
<1>4. \A n : n \in P <=> n \in 1..L /\ \A k \in 1..n : ms[k].kind \notin K
  BY <1>1, <1>2
<1>5. ASSUME NEW k \in 1..c, ms[k].kind \in K PROVE FALSE
  <2>1. \A n \in P : n \in 1..L /\ n < k  BY <1>3, <1>4, <1>5
  <2>2. P \in SUBSET (1..(k - 1)) /\ k - 1 \in Nat  BY <2>1, <1>3
  <2>3. c \in 0..(k - 1)  BY <2>2, <1>3, AtMost
  <2> QED BY <2>3, <1>3
<1>6. ASSUME c < L, ms[c + 1].kind \notin K PROVE FALSE
  <2>1. \A k \in 1..(c + 1) : ms[k].kind \notin K
    <3>1. \A k \in 1..(c + 1) : k = c + 1 \/ k \in 1..c  BY <1>3
    <3> QED BY <1>5, <1>6, <3>1
  <2>2. \A n \in 1..(c + 1) : n \in 1..L /\ \A k \in 1..n : k \in 1..(c + 1)
    BY <1>3, <1>6
  <2>3. \A n \in 1..(c + 1) : n \in P  BY <2>1, <2>2, <1>4
  <2>4. c + 1 \in Nat  BY <1>3
  <2>5. c + 1 <= Cardinality(P)  BY <2>3, <2>4, <1>3, AtLeast
  <2> QED BY <2>5, <1>3
<1>7. Before(K, ms) = SubSeq(ms, 1, c)  BY <1>2, <1>3 DEF Before
<1> QED BY <1>1, <1>3, <1>5, <1>6, <1>7

LEMMA WholeMessages ==
    ASSUME NEW a \in Nat
    PROVE  a \div 2 \in Nat
OBVIOUS

\* More units are not fewer messages.
LEMMA StillDecoded ==
    ASSUME NEW a \in Nat, NEW b \in Nat, a <= b, NEW t \in 0..(a \div 2)
    PROVE  t \in 0..(b \div 2)
<1>1. a \div 2 \in Nat /\ b \div 2 \in Nat /\ a \div 2 <= b \div 2
  OBVIOUS
<1>2. PICK i \in Nat : i = a \div 2  BY <1>1
<1>3. PICK j \in Nat : j = b \div 2  BY <1>1
<1> QED BY <1>1, <1>2, <1>3

\* Two ways to say what a listing has seen.
LEMMA SeenIsHeld ==
    ASSUME NEW S, out \in Seq(S), taken \in 0..Len(out), NEW K
    PROVE  Holds(K, SubSeq(out, 1, taken)) <=> Seen(K)
<1>1. Len(out) \in Nat /\ \A i \in 1..taken : out[i] \in S
  BY LenProperties, ElementOfSeq
<1>2. /\ SubSeq(out, 1, taken) \in Seq(S)
      /\ Len(SubSeq(out, 1, taken)) = IF 1 <= taken THEN taken - 1 + 1 ELSE 0
      /\ \A i \in 1..(taken - 1 + 1) : SubSeq(out, 1, taken)[i] = out[1 + i - 1]
  BY <1>1, SubSeqProperties
<1>3. DOMAIN SubSeq(out, 1, taken) = 1..taken
  BY <1>1, <1>2, LenProperties
<1>4. \A i \in 1..taken : SubSeq(out, 1, taken)[i] = out[i]
  BY <1>1, <1>2
<1> QED BY <1>3, <1>4 DEF Holds, Seen

-----------------------------------------------------------------------------
(* The invariant *)

LEMMA InitInv == Init => TcpInv
<1> SUFFICES ASSUME Init PROVE TcpInv
  OBVIOUS
<1>1. out \in Seq({}) /\ Len(out) = 0  BY EmptySeq DEF Init
<1>2. Shape
  <2>1. \E S : out \in Seq(S)  BY <1>1
  <2>2. read \in 0..(2 * Len(out)) /\ taken \in 0..(read \div 2)  BY <1>1 DEF Init
  <2> QED BY <2>1, <2>2 DEF Shape, Init
<1> QED BY <1>2 DEF Init, TcpInv, Listing, Releasing

\* The server's part of a step: messages stay where they are.
LEMMA ServerKeepsInv ==
    ASSUME TcpInv, ServerSends \/ ServerHangsUp
    PROVE  TcpInv'
<1>1. CASE ServerSends
  <2>1. PICK e : out' = Append(out, e)
    BY <1>1 DEF ServerSends
  <2>2. UNCHANGED <<sock, setup, told, read, taken, phase, clock, waiting, saw, pending, got,
                    ended, closed, done>>
    BY <1>1 DEF ServerSends, streamVars, handshakeVars, transportVars
  <2>3. PICK S : out \in Seq(S)  BY DEF TcpInv, Shape
  <2>4. out \in Seq(S \cup {e}) /\ e \in S \cup {e}
    BY <2>3, SeqMonotonic
  <2>5. /\ out' \in Seq(S \cup {e}) /\ Len(out) \in Nat /\ Len(out') = Len(out) + 1
        /\ \A i \in 1..Len(out) : out'[i] = out[i]
        /\ DOMAIN out = 1..Len(out) /\ DOMAIN out' = 1..Len(out')
    BY <2>1, <2>4, AppendProperties, LenProperties
  <2>6. Shape'
    <3>1. (\E T : out \in Seq(T))'  BY <2>5
    <3>2. read' \in 0..(2 * Len(out'))
      <4>1. read \in 0..(2 * Len(out))  BY DEF TcpInv, Shape
      <4> QED BY <4>1, <2>2, <2>5
    <3> QED BY <3>1, <3>2, <2>2 DEF TcpInv, Shape
  <2>7. taken \in 0..Len(out)
    <3>1. read \in 0..(2 * Len(out)) /\ taken \in 0..(read \div 2)  BY DEF TcpInv, Shape
    <3> QED BY <3>1, <2>5
  <2>8. \A K : (Seen(K))' <=> Seen(K)
    BY <2>2, <2>5, <2>7 DEF Seen
  <2>9. Listing'  BY <2>2, <2>8 DEF TcpInv, Listing
  <2>10. PeerGone => PeerGone'  BY <2>2, <2>5 DEF PeerGone, Holds
  <2>11. Releasing'  BY <2>2, <2>10 DEF TcpInv, Releasing
  <2> QED BY <2>6, <2>9, <2>11 DEF TcpInv
<1>2. CASE ServerHangsUp
  <2>1. sock' # "open"
        /\ UNCHANGED <<out, setup, told, read, taken, phase, clock, waiting, saw, pending, got,
                       ended, closed, done>>
    BY <1>2 DEF ServerHangsUp, streamVars, handshakeVars, transportVars
  <2>2. Shape' /\ Listing'  BY <2>1 DEF TcpInv, Shape, Listing, Seen
  <2>3. Releasing'  BY <2>1 DEF TcpInv, Releasing, PeerGone
  <2> QED BY <2>2, <2>3 DEF TcpInv
<1> QED BY <1>1, <1>2

\* Connecting, waiting and giving up decode nothing.
LEMMA WaitingKeepsInv ==
    ASSUME TcpInv,
           \/ ConnectFails \/ Connects \/ SliceEnds \/ HandshakeLoses
           \/ AttachReads \/ AttachLooks \/ ListLooks
    PROVE  TcpInv'
<1>0. /\ out' = out /\ sock' = sock /\ told' = told
      /\ UNCHANGED <<pending, got, ended, closed, done, saw>>
  BY DEF ConnectFails, Connects, SliceEnds, HandshakeLoses, AttachReads, AttachLooks, ListLooks,
         serverVars, transportVars
<1>1. Releasing'  BY <1>0 DEF TcpInv, Releasing, PeerGone
<1>2. PICK S : out \in Seq(S)  BY DEF TcpInv, Shape
<1>3. Len(out) \in Nat /\ read \in 0..(2 * Len(out)) /\ taken \in 0..(read \div 2)
  BY <1>2, LenProperties DEF TcpInv, Shape
<1>4. CASE ConnectFails \/ Connects \/ SliceEnds \/ HandshakeLoses
  <2>1. UNCHANGED <<read, taken>>
    BY <1>4 DEF ConnectFails, Connects, SliceEnds, HandshakeLoses, streamVars
  <2>2. Shape'
    <3>1. phase = "new" => taken = 0 /\ ~saw  BY DEF TcpInv, Shape
    <3>2. phase = "listing" => taken = read \div 2  BY DEF TcpInv, Shape
    <3>3. phase' # "new" \/ phase' = phase
      BY <1>4 DEF ConnectFails, Connects, SliceEnds, HandshakeLoses, Clients
    <3>4. phase' = "listing" => phase \in {"new", "listing"}
      BY <1>4 DEF ConnectFails, Connects, SliceEnds, HandshakeLoses, Clients
    <3>5. phase = "new" => read = 0  BY DEF TcpInv, Shape
    <3>6. 0 = 0 \div 2  OBVIOUS
    <3>7. phase' = "listing" => taken = read \div 2
      <4>1. CASE phase = "new"  BY <4>1, <3>1, <3>5, <3>6
      <4>2. CASE phase = "listing"  BY <4>2, <3>2
      <4> QED BY <3>4, <4>1, <4>2
    <3>8. read' \in 0..(2 * Len(out')) /\ taken' \in 0..(read' \div 2)
      BY <1>0, <1>3, <2>1
    <3> QED BY <1>0, <1>2, <2>1, <3>1, <3>3, <3>5, <3>7, <3>8 DEF Shape
  <2>3. Listing'
    BY <1>0, <1>4, <2>1 DEF TcpInv, Shape, Listing, Seen, ConnectFails, Connects, SliceEnds, HandshakeLoses, Clients
  <2> QED BY <1>1, <2>2, <2>3 DEF TcpInv
<1>5. CASE AttachReads
  <2>1. phase = "handshake" /\ phase' = phase /\ taken' = taken /\ read' \in (read + 1)..(2 * Len(out))
    BY <1>5 DEF AttachReads, Reads
  <2>2. read' \in 0..(2 * Len(out')) /\ taken' \in 0..(read' \div 2)
    <3>1. read \in Nat /\ read' \in Nat /\ read <= read' /\ read' <= 2 * Len(out)
      BY <2>1, <1>3
    <3>2. taken \in 0..(read' \div 2)  BY <3>1, <1>3, StillDecoded
    <3>3. taken' \in 0..(read' \div 2)  BY <3>2, <2>1
    <3>4. read' \in 0..(2 * Len(out))  BY <3>1, <1>3
    <3> QED BY <1>0, <3>3, <3>4
  <2>3. Shape'  BY <2>1, <2>2, <1>0, <1>2 DEF Shape
  <2>4. Listing'  BY <2>1 DEF Listing
  <2> QED BY <1>1, <2>3, <2>4 DEF TcpInv
<1>6. CASE AttachLooks
  <2>1. phase = "handshake" /\ phase' \in {"handshake", "live", "attachFailed"}
        /\ read' = read /\ taken' \in {taken, read \div 2}
    BY <1>6 DEF AttachLooks
  <2>2. taken' \in 0..(read' \div 2)  BY <2>1, <1>3
  <2>3. Shape'  BY <2>1, <2>2, <1>0, <1>2, <1>3 DEF Shape
  <2>4. Listing'  BY <2>1 DEF Listing
  <2> QED BY <1>1, <2>3, <2>4 DEF TcpInv
<1>7. CASE ListLooks
  <2>1. /\ phase = "listing" /\ UNCHANGED <<read, taken>>
        /\ phase' = phase \/ phase' = IF saw THEN "listedNone" ELSE "listFailed"
    BY <1>7 DEF ListLooks, streamVars
  <2>2. Shape'  BY <2>1, <1>0, <1>2, <1>3 DEF TcpInv, Shape
  <2>3. \A K : (Seen(K))' <=> Seen(K)  BY <2>1, <1>0 DEF Seen
  <2>4. Listing'  BY <2>1, <2>3, <1>0 DEF TcpInv, Listing
  <2> QED BY <1>1, <2>2, <2>4 DEF TcpInv
<1> QED BY <1>4, <1>5, <1>6, <1>7

\* A listing reads a batch and its messages in order.
LEMMA ListingKeepsInv ==
    ASSUME TcpInv, ListReads
    PROVE  TcpInv'
<1>0. /\ out' = out /\ sock' = sock /\ told' = told
      /\ UNCHANGED <<pending, got, ended, closed, done>>
  BY DEF ListReads, serverVars, transportVars
<1>1. Releasing'  BY <1>0 DEF TcpInv, Releasing, PeerGone
<1>2. PICK S : out \in Seq(S)  BY DEF TcpInv, Shape
<1>3. /\ Len(out) \in Nat /\ read \in 0..(2 * Len(out)) /\ taken \in 0..(read \div 2)
      /\ phase = "listing"
  BY <1>2, LenProperties DEF TcpInv, Shape, ListReads
<1>4. ~Seen({"targets"}) /\ (saw => Seen({"didSetup"}))
  BY <1>3 DEF TcpInv, Listing
<1>5. PICK r \in Reads :
        /\ read' = r
        /\ taken' = r \div 2
        /\ saw' = (saw \/ Holds({"didSetup"}, Before({"targets"}, Batch(r))))
        /\ phase' = IF Malformed(r) \/ Holds({"odd", "frame"}, Before({"targets"}, Batch(r)))
                    THEN "listFailed"
                    ELSE IF Before({"targets"}, Batch(r)) = Batch(r) THEN "listing"
                    ELSE IF Batch(r)[Len(Before({"targets"}, Batch(r))) + 1].kind = "targets"
                         THEN "listedSome" ELSE "listedNone"
  BY DEF ListReads, ListAnswers
<1>6. r \in 0..(2 * Len(out)) /\ read \in Nat /\ read <= r
  BY <1>3 DEF Reads
<1>7. taken \in 0..(r \div 2)
  <2>1. r \in Nat  BY <1>6
  <2> QED BY <2>1, <1>3, <1>6, StillDecoded
<1>8. PICK h \in Nat : h = r \div 2
  BY <1>6
<1>9. /\ Batch(r) \in Seq(S) /\ Len(Batch(r)) = h - taken
      /\ h \in 0..Len(out) /\ taken \in 0..h
      /\ \A i \in 1..(h - taken) :
           Batch(r)[i] = out[taken + i] /\ taken + i \in 1..Len(out)
  BY <1>2, <1>6, <1>7, <1>8, BatchIs
<1>10. PICK c \in 0..(h - taken) :
        /\ Before({"targets"}, Batch(r)) = SubSeq(Batch(r), 1, c)
        /\ \A k \in 1..c : Batch(r)[k].kind \notin {"targets"}
        /\ c < h - taken => Batch(r)[c + 1].kind \in {"targets"}
  <2>1. PICK b \in Seq(S) : b = Batch(r) /\ Len(b) = h - taken
    BY <1>9
  <2>2. PICK c \in 0..Len(b) :
          /\ Before({"targets"}, b) = SubSeq(b, 1, c)
          /\ \A k \in 1..c : b[k].kind \notin {"targets"}
          /\ c < Len(b) => b[c + 1].kind \in {"targets"}
    BY <2>1, BeforeIs
  <2> QED BY <2>1, <2>2
<1>11. /\ SubSeq(Batch(r), 1, c) \in Seq(S) /\ Len(SubSeq(Batch(r), 1, c)) = c
       /\ \A i \in 1..c : SubSeq(Batch(r), 1, c)[i] = Batch(r)[i]
       /\ DOMAIN SubSeq(Batch(r), 1, c) = 1..c
  <2>1. \A i \in 1..c : Batch(r)[i] \in S
    BY <1>9, <1>10, ElementOfSeq
  <2>2. /\ SubSeq(Batch(r), 1, c) \in Seq(S)
        /\ Len(SubSeq(Batch(r), 1, c)) = IF 1 <= c THEN c - 1 + 1 ELSE 0
        /\ \A i \in 1..(c - 1 + 1) : SubSeq(Batch(r), 1, c)[i] = Batch(r)[1 + i - 1]
    BY <2>1, <1>9, <1>10, SubSeqProperties
  <2>3. c - 1 + 1 = c /\ \A i \in 1..c : 1 + i - 1 = i
    BY <1>10, <1>9
  <2> QED BY <2>2, <2>3, <1>9, <1>10, LenProperties
<1>12. taken' = h /\ read' = r /\ out' = out  BY <1>0, <1>5, <1>8
<1>13. Shape'
  <2>1. read' \in 0..(2 * Len(out')) /\ taken' \in 0..(read' \div 2) /\ taken' = read' \div 2
    BY <1>6, <1>8, <1>9, <1>12
  <2>2. phase' # "new"  BY <1>5
  <2> QED BY <2>1, <2>2, <1>2, <1>12 DEF Shape
<1>14. \A i \in 1..h : i \in 1..taken \/ (i - taken \in 1..(h - taken) /\ taken + (i - taken) = i)
  BY <1>9
<1>15. \A i \in 1..(h - taken) : taken + i \in 1..h
  BY <1>9
<1>16. (~Seen({"targets"}))' \/ c < h - taken
  <2> SUFFICES ASSUME c = h - taken, NEW i \in 1..h, out[i].kind \in {"targets"} PROVE FALSE
    BY SMTT(30), <1>9, <1>10, <1>12 DEF Seen
  <2>1. CASE i \in 1..taken  BY <2>1, <1>4 DEF Seen
  <2>2. CASE i - taken \in 1..(h - taken) /\ taken + (i - taken) = i
    BY <2>2, <1>9, <1>10
  <2> QED BY <1>14, <2>1, <2>2
<1>17. c < h - taken => (Seen({"targets"}))'
  <2> SUFFICES ASSUME c < h - taken PROVE \E i \in 1..h : out[i].kind \in {"targets"}
    BY <1>12 DEF Seen
  <2>1. c + 1 \in 1..(h - taken)  BY <1>9, <1>10
  <2> QED BY <2>1, <1>9, <1>10, <1>15
<1>18. saw' => (Seen({"didSetup"}))'
  <2> SUFFICES ASSUME saw' PROVE \E i \in 1..h : out[i].kind \in {"didSetup"}
    BY <1>12 DEF Seen
  <2>1. CASE saw
    <3>1. \A i \in 1..taken : i \in 1..h  BY <1>9
    <3> QED BY <2>1, <3>1, <1>4 DEF Seen
  <2>2. CASE Holds({"didSetup"}, SubSeq(Batch(r), 1, c))
    <3>1. PICK i \in 1..c : Batch(r)[i].kind \in {"didSetup"}
      BY <2>2, <1>11 DEF Holds
    <3>2. i \in 1..(h - taken)  BY <1>9, <1>10
    <3> QED BY <3>1, <3>2, <1>9, <1>15
  <2> QED BY <1>5, <1>10, <2>1, <2>2
<1>19. phase' \in {"listFailed", "listing", "listedSome"}
       /\ (phase' = "listing" => c = h - taken)
       /\ (phase' = "listedSome" => c < h - taken)
  <2>1. CASE c < h - taken
    <3>1. Before({"targets"}, Batch(r)) # Batch(r)
      BY <2>1, <1>9, <1>10, <1>11
    <3>2. Len(Before({"targets"}, Batch(r))) = c /\ Batch(r)[c + 1].kind = "targets"
      BY <2>1, <1>10, <1>11
    <3> QED BY <2>1, <3>1, <3>2, <1>5
  <2>2. CASE c = h - taken
    <3>1. Before({"targets"}, Batch(r)) = Batch(r)
      <4>1. /\ Len(SubSeq(Batch(r), 1, c)) = Len(Batch(r))
            /\ \A i \in 1..Len(Batch(r)) : SubSeq(Batch(r), 1, c)[i] = Batch(r)[i]
        BY <2>2, <1>9, <1>11
      <4> QED BY <4>1, <1>9, <1>10, <1>11, SeqEqual
    <3> QED BY <2>2, <3>1, <1>5
  <2> QED BY <1>9, <1>10, <2>1, <2>2
<1>20. Listing'
  BY <1>10, <1>16, <1>17, <1>18, <1>19, <1>9 DEF Listing
<1> QED BY <1>1, <1>13, <1>20 DEF TcpInv

\* recv ends for good only behind the peer's end.
LEMMA RecvKeepsInv ==
    ASSUME TcpInv, RecvPops \/ RecvReads \/ RecvEnds
    PROVE  TcpInv'
<1>0. /\ phase = "live" /\ phase' = phase /\ out' = out /\ sock' = sock /\ told' = told
      /\ done' = done /\ saw' = saw /\ ~closed
  BY DEF RecvPops, RecvReads, RecvEnds, serverVars, streamVars, handshakeVars
<1>1. Listing'  BY <1>0 DEF Listing
<1>2. PICK S : out \in Seq(S)  BY DEF TcpInv, Shape
<1>3. Len(out) \in Nat /\ read \in 0..(2 * Len(out)) /\ taken \in 0..(read \div 2)
  BY <1>2, LenProperties DEF TcpInv, Shape
<1>4. PeerGone' <=> PeerGone  BY <1>0 DEF PeerGone
<1>5. done => told \/ PeerGone  BY DEF TcpInv, Releasing
<1>6. CASE RecvPops \/ RecvEnds
  <2>1. UNCHANGED <<read, taken>>  BY <1>6 DEF RecvPops, RecvEnds, streamVars
  <2>2. Shape'  BY <2>1, <1>0 DEF TcpInv, Shape
  <2>3. closed' => PeerGone
    BY <1>0, <1>6 DEF RecvPops, RecvEnds, AtEof, PeerGone
  <2> QED BY <2>2, <2>3, <1>0, <1>1, <1>4, <1>5 DEF TcpInv, Releasing
<1>7. CASE RecvReads
  <2>1. /\ read' \in Reads
        /\ closed' = (ended' = "none")
        /\ \/ ended' = "error" /\ taken' = taken
           \/ taken' = read' \div 2 /\ ended' = Pulled(Batch(read'))
    BY <1>7 DEF RecvReads
  <2>2. read' \in 0..(2 * Len(out)) /\ read \in Nat /\ read' \in Nat /\ read <= read'
    BY <2>1, <1>3 DEF Reads
  <2>3. taken \in 0..(read' \div 2)  BY <2>2, <1>3, StillDecoded
  <2>4. taken' \in 0..(read' \div 2)
    <3>1. read' \div 2 \in Nat  BY <2>2, WholeMessages
    <3>2. read' \div 2 \in 0..(read' \div 2)  BY <3>1
    <3> QED BY <2>1, <2>3, <3>2
  <2>5. Shape'  BY <1>0, <1>2, <2>2, <2>4 DEF Shape
  <2>6. ASSUME closed' PROVE PeerGone
    <3>1. ended' = "none" /\ Pulled(Batch(read')) = "none"  BY <2>1, <2>6
    <3>2. Holds({"didClose"}, Batch(read'))  BY <3>1 DEF Pulled
    <3>3. PICK h \in Nat : h = read' \div 2  BY <2>2, WholeMessages
    <3>4. /\ Batch(read') \in Seq(S) /\ Len(Batch(read')) = h - taken
          /\ \A i \in 1..(h - taken) :
               Batch(read')[i] = out[taken + i] /\ taken + i \in 1..Len(out)
      BY <1>2, <2>2, <2>3, <3>3, BatchIs
    <3>5. DOMAIN Batch(read') = 1..(h - taken) /\ DOMAIN out = 1..Len(out)
      BY <3>4, <1>2, LenProperties
    <3>6. PICK i \in 1..(h - taken) : Batch(read')[i].kind \in {"didClose"}
      BY <3>2, <3>5 DEF Holds
    <3>7. out[taken + i].kind \in {"didClose"} /\ taken + i \in DOMAIN out
      BY <3>4, <3>5, <3>6
    <3> QED BY <3>7 DEF PeerGone, Holds
  <2> QED BY <2>5, <2>6, <1>0, <1>1, <1>4, <1>5 DEF TcpInv, Releasing
<1> QED BY <1>6, <1>7

\* close says so, unless the peer is gone.
LEMMA ClosesKeepsInv ==
    ASSUME TcpInv, Closes
    PROVE  TcpInv'
<1>1. /\ phase = "live" /\ ~done /\ done' = TRUE
      /\ told' \in (IF closed THEN {told} ELSE IF sock = "open" THEN {TRUE} ELSE BOOLEAN)
      /\ UNCHANGED <<out, sock, read, taken, phase, saw>>
  BY DEF Closes, streamVars, handshakeVars
<1>2. Shape' /\ Listing'  BY <1>1 DEF TcpInv, Shape, Listing, Seen
<1>3. PeerGone' <=> PeerGone  BY <1>1 DEF PeerGone
<1>4. told' \/ PeerGone
  <2>1. CASE closed  BY <2>1, <1>1 DEF TcpInv, Releasing
  <2>2. CASE ~closed /\ sock = "open"  BY <2>2, <1>1
  <2>3. CASE sock # "open"  BY <2>3 DEF PeerGone
  <2> QED BY <2>1, <2>2, <2>3
<1> QED BY <1>1, <1>2, <1>3, <1>4 DEF TcpInv, Releasing

LEMMA StepKeepsInv == TcpInv /\ [Next]_vars => TcpInv'
<1> SUFFICES ASSUME TcpInv, [Next]_vars PROVE TcpInv'
  OBVIOUS
<1>1. CASE ServerSends \/ ServerHangsUp  BY <1>1, ServerKeepsInv
<1>2. CASE \/ ConnectFails \/ Connects \/ SliceEnds \/ HandshakeLoses
           \/ AttachReads \/ AttachLooks \/ ListLooks
  BY <1>2, WaitingKeepsInv
<1>3. CASE ListReads  BY <1>3, ListingKeepsInv
<1>4. CASE RecvPops \/ RecvReads \/ RecvEnds  BY <1>4, RecvKeepsInv
<1>5. CASE Closes  BY <1>5, ClosesKeepsInv
<1>6. CASE UNCHANGED vars
  BY <1>6 DEF TcpInv, Shape, Listing, Seen, Releasing, PeerGone, Holds,
              vars, serverVars, streamVars, handshakeVars, transportVars
<1> QED BY <1>1, <1>2, <1>3, <1>4, <1>5, <1>6 DEF Next, Handshake, Recv

\* The inductive invariant behind the two theorems below.
\* [TcpInspectorServer, TcpTransport]
THEOREM InvariantHolds == Spec => []TcpInv
<1> QED BY InitInv, StepKeepsInv, PTL DEF Spec

\* A target that was set up is told when the session closes, unless the
\* server hung up or said so first, wherever reads cut its last messages.
\* [TcpTransport::close and recv]
THEOREM TargetIsReleased == Spec => []TargetReleased
<1>1. TcpInv => TargetReleased
  BY DEF TcpInv, Releasing, PeerGone, TargetReleased
<1> QED BY <1>1, InvariantHolds, PTL

\* A listing answers from what it read and from all of it: targets if some
\* came, none only behind the server's setup.  [TcpInspectorServer::list]
THEOREM ListingIsHonest == Spec => []ListsWhatItRead
<1>1. TcpInv => ListsWhatItRead
  <2> SUFFICES ASSUME TcpInv PROVE ListsWhatItRead
    OBVIOUS
  <2>1. PICK S : out \in Seq(S)  BY DEF TcpInv, Shape
  <2>2. Len(out) \in Nat /\ read \in 0..(2 * Len(out)) /\ taken \in 0..(read \div 2)
    BY <2>1, LenProperties DEF TcpInv, Shape
  <2>3. taken \in 0..Len(out)
    <3>1. PICK h \in Nat : h = read \div 2 /\ h <= Len(out)  BY <2>2
    <3> QED BY <2>2, <3>1
  <2>4. \A K : Holds(K, SubSeq(out, 1, taken)) <=> Seen(K)
    BY <2>1, <2>3, SeenIsHeld
  <2> QED BY <2>4 DEF TcpInv, Listing, ListsWhatItRead
<1> QED BY <1>1, InvariantHolds, PTL

-----------------------------------------------------------------------------
(* The frames of the stream *)

\* How many of the first messages are frames.
FramesAt(i) == {j \in 1..i : out[j].kind \in {"frame"}}
Counted(i) == Cardinality(FramesAt(i))

LEMMA Counting ==
    ASSUME NEW i \in Nat
    PROVE  /\ Counted(i) \in Nat
           /\ Counted(0) = 0
           /\ Counted(i + 1) = IF out[i + 1].kind = "frame" THEN Counted(i) + 1 ELSE Counted(i)
<1>1. IsFiniteSet(FramesAt(i))
  <2>1. FramesAt(i) \in SUBSET (1..i)  BY DEF FramesAt
  <2> QED BY <2>1, AtMost
<1>2. Counted(i) \in Nat  BY <1>1, FS_CardinalityType DEF Counted
<1>3. Counted(0) = 0
  <2>1. FramesAt(0) = {}  BY DEF FramesAt
  <2> QED BY <2>1, FS_EmptySet DEF Counted
<1>4. CASE out[i + 1].kind = "frame"
  <2>1. FramesAt(i + 1) = FramesAt(i) \cup {i + 1} /\ i + 1 \notin FramesAt(i)
    BY <1>4 DEF FramesAt
  <2>2. Cardinality(FramesAt(i) \cup {i + 1}) = Cardinality(FramesAt(i)) + 1
    BY <1>1, <2>1, FS_AddElement
  <2> QED BY <1>2, <1>3, <1>4, <2>1, <2>2 DEF Counted
<1>5. CASE out[i + 1].kind # "frame"
  <2>1. FramesAt(i + 1) = FramesAt(i)  BY <1>5 DEF FramesAt
  <2> QED BY <1>2, <1>3, <1>5, <2>1 DEF Counted
<1> QED BY <1>4, <1>5

\* Frames bear consecutive numbers.
Numbered == \A i \in 1..Len(out) : out[i].kind = "frame" => out[i].n = Counted(i)

\* The frames of a batch continue those before it.
LEMMA BatchFrames ==
    ASSUME NEW S, out \in Seq(S), Numbered, NEW t \in Nat, NEW b \in Seq(S),
           t + Len(b) <= Len(out), \A i \in 1..Len(b) : b[i] = out[t + i]
    PROVE  /\ Frames(b) \in Seq(Nat)
           /\ Len(Frames(b)) = Counted(t + Len(b)) - Counted(t)
           /\ \A k \in 1..Len(Frames(b)) : Frames(b)[k] = Counted(t) + k
<1>1. PICK L \in Nat : L = Len(b) /\ DOMAIN b = 1..L  BY LenProperties
<1>2. Len(out) \in Nat  BY LenProperties
<1>3. PICK f : Begun(b, FramePlaces(b), f) /\ f[L] = Excerpt(b, FramePlaces(b))
  BY <1>1, ExcerptBegins
<1>4. \A i \in 1..L : i \in FramePlaces(b) <=> b[i].kind = "frame"
  BY <1>1 DEF FramePlaces
<1> DEFINE Q(i) == /\ f[i] \in Seq(S)
                   /\ Len(f[i]) = Counted(t + i) - Counted(t)
                   /\ \A k \in 1..Len(f[i]) : f[i][k].n = Counted(t) + k
           P == {i \in Nat : i <= L => Q(i)}
<1>5. Counted(t) \in Nat  BY Counting
<1>6. 0 \in P
  <2>1. f[0] = <<>>  BY <1>3 DEF Begun
  <2>2. Q(0)  BY <2>1, <1>5, EmptySeq
  <2> QED BY <2>2
<1>7. ASSUME NEW i \in Nat, i \in P PROVE i + 1 \in P
  <2> SUFFICES ASSUME i + 1 <= L PROVE Q(i + 1)
    OBVIOUS
  <2>1. Q(i)  BY <1>1, <1>7
  <2>2. i + 1 \in 1..L /\ t + i \in Nat /\ t + (i + 1) = (t + i) + 1 /\ t + (i + 1) \in 1..Len(out)
    BY <1>1, <1>2
  <2>3. b[i + 1] = out[t + (i + 1)] /\ b[i + 1] \in S  BY <2>2, <1>1, ElementOfSeq
  <2>4. Counted(t + i) \in Nat
    BY <2>2, Counting
  <2>5. Counted(t + (i + 1)) = IF b[i + 1].kind = "frame" THEN Counted(t + i) + 1 ELSE Counted(t + i)
    <3>1. PICK n \in Nat : n = t + i  BY <2>2
    <3>2. Counted(n + 1) = IF out[n + 1].kind = "frame" THEN Counted(n) + 1 ELSE Counted(n)
      BY <3>1, Counting
    <3>3. n + 1 = t + (i + 1)  BY <2>2, <3>1
    <3> QED BY <3>1, <3>2, <3>3, <2>3
  <2>6. f[i + 1] = IF b[i + 1].kind = "frame" THEN Append(f[i], b[i + 1]) ELSE f[i]
    <3>1. (i + 1) - 1 = i /\ i + 1 \in 1..Len(b)  BY <1>1, <2>2
    <3>2. f[i + 1] = IF i + 1 \in FramePlaces(b) THEN Append(f[(i + 1) - 1], b[i + 1])
                     ELSE f[(i + 1) - 1]
      BY <3>1, <1>3 DEF Begun
    <3> QED BY <3>1, <3>2, <2>2, <1>4
  <2>7. CASE b[i + 1].kind = "frame"
    <3>1. b[i + 1].n = Counted(t + i) + 1
      BY <2>7, <2>2, <2>3, <2>4, <2>5 DEF Numbered
    <3>2. PICK e \in S : e = b[i + 1] /\ e.n = Counted(t + i) + 1  BY <2>3, <3>1
    <3>3. PICK s \in Seq(S) : s = f[i]  BY <2>1
    <3>4. /\ Append(s, e) \in Seq(S) /\ Len(s) \in Nat /\ Len(Append(s, e)) = Len(s) + 1
          /\ \A k \in 1..Len(s) : Append(s, e)[k] = s[k]
          /\ Append(s, e)[Len(s) + 1] = e
      BY <3>2, <3>3, AppendProperties, LenProperties
    <3>5. f[i + 1] = Append(s, e)  BY <2>6, <2>7, <3>2, <3>3
    <3>6. Len(s) = Counted(t + i) - Counted(t) /\ \A k \in 1..Len(s) : s[k].n = Counted(t) + k
      BY <2>1, <3>3
    <3>7. e.n = Counted(t) + (Len(s) + 1)  BY <3>2, <3>6, <1>5, <2>4
    <3>8. \A k \in 1..(Len(s) + 1) : k \in 1..Len(s) \/ k = Len(s) + 1  BY <3>4
    <3>9. \A k \in 1..(Len(s) + 1) : Append(s, e)[k].n = Counted(t) + k
      BY <3>4, <3>6, <3>7, <3>8
    <3>10. Len(s) + 1 = Counted(t + (i + 1)) - Counted(t)
      BY <3>6, <2>5, <2>7, <1>5, <2>4
    <3> QED BY <3>4, <3>5, <3>9, <3>10
  <2>8. CASE b[i + 1].kind # "frame"
    <3>1. f[i + 1] = f[i] /\ Counted(t + (i + 1)) = Counted(t + i)  BY <2>5, <2>6, <2>8
    <3> QED BY <3>1, <2>1
  <2> QED BY <2>7, <2>8
<1>8. L \in P
  <2> HIDE DEF P
  <2> QED BY <1>1, <1>6, <1>7, SetInduction
<1>9. PICK s : s = Excerpt(b, FramePlaces(b)) /\ s = f[L]  BY <1>3
<1>10. /\ s \in Seq(S) /\ Len(s) = Counted(t + L) - Counted(t)
       /\ \A k \in 1..Len(s) : s[k].n = Counted(t) + k
  BY <1>1, <1>8, <1>9
<1>11. PICK m \in Nat : m = Len(s) /\ DOMAIN s = 1..m  BY <1>10, LenProperties
<1>12. Frames(b) = [k \in 1..m |-> s[k].n]
  BY <1>9, <1>11 DEF Frames
<1>13. Frames(b) \in [1..m -> Nat]
  BY <1>5, <1>10, <1>11, <1>12
<1>14. Frames(b) \in Seq(Nat) /\ Len(Frames(b)) = m
  BY <1>13, SeqDef, LenProperties
<1> QED BY <1>1, <1>10, <1>11, <1>12, <1>14

\* A longer prefix has as many frames, or more; and all of it has Sent.
LEMMA CountingGrows ==
    ASSUME NEW S, out \in Seq(S), NEW i \in 0..Len(out)
    PROVE  Counted(i) \in Nat /\ Counted(i) <= Sent /\ Sent \in 0..Len(out) /\ Sent = Counted(Len(out))
<1>1. Len(out) \in Nat /\ DOMAIN out = 1..Len(out)  BY LenProperties
<1>2. Sent = Counted(Len(out))
  BY <1>1 DEF Sent, Count, Counted, FramesAt
<1>3. FramesAt(Len(out)) \in SUBSET (1..Len(out))  BY DEF FramesAt
<1>4. IsFiniteSet(FramesAt(Len(out))) /\ Sent \in 0..Len(out)
  BY <1>1, <1>2, <1>3, AtMost DEF Counted
<1>5. FramesAt(i) \in SUBSET FramesAt(Len(out))  BY <1>1 DEF FramesAt
<1>6. IsFiniteSet(FramesAt(i)) /\ Counted(i) <= Counted(Len(out))
  BY <1>4, <1>5, FS_Subset DEF Counted
<1>7. Counted(i) \in Nat  BY <1>6, FS_CardinalityType DEF Counted
<1> QED BY <1>2, <1>4, <1>6, <1>7

-----------------------------------------------------------------------------
(* TcpTransport implements FrameStream *)

\* After DidClose the server sends nothing, and no frame before Setup.
Mannered ==
    /\ Numbered
    /\ \A i \in 1..Len(out) : out[i].kind = "didClose" => i = Len(out)
    /\ ~setup => \A i \in 1..Len(out) : out[i].kind # "frame"
    /\ phase = "new" => out = <<>>

\* What recv has returned and has yet to return are the first frames of the
\* stream, in order, as many as were decoded.
Flowing ==
    /\ setup <=> phase = "live"
    /\ ~setup => got = <<>> /\ pending = <<>>
    /\ (phase = "live" /\ ended = "open") =>
          /\ taken = read \div 2
          /\ got \in Seq(Nat) /\ pending \in Seq(Nat)
          /\ Len(got) + Len(pending) = Counted(taken)
          /\ \A k \in 1..Len(got) : got[k] = k
          /\ \A k \in 1..Len(pending) : pending[k] = Len(got) + k

StreamInv == TcpInv /\ Mannered /\ Flowing

LEMMA InitStream == Init => StreamInv
<1> SUFFICES ASSUME Init PROVE StreamInv
  OBVIOUS
<1>1. Len(out) = 0  BY EmptySeq DEF Init
<1>2. Mannered  BY <1>1 DEF Init, Mannered, Numbered
<1> QED BY <1>2, InitInv DEF Init, Flowing, StreamInv

\* The server appends a message; those before it keep their place.
LEMMA SendingKeeps ==
    ASSUME StreamInv, ServerSends
    PROVE  /\ Mannered' /\ Flowing'
           /\ ~(sock # "open" \/ Holds({"didClose"}, out))
           /\ Sent < MaxMessages /\ Sent' \in {Sent, Sent + 1}
           /\ Sent' = Sent + 1 => ~Holds({"didClose"}, out')
<1>1. PICK S : out \in Seq(S)  BY DEF StreamInv, TcpInv, Shape
<1>2. PICK k \in Kinds : MaySend(k) /\ out' = Append(out, [kind |-> k, n |-> IF k = "frame" THEN Sent + 1 ELSE 0])
  BY DEF ServerSends
<1>3. /\ sock = "open" /\ Len(out) < MaxMessages
      /\ UNCHANGED <<setup, read, taken, phase, pending, got, ended>>
  BY DEF ServerSends, streamVars, handshakeVars, transportVars
<1>4. /\ phase # "new" /\ ~Holds({"didClose"}, out)
      /\ k = "frame" => setup
  BY <1>2 DEF MaySend
<1>5. PICK e : e = [kind |-> k, n |-> IF k = "frame" THEN Sent + 1 ELSE 0]
  OBVIOUS
<1>6. e.kind = k /\ (k = "frame" => e.n = Sent + 1)  BY <1>5
<1>7. out \in Seq(S \cup {e}) /\ e \in S \cup {e}
  BY <1>1, SeqMonotonic
<1>8. PICK L \in Nat : L = Len(out)  BY <1>1, LenProperties
<1>9. /\ out' \in Seq(S \cup {e}) /\ Len(out') = L + 1
      /\ \A i \in 1..L : out'[i] = out[i]
      /\ out'[L + 1] = e
      /\ DOMAIN out = 1..L /\ DOMAIN out' = 1..(L + 1)
  BY <1>2, <1>5, <1>7, <1>8, AppendProperties, LenProperties
<1>10. \A i \in 0..L : (Counted(i))' = Counted(i)
  <2> SUFFICES ASSUME NEW i \in 0..L PROVE (FramesAt(i))' = FramesAt(i)
    BY DEF Counted
  <2>1. \A j \in 1..i : j \in 1..L  BY <1>8
  <2> QED BY <1>9, <2>1 DEF FramesAt
<1>11. Sent \in 0..L /\ Sent = Counted(L) /\ Counted(L) \in Nat
  BY <1>1, <1>8, CountingGrows
<1>12. (Counted(L + 1))' = IF k = "frame" THEN Sent + 1 ELSE Sent
  <2>1. CASE k = "frame"
    <3>1. (FramesAt(L + 1))' = FramesAt(L) \cup {L + 1} /\ L + 1 \notin FramesAt(L)
      BY <1>6, <1>8, <1>9, <2>1 DEF FramesAt
    <3>2. IsFiniteSet(FramesAt(L))
      <4>1. FramesAt(L) \in SUBSET (1..L)  BY DEF FramesAt
      <4> QED BY <4>1, <1>8, AtMost
    <3>3. Cardinality(FramesAt(L) \cup {L + 1}) = Cardinality(FramesAt(L)) + 1
      BY <3>1, <3>2, FS_AddElement
    <3> QED BY <3>1, <3>3, <2>1, <1>11 DEF Counted
  <2>2. CASE k # "frame"
    <3>1. (FramesAt(L + 1))' = FramesAt(L)
      BY <1>6, <1>8, <1>9, <2>2 DEF FramesAt
    <3> QED BY <3>1, <2>2, <1>11 DEF Counted
  <2> QED BY <2>1, <2>2
<1>13. Sent' = (Counted(L + 1))'
  BY <1>9 DEF Sent, Count, Counted, FramesAt
<1>14. Mannered'
  <2>1. Numbered'
    <3> SUFFICES ASSUME NEW i \in 1..(L + 1), out'[i].kind = "frame" PROVE out'[i].n = (Counted(i))'
      BY <1>9 DEF Numbered
    <3>1. CASE i = L + 1  BY <3>1, <1>6, <1>9, <1>12
    <3>2. CASE i \in 1..L
      BY <3>2, <1>8, <1>9, <1>10 DEF StreamInv, Mannered, Numbered
    <3>3. i = L + 1 \/ i \in 1..L  BY <1>8
    <3> QED BY <3>1, <3>2, <3>3
  <2>2. \A i \in 1..L : out[i].kind # "didClose"
    BY <1>4, <1>9 DEF Holds
  <2>3. \A i \in 1..(L + 1) : i = L + 1 \/ i \in 1..L  BY <1>8
  <2>4. \A i \in 1..(L + 1) : out'[i].kind = "didClose" => i = L + 1
    BY <2>2, <2>3, <1>9
  <2>5. ~setup => \A i \in 1..(L + 1) : out'[i].kind # "frame"
    BY <2>3, <1>4, <1>6, <1>8, <1>9 DEF StreamInv, Mannered
  <2> QED BY <2>1, <2>4, <2>5, <1>3, <1>4, <1>9 DEF Mannered
<1>15. Flowing'
  <2>1. (phase = "live" /\ ended = "open") => taken \in 0..L
    <3>1. read \in 0..(2 * L) /\ taken \in 0..(read \div 2)
      BY <1>8 DEF StreamInv, TcpInv, Shape
    <3>2. PICK h \in Nat : h = read \div 2 /\ h <= L  BY <3>1, <1>8
    <3> QED BY <3>1, <3>2, <1>8
  <2>2. (phase = "live" /\ ended = "open") => (Counted(taken))' = Counted(taken)
    BY <2>1, <1>3, <1>10
  <2> QED BY <2>2, <1>3 DEF StreamInv, Flowing
<1>16. Sent' = Sent + 1 => ~Holds({"didClose"}, out')
  <2> SUFFICES ASSUME Sent' = Sent + 1, NEW i \in 1..(L + 1), out'[i].kind = "didClose" PROVE FALSE
    BY <1>9 DEF Holds
  <2>1. k = "frame"  BY <1>11, <1>12, <1>13
  <2>2. i = L + 1 \/ i \in 1..L  BY <1>8
  <2> QED BY <2>1, <2>2, <1>4, <1>6, <1>9 DEF Holds
<1>17. Sent < MaxMessages  BY <1>3, <1>8, <1>11, TcpConstants
<1>18. Sent' \in {Sent, Sent + 1}  BY <1>12, <1>13
<1> QED BY <1>3, <1>4, <1>14, <1>15, <1>16, <1>17, <1>18

\* Before a session is live nothing is decoded for it.
LEMMA AttachingKeeps ==
    ASSUME StreamInv,
           \/ ServerHangsUp \/ ConnectFails \/ Connects \/ SliceEnds \/ HandshakeLoses
           \/ AttachReads \/ AttachLooks \/ ListLooks \/ ListReads
    PROVE  Mannered' /\ Flowing' /\ UNCHANGED <<out, got, ended>>
<1>1. UNCHANGED <<out, got, ended, pending>>
  BY DEF ServerHangsUp, ConnectFails, Connects, SliceEnds, HandshakeLoses, AttachReads, AttachLooks,
         ListLooks, ListReads, serverVars, transportVars
<1>2. \A i : (Counted(i))' = Counted(i)
  BY <1>1 DEF Counted, FramesAt
<1>3. PICK S : out \in Seq(S)  BY DEF StreamInv, TcpInv, Shape
<1>4. PICK L \in Nat : L = Len(out)  BY <1>3, LenProperties
<1>5. CASE setup' = setup
  <2>1. phase' = "new" => phase = "new"
    BY DEF ServerHangsUp, ConnectFails, Connects, SliceEnds, HandshakeLoses, AttachReads,
           AttachLooks, ListLooks, ListReads, handshakeVars, Clients
  <2>2. Mannered'
    BY <1>1, <1>2, <1>5, <2>1 DEF StreamInv, Mannered, Numbered
  <2>3. phase = "live" <=> phase' = "live"
    <3>1. AttachLooks /\ setup' = setup => phase = "handshake" /\ (setup = FALSE => phase' # "live")
      BY DEF AttachLooks
    <3>2. CASE AttachLooks
      BY <3>1, <3>2, <1>5 DEF StreamInv, Flowing
    <3>3. CASE ~AttachLooks
      BY <3>3 DEF ServerHangsUp, ConnectFails, Connects, SliceEnds, HandshakeLoses, AttachReads,
             ListLooks, ListReads, handshakeVars, Clients
    <3> QED BY <3>2, <3>3
  <2>4. phase = "live" => UNCHANGED <<read, taken>>
    BY DEF ServerHangsUp, ConnectFails, Connects, SliceEnds, HandshakeLoses, AttachReads,
           AttachLooks, ListLooks, ListReads, streamVars, Clients
  <2>5. Flowing'
    BY <1>1, <1>2, <1>5, <2>3, <2>4 DEF StreamInv, Flowing
  <2> QED BY <1>1, <2>2, <2>5
<1>6. CASE setup' # setup
  <2>1. /\ AttachLooks /\ phase = "handshake" /\ phase' = "live" /\ setup' = TRUE
        /\ taken' = read \div 2 /\ read' = read
    <3>1. AttachLooks
      BY <1>6 DEF ServerHangsUp, ConnectFails, Connects, SliceEnds, HandshakeLoses, AttachReads,
                  ListLooks, ListReads, serverVars
    <3> QED BY <3>1, <1>6 DEF AttachLooks
  <2>2. ~setup /\ got = <<>> /\ pending = <<>> /\ \A i \in 1..L : out[i].kind # "frame"
    BY <1>4, <2>1 DEF StreamInv, Flowing, Mannered
  <2>3. Mannered'
    BY <1>1, <1>2, <2>1 DEF StreamInv, Mannered, Numbered
  <2>4. taken' \in 0..L
    <3>1. read \in 0..(2 * L)  BY <1>4 DEF StreamInv, TcpInv, Shape
    <3> QED BY <2>1, <3>1
  <2>5. Counted(taken') = 0
    <3>1. FramesAt(taken') = {}
      <4>1. \A j \in 1..(taken') : j \in 1..L  BY <2>4, <1>4
      <4> QED BY <2>2, <4>1 DEF FramesAt
    <3> QED BY <3>1, FS_EmptySet DEF Counted
  <2>6. (Counted(taken))' = 0
    BY <1>1, <2>5 DEF Counted, FramesAt
  <2>7. got' \in Seq(Nat) /\ pending' \in Seq(Nat) /\ Len(got') = 0 /\ Len(pending') = 0
    BY <1>1, <2>2, EmptySeq
  <2>8. Flowing'
    BY <2>1, <2>6, <2>7 DEF Flowing
  <2> QED BY <1>1, <2>3, <2>8
<1> QED BY <1>5, <1>6

\* recv hands out the frame whose turn it is.
LEMMA PoppingKeeps ==
    ASSUME StreamInv, RecvPops
    PROVE  /\ Mannered' /\ Flowing' /\ UNCHANGED <<out, sock, ended>> /\ ended = "open"
           /\ Len(got) < Sent /\ got' = Append(got, Len(got) + 1)
<1>1. /\ phase = "live" /\ ended = "open" /\ pending # <<>>
      /\ got' = Append(got, Head(pending)) /\ pending' = Tail(pending)
      /\ UNCHANGED <<out, sock, setup, read, taken, phase, ended>>
  BY DEF RecvPops, serverVars, streamVars, handshakeVars
<1>2. \A i : (Counted(i))' = Counted(i)
  BY <1>1 DEF Counted, FramesAt
<1>3. PICK S : out \in Seq(S)  BY DEF StreamInv, TcpInv, Shape
<1>4. PICK L \in Nat : L = Len(out)  BY <1>3, LenProperties
<1>5. /\ taken = read \div 2
      /\ got \in Seq(Nat) /\ pending \in Seq(Nat)
      /\ Len(got) + Len(pending) = Counted(taken)
      /\ \A k \in 1..Len(got) : got[k] = k
      /\ \A k \in 1..Len(pending) : pending[k] = Len(got) + k
  BY <1>1 DEF StreamInv, Flowing
<1>6. PICK g \in Nat : g = Len(got)  BY <1>5, LenProperties
<1>7. PICK p \in Nat : p = Len(pending) /\ p >= 1
  BY <1>1, <1>5, LenProperties, EmptySeq
<1>8. Head(pending) = g + 1
  BY <1>1, <1>5, <1>6, <1>7, HeadTailProperties
<1>9. /\ got' \in Seq(Nat) /\ Len(got') = g + 1 /\ got'[g + 1] = g + 1
      /\ \A k \in 1..g : got'[k] = got[k]
  BY <1>1, <1>5, <1>6, <1>8, AppendProperties
<1>10. /\ pending' \in Seq(Nat) /\ Len(pending') = p - 1
       /\ \A k \in 1..(p - 1) : pending'[k] = pending[k + 1]
  BY <1>1, <1>5, <1>7, HeadTailProperties
<1>11. \A k \in 1..(g + 1) : got'[k] = k
  <2>1. \A k \in 1..(g + 1) : k = g + 1 \/ k \in 1..g  BY <1>6
  <2> QED BY <2>1, <1>5, <1>6, <1>9
<1>12. \A k \in 1..(p - 1) : pending'[k] = (g + 1) + k
  <2>1. \A k \in 1..(p - 1) : k + 1 \in 1..p /\ g + (k + 1) = (g + 1) + k  BY <1>6, <1>7
  <2> QED BY <2>1, <1>5, <1>6, <1>7, <1>10
<1>13. taken \in 0..L
  <2>1. read \in 0..(2 * L)  BY <1>4 DEF StreamInv, TcpInv, Shape
  <2> QED BY <2>1, <1>5
<1>14. g + p = Counted(taken) /\ Counted(taken) <= Sent /\ Sent \in Nat
  BY <1>3, <1>4, <1>5, <1>6, <1>7, <1>13, CountingGrows
<1>15. Flowing'
  <2>1. (g + 1) + (p - 1) = (Counted(taken))'
    <3>1. (Counted(taken))' = Counted(taken)  BY <1>1 DEF Counted, FramesAt
    <3> QED BY <3>1, <1>6, <1>7, <1>14
  <2> QED BY <2>1, <1>1, <1>5, <1>9, <1>10, <1>11, <1>12 DEF StreamInv, Flowing
<1>16. Mannered'
  BY <1>1, <1>2 DEF StreamInv, Mannered, Numbered
<1>17. Len(got) < Sent  BY <1>6, <1>7, <1>14
<1> QED BY <1>1, <1>6, <1>8, <1>15, <1>16, <1>17

\* A read decodes the frames that come next, and ends only where it should.
LEMMA ReadingKeeps ==
    ASSUME StreamInv, RecvReads
    PROVE  /\ Mannered' /\ Flowing' /\ UNCHANGED <<out, sock, got>> /\ ended = "open"
           /\ ended' \in {"open", "none", "error"}
           /\ ended' = "none" => Holds({"didClose"}, out) /\ Len(got) = Sent
<1>1. /\ phase = "live" /\ ended = "open" /\ pending = <<>>
      /\ read' \in Reads
      /\ UNCHANGED <<out, sock, setup, phase, got>>
      /\ \/ ended' = "error" /\ UNCHANGED <<taken, pending>>
         \/ /\ taken' = read' \div 2
            /\ ended' = Pulled(Batch(read'))
            /\ pending' = Frames(Before({"odd"}, Batch(read')))
  BY DEF RecvReads, serverVars, handshakeVars
<1>2. \A i : (Counted(i))' = Counted(i)
  BY <1>1 DEF Counted, FramesAt
<1>3. PICK S : out \in Seq(S)  BY DEF StreamInv, TcpInv, Shape
<1>4. PICK L \in Nat : L = Len(out) /\ DOMAIN out = 1..L  BY <1>3, LenProperties
<1>5. Mannered'
  BY <1>1, <1>2 DEF StreamInv, Mannered, Numbered
<1>6. /\ taken = read \div 2 /\ got \in Seq(Nat)
      /\ Len(got) = Counted(taken)
      /\ \A k \in 1..Len(got) : got[k] = k
  <2>1. /\ taken = read \div 2 /\ got \in Seq(Nat)
        /\ Len(got) + Len(pending) = Counted(taken)
        /\ \A k \in 1..Len(got) : got[k] = k
    BY <1>1 DEF StreamInv, Flowing
  <2>2. Len(pending) = 0 /\ Len(got) \in Nat  BY <1>1, <2>1, EmptySeq, LenProperties
  <2> QED BY <2>1, <2>2
<1>7. CASE ended' = "error"
  BY <1>1, <1>5, <1>7 DEF StreamInv, Flowing
<1>8. CASE ended' # "error"
  <2>1. /\ taken' = read' \div 2 /\ ended' = Pulled(Batch(read'))
        /\ pending' = Frames(Before({"odd"}, Batch(read')))
    BY <1>1, <1>8
  <2>2. read \in 0..(2 * L) /\ read' \in 0..(2 * L) /\ read <= read'
    BY <1>1, <1>4 DEF Reads, StreamInv, TcpInv, Shape
  <2>3. taken \in 0..(read' \div 2)
    <3>1. taken \in 0..(read \div 2)  BY DEF StreamInv, TcpInv, Shape
    <3>2. PICK r \in Nat : r = read' /\ read <= r /\ read \in Nat  BY <2>2, <1>4
    <3>3. taken \in 0..(r \div 2)  BY <3>1, <3>2, StillDecoded
    <3> QED BY <3>2, <3>3
  <2>4. PICK h \in 0..L : h = read' \div 2
    <3>1. PICK r \in 0..(2 * Len(out)) : r = read'  BY <2>2, <1>4
    <3>2. taken \in 0..(r \div 2)  BY <2>3, <3>1
    <3>3. r \div 2 \in 0..Len(out)  BY <1>3, <3>1, <3>2, BatchIs
    <3> QED BY <1>4, <3>1, <3>3
  <2>5. PICK b \in Seq(S) :
          /\ b = Batch(read') /\ Len(b) = h - taken
          /\ \A i \in 1..(h - taken) : b[i] = out[taken + i] /\ taken + i \in 1..Len(out)
    BY <1>3, <1>4, <2>2, <2>3, <2>4, BatchIs
  <2>6. ~Holds({"odd"}, b) /\ Len(b) \in Nat /\ DOMAIN b = 1..Len(b)
    BY <2>1, <2>5, <1>8, LenProperties DEF Pulled
  <2>7. Before({"odd"}, b) = b
    <3>1. PICK c \in 0..Len(b) :
            /\ Before({"odd"}, b) = SubSeq(b, 1, c)
            /\ c < Len(b) => b[c + 1].kind \in {"odd"}
      BY BeforeIs
    <3>2. c = Len(b)
      <4>0. PICK m \in Nat : m = Len(b)  BY <2>6
      <4>1. c <= m /\ c \in Nat  BY <4>0, <3>1
      <4>2. ASSUME c < Len(b) PROVE FALSE
        <5>1. c + 1 \in DOMAIN b  BY <4>0, <4>1, <4>2, <2>6
        <5> QED BY <4>2, <5>1, <3>1, <2>6 DEF Holds
      <4>3. ~(c < m)  BY <4>0, <4>2
      <4>4. c = m  BY <4>0, <4>1, <4>3
      <4> QED BY <4>0, <4>4
    <3> QED BY <3>1, <3>2, SubSeqFull
  <2>8. taken \in 0..h  BY <2>3, <2>4
  <2>9. taken \in Nat /\ taken + Len(b) = h /\ h <= Len(out)
    BY <1>4, <2>4, <2>5, <2>8
  <2>10. /\ Frames(b) \in Seq(Nat) /\ Len(Frames(b)) = Counted(h) - Counted(taken)
         /\ \A k \in 1..Len(Frames(b)) : Frames(b)[k] = Counted(taken) + k
    <3>1. Numbered  BY DEF StreamInv, Mannered
    <3>2. \A i \in 1..Len(b) : b[i] = out[taken + i]  BY <2>5
    <3>3. taken + Len(b) <= Len(out)  BY <2>9
    <3> QED BY <1>3, <2>5, <2>9, <3>1, <3>2, <3>3, BatchFrames
  <2>11. Counted(taken) \in Nat /\ Counted(h) \in Nat /\ Counted(h) <= Sent /\ Sent = Counted(L)
    <3>1. taken \in 0..Len(out) /\ h \in 0..Len(out)  BY <1>4, <2>4, <2>8
    <3> QED BY <1>3, <1>4, <3>1, CountingGrows
  <2>12. pending' = Frames(b) /\ taken' = h  BY <2>1, <2>4, <2>5, <2>7
  <2>13. Flowing'
    <3>1. (Counted(taken))' = Counted(h)  BY <1>1, <2>12 DEF Counted, FramesAt
    <3>2. Len(got) + Len(Frames(b)) = Counted(h)  BY <1>6, <2>10, <2>11
    <3>3. taken' = read' \div 2  BY <2>4, <2>12
    <3> QED BY <1>1, <1>6, <2>10, <2>12, <3>1, <3>2, <3>3 DEF StreamInv, Flowing
  <2>14. ASSUME ended' = "none" PROVE Holds({"didClose"}, out) /\ Len(got) = Sent
    <3>1. Frames(b) = <<>> /\ Holds({"didClose"}, b)
      BY <2>1, <2>5, <2>14 DEF Pulled
    <3>2. Counted(h) = Counted(taken)  BY <2>10, <2>11, <3>1, EmptySeq
    <3>3. PICK i \in 1..(h - taken) : b[i].kind = "didClose"  BY <3>1, <2>5, <2>6 DEF Holds
    <3>4. taken + i \in 1..L /\ out[taken + i].kind = "didClose"
      BY <3>3, <2>5, <1>4
    <3>5. taken + i = L  BY <3>4, <1>4 DEF StreamInv, Mannered
    <3>6. h = L  BY <3>3, <3>5, <2>4, <2>8
    <3>7. Holds({"didClose"}, out)  BY <3>4, <1>4 DEF Holds
    <3> QED BY <3>2, <3>6, <3>7, <1>6, <2>11
  <2>15. ended' \in {"open", "none", "error"}  BY <2>1 DEF Pulled
  <2> QED BY <1>1, <1>5, <2>13, <2>14, <2>15
<1> QED BY <1>7, <1>8

\* At the end of the socket every message has been decoded.
LEMMA EndingKeeps ==
    ASSUME StreamInv, RecvEnds
    PROVE  /\ Mannered' /\ Flowing' /\ UNCHANGED <<out, sock, got>> /\ ended = "open"
           /\ ended' \in {"none", "error"}
           /\ ended' = "none" => sock # "open" /\ Len(got) = Sent
<1>1. /\ phase = "live" /\ ended = "open" /\ pending = <<>>
      /\ UNCHANGED <<out, sock, setup, read, taken, phase, pending, got>>
      /\ \/ AtEof /\ ended' = "none"
         \/ ended' = "error"
  BY DEF RecvEnds, serverVars, streamVars, handshakeVars
<1>2. \A i : (Counted(i))' = Counted(i)
  BY <1>1 DEF Counted, FramesAt
<1>3. Mannered' /\ Flowing'
  BY <1>1, <1>2 DEF StreamInv, Mannered, Numbered, Flowing
<1>4. ASSUME ended' = "none" PROVE sock # "open" /\ Len(got) = Sent
  <2>1. sock = "eof" /\ read = 2 * Len(out)  BY <1>1, <1>4 DEF AtEof
  <2>2. PICK S : out \in Seq(S)  BY DEF StreamInv, TcpInv, Shape
  <2>3. PICK L \in Nat : L = Len(out)  BY <2>2, LenProperties
  <2>4. /\ taken = read \div 2 /\ got \in Seq(Nat) /\ Len(got) + Len(pending) = Counted(taken)
    BY <1>1 DEF StreamInv, Flowing
  <2>5. Len(pending) = 0 /\ Len(got) \in Nat  BY <1>1, <2>4, EmptySeq, LenProperties
  <2>6. taken = L  BY <2>1, <2>3, <2>4
  <2>7. Sent = Counted(L)  BY <2>2, <2>3, CountingGrows
  <2> QED BY <2>1, <2>4, <2>5, <2>6, <2>7
<1> QED BY <1>1, <1>3, <1>4

LEMMA StepKeepsStream == StreamInv /\ [Next]_vars => Mannered' /\ Flowing'
<1> SUFFICES ASSUME StreamInv, [Next]_vars PROVE Mannered' /\ Flowing'
  OBVIOUS
<1>1. CASE Closes \/ UNCHANGED vars
  <2>1. UNCHANGED <<out, setup, read, taken, phase, pending, got, ended>>
    BY <1>1 DEF Closes, vars, serverVars, streamVars, handshakeVars, transportVars
  <2>2. \A i : (Counted(i))' = Counted(i)  BY <2>1 DEF Counted, FramesAt
  <2> QED BY <2>1, <2>2 DEF StreamInv, Mannered, Numbered, Flowing
<1>2. CASE ServerSends  BY <1>2, SendingKeeps
<1>3. CASE \/ ServerHangsUp \/ ConnectFails \/ Connects \/ SliceEnds \/ HandshakeLoses
           \/ AttachReads \/ AttachLooks \/ ListLooks \/ ListReads
  BY <1>3, AttachingKeeps
<1>4. CASE RecvPops  BY <1>4, PoppingKeeps
<1>5. CASE RecvReads  BY <1>5, ReadingKeeps
<1>6. CASE RecvEnds  BY <1>6, EndingKeeps
<1> QED BY <1>1, <1>2, <1>3, <1>4, <1>5, <1>6 DEF Next, Handshake, Recv

\* A live session's frames reach recv as they were sent.  [TcpTransport::recv]
LEMMA StreamHolds == Spec => []StreamInv
<1>1. StreamInv /\ [Next]_vars => StreamInv'
  BY StepKeepsStream, StepKeepsInv DEF StreamInv
<1> QED BY <1>1, InitStream, PTL DEF Spec

\* What FrameStream calls gone.
Gone == sock # "open" \/ Holds({"didClose"}, out)

LEMMA StepIsStream == StreamInv /\ [Next]_vars => [Stream!Next]_Stream!vars
<1> SUFFICES ASSUME StreamInv, [Next]_vars
             PROVE  Stream!Next \/ UNCHANGED <<Sent, Gone, got, ended>>
  BY DEF Stream!vars, Gone
<1>0. PICK S : out \in Seq(S)  BY DEF StreamInv, TcpInv, Shape
<1>a. Sent \in Nat
  <2>1. 0 \in 0..Len(out)  BY <1>0, LenProperties
  <2>2. Len(out) \in Nat  BY <1>0, LenProperties
  <2> QED BY <1>0, <2>1, <2>2, CountingGrows
<1>1. CASE Closes \/ UNCHANGED vars
  BY <1>1 DEF Closes, vars, serverVars, streamVars, handshakeVars, transportVars, Gone, Holds, Sent, Count
<1>2. CASE ServerSends
  <2>1. UNCHANGED <<got, ended, sock>>  BY <1>2 DEF ServerSends, transportVars
  <2>2. CASE Sent' = Sent + 1
    <3>1. ~Gone /\ Sent < MaxMessages /\ Gone' = FALSE
      BY <1>2, <2>1, <2>2, SendingKeeps DEF Gone
    <3>2. Stream!DebuggeeSends
      BY <3>1, <2>1, <2>2 DEF Stream!DebuggeeSends, Gone
    <3> QED BY <3>2 DEF Stream!Next
  <2>3. CASE Sent' = Sent
    <3>1. Gone = FALSE  BY <1>2, SendingKeeps DEF Gone
    <3>2. CASE Gone' = FALSE  BY <2>1, <2>3, <3>1, <3>2
    <3>3. CASE Gone' = TRUE
      <4>1. Stream!DebuggeeLeaves  BY <2>1, <2>3, <3>3 DEF Stream!DebuggeeLeaves, Gone
      <4> QED BY <4>1 DEF Stream!Next
    <3> QED BY <3>2, <3>3 DEF Gone
  <2> QED BY <1>2, <2>2, <2>3, SendingKeeps
<1>3. CASE ServerHangsUp
  <2>1. UNCHANGED <<out, got, ended>> /\ sock' # "open"
    BY <1>3 DEF ServerHangsUp, transportVars
  <2>2. Sent' = Sent /\ Gone' = TRUE  BY <2>1 DEF Sent, Count, Gone
  <2>3. Stream!DebuggeeLeaves  BY <2>1, <2>2 DEF Stream!DebuggeeLeaves, Gone
  <2> QED BY <2>3 DEF Stream!Next
<1>4. CASE \/ ConnectFails \/ Connects \/ SliceEnds \/ HandshakeLoses
           \/ AttachReads \/ AttachLooks \/ ListLooks \/ ListReads
  <2>1. UNCHANGED <<out, sock, got, ended>>
    BY <1>4 DEF ConnectFails, Connects, SliceEnds, HandshakeLoses, AttachReads, AttachLooks,
                ListLooks, ListReads, serverVars, transportVars
  <2> QED BY <2>1 DEF Gone, Holds, Sent, Count
<1>5. CASE RecvPops
  <2>1. UNCHANGED <<out, sock, ended>> /\ ended = "open"
        /\ Len(got) < Sent /\ got' = Append(got, Len(got) + 1)
    BY <1>5, PoppingKeeps
  <2>2. Sent' = Sent /\ Gone' = Gone  BY <2>1 DEF Sent, Count, Gone, Holds
  <2>3. Stream!RecvReturnsFrame  BY <2>1, <2>2 DEF Stream!RecvReturnsFrame, Gone
  <2> QED BY <2>3 DEF Stream!Next
<1>6. CASE RecvReads \/ RecvEnds
  <2>1. UNCHANGED <<out, sock, got>> /\ ended = "open" /\ ended' \in {"open", "none", "error"}
        /\ (ended' = "none" => Gone /\ Len(got) = Sent)
    BY <1>6, ReadingKeeps, EndingKeeps DEF Gone
  <2>2. Sent' = Sent /\ Gone' = Gone  BY <2>1 DEF Sent, Count, Gone, Holds
  <2>3. CASE ended' = "none"
    <3>1. Stream!RecvReturnsNone  BY <2>1, <2>2, <2>3 DEF Stream!RecvReturnsNone, Gone
    <3> QED BY <3>1 DEF Stream!Next
  <2>4. CASE ended' = "error"
    <3>1. Stream!RecvReturnsError  BY <2>1, <2>2, <2>4 DEF Stream!RecvReturnsError, Gone
    <3> QED BY <3>1 DEF Stream!Next
  <2>5. CASE ended' = "open"  BY <2>1, <2>2, <2>5
  <2> QED BY <2>1, <2>3, <2>4, <2>5
<1> QED BY <1>1, <1>2, <1>3, <1>4, <1>5, <1>6 DEF Next, Handshake, Recv

\* recv over a stream that reads cut anywhere keeps the promise of the
\* Transport trait: every frame once and in order, `None` only behind the last
\* of them, at most one end.  [TcpTransport::recv and pull_pending]
THEOREM TransportImplemented == Spec => ImplementsTransport
<1>1. Init => Stream!Init
  <2> SUFFICES ASSUME Init PROVE Stream!Init
    OBVIOUS
  <2>1. Sent = 0
    <3>1. {i \in DOMAIN out : out[i].kind \in {"frame"}} = {}
      BY EmptySeq, LenProperties DEF Init
    <3> QED BY <3>1, FS_EmptySet DEF Sent, Count
  <2>2. ~Holds({"didClose"}, out)  BY EmptySeq, LenProperties DEF Init, Holds
  <2> QED BY <2>1, <2>2 DEF Init, Stream!Init
<1> QED BY <1>1, StreamHolds, StepIsStream, PTL DEF Spec, ImplementsTransport, Stream!Spec

-----------------------------------------------------------------------------
(* The bytes underneath *)

\* The bytes behind a message's flags.
Body(ev) == <<F!NameByte(ev.name), 0>> \o F!Payload(ev)

\* Four bytes hold a size.
LEMMA SizeHolds ==
    ASSUME NEW n \in Nat
    PROVE  /\ F!Size(n) \in Seq(Nat) /\ Len(F!Size(n)) = 4
           /\ ((F!Size(n)[1] * 256 + F!Size(n)[2]) * 256 + F!Size(n)[3]) * 256 + F!Size(n)[4] = n
<1>1. PICK a \in Nat : a = n \div 256  OBVIOUS
<1>2. PICK b \in Nat : b = a \div 256  OBVIOUS
<1>3. PICK c \in Nat : c = b \div 256  OBVIOUS
<1>4. n = a * 256 + (n % 256) /\ n % 256 \in 0..255  BY <1>1
<1>5. a = b * 256 + (a % 256) /\ a % 256 \in 0..255  BY <1>2
<1>6. b = c * 256 + (b % 256) /\ b % 256 \in 0..255  BY <1>3
<1>7. F!Size(n) = <<c, b % 256, a % 256, n % 256>>  BY <1>1, <1>2, <1>3 DEF F!Size
<1>8. PICK x \in Nat, y \in Nat, z \in Nat : x = b % 256 /\ y = a % 256 /\ z = n % 256
  BY <1>4, <1>5, <1>6
<1>9. ((c * 256 + x) * 256 + y) * 256 + z = n  BY <1>4, <1>5, <1>6, <1>8
<1> QED BY <1>7, <1>8, <1>9

\* A name is told by its byte.
LEMMA NameHolds ==
    ASSUME NEW name, F!Type(name) # "unknown"
    PROVE  F!NameByte(name) \in Nat /\ F!NameOf(F!NameByte(name)) = name
<1>1. name \in {"SetupInspectorClient", "Setup", "SendMessageToBackend", "FrontendDidClose",
                "DidSetupInspectorClient", "SetTargetList", "SendMessageToFrontend", "DidClose"}
  BY DEF F!Type
<1>2. DOMAIN F!Names = 1..8 /\ \E i \in 1..8 : F!Names[i] = name
  BY <1>1 DEF F!Names
<1>3. PICK i : i = CHOOSE k \in DOMAIN F!Names : F!Names[k] = name  OBVIOUS
<1>4. i \in 1..8 /\ F!Names[i] = name  BY <1>2, <1>3
<1>5. F!NameByte(name) = 100 + i  BY <1>3 DEF F!NameByte
<1>6. 100 + i \in 101..108 /\ (100 + i) - 100 = i  BY <1>4
<1> QED BY <1>4, <1>5, <1>6 DEF F!NameOf

Types == {"(ay)", "(tt)", "(tts)", "(ta(tsssb))", "none"}

\* What is written and read of a message of each type.
LEMMA ByType ==
    ASSUME NEW ev, NEW payload, F!Type(ev.name) # "unknown"
    PROVE  /\ F!Type(ev.name) \in Types
           /\ F!Type(ev.name) = "(ay)" =>
                /\ F!Payload(ev) = F!BytestringPayload(ev.data)
                /\ F!VariantToEvent(ev.name, payload) = F!Event(ev.name, <<>>, F!Bytestring(payload))
           /\ F!Type(ev.name) = "(tt)" =>
                /\ F!Payload(ev) = ev.ids \o ev.data
                /\ F!VariantToEvent(ev.name, payload) = F!Event(ev.name, payload, <<>>)
           /\ F!Type(ev.name) = "(tts)" =>
                /\ F!Payload(ev) = ev.ids \o Append(ev.data, 0)
                /\ F!VariantToEvent(ev.name, payload) =
                     F!Event(ev.name, SubSeq(payload, 1, 2), F!Content(SubSeq(payload, 3, Len(payload))))
           /\ F!Type(ev.name) = "(ta(tsssb))" =>
                /\ F!Payload(ev) = ev.ids \o ev.data
                /\ F!VariantToEvent(ev.name, payload) =
                     F!Event(ev.name, SubSeq(payload, 1, 1), Tail(payload))
           /\ F!Type(ev.name) = "none" =>
                /\ F!Payload(ev) = ev.ids \o ev.data
                /\ F!VariantToEvent(ev.name, payload) = F!Event(ev.name, <<>>, <<>>)
<1>1. F!Type(ev.name) \in Types  BY Zenon DEF F!Type, Types
<1>2. CASE F!Type(ev.name) = "(ay)"  BY <1>1, <1>2, Zenon DEF F!Payload, F!VariantToEvent
<1>3. CASE F!Type(ev.name) = "(tt)"  BY <1>1, <1>3, Zenon DEF F!Payload, F!VariantToEvent
<1>4. CASE F!Type(ev.name) = "(tts)"  BY <1>1, <1>4, Zenon DEF F!Payload, F!VariantToEvent
<1>5. CASE F!Type(ev.name) = "(ta(tsssb))"  BY <1>1, <1>5, Zenon DEF F!Payload, F!VariantToEvent
<1>6. CASE F!Type(ev.name) = "none"  BY <1>1, <1>6, Zenon DEF F!Payload, F!VariantToEvent
<1> QED BY <1>1, <1>2, <1>3, <1>4, <1>5, <1>6 DEF Types

\* A part of a list, place by place.
LEMMA Part ==
    ASSUME NEW S, NEW s \in Seq(S), NEW m \in Nat, NEW n \in Nat, m > 0, n <= Len(s), m <= n + 1
    PROVE  /\ SubSeq(s, m, n) \in Seq(S) /\ Len(SubSeq(s, m, n)) = n - m + 1
           /\ \A i \in 1..(n - m + 1) : SubSeq(s, m, n)[i] = s[m + i - 1]
<1>1. Len(s) \in Nat  BY LenProperties
<1>2. \A i \in m..n : s[i] \in S
  <2>1. \A i \in m..n : i \in 1..Len(s)  BY <1>1
  <2> QED BY <2>1, ElementOfSeq
<1>3. m \in Int /\ n \in Int  OBVIOUS
<1> QED BY <1>2, <1>3, SubSeqProperties

\* A list that has the same elements is that part.
LEMMA PartIs ==
    ASSUME NEW S, NEW s \in Seq(S), NEW m \in Nat, NEW n \in Nat, m > 0, n <= Len(s), m <= n + 1,
           NEW t \in Seq(S), Len(t) = n - m + 1, \A i \in 1..(n - m + 1) : t[i] = s[m + i - 1]
    PROVE  SubSeq(s, m, n) = t
<1>1. PICK p \in Seq(S) : p = SubSeq(s, m, n)  BY Part
<1>2. Len(p) = Len(t) /\ \A i \in 1..Len(p) : p[i] = t[i]  BY <1>1, Part
<1> QED BY <1>1, <1>2, SeqEqual

LEMMA PartsOfConcat ==
    ASSUME NEW S, NEW a \in Seq(S), NEW b \in Seq(S), NEW c \in Seq(S), c = a \o b,
           NEW j \in Nat, j = Len(a), NEW m \in Nat, m = j + 1
    PROVE  SubSeq(c, 1, j) = a /\ SubSeq(c, m, Len(c)) = b
<1>1. PICK k \in Nat, n \in Nat : k = Len(b) /\ n = j + k  BY LenProperties
<1>2. /\ Len(c) = n
      /\ \A i \in 1..n : c[i] = IF i <= j THEN a[i] ELSE b[i - j]
  BY <1>1, ConcatProperties
<1>3. SubSeq(c, 1, j) = a
  <2>1. 1 \in Nat /\ 1 > 0 /\ j <= Len(c) /\ 1 <= j + 1 /\ Len(a) = j - 1 + 1  BY <1>1, <1>2
  <2>2. \A i \in 1..(j - 1 + 1) : a[i] = c[1 + i - 1]  BY <1>1, <1>2
  <2> QED BY <2>1, <2>2, PartIs
<1>4. SubSeq(c, m, n) = b
  <2>1. m > 0 /\ n <= Len(c) /\ m <= n + 1 /\ Len(b) = n - m + 1  BY <1>1, <1>2
  <2>2. \A i \in 1..(n - m + 1) : b[i] = c[m + i - 1]
    <3> SUFFICES ASSUME NEW i \in 1..k PROVE b[i] = c[m + i - 1]
      BY <1>1
    <3>1. m + i - 1 \in 1..n /\ m + i - 1 > j /\ (m + i - 1) - j = i  BY <1>1
    <3> QED BY <1>2, <3>1
  <2> QED BY <2>1, <2>2, PartIs
<1> QED BY <1>2, <1>3, <1>4

LEMMA ContentHolds ==
    ASSUME NEW data \in Seq(Nat)
    PROVE  F!Content(Append(data, 0)) = data /\ F!Bytestring(F!BytestringPayload(data)) = data
<1>1. PICK n \in Nat : n = Len(data)  BY LenProperties
<1>2. PICK s \in Seq(Nat) : s = Append(data, 0)  BY AppendProperties
<1>3. s # <<>> /\ Len(s) = n + 1 /\ s[n + 1] = 0 /\ \A i \in 1..n : s[i] = data[i]
  BY <1>1, <1>2, AppendProperties
<1>4. SubSeq(s, 1, n) = data
  <2>1. 1 \in Nat /\ 1 > 0 /\ n <= Len(s) /\ 1 <= n + 1 /\ Len(data) = n - 1 + 1  BY <1>1, <1>3
  <2>2. \A i \in 1..(n - 1 + 1) : data[i] = s[1 + i - 1]  BY <1>3
  <2> QED BY <2>1, <2>2, PartIs
<1>5. Len(s) - 1 = n  BY <1>3
<1>6. F!Content(s) = data  BY <1>4, <1>5 DEF F!Content
<1> QED BY <1>2, <1>3, <1>6 DEF F!Bytestring, F!BytestringPayload

\* What is written of a message's parameters is read as them.
LEMMA EventHolds ==
    ASSUME NEW ev, WellFormed(ev)
    PROVE  /\ F!Payload(ev) \in Seq(Nat) /\ F!Decodable(ev.name, F!Payload(ev))
           /\ F!VariantToEvent(ev.name, F!Payload(ev)) = ev
<1>1. /\ ev = F!Event(ev.name, ev.ids, ev.data) /\ ev.ids \in Seq(Nat) /\ ev.data \in Seq(Nat)
      /\ F!Type(ev.name) # "unknown"
      /\ F!Type(ev.name) \in {"(tt)", "none"} => ev.data = <<>>
  BY DEF WellFormed
<1>2. /\ F!Type(ev.name) \in {"(tt)", "(tts)"} => Len(ev.ids) = 2
      /\ F!Type(ev.name) = "(ta(tsssb))" => Len(ev.ids) = 1
      /\ F!Type(ev.name) \in {"(ay)", "none"} => Len(ev.ids) = 0
  BY Zenon DEF WellFormed
<1>3. Len(ev.ids) = 0 => ev.ids = <<>>  BY <1>1, EmptySeq
<1>4. PICK ids \in Seq(Nat), data \in Seq(Nat) : ids = ev.ids /\ data = ev.data  BY <1>1
<1>5. ev.name = "DidClose" => F!Type(ev.name) = "none"  BY Zenon DEF F!Type
<1>6. CASE F!Type(ev.name) = "(ay)"
  <2>1. ev.ids = <<>> /\ ev.name # "DidClose"  BY <1>2, <1>3, <1>5, <1>6
  <2>2. F!Payload(ev) = F!BytestringPayload(data)  BY <1>1, <1>4, <1>6, ByType
  <2>3. F!VariantToEvent(ev.name, F!Payload(ev)) = F!Event(ev.name, <<>>, data)
    <3>1. F!Bytestring(F!Payload(ev)) = data  BY <2>2, ContentHolds
    <3> QED BY <1>1, <1>6, <3>1, ByType
  <2>4. F!Payload(ev) \in Seq(Nat)  BY <2>2, AppendProperties DEF F!BytestringPayload
  <2> QED BY <1>1, <1>4, <2>1, <2>3, <2>4 DEF F!Decodable
<1>7. CASE F!Type(ev.name) = "(tt)"
  <2>1. ev.data = <<>> /\ ev.name # "DidClose"  BY <1>1, <1>5, <1>7
  <2>2. F!Payload(ev) = ids
    <3>1. F!Payload(ev) = ids \o <<>>  BY <1>1, <1>4, <1>7, <2>1, ByType
    <3> QED BY <3>1, ConcatEmptySeq
  <2>3. F!VariantToEvent(ev.name, F!Payload(ev)) = F!Event(ev.name, ids, <<>>)
    BY <1>1, <1>7, <2>2, ByType
  <2> QED BY <1>1, <1>4, <2>1, <2>2, <2>3 DEF F!Decodable
<1>8. CASE F!Type(ev.name) = "(tts)"
  <2>1. Len(ids) = 2 /\ ev.name # "DidClose"  BY <1>2, <1>4, <1>5, <1>8
  <2>2. PICK tail \in Seq(Nat) : tail = Append(data, 0)  BY AppendProperties
  <2>3. PICK payload \in Seq(Nat) : payload = ids \o tail  BY ConcatProperties
  <2>4. F!Payload(ev) = payload  BY <1>1, <1>4, <1>8, <2>2, <2>3, ByType
  <2>5. SubSeq(payload, 1, 2) = ids /\ SubSeq(payload, 3, Len(payload)) = tail
    <3>1. PICK j \in Nat, m \in Nat : j = 2 /\ m = 3  OBVIOUS
    <3>2. j = Len(ids) /\ m = j + 1  BY <2>1, <3>1
    <3>3. SubSeq(payload, 1, j) = ids /\ SubSeq(payload, m, Len(payload)) = tail
      BY <2>3, <3>2, PartsOfConcat
    <3> QED BY <3>1, <3>3
  <2>6. F!Content(tail) = data  BY <2>2, ContentHolds
  <2>7. F!VariantToEvent(ev.name, payload) = F!Event(ev.name, ids, data)
    BY <1>1, <1>8, <2>5, <2>6, ByType
  <2> QED BY <1>1, <1>4, <2>1, <2>4, <2>7 DEF F!Decodable
<1>9. CASE F!Type(ev.name) = "(ta(tsssb))"
  <2>1. Len(ids) = 1 /\ ev.name # "DidClose"  BY <1>2, <1>4, <1>5, <1>9
  <2>2. PICK payload \in Seq(Nat) : payload = ids \o data  BY ConcatProperties
  <2>3. F!Payload(ev) = payload  BY <1>1, <1>4, <1>9, <2>2, ByType
  <2>4. SubSeq(payload, 1, 1) = ids /\ SubSeq(payload, 2, Len(payload)) = data
    <3>1. PICK j \in Nat, m \in Nat : j = 1 /\ m = 2  OBVIOUS
    <3>2. j = Len(ids) /\ m = j + 1  BY <2>1, <3>1
    <3>3. SubSeq(payload, 1, j) = ids /\ SubSeq(payload, m, Len(payload)) = data
      BY <2>2, <3>2, PartsOfConcat
    <3> QED BY <3>1, <3>3
  <2>5. Tail(payload) = data
    <3>1. payload # <<>>
      <4>1. PICK j \in Nat, k \in Nat : j = Len(ids) /\ k = Len(data)  BY LenProperties
      <4>2. Len(payload) = j + k  BY <2>2, <4>1, ConcatProperties
      <4> QED BY <2>1, <4>1, <4>2, EmptySeq
    <3> QED BY <2>4, <3>1, TailIsSubSeq
  <2>6. F!VariantToEvent(ev.name, payload) = F!Event(ev.name, ids, data)
    <3>1. F!VariantToEvent(ev.name, payload) = F!Event(ev.name, SubSeq(payload, 1, 1), Tail(payload))
      BY <1>1, <1>9, ByType
    <3> QED BY <2>4, <2>5, <3>1, Zenon
  <2> QED BY <1>1, <1>4, <2>1, <2>3, <2>6 DEF F!Decodable
<1>10. CASE F!Type(ev.name) = "none"
  <2>1. ev.ids = <<>> /\ ev.data = <<>>  BY <1>1, <1>2, <1>3, <1>10
  <2>2. F!Payload(ev) = <<>>
    <3>1. F!Payload(ev) = ids \o <<>>  BY <1>1, <1>4, <1>10, <2>1, ByType
    <3> QED BY <1>4, <2>1, <3>1, ConcatEmptySeq
  <2>3. F!VariantToEvent(ev.name, F!Payload(ev)) = F!Event(ev.name, <<>>, <<>>)
    BY <1>1, <1>10, <2>2, ByType
  <2> QED BY <1>1, <2>1, <2>2, <2>3, EmptySeq DEF F!Decodable
<1> QED BY <1>1, <1>6, <1>7, <1>8, <1>9, <1>10, ByType DEF Types

\* Two lists in one.
BothIn(c, a, j, b, k) ==
    /\ Len(c) = j + k
    /\ \A i \in 1..j : c[i] = a[i]
    /\ \A i \in 1..k : c[j + i] = b[i]

LEMMA Joined ==
    ASSUME NEW S, NEW a \in Seq(S), NEW b \in Seq(S), NEW c \in Seq(S), c = a \o b,
           NEW j \in Nat, j = Len(a), NEW k \in Nat, k = Len(b)
    PROVE  BothIn(c, a, j, b, k)
<1>1. Len(c) = j + k /\ \A i \in 1..(j + k) : c[i] = IF i <= j THEN a[i] ELSE b[i - j]
  BY ConcatProperties
<1>2. \A i \in 1..j : c[i] = a[i]  BY <1>1
<1>3. \A i \in 1..k : c[j + i] = b[i]
  <2> SUFFICES ASSUME NEW i \in 1..k PROVE c[j + i] = b[i]
    OBVIOUS
  <2>1. j + i \in 1..(j + k) /\ ~(j + i <= j) /\ (j + i) - j = i  OBVIOUS
  <2> QED BY <1>1, <2>1
<1> QED BY <1>1, <1>2, <1>3 DEF BothIn

Enc(ev) == F!EncodeMessage(ev)

\* A message is its size, its flags and its body.
LEMMA EncodedIs ==
    ASSUME NEW ev, WellFormed(ev)
    PROVE  /\ Body(ev) \in Seq(Nat) /\ Len(Body(ev)) = 2 + Len(F!Payload(ev))
           /\ Enc(ev) \in Seq(Nat) /\ Len(Enc(ev)) = 5 + Len(Body(ev))
           /\ \A i \in 1..4 : Enc(ev)[i] = F!Size(Len(Body(ev)))[i]
           /\ Enc(ev)[5] = 1
           /\ \A i \in 1..Len(Body(ev)) : Enc(ev)[5 + i] = Body(ev)[i]
           /\ Body(ev)[1] = F!NameByte(ev.name) /\ Body(ev)[2] = 0
           /\ \A i \in 1..Len(F!Payload(ev)) : Body(ev)[2 + i] = F!Payload(ev)[i]
<1>1. PICK payload \in Seq(Nat) : payload = F!Payload(ev)  BY EventHolds
<1>2. PICK start \in Seq(Nat) : start = <<F!NameByte(ev.name), 0>>
  <2>1. PICK byte \in Nat : byte = F!NameByte(ev.name)  BY NameHolds DEF WellFormed
  <2>2. <<byte, 0>> \in Seq(Nat)  OBVIOUS
  <2> QED BY <2>1, <2>2
<1>3. Len(start) = 2 /\ start[1] = F!NameByte(ev.name) /\ start[2] = 0  BY <1>2
<1>4. PICK body \in Seq(Nat) : body = start \o payload  BY ConcatProperties
<1>5. Body(ev) = body  BY <1>1, <1>2, <1>4 DEF Body
<1>6. PICK p \in Nat, l \in Nat, two \in Nat : p = Len(payload) /\ l = Len(body) /\ two = 2
  BY LenProperties
<1>7. Len(body) = two + p /\ (\A i \in 1..two : body[i] = start[i])
      /\ \A i \in 1..p : body[two + i] = payload[i]
  <2>1. two = Len(start)  BY <1>3, <1>6
  <2>2. BothIn(body, start, two, payload, p)  BY <2>1, <1>4, <1>6, Joined
  <2> QED BY <2>2 DEF BothIn
<1>8. l = 2 + p /\ body[1] = F!NameByte(ev.name) /\ body[2] = 0  BY <1>3, <1>6, <1>7
<1>9. \A i \in 1..p : body[2 + i] = payload[i]  BY <1>6, <1>7
<1>10. PICK size \in Seq(Nat) : size = F!Size(l)  BY SizeHolds
<1>11. PICK four \in Nat, one \in Nat, five \in Nat : four = 4 /\ one = 1 /\ five = 5  OBVIOUS
<1>12. Len(size) = four  BY <1>10, <1>11, SizeHolds
<1>13. PICK flags \in Seq(Nat) : flags = <<1>>
  <2>1. <<1>> \in Seq(Nat)  OBVIOUS
  <2> QED BY <2>1
<1>14. Len(flags) = one /\ flags[1] = 1  BY <1>11, <1>13
<1>15. PICK head \in Seq(Nat) : head = size \o flags  BY ConcatProperties
<1>16. Len(head) = four + one /\ (\A i \in 1..four : head[i] = size[i])
       /\ \A i \in 1..one : head[four + i] = flags[i]
  <2>1. four = Len(size) /\ one = Len(flags)  BY <1>12, <1>14
  <2>2. BothIn(head, size, four, flags, one)  BY <2>1, <1>15, Joined
  <2> QED BY <2>2 DEF BothIn
<1>17. Len(head) = five /\ (\A i \in 1..4 : head[i] = size[i]) /\ head[5] = 1
  BY <1>11, <1>14, <1>16
<1>18. PICK all \in Seq(Nat) : all = head \o body  BY ConcatProperties
<1>19. Len(all) = five + l /\ (\A i \in 1..five : all[i] = head[i])
       /\ \A i \in 1..l : all[five + i] = body[i]
  <2>1. five = Len(head)  BY <1>17
  <2>2. BothIn(all, head, five, body, l)  BY <2>1, <1>6, <1>18, Joined
  <2> QED BY <2>2 DEF BothIn
<1>20. /\ Len(all) = 5 + l /\ (\A i \in 1..4 : all[i] = size[i]) /\ all[5] = 1
       /\ \A i \in 1..l : all[5 + i] = body[i]
  <2> USE <1>11
  <2>1. Len(all) = 5 + l  BY <1>19
  <2>2. \A i \in 1..l : all[5 + i] = body[i]  BY <1>19
  <2>3. \A i \in 1..5 : all[i] = head[i]  BY <1>19
  <2>4. \A i \in 1..4 : i \in 1..5 /\ all[i] = size[i]
    <3>1. \A i \in 1..4 : i \in 1..5  OBVIOUS
    <3> QED BY <1>17, <2>3, <3>1
  <2>5. 5 \in 1..5  OBVIOUS
  <2>6. all[5] = 1  BY <1>17, <2>3, <2>5
  <2> QED BY <2>1, <2>2, <2>4, <2>6
<1>21. Enc(ev) = all
  BY <1>1, <1>2, <1>4, <1>6, <1>10, <1>13, <1>15, <1>18
     DEF Enc, F!EncodeMessage, F!LittleEndian
<1> QED BY <1>1, <1>5, <1>6, <1>8, <1>9, <1>10, <1>20, <1>21

\* The size in front of a message, and what it says.
LEMMA SizeIs ==
    ASSUME NEW ev, WellFormed(ev), NEW buffer \in Seq(Nat), 4 <= Len(buffer),
           \A i \in 1..4 : buffer[i] = Enc(ev)[i]
    PROVE  F!BodySize(buffer) = Len(Body(ev))
<1>1. PICK l \in Nat : l = Len(Body(ev))  BY EncodedIs, LenProperties
<1>2. PICK size \in Seq(Nat) : size = F!Size(l)  BY SizeHolds
<1>3. ((size[1] * 256 + size[2]) * 256 + size[3]) * 256 + size[4] = l  BY <1>2, SizeHolds
<1>4. \A i \in 1..4 : buffer[i] = size[i]  BY <1>1, <1>2, EncodedIs
<1>5. buffer[1] = size[1] /\ buffer[2] = size[2] /\ buffer[3] = size[3] /\ buffer[4] = size[4]
  BY <1>4
<1>6. F!BodySize(buffer) = ((size[1] * 256 + size[2]) * 256 + size[3]) * 256 + size[4]
  BY <1>5 DEF F!BodySize
<1> QED BY <1>1, <1>3, <1>6

\* A message is there, and it is taken and what is behind it stays.
Heads(buffer, ev, n) ==
    n = Len(Enc(ev)) /\ n <= Len(buffer) /\ \A i \in 1..n : buffer[i] = Enc(ev)[i]
Takes(buffer, ev, n) ==
    /\ F!TakeOne(buffer).is = "event"
    /\ F!TakeOne(buffer).event = ev
    /\ F!TakeOne(buffer).rest = SubSeq(buffer, n + 1, Len(buffer))

LEMMA TakesWhole ==
    ASSUME NEW ev \in Traffic, NEW buffer \in Seq(Nat), NEW n \in Nat, Heads(buffer, ev, n)
    PROVE  Takes(buffer, ev, n)
<1>0. n = Len(Enc(ev)) /\ n <= Len(buffer) /\ \A i \in 1..n : buffer[i] = Enc(ev)[i]
  BY DEF Heads
<1>1. WellFormed(ev) /\ 2 + Len(F!Payload(ev)) <= MaxBody  BY WireConstants
<1>2. PICK body \in Seq(Nat), payload \in Seq(Nat) : body = Body(ev) /\ payload = F!Payload(ev)
  BY <1>1, EncodedIs, EventHolds
<1>3. PICK l \in Nat, p \in Nat, all \in Nat : l = Len(body) /\ p = Len(payload) /\ all = Len(buffer)
  BY LenProperties
<1>4. l = 2 + p /\ n = 5 + l /\ l <= MaxBody  BY <1>0, <1>1, <1>2, <1>3, EncodedIs
<1>5. F!BodySize(buffer) = l
  <2>1. 4 <= Len(buffer) /\ \A i \in 1..4 : buffer[i] = Enc(ev)[i]  BY <1>0, <1>3, <1>4
  <2> QED BY <1>1, <1>2, <1>3, <2>1, SizeIs
<1>6. buffer[5] % 2 = F!LittleEndian
  <2>1. 5 \in 1..n  BY <1>4
  <2>2. buffer[5] = Enc(ev)[5]  BY <1>0, <2>1
  <2>3. buffer[5] = 1  BY <1>1, <2>2, EncodedIs
  <2> QED BY <2>3 DEF F!LittleEndian
<1>7. SubSeq(buffer, 6, n) = body
  <2>1. 6 \in Nat /\ 6 > 0 /\ n <= Len(buffer) /\ 6 <= n + 1 /\ Len(body) = n - 6 + 1
    BY <1>0, <1>3, <1>4
  <2>2. \A i \in 1..(n - 6 + 1) : body[i] = buffer[6 + i - 1]
    <3> SUFFICES ASSUME NEW i \in 1..l PROVE body[i] = buffer[6 + i - 1]
      BY <1>4
    <3>1. 6 + i - 1 = 5 + i /\ 5 + i \in 1..n  BY <1>4
    <3>2. Enc(ev)[5 + i] = body[i]  BY <1>1, <1>2, <1>3, EncodedIs
    <3> QED BY <1>0, <3>1, <3>2
  <2> QED BY <2>1, <2>2, PartIs
<1>8. SubSeq(body, 3, l) = payload
  <2>1. 3 \in Nat /\ 3 > 0 /\ l <= Len(body) /\ 3 <= l + 1 /\ Len(payload) = l - 3 + 1
    BY <1>0, <1>3, <1>4
  <2>2. \A i \in 1..(l - 3 + 1) : payload[i] = body[3 + i - 1]
    <3> SUFFICES ASSUME NEW i \in 1..p PROVE payload[i] = body[3 + i - 1]
      BY <1>4
    <3>1. 3 + i - 1 = 2 + i  OBVIOUS
    <3>2. body[2 + i] = payload[i]  BY <1>1, <1>2, <1>3, EncodedIs
    <3> QED BY <1>0, <3>1, <3>2
  <2> QED BY <2>1, <2>2, PartIs
<1>9. F!NameOf(body[1]) = ev.name /\ body[2] = 0
  BY <1>1, <1>2, EncodedIs, NameHolds DEF WellFormed
<1>10. F!Decodable(ev.name, payload) /\ F!VariantToEvent(ev.name, payload) = ev
  BY <1>1, <1>2, EventHolds
<1>11. F!FromBody(body, F!Rest(buffer, n)) = [is |-> "event", event |-> ev, rest |-> F!Rest(buffer, n)]
  BY <1>3, <1>8, <1>9, <1>10 DEF F!FromBody
<1>12. F!TakeOne(buffer) = F!FromBody(body, F!Rest(buffer, n))
  <2>1. ~(all < 4) /\ ~(l < 2) /\ ~(l > MaxBody) /\ ~(all < 5 + l) /\ 5 + l = n
    BY <1>0, <1>3, <1>4, WireConstants
  <2> QED BY <1>3, <1>5, <1>6, <1>7, <2>1 DEF F!TakeOne
<1> QED BY <1>11, <1>12 DEF F!Rest, Takes

\* Of a message that is not there whole nothing is taken.
LEMMA TakesNothing ==
    ASSUME NEW ev \in Traffic, NEW buffer \in Seq(Nat), Len(buffer) < Len(Enc(ev)),
           \A i \in 1..Len(buffer) : buffer[i] = Enc(ev)[i]
    PROVE  F!TakeOne(buffer).is = "partial"
<1>1. WellFormed(ev) /\ 2 + Len(F!Payload(ev)) <= MaxBody  BY WireConstants
<1>2. PICK l \in Nat, p \in Nat, all \in Nat :
        l = Len(Body(ev)) /\ p = Len(F!Payload(ev)) /\ all = Len(buffer)
  BY <1>1, EncodedIs, EventHolds, LenProperties
<1>3. l = 2 + p /\ all < 5 + l /\ l <= MaxBody  BY <1>1, <1>2, EncodedIs
<1>4. CASE all < 4  BY <1>2, <1>4 DEF F!TakeOne, F!Partial
<1>5. CASE ~(all < 4)
  <2>1. 4 <= Len(buffer) /\ \A i \in 1..4 : buffer[i] = Enc(ev)[i]  BY <1>2, <1>5
  <2>2. F!BodySize(buffer) = l  BY <1>1, <1>2, <2>1, SizeIs
  <2>3. ~(l < 2) /\ ~(l > MaxBody)  BY <1>3, WireConstants
  <2> QED BY <1>2, <1>3, <1>5, <2>2, <2>3 DEF F!TakeOne, F!Partial
<1> QED BY <1>4, <1>5

\* The size that a buffer says.
LEMMA SizeTyped ==
    ASSUME NEW buffer \in Seq(Nat), 4 <= Len(buffer)
    PROVE  F!BodySize(buffer) \in Nat
<1>1. \A i \in 1..4 : buffer[i] \in Nat
  <2>1. Len(buffer) \in Nat  BY LenProperties
  <2>2. \A i \in 1..4 : i \in 1..Len(buffer)  BY <2>1
  <2> QED BY <2>2, ElementOfSeq
<1>2. PICK a \in Nat, b \in Nat, c \in Nat, d \in Nat :
        a = buffer[1] /\ b = buffer[2] /\ c = buffer[3] /\ d = buffer[4]
  <2>1. buffer[1] \in Nat /\ buffer[2] \in Nat /\ buffer[3] \in Nat /\ buffer[4] \in Nat
    BY <1>1
  <2> QED BY <2>1, Zenon
<1>3. PICK high \in Nat : high = a * 256 + b  OBVIOUS
<1>4. PICK higher \in Nat : higher = high * 256 + c  OBVIOUS
<1>5. F!BodySize(buffer) = higher * 256 + d
  BY <1>2, <1>3, <1>4 DEF F!BodySize
<1>6. higher * 256 + d \in Nat  OBVIOUS
<1> QED BY <1>5, <1>6

\* What is left is bytes, whatever is taken.
LEMMA RestTyped ==
    ASSUME NEW buffer \in Seq(Nat)
    PROVE  F!TakeOne(buffer).rest \in Seq(Nat) /\ F!TakeOne(buffer).is \in {"partial", "malformed", "event"}
<1>1. PICK all \in Nat : all = Len(buffer)  BY LenProperties
<1>2. CASE all < 4  BY <1>1, <1>2 DEF F!TakeOne, F!Partial
<1>3. CASE ~(all < 4)
  <2>1. PICK l \in Nat : l = F!BodySize(buffer)  BY <1>1, <1>3, SizeTyped
  <2>2. CASE l < 2 \/ l > MaxBody  BY <1>1, <1>3, <2>1, <2>2 DEF F!TakeOne, F!Malformed
  <2>3. CASE ~(l < 2 \/ l > MaxBody) /\ all < 5 + l
    BY <1>1, <1>3, <2>1, <2>3 DEF F!TakeOne, F!Partial
  <2>4. CASE ~(l < 2 \/ l > MaxBody) /\ ~(all < 5 + l)
    <3>1. CASE buffer[5] % 2 # F!LittleEndian
      BY <1>1, <1>3, <2>1, <2>4, <3>1 DEF F!TakeOne, F!Malformed
    <3>2. CASE buffer[5] % 2 = F!LittleEndian
      <4>1. PICK n \in Nat : n = 5 + l  OBVIOUS
      <4>2. PICK rest \in Seq(Nat) : rest = F!Rest(buffer, n)
        <5>1. PICK m \in Nat : m = n + 1  OBVIOUS
        <5>2. m > 0 /\ all <= Len(buffer) /\ m <= all + 1  BY <1>1, <2>4, <4>1, <5>1
        <5>3. SubSeq(buffer, m, all) \in Seq(Nat)  BY <5>2, Part
        <5> QED BY <1>1, <5>1, <5>3 DEF F!Rest
      <4>3. F!TakeOne(buffer) = F!FromBody(SubSeq(buffer, 6, n), rest)
        BY <1>1, <1>3, <2>1, <2>4, <3>2, <4>1, <4>2 DEF F!TakeOne
      <4> QED BY <4>3 DEF F!FromBody, F!Malformed
    <3> QED BY <3>1, <3>2
  <2> QED BY <2>2, <2>3, <2>4
<1> QED BY <1>2, <1>3

\* Nothing is taken of damage, be it there whole or not, and when it is whole
\* it is found out.
LEMMA TakesNoDamage ==
    ASSUME NEW d \in Damages, NEW buffer \in Seq(Nat), Len(buffer) <= Len(d),
           \A i \in 1..Len(buffer) : buffer[i] = d[i]
    PROVE  /\ F!TakeOne(buffer).is \in {"partial", "malformed"}
           /\ Len(buffer) = Len(d) => F!TakeOne(buffer).is = "malformed"
<1>1. d \in Seq(Nat) /\ F!TakeOne(d).is = "malformed"  BY WireConstants
<1>2. PICK all \in Nat, whole \in Nat : all = Len(buffer) /\ whole = Len(d)
  BY <1>1, LenProperties
<1>3. CASE all = whole
  <2>1. buffer = d  BY <1>1, <1>2, <1>3, SeqEqual
  <2> QED BY <1>1, <2>1
<1>4. CASE all < 4 /\ all # whole
  BY <1>2, <1>4 DEF F!TakeOne, F!Partial
<1>5. CASE ~(all < 4) /\ all # whole
  <2>1. all < whole  BY <1>2, <1>5
  <2>2. PICK l \in Nat : l = F!BodySize(buffer)  BY <1>2, <1>5, SizeTyped
  <2>3. F!BodySize(d) = l
    <3>1. \A i \in 1..4 : buffer[i] = d[i]  BY <1>2, <1>5
    <3>2. buffer[1] = d[1] /\ buffer[2] = d[2] /\ buffer[3] = d[3] /\ buffer[4] = d[4]  BY <3>1
    <3> QED BY <2>2, <3>2 DEF F!BodySize
  <2>4. CASE l < 2 \/ l > MaxBody  BY <1>2, <1>5, <2>2, <2>4 DEF F!TakeOne, F!Malformed
  <2>5. CASE ~(l < 2 \/ l > MaxBody) /\ all < 5 + l
    BY <1>2, <1>5, <2>2, <2>5 DEF F!TakeOne, F!Partial
  <2>6. CASE ~(l < 2 \/ l > MaxBody) /\ ~(all < 5 + l)
    <3>1. ~(whole < 4) /\ ~(whole < 5 + l)  BY <1>5, <2>1, <2>6
    <3>2. buffer[5] = d[5]  BY <1>2, <2>6
    <3>3. CASE buffer[5] % 2 # F!LittleEndian
      BY <1>2, <1>5, <2>2, <2>6, <3>3 DEF F!TakeOne, F!Malformed
    <3>4. CASE buffer[5] % 2 = F!LittleEndian
      <4>1. PICK n \in Nat : n = 5 + l  OBVIOUS
      <4>2. PICK body \in Seq(Nat) : body = SubSeq(buffer, 6, n)
        <5>1. 6 \in Nat /\ 6 > 0 /\ n <= Len(buffer) /\ 6 <= n + 1  BY <1>2, <2>6, <4>1
        <5>2. SubSeq(buffer, 6, n) \in Seq(Nat)  BY <5>1, Part
        <5> QED BY <5>2
      <4>3. SubSeq(d, 6, n) = body
        <5>1. 6 \in Nat /\ 6 > 0 /\ n <= Len(buffer) /\ n <= Len(d) /\ 6 <= n + 1
          BY <1>2, <2>1, <2>6, <4>1
        <5>2. Len(body) = n - 6 + 1 /\ \A i \in 1..(n - 6 + 1) : body[i] = buffer[6 + i - 1]
          BY <4>2, <5>1, Part
        <5>3. \A i \in 1..(n - 6 + 1) : body[i] = d[6 + i - 1]
          <6> SUFFICES ASSUME NEW i \in 1..(n - 6 + 1) PROVE body[i] = d[6 + i - 1]
            OBVIOUS
          <6>1. 6 + i - 1 \in 1..all  BY <1>2, <2>6, <4>1
          <6> QED BY <1>2, <5>2, <6>1
        <5> QED BY <1>1, <5>1, <5>2, <5>3, PartIs
      <4>4. F!TakeOne(buffer) = F!FromBody(body, F!Rest(buffer, n))
        BY <1>2, <1>5, <2>2, <2>6, <3>4, <4>1, <4>2 DEF F!TakeOne
      <4>5. F!TakeOne(d) = F!FromBody(body, F!Rest(d, n))
        BY <1>2, <2>3, <2>6, <3>1, <3>2, <3>4, <4>1, <4>3 DEF F!TakeOne
      <4> QED BY <1>1, <1>2, <1>5, <4>4, <4>5 DEF F!FromBody, F!Malformed
    <3> QED BY <3>3, <3>4
  <2> QED BY <2>4, <2>5, <2>6
<1> QED BY <1>2, <1>3, <1>4, <1>5

-----------------------------------------------------------------------------
(* The stream *)

\* Where the message after n of them begins, and what is there of the stream.
Start(n) == IF n = 0 THEN 0 ELSE ends[n]
Behind(n, part) == \A i \in 1..Len(part) : bytes[Start(n) + i] = part[i]

\* How the stream is laid out.
StreamTyped ==
    /\ written \in Seq(Traffic) /\ bytes \in Seq(Nat) /\ damaged \in BOOLEAN
    /\ ends \in Seq(Nat) /\ Len(ends) = Len(written)
    /\ \A n \in 0..Len(written) : Start(n) <= Len(bytes)

MessagesLaid ==
    /\ \A i, j \in 0..Len(written) : i <= j => Start(i) + (j - i) <= Start(j)
    /\ \A n \in 1..Len(written) :
          Start(n) = Start(n - 1) + Len(Enc(written[n])) /\ Behind(n - 1, Enc(written[n]))

EndLaid ==
    IF damaged
    THEN \E d \in Damages : /\ Len(bytes) = Start(Len(written)) + Len(d)
                            /\ Behind(Len(written), d)
    ELSE Len(bytes) = Start(Len(written))

StreamLaid == StreamTyped /\ MessagesLaid /\ EndLaid

\* What a decoder of the bytes up to one of them, behind k messages, may have
\* come to: it has the messages that follow, and the bytes behind them.
States == [events : Seq(Traffic), buffer : Seq(Nat), failed : BOOLEAN]

Follows(s, k, upto) ==
    LET m == k + Len(s.events) IN
    /\ m <= Len(written)
    /\ \A i \in 1..Len(s.events) : s.events[i] = written[k + i]
    /\ Start(m) + Len(s.buffer) = upto
    /\ Behind(m, s.buffer)

Way(k, upto) == {s \in States : IF s.failed THEN damaged /\ s.events = <<>> ELSE Follows(s, k, upto)}

\* The first byte without which nothing more can be told, behind m messages.
NextEnd(m) ==
    IF m < Len(written) THEN Start(m + 1) ELSE IF damaged THEN Len(bytes) ELSE Len(bytes) + 1

\* One turn goes on along the stream, unless there is not enough of it.
TurnResult(s, k, upto) ==
    /\ F!Turn(s) \in Way(k, upto)
    /\ \/ F!Turn(s) = s /\ upto < NextEnd(k + Len(s.events))
       \/ F!Turn(s).failed
       \/ Len(F!Turn(s).events) = Len(s.events) + 1

LEMMA StartTyped ==
    ASSUME StreamTyped
    PROVE  \A n \in 0..Len(written) : Start(n) \in Nat
<1> SUFFICES ASSUME NEW n \in 0..Len(written) PROVE Start(n) \in Nat
  OBVIOUS
<1>1. CASE n = 0  BY <1>1 DEF Start
<1>2. CASE n # 0
  <2>1. Len(written) \in Nat  BY LenProperties DEF StreamTyped
  <2>2. n \in 1..Len(ends)  BY <1>2, <2>1 DEF StreamTyped
  <2> QED BY <1>2, <2>2, ElementOfSeq DEF Start, StreamTyped
<1> QED BY <1>1, <1>2

\* The turn that takes a message.
LEMMA TurnTakes ==
    ASSUME StreamLaid, NEW upto \in Nat, NEW k \in Nat, NEW s \in Way(k, upto), ~s.failed,
           NEW m \in Nat, m = k + Len(s.events), m < Len(written), Start(m + 1) <= upto
    PROVE  TurnResult(s, k, upto)
<1>1. PICK events \in Seq(Traffic), buffer \in Seq(Nat) :
        s = [events |-> events, buffer |-> buffer, failed |-> FALSE]
  BY DEF Way, States
<1>2. Follows(s, k, upto)  BY DEF Way
<1>3. PICK w \in Nat, e \in Nat, q \in Nat, next \in Nat :
        w = Len(written) /\ e = Len(events) /\ q = Len(buffer) /\ next = m + 1
  BY LenProperties DEF StreamLaid, StreamTyped
<1>4. next \in 1..w /\ m \in 0..w /\ next \in 0..w /\ next - 1 = m /\ m = k + e /\ next = k + (e + 1)
  BY <1>1, <1>3
<1>5. PICK from \in Nat, to \in Nat : from = Start(m) /\ to = Start(next)
  BY <1>3, <1>4, StartTyped DEF StreamLaid
<1>6. PICK ev \in Traffic : ev = written[next]
  BY <1>3, <1>4, ElementOfSeq DEF StreamLaid, StreamTyped
<1>7. PICK n \in Nat : n = Len(Enc(ev))
  BY EncodedIs, WireConstants, LenProperties
<1>8. to = from + n /\ Behind(m, Enc(ev))
  BY <1>3, <1>4, <1>5, <1>6, <1>7 DEF StreamLaid, MessagesLaid
<1>9. from + q = upto /\ Behind(m, buffer)
  BY <1>1, <1>2, <1>3, <1>4, <1>5 DEF Follows
<1>10. n <= q  BY <1>3, <1>5, <1>8, <1>9
<1>11. \A i \in 1..n : buffer[i] = Enc(ev)[i]
  <2>1. \A i \in 1..n : bytes[from + i] = Enc(ev)[i]  BY <1>5, <1>7, <1>8 DEF Behind
  <2>2. \A i \in 1..q : bytes[from + i] = buffer[i]  BY <1>3, <1>5, <1>9 DEF Behind
  <2>3. \A i \in 1..n : i \in 1..n /\ i \in 1..q  BY <1>10
  <2> QED BY <2>1, <2>2, <2>3
<1>12. PICK left \in Seq(Nat) : left = SubSeq(buffer, n + 1, q)
  <2>1. PICK a \in Nat : a = n + 1  OBVIOUS
  <2>2. a > 0 /\ q <= Len(buffer) /\ a <= q + 1  BY <1>3, <1>10, <2>1
  <2> QED BY <2>1, <2>2, Part
<1>13. Len(left) = q - n /\ \A i \in 1..(q - n) : left[i] = buffer[n + i]
  <2>1. PICK a \in Nat : a = n + 1  OBVIOUS
  <2>2. a > 0 /\ q <= Len(buffer) /\ a <= q + 1  BY <1>3, <1>10, <2>1
  <2>3. Len(left) = q - a + 1 /\ \A i \in 1..(q - a + 1) : left[i] = buffer[a + i - 1]
    BY <1>12, <2>1, <2>2, Part
  <2>4. q - a + 1 = q - n /\ \A i \in 1..(q - n) : a + i - 1 = n + i  BY <2>1
  <2> QED BY <2>3, <2>4
<1>14. /\ F!TakeOne(buffer).is = "event" /\ F!TakeOne(buffer).event = ev
       /\ F!TakeOne(buffer).rest = left
  <2>1. n = Len(Enc(ev)) /\ n <= Len(buffer)  BY <1>3, <1>7, <1>10
  <2>2. /\ F!TakeOne(buffer).is = "event" /\ F!TakeOne(buffer).event = ev
        /\ F!TakeOne(buffer).rest = SubSeq(buffer, n + 1, Len(buffer))
    <3>1. Heads(buffer, ev, n)  BY <1>11, <2>1 DEF Heads
    <3> QED BY <3>1, TakesWhole DEF Takes
  <2> QED BY <1>3, <1>12, <2>2
<1>15. PICK more \in Seq(Traffic) : more = Append(events, ev)  BY AppendProperties
<1>16. F!Turn(s) = [events |-> more, buffer |-> left, failed |-> FALSE]
  BY <1>1, <1>14, <1>15 DEF F!Turn
<1>17. Len(more) = e + 1 /\ (\A i \in 1..e : more[i] = events[i]) /\ more[e + 1] = ev
  BY <1>3, <1>15, AppendProperties
<1>18. Follows(F!Turn(s), k, upto)
  <2>1. next <= Len(written)  BY <1>3, <1>4
  <2>2. \A i \in 1..(e + 1) : more[i] = written[k + i]
    <3>1. \A i \in 1..e : more[i] = written[k + i]
      BY <1>1, <1>2, <1>3, <1>17 DEF Follows
    <3>2. more[e + 1] = written[k + (e + 1)]  BY <1>4, <1>6, <1>17
    <3>3. \A i \in 1..(e + 1) : i \in 1..e \/ i = e + 1  OBVIOUS
    <3> QED BY <3>1, <3>2, <3>3
  <2>3. to + Len(left) = upto  BY <1>8, <1>9, <1>13
  <2>4. Behind(next, left)
    <3> SUFFICES ASSUME NEW i \in 1..(q - n) PROVE bytes[to + i] = left[i]
      BY <1>5, <1>13 DEF Behind
    <3>1. n + i \in 1..q /\ from + (n + i) = to + i  BY <1>8, <1>10
    <3>2. bytes[from + (n + i)] = buffer[n + i]  BY <1>3, <1>5, <1>9, <3>1 DEF Behind
    <3> QED BY <1>13, <3>1, <3>2
  <2>5. k + Len(more) = next /\ Len(more) = e + 1  BY <1>4, <1>17
  <2>6. F!Turn(s).events = more /\ F!Turn(s).buffer = left  BY <1>16
  <2>7. Start(next) + Len(left) = upto  BY <1>5, <2>3
  <2> QED BY <2>1, <2>2, <2>4, <2>5, <2>6, <2>7 DEF Follows
<1>19. F!Turn(s) \in States /\ ~F!Turn(s).failed  BY <1>16 DEF States
<1>20. Len(F!Turn(s).events) = Len(s.events) + 1  BY <1>1, <1>3, <1>16, <1>17
<1> QED BY <1>18, <1>19, <1>20 DEF TurnResult, Way

\* The turn that finds not enough.
LEMMA TurnWaits ==
    ASSUME StreamLaid, NEW upto \in Nat, NEW k \in Nat, NEW s \in Way(k, upto), ~s.failed,
           NEW m \in Nat, m = k + Len(s.events), m < Len(written), ~(Start(m + 1) <= upto)
    PROVE  TurnResult(s, k, upto)
<1>1. PICK events \in Seq(Traffic), buffer \in Seq(Nat) :
        s = [events |-> events, buffer |-> buffer, failed |-> FALSE]
  BY DEF Way, States
<1>2. Follows(s, k, upto)  BY DEF Way
<1>3. PICK w \in Nat, q \in Nat, next \in Nat :
        w = Len(written) /\ q = Len(buffer) /\ next = m + 1
  BY LenProperties DEF StreamLaid, StreamTyped
<1>4. next \in 1..w /\ m \in 0..w /\ next \in 0..w /\ next - 1 = m
  BY <1>1, <1>3
<1>5. PICK from \in Nat, to \in Nat : from = Start(m) /\ to = Start(next)
  BY <1>3, <1>4, StartTyped DEF StreamLaid
<1>6. PICK ev \in Traffic : ev = written[next]
  BY <1>3, <1>4, ElementOfSeq DEF StreamLaid, StreamTyped
<1>7. PICK n \in Nat : n = Len(Enc(ev))
  BY EncodedIs, WireConstants, LenProperties
<1>8. to = from + n /\ Behind(m, Enc(ev))
  BY <1>3, <1>4, <1>5, <1>6, <1>7 DEF StreamLaid, MessagesLaid
<1>9. from + q = upto /\ Behind(m, buffer)
  BY <1>1, <1>2, <1>3, <1>5 DEF Follows
<1>10. q < n  BY <1>3, <1>5, <1>8, <1>9
<1>11. \A i \in 1..q : buffer[i] = Enc(ev)[i]
  <2>1. \A i \in 1..n : bytes[from + i] = Enc(ev)[i]  BY <1>5, <1>7, <1>8 DEF Behind
  <2>2. \A i \in 1..q : bytes[from + i] = buffer[i]  BY <1>3, <1>5, <1>9 DEF Behind
  <2>3. \A i \in 1..q : i \in 1..n /\ i \in 1..q  BY <1>10
  <2> QED BY <2>1, <2>2, <2>3
<1>12. F!TakeOne(buffer).is = "partial"
  BY <1>3, <1>7, <1>10, <1>11, TakesNothing
<1>13. F!Turn(s) = s  BY <1>1, <1>12 DEF F!Turn
<1>14. upto < NextEnd(m)  BY <1>3, <1>5 DEF NextEnd
<1> QED BY <1>13, <1>14 DEF TurnResult

\* The turn behind all messages.
LEMMA TurnEnds ==
    ASSUME StreamLaid, NEW upto \in 0..Len(bytes), NEW k \in Nat, NEW s \in Way(k, upto), ~s.failed,
           NEW m \in Nat, m = k + Len(s.events), m = Len(written)
    PROVE  TurnResult(s, k, upto)
<1>1. PICK events \in Seq(Traffic), buffer \in Seq(Nat) :
        s = [events |-> events, buffer |-> buffer, failed |-> FALSE]
  BY DEF Way, States
<1>2. Follows(s, k, upto)  BY DEF Way
<1>3. PICK q \in Nat, all \in Nat : q = Len(buffer) /\ all = Len(bytes)
  BY LenProperties DEF StreamLaid, StreamTyped
<1>4. PICK from \in Nat : from = Start(m)
  BY StartTyped DEF StreamLaid
<1>5. from + q = upto /\ Behind(m, buffer)
  BY <1>1, <1>2, <1>3, <1>4 DEF Follows
<1>6. CASE ~damaged
  <2>1. all = from  BY <1>3, <1>4, <1>6 DEF StreamLaid, EndLaid
  <2>2. q = 0 /\ upto < all + 1  BY <1>3, <1>5, <2>1
  <2>3. F!TakeOne(buffer).is = "partial"  BY <1>3, <2>2 DEF F!TakeOne, F!Partial
  <2>4. F!Turn(s) = s  BY <1>1, <2>3 DEF F!Turn
  <2>5. upto < NextEnd(m)  BY <1>3, <1>6, <2>2 DEF NextEnd
  <2> QED BY <2>4, <2>5 DEF TurnResult
<1>7. CASE damaged
  <2>1. PICK d \in Damages : Len(bytes) = Start(m) + Len(d) /\ Behind(m, d)
    BY <1>7 DEF StreamLaid, EndLaid
  <2>2. PICK n \in Nat : n = Len(d)  BY WireConstants, LenProperties
  <2>3. q <= n /\ all = from + n  BY <1>3, <1>4, <1>5, <2>1, <2>2
  <2>4. \A i \in 1..q : buffer[i] = d[i]
    <3>1. \A i \in 1..q : bytes[from + i] = buffer[i]  BY <1>3, <1>4, <1>5 DEF Behind
    <3>2. \A i \in 1..n : bytes[from + i] = d[i]  BY <1>4, <2>1, <2>2 DEF Behind
    <3>3. \A i \in 1..q : i \in 1..n  BY <2>3
    <3> QED BY <3>1, <3>2, <3>3
  <2>5. /\ F!TakeOne(buffer).is \in {"partial", "malformed"}
        /\ q = n => F!TakeOne(buffer).is = "malformed"
    BY <1>3, <2>2, <2>3, <2>4, TakesNoDamage
  <2>6. CASE F!TakeOne(buffer).is = "partial"
    <3>1. F!Turn(s) = s  BY <1>1, <2>6 DEF F!Turn
    <3>2. q # n  BY <2>5, <2>6
    <3>3. upto < all  BY <1>5, <2>3, <3>2
    <3>4. upto < NextEnd(m)  BY <1>3, <1>7, <3>3 DEF NextEnd
    <3> QED BY <3>1, <3>4 DEF TurnResult
  <2>7. CASE F!TakeOne(buffer).is = "malformed"
    <3>1. PICK left \in Seq(Nat) : left = F!TakeOne(buffer).rest  BY RestTyped
    <3>2. F!Turn(s) = [events |-> <<>>, buffer |-> left, failed |-> TRUE]
      BY <1>1, <2>7, <3>1 DEF F!Turn
    <3> QED BY <1>7, <3>2, EmptySeq DEF TurnResult, Way, States
  <2> QED BY <2>5, <2>6, <2>7
<1> QED BY <1>6, <1>7

\* A turn goes on, ends or finds not enough.
LEMMA TurnKeeps ==
    ASSUME StreamLaid, NEW upto \in 0..Len(bytes), NEW k \in Nat, NEW s \in Way(k, upto)
    PROVE  TurnResult(s, k, upto)
<1>1. CASE s.failed  BY <1>1 DEF F!Turn, TurnResult
<1>2. CASE ~s.failed
  <2>1. s.events \in Seq(Traffic) /\ Follows(s, k, upto)  BY <1>2 DEF Way, States
  <2>2. PICK m \in Nat, w \in Nat : m = k + Len(s.events) /\ w = Len(written)
    BY <2>1, LenProperties DEF StreamLaid, StreamTyped
  <2>3. m <= w  BY <2>1, <2>2 DEF Follows
  <2>4. upto \in Nat  BY LenProperties DEF StreamLaid, StreamTyped
  <2>5. CASE m = w  BY <1>2, <2>2, <2>5, TurnEnds
  <2>6. CASE m < w /\ Start(m + 1) <= upto  BY <1>2, <2>2, <2>4, <2>6, TurnTakes
  <2>7. CASE m < w /\ ~(Start(m + 1) <= upto)  BY <1>2, <2>2, <2>4, <2>7, TurnWaits
  <2> QED BY <2>2, <2>3, <2>5, <2>6, <2>7
<1> QED BY <1>1, <1>2 DEF Way, States

Fresh(buffer) == [events |-> <<>>, buffer |-> buffer, failed |-> FALSE]

\* decode_messages starts with nothing and takes turns.
Taking(f, buffer, N) ==
    /\ f[0] = Fresh(buffer) /\ F!Decoded(buffer) = f[N]
    /\ \A i \in 1..N : f[i] = F!Turn(f[i - 1])

LEMMA DecodedRuns ==
    ASSUME StreamLaid, NEW upto \in 0..Len(bytes), NEW k \in Nat, NEW buffer \in Seq(Nat),
           NEW N \in Nat, N = Len(buffer), Fresh(buffer) \in Way(k, upto)
    PROVE  \E f : Taking(f, buffer, N)
<1> DEFINE V == Way(k, upto)
           step == [i \in 1..N |-> [s \in V |-> F!Turn(s)]]
           Runs1(f) == [n \in 0..Len(buffer) |->
                           IF n = 0 THEN [events |-> <<>>, buffer |-> buffer, failed |-> FALSE]
                           ELSE F!Turn(f[n - 1])]
           g == CHOOSE g : g = Runs1(g)
<1>1. \A s \in V : F!Turn(s) \in V  BY TurnKeeps DEF TurnResult
<1>2. step \in [1..N -> [V -> V]]  BY <1>1
<1>3. \A i \in 1..N, s \in V : step[i][s] = F!Turn(s)  OBVIOUS
<1>4. F!Decoded(buffer) = g[Len(buffer)]  BY Zenon DEF F!Decoded
<1>5. \A f : Runs1(f) = [n \in 0..N |-> IF n = 0 THEN Fresh(buffer) ELSE F!Turn(f[n - 1])]
  BY DEF Fresh
<1>6. Fresh(buffer) \in V  OBVIOUS
<1> HIDE DEF g, V, step, Runs1
<1>7. PICK f \in [0..N -> V] : f[0] = Fresh(buffer) /\ \A i \in 1..N : f[i] = step[i][f[i - 1]]
  <2>1. PICK e \in V : e = Fresh(buffer)  BY <1>6
  <2>2. Runs(N, V, e, step) # {}  BY <1>2, <2>1, RecursionExists DEF Steps
  <2>3. PICK f \in Runs(N, V, e, step) : TRUE  BY <2>2
  <2> QED BY <2>1, <2>3 DEF Runs
<1>8. f = Runs1(f)
  <2>1. \A i \in 1..N : i - 1 \in 0..N  OBVIOUS
  <2>2. \A i \in 1..N : f[i] = F!Turn(f[i - 1])  BY <1>3, <1>7, <2>1
  <2>3. \A i \in 0..N : i = 0 \/ i \in 1..N  OBVIOUS
  <2>4. \A i \in 0..N : f[i] = IF i = 0 THEN Fresh(buffer) ELSE F!Turn(f[i - 1])
    BY <1>7, <2>2, <2>3
  <2> QED BY <2>4, <1>7, <1>5
<1>9. g = Runs1(g)  BY <1>8 DEF g
<1>10. \A i \in 0..N : g[i] = IF i = 0 THEN Fresh(buffer) ELSE F!Turn(g[i - 1])
  BY <1>9, <1>5
<1>11. (\A i \in 1..N : i \in 0..N /\ i # 0) /\ 0 \in 0..N  OBVIOUS
<1>12. Taking(g, buffer, N)  BY <1>4, <1>10, <1>11 DEF Taking
<1> QED BY <1>12

\* Behind m messages there is no more to be told if there is not a byte.
LEMMA NextEndIsBeyond ==
    ASSUME StreamLaid, NEW m \in 0..Len(written)
    PROVE  Start(m) < NextEnd(m)
<1>1. PICK w \in Nat, from \in Nat, all \in Nat :
        w = Len(written) /\ from = Start(m) /\ all = Len(bytes)
  BY StartTyped, LenProperties DEF StreamLaid, StreamTyped
<1>2. CASE m < w
  <2>1. PICK next \in Nat : next = m + 1  BY <1>1
  <2>2. next \in 0..w /\ m \in 0..w /\ m <= next /\ next - m = 1  BY <1>1, <1>2, <2>1
  <2>3. from + 1 <= Start(next) /\ Start(next) \in Nat
    BY <1>1, <2>2, StartTyped DEF StreamLaid, MessagesLaid
  <2> QED BY <1>1, <1>2, <2>1, <2>3 DEF NextEnd
<1>3. CASE m = w /\ ~damaged
  BY <1>1, <1>3 DEF NextEnd, StreamLaid, EndLaid
<1>4. CASE m = w /\ damaged
  <2>1. PICK d \in Damages : Len(bytes) = Start(m) + Len(d)
    BY <1>1, <1>4 DEF StreamLaid, EndLaid
  <2>2. PICK n \in Nat : n = Len(d)  BY WireConstants, LenProperties
  <2>3. n # 0
    <3>1. SUFFICES ASSUME n = 0 PROVE FALSE
      OBVIOUS
    <3>2. F!TakeOne(d).is = "partial"  BY <2>2, <3>1 DEF F!TakeOne, F!Partial
    <3> QED BY <3>2, WireConstants
  <2> QED BY <1>1, <1>4, <2>1, <2>2, <2>3 DEF NextEnd
<1> QED BY <1>1, <1>2, <1>3, <1>4

\* What decode_messages makes of the bytes up to one of them.
DecodedResult(t, k, upto) ==
    /\ t \in Way(k, upto)
    /\ ~t.failed => upto < NextEnd(k + Len(t.events))

LEMMA DecodedRight ==
    ASSUME StreamLaid, NEW upto \in 0..Len(bytes), NEW k \in Nat, NEW buffer \in Seq(Nat),
           Fresh(buffer) \in Way(k, upto)
    PROVE  DecodedResult(F!Decoded(buffer), k, upto)
<1>1. PICK N \in Nat, w \in Nat, all \in Nat : N = Len(buffer) /\ w = Len(written) /\ all = Len(bytes)
  BY LenProperties DEF StreamLaid, StreamTyped
<1>2. PICK f : /\ f[0] = Fresh(buffer) /\ F!Decoded(buffer) = f[N]
               /\ \A i \in 1..N : f[i] = F!Turn(f[i - 1])
  <2>1. PICK f : Taking(f, buffer, N)  BY <1>1, DecodedRuns
  <2> QED BY <2>1 DEF Taking
<1> DEFINE Goes(i) == /\ f[i] \in Way(k, upto)
                      /\ \/ f[i].failed
                         \/ upto < NextEnd(k + Len(f[i].events))
                         \/ Len(f[i].events) = i
           T == {i \in Nat : i <= N => Goes(i)}
<1>3. 0 \in T
  <2>1. Len(f[0].events) = 0  BY <1>2, EmptySeq DEF Fresh
  <2> QED BY <1>2, <2>1
<1>4. ASSUME NEW i \in Nat, i \in T PROVE i + 1 \in T
  <2>1. PICK j \in Nat : j = i + 1  OBVIOUS
  <2>2. SUFFICES ASSUME j <= N PROVE Goes(j)
    BY <2>1
  <2>3. i <= N /\ j \in 1..N /\ j - 1 = i  BY <2>1, <2>2
  <2>4. Goes(i)  BY <1>4, <2>3
  <2>5. PICK s \in Way(k, upto) : s = f[i]  BY <2>4
  <2>6. f[j] = F!Turn(s)  BY <1>2, <2>3, <2>5
  <2>7. TurnResult(s, k, upto)  BY TurnKeeps
  <2>8. F!Turn(s) \in Way(k, upto)  BY <2>7 DEF TurnResult
  <2>9. CASE F!Turn(s) = s /\ upto < NextEnd(k + Len(s.events))
    BY <2>6, <2>8, <2>9
  <2>10. CASE F!Turn(s).failed  BY <2>6, <2>8, <2>10
  <2>11. CASE Len(F!Turn(s).events) = Len(s.events) + 1
    <3>1. CASE s.failed  BY <2>6, <2>8, <3>1 DEF F!Turn
    <3>2. CASE upto < NextEnd(k + Len(s.events)) /\ ~s.failed
      <4>1. Follows(s, k, upto) /\ Len(s.events) \in Nat
        BY <3>2, LenProperties DEF Way, States
      <4>2. PICK m \in Nat, next \in Nat : m = k + Len(s.events) /\ next = m + 1  BY <4>1
      <4>3. CASE F!Turn(s).failed  BY <2>6, <2>8, <4>3
      <4>4. CASE ~F!Turn(s).failed
        <5>1. PICK t \in Way(k, upto) : t = F!Turn(s)  BY <2>8
        <5>2. Follows(t, k, upto) /\ k + Len(t.events) = next /\ t.buffer \in Seq(Nat)
          <6>1. Len(t.events) = Len(s.events) + 1  BY <2>11, <5>1
          <6>2. k + Len(t.events) = next  BY <4>1, <4>2, <6>1
          <6> QED BY <4>4, <5>1, <6>2 DEF Way, States
        <5>3. next <= w /\ Start(next) + Len(t.buffer) = upto  BY <1>1, <5>2 DEF Follows
        <5>4. Start(next) \in Nat /\ Len(t.buffer) \in Nat
          BY <1>1, <5>2, <5>3, StartTyped, LenProperties DEF StreamLaid
        <5>5. NextEnd(m) = Start(next)  BY <1>1, <4>2, <5>3 DEF NextEnd
        <5>6. upto \in Nat /\ upto < Start(next)  BY <1>1, <3>2, <4>2, <5>5
        <5>7. FALSE  BY <5>3, <5>4, <5>6
        <5> QED BY <5>7
      <4> QED BY <4>3, <4>4
    <3>3. CASE Len(s.events) = i  BY <2>1, <2>6, <2>8, <2>11, <3>3
    <3> QED BY <2>4, <2>5, <3>1, <3>2, <3>3
  <2> QED BY <2>7, <2>9, <2>10, <2>11 DEF TurnResult
<1>5. N \in T
  <2> HIDE DEF T
  <2>1. \A i \in Nat : i \in T => i + 1 \in T  BY <1>4
  <2> QED BY <1>3, <2>1, SetInduction
<1>6. Goes(N)  BY <1>5
<1>7. PICK t \in Way(k, upto) : t = f[N]  BY <1>6
<1>8. CASE t.failed \/ upto < NextEnd(k + Len(t.events))
  BY <1>2, <1>7, <1>8 DEF DecodedResult
<1>9. CASE Len(t.events) = N /\ ~t.failed
  <2>1. Follows(t, k, upto) /\ t.buffer \in Seq(Nat)  BY <1>9 DEF Way, States
  <2>2. PICK m \in Nat, q \in Nat : m = k + N /\ q = Len(t.buffer)
    <3>1. Len(t.buffer) \in Nat  BY <2>1, LenProperties
    <3>2. k + N \in Nat  OBVIOUS
    <3> QED BY <3>1, <3>2, Zenon
  <2>3. m <= w /\ Start(m) + q = upto  BY <1>1, <1>9, <2>1, <2>2 DEF Follows
  <2>4. k \in 0..w /\ m \in 0..w /\ k <= m /\ m - k = N  BY <2>2, <2>3
  <2>5. PICK from \in Nat, to \in Nat : from = Start(k) /\ to = Start(m)
    BY <1>1, <2>4, StartTyped DEF StreamLaid
  <2>6. from + N <= to  BY <1>1, <2>4, <2>5 DEF StreamLaid, MessagesLaid
  <2>7. from + N = upto
    <3>1. Follows(Fresh(buffer), k, upto)  BY DEF Way, Fresh
    <3>2. k + Len(Fresh(buffer).events) = k /\ Fresh(buffer).buffer = buffer  BY EmptySeq DEF Fresh
    <3> QED BY <1>1, <2>5, <3>1, <3>2 DEF Follows
  <2>8. upto = to  BY <2>3, <2>5, <2>6, <2>7
  <2>9. upto < NextEnd(m)  BY <1>1, <2>4, <2>5, <2>8, NextEndIsBeyond
  <2> QED BY <1>2, <1>7, <1>9, <2>2, <2>9 DEF DecodedResult
<1> QED BY <1>6, <1>7, <1>8, <1>9

\* What a reader has, of what has arrived: the messages in front, and, unless
\* decoding failed, what is behind them, in which there is no message.
ReaderAt(r, upto) ==
    /\ r \in States
    /\ Len(r.events) <= Len(written) /\ \A i \in 1..Len(r.events) : r.events[i] = written[i]
    /\ r.failed => damaged
    /\ ~r.failed => Follows(r, 0, upto) /\ upto < NextEnd(Len(r.events))

WireInv ==
    /\ StreamLaid
    /\ arrived \in 0..Len(bytes)
    /\ ReaderAt(reader, arrived)

LEMMA WireStarts == WireInit => WireInv
<1> SUFFICES ASSUME WireInit PROVE WireInv
  OBVIOUS
<1>1. /\ written = <<>> /\ ends = <<>> /\ bytes = <<>> /\ damaged = FALSE
      /\ arrived = 0 /\ reader = Fresh(<<>>)
  BY DEF WireInit, Fresh
<1>2. /\ written \in Seq(Traffic) /\ ends \in Seq(Nat) /\ bytes \in Seq(Nat)
      /\ Len(written) = 0 /\ Len(ends) = 0 /\ Len(bytes) = 0
  BY <1>1, EmptySeq
<1>3. Start(0) = 0  BY DEF Start
<1>4. StreamTyped
  <2>1. \A n \in 0..Len(written) : Start(n) <= Len(bytes)
    <3>1. \A n \in 0..Len(written) : n = 0  BY <1>2
    <3> QED BY <1>2, <1>3, <3>1
  <2> QED BY <1>1, <1>2, <2>1 DEF StreamTyped
<1>5. MessagesLaid  BY <1>2, <1>3 DEF MessagesLaid
<1>6. EndLaid  BY <1>1, <1>2, <1>3 DEF EndLaid
<1>7. reader \in States  BY <1>1, EmptySeq DEF States, Fresh
<1>8. Len(reader.events) = 0 /\ Len(reader.buffer) = 0 /\ ~reader.failed
  BY <1>1, EmptySeq DEF Fresh
<1>9. Follows(reader, 0, arrived)
  BY <1>1, <1>2, <1>3, <1>8 DEF Follows, Behind
<1>10. arrived < NextEnd(Len(reader.events))  BY <1>1, <1>2, <1>8 DEF NextEnd
<1> QED BY <1>1, <1>2, <1>4, <1>5, <1>6, <1>7, <1>8, <1>9, <1>10 DEF WireInv, StreamLaid, ReaderAt

\* What a message is at least.
LEMMA NotNothing ==
    ASSUME NEW ev \in Traffic
    PROVE  Enc(ev) \in Seq(Nat) /\ Len(Enc(ev)) \in Nat /\ Len(Enc(ev)) > 0
<1>1. WellFormed(ev)  BY WireConstants
<1>2. Len(Body(ev)) \in Nat  BY <1>1, EncodedIs, LenProperties
<1> QED BY <1>1, <1>2, EncodedIs

LEMMA WritesKeeps ==
    ASSUME WireInv, NEW ev \in Traffic, Writes(ev)
    PROVE  WireInv'
<1>1. PICK w \in Nat, all \in Nat, n \in Nat :
        w = Len(written) /\ all = Len(bytes) /\ n = Len(Enc(ev)) /\ n > 0
  BY NotNothing, LenProperties DEF WireInv, StreamLaid, StreamTyped
<1>2. /\ ~damaged /\ damaged' = damaged /\ arrived' = arrived /\ reader' = reader
      /\ written' = Append(written, ev) /\ bytes' = bytes \o Enc(ev) /\ ends' = Append(ends, Len(bytes'))
  BY DEF Writes, Enc
<1>3. PICK W \in Seq(Traffic), B \in Seq(Nat) : W = written' /\ B = bytes'
  <2>1. written' \in Seq(Traffic)  BY <1>2, AppendProperties DEF WireInv, StreamLaid, StreamTyped
  <2>2. bytes' \in Seq(Nat)
    BY <1>2, NotNothing, ConcatProperties DEF WireInv, StreamLaid, StreamTyped
  <2> QED BY <2>1, <2>2
<1>4. Len(W) = w + 1 /\ (\A i \in 1..w : W[i] = written[i]) /\ W[w + 1] = ev
  BY <1>1, <1>2, <1>3, AppendProperties DEF WireInv, StreamLaid, StreamTyped
<1>5. Len(B) = all + n /\ (\A i \in 1..all : B[i] = bytes[i]) /\ \A i \in 1..n : B[all + i] = Enc(ev)[i]
  <2>1. PICK a \in Seq(Nat), b \in Seq(Nat) : a = bytes /\ b = Enc(ev)
    BY NotNothing DEF WireInv, StreamLaid, StreamTyped
  <2>2. B = a \o b /\ all = Len(a) /\ n = Len(b)  BY <1>1, <1>2, <1>3, <2>1
  <2>3. BothIn(B, a, all, b, n)  BY <2>2, Joined
  <2> QED BY <2>1, <2>3 DEF BothIn
<1>6. PICK E \in Seq(Nat) : E = ends'
  <2>1. all + n \in Nat /\ ends' = Append(ends, all + n)  BY <1>2, <1>3, <1>5
  <2> QED BY <2>1, AppendProperties DEF WireInv, StreamLaid, StreamTyped
<1>7. Len(E) = w + 1 /\ (\A i \in 1..w : E[i] = ends[i]) /\ E[w + 1] = all + n
  <2>1. all + n \in Nat /\ E = Append(ends, all + n)  BY <1>2, <1>3, <1>5, <1>6
  <2>2. Len(ends) = w /\ ends \in Seq(Nat)  BY <1>1 DEF WireInv, StreamLaid, StreamTyped
  <2> QED BY <2>1, <2>2, AppendProperties
<1>8. \A i \in 0..w : Start(i)' = Start(i) /\ Start(i) \in Nat /\ Start(i) <= all
  <2> SUFFICES ASSUME NEW i \in 0..w PROVE Start(i)' = Start(i) /\ Start(i) \in Nat /\ Start(i) <= all
    OBVIOUS
  <2>1. Start(i) \in Nat /\ Start(i) <= all
    BY <1>1, StartTyped DEF WireInv, StreamLaid, StreamTyped
  <2>2. i = 0 \/ i \in 1..w  OBVIOUS
  <2> QED BY <1>6, <1>7, <2>1, <2>2 DEF Start
<1>9. PICK last \in Nat : last = w + 1  OBVIOUS
<1>10. Start(last)' = all + n  BY <1>6, <1>7, <1>9 DEF Start
<1>11. Start(w) = all  BY <1>1, <1>2 DEF WireInv, StreamLaid, EndLaid
<1>12. \A i \in 0..last : i \in 0..w \/ i = last  BY <1>9
<1>13. StreamTyped'
  <2>1. ASSUME NEW i \in 0..last PROVE Start(i)' <= all + n
    <3>1. CASE i \in 0..w
      <4>1. Start(i)' = Start(i) /\ Start(i) \in Nat /\ Start(i) <= all  BY <1>8, <3>1
      <4> QED BY <4>1
    <3>2. CASE i = last  BY <1>10, <3>2
    <3> QED BY <1>12, <3>1, <3>2
  <2>2. damaged' \in BOOLEAN  BY <1>2 DEF WireInv, StreamLaid, StreamTyped
  <2> QED BY <1>3, <1>4, <1>5, <1>6, <1>7, <1>9, <2>1, <2>2 DEF StreamTyped
<1>14. MessagesLaid'
  <2>1. ASSUME NEW i \in 0..last, NEW j \in 0..last, i <= j
        PROVE  Start(i)' + (j - i) <= Start(j)'
    <3>1. CASE j \in 0..w
      <4>1. i \in 0..w  BY <2>1, <3>1
      <4>2. Start(i) + (j - i) <= Start(j)  BY <1>1, <2>1, <3>1, <4>1 DEF WireInv, StreamLaid, MessagesLaid
      <4> QED BY <1>8, <3>1, <4>1, <4>2
    <3>2. CASE i \in 0..w /\ j = last
      <4>1. w \in 0..w /\ i <= w  BY <3>2
      <4>2. Start(i) + (w - i) <= Start(w)  BY <1>1, <3>2, <4>1 DEF WireInv, StreamLaid, MessagesLaid
      <4>3. Start(i) \in Nat /\ Start(i)' = Start(i)  BY <1>8, <3>2
      <4>4. j - i = (w - i) + 1  BY <1>9, <3>2
      <4> QED BY <1>1, <1>10, <1>11, <3>2, <4>2, <4>3, <4>4
    <3>3. CASE i = last /\ j = last  BY <1>10, <3>3
    <3> QED BY <1>9, <1>12, <2>1, <3>1, <3>2, <3>3
  <2>2. ASSUME NEW i \in 1..last
        PROVE  Start(i)' = Start(i - 1)' + Len(Enc(W[i])) /\ Behind(i - 1, Enc(W[i]))'
    <3>1. CASE i \in 1..w
      <4>1. PICK k \in 0..w, e \in Traffic : k = i - 1 /\ e = written[i]
        BY <1>1, <3>1, ElementOfSeq DEF WireInv, StreamLaid, StreamTyped
      <4>2. PICK c \in Nat : c = Len(Enc(e))  BY NotNothing
      <4>3. Start(i) = Start(k) + c /\ Behind(k, Enc(e))
        BY <1>1, <3>1, <4>1, <4>2 DEF WireInv, StreamLaid, MessagesLaid
      <4>4. i \in 0..w  BY <3>1
      <4>5. Start(i) <= all /\ Start(k) \in Nat /\ Start(k)' = Start(k) /\ Start(i)' = Start(i)
        BY <1>8, <4>1, <4>4
      <4>6. W[i] = e  BY <1>4, <3>1, <4>1
      <4>7. Behind(k, Enc(e))'
        <5> SUFFICES ASSUME NEW x \in 1..c PROVE B[Start(k) + x] = Enc(e)[x]
          BY <1>3, <4>2, <4>5 DEF Behind
        <5>1. Start(k) + x \in 1..all  BY <4>3, <4>5
        <5> QED BY <1>5, <4>2, <4>3, <5>1 DEF Behind
      <4> QED BY <4>1, <4>2, <4>3, <4>5, <4>6, <4>7
    <3>2. CASE i = last
      <4>1. i - 1 = w /\ W[i] = ev /\ w \in 0..w  BY <1>4, <1>9, <3>2
      <4>2. Start(w)' = all  BY <1>8, <1>11, <4>1
      <4>3. Behind(w, Enc(ev))'  BY <1>1, <1>3, <1>5, <4>2 DEF Behind
      <4> QED BY <1>1, <1>10, <3>2, <4>1, <4>2, <4>3
    <3> QED BY <1>9, <3>1, <3>2
  <2> QED BY <1>3, <1>4, <1>9, <2>1, <2>2 DEF MessagesLaid
<1>15. EndLaid'
  BY <1>2, <1>3, <1>4, <1>5, <1>9, <1>10 DEF EndLaid
<1>16. ReaderAt(reader, arrived)'
  <2>1. ReaderAt(reader, arrived) /\ ~reader.failed  BY <1>2 DEF WireInv, ReaderAt
  <2>2. reader \in States /\ Follows(reader, 0, arrived) /\ arrived < NextEnd(Len(reader.events))
    BY <2>1 DEF ReaderAt
  <2>3. PICK m \in Nat, q \in Nat : m = Len(reader.events) /\ q = Len(reader.buffer) /\ 0 + m = m
    BY <2>2, LenProperties DEF States
  <2>4. /\ m <= w /\ (\A i \in 1..m : reader.events[i] = written[i])
        /\ Start(m) + q = arrived /\ Behind(m, reader.buffer)
    BY <1>1, <2>1, <2>2, <2>3 DEF Follows, ReaderAt
  <2>5. m \in 0..w /\ arrived <= all /\ arrived \in Nat  BY <1>1, <2>3, <2>4 DEF WireInv
  <2>6. Start(m) \in Nat /\ Start(m)' = Start(m)  BY <1>8, <2>5
  <2>7. m <= last /\ \A i \in 1..m : reader.events[i] = W[i]
    <3>1. \A i \in 1..m : i \in 1..w  BY <2>5
    <3> QED BY <1>4, <1>9, <2>4, <2>5, <3>1
  <2>8. Behind(m, reader.buffer)'
    <3> SUFFICES ASSUME NEW x \in 1..q PROVE B[Start(m) + x] = reader.buffer[x]
      BY <1>2, <1>3, <2>3, <2>6 DEF Behind
    <3>1. Start(m) + x \in 1..all  BY <2>4, <2>5, <2>6
    <3> QED BY <1>5, <2>3, <2>4, <3>1 DEF Behind
  <2>9. arrived < NextEnd(m)'
    <3>1. PICK next \in Nat : next = m + 1  OBVIOUS
    <3>2. NextEnd(m)' = Start(next)'
      <4>1. m < Len(written')  BY <1>3, <1>4, <2>5
      <4> QED BY <3>1, <4>1 DEF NextEnd
    <3>3. CASE m < w
      <4>1. next \in 0..w /\ NextEnd(m) = Start(next)  BY <1>1, <3>1, <3>3 DEF NextEnd
      <4> QED BY <1>8, <2>2, <2>3, <3>2, <4>1
    <3>4. CASE m = w
      <4>1. next = last  BY <1>9, <3>1, <3>4
      <4> QED BY <1>1, <1>10, <2>5, <3>2, <4>1
    <3> QED BY <2>5, <3>3, <3>4
  <2>10. Follows(reader, 0, arrived)'
    BY <1>2, <1>3, <1>4, <1>9, <2>3, <2>4, <2>6, <2>7, <2>8 DEF Follows
  <2> QED BY <1>2, <1>3, <1>4, <1>9, <2>1, <2>2, <2>3, <2>7, <2>9, <2>10 DEF ReaderAt
<1>17. (arrived \in 0..Len(bytes))'
  BY <1>1, <1>2, <1>3, <1>5 DEF WireInv
<1> QED BY <1>13, <1>14, <1>15, <1>16, <1>17 DEF WireInv, StreamLaid

LEMMA GarblesKeeps ==
    ASSUME WireInv, NEW d \in Damages, Garbles(d)
    PROVE  WireInv'
<1>1. PICK w \in Nat, all \in Nat, n \in Nat :
        w = Len(written) /\ all = Len(bytes) /\ n = Len(d)
  BY WireConstants, LenProperties DEF WireInv, StreamLaid, StreamTyped
<1>2. n > 0
  <2>1. SUFFICES ASSUME n = 0 PROVE FALSE
    BY <1>1
  <2>2. F!TakeOne(d).is = "partial"  BY <1>1, <2>1 DEF F!TakeOne, F!Partial
  <2> QED BY <2>2, WireConstants
<1>3. /\ ~damaged /\ damaged' = TRUE /\ arrived' = arrived /\ reader' = reader
      /\ written' = written /\ bytes' = bytes \o d /\ ends' = ends
  BY DEF Garbles
<1>4. PICK B \in Seq(Nat) : B = bytes'
  BY <1>3, WireConstants, ConcatProperties DEF WireInv, StreamLaid, StreamTyped
<1>5. Len(B) = all + n /\ (\A i \in 1..all : B[i] = bytes[i]) /\ \A i \in 1..n : B[all + i] = d[i]
  <2>1. PICK a \in Seq(Nat), b \in Seq(Nat) : a = bytes /\ b = d
    BY WireConstants DEF WireInv, StreamLaid, StreamTyped
  <2>2. B = a \o b /\ all = Len(a) /\ n = Len(b)  BY <1>1, <1>3, <1>4, <2>1
  <2>3. BothIn(B, a, all, b, n)  BY <2>2, Joined
  <2> QED BY <2>1, <2>3 DEF BothIn
<1>6. \A i \in 0..w : Start(i)' = Start(i) /\ Start(i) \in Nat /\ Start(i) <= all
  <2>1. \A i \in 0..w : Start(i) \in Nat /\ Start(i) <= all
    BY <1>1, StartTyped DEF WireInv, StreamLaid, StreamTyped
  <2> QED BY <1>3, <2>1 DEF Start
<1>7. Start(w) = all  BY <1>1, <1>3 DEF WireInv, StreamLaid, EndLaid
<1>8. StreamTyped'
  <2>1. ASSUME NEW i \in 0..w PROVE Start(i)' <= all + n
    <3>1. Start(i)' = Start(i) /\ Start(i) \in Nat /\ Start(i) <= all  BY <1>6
    <3> QED BY <3>1
  <2>2. written \in Seq(Traffic) /\ ends \in Seq(Nat) /\ Len(ends) = w
    BY <1>1 DEF WireInv, StreamLaid, StreamTyped
  <2> QED BY <1>1, <1>3, <1>4, <1>5, <2>1, <2>2 DEF StreamTyped
<1>9. MessagesLaid'
  <2>3. PICK W \in Seq(Traffic) : W = written  BY DEF WireInv, StreamLaid, StreamTyped
  <2>1. ASSUME NEW i \in 0..w, NEW j \in 0..w, i <= j
        PROVE  Start(i)' + (j - i) <= Start(j)'
    BY <1>1, <1>6, <2>1 DEF WireInv, StreamLaid, MessagesLaid
  <2>2. ASSUME NEW i \in 1..w
        PROVE  Start(i)' = Start(i - 1)' + Len(Enc(W[i])) /\ Behind(i - 1, Enc(W[i]))'
    <3>1. PICK k \in 0..w, e \in Traffic : k = i - 1 /\ e = written[i]
      BY <1>1, ElementOfSeq DEF WireInv, StreamLaid, StreamTyped
    <3>2. PICK c \in Nat : c = Len(Enc(e))  BY NotNothing
    <3>3. Start(i) = Start(k) + c /\ Behind(k, Enc(e))
      BY <1>1, <3>1, <3>2 DEF WireInv, StreamLaid, MessagesLaid
    <3>4. i \in 0..w  OBVIOUS
    <3>5. Start(i) <= all /\ Start(k) \in Nat /\ Start(k)' = Start(k) /\ Start(i)' = Start(i)
      BY <1>6, <3>1, <3>4
    <3>6. Behind(k, Enc(e))'
      <4> SUFFICES ASSUME NEW x \in 1..c PROVE B[Start(k) + x] = Enc(e)[x]
        BY <1>4, <3>2, <3>5 DEF Behind
      <4>1. Start(k) + x \in 1..all  BY <3>3, <3>5
      <4> QED BY <1>5, <3>2, <3>3, <4>1 DEF Behind
    <3>7. W[i] = e  BY <2>3, <3>1
    <3>8. Start(i)' = Start(k)' + Len(Enc(e))  BY <3>2, <3>3, <3>5
    <3> QED BY <3>1, <3>6, <3>7, <3>8
  <2> QED BY <1>1, <1>3, <2>1, <2>2, <2>3 DEF MessagesLaid
<1>10. EndLaid'
  <2>1. w \in 0..w /\ Start(w)' = all  BY <1>6, <1>7
  <2>2. Behind(w, d)'  BY <1>1, <1>4, <1>5, <2>1 DEF Behind
  <2> QED BY <1>1, <1>3, <1>4, <1>5, <2>1, <2>2 DEF EndLaid
<1>11. ReaderAt(reader, arrived)'
  <2>1. ReaderAt(reader, arrived) /\ ~reader.failed  BY <1>3 DEF WireInv, ReaderAt
  <2>2. reader \in States /\ Follows(reader, 0, arrived) /\ arrived < NextEnd(Len(reader.events))
    BY <2>1 DEF ReaderAt
  <2>3. PICK m \in Nat, q \in Nat : m = Len(reader.events) /\ q = Len(reader.buffer) /\ 0 + m = m
    BY <2>2, LenProperties DEF States
  <2>4. /\ m <= w /\ (\A i \in 1..m : reader.events[i] = written[i])
        /\ Start(m) + q = arrived /\ Behind(m, reader.buffer)
    BY <1>1, <2>1, <2>2, <2>3 DEF Follows, ReaderAt
  <2>5. m \in 0..w /\ arrived <= all /\ arrived \in Nat  BY <1>1, <2>3, <2>4 DEF WireInv
  <2>6. Start(m) \in Nat /\ Start(m)' = Start(m)  BY <1>6, <2>5
  <2>7. Behind(m, reader.buffer)'
    <3> SUFFICES ASSUME NEW x \in 1..q PROVE B[Start(m) + x] = reader.buffer[x]
      BY <1>3, <1>4, <2>3, <2>6 DEF Behind
    <3>1. Start(m) + x \in 1..all  BY <2>4, <2>5, <2>6
    <3> QED BY <1>5, <2>3, <2>4, <3>1 DEF Behind
  <2>8. arrived < NextEnd(m)'
    <3>1. CASE m < w
      <4>1. PICK next \in Nat : next = m + 1  OBVIOUS
      <4>2. next \in 0..w /\ NextEnd(m) = Start(next) /\ NextEnd(m)' = Start(next)'
        BY <1>1, <1>3, <3>1, <4>1 DEF NextEnd
      <4> QED BY <1>6, <2>2, <2>3, <4>2
    <3>2. CASE m = w
      <4>1. NextEnd(m)' = all + n  BY <1>1, <1>3, <1>4, <1>5, <3>2 DEF NextEnd
      <4> QED BY <1>2, <2>5, <4>1
    <3> QED BY <2>5, <3>1, <3>2
  <2>9. Follows(reader, 0, arrived)'
    BY <1>1, <1>3, <2>3, <2>4, <2>6, <2>7 DEF Follows
  <2> QED BY <1>1, <1>3, <2>1, <2>2, <2>3, <2>4, <2>8, <2>9 DEF ReaderAt
<1>12. (arrived \in 0..Len(bytes))'
  BY <1>1, <1>3, <1>4, <1>5 DEF WireInv
<1> QED BY <1>8, <1>9, <1>10, <1>11, <1>12 DEF WireInv, StreamLaid

\* What a read makes of what there was and what has arrived.
LEMMA ReadsRight ==
    ASSUME WireInv, ~reader.failed, NEW upto \in Nat, arrived < upto, upto <= Len(bytes)
    PROVE  ReaderAt(F!Read(reader, SubSeq(bytes, arrived + 1, upto)), upto)
<1>1. /\ reader \in States /\ Follows(reader, 0, arrived) /\ StreamLaid
      /\ arrived \in Nat
  BY DEF WireInv, ReaderAt
<1>2. PICK events \in Seq(Traffic), buffer \in Seq(Nat), k \in Nat, q \in Nat :
        /\ reader = [events |-> events, buffer |-> buffer, failed |-> FALSE]
        /\ k = Len(events) /\ q = Len(buffer)
  <2>1. PICK events \in Seq(Traffic), buffer \in Seq(Nat) :
          reader = [events |-> events, buffer |-> buffer, failed |-> FALSE]
    BY <1>1 DEF States
  <2>2. PICK k \in Nat : k = Len(events)  BY LenProperties
  <2>3. PICK q \in Nat : q = Len(buffer)  BY LenProperties
  <2> QED BY <2>1, <2>2, <2>3, Zenon
<1>3. PICK w \in Nat, all \in Nat, from \in Nat :
        w = Len(written) /\ all = Len(bytes) /\ from = arrived + 1
  BY <1>1, LenProperties DEF StreamLaid, StreamTyped
<1>4. /\ k <= w /\ (\A i \in 1..k : events[i] = written[i])
      /\ Start(k) + q = arrived /\ Behind(k, buffer)
  <2>1. 0 + k = k  OBVIOUS
  <2> QED BY <1>1, <1>2, <1>3, <2>1 DEF Follows
<1>5. PICK at \in Nat : at = Start(k) /\ at + q = arrived
  <2>1. Start(k) \in Nat
    <3>1. k \in 0..Len(written)  BY <1>3, <1>4
    <3> QED BY <1>1, <3>1, StartTyped DEF StreamLaid
  <2> QED BY <1>4, <2>1
<1>6. from > 0 /\ upto <= Len(bytes) /\ from <= upto + 1 /\ upto - from + 1 = upto - arrived
  BY <1>1, <1>3
<1>7. PICK chunk \in Seq(Nat), c \in Nat : chunk = SubSeq(bytes, from, upto) /\ c = Len(chunk)
  <2>1. SubSeq(bytes, from, upto) \in Seq(Nat)  BY <1>1, <1>6, Part DEF StreamLaid, StreamTyped
  <2> QED BY <2>1, LenProperties
<1>8. c = upto - arrived /\ \A i \in 1..c : chunk[i] = bytes[from + i - 1]
  BY <1>1, <1>6, <1>7, Part DEF StreamLaid, StreamTyped
<1>9. PICK joined \in Seq(Nat) : joined = buffer \o chunk  BY ConcatProperties
<1>10. Len(joined) = q + c /\ (\A i \in 1..q : joined[i] = buffer[i]) /\ \A i \in 1..c : joined[q + i] = chunk[i]
  BY <1>2, <1>7, <1>9, Joined DEF BothIn
<1>11. Behind(k, joined)
  <2> SUFFICES ASSUME NEW i \in 1..(q + c) PROVE bytes[at + i] = joined[i]
    BY <1>5, <1>10 DEF Behind
  <2>1. CASE i <= q
    <3>1. i \in 1..q  BY <2>1
    <3> QED BY <1>2, <1>4, <1>5, <1>10, <3>1 DEF Behind
  <2>2. CASE ~(i <= q)
    <3>1. PICK x \in 1..c : i = q + x
      <4>1. i - q \in 1..c /\ i = q + (i - q)  BY <2>2
      <4> QED BY <4>1
    <3>2. from = (at + q) + 1 /\ i = q + x  BY <1>3, <1>5, <3>1
    <3>3. from + x - 1 = at + i  BY <3>2
    <3> QED BY <1>8, <1>10, <3>1, <3>3
  <2> QED BY <2>1, <2>2
<1>12. Fresh(joined) \in Way(k, upto)
  <2>1. Fresh(joined) \in States /\ ~Fresh(joined).failed /\ Fresh(joined).buffer = joined
        /\ Fresh(joined).events = <<>> /\ Len(Fresh(joined).events) = 0
    BY EmptySeq DEF Fresh, States
  <2>2. k + 0 = k /\ at + (q + c) = upto
    <3>1. c = upto - (at + q)  BY <1>5, <1>8
    <3> QED BY <3>1
  <2>3. Start(k) + Len(joined) = upto  BY <1>5, <1>10, <2>2
  <2>4. Follows(Fresh(joined), k, upto)
    BY <1>3, <1>4, <1>11, <2>1, <2>2, <2>3 DEF Follows
  <2> QED BY <2>1, <2>4 DEF Way
<1>13. upto \in 0..Len(bytes)  BY <1>3
<1>14. DecodedResult(F!Decoded(joined), k, upto)  BY <1>1, <1>12, <1>13, DecodedRight
<1>15. PICK t \in Way(k, upto) : t = F!Decoded(joined)  BY <1>14 DEF DecodedResult
<1>16. PICK more \in Seq(Traffic), e \in Nat, left \in Seq(Nat), failed \in BOOLEAN :
         /\ t = [events |-> more, buffer |-> left, failed |-> failed]
         /\ e = Len(more)
  <2>1. PICK more \in Seq(Traffic), left \in Seq(Nat), failed \in BOOLEAN :
          t = [events |-> more, buffer |-> left, failed |-> failed]
    BY DEF Way, States
  <2>2. Len(more) \in Nat  BY LenProperties
  <2> QED BY <2>1, <2>2
<1>17. PICK came \in Seq(Traffic) : came = events \o more  BY ConcatProperties
<1>18. F!Read(reader, chunk) = [events |-> came, buffer |-> left, failed |-> failed]
  <2>1. F!Read(reader, chunk) = [t EXCEPT !.events = events \o @]
    BY <1>2, <1>9, <1>15 DEF F!Read
  <2> QED BY <1>16, <1>17, <2>1
<1>19. Len(came) = k + e /\ (\A i \in 1..k : came[i] = events[i]) /\ \A i \in 1..e : came[k + i] = more[i]
  BY <1>2, <1>16, <1>17, Joined DEF BothIn
<1>20. PICK r \in States : r = F!Read(reader, chunk)  BY <1>18 DEF States
<1>21. r.events = came /\ r.buffer = left /\ r.failed = failed  BY <1>18, <1>20
<1>22. CASE failed
  <2>1. damaged /\ more = <<>>  BY <1>16, <1>22 DEF Way
  <2>2. e = 0  BY <1>16, <2>1, EmptySeq
  <2>3. Len(came) = k /\ k <= Len(written) /\ \A i \in 1..k : came[i] = written[i]
    <3>1. Len(came) = k  BY <1>19, <2>2
    <3> QED BY <1>3, <1>4, <1>19, <3>1
  <2>4. ReaderAt(r, upto)  BY <1>21, <1>22, <2>1, <2>3 DEF ReaderAt
  <2> QED BY <1>3, <1>7, <1>20, <2>4
<1>23. CASE ~failed
  <2>1. Follows(t, k, upto) /\ upto < NextEnd(k + e)
    BY <1>14, <1>15, <1>16, <1>23 DEF Way, DecodedResult
  <2>2. PICK m \in Nat : m = k + e  OBVIOUS
  <2>3. /\ m <= w /\ (\A i \in 1..e : more[i] = written[k + i])
        /\ Start(m) + Len(left) = upto /\ Behind(m, left)
    BY <1>3, <1>16, <2>1, <2>2 DEF Follows
  <2>4. \A i \in 1..m : came[i] = written[i]
    <3> SUFFICES ASSUME NEW i \in 1..m PROVE came[i] = written[i]
      OBVIOUS
    <3>1. CASE i <= k
      <4>1. i \in 1..k  BY <3>1
      <4> QED BY <1>4, <1>19, <4>1
    <3>2. CASE ~(i <= k)
      <4>1. PICK x \in 1..e : i = k + x
        <5>1. i - k \in 1..e /\ i = k + (i - k)  BY <2>2, <3>2
        <5> QED BY <5>1
      <4> QED BY <1>19, <2>3, <4>1
    <3> QED BY <3>1, <3>2
  <2>5. Len(came) = m /\ 0 + m = m /\ \A i \in 1..m : came[0 + i] = written[i]
    BY <1>19, <2>2, <2>4
  <2>6. Follows(r, 0, upto)
    BY <1>3, <1>21, <2>3, <2>4, <2>5 DEF Follows
  <2>7. ReaderAt(r, upto)
    BY <1>3, <1>21, <1>23, <2>1, <2>2, <2>3, <2>4, <2>5, <2>6 DEF ReaderAt
  <2> QED BY <1>3, <1>7, <1>20, <2>7
<1> QED BY <1>22, <1>23

LEMMA ReadsKeeps == WireInv /\ ReadsSome => WireInv'
<1> SUFFICES ASSUME WireInv, ReadsSome PROVE WireInv'
  OBVIOUS
<1>1. PICK upto \in Nat, all \in Nat : upto = arrived' /\ all = Len(bytes)
  <2>1. PICK all \in Nat : all = Len(bytes)
    BY LenProperties DEF WireInv, StreamLaid, StreamTyped
  <2>2. arrived \in 0..all /\ arrived' \in (arrived + 1)..all  BY <2>1 DEF ReadsSome, WireInv
  <2>3. arrived' \in Nat  BY <2>2
  <2> QED BY <2>1, <2>3
<1>2. arrived < upto /\ upto <= Len(bytes) /\ ~reader.failed
  BY <1>1 DEF ReadsSome, WireInv
<1>3. PICK r : r = F!Read(reader, SubSeq(bytes, arrived + 1, upto))  OBVIOUS
<1>4. ReaderAt(r, upto)  BY <1>2, <1>3, ReadsRight
<1>5. reader' = r /\ written' = written /\ ends' = ends /\ bytes' = bytes /\ damaged' = damaged
  BY <1>1, <1>3 DEF ReadsSome
<1>6. ReaderAt(reader, arrived)'
  BY <1>1, <1>4, <1>5 DEF ReaderAt, Follows, NextEnd, Behind, Start
<1>7. StreamLaid'
  BY <1>5 DEF WireInv, StreamLaid, StreamTyped, MessagesLaid, EndLaid, Behind, Start
<1>8. (arrived \in 0..Len(bytes))'  BY <1>1, <1>2, <1>5
<1> QED BY <1>6, <1>7, <1>8 DEF WireInv

LEMMA WireStays == WireInv /\ UNCHANGED trafficVars => WireInv'
<1> SUFFICES ASSUME WireInv, UNCHANGED trafficVars PROVE WireInv'
  OBVIOUS
<1>1. /\ written' = written /\ ends' = ends /\ bytes' = bytes /\ damaged' = damaged
      /\ arrived' = arrived /\ reader' = reader
  BY DEF trafficVars
<1>2. ReaderAt(reader, arrived)'
  BY <1>1 DEF WireInv, ReaderAt, Follows, NextEnd, Behind, Start
<1>3. StreamLaid'
  BY <1>1 DEF WireInv, StreamLaid, StreamTyped, MessagesLaid, EndLaid, Behind, Start
<1> QED BY <1>1, <1>2, <1>3 DEF WireInv

LEMMA WireSteps == WireInv /\ [WireNext]_wireVars => WireInv'
<1> SUFFICES ASSUME WireInv, [WireNext]_wireVars PROVE WireInv'
  OBVIOUS
<1>1. ASSUME NEW ev \in Traffic, Writes(ev) PROVE WireInv'  BY <1>1, WritesKeeps
<1>2. ASSUME NEW d \in Damages, Garbles(d) PROVE WireInv'  BY <1>2, GarblesKeeps
<1>3. CASE ReadsSome  BY <1>3, ReadsKeeps
<1>4. CASE FrameNext  BY <1>4, WireStays DEF FrameNext, WriteMember, PutInEnvelope
<1>5. CASE UNCHANGED wireVars  BY <1>5, WireStays DEF wireVars, trafficVars
<1> QED BY <1>1, <1>2, <1>3, <1>4, <1>5 DEF WireNext, StreamNext

-----------------------------------------------------------------------------
(* Frames *)

\* Which kind a frame is.
LEMMA KindOf ==
    ASSUME NEW j
    PROVE  /\ j.id # D!Absent /\ j.error # D!Absent => D!Classify(j) = D!Error(j.id, j.error)
           /\ j.id # D!Absent /\ j.method = D!Absent /\ j.error = D!Absent =>
                D!Classify(j) = D!Response(j.id, j.result)
           /\ j.id # D!Absent /\ j.method # D!Absent /\ j.error = D!Absent /\ j.result = D!Absent =>
                D!Classify(j) = D!Request(j.id, j.method, D!ParamsOf(j))
           /\ j.id = D!Absent /\ j.method # D!Absent /\ j.error = D!Absent /\ j.result = D!Absent =>
                D!Classify(j) = D!Event(j.method, D!ParamsOf(j))
           /\ \/ j.id # D!Absent /\ j.error # D!Absent
              \/ j.id # D!Absent /\ j.method = D!Absent /\ j.error = D!Absent
              \/ j.id # D!Absent /\ j.method # D!Absent /\ j.error = D!Absent /\ j.result = D!Absent
              \/ j.id = D!Absent /\ j.method # D!Absent /\ j.error = D!Absent /\ j.result = D!Absent
              \/ D!Classify(j) = D!NoFrame
<1>1. CASE j.id # D!Absent /\ j.error # D!Absent  BY <1>1, Zenon DEF D!Classify
<1>2. CASE j.id # D!Absent /\ j.method = D!Absent /\ j.error = D!Absent
  BY <1>2, Zenon DEF D!Classify
<1>3. CASE j.id # D!Absent /\ j.method # D!Absent /\ j.error = D!Absent /\ j.result = D!Absent
  BY <1>3, Zenon DEF D!Classify
<1>4. CASE j.id = D!Absent /\ j.method # D!Absent /\ j.error = D!Absent /\ j.result = D!Absent
  BY <1>4, Zenon DEF D!Classify
<1>5. CASE /\ ~(j.id # D!Absent /\ j.error # D!Absent)
           /\ ~(j.id # D!Absent /\ j.method = D!Absent /\ j.error = D!Absent)
           /\ ~(j.id # D!Absent /\ j.method # D!Absent /\ j.error = D!Absent /\ j.result = D!Absent)
           /\ ~(j.id = D!Absent /\ j.method # D!Absent /\ j.error = D!Absent /\ j.result = D!Absent)
  <2>1. D!Classify(j) = D!NoFrame  BY <1>5, Zenon DEF D!Classify
  <2> QED BY <1>5, <2>1, Zenon
<1> QED BY <1>1, <1>2, <1>3, <1>4, <1>5, Zenon

\* A frame written to the wire or into an envelope is read as it was.
LEMMA WrittenAndRead ==
    ASSUME NEW j, NEW f, f = D!Classify(j), f # D!NoFrame
    PROVE  /\ D!Classify(D!ToJson(f)) = f
           /\ f.kind \in {"request", "event", "response", "error"}
           /\ (j.result # D!Absent \/ j.error # D!Absent) => f.kind \in {"response", "error"}
           /\ f.kind = "request" => f.id # D!Absent
<1>1. CASE j.id # D!Absent /\ j.error # D!Absent
  <2>1. f = D!Error(j.id, j.error)  BY <1>1, KindOf
  <2>2. f.kind = "error" /\ f.id = j.id /\ f.value = j.error  BY <2>1 DEF D!Error
  <2>3. D!ToJson(f) = D!Json(j.id, D!Absent, D!Absent, D!Absent, j.error)
    BY <2>2 DEF D!ToJson
  <2>4. PICK g : g = D!ToJson(f)  OBVIOUS
  <2>5. g.id = j.id /\ g.error = j.error  BY <2>3, <2>4 DEF D!Json
  <2>6. D!Classify(g) = D!Error(g.id, g.error)  BY <1>1, <2>5, KindOf
  <2> QED BY <2>1, <2>2, <2>4, <2>5, <2>6
<1>2. CASE j.id # D!Absent /\ j.method = D!Absent /\ j.error = D!Absent
  <2>1. f = D!Response(j.id, j.result)  BY <1>2, KindOf
  <2>2. f.kind = "response" /\ f.id = j.id /\ f.value = j.result  BY <2>1 DEF D!Response
  <2>3. D!ToJson(f) = D!Json(j.id, D!Absent, D!Absent, j.result, D!Absent)
    BY <2>2 DEF D!ToJson
  <2>4. PICK g : g = D!ToJson(f)  OBVIOUS
  <2>5. g.id = j.id /\ g.method = D!Absent /\ g.error = D!Absent /\ g.result = j.result
    BY <2>3, <2>4 DEF D!Json
  <2>6. D!Classify(g) = D!Response(g.id, g.result)  BY <1>2, <2>5, KindOf
  <2> QED BY <2>1, <2>2, <2>4, <2>5, <2>6
<1>3. CASE j.id # D!Absent /\ j.method # D!Absent /\ j.error = D!Absent /\ j.result = D!Absent
  <2>1. PICK p : p = D!ParamsOf(j)  OBVIOUS
  <2>2. f = D!Request(j.id, j.method, p)  BY <1>3, <2>1, KindOf
  <2>3. f.kind = "request" /\ f.id = j.id /\ f.method = j.method /\ f.params = p
    BY <2>2 DEF D!Request
  <2>4. D!ToJson(f) = D!Json(j.id, j.method, <<p>>, D!Absent, D!Absent)
    BY <2>3 DEF D!ToJson
  <2>5. PICK g : g = D!ToJson(f)  OBVIOUS
  <2>6. /\ g.id = j.id /\ g.method = j.method /\ g.params = <<p>>
        /\ g.error = D!Absent /\ g.result = D!Absent
    BY <2>4, <2>5 DEF D!Json
  <2>7. D!ParamsOf(g) = p  BY <2>6 DEF D!ParamsOf, D!Absent
  <2>8. D!Classify(g) = D!Request(g.id, g.method, D!ParamsOf(g))  BY <1>3, <2>6, KindOf
  <2> QED BY <1>3, <2>2, <2>3, <2>5, <2>6, <2>7, <2>8
<1>4. CASE j.id = D!Absent /\ j.method # D!Absent /\ j.error = D!Absent /\ j.result = D!Absent
  <2>1. PICK p : p = D!ParamsOf(j)  OBVIOUS
  <2>2. f = D!Event(j.method, p)  BY <1>4, <2>1, KindOf
  <2>3. f.kind = "event" /\ f.id = D!Absent /\ f.method = j.method /\ f.params = p
    BY <2>2 DEF D!Event
  <2>4. D!ToJson(f) = D!Json(D!Absent, j.method, <<p>>, D!Absent, D!Absent)
    BY <2>3 DEF D!ToJson
  <2>5. PICK g : g = D!ToJson(f)  OBVIOUS
  <2>6. /\ g.id = D!Absent /\ g.method = j.method /\ g.params = <<p>>
        /\ g.error = D!Absent /\ g.result = D!Absent
    BY <2>4, <2>5 DEF D!Json
  <2>7. D!ParamsOf(g) = p  BY <2>6 DEF D!ParamsOf, D!Absent
  <2>8. D!Classify(g) = D!Event(g.method, D!ParamsOf(g))  BY <1>4, <2>6, KindOf
  <2> QED BY <1>4, <2>2, <2>3, <2>5, <2>6, <2>7, <2>8
<1> QED BY <1>1, <1>2, <1>3, <1>4, KindOf

\* An envelope from a target is read as what is in it, and whose it is.
LEMMA EnvelopeFrom ==
    ASSUME NEW j, NEW f, f = D!Classify(j), f # D!NoFrame, NEW t
    PROVE  D!Decode(D!Classify(D!Dispatched(j, t))) = [frame |-> f, target |-> <<t>>]
<1>1. PICK p : p = D!Params(<<t>>, <<j>>, D!Absent)  OBVIOUS
<1>2. p.targetId = <<t>> /\ p.message = <<j>>  BY <1>1 DEF D!Params
<1>3. PICK g : g = D!Dispatched(j, t)  OBVIOUS
<1>4. /\ g.id = D!Absent /\ g.method = D!DispatchFromTarget /\ g.params = <<p>>
      /\ g.error = D!Absent /\ g.result = D!Absent
  BY <1>1, <1>3 DEF D!Dispatched, D!Json
<1>5. D!DispatchFromTarget # D!Absent  BY DEF D!DispatchFromTarget, D!Absent
<1>6. D!ParamsOf(g) = p  BY <1>4 DEF D!ParamsOf, D!Absent
<1>7. PICK h : h = D!Classify(g)  OBVIOUS
<1>8. h = D!Event(D!DispatchFromTarget, p)  BY <1>4, <1>5, <1>6, <1>7, KindOf
<1>9. h.kind = "event" /\ h.method = D!DispatchFromTarget /\ h.params = p  BY <1>8 DEF D!Event
<1>10. h.params.targetId = <<t>> /\ h.params.message = <<j>> /\ h.params.message[1] = j
  BY <1>2, <1>9
<1>11. D!IsDispatch(h) /\ D!Envelope(h)  BY <1>9, <1>10 DEF D!IsDispatch, D!Envelope, D!Absent
<1> QED BY <1>3, <1>7, <1>9, <1>10, <1>11 DEF D!Decode

\* What a sub-target takes out of its envelope is what was put in.
LEMMA EnvelopeTo ==
    ASSUME NEW f, f.kind = "request", f.id # D!Absent, D!Classify(D!ToJson(f)) = f, NEW t
    PROVE  /\ D!Unwrapped(D!ToJson(D!Encode(f, <<t>>))) = [target |-> <<t>>, frame |-> f]
           /\ D!Encode(f, <<t>>).id = f.id
<1>1. PICK inner : inner = D!ToJson(f)  OBVIOUS
<1>2. PICK p : p = D!Params(<<t>>, <<inner>>, D!Absent)  OBVIOUS
<1>3. p.targetId = <<t>> /\ p.message = <<inner>>  BY <1>2 DEF D!Params
<1>4. <<t>> # D!Absent  BY DEF D!Absent
<1>5. PICK e : e = D!Encode(f, <<t>>)  OBVIOUS
<1>6. e = D!Request(f.id, D!SendToTarget, p)  BY <1>1, <1>2, <1>4, <1>5 DEF D!Encode
<1>7. e.kind = "request" /\ e.id = f.id /\ e.method = D!SendToTarget /\ e.params = p
  BY <1>6 DEF D!Request
<1>8. D!ToJson(e) = D!Json(f.id, D!SendToTarget, <<p>>, D!Absent, D!Absent)
  BY <1>7 DEF D!ToJson
<1>9. PICK g : g = D!ToJson(e)  OBVIOUS
<1>10. g.params = <<p>>  BY <1>8, <1>9 DEF D!Json
<1>11. g.params[1].targetId = <<t>> /\ g.params[1].message = <<inner>> /\ g.params[1].message[1] = inner
  BY <1>3, <1>10
<1>12. D!Unwrapped(g) = [target |-> <<t>>, frame |-> D!Classify(inner)]
  BY <1>11 DEF D!Unwrapped
<1> QED BY <1>1, <1>5, <1>7, <1>9, <1>12

LEMMA FramesSurvive ==
    ASSUME NEW j, NEW targets
    PROVE  D!SurvivesEnvelopes(j, D!Classify(j), targets)
<1>1. PICK f : f = D!Classify(j)  OBVIOUS
<1>2. D!NoFrame.kind = "none"  BY DEF D!NoFrame
<1>3. (j.result # D!Absent \/ j.error # D!Absent) => f.kind \in {"response", "error", "none"}
  <2>1. CASE f = D!NoFrame  BY <1>2, <2>1
  <2>2. CASE f # D!NoFrame  BY <1>1, <2>2, WrittenAndRead
  <2> QED BY <2>1, <2>2
<1>4. (j.id # D!Absent /\ j.error # D!Absent) => f = D!Error(j.id, j.error)
  BY <1>1, KindOf
<1>5. ASSUME f # D!NoFrame
      PROVE  /\ D!Classify(D!ToJson(f)) = f
             /\ ~D!IsDispatch(f) => D!Decode(f) = [frame |-> f, target |-> D!Absent]
             /\ \A t \in targets :
                  /\ D!Decode(D!Classify(D!Dispatched(j, t))) = [frame |-> f, target |-> <<t>>]
                  /\ f.kind = "request" =>
                       /\ D!Unwrapped(D!ToJson(D!Encode(f, <<t>>))) = [target |-> <<t>>, frame |-> f]
                       /\ D!Encode(f, <<t>>).id = f.id
  <2>1. D!Classify(D!ToJson(f)) = f /\ (f.kind = "request" => f.id # D!Absent)
    BY <1>1, <1>5, WrittenAndRead
  <2>2. ~D!IsDispatch(f) => D!Decode(f) = [frame |-> f, target |-> D!Absent]
    BY DEF D!Decode
  <2>3. ASSUME NEW t \in targets
        PROVE  D!Decode(D!Classify(D!Dispatched(j, t))) = [frame |-> f, target |-> <<t>>]
    BY <1>1, <1>5, EnvelopeFrom
  <2>4. ASSUME NEW t \in targets, f.kind = "request"
        PROVE  /\ D!Unwrapped(D!ToJson(D!Encode(f, <<t>>))) = [target |-> <<t>>, frame |-> f]
               /\ D!Encode(f, <<t>>).id = f.id
    BY <2>1, <2>4, EnvelopeTo
  <2> QED BY <2>1, <2>2, <2>3, <2>4
<1> QED BY <1>1, <1>3, <1>4, <1>5, Zenon DEF D!SurvivesEnvelopes

-----------------------------------------------------------------------------
LEMMA WireIntact == WireInv => StreamIntact
<1> SUFFICES ASSUME WireInv PROVE StreamIntact
  OBVIOUS
<1>1. /\ StreamLaid /\ arrived \in 0..Len(bytes) /\ reader \in States
      /\ Len(reader.events) <= Len(written)
      /\ \A i \in 1..Len(reader.events) : reader.events[i] = written[i]
      /\ reader.failed => damaged
      /\ ~reader.failed => Follows(reader, 0, arrived) /\ arrived < NextEnd(Len(reader.events))
  BY DEF WireInv, ReaderAt
<1>2. PICK events \in Seq(Traffic), buffer \in Seq(Nat), came \in Nat, q \in Nat :
        events = reader.events /\ buffer = reader.buffer /\ came = Len(events) /\ q = Len(buffer)
  <2>1. PICK events \in Seq(Traffic), buffer \in Seq(Nat) :
          events = reader.events /\ buffer = reader.buffer
    BY <1>1 DEF States
  <2>2. PICK came \in Nat : came = Len(events)  BY LenProperties
  <2>3. PICK q \in Nat : q = Len(buffer)  BY LenProperties
  <2> QED BY <2>1, <2>2, <2>3, Zenon
<1>3. PICK w \in Nat : w = Len(written)  BY <1>1, LenProperties DEF StreamLaid, StreamTyped
<1>4. PICK all \in Nat : all = Len(bytes)  BY <1>1, LenProperties DEF StreamLaid, StreamTyped
<1>5. came <= w /\ \A i \in 1..came : events[i] = written[i]  BY <1>1, <1>2, <1>3
<1>6. events = SubSeq(written, 1, came)
  <2>1. 1 \in Nat /\ 1 > 0 /\ came <= Len(written) /\ 1 <= came + 1 /\ Len(events) = came - 1 + 1
    BY <1>2, <1>3, <1>5
  <2>2. \A i \in 1..(came - 1 + 1) : events[i] = written[1 + i - 1]  BY <1>5
  <2>3. written \in Seq(Traffic)  BY <1>1 DEF StreamLaid, StreamTyped
  <2> QED BY <2>1, <2>2, <2>3, PartIs
<1>7. \A i, j \in 0..w : i <= j => Start(i) <= Start(j) /\ Start(i) \in Nat /\ Start(j) \in Nat
  <2> SUFFICES ASSUME NEW i \in 0..w, NEW j \in 0..w, i <= j
               PROVE  Start(i) <= Start(j) /\ Start(i) \in Nat /\ Start(j) \in Nat
    OBVIOUS
  <2>1. Start(i) + (j - i) <= Start(j)  BY <1>1, <1>3 DEF StreamLaid, MessagesLaid
  <2>2. Start(i) \in Nat /\ Start(j) \in Nat  BY <1>1, <1>3, StartTyped DEF StreamLaid
  <2> QED BY <2>1, <2>2
<1>8. \A n \in 1..w : ends[n] = Start(n) /\ n \in 0..w  BY DEF Start
<1>9. ~reader.failed => Start(came) + q = arrived
  <2>1. 0 + came = came  BY <1>2
  <2> QED BY <1>1, <1>2, <2>1 DEF Follows
<1>10. arrived \in Nat /\ came \in 0..w  BY <1>1, <1>4, <1>5
<1>11. ASSUME ~reader.failed, NEW n \in 1..w PROVE n <= came <=> ends[n] <= arrived
  <2>1. CASE n <= came
    <3>1. Start(n) <= Start(came) /\ Start(n) \in Nat /\ Start(came) \in Nat
      BY <1>7, <1>8, <1>10, <2>1
    <3> QED BY <1>2, <1>8, <1>9, <1>10, <1>11, <2>1, <3>1
  <2>2. CASE ~(n <= came)
    <3>1. PICK next \in 0..w : next = came + 1  BY <1>10, <2>2
    <3>2. NextEnd(came) = Start(next)  BY <1>3, <1>10, <2>2, <3>1 DEF NextEnd
    <3>3. arrived < Start(next)  BY <1>1, <1>2, <1>11, <3>2
    <3>4. Start(next) <= Start(n) /\ Start(n) \in Nat /\ Start(next) \in Nat
      BY <1>7, <1>8, <2>2, <3>1
    <3> QED BY <1>8, <1>10, <2>2, <3>3, <3>4
  <2> QED BY <2>1, <2>2
<1>12. ASSUME arrived = all
       PROVE  IF damaged THEN reader.failed ELSE reader.buffer = <<>> /\ ~reader.failed
  <2>1. CASE reader.failed  BY <1>1, <2>1
  <2>2. CASE ~reader.failed
    <3>1. arrived < NextEnd(came)  BY <1>1, <1>2, <2>2
    <3>2. came = w
      <4>1. SUFFICES ASSUME came < w PROVE FALSE
        BY <1>10
      <4>2. PICK next \in 0..w : next = came + 1  BY <1>10, <4>1
      <4>3. NextEnd(came) = Start(next)  BY <1>3, <4>1, <4>2 DEF NextEnd
      <4>4. Start(next) <= all /\ Start(next) \in Nat
        BY <1>1, <1>3, <1>4, StartTyped DEF StreamLaid, StreamTyped
      <4> QED BY <1>12, <3>1, <4>3, <4>4
    <3>3. ~damaged
      <4>1. SUFFICES ASSUME damaged PROVE FALSE
        OBVIOUS
      <4>2. NextEnd(came) = all  BY <1>3, <1>4, <3>2, <4>1 DEF NextEnd
      <4> QED BY <1>12, <3>1, <4>2
    <3>4. Start(w) = all  BY <1>1, <1>3, <1>4, <3>3 DEF StreamLaid, EndLaid
    <3>5. q = 0  BY <1>9, <1>12, <2>2, <3>2, <3>4
    <3>6. buffer = <<>>  BY <1>2, <3>5, EmptySeq
    <3> QED BY <1>2, <2>2, <3>3, <3>6
  <2> QED BY <2>1, <2>2
<1>13. written \in Seq(Traffic)  BY <1>1 DEF StreamLaid, StreamTyped
<1> QED BY <1>1, <1>2, <1>3, <1>4, <1>5, <1>6, <1>11, <1>12 DEF StreamIntact

LEMMA WireHolds == WireSpec => []WireInv
<1> QED BY WireStarts, WireSteps, PTL DEF WireSpec

\* Whatever is written and however reads cut it, all messages come out as they
\* went in, each as soon as it is whole, and none behind a malformed one; and
\* frames, in envelopes or not, are what they were.
\* [encode_message, take_one_message, decode_messages, classify, encode, decode]
THEOREM MessagesAlwaysSurvive == WireSpec => []MessagesSurviveTheWire
<1>1. WireInv => MessagesSurviveTheWire
  BY WireIntact, FramesSurvive DEF MessagesSurviveTheWire
<1> QED BY <1>1, WireHolds, PTL
=============================================================================
