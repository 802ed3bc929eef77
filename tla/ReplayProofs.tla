------------------------------ MODULE ReplayProofs ------------------------------
(***************************************************************************)
(* What the recorder, the flattening and the replay of a trace guarantee   *)
(* for any number of methods, pages, requests, events and calls: nothing   *)
(* that was received is dropped, and replies are correlated with their     *)
(* calls.                                                                  *)
(*                                                                         *)
(* The argument follows a trace through its life.  The recorder keeps its  *)
(* recording orderly (Recorded): no two envelopes bear one id, and an      *)
(* answer comes after what it answers.  The flattening makes of that a     *)
(* trace that can be played (Playable).  And the replay keeps the id it    *)
(* writes into a reply the id of the call matched with its request (Own).  *)
(*                                                                         *)
(* The last part is about the generator: whatever is declared, the types   *)
(* it makes serve every platform and have a finite size.                   *)
(***************************************************************************)
EXTENDS Replay, Codegen, ExcerptProofs, FiniteSetTheorems

-----------------------------------------------------------------------------
(* Recordings and traces *)

\* The frames a recorder writes down, with the bounds of their ids.
RawKinds == {"wrapped", "root", "created", "committed", "event", "ack", "reply", "rootReply"}
RawFrames == [kind : RawKinds, id : 0..HandId, outer : Nat, method : Methods \cup {NoMethod}]

\* A request in an envelope, by its own id.
Wraps(recording, i, id) == recording[i].kind = "wrapped" /\ recording[i].id = id

\* A recording that makes sense: no two envelopes carry one id, and what answers
\* an envelope or what is in it comes after it.
Recorded(recording) ==
    /\ recording \in Seq(RawFrames)
    /\ \A i \in 1..Len(recording) :
          recording[i].kind \in {"wrapped", "reply", "rootReply", "ack"} => recording[i].id # NoId
    /\ \A i, j \in 1..Len(recording) :
          recording[j].kind = "wrapped" /\ Wraps(recording, i, recording[j].id) => i = j
    /\ \A j \in 1..Len(recording) :
          recording[j].kind = "reply" => \E i \in 1..(j - 1) : Wraps(recording, i, recording[j].id)
    /\ \A j \in 1..Len(recording) :
          recording[j].kind = "ack"
            => \E i \in 1..(j - 1) : recording[i].kind = "wrapped" /\ recording[i].outer = recording[j].id

\* A trace that can be played: no two requests have one id, and every reply but
\* those of root commands comes after its request.
Entries ==
    [kind : {"send", "event", "reply"}, id : 0..HandId, method : Methods \cup {NoMethod}, was : RawKinds]
Sends(t, p, id) == t[p].kind = "send" /\ t[p].id = id
Playable(t) ==
    /\ t \in Seq(Entries)
    /\ \A p \in 1..Len(t) : t[p].kind \in {"send", "reply"} => t[p].id # NoId
    /\ \A p, q \in 1..Len(t) : t[q].kind = "send" /\ Sends(t, p, t[q].id) => p = q
    /\ \A q \in 1..Len(t) :
          t[q].kind = "reply" /\ t[q].was # "rootReply" => \E p \in 1..(q - 1) : Sends(t, p, t[q].id)

\* The empty trace can be played, and the empty recording makes sense.
LEMMA NothingPlayed == Playable(<<>>)
<1>1. <<>> \in Seq(Entries) /\ Len(<<>>) = 0  BY EmptySeq
<1>2. 1..0 = {}  OBVIOUS
<1> QED BY <1>1, <1>2 DEF Playable

LEMMA NothingRecorded == Recorded(<<>>)
<1>1. <<>> \in Seq(RawFrames) /\ Len(<<>>) = 0  BY EmptySeq
<1>2. 1..0 = {}  OBVIOUS
<1> QED BY <1>1, <1>2 DEF Recorded

\* What may be written at the end of a recording.
LEMMA RecordingGrows ==
    ASSUME NEW r, Recorded(r), NEW e \in RawFrames,
           e.kind \in {"wrapped", "reply", "rootReply", "ack"} => e.id # NoId,
           e.kind = "wrapped" => \A i \in 1..Len(r) : ~Wraps(r, i, e.id),
           e.kind = "reply" => \E i \in 1..Len(r) : Wraps(r, i, e.id),
           e.kind = "ack" => \E i \in 1..Len(r) : r[i].kind = "wrapped" /\ r[i].outer = e.id
    PROVE  Recorded(Append(r, e))
<1>1. PICK L \in Nat : L = Len(r)  BY LenProperties DEF Recorded
<1>2. PICK new : new = Append(r, e)  OBVIOUS
<1>3. /\ new \in Seq(RawFrames) /\ Len(new) = L + 1 /\ new[L + 1] = e
      /\ \A i \in 1..L : new[i] = r[i]
  BY <1>1, <1>2, AppendProperties DEF Recorded
<1>4. \A i \in 1..(L + 1) : i \in 1..L \/ i = L + 1  BY <1>1
<1>5. \A i \in 1..L : i \in 1..(L + 1) /\ i # L + 1 /\ \A j \in 1..(i - 1) : j \in 1..L  BY <1>1
<1>6. \A i \in 1..(L + 1) : new[i].kind \in {"wrapped", "reply", "rootReply", "ack"} => new[i].id # NoId
  BY <1>1, <1>3, <1>4 DEF Recorded
<1>7. ASSUME NEW i \in 1..(L + 1), NEW j \in 1..(L + 1), new[j].kind = "wrapped", Wraps(new, i, new[j].id)
      PROVE  i = j
  <2>1. CASE i \in 1..L /\ j \in 1..L
    BY <1>1, <1>3, <1>7, <2>1 DEF Recorded, Wraps
  <2>2. CASE i = L + 1 /\ j \in 1..L
    BY <1>1, <1>3, <1>7, <2>2 DEF Wraps
  <2>3. CASE i \in 1..L /\ j = L + 1
    BY <1>1, <1>3, <1>7, <2>3 DEF Wraps
  <2> QED BY <1>4, <2>1, <2>2, <2>3
<1>8. ASSUME NEW j \in 1..(L + 1), new[j].kind = "reply"
      PROVE  \E i \in 1..(j - 1) : Wraps(new, i, new[j].id)
  <2>1. CASE j \in 1..L
    <3>1. PICK i \in 1..(j - 1) : Wraps(r, i, r[j].id)  BY <1>1, <1>3, <1>8, <2>1 DEF Recorded
    <3> QED BY <1>3, <1>5, <2>1, <3>1 DEF Wraps
  <2>2. CASE j = L + 1
    <3>1. PICK i \in 1..L : Wraps(r, i, e.id)  BY <1>1, <1>3, <1>8, <2>2
    <3>2. i \in 1..(j - 1)  BY <2>2
    <3> QED BY <1>3, <2>2, <3>1, <3>2 DEF Wraps
  <2> QED BY <1>4, <2>1, <2>2
<1>9. ASSUME NEW j \in 1..(L + 1), new[j].kind = "ack"
      PROVE  \E i \in 1..(j - 1) : new[i].kind = "wrapped" /\ new[i].outer = new[j].id
  <2>1. CASE j \in 1..L
    <3>1. PICK i \in 1..(j - 1) : r[i].kind = "wrapped" /\ r[i].outer = r[j].id
      BY <1>1, <1>3, <1>9, <2>1 DEF Recorded
    <3> QED BY <1>3, <1>5, <2>1, <3>1
  <2>2. CASE j = L + 1
    <3>1. PICK i \in 1..L : r[i].kind = "wrapped" /\ r[i].outer = e.id  BY <1>1, <1>3, <1>9, <2>2
    <3>2. i \in 1..(j - 1)  BY <2>2
    <3> QED BY <1>3, <2>2, <3>1, <3>2
  <2> QED BY <1>4, <2>1, <2>2
<1>10. Recorded(new)
  BY <1>3, <1>6, <1>7, <1>8, <1>9 DEF Recorded
<1> QED BY <1>2, <1>10

\* What may be kept at the end of a trace.
LEMMA TraceGrows ==
    ASSUME NEW t, Playable(t), NEW e \in Entries,
           e.kind \in {"send", "reply"} => e.id # NoId,
           e.kind = "send" => \A p \in 1..Len(t) : ~Sends(t, p, e.id),
           e.kind = "reply" /\ e.was # "rootReply" => \E p \in 1..Len(t) : Sends(t, p, e.id)
    PROVE  /\ Playable(Append(t, e)) /\ Len(Append(t, e)) = Len(t) + 1
           /\ Append(t, e)[Len(t) + 1] = e
           /\ \A p \in 1..Len(t) : Append(t, e)[p] = t[p]
<1>1. PICK L \in Nat : L = Len(t)  BY LenProperties DEF Playable
<1>2. PICK new : new = Append(t, e)  OBVIOUS
<1>3. /\ new \in Seq(Entries) /\ Len(new) = L + 1 /\ new[L + 1] = e
      /\ \A p \in 1..L : new[p] = t[p]
  BY <1>1, <1>2, AppendProperties DEF Playable
<1>4. \A p \in 1..(L + 1) : p \in 1..L \/ p = L + 1  BY <1>1
<1>5. \A p \in 1..L : p \in 1..(L + 1) /\ p # L + 1 /\ \A q \in 1..(p - 1) : q \in 1..L  BY <1>1
<1>6. \A p \in 1..(L + 1) : new[p].kind \in {"send", "reply"} => new[p].id # NoId
  BY <1>1, <1>3, <1>4 DEF Playable
<1>7. ASSUME NEW p \in 1..(L + 1), NEW q \in 1..(L + 1), new[q].kind = "send", Sends(new, p, new[q].id)
      PROVE  p = q
  <2>1. CASE p \in 1..L /\ q \in 1..L
    BY <1>1, <1>3, <1>7, <2>1 DEF Playable, Sends
  <2>2. CASE p = L + 1 /\ q \in 1..L
    BY <1>1, <1>3, <1>7, <2>2 DEF Sends
  <2>3. CASE p \in 1..L /\ q = L + 1
    BY <1>1, <1>3, <1>7, <2>3 DEF Sends
  <2> QED BY <1>4, <2>1, <2>2, <2>3
<1>8. ASSUME NEW q \in 1..(L + 1), new[q].kind = "reply", new[q].was # "rootReply"
      PROVE  \E p \in 1..(q - 1) : Sends(new, p, new[q].id)
  <2>1. CASE q \in 1..L
    <3>1. PICK p \in 1..(q - 1) : Sends(t, p, t[q].id)  BY <1>1, <1>3, <1>8, <2>1 DEF Playable
    <3> QED BY <1>3, <1>5, <2>1, <3>1 DEF Sends
  <2>2. CASE q = L + 1
    <3>1. PICK p \in 1..L : Sends(t, p, e.id)  BY <1>1, <1>3, <1>8, <2>2
    <3>2. p \in 1..(q - 1)  BY <2>2
    <3> QED BY <1>3, <2>2, <3>1, <3>2 DEF Sends
  <2> QED BY <1>4, <2>1, <2>2
<1>9. Playable(new)
  BY <1>3, <1>6, <1>7, <1>8 DEF Playable
<1> QED BY <1>1, <1>2, <1>3, <1>9

-----------------------------------------------------------------------------
(* flatten_multiplexed_trace *)

\* What the flattening has made of the first n frames.
States == [out : Seq(Entries), acks : SUBSET Nat]
Opened(r, n, s) ==
    /\ s \in States /\ Playable(s.out)
    /\ \A i \in 1..n : r[i].kind = "wrapped" =>
          r[i].outer \in s.acks /\ \E p \in 1..Len(s.out) : Sends(s.out, p, r[i].id)
    /\ \A p \in 1..Len(s.out) : s.out[p].kind = "send" => \E i \in 1..n : Wraps(r, i, s.out[p].id)

\* What is kept of a frame.
LEMMA KeptEntries ==
    ASSUME NEW e \in RawFrames
    PROVE  /\ e.kind = "wrapped" => Send(e) \in Entries
           /\ e.kind \in {"reply", "event", "ack", "rootReply"} => Received(e) \in Entries
  BY DEF RawFrames, Entries, Send, Received

\* The state stays one, whatever the frame.
LEMMA FlattenedStates ==
    ASSUME NEW e \in RawFrames, NEW s \in States
    PROVE  Flattened(s, e) \in States
<1>1. s.out \in Seq(Entries) /\ s.acks \in SUBSET Nat /\ e.outer \in Nat /\ e.kind \in RawKinds
      /\ s = [out |-> s.out, acks |-> s.acks]
  BY DEF States, RawFrames
<1>2. \A x \in Entries : Append(s.out, x) \in Seq(Entries)  BY <1>1, AppendProperties
<1>3. CASE e.kind = "wrapped"
  <2>1. Flattened(s, e) = [out |-> Append(s.out, Send(e)), acks |-> s.acks \cup {e.outer}]
    BY <1>1, <1>3 DEF Flattened, Keep
  <2> QED BY <1>1, <1>2, <1>3, <2>1, KeptEntries DEF States
<1>4. CASE e.kind # "wrapped"
  <2>1. Flattened(s, e) \in {s, [out |-> Append(s.out, Received(e)), acks |-> s.acks]}
        /\ (Flattened(s, e) # s => e.kind \in {"reply", "event", "ack", "rootReply"})
    BY <1>1, <1>4 DEF Flattened, Keep, RawKinds
  <2>2. Flattened(s, e) # s => [out |-> Append(s.out, Received(e)), acks |-> s.acks] \in States
    BY <1>1, <1>2, <2>1, KeptEntries DEF States
  <2> QED BY <2>1, <2>2
<1> QED BY <1>3, <1>4

\* One frame is flattened.
LEMMA OpensOne ==
    ASSUME NEW r, Recorded(r), NEW n \in 1..Len(r), NEW s, Opened(r, n - 1, s)
    PROVE  Opened(r, n, Flattened(s, r[n]))
<1>1. PICK L \in Nat : L = Len(r)  BY LenProperties DEF Recorded
<1>2. PICK e \in RawFrames : e = r[n]  BY <1>1, ElementOfSeq DEF Recorded
<1>3. PICK new : new = Flattened(s, e)  OBVIOUS
<1>4. s \in States /\ new \in States  BY <1>3, FlattenedStates DEF Opened
<1>5. /\ s.out \in Seq(Entries) /\ e.kind \in RawKinds /\ s = [out |-> s.out, acks |-> s.acks]
  BY <1>2, <1>4 DEF States, RawFrames
<1>6. PICK K \in Nat : K = Len(s.out)  BY <1>5, LenProperties
<1>7. /\ \A i \in 1..(n - 1) : i \in 1..n /\ i \in 1..L /\ i # n
      /\ \A i \in 1..n : i \in 1..(n - 1) \/ i = n
      /\ \A p \in 1..K : p \in 1..(K + 1)
      /\ \A p \in 1..(K + 1) : p \in 1..K \/ p = K + 1
      /\ K + 1 \in 1..(K + 1) /\ n \in 1..n /\ n \in 1..L
  BY <1>1, <1>6
<1>8. Playable(s.out)  BY DEF Opened
<1>9. \A i \in 1..(n - 1) : r[i].kind = "wrapped" =>
          r[i].outer \in s.acks /\ \E p \in 1..K : Sends(s.out, p, r[i].id)
  BY <1>6 DEF Opened
<1>10. \A p \in 1..K : s.out[p].kind = "send" => \E i \in 1..(n - 1) : Wraps(r, i, s.out[p].id)
  BY <1>6 DEF Opened
<1>11. CASE e.kind = "wrapped"
  <2>1. new = [out |-> Append(s.out, Send(e)), acks |-> s.acks \cup {e.outer}]
    BY <1>3, <1>5, <1>11 DEF Flattened, Keep
  <2>2. PICK x \in Entries : x = Send(e)  BY <1>11, KeptEntries
  <2>3. x.kind = "send" /\ x.id = e.id  BY <2>2 DEF Send
  <2>4. e.id # NoId  BY <1>1, <1>2, <1>7, <1>11 DEF Recorded
  <2>5. \A p \in 1..Len(s.out) : ~Sends(s.out, p, x.id)
    <3> SUFFICES ASSUME NEW p \in 1..K, Sends(s.out, p, x.id) PROVE FALSE
      BY <1>6
    <3>1. PICK i \in 1..(n - 1) : Wraps(r, i, e.id)  BY <1>10, <2>3 DEF Sends
    <3>2. i = n  BY <1>1, <1>2, <1>7, <1>11, <3>1 DEF Recorded
    <3> QED BY <1>7, <3>2
  <2>6. /\ Playable(new.out) /\ Len(new.out) = K + 1 /\ new.out[K + 1] = x
        /\ \A p \in 1..K : new.out[p] = s.out[p]
    <3>1. new.out = Append(s.out, x)  BY <2>1, <2>2
    <3>2. e.kind \in {"wrapped"} /\ x.kind # "reply"  BY <1>11, <2>3
    <3> QED BY <1>6, <1>8, <2>3, <2>4, <2>5, <3>1, <3>2, TraceGrows
  <2>7. ASSUME NEW i \in 1..n, r[i].kind = "wrapped"
        PROVE  r[i].outer \in new.acks /\ \E p \in 1..(K + 1) : Sends(new.out, p, r[i].id)
    <3>1. CASE i = n  BY <1>2, <1>7, <2>1, <2>3, <2>6, <3>1 DEF Sends
    <3>2. CASE i \in 1..(n - 1)
      <4>1. PICK p \in 1..K : Sends(s.out, p, r[i].id)  BY <1>9, <2>7, <3>2
      <4>2. Sends(new.out, p, r[i].id) /\ p \in 1..(K + 1)  BY <1>7, <2>6, <4>1 DEF Sends
      <4>3. r[i].outer \in new.acks  BY <1>9, <2>1, <2>7, <3>2
      <4> QED BY <4>2, <4>3
    <3> QED BY <1>7, <3>1, <3>2
  <2>8. ASSUME NEW p \in 1..(K + 1), new.out[p].kind = "send"
        PROVE  \E i \in 1..n : Wraps(r, i, new.out[p].id)
    <3>1. CASE p = K + 1  BY <1>2, <1>7, <1>11, <2>3, <2>6, <3>1 DEF Wraps
    <3>2. CASE p \in 1..K  BY <1>7, <1>10, <2>6, <2>8, <3>2
    <3> QED BY <1>7, <3>1, <3>2
  <2> QED BY <1>2, <1>3, <1>4, <2>6, <2>7, <2>8 DEF Opened
<1>12. CASE new = s /\ e.kind # "wrapped"
  <2>1. \A i \in 1..n : r[i].kind = "wrapped" => i \in 1..(n - 1)  BY <1>2, <1>7, <1>12
  <2>2. \A i \in 1..n : r[i].kind = "wrapped" =>
          r[i].outer \in new.acks /\ \E p \in 1..Len(new.out) : Sends(new.out, p, r[i].id)
    BY <1>6, <1>9, <1>12, <2>1
  <2>3. \A p \in 1..Len(new.out) : new.out[p].kind = "send" => \E i \in 1..n : Wraps(r, i, new.out[p].id)
    BY <1>6, <1>7, <1>10, <1>12
  <2> QED BY <1>2, <1>3, <1>4, <1>8, <1>12, <2>2, <2>3 DEF Opened
<1>13. CASE new # s /\ e.kind # "wrapped"
  <2>1. /\ new = [out |-> Append(s.out, Received(e)), acks |-> s.acks]
        /\ e.kind \in {"reply", "event", "rootReply"} \/ (e.kind = "ack" /\ e.id \notin s.acks)
    BY <1>3, <1>5, <1>13 DEF Flattened, Keep, RawKinds
  <2>2. e.kind # "ack"
    <3> SUFFICES ASSUME e.kind = "ack" PROVE FALSE
      OBVIOUS
    <3>1. PICK i \in 1..(n - 1) : r[i].kind = "wrapped" /\ r[i].outer = e.id
      BY <1>1, <1>2, <1>7 DEF Recorded
    <3> QED BY <1>9, <2>1, <3>1
  <2>3. PICK x \in Entries : x = Received(e)  BY <2>1, KeptEntries
  <2>4. /\ x.kind \in {"event", "reply"} /\ x.id = e.id /\ x.was = e.kind
        /\ x.kind = "reply" => e.kind \in {"reply", "rootReply"}
    BY <2>1, <2>2, <2>3 DEF Received
  <2>5. x.kind = "reply" => x.id # NoId  BY <1>1, <1>2, <1>7, <2>4 DEF Recorded
  <2>6. x.kind = "reply" /\ x.was # "rootReply" => \E p \in 1..Len(s.out) : Sends(s.out, p, x.id)
    <3> SUFFICES ASSUME e.kind = "reply" PROVE \E p \in 1..K : Sends(s.out, p, e.id)
      BY <1>6, <2>4
    <3>1. PICK i \in 1..(n - 1) : Wraps(r, i, e.id)  BY <1>1, <1>2, <1>7 DEF Recorded
    <3> QED BY <1>9, <3>1 DEF Wraps
  <2>7. /\ Playable(new.out) /\ Len(new.out) = K + 1 /\ new.out[K + 1] = x
        /\ \A p \in 1..K : new.out[p] = s.out[p]
    <3>1. new.out = Append(s.out, x)  BY <2>1, <2>3
    <3>2. x.kind # "send"  BY <2>4
    <3> QED BY <1>6, <1>8, <2>5, <2>6, <3>1, <3>2, TraceGrows
  <2>8. ASSUME NEW i \in 1..n, r[i].kind = "wrapped"
        PROVE  r[i].outer \in new.acks /\ \E p \in 1..(K + 1) : Sends(new.out, p, r[i].id)
    <3>1. i \in 1..(n - 1)  BY <1>2, <1>7, <1>13, <2>8
    <3>2. PICK p \in 1..K : Sends(s.out, p, r[i].id)  BY <1>9, <2>8, <3>1
    <3>3. Sends(new.out, p, r[i].id) /\ p \in 1..(K + 1)  BY <1>7, <2>7, <3>2 DEF Sends
    <3>4. r[i].outer \in new.acks  BY <1>9, <2>1, <2>8, <3>1
    <3> QED BY <3>3, <3>4
  <2>9. ASSUME NEW p \in 1..(K + 1), new.out[p].kind = "send"
        PROVE  \E i \in 1..n : Wraps(r, i, new.out[p].id)
    <3>1. p \in 1..K  BY <1>7, <2>4, <2>7, <2>9
    <3> QED BY <1>7, <1>10, <2>7, <2>9, <3>1
  <2> QED BY <1>2, <1>3, <1>4, <2>7, <2>8, <2>9 DEF Opened
<1> QED BY <1>11, <1>12, <1>13

\* A recording that makes sense is flattened to a trace that can be played.
LEMMA FlattenPlays ==
    ASSUME NEW r, Recorded(r)
    PROVE  Playable(Flatten(r))
<1> DEFINE e == [out |-> <<>>, acks |-> {}]
           step == [i \in 1..Len(r) |-> [s \in States |-> Flattened(s, r[i])]]
           Body(f) == [i \in 0..Len(r) |-> IF i = 0 THEN e ELSE Flattened(f[i - 1], r[i])]
           g == CHOOSE g : g = Body(g)
<1>1. PICK L \in Nat : L = Len(r)  BY LenProperties DEF Recorded
<1>2. \A i \in 1..L : r[i] \in RawFrames  BY <1>1, ElementOfSeq DEF Recorded
<1>3. e \in States  BY EmptySeq DEF States
<1>4. step \in [1..L -> [States -> States]]
  BY <1>1, <1>2, FlattenedStates
<1>5. \A i \in 1..L, s \in States : step[i][s] = Flattened(s, r[i])
  BY <1>1
<1>6. Flatten(r) = g[Len(r)].out
  BY Zenon DEF Flatten
<1>7. \A f : Body(f) = [i \in 0..L |-> IF i = 0 THEN e ELSE Flattened(f[i - 1], r[i])]
  BY <1>1
<1> HIDE DEF g, step, Body
<1>8. PICK f \in [0..L -> States] : f[0] = e /\ \A i \in 1..L : f[i] = step[i][f[i - 1]]
  <2>1. PICK v \in States : v = e  BY <1>3
  <2>2. Runs(L, States, v, step) # {}
    BY <1>1, <1>4, <2>1, RecursionExists DEF Steps
  <2>3. PICK f \in Runs(L, States, v, step) : TRUE  BY <2>2
  <2> QED BY <2>1, <2>3 DEF Runs
<1>9. f = Body(f)
  <2>1. \A i \in 1..L : i - 1 \in 0..L  BY <1>1
  <2>2. \A i \in 1..L : f[i] = Flattened(f[i - 1], r[i])  BY <1>5, <1>8, <2>1
  <2>3. \A i \in 0..L : i = 0 \/ i \in 1..L  BY <1>1
  <2>4. \A i \in 0..L : f[i] = IF i = 0 THEN e ELSE Flattened(f[i - 1], r[i])
    BY <2>2, <2>3, <1>8
  <2> QED BY <2>4, <1>8, <1>7
<1>10. g = Body(g)  BY <1>9 DEF g
<1>11. \A i \in 0..L : g[i] = IF i = 0 THEN e ELSE Flattened(g[i - 1], r[i])
  BY <1>10, <1>7
<1> DEFINE T == {n \in Nat : n <= L => Opened(r, n, g[n])}
<1>12. 0 \in T
  <2>1. g[0] = e  BY <1>1, <1>11
  <2>2. e.out = <<>> /\ Len(<<>>) = 0  BY EmptySeq
  <2>3. 1..0 = {}  OBVIOUS
  <2>4. Opened(r, 0, e)  BY <1>3, <2>2, <2>3, NothingPlayed DEF Opened
  <2> QED BY <2>1, <2>4
<1>13. ASSUME NEW n \in Nat, n \in T PROVE n + 1 \in T
  <2> SUFFICES ASSUME n + 1 <= L PROVE Opened(r, n + 1, g[n + 1])
    OBVIOUS
  <2>1. PICK j \in 1..Len(r) : j = n + 1 /\ j - 1 = n /\ j \in 0..L /\ j # 0  BY <1>1
  <2>2. Opened(r, j - 1, g[j - 1])  BY <1>13, <2>1
  <2>3. g[j] = Flattened(g[j - 1], r[j])  BY <1>11, <2>1
  <2>4. Opened(r, j, Flattened(g[j - 1], r[j]))  BY <2>2, OpensOne
  <2> QED BY <2>1, <2>3, <2>4
<1>14. L \in T
  <2> HIDE DEF T
  <2> QED BY <1>12, <1>13, SetInduction
<1>15. Opened(r, L, g[L])  BY <1>14
<1> QED BY <1>1, <1>6, <1>15 DEF Opened

-----------------------------------------------------------------------------
(* The recorder *)

AskedIn(r) == {i \in 1..Len(r) : r[i].kind \in {"wrapped", "root"}}

\* What is owed was asked for, and ids are handed out in order.
RecorderInv ==
    /\ Recorded(raw)
    /\ IsFiniteSet(AskedIn(raw)) /\ Cardinality(AskedIn(raw)) <= MaxRequests
    /\ nextId \in Nat \ {0} /\ nextId <= 2 * Cardinality(AskedIn(raw)) + 1
    /\ \A i \in 1..Len(raw) :
          raw[i].kind = "wrapped" => raw[i].id = HandId \/ raw[i].id < nextId
    /\ \A a \in owed :
          /\ a.kind \in {"ack", "reply", "rootReply"} /\ a.id \in RecordedIds
          /\ a.kind = "reply" => \E i \in 1..Len(raw) : Wraps(raw, i, a.id)
          /\ a.kind = "ack" => \E i \in 1..Len(raw) : raw[i].kind = "wrapped" /\ raw[i].outer = a.id

\* The requests the recorder counts against its bound.
LEMMA AskedAre ==
    ASSUME Recorded(raw)
    PROVE  Asked = Cardinality(AskedIn(raw))
<1>1. DOMAIN raw = 1..Len(raw)  BY LenProperties DEF Recorded
<1> QED BY <1>1 DEF Asked, AskedIn

\* One frame more.
Longer(r, e, new) ==
    /\ Len(r) \in Nat /\ Len(new) = Len(r) + 1 /\ new[Len(r) + 1] = e
    /\ \A i \in 1..Len(r) : new[i] = r[i] /\ i \in 1..Len(new)
    /\ \A i \in 1..Len(new) : i \in 1..Len(r) \/ i = Len(r) + 1
    /\ AskedIn(new) = IF e.kind \in {"wrapped", "root"} THEN AskedIn(r) \cup {Len(r) + 1}
                      ELSE AskedIn(r)
    /\ Len(r) + 1 \notin AskedIn(r)

\* Appending is that.
LEMMA OneMore ==
    ASSUME NEW r \in Seq(RawFrames), NEW e \in RawFrames
    PROVE  Longer(r, e, Append(r, e))
<1>0. PICK new : new = Append(r, e)  OBVIOUS
<1>1. PICK L \in Nat : L = Len(r)  BY LenProperties
<1>2. Len(new) = L + 1 /\ new[L + 1] = e /\ \A i \in 1..L : new[i] = r[i]
  BY <1>0, <1>1, AppendProperties
<1>3. /\ \A i \in 1..L : i \in 1..(L + 1) /\ i # L + 1
      /\ \A i \in 1..(L + 1) : i \in 1..L \/ i = L + 1
      /\ L + 1 \in 1..(L + 1)
  BY <1>1
<1>4. AskedIn(new) = IF e.kind \in {"wrapped", "root"} THEN AskedIn(r) \cup {L + 1} ELSE AskedIn(r)
  BY <1>1, <1>2, <1>3 DEF AskedIn
<1>5. L + 1 \notin AskedIn(r)  BY <1>1, <1>3 DEF AskedIn
<1> QED BY <1>0, <1>1, <1>2, <1>3, <1>4, <1>5 DEF Longer

\* A frame is read.
LEMMA ReadKept ==
    ASSUME RecorderInv, NEW e, e.kind \notin {"wrapped", "root"}, e \in RawFrames,
           e.kind \in {"reply", "rootReply", "ack"} => e.id # NoId,
           e.kind = "reply" => \E i \in 1..Len(raw) : Wraps(raw, i, e.id),
           e.kind = "ack" => \E i \in 1..Len(raw) : raw[i].kind = "wrapped" /\ raw[i].outer = e.id,
           raw' = Append(raw, e), nextId' = nextId, owed' \subseteq owed
    PROVE  RecorderInv'
<1>1. Recorded(raw) /\ raw \in Seq(RawFrames)  BY DEF RecorderInv, Recorded
<1>2. PICK new : new = raw'  OBVIOUS
<1>3. Recorded(new)  BY <1>1, <1>2, RecordingGrows
<1>4. /\ \A i \in 1..Len(raw) : new[i] = raw[i] /\ i \in 1..Len(new)
      /\ \A i \in 1..Len(new) : i \in 1..Len(raw) \/ i = Len(raw) + 1
      /\ new[Len(raw) + 1] = e /\ AskedIn(new) = AskedIn(raw)
  <2>1. new = Append(raw, e)  BY <1>2
  <2>2. Longer(raw, e, new)  BY <1>1, <2>1, OneMore
  <2> QED BY <2>2 DEF Longer
<1>5. \A i \in 1..Len(new) : new[i].kind = "wrapped" => new[i].id = HandId \/ new[i].id < nextId
  BY <1>4 DEF RecorderInv
<1>6. ASSUME NEW a \in owed'
      PROVE  /\ a.kind \in {"ack", "reply", "rootReply"} /\ a.id \in RecordedIds
             /\ a.kind = "reply" => \E i \in 1..Len(new) : Wraps(new, i, a.id)
             /\ a.kind = "ack" => \E i \in 1..Len(new) : new[i].kind = "wrapped" /\ new[i].outer = a.id
  <2>1. a \in owed  BY <1>6
  <2>2. a.kind \in {"ack", "reply", "rootReply"} /\ a.id \in RecordedIds  BY <2>1 DEF RecorderInv
  <2>3. ASSUME a.kind = "reply" PROVE \E i \in 1..Len(new) : Wraps(new, i, a.id)
    <3>1. PICK i \in 1..Len(raw) : Wraps(raw, i, a.id)  BY <2>1, <2>3 DEF RecorderInv
    <3> QED BY <1>4, <3>1 DEF Wraps
  <2>4. ASSUME a.kind = "ack"
        PROVE  \E i \in 1..Len(new) : new[i].kind = "wrapped" /\ new[i].outer = a.id
    <3>1. PICK i \in 1..Len(raw) : raw[i].kind = "wrapped" /\ raw[i].outer = a.id
      BY <2>1, <2>4 DEF RecorderInv
    <3> QED BY <1>4, <3>1
  <2> QED BY <2>2, <2>3, <2>4
<1>7. /\ IsFiniteSet(AskedIn(new)) /\ Cardinality(AskedIn(new)) <= MaxRequests
      /\ nextId' \in Nat \ {0} /\ nextId' <= 2 * Cardinality(AskedIn(new)) + 1
  BY <1>4 DEF RecorderInv
<1> QED BY <1>2, <1>3, <1>5, <1>6, <1>7 DEF RecorderInv

\* The ids that are left for one more request.
LEMMA IdsLeft ==
    ASSUME RecorderInv, Asked < MaxRequests
    PROVE  /\ nextId \in RecordedIds /\ nextId + 1 \in RecordedIds
           /\ nextId # HandId /\ HandId \in RecordedIds /\ nextId + 1 \in Nat
           /\ Cardinality(AskedIn(raw)) \in Nat /\ Cardinality(AskedIn(raw)) + 1 <= MaxRequests
           /\ nextId + 2 <= 2 * (Cardinality(AskedIn(raw)) + 1) + 1
<1>1. PICK c \in Nat : c = Cardinality(AskedIn(raw))  BY FS_CardinalityType DEF RecorderInv
<1>2. c < MaxRequests /\ MaxRequests \in Nat /\ nextId \in Nat \ {0} /\ nextId <= 2 * c + 1
  BY <1>1, AskedAre, RecorderConstants DEF RecorderInv
<1> QED BY <1>1, <1>2 DEF RecordedIds, HandId

\* A request is written down.
LEMMA AskKept ==
    ASSUME RecorderInv, Asked < MaxRequests, NEW e \in RawFrames,
           e.kind \in {"wrapped", "root"}, e.kind = "wrapped" => e.id # NoId,
           e.kind = "wrapped" => \A i \in 1..Len(raw) : ~Wraps(raw, i, e.id),
           raw' = Append(raw, e), nextId' \in {nextId + 1, nextId + 2},
           e.kind = "wrapped" => e.id = HandId \/ e.id < nextId',
           \A a \in owed' \ owed :
              /\ a.kind \in {"ack", "reply", "rootReply"} /\ a.id \in RecordedIds
              /\ a.kind = "reply" => e.kind = "wrapped" /\ e.id = a.id
              /\ a.kind = "ack" => e.kind = "wrapped" /\ e.outer = a.id
    PROVE  RecorderInv'
<1>1. Recorded(raw) /\ raw \in Seq(RawFrames)  BY DEF RecorderInv, Recorded
<1>2. PICK new : new = raw'  OBVIOUS
<1>3. Recorded(new)  BY <1>1, <1>2, RecordingGrows
<1>4. /\ Len(raw) \in Nat /\ Len(new) = Len(raw) + 1
      /\ \A i \in 1..Len(raw) : new[i] = raw[i] /\ i \in 1..Len(new)
      /\ \A i \in 1..Len(new) : i \in 1..Len(raw) \/ i = Len(raw) + 1
      /\ new[Len(raw) + 1] = e /\ AskedIn(new) = AskedIn(raw) \cup {Len(raw) + 1}
      /\ Len(raw) + 1 \notin AskedIn(raw)
  <2>1. new = Append(raw, e)  BY <1>2
  <2>2. Longer(raw, e, new)  BY <1>1, <2>1, OneMore
  <2> QED BY <2>2 DEF Longer
<1>5. Len(raw) + 1 \in 1..Len(new)  BY <1>4
<1>6. ASSUME NEW i \in 1..Len(new), new[i].kind = "wrapped"
      PROVE  new[i].id = HandId \/ new[i].id < nextId'
  <2>1. CASE i \in 1..Len(raw)
    <3>1. raw[i].id = HandId \/ raw[i].id < nextId  BY <1>4, <1>6, <2>1 DEF RecorderInv
    <3>2. raw[i].id \in Nat /\ nextId \in Nat
      <4>1. raw[i] \in RawFrames  BY <1>1, <2>1, ElementOfSeq
      <4> QED BY <4>1, RecorderConstants DEF RawFrames, RecorderInv, HandId
    <3> QED BY <1>4, <2>1, <3>1, <3>2
  <2>2. CASE i = Len(raw) + 1  BY <1>4, <1>6, <2>2
  <2> QED BY <1>4, <2>1, <2>2
<1>7. ASSUME NEW a \in owed'
      PROVE  /\ a.kind \in {"ack", "reply", "rootReply"} /\ a.id \in RecordedIds
             /\ a.kind = "reply" => \E i \in 1..Len(new) : Wraps(new, i, a.id)
             /\ a.kind = "ack" => \E i \in 1..Len(new) : new[i].kind = "wrapped" /\ new[i].outer = a.id
  <2>1. a.kind \in {"ack", "reply", "rootReply"} /\ a.id \in RecordedIds
    BY <1>7 DEF RecorderInv
  <2>2. ASSUME a.kind = "reply" PROVE \E i \in 1..Len(new) : Wraps(new, i, a.id)
    <3>1. CASE a \in owed
      <4>1. PICK i \in 1..Len(raw) : Wraps(raw, i, a.id)  BY <2>2, <3>1 DEF RecorderInv
      <4> QED BY <1>4, <4>1 DEF Wraps
    <3>2. CASE a \notin owed  BY <1>4, <1>5, <1>7, <2>2, <3>2 DEF Wraps
    <3> QED BY <3>1, <3>2
  <2>3. ASSUME a.kind = "ack"
        PROVE  \E i \in 1..Len(new) : new[i].kind = "wrapped" /\ new[i].outer = a.id
    <3>1. CASE a \in owed
      <4>1. PICK i \in 1..Len(raw) : raw[i].kind = "wrapped" /\ raw[i].outer = a.id
        BY <2>3, <3>1 DEF RecorderInv
      <4> QED BY <1>4, <4>1
    <3>2. CASE a \notin owed  BY <1>4, <1>5, <1>7, <2>3, <3>2
    <3> QED BY <3>1, <3>2
  <2> QED BY <2>1, <2>2, <2>3
<1>8. /\ IsFiniteSet(AskedIn(new)) /\ Cardinality(AskedIn(new)) <= MaxRequests
      /\ nextId' \in Nat \ {0} /\ nextId' <= 2 * Cardinality(AskedIn(new)) + 1
  <2>1. IsFiniteSet(AskedIn(raw))  BY DEF RecorderInv
  <2>2. IsFiniteSet(AskedIn(new)) /\ Cardinality(AskedIn(new)) = Cardinality(AskedIn(raw)) + 1
    BY <1>4, <2>1, FS_AddElement
  <2>3. PICK c \in Nat : /\ c = Cardinality(AskedIn(raw)) /\ c + 1 <= MaxRequests
                         /\ nextId + 2 <= 2 * (c + 1) + 1
    BY IdsLeft
  <2>4. nextId \in Nat  BY DEF RecorderInv
  <2> QED BY <2>2, <2>3, <2>4
<1> QED BY <1>2, <1>3, <1>6, <1>7, <1>8 DEF RecorderInv

\* The recorder keeps its recording orderly, whatever it does next.
LEMMA RecorderKept ==
    ASSUME RecorderInv, RecordNext
    PROVE  RecorderInv'
<1>0. HandId \in Nat /\ 0 \in 0..HandId /\ RecordedIds \subseteq 0..HandId
  BY RecorderConstants DEF HandId, RecordedIds
<1>1. ASSUME NEW k \in {"created", "committed", "event"}, Reads(Frame(k, NoId)), owed' \subseteq owed
      PROVE  RecorderInv'
  <2>1. PICK e : e = Frame(k, NoId)  OBVIOUS
  <2>2. e \in RawFrames /\ e.kind = k  BY <1>0, <2>1 DEF Frame, RawFrames, RawKinds, NoId
  <2>3. raw' = Append(raw, e) /\ nextId' = nextId  BY <1>1, <2>1 DEF Reads
  <2>4. e.kind \notin {"wrapped", "root", "reply", "rootReply", "ack"}  BY <2>2
  <2> QED BY <1>1, <2>2, <2>3, <2>4, ReadKept
<1>2. ASSUME NEW a \in owed, Answered(a) PROVE RecorderInv'
  <2>1. PICK e : e = Frame(a.kind, a.id)  OBVIOUS
  <2>2. a.kind \in {"ack", "reply", "rootReply"} /\ a.id \in RecordedIds  BY DEF RecorderInv
  <2>3. e \in RawFrames /\ e.kind = a.kind /\ e.id = a.id
    BY <1>0, <2>1, <2>2 DEF Frame, RawFrames, RawKinds, NoId
  <2>4. raw' = Append(raw, e) /\ nextId' = nextId /\ owed' \subseteq owed
    BY <1>2, <2>1 DEF Answered, Reads
  <2>5. e.id # NoId  BY <2>2, <2>3 DEF RecordedIds, NoId
  <2>6. e.kind \notin {"wrapped", "root"}  BY <2>2, <2>3
  <2>7. e.kind = "reply" => \E i \in 1..Len(raw) : Wraps(raw, i, e.id)
    BY <2>3 DEF RecorderInv
  <2>8. ASSUME e.kind = "ack"
        PROVE  \E i \in 1..Len(raw) : raw[i].kind = "wrapped" /\ raw[i].outer = e.id
    <3>1. a.kind = "ack" /\ a.id = e.id  BY <2>3, <2>8
    <3>2. \E i \in 1..Len(raw) : raw[i].kind = "wrapped" /\ raw[i].outer = a.id
      BY <3>1 DEF RecorderInv
    <3> QED BY <3>1, <3>2
  <2> QED BY <2>3, <2>4, <2>5, <2>6, <2>7, <2>8, ReadKept
<1>3. CASE TimesOut \/ WaitStep
  BY <1>3 DEF TimesOut, WaitStep, RecorderInv
<1>4. ASSUME NEW i \in 1..Len(raw), raw[i].kind = "wrapped"
      PROVE  raw[i].id = HandId \/ raw[i].id < nextId
  BY <1>4 DEF RecorderInv
<1>5. ASSUME NEW m \in Methods, CallStep(m) PROVE RecorderInv'
  <2>1. PICK e : e = [kind |-> "wrapped", id |-> nextId, outer |-> nextId + 1, method |-> m]  OBVIOUS
  <2>2. Asked < MaxRequests  BY <1>5 DEF CallStep
  <2>3. nextId \in RecordedIds /\ nextId + 1 \in RecordedIds /\ nextId # HandId /\ nextId + 1 \in Nat
    BY <2>2, IdsLeft
  <2>4. e \in RawFrames /\ e.kind = "wrapped" /\ e.id = nextId /\ e.outer = nextId + 1
    BY <1>0, <2>1, <2>3 DEF RawFrames, RawKinds
  <2>5. \A i \in 1..Len(raw) : ~Wraps(raw, i, e.id)
    <3> SUFFICES ASSUME NEW i \in 1..Len(raw), Wraps(raw, i, nextId) PROVE FALSE
      BY <2>4
    <3>1. nextId < nextId  BY <1>4, <2>3 DEF Wraps
    <3> QED BY <2>3, <3>1 DEF RecordedIds
  <2>6. raw' = Append(raw, e) /\ nextId' = nextId + 2  BY <1>5, <2>1 DEF CallStep
  <2>7. \A a \in owed' \ owed :
          /\ a.kind \in {"ack", "reply", "rootReply"} /\ a.id \in RecordedIds
          /\ a.kind = "reply" => e.kind = "wrapped" /\ e.id = a.id
          /\ a.kind = "ack" => e.kind = "wrapped" /\ e.outer = a.id
    BY <1>5, <2>3, <2>4 DEF CallStep
  <2>8. e.id # NoId /\ e.id < nextId'  BY <2>3, <2>4, <2>6 DEF RecordedIds, NoId
  <2> QED BY <2>2, <2>4, <2>5, <2>6, <2>7, <2>8, AskKept
<1>6. CASE RootStep
  <2>1. PICK e : e = [kind |-> "root", id |-> nextId, outer |-> NoId, method |-> NoMethod]  OBVIOUS
  <2>2. Asked < MaxRequests  BY <1>6 DEF RootStep
  <2>3. nextId \in RecordedIds  BY <2>2, IdsLeft
  <2>4. e \in RawFrames /\ e.kind = "root"
    BY <1>0, <2>1, <2>3 DEF RawFrames, RawKinds, NoId
  <2>5. raw' = Append(raw, e) /\ nextId' = nextId + 1  BY <1>6, <2>1 DEF RootStep
  <2>6. \A a \in owed' \ owed : a.kind = "rootReply" /\ a.id \in RecordedIds
    BY <1>6, <2>3 DEF RootStep
  <2> QED BY <2>2, <2>4, <2>5, <2>6, AskKept
<1>7. ASSUME NEW m \in Methods, HandWrappedStep(m) PROVE RecorderInv'
  <2>1. PICK e : e = [kind |-> "wrapped", id |-> HandId, outer |-> nextId, method |-> m]  OBVIOUS
  <2>2. Asked < MaxRequests  BY <1>7 DEF HandWrappedStep
  <2>3. nextId \in RecordedIds /\ HandId \in RecordedIds  BY <2>2, IdsLeft
  <2>4. e \in RawFrames /\ e.kind = "wrapped" /\ e.id = HandId /\ e.outer = nextId
    BY <1>0, <2>1, <2>3 DEF RawFrames, RawKinds, RecordedIds
  <2>5. \A i \in 1..Len(raw) : ~Wraps(raw, i, e.id)
    <3>1. DOMAIN raw = 1..Len(raw)  BY LenProperties DEF RecorderInv, Recorded
    <3> QED BY <1>7, <2>4, <3>1 DEF HandWrappedStep, Wraps
  <2>6. raw' = Append(raw, e) /\ nextId' = nextId + 1  BY <1>7, <2>1 DEF HandWrappedStep
  <2>7. \A a \in owed' \ owed :
          /\ a.kind \in {"ack", "reply", "rootReply"} /\ a.id \in RecordedIds
          /\ a.kind = "reply" => e.kind = "wrapped" /\ e.id = a.id
          /\ a.kind = "ack" => e.kind = "wrapped" /\ e.outer = a.id
    BY <1>7, <2>3, <2>4 DEF HandWrappedStep
  <2>8. e.id # NoId  BY <2>3, <2>4 DEF RecordedIds, NoId
  <2> QED BY <2>2, <2>4, <2>5, <2>6, <2>7, <2>8, AskKept
<1>8. CASE PageCreated  BY <1>1, <1>8 DEF PageCreated
<1>9. ASSUME NEW p \in DOMAIN pages, PageCommitted(p) PROVE RecorderInv'
  BY <1>1, <1>9 DEF PageCommitted
<1>10. CASE Happens  BY <1>1, <1>10 DEF Happens
<1> QED BY <1>2, <1>3, <1>5, <1>6, <1>7, <1>8, <1>9, <1>10 DEF RecordNext

-----------------------------------------------------------------------------
(* What a part of the trace delivers *)

PlayFrames == [entry : Nat, id : Nat]
ReceivedIn(from, to) == {p \in 1..Len(trace) : p \in from..to /\ trace[p].kind # "send"}
Maps == [RecordedIds -> Ids \cup {NoId}]

\* The entries of a list of frames.
EntriesOf(frames) == [k \in DOMAIN frames |-> frames[k].entry]

\* They are as many as the frames, in the same order.
LEMMA EntriesAre ==
    ASSUME NEW s \in Seq(PlayFrames)
    PROVE  /\ EntriesOf(s) \in Seq(Nat) /\ Len(EntriesOf(s)) = Len(s)
           /\ \A k \in 1..Len(s) : EntriesOf(s)[k] = s[k].entry
<1>1. PICK n \in Nat : n = Len(s) /\ DOMAIN s = 1..n  BY LenProperties
<1>2. \A k \in 1..n : s[k].entry \in Nat
  <2>1. \A k \in 1..n : s[k] \in PlayFrames  BY <1>1, ElementOfSeq
  <2> QED BY <2>1 DEF PlayFrames
<1>3. EntriesOf(s) = [k \in 1..n |-> s[k].entry]  BY <1>1 DEF EntriesOf
<1> QED BY <1>1, <1>2, <1>3

\* Lists of frames that are put together put their entries together.
LEMMA EntriesOfConcat ==
    ASSUME NEW s \in Seq(PlayFrames), NEW t \in Seq(PlayFrames)
    PROVE  EntriesOf(s \o t) = EntriesOf(s) \o EntriesOf(t)
<1>1. PICK m \in Nat, n \in Nat : m = Len(s) /\ n = Len(t)  BY LenProperties
<1>2. PICK u \in Seq(PlayFrames) : u = s \o t  BY ConcatProperties
<1>3. Len(u) = m + n /\ \A k \in 1..(m + n) : u[k] = IF k <= m THEN s[k] ELSE t[k - m]
  BY <1>1, <1>2, ConcatProperties
<1>4. PICK a \in Seq(Nat), b \in Seq(Nat), c \in Seq(Nat) :
        a = EntriesOf(s) /\ b = EntriesOf(t) /\ c = EntriesOf(u)
  BY EntriesAre
<1>5. /\ Len(a) = m /\ \A k \in 1..m : a[k] = s[k].entry
      /\ Len(b) = n /\ \A k \in 1..n : b[k] = t[k].entry
  BY <1>1, <1>4, EntriesAre
<1>6. Len(c) = m + n /\ \A k \in 1..(m + n) : c[k] = u[k].entry
  BY <1>3, <1>4, EntriesAre
<1>7. PICK d \in Seq(Nat) : d = a \o b  BY ConcatProperties
<1>8. Len(d) = m + n /\ \A k \in 1..(m + n) : d[k] = IF k <= m THEN a[k] ELSE b[k - m]
  <2>1. Len(d) = Len(a) + Len(b)  BY <1>7, ConcatProperties
  <2>2. \A k \in 1..(Len(a) + Len(b)) : d[k] = IF k <= Len(a) THEN a[k] ELSE b[k - Len(a)]
    BY ONLY <1>7, a \in Seq(Nat), b \in Seq(Nat), ConcatProperties
  <2>3. Len(a) = m /\ Len(b) = n  BY <1>5
  <2> QED BY <2>1, <2>2, <2>3
<1>9. ASSUME NEW k \in 1..(m + n) PROVE c[k] = d[k]
  <2>1. CASE k <= m
    <3>1. k \in 1..m  BY <2>1
    <3>2. c[k] = s[k].entry  BY <1>3, <1>6, <2>1
    <3>3. d[k] = s[k].entry  BY <1>5, <1>8, <2>1, <3>1
    <3> QED BY <3>2, <3>3
  <2>2. CASE ~(k <= m)
    <3>1. k - m \in 1..n  BY <2>2
    <3>2. c[k] = t[k - m].entry  BY <1>3, <1>6, <2>2
    <3>3. d[k] = t[k - m].entry  BY <1>5, <1>8, <2>2, <3>1
    <3> QED BY <3>2, <3>3
  <2> QED BY <2>1, <2>2
<1>10. Len(c) = Len(d) /\ \A k \in 1..Len(c) : c[k] = d[k]  BY <1>6, <1>8, <1>9
<1>11. c = d  BY <1>10, SeqEqual
<1> QED BY <1>2, <1>4, <1>7, <1>11

\* The places of the trace, as a list.
LEMMA PlacesAre ==
    ASSUME Playable(trace)
    PROVE  /\ [p \in DOMAIN trace |-> p] \in Seq(1..Len(trace))
           /\ Len([p \in DOMAIN trace |-> p]) = Len(trace) /\ Len(trace) \in Nat
           /\ \A i \in 1..Len(trace) : [p \in DOMAIN trace |-> p][i] = i
<1>1. PICK L \in Nat : L = Len(trace) /\ DOMAIN trace = 1..L  BY LenProperties DEF Playable
<1>2. [p \in DOMAIN trace |-> p] = [p \in 1..L |-> p]  BY <1>1
<1> QED BY <1>1, <1>2

\* What arrives are received frames of that part of the trace.
LEMMA ArrivalsAre ==
    ASSUME Playable(trace), NEW from, NEW to
    PROVE  Arrivals(from, to) \in Seq(ReceivedIn(from, to))
<1>1. PICK list \in Seq(1..Len(trace)) :
        /\ list = [p \in DOMAIN trace |-> p] /\ Len(list) = Len(trace)
        /\ \A i \in 1..Len(trace) : list[i] = i
  BY PlacesAre
<1>2. PICK P : P = {p \in from..to : trace[p].kind # "send"}  OBVIOUS
<1>3. Arrivals(from, to) = Excerpt(list, P)  BY <1>1, <1>2 DEF Arrivals
<1>4. Excerpt(list, P) \in Seq(Chosen(list, P))  BY ExcerptChooses
<1>5. Chosen(list, P) = ReceivedIn(from, to)
  BY <1>1, <1>2 DEF Chosen, ReceivedIn
<1> QED BY <1>3, <1>4, <1>5

\* Nothing arrives from an empty part.
LEMMA NothingArrives ==
    ASSUME Playable(trace), NEW from \in Nat, NEW to \in Nat, to < from
    PROVE  Arrivals(from, to) = <<>>
<1>1. PICK list \in Seq(1..Len(trace)) : list = [p \in DOMAIN trace |-> p]  BY PlacesAre
<1>2. PICK P : P = {p \in from..to : trace[p].kind # "send"}  OBVIOUS
<1>3. \A i \in 1..Len(list) : i \notin P  BY <1>2
<1> QED BY <1>1, <1>2, <1>3, ExcerptNowhere DEF Arrivals

\* Parts of the trace follow one another, with or without a request between.
LEMMA ArrivalsFollow ==
    ASSUME Playable(trace), NEW a \in Nat, NEW b \in Nat, NEW c \in Nat, a < b, b <= c + 1,
           \A p \in 1..Len(trace) : a < p /\ p < b => trace[p].kind = "send"
    PROVE  Arrivals(1, c) = Arrivals(1, a) \o Arrivals(b, c)
<1>1. PICK L \in Nat : L = Len(trace)  BY PlacesAre
<1>2. PICK list \in Seq(1..L) : list = [p \in DOMAIN trace |-> p] /\ Len(list) = L
  BY <1>1, PlacesAre
<1>3. PICK P, Q, R : /\ P = {p \in 1..a : trace[p].kind # "send"}
                     /\ Q = {p \in b..c : trace[p].kind # "send"}
                     /\ R = {p \in 1..c : trace[p].kind # "send"}
  OBVIOUS
<1>4. (\A i \in P : i \in Nat /\ i <= a) /\ (\A i \in Q : i \in Nat /\ a < i)  BY <1>3
<1>5. \A i \in 1..Len(list) : i \in R <=> i \in P \/ i \in Q
  <2> SUFFICES ASSUME NEW i \in 1..L PROVE i \in R <=> i \in P \/ i \in Q
    BY <1>2
  <2>1. CASE i <= a  BY <1>3, <2>1
  <2>2. CASE a < i /\ i < b  BY <1>1, <1>3, <2>2
  <2>3. CASE a < i /\ b <= i  BY <1>3, <2>3
  <2> QED BY <2>1, <2>2, <2>3
<1>6. Excerpt(list, R) = Excerpt(list, P) \o Excerpt(list, Q)
  BY <1>4, <1>5, ExcerptSplits
<1>7. Arrivals(1, c) = Excerpt(list, R)  BY <1>2, <1>3 DEF Arrivals
<1>8. Arrivals(1, a) = Excerpt(list, P)  BY <1>2, <1>3 DEF Arrivals
<1>9. Arrivals(b, c) = Excerpt(list, Q)  BY <1>2, <1>3 DEF Arrivals
<1> QED BY <1>6, <1>7, <1>8, <1>9

\* What the replay makes of them.
LEMMA RewrittenAre ==
    ASSUME Playable(trace), NEW q \in 1..Len(trace), NEW map \in Maps
    PROVE  Rewritten(q, map) \in PlayFrames /\ Rewritten(q, map).entry = q
<1>1. trace[q] \in Entries  BY ElementOfSeq DEF Playable
<1>2. trace[q].id \in 0..HandId  BY <1>1 DEF Entries
<1>3. HandId \in Nat /\ MaxCalls \in Nat  BY RecorderConstants, ReplayConstants DEF HandId
<1>4. trace[q].kind = "reply" => map[trace[q].id] \in Nat
  <2>1. trace[q].kind = "reply" => trace[q].id # 0  BY DEF Playable, NoId
  <2>2. trace[q].kind = "reply" => trace[q].id \in RecordedIds  BY <1>2, <1>3, <2>1 DEF RecordedIds
  <2> QED BY <1>3, <2>2 DEF Maps, Ids, NoId
<1>5. PICK L \in Nat : L = Len(trace)  BY PlacesAre
<1>6. q \in Nat  BY <1>5
<1>7. trace[q].id \in Nat  BY <1>2, <1>3
<1> QED BY <1>4, <1>6, <1>7 DEF Rewritten, PlayFrames

\* What a part of the trace delivers are its received frames, renumbered.
LEMMA ReceivesAre ==
    ASSUME Playable(trace), NEW from, NEW to, NEW map \in Maps
    PROVE  /\ Receives(from, to, map) \in Seq(PlayFrames)
           /\ EntriesOf(Receives(from, to, map)) = Arrivals(from, to)
           /\ \A k \in 1..Len(Receives(from, to, map)) :
                 \E q \in ReceivedIn(from, to) : Receives(from, to, map)[k] = Rewritten(q, map)
<1>1. PICK kept \in Seq(ReceivedIn(from, to)) : kept = Arrivals(from, to)  BY ArrivalsAre
<1>2. PICK N \in Nat : N = Len(kept) /\ DOMAIN kept = 1..N  BY LenProperties
<1>3. \A k \in 1..N : kept[k] \in ReceivedIn(from, to)  BY <1>2, ElementOfSeq
<1>4. \A q \in ReceivedIn(from, to) : Rewritten(q, map) \in PlayFrames /\ Rewritten(q, map).entry = q
  <2>1. \A q \in ReceivedIn(from, to) : q \in 1..Len(trace)  BY DEF ReceivedIn
  <2> QED BY <2>1, RewrittenAre
<1>5. PICK got0 : got0 = Receives(from, to, map)  OBVIOUS
<1>6. got0 = [k \in 1..N |-> Rewritten(kept[k], map)]  BY <1>1, <1>2, <1>5 DEF Receives
<1>7. \A k \in 1..N : Rewritten(kept[k], map) \in PlayFrames /\ Rewritten(kept[k], map).entry = kept[k]
  BY <1>3, <1>4
<1>8. got0 \in Seq(PlayFrames) /\ Len(got0) = N /\ \A k \in 1..N : got0[k] = Rewritten(kept[k], map)
  BY <1>6, <1>7
<1>9. EntriesOf(got0) = kept
  <2>1. PICK a : a = EntriesOf(got0)  OBVIOUS
  <2>2. a \in Seq(Nat) /\ Len(a) = N /\ \A k \in 1..N : a[k] = got0[k].entry
    BY <1>8, <2>1, EntriesAre
  <2>3. \A k \in 1..N : a[k] = kept[k]  BY <1>7, <1>8, <2>2
  <2>4. kept \in Seq(Nat)
    <3>1. \A k \in 1..N : kept[k] \in Nat
      <4>1. \A k \in 1..N : a[k] \in Nat  BY <2>2, ElementOfSeq
      <4> QED BY <2>3, <4>1
    <3>2. kept = [k \in 1..N |-> kept[k]]  BY <1>2, LenProperties
    <3> QED BY <3>1, <3>2
  <2>5. Len(a) = Len(kept) /\ \A k \in 1..Len(a) : a[k] = kept[k]  BY <1>2, <2>2, <2>3
  <2> QED BY <2>1, <2>2, <2>4, <2>5, SeqEqual
<1>10. \A k \in 1..N : \E q \in ReceivedIn(from, to) : got0[k] = Rewritten(q, map)
  BY <1>3, <1>8
<1> QED BY <1>1, <1>5, <1>8, <1>9, <1>10

\* The last of the received entries after a request is well defined.
LEMMA LeadingEndIs ==
    ASSUME Playable(trace), NEW p \in 1..Len(trace)
    PROVE  /\ LeadingEnd(p) \in p..Len(trace)
           /\ \A q \in (p + 1)..LeadingEnd(p) : trace[q].kind # "send"
<1>1. PICK L \in Nat : L = Len(trace)  BY PlacesAre
<1>2. PICK T : T = {e \in p..L : e = L \/ trace[e + 1].kind = "send"}  OBVIOUS
<1>3. T \in SUBSET Nat /\ T # {}
  <2>1. L \in T  BY <1>1, <1>2
  <2> QED BY <1>1, <1>2, <2>1
<1>4. PICK e \in T : \A y \in T : e <= y  BY <1>3, LeastNumber
<1>5. \A q \in (p + 1)..e : trace[q].kind # "send"
  <2> SUFFICES ASSUME NEW q \in (p + 1)..e, trace[q].kind = "send" PROVE FALSE
    OBVIOUS
  <2>1. e \in p..L  BY <1>2
  <2>2. q - 1 \in p..L /\ (q - 1) + 1 = q /\ q - 1 < e  BY <1>1, <2>1
  <2>3. q - 1 \in T  BY <1>2, <2>2
  <2>4. e <= q - 1  BY <1>4, <2>3
  <2> QED BY <1>1, <2>1, <2>2, <2>4
<1>6. /\ e \in p..Len(trace)
      /\ \A q \in (p + 1)..e : trace[q].kind # "send"
      /\ e = Len(trace) \/ trace[e + 1].kind = "send"
  BY <1>1, <1>2, <1>5
<1> QED BY <1>6 DEF LeadingEnd

-----------------------------------------------------------------------------
(* The replay *)

\* Unless a request was skipped, a reply of the page bears the id of the call
\* that was matched with its request.
Own(entry, id) ==
    (trace[entry].kind = "reply" /\ ~Stray(entry) /\ Skipped = {})
        => id \in Ids /\ matched[id] # NoEntry /\ IsReplyTo(entry, matched[id])

ReplayTypes ==
    /\ Playable(trace) /\ front \in 0..Len(trace) /\ loaded \in BOOLEAN
    /\ pending \in Seq(PlayFrames) /\ got \in Seq(PlayFrames)
    /\ idMap \in Maps /\ matched \in [Ids -> 0..front] /\ DOMAIN answer = Ids
    /\ called \in [Ids -> Methods \cup {NoMethod}]

MatchesMapped ==
    \A i \in Ids :
        /\ called[i] = NoMethod => matched[i] = NoEntry
        /\ matched[i] # NoEntry => /\ trace[matched[i]].kind = "send"
                                   /\ idMap[trace[matched[i]].id] = i

AnswersOwn ==
    /\ \A k \in 1..Len(pending) : Own(pending[k].entry, pending[k].id)
    /\ \A i \in Ids : answer[i] # NoEntry => trace[answer[i]].kind = "reply" /\ Own(answer[i], i)

\* Before the trace is loaded there is nothing to replay; after, no recording.
ReplayPhases ==
    /\ loaded => waiting = Done
    /\ ~loaded => /\ RecorderInv /\ trace = <<>> /\ front = 0
                  /\ got = <<>> /\ pending = <<>> /\ \A i \in Ids : answer[i] = NoEntry

ReplayInv == ReplayTypes /\ MatchesMapped /\ AnswersOwn /\ ReplayPhases /\ NothingDropped

\* The property, in terms of these lists.
LEMMA NothingDroppedIs == NothingDropped <=> EntriesOf(Delivered) = Arrivals(1, front)
  BY DEF NothingDropped, EntriesOf

\* It holds of a trace nothing of which has gone by.
LEMMA NothingGone ==
    Playable(trace) /\ front = 0 /\ got = <<>> /\ pending = <<>> => NothingDropped
<1> SUFFICES ASSUME Playable(trace), front = 0, got = <<>>, pending = <<>> PROVE NothingDropped
  OBVIOUS
<1>1. Delivered = <<>>  BY DEF Delivered
<1>2. EntriesOf(<<>>) = <<>>
  <2>1. <<>> \in Seq(PlayFrames) /\ Len(<<>>) = 0  BY EmptySeq
  <2>2. EntriesOf(<<>>) \in Seq(Nat) /\ Len(EntriesOf(<<>>)) = 0  BY <2>1, EntriesAre
  <2> QED BY <2>2, EmptySeq
<1>3. Arrivals(1, 0) = <<>>  BY NothingArrives
<1> QED BY <1>1, <1>2, <1>3, NothingDroppedIs

\* The recorder finishes and its trace is loaded.
LEMMA LoadKept ==
    ASSUME ReplayInv, Load
    PROVE  ReplayInv'
<1>1. ~loaded
  <2>1. Idle # Done  BY DEF Idle, Done, Wait
  <2> QED BY <2>1 DEF ReplayInv, ReplayPhases, Load
<1>2. RecorderInv /\ front = 0 /\ got = <<>> /\ pending = <<>> /\ \A i \in Ids : answer[i] = NoEntry
  BY <1>1 DEF ReplayInv, ReplayPhases
<1>3. Playable(trace')  BY <1>2, FlattenPlays DEF Load, RecorderInv
<1>4. /\ front' = 0 /\ got' = <<>> /\ pending' = <<>> /\ loaded' = TRUE /\ waiting' = Done
      /\ idMap' = idMap /\ matched' = matched /\ called' = called /\ answer' = answer
  BY <1>2 DEF Load
<1>5. \A i \in Ids : matched[i] = NoEntry
  BY <1>2 DEF ReplayInv, ReplayTypes, NoEntry
<1>6. ReplayTypes'
  <2>1. PICK L \in Nat : L = Len(trace')  BY <1>3, LenProperties DEF Playable
  <2>2. front' \in 0..Len(trace')  BY <1>4, <2>1
  <2> QED BY <1>2, <1>3, <1>4, <2>2 DEF ReplayInv, ReplayTypes
<1>7. MatchesMapped'  BY <1>4, <1>5 DEF MatchesMapped
<1>8. AnswersOwn'
  <2>1. Len(pending') = 0  BY <1>4
  <2> QED BY <1>2, <1>4, <2>1 DEF AnswersOwn
<1>9. ReplayPhases'  BY <1>4 DEF ReplayPhases
<1>10. NothingDropped'
  <2>1. (Playable(trace) /\ front = 0 /\ got = <<>> /\ pending = <<>> => NothingDropped)'
    BY NothingGone, PTL
  <2>2. (Playable(trace))'  BY <1>3 DEF Playable, Sends
  <2> QED BY <1>4, <2>1, <2>2
<1> QED BY <1>6, <1>7, <1>8, <1>9, <1>10 DEF ReplayInv

\* Recording goes on.
LEMMA RecordingKept ==
    ASSUME ReplayInv, RecordNext,
           UNCHANGED <<trace, loaded, front, pending, idMap, closed, called, matched, got, answer>>
    PROVE  ReplayInv'
<1>1. ~loaded
  <2>1. Idle # Done  BY DEF Idle, Done, Wait
  <2>2. waiting # Done
    BY <2>1 DEF RecordNext, PageCreated, PageCommitted, Answered, Happens, TimesOut, CallStep,
                HandWrappedStep, RootStep, WaitStep, Reads
  <2> QED BY <2>2 DEF ReplayInv, ReplayPhases
<1>2. RecorderInv'  BY <1>1, RecorderKept DEF ReplayInv, ReplayPhases
<1>3. ReplayTypes' /\ MatchesMapped'  BY DEF ReplayInv, ReplayTypes, MatchesMapped
<1>4. AnswersOwn'
  BY DEF ReplayInv, AnswersOwn, Own, Stray, Skipped, SendsIn, IsReplyTo
<1>5. ReplayPhases'  BY <1>1, <1>2 DEF ReplayInv, ReplayPhases
<1>6. NothingDropped'
  BY DEF ReplayInv, NothingDropped, Delivered, Arrivals
<1> QED BY <1>3, <1>4, <1>5, <1>6 DEF ReplayInv

\* What is already queued keeps its owner when another call is matched.
LEMMA OwnKept ==
    ASSUME ReplayInv, trace' = trace, NEW e \in Nat, front <= e, front' = e,
           NEW i \in Ids, matched[i] = NoEntry, NEW p, p > front,
           matched' = [matched EXCEPT ![i] = p]
    PROVE  /\ Skipped' = {} => Skipped = {}
           /\ \A entry, id : Own(entry, id) => (Own(entry, id))'
<1>1. matched \in [Ids -> 0..front] /\ front \in Nat
  <2>1. PICK L \in Nat : L = Len(trace)  BY PlacesAre DEF ReplayInv, ReplayTypes
  <2> QED BY <2>1 DEF ReplayInv, ReplayTypes
<1>2. ASSUME Skipped' = {} PROVE Skipped = {}
  <2> SUFFICES ASSUME NEW x \in Skipped PROVE FALSE
    OBVIOUS
  <2>1. x \in SendsIn(trace) /\ x <= front /\ \A j \in Ids : matched[j] # x  BY DEF Skipped
  <2>2. x \in Nat
    <3>1. PICK L \in Nat : L = Len(trace) /\ DOMAIN trace = 1..L
      BY LenProperties DEF ReplayInv, ReplayTypes, Playable
    <3> QED BY <2>1, <3>1 DEF SendsIn
  <2>3. x <= front' /\ x # p  BY <1>1, <2>1, <2>2
  <2>4. \A j \in Ids : matched'[j] # x  BY <1>1, <2>1, <2>3
  <2>5. x \in Skipped'  BY <2>1, <2>3, <2>4 DEF Skipped
  <2> QED BY <1>2, <2>5
<1>3. ASSUME NEW entry, NEW id, Own(entry, id) PROVE (Own(entry, id))'
  <2> SUFFICES ASSUME trace[entry].kind = "reply", ~Stray(entry), Skipped' = {}
               PROVE  id \in Ids /\ matched'[id] # NoEntry /\ (IsReplyTo(entry, matched[id]))'
    BY DEF Own, Stray
  <2>1. id \in Ids /\ matched[id] # NoEntry /\ IsReplyTo(entry, matched[id])
    BY <1>2, <1>3 DEF Own
  <2>2. matched'[id] = matched[id]  BY <1>1, <2>1
  <2> QED BY <2>1, <2>2 DEF IsReplyTo
<1> QED BY <1>2, <1>3

\* However four lists are put together, the result is the same.
Regroups(a, b, c, d) == a \o ((b \o c) \o d) = ((a \o b) \o c) \o d

\* It is.
LEMMA Regrouped ==
    ASSUME NEW S, NEW a \in Seq(S), NEW b \in Seq(S), NEW c \in Seq(S), NEW d \in Seq(S)
    PROVE  Regroups(a, b, c, d)
  BY DEF Regroups

\* The elements of one list are elements of one of the two others.
Joins(u, s, t) ==
    \A k \in 1..Len(u) : (\E a \in 1..Len(s) : u[k] = s[a]) \/ (\E b \in 1..Len(t) : u[k] = t[b])

\* So it is with a list and the two it was put together from.
LEMMA ElementsOfConcat ==
    ASSUME NEW S, NEW s \in Seq(S), NEW t \in Seq(S)
    PROVE  Joins(s \o t, s, t)
<1>0. PICK u : u = s \o t  OBVIOUS
<1> SUFFICES ASSUME NEW k \in 1..Len(u)
             PROVE  (\E a \in 1..Len(s) : u[k] = s[a]) \/ (\E b \in 1..Len(t) : u[k] = t[b])
  BY <1>0 DEF Joins
<1>1. PICK m \in Nat, n \in Nat : m = Len(s) /\ n = Len(t)  BY LenProperties
<1>2. k \in 1..(m + n) /\ u[k] = IF k <= m THEN s[k] ELSE t[k - m]
  BY <1>0, <1>1, ConcatProperties
<1>3. CASE k <= m
  <2>1. k \in 1..m  BY <1>2, <1>3
  <2> QED BY <1>1, <1>2, <1>3, <2>1
<1>4. CASE ~(k <= m)
  <2>1. k - m \in 1..n  BY <1>2, <1>4
  <2> QED BY <1>1, <1>2, <1>4, <2>1
<1> QED BY <1>3, <1>4

\* A call is matched with a request of the trace.
LEMMA SendKept ==
    ASSUME ReplayInv, NEW i \in Ids, NEW m \in Methods, ReplaySend(i, m)
    PROVE  ReplayInv'
<1>1. PICK p \in Positions :
        /\ Matches(p, m)
        /\ matched' = [matched EXCEPT ![i] = p]
        /\ idMap' = Mapped(p, i)
        /\ pending' = pending \o Receives(front + 1, p - 1, idMap) \o Receives(p + 1, LeadingEnd(p), idMap')
        /\ front' = Reached(p)
  BY DEF ReplaySend
<1>2. /\ Playable(trace) /\ front \in 0..Len(trace)
      /\ pending \in Seq(PlayFrames) /\ got \in Seq(PlayFrames) /\ idMap \in Maps
      /\ matched \in [Ids -> 0..front] /\ called \in [Ids -> Methods \cup {NoMethod}]
  BY DEF ReplayInv, ReplayTypes
<1>3. PICK L \in Nat : L = Len(trace) /\ DOMAIN trace = 1..L  BY <1>2, LenProperties DEF Playable
<1>4. front \in 0..L /\ p \in 1..L /\ front < p /\ trace[p].kind = "send"
  BY <1>1, <1>2, <1>3 DEF Matches
<1>5. PICK e \in p..L : e = LeadingEnd(p) /\ \A q \in (p + 1)..e : trace[q].kind # "send"
  BY <1>2, <1>3, <1>4, LeadingEndIs
<1>6. /\ trace' = trace /\ loaded' = loaded /\ got' = got /\ answer' = answer /\ waiting' = waiting
      /\ loaded /\ called' = [called EXCEPT ![i] = m] /\ called[i] = NoMethod
  BY DEF ReplaySend, Calls, recorderVars
<1>7. matched[i] = NoEntry  BY <1>6 DEF ReplayInv, MatchesMapped
<1>8. front' = e  BY <1>1, <1>5 DEF Reached
<1>9. trace[p].id \in RecordedIds
  <2>1. trace[p] \in Entries  BY <1>2, <1>3, <1>4, ElementOfSeq DEF Playable
  <2>2. trace[p].id # NoId  BY <1>2, <1>3, <1>4 DEF Playable
  <2>3. HandId \in Nat  BY RecorderConstants DEF HandId
  <2> QED BY <2>1, <2>2, <2>3 DEF Entries, RecordedIds, NoId
<1>10. PICK map \in Maps : map = idMap' /\ map = [idMap EXCEPT ![trace[p].id] = i]
  BY <1>1, <1>2, <1>9 DEF Mapped, Maps
<1>11. /\ Skipped' = {} => Skipped = {}
       /\ \A entry, id : Own(entry, id) => (Own(entry, id))'
  <2>1. e \in Nat /\ front <= e /\ p > front  BY <1>3, <1>4, <1>5
  <2> QED BY <1>1, <1>6, <1>7, <1>8, <2>1, OwnKept
<1>12. \A j \in Ids : matched'[j] = IF j = i THEN p ELSE matched[j]  BY <1>1, <1>2
<1>13. ASSUME NEW j \in Ids, matched'[j] # NoEntry
       PROVE  /\ matched'[j] \in 1..e /\ trace[matched'[j]].kind = "send"
              /\ map[trace[matched'[j]].id] = j
              /\ j # i => matched'[j] <= front /\ idMap[trace[matched'[j]].id] = j
  <2>1. CASE j = i
    <3>1. map[trace[p].id] = i  BY <1>2, <1>9, <1>10 DEF Maps
    <3> QED BY <1>4, <1>5, <1>12, <2>1, <3>1
  <2>2. CASE j # i
    <3>1. PICK x : x = matched[j] /\ x = matched'[j]  BY <1>12, <2>2
    <3>2. x \in 1..front /\ x \in 1..L /\ x # p
      <4>1. x \in 0..front  BY <1>2, <3>1
      <4>2. x # 0  BY <1>13, <3>1 DEF NoEntry
      <4> QED BY <1>3, <1>4, <4>1, <4>2
    <3>3. trace[x].kind = "send" /\ idMap[trace[x].id] = j
      BY <1>13, <3>1 DEF ReplayInv, MatchesMapped
    <3>4. trace[x].id # trace[p].id
      BY <1>2, <1>3, <1>4, <3>2, <3>3 DEF Playable, Sends
    <3>5. trace[x].id \in RecordedIds
      <4>1. trace[x] \in Entries  BY <1>2, <1>3, <3>2, ElementOfSeq DEF Playable
      <4>2. trace[x].id # NoId  BY <1>2, <1>3, <3>2, <3>3 DEF Playable
      <4>3. HandId \in Nat  BY RecorderConstants DEF HandId
      <4> QED BY <4>1, <4>2, <4>3 DEF Entries, RecordedIds, NoId
    <3>6. map[trace[x].id] = j  BY <1>2, <1>10, <3>3, <3>4, <3>5 DEF Maps
    <3>7. x \in 1..e /\ x <= front  BY <1>3, <1>4, <1>5, <3>2
    <3> QED BY <3>1, <3>3, <3>6, <3>7
  <2> QED BY <2>1, <2>2
<1>14. MatchesMapped'
  <2>1. NoMethod # m  BY RecorderConstants
  <2>2. \A j \in Ids : called'[j] = NoMethod => matched'[j] = NoEntry
    BY <1>2, <1>6, <1>12, <2>1 DEF ReplayInv, MatchesMapped
  <2> QED BY <1>6, <1>10, <1>13, <2>2 DEF MatchesMapped
<1>15. PICK A \in Seq(PlayFrames), B \in Seq(PlayFrames) :
         /\ A = Receives(front + 1, p - 1, idMap) /\ EntriesOf(A) = Arrivals(front + 1, p - 1)
         /\ B = Receives(p + 1, e, map) /\ EntriesOf(B) = Arrivals(p + 1, e)
  BY <1>2, ReceivesAre
<1>16. /\ \A k \in 1..Len(A) : \E q \in ReceivedIn(front + 1, p - 1) : A[k] = Rewritten(q, idMap)
       /\ \A k \in 1..Len(B) : \E q \in ReceivedIn(p + 1, e) : B[k] = Rewritten(q, map)
  <2>1. \A k \in 1..Len(A) : \E q \in ReceivedIn(front + 1, p - 1) : A[k] = Rewritten(q, idMap)
    <3>1. PICK table \in Maps : table = idMap  BY <1>2
    <3>2. PICK from, to : from = front + 1 /\ to = p - 1  OBVIOUS
    <3>3. A = Receives(from, to, table)  BY <1>15, <3>1, <3>2
    <3>4. \A k \in 1..Len(A) : \E q \in ReceivedIn(from, to) : A[k] = Rewritten(q, table)
      BY <1>2, <3>3, ReceivesAre
    <3> QED BY <3>1, <3>2, <3>4
  <2>2. \A k \in 1..Len(B) : \E q \in ReceivedIn(p + 1, e) : B[k] = Rewritten(q, map)
    <3>1. PICK from : from = p + 1  OBVIOUS
    <3>2. B = Receives(from, e, map)  BY <1>15, <3>1
    <3>3. \A k \in 1..Len(B) : \E q \in ReceivedIn(from, e) : B[k] = Rewritten(q, map)
      BY <1>2, <3>2, ReceivesAre
    <3> QED BY <3>1, <3>3
  <2> QED BY <2>1, <2>2
<1>17. PICK U \in Seq(PlayFrames), W \in Seq(PlayFrames) :
         U = pending \o A /\ W = U \o B /\ W = pending'
  <2>1. pending' = (pending \o A) \o B  BY <1>1, <1>5, <1>10, <1>15
  <2> QED BY <1>2, <2>1, ConcatProperties
<1>18. NothingDropped'
  <2>1. PICK a \in Seq(Nat), b \in Seq(Nat), c \in Seq(Nat), d \in Seq(Nat) :
          a = EntriesOf(got) /\ b = EntriesOf(pending) /\ c = EntriesOf(A) /\ d = EntriesOf(B)
    BY <1>2, EntriesAre
  <2>2. EntriesOf(got \o pending) = a \o b  BY <1>2, <2>1, EntriesOfConcat
  <2>3. EntriesOf(got \o W) = a \o ((b \o c) \o d)
    <3>1. EntriesOf(U) = b \o c  BY <1>2, <1>17, <2>1, EntriesOfConcat
    <3>2. EntriesOf(W) = EntriesOf(U) \o d  BY <1>17, <2>1, EntriesOfConcat
    <3>3. EntriesOf(got \o W) = a \o EntriesOf(W)  BY <1>2, <2>1, EntriesOfConcat
    <3> QED BY <3>1, <3>2, <3>3
  <2>4. a \o b = Arrivals(1, front)
    BY <2>2, NothingDroppedIs DEF ReplayInv, Delivered
  <2>5. Arrivals(1, p - 1) = Arrivals(1, front) \o c
    <3>1. front \in Nat /\ front + 1 \in Nat /\ p - 1 \in Nat /\ front < front + 1
          /\ front + 1 <= (p - 1) + 1 /\ \A x \in 1..Len(trace) : ~(front < x /\ x < front + 1)
      BY <1>3, <1>4
    <3>2. Arrivals(1, p - 1) = Arrivals(1, front) \o Arrivals(front + 1, p - 1)
      BY <1>2, <3>1, ArrivalsFollow
    <3> QED BY <1>15, <2>1, <3>2
  <2>6. Arrivals(1, e) = Arrivals(1, p - 1) \o d
    <3>1. p - 1 \in Nat /\ p + 1 \in Nat /\ e \in Nat /\ p - 1 < p + 1 /\ p + 1 <= e + 1
      BY <1>3, <1>4, <1>5
    <3>2. \A x \in 1..Len(trace) : p - 1 < x /\ x < p + 1 => trace[x].kind = "send"
      BY SMTT(30), <1>3, <1>4
    <3>3. Arrivals(1, e) = Arrivals(1, p - 1) \o Arrivals(p + 1, e)
      BY <1>2, <3>1, <3>2, ArrivalsFollow
    <3> QED BY <1>15, <2>1, <3>3
  <2>7. a \o ((b \o c) \o d) = ((a \o b) \o c) \o d
    <3>1. Regroups(a, b, c, d)  BY Regrouped
    <3> QED BY <3>1 DEF Regroups
  <2>8. EntriesOf(got \o W) = Arrivals(1, e)  BY <2>3, <2>4, <2>5, <2>6, <2>7
  <2>9. Delivered' = got \o W  BY <1>6, <1>17 DEF Delivered
  <2>10. (Arrivals(1, front))' = Arrivals(1, e)  BY <1>6, <1>8 DEF Arrivals
  <2>11. (NothingDropped <=> EntriesOf(Delivered) = Arrivals(1, front))'
    BY NothingDroppedIs, PTL
  <2>12. (EntriesOf(Delivered))' = EntriesOf(got \o W)  BY <2>9 DEF EntriesOf
  <2> QED BY <2>8, <2>10, <2>11, <2>12
<1>19. ASSUME NEW q \in 1..e, NEW table \in Maps,
              \A j \in Ids : matched'[j] # NoEntry /\ matched'[j] < q
                               => table[trace[matched'[j]].id] = j
       PROVE  (Own(q, Rewritten(q, table).id))'
  <2>1. PICK id : id = Rewritten(q, table).id  OBVIOUS
  <2>2. (Rewritten(q, table))' = Rewritten(q, table)  BY <1>6 DEF Rewritten
  <2> SUFFICES ASSUME trace[q].kind = "reply", ~Stray(q), Skipped' = {}
               PROVE  id \in Ids /\ matched'[id] # NoEntry /\ (IsReplyTo(q, matched[id]))'
    BY <1>6, <2>1, <2>2 DEF Own, Stray
  <2>3. q \in 1..Len(trace)  BY <1>3, <1>4, <1>5
  <2>4. PICK x \in 1..(q - 1) : Sends(trace, x, trace[q].id)
    BY <1>2, <2>3 DEF Playable, Stray
  <2>5. x \in 1..L /\ x <= e /\ x < q  BY <1>3, <1>4, <1>5
  <2>6. PICK j \in Ids : matched'[j] = x
    <3>1. x \in (SendsIn(trace))'  BY <1>3, <1>6, <2>4, <2>5 DEF SendsIn, Sends
    <3> QED BY <1>8, <2>5, <3>1 DEF Skipped
  <2>7. x # NoEntry  BY DEF NoEntry
  <2>8. table[trace[x].id] = j  BY <1>19, <2>5, <2>6, <2>7
  <2>9. table[trace[q].id] = j  BY <2>4, <2>8 DEF Sends
  <2>10. j # NoId
    <3>1. MaxCalls \in Nat  BY ReplayConstants
    <3> QED BY <3>1 DEF Ids, NoId
  <2>11. id = j  BY <2>1, <2>9, <2>10 DEF Rewritten
  <2>12. (IsReplyTo(q, matched[id]))'  BY <1>6, <2>4, <2>6, <2>11 DEF IsReplyTo, Sends
  <2> QED BY <2>6, <2>7, <2>11, <2>12
<1>20. ASSUME NEW k \in 1..Len(A) PROVE (Own(A[k].entry, A[k].id))'
  <2>1. PICK q \in ReceivedIn(front + 1, p - 1) : A[k] = Rewritten(q, idMap)  BY <1>16
  <2>2. q \in 1..L /\ q \in 1..e /\ q < p /\ front < q
    BY <1>3, <1>4, <1>5 DEF ReceivedIn
  <2>3. \A j \in Ids : matched'[j] # NoEntry /\ matched'[j] < q => idMap[trace[matched'[j]].id] = j
    <3> SUFFICES ASSUME NEW j \in Ids, matched'[j] # NoEntry, matched'[j] < q
                 PROVE  idMap[trace[matched'[j]].id] = j
      OBVIOUS
    <3>1. j # i
      <4> SUFFICES ASSUME j = i PROVE FALSE
        OBVIOUS
      <4>1. p < q  BY <1>12
      <4> QED BY <1>4, <2>2, <4>1
    <3> QED BY <1>13, <3>1
  <2>4. PICK table \in Maps : table = idMap  BY <1>2
  <2>5. (Own(q, Rewritten(q, table).id))'  BY <1>19, <2>2, <2>3, <2>4
  <2>6. Rewritten(q, table).entry = q  BY <1>2, <1>3, <2>2, RewrittenAre
  <2>7. (Rewritten(q, table))' = Rewritten(q, table)  BY <1>6 DEF Rewritten
  <2> QED BY <2>1, <2>4, <2>5, <2>6, <2>7 DEF Own
<1>21. ASSUME NEW k \in 1..Len(B) PROVE (Own(B[k].entry, B[k].id))'
  <2>1. PICK q \in ReceivedIn(p + 1, e) : B[k] = Rewritten(q, map)  BY <1>16
  <2>2. q \in 1..L /\ q \in 1..e  BY <1>3, <1>4, <1>5 DEF ReceivedIn
  <2>3. \A j \in Ids : matched'[j] # NoEntry /\ matched'[j] < q => map[trace[matched'[j]].id] = j
    BY <1>13
  <2>4. (Own(q, Rewritten(q, map).id))'  BY <1>19, <2>2, <2>3
  <2>5. Rewritten(q, map).entry = q  BY <1>2, <1>3, <2>2, RewrittenAre
  <2>6. (Rewritten(q, map))' = Rewritten(q, map)  BY <1>6 DEF Rewritten
  <2> QED BY <2>1, <2>4, <2>5, <2>6 DEF Own
<1>22. ASSUME NEW k \in 1..Len(W) PROVE (Own(W[k].entry, W[k].id))'
  <2>0. (\E a \in 1..Len(U) : W[k] = U[a]) \/ (\E b \in 1..Len(B) : W[k] = B[b])
    <3>1. Joins(U \o B, U, B)  BY ElementsOfConcat
    <3>2. Joins(W, U, B)  BY <1>17, <3>1
    <3> QED BY <3>2 DEF Joins
  <2>1. CASE \E a \in 1..Len(U) : W[k] = U[a]
    <3>1. PICK a \in 1..Len(U) : W[k] = U[a]  BY <2>1
    <3>2. CASE \E b \in 1..Len(pending) : U[a] = pending[b]
      <4>1. PICK b \in 1..Len(pending) : W[k] = pending[b]  BY <3>1, <3>2
      <4>2. Own(pending[b].entry, pending[b].id)  BY DEF ReplayInv, AnswersOwn
      <4>3. Own(W[k].entry, W[k].id)  BY <4>1, <4>2
      <4> QED BY <1>11, <4>3
    <3>3. CASE \E b \in 1..Len(A) : U[a] = A[b]
      <4>1. PICK b \in 1..Len(A) : W[k] = A[b]  BY <3>1, <3>3
      <4> QED BY <1>20, <4>1
    <3>4. (\E b \in 1..Len(pending) : U[a] = pending[b]) \/ (\E b \in 1..Len(A) : U[a] = A[b])
      <4>1. Joins(pending \o A, pending, A)  BY <1>2, ElementsOfConcat
      <4>2. Joins(U, pending, A)  BY <1>17, <4>1
      <4> QED BY <4>2 DEF Joins
    <3> QED BY <3>2, <3>3, <3>4
  <2>2. CASE \E b \in 1..Len(B) : W[k] = B[b]
    <3>1. PICK b \in 1..Len(B) : W[k] = B[b]  BY <2>2
    <3> QED BY <1>21, <3>1
  <2> QED BY <2>0, <2>1, <2>2
<1>23. AnswersOwn'
  <2>1. ASSUME NEW k \in 1..Len(pending') PROVE (Own(pending[k].entry, pending[k].id))'
    <3>1. (Own(W[k].entry, W[k].id))'  BY <1>17, <1>22, <2>1
    <3> QED BY <1>17, <3>1
  <2>2. ASSUME NEW j \in Ids, answer'[j] # NoEntry
        PROVE  trace'[answer'[j]].kind = "reply" /\ (Own(answer[j], j))'
    <3>1. PICK x : x = answer[j] /\ x = answer'[j] /\ x # NoEntry  BY <1>6, <2>2
    <3>2. trace[x].kind = "reply" /\ Own(x, j)  BY <3>1 DEF ReplayInv, AnswersOwn
    <3>3. (Own(x, j))'  BY <1>11, <3>2
    <3> QED BY <1>6, <3>1, <3>2, <3>3
  <2> QED BY <2>1, <2>2 DEF AnswersOwn
<1>24. ReplayTypes'
  <2>1. front' \in 0..Len(trace')  BY <1>3, <1>4, <1>5, <1>6, <1>8
  <2>2. (Playable(trace))'  BY <1>2, <1>6 DEF Playable, Sends
  <2>3. matched' \in [Ids -> 0..front']
    <3>1. p \in 0..e /\ \A x \in 0..front : x \in 0..e  BY <1>3, <1>4, <1>5
    <3> QED BY <1>1, <1>2, <1>8, <3>1
  <2>4. idMap' \in Maps /\ pending' \in Seq(PlayFrames) /\ got' \in Seq(PlayFrames)
    BY <1>2, <1>6, <1>10, <1>17
  <2>5. called' \in [Ids -> Methods \cup {NoMethod}]  BY <1>2, <1>6
  <2> QED BY <1>6, <2>1, <2>2, <2>3, <2>4, <2>5 DEF ReplayInv, ReplayTypes
<1>25. ReplayPhases'  BY <1>6 DEF ReplayInv, ReplayPhases
<1> QED BY <1>14, <1>18, <1>23, <1>24, <1>25 DEF ReplayInv

\* A frame that is handed on stays where it was among all that were delivered.
HandedOn(s, t) == Append(s, Head(t)) \o Tail(t) = s \o t

\* It does.
LEMMA HandingOn ==
    ASSUME NEW S, NEW s \in Seq(S), NEW t \in Seq(S), t # <<>>
    PROVE  HandedOn(s, t)
  BY DEF HandedOn

\* recv hands on the next frame, and the session completes the call it answers.
LEMMA RecvKept ==
    ASSUME ReplayInv, Recv
    PROVE  ReplayInv'
<1>1. /\ Playable(trace) /\ front \in 0..Len(trace)
      /\ pending \in Seq(PlayFrames) /\ got \in Seq(PlayFrames) /\ pending # <<>>
      /\ DOMAIN answer = Ids
  BY DEF ReplayInv, ReplayTypes, Recv
<1>2. PICK n \in Nat : n = Len(pending) /\ n > 0  BY <1>1, LenProperties, EmptySeq
<1>3. PICK f \in PlayFrames : f = Head(pending) /\ f = pending[1]  BY <1>1, HeadTailProperties
<1>4. PICK rest \in Seq(PlayFrames), more \in Seq(PlayFrames) :
        rest = Tail(pending) /\ more = Append(got, f)
  BY <1>1, HeadTailProperties, AppendProperties
<1>5. Len(rest) = n - 1 /\ \A k \in 1..(n - 1) : rest[k] = pending[k + 1]
  BY <1>1, <1>2, <1>4, HeadTailProperties
<1>6. /\ trace' = trace /\ loaded' = loaded /\ front' = front /\ idMap' = idMap
      /\ called' = called /\ matched' = matched /\ waiting' = waiting /\ raw' = raw
      /\ got' = more /\ pending' = rest /\ Completes(f)
  BY <1>3, <1>4 DEF Recv, recorderVars
<1>7. \A entry, id : Own(entry, id) => (Own(entry, id))'
  BY <1>6 DEF Own, Stray, Skipped, SendsIn, IsReplyTo
<1>8. \A k \in 1..n : Own(pending[k].entry, pending[k].id)
  BY <1>2 DEF ReplayInv, AnswersOwn
<1>9. \A k \in 1..Len(rest) : (Own(rest[k].entry, rest[k].id))'
  <2> SUFFICES ASSUME NEW k \in 1..(n - 1) PROVE (Own(rest[k].entry, rest[k].id))'
    BY <1>5
  <2>1. k + 1 \in 1..n  BY <1>2
  <2>2. Own(rest[k].entry, rest[k].id)  BY <1>5, <1>8, <2>1
  <2> QED BY <1>7, <2>2
<1>10. ASSUME NEW j \in Ids, answer'[j] # NoEntry
       PROVE  trace[answer'[j]].kind = "reply" /\ Own(answer'[j], j)
  <2>1. CASE answer'[j] = answer[j]  BY <1>10, <2>1 DEF ReplayInv, AnswersOwn
  <2>2. CASE answer'[j] # answer[j]
    <3>1. trace[f.entry].kind = "reply" /\ j = f.id /\ answer'[j] = f.entry
      BY <1>1, <1>6, <2>2 DEF Completes
    <3>2. 1 \in 1..n  BY <1>2
    <3> QED BY <1>3, <1>8, <3>1, <3>2
  <2> QED BY <2>1, <2>2
<1>11. AnswersOwn'
  <2>1. ASSUME NEW j \in Ids, answer'[j] # NoEntry
        PROVE  trace'[answer'[j]].kind = "reply" /\ (Own(answer[j], j))'
    <3>1. PICK x : x = answer'[j]  OBVIOUS
    <3>2. trace[x].kind = "reply" /\ (Own(x, j))'  BY <1>7, <1>10, <2>1, <3>1
    <3> QED BY <1>6, <3>1, <3>2
  <2>2. \A k \in 1..Len(pending') : (Own(pending[k].entry, pending[k].id))'  BY <1>6, <1>9
  <2> QED BY <2>1, <2>2 DEF AnswersOwn
<1>12. NothingDropped'
  <2>1. HandedOn(got, pending)  BY <1>1, HandingOn
  <2>2. Delivered' = Delivered
    <3>1. more = Append(got, Head(pending))  BY <1>3, <1>4
    <3>2. more \o rest = got \o pending  BY <1>4, <2>1, <3>1 DEF HandedOn
    <3> QED BY <1>6, <3>2 DEF Delivered
  <2>3. (Arrivals(1, front))' = Arrivals(1, front)  BY <1>6 DEF Arrivals
  <2>4. NothingDropped  BY DEF ReplayInv
  <2> QED BY <2>2, <2>3, <2>4 DEF NothingDropped
<1>13. ReplayTypes'
  <2>1. DOMAIN answer' = Ids  BY <1>1, <1>6 DEF Completes
  <2>2. (Playable(trace))'  BY <1>1, <1>6 DEF Playable, Sends
  <2> QED BY <1>6, <2>1, <2>2 DEF ReplayInv, ReplayTypes
<1>14. MatchesMapped'  BY <1>6 DEF ReplayInv, MatchesMapped
<1>15. ReplayPhases'
  <2>1. loaded  BY <1>1 DEF ReplayInv, ReplayPhases
  <2> QED BY <1>6, <2>1 DEF ReplayInv, ReplayPhases
<1> QED BY <1>11, <1>12, <1>13, <1>14, <1>15 DEF ReplayInv

\* A call that nothing matches leaves the trace as it was.
LEMMA FailureKept ==
    ASSUME ReplayInv, NEW i \in Ids, NEW m \in Methods, SendFails(i, m)
    PROVE  ReplayInv'
<1>1. /\ called' = [called EXCEPT ![i] = m] /\ loaded /\ called[i] = NoMethod
      /\ UNCHANGED <<trace, loaded, front, pending, idMap, matched, got, answer, waiting>>
  BY DEF SendFails, Calls, recorderVars
<1>2. called \in [Ids -> Methods \cup {NoMethod}]  BY DEF ReplayInv, ReplayTypes
<1>3. NoMethod # m  BY RecorderConstants
<1>4. \A j \in Ids : called'[j] = NoMethod => called[j] = NoMethod  BY <1>1, <1>2, <1>3
<1>5. MatchesMapped'  BY <1>1, <1>4 DEF ReplayInv, MatchesMapped
<1>6. ReplayTypes'
  <2>1. called' \in [Ids -> Methods \cup {NoMethod}]  BY <1>1, <1>2
  <2> QED BY <1>1, <2>1 DEF ReplayInv, ReplayTypes
<1>7. AnswersOwn'  BY <1>1 DEF ReplayInv, AnswersOwn, Own, Stray, Skipped, SendsIn, IsReplyTo
<1>8. ReplayPhases'  BY <1>1 DEF ReplayInv, ReplayPhases
<1>9. NothingDropped'  BY <1>1 DEF ReplayInv, NothingDropped, Delivered, Arrivals
<1> QED BY <1>5, <1>6, <1>7, <1>8, <1>9 DEF ReplayInv

\* Where nothing changes.
LEMMA StutterKept ==
    ASSUME ReplayInv, UNCHANGED vars
    PROVE  ReplayInv'
<1>1. UNCHANGED <<trace, loaded, front, pending, idMap, called, matched, got, answer>>
      /\ UNCHANGED <<raw, nextId, owed, waiting>>
  BY DEF vars, recorderVars
<1>2. RecorderInv => RecorderInv'
  BY <1>1 DEF RecorderInv, Recorded, AskedIn, Wraps
<1>3. ReplayTypes' /\ MatchesMapped'  BY <1>1 DEF ReplayInv, ReplayTypes, MatchesMapped
<1>4. AnswersOwn'  BY <1>1 DEF ReplayInv, AnswersOwn, Own, Stray, Skipped, SendsIn, IsReplyTo
<1>5. ReplayPhases'  BY <1>1, <1>2 DEF ReplayInv, ReplayPhases
<1>6. NothingDropped'  BY <1>1 DEF ReplayInv, NothingDropped, Delivered, Arrivals
<1> QED BY <1>3, <1>4, <1>5, <1>6 DEF ReplayInv

\* Nothing is recorded and nothing played.
LEMMA ReplayBegins == Init => ReplayInv
<1> SUFFICES ASSUME Init PROVE ReplayInv
  OBVIOUS
<1>1. /\ trace = <<>> /\ front = 0 /\ got = <<>> /\ pending = <<>> /\ raw = <<>> /\ loaded = FALSE
      /\ nextId = 1 /\ owed = {} /\ idMap = [r \in RecordedIds |-> NoId]
      /\ called = [i \in Ids |-> NoMethod] /\ matched = [i \in Ids |-> NoEntry]
      /\ answer = [i \in Ids |-> NoEntry]
  BY DEF Init, RecordInit
<1>2. Playable(trace)  BY <1>1, NothingPlayed
<1>3. ReplayTypes
  <2>1. <<>> \in Seq(PlayFrames) /\ Len(trace) = 0  BY <1>1, EmptySeq
  <2>2. idMap \in Maps  BY <1>1 DEF Maps
  <2>3. matched \in [Ids -> 0..front] /\ DOMAIN answer = Ids  BY <1>1 DEF NoEntry
  <2>4. called \in [Ids -> Methods \cup {NoMethod}]  BY <1>1
  <2>5. front \in 0..Len(trace) /\ loaded \in BOOLEAN
    <3>1. Len(trace) = 0  BY <2>1
    <3>2. front = 0  BY <1>1
    <3>3. 0 \in 0..0  OBVIOUS
    <3>4. loaded = FALSE  BY <1>1
    <3> QED BY <3>1, <3>2, <3>3, <3>4
  <2>6. pending \in Seq(PlayFrames) /\ got \in Seq(PlayFrames)  BY <1>1, <2>1
  <2> QED BY <1>2, <2>2, <2>3, <2>4, <2>5, <2>6 DEF ReplayTypes
<1>4. MatchesMapped  BY <1>1 DEF MatchesMapped
<1>5. AnswersOwn
  <2>1. 1..Len(pending) = {}  BY <1>1, EmptySeq
  <2> QED BY <1>1, <2>1 DEF AnswersOwn
<1>6. RecorderInv
  <2>1. Recorded(raw)  BY <1>1, NothingRecorded
  <2>2. 1..Len(raw) = {}  BY <1>1, EmptySeq
  <2>3. AskedIn(raw) = {}  BY <2>2 DEF AskedIn
  <2>4. IsFiniteSet(AskedIn(raw)) /\ Cardinality(AskedIn(raw)) = 0  BY <2>3, FS_EmptySet
  <2> QED BY <1>1, <2>1, <2>2, <2>4, RecorderConstants DEF RecorderInv
<1>7. ReplayPhases  BY <1>1, <1>6 DEF ReplayPhases
<1>8. NothingDropped  BY <1>1, <1>2, NothingGone
<1> QED BY <1>3, <1>4, <1>5, <1>7, <1>8 DEF ReplayInv

\* Every step keeps the invariant.
LEMMA ReplayInvariant == Spec => []ReplayInv
<1>1. ASSUME ReplayInv, [Next]_vars PROVE ReplayInv'
  <2>1. CASE RecordNext /\ UNCHANGED <<trace, loaded, front, pending, idMap, closed, called, matched, got, answer>>
    BY <1>1, <2>1, RecordingKept
  <2>2. CASE Load  BY <1>1, <2>2, LoadKept
  <2>3. CASE \E i \in Ids, m \in Methods : ReplaySend(i, m) \/ SendFails(i, m)
    <3>1. PICK i \in Ids, m \in Methods : ReplaySend(i, m) \/ SendFails(i, m)  BY <2>3
    <3>2. CASE ReplaySend(i, m)  BY <1>1, <3>2, SendKept
    <3>3. CASE SendFails(i, m)  BY <1>1, <3>3, FailureKept
    <3> QED BY <3>1, <3>2, <3>3
  <2>4. CASE Recv  BY <1>1, <2>4, RecvKept
  <2>5. CASE UNCHANGED vars  BY <1>1, <2>5, StutterKept
  <2> QED BY <1>1, <2>1, <2>2, <2>3, <2>4, <2>5 DEF Next
<1> QED BY <1>1, ReplayBegins, PTL DEF Spec

\* Whatever requests a caller skips, it is handed every received frame of the
\* part of the trace gone by, once and in order.  [ReplayTransport::send]
THEOREM NothingIsEverDropped == Spec => []NothingDropped
<1>1. ReplayInv => NothingDropped  BY DEF ReplayInv
<1> QED BY <1>1, ReplayInvariant, PTL

\* A caller that skips no recorded request gets for each of its calls the reply
\* that was recorded for it, or none, but for the stray reply of a root
\* command.  [flatten_multiplexed_trace, ReplayTransport, rewrite_id]
THEOREM RepliesAlwaysCorrelate == Spec => []CorrelatesUnlessSkipped
<1>1. ASSUME ReplayInv PROVE CorrelatesUnlessSkipped
  <2> SUFFICES ASSUME Skipped = {}, NEW i \in Ids, answer[i] # NoEntry, ~Stray(answer[i])
               PROVE  OwnAnswer(i)
    BY DEF CorrelatesUnlessSkipped
  <2>1. trace[answer[i]].kind = "reply" /\ Own(answer[i], i)  BY <1>1 DEF ReplayInv, AnswersOwn
  <2> QED BY <2>1 DEF Own, OwnAnswer
<1> QED BY <1>1, ReplayInvariant, PTL

-----------------------------------------------------------------------------
(* What the generator reaches *)

\* The sets seen on the way, one for each step.
Seen(references, types, s) ==
    /\ s[0] = types
    /\ \A i \in 1..Cardinality(references) : s[i] = Follow(references, s[i - 1])

LEMMA FollowStays ==
    ASSUME NEW references, NEW T, \A f \in references : f.to \in T, NEW v \in SUBSET T
    PROVE  Follow(references, v) \in SUBSET T
  BY DEF Follow

LEMMA SeenRuns ==
    ASSUME NEW references, NEW types, Cardinality(references) \in Nat
    PROVE  \E s : Seen(references, types, s) /\ s[Cardinality(references)] = ReachedFrom(references, types)
<1> DEFINE T == types \cup {f.to : f \in references}
           V == SUBSET T
           Body(s) == [n \in 0..Cardinality(references) |->
                          IF n = 0 THEN types ELSE Follow(references, s[n - 1])]
           g == CHOOSE g : g = Body(g)
           step == [i \in 1..Cardinality(references) |-> [v \in V |-> Follow(references, v)]]
<1>1. PICK N \in Nat : N = Cardinality(references)  OBVIOUS
<1>2. types \in V  OBVIOUS
<1>3. \A v \in V : Follow(references, v) \in V
  <2>1. \A f \in references : f.to \in T  OBVIOUS
  <2> HIDE DEF T
  <2> QED BY <2>1, FollowStays
<1>4. step \in [1..N -> [V -> V]]
  <2> HIDE DEF V
  <2> QED BY <1>1, <1>3
<1>5. \A i \in 1..N, v \in V : step[i][v] = Follow(references, v)
  <2> HIDE DEF V
  <2> QED BY <1>1
<1>6. ReachedFrom(references, types) = g[Cardinality(references)]
  BY Zenon DEF ReachedFrom
<1>7. \A s : Body(s) = [n \in 0..N |-> IF n = 0 THEN types ELSE Follow(references, s[n - 1])]
  BY <1>1
<1> HIDE DEF g, V, T, step, Body
<1>8. PICK s \in [0..N -> V] : s[0] = types /\ \A i \in 1..N : s[i] = step[i][s[i - 1]]
  <2>1. Runs(N, V, types, step) # {}
    BY <1>1, <1>2, <1>4, RecursionExists DEF Steps
  <2>2. PICK s \in Runs(N, V, types, step) : TRUE  BY <2>1
  <2> QED BY <2>2 DEF Runs
<1>9. s = Body(s)
  <2>1. \A i \in 1..N : i - 1 \in 0..N  BY <1>1
  <2>2. \A i \in 1..N : s[i] = Follow(references, s[i - 1])
    BY <1>5, <1>8, <2>1
  <2>3. \A i \in 0..N : i = 0 \/ i \in 1..N  BY <1>1
  <2>4. \A n \in 0..N : s[n] = IF n = 0 THEN types ELSE Follow(references, s[n - 1])
    BY <2>2, <2>3, <1>8
  <2> QED BY <2>4, <1>7, <1>8
<1>10. g = Body(g)  BY <1>9 DEF g
<1>11. \A n \in 0..N : g[n] = IF n = 0 THEN types ELSE Follow(references, g[n - 1])
  BY <1>7, <1>10
<1>12. (\A i \in 1..N : i \in 0..N /\ i # 0) /\ 0 \in 0..N  BY <1>1
<1> QED BY <1>1, <1>6, <1>11, <1>12 DEF Seen

\* Each step that sees anything new follows a reference that was not followed
\* before; so after as many as there are references nothing new is seen.
Closed(references, seen) == \A f \in references : f.from \in seen => f.to \in seen
Within(references, seen) == {f \in references : f.from \in seen /\ f.to \in seen}

LEMMA FollowedMore ==
    ASSUME NEW references, IsFiniteSet(references), NEW seen
    PROVE  /\ IsFiniteSet(Within(references, seen))
           /\ Closed(references, seen) => Follow(references, seen) = seen
           /\ ~Closed(references, seen) =>
                Cardinality(Within(references, seen))
                  < Cardinality(Within(references, Follow(references, seen)))
<1> DEFINE more == Follow(references, seen)
           A == Within(references, seen)
           B == Within(references, more)
<1>1. A \in SUBSET references /\ B \in SUBSET references  BY DEF Within
<1>2. IsFiniteSet(A) /\ IsFiniteSet(B)  BY <1>1, FS_Subset
<1>3. A \in SUBSET B  BY DEF Within, Follow
<1>4. ASSUME ~Closed(references, seen) PROVE Cardinality(A) < Cardinality(B)
  <2>1. PICK f \in references : f.from \in seen /\ f.to \notin seen  BY <1>4 DEF Closed
  <2>2. f \in B /\ f \notin A  BY <2>1 DEF Within, Follow
  <2>3. Cardinality(A) <= Cardinality(B) /\ (Cardinality(B) = Cardinality(A) => B = A)
    BY <1>2, <1>3, FS_Subset
  <2>4. Cardinality(A) # Cardinality(B)  BY <2>2, <2>3
  <2>5. Cardinality(A) \in Nat /\ Cardinality(B) \in Nat  BY <1>2, FS_CardinalityType
  <2> HIDE DEF A, B
  <2> QED BY <2>3, <2>4, <2>5
<1>5. Closed(references, seen) => more = seen
  BY DEF Closed, Follow
<1> QED BY <1>2, <1>4, <1>5

\* What is reached: the types themselves, what they refer to, and no more than
\* that requires.
LEMMA ReachedIsLeast ==
    ASSUME NEW references, IsFiniteSet(references), NEW types
    PROVE  /\ types \subseteq ReachedFrom(references, types)
           /\ Closed(references, ReachedFrom(references, types))
           /\ \A C : types \subseteq C /\ Closed(references, C) => ReachedFrom(references, types) \subseteq C
<1>1. PICK N \in Nat : N = Cardinality(references)  BY FS_CardinalityType
<1>2. PICK s : Seen(references, types, s) /\ s[N] = ReachedFrom(references, types)
  BY <1>1, SeenRuns
<1>3. s[0] = types /\ \A i \in 1..N : s[i] = Follow(references, s[i - 1])
  BY <1>1, <1>2 DEF Seen
<1>4. \A n \in Nat : n + 1 <= N => s[n + 1] = Follow(references, s[n])
  <2> SUFFICES ASSUME NEW n \in Nat, n + 1 <= N PROVE s[n + 1] = Follow(references, s[n])
    OBVIOUS
  <2>1. n + 1 \in 1..N /\ (n + 1) - 1 = n  OBVIOUS
  <2> QED BY <1>3, <2>1
<1> DEFINE Far(n) == Cardinality(Within(references, s[n]))
           Come(n) == /\ types \subseteq s[n]
                      /\ \A C : types \subseteq C /\ Closed(references, C) => s[n] \subseteq C
                      /\ Closed(references, s[n]) \/ n <= Far(n)
           P == {n \in Nat : n <= N => Come(n)}
<1>5. \A n : IsFiniteSet(Within(references, s[n])) /\ Far(n) \in Nat
  BY FollowedMore, FS_CardinalityType
<1>6. 0 \in P
  <2>1. 0 <= Far(0)  BY <1>5
  <2> HIDE DEF Far
  <2> QED BY <1>3, <2>1
<1>7. ASSUME NEW n \in Nat, n \in P PROVE n + 1 \in P
  <2> SUFFICES ASSUME n + 1 <= N PROVE Come(n + 1)
    OBVIOUS
  <2>1. Come(n)
    <3>1. n <= N  BY <1>1
    <3> HIDE DEF Come
    <3> QED BY <1>7, <3>1
  <2>2. PICK here : here = s[n]  OBVIOUS
  <2>3. s[n + 1] = Follow(references, here)  BY <1>4, <2>2
  <2>4. here \subseteq Follow(references, here)  BY DEF Follow
  <2>5. types \subseteq s[n + 1]  BY <2>1, <2>2, <2>3, <2>4
  <2>6. ASSUME NEW C, types \subseteq C, Closed(references, C) PROVE s[n + 1] \subseteq C
    <3>1. here \subseteq C  BY <2>1, <2>2, <2>6
    <3> QED BY <2>3, <2>6, <3>1 DEF Follow, Closed
  <2>7. Closed(references, s[n + 1]) \/ n + 1 <= Far(n + 1)
    <3>1. CASE Closed(references, here)
      <4>1. s[n + 1] = here  BY <2>3, <3>1, FollowedMore
      <4> QED BY <3>1, <4>1
    <3>2. CASE ~Closed(references, here)
      <4>1. Far(n) < Far(n + 1)  BY <2>2, <2>3, <3>2, FollowedMore
      <4>2. n <= Far(n)  BY <2>1, <2>2, <3>2
      <4>3. Far(n) \in Nat /\ Far(n + 1) \in Nat  BY <1>5
      <4> HIDE DEF Far
      <4> QED BY <4>1, <4>2, <4>3
    <3> QED BY <3>1, <3>2
  <2> HIDE DEF Far
  <2> QED BY <2>5, <2>6, <2>7
<1>8. Come(N)
  <2> HIDE DEF Come
  <2>1. \A n \in Nat : n \in P
    <3> HIDE DEF P
    <3> QED BY <1>6, <1>7, SetInduction
  <2>2. N <= N  OBVIOUS
  <2> QED BY <2>1, <2>2
<1>9. Closed(references, s[N])
  <2> SUFFICES ASSUME N <= Far(N) PROVE Closed(references, s[N])
    BY <1>8
  <2>1. Within(references, s[N]) \in SUBSET references  BY DEF Within
  <2>2. /\ Cardinality(Within(references, s[N])) <= Cardinality(references)
        /\ Cardinality(references) = Cardinality(Within(references, s[N])) => references = Within(references, s[N])
    BY <2>1, FS_Subset
  <2>3. Far(N) \in Nat  BY <1>5
  <2>4. references = Within(references, s[N])
    <3>1. PICK m \in Nat : m = Cardinality(Within(references, s[N]))  BY <2>3
    <3>2. m <= N /\ N <= m  BY <1>1, <2>2, <3>1
    <3>3. m = N  BY <3>2
    <3> QED BY <1>1, <2>2, <3>1, <3>3
  <2> QED BY <2>4 DEF Closed, Within
<1> QED BY <1>2, <1>8, <1>9

\* What is boxed lies on a cycle, and without it there is none.
LEMMA SizesAreFinite ==
    ASSUME IsFiniteSet(fields)
    PROVE  HasFiniteSize
<1> DEFINE direct == fields \ Boxed(fields)
<1>1. direct \in SUBSET fields /\ IsFiniteSet(direct)
  <2>1. direct \in SUBSET fields  OBVIOUS
  <2> QED BY <2>1, FS_Subset
<1>2. ASSUME NEW f \in direct PROVE f.from \notin ReachedFrom(direct, {f.to})
  <2>1. PICK R : R = ReachedFrom(fields, {f.to})  OBVIOUS
  <2>2. {f.to} \subseteq R /\ Closed(fields, R)  BY <2>1, ReachedIsLeast
  <2>3. Closed(direct, R)  BY <1>1, <2>2 DEF Closed
  <2>4. ReachedFrom(direct, {f.to}) \subseteq R
    <3> HIDE DEF direct
    <3> QED BY <1>1, <2>2, <2>3, ReachedIsLeast
  <2>5. f.from \notin R  BY <2>1 DEF Boxed
  <2> QED BY <2>4, <2>5
<1>3. ASSUME NEW f \in Boxed(fields) PROVE f.from \in ReachedFrom(fields \ {f}, {f.to})
  <2> DEFINE others == fields \ {f}
  <2>1. f \in fields /\ f.from \in ReachedFrom(fields, {f.to})  BY DEF Boxed
  <2>2. IsFiniteSet(others)  BY FS_RemoveElement
  <2>3. PICK R : R = ReachedFrom(others, {f.to})  OBVIOUS
  <2>4. {f.to} \subseteq R /\ Closed(others, R)
    <3> HIDE DEF others
    <3> QED BY <2>2, <2>3, ReachedIsLeast
  <2>5. ASSUME f.from \notin R PROVE FALSE
    <3>1. Closed(fields, R)  BY <2>4, <2>5 DEF Closed
    <3>2. ReachedFrom(fields, {f.to}) \subseteq R  BY <2>4, <3>1, ReachedIsLeast
    <3> QED BY <2>1, <2>5, <3>2
  <2> QED BY <2>3, <2>5
<1> QED BY <1>2, <1>3 DEF HasFiniteSize

-----------------------------------------------------------------------------
(* Merging *)

Members ==
    [name : {v.name : v \in Variants}, values : {NoValues} \cup Seq(Enumerated),
     properties : Seq(Properties)]

\* A member that could have been declared so.
WellMade(m) ==
    /\ m \in Members
    /\ NamesOnce(m.properties)
    /\ m.values # NoValues => Distinct(m.values)

LEMMA VariantsAreMembers == \A v \in Variants : WellMade(v)
<1> SUFFICES ASSUME NEW v \in Variants PROVE WellMade(v)
  OBVIOUS
<1>1. /\ v = [name |-> v.name, values |-> v.values, properties |-> v.properties]
      /\ v.properties \in Seq(Properties) /\ NamesOnce(v.properties)
      /\ v.values # NoValues => v.values \in Seq(Enumerated) /\ OnlyOnce(v.values)
  BY CodegenConstants
<1>2. v.name \in {w.name : w \in Variants}  OBVIOUS
<1>3. v \in Members  BY <1>1, <1>2 DEF Members
<1> QED BY <1>1, <1>3 DEF WellMade, OnlyOnce, Distinct

LEMMA NewPropertiesAre ==
    ASSUME NEW a, NEW b \in Seq(Properties), NamesOnce(b)
    PROVE  LET new == NewProperties(a, b) IN
           /\ new \in Seq(Properties) /\ NamesOnce(new)
           /\ \A n : Has(new, n) <=> Has(b, n) /\ ~Has(a, n)
<1> DEFINE P == {i \in 1..Len(b) : ~Has(a, b[i].name)}
<1>1. Distinct(b)  BY DEF Distinct, NamesOnce
<1>2. PICK new \in Seq(Properties) : new = NewProperties(a, b) /\ new = Excerpt(b, P)
  BY <1>1, ExcerptHolds DEF NewProperties
<1>3. Distinct(new) /\ \A x : InList(new, x) <=> \E i \in 1..Len(b) : i \in P /\ b[i] = x
  <2> HIDE DEF P
  <2> QED BY <1>1, <1>2, ExcerptHolds
<1>4. \A k \in 1..Len(new) : \E i \in 1..Len(b) : b[i] = new[k] /\ ~Has(a, b[i].name)
  BY <1>3 DEF InList
<1>5. \A i \in 1..Len(b) : ~Has(a, b[i].name) => \E k \in 1..Len(new) : new[k] = b[i]
  BY <1>3 DEF InList
<1>6. NamesOnce(new)
  <2> SUFFICES ASSUME NEW k \in 1..Len(new), NEW l \in 1..Len(new), new[k].name = new[l].name
               PROVE  k = l
    BY DEF NamesOnce
  <2>1. PICK i \in 1..Len(b) : b[i] = new[k]  BY <1>4
  <2>2. PICK j \in 1..Len(b) : b[j] = new[l]  BY <1>4
  <2>3. i = j  BY <2>1, <2>2 DEF NamesOnce
  <2> QED BY <1>3, <2>1, <2>2, <2>3 DEF Distinct
<1>7. \A n : Has(new, n) <=> Has(b, n) /\ ~Has(a, n)
  <2> SUFFICES ASSUME NEW n PROVE Has(new, n) <=> Has(b, n) /\ ~Has(a, n)
    OBVIOUS
  <2>1. ASSUME Has(new, n) PROVE Has(b, n) /\ ~Has(a, n)
    <3>1. PICK k \in 1..Len(new) : new[k].name = n  BY <2>1 DEF Has
    <3>2. PICK i \in 1..Len(b) : b[i] = new[k] /\ ~Has(a, b[i].name)  BY <1>4
    <3>3. Has(b, n)  BY <3>1, <3>2 DEF Has
    <3> QED BY <3>1, <3>2, <3>3
  <2>2. ASSUME Has(b, n), ~Has(a, n) PROVE Has(new, n)
    <3>1. PICK i \in 1..Len(b) : b[i].name = n  BY <2>2 DEF Has
    <3>2. PICK k \in 1..Len(new) : new[k] = b[i]  BY <1>5, <2>2, <3>1
    <3> QED BY <3>1, <3>2 DEF Has
  <2> QED BY <2>1, <2>2
<1> QED BY <1>2, <1>6, <1>7

\* Properties whose optionality was set anew.
Reset(c, a, opt) ==
    /\ c \in Seq(Properties) /\ Len(c) = Len(a)
    /\ \A i \in 1..Len(a) : c[i].name = a[i].name /\ c[i].optional = opt[i]

LEMMA ResetIs ==
    ASSUME NEW a \in Seq(Properties), NEW opt \in [1..Len(a) -> BOOLEAN]
    PROVE  Reset([i \in 1..Len(a) |-> [a[i] EXCEPT !.optional = opt[i]]], a, opt)
<1>1. PICK n \in Nat : n = Len(a)  BY LenProperties
<1> DEFINE c == [i \in 1..n |-> [a[i] EXCEPT !.optional = opt[i]]]
<1>2. ASSUME NEW i \in 1..n
      PROVE  /\ [a[i] EXCEPT !.optional = opt[i]] \in Properties
             /\ [a[i] EXCEPT !.optional = opt[i]].name = a[i].name
             /\ [a[i] EXCEPT !.optional = opt[i]].optional = opt[i]
  <2>1. PICK p \in Properties : p = a[i]  BY <1>1, ElementOfSeq
  <2>2. PICK o \in BOOLEAN : o = opt[i]  BY <1>1
  <2>3. [p EXCEPT !.optional = o] = [name |-> p.name, optional |-> o]  BY DEF Properties
  <2> QED BY <2>1, <2>2, <2>3 DEF Properties
<1>3. \A i \in 1..n : c[i] = [a[i] EXCEPT !.optional = opt[i]]  OBVIOUS
<1>4. c \in [1..n -> Properties]  BY <1>2
<1>5. c \in Seq(Properties) /\ Len(c) = n
  <2> HIDE DEF c
  <2> QED BY <1>4
<1>6. \A i \in 1..n : c[i].name = a[i].name /\ c[i].optional = opt[i]
  <2> HIDE DEF c
  <2> QED BY <1>2, <1>3
<1>7. c = [i \in 1..Len(a) |-> [a[i] EXCEPT !.optional = opt[i]]]  BY <1>1
<1> HIDE DEF c
<1> QED BY <1>1, <1>5, <1>6, <1>7 DEF Reset

\* What both require is required, what one has is there, and once.
LEMMA PropertiesMerge ==
    ASSUME NEW a \in Seq(Properties), NEW b \in Seq(Properties), NamesOnce(a), NamesOnce(b)
    PROVE  LET c == MergeProperties(a, b) IN
           /\ c \in Seq(Properties) /\ NamesOnce(c)
           /\ \A n : Has(c, n) <=> Has(a, n) \/ Has(b, n)
           /\ \A n : Requires(c, n) <=> Requires(a, n) /\ Requires(b, n)
<1>1. PICK p \in Nat : p = Len(a)  BY LenProperties
<1>2. PICK new \in Seq(Properties) : new = NewProperties(a, b) /\ NamesOnce(new)
                                     /\ \A n : Has(new, n) <=> Has(b, n) /\ ~Has(a, n)
  BY NewPropertiesAre
<1>3. PICK q \in Nat : q = Len(new)  BY LenProperties
<1> DEFINE opt == [i \in 1..Len(a) |-> a[i].optional \/ ~Requires(b, a[i].name)]
           every == [i \in 1..Len(new) |-> TRUE]
<1>4. PICK x : x = [i \in 1..Len(a) |-> [a[i] EXCEPT !.optional = opt[i]]] /\ Reset(x, a, opt)
  <2>1. opt \in [1..Len(a) -> BOOLEAN]  OBVIOUS
  <2> HIDE DEF opt
  <2> QED BY <2>1, ResetIs
<1>5. PICK y : y = [i \in 1..Len(new) |-> [new[i] EXCEPT !.optional = every[i]]] /\ Reset(y, new, every)
  <2>1. every \in [1..Len(new) -> BOOLEAN]  OBVIOUS
  <2> HIDE DEF every
  <2> QED BY <2>1, ResetIs
<1>6. MergeProperties(a, b) = x \o y
  <2>1. x = [i \in 1..Len(a) |-> [a[i] EXCEPT !.optional = @ \/ ~Requires(b, a[i].name)]]
    BY <1>4
  <2>2. y = [i \in 1..Len(new) |-> [new[i] EXCEPT !.optional = TRUE]]
    BY <1>5
  <2> QED BY <1>2, <2>1, <2>2, Zenon DEF MergeProperties
<1>7. /\ x \in Seq(Properties) /\ Len(x) = p
      /\ \A i \in 1..p : x[i].name = a[i].name
                         /\ (x[i].optional <=> a[i].optional \/ ~Requires(b, a[i].name))
  <2>1. \A i \in 1..p : opt[i] <=> a[i].optional \/ ~Requires(b, a[i].name)  BY <1>1
  <2> HIDE DEF opt
  <2> QED BY <1>1, <1>4, <2>1 DEF Reset
<1>8. /\ y \in Seq(Properties) /\ Len(y) = q
      /\ \A i \in 1..q : y[i].name = new[i].name /\ y[i].optional
  <2>1. \A i \in 1..q : every[i]  BY <1>3
  <2> HIDE DEF every
  <2> QED BY <1>3, <1>5, <2>1 DEF Reset
<1> HIDE DEF opt, every
<1>9. PICK c \in Seq(Properties) : c = x \o y  BY <1>7, <1>8, ConcatProperties
<1>10. /\ Len(c) = p + q
       /\ \A i \in 1..p : c[i] = x[i]
       /\ \A i \in 1..q : c[p + i] = y[i]
  <2>1. /\ Len(c) = p + q
        /\ \A i \in 1..(p + q) : c[i] = IF i <= p THEN x[i] ELSE y[i - p]
    BY <1>7, <1>8, <1>9, ConcatProperties
  <2>2. \A i \in 1..p : i \in 1..(p + q) /\ i <= p  OBVIOUS
  <2>3. \A i \in 1..q : p + i \in 1..(p + q) /\ ~(p + i <= p) /\ (p + i) - p = i  OBVIOUS
  <2> QED BY <2>1, <2>2, <2>3
<1>11. \A i \in 1..(p + q) : i \in 1..p \/ \E k \in 1..q : i = p + k
  <2> SUFFICES ASSUME NEW i \in 1..(p + q), i \notin 1..p PROVE \E k \in 1..q : i = p + k
    OBVIOUS
  <2>1. i - p \in 1..q /\ i = p + (i - p)  OBVIOUS
  <2> QED BY <2>1
<1>12. /\ \A i \in 1..p : i \in 1..(p + q)
       /\ \A k \in 1..q : p + k \in 1..(p + q)
  OBVIOUS
<1>13. \A n : Has(c, n) <=> Has(a, n) \/ Has(new, n)
  <2> SUFFICES ASSUME NEW n PROVE Has(c, n) <=> Has(a, n) \/ Has(new, n)
    OBVIOUS
  <2>1. Has(c, n) <=> \E i \in 1..(p + q) : c[i].name = n  BY <1>10 DEF Has
  <2>2. Has(a, n) <=> \E i \in 1..p : c[i].name = n  BY <1>1, <1>7, <1>10 DEF Has
  <2>3. Has(new, n) <=> \E k \in 1..q : c[p + k].name = n
    <3>1. \A k \in 1..q : c[p + k].name = new[k].name  BY <1>8, <1>10
    <3>2. Has(new, n) <=> \E k \in 1..q : new[k].name = n  BY <1>3 DEF Has
    <3> QED BY <3>1, <3>2, Zenon
  <2> QED BY <2>1, <2>2, <2>3, <1>11, <1>12
<1>14. \A n : Has(c, n) <=> Has(a, n) \/ Has(b, n)  BY <1>2, <1>13
<1>15. \A n : Requires(c, n) <=> Requires(a, n) /\ Requires(b, n)
  <2> SUFFICES ASSUME NEW n PROVE Requires(c, n) <=> Requires(a, n) /\ Requires(b, n)
    OBVIOUS
  <2>1. ASSUME Requires(c, n) PROVE Requires(a, n) /\ Requires(b, n)
    <3>1. PICK i \in 1..(p + q) : c[i].name = n /\ ~c[i].optional  BY <1>10, <2>1 DEF Requires
    <3>2. i \in 1..p  BY <1>8, <1>10, <1>11, <3>1
    <3>3. a[i].name = n /\ ~a[i].optional /\ Requires(b, a[i].name)
      BY <1>7, <1>10, <3>1, <3>2
    <3> QED BY <1>1, <3>2, <3>3 DEF Requires
  <2>2. ASSUME Requires(a, n), Requires(b, n) PROVE Requires(c, n)
    <3>1. PICK i \in 1..p : a[i].name = n /\ ~a[i].optional  BY <1>1, <2>2 DEF Requires
    <3>2. c[i].name = n /\ ~c[i].optional  BY <1>7, <1>10, <2>2, <3>1
    <3>3. i \in 1..(p + q)  BY <1>12
    <3> QED BY <1>10, <3>2, <3>3 DEF Requires
  <2> QED BY <2>1, <2>2
<1>16. NamesOnce(c)
  <2> SUFFICES ASSUME NEW i \in 1..(p + q), NEW j \in 1..(p + q), c[i].name = c[j].name PROVE i = j
    BY <1>10 DEF NamesOnce
  <2>1. ASSUME NEW k \in 1..p, NEW l \in 1..q PROVE c[k].name # c[p + l].name
    <3>1. Has(a, c[k].name)  BY <1>1, <1>7, <1>10 DEF Has
    <3>2. Has(new, c[p + l].name)  BY <1>3, <1>8, <1>10 DEF Has
    <3> QED BY <1>2, <3>1, <3>2
  <2>2. ASSUME i \in 1..p, j \in 1..p PROVE i = j
    <3>1. a[i].name = a[j].name  BY <1>7, <1>10, <2>2
    <3> QED BY <1>1, <2>2, <3>1 DEF NamesOnce
  <2>3. ASSUME NEW k \in 1..q, NEW l \in 1..q, i = p + k, j = p + l PROVE i = j
    <3>1. new[k].name = new[l].name  BY <1>8, <1>10, <2>3
    <3>2. k = l  BY <1>2, <1>3, <3>1 DEF NamesOnce
    <3> QED BY <2>3, <3>2
  <2> QED BY <1>11, <2>1, <2>2, <2>3
<1> QED BY <1>6, <1>9, <1>14, <1>15, <1>16

Knows(values, x) == values # NoValues /\ InList(values, x)

\* A value of either is known, and once.
LEMMA ValuesMerge ==
    ASSUME NEW v \in {NoValues} \cup Seq(Enumerated), NEW w \in {NoValues} \cup Seq(Enumerated),
           v # NoValues => Distinct(v), w # NoValues => Distinct(w)
    PROVE  LET r == MergeValues(v, w) IN
           /\ r \in {NoValues} \cup Seq(Enumerated)
           /\ r # NoValues => Distinct(r)
           /\ r = NoValues <=> v = NoValues /\ w = NoValues
           /\ \A x : Knows(r, x) <=> Knows(v, x) \/ Knows(w, x)
<1>1. CASE v = NoValues  BY <1>1 DEF MergeValues, Knows
<1>2. CASE v # NoValues /\ w = NoValues  BY <1>2 DEF MergeValues, Knows
<1>3. CASE v # NoValues /\ w # NoValues
  <2> DEFINE P == {i \in 1..Len(w) : \A j \in 1..Len(v) : v[j] # w[i]}
  <2>1. v \in Seq(Enumerated) /\ w \in Seq(Enumerated)  BY <1>3
  <2>2. PICK new \in Seq(Enumerated) : new = Excerpt(w, P)
    <3> HIDE DEF P
    <3> QED BY <1>3, <2>1, ExcerptHolds
  <2>3. Distinct(new) /\ \A x : InList(new, x) <=> \E i \in 1..Len(w) : i \in P /\ w[i] = x
    <3> HIDE DEF P
    <3> QED BY <1>3, <2>1, <2>2, ExcerptHolds
  <2>4. MergeValues(v, w) = v \o new  BY <1>3, <2>2, Zenon DEF MergeValues
  <2>5. \A x : InList(new, x) <=> InList(w, x) /\ ~InList(v, x)
    BY <2>3 DEF InList
  <2> HIDE DEF P
  <2>6. PICK p \in Nat, q \in Nat : p = Len(v) /\ q = Len(new)  BY <2>1, <2>2, LenProperties
  <2>7. PICK r \in Seq(Enumerated) : r = v \o new  BY <2>1, <2>2, ConcatProperties
  <2>8. /\ Len(r) = p + q
        /\ \A i \in 1..p : r[i] = v[i]
        /\ \A i \in 1..q : r[p + i] = new[i]
    <3>1. /\ Len(r) = p + q
          /\ \A i \in 1..(p + q) : r[i] = IF i <= p THEN v[i] ELSE new[i - p]
      BY <2>1, <2>2, <2>6, <2>7, ConcatProperties
    <3>2. \A i \in 1..p : i \in 1..(p + q) /\ i <= p  OBVIOUS
    <3>3. \A i \in 1..q : p + i \in 1..(p + q) /\ ~(p + i <= p) /\ (p + i) - p = i  OBVIOUS
    <3> QED BY <3>1, <3>2, <3>3
  <2>9. \A i \in 1..(p + q) : i \in 1..p \/ \E k \in 1..q : i = p + k
    <3> SUFFICES ASSUME NEW i \in 1..(p + q), i \notin 1..p PROVE \E k \in 1..q : i = p + k
      OBVIOUS
    <3>1. i - p \in 1..q /\ i = p + (i - p)  OBVIOUS
    <3> QED BY <3>1
  <2>10. /\ \A i \in 1..p : i \in 1..(p + q)
         /\ \A k \in 1..q : p + k \in 1..(p + q)
    OBVIOUS
  <2>11. \A x : InList(r, x) <=> InList(v, x) \/ InList(new, x)
    <3> SUFFICES ASSUME NEW x PROVE InList(r, x) <=> InList(v, x) \/ InList(new, x)
      OBVIOUS
    <3>1. InList(r, x) <=> \E i \in 1..(p + q) : r[i] = x  BY <2>8 DEF InList
    <3>2. InList(v, x) <=> \E i \in 1..p : r[i] = x  BY <2>6, <2>8 DEF InList
    <3>3. InList(new, x) <=> \E k \in 1..q : r[p + k] = x  BY <2>6, <2>8 DEF InList
    <3> QED BY <3>1, <3>2, <3>3, <2>9, <2>10
  <2>12. Distinct(r)
    <3> SUFFICES ASSUME NEW i \in 1..(p + q), NEW j \in 1..(p + q), r[i] = r[j] PROVE i = j
      BY <2>8 DEF Distinct
    <3>1. ASSUME NEW k \in 1..p, NEW l \in 1..q PROVE r[k] # r[p + l]
      <4>1. InList(v, r[k])  BY <2>6, <2>8 DEF InList
      <4>2. InList(new, r[p + l])  BY <2>6, <2>8 DEF InList
      <4> QED BY <2>5, <4>1, <4>2
    <3>2. ASSUME i \in 1..p, j \in 1..p PROVE i = j
      BY <1>3, <2>6, <2>8, <3>2 DEF Distinct
    <3>3. ASSUME NEW k \in 1..q, NEW l \in 1..q, i = p + k, j = p + l PROVE i = j
      <4>1. k = l  BY <2>3, <2>6, <2>8, <3>3 DEF Distinct
      <4> QED BY <3>3, <4>1
    <3> QED BY <2>9, <3>1, <3>2, <3>3
  <2>13. r # NoValues  BY <2>7, CodegenConstants
  <2>14. \A x : InList(r, x) <=> InList(v, x) \/ InList(w, x)  BY <2>5, <2>11
  <2> QED BY <1>3, <2>4, <2>7, <2>12, <2>13, <2>14 DEF Knows
<1> QED BY <1>1, <1>2, <1>3

-----------------------------------------------------------------------------
(* Members of several variants *)

\* A member combines the variants at some places of a list.
Combines(m, list, I) ==
    /\ WellMade(m)
    /\ \A n : Has(m.properties, n) <=> \E i \in I : Has(list[i].properties, n)
    /\ \A n : Requires(m.properties, n) <=> \A i \in I : Requires(list[i].properties, n)
    /\ m.values = NoValues <=> \A i \in I : list[i].values = NoValues
    /\ \A x : Knows(m.values, x) <=> \E i \in I : Knows(list[i].values, x)

LEMMA CombinesOne ==
    ASSUME NEW v \in Variants, NEW list, NEW k, list[k] = v
    PROVE  Combines(v, list, {k})
<1>1. WellMade(v)  BY VariantsAreMembers
<1> QED BY <1>1, Zenon DEF Combines

LEMMA CombinesSame ==
    ASSUME NEW m, NEW list, NEW I, Combines(m, list, I), NEW other, \A i \in I : other[i] = list[i]
    PROVE  Combines(m, other, I)
  BY Zenon DEF Combines

\* Two lists say the same at some places.
Agree(list, other, I) == \A i \in I : other[i] = list[i]

LEMMA CombinesMore ==
    ASSUME NEW m, NEW list, NEW I, Combines(m, list, I), NEW v \in Variants,
           NEW other, Agree(list, other, I), NEW k, other[k] = v
    PROVE  /\ MergeVariants(m, v).name = m.name
           /\ Combines(MergeVariants(m, v), other, I \cup {k})
<1>1. Combines(m, other, I)  BY CombinesSame DEF Agree
<1>2. WellMade(m) /\ WellMade(v)  BY VariantsAreMembers DEF Combines
<1>3. /\ m = [name |-> m.name, values |-> m.values, properties |-> m.properties]
      /\ m.name \in {w.name : w \in Variants}
      /\ m.values \in {NoValues} \cup Seq(Enumerated) /\ m.properties \in Seq(Properties)
      /\ v.values \in {NoValues} \cup Seq(Enumerated) /\ v.properties \in Seq(Properties)
  <2>1. m \in Members /\ v \in Members  BY <1>2 DEF WellMade
  <2> QED BY <2>1 DEF Members
<1>4. PICK p : p = MergeProperties(m.properties, v.properties)  OBVIOUS
<1>5. PICK r : r = MergeValues(m.values, v.values)  OBVIOUS
<1>6. PICK z : z = MergeVariants(m, v)  OBVIOUS
<1>7. z = [name |-> m.name, values |-> r, properties |-> p]
  <2>1. z = [m EXCEPT !.properties = p, !.values = r]  BY <1>4, <1>5, <1>6 DEF MergeVariants
  <2> QED BY <1>3, <2>1
<1>8. z.name = m.name /\ z.values = r /\ z.properties = p  BY <1>7
<1>9. /\ p \in Seq(Properties) /\ NamesOnce(p)
      /\ \A n : Has(p, n) <=> Has(m.properties, n) \/ Has(v.properties, n)
      /\ \A n : Requires(p, n) <=> Requires(m.properties, n) /\ Requires(v.properties, n)
  <2>1. NamesOnce(m.properties) /\ NamesOnce(v.properties)  BY <1>2 DEF WellMade
  <2> QED BY <1>3, <1>4, <2>1, PropertiesMerge
<1>10. /\ r \in {NoValues} \cup Seq(Enumerated)
       /\ r # NoValues => Distinct(r)
       /\ r = NoValues <=> m.values = NoValues /\ v.values = NoValues
       /\ \A x : Knows(r, x) <=> Knows(m.values, x) \/ Knows(v.values, x)
  <2>1. (m.values # NoValues => Distinct(m.values)) /\ (v.values # NoValues => Distinct(v.values))
    BY <1>2 DEF WellMade
  <2> QED BY <1>3, <1>5, <2>1, ValuesMerge
<1>11. WellMade(z)
  <2>1. z \in Members  BY <1>3, <1>7, <1>9, <1>10 DEF Members
  <2> QED BY <2>1, <1>8, <1>9, <1>10 DEF WellMade
<1>12. Combines(z, other, I \cup {k})
  <2>1. ASSUME NEW n PROVE Has(p, n) <=> \E i \in I \cup {k} : Has(other[i].properties, n)
    BY <1>1, <1>9, Zenon DEF Combines
  <2>2. ASSUME NEW n PROVE Requires(p, n) <=> \A i \in I \cup {k} : Requires(other[i].properties, n)
    BY <1>1, <1>9, Zenon DEF Combines
  <2>3. r = NoValues <=> \A i \in I \cup {k} : other[i].values = NoValues
    BY <1>1, <1>10, Zenon DEF Combines
  <2>4. ASSUME NEW x PROVE Knows(r, x) <=> \E i \in I \cup {k} : Knows(other[i].values, x)
    BY <1>1, <1>10, Zenon DEF Combines
  <2> QED BY <1>8, <1>11, <2>1, <2>2, <2>3, <2>4, Zenon DEF Combines
<1> QED BY <1>6, <1>8, <1>12

-----------------------------------------------------------------------------
(* The variants of each member, in order *)

NamedBy(list, n) == {i \in 1..Len(list) : list[i].name = n}
Groups(list, out) == \A j \in 1..Len(out) : Combines(out[j], list, NamedBy(list, out[j].name))
Ordered(list, out) ==
    /\ \A i \in 1..Len(list) : \E j \in 1..Len(out) : out[j].name = list[i].name
    /\ \A j \in 1..Len(out) : NamedBy(list, out[j].name) # {}
    /\ \A j, k \in 1..Len(out) : j < k =>
          \E i \in NamedBy(list, out[j].name) : \A l \in 1..i : list[l].name # out[k].name

\* One longer.
LongerBy(list, other, x) ==
    /\ Len(other) = Len(list) + 1 /\ other[Len(list) + 1] = x
    /\ \A i \in 1..Len(list) : other[i] = list[i]

LEMMA OneMoreNamed ==
    ASSUME NEW list, NEW other, NEW v, LongerBy(list, other, v), Len(list) \in Nat, NEW n
    PROVE  NamedBy(other, n)
             = IF v.name = n THEN NamedBy(list, n) \cup {Len(list) + 1} ELSE NamedBy(list, n)
<1>1. PICK L \in Nat : L = Len(list)  OBVIOUS
<1>2. Len(other) = L + 1 /\ other[L + 1] = v /\ \A i \in 1..L : other[i] = list[i]
  BY <1>1 DEF LongerBy
<1>3. \A i : i \in 1..(L + 1) <=> i \in 1..L \/ i = L + 1  BY <1>1
<1>4. \A i : i \in NamedBy(other, n) <=> i \in 1..(L + 1) /\ other[i].name = n
  BY <1>2 DEF NamedBy
<1>5. \A i : i \in NamedBy(list, n) <=> i \in 1..L /\ list[i].name = n
  BY <1>1 DEF NamedBy
<1>6. \A i : i \in NamedBy(other, n) <=> i \in NamedBy(list, n) \/ (i = L + 1 /\ v.name = n)
  BY <1>2, <1>3, <1>4, <1>5, Zenon
<1> QED BY <1>1, <1>6

\* The members' names, if they do not change.
LEMMA OrderStays ==
    ASSUME NEW list, NEW other, NEW v, LongerBy(list, other, v), Len(list) \in Nat,
           NEW out, NEW next, Len(next) = Len(out), \A j \in 1..Len(out) : next[j].name = out[j].name,
           Ordered(list, out), \E j \in 1..Len(out) : out[j].name = v.name
    PROVE  Ordered(other, next)
<1>1. PICK L \in Nat : L = Len(list)  OBVIOUS
<1>2. Len(other) = L + 1 /\ other[L + 1] = v /\ \A i \in 1..L : other[i] = list[i]
  BY <1>1 DEF LongerBy
<1>3. \A i \in 1..(L + 1) : i \in 1..L \/ i = L + 1  BY <1>1
<1>4. \A n : NamedBy(list, n) \subseteq NamedBy(other, n)  BY OneMoreNamed
<1>5. \A i \in 1..Len(other) : \E j \in 1..Len(next) : next[j].name = other[i].name
  <2> SUFFICES ASSUME NEW i \in 1..(L + 1) PROVE \E j \in 1..Len(out) : out[j].name = other[i].name
    BY <1>2
  <2>1. CASE i \in 1..L  BY <1>1, <1>2, <2>1 DEF Ordered
  <2>2. CASE i = L + 1  BY <1>2, <2>2
  <2> QED BY <1>3, <2>1, <2>2
<1>6. \A j \in 1..Len(next) : NamedBy(other, next[j].name) # {}
  <2> SUFFICES ASSUME NEW j \in 1..Len(out) PROVE NamedBy(other, out[j].name) # {}
    OBVIOUS
  <2>1. NamedBy(list, out[j].name) # {}  BY DEF Ordered
  <2> QED BY <1>4, <2>1
<1>7. ASSUME NEW j \in 1..Len(next), NEW k \in 1..Len(next), j < k
      PROVE  \E i \in NamedBy(other, next[j].name) : \A l \in 1..i : other[l].name # next[k].name
  <2>1. j \in 1..Len(out) /\ k \in 1..Len(out) /\ next[j].name = out[j].name /\ next[k].name = out[k].name
    OBVIOUS
  <2>2. PICK i \in NamedBy(list, out[j].name) : \A l \in 1..i : list[l].name # out[k].name
    BY <1>7, <2>1 DEF Ordered
  <2>3. i \in 1..L  BY <1>1, <2>2 DEF NamedBy
  <2>4. \A l \in 1..i : l \in 1..L  BY <2>3
  <2>5. \A l \in 1..i : other[l].name # out[k].name  BY <1>2, <2>2, <2>4
  <2>6. i \in NamedBy(other, next[j].name)  BY <1>4, <2>1, <2>2
  <2> QED BY <2>1, <2>5, <2>6
<1> QED BY <1>5, <1>6, <1>7 DEF Ordered

LEMMA OrderGrows ==
    ASSUME NEW list, NEW other, NEW v, LongerBy(list, other, v), Len(list) \in Nat,
           NEW out, NEW next, LongerBy(out, next, v), Len(out) \in Nat,
           Ordered(list, out), \A j \in 1..Len(out) : out[j].name # v.name
    PROVE  Ordered(other, next)
<1>1. PICK L \in Nat, M \in Nat : L = Len(list) /\ M = Len(out)  OBVIOUS
<1>2. Len(other) = L + 1 /\ other[L + 1] = v /\ \A i \in 1..L : other[i] = list[i]
  BY <1>1 DEF LongerBy
<1>3. Len(next) = M + 1 /\ next[M + 1] = v /\ \A j \in 1..M : next[j] = out[j]
  BY <1>1 DEF LongerBy
<1>4. \A i \in 1..(L + 1) : i \in 1..L \/ i = L + 1  BY <1>1
<1>5. \A j \in 1..(M + 1) : j \in 1..M \/ j = M + 1  BY <1>1
<1>6. M + 1 \in 1..(M + 1) /\ \A j \in 1..M : j \in 1..(M + 1)  BY <1>1
<1>7. \A n : NamedBy(list, n) \subseteq NamedBy(other, n)  BY OneMoreNamed
<1>8. L + 1 \in NamedBy(other, v.name)  BY <1>1, OneMoreNamed
<1>9. \A i \in 1..L : list[i].name # v.name  BY <1>1 DEF Ordered
<1>10. ASSUME NEW i \in 1..(L + 1) PROVE \E j \in 1..(M + 1) : next[j].name = other[i].name
  <2>1. CASE i \in 1..L
    <3>1. PICK j \in 1..M : out[j].name = list[i].name  BY <1>1, <2>1 DEF Ordered
    <3> QED BY <1>2, <1>3, <1>6, <2>1, <3>1
  <2>2. CASE i = L + 1  BY <1>2, <1>3, <1>6, <2>2
  <2> QED BY <1>4, <2>1, <2>2
<1>11. ASSUME NEW j \in 1..(M + 1) PROVE NamedBy(other, next[j].name) # {}
  <2>1. CASE j \in 1..M
    <3>1. NamedBy(list, out[j].name) # {}  BY <1>1, <2>1 DEF Ordered
    <3> QED BY <1>3, <1>7, <2>1, <3>1
  <2>2. CASE j = M + 1  BY <1>3, <1>8, <2>2
  <2> QED BY <1>5, <2>1, <2>2
<1>12. ASSUME NEW j \in 1..(M + 1), NEW k \in 1..(M + 1), j < k
       PROVE  \E i \in NamedBy(other, next[j].name) : \A l \in 1..i : other[l].name # next[k].name
  <2>1. j \in 1..M  BY <1>1, <1>12
  <2>2. NamedBy(list, out[j].name) # {}  BY <1>1, <2>1 DEF Ordered
  <2>3. CASE k \in 1..M
    <3>1. PICK i \in NamedBy(list, out[j].name) : \A l \in 1..i : list[l].name # out[k].name
      BY <1>1, <1>12, <2>1, <2>3 DEF Ordered
    <3>2. i \in 1..L  BY <1>1, <3>1 DEF NamedBy
    <3>3. \A l \in 1..i : l \in 1..L  BY <3>2
    <3>4. \A l \in 1..i : other[l].name # next[k].name  BY <1>2, <1>3, <2>3, <3>1, <3>3
    <3>5. i \in NamedBy(other, next[j].name)  BY <1>3, <1>7, <2>1, <3>1
    <3> QED BY <3>4, <3>5
  <2>4. CASE k = M + 1
    <3>1. PICK i \in NamedBy(list, out[j].name) : TRUE  BY <2>2
    <3>2. i \in 1..L  BY <1>1, <3>1 DEF NamedBy
    <3>3. \A l \in 1..i : l \in 1..L  BY <3>2
    <3>4. \A l \in 1..i : other[l].name # next[k].name  BY <1>2, <1>3, <1>9, <2>4, <3>3
    <3>5. i \in NamedBy(other, next[j].name)  BY <1>3, <1>7, <2>1, <3>1
    <3> QED BY <3>4, <3>5
  <2> QED BY <1>5, <2>3, <2>4
<1> QED BY <1>2, <1>3, <1>10, <1>11, <1>12 DEF Ordered

MembersInv ==
    /\ declared \in Seq(Variants) /\ merged \in Seq(Members)
    /\ Groups(declared, merged) /\ Ordered(declared, merged)

\* A variant that is folded in is one more of its member's.
LEMMA GroupedRight ==
    ASSUME NEW list \in Seq(Variants), NEW out \in Seq(Members), Groups(list, out), Ordered(list, out),
           NEW v \in Variants
    PROVE  LET other == Append(list, v)
               next == Grouped(out, v)
           IN  /\ other \in Seq(Variants) /\ next \in Seq(Members)
               /\ Groups(other, next) /\ Ordered(other, next)
<1>1. PICK L \in Nat, M \in Nat : L = Len(list) /\ M = Len(out)  BY LenProperties
<1>2. PICK other \in Seq(Variants) : other = Append(list, v)  BY AppendProperties
<1>3. LongerBy(list, other, v)  BY <1>2, AppendProperties DEF LongerBy
<1>4. other[L + 1] = v /\ \A i \in 1..L : other[i] = list[i]  BY <1>1, <1>3 DEF LongerBy
<1>5. \A n : \A i \in NamedBy(list, n) : other[i] = list[i]  BY <1>1, <1>4 DEF NamedBy
<1>6. \A n : NamedBy(other, n) = IF v.name = n THEN NamedBy(list, n) \cup {L + 1} ELSE NamedBy(list, n)
  BY <1>1, <1>3, OneMoreNamed
<1>7. PICK next : next = Grouped(out, v)  OBVIOUS
<1>8. \A j \in 1..M : Combines(out[j], list, NamedBy(list, out[j].name))  BY <1>1 DEF Groups
<1>9. ASSUME NEW j \in 1..M, out[j].name # v.name
      PROVE  Combines(out[j], other, NamedBy(other, out[j].name))
  <2>1. NamedBy(other, out[j].name) = NamedBy(list, out[j].name)  BY <1>6, <1>9
  <2> QED BY <1>5, <1>8, <2>1, CombinesSame
<1>10. CASE \E i \in 1..Len(out) : out[i].name = v.name
  <2>1. next = [i \in 1..M |-> IF out[i].name = v.name THEN MergeVariants(out[i], v) ELSE out[i]]
    BY <1>1, <1>7, <1>10, Zenon DEF Grouped
  <2>2. ASSUME NEW j \in 1..M
        PROVE  /\ next[j].name = out[j].name
               /\ Combines(next[j], other, NamedBy(other, out[j].name))
    <3>1. CASE out[j].name = v.name
      <4>1. next[j] = MergeVariants(out[j], v)  BY <2>1, <3>1
      <4>2. NamedBy(other, out[j].name) = NamedBy(list, out[j].name) \cup {L + 1}  BY <1>6, <3>1
      <4>3. Combines(out[j], list, NamedBy(list, out[j].name))  BY <1>8
      <4>4. \A i \in NamedBy(list, out[j].name) : other[i] = list[i]  BY <1>5
      <4>5. PICK m, I, k : m = out[j] /\ I = NamedBy(list, out[j].name) /\ k = L + 1  OBVIOUS
      <4>6. Combines(m, list, I)  BY <4>3, <4>5
      <4>7. Agree(list, other, I)  BY <4>4, <4>5 DEF Agree
      <4>8. other[k] = v  BY <1>4, <4>5
      <4>9. MergeVariants(m, v).name = m.name /\ Combines(MergeVariants(m, v), other, I \cup {k})
        BY <4>6, <4>7, <4>8, CombinesMore
      <4> QED BY <4>1, <4>2, <4>5, <4>9
    <3>2. CASE out[j].name # v.name
      <4>1. next[j] = out[j]  BY <2>1, <3>2
      <4> QED BY <1>9, <3>2, <4>1
    <3> QED BY <3>1, <3>2
  <2>3. \A j \in 1..M : next[j] \in Members  BY <2>2 DEF Combines, WellMade
  <2>4. next \in [1..M -> Members]  BY <2>1, <2>3
  <2>5. next \in Seq(Members) /\ Len(next) = M  BY <2>4
  <2>6. Groups(other, next)  BY <2>2, <2>5 DEF Groups
  <2>7. Ordered(other, next)  BY <1>1, <1>3, <1>10, <2>2, <2>5, OrderStays
  <2> QED BY <1>2, <1>7, <2>5, <2>6, <2>7
<1>11. CASE ~\E i \in 1..Len(out) : out[i].name = v.name
  <2>1. next = Append(out, v)  BY <1>7, <1>11, Zenon DEF Grouped
  <2>2. v \in Members  BY VariantsAreMembers DEF WellMade
  <2>3. next \in Seq(Members) /\ LongerBy(out, next, v)  BY <2>1, <2>2, AppendProperties DEF LongerBy
  <2>4. Len(next) = M + 1 /\ next[M + 1] = v /\ \A j \in 1..M : next[j] = out[j]
    BY <1>1, <2>3 DEF LongerBy
  <2>5. NamedBy(list, v.name) = {}
    <3> SUFFICES ASSUME NEW i \in 1..Len(list), list[i].name = v.name PROVE FALSE
      BY DEF NamedBy
    <3> QED BY <1>11 DEF Ordered
  <2>6. Combines(v, other, NamedBy(other, v.name))
    <3>1. NamedBy(other, v.name) = {L + 1}  BY <1>6, <2>5
    <3> QED BY <1>4, <3>1, CombinesOne
  <2>7. \A j \in 1..(M + 1) : j \in 1..M \/ j = M + 1  BY <1>1
  <2>8. Groups(other, next)
    <3> SUFFICES ASSUME NEW j \in 1..(M + 1) PROVE Combines(next[j], other, NamedBy(other, next[j].name))
      BY <2>4 DEF Groups
    <3>1. CASE j \in 1..M
      <4>1. next[j] = out[j] /\ out[j].name # v.name  BY <1>1, <1>11, <2>4, <3>1
      <4> QED BY <1>9, <3>1, <4>1
    <3>2. CASE j = M + 1  BY <2>4, <2>6, <3>2
    <3> QED BY <2>7, <3>1, <3>2
  <2>9. Ordered(other, next)  BY <1>1, <1>3, <1>11, <2>3, OrderGrows
  <2> QED BY <1>2, <1>7, <2>3, <2>8, <2>9
<1> QED BY <1>10, <1>11

\* The inductive invariant: the members are what their variants make, and there
\* are finitely many references.
CodegenInv == MembersInv /\ IsFiniteSet(fields)

LEMMA CodegenStarts == CodegenInit => CodegenInv
<1> SUFFICES ASSUME CodegenInit PROVE CodegenInv
  OBVIOUS
<1>1. declared = <<>> /\ merged = <<>> /\ fields = {}  BY DEF CodegenInit
<1>2. declared \in Seq(Variants) /\ merged \in Seq(Members) /\ Len(declared) = 0 /\ Len(merged) = 0
  BY <1>1, EmptySeq
<1>3. 1..0 = {}  OBVIOUS
<1>4. Groups(declared, merged) /\ Ordered(declared, merged)
  BY <1>2, <1>3 DEF Groups, Ordered
<1> QED BY <1>1, <1>2, <1>4, FS_EmptySet DEF CodegenInv, MembersInv

LEMMA CodegenSteps == CodegenInv /\ [CodegenNext]_codegenVars => CodegenInv'
<1> SUFFICES ASSUME CodegenInv, [CodegenNext]_codegenVars PROVE CodegenInv'
  OBVIOUS
<1>1. CASE DeclareVariant
  <2>1. PICK v \in Variants : Declares(v)  BY <1>1 DEF DeclareVariant
  <2>2. declared' = Append(declared, v) /\ merged' = Grouped(merged, v) /\ fields' = fields
    BY <2>1 DEF Declares
  <2>3. declared' \in Seq(Variants) /\ merged' \in Seq(Members)
        /\ Groups(declared', merged') /\ Ordered(declared', merged')
    BY <2>2, GroupedRight DEF CodegenInv, MembersInv
  <2> QED BY <2>2, <2>3 DEF CodegenInv, MembersInv
<1>2. CASE DeclareField
  <2>1. PICK f : fields' = fields \cup {f} /\ UNCHANGED memberVars
    BY <1>2 DEF DeclareField, Refers
  <2>2. IsFiniteSet(fields')  BY <2>1, FS_AddElement DEF CodegenInv
  <2> QED BY <2>1, <2>2 DEF CodegenInv, MembersInv, memberVars
<1>3. CASE UNCHANGED codegenVars
  BY <1>3 DEF CodegenInv, MembersInv, codegenVars
<1> QED BY <1>1, <1>2, <1>3 DEF CodegenNext

LEMMA MembersServe ==
    ASSUME MembersInv
    PROVE  GeneratedInOrder /\ ServesEveryDebuggee
<1>1. \A m : VariantsOf(m) = NamedBy(declared, m.name)  BY DEF VariantsOf, NamedBy
<1>2. GeneratedInOrder
  BY <1>1, Zenon DEF MembersInv, Ordered, GeneratedInOrder
<1>3. ServesEveryDebuggee
  <2> SUFFICES ASSUME NEW j \in 1..Len(merged)
               PROVE  LET m == merged[j] IN
                      /\ NamesOnce(m.properties)
                      /\ \A n \in PropertyNames :
                           /\ Has(m.properties, n) <=> \E i \in VariantsOf(m) : Has(declared[i].properties, n)
                           /\ Requires(m.properties, n)
                                <=> \A i \in VariantsOf(m) : Requires(declared[i].properties, n)
                      /\ \A i \in VariantsOf(m) : declared[i].values # NoValues => m.values # NoValues
                      /\ m.values # NoValues =>
                           /\ OnlyOnce(m.values)
                           /\ \A x \in Enumerated :
                                (\E k \in 1..Len(m.values) : m.values[k] = x) <=>
                                \E i \in VariantsOf(m) :
                                    /\ declared[i].values # NoValues
                                    /\ \E k \in 1..Len(declared[i].values) : declared[i].values[k] = x
    BY DEF ServesEveryDebuggee
  <2>1. PICK m : m = merged[j]  OBVIOUS
  <2>2. PICK I : I = VariantsOf(m)  OBVIOUS
  <2>3. Combines(m, declared, I)  BY <1>1, <2>1, <2>2 DEF MembersInv, Groups
  <2>4. NamesOnce(m.properties) /\ (m.values # NoValues => OnlyOnce(m.values))
    BY <2>3 DEF Combines, WellMade, Distinct, OnlyOnce
  <2>5. /\ \A n : Has(m.properties, n) <=> \E i \in I : Has(declared[i].properties, n)
        /\ \A n : Requires(m.properties, n) <=> \A i \in I : Requires(declared[i].properties, n)
        /\ \A i \in I : declared[i].values # NoValues => m.values # NoValues
    BY <2>3, Zenon DEF Combines
  <2>6. ASSUME m.values # NoValues, NEW x
        PROVE  (\E k \in 1..Len(m.values) : m.values[k] = x) <=>
                 \E i \in I : /\ declared[i].values # NoValues
                              /\ \E k \in 1..Len(declared[i].values) : declared[i].values[k] = x
    <3>1. Knows(m.values, x) <=> \E i \in I : Knows(declared[i].values, x)  BY <2>3, Zenon DEF Combines
    <3> QED BY <2>6, <3>1, Zenon DEF Knows, InList
  <2> QED BY <2>1, <2>2, <2>4, <2>5, <2>6, Zenon
<1> QED BY <1>2, <1>3

\* Whatever variants are declared, in whatever order, and however types refer to
\* each other, the generated types serve every platform and have a finite size.
\* [merge_by, merge_properties, merge_types, analyse_cycles, reaches]
THEOREM GeneratedTypesAlwaysFit == CodegenSpec => []GeneratedTypesFit
<1>1. CodegenInv => GeneratedTypesFit
  BY MembersServe, SizesAreFinite DEF CodegenInv, GeneratedTypesFit
<1> QED BY <1>1, CodegenStarts, CodegenSteps, PTL DEF CodegenSpec

=============================================================================
