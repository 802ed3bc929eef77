------------------------------- MODULE Replay -------------------------------
(***************************************************************************)
(* ReplayTransport: a recorded trace in the place of a live debuggee, and  *)
(* the session that correlates what it delivers.                           *)
(*                                                                         *)
(* The trace is one that Recorder wrote and that was flattened to bare     *)
(* frames.  The caller need not know it: it issues any methods in any      *)
(* order, with the ids the session allocates.                              *)
(***************************************************************************)
EXTENDS Recorder, Excerpt

CONSTANTS MaxCalls    \* bound on the session's request ids

ASSUME ReplayConstants == MaxCalls \in Nat

VARIABLES
    trace,    \* the recording, once it is loaded
    loaded,
    front,    \* how many entries are no longer in `remaining`
    pending,  \* frames ready for recv()
    idMap,    \* recorded request id -> the caller's, or NoId
    closed,   \* ReplayTransport::closed
    called,   \* what the session asked, by request id
    matched,  \* the entry each request was matched with
    got,      \* the frames recv() returned, in order
    answer    \* the entry that completed each request

vars == <<trace, loaded, front, pending, idMap, closed, called, matched, got, answer, recorderVars>>

NoEntry == 0
Ids == 1..MaxCalls
\* A request and its reply for every id, and the events.
MaxTrace == 2 * HandId + MaxEvents
Positions == 1..MaxTrace

SendsIn(t) == {p \in DOMAIN t : t[p].kind = "send"}

Init ==
    /\ RecordInit
    /\ trace = <<>>
    /\ loaded = FALSE
    /\ front = 0
    /\ pending = <<>>
    /\ idMap = [r \in RecordedIds |-> NoId]
    /\ closed = FALSE
    /\ called = [i \in Ids |-> NoMethod]
    /\ matched = [i \in Ids |-> NoEntry]
    /\ got = <<>>
    /\ answer = [i \in Ids |-> NoEntry]

\* record writes the trace and is done, and from_str loads it flattened.
Load ==
    /\ waiting = Idle
    /\ page # NoPage
    /\ trace' = Flatten(raw)
    /\ loaded' = TRUE
    /\ raw' = <<>> /\ waiting' = Done /\ owed' = {} /\ page' = NoPage
    /\ nextId' = 1 /\ pages' = <<>> /\ events' = 0
    /\ UNCHANGED <<front, pending, idMap, closed, called, matched, got, answer>>

-----------------------------------------------------------------------------
Issued == {i \in Ids : called[i] # NoMethod}

\* rewrite_id, under the table `map`.
Rewritten(p, map) ==
    [entry |-> p,
     id |-> IF trace[p].kind = "reply" /\ map[trace[p].id] # NoId
            THEN map[trace[p].id] ELSE trace[p].id]

\* The received frames among the entries from..to, in order; the requests
\* among them are dropped.
Arrivals(from, to) ==
    Excerpt([p \in DOMAIN trace |-> p], {p \in from..to : trace[p].kind # "send"})

\* Faulty: drops the received frames it should queue.
BadReceives(from, to, map) == <<>>

Receives(from, to, map) ==
    LET kept == Arrivals(from, to) IN [k \in DOMAIN kept |-> Rewritten(kept[k], map)]

\* The last of the received entries that directly follow entry p.
LeadingEnd(p) ==
    CHOOSE e \in p..Len(trace) :
        /\ \A q \in (p + 1)..e : trace[q].kind # "send"
        /\ e = Len(trace) \/ trace[e + 1].kind = "send"

\* The first recorded request of this method not yet reached.
Matches(p, m) ==
    /\ p \in (front + 1)..Len(trace)
    /\ trace[p].kind = "send" /\ trace[p].method = m
    /\ \A q \in (front + 1)..(p - 1) : ~(trace[q].kind = "send" /\ trace[q].method = m)

\* The session's next request, with the next id.
Calls(i, m) ==
    /\ loaded /\ ~closed
    /\ called[i] = NoMethod
    /\ \A j \in 1..(i - 1) : called[j] # NoMethod
    /\ called' = [called EXCEPT ![i] = m]

\* Faulty: renumbers the frames before it knows the new id.
BadMapped(p, i) == idMap

\* id_map after request i was matched with entry p.
Mapped(p, i) == [idMap EXCEPT ![trace[p].id] = i]

\* What is left starts after the matched request and what directly follows it.
Reached(p) == LeadingEnd(p)

\* send: pass over what lies before the match, then queue what directly
\* follows it, renumbered with the new id known.
ReplaySend(i, m) ==
    /\ Calls(i, m)
    /\ \E p \in Positions :
          /\ Matches(p, m)
          /\ matched' = [matched EXCEPT ![i] = p]
          /\ idMap' = Mapped(p, i)
          /\ pending' = pending \o Receives(front + 1, p - 1, idMap)
                                \o Receives(p + 1, LeadingEnd(p), idMap')
          /\ front' = Reached(p)
    /\ UNCHANGED <<trace, loaded, closed, got, answer, recorderVars>>

\* A request the rest of the trace does not hold: the session fails it, and
\* closes.
SendFails(i, m) ==
    /\ Calls(i, m)
    /\ \A p \in Positions : ~Matches(p, m)
    /\ closed' = TRUE
    /\ UNCHANGED <<trace, loaded, front, pending, idMap, matched, got, answer, recorderVars>>

\* complete_pending: the session correlates by id.
Completes(f) ==
    answer' = IF trace[f.entry].kind = "reply" /\ f.id \in Issued /\ answer[f.id] = NoEntry
              THEN [answer EXCEPT ![f.id] = f.entry] ELSE answer

\* recv, polled by a session that has sent something.  What leads the rest is
\* queued since the last send, so with nothing pending recv answers None and
\* changes nothing: no action of its own.
Recv ==
    /\ ~closed
    /\ Issued # {}
    /\ pending # <<>>
    /\ got' = Append(got, Head(pending))
    /\ pending' = Tail(pending)
    /\ Completes(Head(pending))
    /\ UNCHANGED <<trace, loaded, front, idMap, closed, called, matched, recorderVars>>

Next ==
    \/ (RecordNext /\ UNCHANGED <<trace, loaded, front, pending, idMap, closed, called, matched, got, answer>>)
    \/ Load
    \/ (\E i \in Ids, m \in Methods : ReplaySend(i, m) \/ SendFails(i, m))
    \/ Recv

Spec == Init /\ [][Next]_vars

FairSpec == Spec /\ WF_vars(Recv)

-----------------------------------------------------------------------------
Frames == [entry : Positions, id : RecordedIds \cup Ids \cup {NoId}]

\* The state has its declared shape.  [ReplayTransport]
TypeOK ==
    /\ loaded \in BOOLEAN
    /\ front \in 0..Len(trace)
    /\ pending \in Seq(Frames)
    /\ idMap \in [RecordedIds -> Ids \cup {NoId}]
    /\ closed \in BOOLEAN
    /\ called \in [Ids -> Methods \cup {NoMethod}]
    /\ matched \in [Ids -> Positions \cup {NoEntry}]
    /\ got \in Seq(Frames)
    /\ answer \in [Ids -> Positions \cup {NoEntry}]

Delivered == got \o pending

\* Whatever requests are skipped, no received frame of the part of the trace
\* gone by is lost, repeated or reordered.  [ReplayTransport::send, "queueing
\* anything received along the way"]
NothingDropped == [k \in DOMAIN Delivered |-> Delivered[k].entry] = Arrivals(1, front)

IsReplyTo(q, p) == trace[q].kind = "reply" /\ trace[q].id = trace[p].id

Skipped == {p \in SendsIn(trace) : p <= front} \ {matched[i] : i \in Ids}

OwnAnswer(i) == matched[i] # NoEntry /\ IsReplyTo(answer[i], matched[i])

\* The reply of a root command: its request was dropped in the flattening.
Stray(q) == trace[q].was = "rootReply"

\* As long as the caller skips no recorded request, every call that is
\* completed is completed by its own reply, although recorder and session
\* number differently and the envelopes' acknowledgements have been taken
\* out; only the reply of a root command, which lost its request, may
\* complete a call it does not belong to.
\* [flatten_multiplexed_trace, ReplayTransport, the session's correlation]
CorrelatesUnlessSkipped ==
    Skipped = {} =>
        \A i \in Ids : (answer[i] # NoEntry /\ ~Stray(answer[i])) => OwnAnswer(i)

\* A call whose recorded reply lies in the part of the trace gone by returns.
\* [ReplayTransport::recv]
AnswerArrives ==
    \A i \in Ids :
        (matched[i] # NoEntry /\ \E q \in 1..front : IsReplyTo(q, matched[i]))
            ~> (answer[i] # NoEntry \/ closed)

=============================================================================
