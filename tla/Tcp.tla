-------------------------------- MODULE Tcp --------------------------------
(***************************************************************************)
(* TcpInspectorServer and TcpTransport: one connection to an inspector     *)
(* server, used for a listing of targets or for a session with one target. *)
(*                                                                         *)
(* The server's messages are a stream of bytes that reads cut anywhere: a  *)
(* message is two units, its header and the rest of it, and a read returns *)
(* any number of units sent and not yet read.  Time is counted in the read *)
(* slices of the handshake.                                                *)
(***************************************************************************)
EXTENDS Naturals, Sequences, FiniteSets, SequencesExt, Excerpt

CONSTANTS
    MaxMessages,  \* bound on the server's messages
    MaxBad,       \* bound on those that no inspector server sends
    Deadline      \* slices until the handshake is given up

ASSUME TcpConstants ==
    /\ MaxMessages \in Nat /\ MaxBad \in Nat
    /\ Deadline \in Nat \ {0}

VARIABLES
    \* the server
    out,      \* messages it has sent
    sock,     \* "open", "eof" once it closed the socket, "reset" if it broke
    setup,    \* it received Setup
    told,     \* it received FrontendDidClose
    \* the client's connection
    read,     \* units read from the socket
    taken,    \* messages decoded; the units behind them are `buffer`
    phase,    \* see Phases
    clock,    \* slices since the handshake began
    waiting,  \* whether the handshake awaits a read
    saw,      \* list's saw_setup
    \* TcpTransport
    pending,  \* frames decoded and not yet returned
    got,      \* frames recv has returned
    ended,    \* "open", or how recv ended: "none", "error"
    closed,   \* TcpTransport::closed
    done      \* the session has called close

serverVars == <<out, sock, setup, told>>
streamVars == <<read, taken>>
handshakeVars == <<phase, clock, waiting, saw>>
transportVars == <<pending, got, ended, closed, done>>
vars == <<serverVars, streamVars, handshakeVars, transportVars>>

Phases == {"new", "listing", "listedSome", "listedNone", "listFailed",
           "handshake", "live", "attachFailed"}
Clients == {"handshake", "listing"}

\* "targets" and "empty": SetTargetList.  "odd": a message of the client's
\* side.  "undecodable": a body that does not decode.  "badSize": a header
\* that announces an impossible body.
BadKinds == {"odd", "undecodable", "badSize"}
Kinds == {"didSetup", "targets", "empty", "frame", "didClose"} \cup BadKinds
Messages == [kind : Kinds, n : 0..MaxMessages]

Holds(K, ms) == \E i \in DOMAIN ms : ms[i].kind \in K
Count(K, ms) == Cardinality({i \in DOMAIN ms : ms[i].kind \in K})

FramePlaces(ms) == {i \in DOMAIN ms : ms[i].kind = "frame"}

\* Faulty: one frame of a batch is kept.
BadFrames(ms) ==
    LET kept == Excerpt(ms, {i \in FramePlaces(ms) : \A j \in FramePlaces(ms) : i <= j})
    IN  [k \in DOMAIN kept |-> kept[k].n]

Frames(ms) ==
    LET kept == Excerpt(ms, FramePlaces(ms)) IN [k \in DOMAIN kept |-> kept[k].n]

Sent == Count({"frame"}, out)

Init ==
    /\ out = <<>> /\ sock = "open" /\ setup = FALSE /\ told = FALSE
    /\ read = 0 /\ taken = 0
    /\ phase = "new" /\ clock = 0 /\ waiting = FALSE /\ saw = FALSE
    /\ pending = <<>> /\ got = <<>> /\ ended = "open" /\ closed = FALSE /\ done = FALSE

-----------------------------------------------------------------------------
(* The server, external *)

\* What it may send next.  Frames follow Setup; after DidClose nothing does.
MaySend(k) ==
    /\ phase # "new"
    /\ k = "didSetup" => ~Holds({k}, out)
    /\ k = "frame" => setup
    /\ k \in BadKinds => Count(BadKinds, out) < MaxBad
    /\ ~Holds({"didClose"}, out)

ServerSends ==
    /\ sock = "open"
    /\ Len(out) < MaxMessages
    /\ \E k \in Kinds :
          /\ MaySend(k)
          /\ out' = Append(out, [kind |-> k, n |-> IF k = "frame" THEN Sent + 1 ELSE 0])
    /\ UNCHANGED <<sock, setup, told, streamVars, handshakeVars, transportVars>>

ServerHangsUp ==
    /\ sock = "open" /\ phase # "new"
    /\ sock' \in {"eof", "reset"}
    /\ UNCHANGED <<out, setup, told, streamVars, handshakeVars, transportVars>>

-----------------------------------------------------------------------------
(* Reading and decoding *)

\* The lengths a read may leave behind it.
Reads == (read + 1)..(2 * Len(out))
AtEof == sock = "eof" /\ read = 2 * Len(out)

\* decode_messages after r units: the messages that are complete ...
Batch(r) == SubSeq(out, taken + 1, r \div 2)

\* ... all of them lost if one does not decode, or if the next one's header is
\* enough to tell.
Malformed(r) ==
    \/ Holds({"undecodable", "badSize"}, Batch(r))
    \/ r % 2 = 1 /\ out[(r + 1) \div 2].kind = "badSize"

\* The messages of the batch before the first of these kinds.
Before(K, ms) ==
    SubSeq(ms, 1, Cardinality({n \in DOMAIN ms : \A k \in 1..n : ms[k].kind \notin K}))

-----------------------------------------------------------------------------
(* TcpInspectorServer::attach and list *)

\* The connection is refused, or the library cannot be hashed.
ConnectFails ==
    /\ phase = "new"
    /\ phase' \in {"attachFailed", "listFailed"}
    /\ UNCHANGED <<serverVars, streamVars, clock, waiting, saw, transportVars>>

\* Connected, and SetupInspectorClient is written.
Connects ==
    /\ phase = "new"
    /\ phase' \in Clients
    /\ UNCHANGED <<serverVars, streamVars, clock, waiting, saw, transportVars>>

\* Faulty: every slice starts the deadline anew.
BadSliceEnds ==
    /\ phase \in Clients /\ waiting
    /\ waiting' = FALSE
    /\ UNCHANGED <<serverVars, streamVars, phase, clock, saw, transportVars>>

\* A slice of three seconds ends without data.
SliceEnds ==
    /\ phase \in Clients /\ waiting
    /\ clock' = clock + 1
    /\ waiting' = FALSE
    /\ UNCHANGED <<serverVars, streamVars, phase, saw, transportVars>>

\* The read fails, or finds the socket closed.
HandshakeLoses ==
    /\ phase \in Clients /\ waiting
    /\ AtEof \/ sock = "reset"
    /\ phase' = IF phase = "listing" THEN "listFailed" ELSE "attachFailed"
    /\ UNCHANGED <<serverVars, streamVars, clock, waiting, saw, transportVars>>

\* attach: what a read returned waits for the look at the clock.
AttachReads ==
    /\ phase = "handshake" /\ waiting
    /\ read' \in Reads
    /\ clock' \in {clock, clock + 1}
    /\ waiting' = FALSE
    /\ UNCHANGED <<serverVars, taken, phase, saw, transportVars>>

\* wait_for_did_setup, the turn of its loop up to the next read, and the
\* Setup that follows it; what the batch holds behind DidSetup is dropped.
AttachLooks ==
    /\ phase = "handshake" /\ ~waiting
    /\ \/ /\ \/ clock >= Deadline
             \/ Malformed(read)
             \/ Before({"didSetup"}, Batch(read)) # Before({"didSetup", "odd", "frame"}, Batch(read))
          /\ phase' = "attachFailed"
          /\ UNCHANGED <<setup, taken, waiting>>
       \/ /\ clock < Deadline /\ ~Malformed(read)
          /\ Before({"didSetup"}, Batch(read)) = Before({"didSetup", "odd", "frame"}, Batch(read))
          /\ taken' = read \div 2
          /\ IF ~Holds({"didSetup"}, Batch(read))
             THEN waiting' = TRUE /\ UNCHANGED <<setup, phase>>
             ELSE /\ \/ phase' = "live" /\ setup' = TRUE
                     \/ sock # "open" /\ phase' = "attachFailed" /\ UNCHANGED setup
                  /\ UNCHANGED waiting
    /\ UNCHANGED <<out, sock, told, read, clock, saw, transportVars>>

\* list: the deadline is looked at before a read only.
ListLooks ==
    /\ phase = "listing" /\ ~waiting
    /\ IF clock < Deadline THEN waiting' = TRUE /\ UNCHANGED phase
       ELSE phase' = (IF saw THEN "listedNone" ELSE "listFailed") /\ UNCHANGED waiting
    /\ UNCHANGED <<serverVars, streamVars, clock, saw, transportVars>>

\* The messages that end a listing.
ListAnswers == {"targets"}

\* list: a read, and every message it completes in order.
ListReads ==
    /\ phase = "listing" /\ waiting
    /\ clock' \in {clock, clock + 1}
    /\ \E r \in Reads :
          LET whole == Batch(r)
              before == Before(ListAnswers, whole) IN
          /\ read' = r
          /\ taken' = r \div 2
          /\ saw' = (saw \/ Holds({"didSetup"}, before))
          /\ phase' = IF Malformed(r) \/ Holds({"odd", "frame"}, before) THEN "listFailed"
                      ELSE IF before = whole THEN "listing"
                      ELSE IF whole[Len(before) + 1].kind = "targets" THEN "listedSome" ELSE "listedNone"
    /\ waiting' = FALSE
    /\ UNCHANGED <<serverVars, transportVars>>

-----------------------------------------------------------------------------
(* TcpTransport *)

\* recv hands out the next frame decoded.
RecvPops ==
    /\ phase = "live" /\ ~closed /\ ended = "open"
    /\ pending # <<>>
    /\ got' = Append(got, Head(pending))
    /\ pending' = Tail(pending)
    /\ UNCHANGED <<serverVars, streamVars, handshakeVars, ended, closed, done>>

\* Faulty: the close outranks the frames that arrived with it.
BadPulled(ms) ==
    IF Holds({"odd"}, ms) THEN "error"
    ELSE IF Holds({"didClose"}, ms) THEN "none" ELSE "open"

\* pull_pending, and what recv makes of it: a DidClose counts only in a batch
\* without frames.
Pulled(ms) ==
    IF Holds({"odd"}, ms) THEN "error"
    ELSE IF Frames(ms) = <<>> /\ Holds({"didClose"}, ms) THEN "none" ELSE "open"

\* recv with nothing pending: a read and the pull behind it.  (The pull before
\* the read finds nothing, since the last one took every complete message.)
RecvReads ==
    /\ phase = "live" /\ ~closed /\ ended = "open"
    /\ pending = <<>>
    /\ read' \in Reads
    /\ IF Malformed(read')
       THEN ended' = "error" /\ UNCHANGED <<taken, pending>>
       ELSE /\ taken' = read' \div 2
            /\ ended' = Pulled(Batch(read'))
            /\ pending' = Frames(Before({"odd"}, Batch(read')))
    /\ closed' = (ended' = "none")
    /\ UNCHANGED <<serverVars, handshakeVars, got, done>>

\* recv, the socket being closed or broken.
RecvEnds ==
    /\ phase = "live" /\ ~closed /\ ended = "open"
    /\ pending = <<>>
    /\ \/ AtEof /\ ended' = "none" /\ closed' = TRUE
       \/ sock = "reset" /\ ended' = "error" /\ UNCHANGED closed
    /\ UNCHANGED <<serverVars, streamVars, handshakeVars, pending, got, done>>

\* Faulty: closes without a word.
BadCloses ==
    /\ phase = "live" /\ ~done
    /\ done' = TRUE
    /\ closed' = TRUE
    /\ UNCHANGED <<serverVars, streamVars, handshakeVars, pending, got, ended>>

\* close, on shutdown, after an error or a failed send: unless the peer's end
\* has been seen, FrontendDidClose is written, which may fail on a dead socket.
Closes ==
    /\ phase = "live" /\ ~done
    /\ done' = TRUE
    /\ closed' = TRUE
    /\ told' \in (IF closed THEN {told} ELSE IF sock = "open" THEN {TRUE} ELSE BOOLEAN)
    /\ UNCHANGED <<out, sock, setup, streamVars, handshakeVars, pending, got, ended>>

-----------------------------------------------------------------------------
Handshake == SliceEnds \/ HandshakeLoses \/ AttachReads \/ AttachLooks \/ ListLooks \/ ListReads
Recv == RecvPops \/ RecvReads \/ RecvEnds

Next ==
    \/ ServerSends \/ ServerHangsUp
    \/ ConnectFails \/ Connects \/ Handshake
    \/ Recv \/ Closes

Spec == Init /\ [][Next]_vars

\* The timer and the socket wake the client's task; a session with calls
\* under way polls recv.  Nothing is assumed of the server.
FairSpec == Spec /\ WF_vars(Handshake) /\ WF_vars(Recv)

-----------------------------------------------------------------------------
\* The state has its declared shape, the clock never passes the deadline, and
\* between two calls of recv the buffer holds no complete message.
\* [TcpTransport, wait_for_did_setup]
TypeOK ==
    /\ out \in Seq(Messages)
    /\ sock \in {"open", "eof", "reset"}
    /\ setup \in BOOLEAN /\ told \in BOOLEAN
    /\ read \in 0..(2 * Len(out))
    /\ taken \in 0..(read \div 2)
    /\ (phase = "live" /\ ended = "open") => taken = read \div 2
    /\ phase \in Phases
    /\ clock \in 0..Deadline
    /\ waiting \in BOOLEAN /\ saw \in BOOLEAN
    /\ pending \in Seq(1..MaxMessages)
    /\ got \in Seq(1..MaxMessages)
    /\ ended \in {"open", "none", "error"}
    /\ closed \in BOOLEAN /\ done \in BOOLEAN

Stream == INSTANCE FrameStream WITH
    MaxFrames <- MaxMessages,
    sent <- Sent,
    gone <- sock # "open" \/ Holds({"didClose"}, out)

\* recv keeps the promise of the Transport trait: every frame once, in the
\* server's order, however reads cut the stream, and `None` only behind the
\* last of them.  [TcpTransport::recv, "reassemble messages across reads"]
ImplementsTransport == Stream!Spec

\* A listing that finds nothing has seen the server's setup and no target in
\* anything it read; one that finds some has read them.  [Discovery::list]
ListsWhatItRead ==
    /\ phase = "listedNone" =>
          LET seen == SubSeq(out, 1, taken) IN
          ~Holds({"targets"}, seen) /\ Holds({"didSetup"}, seen)
    /\ phase = "listedSome" => Holds({"targets"}, SubSeq(out, 1, taken))

\* A target that was set up is told when the session closes, unless the server
\* has hung up: it is not left marked as being inspected.  [close, "send
\* `FrontendDidClose` on `close()`"]
TargetReleased ==
    done => told \/ sock # "open" \/ Holds({"didClose"}, out)

\* attach and list return, whatever the server does or leaves undone.
\* [wait_for_did_setup and list, the deadline of fifteen seconds]
HandshakeReturns == phase \in Clients ~> phase \notin Clients

\* Every frame sent to a live session is returned by recv, and so is the end
\* of the socket, unless recv ended before or the session closed.
\* [TcpTransport::recv]
FramesArrive ==
    /\ \A n \in 1..MaxMessages :
          (phase = "live" /\ n <= Sent) ~> (Contains(got, n) \/ ended # "open" \/ done)
    /\ (phase = "live" /\ sock # "open") ~> (ended # "open" \/ done)

=============================================================================
