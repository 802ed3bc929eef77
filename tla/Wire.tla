-------------------------------- MODULE Wire --------------------------------
(***************************************************************************)
(* The inspector socket between two programs, byte by byte: one writes     *)
(* messages, reads cut the stream of bytes anywhere, and the other decodes *)
(* what it has.  In the messages are frames of the inspector protocol,     *)
(* which are put together member by member and into envelopes.             *)
(*                                                                         *)
(* `written`, `ends` and `bytes` are history: the messages, where each ends *)
(* in the stream, and the stream.                                          *)
(***************************************************************************)
EXTENDS Integers, Sequences

CONSTANTS
    MaxBody,       \* MAX_MESSAGE_BODY_SIZE
    Traffic,       \* messages that may be written
    Damages,       \* bytes no decoder takes for a message
    MaxWritten,    \* bound on the messages
    Targets,       \* sub-targets
    Methods, Parameters   \* of frames

F == INSTANCE Framing
D == INSTANCE Dialect

\* The parameters of a message are those of its kind.
WellFormed(event) ==
    /\ event = F!Event(event.name, event.ids, event.data)
    /\ event.ids \in Seq(Nat) /\ event.data \in Seq(Nat)
    /\ Len(event.ids) =
         CASE F!Type(event.name) \in {"(tt)", "(tts)"} -> 2
           [] F!Type(event.name) = "(ta(tsssb))" -> 1
           [] OTHER -> 0
    /\ F!Type(event.name) \in {"(tt)", "none"} => event.data = <<>>
    /\ F!Type(event.name) # "unknown"

ASSUME WireConstants ==
    /\ MaxBody \in Nat
    /\ MaxWritten \in Nat
    /\ \A ev \in Traffic : WellFormed(ev) /\ 2 + Len(F!Payload(ev)) <= MaxBody
    /\ \A d \in Damages : d \in Seq(Nat) /\ F!TakeOne(d).is = "malformed"

VARIABLES
    written,   \* the messages
    ends,      \* where each ends
    bytes,     \* the stream
    damaged,   \* whether damage was written behind the messages
    arrived,   \* how many bytes have been read
    reader,    \* the messages out, the receive buffer, whether decoding failed
    frame      \* a JSON object of the protocol

trafficVars == <<written, ends, bytes, damaged, arrived, reader>>
wireVars == <<written, ends, bytes, damaged, arrived, reader, frame>>

NoMembers == D!Json(D!Absent, D!Absent, D!Absent, D!Absent, D!Absent)

WireInit ==
    /\ written = <<>> /\ ends = <<>> /\ bytes = <<>> /\ damaged = FALSE
    /\ arrived = 0 /\ reader = [events |-> <<>>, buffer |-> <<>>, failed |-> FALSE]
    /\ frame = NoMembers

-----------------------------------------------------------------------------
(* The stream *)

Writes(ev) ==
    /\ ~damaged
    /\ Len(written) < MaxWritten
    /\ written' = Append(written, ev)
    /\ bytes' = bytes \o F!EncodeMessage(ev)
    /\ ends' = Append(ends, Len(bytes'))
    /\ UNCHANGED <<damaged, arrived, reader, frame>>

\* External: the other program is not what it should be.
Garbles(d) ==
    /\ ~damaged
    /\ damaged' = TRUE
    /\ bytes' = bytes \o d
    /\ UNCHANGED <<written, ends, arrived, reader, frame>>

\* A read returns some of the bytes that are there; after an error nobody reads.
ReadsSome ==
    /\ ~reader.failed
    /\ arrived' \in (arrived + 1)..Len(bytes)
    /\ reader' = F!Read(reader, SubSeq(bytes, arrived + 1, arrived'))
    /\ UNCHANGED <<written, ends, bytes, damaged, frame>>

-----------------------------------------------------------------------------
(* Frames *)

WriteMember ==
    /\ \/ frame.id = D!Absent /\ frame' = [frame EXCEPT !.id = <<1>>]
       \/ frame.method = D!Absent /\ \E m \in Methods : frame' = [frame EXCEPT !.method = <<m>>]
       \/ frame.params = D!Absent /\ \E p \in Parameters : frame' = [frame EXCEPT !.params = <<p>>]
       \/ frame.result = D!Absent /\ frame' = [frame EXCEPT !.result = <<1>>]
       \/ frame.error = D!Absent /\ frame' = [frame EXCEPT !.error = <<1>>]
    /\ UNCHANGED trafficVars

PutInEnvelope ==
    /\ \E t \in Targets : frame' = D!Dispatched(frame, t)
    /\ UNCHANGED trafficVars

-----------------------------------------------------------------------------
StreamNext == (\E ev \in Traffic : Writes(ev)) \/ (\E d \in Damages : Garbles(d)) \/ ReadsSome
FrameNext == WriteMember \/ PutInEnvelope
WireNext == StreamNext \/ FrameNext

WireSpec == WireInit /\ [][WireNext]_wireVars

-----------------------------------------------------------------------------
\* The messages out are those that went in, up to the last that has arrived
\* whole; when all has arrived nothing is left but an error, if there is cause.
StreamIntact ==
    LET out == Len(reader.events) IN
    /\ out <= Len(written) /\ reader.events = SubSeq(written, 1, out)
    /\ reader.failed => damaged
    /\ ~reader.failed => \A n \in 1..Len(written) : n <= out <=> ends[n] <= arrived
    /\ arrived = Len(bytes) =>
         IF damaged THEN reader.failed ELSE reader.buffer = <<>> /\ ~reader.failed

\* However reads cut the stream of the inspector socket, all messages come out
\* as they went in, each as soon as it is whole, and behind one that is
\* malformed none does; and the frames in them are what was sent, by whom and to
\* whom, also in the envelopes of sub-targets, no reply taken for anything else.
\* [encode_message, take_one_message, "leaves any partial tail in `buffer`",
\* classify, "a response is never mistaken for a request", encode, decode]
MessagesSurviveTheWire ==
    /\ StreamIntact
    /\ D!SurvivesEnvelopes(frame, D!Classify(frame), Targets)
=============================================================================
