------------------------------ MODULE Framing ------------------------------
(***************************************************************************)
(* The messages of the WebKitGTK inspector socket, as bytes: a length of   *)
(* four bytes, the most significant first, flags, the name up to a zero,   *)
(* and the parameters as a GVariant.  A name is one byte, and so is each   *)
(* id; of GVariant's own layout no more is kept than which bytes stand for *)
(* which parameter.  The layout of `(ay)` is the program's own.            *)
(***************************************************************************)
EXTENDS Integers, Sequences

CONSTANT MaxBody    \* MAX_MESSAGE_BODY_SIZE

Names == <<"SetupInspectorClient", "Setup", "SendMessageToBackend", "FrontendDidClose",
           "DidSetupInspectorClient", "SetTargetList", "SendMessageToFrontend", "DidClose">>
NameByte(name) == 100 + (CHOOSE i \in DOMAIN Names : Names[i] = name)
NameOf(byte) == IF byte \in 101..108 THEN Names[byte - 100] ELSE "unknown"

\* SocketEvent.  `data` is a digest, a script, a frame's text, or the bytes of
\* a list of targets, five for each.
Event(name, ids, data) == [name |-> name, ids |-> ids, data |-> data]

Type(name) ==
    CASE name \in {"SetupInspectorClient", "DidSetupInspectorClient"} -> "(ay)"
      [] name \in {"Setup", "FrontendDidClose"} -> "(tt)"
      [] name \in {"SendMessageToBackend", "SendMessageToFrontend"} -> "(tts)"
      [] name = "SetTargetList" -> "(ta(tsssb))"
      [] name = "DidClose" -> "none"
      [] OTHER -> "unknown"

-----------------------------------------------------------------------------
(* Writing *)

\* bytestring_tuple_payload.
BytestringPayload(data) == Append(data, 0)

\* event_to_variant: what follows the name.
Payload(event) ==
    CASE Type(event.name) = "(ay)" -> BytestringPayload(event.data)
      [] Type(event.name) = "(tts)" -> event.ids \o Append(event.data, 0)
      [] OTHER -> event.ids \o event.data

Size(n) ==
    LET higher == n \div 256  high == higher \div 256
    IN  <<high \div 256, high % 256, higher % 256, n % 256>>
LittleEndian == 1

\* encode_message.
EncodeMessage(event) ==
    LET body == <<NameByte(event.name), 0>> \o Payload(event)
    IN  Size(Len(body)) \o <<LittleEndian>> \o body

-----------------------------------------------------------------------------
(* Reading *)

\* A C string without the zero at its end.
Content(payload) == SubSeq(payload, 1, Len(payload) - 1)

\* bytestring_from_ay_tuple: one trailing zero is not content.
Bytestring(payload) ==
    IF payload # <<>> /\ payload[Len(payload)] = 0 THEN Content(payload) ELSE payload

\* variant_to_event, and whether there is one.
Decodable(name, payload) ==
    /\ Type(name) # "unknown"
    /\ name = "DidClose" => payload = <<>>

VariantToEvent(name, payload) ==
    CASE Type(name) = "(ay)" -> Event(name, <<>>, Bytestring(payload))
      [] Type(name) = "(tt)" -> Event(name, payload, <<>>)
      [] Type(name) = "(tts)" -> Event(name, SubSeq(payload, 1, 2), Content(SubSeq(payload, 3, Len(payload))))
      [] Type(name) = "(ta(tsssb))" -> Event(name, SubSeq(payload, 1, 1), Tail(payload))
      [] OTHER -> Event(name, <<>>, <<>>)

Partial(buffer) == [is |-> "partial", rest |-> buffer]
Malformed(buffer) == [is |-> "malformed", rest |-> buffer]

\* Faulty: what was read behind the message goes with it.
BadRest(buffer, total) == <<>>

\* buffer.drain(..total).
Rest(buffer, total) == SubSeq(buffer, total + 1, Len(buffer))

BodySize(buffer) == ((buffer[1] * 256 + buffer[2]) * 256 + buffer[3]) * 256 + buffer[4]

\* The body of a whole message, behind its flags.
FromBody(body, rest) ==
    LET payload == SubSeq(body, 3, Len(body)) IN
    IF body[2] # 0 \/ ~Decodable(NameOf(body[1]), payload) THEN Malformed(rest)
    ELSE [is |-> "event", event |-> VariantToEvent(NameOf(body[1]), payload), rest |-> rest]

\* take_one_message.
TakeOne(buffer) ==
    IF Len(buffer) < 4 THEN Partial(buffer)
    ELSE IF BodySize(buffer) < 2 \/ BodySize(buffer) > MaxBody THEN Malformed(buffer)
    ELSE IF Len(buffer) < 5 + BodySize(buffer) THEN Partial(buffer)
    ELSE IF buffer[5] % 2 # LittleEndian THEN Malformed(buffer)
    ELSE FromBody(SubSeq(buffer, 6, 5 + BodySize(buffer)), Rest(buffer, 5 + BodySize(buffer)))

\* One turn of decode_messages' loop: a message is taken, none is left, or a
\* malformed one takes with it those before it.
Turn(s) ==
    LET one == TakeOne(s.buffer) IN
    IF s.failed \/ one.is = "partial" THEN s
    ELSE IF one.is = "event"
    THEN [events |-> Append(s.events, one.event), buffer |-> one.rest, failed |-> FALSE]
    ELSE [events |-> <<>>, buffer |-> one.rest, failed |-> TRUE]

\* decode_messages.  No message is shorter than a byte, so that there are turns
\* enough.
Decoded(buffer) ==
    LET after[n \in 0..Len(buffer)] ==
            IF n = 0 THEN [events |-> <<>>, buffer |-> buffer, failed |-> FALSE] ELSE Turn(after[n - 1])
    IN  after[Len(buffer)]

\* A buffer that several reads fill, decoded after each.
Read(state, chunk) ==
    LET next == Decoded(state.buffer \o chunk)
    IN  [next EXCEPT !.events = state.events \o @]
=============================================================================
