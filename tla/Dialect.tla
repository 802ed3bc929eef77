------------------------------ MODULE Dialect ------------------------------
(***************************************************************************)
(* Frames of the inspector protocol: which of the four kinds a JSON object *)
(* is, and the envelopes that carry a frame to a sub-target and back.      *)
(*                                                                         *)
(* What is optional is a sequence of at most one.  A text in an envelope   *)
(* is the object it stands for; one that is no JSON is like an object      *)
(* without members, which is no frame either.  A method is its domain and  *)
(* member.                                                                 *)
(***************************************************************************)
EXTENDS Naturals, Sequences

Absent == <<>>
Json(id, method, params, result, error) ==
    [id |-> id, method |-> method, params |-> params, result |-> result, error |-> error]

\* params, of which envelopes have two members and others some data.
Params(target, message, data) == [targetId |-> target, message |-> message, data |-> data]
NoParams == Params(Absent, Absent, Absent)

Request(id, method, params) == [kind |-> "request", id |-> id, method |-> method, params |-> params, value |-> Absent]
Event(method, params) == [kind |-> "event", id |-> Absent, method |-> method, params |-> params, value |-> Absent]
Response(id, result) == [kind |-> "response", id |-> id, method |-> Absent, params |-> NoParams, value |-> result]
Error(id, error) == [kind |-> "error", id |-> id, method |-> Absent, params |-> NoParams, value |-> error]
NoFrame == [kind |-> "none"]

ParamsOf(j) == IF j.params = Absent THEN NoParams ELSE j.params[1]

\* Faulty: what names a method is a request, whatever else it has.
BadClassify(j) ==
    CASE j.method # Absent /\ j.id # Absent -> Request(j.id, j.method, ParamsOf(j))
      [] j.method # Absent /\ j.id = Absent -> Event(j.method, ParamsOf(j))
      [] j.method = Absent /\ j.id # Absent /\ j.error # Absent -> Error(j.id, j.error)
      [] j.method = Absent /\ j.id # Absent /\ j.error = Absent -> Response(j.id, j.result)
      [] OTHER -> NoFrame

\* RawFrame::classify.
Classify(j) ==
    CASE j.id # Absent /\ j.error # Absent -> Error(j.id, j.error)
      [] j.id # Absent /\ j.method = Absent /\ j.error = Absent -> Response(j.id, j.result)
      [] j.id # Absent /\ j.method # Absent /\ j.error = Absent /\ j.result = Absent ->
            Request(j.id, j.method, ParamsOf(j))
      [] j.id = Absent /\ j.method # Absent /\ j.error = Absent /\ j.result = Absent ->
            Event(j.method, ParamsOf(j))
      [] OTHER -> NoFrame

\* Frame::to_json.
ToJson(f) ==
    CASE f.kind \in {"request", "event"} -> Json(f.id, f.method, <<f.params>>, Absent, Absent)
      [] f.kind = "response" -> Json(f.id, Absent, Absent, f.value, Absent)
      [] f.kind = "error" -> Json(f.id, Absent, Absent, Absent, f.value)

-----------------------------------------------------------------------------
(* WebKitDialect *)

SendToTarget == << <<"Target", "sendMessageToTarget">> >>
DispatchFromTarget == << <<"Target", "dispatchMessageFromTarget">> >>

\* encode: only requests are routed; the envelope bears the id of what is in it.
Encode(f, target) ==
    IF target = Absent \/ f.kind # "request" THEN f
    ELSE Request(f.id, SendToTarget, Params(target, <<ToJson(f)>>, Absent))

IsDispatch(f) == f.method = DispatchFromTarget
Envelope(f) == f.params.targetId # Absent /\ f.params.message # Absent
Undecodable == [frame |-> NoFrame, target |-> Absent]

\* decode: the frame, and the target it is attributed to.
Decode(f) ==
    IF ~IsDispatch(f) THEN [frame |-> f, target |-> Absent]
    ELSE IF f.kind # "event" \/ ~Envelope(f) \/ Classify(f.params.message[1]) = NoFrame THEN Undecodable
    ELSE [frame |-> Classify(f.params.message[1]), target |-> f.params.targetId]

\* External: the debuggee's envelope about what a sub-target sends, and what it
\* takes out of one it is sent.
Dispatched(j, target) ==
    Json(Absent, DispatchFromTarget, <<Params(<<target>>, <<j>>, Absent)>>, Absent, Absent)
Unwrapped(j) == [target |-> j.params[1].targetId, frame |-> Classify(j.params[1].message[1])]

-----------------------------------------------------------------------------
(* What the dialect promises *)

\* A reply is never taken for a request or an event, and an error not for a
\* success; a frame is the same behind the wire, in an envelope to a sub-target
\* or from one, whose replies will bear its id; without one it is nobody's.
SurvivesEnvelopes(j, f, targets) ==
    /\ (j.result # Absent \/ j.error # Absent) => f.kind \in {"response", "error", "none"}
    /\ (j.id # Absent /\ j.error # Absent) => f = Error(j.id, j.error)
    /\ f # NoFrame =>
        /\ Classify(ToJson(f)) = f
        /\ ~IsDispatch(f) => Decode(f) = [frame |-> f, target |-> Absent]
        /\ \A t \in targets :
            /\ Decode(Classify(Dispatched(j, t))) = [frame |-> f, target |-> <<t>>]
            /\ f.kind = "request" =>
                  /\ Unwrapped(ToJson(Encode(f, <<t>>))) = [target |-> <<t>>, frame |-> f]
                  /\ Encode(f, <<t>>).id = f.id
=============================================================================
