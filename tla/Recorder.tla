------------------------------- MODULE Recorder -------------------------------
(***************************************************************************)
(* The recorder that writes the fixtures, and the flattening that makes    *)
(* them playable: `xtask record` drives a debuggee through a scenario,     *)
(* wraps what is for the page, takes an inner and an outer id for each     *)
(* such request, and writes down every frame of both directions.  A step   *)
(* ends with its reply or with its patience, so a late reply is recorded   *)
(* among the frames of a later step.                                       *)
(*                                                                         *)
(* The debuggee answers a wrapped request twice, in either order: an       *)
(* acknowledgement of the envelope under the outer id, and the page's own  *)
(* reply under the inner one, which never comes from a page that is gone.  *)
(***************************************************************************)
EXTENDS Naturals, Sequences, FiniteSets

CONSTANTS
    Methods,        \* domain methods the scenario may call
    NoMethod,
    MaxPages,       \* bound on the pages the debuggee creates
    MaxRequests,    \* bound on the scenario's calls
    MaxEvents       \* bound on the debuggee's events

ASSUME RecorderConstants ==
    /\ NoMethod \notin Methods
    /\ MaxPages \in Nat /\ MaxRequests \in Nat /\ MaxEvents \in Nat

VARIABLES
    raw,       \* the trace so far
    nextId,
    page,      \* Ctx::page_target_id
    waiting,   \* what drain() waits for, and under which id
    pages,     \* what has become of each page of the debuggee, in their order
    owed,      \* the answers it owes
    events     \* how many events it has sent

recorderVars == <<raw, nextId, page, waiting, pages, owed, events>>

NoId == 0
NoPage == 0
\* What a drain waits for: a reply, an event, a page, or nothing in particular.
Wait(until, id) == [until |-> until, id |-> id]
Idle == Wait("nothing", NoId)
Done == Wait("done", NoId)
\* The inner id the scenario writes by hand, beyond all it allocates.
HandId == 2 * MaxRequests + 1
RecordedIds == 1..HandId

RecordInit ==
    /\ raw = <<>>
    /\ nextId = 1
    /\ page = NoPage
    /\ waiting = Wait("target", NoId)
    /\ pages = <<>>
    /\ owed = {}
    /\ events = 0

-----------------------------------------------------------------------------
(* drain *)

Frame(k, id) == [kind |-> k, id |-> id, outer |-> NoId, method |-> NoMethod]

\* Whether a frame is what drain waits for, by its own id or the one within.
Stops(frame) ==
    \/ frame.kind \in {"ack", "reply", "rootReply"} /\ waiting = Wait("reply", frame.id)
    \/ frame.kind = "event" /\ waiting.until = "event"
    \/ frame.kind = "created" /\ waiting.until = "target"

\* What a step goes on to: the first wait is followed by a short one.
Drained == IF waiting.until = "target" THEN Wait("settle", NoId) ELSE Idle

\* A frame read while a step drains the socket.
Reads(frame) ==
    /\ waiting \notin {Idle, Done}
    /\ raw' = Append(raw, frame)
    /\ waiting' = IF Stops(frame) THEN Drained ELSE waiting
    /\ UNCHANGED nextId

TimesOut ==
    /\ waiting \notin {Idle, Done}
    /\ waiting' = Drained
    /\ UNCHANGED <<raw, nextId, page, pages, owed, events>>

-----------------------------------------------------------------------------
(* What the debuggee sends, and ingest *)

Live == {p \in DOMAIN pages : pages[p] = "live"}

\* Target.targetCreated, of the first page or of one that may follow it.
PageCreated ==
    /\ Len(pages) < MaxPages
    /\ Reads(Frame("created", NoId))
    /\ pages' = Append(pages, IF Live = {} THEN "live" ELSE "provisional")
    /\ page' = Len(pages')
    /\ UNCHANGED <<owed, events>>

\* Target.didCommitProvisionalTarget: the page before is gone.
PageCommitted(p) ==
    /\ pages[p] = "provisional"
    /\ Reads(Frame("committed", NoId))
    /\ pages' = [q \in DOMAIN pages |-> IF q = p THEN "live" ELSE IF q \in Live THEN "gone" ELSE pages[q]]
    /\ page' = p
    /\ owed' = {a \in owed : a.from \notin Live}
    /\ UNCHANGED events

Answered(a) ==
    /\ a \in owed
    /\ Reads(Frame(a.kind, a.id))
    /\ owed' = owed \ {a}
    /\ UNCHANGED <<page, pages, events>>

\* An event of the page.
Happens ==
    /\ events < MaxEvents
    /\ Live # {}
    /\ Reads(Frame("event", NoId))
    /\ events' = events + 1
    /\ UNCHANGED <<page, pages, owed>>

-----------------------------------------------------------------------------
(* The scenario's steps; without a page the recorder gives up *)

Asked == Cardinality({i \in DOMAIN raw : raw[i].kind \in {"wrapped", "root"}})

\* call_step for a domain method: the page gets it in an envelope.
CallStep(m) ==
    /\ waiting = Idle
    /\ page # NoPage
    /\ Asked < MaxRequests
    /\ raw' = Append(raw, [kind |-> "wrapped", id |-> nextId, outer |-> nextId + 1, method |-> m])
    /\ nextId' = nextId + 2
    /\ waiting' = Wait("reply", nextId)
    /\ owed' = owed \cup {[kind |-> "ack", id |-> nextId + 1, from |-> NoPage],
                          [kind |-> "reply", id |-> nextId, from |-> page]}
    /\ UNCHANGED <<page, pages, events>>

\* call_step for a method of the root connection.
RootStep ==
    /\ waiting = Idle
    /\ page # NoPage
    /\ Asked < MaxRequests
    /\ raw' = Append(raw, [kind |-> "root", id |-> nextId, outer |-> NoId, method |-> NoMethod])
    /\ nextId' = nextId + 1
    /\ waiting' = Wait("reply", nextId)
    /\ owed' = owed \cup {[kind |-> "rootReply", id |-> nextId, from |-> NoPage]}
    /\ UNCHANGED <<page, pages, events>>

\* The root method that carries an envelope the scenario wrote itself.
HandWrappedStep(m) ==
    /\ waiting = Idle
    /\ page # NoPage
    /\ Asked < MaxRequests
    /\ \A i \in DOMAIN raw : ~(raw[i].kind = "wrapped" /\ raw[i].id = HandId)
    /\ raw' = Append(raw, [kind |-> "wrapped", id |-> HandId, outer |-> nextId, method |-> m])
    /\ nextId' = nextId + 1
    /\ waiting' = Wait("reply", nextId)
    /\ owed' = owed \cup {[kind |-> "ack", id |-> nextId, from |-> NoPage],
                          [kind |-> "reply", id |-> HandId, from |-> page]}
    /\ UNCHANGED <<page, pages, events>>

\* Step::Settle and Step::Await.
WaitStep ==
    /\ waiting = Idle
    /\ page # NoPage
    /\ \E until \in {"settle", "event"} : waiting' = Wait(until, NoId)
    /\ UNCHANGED <<raw, nextId, page, pages, owed, events>>

RecordNext ==
    \/ PageCreated
    \/ \E p \in DOMAIN pages : PageCommitted(p)
    \/ \E a \in owed : Answered(a)
    \/ Happens \/ TimesOut
    \/ \E m \in Methods : CallStep(m) \/ HandWrappedStep(m)
    \/ RootStep \/ WaitStep

-----------------------------------------------------------------------------
(* flatten_multiplexed_trace *)

\* The entries of the bare trace; `was` remembers which raw frame it is from.
Send(e) == [kind |-> "send", id |-> e.id, method |-> e.method, was |-> e.kind]
Received(e) ==
    [kind |-> IF e.kind = "event" THEN "event" ELSE "reply", id |-> e.id,
     method |-> NoMethod, was |-> e.kind]

Keep(s, entry) == [s EXCEPT !.out = Append(@, entry)]

\* Faulty: leaves the acknowledgements of the envelopes in.
BadFlattened(s, e) ==
    CASE e.kind = "wrapped" -> Keep(s, Send(e))
      [] e.kind \in {"reply", "event", "ack", "rootReply"} -> Keep(s, Received(e))
      [] e.kind \in {"root", "created", "committed"} -> s

\* One frame: envelopes are opened, their acknowledgements and whatever else
\* the root connection asked or announced are dropped, its replies stay.
Flattened(s, e) ==
    CASE e.kind = "wrapped" -> Keep([s EXCEPT !.acks = @ \cup {e.outer}], Send(e))
      [] e.kind \in {"reply", "event"} -> Keep(s, Received(e))
      [] e.kind \in {"ack", "rootReply"} -> IF e.id \in s.acks THEN s ELSE Keep(s, Received(e))
      [] e.kind \in {"root", "created", "committed"} -> s

\* One frame after the other.
Flatten(recording) ==
    LET upTo[i \in 0..Len(recording)] ==
            IF i = 0 THEN [out |-> <<>>, acks |-> {}] ELSE Flattened(upTo[i - 1], recording[i])
    IN  upTo[Len(recording)].out

=============================================================================
