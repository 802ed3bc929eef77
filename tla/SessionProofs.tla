--------------------------- MODULE SessionProofs ---------------------------
(***************************************************************************)
(* Theorems about Session, for every set of callers, members and targets   *)
(* and every bound.                                                        *)
(***************************************************************************)
EXTENDS Session, SequenceTheorems, TLAPS

\* Ids are handed out once, in order, and an idle call has none.
IdsUnique ==
    /\ \A c \in Calls : req[c].id < nextId
    /\ \A c \in Calls : pc[c] = "idle" => req[c].id = NoId
    /\ \A c \in Calls : pc[c] \in {"issued", "awaiting", "dropped"} => req[c].id \in Ids
    /\ \A c, d \in Calls : req[c].id # NoId /\ req[c].id = req[d].id => c = d

\* Each command is in the channel once, and was sent by a call that awaits or
\* has given up; it is not in the table yet.
ChannelSound ==
    /\ \A k \in DOMAIN cmdQueue : pc[cmdQueue[k]] \in {"awaiting", "dropped"}
    /\ \A j, k \in DOMAIN cmdQueue : cmdQueue[j] = cmdQueue[k] => j = k
    /\ \A k \in DOMAIN cmdQueue, i \in Ids : pending[i] # cmdQueue[k]
    /\ task = "ended" => cmdQueue = <<>>

\* An entry of the table stands under its own call's id; the table is empty
\* once the loop is over.
TableSound ==
    /\ \A i \in Ids : pending[i] # NoCall =>
          pc[pending[i]] \in {"awaiting", "dropped"} /\ req[pending[i]].id = i
    /\ ~Running => \A i \in Ids : pending[i] = NoCall

CorrelationInv == TypeOK /\ IdsUnique /\ ChannelSound /\ TableSound /\ NoCallerForgotten

-----------------------------------------------------------------------------
(* Type correctness *)

\* A call past its start holds an id, and keeps it in the channel.
HasId ==
    /\ \A c \in Calls : pc[c] \in {"issued", "awaiting", "dropped"} => req[c].id \in Ids
    /\ \A k \in DOMAIN cmdQueue : req[cmdQueue[k]].id \in Ids

TypeInv == TypeOK /\ HasId

LEMMA FrameTypes ==
    /\ \A i \in Ids, o \in WireOutcomes, t \in Routes : Reply(i, o, t) \in Frames
    /\ \A t \in SubTargets, k \in {"created", "destroyed"} : Lifecycle(k, t) \in Frames
    /\ Junk \in Frames
    /\ \A o \in LocalOutcomes : Local(o) \in Results
  BY DEF Reply, Lifecycle, Junk, Local, Frames, Results, WireOutcomes, Routes

\* What a step leaves of the channel and of the frames stays a sequence.
LEMMA ChannelTypes ==
  ASSUME TypeOK
  PROVE  /\ cmdQueue # <<>> => Head(cmdQueue) \in Calls /\ Tail(cmdQueue) \in Seq(Calls)
         /\ inbound # <<>> => Head(inbound) \in Frames /\ Tail(inbound) \in Seq(Frames)
         /\ \A c \in Calls : Append(cmdQueue, c) \in Seq(Calls)
         /\ \A fs \in Seq(Frames) : inbound \o fs \in Seq(Frames)
  BY HeadTailProperties, AppendProperties, ConcatProperties DEF TypeOK

\* The head of the channel is one of its commands, and the rest is what
\* follows it.
LEMMA HeadIsQueued ==
  ASSUME TypeOK, cmdQueue # <<>>
  PROVE  /\ 1 \in DOMAIN cmdQueue /\ Head(cmdQueue) = cmdQueue[1]
         /\ DOMAIN cmdQueue = 1..Len(cmdQueue) /\ Len(cmdQueue) \in Nat
         /\ DOMAIN Tail(cmdQueue) = 1..(Len(cmdQueue) - 1)
         /\ \A k \in DOMAIN Tail(cmdQueue) :
               k + 1 \in DOMAIN cmdQueue /\ Tail(cmdQueue)[k] = cmdQueue[k + 1]
  BY HeadTailProperties, LenProperties, EmptySeq DEF TypeOK

LEMMA QueueElements ==
  ASSUME TypeOK
  PROVE  /\ \A k \in DOMAIN cmdQueue : cmdQueue[k] \in Calls
         /\ Queued \subseteq Calls
  BY ElementOfSeq, LenProperties DEF TypeOK, Queued

\* Appending keeps every command at its place and adds one at the end.
LEMMA AppendQueue ==
  ASSUME TypeOK, NEW c \in Calls
  PROVE  LET q == Append(cmdQueue, c) IN
         /\ DOMAIN q = DOMAIN cmdQueue \cup {Len(cmdQueue) + 1}
         /\ \A k \in DOMAIN cmdQueue : q[k] = cmdQueue[k]
         /\ q[Len(cmdQueue) + 1] = c /\ Len(cmdQueue) + 1 \notin DOMAIN cmdQueue
         /\ \A k \in DOMAIN q : q[k] = c \/ (k \in DOMAIN cmdQueue /\ q[k] = cmdQueue[k])
<1> DEFINE q == Append(cmdQueue, c)
<1>1. /\ cmdQueue \in Seq(Calls) /\ Len(cmdQueue) \in Nat
      /\ DOMAIN cmdQueue = 1..Len(cmdQueue)
  BY LenProperties DEF TypeOK
<1>2. /\ q \in Seq(Calls) /\ Len(q) = Len(cmdQueue) + 1
      /\ \A k \in 1..Len(cmdQueue) : q[k] = cmdQueue[k]
      /\ q[Len(cmdQueue) + 1] = c
  BY <1>1, AppendProperties
<1>3. DOMAIN q = 1..(Len(cmdQueue) + 1)
  BY <1>2, LenProperties
<1>4. QED
  BY <1>1, <1>2, <1>3

LEMMA TypeCaller ==
  ASSUME TypeOK, NEW c \in Calls, CallerStep(c)
  PROVE  TypeOK'
<1> USE SessionConstants DEF TypeOK, sharedVars, taskVars, peerVars
<1>1. ASSUME NEW t \in Routes, CallStart(c, t)
      PROVE  TypeOK'
  <2>1. req' \in [Calls -> Requests]
    BY <1>1 DEF CallStart, Requests
  <2>2. nextId' \in 1..(MaxId + 1)
    BY <1>1 DEF CallStart, Ids
  <2>3. pc' \in [Calls -> PCs]
    BY <1>1 DEF CallStart, PCs
  <2>4. result' \in [Calls -> Results \cup {NoResult}]
    BY <1>1, FrameTypes DEF CallStart, LocalOutcomes
  <2>5. QED
    BY <1>1, <2>1, <2>2, <2>3, <2>4 DEF CallStart
<1>2. CASE CallSend(c)
  BY ZenonT(40), <1>2, FrameTypes, ChannelTypes DEF CallSend, PCs, LocalOutcomes
<1>3. CASE CallDrop(c)
  BY <1>3 DEF CallDrop, PCs
<1>4. QED
  BY <1>1, <1>2, <1>3 DEF CallerStep

LEMMA TypeResolve ==
  ASSUME TypeOK, NEW S, NEW r \in Results, Resolve(S, r)
  PROVE  pc' \in [Calls -> PCs] /\ result' \in [Calls -> Results \cup {NoResult}]
  BY DEF TypeOK, Resolve, PCs

LEMMA TypeTeardown ==
  ASSUME TypeOK, NEW failed, Teardown(failed)
  PROVE  /\ pc' \in [Calls -> PCs] /\ result' \in [Calls -> Results \cup {NoResult}]
         /\ pending' \in [Ids -> Calls \cup {NoCall}]
         /\ task' \in Tasks /\ connected' \in BOOLEAN
<1>1. Local("transport") \in Results /\ Local("abandoned") \in Results
  BY FrameTypes DEF LocalOutcomes
<1>2. QED
  BY <1>1 DEF TypeOK, Teardown, PCs, Tasks, NoPending

LEMMA TypeTask ==
  ASSUME TypeInv, TaskStep
  PROVE  TypeOK'
<1> USE SessionConstants DEF TypeInv, callVars, sharedVars, taskVars, peerVars
<1>1. ASSUME NEW c \in Calls, TaskEncodeFails(c)
      PROVE  TypeOK'
  <2>1. Local("dialect") \in Results
    BY FrameTypes DEF LocalOutcomes
  <2>2. pc' \in [Calls -> PCs] /\ result' \in [Calls -> Results \cup {NoResult}]
    BY <1>1, <2>1, TypeResolve DEF TaskEncodeFails
  <2>3. QED
    BY <1>1, <2>2, ChannelTypes DEF TypeOK, TaskEncodeFails, TaskTakes, Tasks
<1>2. ASSUME NEW c \in Calls, TaskSends(c)
      PROVE  TypeOK'
  <2>1. pending' \in [Ids -> Calls \cup {NoCall}]
    BY <1>2 DEF TypeOK, TaskSends, Correlate
  <2>2. owed' \subseteq Obligations
    <3>1. req[c] \in Requests /\ req[c].id \in Ids
      BY <1>2, HeadIsQueued DEF TypeOK, HasId, TaskSends, TaskTakes
    <3>2. Obligation(c) \in Obligations
      BY <3>1 DEF Obligation, Obligations, Requests
    <3>3. QED
      BY <1>2, <3>2 DEF TypeOK, TaskSends
  <2>3. QED
    BY <1>2, <2>1, <2>2, ChannelTypes DEF TypeOK, TaskSends, TaskTakes, Tasks
<1>3. ASSUME NEW c \in Calls, TaskSendFails(c)
      PROVE  TypeOK'
  BY <1>3, TypeTeardown, ChannelTypes DEF TypeOK, TaskSendFails, TaskTakes
<1>4. CASE TaskReceives
  <2> DEFINE f == Head(inbound)
             r == [outcome |-> f.outcome, id |-> f.id, target |-> f.target]
  <2>1. f \in Frames /\ inbound' \in Seq(Frames)
    BY <1>4, ChannelTypes DEF TaskReceives
  <2>2. /\ pc' \in [Calls -> PCs] /\ result' \in [Calls -> Results \cup {NoResult}]
        /\ pending' \in [Ids -> Calls \cup {NoCall}] /\ unavailable' \subseteq Members
    <3>1. CASE UNCHANGED <<pc, result, pending, unavailable>>
      BY <3>1 DEF TypeOK
    <3>2. CASE /\ f.kind = "reply"
               /\ pending[f.id] # NoCall
               /\ pending' = [pending EXCEPT ![f.id] = NoCall]
               /\ unavailable' = unavailable \cup Learned(pending[f.id], f)
               /\ Resolve({pending[f.id]}, r)
      <4>1. f.id \in Ids /\ r \in Results
        BY <2>1, <3>2 DEF Frames, Results, Junk, Lifecycle
      <4>2. Learned(pending[f.id], f) \subseteq Members
        BY <3>2, <4>1 DEF TypeOK, Learned, Requests
      <4>3. QED
        BY <3>2, <4>1, <4>2, TypeResolve DEF TypeOK
    <3>3. QED
      BY <1>4, <3>1, <3>2 DEF TaskReceives, CompletePending
  <2>3. subTargets' \subseteq SubTargets /\ handles' \subseteq SubTargets
    BY <1>4, <2>1 DEF TypeOK, TaskReceives, NoteTargetLifecycle, Frames, Junk, Lifecycle
  <2>4. QED
    BY <1>4, <2>1, <2>2, <2>3 DEF TypeOK, TaskReceives
<1>5. CASE TaskSeesClose
  BY <1>5 DEF TypeOK, TaskSeesClose, Tasks
<1>6. CASE TaskRecvFails
  BY <1>6, TypeTeardown, EmptySeq DEF TypeOK, TaskRecvFails
<1>7. CASE TaskReturns
  <2>1. Local("closed") \in Results
    BY FrameTypes DEF LocalOutcomes
  <2>2. pc' \in [Calls -> PCs] /\ result' \in [Calls -> Results \cup {NoResult}]
    BY <1>7, <2>1, TypeResolve DEF TaskReturns
  <2>3. QED
    BY <1>7, <2>2, EmptySeq DEF TypeOK, TaskReturns, Tasks
<1>8. QED
  BY <1>1, <1>2, <1>3, <1>4, <1>5, <1>6, <1>7 DEF TaskStep, TaskHandles

LEMMA TypePeerSends ==
  ASSUME TypeOK, NEW fs \in Seq(Frames), PeerSends(fs)
  PROVE  inbound' \in Seq(Frames)
  BY ChannelTypes DEF PeerSends

LEMMA LessDue ==
  ASSUME NEW o \in Obligations, NEW w
  PROVE  [o EXCEPT !.due = @ \ {w}] \in Obligations
<1>1. o = [id |-> o.id, member |-> o.member, target |-> o.target, due |-> o.due]
  BY DEF Obligations
<1>2. [o EXCEPT !.due = @ \ {w}]
        = [id |-> o.id, member |-> o.member, target |-> o.target, due |-> o.due \ {w}]
  BY <1>1
<1>3. QED
  BY <1>2 DEF Obligations

LEMMA TypePeer ==
  ASSUME TypeOK, PeerStep
  PROVE  TypeOK'
<1> USE SessionConstants DEF callVars, sharedVars, taskVars
<1>1. ASSUME NEW o \in owed, PeerAnswers(o)
      PROVE  TypeOK'
  <2>1. o \in Obligations
    BY DEF TypeOK
  <2>2. PICK out \in PeerOutcomes(o), n \in 1..MaxCopies :
             PeerSends([k \in 1..n |-> Reply(o.id, out, o.target)])
    BY <1>1 DEF PeerAnswers
  <2>3. Reply(o.id, out, o.target) \in Frames
    BY <2>1, FrameTypes DEF Obligations, PeerOutcomes, WireOutcomes
  <2>4. [k \in 1..n |-> Reply(o.id, out, o.target)] \in Seq(Frames)
    BY <2>3, SeqDef
  <2>5. inbound' \in Seq(Frames)
    BY <2>2, <2>4, TypePeerSends
  <2>6. owed' \subseteq Obligations
    BY ZenonT(40), <1>1, <2>1, LessDue DEF TypeOK, PeerAnswers
  <2>7. QED
    BY <1>1, <2>1, <2>5, <2>6 DEF TypeOK, PeerAnswers, Obligations
<1>2. ASSUME NEW o \in owed, PeerAcks(o) \/ PeerRefuses(o)
      PROVE  TypeOK'
  <2>1. o \in Obligations
    BY DEF TypeOK
  <2>2. PICK out \in WireOutcomes : PeerSends(<<Reply(o.id, out, NoTarget)>>)
    BY <1>2 DEF PeerAcks, PeerRefuses, WireOutcomes
  <2>3. <<Reply(o.id, out, NoTarget)>> \in Seq(Frames)
    BY <2>1, FrameTypes DEF Obligations, Routes
  <2>4. inbound' \in Seq(Frames)
    BY <2>2, <2>3, TypePeerSends
  <2>5. owed' \subseteq Obligations
    <3>1. CASE PeerAcks(o)
      BY ZenonT(40), <3>1, <2>1, LessDue DEF TypeOK, PeerAcks
    <3>2. CASE PeerRefuses(o)
      BY <3>2 DEF TypeOK, PeerRefuses
    <3>3. QED
      BY <1>2, <3>1, <3>2
  <2>6. QED
    BY <1>2, <2>4, <2>5 DEF TypeOK, PeerAcks, PeerRefuses
<1>3. ASSUME NEW t \in SubTargets, PeerCreates(t) \/ PeerDestroys(t)
      PROVE  TypeOK'
  <2>1. <<Lifecycle("created", t)>> \in Seq(Frames) /\ <<Lifecycle("destroyed", t)>> \in Seq(Frames)
    BY FrameTypes
  <2>2. inbound' \in Seq(Frames)
    BY <1>3, <2>1, TypePeerSends DEF PeerCreates, PeerDestroys
  <2>3. QED
    BY <1>3, <2>2 DEF TypeOK, PeerCreates, PeerDestroys
<1>4. CASE PeerGarbles
  <2>1. <<Junk>> \in Seq(Frames)
    BY FrameTypes
  <2>2. inbound' \in Seq(Frames)
    BY <1>4, <2>1, TypePeerSends DEF PeerGarbles
  <2>3. QED
    BY <1>4, <2>2 DEF TypeOK, PeerGarbles
<1>5. CASE PeerCloses
  BY <1>5 DEF TypeOK, PeerCloses
<1>6. QED
  BY <1>1, <1>2, <1>3, <1>4, <1>5 DEF PeerStep

LEMMA HasIdStep ==
  ASSUME TypeInv, [Next]_vars
  PROVE  HasId'
<1> USE SessionConstants DEF TypeInv, callVars, sharedVars, taskVars, peerVars
<1>1. ASSUME NEW c \in Calls, NEW t \in Routes, CallStart(c, t)
      PROVE  HasId'
  <2>1. \A k \in DOMAIN cmdQueue : cmdQueue[k] \in Calls
    BY QueueElements
  <2> DEFINE fresh == [id |-> nextId, member |-> req[c].member, target |-> t]
  <2>a. \/ req' = req /\ pc' = [pc EXCEPT ![c] = "done"]
        \/ /\ nextId \in Ids /\ req' = [req EXCEPT ![c] = fresh]
           /\ pc' = [pc EXCEPT ![c] = "issued"]
    BY <1>1 DEF CallStart
  <2>2. \A d \in Calls : req'[d].id = req[d].id \/ (d = c /\ req'[d].id \in Ids)
    BY <2>a DEF TypeOK
  <2>3. \A d \in Calls : pc'[d] = pc[d] \/ (d = c /\ (pc'[d] = "done" \/ req'[d].id \in Ids))
    BY <2>a DEF TypeOK
  <2>4. cmdQueue' = cmdQueue
    BY <1>1 DEF CallStart
  <2>5. QED
    BY <2>1, <2>2, <2>3, <2>4 DEF HasId
<1>2. ASSUME NEW c \in Calls, CallSend(c)
      PROVE  HasId'
  <2>1. req' = req /\ \A d \in Calls : pc'[d] = pc[d] \/ d = c
    BY <1>2 DEF CallSend, TypeOK
  <2>2. req[c].id \in Ids
    BY <1>2 DEF CallSend, HasId
  <2>3. \A k \in DOMAIN cmdQueue' : cmdQueue'[k] = c \/
            (k \in DOMAIN cmdQueue /\ cmdQueue'[k] = cmdQueue[k])
    BY <1>2, AppendQueue DEF CallSend
  <2>4. QED
    BY <2>1, <2>2, <2>3 DEF HasId
<1>3. ASSUME NEW c \in Calls, CallDrop(c)
      PROVE  HasId'
  BY <1>3 DEF CallDrop, TypeOK, HasId
<1>4. ASSUME \E c \in Calls : TaskHandles(c)
      PROVE  HasId'
  <2>1. req' = req /\ \A d \in Calls : pc'[d] = pc[d] \/ pc'[d] = "done"
    BY <1>4 DEF TaskHandles, TaskEncodeFails, TaskSends, TaskSendFails, Teardown, Resolve, TypeOK
  <2>2. cmdQueue # <<>> /\ cmdQueue' = Tail(cmdQueue)
    BY <1>4 DEF TaskHandles, TaskEncodeFails, TaskSends, TaskSendFails, TaskTakes
  <2>3. QED
    BY <2>1, <2>2, HeadIsQueued DEF HasId
<1>5. CASE TaskReceives
  BY <1>5 DEF TaskReceives, CompletePending, Resolve, TypeOK, HasId
<1>6. CASE TaskSeesClose \/ TaskRecvFails
  BY <1>6 DEF TaskSeesClose, TaskRecvFails, Teardown, TypeOK, HasId
<1>7. CASE TaskReturns
  BY <1>7 DEF TaskReturns, Resolve, TypeOK, HasId
<1>8. CASE PeerStep
  BY <1>8 DEF PeerStep, PeerAnswers, PeerAcks, PeerRefuses, PeerCreates, PeerDestroys,
              PeerGarbles, PeerCloses, HasId
<1>9. CASE Quiet \/ UNCHANGED vars
  BY <1>9 DEF Quiet, vars, HasId
<1>10. QED
  BY <1>1, <1>2, <1>3, <1>4, <1>5, <1>6, <1>7, <1>8, <1>9
     DEF Next, CallerStep, TaskStep

LEMMA TypeInvariant == Spec => []TypeInv
<1>1. Init => TypeInv
  <2> SUFFICES ASSUME Init PROVE TypeInv
    OBVIOUS
  <2>1. req \in [Calls -> Requests] /\ \A c \in Calls : req[c].id = NoId
    BY SessionConstants DEF Init, Requests, Routes
  <2>2. TypeOK
    <3>1. <<>> \in Seq(Calls) /\ <<>> \in Seq(Frames)
      BY EmptySeq
    <3>2. pc \in [Calls -> PCs] /\ result \in [Calls -> Results \cup {NoResult}]
      BY DEF Init, PCs
    <3>3. nextId \in 1..(MaxId + 1) /\ events \in 0..MaxEvents
      BY SessionConstants DEF Init
    <3>4. QED
      BY <2>1, <3>1, <3>2, <3>3 DEF Init, TypeOK, Tasks, NoPending
  <2>3. HasId
    BY <2>1 DEF Init, HasId
  <2>4. QED
    BY <2>2, <2>3 DEF TypeInv
<1>2. TypeInv /\ [Next]_vars => TypeInv'
  <2> SUFFICES ASSUME TypeInv, [Next]_vars PROVE TypeOK'
    BY HasIdStep DEF TypeInv
  <2>1. CASE Quiet \/ UNCHANGED vars
    BY <2>1 DEF Quiet, vars, callVars, sharedVars, taskVars, peerVars, TypeInv, TypeOK
  <2>2. QED
    BY <2>1, TypeCaller, TypeTask, TypePeer DEF Next, TypeInv
<1>3. QED
  BY <1>1, <1>2, PTL DEF Spec

\* Every reachable state has its declared shape.  [SessionHandle, session_task]
THEOREM TypeCorrect == Spec => []TypeOK
  BY TypeInvariant, PTL DEF TypeInv

-----------------------------------------------------------------------------
(* Correlation: what the channel and the table hold between them *)

\* What Teardown does to the callers: those it frees are done, nobody else moves.
LEMMA TeardownFrees ==
  ASSUME TypeOK, NEW failed, Teardown(failed)
  PROVE  /\ \A c \in Calls : pc'[c] = pc[c] \/ pc'[c] = "done"
         /\ \A c \in Calls : pc'[c] # pc[c] => pc[c] = "awaiting" /\ c \in Waiting \cup failed
         /\ \A c \in Waiting \cup failed : c \in Calls => pc'[c] # "awaiting"
         /\ \A i \in Ids : pending'[i] = NoCall
         /\ task' = "closing"
  BY DEF TypeOK, Teardown, NoPending

LEMMA CorrelationCaller ==
  ASSUME TypeInv, CorrelationInv, NEW c \in Calls, CallerStep(c)
  PROVE  CorrelationInv'
<1> USE SessionConstants
        DEF TypeInv, CorrelationInv, sharedVars, taskVars, peerVars
<1>1. ASSUME NEW t \in Routes, CallStart(c, t)
      PROVE  (IdsUnique /\ ChannelSound /\ TableSound /\ NoCallerForgotten)'
  <2> DEFINE fresh == [id |-> nextId, member |-> req[c].member, target |-> t]
  <2>1. /\ pc[c] = "idle" /\ req[c].id = NoId
        /\ \/ req' = req /\ nextId' = nextId /\ pc' = [pc EXCEPT ![c] = "done"]
           \/ /\ nextId' = nextId + 1 /\ req' = [req EXCEPT ![c] = fresh]
              /\ nextId \in Ids /\ pc' = [pc EXCEPT ![c] = "issued"]
        /\ UNCHANGED <<cmdQueue, pending, task>>
    BY <1>1 DEF CallStart, IdsUnique
  <2>2. \A d \in Calls : d # c => pc'[d] = pc[d] /\ req'[d] = req[d]
    BY <2>1 DEF TypeOK
  <2>3. IdsUnique'
    <3>1. CASE req' = req /\ nextId' = nextId /\ pc' = [pc EXCEPT ![c] = "done"]
      BY <3>1, <2>2 DEF IdsUnique, TypeOK
    <3>2. CASE /\ nextId' = nextId + 1 /\ req' = [req EXCEPT ![c] = fresh]
               /\ nextId \in Ids /\ pc' = [pc EXCEPT ![c] = "issued"]
      <4>1. /\ req'[c].id = nextId /\ pc'[c] = "issued" /\ nextId \in Nat
            /\ \A d \in Calls : req[d].id \in Nat
        BY <3>2 DEF TypeOK, Requests, Ids, NoId
      <4>2. QED
        BY <3>2, <4>1, <2>2 DEF IdsUnique
    <3>3. QED
      BY <2>1, <3>1, <3>2
  <2>4. ChannelSound'
    BY <2>1, <2>2, QueueElements DEF ChannelSound
  <2>5. TableSound'
    BY <2>1, <2>2 DEF TableSound, TypeOK, Running
  <2>6. NoCallerForgotten'
    BY <2>1, <2>2 DEF NoCallerForgotten, TypeOK, Running, Queued
  <2>7. QED
    BY <2>3, <2>4, <2>5, <2>6
<1>2. ASSUME CallSend(c)
      PROVE  (IdsUnique /\ ChannelSound /\ TableSound /\ NoCallerForgotten)'
  <2>1. /\ pc[c] = "issued"
        /\ UNCHANGED <<req, nextId, pending, task>>
        /\ \A d \in Calls : d # c => pc'[d] = pc[d]
    BY <1>2 DEF CallSend, TypeOK
  <2>2. \/ pc'[c] = "done" /\ cmdQueue' = cmdQueue
        \/ pc'[c] = "awaiting" /\ cmdQueue' = Append(cmdQueue, c) /\ task # "ended"
    BY <1>2 DEF CallSend, TypeOK
  <2>3. /\ \A k \in DOMAIN cmdQueue : cmdQueue[k] # c
        /\ \A i \in Ids : pending[i] # c
    BY <2>1, SessionConstants DEF ChannelSound, TableSound
  <2>4. IdsUnique'
    BY <2>1, <2>2 DEF IdsUnique
  <2>5. ChannelSound'
    BY SMTT(30), <2>1, <2>2, <2>3, QueueElements, AppendQueue DEF ChannelSound
  <2>6. TableSound'
    BY <2>1, <2>3 DEF TableSound, TypeOK, Running
  <2>7. NoCallerForgotten'
    <3>1. \A d \in Calls : d \in Queued => d \in Queued'
      BY <2>2, AppendQueue DEF Queued
    <3>2. pc'[c] = "awaiting" => c \in Queued'
      BY <2>2, AppendQueue DEF Queued
    <3>3. QED
      BY <2>1, <2>2, <3>1, <3>2 DEF NoCallerForgotten, Running
  <2>8. QED
    BY <2>4, <2>5, <2>6, <2>7
<1>3. ASSUME CallDrop(c)
      PROVE  (IdsUnique /\ ChannelSound /\ TableSound /\ NoCallerForgotten)'
  <2>1. /\ pc[c] = "awaiting" /\ pc'[c] = "dropped"
        /\ UNCHANGED <<req, nextId, pending, task, cmdQueue>>
        /\ \A d \in Calls : d # c => pc'[d] = pc[d]
    BY <1>3 DEF CallDrop, TypeOK
  <2>2. IdsUnique' /\ ChannelSound'
    BY <2>1, QueueElements DEF IdsUnique, ChannelSound
  <2>3. TableSound' /\ NoCallerForgotten'
    BY <2>1 DEF TableSound, NoCallerForgotten, TypeOK, Running, Queued
  <2>4. QED
    BY <2>2, <2>3
<1>4. TypeOK'
  BY TypeCaller
<1>5. QED
  BY <1>1, <1>2, <1>3, <1>4 DEF CallerStep

LEMMA CorrelationTakes ==
  ASSUME TypeInv, CorrelationInv, NEW c \in Calls, TaskHandles(c)
  PROVE  (IdsUnique /\ ChannelSound /\ TableSound /\ NoCallerForgotten)'
<1> USE SessionConstants
        DEF TypeInv, CorrelationInv, callVars, sharedVars, taskVars, peerVars
<1>1. /\ Running /\ cmdQueue # <<>> /\ c = cmdQueue[1] /\ cmdQueue' = Tail(cmdQueue)
      /\ UNCHANGED <<req, nextId>>
  BY HeadIsQueued DEF TaskHandles, TaskEncodeFails, TaskSends, TaskSendFails, TaskTakes
<1>2. /\ \A k \in DOMAIN cmdQueue' : k + 1 \in DOMAIN cmdQueue /\ cmdQueue'[k] = cmdQueue[k + 1]
      /\ \A k \in DOMAIN cmdQueue' : cmdQueue'[k] # c /\ k \in Nat
      /\ \A i \in Ids : pending[i] # c
      /\ pc[c] \in {"awaiting", "dropped"} /\ req[c].id \in Ids
  BY <1>1, HeadIsQueued DEF ChannelSound, HasId
<1>3. \A d \in Calls : d # c /\ d \in Queued => d \in Queued'
  <2> SUFFICES ASSUME NEW k \in DOMAIN cmdQueue, cmdQueue[k] # c
               PROVE  cmdQueue[k] \in Queued'
    BY DEF Queued
  <2>1. k - 1 \in DOMAIN cmdQueue' /\ k - 1 + 1 = k
    BY <1>1, HeadIsQueued
  <2>2. cmdQueue'[k - 1] = cmdQueue[k]
    BY <1>2, <2>1
  <2>3. QED
    BY <2>1, <2>2 DEF Queued
<1>4. \A k \in DOMAIN cmdQueue' : cmdQueue'[k] \in Calls
  BY <1>2, QueueElements
<1>5. \A j, k \in DOMAIN cmdQueue' : cmdQueue'[j] = cmdQueue'[k] => j = k
  BY <1>2 DEF ChannelSound
<1>6. ASSUME TaskEncodeFails(c)
      PROVE  (IdsUnique /\ ChannelSound /\ TableSound /\ NoCallerForgotten)'
  <2>1. /\ \A d \in Calls : pc'[d] = IF d = c /\ pc[c] = "awaiting" THEN "done" ELSE pc[d]
        /\ pending' = pending /\ task' = "select"
    BY <1>6 DEF TaskEncodeFails, Resolve
  <2>2. IdsUnique'
    BY <1>1, <2>1 DEF IdsUnique
  <2>3. ChannelSound'
    BY <1>1, <1>2, <1>4, <1>5, <2>1 DEF ChannelSound
  <2>4. TableSound'
    BY <1>1, <1>2, <2>1 DEF TableSound, Running, TypeOK
  <2>5. NoCallerForgotten'
    BY <1>1, <1>3, <2>1 DEF NoCallerForgotten, Running
  <2>6. QED
    BY <2>2, <2>3, <2>4, <2>5
<1>7. ASSUME TaskSends(c)
      PROVE  (IdsUnique /\ ChannelSound /\ TableSound /\ NoCallerForgotten)'
  <2>1. /\ pending' = [pending EXCEPT ![req[c].id] = c]
        /\ task' = "select" /\ pc' = pc
    BY <1>7 DEF TaskSends, Correlate
  <2>2. /\ pending'[req[c].id] = c
        /\ \A i \in Ids : i # req[c].id => pending'[i] = pending[i]
    BY <1>2, <2>1 DEF TypeOK
  <2>3. IdsUnique'
    BY <1>1, <2>1 DEF IdsUnique
  <2>4. ChannelSound'
    BY <1>1, <1>2, <1>5, <2>1, <2>2 DEF ChannelSound
  <2>5. TableSound'
    BY <1>1, <1>2, <2>1, <2>2 DEF TableSound, Running
  <2>6. NoCallerForgotten'
    <3> SUFFICES ASSUME NEW d \in Calls, pc[d] = "awaiting"
                 PROVE  (d \in Queued' /\ task' # "ended") \/ pending'[req[d].id] = d
      BY <1>1, <2>1 DEF NoCallerForgotten, Running
    <3>1. CASE d = c
      BY <3>1, <2>2
    <3>2. CASE d # c
      <4>1. req[d].id \in Ids /\ req[d].id # req[c].id
        BY <3>2, <1>2 DEF IdsUnique, Ids, NoId
      <4>2. QED
        BY <3>2, <4>1, <1>3, <2>1, <2>2 DEF NoCallerForgotten
    <3>3. QED
      BY <3>1, <3>2
  <2>7. QED
    BY <2>3, <2>4, <2>5, <2>6
<1>8. ASSUME TaskSendFails(c)
      PROVE  (IdsUnique /\ ChannelSound /\ TableSound /\ NoCallerForgotten)'
  <2>1. Teardown({c})
    BY <1>8 DEF TaskSendFails
  <2>2. IdsUnique'
    BY <1>1, <2>1, TeardownFrees DEF IdsUnique
  <2>3. TableSound'
    BY <2>1, TeardownFrees DEF TableSound
  <2>4. \A k \in DOMAIN cmdQueue' : pc'[cmdQueue'[k]] = pc[cmdQueue'[k]]
    <3> SUFFICES ASSUME NEW k \in DOMAIN cmdQueue'
                 PROVE  pc'[cmdQueue'[k]] = pc[cmdQueue'[k]]
      OBVIOUS
    <3>1. cmdQueue'[k] \notin Waiting
      BY <1>2 DEF ChannelSound, Waiting
    <3>2. QED
      BY <1>2, <1>4, <2>1, <3>1, TeardownFrees
  <2>5. ChannelSound'
    BY <1>2, <1>4, <1>5, <2>1, <2>4, TeardownFrees DEF ChannelSound
  <2>6. NoCallerForgotten'
    <3> SUFFICES ASSUME NEW d \in Calls, pc'[d] = "awaiting"
                 PROVE  d \in Queued' /\ task' # "ended"
      BY DEF NoCallerForgotten
    <3>1. pc[d] = "awaiting" /\ d # c /\ d \notin Waiting
      BY <2>1, TeardownFrees
    <3>2. pending[req[d].id] # d
      <4>1. req[d].id \in Ids
        BY <3>1 DEF IdsUnique
      <4>2. QED
        BY <3>1, <4>1 DEF Waiting
    <3>3. QED
      BY <1>3, <2>1, <3>1, <3>2, TeardownFrees DEF NoCallerForgotten
  <2>7. QED
    BY <2>2, <2>3, <2>5, <2>6
<1>9. QED
  BY <1>6, <1>7, <1>8 DEF TaskHandles

LEMMA CorrelationReads ==
  ASSUME TypeInv, CorrelationInv, TaskReceives
  PROVE  (IdsUnique /\ ChannelSound /\ TableSound /\ NoCallerForgotten)'
<1> USE SessionConstants DEF TypeInv, CorrelationInv
<1> DEFINE f == Head(inbound)
           c == pending[f.id]
<1>1. Running /\ UNCHANGED <<req, nextId, cmdQueue, task>>
  BY DEF TaskReceives, PollsRecv, Running
<1>2. CASE UNCHANGED <<pc, pending>>
  BY <1>1, <1>2 DEF IdsUnique, ChannelSound, TableSound, NoCallerForgotten, Running, Queued
<1>3. CASE /\ f.kind = "reply" /\ c # NoCall
           /\ pending' = [pending EXCEPT ![f.id] = NoCall]
           /\ pc' = [d \in Calls |-> IF d = c /\ pc[d] = "awaiting" THEN "done" ELSE pc[d]]
  <2>1. f.id \in Ids
    <3>1. f \in Frames
      BY ChannelTypes DEF TaskReceives
    <3>2. QED
      BY <1>3, <3>1 DEF Frames, Junk, Lifecycle
  <2>2. c \in Calls /\ pc[c] \in {"awaiting", "dropped"} /\ req[c].id = f.id
    BY <1>3, <2>1 DEF TableSound, TypeOK
  <2>3. /\ pending'[f.id] = NoCall
        /\ \A i \in Ids : i # f.id => pending'[i] = pending[i]
        /\ \A i \in Ids : i # f.id => pending[i] # c
    BY <1>3, <2>1, <2>2 DEF TableSound, TypeOK
  <2>4. \A k \in DOMAIN cmdQueue : cmdQueue[k] # c
    BY <2>1 DEF ChannelSound
  <2>5. IdsUnique'
    BY <1>1, <1>3 DEF IdsUnique
  <2>6. ChannelSound'
    BY <1>1, <1>3, <2>3, <2>4, QueueElements DEF ChannelSound
  <2>7. TableSound'
    BY <1>1, <1>3, <2>3 DEF TableSound, TypeOK, Running
  <2>8. NoCallerForgotten'
    <3> SUFFICES ASSUME NEW d \in Calls, pc'[d] = "awaiting"
                 PROVE  (d \in Queued' /\ task' # "ended") \/ pending'[req[d].id] = d
      BY <1>1 DEF NoCallerForgotten, Running
    <3>1. pc[d] = "awaiting" /\ d # c
      BY <1>3
    <3>2. req[d].id \in Ids /\ req[d].id # f.id
      BY <2>1, <2>2, <3>1 DEF IdsUnique, Ids, NoId
    <3>3. QED
      BY <1>1, <2>3, <3>1, <3>2 DEF NoCallerForgotten, Queued
  <2>9. QED
    BY <2>5, <2>6, <2>7, <2>8
<1>4. QED
  BY <1>2, <1>3 DEF TaskReceives, CompletePending, Resolve

LEMMA CorrelationEnds ==
  ASSUME TypeInv, CorrelationInv, TaskSeesClose \/ TaskRecvFails \/ TaskReturns
  PROVE  (IdsUnique /\ ChannelSound /\ TableSound /\ NoCallerForgotten)'
<1> USE SessionConstants DEF TypeInv, CorrelationInv, callVars, sharedVars
<1>1. CASE TaskSeesClose
  BY <1>1 DEF TaskSeesClose, PollsRecv, IdsUnique, ChannelSound, TableSound,
              NoCallerForgotten, Running, Queued
<1>2. CASE TaskRecvFails
  <2>1. Teardown({}) /\ UNCHANGED <<req, nextId, cmdQueue>> /\ cmdQueue = <<>>
    BY <1>2 DEF TaskRecvFails, PollsRecv
  <2>2. IdsUnique' /\ ChannelSound' /\ TableSound'
    BY <2>1, TeardownFrees DEF IdsUnique, ChannelSound, TableSound
  <2>3. NoCallerForgotten'
    <3> SUFFICES ASSUME NEW d \in Calls, pc'[d] = "awaiting"
                 PROVE  FALSE
      BY DEF NoCallerForgotten
    <3>1. pc[d] = "awaiting" /\ d \notin Waiting
      BY <2>1, TeardownFrees
    <3>2. d \notin Queued
      BY <2>1 DEF Queued
    <3>3. pending[req[d].id] = d /\ req[d].id \in Ids
      BY <3>1, <3>2 DEF NoCallerForgotten, IdsUnique
    <3>4. QED
      BY <3>1, <3>3 DEF Waiting
  <2>4. QED
    BY <2>2, <2>3
<1>3. CASE TaskReturns
  <2>1. /\ task = "closing" /\ task' = "ended" /\ cmdQueue' = <<>>
        /\ UNCHANGED <<req, nextId, pending>>
        /\ pc' = [c \in Calls |-> IF c \in Queued /\ pc[c] = "awaiting" THEN "done" ELSE pc[c]]
    BY <1>3 DEF TaskReturns, Resolve
  <2>2. \A i \in Ids : pending[i] = NoCall
    BY <2>1 DEF TableSound, Running
  <2>3. IdsUnique' /\ ChannelSound' /\ TableSound'
    BY <2>1, <2>2 DEF IdsUnique, ChannelSound, TableSound, TypeOK
  <2>4. NoCallerForgotten'
    BY <2>1, <2>2 DEF NoCallerForgotten, Running
  <2>5. QED
    BY <2>3, <2>4
<1>4. QED
  BY <1>1, <1>2, <1>3

LEMMA CorrelationStep ==
  ASSUME TypeInv, CorrelationInv, [Next]_vars
  PROVE  CorrelationInv'
<1>1. CASE \E c \in Calls : CallerStep(c)
  BY <1>1, CorrelationCaller
<1>2. CASE TaskStep
  <2>1. TypeOK'
    BY <1>2, TypeTask
  <2>2. (IdsUnique /\ ChannelSound /\ TableSound /\ NoCallerForgotten)'
    BY <1>2, CorrelationTakes, CorrelationReads, CorrelationEnds DEF TaskStep
  <2>3. QED
    BY <2>1, <2>2 DEF CorrelationInv
<1>3. CASE PeerStep
  <2>1. UNCHANGED <<pc, req, nextId, cmdQueue, pending, task>>
    BY <1>3 DEF PeerStep, PeerAnswers, PeerAcks, PeerRefuses, PeerCreates, PeerDestroys,
                PeerGarbles, PeerCloses, callVars, sharedVars, taskVars
  <2>2. TypeOK'
    BY <1>3, TypePeer DEF TypeInv
  <2>3. QED
    BY <2>1, <2>2 DEF CorrelationInv, IdsUnique, ChannelSound, TableSound,
                      NoCallerForgotten, Running, Queued
<1>4. CASE Quiet \/ UNCHANGED vars
  <2>1. UNCHANGED vars
    BY <1>4 DEF Quiet
  <2>2. QED
    BY <2>1 DEF vars, callVars, sharedVars, taskVars, peerVars, CorrelationInv, TypeOK,
                IdsUnique, ChannelSound, TableSound, NoCallerForgotten, Running, Queued
<1>5. QED
  BY <1>1, <1>2, <1>3, <1>4 DEF Next

LEMMA Correlation == Spec => []CorrelationInv
<1>1. Init /\ TypeInv => CorrelationInv
  BY SessionConstants
     DEF Init, TypeInv, TypeOK, CorrelationInv, IdsUnique, ChannelSound, TableSound,
         NoCallerForgotten, NoPending, Running, NoId
<1>2. TypeInv /\ CorrelationInv /\ [Next]_vars => CorrelationInv'
  BY CorrelationStep
<1>3. QED
  BY <1>1, <1>2, TypeInvariant, PTL DEF Spec

\* While a caller awaits, its oneshot's sender is in the channel or in the
\* table under its own id; once the task returned, nobody awaits.
\* [handle_cmd, complete_pending, session_task]
THEOREM CallersHeld == Spec => []NoCallerForgotten
  BY Correlation, PTL DEF CorrelationInv

-----------------------------------------------------------------------------
(* Correlation: what the wire says of whom *)

\* What the debuggee owes it owes to one call, on that call's route.
OwedSound ==
    \A o \in owed : \E c \in Calls :
        /\ req[c].id = o.id /\ req[c].target = o.target
        /\ o.target = NoTarget => o.due = {"reply"}

\* A reply frame is the answer of a call's own target, or the unattributed
\* reply to the envelope of a routed call.
SpeaksFor(f, reqs, ans) ==
    f.kind = "reply" =>
        \E c \in Calls :
            /\ reqs[c].id = f.id
            /\ \/ f.target = reqs[c].target /\ f.id \in ans
               \/ f.target = NoTarget /\ reqs[c].target # NoTarget

InboundSound == \A k \in DOMAIN inbound : SpeaksFor(inbound[k], req, answered)

\* A call that has not returned has no result.
OpenHasNoResult ==
    \A c \in Calls : pc[c] # "done" => result[c] = NoResult

ReplyInv == OwedSound /\ InboundSound /\ OpenHasNoResult /\ ReplyCorrelated

\* Frames put on the wire that each speak for a call keep the wire sound.
LEMMA InboundGrows ==
  ASSUME TypeOK, NEW fs \in Seq(Frames), NEW reqs, NEW ans,
         \A k \in DOMAIN inbound : SpeaksFor(inbound[k], reqs, ans),
         \A k \in 1..Len(fs) : SpeaksFor(fs[k], reqs, ans)
  PROVE  \A k \in DOMAIN (inbound \o fs) : SpeaksFor((inbound \o fs)[k], reqs, ans)
<1> DEFINE all == inbound \o fs
<1>1. /\ inbound \in Seq(Frames) /\ Len(inbound) \in Nat /\ DOMAIN inbound = 1..Len(inbound)
      /\ Len(fs) \in Nat
  BY LenProperties DEF TypeOK
<1>2. /\ all \in Seq(Frames) /\ Len(all) = Len(inbound) + Len(fs)
      /\ \A k \in 1..(Len(inbound) + Len(fs)) :
            all[k] = IF k <= Len(inbound) THEN inbound[k] ELSE fs[k - Len(inbound)]
  BY <1>1, ConcatProperties
<1>3. DOMAIN all = 1..(Len(inbound) + Len(fs))
  BY <1>2, LenProperties
<1> HIDE DEF all
<1>4. SUFFICES ASSUME NEW k \in DOMAIN all
               PROVE  SpeaksFor(all[k], reqs, ans)
  BY DEF all
<1>5. CASE k <= Len(inbound)
  <2>1. k \in DOMAIN inbound /\ all[k] = inbound[k]
    BY <1>1, <1>2, <1>3, <1>5
  <2>2. QED
    BY <2>1
<1>6. CASE ~(k <= Len(inbound))
  <2>1. k - Len(inbound) \in 1..Len(fs) /\ all[k] = fs[k - Len(inbound)]
    BY <1>1, <1>2, <1>3, <1>6
  <2>2. QED
    BY <2>1
<1>7. QED
  BY <1>5, <1>6

\* More answers only let more frames speak.
LEMMA InboundKept ==
  ASSUME InboundSound, NEW ans, answered \subseteq ans
  PROVE  \A k \in DOMAIN inbound : SpeaksFor(inbound[k], req, ans)
  BY DEF InboundSound, SpeaksFor

\* A step that only hands out local failures keeps results sound.
LEMMA LocalResults ==
  ASSUME OpenHasNoResult, ReplyCorrelated, req' = req, answered \subseteq answered',
         \A d \in Calls :
            \/ result'[d] = result[d] /\ (pc[d] = "done" => pc'[d] = "done")
            \/ pc'[d] = "done" /\ result'[d].outcome \in LocalOutcomes
  PROVE  OpenHasNoResult' /\ ReplyCorrelated'
<1>1. OpenHasNoResult'
  BY DEF OpenHasNoResult
<1>2. LocalOutcomes \cap WireOutcomes = {}
  BY DEF LocalOutcomes, WireOutcomes
<1>3. ReplyCorrelated'
  BY <1>2 DEF ReplyCorrelated
<1>4. QED
  BY <1>1, <1>3

LEMMA ReplyStart ==
  ASSUME CorrelationInv, ReplyInv, NEW c \in Calls, NEW t \in Routes, CallStart(c, t)
  PROVE  ReplyInv'
<1> USE DEF CorrelationInv, ReplyInv
<1> DEFINE fresh == [id |-> nextId, member |-> req[c].member, target |-> t]
<1>1. /\ pc[c] = "idle" /\ req[c].id = NoId
      /\ \/ /\ req' = req /\ pc' = [pc EXCEPT ![c] = "done"]
            /\ result' = [result EXCEPT ![c] = Local("unsupported")]
         \/ /\ req' = [req EXCEPT ![c] = fresh] /\ pc' = [pc EXCEPT ![c] = "issued"]
            /\ result' = result
      /\ UNCHANGED <<inbound, owed, answered>>
  BY DEF CallStart, IdsUnique, peerVars
<1>2. \A d \in Calls : d # c => /\ pc'[d] = pc[d] /\ req'[d] = req[d]
                                /\ result'[d] = result[d]
  BY <1>1 DEF TypeOK
<1>3. \A d \in Calls : req[d].id \in Ids => d # c
  BY <1>1 DEF Ids, NoId
<1>4. OwedSound'
  BY <1>1, <1>2, <1>3 DEF OwedSound, TypeOK, Obligations
<1>5. InboundSound'
  <2>1. SUFFICES ASSUME NEW k \in DOMAIN inbound, inbound[k].kind = "reply"
                 PROVE  SpeaksFor(inbound[k], req', answered)
    BY <1>1 DEF InboundSound, SpeaksFor
  <2>2. inbound[k] \in Frames
    BY ElementOfSeq, LenProperties DEF TypeOK
  <2>3. inbound[k].id \in Ids
    BY <2>1, <2>2 DEF Frames, Junk, Lifecycle
  <2>4. QED
    BY <1>2, <1>3, <2>1, <2>3 DEF InboundSound, SpeaksFor
<1>6. OpenHasNoResult' /\ ReplyCorrelated'
  <2>1. result[c] = NoResult
    BY <1>1 DEF OpenHasNoResult
  <2>2. \/ pc'[c] = "done" /\ result'[c].outcome = "unsupported"
        \/ result'[c] = NoResult
    BY <1>1, <2>1 DEF TypeOK, Local
  <2>3. QED
    BY <1>1, <1>2, <2>2 DEF OpenHasNoResult, ReplyCorrelated, WireOutcomes
<1>7. QED
  BY <1>4, <1>5, <1>6

LEMMA ReplyLocal ==
  ASSUME CorrelationInv, ReplyInv,
         \/ \E c \in Calls : CallSend(c) \/ CallDrop(c) \/ TaskHandles(c)
         \/ TaskSeesClose \/ TaskRecvFails \/ TaskReturns
  PROVE  ReplyInv'
<1> USE DEF CorrelationInv, ReplyInv
<1>1. req' = req /\ answered' = answered /\ (inbound' = inbound \/ inbound' = <<>>)
  BY DEF CallSend, CallDrop, TaskHandles, TaskEncodeFails, TaskSends, TaskSendFails,
         TaskSeesClose, TaskRecvFails, TaskReturns, callVars, sharedVars, peerVars
<1>2. InboundSound'
  BY <1>1 DEF InboundSound
<1>3. OwedSound'
  <2>1. owed' = owed \/ \E c \in Calls : owed' = owed \cup {Obligation(c)}
    BY DEF CallSend, CallDrop, TaskHandles, TaskEncodeFails, TaskSends, TaskSendFails,
           TaskSeesClose, TaskRecvFails, TaskReturns, peerVars
  <2>2. QED
    BY <1>1, <2>1 DEF OwedSound, Obligation
<1> DEFINE Locally == \A d \in Calls :
         \/ result'[d] = result[d] /\ (pc[d] = "done" => pc'[d] = "done")
         \/ pc'[d] = "done" /\ result'[d].outcome \in LocalOutcomes
<1>4. Locally
  <2>1. ASSUME NEW c \in Calls, CallSend(c) \/ CallDrop(c)
        PROVE  Locally
    BY <2>1 DEF CallSend, CallDrop, TypeOK, Local, LocalOutcomes
  <2>2. ASSUME NEW S, NEW o \in LocalOutcomes, Resolve(S, Local(o))
        PROVE  Locally
    BY <2>2 DEF Resolve, Local
  <2>3. ASSUME NEW failed, Teardown(failed)
        PROVE  Locally
    <3> DEFINE freed == {c \in Waiting \cup failed : pc[c] = "awaiting"}
    <3>1. \A d \in Calls : pc'[d] = IF d \in freed THEN "done" ELSE pc[d]
      BY <2>3 DEF Teardown
    <3>2. \A d \in Calls :
             result'[d] = IF d \in freed
                          THEN Local(IF d \in failed THEN "transport" ELSE "abandoned")
                          ELSE result[d]
      BY <2>3 DEF Teardown
    <3>3. Local("transport").outcome \in LocalOutcomes /\ Local("abandoned").outcome \in LocalOutcomes
      BY DEF Local, LocalOutcomes
    <3>4. QED
      BY <3>1, <3>2, <3>3
  <2>4. ASSUME UNCHANGED callVars
        PROVE  Locally
    BY <2>4 DEF callVars
  <2>5. QED
    BY <2>1, <2>2, <2>3, <2>4
       DEF TaskHandles, TaskEncodeFails, TaskSends, TaskSendFails,
           TaskSeesClose, TaskRecvFails, TaskReturns, LocalOutcomes
<1>5. QED
  BY <1>1, <1>2, <1>3, <1>4, LocalResults

LEMMA ReplyReads ==
  ASSUME CorrelationInv, ReplyInv, TaskReceives
  PROVE  ReplyInv'
<1> USE DEF CorrelationInv, ReplyInv
<1> DEFINE f == Head(inbound)
           c == pending[f.id]
           r == [outcome |-> f.outcome, id |-> f.id, target |-> f.target]
<1>1. /\ UNCHANGED <<req, owed, answered>> /\ inbound # <<>> /\ inbound' = Tail(inbound)
      /\ inbound \in Seq(Frames)
  BY DEF TaskReceives, TypeOK
<1>2. /\ f = inbound[1] /\ 1 \in DOMAIN inbound
      /\ \A k \in DOMAIN inbound' : k + 1 \in DOMAIN inbound /\ inbound'[k] = inbound[k + 1]
  BY <1>1, HeadTailProperties, LenProperties, EmptySeq
<1>3. OwedSound' /\ InboundSound'
  BY <1>1, <1>2 DEF OwedSound, InboundSound
<1>4. CASE UNCHANGED <<pc, result>>
  BY <1>1, <1>3, <1>4 DEF OpenHasNoResult, ReplyCorrelated
<1>5. CASE /\ f.kind = "reply" /\ c # NoCall /\ ~IsAck(c, f)
           /\ Resolve({c}, r)
  <2>1. f \in Frames
    BY <1>1, ChannelTypes
  <2>2. f.id \in Ids
    BY <1>5, <2>1 DEF Frames, Junk, Lifecycle
  <2>3. c \in Calls /\ req[c].id = f.id
    BY <1>5, <2>2 DEF TableSound, TypeOK
  <2>4. f.target = req[c].target /\ f.id \in answered
    <3>1. PICK d \in Calls :
             /\ req[d].id = f.id
             /\ \/ f.target = req[d].target /\ f.id \in answered
                \/ f.target = NoTarget /\ req[d].target # NoTarget
      BY <1>2, <1>5 DEF InboundSound, SpeaksFor
    <3>2. d = c
      BY <2>2, <2>3, <3>1 DEF IdsUnique, Ids, NoId
    <3>3. QED
      BY <1>5, <3>1, <3>2 DEF IsAck
  <2>5. \A d \in Calls :
           \/ result'[d] = result[d] /\ pc'[d] = pc[d]
           \/ d = c /\ pc'[d] = "done" /\ result'[d] = r
    BY <1>5 DEF Resolve
  <2>6. OpenHasNoResult'
    BY <2>5 DEF OpenHasNoResult
  <2>7. ReplyCorrelated'
    BY <1>1, <2>3, <2>4, <2>5 DEF ReplyCorrelated
  <2>8. QED
    BY <1>3, <2>6, <2>7
<1>6. QED
  BY <1>4, <1>5 DEF TaskReceives, CompletePending

\* Dealing with part of a request leaves the rest owed to the same call.
LEMMA OwedLess ==
  ASSUME OwedSound, req' = req, NEW o \in owed, o \in Obligations, NEW w,
         owed' \subseteq owed \cup
              (IF o.due = {w} THEN {} ELSE {[o EXCEPT !.due = @ \ {w}]}),
         w = "ack" \/ w = "reply", w \in o.due
  PROVE  OwedSound'
<1>1. PICK c \in Calls : /\ req[c].id = o.id /\ req[c].target = o.target
                         /\ o.target = NoTarget => o.due = {"reply"}
  BY DEF OwedSound
<1>2. SUFFICES ASSUME NEW p \in owed', p \notin owed
               PROVE  /\ req[c].id = p.id /\ req[c].target = p.target
                      /\ p.target = NoTarget => p.due = {"reply"}
  BY DEF OwedSound
<1>3. p = [o EXCEPT !.due = @ \ {w}] /\ o.due # {w}
  BY <1>2
<1>4. p.id = o.id /\ p.target = o.target
  BY <1>3 DEF Obligations
<1>5. p.target # NoTarget
  BY <1>1, <1>3, <1>4
<1>6. QED
  BY <1>1, <1>4, <1>5

LEMMA ReplyPeer ==
  ASSUME CorrelationInv, ReplyInv, PeerStep
  PROVE  ReplyInv'
<1> USE DEF CorrelationInv, ReplyInv
<1>1. /\ UNCHANGED <<pc, req, result>> /\ answered \subseteq answered'
  BY DEF PeerStep, PeerAnswers, PeerAcks, PeerRefuses, PeerCreates, PeerDestroys,
         PeerGarbles, PeerCloses, callVars
<1>2. OpenHasNoResult' /\ ReplyCorrelated'
  BY <1>1 DEF OpenHasNoResult, ReplyCorrelated
<1>3. \A k \in DOMAIN inbound : SpeaksFor(inbound[k], req, answered')
  BY <1>1, InboundKept
<1>4. ASSUME NEW o \in owed, PeerAnswers(o)
      PROVE  OwedSound' /\ InboundSound'
  <2>1. o \in Obligations /\ o.id \in Ids
    BY DEF TypeOK, Obligations
  <2>2. PICK c \in Calls : /\ req[c].id = o.id /\ req[c].target = o.target
                           /\ o.target = NoTarget => o.due = {"reply"}
    BY DEF OwedSound
  <2>3. PICK out \in PeerOutcomes(o), n \in 1..MaxCopies :
             PeerSends([k \in 1..n |-> Reply(o.id, out, o.target)])
    BY <1>4 DEF PeerAnswers
  <2> DEFINE fs == [k \in 1..n |-> Reply(o.id, out, o.target)]
  <2>4. Reply(o.id, out, o.target) \in Frames
    BY <2>1, FrameTypes DEF Obligations, PeerOutcomes, WireOutcomes
  <2>5. fs \in Seq(Frames) /\ Len(fs) = n
    BY <2>4, SeqDef, SessionConstants
  <2>6. SpeaksFor(Reply(o.id, out, o.target), req, answered')
    BY <1>4, <2>2 DEF SpeaksFor, Reply, PeerAnswers
  <2>7. \A k \in 1..Len(fs) : SpeaksFor(fs[k], req, answered')
    BY <2>5, <2>6
  <2>8. inbound' = inbound \o fs
    BY <2>3 DEF PeerSends
  <2>9. InboundSound'
    BY <1>1, <1>3, <2>5, <2>7, <2>8, InboundGrows DEF InboundSound
  <2>10. OwedSound'
    BY <1>1, <1>4, <2>1, <2>2, OwedLess DEF PeerAnswers
  <2>11. QED
    BY <2>9, <2>10
<1>5. ASSUME NEW o \in owed, PeerAcks(o) \/ PeerRefuses(o)
      PROVE  OwedSound' /\ InboundSound'
  <2>1. o \in Obligations /\ o.id \in Ids
    BY DEF TypeOK, Obligations
  <2>2. PICK c \in Calls : /\ req[c].id = o.id /\ req[c].target = o.target
                           /\ o.target = NoTarget => o.due = {"reply"}
    BY DEF OwedSound
  <2>3. PICK out \in WireOutcomes : PeerSends(<<Reply(o.id, out, NoTarget)>>)
    BY <1>5 DEF PeerAcks, PeerRefuses, WireOutcomes
  <2> DEFINE fs == <<Reply(o.id, out, NoTarget)>>
  <2>4. fs \in Seq(Frames) /\ Len(fs) = 1 /\ fs[1] = Reply(o.id, out, NoTarget)
    BY <2>1, FrameTypes DEF Obligations, Routes
  <2>5. o.target # NoTarget
    BY <1>5, <2>2 DEF PeerAcks, PeerRefuses
  <2>6. SpeaksFor(Reply(o.id, out, NoTarget), req, answered')
    BY <2>2, <2>5 DEF SpeaksFor, Reply
  <2>7. \A k \in 1..Len(fs) : SpeaksFor(fs[k], req, answered')
    BY <2>4, <2>6
  <2>8. inbound' = inbound \o fs
    BY <2>3 DEF PeerSends
  <2>9. InboundSound'
    BY <1>1, <1>3, <2>4, <2>7, <2>8, InboundGrows DEF InboundSound
  <2>10. OwedSound'
    BY <1>1, <1>5, <2>1, <2>2, OwedLess DEF PeerAcks, PeerRefuses
  <2>11. QED
    BY <2>9, <2>10
<1>6. ASSUME NEW f \in Frames, f.kind # "reply", PeerSends(<<f>>), owed' \subseteq owed
      PROVE  OwedSound' /\ InboundSound'
  <2>1. <<f>> \in Seq(Frames) /\ \A k \in 1..Len(<<f>>) : SpeaksFor(<<f>>[k], req, answered')
    BY <1>6 DEF SpeaksFor
  <2>2. inbound' = inbound \o <<f>>
    BY <1>6 DEF PeerSends
  <2>3. InboundSound'
    BY <1>1, <1>3, <2>1, <2>2, InboundGrows DEF InboundSound
  <2>4. OwedSound'
    BY <1>1, <1>6 DEF OwedSound
  <2>5. QED
    BY <2>3, <2>4
<1>7. ASSUME NEW t \in SubTargets, PeerCreates(t) \/ PeerDestroys(t)
      PROVE  OwedSound' /\ InboundSound'
  <2>1. /\ Lifecycle("created", t) \in Frames /\ Lifecycle("destroyed", t) \in Frames
        /\ Lifecycle("created", t).kind # "reply" /\ Lifecycle("destroyed", t).kind # "reply"
    BY FrameTypes DEF Lifecycle
  <2>2. QED
    BY <1>6, <1>7, <2>1 DEF PeerCreates, PeerDestroys
<1>8. ASSUME PeerGarbles
      PROVE  OwedSound' /\ InboundSound'
  <2>1. Junk \in Frames /\ Junk.kind # "reply"
    BY FrameTypes DEF Junk, Lifecycle
  <2>2. QED
    BY <1>6, <1>8, <2>1 DEF PeerGarbles
<1>9. ASSUME PeerCloses
      PROVE  OwedSound' /\ InboundSound'
  BY <1>1, <1>9 DEF PeerCloses, OwedSound, InboundSound
<1>10. QED
  BY <1>2, <1>4, <1>5, <1>7, <1>8, <1>9 DEF PeerStep

LEMMA Replies == Spec => []ReplyInv
<1>1. Init => ReplyInv
  BY DEF Init, ReplyInv, OwedSound, InboundSound, OpenHasNoResult, ReplyCorrelated
<1>2. CorrelationInv /\ ReplyInv /\ [Next]_vars => ReplyInv'
  <2> SUFFICES ASSUME CorrelationInv, ReplyInv, [Next]_vars PROVE ReplyInv'
    OBVIOUS
  <2>1. CASE Quiet \/ UNCHANGED vars
    BY <2>1 DEF Quiet, vars, callVars, peerVars, ReplyInv, OwedSound, InboundSound,
                OpenHasNoResult, ReplyCorrelated
  <2>2. QED
    BY <2>1, ReplyStart, ReplyLocal, ReplyReads, ReplyPeer DEF Next, CallerStep, TaskStep
<1>3. QED
  BY <1>1, <1>2, Correlation, PTL DEF Spec

\* A call that returned what the debuggee said returned the answer to its own
\* id, given by the target it was routed to.  [complete_pending]
THEOREM RepliesCorrelated == Spec => []ReplyCorrelated
  BY Replies, PTL DEF ReplyInv
-----------------------------------------------------------------------------
(* The list of sub-targets *)

\* Frames that say nothing of a target change nothing about it.
LEMMA SilentFrames ==
    ASSUME NEW old \in Seq(Frames), NEW fs \in Seq(Frames), NEW t, Told(fs, t) = {},
           NEW listed, NEW alive, Arrives(listed, old, t, alive)
    PROVE  Arrives(listed, old \o fs, t, alive)
<1> DEFINE new == old \o fs
<1>1. /\ DOMAIN new = 1..(Len(old) + Len(fs)) /\ DOMAIN old = 1..Len(old)
      /\ Len(old) \in Nat /\ Len(fs) \in Nat
      /\ DOMAIN fs = 1..Len(fs)
      /\ \A k \in 1..Len(old) : new[k] = old[k]
      /\ \A k \in DOMAIN new : k > Len(old) => k - Len(old) \in DOMAIN fs /\ new[k] = fs[k - Len(old)]
  BY ConcatProperties, LenProperties
<1>2. Told(new, t) = Told(old, t)
  <2> HIDE DEF new
  <2>1. ASSUME NEW k \in Told(new, t) PROVE k \in Told(old, t)
    <3>1. CASE k \in 1..Len(old)  BY <1>1, <2>1, <3>1 DEF Told
    <3>2. CASE k \notin 1..Len(old)
      <4>1. k > Len(old) /\ k \in DOMAIN new  BY <1>1, <2>1, <3>2 DEF Told
      <4>2. k - Len(old) \in Told(fs, t)  BY <1>1, <2>1, <4>1 DEF Told
      <4> QED BY <4>2
    <3> QED BY <3>1, <3>2
  <2>2. ASSUME NEW k \in Told(old, t) PROVE k \in Told(new, t)
    BY <1>1, <2>2 DEF Told
  <2> QED BY <2>1, <2>2
<1>3. \A k \in Told(old, t) : new[k] = old[k]
  BY <1>1 DEF Told
<1> QED BY <1>2, <1>3 DEF Arrives

\* A frame about a target has the last word.
LEMMA LastFrame ==
    ASSUME NEW old \in Seq(Frames), NEW f \in Frames, f.kind \in {"created", "destroyed"},
           NEW listed
    PROVE  Arrives(listed, old \o <<f>>, f.target, f.kind = "created")
<1> DEFINE new == old \o <<f>>
           n == Len(old) + 1
<1>1. DOMAIN new = 1..n /\ n \in Nat /\ 1 <= n /\ new[n] = f
  BY ConcatProperties, LenProperties
<1> HIDE DEF new, n
<1>2. n \in Told(new, f.target) /\ Told(new, f.target) \subseteq 1..n
  BY <1>1 DEF Told
<1>3. \A k \in 1..n : n <= k => k = n
  BY <1>1
<1> QED BY <1>1, <1>2, <1>3 DEF Arrives, new

\* Applying the first frame leaves the others arriving where they did.
LEMMA FirstFrame ==
    ASSUME NEW frames \in Seq(Frames), frames # <<>>, NEW t, NEW listed \in BOOLEAN,
           NEW alive, Arrives(listed, frames, t, alive), NEW next,
           next = IF 1 \in Told(frames, t) THEN frames[1].kind = "created" ELSE listed
    PROVE  Arrives(next, Tail(frames), t, alive)
<1> DEFINE rest == Tail(frames)
<1>1. /\ DOMAIN rest \subseteq Nat /\ DOMAIN frames \subseteq Nat
      /\ \A k \in DOMAIN rest : k + 1 \in DOMAIN frames /\ rest[k] = frames[k + 1]
      /\ \A k \in DOMAIN frames : k = 1 \/ (k - 1 \in DOMAIN rest /\ rest[k - 1] = frames[k])
  OBVIOUS
<1> HIDE DEF rest
<1>2. \A k \in Told(rest, t) : k \in Nat /\ k + 1 \in Told(frames, t)
  BY <1>1 DEF Told
<1>3. \A k \in Told(frames, t) : k \in Nat /\ (k = 1 \/ k - 1 \in Told(rest, t))
  BY <1>1 DEF Told
<1>4. ASSUME Told(rest, t) = {} PROVE next = alive
  <2>1. \A k \in Told(frames, t) : k = 1  BY <1>3, <1>4
  <2>2. CASE 1 \in Told(frames, t)
    <3>1. \A j \in Told(frames, t) : j <= 1  BY <2>1
    <3> QED BY <2>2, <3>1 DEF Arrives
  <2>3. CASE 1 \notin Told(frames, t)
    <3>1. Told(frames, t) = {}  BY <2>1, <2>3
    <3> QED BY <2>3, <3>1 DEF Arrives
  <2> QED BY <2>2, <2>3
<1>5. ASSUME NEW k \in Told(rest, t), \A j \in Told(rest, t) : j <= k
      PROVE  (rest[k].kind = "created") = alive
  <2>1. \A j \in Told(frames, t) : j <= k + 1
    <3> SUFFICES ASSUME NEW j \in Told(frames, t) PROVE j <= k + 1
      OBVIOUS
    <3>1. k \in Nat /\ j \in Nat /\ (j = 1 \/ j - 1 <= k)  BY <1>2, <1>3, <1>5
    <3> QED BY <3>1
  <2>2. k + 1 \in Told(frames, t) /\ rest[k] = frames[k + 1]
    BY <1>1, <1>2 DEF Told
  <2> QED BY <2>1, <2>2 DEF Arrives
<1> QED BY <1>4, <1>5 DEF Arrives, rest

\* The peer's answers say nothing of any target.
LEMMA AnswersAreSilent ==
    ASSUME TypeOK, SubTargetsCatchUp, NEW fs \in Seq(Frames), PeerSends(fs),
           \A k \in DOMAIN fs : fs[k].kind \notin {"created", "destroyed"},
           UNCHANGED <<subTargets, live, task>>
    PROVE  SubTargetsCatchUp'
<1>1. inbound' = inbound \o fs /\ inbound \in Seq(Frames)
  BY DEF PeerSends, TypeOK
<1>2. \A t : Told(fs, t) = {}
  BY DEF Told
<1>3. ASSUME Running', NEW t \in SubTargets
      PROVE  Arrives(t \in subTargets', inbound', t, t \in live')
  <2>1. Arrives(t \in subTargets, inbound, t, t \in live)
    BY <1>3 DEF SubTargetsCatchUp, Running
  <2> QED BY <1>1, <1>2, <2>1, SilentFrames
<1> QED BY <1>3 DEF SubTargetsCatchUp

\* The peer announces what it does to its targets, as it does it.
LEMMA PeerKeepsCatchUp ==
    ASSUME TypeOK, SubTargetsCatchUp, PeerStep
    PROVE  SubTargetsCatchUp'
<1> USE DEF callVars, sharedVars, taskVars
<1>1. ASSUME NEW o \in owed, PeerAnswers(o)
      PROVE  SubTargetsCatchUp'
  <2>1. o \in Obligations
    BY DEF TypeOK
  <2>2. PICK out \in PeerOutcomes(o), n \in 1..MaxCopies :
             PeerSends([k \in 1..n |-> Reply(o.id, out, o.target)])
    BY <1>1 DEF PeerAnswers
  <2>3. Reply(o.id, out, o.target) \in Frames
    BY <2>1, FrameTypes DEF Obligations, PeerOutcomes, WireOutcomes
  <2>4. [k \in 1..n |-> Reply(o.id, out, o.target)] \in Seq(Frames)
    BY <2>3, SeqDef
  <2> QED BY <1>1, <2>2, <2>4, AnswersAreSilent DEF PeerAnswers, Reply
<1>2. ASSUME NEW o \in owed, PeerAcks(o) \/ PeerRefuses(o)
      PROVE  SubTargetsCatchUp'
  <2>1. o \in Obligations
    BY DEF TypeOK
  <2>2. PICK out \in WireOutcomes : PeerSends(<<Reply(o.id, out, NoTarget)>>)
    BY <1>2 DEF PeerAcks, PeerRefuses, WireOutcomes
  <2>3. <<Reply(o.id, out, NoTarget)>> \in Seq(Frames)
    BY <2>1, FrameTypes DEF Obligations, Routes
  <2>4. \A k \in DOMAIN <<Reply(o.id, out, NoTarget)>> :
             <<Reply(o.id, out, NoTarget)>>[k].kind = "reply"
    BY DEF Reply
  <2>5. UNCHANGED <<subTargets, live, task>>
    BY <1>2 DEF PeerAcks, PeerRefuses
  <2> QED BY <2>2, <2>3, <2>4, <2>5, AnswersAreSilent
<1>3. ASSUME NEW u \in SubTargets, PeerCreates(u) \/ PeerDestroys(u)
      PROVE  SubTargetsCatchUp'
  <2>1. PICK k \in {"created", "destroyed"} :
             /\ PeerSends(<<Lifecycle(k, u)>>)
             /\ live' = IF k = "created" THEN live \cup {u} ELSE live \ {u}
    BY <1>3 DEF PeerCreates, PeerDestroys
  <2>2. /\ Lifecycle(k, u) \in Frames /\ Lifecycle(k, u).kind = k /\ Lifecycle(k, u).target = u
        /\ inbound \in Seq(Frames) /\ inbound' = inbound \o <<Lifecycle(k, u)>>
        /\ UNCHANGED <<subTargets, task>>
    BY <1>3, <2>1, FrameTypes DEF Lifecycle, PeerSends, TypeOK, PeerCreates, PeerDestroys
  <2>3. ASSUME Running', NEW t \in SubTargets
        PROVE  Arrives(t \in subTargets', inbound', t, t \in live')
    <3>1. CASE t = u
      <4>1. (t \in live') = (k = "created")  BY <2>1, <3>1
      <4> QED BY <2>2, <3>1, <4>1, LastFrame
    <3>2. CASE t # u
      <4>1. Told(<<Lifecycle(k, u)>>, t) = {}  BY <2>2, <3>2 DEF Told
      <4>2. Arrives(t \in subTargets, inbound, t, t \in live)
        BY <2>2, <2>3 DEF SubTargetsCatchUp, Running
      <4>3. Arrives(t \in subTargets, inbound', t, t \in live)
        <5>1. <<Lifecycle(k, u)>> \in Seq(Frames)  BY <2>2
        <5> QED BY <2>2, <4>1, <4>2, <5>1, SilentFrames
      <4>4. (t \in live') = (t \in live)  BY <2>1, <3>2
      <4> QED BY <2>2, <4>3, <4>4
    <3> QED BY <3>1, <3>2
  <2> QED BY <2>3 DEF SubTargetsCatchUp
<1>4. CASE PeerGarbles
  <2>1. Junk \in Frames /\ Junk.kind = "junk"  BY FrameTypes DEF Junk, Lifecycle
  <2>2. <<Junk>> \in Seq(Frames) /\ \A k \in DOMAIN <<Junk>> : <<Junk>>[k].kind = "junk"
    BY <2>1
  <2>3. PeerSends(<<Junk>>) /\ UNCHANGED <<subTargets, live, task>>
    BY <1>4 DEF PeerGarbles
  <2> QED BY <2>2, <2>3, AnswersAreSilent
<1>5. CASE PeerCloses
  BY <1>5 DEF PeerCloses, SubTargetsCatchUp, Running
<1> QED BY <1>1, <1>2, <1>3, <1>4, <1>5 DEF PeerStep

\* The task applies the next frame.
LEMMA ReceivingKeepsCatchUp ==
    ASSUME TypeOK, SubTargetsCatchUp, TaskReceives
    PROVE  SubTargetsCatchUp'
<1>1. /\ inbound \in Seq(Frames) /\ inbound # <<>> /\ inbound' = Tail(inbound)
      /\ Head(inbound) = inbound[1] /\ Head(inbound) \in Frames /\ 1 \in DOMAIN inbound
      /\ NoteTargetLifecycle(Head(inbound)) /\ UNCHANGED <<task, live>>
  BY ChannelTypes DEF TaskReceives, TypeOK
<1>2. ASSUME Running', NEW t \in SubTargets
      PROVE  Arrives(t \in subTargets', inbound', t, t \in live')
  <2>1. Arrives(t \in subTargets, inbound, t, t \in live)
    BY <1>1, <1>2 DEF SubTargetsCatchUp, Running
  <2>2. (t \in subTargets') =
           IF 1 \in Told(inbound, t) THEN inbound[1].kind = "created" ELSE t \in subTargets
    BY <1>1 DEF NoteTargetLifecycle, Told
  <2> DEFINE next == IF 1 \in Told(inbound, t) THEN inbound[1].kind = "created" ELSE t \in subTargets
  <2>3. Arrives(next, Tail(inbound), t, t \in live)
    <3>1. (t \in subTargets) \in BOOLEAN  OBVIOUS
    <3> QED BY <1>1, <2>1, <3>1, FirstFrame
  <2> HIDE DEF next
  <2>4. (t \in subTargets') = next  BY <2>2 DEF next
  <2> QED BY <1>1, <2>3, <2>4
<1> QED BY <1>2 DEF SubTargetsCatchUp

\* A session that has left its loop owes its list nothing, and never returns to it.
LEMMA StepKeepsCatchUp == TypeOK /\ SubTargetsCatchUp /\ [Next]_vars => SubTargetsCatchUp'
<1> SUFFICES ASSUME TypeOK, SubTargetsCatchUp, [Next]_vars PROVE SubTargetsCatchUp'
  OBVIOUS
<1> USE DEF callVars, sharedVars, taskVars, peerVars
<1>1. CASE PeerStep  BY <1>1, PeerKeepsCatchUp
<1>2. CASE TaskReceives  BY <1>2, ReceivingKeepsCatchUp
<1>3. ASSUME UNCHANGED <<inbound, subTargets, live>>, Running' => Running
      PROVE  SubTargetsCatchUp'
  BY <1>3 DEF SubTargetsCatchUp
<1>4. ASSUME NEW c \in Calls, CallerStep(c) PROVE SubTargetsCatchUp'
  <2>1. UNCHANGED <<inbound, subTargets, live, task>>
    BY <1>4 DEF CallerStep, CallStart, CallSend, CallDrop
  <2> QED BY <1>3, <2>1 DEF Running
<1>5. ASSUME NEW c \in Calls, TaskHandles(c) PROVE SubTargetsCatchUp'
  <2>1. UNCHANGED <<inbound, subTargets, live>> /\ Running
    BY <1>5 DEF TaskHandles, TaskEncodeFails, TaskSends, TaskSendFails, TaskTakes
  <2> QED BY <1>3, <2>1
<1>6. CASE TaskSeesClose
  <2>1. UNCHANGED <<inbound, subTargets, live>> /\ Running
    BY <1>6 DEF TaskSeesClose, PollsRecv, Running
  <2> QED BY <1>3, <2>1
<1>7. CASE TaskRecvFails \/ TaskReturns
  BY <1>7 DEF TaskRecvFails, TaskReturns, Teardown, SubTargetsCatchUp, Running
<1>8. CASE Quiet \/ UNCHANGED vars
  <2>1. UNCHANGED <<inbound, subTargets, live, task>>
    BY <1>8 DEF Quiet, vars
  <2> QED BY <1>3, <2>1 DEF Running
<1> QED BY <1>1, <1>2, <1>4, <1>5, <1>6, <1>7, <1>8 DEF Next, TaskStep

\* While the session runs its list of sub-targets is only late: with the
\* lifecycle frames that are still on the way applied it is the debuggee's,
\* for any number of targets and frames.  [note_target_lifecycle]
THEOREM SubTargetsAlwaysCatchUp == Spec => []SubTargetsCatchUp
<1>1. Init => SubTargetsCatchUp
  BY EmptySeq DEF Init, SubTargetsCatchUp, Arrives, Told
<1> QED BY <1>1, TypeCorrect, StepKeepsCatchUp, PTL DEF Spec

-----------------------------------------------------------------------------
(* The session implements CallService, for every set of callers, members    *)
(* and targets and every bound; and what a call has taught the session.     *)

\* is_connected() is true exactly while the task is in its loop.
UpSound == connected <=> Running

\* An id that was answered had been handed to a call.
AnsweredSound == \A i \in answered : \E c \in Calls : req[c].id = i

\* A call refused before it was sent took no id.
RefusedUnasked ==
    \A c \in Calls : (pc[c] = "done" /\ result[c].outcome = "unsupported") => req[c].id = NoId

PromiseInv == UpSound /\ AnsweredSound /\ RefusedUnasked

Known == CorrelationInv /\ ReplyInv /\ PromiseInv

-----------------------------------------------------------------------------
(* How calls end *)

\* The calls in S, which awaited, end with an outcome in O; no other moves.
Ends(S, O) ==
    /\ S \subseteq Calls
    /\ \A c \in S : /\ pc[c] = "awaiting" /\ pc'[c] = "done"
                   /\ result'[c] \in Results /\ result'[c].outcome \in O
    /\ \A c \in Calls : c \notin S => pc'[c] = pc[c] /\ result'[c] = result[c]

LEMMA ResolveEnds ==
  ASSUME NEW S, NEW r \in Results, Resolve(S, r)
  PROVE  Ends({c \in Calls : c \in S /\ pc[c] = "awaiting"}, {r.outcome})
  BY DEF Resolve, Ends

\* A single call ends, or has given up and nobody notices.
LEMMA ResolveOne ==
  ASSUME TypeOK, NEW c \in Calls, NEW r \in Results, Resolve({c}, r)
  PROVE  UNCHANGED <<pc, result>> \/ Ends({c}, {r.outcome})
<1>1. \A d \in Calls :
        /\ pc'[d] = IF d = c /\ pc[d] = "awaiting" THEN "done" ELSE pc[d]
        /\ result'[d] = IF d = c /\ pc[d] = "awaiting" THEN r ELSE result[d]
  BY DEF Resolve
<1>2. CASE pc[c] = "awaiting"
  BY <1>1, <1>2 DEF Ends
<1>3. CASE pc[c] # "awaiting"
  BY <1>1, <1>3 DEF Resolve, TypeOK
<1>4. QED
  BY <1>2, <1>3

\* Teardown ends those it frees with failures of the session's own.
LEMMA TeardownEnds ==
  ASSUME NEW failed, Teardown(failed)
  PROVE  \E S : Ends(S, {"transport", "abandoned"})
<1> DEFINE freed == {c \in Waiting \cup failed : pc[c] = "awaiting"}
           S == {c \in Calls : c \in freed}
<1>1. \A c \in Calls : pc'[c] = IF c \in freed THEN "done" ELSE pc[c]
  BY DEF Teardown
<1>2. \A c \in Calls : result'[c] = IF c \in freed
                                    THEN Local(IF c \in failed THEN "transport" ELSE "abandoned")
                                    ELSE result[c]
  BY DEF Teardown
<1>3. /\ Local("transport").outcome = "transport" /\ Local("abandoned").outcome = "abandoned"
      /\ Local("transport") \in Results /\ Local("abandoned") \in Results
  BY FrameTypes DEF Local, LocalOutcomes
<1>4. Ends(S, {"transport", "abandoned"})
  BY <1>1, <1>2, <1>3 DEF Ends
<1>5. QED
  BY <1>4

\* What CallService sees of calls that end with failures, or with replies.
LEMMA EndsFailed ==
  ASSUME NEW S, Ends(S, {"transport", "abandoned", "dialect", "closed"})
  PROVE  /\ \A c \in S : c \in Calls /\ statusBar[c] = "open"
         /\ Service!Become(S, "failed")
  BY DEF Ends, statusBar, Service!Become, WireOutcomes

LEMMA EndsReplied ==
  ASSUME NEW S, Ends(S, WireOutcomes)
  PROVE  /\ \A c \in S : c \in Calls /\ statusBar[c] = "open"
         /\ Service!Become(S, "replied")
  BY DEF Ends, statusBar, Service!Become

LEMMA NobodyEnds ==
  ASSUME UNCHANGED <<pc, result>>
  PROVE  statusBar' = statusBar
  BY DEF statusBar

LEMMA NobodyAnswered ==
  ASSUME UNCHANGED <<req, answered>>
  PROVE  answeredBar' = answeredBar
  BY DEF answeredBar

-----------------------------------------------------------------------------
(* The invariant *)

\* Every step of the session's task ends some calls: none, one, or all that
\* its loop's end frees.
LEMMA TaskEnds ==
  ASSUME Known, TaskStep
  PROVE  /\ UNCHANGED <<req, answered>>
         /\ connected \in BOOLEAN /\ connected' \in BOOLEAN
         /\ \/ Running' /\ Running /\ connected' = connected
            \/ ~Running' /\ ~connected'
         /\ \/ UNCHANGED <<pc, result>>
            \/ \E c \in Calls : Ends({c}, {"dialect"}) /\ connected' = connected
            \/ \E S : Ends(S, {"transport", "abandoned"}) /\ connected /\ ~connected'
            \/ \E S : Ends(S, {"closed"}) /\ ~connected /\ ~connected'
            \/ \E c \in Calls : Ends({c}, WireOutcomes) /\ connected /\ connected'
<1> USE DEF Known, PromiseInv, UpSound, sharedVars, callVars, peerVars, taskVars
<1>1. ASSUME NEW c \in Calls, TaskEncodeFails(c)
      PROVE  /\ UNCHANGED <<req, answered, connected>> /\ Running /\ Running'
             /\ UNCHANGED <<pc, result>> \/ Ends({c}, {"dialect"})
  <2>1. Local("dialect").outcome = "dialect" /\ Local("dialect") \in Results
    BY FrameTypes DEF Local, LocalOutcomes
  <2>2. QED
    BY <1>1, <2>1, ResolveOne DEF TaskEncodeFails, TaskTakes, Running, CorrelationInv
<1>2. ASSUME NEW c \in Calls, TaskSends(c)
      PROVE  UNCHANGED <<req, answered, connected, pc, result>> /\ Running /\ Running'
  BY <1>2 DEF TaskSends, TaskTakes, Running
<1>3. ASSUME NEW c \in Calls, TaskSendFails(c)
      PROVE  /\ UNCHANGED <<req, answered>> /\ Running /\ ~Running' /\ connected' = FALSE
             /\ \E S : Ends(S, {"transport", "abandoned"})
  BY <1>3, TeardownEnds DEF TaskSendFails, TaskTakes, Teardown, Running
<1>4. ASSUME TaskRecvFails
      PROVE  /\ UNCHANGED <<req, answered>> /\ Running /\ ~Running' /\ connected' = FALSE
             /\ \E S : Ends(S, {"transport", "abandoned"})
  BY <1>4, TeardownEnds DEF TaskRecvFails, PollsRecv, Teardown, Running
<1>5. ASSUME TaskSeesClose
      PROVE  UNCHANGED <<req, answered, connected, pc, result>> /\ Running /\ Running'
  BY <1>5 DEF TaskSeesClose, PollsRecv, Running
<1>6. ASSUME TaskReturns
      PROVE  /\ UNCHANGED <<req, answered, connected>> /\ ~Running /\ ~Running'
             /\ \E S : Ends(S, {"closed"})
  <2>1. Local("closed").outcome = "closed" /\ Local("closed") \in Results
    BY FrameTypes DEF Local, LocalOutcomes
  <2>2. QED
    BY <1>6, <2>1, ResolveEnds DEF TaskReturns, Running
<1>7. ASSUME TaskReceives
      PROVE  /\ UNCHANGED <<req, answered, connected>> /\ Running /\ Running'
             /\ \/ UNCHANGED <<pc, result>>
                \/ \E c \in Calls : Ends({c}, WireOutcomes)
  <2> DEFINE f == Head(inbound)
             c == pending[f.id]
             r == [outcome |-> f.outcome, id |-> f.id, target |-> f.target]
  <2>1. /\ UNCHANGED <<req, answered, connected>> /\ Running /\ Running'
        /\ inbound # <<>>
        /\ \/ UNCHANGED <<pc, result>>
           \/ f.kind = "reply" /\ c # NoCall /\ Resolve({c}, r)
    BY <1>7 DEF TaskReceives, PollsRecv, CompletePending, Running
  <2>2. CASE f.kind = "reply" /\ c # NoCall /\ Resolve({c}, r)
    <3>1. f \in Frames
      BY <2>1, ChannelTypes DEF CorrelationInv
    <3>2. f.id \in Ids /\ f.outcome \in WireOutcomes
      BY <2>2, <3>1 DEF Frames, Junk, Lifecycle
    <3>3. c \in Calls
      BY <2>2, <3>2 DEF CorrelationInv, TypeOK
    <3>4. r \in Results
      BY <2>2, <3>1, <3>2 DEF Frames, Results, Junk, Lifecycle
    <3>6. UNCHANGED <<pc, result>> \/ Ends({c}, {r.outcome})
      BY <2>2, <3>3, <3>4, ResolveOne DEF CorrelationInv
    <3>5. QED
      BY <2>1, <3>2, <3>3, <3>6 DEF Ends
  <2>3. QED
    BY <2>1, <2>2
<1>8. connected \in BOOLEAN /\ (Running => connected) /\ (~Running => ~connected)
  BY DEF CorrelationInv, TypeOK
<1>9. CASE \E c \in Calls : TaskHandles(c)
  BY <1>1, <1>2, <1>3, <1>8, <1>9 DEF TaskHandles
<1>10. CASE TaskReceives
  BY <1>7, <1>8, <1>10
<1>11. CASE TaskSeesClose
  BY <1>5, <1>8, <1>11
<1>12. CASE TaskRecvFails
  BY <1>4, <1>8, <1>12
<1>13. CASE TaskReturns
  BY <1>6, <1>8, <1>13
<1>14. QED
  BY <1>9, <1>10, <1>11, <1>12, <1>13 DEF TaskStep

\* A caller's own steps: it takes a fresh id or is refused, hands its command
\* over or fails, or gives up.
LEMMA CallerMoves ==
  ASSUME Known, NEW c \in Calls, CallerStep(c)
  PROVE  /\ UNCHANGED <<answered, connected, task>>
         /\ \A d \in Calls : d # c =>
               pc'[d] = pc[d] /\ req'[d] = req[d] /\ result'[d] = result[d]
         /\ \/ /\ pc[c] = "idle" /\ pc'[c] = "done" /\ req' = req
               /\ result'[c].outcome = "unsupported" /\ req[c].id = NoId
            \/ /\ pc[c] = "idle" /\ pc'[c] = "issued" /\ req'[c].id = nextId /\ req[c].id = NoId
            \/ /\ pc[c] = "issued" /\ pc'[c] = "awaiting" /\ req' = req
            \/ /\ pc[c] = "issued" /\ pc'[c] = "done" /\ req' = req
               /\ result'[c].outcome = "closed"
            \/ /\ pc[c] = "awaiting" /\ pc'[c] = "dropped" /\ req' = req
<1> USE DEF Known, CorrelationInv, TypeOK, sharedVars, taskVars, peerVars, Local
<1>1. ASSUME NEW t \in Routes, CallStart(c, t)
      PROVE  /\ UNCHANGED <<answered, connected, task>>
             /\ \A d \in Calls : d # c =>
                   pc'[d] = pc[d] /\ req'[d] = req[d] /\ result'[d] = result[d]
             /\ pc[c] = "idle" /\ req[c].id = NoId
             /\ \/ pc'[c] = "done" /\ req' = req /\ result'[c].outcome = "unsupported"
                \/ pc'[c] = "issued" /\ req'[c].id = nextId
  <2> DEFINE fresh == [id |-> nextId, member |-> req[c].member, target |-> t]
  <2>1. /\ pc[c] = "idle" /\ UNCHANGED <<answered, connected, task>>
        /\ \/ /\ req' = req /\ pc' = [pc EXCEPT ![c] = "done"]
              /\ result' = [result EXCEPT ![c] = Local("unsupported")]
           \/ /\ req' = [req EXCEPT ![c] = fresh] /\ pc' = [pc EXCEPT ![c] = "issued"]
              /\ result' = result
    BY <1>1 DEF CallStart
  <2>2. QED
    BY <2>1 DEF IdsUnique
<1>2. CASE CallSend(c)
  BY <1>2 DEF CallSend
<1>3. CASE CallDrop(c)
  BY <1>3 DEF CallDrop, callVars
<1>4. QED
  BY <1>1, <1>2, <1>3 DEF CallerStep

LEMMA PeerMoves ==
  ASSUME Known, PeerStep
  PROVE  /\ UNCHANGED <<pc, req, result, connected, task>>
         /\ \/ answered' = answered
            \/ \E o \in owed : answered' = answered \cup {o.id}
  BY DEF PeerStep, PeerAnswers, PeerAcks, PeerRefuses, PeerCreates, PeerDestroys,
         PeerGarbles, PeerCloses, callVars, sharedVars, taskVars

LEMMA PromiseStep ==
  ASSUME Known, [Next]_vars
  PROVE  PromiseInv'
<1> USE DEF Known, PromiseInv, UpSound, AnsweredSound, RefusedUnasked
<1>1. ASSUME NEW c \in Calls, CallerStep(c)
      PROVE  PromiseInv'
  <2>1. UpSound'
    BY <1>1, CallerMoves DEF Running
  <2>2. AnsweredSound'
    <3>1. NoId \notin answered
      BY DEF CorrelationInv, TypeOK, Ids, NoId
    <3>2. QED
      BY <1>1, <3>1, CallerMoves
  <2>3. RefusedUnasked'
    BY <1>1, CallerMoves
  <2>4. QED
    BY <2>1, <2>2, <2>3
<1>2. CASE TaskStep
  <2>1. UpSound' /\ AnsweredSound'
    BY <1>2, TaskEnds
  <2>2. RefusedUnasked'
    <3>1. \/ UNCHANGED <<pc, result>>
          \/ \E S : Ends(S, {"dialect", "transport", "abandoned", "closed"} \cup WireOutcomes)
      BY ZenonT(40), <1>2, TaskEnds DEF Ends
    <3>2. QED
      BY <1>2, <3>1, TaskEnds DEF Ends, WireOutcomes
  <2>3. QED
    BY <2>1, <2>2
<1>3. CASE PeerStep
  <2>1. UpSound' /\ RefusedUnasked'
    BY <1>3, PeerMoves DEF Running
  <2>2. AnsweredSound'
    BY <1>3, PeerMoves DEF ReplyInv, OwedSound
  <2>3. QED
    BY <2>1, <2>2
<1>4. CASE Quiet \/ UNCHANGED vars
  BY <1>4 DEF Quiet, vars, callVars, sharedVars, taskVars, peerVars, Running
<1>5. QED
  BY <1>1, <1>2, <1>3, <1>4 DEF Next

LEMMA Promise == Spec => []Known
<1>1. Init => PromiseInv
  BY DEF Init, PromiseInv, UpSound, AnsweredSound, RefusedUnasked, Running
<1>2. Known /\ [Next]_vars => PromiseInv'
  BY PromiseStep
<1>3. QED
  BY <1>1, <1>2, Correlation, Replies, PTL DEF Spec, Known

-----------------------------------------------------------------------------
(* The refinement *)

LEMMA InitRefines ==
  ASSUME Init
  PROVE  Service!Init
  BY DEF Init, Service!Init, statusBar, answeredBar

LEMMA CallerRefines ==
  ASSUME Known, NEW c \in Calls, CallerStep(c)
  PROVE  [Service!Next]_(Service!vars)
<1> USE DEF Known
<1>1. /\ connected' = connected
      /\ \A d \in Calls : d # c => statusBar'[d] = statusBar[d]
  BY ZenonT(40), CallerMoves DEF statusBar
<1>2. answeredBar' = answeredBar
  <2>1. NoId \notin answered
    BY DEF CorrelationInv, TypeOK, Ids, NoId
  <2>2. nextId \notin answered
    BY DEF PromiseInv, AnsweredSound, CorrelationInv, IdsUnique, TypeOK, Requests, Ids, NoId
  <2>3. QED
    BY <2>1, <2>2, CallerMoves DEF answeredBar
<1>3. ASSUME NEW s, statusBar'[c] = s
      PROVE  Service!Become({c}, s)
  BY <1>1, <1>3 DEF Service!Become, statusBar
<1>4. CASE statusBar'[c] = statusBar[c]
  <2>1. statusBar' = statusBar
    BY <1>1, <1>4 DEF statusBar
  <2>2. QED
    BY <1>1, <1>2, <2>1 DEF Service!vars
<1>5. CASE statusBar[c] = "new" /\ statusBar'[c] = "refused"
  BY <1>1, <1>2, <1>3, <1>5 DEF Service!Next, Service!Refuse
<1>6. CASE statusBar[c] = "new" /\ statusBar'[c] = "open"
  BY <1>1, <1>2, <1>3, <1>6 DEF Service!Next, Service!Accept
<1>7. CASE statusBar[c] = "open" /\ statusBar'[c] = "failed"
  BY <1>1, <1>2, <1>3, <1>7 DEF Service!Next, Service!Fail
<1>8. CASE statusBar[c] = "open" /\ statusBar'[c] = "given up"
  BY <1>1, <1>2, <1>3, <1>8 DEF Service!Next, Service!GiveUp
<1>9. QED
  BY <1>4, <1>5, <1>6, <1>7, <1>8, CallerMoves DEF statusBar, WireOutcomes

LEMMA TaskRefines ==
  ASSUME Known, Known', TaskStep
  PROVE  [Service!Next]_(Service!vars)
<1>1. answeredBar' = answeredBar
  BY TaskEnds, NobodyAnswered
<1>2. CASE UNCHANGED <<pc, result>>
  <2>1. statusBar' = statusBar
    BY <1>2, NobodyEnds
  <2>2. CASE connected' = connected
    BY <1>1, <2>1, <2>2 DEF Service!vars
  <2>3. CASE connected /\ ~connected'
    <3>1. Service!GoDown({})
      BY <1>1, <2>1, <2>3, TaskEnds DEF Service!GoDown, Service!Become, statusBar
    <3>2. QED
      BY <3>1 DEF Service!Next
  <2>4. QED
    BY <2>2, <2>3, TaskEnds
<1>3. ASSUME NEW c \in Calls, Ends({c}, {"dialect"}), connected' = connected
      PROVE  [Service!Next]_(Service!vars)
  <2>1. Ends({c}, {"transport", "abandoned", "dialect", "closed"})
    BY <1>3 DEF Ends
  <2>2. Service!Fail(c)
    BY <1>1, <1>3, <2>1, EndsFailed DEF Service!Fail
  <2>3. QED
    BY <2>2 DEF Service!Next
<1>4. ASSUME NEW S, Ends(S, {"transport", "abandoned"}), connected, ~connected'
      PROVE  [Service!Next]_(Service!vars)
  <2>1. Ends(S, {"transport", "abandoned", "dialect", "closed"})
    BY <1>4 DEF Ends
  <2>2. Service!GoDown(S)
    BY <1>1, <1>4, <2>1, EndsFailed, TaskEnds DEF Service!GoDown
  <2>3. S \in SUBSET Calls
    BY <1>4 DEF Ends
  <2>4. QED
    BY <2>2, <2>3 DEF Service!Next
<1>5. ASSUME NEW S, Ends(S, {"closed"}), ~connected, ~connected'
      PROVE  [Service!Next]_(Service!vars)
  <2>1. Ends(S, {"transport", "abandoned", "dialect", "closed"})
    BY <1>5 DEF Ends
  <2>2. Service!FailLate(S)
    BY <1>1, <1>5, <2>1, EndsFailed, TaskEnds DEF Service!FailLate
  <2>3. S \in SUBSET Calls
    BY <1>5 DEF Ends
  <2>4. QED
    BY <2>2, <2>3 DEF Service!Next
<1>6. ASSUME NEW c \in Calls, Ends({c}, WireOutcomes), connected, connected'
      PROVE  [Service!Next]_(Service!vars)
  <2>1. c \in answeredBar
    <3>1. result'[c] # NoResult /\ result'[c].outcome \in WireOutcomes
      BY <1>6, NoResultIsNone DEF Ends
    <3>2. req'[c].id \in answered'
      BY <3>1 DEF Known, ReplyInv, ReplyCorrelated
    <3>3. QED
      BY <3>2, TaskEnds DEF answeredBar
  <2>2. Service!Deliver(c)
    BY <1>1, <1>6, <2>1, EndsReplied, TaskEnds DEF Service!Deliver
  <2>3. QED
    BY <2>2 DEF Service!Next
<1>7. QED
  BY <1>2, <1>3, <1>4, <1>5, <1>6, TaskEnds

LEMMA PeerRefines ==
  ASSUME Known, PeerStep
  PROVE  [Service!Next]_(Service!vars)
<1>1. statusBar' = statusBar /\ connected' = connected
  BY PeerMoves, NobodyEnds
<1>2. CASE answered' = answered
  BY <1>1, <1>2, PeerMoves, NobodyAnswered DEF Service!vars
<1>3. ASSUME NEW o \in owed, answered' = answered \cup {o.id}
      PROVE  [Service!Next]_(Service!vars)
  <2>1. PICK c \in Calls : req[c].id = o.id
    BY DEF Known, ReplyInv, OwedSound
  <2>2. o.id \in Ids
    BY DEF Known, CorrelationInv, TypeOK, Obligations
  <2>3. o.id # NoId
    BY <2>2 DEF Ids, NoId
  <2>4. \A d \in Calls : req[d].id = o.id => d = c
    BY <2>1, <2>3 DEF Known, CorrelationInv, IdsUnique
  <2>5. answeredBar' = answeredBar \cup {c}
    BY <1>3, <2>1, <2>4, PeerMoves DEF answeredBar
  <2>6. pc[c] # "idle" /\ ~(pc[c] = "done" /\ result[c].outcome = "unsupported")
    BY <2>1, <2>3 DEF Known, CorrelationInv, IdsUnique, PromiseInv, RefusedUnasked
  <2>7. statusBar[c] \notin {"new", "refused"}
    BY <2>6 DEF statusBar, WireOutcomes, Known, CorrelationInv, TypeOK, PCs
  <2>8. Service!Answer(c)
    BY <1>1, <2>5, <2>7 DEF Service!Answer
  <2>9. QED
    BY <2>8 DEF Service!Next
<1>4. QED
  BY <1>2, <1>3, PeerMoves

\* Whatever callers, session task and debuggee do is a step of the promise
\* CallService makes, or invisible to it: each accepted call has one outcome
\* at most, a reply only when the debuggee answered that call and the session
\* is up, and the session goes down once.  [SessionHandle::call, session_task]
THEOREM SessionImplementsCallService == Spec => ImplementsCallService
<1>1. Init => Service!Init
  BY InitRefines
<1>2. Known /\ Known' /\ [Next]_vars => [Service!Next]_(Service!vars)
  <2> SUFFICES ASSUME Known, Known', [Next]_vars PROVE [Service!Next]_(Service!vars)
    OBVIOUS
  <2>1. CASE Quiet \/ UNCHANGED vars
    BY <2>1, NobodyEnds, NobodyAnswered
       DEF Quiet, vars, callVars, sharedVars, peerVars, Service!vars
  <2>2. QED
    BY <2>1, CallerRefines, TaskRefines, PeerRefines DEF Next
<1>3. QED
  BY <1>1, <1>2, Promise, PTL DEF Spec, ImplementsCallService, Service!Spec

-----------------------------------------------------------------------------
(* What a call has taught the session *)

\* A caller that was told MethodNotFound left the lesson behind.
LessonKept ==
    \A d \in Calls :
        (result[d] # NoResult /\ result[d].outcome = "notfound") => req[d].member \in unavailable

LEMMA MembersStay ==
  ASSUME Known, [Next]_vars
  PROVE  \A d \in Calls : req'[d].member = req[d].member
<1> USE DEF Known, CorrelationInv, TypeOK
<1>1. ASSUME NEW c \in Calls, NEW t \in Routes, CallStart(c, t)
      PROVE  \A d \in Calls : req'[d].member = req[d].member
  BY <1>1 DEF CallStart
<1>2. ASSUME NEW c \in Calls, CallSend(c) \/ CallDrop(c)
      PROVE  req' = req
  BY <1>2 DEF CallSend, CallDrop
<1>3. CASE TaskStep
  BY <1>3, TaskEnds
<1>4. CASE PeerStep
  BY <1>4, PeerMoves
<1>5. CASE Quiet \/ UNCHANGED vars
  BY <1>5 DEF Quiet, vars, callVars
<1>6. QED
  BY <1>1, <1>2, <1>3, <1>4, <1>5 DEF Next, CallerStep

\* Nothing is unlearned; what the task learns, it learns from the frame it
\* completes a call with.
LEMMA Learning ==
  ASSUME Known, [Next]_vars
  PROVE  \/ unavailable' = unavailable
         \/ LET f == Head(inbound)
                c == pending[f.id]
            IN  /\ TaskReceives /\ f.kind = "reply" /\ c # NoCall
                /\ unavailable' = unavailable \cup Learned(c, f)
                /\ Resolve({c}, [outcome |-> f.outcome, id |-> f.id, target |-> f.target])
<1>1. ASSUME NEW c \in Calls, CallerStep(c)
      PROVE  unavailable' = unavailable
  BY <1>1 DEF CallerStep, CallStart, CallSend, CallDrop, sharedVars
<1>2. CASE TaskStep
  <2>1. CASE TaskReceives
    BY <2>1 DEF TaskReceives, CompletePending
  <2>2. ASSUME ~TaskReceives
        PROVE  unavailable' = unavailable
    BY <1>2, <2>2 DEF TaskStep, TaskHandles, TaskEncodeFails, TaskSends, TaskSendFails,
       TaskSeesClose, TaskRecvFails, TaskReturns, sharedVars
  <2>3. QED
    BY <2>1, <2>2
<1>3. CASE PeerStep
  BY <1>3 DEF PeerStep, PeerAnswers, PeerAcks, PeerRefuses, PeerCreates, PeerDestroys,
              PeerGarbles, PeerCloses, sharedVars
<1>4. CASE Quiet \/ UNCHANGED vars
  BY <1>4 DEF Quiet, vars, sharedVars
<1>5. QED
  BY <1>1, <1>2, <1>3, <1>4 DEF Next

\* Only what was read makes a result the debuggee's.
LEMMA NotAReply ==
  ASSUME TaskStep, ~TaskReceives, NEW d \in Calls, result'[d] # result[d]
  PROVE  result'[d].outcome # "notfound"
<1>1. ASSUME NEW S, NEW o \in {"dialect", "closed"}, Resolve(S, Local(o))
      PROVE  result'[d].outcome # "notfound"
  BY <1>1 DEF Resolve, Local
<1>2. ASSUME NEW failed, Teardown(failed)
      PROVE  result'[d].outcome # "notfound"
  BY <1>2, TeardownEnds DEF Ends
<1>3. QED
  BY <1>1, <1>2 DEF TaskStep, TaskHandles, TaskEncodeFails, TaskSends, TaskSendFails,
     TaskSeesClose, TaskRecvFails, TaskReturns, callVars

LEMMA LessonStep ==
  ASSUME Known, LessonKept, [Next]_vars
  PROVE  LessonKept'
<1> USE DEF LessonKept
<1>1. /\ \A d \in Calls : req'[d].member = req[d].member
      /\ unavailable \subseteq unavailable'
  BY MembersStay, Learning
<1>2. ASSUME NEW d \in Calls, result'[d] = result[d], result'[d] # NoResult,
             result'[d].outcome = "notfound"
      PROVE  req'[d].member \in unavailable'
  BY <1>1, <1>2
<1>3. ASSUME NEW d \in Calls, result'[d] # result[d], result'[d].outcome = "notfound"
      PROVE  req'[d].member \in unavailable'
  <2>1. TaskReceives
    <3>1. CASE \E c \in Calls : CallerStep(c)
      BY <1>3, <3>1 DEF CallerStep, CallStart, CallSend, CallDrop, callVars, Local,
         Known, CorrelationInv, TypeOK
    <3>2. CASE TaskStep /\ ~TaskReceives
      BY <1>3, <3>2, NotAReply
    <3>3. CASE PeerStep
      BY <1>3, <3>3, PeerMoves
    <3>4. CASE Quiet \/ UNCHANGED vars
      BY <1>3, <3>4 DEF Quiet, vars, callVars
    <3>5. QED
      BY <3>1, <3>2, <3>3, <3>4 DEF Next
  <2> DEFINE f == Head(inbound)
             c == pending[f.id]
             r == [outcome |-> f.outcome, id |-> f.id, target |-> f.target]
  <2>2. /\ unavailable' = unavailable \cup Learned(c, f)
        /\ Resolve({c}, r)
    BY <1>3, <2>1 DEF TaskReceives, CompletePending
  <2>3. d = c /\ result'[d] = r
    BY <1>3, <2>2 DEF Resolve
  <2>4. f.outcome = "notfound"
    BY <1>3, <2>3
  <2>5. QED
    BY <1>1, <2>2, <2>3, <2>4 DEF Learned
<1>4. QED
  BY <1>2, <1>3

LEMMA Lessons == Spec => []LessonKept
<1>1. Init => LessonKept
  BY DEF Init, LessonKept
<1>2. Known /\ LessonKept /\ [Next]_vars => LessonKept'
  BY LessonStep
<1>3. QED
  BY <1>1, <1>2, Promise, PTL DEF Spec

\* Once any caller was told MethodNotFound for a member, every later call of
\* it is refused without asking.  [complete_pending, ensure_supported]
THEOREM LaterCallsAreRefused == Spec => SecondCallShortCircuits
<1> DEFINE Refused ==
        \A c, d \in Calls :
            /\ pc[c] = "idle" /\ pc'[c] # "idle"
            /\ result[d] # NoResult /\ result[d].outcome = "notfound"
            /\ req[d].member = req[c].member
            => result'[c] = Local("unsupported")
<1>1. Known /\ LessonKept /\ [Next]_vars => [Refused]_vars
  <2> SUFFICES ASSUME Known, LessonKept, [Next]_vars,
                      NEW c \in Calls, NEW d \in Calls,
                      pc[c] = "idle", pc'[c] # "idle",
                      result[d] # NoResult, result[d].outcome = "notfound",
                      req[d].member = req[c].member
               PROVE  result'[c] = Local("unsupported")
    OBVIOUS
  <2>1. req[c].member \in unavailable
    BY DEF LessonKept
  <2>2. \E t \in Routes : CallStart(c, t)
    <3>1. ASSUME NEW b \in Calls, CallerStep(b)
          PROVE  \E t \in Routes : CallStart(c, t)
      BY <3>1, CallerMoves DEF CallerStep, CallSend, CallDrop
    <3>2. ~TaskStep /\ ~PeerStep
      BY TaskEnds, PeerMoves DEF Ends
    <3>3. ~(Quiet \/ UNCHANGED vars)
      BY DEF Quiet, vars, callVars
    <3>4. QED
      BY <3>1, <3>2, <3>3 DEF Next
  <2>3. QED
    BY <2>1, <2>2 DEF CallStart, Known, CorrelationInv, TypeOK
<1>2. QED
  BY <1>1, Promise, Lessons, PTL DEF Spec, SecondCallShortCircuits

-----------------------------------------------------------------------------
(* What it may have been taught *)

\* What the debuggee owes, it owes to a call of that member on that route.
OwedKnown ==
    \A o \in owed : \E c \in Calls :
        req[c].id = o.id /\ req[c].target = o.target /\ req[c].member = o.member

\* A reply that says MethodNotFound says it of a member its target lacks.
Honest(f, reqs) ==
    (f.kind = "reply" /\ f.outcome = "notfound") =>
        \E c \in Calls :
            reqs[c].id = f.id /\ f.target \in Routes /\ reqs[c].member \in Absent[f.target]

InboundHonest == \A k \in DOMAIN inbound : Honest(inbound[k], req)

HonestInv == OwedKnown /\ InboundHonest /\ LearnsOnlyAbsence

\* What was said stays true: a frame's call keeps its id and its member.
LEMMA HonestStays ==
  ASSUME Known, [Next]_vars, NEW f \in Frames, Honest(f, req)
  PROVE  Honest(f, req')
<1>1. \A c \in Calls : req[c].id # NoId => req'[c].id = req[c].id
  <2>1. ASSUME NEW b \in Calls, CallerStep(b), NEW c \in Calls, req[c].id # NoId
        PROVE  req'[c].id = req[c].id
    BY <2>1, CallerMoves
  <2>2. CASE TaskStep \/ PeerStep
    BY <2>2, TaskEnds, PeerMoves
  <2>3. CASE Quiet \/ UNCHANGED vars
    BY <2>3 DEF Quiet, vars, callVars
  <2>4. QED
    BY <2>1, <2>2, <2>3 DEF Next
<1>2. f.kind = "reply" => f.id # NoId
  BY DEF Frames, Junk, Lifecycle, Ids, NoId
<1>3. QED
  BY <1>1, <1>2, MembersStay DEF Honest

LEMMA OwedStays ==
  ASSUME Known, [Next]_vars, NEW o \in owed,
         \E c \in Calls : req[c].id = o.id /\ req[c].target = o.target /\ req[c].member = o.member
  PROVE  \E c \in Calls : req'[c].id = o.id /\ req'[c].target = o.target /\ req'[c].member = o.member
<1>1. \A c \in Calls : req[c].id # NoId => req'[c] = req[c]
  <2>1. ASSUME NEW b \in Calls, CallerStep(b), NEW c \in Calls, req[c].id # NoId
        PROVE  req'[c] = req[c]
    BY <2>1, CallerMoves
  <2>2. CASE TaskStep \/ PeerStep
    BY <2>2, TaskEnds, PeerMoves
  <2>3. CASE Quiet \/ UNCHANGED vars
    BY <2>3 DEF Quiet, vars, callVars
  <2>4. QED
    BY <2>1, <2>2, <2>3 DEF Next
<1>2. o.id # NoId
  BY DEF Known, CorrelationInv, TypeOK, Obligations, Ids, NoId
<1>3. QED
  BY <1>1, <1>2

\* What a step of the debuggee or the task may add to what is owed.
LEMMA OwedGrows ==
  ASSUME Known, [Next]_vars
  PROVE  \A p \in owed' :
            \/ \E o \in owed : p.id = o.id /\ p.target = o.target /\ p.member = o.member
            \/ \E c \in Calls : req' = req /\ p = Obligation(c)
<1>1. ASSUME owed' \subseteq owed
      PROVE  \A p \in owed' : \E o \in owed : p.id = o.id /\ p.target = o.target /\ p.member = o.member
  BY <1>1
<1>2. ASSUME NEW o \in owed, NEW w,
             owed' = (owed \ {o}) \cup (IF o.due = {w} THEN {} ELSE {[o EXCEPT !.due = @ \ {w}]})
      PROVE  \A p \in owed' : \E q \in owed : p.id = q.id /\ p.target = q.target /\ p.member = q.member
  <2>1. o \in Obligations
    BY DEF Known, CorrelationInv, TypeOK
  <2> DEFINE less == [o EXCEPT !.due = @ \ {w}]
  <2>2. less.id = o.id /\ less.target = o.target /\ less.member = o.member
    BY <2>1 DEF Obligations
  <2>3. \A p \in owed' : p \in owed \/ p = less
    BY <1>2
  <2>4. QED
    BY <2>2, <2>3
<1>3. CASE \E c \in Calls : CallerStep(c)
  BY <1>1, <1>3 DEF CallerStep, CallStart, CallSend, CallDrop, peerVars
<1>4. CASE TaskStep
  <2>1. owed' = owed \/ \E c \in Calls : req' = req /\ owed' = owed \cup {Obligation(c)}
    BY <1>4 DEF TaskStep, TaskHandles, TaskEncodeFails, TaskSends, TaskSendFails, TaskReceives,
       TaskSeesClose, TaskRecvFails, TaskReturns, peerVars, callVars
  <2>2. QED
    BY <2>1
<1>5. CASE PeerStep
  <2>1. ASSUME NEW o \in owed, PeerAnswers(o)
        PROVE  \A p \in owed' : \E q \in owed : p.id = q.id /\ p.target = q.target /\ p.member = q.member
    BY <1>2, <2>1 DEF PeerAnswers
  <2>2. ASSUME NEW o \in owed, PeerAcks(o)
        PROVE  \A p \in owed' : \E q \in owed : p.id = q.id /\ p.target = q.target /\ p.member = q.member
    BY <1>2, <2>2 DEF PeerAcks
  <2>3. ASSUME ~(\E o \in owed : PeerAnswers(o) \/ PeerAcks(o))
        PROVE  owed' \subseteq owed
    BY <1>5, <2>3 DEF PeerStep, PeerRefuses, PeerCreates, PeerDestroys, PeerGarbles, PeerCloses
  <2>4. QED
    BY <1>1, <2>1, <2>2, <2>3
<1>6. CASE Quiet \/ UNCHANGED vars
  BY <1>1, <1>6 DEF Quiet, vars, peerVars
<1>7. QED
  BY <1>3, <1>4, <1>5, <1>6 DEF Next

\* What a step may add to the frames on their way.
LEMMA InboundAdds ==
  ASSUME Known, OwedKnown, [Next]_vars
  PROVE  \A k \in DOMAIN inbound' :
            \/ \E j \in DOMAIN inbound : inbound'[k] = inbound[j]
            \/ Honest(inbound'[k], req) /\ inbound'[k] \in Frames
<1> USE DEF Known, CorrelationInv
<1>1. ASSUME NEW fs \in Seq(Frames), inbound' = inbound \o fs,
             \A k \in 1..Len(fs) : Honest(fs[k], req)
      PROVE  \A k \in DOMAIN inbound' :
                \/ \E j \in DOMAIN inbound : inbound'[k] = inbound[j]
                \/ Honest(inbound'[k], req) /\ inbound'[k] \in Frames
  <2>1. /\ inbound \in Seq(Frames) /\ Len(inbound) \in Nat /\ DOMAIN inbound = 1..Len(inbound)
        /\ Len(fs) \in Nat /\ \A k \in 1..Len(fs) : fs[k] \in Frames
    BY LenProperties, ElementOfSeq DEF TypeOK
  <2>2. /\ inbound' \in Seq(Frames) /\ Len(inbound') = Len(inbound) + Len(fs)
        /\ \A k \in 1..(Len(inbound) + Len(fs)) :
              inbound'[k] = IF k <= Len(inbound) THEN inbound[k] ELSE fs[k - Len(inbound)]
    BY <1>1, <2>1, ConcatProperties
  <2>3. DOMAIN inbound' = 1..(Len(inbound) + Len(fs))
    BY <2>2, LenProperties
  <2>4. SUFFICES ASSUME NEW k \in DOMAIN inbound'
                 PROVE  \/ \E j \in DOMAIN inbound : inbound'[k] = inbound[j]
                        \/ Honest(inbound'[k], req) /\ inbound'[k] \in Frames
    OBVIOUS
  <2>5. CASE k <= Len(inbound)
    BY <2>1, <2>2, <2>3, <2>5
  <2>6. CASE ~(k <= Len(inbound))
    <3>1. k - Len(inbound) \in 1..Len(fs) /\ inbound'[k] = fs[k - Len(inbound)]
      BY <2>1, <2>2, <2>3, <2>6
    <3>2. QED
      BY <1>1, <2>1, <3>1
  <2>7. QED
    BY <2>5, <2>6
<1>2. ASSUME NEW f \in Frames, f.kind # "reply" \/ f.outcome # "notfound", inbound' = inbound \o <<f>>
      PROVE  \A k \in DOMAIN inbound' :
                \/ \E j \in DOMAIN inbound : inbound'[k] = inbound[j]
                \/ Honest(inbound'[k], req) /\ inbound'[k] \in Frames
  <2>1. <<f>> \in Seq(Frames) /\ \A k \in 1..Len(<<f>>) : Honest(<<f>>[k], req)
    BY <1>2 DEF Honest
  <2>2. QED
    BY <1>1, <1>2, <2>1
<1>3. CASE inbound' = inbound
  BY <1>3
<1>4. CASE TaskStep
  <2>1. CASE inbound' = <<>>
    BY <2>1
  <2>2. CASE inbound # <<>> /\ inbound' = Tail(inbound)
    <3>1. \A k \in DOMAIN inbound' : k + 1 \in DOMAIN inbound /\ inbound'[k] = inbound[k + 1]
      BY <2>2, HeadTailProperties, LenProperties, EmptySeq DEF TypeOK
    <3>2. QED
      BY <3>1
  <2>3. inbound' = inbound \/ inbound' = <<>> \/ (inbound # <<>> /\ inbound' = Tail(inbound))
    BY <1>4 DEF TaskStep, TaskHandles, TaskEncodeFails, TaskSends, TaskSendFails, TaskReceives,
       TaskSeesClose, TaskRecvFails, TaskReturns, peerVars
  <2>4. QED
    BY <1>3, <2>1, <2>2, <2>3
<1>5. ASSUME NEW o \in owed, PeerAnswers(o)
      PROVE  \A k \in DOMAIN inbound' :
                \/ \E j \in DOMAIN inbound : inbound'[k] = inbound[j]
                \/ Honest(inbound'[k], req) /\ inbound'[k] \in Frames
  <2>1. PICK out \in PeerOutcomes(o), n \in 1..MaxCopies :
             PeerSends([k \in 1..n |-> Reply(o.id, out, o.target)])
    BY <1>5 DEF PeerAnswers
  <2> DEFINE fs == [k \in 1..n |-> Reply(o.id, out, o.target)]
  <2>2. o \in Obligations
    BY DEF TypeOK
  <2>3. Reply(o.id, out, o.target) \in Frames
    BY <2>2, FrameTypes DEF Obligations, PeerOutcomes, WireOutcomes
  <2>4. fs \in Seq(Frames) /\ Len(fs) = n
    BY <2>3, SeqDef, SessionConstants
  <2>5. Honest(Reply(o.id, out, o.target), req)
    BY <2>2 DEF Honest, Reply, OwedKnown, PeerOutcomes, Obligations
  <2>6. \A k \in 1..Len(fs) : Honest(fs[k], req)
    BY <2>4, <2>5
  <2>7. QED
    BY <1>1, <2>1, <2>4, <2>6 DEF PeerSends
<1>6. ASSUME NEW o \in owed, PeerAcks(o) \/ PeerRefuses(o)
      PROVE  \A k \in DOMAIN inbound' :
                \/ \E j \in DOMAIN inbound : inbound'[k] = inbound[j]
                \/ Honest(inbound'[k], req) /\ inbound'[k] \in Frames
  <2>1. PICK out \in {"ok", "error"} : PeerSends(<<Reply(o.id, out, NoTarget)>>)
    BY <1>6 DEF PeerAcks, PeerRefuses
  <2>2. o.id \in Ids
    BY DEF TypeOK, Obligations
  <2>3. Reply(o.id, out, NoTarget) \in Frames /\ Reply(o.id, out, NoTarget).outcome # "notfound"
    BY <2>2, FrameTypes DEF Routes, WireOutcomes, Reply
  <2>4. QED
    BY <1>2, <2>1, <2>3 DEF PeerSends
<1>7. ASSUME NEW t \in SubTargets, PeerCreates(t) \/ PeerDestroys(t)
      PROVE  \A k \in DOMAIN inbound' :
                \/ \E j \in DOMAIN inbound : inbound'[k] = inbound[j]
                \/ Honest(inbound'[k], req) /\ inbound'[k] \in Frames
  <2>1. /\ Lifecycle("created", t) \in Frames /\ Lifecycle("destroyed", t) \in Frames
        /\ Lifecycle("created", t).kind # "reply" /\ Lifecycle("destroyed", t).kind # "reply"
    BY FrameTypes DEF Lifecycle
  <2>2. QED
    BY <1>2, <1>7, <2>1 DEF PeerCreates, PeerDestroys, PeerSends
<1>8. CASE PeerGarbles
  <2>1. Junk \in Frames /\ Junk.kind # "reply"
    BY FrameTypes DEF Junk, Lifecycle
  <2>2. QED
    BY <1>2, <1>8, <2>1 DEF PeerGarbles, PeerSends
<1>9. CASE PeerCloses \/ (\E c \in Calls : CallerStep(c)) \/ Quiet \/ UNCHANGED vars
  <2>1. inbound' = inbound
    BY <1>9 DEF PeerCloses, CallerStep, CallStart, CallSend, CallDrop, Quiet, vars, peerVars
  <2>2. QED
    BY <1>3, <2>1
<1>10. QED
  BY <1>4, <1>5, <1>6, <1>7, <1>8, <1>9 DEF Next, PeerStep

LEMMA HonestStep ==
  ASSUME Known, HonestInv, [Next]_vars
  PROVE  HonestInv'
<1> USE DEF HonestInv
<1>1. OwedKnown'
  <2>1. ASSUME NEW c \in Calls, req' = req
        PROVE  LET p == Obligation(c)
               IN  req'[c].id = p.id /\ req'[c].target = p.target /\ req'[c].member = p.member
    BY <2>1 DEF Obligation
  <2>2. QED
    BY <2>1, OwedGrows, OwedStays DEF OwedKnown
<1>2. InboundHonest'
  <2>1. \A k \in DOMAIN inbound : inbound[k] \in Frames
    BY ElementOfSeq, LenProperties DEF Known, CorrelationInv, TypeOK
  <2>2. QED
    BY <2>1, InboundAdds, HonestStays DEF InboundHonest
<1>3. LearnsOnlyAbsence'
  <2>1. CASE unavailable' = unavailable
    BY <2>1 DEF LearnsOnlyAbsence
  <2> DEFINE f == Head(inbound)
             c == pending[f.id]
  <2>2. ASSUME TaskReceives, f.kind = "reply", c # NoCall, f.outcome = "notfound",
               unavailable' = unavailable \cup {req[c].member}
        PROVE  LearnsOnlyAbsence'
    <3>1. inbound # <<>> /\ inbound \in Seq(Frames)
      BY <2>2 DEF TaskReceives, Known, CorrelationInv, TypeOK
    <3>2. f = inbound[1] /\ 1 \in DOMAIN inbound /\ f \in Frames
      BY <3>1, HeadTailProperties, LenProperties, EmptySeq, ElementOfSeq
    <3>3. f.id \in Ids
      BY <2>2, <3>2 DEF Frames, Junk, Lifecycle
    <3>4. c \in Calls /\ req[c].id = f.id
      BY <2>2, <3>3 DEF Known, CorrelationInv, TableSound, TypeOK
    <3>5. PICK d \in Calls : req[d].id = f.id /\ f.target \in Routes
                             /\ req[d].member \in Absent[f.target]
      BY <2>2, <3>2 DEF InboundHonest, Honest
    <3>6. d = c
      BY <3>3, <3>4, <3>5 DEF Known, CorrelationInv, IdsUnique, Ids, NoId
    <3>7. QED
      BY <2>2, <3>5, <3>6 DEF LearnsOnlyAbsence
  <2>3. QED
    BY <2>1, <2>2, Learning DEF Learned
<1>4. QED
  BY <1>1, <1>2, <1>3

\* No member is recorded unavailable that every target has: only an answer
\* of its own target teaches, and only MethodNotFound.  Which target lacks it
\* the record does not say.  [Capabilities::learn_from_failure]
THEOREM OnlyAbsenceIsLearned == Spec => []LearnsOnlyAbsence
<1>1. Init => HonestInv
  BY DEF Init, HonestInv, OwedKnown, InboundHonest, LearnsOnlyAbsence
<1>2. Known /\ HonestInv /\ [Next]_vars => HonestInv'
  BY HonestStep
<1>3. QED
  BY <1>1, <1>2, Promise, PTL DEF Spec, HonestInv
=============================================================================
