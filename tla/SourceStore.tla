---------------------------- MODULE SourceStore ----------------------------
(***************************************************************************)
(* The source text cache of mjx-wk-source: concurrent calls of             *)
(* `SourceStore::text`, the single flight that lets them share a request,  *)
(* the LRU cache with its byte budget, and `clear` on navigation.          *)
(*                                                                         *)
(* Every acquisition of the store's mutex is one step; between two, other  *)
(* callers run.  What the debuggee answers belongs to the page that was    *)
(* loaded when it answered; `clear` follows a navigation.                  *)
(***************************************************************************)
EXTENDS Integers, Sequences, FiniteSetsExt, SequencesExt

CONSTANTS
    Callers,    \* the invocations of SourceStore::text, each made once
    Sources,    \* source ids
    Fetchable,  \* sources whose entry passes preparatory_error
    Size,       \* [Sources -> [Pages -> Nat]]: bytes of a source's text
    Budget,     \* budget_bytes
    MaxPage,    \* bound on navigations
    NoText,     \* a source that is not cached
    NoCaller,   \* no fetch in flight
    Silent,     \* a channel nothing was sent on
    Closed,     \* a channel whose sender was dropped unsent
    Failures,   \* the ways a fetch may fail
    MayCancel,  \* whether a caller's task may be aborted while it awaits
    MayClear    \* whether the store is cleared on navigation

Pages == 0..MaxPage

ASSUME StoreConstants ==
    /\ Fetchable \subseteq Sources
    /\ MaxPage \in Nat /\ Budget \in Nat
    /\ Size \in [Sources -> [Pages -> Nat]]
    /\ NoCaller \notin Callers /\ NoText \notin Pages
    /\ Failures \subseteq {"unavailable", "notText", "session"}
    /\ MayCancel \in BOOLEAN /\ MayClear \in BOOLEAN

VARIABLES
    page,        \* how often the debuggee has navigated
    cache,       \* Inner's map, lru and bytes_held
    generation,  \* Inner::generation
    inflight,    \* Inner::inflight: a channel bears its creator's name
    said,        \* what was sent on each channel
    pc,          \* where each call is: see PCs
    want,        \* the source each call asks for
    follows,     \* the channel a following call is subscribed to
    joined,      \* the generation in which each call took its role
    got          \* a leader's answer from the session, then the call's result

cacheVars == <<cache, generation, inflight, said>>
callVars == <<pc, want, follows, joined, got>>
vars == <<page, cacheVars, callVars>>

\* "missed": looked into the cache, holds no lock yet.  "fetched": the answer
\* is here, not yet published.  "retry": its channel closed unsent.
PCs == {"idle", "missed", "leading", "fetched", "following", "retry", "done", "cancelled"}

Kinds == {"text", "unavailable", "notText", "session"}
Bodies == [kind : Kinds, page : Pages]
Body(k, p) == [kind |-> k, page |-> p]

Caches == [text : [Sources -> Pages \cup {NoText}], lru : Seq(Sources), bytes : Nat]
Empty == [text |-> [s \in Sources |-> NoText], lru |-> <<>>, bytes |-> 0]
Held == {s \in Sources : cache.text[s] # NoText}

Init ==
    /\ page = 0
    /\ cache = Empty
    /\ generation = 0
    /\ inflight = [s \in Sources |-> NoCaller]
    /\ said = [c \in Callers |-> Silent]
    /\ pc = [c \in Callers |-> "idle"]
    /\ want \in [Callers -> Sources]
    /\ follows = [c \in Callers |-> NoCaller]
    /\ joined = [c \in Callers |-> 0]
    /\ got = [c \in Callers |-> Silent]

-----------------------------------------------------------------------------
(* The cache *)

\* Inner::touch.
Touch(k, s) ==
    IF Contains(k.lru, s) THEN [k EXCEPT !.lru = Append(RemoveFirst(@, s), s)] ELSE k

\* The bytes of the texts that are cached for those sources, counted one by one.
Bytes(text, those) ==
    Cardinality(UNION {{s} \X (1..Size[s][text[s]]) : s \in {t \in those : text[t] # NoText}})

\* The m sources used least recently.
Oldest(k, m) == {k.lru[i] : i \in 1..m}

\* Faulty: a body that fits exactly still evicts.
BadEvictForExact(k, need) ==
    LET n == Min({m \in 0..Len(k.lru) :
                    m = Len(k.lru) \/ k.bytes - Bytes(k.text, Oldest(k, m)) + need < Budget})
    IN  [text |-> [s \in Sources |-> IF s \in Oldest(k, n) THEN NoText ELSE k.text[s]],
         lru |-> SubSeq(k.lru, n + 1, Len(k.lru)),
         bytes |-> k.bytes - Bytes(k.text, Oldest(k, n))]

\* The eviction loop of Inner::insert: least recently used first, until the
\* new body fits or nothing is left.
EvictFor(k, need) ==
    LET n == Min({m \in 0..Len(k.lru) :
                    m = Len(k.lru) \/ k.bytes - Bytes(k.text, Oldest(k, m)) + need <= Budget})
    IN  [text |-> [s \in Sources |-> IF s \in Oldest(k, n) THEN NoText ELSE k.text[s]],
         lru |-> SubSeq(k.lru, n + 1, Len(k.lru)),
         bytes |-> k.bytes - Bytes(k.text, Oldest(k, n))]

\* Faulty: the entry it replaces stays accounted for.
BadReplaced(k, s) == [k EXCEPT !.text[s] = NoText, !.lru = RemoveFirst(@, s)]

\* The entry an insertion replaces goes first.
Replaced(k, s) ==
    IF k.text[s] = NoText THEN k
    ELSE [text |-> [k.text EXCEPT ![s] = NoText], lru |-> RemoveFirst(k.lru, s),
          bytes |-> k.bytes - Size[s][k.text[s]]]

\* Inner::insert.
Insert(k, s, p) ==
    LET room == EvictFor(Replaced(k, s), Size[s][p]) IN
    [text |-> [room.text EXCEPT ![s] = p], lru |-> Append(room.lru, s),
     bytes |-> room.bytes + Size[s][p]]

-----------------------------------------------------------------------------
(* SourceStore::text *)

Returns(c, b) ==
    /\ pc' = [pc EXCEPT ![c] = "done"]
    /\ got' = [got EXCEPT ![c] = b]

\* `cached`, then preparatory_error.
Looks(c) ==
    LET s == want[c] IN
    /\ pc[c] \in {"idle", "retry"}
    /\ joined' = [joined EXCEPT ![c] = generation]
    /\ IF s \in Held
       THEN /\ Returns(c, Body("text", cache.text[s]))
            /\ cache' = Touch(cache, s)
       ELSE /\ IF s \in Fetchable THEN pc' = [pc EXCEPT ![c] = "missed"] /\ UNCHANGED got
               ELSE \E k \in {"unavailable", "notText"} : Returns(c, Body(k, page))
            /\ UNCHANGED cache
    /\ UNCHANGED <<page, generation, inflight, said, want, follows>>

\* Faulty: never follows.
BadTakesRole(c) ==
    /\ pc[c] = "missed"
    /\ joined' = [joined EXCEPT ![c] = generation]
    /\ inflight' = [inflight EXCEPT ![want[c]] = c]
    /\ pc' = [pc EXCEPT ![c] = "leading"]
    /\ UNCHANGED <<page, cache, generation, said, want, follows, got>>

\* Under the lock: a hit after all, a follower, or the leader of a new flight.
TakesRole(c) ==
    LET s == want[c] IN
    /\ pc[c] = "missed"
    /\ joined' = [joined EXCEPT ![c] = generation]
    /\ \/ /\ s \in Held
          /\ Returns(c, Body("text", cache.text[s]))
          /\ cache' = Touch(cache, s)
          /\ UNCHANGED <<inflight, follows>>
       \/ /\ s \notin Held /\ inflight[s] # NoCaller
          /\ follows' = [follows EXCEPT ![c] = inflight[s]]
          /\ pc' = [pc EXCEPT ![c] = "following"]
          /\ UNCHANGED <<cache, inflight, got>>
       \/ /\ s \notin Held /\ inflight[s] = NoCaller
          /\ inflight' = [inflight EXCEPT ![s] = c]
          /\ pc' = [pc EXCEPT ![c] = "leading"]
          /\ UNCHANGED <<cache, follows, got>>
    /\ UNCHANGED <<page, generation, said, want>>

\* fetch_text returns: the debuggee answered for the page it then had.
Fetched(c) ==
    /\ pc[c] = "leading"
    /\ \E k \in {"text"} \cup Failures : got' = [got EXCEPT ![c] = Body(k, page)]
    /\ pc' = [pc EXCEPT ![c] = "fetched"]
    /\ UNCHANGED <<page, cacheVars, want, follows, joined>>

\* SharedError: a follower is not told the session's own error.
Shared(b) == IF b.kind = "session" THEN [b EXCEPT !.kind = "unavailable"] ELSE b

\* Faulty: the sender is forgotten in the table, unsent.
BadTells(s, b) == UNCHANGED <<inflight, said>>

\* Whoever's channel stands under this source is told and removed.
Tells(s, b) ==
    /\ inflight' = [inflight EXCEPT ![s] = NoCaller]
    /\ said' = [k \in Callers |-> IF k = inflight[s] THEN Shared(b) ELSE said[k]]

\* Faulty: caches without looking at the generation.
BadKeeps(c) == got[c].kind = "text"

\* Only an answer asked for since the last clear is kept.
Keeps(c) == got[c].kind = "text" /\ generation = joined[c]

\* The leader publishes and returns.
Publishes(c) ==
    /\ pc[c] = "fetched"
    /\ Tells(want[c], got[c])
    /\ cache' = IF Keeps(c) THEN Insert(cache, want[c], got[c].page) ELSE cache
    /\ pc' = [pc EXCEPT ![c] = "done"]
    /\ UNCHANGED <<page, generation, want, follows, joined, got>>

\* A follower's recv() returns: an answer, or Closed and it starts over.
Wakes(c) ==
    /\ pc[c] = "following"
    /\ said[follows[c]] # Silent
    /\ IF said[follows[c]] = Closed
       THEN pc' = [pc EXCEPT ![c] = "retry"] /\ UNCHANGED got
       ELSE Returns(c, said[follows[c]])
    /\ UNCHANGED <<page, cacheVars, want, follows, joined>>

\* The caller's task is aborted at one of its two awaits.  A leader's channel
\* stays in `inflight`.
Cancelled(c) ==
    /\ MayCancel
    /\ pc[c] \in {"leading", "following"}
    /\ pc' = [pc EXCEPT ![c] = "cancelled"]
    /\ UNCHANGED <<page, cacheVars, want, follows, joined, got>>

-----------------------------------------------------------------------------
\* SourceStore::cached, from the UI thread.
Peek(s) ==
    /\ s \in Held
    /\ cache' = Touch(cache, s)
    /\ UNCHANGED <<page, generation, inflight, said, callVars>>

\* SourceStore::clear, once per navigation.
Clear ==
    /\ MayClear
    /\ generation < page
    /\ cache' = Empty
    /\ generation' = generation + 1
    /\ said' = [k \in Callers |-> IF \E s \in Sources : inflight[s] = k THEN Closed ELSE said[k]]
    /\ inflight' = [s \in Sources |-> NoCaller]
    /\ UNCHANGED <<page, callVars>>

\* The debuggee loads another page (external).
Navigates ==
    /\ page < MaxPage
    /\ page' = page + 1
    /\ UNCHANGED <<cacheVars, callVars>>

CallStep(c) ==
    Looks(c) \/ TakesRole(c) \/ Fetched(c) \/ Publishes(c) \/ Wakes(c) \/ Cancelled(c)

Next ==
    \/ \E c \in Callers : CallStep(c)
    \/ \E s \in Sources : Peek(s)
    \/ Clear
    \/ Navigates

Spec == Init /\ [][Next]_vars

\* A call that was made goes on, and the session answers it; nobody has to
\* call, cancel, navigate or clear.
Progress(c) ==
    (pc[c] = "retry" /\ Looks(c)) \/ TakesRole(c) \/ Fetched(c) \/ Publishes(c) \/ Wakes(c)

FairSpec == Spec /\ \A c \in Callers : WF_vars(Progress(c))

-----------------------------------------------------------------------------
\* The state has its declared shape; in particular bytes_held never falls below
\* zero, so that no saturating_sub hides an imbalance.  [Inner]
TypeOK ==
    /\ page \in Pages
    /\ cache \in Caches
    /\ generation \in 0..page
    /\ inflight \in [Sources -> Callers \cup {NoCaller}]
    /\ said \in [Callers -> Bodies \cup {Silent, Closed}]
    /\ pc \in [Callers -> PCs]
    /\ want \in [Callers -> Sources]
    /\ follows \in [Callers -> Callers \cup {NoCaller}]
    /\ joined \in [Callers -> Pages]
    /\ got \in [Callers -> Bodies \cup {Silent}]

\* The books balance: the recency list names every cached source once, and
\* bytes_held is the sum of what is cached -- also when two flights of one
\* source insert it in turn; and the cache stays within its budget, unless it
\* holds one text and nothing else.  [Inner::insert, Inner::evict_lru, clear,
\* "A single entry larger than the budget is still kept"]
Accounting ==
    /\ ToSet(cache.lru) = Held
    /\ Len(cache.lru) = Cardinality(Held)
    /\ cache.bytes = Bytes(cache.text, Held)
    /\ cache.bytes <= Budget \/ Cardinality(Held) = 1

\* No text from before the last clear is in the cache, however late its fetch
\* returned.  [the generation check of `text`]
CacheIsCurrent == \A s \in Held : cache.text[s] >= generation

\* Until the store is first cleared, at most one call fetches a source.
\* [the inflight table, "Concurrent calls for the same id must share one
\* request"]
SingleFlight ==
    generation = 0 =>
        \A c, d \in Callers :
            (want[c] = want[d] /\ {pc[c], pc[d]} \subseteq {"leading", "fetched"}) => c = d

Evicted == {s \in Held : cache'.text[s] = NoText}
UsedBefore(s, t) ==
    \E i, j \in 1..Len(cache.lru) : i < j /\ cache.lru[i] = s /\ cache.lru[j] = t

\* An insertion evicts in order of last use and stops as soon as the new text
\* fits: whatever was used before an evicted text is evicted too, and the last
\* text evicted would not have fitted.  [Inner::insert]
EvictsOnlyWhatItMust ==
    [][generation' = generation =>
         \A t \in Evicted :
            /\ \A s \in Held : UsedBefore(s, t) => s \in Evicted \/ cache'.lru[Len(cache'.lru)] = s
            /\ (\A s \in Evicted : ~UsedBefore(t, s))
                  => cache'.bytes + Size[t][cache.text[t]] > Budget]_vars

\* A follower returns, as long as nobody's task is aborted: an aborted leader's
\* channel stays open in `inflight`, and whoever follows it waits.  [text, the
\* two arms of Role::Follower]
FollowersReturn ==
    \A c \in Callers :
        pc[c] = "following" ~> (pc[c] = "done" \/ \E d \in Callers : pc[d] = "cancelled")

\* A call that joined after a clear does not see a text from before it.  This
\* does not hold.  [clear, "they retry against the empty cache rather than
\* observing a pre-navigation body"]
FreshAfterClear ==
    \A c \in Callers : pc[c] = "done" => got[c].page >= joined[c]
=============================================================================
