# A verification project for mjx-webkit-debugger

TLA+ models of the parts of mjx-webkit-debugger in which something can go wrong
that a test would hardly reach: the session that multiplexes concurrent calls
over one connection, the transports below it, the caches, stores and panels
above it, and the data structures and text algorithms they are built from. Each
model is checked by TLC on a small instance; every safety property of those that
are systems, and of seven of the libraries, is proved by TLAPS for every instance.

Paths below are relative to `src/crates/`.

## 1. The system

The debugger is a native UI process attached to a WebKit inspector server. Three
threads of control matter: the egui thread, which only reads snapshots and posts
`Action`s; one tokio runtime with the *host* task, the *session task* and the
tasks of the agents; and the debuggee, a separate process.

```
 egui thread        tokio runtime                                        debuggee
 widgets --Action--> session_host --call--> SessionHandle --cmd_tx--> session_task
    ^                    | |    \                                  send |   ^ recv
    |  AgentSnapshot     | |     `--text()--> SourceStore --call-->     v   |
    `-- (ArcSwap) <------' |                                      Transport (TCP | replay)
              ^            |                                            |   ^
              |            `--register--> AgentRegistry                 v   |
              `-- run_agent <-- forwarding task <-- broadcast <-- handle_inbound
```

### Inventory

| Component | Source | State it keeps | Operations | Talks to | What is hard |
|---|---|---|---|---|---|
| session | `mjx-wk-session/src/{lib,gating}.rs` | `next_id`, command channel, `pending` by id, capabilities, sub-targets, `connected` | `call`, `for_target`, the task's `handle_cmd` / `handle_inbound`, parking, teardown | callers (oneshot), transport, subscribers (broadcast) | ids taken before the channel is entered; repeated, reordered and unattributed answers; hang-up with calls in flight; cancellation |
| agents | `mjx-wk-session/src/agent.rs`, `mjx-wk-debug/src/lib.rs`, `mjx-wk-console/src/lib.rs` | private model, published snapshot, event queue | `register` (subscribe, attach, seed), `run_agent`, `on_event` | session events, ArcSwap | events during attach and during the agent's own calls; ring of 256; two writers of the snapshot |
| debugger panel host | `mjx-webkit-debugger/src/session_host.rs`, `mjx-wk-debug/src/pause.rs` | the published `DebugModel` it edits, the action under way | attach, `handle_action`, `toggle_breakpoint`, `expand_value`, `evaluate_expr`, … | session calls, ArcSwap, stores | load – await – store over another writer's publications |
| breakpoint store | `mjx-wk-debug/src/breakpoints.rs` | breakpoints, index by source, DOM, event, URL and symbolic lists | insert, resolve, fail, re-key, hit counts, node clean-up | agent, host | events that overtake the answer which brings their id; reloads |
| value tree | `mjx-wk-debug/src/values.rs` | nodes, pages fetched, watch roots | push, apply a page, apply a getter's result, clear | host, variables panel | pages late, twice or out of order |
| source store | `mjx-wk-source/src/store.rs` | LRU map, bytes held, generation, in-flight channels | `text`, `cached`, `clear` | session calls, UI thread | single flight across a clear; aborted leaders; the budget |
| source inventory | `mjx-wk-source/src/inventory.rs` | entries, index by script id and by URL | script parsed, resource tree, `build_tree`; a navigation handler nobody calls | host, source tree | script ids reissued after a navigation; two frames with one URL; announcements lost to an overrun ring |
| source maps | `mjx-wk-source/src/maps.rs` | maps, authored sources, reverse index | install, revoke, resolve both ways | views | one authored line in several bundles |
| console | `mjx-wk-console/src/lib.rs` | bounded message list, dropped count | push, repeat counts, clear, evaluate | agent, host | two writers; the bound; pauses that end under an evaluation |
| transport: live TCP | `mjx-wk-transport/src/{tcp,lib}.rs` | receive buffer, `pending` frames, `closed` | `attach`, `list`, `send`, `recv`, `close` | socket | messages cut by reads, batches, deadlines, the peer's end |
| transport: replay | `mjx-wk-transport/src/replay.rs`, `mjx-webkit-debugger/src/fixture_seed.rs` | rest of the trace, `pending`, id map | flatten, `send`, `recv`, `close` | a recorded file | order and ids differ from the recording |
| discovery, framing | `mjx-wk-transport/src/discovery.rs` | none | encode, decode, target descriptors | TCP | partial messages, malformed ones |
| dialects, protocol types | `mjx-wk-dialect/src/*.rs`, `mjx-wk-protocol/src` | none | encode, decode, classify, route and unwrap envelopes | session | two replies with one id; frames within frames |
| text, search | `mjx-wk-source/src/{text,search}.rs` | line offsets, index of texts | build, line and offset conversions, scan, merge | views | UTF-16 columns, terminators, the last line |
| highlighting | `mjx-wk-source/src/highlight.rs`, `mjx-wk-ui/src/code_view.rs` | per source: fingerprint, lines, tree, spans of a window | highlight a window, project captures to lines, paint a line | code view | nested captures, ends of lines, what is cached for another text, language or window |
| pretty printing | `mjx-wk-source/src/pretty.rs` | none | lex, emit, map both ways | views | what must not be joined; positions that map back |
| widgets | `mjx-wk-ui/src/*.rs` | what is open, drafts | rows from a snapshot, Actions | shell | state remembered by key across models that change |
| application shell | `mjx-webkit-debugger/src/*` | window, pending actions, snapshot with tree, selection and text | draw, dispatch, start-up | host | clicks on a snapshot a frame old that wait behind a fetch |
| xtask | `src/xtask/src` | – | record fixtures, generate protocol types, verify, benchmark | debuggee, files | late replies in a recording; recursive types |
| later-phase domains, meters | `mjx-wk-{audit,css,dom,graphics,network,profile,storage,perf}` | none at this commit | type seams, probes | – | – |

What makes each correct, in a sentence: every caller of the **session** gets the
answer to its own request, or a local failure, exactly once; an **agent** misses
no event from the moment its domain is enabled; what the **panel** shows is what
the debuggee is in; the **breakpoint store** says of each breakpoint what the
debuggee does, whatever overtakes what; the **source store** never keeps a text
of a page that is gone, asks once, and balances its books; the **inventory**
has an entry for each script it could hear of, with the id that is good for it; the **console** loses no
message uncounted; a **transport** hands on every frame once, in order, and says
so when there are no more; **replay** correlates as a live session would; and the
**libraries** compute what a one-line definition of their result says.
`PROJECT.json` lists under "hazards" the lines at which each of these is at risk
and the property that would notice.

## 2. Modules

| Module | Models | Status |
|---|---|---|
| `Session` | callers, `session_task`, correlation, capabilities, sub-targets; the debuggee as environment | checked, proved |
| `CallService` | what `SessionHandle::call` promises, without channel or table | implemented by `Session` (checked and proved) |
| `SessionProofs` | theorems about `Session` | proved |
| `SourceStore` | `SourceStore::text`, the single flight, the cache, `clear` | checked, proved |
| `BoundedProofs` | theorems about the two stores with a bound, `SourceStore` and `Console` | proved |
| `DebugHost` | `AgentRegistry::register`, `run_agent`, the `DebugAgent`'s pause state, the host's edits | checked, proved |
| `DebugHostProofs` | theorems about `DebugHost`, and about what it publishes and shows: `Values`, `HighlightCache` | proved |
| `Tcp` | `TcpInspectorServer::{attach, list}`, `TcpTransport::{recv, close}` | checked, proved |
| `FrameStream` | what the `Transport` trait promises of `recv` | implemented by `Tcp` (checked and proved) |
| `TcpProofs` | theorems about `Tcp` and `Wire` | proved |
| `Recorder` | `xtask record`'s steps and drain, the debuggee's pages | used by `Replay` |
| `Replay` | `flatten_multiplexed_trace`, `ReplayTransport`, and the session's correlation of what it delivers | checked, proved |
| `ReplayProofs` | theorems about `Recorder` and `Replay`, and about `Codegen` | proved |
| `Inventory` | `SourceInventory`, the host that attaches, seeds and feeds it | checked, proved |
| `Shell` | the frames of the window, its snapshot, and the host that opens sources for it; extends `Inventory` | checked, proved |
| `InventoryProofs` | theorems about `Inventory`, `Shell` and `SourceMaps` | proved |
| `Console` | `ConsoleModel`, `ConsoleAgent`, the host's `evaluate_expr` | checked, proved |
| `Breakpoints` | `BreakpointStore` and the `DebugAgent` that keeps it | checked, proved |
| `BreakpointsProofs` | theorems about `Breakpoints`, and about `Clicks` | proved |
| `Excerpt` | picking elements of a list by their places | used by `Tcp`, `Replay`, `Breakpoints`, `SourceMaps`, `Codegen`, `Marks` |
| `ExcerptProofs` | lemmas about it, and about recursion and induction over lists | proved |
| `LineIndex`, `Search` | a text's lines, bytes and columns; the scan and the merge of hits | checked in `MCLibrary` |
| `Lexer`, `Pretty` | the pretty printer: tokens, both emitters, both maps | checked in `MCLibrary` |
| `Highlight` | captures to runs, runs to a painted line | checked in `MCLibrary` |
| `HighlightCache` | the highlighter's cache, the code view's frames | checked in `MCLibrary`, proved |
| `SourceMaps` | the resolver of source maps | checked in `MCLibrary`, proved |
| `ValueTree`, `Values` | the tree of values, and its operations in any order | checked in `MCLibrary`, proved |
| `Variables` | the variables panel and `expand_value`, on the same tree | checked in `MCLibrary` |
| `SourceTree` | `build_tree` and the source tree widget | checked in `MCLibrary` |
| `Marks` | breakpoints in the user's hands: list, gutter, editors, and the host's handling of what they post | checked in `MCLibrary`, proved |
| `CallStack` | the frames of a pause, their rows, the selection | checked in `MCLibrary`, proved |
| `Clicks` | the two side by side, and what a click in either reaches | checked in `MCLibrary`, proved |
| `Framing`, `Dialect` | messages on the socket; frames and envelopes within them | used by `Wire` |
| `Wire` | a socket that is written to, garbled and read in pieces; frames put into envelopes | checked in `MCLibrary`, proved |
| `Codegen` | merging of variants, boxing of recursive types | checked in `MCLibrary`, proved |
| `MCSession`, `MCSourceStore`, `MCDebugHost`, `MCReplay`, `MCInventory`, `MCAgents`, `MCLibrary` | instances for TLC (`MCInventory` of `Shell` and the `Inventory` in it, `MCAgents` of `Breakpoints` and `Console`, one at a time; `Tcp` needs none) | – |

A definition called `Bad…` is a faulty variant of the definition that follows it.
No action uses one; they are the bugs against which the properties are tried.

### How state and actions correspond to the code

**Session.** `pc`, `req` and `result` are the callers; a call is two steps,
because another thread may run between `next_id.fetch_add` and the channel send
(`CallStart`, `CallSend`), and `CallDrop` is the cancelled future. `cmdQueue`,
`pending`, `task` and `reading` are the channel and the locals of
`session_task`. One step of the task is one turn of its `select!`, whose bias
towards commands is `PollsRecv`; `parked` is the inner wait after `recv()`
returned `None`; `Teardown` is the code behind the loop. The debuggee owes each
request what WebKit owes it: a reply, and for a routed request an acknowledgement
of the envelope too, in either order; it may repeat an answer, refuse an envelope
whose target is gone, create and destroy sub-targets, send junk, hang up. A call
may name any sub-target ever listed (`handles`), since a handle from `for_target`
outlives the listing. Learning from a failure and telling the caller of it are one
step (`CompletePending`), in this order in the code: between the two nothing can be
seen but a later call refused a moment early.

**SourceStore.** Each acquisition of the store's mutex is one step (`Looks`,
`TakesRole`, `Publishes`, `Peek`, `Clear`); between `Fetched` and `Publishes`
anything may run. A channel bears the name of the call that created it, `said`
holds what was sent on it, `Closed` that its sender was dropped. A text is named
by the page it came from, which is what staleness is about.

**DebugHost.** `ring` is the broadcast channel as the agent's subscription sees
it, `queue` the channel behind the forwarding task. `published` is the ArcSwap.
The host's action is a small program: `call` and `answered` around an await,
`load` and `store` around an edit; `held` is the model it has in hand, loaded
*before* the call where the code does that (`toggle_breakpoint`'s removal,
`expand_value`).

**Tcp.** `out` is what the server has sent, `read` how far the client has read
it in half messages, `taken` how many messages were decoded; the receive buffer
is what lies between. `RecvReads` is one read with the `pull_pending` behind it,
since nothing awaits in between. `clock` counts the read slices of the handshake.

**Recorder and Replay.** The recorder performs calls, hand-wrapped calls, root
requests and waits (`CallStep`, `HandWrappedStep`, `RootStep`, `WaitStep`) while
the debuggee creates and commits pages and answers what it owes; `TimesOut` ends
a step without its answer, which is then recorded among a later step's frames.
`Load` flattens the recording. `front` is how much of the trace has gone by.
`ReplaySend` is the whole of `send`: the search, the frames passed over, the
renumbering, the frames that directly follow; `Recv` the whole of `recv`.

**Inventory.** `loaded` is the page the debuggee is on: the URLs of its scripts,
whose ids are their places in it. `HostEnables`, `HostAnswered`, `HostSeeds` and
`HostSubscribes` are the host's attach sequence, whose subscription opens after
the domain is enabled and the tree is read. `ring` is the broadcast channel as that
subscription sees it: a script announced while it is full overwrites the oldest
(`Hears`), and so does anything else the debuggee says (`DebuggeeSaysMore`), which
is not modelled one by one. `missed` are the scripts of the page the host never
hears of, because they were announced before it subscribed or were overwritten.
`HostFolds` is one event of the host's loop. A navigation reaches the inventory
not at all: `on_navigated` has no caller, and no action here stands for it.

**Shell.** `Frame` is one frame of the window: what was clicked in the frame
before is sent, the snapshot is loaded and drawn, a source or a frame of the call
stack is clicked. `shown` is the published `ShellSnapshot`. `opening` is the
source whose text the host awaits, during which it folds no event, although the
debuggee goes on parsing and navigating and the ring overruns; `texts` is the
store, in which a text is the script it is of. `PublishesTree` follows an event,
`Publishes` ends an action. Nothing empties the store, as in the application.

**Console.** `sent` are the events that reach the agent, `folded` how far it has
come: the ring before it may have lost any others, so a repeat count may come at
any time, for a message that was cleared, fell off the log or never arrived. An evaluation is `Asks`, `Answered` or `Refused`, `Loads`, `Stores`; the
pause it is routed by is what the debugger panel shows (`shown`), which trails
where the debuggee is (`halted`).

**Breakpoints.** `all`, `bySource` and `rows` are the store; `call` is the
agent's command under way, during which its events wait in `queue`
(`SetBreakpointByUrl`, `FinishLine`, `AskRow`, `FinishRow`, `OnEvent`). Of the
debuggee, `held` and `bound` are the breakpoints it has and where they landed,
`alive` the nodes, `gone` those whose removal it stopped for. `Meant` is what
`event_category_to_protocol` makes of the name of an event breakpoint: two names
may mean one breakpoint of the debuggee.

**The libraries** are operators, each the translation of one function. Seven of
them are state machines with variables of their own, so that they can be proved
about: `Wire` (the stream of bytes and its reader), `SourceMaps` (the resolver,
each step a map that is loaded), `HighlightCache` (a frame is drawn, a language
learned, a source dropped), `Values` (pages answered whenever they were asked
for, getters, watches, sizes), `Codegen` (a variant declared, which is one turn
of `merge_by`'s loop, or a reference between types), `Marks` and `CallStack`, whose
steps `Clicks` interleaves. For the others `MCLibrary` builds inputs step by
step: `kind` says which of them all a behaviour is about, `item` is the input so
far, or the value after the operations so far.

In `Variables` a panel is the tree the host published, what the user opened, and
the requests that wait for the host; a request may be answered, refused, or
overtaken by another pause with a new tree. In `HighlightCache`
`visible` and `drawn` are what the frame before showed; a text is known by its
fingerprint, a tree is the text, language and lines it was parsed from. In `Wire`
`written`, `ends` and `bytes` are history; `reader` is what `recv` keeps.

In `Marks`, `marks` is what the host publishes, `editors` the open editor of the
list and of the gutter, `requests` the Actions on their way, `holds` and `given`
the ids the debuggee has and how many it gave out. A row or a line is clicked
(`ClickMark`), an editor opened or closed with what was typed (`OpenEditor`,
`CloseEditor`); the host handles one Action, granted or not (`HostHandles`, in
which the await within a removal is not split: that is `DebugHost`'s), or the
agent publishes over it (`AgentOverwrites`). `of` and `lost` are history: the
breakpoint a click was meant for, and those the debuggee has but no row shows. In
`CallStack`, `folded` is the pause the agent keeps, `stack` the one published, in
which the host selects (`HostSelects`), `showsAll` whether hidden frames were asked
for, `selections` the clicks between. Each event makes the agent publish its own
again (`PausesOn`, `RunsOn`, `OtherEvent`).

### How the modules fit together

`Session` takes its link to be what `FrameStream` promises (`inbound` is in order
and read to its end before `TaskSeesClose`), and `Tcp` is shown to keep that
promise. `DebugHost`, `SourceStore`, `Inventory`, `Console` and `Breakpoints` take
the session to be what `CallService` promises: a call returns once, a reply or a
failure. `Replay` extends `Recorder`, so that its traces are those that can be
recorded, and holds the one departure from `FrameStream`: its `recv` returns
`None` whenever the next entry is a request, and it is the session's parking, not
its shutdown, that makes this work. `Breakpoints` is the agent's store in itself;
`DebugHost` has the same agent, with the host as a second writer of what it
publishes. `Shell` extends `Inventory` with the window and the store, and is
proved to leave the inventory as it is specified (`ShellImplementsInventory`); of
the store it keeps a map of texts, since one caller needs no single flight.
`MCLibrary` composes where the code does: the host's tree of values
with the panel's rows and clicks, the host's edits of breakpoints with the list
and the gutter, the agent's pauses with the rows of the call stack, the
highlighter with the frames that ask it, the lexer's tokens with the emitters and
their maps, `build_tree` with the widget, frames with the envelopes around them.

## 3. What the runs check

| Run | Instance | States | Shows |
|---|---|---|---|
| `session` | 2 calls, 3 members (present, absent in one target, not encodable), 1 sub-target, 2 frames in flight, 2 lifecycle events, answers repeated twice | 282 thousand | correlation, no forgotten caller, what is learned, sub-targets, teardown, refinement of `CallService`, two liveness properties |
| `session_hangup` | 2 calls of one member, no repeats, the peer may only hang up | violated | a caller in flight at a hang-up waits until someone else calls |
| `store` | 3 calls, 3 sources, budget 3, one navigation | 229 thousand | books, budget, currency, single flight, LRU order, followers |
| `store_stale` | 3 calls, 1 source | violated | an old leader answers a new follower |
| `debug` | 2 pauses, 2 breakpoint ids, 3 user actions, ring of 2 | 555 thousand | no event lost, no mark of a removed breakpoint, no values of another pause, every pause shown |
| `debug_pause` | 1 pause, 1 user action | violated | a late edit resurrects a pause |
| `tcp` | 4 messages of which 1 may be bad, deadline of 2 slices | 227 thousand | refinement of `FrameStream`, release of the target, handshakes return, frames arrive |
| `replay` | recordings of 2 requests, 2 pages and 1 event; 3 calls, 2 methods | 950 thousand | nothing dropped, correlation unless a request is skipped, answers arrive |
| `inventory` | 2 URLs, up to 3 scripts a page, ring of 2, 1 navigation, 2 clicks | 4.79 million | both indexes, an entry for each script heard of, a click opens the source it names, texts are those of their sources on the first page |
| `inventory_reload` | the same | violated | after a navigation a script is shown with the text of the page before |
| `agents` | breakpoints: 2 sources with 2 places, 2 lines, 2 calls, 1 node, 3 event names for 2 events, 1 pause, 1 reload; or a console: log of 2 rows, 4 events, counts up to 3, 2 pauses, 2 evaluations | 3.42 million | the store says what the debuggee does, hits are counted, the gutter's index is the list; the log is what its events amount to, an expression has its own result, nothing goes uncounted |
| `library` | see below | 454 thousand | each algorithm and data structure against what its result should be |

`library` looks at every text of 5 characters, minified source of 4 pieces,
program of 4 tokens, stream of 2 messages however it is cut, with a damaged one
or none, frame of 5 steps of members and envelopes, nest of 3 captures, 4 frames
of the code view and changes of language between them, 4 source maps loaded one
after the other, 5 operations on a tree of values, 9 clicks and answers in the
variables panel, 5 sources loaded and folders clicked, 6 clicks, edits and answers
about breakpoints, 5 events and clicks of the call stack, 3 variants of a member and
5 fields among three types.

### Bounds, and why they are enough

* *Session.* Mixing up two calls takes two; a third adds only symmetric cases.
  One sub-target and the page are the two kinds of route. Two frames in flight
  are enough for an acknowledgement and a reply in either order, and for a reply
  and its duplicate. Three members cover the three ways a member can matter.
* *SourceStore.* A leader of the old page, a leader of the new one and its
  follower are three calls. Sizes are chosen so that two texts just fill the
  budget, one alone exceeds it and one is empty. One navigation separates old
  from new; `store` also covers a page change whose `clear` comes late.
* *DebugHost.* A stale pause needs two pauses; a removed mark needs an id to be
  given out twice; three actions let an edit follow an edit that overlapped a
  publication. A ring of 2 overruns within the bounds, which is the case
  `lagged` exempts.
* *Tcp.* A setup, two frames and a close, or a bad message in any place; each
  cut anywhere. Two slices distinguish "before", "in the last slice" and
  "after".
* *Replay.* Two recorded requests, one of them perhaps in a page that is gone or
  answered in a later step, hold a skipped request, its reply, a matched request
  with the same number, and an event between them; a third call finds nothing
  left.
* *Inventory.* Three scripts give one URL loaded by two frames and an eval
  between them; their ids return on the page after the navigation. A ring of 2
  overruns in the middle of a page: the first script is lost and the others are
  heard. Two clicks let one wait behind the fetch of the other, during which the
  page changes.
* *Console.* Four events overflow a log of two, with a clearing or a repeat count
  among them, or leave it full and clear it; two pauses and two evaluations let one
  evaluation overlap the end of the pause it belongs to.
* *Breakpoints.* Two sources with two places tell an id given to the wrong
  breakpoint, and the place of one source shown in another; two calls let a
  pause or a reload fall into a call that follows another, and a timer be set by
  one of its names and removed by the other. Places and sources are interchangeable, which the symmetry of the run uses.
* *Library.* Five characters hold `\r\n` between two letters; four pieces open
  and close a string, a comment, a regular expression or a template around an
  expression, or leave it open (five pieces, 1.49 million states, show nothing
  else); a page of the tree of
  values is two rows, of an object with three, so that there is a full page, a
  partial one and a page of nothing; nine clicks and answers reach the second page
  of a scope in a second pause, with rows of the first still open; six clicks,
  edits and answers on three lines of two sources hold two breakpoints and an
  edit, or one that is set, moved, lost and set again; three texts, two of which
  have one fingerprint, and four frames let each cache entry be met by another
  text, language and window; five frames have hidden ones in a row, alone and last,
  and five steps let a click wait behind an event of the agent.

Every property of a passing run is tried against at least one faulty variant of
the code ("mutants" in `PROJECT.json`) within the same bounds, so the bounds are
known to reach the case each is about.

### Fairness

No user, caller or debuggee ever *has* to act: no fairness is assumed for
starting a call, cancelling, pausing, navigating, hanging up, sending a message
or issuing a command. Assumed is

* of the runtime: a task that can run does. One weak fairness per task
  (`session_task`, the forwarder, the agent, the host, each `text` call, the
  reader of the socket or of the replay), since a task is polled again when what
  it awaits is ready;
* of the timer: a handshake's slice ends;
* of the debuggee, where a property is about answers (`CallResolves`,
  `FollowersReturn`, `PauseReachesUser`): it deals with a request it received,
  by answering, acknowledging or refusing it. `CallResolves` exempts calls whose
  target died or whose peer hung up.

`inventory`, `agents` and `library` check safety only, under no
fairness.

Deadlock is checked in `session`, where the only resting state is one in which
every caller has its outcome (`Quiet`). The other systems come to rest by design
when their bounded inputs are used up, so their configurations switch it off.

## 4. What is proved

TLAPS proves, for every value of the constants and every bound, under the named
assumptions of the modules and nothing else:

* of the systems, `SessionConstants` and `NoResultIsNone`, `StoreConstants` (what
  stands for no text is no page), `HostConstants` (there is a line to put a
  breakpoint on), `TcpConstants`, `InventoryConstants` (the ring has room for
  one event), `ShellConstants`,
  `RecorderConstants`, `ReplayConstants`, `BreakpointConstants` (what stands for
  no row is no row, the other rows are no DOM rows, and each of them is
  asked for by the name of one) and `ConsoleConstants`
  (there is room for one row);
* `WireConstants`: a message has the parameters of its kind and fits into a body
  (`encode_message` does not check the second, see section 5), and what is called
  damage is refused by the decoder from its first bytes;
* `MapsConstants`: a map's tokens are sorted by generated position, no two at one
  place, which is what the `sourcemap` crate's lookup needs to have one answer.
  Numbers of sources do not wrap;
* `ViewConstants`: line counts and margins are numbers, a range on the screen ends
  no earlier than it begins. Two texts with one fingerprint are not excluded, but
  a source that has shown both is exempted by `LinesShowTheirColours`;
* `ValuesConstants`: an object's properties are a sequence of rows, what stands
  for no object is none, a page has room for a row. The debuggee reports the same
  properties with each page while a pause lasts;
* `MarksConstants`: what an editor changes is a condition, a log message or a
  probe. Nothing is assumed of the lines, of where the debuggee binds a breakpoint
  or of what it grants; an id is given out once;
* `StackConstants`: a pause has finitely many frames and async frames, none
  perhaps, any of them hidden;
* `CodegenConstants`: no declaration has two properties of one name or lists a
  value twice. Variants whose kinds differ, which `merge_types` refuses, are left
  out; there the generator stops.

| Theorem | Property | Argument |
|---|---|---|
| `SessionProofs!TypeCorrect` | `TypeOK` | not inductive alone: `Obligation` and `Correlate` use a call's id, so `HasId` adds that a call past its start, and every call in the channel, holds an id of `Ids` |
| `SessionProofs!CallersHeld` | `NoCallerForgotten` | `CorrelationInv` adds `IdsUnique`, `ChannelSound` and `TableSound`. `pending.insert` keeps the other callers' entries only because ids are unique; taking a command moves its caller from channel to table only because it stood in the channel once; teardown leaves nobody only because the table and the awaiting callers match |
| `SessionProofs!RepliesCorrelated` | `ReplyCorrelated` | `ReplyInv` follows an answer backwards: the table entry belongs to the call of that id (`TableSound`), the frame speaks for a call (`InboundSound`), it was sent because that call's request was owed (`OwedSound`). An unattributed frame either is for an unrouted call or is what `IsAck` sets aside. `OpenHasNoResult` makes the outcome the first and only one |
| `SessionProofs!SessionImplementsCallService` | `ImplementsCallService` | each step maps to a step of `CallService` or to none; that a result handed over is one that was promised needs `UpSound`, `AnsweredSound` and `RefusedUnasked` on top of the invariants above |
| `SessionProofs!LaterCallsAreRefused` | `SecondCallShortCircuits` | `LessonKept`: capabilities only grow, and a caller told of an absence was told by the step that wrote it down |
| `SessionProofs!OnlyAbsenceIsLearned` | – | what is learned comes from a frame (`InboundHonest`), which comes from a request owed by a target that lacks the member (`OwedKnown`) |
| `SessionProofs!SubTargetsAlwaysCatchUp` | `SubTargetsCatchUp` | `Arrives` says of one sub-target that the last frame about it is right, or, if none is on its way, the list; it survives a frame that is sent or read, of this target or of another |
| `BoundedProofs!NothingStaleCached` | `CacheIsCurrent` | `AnswersCurrent`: a fetched answer is at least as recent as the generation its leader joined in, so an answer whose generation is still the store's is current; insertion, eviction and touch keep the rest (lemmas) |
| `BoundedProofs!OneFlight` | `SingleFlight` | `FlightsListed`: before the first clear, whoever leads a source is the one `inflight` names for it |
| `BoundedProofs!StoreTyped` | – | the shapes of cache, channels and calls, which the next two need |
| `BoundedProofs!BooksBalance` | `Accounting` | bytes are the size of a set, so that taking a source away, evicting a prefix of the list and inserting are facts about disjoint unions (`BytesAdd`, `BytesOfOne`); `StoreInv` adds that the list names no source twice, and is kept by each operation on the cache in turn |
| `BoundedProofs!EvictionsAreDue` | `EvictsOnlyWhatItMust` | what is evicted is the shortest prefix that makes room (`LeastNumber`), and a prefix of the list is what was used before |
| `BoundedProofs!ConsoleIsTyped` | – | what follows bounds each copy of the model by the room there is |
| `BoundedProofs!LogAlwaysHonest` | `LogIsHonest` | folding one event more gives the log of the events up to it (`FoldsOne`): a message that finds no room costs exactly one message of those since the last clearing, the one that has just been followed by too many (`LostNext`); a repeat count is of the last message said, which is the last row or cleared (`FinalCountNext`); and a log does not depend on what is said later (`ExpectedAgrees`), so that saying more and attaching keep it |
| `BoundedProofs!PublishedAlwaysAddsUp` | `PublishedAddsUp` | `AddsUp` names the rows that would be there without a bound, a log the agent once had and `p` pairs after it; a push adds one of them and lets the oldest go (`CarriesNext`), so recording an evaluation goes from `p` to `p + 1` whichever copy it is done to (`RecordAddsUp`). The same is kept of the copy the host holds between load and store, and `Finished` counts no evaluation that is under way |
| `InventoryProofs!IndexesAlwaysAgree` | `IndexesAgree` | each of the indexes' updates in `insert_entry`, `update_script_entry` and `upsert_resource` keeps it (`ListingKeepsIndexes`, `TreeIsListed`); the way back from entry to index needs that on the first page events in the ring bear ids no entry has yet (`FirstPage`) |
| `InventoryProofs!ScriptsAreAlwaysFound` | `ScriptsAreFound` | what the ring holds of the page is true of it and in the order of its ids, behind all that is of pages before (`RingIsTrue`); a script that was not missed is in the ring, or everything in the ring was parsed after it and it has its entry, or another script of its URL took that (`NothingLost`). An overrun loses the oldest (`RingOverwrites`), which becomes `missed`; a fold gives an event's id to the entry of its URL, and takes away only an id of an earlier page or of a script it replaces |
| `InventoryProofs!IdsAreAlwaysStable` | – | no step but `insert_entry` touches `by_url`, and it only for a URL that is not there |
| `InventoryProofs!ClicksAlwaysReachTheirSource` | `ClicksReachTheirSource` | entries are only appended or changed in place under their URL, so a row drawn stays the prefix it was (`ShellInv`); a publication has all entries (`PublicationIsSound`) |
| `InventoryProofs!TextsAreAlwaysTheirs` | `TextsAreTheirs` | on the first page an entry's script id and URL are a script of the page (`FirstPage`), an entry without URL is a script and keeps the id it was inserted with (`OnlyEvalsUnnamed`), and a page's scripts stay what they are, so an answer is right when it comes and stays right (`TextIsTheirs`, `OpensKeepsInv`) |
| `InventoryProofs!ShellImplementsInventory` | – | each step is one of the inventory's or leaves it alone |
| `TcpProofs!TargetIsReleased` | `TargetReleased` | `Releasing`: between setup and the end the transport knows the target, unless the server's end came first |
| `TcpProofs!ListingIsHonest` | – | `Listing`: the handshake counts exactly the messages it has decoded |
| `TcpProofs!TransportImplemented` | `ImplementsTransport` | what the reader took so far is the excerpt of frames from what the server sent so far; both only grow at their ends (`ExcerptGrows`), a step at a time |
| `TcpProofs!MessagesAlwaysSurvive` | `MessagesSurviveTheWire` | `WireInv`: the stream is the messages' encodings one after the other, then the damage (`StreamLaid`), and the reader's buffer is the stream from the end of the last message out to the last byte read (`Follows`). A turn of `decode_messages` on a buffer that begins where a message begins takes it (`TurnTakes`), waits for more of it (`TurnWaits`) or fails at the damage (`TurnEnds`), because its first bytes say its size (`SizeIs`) and its parts are found where they were put (`TakesWhole`); `DecodedRuns` and `DecodedRight` run as many turns as there are messages. For frames, `classify` tells kinds apart by the members that `dispatched` sets |
| `InventoryProofs!ResolverIsSound` | – | `Sound`: files and ids lead to each other, every source a map names has its id, and the index holds the sites of the loaded maps and no others, each once. `alloc_id`'s search ends since only finitely many numbers are taken (`FreshId`); `Revoked` and `Indexed` take away and add one map's sites (`RevokedRight`, `IndexedRight`), `TracedRight` adds them token by token |
| `InventoryProofs!MapsAreAlwaysInverse` | `MapsAreInverse` | from `Sound`: where tokens are strictly sorted, counting those at or before a place finds the token of a place (`LookupExact`), so each site leads back to its line (`LeadsBack`) and no site is listed twice |
| `DebugHostProofs!LinesAlwaysShowTheirColours` | `LinesShowTheirColours` | `ViewInv`: of each entry of the cache, the lines are its text's, the tree is of that text or nothing and was parsed as the entry's language, the spans are the tree's of the window (`CacheIsFresh`), as long as the source has shown no two texts with its fingerprint; what was drawn is what an empty cache would give of the text shown (`DrawnIsFresh`). Each early return of `highlight_window` keeps what it returns, `set_kind` drops the tree it would make false |
| `DebugHostProofs!RowsAreAlwaysProperties` | `RowsAreProperties` | `ValuesInv`: a node with children has as many as its object has internal properties and the `fetched` first others, each showing its property or what its getter answered; it is no accessor, and it says that there is more unless `fetched` is all (`RightAs`). The guard of `apply_properties` accepts only the page that continues what is there (`PageKeeps`); new nodes have new numbers, so no child is in two places and children come after their parents (`ChildrenApart`, `RootsApart`, `GrownIsSound`) |
| `DebugHostProofs!MarksAreAlwaysReal` | `MarksAreReal` | both writers' copies are looked at: the agent's has no marks and no values (`AgentKnowsLittle`), what the host holds is bounded by what the debuggee gave out (`MarksKnown`, `IdsAreNew`) at each point of its action (`Progress`) |
| `DebugHostProofs!AgentAlwaysCatchesUp` | `AgentCatchesUp` | `Leads` looks at the last pause or resume under way, in the agent's queue or the ring; moving a frame from one to the other, folding the first and emitting another keep where it leads |
| `DebugHostProofs!ValuesAlwaysFit` | `ValuesOfThePauseShown` | `ValuesFit` of every copy of the model there is: published, held, private |
| `BreakpointsProofs!RowsAlwaysAgree` | `RowsAgree` | `RowsFollow`: with the events still queued and the call under way taken into account, the lists are what the debuggee holds, but for event breakpoints listed under two names (`OthersAgree`); `Departed` speaks of nodes |
| `BreakpointsProofs!StoreAlwaysAgrees` | `StoreAgrees` | `StoreFollows`: an id given is on one breakpoint or in the answer on its way (`IdsFollow`, `AskingForOne`), none is forgotten, and where it landed is on the breakpoint or in the queue (`PlacesFollow`) |
| `BreakpointsProofs!HitsAlwaysCounted` | `HitsAreCounted` | no two breakpoints bear one id, so that `FindIndex` finds the one whose count is due; a call under way holds the queue back until its id is known; each command leaves the index as `Reindexed` would make it |
| `BreakpointsProofs!ClicksAlwaysReach` | `ClicksReachWhatTheyShow` | `MarksInv`: no two breakpoints share an id or a place asked for, ids are given in order, and what the debuggee holds is shown or lost. Each way to handle an Action keeps it (`RemovedIsListed`, `AddedIsListed`, `UpdatedIsListed`), so the place in an Action leads to one breakpoint (`FindIsUnique`), which is the one it was meant for unless that was moved or is gone (`RequestReaches`). `StackInv`: the published pause is the agent's but for the selection, and each click that waits in it is on one of its frames. That the rows stand for all frames is an induction on the frames painted (`PaintedRight`): rows tile the frames (`Tiled`), and a tiling stands for what it tiles (`TiledStandsFor`) |
| `ReplayProofs!NothingIsEverDropped` | `NothingDropped` | what is delivered, read as a list of places, is an excerpt of the trace up to `front`; a request cuts the part it passes over into what lies before it and what directly follows, and excerpts of adjoining parts add up (`ArrivalsFollow`) |
| `ReplayProofs!RepliesAlwaysCorrelate` | `CorrelatesUnlessSkipped` | from recorder to replay: no two envelopes bear one id and answers come after what they answer (`Recorded`, kept because ids are counted up and the hand-written one is beyond them); so after the flattening no two requests bear one id and each reply follows its request (`Playable`); so the table says at each reply whose it is (`MatchesMapped`, `Own`) |
| `ReplayProofs!GeneratedTypesAlwaysFit` | `GeneratedTypesFit` | `CodegenInv`: each member combines the variants of its name (`Combines`), and members come in the order of their first variants. A variant more changes one member, which then combines one place more (`CombinesMore`, on `PropertiesMerge` and `ValuesMerge`), or adds one at the end (`GroupedRight`). For the boxes, what `reaches` sees is the least set closed under the references (`ReachedIsLeast`): each step that sees anything new follows a reference not followed before (`FollowedMore`), so as many steps as there are references are enough |

Each proof has the same layout: initial states, one lemma per group of actions,
and a temporal conclusion with PTL.

The proofs about lists rest on `ExcerptProofs`. An induction theorem over a
predicate cannot be instantiated by the provers, one over a *set* of numbers can:
`SetInduction` is that, and a lemma by induction defines the set of numbers for
which it holds. `RecursionExists` does the same for a recursive function, whose
definition is a choice: it shows that there is a function to choose. On these
rest the facts that excerpts grow at the end (`ExcerptGrows`), agree where their
lists do (`ExcerptAgrees`), hold the elements chosen (`ExcerptChooses`) and split
where their places do (`ExcerptSplits`); `FlattenPlays` uses the same pattern.

**Only model-checked.** All liveness (`CallResolves`, `NextCommandFreesAll`,
`FollowersReturn`, `PauseReachesUser`, `HandshakeReturns`, `FramesArrive`,
`AnswerArrives`), which is out of the prover's reach, as is `ENABLED`. And two
invariants of the libraries: `TextsAreFaithful` and `RowsReachWhatTheyShow` are
about what `LineIndex`, `Search`, `Lexer`, `Pretty`, `Highlight`, `Variables`,
`SourceTree` and the rows of the breakpoint list (`MarksAreListed`) compute for
every input, several of them by recursion over trees and texts, and induction
over data is what the installed provers cannot do for an operator.
Every other invariant and every action property of a passing run is a theorem.

## 5. Where code and documentation disagree

Four disagreements are runs with the expectation "violation" and entries under
"findings", with the line they contradict.

1. A clean hang-up strands the calls in flight (`session_hangup`). The next
   command that can be encoded frees them all; that part holds
   (`NextCommandFreesAll`).
2. A leader from before a `clear` answers followers from after it
   (`store_stale`).
3. A late edit shows a pause that is over (`debug_pause`). The same race can
   hide a pause for a while; what holds is that each pause is shown at some time.
4. After a navigation a script is shown with the text of the page before
   (`inventory_reload`): `SourceStore::clear` and `SourceInventory::on_navigated`
   say that they are called on navigation
   (`mjx-wk-source/src/store.rs:208`, `mjx-wk-source/src/inventory.rs:192`), and
   only tests call them. What holds is that texts are right until the page
   navigates (`TextsAreTheirs`), and that each script of a later page that the host
   hears of still gets an entry with its id (`ScriptsAreFound`).

Others were met while modelling. The models contain the behaviour; the properties
say what is true around it, and exempt it by name.

*Session and transports.*

* A routed call whose target is gone is refused at the envelope
  (`mjx-wk-session/src/lib.rs:627`), and the refusal is taken for an
  acknowledgement: the call never returns. `CallResolves` exempts dead targets.
* `session_task` owns a `Shared` that holds a `cmd_tx`, so the channel never
  closes and the `None` arm of `cmd_rx.recv()` is dead
  (`mjx-wk-session/src/lib.rs:86`); for the same reason a `Subscription` never
  ends with its session.
* The negative cache is shared by the page and its workers
  (`mjx-wk-session/src/gating.rs:83`): what one lacks is refused for all.
  `OnlyAbsenceIsLearned` is what holds.
* A `DidClose` decoded together with a frame is forgotten, and the branch of
  `recv` that meant to handle it cannot be reached (`mjx-wk-transport/src/tcp.rs:402`
  and `412`). A malformed message drops the good ones decoded in the same batch,
  and `encode_message` accepts bodies `take_one_message` refuses as too large.
* A replayed reply to a skipped request may complete another call
  (`mjx-wk-transport/src/replay.rs:153`), and flattening drops the requests to
  the root but keeps their replies, which may do the same: hence
  `CorrelatesUnlessSkipped`.

*Panels.*

* The host's breakpoint marks disappear with the agent's next event
  (`mjx-wk-session/src/agent.rs:213`), and so do evaluation rows of the console
  and, during a pause, the tree of values.
* Nobody posts the first `ExpandValue` of a pause: the scopes' tree is made only
  by `expand_value`, which is reached only from the rows of a tree. `Variables`
  starts each pause with such a request from somebody.
* Open rows of the variables panel are remembered by node id, and the next
  pause's tree reuses the ids. Unless a frame was drawn in between, a row is
  shown open with nothing below it (`mjx-wk-ui/src/variables.rs:267` speaks of
  dropping them "after a resume/clear"), and a request made in the old pause
  fetches in the new one what nobody opened. A refused request leaves its row
  open and empty too. These rows are `excused`.
* A request for a getter is never carried out
  (`mjx-webkit-debugger/src/session_host.rs:1027`).
* `DebugAgent` resolves every frame of a pause to source 0, whatever the comment
  near line 548 of the host says, so selecting a frame opens the first source
  there is; a DOM breakpoint on a node that went silently,
  or with a reload, stays in the list (`RowsAgree` speaks of live nodes);
  `remove_line_bp` and `update_breakpoint_spec` rebuild the store and lose hit
  counts and the other lists.
* Script ids of a page that is gone stay with their entries. When one is reused,
  `update_script_entry` may take the new bearer out of `by_script_id`
  (`mjx-wk-source/src/inventory.rs:213`), which only the seeding from a recording
  reads (`mjx-webkit-debugger/src/session_host.rs:416`), so `IndexesAgree` asks for
  the way from entry to index on the first page only; and a fetch by a stale id may
  bring another script's text. `clear` would leave the text that is on screen.
* A subscription skips what its ring of 256 events lost, silently
  (`mjx-wk-session/src/lib.rs:326`). The host does not read its own while it awaits
  a fetch or any other call, so scripts parsed in a busy moment are missing from
  the tree until they are parsed again; so are those parsed between
  `Debugger.enable` and its subscription, unless the resource tree has them, and
  then they have no id. `ScriptsAreFound` exempts them by name (`missed`), as
  `AgentCatchesUp` exempts an overrun (`lagged`) and `LogIsHonest` speaks of the
  events that arrive.
* `interval` and `timer`, and the two spellings of `animation-frame`, are two names
  for one breakpoint of the debuggee (`mjx-wk-debug/src/lib.rs:549`): the list may
  show both, and removing one leaves the other, which is set no more. `RowsAgree`
  asks of such names only that what the debuggee holds is listed.
* After a failed fetch the code view says "Loading source text…" for good
  (`mjx-webkit-debugger/src/app.rs:359`); `RequestSource`, which could ask again,
  is posted by no widget.
* List and gutter name a breakpoint by the place it was bound at
  (`mjx-wk-ui/src/breakpoint_list.rs:370`), the host looks for the place asked
  for. "Remove" on one the debuggee moved sets a second one there, and so does a
  removal that waits while the agent publishes over the breakpoint:
  `ClicksReachWhatTheyShow` speaks of breakpoints that are still there, unmoved. What
  a failed removal or the agent's publication leaves in the debuggee no row shows
  (`lost`).
* The frame the user selected is the first one again after the agent's next event,
  whatever it is, since the selection is made in the published model only. A click
  on a frame that is handled in the next pause selects that one's frame of the same
  number, if it has one. The application blackboxes nothing (`from_paused` is called
  with `|_| false`), so only tests collapse frames.
* "Disable" posts `ToggleBreakpoint`, which removes, while `docs/tasks/T-207` wants
  a disabled breakpoint to stay in the list. Conditions and actions do not reach
  the debuggee, as the comment on `update_breakpoint_spec` says.
* The source tree remembers what is open by the labels of collapsed chains. A
  second origin, or a sibling inside a chain, changes the key and closes the
  folder, against `mjx-wk-ui/src/source_tree.rs:26` and `88`.

*Texts.*

* The pretty printer drops the blank that separates two tokens in some places
  (`1 .x`, `.a .b` in CSS; around JavaScript's binary operators it is kept), drops
  line ends to which semicolon insertion would react, and lexes a regular
  expression behind `return` or `)` as a division, with blanks around its slashes
  (`return / re /`), while `docs/tasks/T-007` says that the "output is
  semantically identical to input — nothing reordered, nothing dropped". What
  holds is that each token is there once, in order, and maps back
  (`TextsAreFaithful`). A backslash before a letter of several bytes skips too
  far within a template or regular expression.
* A lone `\r` ends a line for the index, not for the highlighter, nor for the
  scan of a search when `\n` follows later; the window of a long line may leave
  part of the match out.
* The highlighter knows a text by its length and 4096 bytes from its head, middle
  and tail (`mjx-wk-source/src/highlight.rs:97`): a change of the same length
  elsewhere shows the old colours, which `LinesShowTheirColours` exempts.
  `set_kind` and `invalidate` have no caller in the application, so the language
  is always guessed from the text.
* Overlapping captures that are not nested are painted twice; tree-sitter's are
  nested.
* `merge_properties` and `merge_types` keep the inline enumeration of the first
  variant only.
* An object that has only internal properties loses its triangle once it is
  fetched, and `RemoteObject.size` as a known total may hide rows that exist.

## 6. What is not modelled

* Decoding a reply into its Rust type, GVariant's own encoding, log and error
  texts: no shared state depends on them.
* `TcpTransport::send` and the parser of traces, which change no state; frames
  cut off by a dying server, which are bytes nobody returns.
* `Subscription` fan-out to more than one subscriber: each has its own ring, and so
  has each module that reads one. `SourceInventory::on_navigated`, which only tests
  call; `SourceStore::clear`, which only tests call too, is in `SourceStore`, whose
  generations exist for it, and not in `Shell`.
  `detach` of an agent and the abort in its `Drop`.
* Ignore counts of breakpoints, which nothing sets, the matching of symbolic
  names, `evaluate_and_record`, which only tests call, the wording of a pause's
  reason, the rows of console and search, which are their model's in its order, the
  shell's status line and the wiring of a recording to the window.
* The index of texts behind the search panel and its URLs: nothing in the
  application fills it. Regular expressions, parsing by tree-sitter and lookup in
  a source map belong to other crates; a parse is what it was given.
* The CDP dialect, unimplemented at this commit; the type seams of later phases;
  meters; window set-up and drawing. `DebugHost` takes any action in any order,
  which covers what the widgets can post.
* The types under `mjx-wk-protocol/src/generated`, about 11 thousand of the 33
  thousand lines: they are data without behaviour, and `Codegen` models the part
  of their generator where a mistake would compile. With drawing, command lines,
  benchmarks, the recorder's fixed scenarios and the verification tooling they
  are most of what no definition stands for.

## 7. What is left

The order in which the models came was that of what they protect: session and
store, host and transports, inventory, breakpoints and console, then the
libraries. What would come next:

1. Handles, agents and subscriptions dropped in any order, and what keeps the
   session's task alive.
2. The index of texts of the search panel, once something fills it: `set_url` and
   `remove` drop a URL that another source has taken over.
3. Proofs about the libraries that are left, of which the recursive operators would
   have to be written as recursive functions first: the rows of `Variables` and
   `SourceTree` over the trees already proved sound.
