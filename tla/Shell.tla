-------------------------------- MODULE Shell --------------------------------
(***************************************************************************)
(* The application shell: the window's frames, which show the snapshot the *)
(* host published last and post what the user clicked, and the host that   *)
(* opens sources for it, fetching their texts from a debuggee that loads   *)
(* other pages meanwhile.  The host does one thing at a time: while it     *)
(* waits for a text it reads no event, and its ring may overflow.          *)
(*                                                                         *)
(* A text is the script it is of.  The store's budget, which no text here  *)
(* exceeds, and its single flight, which one caller does not need, are     *)
(* SourceStore's.                                                          *)
(***************************************************************************)
EXTENDS Inventory

CONSTANTS
    MaxClicks,  \* bound on the user's clicks
    None        \* nothing selected, no text

ASSUME ShellConstants == MaxClicks \in Nat /\ None \notin Nat

VARIABLES
    shown,    \* the ShellSnapshot: the tree's rows, what is selected, whose text is shown
    pending,  \* pending_actions of the frame before
    inbox,    \* the channel to the host
    clicks,   \* how often the user clicked
    opening,  \* the source whose text the host waits for
    texts     \* the store

shellVars == <<shown, pending, inbox, clicks, opening, texts>>

\* The sources the tree shows, by id.
Rows(es) == [i \in DOMAIN es |-> es[i].url]

ShellInit ==
    /\ Init
    /\ shown = [rows |-> <<>>, selected |-> None, text |-> None]
    /\ pending = <<>> /\ inbox = <<>> /\ clicks = 0
    /\ opening = None
    /\ texts = <<>>

-----------------------------------------------------------------------------
(* The window *)

OpenSource(id) == [kind |-> "source", id |-> id, url |-> shown.rows[id]]

\* The agent resolves every frame of a pause to the first source there is.
SelectFrame == [kind |-> "frame", id |-> 1, url |-> NoUrl]

\* A frame: the clicks of the frame before go out, the snapshot is loaded and
\* drawn, and the user clicks something of it, or nothing.
Frame ==
    /\ inbox' = inbox \o pending
    /\ \/ /\ pending # <<>>
          /\ pending' = <<>> /\ UNCHANGED clicks
       \/ /\ clicks < MaxClicks
          /\ \E click \in {OpenSource(id) : id \in DOMAIN shown.rows} \cup {SelectFrame} :
                pending' = <<click>>
          /\ clicks' = clicks + 1
    /\ UNCHANGED <<vars, shown, opening, texts>>

-----------------------------------------------------------------------------
(* The host: handle_action and resolve_text *)

\* The publication at the end of handle_action.
Publishes(id, text) == shown' = [rows |-> Rows(entries), selected |-> id, text |-> text]

\* What the debuggee is asked for: a source the inventory knows, unless the
\* store has its text, or it is a script of the resource tree, without an id.
Fetchable ==
    {id \in Ids : id \notin DOMAIN texts /\ (entries[id].kind = "script" => entries[id].script # NoScript)}

\* What is shown without asking: the store's text, or else what a file may have
\* of a recorded page.
Known(id) ==
    IF id \in DOMAIN texts THEN {id} ELSE IF id \in Ids THEN {None, id} ELSE {None}

\* An action is taken, and done or begun.  No frame can be selected while the
\* debuggee runs.
HostTakes ==
    /\ host = "subscribed" /\ opening = None
    /\ inbox # <<>>
    /\ inbox' = Tail(inbox)
    /\ LET click == Head(inbox) IN
        \/ click.kind = "frame" /\ UNCHANGED <<shown, opening>>
        \/ /\ click.id \notin Fetchable
           /\ \E text \in Known(click.id) : Publishes(click.id, text)
           /\ UNCHANGED opening
        \/ /\ click.id \in Fetchable
           /\ opening' = click.id
           /\ UNCHANGED shown
    /\ UNCHANGED <<vars, pending, clicks, texts>>

\* What the debuggee knows by a script id, or by a URL.
Asked(e) ==
    IF e.kind = "script" THEN {e.script} \cap DOMAIN loaded
    ELSE {s \in DOMAIN loaded : loaded[s] = e.url}

\* Faulty: the answer is filed under the source that is selected.
BadHostOpens ==
    /\ opening # None
    /\ \E s \in Asked(entries[opening]) :
         LET id == IF shown.selected = None THEN opening ELSE shown.selected IN
         /\ texts' = Put(texts, id, [page |-> page, script |-> s])
         /\ Publishes(id, id)
    /\ opening' = None
    /\ UNCHANGED <<vars, pending, inbox, clicks>>

\* The answer: the text of what bears that id now, which is kept; or an error.
HostOpens ==
    /\ opening # None
    /\ \/ \E s \in Asked(entries[opening]) :
            /\ texts' = Put(texts, opening, [page |-> page, script |-> s])
            /\ Publishes(opening, opening)
       \/ /\ UNCHANGED texts
          /\ \E text \in Known(opening) : Publishes(opening, text)
    /\ opening' = None
    /\ UNCHANGED <<vars, pending, inbox, clicks>>

\* Faulty: the tree is published before the event is folded.
BadPublishesTree == shown' = [shown EXCEPT !.rows = Rows(entries)]

\* The publication after an event.
PublishesTree == shown' = [shown EXCEPT !.rows = Rows(entries')]

ShellSeeds == HostSeeds /\ PublishesTree /\ UNCHANGED <<pending, inbox, clicks, opening, texts>>

\* The tree is published anew after each script.
ShellFolds ==
    /\ opening = None
    /\ HostFolds
    /\ PublishesTree
    /\ UNCHANGED <<pending, inbox, clicks, opening, texts>>

ShellNext ==
    \/ /\ \/ DebuggeeParses \/ DebuggeeSaysMore \/ DebuggeeNavigates
          \/ HostEnables \/ HostAnswered \/ HostSubscribes
       /\ UNCHANGED shellVars
    \/ ShellSeeds \/ ShellFolds
    \/ Frame \/ HostTakes \/ HostOpens

ShellSpec == ShellInit /\ [][ShellNext]_<<vars, shellVars>>

-----------------------------------------------------------------------------
\* A row of the tree is the source it says, and so is a click on its way,
\* whatever was folded since it was drawn; the tree shows every source the
\* host knows; and the text shown is of the source selected.
\* [drain_with_events, OpenSource, dispatch_pending_actions]
ClicksReachTheirSource ==
    /\ \A i \in DOMAIN shown.rows : i \in Ids /\ entries[i].url = shown.rows[i]
    /\ \A click \in ToSet(pending \o inbox) :
         click.kind = "source" => click.id \in Ids /\ entries[click.id].url = click.url
    /\ host \in {"seeded", "subscribed"} => Len(shown.rows) = Len(entries)
    /\ shown.text \in {None, shown.selected}

\* Until the page navigates, which nobody reports, a text the store keeps is that
\* of its source, however late it was answered and whatever else was parsed,
\* folded and clicked meanwhile.  [resolve_text, SourceStore::text]
TextsAreTheirs ==
    page = 0 => \A id \in DOMAIN texts :
        IF entries[id].url = NoUrl THEN texts[id].script = entries[id].script
        ELSE texts[id].script \in DOMAIN loaded /\ loaded[texts[id].script] = entries[id].url

\* What a comment says of the store: with every event read, the text kept for a
\* script of the page that is loaded was fetched from this page, under this
\* script's URL.  [SourceStore::clear, "Called on navigation: script ids are
\* reissued, so stale text would be served under a new script's id"]
TextsAreOfThisPage ==
    (host = "subscribed" /\ ring = <<>>) =>
        \A id \in DOMAIN texts :
            LET s == entries[id].script IN
            (s \in DOMAIN loaded \ missed /\ loaded[s] = entries[id].url) =>
                texts[id].page = page /\ loaded[texts[id].script] = loaded[s]
=============================================================================
