------------------------------ MODULE Inventory ------------------------------
(***************************************************************************)
(* The source inventory of mjx-wk-source and the host that feeds it: the   *)
(* resource tree it asks for while attaching, then the scriptParsed events *)
(* of its late subscription to a ring that overwrites what is not read in  *)
(* time, from a debuggee that numbers its scripts afresh on every page.    *)
(* on_navigated, which the application never calls, is no part of it.      *)
(***************************************************************************)
EXTENDS Naturals, Sequences, FiniteSets, SequencesExt, Functions

CONSTANTS
    Urls,        \* non-empty effective URLs
    NoUrl,       \* of an eval or injected script
    NoScript,    \* an entry without script id
    MaxScript,   \* bound on the scripts of one page
    MaxPage,     \* bound on navigations
    Capacity     \* EVENT_BROADCAST_CAPACITY

ASSUME InventoryConstants ==
    /\ NoUrl \notin Urls
    /\ MaxScript \in Nat /\ MaxPage \in Nat
    /\ NoScript \notin 1..MaxScript
    /\ Capacity \in Nat \ {0}

VARIABLES
    \* the debuggee
    page,      \* how often it navigated
    loaded,    \* the scripts of its page, by script id: their URLs
    enabled,   \* Debugger.enable was received
    \* the host
    host,      \* how far run_attach is
    tree,      \* the URLs of getResourceTree's reply
    ring,      \* the broadcast channel, as its subscription sees it
    missed,    \* history: the scripts of this page it never hears of
    \* the inventory
    entries,   \* the sources in discovery order; an id is a position
    byUrl,     \* by_url
    byScript   \* by_script_id

debuggeeVars == <<page, loaded, enabled>>
hostVars == <<host, tree, ring, missed>>
inventoryVars == <<entries, byUrl, byScript>>
vars == <<debuggeeVars, hostVars, inventoryVars>>

ScriptIds == 1..MaxScript
Kinds == {"resource", "script"}
Entry == [url : Urls \cup {NoUrl}, script : ScriptIds \cup {NoScript}, kind : Kinds]
Ids == 1..Len(entries)

\* A scriptParsed; its page is history, the host cannot tell.
Events == [page : Nat, script : ScriptIds, url : Urls \cup {NoUrl}]
Parsed(s, u) == [page |-> page, script |-> s, url |-> u]

HostPcs == {"new", "enabled", "answered", "seeded", "subscribed"}

Init ==
    /\ page = 0
    /\ loaded = <<>>
    /\ enabled = FALSE
    /\ host = "new"
    /\ tree = {}
    /\ ring = <<>>
    /\ missed = {}
    /\ entries = <<>>
    /\ byUrl = <<>>
    /\ byScript = <<>>

-----------------------------------------------------------------------------
(* The inventory *)

\* HashMap::insert and HashMap::remove.
Put(f, k, v) == [x \in DOMAIN f \cup {k} |-> IF x = k THEN v ELSE f[x]]
Drop(f, k) == [x \in DOMAIN f \ {k} |-> f[x]]

\* insert_entry: evals get no key, so that they do not collapse into one.
Inserts(e) ==
    LET id == Len(entries) + 1 IN
    /\ entries' = Append(entries, e)
    /\ byUrl' = IF e.url = NoUrl THEN byUrl ELSE Put(byUrl, e.url, id)
    /\ byScript' = IF e.script = NoScript THEN byScript ELSE Put(byScript, e.script, id)

\* Faulty: the id the script had before stays indexed.
BadUpdates(id, s) ==
    /\ entries' = [entries EXCEPT ![id] = [url |-> @.url, script |-> s, kind |-> "script"]]
    /\ byScript' = Put(byScript, s, id)
    /\ UNCHANGED byUrl

\* update_script_entry: the index forgets the id the entry had before, whoever
\* it leads to by now.
Updates(id, s) ==
    /\ entries' = [entries EXCEPT ![id] = [url |-> @.url, script |-> s, kind |-> "script"]]
    /\ byScript' = Put(Drop(byScript, entries[id].script), s, id)
    /\ UNCHANGED byUrl

\* Faulty: evals are looked up by their URL like every script.
BadScriptParsed(s, u) ==
    IF u \in {entries[i].url : i \in Ids}
    THEN Updates(CHOOSE i \in Ids : entries[i].url = u, s)
    ELSE Inserts([url |-> u, script |-> s, kind |-> "script"])

\* on_script_parsed.
ScriptParsed(s, u) ==
    IF u \in DOMAIN byUrl
    THEN Updates(byUrl[u], s)
    ELSE Inserts([url |-> u, script |-> s, kind |-> "script"])

\* upsert_resource for each URL of the reply, in some order, with the kind the
\* tree gives it; a URL that is known keeps its entry, and a script stays one.
ResourceTree(urls) ==
    LET fresh == urls \ DOMAIN byUrl IN
    \E kinds \in [urls -> Kinds], new \in Bijection(1..Cardinality(fresh), fresh) :
        /\ entries' =
             [i \in Ids |-> IF entries[i].url \in urls /\ entries[i].kind # "script"
                            THEN [entries[i] EXCEPT !.kind = kinds[entries[i].url]]
                            ELSE entries[i]]
             \o [i \in DOMAIN new |-> [url |-> new[i], script |-> NoScript, kind |-> kinds[new[i]]]]
        /\ byUrl' = [u \in DOMAIN byUrl \cup urls |->
             IF u \in DOMAIN byUrl THEN byUrl[u]
             ELSE Len(entries) + CHOOSE i \in DOMAIN new : new[i] = u]
        /\ UNCHANGED byScript

-----------------------------------------------------------------------------
(* The debuggee, external *)

\* The oldest event held is overwritten, and the subscription passes over the gap
\* without a word.
Overwritten == missed' = missed \cup {s \in DOMAIN loaded : Head(ring) = Parsed(s, loaded[s])}

Hears(e) ==
    IF host = "subscribed" /\ Len(ring) = Capacity
    THEN ring' = Append(Tail(ring), e) /\ Overwritten
    ELSE /\ ring' = IF host = "subscribed" THEN Append(ring, e) ELSE ring
         /\ UNCHANGED missed

\* Ids are handed out in order of parsing, from one again on every page; two
\* frames may load one URL.
DebuggeeParses ==
    /\ Len(loaded) < MaxScript
    /\ \E u \in Urls \cup {NoUrl} :
        /\ loaded' = Append(loaded, u)
        /\ IF enabled THEN Hears(Parsed(Len(loaded) + 1, u)) ELSE UNCHANGED <<ring, missed>>
    /\ UNCHANGED <<page, enabled, host, tree, inventoryVars>>

\* Everything else it announces goes through the same ring: with enough of that
\* any event may be overwritten. Of the others the model keeps only this.
DebuggeeSaysMore ==
    /\ ring # <<>>
    /\ ring' = Tail(ring) /\ Overwritten
    /\ UNCHANGED <<debuggeeVars, host, tree, inventoryVars>>

\* Nobody tells the inventory.
DebuggeeNavigates ==
    /\ page < MaxPage
    /\ page' = page + 1
    /\ loaded' = <<>>
    /\ missed' = {}
    /\ UNCHANGED <<enabled, host, tree, ring, inventoryVars>>

-----------------------------------------------------------------------------
(* run_attach and drain_with_events *)

\* The DebugAgent's attach: the debuggee announces what it has loaded, to the
\* agent and to no host.
HostEnables ==
    /\ host = "new"
    /\ enabled' = TRUE
    /\ host' = "enabled"
    /\ UNCHANGED <<page, loaded, tree, ring, missed, inventoryVars>>

\* The debuggee answers Page.getResourceTree, or refuses it.
HostAnswered ==
    /\ host = "enabled"
    /\ tree' \in {{}, ToSet(loaded) \ {NoUrl}}
    /\ host' = "answered"
    /\ UNCHANGED <<debuggeeVars, ring, missed, inventoryVars>>

HostSeeds ==
    /\ host = "answered"
    /\ ResourceTree(tree)
    /\ host' = "seeded"
    /\ UNCHANGED <<debuggeeVars, tree, ring, missed>>

\* The tree is published first; what is parsed meanwhile is never heard of.
HostSubscribes ==
    /\ host = "seeded"
    /\ host' = "subscribed"
    /\ missed' = DOMAIN loaded
    /\ UNCHANGED <<debuggeeVars, tree, ring, inventoryVars>>

HostFolds ==
    /\ ring # <<>>
    /\ ring' = Tail(ring)
    /\ ScriptParsed(Head(ring).script, Head(ring).url)
    /\ UNCHANGED <<debuggeeVars, host, tree, missed>>

Next ==
    \/ DebuggeeParses \/ DebuggeeSaysMore \/ DebuggeeNavigates
    \/ HostEnables \/ HostAnswered \/ HostSeeds \/ HostSubscribes \/ HostFolds

Spec == Init /\ [][Next]_vars

-----------------------------------------------------------------------------
\* The state has its declared shape.  [SourceInventory, HostState]
TypeOK ==
    /\ page \in 0..MaxPage
    /\ loaded \in Seq(Urls \cup {NoUrl}) /\ Len(loaded) <= MaxScript
    /\ enabled \in BOOLEAN
    /\ host \in HostPcs
    /\ tree \subseteq Urls
    /\ ring \in Seq(Events) /\ Len(ring) <= Capacity
    /\ missed \subseteq DOMAIN loaded
    /\ entries \in Seq(Entry)
    /\ DOMAIN byUrl \subseteq Urls /\ \A u \in DOMAIN byUrl : byUrl[u] \in Ids
    /\ DOMAIN byScript \subseteq ScriptIds /\ \A s \in DOMAIN byScript : byScript[s] \in Ids

\* The indexes agree with the entries: each URL is listed once and found, each
\* script id leads to an entry that bears it, and -- until the page navigates,
\* which nobody reports -- an entry's script id leads back to it, so that no two
\* entries claim one script.  [insert_entry, update_script_entry]
IndexesAgree ==
    /\ \A i \in Ids : entries[i].url # NoUrl =>
         entries[i].url \in DOMAIN byUrl /\ byUrl[entries[i].url] = i
    /\ \A u \in DOMAIN byUrl : entries[byUrl[u]].url = u
    /\ \A s \in DOMAIN byScript : entries[byScript[s]].script = s
    /\ page = 0 => \A i \in Ids : entries[i].script # NoScript =>
         entries[i].script \in DOMAIN byScript /\ byScript[entries[i].script] = i

\* Another frame loaded the URL again, and the host heard of it.
Superseded(s) ==
    /\ loaded[s] # NoUrl
    /\ \E t \in DOMAIN loaded \ missed : t > s /\ loaded[t] = loaded[s]

\* Whatever was lost, reissued or loaded twice, once the host has read its ring
\* each script of the page that is loaded which it could hear of has an entry,
\* under its own URL and with the id the debuggee knows it by; and on the first
\* page no entry bears an id that is not its own. A later page's inventory may:
\* nobody takes the ids of the page before away.  [on_script_parsed,
\* Subscription::next]
ScriptsAreFound ==
    (host = "subscribed" /\ ring = <<>>) =>
        /\ \A s \in DOMAIN loaded \ missed : ~Superseded(s) =>
             \E i \in Ids : entries[i].script = s /\ entries[i].url = loaded[s]
        /\ page = 0 => \A i \in Ids : entries[i].script # NoScript =>
             /\ entries[i].script <= Len(loaded)
             /\ loaded[entries[i].script] = entries[i].url

\* A source keeps its id for good, through the resource tree, later events and
\* reloads: the user's tabs and breakpoints refer to it.  [on_script_parsed,
\* "stable across reloads for a given URL"]
IdsAreStable ==
    [][\A u \in DOMAIN byUrl : u \in DOMAIN byUrl' /\ byUrl'[u] = byUrl[u]]_vars
=============================================================================
