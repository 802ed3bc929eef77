------------------------------ MODULE MCLibrary ------------------------------
(***************************************************************************)
(* The data structures and algorithms of mjx-wk-source, mjx-wk-debug, the  *)
(* wire, the widgets of mjx-wk-ui and the protocol generator, over every   *)
(* input up to a bound.  A behaviour picks one of them and grows an input  *)
(* for it step by step: a text or a minified source by a character, a      *)
(* program by a token, a stream by a message, a frame by a member or an    *)
(* envelope, a line's captures by one, a view of code by a frame, a        *)
(* resolver by a map it loads, a tree of values by an operation, its panel *)
(* by a click or an answer, a tree of sources by a source or a click, a    *)
(* protocol by a variant of a member or by a field, the user's marks       *)
(* or a call stack by an event, a click or an answer.                      *)
(***************************************************************************)
EXTENDS Naturals, Sequences, FiniteSets, SequencesExt, TLC, Wire, SourceMaps, HighlightCache,
        Values, Codegen, Clicks

CONSTANTS
    Kinds,                          \* what is looked at
    MaxText, MaxSource, MaxTokens, MaxCaptures,     \* bounds on the inputs
    MaxOps, MaxClicks, MaxTree, MaxMarks, MaxStack

CONSTANTS x, e, g, lf, cr           \* characters: one, two and four bytes, terminators
CONSTANTS scope, list

Width == (x :> [bytes |-> 1, units |-> 1]) @@ (e :> [bytes |-> 2, units |-> 1])
           @@ (g :> [bytes |-> 4, units |-> 2])
           @@ (lf :> [bytes |-> 1, units |-> 1]) @@ (cr :> [bytes |-> 1, units |-> 1])
Characters == DOMAIN Width
Needles == {<<x>>, <<x, x>>, <<g>>}

S == INSTANCE Search WITH LF <- lf, CR <- cr, Ellipsis <- 3, MaxDisplay <- 6
P == INSTANCE Pretty WITH LF <- lf, CR <- cr
H == INSTANCE Highlight WITH LF <- lf, CR <- cr

\* A scope with a plain row, a list and a getter of one; the list's three rows
\* are more than a page of two, and it reports its size.
Plain == [object |-> NoObject, accessor |-> FALSE]
Lists == [object |-> list, accessor |-> FALSE]
Getter == [object |-> NoObject, accessor |-> TRUE]
MCObjects == {scope, list}
MCProps == (scope :> <<Plain, Lists, Getter>>) @@ (list :> <<Plain, Plain>>)
MCInternals == (scope :> <<>>) @@ (list :> <<Plain>>)
MCReported == (scope :> NoTotal) @@ (list :> 2)
MCRootRows == {[object |-> scope, accessor |-> FALSE]}
MCWatchRows == {<<>>, <<Lists>>, <<Plain, Lists>>}
V == INSTANCE Variables WITH Scopes <- <<scope, list>>

\* Tokens: what they are and how long.
Token(k, t, n) == [kind |-> k, text |-> t, len |-> n, start |-> 0]
Tokens ==
    {Token("ident", "ident", 2), Token("keyword", "keyword", 1), Token("keyword", "else", 1),
     Token("regex", "regex", 1), Token("comment", "comment", 1)}
    \cup {Token("punct", t, 1) : t \in {"{", "}", "(", ")", ";", ",", ":", "="}}

\* Sources: a letter, a keyword's and exponent's, a longer letter, and what
\* opens, closes, escapes or separates tokens.
L == INSTANCE Lexer WITH
        Digits <- {"1"}, Letters <- {"a", "e", "$"}, Spaces <- {" ", lf},
        Hex <- {"1", "a", "e"}, Exponents <- {"e"}, Lead <- "lead", Trail <- "trail",
        LineFeed <- lf, Return <- cr, Backtick <- "tick", Keywords <- {<<"e">>},
        Punctuators <- << <<"*", "*">>, <<"-", "-">>, <<".", ".", ".">> >>
Pieces ==
    {<<b>> : b \in {"a", "e", "1", ".", "-", "/", "\\", "\"", "tick", "{", "}", " ", lf}}
    \cup {<<"lead", "trail">>, <<"$", "{">>, <<"/", "*">>, <<"*", "/">>}

\* A token as the emitters see it; they pass over the punctuators of several
\* bytes that are in the pieces.
Seen(k) ==
    [kind |-> k.kind, len |-> Len(k.text), start |-> k.start - 1,
     text |-> IF k.kind = "punct" /\ Len(k.text) = 1 THEN k.text[1] ELSE k.kind]

\* The printed text.
PrintedGap(gap, len) ==
    CASE gap = "none" -> <<>>
      [] gap = "space" -> <<" ">>
      [] gap = "line" -> <<lf>> \o [j \in 1..(len - 1) |-> " "]
Printed(tokens, b) ==
    FoldLeft(LAMBDA text, i : text \o PrintedGap(b.gaps[i], b.at[i] - Len(text)) \o tokens[i].text,
             <<>>, [i \in DOMAIN tokens |-> i]) \o <<lf>>

\* The whitespace between tokens i - 1 and i in a source.
Between(source, tokens, i) ==
    ToSet(SubSeq(source, tokens[i - 1].start + Len(tokens[i - 1].text), tokens[i].start - 1))

\* No whitespace is lost, no line end behind what is taken for a regex, and
\* the last token is closed.
SpaceKept(source, tokens, b) ==
    /\ \A k \in ToSet(tokens) : k.start + Len(k.text) <= Len(source)
    /\ \A i \in 2..Len(tokens) : LET gap == Between(source, tokens, i) IN
        /\ (gap # {} /\ tokens[i - 1].kind # "comment") => b.gaps[i] # "none"
        /\ (tokens[i - 1].kind = "regex" /\ lf \in gap) => b.gaps[i] = "line"

\* A source with a plain letter for each longer one.
Narrow(source) ==
    LET heads == SelectSeq(source, LAMBDA c : c # "trail")
    IN  [i \in DOMAIN heads |-> IF heads[i] = "lead" THEN "a" ELSE heads[i]]
NarrowTokens(tokens) == [i \in DOMAIN tokens |-> <<tokens[i].kind, Narrow(tokens[i].text)>>]

\* Two lines of three bytes, and what ends the first.
LineAt == <<[from |-> 0, to |-> 3], [from |-> 4, to |-> 7]>>
Windows == {[from |-> 0, to |-> 7], [from |-> 0, to |-> 4], [from |-> 4, to |-> 7]}
LinesIn(w) == {l \in ToSet(LineAt) : w.from <= l.from /\ l.to <= w.to}

\* A short text, a longer one that looks like a program, and one of another
\* length that the fingerprint takes for the first.
Text(n, lines, print, sniffed) == [name |-> n, lines |-> lines, print |-> print, sniffed |-> sniffed]
MCViewedTexts == {Text("a", 3, 1, "script"), Text("b", 8, 2, "script"), Text("c", 4, 1, "plain")}
MCScreens == {LineRange(f, f + 2) : f \in {0, 1, 5}}

\* Two bundles' maps.  The second was built again from other sources: a line
\* is inlined twice, a token has no source.
At(l, c, s, sl, sc) == [line |-> l, column |-> c, src |-> s, srcLine |-> sl, srcColumn |-> sc]
MCMaps ==
    {[sources |-> <<"a.ts">>, tokens |-> <<At(0, 0, 1, 0, 0), At(0, 4, 1, 1, 2)>>],
     [sources |-> <<"b.ts", "a.ts">>,
      tokens |-> <<At(0, 0, 2, 1, 2), At(0, 3, 0, 0, 0), At(0, 5, 2, 1, 4), At(1, 0, 1, 0, 0)>>],
     [sources |-> <<>>, tokens |-> <<>>]}
MCGenerated == {0, 1}
MCAuthored == {"a.ts", "b.ts"}

\* Messages of every kind: contents that end in a zero, none at all, one target
\* and none, a frame that just fits; and one that is too long, a body shorter
\* than a name, a length the wrong way round, the other byte order, a name
\* without end, an unknown one, and parameters nobody expects.
MCTraffic ==
    {F!Event("SetupInspectorClient", <<>>, <<7>>), F!Event("DidSetupInspectorClient", <<>>, <<>>),
     F!Event("DidSetupInspectorClient", <<>>, <<7, 0>>), F!Event("Setup", <<1, 0>>, <<>>),
     F!Event("SendMessageToBackend", <<1, 2>>, <<7>>),
     F!Event("SendMessageToFrontend", <<1, 2>>, <<7, 1, 7, 1>>), F!Event("FrontendDidClose", <<1, 2>>, <<>>),
     F!Event("SetTargetList", <<1>>, <<2, 7, 0, 7, 0>>), F!Event("SetTargetList", <<1>>, <<>>),
     F!Event("DidClose", <<>>, <<>>)}
MCDamages ==
    {F!EncodeMessage(F!Event("SendMessageToFrontend", <<1, 2>>, <<7, 7, 7, 7, 7>>)),
     <<0, 0, 0, 1, 1, 0>>, <<2, 0, 0, 0, 1, 108, 0>>, <<0, 0, 0, 2, 0, 108, 0>>,
     <<0, 0, 0, 2, 1, 108, 108>>, <<0, 0, 0, 2, 1, 99, 0>>, <<0, 0, 0, 3, 1, 108, 0, 7>>}

\* JSON objects of any members, and envelopes of them.
MCTargets == {"page", "worker"}
MCMethods == { <<"Debugger", "paused">>, D!DispatchFromTarget[1], D!SendToTarget[1] }
MCParameters == {D!NoParams, D!Params(<<>>, <<>>, <<1>>), D!Params(<<"page">>, <<NoMembers>>, <<>>)}

\* Variants of two members.
Property(n, o) == [name |-> n, optional |-> o]
MCVariants ==
    [name : {"m", "n"}, values : {NoValues, <<1>>, <<2, 1>>},
     properties : {<<>>, <<Property("p", FALSE)>>, <<Property("p", TRUE)>>,
                   <<Property("q", FALSE), Property("p", FALSE)>>,
                   <<Property("p", FALSE), Property("q", TRUE)>>}]

\* Directories of two origins.
T == INSTANCE SourceTree
Dirs == {<<1>>, <<2>>, <<1, 1>>, <<1, 2>>, <<1, 1, 1>>, <<1, 1, 2>>}

\* A source of two lines and one of one.
MCMarkLines == {[source |-> 1, line |-> 1], [source |-> 1, line |-> 2], [source |-> 2, line |-> 1]}

\* Pauses whose hidden frames are first, last, in a row and alone, with a chain
\* of async traces or none; one is in native code only.
MCPauses ==
    {[frames |-> f, async |-> a] :
        f \in {<<>>, <<"own">>, <<"lib", "own">>, <<"own", "lib", "lib", "own", "lib">>},
        a \in {<<>>, << <<"own">>, <<"lib", "own">> >>}}

VARIABLES kind, item, steps
vars == <<kind, item, steps, wireVars, mapsVars, viewVars, valuesVars, codegenVars, clicksVars>>

Init ==
    /\ kind \in Kinds
    /\ item = CASE kind = "panel" -> V!PausedAgain(V!NewPanel)
                [] kind = "tree" -> [sources |-> {}, widget |-> T!NewWidget, opened |-> {}]
                [] OTHER -> <<>>
    /\ steps = 0
    /\ WireInit
    /\ MapsInit
    /\ ViewInit
    /\ ValuesInit
    /\ CodegenInit
    /\ ClicksInit

Takes(k, max, next) ==
    /\ kind = k
    /\ steps < max
    /\ steps' = steps + 1
    /\ item' = next
    /\ UNCHANGED <<kind, wireVars, mapsVars, viewVars, valuesVars, codegenVars, clicksVars>>

GrowText == \E ch \in Characters : Takes("text", MaxText, Append(item, ch))

GrowSource == \E ch \in Pieces : Takes("source", MaxSource, item \o ch)

\* Words need a gap between them; elsewhere only the first token may have one
\* after it.
GapsBefore(t) ==
    IF item = <<>> THEN {0}
    ELSE IF Last(item).kind # "punct" /\ t.kind # "punct" THEN {1}
    ELSE IF Len(item) = 1 THEN {0, 1} ELSE {0}
GrowProgram ==
    \E t \in Tokens, gap \in {0, 1} :
        /\ kind = "tokens"
        /\ gap \in GapsBefore(t)
        /\ Takes("tokens", MaxTokens, Append(item,
             [t EXCEPT !.start = IF item = <<>> THEN 0 ELSE Last(item).start + Last(item).len + gap]))

GrowCaptures ==
    \E from \in 0..6, to \in 1..7 :
        /\ kind = "captures"
        /\ from < to
        /\ item # <<>> => Last(item).from <= from
        /\ H!IsTree(Append(item, [from |-> from, to |-> to]))
        /\ Takes("captures", MaxCaptures, Append(item, [from |-> from, to |-> to]))

\* Messages are written, damaged and read.
Stream ==
    /\ kind = "messages"
    /\ StreamNext
    /\ UNCHANGED <<kind, item, steps, mapsVars, viewVars, valuesVars, codegenVars, clicksVars>>

\* A frame gets a member or an envelope.
GrowFrame ==
    /\ kind = "frames"
    /\ steps < MaxOps
    /\ steps' = steps + 1
    /\ FrameNext
    /\ UNCHANGED <<kind, item, mapsVars, viewVars, valuesVars, codegenVars, clicksVars>>

LoadMap ==
    /\ kind = "maps"
    /\ MapsNext
    /\ UNCHANGED <<kind, item, steps, wireVars, viewVars, valuesVars, codegenVars, clicksVars>>

\* A frame of the code view, of either of two sources, scrolled; a source's
\* language is learned, or its cache dropped.
DrawCode ==
    /\ kind = "view"
    /\ ViewNext
    /\ UNCHANGED <<kind, item, steps, wireVars, mapsVars, valuesVars, codegenVars, clicksVars>>

\* A tree of values gets an answer, a root, its watches or a size.
OperateOnValues ==
    /\ kind = "values"
    /\ ValuesNext
    /\ UNCHANGED <<kind, item, steps, wireVars, mapsVars, viewVars, codegenVars, clicksVars>>

\* The variables panel: a frame without a click, a click on a row that is
\* shown, an answer of the host's.
DrawPanel == Takes("panel", MaxClicks, V!Retained(item))

\* One watch expression has no value yet.
PanelRows == V!RebuildRows(item.tree, item.tree.watches + 1, item.expanded)

ClickRow ==
    /\ kind = "panel"
    /\ \E r \in ToSet(PanelRows) :
        \/ /\ r.what = "value" /\ r.disclose # "none"
           /\ Takes("panel", MaxClicks, V!Toggled(item, r.id))
        \/ r.what = "more" /\ Takes("panel", MaxClicks, V!MoreAsked(item, r))
        \/ /\ r.what = "value" /\ item.tree.nodes[r.id].row.accessor
           /\ Takes("panel", MaxClicks, V!GetterAsked(item, r.id))

HostAnswers ==
    /\ kind = "panel"
    /\ item.asked # <<>>
    /\ \E granted \in BOOLEAN : Takes("panel", MaxClicks, V!Answered(item, granted))

WatchesEvaluated ==
    /\ kind = "panel"
    /\ item.tree # V!EmptyTree /\ item.tree.watches = 0
    /\ Takes("panel", MaxClicks, [item EXCEPT !.tree = V!SetWatchRoots(@, <<Lists>>)])

PanelPausesAgain == Takes("panel", MaxClicks, V!PausedAgain(item))

\* The breakpoint list and the gutter, or the call stack: a click, an edit, an
\* event, an answer of the host's.
UsePanels ==
    /\ \/ kind = "marks" /\ steps < MaxMarks
       \/ kind = "stack" /\ steps < MaxStack
    /\ steps' = steps + 1
    /\ IF kind = "marks" THEN MarksNext /\ UNCHANGED stackVars
       ELSE StackNext /\ UNCHANGED marksVars
    /\ UNCHANGED <<kind, item, wireVars, mapsVars, viewVars, valuesVars, codegenVars>>

\* A variant of a member is declared, or a reference between types.
Declare ==
    /\ \/ kind = "members" /\ DeclareVariant
       \/ kind = "fields" /\ DeclareField
    /\ UNCHANGED <<kind, item, steps, wireVars, mapsVars, viewVars, valuesVars, clicksVars>>

LoadSource ==
    /\ kind = "tree"
    /\ \E d \in Dirs :
        LET id == Cardinality(item.sources)
        IN  Takes("tree", MaxTree, [item EXCEPT !.sources = @ \cup {T!Source(id, d, id % 2)}])

\* The directories whose row has a key.
ShownAs(sources, key) ==
    {d \in T!Directories(sources) : T!HasRow(sources, d) /\ T!KeyOf(sources, d) = key}

\* The widget as the next frame draws it; a tree without sources is not drawn.
Drawn == T!RebuildRows(item.widget, T!BuildTree(item.sources))

\* A frame in which the user clicks a folder: `opened` is what he then takes
\* for open.
ClickFolder ==
    /\ kind = "tree"
    /\ item.sources # {}
    /\ \E r \in {r \in ToSet(Drawn.rows) : "key" \in DOMAIN r} :
        Takes("tree", MaxTree,
            [item EXCEPT !.widget = T!Toggled(Drawn, r.key),
                         !.opened = IF r.open THEN {o \in @ : o.key # r.key}
                                    ELSE @ \cup {[key |-> r.key, dir |-> d] :
                                                    d \in ShownAs(item.sources, r.key)}])

Next ==
    \/ GrowText \/ GrowSource \/ GrowProgram \/ GrowCaptures
    \/ Stream \/ GrowFrame \/ LoadMap \/ DrawCode \/ OperateOnValues
    \/ DrawPanel \/ ClickRow \/ HostAnswers \/ WatchesEvaluated \/ PanelPausesAgain
    \/ LoadSource \/ ClickFolder
    \/ UsePanels
    \/ Declare

Spec == Init /\ [][Next]_vars

-----------------------------------------------------------------------------
LinesExact(text, index) ==
    /\ S!Indexed(text)
    /\ P!PrettyLineStarts(text) = index.starts
    /\ \A line \in 0..(S!LineCount(index) - 1), column \in 0..Len(text) :
          S!OffsetOf(index, text, line, column) \in {S!NoOffset, P!LocationToOffset(text, line, column)}
    /\ (\A i \in DOMAIN text : text[i] = cr => ~S!EndsLine(text, i)) =>
          H!HighlightStarts(text) = index.starts

HitsExact(text, needle, hits) ==
    /\ S!HitsLeadHome(text, needle)
    /\ S!MergeRemote(hits, Reverse(hits)) = hits
    /\ {lf, cr} \cap ToSet(text) = {} => S!ShowsMatch(text, needle)

\* Where a letter's bytes may matter: behind a backslash, and as the flag of a
\* regex.
LettersMatter(source, tokens) ==
    \/ \E i \in 2..Len(source) : source[i] = "lead" /\ source[i - 1] = "\\"
    \/ \E k \in ToSet(tokens) :
          k.kind = "regex" /\ L!At(source, k.start + Len(k.text)) = {"lead"}

PrintsSame(source, tokens) ==
    /\ L!Covers(source, tokens)
    /\ LET emitted == [i \in DOMAIN tokens |-> Seen(tokens[i])]
       IN  \A b \in {P!EmitJs(emitted), P!EmitCss(emitted)} : SpaceKept(source, tokens, b) =>
               L!Shape(L!Tokenize(Printed(tokens, b))) = L!Shape(tokens)
    /\ LettersMatter(source, tokens) \/
          NarrowTokens(L!Tokenize(Narrow(source))) = NarrowTokens(tokens)

\* Every character of a text is on its line, and its UTF-16 column leads back
\* to its first byte; the printer's own scan finds the same lines and bytes,
\* and the highlighter's too where no return ends a line by itself.  A search
\* hit's line and column are the needle's in the index of the same text, none is
\* missed, a long line is shown through a window that has the match where it
\* says, and hits the debuggee reports as well are not shown again.  Whatever
\* window is shown, a line that it starts with or that no capture reaches from
\* above is painted once.
\*
\* A printed program's tokens and the original's map to each other byte for
\* byte, in order, for both languages.  Every byte of a source but whitespace is
\* in one token, none is cut through a letter; and the printed source, lexed
\* again, has the same tokens, unless whitespace between two of them was
\* dropped: what is inserted never joins, splits or reinterprets any.  How many
\* bytes a letter takes makes no other difference.  [LineIndex, "off by one here
\* shows up as a phantom line in every file", search_text, truncate_line,
\* merge_remote, spans_for, push_span, layout_line, tokenize, emit_pretty,
\* to_original, to_pretty, "nothing reordered, nothing dropped"]
TextsAreFaithful ==
    /\ kind = "text" =>
          /\ LinesExact(item, S!Build(item))
          /\ \A n \in Needles : HitsExact(item, n, S!SearchText(item, n))
    /\ kind = "captures" => \A w \in Windows : \A l \in LinesIn(w) : H!FreshLinePainted(item, w, l)
    /\ kind = "tokens" =>
          \A b \in {P!EmitJs(item), P!EmitCss(item)} :
              P!RoundTrips(item, b) /\ P!KeepsOrder(item, b)
    /\ kind = "source" => PrintsSame(Append(item, lf), L!Tokenize(Append(item, lf)))

PanelIsRight(panel, rows) ==
    /\ V!ChildrenArePrefix(panel.tree) /\ V!IsForest(panel.tree) /\ V!NothingHidden(panel.tree, PageSize)
    /\ V!RowsAreRight(panel.tree, rows, panel.expanded)
    /\ V!MoreIsAccepted(panel.tree, rows)
    /\ V!OpenRowsAreFetched(panel)

TreeIsRight ==
    /\ T!RowsAreRight(item.sources, Drawn)
    /\ \A o \in item.opened : T!KeyOf(item.sources, o.dir) = o.key => o.key \in Drawn.expanded

\* The source tree's rows are the open folders and every source in them, each
\* once and in its place, whatever was loaded and clicked before; and a folder
\* the user opened is open as long as its row is labelled as it was.  The
\* breakpoint list's rows are the breakpoints, each below its source.  The
\* variables panel shows what is open of the values, in order; however often the
\* user clicks before he is answered, "show more" leads on, and when all is
\* answered no row he opened in this pause is empty that is not refused.
\* [build_tree, collect_rows, "must not collapse the folder the user just opened",
\* collect_value_rows, expand_value, BreakpointList::rebuild_rows]
RowsReachWhatTheyShow ==
    /\ kind = "panel" => PanelIsRight(item, PanelRows)
    /\ (kind = "tree" /\ item.sources # {}) => TreeIsRight
    /\ kind = "marks" => MarksAreListed(marks)
=============================================================================
