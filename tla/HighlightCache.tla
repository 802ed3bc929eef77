---------------------------- MODULE HighlightCache ----------------------------
(***************************************************************************)
(* The highlighter's cache and the frames of the code view that ask it:    *)
(* per source the text last seen, known by a fingerprint of samples of it, *)
(* its lines, the tree of the window that was parsed, and the spans of the *)
(* window that was asked for.  A frame asks for what the frame before it   *)
(* showed, which may have been another text.                               *)
(*                                                                         *)
(* A tree is the text, language and lines it was parsed from; a line's     *)
(* spans are the tree, the text that cut them to lines, and the line.      *)
(***************************************************************************)
EXTENDS Naturals, Sequences

CONSTANTS
    ViewMargin,    \* HIGHLIGHT_MARGIN_LINES
    ParseMargin,   \* PARSE_MARGIN_LINES
    ViewedIds,     \* sources
    ViewedTexts,   \* what they may contain
    Languages,     \* what they may turn out to be written in
    Screens,       \* ranges of lines that may be shown
    MaxRepaints    \* bound on the frames

\* A range of lines, from the first to before the last; a margin around it.
LineRange(from, to) == [from |-> from, to |-> to]
NoLines == LineRange(1, 0)

ASSUME ViewConstants ==
    /\ ViewMargin \in Nat /\ ParseMargin \in Nat /\ MaxRepaints \in Nat
    /\ \A text \in ViewedTexts : text.lines \in Nat
    /\ \A s \in Screens : s \in [from : Nat, to : Nat] /\ s.from <= s.to

VARIABLES
    highlighter,
    visible,     \* the lines on the screen
    drawn,       \* what the last frame was highlighted as, if that still stands
    seen,        \* history: the sources' texts that were shown
    repaints     \* how many frames there were

viewVars == <<highlighter, visible, drawn, seen, repaints>>

Smallest(a, b) == IF a < b THEN a ELSE b
Largest(a, b) == IF a > b THEN a ELSE b
Less(n, margin) == IF n > margin THEN n - margin ELSE 0

NoTree == [text |-> "none", kind |-> "none", included |-> NoLines]
NoEntries == [id \in {} |-> id]
NewHighlighter == [sources |-> NoEntries, kinds |-> NoEntries]

\* What the highlighter keeps of a text: its lines, but no tree and no spans.
IndexedAs(text, kind) ==
    [text |-> text, kind |-> kind, tree |-> NoTree, window |-> NoLines, spans |-> <<>>]

Cached(sources, id, text) == id \in DOMAIN sources /\ sources[id].text.print = text.print

\* Set or replaced; removed.
Kept(f, id, value) == [k \in DOMAIN f \cup {id} |-> IF k = id THEN value ELSE f[k]]
Dropped(f, id) == [k \in DOMAIN f \ {id} |-> f[k]]

\* Faulty: the tree of the other language is used again.
BadSetKind(h, id, kind) ==
    [sources |-> [s \in DOMAIN h.sources |->
        IF s = id THEN [h.sources[s] EXCEPT !.kind = kind, !.window = NoLines, !.spans = <<>>] ELSE h.sources[s]],
     kinds |-> Kept(h.kinds, id, kind)]

\* set_kind.
SetKind(h, id, kind) ==
    [sources |-> [s \in DOMAIN h.sources |->
        IF s = id /\ h.sources[s].kind # kind
        THEN [h.sources[s] EXCEPT !.kind = kind, !.tree = NoTree, !.window = NoLines, !.spans = <<>>]
        ELSE h.sources[s]],
     kinds |-> Kept(h.kinds, id, kind)]

\* invalidate.
Invalidate(h, id) == [sources |-> Dropped(h.sources, id), kinds |-> Dropped(h.kinds, id)]

\* spans: the kind that was set, or else what the text looks like.
KindOf(h, id, text) == IF id \in DOMAIN h.kinds THEN h.kinds[id] ELSE text.sniffed

\* The source with its window's spans: parsed anew, unless the tree is of the
\* same lines.
Coloured(source, text, shown, asked, count) ==
    LET included == LineRange(Less(shown.from, ParseMargin), Smallest(shown.to + ParseMargin, count))
        tree == IF source.tree.included = included THEN source.tree
                ELSE [text |-> text, kind |-> source.kind, included |-> included]
        spans(i) == [tree |-> tree, cut |-> source.text, line |-> shown.from + i - 1]
    IN  [source EXCEPT !.tree = tree, !.window = asked, !.spans = [i \in 1..(shown.to - shown.from) |-> spans(i)]]

\* No language, no colours.
Uncoloured(source, shown, asked) ==
    [source EXCEPT !.window = asked,
                   !.spans = [i \in 1..(shown.to - shown.from) |->
                                [tree |-> NoTree, cut |-> source.text, line |-> shown.from + i - 1]]]

\* highlight_window: the sources afterwards, and the spans line by line.
HighlightWindow(sources, id, text, kind, asked) ==
    LET known == Cached(sources, id, text)
        same == known /\ sources[id].kind = kind
        count == IF known THEN sources[id].text.lines ELSE text.lines
        from == Smallest(asked.from, count)
        shown == LineRange(from, Largest(from, Smallest(asked.to, count)))
        source == IF kind = "plain" THEN Uncoloured(IndexedAs(text, kind), shown, asked)
                  ELSE Coloured(IF same THEN sources[id] ELSE IndexedAs(text, kind), text, shown, asked, count)
    IN  IF same /\ sources[id].window = asked THEN [sources |-> sources, spans |-> sources[id].spans]
        ELSE IF shown.from = shown.to THEN [sources |-> sources, spans |-> <<>>]
        ELSE [sources |-> Kept(sources, id, source), spans |-> source.spans]

-----------------------------------------------------------------------------
(* The code view *)

\* CodeView::highlight_window.
Window(lines, count) ==
    IF count = 0 THEN LineRange(0, 0)
    ELSE LineRange(Less(lines.from, ViewMargin), Smallest(lines.to + ViewMargin, count))

ViewInit ==
    /\ highlighter = NewHighlighter
    /\ visible = LineRange(0, 0)
    /\ drawn = [stands |-> FALSE]
    /\ seen = {}
    /\ repaints = 0

Repaints == repaints < MaxRepaints /\ repaints' = repaints + 1

\* A frame: the window of the frame before is highlighted, then lines are shown.
DrawsFrame(id, text, screen) ==
    LET asked == Window(visible, text.lines)
        kind == KindOf(highlighter, id, text)
        got == HighlightWindow(highlighter.sources, id, text, kind, asked)
    IN  /\ Repaints
        /\ screen.to <= text.lines
        /\ highlighter' = [highlighter EXCEPT !.sources = got.sources]
        /\ visible' = screen
        /\ seen' = seen \cup {<<id, text>>}
        /\ drawn' = [stands |-> TRUE, id |-> id, text |-> text, kind |-> kind,
                      asked |-> asked, spans |-> got.spans]

\* A source's language is learned, or its cache dropped.
LearnsKind(id, kind) ==
    /\ Repaints
    /\ highlighter' = SetKind(highlighter, id, kind)
    /\ drawn' = [stands |-> FALSE]
    /\ UNCHANGED <<visible, seen>>

DropsSource(id) ==
    /\ Repaints
    /\ highlighter' = Invalidate(highlighter, id)
    /\ drawn' = [stands |-> FALSE]
    /\ UNCHANGED <<visible, seen>>

ViewNext ==
    \E id \in ViewedIds :
        \/ \E text \in ViewedTexts, screen \in Screens : DrawsFrame(id, text, screen)
        \/ \E kind \in Languages : LearnsKind(id, kind)
        \/ DropsSource(id)

ViewSpec == ViewInit /\ [][ViewNext]_viewVars

\* The spans a line is painted with, in a sequence of at most one.
PaintedWith(line) ==
    LET i == line + 1 - drawn.asked.from
    IN  IF line >= drawn.asked.from /\ i \in DOMAIN drawn.spans THEN <<drawn.spans[i]>> ELSE <<>>

-----------------------------------------------------------------------------
(* What they promise *)

\* Of the texts shown in the source none has the same fingerprint as another.
ToldApart(texts, id, print) ==
    \A a, b \in texts : (a[1] = id /\ b[1] = id /\ a[2].print = print /\ b[2].print = print) => a = b

\* What is cached is what would be computed for this text and language.
CachedAsFresh ==
    drawn.spans = HighlightWindow(NoEntries, drawn.id, drawn.text, drawn.kind, drawn.asked).spans

\* A line that is shown has its own colours of this text, or none yet, and has
\* some if it is in the window that was asked for.
LinesHaveTheirColours ==
    \A line \in visible.from..(visible.to - 1) :
        /\ \A i \in DOMAIN PaintedWith(line) :
              PaintedWith(line)[i].line = line /\ PaintedWith(line)[i].cut = drawn.text
        /\ (drawn.asked.from <= line /\ line < drawn.asked.to) => PaintedWith(line) # <<>>

\* What the highlighter has cached is what it would compute for the text shown
\* now, whichever texts, languages and windows came before, as long as its
\* fingerprint tells the texts apart; and each line shown is painted with its own
\* colours.  [highlight_window, set_kind, "parse once, re-highlight only what
\* changed"]
LinesShowTheirColours ==
    (drawn.stands /\ ToldApart(seen, drawn.id, drawn.text.print)) => CachedAsFresh /\ LinesHaveTheirColours
=============================================================================
