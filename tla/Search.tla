------------------------------- MODULE Search -------------------------------
(***************************************************************************)
(* Search in source texts: the scan of a cached text line by line, the     *)
(* window a long line is shown through, the merge of what the debuggee     *)
(* found, and the index of texts and URLs behind it.                       *)
(*                                                                         *)
(* The needle is a sequence of characters other than terminators; matching *)
(* belongs to the regex crate, whose find_iter yields the leftmost matches *)
(* that do not overlap.                                                    *)
(***************************************************************************)
EXTENDS LineIndex

CONSTANTS
    Ellipsis,     \* the bytes of the ellipsis
    MaxDisplay    \* MAX_LINE_DISPLAY

-----------------------------------------------------------------------------
(* search_text *)

Position(text, ch) ==
    IF Contains(text, ch) THEN CHOOSE i \in DOMAIN text : text[i] = ch /\ ~Contains(Before(text, i), ch)
    ELSE 0

\* split_first_line: up to the first feed and, only when there is none, up to
\* the first return.  `rest` is empty at the end of the text.
SplitFirstLine(text) ==
    LET i == IF Contains(text, LF) THEN Position(text, LF) ELSE Position(text, CR)
        end == IF i > 1 /\ text[i] = LF /\ text[i - 1] = CR THEN i - 2 ELSE i - 1
    IN  IF i = 0 THEN [line |-> text, rest |-> <<>>]
        ELSE [line |-> SubSeq(text, 1, end), rest |-> SubSeq(text, i + 1, Len(text))]

\* The lines the scan visits, in order.
Lines[text \in Seq(DOMAIN Width)] ==
    LET s == SplitFirstLine(text)
    IN  IF s.rest = <<>> THEN <<s.line>> ELSE <<s.line>> \o Lines[s.rest]

Matches(line, needle, i) ==
    i + Len(needle) - 1 <= Len(line) /\ SubSeq(line, i, i + Len(needle) - 1) = needle

\* Where the matches begin, External: Regex::find_iter.
FindIter(line, needle) ==
    FoldLeft(LAMBDA found, i :
                IF Matches(line, needle, i) /\ (found = <<>> \/ found[Len(found)] + Len(needle) <= i)
                THEN Append(found, i) ELSE found,
             <<>>, [i \in 1..(Len(line) - Len(needle) + 1) |-> i])

\* Faulty: the column of a hit is its byte.
BadHitsOn(line, number, needle) ==
    LET found == FindIter(line, needle) IN
    [k \in DOMAIN found |-> [line |-> number, column |-> Bytes(Before(line, found[k]))]]

\* The hits on one line: a line number and a UTF-16 column each.
HitsOn(line, number, needle) ==
    LET found == FindIter(line, needle) IN
    [k \in DOMAIN found |-> [line |-> number, column |-> Units(Before(line, found[k]))]]

SearchText(text, needle) ==
    LET lines == Lines[text]
    IN  FlattenSeq([n \in DOMAIN lines |-> HitsOn(lines[n], n - 1, needle)])

-----------------------------------------------------------------------------
(* truncate_line *)

IsBoundary(line, b) == \E i \in 1..(Len(line) + 1) : Bytes(Before(line, i)) = b
Floor(line, b) ==
    IF b >= Bytes(line) THEN Bytes(line)
    ELSE CHOOSE f \in 0..b : IsBoundary(line, f) /\ \A g \in (f + 1)..b : ~IsBoundary(line, g)
Ceil(line, b) ==
    IF b >= Bytes(line) THEN Bytes(line)
    ELSE CHOOSE c \in b..Bytes(line) : IsBoundary(line, c) /\ \A g \in b..(c - 1) : ~IsBoundary(line, g)
Minus(a, b) == IF a > b THEN a - b ELSE 0
Least(a, b) == IF a < b THEN a ELSE b

Span(from, to) == [from |-> from, to |-> to]

\* Room about the match; moved when it ends too early for the match; never
\* beginning after it.
About(line, from) == Span(from, Ceil(line, Least(from + MaxDisplay, Bytes(line))))
Late(line, to) == Span(Floor(line, Minus(to, MaxDisplay)), to)
Moved(line, w, end) == IF w.to < end THEN Late(line, Ceil(line, end)) ELSE w
Anchored(line, w, start) == IF w.from > start THEN [w EXCEPT !.from = Floor(line, start)] ELSE w

\* The window of a line that is too long to show, about the match from byte
\* `start` to byte `end`.
Window(line, start, end) ==
    IF end - start >= MaxDisplay
    THEN Span(start, Floor(line, start + MaxDisplay))
    ELSE Anchored(line,
            Moved(line,
                About(line, Floor(line, Minus(start, (MaxDisplay - (end - start)) \div 2))),
                end),
            start)

\* What is cut out, and the match's place in what is shown.
Cut(w, start, end) ==
    LET adjust == IF w.from > 0 THEN Ellipsis ELSE 0
    IN  [from |-> w.from, to |-> w.to,
         first |-> start - w.from + adjust, last |-> end - w.from + adjust]
Truncated(line, start, end) ==
    IF Bytes(line) <= MaxDisplay
    THEN [from |-> 0, to |-> Bytes(line), first |-> start, last |-> end]
    ELSE Cut(Window(line, start, end), start, end)

-----------------------------------------------------------------------------
(* merge_remote *)

\* What is shown stays where it is; a hit that is shown is not shown again.
MergeRemote(local, remote) ==
    FoldLeft(LAMBDA out, hit : IF Contains(out, hit) THEN out ELSE Append(out, hit), local, remote)

-----------------------------------------------------------------------------
(* What search promises *)

\* The scan and the index cut lines alike, unless a return stands alone before
\* a feed.
LoneReturn(text) ==
    \E i \in DOMAIN text : /\ text[i] = CR /\ EndsLine(text, i)
                           /\ \E j \in (i + 1)..Len(text) : text[j] = LF

\* A hit leads the editor to the needle, and there is one for every match of
\* every line.
HitsLeadHome(text, needle) ==
    LET ix == Build(text)
        hits == SearchText(text, needle)
        at(k) == OffsetOf(ix, text, hits[k].line, hits[k].column)
    IN  ~LoneReturn(text) =>
          /\ \A k \in DOMAIN hits : \E i \in DOMAIN text :
                at(k) = Bytes(Before(text, i)) /\ Matches(text, needle, i)
          /\ \A i \in DOMAIN text : Matches(text, needle, i) =>
                \E k \in DOMAIN hits :
                    /\ at(k) <= Bytes(Before(text, i))
                    /\ Bytes(Before(text, i)) < at(k) + Bytes(needle)
          /\ \A k \in 1..(Len(hits) - 1) : at(k) + Bytes(needle) <= at(k + 1)

\* The window shows whole characters and, if it fits, the whole match, at the
\* place it says.
ShowsAt(line, needle, start, t) ==
    /\ IsBoundary(line, t.from) /\ IsBoundary(line, t.to)
    /\ t.from <= start
    /\ t.first = start - t.from + (IF t.from > 0 THEN Ellipsis ELSE 0)
    /\ Bytes(needle) < MaxDisplay => start + Bytes(needle) <= t.to
    /\ t.to - t.from <= MaxDisplay + 3
ShowsMatch(line, needle) ==
    \A i \in ToSet(FindIter(line, needle)) :
        LET start == Bytes(Before(line, i))
        IN  ShowsAt(line, needle, start, Truncated(line, start, start + Bytes(needle)))
=============================================================================
