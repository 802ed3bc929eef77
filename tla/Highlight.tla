----------------------------- MODULE Highlight -----------------------------
(***************************************************************************)
(* From the captures of a syntax tree to the coloured runs of a line: the  *)
(* highlighter cuts captures at line ends and fits each into the runs      *)
(* already there; the code view paints the runs and what lies between.     *)
(*                                                                         *)
(* A capture is a byte range of the file; the tree's nodes lie side by     *)
(* side or within each other.  Its kind is its place in the order of       *)
(* captures.  Parsing belongs to tree-sitter.                              *)
(***************************************************************************)
EXTENDS LineIndex, TLC

\* line_starts: only a feed starts a line.
HighlightStarts(text) ==
    SelectSeq([i \in 1..(Len(text) + 1) |-> Bytes(Before(text, i))],
              LAMBDA o : \/ o = 0
                         \/ \E i \in 2..Len(text) : Bytes(Before(text, i)) = o /\ text[i - 1] = LF)

-----------------------------------------------------------------------------
(* project_to_lines; a line is [from |-> first byte, to |-> end of content] *)

\* Faulty: the run below goes on.
BadPushSpan(spans, s) ==
    IF spans # <<>> /\ spans[Len(spans)] = s THEN spans ELSE Append(spans, s)

\* push_span: the same range is recoloured, a run that is covered is replaced,
\* and one that goes on under the new one is cut short.
PushSpan(spans, s) ==
    LET last == spans[Len(spans)]
        front == SubSeq(spans, 1, Len(spans) - 1)
        cut == [last EXCEPT !.to = s.from]
    IN  IF spans = <<>> THEN <<s>>
        ELSE IF s.from <= last.from /\ s.to >= last.to /\ last.from < s.to
        THEN Append(front, s)
        ELSE IF last.from < s.from /\ last.to > s.from
        THEN Append(Append(front, cut), s)
        ELSE Append(spans, s)

Greater(a, b) == IF a > b THEN a ELSE b
Smaller(a, b) == IF a < b THEN a ELSE b

\* What a window shows of the captures, in document order.
Clipped(captures, window) ==
    LET seen == SelectSeq(captures, LAMBDA c : c.to > window.from /\ c.from < window.to)
        cut(c) == [from |-> Greater(c.from, window.from), to |-> Smaller(c.to, window.to)]
    IN  SortSeq([i \in DOMAIN seen |-> cut(seen[i])],
                LAMBDA c, d : c.from < d.from \/ (c.from = d.from /\ c.to < d.to))

\* The runs of one line, relative to it.
Project(captures, line) ==
    FoldLeft(LAMBDA spans, c :
                LET s == [from |-> Greater(c.from, line.from) - line.from,
                          to |-> Smaller(c.to, line.to) - line.from]
                IN  IF Greater(c.from, line.from) < Smaller(c.to, line.to)
                    THEN PushSpan(spans, s) ELSE spans,
             <<>>, captures)

-----------------------------------------------------------------------------
(* layout_line of the code view *)

Run(from, to) == [i \in 1..(IF to > from THEN to - from ELSE 0) |-> from + i - 1]

\* The bytes that are painted, in order: the gap before each run, the run, and
\* what is left.
Painted(spans, len) ==
    LET p == FoldLeft(LAMBDA a, s : [out |-> a.out \o Run(a.cursor, s.from) \o Run(s.from, s.to),
                                     cursor |-> Greater(a.cursor, s.to)],
                      [out |-> <<>>, cursor |-> 0], spans)
    IN  p.out \o Run(p.cursor, len)

-----------------------------------------------------------------------------
(* What they promise *)

\* The captures of a tree in the order a query yields them: nodes lie side by
\* side or within each other, the outer one first.
IsTree(captures) ==
    /\ \A i, j \in DOMAIN captures :
        LET c == captures[i] d == captures[j]
        IN  \/ c.to <= d.from \/ d.to <= c.from
            \/ c.from <= d.from /\ d.to <= c.to
            \/ d.from <= c.from /\ c.to <= d.to
    /\ \A i \in 1..(Len(captures) - 1) : captures[i].from <= captures[i + 1].from

PaintsLine(captures, window, line) ==
    Painted(Project(Clipped(captures, window), line), line.to - line.from)
        = Run(0, line.to - line.from)

\* A line is painted once, every byte of it, if the window starts with it or no
\* capture reaches it from above.
FreshLinePainted(captures, window, line) ==
    \/ window.from < line.from /\ \E i \in DOMAIN captures :
            captures[i].from < line.from /\ captures[i].to > line.from
    \/ PaintsLine(captures, window, line)
=============================================================================
