----------------------------- MODULE LineIndex -----------------------------
(***************************************************************************)
(* The line index of a source text: where each line starts and ends, which *)
(* line a byte falls on, and which byte a protocol column is.              *)
(*                                                                         *)
(* A text is a sequence of characters; a character is told apart by how    *)
(* many bytes and UTF-16 units it takes and by whether it ends a line.     *)
(* Offsets are bytes, columns are UTF-16 units; both count from 0, lines   *)
(* too, as on the wire.                                                    *)
(***************************************************************************)
EXTENDS Integers, Sequences, FiniteSets, SequencesExt

CONSTANTS
    LF, CR,   \* line feed and carriage return
    Width     \* [characters -> [bytes, units]]

Bytes(text) == FoldLeft(LAMBDA n, ch : n + Width[ch].bytes, 0, text)
Units(text) == FoldLeft(LAMBDA n, ch : n + Width[ch].units, 0, text)
Before(text, i) == SubSeq(text, 1, i - 1)

-----------------------------------------------------------------------------
(* LineIndex::build *)

EmptyIndex == [starts |-> <<>>, ends |-> <<>>]

Closed(ix, from, at) == [starts |-> Append(ix.starts, from), ends |-> Append(ix.ends, at)]

\* Faulty: a feed after a return ends a line of its own.
BadStep(s, ch) ==
    IF ch \in {LF, CR}
    THEN [ix |-> Closed(s.ix, s.from, s.at), from |-> s.at + 1, at |-> s.at + 1, cr |-> FALSE]
    ELSE [s EXCEPT !.at = @ + Width[ch].bytes, !.cr = FALSE]

\* One character of the scan; `cr` remembers that the last one was a return
\* whose line is closed already.
Step(s, ch) ==
    IF ch = LF /\ s.cr
    THEN [s EXCEPT !.from = s.at + 1, !.at = s.at + 1, !.cr = FALSE]
    ELSE IF ch \in {LF, CR}
    THEN [ix |-> Closed(s.ix, s.from, s.at), from |-> s.at + 1, at |-> s.at + 1, cr |-> ch = CR]
    ELSE [s EXCEPT !.at = @ + Width[ch].bytes, !.cr = FALSE]

\* The last line need not be terminated; after a terminator there is no other.
Build(text) ==
    LET s == FoldLeft(Step, [ix |-> EmptyIndex, from |-> 0, at |-> 0, cr |-> FALSE], text)
    IN  IF s.from < s.at \/ s.ix.starts = <<>> THEN Closed(s.ix, s.from, s.at) ELSE s.ix

LineCount(ix) == Len(ix.starts)

\* line_of_offset: the last line that starts at or before the byte.
LineOfOffset(ix, offset) ==
    LET at == {i \in DOMAIN ix.starts : ix.starts[i] <= offset}
    IN  IF at = {} THEN 0 ELSE Cardinality(at) - 1

\* The characters of a line, without its terminator.
LineText(ix, text, line) ==
    SelectSeq([i \in DOMAIN text |-> <<i, text[i]>>],
        LAMBDA p : /\ ix.starts[line + 1] <= Bytes(Before(text, p[1]))
                   /\ Bytes(Before(text, p[1])) < ix.ends[line + 1])

NoOffset == -1

\* offset_of: the character at that column or the end of the line; none inside
\* a surrogate pair or past the end.
OffsetOf(ix, text, line, column) ==
    LET chars == LineText(ix, text, line)
        upto(n) == Units([i \in 1..n |-> chars[i][2]])
        hit == {n \in 0..Len(chars) : upto(n) = column}
    IN  IF line >= LineCount(ix) \/ hit = {} THEN NoOffset
        ELSE LET n == CHOOSE m \in hit : TRUE IN
             IF n = Len(chars) THEN ix.ends[line + 1] ELSE Bytes(Before(text, chars[n + 1][1]))

-----------------------------------------------------------------------------
(* What the index promises *)

\* Whether the character ends a line, seen from the text alone.
EndsLine(text, i) ==
    text[i] = LF \/ (text[i] = CR /\ (i = Len(text) \/ text[i + 1] # LF))
InTerminator(text, i) == text[i] \in {LF, CR}
LinesBefore(text, i) == Cardinality({j \in 1..(i - 1) : EndsLine(text, j)})
LineStart(text, i) ==
    LET ends == {j \in 1..(i - 1) : EndsLine(text, j)}
    IN  IF ends = {} THEN 1 ELSE 1 + CHOOSE j \in ends : \A k \in ends : k <= j

\* Every character is on the line its text says, at a column that leads back
\* to its first byte and to nothing in the middle of it; there is no line
\* without a character or a terminator, save in an empty text.
Indexed(text) ==
    LET ix == Build(text) IN
    /\ LineCount(ix) =
         (IF text = <<>> THEN 1
          ELSE LinesBefore(text, Len(text) + 1) + (IF EndsLine(text, Len(text)) THEN 0 ELSE 1))
    /\ \A i \in DOMAIN text :
         LET line == LinesBefore(text, i)
             offset == Bytes(Before(text, i))
             column == Units(SubSeq(text, LineStart(text, i), i - 1))
         IN  /\ LineOfOffset(ix, offset) = line
             /\ ~InTerminator(text, i) =>
                  /\ OffsetOf(ix, text, line, column) = offset
                  /\ \A u \in 1..(Width[text[i]].units - 1) :
                        OffsetOf(ix, text, line, column + u) = NoOffset
    /\ \A line \in 0..(LineCount(ix) - 1) :
         /\ OffsetOf(ix, text, line, Units(text) + 1) = NoOffset
         /\ \A i \in DOMAIN LineText(ix, text, line) :
               ~InTerminator(text, LineText(ix, text, line)[i][1])
=============================================================================
