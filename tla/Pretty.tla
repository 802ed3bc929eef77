------------------------------- MODULE Pretty -------------------------------
(***************************************************************************)
(* The pretty printer: the content builder that lays tokens out, the two   *)
(* offset tables it builds as it goes, the emitters for JavaScript and CSS *)
(* that drive it, and the maps from one text's positions to the other's.   *)
(*                                                                         *)
(* A token is its offset in the original text, its length in bytes, its    *)
(* kind and, for punctuation and keywords that matter, its text: what      *)
(* Lexer finds, told apart no further than the emitters do.                *)
(***************************************************************************)
EXTENDS LineIndex

Words == {"ident", "number", "string", "template", "regex", "keyword"}
Closers == {"else", "catch", "finally", "while"}

-----------------------------------------------------------------------------
(* ContentBuilder: `len` is the length of the content; `at` and `gaps` are   *)
(* history: where each token was put, and what the whitespace before it is   *)

NewBuilder ==
    [len |-> 0, original |-> <<0>>, pretty |-> <<0>>, nesting |-> 0,
     line |-> FALSE, soft |-> FALSE, at |-> <<>>, gaps |-> <<>>]

SoftSpace(b) == [b EXCEPT !.soft = TRUE]

\* Faulty: a space will do for a line.
BadNewLine(b) == SoftSpace(b)

NewLine(b) == IF b.len = 0 /\ ~b.line /\ ~b.soft THEN b ELSE [b EXCEPT !.line = TRUE]

Nest(b) == [b EXCEPT !.nesting = @ + 1]
Unnest(b) == [b EXCEPT !.nesting = IF @ > 0 THEN @ - 1 ELSE 0]

\* flush_formatting: a pending line outdoes a pending space.
Flush(b) ==
    [b EXCEPT !.len = @ + (IF b.line THEN 1 + 2 * b.nesting ELSE IF b.soft THEN 1 ELSE 0),
              !.line = FALSE, !.soft = FALSE]

\* Faulty: maps a token only where the original skipped something.
BadMapping(b, offset) ==
    IF offset <= Last(b.original) THEN b
    ELSE IF offset - Last(b.original) <= b.len - Last(b.pretty) THEN b
    ELSE [b EXCEPT !.original = Append(@, offset), !.pretty = Append(@, b.len)]

\* add_mapping_if_needed: only where the two texts got out of step.
Mapping(b, offset) ==
    IF offset - Last(b.original) = b.len - Last(b.pretty) THEN b
    ELSE [b EXCEPT !.original = Append(@, offset), !.pretty = Append(@, b.len)]

Gap(b) == IF b.line THEN "line" ELSE IF b.soft THEN "space" ELSE "none"

\* add_token.
AddToken(b, t) ==
    LET m == Mapping(Flush(b), t.start)
    IN  [m EXCEPT !.at = Append(@, m.len), !.len = @ + t.len, !.gaps = Append(@, Gap(b))]

When(c, Op(_), b) == IF c THEN Op(b) ELSE b

-----------------------------------------------------------------------------
(* emit_js *)

\* What gets a space on both sides.
Binary ==
    {"=>", "=", "+=", "-=", "*=", "/=", "%=", "==", "===", "!=", "!==", "<", ">", "<=", ">=",
     "+", "-", "*", "/", "%", "&&", "||", "??"}
Next(tokens, i) == IF i < Len(tokens) THEN {tokens[i + 1]} ELSE {}
Prev(tokens, i) == IF i > 1 THEN {tokens[i - 1]} ELSE {}

\* s is the builder with the depth of parentheses and brackets.
EmitJsToken(tokens, s, i) ==
    LET t == tokens[i]
        b == s.b
        prev == Prev(tokens, i)
        next == Next(tokens, i)
        after(texts) == \E n \in next : n.text \in texts
        afterWord == \E p \in prev : p.kind \in Words
        put(c) == AddToken(c, t)
        with(c) == [s EXCEPT !.b = c]
    IN  IF t.kind = "comment" THEN with(NewLine(put(b)))
        ELSE IF t.kind = "keyword"
        THEN with(When(\E n \in next : n.kind \in Words \ {"regex"} \/ n.text \in {"{", "*"}, SoftSpace,
                       put(When(afterWord \/ \E p \in prev : p.text \in {")", "]", "}"},
                                SoftSpace, b))))
        ELSE IF t.kind \in Words THEN with(put(When(afterWord, SoftSpace, b)))
        ELSE IF t.text = "{" THEN with(Nest(NewLine(put(SoftSpace(b)))))
        ELSE IF t.text = "}"
        THEN LET c == put(NewLine(Unnest(b)))
             IN  with(IF after(Closers) THEN SoftSpace(c)
                      ELSE IF after({",", ";", ")"}) THEN c ELSE NewLine(c))
        ELSE IF t.text = ";"
        THEN with(IF s.parens = 0 THEN NewLine(put(b)) ELSE SoftSpace(put(b)))
        ELSE IF t.text = ","
        THEN with(IF s.parens = 0 /\ s.brackets = 0 /\ b.nesting > 0
                  THEN NewLine(put(b)) ELSE SoftSpace(put(b)))
        ELSE IF t.text = "("
        THEN [s EXCEPT !.parens = @ + 1,
                       !.b = put(When(\E p \in prev : p.kind = "keyword", SoftSpace, @))]
        ELSE IF t.text = ")"
        THEN [s EXCEPT !.parens = @ - 1, !.b = When(after({"{"}), SoftSpace, put(@))]
        ELSE IF t.text = "[" THEN [s EXCEPT !.brackets = @ + 1, !.b = put(@)]
        ELSE IF t.text = "]" THEN [s EXCEPT !.brackets = @ - 1, !.b = put(@)]
        ELSE IF t.text = ":" THEN with(SoftSpace(put(b)))
        ELSE IF t.text \in Binary \cup {"?"} THEN with(SoftSpace(put(SoftSpace(b))))
        ELSE with(put(b))

\* The trailing newline.
Finished(b) == IF b.len > 0 THEN Flush(NewLine(b)) ELSE b

EmitJs(tokens) ==
    Finished(FoldLeft(LAMBDA s, i : EmitJsToken(tokens, s, i),
                      [b |-> NewBuilder, parens |-> 0, brackets |-> 0],
                      [i \in DOMAIN tokens |-> i]).b)

-----------------------------------------------------------------------------
(* emit_css *)

EmitCssToken(tokens, s, i) ==
    LET t == tokens[i]
        b == s.b
        words == {"ident", "keyword", "number", "string"}
        put(c) == AddToken(c, t)
        value == b.nesting > 0 /\ \E n \in Next(tokens, i) : n.kind \in words \/ n.text = "#"
    IN  IF t.text = "{" THEN [b |-> Nest(NewLine(put(SoftSpace(b)))), value |-> FALSE]
        ELSE IF t.text = "}" THEN [b |-> NewLine(put(NewLine(Unnest(b)))), value |-> FALSE]
        ELSE IF t.text = ":" THEN [b |-> When(value, SoftSpace, put(b)), value |-> value]
        ELSE IF t.text = ";" THEN [b |-> NewLine(put(b)), value |-> FALSE]
        ELSE IF t.text = ","
        THEN [s EXCEPT !.b = IF s.value THEN SoftSpace(put(@)) ELSE NewLine(put(@))]
        ELSE IF t.kind = "comment" THEN [s EXCEPT !.b = NewLine(put(@))]
        ELSE [s EXCEPT !.b = put(When(t.kind \in words /\
                                      \E p \in Prev(tokens, i) : p.kind \in words, SoftSpace, @))]

EmitCss(tokens) ==
    Finished(FoldLeft(LAMBDA s, i : EmitCssToken(tokens, s, i),
                      [b |-> NewBuilder, value |-> FALSE], [i \in DOMAIN tokens |-> i]).b)

-----------------------------------------------------------------------------
(* Mapping positions *)

\* Where slice::binary_search may land: any match, else the last entry before.
Landings(table, x) ==
    LET same == {i \in DOMAIN table : table[i] = x}
        below == {i \in DOMAIN table : table[i] < x}
    IN  IF same # {} THEN same ELSE IF below = {} THEN {1} ELSE {Cardinality(below)}

Lesser(a, b) == IF a < b THEN a ELSE b

\* map_original_to_pretty, over every landing.
ToPretty(b, x) ==
    {LET y == b.pretty[i] + (x - b.original[i])
     IN  IF i < Len(b.pretty) THEN Lesser(y, b.pretty[i + 1]) ELSE y :
        i \in Landings(b.original, x)}

\* map_pretty_to_original: inserted whitespace leads to the token after it.
ToOriginal(b, y) ==
    {LET d == IF y > b.pretty[i] THEN y - b.pretty[i] ELSE 0
     IN  IF i < Len(b.original) THEN Lesser(b.original[i] + d, b.original[i + 1])
         ELSE b.original[i] + d :
        i \in Landings(b.pretty, y)}

\* build_line_starts.
PrettyLineStarts(text) ==
    SelectSeq([i \in 1..(Len(text) + 1) |-> Bytes(Before(text, i))],
              LAMBDA o : \/ o = 0
                         \/ \E i \in 2..Len(text) :
                              Bytes(Before(text, i)) = o /\ EndsLine(text, i - 1))

\* location_to_offset: a column in a surrogate pair goes to its end, one past
\* the line to the line's.
LocationToOffset(text, line, column) ==
    LET ix == Build(text)
        chars == LineText(ix, text, line)
        past == {n \in 0..Len(chars) : Units([i \in 1..n |-> chars[i][2]]) >= column}
    IN  IF line >= LineCount(ix) THEN Bytes(text)
        ELSE IF past = {} THEN ix.ends[line + 1]
        ELSE LET n == CHOOSE m \in past : \A k \in past : m <= k
             IN  ix.starts[line + 1] + Bytes([i \in 1..n |-> chars[i][2]])

-----------------------------------------------------------------------------
(* What the printer promises *)

\* A breakpoint set on a printed token is set on that token of the original,
\* and a pause in the original is shown there: byte for byte, both ways.  The
\* first token is left out: it may share its offset with the table's origin.
RoundTrips(tokens, b) ==
    \A i \in 2..Len(tokens) : \A d \in 0..(tokens[i].len - 1) :
        /\ ToPretty(b, tokens[i].start + d) = {b.at[i] + d}
        /\ ToOriginal(b, b.at[i] + d) = {tokens[i].start + d}

\* What comes earlier in one text comes no later in the other; inserted lines
\* lead to the token that follows them.
KeepsOrder(tokens, b) ==
    /\ \A x, y \in 1..b.len : x < y =>
         \A p \in ToOriginal(b, x), q \in ToOriginal(b, y) : p <= q
    /\ \A i \in 2..Len(tokens) : \A y \in (b.at[i - 1] + tokens[i - 1].len)..b.at[i] :
         \A p \in ToOriginal(b, y) :
            tokens[i - 1].start + tokens[i - 1].len <= p /\ p <= tokens[i].start
=============================================================================
