-------------------------------- MODULE Lexer --------------------------------
(***************************************************************************)
(* The pretty printer's lexer: where strings, templates with expressions   *)
(* nested in them, comments, regular expressions, numbers, names and       *)
(* punctuators end, and what a "/" starts.                                 *)
(*                                                                         *)
(* A text is a sequence of bytes.  A byte is named by the character it is; *)
(* the two bytes of a letter outside ASCII are Lead and Trail.  Positions  *)
(* count from 1, ends are the position after.                              *)
(***************************************************************************)
EXTENDS Naturals, Sequences, SequencesExt

CONSTANTS
    Digits, Letters, Spaces,   \* ASCII bytes; the letters hold "_" and "$"
    Hex, Exponents,            \* digits and letters of hexadecimal numbers, "e" and "E"
    Lead, Trail,               \* the bytes of a longer letter
    LineFeed, Return, Backtick,
    Keywords,                  \* texts that are keywords
    Punctuators                \* those of several bytes, in the order they are tried

Quotes == {"'", "\""}

\* The bytes at and after i, as many as there are.
At(t, i) == IF i <= Len(t) THEN {t[i]} ELSE {}
Starts(t, i, bytes) == i + Len(bytes) - 1 <= Len(t) /\ SubSeq(t, i, i + Len(bytes) - 1) = bytes
End(t) == Len(t) + 1
NoFurther(t, i) == IF i <= End(t) THEN i ELSE End(t)

\* The first position from i on whose byte is not one of these.
After(t, i, bytes) ==
    CHOOSE k \in i..End(t) : At(t, k) \cap bytes = {} /\ \A j \in i..(k - 1) : t[j] \in bytes

\* A character, for the loops that walk over characters.
NextChar(t, i) == NoFurther(t, i + (IF t[i] = Lead THEN 2 ELSE 1))

\* Faulty: takes every longer letter for one of three bytes.
BadNextByChar(t, i) == NoFurther(t, i + (IF t[i] \in {Lead, Trail} THEN 3 ELSE 1))

\* utf8_char_len, for the loops that walk over bytes: in the middle of a letter
\* it takes the byte for the first of four.
NextByChar(t, i) == NoFurther(t, i + (IF t[i] = Lead THEN 2 ELSE IF t[i] = Trail THEN 4 ELSE 1))

\* Where a backslash leads the loops over bytes.
PastEscape(t, i) == NoFurther(t, i + 2)

-----------------------------------------------------------------------------
(* Literals and comments, from position i after what opens them *)

RECURSIVE StringEnd(_, _, _), TemplateEnd(_, _), ExpressionEnd(_, _, _), RegexEnd(_, _, _)

\* lex_string.
StringEnd(t, i, quote) ==
    IF i > Len(t) THEN End(t)
    ELSE IF t[i] = "\\" THEN StringEnd(t, IF i = Len(t) THEN End(t) ELSE NextChar(t, i + 1), quote)
    ELSE IF t[i] = quote THEN i + 1
    ELSE StringEnd(t, NextChar(t, i), quote)

\* skip_line_comment, from its first slash.
LineCommentEnd(t, i) ==
    CHOOSE k \in (i + 2)..End(t) :
        /\ At(t, k) \subseteq {LineFeed, Return}
        /\ \A j \in (i + 2)..(k - 1) : t[j] \notin {LineFeed, Return}

\* skip_block_comment.
BlockCommentEnd(t, i) ==
    LET closes == {k \in (i + 2)..(Len(t) - 1) : t[k] = "*" /\ t[k + 1] = "/"}
    IN  IF closes = {} THEN End(t) ELSE (CHOOSE k \in closes : \A j \in closes : k <= j) + 2

\* lex_template.
TemplateEnd(t, i) ==
    IF i > Len(t) THEN End(t)
    ELSE IF t[i] = "\\" THEN TemplateEnd(t, PastEscape(t, i))
    ELSE IF t[i] = Backtick THEN i + 1
    ELSE IF Starts(t, i, <<"$", "{">>) THEN TemplateEnd(t, ExpressionEnd(t, i + 2, 1))
    ELSE TemplateEnd(t, NextByChar(t, i))

\* lex_template_expression, `depth` braces deep.
ExpressionEnd(t, i, depth) ==
    IF i > Len(t) THEN End(t)
    ELSE IF t[i] \in Quotes THEN ExpressionEnd(t, StringEnd(t, i + 1, t[i]), depth)
    ELSE IF t[i] = Backtick THEN ExpressionEnd(t, TemplateEnd(t, i + 1), depth)
    ELSE IF Starts(t, i, <<"/", "/">>) THEN ExpressionEnd(t, LineCommentEnd(t, i), depth)
    ELSE IF Starts(t, i, <<"/", "*">>) THEN ExpressionEnd(t, BlockCommentEnd(t, i), depth)
    ELSE IF t[i] = "{" THEN ExpressionEnd(t, i + 1, depth + 1)
    ELSE IF t[i] = "}" THEN IF depth = 1 THEN i + 1 ELSE ExpressionEnd(t, i + 1, depth - 1)
    ELSE ExpressionEnd(t, NextByChar(t, i), depth)

\* lex_regex.
RegexEnd(t, i, inClass) ==
    IF i > Len(t) THEN End(t)
    ELSE IF t[i] = "\\" THEN RegexEnd(t, PastEscape(t, i), inClass)
    ELSE IF t[i] = "[" /\ ~inClass THEN RegexEnd(t, i + 1, TRUE)
    ELSE IF t[i] = "]" /\ inClass THEN RegexEnd(t, i + 1, FALSE)
    ELSE IF t[i] = "/" /\ ~inClass THEN After(t, i + 1, Letters \ {"_", "$"})
    ELSE IF t[i] \in {LineFeed, Return} THEN i
    ELSE RegexEnd(t, NextByChar(t, i), inClass)

-----------------------------------------------------------------------------
(* Numbers and names *)

RECURSIVE DecimalEnd(_, _, _, _)

DecimalEnd(t, i, dot, exp) ==
    IF At(t, i) \subseteq Digits \cup {"_"} THEN IF i > Len(t) THEN i ELSE DecimalEnd(t, i + 1, dot, exp)
    ELSE IF t[i] = "." /\ ~dot /\ ~exp THEN DecimalEnd(t, i + 1, TRUE, exp)
    ELSE IF t[i] \in Exponents /\ ~exp
    THEN DecimalEnd(t, IF \E c \in At(t, i + 1) : c \in {"+", "-"} THEN i + 2 ELSE i + 1, dot, TRUE)
    ELSE i

\* lex_number.
NumberEnd(t, i) ==
    IF t[i] = "0" /\ \E c \in At(t, i + 1) : c \in {"x", "X", "b", "B", "o", "O"}
    THEN After(t, i + 2, Hex \cup {"_"})
    ELSE DecimalEnd(t, i, FALSE, FALSE)

NameStarts == Letters \cup {"\\", Lead}
\* A longer letter's second byte follows its first.
NameBytes == NameStarts \cup Digits \cup {Trail}

-----------------------------------------------------------------------------
(* Tokens *)

\* looks_like_regex.
LooksLikeRegex(prev) ==
    \/ prev.kind \in {"none", "comment"}
    \/ prev.kind = "punct" /\ prev.text \notin {<<")">>, <<"]">>, <<"}">>}

\* next_token: kind and end of the token at position i, where no space is.
KindAndEnd(t, i, prev) ==
    IF Starts(t, i, <<"/", "/">>) THEN <<"comment", LineCommentEnd(t, i)>>
    ELSE IF Starts(t, i, <<"/", "*">>) THEN <<"comment", BlockCommentEnd(t, i)>>
    ELSE IF t[i] = "/" /\ i < Len(t) /\ LooksLikeRegex(prev) THEN <<"regex", RegexEnd(t, i + 1, FALSE)>>
    ELSE IF t[i] \in Quotes THEN <<"string", StringEnd(t, i + 1, t[i])>>
    ELSE IF t[i] = Backtick THEN <<"template", TemplateEnd(t, i + 1)>>
    ELSE IF t[i] \in Digits \/ (t[i] = "." /\ \E c \in At(t, i + 1) : c \in Digits)
    THEN <<"number", NumberEnd(t, i)>>
    ELSE IF t[i] = "#" THEN <<"ident", After(t, i + 1, NameBytes \cup {"-"})>>
    ELSE IF t[i] \in NameStarts
    THEN LET end == After(t, i, NameBytes)
         IN  <<IF SubSeq(t, i, end - 1) \in Keywords THEN "keyword" ELSE "ident", end>>
    ELSE LET long == SelectSeq(Punctuators, LAMBDA p : Starts(t, i, p))
         IN  <<"punct", IF long = <<>> THEN i + 1 ELSE i + Len(Head(long))>>

NoToken == [kind |-> "none", text |-> <<>>, start |-> 1]

RECURSIVE Lexed(_, _, _)

\* tokenize, from position i on, with the tokens found so far.
Lexed(t, i, tokens) ==
    LET at == After(t, i, Spaces)
        prev == IF tokens = <<>> THEN NoToken ELSE tokens[Len(tokens)]
    IN  IF at > Len(t) THEN tokens
        ELSE LET found == KindAndEnd(t, at, prev)
             IN  Lexed(t, found[2], Append(tokens,
                    [kind |-> found[1], text |-> SubSeq(t, at, found[2] - 1), start |-> at]))

Tokenize(t) == Lexed(t, 1, <<>>)

-----------------------------------------------------------------------------
(* What the lexer promises *)

\* The tokens lie in order and only space lies between them; no letter is cut
\* by a token's end, which would panic.
Covers(t, tokens) ==
    LET inside == UNION {k.start..(k.start + Len(k.text) - 1) : k \in ToSet(tokens)}
    IN  /\ \A i \in 1..(Len(tokens) - 1) : tokens[i].start + Len(tokens[i].text) <= tokens[i + 1].start
        /\ \A i \in DOMAIN t : i \in inside \/ t[i] \in Spaces
        /\ \A k \in ToSet(tokens) : Head(k.text) # Trail /\ k.text[Len(k.text)] # Lead

Shape(tokens) == [i \in DOMAIN tokens |-> <<tokens[i].kind, tokens[i].text>>]
=============================================================================
