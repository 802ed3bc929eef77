----------------------------- MODULE SourceMaps -----------------------------
(***************************************************************************)
(* The source map resolver of mjx-wk-source: the maps it has loaded, the   *)
(* authored sources it named, and the index from an authored line to every *)
(* generated place it was inlined into.                                    *)
(*                                                                         *)
(* A map is its authored URLs and its tokens, each a generated position    *)
(* and, unless `src` is 0, the authored position it comes from.  Decoding  *)
(* and lookup belong to the `sourcemap` crate: its tokens are sorted by    *)
(* generated position, and it finds the last token at or before a place.   *)
(* Where a map has two tokens at one place, which of them it finds is not  *)
(* modelled.                                                               *)
(***************************************************************************)
EXTENDS Naturals, Sequences, FiniteSets, Excerpt

CONSTANTS
    Authored,                        \* authored sources
    Maps,                            \* maps that may be fetched
    Generated,                       \* the sources they may be for
    AuthoredLines, AuthoredColumns,  \* what is asked for
    MaxLoads                         \* bound on the maps loaded

MapTokens == [line : Nat, column : Nat, src : Nat, srcLine : Nat, srcColumn : Nat]
Before(t, u) == t.line < u.line \/ (t.line = u.line /\ t.column < u.column)

ASSUME MapsConstants ==
    /\ MaxLoads \in Nat
    /\ \A map \in Maps :
        /\ map.sources \in Seq(Authored)
        /\ map.tokens \in Seq(MapTokens)
        /\ \A i, j \in 1..Len(map.tokens) : i < j => Before(map.tokens[i], map.tokens[j])

VARIABLES
    resolver,
    loads      \* how many maps were loaded

mapsVars == <<resolver, loads>>

Loc(s, l, c) == [source |-> s, line |-> l, column |-> c]
Entered(f, k, v) == [x \in DOMAIN f \cup {k} |-> IF x = k THEN v ELSE f[x]]

Nothing == [k \in {} |-> k]
EmptyResolver ==
    [maps |-> Nothing, byUrl |-> Nothing, originals |-> Nothing, reverse |-> Nothing, next |-> 0]

-----------------------------------------------------------------------------
(* External: the sourcemap crate *)

AtOrBefore(t, line, column) == t.line < line \/ (t.line = line /\ t.column <= column)

\* SourceMap::lookup_token; 0 when no token is at or before the place.
LookupToken(tokens, line, column) ==
    Cardinality({i \in 1..Len(tokens) : AtOrBefore(tokens[i], line, column)})

-----------------------------------------------------------------------------
(* Loading *)

\* alloc_id: the first number from `next` on that is neither a generated nor
\* an authored source of this resolver.
AllocId(r) ==
    CHOOSE n \in r.next..(r.next + Cardinality(DOMAIN r.maps) + Cardinality(DOMAIN r.originals)) :
        /\ n \notin DOMAIN r.maps \cup DOMAIN r.originals
        /\ \A m \in r.next..(n - 1) : m \in DOMAIN r.maps \cup DOMAIN r.originals

\* ensure_original: bundles that name one file share its id.
EnsureOriginal(r, url) ==
    IF url \in DOMAIN r.byUrl THEN r
    ELSE [r EXCEPT !.byUrl = Entered(@, url, AllocId(r)),
                   !.originals = Entered(@, AllocId(r), url),
                   !.next = AllocId(r) + 1]

\* Faulty: leaves the places of the map that is replaced.
BadRevoked(r, g) == [r EXCEPT !.maps = [h \in DOMAIN @ \ {g} |-> @[h]]]

\* revoke_generated: no authored line leads into this source any more.
Revoked(r, g) ==
    LET kept == [k \in DOMAIN r.reverse |->
                    Excerpt(r.reverse[k], {i \in DOMAIN r.reverse[k] : r.reverse[k][i].source # g})]
    IN  [r EXCEPT !.maps = [h \in DOMAIN @ \ {g} |-> @[h]],
                  !.reverse = [k \in {j \in DOMAIN kept : kept[j] # <<>>} |-> kept[k]]]

\* One token of install_map's loop.
Indexed(reverse, g, ids, t) ==
    LET key == <<ids[t.src], t.srcLine>>
        dst == Loc(g, t.line, t.column)
    IN  IF t.src \notin DOMAIN ids THEN reverse
        ELSE IF key \notin DOMAIN reverse THEN Entered(reverse, key, <<dst>>)
        ELSE IF \E i \in DOMAIN reverse[key] : reverse[key][i] = dst THEN reverse
        ELSE [reverse EXCEPT ![key] = Append(@, dst)]

\* install_map's two loops.
EnsureAll(r, urls) ==
    LET upTo[n \in 0..Len(urls)] ==
            IF n = 0 THEN r ELSE EnsureOriginal(upTo[n - 1], urls[n])
    IN  upTo[Len(urls)]

Traced(reverse, g, ids, tokens) ==
    LET upTo[n \in 0..Len(tokens)] ==
            IF n = 0 THEN reverse ELSE Indexed(upTo[n - 1], g, ids, tokens[n])
    IN  upTo[Len(tokens)]

\* install_map; a failed fetch or a malformed map installs nothing.
Installed(r, g, map) ==
    LET old == IF g \in DOMAIN r.maps THEN Revoked(r, g) ELSE r
        named == EnsureAll(old, map.sources)
        ids == [i \in 1..Len(map.sources) |-> named.byUrl[map.sources[i]]]
    IN  [named EXCEPT
            !.reverse = Traced(@, g, ids, map.tokens),
            !.maps = Entered(@, g, [tokens |-> map.tokens, ids |-> ids])]

-----------------------------------------------------------------------------
(* Resolving *)

\* to_original: at most one location.
ToOriginal(r, loc) ==
    IF loc.source \notin DOMAIN r.maps THEN {}
    ELSE LET m == r.maps[loc.source]
             n == LookupToken(m.tokens, loc.line, loc.column)
         IN  IF n = 0 THEN {}
             ELSE LET t == m.tokens[n] IN
                  IF t.src \notin DOMAIN m.ids THEN {}
                  ELSE {Loc(m.ids[t.src], t.srcLine, t.srcColumn)}

\* to_generated: every inlining of a line; with a column, those that come from
\* exactly it, if any do.
ToGenerated(r, loc) ==
    LET key == <<loc.source, loc.line>>
        all == IF key \in DOMAIN r.reverse THEN r.reverse[key] ELSE <<>>
        exact == Excerpt(all, {i \in DOMAIN all :
                    \E o \in ToOriginal(r, all[i]) : o.column = loc.column})
    IN  IF loc.column = 0 \/ exact = <<>> THEN all ELSE exact

-----------------------------------------------------------------------------
MapsInit == resolver = EmptyResolver /\ loads = 0

LoadsMap(g, map) ==
    /\ loads < MaxLoads
    /\ loads' = loads + 1
    /\ resolver' = Installed(resolver, g, map)

MapsNext == \E g \in Generated, map \in Maps : LoadsMap(g, map)

MapsSpec == MapsInit /\ [][MapsNext]_mapsVars

-----------------------------------------------------------------------------
(* What the resolver promises *)

\* A place that a token of a map loaded for g comes from, and its own.
Site(m, g, t, key, dst) ==
    t.src \in DOMAIN m.ids /\ key = <<m.ids[t.src], t.srcLine>> /\ dst = Loc(g, t.line, t.column)

\* An authored line leads to exactly the places the loaded maps have for it,
\* each once.
ReverseExact(r) ==
    /\ \A k \in DOMAIN r.reverse :
         /\ r.reverse[k] # <<>>
         /\ \A i, j \in 1..Len(r.reverse[k]) : r.reverse[k][i] = r.reverse[k][j] => i = j
         /\ \A i \in 1..Len(r.reverse[k]) : \E g \in DOMAIN r.maps :
               \E n \in 1..Len(r.maps[g].tokens) :
                  Site(r.maps[g], g, r.maps[g].tokens[n], k, r.reverse[k][i])
    /\ \A g \in DOMAIN r.maps : \A n \in 1..Len(r.maps[g].tokens) :
         LET m == r.maps[g]
             t == m.tokens[n]
             key == <<m.ids[t.src], t.srcLine>>
         IN  t.src \in DOMAIN m.ids =>
                /\ key \in DOMAIN r.reverse
                /\ \E i \in 1..Len(r.reverse[key]) : Site(m, g, t, key, r.reverse[key][i])

\* An authored file has one id, whichever maps name it, and no other file has it.
OneIdPerFile(r) ==
    /\ \A a, b \in DOMAIN r.byUrl : r.byUrl[a] = r.byUrl[b] => a = b
    /\ \A g \in DOMAIN r.maps : \A n \in DOMAIN r.maps[g].ids :
         LET id == r.maps[g].ids[n] IN
         id \in DOMAIN r.originals /\ r.byUrl[r.originals[id]] = id

\* What a breakpoint on an authored place is set on maps back to its line, and
\* to its column if any place does.
MapsBack(r, loc) ==
    LET out == ToGenerated(r, loc) IN
    /\ \A i \in 1..Len(out) : \E o \in ToOriginal(r, out[i]) :
            o.source = loc.source /\ o.line = loc.line
    /\ loc.column # 0 =>
            \/ \A i \in 1..Len(out) : \E o \in ToOriginal(r, out[i]) : o.column = loc.column
            \/ \A i \in 1..Len(out) : \E o \in ToOriginal(r, out[i]) : o.column # loc.column

\* An authored line leads to exactly the places of the maps that are loaded,
\* also after one was replaced, and each of them leads back; maps that name one
\* file agree on its id.  [install_map, revoke_generated, ensure_original,
\* to_generated]
MapsAreInverse ==
    /\ ReverseExact(resolver)
    /\ OneIdPerFile(resolver)
    /\ \A id \in DOMAIN resolver.originals, l \in AuthoredLines, c \in AuthoredColumns :
          MapsBack(resolver, Loc(id, l, c))
=============================================================================
