------------------------------- MODULE Codegen -------------------------------
(***************************************************************************)
(* The protocol generator where a mistake would compile: merging the       *)
(* variants of a member that WebKit declares once per platform, and        *)
(* finding the fields that must be boxed for a type to have a finite size. *)
(*                                                                         *)
(* A variant is a member's name, its properties in order, each optional or *)
(* not, and, for a type, the values of its enumeration.                    *)
(***************************************************************************)
EXTENDS Naturals, Sequences, FiniteSets, Excerpt

CONSTANTS
    PropertyNames,
    Enumerated,         \* values of enumerations
    NoValues,           \* a type that enumerates nothing
    Variants,           \* of members that may be declared
    Types, FieldNames,  \* of types that refer to others
    MaxMembers, MaxFields   \* bounds on what is declared

Properties == [name : PropertyNames, optional : BOOLEAN]

\* A direct reference from one type to another.
References == [from : Types, field : FieldNames, to : Types]

NamesOnce(properties) ==
    \A i, j \in 1..Len(properties) : properties[i].name = properties[j].name => i = j
OnlyOnce(values) == \A i, j \in 1..Len(values) : values[i] = values[j] => i = j

\* No declaration has two properties of one name, or a value twice.
ASSUME CodegenConstants ==
    /\ NoValues \notin Seq(Enumerated)
    /\ MaxMembers \in Nat /\ MaxFields \in Nat
    /\ \A v \in Variants :
        /\ v = [name |-> v.name, values |-> v.values, properties |-> v.properties]
        /\ v.properties \in Seq(Properties) /\ NamesOnce(v.properties)
        /\ v.values # NoValues => v.values \in Seq(Enumerated) /\ OnlyOnce(v.values)

VARIABLES
    declared,   \* the variants in the order of their declarations
    merged,     \* the members they make, merge_by's groups in their order
    fields      \* the direct references between types

memberVars == <<declared, merged>>
codegenVars == <<declared, merged, fields>>

CodegenInit == declared = <<>> /\ merged = <<>> /\ fields = {}

-----------------------------------------------------------------------------
(* merge.rs *)

Has(properties, n) == \E i \in 1..Len(properties) : properties[i].name = n
Requires(properties, n) ==
    \E i \in 1..Len(properties) : properties[i].name = n /\ ~properties[i].optional

NewProperties(a, b) == Excerpt(b, {i \in 1..Len(b) : ~Has(a, b[i].name)})

\* Faulty: a property that only one variant has keeps what that one says.
BadMergeProperties(a, b) ==
    [i \in 1..Len(a) |->
        [a[i] EXCEPT !.optional = @ \/ (Has(b, a[i].name) /\ ~Requires(b, a[i].name))]]
    \o NewProperties(a, b)

\* merge_properties: what one variant lacks, or need not have, is optional.
MergeProperties(a, b) ==
    [i \in 1..Len(a) |-> [a[i] EXCEPT !.optional = @ \/ ~Requires(b, a[i].name)]]
    \o LET new == NewProperties(a, b)
       IN  [i \in 1..Len(new) |-> [new[i] EXCEPT !.optional = TRUE]]

\* Of the two enumerations; only one may be there.
MergeValues(v, w) ==
    IF v = NoValues THEN w ELSE IF w = NoValues THEN v
    ELSE v \o Excerpt(w, {i \in 1..Len(w) : \A j \in 1..Len(v) : v[j] # w[i]})

\* merge_types; merge_commands and merge_events are the same without values.
MergeVariants(a, b) ==
    [a EXCEPT !.properties = MergeProperties(@, b.properties),
              !.values = MergeValues(@, b.values)]

\* merge_by: a variant is folded into the member of its name, or is its first.
Grouped(out, item) ==
    IF \E i \in 1..Len(out) : out[i].name = item.name
    THEN [i \in 1..Len(out) |->
            IF out[i].name = item.name THEN MergeVariants(out[i], item) ELSE out[i]]
    ELSE Append(out, item)

Declares(v) ==
    /\ Len(declared) < MaxMembers
    /\ declared' = Append(declared, v)
    /\ merged' = Grouped(merged, v)
    /\ UNCHANGED fields

-----------------------------------------------------------------------------
(* emit.rs *)

\* A type refers to another directly: not through an array.
Refers(f) ==
    /\ Cardinality(fields) < MaxFields
    /\ \A g \in fields : <<g.from, g.field>> # <<f.from, f.field>>
    /\ fields' = fields \cup {f}
    /\ UNCHANGED memberVars

\* One step from what was seen.
Follow(references, seen) == seen \cup {f.to : f \in {g \in references : g.from \in seen}}

\* What is reached from a set of types, by following references.
ReachedFrom(references, types) ==
    LET seen[n \in 0..Cardinality(references)] ==
            IF n = 0 THEN types ELSE Follow(references, seen[n - 1])
    IN  seen[Cardinality(references)]

\* Faulty: only a type that refers to itself is boxed.
BadBoxed(references) == {f \in references : f.to = f.from}

\* analyse_cycles: the fields whose type leads back to their own.
Boxed(references) == {f \in references : f.from \in ReachedFrom(references, {f.to})}

-----------------------------------------------------------------------------
DeclareVariant == \E v \in Variants : Declares(v)
DeclareField == \E f \in References : Refers(f)
CodegenNext == DeclareVariant \/ DeclareField

CodegenSpec == CodegenInit /\ [][CodegenNext]_codegenVars

-----------------------------------------------------------------------------
(* What the generator promises *)

VariantsOf(m) == {i \in 1..Len(declared) : declared[i].name = m.name}

\* Every name is generated once, in the order in which the first variants of
\* each were declared.
GeneratedInOrder ==
    /\ \A i \in 1..Len(declared) : \E j \in 1..Len(merged) : merged[j].name = declared[i].name
    /\ \A j \in 1..Len(merged) : VariantsOf(merged[j]) # {}
    /\ \A j, k \in 1..Len(merged) : j < k =>
          \E i \in VariantsOf(merged[j]) : \A l \in 1..i : declared[l].name # merged[k].name

\* It has the properties of all its variants, each once; one is required only
\* where no debuggee can do without it, and every value some debuggee may send
\* is known, and no other.
ServesEveryDebuggee ==
    \A j \in 1..Len(merged) :
        LET m == merged[j] IN
        /\ NamesOnce(m.properties)
        /\ \A n \in PropertyNames :
             /\ Has(m.properties, n) <=> \E i \in VariantsOf(m) : Has(declared[i].properties, n)
             /\ Requires(m.properties, n) <=> \A i \in VariantsOf(m) : Requires(declared[i].properties, n)
        /\ \A i \in VariantsOf(m) : declared[i].values # NoValues => m.values # NoValues
        /\ m.values # NoValues =>
             /\ OnlyOnce(m.values)
             /\ \A x \in Enumerated :
                  (\E k \in 1..Len(m.values) : m.values[k] = x) <=>
                  \E i \in VariantsOf(m) :
                      /\ declared[i].values # NoValues
                      /\ \E k \in 1..Len(declared[i].values) : declared[i].values[k] = x

\* A type holds itself through no chain of unboxed fields, and what is boxed
\* lies on a cycle.
HasFiniteSize ==
    LET direct == fields \ Boxed(fields) IN
    /\ \A f \in direct : f.from \notin ReachedFrom(direct, {f.to})
    /\ \A f \in Boxed(fields) : f.from \in ReachedFrom(fields \ {f}, {f.to})

\* The generated types serve every platform: a member declared in variants is
\* generated once, with all their properties and values, and requires only what
\* all require; and no type holds itself but through a box, nor is one boxed for
\* nothing.  [merge.rs, "picking one is wrong", "any field absent from some
\* variant becomes optional", analyse_cycles]
GeneratedTypesFit == GeneratedInOrder /\ ServesEveryDebuggee /\ HasFiniteSize
=============================================================================
