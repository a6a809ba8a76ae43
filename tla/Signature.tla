------------------------------ MODULE Signature ------------------------------
(***************************************************************************)
(* The types of a function's parameters and result as the builders see     *)
(* them: in which order parameters are handed to DuckDB, which types no    *)
(* slot takes, and which overloads DuckDB cannot tell apart                *)
(* (src/src/scalar/builder/signature.rs, table/type_check.rs).             *)
(*                                                                         *)
(* A type is a record: its id in `is`, its `alias` or None, in `detail`    *)
(* what the id says besides (an ARRAY's size, a DECIMAL's width and scale, *)
(* an ENUM's members), and its `members`, each with a `name` and a `type`: *)
(* a LIST's child, a MAP's key and value, a STRUCT's fields, a UNION's.    *)
(***************************************************************************)
EXTENDS Integers, Sequences

CONSTANTS
    Types,          \* closed: the members' types are among them
    Lower(_),       \* a name in lower case; "" is an unnamed member's
    MaxTypeNesting,
    None

MemberTypes(t) == {t.members[i].type : i \in DOMAIN t.members}

\* The types that match, when those in `below` do one level below.
matching(ids, below) ==
    {t \in Types : t.is \in ids \/ \E m \in MemberTypes(t) : m \in below}

\* A type nested too deeply counts as a match: it cannot be ruled out.
contains_type_at(ids) ==
    LET matches[depth \in 0..(MaxTypeNesting + 1)] ==
            IF depth > MaxTypeNesting THEN Types ELSE matching(ids, matches[depth + 1])
    IN  matches

contains_any_or_invalid(t) == t \in contains_type_at({"ANY", "INVALID"})[0]

-----------------------------------------------------------------------------
(* Parameters are kept in two lists, ids and logical types, the latter     *)
(* with the position each was declared at.                                 *)

\* One turn of the loop; `s` and `l` are the next of each list.
merge_at(pos, m, simple, logical) ==
    IF m.l <= Len(logical) /\ logical[m.l].at = pos
    THEN [out |-> Append(m.out, logical[m.l].type), s |-> m.s, l |-> m.l + 1]
    ELSE IF m.s <= Len(simple)
    THEN [out |-> Append(m.out, simple[m.s]), s |-> m.s + 1, l |-> m.l]
    ELSE m

\* `merged_params`, and the loop of every `register` it mirrors.
merged_params(simple, logical) ==
    LET merge[pos \in 0..(Len(simple) + Len(logical))] ==
            IF pos = 0 THEN [out |-> <<>>, s |-> 1, l |-> 1]
            ELSE merge_at(pos - 1, merge[pos - 1], simple, logical)
    IN  merge[Len(simple) + Len(logical)].out

-----------------------------------------------------------------------------
(* The key under which DuckDB's overload resolution takes two types for    *)
(* one, `Render::Overload`.  `Render::Exact` is for messages alone.        *)

\* Told apart by their id alone.
Coarse == {"DECIMAL", "MAP", "ENUM"}

Name(m) == Lower(m.name)
Named(t) == \A i \in DOMAIN t.members : Name(t.members[i]) # ""

\* Mutant: members keep their order, named or not.
push_members_unsorted(t, key) ==
    <<"inOrder", [i \in DOMAIN t.members |->
                    <<Name(t.members[i]), key[t.members[i].type]>>]>>

\* `push_members`, of the keys of the members: named ones are sorted.  DuckDB
\* takes no name twice; the one member of a LIST or an ARRAY has none.
push_members(t, key) ==
    IF Named(t)
    THEN <<"byName", {<<Name(t.members[i]), key[t.members[i].type]>> :
                        i \in DOMAIN t.members}>>
    ELSE <<"inOrder", [i \in DOMAIN t.members |->
                         <<Name(t.members[i]), key[t.members[i].type]>>]>>

\* The key of a type, when its members' keys are `key`.
described(t, key) ==
    <<t.alias, t.is,
      IF t.is = "ARRAY" THEN t.detail ELSE <<>>,
      IF t.is \in Coarse THEN <<>> ELSE push_members(t, key)>>

\* `describe_at`, of every type; types that agree down to the limit are one.
describe_at ==
    LET keys[depth \in 0..(MaxTypeNesting + 1)] ==
            [t \in Types |->
                IF depth > MaxTypeNesting THEN <<"...">> ELSE described(t, keys[depth + 1])]
    IN  keys

describe(t) == describe_at[0][t]

-----------------------------------------------------------------------------
(* A shape: the keys of the fixed parameters and of the varargs type.      *)

signature_parts(params, varargs) ==
    [fixed |-> [i \in DOMAIN params |-> describe(params[i])],
     varargs |-> IF varargs = None THEN None ELSE describe(varargs)]

\* `Shape::at`.
ShapeAt(shape, i) == IF i \in DOMAIN shape.fixed THEN shape.fixed[i] ELSE shape.varargs

\* The fewest arguments a call has that both accept, or -1.
arity(a, b) ==
    LET la == Len(a.fixed)
        lb == Len(b.fixed)
    IN  CASE a.varargs = None /\ b.varargs = None /\ la = lb -> la
          [] a.varargs = None /\ b.varargs # None /\ la >= lb -> la
          [] a.varargs # None /\ b.varargs = None /\ lb >= la -> lb
          [] a.varargs # None /\ b.varargs # None -> IF la > lb THEN la ELSE lb
          [] OTHER -> -1

shapes_overlap(a, b) ==
    arity(a, b) >= 0 /\ \A i \in 1..arity(a, b) : ShapeAt(a, i) = ShapeAt(b, i)

\* `first_overlap` of the keys; the error of `reject_duplicate_overloads`.
reject_duplicate_overloads(shapes) ==
    \E j \in DOMAIN shapes : \E i \in 1..(j - 1) : shapes_overlap(shapes[i], shapes[j])

-----------------------------------------------------------------------------
(* What they are for, said without the keys and without a limit.           *)

\* A LIST costs nothing for an ARRAY, but no ARRAY for a LIST.
ListForArray(s, t) == s.is = "LIST" /\ t.is = "ARRAY"

\* So does a UNION for one that has all its members and others besides.
SmallerUnion(s, t) ==
    /\ s.is = "UNION" /\ t.is = "UNION"
    /\ \E j \in DOMAIN t.members : \A i \in DOMAIN s.members :
          Name(t.members[j]) # Name(s.members[i])

\* `costs` says this of the members' types; of one by position or by name.
Matches(m, n, costs, what) == Name(m) = Name(n) /\ n.type \in costs[m.type][what]

\* The types that an argument of type `s` costs nothing for.
Nothing(s, costs) ==
    {t \in Types :
        /\ t.alias = s.alias
        /\ t.is = s.is \/ ListForArray(s, t)
        /\ s.is = "ARRAY" => t.detail = s.detail
        /\ \/ s.is \in Coarse
           \/ /\ Named(s)
              /\ \A i \in DOMAIN s.members : \E j \in DOMAIN t.members :
                    Matches(s.members[i], t.members[j], costs, "nothing")
              /\ s.is = "UNION" \/ \A j \in DOMAIN t.members : \E i \in DOMAIN s.members :
                    Matches(s.members[i], t.members[j], costs, "nothing")
           \/ /\ ~Named(s)
              /\ DOMAIN t.members = DOMAIN s.members
              /\ \A i \in DOMAIN s.members :
                    Matches(s.members[i], t.members[i], costs, "nothing")}

\* Those that `reject_duplicate_overloads` documents as not detected: one of the
\* two pairs above, or members that are.
Undetected(s, costs) ==
    {t \in Types :
        \/ ListForArray(s, t)
        \/ SmallerUnion(s, t)
        \/ /\ s.is \notin Coarse
           /\ \E i \in DOMAIN s.members, j \in DOMAIN t.members :
                 Matches(s.members[i], t.members[j], costs, "undetected")}

\* DuckDB's overload resolution (the doc of `reject_duplicate_overloads`;
\* external).
Costs ==
    LET costs[s \in Types] == [nothing |-> Nothing(s, costs),
                               undetected |-> Undetected(s, costs)]
    IN  costs

\* The types a function takes a call of n arguments with.
TypesFor(params, varargs, n) ==
    [i \in 1..n |-> IF i <= Len(params) THEN params[i] ELSE varargs]
Accepts(params, varargs, n) ==
    n = Len(params) \/ (n > Len(params) /\ varargs # None)

\* Some call costs nothing for either, so that DuckDB "could not choose a best
\* candidate function" for it, and not through a pair that is not detected.
Ambiguous(p, pv, q, qv, most) ==
    \E n \in 0..most :
        /\ Accepts(p, pv, n) /\ Accepts(q, qv, n)
        /\ \A i \in 1..n : \E a \in Types :
              {TypesFor(p, pv, n)[i], TypesFor(q, qv, n)[i]}
                  \subseteq Costs[a].nothing \ Costs[a].undetected

\* The type and all types within it, however deep.
Within == [t \in Types |->
    {u \in Types : \A S \in SUBSET Types :
        t \in S /\ (\A s \in S : MemberTypes(s) \subseteq S) => u \in S}]
Mentions(t, ids) == \E u \in Within[t] : u.is \in ids
=============================================================================
