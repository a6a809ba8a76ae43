--------------------------- MODULE MCRegistration ---------------------------
(* Registration with AbiCheck as in MCAbiCheck, and the builders with two  *)
(* parameters over two overloads.  One run takes one of the two.           *)
EXTENDS MCAbiCheck, Registration, Sequences

VARIABLE part

builderVars == <<kind, fn, overloads, default, typed, pushdown, handed, outcome>>
MCvars == <<part, vars, builderVars>>

MCInit ==
    /\ part \in {"abi", "builder"}
    /\ Init /\ FB!Init
    \* one extension and one engine are enough beside the builders
    /\ part = "builder" =>
           build = (CHOOSE b \in Builds : TRUE) /\ engine = <<2, 0, 0>>

MCNext ==
    /\ UNCHANGED part
    /\ \/ part = "abi" /\ Next /\ UNCHANGED builderVars
       \/ part = "builder" /\ FB!Next /\ UNCHANGED vars

MCSpec == MCInit /\ [][MCNext]_MCvars

MCLower(name) == CASE name = "A" -> "a" [] name = "B" -> "b" [] OTHER -> name

Plain(id) == [is |-> id, alias |-> None, detail |-> <<>>, members |-> <<>>]
Decimal(w, s) == [Plain("DECIMAL") EXCEPT !.detail = <<w, s>>]
List(t) == [Plain("LIST") EXCEPT !.members = <<[name |-> "", type |-> t]>>]
Struct(ms) == [Plain("STRUCT") EXCEPT !.members = ms]

\* Two STRUCTs alike to DuckDB, whatever the order and case of their names and
\* the widths of their DECIMALs.
StructOne == Struct(<<[name |-> "A", type |-> Decimal(4, 1)],
                      [name |-> "b", type |-> Plain("INT")]>>)
StructTwo == Struct(<<[name |-> "B", type |-> Plain("INT")],
                      [name |-> "a", type |-> Decimal(9, 2)]>>)

\* Two types, the first of which DuckDB takes for the second at no cost, though
\* they have two keys: a LIST beside an ARRAY, of a UNION beside a larger one.
Union(ms) == [Plain("UNION") EXCEPT !.members = ms]
ListOne == List(Union(<<[name |-> "a", type |-> Plain("INT")]>>))
ArrayTwo == [Plain("ARRAY") EXCEPT
                !.detail = <<3>>,
                !.members = <<[name |-> "",
                               type |-> Union(<<[name |-> "b", type |-> Plain("ANY")],
                                                [name |-> "A", type |-> Plain("INT")]>>)]>>]

MCIds == {Plain("INT"), Plain("ANY"), Plain("STRUCT")}
MCLogicals == {StructOne, StructTwo, ArrayTwo}
MCReturnables == {Plain("INT"), List(Plain("ANY"))}
MCVarargsTypes == {Plain("INT"), ListOne}
Made == MCIds \cup MCLogicals \cup MCReturnables \cup MCVarargsTypes
MCTypes == Made \cup UNION {{t.members[i].type : i \in DOMAIN t.members} : t \in Made}
MCPartCalls ==
    {{"bind", "init"}, {"scan"}, {"local_init"}, {"extra_info"}, {"function"},
     {"state_size", "init", "update", "combine", "finalize"}, {"combine"}}
=============================================================================
