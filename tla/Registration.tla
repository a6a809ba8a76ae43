---------------------------- MODULE Registration ----------------------------
(***************************************************************************)
(* What a LOAD checks before it calls DuckDB and what it then declares:    *)
(* AbiCheck, and the builders of functions.                                *)
(***************************************************************************)
EXTENDS AbiCheck

CONSTANTS Types, Lower(_), MaxTypeNesting, Ids, Logicals, Returnables,
          VarargsTypes, PartCalls, MaxParams, MaxOverloads

VARIABLES kind, fn, overloads, default, typed, pushdown, handed, outcome

FB == INSTANCE FunctionBuilder

\* A type is made of types made before it, so that none is within itself; where
\* members have names, no two have one (DuckDB takes no name twice).
ASSUME TypesAssumption ==
    /\ MaxTypeNesting \in Nat
    /\ \A t \in Types : None \notin {t, FB!describe(t)}
    /\ \A t \in Types : FB!MemberTypes(t) \subseteq Types
    /\ \A S \in SUBSET Types :
          S # {} => \E t \in S : FB!MemberTypes(t) \cap S = {}
    /\ \A t \in Types : FB!Named(t) => \A i, j \in DOMAIN t.members :
          FB!Name(t.members[i]) = FB!Name(t.members[j]) => i = j

\* What the builders' setters are given.
ASSUME BuilderAssumption ==
    /\ Ids \cup Logicals \cup Returnables \cup VarargsTypes \subseteq Types
    /\ None \notin {"typed", "replaced"}
    /\ MaxParams \in Nat

\* DuckDB is handed the function the builder's calls described
\* (scalar/builder, aggregate/builder, table/builder.rs, cast/builder.rs).
HandedAsSaid == FB!HandedAsSaid
=============================================================================
