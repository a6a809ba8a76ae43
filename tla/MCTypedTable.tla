---------------------------- MODULE MCTypedTable ----------------------------
(* Functions made of closures.  TypedTable for a with_state plan of an     *)
(* extension with the duckdb-1-5 feature and a with_bind_init plan of one  *)
(* without it; TypedScalar for chunks of up to two rows.  One run takes    *)
(* one of the two; the variables of the other keep their first values.     *)
EXTENDS TypedTable, FiniteSets

CONSTANTS Sizes, Values

\* Chunks have sizes, and what was not written is told from every row.
ASSUME ScalarAssumption == Sizes \subseteq Nat /\ None \notin Seq(BOOLEAN)

VARIABLES part, shape, given, chunk, row, out, called

TS == INSTANCE TypedScalar WITH outcome <- called

scalarVars == <<shape, given, chunk, row, out, called>>
MCvars == <<part, vars, scalarVars>>

MCInit ==
    /\ part \in {"table", "scalar"}
    /\ Init /\ TS!Init

MCNext ==
    /\ UNCHANGED part
    /\ \/ part = "table" /\ Next /\ UNCHANGED scalarVars
       \/ part = "scalar" /\ TS!Next /\ UNCHANGED vars

MCSpec == MCInit /\ [][MCNext]_MCvars

\* What a typed scalar function reports as done is each row's own answer
\* (scalar/typed.rs).
RowsAnswered == part = "scalar" => TS!RowsAnswered
=============================================================================
