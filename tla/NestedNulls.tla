----------------------------- MODULE NestedNulls -----------------------------
(***************************************************************************)
(* NULLs in an output vector with vectors below it: VectorWriter and       *)
(* StructWriter (src/src/vector/writer.rs, struct_writer.rs), the masks a  *)
(* NULL also reaches (vector/nested_null.rs), and DataChunk's propagation  *)
(* of argument NULLs (src/src/data_chunk.rs).  DuckDB (external) reads a   *)
(* field without looking at its parent's mask, so a NULL must be in every  *)
(* mask below it.                                                          *)
(***************************************************************************)
EXTENDS Integers, Sequences

CONSTANTS
    Vectors,    \* the output vector, <<>>, and those below it, each by the path
                \* of fields that leads to it; a LIST's child has rows of its
                \* own, and is not one of them
    ArraySize,  \* of each vector, 0 if it is no ARRAY
    OutputRows, \* the rows of the chunk, numbered from 0
    Columns     \* argument columns

\* The vector that holds `v`, and the vectors it is below.
Above(v) == SubSeq(v, 1, Len(v) - 1)
IsBelow(u, v) == Len(v) < Len(u) /\ SubSeq(u, 1, Len(v)) = v

\* How many rows of each vector below `v` one row of `v` has: an ARRAY's child
\* has an array's worth for each of its rows, a STRUCT's fields have one.
RowsPerRow == [v \in Vectors |->
    LET rows[u \in Vectors] ==
            IF Len(u) <= Len(v) THEN 1
            ELSE IF ArraySize[Above(u)] > 0 THEN rows[Above(u)] * ArraySize[Above(u)]
            ELSE rows[Above(u)]
    IN  rows]
RowsOf(v) == 0..(OutputRows * RowsPerRow[<<>>][v] - 1)

VARIABLES
    mask,   \* the NULL rows of each vector
    spread, \* the rows propagate_nulls was last run for and made NULL
    revived \* of each vector, the rows set_valid brought back from NULL, of
            \* itself or above, and that were not made NULL since

nnVars == <<mask, spread, revived>>

Init ==
    /\ mask = [v \in Vectors |-> {}]
    /\ spread = {}
    /\ revived = [v \in Vectors |-> {}]

-----------------------------------------------------------------------------

\* Mutant: an array below an array covers as many rows as one at the top.
collect_flat(v) ==
    LET rows[u \in Vectors] ==
            IF Len(u) <= Len(v) THEN 1
            ELSE IF ArraySize[Above(u)] > 0 THEN ArraySize[Above(u)]
            ELSE rows[Above(u)]
    IN  {[at |-> u, rows_per_row |-> rows[u]] : u \in {u \in Vectors : IsBelow(u, v)}}

\* `resolve`, by `nested_null::collect`: the masks below a vector.
collect(v) ==
    {[at |-> u, rows_per_row |-> RowsPerRow[v][u]] : u \in {u \in Vectors : IsBelow(u, v)}}

\* The rows of a mask that rows of the vector above cover, `NullTarget`.
Covered(target, rows) ==
    UNION {(r * target.rows_per_row)..((r + 1) * target.rows_per_row - 1) : r \in rows}

\* `NullTarget::clear` and `restore`, in every mask `resolve` found.
clear_nested(m, v, rows) ==
    [u \in Vectors |->
        m[u] \cup UNION {Covered(t, rows) : t \in {t \in collect(v) : t.at = u}}]
restore_nested(m, v, rows) ==
    [u \in Vectors |->
        m[u] \ UNION {Covered(t, rows) : t \in {t \in collect(v) : t.at = u}}]

\* `set_null_range`; `set_null` is the range of one row.  StructWriter's
\* `set_row_null` and `set_null` are those of its parent and its fields.
Nulled(m, v, rows) == clear_nested([m EXCEPT ![v] = @ \cup rows], v, rows)

\* The row of `above` that row `row` of `v`, below it, belongs to, and the rows
\* of each vector that belong to rows of `v`.
RowAbove(v, above, row) == row \div RowsPerRow[above][v]
Reached(v, rows) ==
    [u \in Vectors |->
        {r \in RowsOf(u) : \/ u = v /\ r \in rows
                           \/ IsBelow(u, v) /\ RowAbove(u, v, r) \in rows}]

set_null_range(v, rows) ==
    /\ mask' = Nulled(mask, v, rows)
    /\ revived' = [u \in Vectors |-> revived[u] \ Reached(v, rows)[u]]
    /\ UNCHANGED spread

\* `set_valid`, also of a field of a NULL row.  What was NULL becomes valid with
\* all below it; a row that is valid keeps the NULLs of its fields.
set_valid(v, row) ==
    /\ IF row \in mask[v]
       THEN /\ mask' = restore_nested([mask EXCEPT ![v] = @ \ {row}], v, {row})
            /\ revived' = [u \in Vectors |-> revived[u] \cup Reached(v, {row})[u]]
       ELSE UNCHANGED <<mask, revived>>
    /\ UNCHANGED spread

\* `any_null`; `args` are the NULL rows of each argument column.
any_null(args, row) == \E c \in DOMAIN args : row \in args[c]

\* `propagate_nulls`.
propagate_nulls(args) ==
    LET rows == {r \in 0..(OutputRows - 1) : any_null(args, r)} IN
    /\ spread' = rows
    /\ mask' = Nulled(mask, <<>>, rows)
    /\ revived' = [u \in Vectors |-> revived[u] \ Reached(<<>>, rows)[u]]

Next ==
    \/ \E v \in Vectors :
          \/ \E from, to \in RowsOf(v) : set_null_range(v, from..to)
          \/ \E row \in RowsOf(v) : set_valid(v, row)
    \/ \E args \in [1..Columns -> SUBSET (0..(OutputRows - 1))] : propagate_nulls(args)

Spec == Init /\ [][Next]_nnVars

-----------------------------------------------------------------------------

\* Whoever reads below a NULL row, at any depth, finds NULL, unless that row, or
\* one between it and the NULL, was itself made valid afterwards, which nothing
\* refuses; a row that was made valid is so until it is made NULL again; and a
\* row with a NULL argument stays NULL once the arguments' NULLs were
\* propagated, unless it was made valid (nested_null.rs, the module's doc;
\* writer.rs, `set_valid`).
NullsReachDown ==
    /\ \A u \in Vectors : \A null \in mask[u] :
          /\ null \in RowsOf(u) \ revived[u]
          /\ \A v \in Vectors : IsBelow(v, u) =>
                \A row \in RowsOf(v) :
                   RowAbove(v, u, row) = null => row \in mask[v] \cup revived[v]
    /\ spread \subseteq mask[<<>>] \cup revived[<<>>]
=============================================================================
