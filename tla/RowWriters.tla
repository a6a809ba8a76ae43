----------------------------- MODULE RowWriters -----------------------------
(* Writers of rows: an appender (Appender), the chunks of a table function *)
(* with a list column (ListColumn), output vectors with vectors below them *)
(* (NestedNulls), and chunks made of Arrow arrays (ArrowImport).           *)
EXTENDS Appender, Integers, Sequences

CONSTANTS
    ColumnCapacity, ChildCapacity, ElementTypes, AllocationBytes,
    MAX_LIST_CHILD_CAPACITY, PowersOfTwo, Limits, MaxLen, None,
    Vectors, ArraySize, OutputRows, Columns,
    Slices, BatchSlices, Bitmaps, ListBuffers, ViewBuffers, IndexBuffers,
    RunBuffers, TagBuffers, ArraySizes, Limit, MaxCapacity, MaxWraps

VARIABLES
    type, row_count, claimed, said, refused, list, entries, child, outcome, published,
    mask, spread, revived, array, wraps, batch

LC == INSTANCE ListColumn
NN == INSTANCE NestedNulls
IM == INSTANCE ArrowImport

\* A ListBuilder.
Builders == [started : BOOLEAN, written : Nat, reserved : Nat, limit : Nat,
             ceiling : Nat, overflowed : BOOLEAN, writer : Nat \cup {None}]

\* None is no number and no builder.
ASSUME NoneAssumption == None \notin Nat \cup Builders

ASSUME SizeAssumption ==
    /\ ColumnCapacity \in Nat /\ ChildCapacity \in Nat /\ MaxLen \in Nat
    /\ AllocationBytes \in Nat /\ MAX_LIST_CHILD_CAPACITY \in Nat
    /\ Limits \subseteq Nat

\* What DuckDB resizes is no wider than the wrapper reckons (ElementBytes).
ASSUME ElementAssumption ==
    \A t \in ElementTypes :
        /\ t.widths \subseteq Nat
        /\ t.bytes # None =>
               t.bytes \in Nat /\ \A w \in t.widths : w <= t.bytes

\* The powers of two go down to 1, one half at a time, and up to the limit.
ASSUME PowersAssumption ==
    /\ PowersOfTwo \subseteq Nat \ {0}
    /\ \A p \in PowersOfTwo : p = 1 \/ p \div 2 \in PowersOfTwo
    /\ \A n \in 0..MAX_LIST_CHILD_CAPACITY : \E p \in PowersOfTwo : n <= p

\* A vector comes with all above it, and nesting ends somewhere.
ASSUME TreeAssumption ==
    /\ Vectors \subseteq Seq(Nat) /\ <<>> \in Vectors
    /\ \A v \in Vectors : v # <<>> => NN!Above(v) \in Vectors
    /\ \E deepest \in Vectors : \A v \in Vectors : Len(v) <= Len(deepest)
    /\ ArraySize \in [Vectors -> Nat] /\ OutputRows \in Nat

\* What a producer may put into a buffer: anything, but it does not call a row
\* NULL in an array that has no NULLs, and a union's type ids are its members'.
ASSUME BufferAssumption ==
    /\ \A s \in Slices \cup BatchSlices : s.length \in Nat /\ s.offset \in Nat
    /\ \A b \in Bitmaps : /\ b.count \in Int /\ b.nulls \subseteq Nat
                          /\ b.count = 0 => b.nulls = {}
    /\ \A b \in ListBuffers : \A at \in DOMAIN b : b[at] \in Int
    /\ \A b \in ViewBuffers : \A at \in DOMAIN b :
          b[at].offset \in Int /\ b[at].size \in Int
    /\ \A b \in TagBuffers : \A at \in DOMAIN b : b[at] \in {0, 1}
    /\ \A b \in RunBuffers : DOMAIN b \subseteq Nat /\ \A k \in DOMAIN b : b[k] \in Int
    /\ ArraySizes \subseteq Nat /\ Limit \in Nat

\* A chunk is given whole rows, and only those claimed for it
\* (chunk_writer.rs, vector/list_builder.rs).
PublishedRowsWhole == LC!PublishedRowsWhole

\* A list's child is written where it is, and grows no further than DuckDB
\* lets it (vector/list_builder.rs).
ChildWritesSafe == LC!ChildWritesSafe

\* Below a NULL all is NULL that was not made valid since (vector/nested_null.rs).
NullsReachDown == NN!NullsReachDown

\* An imported Arrow array has the rows Arrow says it has
\* (arrow/import_layout.rs).
ImportedRight == IM!ImportedRight
=============================================================================
