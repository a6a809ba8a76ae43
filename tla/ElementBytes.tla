---------------------------- MODULE ElementBytes ----------------------------
(* The bytes of a list's elements (src/src/vector/list_builder.rs): what   *)
(* the wrapper reckons for one, and what DuckDB resizes for it.            *)
EXTENDS Integers

CONSTANTS Word, None  \* the integers, scaled down

\* A type is a leaf, by its bytes (`element_bytes`), a STRUCT or UNION, or an
\* ARRAY.
Leaf(b) == [is |-> "leaf", bytes |-> b]
Struct(fields) == [is |-> "struct", fields |-> fields]
Array(size, of) == [is |-> "array", size |-> size, of |-> of]

RECURSIVE resize_bytes_per_element(_)
\* The widest a vector below one element is, None if a product overflows.
resize_bytes_per_element(t) ==
    CASE t.is = "leaf" -> t.bytes
      [] t.is = "struct" ->
             LET each == {resize_bytes_per_element(f) : f \in t.fields} IN
             IF None \in each THEN None
             ELSE CHOOSE w \in each \cup {0} : \A v \in each : v <= w
      [] t.is = "array" ->
             LET of == resize_bytes_per_element(t.of) IN
             IF of = None \/ t.size * of >= Word THEN None ELSE t.size * of

RECURSIVE Widths(_)
\* The bytes of one element in each vector DuckDB resizes (external).
Widths(t) ==
    CASE t.is = "leaf" -> {t.bytes}
      [] t.is = "struct" -> UNION {Widths(f) : f \in t.fields}
      [] t.is = "array" -> {t.size * w : w \in Widths(t.of)}

\* A type as the builder and DuckDB see it.
ElementType(t) == [bytes |-> resize_bytes_per_element(t), widths |-> Widths(t)]
=============================================================================
