----------------------------- MODULE TypedScalar -----------------------------
(***************************************************************************)
(* A scalar function made of a closure (src/src/scalar/typed.rs,           *)
(* typed/fallible.rs, typed/ternary.rs, typed_builder.rs): one call of the *)
(* trampoline for one chunk, row by row.  Arguments are NULL or not; the   *)
(* closure's value is the argument row it was computed from.               *)
(*                                                                         *)
(* DuckDB passes vectors of the types the function was declared with.  The *)
(* builder lets nothing redeclare them, but a hand-written Registrar may:  *)
(* the vectors here are of any types, and as many as there are.            *)
(***************************************************************************)
EXTENDS Integers, Sequences, Functions

CONSTANTS
    Sizes,   \* of chunks
    Values,  \* the types of a column read as values; strings are VARCHAR
    None

VARIABLES
    shape,   \* the function: its constructor, and the types of its signature
    given,   \* the types of the vectors DuckDB passes
    chunk,   \* the rows of the argument columns: for each column, is it valid?
    row,     \* the next row
    out,     \* the result vector
    outcome  \* "none", "running", "ok", "error"

tsVars == <<shape, given, chunk, row, out, outcome>>

-----------------------------------------------------------------------------
(* The constructors.  `opt`: the closure sees NULL arguments, and declares *)
(* special NULL handling; `may`: what it may come to for a row.  R may be  *)
(* an Option, so that a NULL result is always among it.                    *)

Infallible == {"value", "null"}
Fallible == {"value", "null", "err"}

map1 == [arity |-> 1, takes |-> Values, opt |-> FALSE, may |-> Infallible]
map2 == [arity |-> 2, takes |-> Values, opt |-> FALSE, may |-> Infallible]
map1_opt == [arity |-> 1, takes |-> Values, opt |-> TRUE, may |-> Infallible]
map2_opt == [arity |-> 2, takes |-> Values, opt |-> TRUE, may |-> Infallible]
map1_str == [arity |-> 1, takes |-> {"VARCHAR"}, opt |-> FALSE, may |-> Infallible]
map2_str == [arity |-> 2, takes |-> {"VARCHAR"}, opt |-> FALSE, may |-> Infallible]
try_map1 == [arity |-> 1, takes |-> Values, opt |-> FALSE, may |-> Fallible]
try_map2 == [arity |-> 2, takes |-> Values, opt |-> FALSE, may |-> Fallible]
try_map1_str == [arity |-> 1, takes |-> {"VARCHAR"}, opt |-> FALSE, may |-> Fallible]
try_map2_str == [arity |-> 2, takes |-> {"VARCHAR"}, opt |-> FALSE, may |-> Fallible]
\* map3 is try_map3 of a closure that cannot fail.
try_map3 == [arity |-> 3, takes |-> Values, opt |-> FALSE, may |-> Fallible]

Constructors ==
    {map1, map2, map1_opt, map2_opt, map1_str, map2_str, try_map1, try_map2,
     try_map1_str, try_map2_str, try_map3}

\* `ScalarOut::type_id`, and the types a vector may have.
VectorTypes == Values \cup {"VARCHAR"}

\* `from_exec`: the closure's own types, kept beside it.
from_exec(c, params, ret) ==
    [opt |-> c.opt, may |-> c.may, params |-> params, ret |-> ret]

Shapes ==
    UNION {{from_exec(c, params, ret) :
                params \in [1..c.arity -> c.takes], ret \in VectorTypes} :
           c \in Constructors}

\* The vectors of a call.
Signatures ==
    UNION {[params : [1..columns -> VectorTypes], ret : VectorTypes] : columns \in 0..3}

\* What the closure reads of a row, each argument as its own type: of a column
\* of another type, or of none, nothing that means anything.
Read(s, g, args) ==
    [i \in DOMAIN s.params |->
        IF i \in DOMAIN args /\ g.params[i] = s.params[i] THEN args[i] ELSE None]

\* What is written for a closure's answer, as its own type; `Option<R>` is R or
\* NULL (`ScalarOut for Option`).
Written(answer, s, g, args) ==
    IF answer = "null" THEN [null |-> TRUE, of |-> <<>>]
    ELSE [null |-> FALSE, of |-> IF g.ret = s.ret THEN Read(s, g, args) ELSE None]
Unwritten == [null |-> FALSE, of |-> None]

Init ==
    /\ shape = None /\ given = None
    /\ chunk = <<>> /\ row = 1 /\ out = <<>> /\ outcome = "none"

\* Mutant: the result's type is taken on trust.
check_arguments_only(s, g) == g.params = s.params

\* `check_signature`: as many columns as the closure reads, each of the type it
\* reads, and a result of the type it writes.
check_signature(s, g) == g.params = s.params /\ g.ret = s.ret

\* `typed_trampoline`, up to the closure.
Call(rows) ==
    /\ outcome = "none"
    /\ shape' \in Shapes /\ given' \in Signatures
    /\ chunk' \in [1..rows -> [DOMAIN given'.params -> BOOLEAN]]
    /\ out' = [r \in 1..rows |-> Unwritten]
    /\ row' = 1
    /\ outcome' = IF check_signature(shape', given') THEN "running" ELSE "error"

AllArguments(args) == \A i \in DOMAIN args : args[i]

\* The closure is called for a row unless it is to be kept from a NULL.
Answers(s, args) ==
    IF s.opt \/ AllArguments(args) THEN s.may \cup {"panic"} ELSE {"null"}

\* One row of the loop.  The first error, or a panic, ends the call.
Row ==
    /\ outcome = "running" /\ row <= Len(out)
    /\ \E answer \in Answers(shape, chunk[row]) :
        IF answer \in {"err", "panic"}
        THEN outcome' = "error" /\ UNCHANGED <<row, out>>
        ELSE /\ out' = [out EXCEPT ![row] = Written(answer, shape, given, chunk[row])]
             /\ row' = row + 1
             /\ UNCHANGED outcome
    /\ UNCHANGED <<shape, given, chunk>>

Return ==
    /\ outcome = "running" /\ row > Len(out)
    /\ outcome' = "ok"
    /\ UNCHANGED <<shape, given, chunk, row, out>>

\* DuckDB has the result, or the error; the next call starts anew.
Taken ==
    /\ outcome \in {"ok", "error"}
    /\ shape' = None /\ given' = None
    /\ chunk' = <<>> /\ row' = 1 /\ out' = <<>> /\ outcome' = "none"

Next ==
    \/ \E rows \in Sizes : Call(rows)
    \/ Row \/ Return \/ Taken

Spec == Init /\ [][Next]_tsVars

\* A call that reports no error has written every row from that row's own
\* arguments, and NULL where a NULL argument must give one, whatever the
\* earlier rows of the chunk were (typed.rs, "NULLs"), and has read and written
\* no vector as a type it does not have (typed_builder.rs, "a second line of
\* defence").
RowsAnswered ==
    outcome = "ok" =>
        \A r \in DOMAIN out :
            /\ out[r] # Unwritten
            /\ ~out[r].null => out[r].of = chunk[r]
            /\ ~shape.opt /\ FALSE \in Range(chunk[r]) => out[r].null
=============================================================================
