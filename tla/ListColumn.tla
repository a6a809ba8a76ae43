----------------------------- MODULE ListColumn -----------------------------
(***************************************************************************)
(* Calls of a table function that fill a chunk with a LIST (or MAP)        *)
(* column: rows claimed and given back on a ChunkWriter                    *)
(* (src/src/chunk_writer.rs), their elements appended by ListBuilders      *)
(* (src/src/vector/list_builder.rs) to one child vector that DuckDB        *)
(* reallocates as it grows.  DuckDB (external) reuses the vectors, so the  *)
(* entries and the elements of an earlier chunk are still in them.         *)
(*                                                                         *)
(* The code the extension runs in the call uses both as documented, in any *)
(* order: it writes or gives back every row it claims, and finishes its    *)
(* builders.                                                               *)
(***************************************************************************)
EXTENDS Integers

CONSTANTS
    ColumnCapacity, \* rows of the chunk
    ChildCapacity,  \* elements the child holds before it grows, a power of two
    ElementTypes,   \* types of the list's elements: the bytes the wrapper
                    \* reckons, and the widths DuckDB resizes (ElementBytes)
    AllocationBytes, MAX_LIST_CHILD_CAPACITY,  \* scaled down: limits in bytes
    PowersOfTwo,    \* the powers of two of a word
    Limits,         \* what with_element_limit is given
    MaxLen,         \* bound: elements of a row
    None

VARIABLES
    type,       \* of the list's elements
    row_count,  \* ChunkWriter
    claimed,    \* the rows claimed and not given back
    said,       \* the number of elements each row was given since it was last
                \* claimed, None if it was not pushed
    refused,    \* the rows a builder refused, in this call
    list,       \* the ListBuilder at work, or None
    entries,    \* the vector: {offset, length} and NULL for each row
    child,      \* the elements: whose each is, room, size, times moved
    outcome,    \* "running", "published", "error" after a panic; what no code
                \* may do is "dangling" or "thrown"
    published   \* the size the chunk was given

lcVars == <<type, row_count, claimed, said, refused, list, entries, child, outcome, published>>

RowIndices == 0..(ColumnCapacity - 1)

\* Least power of two that is at least n, and greatest that is at most n.
checked_next_power_of_two(n) ==
    CHOOSE p \in PowersOfTwo :
        p >= n /\ \A q \in PowersOfTwo : q >= n => p <= q
PowerWithin(n) ==
    LET p == checked_next_power_of_two(n) IN IF p = n THEN p ELSE p \div 2

-----------------------------------------------------------------------------
(* Capacity.                                                               *)

\* `capacity_within`.
capacity_within(bytes, allocation) ==
    LET ceiling == IF allocation < MAX_LIST_CHILD_CAPACITY THEN allocation
                   ELSE MAX_LIST_CHILD_CAPACITY
        fitting == ceiling \div (IF bytes = 0 THEN 1 ELSE bytes)
    IN  IF bytes = None THEN 0
        ELSE IF fitting = 0 THEN 0
        ELSE PowerWithin(fitting)

\* `capacity_for`, and `max_child_capacity` of the vector.
max_child_capacity ==
    LET elements == capacity_within(type.bytes, AllocationBytes)
    IN  IF elements > MAX_LIST_CHILD_CAPACITY THEN MAX_LIST_CHILD_CAPACITY
        ELSE elements

\* `reservation`.
reservation(capacity, limit) ==
    LET p == checked_next_power_of_two(capacity) IN IF p < limit THEN p ELSE limit

\* `duckdb_list_vector_reserve` throws past DuckDB's own limit in bytes, for
\* the power of two it rounds to, or where the allocator has no such block.
Throws(target) ==
    \E w \in type.widths :
        LET bytes == checked_next_power_of_two(target) * w
        IN  bytes > MAX_LIST_CHILD_CAPACITY \/ bytes > AllocationBytes

Stale == [is |-> "stale"]
Of(row, i) == [is |-> "element", row |-> row, at |-> i]
StaleEntry == [offset |-> 0, length |-> 1, null |-> FALSE]

Init ==
    /\ type \in ElementTypes
    /\ row_count = 0 /\ claimed = {}
    /\ said = [r \in RowIndices |-> None] /\ refused = {}
    /\ list = None
    \* what an earlier chunk left; DuckDB resets the size and the NULLs
    /\ entries = [r \in RowIndices |-> StaleEntry]
    /\ child = [of |-> [i \in 0..(MAX_LIST_CHILD_CAPACITY - 1) |-> Stale],
                room |-> ChildCapacity, size |-> 0, moved |-> 0]
    /\ outcome = "running" /\ published = 0

Running == outcome = "running"

-----------------------------------------------------------------------------
(* ChunkWriter.                                                            *)

is_full == row_count >= ColumnCapacity

next_row ==
    /\ Running /\ ~is_full
    /\ row_count' = row_count + 1
    /\ claimed' = claimed \cup {row_count}
    /\ said' = [said EXCEPT ![row_count] = None]
    /\ UNCHANGED <<type, refused, list, entries, child, outcome, published>>

\* Mutant: any claimed row is given back, and the count goes down by one.
Releasable(row) == row_count > 0

\* `release_row`'s assertion.
MayRelease(row) == row + 1 = row_count

\* A panic ends the call with an error, and no rows.  The vector keeps what was
\* written to the row, a NULL too.
release_row(row) ==
    /\ Running /\ row \in claimed
    /\ IF MayRelease(row)
       THEN /\ row_count' = row_count - 1
            /\ claimed' = claimed \ {row}
            /\ UNCHANGED outcome
       ELSE /\ outcome' = "error"
            /\ UNCHANGED <<row_count, claimed>>
    /\ UNCHANGED <<type, said, refused, list, entries, child, published>>

\* `Drop`, when every claimed row has been written and no builder is at work.
publish ==
    /\ Running /\ list = None
    /\ \A r \in claimed : said[r] # None
    /\ published' = row_count /\ outcome' = "published"
    /\ UNCHANGED <<type, row_count, claimed, said, refused, list, entries, child>>

\* `finish_with_size`, of a part of the rows.
finish_with_size(size) ==
    /\ Running /\ list = None /\ size < row_count
    /\ \A r \in 0..(size - 1) : r \in claimed /\ said[r] # None
    /\ published' = size /\ outcome' = "published"
    /\ UNCHANGED <<type, row_count, claimed, said, refused, list, entries, child>>

-----------------------------------------------------------------------------
(* ListBuilder.                                                            *)

\* `writer` is the cached child writer: how often the child had moved when it
\* was made.
new ==
    /\ Running /\ list = None
    /\ list' = [started |-> FALSE, written |-> 0, reserved |-> 0,
                limit |-> MAX_LIST_CHILD_CAPACITY,
                ceiling |-> MAX_LIST_CHILD_CAPACITY,
                overflowed |-> FALSE, writer |-> None]
    /\ UNCHANGED <<type, row_count, claimed, said, refused, entries, child, outcome,
                   published>>

\* Mutant: a limit is held against what any type admits.
LimitedByCount(b, limit) ==
    [b EXCEPT !.limit = IF limit < MAX_LIST_CHILD_CAPACITY THEN limit
                        ELSE MAX_LIST_CHILD_CAPACITY]
Limited(b, limit) ==
    [b EXCEPT !.limit = IF limit < b.ceiling THEN limit ELSE b.ceiling]

\* Before the first row, or between rows: lower than before, or higher.
with_element_limit(limit) ==
    /\ Running /\ list # None
    /\ list' = Limited(list, limit)
    /\ UNCHANGED <<type, row_count, claimed, said, refused, entries, child, outcome,
                   published>>

\* `start`: rows are appended after what the child already holds.
start(b) ==
    IF b.started THEN b
    ELSE [b EXCEPT !.started = TRUE,
                   !.written = child.size, !.reserved = child.size,
                   !.ceiling = max_child_capacity,
                   !.limit = IF @ < max_child_capacity THEN @
                             ELSE max_child_capacity]

\* `ensure_capacity`, of a builder that started: the builder after it.
ensure_capacity(b, capacity) ==
    CASE b.overflowed -> b
      [] ~b.overflowed /\ capacity > b.limit -> [b EXCEPT !.overflowed = TRUE]
      [] ~b.overflowed /\ capacity <= b.limit /\ capacity > b.reserved ->
             [b EXCEPT !.reserved = reservation(capacity, b.limit),
                       !.writer = None]
      [] OTHER -> b

\* DuckDB's side of it: the child moves when it grows.
Reserved(b, capacity) ==
    LET target == reservation(capacity, b.limit)
        room == checked_next_power_of_two(target)
    IN  IF b.overflowed \/ capacity > b.limit \/ capacity <= b.reserved
           \/ room <= child.room
        THEN child
        ELSE [child EXCEPT !.room = room, !.moved = @ + 1]

ThrowsFor(b, capacity) ==
    /\ ~b.overflowed /\ capacity <= b.limit /\ capacity > b.reserved
    /\ reservation(capacity, b.limit) > child.room
    /\ Throws(reservation(capacity, b.limit))

\* What the row held before is no element of it any more.
Written(c, row, base, len) ==
    [c EXCEPT !.of = [i \in DOMAIN c.of |->
        IF i \in base..(base + len - 1) THEN Of(row, i - base)
        ELSE IF c.of[i] # Stale /\ c.of[i].row = row THEN Stale
        ELSE c.of[i]]]

\* `push_row` (and `push_map_row`, which makes its writers anew each time: here
\* `cached` is FALSE), with a closure that writes `len` elements or panics.
push_row(row, len, cached, panics) ==
    LET b == start(list)
        base == b.written
        ready == ensure_capacity(b, base + len)
        grown == Reserved(b, base + len)
        writer == IF cached /\ ready.writer # None THEN ready.writer
                  ELSE grown.moved
    IN  /\ Running /\ list # None
        /\ panics => len > 0 /\ ~ready.overflowed
        /\ said' = [said EXCEPT ![row] = IF ready.overflowed THEN 0 ELSE len]
        /\ outcome' =
               CASE ThrowsFor(b, base + len) -> "thrown"
                 [] ~ready.overflowed /\ len > 0 /\ writer # grown.moved ->
                        "dangling"
                 [] OTHER -> IF panics THEN "error" ELSE "running"
        /\ IF ready.overflowed
           THEN \* `refuse_row`
                /\ entries' = [entries EXCEPT ![row] =
                       [offset |-> ready.written, length |-> 0, null |-> TRUE]]
                /\ refused' = refused \cup {row}
                /\ list' = ready
                /\ UNCHANGED child
           ELSE IF panics
           THEN /\ child' = grown /\ list' = ready
                /\ UNCHANGED <<entries, refused>>
           ELSE /\ child' = Written(grown, row, base, len)
                /\ entries' = [entries EXCEPT ![row] =
                       [@ EXCEPT !.offset = base, !.length = len]]
                /\ list' = [ready EXCEPT
                       !.written = base + len,
                       !.writer = IF cached /\ len > 0 THEN writer ELSE @]
                /\ UNCHANGED refused
        /\ UNCHANGED <<type, row_count, claimed, published>>

finish ==
    /\ Running /\ list # None
    /\ child' = [child EXCEPT !.size = start(list).written]
    /\ list' = None
    /\ UNCHANGED <<type, row_count, claimed, said, refused, entries, outcome, published>>

\* DuckDB calls the function again, or another query's, with the chunk reset
\* (external).
ResetChunk ==
    /\ outcome \in {"published", "error"}
    /\ row_count' = 0 /\ claimed' = {}
    /\ said' = [r \in RowIndices |-> None] /\ refused' = {}
    /\ list' = None
    /\ entries' = [r \in RowIndices |-> StaleEntry]
    /\ child' = [of |-> [i \in DOMAIN child.of |-> Stale],
                 room |-> ChildCapacity, size |-> 0, moved |-> 0]
    /\ outcome' = "running" /\ published' = 0
    /\ UNCHANGED type

Next ==
    \/ next_row \/ publish \/ new \/ finish \/ ResetChunk
    \/ \E row \in RowIndices :
          \/ release_row(row)
          \/ \E len \in 0..MaxLen, cached, panics \in BOOLEAN :
                push_row(row, len, cached, panics)
    \/ \E size \in 0..ColumnCapacity : finish_with_size(size)
    \/ \E limit \in Limits : with_element_limit(limit)

Spec == Init /\ [][Next]_lcVars

-----------------------------------------------------------------------------

\* The chunk is given the rows that were claimed and kept, and no other: each
\* holds the elements of the last push for it, inside the size the child was
\* given, or none and a NULL because that push met the limit; no entry reads a
\* stale element, and no other row is NULL.  One thing reaches a row from
\* before it was claimed: nothing makes it valid if a push for it was refused,
\* it was given back, and a new builder pushed it again, so it is NULL although
\* its elements are there (chunk_writer.rs, `release_row`; list_builder.rs,
\* `refuse_row`, `set_entry`).
PublishedRowsWhole ==
    outcome = "published" =>
        \A r \in 0..(published - 1) :
            LET e == entries[r] IN
            /\ r \in claimed
            /\ e.offset + e.length <= child.size
            /\ e.length = said[r]
            /\ \A i \in 0..(e.length - 1) : child.of[e.offset + i] = Of(r, i)
            /\ e.null <=> r \in refused

\* No element is written through a pointer into a buffer DuckDB has given up,
\* and DuckDB is never asked for a child it would throw over, which would abort
\* the process: the limits round the way its own do, and no limit set later goes
\* past them (list_builder.rs, "The hazard this exists to remove", `ceiling`
\* and `ensure_capacity`).
ChildWritesSafe == outcome \notin {"dangling", "thrown"} /\ child.size <= child.room
=============================================================================
