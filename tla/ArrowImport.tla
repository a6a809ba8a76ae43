----------------------------- MODULE ArrowImport -----------------------------
(***************************************************************************)
(* Importing an Arrow array as a data chunk (data_chunk_from_arrow in      *)
(* src/src/arrow/convert.rs).  The wrapper walks the array beside its      *)
(* schema (arrow/import_layout.rs, import_layout/bounds.rs,                *)
(* arrow/import_check.rs) and refuses what DuckDB would import from the    *)
(* wrong rows or out of bounds; the walk mirrors DuckDB's calls.  Here are *)
(* the walk, DuckDB's conversion as the comments and                       *)
(* docs/upstream-duckdb-reports.md describe it (external), and what Arrow  *)
(* says the rows are, so that the three can be compared on every array a   *)
(* producer builds.  A batch has one column, as columns are independent.   *)
(* A value is the position it is read from.                                *)
(***************************************************************************)
EXTENDS Integers, Sequences

CONSTANTS
    Slices,         \* [length, offset] of an array
    BatchSlices,    \* [length, offset] of a batch
    Bitmaps,        \* [count, nulls]: a null count and the NULL positions
    ListBuffers,    \* offsets buffers of lists
    ViewBuffers,    \* offsets and sizes of list views
    IndexBuffers,   \* indices of dictionary-encoded arrays
    RunBuffers,     \* run ends
    TagBuffers,     \* type ids of unions
    ArraySizes,     \* sizes of fixed-size lists
    Limit,          \* duckdb_vector_size: rows of a dictionary's mask
    MaxCapacity,    \* vector::ops::MAX_CAPACITY
    PowersOfTwo,
    MaxWraps,       \* bound: levels of nesting
    None

VARIABLES
    array,      \* the array that is being built: itself last, after those in it
    wraps,      \* how deep it is
    batch       \* what was imported, and whether it was accepted, or None

iVars == <<array, wraps, batch>>

\* An Arrow array and its schema, a node: `data` is the buffer that says where
\* its rows are, and `children` are the positions of its children, which come
\* before it.  A dictionary is the only child of its indices, and the run ends
\* are the `data` of a run-end-encoded array.
Node(kind, slice, bits, data, children) ==
    [kind |-> kind, length |-> slice.length, offset |-> slice.offset,
     count |-> bits.count, nulls |-> bits.nulls, data |-> data,
     children |-> children]

NoNulls == [count |-> 0, nulls |-> {}]
Positions(node) == 0..(node.offset + node.length - 1)
Unions == {"union", "recoded"}

\* `copies_validity`.
CopiesValidity(node) == node.count # 0 /\ node.kind \notin Unions \cup {"runend", "null"}

-----------------------------------------------------------------------------
(* What Arrow says row `p` of an array is, `p` counted before its offset.  *)

Null == <<"null">>
Stray == <<"stray">>

RunAt(ends, at) == CHOOSE k \in DOMAIN ends :
                      /\ ends[k] > at
                      /\ \A j \in DOMAIN ends : ends[j] > at => ends[k] <= ends[j]

\* What was made of the nodes before one, its children among them.
Before(i, made) == [j \in 1..(i - 1) |-> made[j]]

\* Row `p` of a node, when `below` are the rows of its children.
RowOf(node, p, below) ==
    LET at == p + node.offset
        Child(q) == below[node.children[1]][q] IN
    IF node.kind = "null" THEN Null     \* it has no buffers
    ELSE IF at \notin Positions(node) THEN Stray
    ELSE IF at \in node.nulls THEN Null
    ELSE CASE node.kind \in {"leaf", "copied"} -> <<"at", at>>
           [] node.kind = "struct" ->
                <<"fields", [f \in DOMAIN node.children |-> below[node.children[f]][at]]>>
           [] node.kind \in {"list", "map"} ->
                <<"list", [k \in 1..(node.data[at + 1] - node.data[at]) |->
                              Child(node.data[at] + k - 1)]>>
           [] node.kind = "view" ->
                <<"list", [k \in 1..node.data[at].size |-> Child(node.data[at].offset + k - 1)]>>
           [] node.kind = "fixed" ->
                <<"list", [k \in 1..node.data |-> Child(at * node.data + k - 1)]>>
           [] node.kind = "union" ->
                <<"member", node.data[at], below[node.children[node.data[at] + 1]][at]>>
           [] node.kind = "recoded" ->     \* the type codes are 1, 0
                <<"member", 1 - node.data[at], below[node.children[2 - node.data[at]]][at]>>
           [] node.kind = "runend" -> Child(RunAt(node.data, at))
           [] node.kind = "dict" -> Child(node.data[at])

\* The rows of every node of `a`.
ArrowRow(a) ==
    LET row[i \in DOMAIN a] == [p \in Int |-> RowOf(a[i], p, Before(i, row))]
    IN  row

-----------------------------------------------------------------------------
(* What DuckDB makes of it.  It locates a node's rows by a parent offset,  *)
(* or by a nested offset that replaces it inside a list; `vparent` is the  *)
(* parent offset for the validity, `masked` are rows NULL in an enclosing  *)
(* struct, `spread` those NULL in an enclosing fixed-size list.            *)

Routes == {"physical", "plain", "fixed", "member"}
Offsets == {None} \cup Nat

Passed == [nested : Offsets, parent : Nat, vparent : Nat, size : Nat,
           masked : SUBSET Nat, spread : SUBSET Nat, route : Routes,
           inMap : BOOLEAN, chunk : Nat]

Top(rows) == [nested |-> None, parent |-> 0, vparent |-> 0, size |-> rows,
              masked |-> {}, spread |-> {}, route |-> "physical",
              inMap |-> FALSE, chunk |-> rows]

From(node, c, parent) == node.offset + (IF c.nested # None THEN c.nested ELSE parent)

NextPowerOfTwo(n) == CHOOSE k \in PowersOfTwo : n <= k /\ (k = 1 \/ n > k \div 2)

\* Whether the `n` positions from `at` on are in the node's buffers.
Within(node, at, n) == n = 0 \/ (at >= 0 /\ at + n <= node.offset + node.length)

\* The child elements of list rows, as the first one and how many.
ListSpan(node, start, size) ==
    IF size = 0 THEN [first |-> 0, total |-> 0]
    ELSE [first |-> node.data[start], total |-> node.data[start + size] - node.data[start]]

Sizes(node, start, size) ==
    LET sum[n \in 0..size] == IF n = 0 THEN 0 ELSE sum[n - 1] + node.data[start + n - 1].size
    IN sum[size]

ViewSpan(node, start, size) ==
    LET views == {node.data[start + i] : i \in 0..(size - 1)}
        used == {v.offset : v \in {w \in views : w.size # 0}} \cup {node.data[start].offset}
    IN IF size = 0 THEN [first |-> 0, total |-> 0]
       ELSE [first |-> CHOOSE o \in used : \A q \in used : o <= q,
             total |-> Sizes(node, start, size)]

\* The rows of a converted vector, or none when the conversion read or wrote
\* outside a buffer.
Vector(safe, rows) == [safe |-> safe, rows |-> IF safe THEN rows ELSE <<>>]
Unsafe == Vector(FALSE, <<>>)

RowIds(c) == 0..(c.size - 1)
ValuesAt(node, c) == From(node, c, c.parent)
ValidityAt(node, c) == From(node, c, c.vparent)

\* The rows DuckDB makes NULL: the node's own, and the enclosing ones.
OwnNulls(node, c) ==
    IF CopiesValidity(node) THEN {i \in RowIds(c) : ValidityAt(node, c) + i \in node.nulls} ELSE {}
NullRows(node, c) == OwnNulls(node, c) \cup c.masked \cup c.spread

Inside(node, c) ==
    /\ CopiesValidity(node) => Within(node, ValidityAt(node, c), c.size)
    /\ NextPowerOfTwo(c.size) <= MaxCapacity
Reads(node, c) == Inside(node, c) /\ Within(node, ValuesAt(node, c), c.size)

\* `below` are the conversions of the node's children.
ConvertLeaf(node, c) ==
    Vector(Reads(node, c) /\ (node.kind = "copied" => c.size <= Limit),
           [i \in RowIds(c) |->
               IF i \in NullRows(node, c) THEN Null ELSE <<"at", ValuesAt(node, c) + i>>])

FieldPassed(node, c) ==
    [c EXCEPT !.parent = node.offset, !.vparent = node.offset,
              !.masked = NullRows(node, c), !.spread = {}, !.route = "physical"]

ConvertStruct(node, c, below) ==
    LET Field(f) == below[node.children[f]][FieldPassed(node, c)] IN
    Vector(Inside(node, c) /\ \A f \in DOMAIN node.children : Field(f).safe,
           [i \in RowIds(c) |->
               IF i \in NullRows(node, c) THEN Null
               ELSE <<"fields", [f \in DOMAIN node.children |-> Field(f).rows[i]]>>])

\* Lists: `span` is what they have of the child, empty ones convert it as a
\* plain array; `entries` are where each row's items start and how many it has.
ItemPassed(node, c, span) ==
    [c EXCEPT !.nested = IF span.first = 0 /\ span.total = 0 THEN None ELSE span.first,
              !.parent = 0, !.vparent = node.offset, !.size = span.total,
              !.masked = {}, !.spread = {}, !.inMap = node.kind = "map",
              !.route = IF span.first = 0 /\ span.total = 0 THEN "plain" ELSE "physical"]

Entry(entry, items) ==
    <<"list", [k \in 1..entry.size |->
        IF entry.offset + k - 1 \in DOMAIN items.rows
        THEN items.rows[entry.offset + k - 1] ELSE Stray]>>

Entries(node, c, items, entries) ==
    [i \in RowIds(c) |-> IF i \in NullRows(node, c) THEN Null ELSE Entry(entries[i], items)]

ConvertList(node, c, below) ==
    LET at == ValuesAt(node, c)
        span == ListSpan(node, at, c.size)
        items == below[node.children[1]][ItemPassed(node, c, span)]
        ordered == c.size = 0 \/
           /\ node.data[at] >= 0
           /\ \A i \in RowIds(c) : node.data[at + i] <= node.data[at + i + 1]
    IN IF Reads(node, c) /\ ordered
       THEN Vector(items.safe,
                   Entries(node, c, items,
                       [i \in RowIds(c) |-> [offset |-> node.data[at + i] - span.first,
                                           size |-> node.data[at + i + 1] - node.data[at + i]]]))
       ELSE Unsafe

ConvertView(node, c, below) ==
    LET at == ValuesAt(node, c)
        span == ViewSpan(node, at, c.size)
        items == below[node.children[1]][ItemPassed(node, c, span)]
        unsigned == \A i \in RowIds(c) : node.data[at + i].offset >= 0 /\ node.data[at + i].size >= 0
    IN IF Reads(node, c) /\ unsigned
       THEN Vector(items.safe,
                   Entries(node, c, items,
                       [i \in RowIds(c) |-> [offset |-> node.data[at + i].offset - span.first,
                                           size |-> node.data[at + i].size]]))
       ELSE Unsafe

ElementPassed(node, c) ==
    LET n == node.data
        first == ValuesAt(node, c) * n
        total == c.size * n IN
    [c EXCEPT !.nested = IF first = 0 /\ total = 0 THEN None ELSE first,
              !.parent = 0, !.vparent = node.offset, !.size = total,
              !.masked = {}, !.route = IF first = 0 /\ total = 0 THEN "plain" ELSE "fixed",
              !.spread = {k \in 0..(total - 1) : k \div n \in NullRows(node, c)}]

ConvertFixed(node, c, below) ==
    LET items == below[node.children[1]][ElementPassed(node, c)] IN
    Vector(Inside(node, c) /\ items.safe,
           Entries(node, c, items,
               [i \in RowIds(c) |-> [offset |-> i * node.data, size |-> node.data]]))

MemberPassed(c) ==
    [c EXCEPT !.parent = 0, !.vparent = c.parent, !.masked = {}, !.spread = {},
              !.inMap = FALSE, !.route = "member"]

ConvertUnion(node, c, below) ==
    LET at == ValuesAt(node, c)
        Member(f) == below[node.children[f]][MemberPassed(c)] IN
    Vector(Reads(node, c) /\ \A f \in DOMAIN node.children : Member(f).safe,
           [i \in RowIds(c) |->
               IF node.count # 0 THEN Stray
               ELSE <<"member", node.data[at + i], Member(node.data[at + i] + 1).rows[i]>>])

\* A union member's dictionary or run-end encoding is read from row 0.
FromRowZero(c) ==
    IF c.route = "member" THEN [c EXCEPT !.nested = None, !.parent = 0] ELSE c

ConvertRuns(a, node, c, below) ==
    LET logical == ValuesAt(node, FromRowZero(c))
        values == below[node.children[1]][
            [Top(a[node.children[1]].length) EXCEPT
                !.vparent = logical - node.offset, !.route = "plain", !.chunk = c.chunk]]
    IN IF c.route \in {"plain", "fixed"} THEN Unsafe
       ELSE Vector(Inside(node, c) /\ Within(node, logical, c.size) /\ values.safe,
                   [i \in RowIds(c) |-> values.rows[RunAt(node.data, logical + i)]])

ConvertDictionary(a, node, c, below) ==
    LET child == a[node.children[1]]
        index == ValuesAt(node, FromRowZero(c))
        \* The validity takes no nested offset, and a mask holds Limit rows.
        bits == node.offset + FromRowZero(c).parent
        \* `CanContainNull`.
        nulls == IF node.count > 0 \/ c.masked # {}
                 THEN (IF CopiesValidity(node) THEN {i \in RowIds(c) : bits + i \in node.nulls}
                       ELSE {}) \cup c.masked
                 ELSE {}
        values == below[node.children[1]][[Top(child.length) EXCEPT !.chunk = c.chunk]]
        safe == /\ NextPowerOfTwo(c.size) <= MaxCapacity
                /\ Within(node, index, c.size)
                /\ CopiesValidity(node) => Within(node, bits, c.size) /\ c.size <= Limit
                /\ \A i \in c.masked : i < Limit
                /\ values.safe
                /\ c.route # "plain" =>
                     \A i \in RowIds(c) \ nulls : node.data[index + i] \in 0..(child.length - 1)
                /\ c.route = "fixed" /\ c.inMap => c.chunk <= c.size
    IN Vector(safe, [i \in RowIds(c) |->
          IF i \in nulls THEN Null
          ELSE IF c.route = "plain" THEN <<"index", node.data[index + i]>>
          ELSE IF child.kind = "dict" THEN Stray
          ELSE values.rows[node.data[index + i]]])

Convert(a, node, c, below) ==
    CASE node.kind = "null" -> Vector(TRUE, [i \in RowIds(c) |-> Null])
      [] node.kind \in {"leaf", "copied"} -> ConvertLeaf(node, c)
      [] node.kind = "struct" -> ConvertStruct(node, c, below)
      [] node.kind \in {"list", "map"} -> ConvertList(node, c, below)
      [] node.kind = "view" -> ConvertView(node, c, below)
      [] node.kind = "fixed" -> ConvertFixed(node, c, below)
      [] node.kind \in Unions -> ConvertUnion(node, c, below)
      [] node.kind = "runend" -> ConvertRuns(a, node, c, below)
      [] node.kind = "dict" -> ConvertDictionary(a, node, c, below)

\* The vector DuckDB makes of every node of `a`.
Converted(a) ==
    LET vector[i \in DOMAIN a] == [c \in Passed |-> Convert(a, a[i], c, Before(i, vector))]
    IN  vector

-----------------------------------------------------------------------------
(* The wrapper's walk.                                                     *)

Ctx == [nested : Offsets, parent : Nat, vparent : Nat, inherited : Nat, size : Nat,
        structNulls : BOOLEAN, broadcastNulls : BOOLEAN, inMap : BOOLEAN, route : Routes]

\* `Ctx::column`: what DuckDB passes to a node, and where Arrow says its rows
\* start.
ColumnCtx(rows) ==
    [nested |-> None, parent |-> 0, vparent |-> 0, inherited |-> 0, size |-> rows,
     structNulls |-> FALSE, broadcastNulls |-> FALSE, inMap |-> FALSE, route |-> "physical"]

\* `duck_start`, `duck_validity` and `arrow_start`.
DuckStart(c, offset) == offset + (IF c.nested # None THEN c.nested ELSE c.parent)
DuckValidity(c, offset) == offset + (IF c.nested # None THEN c.nested ELSE c.vparent)
ArrowStart(c, offset) == offset + c.inherited

FitsOneVector(rows) == NextPowerOfTwo(rows) <= MaxCapacity

\* A union member's dictionary or run-end encoding converts from row 0.
MemberCtx(c) ==
    IF c.route = "member" THEN [c EXCEPT !.nested = None, !.parent = 0, !.vparent = 0] ELSE c

\* `bounds::covers`.
Covers(node, c) == c.size = 0 \/ (c.inherited >= 0 /\ c.inherited + c.size <= node.length)

\* `bounds::list_range`.
ListRangeOk(node, start, size, childLength) ==
    /\ node.data[start] >= 0
    /\ \A i \in 1..size : node.data[start + i - 1] <= node.data[start + i]
    /\ node.data[start + size] <= childLength

\* `list_view_range`, with `bounds::list_view_entry`, and the check after it.
ViewRangeOk(node, start, size, childLength) ==
    LET views == {node.data[start + i] : i \in 0..(size - 1)}
        span == ViewSpan(node, start, size) IN
    /\ \A w \in views : w.offset >= 0 /\ w.size >= 0
    /\ \A w \in views : w.size # 0 => w.offset + w.size <= span.first + span.total
    /\ span.first + span.total <= childLength

\* `bounds::dictionary_indices`.
IndicesInside(node, start, size, values, skipNulls) ==
    \A row \in start..(start + size - 1) :
        (skipNulls /\ row \in node.nulls) \/ node.data[row] \in 0..(values - 1)

\* `check_node`: the dictionary branch; `below` are the checks of the children.
CheckDictionary(a, node, c, below) ==
    LET arrow == ArrowStart(c, node.offset)
        own == CopiesValidity(node)
        values == a[node.children[1]] IN
    /\ c.route # "plain"
    /\ ~(c.inMap /\ c.route = "fixed")
    /\ Covers(node, c)
    /\ c.size > 0 => DuckStart(c, node.offset) = arrow
    /\ own => node.count > 0
    /\ own /\ c.size > 0 => node.offset + c.parent = arrow
    /\ own \/ c.structNulls => c.size <= Limit
    /\ values.kind # "dict"
    /\ IndicesInside(node, arrow, c.size, values.length, own)
    /\ below[node.children[1]][ColumnCtx(values.length)]

\* Mutant: as Arrow counts, a struct adds the offsets above it to its own.
FieldCtxAdds(node, c) ==
    [nested |-> c.nested, parent |-> c.parent + node.offset, vparent |-> node.offset,
     inherited |-> ArrowStart(c, node.offset), size |-> c.size,
     structNulls |-> c.structNulls \/ c.broadcastNulls \/ CopiesValidity(node),
     broadcastNulls |-> FALSE, inMap |-> c.inMap, route |-> "physical"]

\* The struct case: a struct passes its own offset, and no other.
FieldCtx(node, c) ==
    [nested |-> c.nested, parent |-> node.offset, vparent |-> node.offset,
     inherited |-> ArrowStart(c, node.offset), size |-> c.size,
     structNulls |-> c.structNulls \/ c.broadcastNulls \/ CopiesValidity(node),
     broadcastNulls |-> FALSE, inMap |-> c.inMap, route |-> "physical"]

\* The list cases: `first` and `total` are what DuckDB converts.
ItemCtx(node, first, total) ==
    [ColumnCtx(total) EXCEPT
        !.nested = IF total = 0 /\ first = 0 THEN None ELSE first,
        !.vparent = node.offset, !.inherited = first, !.inMap = node.kind = "map",
        !.route = IF total = 0 /\ first = 0 THEN "plain" ELSE "physical"]

\* The fixed-size list case: its NULLs are spread over its child.
ElementCtx(node, c) ==
    LET n == node.data
        first == DuckStart(c, node.offset) * n
        total == c.size * n IN
    [ColumnCtx(total) EXCEPT
        !.nested = IF total = 0 /\ first = 0 THEN None ELSE first,
        !.vparent = node.offset, !.inherited = ArrowStart(c, node.offset) * n,
        !.broadcastNulls = c.structNulls \/ c.broadcastNulls \/ CopiesValidity(node),
        !.inMap = c.inMap,
        !.route = IF total = 0 /\ first = 0 THEN "plain" ELSE "fixed"]

\* The sparse union case.
UnionCtx(node, c) ==
    [ColumnCtx(c.size) EXCEPT
        !.nested = c.nested, !.vparent = c.parent,
        !.inherited = ArrowStart(c, node.offset), !.route = "member"]

\* The run-end case: its values are read as a plain array.
CheckRuns(a, node, c, below) ==
    LET values == a[node.children[1]]
        context == IF c.nested # None THEN c.nested ELSE c.parent IN
    /\ c.route \notin {"plain", "fixed"}
    /\ CopiesValidity(values) => context = 0
    /\ below[node.children[1]][[ColumnCtx(values.length) EXCEPT !.route = "plain"]]

\* `check_node`: the match on the node's kind.
CheckKind(a, node, c, below) ==
    LET start == DuckStart(c, node.offset)
        item == a[node.children[1]]
        Item(ctx) == below[node.children[1]][ctx]
        span == IF node.kind = "view" THEN ViewSpan(node, start, c.size)
                ELSE ListSpan(node, start, c.size) IN
    CASE node.kind = "leaf" -> TRUE
      [] node.kind = "copied" -> c.size <= Limit
      [] node.kind = "struct" ->
           \A f \in DOMAIN node.children : below[node.children[f]][FieldCtx(node, c)]
      [] node.kind \in {"list", "map"} ->
           /\ c.size > 0 => ListRangeOk(node, start, c.size, item.length)
           /\ Item(ItemCtx(node, span.first, span.total))
      [] node.kind = "view" ->
           /\ c.size > 0 => ViewRangeOk(node, start, c.size, item.length)
           /\ Item(ItemCtx(node, span.first, span.total))
      [] node.kind = "fixed" -> Item(ElementCtx(node, c))
      [] node.kind = "union" ->
           \A f \in DOMAIN node.children : below[node.children[f]][UnionCtx(node, c)]
      [] node.kind = "recoded" -> FALSE
      [] node.kind = "runend" -> CheckRuns(a, node, c, below)

\* `check_node`: what every node that is not dictionary-encoded is checked for.
CheckPlain(a, node, c, below) ==
    LET arrow == ArrowStart(c, node.offset) IN
    /\ c.size > 0 /\ CopiesValidity(node) => DuckValidity(c, node.offset) = arrow
    /\ Covers(node, c)
    /\ c.size > 0 /\ node.kind \notin {"struct", "fixed"} => DuckStart(c, node.offset) = arrow
    /\ CheckKind(a, node, c, below)

Check(a, node, c, below) ==
    /\ node.length >= 0 /\ node.offset >= 0
    /\ FitsOneVector(c.size)
    /\ IF node.kind = "dict" THEN CheckDictionary(a, node, MemberCtx(c), below)
       ELSE /\ node.kind \in Unions => node.count = 0
            /\ node.kind # "null" =>
                 CheckPlain(a, node, IF node.kind = "runend" THEN MemberCtx(c) ELSE c, below)

\* `check_node`, of every node of `a`.
CheckNode(a) ==
    LET accepts[i \in DOMAIN a] == [c \in Ctx |-> Check(a, a[i], c, Before(i, accepts))]
    IN  accepts

\* `check_struct_children`: DuckDB ignores the batch's offset.
CheckStructChildren(slice, node) ==
    /\ slice.length >= 0 /\ slice.offset = 0
    /\ node.length >= slice.length

\* `data_chunk_from_arrow`.
Accepted(slice, a) ==
    /\ CheckStructChildren(slice, a[Len(a)])
    /\ CheckNode(a)[Len(a)][ColumnCtx(slice.length)]
    /\ slice.length > 0

-----------------------------------------------------------------------------
(* A producer builds an array from the inside out, and imports it.         *)

Init == array = <<>> /\ wraps = 0 /\ batch = None

\* The buffer covers the array's rows, and `more` entries after them.
Covering(buffers, slice, more) ==
    {b \in buffers : \A at \in slice.offset..(slice.offset + slice.length - 1 + more) :
                        at \in DOMAIN b}

Built(nodes) ==
    /\ batch = None /\ array' = array \o nodes /\ UNCHANGED batch
    /\ wraps' = IF array = <<>> THEN 0 ELSE wraps + 1

\* What was built so far, as a child.
Whole == array[Len(array)]
It == <<Len(array)>>

Plain ==
    /\ array = <<>>
    /\ \E s \in Slices, b \in Bitmaps, kind \in {"leaf", "copied"} :
          Built(<<Node(kind, s, b, <<>>, <<>>)>>)

AllNull ==
    /\ array = <<>>
    /\ \E s \in Slices : Built(<<Node("null", s, NoNulls, <<>>, <<>>)>>)

Wraps == array # <<>> /\ wraps < MaxWraps

StructOf ==
    /\ Wraps
    /\ \E s \in Slices, b \in Bitmaps : Built(<<Node("struct", s, b, <<>>, It)>>)

ListOf ==
    /\ Wraps
    /\ \E s \in Slices, b \in Bitmaps : \E offsets \in Covering(ListBuffers, s, 1) :
          Built(<<Node("list", s, b, offsets, It)>>)

\* A map's entries are a struct.
MapOf ==
    /\ Wraps
    /\ \E s \in Slices : \E offsets \in Covering(ListBuffers, s, 1) :
          LET entries == [length |-> Whole.length, offset |-> 0]
          IN Built(<<Node("struct", entries, NoNulls, <<>>, It),
                     Node("map", s, NoNulls, offsets, <<Len(array) + 1>>)>>)

ViewOf ==
    /\ Wraps
    /\ \E s \in Slices, b \in Bitmaps : \E views \in Covering(ViewBuffers, s, 0) :
          Built(<<Node("view", s, b, views, It)>>)

FixedOf ==
    /\ Wraps
    /\ \E s \in Slices, b \in Bitmaps, n \in ArraySizes : Built(<<Node("fixed", s, b, n, It)>>)

\* A producer may give a union a null count, though it has no bitmap.
UnionOf ==
    /\ Wraps
    /\ \E s \in Slices, kind \in Unions, count \in {0, -1} :
       \E tags \in Covering(TagBuffers, s, 0) :
          Built(<<Node(kind, s, [count |-> count, nulls |-> {}], tags, It \o It)>>)

RunsOf ==
    /\ Wraps
    /\ \E s \in Slices : \E ends \in RunBuffers :
          /\ \E k \in DOMAIN ends : ends[k] >= s.offset + s.length
          /\ \A k \in DOMAIN ends : k < Whole.length
          /\ Built(<<Node("runend", s, NoNulls, ends, It)>>)

DictionaryOf ==
    /\ Wraps
    /\ \E s \in Slices, b \in Bitmaps : \E indices \in Covering(IndexBuffers, s, 0) :
          Built(<<Node("dict", s, b, indices, It)>>)

Import ==
    /\ array # <<>> /\ batch = None
    /\ \E s \in BatchSlices :
          batch' = [length |-> s.length, offset |-> s.offset, accepted |-> Accepted(s, array)]
    /\ UNCHANGED <<array, wraps>>

Discard == batch # None /\ array' = <<>> /\ wraps' = 0 /\ batch' = None

Next ==
    \/ Plain \/ AllNull \/ StructOf \/ ListOf \/ MapOf \/ ViewOf \/ FixedOf
    \/ UnionOf \/ RunsOf \/ DictionaryOf \/ Import \/ Discard

Spec == Init /\ [][Next]_iVars

-----------------------------------------------------------------------------

\* An array that is imported is read as Arrow defines it, row for row, and
\* DuckDB reads and writes inside its buffers on the way, however the array
\* is nested, sliced and encoded (arrow/import_layout.rs).
ImportedRight ==
    batch # None /\ batch.accepted =>
        LET vector == Converted(array)[Len(array)][
                          [Top(batch.length) EXCEPT !.vparent = batch.offset]] IN
        /\ vector.safe
        /\ \A i \in 0..(batch.length - 1) :
              vector.rows[i] = ArrowRow(array)[Len(array)][batch.offset + i]
=============================================================================
