------------------------------ MODULE Appender ------------------------------
(***************************************************************************)
(* The bulk appender (src/src/appender.rs and src/src/appender/): the      *)
(* wrapper's own record of a row in progress, of the rows it has buffered  *)
(* and of its lifecycle, run against the DuckDB appender it mirrors.       *)
(*                                                                         *)
(* The engine half (names in e...) is external: it does what the comments  *)
(* and tests of the crate say DuckDB does.  A value DuckDB rejects leaves  *)
(* its column counter alone; EndRow wants every column, Flush wants none,  *)
(* and Close flushes only in those two states and otherwise returns        *)
(* success having written nothing; a failed flush keeps the buffer up to   *)
(* 1.5.x and discards it from 2.0.0.  Why a flush fails (a constraint, a   *)
(* closed connection, a streaming result open on it) is a free choice.     *)
(*                                                                         *)
(* A call is one step.  A row closure is not: `row` pushes a frame, the    *)
(* closure makes any calls it likes, and then returns Ok, returns Err or   *)
(* panics.                                                                 *)
(***************************************************************************)
EXTENDS Naturals, FiniteSets

CONSTANTS
    Rows,                 \* identities of the rows that may ever be appended
    Foreign,              \* rows raw calls may have buffered before from_raw
    TableWidth,           \* columns of the table
    FlushThreshold,       \* rows at which the engine may flush on its own
    Engines,              \* the DuckDB generations it may run on
    HasClear,             \* the feature duckdb-1-5, which adds `clear`
    MaxDepth              \* bound: row closures running inside one another

ASSUME AppenderAssumption ==
    /\ IsFiniteSet(Rows)
    /\ Foreign \subseteq Rows
    /\ TableWidth \in Nat \ {0}
    /\ FlushThreshold \in Nat
    /\ Engines \subseteq {"1.5", "2.0"}
    /\ HasClear \in BOOLEAN
    /\ MaxDepth \in Nat

VARIABLES
    lifecycle,  \* the wrapper's Lifecycle; "Gone" once it is dropped or has
                \* been given up to into_raw
    column,     \* values the wrapper counts in the current row
    buffered,   \* rows the wrapper counts as buffered
    depth,      \* row closures running
    eColumn,    \* DuckDB's own column counter
    eActive,    \* columns named by add_column; 0: every column is active
    eRows,      \* rows in DuckDB's buffers
    table,      \* rows written to the table
    fresh,      \* rows nobody has appended yet
    acked,      \* rows whose append returned Ok to the caller
    told        \* rows that were buffered when a call failed to write them or
                \* reported them as lost, or when the caller cleared them

wrapperVars == <<lifecycle, column, buffered, depth>>
engineVars  == <<eColumn, eActive, eRows, table>>
historyVars == <<fresh, acked, told>>
vars == <<wrapperVars, engineVars, historyVars>>

-----------------------------------------------------------------------------
(* The engine: duckdb_appender_* as the crate describes it.                *)

ColumnCount == IF eActive = 0 THEN TableWidth ELSE eActive

\* What is still buffered after a flush of `rows` failed with `col` values in
\* the current row.
KeptAfterFailure(col, rows) ==
    UNION {IF engine = "1.5" THEN {rows}
           ELSE IF col = 0 THEN {{}} ELSE {{}, rows} : engine \in Engines}

FlushOk(col, rows) ==
    /\ col = 0
    /\ table' = table \cup rows
    /\ eRows' = {}

\* Flushing nothing at a row boundary cannot fail.
FlushErr(col, rows) ==
    /\ col # 0 \/ rows # {}
    /\ eRows' \in KeptAfterFailure(col, rows)
    /\ UNCHANGED table

\* Rows reach the buffer, and once enough have the engine may flush it.
Buffer(col, rows, ok) ==
    \/ /\ ok
       /\ eRows' = rows
       /\ UNCHANGED table
    \/ /\ Cardinality(rows) >= FlushThreshold
       /\ \/ ok  /\ FlushOk(col, rows)
          \/ ~ok /\ FlushErr(col, rows)

\* EndRow throws before ending the row only when a column is missing.
EngineEndRow(r, ok) ==
    IF eColumn = ColumnCount
    THEN /\ eColumn' = 0
         /\ fresh' = fresh \ {r}
         /\ Buffer(0, eRows \cup {r}, ok)
    ELSE /\ ~ok
         /\ UNCHANGED <<eColumn, eRows, table, fresh>>

\* Close flushes with no value or with every value in, and otherwise returns
\* success without writing anything.
EngineClose(ok) ==
    IF eColumn \in {0, ColumnCount}
    THEN \/ ok  /\ FlushOk(eColumn, eRows)
         \/ ~ok /\ FlushErr(eColumn, eRows)
    ELSE ok /\ UNCHANGED <<eRows, table>>

-----------------------------------------------------------------------------
(* The wrapper's bookkeeping.                                              *)

\* A fresh wrapper: `new` and its variants find nothing buffered, `from_raw`
\* adopts a handle at a row boundary with whatever was appended through it.
Init ==
    /\ lifecycle = "Open"
    /\ column = 0
    /\ buffered = 0
    /\ depth = 0
    /\ eColumn = 0
    /\ eActive \in 0 .. TableWidth
    /\ eRows \in SUBSET Foreign
    /\ table = {}
    /\ fresh = Rows \ eRows
    /\ acked = {}
    /\ told = {}

Usable == lifecycle = "Open"

Alive == lifecycle # "Gone"

\* Mutant: a failed flush forgets the count.
FlushedAlways(ok) == buffered' = 0

\* `flushed`: the wrapper forgets its count only when the call succeeded.
Flushed(ok) == buffered' = IF ok THEN 0 ELSE buffered

\* The caller gets an error about what is buffered, or nothing to worry about.
Tells(error, rows) == told' = IF error THEN told \cup rows ELSE told

\* `record_append`: only a value DuckDB accepted is counted.
RecordAppend(accepted) == column' = IF accepted THEN column + 1 ELSE column

\* Mutant: every failure of end_row leaves the row open.
RecordEndRowIfOk(ok) ==
    IF ok THEN column' = 0 /\ buffered' = buffered + 1
          ELSE UNCHANGED <<column, buffered>>

\* `end_row`: a failure with every column in is the automatic flush's.
RecordEndRow(ok) ==
    IF ok \/ column = ColumnCount
    THEN column' = 0 /\ buffered' = buffered + 1
    ELSE UNCHANGED <<column, buffered>>

\* A row closure that did not end in a finished row: Err, or PoisonOnUnwind.
PoisonIf(col) == lifecycle' = IF col # 0 THEN "Poisoned" ELSE lifecycle

\* `end_row`, and what `row` adds when it is the caller.
EndRowCall(r, ok, inRow) ==
    /\ EngineEndRow(r, ok)
    /\ RecordEndRow(ok)
    /\ PoisonIf(IF inRow /\ ~ok THEN column' ELSE 0)
    /\ acked' = IF ok THEN acked \cup {r} ELSE acked
    /\ Tells(~ok /\ (eColumn = ColumnCount \/ lifecycle' = "Poisoned"),
             (eRows \cup {r}) \ fresh')

-----------------------------------------------------------------------------
(* The operations.                                                         *)

\* Any append_*: a value refused before DuckDB is called (a payload out of
\* range, a string too long, a null value) counts as one DuckDB rejects.
AppendValue ==
    /\ Usable
    /\ \E accepted \in BOOLEAN :
          /\ accepted => eColumn < ColumnCount
          /\ eColumn' = IF accepted THEN eColumn + 1 ELSE eColumn
          /\ RecordAppend(accepted)
    /\ UNCHANGED <<lifecycle, buffered, depth, eActive, eRows, table,
                   historyVars>>

EndRow ==
    /\ Usable
    /\ \E r \in fresh, ok \in BOOLEAN : EndRowCall(r, ok, FALSE)
    /\ UNCHANGED <<depth, eActive>>

RowEnter ==
    /\ Usable
    /\ column = 0
    /\ depth < MaxDepth
    /\ depth' = depth + 1
    /\ UNCHANGED <<lifecycle, column, buffered, engineVars, historyVars>>

\* The closure returned Ok: `row` ends the row itself, if it still may.
RowReturnsOk ==
    /\ depth > 0
    /\ depth' = depth - 1
    /\ \/ /\ Usable
          /\ \E r \in fresh, ok \in BOOLEAN : EndRowCall(r, ok, TRUE)
       \/ /\ ~Usable
          /\ PoisonIf(column)
          /\ Tells(lifecycle' = "Poisoned", eRows)
          /\ UNCHANGED <<column, buffered, eColumn, eRows, table, fresh, acked>>
    /\ UNCHANGED eActive

\* The closure returned Err.
RowReturnsErr ==
    /\ depth > 0
    /\ depth' = depth - 1
    /\ PoisonIf(column)
    /\ Tells(lifecycle' = "Poisoned", eRows)
    /\ UNCHANGED <<column, buffered, engineVars, fresh, acked>>

\* Mutant: a panic passes through `row` without poisoning.
RowUnwindsUnpoisoned ==
    /\ depth > 0
    /\ depth' = depth - 1
    /\ UNCHANGED <<lifecycle, column, buffered, engineVars, historyVars>>

\* The closure panicked: PoisonOnUnwind runs as the panic leaves `row`.
RowUnwinds ==
    /\ depth > 0
    /\ depth' = depth - 1
    /\ PoisonIf(column)
    /\ Tells(lifecycle' = "Poisoned", eRows)
    /\ UNCHANGED <<column, buffered, engineVars, fresh, acked>>

AppendChunk ==
    /\ Usable
    /\ column = 0
    /\ \E chunk \in SUBSET fresh, ok \in BOOLEAN :
          /\ fresh' = fresh \ chunk
          /\ Buffer(eColumn, eRows \cup chunk, ok)
          /\ buffered' = IF ok THEN buffered + Cardinality(chunk) ELSE buffered
          /\ acked' = IF ok THEN acked \cup chunk ELSE acked
          /\ Tells(~ok, eRows \cup chunk)
    /\ UNCHANGED <<lifecycle, column, depth, eColumn, eActive>>

\* Mutant: a failed flush returns Ok.
FlushSwallowsError ==
    /\ Usable
    /\ FlushOk(eColumn, eRows) \/ FlushErr(eColumn, eRows)
    /\ Flushed(TRUE)
    /\ UNCHANGED <<lifecycle, column, depth, eColumn, eActive, historyVars>>

Flush ==
    /\ Usable
    /\ \E ok \in BOOLEAN :
          /\ IF ok THEN FlushOk(eColumn, eRows) ELSE FlushErr(eColumn, eRows)
          /\ Flushed(ok)
          /\ Tells(~ok, eRows)
    /\ UNCHANGED <<lifecycle, column, depth, eColumn, eActive, fresh,
                   acked>>

\* Mutant: `close` does not look at the row in progress.
CloseMidRow ==
    /\ Usable
    /\ \E ok \in BOOLEAN :
          /\ EngineClose(ok)
          /\ Flushed(ok)
          /\ Tells(~ok, eRows)
          /\ lifecycle' = IF ok THEN "Closed" ELSE lifecycle
    /\ UNCHANGED <<column, depth, eColumn, eActive, fresh, acked>>

Close ==
    /\ Usable
    /\ column = 0
    /\ \E ok \in BOOLEAN :
          /\ EngineClose(ok)
          /\ Flushed(ok)
          /\ Tells(~ok, eRows)
          /\ lifecycle' = IF ok THEN "Closed" ELSE lifecycle
    /\ UNCHANGED <<column, depth, eColumn, eActive, fresh, acked>>

\* `close` when poisoned or in the middle of a row: lost_rows_error.
CloseRefused ==
    /\ Alive
    /\ lifecycle = "Poisoned" \/ (lifecycle = "Open" /\ column # 0)
    /\ Tells(TRUE, eRows)
    /\ UNCHANGED <<wrapperVars, engineVars, fresh, acked>>

\* `clear` works in every lifecycle but does not reopen a closed appender.
Clear ==
    /\ Alive
    /\ HasClear
    /\ eColumn' = 0
    /\ eRows' = {}
    /\ column' = 0
    /\ buffered' = 0
    /\ lifecycle' = IF lifecycle = "Poisoned" THEN "Open" ELSE lifecycle
    /\ Tells(TRUE, eRows)
    /\ UNCHANGED <<depth, eActive, table, fresh, acked>>

\* The engine flushes, then looks the column up; the second may fail too.
AddColumn ==
    /\ Usable
    /\ \/ /\ FlushOk(eColumn, eRows)
          /\ eActive < TableWidth
          /\ eActive' = eActive + 1
          /\ Flushed(TRUE)
          /\ Tells(FALSE, eRows)
       \/ /\ \/ FlushOk(eColumn, eRows)  /\ Tells(FALSE, eRows)
             \/ FlushErr(eColumn, eRows) /\ Tells(TRUE, eRows)
          /\ Flushed(FALSE)
          /\ UNCHANGED eActive
    /\ UNCHANGED <<lifecycle, column, depth, eColumn, fresh, acked>>

ClearColumns ==
    /\ Usable
    /\ \/ /\ FlushOk(eColumn, eRows)
          /\ eActive' = 0
          /\ Flushed(TRUE)
          /\ Tells(FALSE, eRows)
       \/ /\ FlushErr(eColumn, eRows)
          /\ Flushed(FALSE)
          /\ Tells(TRUE, eRows)
          /\ UNCHANGED eActive
    /\ UNCHANGED <<lifecycle, column, depth, eColumn, fresh, acked>>

\* Drop destroys the handle, which closes it first; the outcome is ignored.
Drop ==
    /\ Alive
    /\ depth = 0
    /\ lifecycle' = "Gone"
    /\ \E ok \in BOOLEAN :
          IF eColumn \in {0, ColumnCount} /\ ok
          THEN FlushOk(eColumn, eRows)
          ELSE eRows' = {} /\ UNCHANGED table
    /\ eColumn' = 0
    /\ UNCHANGED <<column, buffered, depth, eActive, historyVars>>

\* The raw handle lives on without its wrapper.
IntoRaw ==
    /\ Alive
    /\ depth = 0
    /\ lifecycle' = "Gone"
    /\ UNCHANGED <<column, buffered, depth, engineVars, historyVars>>

Next ==
    \/ AppendValue \/ EndRow \/ AppendChunk
    \/ RowEnter \/ RowReturnsOk \/ RowReturnsErr \/ RowUnwinds
    \/ Flush \/ Close \/ CloseRefused \/ Clear
    \/ AddColumn \/ ClearColumns
    \/ Drop \/ IntoRaw

Spec == Init /\ [][Next]_vars

-----------------------------------------------------------------------------
(* Properties.                                                             *)

\* Every variable keeps to its type.
TypeOK ==
    /\ lifecycle \in {"Open", "Poisoned", "Closed", "Gone"}
    /\ column \in Nat
    /\ buffered \in Nat
    /\ depth \in 0 .. MaxDepth
    /\ eColumn \in 0 .. TableWidth
    /\ eActive \in 0 .. TableWidth
    /\ eRows \subseteq Rows
    /\ table \subseteq Rows
    /\ fresh \subseteq Rows
    /\ acked \subseteq Rows
    /\ told \subseteq Rows

\* The wrapper's count of the current row's values is DuckDB's own counter
\* after every call, whichever way the call ended ("a mirror of DuckDB's
\* BaseAppender::column", appender.rs): end_row's failure path rests on it.
MirrorExact == Alive => column = eColumn

\* An appender is poisoned exactly while DuckDB holds a half-written row that
\* nobody can finish, so neither a failed automatic flush nor a value that
\* failed first in its row poisons it.
PoisonedHoldsHalfRow == lifecycle = "Poisoned" => eColumn # 0

\* `close` that returned Ok means what it says: nothing is left in a buffer,
\* and every row whose append succeeded is in the table unless a call has
\* already returned an error about it.
CloseIsHonest ==
    lifecycle = "Closed" => eRows = {} /\ acked \subseteq table \cup told

\* While the appender exists, a row whose append succeeded is written, still
\* buffered, or covered by an error some call returned: no call loses one in
\* silence.
NothingLostSilently == Alive => acked \subseteq table \cup eRows \cup told

\* The number a poisoned or unfinished appender reports ("up to N rows") is
\* never less than the rows whose append succeeded and are still unwritten.
LossCountCoversAcked == Alive => Cardinality(eRows \cap acked) <= buffered

\* What the field's comment and the message say: the count covers every row
\* DuckDB holds that this wrapper appended ("Rows ended or appended as chunks
\* since the last flush ... what a poisoned appender loses", appender.rs).
LossCountCoversBuffer ==
    lifecycle = "Poisoned" => Cardinality(eRows) <= buffered

\* No step of a poisoned or closed appender writes a row, its drop included.
InertWritesNothing ==
    [][(lifecycle \in {"Poisoned", "Closed"}) => table' = table]_vars

\* A `row` call never leaves its half-written row to be finished by the
\* caller: it returns with the engine at a row boundary or the appender
\* poisoned, whether its closure succeeded, failed, panicked or nested.
NoHalfRowEscapes ==
    [][depth' < depth => eColumn' = 0 \/ lifecycle' = "Poisoned"]_vars

\* An appender keeps RowSink's promise: seen through the rows whose append
\* succeeded, every call accepts, stores or excuses rows, `close` stores them
\* all, and only dropping the wrapper may leave some unaccounted for.
SinkState == IF lifecycle = "Gone" THEN "gone"
             ELSE IF lifecycle = "Closed" THEN "closed" ELSE "open"

Sink == INSTANCE RowSink WITH
    state   <- SinkState,
    pending <- acked \cap eRows,
    stored  <- acked \cap table,
    excused <- acked \cap told

ImplementsRowSink == Sink!Spec
=============================================================================
