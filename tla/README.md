# Verification of quack-rs

quack-rs is a Rust library for writing DuckDB extensions. It wraps DuckDB's C extension API: an entry point, builders
that register functions, wrappers around handles, and the callbacks DuckDB makes into the extension. This directory
holds TLA+ models of its stateful parts, the TLC configurations that check them on small instances, and TLAPS proofs of
their main properties for every value of the constants.

Paths below are relative to the repository. `PROJECT.json` maps every definition of a model to the lines it stands for,
and lists the runs, the mutants (plausible bugs that break each property), the hazards, the findings and the theorems.

To run: `tlc -config X.cfg M` for a run of the table below, `tlapm M.tla` for a module of proofs.

## The system

quack-rs keeps little state of its own. What makes it hard is the state on the other side of the C interface, which it
must mirror, share or not touch, and which DuckDB changes in ways its header does not say. The comments and tests of
the crate record those ways, and the models take DuckDB's side (marked external in the map) from them and from
how the wrapper uses it.

| Part | State | Operations and interactions | What is hard | Correct when |
|---|---|---|---|---|
| Entry point (`src/entry_point.rs`, `entry_point/registration.rs`) | the LOAD's transaction; the thread-local `SCOPE` | DuckDB calls `init_extension`; the ABI check, a connection, BEGIN, the user's closure, COMMIT or ROLLBACK | a closure that fails, panics or runs another LOAD; COMMIT failing after every registration said yes; other threads loading | nothing of a failed LOAD stays, all of a successful one is there; the scope always names the transaction it is consulted for |
| Connection and the checks for a taken name (`connection.rs`, `*/collision.rs`, `copy_function/mod.rs`, `config_option.rs`, `sql_macro.rs`) | a snapshot of the catalog's names, loaded once per kind | each builder asks it before it calls DuckDB, which would drop or replace silently | a check and a use that are two calls; a stale snapshot; a check that is a statement failing on purpose inside a transaction | no registration reports success and drops, or takes, somebody's name |
| ABI check (`abi.rs`, `build.rs`) | a table of layouts; the build's slot count and declared release | runs once per LOAD, before anything is called | built against one release, run on another, older, newer, or unknown | no call through a struct of another layout; an extension always loads in its own release |
| Aggregate state (`aggregate/state.rs`) | a tag word and a `T`, or a box, in bytes DuckDB owns | init, update, combine, finalize, destroy callbacks | states moved by copying bytes, destroyed twice or before their init, panics in `default` and in destructors | every `T` is dropped once, and no two callbacks hold one `T` |
| Typed table functions (`table/typed*.rs`, `bind_data.rs`, `init_data.rs`) | a template per plan, a scan state per execution behind a mutex | bind, init and scan trampolines, called by DuckDB's workers | a plan executed twice at once; poisoned mutexes; an error after rows were written; the same bind under COPY ... FROM | every execution yields all rows once, in order, or an error |
| Extra info (`extra_info.rs`, used by every function builder) | a pointer, its destructor, a transferred flag | set, replaced, moved with the builder, handed to DuckDB, which shares it | registration failing half way through a set; a handle moving between builders; a function rolled back under a running query | freed once, after the last use |
| Appender (`appender.rs`, `appender/`) | lifecycle, column, buffered rows, mirrored from DuckDB's appender | append, end_row, row closures, chunks, flush, close, clear, columns, drop, raw hand-over | DuckDB's silent successes; a half row that can neither be finished nor dropped; automatic flushes failing inside another call | no acknowledged row is lost without an error |
| `append_metadata` (`src/bin/append_metadata/`) | files | read, stamp, write a sibling, rename over the output | a kill or a power loss between two calls; two stampers; a host with the old file mapped | the output is always a whole library |
| Callbacks (`callback.rs`, `callback/payload.rs`) | none | `catch_unwind` around every trampoline; disposal of panic payloads | a payload whose destructor panics, again; callbacks with no way to report an error | no panic crosses into C or passes for success, and disposal ends |
| Queries (`query.rs`, `query/`) | a result's fetch state; a statement's bindings | run, bind, execute, stream, fetch, interrupt | a stream that fails, is interrupted, or is invalidated by another statement, taken for the end | the end means that every row was read; an error stays |
| Temporal values (`value.rs`, `value/`) | a payload DuckDB stores unchecked | constructors, casting getters, `try_cast`, rendering, items of lists and arrays | DuckDB throws or overflows on some payloads, differently for each pair of types | DuckDB is never asked what it fails on, and nothing else is refused |
| Function builders (`table/builder.rs`, `scalar/builder`, `aggregate/builder`, `cast/builder.rs`) | the parts declared so far | setters in any order, then `register`, of one function or a set | parts replaced under typed closures; parameters kept in two lists; overloads DuckDB cannot tell apart | what DuckDB is handed is what was declared, or it is refused |
| Typed scalars (`scalar/typed*`) | none | a closure called row by row | NULL arguments, failures in mid-chunk | every row answered from its own arguments, or an error |
| Scalar bind data and local state (`scalar/state.rs`) | a box per expression, one per thread | set by bind and init, copied and freed by DuckDB | a `Clone` that panics where no error can be returned; raw and typed setters mixed | a reader sees what bind stored, or an error; one owner per box |
| Chunk writer, lists (`chunk_writer.rs`, `vector/list_builder.rs`) | row and child counters | claim, write, give back, publish; reserve, append | DuckDB's capacity limits, which it throws over; a child that moves when it grows | the chunk's rows are what was written, and no write goes to a buffer that is gone |
| NULLs in nested vectors (`vector/nested_null.rs`, `writer.rs`, `struct_writer.rs`, `data_chunk.rs`) | a mask per vector | set, clear, propagate | DuckDB reads a field without looking at its parent's mask | a NULL reaches every mask below it |
| Arrow (`arrow/`) | structures with release callbacks | import of a batch, export | DuckDB follows offsets of slices, nesting and encodings in its own way, and checks nothing | what is imported is what Arrow means, read inside the buffers |
| Pure algorithms (`datetime/`, `interval.rs`, `validate/semver.rs`) | none | conversions, orders | overflow, rounding, boundaries | equal to their definition |
| The rest: handles with getters, types, file system, catalog look-ups, validation of text, scaffold, testing doubles | none of their own | one C call each, or text | - | - |

## The modules

| Module | Models | Proofs |
|---|---|---|
| `RowSink` | what an appender promises about rows (abstract) | |
| `Appender` | the appender against DuckDB's; implements `RowSink` | `RowWritersProofs` |
| `FfiState` | the bytes behind an aggregate's groups | `FfiStateProofs` |
| `AtomicLoad` | what a transactional LOAD promises (abstract) | |
| `ExtensionLoad` | a LOAD, its registrations and their name checks; implements `AtomicLoad` | `ExtensionLoadProofs` |
| `AbiCheck` | the ABI check, across releases | `RegistrationProofs` |
| `TypedTable` | table functions made of closures | `TypedTableProofs` |
| `ExtraInfo` | who frees a function's extra info, through all builders | `ExtraInfoProofs` |
| `StampOutput` | how `append_metadata` replaces a library | `StampOutputProofs` |
| `Callback` | a callback through any wrapper macro | `BoundaryProofs` |
| `Query` | results read while other statements run | `BoundaryProofs` |
| `TemporalValue` | values of the temporal types beside DuckDB's casts | `BoundaryProofs` |
| `Boundary` | instances of these three, with what they assume of their constants | |
| `Signature` | types, parameters and overloads as the builders see them (operators) | `RegistrationProofs` |
| `FunctionBuilder` | the builders and `register`; extends `Signature` | `RegistrationProofs` |
| `Registration` | `AbiCheck` and an instance of `FunctionBuilder`, with what it assumes of its constants | |
| `TypedScalar` | one call of a scalar function made of a closure | `TypedTableProofs` |
| `ScalarState` | bind data and local states of scalar functions | `ExtraInfoProofs` |
| `ListColumn` | a chunk with a list column being filled | `RowWritersProofs` |
| `ElementBytes` | the bytes of a list's element, and the factors of the vectors below it (operators) | |
| `RowWriters` | `Appender` and instances of `ListColumn`, `NestedNulls` and `ArrowImport`, with what these assume of their constants | |
| `NestedNulls` | the NULL masks of a nested output vector | `RowWritersProofs` |
| `ArrowImport` | the import of an Arrow array | `RowWritersProofs` |
| `MC...` | instances of the above for TLC | |

The models meet only through promises: `ExtensionLoad` takes the ABI check's refusal for one of the ways a LOAD is
refused, `TypedTable` and `TypedScalar` take an extra info that is alive (what `ExtraInfo` shows), `ScalarState` and
every other model takes a caught panic for an error (what `Callback` shows), and `FunctionBuilder` leaves the check for a
taken name to `ExtensionLoad`. An operator whose comment starts with "Mutant" is not part of a model: it is a plausible
bug next to the definition it would replace.

Machines that do not interact share a run, as *parts* of one MC module: a variable `part` is chosen at the start, the
machine it names runs, and the variables of the others keep their first values. Their states add up, they do not multiply.

**Appender.** One action per method; a call is atomic, since an appender is used by one thread at a time (`&mut self`),
but a row closure is not: `RowEnter` pushes a frame, any calls follow, and `RowReturnsOk`, `RowReturnsErr` or
`RowUnwinds` pops it. `lifecycle`, `column` and `buffered` are the wrapper's fields; `eColumn`, `eActive`, `eRows` and
`table` are DuckDB's appender. Rows are identities, values are only counted. `acked` and `told` record what the caller
was told, so that loss can be defined. `RowSink` has none of the mechanism: rows are pending, stored, or excused by an
error.

**FfiState.** A slot is a tag and a body. DuckDB allocates slots over whatever bytes are there, copies them, destroys
some twice, and some whose init never ran. `destroy_callback`'s loop is a queue with one slot per step, so that a
destructor that panics and the slots after it are distinct steps. The boundary is the constant `DestroysStaleBytes`:
whether DuckDB may destroy an uninitialised slot that holds bytes a state of the same type left behind.

**ExtensionLoad.** A thread has a stack of LOADs. `CheckListed`, `CheckNothing`, `ProbeApart`, `ProbeOnCon` and
`CheckSetting` are the checks; `Register` is the call to DuckDB after them, a step of its own, so that other threads'
LOADs and the host's writes fall between the two. Transactions are snapshots; what DuckDB answers to a taken name
depends on `Engine` (`Taken`). A name that somebody else committed after the snapshot (`Late`) is one no check can see.
The source says two things of it, that DuckDB's conflict detection refuses it (`src/entry_point.rs:69`) and that DuckDB
1.5.x may drop the new function and report success (`src/connection.rs:283`, `src/table/builder.rs:402`,
`src/table/collision.rs:32`), and the model allows both. `scope` and `previous` are the thread-local and what its guard
restores. `clobbered` records the wrong success the checks are there to prevent, and `unseen` those that were late.
`NoSilentClobber` allows those and the two other gaps the source documents (a scalar that cannot be rendered, what the
closure registered on the raw connection), and says that there is no fourth.

**AbiCheck.** `Decide` and `PolicyVerdict` are the source's functions, clause by clause. Builds are installed and
engines replaced in any order. What each release really lays out is a constant, `LayoutOf`, about which the module
assumes only what `scripts/check-abi-table.py` establishes from the headers of the listed releases; nothing is assumed of
unlisted ones.

**TypedTable.** Scans are three steps: entering the trampoline, running under the lock, returning. Closures may fail or
panic at each call, after changing their state and writing rows. The model does not rely on `set_max_threads(1)`.

**ExtraInfo.** An info is in a builder or is kept by DuckDB objects that share it; the last to go frees it. All builders
that carry one are kinds of one machine, since they use the same `ExtraInfo`; sets hand infos over one by one, a table
function handle moves between builders. A cast's handle has no shared pointer, and a refused one may leak its info,
which the code documents (`src/cast/builder.rs:466`); the model keeps those in `adrift`.

**StampOutput.** One action per system call that changes a file. A file is kept while a name, a process or the disk's
copy of the directory refers to it. A power loss makes the output what its name referred to at some moment since the last
commit, and tears any file that was not synced. Symbolic links, and a chmod between the look at the old output and
the rename, are left out.

**Callback.** A macro is a record: whether the callback has a channel for errors, and what else DuckDB reads of it (the rows
of a scan, a cast's answer, the function a replacement scan named). The body writes, returns, reports or panics;
the payload's drops are the loop of `payload.rs`, one turn a step. A message that is empty gets the placeholder of
`error_cstring`, whether a panic or an error carried it. `PanicsReported` reads error and
result the way DuckDB does (`TakenForSuccess`).

**Query.** `fetch` is `FetchState`; `source` is the engine's side of the result: whole, a stream, or invalid. A
statement while a stream is open is refused by DuckDB 2.0 and invalidates the stream in 1.5. An interrupt comes from another
thread at any moment. `read` and `total` say what `Ok(None)` is worth.

**TemporalValue.** DuckDB's casts are external, composed of the routines the comments of `temporal_checks.rs` name:
multiplications that throw or overflow, conversions that divide and round to the nearest, ones that know infinity and
ones that do not. The wrapper's
`temporal_in_range`, `cast_guard`, `renderable` and the getters' checks are translated beside them. Words, days
and units are small numbers with the same relations (a day is not a divisor of the word, the offsets of TIMETZ are in its
low part). A value is a leaf in a chain of
containers, and what the source's recursion over them comes to is said of the chain: the outermost container whose items
the C API cannot read, or else the leaf, decides.

**Signature** and **FunctionBuilder.** A type is one kind of record: its id, its alias, what the id says besides, and
its members, whether they are a STRUCT's fields or a LIST's child. The types are a constant, closed under members. The
overload key, the merge of the two lists of parameters and the search for ANY and INVALID are the source's recursions
over them, with the source's limit of nesting, each written as a function: of the depth, of the position, of the type.
Below a member DuckDB cannot describe the source answers as if the limit were reached; the model has no such members.
The builder's setters are actions in any order. `said` keeps what the calls named and in which order, and `handed` is
what DuckDB got; `HandedAsSaid` compares them, with the ambiguity of two overloads defined by calls (`Ambiguous`), not
by keys: `Costs` says which types an argument costs nothing for, without a limit, among them an ARRAY for a LIST and a
UNION for one with fewer members. The documentation of `reject_duplicate_overloads` names these two pairs as not
detected (`Undetected`, at any depth), and the property leaves out the calls that cost nothing only through one of them.
That is a gap of the code, stated and not closed: what is shown is that there is no other. Named parameters are only
checked, since no call is resolved by them.

**TypedScalar.** A constructor is a record (arity, what its arguments may be, whether the closure sees NULL, what it may
come to), and a function is a constructor with the types of its signature. DuckDB passes vectors of any number and
types, which `check_signature` compares with it: a vector read or written as another type gives nothing that means
anything (`Read`, `Written`). Rows are steps, since an error or a panic ends the chunk at any of them. A call has
no state but its own, so the model has one call after another.

**ScalarState.** A box is a value, a failed copy, or freed. Bind callbacks set typed and raw data in any order, DuckDB
copies expressions through `clone_slot`, threads make local states and read. `stored` is what a reader ought to see.

**ListColumn.** `list` is the builder (what it believes is reserved and written, its limit and the ceiling of it, a
cached child writer) and `child` DuckDB's vector (room, size, how often it moved). `with_element_limit` is called at any
time, before the builder has seen the child and between rows. A row that is given back keeps in the vector what was
written to it, a NULL too: when a builder refused a row, the row is given back and claimed again, and a new builder
pushes it, its elements are there but DuckDB reads NULL, since nothing makes it valid (`src/chunk_writer.rs:202`,
`src/vector/list_builder.rs:516`, `:602`). `refused` records the rows of refused pushes, and `PublishedRowsWhole` says
that these, and no other, are NULL. A write through a writer made before the last move is `"dangling"`, a reserve DuckDB
throws over is `"thrown"`. An element type is its bytes and the factors of the vectors below it, which `ElementBytes`
computes from a type as the source does; `ListColumn` itself knows no types, so that it can be proved about.

**NestedNulls.** A type is the set of its vectors, each addressed by the path of fields that leads to it, with the size
of each array; a mask per vector. `collect` finds the masks below and how many of their rows one row covers, a recursion
along the path. Reading is DuckDB's: a vector's own mask and nothing else. `set_valid` may be called for any row of any
vector, also of a field below a NULL, which nothing refuses and which leaves a value below a NULL: `revived` records the
rows that were made valid since they were last made NULL, and `NullsReachDown` allows those and no other.

**ArrowImport.** Three readings of one array, node by node: the wrapper's walk (`CheckNode`, with what DuckDB will pass
down in a context), DuckDB's conversion as the comments of `import_layout.rs` describe it (`Converted`, external), and
what Arrow means (`ArrowRow`). Each is a function over the nodes, which stand in a sequence with the children before
their parent: what it makes of a node (`Check`, `Convert`, `RowOf`) takes what it made of those before. The contexts the
walk passes down (`Ctx`) and DuckDB's arguments (`Passed`) are apart, so that the walk may be wrong about them. A
producer builds arrays from the inside out, sliced and with any buffers, also negative, overlapping and too short ones.
Releasing the array is not part of it.

## The runs

| Run | Instance | Checks |
|---|---|---|
| `appender_calls` | appender: 3 rows, 2 columns, flush at 2 rows, closures 2 deep, both engine generations; list, nulls, arrow: below | the mirrored column, loss reports, no silent loss, no half row left usable, implements `RowSink`; published rows whole, no dangling write and no throw; NULLs reach down; imports mean what Arrow means |
| `appender_count` | the appender, engine 1.5, nothing foreign buffered | **violated**: the loss count covers what is buffered |
| `ffistate_query` | 3 slots, 2 values, an inline and a boxed type | no wild drop, live borrows, nothing forgotten |
| `ffistate_both` | as above, with stale bytes destroyed | **violated**: no wild drop |
| `load` | nested: 1 thread, 3 LOADs (2 transactional), a copy format and an aggregate, engine 2.0; names: 2 threads, 2 transactional LOADs, a name of each checked kind, engine 1.5; atomic: 2 threads, a transactional and an autocommit LOAD, an unrendered scalar, a macro, a setting | the scope matches the stack, the format check never aborts its transaction, no silent clobbering but the documented ones, promises are kept, implements `AtomicLoad` |
| `abi_table` | 8 releases (listed, unlisted with an equal count in another order, newer) and a development build, 6 layouts; builders of every kind | guarded loads dispatch rightly, a build loads in its own release; functions are handed over as declared, no two overloads ambiguous but the documented pairs |
| `abi_strict` | the ABI check | **violated**: what `Strict` is documented to verify |
| `typed_scans` | a `with_state` and a `with_bind_init` plan, 2 executions, 2 workers, 3 rows, chunks of 2; typed scalars of every constructor over three types, chunks of up to 2 | fresh, complete rows; failures are the execution's own; nothing after a panic; scalar rows answered |
| `extra_owners` | 3 builders of any kinds, 3 infos, a query; scalar state: 3 expressions, a thread, 3 boxes, a raw one | freed once, not in use, none lost; readers see what bind stored, boxes owned |
| `stamp_output` | 2 stampers, a host, 4 files, 2 temporary names, 2 modes | the output whole, its mode kept, temporary files owned, files in use untouched |
| `callback_ends` | every macro; 2 results of up to 2 chunks on both engine generations, UTF-8 messages; values of 80 payloads, 2 containers deep | panics reported, the end means complete, DuckDB never throws, nothing else refused; disposal ends, a reading loop ends |
| `query_bytes` | the queries, with messages that are not UTF-8 | **violated**: the end means complete |

The type invariants of the modules with proofs are theorems and not repeated in runs.

Bounds, and why they are enough:

- *Appender*: 3 rows let a flush that fails come between two acknowledged rows, with a third in progress. 2 columns are
  the fewest with a row that is neither empty nor complete; threshold 2 makes an automatic flush possible after one row
  that was not flushed; depth 2 is one closure inside another, and a third adds no new relation between neighbours.
- *FfiState*: 3 slots are a source, a target and a bystander; 2 values show aliasing.
- *ExtensionLoad*: a clobbering needs two LOADs, on two threads or nested. For the scope three are needed (inner,
  outer, and one between or after). Names of different kinds do not meet, so one of each kind is enough, and a behaviour uses two
  of the names at most. The engine
  generation decides only what DuckDB answers to a taken name, and each run takes the one with the most cases for it.
- *AbiCheck*: a release of each class (listed, unlisted newer, unlisted with an equal count, unparsed), which is all
  `Decide` can tell apart.
- *TypedTable*: 3 rows in chunks of 2 give a full chunk, a partial one and the empty one; 2 executions of one plan
  overlap, 2 workers compete.
- *ExtraInfo*: a copy builder with two table handles, one replaced by the other, needs three builders.
- *FunctionBuilder*: 2 parameters over 2 overloads are the fewest for which the order of two lists and an overlap
  matter; the types are an id, ANY, an id that needs a logical type, a LIST of ANY, two STRUCTs that the overload key
  must take for one although their fields' order, the case of their names and their DECIMALs differ, and a LIST of a
  UNION beside an ARRAY of a larger one, which are both undetected pairs, one in the other. With a limit of 1 these
  types reach it and one level is left; the theorem is for any limit.
- *TypedScalar*: chunks of 0 to 2 rows show an error after a row that was written; two types of values and VARCHAR, in
  up to 3 columns and the result, are the fewest in which each may be the wrong one.
- *ScalarState*: an expression, its copy and the copy's copy; a second thread adds nothing, since local states do
  not meet.
- *ListColumn*: 2 rows, a child with room for 1, lists of up to 2, so that each row may make the child grow; DuckDB's
  limits are 8 (capacity) and 7 (allocation) bytes, so that rounding up passes each of them, and of one of the three
  types of elements none fits; an element limit of 1 lowers what the type admits, one of 8 is above what any type
  admits.
- *NestedNulls*: a struct of a leaf and an array of arrays, which is where two factors multiply; 2 columns. One row of
  the struct is 2 of the array's child and 4 of its child's, which is where rows beside each other meet.
- *ArrowImport*: all kinds at depth 2 (an array in an array) with 6 list and 5 view buffers, among them negative,
  overlapping and gapped ones, and slices with and without an offset, one of them shorter than a list around it may
  ask for; and depth 3 with one buffer of each kind, where what DuckDB hands down passes through a node in the middle.
  The mask limit is 2 rows, the capacity 4.
- *TemporalValue*: in a word of 80 values, with a day of 12 and a factor of 2 (a day of 24 nanoseconds, a second of 8),
  each scaling and each day overflows for some payloads and not for others, and the word is no multiple of a day, as
  in the code; every check of the code is met on both sides.
- *Query*: 2 results are a stream and what invalidates it.
- *Callback*: none, the limit of 8 drops is the source's.
- *StampOutput*: 4 files are the old output, one per stamper, and one that is mapped after it was replaced.

Nothing else is bounded. A guard that the code does not have is one of three kinds: a bound (`MaxDepth`, `MaxNesting`,
`MaxWraps`, `MaxParams`, `MaxOverloads`, `MaxChunks`, `MaxLen`, which the modules name as such); an identity that is not
used twice (rows, values, LOADs, infos, boxes), for which the ends of the runs are stops; or a duty that the
documentation gives to the caller. In `ListColumn` the last are: a row is given back by whoever claimed it, a chunk is
published with every claimed row written and no builder at work, and one builder works on a column at a time.
`CHECK_DEADLOCK FALSE` is set where the system may really stop or where those identities run out: an appender that is
gone, aggregates with every value made, LOADs that are done, builders that are gone. `AbiCheck`, `TypedTable` and
`StampOutput` go round, and deadlock is checked.

**Fairness.** Two things go on by themselves, and weak fairness is assumed of nothing else. The disposal of a panic payload
(`Callback`) is a loop of the wrapper on the thread DuckDB called on: `DisposalEnds` says it ends whatever the
destructors do, by `MAX_NESTED_PAYLOAD_DROPS`. A caller who reads a result in `while let Some(chunk) = next_chunk()?`
(`Query`, `Drain`) asks again as long as it gets chunks: `DrainEnds` says that it is told to stop, whatever other
statements and interrupts do meanwhile. Otherwise the library has no scheduler, retries nothing and waits for nothing but
mutexes held for the length of a callback; whether a call is ever made is up to DuckDB and the extension.

## Findings

Four runs show a disagreement between a sentence of the documentation and the code. None is a crash in a usual run.

- `appender_count`: `buffered` is documented as what a poisoned appender loses, and its error says "up to" that number;
  a chunk whose automatic flush failed is buffered by engines up to 1.5.x but not counted
  (`src/appender/chunk.rs:49`). Acknowledged rows are always counted (`LossCountCoversAcked`, proved).
- `ffistate_both`: the documentation says an uninitialised slot matches its tag only by chance, one in 2^64. A slot
  allocated over the bytes of a state of the same type that was moved matches with certainty, since nothing clears the
  copy's tag (`src/aggregate/state.rs:200`, `:213`). It takes a sibling's failed init to reach.
- `abi_strict`: `Strict` is documented to load only a layout that is verified. Of the headers the build used only
  the slot count is compared, so a build against unlisted headers with an equal count passes (`src/abi.rs:594`).
- `query_bytes`: `next_chunk` tells an early stop from the end by the result's error message, and a message that is not
  UTF-8 reads as no message (`src/query/result.rs:109`, `src/query/cstr.rs:31`), so that a failed fetch with such a message
  is answered `Ok(None)`, which is documented to mean that every row was read.

## What is proved

All theorems hold for every value of the constants that satisfies the modules' named assumptions. TLC evaluates the
assumptions on every run. Most say that identities are finite sets or that values are told from each other; seven say more:

- `AbiAssumption` (`AbiCheck`): DuckDB's listed releases are laid out as the table says, which is what
  `scripts/check-abi-table.py` establishes.
- `ElementAssumption` and `PowersAssumption` (`RowWriters`): no vector below a list is wider than the bytes the
  wrapper reckons an element to have, and the powers of two go down to 1 by halves and up to the limit. The first is
  about the result of a recursion over types, which no prover here can unfold; TLC computes it for the types of the
  run.
- `TreeAssumption` (`RowWriters`): the vectors of a type form a tree of paths, with a deepest one.
- `BufferAssumption` (`RowWriters`): what a producer may get wrong is left open (offsets, sizes, indices and null counts are
  any integers), but lengths are not negative, an array that counts no NULL has none in its bitmap, and a union's type
  ids name its members.
- `TypesAssumption` (`Registration`): the members of a type are types, and no type is within itself, however many
  levels below: DuckDB builds a type from types that exist.
- `WordAssumption` (`Boundary`): the relations of the code's numbers that the casts need. A word is longer than a day
  in nanoseconds and than a day with its offset beside it, and 2^63 - 1 is no multiple of 1000. The last one matters:
  otherwise a scaling could come to infinity, which DuckDB does not convert.

For each module the argument is an inductive invariant, checked with TLC first, then proved action by action:

- `RowWritersProofs`, `RowInv` (`Appender`): besides the properties themselves, that a row not appended yet is nowhere,
  that a closed appender is at a row boundary, and that the column counter never passes the column count. The counter's
  mirror (`MirrorExact`) makes the rest inductive: what poisoning and `close` decide from the wrapper's copy holds of
  DuckDB's. The count of the loss report needs cardinalities and is a second induction over it. `AppenderRefines` maps
  each call to a step of `RowSink`: an acknowledged row that is neither stored nor excused is pending.
- `RowWritersProofs`, `ListInv` (`ListColumn`): the builder never believes that more is reserved than the child has room
  for, and keeps its limit below its ceiling and its ceiling, once it has started, at what the type admits; rows have
  the elements pushed for them, those and only those that were refused are NULL, and an unpublished chunk shows nothing.
  `CapacityRight` is the arithmetic under it: rounding up to a power of two passes none of DuckDB's limits when
  `max_child_capacity` allowed the capacity. It makes `WritesCorrect` (no dangling write, no throw) and
  `PublishedCorrect` hold for any limits, given at any time, not only for those of the run.
- `FfiStateProofs`, `IInv` under `Tame == ~DestroysStaleBytes`: a tag that matches in a slot DuckDB uses or left says whose
  value the body is, and no value is in two slots that are used. `TypeCorrect` needs no condition; for the others
  `ffistate_both` shows that the condition is needed.
- `ExtensionLoadProofs`: `StackInv` (a LOAD is on one stack at most, exactly while it is registering, and only a
  transaction has uncommitted writes) gives the refinement of `AtomicLoad` and `FinishedCorrect`. `ScopeInv` says of
  every position of a stack what its guard will restore, which is what makes the scope right after any nesting.
  `NameInv` says what a check leaves true until the call it was made for: a transaction's uncommitted entries are its
  own, and a name written under that somebody has committed since it began is a macro's or noted as clobbered; a
  connection knows every name its transaction sees of the kinds it has listed; and a checked name is none that the
  transaction sees when DuckDB is called, unless it was registered past the checks. `ClobberCorrect` is part of it.
  `PromiseInv` follows an entry from the call that promised it to the catalog (`PromiseCorrect`).
- `RegistrationProofs`, `BuilderInv` (`FunctionBuilder`): the merge of a function's two lists is what was said of it
  (`OrderInv`), and a typed table function's trampolines are whole or a setter's call is on record (`WiringInv`). The
  recursions under it are proved to have solutions first, from the limit of nesting upwards or, without one, by the
  least type that has none. `InOrder` gives the merge by its turns, so that a setter's call adds one turn at the end
  (`LongerInOrder`) and the loop comes to the same (`MergedIsSaid`). `SameKey` goes up the depths: types that an
  argument costs nothing for, but through an undetected pair, have its key, hence `AmbiguousFound`. `NoneWithin`: where
  the search finds nothing, nothing is there at any depth.
- `RegistrationProofs`, `Decided` (`AbiCheck`): a verdict is the check's of the build and the engine the process has, and
  a wrong dispatch needs a layout that does not run. The theorems then follow from `Decide` and the assumption about the
  table.
- `TypedTableProofs`, `ExecInv` (`TypedTable`): an execution's rows are exactly those its state has passed, and a
  worker inside the closure is alone, has read the current state, and is not there after a panic. `FailureCorrect` (no
  rows after a failure) follows. `ErrorCorrect` (no rows with an error) needs only types. `ScalarInv` (`TypedScalar`):
  a call that goes on passed vectors of the signature's types, and the rows before the current one are answered from
  their own arguments.
- `ExtraInfoProofs`, `OwnInv` (`ExtraInfo`): the builders' infos and DuckDB's are apart and unfreed; a running
  `register` has still to hand over only what is its builder's. `FreedCorrect` says from it that an info is freed once
  and not in use. `LossInv` adds that an info that was given and not leaked by a refused cast is freed, kept by DuckDB
  or in a builder, and that whatever keeps it will still come to its end.
- `ExtraInfoProofs`, `OwnerInv` and `ReadInv` (`ScalarState`): a box has one owner however expressions are copied; an
  expression holds what bind stored for it or for its original, or a copy that failed, so that a reader which reports
  no error has the value bind stored.
- `StampOutputProofs`, `StampInv`: everything a power loss may make the output is good and synced; a temporary file is
  under one name, in nobody's use, held by one stamper; and at each point of its run a stamper's file is as far as it should
  be.
- `BoundaryProofs`, `CallbackInv` (`Callback`): a panic that was caught is disposed of before the callback returns, and the
  error a cast starts with is there unless it is a TRY.
- `BoundaryProofs`, `QueryInv` under `Readable == Messages \subseteq {"utf8"}` (`Query`): what was read and what is
  left of a result add up to what it had, and one that has ended has nothing left. `query_bytes` shows that the
  condition is needed.
- `BoundaryProofs`, `ValueInv` (`TemporalValue`): a payload is one that SQL, a constructor or an earlier cast makes,
  and every container knows the type of the leaf in it. Under it are the arithmetic lemmas: `RangeIsRendering` (what
  `temporal_in_range` lets through is exactly what DuckDB renders) and `CastRight`, which goes through all pairs of
  types and says that a guarded cast comes to a payload of the target or a reported failure, and that a guard stops a
  finite payload only where the cast would overflow. TLC checks both on a word of 80; the theorems say it of 2^64.

- `RowWritersProofs`, `NullsInv` (`NestedNulls`): the masks hold rows of their vectors, and a NULL row's rows in every
  vector below are NULL or were made valid since. The recursion that counts them is dealt with first: it ends, since the
  vectors are finitely deep (`RowsDefined`); along a path the counts multiply (`RowsMultiply`); so the rows a row covers
  two levels below are those that the rows it covers one level below cover (`ShareOfShare`). Then what `clear_nested`
  adds and what `restore_nested` takes away are whole shares of a row, and neither breaks a share of another.
- `RowWritersProofs`, `ImportInv` (`ArrowImport`): every node's buffers cover its rows, and an accepted batch passed the
  walk. That this gives `ImportedRight` is an induction over the nodes, after the three functions are proved to exist
  (`ArrowRowsDefined`, `VectorsDefined`, `ChecksDefined`). What is carried through it is `Right`: whenever DuckDB's
  arguments meet a context in which a node passes its check (`Meets`), the conversion stays in its buffers and yields
  the rows Arrow puts there, but for rows that are NULL further out (`Agrees`). There is one lemma per kind of
  node (`StructRight`, `ListRight`, ...), which shows that the context the walk passes down is met by the arguments
  DuckDB passes down; and `AllRight` puts them together. The same holds of any depth, where the run has three levels.

Only model-checked:

- `DisposalEnds` and `DrainEnds`, which are liveness.
- That `ElementBytes` is right about types deeper than the runs' (see `ElementAssumption`).

## What is not modelled, and the plan

What could still be done, in order:

1. Pure algorithms, in modules that only TLC uses: dates, times and intervals with their overflow (`datetime/`,
   `interval.rs`), the order of semantic versions.
2. Casts between nested values with different elements, DECIMAL and BIT values.
3. The rest of the Arrow import: sums of offsets that leave 64 bits, arrays that disagree with their schema on their
   children, the flattening of imported columns.

Left out for good:

- Arrow ownership. A structure is released by its callback, or moved, exactly where Rust's ownership says; what would be
  left to show is DuckDB's behaviour on its failure paths, of which the repository says too little to model it.
- Handles that are one C call per method (catalog, client context, error data, expressions, file system, instance
  cache, table descriptions, copy function infos), replacement scans (one callback over an immutable closure), the
  readers and writers of single values (pointer arithmetic that a type decides).
- Text: scaffold templates, the description parser, predicates on names, messages, `Debug` output.
- The testing doubles, which no code of the library uses, and the repository's tooling.
- DuckDB itself, of which each model has only what the crate relies on.

Much of the source is of these kinds: documentation in comments, tests next to the code, one-call wrappers, text and
test doubles. The map covers the code that keeps state, follows a protocol or decides something that can be wrong, and
names only the lines a definition translates.
