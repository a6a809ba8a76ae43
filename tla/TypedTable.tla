----------------------------- MODULE TypedTable -----------------------------
(***************************************************************************)
(* A table function made of closures (src/src/table/typed.rs and its       *)
(* trampolines): bind runs once per plan and keeps a factory as the plan's *)
(* bind data, init makes a fresh scan state from it for every execution of *)
(* the plan, and scan fills chunks from that state until one is empty.     *)
(*                                                                         *)
(* The closures are the extension's: each may return an error or panic at  *)
(* any call, and scan may do so after it has changed its state and written *)
(* rows.  A scan that returns Ok gives the next rows after the ones its    *)
(* state has passed, and none only at the end.                             *)
(*                                                                         *)
(* DuckDB (external here) plans, executes plans as often as it likes,      *)
(* overlapping, and calls scan from its workers.  It drops the plan's or   *)
(* the execution's data when nothing uses them, and starts no scan on an   *)
(* execution that reported an error.  init asks for one scan of an         *)
(* execution at a time (set_max_threads); the model does not rely on that. *)
(*                                                                         *)
(* A cursor stands for a scan state: the rows it has passed.               *)
(***************************************************************************)
EXTENDS Naturals, Sequences

CONSTANTS
    Plans, Execs, Workers,
    ClonePlans,         \* plans of a with_state function; the others are of a
                        \* with_bind_init one
    Rows,               \* the rows the function has
    ChunkRows,          \* the rows a chunk takes
    ReportingPlans,     \* plans of an extension with the duckdb-1-5 feature:
                        \* bind can count its columns
    None

ASSUME TypedTableAssumption ==
    /\ ClonePlans \subseteq Plans
    /\ Rows \in Nat
    /\ ChunkRows \in Nat \ {0}
    /\ ReportingPlans \subseteq Plans
    /\ None \notin Plans
    /\ None \notin Execs
    /\ None \notin Nat

VARIABLES
    plan,      \* where each plan is
    columns,   \* its columns: when bind was entered and when it returned
    factory,   \* plans with bind data
    tainted,   \* plans whose template's mutex a panicking clone poisoned
    exec,      \* where each execution is
    planOf,    \* the plan it executes
    cursor,    \* its scan state, None if it has none
    poisoned,  \* executions whose state's mutex a panicking scan poisoned
    call,      \* the scan each worker is in: its execution, and the cursor it
               \* read under the lock (None before that)
    rows,      \* the rows DuckDB got from each execution
    failing    \* executions in which a closure failed

planVars == <<plan, columns, factory, tainted>>
execVars == <<exec, planOf, cursor, poisoned, call, rows, failing>>
vars == <<plan, columns, factory, tainted, exec, planOf, cursor, poisoned,
          call, rows, failing>>

\* "internal": DuckDB's own error, with a stack trace, for a plan without
\* columns.
PlanStages == {"new", "bound", "refused", "internal"}

\* "ended": a scan handed DuckDB an empty chunk and no error.
ExecStages == {"new", "ready", "ended", "error"}

NoCall == [exec |-> None, read |-> None]

Calls == [exec : Execs \cup {None}, read : (0..Rows) \cup {None}]

TypeOK ==
    /\ plan \in [Plans -> PlanStages]
    /\ columns \in [Plans -> [entry : 0..1, end : 0..2]]
    /\ factory \subseteq Plans
    /\ tainted \subseteq ClonePlans
    /\ exec \in [Execs -> ExecStages]
    /\ planOf \in [Execs -> Plans \cup {None}]
    /\ cursor \in [Execs -> (0..Rows) \cup {None}]
    /\ poisoned \subseteq Execs
    /\ call \in [Workers -> Calls]
    /\ rows \in [Execs -> Seq(1..Rows)]
    /\ failing \subseteq Execs

Init ==
    /\ plan = [p \in Plans |-> "new"]
    /\ columns = [p \in Plans |-> [entry |-> 0, end |-> 0]]
    /\ factory = {}
    /\ tainted = {}
    /\ exec = [x \in Execs |-> "new"]
    /\ planOf = [x \in Execs |-> None]
    /\ cursor = [x \in Execs |-> None]
    /\ poisoned = {}
    /\ call = [w \in Workers |-> NoCall]
    /\ rows = [x \in Execs |-> <<>>]
    /\ failing = {}

-----------------------------------------------------------------------------
(* Bind.                                                                   *)

\* Mutant: a reader of COPY ... FROM may declare columns of its own.
ColumnsRefusedEmptyOnly(p, entry, end, rejected) ==
    p \in ReportingPlans /\ ~rejected /\ end = 0

\* The checks after a bind closure that returned Ok.
ColumnsRefused(p, entry, end, rejected) ==
    /\ p \in ReportingPlans
    /\ \/ entry > 0 /\ end > entry
       \/ ~rejected /\ end = 0

\* `typed_bind_trampoline`.  Under COPY ... FROM the columns of the table are
\* there at entry, and only an extension with the feature can register such a
\* reader.  A column of a type no column can have is rejected: the
\* error is reported, and the closure goes on.
Bind(p, entry, declared, rejected) ==
    LET end == entry + declared
        refused == ColumnsRefused(p, entry, end, rejected)
    IN  /\ plan[p] = "new"
        /\ entry > 0 => p \in ReportingPlans
        /\ columns' = [columns EXCEPT ![p] = [entry |-> entry, end |-> end]]
        /\ plan' = [plan EXCEPT ![p] = IF rejected \/ refused THEN "refused"
                                       ELSE IF end = 0 THEN "internal"
                                       ELSE "bound"]
        /\ factory' = IF refused THEN factory ELSE factory \cup {p}
        /\ UNCHANGED <<tainted, execVars>>

\* The bind closure returns an error, or panics.
BindFails(p) ==
    /\ plan[p] = "new"
    /\ plan' = [plan EXCEPT ![p] = "refused"]
    /\ UNCHANGED <<columns, factory, tainted, execVars>>

\* DuckDB drops a plan no execution uses, and its bind data with it
\* (`FfiBindData::destroy`).
DropPlan(p) ==
    /\ plan[p] # "new"
    /\ \A x \in Execs : planOf[x] # p
    /\ plan' = [plan EXCEPT ![p] = "new"]
    /\ columns' = [columns EXCEPT ![p] = [entry |-> 0, end |-> 0]]
    /\ factory' = factory \ {p}
    /\ tainted' = tainted \ {p}
    /\ UNCHANGED execVars

-----------------------------------------------------------------------------
(* Init.                                                                   *)

\* The state a factory hands out: a clone of the template bind made, or what
\* the init closure returns.
NewStates(p) == {0}

\* Mutant: a template whose mutex is poisoned is given up.
FindsOnlyUnpoisoned(p) == p \in factory /\ p \notin tainted

\* What init needs of the bind data: the factory is there.  The template's
\* mutex may be poisoned, `PoisonError::into_inner` ignores that.
FindsFactory(p) == p \in factory

\* `typed_init_trampoline`: without a factory ("missing bind state"), or when
\* the init closure or the clone fails, the execution has an error and no state.
\* A clone that panics holds the template's lock.
InitExec(x, p, ok) ==
    /\ exec[x] = "new"
    /\ plan[p] = "bound"
    /\ ok \/ FindsFactory(p)
    /\ planOf' = [planOf EXCEPT ![x] = p]
    /\ IF ok /\ FindsFactory(p)
       THEN /\ exec' = [exec EXCEPT ![x] = "ready"]
            /\ \E n \in NewStates(p) : cursor' = [cursor EXCEPT ![x] = n]
       ELSE exec' = [exec EXCEPT ![x] = "error"] /\ UNCHANGED cursor
    /\ IF ok THEN UNCHANGED <<failing, tainted>>
       ELSE /\ failing' = failing \cup {x}
            /\ tainted' = tainted \cup ({p} \cap ClonePlans)
    /\ UNCHANGED <<plan, columns, factory, poisoned, call, rows>>

-----------------------------------------------------------------------------
(* Scan.                                                                   *)

InScan(w, x) == call[w].exec = x

\* The worker inside the closure holds the lock of the execution's state.
Locked(x) == \E w \in Workers : InScan(w, x) /\ call[w].read # None

\* DuckDB calls scan.
ScanEnter(w, x) ==
    /\ call[w] = NoCall
    /\ exec[x] = "ready"
    /\ call' = [call EXCEPT ![w].exec = x]
    /\ UNCHANGED <<planVars, exec, planOf, cursor, poisoned, rows, failing>>

\* Mutant: `FfiInitData::get_mut`, a reference no mutex guards.
MayScanUnlocked(w, x) == InScan(w, x) /\ cursor[x] # None /\ x \notin poisoned

\* Mutant: a poisoned scan state is used like a poisoned template.
MayScanPoisoned(w, x) == InScan(w, x) /\ cursor[x] # None /\ ~Locked(x)

\* The worker gets the lock, and the state behind it is sound.
MayScan(w, x) ==
    /\ InScan(w, x)
    /\ cursor[x] # None
    /\ ~Locked(x)
    /\ x \notin poisoned

\* `typed_scan_trampoline`, up to the closure.
ScanRuns(w, x) ==
    /\ call[w].read = None
    /\ MayScan(w, x)
    /\ call' = [call EXCEPT ![w].read = cursor[x]]
    /\ UNCHANGED <<planVars, exec, planOf, cursor, poisoned, rows, failing>>

\* "missing scan state", or poisoned by an earlier panic: an error, no rows.
ScanRefused(w, x) ==
    /\ InScan(w, x)
    /\ call[w].read = None
    /\ ~Locked(x)
    /\ ~MayScan(w, x)
    /\ exec' = [exec EXCEPT ![x] = "error"]
    /\ call' = [call EXCEPT ![w] = NoCall]
    /\ UNCHANGED <<planVars, planOf, cursor, poisoned, rows, failing>>

Chunk(read, n) == [i \in 1..n |-> read + i]

\* The state after a scan that wrote n rows.
Advanced(read, n) == read + n

\* The closure returns Ok with n rows, 0 at the end only.
ScanReturns(w, x, n) ==
    /\ InScan(w, x)
    /\ call[w].read # None
    /\ n <= Rows - call[w].read
    /\ n = 0 => call[w].read = Rows
    /\ cursor' = [cursor EXCEPT ![x] = Advanced(call[w].read, n)]
    /\ rows' = [rows EXCEPT ![x] = @ \o Chunk(call[w].read, n)]
    /\ exec' = [exec EXCEPT ![x] = IF n = 0 /\ @ = "ready" THEN "ended" ELSE @]
    /\ call' = [call EXCEPT ![w] = NoCall]
    /\ UNCHANGED <<planVars, planOf, poisoned, failing>>

\* `fail` and the panic path: the chunk's size is set back to zero.
SizeAfterError(read, n) == 0

\* Mutant: the panic path empties the chunk and reports nothing.
AfterErrorSilent(stage) == "ended"

\* DuckDB sees the error of a scan callback and aborts the query.
AfterError(stage) == "error"

\* The closure changed its state to m, wrote n rows, and returned an error or,
\* holding the lock, panicked.
ScanFails(w, x, n, m) ==
    /\ InScan(w, x)
    /\ call[w].read # None
    /\ n <= Rows - call[w].read
    /\ cursor' = [cursor EXCEPT ![x] = m]
    /\ rows' = [rows EXCEPT ![x] =
                    @ \o Chunk(call[w].read, SizeAfterError(call[w].read, n))]
    /\ exec' = [exec EXCEPT ![x] = AfterError(@)]
    /\ failing' = failing \cup {x}
    /\ poisoned' \in {poisoned, poisoned \cup {x}}
    /\ call' = [call EXCEPT ![w] = NoCall]
    /\ UNCHANGED <<planVars, planOf>>

\* DuckDB drops an execution no worker is in (`FfiInitData::destroy`).
DropExec(x) ==
    /\ exec[x] # "new"
    /\ \A w \in Workers : ~InScan(w, x)
    /\ exec' = [exec EXCEPT ![x] = "new"]
    /\ planOf' = [planOf EXCEPT ![x] = None]
    /\ cursor' = [cursor EXCEPT ![x] = None]
    /\ rows' = [rows EXCEPT ![x] = <<>>]
    /\ poisoned' = poisoned \ {x}
    /\ failing' = failing \ {x}
    /\ UNCHANGED <<planVars, call>>

-----------------------------------------------------------------------------
Next ==
    \/ \E p \in Plans :
          \/ \E entry, declared \in 0..1, rejected \in BOOLEAN :
                Bind(p, entry, declared, rejected)
          \/ BindFails(p)
          \/ DropPlan(p)
          \/ \E x \in Execs, ok \in BOOLEAN : InitExec(x, p, ok)
    \/ \E x \in Execs :
          \/ DropExec(x)
          \/ \E w \in Workers :
                \/ ScanEnter(w, x)
                \/ ScanRuns(w, x)
                \/ ScanRefused(w, x)
                \/ \E n \in 0..ChunkRows :
                      \/ ScanReturns(w, x, n)
                      \/ \E m \in 0..Rows : ScanFails(w, x, n, m)

Spec == Init /\ [][Next]_vars

-----------------------------------------------------------------------------
(* Properties.                                                             *)

\* An execution that reported no error has delivered the function's rows from
\* the first one on, each once and in order, whatever other executions of the
\* plan did and whichever workers scanned it: init never hands out a used
\* state, and no two scans read the state at once.
FreshRows ==
    \A x \in Execs :
        exec[x] \in {"ready", "ended"} =>
            rows[x] = [i \in 1..Len(rows[x]) |-> i]

\* A scan that ended without an error has delivered every row: the empty chunk
\* a failed scan leaves never passes for the end of the data.
EndedHasEveryRow ==
    \A x \in Execs : exec[x] = "ended" => Len(rows[x]) = Rows

\* An execution fails only if a closure failed in it: not because an earlier
\* init of the plan panicked over the template, and not for want of bind data
\* or a scan state.
OwnFailuresOnly ==
    \A x \in Execs : exec[x] = "error" => x \in failing

\* A plan bind accepted has a factory and at least one column, and under
\* COPY ... FROM the columns of the table and no more; with the feature DuckDB
\* never raises its internal error over a plan without columns.
BoundPlans ==
    \A p \in Plans :
        /\ plan[p] = "bound" =>
              /\ p \in factory
              /\ columns[p].end > 0
              /\ columns[p].entry > 0 => columns[p].end = columns[p].entry
        /\ plan[p] = "internal" => p \notin ReportingPlans

\* The call that reports an execution's error hands over no rows, those the
\* closure had written before it failed included.
NoRowsWithError ==
    [][\A x \in Execs :
          (exec[x] # "error" /\ exec'[x] = "error") => rows'[x] = rows[x]]_vars

\* Once a scan of the execution has panicked, no scan of it hands over rows:
\* the state the panic left half changed is never read again.
NoRowsAfterPanic ==
    [][\A x \in Execs :
          (x \in poisoned /\ exec'[x] # "new") => rows'[x] = rows[x]]_vars

\* No rows after a failure, neither in the call that reports it nor, after a
\* panic, in any later one (table/typed/trampolines.rs).
NoRowsAfterFailure == NoRowsWithError /\ NoRowsAfterPanic
=============================================================================
