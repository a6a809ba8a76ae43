----------------------------- MODULE ScalarState -----------------------------
(***************************************************************************)
(* Bind data and per-thread state of a scalar function                     *)
(* (src/src/scalar/state.rs, scalar/info.rs), from the bind callback to    *)
(* the last destructor.  DuckDB (external) keeps a pointer per bound       *)
(* expression, overwrites it without a destructor, copies the expression   *)
(* with whatever copy callback is registered, shares the data between      *)
(* threads, and destroys it when the expression goes.                      *)
(*                                                                         *)
(* A box is a heap allocation: a Slot, a local state, or the caller's own  *)
(* data behind the raw `set_bind_data`.                                    *)
(***************************************************************************)
CONSTANTS Exprs, Threads, Boxes, RawBoxes, None

VARIABLES
    box,     \* what each allocation is
    holds,   \* what each expression holds: its data and copy callback
    phase,   \* of each expression: "none", "binding", "bound", "failed", "gone"
    typed,   \* ScalarBindInfo.typed of the bind callback of each expression
    stored,  \* what its bind callback, or the original's, stored last
    local,   \* the local state of each thread, and whose execution it is for
    run,     \* the callback on each thread
    leaked   \* boxes nothing refers to any more

ssVars == <<box, holds, phase, typed, stored, local, run, leaked>>

\* A box is unused, freed, a value, or a copy that failed.  The value is the
\* box it was first stored in.
Value(b) == [is |-> "value", of |-> b]
Unused == [is |-> "unused", of |-> None]
CopyFailed == [is |-> "failed", of |-> None]
Freed == [is |-> "freed", of |-> None]

Nothing == [data |-> None, copy |-> "none"]
Idle == [does |-> "nothing", of |-> None, saw |-> None, error |-> FALSE]

\* The box an allocation returns; which one does not matter.
Free == {b \in Boxes : box[b] = Unused}
Allocated(b) == Free # {} /\ b = CHOOSE f \in Free : TRUE

Init ==
    /\ box = [b \in Boxes \cup RawBoxes |-> Unused]
    /\ holds = [e \in Exprs |-> Nothing]
    /\ phase = [e \in Exprs |-> "none"]
    /\ typed = [e \in Exprs |-> None]
    /\ stored = [e \in Exprs |-> None]
    /\ local = [t \in Threads |-> [data |-> None, of |-> None]]
    /\ run = [t \in Threads |-> Idle]
    /\ leaked = {}

\* `drop_boxed` frees the box whether or not T's destructor panics.
Dropped(heap, bs) == [b \in DOMAIN heap |-> IF b \in bs THEN Freed ELSE heap[b]]

-----------------------------------------------------------------------------
(* The bind callback.                                                      *)

StartBind(e) ==
    /\ phase[e] = "none"
    /\ phase' = [phase EXCEPT ![e] = "binding"]
    /\ UNCHANGED <<box, holds, typed, stored, local, run, leaked>>

\* Mutant: what DuckDB holds is freed, whoever stored it.
ReplacedAnything(e) == {holds[e].data} \ {None}

\* What `ScalarBindData::set` frees: a value an earlier set through this
\* wrapper stored, since DuckDB only overwrites the pointer.
Replaced(e) == {typed[e]} \ {None}

\* `ScalarBindData::set`.
TypedSet(e) ==
    /\ phase[e] = "binding"
    /\ \E b \in Boxes :
        /\ Allocated(b)
        /\ box' = [Dropped(box, Replaced(e)) EXCEPT ![b] = Value(b)]
        /\ leaked' = leaked \cup ({holds[e].data} \ (Replaced(e) \cup {None}))
        /\ holds' = [holds EXCEPT ![e] = [data |-> b, copy |-> "clone_slot"]]
        /\ typed' = [typed EXCEPT ![e] = b]
        /\ stored' = [stored EXCEPT ![e] = b]
    /\ UNCHANGED <<phase, local, run>>

\* The raw `set_bind_data`, and `set_bind_data_copy` where clone_slot would
\* misread the caller's data.  The caller may hand back a pointer it has given
\* before.
RawSet(e) ==
    /\ phase[e] = "binding"
    /\ \E r \in RawBoxes :
        /\ box[r] = Unused \/ box[r] = Value(r)
        /\ \A o \in Exprs \ {e} : holds[o].data # r
        /\ box' = [box EXCEPT ![r] = Value(r)]
        /\ leaked' = (leaked \cup {holds[e].data}) \ {r, None}
        /\ \E c \in {"raw", "none"} :
              /\ c = "none" => holds[e].copy = "none"
              /\ holds' = [holds EXCEPT ![e] = [data |-> r, copy |-> c]]
        /\ typed' = [typed EXCEPT ![e] = None]
        /\ stored' = [stored EXCEPT ![e] = r]
    /\ UNCHANGED <<phase, local, run>>

\* The callback returns, or panics or reports an error, and DuckDB gives the
\* expression up with what it holds.
EndBind(e, ok) ==
    /\ phase[e] = "binding"
    /\ phase' = [phase EXCEPT ![e] = IF ok THEN "bound" ELSE "gone"]
    /\ box' = IF ok THEN box ELSE Dropped(box, {holds[e].data})
    /\ holds' = IF ok THEN holds ELSE [holds EXCEPT ![e] = Nothing]
    /\ typed' = [typed EXCEPT ![e] = None]
    /\ UNCHANGED <<stored, local, run, leaked>>

-----------------------------------------------------------------------------
(* DuckDB copies and discards expressions.                                 *)

\* Mutant: a Clone that panics leaves the copy without bind data.
ClonedOrNull(original, panics) ==
    IF panics \/ original = CopyFailed THEN Unused ELSE original

\* `clone_slot`: T's Clone may panic, and a failed copy is copied as failed.
Cloned(original, panics) == IF panics THEN CopyFailed ELSE original

CopyExpr(e, copy) ==
    LET old == holds[e].data
        shared == [holds EXCEPT ![copy] = [holds[e] EXCEPT !.data = None]]
    IN
    /\ phase[e] = "bound" /\ phase[copy] = "none"
    /\ phase' = [phase EXCEPT ![copy] = "bound"]
    /\ stored' = [stored EXCEPT ![copy] = stored[e]]
    /\ \/ /\ old = None \/ holds[e].copy = "none"
          /\ holds' = shared
          /\ UNCHANGED box
       \/ /\ old # None /\ holds[e].copy # "none"
          /\ \E b \in Boxes, panics \in BOOLEAN :
                /\ Allocated(b)
                /\ panics => holds[e].copy = "clone_slot" /\ box[old] # CopyFailed
                /\ LET new == Cloned(box[old], panics) IN
                   /\ box' = [box EXCEPT ![b] = new]
                   /\ holds' = IF new = Unused THEN shared
                               ELSE [shared EXCEPT ![copy].data = b]
    /\ UNCHANGED <<typed, local, run, leaked>>

\* `drop_boxed`, once no thread runs the expression.
Discard(e) ==
    /\ phase[e] = "bound"
    /\ \A t \in Threads : run[t].of # e /\ local[t].of # e
    /\ phase' = [phase EXCEPT ![e] = "gone"]
    /\ box' = Dropped(box, {holds[e].data})
    /\ holds' = [holds EXCEPT ![e] = Nothing]
    /\ UNCHANGED <<typed, stored, local, run, leaked>>

-----------------------------------------------------------------------------
(* Init and execution, on every thread at once.                            *)

\* `read_slot`: no data, the value, or the failed copy's error.
Read(b) ==
    [saw |-> IF b # None THEN box[b].of ELSE None,
     error |-> b # None /\ box[b] = CopyFailed]

\* The init callback, once per thread and expression.
StartInit(t, e) ==
    /\ run[t] = Idle /\ local[t].of = None /\ phase[e] = "bound"
    /\ run' = [run EXCEPT ![t] = [Idle EXCEPT !.does = "init", !.of = e]]
    /\ local' = [local EXCEPT ![t] = [data |-> None, of |-> e]]
    /\ UNCHANGED <<box, holds, phase, typed, stored, leaked>>

\* `ScalarLocalState::set`; a second one leaks the first.
LocalSet(t) ==
    /\ run[t].does = "init"
    /\ \E b \in Boxes :
        /\ Allocated(b)
        /\ box' = [box EXCEPT ![b] = Value(b)]
        /\ leaked' = leaked \cup ({local[t].data} \ {None})
        /\ local' = [local EXCEPT ![t].data = b]
    /\ UNCHANGED <<holds, phase, typed, stored, run>>

\* `get_from_init`, `get` and `try_get`.
ReadBindData(t) ==
    /\ run[t].does \in {"init", "exec"}
    /\ LET got == Read(holds[run[t].of].data) IN
       run' = [run EXCEPT ![t] =
                  [does |-> IF run[t].does = "init" THEN "initRead" ELSE "execRead",
                   of |-> run[t].of, saw |-> got.saw, error |-> got.error]]
    /\ UNCHANGED <<box, holds, phase, typed, stored, local, leaked>>

\* The execution callback; the local state is this thread's alone.
StartExec(t) ==
    /\ run[t] = Idle /\ local[t].of # None
    /\ run' = [run EXCEPT ![t] = [Idle EXCEPT !.does = "exec",
                                             !.of = local[t].of]]
    /\ UNCHANGED <<box, holds, phase, typed, stored, local, leaked>>

\* The callback returns.  If it reported an error the query fails on this
\* thread, and DuckDB drops its state; otherwise it may execute more.
EndCallback(t) ==
    /\ run[t].does # "nothing"
    /\ run' = [run EXCEPT ![t] = Idle]
    /\ IF run[t].error
       THEN /\ box' = Dropped(box, {local[t].data})
            /\ local' = [local EXCEPT ![t] = [data |-> None, of |-> None]]
       ELSE UNCHANGED <<box, local>>
    /\ UNCHANGED <<holds, phase, typed, stored, leaked>>

\* The thread's execution ends: its local state is freed.
EndThread(t) ==
    /\ run[t] = Idle /\ local[t].of # None
    /\ box' = Dropped(box, {local[t].data})
    /\ local' = [local EXCEPT ![t] = [data |-> None, of |-> None]]
    /\ UNCHANGED <<holds, phase, typed, stored, run, leaked>>

Next ==
    \/ \E e \in Exprs :
          \/ StartBind(e) \/ TypedSet(e) \/ RawSet(e)
          \/ \E ok \in BOOLEAN : EndBind(e, ok)
          \/ \E copy \in Exprs : CopyExpr(e, copy)
          \/ Discard(e)
    \/ \E t \in Threads :
          \/ \E e \in Exprs : StartInit(t, e)
          \/ LocalSet(t) \/ ReadBindData(t) \/ StartExec(t)
          \/ EndCallback(t) \/ EndThread(t)

Spec == Init /\ [][Next]_ssVars

-----------------------------------------------------------------------------

\* A callback that read its bind data and reports no error has read what the
\* bind callback stored last, on every copy of the expression; it never takes
\* a copy that failed for no data (state.rs, Slot::CopyFailed).  Data stored
\* raw and without a copy callback is the documented exception (Pitfall L10).
ReadsWhatBindStored ==
    \A t \in Threads :
        run[t].does \in {"initRead", "execRead"} /\ ~run[t].error =>
            \/ run[t].saw = stored[run[t].of]
            \/ stored[run[t].of] \in RawBoxes /\ run[t].saw = None

\* Whatever is referred to is alive and has one owner, and whatever is alive
\* is referred to, unless it was overwritten where the C API gives no way to
\* free it (state.rs, `ScalarBindData::set` and `ScalarLocalState::set`).
\* What the caller stored itself goes with an expression, and no other way.
Owned == {holds[e].data : e \in Exprs} \cup {local[t].data : t \in Threads}
OwnersOf(b) ==
    {<<"expression", e>> : e \in {f \in Exprs : holds[f].data = b}}
        \cup {<<"thread", t>> : t \in {u \in Threads : local[u].data = b}}
BoxesOwned ==
    /\ \A b \in Owned \ {None} :
          /\ box[b].is \in {"value", "failed"}
          /\ b \notin leaked
          /\ \A o, p \in OwnersOf(b) : o = p
    /\ \A b \in Boxes \cup RawBoxes :
          box[b].is \in {"value", "failed"} => b \in Owned \cup leaked
    /\ \A e \in Exprs : typed[e] # None => typed[e] = holds[e].data
    /\ \A r \in RawBoxes : box[r] = Freed =>
          \E e \in Exprs : phase[e] = "gone" /\ stored[e] = r
=============================================================================
