--------------------------- MODULE ExtensionLoad ---------------------------
(***************************************************************************)
(* A LOAD, from the entry point to its end (src/src/entry_point.rs and     *)
(* entry_point/registration.rs), with what its registration closure does   *)
(* through the builders (src/src/connection.rs, scalar, table, aggregate,  *)
(* sql_macro, copy_function, config_option): the transaction, the name     *)
(* checks each builder runs before it calls DuckDB, and the thread-local   *)
(* record those checks use.                                                *)
(*                                                                         *)
(* LOADs run on several threads, and a closure may itself run a LOAD, so   *)
(* each thread has a stack of them.  A LOAD that failed may be tried       *)
(* again.                                                                  *)
(*                                                                         *)
(* DuckDB (external here) isolates transactions by snapshot, refuses a     *)
(* write that conflicts with another transaction's, and answers a          *)
(* registration under a taken name as the builders' documentation records  *)
(* for each engine generation.  Under a name that another committed after  *)
(* the snapshot the repository tells of both: an error (entry_point.rs)    *)
(* and, from 1.5 on, the silent answer to a taken name (connection.rs,     *)
(* table/collision.rs).  The model allows either.                          *)
(*                                                                         *)
(* An entry is a name that can be taken: a class of overlapping scalar     *)
(* signatures, a table function, a copy format, an aggregate, a macro, a   *)
(* setting.  Names of different kinds do not meet.                         *)
(***************************************************************************)
EXTENDS Naturals, Sequences

CONSTANTS
    Threads,
    Loads,          \* LOAD statements, each of an extension of its own
    Transactional,  \* the LOADs with Registration::Transactional
    Scalars, Tables, Formats, Aggregates, Macros, Settings,
    Unrendered,     \* scalar signatures the check does not render
    Engine,         \* "1.4", "1.5" or "2.0"
    Host,           \* everything in DuckDB that is not one of Loads
    None

Entries ==
    Scalars \cup Tables \cup Formats \cup Aggregates \cup Macros \cup Settings

ASSUME ExtensionLoadAssumption ==
    /\ Transactional \subseteq Loads
    /\ Unrendered \subseteq Scalars
    /\ Scalars \cap Tables = {}
    /\ (Scalars \cup Tables) \cap (Formats \cup Aggregates \cup Macros) = {}
    /\ Settings \cap (Scalars \cup Tables \cup Formats \cup Aggregates \cup Macros) = {}
    /\ Formats \cap (Aggregates \cup Macros) = {} /\ Aggregates \cap Macros = {}
    /\ Engine \in {"1.4", "1.5", "2.0"}
    /\ Engine = "1.4" => Formats = {} /\ Settings = {}
    /\ Host \notin Loads
    /\ None \notin Loads \cup {Host} \cup (Entries \X {"facade", "raw"})
    /\ None \notin [con : Loads, formats : SUBSET Formats]

VARIABLES
    stack,     \* the LOADs in progress on each thread, innermost last
    stage,     \* of each LOAD
    catalog,   \* whose committed entry answers to each name
    base,      \* what each transaction found committed when it began
    local,     \* what each transaction wrote and has not committed
    aborted,   \* who made each transaction abort, if it did
    call,      \* the registration between its check and its DuckDB call
    listed,    \* the kinds the Connection has listed the catalog for
    listing,   \* and the names it knows since
    scope,     \* SCOPE, the thread-local
    previous,  \* what the Scope guard of each LOAD restores
    promised,  \* entries whose registration returned Ok
    raw,       \* entries registered on the raw connection
    clobbered, \* <<load, entry>>: DuckDB reported a success that took the
               \* name from its owner or dropped the new function
    unseen     \* those whose owner committed after the load's snapshot

txnVars == <<base, local, aborted>>
wrapVars == <<call, listed, listing, scope, previous>>
ghosts == <<promised, raw, clobbered, unseen>>
vars == <<stack, stage, catalog, txnVars, wrapVars, ghosts>>

\* What a listing of the catalog is for: ExistingScalars, ExistingTableFunctions.
KindOf(e) == IF e \in Scalars THEN "scalar" ELSE "table"
OfKind(k) == IF k = "scalar" THEN Scalars ELSE Tables

Innermost(t, l) == stack[t] # <<>> /\ stack[t][Len(stack[t])] = l

\* `l`'s closure is running, and not inside a call.
Running(t, l) == Innermost(t, l) /\ call[l] = None

Init ==
    /\ stack = [t \in Threads |-> <<>>]
    /\ stage = [l \in Loads |-> "idle"]
    /\ catalog = [e \in Entries |-> None]
    /\ base = [l \in Loads |-> [e \in Entries |-> None]]
    /\ local = [l \in Loads |-> {}]
    /\ aborted = [l \in Loads |-> "no"]
    /\ call = [l \in Loads |-> None]
    /\ listed = [l \in Loads |-> {}]
    /\ listing = [l \in Loads |-> {}]
    /\ scope = [t \in Threads |-> None]
    /\ previous = [l \in Loads |-> None]
    /\ promised = [l \in Loads |-> {}]
    /\ raw = [l \in Loads |-> {}]
    /\ clobbered = {}
    /\ unseen = {}

-----------------------------------------------------------------------------
(* DuckDB.                                                                 *)

\* What a statement on `l`'s connection sees.
Visible(l) ==
    IF l \in Transactional
    THEN {e \in Entries \ Settings : base[l][e] # None} \cup local[l]
            \cup {e \in Settings : catalog[e] # None}
    ELSE {e \in Entries : catalog[e] # None}

\* Another committed `e` after `l`'s snapshot.
Late(l, e) == l \in Transactional /\ e \notin Settings /\ catalog[e] # base[l][e]

\* A failed statement aborts the transaction, on 2.0 always, before at times.
AfterFailure(l, who) ==
    IF l \notin Transactional \/ aborted[l] # "no" THEN {aborted[l]}
    ELSE IF Engine = "2.0" THEN {who}
    ELSE {who, "no"}

\* The LOAD that failed is a statement of the closure around it, run on that
\* closure's connection or on one of its own.
AfterNested(s) ==
    IF s = <<>> THEN {aborted}
    ELSE LET outer == s[Len(s)] IN
         {[aborted EXCEPT ![outer] = a] :
             a \in AfterFailure(outer, "closure") \cup {aborted[outer]}}

\* What DuckDB makes of a name that is taken.
Taken(e) ==
    IF e \in Macros THEN "replaced"
    ELSE IF e \in Aggregates \cup Settings \/ Engine = "1.4" THEN "failed"
    ELSE IF e \in Scalars THEN "replaced"
    ELSE "dropped"

\* What registering `e` under `l`'s transaction may come to.
Answers(l, e) ==
    IF aborted[l] # "no" \/ \E m \in Loads \ {l} : e \in local[m] THEN {"failed"}
    ELSE IF Late(l, e) THEN {"failed", Taken(e)}
    ELSE IF e \in Visible(l) THEN {Taken(e)}
    ELSE {"created", "failed"}

\* Something else in the database: another connection, a C++ extension.
HostWrites ==
    \E e \in Entries \ Settings :
        /\ catalog[e] = None
        /\ \A l \in Loads : e \notin local[l]
        /\ catalog' = [catalog EXCEPT ![e] = Host]
        /\ UNCHANGED <<stack, stage, txnVars, wrapVars, ghosts>>

-----------------------------------------------------------------------------
(* The entry point.                                                        *)

\* `Scope::enter`.
Entered(l) == [con |-> l, formats |-> {}]

\* Mutant: the guard clears the scope instead of restoring it.
RestoredNone(l) == None

\* `Scope::drop`.
Restored(l) == previous[l]

\* `init_extension_internal` up to the closure: the C API, the ABI policy, the
\* database, the connection, BEGIN TRANSACTION, Scope::enter.
Begin(t, l) ==
    /\ stage[l] \in {"idle", "failed"}
    /\ stack[t] # <<>> => Running(t, stack[t][Len(stack[t])])
    /\ stack' = [stack EXCEPT ![t] = Append(@, l)]
    /\ stage' = [stage EXCEPT ![l] = "registering"]
    /\ IF l \in Transactional
       THEN /\ base' = [base EXCEPT ![l] = catalog]
            /\ scope' = [scope EXCEPT ![t] = Entered(l)]
            /\ previous' = [previous EXCEPT ![l] = scope[t]]
       ELSE UNCHANGED <<base, scope, previous>>
    /\ UNCHANGED <<catalog, local, aborted, call, listed, listing, ghosts>>

\* Any of those steps failed: the LOAD fails, and nothing else happened.
Refuse(t, l) ==
    /\ stage[l] \in {"idle", "failed"}
    /\ stack[t] # <<>> => Running(t, stack[t][Len(stack[t])])
    /\ stage' = [stage EXCEPT ![l] = "failed"]
    /\ aborted' \in AfterNested(stack[t])
    /\ UNCHANGED <<stack, catalog, base, local, wrapVars, ghosts>>

\* Mutant: the result of COMMIT is not looked at.
SucceedsUnchecked(l, ok, commits) == ok

\* The LOAD succeeds if the closure returned Ok (neither Err nor a panic), and
\* COMMIT, which cannot commit an aborted transaction, did.
Succeeds(l, ok, commits) ==
    ok /\ (l \in Transactional => commits /\ aborted[l] = "no")

\* COMMIT or ROLLBACK (a failed one, too: the disconnect rolls back).
Installed(l, committing) ==
    [e \in Entries |-> IF committing /\ e \in local[l] /\ aborted[l] = "no"
                       THEN l ELSE catalog[e]]

\* The closure returned or panicked: the scope is left, the transaction ends,
\* the connection is closed and the result reported.
Finish(t, l, ok, commits) ==
    LET good == Succeeds(l, ok, commits)
        outer == SubSeq(stack[t], 1, Len(stack[t]) - 1)
        forget == ~good /\ l \in Transactional
    IN  /\ Running(t, l)
        /\ stack' = [stack EXCEPT ![t] = outer]
        /\ stage' = [stage EXCEPT ![l] = IF good THEN "done" ELSE "failed"]
        /\ catalog' = Installed(l, ok /\ commits)
        /\ \E a \in IF good THEN {aborted} ELSE AfterNested(outer) :
              aborted' = [a EXCEPT ![l] = "no"]
        /\ base' = [base EXCEPT ![l] = [e \in Entries |-> None]]
        /\ local' = [local EXCEPT ![l] = {}]
        /\ scope' = IF l \in Transactional
                      THEN [scope EXCEPT ![t] = Restored(l)] ELSE scope
        /\ previous' = [previous EXCEPT ![l] = None]
        /\ listed' = [listed EXCEPT ![l] = {}]
        /\ listing' = [listing EXCEPT ![l] = {}]
        /\ promised' = [promised EXCEPT ![l] = IF forget THEN {} ELSE @]
        /\ raw' = [raw EXCEPT ![l] = IF forget THEN {} ELSE @]
        /\ clobbered' = IF forget THEN clobbered \ ({l} \X Entries)
                                  ELSE clobbered
        /\ unseen' = unseen \cap clobbered'
        /\ UNCHANGED call

-----------------------------------------------------------------------------
(* What a closure does.                                                    *)

\* A statement of its own fails.
StatementFails(t, l) ==
    /\ Running(t, l)
    /\ \E a \in AfterFailure(l, "closure") :
          aborted' = [aborted EXCEPT ![l] = a]
    /\ UNCHANGED <<stack, stage, catalog, base, local, wrapVars, ghosts>>

\* `refuse_taken_signatures` and `refuse_taken_table_function_name`: through
\* the Connection the catalog is listed once, on the raw connection each time.
CheckListed(t, l, e, via) ==
    LET k == KindOf(e)
        cached == via = "facade" /\ k \in listed[l]
        names == IF cached THEN listing[l] ELSE Visible(l) \cap OfKind(k)
    IN  /\ Running(t, l)
        /\ e \in Scalars \cup Tables /\ e \notin Unrendered
        /\ cached \/ aborted[l] = "no"
        /\ IF via = "facade"
           THEN /\ listed' = [listed EXCEPT ![l] = @ \cup {k}]
                /\ listing' = [listing EXCEPT ![l] = @ \cup names]
           ELSE UNCHANGED <<listed, listing>>
        /\ call' = [call EXCEPT ![l] = IF e \in names THEN None
                                       ELSE <<e, via>>]
        /\ UNCHANGED <<stack, stage, catalog, txnVars, scope, previous, ghosts>>

\* A scalar that cannot be rendered, an aggregate, a macro (whose text is only
\* parsed): the catalog is not looked at first.
CheckNothing(t, l, e, via) ==
    /\ Running(t, l)
    /\ e \in Unrendered \cup Aggregates \cup Macros
    /\ call' = [call EXCEPT ![l] = <<e, via>>]
    /\ UNCHANGED <<stack, stage, catalog, txnVars, listed, listing, scope,
                   previous, ghosts>>

\* `copy_format_scope`: is `l`'s transaction the one open on this thread?
InScope(t, l) == scope[t] # None /\ scope[t].con = l

\* `refuse_taken_format_name`: the record of the transaction, then a statement
\* that always fails, on a connection of its own, which sees what is committed.
ProbeApart(t, l, e) ==
    /\ Running(t, l)
    /\ e \in Formats
    /\ InScope(t, l)
    /\ call' = [call EXCEPT ![l] =
                   IF e \in scope[t].formats \/ catalog[e] # None
                   THEN None ELSE <<e, "raw">>]
    /\ UNCHANGED <<stack, stage, catalog, txnVars, listed, listing, scope,
                   previous, ghosts>>

\* Outside that transaction the statement runs on `l`'s connection, and on 2.0
\* aborts a transaction open there.
ProbeOnCon(t, l, e) ==
    /\ Running(t, l)
    /\ e \in Formats
    /\ ~InScope(t, l)
    /\ call' = [call EXCEPT ![l] = IF e \in Visible(l) \/ aborted[l] # "no"
                                   THEN None ELSE <<e, "raw">>]
    /\ aborted' = [aborted EXCEPT ![l] =
                      IF l \in Transactional /\ Engine = "2.0" /\ @ = "no"
                      THEN "probe" ELSE @]
    /\ UNCHANGED <<stack, stage, catalog, base, local, listed, listing, scope,
                   previous, ghosts>>

\* `refuse_existing_setting` (and `typed_default`).
CheckSetting(t, l, e) ==
    /\ Running(t, l)
    /\ e \in Settings
    /\ aborted[l] = "no" /\ catalog[e] = None
    /\ call' = [call EXCEPT ![l] = <<e, "raw">>]
    /\ UNCHANGED <<stack, stage, catalog, txnVars, listed, listing, scope,
                   previous, ghosts>>

\* Mutant: a registration is not added to the list.
RecordedNothing(l, e, via) == listing

\* `record_registered`.
Recorded(l, e, via) ==
    IF /\ e \in (Scalars \cup Tables) \ Unrendered
       /\ via = "facade"
       /\ KindOf(e) \in listed[l]
    THEN [listing EXCEPT ![l] = @ \cup {e}]
    ELSE listing

\* Mutant: a copy format is not added to the transaction's record.
FormatRecordedNothing(t, l, e) == scope

\* `record_copy_format`.
FormatRecorded(t, l, e) ==
    IF e \in Formats /\ InScope(t, l)
    THEN [scope EXCEPT ![t].formats = @ \cup {e}]
    ELSE scope

\* Mutant: no BEGIN TRANSACTION, so every registration commits.
BuffersNothing(l, e) == FALSE

\* The registration joins the transaction; a setting has none to join.
Buffers(l, e) == l \in Transactional /\ e \notin Settings

\* The duckdb_register_* call, or CREATE OR REPLACE MACRO, and what the builder
\* records when it succeeds.
Register(t, l) ==
    /\ Innermost(t, l) /\ call[l] # None
    /\ \E answer \in Answers(l, call[l][1]) :
        LET e == call[l][1]
            via == call[l][2]
            ok == answer # "failed"
            writes == answer \in {"created", "replaced"}
            wrong == answer \in {"replaced", "dropped"} /\ e \notin Macros
        IN  /\ call' = [call EXCEPT ![l] = None]
            /\ local' = [local EXCEPT ![l] =
                            IF writes /\ Buffers(l, e) THEN @ \cup {e} ELSE @]
            /\ catalog' = [catalog EXCEPT ![e] =
                              IF writes /\ ~Buffers(l, e) THEN l ELSE @]
            /\ listing' = IF ok THEN Recorded(l, e, via) ELSE listing
            /\ scope' = IF ok THEN FormatRecorded(t, l, e) ELSE scope
            /\ promised' = [promised EXCEPT ![l] = IF ok THEN @ \cup {e} ELSE @]
            /\ raw' = [raw EXCEPT ![l] =
                          IF ok /\ via = "raw" /\ e \in Scalars \cup Tables
                          THEN @ \cup {e} ELSE @]
            /\ clobbered' = IF wrong THEN clobbered \cup {<<l, e>>} ELSE clobbered
            /\ unseen' = IF wrong /\ Late(l, e)
                            THEN unseen \cup {<<l, e>>} ELSE unseen
            /\ \E a \in IF ok THEN {aborted[l]}
                        ELSE AfterFailure(l, "closure") :
                  aborted' = [aborted EXCEPT ![l] = a]
    /\ UNCHANGED <<stack, stage, base, listed, previous>>

Next ==
    \/ HostWrites
    \/ \E t \in Threads, l \in Loads :
          \/ Begin(t, l) \/ Refuse(t, l)
          \/ StatementFails(t, l) \/ Register(t, l)
          \/ \E ok, commits \in BOOLEAN : Finish(t, l, ok, commits)
          \/ \E e \in Entries :
                \/ \E via \in {"facade", "raw"} :
                      CheckListed(t, l, e, via) \/ CheckNothing(t, l, e, via)
                \/ ProbeApart(t, l, e) \/ ProbeOnCon(t, l, e)
                \/ CheckSetting(t, l, e)

Spec == Init /\ [][Next]_vars

-----------------------------------------------------------------------------
(* Properties.                                                             *)

Scopes == {None} \cup [con : Loads, formats : SUBSET Formats]

\* Every variable keeps to its type.
TypeOK ==
    /\ stack \in [Threads -> Seq(Loads)]
    /\ stage \in [Loads -> {"idle", "registering", "done", "failed"}]
    /\ catalog \in [Entries -> Loads \cup {Host, None}]
    /\ base \in [Loads -> [Entries -> Loads \cup {Host, None}]]
    /\ local \in [Loads -> SUBSET Entries]
    /\ aborted \in [Loads -> {"no", "closure", "probe"}]
    /\ call \in [Loads -> {None} \cup (Entries \X {"facade", "raw"})]
    /\ listed \in [Loads -> SUBSET {"scalar", "table"}]
    /\ listing \in [Loads -> SUBSET Entries]
    /\ scope \in [Threads -> Scopes]
    /\ previous \in [Loads -> Scopes]
    /\ promised \in [Loads -> SUBSET Entries]
    /\ raw \in [Loads -> SUBSET Entries]
    /\ clobbered \subseteq Loads \X Entries
    /\ unseen \subseteq clobbered

\* A failed LOAD leaves no catalog entry behind, and one still running has put
\* none there yet, so a retry meets none of its own; settings are excepted
\* (entry_point.rs, "Registration is transactional").
OnlyFinishedLoadsVisible ==
    \A e \in Entries \ Settings :
        catalog[e] \in Transactional => stage[catalog[e]] = "done"

\* Inside the registration transaction no registration takes a name from its
\* owner, or is dropped, while reporting success, however the LOADs around it
\* commit.  Three gaps are documented, and are all there is: a scalar that is
\* not rendered, a name the closure itself registered on the raw connection,
\* and one that another LOAD, or anything else in the database, committed after
\* the snapshot, which the checks cannot see and DuckDB may answer silently
\* (connection.rs, the fields `scalars` and `tables`).
NoSilentClobber ==
    \A l \in Transactional, e \in Entries :
        <<l, e>> \in clobbered \ unseen => e \in Unrendered \/ e \in raw[l]

\* The check for a taken copy format, which fails on purpose, never aborts the
\* transaction it checks for, nested LOADs or not (registration.rs, ScopeState).
NoSelfAbort == \A l \in Loads : aborted[l] # "probe"

\* SCOPE names the innermost transaction open on its thread and exactly the
\* formats registered in it, whatever was nested in between.
ScopeMatchesStack ==
    \A t \in Threads :
        LET open == {i \in 1..Len(stack[t]) : stack[t][i] \in Transactional}
        IN  IF open = {} THEN scope[t] = None
            ELSE \E i \in open :
                    /\ \A j \in open : j <= i
                    /\ scope[t] =
                          [con |-> stack[t][i],
                           formats |-> promised[stack[t][i]] \cap Formats]

\* What a LOAD that succeeded was told it had registered is in the catalog, as
\* its own unless a macro or an unchecked scalar has replaced it since.
PromisesKept ==
    \A l \in Loads : \A e \in promised[l] :
        stage[l] = "done" =>
            /\ catalog[e] # None
            /\ catalog[e] # l =>
                  e \in Macros \/ \E m \in Loads : <<m, e>> \in clobbered

\* LOADs are what AtomicLoad promises: all of a transaction's entries at once,
\* when the LOAD succeeds, or none.
Atomic == INSTANCE AtomicLoad WITH granted <- local
ImplementsAtomicLoad == Atomic!Spec
=============================================================================
