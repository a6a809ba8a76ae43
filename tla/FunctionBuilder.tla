--------------------------- MODULE FunctionBuilder ---------------------------
(***************************************************************************)
(* The builders a function is declared with (src/src/table/builder.rs,     *)
(* scalar/builder, aggregate/builder, cast/builder.rs): setters in any     *)
(* order, then `register`, which checks the parts and the types before     *)
(* anything is allocated and hands DuckDB one function, or a set.          *)
(***************************************************************************)
EXTENDS Signature, FiniteSets

CONSTANTS
    Ids,        \* types named by a TypeId: leaves, "ANY" and "STRUCT" among them
    Logicals,   \* types built as a LogicalType
    Returnables, VarargsTypes, \* those of them `returns` and `varargs` are given
    PartCalls,  \* callbacks that are set one after another
    MaxParams,  \* bound: parameters of one builder, over all its overloads
    MaxOverloads

VARIABLES
    kind,       \* what is being built, or None
    fn,         \* the function, or the next overload of the set
    overloads,  \* the set's overloads so far
    default,    \* the aggregate set's own return type
    typed,      \* None, "typed", or "replaced" after a setter replaced a part
    pushdown,   \* projection pushdown, of a table function
    handed,     \* the functions DuckDB was handed
    outcome     \* "building", "refused", "registered"

fbVars == <<kind, fn, overloads, default, typed, pushdown, handed, outcome>>

-----------------------------------------------------------------------------
(* What each builder needs.                                                *)

AggregateParts == {"state_size", "init", "update", "combine", "finalize"}

TableFunctionBuilder ==
    [name |-> "table", parts |-> {"bind", "init", "scan"},
     returns |-> FALSE, nonempty |-> FALSE, varargs |-> FALSE, set |-> FALSE]
ScalarFunctionBuilder ==
    [name |-> "scalar", parts |-> {"function"},
     returns |-> TRUE, nonempty |-> FALSE, varargs |-> TRUE, set |-> FALSE]
ScalarFunctionSetBuilder == [ScalarFunctionBuilder EXCEPT !.set = TRUE]
AggregateFunctionBuilder ==
    [name |-> "aggregate", parts |-> AggregateParts,
     returns |-> TRUE, nonempty |-> TRUE, varargs |-> FALSE, set |-> FALSE]
AggregateFunctionSetBuilder == [AggregateFunctionBuilder EXCEPT !.set = TRUE]
\* A cast has a source and a target, which its constructor takes.
CastFunctionBuilder ==
    [name |-> "cast", parts |-> {"function"},
     returns |-> FALSE, nonempty |-> TRUE, varargs |-> FALSE, set |-> FALSE]

Kinds == {TableFunctionBuilder, ScalarFunctionBuilder, ScalarFunctionSetBuilder,
          AggregateFunctionBuilder, AggregateFunctionSetBuilder}

\* A result type, as an id and as a logical type; the latter wins.
NoReturn == [id |-> None, logical |-> None]
HasReturn(r) == r # NoReturn
Resolved(r) == IF r.logical # None THEN r.logical ELSE r.id

\* `said` is what the calls named, in their order; `named` are the types of a
\* table function's named parameters; `trampolines` are the parts that are a
\* typed table function's own.
NewFn == [simple |-> <<>>, logical |-> <<>>, named |-> {}, varargs |-> None,
          return |-> NoReturn, parts |-> {}, trampolines |-> {},
          builtAs |-> "set", said |-> <<>>]

Start(k) ==
    /\ kind' = k /\ overloads' = <<>> /\ default' = NoReturn
    /\ typed' = None /\ pushdown' = FALSE /\ handed' = <<>>
    /\ outcome' = "building"

Init ==
    /\ kind = None /\ fn = NewFn /\ overloads = <<>> /\ default = NoReturn
    /\ typed = None /\ pushdown = FALSE /\ handed = <<>> /\ outcome = "refused"

Building == outcome = "building"
Setting == Building /\ (kind.set => Len(overloads) < MaxOverloads)

ParamsOf(os) ==
    Cardinality({p \in (DOMAIN os) \X (1..MaxParams) : p[2] <= Len(os[p[1]].said)})

-----------------------------------------------------------------------------
(* The setters.                                                            *)

new(k) == ~Building /\ k \in Kinds /\ Start(k) /\ fn' = NewFn

\* `CastFunctionBuilder::new` and `new_logical`.
new_cast(s, t) ==
    /\ ~Building
    /\ Start(CastFunctionBuilder)
    /\ fn' = IF s \in Ids
             THEN [NewFn EXCEPT !.simple = <<s, t>>, !.said = <<s, t>>]
             ELSE [NewFn EXCEPT !.logical = <<[at |-> 0, type |-> s],
                                              [at |-> 1, type |-> t]>>,
                                !.said = <<s, t>>]

MoreParams ==
    /\ kind.name # "cast"
    /\ Len(fn.said) + Cardinality(fn.named) + ParamsOf(overloads) < MaxParams

param(id) ==
    /\ Setting /\ MoreParams
    /\ fn' = [fn EXCEPT !.simple = Append(@, id), !.said = Append(@, id)]
    /\ UNCHANGED <<kind, overloads, default, typed, pushdown, handed, outcome>>

\* The position `param_logical` records.
Position(f) == Len(f.simple) + Len(f.logical)

param_logical(t) ==
    /\ Setting /\ MoreParams
    /\ fn' = [fn EXCEPT !.logical = Append(@, [at |-> Position(fn), type |-> t]),
                        !.said = Append(@, t)]
    /\ UNCHANGED <<kind, overloads, default, typed, pushdown, handed, outcome>>

\* `named_param` and `named_param_logical`.
named_param(t) ==
    /\ Setting /\ MoreParams /\ kind = TableFunctionBuilder
    /\ fn' = [fn EXCEPT !.named = @ \cup {t}]
    /\ UNCHANGED <<kind, overloads, default, typed, pushdown, handed, outcome>>

varargs(t) ==
    /\ Setting /\ kind.varargs
    /\ fn' = [fn EXCEPT !.varargs = t]
    /\ UNCHANGED <<kind, overloads, default, typed, pushdown, handed, outcome>>

\* `returns` and `returns_logical`; of an aggregate set, for its overloads.
returns(r) ==
    /\ Setting /\ kind.returns
    /\ \/ /\ fn' = [fn EXCEPT !.return = IF r \in Ids THEN [@ EXCEPT !.id = r]
                                        ELSE [@ EXCEPT !.logical = r]]
          /\ UNCHANGED default
       \/ /\ kind = AggregateFunctionSetBuilder
          /\ default' = IF r \in Ids THEN [default EXCEPT !.id = r]
                        ELSE [default EXCEPT !.logical = r]
          /\ UNCHANGED fn
    /\ UNCHANGED <<kind, overloads, typed, pushdown, handed, outcome>>

\* `note_replacement`.
note_replacement(t) == IF t = "typed" THEN "replaced" ELSE t

\* The callbacks, `local_init` and `extra_info`.
SetParts(ps) ==
    /\ Setting
    /\ ps \subseteq kind.parts \cup (IF kind = TableFunctionBuilder
                                   THEN {"local_init", "extra_info"} ELSE {})
    /\ fn' = [fn EXCEPT !.parts = @ \cup ps, !.trampolines = @ \ ps]
    /\ typed' = note_replacement(typed)
    /\ UNCHANGED <<kind, overloads, default, pushdown, handed, outcome>>

Wired == {"bind", "init", "scan", "extra_info"}

\* A typed table function's `build`, which wires the trampolines; it refuses
\* pushdown set before.
build_typed ==
    /\ Building /\ kind = TableFunctionBuilder /\ typed = None /\ ~pushdown
    /\ typed' = "typed"
    /\ fn' = [fn EXCEPT !.parts = @ \cup Wired, !.trampolines = Wired]
    /\ UNCHANGED <<kind, overloads, default, pushdown, handed, outcome>>

projection_pushdown(enable) ==
    /\ Building /\ kind = TableFunctionBuilder /\ pushdown # enable
    /\ pushdown' = enable
    /\ UNCHANGED <<kind, fn, overloads, default, typed, handed, outcome>>

\* `overload`, and `overload_typed` of a function built under some name.
overload(name) ==
    /\ Setting /\ kind.set
    /\ overloads' = Append(overloads, [fn EXCEPT !.builtAs = name])
    /\ fn' = NewFn
    /\ UNCHANGED <<kind, default, typed, pushdown, handed, outcome>>

-----------------------------------------------------------------------------
(* Registration.                                                           *)

Functions == IF kind.set THEN overloads ELSE <<fn>>
Returned(f) == Resolved(IF HasReturn(f.return) THEN f.return ELSE default)

check_parts ==
    /\ kind.set => overloads # <<>>
    /\ \A i \in DOMAIN Functions :
          LET f == Functions[i] IN
          /\ kind.returns => HasReturn(f.return) \/ HasReturn(default)
          /\ kind.parts \subseteq f.parts
          /\ kind.nonempty => Len(f.simple) + Len(f.logical) > 0
          /\ f.builtAs = "set"
    /\ typed # "replaced"
    /\ typed = "typed" => ~pushdown

\* `LogicalType::precheck`, for an id alone.
check_slot(id) == id.is \notin {"STRUCT", "LIST", "ARRAY", "MAP", "UNION", "ENUM",
                                "DECIMAL", "INTEGER_LITERAL", "STRING_LITERAL"}

check_types ==
    /\ default.id # None => check_slot(default.id)
    /\ \A i \in DOMAIN Functions :
          LET f == Functions[i] IN
          /\ \A j \in DOMAIN f.simple : check_slot(f.simple[j])
          /\ \A id \in f.named \cap Ids : check_slot(id)
          /\ f.return.id # None => check_slot(f.return.id)
          /\ f.varargs \in Ids => check_slot(f.varargs)
          \* `refuse_any_return`, and a cast's own check of both its types
          /\ kind.returns => ~contains_any_or_invalid(Returned(f))
          /\ kind.name = "cast" => \A j \in DOMAIN f.said :
                                      ~contains_any_or_invalid(f.said[j])

Shapes ==
    [i \in DOMAIN Functions |->
        signature_parts(merged_params(Functions[i].simple, Functions[i].logical),
                        Functions[i].varargs)]

\* What DuckDB is handed for a function.
Handed(f) == [params |-> merged_params(f.simple, f.logical), varargs |-> f.varargs,
              named |-> f.named, return |-> IF kind.returns THEN Returned(f) ELSE None,
              parts |-> f.parts, trampolines |-> f.trampolines, said |-> f.said]

\* `register`, of any builder: it consumes the builder, whatever comes of it.
Register(k, allowed, accepted) ==
    /\ Building /\ kind = k
    /\ IF check_parts /\ check_types /\ allowed
       THEN /\ handed' = [i \in DOMAIN Functions |-> Handed(Functions[i])]
            /\ outcome' = IF accepted THEN "registered" ELSE "refused"
       ELSE handed' = <<>> /\ outcome' = "refused"
    /\ fn' = NewFn /\ overloads' = <<>> /\ default' = NoReturn
    /\ UNCHANGED <<kind, typed, pushdown>>

\* One for each builder; `accepted` is DuckDB's answer.
RegisterTable(accepted) == Register(TableFunctionBuilder, TRUE, accepted)
RegisterScalar(accepted) == Register(ScalarFunctionBuilder, TRUE, accepted)
RegisterAggregate(accepted) == Register(AggregateFunctionBuilder, TRUE, accepted)
RegisterCast(accepted) == Register(CastFunctionBuilder, TRUE, accepted)
RegisterScalarSet(accepted) ==
    Register(ScalarFunctionSetBuilder,
             ~reject_duplicate_overloads(Shapes), accepted)
RegisterAggregateSet(accepted) ==
    Register(AggregateFunctionSetBuilder,
             ~reject_duplicate_overloads(Shapes), accepted)

Next ==
    \/ \E k \in Kinds : new(k)
    \/ \E s, t \in Ids : new_cast(s, t)
    \/ \E s, t \in Logicals : new_cast(s, t)
    \/ \E id \in Ids : param(id)
    \/ \E t \in Logicals : param_logical(t)
    \/ \E t \in Ids \cup Logicals : named_param(t)
    \/ \E t \in VarargsTypes : varargs(t)
    \/ \E t \in Returnables : returns(t)
    \/ \E ps \in PartCalls : SetParts(ps)
    \/ build_typed
    \/ \E enable \in BOOLEAN : projection_pushdown(enable)
    \/ \E name \in {"set", "other"} : overload(name)
    \/ \E accepted \in BOOLEAN :
          \/ RegisterTable(accepted) \/ RegisterScalar(accepted)
          \/ RegisterAggregate(accepted) \/ RegisterCast(accepted)
          \/ RegisterScalarSet(accepted) \/ RegisterAggregateSet(accepted)

Spec == Init /\ [][Next]_fbVars

-----------------------------------------------------------------------------

\* The parameters in the order they were declared, whichever setter declared
\* them, and a result type DuckDB can resolve.
DeclaredAsSaid(h) ==
    /\ h.params = h.said
    /\ kind.parts \subseteq h.parts
    /\ kind.returns => h.return # None /\ ~Mentions(h.return, {"ANY", "INVALID"})

\* The closures of a typed table function share their data through each
\* other's and read no projection: all of them or none, and none with pushdown.
TypedWhole(h) ==
    /\ h.trampolines \in {{}, Wired}
    /\ h.trampolines # {} => ~pushdown

\* Whatever DuckDB is handed is what the calls said and what it can run, and no
\* call costs nothing for two overloads of it, but through the two pairs that the
\* check documents it does not detect: a LIST beside an ARRAY of the same child,
\* a UNION beside one with all its members and more (signature.rs,
\* reject_duplicate_overloads; table/builder.rs, check_parts).
HandedAsSaid ==
    /\ \A i \in DOMAIN handed : DeclaredAsSaid(handed[i]) /\ TypedWhole(handed[i])
    /\ \A j \in DOMAIN handed : \A i \in 1..(j - 1) :
          ~Ambiguous(handed[i].params, handed[i].varargs,
                     handed[j].params, handed[j].varargs, MaxParams + 1)
=============================================================================
