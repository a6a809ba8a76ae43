----------------------------- MODULE ExtraInfo ------------------------------
(***************************************************************************)
(* Who frees a function's extra info (src/src/extra_info.rs).  The pointer *)
(* and its destructor belong to the builder (ExtraInfo) until register     *)
(* hands them to a DuckDB object; ExtraInfo::drop frees them only if that  *)
(* did not happen.                                                         *)
(*                                                                         *)
(* A builder is of a kind: "single" (a scalar or aggregate function),      *)
(* "set" (overloads, each with its own info), "table", "copy", "cast".     *)
(* register consumes it, whichever way it ends.  A table builder first     *)
(* becomes a TableFunctionHandle, which is registered, dropped, or given   *)
(* to a copy builder as its COPY ... FROM reader.                          *)
(*                                                                         *)
(* DuckDB (external here) keeps an info in a shared_ptr: copying a         *)
(* function into a set, the catalog, a copy function or a plan shares it,  *)
(* and the last one to go calls the destructor.  A cast's handle has no    *)
(* shared_ptr yet: one DuckDB refuses may or may not have freed its info.  *)
(***************************************************************************)
EXTENDS Naturals

CONSTANTS
    Builders, Infos, Plans, None

ASSUME ExtraInfoAssumption == None \notin Builders

VARIABLES
    kind, stage,   \* what each builder is, and how far it is
    owned,         \* the infos whose ExtraInfo is in the builder
    pending,       \* those a running register has yet to hand over
    transferred,   \* the infos marked transferred
    reader,        \* the table handle a copy builder has, or None
    holds,         \* the infos each object of DuckDB keeps alive
    freed,         \* how often the destructor ran on each info
    adrift,        \* infos of refused casts that nobody will free
    given          \* infos handed to some builder

vars == <<kind, stage, owned, pending, transferred, reader, holds, freed,
          adrift, given>>

Kinds == {"single", "set", "table", "copy", "cast"}

\* "handle": a TableFunctionHandle of its own, "attached": one in a copy
\* builder.  "registered", "refused": DuckDB has answered, register has yet to
\* destroy what it made.
Stages == {"absent", "open", "building", "handle", "attached", "registered",
           "refused", "done"}

\* DuckDB's objects: the handle and the set a builder makes, the catalog entry
\* it registers, and the plans of running queries.
Func(b) == <<"func", b>>
Set(b) == <<"set", b>>
Entry(b) == <<"entry", b>>
Plan(q) == <<"plan", q>>

Holders == ({"func", "set", "entry"} \X Builders) \cup ({"plan"} \X Plans)

TypeOK ==
    /\ kind \in [Builders -> Kinds]
    /\ stage \in [Builders -> Stages]
    /\ owned \in [Builders -> SUBSET Infos]
    /\ pending \in [Builders -> SUBSET Infos]
    /\ transferred \subseteq Infos
    /\ reader \in [Builders -> Builders \cup {None}]
    /\ holds \in [Holders -> SUBSET Infos]
    /\ freed \in [Infos -> Nat]
    /\ adrift \subseteq Infos
    /\ given \subseteq Infos

Init ==
    /\ kind \in [Builders -> Kinds]
    /\ stage = [b \in Builders |-> "absent"]
    /\ owned = [b \in Builders |-> {}]
    /\ pending = [b \in Builders |-> {}]
    /\ transferred = {}
    /\ reader = [b \in Builders |-> None]
    /\ holds = [o \in Holders |-> {}]
    /\ freed = [i \in Infos |-> 0]
    /\ adrift = {}
    /\ given = {}

-----------------------------------------------------------------------------
(* Who holds what.                                                         *)

Held(h) == {i \in Infos : \E o \in Holders : i \in h[o]}

\* Mutant: the drop does not look at the mark.
MineAlways(b) == owned[b]

\* What a builder frees when it is dropped: `ExtraInfo::drop`.
Mine(b) == owned[b] \ transferred

Once(S, i) == IF i \in S THEN 1 ELSE 0

\* DuckDB's objects hold `h` from now on.  The infos none of them holds any
\* more are freed, and so are those in `dropped`, by their ExtraInfo.
Settle(h, dropped) ==
    /\ holds' = h
    /\ freed' = [i \in Infos |-> freed[i] + Once(Held(holds) \ Held(h), i)
                                          + Once(dropped, i)]

\* Mutant: a TableFunctionHandle does not destroy its function.
WithReader(h, b) == h

\* `h` once the copy builder b has dropped its reader (`TableFunctionHandle`).
WithoutReader(h, b) ==
    IF reader[b] = None THEN h ELSE [h EXCEPT ![Func(reader[b])] = {}]

\* The builder and its ExtraInfo, its reader and the reader's are done with.
Consume(b) ==
    /\ stage' = [c \in Builders |-> IF c \in {b, reader[b]} THEN "done"
                                    ELSE stage[c]]
    /\ owned' = [owned EXCEPT ![b] = {}]
    /\ reader' = [reader EXCEPT ![b] = None]

-----------------------------------------------------------------------------
(* Builders.                                                               *)

New(b) ==
    /\ stage[b] = "absent"
    /\ stage' = [stage EXCEPT ![b] = "open"]
    /\ UNCHANGED <<kind, owned, pending, transferred, reader, holds, freed,
                   adrift, given>>

\* `extra_info`: another info replaces the builder's, which is dropped.  A set
\* gets one with every overload.
SetExtraInfo(b, i) ==
    /\ stage[b] = "open"
    /\ i \notin given
    /\ given' = given \cup {i}
    /\ IF kind[b] = "set"
       THEN /\ owned' = [owned EXCEPT ![b] = @ \cup {i}]
            /\ UNCHANGED <<holds, freed>>
       ELSE /\ owned' = [owned EXCEPT ![b] = {i}]
            /\ Settle(holds, Mine(b))
    /\ UNCHANGED <<kind, stage, pending, transferred, reader, adrift>>

\* The builder is dropped, or register refuses it before it makes a handle.
DropBuilder(b) ==
    /\ stage[b] = "open"
    /\ Consume(b)
    /\ Settle(WithoutReader(holds, b), Mine(b))
    /\ UNCHANGED <<kind, pending, transferred, adrift, given>>

\* register makes a handle; a copy function's gets the reader's function.
Begin(b) ==
    /\ stage[b] = "open"
    /\ stage' = [stage EXCEPT ![b] = "building"]
    /\ pending' = [pending EXCEPT ![b] = owned[b]]
    /\ holds' = [holds EXCEPT ![Func(b)] =
                    IF reader[b] = None THEN {} ELSE holds[Func(reader[b])]]
    /\ UNCHANGED <<kind, owned, transferred, reader, freed, adrift, given>>

\* `duckdb_*_set_extra_info`, then `mark_transferred`.
Attach(b, i) ==
    /\ i \in pending[b]
    /\ kind[b] = "set" => holds[Func(b)] = {}
    /\ pending' = [pending EXCEPT ![b] = @ \ {i}]
    /\ holds' = [holds EXCEPT ![Func(b)] = @ \cup {i}]
    /\ transferred' = transferred \cup {i}
    /\ UNCHANGED <<kind, stage, owned, reader, freed, adrift, given>>

\* An overload's function joins the set, and its handle is destroyed.  DuckDB
\* makes no set for an empty name, and nothing joins it.
AddToSet(b, ok) ==
    /\ stage[b] = "building"
    /\ kind[b] = "set"
    /\ holds[Func(b)] # {}
    /\ Settle([holds EXCEPT
                  ![Func(b)] = {},
                  ![Set(b)] = IF ok THEN @ \cup holds[Func(b)] ELSE @], {})
    /\ UNCHANGED <<kind, stage, owned, pending, transferred, reader, adrift,
                   given>>

\* `build_handle` returns, and the builder is gone.
BuildHandle(b) ==
    /\ stage[b] = "building"
    /\ kind[b] = "table"
    /\ pending[b] = {}
    /\ stage' = [stage EXCEPT ![b] = "handle"]
    /\ owned' = [owned EXCEPT ![b] = {}]
    /\ Settle(holds, Mine(b))
    /\ UNCHANGED <<kind, pending, transferred, reader, adrift, given>>

\* What register hands to DuckDB, and when it is complete.
Source(b) == IF kind[b] = "set" THEN Set(b) ELSE Func(b)

Complete(b) ==
    \/ stage[b] = "handle"
    \/ /\ stage[b] = "building" /\ kind[b] # "table"
       /\ pending[b] = {}
       /\ kind[b] = "set" => holds[Func(b)] = {}

\* `duckdb_register_*`: the catalog gets a copy of the function, or DuckDB
\* refuses it, as it does the set it did not make.  A cast's info moves.
Register(b, ok) ==
    /\ Complete(b)
    /\ IF ok
       THEN /\ owned[b] \subseteq holds[Source(b)]
            /\ stage' = [stage EXCEPT ![b] = "registered"]
            /\ holds' = [holds EXCEPT
                            ![Entry(b)] = holds[Source(b)],
                            ![Func(b)] = IF kind[b] = "cast" THEN {} ELSE @]
       ELSE /\ stage' = [stage EXCEPT ![b] = "refused"]
            /\ UNCHANGED holds
    /\ UNCHANGED <<kind, owned, pending, transferred, reader, freed, adrift,
                   given>>

\* register destroys the handle and the set, and drops the builder.
Finish(b) ==
    /\ stage[b] \in {"registered", "refused"}
    /\ Consume(b)
    /\ Settle(WithoutReader([holds EXCEPT ![Func(b)] = {}, ![Set(b)] = {}], b),
              Mine(b))
    /\ UNCHANGED <<kind, pending, transferred, adrift, given>>

\* The same for a refused cast whose info DuckDB has not taken.
FinishAdrift(b) ==
    /\ stage[b] = "refused"
    /\ kind[b] = "cast"
    /\ Consume(b)
    /\ holds' = [holds EXCEPT ![Func(b)] = {}]
    /\ adrift' = adrift \cup holds[Func(b)]
    /\ UNCHANGED <<kind, pending, transferred, freed, given>>

\* `TableFunctionHandle::drop`.
DropHandle(b) ==
    /\ stage[b] = "handle"
    /\ stage' = [stage EXCEPT ![b] = "done"]
    /\ Settle([holds EXCEPT ![Func(b)] = {}], {})
    /\ UNCHANGED <<kind, owned, pending, transferred, reader, adrift, given>>

\* `copy_from`: the handle replaces the reader the copy builder had.
CopyFrom(c, b) ==
    /\ stage[c] = "open" /\ kind[c] = "copy"
    /\ stage[b] = "handle"
    /\ stage' = [d \in Builders |-> IF d = b THEN "attached"
                                    ELSE IF d = reader[c] THEN "done"
                                    ELSE stage[d]]
    /\ reader' = [reader EXCEPT ![c] = b]
    /\ Settle(WithoutReader(holds, c), {})
    /\ UNCHANGED <<kind, owned, pending, transferred, adrift, given>>

\* `copy_from` refuses the handle's parameters, and drops both.
CopyFromRefused(c, b) ==
    /\ stage[c] = "open" /\ kind[c] = "copy"
    /\ stage[b] = "handle"
    /\ stage' = [d \in Builders |-> IF d \in {b, c, reader[c]} THEN "done"
                                    ELSE stage[d]]
    /\ reader' = [reader EXCEPT ![c] = None]
    /\ owned' = [owned EXCEPT ![c] = {}]
    /\ Settle(WithoutReader([holds EXCEPT ![Func(b)] = {}], c), Mine(c))
    /\ UNCHANGED <<kind, pending, transferred, adrift, given>>

-----------------------------------------------------------------------------
(* DuckDB.                                                                 *)

\* A transaction rolls back, a statement replaces the entry, or the database
\* closes.
EntryGone(b) ==
    /\ holds[Entry(b)] # {}
    /\ Settle([holds EXCEPT ![Entry(b)] = {}], {})
    /\ UNCHANGED <<kind, stage, owned, pending, transferred, reader, adrift,
                   given>>

\* A query binds the function, whose callbacks read its infos until it ends.
PlanStart(q, b) ==
    /\ holds[Plan(q)] = {}
    /\ holds[Entry(b)] # {}
    /\ holds' = [holds EXCEPT ![Plan(q)] = holds[Entry(b)]]
    /\ UNCHANGED <<kind, stage, owned, pending, transferred, reader, freed,
                   adrift, given>>

PlanEnd(q) ==
    /\ holds[Plan(q)] # {}
    /\ Settle([holds EXCEPT ![Plan(q)] = {}], {})
    /\ UNCHANGED <<kind, stage, owned, pending, transferred, reader, adrift,
                   given>>

-----------------------------------------------------------------------------
Next ==
    \/ \E b \in Builders :
          \/ New(b) \/ DropBuilder(b) \/ Begin(b) \/ BuildHandle(b)
          \/ Finish(b) \/ FinishAdrift(b) \/ DropHandle(b) \/ EntryGone(b)
          \/ \E i \in Infos : SetExtraInfo(b, i) \/ Attach(b, i)
          \/ \E ok \in BOOLEAN : AddToSet(b, ok) \/ Register(b, ok)
          \/ \E c \in Builders : CopyFrom(c, b) \/ CopyFromRefused(c, b)
          \/ \E q \in Plans : PlanStart(q, b)
    \/ \E q \in Plans : PlanEnd(q)

Spec == Init /\ [][Next]_vars

-----------------------------------------------------------------------------
(* Properties.                                                             *)

\* No info is freed twice, whether its builder is replaced, dropped, refused
\* or registered, and whatever happens to the function afterwards.
FreedOnce == \A i \in Infos : freed[i] <= 1

\* An info is not freed while a builder may still hand it over or a function
\* of DuckDB, a plan's copy included, passes it to its callbacks.
NotFreedInUse ==
    \A i \in Held(holds) \cup UNION {Mine(b) : b \in Builders} : freed[i] = 0

\* The two together: every destructor runs once, after the last use.
FreedRight == FreedOnce /\ NotFreedInUse

\* Where an info may be: in a builder, in the handle of one that is being
\* registered or kept, in the catalog, or in a plan.
Reachable(i) ==
    \/ \E b \in Builders :
          \/ i \in Mine(b)
          \/ i \in holds[Entry(b)]
          \/ /\ stage[b] \in {"building", "handle", "registered", "refused"}
             /\ i \in holds[Func(b)] \cup holds[Set(b)]
          \/ \E c \in Builders :
                /\ reader[c] = b
                /\ stage[c] \in {"open", "building", "registered", "refused"}
                /\ i \in holds[Func(b)]
    \/ \E q \in Plans : i \in holds[Plan(q)]

\* Every info is somewhere it will be freed from, or was freed; only a cast
\* that DuckDB refused may lose its own.
NothingLost ==
    \A i \in given \ adrift : freed[i] = 0 => Reachable(i)
=============================================================================
