------------------------------ MODULE FfiState ------------------------------
(***************************************************************************)
(* The bytes behind an aggregate's groups (src/src/aggregate/state.rs).    *)
(* DuckDB allocates a slot per group and calls init, update, combine and   *)
(* destroy on it; FfiState<T> keeps a T in the slot, inline or boxed, under *)
(* a tag that says so.                                                     *)
(*                                                                         *)
(* DuckDB (external here) does what the type's documentation records: it   *)
(* hands out slots holding whatever the memory held, moves a state by      *)
(* copying its bytes and forgets the copy left behind, stops a scan        *)
(* without destroying the rest, destroys a slot twice, and, when an init   *)
(* fails, destroys slots whose init never ran.                             *)
(*                                                                         *)
(* A tag is the pair it is computed from.  That two different pairs give   *)
(* the same word, or that junk bytes spell a tag (one in 2^64), is left    *)
(* out.                                                                    *)
(***************************************************************************)
EXTENDS Naturals, FiniteSets

CONSTANTS
    Slots,                  \* state rows DuckDB can allocate
    Values,                 \* the T values ever made; a boxed T's address
    Types,                  \* the state types of the aggregates of a query
    InlineTypes,            \* the types stored in the slot itself
    Zero, Junk,             \* words that are no tag
    Null,                   \* no value, a null pointer
    DestroysStaleBytes      \* among the slots DuckDB destroys uninitialised,
                            \* some hold the bytes a moved or forgotten state
                            \* of their own type left behind

ASSUME FfiStateAssumption ==
    /\ InlineTypes \subseteq Types
    /\ Null \notin Values \cup Types
    /\ Zero \notin Types \X (Values \cup {Null})
    /\ Junk \notin Types \X (Values \cup {Null})
    /\ DestroysStaleBytes \in BOOLEAN

VARIABLES
    mem,      \* the bytes of each slot: its tag word and its payload
    owner,    \* the type whose callbacks DuckDB calls on the slot
    phase,    \* where DuckDB is with the slot
    queue,    \* slots a running destroy callback has still to visit
    typeOf,   \* the type each value was made as, Null before it is made
    dropped,  \* values whose destructor has run
    leaked,   \* values DuckDB forgot without a destroy
    wild      \* slots where a destructor ran on anything but a live value of
              \* the slot's type

vars == <<mem, owner, phase, queue, typeOf, dropped, leaked, wild>>

Cells == [tag : {Zero, Junk} \cup (Types \X (Values \cup {Null})),
          body : Values \cup {Null}]

Phases == {"free", "created", "ready", "failed", "spent"}

-----------------------------------------------------------------------------
(* Slots.                                                                  *)

\* `tag_for`: derived from the type and, when T is boxed, the box's address.
TagFor(type, box) == <<type, box>>

\* The pointer word of a boxed slot.
Inner(cell, type) == IF type \in InlineTypes THEN Null ELSE cell.body

Matches(cell, type) == cell.tag = TagFor(type, Inner(cell, type))

\* The tag is cleared, and the pointer of a boxed T nulled.
Cleared(cell, type) ==
    [tag  |-> Zero,
     body |-> IF type \in InlineTypes THEN cell.body ELSE Null]

\* `value`, behind with_state and with_state_mut: the T, or none.
Value(s) ==
    IF Matches(mem[s], owner[s]) THEN mem[s].body ELSE Null

Live(v, type) == v \in Values /\ typeOf[v] = type /\ v \notin dropped

Init ==
    /\ mem = [s \in Slots |-> [tag |-> Junk, body |-> Null]]
    /\ owner \in [Slots -> Types]
    /\ phase = [s \in Slots |-> "free"]
    /\ queue = {}
    /\ typeOf = [v \in Values |-> Null]
    /\ dropped = {}
    /\ leaked = {}
    /\ wild = {}

-----------------------------------------------------------------------------
(* DuckDB.                                                                 *)

\* A row for a new state: zeroed, junk, or what the memory held before.
Create ==
    \E s \in Slots, type \in Types, cell \in Cells :
        /\ phase[s] = "free"
        /\ \/ cell.tag \in {Zero, Junk} /\ cell.body = Null
           \/ cell = mem[s]
        /\ mem' = [mem EXCEPT ![s] = cell]
        /\ owner' = [owner EXCEPT ![s] = type]
        /\ phase' = [phase EXCEPT ![s] = "created"]
        /\ UNCHANGED <<queue, typeOf, dropped, leaked, wild>>

\* Radix repartitioning: the bytes go to a new row, the old ones stay behind.
Move ==
    \E s, t \in Slots :
        /\ phase[s] = "ready" /\ s \notin queue
        /\ phase[t] = "free"
        /\ mem' = [mem EXCEPT ![t] = mem[s]]
        /\ owner' = [owner EXCEPT ![t] = owner[s]]
        /\ phase' = [phase EXCEPT ![t] = "ready", ![s] = "free"]
        /\ UNCHANGED <<queue, typeOf, dropped, leaked, wild>>

\* A destroy call: states that are done with, in an order DuckDB chooses;
\* slots already destroyed; up to 1.5.5, after a failed init, slots whose init
\* never ran.
Destroy ==
    \E states \in SUBSET Slots :
        /\ states # {}
        /\ \A s \in states :
              \/ phase[s] \in {"ready", "failed", "spent"}
              \/ /\ phase[s] = "created"
                 /\ \E t \in Slots : phase[t] = "failed"
                 /\ Matches(mem[s], owner[s]) => DestroysStaleBytes
        /\ queue' = queue \cup states
        /\ UNCHANGED <<mem, owner, phase, typeOf, dropped, leaked, wild>>

\* The row's memory goes back to DuckDB, bytes and all.
Release ==
    \E s \in Slots :
        /\ phase[s] = "spent" /\ s \notin queue
        /\ phase' = [phase EXCEPT ![s] = "free"]
        /\ UNCHANGED <<mem, owner, queue, typeOf, dropped, leaked, wild>>

\* The scan stopped early: a state that nobody will ever destroy.
Forget ==
    \E s \in Slots :
        /\ phase[s] \in {"created", "ready", "failed"} /\ s \notin queue
        /\ phase' = [phase EXCEPT ![s] = "free"]
        /\ leaked' = IF phase[s] = "ready"
                       THEN leaked \cup ({mem[s].body} \cap Values)
                       ELSE leaked
        /\ UNCHANGED <<mem, owner, queue, typeOf, dropped, wild>>

-----------------------------------------------------------------------------
(* The callbacks.                                                          *)

\* Mutants: the slot is written only once T::default() has returned; a slot
\* whose tag already matches is taken for initialised.
InitUncleared(s, made) ==
    /\ phase[s] = "created"
    /\ IF made
       THEN \E v \in Values :
               /\ typeOf[v] = Null
               /\ typeOf' = [typeOf EXCEPT ![v] = owner[s]]
               /\ mem' = [mem EXCEPT ![s] =
                     [tag  |-> TagFor(owner[s], IF owner[s] \in InlineTypes
                                                THEN Null ELSE v),
                      body |-> v]]
               /\ phase' = [phase EXCEPT ![s] = "ready"]
       ELSE /\ phase' = [phase EXCEPT ![s] = "failed"]
            /\ UNCHANGED <<mem, typeOf>>
    /\ UNCHANGED <<owner, queue, dropped, leaked, wild>>

\* `init_callback`: the tag is cleared before T::default() runs, and written
\* only if it returned; a panic leaves the slot cleared and fails the query.
InitCallback(s, made) ==
    /\ phase[s] = "created"
    /\ IF made
       THEN \E v \in Values :
               /\ typeOf[v] = Null
               /\ typeOf' = [typeOf EXCEPT ![v] = owner[s]]
               /\ mem' = [mem EXCEPT ![s] =
                     [tag  |-> TagFor(owner[s], IF owner[s] \in InlineTypes
                                                THEN Null ELSE v),
                      body |-> v]]
               /\ phase' = [phase EXCEPT ![s] = "ready"]
       ELSE /\ mem' = [mem EXCEPT ![s] = Cleared(mem[s], owner[s])]
            /\ phase' = [phase EXCEPT ![s] = "failed"]
            /\ UNCHANGED typeOf
    /\ UNCHANGED <<owner, queue, dropped, leaked, wild>>

\* Mutants: the tag is left as it is; a panicking destructor ends the loop.
DestroyUncleared(s) ==
    /\ s \in queue
    /\ queue' = queue \ {s}
    /\ phase' = [phase EXCEPT ![s] = "spent"]
    /\ IF Matches(mem[s], owner[s])
       THEN /\ dropped' = dropped \cup ({mem[s].body} \cap Values)
            /\ wild' = IF Live(mem[s].body, owner[s])
                       THEN wild ELSE wild \cup {s}
       ELSE UNCHANGED <<dropped, wild>>
    /\ UNCHANGED <<mem, owner, typeOf, leaked>>

DestroyStopsEarly(s) ==
    /\ s \in queue
    /\ queue' = {}
    /\ phase' = [t \in Slots |-> IF t \in queue THEN "spent" ELSE phase[t]]
    /\ IF Matches(mem[s], owner[s])
       THEN /\ mem' = [mem EXCEPT ![s] = Cleared(mem[s], owner[s])]
            /\ dropped' = dropped \cup ({mem[s].body} \cap Values)
       ELSE UNCHANGED <<mem, dropped>>
    /\ UNCHANGED <<owner, typeOf, leaked, wild>>

\* One turn of `destroy_callback`'s loop.  A slot whose tag does not match is
\* skipped; otherwise the tag is cleared before the destructor runs.  A panic
\* in the destructor is caught, and the loop goes on to the next slot.
DestroyOne(s) ==
    /\ s \in queue
    /\ queue' = queue \ {s}
    /\ phase' = [phase EXCEPT ![s] = "spent"]
    /\ IF Matches(mem[s], owner[s])
       THEN /\ mem' = [mem EXCEPT ![s] = Cleared(mem[s], owner[s])]
            /\ dropped' = dropped \cup ({mem[s].body} \cap Values)
            /\ wild' = IF Live(mem[s].body, owner[s])
                       THEN wild ELSE wild \cup {s}
       ELSE UNCHANGED <<mem, dropped, wild>>
    /\ UNCHANGED <<owner, typeOf, leaked>>

Next ==
    \/ Create \/ Move \/ Destroy \/ Release \/ Forget
    \/ \E s \in Slots, made \in BOOLEAN : InitCallback(s, made)
    \/ \E s \in Slots : DestroyOne(s)

Spec == Init /\ [][Next]_vars

-----------------------------------------------------------------------------
(* Properties.                                                             *)

\* Every variable keeps to its type.
TypeOK ==
    /\ mem \in [Slots -> Cells]
    /\ owner \in [Slots -> Types]
    /\ phase \in [Slots -> Phases]
    /\ queue \subseteq Slots
    /\ typeOf \in [Values -> Types \cup {Null}]
    /\ dropped \subseteq Values
    /\ leaked \subseteq Values
    /\ wild \subseteq Slots

\* No destructor runs on bytes init never wrote, on a value of another type,
\* or a second time on the same value, whatever slots destroy_callback is
\* handed ("drops only a slot whose tag matches, clearing it first", state.rs).
NoWildDrop == wild = {}

\* with_state hands out a live T for every slot whose init succeeded, so no
\* row of the query is skipped, and nothing for one whose init failed.
BorrowSound ==
    \A s \in Slots :
        /\ phase[s] = "ready" => Live(Value(s), owner[s])
        /\ phase[s] = "failed" => Value(s) = Null

\* Two slots DuckDB is using never hand out the same T, so two callbacks never
\* hold a mutable reference to one value.
NoAliasing ==
    \A s, t \in Slots :
        phase[s] = "ready" /\ phase[t] = "ready" /\ s # t
            => Value(s) # Value(t)

\* Every T that was made is still in a slot DuckDB will destroy, or was
\* dropped, or DuckDB itself forgot its slot: moving a state never loses it,
\* and a destructor that panics does not leak the states after it.
NothingForgotten ==
    \A v \in Values :
        typeOf[v] # Null /\ v \notin dropped \cup leaked
            => \E s \in Slots :
                  /\ Value(s) = v
                  /\ phase[s] = "ready"
=============================================================================
