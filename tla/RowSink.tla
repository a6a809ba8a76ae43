------------------------------- MODULE RowSink -------------------------------
(***************************************************************************)
(* What an appender promises about rows, with no column counter, buffer or *)
(* poisoning in sight.  A row whose append succeeded is pending until it   *)
(* is stored or the caller is told about it.  Closing stores whatever is   *)
(* pending; only a sink that is let go of without a close may leave        *)
(* pending rows unaccounted for.                                           *)
(***************************************************************************)

CONSTANT Rows

VARIABLES
    state,    \* "open", "closed", or "gone": dropped or handed over
    pending,  \* accepted, not stored yet
    stored,   \* accepted and written
    excused   \* accepted, and covered by an error the caller received

sinkVars == <<state, pending, stored, excused>>

Init ==
    /\ state = "open"
    /\ pending = {}
    /\ stored = {}
    /\ excused = {}

\* A call that accepts `rows` (none, for most calls).
Accept(rows) ==
    /\ state = "open"
    /\ rows \cap (pending \cup stored \cup excused) = {}
    /\ \/ pending' = pending \cup rows /\ stored' = stored
       \/ pending' = {} /\ stored' = stored \cup pending \cup rows
    /\ UNCHANGED <<state, excused>>

\* A call that returns an error: what was pending is excused, and may have
\* been stored, kept or discarded.
Fail ==
    /\ state = "open"
    /\ excused' = excused \cup pending
    /\ \/ pending' = pending /\ stored' = stored
       \/ pending' = {} /\ stored' \in {stored, stored \cup pending}
    /\ UNCHANGED state

Close ==
    /\ state = "open"
    /\ state' = "closed"
    /\ pending' = {}
    /\ stored' = stored \cup pending
    /\ UNCHANGED excused

LetGo ==
    /\ state # "gone"
    /\ state' = "gone"
    /\ \/ UNCHANGED <<pending, stored>>
       \/ pending' = {} /\ stored' \in {stored, stored \cup pending}
    /\ UNCHANGED excused

Next ==
    \/ \E rows \in SUBSET Rows : Accept(rows)
    \/ Fail
    \/ Close
    \/ LetGo

Spec == Init /\ [][Next]_sinkVars
=============================================================================
