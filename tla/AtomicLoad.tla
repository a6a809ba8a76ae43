----------------------------- MODULE AtomicLoad -----------------------------
(***************************************************************************)
(* What an entry point promises of a LOAD that registers transactionally   *)
(* ("Registration is transactional", src/src/entry_point.rs): nothing it   *)
(* registers is in the catalog until the LOAD succeeds, then all of it is; *)
(* a LOAD that failed left nothing there and can be tried again.  Settings *)
(* and whatever else keeps no transaction go in one at a time.             *)
(***************************************************************************)
CONSTANTS Loads, Transactional, Entries, Settings, Host, None

VARIABLES
    stage,    \* of each LOAD: "idle", "registering", "done" or "failed"
    granted,  \* the entries a registering LOAD was granted so far
    catalog   \* whose entry answers to each name, None if nobody's

vars == <<stage, granted, catalog>>

Init ==
    /\ stage = [l \in Loads |-> "idle"]
    /\ granted = [l \in Loads |-> {}]
    /\ catalog = [e \in Entries |-> None]

Start(l) ==
    /\ stage[l] \in {"idle", "failed"}
    /\ stage' = [stage EXCEPT ![l] = "registering"]
    /\ granted' = [granted EXCEPT ![l] = {}]
    /\ UNCHANGED catalog

Refuse(l) ==
    /\ stage[l] \in {"idle", "failed"}
    /\ stage' = [stage EXCEPT ![l] = "failed"]
    /\ UNCHANGED <<granted, catalog>>

Grant(l, e) ==
    /\ l \in Transactional /\ stage[l] = "registering"
    /\ granted' = [granted EXCEPT ![l] = @ \cup {e}]
    /\ UNCHANGED <<stage, catalog>>

\* Everything the LOAD was granted, in one step.
Succeed(l) ==
    /\ stage[l] = "registering"
    /\ stage' = [stage EXCEPT ![l] = "done"]
    /\ granted' = [granted EXCEPT ![l] = {}]
    /\ catalog' = [e \in Entries |-> IF e \in granted[l] THEN l ELSE catalog[e]]

Fail(l) ==
    /\ stage[l] = "registering"
    /\ stage' = [stage EXCEPT ![l] = "failed"]
    /\ granted' = [granted EXCEPT ![l] = {}]
    /\ UNCHANGED catalog

\* A write that commits on its own.
Write(owner, e) ==
    /\ owner \in Transactional => e \in Settings
    /\ catalog' = [catalog EXCEPT ![e] = owner]
    /\ UNCHANGED <<stage, granted>>

Next ==
    \/ \E l \in Loads : Start(l) \/ Refuse(l) \/ Succeed(l) \/ Fail(l)
    \/ \E l \in Loads, e \in Entries : Grant(l, e)
    \/ \E owner \in Loads \cup {Host}, e \in Entries : Write(owner, e)

Spec == Init /\ [][Next]_vars
=============================================================================
