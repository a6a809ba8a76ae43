---------------------------- MODULE MCExtraInfo -----------------------------
(* What a function leaves with DuckDB.  ExtraInfo with three builders, of  *)
(* any kinds, and a query; ScalarState with an expression and two copies   *)
(* on a thread.  One run takes one of the two; the variables of the other  *)
(* keep their first values.                                                *)
EXTENDS ExtraInfo, TLC

CONSTANTS
    Exprs, Threads, Boxes, RawBoxes

\* What the extension allocates is told from what its caller does.
ASSUME StateAssumption ==
    /\ None \notin Exprs \cup Boxes \cup RawBoxes
    /\ Boxes \cap RawBoxes = {}

VARIABLES
    part,
    box, held, phase, typed, stored, local, run, leaked

SS == INSTANCE ScalarState WITH holds <- held

stateVars == <<box, held, phase, typed, stored, local, run, leaked>>
MCvars == <<part, vars, stateVars>>

MCInit ==
    /\ part \in {"info", "state"}
    /\ Init /\ SS!Init
    /\ part # "info" => kind = [b \in Builders |-> "single"]

MCNext ==
    /\ \/ part = "info" /\ Next /\ UNCHANGED stateVars
       \/ part = "state" /\ SS!Next /\ UNCHANGED vars
    /\ UNCHANGED part

MCSpec == MCInit /\ [][MCNext]_MCvars

\* A callback reads the bind data its bind callback stored, or reports that
\* the copy of it failed (scalar/state.rs).
ReadsWhatBindStored == part = "state" => SS!ReadsWhatBindStored

\* Bind data and local states have one owner each, and are freed with it
\* (scalar/state.rs).
BoxesOwned == part = "state" => SS!BoxesOwned

Symmetry == Permutations(Infos) \cup Permutations(Builders)
=============================================================================
