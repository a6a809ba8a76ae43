----------------------------- MODULE MCFfiState -----------------------------
(* FfiState for a query with one inline and one boxed aggregate.           *)
EXTENDS FfiState, TLC

SlotValueSymmetry == Permutations(Slots) \cup Permutations(Values)
=============================================================================
