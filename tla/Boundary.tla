------------------------------ MODULE Boundary ------------------------------
(* What crosses the C boundary while a query runs: a callback into the     *)
(* extension (Callback), results that are read to their ends (Query), and  *)
(* values of the temporal types (TemporalValue).                           *)
EXTENDS Integers, Sequences

CONSTANTS
    None, Results, Messages, MaxChunks,
    HalfWord, Thousand, MICROS_PER_DAY, TIME_TZ_MAX_OFFSET, MaxNesting

\* A null pointer is told from every C string.
ASSUME NoneAssumption == None \notin {"", "text"}

ASSUME MaxChunksAssumption == MaxChunks \in Nat

VARIABLES
    macro, stage, trying, drops, payload, panicked, error, result,
    engine, results, bound, interrupted, value, last

CB == INSTANCE Callback
QR == INSTANCE Query
TV == INSTANCE TemporalValue

\* What the code's numbers are: a word is longer than a day in nanoseconds,
\* or with its offset beside it, and 2^63 - 1 is no whole number of milliseconds.
ASSUME WordAssumption ==
    /\ HalfWord \in Nat /\ Thousand \in Nat /\ MICROS_PER_DAY \in Nat
    /\ TIME_TZ_MAX_OFFSET \in Nat
    /\ Thousand >= 2 /\ MICROS_PER_DAY >= 1
    /\ 4 * MICROS_PER_DAY + TIME_TZ_MAX_OFFSET < 2 * HalfWord
    /\ MICROS_PER_DAY * Thousand < HalfWord
    /\ HalfWord > 3 /\ (HalfWord - 1) % Thousand # 0

\* The null Value, "no answer" and "no guard" are told from what is there.
ASSUME ValueAssumption ==
    /\ None \notin Int \cup {TV!To(0), TV!Fails, TV!Throws}
    /\ None \notin [type : TV!Leaves, payload : Int \cup {None},
                  in : Seq([kind : TV!Kinds, of : SUBSET TV!Leaves])]
    /\ None \notin [finite : BOOLEAN, infinite : BOOLEAN, factor : Nat, day : Nat]

\* A panic is never taken for success and never reported without a message
\* (callback.rs).
PanicsReported == CB!PanicsReported

\* Disposing of a panic payload ends (callback/payload.rs).
DisposalEnds == CB!DisposalEnds

\* `Ok(None)` means that every row has been read (query/result.rs).
EndedMeansComplete == QR!EndedMeansComplete

\* A caller that reads in a loop stops (query/result.rs).
DrainEnds == QR!DrainEnds

\* DuckDB gets no payload it fails on (value/temporal_checks.rs).
NothingThrows == TV!NothingThrows

\* And only those are refused (value/temporal_checks.rs).
RefusesOnlyWhatFails == TV!RefusesOnlyWhatFails
=============================================================================
