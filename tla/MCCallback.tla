----------------------------- MODULE MCCallback -----------------------------
(* What crosses the C boundary: a callback into the extension, a result    *)
(* that is read to its end, and a temporal value.  One run takes one of    *)
(* the parts; the others' variables keep their first values.               *)
EXTENDS Boundary

CONSTANTS
    r1, r2

VARIABLE part

calling == <<macro, stage, trying, drops, payload, panicked, error, result>>
querying == <<engine, results, bound, interrupted>>
converting == <<value, last>>
MCvars == <<part, calling, querying, converting>>

MCInit ==
    /\ part \in {"callback", "query", "value"}
    /\ CB!Init /\ QR!Init /\ TV!Init
    /\ part # "query" => engine = "2.0"

MCNext ==
    /\ \/ part = "callback" /\ CB!Next /\ UNCHANGED <<querying, converting>>
       \/ part = "query" /\ QR!Next /\ UNCHANGED <<calling, converting>>
       \/ part = "value" /\ TV!Next /\ UNCHANGED <<calling, querying>>
    /\ UNCHANGED part

MCSpec == MCInit /\ [][MCNext]_MCvars /\ CB!Fairness /\ QR!Fairness
=============================================================================
