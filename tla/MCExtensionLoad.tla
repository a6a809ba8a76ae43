-------------------------- MODULE MCExtensionLoad --------------------------
(* ExtensionLoad on three small instances in one run: LOADs that nest on   *)
(* one thread at a time, on 2.0; two transactional LOADs that want the     *)
(* same names; and a transactional LOAD beside an autocommit one, with     *)
(* what is not checked.  The last two are on 1.5, where a failed statement *)
(* does not always abort the transaction.                                  *)
EXTENDS ExtensionLoad, FiniteSets, TLC

CONSTANTS l1, l2, l3, t1, t2

On15 == INSTANCE ExtensionLoad WITH Engine <- "1.5"

VARIABLE part

MCvars == <<vars, part>>

EntriesOf == [nested |-> Formats \cup Aggregates,
              names |-> (Scalars \ Unrendered) \cup Tables \cup Formats,
              atomic |-> Unrendered \cup Macros \cup Settings]

\* The names a behaviour has used.
Used == UNION {promised[l] : l \in Loads} \cup {e \in Entries : catalog[e] # None}
            \cup {call[l][1] : l \in {l \in Loads : call[l] # None}}

\* What keeps a step within its part: two names are used at most, and something
\* else in the database writes one.
Kept ==
    /\ \A e \in Entries \ EntriesOf[part] : catalog'[e] = None
    /\ \A l \in Loads : call'[l] # None => call'[l][1] \in EntriesOf[part]
    /\ Cardinality(Used') <= 2
    /\ Cardinality({e \in Entries : catalog'[e] = Host}) <= 1
    /\ part = "nested" =>
          Cardinality({t \in Threads : stack'[t] # <<>>}) <= 1
    /\ part = "names" =>
          \A l \in Loads \ Transactional : stage'[l] = "idle"
    /\ part = "atomic" =>
          Cardinality({l \in Transactional : stage'[l] # "idle"}) <= 1

MCInit == Init /\ part \in {"nested", "names", "atomic"}
MCNext ==
    /\ \/ part = "nested" /\ Next
       \/ part # "nested" /\ On15!Next
    /\ Kept
    /\ UNCHANGED part
MCSpec == MCInit /\ [][MCNext]_MCvars

\* Threads are interchangeable, and so are LOADs of one registration mode.
Symmetry ==
    {p \in Permutations(Threads \cup Loads) :
        /\ {p[t] : t \in Threads} = Threads
        /\ {p[l] : l \in Transactional} = Transactional}
=============================================================================
