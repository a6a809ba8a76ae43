------------------------------ MODULE AbiCheck ------------------------------
(***************************************************************************)
(* The ABI check of a LOAD (src/src/abi.rs, and enforce_abi_policy in      *)
(* src/src/entry_point.rs).                                                *)
(*                                                                         *)
(* An extension calls DuckDB through a struct of function pointers whose   *)
(* layout it compiled in.  Extensions are built against the headers of one *)
(* release and loaded by the engine of another, in any order of releases.  *)
(* Loading one whose layout differs must be refused before it calls past   *)
(* the stable slots.                                                       *)
(*                                                                         *)
(* What each release really lays out is DuckDB's, so a constant here; the  *)
(* check sees only the slot count its bindings have and the version string *)
(* the engine reports.                                                     *)
(***************************************************************************)
EXTENDS Naturals

CONSTANTS
    Releases,       \* versions vX.Y.Z, as <<X, Y, Z>>
    Others,         \* version strings parse_version does not accept
    Layouts,
    LayoutOf,       \* what the headers of each version lay out
    Slots,          \* how many slots each layout has
    RunsOn,         \* <<c, e>>: a build against c dispatches correctly on e
    None

Versions == Releases \cup Others

-----------------------------------------------------------------------------
(* What quack-rs knows.                                                    *)

\* <<major, minor, first patch, last patch, slots>>
KnownLayouts == { <<1, 2, 0, 2, 408>>, <<1, 3, 0, 2, 428>>, <<1, 4, 0, 5, 459>>,
                  <<1, 5, 0, 1, 545>>, <<1, 5, 2, 6, 546>>, <<2, 0, 0, 0, 548>> }

PrefixLayouts == { <<408, 428>>, <<546, 548>> }

\* Mutant: the pair is looked up the wrong way round.
LayoutRunsOnReversed(compiled, engine) ==
    compiled = engine \/ <<engine, compiled>> \in PrefixLayouts

LayoutRunsOn(compiled, engine) ==
    compiled = engine \/ <<compiled, engine>> \in PrefixLayouts

\* A development build's version does not parse.
ParseVersion(v) == IF v \in Releases THEN v ELSE None

Entry(v) ==
    IF ParseVersion(v) = None THEN {}
    ELSE {k \in KnownLayouts :
             k[1] = v[1] /\ k[2] = v[2] /\ v[3] \in k[3]..k[4]}

ExpectedSlotCount(v) ==
    IF Entry(v) = {} THEN None ELSE (CHOOSE k \in Entry(v) : TRUE)[5]

Verified(v) == ExpectedSlotCount(v) # None

\* DuckDB is as the table says (scripts/check-abi-table.py derives it from the
\* headers of every release): the counts, one layout to a count among these
\* releases, and the prefixes.
ASSUME AbiAssumption ==
    /\ Releases \subseteq Nat \X Nat \X Nat
    /\ Others \cap Releases = {}
    /\ LayoutOf \in [Versions -> Layouts]
    /\ Slots \in [Layouts -> Nat]
    /\ RunsOn \subseteq Layouts \X Layouts
    /\ \A l \in Layouts : <<l, l>> \in RunsOn
    /\ None \notin Versions \cup Nat
    /\ \A v \in Versions : Verified(v) => ExpectedSlotCount(v) = Slots[LayoutOf[v]]
    /\ \A v, w \in Versions :
          /\ Verified(v) /\ Verified(w)
          /\ \/ Slots[LayoutOf[v]] = Slots[LayoutOf[w]]
             \/ <<Slots[LayoutOf[v]], Slots[LayoutOf[w]]>> \in PrefixLayouts
          => <<LayoutOf[v], LayoutOf[w]>> \in RunsOn

-----------------------------------------------------------------------------
(* The decision.                                                           *)

Declared == {None} \cup Versions

Policies == {"Strict", "Warn", "AllowUnknownEngine", "Trust"}

\* An extension binary: the headers its bindings come from, the release its
\* build declared, if any, and whether it was built with duckdb-1-5.
Builds == [headers : Versions, declared : Declared,
           unstable : BOOLEAN, policy : Policies]

\* `built_against_version`: what is not a release is dropped.
BuiltAgainst(b) == IF b.declared = None THEN None ELSE ParseVersion(b.declared)

CompiledSlotCount(b) == Slots[LayoutOf[b.headers]]

\* Mutant: the declared release is not compared with the engine's.
DecideByTable(compiled, declared, engine) ==
    IF /\ declared # None /\ Verified(declared)
       /\ ExpectedSlotCount(declared) # compiled
    THEN "DeclaredVersionMismatch"
    ELSE IF engine = None THEN "EngineVersionUnavailable"
    ELSE IF ~Verified(engine) THEN "UnknownEngineVersion"
    ELSE IF LayoutRunsOn(compiled, ExpectedSlotCount(engine)) THEN "Compatible"
    ELSE "LayoutMismatch"

\* `engine` is None when the engine reports no usable string.
Decide(compiled, declared, engine) ==
    IF /\ declared # None /\ Verified(declared)
       /\ ExpectedSlotCount(declared) # compiled
    THEN "DeclaredVersionMismatch"
    ELSE IF engine = None THEN "EngineVersionUnavailable"
    ELSE IF declared # None /\ declared = ParseVersion(engine) THEN "Compatible"
    ELSE IF ~Verified(engine) THEN "UnknownEngineVersion"
    ELSE IF LayoutRunsOn(compiled, ExpectedSlotCount(engine)) THEN "Compatible"
    ELSE "LayoutMismatch"

Check(b, engine) ==
    IF ~b.unstable THEN "StableOnly"
    ELSE Decide(CompiledSlotCount(b), BuiltAgainst(b), engine)

IsCompatible(check) == check \in {"Compatible", "StableOnly"}

\* `policy_verdict`, and the early return of `enforce_abi_policy` under Trust.
PolicyVerdict(policy, check) ==
    IF policy = "Trust" \/ IsCompatible(check) THEN "load"
    ELSE IF policy = "Warn" THEN "warn"
    ELSE IF policy = "AllowUnknownEngine" /\ check = "UnknownEngineVersion"
    THEN "load"
    ELSE "refuse"

-----------------------------------------------------------------------------
VARIABLES
    build,       \* the extension installed
    engine,      \* the DuckDB installed
    reported,    \* the version string it reports, or None
    verdict,     \* what this process's LOAD came to, or "none"
    dispatched   \* what calls past the stable slots reached in it

vars == <<build, engine, reported, verdict, dispatched>>

Init ==
    /\ build \in Builds
    /\ engine \in Versions
    /\ reported = engine
    /\ verdict = "none"
    /\ dispatched = "none"

\* Another build of the extension is installed; a new process uses it.
Rebuild ==
    /\ build' \in Builds
    /\ verdict' = "none" /\ dispatched' = "none"
    /\ UNCHANGED <<engine, reported>>

\* Another DuckDB is installed; its version string may be unusable.
Upgrade ==
    /\ engine' \in Versions
    /\ reported' \in {engine', None}
    /\ verdict' = "none" /\ dispatched' = "none"
    /\ UNCHANGED build

\* `enforce_abi_policy`.
Enforce ==
    /\ verdict = "none"
    /\ verdict' = PolicyVerdict(build.policy, Check(build, reported))
    /\ UNCHANGED <<build, engine, reported, dispatched>>

\* A loaded extension built with duckdb-1-5 calls past the stable slots.
CallUnstable ==
    /\ verdict \in {"load", "warn"}
    /\ build.unstable
    /\ dispatched' = IF <<LayoutOf[build.headers], LayoutOf[engine]>> \in RunsOn
                     THEN "right" ELSE "wrong"
    /\ UNCHANGED <<build, engine, reported, verdict>>

Next == Rebuild \/ Upgrade \/ Enforce \/ CallUnstable

Spec == Init /\ [][Next]_vars

-----------------------------------------------------------------------------
(* Properties.                                                             *)

\* Every variable keeps to its type.
TypeOK ==
    /\ build \in Builds
    /\ engine \in Versions
    /\ reported \in {engine, None}
    /\ verdict \in {"none", "load", "warn", "refuse"}
    /\ dispatched \in {"none", "right", "wrong"}

\* The build declares the release of its headers, or nothing.
Honest(b) == BuiltAgainst(b) \in {None, b.headers}

\* Policies that leave the decision about this engine to the check.
Guarded(policy, e) ==
    policy = "Strict" \/ (policy = "AllowUnknownEngine" /\ Verified(e))

\* A guarded LOAD of an honest build never reaches a wrong function, whatever
\* engine loads it, including releases quack-rs has never heard of; builds
\* against headers the table does not list are excepted on engines it lists
\* (abi.rs, "Why DuckDB does not catch this for you").
StrictDispatchesRight ==
    /\ Guarded(build.policy, engine) /\ Honest(build)
    /\ Verified(build.headers) \/ ~Verified(engine)
    => dispatched # "wrong"

\* A build that declares the release it was built against loads in that
\* release, whether or not the table lists it (abi.rs, built_against_version:
\* "This is what keeps an extension working across a DuckDB release").
OwnEngineLoads ==
    /\ build.declared = build.headers /\ build.headers \in Releases
    /\ engine = build.headers /\ reported = engine
    => verdict \notin {"refuse", "warn"}

\* What the documentation says of Strict: "Refuse to load unless the layout is
\* verified compatible".  For an honest build against headers the table does
\* not list, only the slot count is compared.
StrictVerifies ==
    build.policy = "Strict" /\ Honest(build) => dispatched # "wrong"
=============================================================================
