---------------------------- MODULE TemporalValue ----------------------------
(***************************************************************************)
(* Values of the temporal types (src/src/value.rs, value/getters.rs,       *)
(* value/cast.rs, value/render_guard.rs, value/temporal.rs and             *)
(* value/temporal_checks.rs).  DuckDB stores any payload, and fails on     *)
(* some when it casts or renders them: it throws through the C API, or     *)
(* overflows.  The wrapper refuses those first.  Payloads are words of a   *)
(* small size, and each precision is Thousand times the next.  Casts of a  *)
(* nested value, but to text and from ARRAY to LIST, are left out.         *)
(***************************************************************************)
EXTENDS Integers, Sequences

CONSTANTS
    HalfWord,           \* payloads are -HalfWord..HalfWord - 1: 2^63
    Thousand,           \* milliseconds of a second, and so on
    MICROS_PER_DAY,
    TIME_TZ_MAX_OFFSET,
    MaxNesting,         \* bound: levels of containers
    None

VARIABLES
    value,  \* the Value, or None
    last    \* the last call: what it was, DuckDB's part and the answer

tVars == <<value, last>>

NANOS_PER_DAY == MICROS_PER_DAY * Thousand
US_PER_MS == Thousand
US_PER_S == Thousand * Thousand
NS_PER_S == US_PER_S * Thousand

Words == -HalfWord..(HalfWord - 1)
TS_INFINITY == HalfWord - 1
Finite(v) == v \notin {TS_INFINITY, -TS_INFINITY}

NanoStamps == {"TIMESTAMP_NS", "TIMESTAMPTZ_NS"}
Stamps == {"TIMESTAMP", "TIMESTAMPTZ", "TIMESTAMP_S", "TIMESTAMP_MS"} \cup NanoStamps
Temporal == Stamps \cup {"TIME", "TIME_NS", "TIMETZ"}
Targets == Temporal \cup {"DATE"}
Leaves == Targets \cup {"INTEGER"}

Kinds == {"LIST", "STRUCT", "ARRAY", "UNION"}

\* A value is a leaf in the containers `in`, the outermost last.  A NULL
\* beside it in a container changes nothing that is asked here.  `of` are the
\* types of the leaves of a container's type.
Leaf(type, v) == [type |-> type, payload |-> v, in |-> <<>>]
Container(kind, of) == [kind |-> kind, of |-> of]

Scalar(x) == x.in = <<>>
Null(x) == Scalar(x) /\ x.payload = None
Is(x, kinds) == ~Scalar(x) /\ x.in[Len(x.in)].kind \in kinds
Item(x) == [x EXCEPT !.in = SubSeq(x.in, 1, Len(x.in) - 1)]

\* The containers whose elements the C API does not read.
Shut(x) == {i \in DOMAIN x.in : x.in[i].kind \in {"ARRAY", "UNION"}}

-----------------------------------------------------------------------------
(* DuckDB's casts and its rendering, composed of its own routines as the   *)
(* comments of value/temporal_checks.rs name them.  Each gives a payload,  *)
(* reports a failure, or throws or overflows.                              *)

To(v) == <<"is", v>>
Fails == <<"reports">>
Throws == <<"throws">>
Then(r, Op(_)) == IF r[1] = "is" THEN Op(r[2]) ELSE r

\* A multiplication, and a floor-divided day times its length.
Times(v, factor) == IF v * factor \in Words THEN To(v * factor) ELSE Throws
DayFits(v, day) == (v \div day) * day \in Words
Passed(v, r) == IF Finite(v) THEN r ELSE To(v)

\* `Timestamp::GetDate` and `GetTime`.
GetDate(v) == Passed(v, To(v \div MICROS_PER_DAY))
TimeOf(v, day) == IF Finite(v) /\ DayFits(v, day) THEN To(v % day) ELSE Throws
GetTime(v) == TimeOf(v, MICROS_PER_DAY)
AtUtc(time) == To(time * 4 + TIME_TZ_MAX_OFFSET)

\* In microseconds, and in nanoseconds.
Micros(source, v) ==
    Passed(v, CASE source = "TIMESTAMP_S" -> Times(v, US_PER_S)
                [] source = "TIMESTAMP_MS" -> Times(v, US_PER_MS)
                [] source \in NanoStamps -> To(v \div Thousand)
                [] OTHER -> To(v))
Nanos(source, v) == Then(Micros(source, v), LAMBDA us : Passed(us, Times(us, Thousand)))

\* `GetEpochRounded`: to the nearest, so up to one that is out of range, which
\* 1.x does not check and 2.0 reports.
Nearest(n, unit) == (2 * n + unit) \div (2 * unit)
Rounded(us, unit) == IF us < 0 THEN -Nearest(-us, unit) ELSE Nearest(us, unit)
Coarser(source, v, unit) ==
    Then(Micros(source, v), LAMBDA us : Passed(us, To(Rounded(us, unit))))

DuckCast(source, target, v) ==
    LET From(sources, targets) == source \in sources /\ target \in targets IN
    CASE source = target -> To(v)
      \* `FromEpochMs`, which knows no infinity.
      [] From({"TIMESTAMP_MS"}, {"DATE"}) -> Then(Times(v, US_PER_MS), GetDate)
      [] From({"TIMESTAMP_MS"}, {"TIME"}) -> Then(Times(v, US_PER_MS), GetTime)
      [] From({"TIMESTAMP", "TIMESTAMP_S", "TIMESTAMP_NS"}, {"DATE"}) ->
           Then(Micros(source, v), GetDate)
      [] From({"TIMESTAMP", "TIMESTAMP_S", "TIMESTAMP_NS"}, {"TIME"}) ->
           Then(Micros(source, v), GetTime)
      [] From({"TIMESTAMP", "TIMESTAMPTZ", "TIMESTAMPTZ_NS"}, {"TIMETZ"}) ->
           Then(Then(Micros(source, v), GetTime), AtUtc)
      [] From({"TIMESTAMP_NS"}, {"TIME_NS"}) -> TimeOf(v, NANOS_PER_DAY)
      [] From({"TIMESTAMP_S", "TIMESTAMP_MS", "TIMESTAMP_NS"}, {"TIMESTAMP", "TIMESTAMPTZ"})
         \/ From({"TIMESTAMPTZ_NS"}, {"TIMESTAMPTZ"}) -> Micros(source, v)
      [] From({"TIMESTAMP_S", "TIMESTAMP", "TIMESTAMPTZ", "TIMESTAMPTZ_NS"}, {"TIMESTAMP_MS"}) ->
           Coarser(source, v, US_PER_MS)
      [] From({"TIMESTAMP", "TIMESTAMPTZ", "TIMESTAMPTZ_NS"}, {"TIMESTAMP_S"}) ->
           Coarser(source, v, US_PER_S)
      [] From({"TIMESTAMP", "TIMESTAMPTZ", "TIMESTAMP_MS", "TIMESTAMP_S"}, NanoStamps) ->
           Nanos(source, v)
      [] From({"TIMESTAMPTZ_NS"}, {"TIMESTAMP_NS"}) -> To(v)
      [] From({"TIME"}, {"TIMETZ"}) -> AtUtc(v)
      [] From({"TIMETZ"}, {"TIME"}) -> To(v \div 4)
      [] From({"TIME_NS"}, {"TIME"}) -> To(v \div Thousand)
      [] OTHER -> Fails

\* Whether `Timestamp::Convert`, or the rendering of a time, takes a payload.
Renders(type, v) ==
    CASE type \in NanoStamps -> Finite(v) => DayFits(v, NANOS_PER_DAY)
      [] type \in Stamps \ NanoStamps ->
           LET us == Micros(type, v) IN us[1] = "is" /\ (Finite(v) => DayFits(us[2], MICROS_PER_DAY))
      [] type = "TIME" -> v \in 0..MICROS_PER_DAY
      [] type = "TIME_NS" -> v \in 0..NANOS_PER_DAY
      [] type = "TIMETZ" -> v \div 4 \in 0..MICROS_PER_DAY /\ v % 4 <= 2 * TIME_TZ_MAX_OFFSET
      [] OTHER -> TRUE

DuckRenders(x) == x.payload # None => Renders(x.type, x.payload)

-----------------------------------------------------------------------------
(* The wrapper's checks.                                                   *)

TIMESTAMP_MIN_MICROS == -((HalfWord \div MICROS_PER_DAY) * MICROS_PER_DAY)
TIMESTAMP_NS_MIN_NANOS == -((HalfWord \div NANOS_PER_DAY) * NANOS_PER_DAY)

\* `scaled_timestamp_in_range`, `temporal_in_range` and `time_tz_in_range`.
ScaledInRange(v, factor) == v * factor \in Words /\ v * factor >= TIMESTAMP_MIN_MICROS

temporal_in_range(type, v) ==
    CASE type = "TIME" -> v \in 0..MICROS_PER_DAY
      [] type = "TIME_NS" -> v \in 0..NANOS_PER_DAY
      [] type \in {"TIMESTAMP", "TIMESTAMPTZ"} -> ~Finite(v) \/ v >= TIMESTAMP_MIN_MICROS
      [] type = "TIMESTAMP_S" -> ~Finite(v) \/ ScaledInRange(v, US_PER_S)
      [] type = "TIMESTAMP_MS" -> ~Finite(v) \/ ScaledInRange(v, US_PER_MS)
      [] type \in NanoStamps -> ~Finite(v) \/ v >= TIMESTAMP_NS_MIN_NANOS
      [] type = "TIMETZ" -> v \div 4 <= MICROS_PER_DAY /\ v % 4 <= 2 * TIME_TZ_MAX_OFFSET

\* `CastGuard`, and what it accepts.
InfiniteToo == [finite |-> FALSE, infinite |-> TRUE, factor |-> 1, day |-> 1]
IfFinite == [InfiniteToo EXCEPT !.finite = TRUE]
Scales(factor) == [InfiniteToo EXCEPT !.infinite = FALSE, !.factor = factor]

\* Mutant: one factor, the finest, for every unit.
InfiniteOrScalesToNanos(factor) == [InfiniteToo EXCEPT !.factor = NS_PER_S]

InfiniteOrScales(factor) == [InfiniteToo EXCEPT !.factor = factor]
FiniteAndScales(factor) == [IfFinite EXCEPT !.factor = factor]
FiniteAndNanoDayFits == [IfFinite EXCEPT !.day = NANOS_PER_DAY]

accepts(guard, v) ==
    /\ guard.finite => Finite(v)
    /\ v * guard.factor \in Words \/ (guard.infinite /\ ~Finite(v))
    /\ DayFits(v, guard.day)

cast_guard(source, target) ==
    LET ToNanos == target \in NanoStamps IN
    CASE \/ source = "TIMESTAMP" /\ target \in {"TIME", "TIMETZ"}
         \/ source \in {"TIMESTAMPTZ", "TIMESTAMPTZ_NS"} /\ target = "TIMETZ"
         \/ source = "TIMESTAMP_NS" /\ target = "TIME" -> IfFinite
      [] source \in {"TIMESTAMP", "TIMESTAMPTZ"} /\ ToNanos -> InfiniteOrScales(US_PER_MS)
      [] source = "TIMESTAMP_MS" /\ target \in {"DATE", "TIME"} -> Scales(US_PER_MS)
      [] source = "TIMESTAMP_MS" /\ target \in {"TIMESTAMP", "TIMESTAMPTZ"} ->
           InfiniteOrScales(US_PER_MS)
      [] source = "TIMESTAMP_MS" /\ ToNanos -> InfiniteOrScales(US_PER_S)
      [] source = "TIMESTAMP_S" /\ target = "TIME" -> FiniteAndScales(US_PER_S)
      [] source = "TIMESTAMP_S" /\ target \in {"DATE", "TIMESTAMP", "TIMESTAMPTZ", "TIMESTAMP_MS"} ->
           InfiniteOrScales(US_PER_S)
      [] source = "TIMESTAMP_S" /\ ToNanos -> InfiniteOrScales(NS_PER_S)
      [] source = "TIMESTAMP_NS" /\ target = "TIME_NS" -> FiniteAndNanoDayFits
      [] OTHER -> None

guarded(source, target, v) ==
    LET guard == cast_guard(source, target) IN guard # None => accepts(guard, v)

own_payload_in_range(x) == x.type \in Temporal => temporal_in_range(x.type, x.payload)

\* `Value::renderable`: an ARRAY's elements and a UNION's member cannot be
\* read, so any type in it that needs a check refuses it.
renderable(x) ==
    \/ Shut(x) = {} /\ (x.payload # None => own_payload_in_range(x))
    \/ \E i \in Shut(x) :
          (\A j \in Shut(x) : j <= i) /\ x.in[i].of \cap Temporal = {}

\* Mutant: the guard is taken to cover the source's own range.
CastAskedUnranged(x, target) ==
    /\ Scalar(x) /\ x.payload # None /\ x.type \in Targets
    /\ guarded(x.type, target, x.payload)

\* `checked_cast_copy`: whether a getter asks DuckDB for the cast.
CastAsked(x, target) ==
    /\ Scalar(x) /\ x.payload # None /\ x.type \in Targets
    /\ x.type # target => own_payload_in_range(x)
    /\ guarded(x.type, target, x.payload)

\* `payload_casts_safely`, with an ARRAY as a LIST of its elements.
casts_safely(x, target) ==
    /\ renderable(IF Is(x, {"ARRAY"}) THEN Item(x) ELSE x)
    /\ Scalar(x) /\ x.type \in Temporal => guarded(x.type, target, x.payload)

-----------------------------------------------------------------------------

NoCall == [call |-> "none", type |-> None, duck |-> None, answer |-> None]
Called(call, type, duck, answer) ==
    last' = [call |-> call, type |-> type, duck |-> duck, answer |-> answer]

Init == value = None /\ last = NoCall

Payloads(type) == IF type = "TIMETZ" THEN 0..(2 * HalfWord - 1)
                  ELSE IF type \in Temporal THEN Words ELSE {0}

\* SQL makes a value with any payload (`make_timestamp(i64::MIN)`), or NULL.
FromSql ==
    /\ value = None
    /\ \E type \in Leaves : \E v \in Payloads(type) \cup {None} : value' = Leaf(type, v)
    /\ last' = NoCall

\* SQL nests it; a UNION has a member of another type too.
Nested ==
    /\ value # None /\ Len(value.in) < MaxNesting
    /\ LET of == IF Scalar(value) THEN {value.type} ELSE value.in[Len(value.in)].of
           other == IF "INTEGER" \in of THEN "TIMESTAMP" ELSE "INTEGER" IN
       \E kind \in Kinds :
          value' = [value EXCEPT !.in =
                      Append(@, Container(kind, IF kind = "UNION" THEN of \cup {other} ELSE of))]
    /\ last' = NoCall

\* `Value::timestamp`, `Value::time_tz` and the others.
Create(type, v) ==
    /\ value = None /\ last.call = "none"
    /\ LET ok == temporal_in_range(type, v) IN
       /\ value' = IF ok THEN Leaf(type, v) ELSE None
       /\ Called("create", type, None, v)

\* `as_time`, `as_timestamp_ns` and the others.
Read(target) ==
    /\ value # None
    /\ LET asked == CastAsked(value, target)
           duck == IF asked THEN DuckCast(value.type, target, value.payload) ELSE None
           fits == /\ asked /\ duck[1] = "is"
                   /\ target # "DATE" => temporal_in_range(target, duck[2])
       IN Called("read", target, duck, IF fits THEN duck[2] ELSE None)
    /\ UNCHANGED value

\* `as_str` and `display_string`.
Render ==
    /\ value # None /\ ~Null(value)
    /\ Called("render", "VARCHAR",
              IF renderable(value) THEN (IF DuckRenders(value) THEN To(0) ELSE Throws) ELSE None,
              None)
    /\ UNCHANGED value

\* `try_cast` of a scalar, or of any value to text.
TryCast(target) ==
    /\ value # None /\ ~Null(value)
    /\ target = "VARCHAR" \/ (Scalar(value) /\ value.type \in Targets)
    /\ LET asked == casts_safely(value, target)
           duck == IF ~asked THEN None
                   ELSE IF target # "VARCHAR" THEN DuckCast(value.type, target, value.payload)
                   ELSE IF DuckRenders(value) THEN To(0) ELSE Throws
       IN /\ Called("cast", target, duck, None)
          /\ value' = IF asked /\ duck[1] = "is" /\ target # "VARCHAR"
                      THEN Leaf(target, duck[2]) ELSE value

\* `array_items` and `list_items`.
Items ==
    /\ value # None /\ Is(value, {"LIST", "ARRAY"})
    /\ value' = Item(value)
    /\ last' = NoCall

Drop == value # None /\ value' = None /\ last' = NoCall

Next ==
    \/ FromSql \/ Nested \/ Render \/ Items \/ Drop
    \/ \E type \in Temporal : \E v \in Payloads(type) : Create(type, v)
    \/ \E target \in Targets : Read(target)
    \/ \E target \in Targets \cup {"VARCHAR"} : TryCast(target)

Spec == Init /\ [][Next]_tVars

-----------------------------------------------------------------------------

\* DuckDB is never asked to convert or render a payload on which it throws
\* or overflows, whatever SQL put into the value, how deep it is and what was
\* cast before.
NothingThrows == last.duck # Throws

\* And nothing else is refused: a constructor refuses what DuckDB cannot
\* render, a getter that, what DuckDB would report, what the target's range
\* leaves out, and infinity, and as_str refuses what DuckDB cannot render or
\* what is in an ARRAY or a UNION.  What they let through, DuckDB can render.
RefusesOnlyWhatFails ==
    /\ last.call = "create" =>
         (value # None <=> Renders(last.type, last.answer))
    /\ last.call = "read" =>
         LET duck == DuckCast(value.type, last.type, value.payload)
             source == Scalar(value) /\ ~Null(value) /\ value.type \in Targets IN
         IF last.answer # None THEN Renders(last.type, last.answer)
         ELSE source /\ Renders(value.type, value.payload) /\ Finite(value.payload) =>
                duck[1] # "is" \/ ~Renders(last.type, duck[2])
    /\ last.call = "render" /\ last.duck = None => ~DuckRenders(value) \/ Shut(value) # {}

=============================================================================
