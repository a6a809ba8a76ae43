--------------------------- MODULE BoundaryProofs ---------------------------
(***************************************************************************)
(* Proofs about what crosses the C boundary while a query runs: that a     *)
(* panic in a callback is always reported (Callback), that a result which  *)
(* says it has ended has been read to its end (Query), and that DuckDB is  *)
(* given every temporal payload it can take, and no other (TemporalValue). *)
(***************************************************************************)
EXTENDS Boundary, TLAPS

-----------------------------------------------------------------------------
(* A callback.                                                             *)

Kinds == {"plain", "scan", "cast", "replacement"}

CallbackType ==
    /\ macro \in CB!Macros \cup {None}
    /\ stage \in {"idle", "body", "disposing", "returned"}
    /\ stage # "idle" => macro \in CB!Macros
    /\ trying \in BOOLEAN
    /\ panicked \in CB!PanicMessages \cup {None}
    /\ error \in CB!PanicMessages \cup {None}
    /\ result \in {"unset", "empty", "rows", "written", "true", "false", "nulls"}

\* Nothing has panicked before the body has, there is a payload to dispose
\* of only if it has, only a scan's output is "rows", no error is empty,
\* and the error a cast starts with is there unless it is a TRY.
CallbackInv ==
    /\ CallbackType
    /\ panicked # None => stage \in {"disposing", "returned"}
    /\ stage = "disposing" => panicked # None
    /\ stage # "idle" /\ result = "rows" => macro.kind = "scan"
    /\ stage # "idle" /\ macro.kind = "cast" /\ ~trying => error # None
    /\ error # ""
    /\ PanicsReported

\* Every macro's record has the fields that the actions read, and only the
\* cast macro is of the kind "cast".
LEMMA MacroFields ==
    ASSUME NEW m \in CB!Macros
    PROVE  /\ m.kind \in Kinds
           /\ m.kind = "cast" => m = CB!cast_callback
<1>1. CASE m \in {CB!scalar_callback, CB!table_bind_callback,
                  CB!table_init_callback, CB!scalar_bind_callback,
                  CB!scalar_init_callback}
  BY <1>1 DEF Kinds, CB!scalar_callback, CB!table_bind_callback,
              CB!table_init_callback, CB!scalar_bind_callback,
              CB!scalar_init_callback
<1>2. CASE m \in {CB!aggregate_update_callback,
                  CB!aggregate_combine_callback,
                  CB!aggregate_finalize_callback,
                  CB!aggregate_destroy_callback}
  BY <1>2 DEF Kinds, CB!aggregate_update_callback,
              CB!aggregate_combine_callback, CB!aggregate_finalize_callback,
              CB!aggregate_destroy_callback
<1>3. CASE m \in {CB!table_scan_callback, CB!cast_callback,
                  CB!replacement_scan_callback}
  BY <1>3 DEF Kinds, CB!table_scan_callback, CB!cast_callback,
              CB!replacement_scan_callback
<1>4. CASE m \in {CB!copy_callback_impl, CB!copy_sink_callback}
  BY <1>4 DEF Kinds, CB!copy_callback_impl, CB!copy_sink_callback
<1> QED
  BY <1>1, <1>2, <1>3, <1>4 DEF CB!Macros

\* The invariant holds at first, and every step of a callback keeps it.
LEMMA CallbackInvInit ==
    CB!Init => CallbackInv
BY NoneAssumption DEF CB!Init, CallbackInv, CallbackType, PanicsReported,
       CB!PanicsReported

LEMMA CallbackInvNext ==
    ASSUME CallbackInv, [CB!Next]_(CB!cbVars)
    PROVE  CallbackInv'
<1> USE NoneAssumption
    DEF CB!PanicMessages, PanicsReported, CB!PanicsReported
<1>m. stage # "idle" => macro.kind \in Kinds
  BY MacroFields DEF CallbackInv, CallbackType
<1>1. ASSUME NEW m \in CB!Macros, NEW try \in BOOLEAN, CB!Enter(m, try)
      PROVE  CallbackInv'
  <2>1. /\ m.kind \in Kinds
        /\ m.kind = "cast" => m = CB!cast_callback
    BY MacroFields
  <2>2. CB!Fresh(m) \in {"empty", "false", "unset"}
    BY DEF CB!Fresh
  <2>3. /\ CB!CAST_FAILED_WITHOUT_MESSAGE(m, try) \in {"text", None}
        /\ m.kind = "cast" /\ ~try =>
              CB!CAST_FAILED_WITHOUT_MESSAGE(m, try) # None
    BY <2>1 DEF CB!CAST_FAILED_WITHOUT_MESSAGE
  <2> QED
    BY <1>1, <2>1, <2>2, <2>3 DEF CB!Enter, CallbackInv, CallbackType
<1>2. CASE CB!BodyWrites
  BY <1>2, <1>m DEF CB!BodyWrites, CallbackInv, CallbackType
<1>3. ASSUME NEW e \in CB!PanicMessages \cup {None}, NEW ok \in BOOLEAN,
             CB!BodyReturns(e, ok)
      PROVE  CallbackInv'
  BY <1>3, <1>m DEF CB!BodyReturns, CB!error_cstring, CallbackInv, CallbackType
<1>4. ASSUME NEW message \in CB!PanicMessages, CB!BodyPanics(message)
      PROVE  CallbackInv'
  BY <1>4, <1>m DEF CB!BodyPanics, CallbackInv, CallbackType
<1>5. CASE CB!DropPanics
  BY <1>5 DEF CB!DropPanics, CallbackInv, CallbackType
<1>6. CASE CB!Disposed
  <2>1. CB!panic_c_message(panicked) = "text" \/ panicked = None
    BY DEF CB!panic_c_message, CB!error_cstring, CallbackInv, CallbackType
  <2> QED
    BY <1>6, <1>m, <2>1
       DEF CB!Disposed, CB!ResultAfterPanic, CB!TakenForSuccess, Kinds, CallbackInv,
           CallbackType
<1>7. CASE UNCHANGED CB!cbVars
  BY <1>7 DEF CB!cbVars, CallbackInv, CallbackType, CB!TakenForSuccess
<1> QED
  BY <1>1, <1>2, <1>3, <1>4, <1>5, <1>6, <1>7
     DEF CB!Next, CB!DropReturns, CB!Forgotten

\* Where DuckDB can be told, no panic of a callback is taken for success,
\* whatever its payload's destructor does, and no error is without a message
\* (callback.rs).
THEOREM PanicCorrect ==
    CB!Spec => []PanicsReported
<1>1. CB!Init => CallbackInv
  BY CallbackInvInit
<1>2. CallbackInv /\ [CB!Next]_(CB!cbVars) => CallbackInv'
  BY CallbackInvNext
<1>3. CallbackInv => PanicsReported
  BY DEF CallbackInv
<1> QED
  BY <1>1, <1>2, <1>3, PTL DEF CB!Spec

-----------------------------------------------------------------------------
(* A result.                                                               *)

Reads ==
    [fetch : {"none", "open", "ended", "failed"},
     source : {"none", "stream", "whole", "invalid"},
     left : Nat, total : Nat, read : Nat,
     answer : {"none", "chunk", "ended", "failed", "open"}]

\* What was read and what is left make up the result, and a result that has
\* ended, or has said so, has nothing left.
Accounted(res) ==
    /\ res.read + res.left = res.total
    /\ res.fetch = "ended" \/ res.answer = "ended" => res.left = 0
    /\ res.answer = "ended" => res.fetch = "ended"

QueryInv ==
    /\ results \in [Results -> Reads]
    /\ \A r \in Results : Accounted(results[r])

\* The engine says in a way the wrapper can read why it has no more chunks.
Readable == Messages \subseteq {"utf8"}

\* The results that a caller begins with are accounted for.
LEMMA FreshAccounted ==
    /\ QR!NoResult \in Reads /\ Accounted(QR!NoResult)
    /\ \A source \in {"stream", "whole"}, n \in Nat :
          /\ QR!FromEngine(source, n) \in Reads
          /\ Accounted(QR!FromEngine(source, n))
BY DEF QR!NoResult, QR!FromEngine, Reads, Accounted

\* Another statement takes a result's stream, and none of its chunks.
LEMMA InvalidatedAccounted ==
    ASSUME QueryInv
    PROVE  /\ QR!Invalidated(results) \in [Results -> Reads]
           /\ \A r \in Results : Accounted(QR!Invalidated(results)[r])
BY DEF QueryInv, QR!Invalidated, Reads, Accounted

\* A null chunk that means the end comes when no chunk is left, and every
\* other null chunk is a failure.
LEMMA FetchesRight ==
    ASSUME Readable, QueryInv, NEW r \in Results, NEW got \in QR!Fetches(r)
    PROVE  /\ got = "chunk" => results[r].left > 0
           /\ QR!AfterNull(got) \in {"ended", "failed"}
           /\ got # "chunk" /\ QR!AfterNull(got) = "ended" => results[r].left = 0
<1>1. results[r].left \in Nat
  BY DEF QueryInv, Reads
<1>2. got \in {"chunk", "end", "utf8"}
  BY DEF QR!Fetches, Readable
<1>3. /\ got = "chunk" => results[r].left > 0
      /\ got = "end" => ~(results[r].left > 0)
  BY DEF QR!Fetches, Readable
<1> QED
  BY <1>1, <1>2, <1>3 DEF QR!AfterNull

\* One call of `next_chunk` keeps the result accounted for.
LEMMA NextChunkAccounted ==
    ASSUME Readable, QueryInv, NEW r \in Results, QR!next_chunk(r)
    PROVE  QueryInv'
<1>1. results[r] \in Reads /\ Accounted(results[r])
  BY DEF QueryInv
<1>2. CASE results[r].fetch # "open"
  <2>1. results' = [results EXCEPT ![r].answer = results[r].fetch]
    BY <1>2 DEF QR!next_chunk
  <2> DEFINE new == [results[r] EXCEPT !.answer = results[r].fetch]
  <2>2. new \in Reads /\ Accounted(new)
    BY <1>1 DEF Reads, Accounted
  <2> HIDE DEF new
  <2>3. results' = [results EXCEPT ![r] = new]
    BY <2>1 DEF new
  <2> QED
    BY <2>2, <2>3 DEF QueryInv
<1>3. CASE results[r].fetch = "open"
  <2>1. PICK got \in QR!Fetches(r) :
           results' = [results EXCEPT ![r] =
               IF got = "chunk"
               THEN [@ EXCEPT !.left = results[r].left - 1,
                              !.read = results[r].read + 1, !.answer = "chunk"]
               ELSE [@ EXCEPT !.fetch = QR!AfterNull(got),
                              !.answer = QR!AfterNull(got),
                              !.source = IF got = "end" THEN "whole" ELSE "invalid"]]
    BY <1>3 DEF QR!next_chunk
  <2>2. /\ got = "chunk" => results[r].left > 0
        /\ QR!AfterNull(got) \in {"ended", "failed"}
        /\ got # "chunk" /\ QR!AfterNull(got) = "ended" => results[r].left = 0
    BY FetchesRight
  <2>3. CASE got = "chunk"
    <3> DEFINE left == results[r].left - 1
               read == results[r].read + 1
               new == [results[r] EXCEPT !.left = left, !.read = read,
                                         !.answer = "chunk"]
    <3>1. results' = [results EXCEPT ![r] = new]
      BY <2>1, <2>3
    <3>2. left \in Nat /\ read \in Nat /\ left + read = results[r].total
      BY <1>1, <2>2, <2>3 DEF Reads, Accounted
    <3> HIDE DEF left, read
    <3>3. new \in Reads
      BY <1>1, <3>2 DEF Reads
    <3>4. /\ new.left = left /\ new.read = read /\ new.total = results[r].total
          /\ new.fetch = "open" /\ new.answer = "chunk"
      BY <1>1, <1>3 DEF Reads
    <3> HIDE DEF new
    <3>5. Accounted(new)
      BY <3>2, <3>4 DEF Accounted
    <3> QED
      BY <3>1, <3>3, <3>5 DEF QueryInv
  <2>4. CASE got # "chunk"
    <3> DEFINE said == QR!AfterNull(got)
               source == IF got = "end" THEN "whole" ELSE "invalid"
               new == [results[r] EXCEPT !.fetch = said, !.answer = said,
                                         !.source = source]
    <3>1. results' = [results EXCEPT ![r] = new]
      BY <2>1, <2>4
    <3>2. /\ said \in {"ended", "failed"} /\ source \in {"whole", "invalid"}
          /\ said = "ended" => results[r].left = 0
      BY <2>2, <2>4
    <3> HIDE DEF said, source
    <3>3. new \in Reads /\ Accounted(new)
      BY <1>1, <3>2 DEF Reads, Accounted
    <3> HIDE DEF new
    <3> QED
      BY <3>1, <3>3 DEF QueryInv
  <2> QED
    BY <2>3, <2>4
<1> QED
  BY <1>2, <1>3

\* A statement keeps every result accounted for, the one it makes included.
LEMMA MadeAccounted ==
    ASSUME QueryInv, NEW r \in Results, NEW res \in Reads, Accounted(res),
           results' = [QR!Invalidated(results) EXCEPT ![r] = res]
    PROVE  QueryInv'
BY InvalidatedAccounted DEF QueryInv

LEMMA StatementAccounted ==
    ASSUME Readable, QueryInv, NEW r \in Results, QR!Statement(r)
    PROVE  QueryInv'
<1>1. CASE UNCHANGED results
  BY <1>1 DEF QueryInv
<1>2. CASE results' = QR!Invalidated(results)
  BY <1>2, InvalidatedAccounted DEF QueryInv
<1>3. ASSUME NEW n \in 0..MaxChunks,
             results' = [QR!Invalidated(results) EXCEPT
                           ![r] = QR!FromEngine("whole", n)]
      PROVE  QueryInv'
  <2> DEFINE new == QR!FromEngine("whole", n)
  <2> n \in Nat
    BY MaxChunksAssumption
  <2>1. new \in Reads /\ Accounted(new)
    BY FreshAccounted
  <2>2. results' = [QR!Invalidated(results) EXCEPT ![r] = new]
    BY <1>3
  <2> HIDE DEF new
  <2> QED
    BY <2>1, <2>2, MadeAccounted
<1> QED
  BY <1>1, <1>2, <1>3 DEF QR!Statement

LEMMA QueryInvNext ==
    ASSUME Readable, QueryInv, [QR!Next]_(QR!qVars)
    PROVE  QueryInv'
<1>1. ASSUME NEW r \in Results, QR!query(r) \/ QR!execute(r)
      PROVE  QueryInv'
  <2>1. QR!Statement(r) \/ UNCHANGED results
    BY <1>1 DEF QR!query, QR!execute
  <2> QED
    BY <2>1, StatementAccounted DEF QueryInv
<1>2. ASSUME NEW r \in Results, QR!execute_streaming(r)
      PROVE  QueryInv'
  <2>1. PICK source \in {"stream", "whole"}, n \in 0..MaxChunks :
           results' = [QR!Invalidated(results) EXCEPT
                         ![r] = QR!FromEngine(source, n)]
    BY <1>2 DEF QR!execute_streaming
  <2> DEFINE new == QR!FromEngine(source, n)
  <2> n \in Nat
    BY MaxChunksAssumption
  <2>2. new \in Reads /\ Accounted(new)
    BY FreshAccounted
  <2>3. results' = [QR!Invalidated(results) EXCEPT ![r] = new]
    BY <2>1
  <2> HIDE DEF new
  <2> QED
    BY <2>2, <2>3, MadeAccounted
<1>3. ASSUME NEW r \in Results, QR!next_chunk(r)
      PROVE  QueryInv'
  BY <1>3, NextChunkAccounted
<1>4. ASSUME NEW r \in Results, QR!drop_result(r)
      PROVE  QueryInv'
  BY <1>4, FreshAccounted DEF QR!drop_result, QueryInv
<1>5. CASE UNCHANGED results
  BY <1>5 DEF QueryInv
<1> QED
  BY <1>1, <1>2, <1>3, <1>4, <1>5 DEF QR!Next, QR!bind, QR!interrupt, QR!qVars

\* When the engine's messages can be read, `Ok(None)` means that every row
\* was, whatever was interrupted, invalidated or dropped in between
\* (query/result.rs).  Without that assumption it does not hold.
THEOREM CompleteCorrect ==
    ASSUME Readable
    PROVE  QR!Spec => []EndedMeansComplete
<1>1. QR!Init => QueryInv
  BY FreshAccounted DEF QR!Init, QueryInv
<1>2. QueryInv /\ [QR!Next]_(QR!qVars) => QueryInv'
  BY QueryInvNext
<1>3. QueryInv => EndedMeansComplete
  BY DEF QueryInv, Reads, Accounted, EndedMeansComplete, QR!EndedMeansComplete,
         QR!Held
<1> QED
  BY <1>1, <1>2, <1>3, PTL DEF QR!Spec

-----------------------------------------------------------------------------
(* A temporal value: integers first.                                       *)

\* What the integer division of any integer is.
LEMMA Division ==
    ASSUME NEW v \in Int, NEW d \in Nat, d >= 1
    PROVE  /\ v \div d \in Int /\ v % d \in 0..(d - 1)
           /\ v = (v \div d) * d + (v % d)
OBVIOUS

\* A factor keeps an order.
LEMMA Scaled ==
    ASSUME NEW a \in Int, NEW b \in Int, NEW d \in Nat, a <= b
    PROVE  a * d \in Int /\ b * d \in Int /\ a * d <= b * d
OBVIOUS

\* The first day that begins within the word is the last one's opposite.
LEMMA FirstDay ==
    ASSUME NEW v \in Int, NEW d \in Nat, d >= 1, NEW h \in Nat
    PROVE  (v \div d) * d >= -h <=> v >= -((h \div d) * d)
<1> DEFINE q == v \div d
           p == h \div d
<1>1. q \in Int /\ v % d \in 0..(d - 1) /\ v = q * d + (v % d)
  BY Division
<1>2. p \in Int /\ h % d \in 0..(d - 1) /\ h = p * d + (h % d)
  BY Division
<1>3. (-p) * d = -(p * d) /\ (-p - 1) * d = -(p * d) - d /\ (q + 1) * d = q * d + d
  BY <1>1, <1>2
<1> HIDE DEF q, p
<1>4. q * d \in Int /\ p * d \in Int
  BY <1>1, <1>2
<1>5. CASE q >= -p
  <2>1. (-p) * d <= q * d
    BY <1>1, <1>2, <1>5, Scaled
  <2> QED
    BY <1>1, <1>2, <1>3, <1>4, <2>1 DEF q, p
<1>6. CASE q <= -p - 1
  <2>1. q * d <= (-p - 1) * d
    BY <1>1, <1>2, <1>6, Scaled
  <2> QED
    BY <1>1, <1>2, <1>3, <1>4, <2>1 DEF q, p
<1> QED
  BY <1>1, <1>2, <1>5, <1>6

\* No infinity is a multiple of a thousand.
LEMMA NoMultiple ==
    ASSUME NEW v \in Int
    PROVE  v * Thousand # HalfWord - 1 /\ v * Thousand # -(HalfWord - 1)
<1> DEFINE w == HalfWord - 1
           q == w \div Thousand
           r == w % Thousand
<1>1. w \in Int /\ Thousand \in Nat /\ Thousand >= 2 /\ r # 0
  BY WordAssumption
<1>2. q \in Int /\ r \in 0..(Thousand - 1) /\ w = q * Thousand + r
  <2> Thousand >= 1
    BY <1>1
  <2> HIDE DEF w
  <2> QED
    BY <1>1, Division
<1> HIDE DEF w, q, r
<1>3. ASSUME NEW k \in Int, k * Thousand = w
      PROVE  FALSE
  <2>1. (k - q) * Thousand = r
    BY <1>1, <1>2, <1>3
  <2>2. k - q >= 1 => 1 * Thousand <= (k - q) * Thousand
    BY <1>1, <1>2, Scaled
  <2>3. k - q <= 0 => (k - q) * Thousand <= 0 * Thousand
    BY <1>1, <1>2, Scaled
  <2> QED
    BY <1>1, <1>2, <2>1, <2>2, <2>3
<1>4. (-v) * Thousand = -(v * Thousand)
  BY <1>1
<1>5. v * Thousand # w /\ (-v) * Thousand # w
  BY <1>3
<1> QED
  BY <1>1, <1>4, <1>5 DEF w

Micro == MICROS_PER_DAY
Nano == TV!NANOS_PER_DAY

LEMMA Numbers ==
    /\ HalfWord \in Nat /\ HalfWord > 3
    /\ Thousand \in Nat /\ Thousand >= 2
    /\ Micro \in Nat /\ Micro >= 1 /\ 4 * Micro + TIME_TZ_MAX_OFFSET < 2 * HalfWord
    /\ TIME_TZ_MAX_OFFSET \in Nat
    /\ Nano \in Nat /\ Nano >= 1 /\ Nano < HalfWord /\ Nano = Micro * Thousand
    /\ TV!US_PER_MS = Thousand
    /\ TV!US_PER_S \in Nat /\ TV!US_PER_S >= 1 /\ TV!US_PER_S = Thousand * Thousand
    /\ TV!NS_PER_S \in Nat /\ TV!NS_PER_S = TV!US_PER_S * Thousand
    /\ TV!Words = -HalfWord..(HalfWord - 1)
<1>1. Micro * Thousand \in Nat /\ Micro * Thousand >= 1
  <2>1. 1 * Thousand <= Micro * Thousand
    BY WordAssumption, Scaled DEF Micro
  <2> QED
    BY <2>1, WordAssumption DEF Micro
<1>2. Thousand * Thousand \in Nat /\ Thousand * Thousand >= 1
  <2>1. 1 * Thousand <= Thousand * Thousand
    BY WordAssumption, Scaled
  <2> QED
    BY <2>1, WordAssumption
<1>3. (Thousand * Thousand) * Thousand \in Nat
  BY <1>2, WordAssumption
<1> QED
  BY <1>1, <1>2, <1>3, WordAssumption
     DEF Micro, Nano, TV!NANOS_PER_DAY, TV!US_PER_MS, TV!US_PER_S,
         TV!NS_PER_S, TV!Words

\* A day begins within the word exactly when it is not before the first.
LEMMA DayFitsAfter ==
    ASSUME NEW v \in TV!Words, NEW d \in Nat, d >= 1
    PROVE  TV!DayFits(v, d) <=> v >= -((HalfWord \div d) * d)
<1>1. v \in Int /\ v <= HalfWord - 1
  BY Numbers
<1>2. v \div d \in Int /\ v % d \in 0..(d - 1) /\ v = (v \div d) * d + (v % d)
  BY <1>1, Division
<1>3. (v \div d) * d >= -HalfWord <=> v >= -((HalfWord \div d) * d)
  BY <1>1, Numbers, FirstDay
<1> DEFINE m == (v \div d) * d
<1>4. m \in Int /\ m <= v
  <2>1. m \in Int
    BY <1>2
  <2> HIDE DEF m
  <2> QED
    BY <1>1, <1>2, <2>1 DEF m
<1>5. TV!DayFits(v, d) <=> m \in TV!Words
  BY DEF TV!DayFits
<1>6. m >= -HalfWord <=> v >= -((HalfWord \div d) * d)
  BY <1>3
<1> HIDE DEF m
<1> QED
  BY <1>1, <1>4, <1>5, <1>6, Numbers

LEMMA Unscaled ==
    ASSUME NEW v \in TV!Words
    PROVE  v * 1 \in TV!Words /\ TV!DayFits(v, 1)
<1> v \in Int
  BY Numbers
<1> QED
  BY DEF TV!DayFits

-----------------------------------------------------------------------------
(* What DuckDB renders is what the wrapper lets through.                   *)

LEMMA RangeIsRendering ==
    ASSUME NEW type \in TV!Temporal, NEW v \in TV!Payloads(type)
    PROVE  TV!temporal_in_range(type, v) <=> TV!Renders(type, v)
<1>1. CASE type = "TIMETZ"
  <2>1. v \in Int /\ v >= 0 /\ v \div 4 >= 0
    BY <1>1, Numbers DEF TV!Payloads
  <2>2. TV!temporal_in_range(type, v) <=>
          v \div 4 <= Micro /\ v % 4 <= 2 * TIME_TZ_MAX_OFFSET
    BY <1>1 DEF TV!temporal_in_range, Micro
  <2>3. TV!Renders(type, v) <=>
          v \div 4 \in 0..Micro /\ v % 4 <= 2 * TIME_TZ_MAX_OFFSET
    BY <1>1 DEF TV!Renders, TV!Stamps, TV!NanoStamps, Micro
  <2> QED
    BY <2>1, <2>2, <2>3, Numbers
<1>2. CASE type \in {"TIME", "TIME_NS"}
  BY <1>2 DEF TV!temporal_in_range, TV!Renders, TV!Stamps, TV!NanoStamps
<1> SUFFICES ASSUME type \in TV!Stamps
             PROVE  TV!temporal_in_range(type, v) <=> TV!Renders(type, v)
  BY <1>1, <1>2 DEF TV!Temporal
<1>3. v \in TV!Words /\ v \in Int
  BY Numbers DEF TV!Payloads, TV!Stamps, TV!NanoStamps, TV!Temporal
<1>4. CASE type \in {"TIMESTAMP_NS", "TIMESTAMPTZ_NS"}
  <2>1. TV!DayFits(v, Nano) <=> v >= TV!TIMESTAMP_NS_MIN_NANOS
    BY <1>3, Numbers, DayFitsAfter DEF TV!TIMESTAMP_NS_MIN_NANOS, Nano
  <2>2. TV!temporal_in_range(type, v) <=>
          ~TV!Finite(v) \/ v >= TV!TIMESTAMP_NS_MIN_NANOS
    BY <1>4 DEF TV!temporal_in_range, TV!NanoStamps
  <2>3. TV!Renders(type, v) <=> (TV!Finite(v) => TV!DayFits(v, Nano))
    <3>1. TV!Renders("TIMESTAMP_NS", v) <=> (TV!Finite(v) => TV!DayFits(v, Nano))
      BY DEF TV!Renders, TV!NanoStamps, Nano
    <3>2. TV!Renders("TIMESTAMPTZ_NS", v) <=> (TV!Finite(v) => TV!DayFits(v, Nano))
      BY DEF TV!Renders, TV!NanoStamps, Nano
    <3> QED
      BY <1>4, <3>1, <3>2
  <2> QED
    BY <2>1, <2>2, <2>3
<1>5. CASE type \in {"TIMESTAMP", "TIMESTAMPTZ"}
  <2>1. TV!DayFits(v, Micro) <=> v >= TV!TIMESTAMP_MIN_MICROS
    BY <1>3, Numbers, DayFitsAfter DEF TV!TIMESTAMP_MIN_MICROS, Micro
  <2>2. TV!Micros(type, v) = <<"is", v>>
    BY <1>5 DEF TV!Micros, TV!NanoStamps, TV!Passed, TV!To
  <2>3. TV!temporal_in_range(type, v) <=>
          ~TV!Finite(v) \/ v >= TV!TIMESTAMP_MIN_MICROS
    BY <1>5 DEF TV!NanoStamps, TV!temporal_in_range
  <2>4. TV!Renders(type, v) <=> (TV!Finite(v) => TV!DayFits(v, Micro))
    BY <1>5, <2>2 DEF TV!Renders, TV!Stamps, TV!NanoStamps, Micro
  <2> QED
    BY <2>1, <2>3, <2>4
<1>6. ASSUME NEW factor \in Nat, type \in {"TIMESTAMP_S", "TIMESTAMP_MS"},
             TV!Micros(type, v) = TV!Passed(v, TV!Times(v, factor)),
             TV!temporal_in_range(type, v) <=>
               ~TV!Finite(v) \/ TV!ScaledInRange(v, factor)
      PROVE  TV!temporal_in_range(type, v) <=> TV!Renders(type, v)
  <2>1. v * factor \in Int
    BY <1>3
  <2>2. v * factor \in TV!Words =>
          (TV!DayFits(v * factor, Micro) <=> v * factor >= TV!TIMESTAMP_MIN_MICROS)
    BY Numbers, DayFitsAfter DEF TV!TIMESTAMP_MIN_MICROS, Micro
  <2>3. TV!Renders(type, v) <=>
          /\ TV!Micros(type, v)[1] = "is"
          /\ TV!Finite(v) => TV!DayFits(TV!Micros(type, v)[2], Micro)
    BY <1>6 DEF TV!Renders, TV!Stamps, TV!NanoStamps, Micro
  <2>4. CASE ~TV!Finite(v)
    BY <1>6, <2>3, <2>4 DEF TV!Passed, TV!To
  <2>5. CASE TV!Finite(v) /\ v * factor \in TV!Words
    <3>1. TV!Micros(type, v) = <<"is", v * factor>>
      BY <1>6, <2>5 DEF TV!Passed, TV!Times, TV!To
    <3> QED
      BY <1>6, <2>2, <2>3, <2>5, <3>1 DEF TV!ScaledInRange
  <2>6. CASE TV!Finite(v) /\ v * factor \notin TV!Words
    <3>1. TV!Micros(type, v) = <<"throws">>
      BY <1>6, <2>6 DEF TV!Passed, TV!Times, TV!Throws
    <3> QED
      BY <1>6, <2>3, <2>6, <3>1 DEF TV!ScaledInRange
  <2> QED
    BY <2>4, <2>5, <2>6
<1>7. CASE type = "TIMESTAMP_S"
  BY <1>6, <1>7, Numbers DEF TV!Micros, TV!NanoStamps, TV!temporal_in_range
<1>8. CASE type = "TIMESTAMP_MS"
  BY <1>6, <1>8, Numbers DEF TV!Micros, TV!NanoStamps, TV!temporal_in_range
<1> QED
  BY <1>4, <1>5, <1>7, <1>8 DEF TV!Stamps, TV!NanoStamps

-----------------------------------------------------------------------------
(* What DuckDB's routines make of a payload that it can render.            *)

\* The last day that begins within the word, counted in nanoseconds, is not
\* after that counted in microseconds.
LEMMA LastNanoDay ==
    (HalfWord \div Nano) * Micro <= (HalfWord \div Micro) * Micro
<1> DEFINE q == HalfWord \div Nano
           p == HalfWord \div Micro
<1>0. HalfWord \in Int /\ Nano \in Nat /\ Nano >= 1 /\ Micro \in Nat /\ Micro >= 1
  BY Numbers
<1>1. q \in Int /\ HalfWord % Nano \in 0..(Nano - 1) /\ HalfWord = q * Nano + (HalfWord % Nano)
  BY <1>0, Division
<1>2. p \in Int /\ HalfWord % Micro \in 0..(Micro - 1) /\ HalfWord = p * Micro + (HalfWord % Micro)
  BY <1>0, Division
<1> HIDE DEF q, p
<1>3. q >= 0
  <2>1. q <= -1 => q * Nano <= (-1) * Nano
    BY <1>1, Numbers, Scaled
  <2>2. q * Nano \in Int
    BY <1>1, Numbers
  <2> QED
    BY <1>1, <2>1, <2>2, Numbers
<1>4. q * Micro <= HalfWord
  <2>1. Micro * q <= Nano * q
    <3>1. Micro <= Nano
      <4>1. Micro * 1 <= Micro * Thousand
        BY Numbers
      <4> QED
        BY <4>1, Numbers
    <3> QED
      BY <1>1, <1>3, <3>1, Numbers, Scaled
  <2>2. q * Nano = Nano * q /\ q * Micro = Micro * q /\ q * Nano \in Int /\ q * Micro \in Int
    BY <1>1, Numbers
  <2> QED
    BY <1>1, <2>1, <2>2, Numbers
<1>5. q <= p
  <2>1. p + 1 <= q => (p + 1) * Micro <= q * Micro
    BY <1>1, <1>2, Numbers, Scaled
  <2>2. (p + 1) * Micro = p * Micro + Micro /\ p * Micro \in Int /\ q * Micro \in Int
    BY <1>1, <1>2, Numbers
  <2> QED
    BY <1>1, <1>2, <1>4, <2>1, <2>2, Numbers
<1>6. q * Micro <= p * Micro
  BY <1>1, <1>2, <1>5, Numbers, Scaled
<1> QED
  BY <1>6 DEF q, p

\* Nanoseconds that are rendered are microseconds that are.
LEMMA NanosDivided ==
    ASSUME NEW v \in TV!Words, v >= TV!TIMESTAMP_NS_MIN_NANOS
    PROVE  /\ v \div Thousand \in TV!Words
           /\ TV!Finite(v \div Thousand)
           /\ TV!DayFits(v \div Thousand, Micro)
<1> DEFINE us == v \div Thousand
           first == (HalfWord \div Nano) * Micro
<1>1. v \in Int /\ v >= -HalfWord /\ v <= HalfWord - 1
  BY Numbers
<1>2. us \in Int /\ us * Thousand <= v /\ v < us * Thousand + Thousand
  <2>1. us \in Int /\ v % Thousand \in 0..(Thousand - 1) /\ v = us * Thousand + (v % Thousand)
    <3> Thousand \in Nat /\ Thousand >= 1
      BY Numbers
    <3> QED
      BY <1>1, Division
  <2> HIDE DEF us
  <2>2. us * Thousand \in Int
    BY <2>1, Numbers
  <2> QED
    BY <1>1, <2>1, <2>2, Numbers
<1>3. first \in Int /\ v >= -(first * Thousand)
  <2>1. HalfWord \div Nano \in Int
    BY Numbers, Division
  <2>2. (HalfWord \div Nano) * Nano = first * Thousand
    BY <2>1, Numbers
  <2> QED
    BY <2>1, <2>2, Numbers DEF TV!TIMESTAMP_NS_MIN_NANOS, Nano
<1> HIDE DEF us, first
<1>4. us < HalfWord - 1
  <2>1. HalfWord - 1 <= us => (HalfWord - 1) * Thousand <= us * Thousand
    BY <1>2, Numbers, Scaled
  <2>2. 2 * (HalfWord - 1) <= Thousand * (HalfWord - 1)
    BY Numbers, Scaled
  <2>3. /\ Thousand * (HalfWord - 1) = (HalfWord - 1) * Thousand
        /\ (HalfWord - 1) * Thousand \in Int /\ us * Thousand \in Int
    BY <1>2, Numbers
  <2> QED
    BY <1>1, <1>2, <2>1, <2>2, <2>3, Numbers
<1>5. (us + 1) * Thousand = us * Thousand + Thousand /\ (us + 1) * Thousand \in Int
  BY <1>2, Numbers
<1>6. us > -(HalfWord - 1)
  <2>1. us + 1 <= -(HalfWord - 2) => (us + 1) * Thousand <= (-(HalfWord - 2)) * Thousand
    BY <1>2, Numbers, Scaled
  <2>2. 2 * (HalfWord - 2) <= Thousand * (HalfWord - 2)
    BY Numbers, Scaled
  <2>3. /\ (-(HalfWord - 2)) * Thousand = -(Thousand * (HalfWord - 2))
        /\ Thousand * (HalfWord - 2) \in Int
    BY Numbers
  <2>4. us + 1 <= -(HalfWord - 2) => (us + 1) * Thousand <= -(2 * (HalfWord - 2))
    BY <1>5, <2>1, <2>2, <2>3, Numbers
  <2> QED
    BY <1>1, <1>2, <1>5, <2>4, Numbers
<1>7. us >= -first
  <2>1. us + 1 <= -first => (us + 1) * Thousand <= (-first) * Thousand
    BY <1>2, <1>3, Numbers, Scaled
  <2>2. (-first) * Thousand = -(first * Thousand) /\ first * Thousand \in Int
    BY <1>3, Numbers
  <2> QED
    BY <1>1, <1>2, <1>3, <1>5, <2>1, <2>2, Numbers
<1>8. us \in TV!Words /\ TV!Finite(us)
  BY <1>2, <1>4, <1>6, Numbers DEF TV!Finite, TV!TS_INFINITY
<1>9. TV!DayFits(us, Micro)
  <2> DEFINE day == (HalfWord \div Micro) * Micro
  <2>1. day \in Int /\ first <= day
    <3>1. HalfWord \div Micro \in Int
      BY Numbers, Division
    <3> QED
      BY <3>1, Numbers, LastNanoDay DEF first
  <2>2. TV!DayFits(us, Micro) <=> us >= -day
    BY <1>8, Numbers, DayFitsAfter
  <2> HIDE DEF day
  <2> QED
    BY <1>2, <1>3, <1>7, <2>1, <2>2
<1> QED
  BY <1>8, <1>9 DEF us

\* Microseconds, as DuckDB computes them first in most casts.
InMicros(source, v) ==
    CASE source = "TIMESTAMP_S" -> v * TV!US_PER_S
      [] source = "TIMESTAMP_MS" -> v * Thousand
      [] source \in TV!NanoStamps -> v \div Thousand
      [] OTHER -> v

LEMMA StampMicros ==
    ASSUME NEW source \in TV!Stamps, NEW v \in TV!Words,
           TV!temporal_in_range(source, v)
    PROVE  \E us \in TV!Words :
              /\ TV!Micros(source, v) = TV!To(us)
              /\ ~TV!Finite(v) => us = v
              /\ TV!Finite(v) => /\ TV!Finite(us) /\ TV!DayFits(us, Micro)
                                 /\ us = InMicros(source, v)
<1>1. v \in Int
  BY Numbers
<1>2. CASE ~TV!Finite(v)
  <2>1. TV!Micros(source, v) = TV!To(v)
    BY <1>2 DEF TV!Micros, TV!Passed
  <2> QED
    BY <1>2, <2>1
<1> SUFFICES ASSUME TV!Finite(v)
             PROVE  \E us \in TV!Words :
                       /\ TV!Micros(source, v) = TV!To(us)
                       /\ TV!Finite(us) /\ TV!DayFits(us, Micro)
                       /\ us = InMicros(source, v)
  BY <1>2
<1>3. CASE source \in {"TIMESTAMP", "TIMESTAMPTZ"}
  <2>1. v >= TV!TIMESTAMP_MIN_MICROS
    BY <1>3 DEF TV!temporal_in_range, TV!NanoStamps
  <2>2. TV!DayFits(v, Micro)
    BY <2>1, Numbers, DayFitsAfter DEF TV!TIMESTAMP_MIN_MICROS, Micro
  <2>3. TV!Micros(source, v) = TV!To(v) /\ InMicros(source, v) = v
    BY <1>3 DEF TV!Micros, TV!Passed, InMicros, TV!NanoStamps
  <2> QED
    BY <2>2, <2>3
<1>4. CASE source \in TV!NanoStamps
  <2>1. v >= TV!TIMESTAMP_NS_MIN_NANOS
    BY <1>4 DEF TV!temporal_in_range, TV!NanoStamps
  <2>2. TV!Micros(source, v) = TV!To(v \div Thousand) /\ InMicros(source, v) = v \div Thousand
    BY <1>4 DEF TV!Micros, TV!Passed, InMicros, TV!NanoStamps
  <2> QED
    BY <2>1, <2>2, NanosDivided
<1>5. ASSUME NEW factor \in Nat, TV!ScaledInRange(v, factor),
             TV!Micros(source, v) = TV!Times(v, factor),
             InMicros(source, v) = v * factor, TV!Finite(v * factor)
      PROVE  \E us \in TV!Words :
                /\ TV!Micros(source, v) = TV!To(us)
                /\ TV!Finite(us) /\ TV!DayFits(us, Micro)
                /\ us = InMicros(source, v)
  <2>1. v * factor \in TV!Words /\ v * factor >= TV!TIMESTAMP_MIN_MICROS
    BY <1>5 DEF TV!ScaledInRange
  <2>2. TV!DayFits(v * factor, Micro)
    BY <2>1, Numbers, DayFitsAfter DEF TV!TIMESTAMP_MIN_MICROS, Micro
  <2>3. TV!Micros(source, v) = TV!To(v * factor)
    BY <1>5, <2>1 DEF TV!Times
  <2> QED
    BY <1>5, <2>1, <2>2, <2>3
<1>6. CASE source = "TIMESTAMP_S"
  <2>1. v * TV!US_PER_S = (v * Thousand) * Thousand /\ v * Thousand \in Int
    BY <1>1, Numbers
  <2>2. TV!Finite(v * TV!US_PER_S)
    BY <2>1, NoMultiple DEF TV!Finite, TV!TS_INFINITY
  <2>3. TV!ScaledInRange(v, TV!US_PER_S)
    BY <1>6 DEF TV!temporal_in_range, TV!NanoStamps
  <2>4. TV!Micros(source, v) = TV!Times(v, TV!US_PER_S) /\ InMicros(source, v) = v * TV!US_PER_S
    BY <1>6 DEF TV!Micros, TV!Passed, InMicros, TV!NanoStamps
  <2> QED
    BY <1>5, <2>2, <2>3, <2>4, Numbers
<1>7. CASE source = "TIMESTAMP_MS"
  <2>1. TV!Finite(v * Thousand)
    BY <1>1, NoMultiple DEF TV!Finite, TV!TS_INFINITY
  <2>2. TV!ScaledInRange(v, Thousand)
    BY <1>7, Numbers DEF TV!temporal_in_range, TV!NanoStamps
  <2>3. TV!Micros(source, v) = TV!Times(v, Thousand) /\ InMicros(source, v) = v * Thousand
    BY <1>7, Numbers DEF TV!Micros, TV!Passed, InMicros, TV!NanoStamps
  <2> QED
    BY <1>5, <2>1, <2>2, <2>3, Numbers
<1> QED
  BY <1>3, <1>4, <1>6, <1>7 DEF TV!Stamps

-----------------------------------------------------------------------------
(* The guards.                                                             *)

Guards == [finite : BOOLEAN, infinite : BOOLEAN, factor : Nat, day : Nat]

LEMMA GuardType ==
    /\ TV!IfFinite \in Guards /\ TV!FiniteAndNanoDayFits \in Guards
    /\ \A f \in Nat : /\ TV!Scales(f) \in Guards
                      /\ TV!InfiniteOrScales(f) \in Guards
                      /\ TV!FiniteAndScales(f) \in Guards
<1>1. TV!InfiniteToo \in Guards /\ TV!IfFinite \in Guards
  BY DEF Guards, TV!InfiniteToo, TV!IfFinite
<1>2. TV!FiniteAndNanoDayFits \in Guards
  BY <1>1, Numbers DEF Guards, TV!FiniteAndNanoDayFits, Nano
<1> QED
  BY <1>1, <1>2 DEF Guards, TV!Scales, TV!InfiniteOrScales, TV!FiniteAndScales

\* A guard asks its own question of a payload, and no other.
LEMMA Accepted ==
    ASSUME NEW v \in TV!Words, NEW f \in Nat
    PROVE  /\ TV!accepts(TV!IfFinite, v) <=> TV!Finite(v)
           /\ TV!accepts(TV!Scales(f), v) <=> v * f \in TV!Words
           /\ TV!accepts(TV!InfiniteOrScales(f), v) <=>
                v * f \in TV!Words \/ ~TV!Finite(v)
           /\ TV!accepts(TV!FiniteAndScales(f), v) <=>
                TV!Finite(v) /\ v * f \in TV!Words
           /\ TV!accepts(TV!FiniteAndNanoDayFits, v) <=>
                TV!Finite(v) /\ TV!DayFits(v, Nano)
<1>1. v * 1 \in TV!Words /\ TV!DayFits(v, 1)
  BY Unscaled
<1>2. TV!accepts(TV!IfFinite, v) <=> TV!Finite(v)
  BY <1>1 DEF TV!accepts, TV!IfFinite, TV!InfiniteToo
<1>3. TV!accepts(TV!Scales(f), v) <=> v * f \in TV!Words
  BY <1>1 DEF TV!accepts, TV!Scales, TV!InfiniteToo
<1>4. TV!accepts(TV!InfiniteOrScales(f), v) <=> v * f \in TV!Words \/ ~TV!Finite(v)
  BY <1>1 DEF TV!accepts, TV!InfiniteOrScales, TV!InfiniteToo
<1>5. TV!accepts(TV!FiniteAndScales(f), v) <=> TV!Finite(v) /\ v * f \in TV!Words
  BY <1>1 DEF TV!accepts, TV!FiniteAndScales, TV!IfFinite, TV!InfiniteToo
<1>6. TV!accepts(TV!FiniteAndNanoDayFits, v) <=> TV!Finite(v) /\ TV!DayFits(v, Nano)
  BY <1>1 DEF TV!accepts, TV!FiniteAndNanoDayFits, TV!IfFinite, TV!InfiniteToo, Nano
<1> QED
  BY <1>2, <1>3, <1>4, <1>5, <1>6

LEMMA Guarded ==
    ASSUME NEW source, NEW target, NEW v
    PROVE  /\ TV!cast_guard(source, target) = None => TV!guarded(source, target, v)
           /\ \A guard \in Guards :
                TV!cast_guard(source, target) = guard =>
                  (TV!guarded(source, target, v) <=> TV!accepts(guard, v))
BY ValueAssumption DEF TV!guarded, Guards

-----------------------------------------------------------------------------
(* What DuckDB's casts come to.                                            *)

\* The payloads of each type that the checks are made for; a cast to DATE
\* divides what may be an infinity.
Typed(type, v) == v \in IF type = "DATE" THEN Int ELSE TV!Payloads(type)

Good(target, r) == r = TV!Fails \/ \E w \in Int : Typed(target, w) /\ r = TV!To(w)

LEMMA WordTyped ==
    ASSUME NEW target \in TV!Temporal \ {"TIMETZ"}, NEW w \in TV!Words
    PROVE  Typed(target, w) /\ Good(target, TV!To(w))
<1>1. w \in Int
  BY Numbers
<1>2. Typed(target, w)
  BY DEF Typed, TV!Payloads, TV!Temporal, TV!Stamps, TV!NanoStamps
<1> QED
  BY <1>1, <1>2 DEF Good

LEMMA UtcTyped ==
    ASSUME NEW t \in 0..Micro
    PROVE  Good("TIMETZ", TV!AtUtc(t))
<1> DEFINE w == t * 4 + TIME_TZ_MAX_OFFSET
<1>1. w \in Int /\ w \in 0..(2 * HalfWord - 1)
  BY Numbers
<1>2. TV!AtUtc(t) = TV!To(w)
  BY DEF TV!AtUtc
<1> HIDE DEF w
<1> QED
  BY <1>1, <1>2 DEF Good, Typed, TV!Payloads

LEMMA DateTyped ==
    ASSUME NEW us \in TV!Words
    PROVE  Good("DATE", TV!GetDate(us))
<1>1. us \in Int /\ us \div Micro \in Int
  BY Numbers
<1>2. TV!GetDate(us) = TV!To(us) \/ TV!GetDate(us) = TV!To(us \div Micro)
  BY DEF TV!GetDate, TV!Passed, Micro
<1> QED
  BY <1>1, <1>2 DEF Good, Typed

LEMMA TimeTyped ==
    ASSUME NEW us \in TV!Words, TV!Finite(us), TV!DayFits(us, Micro)
    PROVE  \E t \in 0..Micro : t \in TV!Words /\ TV!GetTime(us) = TV!To(t)
<1>1. us % Micro \in 0..(Micro - 1)
  <2> us \in Int /\ Micro \in Nat /\ Micro >= 1
    BY Numbers
  <2> QED
    BY Division
<1>2. TV!GetTime(us) = TV!To(us % Micro)
  BY DEF TV!GetTime, TV!TimeOf, Micro
<1> HIDE DEF Micro
<1> QED
  BY <1>1, <1>2, Numbers

\* What is rounded to a coarser unit is no further from zero.
LEMMA NearestBounded ==
    ASSUME NEW n \in Nat, NEW unit \in Nat, unit >= 1
    PROVE  TV!Nearest(n, unit) \in 0..n
<1> DEFINE twice == 2 * unit
           w == (2 * n + unit) \div twice
<1>1. twice \in Nat /\ twice >= 1 /\ 2 * n + unit \in Nat
  OBVIOUS
<1>2. w \in Int /\ w * twice <= 2 * n + unit /\ 2 * n + unit < w * twice + twice
  <2> HIDE DEF twice
  <2>1. /\ w \in Int /\ (2 * n + unit) % twice \in 0..(twice - 1)
        /\ 2 * n + unit = w * twice + ((2 * n + unit) % twice)
    BY <1>1, Division
  <2> HIDE DEF w
  <2>2. w * twice \in Int
    BY <1>1, <2>1
  <2> QED
    BY <1>1, <2>1, <2>2
<1> HIDE DEF w
<1>3. w >= 0
  <2> SUFFICES ASSUME w + 1 <= 0 PROVE FALSE
    BY <1>2
  <2>1. (w + 1) * twice <= 0 * twice
    BY <1>1, <1>2, Scaled
  <2>2. (w + 1) * twice = w * twice + twice
    BY <1>1, <1>2
  <2> QED
    BY <1>1, <1>2, <2>1, <2>2
<1>4. w <= n
  <2> SUFFICES ASSUME n + 1 <= w PROVE FALSE
    BY <1>2
  <2>1. (n + 1) * twice <= w * twice
    BY <1>1, <1>2, Scaled
  <2>2. (n + 1) * twice = 2 * (n * unit) + 2 * unit
    OBVIOUS
  <2>3. n * 1 <= n * unit /\ n * unit \in Nat
    OBVIOUS
  <2> HIDE DEF twice
  <2> QED
    BY <1>1, <1>2, <2>1, <2>2, <2>3
<1> QED
  BY <1>2, <1>3, <1>4 DEF w, TV!Nearest

LEMMA CoarserTyped ==
    ASSUME NEW us \in TV!Words, NEW unit \in Nat, unit >= 1,
           NEW target \in TV!Stamps
    PROVE  Good(target, TV!Passed(us, TV!To(TV!Rounded(us, unit))))
<1>1. us \in Int /\ -HalfWord <= us /\ us <= HalfWord - 1
  BY Numbers
<1> DEFINE w == TV!Rounded(us, unit)
<1>2. w \in TV!Words
  <2>1. CASE us < 0
    <3>1. -us \in Nat
      BY <1>1, <2>1
    <3>2. TV!Nearest(-us, unit) \in 0..(-us)
      BY <3>1, NearestBounded
    <3>3. w = -TV!Nearest(-us, unit)
      BY <2>1 DEF TV!Rounded
    <3> HIDE DEF w
    <3> QED
      BY <1>1, <3>2, <3>3, Numbers
  <2>2. CASE us >= 0
    <3>1. TV!Nearest(us, unit) \in 0..us
      BY <1>1, <2>2, NearestBounded
    <3>2. w = TV!Nearest(us, unit)
      BY <1>1, <2>2 DEF TV!Rounded
    <3> HIDE DEF w
    <3> QED
      BY <1>1, <3>1, <3>2, Numbers
  <2> QED
    BY <1>1, <2>1, <2>2
<1>3. target \in TV!Temporal \ {"TIMETZ"}
  BY DEF TV!Temporal, TV!Stamps, TV!NanoStamps
<1> HIDE DEF w
<1>4. Good(target, TV!To(w)) /\ Good(target, TV!To(us))
  BY <1>2, <1>3, WordTyped
<1> QED
  BY <1>4 DEF TV!Passed, w

LEMMA NanosTyped ==
    ASSUME NEW us \in TV!Words, NEW target \in TV!NanoStamps
    PROVE  LET r == TV!Passed(us, TV!Times(us, Thousand)) IN
           /\ us * Thousand \in TV!Words \/ ~TV!Finite(us) => Good(target, r)
           /\ us * Thousand \notin TV!Words /\ TV!Finite(us) => r = TV!Throws
<1>1. target \in TV!Temporal \ {"TIMETZ"}
  BY DEF TV!Temporal, TV!Stamps, TV!NanoStamps
<1>2. us * Thousand \in TV!Words => Good(target, TV!To(us * Thousand))
  BY <1>1, WordTyped
<1>3. Good(target, TV!To(us))
  BY <1>1, WordTyped
<1> QED
  BY <1>2, <1>3 DEF TV!Passed, TV!Times

\* The casts of a timestamp, of which DuckDB makes microseconds first.
LEMMA StampCasts ==
    ASSUME NEW source \in TV!Stamps, NEW v, NEW us,
           TV!Micros(source, v) = TV!To(us)
    PROVE  /\ source \in {"TIMESTAMP", "TIMESTAMP_S", "TIMESTAMP_NS"} =>
                /\ TV!DuckCast(source, "DATE", v) = TV!GetDate(us)
                /\ TV!DuckCast(source, "TIME", v) = TV!GetTime(us)
           /\ source \in {"TIMESTAMP", "TIMESTAMPTZ", "TIMESTAMPTZ_NS"} =>
                \A t : TV!GetTime(us) = TV!To(t) =>
                         TV!DuckCast(source, "TIMETZ", v) = TV!AtUtc(t)
           /\ source \in {"TIMESTAMP_S", "TIMESTAMP_MS", "TIMESTAMP_NS"} =>
                TV!DuckCast(source, "TIMESTAMP", v) = TV!To(us)
           /\ source \in {"TIMESTAMP_S", "TIMESTAMP_MS", "TIMESTAMP_NS", "TIMESTAMPTZ_NS"} =>
                TV!DuckCast(source, "TIMESTAMPTZ", v) = TV!To(us)
           /\ source \in {"TIMESTAMP_S", "TIMESTAMP", "TIMESTAMPTZ", "TIMESTAMPTZ_NS"} =>
                TV!DuckCast(source, "TIMESTAMP_MS", v) =
                  TV!Passed(us, TV!To(TV!Rounded(us, TV!US_PER_MS)))
           /\ source \in {"TIMESTAMP", "TIMESTAMPTZ", "TIMESTAMPTZ_NS"} =>
                TV!DuckCast(source, "TIMESTAMP_S", v) =
                  TV!Passed(us, TV!To(TV!Rounded(us, TV!US_PER_S)))
<1>1. ASSUME source \in {"TIMESTAMP", "TIMESTAMP_S", "TIMESTAMP_NS"}
      PROVE  TV!DuckCast(source, "DATE", v) = TV!GetDate(us)
  BY <1>1 DEF TV!DuckCast, TV!Then, TV!To, TV!NanoStamps
<1>2. ASSUME source \in {"TIMESTAMP", "TIMESTAMP_S", "TIMESTAMP_NS"}
      PROVE  TV!DuckCast(source, "TIME", v) = TV!GetTime(us)
  BY <1>2 DEF TV!DuckCast, TV!Then, TV!To, TV!NanoStamps
<1>3. ASSUME source \in {"TIMESTAMP", "TIMESTAMPTZ", "TIMESTAMPTZ_NS"}, NEW t,
             TV!GetTime(us) = TV!To(t)
      PROVE  TV!DuckCast(source, "TIMETZ", v) = TV!AtUtc(t)
  BY <1>3 DEF TV!DuckCast, TV!Then, TV!To, TV!NanoStamps
<1>4. ASSUME source \in {"TIMESTAMP_S", "TIMESTAMP_MS", "TIMESTAMP_NS"}
      PROVE  TV!DuckCast(source, "TIMESTAMP", v) = TV!To(us)
  BY <1>4 DEF TV!DuckCast, TV!NanoStamps
<1>5. ASSUME source \in {"TIMESTAMP_S", "TIMESTAMP_MS", "TIMESTAMP_NS", "TIMESTAMPTZ_NS"}
      PROVE  TV!DuckCast(source, "TIMESTAMPTZ", v) = TV!To(us)
  BY <1>5 DEF TV!DuckCast, TV!NanoStamps
<1>6. ASSUME source \in {"TIMESTAMP_S", "TIMESTAMP", "TIMESTAMPTZ", "TIMESTAMPTZ_NS"}
      PROVE  TV!DuckCast(source, "TIMESTAMP_MS", v) =
               TV!Passed(us, TV!To(TV!Rounded(us, TV!US_PER_MS)))
  BY <1>6 DEF TV!DuckCast, TV!Coarser, TV!Then, TV!To, TV!NanoStamps
<1>7. ASSUME source \in {"TIMESTAMP", "TIMESTAMPTZ", "TIMESTAMPTZ_NS"}
      PROVE  TV!DuckCast(source, "TIMESTAMP_S", v) =
               TV!Passed(us, TV!To(TV!Rounded(us, TV!US_PER_S)))
  BY <1>7 DEF TV!DuckCast, TV!Coarser, TV!Then, TV!To, TV!NanoStamps
<1> QED
  BY <1>1, <1>2, <1>3, <1>4, <1>5, <1>6, <1>7

\* And of nanoseconds from them.
LEMMA NanoCasts ==
    ASSUME NEW source \in {"TIMESTAMP", "TIMESTAMPTZ", "TIMESTAMP_MS", "TIMESTAMP_S"},
           NEW v, NEW us, TV!Micros(source, v) = TV!To(us),
           NEW target \in TV!NanoStamps
    PROVE  TV!DuckCast(source, target, v) = TV!Passed(us, TV!Times(us, Thousand))
BY DEF TV!DuckCast, TV!Nanos, TV!Then, TV!To, TV!NanoStamps

\* The casts that do not go through microseconds.
LEMMA OtherCasts ==
    ASSUME NEW v
    PROVE  /\ v * Thousand \in TV!Words =>
                TV!DuckCast("TIMESTAMP_MS", "DATE", v) = TV!GetDate(v * Thousand)
           /\ v * Thousand \in TV!Words =>
                TV!DuckCast("TIMESTAMP_MS", "TIME", v) = TV!GetTime(v * Thousand)
           /\ TV!DuckCast("TIMESTAMP_NS", "TIME_NS", v) = TV!TimeOf(v, Nano)
           /\ TV!DuckCast("TIMESTAMPTZ_NS", "TIMESTAMP_NS", v) = TV!To(v)
           /\ TV!DuckCast("TIME", "TIMETZ", v) = TV!AtUtc(v)
           /\ TV!DuckCast("TIMETZ", "TIME", v) = TV!To(v \div 4)
           /\ TV!DuckCast("TIME_NS", "TIME", v) = TV!To(v \div Thousand)
<1>1. ASSUME v * Thousand \in TV!Words
      PROVE  TV!DuckCast("TIMESTAMP_MS", "DATE", v) = TV!GetDate(v * Thousand)
  BY <1>1, Numbers DEF TV!DuckCast, TV!Then, TV!Times, TV!To, TV!NanoStamps
<1>2. ASSUME v * Thousand \in TV!Words
      PROVE  TV!DuckCast("TIMESTAMP_MS", "TIME", v) = TV!GetTime(v * Thousand)
  BY <1>2, Numbers DEF TV!DuckCast, TV!Then, TV!Times, TV!To, TV!NanoStamps
<1>3. TV!DuckCast("TIMESTAMP_NS", "TIME_NS", v) = TV!TimeOf(v, Nano)
  BY DEF TV!DuckCast, TV!NanoStamps, Nano
<1>4. TV!DuckCast("TIMESTAMPTZ_NS", "TIMESTAMP_NS", v) = TV!To(v)
  BY DEF TV!DuckCast, TV!NanoStamps
<1>5. /\ TV!DuckCast("TIME", "TIMETZ", v) = TV!AtUtc(v)
      /\ TV!DuckCast("TIMETZ", "TIME", v) = TV!To(v \div 4)
      /\ TV!DuckCast("TIME_NS", "TIME", v) = TV!To(v \div Thousand)
  BY DEF TV!DuckCast, TV!NanoStamps
<1> QED
  BY <1>1, <1>2, <1>3, <1>4, <1>5

\* And the pairs that DuckDB has no cast for.
LEMMA NoCasts ==
    ASSUME NEW v
    PROVE  /\ \A target \in TV!Targets \ {"DATE"} :
                TV!DuckCast("DATE", target, v) = TV!Fails
           /\ \A target \in TV!Targets \ {"TIME", "TIMETZ"} :
                TV!DuckCast("TIME", target, v) = TV!Fails
           /\ \A target \in TV!Targets \ {"TIME_NS", "TIME"} :
                TV!DuckCast("TIME_NS", target, v) = TV!Fails
           /\ \A target \in TV!Targets \ {"TIMETZ", "TIME"} :
                TV!DuckCast("TIMETZ", target, v) = TV!Fails
           /\ \A target \in {"TIMESTAMPTZ", "TIME_NS"} :
                TV!DuckCast("TIMESTAMP", target, v) = TV!Fails
           /\ \A target \in {"TIMESTAMP", "DATE", "TIME", "TIME_NS"} :
                TV!DuckCast("TIMESTAMPTZ", target, v) = TV!Fails
           /\ \A target \in {"TIMETZ", "TIME_NS"} :
                TV!DuckCast("TIMESTAMP_S", target, v) = TV!Fails
           /\ \A target \in {"TIMETZ", "TIME_NS", "TIMESTAMP_S"} :
                TV!DuckCast("TIMESTAMP_MS", target, v) = TV!Fails
           /\ \A target \in {"TIMETZ", "TIMESTAMP_S", "TIMESTAMP_MS", "TIMESTAMPTZ_NS"} :
                TV!DuckCast("TIMESTAMP_NS", target, v) = TV!Fails
           /\ \A target \in {"DATE", "TIME", "TIME_NS", "TIMESTAMP"} :
                TV!DuckCast("TIMESTAMPTZ_NS", target, v) = TV!Fails
<1>1. \A target \in TV!Targets \ {"DATE"} : TV!DuckCast("DATE", target, v) = TV!Fails
  BY DEF TV!DuckCast, TV!NanoStamps
<1>2. \A target \in TV!Targets \ {"TIME", "TIMETZ"} :
         TV!DuckCast("TIME", target, v) = TV!Fails
  BY DEF TV!DuckCast, TV!NanoStamps
<1>3. \A target \in TV!Targets \ {"TIME_NS", "TIME"} :
         TV!DuckCast("TIME_NS", target, v) = TV!Fails
  BY DEF TV!DuckCast, TV!NanoStamps
<1>4. \A target \in TV!Targets \ {"TIMETZ", "TIME"} :
         TV!DuckCast("TIMETZ", target, v) = TV!Fails
  BY DEF TV!DuckCast, TV!NanoStamps
<1>5. \A target \in {"TIMESTAMPTZ", "TIME_NS"} :
         TV!DuckCast("TIMESTAMP", target, v) = TV!Fails
  BY DEF TV!DuckCast, TV!NanoStamps
<1>6. \A target \in {"TIMESTAMP", "DATE", "TIME", "TIME_NS"} :
         TV!DuckCast("TIMESTAMPTZ", target, v) = TV!Fails
  BY DEF TV!DuckCast, TV!NanoStamps
<1>7. \A target \in {"TIMETZ", "TIME_NS"} :
         TV!DuckCast("TIMESTAMP_S", target, v) = TV!Fails
  BY DEF TV!DuckCast, TV!NanoStamps
<1>8. \A target \in {"TIMETZ", "TIME_NS", "TIMESTAMP_S"} :
         TV!DuckCast("TIMESTAMP_MS", target, v) = TV!Fails
  BY DEF TV!DuckCast, TV!NanoStamps
<1>9. \A target \in {"TIMETZ", "TIMESTAMP_S", "TIMESTAMP_MS", "TIMESTAMPTZ_NS"} :
         TV!DuckCast("TIMESTAMP_NS", target, v) = TV!Fails
  BY DEF TV!DuckCast, TV!NanoStamps
<1>10. \A target \in {"DATE", "TIME", "TIME_NS", "TIMESTAMP"} :
         TV!DuckCast("TIMESTAMPTZ_NS", target, v) = TV!Fails
  BY DEF TV!DuckCast, TV!NanoStamps
<1> QED
  BY <1>1, <1>2, <1>3, <1>4, <1>5, <1>6, <1>7, <1>8, <1>9, <1>10

-----------------------------------------------------------------------------
(* Every cast that passes its guard comes to a payload or a failure, and   *)
(* of a finite payload that DuckDB can render, a guard stops only what     *)
(* would overflow.                                                         *)

Right(source, target, v) ==
    LET r == TV!DuckCast(source, target, v) IN
    /\ TV!guarded(source, target, v) => Good(target, r)
    /\ TV!Finite(v) /\ ~TV!guarded(source, target, v) => r = TV!Throws

\* Without a guard there is only the first half.
LEMMA Unguarded ==
    ASSUME NEW source, NEW target, NEW v,
           TV!cast_guard(source, target) = None,
           Good(target, TV!DuckCast(source, target, v))
    PROVE  Right(source, target, v)
BY Guarded DEF Right

LEMMA FailureRight ==
    ASSUME NEW source, NEW target, NEW v,
           TV!cast_guard(source, target) = None,
           TV!DuckCast(source, target, v) = TV!Fails
    PROVE  Right(source, target, v)
BY Unguarded DEF Good

\* What a stamp is cast to by way of microseconds.
LEMMA MicrosTyped ==
    ASSUME NEW us \in TV!Words
    PROVE  /\ Good("DATE", TV!GetDate(us))
           /\ TV!Finite(us) /\ TV!DayFits(us, Micro) =>
                /\ Good("TIME", TV!GetTime(us))
                /\ \E t : /\ TV!GetTime(us) = TV!To(t)
                          /\ Good("TIMETZ", TV!AtUtc(t))
           /\ Good("TIMESTAMP", TV!To(us)) /\ Good("TIMESTAMPTZ", TV!To(us))
           /\ Good("TIMESTAMP_MS", TV!Passed(us, TV!To(TV!Rounded(us, TV!US_PER_MS))))
           /\ Good("TIMESTAMP_S", TV!Passed(us, TV!To(TV!Rounded(us, TV!US_PER_S))))
<1>1. /\ "TIMESTAMP" \in TV!Stamps /\ "TIMESTAMPTZ" \in TV!Stamps
      /\ "TIMESTAMP_MS" \in TV!Stamps /\ "TIMESTAMP_S" \in TV!Stamps
      /\ "TIME" \in TV!Temporal
      /\ TV!Stamps \subseteq TV!Temporal
      /\ "TIMETZ" \notin TV!Stamps
  BY DEF TV!Stamps, TV!NanoStamps, TV!Temporal
<1>2. ASSUME TV!Finite(us), TV!DayFits(us, Micro)
      PROVE  /\ Good("TIME", TV!GetTime(us))
             /\ \E t : /\ TV!GetTime(us) = TV!To(t)
                       /\ Good("TIMETZ", TV!AtUtc(t))
  <2>1. PICK t \in 0..Micro : t \in TV!Words /\ TV!GetTime(us) = TV!To(t)
    BY <1>2, TimeTyped
  <2> QED
    BY <1>1, <2>1, WordTyped, UtcTyped
<1>3. Good("TIMESTAMP", TV!To(us)) /\ Good("TIMESTAMPTZ", TV!To(us))
  BY <1>1, WordTyped
<1>4. /\ TV!US_PER_MS \in Nat /\ TV!US_PER_MS >= 1
      /\ TV!US_PER_S \in Nat /\ TV!US_PER_S >= 1
  BY Numbers
<1>5. /\ Good("TIMESTAMP_MS", TV!Passed(us, TV!To(TV!Rounded(us, TV!US_PER_MS))))
      /\ Good("TIMESTAMP_S", TV!Passed(us, TV!To(TV!Rounded(us, TV!US_PER_S))))
  BY <1>1, <1>4, CoarserTyped
<1> QED
  BY <1>2, <1>3, <1>5, DateTyped

LEMMA TimestampRight ==
    ASSUME NEW source \in {"TIMESTAMP", "TIMESTAMPTZ"}, NEW v \in TV!Words,
           TV!temporal_in_range(source, v),
           NEW target \in TV!Targets \ {source}
    PROVE  Right(source, target, v)
<1>1. source \in TV!Stamps
  BY DEF TV!Stamps
<1>2. /\ TV!Micros(source, v) = TV!To(v)
      /\ TV!Finite(v) => TV!DayFits(v, Micro)
  <2>1. TV!Micros(source, v) = TV!To(v)
    BY DEF TV!Micros, TV!Passed, TV!NanoStamps
  <2>2. PICK us \in TV!Words :
           TV!Finite(v) => TV!DayFits(us, Micro) /\ us = InMicros(source, v)
    BY <1>1, StampMicros
  <2> QED
    BY <2>1, <2>2 DEF InMicros, TV!NanoStamps
<1>3. CASE target \in {"DATE", "TIMESTAMPTZ", "TIMESTAMP", "TIMESTAMP_S", "TIMESTAMP_MS", "TIME_NS"}
  <2>1. TV!cast_guard(source, target) = None
    BY <1>3 DEF TV!cast_guard, TV!NanoStamps
  <2>2. Good(target, TV!DuckCast(source, target, v))
    BY <1>1, <1>2, <1>3, StampCasts, NoCasts, MicrosTyped DEF Good
  <2> QED
    BY <2>1, <2>2, Unguarded
<1>4. CASE (target = "TIME" /\ source = "TIMESTAMP") \/ target = "TIMETZ"
  <2>1. TV!cast_guard(source, target) = TV!IfFinite
    BY <1>4 DEF TV!cast_guard, TV!NanoStamps
  <2>2. TV!guarded(source, target, v) <=> TV!Finite(v)
    BY <2>1, Guarded, GuardType, Accepted, Numbers
  <2>3. TV!Finite(v) => Good(target, TV!DuckCast(source, target, v))
    BY <1>1, <1>2, <1>4, StampCasts, MicrosTyped
  <2> QED
    BY <2>2, <2>3 DEF Right
<1>5. CASE target = "TIME" /\ source = "TIMESTAMPTZ"
  <2>1. TV!cast_guard(source, target) = None
    BY <1>5 DEF TV!cast_guard, TV!NanoStamps
  <2> QED
    BY <1>5, <2>1, NoCasts, FailureRight
<1>6. CASE target \in TV!NanoStamps
  <2>1. TV!cast_guard(source, target) = TV!InfiniteOrScales(Thousand)
    BY <1>6, Numbers DEF TV!cast_guard, TV!NanoStamps
  <2>2. TV!guarded(source, target, v) <=> v * Thousand \in TV!Words \/ ~TV!Finite(v)
    BY <2>1, Guarded, GuardType, Accepted, Numbers
  <2>3. TV!DuckCast(source, target, v) = TV!Passed(v, TV!Times(v, Thousand))
    BY <1>2, <1>6, NanoCasts
  <2> QED
    BY <1>6, <2>2, <2>3, NanosTyped DEF Right
<1> QED
  BY <1>3, <1>4, <1>5, <1>6 DEF TV!Targets, TV!Temporal, TV!Stamps, TV!NanoStamps

LEMMA SecondsRight ==
    ASSUME NEW v \in TV!Words, TV!temporal_in_range("TIMESTAMP_S", v),
           NEW target \in TV!Targets \ {"TIMESTAMP_S"}
    PROVE  Right("TIMESTAMP_S", target, v)
<1>1. "TIMESTAMP_S" \in TV!Stamps
  BY DEF TV!Stamps
<1>2. PICK us \in TV!Words :
         /\ TV!Micros("TIMESTAMP_S", v) = TV!To(us)
         /\ ~TV!Finite(v) => us = v
         /\ TV!Finite(v) => /\ TV!Finite(us) /\ TV!DayFits(us, Micro)
                            /\ us = v * TV!US_PER_S
  <2> InMicros("TIMESTAMP_S", v) = v * TV!US_PER_S
    BY DEF InMicros, TV!NanoStamps
  <2> QED
    BY <1>1, StampMicros
<1>3. CASE target \in {"DATE", "TIMESTAMP", "TIMESTAMPTZ", "TIMESTAMP_MS"}
  <2>1. TV!cast_guard("TIMESTAMP_S", target) = TV!InfiniteOrScales(TV!US_PER_S)
    BY <1>3 DEF TV!cast_guard, TV!NanoStamps
  <2>2. TV!guarded("TIMESTAMP_S", target, v)
    BY <1>2, <2>1, Guarded, GuardType, Accepted, Numbers
  <2>3. Good(target, TV!DuckCast("TIMESTAMP_S", target, v))
    BY <1>1, <1>2, <1>3, StampCasts, MicrosTyped
  <2> QED
    BY <2>2, <2>3 DEF Right
<1>4. CASE target = "TIME"
  <2>1. TV!cast_guard("TIMESTAMP_S", target) = TV!FiniteAndScales(TV!US_PER_S)
    BY <1>4 DEF TV!cast_guard, TV!NanoStamps
  <2>2. TV!guarded("TIMESTAMP_S", target, v) <=> TV!Finite(v)
    BY <1>2, <2>1, Guarded, GuardType, Accepted, Numbers
  <2>3. TV!Finite(v) => Good(target, TV!DuckCast("TIMESTAMP_S", target, v))
    BY <1>1, <1>2, <1>4, StampCasts, MicrosTyped
  <2> QED
    BY <2>2, <2>3 DEF Right
<1>5. CASE target \in {"TIMETZ", "TIME_NS"}
  <2>1. TV!cast_guard("TIMESTAMP_S", target) = None
    BY <1>5 DEF TV!cast_guard, TV!NanoStamps
  <2> QED
    BY <1>5, <2>1, NoCasts, FailureRight
<1>6. CASE target \in TV!NanoStamps
  <2>1. TV!cast_guard("TIMESTAMP_S", target) = TV!InfiniteOrScales(TV!NS_PER_S)
    BY <1>6 DEF TV!cast_guard, TV!NanoStamps
  <2>2. TV!guarded("TIMESTAMP_S", target, v) <=> v * TV!NS_PER_S \in TV!Words \/ ~TV!Finite(v)
    BY <2>1, Guarded, GuardType, Accepted, Numbers
  <2>3. TV!DuckCast("TIMESTAMP_S", target, v) = TV!Passed(us, TV!Times(us, Thousand))
    BY <1>2, <1>6, NanoCasts
  <2>4. TV!Finite(v) => us * Thousand = v * TV!NS_PER_S
    <3> v \in Int
      BY Numbers
    <3> QED
      BY <1>2, Numbers
  <2> QED
    BY <1>2, <1>6, <2>2, <2>3, <2>4, NanosTyped DEF Right
<1> QED
  BY <1>3, <1>4, <1>5, <1>6 DEF TV!Targets, TV!Temporal, TV!Stamps, TV!NanoStamps

\* An infinity in milliseconds overflows.
LEMMA InfiniteMillis ==
    ASSUME NEW v \in TV!Words, v * Thousand \in TV!Words
    PROVE  TV!Finite(v)
<1>1. v \in Int /\ v * Thousand \in Int
  BY Numbers
<1>2. 2 * (HalfWord - 1) <= Thousand * (HalfWord - 1)
  BY Numbers, Scaled
<1>3. /\ (HalfWord - 1) * Thousand = Thousand * (HalfWord - 1)
      /\ (-(HalfWord - 1)) * Thousand = -(Thousand * (HalfWord - 1))
      /\ Thousand * (HalfWord - 1) \in Int
  BY Numbers
<1>4. v # HalfWord - 1 /\ v # -(HalfWord - 1)
  BY <1>1, <1>2, <1>3, Numbers
<1> QED
  BY <1>4 DEF TV!Finite, TV!TS_INFINITY

LEMMA MillisRight ==
    ASSUME NEW v \in TV!Words, TV!temporal_in_range("TIMESTAMP_MS", v),
           NEW target \in TV!Targets \ {"TIMESTAMP_MS"}
    PROVE  Right("TIMESTAMP_MS", target, v)
<1>1. "TIMESTAMP_MS" \in TV!Stamps
  BY DEF TV!Stamps
<1>2. PICK us \in TV!Words :
         /\ TV!Micros("TIMESTAMP_MS", v) = TV!To(us)
         /\ ~TV!Finite(v) => us = v
         /\ TV!Finite(v) => /\ TV!Finite(us) /\ TV!DayFits(us, Micro)
                            /\ us = v * Thousand
  <2> InMicros("TIMESTAMP_MS", v) = v * Thousand
    BY DEF InMicros, TV!NanoStamps
  <2> QED
    BY <1>1, StampMicros
<1>3. CASE target \in {"DATE", "TIME"}
  <2>1. TV!cast_guard("TIMESTAMP_MS", target) = TV!Scales(Thousand)
    BY <1>3, Numbers DEF TV!cast_guard, TV!NanoStamps
  <2>2. TV!guarded("TIMESTAMP_MS", target, v) <=> v * Thousand \in TV!Words
    BY <2>1, Guarded, GuardType, Accepted, Numbers
  <2>3. ASSUME v * Thousand \in TV!Words
        PROVE  Good(target, TV!DuckCast("TIMESTAMP_MS", target, v))
    <3>1. us = v * Thousand /\ TV!Finite(us) /\ TV!DayFits(us, Micro)
      BY <1>2, <2>3, InfiniteMillis
    <3> QED
      BY <1>3, <2>3, <3>1, OtherCasts, MicrosTyped
  <2> QED
    BY <1>2, <2>2, <2>3 DEF Right
<1>4. CASE target \in {"TIMESTAMP", "TIMESTAMPTZ"}
  <2>1. TV!cast_guard("TIMESTAMP_MS", target) = TV!InfiniteOrScales(Thousand)
    BY <1>4, Numbers DEF TV!cast_guard, TV!NanoStamps
  <2>2. TV!guarded("TIMESTAMP_MS", target, v)
    BY <1>2, <2>1, Guarded, GuardType, Accepted, Numbers
  <2>3. Good(target, TV!DuckCast("TIMESTAMP_MS", target, v))
    BY <1>1, <1>2, <1>4, StampCasts, MicrosTyped
  <2> QED
    BY <2>2, <2>3 DEF Right
<1>5. CASE target \in {"TIMETZ", "TIME_NS", "TIMESTAMP_S"}
  <2>1. TV!cast_guard("TIMESTAMP_MS", target) = None
    BY <1>5 DEF TV!cast_guard, TV!NanoStamps
  <2> QED
    BY <1>5, <2>1, NoCasts, FailureRight
<1>6. CASE target \in TV!NanoStamps
  <2>1. TV!cast_guard("TIMESTAMP_MS", target) = TV!InfiniteOrScales(TV!US_PER_S)
    BY <1>6 DEF TV!cast_guard, TV!NanoStamps
  <2>2. TV!guarded("TIMESTAMP_MS", target, v) <=> v * TV!US_PER_S \in TV!Words \/ ~TV!Finite(v)
    BY <2>1, Guarded, GuardType, Accepted, Numbers
  <2>3. TV!DuckCast("TIMESTAMP_MS", target, v) = TV!Passed(us, TV!Times(us, Thousand))
    BY <1>2, <1>6, NanoCasts
  <2>4. TV!Finite(v) => us * Thousand = v * TV!US_PER_S
    <3> v \in Int
      BY Numbers
    <3> QED
      BY <1>2, Numbers
  <2> QED
    BY <1>2, <1>6, <2>2, <2>3, <2>4, NanosTyped DEF Right
<1> QED
  BY <1>3, <1>4, <1>5, <1>6 DEF TV!Targets, TV!Temporal, TV!Stamps, TV!NanoStamps

LEMMA NanosRight ==
    ASSUME NEW source \in TV!NanoStamps, NEW v \in TV!Words,
           TV!temporal_in_range(source, v),
           NEW target \in TV!Targets \ {source}
    PROVE  Right(source, target, v)
<1>1. source \in TV!Stamps
  BY DEF TV!Stamps
<1>2. PICK us \in TV!Words :
         /\ TV!Micros(source, v) = TV!To(us)
         /\ TV!Finite(v) => TV!Finite(us) /\ TV!DayFits(us, Micro)
  BY <1>1, StampMicros
<1>3. TV!Finite(v) => TV!DayFits(v, Nano)
  <2>1. TV!Finite(v) => v >= TV!TIMESTAMP_NS_MIN_NANOS
    BY DEF TV!temporal_in_range, TV!NanoStamps
  <2> QED
    BY <2>1, Numbers, DayFitsAfter DEF TV!TIMESTAMP_NS_MIN_NANOS, Nano
<1>4. CASE source = "TIMESTAMP_NS" /\ target \in {"DATE", "TIMESTAMP", "TIMESTAMPTZ"}
  <2>1. TV!cast_guard(source, target) = None
    BY <1>4 DEF TV!cast_guard, TV!NanoStamps
  <2>2. Good(target, TV!DuckCast(source, target, v))
    BY <1>1, <1>2, <1>4, StampCasts, MicrosTyped
  <2> QED
    BY <2>1, <2>2, Unguarded
<1>5. CASE source = "TIMESTAMPTZ_NS"
           /\ target \in {"TIMESTAMPTZ", "TIMESTAMP_MS", "TIMESTAMP_S"}
  <2>1. TV!cast_guard(source, target) = None
    BY <1>5 DEF TV!cast_guard, TV!NanoStamps
  <2>2. Good(target, TV!DuckCast(source, target, v))
    BY <1>1, <1>2, <1>5, StampCasts, MicrosTyped
  <2> QED
    BY <2>1, <2>2, Unguarded
<1>6. CASE source = "TIMESTAMPTZ_NS" /\ target = "TIMESTAMP_NS"
  <2>1. TV!cast_guard(source, target) = None
    BY <1>6 DEF TV!cast_guard, TV!NanoStamps
  <2>2. "TIMESTAMP_NS" \in TV!Temporal \ {"TIMETZ"}
    BY DEF TV!Temporal, TV!Stamps, TV!NanoStamps
  <2>3. Good(target, TV!DuckCast(source, target, v))
    BY <1>6, <2>2, OtherCasts, WordTyped
  <2> QED
    BY <2>1, <2>3, Unguarded
<1>7. CASE \/ source = "TIMESTAMP_NS" /\ target = "TIME"
           \/ source = "TIMESTAMPTZ_NS" /\ target = "TIMETZ"
  <2>1. TV!cast_guard(source, target) = TV!IfFinite
    BY <1>7 DEF TV!cast_guard, TV!NanoStamps
  <2>2. TV!guarded(source, target, v) <=> TV!Finite(v)
    BY <2>1, Guarded, GuardType, Accepted, Numbers
  <2>3. TV!Finite(v) => Good(target, TV!DuckCast(source, target, v))
    BY <1>1, <1>2, <1>7, StampCasts, MicrosTyped
  <2> QED
    BY <2>2, <2>3 DEF Right
<1>8. CASE source = "TIMESTAMP_NS" /\ target = "TIME_NS"
  <2>1. TV!cast_guard(source, target) = TV!FiniteAndNanoDayFits
    BY <1>8 DEF TV!cast_guard, TV!NanoStamps
  <2>2. TV!guarded(source, target, v) <=> TV!Finite(v)
    BY <1>3, <2>1, Guarded, GuardType, Accepted, Numbers
  <2>3. ASSUME TV!Finite(v)
        PROVE  Good(target, TV!DuckCast(source, target, v))
    <3>1. v % Nano \in 0..(Nano - 1)
      <4> v \in Int /\ Nano \in Nat /\ Nano >= 1
        BY Numbers
      <4> QED
        BY Division
    <3>2. v % Nano \in TV!Words
      <4> HIDE DEF Nano
      <4> QED
        BY <3>1, Numbers
    <3>3. TV!DuckCast(source, target, v) = TV!To(v % Nano)
      BY <1>3, <1>8, <2>3, OtherCasts DEF TV!TimeOf
    <3>4. "TIME_NS" \in TV!Temporal \ {"TIMETZ"}
      BY DEF TV!Temporal
    <3> QED
      BY <1>8, <3>2, <3>3, <3>4, WordTyped
  <2> QED
    BY <2>2, <2>3 DEF Right
<1>9. CASE \/ source = "TIMESTAMP_NS"
              /\ target \in {"TIMETZ", "TIMESTAMP_S", "TIMESTAMP_MS", "TIMESTAMPTZ_NS"}
           \/ source = "TIMESTAMPTZ_NS"
              /\ target \in {"DATE", "TIME", "TIME_NS", "TIMESTAMP"}
  <2>1. TV!cast_guard(source, target) = None
    BY <1>9 DEF TV!cast_guard, TV!NanoStamps
  <2>2. TV!DuckCast(source, target, v) = TV!Fails
    BY <1>9, NoCasts
  <2> QED
    BY <2>1, <2>2, FailureRight
<1> QED
  BY <1>4, <1>5, <1>6, <1>7, <1>8, <1>9
     DEF TV!Targets, TV!Temporal, TV!Stamps, TV!NanoStamps

LEMMA TimesRight ==
    ASSUME NEW source \in {"TIME", "TIME_NS", "TIMETZ"},
           NEW v \in TV!Payloads(source), TV!temporal_in_range(source, v),
           NEW target \in TV!Targets \ {source}
    PROVE  Right(source, target, v)
<1>1. TV!cast_guard(source, target) = None
  BY DEF TV!cast_guard, TV!NanoStamps
<1>2. "TIME" \in TV!Temporal \ {"TIMETZ"}
  BY DEF TV!Temporal
<1>3. CASE source = "TIME" /\ target = "TIMETZ"
  <2>1. v \in 0..Micro
    BY <1>3 DEF TV!temporal_in_range, TV!NanoStamps, Micro
  <2> QED
    BY <1>1, <1>3, <2>1, UtcTyped, OtherCasts, Unguarded
<1>4. CASE source = "TIMETZ" /\ target = "TIME"
  <2>1. v \in 0..(2 * HalfWord - 1)
    BY <1>4 DEF TV!Payloads
  <2>2. v \div 4 \in TV!Words
    BY <2>1, Numbers
  <2> QED
    BY <1>1, <1>2, <1>4, <2>2, WordTyped, OtherCasts, Unguarded
<1>5. CASE source = "TIME_NS" /\ target = "TIME"
  <2>1. v \in 0..Nano /\ v \in Int /\ v <= HalfWord - 1
    BY <1>5, Numbers DEF TV!temporal_in_range, TV!NanoStamps, Nano
  <2> DEFINE w == v \div Thousand
  <2>2. w \in Int /\ w * Thousand <= v /\ v < w * Thousand + Thousand
    <3>1. w \in Int /\ v % Thousand \in 0..(Thousand - 1) /\ v = w * Thousand + (v % Thousand)
      <4> Thousand \in Nat /\ Thousand >= 1
        BY Numbers
      <4> QED
        BY <2>1, Division
    <3> HIDE DEF w
    <3>2. w * Thousand \in Int
      BY <3>1, Numbers
    <3> QED
      BY <2>1, <3>1, <3>2, Numbers
  <2> HIDE DEF w
  <2>3. w \in TV!Words
    <3>1. w >= 1 => w * 1 <= w * Thousand
      BY <2>2, Numbers
    <3>2. (w + 1) * Thousand = w * Thousand + Thousand /\ w * Thousand \in Int
      BY <2>2, Numbers
    <3>3. w + 1 <= 0 => (w + 1) * Thousand <= 0 * Thousand
      BY <2>2, Numbers, Scaled
    <3> QED
      BY <2>1, <2>2, <3>1, <3>2, <3>3, Numbers
  <2>4. Good("TIME", TV!To(w))
    BY <1>2, <2>3, WordTyped
  <2>5. TV!DuckCast("TIME_NS", "TIME", v) = TV!To(w)
    BY OtherCasts DEF w
  <2> QED
    BY <1>1, <1>5, <2>4, <2>5, Unguarded
<1>6. CASE \/ source = "TIME" /\ target # "TIMETZ"
           \/ source = "TIMETZ" /\ target # "TIME"
           \/ source = "TIME_NS" /\ target # "TIME"
  <2>1. TV!DuckCast(source, target, v) = TV!Fails
    BY <1>6, NoCasts
  <2> QED
    BY <1>1, <2>1, FailureRight
<1> QED
  BY <1>3, <1>4, <1>5, <1>6

LEMMA CastRight ==
    ASSUME NEW source \in TV!Temporal, NEW v \in TV!Payloads(source),
           TV!temporal_in_range(source, v),
           NEW target \in TV!Targets \ {source}
    PROVE  Right(source, target, v)
<1>1. source \in TV!Stamps => v \in TV!Words
  BY DEF TV!Payloads, TV!Stamps, TV!NanoStamps, TV!Temporal
<1>2. CASE source \in {"TIMESTAMP", "TIMESTAMPTZ"}
  BY <1>1, <1>2, TimestampRight DEF TV!Stamps
<1>3. CASE source = "TIMESTAMP_S"
  BY <1>1, <1>3, SecondsRight DEF TV!Stamps
<1>4. CASE source = "TIMESTAMP_MS"
  BY <1>1, <1>4, MillisRight DEF TV!Stamps
<1>5. CASE source \in TV!NanoStamps
  BY <1>1, <1>5, NanosRight DEF TV!Stamps
<1>6. CASE source \in {"TIME", "TIME_NS", "TIMETZ"}
  BY <1>6, TimesRight
<1> QED
  BY <1>2, <1>3, <1>4, <1>5, <1>6 DEF TV!Temporal, TV!Stamps

-----------------------------------------------------------------------------
(* The machine.                                                            *)

Containers == [kind : TV!Kinds, of : SUBSET TV!Leaves]
Values == [type : TV!Leaves, payload : Int \cup {None}, in : Seq(Containers)]

\* A payload is one that SQL, a constructor or an earlier cast makes, and
\* every container knows the type of the leaf in it.
Held(x) ==
    /\ x \in Values
    /\ x.payload = None \/ Typed(x.type, x.payload)
    /\ \A i \in DOMAIN x.in : x.type \in x.in[i].of

ValueInv ==
    /\ value = None \/ Held(value)
    /\ NothingThrows
    /\ RefusesOnlyWhatFails

LEMMA LeafHeld ==
    ASSUME NEW type \in TV!Leaves, NEW v \in Int \cup {None},
           v = None \/ Typed(type, v)
    PROVE  /\ Held(TV!Leaf(type, v))
           /\ TV!Leaf(type, v) # None
<1>1. <<>> \in Seq(Containers)
  OBVIOUS
<1>2. TV!Leaf(type, v) \in Values
  BY <1>1 DEF TV!Leaf, Values
<1>3. TV!Leaf(type, v).in = <<>> /\ TV!Leaf(type, v).type = type
      /\ TV!Leaf(type, v).payload = v
  BY DEF TV!Leaf
<1>4. DOMAIN TV!Leaf(type, v).in = {}
  BY <1>3
<1> QED
  BY <1>2, <1>3, <1>4, ValueAssumption DEF Held, Values, Containers

LEMMA ItemHeld ==
    ASSUME NEW x, Held(x), ~TV!Scalar(x)
    PROVE  /\ Held(TV!Item(x))
           /\ TV!Item(x).type = x.type /\ TV!Item(x).payload = x.payload
<1> DEFINE s == SubSeq(x.in, 1, Len(x.in) - 1)
<1>1. x.in \in Seq(Containers) /\ x.in # <<>> /\ Len(x.in) \in Nat /\ Len(x.in) >= 1
  BY DEF Held, Values, TV!Scalar
<1>2. s \in Seq(Containers) /\ Len(s) = Len(x.in) - 1
      /\ \A i \in 1..(Len(x.in) - 1) : s[i] = x.in[i]
  BY <1>1
<1>3. TV!Item(x) \in Values /\ TV!Item(x).in = s
      /\ TV!Item(x).type = x.type /\ TV!Item(x).payload = x.payload
  BY <1>2 DEF TV!Item, Held, Values
<1> HIDE DEF s
<1>4. \A i \in DOMAIN s : i \in DOMAIN x.in /\ s[i] = x.in[i]
  BY <1>1, <1>2
<1> QED
  BY <1>3, <1>4 DEF Held

LEMMA NestedHeld ==
    ASSUME NEW x, Held(x), NEW c \in Containers, x.type \in c.of
    PROVE  Held([x EXCEPT !.in = Append(x.in, c)])
<1> DEFINE s == Append(x.in, c)
           y == [x EXCEPT !.in = s]
<1>1. x.in \in Seq(Containers) /\ Len(x.in) \in Nat
  BY DEF Held, Values
<1>2. s \in Seq(Containers) /\ Len(s) = Len(x.in) + 1 /\ s[Len(x.in) + 1] = c
      /\ \A i \in 1..Len(x.in) : s[i] = x.in[i]
  BY <1>1
<1> HIDE DEF s
<1>3. y \in Values /\ y.in = s /\ y.type = x.type /\ y.payload = x.payload
  BY <1>2 DEF Held, Values
<1> HIDE DEF y
<1>4. \A i \in DOMAIN s : x.type \in s[i].of
  BY <1>1, <1>2 DEF Held
<1>5. Held(y)
  BY <1>3, <1>4 DEF Held
<1> QED
  BY <1>5 DEF y, s

\* `renderable` lets through what DuckDB renders, and stops what it does not
\* unless the value is in an ARRAY or a UNION.
LEMMA RenderRight ==
    ASSUME NEW x, Held(x)
    PROVE  /\ TV!renderable(x) => TV!DuckRenders(x)
           /\ ~TV!renderable(x) => ~TV!DuckRenders(x) \/ TV!Shut(x) # {}
<1>1. x.type \notin TV!Temporal => TV!Renders(x.type, x.payload)
  BY DEF TV!Renders, TV!Temporal, TV!Stamps
<1>2. ASSUME x.payload # None, x.type \in TV!Temporal
      PROVE  TV!own_payload_in_range(x) <=> TV!Renders(x.type, x.payload)
  <2>1. x.payload \in TV!Payloads(x.type)
    BY <1>2 DEF Held, Typed, TV!Temporal, TV!Stamps, TV!NanoStamps
  <2> QED
    BY <1>2, <2>1, RangeIsRendering DEF TV!own_payload_in_range
<1>3. ASSUME NEW i \in TV!Shut(x), x.in[i].of \cap TV!Temporal = {}
      PROVE  TV!DuckRenders(x)
  <2>1. i \in DOMAIN x.in
    BY DEF TV!Shut
  <2>2. x.type \in x.in[i].of
    BY <2>1 DEF Held
  <2> QED
    BY <1>1, <1>3, <2>2 DEF TV!DuckRenders
<1>4. ASSUME TV!Shut(x) = {}, x.payload # None => TV!own_payload_in_range(x)
      PROVE  TV!DuckRenders(x)
  BY <1>1, <1>2, <1>4 DEF TV!DuckRenders
<1>5. ASSUME TV!Shut(x) = {}, ~TV!renderable(x)
      PROVE  ~TV!DuckRenders(x)
  <2>1. x.payload # None /\ ~TV!own_payload_in_range(x)
    BY <1>5 DEF TV!renderable
  <2>2. x.type \in TV!Temporal
    BY <2>1 DEF TV!own_payload_in_range
  <2> QED
    BY <1>2, <2>1, <2>2 DEF TV!DuckRenders
<1> QED
  BY <1>3, <1>4, <1>5 DEF TV!renderable

LEMMA SameCast ==
    ASSUME NEW type \in TV!Targets, NEW v
    PROVE  TV!DuckCast(type, type, v) = TV!To(v)
BY DEF TV!DuckCast, TV!Targets, TV!Temporal, TV!Stamps, TV!NanoStamps

\* A cast that is asked for comes to a payload of its type or fails.
LEMMA AskedRight ==
    ASSUME NEW x, Held(x), x.payload # None, x.type \in TV!Targets,
           NEW target \in TV!Targets,
           x.type # target => TV!own_payload_in_range(x),
           TV!guarded(x.type, target, x.payload)
    PROVE  Good(target, TV!DuckCast(x.type, target, x.payload))
<1>1. x.payload \in Int /\ Typed(x.type, x.payload)
  BY DEF Held, Values
<1>2. CASE x.type = target
  BY <1>1, <1>2, SameCast DEF Good
<1>3. CASE x.type = "DATE" /\ target # "DATE"
  BY <1>3, NoCasts DEF Good
<1>4. CASE x.type # target /\ x.type # "DATE"
  <2>1. x.type \in TV!Temporal /\ target \in TV!Targets \ {x.type}
    BY <1>4 DEF TV!Targets
  <2>2. x.payload \in TV!Payloads(x.type) /\ TV!temporal_in_range(x.type, x.payload)
    BY <1>1, <1>4, <2>1 DEF Typed, TV!own_payload_in_range
  <2> QED
    BY <2>1, <2>2, CastRight DEF Right
<1> QED
  BY <1>2, <1>3, <1>4

LEMMA ReadRight ==
    ASSUME ValueInv, NEW target \in TV!Targets, TV!Read(target)
    PROVE  ValueInv'
<1> DEFINE asked == TV!CastAsked(value, target)
           cast == TV!DuckCast(value.type, target, value.payload)
           duck == IF asked THEN cast ELSE None
           fits == /\ asked /\ duck[1] = "is"
                   /\ target # "DATE" => TV!temporal_in_range(target, duck[2])
<1>1. /\ value # None /\ Held(value) /\ value' = value
      /\ last' = [call |-> "read", type |-> target, duck |-> duck,
                  answer |-> IF fits THEN duck[2] ELSE None]
  BY DEF TV!Read, TV!Called, ValueInv
<1>2. asked <=> /\ TV!Scalar(value) /\ value.payload # None /\ value.type \in TV!Targets
                /\ value.type # target => TV!own_payload_in_range(value)
                /\ TV!guarded(value.type, target, value.payload)
  BY DEF TV!CastAsked
<1>3. asked => Good(target, cast)
  BY <1>1, <1>2, AskedRight
<1>4. asked => \/ cast = TV!Fails
               \/ \E w \in Int : Typed(target, w) /\ cast = <<"is", w>>
  BY <1>3 DEF Good, TV!To
<1>5. duck # TV!Throws
  <2>1. None # TV!Throws
    BY ValueAssumption
  <2>2. TV!Fails # TV!Throws
    BY DEF TV!Fails, TV!Throws
  <2>3. ASSUME NEW w \in Int
        PROVE  <<"is", w>> # TV!Throws
    BY DEF TV!Throws
  <2> QED
    BY <1>4, <2>1, <2>2, <2>3
<1>6. \A w : Typed(target, w) /\ target # "DATE" =>
               (TV!temporal_in_range(target, w) <=> TV!Renders(target, w))
  BY RangeIsRendering DEF Typed, TV!Targets
<1>7. \A w : target = "DATE" => TV!Renders(target, w)
  BY DEF TV!Renders, TV!Stamps, TV!NanoStamps
<1>8. CASE fits
  <2>1. PICK w \in Int : Typed(target, w) /\ cast = <<"is", w>>
    BY <1>4, <1>8 DEF TV!Fails
  <2>2. duck[2] = w /\ TV!Renders(target, w) /\ w # None
    BY <1>6, <1>7, <1>8, <2>1, ValueAssumption
  <2>3. last'.answer = w /\ last'.type = target /\ last'.call = "read" /\ last'.duck = duck
    BY <1>1, <1>8, <2>2
  <2> QED
    BY <1>1, <1>5, <2>2, <2>3
       DEF ValueInv, NothingThrows, TV!NothingThrows, RefusesOnlyWhatFails,
           TV!RefusesOnlyWhatFails
<1>9. CASE ~fits
  <2>1. last'.answer = None /\ last'.type = target /\ last'.call = "read" /\ last'.duck = duck
    BY <1>1, <1>9
  <2>2. ASSUME TV!Scalar(value), ~TV!Null(value), value.type \in TV!Targets,
               TV!Renders(value.type, value.payload), TV!Finite(value.payload)
        PROVE  cast[1] # "is" \/ ~TV!Renders(target, cast[2])
    <3>1. value.payload # None /\ value.payload \in Int /\ Typed(value.type, value.payload)
      BY <1>1, <2>2 DEF TV!Null, Held, Values
    <3>2. TV!own_payload_in_range(value)
      BY <2>2, <3>1, RangeIsRendering
         DEF TV!own_payload_in_range, Typed, TV!Temporal, TV!Stamps, TV!NanoStamps
    <3>3. CASE asked
      <4>1. CASE cast = TV!Fails
        BY <4>1 DEF TV!Fails
      <4>2. ASSUME NEW w \in Int, Typed(target, w), cast = <<"is", w>>
            PROVE  ~TV!Renders(target, cast[2])
        BY <1>6, <1>9, <3>3, <4>2
      <4> QED
        BY <1>4, <3>3, <4>1, <4>2
    <3>4. CASE ~asked
      <4>1. ~TV!guarded(value.type, target, value.payload)
        BY <1>2, <2>2, <3>1, <3>2, <3>4
      <4>2. value.type \in TV!Temporal /\ target # value.type
        <5>1. ASSUME value.type = "DATE" \/ target = value.type
              PROVE  TV!cast_guard(value.type, target) = None
          BY <2>2, <5>1 DEF TV!cast_guard, TV!Targets, TV!Temporal, TV!Stamps, TV!NanoStamps
        <5> QED
          BY <2>2, <4>1, <5>1, Guarded DEF TV!Targets
      <4>3. /\ value.payload \in TV!Payloads(value.type)
            /\ TV!temporal_in_range(value.type, value.payload)
        BY <3>1, <3>2, <4>2
           DEF Typed, TV!own_payload_in_range, TV!Temporal, TV!Stamps, TV!NanoStamps
      <4>4. cast = TV!Throws
        BY <2>2, <4>1, <4>2, <4>3, CastRight DEF Right
      <4> QED
        BY <4>4 DEF TV!Throws
    <3> QED
      BY <3>3, <3>4
  <2>3. (TV!RefusesOnlyWhatFails)'
    BY <1>1, <2>1, <2>2 DEF TV!RefusesOnlyWhatFails
  <2> QED
    BY <1>1, <1>5, <2>1, <2>3
       DEF ValueInv, NothingThrows, TV!NothingThrows, RefusesOnlyWhatFails
<1> QED
  BY <1>8, <1>9

LEMMA RenderedRight ==
    ASSUME ValueInv, TV!Render
    PROVE  ValueInv'
<1>1. /\ value # None /\ Held(value) /\ value' = value
      /\ last' = [call |-> "render", type |-> "VARCHAR",
                  duck |-> IF TV!renderable(value)
                           THEN (IF TV!DuckRenders(value) THEN TV!To(0) ELSE TV!Throws)
                           ELSE None,
                  answer |-> None]
  BY DEF TV!Render, TV!Called, ValueInv
<1>2. CASE TV!renderable(value)
  <2>1. last'.duck = <<"is", 0>> /\ last'.call = "render"
    BY <1>1, <1>2, RenderRight DEF TV!To
  <2>2. last'.duck # TV!Throws
    BY <2>1 DEF TV!Throws
  <2>3. last'.duck # None
    BY <2>1, ValueAssumption DEF TV!To
  <2> QED
    BY <1>1, <2>1, <2>2, <2>3
       DEF ValueInv, NothingThrows, TV!NothingThrows, RefusesOnlyWhatFails,
           TV!RefusesOnlyWhatFails
<1>3. CASE ~TV!renderable(value)
  <2>1. last'.duck = None /\ last'.call = "render"
    BY <1>1, <1>3
  <2>2. ~TV!DuckRenders(value) \/ TV!Shut(value) # {}
    BY <1>1, <1>3, RenderRight
  <2>3. None # TV!Throws
    BY ValueAssumption
  <2> QED
    BY <1>1, <2>1, <2>2, <2>3
       DEF ValueInv, NothingThrows, TV!NothingThrows, RefusesOnlyWhatFails,
           TV!RefusesOnlyWhatFails
<1> QED
  BY <1>2, <1>3

LEMMA TryCastRight ==
    ASSUME ValueInv, NEW target \in TV!Targets \cup {"VARCHAR"}, TV!TryCast(target)
    PROVE  ValueInv'
<1> DEFINE asked == TV!casts_safely(value, target)
           cast == TV!DuckCast(value.type, target, value.payload)
           duck == IF ~asked THEN None
                   ELSE IF target # "VARCHAR" THEN cast
                   ELSE IF TV!DuckRenders(value) THEN TV!To(0) ELSE TV!Throws
<1>1. /\ value # None /\ ~TV!Null(value) /\ Held(value)
      /\ target = "VARCHAR" \/ (TV!Scalar(value) /\ value.type \in TV!Targets)
      /\ last' = [call |-> "cast", type |-> target, duck |-> duck, answer |-> None]
      /\ value' = IF asked /\ duck[1] = "is" /\ target # "VARCHAR"
                  THEN TV!Leaf(target, duck[2]) ELSE value
  BY DEF TV!TryCast, TV!Called, ValueInv
<1>2. asked => TV!DuckRenders(value)
  <2>1. CASE TV!Is(value, {"ARRAY"})
    <3>1. Held(TV!Item(value)) /\ TV!Item(value).type = value.type
          /\ TV!Item(value).payload = value.payload
      BY <1>1, <2>1, ItemHeld DEF TV!Is
    <3>2. asked => TV!renderable(TV!Item(value))
      BY <2>1 DEF TV!casts_safely
    <3> QED
      BY <3>1, <3>2, RenderRight DEF TV!DuckRenders
  <2>2. CASE ~TV!Is(value, {"ARRAY"})
    BY <1>1, <2>2, RenderRight DEF TV!casts_safely
  <2> QED
    BY <2>1, <2>2
<1>3. ASSUME asked, target # "VARCHAR"
      PROVE  Good(target, cast)
  <2>1. TV!Scalar(value) /\ value.type \in TV!Targets /\ value.payload # None
        /\ target \in TV!Targets
    BY <1>1, <1>3 DEF TV!Null
  <2>2. TV!own_payload_in_range(value)
    <3>1. TV!renderable(value) /\ TV!Shut(value) = {}
      BY <1>3, <2>1 DEF TV!casts_safely, TV!Is, TV!Scalar, TV!Shut
    <3> QED
      BY <2>1, <3>1 DEF TV!renderable
  <2>3. TV!guarded(value.type, target, value.payload)
    <3>1. CASE value.type \in TV!Temporal
      BY <1>3, <2>1, <3>1 DEF TV!casts_safely
    <3>2. CASE value.type = "DATE"
      <4>1. TV!cast_guard(value.type, target) = None
        BY <3>2 DEF TV!cast_guard
      <4> QED
        BY <4>1, Guarded
    <3> QED
      BY <2>1, <3>1, <3>2 DEF TV!Targets
  <2> QED
    BY <1>1, <2>1, <2>2, <2>3, AskedRight
<1>4. None # TV!Throws /\ TV!To(0) # TV!Throws /\ TV!Fails # TV!Throws
  BY ValueAssumption DEF TV!To, TV!Throws, TV!Fails
<1>5. ASSUME NEW w
      PROVE  TV!To(w) # TV!Throws /\ TV!To(w)[2] = w
  BY DEF TV!To, TV!Throws
<1>6. duck # TV!Throws
  BY <1>2, <1>3, <1>4, <1>5 DEF Good
<1>7. Held(value')
  <2>1. CASE asked /\ duck[1] = "is" /\ target # "VARCHAR"
    <3>1. PICK w \in Int : Typed(target, w) /\ cast = TV!To(w)
      BY <1>3, <2>1 DEF Good, TV!Fails
    <3>2. value' = TV!Leaf(target, w)
      BY <1>1, <1>5, <2>1, <3>1
    <3>3. target \in TV!Leaves
      BY <2>1 DEF TV!Leaves
    <3> QED
      BY <3>1, <3>2, <3>3, LeafHeld
  <2>2. CASE ~(asked /\ duck[1] = "is" /\ target # "VARCHAR")
    BY <1>1, <2>2
  <2> QED
    BY <2>1, <2>2
<1>8. last'.call = "cast" /\ last'.duck = duck
  BY <1>1
<1> HIDE DEF duck
<1> QED
  BY <1>6, <1>7, <1>8
     DEF ValueInv, NothingThrows, TV!NothingThrows, RefusesOnlyWhatFails,
         TV!RefusesOnlyWhatFails

LEMMA CreateRight ==
    ASSUME NEW type \in TV!Temporal, NEW v \in TV!Payloads(type), TV!Create(type, v)
    PROVE  ValueInv'
<1>1. /\ value' = IF TV!temporal_in_range(type, v) THEN TV!Leaf(type, v) ELSE None
      /\ last' = [call |-> "create", type |-> type, duck |-> None, answer |-> v]
  BY DEF TV!Create, TV!Called
<1>2. TV!temporal_in_range(type, v) <=> TV!Renders(type, v)
  BY RangeIsRendering
<1>3. v \in Int /\ Typed(type, v) /\ type \in TV!Leaves
  BY Numbers DEF TV!Payloads, Typed, TV!Temporal, TV!Stamps, TV!NanoStamps,
                 TV!Leaves, TV!Targets
<1>4. Held(TV!Leaf(type, v)) /\ TV!Leaf(type, v) # None
  BY <1>3, LeafHeld
<1>5. None # TV!Throws
  BY ValueAssumption
<1> QED
  BY <1>1, <1>2, <1>4, <1>5
     DEF ValueInv, NothingThrows, TV!NothingThrows, RefusesOnlyWhatFails,
         TV!RefusesOnlyWhatFails

\* Where no call is made there is nothing to say but of the value.
LEMMA NoCallRight ==
    ASSUME last' = TV!NoCall, value' = None \/ Held(value')
    PROVE  ValueInv'
<1>1. None # TV!Throws
  BY ValueAssumption
<1>2. last'.call = "none" /\ last'.duck = None
  BY DEF TV!NoCall
<1> QED
  BY <1>1, <1>2
     DEF ValueInv, NothingThrows, TV!NothingThrows, RefusesOnlyWhatFails,
         TV!RefusesOnlyWhatFails

LEMMA NestedRight ==
    ASSUME ValueInv, TV!Nested
    PROVE  ValueInv'
<1> DEFINE of == IF TV!Scalar(value) THEN {value.type} ELSE value.in[Len(value.in)].of
           other == IF "INTEGER" \in of THEN "TIMESTAMP" ELSE "INTEGER"
<1>1. value # None /\ Held(value) /\ last' = TV!NoCall
  BY DEF ValueInv, TV!Nested
<1>2. PICK kind \in TV!Kinds :
         value' = [value EXCEPT !.in =
                     Append(value.in, TV!Container(kind, IF kind = "UNION" THEN of \cup {other}
                                                         ELSE of))]
  BY DEF TV!Nested, Held, Values
<1>3. value.type \in of /\ of \subseteq TV!Leaves
  <2>1. CASE TV!Scalar(value)
    BY <1>1, <2>1 DEF Held, Values
  <2>2. CASE ~TV!Scalar(value)
    <3>1. /\ value.in \in Seq(Containers) /\ Len(value.in) \in DOMAIN value.in
          /\ value.in[Len(value.in)] \in Containers
      BY <1>1, <2>2 DEF Held, Values, TV!Scalar
    <3> QED
      BY <1>1, <2>2, <3>1 DEF Held, Containers
  <2> QED
    BY <2>1, <2>2
<1>4. other \in TV!Leaves
  BY DEF TV!Leaves, TV!Targets, TV!Temporal, TV!Stamps
<1> HIDE DEF of, other
<1> DEFINE all == IF kind = "UNION" THEN of \cup {other} ELSE of
           c == TV!Container(kind, all)
<1>5. value.type \in all /\ all \in SUBSET TV!Leaves
  BY <1>3, <1>4
<1> HIDE DEF all
<1>6. c \in Containers /\ value.type \in c.of
  BY <1>5 DEF TV!Container, Containers
<1>7. value' = [value EXCEPT !.in = Append(value.in, c)]
  BY <1>2 DEF all
<1> HIDE DEF c
<1>8. Held(value')
  BY <1>1, <1>6, <1>7, NestedHeld
<1> QED
  BY <1>1, <1>8, NoCallRight

LEMMA ValueInvNext ==
    ASSUME ValueInv, [TV!Next]_(TV!tVars)
    PROVE  ValueInv'
<1>1. CASE TV!FromSql
  <2>1. PICK type \in TV!Leaves :
           \E v \in TV!Payloads(type) \cup {None} : value' = TV!Leaf(type, v)
    BY <1>1 DEF TV!FromSql
  <2>2. PICK v \in TV!Payloads(type) \cup {None} : value' = TV!Leaf(type, v)
    BY <2>1
  <2>3. v \in Int \cup {None} /\ (v = None \/ Typed(type, v))
    BY Numbers DEF TV!Payloads, Typed
  <2> QED
    BY <1>1, <2>2, <2>3, LeafHeld, NoCallRight DEF TV!FromSql
<1>2. CASE TV!Nested
  BY <1>2, NestedRight
<1>3. CASE TV!Render
  BY <1>3, RenderedRight
<1>4. CASE TV!Items
  <2>1. Held(value) /\ ~TV!Scalar(value)
    BY <1>4 DEF ValueInv, TV!Items, TV!Is
  <2> QED
    BY <1>4, <2>1, ItemHeld, NoCallRight DEF TV!Items
<1>5. CASE TV!Drop
  BY <1>5, NoCallRight DEF TV!Drop
<1>6. ASSUME NEW type \in TV!Temporal, NEW v \in TV!Payloads(type), TV!Create(type, v)
      PROVE  ValueInv'
  BY <1>6, CreateRight
<1>7. ASSUME NEW target \in TV!Targets, TV!Read(target)
      PROVE  ValueInv'
  BY <1>7, ReadRight
<1>8. ASSUME NEW target \in TV!Targets \cup {"VARCHAR"}, TV!TryCast(target)
      PROVE  ValueInv'
  BY <1>8, TryCastRight
<1>9. CASE UNCHANGED TV!tVars
  BY <1>9 DEF TV!tVars, ValueInv, NothingThrows, TV!NothingThrows,
              RefusesOnlyWhatFails, TV!RefusesOnlyWhatFails
<1> QED
  BY <1>1, <1>2, <1>3, <1>4, <1>5, <1>6, <1>7, <1>8, <1>9 DEF TV!Next

LEMMA ValueCorrect == TV!Spec => []ValueInv
<1>1. TV!Init => ValueInv
  <2>1. None # TV!Throws
    BY ValueAssumption
  <2> QED
    BY <2>1 DEF TV!Init, TV!NoCall, ValueInv, NothingThrows, TV!NothingThrows,
                RefusesOnlyWhatFails, TV!RefusesOnlyWhatFails
<1>2. ValueInv /\ [TV!Next]_(TV!tVars) => ValueInv'
  BY ValueInvNext
<1> QED
  BY <1>1, <1>2, PTL DEF TV!Spec

\* For a word, a day and a precision of any size: DuckDB is asked for no cast
\* and no rendering in which it throws or overflows, whatever SQL made, how
\* deep it is nested and what was cast before (value/temporal_checks.rs).
THEOREM ThrowsCorrect == TV!Spec => []NothingThrows
<1>1. ValueInv => NothingThrows
  BY DEF ValueInv
<1> QED
  BY <1>1, ValueCorrect, PTL

\* And what it would convert and render is not refused: a check stops a
\* payload only where DuckDB fails, or cannot render what comes out of it, or
\* where no check can see it (value/temporal_checks.rs).
THEOREM RefusalsCorrect == TV!Spec => []RefusesOnlyWhatFails
<1>1. ValueInv => RefusesOnlyWhatFails
  BY DEF ValueInv
<1> QED
  BY <1>1, ValueCorrect, PTL
=============================================================================
