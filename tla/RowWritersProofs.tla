-------------------------- MODULE RowWritersProofs --------------------------
(***************************************************************************)
(* Proofs about Appender, for every table width, set of rows, nesting      *)
(* depth and engine version; about ListColumn, for every chunk, limit and  *)
(* type of elements; about NestedNulls, for every tree of vectors; and     *)
(* about ArrowImport, for every array, however deep, and all its buffers.  *)
(*                                                                         *)
(* RowInv is inductive.  It strengthens the checked invariants with three  *)
(* facts none of them mentions: a row nobody appended is in no other set,  *)
(* a running closure keeps the wrapper alive, and DuckDB never holds more  *)
(* values than the row has columns.  CountInv then only does arithmetic.   *)
(*                                                                         *)
(* ListInv is inductive for a chunk: the builder stays within what it      *)
(* reserved, and every row that was pushed has its elements below what is  *)
(* written so far.                                                         *)
(*                                                                         *)
(* NullsInv is NullsReachDown without the bounds on rows.  What takes the  *)
(* lemmas is that the recursion of RowsPerRow ends, that its factors       *)
(* multiply along a path, and so that the rows two levels below a row are  *)
(* those below the rows below it.                                          *)
(*                                                                         *)
(* ImportInv says of an array only that its buffers cover its rows.  What  *)
(* takes the lemmas is Right: a node that passes its check in a context is *)
(* converted right by every call that meets the context.  It holds of a    *)
(* node when it holds of its children, one lemma per kind (AllRight).      *)
(***************************************************************************)
EXTENDS RowWriters, FiniteSetTheorems, SequenceTheorems, WellFoundedInduction, TLAPS

FreshIsUnused == fresh \cap (eRows \cup table \cup acked \cup told) = {}

RowInv ==
    /\ TypeOK
    /\ FreshIsUnused
    /\ depth > 0 => Alive
    /\ eColumn <= ColumnCount
    /\ MirrorExact
    /\ PoisonedHoldsHalfRow
    /\ lifecycle = "Closed" => eColumn = 0
    /\ CloseIsHonest
    /\ NothingLostSilently

-----------------------------------------------------------------------------

\* Any set of rows has a size.
LEMMA RowsCounted ==
    ASSUME NEW R \in SUBSET Rows
    PROVE  IsFiniteSet(R) /\ Cardinality(R) \in Nat
<1>1. IsFiniteSet(R)
  BY FS_Subset, AppenderAssumption DEF AppenderAssumption
<1> QED
  BY <1>1, FS_CardinalityType

\* The initial states satisfy RowInv.
LEMMA RowInit == Init => RowInv
<1> USE AppenderAssumption DEF AppenderAssumption
<1> QED
  BY DEF Init, RowInv, TypeOK, FreshIsUnused, MirrorExact, ColumnCount, Alive,
         PoisonedHoldsHalfRow, CloseIsHonest, NothingLostSilently

\* Every step preserves RowInv.
LEMMA RowStep == RowInv /\ [Next]_vars => RowInv'
<1> USE AppenderAssumption DEF AppenderAssumption
<1> SUFFICES ASSUME RowInv, [Next]_vars
             PROVE  RowInv'
  OBVIOUS
<1> USE DEF RowInv, TypeOK, FreshIsUnused, MirrorExact, ColumnCount, Alive,
            PoisonedHoldsHalfRow, CloseIsHonest, NothingLostSilently
<1>1. CASE AppendValue
  BY <1>1 DEF AppendValue, Usable, RecordAppend, historyVars
<1>2. CASE EndRow
  BY <1>2 DEF EndRow, Usable, EndRowCall, EngineEndRow, Buffer, FlushOk,
              FlushErr, KeptAfterFailure, RecordEndRow, PoisonIf, Tells
<1>3. CASE AppendChunk
  BY <1>3, RowsCounted DEF AppendChunk, Usable, Buffer, FlushOk, FlushErr,
              KeptAfterFailure, Tells
<1>4. CASE RowEnter
  BY <1>4 DEF RowEnter, Usable, engineVars, historyVars
<1>5. CASE RowReturnsOk
  <2>1. depth > 0 /\ depth' = depth - 1 /\ eActive' = eActive /\ Alive
    BY <1>5 DEF RowReturnsOk
  <2>2. CASE Usable
    <3>1. PICK r \in fresh, ok \in BOOLEAN : EndRowCall(r, ok, TRUE)
      BY <1>5, <2>2 DEF RowReturnsOk
    <3>2. CASE eColumn = ColumnCount
      BY <2>1, <2>2, <3>1, <3>2 DEF Usable, EndRowCall, EngineEndRow, Buffer,
         FlushOk, FlushErr, KeptAfterFailure, RecordEndRow, PoisonIf, Tells
    <3>3. CASE eColumn # ColumnCount
      BY <2>1, <2>2, <3>1, <3>3 DEF Usable, EndRowCall, EngineEndRow,
         RecordEndRow, PoisonIf, Tells
    <3> QED
      BY <3>2, <3>3
  <2>3. CASE ~Usable
    <3>1. /\ PoisonIf(column)
          /\ Tells(lifecycle' = "Poisoned", eRows)
          /\ UNCHANGED <<column, buffered, eColumn, eRows, table, fresh, acked>>
      BY <1>5, <2>3 DEF RowReturnsOk
    <3> QED
      BY <2>1, <2>3, <3>1 DEF Usable, PoisonIf, Tells
  <2> QED
    BY <2>2, <2>3
<1>6. CASE RowReturnsErr
  BY <1>6 DEF RowReturnsErr, PoisonIf, Tells, engineVars
<1>7. CASE RowUnwinds
  BY <1>7 DEF RowUnwinds, PoisonIf, Tells, engineVars
<1>8. CASE Flush
  BY <1>8 DEF Flush, Usable, FlushOk, FlushErr, KeptAfterFailure, Flushed,
              Tells
<1>9. CASE Close
  BY <1>9 DEF Close, Usable, EngineClose, FlushOk, FlushErr, KeptAfterFailure,
              Flushed, Tells
<1>10. CASE CloseRefused
  BY <1>10 DEF CloseRefused, Tells, wrapperVars, engineVars
<1>11. CASE Clear
  BY <1>11 DEF Clear, Tells
<1>12. CASE AddColumn
  BY <1>12 DEF AddColumn, Usable, FlushOk, FlushErr, KeptAfterFailure,
               Flushed, Tells
<1>13. CASE ClearColumns
  BY <1>13 DEF ClearColumns, Usable, FlushOk, FlushErr, KeptAfterFailure,
               Flushed, Tells
<1>14. CASE Drop
  BY <1>14 DEF Drop, FlushOk, historyVars
<1>15. CASE IntoRaw
  BY <1>15 DEF IntoRaw, engineVars, historyVars
<1>16. CASE UNCHANGED vars
  BY <1>16 DEF vars, wrapperVars, engineVars, historyVars
<1> HIDE DEF RowInv, TypeOK, FreshIsUnused, MirrorExact, ColumnCount, Alive,
             PoisonedHoldsHalfRow, CloseIsHonest, NothingLostSilently
<1> QED
  BY <1>1, <1>2, <1>3, <1>4, <1>5, <1>6, <1>7, <1>8, <1>9, <1>10, <1>11,
     <1>12, <1>13, <1>14, <1>15, <1>16 DEF Next

\* Every reachable state satisfies RowInv.
THEOREM RowInvariant == Spec => []RowInv
<1> QED
  BY RowInit, RowStep, PTL DEF Spec

\* Type correctness: every variable keeps to its type in every behaviour.
THEOREM TypeCorrect == Spec => []TypeOK
<1>1. RowInv => TypeOK
  BY DEF RowInv
<1> QED
  BY RowInvariant, <1>1, PTL

\* The wrapper's column counter is DuckDB's, always.
THEOREM MirrorCorrect == Spec => []MirrorExact
<1>1. RowInv => MirrorExact
  BY DEF RowInv
<1> QED
  BY RowInvariant, <1>1, PTL

\* Poisoned means DuckDB holds a half-written row: no other failure poisons.
THEOREM PoisonCorrect == Spec => []PoisonedHoldsHalfRow
<1>1. RowInv => PoisonedHoldsHalfRow
  BY DEF RowInv
<1> QED
  BY RowInvariant, <1>1, PTL

\* A successful `close` accounts for every row whose append succeeded.
THEOREM CloseCorrect == Spec => []CloseIsHonest
<1>1. RowInv => CloseIsHonest
  BY DEF RowInv
<1> QED
  BY RowInvariant, <1>1, PTL

\* No call loses a row whose append succeeded without an error about it.
THEOREM NoSilentLoss == Spec => []NothingLostSilently
<1>1. RowInv => NothingLostSilently
  BY DEF RowInv
<1> QED
  BY RowInvariant, <1>1, PTL

-----------------------------------------------------------------------------
(* The count of buffered rows.                                             *)

\* A set of rows has at most as many members as one that contains it.
LEMMA CountSubset ==
    ASSUME NEW S \in SUBSET Rows, NEW T \in SUBSET S
    PROVE  Cardinality(T) <= Cardinality(S)
<1> QED
  BY RowsCounted, FS_Subset

\* Adding the rows of T adds at most as many as T has.
LEMMA CountUnion ==
    ASSUME NEW S \in SUBSET Rows, NEW T \in SUBSET Rows
    PROVE  Cardinality(S \cup T) <= Cardinality(S) + Cardinality(T)
<1>1. /\ Cardinality(S \cup T) =
           Cardinality(S) + Cardinality(T) - Cardinality(S \cap T)
  BY RowsCounted, FS_Union
<1>2. Cardinality(S) \in Nat /\ Cardinality(T) \in Nat
      /\ Cardinality(S \cap T) \in Nat
  BY RowsCounted
<1> QED
  BY <1>1, <1>2

\* A step after which no more acknowledged rows are buffered, and that does
\* not lower the count, or that empties the buffer, keeps the count an upper
\* bound.
LEMMA CountKept ==
    ASSUME RowInv, RowInv', LossCountCoversAcked,
           \/ eRows' = {}
           \/ /\ Alive
              /\ eRows' \cap acked' \subseteq eRows \cap acked
              /\ buffered' >= buffered
    PROVE  LossCountCoversAcked'
<1>1. CASE eRows' = {}
  <2>1. Cardinality((eRows \cap acked)') = 0
    BY <1>1, FS_EmptySet
  <2> QED
    BY <2>1 DEF RowInv, TypeOK, LossCountCoversAcked
<1>2. CASE /\ Alive
           /\ eRows' \cap acked' \subseteq eRows \cap acked
           /\ buffered' >= buffered
  <2>1. Cardinality((eRows \cap acked)') <= Cardinality(eRows \cap acked)
    BY <1>2, CountSubset DEF RowInv, TypeOK
  <2>2. /\ Cardinality((eRows \cap acked)') \in Nat
        /\ Cardinality(eRows \cap acked) \in Nat
    BY RowsCounted DEF RowInv, TypeOK
  <2> QED
    BY <1>2, <2>1, <2>2 DEF RowInv, TypeOK, LossCountCoversAcked
<1> QED
  BY <1>1, <1>2

\* Likewise for a step that adds `rows` to both.
LEMMA CountRaised ==
    ASSUME RowInv, RowInv', LossCountCoversAcked, Alive,
           NEW rows \in SUBSET Rows,
           eRows' \cap acked' \subseteq (eRows \cap acked) \cup rows,
           buffered' = buffered + Cardinality(rows)
    PROVE  LossCountCoversAcked'
<1>1. Cardinality((eRows \cap acked)') <= Cardinality((eRows \cap acked) \cup rows)
  BY CountSubset DEF RowInv, TypeOK
<1>2. Cardinality((eRows \cap acked) \cup rows)
        <= Cardinality(eRows \cap acked) + Cardinality(rows)
  BY CountUnion DEF RowInv, TypeOK
<1>3. /\ Cardinality((eRows \cap acked)') \in Nat
      /\ Cardinality(eRows \cap acked) \in Nat
      /\ Cardinality((eRows \cap acked) \cup rows) \in Nat
      /\ Cardinality(rows) \in Nat
  BY RowsCounted DEF RowInv, TypeOK
<1> QED
  BY <1>1, <1>2, <1>3 DEF RowInv, TypeOK, LossCountCoversAcked

\* Ending a row counts it exactly when DuckDB holds it.
LEMMA CountEndRow ==
    ASSUME RowInv, RowInv', LossCountCoversAcked, Usable,
           NEW r \in fresh, NEW ok \in BOOLEAN, NEW inRow \in BOOLEAN,
           EndRowCall(r, ok, inRow)
    PROVE  LossCountCoversAcked'
<1> USE DEF EndRowCall, EngineEndRow, RecordEndRow
<1>1. Alive /\ column = eColumn
  BY DEF Usable, Alive, RowInv, MirrorExact
<1>2. CASE eColumn = ColumnCount
  <2>1. Cardinality({r}) = 1
    BY FS_Singleton
  <2>2. buffered' = buffered + Cardinality({r})
    BY <1>1, <1>2, <2>1
  <2>3. eRows' \cap acked' \subseteq (eRows \cap acked) \cup {r}
    BY <1>2 DEF Buffer, FlushOk, FlushErr, KeptAfterFailure
  <2> QED
    BY <1>1, <2>2, <2>3, CountRaised DEF RowInv, TypeOK
<1>3. CASE eColumn # ColumnCount
  BY <1>1, <1>3, CountKept DEF RowInv, TypeOK
<1> QED
  BY <1>2, <1>3

\* Every step keeps the count an upper bound.
LEMMA CountStep ==
    RowInv /\ RowInv' /\ LossCountCoversAcked /\ [Next]_vars
        => LossCountCoversAcked'
<1> SUFFICES ASSUME RowInv, RowInv', LossCountCoversAcked, [Next]_vars
             PROVE  LossCountCoversAcked'
  OBVIOUS
<1> USE DEF RowInv, TypeOK
<1>1. CASE EndRow
  BY <1>1, CountEndRow DEF EndRow
<1>2. CASE RowReturnsOk
  <2>1. CASE Usable
    BY <1>2, <2>1, CountEndRow DEF RowReturnsOk
  <2>2. CASE ~Usable
    <3>1. Alive /\ UNCHANGED <<buffered, eRows, acked>>
      BY <1>2, <2>2 DEF RowReturnsOk
    <3> QED
      BY <3>1, CountKept
  <2> QED
    BY <2>1, <2>2
<1>3. CASE AppendChunk
  <2>1. PICK chunk \in SUBSET fresh, ok \in BOOLEAN :
           /\ Buffer(eColumn, eRows \cup chunk, ok)
           /\ buffered' = IF ok THEN buffered + Cardinality(chunk) ELSE buffered
           /\ acked' = IF ok THEN acked \cup chunk ELSE acked
    BY <1>3 DEF AppendChunk
  <2>2. Alive
    BY <1>3 DEF AppendChunk, Usable, Alive
  <2>3. eRows' \subseteq eRows \cup chunk
    BY <2>1 DEF Buffer, FlushOk, FlushErr, KeptAfterFailure
  <2>4. CASE ok
    BY <2>1, <2>2, <2>3, <2>4, CountRaised
  <2>5. CASE ~ok
    <3>1. eRows' \cap acked' \subseteq eRows \cap acked
      BY <2>1, <2>3, <2>5 DEF FreshIsUnused
    <3> QED
      BY <2>1, <2>2, <2>5, <3>1, CountKept
  <2> QED
    BY <2>4, <2>5
<1>4. CASE Flush \/ Close \/ AddColumn \/ ClearColumns
  <2>1. Alive /\ acked' = acked
    BY <1>4 DEF Flush, Close, AddColumn, ClearColumns, Usable, Alive
  <2>2. eRows' = {} \/ (eRows' \subseteq eRows /\ buffered' = buffered)
    BY <1>4 DEF Flush, Close, AddColumn, ClearColumns, Usable, EngineClose,
                FlushOk, FlushErr, KeptAfterFailure, Flushed, MirrorExact, Alive
  <2> QED
    BY <2>1, <2>2, CountKept
<1>5. CASE Clear \/ Drop
  <2>1. CASE Clear
    BY <2>1, CountKept DEF Clear
  <2>2. CASE Drop
    BY <2>2, CountKept DEF Drop, FlushOk
  <2> QED
    BY <1>5, <2>1, <2>2
<1>6. CASE AppendValue \/ RowEnter \/ RowReturnsErr \/ RowUnwinds \/ CloseRefused
           \/ IntoRaw \/ UNCHANGED vars
  <2>1. UNCHANGED <<eRows, acked, buffered>> /\ (~Alive => ~Alive')
    BY <1>6 DEF AppendValue, RowEnter, RowReturnsErr, RowUnwinds, CloseRefused,
         IntoRaw, Usable, Alive, PoisonIf, vars, wrapperVars, engineVars,
         historyVars
  <2> QED
    BY <2>1 DEF LossCountCoversAcked
<1> HIDE DEF RowInv, TypeOK
<1> QED
  BY <1>1, <1>2, <1>3, <1>4, <1>5, <1>6 DEF Next

\* The "up to N rows" an appender reports never understates the loss of rows
\* whose append succeeded.
THEOREM LossCountCorrect == Spec => []LossCountCoversAcked
<1>1. Init => LossCountCoversAcked
  <2> SUFFICES ASSUME Init PROVE LossCountCoversAcked
    OBVIOUS
  <2>1. eRows \cap acked = {} /\ buffered = 0
    BY DEF Init
  <2> QED
    BY <2>1, FS_EmptySet DEF LossCountCoversAcked
<1> QED
  BY <1>1, RowInvariant, CountStep, PTL DEF Spec

-----------------------------------------------------------------------------
(* Action properties.                                                      *)

\* No step of a poisoned or closed appender writes to the table.
THEOREM InertCorrect == Spec => InertWritesNothing
<1>1. RowInv /\ [Next]_vars
        => [(lifecycle \in {"Poisoned", "Closed"}) => table' = table]_vars
  <2> SUFFICES ASSUME RowInv, Next, lifecycle \in {"Poisoned", "Closed"}
               PROVE  table' = table
    BY DEF vars, engineVars
  <2>1. CASE Drop
    BY <2>1 DEF Drop, FlushOk, RowInv, PoisonedHoldsHalfRow, CloseIsHonest,
                TypeOK
  <2>2. CASE RowReturnsOk
    BY <2>2 DEF RowReturnsOk, Usable
  <2>3. CASE ~Drop /\ ~RowReturnsOk
    BY <2>3 DEF Next, AppendValue, EndRow, AppendChunk, RowEnter,
         RowReturnsErr, RowUnwinds, Flush, Close, CloseRefused, Clear,
         AddColumn, ClearColumns, IntoRaw, Usable, engineVars
  <2> QED
    BY <2>1, <2>2, <2>3
<1> QED
  BY <1>1, RowInvariant, PTL DEF Spec, InertWritesNothing

\* A returning, failing or unwinding `row` leaves no half-written row behind
\* an appender that still accepts calls.
THEOREM HalfRowCorrect == Spec => NoHalfRowEscapes
<1>1. RowInv /\ [Next]_vars
        => [depth' < depth => eColumn' = 0 \/ lifecycle' = "Poisoned"]_vars
  <2> SUFFICES ASSUME RowInv, Next, depth' < depth
               PROVE  eColumn' = 0 \/ lifecycle' = "Poisoned"
    BY DEF vars
  <2>1. RowReturnsOk \/ RowReturnsErr \/ RowUnwinds
    <3>1. depth \in Nat
      BY AppenderAssumption DEF AppenderAssumption, RowInv, TypeOK
    <3>2. ~RowEnter
      BY <3>1 DEF RowEnter
    <3>3. depth' # depth
      BY <3>1
    <3>4. ~(AppendValue \/ EndRow \/ AppendChunk)
      BY <3>3 DEF AppendValue, EndRow, AppendChunk
    <3>5. ~(Flush \/ Close \/ CloseRefused \/ Clear)
      BY <3>3 DEF Flush, Close, CloseRefused, Clear, wrapperVars
    <3>6. ~(AddColumn \/ ClearColumns \/ Drop \/ IntoRaw)
      BY <3>3 DEF AddColumn, ClearColumns, Drop, IntoRaw
    <3> QED
      BY <3>2, <3>4, <3>5, <3>6 DEF Next
  <2>2. Alive /\ column = eColumn
    BY <2>1 DEF RowInv, TypeOK, MirrorExact, RowReturnsOk, RowReturnsErr,
                RowUnwinds
  <2>3. CASE RowReturnsErr \/ RowUnwinds
    BY <2>2, <2>3 DEF RowReturnsErr, RowUnwinds, PoisonIf, engineVars
  <2>4. CASE RowReturnsOk
    <3>1. CASE Usable
      BY <2>2, <2>4, <3>1 DEF RowReturnsOk, EndRowCall, EngineEndRow, PoisonIf,
                              RecordEndRow
    <3>2. CASE ~Usable
      BY <2>2, <2>4, <3>2 DEF RowReturnsOk, PoisonIf
    <3> QED
      BY <3>1, <3>2
  <2> QED
    BY <2>1, <2>3, <2>4
<1> QED
  BY <1>1, RowInvariant, PTL DEF Spec, NoHalfRowEscapes

-----------------------------------------------------------------------------
(* Refinement.                                                             *)

\* Ending a row accepts it, or is a failure the caller is told about.
LEMMA SinkEndRow ==
    ASSUME RowInv, RowInv', Usable, Alive',
           NEW r \in fresh, NEW ok \in BOOLEAN, NEW inRow \in BOOLEAN,
           EndRowCall(r, ok, inRow)
    PROVE  [Sink!Next]_(Sink!sinkVars)
<1> USE DEF RowInv, TypeOK, FreshIsUnused, SinkState
<1>1. lifecycle = "Open" /\ lifecycle' \in {"Open", "Poisoned"}
  BY DEF Usable, EndRowCall, PoisonIf
<1>2. SinkState = "open" /\ SinkState' = "open"
  BY <1>1
<1>3. CASE eColumn = ColumnCount /\ ok
  <2>1. acked' = acked \cup {r} /\ told' = told
    BY <1>3 DEF EndRowCall, Tells
  <2>2. \/ eRows' = eRows \cup {r} /\ table' = table
        \/ eRows' = {} /\ table' = table \cup eRows \cup {r}
    BY <1>3 DEF EndRowCall, EngineEndRow, Buffer, FlushOk
  <2>3. {r} \in SUBSET Rows
    OBVIOUS
  <2>4. Sink!Accept({r})
    BY <1>2, <2>1, <2>2 DEF Sink!Accept
  <2> QED
    BY <2>3, <2>4 DEF Sink!Next
<1>4. CASE eColumn = ColumnCount /\ ~ok
  <2>1. acked' = acked /\ told' = told \cup ((eRows \cup {r}) \ fresh')
        /\ fresh' = fresh \ {r}
    BY <1>4 DEF EndRowCall, EngineEndRow, Tells
  <2>2. table' = table /\ eRows' \in {eRows \cup {r}, {}}
    BY <1>4 DEF EndRowCall, EngineEndRow, Buffer, FlushErr, KeptAfterFailure
  <2>3. Sink!Fail
    BY <1>2, <2>1, <2>2 DEF Sink!Fail
  <2> QED
    BY <2>3 DEF Sink!Next
<1>5. CASE eColumn # ColumnCount
  <2>1. acked' = acked /\ eRows' = eRows /\ table' = table /\ fresh' = fresh
    BY <1>5 DEF EndRowCall, EngineEndRow
  <2>2. told' = told \/ told' = told \cup ((eRows \cup {r}) \ fresh)
    BY <2>1 DEF EndRowCall, Tells
  <2>3. Sink!Fail \/ UNCHANGED Sink!sinkVars
    BY <1>2, <2>1, <2>2 DEF Sink!Fail, Sink!sinkVars
  <2> QED
    BY <2>3 DEF Sink!Next
<1> QED
  BY <1>3, <1>4, <1>5

\* Every step of the appender is a step of RowSink, or leaves it alone.
LEMMA SinkStep == RowInv /\ RowInv' /\ [Next]_vars => [Sink!Next]_(Sink!sinkVars)
<1> SUFFICES ASSUME RowInv, RowInv', [Next]_vars
             PROVE  [Sink!Next]_(Sink!sinkVars)
  OBVIOUS
<1> USE DEF RowInv, TypeOK, FreshIsUnused, SinkState
<1>1. CASE EndRow
  BY <1>1, SinkEndRow DEF EndRow, Usable, EndRowCall, PoisonIf, Alive
<1>2. CASE RowReturnsOk
  <2>1. CASE Usable
    BY <1>2, <2>1, SinkEndRow
       DEF RowReturnsOk, Usable, EndRowCall, PoisonIf, Alive
  <2>2. CASE ~Usable
    <3>1. /\ UNCHANGED <<acked, eRows, table>>
          /\ lifecycle \in {"Poisoned", "Closed"}
          /\ PoisonIf(column) /\ Tells(lifecycle' = "Poisoned", eRows)
      BY <1>2, <2>2 DEF RowReturnsOk, Usable, Alive
    <3>2. Sink!Fail \/ UNCHANGED Sink!sinkVars
      BY <3>1 DEF PoisonIf, Tells, Sink!Fail, Sink!sinkVars, CloseIsHonest,
                  MirrorExact, Alive
    <3> QED
      BY <3>2 DEF Sink!Next
  <2> QED
    BY <2>1, <2>2
<1>3. CASE AppendChunk
  <2>1. PICK chunk \in SUBSET fresh, ok \in BOOLEAN :
           /\ Buffer(eColumn, eRows \cup chunk, ok)
           /\ acked' = IF ok THEN acked \cup chunk ELSE acked
           /\ Tells(~ok, eRows \cup chunk)
    BY <1>3 DEF AppendChunk
  <2>2. SinkState = "open" /\ SinkState' = "open"
    BY <1>3 DEF AppendChunk, Usable
  <2>3. CASE ok
    <3>1. \/ eRows' = eRows \cup chunk /\ table' = table
          \/ eRows' = {} /\ table' = table \cup eRows \cup chunk
      BY <2>1, <2>3 DEF Buffer, FlushOk
    <3>2. Sink!Accept(chunk)
      BY <2>1, <2>2, <2>3, <3>1 DEF Sink!Accept, Tells
    <3> QED
      BY <3>2 DEF Sink!Next
  <2>4. CASE ~ok
    <3>1. table' = table /\ eRows' \in {eRows \cup chunk, {}}
      BY <2>1, <2>4 DEF Buffer, FlushErr, KeptAfterFailure
    <3>2. Sink!Fail
      BY <2>1, <2>2, <2>4, <3>1 DEF Sink!Fail, Tells
    <3> QED
      BY <3>2 DEF Sink!Next
  <2> QED
    BY <2>3, <2>4
<1>4. CASE Flush \/ AddColumn \/ ClearColumns
  <2>1. SinkState = "open" /\ SinkState' = "open" /\ acked' = acked
    BY <1>4 DEF Flush, AddColumn, ClearColumns, Usable
  <2>2. \/ told' = told /\ FlushOk(eColumn, eRows)
        \/ told' = told \cup eRows /\ FlushErr(eColumn, eRows)
    BY <1>4 DEF Flush, AddColumn, ClearColumns, Tells
  <2>3. Sink!Accept({}) \/ Sink!Fail
    BY <2>1, <2>2 DEF FlushOk, FlushErr, KeptAfterFailure, Sink!Accept, Sink!Fail
  <2> QED
    BY <2>3 DEF Sink!Next
<1>5. CASE Close
  <2>1. eColumn = 0 /\ lifecycle = "Open" /\ acked' = acked
    BY <1>5 DEF Close, Usable, MirrorExact, Alive
  <2>2. \/ /\ FlushOk(eColumn, eRows)
           /\ told' = told /\ lifecycle' = "Closed"
        \/ /\ FlushErr(eColumn, eRows)
           /\ told' = told \cup eRows /\ lifecycle' = lifecycle
    BY <1>5, <2>1 DEF Close, EngineClose, Tells
  <2>3. Sink!Close \/ Sink!Fail
    BY <2>1, <2>2 DEF FlushOk, FlushErr, KeptAfterFailure, Sink!Close, Sink!Fail
  <2> QED
    BY <2>3 DEF Sink!Next
<1>6. CASE RowReturnsErr \/ RowUnwinds \/ CloseRefused
  <2>1. /\ UNCHANGED <<acked, eRows, table>>
        /\ lifecycle' \in {lifecycle, "Poisoned"} /\ lifecycle # "Gone"
        /\ told' \in {told, told \cup eRows}
    BY <1>6 DEF RowReturnsErr, RowUnwinds, CloseRefused, PoisonIf, Tells, Alive,
                wrapperVars, engineVars
  <2>2. lifecycle = "Closed" => eRows = {} /\ lifecycle' = "Closed"
    BY <1>6 DEF RowReturnsErr, RowUnwinds, CloseRefused, PoisonIf, Alive,
                CloseIsHonest, MirrorExact
  <2>3. Sink!Fail \/ UNCHANGED Sink!sinkVars
    BY <2>1, <2>2 DEF Sink!Fail, Sink!sinkVars
  <2> QED
    BY <2>3 DEF Sink!Next
<1>7. CASE Clear
  <2>1. /\ UNCHANGED <<acked, table>>
        /\ eRows' = {} /\ told' = told \cup eRows
        /\ lifecycle' = IF lifecycle = "Poisoned" THEN "Open" ELSE lifecycle
        /\ lifecycle # "Gone"
    BY <1>7 DEF Clear, Tells, Alive
  <2>2. Sink!Fail \/ UNCHANGED Sink!sinkVars
    BY <2>1 DEF Sink!Fail, Sink!sinkVars, CloseIsHonest
  <2> QED
    BY <2>2 DEF Sink!Next
<1>8. CASE Drop \/ IntoRaw
  <2>1. /\ UNCHANGED <<acked, told>>
        /\ lifecycle # "Gone" /\ lifecycle' = "Gone"
        /\ \/ UNCHANGED <<eRows, table>>
           \/ eRows' = {} /\ table' \in {table, table \cup eRows}
    BY <1>8 DEF Drop, IntoRaw, FlushOk, Alive, engineVars, historyVars
  <2>2. Sink!LetGo
    BY <2>1 DEF Sink!LetGo
  <2> QED
    BY <2>2 DEF Sink!Next
<1>9. CASE AppendValue \/ RowEnter \/ UNCHANGED vars
  <2>1. UNCHANGED <<lifecycle, acked, eRows, table, told>>
    BY <1>9 DEF AppendValue, RowEnter, vars, wrapperVars, engineVars,
                historyVars
  <2> QED
    BY <2>1 DEF Sink!sinkVars
<1> HIDE DEF RowInv, TypeOK, FreshIsUnused, SinkState
<1> QED
  BY <1>1, <1>2, <1>3, <1>4, <1>5, <1>6, <1>7, <1>8, <1>9 DEF Next

\* The appender keeps the promise RowSink states.
THEOREM AppenderRefines == Spec => ImplementsRowSink
<1>1. Init => Sink!Init
  BY DEF Init, Sink!Init, SinkState
<1> QED
  BY <1>1, RowInvariant, SinkStep, PTL DEF Spec, ImplementsRowSink, Sink!Spec

-----------------------------------------------------------------------------
(* List columns: the arithmetic of capacities.                             *)

\* There is a least power of two above any size.
LEMMA LeastPower ==
    ASSUME NEW n \in 0..MAX_LIST_CHILD_CAPACITY
    PROVE  LET p == LC!checked_next_power_of_two(n) IN
           /\ p \in PowersOfTwo /\ p \in Nat /\ p >= n
           /\ \A q \in PowersOfTwo : q >= n => p <= q
<1> DEFINE above == {p \in PowersOfTwo : p >= n}
<1>0. \E p \in PowersOfTwo : n <= p
  BY PowersAssumption
<1>1. above \subseteq Nat /\ above # {} /\ n \in Nat
  <2>1. PICK r \in PowersOfTwo : n <= r
    BY <1>0
  <2>2. n \in Nat /\ r \in Nat /\ r >= n
    BY <2>1, SizeAssumption, PowersAssumption
  <2>3. above \subseteq Nat
    BY PowersAssumption
  <2> QED
    BY <2>2, <2>3
<1>2. PICK p \in above : \A q \in above : ~ <<q, p>> \in OpToRel(<, Nat)
  BY <1>1, NatLessThanWellFounded, WFMin
<1>3. \A q \in above : p <= q
  <2> SUFFICES ASSUME NEW q \in above PROVE p <= q
    OBVIOUS
  <2>1. q \in Nat /\ p \in Nat
    BY <1>1
  <2>2. ~ (q < p)
    BY <1>2, <2>1 DEF OpToRel
  <2> QED
    BY <2>1, <2>2
<1>4. \E r \in PowersOfTwo : r >= n /\ \A q \in PowersOfTwo : q >= n => r <= q
  BY <1>3
<1> QED
  BY <1>4, PowersAssumption DEF LC!checked_next_power_of_two

LEMMA PowerBelow ==
    ASSUME NEW n \in 1..MAX_LIST_CHILD_CAPACITY
    PROVE  LC!PowerWithin(n) \in PowersOfTwo /\ LC!PowerWithin(n) <= n
<1> DEFINE p == LC!checked_next_power_of_two(n)
<1>1. /\ p \in PowersOfTwo /\ p \in Nat /\ p >= n
      /\ \A q \in PowersOfTwo : q >= n => p <= q
  BY LeastPower, SizeAssumption
<1>2. LC!PowerWithin(n) = IF p = n THEN p ELSE p \div 2
  BY DEF LC!PowerWithin
<1> HIDE DEF p
<1>3. CASE p = n
  BY <1>1, <1>2, <1>3
<1>4. CASE p # n
  <2>1. p # 1 /\ p \div 2 \in PowersOfTwo /\ p \div 2 < p /\ p \div 2 \in Nat
    BY <1>1, <1>4, PowersAssumption, SizeAssumption
  <2>2. p \div 2 <= n
    BY <1>1, <2>1, SizeAssumption
  <2> QED
    BY <1>2, <1>4, <2>1, <2>2
<1> QED
  BY <1>3, <1>4

LEMMA Quotient ==
    ASSUME NEW c \in Nat, NEW d \in Nat \ {0}
    PROVE  c \div d \in Nat /\ (c \div d) * d <= c /\ c \div d <= c
OBVIOUS

LEMMA Monotone ==
    ASSUME NEW a \in Nat, NEW b \in Nat, NEW v \in Nat, NEW w \in Nat,
           a <= b, v <= w
    PROVE  a * v <= b * w
<1>1. a * v <= a * w
  OBVIOUS
<1>2. a * w <= b * w
  OBVIOUS
<1>3. a * v \in Nat /\ a * w \in Nat /\ b * w \in Nat
  OBVIOUS
<1> QED
  BY <1>1, <1>2, <1>3

\* What the builder may reserve, DuckDB does not throw over (`capacity_within`
\* and `Vector::Resize`).
LEMMA CapacityRight ==
    ASSUME type \in ElementTypes
    PROVE  /\ LC!max_child_capacity \in 0..MAX_LIST_CHILD_CAPACITY
           /\ \A n \in 1..LC!max_child_capacity : ~LC!Throws(n)
<1> DEFINE ceiling == IF AllocationBytes < MAX_LIST_CHILD_CAPACITY
                      THEN AllocationBytes ELSE MAX_LIST_CHILD_CAPACITY
           unit == IF type.bytes = 0 THEN 1 ELSE type.bytes
           fitting == ceiling \div unit
           most == LC!max_child_capacity
<1>1. ceiling \in Nat /\ ceiling <= MAX_LIST_CHILD_CAPACITY
      /\ ceiling <= AllocationBytes
  BY SizeAssumption
<1>2. CASE type.bytes = None \/ fitting = 0
  <2>1. most = 0
    BY <1>2, SizeAssumption DEF LC!max_child_capacity, LC!capacity_within
  <2> QED
    BY <2>1, SizeAssumption
<1>3. CASE type.bytes # None /\ fitting # 0
  <2> DEFINE power == LC!PowerWithin(fitting)
  <2>1. type.bytes \in Nat /\ unit \in Nat \ {0} /\ type.bytes <= unit
    BY <1>3, ElementAssumption
  <2>2. fitting \in 1..MAX_LIST_CHILD_CAPACITY /\ fitting * unit <= ceiling
    <3> HIDE DEF ceiling, unit
    <3>1. fitting \in Nat /\ fitting * unit <= ceiling /\ fitting <= ceiling
      BY <1>1, <2>1, Quotient
    <3> QED
      BY <1>1, <1>3, <3>1, SizeAssumption
  <2>3. power \in PowersOfTwo /\ power \in Nat /\ power <= fitting
    BY <2>2, PowerBelow, PowersAssumption
  <2>4. most = power
    <3>1. LC!capacity_within(type.bytes, AllocationBytes) = power
      BY <1>3 DEF LC!capacity_within
    <3> QED
      BY <2>2, <2>3, <3>1, SizeAssumption DEF LC!max_child_capacity
  <2>5. ASSUME NEW n \in 1..power, LC!Throws(n)
        PROVE  FALSE
    <3> DEFINE room == LC!checked_next_power_of_two(n)
    <3>1. n \in 0..MAX_LIST_CHILD_CAPACITY /\ n <= power
      BY <2>2, <2>3, SizeAssumption
    <3>2. room \in Nat /\ room <= power
      BY <2>3, <3>1, LeastPower
    <3> HIDE DEF room
    <3>3. PICK w \in type.widths :
            room * w > MAX_LIST_CHILD_CAPACITY \/ room * w > AllocationBytes
      BY <2>5 DEF LC!Throws, room
    <3>4. w \in Nat /\ w <= unit
      BY <1>3, <2>1, ElementAssumption
    <3> HIDE DEF ceiling, unit, power
    <3>5. room <= fitting /\ fitting \in Nat /\ unit \in Nat
      BY <2>1, <2>2, <2>3, <3>2, SizeAssumption
    <3> HIDE DEF fitting
    <3>6. room * w <= fitting * unit
      BY <3>2, <3>4, <3>5, Monotone
    <3>7. room * w \in Nat /\ fitting * unit \in Nat
      BY <3>2, <3>4, <3>5
    <3> QED
      BY <1>1, <2>2, <3>3, <3>6, <3>7, SizeAssumption
  <2> HIDE DEF power, most
  <2>6. most \in 0..MAX_LIST_CHILD_CAPACITY
    BY <2>2, <2>3, <2>4, SizeAssumption
  <2>7. \A n \in 1..most : ~LC!Throws(n)
    BY <2>4, <2>5
  <2> QED
    BY <2>6, <2>7 DEF most
<1> QED
  BY <1>2, <1>3

-----------------------------------------------------------------------------
(* The invariant of a chunk.                                               *)

Places == 0..(MAX_LIST_CHILD_CAPACITY - 1)
Elements == {LC!Stale} \cup {LC!Of(r, i) : r \in LC!RowIndices, i \in Nat}
Entries == [offset : Nat, length : Nat, null : BOOLEAN]
Children == [of : [Places -> Elements], room : Nat, size : Nat, moved : Nat]

ListType ==
    /\ type \in ElementTypes
    /\ row_count \in 0..ColumnCapacity
    /\ claimed = 0..(row_count - 1)
    /\ said \in [LC!RowIndices -> Nat \cup {None}]
    /\ refused \subseteq LC!RowIndices
    /\ list \in Builders \cup {None}
    /\ entries \in [LC!RowIndices -> Entries]
    /\ child \in Children
    /\ outcome \in {"running", "published", "error"}
    /\ published \in Nat

\* A builder stays within its limit, which is within DuckDB's, and within what
\* it reserved, and its cached writer is newer than the child's last move.
BuilderRight(b, c) ==
    /\ b.limit <= b.ceiling /\ b.ceiling <= MAX_LIST_CHILD_CAPACITY
    /\ b.started =>
          /\ b.ceiling <= LC!max_child_capacity
          /\ b.written <= b.reserved /\ b.reserved <= c.room
          /\ b.written <= MAX_LIST_CHILD_CAPACITY
    /\ b.writer # None => b.started /\ b.writer = c.moved

RoomRight ==
    /\ child.size <= child.room /\ child.size <= MAX_LIST_CHILD_CAPACITY
    /\ list # None => BuilderRight(list, child)

\* The elements of the rows so far.
SoFar == IF list # None /\ list.started THEN list.written ELSE child.size

\* Row r of n elements has them, in an entry below m.
Whole(r, entry, n, of, m) ==
    /\ entry.offset + entry.length <= m
    /\ entry.length = n
    /\ \A i \in 0..(entry.length - 1) : of[entry.offset + i] = LC!Of(r, i)

RowsRight ==
    outcome # "error" =>
        \A r \in LC!RowIndices : said[r] # None =>
            Whole(r, entries[r], said[r], child.of, SoFar)

\* The NULL rows are those that were refused, whatever they hold now.
NullRows == \A r \in LC!RowIndices : entries[r].null <=> r \in refused

Publishing ==
    outcome = "published" =>
        /\ list = None /\ published <= row_count
        /\ \A r \in 0..(published - 1) : said[r] # None

ListInv == ListType /\ RoomRight /\ RowsRight /\ NullRows /\ Publishing

LEMMA ListInit == LC!Init => ListInv
<1> SUFFICES ASSUME LC!Init PROVE ListInv
  OBVIOUS
<1> USE DEF LC!Init
<1>1. ListType
  <2>1. child \in Children
    BY SizeAssumption DEF Children, Elements, Places
  <2>2. entries \in [LC!RowIndices -> Entries]
    BY DEF LC!StaleEntry, Entries
  <2> QED
    BY <2>1, <2>2, SizeAssumption DEF ListType
<1>2. RoomRight
  BY SizeAssumption DEF RoomRight
<1>3. RowsRight /\ Publishing
  BY DEF RowsRight, Publishing
<1>4. NullRows
  BY DEF NullRows, LC!StaleEntry
<1> QED
  BY <1>1, <1>2, <1>3, <1>4 DEF ListInv

-----------------------------------------------------------------------------
(* The builder.                                                            *)

LEMMA StartedRight ==
    ASSUME ListType, RoomRight, list # None
    PROVE  /\ LC!start(list) \in Builders
           /\ LC!start(list).started
           /\ BuilderRight(LC!start(list), child)
           /\ LC!start(list).written = SoFar
<1> DEFINE most == LC!max_child_capacity
<1>1. list \in Builders /\ child \in Children /\ child.size <= child.room
      /\ child.size <= MAX_LIST_CHILD_CAPACITY /\ BuilderRight(list, child)
  BY DEF ListType, RoomRight
<1>2. most \in Nat
  BY CapacityRight, SizeAssumption DEF ListType
<1>3. CASE list.started
  BY <1>1, <1>3 DEF LC!start, SoFar
<1>4. CASE ~list.started
  <2> DEFINE b == LC!start(list)
  <2>1. b = [list EXCEPT !.started = TRUE, !.written = child.size,
                         !.reserved = child.size, !.ceiling = most,
                         !.limit = IF list.limit < most THEN list.limit ELSE most]
    BY <1>4 DEF LC!start
  <2> HIDE DEF b, most
  <2>2. b \in Builders /\ b.started
    BY <1>1, <1>2, <2>1 DEF Builders, Children
  <2>3. /\ b.written = child.size /\ b.reserved = child.size
        /\ b.writer = None /\ b.ceiling = most
        /\ b.limit = IF list.limit < most THEN list.limit ELSE most
    BY <1>1, <1>4, <2>1 DEF Builders, BuilderRight
  <2>4. list.limit \in Nat /\ child.size \in Nat /\ child.room \in Nat
    BY <1>1 DEF Builders, Children
  <2>5. BuilderRight(b, child)
    <3>1. most <= MAX_LIST_CHILD_CAPACITY
      BY CapacityRight, SizeAssumption DEF ListType, most
    <3> QED
      BY <1>1, <1>2, <2>3, <2>4, <3>1, SizeAssumption DEF BuilderRight, most
  <2> QED
    BY <1>4, <2>2, <2>3, <2>5 DEF b, SoFar
<1> QED
  BY <1>3, <1>4

LEMMA ReservationRight ==
    ASSUME NEW limit \in 0..MAX_LIST_CHILD_CAPACITY, NEW capacity \in 0..limit
    PROVE  LC!reservation(capacity, limit) \in capacity..limit
<1>1. /\ LC!checked_next_power_of_two(capacity) \in Nat
      /\ LC!checked_next_power_of_two(capacity) >= capacity
  BY LeastPower, SizeAssumption
<1> QED
  BY <1>1, SizeAssumption DEF LC!reservation

\* `ensure_capacity` beside what DuckDB does.
LEMMA EnsuredRight ==
    ASSUME ListType, NEW b \in Builders, b.started, BuilderRight(b, child),
           NEW capacity \in Nat
    PROVE  LET ready == LC!ensure_capacity(b, capacity)
               grown == LC!Reserved(b, capacity)
           IN  /\ ready \in Builders /\ grown \in Children
               /\ ready.started /\ ready.written = b.written
               /\ grown.of = child.of /\ grown.size = child.size
               /\ grown.room >= child.room
               /\ BuilderRight(ready, grown)
               /\ ready.overflowed => grown = child
               /\ ~ready.overflowed =>
                     capacity <= ready.reserved /\ capacity <= ready.limit
               /\ ~LC!ThrowsFor(b, capacity)
<1> DEFINE ready == LC!ensure_capacity(b, capacity)
           grown == LC!Reserved(b, capacity)
           target == LC!reservation(capacity, b.limit)
           room == LC!checked_next_power_of_two(target)
           most == LC!max_child_capacity
<1>2. most \in 0..MAX_LIST_CHILD_CAPACITY
      /\ \A n \in 1..most : ~LC!Throws(n)
  BY CapacityRight DEF ListType
<1>1. /\ b.limit \in Nat /\ b.written \in Nat /\ b.reserved \in Nat
      /\ b.limit <= b.ceiling /\ b.ceiling \in Nat
      /\ b.limit <= most /\ b.limit <= MAX_LIST_CHILD_CAPACITY
      /\ b.written <= b.reserved /\ b.reserved <= child.room
      /\ b.written <= MAX_LIST_CHILD_CAPACITY
      /\ child \in Children /\ child.room \in Nat /\ child.moved \in Nat
      /\ b.writer # None => b.writer = child.moved
  BY <1>2, SizeAssumption DEF Builders, BuilderRight, ListType, Children
<1>3. CASE b.overflowed
  <2>1. ready = b /\ grown = child /\ ~LC!ThrowsFor(b, capacity)
    BY <1>3 DEF LC!ensure_capacity, LC!Reserved, LC!ThrowsFor
  <2> QED
    BY <1>1, <1>3, <2>1
<1>4. CASE ~b.overflowed /\ capacity > b.limit
  <2>1. ready = [b EXCEPT !.overflowed = TRUE] /\ grown = child
        /\ ~LC!ThrowsFor(b, capacity)
    BY <1>1, <1>4 DEF LC!ensure_capacity, LC!Reserved, LC!ThrowsFor
  <2>2. ready \in Builders /\ ready.overflowed /\ ready.started
        /\ ready.written = b.written /\ ready.reserved = b.reserved
        /\ ready.limit = b.limit /\ ready.writer = b.writer
        /\ ready.ceiling = b.ceiling
    BY <2>1 DEF Builders
  <2> HIDE DEF ready, grown
  <2>3. BuilderRight(ready, grown)
    BY <1>1, <2>1, <2>2 DEF BuilderRight
  <2>4. grown.room >= child.room
    BY <1>1, <2>1
  <2> QED
    BY <1>1, <2>1, <2>2, <2>3, <2>4 DEF ready, grown
<1>5. CASE ~b.overflowed /\ capacity <= b.limit /\ capacity <= b.reserved
  <2>1. ready = b /\ grown = child /\ ~LC!ThrowsFor(b, capacity)
    BY <1>1, <1>5 DEF LC!ensure_capacity, LC!Reserved, LC!ThrowsFor
  <2> QED
    BY <1>1, <1>5, <2>1
<1>6. CASE ~b.overflowed /\ capacity <= b.limit /\ capacity > b.reserved
  <2>1. target \in Nat /\ capacity <= target /\ target <= b.limit
    BY <1>1, <1>6, ReservationRight, SizeAssumption
  <2>2. room \in Nat /\ room >= target
    <3> HIDE DEF target
    <3> QED
      BY <1>1, <2>1, LeastPower, SizeAssumption
  <2>3. ready = [b EXCEPT !.reserved = target, !.writer = None]
    BY <1>1, <1>6 DEF LC!ensure_capacity
  <2>4. grown = IF room <= child.room THEN child
                ELSE [child EXCEPT !.room = room, !.moved = child.moved + 1]
    BY <1>1, <1>6 DEF LC!Reserved
  <2>5. ~LC!ThrowsFor(b, capacity)
    <3>1. target \in 1..most
      BY <1>1, <1>2, <1>6, <2>1, SizeAssumption
    <3> QED
      BY <1>2, <3>1 DEF LC!ThrowsFor
  <2> HIDE DEF target, room, ready, grown
  <2>6. /\ ready \in Builders /\ ready.started /\ ready.written = b.written
        /\ ready.reserved = target /\ ready.limit = b.limit
        /\ ready.ceiling = b.ceiling
        /\ ready.writer = None /\ ~ready.overflowed
    BY <1>6, <2>1, <2>3 DEF Builders
  <2>7. /\ grown \in Children /\ grown.of = child.of /\ grown.size = child.size
        /\ grown.room >= child.room /\ grown.room >= room /\ grown.room \in Nat
    <3>1. CASE room <= child.room
      BY <1>1, <2>2, <2>4, <3>1
    <3>2. CASE ~(room <= child.room)
      <4>1. grown = [child EXCEPT !.room = room, !.moved = child.moved + 1]
        BY <2>4, <3>2
      <4>2. child.moved + 1 \in Nat
        BY <1>1
      <4>3. grown \in Children
        <5> HIDE DEF Places, Elements
        <5> QED
          BY <1>1, <2>2, <4>1, <4>2 DEF Children
      <4>4. grown.of = child.of /\ grown.size = child.size
            /\ grown.room = room
        BY <1>1, <4>1 DEF Children
      <4> QED
        BY <1>1, <2>2, <3>2, <4>3, <4>4
    <3> QED
      BY <3>1, <3>2
  <2>8. BuilderRight(ready, grown)
    BY <1>1, <1>6, <2>1, <2>2, <2>6, <2>7 DEF BuilderRight
  <2>9. ~ready.overflowed => capacity <= ready.reserved /\ capacity <= ready.limit
    BY <1>6, <2>1, <2>6
  <2> QED
    BY <2>5, <2>6, <2>7, <2>8, <2>9 DEF ready, grown
<1> QED
  BY <1>1, <1>3, <1>4, <1>5, <1>6

\* What was written is within the child.
LEMMA SoFarRight ==
    ASSUME ListType, RoomRight
    PROVE  SoFar \in 0..MAX_LIST_CHILD_CAPACITY
BY SizeAssumption DEF ListType, RoomRight, BuilderRight, SoFar, Builders, Children

-----------------------------------------------------------------------------
(* The steps.                                                              *)

\* Rows that are not touched stay whole while more is written.
LEMMA WholeStays ==
    ASSUME NEW r \in LC!RowIndices, NEW entry \in Entries, NEW n,
           NEW m \in Nat, NEW k \in Nat, m <= k,
           NEW of, NEW after, Whole(r, entry, n, of, m),
           \A i \in 0..(m - 1) :
              (\E j \in Nat : of[i] = LC!Of(r, j)) => after[i] = of[i]
    PROVE  Whole(r, entry, n, after, k)
<1>1. entry.offset \in Nat /\ entry.length \in Nat
  BY DEF Entries
<1>2. ASSUME NEW i \in 0..(entry.length - 1)
      PROVE  after[entry.offset + i] = LC!Of(r, i)
  <2>1. entry.offset + i \in 0..(m - 1) /\ i \in Nat
    BY <1>1 DEF Whole
  <2>2. of[entry.offset + i] = LC!Of(r, i)
    BY <1>2 DEF Whole
  <2> QED
    BY <2>1, <2>2
<1>3. entry.offset + entry.length <= k
  BY <1>1 DEF Whole
<1> QED
  BY <1>2, <1>3 DEF Whole

LEMMA ReleaseRow ==
    ASSUME ListInv, NEW row \in LC!RowIndices, LC!release_row(row)
    PROVE  ListInv'
<1>t. ListType /\ RoomRight /\ RowsRight /\ NullRows
  BY DEF ListInv
<1>1. /\ outcome = "running" /\ outcome' \in {"running", "error"}
      /\ UNCHANGED <<type, said, refused, list, entries, child, published>>
  BY DEF LC!release_row, LC!Running
<1>2. row_count' \in 0..ColumnCapacity /\ claimed' = 0..(row_count' - 1)
  <2>1. CASE LC!MayRelease(row)
    <3>1. row_count' = row_count - 1 /\ claimed' = claimed \ {row}
      BY <2>1 DEF LC!release_row
    <3>2. row \in Nat /\ row + 1 = row_count
      BY <2>1, SizeAssumption DEF LC!MayRelease, LC!RowIndices
    <3> QED
      BY <1>t, <3>1, <3>2, SizeAssumption DEF ListType
  <2>2. CASE ~LC!MayRelease(row)
    BY <1>t, <2>2 DEF LC!release_row, ListType
  <2> QED
    BY <2>1, <2>2
<1>3. ListType'
  BY <1>t, <1>1, <1>2 DEF ListType
<1>4. RoomRight'
  BY <1>t, <1>1 DEF RoomRight, BuilderRight, LC!max_child_capacity
<1>5. SoFar' = SoFar
  BY <1>1 DEF SoFar
<1>6. RowsRight' /\ NullRows' /\ Publishing'
  <2> HIDE DEF SoFar
  <2> QED
    BY <1>t, <1>1, <1>5 DEF RowsRight, NullRows, Publishing
<1> QED
  BY <1>3, <1>4, <1>6 DEF ListInv

LEMMA PushRow ==
    ASSUME ListInv, NEW row \in LC!RowIndices, NEW len \in 0..MaxLen,
           NEW cached \in BOOLEAN, NEW panics \in BOOLEAN,
           LC!push_row(row, len, cached, panics)
    PROVE  ListInv'
<1> DEFINE b == LC!start(list)
           base == b.written
           ready == LC!ensure_capacity(b, base + len)
           grown == LC!Reserved(b, base + len)
           writer == IF cached /\ ready.writer # None THEN ready.writer
                     ELSE grown.moved
<1>t. ListType /\ RoomRight /\ RowsRight /\ NullRows
  BY DEF ListInv
<1>1. /\ outcome = "running" /\ list # None
      /\ panics => len > 0 /\ ~ready.overflowed
      /\ said' = [said EXCEPT ![row] = IF ready.overflowed THEN 0 ELSE len]
      /\ UNCHANGED <<type, row_count, claimed, published>>
  BY DEF LC!push_row, LC!Running
<1>2. /\ b \in Builders /\ b.started /\ BuilderRight(b, child)
      /\ base = SoFar /\ base \in Nat /\ len \in Nat /\ base + len \in Nat
  BY <1>t, <1>1, StartedRight, SoFarRight, SizeAssumption
<1>3. /\ ready \in Builders /\ grown \in Children
      /\ ready.started /\ ready.written = base
      /\ grown.of = child.of /\ grown.size = child.size
      /\ grown.room >= child.room
      /\ BuilderRight(ready, grown)
      /\ ready.overflowed => grown = child
      /\ ~ready.overflowed =>
            base + len <= ready.reserved /\ base + len <= ready.limit
      /\ ~LC!ThrowsFor(b, base + len)
  <2> HIDE DEF b
  <2> QED
    BY <1>t, <1>2, EnsuredRight
<1>4. writer = grown.moved
  BY <1>3 DEF BuilderRight
<1>5. outcome' = IF panics THEN "error" ELSE "running"
  BY <1>3, <1>4 DEF LC!push_row
<1>6. /\ ready.overflowed =>
            /\ entries' = [entries EXCEPT ![row] =
                   [offset |-> base, length |-> 0, null |-> TRUE]]
            /\ list' = ready /\ child' = child
            /\ refused' = refused \cup {row}
      /\ ~ready.overflowed => refused' = refused
      /\ ~ready.overflowed /\ panics =>
            child' = grown /\ list' = ready /\ entries' = entries
      /\ ~ready.overflowed /\ ~panics =>
            /\ child' = LC!Written(grown, row, base, len)
            /\ entries' = [entries EXCEPT ![row] =
                   [entries[row] EXCEPT !.offset = base, !.length = len]]
            /\ list' = [ready EXCEPT
                   !.written = base + len,
                   !.writer = IF cached /\ len > 0 THEN writer ELSE ready.writer]
  BY <1>3 DEF LC!push_row
<1>7. /\ said' \in [LC!RowIndices -> Nat \cup {None}]
      /\ said'[row] = IF ready.overflowed THEN 0 ELSE len
      /\ refused' \subseteq LC!RowIndices
  BY <1>6, <1>t, <1>1, <1>2, NoneAssumption DEF ListType
<1>8. child.size \in Nat /\ child.room \in Nat /\ grown.room \in Nat
      /\ child.size <= child.room /\ child.size <= MAX_LIST_CHILD_CAPACITY
  BY <1>t, <1>3 DEF ListType, RoomRight, Children
<1> HIDE DEF b, base, ready, grown, writer
<1>9. ASSUME list' \in Builders, BuilderRight(list', child'), child' \in Children,
             entries' \in [LC!RowIndices -> Entries],
             child'.size = child.size, child'.room >= child.room
      PROVE  ListType' /\ RoomRight'
  <2>1. ListType'
    BY <1>t, <1>1, <1>5, <1>7, <1>9 DEF ListType
  <2>2. child'.room \in Nat
    BY <1>9 DEF Children
  <2>3. BuilderRight(list, child)'
    BY <1>1, <1>9 DEF BuilderRight, LC!max_child_capacity
  <2>4. child'.size <= child'.room /\ child'.size <= MAX_LIST_CHILD_CAPACITY
    BY <1>8, <1>9, <2>2
  <2> QED
    BY <2>1, <2>3, <2>4 DEF RoomRight
<1>10. CASE ready.overflowed
  <2>1. /\ entries' = [entries EXCEPT ![row] =
               [offset |-> base, length |-> 0, null |-> TRUE]]
        /\ list' = ready /\ child' = child /\ outcome' = "running"
        /\ refused' = refused \cup {row} /\ said'[row] = 0
    BY <1>1, <1>5, <1>6, <1>7, <1>10
  <2>2. entries' \in [LC!RowIndices -> Entries]
    BY <1>t, <1>2, <2>1 DEF ListType, Entries
  <2>3. ListType' /\ RoomRight'
    BY <1>3, <1>8, <1>9, <1>10, <2>1, <2>2
  <2>4. SoFar' = SoFar /\ list' # None
    BY <1>2, <1>3, <2>1, NoneAssumption DEF SoFar
  <2>5. RowsRight'
    <3> SUFFICES ASSUME NEW r \in LC!RowIndices, said'[r] # None
                 PROVE  Whole(r, entries'[r], said'[r], child'.of, SoFar')
      BY DEF RowsRight
    <3>1. CASE r = row
      <4>1. entries'[r] = [offset |-> base, length |-> 0, null |-> TRUE]
        BY <1>t, <2>1, <3>1 DEF ListType
      <4> QED
        BY <1>2, <2>1, <2>4, <3>1, <4>1 DEF Whole
    <3>2. CASE r # row
      <4>1. said'[r] = said[r] /\ entries'[r] = entries[r]
        BY <1>t, <1>1, <2>1, <3>2 DEF ListType
      <4> QED
        BY <1>t, <1>1, <2>1, <2>4, <4>1 DEF RowsRight
    <3> QED
      BY <3>1, <3>2
  <2>6. NullRows'
    BY <1>t, <2>1 DEF NullRows, ListType
  <2> QED
    BY <2>1, <2>3, <2>5, <2>6 DEF ListInv, Publishing
<1>11. CASE ~ready.overflowed /\ panics
  <2>1. /\ child' = grown /\ list' = ready /\ entries' = entries
        /\ refused' = refused /\ outcome' = "error"
    BY <1>5, <1>6, <1>11
  <2>2. ListType' /\ RoomRight'
    BY <1>t, <1>3, <1>9, <2>1 DEF ListType
  <2> QED
    BY <2>1, <2>2 DEF ListInv, RowsRight, NullRows, Publishing
<1>12. CASE ~ready.overflowed /\ ~panics
  <2>1. /\ child' = LC!Written(grown, row, base, len)
        /\ entries' = [entries EXCEPT ![row] =
               [entries[row] EXCEPT !.offset = base, !.length = len]]
        /\ list' = [ready EXCEPT
               !.written = base + len,
               !.writer = IF cached /\ len > 0 THEN writer ELSE ready.writer]
        /\ refused' = refused /\ said'[row] = len /\ outcome' = "running"
    BY <1>5, <1>6, <1>7, <1>12
  <2> DEFINE of == [i \in DOMAIN grown.of |->
                      IF i \in base..(base + len - 1) THEN LC!Of(row, i - base)
                      ELSE IF grown.of[i] # LC!Stale /\ grown.of[i].row = row
                      THEN LC!Stale ELSE grown.of[i]]
  <2>2. child' = [grown EXCEPT !.of = of]
    BY <2>1 DEF LC!Written
  <2>3. of \in [Places -> Elements]
    BY <1>2, <1>3 DEF Children, Elements
  <2>4. \A i \in Places : of[i] = IF i \in base..(base + len - 1)
                                  THEN LC!Of(row, i - base)
                                  ELSE IF child.of[i] # LC!Stale /\ child.of[i].row = row
                                  THEN LC!Stale ELSE child.of[i]
    BY <1>3 DEF Children
  <2> HIDE DEF of
  <2>5. child' \in Children /\ child'.of = of /\ child'.size = child.size
        /\ child'.room = grown.room /\ child'.moved = grown.moved
    <3> HIDE DEF Places, Elements
    <3> QED
      BY <1>3, <2>2, <2>3 DEF Children
  <2>6. /\ entries' \in [LC!RowIndices -> Entries]
        /\ entries'[row].offset = base /\ entries'[row].length = len
        /\ entries'[row].null = entries[row].null
        /\ \A r \in LC!RowIndices \ {row} : entries'[r] = entries[r]
    BY <1>t, <1>2, <2>1 DEF ListType, Entries
  <2>7. writer \in Nat
    BY <1>3, <1>4 DEF Children
  <2>8. /\ list' \in Builders /\ list'.started /\ list'.written = base + len
        /\ list'.reserved = ready.reserved /\ list'.limit = ready.limit
        /\ list'.ceiling = ready.ceiling
        /\ list'.writer \in {writer, ready.writer}
    BY <1>2, <1>3, <2>1, <2>7 DEF Builders
  <2>9. BuilderRight(list', child')
    <3>1. list'.writer # None => list'.writer = child'.moved
      BY <1>3, <1>4, <2>5, <2>8 DEF BuilderRight
    <3>2. ready.reserved \in Nat /\ ready.limit \in Nat /\ ready.ceiling \in Nat
      BY <1>3 DEF Builders
    <3>3. base + len <= MAX_LIST_CHILD_CAPACITY
      BY <1>2, <1>3, <1>12, <3>2, SizeAssumption DEF BuilderRight
    <3> QED
      BY <1>3, <1>12, <2>5, <2>8, <3>1, <3>2, <3>3 DEF BuilderRight
  <2>10. ListType' /\ RoomRight'
    BY <1>3, <1>9, <2>5, <2>6, <2>9, <2>8
  <2>11. SoFar' = base + len
    BY <2>8, NoneAssumption DEF SoFar
  <2>12. base + len <= MAX_LIST_CHILD_CAPACITY
    BY <2>8, <2>9 DEF BuilderRight
  <2>13. RowsRight'
    <3> SUFFICES ASSUME NEW r \in LC!RowIndices, said'[r] # None
                 PROVE  Whole(r, entries'[r], said'[r], child'.of, SoFar')
      BY DEF RowsRight
    <3>1. CASE r = row
      <4>2. ASSUME NEW i \in 0..(len - 1)
            PROVE  child'.of[base + i] = LC!Of(r, i)
        <5>1. base + i \in Places /\ base + i \in base..(base + len - 1)
              /\ (base + i) - base = i
          BY <1>2, <2>12, SizeAssumption DEF Places
        <5> QED
          BY <2>4, <2>5, <3>1, <5>1
      <4> QED
        BY <1>2, <2>1, <2>6, <2>11, <3>1, <4>2 DEF Whole
    <3>2. CASE r # row
      <4>1. said'[r] = said[r] /\ entries'[r] = entries[r]
            /\ entries[r] \in Entries
        BY <1>t, <1>1, <2>6, <3>2 DEF ListType
      <4>2. Whole(r, entries[r], said[r], child.of, base)
        BY <1>t, <1>1, <1>2, <4>1 DEF RowsRight
      <4>3. ASSUME NEW i \in 0..(base - 1), NEW j \in Nat, child.of[i] = LC!Of(r, j)
            PROVE  child'.of[i] = child.of[i]
        <5>1. i \in Places /\ i \notin base..(base + len - 1)
          BY <1>2, <2>12, SizeAssumption DEF Places
        <5>2. child.of[i].row = r
          BY <4>3 DEF LC!Of
        <5> QED
          BY <2>4, <2>5, <3>2, <5>1, <5>2
      <4>4. base <= base + len
        BY <1>2
      <4> QED
        BY <1>2, <2>11, <4>1, <4>2, <4>3, <4>4, WholeStays
    <3> QED
      BY <3>1, <3>2
  <2>14. NullRows'
    BY <1>t, <2>1, <2>6 DEF NullRows, ListType
  <2> QED
    BY <2>1, <2>10, <2>13, <2>14 DEF ListInv, Publishing
<1> QED
  BY <1>10, <1>11, <1>12

LEMMA FinishRight ==
    ASSUME ListInv, LC!finish
    PROVE  ListInv'
<1>t. ListType /\ RoomRight /\ RowsRight /\ NullRows
  BY DEF ListInv
<1>1. /\ outcome = "running" /\ list # None /\ list' = None
      /\ child' = [child EXCEPT !.size = LC!start(list).written]
      /\ UNCHANGED <<type, row_count, claimed, said, refused, entries, outcome, published>>
  BY DEF LC!finish, LC!Running
<1>2. /\ LC!start(list).written = SoFar
      /\ BuilderRight(LC!start(list), child) /\ LC!start(list).started
      /\ LC!start(list) \in Builders
      /\ SoFar \in 0..MAX_LIST_CHILD_CAPACITY
  BY <1>t, <1>1, StartedRight, SoFarRight
<1>3. child' = [child EXCEPT !.size = SoFar] /\ SoFar \in Nat
  BY <1>1, <1>2, SizeAssumption
<1>4. SoFar <= child.room
  <2>1. LC!start(list).reserved \in Nat /\ child.room \in Nat
    BY <1>t, <1>2 DEF Builders, ListType, Children
  <2> QED
    BY <1>2, <1>3, <2>1 DEF BuilderRight
<1>5. child' \in Children /\ child'.of = child.of /\ child'.size = SoFar
      /\ child'.room = child.room
  <2> HIDE DEF Places, Elements, SoFar
  <2> QED
    BY <1>t, <1>3 DEF ListType, Children
<1>6. ListType' /\ RoomRight'
  BY <1>t, <1>1, <1>2, <1>4, <1>5, SizeAssumption DEF ListType, RoomRight
<1>7. SoFar' = SoFar
  BY <1>1, <1>5 DEF SoFar
<1>8. RowsRight' /\ NullRows' /\ Publishing'
  <2> HIDE DEF SoFar
  <2> QED
    BY <1>t, <1>1, <1>5, <1>7 DEF RowsRight, NullRows, Publishing
<1> QED
  BY <1>6, <1>8 DEF ListInv

LEMMA NewRight ==
    ASSUME ListInv, LC!new
    PROVE  ListInv'
<1>t. ListType /\ RoomRight /\ RowsRight /\ NullRows
  BY DEF ListInv
<1>1. /\ outcome = "running" /\ list = None
      /\ list' = [started |-> FALSE, written |-> 0, reserved |-> 0,
                  limit |-> MAX_LIST_CHILD_CAPACITY,
                  ceiling |-> MAX_LIST_CHILD_CAPACITY,
                  overflowed |-> FALSE, writer |-> None]
      /\ UNCHANGED <<type, row_count, claimed, said, refused, entries, child,
                     outcome, published>>
  BY DEF LC!new, LC!Running
<1>2. /\ list' \in Builders /\ ~list'.started /\ list'.writer = None
      /\ list'.limit = MAX_LIST_CHILD_CAPACITY
      /\ list'.ceiling = MAX_LIST_CHILD_CAPACITY
  BY <1>1, SizeAssumption DEF Builders
<1>3. ListType'
  BY <1>t, <1>1, <1>2 DEF ListType
<1>4. RoomRight'
  BY <1>t, <1>1, <1>2, SizeAssumption DEF RoomRight, BuilderRight
<1>5. SoFar' = SoFar
  BY <1>1, <1>2 DEF SoFar
<1>6. RowsRight' /\ NullRows' /\ Publishing'
  <2> HIDE DEF SoFar
  <2> QED
    BY <1>t, <1>1, <1>5 DEF RowsRight, NullRows, Publishing
<1> QED
  BY <1>3, <1>4, <1>6 DEF ListInv

\* A limit given later stays below the ceiling, so below what DuckDB takes.
LEMMA LimitRight ==
    ASSUME ListInv, NEW limit \in Limits, LC!with_element_limit(limit)
    PROVE  ListInv'
<1>t. ListType /\ RoomRight /\ RowsRight /\ NullRows
  BY DEF ListInv
<1>1. /\ outcome = "running" /\ list # None
      /\ list' = [list EXCEPT !.limit = IF limit < list.ceiling THEN limit
                                       ELSE list.ceiling]
      /\ UNCHANGED <<type, row_count, claimed, said, refused, entries, child,
                     outcome, published>>
  BY DEF LC!with_element_limit, LC!Limited, LC!Running
<1>2. list \in Builders /\ limit \in Nat /\ list.ceiling \in Nat
  BY <1>t, <1>1, SizeAssumption DEF ListType, Builders
<1>3. /\ list' \in Builders /\ list' # None
      /\ list'.limit <= list'.ceiling /\ list'.ceiling = list.ceiling
      /\ list'.started = list.started /\ list'.written = list.written
      /\ list'.reserved = list.reserved /\ list'.writer = list.writer
  BY <1>1, <1>2, NoneAssumption DEF Builders
<1>4. ListType'
  BY <1>t, <1>1, <1>3 DEF ListType
<1>5. RoomRight'
  BY <1>t, <1>1, <1>3 DEF RoomRight, BuilderRight, LC!max_child_capacity
<1>6. SoFar' = SoFar
  BY <1>1, <1>3 DEF SoFar
<1>7. RowsRight' /\ NullRows' /\ Publishing'
  <2> HIDE DEF SoFar
  <2> QED
    BY <1>t, <1>1, <1>6 DEF RowsRight, NullRows, Publishing
<1> QED
  BY <1>4, <1>5, <1>7 DEF ListInv

LEMMA ResetRight ==
    ASSUME ListInv, LC!ResetChunk
    PROVE  ListInv'
<1>t. ListType
  BY DEF ListInv
<1>1. /\ row_count' = 0 /\ claimed' = {}
      /\ said' = [r \in LC!RowIndices |-> None] /\ refused' = {} /\ list' = None
      /\ entries' = [r \in LC!RowIndices |-> LC!StaleEntry]
      /\ child' = [of |-> [i \in DOMAIN child.of |-> LC!Stale],
                   room |-> ChildCapacity, size |-> 0, moved |-> 0]
      /\ outcome' = "running" /\ published' = 0 /\ type' = type
  BY DEF LC!ResetChunk
<1>2. child' \in Children
  <2>1. DOMAIN child.of = Places
    BY <1>t DEF ListType, Children
  <2>2. [i \in DOMAIN child.of |-> LC!Stale] \in [Places -> Elements]
    BY <2>1 DEF Elements
  <2> QED
    BY <1>1, <2>2, SizeAssumption DEF Children
<1>3. entries' \in [LC!RowIndices -> Entries]
  BY <1>1 DEF LC!StaleEntry, Entries
<1>4. ListType'
  BY <1>t, <1>1, <1>2, <1>3, SizeAssumption DEF ListType
<1>5. RoomRight'
  BY <1>1, SizeAssumption DEF RoomRight
<1>6. RowsRight' /\ NullRows' /\ Publishing'
  BY <1>1 DEF RowsRight, NullRows, Publishing, LC!StaleEntry
<1> QED
  BY <1>4, <1>5, <1>6 DEF ListInv

LEMMA ListNext ==
    ASSUME ListInv, [LC!Next]_(LC!lcVars)
    PROVE  ListInv'
<1>t. ListType /\ RoomRight /\ RowsRight /\ NullRows /\ Publishing
  BY DEF ListInv
<1>1. ASSUME UNCHANGED <<type, list, entries, child>>
      PROVE  /\ RoomRight'
             /\ SoFar' = SoFar
  BY <1>t, <1>1 DEF RoomRight, BuilderRight, LC!max_child_capacity, SoFar
<1>2. CASE LC!next_row
  <2>1. /\ outcome = "running" /\ row_count < ColumnCapacity
        /\ row_count' = row_count + 1 /\ claimed' = claimed \cup {row_count}
        /\ said' = [said EXCEPT ![row_count] = None]
        /\ UNCHANGED <<type, refused, list, entries, child, outcome, published>>
    BY <1>2, <1>t, SizeAssumption
       DEF LC!next_row, LC!Running, LC!is_full, ListType
  <2>2. ListType'
    <3>1. said' \in [LC!RowIndices -> Nat \cup {None}]
      BY <1>t, <2>1 DEF ListType
    <3>2. row_count' \in 0..ColumnCapacity /\ claimed' = 0..(row_count' - 1)
      BY <1>t, <2>1, SizeAssumption DEF ListType
    <3> QED
      BY <1>t, <2>1, <3>1, <3>2 DEF ListType
  <2>3. \A r \in LC!RowIndices : said'[r] # None => said'[r] = said[r]
    BY <1>t, <2>1 DEF ListType
  <2>4. RowsRight' /\ NullRows' /\ Publishing'
    <3> HIDE DEF SoFar
    <3> QED
      BY <1>t, <1>1, <2>1, <2>3 DEF RowsRight, NullRows, Publishing
  <2> QED
    BY <1>1, <2>1, <2>2, <2>4 DEF ListInv
<1>3. ASSUME outcome = "running", outcome' = "published", list = None,
             published' \in 0..row_count,
             \A r \in 0..(published' - 1) : said[r] # None,
             UNCHANGED <<type, row_count, claimed, said, refused, list, entries, child>>
      PROVE  ListInv'
  <2>1. ListType'
    BY <1>t, <1>3, SizeAssumption DEF ListType
  <2>2. published' <= row_count'
    BY <1>t, <1>3, SizeAssumption DEF ListType
  <2>3. RowsRight' /\ NullRows' /\ Publishing'
    <3> HIDE DEF SoFar
    <3> QED
      BY <1>t, <1>1, <1>3, <2>2 DEF RowsRight, NullRows, Publishing
  <2> QED
    BY <1>1, <1>3, <2>1, <2>3 DEF ListInv
<1>4. CASE LC!publish
  <2>1. published' \in 0..row_count
    BY <1>4, <1>t, SizeAssumption DEF LC!publish, ListType
  <2> QED
    BY <1>3, <1>4, <1>t, <2>1 DEF LC!publish, LC!Running, ListType
<1>5. ASSUME NEW size \in 0..ColumnCapacity, LC!finish_with_size(size)
      PROVE  ListInv'
  <2>1. published' \in 0..row_count
    BY <1>5, <1>t, SizeAssumption DEF LC!finish_with_size, ListType
  <2> QED
    BY <1>3, <1>5, <2>1 DEF LC!finish_with_size, LC!Running
<1>6. CASE UNCHANGED LC!lcVars
  <2>1. ListType'
    BY <1>t, <1>6 DEF ListType, LC!lcVars
  <2>2. RowsRight' /\ NullRows' /\ Publishing'
    <3> HIDE DEF SoFar
    <3> QED
      BY <1>t, <1>1, <1>6 DEF RowsRight, NullRows, Publishing, LC!lcVars
  <2> QED
    BY <1>1, <1>6, <2>1, <2>2 DEF ListInv, LC!lcVars
<1> QED
  BY <1>2, <1>4, <1>5, <1>6, ReleaseRow, PushRow, FinishRight, NewRight, LimitRight,
     ResetRight
     DEF LC!Next

LEMMA ListCorrect == LC!Spec => []ListInv
<1>1. ListInv /\ [LC!Next]_(LC!lcVars) => ListInv'
  BY ListNext
<1> QED
  BY <1>1, ListInit, PTL DEF LC!Spec

\* Whatever rows are claimed, given back, pushed, refused or published, a chunk
\* DuckDB is given has only rows that were claimed for it, each with the
\* elements pushed for it last, and NULL exactly where a push was refused
\* (chunk_writer.rs, vector/list_builder.rs).
THEOREM PublishedCorrect == LC!Spec => []PublishedRowsWhole
<1>1. ASSUME ListInv PROVE PublishedRowsWhole
  <2> SUFFICES ASSUME outcome = "published", NEW r \in 0..(published - 1)
               PROVE  /\ r \in claimed
                      /\ entries[r].offset + entries[r].length <= child.size
                      /\ entries[r].length = said[r]
                      /\ \A i \in 0..(entries[r].length - 1) :
                           child.of[entries[r].offset + i] = LC!Of(r, i)
                      /\ entries[r].null <=> r \in refused
    BY DEF PublishedRowsWhole, LC!PublishedRowsWhole
  <2>1. list = None /\ published <= row_count /\ said[r] # None
    BY <1>1 DEF ListInv, Publishing
  <2>2. r \in claimed /\ r \in LC!RowIndices
    BY <1>1, <2>1, SizeAssumption DEF ListInv, ListType, LC!RowIndices
  <2>3. Whole(r, entries[r], said[r], child.of, child.size)
    BY <1>1, <2>1, <2>2 DEF ListInv, RowsRight, SoFar
  <2>4. entries[r].null <=> r \in refused
    BY <1>1, <2>2 DEF ListInv, NullRows
  <2> QED
    BY <2>2, <2>3, <2>4 DEF Whole
<1> QED
  BY <1>1, ListCorrect, PTL

\* For any limits, powers of two and types of elements, and whenever a builder
\* is given its limit, no element is written into a buffer DuckDB has given up,
\* and DuckDB is not asked for a child it throws over (vector/list_builder.rs,
\* `with_element_limit`, `ensure_capacity`, `capacity_within`).
THEOREM WritesCorrect == LC!Spec => []ChildWritesSafe
<1>1. ListInv => ChildWritesSafe
  BY DEF ListInv, ListType, RoomRight, ChildWritesSafe, LC!ChildWritesSafe
<1> QED
  BY <1>1, ListCorrect, PTL

-----------------------------------------------------------------------------
(* Nested vectors: paths.                                                  *)

\* A path's beginnings.
LEMMA Beginning ==
    ASSUME NEW u \in Seq(Nat), NEW n \in 0..Len(u)
    PROVE  /\ SubSeq(u, 1, n) \in Seq(Nat)
           /\ Len(SubSeq(u, 1, n)) = n
           /\ \A m \in 0..n : SubSeq(SubSeq(u, 1, n), 1, m) = SubSeq(u, 1, m)
           /\ SubSeq(u, 1, Len(u)) = u
<1>1. SubSeq(u, 1, n) \in Seq(Nat)
  OBVIOUS
<1>2. Len(SubSeq(u, 1, n)) = n
  OBVIOUS
<1>3. SubSeq(u, 1, Len(u)) = u
  OBVIOUS
<1>4. \A m \in 0..n : SubSeq(SubSeq(u, 1, n), 1, m) = SubSeq(u, 1, m)
  OBVIOUS
<1> QED
  BY <1>1, <1>2, <1>3, <1>4

\* Every vector but the output vector is one step below the vector it is in.
LEMMA Parent ==
    ASSUME NEW u \in Vectors, u # <<>>
    PROVE  /\ NN!Above(u) \in Vectors
           /\ Len(u) \in Nat \ {0} /\ Len(NN!Above(u)) = Len(u) - 1
           /\ NN!IsBelow(u, NN!Above(u))
<1>1. u \in Seq(Nat) /\ Len(u) \in Nat \ {0} /\ NN!Above(u) \in Vectors
  BY TreeAssumption
<1>2. Len(u) - 1 \in 0..Len(u)
  BY <1>1
<1>3. NN!Above(u) = SubSeq(u, 1, Len(u) - 1) /\ Len(NN!Above(u)) = Len(u) - 1
  BY <1>1, <1>2, Beginning DEF NN!Above
<1> QED
  BY <1>1, <1>3 DEF NN!IsBelow

\* The vectors a vector is below are a chain.
LEMMA Lineage ==
    ASSUME NEW u \in Vectors, NEW v \in Vectors, NN!IsBelow(u, v)
    PROVE  /\ u # <<>> /\ Len(v) \in Nat /\ Len(u) \in Nat /\ Len(v) < Len(u)
           /\ NN!Above(u) = v \/ NN!IsBelow(NN!Above(u), v)
<1>1. u \in Seq(Nat) /\ v \in Seq(Nat)
  BY TreeAssumption
<1>2. u # <<>> /\ Len(v) \in 0..(Len(u) - 1) /\ Len(u) \in Nat /\ SubSeq(u, 1, Len(v)) = v
  BY <1>1 DEF NN!IsBelow
<1>3. Len(u) - 1 \in 0..Len(u)
  BY <1>2
<1>4. /\ NN!Above(u) \in Seq(Nat)
      /\ Len(NN!Above(u)) = Len(u) - 1
      /\ \A m \in 0..(Len(u) - 1) : SubSeq(NN!Above(u), 1, m) = SubSeq(u, 1, m)
      /\ SubSeq(NN!Above(u), 1, Len(NN!Above(u))) = NN!Above(u)
  <2>1. NN!Above(u) = SubSeq(u, 1, Len(u) - 1)
    BY DEF NN!Above
  <2>2. /\ NN!Above(u) \in Seq(Nat) /\ Len(NN!Above(u)) = Len(u) - 1
        /\ \A m \in 0..(Len(u) - 1) : SubSeq(NN!Above(u), 1, m) = SubSeq(u, 1, m)
    <3> DEFINE n == Len(u) - 1
    <3>1. n \in 0..Len(u) /\ NN!Above(u) = SubSeq(u, 1, n)
      BY <1>3, <2>1
    <3> HIDE DEF n
    <3>2. /\ NN!Above(u) \in Seq(Nat) /\ Len(NN!Above(u)) = n
          /\ \A m \in 0..n : SubSeq(NN!Above(u), 1, m) = SubSeq(u, 1, m)
      BY <1>1, <3>1, Beginning
    <3> QED
      BY <3>2 DEF n
  <2>3. SubSeq(NN!Above(u), 1, Len(NN!Above(u))) = NN!Above(u)
    BY <2>2, Beginning
  <2> QED
    BY <2>2, <2>3
<1>5. SubSeq(NN!Above(u), 1, Len(v)) = v
  BY <1>2, <1>4
<1>6. CASE Len(v) = Len(u) - 1
  BY <1>4, <1>5, <1>6, <1>2
<1>7. CASE Len(v) < Len(u) - 1
  BY <1>2, <1>4, <1>5, <1>7 DEF NN!IsBelow
<1> QED
  BY <1>2, <1>6, <1>7

LEMMA Descent ==
    ASSUME NEW t \in Vectors, NEW u \in Vectors, NEW v \in Vectors,
           NN!IsBelow(t, u), NN!IsBelow(u, v)
    PROVE  NN!IsBelow(t, v)
<1>0. t \in Seq(Nat) /\ u \in Seq(Nat) /\ v \in Seq(Nat)
  BY TreeAssumption
<1>1. Len(v) \in 0..Len(u) /\ Len(u) \in 0..Len(t) /\ Len(v) < Len(t)
  BY <1>0 DEF NN!IsBelow
<1>2. SubSeq(SubSeq(t, 1, Len(u)), 1, Len(v)) = SubSeq(t, 1, Len(v))
  BY <1>0, <1>1, Beginning
<1> QED
  BY <1>1, <1>2 DEF NN!IsBelow

\* All is below the output vector.
LEMMA OutputAbove ==
    ASSUME NEW u \in Vectors, u # <<>>
    PROVE  NN!IsBelow(u, <<>>)
<1>1. u \in Seq(Nat) /\ Len(u) > 0
  BY TreeAssumption
<1>2. Len(<<>>) = 0 /\ SubSeq(u, 1, 0) = <<>>
  BY <1>1, Beginning
<1> QED
  BY <1>1, <1>2 DEF NN!IsBelow

\* The least number with a property.
LEMMA LeastNumber ==
    ASSUME NEW S \in SUBSET Nat, S # {}
    PROVE  \E n \in S : \A m \in S : n <= m
<1>1. PICK n \in S : \A m \in S : ~ <<m, n>> \in OpToRel(<, Nat)
  BY NatLessThanWellFounded, WFMin
<1>2. \A m \in S : ~ (m < n)
  BY <1>1 DEF OpToRel
<1> QED
  BY <1>2

-----------------------------------------------------------------------------
(* Nested vectors: RowsPerRow is a recursion that ends.                    *)

\* What the recursion makes of `rows` at one vector.
RowsStep(v, rows, u) ==
    IF Len(u) <= Len(v) THEN 1
    ELSE IF ArraySize[NN!Above(u)] > 0 THEN rows[NN!Above(u)] * ArraySize[NN!Above(u)]
    ELSE rows[NN!Above(u)]

RowsUpTo(v, n, rows) ==
    \A u \in Vectors : Len(u) <= n => rows[u] = RowsStep(v, rows, u)

LEMMA DepthIsNat == \A v \in Vectors : Len(v) \in Nat /\ (v = <<>> <=> Len(v) = 0)
BY TreeAssumption

\* One level more: the rows of a vector depend on those of the one it is in.
LEMMA RowsLevel ==
    ASSUME NEW v \in Vectors, NEW n \in Nat,
           NEW rows \in [Vectors -> Nat \ {0}], RowsUpTo(v, n, rows)
    PROVE  \E more \in [Vectors -> Nat \ {0}] : RowsUpTo(v, n + 1, more)
<1> DEFINE more == [u \in Vectors |-> IF Len(u) = n + 1 THEN RowsStep(v, rows, u) ELSE rows[u]]
<1>1. \A u \in Vectors : RowsStep(v, rows, u) \in Nat \ {0}
  <2> SUFFICES ASSUME NEW u \in Vectors, Len(u) > Len(v)
               PROVE  RowsStep(v, rows, u) \in Nat \ {0}
    BY DepthIsNat DEF RowsStep
  <2>1. NN!Above(u) \in Vectors
    BY DepthIsNat, Parent
  <2>2. rows[NN!Above(u)] \in Nat \ {0} /\ ArraySize[NN!Above(u)] \in Nat
    BY <2>1, TreeAssumption
  <2>3. ArraySize[NN!Above(u)] > 0 =>
            rows[NN!Above(u)] * ArraySize[NN!Above(u)] \in Nat \ {0}
    BY <2>2
  <2> QED
    BY <2>2, <2>3 DEF RowsStep
<1>2. more \in [Vectors -> Nat \ {0}]
  BY <1>1
<1>3. ASSUME NEW u \in Vectors, Len(u) <= n + 1
      PROVE  more[u] = RowsStep(v, more, u)
  <2>1. CASE Len(u) <= Len(v)
    BY <1>3, <2>1, DepthIsNat DEF RowsStep, RowsUpTo
  <2>2. CASE Len(u) > Len(v)
    <3>1. NN!Above(u) \in Vectors /\ Len(NN!Above(u)) = Len(u) - 1
      BY <2>2, DepthIsNat, Parent
    <3>2. more[NN!Above(u)] = rows[NN!Above(u)]
      BY <1>3, <3>1, DepthIsNat
    <3>3. RowsStep(v, more, u) = RowsStep(v, rows, u)
      <4> HIDE DEF more
      <4> QED
        BY <3>2 DEF RowsStep
    <3> QED
      BY <1>3, <3>3, DepthIsNat DEF RowsUpTo
  <2> QED
    BY <2>1, <2>2, DepthIsNat
<1> QED
  BY <1>2, <1>3 DEF RowsUpTo

LEMMA RowsAtDepth ==
    ASSUME NEW v \in Vectors
    PROVE  \A n \in Nat : \E rows \in [Vectors -> Nat \ {0}] : RowsUpTo(v, n, rows)
<1> DEFINE failing == {n \in Nat : ~ \E rows \in [Vectors -> Nat \ {0}] : RowsUpTo(v, n, rows)}
<1> SUFFICES ASSUME failing # {} PROVE FALSE
  OBVIOUS
<1>1. PICK n \in failing : \A m \in failing : n <= m
  BY LeastNumber
<1>2. CASE n = 0
  <2>1. RowsUpTo(v, 0, [u \in Vectors |-> 1])
    BY DepthIsNat DEF RowsUpTo, RowsStep
  <2> QED
    BY <1>1, <1>2, <2>1
<1>3. CASE n # 0
  <2>1. n - 1 \in Nat /\ n - 1 \notin failing
    BY <1>1, <1>3
  <2>2. PICK rows \in [Vectors -> Nat \ {0}] : RowsUpTo(v, n - 1, rows)
    BY <2>1
  <2>3. \E more \in [Vectors -> Nat \ {0}] : RowsUpTo(v, (n - 1) + 1, more)
    BY <2>1, <2>2, RowsLevel
  <2> QED
    BY <1>1, <2>1, <2>3
<1> QED
  BY <1>2, <1>3

\* The recursion has a solution, so RowsPerRow is one.
LEMMA RowsDefined ==
    ASSUME NEW v \in Vectors
    PROVE  NN!RowsPerRow[v] = [u \in Vectors |-> RowsStep(v, NN!RowsPerRow[v], u)]
<1>1. PICK deepest \in Vectors : \A u \in Vectors : Len(u) <= Len(deepest)
  BY TreeAssumption
<1>2. PICK rows \in [Vectors -> Nat \ {0}] : RowsUpTo(v, Len(deepest), rows)
  BY DepthIsNat, RowsAtDepth
<1>3. rows = [u \in Vectors |-> RowsStep(v, rows, u)]
  BY <1>1, <1>2 DEF RowsUpTo
<1>4. NN!RowsPerRow[v] = CHOOSE r : r = [u \in Vectors |-> RowsStep(v, r, u)]
  BY DEF NN!RowsPerRow, RowsStep
<1> QED
  BY <1>3, <1>4

\* The rows of a vector for each row of the one it is in.
Factor(u) == IF ArraySize[NN!Above(u)] > 0 THEN ArraySize[NN!Above(u)] ELSE 1

LEMMA RowsBelow ==
    ASSUME NEW v \in Vectors, NEW u \in Vectors
    PROVE  /\ Len(u) <= Len(v) => NN!RowsPerRow[v][u] = 1
           /\ Len(u) > Len(v) =>
                 /\ u # <<>>
                 /\ NN!RowsPerRow[v][u] \in Nat \ {0}
                 /\ NN!RowsPerRow[v][NN!Above(u)] \in Nat \ {0}
                 /\ Factor(u) \in Nat \ {0}
                 /\ NN!RowsPerRow[v][u] = NN!RowsPerRow[v][NN!Above(u)] * Factor(u)
<1> DEFINE rows == NN!RowsPerRow[v]
           odd == {w \in Vectors : rows[w] \notin Nat \ {0}}
<1>1. \A w \in Vectors : rows[w] = RowsStep(v, rows, w)
  <2> HIDE DEF rows
  <2>1. rows = [w \in Vectors |-> RowsStep(v, rows, w)]
    BY RowsDefined DEF rows
  <2> QED
    BY <2>1
<1> HIDE DEF rows
<1>2. \A w \in Vectors : Len(w) <= Len(v) => rows[w] = 1
  BY <1>1 DEF RowsStep
<1>3. ASSUME NEW w \in Vectors, Len(w) > Len(v)
      PROVE  /\ w # <<>> /\ NN!Above(w) \in Vectors /\ Len(NN!Above(w)) = Len(w) - 1
             /\ Factor(w) \in Nat \ {0}
             /\ rows[NN!Above(w)] \in Nat => rows[w] = rows[NN!Above(w)] * Factor(w)
  <2>1. w # <<>> /\ NN!Above(w) \in Vectors /\ Len(NN!Above(w)) = Len(w) - 1
    BY <1>3, DepthIsNat, Parent
  <2>2. Factor(w) \in Nat \ {0}
    BY <2>1, TreeAssumption DEF Factor
  <2>3. ~ Len(w) <= Len(v)
    BY <1>3, DepthIsNat
  <2> QED
    BY <1>1, <2>1, <2>2, <2>3 DEF RowsStep, Factor
<1>4. odd = {}
  <2> DEFINE depths == {Len(w) : w \in odd}
  <2> SUFFICES ASSUME odd # {} PROVE FALSE
    OBVIOUS
  <2>1. depths \in SUBSET Nat /\ depths # {}
    BY DepthIsNat
  <2>2. PICK w \in odd : \A x \in odd : Len(w) <= Len(x)
    <3> HIDE DEF depths
    <3>1. PICK n \in depths : \A m \in depths : n <= m
      BY <2>1, LeastNumber
    <3> QED
      BY <3>1 DEF depths
  <2>3. w \in Vectors /\ Len(w) > Len(v)
    BY <1>2, DepthIsNat
  <2>4. Len(NN!Above(w)) < Len(w) /\ NN!Above(w) \in Vectors
    BY <1>3, <2>3, DepthIsNat
  <2>5. rows[NN!Above(w)] \in Nat \ {0}
    BY <2>2, <2>4, DepthIsNat
  <2>6. rows[w] = rows[NN!Above(w)] * Factor(w) /\ Factor(w) \in Nat \ {0}
    BY <1>3, <2>3, <2>5
  <2> QED
    BY <2>5, <2>6
<1>5. \A w \in Vectors : rows[w] \in Nat \ {0}
  BY <1>4
<1>6. ASSUME Len(u) > Len(v)
      PROVE  /\ u # <<>> /\ rows[u] \in Nat \ {0} /\ rows[NN!Above(u)] \in Nat \ {0}
             /\ Factor(u) \in Nat \ {0}
             /\ rows[u] = rows[NN!Above(u)] * Factor(u)
  BY <1>3, <1>5, <1>6
<1> QED
  BY <1>2, <1>6 DEF rows

LEMMA RowsPositive ==
    ASSUME NEW v \in Vectors, NEW u \in Vectors
    PROVE  NN!RowsPerRow[v][u] \in Nat \ {0}
<1>1. Len(u) <= Len(v) \/ Len(u) > Len(v)
  BY DepthIsNat
<1> QED
  BY <1>1, RowsBelow

LEMMA Associate ==
    ASSUME NEW a \in Nat, NEW b \in Nat, NEW c \in Nat
    PROVE  (a * b) * c = a * (b * c)
OBVIOUS

\* Down two levels, the factors multiply.
LEMMA RowsMultiply ==
    ASSUME NEW v \in Vectors, NEW u \in Vectors, NN!IsBelow(u, v)
    PROVE  \A t \in Vectors : NN!IsBelow(t, u) =>
               NN!RowsPerRow[v][t] = NN!RowsPerRow[v][u] * NN!RowsPerRow[u][t]
<1> DEFINE R(x, y) == NN!RowsPerRow[x][y]
           odd == {t \in Vectors : NN!IsBelow(t, u) /\ R(v, t) # R(v, u) * R(u, t)}
           depths == {Len(t) : t \in odd}
<1> SUFFICES ASSUME odd # {} PROVE FALSE
  OBVIOUS
<1>1. depths \in SUBSET Nat /\ depths # {}
  BY DepthIsNat
<1>2. PICK t \in odd : \A x \in odd : Len(t) <= Len(x)
  <2> HIDE DEF depths
  <2>1. PICK n \in depths : \A m \in depths : n <= m
    BY <1>1, LeastNumber
  <2> QED
    BY <2>1 DEF depths
<1>3. t \in Vectors /\ NN!IsBelow(t, u) /\ R(v, t) # R(v, u) * R(u, t)
  OBVIOUS
<1>4. /\ t # <<>> /\ Len(u) \in Nat /\ Len(t) \in Nat /\ Len(u) < Len(t)
      /\ NN!Above(t) = u \/ NN!IsBelow(NN!Above(t), u)
  BY <1>3, Lineage
<1>5. Len(v) \in Nat /\ Len(v) < Len(u)
  BY Lineage
<1>6. NN!Above(t) \in Vectors /\ Len(NN!Above(t)) = Len(t) - 1
  BY <1>3, <1>4, Parent
<1>7. /\ R(v, NN!Above(t)) \in Nat /\ R(u, NN!Above(t)) \in Nat
      /\ R(v, u) \in Nat /\ Factor(t) \in Nat
  BY <1>3, <1>4, <1>6, RowsPositive, RowsBelow
<1>8. R(v, t) = R(v, NN!Above(t)) * Factor(t)
  BY <1>3, <1>4, <1>5, RowsBelow
<1>9. R(u, t) = R(u, NN!Above(t)) * Factor(t)
  BY <1>3, <1>4, RowsBelow
<1>10. CASE NN!Above(t) = u
  <2>1. R(u, u) = 1
    BY <1>4, RowsBelow
  <2> HIDE DEF R, odd
  <2> QED
    BY <1>3, <1>7, <1>8, <1>9, <1>10, <2>1
<1>11. CASE NN!IsBelow(NN!Above(t), u)
  <2>1. R(v, NN!Above(t)) = R(v, u) * R(u, NN!Above(t))
    <3> HIDE DEF R
    <3> QED
      BY <1>2, <1>4, <1>6, <1>11
  <2> HIDE DEF R, odd
  <2> QED
    BY <1>3, <1>7, <1>8, <1>9, <2>1, Associate
<1> QED
  BY <1>4, <1>10, <1>11

-----------------------------------------------------------------------------
(* Nested vectors: which rows are below which.                             *)

LEMMA Apportion ==
    ASSUME NEW r \in Nat, NEW k \in Nat \ {0}
    PROVE  /\ r \div k \in Nat /\ (r \div k) * k \in Nat /\ (r \div k + 1) * k \in Nat
           /\ (r \div k) * k <= r /\ r < (r \div k + 1) * k
OBVIOUS

LEMMA Ordered ==
    ASSUME NEW a \in Nat, NEW b \in Nat, NEW k \in Nat, a <= b
    PROVE  a * k \in Nat /\ b * k \in Nat /\ a * k <= b * k
OBVIOUS

\* A row belongs to the row above in whose share it is.
LEMMA Share ==
    ASSUME NEW r \in Nat, NEW k \in Nat \ {0}, NEW q \in Nat
    PROVE  r \div k = q <=> q * k <= r /\ r < (q + 1) * k
<1> DEFINE p == r \div k
<1>1. /\ p \in Nat /\ p * k \in Nat /\ (p + 1) * k \in Nat
      /\ p * k <= r /\ r < (p + 1) * k
  BY Apportion
<1> HIDE DEF p
<1>2. q * k \in Nat /\ (q + 1) * k \in Nat
  OBVIOUS
<1>3. CASE p < q
  <2>1. (p + 1) * k <= q * k
    BY <1>1, <1>3, Ordered
  <2> QED
    BY <1>1, <1>2, <1>3, <2>1 DEF p
<1>4. CASE q < p
  <2>1. (q + 1) * k <= p * k
    BY <1>1, <1>4, Ordered
  <2> QED
    BY <1>1, <1>2, <1>4, <2>1 DEF p
<1>5. CASE p = q
  BY <1>1, <1>5 DEF p
<1> QED
  BY <1>1, <1>3, <1>4, <1>5

LEMMA ShareOfShare ==
    ASSUME NEW r \in Nat, NEW a \in Nat \ {0}, NEW b \in Nat \ {0}
    PROVE  r \div (b * a) = (r \div a) \div b
<1> DEFINE q == r \div a
           p == q \div b
<1>1. q \in Nat /\ q * a \in Nat /\ (q + 1) * a \in Nat /\ q * a <= r /\ r < (q + 1) * a
  BY Apportion
<1> HIDE DEF q
<1>2. p \in Nat /\ p * b \in Nat /\ (p + 1) * b \in Nat /\ p * b <= q /\ q + 1 <= (p + 1) * b
  BY <1>1, Apportion
<1> HIDE DEF p
<1>3. (p * b) * a <= q * a /\ (q + 1) * a <= ((p + 1) * b) * a
  <2>1. q + 1 \in Nat
    BY <1>1
  <2> QED
    BY <1>1, <1>2, <2>1, Ordered
<1>4. (p * b) * a = p * (b * a) /\ ((p + 1) * b) * a = (p + 1) * (b * a)
  BY <1>2, Associate
<1>5. b * a \in Nat \ {0}
  OBVIOUS
<1>6. p * (b * a) \in Nat /\ (p + 1) * (b * a) \in Nat
  BY <1>2, <1>5
<1>7. p * (b * a) <= r /\ r < (p + 1) * (b * a)
  BY <1>1, <1>3, <1>4, <1>6
<1>8. r \div (b * a) = p
  BY <1>2, <1>5, <1>7, Share
<1> QED
  BY <1>8 DEF p, q

\* The row two levels above is the row above the row above.
LEMMA AboveAbove ==
    ASSUME NEW t \in Vectors, NEW u \in Vectors, NEW v \in Vectors, NEW r \in Nat,
           NN!IsBelow(t, u), NN!IsBelow(u, v)
    PROVE  /\ NN!RowAbove(t, u, r) \in Nat
           /\ NN!RowAbove(t, v, r) = NN!RowAbove(u, v, NN!RowAbove(t, u, r))
<1>1. NN!RowsPerRow[v][t] = NN!RowsPerRow[v][u] * NN!RowsPerRow[u][t]
  BY RowsMultiply
<1>2. NN!RowsPerRow[v][u] \in Nat \ {0} /\ NN!RowsPerRow[u][t] \in Nat \ {0}
  BY RowsPositive
<1>3. r \div NN!RowsPerRow[u][t] \in Nat
  BY <1>2, Apportion
<1> QED
  BY <1>1, <1>2, <1>3, ShareOfShare DEF NN!RowAbove

LEMMA RowAboveIsNat ==
    ASSUME NEW u \in Vectors, NEW v \in Vectors, NEW r \in Nat
    PROVE  NN!RowAbove(u, v, r) \in Nat
BY RowsPositive, Apportion DEF NN!RowAbove

\* A vector has the rows that belong to the output vector's rows.
LEMMA OutputRowAbove ==
    ASSUME NEW u \in Vectors, NEW r \in Nat
    PROVE  r \in NN!RowsOf(u) <=> NN!RowAbove(u, <<>>, r) < OutputRows
<1> DEFINE k == NN!RowsPerRow[<<>>][u]
           q == r \div k
<1>1. k \in Nat \ {0} /\ OutputRows \in Nat
  BY TreeAssumption, RowsPositive
<1> HIDE DEF k
<1>2. q \in Nat /\ q * k \in Nat /\ (q + 1) * k \in Nat /\ q * k <= r /\ r < (q + 1) * k
  BY <1>1, Apportion
<1>3. OutputRows * k \in Nat
  BY <1>1
<1> HIDE DEF q
<1>4. q < OutputRows => r < OutputRows * k
  <2> SUFFICES ASSUME q < OutputRows PROVE r < OutputRows * k
    OBVIOUS
  <2>1. q + 1 \in Nat /\ q + 1 <= OutputRows
    BY <1>1, <1>2
  <2>2. (q + 1) * k <= OutputRows * k
    BY <1>1, <2>1, Ordered
  <2> QED
    BY <1>2, <1>3, <2>2
<1>5. OutputRows <= q => OutputRows * k <= r
  <2> SUFFICES ASSUME OutputRows <= q PROVE OutputRows * k <= r
    OBVIOUS
  <2>1. OutputRows * k <= q * k
    BY <1>1, <1>2, Ordered
  <2> QED
    BY <1>2, <1>3, <2>1
<1>6. r < OutputRows * k <=> q < OutputRows
  BY <1>1, <1>2, <1>3, <1>4, <1>5
<1>7. NN!RowsOf(u) = 0..(OutputRows * k - 1) /\ NN!RowAbove(u, <<>>, r) = q
  BY DEF k, q, NN!RowsOf, NN!RowAbove
<1> QED
  BY <1>3, <1>6, <1>7

LEMMA RowsOfBelow ==
    ASSUME NEW u \in Vectors, NEW v \in Vectors, NN!IsBelow(u, v), NEW r \in Nat
    PROVE  r \in NN!RowsOf(u) <=> NN!RowAbove(u, v, r) \in NN!RowsOf(v)
<1> DEFINE q == NN!RowAbove(u, v, r)
<1>1. q \in Nat /\ <<>> \in Vectors
  BY TreeAssumption, RowAboveIsNat
<1>2. NN!RowAbove(u, <<>>, r) = NN!RowAbove(v, <<>>, q)
  <2>1. CASE v = <<>>
    <3>1. NN!RowsPerRow[v][v] = 1
      BY DepthIsNat, RowsBelow
    <3>2. NN!RowAbove(v, v, q) = q
      BY <1>1, <3>1 DEF NN!RowAbove
    <3> QED
      BY <2>1, <3>2
  <2>2. CASE v # <<>>
    BY <1>1, <2>2, OutputAbove, AboveAbove
  <2> QED
    BY <2>1, <2>2
<1> QED
  BY <1>1, <1>2, OutputRowAbove

-----------------------------------------------------------------------------
(* Nested vectors: the masks.                                              *)

\* The rows of `u` that rows `rows` of `v`, above it, cover.
RowsUnder(u, v, rows) ==
    {r \in Nat : NN!IsBelow(u, v) /\ NN!RowAbove(u, v, r) \in rows}

\* `collect` finds every mask below a vector, and `Covered` in it the rows that
\* belong to those above.
LEMMA CoveredRight ==
    ASSUME NEW u \in Vectors, NEW v \in Vectors, NEW rows \in SUBSET Nat
    PROVE  UNION {NN!Covered(t, rows) : t \in {t \in NN!collect(v) : t.at = u}}
               = RowsUnder(u, v, rows)
<1> DEFINE k == NN!RowsPerRow[v][u]
           target == [at |-> u, rows_per_row |-> k]
<1>1. k \in Nat \ {0}
  BY RowsPositive
<1>2. {t \in NN!collect(v) : t.at = u} = IF NN!IsBelow(u, v) THEN {target} ELSE {}
  BY DEF NN!collect
<1>3. NN!Covered(target, rows) = {r \in Nat : r \div k \in rows}
  <2>1. NN!Covered(target, rows) = UNION {(r * k)..((r + 1) * k - 1) : r \in rows}
    BY DEF NN!Covered
  <2> HIDE DEF k
  <2>2. ASSUME NEW q \in rows, NEW r \in (q * k)..((q + 1) * k - 1)
        PROVE  r \in Nat /\ r \div k = q
    <3>1. q \in Nat /\ q * k \in Nat /\ (q + 1) * k \in Nat
      BY <1>1
    <3>2. r \in Nat /\ q * k <= r /\ r < (q + 1) * k
      BY <2>2, <3>1
    <3> QED
      BY <1>1, <3>1, <3>2, Share
  <2>3. ASSUME NEW r \in Nat, r \div k \in rows
        PROVE  r \in ((r \div k) * k)..((r \div k + 1) * k - 1)
    <3> DEFINE q == r \div k
    <3>1. /\ q \in Nat /\ q * k \in Nat /\ (q + 1) * k \in Nat
          /\ q * k <= r /\ r < (q + 1) * k
      BY <1>1, Apportion
    <3> HIDE DEF q
    <3>2. r \in (q * k)..((q + 1) * k - 1)
      BY <3>1
    <3> QED
      BY <3>2 DEF q
  <2> DEFINE shares == {(q * k)..((q + 1) * k - 1) : q \in rows}
  <2>4. UNION shares \subseteq {r \in Nat : r \div k \in rows}
    BY <2>2
  <2>5. ASSUME NEW r \in Nat, r \div k \in rows
        PROVE  r \in UNION shares
    <3>1. ((r \div k) * k)..((r \div k + 1) * k - 1) \in shares
      BY <2>5
    <3> QED
      BY <2>3, <2>5, <3>1
  <2> QED
    BY <2>1, <2>4, <2>5
<1>4. RowsUnder(u, v, rows) = IF NN!IsBelow(u, v) THEN {r \in Nat : r \div k \in rows} ELSE {}
  BY DEF RowsUnder, NN!RowAbove
<1> HIDE DEF target, k
<1> QED
  BY <1>2, <1>3, <1>4

LEMMA RowsOfAreNat == \A v \in Vectors : NN!RowsOf(v) \subseteq Nat
<1> SUFFICES ASSUME NEW v \in Vectors PROVE NN!RowsOf(v) \subseteq Nat
  OBVIOUS
<1>1. NN!RowsPerRow[<<>>][v] \in Nat /\ OutputRows \in Nat
  BY TreeAssumption, RowsPositive
<1> QED
  BY <1>1 DEF NN!RowsOf

Masks == [Vectors -> SUBSET Nat]

\* The rows a call reaches: rows `rows` of `v`, and what belongs to them below.
LEMMA ReachedRight ==
    ASSUME NEW u \in Vectors, NEW v \in Vectors, NEW rows \in SUBSET NN!RowsOf(v)
    PROVE  NN!Reached(v, rows)[u] = (IF u = v THEN rows ELSE {}) \cup RowsUnder(u, v, rows)
<1>1. \A r \in Nat : NN!IsBelow(u, v) /\ NN!RowAbove(u, v, r) \in rows => r \in NN!RowsOf(u)
  BY RowsOfBelow
<1>2. NN!RowsOf(u) \subseteq Nat
  BY RowsOfAreNat
<1> QED
  BY <1>1, <1>2 DEF NN!Reached, RowsUnder

\* In masks `m`, what is below a NULL row is NULL or was made valid, `w`, since.
NullsReach(m, w) ==
    \A u \in Vectors :
        /\ m[u] \subseteq NN!RowsOf(u) /\ m[u] \cap w[u] = {}
        /\ \A t \in Vectors : NN!IsBelow(t, u) =>
              \A r \in Nat : NN!RowAbove(t, u, r) \in m[u] => r \in m[t] \cup w[t]

\* Making rows of a vector NULL.
LEMMA NulledRight ==
    ASSUME NEW m \in Masks, NEW w \in Masks, NullsReach(m, w), NEW v \in Vectors,
           NEW rows \in SUBSET NN!RowsOf(v),
           NEW n, n = NN!Nulled(m, v, rows),
           NEW x, x = [u \in Vectors |-> w[u] \ NN!Reached(v, rows)[u]]
    PROVE  /\ n \in Masks /\ x \in Masks /\ NullsReach(n, x)
           /\ rows \subseteq n[v]
           /\ m[<<>>] \cup w[<<>>] \subseteq n[<<>>] \cup x[<<>>]
<1> DEFINE mv == [m EXCEPT ![v] = @ \cup rows]
           reached(u) == (IF u = v THEN rows ELSE {}) \cup RowsUnder(u, v, rows)
<1>1. rows \subseteq Nat
  BY RowsOfAreNat
<1>2. mv \in Masks /\ \A u \in Vectors : mv[u] = IF u = v THEN m[v] \cup rows ELSE m[u]
  BY <1>1 DEF Masks
<1>3. n = [u \in Vectors |-> mv[u] \cup RowsUnder(u, v, rows)]
  BY <1>1, CoveredRight DEF NN!Nulled, NN!clear_nested
<1>4. \A u \in Vectors : n[u] = m[u] \cup reached(u) /\ x[u] = w[u] \ reached(u)
  BY <1>2, <1>3, ReachedRight
<1>5. n \in Masks /\ x \in Masks
  BY <1>2, <1>3 DEF Masks, RowsUnder
<1> HIDE DEF mv
<1>6. ASSUME NEW u \in Vectors PROVE n[u] \subseteq NN!RowsOf(u) /\ n[u] \cap x[u] = {}
  <2>1. m[u] \subseteq NN!RowsOf(u) /\ m[u] \cap w[u] = {}
    BY DEF NullsReach
  <2>2. RowsUnder(u, v, rows) \subseteq NN!RowsOf(u)
    BY RowsOfBelow DEF RowsUnder
  <2> QED
    BY <1>4, <2>1, <2>2
<1>7. ASSUME NEW u \in Vectors, NEW t \in Vectors, NN!IsBelow(t, u), NEW r \in Nat,
             NN!RowAbove(t, u, r) \in n[u]
      PROVE  r \in n[t] \cup x[t]
  <2> DEFINE a == NN!RowAbove(t, u, r)
  <2>1. CASE a \in m[u]
    BY <1>4, <1>7, <2>1 DEF NullsReach
  <2>2. CASE u = v /\ a \in rows
    BY <1>4, <1>7, <2>2 DEF RowsUnder
  <2>3. CASE a \in RowsUnder(u, v, rows)
    <3>1. NN!IsBelow(u, v) /\ NN!RowAbove(u, v, a) \in rows
      BY <2>3 DEF RowsUnder
    <3>2. NN!IsBelow(t, v) /\ NN!RowAbove(t, v, r) \in rows
      BY <1>7, <3>1, Descent, AboveAbove
    <3> QED
      BY <1>4, <3>2 DEF RowsUnder
  <2> QED
    BY <1>4, <1>7, <2>1, <2>2, <2>3
<1>8. NullsReach(n, x)
  BY <1>6, <1>7 DEF NullsReach
<1>9. rows \subseteq n[v] /\ m[<<>>] \cup w[<<>>] \subseteq n[<<>>] \cup x[<<>>]
  BY <1>4, TreeAssumption
<1> QED
  BY <1>5, <1>8, <1>9

\* Making a NULL row valid again, with all below it.
LEMMA ValidRight ==
    ASSUME mask \in Masks, revived \in Masks, NullsReach(mask, revived),
           NEW v \in Vectors, NEW row \in NN!RowsOf(v), row \in mask[v],
           NN!set_valid(v, row)
    PROVE  /\ mask' \in Masks /\ revived' \in Masks /\ NullsReach(mask', revived')
           /\ mask[<<>>] \cup revived[<<>>] \subseteq mask'[<<>>] \cup revived'[<<>>]
<1> DEFINE mv == [mask EXCEPT ![v] = @ \ {row}]
           reached(u) == (IF u = v THEN {row} ELSE {}) \cup RowsUnder(u, v, {row})
<1>m. /\ mask' = NN!restore_nested(mv, v, {row})
      /\ revived' = [u \in Vectors |-> revived[u] \cup NN!Reached(v, {row})[u]]
  BY DEF NN!set_valid
<1>1. row \in Nat
  BY RowsOfAreNat
<1>2. mv \in Masks /\ \A u \in Vectors : mv[u] = IF u = v THEN mask[v] \ {row} ELSE mask[u]
  BY DEF Masks
<1>3. mask' = [u \in Vectors |-> mv[u] \ RowsUnder(u, v, {row})]
  BY <1>1, <1>m, CoveredRight DEF NN!restore_nested
<1>4. \A u \in Vectors : mask'[u] = mask[u] \ reached(u) /\ revived'[u] = revived[u] \cup reached(u)
  <2>1. {row} \in SUBSET NN!RowsOf(v)
    OBVIOUS
  <2>2. \A u \in Vectors : NN!Reached(v, {row})[u] = reached(u)
    BY <2>1, ReachedRight
  <2>3. \A u \in Vectors : revived'[u] = revived[u] \cup NN!Reached(v, {row})[u]
    BY <1>m
  <2>4. ASSUME NEW u \in Vectors PROVE mask'[u] = mask[u] \ reached(u)
    <3>1. mask'[u] = (IF u = v THEN mask[v] \ {row} ELSE mask[u]) \ RowsUnder(u, v, {row})
      BY <1>2, <1>3
    <3>2. CASE u = v
      BY <3>1, <3>2
    <3>3. CASE u # v
      BY <3>1, <3>3
    <3> QED
      BY <3>2, <3>3
  <2> HIDE DEF reached
  <2> QED
    BY <2>2, <2>3, <2>4
<1>5. mask' \in Masks
  BY <1>2, <1>3 DEF Masks
<1>6. revived' \in Masks
  <2>1. \A u \in Vectors : reached(u) \subseteq Nat
    BY <1>1 DEF RowsUnder
  <2>2. \A u \in Vectors : revived[u] \subseteq Nat
    BY DEF Masks
  <2>3. \A u \in Vectors : revived'[u] \subseteq Nat
    <3> HIDE DEF reached
    <3> QED
      BY <1>4, <2>1, <2>2
  <2>4. revived' = [u \in Vectors |-> revived'[u]]
    BY <1>m
  <2> QED
    BY <2>3, <2>4 DEF Masks
<1> HIDE DEF reached
<1>7. NullsReach(mask', revived')
  <2>1. ASSUME NEW u \in Vectors
        PROVE  mask'[u] \subseteq NN!RowsOf(u) /\ mask'[u] \cap revived'[u] = {}
    <3>1. mask[u] \subseteq NN!RowsOf(u) /\ mask[u] \cap revived[u] = {}
      BY DEF NullsReach
    <3> QED
      BY <1>4, <3>1
  <2>2. ASSUME NEW u \in Vectors, NEW t \in Vectors, NN!IsBelow(t, u), NEW r \in Nat,
               NN!RowAbove(t, u, r) \in mask'[u]
        PROVE  r \in mask'[t] \cup revived'[t]
    <3>1. NN!RowAbove(t, u, r) \in mask[u]
      BY <1>4, <2>2
    <3>2. r \in mask[t] \cup revived[t]
      BY <2>2, <3>1 DEF NullsReach
    <3> QED
      BY <1>4, <3>2
  <2> QED
    BY <2>1, <2>2 DEF NullsReach
<1>8. mask[<<>>] \cup revived[<<>>] \subseteq mask'[<<>>] \cup revived'[<<>>]
  BY <1>4, TreeAssumption
<1> QED
  BY <1>5, <1>6, <1>7, <1>8

\* The masks hold rows of their vectors, and NULLs reach down in them.
NullsInv ==
    /\ mask \in Masks /\ revived \in Masks
    /\ NullsReach(mask, revived)
    /\ spread \subseteq mask[<<>>] \cup revived[<<>>]

LEMMA NullsInit == NN!Init => NullsInv
<1>1. <<>> \in Vectors
  BY TreeAssumption
<1> QED
  BY <1>1 DEF NN!Init, NullsInv, Masks, NullsReach

LEMMA SetNullRange ==
    ASSUME NullsInv, NEW v \in Vectors, NEW from \in NN!RowsOf(v), NEW to \in NN!RowsOf(v),
           NN!set_null_range(v, from..to)
    PROVE  NullsInv'
<1> DEFINE rows == from..to
<1>1. rows \in SUBSET NN!RowsOf(v)
  <2>1. from \in Nat /\ to \in Nat /\ NN!RowsOf(v) \subseteq Nat
    BY RowsOfAreNat
  <2>2. NN!RowsOf(v) = 0..(OutputRows * NN!RowsPerRow[<<>>][v] - 1)
    BY DEF NN!RowsOf
  <2>3. OutputRows * NN!RowsPerRow[<<>>][v] \in Nat
    BY TreeAssumption, RowsPositive
  <2> QED
    BY <2>1, <2>2, <2>3
<1>2. /\ mask' = NN!Nulled(mask, v, rows) /\ spread' = spread
      /\ revived' = [u \in Vectors |-> revived[u] \ NN!Reached(v, rows)[u]]
  BY DEF NN!set_null_range
<1> HIDE DEF rows
<1>3. /\ mask' \in Masks /\ revived' \in Masks /\ NullsReach(mask', revived')
      /\ mask[<<>>] \cup revived[<<>>] \subseteq mask'[<<>>] \cup revived'[<<>>]
  BY <1>1, <1>2, NulledRight DEF NullsInv
<1> QED
  BY <1>2, <1>3 DEF NullsInv, NullsReach

LEMMA SetValid ==
    ASSUME NullsInv, NEW v \in Vectors, NEW row \in NN!RowsOf(v), NN!set_valid(v, row)
    PROVE  NullsInv'
<1>1. CASE row \in mask[v]
  <2>1. spread' = spread
    BY DEF NN!set_valid
  <2>2. /\ mask' \in Masks /\ revived' \in Masks /\ NullsReach(mask', revived')
        /\ mask[<<>>] \cup revived[<<>>] \subseteq mask'[<<>>] \cup revived'[<<>>]
    BY <1>1, ValidRight DEF NullsInv
  <2> QED
    BY <2>1, <2>2 DEF NullsInv, NullsReach
<1>2. CASE row \notin mask[v]
  BY <1>2 DEF NN!set_valid, NullsInv, NullsReach
<1> QED
  BY <1>1, <1>2

LEMMA PropagateNulls ==
    ASSUME NullsInv, NEW args, NN!propagate_nulls(args)
    PROVE  NullsInv'
<1> DEFINE rows == {r \in 0..(OutputRows - 1) : NN!any_null(args, r)}
<1>1. <<>> \in Vectors /\ OutputRows \in Nat
  BY TreeAssumption
<1>2. NN!RowsOf(<<>>) = 0..(OutputRows - 1)
  <2>1. NN!RowsPerRow[<<>>][<<>>] = 1
    BY <1>1, DepthIsNat, RowsBelow
  <2> QED
    BY <1>1, <2>1 DEF NN!RowsOf
<1>3. rows \in SUBSET NN!RowsOf(<<>>)
  BY <1>2
<1>4. /\ mask' = NN!Nulled(mask, <<>>, rows) /\ spread' = rows
      /\ revived' = [u \in Vectors |-> revived[u] \ NN!Reached(<<>>, rows)[u]]
  BY DEF NN!propagate_nulls
<1> HIDE DEF rows
<1>5. /\ mask' \in Masks /\ revived' \in Masks /\ NullsReach(mask', revived')
      /\ rows \subseteq mask'[<<>>]
  BY <1>1, <1>3, <1>4, NulledRight DEF NullsInv
<1> QED
  BY <1>4, <1>5 DEF NullsInv, NullsReach

LEMMA NullsStep == NullsInv /\ [NN!Next]_(NN!nnVars) => NullsInv'
<1> SUFFICES ASSUME NullsInv, [NN!Next]_(NN!nnVars) PROVE NullsInv'
  OBVIOUS
<1>1. CASE UNCHANGED NN!nnVars
  BY <1>1 DEF NN!nnVars, NullsInv, NullsReach
<1> QED
  BY <1>1, SetNullRange, SetValid, PropagateNulls DEF NN!Next

\* For any type tree, chunk and arguments, and whatever was made NULL and valid
\* in between: below a NULL row all is NULL, at any depth, that was not itself
\* made valid since, what was made valid stays so, and the rows a NULL argument
\* makes NULL are (vector/nested_null.rs, vector/writer.rs, data_chunk.rs).
THEOREM NullsCorrect == NN!Spec => []NullsReachDown
<1>1. ASSUME NullsInv PROVE NullsReachDown
  <2>1. ASSUME NEW u \in Vectors, NEW null \in mask[u]
        PROVE  null \in NN!RowsOf(u) \ revived[u]
    BY <1>1, <2>1 DEF NullsInv, NullsReach
  <2>2. ASSUME NEW u \in Vectors, NEW null \in mask[u], NEW v \in Vectors, NN!IsBelow(v, u),
               NEW row \in NN!RowsOf(v), NN!RowAbove(v, u, row) = null
        PROVE  row \in mask[v] \cup revived[v]
    BY <1>1, <2>2, RowsOfAreNat DEF NullsInv, NullsReach
  <2>3. spread \subseteq mask[<<>>] \cup revived[<<>>]
    BY <1>1 DEF NullsInv
  <2> QED
    BY <2>1, <2>2, <2>3 DEF NullsReachDown, NN!NullsReachDown
<1> QED
  BY <1>1, NullsInit, NullsStep, PTL DEF NN!Spec

-----------------------------------------------------------------------------
(* The three readings of an array are defined: what is said of a node is   *)
(* said of those before it first.                                          *)

RowsOfNode(a, i, made) == [p \in Int |-> IM!RowOf(a[i], p, IM!Before(i, made))]
VectorsOfNode(a, i, made) == [c \in IM!Passed |-> IM!Convert(a, a[i], c, IM!Before(i, made))]
ChecksOfNode(a, i, made) == [c \in IM!Ctx |-> IM!Check(a, a[i], c, IM!Before(i, made))]

LEMMA ArrowRowsDefined ==
    ASSUME NEW a, NEW size \in Nat, DOMAIN a = 1..size
    PROVE  IM!ArrowRow(a) = [i \in 1..size |-> RowsOfNode(a, i, IM!ArrowRow(a))]
<1> DEFINE solves(n, f) == f = [i \in 1..n |-> RowsOfNode(a, i, f)]
<1> DEFINE failing == {n \in Nat : ~ \E f : solves(n, f)}
<1>1. ASSUME NEW i \in Nat \ {0}, NEW f, NEW g, \A j \in 1..(i - 1) : f[j] = g[j]
      PROVE  RowsOfNode(a, i, f) = RowsOfNode(a, i, g)
  <2>1. IM!Before(i, f) = IM!Before(i, g)
    BY <1>1 DEF IM!Before
  <2> QED
    BY <2>1 DEF RowsOfNode
<1>2. failing = {}
  <2> SUFFICES ASSUME failing # {} PROVE FALSE
    OBVIOUS
  <2>1. PICK n \in failing : \A m \in failing : n <= m
    BY LeastNumber
  <2>2. CASE n = 0
    <3>1. solves(0, <<>>)
      OBVIOUS
    <3> QED
      BY <2>1, <2>2, <3>1
  <2>3. CASE n # 0
    <3>1. n - 1 \in Nat /\ n - 1 \notin failing
      <4>1. n \in Nat
        OBVIOUS
      <4> HIDE DEF failing
      <4> QED
        BY <2>1, <2>3, <4>1
    <3>2. PICK g : solves(n - 1, g)
      BY <3>1
    <3> DEFINE f == [i \in 1..n |-> IF i = n THEN RowsOfNode(a, n, g) ELSE g[i]]
    <3>3. n \in Nat \ {0}
      BY <2>3
    <3>4. \A i \in 1..(n - 1) : i \in 1..n /\ i # n
      BY <3>3
    <3>5. \A i \in 1..(n - 1) : f[i] = g[i]
      BY <3>4
    <3>6. f[n] = RowsOfNode(a, n, g)
      BY <3>3
    <3>7. \A i \in 1..(n - 1) : g[i] = RowsOfNode(a, i, g)
      BY <3>2
    <3>8. f = [i \in 1..n |-> f[i]]
      OBVIOUS
    <3> HIDE DEF f
    <3>9. ASSUME NEW i \in 1..n PROVE f[i] = RowsOfNode(a, i, f)
      <4>1. i \in Nat \ {0} /\ \A j \in 1..(i - 1) : f[j] = g[j]
        BY <3>3, <3>5
      <4>2. RowsOfNode(a, i, f) = RowsOfNode(a, i, g)
        BY <1>1, <4>1
      <4>3. CASE i = n
        BY <3>6, <4>2, <4>3
      <4>4. CASE i # n
        <5>1. i \in 1..(n - 1)
          BY <3>3, <4>4
        <5> QED
          BY <3>5, <3>7, <4>2, <5>1
      <4> QED
        BY <4>3, <4>4
    <3>10. solves(n, f)
      <4>1. \A i \in 1..n : f[i] = RowsOfNode(a, i, f)
        BY <3>9
      <4> HIDE DEF failing
      <4> QED
        BY <3>8, <4>1
    <3> QED
      BY <2>1, <3>10
  <2> QED
    BY <2>2, <2>3
<1>3. size \notin failing
  BY <1>2
<1>4. PICK f : solves(size, f)
  BY <1>3
<1>5. IM!ArrowRow(a) = CHOOSE made : made = [i \in DOMAIN a |-> RowsOfNode(a, i, made)]
  BY DEF IM!ArrowRow, RowsOfNode
<1>6. f = [i \in DOMAIN a |-> RowsOfNode(a, i, f)]
  BY <1>4
<1> QED
  BY <1>5, <1>6

LEMMA VectorsDefined ==
    ASSUME NEW a, NEW size \in Nat, DOMAIN a = 1..size
    PROVE  IM!Converted(a) = [i \in 1..size |-> VectorsOfNode(a, i, IM!Converted(a))]
<1> DEFINE solves(n, f) == f = [i \in 1..n |-> VectorsOfNode(a, i, f)]
<1> DEFINE failing == {n \in Nat : ~ \E f : solves(n, f)}
<1>1. ASSUME NEW i \in Nat \ {0}, NEW f, NEW g, \A j \in 1..(i - 1) : f[j] = g[j]
      PROVE  VectorsOfNode(a, i, f) = VectorsOfNode(a, i, g)
  <2>1. IM!Before(i, f) = IM!Before(i, g)
    BY <1>1 DEF IM!Before
  <2> QED
    BY <2>1 DEF VectorsOfNode
<1>2. failing = {}
  <2> SUFFICES ASSUME failing # {} PROVE FALSE
    OBVIOUS
  <2>1. PICK n \in failing : \A m \in failing : n <= m
    BY LeastNumber
  <2>2. CASE n = 0
    <3>1. solves(0, <<>>)
      OBVIOUS
    <3> QED
      BY <2>1, <2>2, <3>1
  <2>3. CASE n # 0
    <3>1. n - 1 \in Nat /\ n - 1 \notin failing
      <4>1. n \in Nat
        OBVIOUS
      <4> HIDE DEF failing
      <4> QED
        BY <2>1, <2>3, <4>1
    <3>2. PICK g : solves(n - 1, g)
      BY <3>1
    <3> DEFINE f == [i \in 1..n |-> IF i = n THEN VectorsOfNode(a, n, g) ELSE g[i]]
    <3>3. n \in Nat \ {0}
      BY <2>3
    <3>4. \A i \in 1..(n - 1) : i \in 1..n /\ i # n
      BY <3>3
    <3>5. \A i \in 1..(n - 1) : f[i] = g[i]
      BY <3>4
    <3>6. f[n] = VectorsOfNode(a, n, g)
      BY <3>3
    <3>7. \A i \in 1..(n - 1) : g[i] = VectorsOfNode(a, i, g)
      BY <3>2
    <3>8. f = [i \in 1..n |-> f[i]]
      OBVIOUS
    <3> HIDE DEF f
    <3>9. ASSUME NEW i \in 1..n PROVE f[i] = VectorsOfNode(a, i, f)
      <4>1. i \in Nat \ {0} /\ \A j \in 1..(i - 1) : f[j] = g[j]
        BY <3>3, <3>5
      <4>2. VectorsOfNode(a, i, f) = VectorsOfNode(a, i, g)
        BY <1>1, <4>1
      <4>3. CASE i = n
        BY <3>6, <4>2, <4>3
      <4>4. CASE i # n
        <5>1. i \in 1..(n - 1)
          BY <3>3, <4>4
        <5> QED
          BY <3>5, <3>7, <4>2, <5>1
      <4> QED
        BY <4>3, <4>4
    <3>10. solves(n, f)
      <4>1. \A i \in 1..n : f[i] = VectorsOfNode(a, i, f)
        BY <3>9
      <4> HIDE DEF failing
      <4> QED
        BY <3>8, <4>1
    <3> QED
      BY <2>1, <3>10
  <2> QED
    BY <2>2, <2>3
<1>3. size \notin failing
  BY <1>2
<1>4. PICK f : solves(size, f)
  BY <1>3
<1>5. IM!Converted(a) = CHOOSE made : made = [i \in DOMAIN a |-> VectorsOfNode(a, i, made)]
  BY DEF IM!Converted, VectorsOfNode
<1>6. f = [i \in DOMAIN a |-> VectorsOfNode(a, i, f)]
  BY <1>4
<1> QED
  BY <1>5, <1>6

LEMMA ChecksDefined ==
    ASSUME NEW a, NEW size \in Nat, DOMAIN a = 1..size
    PROVE  IM!CheckNode(a) = [i \in 1..size |-> ChecksOfNode(a, i, IM!CheckNode(a))]
<1> DEFINE solves(n, f) == f = [i \in 1..n |-> ChecksOfNode(a, i, f)]
<1> DEFINE failing == {n \in Nat : ~ \E f : solves(n, f)}
<1>1. ASSUME NEW i \in Nat \ {0}, NEW f, NEW g, \A j \in 1..(i - 1) : f[j] = g[j]
      PROVE  ChecksOfNode(a, i, f) = ChecksOfNode(a, i, g)
  <2>1. IM!Before(i, f) = IM!Before(i, g)
    BY <1>1 DEF IM!Before
  <2> QED
    BY <2>1 DEF ChecksOfNode
<1>2. failing = {}
  <2> SUFFICES ASSUME failing # {} PROVE FALSE
    OBVIOUS
  <2>1. PICK n \in failing : \A m \in failing : n <= m
    BY LeastNumber
  <2>2. CASE n = 0
    <3>1. solves(0, <<>>)
      OBVIOUS
    <3> QED
      BY <2>1, <2>2, <3>1
  <2>3. CASE n # 0
    <3>1. n - 1 \in Nat /\ n - 1 \notin failing
      <4>1. n \in Nat
        OBVIOUS
      <4> HIDE DEF failing
      <4> QED
        BY <2>1, <2>3, <4>1
    <3>2. PICK g : solves(n - 1, g)
      BY <3>1
    <3> DEFINE f == [i \in 1..n |-> IF i = n THEN ChecksOfNode(a, n, g) ELSE g[i]]
    <3>3. n \in Nat \ {0}
      BY <2>3
    <3>4. \A i \in 1..(n - 1) : i \in 1..n /\ i # n
      BY <3>3
    <3>5. \A i \in 1..(n - 1) : f[i] = g[i]
      BY <3>4
    <3>6. f[n] = ChecksOfNode(a, n, g)
      BY <3>3
    <3>7. \A i \in 1..(n - 1) : g[i] = ChecksOfNode(a, i, g)
      BY <3>2
    <3>8. f = [i \in 1..n |-> f[i]]
      OBVIOUS
    <3> HIDE DEF f
    <3>9. ASSUME NEW i \in 1..n PROVE f[i] = ChecksOfNode(a, i, f)
      <4>1. i \in Nat \ {0} /\ \A j \in 1..(i - 1) : f[j] = g[j]
        BY <3>3, <3>5
      <4>2. ChecksOfNode(a, i, f) = ChecksOfNode(a, i, g)
        BY <1>1, <4>1
      <4>3. CASE i = n
        BY <3>6, <4>2, <4>3
      <4>4. CASE i # n
        <5>1. i \in 1..(n - 1)
          BY <3>3, <4>4
        <5> QED
          BY <3>5, <3>7, <4>2, <5>1
      <4> QED
        BY <4>3, <4>4
    <3>10. solves(n, f)
      <4>1. \A i \in 1..n : f[i] = ChecksOfNode(a, i, f)
        BY <3>9
      <4> HIDE DEF failing
      <4> QED
        BY <3>8, <4>1
    <3> QED
      BY <2>1, <3>10
  <2> QED
    BY <2>2, <2>3
<1>3. size \notin failing
  BY <1>2
<1>4. PICK f : solves(size, f)
  BY <1>3
<1>5. IM!CheckNode(a) = CHOOSE made : made = [i \in DOMAIN a |-> ChecksOfNode(a, i, made)]
  BY DEF IM!CheckNode, ChecksOfNode
<1>6. f = [i \in DOMAIN a |-> ChecksOfNode(a, i, f)]
  BY <1>4
<1> QED
  BY <1>5, <1>6

-----------------------------------------------------------------------------
(* The arrays a producer builds.                                           *)

Kinds == {"null", "leaf", "copied", "struct", "list", "map", "view", "fixed",
          "union", "recoded", "runend", "dict"}

\* A node whose buffers cover its rows and whose children come before it.
SoundNode(a, i) ==
    LET node == a[i]
        inner == a[node.children[1]] IN
    /\ node.kind \in Kinds
    /\ node.length \in Nat /\ node.offset \in Nat
    /\ node.count = 0 \/ node.kind \in IM!Unions \cup {"runend", "null"} => node.nulls = {}
    /\ \A f \in DOMAIN node.children : node.children[f] \in 1..(i - 1)
    /\ node.kind \notin {"null", "leaf", "copied"} => 1 \in DOMAIN node.children
    /\ node.kind \in {"list", "map"} =>
          \A at \in node.offset..(node.offset + node.length) : node.data[at] \in Int
    /\ node.kind = "view" =>
          \A at \in node.offset..(node.offset + node.length - 1) :
              node.data[at].offset \in Int /\ node.data[at].size \in Int
    /\ node.kind = "fixed" => node.data \in Nat
    /\ node.kind = "union" =>
          \A at \in node.offset..(node.offset + node.length - 1) :
              node.data[at] + 1 \in DOMAIN node.children
    /\ node.kind = "runend" =>
          /\ DOMAIN node.data \subseteq 0..(inner.length - 1)
          /\ \A k \in DOMAIN node.data : node.data[k] \in Int
          /\ \E k \in DOMAIN node.data : node.data[k] >= node.offset + node.length

\* What DuckDB passes to a node is what the wrapper takes it to pass.
Meets(node, c, d) ==
    /\ d.nested = c.nested /\ d.parent = c.parent /\ d.size = c.size
    /\ d.route = c.route /\ d.inMap = c.inMap
    /\ IM!CopiesValidity(node) => d.vparent = c.vparent
    /\ d.masked \subseteq IM!RowIds(d) /\ d.spread \subseteq IM!RowIds(d)
    /\ d.masked # {} => c.structNulls
    /\ d.spread # {} => c.broadcastNulls

\* A vector made safely holds the rows from `inherited` on, but where the rows
\* around them are NULL.
Agrees(vector, row, c, d) ==
    /\ vector.safe /\ DOMAIN vector.rows = IM!RowIds(d)
    /\ \A r \in IM!RowIds(d) \ (d.masked \cup d.spread) :
          vector.rows[r] = row[c.inherited + r]

\* A node that passes its check is converted right, however it is called.
Right(node, check, vector, row) ==
    \A c \in IM!Ctx, d \in IM!Passed :
        Meets(node, c, d) /\ check[c] => Agrees(vector[d], row, c, d)

Meaning(node, rows) == [p \in Int |-> IM!RowOf(node, p, rows)]

-----------------------------------------------------------------------------
(* What the walk's first checks say, of any node but a dictionary.         *)

\* The fields of the two contexts.
LEMMA Fields ==
    ASSUME NEW c \in IM!Ctx, NEW d \in IM!Passed
    PROVE  /\ c.nested \in {None} \cup Nat /\ c.parent \in Nat /\ c.vparent \in Nat
           /\ c.inherited \in Nat /\ c.size \in Nat
           /\ d.nested \in {None} \cup Nat /\ d.parent \in Nat /\ d.vparent \in Nat
           /\ d.size \in Nat
BY DEF IM!Ctx, IM!Passed, IM!Offsets

\* Where each row of the vector comes from, and that it is in the buffers.
LEMMA PlainRows ==
    ASSUME NEW node, node.length \in Nat, node.offset \in Nat,
           node.count = 0 \/ node.kind \in IM!Unions \cup {"runend", "null"} => node.nulls = {},
           NEW c \in IM!Ctx, NEW d \in IM!Passed, Meets(node, c, d),
           IM!FitsOneVector(c.size), IM!Covers(node, c),
           c.size > 0 /\ IM!CopiesValidity(node) =>
               IM!DuckValidity(c, node.offset) = IM!ArrowStart(c, node.offset)
    PROVE  /\ \A r \in IM!RowIds(d) :
                 /\ r \in Nat /\ c.inherited + r \in Int
                 /\ (c.inherited + r) + node.offset = IM!ArrowStart(c, node.offset) + r
                 /\ IM!ArrowStart(c, node.offset) + r \in IM!Positions(node)
                 /\ IM!ArrowStart(c, node.offset) + r \in node.nulls
                       <=> r \in IM!OwnNulls(node, d)
           /\ IM!Inside(node, d)
<1> DEFINE start == IM!ArrowStart(c, node.offset)
<1>a. /\ c.inherited \in Nat /\ c.size \in Nat /\ d.size = c.size
      /\ c.nested \in {None} \cup Nat /\ c.vparent \in Nat /\ d.nested = c.nested
  BY Fields DEF Meets
<1>b. start = node.offset + c.inherited /\ start \in Nat
  BY <1>a DEF IM!ArrowStart
<1>c. c.size = 0 \/ c.inherited + c.size <= node.length
  BY DEF IM!Covers
<1> HIDE DEF start
<1>1. ASSUME NEW r \in IM!RowIds(d)
      PROVE  /\ r \in Nat /\ c.size > 0 /\ c.inherited + r \in Int
             /\ (c.inherited + r) + node.offset = start + r
             /\ start + r \in IM!Positions(node)
  <2>1. r \in 0..(c.size - 1)
    BY <1>a DEF IM!RowIds
  <2>2. r \in Nat /\ r < c.size /\ c.size > 0 /\ c.inherited + c.size <= node.length
    BY <1>a, <1>c, <2>1
  <2>3. start + r \in 0..(node.offset + node.length - 1)
    BY <1>a, <1>b, <2>2
  <2> QED
    BY <1>a, <1>b, <2>2, <2>3 DEF IM!Positions
<1>2. ASSUME IM!CopiesValidity(node), c.size > 0
      PROVE  IM!ValidityAt(node, d) = start
  <2>1. d.vparent = c.vparent /\ IM!DuckValidity(c, node.offset) = start
    BY <1>2 DEF Meets, start
  <2> QED
    BY <1>a, <2>1 DEF IM!ValidityAt, IM!From, IM!DuckValidity
<1>3. ASSUME NEW r \in IM!RowIds(d)
      PROVE  start + r \in node.nulls <=> r \in IM!OwnNulls(node, d)
  <2>1. CASE IM!CopiesValidity(node)
    BY <1>1, <1>2, <2>1 DEF IM!OwnNulls
  <2>2. CASE ~ IM!CopiesValidity(node)
    BY <2>2 DEF IM!OwnNulls, IM!CopiesValidity
  <2> QED
    BY <2>1, <2>2
<1>4. IM!Inside(node, d)
  <2>1. IM!NextPowerOfTwo(d.size) <= MaxCapacity
    BY <1>a DEF IM!FitsOneVector
  <2>2. IM!CopiesValidity(node) => IM!Within(node, IM!ValidityAt(node, d), d.size)
    <3>1. CASE c.size = 0
      BY <1>a, <3>1 DEF IM!Within
    <3>2. CASE c.size # 0
      BY <1>a, <1>b, <1>c, <1>2, <3>2 DEF IM!Within
    <3> QED
      BY <3>1, <3>2
  <2> QED
    BY <2>1, <2>2 DEF IM!Inside
<1> QED
  BY <1>1, <1>3, <1>4 DEF start

\* The values of all but structs and fixed-size lists are read there too.
LEMMA PlainReads ==
    ASSUME NEW node, node.length \in Nat, node.offset \in Nat,
           NEW c \in IM!Ctx, NEW d \in IM!Passed, Meets(node, c, d), IM!Covers(node, c),
           c.size > 0 => IM!DuckStart(c, node.offset) = IM!ArrowStart(c, node.offset)
    PROVE  /\ c.size > 0 => IM!ValuesAt(node, d) = IM!ArrowStart(c, node.offset)
           /\ IM!Within(node, IM!ValuesAt(node, d), d.size)
           /\ IM!ValuesAt(node, d) = IM!DuckStart(c, node.offset)
<1>1. /\ c.inherited \in Nat /\ c.size \in Nat /\ d.size = c.size
      /\ c.nested \in {None} \cup Nat /\ d.nested = c.nested /\ d.parent = c.parent
  BY Fields DEF Meets
<1>2. IM!ValuesAt(node, d) = IM!DuckStart(c, node.offset)
  BY <1>1 DEF IM!ValuesAt, IM!From, IM!DuckStart
<1>3. c.size = 0 \/ c.inherited + c.size <= node.length
  BY DEF IM!Covers
<1>4. CASE c.size = 0
  BY <1>1, <1>2, <1>4 DEF IM!Within
<1>5. CASE c.size # 0
  BY <1>1, <1>2, <1>3, <1>5 DEF IM!Within, IM!ArrowStart
<1> QED
  BY <1>2, <1>4, <1>5, <1>1

\* The checks of every node but a dictionary, an array of NULLs and run ends.
LEMMA PlainChecked ==
    ASSUME NEW a, NEW node, NEW c, NEW checks, IM!Check(a, node, c, checks),
           node.kind \notin {"dict", "null", "runend"}
    PROVE  /\ IM!FitsOneVector(c.size) /\ IM!Covers(node, c)
           /\ c.size > 0 /\ IM!CopiesValidity(node) =>
                 IM!DuckValidity(c, node.offset) = IM!ArrowStart(c, node.offset)
           /\ c.size > 0 /\ node.kind \notin {"struct", "fixed"} =>
                 IM!DuckStart(c, node.offset) = IM!ArrowStart(c, node.offset)
           /\ IM!CheckKind(a, node, c, checks)
           /\ node.kind \in IM!Unions => node.count = 0
<1>1. /\ IM!FitsOneVector(c.size) /\ IM!CheckPlain(a, node, c, checks)
      /\ node.kind \in IM!Unions => node.count = 0
  BY DEF IM!Check
<1> QED
  BY <1>1 DEF IM!CheckPlain

\* Where Arrow puts the first row, and what row `r` is in the array: there, and
\* NULL where DuckDB makes it NULL for the node's own sake.
PlacedAt(node, rows, c, d, start) ==
    /\ start \in Nat
    /\ \A r \in IM!RowIds(d) :
          /\ r \in Nat /\ start + r \in IM!Positions(node)
          /\ node.kind # "null" =>
                Meaning(node, rows)[c.inherited + r] = IM!RowOf(node, c.inherited + r, rows)
          /\ (c.inherited + r) + node.offset = start + r
          /\ r \notin d.masked \cup d.spread =>
                (start + r \in node.nulls <=> r \in IM!NullRows(node, d))

LEMMA PlainNode ==
    ASSUME NEW a, NEW i, SoundNode(a, i), a[i].kind \notin {"dict", "null", "runend"},
           NEW checks, NEW rows, NEW c \in IM!Ctx, NEW d \in IM!Passed, Meets(a[i], c, d),
           IM!Check(a, a[i], c, checks)
    PROVE  /\ PlacedAt(a[i], rows, c, d, IM!ArrowStart(c, a[i].offset))
           /\ IM!Inside(a[i], d)
           /\ IM!ValuesAt(a[i], d) = IM!DuckStart(c, a[i].offset)
           /\ a[i].kind \notin {"struct", "fixed"} =>
                 /\ IM!Reads(a[i], d)
                 /\ c.size > 0 => IM!ValuesAt(a[i], d) = IM!ArrowStart(c, a[i].offset)
           /\ IM!CheckKind(a, a[i], c, checks)
<1> DEFINE node == a[i]
<1> DEFINE start == IM!ArrowStart(c, node.offset)
<1>1. /\ node.length \in Nat /\ node.offset \in Nat
      /\ node.count = 0 \/ node.kind \in IM!Unions \cup {"runend", "null"} => node.nulls = {}
  BY DEF SoundNode
<1>2. /\ IM!FitsOneVector(c.size) /\ IM!Covers(node, c)
      /\ c.size > 0 /\ IM!CopiesValidity(node) => IM!DuckValidity(c, node.offset) = start
      /\ c.size > 0 /\ node.kind \notin {"struct", "fixed"} =>
            IM!DuckStart(c, node.offset) = start
      /\ IM!CheckKind(a, node, c, checks)
  BY PlainChecked
<1>3. start \in Nat
  BY <1>1, Fields DEF IM!ArrowStart
<1>4. IM!ValuesAt(node, d) = IM!DuckStart(c, node.offset)
  BY Fields DEF IM!ValuesAt, IM!From, IM!DuckStart, Meets
<1> HIDE DEF start
<1>5. /\ \A r \in IM!RowIds(d) :
            /\ r \in Nat /\ c.inherited + r \in Int
            /\ (c.inherited + r) + node.offset = start + r
            /\ start + r \in IM!Positions(node)
            /\ start + r \in node.nulls <=> r \in IM!OwnNulls(node, d)
      /\ IM!Inside(node, d)
  BY <1>1, <1>2, PlainRows DEF start
<1>6. PlacedAt(node, rows, c, d, start)
  BY <1>3, <1>5 DEF PlacedAt, Meaning, IM!NullRows
<1>7. ASSUME node.kind \notin {"struct", "fixed"}
      PROVE  /\ IM!Reads(node, d)
             /\ c.size > 0 => IM!ValuesAt(node, d) = start
  <2>1. /\ c.size > 0 => IM!ValuesAt(node, d) = start
        /\ IM!Within(node, IM!ValuesAt(node, d), d.size)
    BY <1>1, <1>2, <1>7, PlainReads DEF start
  <2> QED
    BY <1>5, <2>1 DEF IM!Reads
<1> QED
  BY <1>2, <1>4, <1>5, <1>6, <1>7 DEF start

\* A vector has a row only if it has any.
LEMMA SomeRow ==
    ASSUME NEW node, NEW c \in IM!Ctx, NEW d \in IM!Passed, Meets(node, c, d),
           NEW r \in IM!RowIds(d)
    PROVE  c.size > 0 /\ d.size = c.size
<1>1. c.size \in Nat /\ d.size = c.size
  BY Fields DEF Meets
<1> QED
  BY <1>1 DEF IM!RowIds

-----------------------------------------------------------------------------
(* One kind of node after the other.                                       *)

LEMMA NullRight ==
    ASSUME NEW a, NEW i, a[i].kind = "null", NEW vectors, NEW rows,
           NEW c \in IM!Ctx, NEW d \in IM!Passed, Meets(a[i], c, d)
    PROVE  Agrees(IM!Convert(a, a[i], d, vectors), Meaning(a[i], rows), c, d)
<1>1. IM!Convert(a, a[i], d, vectors) =
         [safe |-> TRUE, rows |-> [r \in IM!RowIds(d) |-> IM!Null]]
  BY DEF IM!Convert, IM!Unions, IM!Vector
<1>2. ASSUME NEW r \in IM!RowIds(d) PROVE Meaning(a[i], rows)[c.inherited + r] = IM!Null
  <2>1. c.inherited + r \in Int
    BY Fields DEF IM!RowIds
  <2> QED
    BY <2>1 DEF Meaning, IM!RowOf
<1> QED
  BY <1>1, <1>2 DEF Agrees

LEMMA LeafRight ==
    ASSUME NEW a, NEW i, SoundNode(a, i), a[i].kind \in {"leaf", "copied"},
           NEW checks, NEW vectors, NEW rows,
           NEW c \in IM!Ctx, NEW d \in IM!Passed, Meets(a[i], c, d),
           IM!Check(a, a[i], c, checks)
    PROVE  Agrees(IM!Convert(a, a[i], d, vectors), Meaning(a[i], rows), c, d)
<1> DEFINE node == a[i]
<1> DEFINE start == IM!ArrowStart(c, node.offset)
<1>1. /\ PlacedAt(node, rows, c, d, start) /\ IM!Reads(node, d)
      /\ c.size > 0 => IM!ValuesAt(node, d) = start
      /\ IM!CheckKind(a, node, c, checks)
  BY PlainNode
<1> HIDE DEF start
<1>2. node.kind = "copied" => d.size <= Limit
  BY <1>1 DEF IM!CheckKind, Meets
<1>3. IM!Convert(a, node, d, vectors) =
         [safe |-> TRUE,
          rows |-> [r \in IM!RowIds(d) |->
                       IF r \in IM!NullRows(node, d) THEN IM!Null
                       ELSE <<"at", IM!ValuesAt(node, d) + r>>]]
  <2>1. IM!Convert(a, node, d, vectors) = IM!ConvertLeaf(node, d)
    BY DEF IM!Convert, IM!Unions
  <2> QED
    BY <1>1, <1>2, <2>1 DEF IM!ConvertLeaf, IM!Vector
<1>4. ASSUME NEW r \in IM!RowIds(d) \ (d.masked \cup d.spread)
      PROVE  Meaning(node, rows)[c.inherited + r] =
                 IF r \in IM!NullRows(node, d) THEN IM!Null
                 ELSE <<"at", IM!ValuesAt(node, d) + r>>
  <2>1. Meaning(node, rows)[c.inherited + r] =
           IF start + r \in node.nulls THEN IM!Null ELSE <<"at", start + r>>
    BY <1>1 DEF PlacedAt, IM!RowOf
  <2>2. IM!ValuesAt(node, d) = start
    BY <1>1, SomeRow
  <2> QED
    BY <1>1, <2>1, <2>2 DEF PlacedAt
<1> QED
  BY <1>3, <1>4 DEF Agrees

LEMMA StructRight ==
    ASSUME NEW a, NEW i, SoundNode(a, i), a[i].kind = "struct",
           NEW checks, NEW vectors, NEW rows,
           \A f \in DOMAIN a[i].children :
               LET j == a[i].children[f] IN Right(a[j], checks[j], vectors[j], rows[j]),
           NEW c \in IM!Ctx, NEW d \in IM!Passed, Meets(a[i], c, d),
           IM!Check(a, a[i], c, checks)
    PROVE  Agrees(IM!Convert(a, a[i], d, vectors), Meaning(a[i], rows), c, d)
<1> DEFINE node == a[i]
<1> DEFINE start == IM!ArrowStart(c, node.offset)
<1> DEFINE cc == IM!FieldCtx(node, c)
<1> DEFINE dd == IM!FieldPassed(node, d)
<1> DEFINE Field(f) == vectors[node.children[f]][dd]
<1>1. /\ PlacedAt(node, rows, c, d, start) /\ IM!Inside(node, d)
      /\ IM!CheckKind(a, node, c, checks)
  BY PlainNode
<1>2. /\ cc \in IM!Ctx /\ dd \in IM!Passed /\ IM!RowIds(dd) = IM!RowIds(d)
      /\ dd.masked = IM!NullRows(node, d) /\ dd.spread = {} /\ cc.inherited = start
  <2>1. node.offset \in Nat /\ start \in Nat
    BY <1>1 DEF SoundNode, PlacedAt
  <2>2. cc \in IM!Ctx /\ cc.inherited = start
    <3>1. c.structNulls \/ c.broadcastNulls \/ IM!CopiesValidity(node) \in BOOLEAN
      BY DEF IM!CopiesValidity
    <3> QED
      BY <2>1, <3>1 DEF IM!FieldCtx, IM!Ctx, IM!Routes
  <2>3. IM!NullRows(node, d) \subseteq Nat
    BY DEF IM!NullRows, IM!OwnNulls, IM!RowIds, IM!Passed
  <2>4. /\ dd \in IM!Passed /\ dd.size = d.size
        /\ dd.masked = IM!NullRows(node, d) /\ dd.spread = {}
    BY <2>1, <2>3 DEF IM!FieldPassed, IM!Passed, IM!Routes
  <2> QED
    BY <2>2, <2>4 DEF IM!RowIds
<1>3. ASSUME NEW j PROVE Meets(a[j], cc, dd)
  <2>1. /\ dd.nested = cc.nested /\ dd.parent = cc.parent /\ dd.size = cc.size
        /\ dd.route = cc.route /\ dd.inMap = cc.inMap /\ dd.vparent = cc.vparent
    BY DEF IM!FieldPassed, IM!FieldCtx, IM!Passed, IM!Ctx, Meets
  <2>2. IM!NullRows(node, d) \subseteq IM!RowIds(d)
    BY DEF IM!NullRows, IM!OwnNulls, Meets
  <2>3. IM!NullRows(node, d) # {} => cc.structNulls
    BY DEF IM!NullRows, IM!OwnNulls, IM!FieldCtx, Meets
  <2> QED
    BY <1>2, <2>1, <2>2, <2>3 DEF Meets
<1>4. ASSUME NEW f \in DOMAIN node.children
      PROVE  Agrees(Field(f), rows[node.children[f]], cc, dd)
  <2>1. checks[node.children[f]][cc]
    BY <1>1 DEF IM!CheckKind
  <2> HIDE DEF cc, dd
  <2> QED
    BY <1>2, <1>3, <2>1 DEF Right
<1> HIDE DEF start, cc, dd, node
<1>5. IM!Convert(a, node, d, vectors) =
         [safe |-> TRUE,
          rows |-> [r \in IM!RowIds(d) |->
                       IF r \in IM!NullRows(node, d) THEN IM!Null
                       ELSE <<"fields", [f \in DOMAIN node.children |-> Field(f).rows[r]]>>]]
  <2>1. IM!Convert(a, node, d, vectors) = IM!ConvertStruct(node, d, vectors)
    BY DEF IM!Convert, IM!Unions, node
  <2>2. IM!Inside(node, d) /\ \A f \in DOMAIN node.children : Field(f).safe
    BY <1>1, <1>4 DEF Agrees
  <2> QED
    BY <2>1, <2>2 DEF IM!ConvertStruct, IM!Vector, dd
<1>6. ASSUME NEW r \in IM!RowIds(d) \ (d.masked \cup d.spread)
      PROVE  Meaning(node, rows)[c.inherited + r] =
                 IF r \in IM!NullRows(node, d) THEN IM!Null
                 ELSE <<"fields", [f \in DOMAIN node.children |-> Field(f).rows[r]]>>
  <2>1. Meaning(node, rows)[c.inherited + r] =
           IF start + r \in node.nulls THEN IM!Null
           ELSE <<"fields", [f \in DOMAIN node.children |-> rows[node.children[f]][start + r]]>>
    BY <1>1 DEF PlacedAt, IM!RowOf, node
  <2>2. ASSUME r \notin IM!NullRows(node, d), NEW f \in DOMAIN node.children
        PROVE  Field(f).rows[r] = rows[node.children[f]][start + r]
    BY <1>2, <1>4, <2>2 DEF Agrees
  <2>3. start + r \in node.nulls <=> r \in IM!NullRows(node, d)
    BY <1>1 DEF PlacedAt
  <2>4. CASE r \in IM!NullRows(node, d)
    BY <2>1, <2>3, <2>4
  <2>5. CASE r \notin IM!NullRows(node, d)
    <3>1. [f \in DOMAIN node.children |-> rows[node.children[f]][start + r]]
             = [f \in DOMAIN node.children |-> Field(f).rows[r]]
      BY <2>2, <2>5
    <3> QED
      BY <2>1, <2>3, <2>5, <3>1
  <2> QED
    BY <2>4, <2>5
<1> HIDE DEF Field
<1>7. /\ IM!Convert(a, node, d, vectors).safe
      /\ DOMAIN IM!Convert(a, node, d, vectors).rows = IM!RowIds(d)
  BY <1>5
<1> QED
  BY <1>5, <1>6, <1>7 DEF Agrees, node

-----------------------------------------------------------------------------
(* Lists.                                                                  *)

\* Offsets that rise from one to the next rise from any to any later one.
LEMMA Rising ==
    ASSUME NEW f, NEW lo \in Nat, NEW n \in Nat,
           \A k \in 0..n : f[lo + k] \in Int,
           \A k \in 1..n : f[lo + k - 1] <= f[lo + k]
    PROVE  \A j, k \in 0..n : j <= k => f[lo + j] <= f[lo + k]
<1> SUFFICES ASSUME NEW j \in 0..n PROVE \A k \in 0..n : j <= k => f[lo + j] <= f[lo + k]
  OBVIOUS
<1> DEFINE bad == {k \in 0..n : j <= k /\ ~ (f[lo + j] <= f[lo + k])}
<1>1. bad \subseteq Nat
  OBVIOUS
<1>2. ASSUME bad # {} PROVE FALSE
  <2>1. PICK k \in bad : \A m \in bad : k <= m
    BY <1>1, <1>2, LeastNumber
  <2>2. k \in 0..n /\ j <= k /\ ~ (f[lo + j] <= f[lo + k])
    BY <2>1
  <2>3. k # j /\ f[lo + j] \in Int
    BY <2>2
  <2>4. k \in 1..n /\ k - 1 \in 0..n /\ j <= k - 1
    BY <2>2, <2>3
  <2>5. lo + (k - 1) = lo + k - 1 /\ ~ (k <= k - 1)
    BY <2>4
  <2>6. f[lo + j] <= f[lo + k - 1]
    BY <2>1, <2>4, <2>5
  <2>7. f[lo + k - 1] \in Int /\ f[lo + k] \in Int /\ f[lo + k - 1] <= f[lo + k]
    BY <2>4, <2>5
  <2> QED
    BY <2>2, <2>3, <2>6, <2>7
<1> QED
  BY <1>2

\* A vector of entries is right when each entry has the items of its row.
LEMMA EntriesRight ==
    ASSUME NEW node, node.kind # "null", NEW rows, NEW start,
           NEW c \in IM!Ctx, NEW d \in IM!Passed, PlacedAt(node, rows, c, d, start),
           NEW items, NEW lists, NEW vector,
           vector = [safe |-> TRUE, rows |-> IM!Entries(node, d, items, lists)],
           \A r \in IM!RowIds(d) : start + r \notin node.nulls /\ r \notin IM!NullRows(node, d) =>
               IM!RowOf(node, c.inherited + r, rows) = IM!Entry(lists[r], items)
    PROVE  Agrees(vector, Meaning(node, rows), c, d)
<1>1. /\ vector.safe /\ DOMAIN vector.rows = IM!RowIds(d)
      /\ \A r \in IM!RowIds(d) : vector.rows[r] =
            IF r \in IM!NullRows(node, d) THEN IM!Null ELSE IM!Entry(lists[r], items)
  BY DEF IM!Entries
<1>2. ASSUME NEW r \in IM!RowIds(d) \ (d.masked \cup d.spread)
      PROVE  vector.rows[r] = Meaning(node, rows)[c.inherited + r]
  <2>1. /\ start + r \in node.nulls <=> r \in IM!NullRows(node, d)
        /\ Meaning(node, rows)[c.inherited + r] = IM!RowOf(node, c.inherited + r, rows)
        /\ c.inherited + r + node.offset = start + r /\ start + r \in IM!Positions(node)
    BY DEF PlacedAt
  <2>2. CASE r \in IM!NullRows(node, d)
    BY <1>1, <2>1, <2>2 DEF IM!RowOf
  <2>3. CASE r \notin IM!NullRows(node, d)
    BY <1>1, <2>1, <2>3
  <2> QED
    BY <2>2, <2>3
<1> QED
  BY <1>1, <1>2 DEF Agrees

\* The list cases pass the child what the wrapper takes them to pass.
LEMMA ItemsMeet ==
    ASSUME NEW a, NEW j, NEW node, node.offset \in Nat,
           NEW span, span.first \in Nat, span.total \in Nat, NEW d \in IM!Passed
    PROVE  LET cc == IM!ItemCtx(node, span.first, span.total)
               dd == IM!ItemPassed(node, d, span) IN
           /\ cc \in IM!Ctx /\ dd \in IM!Passed /\ Meets(a[j], cc, dd)
           /\ cc.inherited = span.first /\ dd.masked \cup dd.spread = {}
           /\ IM!RowIds(dd) = 0..(span.total - 1)
<1> DEFINE cc == IM!ItemCtx(node, span.first, span.total)
<1> DEFINE dd == IM!ItemPassed(node, d, span)
<1>1. cc \in IM!Ctx /\ cc.inherited = span.first
  BY DEF IM!ItemCtx, IM!ColumnCtx, IM!Ctx, IM!Offsets, IM!Routes
<1>2. /\ dd \in IM!Passed /\ dd.masked = {} /\ dd.spread = {} /\ dd.size = span.total
  BY DEF IM!ItemPassed, IM!Passed, IM!Offsets, IM!Routes
<1>3. /\ dd.nested = cc.nested /\ dd.parent = cc.parent /\ dd.size = cc.size
      /\ dd.route = cc.route /\ dd.inMap = cc.inMap /\ dd.vparent = cc.vparent
  BY DEF IM!ItemPassed, IM!Passed, IM!ItemCtx, IM!ColumnCtx
<1> HIDE DEF cc, dd
<1>4. Meets(a[j], cc, dd)
  BY <1>2, <1>3 DEF Meets
<1>5. IM!RowIds(dd) = 0..(span.total - 1) /\ dd.masked \cup dd.spread = {}
  BY <1>2 DEF IM!RowIds
<1> QED
  BY <1>1, <1>2, <1>4, <1>5 DEF cc, dd

LEMMA ListRight ==
    ASSUME NEW a, NEW i, SoundNode(a, i), a[i].kind \in {"list", "map"},
           NEW checks, NEW vectors, NEW rows,
           Right(a[a[i].children[1]], checks[a[i].children[1]],
                 vectors[a[i].children[1]], rows[a[i].children[1]]),
           NEW c \in IM!Ctx, NEW d \in IM!Passed, Meets(a[i], c, d),
           IM!Check(a, a[i], c, checks)
    PROVE  Agrees(IM!Convert(a, a[i], d, vectors), Meaning(a[i], rows), c, d)
<1> DEFINE node == a[i]
<1> DEFINE j == node.children[1]
<1> DEFINE start == IM!ArrowStart(c, node.offset)
<1> DEFINE at == IM!ValuesAt(node, d)
<1> DEFINE span == IM!ListSpan(node, at, d.size)
<1> DEFINE cc == IM!ItemCtx(node, span.first, span.total)
<1> DEFINE dd == IM!ItemPassed(node, d, span)
<1> DEFINE items == vectors[j][dd]
<1> DEFINE lists == [r \in IM!RowIds(d) |-> [offset |-> node.data[at + r] - span.first,
                                           size |-> node.data[at + r + 1] - node.data[at + r]]]
<1>1. /\ PlacedAt(node, rows, c, d, start) /\ IM!Reads(node, d)
      /\ at = IM!DuckStart(c, node.offset)
      /\ c.size > 0 => at = start
      /\ IM!CheckKind(a, node, c, checks)
  BY PlainNode
<1>2. /\ c.size \in Nat /\ d.size = c.size /\ node.offset \in Nat /\ node.length \in Nat
      /\ start \in Nat /\ start = node.offset + c.inherited
      /\ c.size > 0 => c.inherited + c.size <= node.length
      /\ \A k \in node.offset..(node.offset + node.length) : node.data[k] \in Int
  <2>1. c.size \in Nat /\ d.size = c.size /\ c.inherited \in Nat
    BY Fields DEF Meets
  <2>2. IM!Covers(node, c)
    BY PlainChecked
  <2> QED
    BY <1>1, <2>1, <2>2 DEF SoundNode, PlacedAt, IM!ArrowStart, IM!Covers
<1>3. /\ c.size > 0 => IM!ListRangeOk(node, at, c.size, a[j].length)
      /\ checks[j][cc]
  <2>1. node.kind # "view"
    OBVIOUS
  <2> QED
    BY <1>1, <1>2, <2>1 DEF IM!CheckKind
<1> HIDE DEF start, at, node, j
<1>4. ASSUME c.size > 0
      PROVE  /\ at = start
             /\ \A k \in 0..c.size : node.data[at + k] \in Int
             /\ \A k, m \in 0..c.size : k <= m => node.data[at + k] <= node.data[at + m]
             /\ node.data[at + 0] = node.data[at] /\ node.data[at] \in Nat
             /\ span.first = node.data[at]
             /\ span.total = node.data[at + c.size] - node.data[at] /\ span.total \in Nat
  <2>1. at = start
    BY <1>1, <1>4
  <2>2. ASSUME NEW k \in 0..c.size PROVE at + k \in node.offset..(node.offset + node.length)
    BY <1>2, <1>4, <2>1, Fields
  <2>3. \A k \in 0..c.size : node.data[at + k] \in Int
    BY <1>2, <2>2
  <2>4. \A k, m \in 0..c.size : k <= m => node.data[at + k] <= node.data[at + m]
    <3>1. \A k \in 1..c.size : node.data[at + k - 1] <= node.data[at + k]
      BY <1>3, <1>4 DEF IM!ListRangeOk
    <3> DEFINE f == node.data
    <3>2. /\ at \in Nat /\ \A k \in 0..c.size : f[at + k] \in Int
          /\ \A k \in 1..c.size : f[at + k - 1] <= f[at + k]
      BY <1>2, <2>1, <2>3, <3>1
    <3> HIDE DEF f
    <3>3. \A k, m \in 0..c.size : k <= m => f[at + k] <= f[at + m]
      BY <1>2, <3>2, Rising
    <3> QED
      BY <3>3 DEF f
  <2>5. 0 \in 0..c.size /\ c.size \in 0..c.size /\ 0 <= c.size
    BY <1>2
  <2>6. node.data[at + 0] = node.data[at] /\ node.data[at] >= 0
    <3>1. at + 0 = at
      BY <1>2, <2>1
    <3> QED
      BY <1>3, <1>4, <3>1 DEF IM!ListRangeOk
  <2>7. span.first = node.data[at] /\ span.total = node.data[at + c.size] - node.data[at]
    BY <1>2, <1>4 DEF IM!ListSpan
  <2>8. node.data[at + 0] \in Int /\ node.data[at + c.size] \in Int
        /\ node.data[at + 0] <= node.data[at + c.size]
    BY <2>3, <2>4, <2>5
  <2>9. node.data[at] \in Nat
    BY <2>6, <2>8
  <2>10. span.total \in Nat
    BY <2>6, <2>7, <2>8
  <2> QED
    BY <2>1, <2>3, <2>4, <2>6, <2>7, <2>9, <2>10
<1>5. span.first \in Nat /\ span.total \in Nat
  <2>1. CASE c.size > 0
    BY <1>4, <2>1
  <2>2. CASE c.size = 0
    BY <1>2, <2>2 DEF IM!ListSpan
  <2> QED
    BY <1>2, <2>1, <2>2
<1>6. Agrees(items, rows[j], cc, dd) /\ dd.masked \cup dd.spread = {}
      /\ IM!RowIds(dd) = 0..(span.total - 1) /\ cc.inherited = span.first
  <2>1. /\ cc \in IM!Ctx /\ dd \in IM!Passed /\ Meets(a[j], cc, dd)
        /\ cc.inherited = span.first /\ dd.masked \cup dd.spread = {}
        /\ IM!RowIds(dd) = 0..(span.total - 1)
    BY <1>2, <1>5, ItemsMeet
  <2>2. Right(a[j], checks[j], vectors[j], rows[j])
    BY DEF j, node
  <2> HIDE DEF cc, dd
  <2> QED
    BY <1>3, <2>1, <2>2 DEF Right
<1> HIDE DEF cc, dd, span
<1>7. IM!Convert(a, node, d, vectors) =
         [safe |-> TRUE, rows |-> IM!Entries(node, d, items, lists)]
  <2>1. IM!Convert(a, node, d, vectors) = IM!ConvertList(node, d, vectors)
    BY DEF IM!Convert, IM!Unions, node
  <2>2. d.size = 0 \/
           /\ node.data[at] >= 0
           /\ \A r \in IM!RowIds(d) : node.data[at + r] <= node.data[at + r + 1]
    <3> SUFFICES ASSUME d.size # 0 PROVE
           /\ node.data[at] >= 0
           /\ \A r \in IM!RowIds(d) : node.data[at + r] <= node.data[at + r + 1]
      OBVIOUS
    <3>1. c.size > 0
      BY <1>2
    <3>2. ASSUME NEW r \in IM!RowIds(d) PROVE node.data[at + r] <= node.data[at + r + 1]
      <4>1. r \in 0..c.size /\ r + 1 \in 0..c.size /\ r <= r + 1 /\ at + (r + 1) = at + r + 1
        BY <1>2, <1>4, <3>1 DEF IM!RowIds
      <4> QED
        BY <1>4, <3>1, <4>1
    <3> QED
      BY <1>4, <3>1, <3>2
  <2>3. items.safe
    BY <1>6 DEF Agrees
  <2>4. IM!ConvertList(node, d, vectors) = IM!Vector(items.safe, IM!Entries(node, d, items, lists))
    BY <1>1, <2>2 DEF IM!ConvertList, at, span, dd, j
  <2> QED
    BY <2>1, <2>3, <2>4 DEF IM!Vector
<1>8. ASSUME NEW r \in IM!RowIds(d), start + r \notin node.nulls
      PROVE  IM!RowOf(node, c.inherited + r, rows) = IM!Entry(lists[r], items)
  <2> DEFINE from == node.data[start + r]
  <2> DEFINE n == node.data[start + r + 1] - from
  <2>1. c.size > 0
    BY SomeRow DEF node
  <2>2. /\ r \in 0..c.size /\ r + 1 \in 0..c.size /\ r <= r + 1 /\ 0 <= r /\ r + 1 <= c.size
        /\ at + (r + 1) = start + r + 1 /\ at = start
        /\ 0 \in 0..c.size /\ c.size \in 0..c.size
    BY <1>2, <1>4, <2>1 DEF IM!RowIds
  <2>3. /\ from \in Int /\ n \in Nat /\ span.first <= from
        /\ from + n <= span.first + span.total
    <3>1. /\ node.data[at + r] \in Int /\ node.data[at + (r + 1)] \in Int
          /\ node.data[at + r] <= node.data[at + (r + 1)]
          /\ node.data[at + 0] <= node.data[at + r]
          /\ node.data[at + (r + 1)] <= node.data[at + c.size]
          /\ node.data[at + c.size] \in Int
      BY <1>4, <2>1, <2>2
    <3>2. /\ node.data[at + r] = from /\ node.data[at + (r + 1)] = node.data[start + r + 1]
          /\ span.first = node.data[at + 0] /\ span.first \in Int
          /\ span.total = node.data[at + c.size] - span.first
      BY <1>4, <1>5, <2>1, <2>2
    <3> QED
      BY <3>1, <3>2
  <2>4. IM!RowOf(node, c.inherited + r, rows) =
           <<"list", [k \in 1..n |-> rows[j][from + k - 1]]>>
    <3>1. /\ c.inherited + r + node.offset = start + r /\ start + r \in IM!Positions(node)
          /\ node.kind \in {"list", "map"}
      BY <1>1 DEF PlacedAt, node
    <3> QED
      BY <1>8, <3>1 DEF IM!RowOf, j
  <2>5. lists[r] = [offset |-> from - span.first, size |-> n]
    BY <2>2
  <2> HIDE DEF from, n, lists
  <2>6. ASSUME NEW k \in 1..n
        PROVE  /\ from - span.first + k - 1 \in DOMAIN items.rows
               /\ items.rows[from - span.first + k - 1] = rows[j][from + k - 1]
    <3>1. /\ from - span.first + k - 1 \in 0..(span.total - 1)
          /\ span.first + (from - span.first + k - 1) = from + k - 1
      BY <1>5, <2>3
    <3> QED
      BY <1>6, <3>1 DEF Agrees
  <2>7. IM!Entry(lists[r], items) = <<"list", [k \in 1..n |-> rows[j][from + k - 1]]>>
    BY <2>5, <2>6 DEF IM!Entry
  <2> QED
    BY <2>4, <2>7
<1> HIDE DEF items, lists
<1>9. node.kind # "null"
  BY DEF node
<1>10. Agrees(IM!Convert(a, node, d, vectors), Meaning(node, rows), c, d)
  BY <1>1, <1>7, <1>8, <1>9, EntriesRight
<1> QED
  BY <1>10 DEF node

\* What the views of some rows have in all is a number.
LEMMA SizesNat ==
    ASSUME NEW node, NEW start \in Nat, NEW size \in Nat,
           \A k \in 1..size : node.data[start + k - 1].size \in Nat
    PROVE  IM!Sizes(node, start, size) \in Nat
<1> DEFINE Plus(n, s) == s + node.data[start + n - 1].size
<1> DEFINE solves(n, f) == f = [m \in 0..n |-> IF m = 0 THEN 0 ELSE Plus(m, f[m - 1])]
<1> DEFINE failing == {n \in 0..size : ~ \E f : solves(n, f)}
<1>1. failing \in SUBSET Nat
  OBVIOUS
<1>2. failing = {}
  <2> SUFFICES ASSUME failing # {} PROVE FALSE
    OBVIOUS
  <2>1. PICK n \in failing : \A m \in failing : n <= m
    BY <1>1, LeastNumber
  <2>2. n \in 0..size /\ ~ \E f : solves(n, f)
    BY <2>1
  <2> HIDE DEF Plus
  <2>3. n # 0
    <3>1. solves(0, [m \in 0..0 |-> 0])
      OBVIOUS
    <3> QED
      BY <2>2, <3>1
  <2>4. n - 1 \in 0..size /\ ~ (n <= n - 1) /\ n \in Nat
    BY <2>2, <2>3
  <2>5. PICK g : solves(n - 1, g)
    <3>1. n - 1 \notin failing
      BY <2>1, <2>4
    <3> QED
      BY <2>4, <3>1
  <2> DEFINE f == [m \in 0..n |-> IF m = n THEN Plus(n, g[n - 1]) ELSE g[m]]
  <2>6. \A m \in 0..(n - 1) : m \in 0..n /\ m # n /\ f[m] = g[m]
    BY <2>4
  <2>7. ASSUME NEW m \in 0..n
        PROVE  f[m] = IF m = 0 THEN 0 ELSE Plus(m, f[m - 1])
    <3>1. CASE m = n
      <4>1. f[m] = Plus(n, g[n - 1]) /\ n - 1 \in 0..(n - 1)
        BY <2>4, <2>3, <3>1
      <4>2. f[n - 1] = g[n - 1]
        BY <2>6, <4>1
      <4> HIDE DEF f
      <4> QED
        BY <2>3, <3>1, <4>1, <4>2
    <3>2. CASE m # n
      <4>1. m \in 0..(n - 1) /\ f[m] = g[m]
        BY <2>4, <3>2
      <4>2. m # 0 => m - 1 \in 0..(n - 1)
        BY <2>4, <4>1
      <4>3. m # 0 => f[m - 1] = g[m - 1]
        BY <2>6, <4>2
      <4>4. g[m] = IF m = 0 THEN 0 ELSE Plus(m, g[m - 1])
        BY <2>5, <4>1
      <4> HIDE DEF f
      <4> QED
        BY <4>1, <4>3, <4>4
    <3> QED
      BY <3>1, <3>2
  <2>8. f = [m \in 0..n |-> f[m]]
    OBVIOUS
  <2> HIDE DEF f, failing
  <2>9. solves(n, f)
    BY <2>7, <2>8
  <2> QED
    BY <2>2, <2>9
<1>3. PICK g : solves(size, g)
  <2>1. size \in 0..size /\ size \notin failing
    BY <1>2
  <2> QED
    BY <2>1
<1> DEFINE sum == CHOOSE f : solves(size, f)
<1>4. solves(size, sum)
  BY <1>3
<1>5. IM!Sizes(node, start, size) = sum[size]
  BY DEF IM!Sizes
<1> DEFINE odd == {n \in 0..size : sum[n] \notin Nat}
<1>6. odd \in SUBSET Nat
  OBVIOUS
<1> HIDE DEF sum
<1>7. odd = {}
  <2> SUFFICES ASSUME odd # {} PROVE FALSE
    OBVIOUS
  <2>1. PICK n \in odd : \A m \in odd : n <= m
    BY <1>6, LeastNumber
  <2>2. n \in 0..size /\ sum[n] \notin Nat
    BY <2>1
  <2>3. sum[n] = IF n = 0 THEN 0 ELSE sum[n - 1] + node.data[start + n - 1].size
    BY <1>4, <2>2
  <2>4. n # 0
    BY <2>2, <2>3
  <2>5. n - 1 \in 0..size /\ ~ (n <= n - 1) /\ n \in 1..size
    BY <2>2, <2>4
  <2>6. sum[n - 1] \in Nat
    BY <2>1, <2>5
  <2> QED
    BY <2>2, <2>3, <2>4, <2>5, <2>6
<1> QED
  BY <1>5, <1>7

LEMMA ViewRight ==
    ASSUME NEW a, NEW i, SoundNode(a, i), a[i].kind = "view",
           NEW checks, NEW vectors, NEW rows,
           Right(a[a[i].children[1]], checks[a[i].children[1]],
                 vectors[a[i].children[1]], rows[a[i].children[1]]),
           NEW c \in IM!Ctx, NEW d \in IM!Passed, Meets(a[i], c, d),
           IM!Check(a, a[i], c, checks)
    PROVE  Agrees(IM!Convert(a, a[i], d, vectors), Meaning(a[i], rows), c, d)
<1> DEFINE node == a[i]
<1> DEFINE j == node.children[1]
<1> DEFINE start == IM!ArrowStart(c, node.offset)
<1> DEFINE at == IM!ValuesAt(node, d)
<1> DEFINE span == IM!ViewSpan(node, at, d.size)
<1> DEFINE cc == IM!ItemCtx(node, span.first, span.total)
<1> DEFINE dd == IM!ItemPassed(node, d, span)
<1> DEFINE items == vectors[j][dd]
<1> DEFINE lists == [r \in IM!RowIds(d) |-> [offset |-> node.data[at + r].offset - span.first,
                                           size |-> node.data[at + r].size]]
<1>1. /\ PlacedAt(node, rows, c, d, start) /\ IM!Reads(node, d)
      /\ at = IM!DuckStart(c, node.offset)
      /\ c.size > 0 => at = start
      /\ IM!CheckKind(a, node, c, checks)
  BY PlainNode
<1>2. c.size \in Nat /\ d.size = c.size /\ node.offset \in Nat /\ start \in Nat
  BY <1>1, Fields DEF SoundNode, PlacedAt, Meets
<1>3. /\ c.size > 0 => IM!ViewRangeOk(node, at, c.size, a[j].length)
      /\ checks[j][cc]
  BY <1>1, <1>2 DEF IM!CheckKind
<1> HIDE DEF start, at, node, j
<1>4. ASSUME c.size > 0, NEW r \in 0..(c.size - 1)
      PROVE  /\ node.data[at + r].offset \in Nat /\ node.data[at + r].size \in Nat
             /\ node.data[at + r].size # 0 =>
                  node.data[at + r].offset + node.data[at + r].size <= span.first + span.total
  <2> DEFINE view == node.data[at + r]
  <2>1. r \in IM!RowIds(d) /\ at = start /\ start + r \in node.offset..(node.offset + node.length - 1)
    <3>1. /\ r \in IM!RowIds(d) /\ at = start /\ start + r \in IM!Positions(node)
          /\ c.inherited + r + node.offset = start + r
      BY <1>1, <1>2, <1>4 DEF PlacedAt, IM!RowIds
    <3>2. c.inherited \in Nat /\ node.length \in Nat
      BY Fields DEF SoundNode, node
    <3> QED
      BY <1>2, <3>1, <3>2 DEF IM!Positions
  <2>2. view.offset \in Int /\ view.size \in Int
    BY <2>1 DEF SoundNode, node
  <2>3. view \in {node.data[at + k] : k \in 0..(c.size - 1)}
    OBVIOUS
  <2> HIDE DEF view
  <2>4. /\ view.offset >= 0 /\ view.size >= 0
        /\ view.size # 0 => view.offset + view.size <= span.first + span.total
    BY <1>2, <1>3, <1>4, <2>3 DEF IM!ViewRangeOk
  <2> HIDE DEF span
  <2>5. /\ view.offset \in Nat /\ view.size \in Nat
        /\ view.size # 0 => view.offset + view.size <= span.first + span.total
    BY <2>2, <2>4
  <2> QED
    BY <2>5 DEF view
<1>5. ASSUME c.size > 0
      PROVE  /\ span.first \in Nat
             /\ \A r \in 0..(c.size - 1) :
                   node.data[at + r].size # 0 => span.first <= node.data[at + r].offset
             /\ span.total = IM!Sizes(node, at, c.size)
  <2> DEFINE views == {node.data[at + r] : r \in 0..(c.size - 1)}
  <2> DEFINE used == {v.offset : v \in {w \in views : w.size # 0}} \cup {node.data[at].offset}
  <2>1. /\ span.first = CHOOSE o \in used : \A q \in used : o <= q
        /\ span.total = IM!Sizes(node, at, c.size)
    <3>1. c.size # 0
      BY <1>2, <1>5
    <3> QED
      BY <1>2, <3>1 DEF IM!ViewSpan
  <2>2. used \in SUBSET Nat
    <3>1. at + 0 = at /\ 0 \in 0..(c.size - 1)
      BY <1>1, <1>2, <1>5
    <3>2. node.data[at].offset \in Nat
      BY <1>4, <1>5, <3>1
    <3>3. \A v \in views : v.offset \in Nat
      BY <1>4, <1>5
    <3> QED
      BY <3>2, <3>3
  <2>3. \E o \in used : \A q \in used : o <= q
    BY <2>2, LeastNumber
  <2>4. \A r \in 0..(c.size - 1) : node.data[at + r].size # 0 => node.data[at + r].offset \in used
    OBVIOUS
  <2> HIDE DEF used
  <2>5. span.first \in used /\ \A q \in used : span.first <= q
    BY <2>1, <2>3
  <2> QED
    BY <2>1, <2>2, <2>4, <2>5
<1>6. span.first \in Nat /\ span.total \in Nat
  <2>1. CASE c.size > 0
    <3>1. \A k \in 1..c.size : node.data[at + k - 1].size \in Nat
      <4>1. \A k \in 1..c.size : k - 1 \in 0..(c.size - 1) /\ at + (k - 1) = at + k - 1
        BY <1>1, <1>2, <2>1
      <4> QED
        BY <1>4, <2>1, <4>1
    <3>2. IM!Sizes(node, at, c.size) \in Nat
      BY <1>1, <1>2, <2>1, <3>1, SizesNat
    <3> QED
      BY <1>5, <2>1, <3>2
  <2>2. CASE c.size = 0
    BY <1>2, <2>2 DEF IM!ViewSpan
  <2> QED
    BY <1>2, <2>1, <2>2
<1>7. Agrees(items, rows[j], cc, dd) /\ dd.masked \cup dd.spread = {}
      /\ IM!RowIds(dd) = 0..(span.total - 1) /\ cc.inherited = span.first
  <2>1. /\ cc \in IM!Ctx /\ dd \in IM!Passed /\ Meets(a[j], cc, dd)
        /\ cc.inherited = span.first /\ dd.masked \cup dd.spread = {}
        /\ IM!RowIds(dd) = 0..(span.total - 1)
    BY <1>2, <1>6, ItemsMeet
  <2>2. Right(a[j], checks[j], vectors[j], rows[j])
    BY DEF j, node
  <2> HIDE DEF cc, dd
  <2> QED
    BY <1>3, <2>1, <2>2 DEF Right
<1> HIDE DEF cc, dd, span
<1>8. IM!Convert(a, node, d, vectors) =
         [safe |-> TRUE, rows |-> IM!Entries(node, d, items, lists)]
  <2>1. IM!Convert(a, node, d, vectors) = IM!ConvertView(node, d, vectors)
    BY DEF IM!Convert, IM!Unions, node
  <2>2. \A r \in IM!RowIds(d) : node.data[at + r].offset >= 0 /\ node.data[at + r].size >= 0
    <3>1. \A r \in IM!RowIds(d) : c.size > 0 /\ r \in 0..(c.size - 1)
      BY <1>2 DEF IM!RowIds
    <3> QED
      BY <1>4, <3>1
  <2>3. items.safe
    BY <1>7 DEF Agrees
  <2>4. IM!ConvertView(node, d, vectors) = IM!Vector(items.safe, IM!Entries(node, d, items, lists))
    BY <1>1, <2>2 DEF IM!ConvertView, at, span, dd, j
  <2> QED
    BY <2>1, <2>3, <2>4 DEF IM!Vector
<1>9. ASSUME NEW r \in IM!RowIds(d), start + r \notin node.nulls
      PROVE  IM!RowOf(node, c.inherited + r, rows) = IM!Entry(lists[r], items)
  <2> DEFINE from == node.data[start + r].offset
  <2> DEFINE n == node.data[start + r].size
  <2>1. c.size > 0
    BY SomeRow DEF node
  <2>2. r \in 0..(c.size - 1) /\ at = start
    BY <1>1, <1>2, <2>1 DEF IM!RowIds
  <2>3. /\ from \in Nat /\ n \in Nat
        /\ n # 0 => span.first <= from /\ from + n <= span.first + span.total
    BY <1>4, <1>5, <2>1, <2>2
  <2>4. IM!RowOf(node, c.inherited + r, rows) =
           <<"list", [k \in 1..n |-> rows[j][from + k - 1]]>>
    <3>1. /\ c.inherited + r + node.offset = start + r /\ start + r \in IM!Positions(node)
          /\ node.kind = "view"
      BY <1>1 DEF PlacedAt, node
    <3> QED
      BY <1>9, <3>1 DEF IM!RowOf, j
  <2>5. lists[r] = [offset |-> from - span.first, size |-> n]
    BY <2>2
  <2> HIDE DEF from, n, lists
  <2>6. ASSUME NEW k \in 1..n
        PROVE  /\ from - span.first + k - 1 \in DOMAIN items.rows
               /\ items.rows[from - span.first + k - 1] = rows[j][from + k - 1]
    <3>1. /\ from - span.first + k - 1 \in 0..(span.total - 1)
          /\ span.first + (from - span.first + k - 1) = from + k - 1
      BY <1>6, <2>3
    <3> QED
      BY <1>7, <3>1 DEF Agrees
  <2>7. IM!Entry(lists[r], items) = <<"list", [k \in 1..n |-> rows[j][from + k - 1]]>>
    BY <2>5, <2>6 DEF IM!Entry
  <2> QED
    BY <2>4, <2>7
<1> HIDE DEF items, lists
<1>10. node.kind # "null"
  BY DEF node
<1>11. Agrees(IM!Convert(a, node, d, vectors), Meaning(node, rows), c, d)
  BY <1>1, <1>8, <1>9, <1>10, EntriesRight
<1> QED
  BY <1>11 DEF node

\* The elements of a row of a fixed-size list.
LEMMA ElementOf ==
    ASSUME NEW n \in Nat, NEW size \in Nat, NEW start \in Nat,
           NEW r \in 0..(size - 1), NEW k \in 1..n
    PROVE  /\ r * n + k - 1 \in 0..(size * n - 1) /\ (r * n + k - 1) \div n = r
           /\ start * n + (r * n + k - 1) = (start + r) * n + k - 1
<1>1. /\ r * n \in Nat /\ start * n \in Nat /\ size * n \in Nat
      /\ (r + 1) * n = r * n + n /\ (start + r) * n = start * n + r * n
  OBVIOUS
<1>2. (r + 1) * n <= size * n
  <2>1. size - (r + 1) \in Nat /\ (size - (r + 1)) * n \in Nat
    OBVIOUS
  <2>2. size * n = (r + 1) * n + (size - (r + 1)) * n
    OBVIOUS
  <2> QED
    BY <1>1, <2>1, <2>2
<1>3. (r * n + k - 1) \div n = r
  OBVIOUS
<1> QED
  BY <1>1, <1>2, <1>3

LEMMA FixedRight ==
    ASSUME NEW a, NEW i, SoundNode(a, i), a[i].kind = "fixed",
           NEW checks, NEW vectors, NEW rows,
           Right(a[a[i].children[1]], checks[a[i].children[1]],
                 vectors[a[i].children[1]], rows[a[i].children[1]]),
           NEW c \in IM!Ctx, NEW d \in IM!Passed, Meets(a[i], c, d),
           IM!Check(a, a[i], c, checks)
    PROVE  Agrees(IM!Convert(a, a[i], d, vectors), Meaning(a[i], rows), c, d)
<1> DEFINE node == a[i]
<1> DEFINE j == node.children[1]
<1> DEFINE start == IM!ArrowStart(c, node.offset)
<1> DEFINE at == IM!ValuesAt(node, d)
<1> DEFINE n == node.data
<1> DEFINE cc == IM!ElementCtx(node, c)
<1> DEFINE dd == IM!ElementPassed(node, d)
<1> DEFINE items == vectors[j][dd]
<1> DEFINE lists == [r \in IM!RowIds(d) |-> [offset |-> r * n, size |-> n]]
<1> DEFINE masking == {k \in 0..(d.size * n - 1) : k \div n \in IM!NullRows(node, d)}
<1>1. /\ PlacedAt(node, rows, c, d, start) /\ IM!Inside(node, d)
      /\ at = IM!DuckStart(c, node.offset)
      /\ IM!CheckKind(a, node, c, checks)
  BY PlainNode
<1>2. /\ c.size \in Nat /\ d.size = c.size /\ node.offset \in Nat /\ start \in Nat /\ n \in Nat
      /\ at \in Nat
  <2>1. c.size \in Nat /\ d.size = c.size /\ node.offset \in Nat /\ start \in Nat /\ n \in Nat
    BY <1>1, Fields DEF SoundNode, PlacedAt, Meets
  <2>2. at \in Nat
    BY <1>1, <2>1, Fields DEF IM!DuckStart
  <2> QED
    BY <2>1, <2>2
<1>3. checks[j][cc]
  BY <1>1 DEF IM!CheckKind
<1>4. at * n \in Nat /\ start * n \in Nat /\ c.size * n \in Nat
  BY <1>2
<1>5. /\ cc \in IM!Ctx /\ cc.inherited = start * n /\ cc.size = c.size * n
      /\ dd \in IM!Passed /\ dd.size = c.size * n /\ dd.masked = {} /\ dd.spread = masking
      /\ dd.nested = cc.nested /\ dd.parent = cc.parent
      /\ dd.route = cc.route /\ dd.inMap = cc.inMap /\ dd.vparent = cc.vparent
      /\ cc.broadcastNulls = (c.structNulls \/ c.broadcastNulls \/ IM!CopiesValidity(node))
  <2>1. cc.broadcastNulls \in BOOLEAN /\ cc \in IM!Ctx /\ cc.inherited = start * n /\ cc.size = c.size * n
    BY <1>1, <1>2, <1>4 DEF IM!ElementCtx, IM!ColumnCtx, IM!Ctx, IM!Offsets, IM!Routes, IM!CopiesValidity
  <2>2. masking \in SUBSET Nat
    BY <1>2, <1>4
  <2>3. dd \in IM!Passed /\ dd.size = c.size * n /\ dd.masked = {} /\ dd.spread = masking
    BY <1>1, <1>2, <1>4, <2>2 DEF IM!ElementPassed, IM!Passed, IM!Offsets, IM!Routes
  <2>4. /\ dd.nested = cc.nested /\ dd.parent = cc.parent
        /\ dd.route = cc.route /\ dd.inMap = cc.inMap /\ dd.vparent = cc.vparent
        /\ cc.broadcastNulls = (c.structNulls \/ c.broadcastNulls \/ IM!CopiesValidity(node))
    BY <1>1, <1>2 DEF IM!ElementPassed, IM!Passed, IM!ElementCtx, IM!ColumnCtx, IM!Ctx, Meets
  <2> QED
    BY <2>1, <2>3, <2>4
<1>6. Meets(a[j], cc, dd) /\ IM!RowIds(dd) = 0..(c.size * n - 1)
  <2>1. masking \subseteq IM!RowIds(dd) /\ IM!RowIds(dd) = 0..(c.size * n - 1)
    BY <1>2, <1>5 DEF IM!RowIds
  <2>2. masking # {} => cc.broadcastNulls
    <3>1. masking # {} => IM!NullRows(node, d) # {}
      OBVIOUS
    <3> QED
      BY <1>5, <3>1 DEF IM!NullRows, IM!OwnNulls, Meets
  <2> HIDE DEF cc, dd, masking
  <2> QED
    BY <1>5, <2>1, <2>2 DEF Meets
<1>7. Agrees(items, rows[j], cc, dd)
  <2>1. Right(a[j], checks[j], vectors[j], rows[j])
    OBVIOUS
  <2> HIDE DEF cc, dd
  <2> QED
    BY <1>3, <1>5, <1>6, <2>1 DEF Right
<1> HIDE DEF start, at, node, j, n, cc, dd
<1>8. IM!Convert(a, node, d, vectors) =
         [safe |-> TRUE, rows |-> IM!Entries(node, d, items, lists)]
  <2>1. IM!Convert(a, node, d, vectors) = IM!ConvertFixed(node, d, vectors)
    BY DEF IM!Convert, IM!Unions, node
  <2>2. items.safe
    BY <1>7 DEF Agrees
  <2> QED
    BY <1>1, <2>1, <2>2 DEF IM!ConvertFixed, IM!Vector, dd, j, n
<1>9. ASSUME NEW r \in IM!RowIds(d), start + r \notin node.nulls, r \notin IM!NullRows(node, d)
      PROVE  IM!RowOf(node, c.inherited + r, rows) = IM!Entry(lists[r], items)
  <2>1. /\ c.inherited + r + node.offset = start + r /\ start + r \in IM!Positions(node)
        /\ node.kind = "fixed"
    BY <1>1 DEF PlacedAt, node
  <2>2. IM!RowOf(node, c.inherited + r, rows) =
           <<"list", [k \in 1..n |-> rows[j][(start + r) * n + k - 1]]>>
    BY <1>9, <2>1 DEF IM!RowOf, j, n
  <2>3. lists[r] = [offset |-> r * n, size |-> n]
    OBVIOUS
  <2> HIDE DEF lists
  <2>4. ASSUME NEW k \in 1..n
        PROVE  /\ r * n + k - 1 \in DOMAIN items.rows
               /\ items.rows[r * n + k - 1] = rows[j][(start + r) * n + k - 1]
      <3>1. /\ r * n + k - 1 \in 0..(c.size * n - 1) /\ (r * n + k - 1) \div n = r
          /\ start * n + (r * n + k - 1) = (start + r) * n + k - 1
      <4>1. r \in 0..(c.size - 1)
        BY <1>2 DEF IM!RowIds
      <4> QED
        BY <1>2, <4>1, ElementOf
    <3>2. r * n + k - 1 \in IM!RowIds(dd) \ (dd.masked \cup dd.spread)
      BY <1>2, <1>5, <1>6, <1>9, <3>1
    <3> QED
      BY <1>5, <1>7, <3>1, <3>2 DEF Agrees
  <2>5. IM!Entry(lists[r], items) =
           <<"list", [k \in 1..n |-> rows[j][(start + r) * n + k - 1]]>>
    BY <2>3, <2>4 DEF IM!Entry
  <2> QED
    BY <2>2, <2>5
<1> HIDE DEF items, lists
<1>10. node.kind # "null"
  BY DEF node
<1>11. Agrees(IM!Convert(a, node, d, vectors), Meaning(node, rows), c, d)
  BY <1>1, <1>8, <1>9, <1>10, EntriesRight
<1> QED
  BY <1>11 DEF node

-----------------------------------------------------------------------------
(* Unions, run ends and dictionaries.                                      *)

LEMMA UnionRight ==
    ASSUME NEW a, NEW i, SoundNode(a, i), a[i].kind \in {"union", "recoded"},
           NEW checks, NEW vectors, NEW rows,
           \A f \in DOMAIN a[i].children :
               LET j == a[i].children[f] IN Right(a[j], checks[j], vectors[j], rows[j]),
           NEW c \in IM!Ctx, NEW d \in IM!Passed, Meets(a[i], c, d),
           IM!Check(a, a[i], c, checks)
    PROVE  Agrees(IM!Convert(a, a[i], d, vectors), Meaning(a[i], rows), c, d)
<1> DEFINE node == a[i]
<1> DEFINE start == IM!ArrowStart(c, node.offset)
<1> DEFINE at == IM!ValuesAt(node, d)
<1> DEFINE cc == IM!UnionCtx(node, c)
<1> DEFINE dd == IM!MemberPassed(d)
<1> DEFINE Member(f) == vectors[node.children[f]][dd]
<1> DEFINE tag(r) == node.data[at + r]
<1>1. /\ PlacedAt(node, rows, c, d, start) /\ IM!Reads(node, d)
      /\ c.size > 0 => at = start
      /\ IM!CheckKind(a, node, c, checks)
  BY PlainNode
<1>2. node.kind = "union" /\ node.count = 0 /\ node.nulls = {}
  <2>1. node.kind = "union"
    BY <1>1 DEF IM!CheckKind
  <2>2. node.count = 0
    BY <2>1, PlainChecked DEF IM!Unions
  <2> QED
    BY <2>1, <2>2 DEF SoundNode
<1>3. /\ cc \in IM!Ctx /\ cc.inherited = start
      /\ dd \in IM!Passed /\ dd.size = d.size /\ dd.masked = {} /\ dd.spread = {}
      /\ dd.nested = cc.nested /\ dd.parent = cc.parent /\ dd.size = cc.size
      /\ dd.route = cc.route /\ dd.inMap = cc.inMap /\ dd.vparent = cc.vparent
  <2>1. node.offset \in Nat /\ start \in Nat
    BY <1>1 DEF SoundNode, PlacedAt
  <2>2. cc \in IM!Ctx /\ cc.inherited = start
    BY <2>1 DEF IM!UnionCtx, IM!ColumnCtx, IM!Ctx, IM!Routes
  <2>3. dd \in IM!Passed /\ dd.size = d.size /\ dd.masked = {} /\ dd.spread = {}
    BY DEF IM!MemberPassed, IM!Passed, IM!Routes
  <2>4. /\ dd.nested = cc.nested /\ dd.parent = cc.parent /\ dd.size = cc.size
        /\ dd.route = cc.route /\ dd.inMap = cc.inMap /\ dd.vparent = cc.vparent
    BY DEF IM!MemberPassed, IM!UnionCtx, IM!ColumnCtx, IM!Passed, IM!Ctx, Meets
  <2> QED
    BY <2>2, <2>3, <2>4
<1> HIDE DEF cc, dd
<1>4. ASSUME NEW f \in DOMAIN node.children
      PROVE  Agrees(Member(f), rows[node.children[f]], cc, dd)
  <2>1. checks[node.children[f]][cc]
    BY <1>1, <1>2 DEF IM!CheckKind, cc
  <2>2. Meets(a[node.children[f]], cc, dd)
    BY <1>3 DEF Meets
  <2> QED
    BY <1>3, <2>1, <2>2 DEF Right
<1> HIDE DEF start, at, node
<1>5. IM!Convert(a, node, d, vectors) =
         [safe |-> TRUE,
          rows |-> [r \in IM!RowIds(d) |->
                       <<"member", tag(r), Member(tag(r) + 1).rows[r]>>]]
  <2>1. IM!Convert(a, node, d, vectors) = IM!ConvertUnion(node, d, vectors)
    BY <1>2 DEF IM!Convert, IM!Unions, node
  <2>2. \A f \in DOMAIN node.children : Member(f).safe
    BY <1>4 DEF Agrees
  <2> QED
    BY <1>1, <1>2, <2>1, <2>2 DEF IM!ConvertUnion, IM!Vector, dd, at
<1>6. ASSUME NEW r \in IM!RowIds(d)
      PROVE  Meaning(node, rows)[c.inherited + r] =
                 <<"member", tag(r), Member(tag(r) + 1).rows[r]>>
  <2>1. at = start
    BY <1>1, SomeRow DEF node
  <2>2. /\ c.inherited + r + node.offset = start + r /\ start + r \in IM!Positions(node)
        /\ Meaning(node, rows)[c.inherited + r] = IM!RowOf(node, c.inherited + r, rows)
    BY <1>1, <1>2 DEF PlacedAt
  <2>3. IM!RowOf(node, c.inherited + r, rows) =
           <<"member", tag(r), rows[node.children[tag(r) + 1]][start + r]>>
    BY <1>2, <2>1, <2>2 DEF IM!RowOf
  <2>4. tag(r) + 1 \in DOMAIN node.children
    <3>1. start + r \in node.offset..(node.offset + node.length - 1)
      <4>1. c.inherited \in Nat /\ node.offset \in Nat /\ node.length \in Nat /\ r \in Nat
        BY <1>1, Fields DEF SoundNode, node, PlacedAt
      <4> QED
        BY <2>2, <4>1 DEF IM!Positions
    <3> QED
      BY <1>2, <2>1, <3>1 DEF SoundNode, node
  <2>5. Member(tag(r) + 1).rows[r] = rows[node.children[tag(r) + 1]][start + r]
    <3>1. r \in IM!RowIds(dd) \ (dd.masked \cup dd.spread)
      BY <1>3 DEF IM!RowIds
    <3> QED
      BY <1>3, <1>4, <2>4, <3>1 DEF Agrees
  <2> QED
    BY <2>2, <2>3, <2>5
<1> HIDE DEF Member, tag
<1>7. /\ IM!Convert(a, node, d, vectors).safe
      /\ DOMAIN IM!Convert(a, node, d, vectors).rows = IM!RowIds(d)
  BY <1>5
<1> QED
  BY <1>5, <1>6, <1>7 DEF Agrees, node

\* The run a row is in is a value.
LEMMA RunIs ==
    ASSUME NEW ends, DOMAIN ends \subseteq Nat, \A k \in DOMAIN ends : ends[k] \in Int,
           NEW at \in Nat, NEW k \in DOMAIN ends, ends[k] > at
    PROVE  IM!RunAt(ends, at) \in DOMAIN ends
<1> DEFINE later == {ends[m] : m \in {q \in DOMAIN ends : ends[q] > at}}
<1>1. later \in SUBSET Nat /\ later # {}
  OBVIOUS
<1>2. \E n \in later : \A m \in later : n <= m
  BY <1>1, LeastNumber
<1>3. \E m \in DOMAIN ends :
         /\ ends[m] > at
         /\ \A q \in DOMAIN ends : ends[q] > at => ends[m] <= ends[q]
  BY <1>2
<1> QED
  BY <1>3 DEF IM!RunAt

LEMMA RunsRight ==
    ASSUME NEW a, NEW i, SoundNode(a, i), a[i].kind = "runend",
           a[a[i].children[1]].length \in Nat,
           NEW checks, NEW vectors, NEW rows,
           Right(a[a[i].children[1]], checks[a[i].children[1]],
                 vectors[a[i].children[1]], rows[a[i].children[1]]),
           NEW c \in IM!Ctx, NEW d \in IM!Passed, Meets(a[i], c, d),
           IM!Check(a, a[i], c, checks)
    PROVE  Agrees(IM!Convert(a, a[i], d, vectors), Meaning(a[i], rows), c, d)
<1> DEFINE node == a[i]
<1> DEFINE j == node.children[1]
<1> DEFINE size == a[j].length
<1> DEFINE start == IM!ArrowStart(c, node.offset)
<1> DEFINE m == IM!MemberCtx(c)
<1> DEFINE logical == IM!ValuesAt(node, IM!FromRowZero(d))
<1> DEFINE cc == [IM!ColumnCtx(size) EXCEPT !.route = "plain"]
<1> DEFINE dd == [IM!Top(size) EXCEPT !.vparent = logical - node.offset,
                                      !.route = "plain", !.chunk = d.chunk]
<1> DEFINE values == vectors[j][dd]
<1>1. /\ IM!FitsOneVector(c.size) /\ IM!Covers(node, m)
      /\ c.size > 0 => IM!DuckStart(m, node.offset) = IM!ArrowStart(m, node.offset)
      /\ IM!CheckRuns(a, node, m, checks)
      /\ m.size = c.size /\ m.inherited = c.inherited /\ m.route = c.route
  <2>1. m.size = c.size /\ m.inherited = c.inherited /\ m.route = c.route
    BY DEF IM!MemberCtx, IM!Ctx
  <2>2. IM!FitsOneVector(c.size) /\ IM!CheckPlain(a, node, m, checks)
    BY DEF IM!Check, IM!Unions
  <2> HIDE DEF m
  <2>3. /\ IM!Covers(node, m) /\ IM!CheckKind(a, node, m, checks)
        /\ c.size > 0 => IM!DuckStart(m, node.offset) = IM!ArrowStart(m, node.offset)
    BY <2>1, <2>2 DEF IM!CheckPlain
  <2>4. IM!CheckRuns(a, node, m, checks)
    BY <2>3 DEF IM!CheckKind
  <2> QED
    BY <2>1, <2>2, <2>3, <2>4
<1>2. /\ c.size \in Nat /\ d.size = c.size /\ c.inherited \in Nat /\ d.chunk \in Nat
      /\ node.offset \in Nat /\ node.length \in Nat /\ start = node.offset + c.inherited
      /\ c.size > 0 => c.inherited + c.size <= node.length
      /\ node.nulls = {}
  BY <1>1, Fields DEF Meets, SoundNode, IM!ArrowStart, IM!Covers, IM!Passed
<1>3. /\ c.size > 0 => logical = start
      /\ logical - node.offset = IF m.nested # None THEN m.nested ELSE m.parent
      /\ logical - node.offset \in Nat
  <2> DEFINE x == IM!FromRowZero(d)
  <2>1. x.nested = m.nested /\ x.parent = m.parent /\ m.nested \in {None} \cup Nat /\ m.parent \in Nat
    BY Fields DEF IM!FromRowZero, IM!MemberCtx, IM!Ctx, IM!Passed, Meets
  <2>2. logical = node.offset + IF m.nested # None THEN m.nested ELSE m.parent
    BY <2>1 DEF IM!ValuesAt, IM!From
  <2>3. c.size > 0 => logical = start
    BY <1>1, <2>2 DEF IM!DuckStart, IM!ArrowStart
  <2> HIDE DEF m, logical
  <2> QED
    BY <1>2, <2>1, <2>2, <2>3
<1> HIDE DEF logical, start
<1>4. Agrees(values, rows[j], cc, dd) /\ cc.inherited = 0 /\ IM!RowIds(dd) = 0..(size - 1)
      /\ dd.masked \cup dd.spread = {} /\ d.route \notin {"plain", "fixed"}
  <2>1. /\ c.route \notin {"plain", "fixed"} /\ checks[j][cc]
        /\ IM!CopiesValidity(a[j]) => logical - node.offset = 0
    <3>1. IM!CopiesValidity(a[j]) => logical - node.offset = 0
      BY <1>1, <1>3 DEF IM!CheckRuns
    <3> HIDE DEF m
    <3> QED
      BY <1>1, <3>1 DEF IM!CheckRuns
  <2>2. /\ cc \in IM!Ctx /\ cc.inherited = 0 /\ cc.size = size
        /\ dd \in IM!Passed /\ dd.size = size /\ dd.masked = {} /\ dd.spread = {}
        /\ dd.nested = cc.nested /\ dd.parent = cc.parent
        /\ dd.route = cc.route /\ dd.inMap = cc.inMap /\ cc.vparent = 0
        /\ dd.vparent = logical - node.offset
    BY <1>2, <1>3 DEF IM!ColumnCtx, IM!Ctx, IM!Offsets, IM!Routes, IM!Top, IM!Passed
  <2> HIDE DEF cc, dd
  <2>3. Meets(a[j], cc, dd)
    BY <1>2, <2>1, <2>2 DEF Meets
  <2>4. Right(a[j], checks[j], vectors[j], rows[j]) /\ d.route = c.route
    BY DEF Meets
  <2> QED
    BY <2>1, <2>2, <2>3, <2>4 DEF Right, IM!RowIds
<1> HIDE DEF cc, dd, m, node, j
<1>5. IM!Convert(a, node, d, vectors) =
         [safe |-> TRUE,
          rows |-> [r \in IM!RowIds(d) |-> values.rows[IM!RunAt(node.data, logical + r)]]]
  <2>1. IM!Convert(a, node, d, vectors) = IM!ConvertRuns(a, node, d, vectors)
    BY DEF IM!Convert, IM!Unions, node
  <2>2. IM!Inside(node, d)
    BY <1>1, <1>2 DEF IM!Inside, IM!CopiesValidity, IM!FitsOneVector, node
  <2>3. IM!Within(node, logical, d.size)
    BY <1>2, <1>3 DEF IM!Within
  <2>4. values.safe
    BY <1>4 DEF Agrees
  <2> QED
    BY <1>4, <2>1, <2>2, <2>3, <2>4 DEF IM!ConvertRuns, IM!Vector, logical, dd, j
<1>6. ASSUME NEW r \in IM!RowIds(d)
      PROVE  Meaning(node, rows)[c.inherited + r] =
                 values.rows[IM!RunAt(node.data, logical + r)]
  <2> DEFINE k == IM!RunAt(node.data, start + r)
  <2>1. c.size > 0
    BY SomeRow DEF node
  <2>2. r \in 0..(c.size - 1) /\ logical = start
    BY <1>2, <1>3, <2>1 DEF IM!RowIds
  <2>3. /\ start + r \in Nat /\ start + r < node.offset + node.length
        /\ c.inherited + r + node.offset = start + r /\ c.inherited + r \in Int
        /\ start + r \in IM!Positions(node)
    BY <1>2, <2>1, <2>2 DEF IM!Positions
  <2>4. k \in 0..(size - 1)
    <3>1. /\ DOMAIN node.data \subseteq 0..(size - 1)
          /\ \A q \in DOMAIN node.data : node.data[q] \in Int
          /\ \E q \in DOMAIN node.data : node.data[q] >= node.offset + node.length
      BY DEF SoundNode, node, j
    <3>2. PICK q \in DOMAIN node.data : node.data[q] >= node.offset + node.length
      BY <3>1
    <3>3. node.data[q] > start + r
      BY <1>2, <2>3, <3>1, <3>2
    <3>4. DOMAIN node.data \subseteq Nat
      BY <3>1
    <3>5. k \in DOMAIN node.data
      BY <2>3, <3>1, <3>2, <3>3, <3>4, RunIs
    <3> QED
      BY <3>1, <3>5
  <2>5. Meaning(node, rows)[c.inherited + r] = rows[j][k]
    BY <1>2, <2>3 DEF Meaning, IM!RowOf, node, j
  <2> HIDE DEF k
  <2>6. values.rows[k] = rows[j][0 + k] /\ 0 + k = k
    BY <1>4, <2>4 DEF Agrees
  <2> QED
    BY <2>2, <2>5, <2>6 DEF k
<1>7. /\ IM!Convert(a, node, d, vectors).safe
      /\ DOMAIN IM!Convert(a, node, d, vectors).rows = IM!RowIds(d)
  BY <1>5
<1> QED
  BY <1>5, <1>6, <1>7 DEF Agrees, node


LEMMA DictionaryRight ==
    ASSUME NEW a, NEW i, SoundNode(a, i), a[i].kind = "dict", Limit \in Nat,
           a[a[i].children[1]].length \in Nat,
           NEW checks, NEW vectors, NEW rows,
           Right(a[a[i].children[1]], checks[a[i].children[1]],
                 vectors[a[i].children[1]], rows[a[i].children[1]]),
           NEW c \in IM!Ctx, NEW d \in IM!Passed, Meets(a[i], c, d),
           IM!Check(a, a[i], c, checks)
    PROVE  Agrees(IM!Convert(a, a[i], d, vectors), Meaning(a[i], rows), c, d)
<1> DEFINE node == a[i]
<1> DEFINE j == node.children[1]
<1> DEFINE inside == a[j]
<1> DEFINE size == inside.length
<1> DEFINE start == IM!ArrowStart(c, node.offset)
<1> DEFINE m == IM!MemberCtx(c)
<1> DEFINE own == IM!CopiesValidity(node)
<1> DEFINE index == IM!ValuesAt(node, IM!FromRowZero(d))
<1> DEFINE bits == node.offset + IM!FromRowZero(d).parent
<1> DEFINE cc == IM!ColumnCtx(size)
<1> DEFINE dd == [IM!Top(size) EXCEPT !.chunk = d.chunk]
<1> DEFINE values == vectors[j][dd]
<1> DEFINE nulls == IF node.count > 0 \/ d.masked # {}
                    THEN (IF own THEN {r \in IM!RowIds(d) : bits + r \in node.nulls} ELSE {})
                         \cup d.masked
                    ELSE {}
<1>1. /\ m.size = c.size /\ m.inherited = c.inherited /\ m.route = c.route
      /\ m.inMap = c.inMap /\ m.structNulls = c.structNulls
      /\ IM!FromRowZero(d).nested = m.nested /\ IM!FromRowZero(d).parent = m.parent
      /\ m.nested \in {None} \cup Nat /\ m.parent \in Nat
      /\ c.size \in Nat /\ d.size = c.size /\ c.inherited \in Nat /\ d.chunk \in Nat
      /\ node.offset \in Nat /\ node.length \in Nat
  <2>1. /\ m.size = c.size /\ m.inherited = c.inherited /\ m.route = c.route
        /\ m.inMap = c.inMap /\ m.structNulls = c.structNulls
    BY DEF IM!MemberCtx, IM!Ctx
  <2>2. /\ IM!FromRowZero(d).nested = m.nested /\ IM!FromRowZero(d).parent = m.parent
        /\ m.nested \in {None} \cup Nat /\ m.parent \in Nat
    BY Fields DEF IM!FromRowZero, IM!MemberCtx, IM!Ctx, IM!Passed, Meets
  <2>3. /\ c.size \in Nat /\ d.size = c.size /\ c.inherited \in Nat /\ d.chunk \in Nat
        /\ node.offset \in Nat /\ node.length \in Nat
    BY Fields DEF IM!Passed, Meets, SoundNode
  <2> QED
    BY <2>1, <2>2, <2>3
<1> HIDE DEF m
<1>2. /\ IM!FitsOneVector(c.size)
      /\ c.route # "plain" /\ ~ (c.inMap /\ c.route = "fixed")
      /\ c.size > 0 => c.inherited + c.size <= node.length
      /\ c.size > 0 => index = start
      /\ own => node.count > 0
      /\ own /\ c.size > 0 => bits = start
      /\ own \/ c.structNulls => c.size <= Limit
      /\ inside.kind # "dict"
      /\ IM!IndicesInside(node, start, c.size, size, own)
      /\ checks[j][cc]
  <2>1. IM!FitsOneVector(c.size) /\ IM!CheckDictionary(a, node, m, checks)
    BY DEF IM!Check, m
  <2>2. start = IM!ArrowStart(m, node.offset)
    BY <1>1 DEF IM!ArrowStart
  <2>3. index = IM!DuckStart(m, node.offset)
    BY <1>1 DEF IM!ValuesAt, IM!From, IM!DuckStart
  <2> HIDE DEF index, start, own
  <2> QED
    BY <1>1, <2>1, <2>2, <2>3 DEF IM!CheckDictionary, IM!Covers, own
<1>3. start \in Nat /\ start = node.offset + c.inherited
  BY <1>1 DEF IM!ArrowStart
<1> HIDE DEF start, index, bits
<1>4. Agrees(values, rows[j], cc, dd) /\ cc.inherited = 0 /\ IM!RowIds(dd) = 0..(size - 1)
      /\ dd.masked \cup dd.spread = {}
  <2>1. /\ cc \in IM!Ctx /\ cc.inherited = 0 /\ cc.size = size
        /\ dd \in IM!Passed /\ dd.size = size /\ dd.masked = {} /\ dd.spread = {}
        /\ dd.nested = cc.nested /\ dd.parent = cc.parent
        /\ dd.route = cc.route /\ dd.inMap = cc.inMap /\ dd.vparent = cc.vparent
    BY <1>1 DEF IM!ColumnCtx, IM!Ctx, IM!Offsets, IM!Routes, IM!Top, IM!Passed
  <2> HIDE DEF cc, dd
  <2>2. Meets(a[j], cc, dd)
    BY <2>1 DEF Meets
  <2>3. Right(a[j], checks[j], vectors[j], rows[j])
    OBVIOUS
  <2> QED
    BY <1>2, <2>1, <2>2, <2>3 DEF Right, IM!RowIds
<1>5. own => node.count # 0
  BY DEF IM!CopiesValidity
<1>6. ~ own => node.nulls = {}
  BY DEF IM!CopiesValidity, SoundNode
<1> HIDE DEF cc, dd, own, node, j
<1>7. ASSUME NEW r \in IM!RowIds(d)
      PROVE  /\ c.size > 0 /\ r \in 0..(c.size - 1) /\ index = start
             /\ r \in nulls <=> (start + r \in node.nulls \/ r \in d.masked)
             /\ start + r \notin node.nulls => node.data[start + r] \in 0..(size - 1)
             /\ c.inherited + r \in Int /\ c.inherited + r + node.offset = start + r
             /\ start + r \in IM!Positions(node)
  <2>1. c.size > 0 /\ r \in 0..(c.size - 1) /\ index = start
    <3>1. c.size > 0
      BY SomeRow DEF node
    <3> QED
      BY <1>1, <1>2, <3>1 DEF IM!RowIds
  <2>2. /\ c.inherited + r \in Int /\ c.inherited + r + node.offset = start + r
        /\ start + r \in IM!Positions(node) /\ start + r \in start..(start + c.size - 1)
    BY <1>1, <1>2, <1>3, <2>1 DEF IM!Positions
  <2>3. r \in nulls <=> (start + r \in node.nulls \/ r \in d.masked)
    <3>1. CASE own
      BY <1>2, <2>1, <3>1
    <3>2. CASE ~ own
      BY <1>6, <3>2
    <3> QED
      BY <3>1, <3>2
  <2>4. start + r \notin node.nulls => node.data[start + r] \in 0..(size - 1)
    BY <1>2, <2>2 DEF IM!IndicesInside
  <2> QED
    BY <2>1, <2>2, <2>3, <2>4
<1> DEFINE made == [r \in IM!RowIds(d) |->
                       IF r \in nulls THEN IM!Null ELSE values.rows[node.data[index + r]]]
<1>8. IM!Convert(a, node, d, vectors) = [safe |-> TRUE, rows |-> made]
  <2>1. IM!Convert(a, node, d, vectors) = IM!ConvertDictionary(a, node, d, vectors)
    BY DEF IM!Convert, IM!Unions, node
  <2>2. /\ IM!NextPowerOfTwo(d.size) <= MaxCapacity
        /\ IM!Within(node, index, d.size)
        /\ own => IM!Within(node, bits, d.size) /\ d.size <= Limit
        /\ \A r \in d.masked : r < Limit
        /\ values.safe
        /\ \A r \in IM!RowIds(d) \ nulls : node.data[index + r] \in 0..(size - 1)
        /\ d.route # "plain" /\ ~ (d.route = "fixed" /\ d.inMap)
        /\ inside.kind # "dict"
    <3>1. IM!NextPowerOfTwo(d.size) <= MaxCapacity
      BY <1>1, <1>2 DEF IM!FitsOneVector
    <3>2. IM!Within(node, index, d.size)
      BY <1>1, <1>2, <1>3 DEF IM!Within
    <3>3. own => IM!Within(node, bits, d.size) /\ d.size <= Limit
      BY <1>1, <1>2, <1>3 DEF IM!Within
    <3>4. \A r \in d.masked : r < Limit
      <4> SUFFICES ASSUME NEW r \in d.masked PROVE r < Limit
        OBVIOUS
      <4>1. r \in IM!RowIds(d) /\ c.structNulls
        BY DEF Meets
      <4> QED
        BY <1>1, <1>2, <1>7, <4>1
    <3>5. values.safe
      BY <1>4 DEF Agrees
    <3>6. \A r \in IM!RowIds(d) \ nulls : node.data[index + r] \in 0..(size - 1)
      BY <1>7
    <3>7. /\ d.route # "plain" /\ ~ (d.route = "fixed" /\ d.inMap)
          /\ inside.kind # "dict"
      BY <1>2 DEF Meets
    <3> QED
      BY <3>1, <3>2, <3>3, <3>4, <3>5, <3>6, <3>7
  <2> HIDE DEF values, inside
  <2> QED
    BY <2>1, <2>2 DEF IM!ConvertDictionary, IM!Vector, values, inside, dd, own, j, index, bits
<1>9. ASSUME NEW r \in IM!RowIds(d), r \notin d.masked
      PROVE  made[r] = Meaning(node, rows)[c.inherited + r]
  <2>1. Meaning(node, rows)[c.inherited + r] =
           IF start + r \in node.nulls THEN IM!Null ELSE rows[j][node.data[start + r]]
    BY <1>7 DEF Meaning, IM!RowOf, node, j
  <2>2. start + r \notin node.nulls =>
           values.rows[node.data[start + r]] = rows[j][node.data[start + r]]
    <3> SUFFICES ASSUME start + r \notin node.nulls
                 PROVE  values.rows[node.data[start + r]] = rows[j][node.data[start + r]]
      OBVIOUS
    <3>1. node.data[start + r] \in 0..(size - 1)
      BY <1>7
    <3>2. 0 + node.data[start + r] = node.data[start + r]
      BY <1>4, <3>1
    <3> QED
      BY <1>4, <3>1, <3>2 DEF Agrees
  <2>3. made[r] = IF r \in nulls THEN IM!Null ELSE values.rows[node.data[start + r]]
    BY <1>7
  <2> HIDE DEF made, nulls
  <2> QED
    BY <1>7, <1>9, <2>1, <2>2, <2>3
<1>10. DOMAIN made = IM!RowIds(d)
  OBVIOUS
<1> HIDE DEF made
<1>11. /\ IM!Convert(a, node, d, vectors).safe
       /\ DOMAIN IM!Convert(a, node, d, vectors).rows = IM!RowIds(d)
  BY <1>8, <1>10
<1> QED
  BY <1>8, <1>9, <1>11 DEF Agrees, node


-----------------------------------------------------------------------------
(* All of them: a node is right when those inside it are.                  *)

LEMMA AllRight ==
    ASSUME NEW a, NEW size \in Nat, DOMAIN a = 1..size,
           \A i \in 1..size : SoundNode(a, i), Limit \in Nat
    PROVE  \A i \in 1..size :
               Right(a[i], IM!CheckNode(a)[i], IM!Converted(a)[i], IM!ArrowRow(a)[i])
<1> DEFINE C == IM!CheckNode(a)
<1> DEFINE V == IM!Converted(a)
<1> DEFINE R == IM!ArrowRow(a)
<1> DEFINE wrong == {i \in 1..size : ~ Right(a[i], C[i], V[i], R[i])}
<1>1. /\ C = [i \in 1..size |-> ChecksOfNode(a, i, C)]
      /\ V = [i \in 1..size |-> VectorsOfNode(a, i, V)]
      /\ R = [i \in 1..size |-> RowsOfNode(a, i, R)]
  BY ArrowRowsDefined, VectorsDefined, ChecksDefined
<1> HIDE DEF C, V, R
<1>2. ASSUME NEW i \in 1..size, \A j \in 1..(i - 1) : Right(a[j], C[j], V[j], R[j])
      PROVE  Right(a[i], C[i], V[i], R[i])
  <2> DEFINE checks == IM!Before(i, C)
  <2> DEFINE vectors == IM!Before(i, V)
  <2> DEFINE rows == IM!Before(i, R)
  <2>1. /\ R[i] = Meaning(a[i], rows)
        /\ \A d \in IM!Passed : V[i][d] = IM!Convert(a, a[i], d, vectors)
        /\ \A c \in IM!Ctx : C[i][c] = IM!Check(a, a[i], c, checks)
    <3>1. R[i] = RowsOfNode(a, i, R)
      BY <1>1
    <3>2. V[i] = VectorsOfNode(a, i, V)
      BY <1>1
    <3>3. C[i] = ChecksOfNode(a, i, C)
      BY <1>1
    <3>4. R[i] = Meaning(a[i], rows)
      BY <3>1 DEF RowsOfNode, Meaning
    <3>5. \A d \in IM!Passed : V[i][d] = IM!Convert(a, a[i], d, vectors)
      BY <3>2 DEF VectorsOfNode
    <3>6. \A c \in IM!Ctx : C[i][c] = IM!Check(a, a[i], c, checks)
      BY <3>3 DEF ChecksOfNode
    <3> QED
      BY <3>4, <3>5, <3>6
  <2>2. \A j \in 1..(i - 1) : Right(a[j], checks[j], vectors[j], rows[j])
    BY <1>2 DEF IM!Before
  <2> HIDE DEF checks, vectors, rows
  <2>3. SoundNode(a, i)
    OBVIOUS
  <2>4. /\ \A f \in DOMAIN a[i].children : a[i].children[f] \in 1..(i - 1)
        /\ a[i].kind \in Kinds
        /\ a[i].kind \notin {"null", "leaf", "copied"} => a[i].children[1] \in 1..(i - 1)
    BY <2>3 DEF SoundNode
  <2>5. \A f \in DOMAIN a[i].children :
            LET j == a[i].children[f] IN Right(a[j], checks[j], vectors[j], rows[j])
    BY <2>2, <2>4
  <2>6. a[i].kind \notin {"null", "leaf", "copied"} =>
          /\ Right(a[a[i].children[1]], checks[a[i].children[1]],
                   vectors[a[i].children[1]], rows[a[i].children[1]])
          /\ a[a[i].children[1]].length \in Nat
    <3> SUFFICES ASSUME a[i].kind \notin {"null", "leaf", "copied"}
                 PROVE  /\ Right(a[a[i].children[1]], checks[a[i].children[1]],
                                 vectors[a[i].children[1]], rows[a[i].children[1]])
                        /\ a[a[i].children[1]].length \in Nat
      OBVIOUS
    <3>1. a[i].children[1] \in 1..(i - 1) /\ a[i].children[1] \in 1..size
      BY <2>4
    <3>2. SoundNode(a, a[i].children[1])
      BY <3>1
    <3> QED
      BY <2>2, <3>1, <3>2 DEF SoundNode
  <2>7. ASSUME NEW c \in IM!Ctx, NEW d \in IM!Passed, Meets(a[i], c, d),
               IM!Check(a, a[i], c, checks)
        PROVE  Agrees(IM!Convert(a, a[i], d, vectors), Meaning(a[i], rows), c, d)
    <3>1. CASE a[i].kind = "null"
      BY <2>7, <3>1, NullRight
    <3>2. CASE a[i].kind \in {"leaf", "copied"}
      BY <2>3, <2>7, <3>2, LeafRight
    <3>3. CASE a[i].kind = "struct"
      BY <2>3, <2>5, <2>7, <3>3, StructRight
    <3>4. CASE a[i].kind \in {"list", "map"}
      BY <2>3, <2>6, <2>7, <3>4, ListRight
    <3>5. CASE a[i].kind = "view"
      BY <2>3, <2>6, <2>7, <3>5, ViewRight
    <3>6. CASE a[i].kind = "fixed"
      BY <2>3, <2>6, <2>7, <3>6, FixedRight
    <3>7. CASE a[i].kind \in {"union", "recoded"}
      BY <2>3, <2>5, <2>7, <3>7, UnionRight
    <3>8. CASE a[i].kind = "runend"
      BY <2>3, <2>6, <2>7, <3>8, RunsRight
    <3>9. CASE a[i].kind = "dict"
      BY <2>3, <2>6, <2>7, <3>9, DictionaryRight
    <3> QED
      BY <2>4, <3>1, <3>2, <3>3, <3>4, <3>5, <3>6, <3>7, <3>8, <3>9 DEF Kinds
  <2>8. ASSUME NEW c \in IM!Ctx, NEW d \in IM!Passed, Meets(a[i], c, d), C[i][c]
        PROVE  Agrees(V[i][d], R[i], c, d)
    <3>1. IM!Check(a, a[i], c, checks)
      BY <2>1, <2>8
    <3>2. Agrees(IM!Convert(a, a[i], d, vectors), Meaning(a[i], rows), c, d)
      BY <2>7, <2>8, <3>1
    <3> QED
      BY <2>1, <3>2
  <2> QED
    BY <2>8 DEF Right
<1>3. wrong \in SUBSET Nat
  OBVIOUS
<1>4. wrong = {}
  <2> SUFFICES ASSUME wrong # {} PROVE FALSE
    OBVIOUS
  <2>1. PICK i \in wrong : \A m \in wrong : i <= m
    BY <1>3, LeastNumber
  <2>2. i \in 1..size /\ ~ Right(a[i], C[i], V[i], R[i])
    BY <2>1
  <2>3. \A j \in 1..(i - 1) : j \in 1..size /\ ~ (i <= j)
    BY <2>2
  <2>4. \A j \in 1..(i - 1) : Right(a[j], C[j], V[j], R[j])
    BY <2>1, <2>3
  <2> QED
    BY <1>2, <2>2, <2>4
<1>5. \A i \in 1..size : Right(a[i], C[i], V[i], R[i])
  BY <1>4
<1> QED
  BY <1>5 DEF C, V, R


-----------------------------------------------------------------------------
(* What a producer builds is sound, and what was accepted is what it built. *)

Buffers == ListBuffers \cup ViewBuffers \cup IndexBuffers \cup RunBuffers
             \cup TagBuffers \cup ArraySizes \cup {<<>>}
Nodes == [kind : Kinds, length : Nat, offset : Nat, count : Int, nulls : SUBSET Nat,
          data : Buffers, children : Seq(Nat)]

SoundArray(a) == a \in Seq(Nodes) /\ \A i \in 1..Len(a) : SoundNode(a, i)

ImportInv ==
    /\ SoundArray(array)
    /\ batch # None =>
          /\ array # <<>> /\ batch.length \in Nat
          /\ batch.accepted => IM!Accepted(batch, array)

LEMMA Added ==
    ASSUME NEW a, SoundArray(a), NEW n \in Nodes
    PROVE  /\ a \o <<n>> \in Seq(Nodes) /\ Len(a) \in Nat /\ Len(a \o <<n>>) = Len(a) + 1
           /\ (a \o <<n>>)[Len(a) + 1] = n
           /\ \A i \in 1..Len(a) : a[i] \in Nodes /\ (a \o <<n>>)[i] = a[i]
           /\ SoundNode(a \o <<n>>, Len(a) + 1) => SoundArray(a \o <<n>>)
<1> DEFINE b == a \o <<n>>
<1>1. a \in Seq(Nodes) /\ Len(a) \in Nat /\ <<n>> \in Seq(Nodes)
  BY DEF SoundArray
<1>2. /\ b \in Seq(Nodes) /\ Len(b) = Len(a) + 1 /\ b[Len(a) + 1] = n
      /\ \A i \in 1..Len(a) : a[i] \in Nodes /\ b[i] = a[i]
  BY <1>1
<1> HIDE DEF b
<1>3. ASSUME NEW i \in 1..Len(a) PROVE SoundNode(b, i)
  <2>1. SoundNode(a, i) /\ b[i] = a[i]
    BY <1>2 DEF SoundArray
  <2>2. a[i].kind = "runend" => b[a[i].children[1]] = a[a[i].children[1]]
    <3>1. a[i].kind = "runend" => a[i].children[1] \in 1..(i - 1)
      BY <2>1 DEF SoundNode
    <3>2. \A j \in 1..(i - 1) : j \in 1..Len(a)
      BY <1>1
    <3> QED
      BY <1>2, <3>1, <3>2
  <2> QED
    BY <2>1, <2>2 DEF SoundNode
<1>4. SoundNode(b, Len(a) + 1) => SoundArray(b)
  <2>1. \A i \in 1..(Len(a) + 1) : i \in 1..Len(a) \/ i = Len(a) + 1
    BY <1>1
  <2> QED
    BY <1>2, <1>3, <2>1 DEF SoundArray
<1> QED
  BY <1>1, <1>2, <1>4 DEF b

LEMMA WholeIsLast ==
    ASSUME SoundArray(array), array # <<>>
    PROVE  /\ Len(array) \in 1..Len(array) /\ IM!It = <<Len(array)>>
           /\ IM!It \in Seq(Nat) /\ DOMAIN IM!It = {1} /\ IM!It[1] = Len(array)
           /\ IM!Whole = array[Len(array)] /\ IM!Whole \in Nodes
<1>1. array \in Seq(Nodes) /\ Len(array) \in Nat /\ Len(array) # 0
  BY DEF SoundArray
<1> QED
  BY <1>1 DEF IM!It, IM!Whole

\* A new node is sound when its data covers its rows.
LEMMA NodeSound ==
    ASSUME NEW a, SoundArray(a), NEW kind \in Kinds, NEW s, s.length \in Nat, s.offset \in Nat,
           NEW b, b.count \in Int, b.nulls \subseteq Nat,
           b.count = 0 \/ kind \in IM!Unions \cup {"runend", "null"} => b.nulls = {},
           NEW data \in Buffers, NEW inside \in Seq(Nat),
           \A f \in DOMAIN inside : inside[f] \in 1..Len(a),
           kind \notin {"null", "leaf", "copied"} => 1 \in DOMAIN inside,
           kind \in {"list", "map"} =>
              \A at \in s.offset..(s.offset + s.length) : data[at] \in Int,
           kind = "view" => \A at \in s.offset..(s.offset + s.length - 1) :
              data[at].offset \in Int /\ data[at].size \in Int,
           kind = "fixed" => data \in Nat,
           kind = "union" => \A at \in s.offset..(s.offset + s.length - 1) :
              data[at] + 1 \in DOMAIN inside,
           kind = "runend" =>
              /\ DOMAIN data \subseteq 0..(a[inside[1]].length - 1)
              /\ \A k \in DOMAIN data : data[k] \in Int
              /\ \E k \in DOMAIN data : data[k] >= s.offset + s.length
    PROVE  LET n == IM!Node(kind, s, b, data, inside) IN
           n \in Nodes /\ SoundArray(a \o <<n>>)
<1> DEFINE n == IM!Node(kind, s, b, data, inside)
<1> DEFINE w == a \o <<n>>
<1>1. n \in Nodes
  BY DEF IM!Node, Nodes
<1>2. /\ n.kind = kind /\ n.length = s.length /\ n.offset = s.offset
      /\ n.count = b.count /\ n.nulls = b.nulls /\ n.data = data /\ n.children = inside
  BY DEF IM!Node
<1> HIDE DEF n
<1>3. /\ w[Len(a) + 1] = n /\ Len(a) \in Nat
      /\ \A i \in 1..Len(a) : w[i] = a[i]
      /\ SoundNode(w, Len(a) + 1) => SoundArray(w)
  BY <1>1, Added
<1> HIDE DEF w
<1>4. SoundNode(w, Len(a) + 1)
  <2> DEFINE i == Len(a) + 1
  <2>1. w[i] = n /\ i - 1 = Len(a)
    BY <1>3
  <2> HIDE DEF i
  <2>2. kind = "runend" => w[inside[1]] = a[inside[1]]
    BY <1>3
  <2>3. /\ n.kind \in Kinds /\ n.length \in Nat /\ n.offset \in Nat
        /\ n.count = 0 \/ n.kind \in IM!Unions \cup {"runend", "null"} => n.nulls = {}
        /\ \A f \in DOMAIN n.children : n.children[f] \in 1..(i - 1)
        /\ n.kind \notin {"null", "leaf", "copied"} => 1 \in DOMAIN n.children
    BY <1>2, <2>1
  <2>4. /\ n.kind \in {"list", "map"} =>
              \A at \in n.offset..(n.offset + n.length) : n.data[at] \in Int
        /\ n.kind = "view" => \A at \in n.offset..(n.offset + n.length - 1) :
              n.data[at].offset \in Int /\ n.data[at].size \in Int
        /\ n.kind = "fixed" => n.data \in Nat
        /\ n.kind = "union" => \A at \in n.offset..(n.offset + n.length - 1) :
              n.data[at] + 1 \in DOMAIN n.children
    BY <1>2
  <2>5. n.kind = "runend" =>
           /\ DOMAIN n.data \subseteq 0..(w[n.children[1]].length - 1)
           /\ \A k \in DOMAIN n.data : n.data[k] \in Int
           /\ \E k \in DOMAIN n.data : n.data[k] >= n.offset + n.length
    BY <1>2, <2>2
  <2>6. SoundNode(w, i)
    BY <2>1, <2>3, <2>4, <2>5 DEF SoundNode
  <2> QED
    BY <2>6 DEF i
<1> QED
  BY <1>1, <1>3, <1>4 DEF n, w


\* Two nodes are appended one after the other.
LEMMA InTurn ==
    ASSUME NEW S, NEW x \in S, NEW y \in S
    PROVE  /\ <<x>> \o <<y>> = <<x, y>>
           /\ \A a \in Seq(S) : (a \o <<x>>) \o <<y>> = a \o <<x, y>>
<1>1. /\ <<x>> \in Seq(S) /\ <<y>> \in Seq(S) /\ <<x, y>> \in Seq(S)
      /\ Len(<<x>>) = 1 /\ Len(<<y>>) = 1 /\ Len(<<x, y>>) = 2
  OBVIOUS
<1>2. <<x>> \o <<y>> = <<x, y>>
  <2>1. <<x>> \o <<y>> \in Seq(S) /\ Len(<<x>> \o <<y>>) = 2
    BY <1>1
  <2>2. \A i \in 1..2 : (<<x>> \o <<y>>)[i] = <<x, y>>[i]
    BY <1>1
  <2> QED
    BY <1>1, <2>1, <2>2, SeqEqual
<1>3. ASSUME NEW a \in Seq(S) PROVE (a \o <<x>>) \o <<y>> = a \o <<x, y>>
  <2> DEFINE one == a \o <<x>>
  <2> DEFINE both == a \o <<x, y>>
  <2>1. Len(a) \in Nat
    OBVIOUS
  <2>2. /\ one \in Seq(S) /\ Len(one) = Len(a) + 1 /\ one[Len(a) + 1] = x
        /\ \A i \in 1..Len(a) : one[i] = a[i]
    BY <1>1
  <2>3. /\ both \in Seq(S) /\ Len(both) = Len(a) + 2
        /\ both[Len(a) + 1] = x /\ both[Len(a) + 2] = y
        /\ \A i \in 1..Len(a) : both[i] = a[i]
    BY <1>1
  <2> HIDE DEF one, both
  <2>4. /\ one \o <<y>> \in Seq(S) /\ Len(one \o <<y>>) = Len(a) + 2
        /\ (one \o <<y>>)[Len(a) + 2] = y
        /\ \A i \in 1..(Len(a) + 1) : (one \o <<y>>)[i] = one[i]
    BY <1>1, <2>1, <2>2
  <2>5. ASSUME NEW i \in 1..(Len(a) + 2) PROVE (one \o <<y>>)[i] = both[i]
    <3>1. i \in 1..Len(a) \/ i = Len(a) + 1 \/ i = Len(a) + 2
      BY <2>1
    <3>2. Len(a) + 1 \in 1..(Len(a) + 1) /\ (i \in 1..Len(a) => i \in 1..(Len(a) + 1))
      BY <2>1
    <3> QED
      BY <2>2, <2>3, <2>4, <3>1, <3>2
  <2>6. one \o <<y>> = both
    BY <2>3, <2>4, <2>5, SeqEqual
  <2> QED
    BY <2>6 DEF one, both
<1> QED
  BY <1>2, <1>3

\* One node more around what was built.
LEMMA WrapSound ==
    ASSUME SoundArray(array), array # <<>>, NEW kind \in Kinds \ {"runend"},
           NEW s \in Slices, NEW b \in Bitmaps \cup {IM!NoNulls},
           kind \notin IM!Unions \cup {"null"},
           NEW data \in Buffers,
           kind \in {"list", "map"} => data \in IM!Covering(ListBuffers, s, 1),
           kind = "view" => data \in IM!Covering(ViewBuffers, s, 0),
           kind = "fixed" => data \in ArraySizes
    PROVE  SoundArray(array \o <<IM!Node(kind, s, b, data, IM!It)>>)
<1>1. /\ s.length \in Nat /\ s.offset \in Nat /\ b.count \in Int /\ b.nulls \subseteq Nat
      /\ b.count = 0 => b.nulls = {}
  BY BufferAssumption DEF IM!NoNulls
<1>2. /\ IM!It \in Seq(Nat) /\ 1 \in DOMAIN IM!It
      /\ \A f \in DOMAIN IM!It : IM!It[f] \in 1..Len(array)
  BY WholeIsLast
<1>3. kind \in {"list", "map"} =>
         \A at \in s.offset..(s.offset + s.length) : data[at] \in Int
  <2>1. s.offset + s.length - 1 + 1 = s.offset + s.length
    BY <1>1
  <2> QED
    BY <2>1, BufferAssumption DEF IM!Covering
<1>4. kind = "view" => \A at \in s.offset..(s.offset + s.length - 1) :
         data[at].offset \in Int /\ data[at].size \in Int
  <2>1. s.offset + s.length - 1 + 0 = s.offset + s.length - 1
    BY <1>1
  <2> QED
    BY <2>1, BufferAssumption DEF IM!Covering
<1>5. kind = "fixed" => data \in Nat
  BY BufferAssumption
<1>6. kind # "union" /\ kind # "runend"
  BY DEF IM!Unions
<1> QED
  BY <1>1, <1>2, <1>3, <1>4, <1>5, <1>6, NodeSound

LEMMA ImportInit == IM!Init => ImportInv
BY DEF IM!Init, ImportInv, SoundArray

LEMMA ImportStep == ImportInv /\ [IM!Next]_(IM!iVars) => ImportInv'
<1> SUFFICES ASSUME ImportInv, [IM!Next]_(IM!iVars) PROVE ImportInv'
  OBVIOUS
<1>1. ASSUME SoundArray(array'), batch' = None PROVE ImportInv'
  BY <1>1 DEF ImportInv
<1>2. SoundArray(array)
  BY DEF ImportInv
<1>3. <<>> \in Buffers /\ ListBuffers \subseteq Buffers /\ ViewBuffers \subseteq Buffers
      /\ IndexBuffers \subseteq Buffers /\ RunBuffers \subseteq Buffers
      /\ TagBuffers \subseteq Buffers /\ ArraySizes \subseteq Buffers
  BY DEF Buffers
<1>4. /\ \A s \in Slices : s.length \in Nat /\ s.offset \in Nat
      /\ \A b \in Bitmaps : /\ b.count \in Int /\ b.nulls \subseteq Nat
                            /\ b.count = 0 => b.nulls = {}
      /\ IM!NoNulls.count \in Int /\ IM!NoNulls.nulls = {} /\ IM!NoNulls.nulls \subseteq Nat
  BY BufferAssumption DEF IM!NoNulls
<1>5. CASE IM!Plain
  <2>1. PICK s \in Slices, b \in Bitmaps, kind \in {"leaf", "copied"} :
           IM!Built(<<IM!Node(kind, s, b, <<>>, <<>>)>>)
    BY <1>5 DEF IM!Plain
  <2>2. kind \in Kinds /\ kind \notin IM!Unions \cup {"runend", "null"} /\ kind \notin {"list", "map"}
    BY DEF Kinds, IM!Unions
  <2>3. <<>> \in Seq(Nat) /\ DOMAIN <<>> = {}
    OBVIOUS
  <2>4. SoundArray(array \o <<IM!Node(kind, s, b, <<>>, <<>>)>>)
    BY <1>2, <1>3, <1>4, <2>2, <2>3, NodeSound DEF IM!Unions
  <2> QED
    BY <1>1, <2>1, <2>4 DEF IM!Built
<1>6. CASE IM!AllNull
  <2>1. PICK s \in Slices : IM!Built(<<IM!Node("null", s, IM!NoNulls, <<>>, <<>>)>>)
    BY <1>6 DEF IM!AllNull
  <2>2. SoundArray(array \o <<IM!Node("null", s, IM!NoNulls, <<>>, <<>>)>>)
    <3>1. "null" \in Kinds /\ <<>> \in Seq(Nat) /\ DOMAIN <<>> = {}
      BY DEF Kinds
    <3> QED
      BY <1>2, <1>3, <1>4, <3>1, NodeSound DEF IM!Unions
  <2> QED
    BY <1>1, <2>1, <2>2 DEF IM!Built
<1>7. CASE IM!StructOf
  <2>1. PICK s \in Slices, b \in Bitmaps : IM!Built(<<IM!Node("struct", s, b, <<>>, IM!It)>>)
    BY <1>7 DEF IM!StructOf
  <2>2. SoundArray(array \o <<IM!Node("struct", s, b, <<>>, IM!It)>>)
    BY <1>2, <1>3, <1>7, WrapSound DEF IM!StructOf, IM!Wraps, Kinds, IM!Unions
  <2> QED
    BY <1>1, <2>1, <2>2 DEF IM!Built
<1>8. CASE IM!ListOf
  <2>1. PICK s \in Slices, b \in Bitmaps : \E data \in IM!Covering(ListBuffers, s, 1) :
           IM!Built(<<IM!Node("list", s, b, data, IM!It)>>)
    BY <1>8 DEF IM!ListOf
  <2>2. PICK data \in IM!Covering(ListBuffers, s, 1) :
           IM!Built(<<IM!Node("list", s, b, data, IM!It)>>)
    BY <2>1
  <2>3. data \in Buffers
    BY <1>3 DEF IM!Covering
  <2>4. SoundArray(array \o <<IM!Node("list", s, b, data, IM!It)>>)
    BY <1>2, <1>8, <2>3, WrapSound DEF IM!ListOf, IM!Wraps, Kinds, IM!Unions
  <2> QED
    BY <1>1, <2>2, <2>4 DEF IM!Built
<1>9. CASE IM!MapOf
  <2>1. PICK s \in Slices, data \in ListBuffers :
           LET entry == [length |-> IM!Whole.length, offset |-> 0] IN
           /\ data \in IM!Covering(ListBuffers, s, 1)
           /\ IM!Built(<<IM!Node("struct", entry, IM!NoNulls, <<>>, IM!It),
                         IM!Node("map", s, IM!NoNulls, data, <<Len(array) + 1>>)>>)
    BY <1>9 DEF IM!MapOf, IM!Covering
  <2> DEFINE entry == [length |-> IM!Whole.length, offset |-> 0]
             inner == IM!Node("struct", entry, IM!NoNulls, <<>>, IM!It)
             outer == IM!Node("map", s, IM!NoNulls, data, <<Len(array) + 1>>)
             one == array \o <<inner>>
  <2>2. /\ IM!It \in Seq(Nat) /\ 1 \in DOMAIN IM!It
        /\ \A f \in DOMAIN IM!It : IM!It[f] \in 1..Len(array)
        /\ entry.length \in Nat /\ entry.offset \in Nat
    BY <1>2, <1>9, WholeIsLast DEF IM!MapOf, IM!Wraps, Nodes
  <2> HIDE DEF entry
  <2>3. inner \in Nodes /\ SoundArray(one)
    <3>1. "struct" \in Kinds
      BY DEF Kinds
    <3> QED
      BY <1>2, <1>3, <1>4, <2>2, <3>1, NodeSound DEF IM!Unions
  <2> HIDE DEF inner
  <2>4. Len(array) \in Nat /\ Len(one) = Len(array) + 1 /\ array \in Seq(Nodes)
    BY <1>2, <2>3, Added DEF SoundArray
  <2> HIDE DEF one
  <2>5. outer \in Nodes /\ SoundArray(one \o <<outer>>)
    <3>1. "map" \in Kinds /\ data \in Buffers
      BY <1>3 DEF Kinds
    <3>2. /\ <<Len(array) + 1>> \in Seq(Nat) /\ 1 \in DOMAIN <<Len(array) + 1>>
          /\ \A f \in DOMAIN <<Len(array) + 1>> : <<Len(array) + 1>>[f] \in 1..Len(one)
      BY <2>4
    <3>3. \A at \in s.offset..(s.offset + s.length) : data[at] \in Int
      <4>1. s.offset + s.length - 1 + 1 = s.offset + s.length
        BY <1>4
      <4> QED
        BY <2>1, <4>1, BufferAssumption DEF IM!Covering
    <3> QED
      BY <1>4, <2>3, <3>1, <3>2, <3>3, NodeSound DEF IM!Unions
  <2> HIDE DEF outer
  <2>6. one \o <<outer>> = array \o <<inner, outer>>
    BY <2>3, <2>4, <2>5, InTurn DEF one
  <2>7. IM!Built(<<inner, outer>>)
    BY <2>1 DEF inner, outer, entry
  <2> QED
    BY <1>1, <2>5, <2>6, <2>7 DEF IM!Built
<1>10. CASE IM!ViewOf
  <2>1. PICK s \in Slices, b \in Bitmaps : \E data \in IM!Covering(ViewBuffers, s, 0) :
           IM!Built(<<IM!Node("view", s, b, data, IM!It)>>)
    BY <1>10 DEF IM!ViewOf
  <2>2. PICK data \in IM!Covering(ViewBuffers, s, 0) :
           IM!Built(<<IM!Node("view", s, b, data, IM!It)>>)
    BY <2>1
  <2>3. data \in Buffers
    BY <1>3 DEF IM!Covering
  <2>4. SoundArray(array \o <<IM!Node("view", s, b, data, IM!It)>>)
    BY <1>2, <1>10, <2>3, WrapSound DEF IM!ViewOf, IM!Wraps, Kinds, IM!Unions
  <2> QED
    BY <1>1, <2>2, <2>4 DEF IM!Built
<1>11. CASE IM!FixedOf
  <2>1. PICK s \in Slices, b \in Bitmaps, n \in ArraySizes :
           IM!Built(<<IM!Node("fixed", s, b, n, IM!It)>>)
    BY <1>11 DEF IM!FixedOf
  <2>2. SoundArray(array \o <<IM!Node("fixed", s, b, n, IM!It)>>)
    BY <1>2, <1>3, <1>11, WrapSound DEF IM!FixedOf, IM!Wraps, Kinds, IM!Unions
  <2> QED
    BY <1>1, <2>1, <2>2 DEF IM!Built
<1>12. CASE IM!UnionOf
  <2>1. PICK s \in Slices, kind \in IM!Unions, count \in {0, -1}, data \in TagBuffers :
           /\ data \in IM!Covering(TagBuffers, s, 0)
           /\ IM!Built(<<IM!Node(kind, s, [count |-> count, nulls |-> {}], data,
                                 IM!It \o IM!It)>>)
    BY <1>12 DEF IM!UnionOf, IM!Covering
  <2> DEFINE bits == [count |-> count, nulls |-> {}]
             inside == IM!It \o IM!It
  <2>2. /\ inside \in Seq(Nat) /\ DOMAIN inside = {1, 2}
        /\ \A f \in DOMAIN inside : inside[f] \in 1..Len(array)
    <3>1. IM!It = <<Len(array)>> /\ Len(array) \in 1..Len(array) /\ Len(array) \in Nat
      BY <1>2, <1>12, WholeIsLast DEF IM!UnionOf, IM!Wraps, SoundArray
    <3>2. inside = <<Len(array), Len(array)>>
      BY <3>1, InTurn
    <3> HIDE DEF inside
    <3> QED
      BY <3>1, <3>2
  <2>3. \A at \in s.offset..(s.offset + s.length - 1) : data[at] + 1 \in DOMAIN inside
    <3>1. s.offset + s.length - 1 + 0 = s.offset + s.length - 1
      BY <1>4
    <3>2. \A at \in s.offset..(s.offset + s.length - 1) : data[at] \in {0, 1}
      BY <2>1, <3>1, BufferAssumption DEF IM!Covering
    <3> HIDE DEF inside
    <3> QED
      BY <2>2, <3>2
  <2>4. /\ bits.count \in Int /\ bits.nulls = {} /\ kind \in Kinds /\ data \in Buffers
        /\ kind \notin {"list", "map", "view", "fixed", "runend"}
    BY <1>3 DEF Kinds, IM!Unions
  <2> HIDE DEF bits, inside
  <2>5. SoundArray(array \o <<IM!Node(kind, s, bits, data, inside)>>)
    BY <1>2, <1>4, <2>2, <2>3, <2>4, NodeSound
  <2>6. IM!Built(<<IM!Node(kind, s, bits, data, inside)>>)
    BY <2>1 DEF bits, inside
  <2> QED
    BY <1>1, <2>5, <2>6 DEF IM!Built
<1>13. CASE IM!RunsOf
  <2>1. PICK s \in Slices, ends \in RunBuffers :
           /\ \E k \in DOMAIN ends : ends[k] >= s.offset + s.length
           /\ \A k \in DOMAIN ends : k < IM!Whole.length
           /\ IM!Built(<<IM!Node("runend", s, IM!NoNulls, ends, IM!It)>>)
    BY <1>13 DEF IM!RunsOf
  <2>2. /\ IM!It \in Seq(Nat) /\ 1 \in DOMAIN IM!It
        /\ \A f \in DOMAIN IM!It : IM!It[f] \in 1..Len(array)
        /\ IM!Whole.length = array[IM!It[1]].length /\ IM!Whole.length \in Nat
    BY <1>2, <1>13, WholeIsLast DEF IM!RunsOf, IM!Wraps, Nodes
  <2>3. /\ DOMAIN ends \subseteq 0..(array[IM!It[1]].length - 1)
        /\ \A k \in DOMAIN ends : ends[k] \in Int
    BY <2>1, <2>2, BufferAssumption
  <2>4. "runend" \in Kinds /\ ends \in Buffers
    BY <1>3 DEF Kinds
  <2>5. SoundArray(array \o <<IM!Node("runend", s, IM!NoNulls, ends, IM!It)>>)
    BY <1>2, <1>4, <2>1, <2>2, <2>3, <2>4, NodeSound
  <2> QED
    BY <1>1, <2>1, <2>5 DEF IM!Built
<1>14. CASE IM!DictionaryOf
  <2>1. PICK s \in Slices, b \in Bitmaps, data \in IndexBuffers :
           IM!Built(<<IM!Node("dict", s, b, data, IM!It)>>)
    BY <1>14 DEF IM!DictionaryOf, IM!Covering
  <2>2. SoundArray(array \o <<IM!Node("dict", s, b, data, IM!It)>>)
    BY <1>2, <1>3, <1>14, WrapSound DEF IM!DictionaryOf, IM!Wraps, Kinds, IM!Unions
  <2> QED
    BY <1>1, <2>1, <2>2 DEF IM!Built
<1>15. CASE IM!Import
  <2>1. PICK s \in BatchSlices :
           batch' = [length |-> s.length, offset |-> s.offset,
                     accepted |-> IM!Accepted(s, array)]
    BY <1>15 DEF IM!Import
  <2>2. array' = array /\ array # <<>>
    BY <1>15 DEF IM!Import
  <2>3. batch'.length \in Nat
    BY <2>1, BufferAssumption
  <2>4. batch'.accepted => IM!Accepted(batch', array)
    BY <2>1 DEF IM!Accepted, IM!CheckStructChildren
  <2> QED
    BY <1>2, <2>2, <2>3, <2>4 DEF ImportInv
<1>16. CASE IM!Discard
  BY <1>1, <1>16 DEF IM!Discard, SoundArray
<1>17. CASE UNCHANGED IM!iVars
  BY <1>17 DEF IM!iVars, ImportInv
<1> QED
  BY <1>5, <1>6, <1>7, <1>8, <1>9, <1>10, <1>11, <1>12, <1>13, <1>14, <1>15, <1>16, <1>17
     DEF IM!Next

\* What was accepted is what Arrow says it is.
LEMMA AcceptedRight == ImportInv => ImportedRight
<1> SUFFICES ASSUME ImportInv, batch # None, batch.accepted
             PROVE  LET vector == IM!Converted(array)[Len(array)][
                            [IM!Top(batch.length) EXCEPT !.vparent = batch.offset]] IN
                    /\ vector.safe
                    /\ \A i \in 0..(batch.length - 1) :
                          vector.rows[i] = IM!ArrowRow(array)[Len(array)][batch.offset + i]
  BY DEF ImportedRight, IM!ImportedRight
<1> DEFINE n == Len(array)
<1> DEFINE c == IM!ColumnCtx(batch.length)
<1> DEFINE d == [IM!Top(batch.length) EXCEPT !.vparent = 0]
<1>1. /\ array \in Seq(Nodes) /\ array # <<>> /\ n \in 1..n /\ n \in Nat
      /\ DOMAIN array = 1..n /\ \A i \in 1..n : SoundNode(array, i)
      /\ batch.length \in Nat
  BY DEF ImportInv, SoundArray
<1>2. IM!CheckNode(array)[n][c] /\ batch.offset = 0
  BY DEF ImportInv, IM!Accepted, IM!CheckStructChildren
<1>3. /\ c \in IM!Ctx /\ c.inherited = 0 /\ c.size = batch.length
      /\ d \in IM!Passed /\ d.size = batch.length /\ d.masked = {} /\ d.spread = {}
      /\ d.nested = c.nested /\ d.parent = c.parent
      /\ d.route = c.route /\ d.inMap = c.inMap /\ d.vparent = c.vparent
  <2>1. c \in IM!Ctx /\ c.inherited = 0 /\ c.size = batch.length /\ c.vparent = 0
    BY <1>1 DEF IM!ColumnCtx, IM!Ctx, IM!Offsets, IM!Routes
  <2>3. /\ d \in IM!Passed /\ d.size = batch.length /\ d.masked = {} /\ d.spread = {}
        /\ d.vparent = 0
    BY <1>1, <1>2 DEF IM!Top, IM!Passed, IM!Offsets, IM!Routes
  <2>4. /\ d.nested = c.nested /\ d.parent = c.parent
        /\ d.route = c.route /\ d.inMap = c.inMap
    BY DEF IM!ColumnCtx, IM!Top
  <2> QED
    BY <2>1, <2>3, <2>4
<1>4. Right(array[n], IM!CheckNode(array)[n], IM!Converted(array)[n], IM!ArrowRow(array)[n])
  <2>1. Limit \in Nat
    BY BufferAssumption
  <2> QED
    BY <1>1, <2>1, AllRight
<1> HIDE DEF c, d, n
<1>5. Agrees(IM!Converted(array)[n][d], IM!ArrowRow(array)[n], c, d)
  <2>1. Meets(array[n], c, d)
    BY <1>3 DEF Meets
  <2> QED
    BY <1>2, <1>3, <1>4, <2>1 DEF Right
<1>6. IM!RowIds(d) \ (d.masked \cup d.spread) = 0..(batch.length - 1)
  BY <1>3 DEF IM!RowIds
<1>7. /\ IM!Converted(array)[n][d].safe
      /\ \A i \in 0..(batch.length - 1) :
            IM!Converted(array)[n][d].rows[i] = IM!ArrowRow(array)[n][batch.offset + i]
  BY <1>2, <1>3, <1>5, <1>6 DEF Agrees
<1>8. [IM!Top(batch.length) EXCEPT !.vparent = batch.offset] = d
  BY <1>2 DEF d
<1> QED
  BY <1>7, <1>8 DEF n

\* For any array a producer builds, of any buffers, nesting, slicing and
\* encoding: what is imported has the rows Arrow says it has, and DuckDB reads
\* and writes inside the buffers on the way (arrow/import_layout.rs,
\* import_layout/bounds.rs, arrow/import_check.rs).
THEOREM ImportedCorrect == IM!Spec => []ImportedRight
<1> QED
  BY ImportInit, ImportStep, AcceptedRight, PTL DEF IM!Spec
=============================================================================
