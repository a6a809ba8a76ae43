-------------------------- MODULE TypedTableProofs --------------------------
(***************************************************************************)
(* Proofs about TypedTable, for any number of plans, executions, workers   *)
(* and rows, and any engine scheduling, and about TypedScalar, for chunks  *)
(* of any size and any types.                                              *)
(***************************************************************************)
EXTENDS MCTypedTable, TLAPS

\* What holds of an execution between steps: until it fails its rows are those
\* its state has passed, a worker inside the closure is alone there, read the
\* current state, and is not there after a panic.
ExecInv ==
    /\ \A x \in Execs :
          /\ exec[x] = "new" =>
                /\ rows[x] = <<>>
                /\ x \notin poisoned
                /\ \A w \in Workers : ~InScan(w, x)
          /\ exec[x] \in {"ready", "ended"} =>
                /\ cursor[x] \in 0..Rows
                /\ x \notin poisoned
                /\ rows[x] = [i \in 1..cursor[x] |-> i]
          /\ exec[x] = "ended" => cursor[x] = Rows
          /\ x \in poisoned => ~Locked(x)
    /\ \A w \in Workers, x \in Execs :
          InScan(w, x) /\ call[w].read # None =>
              /\ exec[x] \in {"ready", "ended"} => call[w].read = cursor[x]
              /\ \A v \in Workers : InScan(v, x) /\ call[v].read # None => v = w

-----------------------------------------------------------------------------
(* Chunks.                                                                 *)

LEMMA ChunkType ==
    ASSUME NEW r \in 0..Rows, NEW n \in Nat, n <= Rows - r
    PROVE  Chunk(r, n) \in Seq(1..Rows)
  BY TypedTableAssumption DEF Chunk

LEMMA ChunkEmpty ==
    ASSUME NEW r \in 0..Rows, NEW s \in Seq(1..Rows)
    PROVE  s \o Chunk(r, 0) = s
<1>1. Chunk(r, 0) = <<>>
  BY DEF Chunk
<1> QED
  BY <1>1

LEMMA ChunkAppended ==
    ASSUME NEW r \in 0..Rows, NEW n \in Nat, n <= Rows - r
    PROVE  [i \in 1..r |-> i] \o Chunk(r, n) = [i \in 1..r + n |-> i]
<1> DEFINE s == [i \in 1..r |-> i]
           c == Chunk(r, n)
           t == [i \in 1..r + n |-> i]
<1>1. s \in Seq(Nat) /\ Len(s) = r
  BY TypedTableAssumption
<1>2. c \in Seq(Nat) /\ Len(c) = n
  BY TypedTableAssumption DEF Chunk
<1>3. t \in Seq(Nat) /\ Len(t) = r + n
  BY TypedTableAssumption
<1>4. \A i \in 1..r + n : (s \o c)[i] = t[i]
  BY <1>1, <1>2, TypedTableAssumption DEF Chunk
<1> QED
  BY <1>1, <1>2, <1>3, <1>4

-----------------------------------------------------------------------------
(* Types.                                                                  *)

LEMMA TypeStep ==
    ASSUME TypeOK, [Next]_vars
    PROVE  TypeOK'
<1> USE TypedTableAssumption DEF TypeOK, planVars, execVars, Calls, NoCall
<1>1. ASSUME NEW p \in Plans, NEW entry \in 0..1, NEW declared \in 0..1,
             NEW rejected \in BOOLEAN, Bind(p, entry, declared, rejected)
      PROVE  TypeOK'
  <2>1. plan' \in [Plans -> PlanStages]
    BY <1>1 DEF Bind, PlanStages
  <2> QED
    BY <1>1, <2>1 DEF Bind
<1>2. ASSUME NEW p \in Plans, BindFails(p) \/ DropPlan(p)
      PROVE  TypeOK'
  <2>1. plan' \in [Plans -> PlanStages]
    BY <1>2 DEF BindFails, DropPlan, PlanStages
  <2>2. columns' \in [Plans -> [entry : 0..1, end : 0..2]]
    <3>1. \/ columns' = columns
          \/ columns' = [columns EXCEPT ![p] = [entry |-> 0, end |-> 0]]
      BY <1>2 DEF BindFails, DropPlan
    <3>2. [entry |-> 0, end |-> 0] \in [entry : 0..1, end : 0..2]
      OBVIOUS
    <3> QED
      BY <3>1, <3>2
  <2> QED
    BY <1>2, <2>1, <2>2 DEF BindFails, DropPlan
<1>3. ASSUME NEW x \in Execs, NEW p \in Plans, NEW ok \in BOOLEAN,
             InitExec(x, p, ok)
      PROVE  TypeOK'
  <2>1. exec' \in [Execs -> ExecStages]
    <3>1. \/ exec' = [exec EXCEPT ![x] = "ready"]
          \/ exec' = [exec EXCEPT ![x] = "error"]
      BY <1>3 DEF InitExec
    <3>2. "ready" \in ExecStages /\ "error" \in ExecStages
      BY DEF ExecStages
    <3> QED
      BY <3>1, <3>2
  <2>2. cursor' \in [Execs -> (0..Rows) \cup {None}]
    <3>1. cursor' = [cursor EXCEPT ![x] = 0] \/ cursor' = cursor
      BY <1>3 DEF InitExec, NewStates
    <3>2. 0 \in 0..Rows
      OBVIOUS
    <3> QED
      BY <3>1, <3>2
  <2>3. failing' \subseteq Execs /\ tainted' \subseteq ClonePlans
    BY <1>3 DEF InitExec
  <2> QED
    BY <1>3, <2>1, <2>2, <2>3 DEF InitExec
<1>4. ASSUME NEW x \in Execs, DropExec(x)
      PROVE  TypeOK'
  <2>1. exec' \in [Execs -> ExecStages]
    BY <1>4 DEF DropExec, ExecStages
  <2>2. rows' \in [Execs -> Seq(1..Rows)]
    BY <1>4 DEF DropExec
  <2> QED
    BY <1>4, <2>1, <2>2 DEF DropExec
<1>5. ASSUME NEW x \in Execs, NEW w \in Workers,
             ScanEnter(w, x) \/ ScanRuns(w, x) \/ ScanRefused(w, x)
      PROVE  TypeOK'
  <2>1. call' \in [Workers -> Calls]
    <3>1. CASE ScanEnter(w, x)
      <4>1. call' = [call EXCEPT ![w] = [call[w] EXCEPT !.exec = x]]
        BY <3>1 DEF ScanEnter
      <4>2. [call[w] EXCEPT !.exec = x] \in Calls
        OBVIOUS
      <4> QED
        BY <4>1, <4>2
    <3>2. CASE ScanRuns(w, x)
      <4>1. call' = [call EXCEPT ![w] = [call[w] EXCEPT !.read = cursor[x]]]
        BY <3>2 DEF ScanRuns
      <4>2. [call[w] EXCEPT !.read = cursor[x]] \in Calls
        OBVIOUS
      <4> QED
        BY <4>1, <4>2
    <3>3. CASE ScanRefused(w, x)
      BY <3>3 DEF ScanRefused
    <3> QED
      BY <1>5, <3>1, <3>2, <3>3
  <2>2. exec' \in [Execs -> ExecStages]
    BY <1>5 DEF ScanEnter, ScanRuns, ScanRefused, ExecStages
  <2> QED
    BY <1>5, <2>1, <2>2 DEF ScanEnter, ScanRuns, ScanRefused
<1>6. ASSUME NEW x \in Execs, NEW w \in Workers, NEW n \in 0..ChunkRows,
             ScanReturns(w, x, n)
      PROVE  TypeOK'
  <2>1. call[w].read \in 0..Rows
    BY <1>6 DEF ScanReturns
  <2>2. Chunk(call[w].read, n) \in Seq(1..Rows)
    BY <1>6, <2>1, ChunkType DEF ScanReturns
  <2>3. rows' \in [Execs -> Seq(1..Rows)]
    BY <1>6, <2>2 DEF ScanReturns
  <2>4. cursor' \in [Execs -> (0..Rows) \cup {None}]
    BY <1>6, <2>1 DEF ScanReturns, Advanced
  <2>5. exec' \in [Execs -> ExecStages]
    BY <1>6 DEF ScanReturns, ExecStages
  <2> QED
    BY <1>6, <2>3, <2>4, <2>5 DEF ScanReturns
<1>7. ASSUME NEW x \in Execs, NEW w \in Workers, NEW n \in 0..ChunkRows,
             NEW m \in 0..Rows, ScanFails(w, x, n, m)
      PROVE  TypeOK'
  <2>1. call[w].read \in 0..Rows
    BY <1>7 DEF ScanFails
  <2>2. rows' = rows
    <3>1. rows[x] \o Chunk(call[w].read, 0) = rows[x]
      BY <2>1, ChunkEmpty
    <3> QED
      BY <1>7, <3>1 DEF ScanFails, SizeAfterError
  <2>3. exec' \in [Execs -> ExecStages]
    BY <1>7 DEF ScanFails, AfterError, ExecStages
  <2> QED
    BY <1>7, <2>2, <2>3 DEF ScanFails
<1>8. CASE UNCHANGED vars
  BY <1>8 DEF vars
<1> QED
  BY <1>1, <1>2, <1>3, <1>4, <1>5, <1>6, <1>7, <1>8 DEF Next

\* Every variable keeps to its type, whatever the closures and the engine do.
THEOREM TypeCorrect == Spec => []TypeOK
<1>1. Init => TypeOK
  BY TypedTableAssumption
     DEF Init, TypeOK, PlanStages, ExecStages, Calls, NoCall
<1> QED
  BY <1>1, TypeStep, PTL DEF Spec

-----------------------------------------------------------------------------
(* Plans.                                                                  *)

\* A plan bind accepted has a factory, and the columns it should have.
THEOREM BoundCorrect == Spec => []BoundPlans
<1>1. Init => BoundPlans
  BY DEF Init, BoundPlans
<1>2. TypeOK /\ BoundPlans /\ [Next]_vars => BoundPlans'
  <2> SUFFICES ASSUME TypeOK, BoundPlans, [Next]_vars
               PROVE  BoundPlans'
    OBVIOUS
  <2> USE TypedTableAssumption DEF BoundPlans, planVars
  <2>1. ASSUME NEW p \in Plans, NEW entry \in 0..1, NEW declared \in 0..1,
               NEW rejected \in BOOLEAN, Bind(p, entry, declared, rejected)
        PROVE  BoundPlans'
    <3> SUFFICES ASSUME NEW q \in Plans
                 PROVE  /\ plan'[q] = "bound" =>
                              /\ q \in factory'
                              /\ columns'[q].end > 0
                              /\ columns'[q].entry > 0 =>
                                     columns'[q].end = columns'[q].entry
                        /\ plan'[q] = "internal" => q \notin ReportingPlans
      OBVIOUS
    <3>1. CASE q # p
      BY <2>1, <3>1 DEF Bind, TypeOK
    <3>2. CASE q = p
      <4>1. columns'[p] = [entry |-> entry, end |-> entry + declared]
        BY <2>1 DEF Bind, TypeOK
      <4> QED
        BY <2>1, <3>2, <4>1 DEF Bind, TypeOK, ColumnsRefused
    <3> QED
      BY <3>1, <3>2
  <2>2. ASSUME NEW p \in Plans, BindFails(p) \/ DropPlan(p)
        PROVE  BoundPlans'
    <3>1. CASE BindFails(p)
      BY <3>1 DEF BindFails, TypeOK
    <3>2. CASE DropPlan(p)
      <4>1. \A q \in Plans : q # p =>
              /\ plan'[q] = plan[q]
              /\ columns'[q] = columns[q]
              /\ q \in factory' <=> q \in factory
        BY <3>2 DEF DropPlan, TypeOK
      <4>2. plan'[p] = "new"
        BY <3>2 DEF DropPlan, TypeOK
      <4> QED
        BY <4>1, <4>2
    <3> QED
      BY <2>2, <3>1, <3>2
  <2>3. CASE UNCHANGED <<plan, columns, factory>>
    BY <2>3
  <2>4. ASSUME NEW x \in Execs,
               \/ DropExec(x)
               \/ \E p \in Plans, ok \in BOOLEAN : InitExec(x, p, ok)
        PROVE  UNCHANGED <<plan, columns, factory>>
    BY <2>4 DEF InitExec, DropExec
  <2>5. ASSUME NEW x \in Execs, NEW w \in Workers,
               ScanEnter(w, x) \/ ScanRuns(w, x) \/ ScanRefused(w, x)
        PROVE  UNCHANGED <<plan, columns, factory>>
    BY <2>5 DEF ScanEnter, ScanRuns, ScanRefused
  <2>6. ASSUME NEW x \in Execs, NEW w \in Workers, NEW n \in 0..ChunkRows,
               ScanReturns(w, x, n) \/ \E m \in 0..Rows : ScanFails(w, x, n, m)
        PROVE  UNCHANGED <<plan, columns, factory>>
    BY <2>6 DEF ScanReturns, ScanFails
  <2> HIDE DEF BoundPlans, planVars
  <2> QED
    BY <2>1, <2>2, <2>3, <2>4, <2>5, <2>6 DEF Next, vars
<1> QED
  BY <1>1, <1>2, TypeCorrect, PTL DEF Spec
-----------------------------------------------------------------------------
(* Executions.                                                             *)

\* OwnFailuresOnly is part of the invariant: a scan is refused only in an
\* execution that has failed.
LEMMA ExecStep ==
    ASSUME TypeOK, BoundPlans, ExecInv, OwnFailuresOnly, [Next]_vars
    PROVE  ExecInv' /\ OwnFailuresOnly'
<1> USE TypedTableAssumption
<1>1. ASSUME NEW p \in Plans,
             \/ \E entry, declared \in 0..1, rejected \in BOOLEAN :
                   Bind(p, entry, declared, rejected)
             \/ BindFails(p)
             \/ DropPlan(p)
      PROVE  ExecInv' /\ OwnFailuresOnly'
  <2>1. UNCHANGED execVars
    BY <1>1 DEF Bind, BindFails, DropPlan
  <2> QED
    BY <2>1 DEF execVars, ExecInv, OwnFailuresOnly, InScan, Locked
<1>2. ASSUME NEW x \in Execs, NEW p \in Plans, NEW ok \in BOOLEAN,
             InitExec(x, p, ok)
      PROVE  ExecInv' /\ OwnFailuresOnly'
  <2>1. FindsFactory(p)
    BY <1>2 DEF InitExec, FindsFactory, BoundPlans
  <2>2. \A y \in Execs : y # x =>
          /\ exec'[y] = exec[y]
          /\ rows'[y] = rows[y]
          /\ cursor'[y] = cursor[y]
          /\ (y \in poisoned') <=> (y \in poisoned)
          /\ (y \in failing') <=> (y \in failing)
    BY <1>2 DEF InitExec, TypeOK
  <2>3. call' = call /\ rows' = rows /\ poisoned' = poisoned /\ exec[x] = "new"
    BY <1>2 DEF InitExec
  <2>4. CASE ok
    <3>1. exec'[x] = "ready" /\ cursor'[x] = 0 /\ failing' = failing
      BY <1>2, <2>1, <2>4 DEF InitExec, NewStates, TypeOK
    <3>2. rows'[x] = [i \in 1..cursor'[x] |-> i]
      <4>1. rows'[x] = <<>>
        BY <2>3 DEF ExecInv
      <4>2. [i \in 1..0 |-> i] = <<>>
        OBVIOUS
      <4> QED
        BY <3>1, <4>1, <4>2
    <3>3. /\ cursor'[x] \in 0..Rows
          /\ x \notin poisoned'
          /\ \A w \in Workers : ~InScan(w, x)
      <4>1. 0 \in 0..Rows
        OBVIOUS
      <4>2. x \notin poisoned /\ \A w \in Workers : ~InScan(w, x)
        BY <2>3 DEF ExecInv
      <4> QED
        BY <2>3, <3>1, <4>1, <4>2
    <3> QED
      BY <2>2, <2>3, <3>1, <3>2, <3>3 DEF ExecInv, OwnFailuresOnly, InScan, Locked
  <2>5. CASE ~ok
    <3>1. exec'[x] = "error" /\ failing' = failing \cup {x}
      BY <1>2, <2>5 DEF InitExec, TypeOK
    <3>2. \A w \in Workers : ~InScan(w, x)
      BY <2>3 DEF ExecInv
    <3> QED
      BY <2>2, <2>3, <3>1, <3>2 DEF ExecInv, OwnFailuresOnly, InScan, Locked
  <2> QED
    BY <2>4, <2>5
<1>3. ASSUME NEW x \in Execs, DropExec(x)
      PROVE  ExecInv' /\ OwnFailuresOnly'
  <2>1. \A y \in Execs : y # x =>
          /\ exec'[y] = exec[y]
          /\ rows'[y] = rows[y]
          /\ cursor'[y] = cursor[y]
          /\ (y \in poisoned') <=> (y \in poisoned)
          /\ (y \in failing') <=> (y \in failing)
    BY <1>3 DEF DropExec, TypeOK
  <2>2. /\ exec'[x] = "new" /\ rows'[x] = <<>> /\ x \notin poisoned'
        /\ call' = call
        /\ \A w \in Workers : ~InScan(w, x)
    BY <1>3 DEF DropExec, TypeOK
  <2> QED
    BY <2>1, <2>2 DEF ExecInv, OwnFailuresOnly, InScan, Locked
<1>4. ASSUME NEW x \in Execs, NEW w \in Workers, ScanEnter(w, x)
      PROVE  ExecInv' /\ OwnFailuresOnly'
  <2>1. /\ call'[w] = [exec |-> x, read |-> None]
        /\ \A v \in Workers : v # w => call'[v] = call[v]
        /\ exec[x] = "ready" /\ call[w].read = None
    BY <1>4 DEF ScanEnter, TypeOK, Calls, NoCall
  <2>2. UNCHANGED <<exec, cursor, rows, poisoned, failing>>
    BY <1>4 DEF ScanEnter
  <2> QED
    BY <2>1, <2>2 DEF ExecInv, OwnFailuresOnly, InScan, Locked
<1>5. ASSUME NEW x \in Execs, NEW w \in Workers, ScanRuns(w, x)
      PROVE  ExecInv' /\ OwnFailuresOnly'
  <2>1. /\ call'[w] = [exec |-> x, read |-> cursor[x]]
        /\ \A v \in Workers : v # w => call'[v] = call[v]
        /\ call[w].exec = x
    BY <1>5 DEF ScanRuns, MayScan, InScan, TypeOK, Calls
  <2>2. UNCHANGED <<exec, cursor, rows, poisoned, failing>>
    BY <1>5 DEF ScanRuns
  <2>3. x \notin poisoned /\ ~Locked(x)
    BY <1>5 DEF ScanRuns, MayScan
  <2> QED
    BY <2>1, <2>2, <2>3 DEF ExecInv, OwnFailuresOnly, InScan, Locked
<1>6. ASSUME NEW x \in Execs, NEW w \in Workers, ScanRefused(w, x)
      PROVE  ExecInv' /\ OwnFailuresOnly'
  <2>1. exec[x] = "error"
    <3>1. exec[x] # "new"
      BY <1>6 DEF ScanRefused, ExecInv
    <3>2. cursor[x] = None \/ x \in poisoned
      BY <1>6 DEF ScanRefused, MayScan
    <3> QED
      BY <3>1, <3>2 DEF ExecInv, TypeOK, ExecStages
  <2>2. /\ call'[w] = NoCall
        /\ \A v \in Workers : v # w => call'[v] = call[v]
        /\ exec' = exec
        /\ UNCHANGED <<cursor, rows, poisoned, failing>>
    BY <1>6, <2>1 DEF ScanRefused, TypeOK
  <2> QED
    BY <2>1, <2>2 DEF ExecInv, OwnFailuresOnly, InScan, Locked, NoCall
<1>7. ASSUME NEW x \in Execs, NEW w \in Workers, NEW n \in 0..ChunkRows,
             ScanReturns(w, x, n)
      PROVE  ExecInv' /\ OwnFailuresOnly'
  <2> DEFINE r == call[w].read
  <2>1. r \in 0..Rows /\ n \in Nat /\ n <= Rows - r
    BY <1>7 DEF ScanReturns, TypeOK, Calls
  <2>2. \A y \in Execs : y # x =>
          /\ exec'[y] = exec[y]
          /\ rows'[y] = rows[y]
          /\ cursor'[y] = cursor[y]
          /\ (y \in poisoned') <=> (y \in poisoned)
          /\ (y \in failing') <=> (y \in failing)
    BY <1>7 DEF ScanReturns, TypeOK
  <2>3. /\ call'[w] = NoCall
        /\ \A v \in Workers : v # w => call'[v] = call[v]
        /\ poisoned' = poisoned /\ failing' = failing
    BY <1>7 DEF ScanReturns, TypeOK
  <2>4. /\ cursor'[x] = r + n
        /\ rows'[x] = rows[x] \o Chunk(r, n)
        /\ exec'[x] = IF n = 0 /\ exec[x] = "ready" THEN "ended" ELSE exec[x]
        /\ n = 0 => r = Rows
    BY <1>7 DEF ScanReturns, Advanced, TypeOK
  <2>5. InScan(w, x) /\ r # None /\ x \notin poisoned
    BY <1>7 DEF ScanReturns, ExecInv, Locked
  <2>6. \A v \in Workers : InScan(v, x) /\ call[v].read # None => v = w
    BY <2>5 DEF ExecInv
  <2>7. exec[x] \in {"ready", "ended"} =>
          /\ cursor[x] = r
          /\ rows'[x] = [i \in 1..r + n |-> i]
    <3> SUFFICES ASSUME exec[x] \in {"ready", "ended"}
                 PROVE  cursor[x] = r /\ rows'[x] = [i \in 1..r + n |-> i]
      OBVIOUS
    <3>1. cursor[x] = r
      BY <2>5 DEF ExecInv
    <3>2. rows[x] = [i \in 1..r |-> i]
      BY <3>1 DEF ExecInv
    <3>3. [i \in 1..r |-> i] \o Chunk(r, n) = [i \in 1..r + n |-> i]
      BY <2>1, ChunkAppended
    <3> QED
      BY <2>4, <3>1, <3>2, <3>3
  <2>8. exec[x] = "ended" => r + n = Rows
    <3>1. exec[x] = "ended" => r = Rows
      BY <2>7 DEF ExecInv
    <3> QED
      BY <2>1, <3>1
  <2>9. exec[x] # "new"
    BY <2>5 DEF ExecInv
  <2>10. /\ exec'[x] # "new"
         /\ exec'[x] \in {"ready", "ended"} =>
               /\ cursor'[x] \in 0..Rows
               /\ rows'[x] = [i \in 1..cursor'[x] |-> i]
         /\ exec'[x] = "ended" => cursor'[x] = Rows
         /\ exec'[x] = "error" => exec[x] = "error"
    <3>1. exec'[x] \in {"ready", "ended"} => exec[x] \in {"ready", "ended"}
      BY <2>4
    <3>2. r + n \in 0..Rows
      BY <2>1
    <3>3. n = 0 => r + n = Rows
      BY <2>1, <2>4
    <3>4. exec'[x] = "ended" => n = 0 \/ exec[x] = "ended"
      BY <2>4
    <3>5. exec'[x] # "new" /\ (exec'[x] = "error" => exec[x] = "error")
      BY <2>4, <2>9
    <3> HIDE DEF r
    <3> QED
      BY <2>4, <2>7, <2>8, <3>1, <3>2, <3>3, <3>4, <3>5
  <2>11. \A v \in Workers : ~(InScan(v, x) /\ call[v].read # None)'
    BY <2>3, <2>6 DEF InScan, NoCall
  <2> QED
    BY <2>2, <2>3, <2>5, <2>10, <2>11
       DEF ExecInv, OwnFailuresOnly, InScan, Locked, NoCall
<1>8. ASSUME NEW x \in Execs, NEW w \in Workers, NEW n \in 0..ChunkRows,
             NEW m \in 0..Rows, ScanFails(w, x, n, m)
      PROVE  ExecInv' /\ OwnFailuresOnly'
  <2>1. \A y \in Execs : y # x =>
          /\ exec'[y] = exec[y]
          /\ rows'[y] = rows[y]
          /\ cursor'[y] = cursor[y]
          /\ (y \in poisoned') <=> (y \in poisoned)
          /\ (y \in failing') <=> (y \in failing)
    BY <1>8 DEF ScanFails, TypeOK
  <2>2. /\ call'[w] = NoCall
        /\ \A v \in Workers : v # w => call'[v] = call[v]
        /\ exec'[x] = "error" /\ x \in failing'
    BY <1>8 DEF ScanFails, AfterError, TypeOK
  <2>3. \A v \in Workers : InScan(v, x) /\ call[v].read # None => v = w
    BY <1>8 DEF ScanFails, ExecInv
  <2>4. \A v \in Workers : ~(InScan(v, x) /\ call[v].read # None)'
    BY <2>2, <2>3 DEF InScan, NoCall
  <2> QED
    BY <2>1, <2>2, <2>4 DEF ExecInv, OwnFailuresOnly, InScan, Locked, NoCall
<1>9. CASE UNCHANGED vars
  BY <1>9 DEF vars, ExecInv, OwnFailuresOnly, InScan, Locked
<1>10. ASSUME NEW p \in Plans,
              \/ \E entry, declared \in 0..1, rejected \in BOOLEAN :
                    Bind(p, entry, declared, rejected)
              \/ BindFails(p)
              \/ DropPlan(p)
              \/ \E x \in Execs, ok \in BOOLEAN : InitExec(x, p, ok)
       PROVE  ExecInv' /\ OwnFailuresOnly'
  BY <1>1, <1>2, <1>10
<1>11. ASSUME NEW x \in Execs, NEW w \in Workers,
              \/ ScanEnter(w, x)
              \/ ScanRuns(w, x)
              \/ ScanRefused(w, x)
              \/ \E n \in 0..ChunkRows :
                    \/ ScanReturns(w, x, n)
                    \/ \E m \in 0..Rows : ScanFails(w, x, n, m)
       PROVE  ExecInv' /\ OwnFailuresOnly'
  BY <1>4, <1>5, <1>6, <1>7, <1>8, <1>11
<1> QED
  BY <1>3, <1>9, <1>10, <1>11 DEF Next

THEOREM ExecInvariant == Spec => [](ExecInv /\ OwnFailuresOnly)
<1>1. Init => ExecInv /\ OwnFailuresOnly
  BY TypedTableAssumption
     DEF Init, ExecInv, OwnFailuresOnly, InScan, Locked, NoCall
<1> QED
  BY <1>1, ExecStep, TypeCorrect, BoundCorrect, PTL DEF Spec

\* Until an execution fails, its rows are the function's first ones, however
\* many executions of the plan overlap and however many workers scan it.
THEOREM FreshCorrect == Spec => []FreshRows
<1>1. ExecInv => FreshRows
  <2> SUFFICES ASSUME ExecInv, NEW x \in Execs, exec[x] \in {"ready", "ended"}
               PROVE  rows[x] = [i \in 1..Len(rows[x]) |-> i]
    BY DEF FreshRows
  <2> DEFINE c == cursor[x]
  <2>1. c \in 0..Rows /\ rows[x] = [i \in 1..c |-> i]
    BY DEF ExecInv
  <2>2. c \in Nat
    BY <2>1, TypedTableAssumption
  <2> HIDE DEF c
  <2> QED
    BY <2>1, <2>2
<1> QED
  BY <1>1, ExecInvariant, PTL

\* A scan that ended without an error delivered every row.
THEOREM EndedCorrect == Spec => []EndedHasEveryRow
<1>1. ExecInv => EndedHasEveryRow
  <2> SUFFICES ASSUME ExecInv, NEW x \in Execs, exec[x] = "ended"
               PROVE  Len(rows[x]) = Rows
    BY DEF EndedHasEveryRow
  <2>1. rows[x] = [i \in 1..Rows |-> i]
    BY DEF ExecInv
  <2> QED
    BY <2>1, TypedTableAssumption
<1> QED
  BY <1>1, ExecInvariant, PTL

\* No execution fails for a failure that was not its own.
THEOREM OwnFailuresCorrect == Spec => []OwnFailuresOnly
  BY ExecInvariant, PTL

\* After a panic no scan of the execution hands over rows.
THEOREM PanicCorrect == Spec => NoRowsAfterPanic
<1>1. ASSUME TypeOK, ExecInv, [Next]_vars
      PROVE  [\A x \in Execs :
                (x \in poisoned /\ exec'[x] # "new") => rows'[x] = rows[x]]_vars
  <2> SUFFICES ASSUME NEW x \in Execs, x \in poisoned, exec'[x] # "new", Next
               PROVE  rows'[x] = rows[x]
    BY <1>1 DEF vars
  <2> USE DEF planVars, execVars
  <2>1. ASSUME NEW p \in Plans,
               \/ \E entry, declared \in 0..1, rejected \in BOOLEAN :
                     Bind(p, entry, declared, rejected)
               \/ BindFails(p)
               \/ DropPlan(p)
        PROVE  rows' = rows
    BY <2>1 DEF Bind, BindFails, DropPlan
  <2>2. ASSUME NEW y \in Execs, NEW p \in Plans, NEW ok \in BOOLEAN,
               InitExec(y, p, ok)
        PROVE  rows' = rows
    BY <2>2 DEF InitExec
  <2>3. ASSUME NEW y \in Execs, DropExec(y)
        PROVE  rows'[x] = rows[x]
    BY <1>1, <2>3 DEF DropExec, TypeOK
  <2>4. ASSUME NEW y \in Execs, NEW w \in Workers,
               ScanEnter(w, y) \/ ScanRuns(w, y) \/ ScanRefused(w, y)
        PROVE  rows' = rows
    BY <2>4 DEF ScanEnter, ScanRuns, ScanRefused
  <2>5. ASSUME NEW y \in Execs, NEW w \in Workers, NEW n \in 0..ChunkRows,
               ScanReturns(w, y, n) \/ \E m \in 0..Rows : ScanFails(w, y, n, m)
        PROVE  rows'[x] = rows[x]
    <3>1. Locked(y)
      BY <2>5 DEF ScanReturns, ScanFails, Locked
    <3>2. y # x
      BY <1>1, <3>1 DEF ExecInv
    <3> QED
      BY <1>1, <2>5, <3>2 DEF ScanReturns, ScanFails, TypeOK
  <2> HIDE DEF planVars, execVars
  <2>6. ASSUME NEW p \in Plans,
               \/ \E entry, declared \in 0..1, rejected \in BOOLEAN :
                     Bind(p, entry, declared, rejected)
               \/ BindFails(p)
               \/ DropPlan(p)
               \/ \E y \in Execs, ok \in BOOLEAN : InitExec(y, p, ok)
        PROVE  rows'[x] = rows[x]
    BY <2>1, <2>2, <2>6
  <2>7. ASSUME NEW y \in Execs, NEW w \in Workers,
               \/ ScanEnter(w, y)
               \/ ScanRuns(w, y)
               \/ ScanRefused(w, y)
               \/ \E n \in 0..ChunkRows :
                     \/ ScanReturns(w, y, n)
                     \/ \E m \in 0..Rows : ScanFails(w, y, n, m)
        PROVE  rows'[x] = rows[x]
    BY <2>4, <2>5, <2>7
  <2> QED
    BY <2>3, <2>6, <2>7 DEF Next
<1> QED
  BY <1>1, TypeCorrect, ExecInvariant, PTL DEF Spec, NoRowsAfterPanic

\* The call that reports an execution's error hands over no rows
\* (typed_scan_trampoline sets the chunk's size back to zero).
THEOREM ErrorCorrect == Spec => NoRowsWithError
<1>1. ASSUME TypeOK, [Next]_vars
      PROVE  [\A x \in Execs :
                (exec[x] # "error" /\ exec'[x] = "error") => rows'[x] = rows[x]]_vars
  <2> SUFFICES ASSUME NEW x \in Execs, exec[x] # "error", exec'[x] = "error", Next
               PROVE  rows'[x] = rows[x]
    BY <1>1 DEF vars
  <2>1. ASSUME NEW p \in Plans,
               \/ \E entry, declared \in 0..1, rejected \in BOOLEAN :
                     Bind(p, entry, declared, rejected)
               \/ BindFails(p)
               \/ DropPlan(p)
               \/ \E y \in Execs, ok \in BOOLEAN : InitExec(y, p, ok)
        PROVE  rows'[x] = rows[x]
    BY <2>1 DEF Bind, BindFails, DropPlan, InitExec, execVars
  <2>2. ASSUME NEW y \in Execs, DropExec(y)
        PROVE  rows'[x] = rows[x]
    BY <1>1, <2>2 DEF DropExec, TypeOK
  <2>3. ASSUME NEW y \in Execs, NEW w \in Workers,
               ScanEnter(w, y) \/ ScanRuns(w, y) \/ ScanRefused(w, y)
        PROVE  rows'[x] = rows[x]
    BY <2>3 DEF ScanEnter, ScanRuns, ScanRefused
  <2>4. ASSUME NEW y \in Execs, NEW w \in Workers, NEW n \in 0..ChunkRows,
               ScanReturns(w, y, n)
        PROVE  rows'[x] = rows[x]
    <3>1. \A z \in Execs : exec'[z] \in {exec[z], "ended"}
      BY <1>1, <2>4 DEF ScanReturns, TypeOK
    <3> QED
      BY <3>1
  <2>5. ASSUME NEW y \in Execs, NEW w \in Workers, NEW n \in 0..ChunkRows,
               NEW m \in 0..Rows, ScanFails(w, y, n, m)
        PROVE  rows'[x] = rows[x]
    <3>1. call[w].read \in 0..Rows
      BY <1>1, <2>5 DEF ScanFails, TypeOK, Calls
    <3>2. rows[y] \o Chunk(call[w].read, SizeAfterError(call[w].read, n)) = rows[y]
      BY <1>1, <3>1, ChunkEmpty DEF SizeAfterError, TypeOK
    <3> QED
      BY <1>1, <2>5, <3>2 DEF ScanFails, TypeOK
  <2>6. ASSUME NEW y \in Execs, NEW w \in Workers,
               \/ ScanEnter(w, y)
               \/ ScanRuns(w, y)
               \/ ScanRefused(w, y)
               \/ \E n \in 0..ChunkRows :
                     \/ ScanReturns(w, y, n)
                     \/ \E m \in 0..Rows : ScanFails(w, y, n, m)
        PROVE  rows'[x] = rows[x]
    BY <2>3, <2>4, <2>5, <2>6
  <2> QED
    BY <2>1, <2>2, <2>6 DEF Next
<1> QED
  BY <1>1, TypeCorrect, PTL DEF Spec, NoRowsWithError

\* The two together: no rows come with a failure or, after a panic, later
\* (table/typed/trampolines.rs).
THEOREM FailureCorrect == Spec => NoRowsAfterFailure
  BY ErrorCorrect, PanicCorrect DEF NoRowsAfterFailure

-----------------------------------------------------------------------------
(* A scalar function made of a closure.                                    *)

Cells == [null : BOOLEAN, of : Seq(BOOLEAN) \cup {None}]

\* Row r has been written from its own arguments.
Answered(r) ==
    /\ out[r] # TS!Unwritten
    /\ ~out[r].null => out[r].of = chunk[r]
    /\ ~shape.opt /\ FALSE \in TS!Range(chunk[r]) => out[r].null

\* A call for a chunk of n rows: those before `row` are answered.
CallOf(n) ==
    /\ chunk \in [1..n -> [DOMAIN shape.params -> BOOLEAN]]
    /\ out \in [1..n -> Cells]
    /\ row \in 1..(n + 1)
    /\ \A r \in 1..n : r < row => Answered(r)
    /\ called = "ok" => row = n + 1

\* A call goes on only over the vectors the closure was compiled for.
ScalarInv ==
    called \in {"running", "ok"} =>
        /\ shape \in TS!Shapes
        /\ TS!check_signature(shape, given)
        /\ \E n \in Nat : CallOf(n)

\* A closure's arguments are numbered from one on.
LEMMA ParamsType ==
    ASSUME NEW s \in TS!Shapes
    PROVE  \E k \in Nat : DOMAIN s.params = 1..k
<1>1. PICK c \in TS!Constructors :
         \E params \in [1..c.arity -> c.takes] : \E ret : s = TS!from_exec(c, params, ret)
  BY DEF TS!Shapes
<1>2. PICK params \in [1..c.arity -> c.takes] : \E ret : s = TS!from_exec(c, params, ret)
  BY <1>1
<1>3. DOMAIN s.params = 1..c.arity
  BY <1>2 DEF TS!from_exec
<1>4. c.arity \in Nat
  BY <1>1 DEF TS!Constructors, TS!map1, TS!map2, TS!map1_opt, TS!map2_opt,
              TS!map1_str, TS!map2_str, TS!try_map1, TS!try_map2,
              TS!try_map1_str, TS!try_map2_str, TS!try_map3
<1> QED
  BY <1>3, <1>4

\* What is written for a row's answer is that row's, and NULL where the
\* closure may not see a NULL.
LEMMA WrittenRight ==
    ASSUME NEW s \in TS!Shapes, NEW g, TS!check_signature(s, g),
           NEW args \in [DOMAIN s.params -> BOOLEAN],
           NEW answer \in TS!Answers(s, args)
    PROVE  LET cell == TS!Written(answer, s, g, args) IN
           /\ cell \in Cells
           /\ cell # TS!Unwritten
           /\ ~cell.null => cell.of = args
           /\ ~s.opt /\ FALSE \in TS!Range(args) => cell.null
<1>1. args \in Seq(BOOLEAN) /\ args # None /\ <<>> \in Seq(BOOLEAN)
  BY ScalarAssumption, ParamsType
<1>a. TS!Read(s, g, args) = args /\ g.ret = s.ret
  BY DEF TS!check_signature, TS!Read
<1>2. CASE answer = "null"
  <2> DEFINE cell == TS!Written(answer, s, g, args)
  <2>1. cell = [null |-> TRUE, of |-> <<>>]
    BY <1>2 DEF TS!Written
  <2> HIDE DEF cell
  <2> QED
    BY <1>1, <2>1 DEF Cells, TS!Unwritten, cell
<1>3. CASE answer # "null"
  <2> DEFINE cell == TS!Written(answer, s, g, args)
  <2>1. cell = [null |-> FALSE, of |-> args]
    BY <1>3, <1>a DEF TS!Written
  <2>2. s.opt \/ FALSE \notin TS!Range(args)
    BY <1>3 DEF TS!Answers, TS!AllArguments, TS!Range
  <2>3. cell.null = FALSE /\ cell.of = args
    BY <2>1
  <2>4. cell \in Cells
    BY <1>1, <2>1 DEF Cells
  <2>5. cell # TS!Unwritten
    BY <1>1, <2>3 DEF TS!Unwritten
  <2> HIDE DEF cell
  <2> QED
    BY <2>2, <2>3, <2>4, <2>5 DEF cell
<1> QED
  BY <1>2, <1>3

LEMMA ScalarInvNext ==
    ASSUME ScalarInv, [TS!Next]_(TS!tsVars)
    PROVE  ScalarInv'
<1>1. ASSUME NEW n \in Sizes, TS!Call(n) PROVE ScalarInv'
  <2>1. n \in Nat
    BY ScalarAssumption
  <2>2. /\ shape' \in TS!Shapes /\ row' = 1 /\ called' \in {"running", "error"}
        /\ chunk' \in [1..n -> [DOMAIN given'.params -> BOOLEAN]]
        /\ out' = [r \in 1..n |-> TS!Unwritten]
        /\ called' = "running" => TS!check_signature(shape', given')
    BY <1>1 DEF TS!Call
  <2>3. TS!Unwritten \in Cells
    BY DEF TS!Unwritten, Cells
  <2>4. ASSUME called' = "running" PROVE CallOf(n)'
    <3>1. given'.params = shape'.params
      BY <2>2, <2>4 DEF TS!check_signature
    <3> QED
      BY <2>1, <2>2, <2>3, <2>4, <3>1 DEF CallOf
  <2>5. TS!check_signature(shape, given)' <=> TS!check_signature(shape', given')
    BY DEF TS!check_signature
  <2> QED
    BY <2>1, <2>2, <2>4, <2>5 DEF ScalarInv
<1>2. CASE TS!Row
  <2>1. PICK n \in Nat : CallOf(n)
    BY <1>2 DEF TS!Row, ScalarInv
  <2>2. row \in 1..n
    BY <1>2, <2>1 DEF TS!Row, CallOf
  <2>3. PICK answer \in TS!Answers(shape, chunk[row]) :
           IF answer \in {"err", "panic"}
           THEN called' = "error" /\ UNCHANGED <<row, out>>
           ELSE /\ out' = [out EXCEPT ![row] = TS!Written(answer, shape, given, chunk[row])]
                /\ row' = row + 1
                /\ UNCHANGED called
    BY <1>2 DEF TS!Row
  <2>4. UNCHANGED <<shape, given, chunk>> /\ called = "running"
    BY <1>2 DEF TS!Row
  <2>a. /\ shape \in TS!Shapes /\ TS!check_signature(shape, given)
        /\ TS!check_signature(shape, given)'
    BY <2>4 DEF ScalarInv, TS!check_signature
  <2>5. CASE answer \in {"err", "panic"}
    BY <2>3, <2>4, <2>5 DEF ScalarInv
  <2>6. CASE answer \notin {"err", "panic"}
    <3> DEFINE cell == TS!Written(answer, shape, given, chunk[row])
    <3>1. chunk[row] \in [DOMAIN shape.params -> BOOLEAN]
      BY <2>1, <2>2 DEF CallOf
    <3>2. /\ cell \in Cells
          /\ cell # TS!Unwritten
          /\ ~cell.null => cell.of = chunk[row]
          /\ ~shape.opt /\ FALSE \in TS!Range(chunk[row]) => cell.null
      BY <2>a, <3>1, WrittenRight
    <3>3. /\ out' = [out EXCEPT ![row] = cell]
          /\ row' = row + 1 /\ called' = called
      BY <2>3, <2>6
    <3> HIDE DEF cell
    <3>4. out' \in [1..n -> Cells] /\ row' \in 1..(n + 1)
      BY <2>1, <2>2, <3>2, <3>3 DEF CallOf
    <3>5. ASSUME NEW r \in 1..n, r < row'
          PROVE  Answered(r)'
      <4>1. CASE r = row
        BY <2>1, <2>2, <2>4, <3>2, <3>3, <4>1 DEF CallOf, Answered
      <4>2. CASE r # row
        <5>1. r < row
          BY <2>2, <3>3, <3>5, <4>2
        <5>2. out'[r] = out[r]
          BY <2>1, <3>3, <4>2 DEF CallOf
        <5>3. Answered(r)
          BY <2>1, <5>1 DEF CallOf
        <5> QED
          BY <2>4, <5>2, <5>3 DEF Answered
      <4> QED
        BY <4>1, <4>2
    <3>6. CallOf(n)'
      BY <2>1, <2>4, <3>3, <3>4, <3>5 DEF CallOf
    <3> QED
      BY <2>4, <2>a, <3>6 DEF ScalarInv
  <2> QED
    BY <2>5, <2>6
<1>3. CASE TS!Return
  <2>1. PICK n \in Nat : CallOf(n)
    BY <1>3 DEF TS!Return, ScalarInv
  <2>2. row = n + 1
    BY <1>3, <2>1 DEF TS!Return, CallOf
  <2>3. CallOf(n)'
    BY <1>3, <2>1, <2>2 DEF TS!Return, CallOf, Answered
  <2> QED
    BY <1>3, <2>3 DEF TS!Return, ScalarInv, TS!check_signature
<1>4. CASE TS!Taken
  BY <1>4 DEF TS!Taken, ScalarInv
<1>5. CASE UNCHANGED TS!tsVars
  BY <1>5 DEF TS!tsVars, ScalarInv, CallOf, Answered, TS!check_signature
<1> QED
  BY <1>1, <1>2, <1>3, <1>4, <1>5 DEF TS!Next

\* For chunks of any size, closures of any types and vectors of any types, a
\* typed scalar function that reports no error has written every row from that
\* row's own arguments, read and written as what they are (scalar/typed.rs,
\* scalar/typed_builder.rs).
THEOREM RowsCorrect == TS!Spec => []RowsAnswered
<1>1. TS!Init => ScalarInv
  BY DEF TS!Init, ScalarInv
<1>2. ScalarInv /\ [TS!Next]_(TS!tsVars) => ScalarInv'
  BY ScalarInvNext
<1>3. ASSUME ScalarInv PROVE RowsAnswered
  <2> SUFFICES ASSUME called = "ok", NEW r \in DOMAIN out
               PROVE  Answered(r)
    BY DEF RowsAnswered, TS!RowsAnswered, Answered
  <2>1. PICK n \in Nat : CallOf(n)
    BY <1>3 DEF ScalarInv
  <2> QED
    BY <2>1 DEF CallOf
<1> QED
  BY <1>1, <1>2, <1>3, PTL DEF TS!Spec
=============================================================================
