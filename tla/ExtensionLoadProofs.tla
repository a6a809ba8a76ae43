------------------------ MODULE ExtensionLoadProofs ------------------------
(***************************************************************************)
(* What ExtensionLoad promises, for any number of threads, LOADs, nested   *)
(* or not, and names, on every engine generation.                          *)
(***************************************************************************)
EXTENDS ExtensionLoad, SequenceTheorems, TLAPS

-----------------------------------------------------------------------------
(* Stacks.                                                                 *)

\* Pushing a LOAD leaves the ones below it where they are.
LEMMA PushProperties ==
    ASSUME NEW s \in Seq(Loads), NEW l \in Loads
    PROVE  /\ Append(s, l) \in Seq(Loads)
           /\ Len(Append(s, l)) = Len(s) + 1
           /\ \A i \in 1..Len(s) : Append(s, l)[i] = s[i]
           /\ Append(s, l)[Len(s) + 1] = l
  OBVIOUS

\* Popping one does too.
LEMMA PopProperties ==
    ASSUME NEW s \in Seq(Loads), s # <<>>
    PROVE  /\ SubSeq(s, 1, Len(s) - 1) \in Seq(Loads)
           /\ Len(SubSeq(s, 1, Len(s) - 1)) = Len(s) - 1
           /\ \A i \in 1..Len(s) - 1 : SubSeq(s, 1, Len(s) - 1)[i] = s[i]
<1>1. Len(s) \in Nat /\ Len(s) >= 1
  OBVIOUS
<1>2. \A i \in 1..Len(s) - 1 : s[i] \in Loads
  BY <1>1
<1> DEFINE n == Len(s) - 1
<1>3. n \in Int /\ n >= 0
  BY <1>1
<1>4. /\ SubSeq(s, 1, n) \in Seq(Loads)
      /\ Len(SubSeq(s, 1, n)) = IF 1 <= n THEN n - 1 + 1 ELSE 0
      /\ \A i \in 1..n - 1 + 1 : SubSeq(s, 1, n)[i] = s[1 + i - 1]
  <2> HIDE DEF n
  <2>1. \A i \in 1..n : s[i] \in Loads
    BY <1>2 DEF n
  <2> QED
    BY <1>3, <2>1, SubSeqProperties
<1> HIDE DEF n
<1>5. Len(SubSeq(s, 1, n)) = n
  BY <1>3, <1>4
<1>6. ASSUME NEW i \in 1..n
      PROVE  SubSeq(s, 1, n)[i] = s[i]
  <2>1. i \in 1..n - 1 + 1 /\ 1 + i - 1 = i
    BY <1>3
  <2> QED
    BY <1>4, <2>1
<1> QED
  BY <1>4, <1>5, <1>6 DEF n

\* The innermost LOAD of a thread is the last of its stack.
LEMMA InnermostLast ==
    ASSUME TypeOK, NEW t \in Threads, NEW l \in Loads, Innermost(t, l)
    PROVE  /\ Len(stack[t]) \in Nat \ {0}
           /\ stack[t][Len(stack[t])] = l
           /\ stack[t] \in Seq(Loads)
           /\ stack[t] # <<>>
  BY DEF Innermost, TypeOK

-----------------------------------------------------------------------------
(* Types.                                                                  *)

\* What a failed statement leaves in `aborted` is of its type.
LEMMA AfterNestedType ==
    ASSUME TypeOK, NEW s \in Seq(Loads)
    PROVE  AfterNested(s) \subseteq [Loads -> {"no", "closure", "probe"}]
<1>1. s # <<>> => s[Len(s)] \in Loads
  OBVIOUS
<1>2. \A l \in Loads : AfterFailure(l, "closure") \subseteq {"no", "closure", "probe"}
  BY DEF AfterFailure, TypeOK
<1> QED
  BY <1>1, <1>2 DEF AfterNested, TypeOK

LEMMA TypeStep ==
    ASSUME TypeOK, [Next]_vars
    PROVE  TypeOK'
<1> USE DEF TypeOK, txnVars, wrapVars, ghosts
<1>1. CASE HostWrites
  BY <1>1 DEF HostWrites
<1>2. ASSUME NEW t \in Threads, NEW l \in Loads, Begin(t, l)
      PROVE  TypeOK'
  <2>1. stack' \in [Threads -> Seq(Loads)]
    BY <1>2, PushProperties DEF Begin
  <2>2. base' \in [Loads -> [Entries -> Loads \cup {Host, None}]]
    BY <1>2 DEF Begin
  <2>3. scope' \in [Threads -> Scopes] /\ previous' \in [Loads -> Scopes]
    <3>1. CASE l \in Transactional
      <4>1. Entered(l) \in Scopes
        BY DEF Entered, Scopes
      <4>2. /\ scope' = [scope EXCEPT ![t] = Entered(l)]
            /\ previous' = [previous EXCEPT ![l] = scope[t]]
        BY <1>2, <3>1 DEF Begin
      <4> QED
        BY <4>1, <4>2
    <3>2. CASE l \notin Transactional
      BY <1>2, <3>2 DEF Begin
    <3> QED
      BY <3>1, <3>2
  <2> QED
    BY <1>2, <2>1, <2>2, <2>3 DEF Begin
<1>3. ASSUME NEW t \in Threads, NEW l \in Loads, Refuse(t, l)
      PROVE  TypeOK'
  <2>1. aborted' \in [Loads -> {"no", "closure", "probe"}]
    BY <1>3, AfterNestedType DEF Refuse
  <2> QED
    BY <1>3, <2>1 DEF Refuse
<1>4. ASSUME NEW t \in Threads, NEW l \in Loads, StatementFails(t, l)
      PROVE  TypeOK'
  <2>1. aborted' \in [Loads -> {"no", "closure", "probe"}]
    <3>1. AfterFailure(l, "closure") \subseteq {"no", "closure", "probe"}
      BY DEF AfterFailure
    <3>2. PICK a \in AfterFailure(l, "closure") :
             aborted' = [aborted EXCEPT ![l] = a]
      BY <1>4 DEF StatementFails
    <3> QED
      BY <3>1, <3>2
  <2> QED
    BY <1>4, <2>1 DEF StatementFails
<1>5. ASSUME NEW t \in Threads, NEW l \in Loads, Register(t, l)
      PROVE  TypeOK'
  <2> DEFINE e == call[l][1]
  <2>1. e \in Entries
    BY <1>5 DEF Register
  <2>2. /\ call' \in [Loads -> {None} \cup (Entries \X {"facade", "raw"})]
        /\ local' \in [Loads -> SUBSET Entries]
        /\ catalog' \in [Entries -> Loads \cup {Host, None}]
        /\ promised' \in [Loads -> SUBSET Entries]
        /\ raw' \in [Loads -> SUBSET Entries]
        /\ clobbered' \subseteq Loads \X Entries
    BY <1>5, <2>1 DEF Register
  <2>6. unseen' \subseteq clobbered'
    <3>1. /\ clobbered \subseteq clobbered'
          /\ unseen' \subseteq unseen \cup {<<l, e>>}
          /\ unseen' = unseen \/ <<l, e>> \in clobbered'
      BY <1>5 DEF Register
    <3> QED
      BY <3>1
  <2>3. listing' \in [Loads -> SUBSET Entries]
    BY <1>5, <2>1 DEF Register, Recorded
  <2>4. scope' \in [Threads -> Scopes]
    <3>1. scope' = FormatRecorded(t, l, e) \/ UNCHANGED scope
      BY <1>5 DEF Register
    <3>2. CASE UNCHANGED scope
      BY <3>2
    <3>3. CASE /\ scope' = [scope EXCEPT ![t].formats = @ \cup {e}]
               /\ e \in Formats /\ scope[t] # None
      <4>1. scope[t] \in [con : Loads, formats : SUBSET Formats]
        BY <3>3 DEF Scopes
      <4>2. scope' = [scope EXCEPT ![t] = [scope[t] EXCEPT !.formats = scope[t].formats \cup {e}]]
        BY <3>3
      <4> DEFINE entered == [scope[t] EXCEPT !.formats = scope[t].formats \cup {e}]
      <4>3. entered \in [con : Loads, formats : SUBSET Formats]
        BY <3>3, <4>1
      <4>4. entered \in Scopes
        BY <4>3 DEF Scopes
      <4> HIDE DEF entered
      <4> QED
        BY <4>2, <4>4 DEF entered
    <3> QED
      BY <3>1, <3>2, <3>3 DEF FormatRecorded, InScope
  <2>5. aborted' \in [Loads -> {"no", "closure", "probe"}]
    <3>1. AfterFailure(l, "closure") \subseteq {"no", "closure", "probe"}
      BY DEF AfterFailure
    <3>2. PICK a \in {aborted[l]} \cup AfterFailure(l, "closure") :
             aborted' = [aborted EXCEPT ![l] = a]
      BY <1>5 DEF Register
    <3> QED
      BY <3>1, <3>2
  <2> QED
    BY <1>5, <2>2, <2>3, <2>4, <2>5, <2>6 DEF Register
<1>6. ASSUME NEW t \in Threads, NEW l \in Loads,
             NEW ok \in BOOLEAN, NEW commits \in BOOLEAN,
             Finish(t, l, ok, commits)
      PROVE  TypeOK'
  <2> DEFINE outer == SubSeq(stack[t], 1, Len(stack[t]) - 1)
  <2>1. outer \in Seq(Loads)
    BY <1>6, InnermostLast, PopProperties DEF Finish, Running
  <2>2. aborted' \in [Loads -> {"no", "closure", "probe"}]
    <3>1. PICK a \in IF Succeeds(l, ok, commits) THEN {aborted}
                     ELSE AfterNested(outer) :
             aborted' = [a EXCEPT ![l] = "no"]
      BY <1>6 DEF Finish
    <3>2. a \in [Loads -> {"no", "closure", "probe"}]
      BY <3>1, <2>1, AfterNestedType
    <3> QED
      BY <3>1, <3>2
  <2>3. catalog' \in [Entries -> Loads \cup {Host, None}]
    BY <1>6 DEF Finish, Installed
  <2>4. scope' \in [Threads -> Scopes] /\ previous' \in [Loads -> Scopes]
    BY <1>6 DEF Finish, Restored, Scopes
  <2>5. /\ stack' \in [Threads -> Seq(Loads)]
        /\ stage' \in [Loads -> {"idle", "registering", "done", "failed"}]
        /\ base' \in [Loads -> [Entries -> Loads \cup {Host, None}]]
        /\ local' \in [Loads -> SUBSET Entries]
        /\ UNCHANGED call
        /\ listed' \in [Loads -> SUBSET {"scalar", "table"}]
        /\ listing' \in [Loads -> SUBSET Entries]
    BY <1>6, <2>1 DEF Finish
  <2>6. /\ promised' \in [Loads -> SUBSET Entries]
        /\ raw' \in [Loads -> SUBSET Entries]
        /\ clobbered' \subseteq Loads \X Entries /\ unseen' \subseteq clobbered'
    BY <1>6 DEF Finish
  <2> QED
    BY <2>2, <2>3, <2>4, <2>5, <2>6
<1>7. ASSUME NEW t \in Threads, NEW l \in Loads, NEW e \in Entries,
             NEW via \in {"facade", "raw"},
             CheckListed(t, l, e, via) \/ CheckNothing(t, l, e, via)
      PROVE  TypeOK'
  <2>1. CASE CheckNothing(t, l, e, via)
    BY <2>1 DEF CheckNothing
  <2>2. CASE CheckListed(t, l, e, via)
    <3>1. Scalars \subseteq Entries /\ Tables \subseteq Entries
      BY DEF Entries
    <3>2. listed' \in [Loads -> SUBSET {"scalar", "table"}]
      <4>1. KindOf(e) \in {"scalar", "table"}
        BY DEF KindOf
      <4>2. \/ UNCHANGED listed
            \/ listed' = [listed EXCEPT ![l] = @ \cup {KindOf(e)}]
        BY <2>2 DEF CheckListed
      <4>3. listed[l] \cup {KindOf(e)} \in SUBSET {"scalar", "table"}
        BY <4>1
      <4> DEFINE kinds == listed[l] \cup {KindOf(e)}
      <4>4. kinds \in SUBSET {"scalar", "table"}
        BY <4>3
      <4>5. listed' = [listed EXCEPT ![l] = kinds] \/ UNCHANGED listed
        BY <4>2
      <4> HIDE DEF kinds
      <4> QED
        BY <4>4, <4>5
    <3>3. listing' \in [Loads -> SUBSET Entries]
      <4>1. OfKind(KindOf(e)) \subseteq Entries
        BY <3>1 DEF OfKind
      <4>2. \/ UNCHANGED listing
            \/ \E names \in SUBSET Entries :
                  listing' = [listing EXCEPT ![l] = @ \cup names]
        <5>1. listing[l] \in SUBSET Entries
          OBVIOUS
        <5>2. Visible(l) \cap OfKind(KindOf(e)) \in SUBSET Entries
          BY <4>1
        <5> QED
          BY <2>2, <5>1, <5>2 DEF CheckListed
      <4>3. CASE UNCHANGED listing
        BY <4>3
      <4>4. ASSUME NEW names \in SUBSET Entries,
                   listing' = [listing EXCEPT ![l] = @ \cup names]
            PROVE  listing' \in [Loads -> SUBSET Entries]
        <5>1. listing[l] \cup names \in SUBSET Entries
          OBVIOUS
        <5> QED
          BY <4>4, <5>1
      <4> QED
        BY <4>2, <4>3, <4>4
    <3>4. call' \in [Loads -> {None} \cup (Entries \X {"facade", "raw"})]
      BY <2>2 DEF CheckListed
    <3> QED
      BY <2>2, <3>2, <3>3, <3>4 DEF CheckListed
  <2> QED
    BY <1>7, <2>1, <2>2
<1>8. ASSUME NEW t \in Threads, NEW l \in Loads, NEW e \in Entries,
             \/ ProbeApart(t, l, e) \/ ProbeOnCon(t, l, e)
             \/ CheckSetting(t, l, e)
      PROVE  TypeOK'
  <2>1. CASE ProbeApart(t, l, e)
    BY <2>1 DEF ProbeApart
  <2>2. CASE ProbeOnCon(t, l, e)
    <3>1. aborted' \in [Loads -> {"no", "closure", "probe"}]
      BY <2>2 DEF ProbeOnCon
    <3>2. call' \in [Loads -> {None} \cup (Entries \X {"facade", "raw"})]
      BY <2>2 DEF ProbeOnCon
    <3> QED
      BY <2>2, <3>1, <3>2 DEF ProbeOnCon
  <2>3. CASE CheckSetting(t, l, e)
    BY <2>3 DEF CheckSetting
  <2> QED
    BY <1>8, <2>1, <2>2, <2>3
<1>9. CASE UNCHANGED vars
  BY <1>9 DEF vars
<1> HIDE DEF TypeOK, txnVars, wrapVars, ghosts
<1> QED
  BY <1>1, <1>2, <1>3, <1>4, <1>5, <1>6, <1>7, <1>8, <1>9 DEF Next

\* Every variable of a LOAD keeps to its type, however LOADs nest and overlap.
THEOREM TypeCorrect == Spec => []TypeOK
<1>1. Init => TypeOK
  BY DEF Init, TypeOK, Scopes
<1> QED
  BY <1>1, TypeStep, PTL DEF Spec

-----------------------------------------------------------------------------
(* Stacks hold the LOADs in progress, each once; what a LOAD has written    *)
(* and not committed belongs to a transaction that is still open.           *)

Distinct ==
    \A t, u \in Threads : \A i \in 1..Len(stack[t]), j \in 1..Len(stack[u]) :
        stack[t][i] = stack[u][j] => t = u /\ i = j

InProgress ==
    \A t \in Threads : \A i \in 1..Len(stack[t]) :
        stage[stack[t][i]] = "registering"

Uncommitted ==
    \A l \in Loads :
        local[l] # {} => l \in Transactional /\ stage[l] = "registering"

StackInv == Distinct /\ InProgress /\ Uncommitted

\* A step that leaves the stacks, the stages and the uncommitted writes alone.
LEMMA StackFrame ==
    ASSUME StackInv, UNCHANGED <<stack, stage, local>>
    PROVE  StackInv'
  BY DEF StackInv, Distinct, InProgress, Uncommitted

LEMMA StackBegin ==
    ASSUME TypeOK, StackInv, NEW t \in Threads, NEW l \in Loads, Begin(t, l)
    PROVE  StackInv'
<1> USE DEF StackInv
<1>1. /\ stack[t] \in Seq(Loads)
      /\ stack' = [stack EXCEPT ![t] = Append(stack[t], l)]
      /\ stage' = [stage EXCEPT ![l] = "registering"]
      /\ stage[l] # "registering"
      /\ UNCHANGED local
  BY DEF Begin, TypeOK
<1>2. \A u \in Threads : \A i \in 1..Len(stack[u]) : stack[u][i] # l
  BY <1>1 DEF InProgress
<1>3. \A u \in Threads : u # t => stack'[u] = stack[u]
  BY <1>1 DEF TypeOK
<1>4. /\ Len(stack'[t]) = Len(stack[t]) + 1
      /\ \A i \in 1..Len(stack[t]) : stack'[t][i] = stack[t][i]
      /\ stack'[t][Len(stack[t]) + 1] = l
  BY <1>1, PushProperties DEF TypeOK
<1>5. \A i \in 1..Len(stack'[t]) :
         i \in 1..Len(stack[t]) \/ i = Len(stack[t]) + 1
  BY <1>1, <1>4
<1>6. Distinct'
  <2>1. ASSUME NEW u \in Threads, NEW i \in 1..Len(stack'[u])
        PROVE  \/ /\ i \in 1..Len(stack[u])
                  /\ stack'[u][i] = stack[u][i] /\ stack'[u][i] # l
               \/ u = t /\ i = Len(stack[t]) + 1 /\ stack'[u][i] = l
    BY <1>2, <1>3, <1>4, <1>5
  <2>2. ASSUME NEW u \in Threads, NEW v \in Threads,
               NEW i \in 1..Len(stack'[u]), NEW j \in 1..Len(stack'[v]),
               stack'[u][i] = stack'[v][j]
        PROVE  u = v /\ i = j
    <3>1. CASE stack'[u][i] = l
      BY <2>1, <2>2, <3>1
    <3>2. CASE stack'[u][i] # l
      <4>1. /\ i \in 1..Len(stack[u]) /\ stack'[u][i] = stack[u][i]
            /\ j \in 1..Len(stack[v]) /\ stack'[v][j] = stack[v][j]
        BY <2>1, <2>2, <3>2
      <4>2. stack[u][i] = stack[v][j]
        BY <2>2, <4>1
      <4>3. Distinct
        BY DEF StackInv
      <4> QED
        BY <4>1, <4>2, <4>3 DEF Distinct
    <3> QED
      BY <3>1, <3>2
  <2> QED
    BY <2>2 DEF Distinct
<1>7. InProgress'
  BY <1>1, <1>3, <1>4, <1>5 DEF InProgress, TypeOK
<1>8. Uncommitted'
  BY <1>1 DEF Uncommitted, TypeOK
<1> QED
  BY <1>6, <1>7, <1>8

LEMMA StackFinish ==
    ASSUME TypeOK, StackInv, NEW t \in Threads, NEW l \in Loads,
           NEW ok \in BOOLEAN, NEW commits \in BOOLEAN,
           Finish(t, l, ok, commits)
    PROVE  StackInv'
<1> USE DEF StackInv
<1> DEFINE outer == SubSeq(stack[t], 1, Len(stack[t]) - 1)
<1>1. /\ stack' = [stack EXCEPT ![t] = outer]
      /\ stage' \in {[stage EXCEPT ![l] = "done"], [stage EXCEPT ![l] = "failed"]}
      /\ local' = [local EXCEPT ![l] = {}]
      /\ Innermost(t, l)
  BY DEF Finish, Running
<1>2. /\ Len(stack[t]) \in Nat \ {0} /\ stack[t] \in Seq(Loads)
      /\ stack[t][Len(stack[t])] = l /\ stack[t] # <<>>
  BY <1>1, InnermostLast
<1>3. /\ outer \in Seq(Loads)
      /\ Len(outer) = Len(stack[t]) - 1
      /\ \A i \in 1..Len(stack[t]) - 1 : outer[i] = stack[t][i]
  BY <1>2, PopProperties
<1>4. \A u \in Threads : u # t => stack'[u] = stack[u]
  BY <1>1 DEF TypeOK
<1>5. stack'[t] = outer
  BY <1>1 DEF TypeOK
<1> HIDE DEF outer
<1>6. \A u \in Threads : \A i \in 1..Len(stack'[u]) :
         /\ i \in 1..Len(stack[u])
         /\ stack'[u][i] = stack[u][i]
         /\ u = t => i # Len(stack[t])
  BY <1>2, <1>3, <1>4, <1>5
<1>7. \A u \in Threads : \A i \in 1..Len(stack'[u]) : stack'[u][i] # l
  BY <1>2, <1>6 DEF Distinct
<1>8. Distinct'
  BY <1>6 DEF Distinct
<1>9. InProgress'
  BY <1>1, <1>6, <1>7 DEF InProgress, TypeOK
<1>10. Uncommitted'
  BY <1>1 DEF Uncommitted, TypeOK
<1> QED
  BY <1>8, <1>9, <1>10

LEMMA StackRegister ==
    ASSUME TypeOK, StackInv, NEW t \in Threads, NEW l \in Loads, Register(t, l)
    PROVE  StackInv'
<1> USE DEF StackInv
<1>1. /\ UNCHANGED <<stack, stage>>
      /\ \/ UNCHANGED local
         \/ /\ l \in Transactional
            /\ \E e \in Entries : local' = [local EXCEPT ![l] = @ \cup {e}]
  <2>1. call[l][1] \in Entries
    BY DEF Register, TypeOK
  <2> QED
    <3> DEFINE e == call[l][1]
    <3>1. PICK answer \in Answers(l, e) :
             local' = [local EXCEPT ![l] =
                         IF answer \in {"created", "replaced"} /\ Buffers(l, e)
                         THEN @ \cup {e} ELSE @]
      BY DEF Register
    <3>2. CASE answer \in {"created", "replaced"} /\ Buffers(l, e)
      BY <2>1, <3>1, <3>2 DEF Buffers, Register
    <3>3. CASE ~(answer \in {"created", "replaced"} /\ Buffers(l, e))
      BY <3>1, <3>3 DEF TypeOK, Register
    <3> QED
      BY <3>2, <3>3
<1>2. stage[l] = "registering"
  <2>1. Innermost(t, l)
    BY DEF Register
  <2> QED
    BY <2>1, InnermostLast DEF InProgress
<1>3. Distinct' /\ InProgress'
  BY <1>1 DEF Distinct, InProgress
<1>4. Uncommitted'
  BY <1>1, <1>2 DEF Uncommitted, TypeOK
<1> QED
  BY <1>3, <1>4

LEMMA StackRefuse ==
    ASSUME TypeOK, StackInv, NEW t \in Threads, NEW l \in Loads, Refuse(t, l)
    PROVE  StackInv'
  BY DEF StackInv, Refuse, Distinct, InProgress, Uncommitted, TypeOK

LEMMA StackStep ==
    ASSUME TypeOK, StackInv, [Next]_vars
    PROVE  StackInv'
<1>1. ASSUME NEW t \in Threads, NEW l \in Loads,
             \/ Begin(t, l) \/ Refuse(t, l) \/ Register(t, l)
             \/ \E ok, commits \in BOOLEAN : Finish(t, l, ok, commits)
      PROVE  StackInv'
  BY <1>1, StackBegin, StackRefuse, StackRegister, StackFinish
<1>2. ASSUME NEW t \in Threads, NEW l \in Loads, StatementFails(t, l)
      PROVE  StackInv'
  BY <1>2, StackFrame DEF StatementFails
<1>3. ASSUME NEW t \in Threads, NEW l \in Loads, NEW e \in Entries,
             \/ \E via \in {"facade", "raw"} :
                   CheckListed(t, l, e, via) \/ CheckNothing(t, l, e, via)
             \/ ProbeApart(t, l, e) \/ ProbeOnCon(t, l, e)
             \/ CheckSetting(t, l, e)
      PROVE  UNCHANGED <<stack, stage, local>>
  BY <1>3 DEF CheckListed, CheckNothing, ProbeApart, ProbeOnCon, CheckSetting,
              txnVars, ghosts
<1>4. CASE HostWrites
  BY <1>4, StackFrame DEF HostWrites, txnVars
<1>5. CASE UNCHANGED vars
  BY <1>5, StackFrame DEF vars, txnVars
<1> QED
  BY <1>1, <1>2, <1>3, <1>4, <1>5, StackFrame DEF Next

-----------------------------------------------------------------------------
(* A LOAD is atomic.                                                       *)

\* What a registration does to the catalog and to the uncommitted writes.
LEMMA RegisterWrites ==
    ASSUME TypeOK, NEW t \in Threads, NEW l \in Loads, Register(t, l)
    PROVE  /\ UNCHANGED stage
           /\ \/ UNCHANGED <<local, catalog>>
              \/ \E e \in Entries :
                    /\ l \in Transactional
                    /\ local' = [local EXCEPT ![l] = @ \cup {e}]
                    /\ UNCHANGED catalog
              \/ \E e \in Entries :
                    /\ l \in Transactional => e \in Settings
                    /\ catalog' = [catalog EXCEPT ![e] = l]
                    /\ UNCHANGED local
<1> DEFINE e == call[l][1]
<1>1. e \in Entries
  BY DEF Register, TypeOK
<1>2. PICK answer \in Answers(l, e) :
         /\ local' = [local EXCEPT ![l] =
                        IF answer \in {"created", "replaced"} /\ Buffers(l, e)
                        THEN @ \cup {e} ELSE @]
         /\ catalog' = [catalog EXCEPT ![e] =
                          IF answer \in {"created", "replaced"} /\ ~Buffers(l, e)
                          THEN l ELSE @]
  BY DEF Register
<1>3. UNCHANGED stage
  BY DEF Register
<1> HIDE DEF e
<1>4. CASE answer \notin {"created", "replaced"}
  BY <1>1, <1>2, <1>3, <1>4 DEF TypeOK
<1>5. CASE answer \in {"created", "replaced"} /\ Buffers(l, e)
  BY <1>1, <1>2, <1>3, <1>5 DEF TypeOK, Buffers
<1>6. CASE answer \in {"created", "replaced"} /\ ~Buffers(l, e)
  BY <1>1, <1>2, <1>3, <1>6 DEF TypeOK, Buffers
<1> QED
  BY <1>4, <1>5, <1>6

\* What the end of a LOAD does to them: all or nothing.
LEMMA FinishInstalls ==
    ASSUME TypeOK, StackInv, NEW t \in Threads, NEW l \in Loads,
           NEW ok \in BOOLEAN, NEW commits \in BOOLEAN,
           Finish(t, l, ok, commits)
    PROVE  /\ stage[l] = "registering"
           /\ local' = [local EXCEPT ![l] = {}]
           /\ \/ /\ stage' = [stage EXCEPT ![l] = "done"]
                 /\ catalog' = [e \in Entries |-> IF e \in local[l]
                                                 THEN l ELSE catalog[e]]
              \/ /\ stage' = [stage EXCEPT ![l] = "failed"]
                 /\ UNCHANGED catalog
<1>1. stage[l] = "registering"
  BY InnermostLast DEF Finish, Running, StackInv, InProgress
<1>2. local' = [local EXCEPT ![l] = {}]
  BY DEF Finish
<1>3. catalog' = [e \in Entries |->
                    IF ok /\ commits /\ e \in local[l] /\ aborted[l] = "no"
                    THEN l ELSE catalog[e]]
  BY DEF Finish, Installed
<1>4. stage' = [stage EXCEPT ![l] =
                  IF Succeeds(l, ok, commits) THEN "done" ELSE "failed"]
  BY DEF Finish
<1>5. local[l] # {} => l \in Transactional
  BY DEF StackInv, Uncommitted
<1>6. CASE Succeeds(l, ok, commits)
  <2>1. catalog' = [e \in Entries |-> IF e \in local[l] THEN l ELSE catalog[e]]
    BY <1>3, <1>5, <1>6 DEF Succeeds
  <2> QED
    BY <1>1, <1>2, <1>4, <1>6, <2>1
<1>7. CASE ~Succeeds(l, ok, commits)
  <2>1. catalog' = [e \in Entries |-> catalog[e]]
    BY <1>3, <1>5, <1>7 DEF Succeeds
  <2>2. UNCHANGED catalog
    BY <2>1 DEF TypeOK
  <2> QED
    BY <1>1, <1>2, <1>4, <1>7, <2>2
<1> QED
  BY <1>6, <1>7

\* Every other step of a LOAD leaves the catalog and the stages alone.
LEMMA OtherSteps ==
    ASSUME TypeOK, NEW t \in Threads, NEW l \in Loads,
           \/ StatementFails(t, l)
           \/ \E e \in Entries :
                 \/ \E via \in {"facade", "raw"} :
                       CheckListed(t, l, e, via) \/ CheckNothing(t, l, e, via)
                 \/ ProbeApart(t, l, e) \/ ProbeOnCon(t, l, e)
                 \/ CheckSetting(t, l, e)
    PROVE  UNCHANGED <<stack, stage, catalog, base, local, promised, raw, clobbered>>
<1>1. CASE StatementFails(t, l)
  BY <1>1 DEF StatementFails, ghosts
<1>2. ASSUME NEW e \in Entries,
             \/ \E via \in {"facade", "raw"} :
                   CheckListed(t, l, e, via) \/ CheckNothing(t, l, e, via)
             \/ ProbeApart(t, l, e) \/ ProbeOnCon(t, l, e)
             \/ CheckSetting(t, l, e)
      PROVE  UNCHANGED <<stack, stage, catalog, base, local, promised, raw, clobbered>>
  BY <1>2 DEF CheckListed, CheckNothing, ProbeApart, ProbeOnCon, CheckSetting,
              txnVars, ghosts
<1> QED
  BY <1>1, <1>2

\* Every step of ExtensionLoad is one of AtomicLoad's, or none.
LEMMA Simulation ==
    ASSUME TypeOK, StackInv, [Next]_vars
    PROVE  [Atomic!Next]_(Atomic!vars)
<1> USE DEF Atomic!Next, Atomic!vars
<1>1. CASE HostWrites
  <2>1. PICK e \in Entries : catalog' = [catalog EXCEPT ![e] = Host]
    BY <1>1 DEF HostWrites
  <2>2. Host \notin Transactional
    BY ExtensionLoadAssumption
  <2>3. Atomic!Write(Host, e)
    BY <1>1, <2>1, <2>2 DEF HostWrites, txnVars, Atomic!Write
  <2> QED
    BY <2>3
<1>2. ASSUME NEW t \in Threads, NEW l \in Loads, Begin(t, l)
      PROVE  Atomic!Next
  <2>1. local[l] = {}
    BY <1>2 DEF Begin, StackInv, Uncommitted
  <2>2. local = [local EXCEPT ![l] = {}]
    BY <2>1 DEF TypeOK
  <2>3. Atomic!Start(l)
    BY <1>2, <2>2 DEF Begin, Atomic!Start
  <2> QED
    BY <2>3
<1>3. ASSUME NEW t \in Threads, NEW l \in Loads, Refuse(t, l)
      PROVE  Atomic!Next
  <2>1. Atomic!Refuse(l)
    BY <1>3 DEF Refuse, Atomic!Refuse
  <2> QED
    BY <2>1
<1>4. ASSUME NEW t \in Threads, NEW l \in Loads, Register(t, l)
      PROVE  Atomic!Next \/ UNCHANGED Atomic!vars
  <2>1. stage[l] = "registering"
    BY <1>4, InnermostLast DEF Register, StackInv, InProgress
  <2>2. UNCHANGED stage
    BY <1>4, RegisterWrites
  <2>3. \/ UNCHANGED <<local, catalog>>
        \/ \E e \in Entries : Atomic!Grant(l, e)
        \/ \E e \in Entries : Atomic!Write(l, e)
    BY <1>4, <2>1, <2>2, RegisterWrites DEF Atomic!Grant, Atomic!Write
  <2> QED
    BY <2>2, <2>3
<1>5. ASSUME NEW t \in Threads, NEW l \in Loads,
             NEW ok \in BOOLEAN, NEW commits \in BOOLEAN,
             Finish(t, l, ok, commits)
      PROVE  Atomic!Next
  <2>1. Atomic!Succeed(l) \/ Atomic!Fail(l)
    BY <1>5, FinishInstalls DEF Atomic!Succeed, Atomic!Fail
  <2> QED
    BY <2>1
<1>6. ASSUME NEW t \in Threads, NEW l \in Loads,
             \/ StatementFails(t, l)
             \/ \E e \in Entries :
                   \/ \E via \in {"facade", "raw"} :
                         CheckListed(t, l, e, via) \/ CheckNothing(t, l, e, via)
                   \/ ProbeApart(t, l, e) \/ ProbeOnCon(t, l, e)
                   \/ CheckSetting(t, l, e)
      PROVE  UNCHANGED Atomic!vars
  BY <1>6, OtherSteps
<1>7. CASE UNCHANGED vars
  BY <1>7 DEF vars, txnVars
<1> HIDE DEF Atomic!Next, Atomic!vars
<1> QED
  BY <1>1, <1>2, <1>3, <1>4, <1>5, <1>6, <1>7 DEF Next

\* No entry of a LOAD in progress or failed is in the catalog: each step.
LEMMA FinishedStep ==
    ASSUME TypeOK, StackInv, OnlyFinishedLoadsVisible, [Next]_vars
    PROVE  OnlyFinishedLoadsVisible'
<1> USE DEF OnlyFinishedLoadsVisible
<1>1. CASE HostWrites
  <2>1. Host \notin Transactional
    BY ExtensionLoadAssumption
  <2> QED
    BY <1>1, <2>1 DEF HostWrites, TypeOK
<1>2. ASSUME NEW t \in Threads, NEW l \in Loads, Begin(t, l) \/ Refuse(t, l)
      PROVE  OnlyFinishedLoadsVisible'
  <2>1. stage[l] # "done" /\ UNCHANGED catalog
    BY <1>2 DEF Begin, Refuse
  <2>2. \A m \in Loads : m # l => stage'[m] = stage[m]
    BY <1>2 DEF Begin, Refuse, TypeOK
  <2>3. Transactional \subseteq Loads
    BY ExtensionLoadAssumption
  <2> QED
    BY <2>1, <2>2, <2>3
<1>3. ASSUME NEW t \in Threads, NEW l \in Loads, Register(t, l)
      PROVE  OnlyFinishedLoadsVisible'
  <2>1. \A e \in Entries \ Settings :
           catalog'[e] = catalog[e] \/ (catalog'[e] = l /\ l \notin Transactional)
    BY <1>3, RegisterWrites DEF TypeOK
  <2>2. UNCHANGED stage
    BY <1>3, RegisterWrites
  <2> QED
    BY <2>1, <2>2
<1>4. ASSUME NEW t \in Threads, NEW l \in Loads,
             NEW ok \in BOOLEAN, NEW commits \in BOOLEAN,
             Finish(t, l, ok, commits)
      PROVE  OnlyFinishedLoadsVisible'
  <2>1. stage[l] = "registering"
    BY <1>4, FinishInstalls
  <2>2. CASE /\ stage' = [stage EXCEPT ![l] = "done"]
             /\ catalog' = [e \in Entries |-> IF e \in local[l]
                                             THEN l ELSE catalog[e]]
    BY <2>1, <2>2 DEF TypeOK
  <2>3. CASE stage' = [stage EXCEPT ![l] = "failed"] /\ UNCHANGED catalog
    BY <2>1, <2>3 DEF TypeOK
  <2> QED
    BY <1>4, <2>2, <2>3, FinishInstalls
<1>5. ASSUME NEW t \in Threads, NEW l \in Loads,
             \/ StatementFails(t, l)
             \/ \E e \in Entries :
                   \/ \E via \in {"facade", "raw"} :
                         CheckListed(t, l, e, via) \/ CheckNothing(t, l, e, via)
                   \/ ProbeApart(t, l, e) \/ ProbeOnCon(t, l, e)
                   \/ CheckSetting(t, l, e)
      PROVE  OnlyFinishedLoadsVisible'
  BY <1>5, OtherSteps
<1>6. CASE UNCHANGED vars
  BY <1>6 DEF vars
<1> HIDE DEF OnlyFinishedLoadsVisible
<1> QED
  BY <1>1, <1>2, <1>3, <1>4, <1>5, <1>6 DEF Next

\* The invariants above hold of every reachable state.
THEOREM StackInvariant == Spec => [](TypeOK /\ StackInv)
<1>1. Init => TypeOK
  BY DEF Init, TypeOK, Scopes
<1>2. Init => StackInv
  BY DEF Init, StackInv, Distinct, InProgress, Uncommitted
<1> QED
  BY <1>1, <1>2, TypeStep, StackStep, PTL DEF Spec

\* A LOAD that failed, and one still running, has left no catalog entry behind.
THEOREM FinishedCorrect == Spec => []OnlyFinishedLoadsVisible
<1>1. Init => OnlyFinishedLoadsVisible
  BY ExtensionLoadAssumption DEF Init, OnlyFinishedLoadsVisible
<1> QED
  BY <1>1, StackInvariant, FinishedStep, PTL DEF Spec

\* A LOAD puts all of its transaction's entries in the catalog, in the step in
\* which it succeeds, or none: ExtensionLoad implements AtomicLoad.
THEOREM AtomicCorrect == Spec => ImplementsAtomicLoad
<1>1. Init => Atomic!Init
  BY DEF Init, Atomic!Init
<1> QED
  BY <1>1, StackInvariant, Simulation, PTL DEF Spec, ImplementsAtomicLoad, Atomic!Spec

-----------------------------------------------------------------------------
(* The thread-local scope.                                                 *)

\* A LOAD that is not running has nothing under way; a transactional one that
\* is yet to start, or to be tried again, has been promised nothing.
Fresh ==
    \A l \in Loads :
        /\ stage[l] # "registering" => listed[l] = {} /\ call[l] = None
        /\ l \in Transactional /\ stage[l] \in {"idle", "failed"}
              => promised[l] = {}

\* The transactional LOADs of a stack below position `n`, and what the scope
\* must be when the innermost of them is the innermost transaction.
Below(s, n) == {i \in 1..Len(s) : i < n /\ s[i] \in Transactional}

Expected(s, granted, n, record) ==
    IF Below(s, n) = {} THEN record = None
    ELSE \E i \in Below(s, n) :
            /\ \A j \in Below(s, n) : j <= i
            /\ record = [con |-> s[i], formats |-> granted[s[i]] \cap Formats]

\* Each guard holds what was expected when its LOAD began, and still is.
Scoped(s, granted, top, saved) ==
    /\ Expected(s, granted, Len(s) + 1, top)
    /\ \A j \in 1..Len(s) :
          s[j] \in Transactional => Expected(s, granted, j, saved[s[j]])

ScopeInv == \A t \in Threads : Scoped(stack[t], promised, scope[t], previous)

LEMMA FreshStep ==
    ASSUME TypeOK, StackInv, Fresh, [Next]_vars
    PROVE  Fresh'
<1> USE DEF Fresh, TypeOK
<1>1. CASE HostWrites
  BY <1>1 DEF HostWrites, wrapVars, ghosts
<1>2. ASSUME NEW t \in Threads, NEW l \in Loads, Begin(t, l)
      PROVE  Fresh'
  BY <1>2 DEF Begin, ghosts
<1>3. ASSUME NEW t \in Threads, NEW l \in Loads, Refuse(t, l)
      PROVE  Fresh'
  BY <1>3 DEF Refuse, wrapVars, ghosts
<1>4. ASSUME NEW t \in Threads, NEW l \in Loads, Register(t, l)
      PROVE  Fresh'
  <2>1. stage[l] = "registering"
    BY <1>4, InnermostLast DEF Register, StackInv, InProgress
  <2>2. /\ UNCHANGED <<stage, listed>>
        /\ \A m \in Loads : m # l => call'[m] = call[m] /\ promised'[m] = promised[m]
    BY <1>4 DEF Register
  <2> QED
    BY <2>1, <2>2
<1>5. ASSUME NEW t \in Threads, NEW l \in Loads,
             NEW ok \in BOOLEAN, NEW commits \in BOOLEAN,
             Finish(t, l, ok, commits)
      PROVE  Fresh'
  <2>1. /\ call[l] = None /\ UNCHANGED call
        /\ listed' = [listed EXCEPT ![l] = {}]
        /\ stage' = [stage EXCEPT ![l] =
                       IF Succeeds(l, ok, commits) THEN "done" ELSE "failed"]
        /\ promised' = [promised EXCEPT ![l] =
              IF ~Succeeds(l, ok, commits) /\ l \in Transactional THEN {} ELSE @]
    BY <1>5 DEF Finish, Running
  <2> QED
    BY <2>1
<1>6. ASSUME NEW t \in Threads, NEW l \in Loads,
             \/ StatementFails(t, l)
             \/ \E e \in Entries :
                   \/ \E via \in {"facade", "raw"} :
                         CheckListed(t, l, e, via) \/ CheckNothing(t, l, e, via)
                   \/ ProbeApart(t, l, e) \/ ProbeOnCon(t, l, e)
                   \/ CheckSetting(t, l, e)
      PROVE  Fresh'
  <2>1. stage[l] = "registering"
    BY <1>6, InnermostLast DEF StackInv, InProgress, StatementFails, CheckListed,
       CheckNothing, ProbeApart, ProbeOnCon, CheckSetting, Running
  <2>2. UNCHANGED <<stage, promised>>
    BY <1>6, OtherSteps
  <2>3. \A m \in Loads : m # l => call'[m] = call[m] /\ listed'[m] = listed[m]
    <3>1. CASE StatementFails(t, l)
      BY <3>1 DEF StatementFails, wrapVars
    <3>2. ASSUME NEW e \in Entries, NEW via \in {"facade", "raw"},
                 CheckListed(t, l, e, via)
          PROVE  \A m \in Loads : m # l => call'[m] = call[m] /\ listed'[m] = listed[m]
      BY <3>2 DEF CheckListed
    <3>3. ASSUME NEW e \in Entries,
                 \/ \E via \in {"facade", "raw"} : CheckNothing(t, l, e, via)
                 \/ ProbeApart(t, l, e) \/ ProbeOnCon(t, l, e)
                 \/ CheckSetting(t, l, e)
          PROVE  \A m \in Loads : m # l => call'[m] = call[m] /\ listed'[m] = listed[m]
      BY <3>3 DEF CheckNothing, ProbeApart, ProbeOnCon, CheckSetting
    <3> QED
      BY <1>6, <3>1, <3>2, <3>3
  <2> QED
    BY <2>1, <2>2, <2>3
<1>7. CASE UNCHANGED vars
  BY <1>7 DEF vars, wrapVars, ghosts
<1> HIDE DEF Fresh, TypeOK
<1> QED
  BY <1>1, <1>2, <1>3, <1>4, <1>5, <1>6, <1>7 DEF Next

\* While a transactional LOAD is innermost, the scope is its own.
LEMMA ScopeOfInnermost ==
    ASSUME TypeOK, ScopeInv, NEW t \in Threads, NEW l \in Transactional,
           l \in Loads, Innermost(t, l)
    PROVE  /\ InScope(t, l)
           /\ scope[t] = [con |-> l, formats |-> promised[l] \cap Formats]
<1> DEFINE s == stack[t]
           n == Len(s)
<1>1. n \in Nat \ {0} /\ s[n] = l
  BY InnermostLast
<1>2. n \in Below(s, n + 1) /\ \A j \in Below(s, n + 1) : j <= n
  BY <1>1 DEF Below
<1>3. PICK i \in Below(s, n + 1) :
         /\ \A j \in Below(s, n + 1) : j <= i
         /\ scope[t] = [con |-> s[i], formats |-> promised[s[i]] \cap Formats]
  BY <1>2 DEF ScopeInv, Scoped, Expected
<1>4. i = n
  BY <1>1, <1>2, <1>3 DEF Below
<1>5. scope[t] = [con |-> l, formats |-> promised[l] \cap Formats]
  BY <1>1, <1>3, <1>4
<1>6. scope[t] # None
  BY <1>5, ExtensionLoadAssumption
<1> QED
  BY <1>5, <1>6 DEF InScope

\* A LOAD that is not transactional is never the one in scope.
LEMMA NotInScope ==
    ASSUME TypeOK, ScopeInv, NEW t \in Threads, NEW l \in Loads,
           l \notin Transactional
    PROVE  ~InScope(t, l)
<1> DEFINE s == stack[t]
           n == Len(s) + 1
<1>1. CASE Below(s, n) = {}
  BY <1>1 DEF ScopeInv, Scoped, Expected, InScope
<1>2. CASE Below(s, n) # {}
  <2>1. PICK i \in Below(s, n) :
           scope[t] = [con |-> s[i], formats |-> promised[s[i]] \cap Formats]
    BY <1>2 DEF ScopeInv, Scoped, Expected
  <2>2. s[i] \in Transactional
    BY <2>1 DEF Below
  <2> QED
    BY <2>1, <2>2 DEF InScope
<1> QED
  BY <1>1, <1>2

\* What is expected at a position depends only on what lies below it.
LEMMA ExpectedFrame ==
    ASSUME NEW s, NEW s2, NEW p, NEW p2, NEW n, NEW record,
           Below(s2, n) = Below(s, n),
           \A i \in Below(s, n) : /\ s2[i] = s[i]
                                  /\ p2[s[i]] \cap Formats = p[s[i]] \cap Formats,
           Expected(s, p, n, record)
    PROVE  Expected(s2, p2, n, record)
  BY DEF Expected

\* A stack none of whose LOADs is touched stays scoped.
LEMMA ScopedFrame ==
    ASSUME NEW s, NEW p, NEW p2, NEW top, NEW saved, NEW saved2,
           \A i \in 1..Len(s) : s[i] \in Transactional =>
              /\ saved2[s[i]] = saved[s[i]]
              /\ p2[s[i]] \cap Formats = p[s[i]] \cap Formats,
           Scoped(s, p, top, saved)
    PROVE  Scoped(s, p2, top, saved2)
<1>1. \A n : \A i \in Below(s, n) : p2[s[i]] \cap Formats = p[s[i]] \cap Formats
  BY DEF Below
<1>2. \A n, record : Expected(s, p, n, record) => Expected(s, p2, n, record)
  BY <1>1, ExpectedFrame
<1> QED
  BY <1>2 DEF Scoped

\* Pushing a transactional LOAD with the present scope saved, and one without.
LEMMA ScopedPush ==
    ASSUME NEW s \in Seq(Loads), NEW l \in Loads, NEW p, NEW top,
           NEW saved, NEW saved2,
           \A i \in 1..Len(s) : s[i] \in Transactional =>
              s[i] # l /\ saved2[s[i]] = saved[s[i]],
           l \in Transactional => saved2[l] = top /\ p[l] \cap Formats = {},
           Scoped(s, p, top, saved)
    PROVE  Scoped(Append(s, l), p,
                  IF l \in Transactional THEN [con |-> l, formats |-> {}]
                                         ELSE top,
                  saved2)
<1> DEFINE s2 == Append(s, l)
           n == Len(s)
<1>1. /\ n \in Nat /\ Len(s2) = n + 1 /\ s2[n + 1] = l
      /\ \A i \in 1..n : s2[i] = s[i]
  BY PushProperties
<1> HIDE DEF s2
<1>2. \A k \in 1..n + 1 : Below(s2, k) = Below(s, k)
  BY <1>1 DEF Below
<1>3. \A k \in 1..n + 1 : \A i \in Below(s, k) : s2[i] = s[i]
  BY <1>1 DEF Below
<1>4. ASSUME NEW k \in 1..n + 1, NEW record, Expected(s, p, k, record)
      PROVE  Expected(s2, p, k, record)
  BY <1>2, <1>3, <1>4, ExpectedFrame
<1>5. n + 1 \in 1..n + 1 /\ Expected(s, p, n + 1, top)
  BY <1>1 DEF Scoped
<1>6. ASSUME NEW j \in 1..n + 1, s2[j] \in Transactional
      PROVE  Expected(s2, p, j, saved2[s2[j]])
  <2>1. CASE j = n + 1
    <3>1. saved2[s2[j]] = top
      BY <1>1, <1>6, <2>1
    <3>2. Expected(s2, p, n + 1, top)
      BY <1>4, <1>5
    <3> QED
      BY <2>1, <3>1, <3>2
  <2>2. CASE j # n + 1
    <3>1. j \in 1..n
      BY <1>1, <2>2
    <3>2. s2[j] = s[j] /\ saved2[s[j]] = saved[s[j]]
      BY <1>1, <1>6, <3>1
    <3>3. Expected(s, p, j, saved[s[j]])
      BY <1>6, <3>1, <3>2 DEF Scoped
    <3>4. Expected(s2, p, j, saved[s[j]])
      BY <1>4, <3>3
    <3> QED
      BY <3>2, <3>4
  <2> QED
    BY <2>1, <2>2
<1>7. CASE l \in Transactional
  <2>1. n + 1 \in Below(s2, n + 2) /\ \A j \in Below(s2, n + 2) : j <= n + 1
    BY <1>1, <1>7 DEF Below
  <2>2. Expected(s2, p, n + 2, [con |-> l, formats |-> {}])
    BY <1>1, <1>7, <2>1 DEF Expected
  <2>3. Len(s2) + 1 = n + 2
    BY <1>1
  <2> QED
    BY <1>1, <1>6, <1>7, <2>2, <2>3 DEF Scoped, s2
<1>8. CASE l \notin Transactional
  <2>1. Below(s2, n + 2) = Below(s2, n + 1)
    BY <1>1, <1>8 DEF Below
  <2>2. Expected(s2, p, n + 1, top)
    BY <1>4, <1>5
  <2>3. Expected(s2, p, n + 2, top)
    BY <2>1, <2>2 DEF Expected
  <2>4. Len(s2) + 1 = n + 2
    BY <1>1
  <2> QED
    BY <1>1, <1>6, <1>8, <2>3, <2>4 DEF Scoped, s2
<1> QED
  BY <1>7, <1>8

\* Popping the innermost LOAD with what its guard saved put back.
LEMMA ScopedPop ==
    ASSUME NEW s \in Seq(Loads), s # <<>>, NEW p, NEW p2, NEW top,
           NEW saved, NEW saved2,
           \A i \in 1..Len(s) - 1 : s[i] \in Transactional =>
              /\ saved2[s[i]] = saved[s[i]]
              /\ p2[s[i]] \cap Formats = p[s[i]] \cap Formats,
           Scoped(s, p, top, saved)
    PROVE  Scoped(SubSeq(s, 1, Len(s) - 1), p2,
                  IF s[Len(s)] \in Transactional THEN saved[s[Len(s)]] ELSE top,
                  saved2)
<1> DEFINE s2 == SubSeq(s, 1, Len(s) - 1)
           n == Len(s)
           l == s[n]
<1>1. /\ n \in Nat \ {0} /\ Len(s2) = n - 1
      /\ \A i \in 1..n - 1 : s2[i] = s[i]
  BY PopProperties
<1> HIDE DEF s2
<1>2. \A k \in 1..n : Below(s2, k) = Below(s, k)
  BY <1>1 DEF Below
<1>3. \A k \in 1..n : \A i \in Below(s, k) :
         s2[i] = s[i] /\ p2[s[i]] \cap Formats = p[s[i]] \cap Formats
  BY <1>1 DEF Below
<1>4. ASSUME NEW k \in 1..n, NEW record, Expected(s, p, k, record)
      PROVE  Expected(s2, p2, k, record)
  BY <1>2, <1>3, <1>4, ExpectedFrame
<1>5. ASSUME NEW j \in 1..n - 1, s2[j] \in Transactional
      PROVE  Expected(s2, p2, j, saved2[s2[j]])
  <2>1. s2[j] = s[j] /\ saved2[s[j]] = saved[s[j]] /\ j \in 1..n
    BY <1>1, <1>5
  <2>2. Expected(s, p, j, saved[s[j]])
    BY <1>5, <2>1 DEF Scoped
  <2> QED
    BY <1>4, <2>1, <2>2
<1>6. n \in 1..n /\ Len(s2) + 1 = n
  BY <1>1
<1>7. CASE l \in Transactional
  <2>1. Expected(s, p, n, saved[l])
    BY <1>6, <1>7 DEF Scoped
  <2>2. Expected(s2, p2, n, saved[l])
    BY <1>4, <1>6, <2>1
  <2> QED
    BY <1>1, <1>5, <1>6, <1>7, <2>2 DEF Scoped, s2
<1>8. CASE l \notin Transactional
  <2>1. Below(s, n + 1) = Below(s, n)
    BY <1>1, <1>8 DEF Below
  <2>2. Expected(s, p, n, top)
    BY <2>1 DEF Scoped, Expected
  <2>3. Expected(s2, p2, n, top)
    BY <1>4, <1>6, <2>2
  <2> QED
    BY <1>1, <1>5, <1>6, <1>8, <2>3 DEF Scoped, s2
<1> QED
  BY <1>7, <1>8

\* A step that touches neither the stacks nor the scopes.
LEMMA ScopeFrame ==
    ASSUME ScopeInv, UNCHANGED <<stack, scope, previous, promised>>
    PROVE  ScopeInv'
  BY DEF ScopeInv

LEMMA ScopeBegin ==
    ASSUME TypeOK, StackInv, Fresh, ScopeInv,
           NEW t \in Threads, NEW l \in Loads, Begin(t, l)
    PROVE  ScopeInv'
<1>1. /\ stack' = [stack EXCEPT ![t] = Append(stack[t], l)]
      /\ stage[l] \in {"idle", "failed"}
      /\ UNCHANGED promised
  BY DEF Begin, TypeOK, ghosts
<1>2. \A u \in Threads : \A i \in 1..Len(stack[u]) : stack[u][i] # l
  BY <1>1 DEF StackInv, InProgress
<1>3. /\ \A u \in Threads : u # t => stack'[u] = stack[u] /\ scope'[u] = scope[u]
      /\ \A m \in Loads : m # l => previous'[m] = previous[m]
      /\ stack'[t] = Append(stack[t], l)
  BY <1>1 DEF TypeOK, Begin
<1>4. \A u \in Threads : \A i \in 1..Len(stack[u]) :
         previous'[stack[u][i]] = previous[stack[u][i]]
  BY <1>2, <1>3 DEF TypeOK
<1>5. ASSUME NEW u \in Threads, u # t
      PROVE  Scoped(stack'[u], promised', scope'[u], previous')
  <2>1. Scoped(stack[u], promised, scope[u], previous)
    BY DEF ScopeInv
  <2>2. Scoped(stack[u], promised, scope[u], previous')
    BY <1>4, <2>1, ScopedFrame
  <2> QED
    BY <1>1, <1>3, <1>5, <2>2
<1>6. Scoped(stack'[t], promised', scope'[t], previous')
  <2>1. stack[t] \in Seq(Loads) /\ Scoped(stack[t], promised, scope[t], previous)
    BY DEF TypeOK, ScopeInv
  <2>2. l \in Transactional =>
           previous'[l] = scope[t] /\ promised[l] \cap Formats = {}
    BY <1>1 DEF Begin, TypeOK, Fresh
  <2>3. scope'[t] = IF l \in Transactional
                    THEN [con |-> l, formats |-> {}] ELSE scope[t]
    BY DEF Begin, Entered, TypeOK
  <2>4. Scoped(Append(stack[t], l), promised,
               IF l \in Transactional THEN [con |-> l, formats |-> {}]
                                      ELSE scope[t],
               previous')
    BY <1>2, <1>4, <2>1, <2>2, ScopedPush
  <2> QED
    BY <1>1, <1>3, <2>3, <2>4
<1> QED
  BY <1>5, <1>6 DEF ScopeInv

LEMMA ScopeFinish ==
    ASSUME TypeOK, StackInv, ScopeInv, NEW t \in Threads, NEW l \in Loads,
           NEW ok \in BOOLEAN, NEW commits \in BOOLEAN,
           Finish(t, l, ok, commits)
    PROVE  ScopeInv'
<1> DEFINE outer == SubSeq(stack[t], 1, Len(stack[t]) - 1)
<1>1. /\ stack[t] \in Seq(Loads) /\ stack[t] # <<>>
      /\ Len(stack[t]) \in Nat \ {0} /\ stack[t][Len(stack[t])] = l
  BY InnermostLast DEF Finish, Running
<1>2. /\ stack'[t] = outer
      /\ \A u \in Threads : u # t => stack'[u] = stack[u] /\ scope'[u] = scope[u]
      /\ \A m \in Loads : m # l => /\ previous'[m] = previous[m]
                                   /\ promised'[m] = promised[m]
      /\ scope'[t] = IF l \in Transactional THEN previous[l] ELSE scope[t]
  BY DEF Finish, Restored, TypeOK
<1>3. ASSUME NEW u \in Threads, NEW i \in 1..Len(stack[u]),
             u # t \/ i # Len(stack[t])
      PROVE  /\ previous'[stack[u][i]] = previous[stack[u][i]]
             /\ promised'[stack[u][i]] = promised[stack[u][i]]
  <2>1. stack[u][i] \in Loads
    BY DEF TypeOK
  <2>2. stack[u][i] # l
    BY <1>1, <1>3 DEF StackInv, Distinct
  <2> QED
    BY <1>2, <2>1, <2>2
<1>4. ASSUME NEW u \in Threads, u # t
      PROVE  Scoped(stack'[u], promised', scope'[u], previous')
  <2>1. Scoped(stack[u], promised, scope[u], previous)
    BY DEF ScopeInv
  <2>2. Scoped(stack[u], promised', scope[u], previous')
    BY <1>3, <1>4, <2>1, ScopedFrame
  <2> QED
    BY <1>2, <1>4, <2>2
<1>5. Scoped(stack'[t], promised', scope'[t], previous')
  <2>1. Scoped(stack[t], promised, scope[t], previous)
    BY DEF ScopeInv
  <2>2. \A i \in 1..Len(stack[t]) - 1 :
           /\ previous'[stack[t][i]] = previous[stack[t][i]]
           /\ promised'[stack[t][i]] = promised[stack[t][i]]
    BY <1>1, <1>3
  <2>3. Scoped(outer, promised',
               IF stack[t][Len(stack[t])] \in Transactional
               THEN previous[stack[t][Len(stack[t])]] ELSE scope[t],
               previous')
    BY <1>1, <2>1, <2>2, ScopedPop
  <2> QED
    BY <1>1, <1>2, <2>3
<1> QED
  BY <1>4, <1>5 DEF ScopeInv

\* What a registration is recorded as: in the scope, and as promised.
LEMMA RegisterPromises ==
    ASSUME TypeOK, NEW t \in Threads, NEW l \in Loads, Register(t, l)
    PROVE  /\ UNCHANGED <<stack, previous>>
           /\ \/ UNCHANGED <<scope, promised>>
              \/ \E e \in Entries :
                    /\ promised' = [promised EXCEPT ![l] = @ \cup {e}]
                    /\ scope' = FormatRecorded(t, l, e)
<1> DEFINE e == call[l][1]
<1>1. e \in Entries
  BY DEF Register, TypeOK
<1>2. PICK answer \in Answers(l, e) :
         /\ scope' = IF answer # "failed" THEN FormatRecorded(t, l, e) ELSE scope
         /\ promised' = [promised EXCEPT ![l] =
                           IF answer # "failed" THEN @ \cup {e} ELSE @]
  BY DEF Register
<1>3. UNCHANGED <<stack, previous>>
  BY DEF Register
<1> HIDE DEF e
<1>4. CASE answer = "failed"
  BY <1>2, <1>3, <1>4 DEF TypeOK
<1>5. CASE answer # "failed"
  BY <1>1, <1>2, <1>3, <1>5
<1> QED
  BY <1>4, <1>5

LEMMA ScopeRegister ==
    ASSUME TypeOK, StackInv, ScopeInv,
           NEW t \in Threads, NEW l \in Loads, Register(t, l)
    PROVE  ScopeInv'
<1>1. UNCHANGED <<stack, previous>>
  BY RegisterPromises
<1>2. CASE UNCHANGED <<scope, promised>>
  BY <1>1, <1>2, ScopeFrame
<1>3. ASSUME NEW e \in Entries,
             promised' = [promised EXCEPT ![l] = @ \cup {e}],
             scope' = FormatRecorded(t, l, e)
      PROVE  ScopeInv'
  <2>1. /\ promised'[l] = promised[l] \cup {e}
        /\ \A m \in Loads : m # l => promised'[m] = promised[m]
    BY <1>3 DEF TypeOK
  <2>2. /\ Innermost(t, l) /\ stack[t] \in Seq(Loads)
        /\ Len(stack[t]) \in Nat \ {0} /\ stack[t][Len(stack[t])] = l
    BY InnermostLast DEF Register
  <2>3. \A u \in Threads : \A i \in 1..Len(stack[u]) :
           /\ stack[u][i] \in Loads
           /\ stack[u][i] = l => u = t /\ i = Len(stack[t])
    BY <2>2 DEF StackInv, Distinct, TypeOK
  <2>4. \A u \in Threads : u # t => scope'[u] = scope[u]
    BY <1>3 DEF FormatRecorded, TypeOK
  <2>5. ASSUME NEW u \in Threads, u # t
        PROVE  Scoped(stack'[u], promised', scope'[u], previous')
    <3>1. \A i \in 1..Len(stack[u]) : promised'[stack[u][i]] = promised[stack[u][i]]
      BY <2>1, <2>3, <2>5
    <3>2. Scoped(stack[u], promised, scope[u], previous)
      BY DEF ScopeInv
    <3>3. Scoped(stack[u], promised', scope[u], previous)
      BY <3>1, <3>2, ScopedFrame
    <3> QED
      BY <1>1, <2>4, <2>5, <3>3
  <2>6. Scoped(stack[t], promised, scope[t], previous)
    BY DEF ScopeInv
  <2>7. CASE l \notin Transactional
    <3>1. scope' = scope
      BY <1>3, <2>7, NotInScope DEF FormatRecorded
    <3>2. \A i \in 1..Len(stack[t]) : stack[t][i] \in Transactional
             => promised'[stack[t][i]] = promised[stack[t][i]]
      BY <2>1, <2>3, <2>7
    <3>3. Scoped(stack[t], promised', scope[t], previous)
      BY <2>6, <3>2, ScopedFrame
    <3> QED
      BY <1>1, <2>5, <3>1, <3>3 DEF ScopeInv
  <2>8. CASE l \in Transactional
    <3> DEFINE s == stack[t]
               n == Len(s)
    <3>1. /\ InScope(t, l)
          /\ scope[t] = [con |-> l, formats |-> promised[l] \cap Formats]
      BY <2>2, <2>8, ScopeOfInnermost
    <3>2. scope'[t] = [con |-> l, formats |-> promised'[l] \cap Formats]
      <4>1. CASE e \in Formats
        <5>1. scope' = [scope EXCEPT ![t].formats = @ \cup {e}]
          BY <1>3, <3>1, <4>1 DEF FormatRecorded
        <5>2. scope'[t] = [scope[t] EXCEPT !.formats = @ \cup {e}]
          BY <5>1 DEF TypeOK
        <5>3. scope'[t] = [con |-> l, formats |-> (promised[l] \cap Formats) \cup {e}]
          BY <3>1, <5>2
        <5>4. (promised[l] \cap Formats) \cup {e} = promised'[l] \cap Formats
          BY <2>1, <4>1
        <5> QED
          BY <5>3, <5>4
      <4>2. CASE e \notin Formats
        BY <1>3, <2>1, <3>1, <4>2 DEF FormatRecorded, TypeOK
      <4> QED
        BY <4>1, <4>2
    <3>3. n \in Below(s, n + 1) /\ \A j \in Below(s, n + 1) : j <= n
      BY <2>2, <2>8 DEF Below
    <3>4. Expected(s, promised', n + 1, scope'[t])
      BY <2>2, <3>2, <3>3 DEF Expected
    <3>5. ASSUME NEW j \in 1..n, s[j] \in Transactional
          PROVE  Expected(s, promised', j, previous[s[j]])
      <4>1. Expected(s, promised, j, previous[s[j]])
        BY <2>6, <3>5 DEF Scoped
      <4>2. \A i \in Below(s, j) : i \in 1..n /\ i # n
        BY <2>2 DEF Below
      <4>3. \A i \in Below(s, j) : promised'[s[i]] = promised[s[i]]
        BY <2>1, <2>3, <4>2
      <4> QED
        BY <4>1, <4>3, ExpectedFrame
    <3>6. Scoped(stack'[t], promised', scope'[t], previous')
      BY <1>1, <3>4, <3>5 DEF Scoped
    <3> QED
      BY <2>5, <3>6 DEF ScopeInv
  <2> QED
    BY <2>7, <2>8
<1> QED
  BY <1>2, <1>3, RegisterPromises

LEMMA ScopeStep ==
    ASSUME TypeOK, StackInv, Fresh, ScopeInv, [Next]_vars
    PROVE  ScopeInv'
<1>1. ASSUME NEW t \in Threads, NEW l \in Loads,
             \/ Begin(t, l) \/ Register(t, l)
             \/ \E ok, commits \in BOOLEAN : Finish(t, l, ok, commits)
      PROVE  ScopeInv'
  BY <1>1, ScopeBegin, ScopeRegister, ScopeFinish
<1>2. ASSUME NEW t \in Threads, NEW l \in Loads,
             Refuse(t, l) \/ StatementFails(t, l)
      PROVE  ScopeInv'
  BY <1>2, ScopeFrame DEF Refuse, StatementFails, wrapVars, ghosts
<1>3. ASSUME NEW t \in Threads, NEW l \in Loads, NEW e \in Entries,
             \/ \E via \in {"facade", "raw"} :
                   CheckListed(t, l, e, via) \/ CheckNothing(t, l, e, via)
             \/ ProbeApart(t, l, e) \/ ProbeOnCon(t, l, e)
             \/ CheckSetting(t, l, e)
      PROVE  UNCHANGED <<stack, scope, previous, promised>>
  BY <1>3 DEF CheckListed, CheckNothing, ProbeApart, ProbeOnCon, CheckSetting,
              ghosts
<1>4. CASE HostWrites
  BY <1>4, ScopeFrame DEF HostWrites, wrapVars, ghosts
<1>5. CASE UNCHANGED vars
  BY <1>5, ScopeFrame DEF vars, wrapVars, ghosts
<1> QED
  BY <1>1, <1>2, <1>3, <1>4, <1>5, ScopeFrame DEF Next

\* The probe for a taken format runs apart from any transaction: each step.
LEMMA NoSelfAbortStep ==
    ASSUME TypeOK, StackInv, ScopeInv, NoSelfAbort, [Next]_vars
    PROVE  NoSelfAbort'
<1> USE DEF NoSelfAbort
<1>1. ASSUME NEW s \in Seq(Loads)
      PROVE  \A a \in AfterNested(s) : \A l \in Loads : a[l] # "probe"
  <2>1. s # <<>> => s[Len(s)] \in Loads
    OBVIOUS
  <2> QED
    BY <2>1 DEF AfterNested, AfterFailure, TypeOK
<1>2. ASSUME NEW t \in Threads, NEW l \in Loads, Refuse(t, l)
      PROVE  NoSelfAbort'
  <2>1. stack[t] \in Seq(Loads)
    BY DEF TypeOK
  <2> QED
    BY <1>1, <1>2, <2>1 DEF Refuse
<1>3. ASSUME NEW t \in Threads, NEW l \in Loads,
             NEW ok \in BOOLEAN, NEW commits \in BOOLEAN,
             Finish(t, l, ok, commits)
      PROVE  NoSelfAbort'
  <2> DEFINE outer == SubSeq(stack[t], 1, Len(stack[t]) - 1)
  <2>1. outer \in Seq(Loads)
    BY <1>3, InnermostLast, PopProperties DEF Finish, Running
  <2>2. PICK a \in IF Succeeds(l, ok, commits) THEN {aborted}
                   ELSE AfterNested(outer) :
           aborted' = [a EXCEPT ![l] = "no"]
    BY <1>3 DEF Finish
  <2>3. a \in [Loads -> {"no", "closure", "probe"}]
    BY <2>1, <2>2, AfterNestedType DEF TypeOK
  <2>4. \A m \in Loads : a[m] # "probe"
    BY <1>1, <2>1, <2>2
  <2> QED
    BY <2>2, <2>3, <2>4
<1>4. ASSUME NEW t \in Threads, NEW l \in Loads,
             StatementFails(t, l) \/ Register(t, l)
      PROVE  NoSelfAbort'
  <2>1. PICK a \in {aborted[l]} \cup AfterFailure(l, "closure") :
           aborted' = [aborted EXCEPT ![l] = a]
    BY <1>4 DEF StatementFails, Register
  <2>2. a # "probe"
    BY <2>1 DEF AfterFailure
  <2> QED
    BY <2>1, <2>2 DEF TypeOK
<1>5. ASSUME NEW t \in Threads, NEW l \in Loads, NEW e \in Entries,
             ProbeOnCon(t, l, e)
      PROVE  NoSelfAbort'
  <2>1. l \notin Transactional
    BY <1>5, ScopeOfInnermost DEF ProbeOnCon, Running
  <2> QED
    BY <1>5, <2>1 DEF ProbeOnCon, TypeOK
<1>6. ASSUME NEW t \in Threads, NEW l \in Loads, NEW e \in Entries,
             \/ \E via \in {"facade", "raw"} :
                   CheckListed(t, l, e, via) \/ CheckNothing(t, l, e, via)
             \/ ProbeApart(t, l, e) \/ CheckSetting(t, l, e)
      PROVE  NoSelfAbort'
  BY <1>6 DEF CheckListed, CheckNothing, ProbeApart, CheckSetting, txnVars
<1>7. ASSUME NEW t \in Threads, NEW l \in Loads, Begin(t, l)
      PROVE  NoSelfAbort'
  BY <1>7 DEF Begin
<1>8. CASE HostWrites
  BY <1>8 DEF HostWrites, txnVars
<1>9. CASE UNCHANGED vars
  BY <1>9 DEF vars, txnVars
<1> HIDE DEF NoSelfAbort
<1> QED
  BY <1>2, <1>3, <1>4, <1>5, <1>6, <1>7, <1>8, <1>9 DEF Next

THEOREM ScopeInvariant == Spec => [](TypeOK /\ StackInv /\ Fresh /\ ScopeInv)
<1>1. Init => Fresh
  BY DEF Init, Fresh
<1>2. Init => ScopeInv
  <2> SUFFICES ASSUME Init, NEW t \in Threads
               PROVE  Scoped(stack[t], promised, scope[t], previous)
    BY DEF ScopeInv
  <2>1. stack[t] = << >> /\ scope[t] = None /\ Len(<< >>) = 0
    BY DEF Init
  <2>2. Below(<< >>, 1) = {}
    BY <2>1 DEF Below
  <2>3. Expected(<< >>, promised, 1, None)
    BY <2>2 DEF Expected
  <2> QED
    BY <2>1, <2>3 DEF Scoped
<1> QED
  BY <1>1, <1>2, StackInvariant, FreshStep, ScopeStep, PTL DEF Spec

\* SCOPE names the innermost transaction open on its thread, with exactly the
\* formats registered in it, however LOADs nest and end.
THEOREM ScopeCorrect == Spec => []ScopeMatchesStack
<1>1. TypeOK /\ ScopeInv => ScopeMatchesStack
  <2> SUFFICES ASSUME TypeOK, ScopeInv, NEW t \in Threads
               PROVE  Expected(stack[t], promised, Len(stack[t]) + 1, scope[t])
                         => ScopeMatchesStack!(t)
    BY DEF ScopeInv, Scoped, ScopeMatchesStack
  <2>1. Len(stack[t]) \in Nat
    BY DEF TypeOK
  <2>2. Below(stack[t], Len(stack[t]) + 1)
          = {i \in 1..Len(stack[t]) : stack[t][i] \in Transactional}
    BY <2>1 DEF Below
  <2> QED
    BY <2>2 DEF Expected
<1> QED
  BY <1>1, ScopeInvariant, PTL

\* The check for a taken copy format never aborts the transaction it is for.
THEOREM NoSelfAbortCorrect == Spec => []NoSelfAbort
<1>1. Init => NoSelfAbort
  BY DEF Init, NoSelfAbort
<1> QED
  BY <1>1, ScopeInvariant, NoSelfAbortStep, PTL DEF Spec

-----------------------------------------------------------------------------
(* Names.                                                                  *)

\* What `l`'s transaction sees, but for settings.
Seen(l, e) == base[l][e] # None \/ e \in local[l]

\* What transactions have written is theirs alone and is no setting; a name that
\* is committed under is a macro's, or is noted as clobbered.
Writes ==
    /\ \A l \in Loads : \A e \in local[l] :
          /\ e \notin Settings
          /\ e \in promised[l]
          /\ catalog[e] # None => e \in Macros \/ <<l, e>> \in clobbered
    /\ \A l, m \in Loads : l # m => local[l] \cap local[m] = {}
    /\ \A l \in Loads, e \in Entries : base[l][e] # None => catalog[e] # None

\* The names a check looks for.
Checkable == ((Scalars \cup Tables) \ Unrendered) \cup Formats

\* The Connection knows every name its transaction sees of a kind it has listed,
\* but for those registered past it.
Knows ==
    \A l \in Transactional : \A e \in (Scalars \cup Tables) \ Unrendered :
        KindOf(e) \in listed[l] /\ Seen(l, e) => e \in listing[l] \cup raw[l]

\* A name that was checked is still not taken when DuckDB is called.
Checked ==
    \A l \in Transactional :
        call[l] # None /\ call[l][1] \in Checkable /\ Seen(l, call[l][1])
            => call[l][1] \in raw[l]

NameInv == Writes /\ Knows /\ Checked /\ NoSilentClobber

\* What a LOAD was promised is written and not committed, or in the catalog, as
\* its own unless a write that stays has taken the name.
Stays(m) == m \notin Transactional \/ stage[m] = "done"

Kept(l, e) ==
    \/ e \in local[l]
    \/ /\ catalog[e] # None
       /\ \/ catalog[e] = l
          \/ e \in Macros
          \/ \E m \in Loads : <<m, e>> \in clobbered /\ (Stays(m) \/ m = l)

PromiseInv == \A l \in Loads : \A e \in promised[l] : Kept(l, e)

\* A transaction sees what was committed when it began, and its own writes.
LEMMA VisibleSeen ==
    ASSUME NEW l \in Transactional, NEW e \in Entries, e \notin Settings
    PROVE  e \in Visible(l) <=> Seen(l, e)
  BY DEF Visible, Seen

\* Names of different kinds do not meet.
LEMMA Kinds ==
    /\ Scalars \cup Tables \subseteq Entries /\ Formats \subseteq Entries
    /\ Checkable \subseteq Entries \ Settings
    /\ Checkable \cap (Unrendered \cup Aggregates \cup Macros) = {}
    /\ \A e \in (Scalars \cup Tables) \ Unrendered :
          e \in Checkable /\ e \notin Settings /\ e \in OfKind(KindOf(e))
    /\ Transactional \subseteq Loads
    /\ None \notin Loads /\ Host # None
    /\ None \notin Entries \X {"facade", "raw"}
<1>1. /\ Scalars \cup Tables \subseteq Entries /\ Formats \subseteq Entries
      /\ Transactional \subseteq Loads
      /\ None \notin Loads /\ Host # None
      /\ None \notin Entries \X {"facade", "raw"}
  BY ExtensionLoadAssumption DEF Entries
<1>2. Checkable \subseteq Entries \ Settings
  BY ExtensionLoadAssumption DEF Checkable, Entries
<1>3. Checkable \cap (Unrendered \cup Aggregates \cup Macros) = {}
  BY ExtensionLoadAssumption DEF Checkable
<1>4. ASSUME NEW e \in (Scalars \cup Tables) \ Unrendered
      PROVE  e \in Checkable /\ e \notin Settings /\ e \in OfKind(KindOf(e))
  <2>1. e \in Checkable
    BY DEF Checkable
  <2>2. e \in OfKind(KindOf(e))
    BY DEF OfKind, KindOf
  <2> QED
    BY <1>2, <2>1, <2>2
<1> QED
  BY <1>1, <1>2, <1>3, <1>4

\* A registration, from its answer.
Answering(l, e, via, answer) ==
    /\ call[l] = <<e, via>> /\ call[l] # None /\ stage[l] = "registering"
    /\ call' = [call EXCEPT ![l] = None]
    /\ UNCHANGED <<stage, base, listed>>
    /\ \/ /\ answer = "failed"
          /\ UNCHANGED <<local, catalog, listing, promised, raw, clobbered, unseen>>
       \/ /\ answer # "failed"
          /\ local' = [local EXCEPT ![l] =
                IF answer \in {"created", "replaced"} /\ Buffers(l, e)
                THEN @ \cup {e} ELSE @]
          /\ catalog' = [catalog EXCEPT ![e] =
                IF answer \in {"created", "replaced"} /\ ~Buffers(l, e)
                THEN l ELSE @]
          /\ listing' = Recorded(l, e, via)
          /\ promised' = [promised EXCEPT ![l] = @ \cup {e}]
          /\ raw' = [raw EXCEPT ![l] =
                IF via = "raw" /\ e \in Scalars \cup Tables THEN @ \cup {e} ELSE @]
          /\ clobbered' =
                IF answer \in {"replaced", "dropped"} /\ e \notin Macros
                THEN clobbered \cup {<<l, e>>} ELSE clobbered
          /\ unseen' =
                IF answer \in {"replaced", "dropped"} /\ e \notin Macros /\ Late(l, e)
                THEN unseen \cup {<<l, e>>} ELSE unseen

LEMMA RegisterAnswered ==
    ASSUME TypeOK, StackInv, NEW t \in Threads, NEW l \in Loads, Register(t, l)
    PROVE  \E e \in Entries, via \in {"facade", "raw"} : \E answer \in Answers(l, e) :
              Answering(l, e, via, answer)
<1> DEFINE e == call[l][1]
           via == call[l][2]
<1>1. /\ call[l] # None /\ call[l] = <<e, via>>
      /\ e \in Entries /\ via \in {"facade", "raw"}
  BY DEF Register, TypeOK
<1>2. stage[l] = "registering"
  <2>1. Innermost(t, l)
    BY DEF Register
  <2> QED
    BY <2>1, InnermostLast DEF StackInv, InProgress
<1>3. PICK answer \in Answers(l, e) :
         /\ call' = [call EXCEPT ![l] = None]
         /\ local' = [local EXCEPT ![l] =
               IF answer \in {"created", "replaced"} /\ Buffers(l, e)
               THEN @ \cup {e} ELSE @]
         /\ catalog' = [catalog EXCEPT ![e] =
               IF answer \in {"created", "replaced"} /\ ~Buffers(l, e)
               THEN l ELSE @]
         /\ listing' = IF answer # "failed" THEN Recorded(l, e, via) ELSE listing
         /\ promised' = [promised EXCEPT ![l] = IF answer # "failed" THEN @ \cup {e} ELSE @]
         /\ raw' = [raw EXCEPT ![l] =
               IF answer # "failed" /\ via = "raw" /\ e \in Scalars \cup Tables
               THEN @ \cup {e} ELSE @]
         /\ clobbered' =
               IF answer \in {"replaced", "dropped"} /\ e \notin Macros
               THEN clobbered \cup {<<l, e>>} ELSE clobbered
         /\ unseen' =
               IF answer \in {"replaced", "dropped"} /\ e \notin Macros /\ Late(l, e)
               THEN unseen \cup {<<l, e>>} ELSE unseen
  BY DEF Register
<1>4. UNCHANGED <<stage, base, listed>>
  BY DEF Register
<1> HIDE DEF e, via
<1>5. CASE answer = "failed"
  <2>1. UNCHANGED <<local, catalog, listing, promised, raw, clobbered, unseen>>
    BY <1>1, <1>3, <1>5 DEF TypeOK
  <2>2. Answering(l, e, via, answer)
    BY <1>1, <1>2, <1>3, <1>4, <1>5, <2>1 DEF Answering
  <2> QED
    BY <1>1, <2>2
<1>6. CASE answer # "failed"
  <2>1. /\ listing' = Recorded(l, e, via)
        /\ promised' = [promised EXCEPT ![l] = @ \cup {e}]
        /\ raw' = [raw EXCEPT ![l] =
              IF via = "raw" /\ e \in Scalars \cup Tables THEN @ \cup {e} ELSE @]
    BY <1>3, <1>6
  <2>2. Answering(l, e, via, answer)
    BY <1>1, <1>2, <1>3, <1>4, <1>6, <2>1 DEF Answering
  <2> QED
    BY <1>1, <2>2
<1> QED
  BY <1>5, <1>6

\* What DuckDB's answers say of a name.
LEMMA Answered ==
    ASSUME NEW l \in Loads, NEW e \in Entries, NEW answer \in Answers(l, e),
           answer # "failed"
    PROVE  /\ \A m \in Loads \ {l} : e \notin local[m]
           /\ answer = "created" <=> e \notin Visible(l) /\ ~Late(l, e)
           /\ answer # "created" => e \notin Aggregates \cup Settings
           /\ answer = "dropped" => e \notin Macros
           /\ answer \in {"created", "replaced", "dropped"}
<1>1. \A m \in Loads \ {l} : e \notin local[m]
  BY DEF Answers
<1>2. Macros \cap (Aggregates \cup Settings) = {}
  BY ExtensionLoadAssumption
<1>3. /\ Taken(e) \in {"failed", "replaced", "dropped"}
      /\ Taken(e) # "failed" => e \notin Aggregates \cup Settings
      /\ Taken(e) = "dropped" => e \notin Macros
  BY <1>2 DEF Taken
<1>4. CASE e \in Visible(l) \/ Late(l, e)
  <2>1. answer = Taken(e)
    BY <1>4 DEF Answers
  <2> QED
    BY <1>1, <1>3, <1>4, <2>1
<1>5. CASE e \notin Visible(l) /\ ~Late(l, e)
  <2>1. answer = "created"
    BY <1>5 DEF Answers
  <2> QED
    BY <1>1, <1>5, <2>1
<1> QED
  BY <1>4, <1>5

\* What it changes, entry by entry.
Registered(l, e, answer) ==
    /\ \A m \in Loads : m # l =>
          /\ local'[m] = local[m] /\ listing'[m] = listing[m]
          /\ promised'[m] = promised[m] /\ raw'[m] = raw[m]
          /\ call'[m] = call[m]
    /\ local'[l] = IF answer \in {"created", "replaced"} /\ Buffers(l, e)
                   THEN local[l] \cup {e} ELSE local[l]
    /\ \A x \in Entries : x # e => catalog'[x] = catalog[x]
    /\ catalog'[e] = IF answer \in {"created", "replaced"} /\ ~Buffers(l, e)
                     THEN l ELSE catalog[e]
    /\ promised'[l] = promised[l] \cup {e}
    /\ raw[l] \subseteq raw'[l] /\ listing[l] \subseteq listing'[l]
    /\ e \in (Scalars \cup Tables) \ Unrendered /\ KindOf(e) \in listed[l]
          => e \in listing'[l] \cup raw'[l]
    /\ clobbered \subseteq clobbered'
    /\ answer \in {"replaced", "dropped"} /\ e \notin Macros => <<l, e>> \in clobbered'
    /\ unseen \subseteq unseen'
    /\ \A m \in Loads, x \in Entries : <<m, x>> \in clobbered' \ unseen' =>
          \/ <<m, x>> \in clobbered \ unseen
          \/ /\ m = l /\ x = e /\ ~Late(l, e)
             /\ answer \in {"replaced", "dropped"} /\ e \notin Macros

LEMMA RegisterEffect ==
    ASSUME TypeOK, StackInv, NEW l \in Loads, NEW e \in Entries,
           NEW via \in {"facade", "raw"}, NEW answer \in Answers(l, e),
           answer # "failed", Answering(l, e, via, answer)
    PROVE  Registered(l, e, answer)
<1>1. /\ listing' = Recorded(l, e, via)
      /\ raw' = [raw EXCEPT ![l] =
            IF via = "raw" /\ e \in Scalars \cup Tables THEN @ \cup {e} ELSE @]
  BY DEF Answering
<1>2. \A m \in Loads : m # l => listing'[m] = listing[m]
  BY <1>1 DEF Recorded, TypeOK
<1>3. listing[l] \subseteq listing'[l]
  BY <1>1 DEF Recorded, TypeOK
<1>4. raw'[l] = IF via = "raw" /\ e \in Scalars \cup Tables THEN raw[l] \cup {e} ELSE raw[l]
  BY <1>1 DEF TypeOK
<1>5. e \in (Scalars \cup Tables) \ Unrendered /\ KindOf(e) \in listed[l]
         => e \in listing'[l] \cup raw'[l]
  BY <1>1, <1>4 DEF Recorded, TypeOK
<1> QED
  <2>1. /\ \A m \in Loads : m # l =>
              /\ local'[m] = local[m] /\ promised'[m] = promised[m]
              /\ raw'[m] = raw[m] /\ call'[m] = call[m]
        /\ local'[l] = IF answer \in {"created", "replaced"} /\ Buffers(l, e)
                       THEN local[l] \cup {e} ELSE local[l]
        /\ promised'[l] = promised[l] \cup {e}
    BY DEF Answering, TypeOK
  <2>2. /\ \A x \in Entries : x # e => catalog'[x] = catalog[x]
        /\ catalog'[e] = IF answer \in {"created", "replaced"} /\ ~Buffers(l, e)
                         THEN l ELSE catalog[e]
    BY DEF Answering, TypeOK
  <2>3. clobbered' = IF answer \in {"replaced", "dropped"} /\ e \notin Macros
                     THEN clobbered \cup {<<l, e>>} ELSE clobbered
    BY DEF Answering
  <2>4. \A m \in Loads, x \in Entries : <<m, x>> = <<l, e>> => m = l /\ x = e
    OBVIOUS
  <2>5. unseen' = IF answer \in {"replaced", "dropped"} /\ e \notin Macros /\ Late(l, e)
                  THEN unseen \cup {<<l, e>>} ELSE unseen
    BY DEF Answering
  <2>6. ASSUME NEW m \in Loads, NEW x \in Entries, <<m, x>> \in clobbered' \ unseen'
        PROVE  \/ <<m, x>> \in clobbered \ unseen
               \/ /\ m = l /\ x = e /\ ~Late(l, e)
                  /\ answer \in {"replaced", "dropped"} /\ e \notin Macros
    BY <2>3, <2>4, <2>5, <2>6
  <2> QED
    BY <1>2, <1>3, <1>4, <1>5, <2>1, <2>2, <2>3, <2>5, <2>6 DEF Registered

LEMMA NameRegister ==
    ASSUME TypeOK, StackInv, NameInv, NEW t \in Threads, NEW l \in Loads, Register(t, l)
    PROVE  NameInv'
<1> USE DEF NameInv
<1>1. PICK e \in Entries, via \in {"facade", "raw"} : \E answer \in Answers(l, e) :
         Answering(l, e, via, answer)
  BY RegisterAnswered
<1>2. PICK answer \in Answers(l, e) : Answering(l, e, via, answer)
  BY <1>1
<1>3. /\ call[l] = <<e, via>> /\ call[l] # None /\ call'[l] = None
      /\ \A m \in Loads : m # l => call'[m] = call[m]
      /\ UNCHANGED <<base, listed>>
  BY <1>2 DEF Answering, TypeOK
<1>4. CASE answer = "failed"
  <2>1. UNCHANGED <<local, catalog, listing, promised, raw, clobbered, unseen>>
    BY <1>2, <1>4 DEF Answering
  <2>2. Writes' /\ Knows' /\ NoSilentClobber'
    BY <1>3, <2>1 DEF Writes, Knows, Seen, NoSilentClobber
  <2>3. Checked'
    BY <1>3, <2>1, Kinds DEF Checked, Seen
  <2> QED
    BY <2>2, <2>3
<1>5. CASE answer # "failed"
  <2>1. /\ \A m \in Loads \ {l} : e \notin local[m]
        /\ answer = "created" <=> e \notin Visible(l) /\ ~Late(l, e)
        /\ answer # "created" => e \notin Aggregates \cup Settings
        /\ answer \in {"created", "replaced", "dropped"}
    BY <1>5, Answered
  <2>2. /\ \A m \in Loads : m # l =>
              /\ local'[m] = local[m] /\ listing'[m] = listing[m]
              /\ promised'[m] = promised[m] /\ raw'[m] = raw[m]
        /\ local'[l] = IF answer \in {"created", "replaced"} /\ Buffers(l, e)
                       THEN local[l] \cup {e} ELSE local[l]
        /\ \A x \in Entries : x # e => catalog'[x] = catalog[x]
        /\ catalog'[e] = IF answer \in {"created", "replaced"} /\ ~Buffers(l, e)
                         THEN l ELSE catalog[e]
        /\ promised'[l] = promised[l] \cup {e}
        /\ raw[l] \subseteq raw'[l] /\ listing[l] \subseteq listing'[l]
        /\ e \in (Scalars \cup Tables) \ Unrendered /\ KindOf(e) \in listed[l]
              => e \in listing'[l] \cup raw'[l]
        /\ clobbered \subseteq clobbered'
        /\ answer \in {"replaced", "dropped"} /\ e \notin Macros => <<l, e>> \in clobbered'
        /\ \A m \in Loads, x \in Entries : <<m, x>> \in clobbered' \ unseen' =>
              \/ <<m, x>> \in clobbered \ unseen
              \/ /\ m = l /\ x = e /\ ~Late(l, e)
                 /\ answer \in {"replaced", "dropped"} /\ e \notin Macros
    <3>1. Registered(l, e, answer)
      BY <1>2, <1>5, RegisterEffect
    <3> QED
      BY <3>1 DEF Registered
  <2>3. \A m \in Loads : \A x \in local'[m] :
           \/ x \in local[m] /\ x \in Entries /\ catalog'[x] = catalog[x] /\ x \notin Settings
           \/ m = l /\ x = e /\ Buffers(l, e) /\ answer \in {"created", "replaced"}
    <3>1. \A m \in Loads : \A x \in local[m] : x \in Entries /\ x \notin Settings
      BY DEF TypeOK, Writes
    <3>2. ASSUME NEW m \in Loads, NEW x \in local[m]
          PROVE  catalog'[x] = catalog[x]
      <4>1. CASE x # e
        BY <2>2, <3>1, <4>1
      <4>2. CASE x = e
        <5>1. m = l
          BY <2>1, <4>2
        <5>2. Buffers(l, e)
          BY <3>1, <4>2, <5>1 DEF Buffers, StackInv, Uncommitted
        <5> QED
          BY <2>2, <4>2, <5>2
      <4> QED
        BY <4>1, <4>2
    <3> QED
      BY <2>2, <3>1, <3>2
  <2>4. e \in local'[l] /\ e \notin local[l] => Buffers(l, e) /\ answer \in {"created", "replaced"}
    BY <2>2
  <2>5. Writes'
    <3>1. ASSUME NEW m \in Loads, NEW x \in local'[m]
          PROVE  /\ x \notin Settings
                 /\ x \in promised'[m]
                 /\ catalog'[x] # None => x \in Macros \/ <<m, x>> \in clobbered'
      <4>1. CASE x \in local[m] /\ catalog'[x] = catalog[x]
        BY <2>2, <4>1 DEF Writes
      <4>2. CASE m = l /\ x = e /\ Buffers(l, e) /\ answer \in {"created", "replaced"}
        <5>1. catalog'[e] = catalog[e] /\ e \notin Settings
          BY <2>2, <4>2 DEF Buffers
        <5>2. catalog[e] # None => answer = "replaced"
          <6>1. catalog[e] # None => Late(l, e) \/ e \in Visible(l)
            BY <4>2 DEF Buffers, Late, Visible
          <6> QED
            BY <2>1, <4>2, <6>1
        <5> QED
          BY <2>2, <4>2, <5>1, <5>2
      <4> QED
        BY <2>3, <4>1, <4>2
    <3>2. ASSUME NEW m \in Loads, NEW n \in Loads, m # n
          PROVE  local'[m] \cap local'[n] = {}
      BY <2>1, <2>2, <3>2 DEF Writes
    <3>3. ASSUME NEW m \in Loads, NEW x \in Entries, base'[m][x] # None
          PROVE  catalog'[x] # None
      BY <1>3, <2>2, <3>3, Kinds DEF Writes
    <3> QED
      BY <3>1, <3>2, <3>3 DEF Writes
  <2>6. \A m \in Transactional, x \in Entries :
           /\ Seen(m, x)' => Seen(m, x) \/ (m = l /\ x = e)
           /\ raw[m] \subseteq raw'[m] /\ listing[m] \subseteq listing'[m]
    <3>1. ASSUME NEW m \in Transactional, NEW x \in Entries, Seen(m, x)'
          PROVE  Seen(m, x) \/ (m = l /\ x = e)
      <4>1. base'[m][x] = base[m][x]
        BY <1>3
      <4>2. x \in local'[m] => x \in local[m] \/ (m = l /\ x = e)
        <5>1. m \in Loads
          BY Kinds
        <5> QED
          BY <2>3, <5>1
      <4>3. base'[m][x] # None \/ x \in local'[m]
        BY <3>1 DEF Seen
      <4>4. CASE base'[m][x] # None
        BY <4>1, <4>4 DEF Seen
      <4>5. CASE x \in local'[m]
        BY <4>2, <4>5 DEF Seen
      <4> QED
        BY <4>3, <4>4, <4>5
    <3>2. ASSUME NEW m \in Transactional
          PROVE  raw[m] \subseteq raw'[m] /\ listing[m] \subseteq listing'[m]
      BY <2>2, Kinds
    <3> QED
      BY <3>1, <3>2
  <2>7. Knows'
    BY <1>3, <2>2, <2>6, Kinds DEF Knows
  <2>8. Checked'
    BY <1>3, <2>6, Kinds DEF Checked, TypeOK
  <2>9. NoSilentClobber'
    <3>1. ASSUME NEW m \in Transactional, NEW x \in Entries,
                 <<m, x>> \in clobbered' \ unseen'
          PROVE  x \in Unrendered \/ x \in raw'[m]
      <4>1. CASE <<m, x>> \in clobbered \ unseen
        BY <2>6, <4>1 DEF NoSilentClobber
      <4>2. CASE m = l /\ x = e /\ ~Late(l, e) /\ answer \in {"replaced", "dropped"} /\ e \notin Macros
        <5>1. e \in Visible(l) /\ e \notin Aggregates \cup Settings
          BY <2>1, <4>2
        <5>2. Seen(l, e)
          BY <4>2, <5>1, VisibleSeen
        <5>3. e \in Unrendered \/ e \in Checkable
          BY <4>2, <5>1 DEF Checkable, Entries
        <5>4. call[l][1] = e
          BY <1>3
        <5>5. e \in Checkable => e \in raw[l]
          BY <1>3, <4>2, <5>2, <5>4 DEF Checked
        <5> QED
          BY <2>6, <4>2, <5>3, <5>5
      <4> QED
        BY <2>2, <3>1, <4>1, <4>2, Kinds
    <3> QED
      BY <3>1 DEF NoSilentClobber
  <2> QED
    BY <2>5, <2>7, <2>8, <2>9
<1> QED
  BY <1>4, <1>5

\* A step that leaves all of it alone.
LEMMA NameFrame ==
    ASSUME NameInv,
           UNCHANGED <<catalog, base, local, call, listed, listing, promised,
                       raw, clobbered, unseen>>
    PROVE  NameInv'
  BY DEF NameInv, Writes, Knows, Checked, NoSilentClobber, Seen

\* A check of a name leaves a LOAD knowing what it knew, and calls DuckDB only
\* for a name its transaction does not see, if it was one it could look for.
LEMMA NameCheck ==
    ASSUME TypeOK, NameInv, NEW l \in Loads,
           UNCHANGED <<catalog, base, local, promised, raw, clobbered, unseen>>,
           \A m \in Loads : m # l =>
              call'[m] = call[m] /\ listed'[m] = listed[m] /\ listing'[m] = listing[m],
           l \in Transactional =>
              /\ \A e \in (Scalars \cup Tables) \ Unrendered :
                    KindOf(e) \in listed'[l] /\ Seen(l, e) => e \in listing'[l] \cup raw[l]
              /\ call'[l] # None /\ call'[l][1] \in Checkable /\ Seen(l, call'[l][1])
                    => call'[l][1] \in raw[l]
    PROVE  NameInv'
<1>1. Writes' /\ NoSilentClobber'
  BY DEF NameInv, Writes, NoSilentClobber
<1>2. \A m \in Loads, e \in Entries : Seen(m, e)' <=> Seen(m, e)
  BY DEF Seen
<1>3. (Scalars \cup Tables) \ Unrendered \subseteq Entries
  BY DEF Entries
<1>4. Knows'
  BY <1>2, <1>3, Kinds DEF NameInv, Knows
<1>5. Checked'
  BY <1>2, Kinds DEF NameInv, Checked
<1> QED
  BY <1>1, <1>4, <1>5 DEF NameInv

LEMMA NameBegin ==
    ASSUME TypeOK, StackInv, Fresh, NameInv,
           NEW t \in Threads, NEW l \in Loads, Begin(t, l)
    PROVE  NameInv'
<1>1. /\ UNCHANGED <<catalog, local, call, listed, listing, promised, raw, clobbered,
                    unseen>>
      /\ \A m \in Loads : m # l => base'[m] = base[m]
      /\ base'[l] = base[l] \/ base'[l] = catalog
      /\ local[l] = {} /\ listed[l] = {} /\ call[l] = None
  BY DEF Begin, ghosts, TypeOK, StackInv, Uncommitted, Fresh
<1>2. Writes'
  BY <1>1 DEF NameInv, Writes
<1>3. \A m \in Loads, e \in Entries : m # l => (Seen(m, e)' <=> Seen(m, e))
  BY <1>1 DEF Seen
<1>4. (Scalars \cup Tables) \ Unrendered \subseteq Entries
  BY DEF Entries
<1>5. Knows'
  BY <1>1, <1>3, <1>4, Kinds DEF NameInv, Knows
<1>6. Checked'
  BY <1>1, <1>3, Kinds DEF NameInv, Checked
<1>7. NoSilentClobber'
  BY <1>1 DEF NameInv, NoSilentClobber
<1> QED
  BY <1>2, <1>5, <1>6, <1>7 DEF NameInv

LEMMA NameFinish ==
    ASSUME TypeOK, StackInv, NameInv, NEW t \in Threads, NEW l \in Loads,
           NEW ok \in BOOLEAN, NEW commits \in BOOLEAN, Finish(t, l, ok, commits)
    PROVE  NameInv'
<1>1. /\ call[l] = None /\ UNCHANGED call
      /\ base' = [base EXCEPT ![l] = [e \in Entries |-> None]]
      /\ local' = [local EXCEPT ![l] = {}]
      /\ listed' = [listed EXCEPT ![l] = {}]
      /\ \A m \in Loads : m # l =>
            /\ promised'[m] = promised[m] /\ raw'[m] = raw[m]
            /\ listing'[m] = listing[m]
  BY DEF Finish, Running, TypeOK
<1>2. \/ UNCHANGED <<clobbered, raw>>
      \/ clobbered' = clobbered \ ({l} \X Entries) /\ l \in Transactional
  <2>1. CASE ~Succeeds(l, ok, commits) /\ l \in Transactional
    BY <2>1 DEF Finish
  <2>2. CASE ~(~Succeeds(l, ok, commits) /\ l \in Transactional)
    BY <2>2 DEF Finish, TypeOK
  <2> QED
    BY <2>1, <2>2
<1>3. \A m \in Loads, e \in Entries :
         /\ <<m, e>> \in clobbered' => <<m, e>> \in clobbered
         /\ m # l /\ <<m, e>> \in clobbered => <<m, e>> \in clobbered'
         /\ <<m, e>> \in clobbered' \ unseen' => <<m, e>> \in clobbered \ unseen
  <2>1. unseen' = unseen \cap clobbered'
    BY DEF Finish
  <2> QED
    BY <1>2, <2>1
<1>4. \A e \in Entries : catalog'[e] = catalog[e] \/ (e \in local[l] /\ catalog'[e] = l)
  BY FinishInstalls
<1>5. \A m \in Loads : m # l => base'[m] = base[m] /\ local'[m] = local[m]
  BY <1>1 DEF TypeOK
<1>6. /\ \A e \in Entries : base'[l][e] = None
      /\ local'[l] = {} /\ listed'[l] = {} /\ call'[l] = None
  BY <1>1 DEF TypeOK
<1>7. Writes'
  <2>1. ASSUME NEW m \in Loads, NEW x \in local'[m]
        PROVE  /\ x \notin Settings
               /\ x \in promised'[m]
               /\ catalog'[x] # None => x \in Macros \/ <<m, x>> \in clobbered'
    <3>1. m # l /\ x \in local[m] /\ x \in Entries
      BY <1>5, <1>6 DEF TypeOK
    <3>2. x \notin local[l]
      BY <3>1 DEF NameInv, Writes
    <3>3. catalog'[x] = catalog[x]
      BY <1>4, <3>1, <3>2
    <3> QED
      BY <1>1, <1>3, <1>5, <3>1, <3>3 DEF NameInv, Writes
  <2>2. ASSUME NEW m \in Loads, NEW n \in Loads, m # n
        PROVE  local'[m] \cap local'[n] = {}
    BY <1>5, <1>6, <2>2 DEF NameInv, Writes
  <2>3. ASSUME NEW m \in Loads, NEW x \in Entries, base'[m][x] # None
        PROVE  catalog'[x] # None
    <3>1. m # l /\ base[m][x] # None
      BY <1>5, <1>6, <2>3
    <3>2. catalog[x] # None
      BY <3>1 DEF NameInv, Writes
    <3> QED
      BY <1>4, <3>2, Kinds
  <2> QED
    BY <2>1, <2>2, <2>3 DEF Writes
<1>8. \A m \in Loads, e \in Entries : m # l => (Seen(m, e)' <=> Seen(m, e))
  BY <1>5 DEF Seen
<1>9. (Scalars \cup Tables) \ Unrendered \subseteq Entries
  BY DEF Entries
<1>10. Knows'
  <2>1. \A m \in Loads : m # l => listed'[m] = listed[m]
    BY <1>1 DEF TypeOK
  <2> QED
    BY <1>1, <1>6, <1>8, <1>9, <2>1, Kinds DEF NameInv, Knows
<1>11. Checked'
  BY <1>1, <1>6, <1>8, Kinds DEF NameInv, Checked
<1>12. NoSilentClobber'
  <2>1. ASSUME NEW m \in Transactional, NEW x \in Entries,
               <<m, x>> \in clobbered' \ unseen'
        PROVE  x \in Unrendered \/ x \in raw'[m]
    <3>1. <<m, x>> \in clobbered \ unseen /\ (x \in Unrendered \/ x \in raw[m])
      BY <1>3, <2>1, Kinds DEF NameInv, NoSilentClobber
    <3>2. m = l => raw'[m] = raw[m]
      BY <1>2, <2>1
    <3> QED
      BY <1>1, <3>1, <3>2, Kinds
  <2> QED
    BY <2>1 DEF NoSilentClobber
<1> QED
  BY <1>7, <1>10, <1>11, <1>12 DEF NameInv

LEMMA NameHostWrites ==
    ASSUME TypeOK, NameInv, HostWrites
    PROVE  NameInv'
<1>1. PICK e \in Entries : /\ catalog[e] = None
                           /\ \A l \in Loads : e \notin local[l]
                           /\ catalog' = [catalog EXCEPT ![e] = Host]
  BY DEF HostWrites
<1>2. UNCHANGED <<base, local, call, listed, listing, promised, raw, clobbered, unseen>>
  BY DEF HostWrites, txnVars, wrapVars, ghosts
<1>3. \A x \in Entries : catalog'[x] = IF x = e THEN Host ELSE catalog[x]
  BY <1>1 DEF TypeOK
<1>4. Writes'
  <2>1. \A l \in Loads : \A x \in local[l] : x \in Entries /\ x # e
    BY <1>1 DEF TypeOK
  <2>2. \A l \in Loads, x \in Entries : base[l][x] # None => catalog'[x] # None
    BY <1>1, <1>3, Kinds DEF NameInv, Writes
  <2> QED
    BY <1>2, <1>3, <2>1, <2>2 DEF NameInv, Writes
<1>5. Knows' /\ Checked' /\ NoSilentClobber'
  BY <1>2 DEF NameInv, Knows, Checked, Seen, NoSilentClobber
<1> QED
  BY <1>4, <1>5 DEF NameInv

LEMMA NameCheckListed ==
    ASSUME TypeOK, NameInv, NEW t \in Threads, NEW l \in Loads, NEW e \in Entries,
           NEW via \in {"facade", "raw"}, CheckListed(t, l, e, via)
    PROVE  NameInv'
<1> DEFINE k == KindOf(e)
           cached == via = "facade" /\ k \in listed[l]
           names == IF cached THEN listing[l] ELSE Visible(l) \cap OfKind(k)
<1>1. /\ e \in (Scalars \cup Tables) \ Unrendered
      /\ call' = [call EXCEPT ![l] = IF e \in names THEN None ELSE <<e, via>>]
      /\ \/ /\ via = "facade"
            /\ listed' = [listed EXCEPT ![l] = @ \cup {k}]
            /\ listing' = [listing EXCEPT ![l] = @ \cup names]
         \/ via = "raw" /\ UNCHANGED <<listed, listing>>
      /\ UNCHANGED <<catalog, base, local, promised, raw, clobbered, unseen>>
  BY DEF CheckListed, txnVars, ghosts
<1>2. names = IF cached THEN listing[l] ELSE Visible(l) \cap OfKind(k)
  OBVIOUS
<1>3. cached <=> via = "facade" /\ k \in listed[l]
  OBVIOUS
<1>4. e \in OfKind(k) /\ e \in Checkable /\ e \notin Settings
  BY <1>1, Kinds
<1>5. k = KindOf(e)
  OBVIOUS
<1> HIDE DEF k, cached, names
<1>6. \A m \in Loads : m # l =>
         call'[m] = call[m] /\ listed'[m] = listed[m] /\ listing'[m] = listing[m]
  BY <1>1 DEF TypeOK
<1>7. \/ /\ via = "facade" /\ listed'[l] = listed[l] \cup {k}
         /\ listing'[l] = listing[l] \cup names
      \/ via = "raw" /\ listed'[l] = listed[l] /\ listing'[l] = listing[l]
  BY <1>1 DEF TypeOK
<1>8. call'[l] = IF e \in names THEN None ELSE <<e, via>>
  BY <1>1 DEF TypeOK
<1>9. ASSUME l \in Transactional, NEW x \in (Scalars \cup Tables) \ Unrendered,
             KindOf(x) \in listed'[l], Seen(l, x)
      PROVE  x \in listing'[l] \cup raw[l]
  <2>1. CASE KindOf(x) \in listed[l]
    BY <1>7, <1>9, <2>1 DEF NameInv, Knows
  <2>2. CASE KindOf(x) \notin listed[l]
    <3>1. via = "facade" /\ KindOf(x) = k /\ ~cached
      BY <1>3, <1>7, <1>9, <2>2
    <3>2. x \in Entries /\ x \notin Settings /\ x \in OfKind(k)
      BY <3>1, Kinds
    <3>3. x \in Visible(l)
      BY <1>9, <3>2, VisibleSeen
    <3> QED
      BY <1>2, <1>7, <3>1, <3>2, <3>3
  <2> QED
    BY <2>1, <2>2
<1>10. ASSUME l \in Transactional, call'[l] # None, Seen(l, call'[l][1])
       PROVE  call'[l][1] \in raw[l]
  <2>1. e \notin names /\ call'[l][1] = e /\ Seen(l, e)
    BY <1>8, <1>10
  <2>2. e \in Visible(l)
    BY <1>4, <1>10, <2>1, VisibleSeen
  <2>3. cached
    BY <1>2, <1>4, <2>1, <2>2
  <2>4. e \in listing[l] \cup raw[l]
    BY <1>1, <1>3, <1>5, <1>10, <2>1, <2>3 DEF NameInv, Knows
  <2> QED
    BY <1>2, <2>1, <2>3, <2>4
<1> QED
  BY <1>1, <1>6, <1>9, <1>10, NameCheck

LEMMA NameOther ==
    ASSUME TypeOK, StackInv, ScopeInv, NameInv,
           NEW t \in Threads, NEW l \in Loads, NEW e \in Entries,
           \/ \E via \in {"facade", "raw"} : CheckNothing(t, l, e, via)
           \/ ProbeApart(t, l, e) \/ ProbeOnCon(t, l, e)
           \/ CheckSetting(t, l, e)
    PROVE  NameInv'
<1>1. UNCHANGED <<catalog, base, local, listed, listing, promised, raw, clobbered, unseen>>
  BY DEF CheckNothing, ProbeApart, ProbeOnCon, CheckSetting, txnVars, ghosts
<1>2. \A m \in Loads : m # l => call'[m] = call[m]
  <2>1. \E c : call' = [call EXCEPT ![l] = c]
    BY DEF CheckNothing, ProbeApart, ProbeOnCon, CheckSetting
  <2> QED
    BY <2>1 DEF TypeOK
<1>3. ASSUME l \in Transactional
      PROVE  call'[l] # None /\ call'[l][1] \in Checkable => ~Seen(l, call'[l][1])
  <2>1. ASSUME NEW via \in {"facade", "raw"}, CheckNothing(t, l, e, via)
        PROVE  call'[l][1] \notin Checkable
    BY <2>1, Kinds DEF CheckNothing, TypeOK
  <2>2. CASE CheckSetting(t, l, e)
    <3>1. call'[l][1] \in Settings
      BY <2>2 DEF CheckSetting, TypeOK
    <3> QED
      BY <3>1, Kinds
  <2>3. ~ProbeOnCon(t, l, e)
    BY <1>3, ScopeOfInnermost DEF ProbeOnCon, Running
  <2>4. CASE ProbeApart(t, l, e)
    <3>1. scope[t] = [con |-> l, formats |-> promised[l] \cap Formats]
      BY <1>3, <2>4, ScopeOfInnermost DEF ProbeApart, Running
    <3>2. scope[t].formats = promised[l] \cap Formats
      BY <3>1
    <3>3. /\ e \in Formats
          /\ call'[l] = IF e \in promised[l] \cap Formats \/ catalog[e] # None
                        THEN None ELSE <<e, "raw">>
      BY <2>4, <3>2 DEF ProbeApart, TypeOK
    <3>4. ASSUME call'[l] # None
          PROVE  call'[l][1] = e /\ ~Seen(l, e)
      <4>1. e \notin promised[l] /\ catalog[e] = None /\ call'[l][1] = e
        BY <3>3, <3>4
      <4>2. e \notin local[l] /\ base[l][e] = None
        BY <4>1 DEF NameInv, Writes
      <4> QED
        BY <4>1, <4>2 DEF Seen
    <3> QED
      BY <3>4
  <2> QED
    BY <2>1, <2>2, <2>3, <2>4
<1>4. \A x \in (Scalars \cup Tables) \ Unrendered :
         l \in Transactional /\ KindOf(x) \in listed'[l] /\ Seen(l, x)
            => x \in listing'[l] \cup raw[l]
  BY <1>1 DEF NameInv, Knows
<1> QED
  BY <1>1, <1>2, <1>3, <1>4, NameCheck

LEMMA NameStep ==
    ASSUME TypeOK, StackInv, Fresh, ScopeInv, NameInv, [Next]_vars
    PROVE  NameInv'
<1>1. ASSUME NEW t \in Threads, NEW l \in Loads,
             \/ Begin(t, l) \/ Register(t, l)
             \/ \E ok, commits \in BOOLEAN : Finish(t, l, ok, commits)
      PROVE  NameInv'
  BY <1>1, NameBegin, NameRegister, NameFinish
<1>2. ASSUME NEW t \in Threads, NEW l \in Loads,
             Refuse(t, l) \/ StatementFails(t, l)
      PROVE  NameInv'
  BY <1>2, NameFrame DEF Refuse, StatementFails, wrapVars, ghosts
<1>3. ASSUME NEW t \in Threads, NEW l \in Loads, NEW e \in Entries,
             \/ \E via \in {"facade", "raw"} :
                   CheckListed(t, l, e, via) \/ CheckNothing(t, l, e, via)
             \/ ProbeApart(t, l, e) \/ ProbeOnCon(t, l, e)
             \/ CheckSetting(t, l, e)
      PROVE  NameInv'
  BY <1>3, NameCheckListed, NameOther
<1>4. CASE UNCHANGED vars
  BY <1>4, NameFrame DEF vars, txnVars, wrapVars, ghosts
<1> QED
  BY <1>1, <1>2, <1>3, <1>4, NameHostWrites DEF Next

\* What the checks know of names is true of what the transaction sees.
THEOREM NameInvariant ==
    Spec => [](TypeOK /\ StackInv /\ Fresh /\ ScopeInv /\ NameInv)
<1>1. Init => NameInv
  BY Kinds DEF Init, NameInv, Writes, Knows, Checked, Seen, NoSilentClobber
<1> QED
  BY <1>1, ScopeInvariant, NameStep, PTL DEF Spec

\* No registration of a LOAD's transaction takes a name from its owner, or is
\* dropped, behind a reported success, but for the three documented gaps, the
\* name that another committed after the transaction's snapshot among them.
THEOREM ClobberCorrect == Spec => []NoSilentClobber
<1>1. NameInv => NoSilentClobber
  BY DEF NameInv
<1> QED
  BY <1>1, NameInvariant, PTL

\* A step that may move a LOAD between stages it is not done in.
LEMMA PromiseFrame ==
    ASSUME TypeOK, PromiseInv,
           UNCHANGED <<catalog, local, promised, clobbered>>,
           \A l \in Loads : stage[l] = "done" => stage'[l] = "done"
    PROVE  PromiseInv'
  BY DEF PromiseInv, Kept, Stays

LEMMA PromiseHostWrites ==
    ASSUME TypeOK, PromiseInv, HostWrites
    PROVE  PromiseInv'
<1>1. PICK e \in Entries : /\ catalog[e] = None
                           /\ catalog' = [catalog EXCEPT ![e] = Host]
  BY DEF HostWrites
<1>2. UNCHANGED <<stage, local, promised, clobbered>>
  BY DEF HostWrites, txnVars, ghosts
<1>3. \A x \in Entries : catalog[x] # None => catalog'[x] = catalog[x]
  BY <1>1 DEF TypeOK
<1> QED
  <2>1. ASSUME NEW l \in Loads, NEW x \in promised[l], Kept(l, x)
        PROVE  Kept(l, x)'
    <3>1. x \in Entries
      BY DEF TypeOK
    <3> QED
      BY <1>2, <1>3, <2>1, <3>1 DEF Kept, Stays
  <2> QED
    BY <1>2, <2>1 DEF PromiseInv

LEMMA PromiseRegister ==
    ASSUME TypeOK, StackInv, NameInv, PromiseInv,
           NEW t \in Threads, NEW l \in Loads, Register(t, l)
    PROVE  PromiseInv'
<1>1. PICK e \in Entries, via \in {"facade", "raw"} : \E answer \in Answers(l, e) :
         Answering(l, e, via, answer)
  BY RegisterAnswered
<1>2. PICK answer \in Answers(l, e) : Answering(l, e, via, answer)
  BY <1>1
<1>3. UNCHANGED stage
  BY <1>2 DEF Answering
<1>4. CASE answer = "failed"
  <2>1. UNCHANGED <<catalog, local, promised, clobbered>>
    BY <1>2, <1>4 DEF Answering
  <2> QED
    BY <1>3, <2>1, PromiseFrame
<1>5. CASE answer # "failed"
  <2>1. /\ answer = "created" <=> e \notin Visible(l) /\ ~Late(l, e)
        /\ answer # "created" => e \notin Settings
        /\ answer \in {"created", "replaced", "dropped"}
    BY <1>5, Answered
  <2>2. /\ \A m \in Loads : m # l =>
              local'[m] = local[m] /\ promised'[m] = promised[m]
        /\ local'[l] = IF answer \in {"created", "replaced"} /\ Buffers(l, e)
                       THEN local[l] \cup {e} ELSE local[l]
        /\ \A x \in Entries : x # e => catalog'[x] = catalog[x]
        /\ catalog'[e] = IF answer \in {"created", "replaced"} /\ ~Buffers(l, e)
                         THEN l ELSE catalog[e]
        /\ promised'[l] = promised[l] \cup {e}
        /\ clobbered \subseteq clobbered'
        /\ answer \in {"replaced", "dropped"} /\ e \notin Macros => <<l, e>> \in clobbered'
    <3>1. Registered(l, e, answer)
      BY <1>2, <1>5, RegisterEffect
    <3> QED
      BY <3>1 DEF Registered
  <2>3. l \notin Transactional \/ e \in Settings =>
           (e \in Visible(l) <=> catalog[e] # None)
    <3>1. CASE l \notin Transactional
      BY <3>1 DEF Visible
    <3>2. CASE l \in Transactional /\ e \in Settings
      <4>1. e \notin local[l]
        BY <3>2 DEF NameInv, Writes
      <4> QED
        BY <3>2, <4>1 DEF Visible
    <3> QED
      BY <3>1, <3>2
  <2>4. ASSUME NEW m \in Loads, NEW x \in promised[m], Kept(m, x)
        PROVE  Kept(m, x)'
    <3>1. x \in Entries
      BY DEF TypeOK
    <3>2. CASE x \in local[m]
      BY <2>2, <3>2 DEF Kept
    <3>3. CASE catalog[x] # None /\ catalog'[x] = catalog[x]
      BY <1>3, <2>2, <2>4, <3>3 DEF Kept, Stays
    <3>4. CASE catalog[x] # None /\ catalog'[x] # catalog[x]
      <4>1. x = e /\ catalog'[e] = l /\ ~Buffers(l, e)
            /\ answer \in {"created", "replaced"}
        BY <2>2, <3>1, <3>4
      <4>2. e \in Visible(l) /\ answer = "replaced" /\ e \notin Settings
        BY <2>1, <2>3, <3>4, <4>1 DEF Buffers, Late
      <4>3. Stays(l)'
        BY <4>1, <4>2 DEF Stays, Buffers
      <4> QED
        BY <2>2, <4>1, <4>2, <4>3, Kinds DEF Kept
    <3> QED
      BY <2>4, <3>2, <3>3, <3>4 DEF Kept
  <2>5. Kept(l, e)'
    <3>1. CASE answer \in {"created", "replaced"}
      BY <2>2, <3>1, Kinds DEF Kept
    <3>2. CASE answer = "dropped"
      <4>1. /\ e \in Visible(l) \/ Late(l, e)
            /\ e \in Macros \/ <<l, e>> \in clobbered'
            /\ catalog'[e] = catalog[e] /\ local'[l] = local[l]
        BY <2>1, <2>2, <3>2
      <4>2. e \in local[l] \/ catalog[e] # None
        BY <4>1 DEF Visible, Late, NameInv, Writes
      <4> QED
        BY <4>1, <4>2 DEF Kept
    <3> QED
      BY <2>1, <3>1, <3>2
  <2> QED
    BY <2>2, <2>4, <2>5 DEF PromiseInv
<1> QED
  BY <1>4, <1>5

LEMMA PromiseFinish ==
    ASSUME TypeOK, StackInv, NameInv, PromiseInv,
           NEW t \in Threads, NEW l \in Loads,
           NEW ok \in BOOLEAN, NEW commits \in BOOLEAN, Finish(t, l, ok, commits)
    PROVE  PromiseInv'
<1> DEFINE forget == ~Succeeds(l, ok, commits) /\ l \in Transactional
<1>1. /\ stage[l] = "registering"
      /\ \A m \in Loads : m # l => stage'[m] = stage[m] /\ local'[m] = local[m]
      /\ local'[l] = {}
      /\ \/ /\ stage'[l] = "done"
            /\ \A e \in Entries : catalog'[e] = IF e \in local[l] THEN l ELSE catalog[e]
         \/ stage'[l] = "failed" /\ UNCHANGED catalog
  BY FinishInstalls DEF TypeOK
<1>2. /\ stage'[l] = IF Succeeds(l, ok, commits) THEN "done" ELSE "failed"
      /\ \A m \in Loads : m # l => promised'[m] = promised[m]
      /\ promised'[l] = IF forget THEN {} ELSE promised[l]
      /\ clobbered' = IF forget THEN clobbered \ ({l} \X Entries) ELSE clobbered
  BY DEF Finish, TypeOK
<1>3. forget <=> stage'[l] # "done" /\ l \in Transactional
  BY <1>2
<1> HIDE DEF forget
<1>4. ASSUME NEW m \in Loads, NEW x \in promised'[m]
      PROVE  Kept(m, x)'
  <2>1. x \in promised[m] /\ x \in Entries /\ Kept(m, x) /\ ~(m = l /\ forget)
    BY <1>2 DEF PromiseInv, TypeOK
  <2>2. CASE x \in local[m] /\ m # l
    BY <1>1, <2>2 DEF Kept
  <2>3. CASE x \in local[m] /\ m = l
    <3>1. l \in Transactional
      BY <2>3 DEF StackInv, Uncommitted
    <3>2. catalog'[x] = l
      BY <1>1, <1>3, <2>1, <2>3, <3>1
    <3> QED
      BY <2>3, <3>2, Kinds DEF Kept
  <2>4. CASE catalog[x] # None /\ catalog'[x] # catalog[x]
    <3>1. stage'[l] = "done" /\ x \in local[l] /\ catalog'[x] = l
      BY <1>1, <2>1, <2>4
    <3>2. catalog'[x] # None /\ Stays(l)'
      BY <3>1, Kinds DEF Stays
    <3>3. x \in Macros \/ <<l, x>> \in clobbered
      BY <2>4, <3>1 DEF NameInv, Writes
    <3>4. clobbered' = clobbered
      BY <1>2, <1>3, <3>1
    <3> QED
      BY <3>2, <3>3, <3>4 DEF Kept
  <2>5. CASE /\ catalog[x] # None /\ catalog'[x] = catalog[x]
             /\ catalog[x] = m \/ x \in Macros
    BY <2>5 DEF Kept
  <2>6. ASSUME NEW n \in Loads, <<n, x>> \in clobbered, Stays(n) \/ n = m,
               catalog[x] # None, catalog'[x] = catalog[x]
        PROVE  Kept(m, x)'
    <3>1. CASE n # l
      <4>1. <<n, x>> \in clobbered'
        BY <1>2, <2>1, <2>6, <3>1
      <4>2. Stays(n)' \/ n = m
        BY <1>1, <2>6, <3>1 DEF Stays
      <4> QED
        BY <2>6, <4>1, <4>2 DEF Kept
    <3>2. CASE n = l
      <4>1. Stays(l) => l \notin Transactional
        BY <1>1 DEF Stays
      <4>2. ~forget
        BY <1>3, <2>1, <2>6, <3>2, <4>1
      <4>3. <<n, x>> \in clobbered'
        BY <1>2, <2>6, <4>2
      <4>4. Stays(n)' \/ n = m
        BY <2>6, <3>2, <4>1 DEF Stays
      <4> QED
        BY <2>6, <4>3, <4>4 DEF Kept
    <3> QED
      BY <3>1, <3>2
  <2> QED
    BY <2>1, <2>2, <2>3, <2>4, <2>5, <2>6 DEF Kept
<1> QED
  BY <1>4 DEF PromiseInv

LEMMA PromiseStep ==
    ASSUME TypeOK, StackInv, NameInv, PromiseInv, [Next]_vars
    PROVE  PromiseInv'
<1>1. ASSUME NEW t \in Threads, NEW l \in Loads,
             \/ Register(t, l)
             \/ \E ok, commits \in BOOLEAN : Finish(t, l, ok, commits)
      PROVE  PromiseInv'
  BY <1>1, PromiseRegister, PromiseFinish
<1>2. ASSUME NEW t \in Threads, NEW l \in Loads, Begin(t, l) \/ Refuse(t, l)
      PROVE  PromiseInv'
  BY <1>2, PromiseFrame DEF Begin, Refuse, ghosts, TypeOK
<1>3. ASSUME NEW t \in Threads, NEW l \in Loads,
             \/ StatementFails(t, l)
             \/ \E e \in Entries :
                   \/ \E via \in {"facade", "raw"} :
                         CheckListed(t, l, e, via) \/ CheckNothing(t, l, e, via)
                   \/ ProbeApart(t, l, e) \/ ProbeOnCon(t, l, e)
                   \/ CheckSetting(t, l, e)
      PROVE  PromiseInv'
  BY <1>3, OtherSteps, PromiseFrame
<1>4. CASE UNCHANGED vars
  BY <1>4, PromiseFrame DEF vars, txnVars, ghosts
<1> QED
  BY <1>1, <1>2, <1>3, <1>4, PromiseHostWrites DEF Next

\* What a LOAD that succeeded was told it had registered is in the catalog, as
\* its own unless a macro or an unchecked scalar has replaced it since.
THEOREM PromiseCorrect == Spec => []PromisesKept
<1>1. Init => PromiseInv
  BY DEF Init, PromiseInv
<1>2. TypeOK /\ StackInv /\ PromiseInv => PromisesKept
  <2> SUFFICES ASSUME TypeOK, StackInv, PromiseInv,
                      NEW l \in Loads, NEW e \in promised[l], stage[l] = "done"
               PROVE  /\ catalog[e] # None
                      /\ catalog[e] # l =>
                            e \in Macros \/ \E m \in Loads : <<m, e>> \in clobbered
    BY DEF PromisesKept
  <2>1. local[l] = {}
    BY DEF StackInv, Uncommitted
  <2>2. Kept(l, e)
    BY DEF PromiseInv
  <2> QED
    BY <2>1, <2>2 DEF Kept
<1> QED
  BY <1>1, <1>2, NameInvariant, PromiseStep, PTL DEF Spec
=============================================================================
