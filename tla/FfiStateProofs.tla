--------------------------- MODULE FfiStateProofs ---------------------------
(***************************************************************************)
(* The tag discipline of FfiState, for any number of slots, values and     *)
(* types: as long as DuckDB passes no slot to destroy that it never        *)
(* initialised and that holds the remains of a state of its own type, no   *)
(* destructor runs wild and no T is lost or shared.                        *)
(***************************************************************************)
EXTENDS FfiState, TLAPS

\* TLC shows that without this the tag is not enough.
Tame == ~DestroysStaleBytes

\* A slot in use holds a live T of its type under a matching tag.
Holds(s) ==
    /\ Matches(mem[s], owner[s])
    /\ mem[s].body \in Values
    /\ typeOf[mem[s].body] = owner[s]
    /\ mem[s].body \notin dropped

\* What the tag says in each phase, and which slots destroy may still visit.
SlotInv ==
    \A s \in Slots :
        /\ phase[s] = "ready" => Holds(s)
        /\ phase[s] \in {"failed", "spent"} => ~Matches(mem[s], owner[s])
        /\ s \in queue => phase[s] # "free"
        /\ s \in queue /\ phase[s] = "created" => ~Matches(mem[s], owner[s])

Distinct ==
    \A s, t \in Slots :
        phase[s] = "ready" /\ phase[t] = "ready" /\ s # t
            => mem[s].body # mem[t].body

\* Nothing is dropped or leaked before it is made, or after it is lost sight of.
Accounted ==
    /\ \A v \in Values : typeOf[v] = Null => v \notin dropped
    /\ \A v \in Values :
          typeOf[v] # Null /\ v \notin dropped \cup leaked
              => \E s \in Slots : phase[s] = "ready" /\ mem[s].body = v

IInv == TypeOK /\ SlotInv /\ Distinct /\ Accounted /\ NoWildDrop

-----------------------------------------------------------------------------
(* The slot helpers.                                                       *)

\* Clearing a slot keeps it a cell and makes its tag match no type.
LEMMA ClearedNeverMatches ==
    ASSUME NEW cell \in Cells, NEW type \in Types, NEW other \in Types
    PROVE  /\ Cleared(cell, type) \in Cells
           /\ ~Matches(Cleared(cell, type), other)
<1>1. Cleared(cell, type) \in Cells
  BY DEF Cleared, Cells
<1>2. Inner(Cleared(cell, type), other) \in Values \cup {Null}
  BY <1>1 DEF Inner, Cells
<1>3. TagFor(other, Inner(Cleared(cell, type), other))
          \in Types \X (Values \cup {Null})
  BY <1>2 DEF TagFor
<1>4. Cleared(cell, type).tag = Zero
  BY DEF Cleared
<1> QED
  BY <1>1, <1>3, <1>4, FfiStateAssumption DEF Matches

\* The cell init_callback writes is a cell and matches.
LEMMA InitMatches ==
    ASSUME NEW v \in Values, NEW type \in Types,
           NEW cell,
           cell = [tag  |-> TagFor(type, IF type \in InlineTypes
                                         THEN Null ELSE v),
                   body |-> v]
    PROVE  /\ cell \in Cells
           /\ Matches(cell, type)
           /\ cell.body = v
<1>1. cell.body = v /\ cell.tag = TagFor(type, Inner(cell, type))
  BY DEF Inner
<1>2. cell \in Cells
  BY DEF Cells, TagFor
<1> QED
  BY <1>1, <1>2 DEF Matches

-----------------------------------------------------------------------------
(* Type correctness.                                                       *)

\* A step keeps every variable to its type.
LEMMA TypeStep == TypeOK /\ [Next]_vars => TypeOK'
<1> SUFFICES ASSUME TypeOK, [Next]_vars PROVE TypeOK'
  OBVIOUS
<1> USE DEF TypeOK
<1>1. CASE Create
  BY <1>1 DEF Create, Phases
<1>2. CASE Move
  BY <1>2 DEF Move, Phases
<1>3. CASE Destroy
  BY <1>3 DEF Destroy
<1>4. CASE Release
  BY <1>4 DEF Release, Phases
<1>5. CASE Forget
  <2>1. PICK s \in Slots :
           /\ phase[s] \in {"created", "ready", "failed"}
           /\ phase' = [phase EXCEPT ![s] = "free"]
           /\ leaked' = IF phase[s] = "ready"
                        THEN leaked \cup ({mem[s].body} \cap Values)
                        ELSE leaked
           /\ UNCHANGED <<mem, owner, queue, typeOf, dropped, wild>>
    BY <1>5 DEF Forget
  <2> QED
    BY <2>1 DEF Phases
<1>6. ASSUME NEW s \in Slots, NEW made \in BOOLEAN, InitCallback(s, made)
      PROVE  TypeOK'
  <2>1. CASE made
    <3>1. PICK v \in Values :
             /\ typeOf' = [typeOf EXCEPT ![v] = owner[s]]
             /\ mem' = [mem EXCEPT ![s] =
                   [tag  |-> TagFor(owner[s], IF owner[s] \in InlineTypes
                                              THEN Null ELSE v),
                    body |-> v]]
             /\ phase' = [phase EXCEPT ![s] = "ready"]
      BY <1>6, <2>1 DEF InitCallback
    <3>2. mem' \in [Slots -> Cells]
      BY <3>1, InitMatches
    <3> QED
      BY <1>6, <3>1, <3>2 DEF InitCallback, Phases
  <2>2. CASE ~made
    BY <1>6, <2>2, ClearedNeverMatches DEF InitCallback, Phases
  <2> QED
    BY <2>1, <2>2
<1>7. ASSUME NEW s \in Slots, DestroyOne(s)
      PROVE  TypeOK'
  BY <1>7, ClearedNeverMatches DEF DestroyOne, Phases
<1>8. CASE UNCHANGED vars
  BY <1>8 DEF vars
<1> HIDE DEF TypeOK
<1> QED
  BY <1>1, <1>2, <1>3, <1>4, <1>5, <1>6, <1>7, <1>8 DEF Next

\* Every variable keeps to its type.
THEOREM TypeCorrect == Spec => []TypeOK
<1>1. Init => TypeOK
  BY FfiStateAssumption DEF Init, TypeOK, Cells, Phases
<1> QED
  BY <1>1, TypeStep, PTL DEF Spec

-----------------------------------------------------------------------------
(* The inductive invariant.                                                *)

LEMMA InvInit == Init => IInv
<1> SUFFICES ASSUME Init PROVE IInv
  OBVIOUS
<1>1. TypeOK
  BY FfiStateAssumption DEF Init, TypeOK, Cells, Phases
<1> QED
  BY <1>1 DEF Init, IInv, SlotInv, Distinct, Accounted, NoWildDrop

\* Every step keeps the invariant.
LEMMA InvStep == Tame /\ IInv /\ [Next]_vars => IInv'
<1> SUFFICES ASSUME Tame, IInv, [Next]_vars PROVE IInv'
  OBVIOUS
<1>0. TypeOK /\ TypeOK'
  BY TypeStep DEF IInv
<1> USE DEF IInv, NoWildDrop
<1>1. CASE Create
  <2>1. PICK s \in Slots, type \in Types, cell \in Cells :
           /\ phase[s] = "free"
           /\ mem' = [mem EXCEPT ![s] = cell]
           /\ owner' = [owner EXCEPT ![s] = type]
           /\ phase' = [phase EXCEPT ![s] = "created"]
           /\ UNCHANGED <<queue, typeOf, dropped, leaked, wild>>
    BY <1>1 DEF Create
  <2>2. /\ mem'[s] = cell /\ owner'[s] = type /\ phase'[s] = "created"
        /\ s \notin queue
    BY <1>0, <2>1 DEF TypeOK, SlotInv
  <2>3. \A t \in Slots \ {s} :
           mem'[t] = mem[t] /\ owner'[t] = owner[t] /\ phase'[t] = phase[t]
    BY <1>0, <2>1 DEF TypeOK
  <2>4. SlotInv'
    BY <2>1, <2>2, <2>3 DEF SlotInv, Holds
  <2>5. Distinct' /\ Accounted'
    BY <2>1, <2>2, <2>3 DEF Distinct, Accounted
  <2> QED
    BY <1>0, <2>1, <2>4, <2>5
<1>2. CASE Move
  <2>1. PICK s \in Slots, t \in Slots :
           /\ phase[s] = "ready" /\ s \notin queue
           /\ phase[t] = "free"
           /\ mem' = [mem EXCEPT ![t] = mem[s]]
           /\ owner' = [owner EXCEPT ![t] = owner[s]]
           /\ phase' = [phase EXCEPT ![t] = "ready", ![s] = "free"]
           /\ UNCHANGED <<queue, typeOf, dropped, leaked, wild>>
    BY <1>2 DEF Move
  <2>2. /\ s # t /\ t \notin queue
        /\ mem'[t] = mem[s] /\ owner'[t] = owner[s]
        /\ phase'[t] = "ready" /\ phase'[s] = "free"
        /\ Holds(s)
    BY <1>0, <2>1 DEF TypeOK, SlotInv
  <2>3. \A u \in Slots \ {s, t} :
           mem'[u] = mem[u] /\ owner'[u] = owner[u] /\ phase'[u] = phase[u]
    BY <1>0, <2>1 DEF TypeOK
  <2>a. UNCHANGED <<queue, typeOf, dropped, leaked, wild>>
    BY <2>1
  <2>4. SlotInv'
    <3> SUFFICES ASSUME NEW u \in Slots PROVE SlotInv!(u)'
      BY DEF SlotInv
    <3>1. CASE u = t
      BY <3>1, <2>2, <2>a DEF Holds
    <3>2. CASE u = s
      BY <3>2, <2>2, <2>1, <2>a
    <3>3. CASE u \notin {s, t}
      BY <3>3, <2>3, <2>a DEF SlotInv, Holds
    <3> QED
      BY <3>1, <3>2, <3>3
  <2>b. phase[s] = "ready" /\ phase[t] = "free"
    BY <2>1
  <2>5. Distinct'
    <3> SUFFICES ASSUME NEW u \in Slots, NEW w \in Slots,
                        phase'[u] = "ready", phase'[w] = "ready", u # w
                 PROVE  mem'[u].body # mem'[w].body
      BY DEF Distinct
    <3> DEFINE From(x) == IF x = t THEN s ELSE x
    <3>1. /\ From(u) \in Slots /\ phase[From(u)] = "ready"
          /\ mem'[u] = mem[From(u)]
      BY <2>2, <2>3, <2>b
    <3>2. /\ From(w) \in Slots /\ phase[From(w)] = "ready"
          /\ mem'[w] = mem[From(w)]
      BY <2>2, <2>3, <2>b
    <3>3. From(u) # From(w)
      BY <2>2
    <3> HIDE DEF From
    <3> QED
      BY <3>1, <3>2, <3>3 DEF Distinct
  <2>6. Accounted'
    <3> SUFFICES ASSUME NEW v \in Values, typeOf[v] # Null,
                        v \notin dropped \cup leaked
                 PROVE  \E u \in Slots : phase'[u] = "ready" /\ mem'[u].body = v
      BY <2>a DEF Accounted
    <3>1. PICK u \in Slots : phase[u] = "ready" /\ mem[u].body = v
      BY DEF Accounted
    <3>2. CASE u = s
      BY <3>1, <3>2, <2>2
    <3>3. CASE u # s
      BY <3>1, <3>3, <2>3, <2>b
    <3> QED
      BY <3>2, <3>3
  <2> QED
    BY <1>0, <2>1, <2>4, <2>5, <2>6
<1>3. CASE Destroy
  <2>1. PICK states \in SUBSET Slots :
           /\ \A s \in states :
                 \/ phase[s] \in {"ready", "failed", "spent"}
                 \/ phase[s] = "created" /\ ~Matches(mem[s], owner[s])
           /\ queue' = queue \cup states
           /\ UNCHANGED <<mem, owner, phase, typeOf, dropped, leaked, wild>>
    BY <1>3 DEF Destroy, Tame
  <2>2. SlotInv'
    BY <2>1 DEF SlotInv, Holds
  <2> QED
    BY <1>0, <2>1, <2>2 DEF Distinct, Accounted
<1>4. CASE Release
  <2>1. PICK s \in Slots :
           /\ phase[s] = "spent" /\ s \notin queue
           /\ phase' = [phase EXCEPT ![s] = "free"]
           /\ UNCHANGED <<mem, owner, queue, typeOf, dropped, leaked, wild>>
    BY <1>4 DEF Release
  <2>2. /\ phase'[s] = "free"
        /\ \A t \in Slots \ {s} : phase'[t] = phase[t]
    BY <1>0, <2>1 DEF TypeOK
  <2> QED
    BY <1>0, <2>1, <2>2 DEF SlotInv, Holds, Distinct, Accounted
<1>5. CASE Forget
  <2>1. PICK s \in Slots :
           /\ phase[s] \in {"created", "ready", "failed"} /\ s \notin queue
           /\ phase' = [phase EXCEPT ![s] = "free"]
           /\ leaked' = IF phase[s] = "ready"
                        THEN leaked \cup ({mem[s].body} \cap Values)
                        ELSE leaked
           /\ UNCHANGED <<mem, owner, queue, typeOf, dropped, wild>>
    BY <1>5 DEF Forget
  <2>2. /\ phase'[s] = "free"
        /\ \A t \in Slots \ {s} : phase'[t] = phase[t]
    BY <1>0, <2>1 DEF TypeOK
  <2>3. SlotInv' /\ Distinct'
    BY <2>1, <2>2 DEF SlotInv, Holds, Distinct
  <2>4. Accounted'
    BY <2>1, <2>2 DEF Accounted
  <2> QED
    BY <1>0, <2>1, <2>3, <2>4
<1>6. ASSUME NEW s \in Slots, NEW made \in BOOLEAN, InitCallback(s, made)
      PROVE  IInv'
  <2>1. CASE made
    <3>1. PICK v \in Values :
             /\ typeOf[v] = Null
             /\ typeOf' = [typeOf EXCEPT ![v] = owner[s]]
             /\ mem' = [mem EXCEPT ![s] =
                   [tag  |-> TagFor(owner[s], IF owner[s] \in InlineTypes
                                              THEN Null ELSE v),
                    body |-> v]]
             /\ phase' = [phase EXCEPT ![s] = "ready"]
      BY <1>6, <2>1 DEF InitCallback
    <3>2. /\ phase[s] = "created"
          /\ UNCHANGED <<owner, queue, dropped, leaked, wild>>
      BY <1>6 DEF InitCallback
    <3>3. /\ Matches(mem'[s], owner[s]) /\ mem'[s].body = v
          /\ phase'[s] = "ready"
          /\ typeOf'[v] = owner[s] /\ owner[s] # Null
          /\ v \notin dropped
      BY <1>0, <3>1, InitMatches, FfiStateAssumption DEF TypeOK, Accounted
    <3>4. /\ \A t \in Slots \ {s} : mem'[t] = mem[t] /\ phase'[t] = phase[t]
          /\ \A u \in Values \ {v} : typeOf'[u] = typeOf[u]
      BY <1>0, <3>1 DEF TypeOK
    <3>5. \A t \in Slots : phase[t] = "ready" => mem[t].body # v
      BY <1>0, <3>1, FfiStateAssumption DEF TypeOK, SlotInv, Holds
    <3>6. SlotInv'
      BY <3>2, <3>3, <3>4, <3>5 DEF SlotInv, Holds
    <3>7. Distinct'
      BY <3>2, <3>3, <3>4, <3>5 DEF Distinct
    <3>8. Accounted'
      BY <3>2, <3>3, <3>4 DEF Accounted
    <3> QED
      BY <1>0, <3>2, <3>6, <3>7, <3>8
  <2>2. CASE ~made
    <3>1. /\ phase[s] = "created"
          /\ mem' = [mem EXCEPT ![s] = Cleared(mem[s], owner[s])]
          /\ phase' = [phase EXCEPT ![s] = "failed"]
          /\ UNCHANGED <<owner, queue, typeOf, dropped, leaked, wild>>
      BY <1>6, <2>2 DEF InitCallback
    <3>2. /\ phase'[s] = "failed" /\ ~Matches(mem'[s], owner[s])
          /\ \A t \in Slots \ {s} : mem'[t] = mem[t] /\ phase'[t] = phase[t]
      BY <1>0, <3>1, ClearedNeverMatches DEF TypeOK
    <3> QED
      BY <1>0, <3>1, <3>2 DEF SlotInv, Holds, Distinct, Accounted
  <2> QED
    BY <2>1, <2>2
<1>7. ASSUME NEW s \in Slots, DestroyOne(s)
      PROVE  IInv'
  <2>1. /\ s \in queue
        /\ queue' = queue \ {s}
        /\ phase' = [phase EXCEPT ![s] = "spent"]
        /\ UNCHANGED <<owner, typeOf, leaked>>
    BY <1>7 DEF DestroyOne
  <2>2. /\ phase'[s] = "spent"
        /\ \A t \in Slots \ {s} : phase'[t] = phase[t]
    BY <1>0, <2>1 DEF TypeOK
  <2>3. CASE Matches(mem[s], owner[s])
    <3>1. phase[s] = "ready" /\ Holds(s)
      BY <1>0, <2>1, <2>3 DEF TypeOK, Phases, SlotInv, Tame
    <3>2. /\ mem' = [mem EXCEPT ![s] = Cleared(mem[s], owner[s])]
          /\ dropped' = dropped \cup {mem[s].body}
          /\ wild' = wild
      BY <1>7, <2>3, <3>1 DEF DestroyOne, Holds, Live
    <3>3. /\ ~Matches(mem'[s], owner[s])
          /\ \A t \in Slots \ {s} : mem'[t] = mem[t]
      BY <1>0, <3>2, ClearedNeverMatches DEF TypeOK
    <3>4. SlotInv' /\ Distinct'
      BY <2>1, <2>2, <3>1, <3>2, <3>3 DEF SlotInv, Holds, Distinct
    <3>5. Accounted'
      <4>1. typeOf[mem[s].body] # Null
        BY <1>0, <3>1, FfiStateAssumption DEF Holds, TypeOK
      <4> QED
        BY <2>1, <2>2, <3>1, <3>2, <3>3, <4>1 DEF Accounted, Holds
    <3> QED
      BY <1>0, <3>2, <3>4, <3>5
  <2>4. CASE ~Matches(mem[s], owner[s])
    <3>1. UNCHANGED <<mem, dropped, wild>>
      BY <1>7, <2>4 DEF DestroyOne
    <3>2. phase[s] # "ready"
      BY <2>4 DEF SlotInv, Holds
    <3> QED
      BY <1>0, <2>1, <2>2, <2>4, <3>1, <3>2
         DEF SlotInv, Holds, Distinct, Accounted
  <2> QED
    BY <2>3, <2>4
<1>8. CASE UNCHANGED vars
  BY <1>0, <1>8 DEF vars, SlotInv, Holds, Distinct, Accounted
<1> HIDE DEF IInv, NoWildDrop
<1> QED
  BY <1>1, <1>2, <1>3, <1>4, <1>5, <1>6, <1>7, <1>8 DEF Next

\* The invariant holds as long as DuckDB keeps to one of its two habits.
THEOREM SlotInvariant == Tame => (Spec => []IInv)
<1> SUFFICES ASSUME Tame PROVE Spec => []IInv
  OBVIOUS
<1>1. IInv /\ [Next]_vars => IInv'
  BY InvStep
<1> QED
  BY InvInit, <1>1, PTL DEF Spec

-----------------------------------------------------------------------------
(* What it gives.                                                          *)

\* No destructor runs on anything but a live T of the slot's type.
THEOREM DropCorrect == Tame => (Spec => []NoWildDrop)
<1> SUFFICES ASSUME Tame PROVE Spec => []NoWildDrop
  OBVIOUS
<1>1. IInv => NoWildDrop
  BY DEF IInv
<1>2. Spec => []IInv
  BY SlotInvariant
<1> QED
  BY <1>1, <1>2, PTL

\* with_state hands out a live T of the slot's type exactly where init made one.
THEOREM BorrowCorrect == Tame => (Spec => []BorrowSound)
<1> SUFFICES ASSUME Tame PROVE Spec => []BorrowSound
  OBVIOUS
<1>1. IInv => BorrowSound
  BY DEF IInv, SlotInv, Holds, BorrowSound, Value, Live
<1>2. Spec => []IInv
  BY SlotInvariant
<1> QED
  BY <1>1, <1>2, PTL

\* No two slots in use hand out the same T.
THEOREM AliasCorrect == Tame => (Spec => []NoAliasing)
<1> SUFFICES ASSUME Tame PROVE Spec => []NoAliasing
  OBVIOUS
<1>1. IInv => NoAliasing
  BY DEF IInv, SlotInv, Distinct, Holds, NoAliasing, Value
<1>2. Spec => []IInv
  BY SlotInvariant
<1> QED
  BY <1>1, <1>2, PTL

\* Every T made is dropped, still held, or was forgotten by DuckDB itself.
THEOREM OwnershipCorrect == Tame => (Spec => []NothingForgotten)
<1> SUFFICES ASSUME Tame PROVE Spec => []NothingForgotten
  OBVIOUS
<1>1. IInv => NothingForgotten
  BY DEF IInv, SlotInv, Accounted, Holds, NothingForgotten, Value
<1>2. Spec => []IInv
  BY SlotInvariant
<1> QED
  BY <1>1, <1>2, PTL
=============================================================================
