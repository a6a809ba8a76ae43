-------------------------- MODULE ExtraInfoProofs ---------------------------
(* Proofs about ExtraInfo: an info is freed at most once, never while in   *)
(* use, and none is lost.  And about ScalarState: bind data and local      *)
(* states have one owner each, and a callback reads what was stored.       *)
EXTENDS MCExtraInfo, TLAPS

-----------------------------------------------------------------------------
(* The invariant: an info has one owner at most, its builder or DuckDB,    *)
(* and one that was freed has none.                                        *)

\* The builder's side and DuckDB's are apart, and no two builders share.
Apart ==
    /\ \A b \in Builders : Mine(b) \cap Held(holds) = {}
    /\ \A b, c \in Builders : b # c => owned[b] \cap owned[c] = {}

\* What has an owner was not freed.
Unfreed ==
    /\ \A i \in Infos : freed[i] \in 0..1
    /\ \A i \in Held(holds) : freed[i] = 0
    /\ \A b \in Builders : \A i \in Mine(b) : freed[i] = 0

\* What was never given away is nowhere.
Given ==
    /\ \A b \in Builders : owned[b] \subseteq given
    /\ Held(holds) \subseteq given
    /\ transferred \subseteq given
    /\ \A i \in Infos : i \notin given => freed[i] = 0

\* A running register hands over what is still its builder's, and before it
\* nothing is handed over.
Pending ==
    /\ \A b \in Builders :
          /\ pending[b] \subseteq Mine(b)
          /\ pending[b] # {} => stage[b] = "building"
          /\ stage[b] \in {"absent", "open"} => owned[b] \subseteq Mine(b)
    /\ \A b \in Builders :
          reader[b] # None => stage[reader[b]] \in {"attached", "done"}

OwnInv == Apart /\ Unfreed /\ Given /\ Pending

-----------------------------------------------------------------------------
(* Types.                                                                  *)

LEMMA HolderNames ==
    /\ \A b \in Builders : Func(b) \in Holders /\ Set(b) \in Holders
                           /\ Entry(b) \in Holders
    /\ \A q \in Plans : Plan(q) \in Holders
  BY DEF Func, Set, Entry, Plan, Holders

LEMMA HeldInfos ==
    ASSUME TypeOK
    PROVE  \A o \in Holders : holds[o] \subseteq Held(holds)
  BY DEF TypeOK, Held

\* Settling counts in Nat.
LEMMA SettleType ==
    ASSUME TypeOK, NEW h \in [Holders -> SUBSET Infos], NEW D, Settle(h, D)
    PROVE  holds' \in [Holders -> SUBSET Infos] /\ freed' \in [Infos -> Nat]
<1>1. \A S, i : Once(S, i) \in Nat
  BY DEF Once
<1> QED
  BY <1>1 DEF TypeOK, Settle

LEMMA WithoutReaderType ==
    ASSUME TypeOK, NEW h \in [Holders -> SUBSET Infos], NEW b \in Builders
    PROVE  WithoutReader(h, b) \in [Holders -> SUBSET Infos]
  BY DEF TypeOK, WithoutReader

LEMMA ConsumeType ==
    ASSUME TypeOK, NEW b \in Builders, Consume(b)
    PROVE  /\ stage' \in [Builders -> Stages]
           /\ owned' \in [Builders -> SUBSET Infos]
           /\ reader' \in [Builders -> Builders \cup {None}]
<1>1. "done" \in Stages
  BY DEF Stages
<1> QED
  BY <1>1 DEF TypeOK, Consume

LEMMA TypeStep ==
    ASSUME TypeOK, [Next]_vars
    PROVE  TypeOK'
<1> USE HolderNames
<1> "open" \in Stages /\ "building" \in Stages /\ "handle" \in Stages
    /\ "attached" \in Stages /\ "registered" \in Stages
    /\ "refused" \in Stages /\ "done" \in Stages
  BY DEF Stages
<1>1. ASSUME NEW b \in Builders, New(b)
      PROVE  TypeOK'
  BY <1>1 DEF New, TypeOK
<1>2. ASSUME NEW b \in Builders, DropBuilder(b)
      PROVE  TypeOK'
  <2>1. WithoutReader(holds, b) \in [Holders -> SUBSET Infos]
    BY WithoutReaderType DEF TypeOK
  <2>2. holds' \in [Holders -> SUBSET Infos] /\ freed' \in [Infos -> Nat]
    BY <1>2, <2>1, SettleType DEF DropBuilder
  <2> QED
    BY <1>2, <2>2, ConsumeType DEF DropBuilder, TypeOK
<1>3. ASSUME NEW b \in Builders, Begin(b)
      PROVE  TypeOK'
  <2>1. holds' \in [Holders -> SUBSET Infos]
    BY <1>3 DEF Begin, TypeOK
  <2> QED
    BY <1>3, <2>1 DEF Begin, TypeOK
<1>4. ASSUME NEW b \in Builders, BuildHandle(b)
      PROVE  TypeOK'
  <2>1. holds' \in [Holders -> SUBSET Infos] /\ freed' \in [Infos -> Nat]
    BY <1>4, SettleType DEF BuildHandle, TypeOK
  <2> QED
    BY <1>4, <2>1 DEF BuildHandle, TypeOK
<1>5. ASSUME NEW b \in Builders, Finish(b)
      PROVE  TypeOK'
  <2> DEFINE g == [holds EXCEPT ![Func(b)] = {}, ![Set(b)] = {}]
  <2>1. g \in [Holders -> SUBSET Infos]
    BY DEF TypeOK
  <2>2. WithoutReader(g, b) \in [Holders -> SUBSET Infos]
    BY <2>1, WithoutReaderType
  <2>3. Settle(WithoutReader(g, b), Mine(b))
    BY <1>5 DEF Finish
  <2>4. holds' \in [Holders -> SUBSET Infos] /\ freed' \in [Infos -> Nat]
    BY <2>2, <2>3, SettleType
  <2> QED
    BY <1>5, <2>4, ConsumeType DEF Finish, TypeOK
<1>6. ASSUME NEW b \in Builders, FinishAdrift(b)
      PROVE  TypeOK'
  BY <1>6, ConsumeType DEF FinishAdrift, TypeOK
<1>7. ASSUME NEW b \in Builders, DropHandle(b)
      PROVE  TypeOK'
  <2>1. [holds EXCEPT ![Func(b)] = {}] \in [Holders -> SUBSET Infos]
    BY DEF TypeOK
  <2>2. holds' \in [Holders -> SUBSET Infos] /\ freed' \in [Infos -> Nat]
    BY <1>7, <2>1, SettleType DEF DropHandle
  <2> QED
    BY <1>7, <2>2 DEF DropHandle, TypeOK
<1>8. ASSUME NEW b \in Builders, EntryGone(b)
      PROVE  TypeOK'
  <2>1. [holds EXCEPT ![Entry(b)] = {}] \in [Holders -> SUBSET Infos]
    BY DEF TypeOK
  <2>2. holds' \in [Holders -> SUBSET Infos] /\ freed' \in [Infos -> Nat]
    BY <1>8, <2>1, SettleType DEF EntryGone
  <2> QED
    BY <1>8, <2>2 DEF EntryGone, TypeOK
<1>9. ASSUME NEW b \in Builders, NEW i \in Infos, SetExtraInfo(b, i)
      PROVE  TypeOK'
  <2>1. holds' \in [Holders -> SUBSET Infos] /\ freed' \in [Infos -> Nat]
    <3>1. CASE kind[b] = "set"
      BY <1>9, <3>1 DEF SetExtraInfo, TypeOK
    <3>2. CASE kind[b] # "set"
      <4>1. Settle(holds, Mine(b))
        BY <1>9, <3>2 DEF SetExtraInfo
      <4> QED
        BY <4>1, SettleType DEF TypeOK
    <3> QED
      BY <3>1, <3>2
  <2>2. owned' \in [Builders -> SUBSET Infos]
    BY <1>9 DEF SetExtraInfo, TypeOK
  <2> QED
    BY <1>9, <2>1, <2>2 DEF SetExtraInfo, TypeOK
<1>10. ASSUME NEW b \in Builders, NEW i \in Infos, Attach(b, i)
       PROVE  TypeOK'
  BY <1>10 DEF Attach, TypeOK
<1>11. ASSUME NEW b \in Builders, NEW ok \in BOOLEAN, AddToSet(b, ok)
       PROVE  TypeOK'
  <2> DEFINE g == [holds EXCEPT
                     ![Func(b)] = {},
                     ![Set(b)] = IF ok THEN @ \cup holds[Func(b)] ELSE @]
  <2>1. g \in [Holders -> SUBSET Infos]
    BY DEF TypeOK
  <2>2. Settle(g, {})
    BY <1>11 DEF AddToSet
  <2>3. holds' \in [Holders -> SUBSET Infos] /\ freed' \in [Infos -> Nat]
    BY <2>1, <2>2, SettleType
  <2> QED
    BY <1>11, <2>3 DEF AddToSet, TypeOK
<1>12. ASSUME NEW b \in Builders, NEW ok \in BOOLEAN, Register(b, ok)
       PROVE  TypeOK'
  <2>1. Source(b) \in Holders
    BY DEF Source
  <2>2. holds' \in [Holders -> SUBSET Infos]
    BY <1>12, <2>1 DEF Register, TypeOK
  <2> QED
    BY <1>12, <2>2 DEF Register, TypeOK
<1>13. ASSUME NEW b \in Builders, NEW c \in Builders, CopyFrom(c, b)
       PROVE  TypeOK'
  <2>1. WithoutReader(holds, c) \in [Holders -> SUBSET Infos]
    BY WithoutReaderType DEF TypeOK
  <2>2. holds' \in [Holders -> SUBSET Infos] /\ freed' \in [Infos -> Nat]
    BY <1>13, <2>1, SettleType DEF CopyFrom
  <2> QED
    BY <1>13, <2>2 DEF CopyFrom, TypeOK
<1>14. ASSUME NEW b \in Builders, NEW c \in Builders, CopyFromRefused(c, b)
       PROVE  TypeOK'
  <2> DEFINE g == [holds EXCEPT ![Func(b)] = {}]
  <2>1. WithoutReader(g, c) \in [Holders -> SUBSET Infos]
    BY WithoutReaderType DEF TypeOK
  <2>2. Settle(WithoutReader(g, c), Mine(c))
    BY <1>14 DEF CopyFromRefused
  <2>3. holds' \in [Holders -> SUBSET Infos] /\ freed' \in [Infos -> Nat]
    BY <2>1, <2>2, SettleType
  <2> QED
    BY <1>14, <2>3 DEF CopyFromRefused, TypeOK
<1>15. ASSUME NEW b \in Builders, NEW q \in Plans, PlanStart(q, b)
       PROVE  TypeOK'
  BY <1>15 DEF PlanStart, TypeOK
<1>16. ASSUME NEW q \in Plans, PlanEnd(q)
       PROVE  TypeOK'
  <2>1. [holds EXCEPT ![Plan(q)] = {}] \in [Holders -> SUBSET Infos]
    BY DEF TypeOK
  <2>2. holds' \in [Holders -> SUBSET Infos] /\ freed' \in [Infos -> Nat]
    BY <1>16, <2>1, SettleType DEF PlanEnd
  <2> QED
    BY <1>16, <2>2 DEF PlanEnd, TypeOK
<1>17. CASE UNCHANGED vars
  BY <1>17 DEF vars, TypeOK
<1> QED
  BY <1>1, <1>2, <1>3, <1>4, <1>5, <1>6, <1>7, <1>8, <1>9, <1>10, <1>11,
     <1>12, <1>13, <1>14, <1>15, <1>16, <1>17 DEF Next

\* Every variable keeps to its type.
THEOREM TypeCorrect == Spec => []TypeOK
<1>1. Init => TypeOK
  BY DEF Init, TypeOK, Stages
<1> QED
  BY <1>1, TypeStep, PTL DEF Spec

-----------------------------------------------------------------------------
(* Owners.                                                                 *)

\* Objects that hold only what DuckDB held before.
LEMMA HeldShrinks ==
    ASSUME NEW h, \A o \in Holders : h[o] \subseteq Held(holds)
    PROVE  Held(h) \subseteq Held(holds)
  BY DEF Held

LEMMA ReaderShrinks ==
    ASSUME TypeOK, NEW h \in [Holders -> SUBSET Infos], NEW b \in Builders,
           Held(h) \subseteq Held(holds)
    PROVE  Held(WithoutReader(h, b)) \subseteq Held(holds)
<1>1. \A o \in Holders : h[o] \subseteq Held(holds)
  BY DEF Held
<1>2. \A o \in Holders : WithoutReader(h, b)[o] \subseteq Held(holds)
  BY <1>1 DEF WithoutReader
<1> QED
  BY <1>2, HeldShrinks

\* What settling frees has no owner left, and everything else is as before.
LEMMA SettleFrees ==
    ASSUME TypeOK, Unfreed, Given, NEW h, NEW D \in SUBSET Infos,
           Settle(h, D), Held(h) \subseteq Held(holds),
           D \cap Held(holds) = {},
           \A i \in D : freed[i] = 0 /\ i \in given
    PROVE  /\ Held(holds') = Held(h)
           /\ \A i \in Infos : freed'[i] \in 0..1
           /\ \A i \in Held(h) : freed'[i] = 0
           /\ \A i \in Infos \ (D \cup Held(holds)) : freed'[i] = freed[i]
           /\ \A i \in Infos \ given : freed'[i] = 0
<1>1. holds' = h
  BY DEF Settle
<1>2. \A i \in Infos : freed'[i] = freed[i] + Once(Held(holds) \ Held(h), i)
                                            + Once(D, i)
  BY DEF Settle
<1>3. \A i \in Infos : freed[i] \in 0..1
  BY DEF Unfreed
<1>4. \A i \in Infos : i \in Held(holds) => freed[i] = 0 /\ i \notin D
  BY DEF Unfreed
<1>5. Held(h) \subseteq Infos /\ Held(holds) \subseteq given
  BY DEF Held, Given
<1>6. \A i \in Infos : i \notin given => freed[i] = 0
  BY DEF Given
<1>7. ASSUME NEW i \in Infos
      PROVE  /\ freed'[i] \in 0..1
             /\ i \in Held(h) => freed'[i] = 0
             /\ i \notin D \cup Held(holds) => freed'[i] = freed[i]
             /\ i \notin given => freed'[i] = 0
  <2>1. Once(Held(holds) \ Held(h), i) =
          IF i \in Held(holds) /\ i \notin Held(h) THEN 1 ELSE 0
    BY DEF Once
  <2>2. Once(D, i) = IF i \in D THEN 1 ELSE 0
    BY DEF Once
  <2> QED
    BY <1>2, <1>3, <1>4, <1>5, <1>6, <2>1, <2>2
<1> QED
  BY <1>1, <1>5, <1>7

\* A step that drops D, infos of the builder b, and lets DuckDB's objects go.
LEMMA Dropping ==
    ASSUME TypeOK, Apart, Unfreed, Given, NEW h, NEW b \in Builders,
           NEW D \in SUBSET Infos, Settle(h, D),
           Held(h) \subseteq Held(holds), D \subseteq Mine(b),
           \A c \in Builders : owned'[c] \subseteq owned[c],
           owned'[b] \cap D = {},
           UNCHANGED <<transferred, given>>
    PROVE  Apart' /\ Unfreed' /\ Given'
<1>1. D \cap Held(holds) = {} /\ \A i \in D : freed[i] = 0 /\ i \in given
  BY DEF Apart, Unfreed, Given, Mine
<1>2. /\ Held(holds') = Held(h)
      /\ \A i \in Infos : freed'[i] \in 0..1
      /\ \A i \in Held(h) : freed'[i] = 0
      /\ \A i \in Infos \ (D \cup Held(holds)) : freed'[i] = freed[i]
      /\ \A i \in Infos \ given : freed'[i] = 0
  BY <1>1, SettleFrees
<1>3. Held(holds)' = Held(h)
  BY <1>2 DEF Held
<1>4. \A c \in Builders : /\ Mine(c)' \subseteq Mine(c)
                          /\ Mine(c)' \cap D = {}
                          /\ Mine(c) \subseteq Infos
  BY DEF Mine, Apart, TypeOK
<1>5. Apart'
  <2>1. \A c \in Builders : Mine(c)' \cap Held(holds)' = {}
    BY <1>3, <1>4 DEF Apart
  <2>2. \A c, d \in Builders : c # d => owned'[c] \cap owned'[d] = {}
    BY DEF Apart
  <2> QED
    BY <2>1, <2>2 DEF Apart
<1>6. Unfreed'
  <2>1. ASSUME NEW c \in Builders, NEW i \in Mine(c)'
        PROVE  freed'[i] = 0
    <3>1. i \in Mine(c) /\ i \in Infos /\ i \notin D /\ i \notin Held(holds)
      BY <1>4, <2>1 DEF Apart
    <3>2. freed[i] = 0
      BY <3>1 DEF Unfreed
    <3> QED
      BY <1>2, <3>1, <3>2
  <2> QED
    BY <1>2, <1>3, <2>1 DEF Unfreed
<1>7. Given'
  BY <1>2, <1>3 DEF Given
<1> QED
  BY <1>5, <1>6, <1>7

\* A step that only copies or forgets what DuckDB's objects hold.
LEMMA Copying ==
    ASSUME TypeOK, Apart, Unfreed, Given,
           Held(holds') \subseteq Held(holds),
           \A c \in Builders : owned'[c] \subseteq owned[c],
           UNCHANGED <<transferred, given, freed>>
    PROVE  Apart' /\ Unfreed' /\ Given'
<1>1. Held(holds)' \subseteq Held(holds)
  BY DEF Held
<1>2. \A c \in Builders : Mine(c)' \subseteq Mine(c)
  BY DEF Mine
<1>3. Apart'
  BY <1>1, <1>2 DEF Apart
<1>4. Unfreed'
  BY <1>1, <1>2 DEF Unfreed
<1>5. Given'
  BY <1>1 DEF Given
<1> QED
  BY <1>3, <1>4, <1>5

\* Consuming a builder leaves the other builders' infos alone.
LEMMA Consuming ==
    ASSUME TypeOK, Pending, NEW b \in Builders, Consume(b), pending[b] = {},
           UNCHANGED <<pending, transferred>>
    PROVE  /\ \A c \in Builders : owned'[c] \subseteq owned[c]
           /\ owned'[b] = {}
           /\ Pending'
<1>1. /\ \A c \in Builders : c # b => owned'[c] = owned[c]
      /\ owned'[b] = {}
      /\ \A c \in Builders : c # b => reader'[c] = reader[c]
      /\ reader'[b] = None
      /\ \A c \in Builders : stage'[c] = IF c \in {b, reader[b]} THEN "done"
                                         ELSE stage[c]
  BY DEF Consume, TypeOK
<1>2. ASSUME NEW c \in Builders
      PROVE  /\ pending'[c] \subseteq Mine(c)'
             /\ pending'[c] # {} => stage'[c] = "building"
             /\ stage'[c] \in {"absent", "open"} => owned'[c] \subseteq Mine(c)'
  <2>1. CASE c = b
    BY <1>1, <2>1
  <2>2. CASE c # b
    <3>1. pending'[c] \subseteq Mine(c)' /\ Mine(c)' = Mine(c)
      BY <1>1, <2>2 DEF Pending, Mine
    <3>2. c = reader[b] => pending[c] = {}
      BY ExtraInfoAssumption DEF Pending
    <3> QED
      BY <1>1, <2>2, <3>1, <3>2 DEF Pending
  <2> QED
    BY <2>1, <2>2
<1>3. ASSUME NEW c \in Builders, reader'[c] # None
      PROVE  stage'[reader'[c]] \in {"attached", "done"}
  <2>1. reader'[c] = reader[c] /\ reader[c] \in Builders
    BY <1>1, <1>3 DEF TypeOK
  <2> QED
    BY <1>1, <1>3, <2>1 DEF Pending
<1> QED
  BY <1>1, <1>2, <1>3 DEF Pending

\* A step that only lets go of what DuckDB's objects hold.
LEMMA LettingGo ==
    ASSUME TypeOK, Apart, Unfreed, Given, NEW h, Settle(h, {}),
           \A o \in Holders : h[o] \subseteq Held(holds),
           UNCHANGED <<owned, transferred, given>>
    PROVE  Apart' /\ Unfreed' /\ Given'
<1>1. Held(h) \subseteq Held(holds)
  BY HeldShrinks
<1>2. CASE Builders = {}
  <2>1. /\ Held(holds') = Held(h)
        /\ \A i \in Infos : freed'[i] \in 0..1
        /\ \A i \in Held(h) : freed'[i] = 0
        /\ \A i \in Infos \ given : freed'[i] = 0
    BY <1>1, SettleFrees
  <2>2. Held(holds)' = Held(h)
    BY <2>1 DEF Held
  <2> QED
    BY <1>1, <1>2, <2>1, <2>2 DEF Apart, Unfreed, Given
<1>3. ASSUME NEW b \in Builders
      PROVE  Apart' /\ Unfreed' /\ Given'
  BY <1>1, Dropping
<1> QED
  BY <1>2, <1>3

LEMMA OwnStep ==
    ASSUME TypeOK, OwnInv, [Next]_vars
    PROVE  OwnInv'
<1> USE HolderNames
<1>0. Apart /\ Unfreed /\ Given /\ Pending
  BY DEF OwnInv
<1>1. ASSUME NEW b \in Builders, New(b)
      PROVE  OwnInv'
  <2>1. Held(holds') \subseteq Held(holds)
    BY <1>1 DEF New
  <2>2. Apart' /\ Unfreed' /\ Given'
    BY <1>0, <1>1, <2>1, Copying DEF New
  <2>3. Pending'
    BY <1>0, <1>1 DEF New, Pending, Mine, TypeOK
  <2> QED
    BY <2>2, <2>3 DEF OwnInv
<1>2. ASSUME NEW b \in Builders, DropBuilder(b)
      PROVE  OwnInv'
  <2>1. pending[b] = {}
    BY <1>0, <1>2 DEF DropBuilder, Pending
  <2>2. /\ \A c \in Builders : owned'[c] \subseteq owned[c]
        /\ owned'[b] = {}
        /\ Pending'
    BY <1>0, <1>2, <2>1, Consuming DEF DropBuilder
  <2>3. Held(WithoutReader(holds, b)) \subseteq Held(holds)
    BY ReaderShrinks DEF TypeOK
  <2>4. Mine(b) \in SUBSET Infos
    BY DEF Mine, TypeOK
  <2>5. Apart' /\ Unfreed' /\ Given'
    BY <1>0, <1>2, <2>2, <2>3, <2>4, Dropping DEF DropBuilder
  <2> QED
    BY <2>2, <2>5 DEF OwnInv
<1>3. ASSUME NEW b \in Builders, Begin(b)
      PROVE  OwnInv'
  <2>1. \A o \in Holders : holds'[o] \subseteq Held(holds)
    BY <1>3, HeldInfos DEF Begin, TypeOK
  <2>2. Held(holds') \subseteq Held(holds)
    BY <2>1, HeldShrinks
  <2>3. Apart' /\ Unfreed' /\ Given'
    BY <1>0, <1>3, <2>2, Copying DEF Begin
  <2>4. Pending'
    BY <1>0, <1>3 DEF Begin, Pending, Mine, TypeOK
  <2> QED
    BY <2>3, <2>4 DEF OwnInv
<1>4. ASSUME NEW b \in Builders, BuildHandle(b)
      PROVE  OwnInv'
  <2>1. Held(holds) \subseteq Held(holds) /\ Mine(b) \in SUBSET Infos
    BY DEF Mine, TypeOK
  <2>2. (\A c \in Builders : owned'[c] \subseteq owned[c]) /\ owned'[b] = {}
    BY <1>4 DEF BuildHandle, TypeOK
  <2>3. Apart' /\ Unfreed' /\ Given'
    BY <1>0, <1>4, <2>1, <2>2, Dropping DEF BuildHandle
  <2>4. Pending'
    BY <1>0, <1>4 DEF BuildHandle, Pending, Mine, TypeOK
  <2> QED
    BY <2>3, <2>4 DEF OwnInv
<1>5. ASSUME NEW b \in Builders, Finish(b)
      PROVE  OwnInv'
  <2> DEFINE g == [holds EXCEPT ![Func(b)] = {}, ![Set(b)] = {}]
  <2>1. pending[b] = {}
    BY <1>0, <1>5 DEF Finish, Pending
  <2>2. /\ \A c \in Builders : owned'[c] \subseteq owned[c]
        /\ owned'[b] = {}
        /\ Pending'
    BY <1>0, <1>5, <2>1, Consuming DEF Finish
  <2>3. g \in [Holders -> SUBSET Infos] /\ Held(g) \subseteq Held(holds)
    <3>1. g \in [Holders -> SUBSET Infos]
      BY DEF TypeOK
    <3>2. \A o \in Holders : g[o] \subseteq Held(holds)
      BY HeldInfos DEF TypeOK
    <3> QED
      BY <3>1, <3>2, HeldShrinks
  <2>4. Held(WithoutReader(g, b)) \subseteq Held(holds)
    BY <2>3, ReaderShrinks
  <2>5. Mine(b) \in SUBSET Infos
    BY DEF Mine, TypeOK
  <2>6. /\ Settle(WithoutReader(g, b), Mine(b))
        /\ UNCHANGED <<transferred, given>>
    BY <1>5 DEF Finish
  <2>7. Apart' /\ Unfreed' /\ Given'
    BY <1>0, <2>2, <2>4, <2>5, <2>6, Dropping
  <2> QED
    BY <2>2, <2>7 DEF OwnInv
<1>6. ASSUME NEW b \in Builders, FinishAdrift(b)
      PROVE  OwnInv'
  <2>1. pending[b] = {}
    BY <1>0, <1>6 DEF FinishAdrift, Pending
  <2>2. /\ \A c \in Builders : owned'[c] \subseteq owned[c]
        /\ Pending'
    BY <1>0, <1>6, <2>1, Consuming DEF FinishAdrift
  <2>3. \A o \in Holders : holds'[o] \subseteq Held(holds)
    BY <1>6, HeldInfos DEF FinishAdrift, TypeOK
  <2>4. Held(holds') \subseteq Held(holds)
    BY <2>3, HeldShrinks
  <2>5. Apart' /\ Unfreed' /\ Given'
    BY <1>0, <1>6, <2>2, <2>4, Copying DEF FinishAdrift
  <2> QED
    BY <2>2, <2>5 DEF OwnInv
<1>7. ASSUME NEW b \in Builders, DropHandle(b)
      PROVE  OwnInv'
  <2> DEFINE g == [holds EXCEPT ![Func(b)] = {}]
  <2>1. Settle(g, {}) /\ UNCHANGED <<owned, transferred, given>>
    BY <1>7 DEF DropHandle
  <2>2. \A o \in Holders : g[o] \subseteq Held(holds)
    BY HeldInfos DEF TypeOK
  <2>3. Apart' /\ Unfreed' /\ Given'
    BY <1>0, <2>1, <2>2, LettingGo
  <2>4. Pending'
    BY <1>0, <1>7 DEF DropHandle, Pending, Mine, TypeOK
  <2> QED
    BY <2>3, <2>4 DEF OwnInv
<1>8. ASSUME NEW b \in Builders, EntryGone(b)
      PROVE  OwnInv'
  <2> DEFINE g == [holds EXCEPT ![Entry(b)] = {}]
  <2>1. Settle(g, {}) /\ UNCHANGED <<owned, transferred, given>>
    BY <1>8 DEF EntryGone
  <2>2. \A o \in Holders : g[o] \subseteq Held(holds)
    BY HeldInfos DEF TypeOK
  <2>3. Apart' /\ Unfreed' /\ Given'
    BY <1>0, <2>1, <2>2, LettingGo
  <2>4. Pending'
    BY <1>0, <1>8 DEF EntryGone, Pending, Mine
  <2> QED
    BY <2>3, <2>4 DEF OwnInv
<1>9. ASSUME NEW b \in Builders, NEW i \in Infos, SetExtraInfo(b, i)
      PROVE  OwnInv'
  <2>1. /\ \A c \in Builders : c # b => owned'[c] = owned[c]
        /\ owned'[b] = IF kind[b] = "set" THEN owned[b] \cup {i} ELSE {i}
        /\ transferred' = transferred /\ given' = given \cup {i}
        /\ i \notin given
    BY <1>9 DEF SetExtraInfo, TypeOK
  <2>2. /\ i \notin transferred /\ i \notin Held(holds) /\ freed[i] = 0
        /\ \A c \in Builders : i \notin owned[c]
    BY <1>0, <2>1 DEF Given
  <2>3. \A c \in Builders : c # b => Mine(c)' = Mine(c)
    BY <2>1 DEF Mine
  <2>4. Mine(b)' = IF kind[b] = "set" THEN Mine(b) \cup {i} ELSE {i}
    BY <2>1, <2>2 DEF Mine
  <2>5. /\ Held(holds)' = Held(holds)
        /\ \A j \in Infos : freed'[j] \in 0..1
        /\ \A j \in Held(holds) : freed'[j] = 0
        /\ \A c \in Builders : c # b => \A j \in Mine(c) : freed'[j] = 0
        /\ kind[b] = "set" => \A j \in Mine(b) : freed'[j] = 0
        /\ freed'[i] = 0
        /\ \A j \in Infos \ given : freed'[j] = 0
    <3>1. CASE kind[b] = "set"
      <4>1. holds' = holds /\ freed' = freed
        BY <1>9, <3>1 DEF SetExtraInfo
      <4> QED
        BY <1>0, <2>2, <4>1 DEF Unfreed, Given, Held
    <3>2. CASE kind[b] # "set"
      <4>1. Settle(holds, Mine(b))
        BY <1>9, <3>2 DEF SetExtraInfo
      <4>2. /\ Mine(b) \in SUBSET Infos /\ Mine(b) \cap Held(holds) = {}
            /\ \A j \in Mine(b) : freed[j] = 0 /\ j \in given
        BY <1>0 DEF Apart, Unfreed, Given, Mine, TypeOK
      <4>3. /\ Held(holds') = Held(holds)
            /\ \A j \in Infos : freed'[j] \in 0..1
            /\ \A j \in Held(holds) : freed'[j] = 0
            /\ \A j \in Infos \ (Mine(b) \cup Held(holds)) :
                  freed'[j] = freed[j]
            /\ \A j \in Infos \ given : freed'[j] = 0
        BY <1>0, <4>1, <4>2, SettleFrees
      <4>4. \A c \in Builders : c # b => \A j \in Mine(c) : freed'[j] = 0
        <5> SUFFICES ASSUME NEW c \in Builders, c # b, NEW j \in Mine(c)
                     PROVE  freed'[j] = 0
          OBVIOUS
        <5>1. j \in Infos /\ j \notin Mine(b) /\ j \notin Held(holds)
          BY <1>0 DEF Apart, Mine, TypeOK
        <5>2. freed[j] = 0
          BY <1>0 DEF Unfreed
        <5> QED
          BY <4>3, <5>1, <5>2
      <4>5. Held(holds)' = Held(holds)
        BY <4>1 DEF Settle, Held
      <4> QED
        BY <2>1, <3>2, <4>3, <4>4, <4>5
    <3> QED
      BY <3>1, <3>2
  <2>6. Apart'
    BY <1>0, <2>1, <2>2, <2>3, <2>4, <2>5 DEF Apart
  <2>7. Unfreed'
    BY <1>0, <2>3, <2>4, <2>5 DEF Unfreed
  <2>8. Given'
    BY <1>0, <2>1, <2>5 DEF Given
  <2>9. Pending'
    <3>1. pending' = pending /\ stage' = stage /\ reader' = reader
      BY <1>9 DEF SetExtraInfo
    <3>2. pending[b] = {} /\ owned[b] \subseteq Mine(b)
      BY <1>0, <1>9 DEF SetExtraInfo, Pending
    <3> QED
      BY <1>0, <2>1, <2>3, <2>4, <3>1, <3>2 DEF Pending
  <2> QED
    BY <2>6, <2>7, <2>8, <2>9 DEF OwnInv
<1>10. ASSUME NEW b \in Builders, NEW i \in Infos, Attach(b, i)
       PROVE  OwnInv'
  <2>1. i \in Mine(b) /\ i \in owned[b] /\ i \in given /\ freed[i] = 0
    BY <1>0, <1>10 DEF Attach, Pending, Mine, Given, Unfreed
  <2>2. /\ transferred' = transferred \cup {i}
        /\ UNCHANGED <<stage, owned, reader, freed, given>>
        /\ pending'[b] = pending[b] \ {i}
        /\ \A c \in Builders : c # b => pending'[c] = pending[c]
    BY <1>10 DEF Attach, TypeOK
  <2>3. Held(holds)' \subseteq Held(holds) \cup {i}
    BY <1>10 DEF Attach, Held, TypeOK
  <2>4. \A c \in Builders : Mine(c)' = Mine(c) \ {i}
    BY <2>2 DEF Mine
  <2>5. \A c \in Builders : c # b => i \notin owned[c]
    BY <1>0, <2>1 DEF Apart
  <2>6. Apart'
    BY <1>0, <2>2, <2>3, <2>4 DEF Apart
  <2>7. Unfreed'
    BY <1>0, <2>1, <2>2, <2>3, <2>4 DEF Unfreed
  <2>8. Given'
    BY <1>0, <2>1, <2>2, <2>3 DEF Given
  <2>9. Pending'
    <3>1. stage[b] = "building"
      BY <1>0, <1>10 DEF Attach, Pending
    <3>2. \A c \in Builders : c # b => Mine(c)' = Mine(c)
      BY <2>4, <2>5 DEF Mine
    <3> QED
      BY <1>0, <2>2, <2>4, <3>1, <3>2 DEF Pending
  <2> QED
    BY <2>6, <2>7, <2>8, <2>9 DEF OwnInv
<1>11. ASSUME NEW b \in Builders, NEW ok \in BOOLEAN, AddToSet(b, ok)
       PROVE  OwnInv'
  <2> DEFINE g == [holds EXCEPT
                     ![Func(b)] = {},
                     ![Set(b)] = IF ok THEN @ \cup holds[Func(b)] ELSE @]
  <2>1. Settle(g, {}) /\ UNCHANGED <<owned, transferred, given>>
    BY <1>11 DEF AddToSet
  <2>2. \A o \in Holders : g[o] \subseteq Held(holds)
    BY HeldInfos DEF TypeOK
  <2>3. Apart' /\ Unfreed' /\ Given'
    BY <1>0, <2>1, <2>2, LettingGo
  <2>4. Pending'
    BY <1>0, <1>11 DEF AddToSet, Pending, Mine
  <2> QED
    BY <2>3, <2>4 DEF OwnInv
<1>12. ASSUME NEW b \in Builders, NEW ok \in BOOLEAN, Register(b, ok)
       PROVE  OwnInv'
  <2>1. Source(b) \in Holders
    BY DEF Source
  <2>2. \A o \in Holders : holds'[o] \subseteq Held(holds)
    BY <1>12, <2>1, HeldInfos DEF Register, TypeOK
  <2>3. Held(holds') \subseteq Held(holds)
    BY <2>2, HeldShrinks
  <2>4. Apart' /\ Unfreed' /\ Given'
    BY <1>0, <1>12, <2>3, Copying DEF Register
  <2>5. /\ UNCHANGED <<pending, owned, transferred, reader>>
        /\ stage' \in {[stage EXCEPT ![b] = "registered"],
                       [stage EXCEPT ![b] = "refused"]}
        /\ stage[b] \in {"handle", "building"}
    BY <1>12 DEF Register, Complete
  <2>6. pending[b] = {}
    BY <1>0, <1>12 DEF Register, Complete, Pending
  <2>7. Pending'
    BY <1>0, <2>5, <2>6 DEF Pending, Mine, TypeOK
  <2> QED
    BY <2>4, <2>7 DEF OwnInv
<1>13. ASSUME NEW b \in Builders, NEW c \in Builders, CopyFrom(c, b)
       PROVE  OwnInv'
  <2>1. Held(WithoutReader(holds, c)) \subseteq Held(holds)
    BY ReaderShrinks DEF TypeOK
  <2>2. \A o \in Holders : WithoutReader(holds, c)[o] \subseteq Held(holds)
    BY HeldInfos DEF WithoutReader, TypeOK
  <2>3. Apart' /\ Unfreed' /\ Given'
    BY <1>0, <1>13, <2>2, LettingGo DEF CopyFrom
  <2>4. /\ \A d \in Builders : stage'[d] = IF d = b THEN "attached"
                                          ELSE IF d = reader[c] THEN "done"
                                          ELSE stage[d]
        /\ \A d \in Builders : reader'[d] = IF d = c THEN b ELSE reader[d]
        /\ UNCHANGED <<owned, pending, transferred>>
        /\ stage[b] = "handle"
    BY <1>13 DEF CopyFrom, TypeOK
  <2>5. \A d \in Builders : d = b \/ d = reader[c] => pending[d] = {}
    BY <1>0, <2>4, ExtraInfoAssumption DEF Pending
  <2>6. \A d \in Builders : reader[d] # None =>
            reader[d] \in Builders /\ stage[reader[d]] \in {"attached", "done"}
    BY <1>0 DEF Pending, TypeOK
  <2>7. \A d \in Builders : Mine(d)' = Mine(d)
    BY <2>4 DEF Mine
  <2>8. Pending'
    BY <1>0, <2>4, <2>5, <2>6, <2>7 DEF Pending
  <2> QED
    BY <2>3, <2>8 DEF OwnInv
<1>14. ASSUME NEW b \in Builders, NEW c \in Builders, CopyFromRefused(c, b)
       PROVE  OwnInv'
  <2> DEFINE g == [holds EXCEPT ![Func(b)] = {}]
  <2>1. g \in [Holders -> SUBSET Infos] /\ Held(g) \subseteq Held(holds)
    <3>1. g \in [Holders -> SUBSET Infos]
      BY DEF TypeOK
    <3>2. \A o \in Holders : g[o] \subseteq Held(holds)
      BY HeldInfos DEF TypeOK
    <3> QED
      BY <3>1, <3>2, HeldShrinks
  <2>2. Held(WithoutReader(g, c)) \subseteq Held(holds)
    BY <2>1, ReaderShrinks
  <2>3. /\ Settle(WithoutReader(g, c), Mine(c))
        /\ UNCHANGED <<pending, transferred, given>>
        /\ \A d \in Builders : owned'[d] = IF d = c THEN {} ELSE owned[d]
        /\ \A d \in Builders : stage'[d] = IF d \in {b, c, reader[c]}
                                          THEN "done" ELSE stage[d]
        /\ \A d \in Builders : reader'[d] = IF d = c THEN None ELSE reader[d]
        /\ stage[b] = "handle" /\ stage[c] = "open"
    BY <1>14 DEF CopyFromRefused, TypeOK
  <2>4. Mine(c) \in SUBSET Infos
    BY DEF Mine, TypeOK
  <2>5. Apart' /\ Unfreed' /\ Given'
    BY <1>0, <2>2, <2>3, <2>4, Dropping
  <2>6. \A d \in {b, c, reader[c]} : d \in Builders => pending[d] = {}
    BY <1>0, <2>3, ExtraInfoAssumption DEF Pending
  <2>7. \A d \in Builders : d # c => Mine(d)' = Mine(d)
    BY <2>3 DEF Mine
  <2>8. \A d \in Builders : reader[d] # None =>
            reader[d] \in Builders /\ stage[reader[d]] \in {"attached", "done"}
    BY <1>0 DEF Pending, TypeOK
  <2>9. Pending'
    BY <1>0, <2>3, <2>6, <2>7, <2>8 DEF Pending
  <2> QED
    BY <2>5, <2>9 DEF OwnInv
<1>15. ASSUME NEW b \in Builders, NEW q \in Plans, PlanStart(q, b)
       PROVE  OwnInv'
  <2>1. \A o \in Holders : holds'[o] \subseteq Held(holds)
    BY <1>15, HeldInfos DEF PlanStart, TypeOK
  <2>2. Held(holds') \subseteq Held(holds)
    BY <2>1, HeldShrinks
  <2>3. Apart' /\ Unfreed' /\ Given'
    BY <1>0, <1>15, <2>2, Copying DEF PlanStart
  <2>4. Pending'
    BY <1>0, <1>15 DEF PlanStart, Pending, Mine
  <2> QED
    BY <2>3, <2>4 DEF OwnInv
<1>16. ASSUME NEW q \in Plans, PlanEnd(q)
       PROVE  OwnInv'
  <2> DEFINE g == [holds EXCEPT ![Plan(q)] = {}]
  <2>1. Settle(g, {}) /\ UNCHANGED <<owned, transferred, given>>
    BY <1>16 DEF PlanEnd
  <2>2. \A o \in Holders : g[o] \subseteq Held(holds)
    BY HeldInfos DEF TypeOK
  <2>3. Apart' /\ Unfreed' /\ Given'
    BY <1>0, <2>1, <2>2, LettingGo
  <2>4. Pending'
    BY <1>0, <1>16 DEF PlanEnd, Pending, Mine
  <2> QED
    BY <2>3, <2>4 DEF OwnInv
<1>17. CASE UNCHANGED vars
  BY <1>0, <1>17 DEF vars, OwnInv, Apart, Unfreed, Given, Pending, Mine, Held
<1> QED
  BY <1>1, <1>2, <1>3, <1>4, <1>5, <1>6, <1>7, <1>8, <1>9, <1>10, <1>11,
     <1>12, <1>13, <1>14, <1>15, <1>16, <1>17 DEF Next

THEOREM OwnCorrect == Spec => []OwnInv
<1>1. Init => OwnInv
  BY DEF Init, OwnInv, Apart, Unfreed, Given, Pending, Mine, Held
<1> QED
  BY <1>1, OwnStep, TypeCorrect, PTL DEF Spec

\* No info is ever freed twice.
THEOREM FreedOnceCorrect == Spec => []FreedOnce
<1>1. OwnInv => FreedOnce
  BY DEF OwnInv, Unfreed, FreedOnce
<1> QED
  BY <1>1, OwnCorrect, PTL

\* No info is freed while a builder or an object of DuckDB holds it.
THEOREM InUseCorrect == Spec => []NotFreedInUse
<1>1. OwnInv => NotFreedInUse
  BY DEF OwnInv, Unfreed, NotFreedInUse
<1> QED
  BY <1>1, OwnCorrect, PTL

\* The two together: an info is freed once, after its last use
\* (extra_info.rs).
THEOREM FreedCorrect == Spec => []FreedRight
  BY FreedOnceCorrect, InUseCorrect, PTL DEF FreedRight

-----------------------------------------------------------------------------
(* Nothing is lost.  A handle that holds an info has someone to destroy    *)
(* it, and what is not freed is held or its builder's.                     *)

\* The builder's register, or the copy builder that took its handle, is to
\* destroy the function.
Anchored(b) ==
    \/ stage[b] \in {"building", "handle", "registered", "refused"}
    \/ \E c \in Builders :
          reader[c] = b /\ stage[c] \in {"open", "building", "registered", "refused"}

Shape ==
    \A b \in Builders :
        /\ holds[Func(b)] # {} => Anchored(b)
        /\ holds[Set(b)] # {} =>
              kind[b] = "set" /\ stage[b] \in {"building", "registered", "refused"}
        /\ holds[Entry(b)] # {} => stage[b] \in {"registered", "done"}
        /\ stage[b] \in {"handle", "attached"} => kind[b] = "table"
        /\ reader[b] # None => kind[b] = "copy" /\ kind[reader[b]] = "table"
        /\ stage[b] \in {"building", "handle", "registered", "refused"}
              => Mine(b) \subseteq pending[b]

Somewhere ==
    \A i \in given \ adrift :
        freed[i] = 0 => i \in Held(holds) \/ \E b \in Builders : i \in Mine(b)

LossInv == Shape /\ Somewhere

\* Settling frees what no object holds any more, and what is dropped.
LEMMA SettleKeeps ==
    ASSUME TypeOK, NEW h, NEW D, Settle(h, D)
    PROVE  /\ holds' = h
           /\ \A i \in Infos : freed'[i] = 0 =>
                 /\ freed[i] = 0 /\ i \notin D
                 /\ i \in Held(holds) => i \in Held(h)
<1>1. \A i \in Infos : freed'[i] = freed[i] + Once(Held(holds) \ Held(h), i)
                                            + Once(D, i)
  BY DEF Settle
<1>2. \A S, i : Once(S, i) \in Nat /\ (Once(S, i) = 0 => i \notin S)
  BY DEF Once
<1>3. \A i \in Infos : freed[i] \in Nat
  BY DEF TypeOK
<1>4. ASSUME NEW i \in Infos, freed'[i] = 0
      PROVE  freed[i] = 0 /\ i \notin D /\ i \notin Held(holds) \ Held(h)
  <2>1. freed[i] + Once(Held(holds) \ Held(h), i) + Once(D, i) = 0
    BY <1>1, <1>4
  <2>2. Once(Held(holds) \ Held(h), i) = 0 /\ Once(D, i) = 0 /\ freed[i] = 0
    BY <1>2, <1>3, <2>1
  <2> QED
    BY <1>2, <2>2
<1>5. holds' = h
  BY DEF Settle
<1> QED
  BY <1>4, <1>5

\* A step that drops D, and lets DuckDB's objects go.
LEMMA SomewhereDropping ==
    ASSUME TypeOK, Somewhere, NEW h, NEW D, Settle(h, D),
           UNCHANGED <<given, adrift>>,
           \A c \in Builders : Mine(c) \subseteq Mine(c)' \cup D
    PROVE  Somewhere'
<1>1. /\ holds' = h
      /\ \A i \in Infos : freed'[i] = 0 =>
            /\ freed[i] = 0 /\ i \notin D
            /\ i \in Held(holds) => i \in Held(h)
  BY SettleKeeps
<1>2. Held(holds)' = Held(h)
  BY <1>1 DEF Held
<1>3. given \subseteq Infos
  BY DEF TypeOK
<1> QED
  BY <1>1, <1>2, <1>3 DEF Somewhere

\* A step that frees nothing.
LEMMA SomewhereCopying ==
    ASSUME TypeOK, Somewhere, UNCHANGED <<freed, given>>, adrift \subseteq adrift',
           Held(holds) \subseteq Held(holds)' \cup adrift',
           \A c \in Builders : Mine(c) \subseteq Mine(c)' \cup Held(holds)'
    PROVE  Somewhere'
  BY DEF Somewhere

\* Before register, and once it is over, a builder has no object of DuckDB.
LEMMA NoHandle ==
    ASSUME Shape, Pending, NEW b \in Builders
    PROVE  /\ stage[b] \in {"absent", "open"} => holds[Func(b)] = {}
           /\ stage[b] \notin {"building", "registered", "refused"} => holds[Set(b)] = {}
           /\ stage[b] \notin {"registered", "done"} => holds[Entry(b)] = {}
           /\ kind[b] # "copy" => reader[b] = None
  <1>1. stage[b] \in {"absent", "open"} => ~Anchored(b)
    BY ExtraInfoAssumption DEF Anchored, Pending
  <1> QED
    BY <1>1 DEF Shape

\* A step that is done with the builders S, their handles and their readers'.
LEMMA ShapeDone ==
    ASSUME TypeOK, Shape, NEW S \in SUBSET Builders,
           UNCHANGED <<kind, pending>>,
           \A d \in Builders : stage'[d] = IF d \in S THEN "done" ELSE stage[d],
           \A d \in Builders : reader'[d] = reader[d] \/ (d \in S /\ reader'[d] = None),
           \A d \in S : reader[d] # None => reader[d] \in S,
           \A o \in Holders : holds'[o] \subseteq holds[o],
           \A d \in S : holds'[Func(d)] = {} /\ holds'[Set(d)] = {},
           \A d \in Builders : Mine(d)' \subseteq Mine(d)
    PROVE  Shape'
<1>1. ASSUME NEW b \in Builders
      PROVE  /\ holds'[Func(b)] # {} => Anchored(b)'
             /\ holds'[Set(b)] # {} =>
                   kind'[b] = "set" /\ stage'[b] \in {"building", "registered", "refused"}
             /\ holds'[Entry(b)] # {} => stage'[b] \in {"registered", "done"}
             /\ stage'[b] \in {"handle", "attached"} => kind'[b] = "table"
             /\ reader'[b] # None => kind'[b] = "copy" /\ kind'[reader'[b]] = "table"
             /\ stage'[b] \in {"building", "handle", "registered", "refused"}
                   => Mine(b)' \subseteq pending'[b]
  <2>1. /\ holds'[Func(b)] \subseteq holds[Func(b)]
        /\ holds'[Set(b)] \subseteq holds[Set(b)]
        /\ holds'[Entry(b)] \subseteq holds[Entry(b)]
    BY HolderNames
  <2>2. ASSUME holds'[Func(b)] # {}
        PROVE  Anchored(b)'
    <3>1. b \notin S /\ Anchored(b)
      BY <2>1, <2>2 DEF Shape
    <3>2. CASE stage[b] \in {"building", "handle", "registered", "refused"}
      BY <3>1, <3>2 DEF Anchored
    <3>3. ASSUME NEW c \in Builders, reader[c] = b,
                 stage[c] \in {"open", "building", "registered", "refused"}
          PROVE  Anchored(b)'
      <4>1. b # None
        BY ExtraInfoAssumption
      <4>2. c \notin S
        BY <3>1, <3>3, <4>1
      <4> QED
        BY <3>3, <4>2 DEF Anchored
    <3> QED
      BY <3>1, <3>2, <3>3 DEF Anchored
  <2>3. holds'[Set(b)] # {} =>
           kind[b] = "set" /\ stage[b] \in {"building", "registered", "refused"} /\ b \notin S
    BY <2>1 DEF Shape
  <2>4. holds'[Entry(b)] # {} => stage[b] \in {"registered", "done"}
    BY <2>1 DEF Shape
  <2>5. /\ stage[b] \in {"handle", "attached"} => kind[b] = "table"
        /\ reader[b] # None => kind[b] = "copy" /\ kind[reader[b]] = "table"
        /\ stage[b] \in {"building", "handle", "registered", "refused"}
              => Mine(b) \subseteq pending[b]
    BY DEF Shape
  <2>6. stage'[b] = IF b \in S THEN "done" ELSE stage[b]
    OBVIOUS
  <2>7. Mine(b)' \subseteq Mine(b) /\ (reader'[b] # None => reader'[b] = reader[b])
    OBVIOUS
  <2> QED
    BY <2>2, <2>3, <2>4, <2>5, <2>6, <2>7
<1> QED
  BY <1>1 DEF Shape

\* The builder is done with, and its reader.
LEMMA ConsumeShape ==
    ASSUME TypeOK, Shape, Pending, NEW b \in Builders, Consume(b),
           UNCHANGED <<kind, pending, transferred>>,
           \A o \in Holders : holds'[o] \subseteq holds[o],
           holds'[Func(b)] = {}, holds'[Set(b)] = {},
           reader[b] # None => holds'[Func(reader[b])] = {}
    PROVE  Shape'
<1> DEFINE S == {d \in Builders : d = b \/ d = reader[b]}
<1>1. /\ \A d \in Builders : stage'[d] = IF d \in S THEN "done" ELSE stage[d]
      /\ \A d \in Builders : reader'[d] = IF d = b THEN None ELSE reader[d]
      /\ \A d \in Builders : owned'[d] \subseteq owned[d]
  BY DEF Consume, TypeOK
<1>2. S \in SUBSET Builders /\ b \in S
  OBVIOUS
<1>3. ASSUME NEW d \in S
      PROVE  /\ reader[d] # None => reader[d] \in S
             /\ holds'[Func(d)] = {} /\ holds'[Set(d)] = {}
  <2>1. CASE d = b
    BY <2>1 DEF TypeOK
  <2>2. CASE d # b
    <3>1. d \in Builders /\ d = reader[b] /\ reader[b] # None
      BY <2>2, ExtraInfoAssumption
    <3>2. stage[d] \in {"attached", "done"} /\ kind[b] = "copy"
      BY <3>1 DEF Pending, Shape
    <3>3. holds[Set(d)] = {}
      BY <3>1, <3>2, NoHandle
    <3>4. holds'[Set(d)] = {} /\ holds'[Func(d)] = {}
      BY <3>1, <3>3, HolderNames
    <3>5. reader[d] = None
      <4>1. kind[d] = "table"
        BY <3>1 DEF Shape
      <4> QED
        BY <3>1, <4>1, NoHandle
    <3> QED
      BY <3>4, <3>5
  <2> QED
    BY <2>1, <2>2
<1>4. \A d \in Builders : Mine(d)' \subseteq Mine(d)
  BY <1>1 DEF Mine
<1> HIDE DEF S
<1> QED
  BY <1>1, <1>2, <1>3, <1>4, ShapeDone

\* A step that leaves the stages alone, and takes nothing into a handle.
LEMMA ShapeStill ==
    ASSUME TypeOK, Shape, UNCHANGED <<kind, stage, reader, pending>>,
           \A b \in Builders :
              /\ holds'[Func(b)] \subseteq holds[Func(b)]
              /\ holds'[Set(b)] \subseteq holds[Set(b)]
              /\ holds'[Entry(b)] \subseteq holds[Entry(b)]
              /\ \/ Mine(b)' \subseteq Mine(b)
                 \/ stage[b] = "open"
    PROVE  Shape'
<1>1. \A b \in Builders : Anchored(b)' <=> Anchored(b)
  BY DEF Anchored
<1>2. ASSUME NEW b \in Builders
      PROVE  /\ holds'[Func(b)] # {} => Anchored(b)'
             /\ holds'[Set(b)] # {} =>
                   kind'[b] = "set" /\ stage'[b] \in {"building", "registered", "refused"}
             /\ holds'[Entry(b)] # {} => stage'[b] \in {"registered", "done"}
             /\ stage'[b] \in {"handle", "attached"} => kind'[b] = "table"
             /\ reader'[b] # None => kind'[b] = "copy" /\ kind'[reader'[b]] = "table"
             /\ stage'[b] \in {"building", "handle", "registered", "refused"}
                   => Mine(b)' \subseteq pending'[b]
  BY <1>1 DEF Shape
<1> QED
  BY <1>2 DEF Shape

\* A step that moves one builder to another stage of its register.
LEMMA ShapeMoves ==
    ASSUME TypeOK, Shape, Pending, NEW b \in Builders, UNCHANGED <<kind, reader>>,
           \A d \in Builders : d # b => stage'[d] = stage[d] /\ pending'[d] = pending[d],
           \A d \in Builders : d # b =>
              /\ holds'[Func(d)] = holds[Func(d)] /\ holds'[Set(d)] = holds[Set(d)]
              /\ holds'[Entry(d)] = holds[Entry(d)],
           stage[b] \in {"absent", "open"} => stage'[b] \in {"open", "building"},
           stage[b] \in {"building", "handle"} =>
              stage'[b] \in {"building", "handle", "registered", "refused"},
           stage'[b] # "attached" /\ stage[b] \in {"absent", "open", "building", "handle"},
           stage[b] = "handle" => stage'[b] # "building",
           stage'[b] = "handle" => kind[b] = "table",
           holds'[Func(b)] # {} => stage'[b] \in {"building", "handle", "registered", "refused"},
           holds'[Set(b)] # {} =>
              kind[b] = "set" /\ stage'[b] \in {"building", "registered", "refused"},
           holds'[Entry(b)] # {} => stage'[b] = "registered",
           stage'[b] # "open" => Mine(b)' \subseteq pending'[b],
           \A d \in Builders : d # b => Mine(d)' \subseteq Mine(d)
    PROVE  Shape'
<1>1. ASSUME NEW d \in Builders, d # b
      PROVE  /\ holds'[Func(d)] # {} => Anchored(d)'
             /\ holds'[Set(d)] # {} =>
                   kind'[d] = "set" /\ stage'[d] \in {"building", "registered", "refused"}
             /\ holds'[Entry(d)] # {} => stage'[d] \in {"registered", "done"}
             /\ stage'[d] \in {"handle", "attached"} => kind'[d] = "table"
             /\ reader'[d] # None => kind'[d] = "copy" /\ kind'[reader'[d]] = "table"
             /\ stage'[d] \in {"building", "handle", "registered", "refused"}
                   => Mine(d)' \subseteq pending'[d]
  <2>1. ASSUME Anchored(d)
        PROVE  Anchored(d)'
    <3>1. CASE stage[d] \in {"building", "handle", "registered", "refused"}
      BY <1>1, <3>1 DEF Anchored
    <3>2. ASSUME NEW c \in Builders, reader[c] = d,
                 stage[c] \in {"open", "building", "registered", "refused"}
          PROVE  Anchored(d)'
      <4>1. stage'[c] \in {"open", "building", "registered", "refused"}
        <5>1. CASE c # b
          BY <3>2, <5>1
        <5>2. CASE c = b
          <6>1. kind[b] = "copy"
            BY <3>2, <5>2, ExtraInfoAssumption DEF Shape
          <6> QED
            BY <3>2, <5>2, <6>1
        <5> QED
          BY <5>1, <5>2
      <4> QED
        BY <3>2, <4>1 DEF Anchored
    <3> QED
      BY <2>1, <3>1, <3>2 DEF Anchored
  <2>2. Mine(d)' \subseteq Mine(d) /\ stage'[d] = stage[d] /\ pending'[d] = pending[d]
    BY <1>1
  <2>3. /\ holds'[Func(d)] = holds[Func(d)] /\ holds'[Set(d)] = holds[Set(d)]
        /\ holds'[Entry(d)] = holds[Entry(d)]
    BY <1>1
  <2> QED
    BY <2>1, <2>2, <2>3 DEF Shape
<1>2. /\ holds'[Func(b)] # {} => Anchored(b)'
      /\ holds'[Set(b)] # {} =>
            kind'[b] = "set" /\ stage'[b] \in {"building", "registered", "refused"}
      /\ holds'[Entry(b)] # {} => stage'[b] \in {"registered", "done"}
      /\ stage'[b] \in {"handle", "attached"} => kind'[b] = "table"
      /\ reader'[b] # None => kind'[b] = "copy" /\ kind'[reader'[b]] = "table"
      /\ stage'[b] \in {"building", "handle", "registered", "refused"}
            => Mine(b)' \subseteq pending'[b]
  <2>1. holds'[Func(b)] # {} => Anchored(b)'
    BY DEF Anchored
  <2>2. reader[b] # None => kind[b] = "copy" /\ kind[reader[b]] = "table"
    BY DEF Shape
  <2> QED
    BY <2>1, <2>2
<1> QED
  BY <1>1, <1>2 DEF Shape

\* DuckDB's objects are told apart by their kind and by what they are for.
LEMMA HoldersApart ==
    /\ \A b, c \in Builders : /\ Func(b) = Func(c) => b = c
                              /\ Set(b) = Set(c) => b = c
                              /\ Entry(b) = Entry(c) => b = c
                              /\ Func(b) # Set(c) /\ Func(b) # Entry(c)
                              /\ Set(b) # Entry(c)
    /\ \A b \in Builders, q \in Plans :
          Plan(q) \notin {Func(b), Set(b), Entry(b)}
  BY DEF Func, Set, Entry, Plan

LEMMA ReaderDropped ==
    ASSUME TypeOK, NEW h \in [Holders -> SUBSET Infos], NEW b \in Builders
    PROVE  /\ \A o \in Holders : WithoutReader(h, b)[o] \subseteq h[o]
           /\ \A o \in Holders :
                 ~(reader[b] # None /\ o = Func(reader[b])) => WithoutReader(h, b)[o] = h[o]
           /\ reader[b] # None => WithoutReader(h, b)[Func(reader[b])] = {}
<1>1. reader[b] # None => Func(reader[b]) \in Holders
  BY HolderNames DEF TypeOK
<1> QED
  BY <1>1 DEF WithoutReader

\* A builder that has handed everything over has nothing of its own.
LEMMA NothingMine ==
    ASSUME Shape, Pending, NEW b \in Builders,
           stage[b] \in {"handle", "registered", "refused"}
           \/ (stage[b] = "building" /\ pending[b] = {})
    PROVE  Mine(b) = {}
  BY DEF Shape, Pending

LEMMA CopyFromShape ==
    ASSUME TypeOK, Shape, Pending, NEW b \in Builders, NEW c \in Builders,
           CopyFrom(c, b)
    PROVE  Shape'
<1>1. /\ \A d \in Builders : stage'[d] = IF d = b THEN "attached"
                                        ELSE IF d = reader[c] THEN "done" ELSE stage[d]
      /\ \A d \in Builders : reader'[d] = IF d = c THEN b ELSE reader[d]
      /\ UNCHANGED <<kind, owned, pending, transferred>>
      /\ holds' = WithoutReader(holds, c)
      /\ stage[c] = "open" /\ kind[c] = "copy" /\ stage[b] = "handle"
  BY DEF CopyFrom, Settle, TypeOK
<1>2. kind[b] = "table"
  BY <1>1 DEF Shape
<1>3. /\ \A o \in Holders : holds'[o] \subseteq holds[o]
      /\ reader[c] # None => holds'[Func(reader[c])] = {}
  BY <1>1, ReaderDropped DEF TypeOK
<1>4. \A d \in Builders : reader[d] # None => stage[reader[d]] \in {"attached", "done"}
                                             /\ kind[reader[d]] = "table"
  BY DEF Pending, Shape
<1>5. \A d \in Builders : d # None
  BY ExtraInfoAssumption
<1>6. ASSUME NEW d \in Builders
      PROVE  /\ holds'[Func(d)] # {} => Anchored(d)'
             /\ holds'[Set(d)] # {} =>
                   kind'[d] = "set" /\ stage'[d] \in {"building", "registered", "refused"}
             /\ holds'[Entry(d)] # {} => stage'[d] \in {"registered", "done"}
             /\ stage'[d] \in {"handle", "attached"} => kind'[d] = "table"
             /\ reader'[d] # None => kind'[d] = "copy" /\ kind'[reader'[d]] = "table"
             /\ stage'[d] \in {"building", "handle", "registered", "refused"}
                   => Mine(d)' \subseteq pending'[d]
  <2>1. /\ holds'[Func(d)] \subseteq holds[Func(d)]
        /\ holds'[Set(d)] \subseteq holds[Set(d)]
        /\ holds'[Entry(d)] \subseteq holds[Entry(d)]
    BY <1>3, HolderNames
  <2>2. ASSUME holds'[Func(d)] # {}
        PROVE  Anchored(d)'
    <3>1. Anchored(d) /\ d # reader[c]
      BY <1>3, <1>5, <2>1, <2>2 DEF Shape
    <3>2. CASE d = b
      <4>1. reader'[c] = b /\ stage'[c] = "open"
        BY <1>1, <1>4, <1>5
      <4> QED
        BY <3>2, <4>1 DEF Anchored
    <3>3. CASE d # b /\ stage[d] \in {"building", "handle", "registered", "refused"}
      BY <1>1, <3>1, <3>3 DEF Anchored
    <3>4. ASSUME d # b, NEW e \in Builders, reader[e] = d,
                 stage[e] \in {"open", "building", "registered", "refused"}
          PROVE  Anchored(d)'
      <4>1. e # c /\ e # b /\ e # reader[c]
        BY <1>1, <1>4, <1>5, <3>1, <3>4
      <4>2. reader'[e] = d /\ stage'[e] = stage[e]
        BY <1>1, <3>4, <4>1
      <4> QED
        BY <3>4, <4>2 DEF Anchored
    <3> QED
      BY <3>1, <3>2, <3>3, <3>4 DEF Anchored
  <2>3. holds'[Set(d)] # {} =>
           kind[d] = "set" /\ stage[d] \in {"building", "registered", "refused"}
    BY <2>1 DEF Shape
  <2>4. holds'[Entry(d)] # {} => stage[d] \in {"registered", "done"}
    BY <2>1 DEF Shape
  <2>5. Mine(d)' = Mine(d)
    BY <1>1 DEF Mine
  <2>6. /\ stage[d] \in {"handle", "attached"} => kind[d] = "table"
        /\ reader[d] # None => kind[d] = "copy" /\ kind[reader[d]] = "table"
        /\ stage[d] \in {"building", "handle", "registered", "refused"}
              => Mine(d) \subseteq pending[d]
    BY DEF Shape
  <2>7. d = reader[c] => stage[d] \in {"attached", "done"}
    BY <1>4, <1>5
  <2> QED
    BY <1>1, <1>2, <2>2, <2>3, <2>4, <2>5, <2>6, <2>7
<1> QED
  BY <1>6 DEF Shape

LEMMA CopyFromRefusedShape ==
    ASSUME TypeOK, Shape, Pending, NEW b \in Builders, NEW c \in Builders,
           CopyFromRefused(c, b)
    PROVE  Shape'
<1> DEFINE S == {d \in Builders : d \in {b, c, reader[c]}}
           g == [holds EXCEPT ![Func(b)] = {}]
<1>1. /\ \A d \in Builders : stage'[d] = IF d \in S THEN "done" ELSE stage[d]
      /\ \A d \in Builders : reader'[d] = IF d = c THEN None ELSE reader[d]
      /\ \A d \in Builders : owned'[d] \subseteq owned[d]
      /\ UNCHANGED <<kind, pending, transferred>>
      /\ holds' = WithoutReader(g, c)
      /\ stage[c] = "open" /\ kind[c] = "copy" /\ stage[b] = "handle"
  BY DEF CopyFromRefused, Settle, TypeOK
<1>2. S \in SUBSET Builders /\ b \in S /\ c \in S
  OBVIOUS
<1>3. /\ g \in [Holders -> SUBSET Infos]
      /\ \A o \in Holders : g[o] \subseteq holds[o]
      /\ g[Func(b)] = {}
  BY HolderNames DEF TypeOK
<1>4. /\ \A o \in Holders : holds'[o] \subseteq g[o]
      /\ reader[c] # None => holds'[Func(reader[c])] = {}
  BY <1>1, <1>3, ReaderDropped
<1> HIDE DEF g
<1>5. ASSUME NEW d \in S
      PROVE  /\ reader[d] # None => reader[d] \in S
             /\ holds'[Func(d)] = {} /\ holds'[Set(d)] = {}
  <2>1. CASE d = c
    <3>1. holds[Func(c)] = {} /\ holds[Set(c)] = {}
      BY <1>1, NoHandle
    <3> QED
      BY <1>3, <1>4, <2>1, <3>1, HolderNames DEF TypeOK
  <2>2. CASE d = b
    <3>1. holds[Set(b)] = {} /\ kind[b] = "table"
      BY <1>1, NoHandle DEF Shape
    <3>2. reader[b] = None
      BY <3>1, NoHandle
    <3> QED
      BY <1>3, <1>4, <2>2, <3>1, <3>2, HolderNames
  <2>3. CASE d = reader[c]
    <3>1. d \in Builders /\ reader[c] # None
      BY <2>3, ExtraInfoAssumption
    <3>2. stage[d] \in {"attached", "done"} /\ kind[d] = "table"
      BY <2>3, <3>1 DEF Pending, Shape
    <3>3. holds[Set(d)] = {} /\ reader[d] = None
      BY <3>1, <3>2, NoHandle
    <3> QED
      BY <1>3, <1>4, <2>3, <3>1, <3>3, HolderNames
  <2> QED
    BY <2>1, <2>2, <2>3
<1>6. \A d \in Builders : Mine(d)' \subseteq Mine(d)
  BY <1>1 DEF Mine
<1>7. \A o \in Holders : holds'[o] \subseteq holds[o]
  BY <1>3, <1>4
<1> HIDE DEF S
<1> QED
  BY <1>1, <1>2, <1>5, <1>6, <1>7, ShapeDone

LEMMA LossStep ==
    ASSUME TypeOK, OwnInv, LossInv, [Next]_vars
    PROVE  LossInv'
<1> USE HolderNames
<1>0. Shape /\ Somewhere /\ Pending /\ Apart
  BY DEF LossInv, OwnInv
<1>1. ASSUME NEW b \in Builders, New(b)
      PROVE  LossInv'
  <2>1. /\ stage' = [stage EXCEPT ![b] = "open"] /\ stage[b] = "absent"
        /\ UNCHANGED <<kind, owned, pending, transferred, reader, holds, freed,
                       adrift, given>>
    BY <1>1 DEF New
  <2>2. \A d \in Builders : Mine(d)' = Mine(d)
    BY <2>1 DEF Mine
  <2>3. holds[Func(b)] = {} /\ holds[Set(b)] = {} /\ holds[Entry(b)] = {}
    BY <1>0, <2>1, NoHandle
  <2>4. \A d \in Builders : stage'[d] = IF d = b THEN "open" ELSE stage[d]
    BY <2>1 DEF TypeOK
  <2>5. Shape'
    BY <1>0, <2>1, <2>2, <2>3, <2>4, ShapeMoves
  <2>6. Somewhere'
    BY <1>0, <2>1, <2>2 DEF Somewhere, Held
  <2> QED
    BY <2>5, <2>6 DEF LossInv
<1>2. ASSUME NEW b \in Builders, DropBuilder(b)
      PROVE  LossInv'
  <2>1. /\ Consume(b) /\ Settle(WithoutReader(holds, b), Mine(b))
        /\ stage[b] = "open"
        /\ UNCHANGED <<kind, pending, transferred, adrift, given>>
    BY <1>2 DEF DropBuilder
  <2>2. holds' = WithoutReader(holds, b)
    BY <2>1 DEF Settle
  <2>3. /\ \A o \in Holders : holds'[o] \subseteq holds[o]
        /\ reader[b] # None => holds'[Func(reader[b])] = {}
    BY <2>2, ReaderDropped DEF TypeOK
  <2>4. holds'[Func(b)] = {} /\ holds'[Set(b)] = {}
    BY <1>0, <2>1, <2>3, NoHandle
  <2>5. Shape'
    BY <1>0, <2>1, <2>3, <2>4, ConsumeShape
  <2>6. \A c \in Builders : Mine(c) \subseteq Mine(c)' \cup Mine(b)
    BY <2>1 DEF Mine, Consume, TypeOK
  <2>7. Somewhere'
    BY <1>0, <2>1, <2>6, SomewhereDropping
  <2> QED
    BY <2>5, <2>7 DEF LossInv
<1>3. ASSUME NEW b \in Builders, Begin(b)
      PROVE  LossInv'
  <2>1. /\ stage[b] = "open"
        /\ \A d \in Builders :
              /\ stage'[d] = IF d = b THEN "building" ELSE stage[d]
              /\ pending'[d] = IF d = b THEN owned[b] ELSE pending[d]
        /\ \A o \in Holders : o # Func(b) => holds'[o] = holds[o]
        /\ UNCHANGED <<kind, owned, transferred, reader, freed, adrift, given>>
    BY <1>3 DEF Begin, TypeOK
  <2>2. holds[Func(b)] = {} /\ holds[Set(b)] = {} /\ holds[Entry(b)] = {}
    BY <1>0, <2>1, NoHandle
  <2>3. \A d \in Builders : Mine(d)' = Mine(d) /\ Mine(d) \subseteq owned[d]
    BY <2>1 DEF Mine
  <2>4. \A d \in Builders : d # b =>
           /\ holds'[Func(d)] = holds[Func(d)] /\ holds'[Set(d)] = holds[Set(d)]
           /\ holds'[Entry(d)] = holds[Entry(d)]
    BY <2>1, HoldersApart
  <2>5. holds'[Set(b)] = {} /\ holds'[Entry(b)] = {}
    BY <2>1, <2>2, HoldersApart
  <2>6. Shape'
    BY <1>0, <2>1, <2>3, <2>4, <2>5, ShapeMoves
  <2>7. \A o \in Holders : holds[o] \subseteq holds'[o]
    BY <2>1, <2>2
  <2>8. Held(holds) \subseteq Held(holds)'
    BY <2>7 DEF Held
  <2>9. Somewhere'
    BY <1>0, <2>1, <2>3, <2>8, SomewhereCopying
  <2> QED
    BY <2>6, <2>9 DEF LossInv
<1>4. ASSUME NEW b \in Builders, BuildHandle(b)
      PROVE  LossInv'
  <2>1. /\ stage[b] = "building" /\ kind[b] = "table"
        /\ \A d \in Builders :
              /\ stage'[d] = IF d = b THEN "handle" ELSE stage[d]
              /\ owned'[d] = IF d = b THEN {} ELSE owned[d]
        /\ Settle(holds, Mine(b))
        /\ UNCHANGED <<kind, pending, transferred, reader, adrift, given>>
    BY <1>4 DEF BuildHandle, TypeOK
  <2>2. holds' = holds
    BY <2>1 DEF Settle
  <2>3. holds[Set(b)] = {} /\ holds[Entry(b)] = {}
    BY <1>0, <2>1, NoHandle DEF Shape
  <2>4. \A d \in Builders : Mine(d)' = IF d = b THEN {} ELSE Mine(d)
    BY <2>1 DEF Mine
  <2>5. Shape'
    BY <1>0, <2>1, <2>2, <2>3, <2>4, ShapeMoves
  <2>6. Somewhere'
    BY <1>0, <2>1, <2>4, SomewhereDropping
  <2> QED
    BY <2>5, <2>6 DEF LossInv
<1>5. ASSUME NEW b \in Builders, Finish(b)
      PROVE  LossInv'
  <2> DEFINE g == [holds EXCEPT ![Func(b)] = {}, ![Set(b)] = {}]
  <2>1. /\ Consume(b) /\ Settle(WithoutReader(g, b), Mine(b))
        /\ UNCHANGED <<kind, pending, transferred, adrift, given>>
    BY <1>5 DEF Finish
  <2>2. /\ g \in [Holders -> SUBSET Infos]
        /\ \A o \in Holders : g[o] \subseteq holds[o]
        /\ g[Func(b)] = {} /\ g[Set(b)] = {}
    BY HoldersApart DEF TypeOK
  <2> HIDE DEF g
  <2>3. holds' = WithoutReader(g, b)
    BY <2>1 DEF Settle
  <2>4. /\ \A o \in Holders : holds'[o] \subseteq g[o]
        /\ reader[b] # None => holds'[Func(reader[b])] = {}
    BY <2>2, <2>3, ReaderDropped
  <2>5. /\ holds'[Func(b)] = {} /\ holds'[Set(b)] = {}
        /\ \A o \in Holders : holds'[o] \subseteq holds[o]
    BY <2>2, <2>4
  <2>6. Shape'
    BY <1>0, <2>1, <2>4, <2>5, ConsumeShape
  <2>7. \A c \in Builders : Mine(c) \subseteq Mine(c)' \cup Mine(b)
    BY <2>1 DEF Mine, Consume, TypeOK
  <2>8. Somewhere'
    BY <1>0, <2>1, <2>7, SomewhereDropping
  <2> QED
    BY <2>6, <2>8 DEF LossInv
<1>6. ASSUME NEW b \in Builders, FinishAdrift(b)
      PROVE  LossInv'
  <2>1. /\ stage[b] = "refused" /\ kind[b] = "cast" /\ Consume(b)
        /\ holds' = [holds EXCEPT ![Func(b)] = {}]
        /\ adrift' = adrift \cup holds[Func(b)]
        /\ UNCHANGED <<kind, pending, transferred, freed, given>>
    BY <1>6 DEF FinishAdrift
  <2>2. \A o \in Holders : holds'[o] = IF o = Func(b) THEN {} ELSE holds[o]
    BY <2>1 DEF TypeOK
  <2>3. reader[b] = None /\ holds[Set(b)] = {} /\ Mine(b) = {}
    BY <1>0, <2>1, NoHandle, NothingMine DEF Shape
  <2>4. holds'[Func(b)] = {} /\ holds'[Set(b)] = {}
    BY <2>2, <2>3
  <2>5. Shape'
    BY <1>0, <2>1, <2>2, <2>3, <2>4, ConsumeShape
  <2>6. \A c \in Builders : Mine(c) \subseteq Mine(c)'
    BY <2>1, <2>3 DEF Mine, Consume, TypeOK
  <2>7. Held(holds) \subseteq Held(holds)' \cup adrift'
    BY <2>1, <2>2 DEF Held
  <2>8. Somewhere'
    BY <1>0, <2>1, <2>6, <2>7, SomewhereCopying
  <2> QED
    BY <2>5, <2>8 DEF LossInv
<1>7. ASSUME NEW b \in Builders, DropHandle(b)
      PROVE  LossInv'
  <2> DEFINE g == [holds EXCEPT ![Func(b)] = {}]
             S == {b}
  <2>1. /\ stage[b] = "handle" /\ Settle(g, {})
        /\ \A d \in Builders : stage'[d] = IF d \in S THEN "done" ELSE stage[d]
        /\ UNCHANGED <<kind, owned, pending, transferred, reader, adrift, given>>
    BY <1>7 DEF DropHandle, TypeOK
  <2>2. \A o \in Holders : holds'[o] = IF o = Func(b) THEN {} ELSE holds[o]
    BY <2>1 DEF Settle, TypeOK
  <2>3. kind[b] = "table" /\ holds[Set(b)] = {} /\ reader[b] = None
    BY <1>0, <2>1, NoHandle DEF Shape
  <2>4. \A d \in Builders : Mine(d)' = Mine(d)
    BY <2>1 DEF Mine
  <2>5. Shape'
    <3>1. \A d \in S : holds'[Func(d)] = {} /\ holds'[Set(d)] = {}
                       /\ (reader[d] # None => reader[d] \in S)
      BY <2>2, <2>3
    <3>2. S \in SUBSET Builders
      OBVIOUS
    <3>3. \A o \in Holders : holds'[o] \subseteq holds[o]
      BY <2>2
    <3>4. \A d \in Builders :
             /\ reader'[d] = reader[d] \/ (d \in S /\ reader'[d] = None)
             /\ Mine(d)' \subseteq Mine(d)
             /\ stage'[d] = IF d \in S THEN "done" ELSE stage[d]
      BY <2>1, <2>4
    <3>5. kind' = kind /\ pending' = pending
      BY <2>1
    <3> HIDE DEF S
    <3> QED
      BY <1>0, <3>1, <3>2, <3>3, <3>4, <3>5, ShapeDone
  <2>6. Somewhere'
    BY <1>0, <2>1, <2>4, SomewhereDropping
  <2> QED
    BY <2>5, <2>6 DEF LossInv
<1>8. ASSUME NEW b \in Builders, EntryGone(b)
      PROVE  LossInv'
  <2> DEFINE g == [holds EXCEPT ![Entry(b)] = {}]
  <2>1. /\ Settle(g, {})
        /\ UNCHANGED <<kind, stage, owned, pending, transferred, reader, adrift, given>>
    BY <1>8 DEF EntryGone
  <2>2. \A o \in Holders : holds'[o] \subseteq holds[o]
    BY <2>1 DEF Settle, TypeOK
  <2>3. \A d \in Builders : Mine(d)' = Mine(d)
    BY <2>1 DEF Mine
  <2>4. Shape'
    BY <1>0, <2>1, <2>2, <2>3, ShapeStill
  <2>5. Somewhere'
    BY <1>0, <2>1, <2>3, SomewhereDropping
  <2> QED
    BY <2>4, <2>5 DEF LossInv
<1>9. ASSUME NEW b \in Builders, NEW i \in Infos, SetExtraInfo(b, i)
      PROVE  LossInv'
  <2>1. /\ stage[b] = "open" /\ i \notin given /\ given' = given \cup {i}
        /\ \A c \in Builders : c # b => owned'[c] = owned[c]
        /\ i \in owned'[b] /\ (kind[b] = "set" => owned[b] \subseteq owned'[b])
        /\ holds' = holds
        /\ UNCHANGED <<kind, stage, pending, transferred, reader, adrift>>
    BY <1>9 DEF SetExtraInfo, Settle, TypeOK
  <2>2. i \notin transferred
    BY <2>1 DEF OwnInv, Given
  <2>3. /\ \A c \in Builders : c # b => Mine(c)' = Mine(c)
        /\ i \in Mine(b)' /\ (kind[b] = "set" => Mine(b) \subseteq Mine(b)')
    BY <2>1, <2>2 DEF Mine
  <2>4. Shape'
    BY <1>0, <2>1, <2>3, ShapeStill
  <2>5. \A j \in Infos : freed'[j] = 0 =>
           freed[j] = 0 /\ (kind[b] # "set" => j \notin Mine(b))
    <3>1. CASE kind[b] = "set"
      BY <1>9, <3>1 DEF SetExtraInfo
    <3>2. CASE kind[b] # "set"
      <4>1. Settle(holds, Mine(b))
        BY <1>9, <3>2 DEF SetExtraInfo
      <4> QED
        BY <4>1, SettleKeeps
    <3> QED
      BY <3>1, <3>2
  <2>6. given \subseteq Infos /\ Held(holds)' = Held(holds)
    BY <2>1 DEF TypeOK, Held
  <2>7. ASSUME NEW j \in given' \ adrift', freed'[j] = 0
        PROVE  j \in Held(holds)' \/ \E c \in Builders : j \in Mine(c)'
    <3>1. CASE j = i
      BY <2>3, <3>1
    <3>2. CASE j # i
      <4>1. j \in given \ adrift /\ freed[j] = 0
        BY <2>1, <2>5, <2>6, <2>7, <3>2
      <4>2. j \in Held(holds) \/ \E c \in Builders : j \in Mine(c)
        BY <1>0, <4>1 DEF Somewhere
      <4> QED
        BY <2>3, <2>5, <2>6, <2>7, <4>1, <4>2
    <3> QED
      BY <3>1, <3>2
  <2>8. Somewhere'
    BY <2>7 DEF Somewhere
  <2> QED
    BY <2>4, <2>8 DEF LossInv
<1>10. ASSUME NEW b \in Builders, NEW i \in Infos, Attach(b, i)
       PROVE  LossInv'
  <2>1. /\ stage[b] = "building" /\ transferred' = transferred \cup {i}
        /\ \A d \in Builders : pending'[d] = IF d = b THEN pending[b] \ {i} ELSE pending[d]
        /\ \A o \in Holders : holds'[o] = IF o = Func(b) THEN holds[o] \cup {i} ELSE holds[o]
        /\ UNCHANGED <<kind, stage, owned, reader, freed, adrift, given>>
    <3>1. stage[b] = "building"
      BY <1>0, <1>10 DEF Attach, Pending
    <3>2. /\ pending' = [pending EXCEPT ![b] = @ \ {i}]
          /\ holds' = [holds EXCEPT ![Func(b)] = @ \cup {i}]
          /\ transferred' = transferred \cup {i}
          /\ UNCHANGED <<kind, stage, owned, reader, freed, adrift, given>>
      BY <1>10 DEF Attach
    <3>3. \A o \in Holders : holds'[o] = IF o = Func(b) THEN holds[o] \cup {i} ELSE holds[o]
      BY <3>2 DEF TypeOK
    <3>4. \A d \in Builders : pending'[d] = IF d = b THEN pending[b] \ {i} ELSE pending[d]
      BY <3>2 DEF TypeOK
    <3> QED
      BY <3>1, <3>2, <3>3, <3>4
  <2>2. \A d \in Builders : Mine(d)' = Mine(d) \ {i}
    BY <2>1 DEF Mine
  <2>3. Mine(b) \subseteq pending[b]
    BY <1>0, <2>1 DEF Shape
  <2>4. \A d \in Builders : d # b =>
           /\ holds'[Func(d)] = holds[Func(d)] /\ holds'[Set(d)] = holds[Set(d)]
           /\ holds'[Entry(d)] = holds[Entry(d)]
    BY <2>1, HoldersApart
  <2>5. holds'[Set(b)] = holds[Set(b)] /\ holds'[Entry(b)] = holds[Entry(b)]
    BY <2>1, HoldersApart
  <2>6. Shape'
    <3>1. holds'[Set(b)] # {} => kind[b] = "set"
      BY <1>0, <2>5 DEF Shape
    <3>2. holds'[Entry(b)] = {}
      BY <1>0, <2>1, <2>5, NoHandle
    <3> QED
      BY <1>0, <2>1, <2>2, <2>3, <2>4, <3>1, <3>2, ShapeMoves
  <2>7. i \in Held(holds)' /\ Held(holds) \subseteq Held(holds)'
    BY <2>1 DEF Held
  <2>8. Somewhere'
    BY <1>0, <2>1, <2>2, <2>7, SomewhereCopying
  <2> QED
    BY <2>6, <2>8 DEF LossInv
<1>11. ASSUME NEW b \in Builders, NEW ok \in BOOLEAN, AddToSet(b, ok)
       PROVE  LossInv'
  <2> DEFINE g == [holds EXCEPT
                     ![Func(b)] = {},
                     ![Set(b)] = IF ok THEN @ \cup holds[Func(b)] ELSE @]
  <2>1. /\ Settle(g, {}) /\ stage[b] = "building" /\ kind[b] = "set"
        /\ UNCHANGED <<kind, stage, owned, pending, transferred, reader, adrift, given>>
    BY <1>11 DEF AddToSet
  <2>2. \A o \in Holders : o # Func(b) /\ o # Set(b) => holds'[o] = holds[o]
    BY <2>1 DEF Settle, TypeOK
  <2>3. \A d \in Builders : Mine(d)' = Mine(d)
    BY <2>1 DEF Mine
  <2>4. \A d \in Builders :
           /\ d # b => holds'[Func(d)] = holds[Func(d)] /\ holds'[Set(d)] = holds[Set(d)]
           /\ holds'[Entry(d)] = holds[Entry(d)]
    BY <2>2, HoldersApart
  <2>5. holds[Entry(b)] = {} /\ Mine(b) \subseteq pending[b]
    BY <1>0, <2>1, NoHandle DEF Shape
  <2>6. Shape'
    BY <1>0, <2>1, <2>3, <2>4, <2>5, ShapeMoves
  <2>7. Somewhere'
    BY <1>0, <2>1, <2>3, SomewhereDropping
  <2> QED
    BY <2>6, <2>7 DEF LossInv
<1>12. ASSUME NEW b \in Builders, NEW ok \in BOOLEAN, Register(b, ok)
       PROVE  LossInv'
  <2>1. /\ stage[b] \in {"handle", "building"}
        /\ stage[b] = "building" => pending[b] = {}
        /\ \A d \in Builders : d # b => stage'[d] = stage[d]
        /\ stage'[b] = IF ok THEN "registered" ELSE "refused"
        /\ UNCHANGED <<kind, owned, pending, transferred, reader, freed, adrift, given>>
    BY <1>12 DEF Register, Complete, TypeOK
  <2>2. Mine(b) = {} /\ holds[Entry(b)] = {}
    BY <1>0, <2>1, NothingMine, NoHandle
  <2>3. \A d \in Builders : Mine(d)' = Mine(d)
    BY <2>1 DEF Mine
  <2>4. /\ \A o \in Holders : o # Func(b) /\ o # Entry(b) => holds'[o] = holds[o]
        /\ ~ok => holds' = holds
    BY <1>12 DEF Register, TypeOK
  <2>5. \A d \in Builders :
           /\ d # b => holds'[Func(d)] = holds[Func(d)] /\ holds'[Entry(d)] = holds[Entry(d)]
           /\ holds'[Set(d)] = holds[Set(d)]
    BY <2>4, HoldersApart
  <2>6. holds'[Set(b)] # {} => kind[b] = "set"
    BY <1>0, <2>5 DEF Shape
  <2>7. ~ok => holds'[Entry(b)] = {}
    BY <2>2, <2>4
  <2>8. Shape'
    BY <1>0, <2>1, <2>2, <2>3, <2>5, <2>6, <2>7, ShapeMoves
  <2>9. Held(holds) \subseteq Held(holds)'
    <3>1. CASE ~ok
      BY <2>4, <3>1 DEF Held
    <3>2. CASE ok
      <4>1. holds'[Func(b)] = holds[Func(b)] \/ holds'[Entry(b)] = holds[Func(b)]
        <5>1. kind[b] = "cast" => Source(b) = Func(b)
          BY DEF Source
        <5> QED
          BY <1>12, <3>2, <5>1, HoldersApart DEF Register, TypeOK
      <4>2. \A o \in Holders : holds[o] \subseteq Held(holds)'
        BY <2>2, <2>4, <4>1 DEF Held, TypeOK
      <4> QED
        BY <4>2 DEF Held
    <3> QED
      BY <3>1, <3>2
  <2>10. Somewhere'
    BY <1>0, <2>1, <2>3, <2>9, SomewhereCopying
  <2> QED
    BY <2>8, <2>10 DEF LossInv
<1>13. ASSUME NEW b \in Builders, NEW c \in Builders, CopyFrom(c, b)
       PROVE  LossInv'
  <2>1. /\ Settle(WithoutReader(holds, c), {})
        /\ UNCHANGED <<owned, transferred, adrift, given>>
    BY <1>13 DEF CopyFrom
  <2>2. \A d \in Builders : Mine(d)' = Mine(d)
    BY <2>1 DEF Mine
  <2>3. Somewhere'
    BY <1>0, <2>1, <2>2, SomewhereDropping
  <2> QED
    BY <1>0, <1>13, <2>3, CopyFromShape DEF LossInv
<1>14. ASSUME NEW b \in Builders, NEW c \in Builders, CopyFromRefused(c, b)
       PROVE  LossInv'
  <2>1. /\ Settle(WithoutReader([holds EXCEPT ![Func(b)] = {}], c), Mine(c))
        /\ owned' = [owned EXCEPT ![c] = {}]
        /\ UNCHANGED <<transferred, adrift, given>>
    BY <1>14 DEF CopyFromRefused
  <2>2. \A d \in Builders : Mine(d) \subseteq Mine(d)' \cup Mine(c)
    BY <2>1 DEF Mine, TypeOK
  <2>3. Somewhere'
    BY <1>0, <2>1, <2>2, SomewhereDropping
  <2> QED
    BY <1>0, <1>14, <2>3, CopyFromRefusedShape DEF LossInv
<1>15. ASSUME NEW b \in Builders, NEW q \in Plans, PlanStart(q, b)
       PROVE  LossInv'
  <2>1. /\ holds[Plan(q)] = {}
        /\ \A o \in Holders : o # Plan(q) => holds'[o] = holds[o]
        /\ UNCHANGED <<kind, stage, owned, pending, transferred, reader, freed,
                       adrift, given>>
    BY <1>15 DEF PlanStart, TypeOK
  <2>2. \A d \in Builders : Mine(d)' = Mine(d)
    BY <2>1 DEF Mine
  <2>3. \A d \in Builders :
           /\ holds'[Func(d)] = holds[Func(d)] /\ holds'[Set(d)] = holds[Set(d)]
           /\ holds'[Entry(d)] = holds[Entry(d)]
    BY <2>1, HoldersApart
  <2>4. Shape'
    BY <1>0, <2>1, <2>2, <2>3, ShapeStill
  <2>5. \A o \in Holders : holds[o] \subseteq holds'[o]
    BY <2>1
  <2>6. Held(holds) \subseteq Held(holds)'
    BY <2>5 DEF Held
  <2>7. Somewhere'
    BY <1>0, <2>1, <2>2, <2>6, SomewhereCopying
  <2> QED
    BY <2>4, <2>7 DEF LossInv
<1>16. ASSUME NEW q \in Plans, PlanEnd(q)
       PROVE  LossInv'
  <2> DEFINE g == [holds EXCEPT ![Plan(q)] = {}]
  <2>1. /\ Settle(g, {})
        /\ UNCHANGED <<kind, stage, owned, pending, transferred, reader, adrift, given>>
    BY <1>16 DEF PlanEnd
  <2>2. \A o \in Holders : holds'[o] \subseteq holds[o]
    BY <2>1 DEF Settle, TypeOK
  <2>3. \A d \in Builders : Mine(d)' = Mine(d)
    BY <2>1 DEF Mine
  <2>4. Shape'
    BY <1>0, <2>1, <2>2, <2>3, ShapeStill
  <2>5. Somewhere'
    BY <1>0, <2>1, <2>3, SomewhereDropping
  <2> QED
    BY <2>4, <2>5 DEF LossInv
<1>17. CASE UNCHANGED vars
  BY <1>0, <1>17 DEF vars, LossInv, Shape, Anchored, Somewhere, Mine, Held
<1> QED
  BY <1>1, <1>2, <1>3, <1>4, <1>5, <1>6, <1>7, <1>8, <1>9, <1>10, <1>11,
     <1>12, <1>13, <1>14, <1>15, <1>16, <1>17 DEF Next

\* Every info is somewhere it will be freed from, or was freed; only a cast
\* that DuckDB refused may lose its own (extra_info.rs).
THEOREM LossCorrect == Spec => []NothingLost
<1>1. Init => LossInv
  BY DEF Init, LossInv, Shape, Somewhere, Mine, Holders, Func, Set, Entry
<1>2. LossInv => NothingLost
  <2> SUFFICES ASSUME Shape, Somewhere, NEW i \in given \ adrift, freed[i] = 0
               PROVE  Reachable(i)
    BY DEF LossInv, NothingLost
  <2>1. CASE \E b \in Builders : i \in Mine(b)
    BY <2>1 DEF Reachable
  <2>2. ASSUME NEW b \in Builders, i \in holds[Func(b)]
        PROVE  Reachable(i)
    <3>1. Anchored(b)
      BY <2>2 DEF Shape
    <3> QED
      BY <2>2, <3>1 DEF Anchored, Reachable
  <2>3. ASSUME NEW b \in Builders, i \in holds[Set(b)]
        PROVE  Reachable(i)
    <3>1. stage[b] \in {"building", "registered", "refused"}
      BY <2>3 DEF Shape
    <3> QED
      BY <2>3, <3>1 DEF Reachable
  <2>4. ASSUME NEW b \in Builders, i \in holds[Entry(b)]
        PROVE  Reachable(i)
    BY <2>4 DEF Reachable
  <2>5. ASSUME NEW q \in Plans, i \in holds[Plan(q)]
        PROVE  Reachable(i)
    BY <2>5 DEF Reachable
  <2>6. \A o \in Holders : \/ \E b \in Builders : o \in {Func(b), Set(b), Entry(b)}
                           \/ \E q \in Plans : o = Plan(q)
    BY DEF Holders, Func, Set, Entry, Plan
  <2>7. ASSUME NEW o \in Holders, i \in holds[o]
        PROVE  Reachable(i)
    BY <2>2, <2>3, <2>4, <2>5, <2>6, <2>7
  <2> QED
    BY <2>1, <2>7 DEF Somewhere, Held
<1>3. Spec => []LossInv
  BY <1>1, LossStep, OwnCorrect, TypeCorrect, PTL DEF Spec
<1> QED
  BY <1>2, <1>3, PTL

-----------------------------------------------------------------------------
(* Bind data and local states.                                             *)

Memory == Boxes \cup RawBoxes
Slots == [is : {"unused", "freed", "value", "failed"}, of : Memory \cup {None}]
Phases == {"none", "binding", "bound", "gone"}
Doings == {"nothing", "init", "exec", "initRead", "execRead"}

StateType ==
    /\ box \in [Memory -> Slots]
    /\ held \in [Exprs -> [data : Memory \cup {None},
                           copy : {"none", "raw", "clone_slot"}]]
    /\ phase \in [Exprs -> Phases]
    /\ typed \in [Exprs -> Boxes \cup {None}]
    /\ stored \in [Exprs -> Memory \cup {None}]
    /\ local \in [Threads -> [data : Boxes \cup {None}, of : Exprs \cup {None}]]
    /\ run \in [Threads -> [does : Doings, of : Exprs \cup {None},
                            saw : Memory \cup {None}, error : BOOLEAN]]
    /\ leaked \subseteq Memory

\* A box that was allocated and not freed.
Alive(heap, b) == heap[b].is \in {"value", "failed"}

\* Nothing has two owners.
OneOwner ==
    /\ \A e, f \in Exprs :
          held[e].data = held[f].data /\ held[e].data # None => e = f
    /\ \A t, u \in Threads :
          local[t].data = local[u].data /\ local[t].data # None => t = u
    /\ \A e \in Exprs, t \in Threads :
          held[e].data = local[t].data => held[e].data = None

\* What has an owner, and what was leaked, is alive, and nothing else is.
Owners ==
    /\ \A e \in Exprs : held[e].data # None =>
          Alive(box, held[e].data) /\ held[e].data \notin leaked
    /\ \A t \in Threads : local[t].data # None =>
          Alive(box, local[t].data) /\ local[t].data \notin leaked
    /\ \A b \in leaked : Alive(box, b)
    /\ \A b \in Memory : Alive(box, b) =>
          \/ b \in leaked
          \/ \E e \in Exprs : held[e].data = b
          \/ \E t \in Threads : local[t].data = b

\* What an expression holds by its phase.
PhaseRight ==
    \A e \in Exprs :
        /\ phase[e] \in {"none", "gone"} => held[e] = SS!Nothing
        /\ phase[e] = "none" => stored[e] = None
        /\ typed[e] # None => phase[e] = "binding" /\ typed[e] = held[e].data
        /\ held[e].data \in RawBoxes => held[e].data = stored[e]
        /\ held[e].copy = "none" /\ held[e].data # None => held[e].data \in RawBoxes

\* A thread that runs has a state, for the expression it runs.
Seated ==
    \A t \in Threads :
        /\ local[t].data # None => local[t].of # None
        /\ run[t].does # "nothing" =>
              run[t].of # None /\ local[t].of = run[t].of

\* The caller's own data is freed with the expression it was stored for.
RawFreed ==
    \A r \in RawBoxes : box[r] = SS!Freed =>
        \E e \in Exprs : phase[e] = "gone" /\ stored[e] = r

OwnerInv ==
    StateType /\ OneOwner /\ Owners /\ PhaseRight /\ Seated /\ RawFreed

\* What an expression holds is what was stored, or a copy of it that failed.
FaithOf(e) ==
    /\ held[e].data = None => stored[e] = None \/ stored[e] \in RawBoxes
    /\ held[e].data # None =>
          \/ box[held[e].data] = SS!Value(stored[e])
          \/ box[held[e].data] = SS!CopyFailed

Faithful == \A e \in Exprs : phase[e] # "gone" => FaithOf(e)

\* A thread has its state for an expression that is bound, and a callback that
\* read its data without an error saw what was stored.
Reading ==
    \A t \in Threads :
        /\ local[t].of # None => phase[local[t].of] = "bound"
        /\ run[t].does \in {"initRead", "execRead"} /\ ~run[t].error =>
              \/ run[t].saw = stored[run[t].of]
              \/ stored[run[t].of] \in RawBoxes /\ run[t].saw = None

ReadInv == Faithful /\ Reading

-----------------------------------------------------------------------------
(* The types.                                                              *)

\* The box of an allocation was never used.
LEMMA AllocatedUnused ==
    ASSUME NEW b \in Boxes, SS!Allocated(b)
    PROVE  box[b] = SS!Unused
BY DEF SS!Allocated, SS!Free

LEMMA DroppedType ==
    ASSUME StateType, NEW bs
    PROVE  SS!Dropped(box, bs) = [b \in Memory |-> IF b \in bs THEN SS!Freed ELSE box[b]]
           /\ SS!Dropped(box, bs) \in [Memory -> Slots]
BY DEF StateType, SS!Dropped, SS!Freed, Slots

LEMMA SlotTypes ==
    /\ \A b \in Memory : SS!Value(b) \in Slots
    /\ SS!Unused \in Slots /\ SS!CopyFailed \in Slots /\ SS!Freed \in Slots
BY DEF Slots, Memory, SS!Value, SS!Unused, SS!CopyFailed, SS!Freed

\* What a clone leaves in its box is the original, or a copy that failed.
LEMMA ClonedType ==
    ASSUME StateType, NEW old \in Memory, Alive(box, old), NEW panics \in BOOLEAN
    PROVE  /\ SS!Cloned(box[old], panics) \in {box[old], SS!CopyFailed}
           /\ SS!Cloned(box[old], panics) \in Slots
           /\ SS!Cloned(box[old], panics).is \in {"value", "failed"}
BY SlotTypes DEF SS!Cloned, StateType, Alive, SS!CopyFailed

LEMMA StateTypeInit == SS!Init => StateType
BY SlotTypes
   DEF SS!Init, StateType, SS!Nothing, SS!Idle, Phases, Doings, Memory

LEMMA StateTypeNext ==
    ASSUME StateType, Owners, PhaseRight, Seated, [SS!Next]_(SS!ssVars)
    PROVE  StateType'
<1> USE DEF StateType
<1>b. Boxes \subseteq Memory /\ RawBoxes \subseteq Memory
  BY DEF Memory
<1>1. ASSUME NEW e \in Exprs, SS!StartBind(e)
      PROVE  StateType'
  BY <1>1 DEF SS!StartBind, Phases
<1>2. ASSUME NEW e \in Exprs, SS!TypedSet(e)
      PROVE  StateType'
  <2>1. PICK b \in Boxes :
          /\ box' = [SS!Dropped(box, SS!Replaced(e)) EXCEPT ![b] = SS!Value(b)]
          /\ leaked' = leaked \cup ({held[e].data} \ (SS!Replaced(e) \cup {None}))
          /\ held' = [held EXCEPT ![e] = [data |-> b, copy |-> "clone_slot"]]
          /\ typed' = [typed EXCEPT ![e] = b]
          /\ stored' = [stored EXCEPT ![e] = b]
    BY <1>2 DEF SS!TypedSet
  <2>2. box' \in [Memory -> Slots]
    BY <1>b, <2>1, DroppedType, SlotTypes
  <2>3. leaked' \subseteq Memory
    BY <2>1
  <2>4. held' \in [Exprs -> [data : Memory \cup {None},
                             copy : {"none", "raw", "clone_slot"}]]
    BY <1>b, <2>1
  <2>5. /\ typed' \in [Exprs -> Boxes \cup {None}]
        /\ stored' \in [Exprs -> Memory \cup {None}]
    BY <1>b, <2>1
  <2> QED
    BY <1>2, <2>2, <2>3, <2>4, <2>5 DEF SS!TypedSet
<1>3. ASSUME NEW e \in Exprs, SS!RawSet(e)
      PROVE  StateType'
  <2>1. PICK r \in RawBoxes, c \in {"raw", "none"} :
          /\ box' = [box EXCEPT ![r] = SS!Value(r)]
          /\ leaked' = (leaked \cup {held[e].data}) \ {r, None}
          /\ held' = [held EXCEPT ![e] = [data |-> r, copy |-> c]]
          /\ typed' = [typed EXCEPT ![e] = None]
          /\ stored' = [stored EXCEPT ![e] = r]
    BY <1>3 DEF SS!RawSet
  <2>2. box' \in [Memory -> Slots]
    BY <1>b, <2>1, SlotTypes
  <2>3. leaked' \subseteq Memory
    BY <2>1
  <2>4. held' \in [Exprs -> [data : Memory \cup {None},
                             copy : {"none", "raw", "clone_slot"}]]
    BY <1>b, <2>1
  <2>5. /\ typed' \in [Exprs -> Boxes \cup {None}]
        /\ stored' \in [Exprs -> Memory \cup {None}]
    BY <1>b, <2>1
  <2> QED
    BY <1>3, <2>2, <2>3, <2>4, <2>5 DEF SS!RawSet
<1>4. ASSUME NEW e \in Exprs, NEW ok \in BOOLEAN, SS!EndBind(e, ok)
      PROVE  StateType'
  <2>1. box' \in [Memory -> Slots]
    BY <1>4, DroppedType DEF SS!EndBind
  <2>2. held' \in [Exprs -> [data : Memory \cup {None},
                             copy : {"none", "raw", "clone_slot"}]]
    BY <1>4 DEF SS!EndBind, SS!Nothing
  <2>3. phase' \in [Exprs -> Phases] /\ typed' \in [Exprs -> Boxes \cup {None}]
    BY <1>4 DEF SS!EndBind, Phases
  <2> QED
    BY <1>4, <2>1, <2>2, <2>3 DEF SS!EndBind
<1>5. ASSUME NEW e \in Exprs, NEW copy \in Exprs, SS!CopyExpr(e, copy)
      PROVE  StateType'
  <2> DEFINE old == held[e].data
             shared == [held EXCEPT ![copy] = [held[e] EXCEPT !.data = None]]
  <2>1. shared \in [Exprs -> [data : Memory \cup {None},
                              copy : {"none", "raw", "clone_slot"}]]
    OBVIOUS
  <2>2. phase' \in [Exprs -> Phases] /\ stored' \in [Exprs -> Memory \cup {None}]
    BY <1>5 DEF SS!CopyExpr, Phases
  <2>3. CASE held' = shared /\ UNCHANGED box
    BY <1>5, <2>1, <2>2, <2>3 DEF SS!CopyExpr
  <2>4. ASSUME NEW b \in Boxes, NEW panics \in BOOLEAN, old # None,
               box' = [box EXCEPT ![b] = SS!Cloned(box[old], panics)],
               held' = shared \/ held' = [shared EXCEPT ![copy].data = b]
        PROVE  StateType'
    <3>1. old \in Memory /\ Alive(box, old)
      BY <2>4 DEF Owners
    <3>2. box' \in [Memory -> Slots]
      BY <1>b, <2>4, <3>1, ClonedType
    <3>3. held' \in [Exprs -> [data : Memory \cup {None},
                               copy : {"none", "raw", "clone_slot"}]]
      <4> HIDE DEF shared
      <4> QED
        BY <1>b, <2>1, <2>4
    <3> QED
      BY <1>5, <2>2, <3>2, <3>3 DEF SS!CopyExpr
  <2> QED
    BY <1>5, <2>3, <2>4 DEF SS!CopyExpr
<1>6. ASSUME NEW e \in Exprs, SS!Discard(e)
      PROVE  StateType'
  <2>1. box' \in [Memory -> Slots]
    BY <1>6, DroppedType DEF SS!Discard
  <2> QED
    BY <1>6, <2>1 DEF SS!Discard, SS!Nothing, Phases
<1>7. ASSUME NEW t \in Threads, NEW e \in Exprs, SS!StartInit(t, e)
      PROVE  StateType'
  BY <1>7 DEF SS!StartInit, SS!Idle, Doings
<1>8. ASSUME NEW t \in Threads, SS!LocalSet(t)
      PROVE  StateType'
  <2>1. PICK b \in Boxes :
          /\ box' = [box EXCEPT ![b] = SS!Value(b)]
          /\ leaked' = leaked \cup ({local[t].data} \ {None})
          /\ local' = [local EXCEPT ![t].data = b]
    BY <1>8 DEF SS!LocalSet
  <2>2. box' \in [Memory -> Slots]
    BY <1>b, <2>1, SlotTypes
  <2>3. leaked' \subseteq Memory
    BY <1>b, <2>1
  <2>4. local' \in [Threads -> [data : Boxes \cup {None}, of : Exprs \cup {None}]]
    BY <2>1
  <2> QED
    BY <1>8, <2>2, <2>3, <2>4 DEF SS!LocalSet
<1>9. ASSUME NEW t \in Threads, SS!ReadBindData(t)
      PROVE  StateType'
  <2> DEFINE data == held[run[t].of].data
             got == SS!Read(data)
             does == IF run[t].does = "init" THEN "initRead" ELSE "execRead"
             new == [does |-> does, of |-> run[t].of, saw |-> got.saw,
                     error |-> got.error]
  <2>1. run[t].of \in Exprs
    BY <1>9 DEF SS!ReadBindData, Seated
  <2>2. data \in Memory \cup {None}
    BY <2>1
  <2>3. got.saw \in Memory \cup {None}
    <3> HIDE DEF data
    <3> QED
      BY <2>2 DEF SS!Read, Slots
  <2>4. got.error \in BOOLEAN
    BY DEF SS!Read
  <2>5. run' = [run EXCEPT ![t] = new]
    BY <1>9 DEF SS!ReadBindData
  <2> HIDE DEF got, data
  <2>6. new \in [does : Doings, of : Exprs \cup {None}, saw : Memory \cup {None},
                 error : BOOLEAN]
    BY <2>1, <2>3, <2>4 DEF Doings
  <2>7. UNCHANGED <<box, held, phase, typed, stored, local, leaked>>
    BY <1>9 DEF SS!ReadBindData
  <2> HIDE DEF new
  <2> QED
    BY <2>5, <2>6, <2>7
<1>10. ASSUME NEW t \in Threads, SS!StartExec(t)
       PROVE  StateType'
  BY <1>10 DEF SS!StartExec, SS!Idle, Doings
<1>11. ASSUME NEW t \in Threads, SS!EndCallback(t)
       PROVE  StateType'
  <2>1. run' \in [Threads -> [does : Doings, of : Exprs \cup {None},
                              saw : Memory \cup {None}, error : BOOLEAN]]
    BY <1>11 DEF SS!EndCallback, SS!Idle, Doings
  <2>2. box' \in [Memory -> Slots]
    BY <1>11, DroppedType DEF SS!EndCallback
  <2>3. local' \in [Threads -> [data : Boxes \cup {None}, of : Exprs \cup {None}]]
    BY <1>11 DEF SS!EndCallback
  <2> QED
    BY <1>11, <2>1, <2>2, <2>3 DEF SS!EndCallback
<1>12. ASSUME NEW t \in Threads, SS!EndThread(t)
       PROVE  StateType'
  <2>1. box' \in [Memory -> Slots]
    BY <1>12, DroppedType DEF SS!EndThread
  <2> QED
    BY <1>12, <2>1 DEF SS!EndThread
<1>13. CASE UNCHANGED SS!ssVars
  BY <1>13 DEF SS!ssVars
<1> QED
  BY <1>1, <1>2, <1>3, <1>4, <1>5, <1>6, <1>7, <1>8, <1>9, <1>10, <1>11, <1>12,
     <1>13 DEF SS!Next

-----------------------------------------------------------------------------
(* Owners.  An action moves no box, gives one up, or takes one.            *)

Owning == OneOwner /\ Owners

\* No box changes hands.
LEMMA NoneMoves ==
    ASSUME StateType, Owning, UNCHANGED <<box, leaked>>,
           \A e \in Exprs : held'[e].data = held[e].data,
           \A t \in Threads : local'[t].data = local[t].data
    PROVE  Owning'
BY DEF Owning, OneOwner, Owners, Alive

\* An expression goes, and its box is freed.
LEMMA ExprGivesUp ==
    ASSUME StateType, Owning, NEW e \in Exprs,
           box' = SS!Dropped(box, {held[e].data}),
           held'[e].data = None,
           \A f \in Exprs \ {e} : held'[f].data = held[f].data,
           UNCHANGED <<local, leaked>>
    PROVE  Owning'
<1>1. \A b \in Memory : box'[b] = IF b = held[e].data THEN SS!Freed ELSE box[b]
  BY DroppedType
<1>2. \A b \in Memory : Alive(box', b) <=> Alive(box, b) /\ b # held[e].data
  BY <1>1 DEF Alive, SS!Freed
<1>3. OneOwner'
  BY DEF Owning, OneOwner
<1>4. Owners'
  <2>1. ASSUME NEW f \in Exprs, held'[f].data # None
        PROVE  Alive(box', held'[f].data) /\ held'[f].data \notin leaked'
    <3>1. /\ f # e /\ held'[f].data = held[f].data /\ held[f].data # None
          /\ held[f].data # held[e].data
      BY <2>1 DEF Owning, OneOwner
    <3>2. /\ held[f].data \in Memory /\ Alive(box, held[f].data)
          /\ held[f].data \notin leaked
      BY <3>1 DEF Owning, Owners, StateType
    <3> QED
      BY <1>2, <3>1, <3>2
  <2>2. ASSUME NEW t \in Threads, local[t].data # None
        PROVE  Alive(box', local[t].data)
    <3>1. local[t].data # held[e].data
      BY <2>2 DEF Owning, OneOwner
    <3>2. local[t].data \in Memory /\ Alive(box, local[t].data)
      BY <2>2 DEF Owning, Owners, StateType, Memory
    <3> QED
      BY <1>2, <3>1, <3>2
  <2>3. ASSUME NEW b \in leaked
        PROVE  Alive(box', b)
    <3>1. b \in Memory /\ Alive(box, b) /\ b # None
      BY StateAssumption DEF Owning, Owners, StateType, Memory
    <3>2. b # held[e].data
      BY <3>1 DEF Owning, Owners
    <3> QED
      BY <1>2, <3>1, <3>2
  <2>4. ASSUME NEW b \in Memory, Alive(box', b)
        PROVE  \/ b \in leaked
               \/ \E f \in Exprs : held'[f].data = b
               \/ \E t \in Threads : local[t].data = b
    BY <1>2, <2>4 DEF Owning, Owners
  <2> QED
    BY <2>1, <2>2, <2>3, <2>4 DEF Owning, Owners, Alive
<1> QED
  BY <1>3, <1>4 DEF Owning

\* A thread's execution ends, and its local state is freed.
LEMMA ThreadGivesUp ==
    ASSUME StateType, Owning, NEW t \in Threads,
           box' = SS!Dropped(box, {local[t].data}),
           local'[t].data = None,
           \A u \in Threads \ {t} : local'[u].data = local[u].data,
           UNCHANGED <<held, leaked>>
    PROVE  Owning'
<1>1. \A b \in Memory : box'[b] = IF b = local[t].data THEN SS!Freed ELSE box[b]
  BY DroppedType
<1>2. \A b \in Memory : Alive(box', b) <=> Alive(box, b) /\ b # local[t].data
  BY <1>1 DEF Alive, SS!Freed
<1>3. OneOwner'
  BY DEF Owning, OneOwner
<1>4. Owners'
  <2>1. ASSUME NEW f \in Exprs, held[f].data # None
        PROVE  Alive(box', held[f].data)
    <3>1. held[f].data # local[t].data
      BY <2>1 DEF Owning, OneOwner
    <3>2. held[f].data \in Memory /\ Alive(box, held[f].data)
      BY <2>1 DEF Owning, Owners, StateType
    <3> QED
      BY <1>2, <3>1, <3>2
  <2>2. ASSUME NEW u \in Threads, local'[u].data # None
        PROVE  Alive(box', local'[u].data) /\ local'[u].data \notin leaked'
    <3>1. /\ u # t /\ local'[u].data = local[u].data /\ local[u].data # None
          /\ local[u].data # local[t].data
      BY <2>2 DEF Owning, OneOwner
    <3>2. /\ local[u].data \in Memory /\ Alive(box, local[u].data)
          /\ local[u].data \notin leaked
      BY <3>1 DEF Owning, Owners, StateType, Memory
    <3> QED
      BY <1>2, <3>1, <3>2
  <2>3. ASSUME NEW b \in leaked
        PROVE  Alive(box', b)
    <3>1. b \in Memory /\ Alive(box, b) /\ b # None
      BY StateAssumption DEF Owning, Owners, StateType, Memory
    <3>2. b # local[t].data
      BY <3>1 DEF Owning, Owners
    <3> QED
      BY <1>2, <3>1, <3>2
  <2>4. ASSUME NEW b \in Memory, Alive(box', b)
        PROVE  \/ b \in leaked
               \/ \E f \in Exprs : held[f].data = b
               \/ \E u \in Threads : local'[u].data = b
    BY <1>2, <2>4 DEF Owning, Owners
  <2> QED
    BY <2>1, <2>2, <2>3, <2>4 DEF Owning, Owners, Alive
<1> QED
  BY <1>3, <1>4 DEF Owning

\* An expression takes a box that is nobody else's; the one it had is freed
\* if it is among `gone`, and leaked if not.
LEMMA ExprTakes ==
    ASSUME StateType, Owning, NEW e \in Exprs, NEW b \in Memory, NEW gone,
           gone \subseteq {held[e].data}, b \notin gone,
           \A f \in Exprs \ {e} : held[f].data # b,
           \A t \in Threads : local[t].data # b,
           Alive(box', b),
           \A x \in Memory \ {b} :
               box'[x] = IF x \in gone THEN SS!Freed ELSE box[x],
           held'[e].data = b,
           \A f \in Exprs \ {e} : held'[f].data = held[f].data,
           leaked' = (leaked \cup ({held[e].data} \ gone)) \ {b, None},
           UNCHANGED local
    PROVE  Owning'
<1>1. \A x \in Memory \ {b} : Alive(box', x) <=> Alive(box, x) /\ x \notin gone
  BY DEF Alive, SS!Freed
<1>2. b # None
  BY StateAssumption DEF Memory
<1>3. OneOwner'
  BY <1>2 DEF Owning, OneOwner
<1>4. Owners'
  <2>1. ASSUME NEW f \in Exprs, held'[f].data # None
        PROVE  Alive(box', held'[f].data) /\ held'[f].data \notin leaked'
    <3>1. CASE f = e
      BY <3>1
    <3>2. CASE f # e
      <4>1. /\ held'[f].data = held[f].data /\ held[f].data # None
            /\ held[f].data # b /\ held[f].data # held[e].data
        BY <2>1, <3>2 DEF Owning, OneOwner
      <4>2. /\ held[f].data \in Memory /\ Alive(box, held[f].data)
            /\ held[f].data \notin leaked
        BY <4>1 DEF Owning, Owners, StateType
      <4> QED
        BY <1>1, <4>1, <4>2
    <3> QED
      BY <3>1, <3>2
  <2>2. ASSUME NEW t \in Threads, local[t].data # None
        PROVE  Alive(box', local[t].data) /\ local[t].data \notin leaked'
    <3>1. local[t].data # b /\ local[t].data # held[e].data
      BY <2>2 DEF Owning, OneOwner
    <3>2. /\ local[t].data \in Memory /\ Alive(box, local[t].data)
          /\ local[t].data \notin leaked
      BY <2>2 DEF Owning, Owners, StateType, Memory
    <3> QED
      BY <1>1, <3>1, <3>2
  <2>3. ASSUME NEW x \in leaked'
        PROVE  Alive(box', x)
    <3>1. x # b /\ x # None /\ (x \in leaked \/ (x = held[e].data /\ x \notin gone))
      OBVIOUS
    <3>2. x \in Memory /\ Alive(box, x) /\ x \notin gone
      BY <3>1 DEF Owning, Owners, StateType
    <3> QED
      BY <1>1, <3>1, <3>2
  <2>4. ASSUME NEW x \in Memory, Alive(box', x)
        PROVE  \/ x \in leaked'
               \/ \E f \in Exprs : held'[f].data = x
               \/ \E t \in Threads : local[t].data = x
    <3>1. CASE x = b
      BY <3>1
    <3>2. CASE x # b
      <4>1. Alive(box, x) /\ x \notin gone /\ x # None
        BY <1>1, <2>4, <3>2, StateAssumption DEF Memory
      <4>2. \/ x \in leaked
            \/ \E f \in Exprs : held[f].data = x
            \/ \E t \in Threads : local[t].data = x
        BY <4>1 DEF Owning, Owners
      <4> QED
        BY <3>2, <4>1, <4>2
    <3> QED
      BY <3>1, <3>2
  <2> QED
    BY <2>1, <2>2, <2>3, <2>4 DEF Owners
<1> QED
  BY <1>3, <1>4 DEF Owning

\* A thread takes a box that is nobody's, and leaks the one it had.
LEMMA ThreadTakes ==
    ASSUME StateType, Owning, NEW t \in Threads, NEW b \in Memory,
           box[b] = SS!Unused,
           box' = [box EXCEPT ![b] = SS!Value(b)],
           local'[t].data = b,
           \A u \in Threads \ {t} : local'[u].data = local[u].data,
           leaked' = leaked \cup ({local[t].data} \ {None}),
           UNCHANGED held
    PROVE  Owning'
<1>1. /\ Alive(box', b) /\ ~Alive(box, b)
      /\ \A x \in Memory \ {b} : Alive(box', x) <=> Alive(box, x)
  BY DEF Alive, SS!Unused, SS!Value, StateType
<1>2. b # None
  BY StateAssumption DEF Memory
<1>3. /\ \A e \in Exprs : held[e].data # b
      /\ \A u \in Threads : local[u].data # b
      /\ b \notin leaked
  BY <1>1, <1>2 DEF Owning, Owners
<1>4. OneOwner'
  BY <1>2, <1>3 DEF Owning, OneOwner
<1>5. Owners'
  <2>1. ASSUME NEW e \in Exprs, held[e].data # None
        PROVE  Alive(box', held[e].data) /\ held[e].data \notin leaked'
    BY <1>1, <2>1 DEF Owning, OneOwner, Owners, StateType
  <2>2. ASSUME NEW u \in Threads, local'[u].data # None
        PROVE  Alive(box', local'[u].data) /\ local'[u].data \notin leaked'
    <3>1. CASE u = t
      BY <1>1, <1>3, <3>1
    <3>2. CASE u # t
      <4>1. local'[u].data = local[u].data /\ local[u].data # local[t].data
        BY <2>2, <3>2 DEF Owning, OneOwner
      <4>2. /\ local[u].data \in Memory /\ Alive(box, local[u].data)
            /\ local[u].data \notin leaked
        BY <2>2, <4>1 DEF Owning, Owners, StateType, Memory
      <4> QED
        BY <1>1, <4>1, <4>2
    <3> QED
      BY <3>1, <3>2
  <2>3. ASSUME NEW x \in leaked'
        PROVE  Alive(box', x)
    <3>1. x \in Memory /\ Alive(box, x)
      BY DEF Owning, Owners, StateType, Memory
    <3> QED
      BY <1>1, <3>1
  <2>4. ASSUME NEW x \in Memory, Alive(box', x)
        PROVE  \/ x \in leaked'
               \/ \E e \in Exprs : held[e].data = x
               \/ \E u \in Threads : local'[u].data = x
    <3>1. CASE x = b
      BY <3>1
    <3>2. CASE x # b
      <4>1. Alive(box, x) /\ x # None
        BY <1>1, <2>4, <3>2, StateAssumption DEF Memory
      <4>2. \/ x \in leaked
            \/ \E e \in Exprs : held[e].data = x
            \/ \E u \in Threads : local[u].data = x
        BY <4>1 DEF Owning, Owners
      <4> QED
        BY <4>1, <4>2
    <3> QED
      BY <3>1, <3>2
  <2> QED
    BY <2>1, <2>2, <2>3, <2>4 DEF Owners
<1> QED
  BY <1>4, <1>5 DEF Owning

\* A box that was never used is nobody's.
LEMMA UnusedApart ==
    ASSUME StateType, Owning, NEW b \in Memory, box[b] = SS!Unused
    PROVE  /\ \A e \in Exprs : held[e].data # b
           /\ \A t \in Threads : local[t].data # b
           /\ b \notin leaked /\ b # None
<1>1. ~Alive(box, b)
  BY DEF Alive, SS!Unused
<1>2. b # None
  BY StateAssumption DEF Memory
<1> QED
  BY <1>1, <1>2 DEF Owning, Owners

LEMMA TypedSetOwning ==
    ASSUME StateType, Owning, PhaseRight, NEW e \in Exprs, SS!TypedSet(e)
    PROVE  Owning'
<1> DEFINE gone == SS!Replaced(e)
<1>1. PICK b \in Boxes :
        /\ SS!Allocated(b)
        /\ box' = [SS!Dropped(box, gone) EXCEPT ![b] = SS!Value(b)]
        /\ leaked' = leaked \cup ({held[e].data} \ (gone \cup {None}))
        /\ held' = [held EXCEPT ![e] = [data |-> b, copy |-> "clone_slot"]]
  BY DEF SS!TypedSet
<1>2. b \in Memory /\ box[b] = SS!Unused
  BY <1>1, AllocatedUnused DEF Memory
<1>3. /\ \A f \in Exprs : held[f].data # b
      /\ \A t \in Threads : local[t].data # b
      /\ b \notin leaked /\ b # None
  BY <1>2, UnusedApart
<1>4. gone \subseteq {held[e].data} /\ None \notin gone
  BY DEF SS!Replaced, PhaseRight
<1>5. b \notin gone
  BY <1>3, <1>4
<1> HIDE DEF gone
<1>6. /\ box'[b] = SS!Value(b)
      /\ \A x \in Memory \ {b} :
            box'[x] = IF x \in gone THEN SS!Freed ELSE box[x]
  BY <1>1, <1>2, DroppedType
<1>7. Alive(box', b)
  BY <1>6 DEF Alive, SS!Value
<1>8. /\ held'[e].data = b
      /\ \A f \in Exprs \ {e} : held'[f].data = held[f].data
  BY <1>1 DEF StateType
<1>9. None \notin leaked
  BY StateAssumption DEF StateType, Memory
<1>10. leaked' = (leaked \cup ({held[e].data} \ gone)) \ {b, None}
  BY <1>1, <1>3, <1>9
<1>11. UNCHANGED local
  BY DEF SS!TypedSet
<1> QED
  BY <1>2, <1>3, <1>4, <1>5, <1>6, <1>7, <1>8, <1>10, <1>11, ExprTakes

LEMMA RawSetOwning ==
    ASSUME StateType, Owning, NEW e \in Exprs, SS!RawSet(e)
    PROVE  Owning'
<1> DEFINE gone == {}
<1>1. PICK r \in RawBoxes, c \in {"raw", "none"} :
        /\ \A f \in Exprs \ {e} : held[f].data # r
        /\ box' = [box EXCEPT ![r] = SS!Value(r)]
        /\ leaked' = (leaked \cup {held[e].data}) \ {r, None}
        /\ held' = [held EXCEPT ![e] = [data |-> r, copy |-> c]]
  BY DEF SS!RawSet
<1>2. r \in Memory
  BY DEF Memory
<1>3. \A t \in Threads : local[t].data # r
  BY StateAssumption DEF StateType
<1>4. /\ box'[r] = SS!Value(r)
      /\ \A x \in Memory \ {r} : box'[x] = IF x \in gone THEN SS!Freed ELSE box[x]
  BY <1>1, <1>2 DEF StateType
<1>5. Alive(box', r)
  BY <1>4 DEF Alive, SS!Value
<1>6. /\ held'[e].data = r
      /\ \A f \in Exprs \ {e} : held'[f].data = held[f].data
  BY <1>1 DEF StateType
<1>7. leaked' = (leaked \cup ({held[e].data} \ gone)) \ {r, None}
  BY <1>1
<1>8. UNCHANGED local
  BY DEF SS!RawSet
<1>9. gone \subseteq {held[e].data} /\ r \notin gone
  OBVIOUS
<1>10. \A f \in Exprs \ {e} : held[f].data # r
  BY <1>1
<1> HIDE DEF gone
<1> QED
  BY <1>2, <1>3, <1>4, <1>5, <1>6, <1>7, <1>8, <1>9, <1>10, ExprTakes

LEMMA CopyExprOwning ==
    ASSUME StateType, Owning, PhaseRight, NEW e \in Exprs, NEW copy \in Exprs,
           SS!CopyExpr(e, copy)
    PROVE  Owning'
<1> DEFINE old == held[e].data
           shared == [held EXCEPT ![copy] = [held[e] EXCEPT !.data = None]]
           gone == {}
<1>1. /\ held[copy].data = None /\ UNCHANGED <<local, leaked>>
      /\ shared[copy].data = None
      /\ \A f \in Exprs \ {copy} : shared[f].data = held[f].data
  BY DEF SS!CopyExpr, PhaseRight, SS!Nothing, StateType
<1>2. CASE held' = shared /\ UNCHANGED box
  <2>1. \A f \in Exprs : held'[f].data = held[f].data
    BY <1>1, <1>2
  <2> QED
    BY <1>1, <1>2, <2>1, NoneMoves
<1>3. ASSUME NEW b \in Boxes, NEW panics \in BOOLEAN, SS!Allocated(b), old # None,
             box' = [box EXCEPT ![b] = SS!Cloned(box[old], panics)],
             held' = IF SS!Cloned(box[old], panics) = SS!Unused THEN shared
                     ELSE [shared EXCEPT ![copy].data = b]
      PROVE  Owning'
  <2>1. old \in Memory /\ Alive(box, old)
    BY <1>3 DEF Owning, Owners, StateType
  <2>2. b \in Memory /\ box[b] = SS!Unused
    BY <1>3, AllocatedUnused DEF Memory
  <2>3. /\ \A f \in Exprs : held[f].data # b
        /\ \A t \in Threads : local[t].data # b
        /\ b \notin leaked /\ b # None
    BY <2>2, UnusedApart
  <2>4. SS!Cloned(box[old], panics).is \in {"value", "failed"}
    BY <2>1, ClonedType
  <2>5. SS!Cloned(box[old], panics) # SS!Unused
    BY <2>4 DEF SS!Unused
  <2>6. /\ box'[b] = SS!Cloned(box[old], panics)
        /\ \A x \in Memory \ {b} : box'[x] = IF x \in gone THEN SS!Freed ELSE box[x]
    BY <1>3, <2>2 DEF StateType
  <2>7. Alive(box', b)
    BY <2>4, <2>6 DEF Alive
  <2>8. held' = [shared EXCEPT ![copy].data = b]
    BY <1>3, <2>5
  <2>9. /\ held'[copy].data = b
        /\ \A f \in Exprs \ {copy} : held'[f].data = held[f].data
    BY <1>1, <2>8 DEF StateType
  <2>10. None \notin leaked
    BY StateAssumption DEF StateType, Memory
  <2>11. leaked' = (leaked \cup ({held[copy].data} \ gone)) \ {b, None}
    BY <1>1, <2>3, <2>10
  <2>12. gone \subseteq {held[copy].data} /\ b \notin gone
    OBVIOUS
  <2> HIDE DEF gone
  <2> QED
    BY <1>1, <2>2, <2>3, <2>6, <2>7, <2>9, <2>11, <2>12, ExprTakes
<1> QED
  BY <1>2, <1>3 DEF SS!CopyExpr

LEMMA OwningNext ==
    ASSUME StateType, Owning, PhaseRight, Seated, [SS!Next]_(SS!ssVars)
    PROVE  Owning'
<1>1. CASE UNCHANGED <<box, held, local, leaked>>
  BY <1>1, NoneMoves
<1>2. ASSUME NEW e \in Exprs, NEW ok \in BOOLEAN, SS!EndBind(e, ok)
      PROVE  Owning'
  <2>1. CASE ok
    BY <1>2, <2>1, <1>1 DEF SS!EndBind
  <2>2. CASE ~ok
    <3>1. /\ box' = SS!Dropped(box, {held[e].data})
          /\ held' = [held EXCEPT ![e] = SS!Nothing]
          /\ UNCHANGED <<local, leaked>>
      BY <1>2, <2>2 DEF SS!EndBind
    <3>2. /\ held'[e].data = None
          /\ \A f \in Exprs \ {e} : held'[f].data = held[f].data
      BY <3>1 DEF SS!Nothing, StateType
    <3> QED
      BY <3>1, <3>2, ExprGivesUp
  <2> QED
    BY <2>1, <2>2
<1>3. ASSUME NEW e \in Exprs, SS!Discard(e)
      PROVE  Owning'
  <2>1. /\ box' = SS!Dropped(box, {held[e].data})
        /\ held' = [held EXCEPT ![e] = SS!Nothing]
        /\ UNCHANGED <<local, leaked>>
    BY <1>3 DEF SS!Discard
  <2>2. /\ held'[e].data = None
        /\ \A f \in Exprs \ {e} : held'[f].data = held[f].data
    BY <2>1 DEF SS!Nothing, StateType
  <2> QED
    BY <2>1, <2>2, ExprGivesUp
<1>4. ASSUME NEW t \in Threads, NEW e \in Exprs, SS!StartInit(t, e)
      PROVE  Owning'
  <2>1. /\ local' = [local EXCEPT ![t] = [data |-> None, of |-> e]]
        /\ UNCHANGED <<box, held, leaked>>
        /\ local[t].data = None
    BY <1>4 DEF SS!StartInit, Seated
  <2>2. \A u \in Threads : local'[u].data = local[u].data
    BY <2>1 DEF StateType
  <2> QED
    BY <2>1, <2>2, NoneMoves
<1>5. ASSUME NEW t \in Threads, SS!LocalSet(t)
      PROVE  Owning'
  <2>1. PICK b \in Boxes :
          /\ SS!Allocated(b)
          /\ box' = [box EXCEPT ![b] = SS!Value(b)]
          /\ leaked' = leaked \cup ({local[t].data} \ {None})
          /\ local' = [local EXCEPT ![t].data = b]
    BY <1>5 DEF SS!LocalSet
  <2>2. b \in Memory /\ box[b] = SS!Unused
    BY <2>1, AllocatedUnused DEF Memory
  <2>3. /\ local'[t].data = b
        /\ \A u \in Threads \ {t} : local'[u].data = local[u].data
    BY <2>1 DEF StateType
  <2>4. UNCHANGED held
    BY <1>5 DEF SS!LocalSet
  <2> QED
    BY <2>1, <2>2, <2>3, <2>4, ThreadTakes
<1>6. ASSUME NEW t \in Threads,
             box' = SS!Dropped(box, {local[t].data}),
             local' = [local EXCEPT ![t] = [data |-> None, of |-> None]],
             UNCHANGED <<held, leaked>>
      PROVE  Owning'
  <2>1. /\ local'[t].data = None
        /\ \A u \in Threads \ {t} : local'[u].data = local[u].data
    BY <1>6 DEF StateType
  <2> QED
    BY <1>6, <2>1, ThreadGivesUp
<1>7. ASSUME NEW t \in Threads, SS!EndCallback(t)
      PROVE  Owning'
  BY <1>1, <1>6, <1>7 DEF SS!EndCallback
<1>8. ASSUME NEW t \in Threads, SS!EndThread(t)
      PROVE  Owning'
  BY <1>6, <1>8 DEF SS!EndThread
<1>9. ASSUME NEW e \in Exprs,
             \/ SS!StartBind(e) \/ SS!TypedSet(e) \/ SS!RawSet(e)
             \/ \E copy \in Exprs : SS!CopyExpr(e, copy)
      PROVE  Owning'
  BY <1>1, <1>9, TypedSetOwning, RawSetOwning, CopyExprOwning DEF SS!StartBind
<1>10. ASSUME NEW t \in Threads, SS!ReadBindData(t) \/ SS!StartExec(t)
       PROVE  Owning'
  BY <1>1, <1>10 DEF SS!ReadBindData, SS!StartExec
<1>11. CASE UNCHANGED SS!ssVars
  BY <1>1, <1>11 DEF SS!ssVars
<1> QED
  BY <1>2, <1>3, <1>4, <1>5, <1>7, <1>8, <1>9, <1>10, <1>11 DEF SS!Next

-----------------------------------------------------------------------------
(* Phases, and what is freed of the caller's own.                          *)

LEMMA PhaseNext ==
    ASSUME StateType, PhaseRight, [SS!Next]_(SS!ssVars)
    PROVE  PhaseRight'
<1> USE StateAssumption DEF StateType, PhaseRight, SS!Nothing
<1>1. CASE UNCHANGED <<held, phase, typed, stored>>
  BY <1>1
<1>2. ASSUME NEW e \in Exprs, SS!StartBind(e)
      PROVE  PhaseRight'
  BY <1>2 DEF SS!StartBind
<1>3. ASSUME NEW e \in Exprs, SS!TypedSet(e)
      PROVE  PhaseRight'
  <2>1. PICK b \in Boxes :
          /\ held' = [held EXCEPT ![e] = [data |-> b, copy |-> "clone_slot"]]
          /\ typed' = [typed EXCEPT ![e] = b]
          /\ stored' = [stored EXCEPT ![e] = b]
    BY <1>3 DEF SS!TypedSet
  <2>2. phase[e] = "binding" /\ UNCHANGED phase
    BY <1>3 DEF SS!TypedSet
  <2> QED
    BY <2>1, <2>2
<1>4. ASSUME NEW e \in Exprs, SS!RawSet(e)
      PROVE  PhaseRight'
  <2>1. PICK r \in RawBoxes, c \in {"raw", "none"} :
          /\ held' = [held EXCEPT ![e] = [data |-> r, copy |-> c]]
          /\ typed' = [typed EXCEPT ![e] = None]
          /\ stored' = [stored EXCEPT ![e] = r]
    BY <1>4 DEF SS!RawSet
  <2>2. phase[e] = "binding" /\ UNCHANGED phase
    BY <1>4 DEF SS!RawSet
  <2> QED
    BY <2>1, <2>2
<1>5. ASSUME NEW e \in Exprs, NEW ok \in BOOLEAN, SS!EndBind(e, ok)
      PROVE  PhaseRight'
  BY <1>5 DEF SS!EndBind
<1>6. ASSUME NEW e \in Exprs, NEW copy \in Exprs, SS!CopyExpr(e, copy)
      PROVE  PhaseRight'
  <2> DEFINE shared == [held EXCEPT ![copy] = [held[e] EXCEPT !.data = None]]
  <2>1. /\ phase[e] = "bound" /\ phase[copy] = "none" /\ e # copy
        /\ phase' = [phase EXCEPT ![copy] = "bound"]
        /\ stored' = [stored EXCEPT ![copy] = stored[e]]
        /\ UNCHANGED typed
    BY <1>6 DEF SS!CopyExpr
  <2>2. \/ held' = shared
        \/ /\ held[e].copy # "none"
           /\ \E b \in Boxes : held' = [shared EXCEPT ![copy].data = b]
    BY <1>6 DEF SS!CopyExpr
  <2>3. \A f \in Exprs \ {copy} : held'[f] = held[f]
    BY <2>2
  <2>4. /\ held'[copy].copy = held[e].copy
        /\ \/ held'[copy].data = None
           \/ held'[copy].data \in Boxes /\ held[e].copy # "none"
    BY <2>2
  <2>5. typed[copy] = None
    BY <2>1
  <2> HIDE DEF shared
  <2> QED
    BY <2>1, <2>3, <2>4, <2>5
<1>7. ASSUME NEW e \in Exprs, SS!Discard(e)
      PROVE  PhaseRight'
  BY <1>7 DEF SS!Discard
<1>8. ASSUME NEW t \in Threads,
             \/ \E e \in Exprs : SS!StartInit(t, e)
             \/ SS!LocalSet(t) \/ SS!ReadBindData(t) \/ SS!StartExec(t)
             \/ SS!EndCallback(t) \/ SS!EndThread(t)
      PROVE  PhaseRight'
  BY <1>1, <1>8 DEF SS!StartInit, SS!LocalSet, SS!ReadBindData, SS!StartExec,
                    SS!EndCallback, SS!EndThread
<1> QED
  BY <1>1, <1>2, <1>3, <1>4, <1>5, <1>6, <1>7, <1>8 DEF SS!Next, SS!ssVars

LEMMA SeatedNext ==
    ASSUME StateType, Seated, [SS!Next]_(SS!ssVars)
    PROVE  Seated'
<1> USE StateAssumption DEF StateType, Seated
<1>1. CASE UNCHANGED <<local, run>>
  BY <1>1
<1>2. ASSUME NEW e \in Exprs,
             \/ SS!StartBind(e) \/ SS!TypedSet(e) \/ SS!RawSet(e)
             \/ \E ok \in BOOLEAN : SS!EndBind(e, ok)
             \/ \E copy \in Exprs : SS!CopyExpr(e, copy)
             \/ SS!Discard(e)
      PROVE  Seated'
  BY <1>1, <1>2 DEF SS!StartBind, SS!TypedSet, SS!RawSet, SS!EndBind,
                    SS!CopyExpr, SS!Discard
<1>3. ASSUME NEW t \in Threads, NEW e \in Exprs, SS!StartInit(t, e)
      PROVE  Seated'
  BY <1>3 DEF SS!StartInit, SS!Idle
<1>4. ASSUME NEW t \in Threads, SS!LocalSet(t)
      PROVE  Seated'
  <2>1. PICK b \in Boxes : local' = [local EXCEPT ![t].data = b]
    BY <1>4 DEF SS!LocalSet
  <2>2. UNCHANGED run /\ run[t].does = "init"
    BY <1>4 DEF SS!LocalSet
  <2> QED
    BY <2>1, <2>2
<1>5. ASSUME NEW t \in Threads, SS!ReadBindData(t)
      PROVE  Seated'
  <2>1. /\ run[t].does # "nothing" /\ UNCHANGED local
        /\ run'[t].of = run[t].of
        /\ \A u \in Threads \ {t} : run'[u] = run[u]
    BY <1>5 DEF SS!ReadBindData
  <2> QED
    BY <2>1
<1>6. ASSUME NEW t \in Threads, SS!StartExec(t)
      PROVE  Seated'
  BY <1>6 DEF SS!StartExec, SS!Idle
<1>7. ASSUME NEW t \in Threads, SS!EndCallback(t)
      PROVE  Seated'
  BY <1>7 DEF SS!EndCallback, SS!Idle
<1>8. ASSUME NEW t \in Threads, SS!EndThread(t)
      PROVE  Seated'
  BY <1>8 DEF SS!EndThread, SS!Idle
<1> QED
  BY <1>1, <1>2, <1>3, <1>4, <1>5, <1>6, <1>7, <1>8 DEF SS!Next, SS!ssVars

\* An expression that is gone stays so, and what it had stored is remembered.
LEMMA GoneStays ==
    ASSUME StateType, [SS!Next]_(SS!ssVars), NEW e \in Exprs, phase[e] = "gone"
    PROVE  phase'[e] = "gone" /\ stored'[e] = stored[e]
<1> USE DEF StateType
<1>1. ASSUME NEW f \in Exprs,
             \/ SS!StartBind(f) \/ SS!TypedSet(f) \/ SS!RawSet(f)
             \/ \E ok \in BOOLEAN : SS!EndBind(f, ok)
             \/ SS!Discard(f)
      PROVE  phase'[e] = "gone" /\ stored'[e] = stored[e]
  BY <1>1 DEF SS!StartBind, SS!TypedSet, SS!RawSet, SS!EndBind, SS!Discard
<1>2. ASSUME NEW f \in Exprs, NEW copy \in Exprs, SS!CopyExpr(f, copy)
      PROVE  phase'[e] = "gone" /\ stored'[e] = stored[e]
  BY <1>2 DEF SS!CopyExpr
<1>3. ASSUME NEW t \in Threads,
             \/ \E f \in Exprs : SS!StartInit(t, f)
             \/ SS!LocalSet(t) \/ SS!ReadBindData(t) \/ SS!StartExec(t)
             \/ SS!EndCallback(t) \/ SS!EndThread(t)
      PROVE  phase'[e] = "gone" /\ stored'[e] = stored[e]
  BY <1>3 DEF SS!StartInit, SS!LocalSet, SS!ReadBindData, SS!StartExec,
              SS!EndCallback, SS!EndThread
<1> QED
  BY <1>1, <1>2, <1>3 DEF SS!Next, SS!ssVars

\* What this step frees of the caller's is that of an expression that goes.
LEMMA RawGoes ==
    ASSUME StateType, Owning, PhaseRight, [SS!Next]_(SS!ssVars),
           NEW r \in RawBoxes, box'[r] = SS!Freed, box[r] # SS!Freed
    PROVE  \E e \in Exprs : phase'[e] = "gone" /\ stored'[e] = r
<1>b. r \in Memory /\ r # None /\ r \notin Boxes
  BY StateAssumption DEF Memory
<1>1. ASSUME NEW e \in Exprs, SS!TypedSet(e)
      PROVE  FALSE
  <2>1. PICK b \in Boxes :
          box' = [SS!Dropped(box, SS!Replaced(e)) EXCEPT ![b] = SS!Value(b)]
    BY <1>1 DEF SS!TypedSet
  <2>2. r \notin SS!Replaced(e)
    BY <1>b DEF SS!Replaced, StateType
  <2>3. box'[r] = box[r]
    BY <1>b, <2>1, <2>2, DroppedType
  <2> QED
    BY <2>3
<1>2. ASSUME NEW e \in Exprs, SS!RawSet(e)
      PROVE  FALSE
  <2>1. PICK q \in RawBoxes : box' = [box EXCEPT ![q] = SS!Value(q)]
    BY <1>2 DEF SS!RawSet
  <2>2. box'[r] = box[r] \/ box'[r] = SS!Value(r)
    BY <1>b, <2>1 DEF StateType
  <2> QED
    BY <2>2 DEF SS!Value, SS!Freed
<1>3. ASSUME NEW e \in Exprs, NEW ok \in BOOLEAN, SS!EndBind(e, ok)
      PROVE  phase'[e] = "gone" /\ stored'[e] = r
  <2>1. ~ok /\ box' = SS!Dropped(box, {held[e].data})
    BY <1>3 DEF SS!EndBind
  <2>2. r = held[e].data
    BY <1>b, <2>1, DroppedType
  <2> QED
    BY <1>3, <2>1, <2>2 DEF SS!EndBind, PhaseRight, StateType
<1>4. ASSUME NEW e \in Exprs, NEW copy \in Exprs, SS!CopyExpr(e, copy)
      PROVE  FALSE
  <2>1. PICK b \in Boxes, panics \in BOOLEAN :
          box' = [box EXCEPT ![b] = SS!Cloned(box[held[e].data], panics)]
    BY <1>4 DEF SS!CopyExpr
  <2>2. box'[r] = box[r]
    BY <1>b, <2>1 DEF StateType
  <2> QED
    BY <2>2
<1>5. ASSUME NEW e \in Exprs, SS!Discard(e)
      PROVE  phase'[e] = "gone" /\ stored'[e] = r
  <2>1. box' = SS!Dropped(box, {held[e].data})
    BY <1>5 DEF SS!Discard
  <2>2. r = held[e].data
    BY <1>b, <2>1, DroppedType
  <2> QED
    BY <1>5, <2>2 DEF SS!Discard, PhaseRight, StateType
<1>6. ASSUME NEW t \in Threads, SS!LocalSet(t)
      PROVE  FALSE
  <2>1. PICK b \in Boxes : box' = [box EXCEPT ![b] = SS!Value(b)]
    BY <1>6 DEF SS!LocalSet
  <2>2. box'[r] = box[r]
    BY <1>b, <2>1 DEF StateType
  <2> QED
    BY <2>2
<1>7. ASSUME NEW t \in Threads, SS!EndCallback(t) \/ SS!EndThread(t)
      PROVE  FALSE
  <2>1. box' = SS!Dropped(box, {local[t].data})
    BY <1>7 DEF SS!EndCallback, SS!EndThread
  <2>2. r = local[t].data
    BY <1>b, <2>1, DroppedType
  <2> QED
    BY <1>b, <2>2 DEF StateType
<1>8. ASSUME UNCHANGED box
      PROVE  FALSE
  BY <1>8
<1> QED
  BY <1>1, <1>2, <1>3, <1>4, <1>5, <1>6, <1>7, <1>8
     DEF SS!Next, SS!ssVars, SS!StartBind, SS!StartInit, SS!ReadBindData,
         SS!StartExec

LEMMA RawNext ==
    ASSUME StateType, Owning, PhaseRight, RawFreed, [SS!Next]_(SS!ssVars)
    PROVE  RawFreed'
<1> SUFFICES ASSUME NEW r \in RawBoxes, box'[r] = SS!Freed
             PROVE  \E e \in Exprs : phase'[e] = "gone" /\ stored'[e] = r
  BY DEF RawFreed
<1>1. CASE box[r] = SS!Freed
  <2>1. PICK e \in Exprs : phase[e] = "gone" /\ stored[e] = r
    BY <1>1 DEF RawFreed
  <2> QED
    BY <2>1, GoneStays
<1>2. CASE box[r] # SS!Freed
  BY <1>2, RawGoes
<1> QED
  BY <1>1, <1>2

-----------------------------------------------------------------------------
(* The owners' invariant.                                                  *)

LEMMA OwnerInvInit == SS!Init => OwnerInv
<1> SUFFICES ASSUME SS!Init PROVE OwnerInv
  OBVIOUS
<1>1. StateType
  BY StateTypeInit
<1>2. /\ \A e \in Exprs : /\ held[e].data = None /\ held[e] = SS!Nothing
                          /\ stored[e] = None /\ typed[e] = None
      /\ \A t \in Threads : /\ local[t].data = None
                            /\ run[t].does = "nothing"
      /\ \A b \in Memory : box[b].is = "unused"
      /\ leaked = {}
  BY DEF SS!Init, SS!Nothing, SS!Idle, SS!Unused, Memory
<1>3. OneOwner /\ Owners /\ Seated
  BY <1>2 DEF OneOwner, Owners, Seated, Alive
<1>4. PhaseRight
  BY <1>2, StateAssumption DEF PhaseRight
<1>5. RawFreed
  BY <1>2 DEF RawFreed, SS!Freed, Memory
<1> QED
  BY <1>1, <1>3, <1>4, <1>5 DEF OwnerInv

LEMMA OwnerInvNext ==
    ASSUME OwnerInv, [SS!Next]_(SS!ssVars)
    PROVE  OwnerInv'
<1>1. StateType /\ Owning /\ Owners /\ PhaseRight /\ Seated /\ RawFreed
  BY DEF OwnerInv, Owning
<1>2. StateType' /\ Owning' /\ PhaseRight' /\ Seated' /\ RawFreed'
  BY <1>1, StateTypeNext, OwningNext, PhaseNext, SeatedNext, RawNext
<1> QED
  BY <1>2 DEF OwnerInv, Owning

\* Bind data and local states are freed exactly once, by their one owner, or
\* leaked where the C API leaves no other way, for any number of expressions,
\* copies, threads and boxes (scalar/state.rs).
THEOREM BoxesCorrect == SS!Spec => []BoxesOwned
<1>1. SS!Init => OwnerInv
  BY OwnerInvInit
<1>2. OwnerInv /\ [SS!Next]_(SS!ssVars) => OwnerInv'
  BY OwnerInvNext
<1>3. ASSUME OwnerInv PROVE BoxesOwned
  <2> USE <1>3 DEF OwnerInv
  <2>1. ASSUME NEW b \in SS!Owned \ {None}
        PROVE  /\ box[b].is \in {"value", "failed"} /\ b \notin leaked
               /\ \A o, p \in SS!OwnersOf(b) : o = p
    <3>1. b # None
      OBVIOUS
    <3>2. \/ \E e \in Exprs : held[e].data = b
          \/ \E t \in Threads : local[t].data = b
      BY DEF SS!Owned
    <3>3. box[b].is \in {"value", "failed"} /\ b \notin leaked
      BY <3>1, <3>2 DEF Owners, Alive
    <3>4. \A o, p \in SS!OwnersOf(b) : o = p
      BY <3>1 DEF OneOwner, SS!OwnersOf
    <3> QED
      BY <3>3, <3>4
  <2>2. ASSUME NEW b \in Boxes \cup RawBoxes, box[b].is \in {"value", "failed"}
        PROVE  b \in SS!Owned \cup leaked
    BY <2>2 DEF Owners, Alive, SS!Owned, Memory
  <2>3. \A e \in Exprs : typed[e] # None => typed[e] = held[e].data
    BY DEF PhaseRight
  <2>4. \A r \in RawBoxes : box[r] = SS!Freed =>
           \E e \in Exprs : phase[e] = "gone" /\ stored[e] = r
    BY DEF RawFreed
  <2>5. SS!BoxesOwned
    BY ONLY <2>1, <2>2, <2>3, <2>4 DEF SS!BoxesOwned
  <2> QED
    BY <2>5 DEF BoxesOwned
<1> QED
  BY <1>1, <1>2, <1>3, PTL DEF SS!Spec

-----------------------------------------------------------------------------
(* What a callback reads.                                                  *)

LEMMA FaithStays ==
    ASSUME NEW f \in Exprs, FaithOf(f), held'[f] = held[f], stored'[f] = stored[f],
           held[f].data # None => box'[held[f].data] = box[held[f].data]
    PROVE  FaithOf(f)'
BY DEF FaithOf

LEMMA FaithInit == SS!Init => Faithful
BY DEF SS!Init, SS!Nothing, Faithful, FaithOf

\* A box freed by its owner, or taken by one, is no box of another's.
LEMMA OthersStay ==
    ASSUME OwnerInv, NEW f \in Exprs, held[f].data # None
    PROVE  /\ \A e \in Exprs \ {f} : held[e].data # held[f].data
           /\ \A e \in Exprs \ {f} : held[f].data \notin SS!Replaced(e)
           /\ \A t \in Threads : local[t].data # held[f].data
           /\ \A b \in Boxes : SS!Allocated(b) => b # held[f].data
           /\ held[f].data \in Memory
<1>1. \A e \in Exprs \ {f} : held[e].data # held[f].data
  BY DEF OwnerInv, OneOwner
<1>2. \A e \in Exprs \ {f} : held[f].data \notin SS!Replaced(e)
  BY <1>1 DEF OwnerInv, PhaseRight, SS!Replaced
<1>3. \A t \in Threads : local[t].data # held[f].data
  BY DEF OwnerInv, OneOwner
<1>4. ASSUME NEW b \in Boxes, SS!Allocated(b)
      PROVE  b # held[f].data
  BY <1>4, AllocatedUnused, UnusedApart DEF OwnerInv, Owning, Memory
<1>5. held[f].data \in Memory
  BY DEF OwnerInv, StateType
<1> QED
  BY <1>1, <1>2, <1>3, <1>4, <1>5

LEMMA FaithNext ==
    ASSUME OwnerInv, Faithful, [SS!Next]_(SS!ssVars)
    PROVE  Faithful'
<1> SUFFICES ASSUME NEW f \in Exprs, phase'[f] # "gone"
             PROVE  FaithOf(f)'
  BY DEF Faithful
<1>t. StateType
  BY DEF OwnerInv
<1>f. FaithOf(f)
  BY <1>t, GoneStays DEF Faithful
<1>1. CASE UNCHANGED <<box, held, stored>>
  BY <1>1, <1>f, FaithStays
<1>2. ASSUME NEW e \in Exprs, SS!TypedSet(e)
      PROVE  FaithOf(f)'
  <2>1. PICK b \in Boxes :
          /\ SS!Allocated(b)
          /\ box' = [SS!Dropped(box, SS!Replaced(e)) EXCEPT ![b] = SS!Value(b)]
          /\ held' = [held EXCEPT ![e] = [data |-> b, copy |-> "clone_slot"]]
          /\ stored' = [stored EXCEPT ![e] = b]
    BY <1>2 DEF SS!TypedSet
  <2>2. b \in Memory
    BY DEF Memory
  <2>3. CASE f = e
    <3>1. box'[b] = SS!Value(b)
      BY <1>t, <2>1, <2>2, DroppedType
    <3>2. held'[f].data = b /\ stored'[f] = b /\ b # None
      BY <1>t, <2>1, <2>3, StateAssumption DEF StateType
    <3> QED
      BY <3>1, <3>2 DEF FaithOf
  <2>4. CASE f # e
    <3>1. ASSUME held[f].data # None
          PROVE  box'[held[f].data] = box[held[f].data]
      BY <1>t, <2>1, <2>4, <3>1, OthersStay, DroppedType
    <3>2. held'[f] = held[f] /\ stored'[f] = stored[f]
      BY <1>t, <2>1, <2>4 DEF StateType
    <3> QED
      BY <1>f, <3>1, <3>2, FaithStays
  <2> QED
    BY <2>3, <2>4
<1>3. ASSUME NEW e \in Exprs, SS!RawSet(e)
      PROVE  FaithOf(f)'
  <2>1. PICK r \in RawBoxes, c \in {"raw", "none"} :
          /\ \A o \in Exprs \ {e} : held[o].data # r
          /\ box' = [box EXCEPT ![r] = SS!Value(r)]
          /\ held' = [held EXCEPT ![e] = [data |-> r, copy |-> c]]
          /\ stored' = [stored EXCEPT ![e] = r]
    BY <1>3 DEF SS!RawSet
  <2>2. r \in Memory /\ r # None
    BY StateAssumption DEF Memory
  <2>3. CASE f = e
    <3>1. box'[r] = SS!Value(r) /\ held'[f].data = r /\ stored'[f] = r
      BY <1>t, <2>1, <2>2, <2>3 DEF StateType
    <3> QED
      BY <2>2, <3>1 DEF FaithOf
  <2>4. CASE f # e
    <3>1. held[f].data # None => box'[held[f].data] = box[held[f].data]
      BY <1>t, <2>1, <2>4 DEF StateType
    <3>2. held'[f] = held[f] /\ stored'[f] = stored[f]
      BY <1>t, <2>1, <2>4 DEF StateType
    <3> QED
      BY <1>f, <3>1, <3>2, FaithStays
  <2> QED
    BY <2>3, <2>4
<1>4. ASSUME NEW e \in Exprs,
             box' = SS!Dropped(box, {held[e].data}),
             held' = [held EXCEPT ![e] = SS!Nothing],
             phase' = [phase EXCEPT ![e] = "gone"],
             UNCHANGED stored
      PROVE  FaithOf(f)'
  <2>1. f # e /\ held'[f] = held[f]
    BY <1>t, <1>4 DEF StateType
  <2>2. ASSUME held[f].data # None
        PROVE  box'[held[f].data] = box[held[f].data]
    BY <1>t, <1>4, <2>1, <2>2, OthersStay, DroppedType
  <2> QED
    BY <1>f, <1>4, <2>1, <2>2, FaithStays
<1>5. ASSUME NEW e \in Exprs, NEW ok \in BOOLEAN, SS!EndBind(e, ok)
      PROVE  FaithOf(f)'
  BY <1>1, <1>4, <1>5 DEF SS!EndBind
<1>6. ASSUME NEW e \in Exprs, SS!Discard(e)
      PROVE  FaithOf(f)'
  BY <1>4, <1>6 DEF SS!Discard
<1>7. ASSUME NEW e \in Exprs, NEW copy \in Exprs, SS!CopyExpr(e, copy)
      PROVE  FaithOf(f)'
  <2> DEFINE old == held[e].data
             shared == [held EXCEPT ![copy] = [held[e] EXCEPT !.data = None]]
  <2>1. /\ phase[e] = "bound" /\ e # copy
        /\ stored' = [stored EXCEPT ![copy] = stored[e]]
    BY <1>7 DEF SS!CopyExpr
  <2>2. FaithOf(e)
    BY <2>1 DEF Faithful
  <2>3. CASE /\ old = None \/ held[e].copy = "none"
             /\ held' = shared
             /\ UNCHANGED box
    <3>1. CASE f = copy
      <4>1. held'[f].data = None /\ stored'[f] = stored[e]
        BY <1>t, <2>1, <2>3, <3>1 DEF StateType
      <4>2. stored[e] = None \/ stored[e] \in RawBoxes
        BY <2>2, <2>3 DEF FaithOf, OwnerInv, PhaseRight
      <4> QED
        BY <4>1, <4>2 DEF FaithOf
    <3>2. CASE f # copy
      <4>1. held'[f] = held[f] /\ stored'[f] = stored[f]
        BY <1>t, <2>1, <2>3, <3>2 DEF StateType
      <4> QED
        BY <1>f, <2>3, <4>1, FaithStays
    <3> QED
      BY <3>1, <3>2
  <2>4. ASSUME NEW b \in Boxes, NEW panics \in BOOLEAN, SS!Allocated(b), old # None,
               box' = [box EXCEPT ![b] = SS!Cloned(box[old], panics)],
               held' = IF SS!Cloned(box[old], panics) = SS!Unused THEN shared
                       ELSE [shared EXCEPT ![copy].data = b]
        PROVE  FaithOf(f)'
    <3>1. b \in Memory /\ b # None
      BY StateAssumption DEF Memory
    <3>2. old \in Memory /\ Alive(box, old)
      BY <2>4 DEF OwnerInv, Owners, StateType
    <3>3. /\ SS!Cloned(box[old], panics) \in {box[old], SS!CopyFailed}
          /\ SS!Cloned(box[old], panics) # SS!Unused
      BY <1>t, <3>2, ClonedType DEF SS!Unused
    <3>4. held' = [shared EXCEPT ![copy].data = b]
      BY <2>4, <3>3
    <3>5. CASE f = copy
      <4>1. held'[f].data = b /\ stored'[f] = stored[e]
        BY <1>t, <2>1, <3>4, <3>5 DEF StateType
      <4>2. box'[b] \in {box[old], SS!CopyFailed}
        BY <1>t, <2>4, <3>1, <3>3 DEF StateType
      <4>3. box[old] = SS!Value(stored[e]) \/ box[old] = SS!CopyFailed
        BY <2>2, <2>4 DEF FaithOf
      <4> QED
        BY <3>1, <4>1, <4>2, <4>3 DEF FaithOf
    <3>6. CASE f # copy
      <4>1. held'[f] = held[f] /\ stored'[f] = stored[f]
        BY <1>t, <2>1, <3>4, <3>6 DEF StateType
      <4>2. ASSUME held[f].data # None
            PROVE  box'[held[f].data] = box[held[f].data]
        <5>1. b # held[f].data /\ held[f].data \in Memory
          BY <2>4, <4>2, OthersStay
        <5> QED
          BY <1>t, <2>4, <5>1 DEF StateType
      <4> QED
        BY <1>f, <4>1, <4>2, FaithStays
    <3> QED
      BY <3>5, <3>6
  <2> QED
    BY <1>7, <2>3, <2>4 DEF SS!CopyExpr
<1>8. ASSUME NEW t \in Threads, SS!LocalSet(t)
      PROVE  FaithOf(f)'
  <2>1. PICK b \in Boxes : SS!Allocated(b) /\ box' = [box EXCEPT ![b] = SS!Value(b)]
    BY <1>8 DEF SS!LocalSet
  <2>2. UNCHANGED <<held, stored>>
    BY <1>8 DEF SS!LocalSet
  <2>3. ASSUME held[f].data # None
        PROVE  box'[held[f].data] = box[held[f].data]
    BY <1>t, <2>1, <2>3, OthersStay DEF StateType
  <2> QED
    BY <1>f, <2>2, <2>3, FaithStays
<1>9. ASSUME NEW t \in Threads, box' = SS!Dropped(box, {local[t].data}),
             UNCHANGED <<held, stored>>
      PROVE  FaithOf(f)'
  <2>1. ASSUME held[f].data # None
        PROVE  box'[held[f].data] = box[held[f].data]
    BY <1>t, <1>9, <2>1, OthersStay, DroppedType
  <2> QED
    BY <1>f, <1>9, <2>1, FaithStays
<1>10. ASSUME NEW t \in Threads, SS!EndCallback(t) \/ SS!EndThread(t)
       PROVE  FaithOf(f)'
  BY <1>1, <1>9, <1>10 DEF SS!EndCallback, SS!EndThread
<1>11. ASSUME NEW e \in Exprs, SS!StartBind(e)
       PROVE  FaithOf(f)'
  BY <1>1, <1>11 DEF SS!StartBind
<1>12. ASSUME NEW t \in Threads,
              \/ \E e \in Exprs : SS!StartInit(t, e)
              \/ SS!ReadBindData(t) \/ SS!StartExec(t)
       PROVE  FaithOf(f)'
  BY <1>1, <1>12 DEF SS!StartInit, SS!ReadBindData, SS!StartExec
<1> QED
  BY <1>1, <1>2, <1>3, <1>5, <1>6, <1>7, <1>8, <1>10, <1>11, <1>12
     DEF SS!Next, SS!ssVars

\* What a bound expression has stored stays until it is discarded.
LEMMA BoundStays ==
    ASSUME StateType, [SS!Next]_(SS!ssVars), NEW e \in Exprs, phase[e] = "bound",
           ~SS!Discard(e)
    PROVE  phase'[e] = "bound" /\ stored'[e] = stored[e]
<1> USE DEF StateType
<1>1. ASSUME NEW f \in Exprs,
             \/ SS!StartBind(f) \/ SS!TypedSet(f) \/ SS!RawSet(f)
             \/ \E ok \in BOOLEAN : SS!EndBind(f, ok)
      PROVE  phase'[e] = "bound" /\ stored'[e] = stored[e]
  BY <1>1 DEF SS!StartBind, SS!TypedSet, SS!RawSet, SS!EndBind
<1>2. ASSUME NEW f \in Exprs, SS!Discard(f)
      PROVE  phase'[e] = "bound" /\ stored'[e] = stored[e]
  <2>1. f # e
    BY <1>2
  <2> QED
    BY <1>2, <2>1 DEF SS!Discard
<1>3. ASSUME NEW f \in Exprs, NEW copy \in Exprs, SS!CopyExpr(f, copy)
      PROVE  phase'[e] = "bound" /\ stored'[e] = stored[e]
  BY <1>3 DEF SS!CopyExpr
<1>4. ASSUME NEW t \in Threads,
             \/ \E f \in Exprs : SS!StartInit(t, f)
             \/ SS!LocalSet(t) \/ SS!ReadBindData(t) \/ SS!StartExec(t)
             \/ SS!EndCallback(t) \/ SS!EndThread(t)
      PROVE  phase'[e] = "bound" /\ stored'[e] = stored[e]
  BY <1>4 DEF SS!StartInit, SS!LocalSet, SS!ReadBindData, SS!StartExec,
              SS!EndCallback, SS!EndThread
<1> QED
  BY <1>1, <1>2, <1>3, <1>4 DEF SS!Next, SS!ssVars

\* A bound expression with a thread's state is not discarded.
LEMMA SeatsStay ==
    ASSUME OwnerInv, Reading, [SS!Next]_(SS!ssVars),
           NEW t \in Threads, local[t].of # None
    PROVE  /\ local[t].of \in Exprs
           /\ phase'[local[t].of] = "bound"
           /\ stored'[local[t].of] = stored[local[t].of]
<1>1. local[t].of \in Exprs /\ StateType
  BY DEF OwnerInv, StateType
<1>2. phase[local[t].of] = "bound"
  BY DEF Reading
<1>3. ~SS!Discard(local[t].of)
  BY DEF SS!Discard
<1> QED
  BY <1>1, <1>2, <1>3, BoundStays

\* `read_slot` on the data of a bound expression.
LEMMA ReadFaithful ==
    ASSUME OwnerInv, NEW e \in Exprs, FaithOf(e),
           ~SS!Read(held[e].data).error
    PROVE  \/ SS!Read(held[e].data).saw = stored[e]
           \/ stored[e] \in RawBoxes /\ SS!Read(held[e].data).saw = None
<1>1. CASE held[e].data = None
  BY <1>1 DEF FaithOf, SS!Read
<1>2. CASE held[e].data # None
  <2>1. box[held[e].data] # SS!CopyFailed
    BY <1>2 DEF SS!Read
  <2>2. box[held[e].data] = SS!Value(stored[e])
    BY <1>2, <2>1 DEF FaithOf
  <2> QED
    BY <1>2, <2>2 DEF SS!Read, SS!Value
<1> QED
  BY <1>1, <1>2

LEMMA ReadingNext ==
    ASSUME OwnerInv, Faithful, Reading, [SS!Next]_(SS!ssVars)
    PROVE  Reading'
<1>t. StateType /\ Seated
  BY DEF OwnerInv
<1> SUFFICES
      ASSUME NEW t \in Threads
      PROVE  /\ local'[t].of # None => phase'[local'[t].of] = "bound"
             /\ run'[t].does \in {"initRead", "execRead"} /\ ~run'[t].error =>
                   \/ run'[t].saw = stored'[run'[t].of]
                   \/ stored'[run'[t].of] \in RawBoxes /\ run'[t].saw = None
  BY DEF Reading
<1>1. CASE local'[t].of = local[t].of /\ run'[t] = run[t]
  <2>1. CASE run[t].does = "nothing"
    BY <1>1, <2>1, SeatsStay
  <2>2. CASE run[t].does # "nothing"
    <3>1. local[t].of # None /\ run[t].of = local[t].of
      BY <1>t, <2>2 DEF Seated
    <3> QED
      BY <1>1, <3>1, SeatsStay DEF Reading
  <2> QED
    BY <2>1, <2>2
<1>2. CASE local'[t].of = None /\ run'[t].does = "nothing"
  BY <1>2
<1>3. CASE run'[t].does \in {"init", "exec"} /\ local'[t].of = local[t].of
  BY <1>3, SeatsStay
<1>4. ASSUME NEW e \in Exprs, SS!StartInit(t, e)
      PROVE  /\ run'[t].does = "init" /\ local'[t].of = e
             /\ phase'[e] = "bound"
  BY <1>t, <1>4 DEF SS!StartInit, SS!Idle, StateType
<1>5. CASE SS!ReadBindData(t)
  <2> DEFINE e == local[t].of
  <2>1. run[t].does \in {"init", "exec"} /\ e # None /\ run[t].of = e
    BY <1>t, <1>5 DEF Seated, SS!ReadBindData
  <2>2. e \in Exprs /\ phase[e] = "bound" /\ FaithOf(e)
    BY <1>t, <2>1 DEF StateType, Reading, Faithful
  <2>3. /\ local' = local /\ phase' = phase /\ stored' = stored
        /\ run'[t].of = e
        /\ run'[t].saw = SS!Read(held[e].data).saw
        /\ run'[t].error = SS!Read(held[e].data).error
    BY <1>t, <1>5, <2>1 DEF SS!ReadBindData, StateType
  <2> HIDE DEF e
  <2>4. ~run'[t].error =>
           \/ run'[t].saw = stored[e]
           \/ stored[e] \in RawBoxes /\ run'[t].saw = None
    BY <2>2, <2>3, ReadFaithful
  <2> QED
    BY <2>1, <2>2, <2>3, <2>4 DEF e
<1>6. CASE UNCHANGED <<local, run>>
  BY <1>1, <1>6
<1>7. ASSUME NEW u \in Threads,
             \/ \E e \in Exprs : SS!StartInit(u, e)
             \/ SS!LocalSet(u) \/ SS!ReadBindData(u) \/ SS!StartExec(u)
             \/ SS!EndCallback(u) \/ SS!EndThread(u),
             u # t
      PROVE  local'[t].of = local[t].of /\ run'[t] = run[t]
  BY <1>t, <1>7 DEF SS!StartInit, SS!LocalSet, SS!ReadBindData, SS!StartExec,
                    SS!EndCallback, SS!EndThread, StateType
<1>8. CASE SS!LocalSet(t)
  <2>1. local'[t].of = local[t].of /\ run'[t] = run[t]
    BY <1>t, <1>8 DEF SS!LocalSet, StateType
  <2> QED
    BY <1>1, <2>1
<1>9. CASE SS!StartExec(t)
  <2>1. run'[t].does = "exec" /\ local'[t].of = local[t].of
    BY <1>t, <1>9 DEF SS!StartExec, SS!Idle, StateType
  <2> QED
    BY <1>3, <2>1
<1>10. CASE SS!EndCallback(t)
  <2>1. /\ run'[t].does = "nothing"
        /\ local'[t].of \in {None, local[t].of}
    BY <1>t, <1>10 DEF SS!EndCallback, SS!Idle, StateType
  <2> QED
    BY <2>1, SeatsStay
<1>11. CASE SS!EndThread(t)
  <2>1. run'[t].does = "nothing" /\ local'[t].of = None
    BY <1>t, <1>11 DEF SS!EndThread, SS!Idle, StateType
  <2> QED
    BY <1>2, <2>1
<1>12. ASSUME NEW e \in Exprs,
              \/ SS!StartBind(e) \/ SS!TypedSet(e) \/ SS!RawSet(e)
              \/ \E ok \in BOOLEAN : SS!EndBind(e, ok)
              \/ \E copy \in Exprs : SS!CopyExpr(e, copy)
              \/ SS!Discard(e)
       PROVE  UNCHANGED <<local, run>>
  BY <1>12 DEF SS!StartBind, SS!TypedSet, SS!RawSet, SS!EndBind, SS!CopyExpr,
               SS!Discard
<1>13. CASE \E e \in Exprs : SS!StartInit(t, e)
  BY <1>4, <1>13
<1>14. CASE UNCHANGED SS!ssVars
  BY <1>6, <1>14 DEF SS!ssVars
<1> QED
  BY <1>1, <1>5, <1>6, <1>7, <1>8, <1>9, <1>10, <1>11, <1>12, <1>13, <1>14
     DEF SS!Next

\* A callback that read its bind data without an error has what the bind
\* callback stored last, on whatever copy of the expression and whatever
\* thread it runs (scalar/state.rs, `read_slot` and `clone_slot`).
THEOREM ReadsCorrect == SS!Spec => []ReadsWhatBindStored
<1>1. SS!Init => OwnerInv /\ Faithful
  BY OwnerInvInit, FaithInit
<1>2. SS!Init => Reading
  BY DEF SS!Init, SS!Idle, Reading
<1>3. OwnerInv /\ ReadInv /\ [SS!Next]_(SS!ssVars) => OwnerInv' /\ ReadInv'
  BY OwnerInvNext, FaithNext, ReadingNext DEF ReadInv
<1>4. ReadInv => ReadsWhatBindStored
  BY DEF ReadInv, Reading, ReadsWhatBindStored, SS!ReadsWhatBindStored
<1> QED
  BY <1>1, <1>2, <1>3, <1>4, PTL DEF SS!Spec, ReadInv
=============================================================================
