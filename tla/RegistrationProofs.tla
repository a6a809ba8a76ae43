------------------------- MODULE RegistrationProofs -------------------------
(* Proofs about the function builders, for all types and any depth of      *)
(* nesting, and about AbiCheck, for every history of releases.             *)
EXTENDS Registration, Sequences, WellFoundedInduction, TLAPS

-----------------------------------------------------------------------------
(* The recursions over types have solutions.                               *)

\* The least number with a property, for depths and positions.
LEMMA LeastNumber ==
    ASSUME NEW S \in SUBSET Nat, S # {}
    PROVE  \E n \in S : \A m \in S : n <= m
<1>1. PICK n \in S : \A m \in S : ~ <<m, n>> \in OpToRel(<, Nat)
  BY NatLessThanWellFounded, WFMin
<1>2. \A m \in S : ~ (m < n)
  BY <1>1 DEF OpToRel
<1> QED
  BY <1>2

\* The depths the walks go to, and what they make of each.
Depths == 0..(MaxTypeNesting + 1)
MatchesOf(ids, depth, matches) ==
    IF depth > MaxTypeNesting THEN Types ELSE FB!matching(ids, matches[depth + 1])
KeysOf(depth, keys) ==
    [t \in Types |->
        IF depth > MaxTypeNesting THEN <<"...">> ELSE FB!described(t, keys[depth + 1])]

\* The search for ids is defined, from the limit upwards.
LEMMA MatchesDefined ==
    ASSUME NEW ids
    PROVE  FB!contains_type_at(ids) =
               [depth \in Depths |-> MatchesOf(ids, depth, FB!contains_type_at(ids))]
<1> USE TypesAssumption
<1> DEFINE solves(n, f) ==
        f = [depth \in (MaxTypeNesting + 1 - n)..(MaxTypeNesting + 1) |->
                MatchesOf(ids, depth, f)]
<1> DEFINE failing == {n \in Nat : n <= MaxTypeNesting + 1 /\ ~ \E f : solves(n, f)}
<1>1. failing = {}
  <2> SUFFICES ASSUME failing # {} PROVE FALSE
    OBVIOUS
  <2>1. PICK n \in failing : \A m \in failing : n <= m
    BY LeastNumber
  <2> DEFINE first == MaxTypeNesting + 1 - n
  <2>2. CASE n = 0
    <3> DEFINE f == [depth \in first..(MaxTypeNesting + 1) |-> Types]
    <3>1. solves(n, f)
      BY <2>2 DEF MatchesOf
    <3> QED
      BY <2>1, <3>1
  <2>3. CASE n # 0
    <3>a. n \in Nat /\ n <= MaxTypeNesting + 1
      BY <2>1
    <3>1. n - 1 \in Nat /\ n - 1 <= MaxTypeNesting + 1 /\ n - 1 \notin failing
      <4> HIDE DEF failing
      <4> QED
        BY <2>1, <2>3, <3>a
    <3>2. PICK g : solves(n - 1, g)
      BY <3>1
    <3> DEFINE f == [depth \in first..(MaxTypeNesting + 1) |->
                        IF depth = first THEN MatchesOf(ids, depth, g) ELSE g[depth]]
    <3>3. first \in Nat /\ first <= MaxTypeNesting
      BY <2>1, <2>3
    <3>4. ASSUME NEW depth \in first..(MaxTypeNesting + 1)
          PROVE  f[depth] = MatchesOf(ids, depth, f)
      <4>1. CASE depth = first
        <5>1. f[depth + 1] = g[depth + 1]
          BY <3>3, <4>1
        <5> QED
          BY <3>3, <4>1, <5>1 DEF MatchesOf
      <4>2. CASE depth # first
        <5>1. depth \in (MaxTypeNesting + 1 - (n - 1))..(MaxTypeNesting + 1)
          BY <2>1, <4>2
        <5>2. g[depth] = MatchesOf(ids, depth, g)
          BY <3>2, <5>1
        <5>3. depth <= MaxTypeNesting => f[depth + 1] = g[depth + 1]
          BY <3>3, <4>2
        <5> QED
          BY <4>2, <5>2, <5>3 DEF MatchesOf
      <4> QED
        BY <4>1, <4>2
    <3>5. solves(n, f)
      BY <3>4
    <3> QED
      BY <2>1, <3>5
  <2> QED
    BY <2>2, <2>3
<1>2. MaxTypeNesting + 1 \in Nat /\ MaxTypeNesting + 1 \notin failing
  BY <1>1
<1>3. PICK f : solves(MaxTypeNesting + 1, f)
  BY <1>2
<1>4. f = [depth \in Depths |-> MatchesOf(ids, depth, f)]
  BY <1>3 DEF Depths
<1> QED
  BY <1>4 DEF FB!contains_type_at, Depths, MatchesOf

\* So are the keys.
LEMMA KeysDefined ==
    FB!describe_at = [depth \in Depths |-> KeysOf(depth, FB!describe_at)]
<1>a. MaxTypeNesting \in Nat
  BY TypesAssumption
<1> USE <1>a
<1> DEFINE solves(n, f) ==
        f = [depth \in (MaxTypeNesting + 1 - n)..(MaxTypeNesting + 1) |-> KeysOf(depth, f)]
<1> DEFINE failing == {n \in Nat : n <= MaxTypeNesting + 1 /\ ~ \E f : solves(n, f)}
<1>1. failing = {}
  <2> SUFFICES ASSUME failing # {} PROVE FALSE
    OBVIOUS
  <2>1. PICK n \in failing : \A m \in failing : n <= m
    BY LeastNumber
  <2> DEFINE first == MaxTypeNesting + 1 - n
  <2>2. CASE n = 0
    <3> DEFINE f == [depth \in first..(MaxTypeNesting + 1) |-> [t \in Types |-> <<"...">>]]
    <3>1. solves(n, f)
      BY <2>2 DEF KeysOf
    <3> QED
      BY <2>1, <3>1
  <2>3. CASE n # 0
    <3>a. n \in Nat /\ n <= MaxTypeNesting + 1
      BY <2>1
    <3>1. n - 1 \in Nat /\ n - 1 <= MaxTypeNesting + 1 /\ n - 1 \notin failing
      <4> HIDE DEF failing
      <4> QED
        BY <2>1, <2>3, <3>a
    <3>2. PICK g : solves(n - 1, g)
      BY <3>1
    <3> DEFINE f == [depth \in first..(MaxTypeNesting + 1) |->
                        IF depth = first THEN KeysOf(depth, g) ELSE g[depth]]
    <3>3. first \in Nat /\ first <= MaxTypeNesting
      BY <2>1, <2>3
    <3>4. ASSUME NEW depth \in first..(MaxTypeNesting + 1)
          PROVE  f[depth] = KeysOf(depth, f)
      <4>1. CASE depth = first
        <5>1. f[depth + 1] = g[depth + 1]
          BY <3>3, <4>1
        <5> QED
          BY <3>3, <4>1, <5>1 DEF KeysOf
      <4>2. CASE depth # first
        <5>1. depth \in (MaxTypeNesting + 1 - (n - 1))..(MaxTypeNesting + 1)
          BY <2>1, <4>2
        <5>2. g[depth] = KeysOf(depth, g)
          BY <3>2, <5>1
        <5>3. depth <= MaxTypeNesting => f[depth + 1] = g[depth + 1]
          BY <3>3, <4>2
        <5> QED
          BY <4>2, <5>2, <5>3 DEF KeysOf
      <4> QED
        BY <4>1, <4>2
    <3>5. solves(n, f)
      BY <3>4
    <3> QED
      BY <2>1, <3>5
  <2> QED
    BY <2>2, <2>3
<1>2. MaxTypeNesting + 1 \in Nat /\ MaxTypeNesting + 1 \notin failing
  <2> HIDE DEF failing
  <2> QED
    BY <1>1
<1>3. PICK f : solves(MaxTypeNesting + 1, f)
  BY <1>2
<1>4. f = [depth \in Depths |-> KeysOf(depth, f)]
  BY <1>3 DEF Depths
<1> QED
  BY <1>4 DEF FB!describe_at, Depths, KeysOf

\* What an argument costs depends on what its members do.
CostsOf(s, costs) ==
    [nothing |-> FB!Nothing(s, costs), undetected |-> FB!Undetected(s, costs)]

LEMMA CostsLocal ==
    ASSUME NEW s \in Types, NEW f, NEW g,
           \A m \in FB!MemberTypes(s) : f[m] = g[m]
    PROVE  CostsOf(s, f) = CostsOf(s, g)
<1>1. \A i \in DOMAIN s.members : f[s.members[i].type] = g[s.members[i].type]
  BY DEF FB!MemberTypes
<1>2. \A i \in DOMAIN s.members : \A n, what :
         FB!Matches(s.members[i], n, f, what) <=> FB!Matches(s.members[i], n, g, what)
  BY <1>1 DEF FB!Matches
<1>3. FB!Nothing(s, f) = FB!Nothing(s, g)
  BY <1>2 DEF FB!Nothing
<1>4. FB!Undetected(s, f) = FB!Undetected(s, g)
  BY <1>2 DEF FB!Undetected
<1> QED
  BY <1>3, <1>4 DEF CostsOf

\* A set of types with the types of their members, and the recursion on it.
Closed(D) == \A s \in D : FB!MemberTypes(s) \subseteq D
Solves(D, f) == f = [s \in D |-> CostsOf(s, f)]

\* Two solutions agree where both are defined.
LEMMA SolutionsAgree ==
    ASSUME NEW D \in SUBSET Types, NEW E \in SUBSET Types, Closed(D), Closed(E),
           NEW f, NEW g, Solves(D, f), Solves(E, g)
    PROVE  \A s \in D \cap E : f[s] = g[s]
<1> DEFINE odd == {s \in D \cap E : f[s] # g[s]}
<1> SUFFICES ASSUME odd # {} PROVE FALSE
  OBVIOUS
<1>1. PICK s \in odd : FB!MemberTypes(s) \cap odd = {}
  <2>1. odd \in SUBSET Types
    OBVIOUS
  <2> HIDE DEF odd
  <2> QED
    BY <2>1, TypesAssumption
<1>2. s \in Types /\ \A m \in FB!MemberTypes(s) : f[m] = g[m]
  BY <1>1 DEF Closed
<1>3. CostsOf(s, f) = CostsOf(s, g)
  BY <1>2, CostsLocal
<1>4. f[s] = CostsOf(s, f) /\ g[s] = CostsOf(s, g)
  BY <1>1 DEF Solves
<1> QED
  BY <1>1, <1>3, <1>4

\* The types on which the recursion has a solution, and the solution.
Solved == {s \in Types : \E D \in SUBSET Types : \E f : s \in D /\ Closed(D) /\ Solves(D, f)}
Solution ==
    [s \in Solved |->
        CHOOSE v : \E D \in SUBSET Types : \E f :
            s \in D /\ Closed(D) /\ Solves(D, f) /\ v = f[s]]

\* Where some solution is defined, this one takes its values.
LEMMA SolutionIs ==
    ASSUME NEW D \in SUBSET Types, NEW f, Closed(D), Solves(D, f), NEW s \in D
    PROVE  s \in Solved /\ Solution[s] = f[s]
<1>1. s \in Solved
  BY DEF Solved
<1> DEFINE Value(v) == \E E \in SUBSET Types : \E g :
              s \in E /\ Closed(E) /\ Solves(E, g) /\ v = g[s]
<1>2. Value(f[s])
  OBVIOUS
<1>3. ASSUME NEW v, Value(v) PROVE v = f[s]
  <2>a. PICK E \in SUBSET Types :
               \E g : s \in E /\ Closed(E) /\ Solves(E, g) /\ v = g[s]
    BY <1>3
  <2>1. PICK g : s \in E /\ Closed(E) /\ Solves(E, g) /\ v = g[s]
    BY <2>a
  <2>2. \A x \in D \cap E : f[x] = g[x]
    BY <2>1, SolutionsAgree
  <2> QED
    BY <2>1, <2>2
<1>4. Solution[s] = CHOOSE v : Value(v)
  BY <1>1 DEF Solution
<1> HIDE DEF Value
<1> QED
  BY <1>1, <1>2, <1>3, <1>4

\* So that it is a solution itself, the largest.
LEMMA SolutionSolves == Closed(Solved) /\ Solves(Solved, Solution)
<1>1. ASSUME NEW s \in Solved
      PROVE  FB!MemberTypes(s) \subseteq Solved /\ Solution[s] = CostsOf(s, Solution)
  <2>a. PICK D \in SUBSET Types : \E f : s \in D /\ Closed(D) /\ Solves(D, f)
    BY DEF Solved
  <2>1. PICK f : s \in D /\ Closed(D) /\ Solves(D, f)
    BY <2>a
  <2>2. \A x \in D : x \in Solved /\ Solution[x] = f[x]
    BY <2>1, SolutionIs
  <2>3. FB!MemberTypes(s) \subseteq D
    BY <2>1 DEF Closed
  <2>4. CostsOf(s, f) = CostsOf(s, Solution)
    BY <2>1, <2>2, <2>3, CostsLocal
  <2>5. f[s] = CostsOf(s, f)
    BY <2>1 DEF Solves
  <2> QED
    BY <2>1, <2>2, <2>3, <2>4, <2>5
<1>2. Solution = [s \in Solved |-> Solution[s]]
  BY DEF Solution
<1>3. Solution = [s \in Solved |-> CostsOf(s, Solution)]
  BY <1>1, <1>2
<1> QED
  BY <1>1, <1>3 DEF Closed, Solves

\* It has one on every type, since no type is within itself.
LEMMA CostsDefined ==
    FB!Costs = [s \in Types |-> CostsOf(s, FB!Costs)]
<1> DEFINE bad == Types \ Solved
<1>1. ASSUME bad # {} PROVE FALSE
  <2>1. PICK t \in bad : FB!MemberTypes(t) \cap bad = {}
    <3>1. bad \in SUBSET Types
      OBVIOUS
    <3> HIDE DEF bad
    <3> QED
      BY <1>1, <3>1, TypesAssumption
  <2>2. t \in Types /\ t \notin Solved /\ FB!MemberTypes(t) \subseteq Solved
    BY <2>1, TypesAssumption
  <2> DEFINE D == Solved \cup {t}
  <2> DEFINE f == [s \in D |-> IF s = t THEN CostsOf(t, Solution) ELSE Solution[s]]
  <2>3. D \in SUBSET Types
    BY <2>2 DEF Solved
  <2>4. Closed(D)
    BY <2>2, SolutionSolves DEF Closed
  <2>5. \A s \in Solved : f[s] = Solution[s]
    BY <2>2
  <2>6. ASSUME NEW s \in D PROVE f[s] = CostsOf(s, f)
    <3>1. s \in Types /\ FB!MemberTypes(s) \subseteq Solved
      BY <2>2, <2>3, SolutionSolves DEF Closed
    <3>2. f[s] = CostsOf(s, Solution)
      BY <2>2, SolutionSolves DEF Solves
    <3>3. \A m \in FB!MemberTypes(s) : f[m] = Solution[m]
      BY <2>5, <3>1
    <3> HIDE DEF f
    <3> QED
      BY <3>1, <3>2, <3>3, CostsLocal
  <2>7. f = [s \in D |-> CostsOf(s, f)]
    <3>1. f = [s \in D |-> f[s]]
      OBVIOUS
    <3> HIDE DEF f
    <3> QED
      BY <2>6, <3>1
  <2>8. Solves(D, f)
    BY <2>7 DEF Solves
  <2> HIDE DEF f
  <2>9. t \in Solved
    BY <2>2, <2>3, <2>4, <2>8, SolutionIs
  <2> QED
    BY <2>2, <2>9
<1>2. Solved = Types
  BY <1>1 DEF Solved
<1>3. Solution = [s \in Types |-> CostsOf(s, Solution)]
  BY <1>2, SolutionSolves DEF Solves
<1> QED
  BY <1>3 DEF FB!Costs, CostsOf

-----------------------------------------------------------------------------
(* The key tells apart no two types that DuckDB takes for one another.     *)

\* What an argument costs nothing for, in a way that is detected.
Found(s) == FB!Costs[s].nothing \ FB!Costs[s].undetected

\* Such types have one key, when this holds of their members.
LEMMA FoundDescribed ==
    ASSUME NEW s \in Types, NEW t \in Found(s), NEW key,
           \A m \in FB!MemberTypes(s) : \A n \in Found(m) : key[n] = key[m]
    PROVE  FB!described(t, key) = FB!described(s, key)
<1>0. t \in FB!Nothing(s, FB!Costs) /\ t \notin FB!Undetected(s, FB!Costs) /\ t \in Types
  <2>1. FB!Costs[s] = CostsOf(s, FB!Costs)
    BY CostsDefined
  <2>2. t \in FB!Nothing(s, FB!Costs) /\ t \notin FB!Undetected(s, FB!Costs)
    BY <2>1 DEF Found, CostsOf
  <2> QED
    BY <2>2 DEF FB!Nothing
<1>1. /\ t.is = s.is /\ t.alias = s.alias
      /\ s.is = "ARRAY" => t.detail = s.detail
      /\ ~FB!SmallerUnion(s, t)
  BY <1>0 DEF FB!Nothing, FB!Undetected
<1>2. ASSUME NEW i \in DOMAIN s.members, NEW j \in DOMAIN t.members, s.is \notin FB!Coarse,
             FB!Matches(s.members[i], t.members[j], FB!Costs, "nothing")
      PROVE  /\ FB!Name(t.members[j]) = FB!Name(s.members[i])
             /\ key[t.members[j].type] = key[s.members[i].type]
  <2>1. ~FB!Matches(s.members[i], t.members[j], FB!Costs, "undetected")
    BY <1>0, <1>2 DEF FB!Undetected
  <2>2. /\ FB!Name(t.members[j]) = FB!Name(s.members[i])
        /\ t.members[j].type \in Found(s.members[i].type)
    BY <1>2, <2>1 DEF FB!Matches, Found
  <2> QED
    BY <2>2 DEF FB!MemberTypes
<1>3. CASE s.is \in FB!Coarse
  BY <1>1, <1>3 DEF FB!described
<1>4. CASE /\ s.is \notin FB!Coarse
           /\ FB!Named(s)
           /\ \A i \in DOMAIN s.members : \E j \in DOMAIN t.members :
                 FB!Matches(s.members[i], t.members[j], FB!Costs, "nothing")
           /\ s.is = "UNION" \/ \A j \in DOMAIN t.members : \E i \in DOMAIN s.members :
                 FB!Matches(s.members[i], t.members[j], FB!Costs, "nothing")
  <2>1. ASSUME NEW j \in DOMAIN t.members
        PROVE  \E i \in DOMAIN s.members : FB!Name(t.members[j]) = FB!Name(s.members[i])
    <3>1. CASE s.is = "UNION"
      BY <1>1, <3>1 DEF FB!SmallerUnion
    <3>2. CASE s.is # "UNION"
      BY <1>2, <1>4, <3>2
    <3> QED
      BY <3>1, <3>2
  <2>2. FB!Named(t)
    BY <1>4, <2>1 DEF FB!Named
  <2>3. ASSUME NEW i \in DOMAIN s.members
        PROVE  \E j \in DOMAIN t.members :
                  <<FB!Name(s.members[i]), key[s.members[i].type]>>
                      = <<FB!Name(t.members[j]), key[t.members[j].type]>>
    BY <1>2, <1>4
  <2>4. ASSUME NEW j \in DOMAIN t.members
        PROVE  \E i \in DOMAIN s.members :
                  <<FB!Name(s.members[i]), key[s.members[i].type]>>
                      = <<FB!Name(t.members[j]), key[t.members[j].type]>>
    <3>1. PICK i \in DOMAIN s.members : FB!Name(t.members[j]) = FB!Name(s.members[i])
      BY <2>1
    <3>2. PICK k \in DOMAIN t.members :
             FB!Matches(s.members[i], t.members[k], FB!Costs, "nothing")
      BY <1>4
    <3>3. FB!Name(t.members[k]) = FB!Name(t.members[j])
      BY <1>2, <1>4, <3>1, <3>2
    <3>4. k = j
      BY <1>0, <2>2, <3>3, TypesAssumption
    <3> QED
      BY <1>2, <1>4, <3>2, <3>4
  <2>5. {<<FB!Name(s.members[i]), key[s.members[i].type]>> : i \in DOMAIN s.members}
            = {<<FB!Name(t.members[j]), key[t.members[j].type]>> : j \in DOMAIN t.members}
    BY <2>3, <2>4
  <2>6. FB!push_members(t, key) = FB!push_members(s, key)
    BY <1>4, <2>2, <2>5 DEF FB!push_members
  <2> QED
    BY <1>1, <2>6 DEF FB!described
<1>5. CASE /\ s.is \notin FB!Coarse
           /\ ~FB!Named(s)
           /\ DOMAIN t.members = DOMAIN s.members
           /\ \A i \in DOMAIN s.members :
                 FB!Matches(s.members[i], t.members[i], FB!Costs, "nothing")
  <2>1. \A i \in DOMAIN s.members :
           /\ FB!Name(t.members[i]) = FB!Name(s.members[i])
           /\ key[t.members[i].type] = key[s.members[i].type]
    BY <1>2, <1>5
  <2>2. ~FB!Named(t)
    BY <1>5, <2>1 DEF FB!Named
  <2>3. FB!push_members(t, key) = FB!push_members(s, key)
    BY <1>5, <2>1, <2>2 DEF FB!push_members
  <2> QED
    BY <1>1, <2>3 DEF FB!described
<1> QED
  BY <1>0, <1>3, <1>4, <1>5 DEF FB!Nothing

\* At every depth, from the limit upwards.
LEMMA SameKey ==
    ASSUME NEW s \in Types, NEW t \in Found(s)
    PROVE  FB!describe(t) = FB!describe(s)
<1> USE TypesAssumption
<1> DEFINE depth(n) == MaxTypeNesting + 1 - n
<1> DEFINE failing ==
        {n \in Nat : /\ n <= MaxTypeNesting + 1
                     /\ ~ \A x \in Types : \A y \in Found(x) :
                             FB!describe_at[depth(n)][y] = FB!describe_at[depth(n)][x]}
<1>1. failing = {}
  <2> SUFFICES ASSUME failing # {} PROVE FALSE
    OBVIOUS
  <2>1. PICK n \in failing : \A m \in failing : n <= m
    BY LeastNumber
  <2>2. n \in Nat /\ n <= MaxTypeNesting + 1 /\ depth(n) \in Depths
    BY <2>1 DEF Depths
  <2>a. PICK x \in Types : \E y \in Found(x) :
           FB!describe_at[depth(n)][y] # FB!describe_at[depth(n)][x]
    BY <2>1
  <2>3. PICK y \in Found(x) :
           FB!describe_at[depth(n)][y] # FB!describe_at[depth(n)][x]
    BY <2>a
  <2>4. y \in Types
    <3>1. y \in CostsOf(x, FB!Costs).nothing
      BY <2>3, CostsDefined DEF Found
    <3> QED
      BY <3>1 DEF CostsOf, FB!Nothing
  <2>5. \A z \in Types : FB!describe_at[depth(n)][z] =
                            IF depth(n) > MaxTypeNesting THEN <<"...">>
                            ELSE FB!described(z, FB!describe_at[depth(n) + 1])
    <3>1. FB!describe_at[depth(n)] = KeysOf(depth(n), FB!describe_at)
      BY <2>2, KeysDefined
    <3> QED
      BY <3>1 DEF KeysOf
  <2>6. n # 0
    BY <2>2, <2>3, <2>4, <2>5
  <2>7. n - 1 \in Nat /\ n - 1 <= MaxTypeNesting + 1 /\ n - 1 \notin failing
    <3> HIDE DEF failing
    <3> QED
      BY <2>1, <2>2, <2>6
  <2>8. \A v \in Types : \A w \in Found(v) :
           FB!describe_at[depth(n - 1)][w] = FB!describe_at[depth(n - 1)][v]
    BY <2>7
  <2>9. depth(n - 1) = depth(n) + 1 /\ ~ (depth(n) > MaxTypeNesting)
    BY <2>2, <2>6
  <2>10. FB!MemberTypes(x) \subseteq Types
    OBVIOUS
  <2>11. FB!described(y, FB!describe_at[depth(n) + 1])
            = FB!described(x, FB!describe_at[depth(n) + 1])
    BY <2>3, <2>8, <2>9, <2>10, FoundDescribed
  <2> QED
    BY <2>3, <2>4, <2>5, <2>9, <2>11
<1>2. MaxTypeNesting + 1 \in Nat /\ MaxTypeNesting + 1 \notin failing
  <2> HIDE DEF failing
  <2> QED
    BY <1>1
<1>3. depth(MaxTypeNesting + 1) = 0
  OBVIOUS
<1>4. \A x \in Types : \A y \in Found(x) :
         FB!describe_at[depth(MaxTypeNesting + 1)][y]
            = FB!describe_at[depth(MaxTypeNesting + 1)][x]
  <2> HIDE DEF depth
  <2> QED
    BY <1>2
<1> QED
  BY <1>3, <1>4 DEF FB!describe

-----------------------------------------------------------------------------
(* A type the search lets through has none of the ids at any depth.        *)

\* A type the search finds nothing in has nothing within it, however deep.
LEMMA NoneWithin ==
    ASSUME NEW t \in Types, ~FB!contains_any_or_invalid(t)
    PROVE  ~FB!Mentions(t, {"ANY", "INVALID"})
<1> USE TypesAssumption
<1> DEFINE matches == FB!contains_type_at({"ANY", "INVALID"})
<1> DEFINE clear == {u \in Types : \E depth \in Depths : u \notin matches[depth]}
<1>1. ASSUME NEW u \in clear
      PROVE  u.is \notin {"ANY", "INVALID"} /\ FB!MemberTypes(u) \subseteq clear
  <2>1. PICK depth \in Depths : u \notin matches[depth]
    OBVIOUS
  <2>2. matches[depth] = MatchesOf({"ANY", "INVALID"}, depth, matches)
    BY MatchesDefined
  <2> HIDE DEF matches
  <2>3. depth <= MaxTypeNesting /\ depth + 1 \in Depths
    BY <2>1, <2>2 DEF MatchesOf, Depths
  <2>4. u \notin FB!matching({"ANY", "INVALID"}, matches[depth + 1])
    BY <2>1, <2>2, <2>3 DEF MatchesOf, Depths
  <2>5. u \in Types
    OBVIOUS
  <2>6. /\ u.is \notin {"ANY", "INVALID"}
        /\ \A m \in FB!MemberTypes(u) : m \notin matches[depth + 1]
    BY <2>4, <2>5 DEF FB!matching
  <2>7. FB!MemberTypes(u) \subseteq Types
    BY <2>5
  <2> QED
    BY <2>3, <2>6, <2>7
<1>2. t \in clear
  BY DEF FB!contains_any_or_invalid, Depths
<1>3. clear \in SUBSET Types
  OBVIOUS
<1> HIDE DEF clear
<1>4. FB!Within[t] \subseteq clear
  BY <1>1, <1>2, <1>3 DEF FB!Within
<1> QED
  BY <1>1, <1>4 DEF FB!Mentions

-----------------------------------------------------------------------------
(* Overloads that some call suits equally well are found.                  *)

Arguments == {None} \cup Types

\* What a shape says of an argument is the key of the type expected there.
LEMMA KeyOfArgument ==
    ASSUME NEW params \in Seq(Types), NEW more \in Arguments,
           NEW n \in Nat, FB!Accepts(params, more, n), NEW i \in 1..n
    PROVE  /\ FB!TypesFor(params, more, n)[i] \in Types
           /\ FB!ShapeAt(FB!signature_parts(params, more), i)
                 = FB!describe(FB!TypesFor(params, more, n)[i])
<1> DEFINE shape == FB!signature_parts(params, more)
<1>1. /\ shape.fixed = [k \in DOMAIN params |-> FB!describe(params[k])]
      /\ shape.varargs = IF more = None THEN None ELSE FB!describe(more)
  BY DEF FB!signature_parts
<1>2. DOMAIN params = 1..Len(params) /\ Len(params) \in Nat
  OBVIOUS
<1>3. CASE i <= Len(params)
  <2>1. i \in DOMAIN params /\ params[i] \in Types
    BY <1>2, <1>3
  <2>2. FB!TypesFor(params, more, n)[i] = params[i]
    BY <1>3 DEF FB!TypesFor
  <2>3. FB!ShapeAt(shape, i) = FB!describe(params[i])
    BY <1>1, <2>1 DEF FB!ShapeAt
  <2> QED
    BY <2>1, <2>2, <2>3
<1>4. CASE ~ (i <= Len(params))
  <2>1. more # None
    <3>1. more = None => n = Len(params)
      BY DEF FB!Accepts
    <3>2. n # Len(params)
      BY <1>4
    <3> QED
      BY <3>1, <3>2
  <2>a. more \in Types
    BY <2>1 DEF Arguments
  <2>b. i \notin DOMAIN params
    BY <1>2, <1>4
  <2>2. FB!TypesFor(params, more, n)[i] = more
    BY <1>4 DEF FB!TypesFor
  <2>3. FB!ShapeAt(shape, i) = FB!describe(more)
    BY <1>1, <2>1, <2>b DEF FB!ShapeAt
  <2> QED
    BY <2>a, <2>2, <2>3
<1> QED
  BY <1>3, <1>4

\* A shape has as many keys as the function has parameters.
LEMMA PartsOfShape ==
    ASSUME NEW params \in Seq(Types), NEW more \in Arguments
    PROVE  /\ Len(FB!signature_parts(params, more).fixed) = Len(params)
           /\ FB!signature_parts(params, more).varargs = None <=> more = None
<1>1. FB!signature_parts(params, more).fixed
         = [k \in 1..Len(params) |-> FB!describe(params[k])]
  BY DEF FB!signature_parts
<1>2. Len(FB!signature_parts(params, more).fixed) = Len(params)
  BY <1>1
<1>3. FB!signature_parts(params, more).varargs = None <=> more = None
  BY TypesAssumption DEF FB!signature_parts, Arguments
<1> QED
  BY <1>2, <1>3

\* Shapes that agree on the arguments of some call that both take overlap: the
\* arity that is compared is the least of such a call.
LEMMA OverlapAt ==
    ASSUME NEW a, NEW b, NEW n \in Nat, Len(a.fixed) \in Nat, Len(b.fixed) \in Nat,
           n = Len(a.fixed) \/ (n > Len(a.fixed) /\ a.varargs # None),
           n = Len(b.fixed) \/ (n > Len(b.fixed) /\ b.varargs # None),
           \A i \in 1..n : FB!ShapeAt(a, i) = FB!ShapeAt(b, i)
    PROVE  FB!shapes_overlap(a, b)
<1>1. FB!arity(a, b) \in 0..n
  <2>1. CASE a.varargs = None /\ b.varargs = None
    BY <2>1 DEF FB!arity
  <2>2. CASE a.varargs = None /\ b.varargs # None
    BY <2>2 DEF FB!arity
  <2>3. CASE a.varargs # None /\ b.varargs = None
    BY <2>3 DEF FB!arity
  <2>4. CASE a.varargs # None /\ b.varargs # None
    BY <2>4 DEF FB!arity
  <2> QED
    BY <2>1, <2>2, <2>3, <2>4
<1>2. FB!arity(a, b) >= 0 /\ \A i \in 1..FB!arity(a, b) : i \in 1..n
  BY <1>1
<1> QED
  BY <1>2 DEF FB!shapes_overlap

\* Overloads some call suits equally well are found out by their keys.
LEMMA AmbiguousFound ==
    ASSUME NEW p \in Seq(Types), NEW pv \in Arguments,
           NEW q \in Seq(Types), NEW qv \in Arguments,
           NEW most \in Nat, FB!Ambiguous(p, pv, q, qv, most)
    PROVE  FB!shapes_overlap(FB!signature_parts(p, pv), FB!signature_parts(q, qv))
<1> DEFINE a == FB!signature_parts(p, pv)
<1> DEFINE b == FB!signature_parts(q, qv)
<1>1. PICK n \in 0..most :
         /\ FB!Accepts(p, pv, n) /\ FB!Accepts(q, qv, n)
         /\ \A i \in 1..n : \E arg \in Types :
               {FB!TypesFor(p, pv, n)[i], FB!TypesFor(q, qv, n)[i]} \subseteq Found(arg)
  BY DEF FB!Ambiguous, Found
<1>2. n \in Nat
  OBVIOUS
<1>3. ASSUME NEW i \in 1..n PROVE FB!ShapeAt(a, i) = FB!ShapeAt(b, i)
  <2>1. /\ FB!TypesFor(p, pv, n)[i] \in Types
        /\ FB!ShapeAt(a, i) = FB!describe(FB!TypesFor(p, pv, n)[i])
    BY <1>1, <1>2, KeyOfArgument
  <2>2. FB!ShapeAt(b, i) = FB!describe(FB!TypesFor(q, qv, n)[i])
    BY <1>1, <1>2, KeyOfArgument
  <2>a. PICK arg \in Types :
           {FB!TypesFor(p, pv, n)[i], FB!TypesFor(q, qv, n)[i]} \subseteq Found(arg)
    BY <1>1
  <2>b. /\ FB!TypesFor(p, pv, n)[i] \in Found(arg)
        /\ FB!TypesFor(q, qv, n)[i] \in Found(arg)
    BY <2>a
  <2>3. FB!describe(FB!TypesFor(q, qv, n)[i]) = FB!describe(FB!TypesFor(p, pv, n)[i])
    <3>1. FB!describe(FB!TypesFor(p, pv, n)[i]) = FB!describe(arg)
      BY <2>b, SameKey
    <3>2. FB!describe(FB!TypesFor(q, qv, n)[i]) = FB!describe(arg)
      BY <2>b, SameKey
    <3> QED
      BY <3>1, <3>2
  <2> QED
    BY <2>1, <2>2, <2>3
<1>4. /\ Len(a.fixed) = Len(p) /\ (a.varargs = None <=> pv = None)
      /\ Len(b.fixed) = Len(q) /\ (b.varargs = None <=> qv = None)
  BY PartsOfShape
<1>5. /\ Len(p) \in Nat /\ Len(q) \in Nat
      /\ n = Len(p) \/ (n > Len(p) /\ pv # None)
      /\ n = Len(q) \/ (n > Len(q) /\ qv # None)
  BY <1>1 DEF FB!Accepts
<1> HIDE DEF a, b
<1>6. FB!shapes_overlap(a, b)
  BY <1>2, <1>3, <1>4, <1>5, OverlapAt
<1> QED
  BY <1>6 DEF a, b

-----------------------------------------------------------------------------
(* The merge gives the parameters back in the order they were declared.    *)

Placed == [at : Nat, type : Types]
Turn == [out : Seq(Types), s : Nat \ {0}, l : Nat \ {0}]

\* The turn at `pos` takes the next of one of the lists.
Takes(simple, logical, pos, m, next) ==
    \/ /\ m.l <= Len(logical) /\ logical[m.l].at = pos
       /\ next = [out |-> Append(m.out, logical[m.l].type), s |-> m.s, l |-> m.l + 1]
    \/ /\ ~ (m.l <= Len(logical) /\ logical[m.l].at = pos)
       /\ m.s <= Len(simple)
       /\ next = [out |-> Append(m.out, simple[m.s]), s |-> m.s + 1, l |-> m.l]

\* `steps` are the turns of the loop, which end with everything said.
Merges(simple, logical, said, steps) ==
    LET N == Len(simple) + Len(logical) IN
    /\ steps \in [0..N -> Turn]
    /\ steps[0] = [out |-> <<>>, s |-> 1, l |-> 1]
    /\ \A pos \in 0..(N - 1) : Takes(simple, logical, pos, steps[pos], steps[pos + 1])
    /\ steps[N] = [out |-> said, s |-> Len(simple) + 1, l |-> Len(logical) + 1]

InOrder(simple, logical, said) == \E steps : Merges(simple, logical, said, steps)

\* The loop has one outcome, which those turns come to.
LEMMA MergedIsSaid ==
    ASSUME NEW simple \in Seq(Types), NEW logical \in Seq(Placed), NEW said,
           InOrder(simple, logical, said)
    PROVE  FB!merged_params(simple, logical) = said
<1> DEFINE N == Len(simple) + Len(logical)
<1> DEFINE turn(pos, merge) ==
        IF pos = 0 THEN [out |-> <<>>, s |-> 1, l |-> 1]
        ELSE FB!merge_at(pos - 1, merge[pos - 1], simple, logical)
<1>1. N \in Nat
  OBVIOUS
<1>2. PICK steps : Merges(simple, logical, said, steps)
  BY DEF InOrder
<1>3. ASSUME NEW pos \in 0..N PROVE steps[pos] = turn(pos, steps)
  <2>1. CASE pos = 0
    BY <1>2, <2>1 DEF Merges
  <2>2. CASE pos # 0
    <3>1. pos - 1 \in 0..(N - 1) /\ (pos - 1) + 1 = pos
      BY <1>1, <2>2
    <3>2. Takes(simple, logical, pos - 1, steps[pos - 1], steps[pos])
      BY <1>2, <3>1 DEF Merges
    <3> QED
      BY <2>2, <3>2 DEF Takes, FB!merge_at
  <2> QED
    BY <2>1, <2>2
<1>4. steps = [pos \in 0..N |-> turn(pos, steps)]
  <2>1. steps = [pos \in 0..N |-> steps[pos]]
    BY <1>2 DEF Merges
  <2> HIDE DEF turn, N
  <2> QED
    BY <1>3, <2>1
<1> DEFINE merge == CHOOSE g : g = [pos \in 0..N |-> turn(pos, g)]
<1>5. merge = [pos \in 0..N |-> turn(pos, merge)]
  BY <1>4
<1>6. FB!merged_params(simple, logical) = merge[N].out
  BY DEF FB!merged_params
<1> HIDE DEF merge, N
<1> DEFINE odd == {pos \in Nat : pos <= N /\ merge[pos] # steps[pos]}
<1>7. odd = {}
  <2> SUFFICES ASSUME odd # {} PROVE FALSE
    OBVIOUS
  <2>1. PICK pos \in odd : \A other \in odd : pos <= other
    BY LeastNumber
  <2>2. pos \in Nat /\ pos \in 0..N /\ merge[pos] # steps[pos]
    BY <1>1, <2>1
  <2>3. merge[pos] = turn(pos, merge) /\ steps[pos] = turn(pos, steps)
    <3> HIDE DEF turn, odd
    <3> QED
      BY <1>3, <1>5, <2>2
  <2>4. pos # 0
    BY <2>2, <2>3
  <2>5. pos - 1 \in Nat /\ pos - 1 <= N /\ pos - 1 \notin odd
    <3> HIDE DEF odd
    <3> QED
      BY <1>1, <2>1, <2>2, <2>4
  <2>6. merge[pos - 1] = steps[pos - 1]
    BY <2>5
  <2> QED
    BY <2>2, <2>3, <2>4, <2>6
<1>8. merge[N] = steps[N]
  BY <1>1, <1>7
<1> QED
  BY <1>2, <1>6, <1>8 DEF Merges, N

\* Nothing was declared.
LEMMA NothingInOrder == InOrder(<<>>, <<>>, <<>>)
<1> DEFINE steps == [pos \in 0..0 |-> [out |-> <<>>, s |-> 1, l |-> 1]]
<1>1. Len(<<>>) = 0 /\ <<>> \in Seq(Types)
  OBVIOUS
<1>2. Merges(<<>>, <<>>, <<>>, steps)
  BY <1>1 DEF Merges, Turn
<1> QED
  BY <1>2 DEF InOrder

\* What was appended to either list is taken by a turn after the last, and no
\* turn before that comes out otherwise.
LEMMA LongerInOrder ==
    ASSUME NEW simple \in Seq(Types), NEW logical \in Seq(Placed), NEW said \in Seq(Types),
           NEW simple2 \in Seq(Types), NEW logical2 \in Seq(Placed), NEW t \in Types,
           NEW steps, Merges(simple, logical, said, steps),
           Len(simple2) + Len(logical2) = Len(simple) + Len(logical) + 1,
           \A pos \in 0..(Len(simple) + Len(logical) - 1) : \A m \in Turn, next \in Turn :
              Takes(simple, logical, pos, m, next) => Takes(simple2, logical2, pos, m, next),
           Takes(simple2, logical2, Len(simple) + Len(logical),
                 [out |-> said, s |-> Len(simple) + 1, l |-> Len(logical) + 1],
                 [out |-> Append(said, t), s |-> Len(simple2) + 1, l |-> Len(logical2) + 1])
    PROVE  InOrder(simple2, logical2, Append(said, t))
<1> DEFINE N == Len(simple) + Len(logical)
<1> DEFINE last == [out |-> Append(said, t), s |-> Len(simple2) + 1, l |-> Len(logical2) + 1]
<1> DEFINE longer == [pos \in 0..(N + 1) |-> IF pos = N + 1 THEN last ELSE steps[pos]]
<1>1. N \in Nat
  OBVIOUS
<1>2. last \in Turn
  BY DEF Turn
<1>3. /\ steps \in [0..N -> Turn] /\ steps[0] = [out |-> <<>>, s |-> 1, l |-> 1]
      /\ \A pos \in 0..(N - 1) : Takes(simple, logical, pos, steps[pos], steps[pos + 1])
      /\ steps[N] = [out |-> said, s |-> Len(simple) + 1, l |-> Len(logical) + 1]
  BY DEF Merges
<1>4. Takes(simple2, logical2, N, steps[N], last)
  BY <1>3
<1>5. \A pos \in 0..(N - 1) : \A m \in Turn, next \in Turn :
         Takes(simple, logical, pos, m, next) => Takes(simple2, logical2, pos, m, next)
  OBVIOUS
<1>6. Len(simple2) + Len(logical2) = N + 1
  OBVIOUS
<1> HIDE DEF last, N
<1>7. longer \in [0..(N + 1) -> Turn] /\ longer[0] = steps[0] /\ longer[N + 1] = last
  BY <1>1, <1>2, <1>3
<1>8. ASSUME NEW pos \in 0..((N + 1) - 1)
      PROVE  Takes(simple2, logical2, pos, longer[pos], longer[pos + 1])
  <2>1. CASE pos = N
    <3>1. longer[pos] = steps[N] /\ longer[pos + 1] = last
      BY <1>1, <2>1
    <3> QED
      BY <1>4, <2>1, <3>1
  <2>2. CASE pos # N
    <3>1. pos \in 0..(N - 1)
      BY <1>1, <2>2
    <3>2. /\ pos \in 0..N /\ pos + 1 \in 0..N /\ pos # N + 1 /\ pos + 1 # N + 1
          /\ pos \in 0..(N + 1) /\ pos + 1 \in 0..(N + 1)
      BY <1>1, <3>1
    <3>5. \A i \in 0..(N + 1) : i # N + 1 => longer[i] = steps[i]
      OBVIOUS
    <3>3. longer[pos] = steps[pos] /\ longer[pos + 1] = steps[pos + 1]
      <4> HIDE DEF longer
      <4> QED
        BY <3>5, <3>2
    <3>4. steps[pos] \in Turn /\ steps[pos + 1] \in Turn
      BY <1>3, <3>2
    <3> HIDE DEF longer
    <3> QED
      BY <1>3, <1>5, <3>1, <3>3, <3>4
  <2> QED
    BY <2>1, <2>2
<1>9. Merges(simple2, logical2, Append(said, t), longer)
  <2> HIDE DEF longer
  <2> QED
    BY <1>3, <1>6, <1>7, <1>8 DEF Merges, last
<1> QED
  BY <1>9 DEF InOrder

\* A parameter by id is taken after all that were declared before it,
LEMMA ParamInOrder ==
    ASSUME NEW simple \in Seq(Types), NEW logical \in Seq(Placed), NEW said \in Seq(Types),
           NEW t \in Types, InOrder(simple, logical, said)
    PROVE  InOrder(Append(simple, t), logical, Append(said, t))
<1> DEFINE more == Append(simple, t)
<1>1. PICK steps : Merges(simple, logical, said, steps)
  BY DEF InOrder
<1>2. /\ more \in Seq(Types) /\ Len(more) = Len(simple) + 1
      /\ Len(simple) \in Nat /\ Len(logical) \in Nat
      /\ more[Len(simple) + 1] = t
      /\ \A i \in 1..Len(simple) : more[i] = simple[i]
  OBVIOUS
<1> HIDE DEF more
<1>3. ASSUME NEW pos \in 0..(Len(simple) + Len(logical) - 1), NEW m \in Turn, NEW next \in Turn,
             Takes(simple, logical, pos, m, next)
      PROVE  Takes(more, logical, pos, m, next)
  <2>1. m.s \in Nat /\ m.s >= 1
    BY DEF Turn
  <2>2. m.s <= Len(simple) => m.s <= Len(more) /\ more[m.s] = simple[m.s]
    BY <1>2, <2>1
  <2> QED
    BY <1>3, <2>2 DEF Takes
<1>4. Takes(more, logical, Len(simple) + Len(logical),
            [out |-> said, s |-> Len(simple) + 1, l |-> Len(logical) + 1],
            [out |-> Append(said, t), s |-> Len(more) + 1, l |-> Len(logical) + 1])
  <2> DEFINE m == [out |-> said, s |-> Len(simple) + 1, l |-> Len(logical) + 1]
  <2>1. m.out = said /\ m.s = Len(simple) + 1 /\ m.l = Len(logical) + 1
    OBVIOUS
  <2> HIDE DEF m
  <2>2. ~ (m.l <= Len(logical)) /\ m.s <= Len(more) /\ more[m.s] = t
    BY <1>2, <2>1
  <2>3. [out |-> Append(said, t), s |-> Len(more) + 1, l |-> Len(logical) + 1]
           = [out |-> Append(m.out, more[m.s]), s |-> m.s + 1, l |-> m.l]
    BY <1>2, <2>1, <2>2
  <2>4. Takes(more, logical, Len(simple) + Len(logical), m,
              [out |-> Append(said, t), s |-> Len(more) + 1, l |-> Len(logical) + 1])
    BY <2>2, <2>3 DEF Takes
  <2> QED
    BY <2>4 DEF m
<1>5. Len(more) + Len(logical) = Len(simple) + Len(logical) + 1
  BY <1>2
<1>6. InOrder(more, logical, Append(said, t))
  BY <1>1, <1>2, <1>3, <1>4, <1>5, LongerInOrder
<1> QED
  BY <1>6 DEF more

\* and so is one by logical type, at the position it was declared at.
LEMMA LogicalInOrder ==
    ASSUME NEW simple \in Seq(Types), NEW logical \in Seq(Placed), NEW said \in Seq(Types),
           NEW t \in Types, InOrder(simple, logical, said)
    PROVE  InOrder(simple, Append(logical, [at |-> Len(simple) + Len(logical), type |-> t]),
                   Append(said, t))
<1> DEFINE new == [at |-> Len(simple) + Len(logical), type |-> t]
<1> DEFINE more == Append(logical, new)
<1>1. PICK steps : Merges(simple, logical, said, steps)
  BY DEF InOrder
<1>2. Len(simple) \in Nat /\ Len(logical) \in Nat
  OBVIOUS
<1>3. new \in Placed /\ new.at = Len(simple) + Len(logical) /\ new.type = t
  BY <1>2 DEF Placed
<1> HIDE DEF new, Placed
<1>4. /\ more \in Seq(Placed) /\ Len(more) = Len(logical) + 1
      /\ more[Len(logical) + 1] = new
      /\ \A i \in 1..Len(logical) : more[i] = logical[i]
  BY <1>3
<1> HIDE DEF more
<1>5. ASSUME NEW pos \in 0..(Len(simple) + Len(logical) - 1), NEW m \in Turn, NEW next \in Turn,
             Takes(simple, logical, pos, m, next)
      PROVE  Takes(simple, more, pos, m, next)
  <2>1. m.l \in Nat /\ m.l >= 1
    BY DEF Turn
  <2>2. m.l <= Len(logical) => m.l <= Len(more) /\ more[m.l] = logical[m.l]
    BY <1>2, <1>4, <2>1
  <2>3. m.l <= Len(more) /\ ~ (m.l <= Len(logical)) => more[m.l].at # pos
    BY <1>2, <1>3, <1>4, <2>1
  <2> QED
    BY <1>5, <2>2, <2>3 DEF Takes
<1>6. Takes(simple, more, Len(simple) + Len(logical),
            [out |-> said, s |-> Len(simple) + 1, l |-> Len(logical) + 1],
            [out |-> Append(said, t), s |-> Len(simple) + 1, l |-> Len(more) + 1])
  <2> DEFINE m == [out |-> said, s |-> Len(simple) + 1, l |-> Len(logical) + 1]
  <2>1. m.out = said /\ m.s = Len(simple) + 1 /\ m.l = Len(logical) + 1
    OBVIOUS
  <2> HIDE DEF m
  <2>2. m.l <= Len(more) /\ more[m.l] = new
    BY <1>2, <1>4, <2>1
  <2>3. [out |-> Append(said, t), s |-> Len(simple) + 1, l |-> Len(more) + 1]
           = [out |-> Append(m.out, more[m.l].type), s |-> m.s, l |-> m.l + 1]
    BY <1>2, <1>3, <1>4, <2>1, <2>2
  <2>4. Takes(simple, more, Len(simple) + Len(logical), m,
              [out |-> Append(said, t), s |-> Len(simple) + 1, l |-> Len(more) + 1])
    BY <1>3, <2>2, <2>3 DEF Takes
  <2> QED
    BY <2>4 DEF m
<1>7. Len(simple) + Len(more) = Len(simple) + Len(logical) + 1
  BY <1>2, <1>4
<1>8. InOrder(simple, more, Append(said, t))
  BY <1>1, <1>4, <1>5, <1>6, <1>7, LongerInOrder
<1> QED
  BY <1>8 DEF more, new

-----------------------------------------------------------------------------
(* The builders.                                                           *)

AllParts == FB!AggregateParts \cup {"bind", "init", "scan", "function",
                                    "local_init", "extra_info"}
Results == [id : Arguments, logical : Arguments]
Declarations ==
    [simple : Seq(Types), logical : Seq(Placed), named : SUBSET Types, varargs : Arguments,
     return : Results, parts : SUBSET AllParts, trampolines : SUBSET FB!Wired,
     builtAs : {"set", "other"}, said : Seq(Types)]

BuilderTypeOK ==
    /\ FB!Building => kind \in FB!Kinds \cup {FB!CastFunctionBuilder}
    /\ fn \in Declarations
    /\ overloads \in Seq(Declarations)
    /\ default \in Results
    /\ typed \in {None, "typed", "replaced"}
    /\ pushdown \in BOOLEAN
    /\ outcome \in {"building", "refused", "registered"}

\* Types of what the builders start from.
LEMMA NewFnType ==
    /\ FB!NewFn \in Declarations /\ FB!NoReturn \in Results
    /\ <<>> \in Seq(Declarations)
<1>1. <<>> \in Seq(Types) /\ <<>> \in Seq(Placed)
  OBVIOUS
<1>2. <<>> \in Seq(Declarations)
  OBVIOUS
<1> QED
  BY <1>1, <1>2 DEF FB!NewFn, FB!NoReturn, Declarations, Results, Arguments

LEMMA KindsType ==
    ASSUME NEW k \in FB!Kinds \cup {FB!CastFunctionBuilder}
    PROVE  k.parts \subseteq AllParts
BY DEF FB!Kinds, FB!TableFunctionBuilder, FB!ScalarFunctionBuilder,
       FB!ScalarFunctionSetBuilder, FB!AggregateFunctionBuilder,
       FB!AggregateFunctionSetBuilder, FB!CastFunctionBuilder, AllParts

\* Every variable of the builders keeps to its type.
LEMMA BuilderTypeInit == FB!Init => BuilderTypeOK
BY NewFnType DEF FB!Init, BuilderTypeOK, FB!Building

LEMMA BuilderTypeNext == BuilderTypeOK /\ [FB!Next]_FB!fbVars => BuilderTypeOK'
<1> SUFFICES ASSUME BuilderTypeOK, [FB!Next]_FB!fbVars PROVE BuilderTypeOK'
  OBVIOUS
<1> HIDE DEF Placed
<1>1. ASSUME NEW k \in FB!Kinds, FB!new(k) PROVE BuilderTypeOK'
  BY <1>1, NewFnType DEF FB!new, FB!Start, BuilderTypeOK, FB!Building
<1>2. ASSUME NEW s \in Types, NEW t \in Types, FB!new_cast(s, t) PROVE BuilderTypeOK'
  <2>1. /\ [at |-> 0, type |-> s] \in Placed /\ [at |-> 1, type |-> t] \in Placed
    BY DEF Placed
  <2>2. <<s, t>> \in Seq(Types)
    OBVIOUS
  <2>3. <<[at |-> 0, type |-> s], [at |-> 1, type |-> t]>> \in Seq(Placed)
    BY <2>1
  <2>4. fn' \in Declarations
    BY <1>2, <2>2, <2>3, NewFnType DEF FB!new_cast, Declarations
  <2> QED
    BY <1>2, <2>4, NewFnType DEF FB!new_cast, FB!Start, BuilderTypeOK, FB!Building
<1>3. ASSUME NEW id \in Types, FB!param(id) PROVE BuilderTypeOK'
  <2>1. /\ fn.simple \in Seq(Types) /\ fn.said \in Seq(Types)
        /\ fn' = [fn EXCEPT !.simple = Append(fn.simple, id), !.said = Append(fn.said, id)]
    BY <1>3 DEF FB!param, BuilderTypeOK, Declarations
  <2>2. Append(fn.simple, id) \in Seq(Types) /\ Append(fn.said, id) \in Seq(Types)
    BY <2>1
  <2>3. fn' \in Declarations
    BY <2>1, <2>2 DEF BuilderTypeOK, Declarations
  <2> QED
    BY <1>3, <2>3 DEF FB!param, BuilderTypeOK, FB!Building
<1>4. ASSUME NEW t \in Types, FB!param_logical(t) PROVE BuilderTypeOK'
  <2>1. Len(fn.simple) \in Nat /\ Len(fn.logical) \in Nat
    BY DEF BuilderTypeOK, Declarations
  <2>2. FB!Position(fn) \in Nat
    <3>1. FB!Position(fn) = Len(fn.simple) + Len(fn.logical)
      BY DEF FB!Position
    <3>2. \A a \in Nat, b \in Nat : a + b \in Nat
      OBVIOUS
    <3> QED
      BY <2>1, <3>1, <3>2, Zenon
  <2> DEFINE new == [at |-> FB!Position(fn), type |-> t]
  <2>3. new \in Placed
    BY <2>2 DEF Placed
  <2>4. /\ fn.logical \in Seq(Placed) /\ fn.said \in Seq(Types)
        /\ fn' = [fn EXCEPT !.logical = Append(fn.logical, new), !.said = Append(fn.said, t)]
    BY <1>4 DEF FB!param_logical, BuilderTypeOK, Declarations
  <2> HIDE DEF new
  <2>5. Append(fn.logical, new) \in Seq(Placed) /\ Append(fn.said, t) \in Seq(Types)
    BY <2>3, <2>4
  <2>6. fn' \in Declarations
    BY <2>4, <2>5 DEF BuilderTypeOK, Declarations
  <2> QED
    BY <1>4, <2>6 DEF FB!param_logical, BuilderTypeOK, FB!Building
<1>4a. ASSUME NEW t \in Types, FB!named_param(t) PROVE BuilderTypeOK'
  <2>1. fn' \in Declarations
    BY <1>4a DEF FB!named_param, BuilderTypeOK, Declarations
  <2> QED
    BY <1>4a, <2>1 DEF FB!named_param, BuilderTypeOK, FB!Building
<1>5. ASSUME NEW t \in Types, FB!varargs(t) PROVE BuilderTypeOK'
  <2>1. fn' \in Declarations
    BY <1>5 DEF FB!varargs, BuilderTypeOK, Declarations, Arguments
  <2> QED
    BY <1>5, <2>1 DEF FB!varargs, BuilderTypeOK, FB!Building
<1>6. ASSUME NEW t \in Types, FB!returns(t) PROVE BuilderTypeOK'
  <2>a. \A r \in Results : /\ [r EXCEPT !.id = t] \in Results
                           /\ [r EXCEPT !.logical = t] \in Results
    BY DEF Results, Arguments
  <2>b. fn \in Declarations /\ fn.return \in Results
    BY DEF BuilderTypeOK, Declarations
  <2>c. PICK r \in Results : fn' = fn \/ fn' = [fn EXCEPT !.return = r]
    <3> HIDE DEF Results, Declarations
    <3> QED
      BY <1>6, <2>a, <2>b DEF FB!returns
  <2>1. fn' \in Declarations
    <3> HIDE DEF Results
    <3> QED
      BY <2>b, <2>c DEF Declarations
  <2>2. default' \in Results
    BY <1>6 DEF FB!returns, BuilderTypeOK, Results, Arguments
  <2> QED
    BY <1>6, <2>1, <2>2 DEF FB!returns, BuilderTypeOK, FB!Building
<1>7. ASSUME NEW ps \in PartCalls, FB!SetParts(ps) PROVE BuilderTypeOK'
  <2>1. ps \subseteq AllParts
    <3>1. kind.parts \subseteq AllParts
      BY <1>7, KindsType DEF FB!SetParts, FB!Setting, BuilderTypeOK
    <3> QED
      BY <1>7, <3>1 DEF FB!SetParts, AllParts
  <2>2. fn' \in Declarations
    BY <1>7, <2>1 DEF FB!SetParts, BuilderTypeOK, Declarations
  <2>3. typed' \in {None, "typed", "replaced"}
    BY <1>7 DEF FB!SetParts, FB!note_replacement, BuilderTypeOK
  <2> QED
    BY <1>7, <2>2, <2>3 DEF FB!SetParts, BuilderTypeOK, FB!Building
<1>8. CASE FB!build_typed
  <2>1. fn' \in Declarations
    BY <1>8 DEF FB!build_typed, BuilderTypeOK, Declarations, AllParts, FB!Wired
  <2> QED
    BY <1>8, <2>1 DEF FB!build_typed, BuilderTypeOK, FB!Building
<1>9. ASSUME NEW enable \in BOOLEAN, FB!projection_pushdown(enable) PROVE BuilderTypeOK'
  BY <1>9 DEF FB!projection_pushdown, BuilderTypeOK, FB!Building
<1>10. ASSUME NEW name \in {"set", "other"}, FB!overload(name) PROVE BuilderTypeOK'
  <2>1. [fn EXCEPT !.builtAs = name] \in Declarations
    BY DEF BuilderTypeOK, Declarations
  <2>2. overloads' \in Seq(Declarations)
    <3> HIDE DEF Declarations
    <3> QED
      BY <1>10, <2>1 DEF FB!overload, BuilderTypeOK
  <2> QED
    BY <1>10, <2>2, NewFnType DEF FB!overload, BuilderTypeOK, FB!Building
<1>11. ASSUME NEW k, NEW allowed, NEW accepted, FB!Register(k, allowed, accepted)
       PROVE  BuilderTypeOK'
  <2>1. outcome' \in {"refused", "registered"}
    BY <1>11 DEF FB!Register
  <2>2. <<>> \in Seq(Declarations)
    OBVIOUS
  <2> QED
    BY <1>11, <2>1, <2>2, NewFnType DEF FB!Register, BuilderTypeOK, FB!Building
<1>12. CASE UNCHANGED FB!fbVars
  BY <1>12 DEF FB!fbVars, BuilderTypeOK, FB!Building
<1> QED
  BY <1>1, <1>2, <1>3, <1>4, <1>4a, <1>5, <1>6, <1>7, <1>8, <1>9, <1>10, <1>11, <1>12,
     BuilderAssumption
  DEF FB!Next, FB!RegisterTable, FB!RegisterScalar, FB!RegisterAggregate,
      FB!RegisterCast, FB!RegisterScalarSet, FB!RegisterAggregateSet

\* The declarations are in order, those of the overloads too.
OrderInv ==
    /\ InOrder(fn.simple, fn.logical, fn.said)
    /\ \A i \in DOMAIN overloads :
          InOrder(overloads[i].simple, overloads[i].logical, overloads[i].said)

\* Nothing is declared or wired in a new function.
LEMMA NewFnInOrder ==
    /\ InOrder(FB!NewFn.simple, FB!NewFn.logical, FB!NewFn.said)
    /\ FB!NewFn.trampolines = {}
BY NothingInOrder DEF FB!NewFn

\* The two lists of every function merge into what was said of it.
LEMMA OrderNext == BuilderTypeOK /\ OrderInv /\ [FB!Next]_FB!fbVars => OrderInv'
<1> SUFFICES ASSUME BuilderTypeOK, OrderInv, [FB!Next]_FB!fbVars PROVE OrderInv'
  OBVIOUS
<1> HIDE DEF Placed
<1>a. /\ fn \in Declarations /\ overloads \in Seq(Declarations)
      /\ fn.simple \in Seq(Types) /\ fn.logical \in Seq(Placed) /\ fn.said \in Seq(Types)
  BY DEF BuilderTypeOK, Declarations
<1>b. ASSUME fn' = FB!NewFn, overloads' = <<>> PROVE OrderInv'
  BY <1>b, NewFnInOrder DEF OrderInv
<1>c. ASSUME fn'.simple = fn.simple, fn'.logical = fn.logical, fn'.said = fn.said,
             UNCHANGED overloads
      PROVE  OrderInv'
  BY <1>c DEF OrderInv
<1>1. ASSUME NEW k \in FB!Kinds, FB!new(k) PROVE OrderInv'
  BY <1>1, <1>b DEF FB!new, FB!Start
<1>2. ASSUME NEW s \in Types, NEW t \in Types, FB!new_cast(s, t) PROVE OrderInv'
  <2>1. <<>> \in Seq(Types) /\ <<>> \in Seq(Placed) /\ Len(<<>>) = 0
    OBVIOUS
  <2>2. <<s>> \in Seq(Types) /\ <<s>> = Append(<<>>, s) /\ <<s, t>> = Append(<<s>>, t)
        /\ Len(<<s>>) = 1
    OBVIOUS
  <2>3. CASE s \in Ids
    <3>1. InOrder(<<s>>, <<>>, <<s>>)
      BY <2>1, <2>2, NothingInOrder, ParamInOrder
    <3>2. InOrder(<<s, t>>, <<>>, <<s, t>>)
      BY <2>1, <2>2, <3>1, ParamInOrder
    <3>3. /\ fn'.simple = <<s, t>> /\ fn'.logical = <<>> /\ fn'.said = <<s, t>>
          /\ overloads' = <<>>
      BY <1>2, <2>3 DEF FB!new_cast, FB!Start, FB!NewFn
    <3> QED
      BY <3>2, <3>3 DEF OrderInv
  <2>4. CASE s \notin Ids
    <3> DEFINE a == [at |-> 0, type |-> s]
    <3> DEFINE b == [at |-> 1, type |-> t]
    <3>1. a \in Placed /\ b \in Placed /\ a = [at |-> 0 + 0, type |-> s]
          /\ b = [at |-> 0 + 1, type |-> t]
      BY DEF Placed
    <3>2. <<a>> \in Seq(Placed) /\ <<a>> = Append(<<>>, a) /\ <<a, b>> = Append(<<a>>, b)
          /\ Len(<<a>>) = 1
      BY <3>1
    <3>3. fn'.simple = <<>> /\ fn'.logical = <<a, b>> /\ fn'.said = <<s, t>>
          /\ overloads' = <<>>
      BY <1>2, <2>4 DEF FB!new_cast, FB!Start, FB!NewFn
    <3>4. InOrder(<<>>, Append(<<>>, [at |-> Len(<<>>) + Len(<<>>), type |-> s]),
                  Append(<<>>, s))
      BY <2>1, NothingInOrder, LogicalInOrder
    <3>5. InOrder(<<>>, <<a>>, <<s>>)
      BY <2>1, <2>2, <3>1, <3>2, <3>4
    <3>6. InOrder(<<>>, Append(<<a>>, [at |-> Len(<<>>) + Len(<<a>>), type |-> t]),
                  Append(<<s>>, t))
      <4> HIDE DEF a
      <4> QED
        BY <2>1, <2>2, <3>2, <3>5, LogicalInOrder
    <3>7. InOrder(<<>>, <<a, b>>, <<s, t>>)
      BY <2>1, <2>2, <3>1, <3>2, <3>6
    <3> HIDE DEF a, b
    <3> QED
      BY <3>3, <3>7 DEF OrderInv
  <2> QED
    BY <2>3, <2>4
<1>3. ASSUME NEW id \in Types, FB!param(id) PROVE OrderInv'
  <2>1. /\ fn'.simple = Append(fn.simple, id) /\ fn'.logical = fn.logical
        /\ fn'.said = Append(fn.said, id) /\ UNCHANGED overloads
    BY <1>3, <1>a DEF FB!param, Declarations
  <2>2. InOrder(Append(fn.simple, id), fn.logical, Append(fn.said, id))
    BY <1>a, ParamInOrder DEF OrderInv
  <2> QED
    BY <2>1, <2>2 DEF OrderInv
<1>4. ASSUME NEW t \in Types, FB!param_logical(t) PROVE OrderInv'
  <2> DEFINE new == [at |-> Len(fn.simple) + Len(fn.logical), type |-> t]
  <2>1. /\ fn'.simple = fn.simple /\ fn'.logical = Append(fn.logical, new)
        /\ fn'.said = Append(fn.said, t) /\ UNCHANGED overloads
    BY <1>4, <1>a DEF FB!param_logical, FB!Position, Declarations
  <2>2. InOrder(fn.simple, Append(fn.logical, new), Append(fn.said, t))
    BY <1>a, LogicalInOrder DEF OrderInv
  <2> HIDE DEF new
  <2> QED
    BY <2>1, <2>2 DEF OrderInv
<1>4a. ASSUME NEW t, FB!named_param(t) PROVE OrderInv'
  BY <1>4a, <1>a, <1>c DEF FB!named_param, Declarations
<1>5. ASSUME NEW t, FB!varargs(t) PROVE OrderInv'
  BY <1>5, <1>a, <1>c DEF FB!varargs, Declarations
<1>6. ASSUME NEW t, FB!returns(t) PROVE OrderInv'
  <2>1. fn' = fn \/ \E r : fn' = [fn EXCEPT !.return = r]
    BY <1>6 DEF FB!returns
  <2>2. UNCHANGED overloads
    BY <1>6 DEF FB!returns
  <2> QED
    BY <2>1, <2>2, <1>a, <1>c DEF Declarations
<1>7. ASSUME NEW ps, FB!SetParts(ps) PROVE OrderInv'
  BY <1>7, <1>a, <1>c DEF FB!SetParts, Declarations
<1>8. CASE FB!build_typed
  BY <1>8, <1>a, <1>c DEF FB!build_typed, Declarations
<1>9. ASSUME NEW enable, FB!projection_pushdown(enable) PROVE OrderInv'
  BY <1>9, <1>c DEF FB!projection_pushdown
<1>10. ASSUME NEW name \in {"set", "other"}, FB!overload(name) PROVE OrderInv'
  <2> DEFINE made == [fn EXCEPT !.builtAs = name]
  <2>1. /\ made \in Declarations
        /\ made.simple = fn.simple /\ made.logical = fn.logical /\ made.said = fn.said
    BY <1>a DEF Declarations
  <2>2. overloads' = Append(overloads, made) /\ fn' = FB!NewFn
    BY <1>10 DEF FB!overload
  <2> HIDE DEF made, Declarations
  <2>3. ASSUME NEW i \in DOMAIN overloads'
        PROVE  (i \in DOMAIN overloads /\ overloads'[i] = overloads[i])
               \/ overloads'[i] = made
    BY <1>a, <2>1, <2>2
  <2>4. ASSUME NEW i \in DOMAIN overloads'
        PROVE  InOrder(overloads'[i].simple, overloads'[i].logical, overloads'[i].said)
    BY <2>1, <2>3 DEF OrderInv
  <2> QED
    BY <2>2, <2>4, NewFnInOrder DEF OrderInv
<1>11. ASSUME NEW k, NEW allowed, NEW accepted, FB!Register(k, allowed, accepted)
       PROVE  OrderInv'
  BY <1>11, <1>b DEF FB!Register
<1>12. CASE UNCHANGED FB!fbVars
  BY <1>12, <1>c DEF FB!fbVars
<1> QED
  BY <1>1, <1>2, <1>3, <1>4, <1>4a, <1>5, <1>6, <1>7, <1>8, <1>9, <1>10, <1>11, <1>12,
     BuilderAssumption
  DEF FB!Next, FB!RegisterTable, FB!RegisterScalar, FB!RegisterAggregate,
      FB!RegisterCast, FB!RegisterScalarSet, FB!RegisterAggregateSet

\* Only a typed table function has trampolines, all of them unless a setter
\* replaced one.
WiringInv ==
    /\ typed = None => fn.trampolines = {}
    /\ FB!Building /\ typed = "typed" => fn.trampolines = FB!Wired
    /\ FB!Building /\ typed # None => kind = FB!TableFunctionBuilder
    /\ \A i \in DOMAIN overloads : overloads[i].trampolines = {}
    /\ FB!Building => handed = <<>>

\* The trampolines are whole or a setter's call is on record.
LEMMA WiringNext ==
    BuilderTypeOK /\ WiringInv /\ [FB!Next]_FB!fbVars => WiringInv'
<1> SUFFICES ASSUME BuilderTypeOK, WiringInv, [FB!Next]_FB!fbVars PROVE WiringInv'
  OBVIOUS
<1>a. fn \in Declarations /\ overloads \in Seq(Declarations)
  BY DEF BuilderTypeOK
<1>b. ASSUME fn'.trampolines = fn.trampolines,
             UNCHANGED <<kind, overloads, typed, handed, outcome>>
      PROVE  WiringInv'
  BY <1>b DEF WiringInv, FB!Building
<1>c. ASSUME fn'.trampolines = {}, overloads' = <<>>, typed' = None, handed' = <<>>
      PROVE  WiringInv'
  BY <1>c, BuilderAssumption DEF WiringInv
<1>1. ASSUME NEW k, FB!new(k) PROVE WiringInv'
  BY <1>1, <1>c, NewFnInOrder DEF FB!new, FB!Start
<1>2. ASSUME NEW s, NEW t, FB!new_cast(s, t) PROVE WiringInv'
  BY <1>2, <1>c DEF FB!new_cast, FB!Start, FB!NewFn
<1>3. ASSUME NEW id, FB!param(id) PROVE WiringInv'
  BY <1>3, <1>a, <1>b DEF FB!param, Declarations
<1>4. ASSUME NEW t, FB!param_logical(t) PROVE WiringInv'
  BY <1>4, <1>a, <1>b DEF FB!param_logical, Declarations
<1>4a. ASSUME NEW t, FB!named_param(t) PROVE WiringInv'
  BY <1>4a, <1>a, <1>b DEF FB!named_param, Declarations
<1>5. ASSUME NEW t, FB!varargs(t) PROVE WiringInv'
  BY <1>5, <1>a, <1>b DEF FB!varargs, Declarations
<1>6. ASSUME NEW t, FB!returns(t) PROVE WiringInv'
  <2>1. fn' = fn \/ \E r : fn' = [fn EXCEPT !.return = r]
    BY <1>6 DEF FB!returns
  <2>2. UNCHANGED <<kind, overloads, typed, handed, outcome>>
    BY <1>6 DEF FB!returns
  <2> QED
    BY <2>1, <2>2, <1>a, <1>b DEF Declarations
<1>7. ASSUME NEW ps, FB!SetParts(ps) PROVE WiringInv'
  <2>1. /\ fn'.trampolines = fn.trampolines \ ps
        /\ UNCHANGED <<kind, overloads, handed, outcome>>
        /\ typed' = IF typed = "typed" THEN "replaced" ELSE typed
    BY <1>7, <1>a DEF FB!SetParts, FB!note_replacement, Declarations
  <2>2. typed' # "typed" /\ (typed' = None => typed = None)
    BY <2>1, BuilderAssumption
  <2>3. typed' # None => typed # None
    BY <2>1, BuilderAssumption
  <2> QED
    BY <2>1, <2>2, <2>3 DEF WiringInv, FB!Building
<1>8. CASE FB!build_typed
  <2>1. /\ fn'.trampolines = FB!Wired /\ typed' = "typed" /\ kind' = FB!TableFunctionBuilder
        /\ UNCHANGED <<overloads, handed, outcome>>
    BY <1>8, <1>a DEF FB!build_typed, Declarations
  <2>2. FB!Building' = FB!Building
    BY <2>1 DEF FB!Building
  <2> QED
    BY <2>1, <2>2, BuilderAssumption DEF WiringInv
<1>9. ASSUME NEW enable, FB!projection_pushdown(enable) PROVE WiringInv'
  BY <1>9, <1>b DEF FB!projection_pushdown
<1>10. ASSUME NEW name, FB!overload(name) PROVE WiringInv'
  <2> DEFINE made == [fn EXCEPT !.builtAs = name]
  <2>1. kind # FB!TableFunctionBuilder
    BY <1>10 DEF FB!overload, FB!Setting, FB!TableFunctionBuilder
  <2>2. typed = None /\ fn.trampolines = {} /\ FB!Building
    BY <1>10, <2>1 DEF WiringInv, FB!overload, FB!Setting
  <2>3. made.trampolines = {}
    BY <1>a, <2>2 DEF Declarations
  <2>4. /\ overloads' = Append(overloads, made) /\ fn' = FB!NewFn
        /\ UNCHANGED <<kind, typed, handed, outcome>>
    BY <1>10 DEF FB!overload
  <2> HIDE DEF made, Declarations
  <2>5. ASSUME NEW i \in DOMAIN overloads'
        PROVE  (i \in DOMAIN overloads /\ overloads'[i] = overloads[i])
               \/ overloads'[i] = made
    BY <1>a, <2>4
  <2>6. \A i \in DOMAIN overloads' : overloads'[i].trampolines = {}
    BY <2>3, <2>5 DEF WiringInv
  <2> QED
    BY <2>2, <2>4, <2>6, NewFnInOrder, BuilderAssumption DEF WiringInv, FB!Building
<1>11. ASSUME NEW k, NEW allowed, NEW accepted, FB!Register(k, allowed, accepted)
       PROVE  WiringInv'
  <2>1. fn' = FB!NewFn /\ overloads' = <<>> /\ outcome' \in {"refused", "registered"}
    BY <1>11 DEF FB!Register
  <2> QED
    BY <2>1, NewFnInOrder DEF WiringInv, FB!Building
<1>12. CASE UNCHANGED FB!fbVars
  BY <1>12, <1>b DEF FB!fbVars
<1> QED
  BY <1>1, <1>2, <1>3, <1>4, <1>4a, <1>5, <1>6, <1>7, <1>8, <1>9, <1>10, <1>11, <1>12
  DEF FB!Next, FB!RegisterTable, FB!RegisterScalar, FB!RegisterAggregate,
      FB!RegisterCast, FB!RegisterScalarSet, FB!RegisterAggregateSet

BuilderInv == BuilderTypeOK /\ OrderInv /\ WiringInv /\ HandedAsSaid

\* What passes the checks is as said when it is handed over.
LEMMA HandedOver ==
    ASSUME BuilderTypeOK, OrderInv, WiringInv, FB!Building,
           FB!check_parts, FB!check_types,
           kind.set => ~FB!reject_duplicate_overloads(FB!Shapes),
           handed' = [i \in DOMAIN FB!Functions |-> FB!Handed(FB!Functions[i])],
           UNCHANGED <<kind, pushdown>>
    PROVE  HandedAsSaid'
<1>1. ASSUME NEW i \in DOMAIN FB!Functions
      PROVE  /\ FB!Functions[i] \in Declarations
             /\ FB!merged_params(FB!Functions[i].simple, FB!Functions[i].logical)
                   = FB!Functions[i].said
             /\ FB!Functions[i].trampolines \in {{}, FB!Wired}
             /\ FB!Functions[i].trampolines # {} => ~pushdown
  <2> DEFINE f == FB!Functions[i]
  <2>1. (kind.set /\ i \in DOMAIN overloads /\ f = overloads[i]) \/ (~kind.set /\ f = fn)
    BY DEF FB!Functions
  <2>2. f \in Declarations
    BY <2>1 DEF BuilderTypeOK
  <2>3. InOrder(f.simple, f.logical, f.said)
    BY <2>1 DEF OrderInv
  <2> HIDE DEF f
  <2>4. f.simple \in Seq(Types) /\ f.logical \in Seq(Placed)
    BY <2>2 DEF Declarations
  <2>5. FB!merged_params(f.simple, f.logical) = f.said
    BY <2>3, <2>4, MergedIsSaid
  <2>6. typed # "replaced" /\ (typed = "typed" => ~pushdown)
    BY DEF FB!check_parts
  <2>7. f.trampolines = {} \/ (f.trampolines = FB!Wired /\ typed = "typed")
    BY <2>1, <2>6 DEF WiringInv, BuilderTypeOK
  <2>8. f.trampolines \in {{}, FB!Wired} /\ (f.trampolines # {} => ~pushdown)
    BY <2>6, <2>7
  <2> QED
    BY <2>2, <2>5, <2>8 DEF f
<1>2. ASSUME NEW i \in DOMAIN FB!Functions
      PROVE  FB!DeclaredAsSaid(handed[i])' /\ FB!TypedWhole(handed[i])'
  <2> DEFINE f == FB!Functions[i]
  <2>1. /\ handed'[i].params = f.said /\ handed'[i].said = f.said
        /\ handed'[i].parts = f.parts /\ handed'[i].trampolines = f.trampolines
        /\ handed'[i].return = IF kind.returns THEN FB!Returned(f) ELSE None
    BY <1>1 DEF FB!Handed
  <2>2. kind.parts \subseteq f.parts
    BY DEF FB!check_parts
  <2>3. ASSUME kind.returns
        PROVE  FB!Returned(f) # None /\ ~FB!Mentions(FB!Returned(f), {"ANY", "INVALID"})
    <3>1. ~FB!contains_any_or_invalid(FB!Returned(f))
      BY <2>3 DEF FB!check_types
    <3>2. FB!HasReturn(f.return) \/ FB!HasReturn(default)
      BY <2>3 DEF FB!check_parts
    <3>3. f.return \in Results /\ default \in Results
      BY <1>1 DEF Declarations, BuilderTypeOK
    <3>4. ASSUME NEW r \in Results, FB!HasReturn(r)
          PROVE  FB!Resolved(r) \in Types
      BY <3>4 DEF FB!HasReturn, FB!Resolved, FB!NoReturn, Results, Arguments
    <3>5. FB!Returned(f) \in Types
      BY <3>2, <3>3, <3>4 DEF FB!Returned
    <3> QED
      BY <3>1, <3>5, NoneWithin, TypesAssumption
  <2>4. FB!DeclaredAsSaid(handed[i])'
    <3> HIDE DEF f
    <3> QED
      BY <2>1, <2>2, <2>3 DEF FB!DeclaredAsSaid
  <2>5. FB!TypedWhole(handed[i])'
    BY <1>1, <2>1 DEF FB!TypedWhole
  <2> QED
    BY <2>4, <2>5
<1>3. ASSUME NEW j \in DOMAIN FB!Functions, NEW i \in 1..(j - 1)
      PROVE  ~FB!Ambiguous(handed[i].params, handed[i].varargs,
                           handed[j].params, handed[j].varargs, MaxParams + 1)'
  <2>1. kind.set
    <3> SUFFICES ASSUME ~kind.set PROVE FALSE
      OBVIOUS
    <3>1. j \in DOMAIN <<fn>>
      BY DEF FB!Functions
    <3>2. j = 1
      BY <3>1
    <3> QED
      BY <3>2
  <2>2. /\ DOMAIN FB!Functions = 1..Len(overloads) /\ Len(overloads) \in Nat
    BY <2>1 DEF FB!Functions, BuilderTypeOK
  <2>3. i \in DOMAIN FB!Functions
    BY <2>2
  <2> DEFINE f == FB!Functions[i]
  <2> DEFINE g == FB!Functions[j]
  <2>4. ~FB!shapes_overlap(FB!Shapes[i], FB!Shapes[j])
    <3>1. DOMAIN FB!Shapes = DOMAIN FB!Functions
      BY DEF FB!Shapes
    <3> QED
      BY <2>1, <3>1 DEF FB!reject_duplicate_overloads
  <2>5. /\ FB!Shapes[i] = FB!signature_parts(f.said, f.varargs)
        /\ FB!Shapes[j] = FB!signature_parts(g.said, g.varargs)
    BY <1>1, <2>3 DEF FB!Shapes
  <2>6. /\ f.said \in Seq(Types) /\ f.varargs \in Arguments
        /\ g.said \in Seq(Types) /\ g.varargs \in Arguments
    BY <1>1, <2>3 DEF Declarations
  <2>7. MaxParams + 1 \in Nat
    BY BuilderAssumption
  <2>8. ~FB!Ambiguous(f.said, f.varargs, g.said, g.varargs, MaxParams + 1)
    BY <2>4, <2>5, <2>6, <2>7, AmbiguousFound
  <2>9. /\ handed'[i].params = f.said /\ handed'[i].varargs = f.varargs
        /\ handed'[j].params = g.said /\ handed'[j].varargs = g.varargs
    BY <1>1, <2>3 DEF FB!Handed
  <2> QED
    BY <2>8, <2>9 DEF FB!Ambiguous
<1>4. DOMAIN handed' = DOMAIN FB!Functions
  OBVIOUS
<1> QED
  BY <1>2, <1>3, <1>4 DEF HandedAsSaid, FB!HandedAsSaid

\* Nothing to be said of nothing.
LEMMA NothingHanded == ASSUME handed' = <<>> PROVE HandedAsSaid'
BY DEF HandedAsSaid, FB!HandedAsSaid

\* What `register` hands over, of any builder.
LEMMA Registered ==
    ASSUME BuilderInv, NEW k, NEW allowed, NEW accepted, FB!Register(k, allowed, accepted),
           allowed => (kind.set => ~FB!reject_duplicate_overloads(FB!Shapes))
    PROVE  HandedAsSaid'
<1>1. CASE FB!check_parts /\ FB!check_types /\ allowed
  <2>1. /\ handed' = [i \in DOMAIN FB!Functions |-> FB!Handed(FB!Functions[i])]
        /\ UNCHANGED <<kind, pushdown>> /\ FB!Building
    BY <1>1 DEF FB!Register
  <2> QED
    BY <1>1, <2>1, HandedOver DEF BuilderInv
<1>2. CASE ~ (FB!check_parts /\ FB!check_types /\ allowed)
  BY <1>2, NothingHanded DEF FB!Register
<1> QED
  BY <1>1, <1>2

\* Setters hand nothing over.
LEMMA HandedNext == BuilderInv /\ [FB!Next]_FB!fbVars => HandedAsSaid'
<1> SUFFICES ASSUME BuilderInv, [FB!Next]_FB!fbVars PROVE HandedAsSaid'
  OBVIOUS
<1>a. ASSUME FB!Building, UNCHANGED handed PROVE HandedAsSaid'
  BY <1>a, NothingHanded DEF BuilderInv, WiringInv
<1>1. ASSUME NEW k, FB!new(k) PROVE HandedAsSaid'
  BY <1>1, NothingHanded DEF FB!new, FB!Start
<1>2. ASSUME NEW s, NEW t, FB!new_cast(s, t) PROVE HandedAsSaid'
  BY <1>2, NothingHanded DEF FB!new_cast, FB!Start
<1>3. ASSUME NEW id, FB!param(id) PROVE HandedAsSaid'
  BY <1>3, <1>a DEF FB!param, FB!Setting
<1>4. ASSUME NEW t, FB!param_logical(t) PROVE HandedAsSaid'
  BY <1>4, <1>a DEF FB!param_logical, FB!Setting
<1>4a. ASSUME NEW t, FB!named_param(t) PROVE HandedAsSaid'
  BY <1>4a, <1>a DEF FB!named_param, FB!Setting
<1>5. ASSUME NEW t, FB!varargs(t) PROVE HandedAsSaid'
  BY <1>5, <1>a DEF FB!varargs, FB!Setting
<1>6. ASSUME NEW t, FB!returns(t) PROVE HandedAsSaid'
  BY <1>6, <1>a DEF FB!returns, FB!Setting
<1>7. ASSUME NEW ps, FB!SetParts(ps) PROVE HandedAsSaid'
  BY <1>7, <1>a DEF FB!SetParts, FB!Setting
<1>8. CASE FB!build_typed
  BY <1>8, <1>a DEF FB!build_typed
<1>9. ASSUME NEW enable, FB!projection_pushdown(enable) PROVE HandedAsSaid'
  BY <1>9, <1>a DEF FB!projection_pushdown
<1>10. ASSUME NEW name, FB!overload(name) PROVE HandedAsSaid'
  BY <1>10, <1>a DEF FB!overload, FB!Setting
<1>11. ASSUME NEW accepted, FB!RegisterTable(accepted) PROVE HandedAsSaid'
  <2>1. ~kind.set /\ FB!Register(FB!TableFunctionBuilder, TRUE, accepted)
    BY <1>11 DEF FB!RegisterTable, FB!Register, FB!TableFunctionBuilder
  <2> QED
    BY <2>1, Registered
<1>12. ASSUME NEW accepted, FB!RegisterScalar(accepted) PROVE HandedAsSaid'
  <2>1. ~kind.set /\ FB!Register(FB!ScalarFunctionBuilder, TRUE, accepted)
    BY <1>12 DEF FB!RegisterScalar, FB!Register, FB!ScalarFunctionBuilder
  <2> QED
    BY <2>1, Registered
<1>13. ASSUME NEW accepted, FB!RegisterAggregate(accepted) PROVE HandedAsSaid'
  <2>1. ~kind.set /\ FB!Register(FB!AggregateFunctionBuilder, TRUE, accepted)
    BY <1>13 DEF FB!RegisterAggregate, FB!Register, FB!AggregateFunctionBuilder
  <2> QED
    BY <2>1, Registered
<1>14. ASSUME NEW accepted, FB!RegisterCast(accepted) PROVE HandedAsSaid'
  <2>1. ~kind.set /\ FB!Register(FB!CastFunctionBuilder, TRUE, accepted)
    BY <1>14 DEF FB!RegisterCast, FB!Register, FB!CastFunctionBuilder
  <2> QED
    BY <2>1, Registered
<1>15. ASSUME NEW accepted, FB!RegisterScalarSet(accepted) PROVE HandedAsSaid'
  BY <1>15, Registered DEF FB!RegisterScalarSet
<1>16. ASSUME NEW accepted, FB!RegisterAggregateSet(accepted) PROVE HandedAsSaid'
  BY <1>16, Registered DEF FB!RegisterAggregateSet
<1>17. CASE UNCHANGED FB!fbVars
  BY <1>17 DEF FB!fbVars, BuilderInv, HandedAsSaid, FB!HandedAsSaid, FB!DeclaredAsSaid,
               FB!TypedWhole
<1> QED
  BY <1>1, <1>2, <1>3, <1>4, <1>4a, <1>5, <1>6, <1>7, <1>8, <1>9, <1>10, <1>11, <1>12,
     <1>13, <1>14, <1>15, <1>16, <1>17
  DEF FB!Next

\* Whatever the setters were called with and in whichever order, what DuckDB
\* is handed is what the calls said: the parameters in their order, a result it
\* can resolve, all parts, a typed table function's closures all or none, and
\* no two overloads that a call costs nothing for, but through the two pairs that
\* the check documents it does not detect (scalar/builder, aggregate/builder,
\* table/builder.rs, cast/builder.rs).
THEOREM HandedCorrect == FB!Spec => []HandedAsSaid
<1>1. FB!Init => BuilderInv
  <2> SUFFICES ASSUME FB!Init PROVE BuilderInv
    OBVIOUS
  <2>1. OrderInv
    BY NewFnInOrder DEF FB!Init, OrderInv
  <2>2. WiringInv
    BY NewFnInOrder, BuilderAssumption DEF FB!Init, WiringInv, FB!Building
  <2>3. HandedAsSaid
    BY DEF FB!Init, HandedAsSaid, FB!HandedAsSaid
  <2> QED
    BY <2>1, <2>2, <2>3, BuilderTypeInit DEF BuilderInv
<1>2. BuilderInv /\ [FB!Next]_FB!fbVars => BuilderInv'
  BY BuilderTypeNext, OrderNext, WiringNext, HandedNext DEF BuilderInv
<1>3. BuilderInv => HandedAsSaid
  BY DEF BuilderInv
<1> QED
  BY <1>1, <1>2, <1>3, PTL DEF FB!Spec

-----------------------------------------------------------------------------
(* The ABI check.                                                          *)

USE AbiAssumption

LEMMA VerdictType ==
    ASSUME NEW p \in Policies, NEW c
    PROVE  PolicyVerdict(p, c) \in {"load", "warn", "refuse"}
BY DEF PolicyVerdict

LEMMA TypeInit == Init => TypeOK
BY DEF Init, TypeOK

LEMMA TypeNext == TypeOK /\ [Next]_vars => TypeOK'
<1> SUFFICES ASSUME TypeOK, [Next]_vars
             PROVE  TypeOK'
  OBVIOUS
<1> USE DEF TypeOK
<1>1. CASE Rebuild
  BY <1>1 DEF Rebuild
<1>2. CASE Upgrade
  BY <1>2 DEF Upgrade
<1>3. CASE Enforce
  <2>1. build.policy \in Policies
    BY DEF Builds
  <2> QED
    BY <1>3, <2>1, VerdictType DEF Enforce
<1>4. CASE CallUnstable
  BY <1>4 DEF CallUnstable
<1>5. CASE UNCHANGED vars
  BY <1>5 DEF vars
<1> HIDE DEF TypeOK
<1> QED
  BY <1>1, <1>2, <1>3, <1>4, <1>5 DEF Next

\* Every variable keeps to its type.
THEOREM TypeCorrect == Spec => []TypeOK
BY TypeInit, TypeNext, PTL DEF Spec

\* The verdict is the check's, and a wrong call follows from it.
Decided ==
    /\ verdict # "none" =>
          verdict = PolicyVerdict(build.policy, Check(build, reported))
    /\ dispatched # "none" => verdict \in {"load", "warn"} /\ build.unstable
    /\ dispatched = "wrong" =>
          <<LayoutOf[build.headers], LayoutOf[engine]>> \notin RunsOn

LEMMA DecidedStep == TypeOK /\ Decided /\ [Next]_vars => Decided'
<1> SUFFICES ASSUME TypeOK, Decided, [Next]_vars
             PROVE  Decided'
  OBVIOUS
<1>1. CASE Rebuild
  BY <1>1 DEF Rebuild, Decided
<1>2. CASE Upgrade
  BY <1>2 DEF Upgrade, Decided
<1>3. CASE Enforce
  <2>1. /\ verdict' = PolicyVerdict(build.policy, Check(build, reported))
        /\ verdict = "none" /\ UNCHANGED <<build, engine, reported, dispatched>>
    BY <1>3 DEF Enforce
  <2>2. dispatched = "none"
    BY <2>1 DEF Decided
  <2> QED
    BY <2>1, <2>2 DEF Decided
<1>4. CASE CallUnstable
  BY <1>4 DEF CallUnstable, Decided
<1>5. CASE UNCHANGED vars
  BY <1>5 DEF vars, Decided
<1> QED
  BY <1>1, <1>2, <1>3, <1>4, <1>5 DEF Next

\* Whatever the history, a verdict is the check's and a wrong call follows from
\* the layouts.
THEOREM DecidedInvariant == Spec => [](TypeOK /\ Decided)
<1>1. Init => Decided
  BY DEF Init, Decided
<1> QED
  BY <1>1, TypeInit, TypeNext, DecidedStep, PTL DEF Spec

\* A guarded policy lets a duckdb-1-5 build load only as compatible.
LEMMA GuardedLoads ==
    ASSUME NEW b \in Builds, b.unstable, NEW e \in Versions,
           NEW r \in {e, None}, Guarded(b.policy, e),
           PolicyVerdict(b.policy, Check(b, r)) \in {"load", "warn"}
    PROVE  Check(b, r) = "Compatible"
<1>1. b.policy = "Strict" \/ (b.policy = "AllowUnknownEngine" /\ Verified(e))
  BY DEF Guarded
<1>2. Check(b, r) # "StableOnly"
  BY DEF Check, Decide
<1>3. Verified(e) => Check(b, r) # "UnknownEngineVersion"
  BY DEF Check, Decide
<1> QED
  BY <1>1, <1>2, <1>3 DEF PolicyVerdict, IsCompatible

\* Compatible is right about an honest build, where the table can tell.
LEMMA CompatibleRuns ==
    ASSUME NEW b \in Builds, b.unstable, NEW e \in Versions,
           NEW r \in {e, None}, Honest(b), Check(b, r) = "Compatible",
           Verified(b.headers) \/ ~Verified(e)
    PROVE  <<LayoutOf[b.headers], LayoutOf[e]>> \in RunsOn
<1>1. b.headers \in Versions /\ CompiledSlotCount(b) = Slots[LayoutOf[b.headers]]
  BY DEF Builds, CompiledSlotCount
<1>2. r = e /\ Decide(CompiledSlotCount(b), BuiltAgainst(b), e) = "Compatible"
  <2>1. Decide(CompiledSlotCount(b), BuiltAgainst(b), r) = "Compatible"
    BY DEF Check
  <2>2. r # None
    BY <2>1 DEF Decide
  <2> QED
    BY <2>1, <2>2
<1>3. CASE BuiltAgainst(b) # None /\ BuiltAgainst(b) = ParseVersion(e)
  <2>1. e = b.headers
    BY <1>1, <1>3 DEF Honest, ParseVersion
  <2>2. LayoutOf[e] \in Layouts
    OBVIOUS
  <2> QED
    BY <2>1, <2>2
<1>4. CASE ~(BuiltAgainst(b) # None /\ BuiltAgainst(b) = ParseVersion(e))
  <2>1. /\ Verified(e)
        /\ LayoutRunsOn(CompiledSlotCount(b), ExpectedSlotCount(e))
    BY <1>2, <1>4 DEF Decide
  <2>2. Verified(b.headers)
    BY <2>1
  <2>3. ExpectedSlotCount(e) = Slots[LayoutOf[e]]
    BY <2>1
  <2>4. \/ Slots[LayoutOf[b.headers]] = Slots[LayoutOf[e]]
        \/ <<Slots[LayoutOf[b.headers]], Slots[LayoutOf[e]]>> \in PrefixLayouts
    BY <1>1, <2>1, <2>3 DEF LayoutRunsOn
  <2> QED
    BY <1>1, <2>1, <2>2, <2>4
<1> QED
  BY <1>3, <1>4

\* A guarded LOAD of an honest build never reaches a wrong function, whatever
\* releases there have been and will be.
THEOREM DispatchCorrect == Spec => []StrictDispatchesRight
<1>1. TypeOK /\ Decided => StrictDispatchesRight
  <2> SUFFICES ASSUME TypeOK, Decided, dispatched = "wrong",
                      Guarded(build.policy, engine), Honest(build),
                      Verified(build.headers) \/ ~Verified(engine)
               PROVE  FALSE
    BY DEF StrictDispatchesRight
  <2>1. /\ build \in Builds /\ build.unstable
        /\ engine \in Versions /\ reported \in {engine, None}
        /\ PolicyVerdict(build.policy, Check(build, reported)) \in {"load", "warn"}
        /\ <<LayoutOf[build.headers], LayoutOf[engine]>> \notin RunsOn
    BY DEF TypeOK, Decided
  <2>2. Check(build, reported) = "Compatible"
    BY <2>1, GuardedLoads
  <2> QED
    BY <2>1, <2>2, CompatibleRuns
<1> QED
  BY <1>1, DecidedInvariant, PTL

\* A build that declares the release it was built against loads there.
THEOREM OwnEngineCorrect == Spec => []OwnEngineLoads
<1>1. TypeOK /\ Decided => OwnEngineLoads
  <2> SUFFICES ASSUME TypeOK, Decided, build.declared = build.headers,
                      build.headers \in Releases, engine = build.headers,
                      reported = engine, verdict # "none"
               PROVE  verdict = "load"
    BY DEF OwnEngineLoads
  <2>1. verdict = PolicyVerdict(build.policy, Check(build, build.headers))
    BY DEF Decided
  <2>2. /\ build \in Builds /\ build.headers \in Versions
        /\ build.headers # None
        /\ BuiltAgainst(build) = build.headers
        /\ ParseVersion(build.headers) = build.headers
    BY DEF TypeOK, Versions, BuiltAgainst, ParseVersion
  <2>3. Verified(build.headers)
          => ExpectedSlotCount(build.headers) = CompiledSlotCount(build)
    BY <2>2 DEF CompiledSlotCount
  <2>4. Check(build, build.headers) \in {"StableOnly", "Compatible"}
    BY <2>2, <2>3 DEF Check, Decide
  <2> QED
    BY <2>1, <2>4 DEF PolicyVerdict, IsCompatible
<1> QED
  BY <1>1, DecidedInvariant, PTL
=============================================================================
