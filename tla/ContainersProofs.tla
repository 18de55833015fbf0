-------------------------- MODULE ContainersProofs --------------------------
(***************************************************************************)
(* What the other proofs share: induction over numbers and finite sets,    *)
(* sums over finite sets, and lemmas about the container tree, for all     *)
(* MAX_PROCS and MAX_CHILDREN: what ContainerSplit writes, and why the     *)
(* index it computes is unused.                                            *)
(*                                                                         *)
(* An induction is stated for the set of the values that have a property,  *)
(* and proved by taking the least value outside it.                        *)
(***************************************************************************)
EXTENDS Containers, FiniteSets, Functions, FiniteSetTheorems,
        WellFoundedInduction, TLAPS

-----------------------------------------------------------------------------
(***************************************************************************)
(* Induction.                                                              *)
(***************************************************************************)
\* The order of the naturals as a set of pairs.
LessThan == {ss \in Nat \X Nat : ss[1] < ss[2]}

\* Every nonempty set of naturals has a least element.
LEMMA LessThanWellFounded == IsWellFoundedOn(LessThan, Nat)
BY NatLessThanWellFounded DEF OpToRel, LessThan

\* Induction on the naturals, for a set of numbers in place of a predicate.
LEMMA NatSetInduction ==
  ASSUME NEW G, 0 \in G, \A n \in Nat : n \in G => n + 1 \in G
  PROVE  Nat \subseteq G
<1> SUFFICES ASSUME Nat \ G # {} PROVE FALSE
  OBVIOUS
<1>1. PICK n \in Nat \ G : \A m \in Nat \ G : ~ (<<m, n>> \in LessThan)
  BY LessThanWellFounded, WFMin
<1>2. n # 0 /\ n - 1 \in Nat /\ (n - 1) + 1 = n
  BY <1>1
<1>3. n - 1 \notin G
  BY <1>1, <1>2
<1>4. <<n - 1, n>> \in LessThan
  BY <1>2 DEF LessThan
<1> QED
  BY <1>1, <1>2, <1>3, <1>4

\* Induction on the subsets of a finite set, for a set of subsets in place of a
\* predicate: a subset is good when it is with any one element less.
LEMMA SubsetInduction ==
  ASSUME NEW S, IsFiniteSet(S), NEW G,
         \A T \in SUBSET S : (\A x \in T : T \ {x} \in G) => T \in G
  PROVE  SUBSET S \subseteq G
<1> DEFINE N == {n \in Nat : \A T \in SUBSET S : Cardinality(T) = n => T \in G}
<1>1. \A T \in SUBSET S : IsFiniteSet(T) /\ Cardinality(T) \in Nat
  BY FS_Subset, FS_CardinalityType
<1>2. 0 \in N
  BY <1>1, FS_EmptySet
<1>3. ASSUME NEW n \in Nat, n \in N PROVE n + 1 \in N
  <2>1. ASSUME NEW T \in SUBSET S, Cardinality(T) = n + 1 PROVE T \in G
    <3>1. ASSUME NEW x \in T PROVE T \ {x} \in G
      <4>1. Cardinality(T \ {x}) = Cardinality(T) - 1
        BY <1>1, FS_RemoveElement
      <4>2. Cardinality(T \ {x}) = n
        BY <4>1, <2>1
      <4> QED
        BY <4>2, <1>3
    <3> QED
      BY <3>1
  <2> QED
    BY <2>1, <1>3
<1>4. Nat \subseteq N
  <2> HIDE DEF N
  <2> QED
    BY <1>2, <1>3, NatSetInduction
<1> QED
  BY <1>1, <1>4

-----------------------------------------------------------------------------
(***************************************************************************)
(* Sums.                                                                   *)
(***************************************************************************)
\* The equation of the function that SumFunctionOnSet iterates.
Chosen(s) == CHOOSE x \in s : TRUE
Adds(f, s, g) == IF s = {} THEN 0 ELSE f[Chosen(s)] + g[s \ {Chosen(s)}]
SumsOf(f, S, g) == g = [s \in SUBSET S |-> Adds(f, s, g)]

\* SumFunctionOnSet is the value of a function chosen by its equation.
LEMMA SumIsChosen ==
  ASSUME NEW f, NEW S
  PROVE  SumFunctionOnSet(f, S) = (CHOOSE g : SumsOf(f, S, g))[S]
BY DEF SumFunctionOnSet, FoldFunctionOnSet, MapThenFoldSet, SumsOf, Adds, Chosen

\* On the subsets of a finite set such a function exists: it is built for the
\* subsets of at most n elements, one n after the other.
LEMMA SumsExist ==
  ASSUME NEW f, NEW S, IsFiniteSet(S)
  PROVE  \E g : SumsOf(f, S, g)
<1> DEFINE D(n) == {s \in SUBSET S : Cardinality(s) <= n}
           N == {n \in Nat : \E g : g = [s \in D(n) |-> Adds(f, s, g)]}
<1>1. \A T \in SUBSET S : IsFiniteSet(T) /\ Cardinality(T) \in Nat
  BY FS_Subset, FS_CardinalityType
<1>2. 0 \in N
  <2> DEFINE g == [s \in D(0) |-> 0]
  <2>1. \A s \in D(0) : s = {}
    BY <1>1, FS_EmptySet
  <2>2. g = [s \in D(0) |-> Adds(f, s, g)]
    BY <2>1 DEF Adds
  <2> QED
    BY <2>2
<1>3. ASSUME NEW n \in Nat, n \in N PROVE n + 1 \in N
  <2>1. PICK g : g = [s \in D(n) |-> Adds(f, s, g)]
    BY <1>3
  <2> DEFINE h == [s \in D(n + 1) |-> Adds(f, s, g)]
  <2>2. ASSUME NEW s \in D(n) PROVE s \in D(n + 1) /\ h[s] = g[s]
    <3>1. s \in D(n + 1)
      BY <1>1, <1>3
    <3>2. h[s] = Adds(f, s, g)
      BY <3>1
    <3>3. g[s] = Adds(f, s, g)
      <4> HIDE DEF Adds
      <4> QED
       BY <2>1
    <3> QED
      BY <3>1, <3>2, <3>3
  <2>3. ASSUME NEW s \in D(n + 1) PROVE Adds(f, s, g) = Adds(f, s, h)
    <3>1. CASE s = {}
      BY <3>1 DEF Adds
    <3>2. CASE s # {}
      <4>1. Chosen(s) \in s
        BY <3>2 DEF Chosen
      <4>2. Cardinality(s \ {Chosen(s)}) = Cardinality(s) - 1
        BY <1>1, <4>1, FS_RemoveElement
      <4>3. s \ {Chosen(s)} \in D(n)
        BY <1>1, <1>3, <4>2
      <4>4. h[s \ {Chosen(s)}] = g[s \ {Chosen(s)}]
        BY <4>3, <2>2
      <4> QED
        BY <4>4, <3>2 DEF Adds
    <3> QED
      BY <3>1, <3>2
  <2>4. h = [s \in D(n + 1) |-> Adds(f, s, h)]
    BY <2>3
  <2> HIDE DEF h
  <2> QED
    BY <2>4, <1>3
<1>4. Cardinality(S) \in N
  <2>1. Nat \subseteq N
    <3> HIDE DEF N
    <3> QED
      BY <1>2, <1>3, NatSetInduction
  <2> QED
    BY <2>1, <1>1
<1>5. D(Cardinality(S)) = SUBSET S
  BY <1>1, FS_Subset
<1>6. PICK g : g = [s \in D(Cardinality(S)) |-> Adds(f, s, g)]
  BY <1>4
<1> QED
  BY <1>5, <1>6 DEF SumsOf

\* What SumFunctionOnSet iterates is one function g with its equation, and the
\* sums over the subsets of S are its values.
LEMMA SumUnfolds ==
  ASSUME NEW f, NEW S, IsFiniteSet(S)
  PROVE  \E g : /\ \A T \in SUBSET S : g[T] = Adds(f, T, g)
                /\ \A T \in SUBSET S : SumFunctionOnSet(f, T) = g[T]
<1> DEFINE g == CHOOSE h : SumsOf(f, S, h)
<1>1. SumsOf(f, S, g)
  BY SumsExist
<1> HIDE DEF g
<1>2. \A T \in SUBSET S : g[T] = Adds(f, T, g)
  <2> HIDE DEF Adds
  <2> QED
    BY <1>1 DEF SumsOf
<1>3. ASSUME NEW T \in SUBSET S PROVE SumFunctionOnSet(f, T) = g[T]
  <2>1. IsFiniteSet(T)
    BY FS_Subset
  <2> DEFINE h == CHOOSE k : SumsOf(f, T, k)
  <2>2. SumsOf(f, T, h)
    BY <2>1, SumsExist
  <2>3. SumFunctionOnSet(f, T) = h[T]
    BY SumIsChosen
  <2> HIDE DEF h
  <2>4. \A U \in SUBSET T : h[U] = Adds(f, U, h)
    <3> HIDE DEF Adds
    <3> QED
      BY <2>2 DEF SumsOf
  <2> DEFINE G == {U \in SUBSET T : h[U] = g[U]}
  <2>5. ASSUME NEW U \in SUBSET T, \A x \in U : U \ {x} \in G
        PROVE  U \in G
    <3>1. h[U] = Adds(f, U, h) /\ g[U] = Adds(f, U, g)
      BY <1>2, <2>4
    <3>2. CASE U = {}
      BY <3>1, <3>2 DEF Adds
    <3>3. CASE U # {}
      <4>1. Chosen(U) \in U
        BY <3>3 DEF Chosen
      <4>2. h[U \ {Chosen(U)}] = g[U \ {Chosen(U)}]
        BY <4>1, <2>5
      <4> QED
        BY <4>2, <3>1, <3>3 DEF Adds
    <3> QED
      BY <3>2, <3>3
  <2>6. SUBSET T \subseteq G
    <3> HIDE DEF G
    <3> QED
      BY <2>1, <2>5, SubsetInduction
  <2> QED
    BY <2>3, <2>6
<1> QED
  BY <1>2, <1>3

\* The sum over no index is 0.
LEMMA SumEmpty == ASSUME NEW f PROVE SumFunctionOnSet(f, {}) = 0
<1>1. PICK g : /\ g[{}] = Adds(f, {}, g) /\ SumFunctionOnSet(f, {}) = g[{}]
  BY FS_EmptySet, SumUnfolds
<1> QED
  BY <1>1 DEF Adds

\* A sum of integers over a finite set is an integer, and any index can be taken
\* out of it.
LEMMA SumRemove ==
  ASSUME NEW S, IsFiniteSet(S), NEW f, \A x \in S : f[x] \in Int
  PROVE  /\ SumFunctionOnSet(f, S) \in Int
         /\ \A x \in S : SumFunctionOnSet(f, S)
                           = f[x] + SumFunctionOnSet(f, S \ {x})
<1>1. PICK g : /\ \A T \in SUBSET S : g[T] = Adds(f, T, g)
               /\ \A T \in SUBSET S : SumFunctionOnSet(f, T) = g[T]
  BY SumUnfolds
<1> DEFINE G == {T \in SUBSET S : /\ g[T] \in Int
                                  /\ \A x \in T : /\ g[T \ {x}] \in Int
                                                  /\ g[T] = f[x] + g[T \ {x}]}
<1>2. ASSUME NEW T \in SUBSET S, \A x \in T : T \ {x} \in G
      PROVE  T \in G
  <2>1. g[T] = Adds(f, T, g)
    BY <1>1
  <2>2. CASE T = {}
    BY <2>1, <2>2 DEF Adds
  <2>3. CASE T # {}
    <3>1. PICK c \in T : g[T] = f[c] + g[T \ {c}]
      BY <2>1, <2>3 DEF Adds, Chosen
    <3>2. g[T] \in Int /\ g[T \ {c}] \in Int /\ f[c] \in Int
      BY <3>1, <1>2
    <3>3. ASSUME NEW x \in T PROVE g[T] = f[x] + g[T \ {x}]
      <4>1. CASE x = c
        BY <4>1, <3>1
      <4>2. CASE x # c
        <5>1. g[T \ {c}] = f[x] + g[(T \ {c}) \ {x}]
          BY <4>2, <1>2
        <5>2. g[T \ {x}] = f[c] + g[(T \ {x}) \ {c}]
          BY <4>2, <1>2
        <5>3. (T \ {c}) \ {x} = (T \ {x}) \ {c}
          OBVIOUS
        <5>4. g[(T \ {c}) \ {x}] \in Int
          <6>1. T \ {c} \in G /\ x \in T \ {c}
            BY <4>2, <1>2
          <6>2. \A y \in T \ {c} : g[(T \ {c}) \ {y}] \in Int
            BY <6>1
          <6> QED
            BY <6>1, <6>2
        <5> DEFINE rest == g[(T \ {c}) \ {x}]
        <5>5. g[T \ {c}] = f[x] + rest /\ g[T \ {x}] = f[c] + rest
          BY <5>1, <5>2, <5>3
        <5> HIDE DEF rest
        <5>6. rest \in Int /\ f[x] \in Int /\ f[c] \in Int
          BY <5>4 DEF rest
        <5>7. g[T] = f[c] + (f[x] + rest)
          BY <5>5, <3>1
        <5>8. f[c] + (f[x] + rest) = f[x] + (f[c] + rest)
          BY <5>6
        <5> QED
          BY <5>5, <5>7, <5>8
      <4> QED
        BY <4>1, <4>2
    <3> QED
      BY <3>2, <3>3, <1>2
  <2> QED
    BY <2>2, <2>3
<1>3. SUBSET S \subseteq G
  <2> HIDE DEF G
  <2> QED
    BY <1>2, SubsetInduction
<1>4. \A x \in S : S \ {x} \in SUBSET S
  OBVIOUS
<1>5. S \in G
  BY <1>3
<1>6. /\ SumFunctionOnSet(f, S) = g[S]
      /\ \A x \in S : SumFunctionOnSet(f, S \ {x}) = g[S \ {x}]
  BY <1>1, <1>4
<1> QED
  BY <1>5, <1>6

\* The index added is counted once.
LEMMA SumAdd ==
  ASSUME NEW S, IsFiniteSet(S), NEW f, NEW x, x \notin S,
         \A y \in S \cup {x} : f[y] \in Int
  PROVE  SumFunctionOnSet(f, S \cup {x}) = SumFunctionOnSet(f, S) + f[x]
<1>1. IsFiniteSet(S \cup {x}) /\ (S \cup {x}) \ {x} = S
  BY FS_AddElement
<1>2. SumFunctionOnSet(f, S \cup {x})
        = f[x] + SumFunctionOnSet(f, (S \cup {x}) \ {x})
  BY <1>1, SumRemove
<1>3. f[x] \in Int /\ \A y \in S : f[y] \in Int
  OBVIOUS
<1>4. SumFunctionOnSet(f, S) \in Int
  BY <1>3, SumRemove
<1>5. SumFunctionOnSet(f, S \cup {x}) = f[x] + SumFunctionOnSet(f, S)
  BY <1>1, <1>2
<1> QED
  BY <1>3, <1>4, <1>5

\* A sum grows with its terms.
LEMMA SumLeq ==
  ASSUME NEW S, IsFiniteSet(S), NEW f, NEW h,
         \A x \in S : f[x] \in Int /\ h[x] \in Int /\ f[x] <= h[x]
  PROVE  SumFunctionOnSet(f, S) <= SumFunctionOnSet(h, S)
<1> DEFINE G == {T \in SUBSET S :
                   SumFunctionOnSet(f, T) <= SumFunctionOnSet(h, T)}
<1>1. ASSUME NEW T \in SUBSET S, \A x \in T : T \ {x} \in G
      PROVE  T \in G
  <2>1. CASE T = {}
    BY <2>1, SumEmpty
  <2>2. CASE T # {}
    <3>1. PICK x \in T : TRUE
      BY <2>2
    <3>2. IsFiniteSet(T) /\ IsFiniteSet(T \ {x})
      BY FS_Subset
    <3>3. /\ SumFunctionOnSet(f, T) = f[x] + SumFunctionOnSet(f, T \ {x})
          /\ SumFunctionOnSet(h, T) = h[x] + SumFunctionOnSet(h, T \ {x})
      BY <3>2, SumRemove
    <3>4. /\ SumFunctionOnSet(f, T \ {x}) \in Int
          /\ SumFunctionOnSet(h, T \ {x}) \in Int
      BY <3>2, SumRemove
    <3>5. SumFunctionOnSet(f, T \ {x}) <= SumFunctionOnSet(h, T \ {x})
      BY <1>1
    <3>6. f[x] \in Int /\ h[x] \in Int /\ f[x] <= h[x]
      OBVIOUS
    <3> QED
      BY <3>3, <3>4, <3>5, <3>6
  <2> QED
    BY <2>1, <2>2
<1>2. SUBSET S \subseteq G
  <2> HIDE DEF G
  <2> QED
    BY <1>1, SubsetInduction
<1> QED
  BY <1>2

\* The sum depends on the terms only.
LEMMA SumSame ==
  ASSUME NEW S, IsFiniteSet(S), NEW f, NEW h,
         \A x \in S : f[x] \in Int /\ h[x] = f[x]
  PROVE  SumFunctionOnSet(f, S) = SumFunctionOnSet(h, S)
<1>1. SumFunctionOnSet(f, S) <= SumFunctionOnSet(h, S)
  BY SumLeq
<1>2. SumFunctionOnSet(h, S) <= SumFunctionOnSet(f, S)
  BY SumLeq
<1>3. SumFunctionOnSet(f, S) \in Int /\ SumFunctionOnSet(h, S) \in Int
  BY SumRemove
<1> QED
  BY <1>1, <1>2, <1>3

\* A sum of zeros is zero.
LEMMA SumZeros ==
  ASSUME NEW S, IsFiniteSet(S), NEW f, \A x \in S : f[x] = 0
  PROVE  SumFunctionOnSet(f, S) = 0
<1> DEFINE G == {T \in SUBSET S : SumFunctionOnSet(f, T) = 0}
<1>1. ASSUME NEW T \in SUBSET S, \A x \in T : T \ {x} \in G
      PROVE  T \in G
  <2>1. CASE T = {}
    BY <2>1, SumEmpty
  <2>2. CASE T # {}
    <3>1. PICK x \in T : TRUE
      BY <2>2
    <3>2. IsFiniteSet(T)
      BY FS_Subset
    <3>3. SumFunctionOnSet(f, T) = f[x] + SumFunctionOnSet(f, T \ {x})
      BY <3>2, SumRemove
    <3>4. f[x] = 0 /\ SumFunctionOnSet(f, T \ {x}) = 0
      BY <1>1
    <3> QED
      BY <3>3, <3>4
  <2> QED
    BY <2>1, <2>2
<1>2. SUBSET S \subseteq G
  <2> HIDE DEF G
  <2> QED
    BY <1>1, SubsetInduction
<1> QED
  BY <1>2

\* One term changed by d changes the sum by d.
LEMMA SumChange ==
  ASSUME NEW S, IsFiniteSet(S), NEW x \in S, NEW f, NEW h,
         \A y \in S : f[y] \in Int /\ h[y] \in Int,
         \A y \in S \ {x} : h[y] = f[y]
  PROVE  SumFunctionOnSet(h, S) - SumFunctionOnSet(f, S) = h[x] - f[x]
<1>1. IsFiniteSet(S \ {x})
  BY FS_Subset
<1>2. SumFunctionOnSet(f, S \ {x}) = SumFunctionOnSet(h, S \ {x})
  BY <1>1, SumSame
<1>3. /\ SumFunctionOnSet(f, S) = f[x] + SumFunctionOnSet(f, S \ {x})
      /\ SumFunctionOnSet(h, S) = h[x] + SumFunctionOnSet(h, S \ {x})
  BY SumRemove
<1>4. SumFunctionOnSet(f, S \ {x}) \in Int
  BY <1>1, SumRemove
<1> QED
  BY <1>2, <1>3, <1>4

\* A union is no larger than its parts together.
LEMMA UnionAtMostSum ==
  ASSUME NEW S, IsFiniteSet(S), NEW held, NEW f,
         \A x \in S : IsFiniteSet(held[x]) /\ f[x] = Cardinality(held[x])
  PROVE  /\ IsFiniteSet(UNION {held[x] : x \in S})
         /\ Cardinality(UNION {held[x] : x \in S}) <= SumFunctionOnSet(f, S)
<1> DEFINE U(T) == UNION {held[x] : x \in T}
           G == {T \in SUBSET S : /\ IsFiniteSet(U(T))
                                  /\ Cardinality(U(T)) <= SumFunctionOnSet(f, T)}
<1>0. \A x \in S : f[x] \in Nat
  BY FS_CardinalityType
<1>1. ASSUME NEW T \in SUBSET S, \A x \in T : T \ {x} \in G
      PROVE  T \in G
  <2>1. CASE T = {}
    <3>1. U(T) = {}
      BY <2>1
    <3> QED
      BY <3>1, <2>1, SumEmpty, FS_EmptySet
  <2>2. CASE T # {}
    <3>1. PICK x \in T : TRUE
      BY <2>2
    <3>2. IsFiniteSet(T) /\ IsFiniteSet(T \ {x})
      BY FS_Subset
    <3>3. SumFunctionOnSet(f, T) = f[x] + SumFunctionOnSet(f, T \ {x})
      BY <1>0, <3>2, SumRemove
    <3>4. SumFunctionOnSet(f, T \ {x}) \in Int
      BY <1>0, <3>2, SumRemove
    <3>5. /\ IsFiniteSet(U(T \ {x}))
          /\ Cardinality(U(T \ {x})) <= SumFunctionOnSet(f, T \ {x})
      BY <1>1
    <3>6. U(T) = U(T \ {x}) \cup held[x]
      OBVIOUS
    <3>7. IsFiniteSet(held[x]) /\ f[x] = Cardinality(held[x])
      OBVIOUS
    <3> DEFINE A == U(T \ {x})
               B == held[x]
    <3> HIDE DEF U
    <3>8. /\ IsFiniteSet(A \cup B)
          /\ Cardinality(A \cup B)
               = Cardinality(A) + Cardinality(B) - Cardinality(A \cap B)
      BY <3>5, <3>7, FS_Union
    <3>9. /\ Cardinality(A) \in Nat /\ Cardinality(B) \in Nat
          /\ Cardinality(A \cap B) \in Nat
      BY <3>5, <3>7, FS_Intersection, FS_CardinalityType
    <3>10. Cardinality(U(T)) <= SumFunctionOnSet(f, T)
      BY <3>3, <3>4, <3>5, <3>6, <3>7, <3>8, <3>9
    <3> QED
      BY <3>6, <3>8, <3>10
  <2> QED
    BY <2>1, <2>2
<1>2. SUBSET S \subseteq G
  <2> HIDE DEF G
  <2> QED
    BY <1>1, SubsetInduction
<1> QED
  BY <1>2
-----------------------------------------------------------------------------
(***************************************************************************)
(* ContainerSplit.                                                         *)
(***************************************************************************)
\* Process identifiers are naturals, and 0 is one.
LEMMA ProcFacts == Proc \subseteq Nat /\ 0 \in Proc
BY ContainersAssumption DEF Proc

\* The child ContainerSplit writes is never the parent itself.
LEMMA ChildIsNotParent ==
  ASSUME NEW cs \in [Proc -> Container], NEW id \in Proc
  PROVE  /\ ChildID(cs, id) \in Nat
         /\ ChildID(cs, id) > id
<1>1. id \in Nat /\ cs[id].numChildren \in Nat
  BY ProcFacts DEF Container
<1>2. id * MAX_CHILDREN \in Nat /\ id * MAX_CHILDREN >= id
  BY <1>1, ContainersAssumption
<1> QED
  BY <1>1, <1>2 DEF ChildID

\* What ContainerSplit writes, container by container.
LEMMA ContainerSplitEffect ==
  ASSUME NEW cs \in [Proc -> Container], NEW id \in Proc, NEW quota \in Nat,
         ChildID(cs, id) \in Proc
  PROVE  LET new == ContainerSplit(cs, id, quota)
             child == ChildID(cs, id)
         IN /\ new \in [Proc -> Container]
            /\ child # id
            /\ /\ new[child].quota = quota /\ new[child].usage = 0
               /\ new[child].parent = id /\ new[child].numChildren = 0
               /\ new[child].used
            /\ /\ new[id].quota = cs[id].quota
               /\ new[id].usage = cs[id].usage + quota
               /\ new[id].parent = cs[id].parent
               /\ new[id].numChildren = cs[id].numChildren + 1
               /\ new[id].used = cs[id].used
            /\ \A c \in Proc \ {id, child} : new[c] = cs[c]
<1>1. ChildID(cs, id) # id
  BY ChildIsNotParent, ProcFacts
<1> DEFINE child == ChildID(cs, id)
           row == [quota |-> quota, usage |-> 0, parent |-> id,
                   numChildren |-> 0, used |-> TRUE]
           mid == [cs EXCEPT ![child] = row]
<1>2. row \in Container
  BY DEF Container
<1>3. /\ mid \in [Proc -> Container] /\ mid[child] = row /\ mid[id] = cs[id]
      /\ \A c \in Proc \ {child} : mid[c] = cs[c]
  BY <1>1, <1>2
<1> DEFINE charged == [mid[id] EXCEPT !.usage = @ + quota, !.numChildren = @ + 1]
<1>4. ContainerSplit(cs, id, quota) = [mid EXCEPT ![id] = charged]
  BY <1>3 DEF ContainerSplit
<1> HIDE DEF mid, row, child
<1>5. charged \in Container
  <2>1. mid[id] \in Container
    BY <1>3
  <2>2. mid[id].usage + quota \in Nat /\ mid[id].numChildren + 1 \in Nat
    BY <2>1 DEF Container
  <2> QED
    BY <2>1, <2>2 DEF Container
<1>6. /\ charged.quota = cs[id].quota /\ charged.usage = cs[id].usage + quota
      /\ charged.parent = cs[id].parent
      /\ charged.numChildren = cs[id].numChildren + 1
      /\ charged.used = cs[id].used
  <2>1. cs[id] \in Container
    OBVIOUS
  <2> QED
    BY <1>3, <2>1 DEF Container
<1> HIDE DEF charged
<1> QED
  BY <1>1, <1>3, <1>4, <1>5, <1>6 DEF row, child
-----------------------------------------------------------------------------
(***************************************************************************)
(* The tree: every container in use except the root is one of the first    *)
(* numChildren children of a container in use, and no container has more   *)
(* than MAX_CHILDREN.                                                      *)
(***************************************************************************)
IsChild(cs, c, p, k) == /\ cs[p].used
                        /\ k < cs[p].numChildren
                        /\ c = p * MAX_CHILDREN + 1 + k

Tree(cs) == /\ \A c \in Proc : cs[c].used => cs[c].numChildren <= MAX_CHILDREN
            /\ \A c \in Proc \ {0} :
                 cs[c].used => \E p \in Proc : \E k \in Nat : IsChild(cs, c, p, k)

\* ContainerInit starts a tree whose only container in use is the root.
LEMMA InitTree ==
  ASSUME NEW userPages \in Nat
  PROVE  LET cs == ContainerInit(userPages)
         IN /\ cs \in [Proc -> Container]
            /\ Tree(cs)
            /\ cs[0].used
            /\ \A c \in Proc \ {0} : ~cs[c].used
            /\ \A c \in Proc : cs[c].usage = 0
<1> DEFINE cs == ContainerInit(userPages)
<1>1. /\ cs \in [Proc -> Container]
      /\ \A c \in Proc : cs[c].usage = 0 /\ cs[c].numChildren = 0
      /\ \A c \in Proc \ {0} : ~cs[c].used
      /\ cs[0].used
  BY ProcFacts DEF ContainerInit, NoContainer, Container
<1> HIDE DEF cs
<1>2. Tree(cs)
  BY <1>1, ContainersAssumption DEF Tree
<1> QED
  BY <1>1, <1>2 DEF cs

\* A number has one representation p * MAX_CHILDREN + k with k < MAX_CHILDREN.
LEMMA UniqueParent ==
  ASSUME NEW p \in Nat, NEW q \in Nat, NEW j \in Nat, NEW k \in Nat,
         j < MAX_CHILDREN, k < MAX_CHILDREN,
         p * MAX_CHILDREN + 1 + j = q * MAX_CHILDREN + 1 + k
  PROVE  p = q /\ j = k
<1>1. ASSUME NEW a \in Nat, NEW b \in Nat, NEW x \in Nat, NEW y \in Nat,
             x < MAX_CHILDREN, a < b
      PROVE  a * MAX_CHILDREN + 1 + x # b * MAX_CHILDREN + 1 + y
  <2>1. PICK d \in Nat : b = a + 1 + d
    <3>1. b - a - 1 \in Nat /\ b = a + 1 + (b - a - 1)
      BY <1>1
    <3> QED
      BY <3>1
  <2>2. b * MAX_CHILDREN = a * MAX_CHILDREN + MAX_CHILDREN + d * MAX_CHILDREN
    BY <2>1, ContainersAssumption
  <2>3. d * MAX_CHILDREN \in Nat /\ a * MAX_CHILDREN \in Nat
    BY ContainersAssumption
  <2> QED
    BY <1>1, <2>2, <2>3, ContainersAssumption
<1>2. p = q
  BY <1>1
<1> QED
  BY <1>2, ContainersAssumption

\* In a tree, the next child of a container with children left is not in use.
LEMMA NextChildFresh ==
  ASSUME NEW cs \in [Proc -> Container], Tree(cs),
         NEW id \in Proc, ChildrenLeft(cs, id), ChildInArray(cs, id)
  PROVE  ~cs[ChildID(cs, id)].used
<1> SUFFICES ASSUME cs[ChildID(cs, id)].used PROVE FALSE
  OBVIOUS
<1>1. ChildID(cs, id) \in Proc \ {0}
  BY ChildIsNotParent, ProcFacts DEF ChildInArray
<1>2. PICK p \in Proc, k \in Nat : IsChild(cs, ChildID(cs, id), p, k)
  BY <1>1 DEF Tree
<1>3. /\ p \in Nat /\ id \in Nat
      /\ cs[id].numChildren \in Nat /\ cs[p].numChildren \in Nat
  BY ProcFacts DEF Container
<1>4. k < MAX_CHILDREN /\ cs[id].numChildren < MAX_CHILDREN
  BY <1>2, <1>3, ContainersAssumption DEF Tree, IsChild, ChildrenLeft
<1>5. p = id /\ k = cs[id].numChildren
  BY <1>2, <1>3, <1>4, UniqueParent DEF IsChild, ChildID
<1> QED
  BY <1>2, <1>3, <1>5 DEF IsChild

\* A split within the limits of ContainerSplit keeps the tree.
LEMMA SplitKeepsTree ==
  ASSUME NEW cs \in [Proc -> Container], Tree(cs),
         NEW id \in Proc, NEW quota \in Nat, cs[id].used,
         ChildrenLeft(cs, id), ChildInArray(cs, id)
  PROVE  Tree(ContainerSplit(cs, id, quota))
<1> DEFINE new == ContainerSplit(cs, id, quota)
           child == ChildID(cs, id)
<1>1. /\ new \in [Proc -> Container]
      /\ child # id /\ child \in Proc
      /\ new[child].used /\ new[child].numChildren = 0
      /\ new[id].used /\ new[id].numChildren = cs[id].numChildren + 1
      /\ \A c \in Proc \ {id, child} : new[c] = cs[c]
  BY ContainerSplitEffect DEF ChildInArray
<1>2. ~cs[child].used
  BY NextChildFresh
<1>3. \A p \in Proc : cs[p].numChildren \in Nat
  BY DEF Container
<1> HIDE DEF new
<1>4. \A c \in Proc : new[c].used => new[c].numChildren <= MAX_CHILDREN
  BY <1>1, <1>3, ContainersAssumption DEF Tree, ChildrenLeft
<1>5. \A c \in Proc, p \in Proc, k \in Nat :
        IsChild(cs, c, p, k) => IsChild(new, c, p, k)
  BY <1>1, <1>2, <1>3 DEF IsChild
<1>6. IsChild(new, child, id, cs[id].numChildren)
  BY <1>1, <1>3 DEF IsChild, ChildID
<1>7. ASSUME NEW c \in Proc \ {0}, new[c].used
      PROVE  \E p \in Proc : \E k \in Nat : IsChild(new, c, p, k)
  <2>1. CASE c = child
    BY <2>1, <1>3, <1>6
  <2>2. CASE c # child
    <3>1. cs[c].used
      BY <1>1, <1>7, <2>2
    <3> QED
      BY <3>1, <1>5 DEF Tree
  <2> QED
    BY <2>1, <2>2
<1>8. Tree(new)
  BY <1>4, <1>7 DEF Tree
<1> QED
  BY <1>8 DEF new
=============================================================================
