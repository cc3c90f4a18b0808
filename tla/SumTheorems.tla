----------------------------- MODULE SumTheorems -----------------------------
(***************************************************************************)
(* Sums of functions over finite sets, as Functions defines them: what the *)
(* proofs about amounts, pieces and reserved quantities need.  Induction is *)
(* stated with the set of the numbers a fact holds for, since a fact cannot *)
(* be passed to a theorem.                                                  *)
(***************************************************************************)
EXTENDS Integers, FiniteSets, Functions, FiniteSetTheorems, WellFoundedInduction, TLAPS

(* A set of numbers with 0 and the successor of each it has, has them all:  *)
(* the least number it lacks would be the successor of one it has.          *)
LEMMA Induction ==
  ASSUME NEW G, 0 \in G, \A n \in Nat : n \in G => n + 1 \in G
  PROVE  \A n \in Nat : n \in G
<1> DEFINE Lacks == {n \in Nat : n \notin G}
<1> SUFFICES ASSUME Lacks # {}
             PROVE  FALSE
  OBVIOUS
<1>1. PICK n \in Lacks : \A m \in Lacks : <<m, n>> \notin OpToRel(<, Nat)
  BY NatLessThanWellFounded, WFMin
<1>2. n \in Nat \ {0} /\ n - 1 \in Nat
  OBVIOUS
<1>3. n - 1 \in Lacks
  <2>1. n - 1 \in G => (n - 1) + 1 \in G
    BY <1>2
  <2>2. QED
    BY <1>2, <2>1
<1>4. <<n - 1, n>> \in OpToRel(<, Nat)
  BY <1>2 DEF OpToRel
<1>5. QED
  BY <1>1, <1>3, <1>4

-----------------------------------------------------------------------------
(* The recursion behind a sum: one element after the other is taken out.    *)
First(s) == CHOOSE x \in s : TRUE
Adds(f, s, it) == IF s = {} THEN 0 ELSE f[First(s)] + it[s \ {First(s)}]
Adding(f, S, it) == it = [s \in SUBSET S |-> Adds(f, s, it)]

LEMMA FirstIn == \A s : s # {} => First(s) \in s
BY DEF First

LEMMA SumDef ==
  ASSUME NEW f, NEW S
  PROVE  SumFunctionOnSet(f, S) = (CHOOSE it : Adding(f, S, it))[S]
BY DEF SumFunctionOnSet, FoldFunctionOnSet, MapThenFoldSet, Adding, Adds, First

(* The sums up to a size give the sums up to the next.                      *)
LEMMA AddingExists ==
  ASSUME NEW f, NEW S, IsFiniteSet(S)
  PROVE  \E it : Adding(f, S, it)
<1> DEFINE Upto(n) == {s \in SUBSET S : Cardinality(s) <= n}
           Sums(n, it) == it = [s \in Upto(n) |-> Adds(f, s, it)]
           G == {n \in Nat : \E it : Sums(n, it)}
<1>1. \A s \in SUBSET S : IsFiniteSet(s) /\ Cardinality(s) \in Nat
  BY FS_Subset, FS_CardinalityType
<1>2. 0 \in G
  <2>1. \A s \in Upto(0) : s = {}
    BY <1>1, FS_EmptySet
  <2>2. Sums(0, [s \in Upto(0) |-> 0])
    BY <2>1 DEF Adds
  <2>3. QED
    BY <2>2
<1>3. ASSUME NEW n \in Nat, n \in G
      PROVE  n + 1 \in G
  <2>1. PICK it : Sums(n, it)
    BY <1>3
  <2> DEFINE next == [s \in Upto(n + 1) |-> Adds(f, s, it)]
  <2>2. ASSUME NEW s \in Upto(n + 1), s # {}
        PROVE  /\ s \ {First(s)} \in Upto(n)
               /\ s \ {First(s)} \in Upto(n + 1)
    <3>1. IsFiniteSet(s) /\ Cardinality(s) \in Nat /\ Cardinality(s \ {First(s)}) = Cardinality(s) - 1
      BY <1>1, <2>2, FirstIn, FS_RemoveElement
    <3>2. QED
      BY <2>2, <3>1
  <2>3. \A s \in Upto(n) : next[s] = it[s]
    <3>1. \A s \in Upto(n) : s \in Upto(n + 1)
      BY <1>1
    <3>2. \A s \in Upto(n) : it[s] = Adds(f, s, it)
      BY <2>1
    <3>3. QED
      BY <3>1, <3>2
  <2>4. \A s \in Upto(n + 1) : Adds(f, s, it) = Adds(f, s, next)
    BY <2>2, <2>3 DEF Adds
  <2>5. Sums(n + 1, next)
    BY <2>4
  <2>6. \E i : Sums(n + 1, i)
    <3> HIDE DEF next, Sums
    <3>1. QED
      BY <2>5
  <2> HIDE DEF Sums
  <2>7. QED
    BY <2>6
<1> HIDE DEF G
<1>4. Cardinality(S) \in G
  <2>1. \A n \in Nat : n \in G => n + 1 \in G
    BY <1>3
  <2>2. \A n \in Nat : n \in G
    BY <1>2, <2>1, Induction
  <2>3. QED
    BY <2>2, FS_CardinalityType
<1>5. Upto(Cardinality(S)) = SUBSET S
  BY FS_Subset
<1>6. QED
  BY <1>4, <1>5 DEF Adding, G

(* Two tables of sums agree on the sets they share.                         *)
LEMMA AddingUnique ==
  ASSUME NEW f, NEW S, NEW T, IsFiniteSet(T), T \subseteq S,
         NEW it, Adding(f, S, it), NEW jt, Adding(f, T, jt)
  PROVE  it[T] = jt[T]
<1> DEFINE G == {n \in Nat : \A s \in SUBSET T : Cardinality(s) = n => it[s] = jt[s]}
<1>1. \A s \in SUBSET T : /\ IsFiniteSet(s) /\ Cardinality(s) \in Nat
                          /\ it[s] = Adds(f, s, it) /\ jt[s] = Adds(f, s, jt)
  BY FS_Subset, FS_CardinalityType DEF Adding
<1>2. 0 \in G
  <2>1. \A s \in SUBSET T : Cardinality(s) = 0 => it[s] = jt[s]
    BY <1>1, FS_EmptySet DEF Adds
  <2>2. QED
    BY <2>1
<1>3. ASSUME NEW n \in Nat, n \in G
      PROVE  n + 1 \in G
  <2>1. ASSUME NEW s \in SUBSET T, Cardinality(s) = n + 1
        PROVE  it[s] = jt[s]
    <3>1. s # {} /\ First(s) \in s
      BY <1>1, <2>1, FS_EmptySet, FirstIn
    <3>2. Cardinality(s \ {First(s)}) = n
      <4>1. Cardinality(s \ {First(s)}) = Cardinality(s) - 1
        BY <1>1, <3>1, FS_RemoveElement
      <4>2. QED
        BY <2>1, <4>1
    <3>3. it[s \ {First(s)}] = jt[s \ {First(s)}]
      BY <1>3, <3>2
    <3>4. QED
      BY <1>1, <3>1, <3>3 DEF Adds
  <2>2. QED
    BY <2>1
<1> HIDE DEF G
<1>4. \A n \in Nat : n \in G
  <2>1. \A n \in Nat : n \in G => n + 1 \in G
    BY <1>3
  <2>2. QED
    BY <1>2, <2>1, Induction
<1>5. QED
  BY <1>1, <1>4 DEF G

-----------------------------------------------------------------------------
(* Nothing adds up to nothing.                                              *)
LEMMA EmptySum ==
  ASSUME NEW f
  PROVE  SumFunctionOnSet(f, {}) = 0
<1>1. PICK it : Adding(f, {}, it)
  BY AddingExists, FS_EmptySet
<1>2. Adding(f, {}, CHOOSE i : Adding(f, {}, i))
  BY <1>1
<1>3. (CHOOSE i : Adding(f, {}, i))[{}] = 0
  BY <1>2 DEF Adding, Adds
<1>4. QED
  BY <1>3, SumDef

LEMMA FirstOut ==
  ASSUME NEW f, NEW S, IsFiniteSet(S), S # {}
  PROVE  SumFunctionOnSet(f, S) = f[First(S)] + SumFunctionOnSet(f, S \ {First(S)})
<1> DEFINE it == CHOOSE i : Adding(f, S, i)
           T == S \ {First(S)}
           jt == CHOOSE i : Adding(f, T, i)
<1>1. IsFiniteSet(T) /\ T \subseteq S
  BY FS_RemoveElement
<1>2. Adding(f, S, it)
  BY AddingExists
<1>3. Adding(f, T, jt)
  BY <1>1, AddingExists
<1>4. it[S] = f[First(S)] + it[T]
  BY <1>2 DEF Adding, Adds
<1>5. SumFunctionOnSet(f, S) = it[S] /\ SumFunctionOnSet(f, T) = jt[T]
  BY SumDef
<1> HIDE DEF it, jt, T
<1>6. it[T] = jt[T]
  BY <1>1, <1>2, <1>3, AddingUnique
<1>7. QED
  BY <1>4, <1>5, <1>6 DEF T

(* Sums of integers are integers, and it does not matter which element is   *)
(* taken out.                                                               *)
LEMMA SumIsInt ==
  ASSUME NEW f, NEW S, IsFiniteSet(S), \A x \in S : f[x] \in Int
  PROVE  SumFunctionOnSet(f, S) \in Int
<1> DEFINE Sum(s) == SumFunctionOnSet(f, s)
           G == {n \in Nat : \A s \in SUBSET S : Cardinality(s) = n => Sum(s) \in Int}
<1>1. \A s \in SUBSET S : IsFiniteSet(s) /\ Cardinality(s) \in Nat
  BY FS_Subset, FS_CardinalityType
<1>2. 0 \in G
  <2>1. \A s \in SUBSET S : Cardinality(s) = 0 => s = {}
    BY <1>1, FS_EmptySet
  <2>2. Sum({}) \in Int
    BY EmptySum
  <2> HIDE DEF Sum
  <2>3. QED
    BY <2>1, <2>2
<1>3. ASSUME NEW n \in Nat, n \in G
      PROVE  n + 1 \in G
  <2>1. ASSUME NEW s \in SUBSET S, Cardinality(s) = n + 1
        PROVE  Sum(s) \in Int
    <3>1. s # {} /\ First(s) \in s
      BY <1>1, <2>1, FS_EmptySet, FirstIn
    <3>2. Cardinality(s \ {First(s)}) = n /\ s \ {First(s)} \in SUBSET S
      <4>1. Cardinality(s \ {First(s)}) = Cardinality(s) - 1
        BY <1>1, <3>1, FS_RemoveElement
      <4>2. QED
        BY <2>1, <4>1
    <3>3. Sum(s) = f[First(s)] + Sum(s \ {First(s)})
      BY <1>1, <3>1, FirstOut
    <3> HIDE DEF Sum
    <3>4. QED
      BY <1>3, <3>1, <3>2, <3>3
  <2>2. QED
    BY <2>1
<1> HIDE DEF G
<1>4. \A n \in Nat : n \in G
  <2>1. \A n \in Nat : n \in G => n + 1 \in G
    BY <1>3
  <2>2. QED
    BY <1>2, <2>1, Induction
<1>5. QED
  BY <1>1, <1>4 DEF G

LEMMA OneOut ==
  ASSUME NEW f, NEW S, IsFiniteSet(S), \A x \in S : f[x] \in Int, NEW e \in S
  PROVE  SumFunctionOnSet(f, S) = f[e] + SumFunctionOnSet(f, S \ {e})
<1> DEFINE Sum(s) == SumFunctionOnSet(f, s)
           G == {n \in Nat : \A s \in SUBSET S : Cardinality(s) = n =>
                               \A x \in s : Sum(s) = f[x] + Sum(s \ {x})}
<1>1. \A s \in SUBSET S : IsFiniteSet(s) /\ Cardinality(s) \in Nat /\ Sum(s) \in Int
  BY FS_Subset, FS_CardinalityType, SumIsInt
<1>2. 0 \in G
  <2>1. \A s \in SUBSET S : Cardinality(s) = 0 => s = {}
    BY <1>1, FS_EmptySet
  <2>2. QED
    BY <2>1
<1>3. ASSUME NEW n \in Nat, n \in G
      PROVE  n + 1 \in G
  <2>1. ASSUME NEW s \in SUBSET S, Cardinality(s) = n + 1, NEW x \in s
        PROVE  Sum(s) = f[x] + Sum(s \ {x})
    <3> DEFINE p == First(s)
    <3>1. p \in s
      BY FirstIn
    <3>2. Sum(s) = f[p] + Sum(s \ {p})
      BY <1>1, <3>1, FirstOut
    <3>3. /\ Cardinality(s \ {p}) = n /\ s \ {p} \in SUBSET S
          /\ Cardinality(s \ {x}) = n /\ s \ {x} \in SUBSET S
      <4>1. Cardinality(s \ {p}) = Cardinality(s) - 1 /\ Cardinality(s \ {x}) = Cardinality(s) - 1
        BY <1>1, <3>1, FS_RemoveElement
      <4> HIDE DEF p
      <4>2. QED
        BY <2>1, <4>1
    <3> HIDE DEF p, Sum
    <3>4. CASE x = p
      BY <3>2, <3>4
    <3>5. CASE x # p
      <4>1. Sum(s \ {p}) = f[x] + Sum((s \ {p}) \ {x})
        BY <1>3, <3>3, <3>5
      <4>2. Sum(s \ {x}) = f[p] + Sum((s \ {x}) \ {p})
        BY <1>3, <3>1, <3>3, <3>5
      <4>3. (s \ {p}) \ {x} = (s \ {x}) \ {p}
        OBVIOUS
      <4>4. Sum((s \ {p}) \ {x}) \in Int /\ f[x] \in Int /\ f[p] \in Int
        BY <1>1, <3>1, (s \ {p}) \ {x} \in SUBSET S
      <4>5. f[p] + (f[x] + Sum((s \ {p}) \ {x})) = f[x] + (f[p] + Sum((s \ {p}) \ {x}))
        BY <4>4
      <4>6. QED
        BY <3>2, <4>1, <4>2, <4>3, <4>5
    <3>6. QED
      BY <3>4, <3>5
  <2>2. QED
    BY <2>1
<1> HIDE DEF G
<1>4. \A n \in Nat : n \in G
  <2>1. \A n \in Nat : n \in G => n + 1 \in G
    BY <1>3
  <2>2. QED
    BY <1>2, <2>1, Induction
<1>5. QED
  BY <1>1, <1>4 DEF G

LEMMA OneMore ==
  ASSUME NEW f, NEW S, IsFiniteSet(S), NEW e, e \notin S, \A x \in S \cup {e} : f[x] \in Int
  PROVE  SumFunctionOnSet(f, S \cup {e}) = f[e] + SumFunctionOnSet(f, S)
<1>1. IsFiniteSet(S \cup {e}) /\ (S \cup {e}) \ {e} = S
  BY FS_AddElement
<1>2. QED
  BY <1>1, OneOut

LEMMA SumOfBoth ==
  ASSUME NEW f, NEW S, IsFiniteSet(S), NEW T, IsFiniteSet(T), S \cap T = {},
         \A x \in S \cup T : f[x] \in Int
  PROVE  SumFunctionOnSet(f, S \cup T) = SumFunctionOnSet(f, S) + SumFunctionOnSet(f, T)
<1> DEFINE Sum(s) == SumFunctionOnSet(f, s)
           G == {n \in Nat : \A t \in SUBSET T : Cardinality(t) = n => Sum(S \cup t) = Sum(S) + Sum(t)}
<1>1. /\ \A t \in SUBSET T : /\ IsFiniteSet(t) /\ Cardinality(t) \in Nat /\ Sum(t) \in Int
                             /\ IsFiniteSet(S \cup t)
      /\ Sum(S) \in Int
  <2>1. \A t \in SUBSET T : IsFiniteSet(t)
    BY FS_Subset
  <2>2. \A t \in SUBSET T : /\ IsFiniteSet(t) /\ Cardinality(t) \in Nat /\ Sum(t) \in Int
    BY <2>1, FS_CardinalityType, SumIsInt
  <2>3. \A t \in SUBSET T : IsFiniteSet(S \cup t)
    BY <2>1, FS_Union
  <2>4. QED
    BY <2>2, <2>3, SumIsInt
<1>2. 0 \in G
  <2>1. \A t \in SUBSET T : Cardinality(t) = 0 => t = {}
    BY <1>1, FS_EmptySet
  <2>2. Sum({}) = 0 /\ S \cup {} = S
    BY EmptySum
  <2> HIDE DEF Sum
  <2>3. QED
    BY <1>1, <2>1, <2>2
<1>3. ASSUME NEW n \in Nat, n \in G
      PROVE  n + 1 \in G
  <2>1. ASSUME NEW t \in SUBSET T, Cardinality(t) = n + 1
        PROVE  Sum(S \cup t) = Sum(S) + Sum(t)
    <3>1. t # {}
      BY <1>1, <2>1, FS_EmptySet
    <3>2. PICK x \in t : TRUE
      BY <3>1
    <3>3. Cardinality(t \ {x}) = n
      <4>1. Cardinality(t \ {x}) = Cardinality(t) - 1
        BY <1>1, <3>2, FS_RemoveElement
      <4>2. QED
        BY <2>1, <4>1
    <3>4. Sum(t) = f[x] + Sum(t \ {x})
      <4>1. IsFiniteSet(t) /\ x \in t /\ \A y \in t : f[y] \in Int
        BY <1>1, <3>2
      <4>2. QED
        BY <4>1, OneOut
    <3>5. Sum(S \cup t) = f[x] + Sum(S \cup (t \ {x}))
      <4>1. (S \cup t) \ {x} = S \cup (t \ {x})
        BY <3>2
      <4>2. IsFiniteSet(S \cup t) /\ x \in S \cup t /\ \A y \in S \cup t : f[y] \in Int
        BY <1>1, <3>2
      <4>3. Sum(S \cup t) = f[x] + Sum((S \cup t) \ {x})
        BY <4>2, OneOut
      <4>4. QED
        BY <4>1, <4>3
    <3>6. f[x] \in Int /\ Sum(t \ {x}) \in Int
      BY <1>1, <3>2, t \ {x} \in SUBSET T
    <3>7. Sum(S \cup (t \ {x})) = Sum(S) + Sum(t \ {x})
      BY <1>3, <3>3, t \ {x} \in SUBSET T
    <3> HIDE DEF Sum
    <3>8. QED
      BY <1>1, <3>4, <3>5, <3>6, <3>7
  <2>2. QED
    BY <2>1
<1> HIDE DEF G
<1>4. \A n \in Nat : n \in G
  <2>1. \A n \in Nat : n \in G => n + 1 \in G
    BY <1>3
  <2>2. QED
    BY <1>2, <2>1, Induction
<1>5. QED
  BY <1>1, <1>4 DEF G

-----------------------------------------------------------------------------
(* Functions that agree on a set have one sum over it.                      *)
LEMMA SameSum ==
  ASSUME NEW f, NEW g, NEW S, IsFiniteSet(S), \A x \in S : f[x] = g[x]
  PROVE  SumFunctionOnSet(f, S) = SumFunctionOnSet(g, S)
<1> DEFINE F(s) == SumFunctionOnSet(f, s)
           H(s) == SumFunctionOnSet(g, s)
           G == {n \in Nat : \A s \in SUBSET S : Cardinality(s) = n => F(s) = H(s)}
<1>1. \A s \in SUBSET S : IsFiniteSet(s) /\ Cardinality(s) \in Nat
  BY FS_Subset, FS_CardinalityType
<1>2. 0 \in G
  <2>1. \A s \in SUBSET S : Cardinality(s) = 0 => s = {}
    BY <1>1, FS_EmptySet
  <2>2. F({}) = H({})
    BY EmptySum
  <2> HIDE DEF F, H
  <2>3. QED
    BY <2>1, <2>2
<1>3. ASSUME NEW n \in Nat, n \in G
      PROVE  n + 1 \in G
  <2>1. ASSUME NEW s \in SUBSET S, Cardinality(s) = n + 1
        PROVE  F(s) = H(s)
    <3>1. s # {} /\ First(s) \in s
      BY <1>1, <2>1, FS_EmptySet, FirstIn
    <3>2. Cardinality(s \ {First(s)}) = n /\ s \ {First(s)} \in SUBSET S
      <4>1. Cardinality(s \ {First(s)}) = Cardinality(s) - 1
        BY <1>1, <3>1, FS_RemoveElement
      <4>2. QED
        BY <2>1, <4>1
    <3>3. /\ F(s) = f[First(s)] + F(s \ {First(s)})
          /\ H(s) = g[First(s)] + H(s \ {First(s)})
      BY <1>1, <3>1, FirstOut
    <3> HIDE DEF F, H
    <3>4. QED
      BY <1>3, <3>1, <3>2, <3>3
  <2>2. QED
    BY <2>1
<1> HIDE DEF G
<1>4. \A n \in Nat : n \in G
  <2>1. \A n \in Nat : n \in G => n + 1 \in G
    BY <1>3
  <2>2. QED
    BY <1>2, <2>1, Induction
<1>5. QED
  BY <1>1, <1>4 DEF G

(* Of numbers that are not negative, more add up to no less.                *)
LEMMA SumGrows ==
  ASSUME NEW f, NEW S, IsFiniteSet(S), \A x \in S : f[x] \in Nat, NEW T \in SUBSET S
  PROVE  /\ SumFunctionOnSet(f, T) \in Nat /\ SumFunctionOnSet(f, S) \in Nat
         /\ SumFunctionOnSet(f, T) <= SumFunctionOnSet(f, S)
<1> DEFINE Sum(s) == SumFunctionOnSet(f, s)
           G == {n \in Nat : \A s, t \in SUBSET S : t \subseteq s /\ Cardinality(s \ t) = n =>
                               Sum(t) <= Sum(s)}
<1>1. \A s \in SUBSET S : IsFiniteSet(s) /\ Cardinality(s) \in Nat /\ Sum(s) \in Int
  BY FS_Subset, FS_CardinalityType, SumIsInt
<1>2. 0 \in G
  <2>1. \A s, t \in SUBSET S : t \subseteq s /\ Cardinality(s \ t) = 0 => s = t
    <3>1. \A s, t \in SUBSET S : s \ t \in SUBSET S
      OBVIOUS
    <3>2. QED
      BY <1>1, <3>1, FS_EmptySet
  <2> HIDE DEF Sum
  <2>2. \A s \in SUBSET S : Sum(s) <= Sum(s)
    BY <1>1
  <2>3. QED
    BY <2>1, <2>2
<1>3. ASSUME NEW n \in Nat, n \in G
      PROVE  n + 1 \in G
  <2>1. ASSUME NEW s \in SUBSET S, NEW t \in SUBSET S, t \subseteq s, Cardinality(s \ t) = n + 1
        PROVE  Sum(t) <= Sum(s)
    <3>1. IsFiniteSet(s \ t) /\ s \ t # {}
      BY <1>1, <2>1, FS_EmptySet, s \ t \in SUBSET S
    <3>2. PICK x \in s : x \notin t
      BY <3>1
    <3>3. Cardinality((s \ t) \ {x}) = n /\ (s \ t) \ {x} = (s \ {x}) \ t
      <4>1. Cardinality((s \ t) \ {x}) = Cardinality(s \ t) - 1
        BY <3>1, <3>2, FS_RemoveElement
      <4>2. QED
        BY <2>1, <4>1
    <3>4. Sum(s) = f[x] + Sum(s \ {x})
      BY <1>1, <3>2, OneOut
    <3> HIDE DEF Sum
    <3>5. s \ {x} \in SUBSET S /\ t \subseteq s \ {x} /\ Cardinality((s \ {x}) \ t) = n
      BY <2>1, <3>2, <3>3
    <3>6. Sum(t) <= Sum(s \ {x})
      BY <1>3, <3>5
    <3>7. Sum(t) \in Int /\ Sum(s \ {x}) \in Int /\ f[x] \in Nat
      BY <1>1, <3>2, <3>5
    <3>8. QED
      BY <3>4, <3>6, <3>7
  <2>2. QED
    BY <2>1
<1> HIDE DEF G
<1>4. \A n \in Nat : n \in G
  <2>1. \A n \in Nat : n \in G => n + 1 \in G
    BY <1>3
  <2>2. QED
    BY <1>2, <2>1, Induction
<1>5. \A s, t \in SUBSET S : t \subseteq s => Sum(t) <= Sum(s)
  <2>1. \A s, t \in SUBSET S : s \ t \in SUBSET S
    OBVIOUS
  <2>2. QED
    BY <1>1, <1>4, <2>1 DEF G
<1>6. \A s \in SUBSET S : Sum(s) \in Nat
  <2>1. \A s \in SUBSET S : {} \in SUBSET S /\ {} \subseteq s
    OBVIOUS
  <2>2. Sum({}) = 0
    BY EmptySum
  <2> HIDE DEF Sum
  <2>3. QED
    BY <1>1, <1>5, <2>1, <2>2
<1>7. QED
  BY <1>5, <1>6

=============================================================================
