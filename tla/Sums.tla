-------------------------------- MODULE Sums ---------------------------------
(***************************************************************************)
(* Facts about sums over finite sets, for the modules that count photons,  *)
(* and about the least and the greatest of a set.                          *)
(* MapThenSumSet is a recursive function, so a sum is what the function    *)
(* returns that satisfies its equation.  Induction is over a set of sets.  *)
(***************************************************************************)
EXTENDS Integers, FiniteSetsExt, FiniteSetTheorems, WellFoundedInduction,
        NaturalsInduction, TLAPS

SumOver(f, S) == MapThenSumSet(LAMBDA x : f[x], S)

Pick(s) == CHOOSE x \in s : TRUE
IsSum(g, f, S) ==
  g = [s \in SUBSET S |-> IF s = {} THEN 0 ELSE f[Pick(s)] + g[s \ {Pick(s)}]]

-----------------------------------------------------------------------------
(* Every set of naturals has a least element.                              *)
LEMMA LeastNat ==
  ASSUME NEW N \in SUBSET Nat, N # {}
  PROVE  \E x \in N : \A y \in N : x <= y
<1> DEFINE R == OpToRel(<, Nat)
<1>1. IsWellFoundedOn(R, Nat)
  BY NatLessThanWellFounded
<1>2. \A x, y \in Nat : x < y => <<x, y>> \in R
  BY DEF OpToRel
<1> HIDE DEF R
<1>3. PICK x \in N : \A y \in N : ~(<<y, x>> \in R)
  BY <1>1, WFMin
<1>4. ASSUME NEW y \in N PROVE x <= y
  <2>1. x \in Nat /\ y \in Nat /\ ~(y < x)
    BY <1>2, <1>3
  <2> QED BY <2>1
<1> QED BY <1>4

(* Induction over the natural numbers, for a property given as a set.      *)
LEMMA NatSteps ==
  ASSUME NEW G \in SUBSET Nat, 0 \in G, \A n \in G : n + 1 \in G
  PROVE  G = Nat
<1> SUFFICES ASSUME Nat \ G # {} PROVE FALSE
  OBVIOUS
<1>1. PICK x \in Nat \ G : \A y \in Nat \ G : x <= y
  <2> HIDE DEF Nat
  <2> QED BY LeastNat
<1>2. x # 0 /\ x - 1 \in Nat
  BY <1>1
<1>3. x - 1 \in G
  BY <1>1, <1>2
<1>4. x - 1 + 1 \in G
  BY <1>3
<1> QED BY <1>1, <1>4

(* Induction over the finite subsets of a set, for a property given as the *)
(* set of those that have it.                                              *)
LEMMA SetSteps ==
  ASSUME NEW S, IsFiniteSet(S), NEW G, {} \in G,
         \A T \in SUBSET S : \A x \in S \ T : T \in G => T \cup {x} \in G
  PROVE  S \in G
<1> DEFINE Sized == {n \in Nat : \A T \in SUBSET S : Cardinality(T) = n => T \in G}
<1>1. \A T \in SUBSET S : IsFiniteSet(T) /\ Cardinality(T) \in Nat
  BY FS_Subset, FS_CardinalityType
<1>2. 0 \in Sized
  BY <1>1, FS_EmptySet
<1>3. ASSUME NEW n \in Sized PROVE n + 1 \in Sized
  <2> SUFFICES ASSUME NEW T \in SUBSET S, Cardinality(T) = n + 1 PROVE T \in G
    OBVIOUS
  <2>1. T # {}
    <3>1. n \in Nat /\ Cardinality({}) = 0
      BY FS_EmptySet
    <3> QED BY <3>1
  <2>2. PICK x \in T : TRUE
    BY <2>1
  <2>3. Cardinality(T \ {x}) = n
    BY <1>1, <2>2, FS_RemoveElement
  <2>4. T \ {x} \in SUBSET S /\ x \in S \ (T \ {x}) /\ (T \ {x}) \cup {x} = T
    OBVIOUS
  <2>5. T \ {x} \in G
    BY <2>3, <2>4
  <2> QED BY <2>4, <2>5
<1>4. Sized = Nat
  <2> HIDE DEF Sized
  <2>1. Sized \in SUBSET Nat
    BY DEF Sized
  <2> QED BY <1>2, <1>3, <2>1, NatSteps
<1> QED BY <1>1, <1>4

-----------------------------------------------------------------------------
(* The function that sums exists; it is built up by size.                  *)
LEMMA SumExists ==
  ASSUME NEW f, NEW S, IsFiniteSet(S)
  PROVE  \E g : IsSum(g, f, S)
<1> DEFINE Small(n) == {s \in SUBSET S : Cardinality(s) <= n}
           Sums(g, n) == g = [s \in Small(n) |->
                                IF s = {} THEN 0 ELSE f[Pick(s)] + g[s \ {Pick(s)}]]
           Summed == {n \in Nat : \E g : Sums(g, n)}
<1>1. \A s \in SUBSET S : IsFiniteSet(s) /\ Cardinality(s) \in Nat
  BY FS_Subset, FS_CardinalityType
<1>2. \A s \in SUBSET S : s # {} => Pick(s) \in s
  BY DEF Pick
<1>3. 0 \in Summed
  <2>1. \A s \in Small(0) : s = {}
    BY <1>1, FS_EmptySet
  <2> DEFINE g == [s \in Small(0) |-> 0]
  <2>2. Sums(g, 0)
    BY <2>1
  <2> QED BY <2>2
<1>4. ASSUME NEW n \in Summed PROVE n + 1 \in Summed
  <2>1. n \in Nat
    OBVIOUS
  <2>2. PICK g : Sums(g, n)
    OBVIOUS
  <2> DEFINE h == [s \in Small(n + 1) |->
                     IF s = {} THEN 0 ELSE f[Pick(s)] + g[s \ {Pick(s)}]]
  <2>3. ASSUME NEW s \in Small(n + 1), s # {}
        PROVE  s \ {Pick(s)} \in Small(n)
    <3>1. Cardinality(s \ {Pick(s)}) = Cardinality(s) - 1
      BY <1>1, <1>2, <2>3, FS_RemoveElement
    <3> QED BY <1>1, <2>1, <3>1
  <2>4. ASSUME NEW s \in Small(n) PROVE h[s] = g[s]
    <3>1. s \in Small(n + 1)
      BY <1>1, <2>1
    <3>2. h[s] = IF s = {} THEN 0 ELSE f[Pick(s)] + g[s \ {Pick(s)}]
      BY <3>1
    <3>3. g[s] = IF s = {} THEN 0 ELSE f[Pick(s)] + g[s \ {Pick(s)}]
      BY <2>2
    <3> QED BY <3>2, <3>3
  <2>5. Sums(h, n + 1)
    <3> HIDE DEF Small
    <3> QED BY <2>3, <2>4
  <2>6. n + 1 \in Nat
    BY <2>1
  <2> HIDE DEF h, Sums
  <2> QED BY <2>5, <2>6
<1>5. Summed = Nat
  <2>1. Summed \in SUBSET Nat
    OBVIOUS
  <2> HIDE DEF Summed
  <2> QED BY <1>3, <1>4, <2>1, NatSteps
<1>6. Cardinality(S) \in Summed
  <2> HIDE DEF Summed
  <2> QED BY <1>5, FS_CardinalityType
<1>7. PICK g : Sums(g, Cardinality(S))
  BY <1>6
<1>8. Small(Cardinality(S)) = SUBSET S
  BY FS_Subset
<1> QED BY <1>7, <1>8 DEF IsSum

(* It may take any element first.                                          *)
LEMMA SumAny ==
  ASSUME NEW f, NEW S, IsFiniteSet(S), \A x \in S : f[x] \in Int,
         NEW g, IsSum(g, f, S)
  PROVE  /\ g[{}] = 0
         /\ \A s \in SUBSET S : /\ g[s] \in Int
                               /\ \A x \in s : g[s] = f[x] + g[s \ {x}]
<1> DEFINE G == {s \in SUBSET S : g[s] \in Int /\ \A x \in s : g[s] = f[x] + g[s \ {x}]}
           Deep == {n \in Nat : \A s \in SUBSET S : Cardinality(s) <= n => s \in G}
<1>1. \A s \in SUBSET S : IsFiniteSet(s) /\ Cardinality(s) \in Nat
  BY FS_Subset, FS_CardinalityType
<1>2. \A s \in SUBSET S : s # {} => Pick(s) \in s
  BY DEF Pick
<1>3. \A s \in SUBSET S : g[s] = IF s = {} THEN 0 ELSE f[Pick(s)] + g[s \ {Pick(s)}]
  BY DEF IsSum
<1>4. g[{}] = 0 /\ {} \in G
  <2>1. g[{}] = 0
    BY <1>3
  <2> QED BY <2>1
<1>5. 0 \in Deep
  <2>1. \A s \in SUBSET S : Cardinality(s) <= 0 => s = {}
    BY <1>1, FS_EmptySet
  <2> HIDE DEF G
  <2> QED BY <1>4, <2>1
<1>6. ASSUME NEW n \in Deep PROVE n + 1 \in Deep
  <2>1. n \in Nat /\ \A s \in SUBSET S : Cardinality(s) <= n => s \in G
    OBVIOUS
  <2>2. ASSUME NEW s \in SUBSET S, Cardinality(s) <= n + 1 PROVE s \in G
    <3>1. CASE s = {}
      BY <1>4, <3>1
    <3>2. CASE s # {}
      <4> DEFINE c == Pick(s)
      <4>1. c \in s /\ g[s] = f[c] + g[s \ {c}]
        BY <1>2, <1>3, <3>2
      <4>2. \A x \in s : Cardinality(s \ {x}) = Cardinality(s) - 1
        BY <1>1, FS_RemoveElement
      <4>3. \A x \in s : s \ {x} \in G
        <5>1. \A x \in s : Cardinality(s \ {x}) <= n
          BY <1>1, <2>1, <2>2, <4>2
        <5>2. \A x \in s : s \ {x} \in SUBSET S
          OBVIOUS
        <5> HIDE DEF G
        <5> QED BY <2>1, <5>1, <5>2
      <4> HIDE DEF c
      <4>6. \A x \in s : /\ g[s \ {x}] \in Int
                          /\ \A y \in s \ {x} : g[s \ {x}] = f[y] + g[(s \ {x}) \ {y}]
        BY <4>3
      <4> HIDE DEF G
      <4>4. g[s] \in Int
        <5>1. f[c] \in Int /\ g[s \ {c}] \in Int
          BY <4>1, <4>6
        <5> QED BY <4>1, <5>1
      <4>5. ASSUME NEW x \in s PROVE g[s] = f[x] + g[s \ {x}]
        <5>1. CASE x = c
          BY <4>1, <5>1
        <5>2. CASE x # c
          <6>1. x \in s \ {c} /\ c \in s \ {x} /\ (s \ {c}) \ {x} = (s \ {x}) \ {c}
            BY <4>1, <5>2
          <6>2. g[s \ {c}] = f[x] + g[(s \ {c}) \ {x}]
            BY <4>1, <4>6, <6>1
          <6>3. g[s \ {x}] = f[c] + g[(s \ {x}) \ {c}]
            BY <4>6, <6>1
          <6>4. g[(s \ {c}) \ {x}] \in Int /\ f[x] \in Int /\ f[c] \in Int
            <7>1. s \ {c} \in SUBSET S /\ (s \ {c}) \ {x} \in SUBSET S
              OBVIOUS
            <7>2. Cardinality((s \ {c}) \ {x}) = Cardinality(s \ {c}) - 1
              BY <1>1, <6>1, <7>1, FS_RemoveElement
            <7>3. Cardinality((s \ {c}) \ {x}) <= n
              BY <1>1, <2>1, <2>2, <4>1, <4>2, <7>1, <7>2
            <7>4. (s \ {c}) \ {x} \in G
              BY <2>1, <7>1, <7>3
            <7>5. g[(s \ {c}) \ {x}] \in Int
              BY <7>4 DEF G
            <7> QED BY <4>1, <7>5
          <6> DEFINE t == g[(s \ {c}) \ {x}]
          <6>5. g[s] = f[c] + (f[x] + t) /\ g[s \ {x}] = f[c] + t
            BY <4>1, <6>1, <6>2, <6>3
          <6> HIDE DEF t
          <6>6. g[s] = f[x] + (f[c] + t)
            BY <6>4, <6>5 DEF t
          <6> QED BY <6>5, <6>6
        <5> QED BY <5>1, <5>2
      <4> QED BY <4>4, <4>5 DEF G
    <3> QED BY <3>1, <3>2
  <2>3. n + 1 \in Nat
    BY <2>1
  <2> HIDE DEF G
  <2> QED BY <2>2, <2>3
<1>7. Deep = Nat
  <2>1. Deep \in SUBSET Nat
    OBVIOUS
  <2> HIDE DEF Deep
  <2> QED BY <1>5, <1>6, <2>1, NatSteps
<1>8. ASSUME NEW s \in SUBSET S PROVE s \in G
  <2>1. Cardinality(s) \in Deep
    <3> HIDE DEF Deep
    <3> QED BY <1>1, <1>7
  <2> HIDE DEF G
  <2> QED BY <1>1, <2>1
<1> QED BY <1>4, <1>8

(* Two such functions agree where what they add up agrees.                 *)
LEMMA SumAgree ==
  ASSUME NEW f, NEW e, NEW S, NEW T, NEW g, NEW h, IsSum(g, f, S), IsSum(h, e, T),
         NEW U, U \subseteq S, U \subseteq T, IsFiniteSet(S), IsFiniteSet(T),
         \A x \in S : f[x] \in Int, \A x \in T : e[x] \in Int,
         \A x \in U : f[x] = e[x]
  PROVE  g[U] = h[U]
<1> DEFINE G == {s \in SUBSET U : g[s] = h[s]}
<1>1. IsFiniteSet(U)
  BY FS_Subset
<1>2. /\ g[{}] = 0 /\ \A s \in SUBSET S : \A x \in s : g[s] = f[x] + g[s \ {x}]
      /\ h[{}] = 0 /\ \A s \in SUBSET T : \A x \in s : h[s] = e[x] + h[s \ {x}]
  BY SumAny
<1>3. {} \in G
  BY <1>2
<1>4. ASSUME NEW s \in SUBSET U, NEW x \in U \ s, s \in G PROVE s \cup {x} \in G
  <2>1. s \cup {x} \in SUBSET S /\ s \cup {x} \in SUBSET T /\ (s \cup {x}) \ {x} = s
    OBVIOUS
  <2>2. g[s \cup {x}] = f[x] + g[s] /\ h[s \cup {x}] = e[x] + h[s]
    BY <1>2, <2>1
  <2> QED BY <1>4, <2>1, <2>2
<1>5. U \in G
  <2> HIDE DEF G
  <2> QED BY <1>1, <1>3, <1>4, SetSteps
<1> QED BY <1>5

-----------------------------------------------------------------------------
(* SumOver is what such a function returns.                                *)
LEMMA SumIs ==
  ASSUME NEW f, NEW S, IsFiniteSet(S)
  PROVE  \E g : IsSum(g, f, S) /\ SumOver(f, S) = g[S]
<1> DEFINE g == CHOOSE h : IsSum(h, f, S)
<1>1. IsSum(g, f, S)
  BY SumExists
<1>2. SumOver(f, S) = g[S]
  BY DEF SumOver, MapThenSumSet, MapThenFoldSet, IsSum, Pick
<1> QED BY <1>1, <1>2

(* The sum over no element, over one, and with an element left out.        *)
LEMMA SumEmpty ==
  ASSUME NEW f
  PROVE  SumOver(f, {}) = 0
<1>1. IsFiniteSet({})
  BY FS_EmptySet
<1>2. PICK g : IsSum(g, f, {}) /\ SumOver(f, {}) = g[{}]
  BY <1>1, SumIs
<1>3. {} \in SUBSET {}
  OBVIOUS
<1> QED BY <1>2, <1>3 DEF IsSum

LEMMA SumInt ==
  ASSUME NEW f, NEW S, IsFiniteSet(S), \A x \in S : f[x] \in Int
  PROVE  SumOver(f, S) \in Int
<1>1. PICK g : IsSum(g, f, S) /\ SumOver(f, S) = g[S]
  BY SumIs
<1>2. g[S] \in Int
  BY <1>1, SumAny
<1> QED BY <1>1, <1>2

LEMMA SumSame ==
  ASSUME NEW f, NEW e, NEW S, IsFiniteSet(S),
         \A x \in S : f[x] \in Int, \A x \in S : f[x] = e[x]
  PROVE  SumOver(f, S) = SumOver(e, S)
<1>1. PICK g : IsSum(g, f, S) /\ SumOver(f, S) = g[S]
  BY SumIs
<1>2. PICK h : IsSum(h, e, S) /\ SumOver(e, S) = h[S]
  BY SumIs
<1>3. g[S] = h[S]
  BY <1>1, <1>2, SumAgree
<1> QED BY <1>1, <1>2, <1>3

LEMMA SumWithout ==
  ASSUME NEW f, NEW S, IsFiniteSet(S), \A x \in S : f[x] \in Int, NEW x \in S
  PROVE  SumOver(f, S) = f[x] + SumOver(f, S \ {x})
<1>1. PICK g : IsSum(g, f, S) /\ SumOver(f, S) = g[S]
  BY SumIs
<1>2. IsFiniteSet(S \ {x})
  BY FS_Subset
<1>3. PICK h : IsSum(h, f, S \ {x}) /\ SumOver(f, S \ {x}) = h[S \ {x}]
  BY <1>2, SumIs
<1>4. g[S] = f[x] + g[S \ {x}]
  BY <1>1, SumAny
<1>5. g[S \ {x}] = h[S \ {x}]
  BY <1>1, <1>2, <1>3, SumAgree
<1> QED BY <1>1, <1>3, <1>4, <1>5

LEMMA SumWith ==
  ASSUME NEW f, NEW S, IsFiniteSet(S), NEW x, x \notin S,
         \A y \in S \cup {x} : f[y] \in Int
  PROVE  SumOver(f, S \cup {x}) = SumOver(f, S) + f[x]
<1>1. IsFiniteSet(S \cup {x}) /\ (S \cup {x}) \ {x} = S
  BY FS_AddElement
<1>2. SumOver(f, S \cup {x}) = f[x] + SumOver(f, S)
  BY <1>1, SumWithout
<1>3. SumOver(f, S) \in Int /\ f[x] \in Int
  BY SumInt
<1> QED BY <1>2, <1>3

(* One term changes.                                                       *)
LEMMA SumChange ==
  ASSUME NEW f, NEW e, NEW S, IsFiniteSet(S), NEW k \in S,
         \A x \in S : f[x] \in Int /\ e[x] \in Int,
         \A x \in S : x # k => e[x] = f[x]
  PROVE  SumOver(e, S) = SumOver(f, S) + (e[k] - f[k])
<1>1. IsFiniteSet(S \ {k})
  BY FS_Subset
<1>2. SumOver(f, S) = f[k] + SumOver(f, S \ {k}) /\ SumOver(e, S) = e[k] + SumOver(e, S \ {k})
  BY SumWithout
<1>3. SumOver(f, S \ {k}) = SumOver(e, S \ {k}) /\ SumOver(f, S \ {k}) \in Int
  BY <1>1, SumSame, SumInt
<1> QED BY <1>2, <1>3

LEMMA SumExcept ==
  ASSUME NEW S, IsFiniteSet(S), NEW f \in [S -> Int], NEW k \in S, NEW n \in Int
  PROVE  /\ SumOver(f, S) \in Int
         /\ SumOver([f EXCEPT ![k] = n], S) = SumOver(f, S) + (n - f[k])
<1> DEFINE e == [f EXCEPT ![k] = n]
<1>1. e[k] = n /\ \A x \in S : f[x] \in Int /\ e[x] \in Int /\ (x # k => e[x] = f[x])
  OBVIOUS
<1> HIDE DEF e
<1>2. SumOver(e, S) = SumOver(f, S) + (e[k] - f[k])
  BY <1>1, SumChange
<1>3. SumOver(f, S) \in Int
  BY <1>1, SumInt
<1> QED BY <1>1, <1>2, <1>3 DEF e

(* All terms are zero; none is negative; each is at most another.          *)
LEMMA SumZero ==
  ASSUME NEW f, NEW S, IsFiniteSet(S), \A x \in S : f[x] = 0
  PROVE  SumOver(f, S) = 0
<1> DEFINE G == {T \in SUBSET S : SumOver(f, T) = 0}
<1>1. {} \in G
  BY SumEmpty
<1>2. ASSUME NEW T \in SUBSET S, NEW x \in S \ T, T \in G PROVE T \cup {x} \in G
  <2>1. IsFiniteSet(T) /\ SumOver(f, T) = 0
    BY <1>2, FS_Subset
  <2>2. SumOver(f, T \cup {x}) = SumOver(f, T) + f[x]
    BY <2>1, SumWith
  <2> QED BY <2>1, <2>2
<1>3. S \in G
  <2> HIDE DEF G
  <2> QED BY <1>1, <1>2, SetSteps
<1> QED BY <1>3

LEMMA SumMonotone ==
  ASSUME NEW f, NEW e, NEW S, IsFiniteSet(S),
         \A x \in S : f[x] \in Int /\ e[x] \in Int /\ f[x] <= e[x]
  PROVE  SumOver(f, S) <= SumOver(e, S)
<1> DEFINE G == {T \in SUBSET S : SumOver(f, T) <= SumOver(e, T)}
<1>1. {} \in G
  BY SumEmpty
<1>2. ASSUME NEW T \in SUBSET S, NEW x \in S \ T, T \in G PROVE T \cup {x} \in G
  <2>1. IsFiniteSet(T) /\ SumOver(f, T) <= SumOver(e, T)
    BY <1>2, FS_Subset
  <2>2. SumOver(f, T) \in Int /\ SumOver(e, T) \in Int
    BY <2>1, SumInt
  <2>3. /\ SumOver(f, T \cup {x}) = SumOver(f, T) + f[x]
        /\ SumOver(e, T \cup {x}) = SumOver(e, T) + e[x]
    BY <2>1, SumWith
  <2>4. f[x] \in Int /\ e[x] \in Int /\ f[x] <= e[x]
    OBVIOUS
  <2>5. SumOver(f, T \cup {x}) <= SumOver(e, T \cup {x})
    BY <2>1, <2>2, <2>3, <2>4
  <2> QED BY <2>5
<1>3. S \in G
  <2> HIDE DEF G
  <2> QED BY <1>1, <1>2, SetSteps
<1> QED BY <1>3

LEMMA SumNat ==
  ASSUME NEW f, NEW S, IsFiniteSet(S), \A x \in S : f[x] \in Nat
  PROVE  SumOver(f, S) \in Nat
<1> DEFINE none == [x \in S |-> 0]
<1>1. SumOver(none, S) = 0
  BY SumZero
<1>2. SumOver(none, S) <= SumOver(f, S)
  BY SumMonotone
<1>3. SumOver(f, S) \in Int
  BY SumInt
<1> QED BY <1>1, <1>2, <1>3

LEMMA SumSubset ==
  ASSUME NEW f, NEW S, IsFiniteSet(S), \A x \in S : f[x] \in Nat, NEW T \in SUBSET S
  PROVE  IsFiniteSet(T) /\ SumOver(f, T) \in Nat /\ SumOver(f, T) <= SumOver(f, S)
<1> DEFINE G == {U \in SUBSET (S \ T) : SumOver(f, T) <= SumOver(f, T \cup U)}
<1>1. IsFiniteSet(T) /\ IsFiniteSet(S \ T) /\ SumOver(f, T) \in Nat
  BY FS_Subset, SumNat
<1>2. {} \in G
  <2>1. T \cup {} = T
    OBVIOUS
  <2> QED BY <1>1, <2>1
<1>3. ASSUME NEW U \in SUBSET (S \ T), NEW x \in (S \ T) \ U, U \in G PROVE U \cup {x} \in G
  <2>1. IsFiniteSet(T \cup U) /\ x \notin T \cup U /\ T \cup (U \cup {x}) = (T \cup U) \cup {x}
    BY FS_Subset
  <2>2. SumOver(f, T \cup (U \cup {x})) = SumOver(f, T \cup U) + f[x]
    <3>1. \A y \in (T \cup U) \cup {x} : f[y] \in Int
      OBVIOUS
    <3> QED BY <2>1, <3>1, SumWith
  <2>3. SumOver(f, T \cup U) \in Nat /\ f[x] \in Nat
    BY <2>1, SumNat
  <2> QED BY <1>1, <1>3, <2>2, <2>3
<1>4. S \ T \in G
  <2> HIDE DEF G
  <2> QED BY <1>1, <1>2, <1>3, SetSteps
<1>5. T \cup (S \ T) = S
  OBVIOUS
<1> QED BY <1>1, <1>4, <1>5

(* Sums of sums, and of differences.                                       *)
LEMMA SumPlus ==
  ASSUME NEW f, NEW e, NEW h, NEW S, IsFiniteSet(S),
         \A x \in S : f[x] \in Int /\ e[x] \in Int /\ h[x] = f[x] + e[x]
  PROVE  SumOver(h, S) = SumOver(f, S) + SumOver(e, S)
<1> DEFINE G == {T \in SUBSET S : SumOver(h, T) = SumOver(f, T) + SumOver(e, T)}
<1>1. {} \in G
  BY SumEmpty
<1>2. ASSUME NEW T \in SUBSET S, NEW x \in S \ T, T \in G PROVE T \cup {x} \in G
  <2>1. IsFiniteSet(T) /\ SumOver(h, T) = SumOver(f, T) + SumOver(e, T)
    BY <1>2, FS_Subset
  <2>2. SumOver(f, T) \in Int /\ SumOver(e, T) \in Int
    BY <2>1, SumInt
  <2>3. /\ SumOver(f, T \cup {x}) = SumOver(f, T) + f[x]
        /\ SumOver(e, T \cup {x}) = SumOver(e, T) + e[x]
    BY <2>1, SumWith
  <2>4. f[x] \in Int /\ e[x] \in Int /\ h[x] = f[x] + e[x]
    OBVIOUS
  <2>5. \A y \in T \cup {x} : h[y] \in Int
    OBVIOUS
  <2>6. SumOver(h, T \cup {x}) = SumOver(h, T) + h[x]
    BY <2>1, <2>5, SumWith
  <2>7. SumOver(h, T \cup {x}) = SumOver(f, T \cup {x}) + SumOver(e, T \cup {x})
    BY <2>1, <2>2, <2>3, <2>4, <2>6
  <2> QED BY <2>7
<1>3. S \in G
  <2> HIDE DEF G
  <2> QED BY <1>1, <1>2, SetSteps
<1> QED BY <1>3

LEMMA SumSplit ==
  ASSUME NEW f, NEW S, IsFiniteSet(S), \A x \in S : f[x] \in Int, NEW U \in SUBSET S
  PROVE  SumOver(f, S) = SumOver(f, U) + SumOver(f, S \ U)
<1> DEFINE G == {T \in SUBSET U : SumOver(f, S) = SumOver(f, T) + SumOver(f, S \ T)}
<1>1. {} \in G
  <2>1. SumOver(f, {}) = 0 /\ S \ {} = S /\ SumOver(f, S) \in Int
    BY SumEmpty, SumInt
  <2> QED BY <2>1
<1>2. ASSUME NEW T \in SUBSET U, NEW x \in U \ T, T \in G PROVE T \cup {x} \in G
  <2> DEFINE V == S \ T
             W == S \ (T \cup {x})
  <2>1. IsFiniteSet(T) /\ IsFiniteSet(V) /\ IsFiniteSet(W)
    BY FS_Subset
  <2>2. x \in V /\ V \ {x} = W /\ V \subseteq S /\ W \subseteq S /\ T \subseteq S /\ x \in S
    OBVIOUS
  <2>3. SumOver(f, S) = SumOver(f, T) + SumOver(f, V)
    BY <1>2
  <2> HIDE DEF V, W
  <2>4. SumOver(f, V) = f[x] + SumOver(f, W)
    BY <2>1, <2>2, SumWithout
  <2>5. SumOver(f, T \cup {x}) = SumOver(f, T) + f[x]
    BY <2>1, <2>2, SumWith
  <2>6. SumOver(f, T) \in Int /\ SumOver(f, W) \in Int /\ f[x] \in Int
    BY <2>1, <2>2, SumInt
  <2>7. SumOver(f, S) = SumOver(f, T \cup {x}) + SumOver(f, W)
    BY <2>3, <2>4, <2>5, <2>6
  <2> QED BY <2>7 DEF W
<1>3. U \in G
  <2>1. IsFiniteSet(U)
    BY FS_Subset
  <2> HIDE DEF G
  <2> QED BY <1>1, <1>2, <2>1, SetSteps
<1> QED BY <1>3

LEMMA SumConstant ==
  ASSUME NEW f, NEW S, IsFiniteSet(S), NEW c \in Int, \A x \in S : f[x] = c
  PROVE  SumOver(f, S) = Cardinality(S) * c
<1> DEFINE G == {T \in SUBSET S : SumOver(f, T) = Cardinality(T) * c}
<1>1. {} \in G
  <2>1. SumOver(f, {}) = 0 /\ Cardinality({}) = 0 /\ 0 * c = 0
    BY SumEmpty, FS_EmptySet
  <2> QED BY <2>1
<1>2. ASSUME NEW T \in SUBSET S, NEW x \in S \ T, T \in G PROVE T \cup {x} \in G
  <2>1. IsFiniteSet(T) /\ Cardinality(T) \in Nat
    BY FS_Subset, FS_CardinalityType
  <2>2. Cardinality(T \cup {x}) = Cardinality(T) + 1
    BY <2>1, FS_AddElement
  <2>3. SumOver(f, T \cup {x}) = SumOver(f, T) + f[x]
    <3>1. x \notin T /\ \A y \in T \cup {x} : f[y] \in Int
      OBVIOUS
    <3> QED BY <2>1, <3>1, SumWith
  <2>4. f[x] = c /\ SumOver(f, T) = Cardinality(T) * c
    BY <1>2
  <2>5. (Cardinality(T) + 1) * c = Cardinality(T) * c + c
    BY <2>1
  <2> QED BY <2>2, <2>3, <2>4, <2>5
<1> HIDE DEF G
<1>3. S \in G
  BY <1>1, <1>2, SetSteps
<1> QED BY <1>3 DEF G

LEMMA MinIs ==
  ASSUME NEW S \in SUBSET Nat, S # {}
  PROVE  Min(S) \in S /\ \A y \in S : Min(S) <= y
<1>1. \E x \in S : \A y \in S : x <= y
  BY LeastNat
<1> QED BY <1>1 DEF Min

LEMMA MaxIs ==
  ASSUME NEW S \in SUBSET Int, IsFiniteSet(S), S # {}
  PROVE  Max(S) \in S /\ \A y \in S : y <= Max(S)
<1> DEFINE G == {T \in SUBSET S : T = {} \/ \E x \in T : \A y \in T : x >= y}
<1>1. {} \in G
  OBVIOUS
<1>2. ASSUME NEW T \in SUBSET S, NEW x \in S \ T, T \in G PROVE T \cup {x} \in G
  <2>1. CASE T = {}
    BY <2>1
  <2>2. CASE T # {}
    <3>1. PICK m \in T : \A y \in T : m >= y
      BY <1>2, <2>2
    <3>2. CASE m >= x
      BY <3>1, <3>2
    <3>3. CASE x > m
      <4>1. \A y \in T \cup {x} : x >= y
        BY <3>1, <3>3
      <4> QED BY <4>1
    <3> QED BY <3>1, <3>2, <3>3
  <2> QED BY <2>1, <2>2
<1> HIDE DEF G
<1>3. S \in G
  BY <1>1, <1>2, SetSteps
<1>4. \E x \in S : \A y \in S : x >= y
  BY <1>3 DEF G
<1>5. Max(S) \in S /\ \A y \in S : Max(S) >= y
  BY <1>4 DEF Max
<1> QED BY <1>5

LEMMA MaxOfTwo ==
  ASSUME NEW a \in Int, NEW b \in Int
  PROVE  Max({a, b}) = IF b <= a THEN a ELSE b
<1>1. \A x \in {a, b} : (\A y \in {a, b} : x >= y) <=> x = IF b <= a THEN a ELSE b
  OBVIOUS
<1> QED BY <1>1 DEF Max
=============================================================================
