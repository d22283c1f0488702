----------------------------- MODULE SumTheorems -----------------------------
(***************************************************************************)
(* Facts about the sum of a function over a finite set, as the operators   *)
(* FoldFunction(+, 0, f) and SumFunctionOnSet(f, S) of Functions give it.  *)
(* They are by induction on the size of the set, which takes the           *)
(* well-foundedness of the naturals (NatLessThanWellFounded, WFMin) for    *)
(* sets instead of the induction rules for predicates.                     *)
(***************************************************************************)
EXTENDS Integers, FiniteSets, Functions, WellFoundedInduction, FiniteSetTheorems,
        TLAPS

LEMMA LeastElement ==
  ASSUME NEW T, T \subseteq Nat, T # {}
  PROVE  \E m \in T : \A n \in T : m <= n
<1>1. \E m \in T : \A n \in T : ~(<<n, m>> \in OpToRel(<,Nat))
  BY NatLessThanWellFounded, WFMin, Zenon
<1>2. PICK m \in T : \A n \in T : ~(<<n, m>> \in {p \in Nat \X Nat : p[1] < p[2]})
  BY <1>1, Zenon DEF OpToRel
<1>3. ASSUME NEW n \in T PROVE ~(n < m)
  BY <1>2, <1>3
<1>4. QED
  BY <1>3

(* Induction, for a set of naturals.                                       *)
LEMMA AllNaturals ==
  ASSUME NEW T, 0 \in T, \A n \in Nat : n \in T => n + 1 \in T
  PROVE  Nat \subseteq T
<1>1. SUFFICES ASSUME Nat \ T # {} PROVE FALSE
  OBVIOUS
<1>2. PICK m \in Nat \ T : \A n \in Nat \ T : m <= n
  BY <1>1, LeastElement
<1>3. m # 0 /\ m - 1 \in Nat /\ m - 1 \in T
  BY <1>2
<1>4. QED
  BY <1>2, <1>3

(* Induction on the size of the subsets of a finite set S: C is the set of *)
(* those for which something holds.                                        *)
LEMMA AllSubsets ==
  ASSUME NEW S, IsFiniteSet(S), NEW C, {} \in C,
         \A s \in SUBSET S : s # {} /\ (\A x \in s : s \ {x} \in C) => s \in C
  PROVE  SUBSET S \subseteq C
<1> DEFINE T == {n \in Nat : \A s \in SUBSET S : Cardinality(s) = n => s \in C}
<1>1. \A s \in SUBSET S : IsFiniteSet(s) /\ Cardinality(s) \in Nat
  BY FS_Subset, FS_CardinalityType
<1>2. 0 \in T
  <2>1. \A s \in SUBSET S : Cardinality(s) = 0 => s = {}
    BY <1>1, FS_EmptySet
  <2>2. QED
    BY <2>1
<1>3. ASSUME NEW n \in Nat, n \in T PROVE n + 1 \in T
  <2>1. ASSUME NEW s \in SUBSET S, Cardinality(s) = n + 1 PROVE s \in C
    <3>1. s # {}
      <4>1. Cardinality({}) # n + 1
        BY FS_EmptySet
      <4>2. QED
        BY <2>1, <4>1
    <3>2. ASSUME NEW x \in s PROVE s \ {x} \in C
      <4>1. Cardinality(s \ {x}) = Cardinality(s) - 1
        BY <1>1, FS_RemoveElement
      <4>2. s \ {x} \in SUBSET S /\ Cardinality(s \ {x}) = n
        BY <2>1, <4>1
      <4>3. QED
        BY <1>3, <4>2
    <3>3. QED
      BY <3>1, <3>2
  <2>2. QED
    BY <2>1
<1>4. Nat \subseteq T
  <2> HIDE DEF T
  <2>1. QED
    BY <1>2, <1>3, AllNaturals
<1>5. QED
  BY <1>1, <1>4

-----------------------------------------------------------------------------
(* What the folds compute.                                                 *)

Picked(s) == CHOOSE x \in s : TRUE

FoldStep(f, h, s) == IF s = {} THEN 0 ELSE f[Picked(s)] + h[s \ {Picked(s)}]

IsIteration(h, f, S) == h = [s \in SUBSET S |-> FoldStep(f, h, s)]

LEMMA PickedIn == ASSUME NEW s, s # {} PROVE Picked(s) \in s
  BY DEF Picked

LEMMA SumIs ==
  ASSUME NEW f, NEW S
  PROVE  SumFunctionOnSet(f, S) = (CHOOSE h : IsIteration(h, f, S))[S]
  BY DEF SumFunctionOnSet, FoldFunctionOnSet, MapThenFoldSet, IsIteration, FoldStep, Picked

LEMMA FoldIsSum ==
  ASSUME NEW f
  PROVE  FoldFunction(+,0,f) = SumFunctionOnSet(f, DOMAIN f)
  BY DEF FoldFunction, SumFunctionOnSet

(* There is such a function: one for the subsets of n elements extends to  *)
(* those of n + 1.                                                         *)
LEMMA IterationExists ==
  ASSUME NEW f, NEW S, IsFiniteSet(S)
  PROVE  \E h : IsIteration(h, f, S)
<1> DEFINE Small(n) == {s \in SUBSET S : Cardinality(s) <= n}
           Fits(h, n) == h = [s \in Small(n) |-> FoldStep(f, h, s)]
           T == {n \in Nat : \E h : Fits(h, n)}
<1>1. \A s \in SUBSET S : IsFiniteSet(s) /\ Cardinality(s) \in Nat
  BY FS_Subset, FS_CardinalityType
<1>2. 0 \in T
  <2> DEFINE h == [s \in Small(0) |-> 0]
  <2>1. \A s \in Small(0) : s = {}
    BY <1>1, FS_EmptySet
  <2>2. Fits(h, 0)
    BY <2>1 DEF FoldStep
  <2>3. QED
    BY <2>2
<1>3. ASSUME NEW n \in Nat, n \in T PROVE n + 1 \in T
  <2>1. PICK g : Fits(g, n)
    BY <1>3
  <2> DEFINE h == [s \in Small(n + 1) |-> FoldStep(f, g, s)]
  <2>2. \A s \in Small(n) : s \in Small(n + 1) /\ g[s] = FoldStep(f, g, s) /\ h[s] = g[s]
    BY <1>1, <2>1
  <2>3. ASSUME NEW s \in Small(n + 1), s # {} PROVE s \ {Picked(s)} \in Small(n)
    <3>1. Cardinality(s \ {Picked(s)}) = Cardinality(s) - 1
      BY <1>1, <2>3, FS_RemoveElement, PickedIn
    <3>2. QED
      BY <1>1, <3>1
  <2>4. ASSUME NEW s \in Small(n + 1) PROVE FoldStep(f, g, s) = FoldStep(f, h, s)
    BY <2>2, <2>3 DEF FoldStep
  <2>5. Fits(h, n + 1)
    BY <2>4
  <2>6. \E k : Fits(k, n + 1)
    BY <2>5
  <2> HIDE DEF h, Fits
  <2>7. n + 1 \in Nat
    OBVIOUS
  <2>8. QED
    BY <2>6, <2>7
<1>4. Nat \subseteq T
  <2> HIDE DEF T
  <2>1. QED
    BY <1>2, <1>3, AllNaturals
<1>5. Small(Cardinality(S)) = SUBSET S /\ Cardinality(S) \in Nat
  BY <1>1, FS_Subset
<1>6. QED
  BY <1>4, <1>5 DEF IsIteration

LEMMA IterationsAgree ==
  ASSUME NEW f, NEW S, IsFiniteSet(S), NEW T \in SUBSET S,
         NEW g, IsIteration(g, f, S), NEW h, IsIteration(h, f, T)
  PROVE  g[T] = h[T]
<1> DEFINE C == {s \in SUBSET T : g[s] = h[s]}
<1>1. IsFiniteSet(T)
  BY FS_Subset
<1>2. \A s \in SUBSET T : g[s] = FoldStep(f, g, s) /\ h[s] = FoldStep(f, h, s)
  BY DEF IsIteration
<1>3. {} \in C
  BY <1>2 DEF FoldStep
<1>4. ASSUME NEW s \in SUBSET T, s # {}, \A x \in s : s \ {x} \in C PROVE s \in C
  <2>1. s \ {Picked(s)} \in C
    BY <1>4, PickedIn
  <2>2. QED
    BY <1>2, <1>4, <2>1 DEF FoldStep
<1>5. SUBSET T \subseteq C
  <2> HIDE DEF C
  <2>1. QED
    BY <1>1, <1>3, <1>4, AllSubsets
<1>6. QED
  BY <1>5

-----------------------------------------------------------------------------
(* Sums.                                                                   *)

LEMMA SumOfNothing == ASSUME NEW f PROVE SumFunctionOnSet(f, {}) = 0
<1>1. \E h : IsIteration(h, f, {})
  BY IterationExists, FS_EmptySet
<1>2. \A h : IsIteration(h, f, {}) => h[{}] = 0
  BY DEF IsIteration, FoldStep
<1>3. IsIteration(CHOOSE h : IsIteration(h, f, {}), f, {})
  BY <1>1
<1>4. QED
  BY <1>2, <1>3, SumIs

(* The sum takes one element after the other.                              *)
LEMMA SumOfPicked ==
  ASSUME NEW f, NEW S, IsFiniteSet(S), S # {}
  PROVE  SumFunctionOnSet(f, S) =
           f[Picked(S)] + SumFunctionOnSet(f, S \ {Picked(S)})
<1> DEFINE R == S \ {Picked(S)}
           g == CHOOSE h : IsIteration(h, f, S)
           k == CHOOSE h : IsIteration(h, f, R)
<1>1. IsFiniteSet(R) /\ R \in SUBSET S
  BY FS_RemoveElement
<1>2. IsIteration(g, f, S) /\ IsIteration(k, f, R)
  <2>1. (\E h : IsIteration(h, f, S)) /\ (\E h : IsIteration(h, f, R))
    BY <1>1, IterationExists
  <2>2. QED
    BY <2>1
<1>3. SumFunctionOnSet(f, S) = g[S] /\ SumFunctionOnSet(f, R) = k[R]
  BY SumIs
<1> HIDE DEF g, k
<1>4. g[S] = f[Picked(S)] + g[R]
  BY <1>2 DEF IsIteration, FoldStep
<1> HIDE DEF R
<1>5. g[R] = k[R]
  BY <1>1, <1>2, IterationsAgree
<1>6. QED
  BY <1>3, <1>4, <1>5 DEF R

LEMMA SumIsInt ==
  ASSUME NEW f, NEW S, IsFiniteSet(S), \A x \in S : f[x] \in Int
  PROVE  SumFunctionOnSet(f, S) \in Int
<1> DEFINE C == {s \in SUBSET S : SumFunctionOnSet(f, s) \in Int}
<1>1. {} \in C
  BY SumOfNothing
<1>2. ASSUME NEW s \in SUBSET S, s # {}, \A x \in s : s \ {x} \in C PROVE s \in C
  <2>1. IsFiniteSet(s) /\ Picked(s) \in s
    BY <1>2, FS_Subset, PickedIn
  <2>2. SumFunctionOnSet(f, s \ {Picked(s)}) \in Int /\ f[Picked(s)] \in Int
    BY <1>2, <2>1
  <2>3. QED
    BY <1>2, <2>1, <2>2, SumOfPicked
<1> HIDE DEF C
<1>3. S \in C
  BY <1>1, <1>2, AllSubsets
<1>4. QED
  BY <1>3 DEF C

(* An element can be taken out, whichever it is.                           *)
LEMMA SumTakesOut ==
  ASSUME NEW f, NEW S, IsFiniteSet(S), \A x \in S : f[x] \in Int, NEW x \in S
  PROVE  SumFunctionOnSet(f, S) = f[x] + SumFunctionOnSet(f, S \ {x})
<1> DEFINE Sum(s) == SumFunctionOnSet(f, s)
           C == {s \in SUBSET S : \A y \in s : Sum(s) = f[y] + Sum(s \ {y})}
<1>1. {} \in C
  OBVIOUS
<1>2. \A s \in SUBSET S : IsFiniteSet(s) /\ Sum(s) \in Int
  BY FS_Subset, SumIsInt
<1>3. \A s \in SUBSET S : s # {} => Picked(s) \in s /\ Sum(s) = f[Picked(s)] + Sum(s \ {Picked(s)})
  BY <1>2, SumOfPicked, PickedIn
<1> HIDE DEF Sum, C
<1>4. ASSUME NEW s \in SUBSET S, s # {}, \A y \in s : s \ {y} \in C PROVE s \in C
  <2> DEFINE p == Picked(s)
  <2>1. p \in s /\ Sum(s) = f[p] + Sum(s \ {p})
    BY <1>3, <1>4
  <2> HIDE DEF p
  <2>2. ASSUME NEW y \in s, y # p PROVE Sum(s) = f[y] + Sum(s \ {y})
    <3> DEFINE r == s \ {y, p}
    <3>1. (s \ {p}) \ {y} = r /\ (s \ {y}) \ {p} = r /\ r \in SUBSET S
      OBVIOUS
    <3> HIDE DEF r
    <3>2. Sum(s \ {p}) = f[y] + Sum(r)
      <4>1. Sum(s \ {p}) = f[y] + Sum((s \ {p}) \ {y})
        BY <1>4, <2>1, <2>2 DEF C
      <4>2. QED
        BY <3>1, <4>1
    <3>3. Sum(s \ {y}) = f[p] + Sum(r)
      <4>1. Sum(s \ {y}) = f[p] + Sum((s \ {y}) \ {p})
        BY <1>4, <2>1, <2>2 DEF C
      <4>2. QED
        BY <3>1, <4>1
    <3>4. f[y] \in Int /\ f[p] \in Int /\ Sum(r) \in Int
      BY <1>2, <2>1, <3>1
    <3>5. Sum(s) = f[p] + (f[y] + Sum(r))
      BY <2>1, <3>2
    <3>6. QED
      BY <3>3, <3>4, <3>5
  <2>3. QED
    BY <2>1, <2>2 DEF C
<1>5. S \in C
  BY <1>1, <1>4, AllSubsets
<1>6. QED
  BY <1>5 DEF C, Sum

LEMMA SumTakesIn ==
  ASSUME NEW f, NEW S, IsFiniteSet(S), \A x \in S : f[x] \in Int,
         NEW x, x \notin S, f[x] \in Int
  PROVE  SumFunctionOnSet(f, S \cup {x}) = f[x] + SumFunctionOnSet(f, S)
<1>1. IsFiniteSet(S \cup {x}) /\ (S \cup {x}) \ {x} = S
  BY FS_AddElement
<1>2. QED
  BY <1>1, SumTakesOut

(* Only the values on the set matter.                                      *)
LEMMA SumOfSame ==
  ASSUME NEW f, NEW g, NEW S, IsFiniteSet(S), \A x \in S : f[x] = g[x]
  PROVE  SumFunctionOnSet(f, S) = SumFunctionOnSet(g, S)
<1> DEFINE C == {s \in SUBSET S : SumFunctionOnSet(f, s) = SumFunctionOnSet(g, s)}
<1>1. {} \in C
  BY SumOfNothing
<1>2. ASSUME NEW s \in SUBSET S, s # {}, \A x \in s : s \ {x} \in C PROVE s \in C
  <2>1. IsFiniteSet(s) /\ Picked(s) \in s
    BY <1>2, FS_Subset, PickedIn
  <2>2. /\ SumFunctionOnSet(f, s \ {Picked(s)}) = SumFunctionOnSet(g, s \ {Picked(s)})
        /\ f[Picked(s)] = g[Picked(s)]
    BY <1>2, <2>1
  <2>3. QED
    BY <1>2, <2>1, <2>2, SumOfPicked
<1> HIDE DEF C
<1>3. S \in C
  BY <1>1, <1>2, AllSubsets
<1>4. QED
  BY <1>3 DEF C

(* The sum moves with the one value that changes.                          *)
LEMMA SumOfChanged ==
  ASSUME NEW f, NEW g, NEW S, IsFiniteSet(S), NEW x \in S,
         \A y \in S : f[y] \in Int, g[x] \in Int,
         \A y \in S : y # x => f[y] = g[y]
  PROVE  SumFunctionOnSet(g, S) = SumFunctionOnSet(f, S) - f[x] + g[x]
<1> DEFINE R == S \ {x}
<1>1. IsFiniteSet(R) /\ \A y \in S : g[y] \in Int
  BY FS_RemoveElement
<1>2. SumFunctionOnSet(f, S) = f[x] + SumFunctionOnSet(f, R)
  BY SumTakesOut
<1>3. SumFunctionOnSet(g, S) = g[x] + SumFunctionOnSet(g, R)
  BY <1>1, SumTakesOut
<1>4. SumFunctionOnSet(f, R) = SumFunctionOnSet(g, R)
  BY <1>1, SumOfSame
<1>5. SumFunctionOnSet(f, R) \in Int /\ f[x] \in Int
  BY <1>1, SumIsInt
<1> HIDE DEF R
<1>6. QED
  BY <1>2, <1>3, <1>4, <1>5

LEMMA SumIsNat ==
  ASSUME NEW f, NEW S, IsFiniteSet(S), \A x \in S : f[x] \in Nat
  PROVE  SumFunctionOnSet(f, S) \in Nat
<1> DEFINE C == {s \in SUBSET S : SumFunctionOnSet(f, s) \in Nat}
<1>1. {} \in C
  BY SumOfNothing
<1>2. ASSUME NEW s \in SUBSET S, s # {}, \A x \in s : s \ {x} \in C PROVE s \in C
  <2>1. IsFiniteSet(s) /\ Picked(s) \in s
    BY <1>2, FS_Subset, PickedIn
  <2>2. SumFunctionOnSet(f, s \ {Picked(s)}) \in Nat /\ f[Picked(s)] \in Nat
    BY <1>2, <2>1
  <2>3. QED
    BY <1>2, <2>1, <2>2, SumOfPicked
<1> HIDE DEF C
<1>3. S \in C
  BY <1>1, <1>2, AllSubsets
<1>4. QED
  BY <1>3 DEF C

(* One value is at most the sum of all, where none is negative.            *)
LEMMA SumHasParts ==
  ASSUME NEW f, NEW S, IsFiniteSet(S), \A x \in S : f[x] \in Nat, NEW x \in S
  PROVE  f[x] <= SumFunctionOnSet(f, S)
<1>1. IsFiniteSet(S \ {x})
  BY FS_RemoveElement
<1>2. SumFunctionOnSet(f, S \ {x}) \in Nat
  BY <1>1, SumIsNat
<1>3. SumFunctionOnSet(f, S) = f[x] + SumFunctionOnSet(f, S \ {x})
  BY SumTakesOut
<1>4. QED
  BY <1>2, <1>3

LEMMA SumOfZeros ==
  ASSUME NEW f, NEW S, IsFiniteSet(S), \A x \in S : f[x] = 0
  PROVE  SumFunctionOnSet(f, S) = 0
<1> DEFINE C == {s \in SUBSET S : SumFunctionOnSet(f, s) = 0}
<1>1. {} \in C
  BY SumOfNothing
<1>2. ASSUME NEW s \in SUBSET S, s # {}, \A x \in s : s \ {x} \in C PROVE s \in C
  <2>1. IsFiniteSet(s) /\ Picked(s) \in s
    BY <1>2, FS_Subset, PickedIn
  <2>2. SumFunctionOnSet(f, s \ {Picked(s)}) = 0 /\ f[Picked(s)] = 0
    BY <1>2, <2>1
  <2>3. QED
    BY <1>2, <2>1, <2>2, SumOfPicked
<1> HIDE DEF C
<1>3. S \in C
  BY <1>1, <1>2, AllSubsets
<1>4. QED
  BY <1>3 DEF C

(* A part can be taken out.                                                *)
LEMMA SumSplits ==
  ASSUME NEW f, NEW S, IsFiniteSet(S), \A x \in S : f[x] \in Int, NEW D \in SUBSET S
  PROVE  SumFunctionOnSet(f, S) = SumFunctionOnSet(f, D) + SumFunctionOnSet(f, S \ D)
<1> DEFINE Sum(s) == SumFunctionOnSet(f, s)
           C == {s \in SUBSET S : Sum(S) = Sum(s) + Sum(S \ s)}
<1>1. \A s \in SUBSET S : IsFiniteSet(s) /\ Sum(s) \in Int
  BY FS_Subset, SumIsInt
<1>2. ASSUME NEW s \in SUBSET S, NEW x \in s PROVE Sum(s) = f[x] + Sum(s \ {x})
  <2>1. IsFiniteSet(s) /\ \A y \in s : f[y] \in Int
    BY <1>1
  <2> HIDE DEF Sum
  <2>2. QED
    BY <2>1, SumTakesOut DEF Sum
<1>3. {} \in C
  <2>1. Sum({}) = 0 /\ S \ {} = S /\ Sum(S) \in Int
    BY <1>1, SumOfNothing
  <2>2. QED
    BY <2>1
<1> HIDE DEF Sum
<1>4. ASSUME NEW s \in SUBSET S, s # {}, \A x \in s : s \ {x} \in C PROVE s \in C
  <2>1. PICK x \in s : TRUE
    BY <1>4
  <2> DEFINE r == s \ {x}
  <2>2. Sum(S) = Sum(r) + Sum(S \ r)
    BY <1>4, <2>1
  <2>3. (S \ r) \ {x} = S \ s /\ x \in S \ r /\ S \ r \in SUBSET S /\ r \in SUBSET S
    BY <2>1
  <2> HIDE DEF r
  <2>4. Sum(S \ r) = f[x] + Sum(S \ s)
    BY <1>2, <2>3
  <2>5. Sum(s) = f[x] + Sum(r)
    BY <1>2, <2>1 DEF r
  <2>6. f[x] \in Int /\ Sum(r) \in Int /\ Sum(S \ s) \in Int
    BY <1>1, <2>1, <2>3
  <2>7. Sum(S) = Sum(s) + Sum(S \ s)
    BY <2>2, <2>4, <2>5, <2>6
  <2>8. QED
    BY <2>7
<1> HIDE DEF C
<1>5. IsFiniteSet(D)
  BY FS_Subset
<1>6. \A s \in SUBSET D : s # {} /\ (\A x \in s : s \ {x} \in C) => s \in C
  BY <1>4
<1>7. D \in C
  BY <1>3, <1>5, <1>6, AllSubsets
<1>8. QED
  BY <1>7 DEF C, Sum

(* A sum of sums.                                                          *)
LEMMA SumOfSums ==
  ASSUME NEW f, NEW g, NEW h, NEW S, IsFiniteSet(S),
         \A x \in S : f[x] \in Int /\ g[x] \in Int /\ h[x] = f[x] + g[x]
  PROVE  SumFunctionOnSet(h, S) = SumFunctionOnSet(f, S) + SumFunctionOnSet(g, S)
<1> DEFINE C == {s \in SUBSET S : SumFunctionOnSet(h, s) =
                                  SumFunctionOnSet(f, s) + SumFunctionOnSet(g, s)}
<1>1. {} \in C
  BY SumOfNothing
<1>2. ASSUME NEW s \in SUBSET S, s # {}, \A x \in s : s \ {x} \in C PROVE s \in C
  <2> DEFINE x == Picked(s)
             r == s \ {x}
  <2>1. IsFiniteSet(s) /\ x \in s /\ x \in S
    BY <1>2, FS_Subset, PickedIn
  <2>2. IsFiniteSet(r) /\ r \in SUBSET S
    BY <2>1, FS_RemoveElement
  <2>3. SumFunctionOnSet(h, r) = SumFunctionOnSet(f, r) + SumFunctionOnSet(g, r)
    BY <1>2, <2>1
  <2>4. SumFunctionOnSet(f, r) \in Int /\ SumFunctionOnSet(g, r) \in Int
    BY <2>2, SumIsInt
  <2>5. /\ SumFunctionOnSet(f, s) = f[x] + SumFunctionOnSet(f, r)
        /\ SumFunctionOnSet(g, s) = g[x] + SumFunctionOnSet(g, r)
        /\ SumFunctionOnSet(h, s) = h[x] + SumFunctionOnSet(h, r)
    BY <1>2, <2>1, SumOfPicked
  <2>6. f[x] \in Int /\ g[x] \in Int /\ h[x] = f[x] + g[x]
    BY <2>1
  <2> HIDE DEF x, r
  <2>7. QED
    BY <2>3, <2>4, <2>5, <2>6
<1> HIDE DEF C
<1>3. S \in C
  BY <1>1, <1>2, AllSubsets
<1>4. QED
  BY <1>3 DEF C

(* A sum does not depend on what its summands are called.                  *)
LEMMA SumRenamed ==
  ASSUME NEW f, NEW g, NEW name, NEW S, IsFiniteSet(S),
         \A x, y \in S : name[x] = name[y] => x = y,
         \A x \in S : f[name[x]] \in Int /\ g[x] = f[name[x]]
  PROVE  SumFunctionOnSet(g, S) = SumFunctionOnSet(f, {name[x] : x \in S})
<1> DEFINE Names(s) == {name[x] : x \in s}
           C == {s \in SUBSET S :
                   /\ IsFiniteSet(Names(s))
                   /\ SumFunctionOnSet(g, s) = SumFunctionOnSet(f, Names(s))}
<1>1. {} \in C
  <2>1. Names({}) = {}
    OBVIOUS
  <2> HIDE DEF Names
  <2>2. QED
    BY <2>1, SumOfNothing, FS_EmptySet
<1>2. ASSUME NEW s \in SUBSET S, s # {}, \A x \in s : s \ {x} \in C PROVE s \in C
  <2> DEFINE x == Picked(s)
             r == s \ {x}
  <2>1. IsFiniteSet(s) /\ x \in s /\ x \in S
    BY <1>2, FS_Subset, PickedIn
  <2>2. /\ IsFiniteSet(Names(r))
        /\ SumFunctionOnSet(g, r) = SumFunctionOnSet(f, Names(r))
    BY <1>2, <2>1
  <2>3. SumFunctionOnSet(g, s) = g[x] + SumFunctionOnSet(g, r)
    BY <1>2, <2>1, SumOfPicked
  <2>4. Names(s) = Names(r) \cup {name[x]} /\ name[x] \notin Names(r)
    BY <2>1
  <2>5. \A n \in Names(r) : f[n] \in Int
    BY <1>2
  <2>6. f[name[x]] \in Int /\ g[x] = f[name[x]]
    BY <2>1
  <2> HIDE DEF x, r, Names
  <2>7. SumFunctionOnSet(f, Names(s)) = f[name[x]] + SumFunctionOnSet(f, Names(r))
    BY <2>2, <2>4, <2>5, <2>6, SumTakesIn
  <2>8. IsFiniteSet(Names(s))
    BY <2>2, <2>4, FS_AddElement
  <2>9. QED
    BY <2>2, <2>3, <2>6, <2>7, <2>8
<1> HIDE DEF C
<1>3. S \in C
  BY <1>1, <1>2, AllSubsets
<1>4. QED
  BY <1>3 DEF C
=============================================================================
