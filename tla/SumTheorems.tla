----------------------------- MODULE SumTheorems -----------------------------
(***************************************************************************)
(* Facts about SumFunctionOnSet of module Functions: what a customer paid, *)
(* what a line received and what a warehouse holds are sums over finite    *)
(* sets of rows.  Induction takes the form of a set, the smallest          *)
(* counterexample: the strict subset ordering is well founded, so that a   *)
(* nonempty set of subsets of a finite set has a minimal one.              *)
(***************************************************************************)
EXTENDS Functions, FiniteSetTheorems, TLAPS

(* Among the subsets of a finite set with some property one is minimal.      *)
LEMMA MinimalSubset ==
  ASSUME NEW S, IsFiniteSet(S), NEW B \in SUBSET (SUBSET S), B # {}
  PROVE  \E s \in B: \A t \in B: t \subseteq s => t = s
<1>1. IsWellFoundedOn(StrictSubsetOrdering(S), SUBSET S)
  BY FS_StrictSubsetOrderingWellFounded, FS_FiniteSubsetsOfFinite
<1>2. PICK s \in B: \A t \in B: ~(<<t, s>> \in StrictSubsetOrdering(S))
  BY <1>1, WFMin
<1>3. ASSUME NEW t \in B, t \subseteq s, t # s
      PROVE  <<t, s>> \in StrictSubsetOrdering(S)
  BY <1>3 DEF StrictSubsetOrdering
<1>4. \A t \in B: t \subseteq s => t = s
  BY <1>2, <1>3
<1>5. QED
  BY <1>4

-----------------------------------------------------------------------------
(* The recursive function behind a sum.                                      *)

First(s) == CHOOSE x \in s: TRUE

Unrolls(f, S, g) ==
  g = [s \in SUBSET S |-> IF s = {} THEN 0 ELSE f[First(s)] + g[s \ {First(s)}]]

LEMMA FirstIsElement == \A s: s # {} => First(s) \in s
BY DEF First

LEMMA SumUnfolds ==
  ASSUME NEW f, NEW S
  PROVE  SumFunctionOnSet(f, S) = (CHOOSE g: Unrolls(f, S, g))[S]
BY DEF SumFunctionOnSet, FoldFunctionOnSet, MapThenFoldSet, Unrolls, First

(* Two functions that agree on S give the same partial sums of S.            *)
LEMMA UnrollsAgree ==
  ASSUME NEW S, IsFiniteSet(S), NEW T, S \subseteq T,
         NEW f, NEW h, \A x \in S: f[x] = h[x],
         NEW g, Unrolls(f, S, g), NEW k, Unrolls(h, T, k)
  PROVE  \A s \in SUBSET S: g[s] = k[s]
<1>. DEFINE B == {s \in SUBSET S: g[s] # k[s]}
<1>1. ASSUME B # {} PROVE FALSE
  <2>0. B \in SUBSET (SUBSET S)
    OBVIOUS
  <2>1. PICK s \in B: \A t \in B: t \subseteq s => t = s
    <3>. HIDE DEF B
    <3>1. QED
      BY <1>1, <2>0, MinimalSubset
  <2>2. /\ g[s] = IF s = {} THEN 0 ELSE f[First(s)] + g[s \ {First(s)}]
        /\ k[s] = IF s = {} THEN 0 ELSE h[First(s)] + k[s \ {First(s)}]
    BY DEF Unrolls
  <2>3. CASE s = {}
    BY <2>2, <2>3
  <2>4. CASE s # {}
    <3>1. First(s) \in s /\ s \ {First(s)} \in SUBSET S
      BY <2>4, FirstIsElement
    <3>2. g[s \ {First(s)}] = k[s \ {First(s)}]
      BY <2>1, <3>1
    <3>3. f[First(s)] = h[First(s)]
      BY <3>1
    <3>4. QED
      BY <2>2, <2>4, <3>2, <3>3
  <2>5. QED
    BY <2>3, <2>4
<1>2. QED
  BY <1>1

LEMMA UnrollsExists ==
  ASSUME NEW S, IsFiniteSet(S), NEW f
  PROVE  \E g: Unrolls(f, S, g)
<1>. DEFINE B == {s \in SUBSET S: ~\E g: Unrolls(f, s, g)}
<1>1. ASSUME B # {} PROVE FALSE
  <2>0. B \in SUBSET (SUBSET S)
    OBVIOUS
  <2>1. PICK T \in B: \A t \in B: t \subseteq T => t = T
    <3>. HIDE DEF B
    <3>1. QED
      BY <1>1, <2>0, MinimalSubset
  <2>2. IsFiniteSet(T)
    BY FS_Subset
  <2>. DEFINE v(s) == IF s = {} THEN 0 ELSE f[First(s)] + SumFunctionOnSet(f, s \ {First(s)})
              g == [s \in SUBSET T |-> v(s)]
  <2>3. ASSUME NEW u \in SUBSET T, u # T
        PROVE  Unrolls(f, u, CHOOSE h: Unrolls(f, u, h))
    BY <2>1, <2>3
  <2>4. ASSUME NEW u \in SUBSET T, u # T
        PROVE  SumFunctionOnSet(f, u) = v(u)
    <3>. DEFINE h == CHOOSE h: Unrolls(f, u, h)
    <3>1. Unrolls(f, u, h) /\ SumFunctionOnSet(f, u) = h[u]
      BY <2>3, <2>4, SumUnfolds
    <3>. HIDE DEF h
    <3>2. h[u] = IF u = {} THEN 0 ELSE f[First(u)] + h[u \ {First(u)}]
      BY <3>1 DEF Unrolls
    <3>3. CASE u = {}
      BY <3>1, <3>2, <3>3
    <3>4. CASE u # {}
      <4>. DEFINE w == u \ {First(u)}
                  k == CHOOSE k: Unrolls(f, w, k)
      <4>1. w \in SUBSET T /\ w # T /\ w \subseteq u
        BY <2>4, <3>4, FirstIsElement
      <4>2. IsFiniteSet(w)
        BY <2>2, <4>1, FS_Subset
      <4>3. Unrolls(f, w, k) /\ SumFunctionOnSet(f, w) = k[w]
        BY <2>3, <4>1, SumUnfolds
      <4>. HIDE DEF w, k
      <4>4. k[w] = h[w]
        BY <3>1, <4>1, <4>2, <4>3, UnrollsAgree
      <4>5. SumFunctionOnSet(f, w) = h[w]
        BY <4>3, <4>4
      <4>6. QED
        BY <3>1, <3>2, <3>4, <4>5 DEF w
    <3>5. QED
      BY <3>3, <3>4
  <2>5. ASSUME NEW s \in SUBSET T, s # {}
        PROVE  g[s \ {First(s)}] = SumFunctionOnSet(f, s \ {First(s)})
    <3>1. s \ {First(s)} \in SUBSET T /\ s \ {First(s)} # T
      BY <2>5, FirstIsElement
    <3>2. QED
      BY <2>4, <3>1
  <2>6. Unrolls(f, T, g)
    BY <2>5 DEF Unrolls
  <2>7. QED
    BY <2>6
<1>2. QED
  BY <1>1

-----------------------------------------------------------------------------
(* Sums.                                                                     *)

(* What a sum is: nothing for the empty set, else one element and the rest.   *)
LEMMA SumStep ==
  ASSUME NEW S, IsFiniteSet(S), NEW f
  PROVE  SumFunctionOnSet(f, S) =
           IF S = {} THEN 0 ELSE f[First(S)] + SumFunctionOnSet(f, S \ {First(S)})
<1>. DEFINE R == S \ {First(S)}
            g == CHOOSE g: Unrolls(f, S, g)
            h == CHOOSE h: Unrolls(f, R, h)
<1>1. IsFiniteSet(R) /\ R \subseteq S
  BY FS_Subset
<1>2. Unrolls(f, S, g) /\ SumFunctionOnSet(f, S) = g[S]
  BY UnrollsExists, SumUnfolds
<1>3. Unrolls(f, R, h) /\ SumFunctionOnSet(f, R) = h[R]
  BY <1>1, UnrollsExists, SumUnfolds
<1>. HIDE DEF g, h
<1>4. h[R] = g[R]
  <2>. HIDE DEF R
  <2>1. /\ IsFiniteSet(R) /\ R \subseteq S
        /\ Unrolls(f, R, h) /\ Unrolls(f, S, g)
    BY <1>1, <1>2, <1>3
  <2>2. \A s \in SUBSET R: h[s] = g[s]
    BY <2>1, UnrollsAgree
  <2>3. QED
    BY <2>2
<1>5. g[S] = IF S = {} THEN 0 ELSE f[First(S)] + g[R]
  BY <1>2 DEF Unrolls
<1>6. QED
  BY <1>2, <1>3, <1>4, <1>5

LEMMA SumEmpty == \A f: SumFunctionOnSet(f, {}) = 0
BY SumStep, FS_EmptySet

(* A sum depends on the summed values only.                                  *)
LEMMA SumSame ==
  ASSUME NEW S, IsFiniteSet(S), NEW f, NEW h, \A x \in S: f[x] = h[x]
  PROVE  SumFunctionOnSet(f, S) = SumFunctionOnSet(h, S)
<1>. DEFINE g == CHOOSE g: Unrolls(f, S, g)
            k == CHOOSE k: Unrolls(h, S, k)
<1>1. Unrolls(f, S, g) /\ SumFunctionOnSet(f, S) = g[S]
  BY UnrollsExists, SumUnfolds
<1>2. Unrolls(h, S, k) /\ SumFunctionOnSet(h, S) = k[S]
  BY UnrollsExists, SumUnfolds
<1>. HIDE DEF g, k
<1>3. \A s \in SUBSET S: g[s] = k[s]
  BY <1>1, <1>2, UnrollsAgree
<1>4. QED
  BY <1>1, <1>2, <1>3


(* Sums of integers are integers, and any element may be taken out first.    *)
LEMMA SumInt ==
  ASSUME NEW S, IsFiniteSet(S), NEW f, \A x \in S: f[x] \in Int
  PROVE  SumFunctionOnSet(f, S) \in Int
<1>. DEFINE B == {s \in SUBSET S: SumFunctionOnSet(f, s) \notin Int}
<1>1. ASSUME B # {} PROVE FALSE
  <2>1. B \in SUBSET (SUBSET S)
    OBVIOUS
  <2>2. PICK s \in B: \A t \in B: t \subseteq s => t = s
    <3>. HIDE DEF B
    <3>1. QED
      BY <1>1, <2>1, MinimalSubset
  <2>3. IsFiniteSet(s)
    BY FS_Subset
  <2>4. SumFunctionOnSet(f, s) =
          IF s = {} THEN 0 ELSE f[First(s)] + SumFunctionOnSet(f, s \ {First(s)})
    BY <2>3, SumStep
  <2>5. s # {}
    BY <2>4
  <2>6. First(s) \in S /\ s \ {First(s)} \in SUBSET S /\ s \ {First(s)} # s
    BY <2>5, FirstIsElement
  <2>7. SumFunctionOnSet(f, s \ {First(s)}) \in Int
    BY <2>2, <2>6
  <2>8. QED
    BY <2>4, <2>5, <2>6, <2>7
<1>2. SumFunctionOnSet(f, S) \in Int
  BY <1>1
<1>3. QED
  BY <1>2

LEMMA SumRemove ==
  ASSUME NEW S, IsFiniteSet(S), NEW f, \A x \in S: f[x] \in Int, NEW x \in S
  PROVE  SumFunctionOnSet(f, S) = f[x] + SumFunctionOnSet(f, S \ {x})
<1>. DEFINE B == {s \in SUBSET S: \E y \in s:
                     SumFunctionOnSet(f, s) # f[y] + SumFunctionOnSet(f, s \ {y})}
<1>1. ASSUME B # {} PROVE FALSE
  <2>1. B \in SUBSET (SUBSET S)
    OBVIOUS
  <2>2. PICK s \in B: \A t \in B: t \subseteq s => t = s
    <3>. HIDE DEF B
    <3>1. QED
      BY <1>1, <2>1, MinimalSubset
  <2>0. s \in SUBSET S /\ IsFiniteSet(s)
    BY FS_Subset
  <2>3. PICK y \in s: SumFunctionOnSet(f, s) # f[y] + SumFunctionOnSet(f, s \ {y})
    OBVIOUS
  <2>. DEFINE z == First(s)
  <2>4. z \in s
    BY <2>3, FirstIsElement
  <2>. HIDE DEF z
  <2>5. SumFunctionOnSet(f, s) = f[z] + SumFunctionOnSet(f, s \ {z})
    BY <2>0, <2>3, SumStep DEF z
  <2>6. y # z
    BY <2>3, <2>5
  <2>i. ASSUME NEW t \in SUBSET s, t # s, NEW w \in t
        PROVE  SumFunctionOnSet(f, t) = f[w] + SumFunctionOnSet(f, t \ {w})
    <3>1. t \in SUBSET S /\ t \notin B
      BY <2>2, <2>i
    <3>2. QED
      BY <3>1
  <2>. HIDE DEF B
  <2>7. SumFunctionOnSet(f, s \ {z}) = f[y] + SumFunctionOnSet(f, (s \ {z}) \ {y})
    BY <2>i, <2>4, <2>6
  <2>8. SumFunctionOnSet(f, s \ {y}) = f[z] + SumFunctionOnSet(f, (s \ {y}) \ {z})
    BY <2>i, <2>4, <2>6
  <2>9. (s \ {z}) \ {y} = (s \ {y}) \ {z}
    OBVIOUS
  <2>10. SumFunctionOnSet(f, (s \ {y}) \ {z}) \in Int
    <3>1. IsFiniteSet((s \ {y}) \ {z}) /\ (s \ {y}) \ {z} \in SUBSET S
      BY <2>0, FS_Subset
    <3>2. QED
      BY <3>1, SumInt
  <2>11. f[y] \in Int /\ f[z] \in Int
    BY <2>0, <2>3, <2>4
  <2>. DEFINE c == SumFunctionOnSet(f, (s \ {y}) \ {z})
  <2>12. /\ SumFunctionOnSet(f, s) = f[z] + (f[y] + c)
         /\ f[y] + SumFunctionOnSet(f, s \ {y}) = f[y] + (f[z] + c)
    BY <2>5, <2>7, <2>8, <2>9
  <2>13. c \in Int
    BY <2>10
  <2>. HIDE DEF c
  <2>14. f[z] + (f[y] + c) = f[y] + (f[z] + c)
    BY <2>11, <2>13
  <2>15. QED
    BY <2>3, <2>12, <2>14
<1>2. QED
  BY <1>1

LEMMA SumAdd ==
  ASSUME NEW S, IsFiniteSet(S), NEW x, x \notin S, NEW f, \A y \in S \cup {x}: f[y] \in Int
  PROVE  SumFunctionOnSet(f, S \cup {x}) = f[x] + SumFunctionOnSet(f, S)
<1>1. IsFiniteSet(S \cup {x})
  BY FS_AddElement
<1>2. (S \cup {x}) \ {x} = S
  OBVIOUS
<1>3. SumFunctionOnSet(f, S \cup {x}) = f[x] + SumFunctionOnSet(f, (S \cup {x}) \ {x})
  BY <1>1, SumRemove
<1>4. QED
  BY <1>2, <1>3

(* Sums of naturals are naturals, and positive when one of them is.          *)
LEMMA SumNat ==
  ASSUME NEW S, IsFiniteSet(S), NEW f, \A x \in S: f[x] \in Nat
  PROVE  SumFunctionOnSet(f, S) \in Nat
<1>. DEFINE B == {s \in SUBSET S: SumFunctionOnSet(f, s) \notin Nat}
<1>1. ASSUME B # {} PROVE FALSE
  <2>1. B \in SUBSET (SUBSET S)
    OBVIOUS
  <2>2. PICK s \in B: \A t \in B: t \subseteq s => t = s
    <3>. HIDE DEF B
    <3>1. QED
      BY <1>1, <2>1, MinimalSubset
  <2>3. IsFiniteSet(s)
    BY FS_Subset
  <2>4. SumFunctionOnSet(f, s) =
          IF s = {} THEN 0 ELSE f[First(s)] + SumFunctionOnSet(f, s \ {First(s)})
    BY <2>3, SumStep
  <2>5. s # {}
    BY <2>4
  <2>6. First(s) \in S /\ s \ {First(s)} \in SUBSET S /\ s \ {First(s)} # s
    BY <2>5, FirstIsElement
  <2>7. SumFunctionOnSet(f, s \ {First(s)}) \in Nat
    BY <2>2, <2>6
  <2>8. QED
    BY <2>4, <2>5, <2>6, <2>7
<1>2. SumFunctionOnSet(f, S) \in Nat
  BY <1>1
<1>3. QED
  BY <1>2

LEMMA SumPositive ==
  ASSUME NEW S, IsFiniteSet(S), NEW f, \A x \in S: f[x] \in Nat, NEW x \in S, f[x] > 0
  PROVE  SumFunctionOnSet(f, S) > 0
<1>1. SumFunctionOnSet(f, S) = f[x] + SumFunctionOnSet(f, S \ {x})
  BY SumRemove
<1>2. SumFunctionOnSet(f, S \ {x}) \in Nat
  <2>1. IsFiniteSet(S \ {x})
    BY FS_RemoveElement
  <2>2. QED
    BY <2>1, SumNat
<1>3. QED
  BY <1>1, <1>2

(* The sum of a sum, and of a function that is zero outside a part.          *)
LEMMA SumPlus ==
  ASSUME NEW S, IsFiniteSet(S), NEW f, NEW g, NEW h,
         \A x \in S: f[x] \in Int /\ g[x] \in Int /\ h[x] = f[x] + g[x]
  PROVE  SumFunctionOnSet(h, S) = SumFunctionOnSet(f, S) + SumFunctionOnSet(g, S)
<1>. DEFINE B == {s \in SUBSET S: SumFunctionOnSet(h, s)
                                    # SumFunctionOnSet(f, s) + SumFunctionOnSet(g, s)}
<1>1. ASSUME B # {} PROVE FALSE
  <2>1. B \in SUBSET (SUBSET S)
    OBVIOUS
  <2>2. PICK s \in B: \A t \in B: t \subseteq s => t = s
    <3>. HIDE DEF B
    <3>1. QED
      BY <1>1, <2>1, MinimalSubset
  <2>. DEFINE z == First(s)
              r == s \ {z}
  <2>3. IsFiniteSet(s) /\ IsFiniteSet(r)
    BY FS_Subset
  <2>4. s # {}
    <3>1. SumFunctionOnSet(h, {}) = SumFunctionOnSet(f, {}) + SumFunctionOnSet(g, {})
      BY SumEmpty
    <3>2. QED
      BY <3>1
  <2>5. z \in s
    BY <2>4, FirstIsElement
  <2>. HIDE DEF z
  <2>6. /\ SumFunctionOnSet(f, s) = f[z] + SumFunctionOnSet(f, r)
        /\ SumFunctionOnSet(g, s) = g[z] + SumFunctionOnSet(g, r)
        /\ SumFunctionOnSet(h, s) = h[z] + SumFunctionOnSet(h, r)
    BY <2>3, <2>4, SumStep DEF z
  <2>7. SumFunctionOnSet(h, r) = SumFunctionOnSet(f, r) + SumFunctionOnSet(g, r)
    BY <2>2, <2>5
  <2>8. SumFunctionOnSet(f, r) \in Int /\ SumFunctionOnSet(g, r) \in Int
    BY <2>3, SumInt
  <2>9. f[z] \in Int /\ g[z] \in Int /\ h[z] = f[z] + g[z]
    BY <2>5
  <2>10. SumFunctionOnSet(h, s) = SumFunctionOnSet(f, s) + SumFunctionOnSet(g, s)
    <3>. HIDE DEF r
    <3>1. QED
      BY <2>6, <2>7, <2>8, <2>9
  <2>11. QED
    BY <2>10
<1>2. QED
  BY <1>1

LEMMA SumOfPart ==
  ASSUME NEW S, IsFiniteSet(S), NEW f, NEW T \in SUBSET S,
         \A x \in S: f[x] \in Int, \A x \in S \ T: f[x] = 0
  PROVE  SumFunctionOnSet(f, S) = SumFunctionOnSet(f, T)
<1>. DEFINE B == {s \in SUBSET (S \ T): SumFunctionOnSet(f, T \cup s) # SumFunctionOnSet(f, T)}
<1>1. ASSUME B # {} PROVE FALSE
  <2>1. B \in SUBSET (SUBSET (S \ T)) /\ IsFiniteSet(S \ T)
    BY FS_Subset
  <2>2. PICK s \in B: \A t \in B: t \subseteq s => t = s
    <3>. HIDE DEF B
    <3>1. QED
      BY <1>1, <2>1, MinimalSubset
  <2>3. PICK z \in s: TRUE
    <3>1. s # {}
      <4>1. T \cup {} = T
        OBVIOUS
      <4>2. QED
        BY <4>1
    <3>2. QED
      BY <3>1
  <2>4. (T \cup s) \ {z} = T \cup (s \ {z})
    OBVIOUS
  <2>5. IsFiniteSet(T \cup s)
    BY FS_Subset
  <2>6. SumFunctionOnSet(f, T \cup s) = f[z] + SumFunctionOnSet(f, T \cup (s \ {z}))
    BY <2>4, <2>5, SumRemove
  <2>7. SumFunctionOnSet(f, T \cup (s \ {z})) = SumFunctionOnSet(f, T)
    <3>1. s \ {z} \in SUBSET (S \ T) /\ s \ {z} \notin B
      BY <2>2, <2>3
    <3>2. QED
      BY <3>1
  <2>8. f[z] = 0 /\ SumFunctionOnSet(f, T) \in Int
    <3>1. IsFiniteSet(T)
      BY FS_Subset
    <3>2. QED
      BY <3>1, SumInt
  <2>9. QED
    BY <2>6, <2>7, <2>8
<1>2. S \ T \notin B
  BY <1>1
<1>3. SumFunctionOnSet(f, T \cup (S \ T)) = SumFunctionOnSet(f, T)
  BY <1>2
<1>4. T \cup (S \ T) = S
  OBVIOUS
<1>5. QED
  BY <1>3, <1>4

-----------------------------------------------------------------------------
(* Sums of a column of a table.                                              *)

LEMMA AmountsAddUp ==
  ASSUME NEW S, IsFiniteSet(S), \A p \in S: p.amount \in Nat
  PROVE  /\ SumFunction([p \in S |-> p.amount]) \in Nat
         /\ S = {} => SumFunction([p \in S |-> p.amount]) = 0
         /\ (\E p \in S: p.amount > 0) => SumFunction([p \in S |-> p.amount]) > 0
<1>. DEFINE f == [p \in S |-> p.amount]
<1>1. SumFunction(f) = SumFunctionOnSet(f, S)
  BY DEF SumFunction
<1>2. \A p \in S: f[p] = p.amount /\ f[p] \in Nat
  OBVIOUS
<1>. HIDE DEF f
<1>3. SumFunctionOnSet(f, S) \in Nat
  BY <1>2, SumNat
<1>4. S = {} => SumFunctionOnSet(f, S) = 0
  BY SumEmpty
<1>5. ASSUME NEW p \in S, p.amount > 0 PROVE SumFunctionOnSet(f, S) > 0
  BY <1>2, <1>5, SumPositive
<1>6. /\ SumFunction(f) \in Nat
      /\ S = {} => SumFunction(f) = 0
      /\ (\E p \in S: p.amount > 0) => SumFunction(f) > 0
  BY <1>1, <1>3, <1>4, <1>5
<1>7. QED
  BY <1>6 DEF f
=============================================================================
