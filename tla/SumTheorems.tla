---------------------------- MODULE SumTheorems ----------------------------
(***************************************************************************)
(* Facts about SumFunction, the sum that the ledgers of the services are   *)
(* checked against: how it changes when one value changes, when a value is *)
(* appended, and when two functions are added.                             *)
(*                                                                         *)
(* The induction theorems of the library take the predicate as a           *)
(* parameter; here the induction is a choice of a minimal element in the   *)
(* SET of counterexamples, for which WFMin is enough.                      *)
(***************************************************************************)
EXTENDS Integers, Sequences, Functions, FiniteSetTheorems, SequenceTheorems, TLAPS

\* The element that the fold takes out of s, and its equation.
Chosen(s) == CHOOSE x \in s : TRUE
Step(f, g, s) == IF s = {} THEN 0 ELSE f[Chosen(s)] + g[s \ {Chosen(s)}]

\* The sums of f over the subsets of S.
Sums(f, S) == CHOOSE g : g = [s \in SUBSET S |-> Step(f, g, s)]

\* The subsets of S with at most n elements.
UpTo(S, n) == {s \in SUBSET S : Cardinality(s) <= n}

-----------------------------------------------------------------------------
(* Minimal counterexamples *)

\* Every nonempty set of natural numbers has a least element.
LEMMA LeastNatural ==
  ASSUME NEW B, B \subseteq Nat, B # {}
  PROVE  \E m \in B : \A k \in B : m <= k
<1> DEFINE R == {ss \in Nat \X Nat : ss[1] < ss[2]}
<1>1. IsWellFoundedOn(R, Nat)
  BY NatLessThanWellFounded DEF OpToRel
<1>2. \A k, m \in Nat : k < m => <<k, m>> \in R
  OBVIOUS
<1> HIDE DEF R
<1>3. PICK m \in B : \A k \in B : ~ (<<k, m>> \in R)
  BY <1>1, WFMin
<1>4. \A k \in B : ~(k < m)
  BY <1>2, <1>3, Zenon
<1> QED
  BY <1>4

\* Every nonempty family of subsets of a finite set has a minimal member.
LEMMA MinimalSubset ==
  ASSUME NEW S, IsFiniteSet(S), NEW B, B \subseteq SUBSET S, B # {}
  PROVE  \E m \in B : \A s \in B : ~(s \subseteq m /\ s # m)
<1>1. B \subseteq FiniteSubsetsOf(S)
  BY FS_FiniteSubsetsOfFinite
<1>2. \E m \in B : \A s \in B : ~ (<<s, m>> \in StrictSubsetOrdering(S))
  BY <1>1, FS_StrictSubsetOrderingWellFounded, WFMin
<1>3. ASSUME NEW s \in B, NEW m \in B, s \subseteq m, s # m
      PROVE  <<s, m>> \in StrictSubsetOrdering(S)
  BY <1>3 DEF StrictSubsetOrdering
<1> QED
  BY <1>2, <1>3

\* A total order has a least element in every finite set.
LEMMA Extremo ==
  ASSUME NEW S, IsFiniteSet(S), S # {}, NEW R,
         \A x, y \in S : <<x, y>> \in R \/ <<y, x>> \in R,
         \A x, y, z \in S : <<x, y>> \in R /\ <<y, z>> \in R => <<x, z>> \in R
  PROVE  \E x \in S : \A y \in S : <<x, y>> \in R
<1>1. PICK B : B = {s \in SUBSET S : s # {} /\ ~ \E x \in s : \A y \in s : <<x, y>> \in R}
  OBVIOUS
<1>2. SUFFICES ASSUME B # {} PROVE FALSE
  BY <1>1
<1>3. PICK m \in B : \A s \in B : ~(s \subseteq m /\ s # m)
  <2>1. B \subseteq SUBSET S
    BY <1>1
  <2> QED
    BY <1>2, <2>1, MinimalSubset
<1>4. m \subseteq S /\ m # {} /\ ~ \E x \in m : \A y \in m : <<x, y>> \in R
  BY <1>1
<1>5. PICK a \in m : TRUE
  BY <1>4
<1>6. m \ {a} # {}
  BY <1>4, <1>5
<1>7. m \ {a} \notin B
  BY <1>3, <1>5
<1>8. PICK z \in m \ {a} : \A y \in m \ {a} : <<z, y>> \in R
  BY <1>1, <1>4, <1>6, <1>7
<1>9. a \in S /\ z \in S /\ <<a, a>> \in R
  BY <1>4, <1>5, <1>8
<1>10. CASE <<a, z>> \in R
  <2>1. \A y \in m : <<a, y>> \in R
    BY <1>4, <1>8, <1>9, <1>10
  <2> QED
    BY <1>4, <1>5, <2>1
<1>11. CASE <<z, a>> \in R
  <2>1. \A y \in m : <<z, y>> \in R
    BY <1>4, <1>8, <1>9, <1>11
  <2> QED
    BY <1>4, <1>8, <2>1
<1> QED
  BY <1>9, <1>10, <1>11

-----------------------------------------------------------------------------
(* The fold is well defined *)

LEMMA ChosenIn == ASSUME NEW s, s # {} PROVE Chosen(s) \in s
  BY DEF Chosen

LEMMA Smaller ==
  ASSUME NEW S, IsFiniteSet(S), NEW s \in SUBSET S, s # {}
  PROVE  /\ Chosen(s) \in S
         /\ s \ {Chosen(s)} \in SUBSET S
         /\ Cardinality(s) \in Nat /\ Cardinality(s) > 0
         /\ Cardinality(s \ {Chosen(s)}) = Cardinality(s) - 1
<1>1. IsFiniteSet(s)
  BY FS_Subset
<1>2. Chosen(s) \in s
  BY ChosenIn
<1>3. Cardinality(s) \in Nat /\ Cardinality(s) # 0
  BY <1>1, FS_CardinalityType, FS_EmptySet
<1>4. Cardinality(s \ {Chosen(s)}) = Cardinality(s) - 1
  BY <1>1, <1>2, FS_RemoveElement
<1> QED
  BY <1>2, <1>3, <1>4

\* The equation of the fold has a solution on the subsets of each size.
LEMMA SolutionUpTo ==
  ASSUME NEW S, IsFiniteSet(S), NEW f \in [S -> Int], NEW n \in Nat
  PROVE  \E g \in [UpTo(S, n) -> Int] : \A s \in UpTo(S, n) : g[s] = Step(f, g, s)
<1> DEFINE P(k) == \E g \in [UpTo(S, k) -> Int] : \A s \in UpTo(S, k) : g[s] = Step(f, g, s)
<1> DEFINE B == {k \in Nat : ~P(k)}
<1>1. SUFFICES ASSUME B # {} PROVE FALSE
  OBVIOUS
<1>2. PICK m \in B : \A k \in B : m <= k
  BY <1>1, LeastNatural
<1> HIDE DEF P
<1>3. CASE m = 0
  <2>1. \A s \in UpTo(S, 0) : s = {}
    <3> TAKE s \in UpTo(S, 0)
    <3>1. s \in SUBSET S /\ Cardinality(s) <= 0
      BY DEF UpTo
    <3>2. s # {} => Cardinality(s) > 0 /\ Cardinality(s) \in Nat
      BY <3>1, Smaller
    <3> QED
      BY <3>1, <3>2
  <2>2. [s \in UpTo(S, 0) |-> 0] \in [UpTo(S, 0) -> Int]
    OBVIOUS
  <2>3. \A s \in UpTo(S, 0) : [t \in UpTo(S, 0) |-> 0][s] = Step(f, [t \in UpTo(S, 0) |-> 0], s)
    BY <2>1 DEF Step
  <2>4. P(0)
    BY <2>2, <2>3 DEF P
  <2> QED
    BY <1>2, <1>3, <2>4
<1>4. CASE m # 0
  <2>1. m - 1 \in Nat /\ P(m - 1)
    BY <1>2, <1>4
  <2>2. PICK g \in [UpTo(S, m - 1) -> Int] : \A s \in UpTo(S, m - 1) : g[s] = Step(f, g, s)
    BY <2>1 DEF P
  <2> DEFINE G == [s \in UpTo(S, m) |-> Step(f, g, s)]
  <2>3. ASSUME NEW s \in UpTo(S, m), s # {}
        PROVE  s \ {Chosen(s)} \in UpTo(S, m - 1) /\ s \ {Chosen(s)} \in UpTo(S, m) /\ Chosen(s) \in S
    <3>1. s \in SUBSET S /\ Cardinality(s) <= m
      BY DEF UpTo
    <3>2. m \in Nat
      BY <1>2
    <3> QED
      BY <2>3, <3>1, <3>2, Smaller DEF UpTo
  <2>4. G \in [UpTo(S, m) -> Int]
    <3>1. \A s \in UpTo(S, m) : Step(f, g, s) \in Int
      BY <2>2, <2>3 DEF Step
    <3> QED
      BY <3>1
  <2>5. \A s \in UpTo(S, m) : G[s] = Step(f, G, s)
    <3> TAKE s \in UpTo(S, m)
    <3>1. CASE s = {}
      BY <3>1 DEF Step
    <3>2. CASE s # {}
      <4>1. g[s \ {Chosen(s)}] = G[s \ {Chosen(s)}]
        BY <2>2, <2>3, <3>2
      <4> QED
        BY <3>2, <4>1 DEF Step
    <3> QED
      BY <3>1, <3>2
  <2>6. P(m)
    BY <2>4, <2>5 DEF P
  <2> QED
    BY <1>2, <2>6
<1> QED
  BY <1>3, <1>4

\* Two solutions agree, so the function that CHOOSE takes has integer values.
LEMMA SumsEquation ==
  ASSUME NEW S, IsFiniteSet(S), NEW f \in [S -> Int]
  PROVE  \E F \in [SUBSET S -> Int] :
           F = Sums(f, S) /\ \A s \in SUBSET S : F[s] = Step(f, F, s)
<1>1. PICK n \in Nat : UpTo(S, n) = SUBSET S
  BY FS_CardinalityType, FS_Subset DEF UpTo
<1>2. \E g \in [UpTo(S, n) -> Int] : \A s \in UpTo(S, n) : g[s] = Step(f, g, s)
  BY SolutionUpTo
<1>3. PICK g \in [SUBSET S -> Int] : \A s \in SUBSET S : g[s] = Step(f, g, s)
  BY <1>1, <1>2
<1>4. PICK h : h = Sums(f, S)
  OBVIOUS
<1>5. h = [s \in SUBSET S |-> Step(f, h, s)]
  <2>1. g = [s \in SUBSET S |-> Step(f, g, s)]
    BY <1>3
  <2> QED
    BY <1>4, <2>1 DEF Sums
<1>6. ASSUME NEW s \in SUBSET S, h[s] # g[s] PROVE FALSE
  <2> DEFINE B == {t \in SUBSET S : h[t] # g[t]}
  <2>1. PICK m \in B : \A t \in B : ~(t \subseteq m /\ t # m)
    <3>1. B \subseteq SUBSET S /\ B # {}
      BY <1>6
    <3> HIDE DEF B
    <3> QED
      BY <3>1, MinimalSubset
  <2>2. h[m] = Step(f, h, m) /\ g[m] = Step(f, g, m)
    BY <1>3, <1>5, <2>1
  <2>3. CASE m = {}
    BY <2>1, <2>2, <2>3 DEF Step
  <2>4. CASE m # {}
    <3>1. Chosen(m) \in m /\ m \ {Chosen(m)} \in SUBSET S
      BY <2>1, <2>4, ChosenIn
    <3>2. h[m \ {Chosen(m)}] = g[m \ {Chosen(m)}]
      BY <2>1, <3>1
    <3> QED
      BY <2>1, <2>2, <2>4, <3>2 DEF Step
  <2> QED
    BY <2>3, <2>4
<1>7. h = g
  BY <1>3, <1>5, <1>6
<1> QED
  BY <1>3, <1>4, <1>7

LEMMA SumsSolve ==
  \A S, f : IsFiniteSet(S) /\ f \in [S -> Int] =>
    /\ Sums(f, S) \in [SUBSET S -> Int] /\ Sums(f, S)[S] \in Int
    /\ \A s \in SUBSET S : Sums(f, S)[s] = Step(f, Sums(f, S), s)
<1> TAKE S, f
<1> HAVE IsFiniteSet(S) /\ f \in [S -> Int]
<1>1. PICK F \in [SUBSET S -> Int] : F = Sums(f, S) /\ \A s \in SUBSET S : F[s] = Step(f, F, s)
  BY SumsEquation
<1> QED
  BY <1>1

-----------------------------------------------------------------------------
(* What the components use *)

LEMMA SumIs ==
  ASSUME NEW S, NEW f \in [S -> Int]
  PROVE  SumFunction(f) = Sums(f, S)[S]
<1>1. SumFunction(f) = SumFunctionOnSet(f, S)
  BY DEF SumFunction
<1> QED
  BY <1>1 DEF SumFunctionOnSet, FoldFunctionOnSet, MapThenFoldSet, Sums, Chosen, Step

\* The empty sum is zero.
LEMMA SumEmpty == ASSUME NEW f \in [{} -> Int] PROVE SumFunction(f) = 0
<1>1. PICK F \in [SUBSET {} -> Int] : F = Sums(f, {}) /\ \A s \in SUBSET {} : F[s] = Step(f, F, s)
  BY FS_EmptySet, SumsEquation
<1>2. F[{}] = 0
  BY <1>1 DEF Step
<1> QED
  BY <1>1, <1>2, SumIs

\* A sum of integers is an integer.
LEMMA SumType ==
  ASSUME NEW S, IsFiniteSet(S), NEW f \in [S -> Int]
  PROVE  SumFunction(f) \in Int
<1>1. PICK F \in [SUBSET S -> Int] : F = Sums(f, S)
  BY SumsEquation, Zenon
<1>2. F[S] \in Int
  OBVIOUS
<1> QED
  BY <1>1, <1>2, SumIs

\* The sum of two functions, argument by argument.
LEMMA SumAdd ==
  ASSUME NEW S, IsFiniteSet(S), NEW f \in [S -> Int], NEW g \in [S -> Int], NEW h \in [S -> Int],
         \A x \in S : h[x] = f[x] + g[x]
  PROVE  SumFunction(h) = SumFunction(f) + SumFunction(g)
<1>0. \A k \in [S -> Int] : \E K \in [SUBSET S -> Int] :
        K = Sums(k, S) /\ \A s \in SUBSET S : K[s] = Step(k, K, s)
  BY SumsEquation
<1>1. PICK F \in [SUBSET S -> Int] : F = Sums(f, S) /\ \A s \in SUBSET S : F[s] = Step(f, F, s)
  BY <1>0
<1>2. PICK G \in [SUBSET S -> Int] : G = Sums(g, S) /\ \A s \in SUBSET S : G[s] = Step(g, G, s)
  BY <1>0
<1>3. PICK H \in [SUBSET S -> Int] : H = Sums(h, S) /\ \A s \in SUBSET S : H[s] = Step(h, H, s)
  BY <1>0
<1>4. ASSUME NEW s \in SUBSET S, H[s] # F[s] + G[s] PROVE FALSE
  <2> DEFINE B == {t \in SUBSET S : H[t] # F[t] + G[t]}
  <2>1. PICK m \in B : \A t \in B : ~(t \subseteq m /\ t # m)
    <3>1. B \subseteq SUBSET S /\ B # {}
      BY <1>4
    <3> HIDE DEF B
    <3> QED
      BY <3>1, MinimalSubset
  <2>2. F[m] = Step(f, F, m) /\ G[m] = Step(g, G, m) /\ H[m] = Step(h, H, m)
    BY <1>1, <1>2, <1>3, <2>1
  <2>3. CASE m = {}
    BY <2>1, <2>2, <2>3 DEF Step
  <2>4. CASE m # {}
    <3>1. PICK c \in S : c = Chosen(m) /\ c \in m
      BY <2>1, <2>4, ChosenIn
    <3>2. PICK r \in SUBSET S : r = m \ {c}
      BY <2>1
    <3>3. H[r] = F[r] + G[r]
      BY <2>1, <3>1, <3>2
    <3>4. F[m] = f[c] + F[r] /\ G[m] = g[c] + G[r] /\ H[m] = h[c] + H[r]
      BY <2>2, <2>4, <3>1, <3>2 DEF Step
    <3>5. F[r] \in Int /\ G[r] \in Int /\ f[c] \in Int /\ g[c] \in Int /\ h[c] = f[c] + g[c]
      BY <1>1, <1>2, <3>1, <3>2
    <3>6. H[m] = F[m] + G[m]
      BY <3>3, <3>4, <3>5
    <3> QED
      BY <2>1, <3>6
  <2> QED
    BY <2>3, <2>4
<1>5. H[S] = F[S] + G[S]
  BY <1>4
<1>6. SumFunction(f) = F[S] /\ SumFunction(g) = G[S] /\ SumFunction(h) = H[S]
  BY <1>1, <1>2, <1>3, SumIs
<1> QED
  BY <1>5, <1>6

\* Any element may be taken out of the sum first.
LEMMA SumsTake ==
  ASSUME NEW S, IsFiniteSet(S), NEW f \in [S -> Int], NEW s \in SUBSET S, NEW a \in s
  PROVE  Sums(f, S)[s] = f[a] + Sums(f, S)[s \ {a}]
<1>1. PICK F \in [SUBSET S -> Int] : F = Sums(f, S) /\ \A t \in SUBSET S : F[t] = Step(f, F, t)
  BY SumsEquation, Zenon
<1> DEFINE B == {t \in SUBSET S : \E x \in t : F[t] # f[x] + F[t \ {x}]}
<1>2. SUFFICES ASSUME B # {} PROVE FALSE
  BY <1>1
<1>3. PICK m \in B : \A t \in B : ~(t \subseteq m /\ t # m)
  <2>1. B \subseteq SUBSET S
    OBVIOUS
  <2> HIDE DEF B
  <2> QED
    BY <1>2, <2>1, MinimalSubset
<1>4. PICK x \in m : F[m] # f[x] + F[m \ {x}]
  BY <1>3
<1>5. PICK c \in S : c = Chosen(m) /\ c \in m
  BY <1>3, <1>4, ChosenIn
<1>6. F[m] = f[c] + F[m \ {c}]
  BY <1>1, <1>3, <1>4, <1>5 DEF Step
<1>7. x # c
  BY <1>4, <1>6
<1>8. m \in SUBSET S /\ m \ {c} \in SUBSET S /\ m \ {x} \in SUBSET S
  BY <1>3
<1>9. F[m \ {c}] = f[x] + F[(m \ {c}) \ {x}]
  <2>1. m \ {c} \notin B
    BY <1>3, <1>5
  <2> QED
    BY <1>4, <1>7, <1>8, <2>1
<1>10. F[m \ {x}] = f[c] + F[(m \ {x}) \ {c}]
  <2>1. m \ {x} \notin B
    BY <1>3, <1>4
  <2> QED
    BY <1>5, <1>7, <1>8, <2>1
<1>11. PICK r \in SUBSET S : r = (m \ {c}) \ {x} /\ r = (m \ {x}) \ {c}
  BY <1>8
<1>12. f[x] \in Int /\ f[c] \in Int /\ F[r] \in Int
  BY <1>1, <1>4, <1>5, <1>8, <1>11
<1>13. F[m] = f[c] + (f[x] + F[r]) /\ F[m \ {x}] = f[c] + F[r]
  BY <1>6, <1>9, <1>10, <1>11
<1>14. F[m] = f[x] + F[m \ {x}]
  BY <1>12, <1>13
<1> QED
  BY <1>4, <1>14

\* The sums of a restriction are those of the function.
LEMMA SumsRestrict ==
  ASSUME NEW S, NEW R \in SUBSET S, IsFiniteSet(R),
         NEW f, NEW g, \A x \in R : g[x] = f[x],
         NEW F, \A t \in SUBSET R : F[t] = Step(f, F, t),
         NEW G, \A t \in SUBSET S : G[t] = Step(g, G, t)
  PROVE  G[R] = F[R]
<1>1. SUFFICES ASSUME G[R] # F[R] PROVE FALSE
  OBVIOUS
<1> DEFINE B == {t \in SUBSET R : G[t] # F[t]}
<1>2. PICK m \in B : \A t \in B : ~(t \subseteq m /\ t # m)
  <2>1. B \subseteq SUBSET R /\ B # {}
    BY <1>1
  <2> HIDE DEF B
  <2> QED
    BY <2>1, MinimalSubset
<1>3. m \in SUBSET R /\ m \in SUBSET S /\ F[m] = Step(f, F, m) /\ G[m] = Step(g, G, m)
  BY <1>2
<1>4. CASE m = {}
  BY <1>2, <1>3, <1>4 DEF Step
<1>5. CASE m # {}
  <2>1. PICK c \in R : c = Chosen(m) /\ c \in m
    BY <1>3, <1>5, ChosenIn
  <2>2. G[m \ {c}] = F[m \ {c}]
    BY <1>2, <1>3, <2>1
  <2>3. F[m] = f[c] + F[m \ {c}] /\ G[m] = g[c] + G[m \ {c}]
    BY <1>3, <1>5, <2>1 DEF Step
  <2> QED
    BY <1>2, <2>1, <2>2, <2>3
<1> QED
  BY <1>4, <1>5

\* A sum with one more argument.
LEMMA SumExtend ==
  ASSUME NEW S, IsFiniteSet(S), NEW a \in S, NEW f \in [S \ {a} -> Int],
         NEW g \in [S -> Int], \A x \in S \ {a} : g[x] = f[x]
  PROVE  SumFunction(g) = SumFunction(f) + g[a]
<1>1. PICK R \in SUBSET S : R = S \ {a}
  OBVIOUS
<1>2. IsFiniteSet(R) /\ f \in [R -> Int] /\ \A x \in R : g[x] = f[x]
  BY <1>1, FS_Subset
<1>3. Sums(f, R)[R] \in Int /\ \A t \in SUBSET R : Sums(f, R)[t] = Step(f, Sums(f, R), t)
  BY <1>2, SumsSolve
<1>4. \A t \in SUBSET S : Sums(g, S)[t] = Step(g, Sums(g, S), t)
  BY SumsSolve
<1>5. Sums(g, S)[R] = Sums(f, R)[R]
  <2>1. PICK F, G : F = Sums(f, R) /\ G = Sums(g, S)
    OBVIOUS
  <2>2. (\A t \in SUBSET R : F[t] = Step(f, F, t)) /\ \A t \in SUBSET S : G[t] = Step(g, G, t)
    BY <1>3, <1>4, <2>1
  <2>3. G[R] = F[R]
    BY <1>2, <2>2, SumsRestrict, SMT
  <2> QED
    BY <2>1, <2>3
<1>6. Sums(g, S)[S] = g[a] + Sums(g, S)[R]
  BY <1>1, SumsTake
<1>7. SumFunction(f) = Sums(f, R)[R] /\ SumFunction(g) = Sums(g, S)[S]
  BY <1>2, SumIs
<1> QED
  BY <1>3, <1>5, <1>6, <1>7

LEMMA SumExtends ==
  \A S, a, f, g : IsFiniteSet(S) /\ a \in S /\ f \in [S \ {a} -> Int] /\ g \in [S -> Int]
    /\ (\A x \in S \ {a} : g[x] = f[x]) => SumFunction(g) = SumFunction(f) + g[a]
  BY SumExtend

\* One value of the function changes.
LEMMA SumChange ==
  ASSUME NEW S, IsFiniteSet(S), NEW f \in [S -> Int], NEW g \in [S -> Int], NEW a \in S,
         \A x \in S \ {a} : g[x] = f[x]
  PROVE  SumFunction(g) = SumFunction(f) + (g[a] - f[a])
<1>1. PICK k \in [S \ {a} -> Int] : \A x \in S \ {a} : f[x] = k[x] /\ g[x] = k[x]
  <2>1. [x \in S \ {a} |-> f[x]] \in [S \ {a} -> Int]
    OBVIOUS
  <2> QED
    BY <2>1
<1>2. SumFunction(f) = SumFunction(k) + f[a] /\ SumFunction(g) = SumFunction(k) + g[a]
  BY <1>1, SumExtends
<1>3. SumFunction(k) \in Int /\ f[a] \in Int /\ g[a] \in Int
  <2>1. IsFiniteSet(S \ {a})
    BY FS_RemoveElement
  <2> QED
    BY <2>1, SumType
<1> QED
  BY <1>2, <1>3

LEMMA SumExtendsRange ==
  ASSUME NEW n \in Nat, NEW f \in [1 .. n -> Int], NEW g \in [1 .. n + 1 -> Int]
  PROVE  (\A i \in 1 .. n : g[i] = f[i]) => SumFunction(g) = SumFunction(f) + g[n + 1]
<1>1. PICK S : S = 1 .. n + 1
  OBVIOUS
<1>2. PICK a \in S : a = n + 1
  BY <1>1
<1>3. IsFiniteSet(S)
  <2>1. n + 1 \in Int /\ 1 \in Int
    OBVIOUS
  <2> QED
    BY <1>1, <2>1, FS_Interval
<1>4. S \ {a} = 1 .. n
  BY <1>1, <1>2
<1>5. g \in [S -> Int] /\ f \in [S \ {a} -> Int]
  BY <1>1, <1>4
<1>6. \A u \in [S \ {a} -> Int] : \A v \in [S -> Int] :
        (\A x \in S \ {a} : v[x] = u[x]) => SumFunction(v) = SumFunction(u) + v[a]
  BY <1>3, SumExtend
<1>7. ASSUME \A x \in S \ {a} : g[x] = f[x]
      PROVE  SumFunction(g) = SumFunction(f) + g[a]
  BY <1>5, <1>6, <1>7, Zenon
<1> QED
  BY <1>2, <1>4, <1>7

\* A list of amounts with one more at its end.
LEMMA SumAppend ==
  ASSUME NEW s \in Seq(Int), NEW v \in Int
  PROVE  SumFunction(Append(s, v)) = SumFunction(s) + v
<1>1. PICK n \in Nat : n = Len(s)
  BY LenProperties
<1>2. s \in [1 .. n -> Int]
  BY <1>1, LenProperties
<1>3. Append(s, v) \in Seq(Int) /\ Len(Append(s, v)) = n + 1
      /\ (\A i \in 1 .. n : Append(s, v)[i] = s[i]) /\ Append(s, v)[n + 1] = v
  BY <1>1, AppendProperties
<1>4. Append(s, v) \in [1 .. n + 1 -> Int]
  BY <1>3, LenProperties
<1> QED
  BY <1>2, <1>3, <1>4, SumExtendsRange

-----------------------------------------------------------------------------
(* Folds in general: each step takes the element ch[s] out of s and applies *)
(* G to it and to what the rest gave, and never leaves V.                   *)

FoldStep(ch, G, base, g, s) == IF s = {} THEN base ELSE G[<<ch[s], g[s \ {ch[s]}]>>]

Foldable(S, V, base, ch, G) ==
  /\ IsFiniteSet(S) /\ base \in V
  /\ \A s \in SUBSET S : s # {} => ch[s] \in s
  /\ \A x \in S, v \in V : G[<<x, v>>] \in V

IsFold(S, V, base, ch, G, g) ==
  g \in [SUBSET S -> V] /\ \A s \in SUBSET S : g[s] = FoldStep(ch, G, base, g, s)

\* The fold is well defined...
LEMMA FoldSolution ==
  ASSUME NEW S, NEW V, NEW base, NEW ch, NEW G, Foldable(S, V, base, ch, G)
  PROVE  \E g : IsFold(S, V, base, ch, G, g)
<1> USE DEF Foldable
<1>1. PICK n \in Nat : UpTo(S, n) = SUBSET S
  BY FS_CardinalityType, FS_Subset DEF UpTo
<1>2. ASSUME NEW i \in Nat
      PROVE  \E g \in [UpTo(S, i) -> V] : \A s \in UpTo(S, i) : g[s] = FoldStep(ch, G, base, g, s)
  <2> DEFINE P(k) == \E g \in [UpTo(S, k) -> V] :
                       \A s \in UpTo(S, k) : g[s] = FoldStep(ch, G, base, g, s)
  <2> DEFINE B == {k \in Nat : ~P(k)}
  <2>1. SUFFICES ASSUME B # {} PROVE FALSE
    OBVIOUS
  <2>2. PICK m \in B : \A k \in B : m <= k
    BY <2>1, LeastNatural
  <2> HIDE DEF P
  <2>3. ASSUME NEW s \in SUBSET S, s # {}
        PROVE  /\ ch[s] \in S /\ s \ {ch[s]} \in SUBSET S
               /\ Cardinality(s) \in Nat /\ Cardinality(s) > 0
               /\ Cardinality(s \ {ch[s]}) = Cardinality(s) - 1
    <3>1. IsFiniteSet(s) /\ ch[s] \in s
      BY <2>3, FS_Subset
    <3>2. Cardinality(s) \in Nat /\ Cardinality(s) # 0
      BY <2>3, <3>1, FS_CardinalityType, FS_EmptySet
    <3>3. Cardinality(s \ {ch[s]}) = Cardinality(s) - 1
      BY <3>1, FS_RemoveElement
    <3> QED
      BY <3>1, <3>2, <3>3
  <2>4. CASE m = 0
    <3>1. \A s \in UpTo(S, 0) : s = {}
      <4> TAKE s \in UpTo(S, 0)
      <4>1. s \in SUBSET S /\ Cardinality(s) <= 0
        BY DEF UpTo
      <4>2. ASSUME s # {} PROVE FALSE
        <5>1. Cardinality(s) \in Nat /\ Cardinality(s) > 0
          BY <2>3, <4>1, <4>2
        <5> QED
          BY <4>1, <5>1
      <4> QED
        BY <4>2
    <3>2. PICK g : g = [s \in UpTo(S, 0) |-> base]
      OBVIOUS
    <3>3. \A s \in UpTo(S, 0) : g[s] = FoldStep(ch, G, base, g, s)
      BY <3>1, <3>2 DEF FoldStep
    <3>4. P(0)
      BY <3>2, <3>3 DEF P
    <3> QED
      BY <2>2, <2>4, <3>4
  <2>5. CASE m # 0
    <3>1. m - 1 \in Nat /\ P(m - 1)
      BY <2>2, <2>5
    <3>2. PICK g \in [UpTo(S, m - 1) -> V] :
            \A s \in UpTo(S, m - 1) : g[s] = FoldStep(ch, G, base, g, s)
      BY <3>1 DEF P
    <3>3. ASSUME NEW s \in UpTo(S, m), s # {}
          PROVE  /\ s \ {ch[s]} \in UpTo(S, m - 1) /\ s \ {ch[s]} \in UpTo(S, m) /\ ch[s] \in S
      <4>1. s \in SUBSET S /\ Cardinality(s) <= m /\ m \in Nat
        BY <2>2 DEF UpTo
      <4>2. Cardinality(s) \in Nat /\ Cardinality(s \ {ch[s]}) = Cardinality(s) - 1
            /\ ch[s] \in S /\ s \ {ch[s]} \in SUBSET S
        BY <2>3, <3>3, <4>1
      <4> QED
        BY <4>1, <4>2 DEF UpTo
    <3>4. PICK h : h = [s \in UpTo(S, m) |-> FoldStep(ch, G, base, g, s)]
      OBVIOUS
    <3>5. h \in [UpTo(S, m) -> V]
      <4>1. ASSUME NEW s \in UpTo(S, m) PROVE FoldStep(ch, G, base, g, s) \in V
        <5>1. CASE s = {}
          BY <5>1 DEF FoldStep
        <5>2. CASE s # {}
          <6>1. g[s \ {ch[s]}] \in V /\ ch[s] \in S
            BY <3>2, <3>3, <5>2
          <6>2. G[<<ch[s], g[s \ {ch[s]}]>>] \in V
            BY <6>1
          <6> QED
            BY <5>2, <6>2 DEF FoldStep
        <5> QED
          BY <5>1, <5>2
      <4> QED
        BY <3>4, <4>1
    <3>6. \A s \in UpTo(S, m) : h[s] = FoldStep(ch, G, base, h, s)
      <4> TAKE s \in UpTo(S, m)
      <4>1. h[s] = FoldStep(ch, G, base, g, s)
        BY <3>4
      <4>2. CASE s = {}
        BY <4>1, <4>2 DEF FoldStep
      <4>3. CASE s # {}
        <5>1. g[s \ {ch[s]}] = FoldStep(ch, G, base, g, s \ {ch[s]})
          BY <3>2, <3>3, <4>3
        <5>2. h[s \ {ch[s]}] = FoldStep(ch, G, base, g, s \ {ch[s]})
          BY <3>3, <3>4, <4>3
        <5> QED
          BY <4>1, <4>3, <5>1, <5>2 DEF FoldStep
      <4> QED
        BY <4>2, <4>3
    <3>7. P(m)
      BY <3>5, <3>6 DEF P
    <3> QED
      BY <2>2, <3>7
  <2> QED
    BY <2>4, <2>5
<1>3. PICK g \in [SUBSET S -> V] : \A s \in SUBSET S : g[s] = FoldStep(ch, G, base, g, s)
  BY <1>1, <1>2
<1> QED
  BY <1>3 DEF IsFold

Folded(S, V, ch, h) ==
  /\ IsFiniteSet(S) /\ h[{}] \in V
  /\ \A s \in SUBSET S : s # {} => ch[s] \in s
  /\ \A s \in SUBSET S : s # {} /\ h[s \ {ch[s]}] \in V => h[s] \in V

\* ... and stays where its steps stay.
LEMMA FoldRange ==
  ASSUME NEW S, NEW V, NEW ch, NEW h, Folded(S, V, ch, h)
  PROVE  h[S] \in V
<1> USE DEF Folded
<1> DEFINE B == {s \in SUBSET S : h[s] \notin V}
<1>1. SUFFICES ASSUME B # {} PROVE FALSE
  OBVIOUS
<1>2. PICK m \in B : \A s \in B : ~(s \subseteq m /\ s # m)
  <2>1. B \subseteq SUBSET S
    OBVIOUS
  <2> HIDE DEF B
  <2> QED
    BY <1>1, <2>1, MinimalSubset
<1>3. m # {} /\ ch[m] \in m /\ m \in SUBSET S
  BY <1>2
<1>4. h[m \ {ch[m]}] \in V
  BY <1>2, <1>3
<1> QED
  BY <1>2, <1>3, <1>4
=============================================================================
