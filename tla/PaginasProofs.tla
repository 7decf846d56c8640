--------------------------- MODULE PaginasProofs ---------------------------
(***************************************************************************)
(* Proofs about the pages of the administration panel and the purchase     *)
(* form.  First the form, whose rows, payments and sums add up; then       *)
(* BaseInv, the type of every variable and the form of every call in       *)
(* flight, with what a step of the panel can be (Paso), so that each later *)
(* invariant is shown to survive a dozen kinds of step and not a hundred   *)
(* handlers: the forms that had an effect (UnaInv), the busy flags         *)
(* (Ocupados), the panels (PanelInv) and the copy of the list (ListaInv).  *)
(***************************************************************************)
EXTENDS NuevaCompra, SumTheorems

-----------------------------------------------------------------------------
(* Array.filter, and the sums over what it leaves *)

LEMMA MaxDa ==
  ASSUME NEW S, S \subseteq Int, IsFiniteSet(S), S # {}
  PROVE  Max(S) \in S /\ \A y \in S : Max(S) >= y
<1>1. PICK R : R = {r \in Int \X Int : r[1] >= r[2]}
  OBVIOUS
<1>2. /\ \A x, y \in S : <<x, y>> \in R <=> x >= y
      /\ \A x, y \in S : x >= y \/ y >= x
  BY <1>1
<1>3. \A x, y, z \in S : x >= y /\ y >= z => x >= z
  OBVIOUS
<1>4. \E x \in S : \A y \in S : <<x, y>> \in R
  BY <1>2, <1>3, Extremo
<1>5. \E x \in S : \A y \in S : x >= y
  BY <1>2, <1>4
<1> QED
  BY <1>5 DEF Max

\* The fold that keeps the elements of s at the positions in J.
Retiene(h, s, J, t) ==
  IF t = {} THEN <<>>
  ELSE IF Max(t) \in J THEN Append(h[t \ {Max(t)}], s[Max(t)]) ELSE h[t \ {Max(t)}]

EsFiltro(h, s, J) == h = [t \in SUBSET (DOMAIN s) |-> Retiene(h, s, J, t)]

LEMMA HayFiltro ==
  ASSUME NEW V, NEW s \in Seq(V), NEW J
  PROVE  \E h : EsFiltro(h, s, J)
<1>1. PICK n \in Nat : n = Len(s) /\ DOMAIN s = 1 .. n
  OBVIOUS
<1>2. IsFiniteSet(1 .. n) /\ 1 .. n \subseteq Int
  <2>1. 1 \in Int /\ n \in Int
    OBVIOUS
  <2> QED
    BY <2>1, FS_Interval
<1>3. ASSUME NEW t \in SUBSET (1 .. n), t # {}
      PROVE  Max(t) \in t
  <2>1. IsFiniteSet(t) /\ t \subseteq Int
    BY <1>2, FS_Subset
  <2> QED
    BY <1>3, <2>1, MaxDa
<1>4. PICK ch : ch = [t \in SUBSET (1 .. n) |-> Max(t)]
  OBVIOUS
<1>5. PICK S : S = Seq(V)
  OBVIOUS
<1>6. PICK G : G = [z \in (1 .. n) \X S |-> IF z[1] \in J THEN Append(z[2], s[z[1]]) ELSE z[2]]
  OBVIOUS
<1>7. \A x \in 1 .. n, v \in S : /\ G[<<x, v>>] = IF x \in J THEN Append(v, s[x]) ELSE v
                                 /\ G[<<x, v>>] \in S
  BY <1>1, <1>5, <1>6
<1>8. PICK g : IsFold(1 .. n, S, <<>>, ch, G, g)
  <2>1. <<>> \in S
    BY <1>5
  <2>2. Foldable(1 .. n, S, <<>>, ch, G)
    BY <1>2, <1>3, <1>4, <1>7, <2>1 DEF Foldable
  <2> QED
    BY <2>2, FoldSolution
<1>9. /\ g \in [SUBSET (1 .. n) -> S]
      /\ \A t \in SUBSET (1 .. n) : g[t] = FoldStep(ch, G, <<>>, g, t)
  BY <1>8 DEF IsFold
<1>10. \A t \in SUBSET (1 .. n) : g[t] = Retiene(g, s, J, t)
  <2> TAKE t \in SUBSET (1 .. n)
  <2>1. CASE t = {}
    BY <1>9, <2>1 DEF FoldStep, Retiene
  <2>2. CASE t # {}
    <3>1. PICK m \in t : m = Max(t) /\ ch[t] = m
      BY <1>3, <1>4, <2>2
    <3>2. g[t \ {m}] \in S /\ m \in 1 .. n
      BY <1>9
    <3>3. g[t] = G[<<m, g[t \ {m}]>>]
      BY <1>9, <2>2, <3>1 DEF FoldStep
    <3> QED
      BY <1>7, <2>2, <3>1, <3>2, <3>3 DEF Retiene
  <2> QED
    BY <2>1, <2>2
<1>11. g = [t \in SUBSET (1 .. n) |-> Retiene(g, s, J, t)]
  BY <1>9, <1>10
<1> QED
  BY <1>1, <1>11 DEF EsFiltro

\* What is left of s: its elements at J, in order, once each.
Restan(q, s, J, n, pos) ==
  /\ pos \in [1 .. Len(q) -> 1 .. n]
  /\ \A i \in 1 .. Len(q) : pos[i] \in J /\ q[i] = s[pos[i]]
  /\ \A i, l \in 1 .. Len(q) : pos[i] = pos[l] => i = l
  /\ \A j \in 1 .. n : j \in J => \E i \in 1 .. Len(q) : pos[i] = j

Pesa(f, s, J, n) == SumFunction([j \in 1 .. n |-> IF j \in J THEN f[s[j]] ELSE 0])
Pesos(f, q) == SumFunction([i \in 1 .. Len(q) |-> f[q[i]]])

FiltroHasta(V, h, s, J, n) ==
  /\ h[1 .. n] \in Seq(V)
  /\ \E pos : Restan(h[1 .. n], s, J, n, pos)
  /\ \A f \in [V -> Int] : Pesos(f, h[1 .. n]) = Pesa(f, s, J, n)

LEMMA FiltroPaso ==
  ASSUME NEW V, NEW s \in Seq(V), NEW J, NEW h, EsFiltro(h, s, J),
         NEW n \in Nat, n + 1 <= Len(s), FiltroHasta(V, h, s, J, n)
  PROVE  FiltroHasta(V, h, s, J, n + 1)
<1>1. PICK m \in Nat : m = n + 1 /\ m \in 1 .. Len(s) /\ DOMAIN s = 1 .. Len(s) /\ s[m] \in V
  OBVIOUS
<1>2. 1 .. m # {} /\ 1 .. m \in SUBSET (DOMAIN s) /\ (1 .. m) \ {m} = 1 .. n
  <2>1. \A j : j \in 1 .. m <=> j \in 1 .. n \/ j = m
    BY <1>1
  <2>2. m \notin 1 .. n /\ Len(s) \in Nat
    BY <1>1
  <2> QED
    BY <1>1, <2>1, <2>2
<1>3. Max(1 .. m) = m
  <2>1. m \in 1 .. m /\ \A y \in 1 .. m : m >= y
    BY <1>1
  <2>2. Max(1 .. m) \in 1 .. m /\ \A y \in 1 .. m : Max(1 .. m) >= y
    BY <2>1 DEF Max
  <2> QED
    BY <2>1, <2>2
<1>4. PICK p, q : p = h[1 .. n] /\ q = h[1 .. m]
  OBVIOUS
<1>5. q = IF m \in J THEN Append(p, s[m]) ELSE p
  <2>1. h[1 .. m] = Retiene(h, s, J, 1 .. m)
    BY <1>2 DEF EsFiltro
  <2> QED
    BY <1>2, <1>3, <1>4, <2>1 DEF Retiene
<1>6. p \in Seq(V) /\ (\A f \in [V -> Int] : Pesos(f, p) = Pesa(f, s, J, n))
  BY <1>4 DEF FiltroHasta
<1>7. PICK pos : Restan(p, s, J, n, pos)
  BY <1>4 DEF FiltroHasta
<1>8. PICK l \in Nat : l = Len(p)
  BY <1>6
<1>9. q \in Seq(V)
  BY <1>1, <1>5, <1>6
<1>10. \E r : Restan(q, s, J, m, r)
  <2>1. CASE m \notin J
    BY <1>1, <1>5, <1>7, <2>1 DEF Restan
  <2>2. CASE m \in J
    <3>1. PICK r : r = [i \in 1 .. l + 1 |-> IF i = l + 1 THEN m ELSE pos[i]]
      OBVIOUS
    <3>2. /\ Len(q) = l + 1 /\ q[l + 1] = s[m] /\ \A i \in 1 .. l : q[i] = p[i]
      BY <1>5, <1>6, <1>8, <2>2
    <3>3. \A i \in 1 .. l : pos[i] \in 1 .. n /\ pos[i] # m /\ r[i] = pos[i]
      <4>1. \A i \in 1 .. l : pos[i] \in 1 .. n
        BY <1>7, <1>8 DEF Restan
      <4>2. \A i \in 1 .. n : i # m
        BY <1>1
      <4>3. \A i \in 1 .. l : r[i] = pos[i]
        BY <1>8, <3>1
      <4> QED
        BY <4>1, <4>2, <4>3
    <3>4. Restan(q, s, J, m, r)
      <4>0. (\A i \in 1 .. l + 1 : i = l + 1 \/ i \in 1 .. l) /\ l + 1 \in 1 .. l + 1
        BY <1>8
      <4>1. r \in [1 .. l + 1 -> 1 .. m] /\ r[l + 1] = m
        <5>1. \A i \in 1 .. l + 1 : (IF i = l + 1 THEN m ELSE pos[i]) \in 1 .. m
          BY <1>1, <3>3, <4>0
        <5> QED
          BY <3>1, <4>0, <5>1
      <4>2. \A i \in 1 .. l + 1 : r[i] \in J /\ q[i] = s[r[i]]
        BY <1>7, <1>8, <2>2, <3>2, <3>3, <4>0, <4>1 DEF Restan
      <4>3. \A i, k \in 1 .. l + 1 : r[i] = r[k] => i = k
        <5>1. \A i, k \in 1 .. l : pos[i] = pos[k] => i = k
          BY <1>7, <1>8 DEF Restan
        <5> QED
          BY <3>3, <4>0, <4>1, <5>1
      <4>4. \A j \in 1 .. m : j \in J => \E i \in 1 .. l + 1 : r[i] = j
        <5> TAKE j \in 1 .. m
        <5> HAVE j \in J
        <5>1. CASE j = m
          BY <4>1, <5>1, <1>8
        <5>2. CASE j # m
          <6>1. PICK i \in 1 .. l : pos[i] = j
            BY <1>1, <1>7, <1>8, <5>2 DEF Restan
          <6> QED
            BY <1>8, <3>3, <6>1
        <5> QED
          BY <5>1, <5>2
      <4> QED
        BY <3>2, <4>1, <4>2, <4>3, <4>4 DEF Restan
    <3> QED
      BY <3>4
  <2> QED
    BY <2>1, <2>2
<1>11. ASSUME NEW f \in [V -> Int] PROVE Pesos(f, q) = Pesa(f, s, J, m)
  <2>1. PICK a : a = [j \in 1 .. n |-> IF j \in J THEN f[s[j]] ELSE 0]
    OBVIOUS
  <2>2. PICK b : b = [j \in 1 .. m |-> IF j \in J THEN f[s[j]] ELSE 0]
    OBVIOUS
  <2>3. /\ a \in [1 .. n -> Int] /\ b \in [1 .. n + 1 -> Int] /\ \A j \in 1 .. n : b[j] = a[j]
    BY <1>1, <2>1, <2>2
  <2>4. SumFunction(b) = SumFunction(a) + b[n + 1]
    BY <2>3, SumExtendsRange
  <2>5. Pesos(f, p) = SumFunction(a)
    BY <1>6, <2>1 DEF Pesa
  <2>6. Pesa(f, s, J, m) = SumFunction(b)
    BY <2>2 DEF Pesa
  <2>7. CASE m \notin J
    <3>1. IsFiniteSet(1 .. n)
      BY FS_Interval
    <3>2. SumFunction(a) \in Int
      BY <2>3, <3>1, SumType
    <3>3. b[n + 1] = 0
      BY <1>1, <2>2, <2>7
    <3> QED
      BY <1>5, <2>4, <2>5, <2>6, <2>7, <3>2, <3>3
  <2>8. CASE m \in J
    <3>1. PICK c : c = [i \in 1 .. l |-> f[p[i]]]
      OBVIOUS
    <3>2. PICK d : d = [i \in 1 .. l + 1 |-> f[q[i]]]
      OBVIOUS
    <3>3. Len(q) = l + 1 /\ q[l + 1] = s[m] /\ \A i \in 1 .. l : q[i] = p[i] /\ p[i] \in V
      BY <1>5, <1>6, <1>8, <2>8
    <3>4. c \in [1 .. l -> Int] /\ d \in [1 .. l + 1 -> Int] /\ \A i \in 1 .. l : d[i] = c[i]
      <4>1. (\A i \in 1 .. l + 1 : i = l + 1 \/ i \in 1 .. l) /\ \A i \in 1 .. l : i \in 1 .. l + 1
        BY <1>8
      <4>2. \A i \in 1 .. l + 1 : f[q[i]] \in Int
        BY <1>1, <3>3, <4>1
      <4>3. \A i \in 1 .. l : f[p[i]] \in Int /\ f[p[i]] = f[q[i]]
        BY <3>3
      <4> QED
        BY <3>1, <3>2, <4>1, <4>2, <4>3
    <3>5. SumFunction(d) = SumFunction(c) + d[l + 1]
      BY <3>4, SumExtendsRange
    <3>6. d[l + 1] = b[n + 1]
      BY <1>1, <1>8, <2>2, <2>8, <3>2, <3>3
    <3>7. Pesos(f, p) = SumFunction(c) /\ Pesos(f, q) = SumFunction(d)
      BY <1>8, <3>1, <3>2, <3>3 DEF Pesos
    <3> QED
      BY <2>4, <2>5, <2>6, <3>5, <3>6, <3>7
  <2> QED
    BY <2>7, <2>8
<1> QED
  BY <1>1, <1>4, <1>9, <1>10, <1>11 DEF FiltroHasta

LEMMA FiltroDa ==
  ASSUME NEW V, NEW s \in Seq(V), NEW J, NEW h, EsFiltro(h, s, J)
  PROVE  FiltroHasta(V, h, s, J, Len(s))
<1> DEFINE B == {n \in Nat : n <= Len(s) /\ ~FiltroHasta(V, h, s, J, n)}
<1>1. SUFFICES ASSUME B # {} PROVE FALSE
  OBVIOUS
<1>2. PICK m \in B : \A k \in B : m <= k
  BY <1>1, LeastNatural
<1>3. CASE m = 0
  <2>1. 1 .. 0 = {} /\ {} \in SUBSET (DOMAIN s)
    OBVIOUS
  <2>2. h[{}] = <<>>
    BY <2>1 DEF EsFiltro, Retiene
  <2>3. Restan(<<>>, s, J, 0, <<>>)
    BY <2>1 DEF Restan
  <2>4. ASSUME NEW f \in [V -> Int] PROVE Pesos(f, <<>>) = Pesa(f, s, J, 0)
    <3>1. PICK a : a = [i \in 1 .. Len(<<>>) |-> f[<<>>[i]]]
      OBVIOUS
    <3>2. PICK b : b = [j \in 1 .. 0 |-> IF j \in J THEN f[s[j]] ELSE 0]
      OBVIOUS
    <3>3. a \in [{} -> Int] /\ b \in [{} -> Int]
      BY <2>1, <3>1, <3>2
    <3>4. SumFunction(a) = 0 /\ SumFunction(b) = 0
      BY <3>3, SumEmpty
    <3> QED
      BY <3>1, <3>2, <3>4 DEF Pesos, Pesa
  <2>5. FiltroHasta(V, h, s, J, 0)
    <3>1. h[1 .. 0] = <<>> /\ <<>> \in Seq(V)
      BY <2>1, <2>2
    <3>2. \A f \in [V -> Int] : Pesos(f, <<>>) = Pesa(f, s, J, 0)
      BY <2>4
    <3> QED
      BY <2>3, <3>1, <3>2 DEF FiltroHasta
  <2> QED
    BY <1>2, <1>3, <2>5
<1>4. CASE m # 0
  <2>1. m - 1 \in Nat /\ m - 1 <= Len(s) /\ m <= Len(s) /\ m - 1 \notin B
    BY <1>2, <1>4
  <2>2. FiltroHasta(V, h, s, J, m - 1)
    BY <2>1
  <2>3. FiltroHasta(V, h, s, J, (m - 1) + 1)
    BY <2>1, <2>2, FiltroPaso
  <2> QED
    BY <1>2, <2>1, <2>3
<1> QED
  BY <1>3, <1>4

LEMMA MaximoDentro ==
  ASSUME NEW V, NEW s \in Seq(V), NEW t \in SUBSET (DOMAIN s), t # {}
  PROVE  Max(t) \in DOMAIN s
<1>1. DOMAIN s = 1 .. Len(s) /\ 1 \in Int /\ Len(s) \in Int
  OBVIOUS
<1>2. IsFiniteSet(t) /\ t \subseteq Int
  <2>1. IsFiniteSet(1 .. Len(s))
    BY <1>1, FS_Interval
  <2>2. t \subseteq 1 .. Len(s)
    BY <1>1
  <2> QED
    BY <2>1, <2>2, FS_Subset
<1> QED
  BY <1>2, MaxDa

ConValor(s) == CHOOSE iter : iter =
  [t \in SUBSET (DOMAIN s) |->
     IF t = {} THEN <<>>
     ELSE IF s[Max(t)].nombre \/ s[Max(t)].precio > 0 THEN Append(iter[t \ {Max(t)}], s[Max(t)])
          ELSE iter[t \ {Max(t)}]]

LEMMA ConValorEs ==
  ASSUME NEW s
  PROVE  ValidItems(s) = ConValor(s)[DOMAIN s]
BY DEF ValidItems, Filtra, FoldLeft, MapThenFoldSet, ConValor

LEMMA ConValorDa ==
  ASSUME NEW V, NEW s \in Seq(V)
  PROVE  LET J == {j \in DOMAIN s : s[j].nombre \/ s[j].precio > 0} IN
         \E h : FiltroHasta(V, h, s, J, Len(s)) /\ ValidItems(s) = h[1 .. Len(s)]
<1> DEFINE J == {j \in DOMAIN s : s[j].nombre \/ s[j].precio > 0}
<1>1. PICK h : EsFiltro(h, s, J)
  BY HayFiltro
<1>2. ASSUME NEW t \in SUBSET (DOMAIN s), t # {}
      PROVE  Max(t) \in J <=> s[Max(t)].nombre \/ s[Max(t)].precio > 0
  BY <1>2, MaximoDentro
<1>3. \A g : [t \in SUBSET (DOMAIN s) |-> Retiene(g, s, J, t)]
             = [t \in SUBSET (DOMAIN s) |->
                  IF t = {} THEN <<>>
                  ELSE IF s[Max(t)].nombre \/ s[Max(t)].precio > 0 THEN Append(g[t \ {Max(t)}], s[Max(t)])
                       ELSE g[t \ {Max(t)}]]
  BY <1>2 DEF Retiene
<1> HIDE DEF J
<1>4. h = [t \in SUBSET (DOMAIN s) |->
             IF t = {} THEN <<>>
             ELSE IF s[Max(t)].nombre \/ s[Max(t)].precio > 0 THEN Append(h[t \ {Max(t)}], s[Max(t)])
                  ELSE h[t \ {Max(t)}]]
  BY <1>1, <1>3 DEF EsFiltro
<1>5. PICK g : g = ConValor(s)
  OBVIOUS
<1>6. g = [t \in SUBSET (DOMAIN s) |->
             IF t = {} THEN <<>>
             ELSE IF s[Max(t)].nombre \/ s[Max(t)].precio > 0 THEN Append(g[t \ {Max(t)}], s[Max(t)])
                  ELSE g[t \ {Max(t)}]]
  BY <1>4, <1>5, Zenon DEF ConValor
<1>7. EsFiltro(g, s, J)
  BY <1>3, <1>6 DEF EsFiltro
<1>8. FiltroHasta(V, g, s, J, Len(s))
  BY <1>7, FiltroDa
<1>9. ValidItems(s) = g[1 .. Len(s)]
  <2>1. DOMAIN s = 1 .. Len(s)
    OBVIOUS
  <2> QED
    BY <1>5, <2>1, ConValorEs
<1> QED
  BY <1>8, <1>9 DEF J

Quitadas(s, k) == CHOOSE iter : iter =
  [t \in SUBSET (DOMAIN s) |->
     IF t = {} THEN <<>>
     ELSE IF s[Max(t)].key # k THEN Append(iter[t \ {Max(t)}], s[Max(t)])
          ELSE iter[t \ {Max(t)}]]

LEMMA QuitadasEs ==
  ASSUME NEW s, NEW k
  PROVE  SinClave(s, k) = Quitadas(s, k)[DOMAIN s]
BY DEF SinClave, Filtra, FoldLeft, MapThenFoldSet, Quitadas

LEMMA QuitadasDa ==
  ASSUME NEW V, NEW s \in Seq(V), NEW k
  PROVE  LET J == {j \in DOMAIN s : s[j].key # k} IN
         \E h : FiltroHasta(V, h, s, J, Len(s)) /\ SinClave(s, k) = h[1 .. Len(s)]
<1> DEFINE J == {j \in DOMAIN s : s[j].key # k}
<1>1. PICK h : EsFiltro(h, s, J)
  BY HayFiltro
<1>2. ASSUME NEW t \in SUBSET (DOMAIN s), t # {}
      PROVE  Max(t) \in J <=> s[Max(t)].key # k
  BY <1>2, MaximoDentro
<1>3. \A g : [t \in SUBSET (DOMAIN s) |-> Retiene(g, s, J, t)]
             = [t \in SUBSET (DOMAIN s) |->
                  IF t = {} THEN <<>>
                  ELSE IF s[Max(t)].key # k THEN Append(g[t \ {Max(t)}], s[Max(t)])
                       ELSE g[t \ {Max(t)}]]
  BY <1>2 DEF Retiene
<1> HIDE DEF J
<1>4. h = [t \in SUBSET (DOMAIN s) |->
             IF t = {} THEN <<>>
             ELSE IF s[Max(t)].key # k THEN Append(h[t \ {Max(t)}], s[Max(t)])
                  ELSE h[t \ {Max(t)}]]
  BY <1>1, <1>3 DEF EsFiltro
<1>5. PICK g : g = Quitadas(s, k)
  OBVIOUS
<1>6. g = [t \in SUBSET (DOMAIN s) |->
             IF t = {} THEN <<>>
             ELSE IF s[Max(t)].key # k THEN Append(g[t \ {Max(t)}], s[Max(t)])
                  ELSE g[t \ {Max(t)}]]
  BY <1>4, <1>5, Zenon DEF Quitadas
<1>7. EsFiltro(g, s, J)
  BY <1>3, <1>6 DEF EsFiltro
<1>8. FiltroHasta(V, g, s, J, Len(s))
  BY <1>7, FiltroDa
<1>9. SinClave(s, k) = g[1 .. Len(s)]
  <2>1. DOMAIN s = 1 .. Len(s)
    OBVIOUS
  <2> QED
    BY <1>5, <2>1, QuitadasEs
<1> QED
  BY <1>8, <1>9 DEF J

ConMonto(s) == CHOOSE iter : iter =
  [t \in SUBSET (DOMAIN s) |->
     IF t = {} THEN <<>>
     ELSE IF s[Max(t)].monto > 0 THEN Append(iter[t \ {Max(t)}], s[Max(t)])
          ELSE iter[t \ {Max(t)}]]

LEMMA ConMontoEs ==
  ASSUME NEW s
  PROVE  Filtra(s, LAMBDA p : p.monto > 0) = ConMonto(s)[DOMAIN s]
BY DEF Filtra, FoldLeft, MapThenFoldSet, ConMonto

LEMMA ConMontoDa ==
  ASSUME NEW V, NEW s \in Seq(V)
  PROVE  LET J == {j \in DOMAIN s : s[j].monto > 0} IN
         \E h : FiltroHasta(V, h, s, J, Len(s)) /\ Filtra(s, LAMBDA p : p.monto > 0) = h[1 .. Len(s)]
<1> DEFINE J == {j \in DOMAIN s : s[j].monto > 0}
<1>1. PICK h : EsFiltro(h, s, J)
  BY HayFiltro
<1>2. ASSUME NEW t \in SUBSET (DOMAIN s), t # {}
      PROVE  Max(t) \in J <=> s[Max(t)].monto > 0
  BY <1>2, MaximoDentro
<1>3. \A g : [t \in SUBSET (DOMAIN s) |-> Retiene(g, s, J, t)]
             = [t \in SUBSET (DOMAIN s) |->
                  IF t = {} THEN <<>>
                  ELSE IF s[Max(t)].monto > 0 THEN Append(g[t \ {Max(t)}], s[Max(t)])
                       ELSE g[t \ {Max(t)}]]
  BY <1>2 DEF Retiene
<1> HIDE DEF J
<1>4. h = [t \in SUBSET (DOMAIN s) |->
             IF t = {} THEN <<>>
             ELSE IF s[Max(t)].monto > 0 THEN Append(h[t \ {Max(t)}], s[Max(t)])
                  ELSE h[t \ {Max(t)}]]
  BY <1>1, <1>3 DEF EsFiltro
<1>5. PICK g : g = ConMonto(s)
  OBVIOUS
<1>6. g = [t \in SUBSET (DOMAIN s) |->
             IF t = {} THEN <<>>
             ELSE IF s[Max(t)].monto > 0 THEN Append(g[t \ {Max(t)}], s[Max(t)])
                  ELSE g[t \ {Max(t)}]]
  BY <1>4, <1>5, Zenon DEF ConMonto
<1>7. EsFiltro(g, s, J)
  BY <1>3, <1>6 DEF EsFiltro
<1>8. FiltroHasta(V, g, s, J, Len(s))
  BY <1>7, FiltroDa
<1>9. Filtra(s, LAMBDA p : p.monto > 0) = g[1 .. Len(s)]
  <2>1. DOMAIN s = 1 .. Len(s)
    OBVIOUS
  <2> QED
    BY <1>5, <2>1, ConMontoEs
<1> QED
  BY <1>8, <1>9 DEF J

-----------------------------------------------------------------------------
(* The form of a purchase *)

Renglones == [key : Nat, nombre : BOOLEAN, precio : Nat, descuento : Nat, impuesto : Nat, cantidad : Nat]
Abonos == [key : Nat, monto : Nat]

\* Keys are given in order and never twice.
Llaves(s, n) ==
  /\ n \in Nat \ {0}
  /\ \A j \in DOMAIN s : s[j].key \in 1 .. n - 1
  /\ \A j, l \in DOMAIN s : s[j].key = s[l].key => j = l

CompraInv ==
  /\ items \in Seq(Renglones) /\ items # <<>> /\ Llaves(items, nextKey)
  /\ pagos \in Seq(Abonos) /\ Llaves(pagos, nextPagoKey)
  /\ tecleando \in Nat
  /\ tecleando = 0 => \A j \in DOMAIN items : items[j].descuento <= 100
  /\ SeGuardaLoMostrado

\* What a row adds to the summary, what it takes off, and what it shows.
Suman == [r \in Renglones |-> Base(r) * 100000 + ImpMon(r)]
Restado == [r \in Renglones |-> DescMon(r)]
Muestra == [r \in Renglones |-> CalcLineTotal(r)]
Abonado == [x \in Abonos |-> x.monto]

LEMMA MontosDa ==
  /\ Suman \in [Renglones -> Int] /\ Restado \in [Renglones -> Int]
  /\ Muestra \in [Renglones -> Int] /\ Abonado \in [Abonos -> Int]
<1>1. ASSUME NEW r \in Renglones
      PROVE  /\ Base(r) * 100000 + ImpMon(r) \in Int /\ DescMon(r) \in Int
             /\ CalcLineTotal(r) \in Int
  <2>1. PICK b \in Nat, d \in Nat, t \in Nat : b = Base(r) /\ d = r.descuento /\ t = r.impuesto
    BY DEF Renglones, Base
  <2>2. PICK x \in Int : x = b * d
    BY <2>1
  <2>3. PICK y \in Int : y = b * (100 - d) * t
    BY <2>1
  <2>4. ImpMon(r) = y /\ DescMon(r) = x * 1000
    BY <2>1, <2>2, <2>3 DEF ImpMon, DescMon
  <2>5. PICK z \in Int : z = (b * 100000 - x * 1000) \div 1000
    BY <2>1, <2>2
  <2>6. PICK w \in Int : w = z * t
    BY <2>1, <2>5
  <2>7. CalcLineTotal(r) = LET u == b * 100000 - x * 1000 + w IN IF u < 0 THEN 0 ELSE u
    BY <2>1, <2>2, <2>5, <2>6 DEF CalcLineTotal
  <2> QED
    BY <2>1, <2>2, <2>3, <2>4, <2>5, <2>6, <2>7
<1> QED
  BY <1>1 DEF Suman, Restado, Muestra, Abonado, Abonos

\* calcLineTotal and the summary agree on a row whose discount is at most 100.
LEMMA RenglonCuadra ==
  ASSUME NEW r \in Renglones, r.descuento <= 100
  PROVE  Suman[r] = Muestra[r] + Restado[r]
<1>1. PICK b \in Nat, d \in Nat, t \in Nat : b = Base(r) /\ d = r.descuento /\ t = r.impuesto
  BY DEF Renglones, Base
<1>2. PICK x \in Int : x = b * d
  BY <1>1
<1>3. PICK y \in Nat : y = b * (100 - d)
  <2>1. 100 - d \in Nat
    BY <1>1
  <2> QED
    BY <1>1, <2>1
<1>4. y = 100 * b - x
  BY <1>1, <1>2, <1>3
<1>5. PICK z \in Nat : z = y * t
  BY <1>1, <1>3
<1>6. ImpMon(r) = z /\ DescMon(r) = x * 1000
  BY <1>1, <1>2, <1>3, <1>5 DEF ImpMon, DescMon
<1>7. (b * 100000 - x * 1000) \div 1000 = y
  <2>1. b * 100000 - x * 1000 = y * 1000
    BY <1>1, <1>2, <1>4
  <2>2. (y * 1000) \div 1000 = y
    BY <1>3
  <2> QED
    BY <2>1, <2>2
<1>8. CalcLineTotal(r) = b * 100000 - x * 1000 + z
  <2>1. CalcLineTotal(r) = LET u == b * 100000 - x * 1000 + y * t IN IF u < 0 THEN 0 ELSE u
    BY <1>1, <1>2, <1>7 DEF CalcLineTotal
  <2>2. b * 100000 - x * 1000 = y * 1000
    BY <1>1, <1>2, <1>4
  <2> QED
    BY <1>1, <1>2, <1>3, <1>5, <2>1, <2>2
<1> QED
  BY <1>1, <1>2, <1>5, <1>6, <1>8 DEF Suman, Muestra, Restado

LEMMA TotalDa ==
  ASSUME NEW s \in Seq(Renglones)
  PROVE  /\ Total(s) = Pesos(Suman, s) - Pesos(Restado, s)
         /\ Suma(CalcLineTotal, s) = Pesos(Muestra, s)
         /\ Pesos(Suman, s) \in Int /\ Pesos(Restado, s) \in Int /\ Pesos(Muestra, s) \in Int
<1>1. PICK n \in Nat : n = Len(s) /\ DOMAIN s = 1 .. n /\ \A j \in 1 .. n : s[j] \in Renglones
  OBVIOUS
<1>2. \A j \in 1 .. n : /\ Suman[s[j]] = Base(s[j]) * 100000 + ImpMon(s[j])
                        /\ Restado[s[j]] = DescMon(s[j]) /\ Muestra[s[j]] = CalcLineTotal(s[j])
  BY <1>1 DEF Suman, Restado, Muestra
<1>3. [j \in DOMAIN s |-> Base(s[j]) * 100000 + ImpMon(s[j])] = [j \in 1 .. Len(s) |-> Suman[s[j]]]
  BY <1>1, <1>2
<1>4. [j \in DOMAIN s |-> DescMon(s[j])] = [j \in 1 .. Len(s) |-> Restado[s[j]]]
  BY <1>1, <1>2
<1>5. [j \in DOMAIN s |-> CalcLineTotal(s[j])] = [j \in 1 .. Len(s) |-> Muestra[s[j]]]
  BY <1>1, <1>2
<1>6. ASSUME NEW f \in [Renglones -> Int] PROVE Pesos(f, s) \in Int
  <2>1. PICK g : g = [j \in 1 .. n |-> f[s[j]]]
    OBVIOUS
  <2>2. g \in [1 .. n -> Int] /\ IsFiniteSet(1 .. n)
    <3>1. \A j \in 1 .. n : f[s[j]] \in Int
      BY <1>1
    <3>2. IsFiniteSet(1 .. n)
      BY FS_Interval
    <3> QED
      BY <2>1, <3>1, <3>2
  <2>3. SumFunction(g) \in Int
    BY <2>2, SumType
  <2> QED
    BY <1>1, <2>1, <2>3 DEF Pesos
<1>7. Suma(CalcLineTotal, s) = Pesos(Muestra, s)
  BY <1>5 DEF Suma, Pesos
<1>8. Total(s) = Pesos(Suman, s) - Pesos(Restado, s)
  BY <1>3, <1>4, SMTT(30) DEF Total, Suma, Pesos
<1> QED
  BY <1>6, <1>7, <1>8, MontosDa

\* The values of h are those of f and g added up.
Agrega(S, h, f, g) ==
  /\ IsFiniteSet(S) /\ h \in [S -> Int] /\ f \in [S -> Int] /\ g \in [S -> Int]
  /\ \A j \in S : h[j] = f[j] + g[j]

LEMMA SumaAgregada ==
  ASSUME NEW S, NEW h, NEW f, NEW g, Agrega(S, h, f, g)
  PROVE  SumFunction(h) = SumFunction(f) + SumFunction(g)
<1>1. PICK H \in [S -> Int] : H = h
  BY DEF Agrega
<1>2. PICK F \in [S -> Int] : F = f
  BY DEF Agrega
<1>3. PICK G \in [S -> Int] : G = g
  BY DEF Agrega
<1>4. IsFiniteSet(S)
  BY DEF Agrega
<1>5. \A j \in S : H[j] = F[j] + G[j]
  BY <1>1, <1>2, <1>3 DEF Agrega
<1>6. SumFunction(H) = SumFunction(F) + SumFunction(G)
  BY <1>4, <1>5, SumAdd
<1> QED
  BY <1>1, <1>2, <1>3, <1>6

\* The total of the summary is the sum of the rows.
LEMMA TotalSuma ==
  ASSUME NEW s \in Seq(Renglones), \A j \in DOMAIN s : s[j].descuento <= 100
  PROVE  Total(s) = Suma(CalcLineTotal, s)
<1>1. PICK n \in Nat : n = Len(s) /\ DOMAIN s = 1 .. n /\ \A j \in 1 .. n : s[j] \in Renglones
  OBVIOUS
<1>2. PICK h : h = [j \in 1 .. n |-> Suman[s[j]]]
  OBVIOUS
<1>3. PICK f : f = [j \in 1 .. n |-> Muestra[s[j]]]
  OBVIOUS
<1>4. PICK g : g = [j \in 1 .. n |-> Restado[s[j]]]
  OBVIOUS
<1>5. h \in [1 .. n -> Int] /\ f \in [1 .. n -> Int] /\ g \in [1 .. n -> Int]
  BY <1>1, <1>2, <1>3, <1>4, MontosDa
<1>6. \A j \in 1 .. n : h[j] = f[j] + g[j]
  BY <1>1, <1>2, <1>3, <1>4, RenglonCuadra
<1>7. SumFunction(h) = SumFunction(f) + SumFunction(g)
  <2>1. Agrega(1 .. n, h, f, g)
    BY <1>5, <1>6, FS_Interval DEF Agrega
  <2> QED
    BY <2>1, SumaAgregada
<1>8. Pesos(Suman, s) = Pesos(Muestra, s) + Pesos(Restado, s)
  BY <1>1, <1>2, <1>3, <1>4, <1>7 DEF Pesos
<1> QED
  BY <1>8, TotalDa

\* What is left out of the request counts for nothing in the total.
LEMMA ValidItemsDa ==
  ASSUME NEW s \in Seq(Renglones)
  PROVE  /\ ValidItems(s) \in Seq(Renglones)
         /\ Total(ValidItems(s)) = Total(s)
<1> DEFINE J == {j \in DOMAIN s : s[j].nombre \/ s[j].precio > 0}
<1>1. PICK h : FiltroHasta(Renglones, h, s, J, Len(s)) /\ ValidItems(s) = h[1 .. Len(s)]
  BY ConValorDa
<1>2. PICK q \in Seq(Renglones) : q = ValidItems(s)
  BY <1>1 DEF FiltroHasta
<1>3. PICK n \in Nat : n = Len(s) /\ DOMAIN s = 1 .. n /\ \A j \in 1 .. n : s[j] \in Renglones
  OBVIOUS
<1>4. ASSUME NEW j \in 1 .. n, j \notin J PROVE Suman[s[j]] = 0 /\ Restado[s[j]] = 0
  <2>1. s[j].precio = 0 /\ s[j] \in Renglones
    BY <1>3, <1>4 DEF Renglones
  <2>2. Base(s[j]) = 0
    BY <2>1 DEF Base, Renglones
  <2>3. s[j].descuento \in Nat /\ s[j].impuesto \in Nat
    BY <2>1 DEF Renglones
  <2>4. ImpMon(s[j]) = 0
    <3>1. PICK x \in Int : x = 100 - s[j].descuento
      BY <2>3
    <3>2. 0 * x * s[j].impuesto = 0
      BY <2>3, <3>1
    <3> QED
      BY <2>2, <3>1, <3>2 DEF ImpMon
  <2>5. DescMon(s[j]) = 0
    BY <2>2, <2>3 DEF DescMon
  <2> QED
    BY <2>1, <2>2, <2>4, <2>5 DEF Suman, Restado
<1> HIDE DEF J
<1>5. ASSUME NEW f \in [Renglones -> Int], \A j \in 1 .. n : j \notin J => f[s[j]] = 0
      PROVE  Pesos(f, q) = Pesos(f, s)
  <2>1. Pesos(f, q) = Pesa(f, s, J, n)
    BY <1>1, <1>2, <1>3 DEF FiltroHasta
  <2>2. [j \in 1 .. n |-> IF j \in J THEN f[s[j]] ELSE 0] = [j \in 1 .. Len(s) |-> f[s[j]]]
    BY <1>3, <1>5
  <2> QED
    BY <2>1, <2>2 DEF Pesa, Pesos
<1>6. Pesos(Suman, q) = Pesos(Suman, s) /\ Pesos(Restado, q) = Pesos(Restado, s)
  BY <1>4, <1>5, MontosDa
<1> QED
  BY <1>2, <1>6, TotalDa

LEMMA PagadoDa ==
  ASSUME NEW s \in Seq(Abonos)
  PROVE  TotalPagado(Filtra(s, LAMBDA p : p.monto > 0)) = TotalPagado(s)
<1> DEFINE J == {j \in DOMAIN s : s[j].monto > 0}
<1>1. PICK h : /\ FiltroHasta(Abonos, h, s, J, Len(s))
               /\ Filtra(s, LAMBDA p : p.monto > 0) = h[1 .. Len(s)]
  BY ConMontoDa
<1>2. PICK q \in Seq(Abonos) : q = h[1 .. Len(s)]
  BY <1>1 DEF FiltroHasta
<1>3. PICK n \in Nat : n = Len(s) /\ DOMAIN s = 1 .. n /\ \A j \in 1 .. n : s[j] \in Abonos
  OBVIOUS
<1>4. ASSUME NEW j \in 1 .. n, j \notin J PROVE Abonado[s[j]] = 0
  BY <1>3, <1>4 DEF Abonado, Abonos
<1> HIDE DEF J
<1>5. Pesos(Abonado, q) = Pesa(Abonado, s, J, n)
  BY <1>1, <1>2, <1>3, MontosDa DEF FiltroHasta
<1>6. [j \in 1 .. n |-> IF j \in J THEN Abonado[s[j]] ELSE 0] = [j \in 1 .. Len(s) |-> Abonado[s[j]]]
  BY <1>3, <1>4
<1>7. ASSUME NEW p \in Seq(Abonos) PROVE TotalPagado(p) = Pesos(Abonado, p)
  <2>1. DOMAIN p = 1 .. Len(p) /\ \A j \in DOMAIN p : p[j] \in Abonos
    OBVIOUS
  <2>2. [j \in DOMAIN p |-> p[j].monto] = [j \in 1 .. Len(p) |-> Abonado[p[j]]]
    BY <2>1 DEF Abonado
  <2> QED
    BY <2>2 DEF TotalPagado, Suma, Pesos
<1> QED
  BY <1>1, <1>2, <1>5, <1>6, <1>7 DEF Pesa, Pesos

\* What a filter leaves keeps its keys; taking one row out of several leaves some.
LEMMA LlavesFiltradas ==
  ASSUME NEW V, NEW s \in Seq(V), NEW n, Llaves(s, n), NEW k
  PROVE  LET q == SinClave(s, k) IN
         /\ q \in Seq(V) /\ Llaves(q, n)
         /\ \A i \in DOMAIN q : \E j \in DOMAIN s : q[i] = s[j]
         /\ Len(s) > 1 => q # <<>>
<1> DEFINE J == {j \in DOMAIN s : s[j].key # k}
<1>1. PICK h : /\ FiltroHasta(V, h, s, J, Len(s))
               /\ SinClave(s, k) = h[1 .. Len(s)]
  BY QuitadasDa
<1>2. PICK q \in Seq(V) : q = h[1 .. Len(s)]
  BY <1>1 DEF FiltroHasta
<1>3. PICK m \in Nat : m = Len(s) /\ DOMAIN s = 1 .. m
  OBVIOUS
<1>4. PICK l \in Nat : l = Len(q) /\ DOMAIN q = 1 .. l
  BY <1>2
<1>5. PICK pos : Restan(q, s, J, m, pos)
  BY <1>1, <1>2, <1>3 DEF FiltroHasta
<1>6. /\ \A i \in 1 .. l : pos[i] \in 1 .. m /\ q[i] = s[pos[i]]
      /\ \A i, g \in 1 .. l : pos[i] = pos[g] => i = g
      /\ \A j \in 1 .. m : j \in J => \E i \in 1 .. l : pos[i] = j
  BY <1>4, <1>5 DEF Restan
<1>7. Llaves(q, n)
  <2>1. \A i \in 1 .. l : q[i].key = s[pos[i]].key /\ pos[i] \in DOMAIN s
    BY <1>3, <1>6
  <2>2. \A i \in 1 .. l : q[i].key \in 1 .. n - 1
    BY <2>1 DEF Llaves
  <2>3. \A i, g \in 1 .. l : q[i].key = q[g].key => i = g
    <3>1. \A a, b \in DOMAIN s : s[a].key = s[b].key => a = b
      BY DEF Llaves
    <3>2. \A i, g \in 1 .. l : q[i].key = q[g].key => pos[i] = pos[g]
      <4> TAKE i, g \in 1 .. l
      <4> HAVE q[i].key = q[g].key
      <4>1. s[pos[i]].key = s[pos[g]].key /\ pos[i] \in DOMAIN s /\ pos[g] \in DOMAIN s
        BY <2>1
      <4> QED
        BY <3>1, <4>1
    <3> QED
      BY <1>6, <3>2
  <2> QED
    BY <1>4, <2>2, <2>3 DEF Llaves
<1>8. ASSUME m > 1 PROVE q # <<>>
  <2>1. 1 \in 1 .. m /\ 2 \in 1 .. m
    BY <1>8
  <2>2. s[1].key # k \/ s[2].key # k
    BY <1>3, <2>1 DEF Llaves
  <2>3. 1 \in J \/ 2 \in J
    BY <1>3, <2>1, <2>2
  <2>4. l # 0
    BY <1>6, <2>1, <2>3
  <2> QED
    BY <1>4, <2>4
<1>9. \A i \in DOMAIN q : \E j \in DOMAIN s : q[i] = s[j]
  BY <1>3, <1>4, <1>6
<1> QED
  BY <1>1, <1>2, <1>3, <1>7, <1>8, <1>9

\* One field of the row with a key is written.
LEMMA ConClaveDa ==
  ASSUME NEW V, NEW s \in Seq(V), NEW n, Llaves(s, n), NEW k, NEW f, NEW v,
         \A r \in V : [r EXCEPT ![f] = v] \in V /\ [r EXCEPT ![f] = v].key = r.key
  PROVE  LET q == ConClave(s, k, f, v) IN
         /\ q \in Seq(V) /\ Llaves(q, n) /\ DOMAIN q = DOMAIN s
         /\ s # <<>> => q # <<>>
         /\ \A j \in DOMAIN s : q[j] = s[j] \/ q[j] = [s[j] EXCEPT ![f] = v]
<1>1. PICK m \in Nat : m = Len(s) /\ DOMAIN s = 1 .. m /\ \A j \in 1 .. m : s[j] \in V
  OBVIOUS
<1>2. PICK q : q = ConClave(s, k, f, v)
  OBVIOUS
<1>3. \A j \in 1 .. m : /\ q[j] \in V /\ q[j].key = s[j].key
                        /\ q[j] = s[j] \/ q[j] = [s[j] EXCEPT ![f] = v]
  BY <1>1, <1>2 DEF ConClave
<1>4. DOMAIN q = 1 .. m /\ q = [j \in 1 .. m |-> q[j]]
  BY <1>1, <1>2 DEF ConClave
<1>5. q \in Seq(V)
  BY <1>1, <1>3, <1>4
<1>6. Llaves(q, n)
  BY <1>1, <1>3, <1>4 DEF Llaves
<1> QED
  BY <1>1, <1>2, <1>3, <1>4, <1>5, <1>6

LEMMA AnexaDa ==
  ASSUME NEW V, NEW s \in Seq(V), NEW n, Llaves(s, n), NEW r \in V, r.key = n
  PROVE  LET q == Append(s, r) IN
         /\ q \in Seq(V) /\ q # <<>> /\ Llaves(q, n + 1)
         /\ \A j \in DOMAIN q : q[j] = r \/ \E i \in DOMAIN s : q[j] = s[i]
<1>1. PICK m \in Nat : m = Len(s) /\ DOMAIN s = 1 .. m
  OBVIOUS
<1>2. PICK q : q = Append(s, r)
  OBVIOUS
<1>3. q \in Seq(V) /\ DOMAIN q = 1 .. m + 1 /\ q[m + 1] = r /\ \A j \in 1 .. m : q[j] = s[j]
  BY <1>1, <1>2
<1>4. \A j \in 1 .. m + 1 : j = m + 1 \/ j \in 1 .. m
  BY <1>1
<1>5. n \in Nat \ {0} /\ n + 1 \in Nat \ {0} /\ \A j \in 1 .. m : s[j].key \in 1 .. n - 1
  BY <1>1 DEF Llaves
<1>6. \A j \in 1 .. m + 1 : q[j].key \in 1 .. n
  BY <1>3, <1>4, <1>5
<1>7. \A j, l \in 1 .. m + 1 : q[j].key = q[l].key => j = l
  <2>1. \A j, l \in 1 .. m : s[j].key = s[l].key => j = l
    BY <1>1 DEF Llaves
  <2>2. \A j \in 1 .. m : q[j].key # n
    BY <1>3, <1>5
  <2> QED
    BY <1>3, <1>4, <2>1, <2>2
<1>8. Llaves(q, n + 1)
  BY <1>3, <1>5, <1>6, <1>7 DEF Llaves
<1> QED
  BY <1>1, <1>2, <1>3, <1>4, <1>8

LEMMA RenglonDa ==
  ASSUME NEW k \in Nat
  PROVE  Renglon(k) \in Renglones /\ Renglon(k).key = k /\ Renglon(k).descuento = 0
BY DEF Renglon, Renglones

\* The form as it is when the page is mounted.
LEMMA FormularioNuevo ==
  ASSUME NEW s, s = <<Renglon(1)>>
  PROVE  /\ s \in Seq(Renglones) /\ s # <<>> /\ Llaves(s, 2)
         /\ \A j \in DOMAIN s : s[j].descuento <= 100
<1>1. PICK r \in Renglones : r = Renglon(1) /\ r.key = 1 /\ r.descuento = 0
  BY RenglonDa
<1>2. s = <<r>> /\ DOMAIN s = {1} /\ s[1] = r
  BY <1>1
<1>3. Llaves(s, 2)
  BY <1>1, <1>2 DEF Llaves
<1> QED
  BY <1>1, <1>2, <1>3

LEMMA CompraInicio ==
  ASSUME PanelInit
  PROVE  CompraInv
<1>1. items = <<Renglon(1)>> /\ nextKey = 2 /\ pagos = <<>> /\ nextPagoKey = 1 /\ tecleando = 0
  BY DEF PanelInit
<1>2. pagos \in Seq(Abonos) /\ Llaves(pagos, nextPagoKey)
  BY <1>1 DEF Llaves
<1>3. SeGuardaLoMostrado
  <2>1. <<>> \in Seq(Renglones) /\ <<>> \in Seq(Abonos) /\ [i \in 1 .. 0 |-> 0] \in [{} -> Int]
    OBVIOUS
  <2>2. [j \in DOMAIN <<>> |-> <<>>[j].monto] \in [{} -> Int]
    OBVIOUS
  <2>3. TotalPagado(<<>>) = 0
    BY <2>2, SumEmpty DEF TotalPagado, Suma
  <2>4. ASSUME NEW f PROVE Pesos(f, <<>>) = 0
    <3>1. [i \in 1 .. Len(<<>>) |-> f[<<>>[i]]] \in [{} -> Int]
      OBVIOUS
    <3> QED
      BY <3>1, SumEmpty DEF Pesos
  <2>5. Pesos(Suman, <<>>) = 0 /\ Pesos(Restado, <<>>) = 0
    BY <2>4
  <2>6. Total(<<>>) = Pesos(Suman, <<>>) - Pesos(Restado, <<>>)
    BY <2>1, TotalDa
  <2>7. Total(<<>>) = 0
    BY <2>5, <2>6
  <2> QED
    BY <2>3, <2>7 DEF SeGuardaLoMostrado, PanelInit, NadaEnviado
<1> QED
  BY <1>1, <1>2, <1>3, FormularioNuevo DEF CompraInv

\* A step that leaves the rows, the payments and what was sent alone.
LEMMA CompraIgual ==
  ASSUME CompraInv, UNCHANGED <<items, nextKey, pagos, nextPagoKey, tecleando, enviada>>
  PROVE  CompraInv'
BY DEF CompraInv, SeGuardaLoMostrado

LEMMA RenglonesPaso ==
  ASSUME CompraInv, UNCHANGED <<pagos, nextPagoKey, enviada>>,
         items' \in Seq(Renglones), items' # <<>>, Llaves(items', nextKey'), tecleando' \in Nat,
         tecleando' = 0 => \A j \in DOMAIN items' : items'[j].descuento <= 100
  PROVE  CompraInv'
BY DEF CompraInv, SeGuardaLoMostrado

LEMMA PagosPaso ==
  ASSUME CompraInv, UNCHANGED <<items, nextKey, tecleando, enviada>>,
         pagos' \in Seq(Abonos), Llaves(pagos', nextPagoKey')
  PROVE  CompraInv'
BY DEF CompraInv, SeGuardaLoMostrado

LEMMA AddRowDa ==
  ASSUME CompraInv, AddRow
  PROVE  CompraInv'
<1>1. /\ items' = Append(items, Renglon(nextKey)) /\ nextKey' = nextKey + 1 /\ tecleando = 0
      /\ UNCHANGED <<pagos, nextPagoKey, tecleando, enviada>>
  BY DEF AddRow, Edita
<1>2. nextKey \in Nat
  BY DEF CompraInv, Llaves
<1>3. PICK r \in Renglones : r = Renglon(nextKey) /\ r.key = nextKey /\ r.descuento = 0
  BY <1>2, RenglonDa
<1>4. /\ items' \in Seq(Renglones) /\ items' # <<>> /\ Llaves(items', nextKey + 1)
      /\ \A j \in DOMAIN items' : items'[j] = r \/ \E i \in DOMAIN items : items'[j] = items[i]
  BY <1>1, <1>3, AnexaDa DEF CompraInv
<1> QED
  BY <1>1, <1>3, <1>4, RenglonesPaso DEF CompraInv

LEMMA RemoveRowDa ==
  ASSUME CompraInv, NEW k, RemoveRow(k)
  PROVE  CompraInv'
<1>1. /\ items' = SinClave(items, k) /\ Len(items) > 1 /\ tecleando = 0
      /\ UNCHANGED <<nextKey, pagos, nextPagoKey, tecleando, enviada>>
  BY DEF RemoveRow, Edita
<1>2. /\ items' \in Seq(Renglones) /\ Llaves(items', nextKey) /\ items' # <<>>
      /\ \A i \in DOMAIN items' : \E j \in DOMAIN items : items'[i] = items[j]
  BY <1>1, LlavesFiltradas DEF CompraInv
<1> QED
  BY <1>1, <1>2, RenglonesPaso DEF CompraInv

LEMMA UpdateRowDa ==
  ASSUME CompraInv, NEW c \in Campos, NEW k, UpdateRow(k, c[1], c[2])
  PROVE  CompraInv'
<1>1. PICK f, v : f = c[1] /\ v = c[2]
  OBVIOUS
<1>2. /\ items' = ConClave(items, k, f, v) /\ tecleando = 0
      /\ UNCHANGED <<nextKey, pagos, nextPagoKey, tecleando, enviada>>
  BY <1>1 DEF UpdateRow, Edita
<1>3. \/ f = "nombre" /\ v = TRUE
      \/ f \in {"precio", "impuesto", "cantidad"} /\ v \in Nat
  <2>1. CASE c \in {<<"nombre", TRUE>>}
    <3>1. c = <<"nombre", TRUE>>
      BY <2>1
    <3>2. c[1] = "nombre" /\ c[2] = TRUE
      BY <3>1
    <3> QED
      BY <1>1, <3>2
  <2>2. CASE c \in {"precio"} \X Precios
    BY <1>1, <2>2, CompraAssumption
  <2>3. CASE c \in {"impuesto"} \X Impuestos
    BY <1>1, <2>3, CompraAssumption
  <2>4. CASE c \in {"cantidad"} \X {IF g < 1 THEN 1 ELSE g : g \in Cantidades}
    <3>1. {IF g < 1 THEN 1 ELSE g : g \in Cantidades} \subseteq Nat
      BY CompraAssumption
    <3> QED
      BY <1>1, <2>4, <3>1
  <2> QED
    BY <2>1, <2>2, <2>3, <2>4 DEF Campos
<1>4. ASSUME NEW r \in Renglones
      PROVE  /\ [r EXCEPT ![f] = v] \in Renglones /\ [r EXCEPT ![f] = v].key = r.key
             /\ [r EXCEPT ![f] = v].descuento = r.descuento
  <2>1. CASE f = "nombre"
    BY <1>3, <2>1 DEF Renglones
  <2>2. CASE f = "precio"
    BY <1>3, <2>2 DEF Renglones
  <2>3. CASE f = "impuesto"
    BY <1>3, <2>3 DEF Renglones
  <2>4. CASE f = "cantidad"
    BY <1>3, <2>4 DEF Renglones
  <2> QED
    BY <1>3, <2>1, <2>2, <2>3, <2>4
<1>5. /\ items' \in Seq(Renglones) /\ Llaves(items', nextKey) /\ items' # <<>>
      /\ DOMAIN items' = DOMAIN items
      /\ \A j \in DOMAIN items : items'[j] = items[j] \/ items'[j] = [items[j] EXCEPT ![f] = v]
  <2>1. PICK q : q = ConClave(items, k, f, v)
    OBVIOUS
  <2>2. items \in Seq(Renglones) /\ Llaves(items, nextKey) /\ items # <<>>
    BY DEF CompraInv
  <2>3. \A r \in Renglones : [r EXCEPT ![f] = v] \in Renglones /\ [r EXCEPT ![f] = v].key = r.key
    BY <1>4
  <2>4. /\ q \in Seq(Renglones) /\ Llaves(q, nextKey) /\ DOMAIN q = DOMAIN items
        /\ items # <<>> => q # <<>>
        /\ \A j \in DOMAIN items : q[j] = items[j] \/ q[j] = [items[j] EXCEPT ![f] = v]
    BY <2>1, <2>2, <2>3, ConClaveDa
  <2> QED
    BY <1>2, <2>1, <2>2, <2>4
<1>6. \A j \in DOMAIN items : items'[j].descuento <= 100
  <2> TAKE j \in DOMAIN items
  <2>1. items[j] \in Renglones /\ items[j].descuento <= 100
    BY <1>2 DEF CompraInv
  <2> QED
    BY <1>4, <1>5, <2>1
<1> QED
  BY <1>2, <1>5, <1>6, RenglonesPaso DEF CompraInv

LEMMA TecleaDescuentoDa ==
  ASSUME CompraInv, NEW k \in Claves(items), NEW d \in Descuentos, TecleaDescuento(k, d)
  PROVE  CompraInv'
<1>1. /\ items' = ConClave(items, k, "descuento", d) /\ tecleando' = k
      /\ UNCHANGED <<nextKey, pagos, nextPagoKey, enviada>>
  BY DEF TecleaDescuento, Edita
<1>2. d \in Nat /\ k \in Nat /\ k # 0
  <2>1. k \in 1 .. nextKey - 1 /\ nextKey \in Nat
    BY DEF CompraInv, Llaves, Claves
  <2> QED
    BY <2>1, CompraAssumption
<1>3. \A r \in Renglones : /\ [r EXCEPT !["descuento"] = d] \in Renglones
                           /\ [r EXCEPT !["descuento"] = d].key = r.key
  BY <1>2 DEF Renglones
<1>4. items' \in Seq(Renglones) /\ Llaves(items', nextKey) /\ items' # <<>>
  BY <1>1, <1>3, ConClaveDa DEF CompraInv
<1> QED
  BY <1>1, <1>2, <1>4, RenglonesPaso

LEMMA DejaDescuentoDa ==
  ASSUME CompraInv, DejaDescuento
  PROVE  CompraInv'
<1>1. PICK m \in Nat : m = Len(items) /\ DOMAIN items = 1 .. m /\ \A j \in 1 .. m : items[j] \in Renglones
  BY DEF CompraInv
<1>2. /\ items' = [j \in 1 .. m |-> [items[j] EXCEPT !.descuento = IF @ > 100 THEN 100 ELSE @]]
      /\ UNCHANGED <<nextKey, pagos, nextPagoKey, enviada>> /\ tecleando' = 0
  BY <1>1 DEF DejaDescuento
<1>3. \A j \in 1 .. m : items'[j] \in Renglones /\ items'[j].key = items[j].key /\ items'[j].descuento <= 100
  <2> TAKE j \in 1 .. m
  <2>1. PICK r \in Renglones : r = items[j]
    BY <1>1
  <2>2. PICK d \in Nat : d <= 100 /\ d = (IF r.descuento > 100 THEN 100 ELSE r.descuento)
    BY DEF Renglones
  <2>3. items'[j] = [r EXCEPT !.descuento = d]
    BY <1>2, <2>1, <2>2
  <2> QED
    BY <2>1, <2>2, <2>3 DEF Renglones
<1>4. DOMAIN items' = 1 .. m /\ items' \in Seq(Renglones)
  BY <1>2, <1>3
<1>5. m # 0 /\ items' # <<>>
  BY <1>1, <1>4 DEF CompraInv
<1>6. Llaves(items', nextKey')
  <2>1. Llaves(items, nextKey)
    BY DEF CompraInv
  <2>2. PICK n : n = nextKey /\ n = nextKey'
    BY <1>2
  <2> QED
    BY <1>1, <1>3, <1>4, <2>1, <2>2 DEF Llaves
<1> QED
  BY <1>2, <1>3, <1>4, <1>5, <1>6, RenglonesPaso

LEMMA PagosDa ==
  ASSUME CompraInv, AddPago \/ \E k : RemovePago(k) \/ \E v \in Precios : UpdatePago(k, v)
  PROVE  CompraInv'
<1>1. CASE AddPago
  <2>1. /\ pagos' = Append(pagos, [key |-> nextPagoKey, monto |-> 0]) /\ nextPagoKey' = nextPagoKey + 1
        /\ UNCHANGED <<items, nextKey, tecleando, enviada>>
    BY <1>1 DEF AddPago, Edita
  <2>2. PICK r \in Abonos : r = [key |-> nextPagoKey, monto |-> 0] /\ r.key = nextPagoKey
    <3>1. nextPagoKey \in Nat
      BY DEF CompraInv, Llaves
    <3>2. [key |-> nextPagoKey, monto |-> 0] \in Abonos
      BY <3>1 DEF Abonos
    <3> QED
      BY <3>2
  <2>3. pagos' \in Seq(Abonos) /\ Llaves(pagos', nextPagoKey + 1)
    BY <2>1, <2>2, AnexaDa DEF CompraInv
  <2> QED
    BY <2>1, <2>3, PagosPaso
<1>2. ASSUME NEW k, RemovePago(k) PROVE CompraInv'
  <2>1. pagos' = SinClave(pagos, k) /\ UNCHANGED <<items, nextKey, nextPagoKey, tecleando, enviada>>
    BY <1>2 DEF RemovePago, Edita
  <2>2. pagos' \in Seq(Abonos) /\ Llaves(pagos', nextPagoKey)
    BY <2>1, LlavesFiltradas DEF CompraInv
  <2> QED
    BY <2>1, <2>2, PagosPaso
<1>3. ASSUME NEW k, NEW v \in Precios, UpdatePago(k, v) PROVE CompraInv'
  <2>1. /\ pagos' = ConClave(pagos, k, "monto", v)
        /\ UNCHANGED <<items, nextKey, nextPagoKey, tecleando, enviada>>
    BY <1>3 DEF UpdatePago, Edita
  <2>2. \A r \in Abonos : [r EXCEPT !["monto"] = v] \in Abonos /\ [r EXCEPT !["monto"] = v].key = r.key
    BY CompraAssumption DEF Abonos
  <2>3. pagos' \in Seq(Abonos) /\ Llaves(pagos', nextPagoKey)
    BY <2>1, <2>2, ConClaveDa DEF CompraInv
  <2> QED
    BY <2>1, <2>3, PagosPaso
<1> QED
  BY <1>1, <1>2, <1>3

LEMMA HandleGuardarDa ==
  ASSUME CompraInv, HandleGuardar
  PROVE  CompraInv'
<1>1. /\ enviada' = [items |-> ValidItems(items), pagos |-> Filtra(pagos, LAMBDA p : p.monto > 0),
                     total |-> Total(items), totalPagado |-> TotalPagado(pagos)]
      /\ UNCHANGED <<items, nextKey, pagos, nextPagoKey, tecleando>>
  BY DEF HandleGuardar, form
<1>2. Total(ValidItems(items)) = Total(items)
  BY ValidItemsDa DEF CompraInv
<1>3. TotalPagado(Filtra(pagos, LAMBDA p : p.monto > 0)) = TotalPagado(pagos)
  BY PagadoDa DEF CompraInv
<1>4. Total(enviada'.items) = enviada'.total /\ TotalPagado(enviada'.pagos) = enviada'.totalPagado
  BY <1>1, <1>2, <1>3
<1>5. SeGuardaLoMostrado'
  BY <1>4 DEF SeGuardaLoMostrado
<1> QED
  BY <1>1, <1>5 DEF CompraInv

LEMMA AComprasDa ==
  ASSUME CompraInv, items' = <<Renglon(1)>>, nextKey' = 2, pagos' = <<>>, nextPagoKey' = 1,
         tecleando' = 0, UNCHANGED enviada
  PROVE  CompraInv'
<1>1. pagos' \in Seq(Abonos) /\ Llaves(pagos', nextPagoKey')
  BY DEF Llaves
<1>2. /\ items' \in Seq(Renglones) /\ items' # <<>> /\ Llaves(items', nextKey')
      /\ \A j \in DOMAIN items' : items'[j].descuento <= 100
  BY FormularioNuevo
<1> QED
  BY <1>1, <1>2 DEF CompraInv, SeGuardaLoMostrado

LEMMA CompraPaso ==
  ASSUME CompraInv, [PanelNext]_panelVars
  PROVE  CompraInv'
<1>1. CASE UNCHANGED panelVars
  BY <1>1, CompraIgual DEF panelVars, form
<1>2. CASE Next /\ UNCHANGED <<form, enviada>>
  BY <1>2, CompraIgual DEF form
<1>3. CASE AddRow
  BY <1>3, AddRowDa
<1>4. CASE DejaDescuento
  BY <1>4, DejaDescuentoDa
<1>5. CASE ProveedoresLlegan
  BY <1>5, CompraIgual DEF ProveedoresLlegan
<1>6. CASE EligeProveedor
  BY <1>6, CompraIgual DEF EligeProveedor, Edita
<1>7. ASSUME NEW k \in Claves(items),
             RemoveRow(k) \/ (\E c \in Campos : UpdateRow(k, c[1], c[2]))
               \/ \E d \in Descuentos : TecleaDescuento(k, d)
      PROVE  CompraInv'
  BY <1>7, RemoveRowDa, UpdateRowDa, TecleaDescuentoDa
<1>8. ASSUME AddPago \/ \E k \in Claves(pagos) : RemovePago(k) \/ \E v \in Precios : UpdatePago(k, v)
      PROVE  CompraInv'
  BY <1>8, PagosDa
<1>9. CASE HandleGuardar
  BY <1>9, HandleGuardarDa
<1>10. CASE Cancela
  BY <1>10, AComprasDa DEF Cancela, ACompras
<1>11. ASSUME NEW k \in DOMAIN vuelo, Navega(k) PROVE CompraInv'
  BY <1>11, AComprasDa DEF Navega, ACompras
<1> QED
  BY <1>1, <1>2, <1>3, <1>4, <1>5, <1>6, <1>7, <1>8, <1>9, <1>10, <1>11 DEF PanelNext, Compra

LEMMA LlavesCuentan ==
  ASSUME NEW V, NEW s \in Seq(V), NEW n, Llaves(s, n)
  PROVE  Cardinality(Claves(s)) = Len(s)
<1>1. PICK m \in Nat : m = Len(s) /\ DOMAIN s = 1 .. m
  OBVIOUS
<1> DEFINE S == Claves(s)
           h == [j \in 1 .. m |-> s[j].key]
<1>2. h \in [1 .. m -> S]
  BY <1>1 DEF Claves
<1>3. \A a, b \in 1 .. m : h[a] = h[b] => a = b
  BY <1>1 DEF Llaves
<1>4. \A x \in S : \E a \in 1 .. m : h[a] = x
  BY <1>1 DEF Claves
<1> HIDE DEF S, h
<1>5. h \in Bijection(1 .. m, S)
  BY <1>2, <1>3, <1>4 DEF Bijection, Injection, Surjection, IsInjective
<1>6. ExistsBijection(1 .. m, S)
  BY <1>5 DEF ExistsBijection
<1>7. Cardinality(S) = m
  BY <1>6, FS_CountingElements
<1> QED
  BY <1>1, <1>7 DEF S

LEMMA CompraInvCuadra ==
  ASSUME CompraInv
  PROVE  CompraCuadra
<1>1. ClavesUnicas
  BY LlavesCuentan DEF CompraInv, ClavesUnicas
<1>2. TotalEsSuma
  BY TotalSuma DEF CompraInv, TotalEsSuma
<1> QED
  BY <1>1, <1>2 DEF CompraInv, CompraCuadra

\* The form tells its rows and payments apart whatever was added and removed, its
\* two ways to compute the total agree, and what is saved adds up to what was on
\* the screen (updateRow, calcLineTotal, handleGuardar of NuevaCompraPage).
THEOREM CompraSiempreCuadra == PanelSpec => []CompraCuadra
<1>1. PanelInit => CompraInv
  BY CompraInicio
<1>2. CompraInv /\ [PanelNext]_panelVars => CompraInv'
  BY CompraPaso
<1>3. CompraInv => CompraCuadra
  BY CompraInvCuadra
<1> QED
  BY <1>1, <1>2, <1>3, PTL DEF PanelSpec

-----------------------------------------------------------------------------
(* The calls *)

\* The server's rows, and rows as an answer shows them.
Registros == [existe : BOOLEAN, activa : BOOLEAN, n : [Filtros -> Nat]]
Fichas == [existe : BOOLEAN, activa : BOOLEAN, n : Nat]
Vivas == [existe : {TRUE}, activa : BOOLEAN, n : Nat]
Vistas == UNION {[S -> Vivas] : S \in SUBSET Filas}
Copias == [de : Filtros \cup {Nadie}, filas : Vistas]

Escrituras == {"sub", "alta", "guardar", "estado", "borrar"}
Operaciones == Lecturas \cup Escrituras
Sujetos == Filas \cup {Nadie}
Locales == {Vacio, "voltea", "stock", "estado", "quita", "marca", "todas", "reset", "navega", "fiscal"}
Colas == {<<>>, <<"lista">>, <<"lotes">>, <<"variantes", "lista">>, <<"movs">>,
          <<"movs", "lista">>, <<"cliente", "movs", "lista">>, <<"pdf">>}

Nombres ==
  {"voltea", "stock", "estado", "quita", "marca", "todas", "reset", "navega", "fiscal",
   "lote", "importing", "saved", "refreshing", "form", "importar", "baja", "desarme",
   "anular", "pago", "precio", "lotes", "variantes", "chatLoading", "metricasLoading"}

\* The flags of the protected buttons, and those of forms that stay on the page.
Banderas == {"saving", "deleting", "savingVinculo", "savingEditVinculo", "deletingVinculo",
             "savingEstado", "pagoLoading", "creandoLote", "creandoVariante", "csvLoading",
             "loading"}
Abiertas == {"creandoLote", "creandoVariante", "csvLoading"}

Textos == {Vacio} \cup Nombres \cup Banderas

Llamadas ==
  [op : Operaciones, sobre : Sujetos, q : Filtros \cup {Nadie},
   flag : Textos, luego : Colas, local : Locales, cierra : Textos, vale : BOOLEAN,
   vio : Fichas, resto : SUBSET Filas, hoja : Nat, ida : BOOLEAN, res : Fichas \cup Vistas]

Tres == {"productos", "usuarios", "sucursales"}
Quietas == {"compra", "fiscal", "nueva", "onboarding"}  \* pages without a dialog

\* What the handlers of page p send: a form, a deletion or a restock, then the list;
ConRecarga(p, c) ==
  /\ p \notin SinLista \cup {"reportes"} /\ c.luego = <<"lista">> /\ c.local = Vacio /\ c.resto = {}
  /\ \/ /\ c.op \in {"alta", "guardar"} /\ c.cierra = "form"
        /\ c.flag \in {Vacio, "saving", "savingVinculo", "savingEditVinculo"}
     \/ c.op = "alta" /\ c.cierra = "importar" /\ c.flag = "importing"
     \/ /\ p \notin Tres /\ c.op \in {"borrar", "estado"} /\ c.cierra = "baja"
        /\ c.flag \in {Vacio, "deleting", "deletingVinculo"}
     \/ p \notin Tres /\ c.op = "estado" /\ c.cierra = Vacio /\ c.flag = Vacio
     \/ c.op = "guardar" /\ c.cierra \in {"desarme", "stock"} /\ c.flag = Vacio
  /\ c.op = "alta" => c.sobre = Nadie

\* a switch, a state, an amount, a deletion, a mark, each applied to the copy;
DeLlave(p, c) ==
  /\ p \in Tres /\ c.op = "estado" /\ c.local = "voltea" /\ c.luego = <<>>
  /\ c.cierra = Vacio /\ c.flag = Vacio /\ c.resto = {}

DeEstado(p, c) ==
  /\ c.op = "estado" /\ c.local = "estado" /\ c.luego = <<>> /\ c.cierra = Vacio /\ c.resto = {}
  /\ (p = "compras" /\ c.flag = Vacio) \/ (p = "compra" /\ c.flag = "savingEstado")

DeStock(p, c) ==
  /\ c.op = "guardar" /\ c.local = "stock" /\ c.luego = <<>> /\ c.resto = {}
  /\ \/ p \in {"productos", "inventario"} /\ c.flag = Vacio /\ c.cierra \in {Vacio, "stock"}
     \/ p = "fiscal" /\ c.flag = "saving" /\ c.cierra = Vacio

DeQuita(p, c) ==
  /\ p = "compras" /\ c.op = "borrar" /\ c.luego = <<>> /\ c.flag = "deleting"
  /\ c.local = "quita" /\ c.cierra = "baja" /\ c.resto = {}

DeMarca(p, c) ==
  /\ c.op = "estado" /\ ~c.vale /\ c.local = "marca" /\ c.flag = Vacio /\ c.resto = {}
  /\ c.sobre \in Filas
  /\ \/ p = "facturacion" /\ c.luego = <<"lista">> /\ c.cierra = "anular"
     \/ p = "cierre" /\ c.luego = <<>> /\ c.cierra = Vacio

\* the deletion of the rows selected;
DeTodas(p, c) ==
  /\ p = "productos" /\ c.op = "estado" /\ ~c.vale /\ c.local = "todas" /\ c.flag = "deleting"
  /\ c.luego = <<"lista">> /\ c.cierra = Vacio

\* the reads of panels, accounts, documents and the assistant, and what is written there;
DePanel(p, c) ==
  /\ p \in {"productos", "clientes", "facturacion", "ai"} /\ c.op \in Lecturas \ {"lista"}
  /\ c.luego \in {<<>>, <<"movs">>, <<"pdf">>} /\ (p = "ai" => c.luego = <<>>)
  /\ c.op = "cliente" <=> c.luego = <<"movs">>
  /\ c.local = Vacio /\ c.cierra = Vacio /\ c.flag \notin Banderas \cup {"saved"} /\ c.resto = {}

DeAnexo(p, c) ==
  /\ p \in {"productos", "proveedores"} /\ c.op = "sub" /\ c.cierra = Vacio /\ c.resto = {}
  /\ c.luego \in {<<>>, <<"lotes">>, <<"variantes", "lista">>}
  /\ (c.flag \in Abiertas /\ c.local = "reset") \/ (c.flag = Vacio /\ c.local = Vacio)

DePago(p, c) ==
  /\ p = "clientes" /\ c.op = "guardar" /\ c.luego = <<"cliente", "movs", "lista">>
  /\ c.flag = "pagoLoading" /\ c.local = Vacio /\ c.cierra = "pago" /\ c.resto = {}

\* the forms that leave their page; and the list.
DeAsistente(p, c) ==
  /\ p = "onboarding" /\ c.op = "sub" /\ c.luego = <<>> /\ c.flag = "loading"
  /\ c.local = "fiscal" /\ c.cierra = Vacio /\ c.resto = {}

DeCompra(p, c) ==
  /\ p = "nueva" /\ c.op = "alta" /\ c.sobre = Nadie /\ c.luego = <<>> /\ c.flag = "saving"
  /\ c.local = "navega" /\ c.cierra = Vacio /\ c.resto = {}

DeLista(p, c) ==
  /\ p \notin {"nueva", "ai", "onboarding"} /\ c.op = "lista" /\ c.luego = <<>>
  /\ c.flag \in {Vacio, "refreshing"} /\ c.local = Vacio /\ c.cierra = Vacio /\ c.resto = {}

Molde(p, c) ==
  \/ ConRecarga(p, c) \/ DeLlave(p, c) \/ DeEstado(p, c) \/ DeStock(p, c) \/ DeQuita(p, c)
  \/ DeMarca(p, c) \/ DeTodas(p, c) \/ DePanel(p, c) \/ DeAnexo(p, c) \/ DePago(p, c)
  \/ DeAsistente(p, c) \/ DeCompra(p, c) \/ DeLista(p, c)

\* What a call in flight on page p is, whichever of a chain it is.
Forma(p, c) ==
  /\ c \in Llamadas
  /\ c.ida \/ c.res \in (IF c.op = "lista" THEN Vistas ELSE Fichas)
  /\ c.op = "alta" => c.sobre = Nadie
  /\ c.op = "lista" => c.luego = <<>> /\ c.local = Vacio
  /\ c.resto # {} => c.local = "todas"
  /\ c.local = "todas" => p = "productos" /\ c.op = "estado" /\ c.luego = <<"lista">> /\ ~c.vale
  /\ c.local = "voltea" => p \in Tres /\ c.op = "estado" /\ c.luego = <<>> /\ c.cierra = Vacio
  /\ c.local = "stock" => c.op = "guardar" /\ c.luego = <<>>
  /\ c.local = "estado" => c.op = "estado" /\ c.luego = <<>>
  /\ c.local = "quita" => c.op = "borrar" /\ c.luego = <<>>
  /\ c.local = "marca" => /\ c.op = "estado" /\ ~c.vale /\ p \in {"facturacion", "cierre"}
                          /\ c.sobre \in Filas /\ (p = "facturacion" => c.luego = <<"lista">>)
  /\ c.local = "navega" => p = "nueva"
  /\ c.local = "fiscal" => p = "onboarding"
  /\ c.op \in Escrituras \ {"sub"} /\ c.local = Vacio =>
       Contains(c.luego, "lista") \/ (c.op = "alta" /\ c.luego = <<>> /\ p = "compras")
  /\ c.cierra = "lote" => c.op = "lista" /\ p = "productos"
  /\ p \in {"reportes", "consulta"} => c.op = "lista"
  /\ p \in {"nueva", "ai", "onboarding"} => c.op # "lista" /\ c.luego = <<>>
  /\ c.flag # "saved"
  /\ Protegida(c) => c.flag \in Banderas
  /\ Protegida(c) => \/ c.local \in {"reset", "fiscal", "navega"} \/ p \in {"compra", "fiscal"}
                     \/ c.cierra # Vacio /\ p \notin Quietas
  /\ c.flag \in Abiertas /\ Escritura(c) => c.local = "reset"
  /\ c.op = "cliente" <=> c.luego \in {<<"movs">>, <<"movs", "lista">>}
  /\ c.local = "reset" => c.op = "sub"
  /\ p \in Tres => c.op # "borrar" /\ (c.op = "estado" => c.local \in {"voltea", "todas"})
  /\ p = "onboarding" => c.flag = "loading" /\ c.local = "fiscal" /\ c.op = "sub"
  /\ p = "nueva" => c.flag = "saving" /\ c.local = "navega" /\ c.op = "alta"

\* The empty string is none of the names in use.
LEMMA VacioDa == \A x \in Nombres \cup Banderas : Vacio # x
<1>1. Vacio # "voltea" /\ Vacio # "stock" /\ Vacio # "estado" /\ Vacio # "quita" /\
      Vacio # "marca" /\ Vacio # "todas" /\ Vacio # "reset" /\ Vacio # "navega" /\
      Vacio # "fiscal" /\ Vacio # "lote" /\ Vacio # "importing" /\ Vacio # "saved" /\
      Vacio # "refreshing" /\ Vacio # "form" /\ Vacio # "importar" /\ Vacio # "baja" /\
      Vacio # "desarme" /\ Vacio # "anular" /\ Vacio # "pago" /\ Vacio # "precio" /\
      Vacio # "lotes" /\ Vacio # "variantes" /\ Vacio # "chatLoading" /\
      Vacio # "metricasLoading"
  BY Zenon DEF Vacio
<1>2. Vacio # "saving" /\ Vacio # "deleting" /\ Vacio # "savingVinculo" /\
      Vacio # "savingEditVinculo" /\ Vacio # "deletingVinculo" /\ Vacio # "savingEstado" /\
      Vacio # "pagoLoading" /\ Vacio # "creandoLote" /\ Vacio # "creandoVariante" /\
      Vacio # "csvLoading" /\ Vacio # "loading"
  BY Zenon DEF Vacio
<1> QED
  BY <1>1, <1>2 DEF Nombres, Banderas

LEMMA MoldeForma ==
  ASSUME NEW p, NEW c \in Llamadas, Molde(p, c), c.ida
  PROVE  Forma(p, c)
<1>1. Contains(<<"lista">>, "lista") /\ Contains(<<"cliente", "movs", "lista">>, "lista")
  BY DEF Contains
<1>2. CASE ConRecarga(p, c)
  BY <1>1, VacioDa, <1>2 DEF ConRecarga, Forma, Protegida, Escritura, Lecturas, Escrituras, Banderas, Abiertas,
       SinLista, Quietas, Tres, Nombres
<1>3. CASE DeLlave(p, c)
  BY <1>1, VacioDa, <1>3 DEF DeLlave, Forma, Protegida, Escritura, Lecturas, Escrituras, Banderas, Abiertas,
       SinLista, Quietas, Tres, Nombres
<1>4. CASE DeEstado(p, c)
  BY <1>1, VacioDa, <1>4 DEF DeEstado, Forma, Protegida, Escritura, Lecturas, Escrituras, Banderas, Abiertas,
       SinLista, Quietas, Tres, Nombres
<1>5. CASE DeStock(p, c)
  BY <1>1, VacioDa, <1>5 DEF DeStock, Forma, Protegida, Escritura, Lecturas, Escrituras, Banderas, Abiertas,
       SinLista, Quietas, Tres, Nombres
<1>6. CASE DeQuita(p, c)
  BY <1>1, VacioDa, <1>6 DEF DeQuita, Forma, Protegida, Escritura, Lecturas, Escrituras, Banderas, Abiertas,
       SinLista, Quietas, Tres, Nombres
<1>7. CASE DeMarca(p, c)
  BY <1>1, VacioDa, <1>7 DEF DeMarca, Forma, Protegida, Escritura, Lecturas, Escrituras, Banderas, Abiertas,
       SinLista, Quietas, Tres, Nombres
<1>8. CASE DeTodas(p, c)
  BY <1>1, VacioDa, <1>8 DEF DeTodas, Forma, Protegida, Escritura, Lecturas, Escrituras, Banderas, Abiertas,
       SinLista, Quietas, Tres, Nombres
<1>9. CASE DePanel(p, c)
  BY <1>1, VacioDa, <1>9 DEF DePanel, Forma, Protegida, Escritura, Lecturas, Escrituras, Banderas, Abiertas,
       SinLista, Quietas, Tres, Nombres
<1>10. CASE DeAnexo(p, c)
  BY <1>1, VacioDa, <1>10 DEF DeAnexo, Forma, Protegida, Escritura, Lecturas, Escrituras, Banderas, Abiertas,
       SinLista, Quietas, Tres, Nombres
<1>11. CASE DePago(p, c)
  BY <1>1, VacioDa, <1>11 DEF DePago, Forma, Protegida, Escritura, Lecturas, Escrituras, Banderas, Abiertas,
       SinLista, Quietas, Tres, Nombres
<1>12. CASE DeAsistente(p, c)
  BY <1>1, VacioDa, <1>12 DEF DeAsistente, Forma, Protegida, Escritura, Lecturas, Escrituras, Banderas, Abiertas,
       SinLista, Quietas, Tres, Nombres
<1>13. CASE DeCompra(p, c)
  BY <1>1, VacioDa, <1>13 DEF DeCompra, Forma, Protegida, Escritura, Lecturas, Escrituras, Banderas, Abiertas,
       SinLista, Quietas, Tres, Nombres
<1>14. CASE DeLista(p, c)
  BY <1>1, VacioDa, <1>14 DEF DeLista, Forma, Protegida, Escritura, Lecturas, Escrituras, Banderas, Abiertas,
       SinLista, Quietas, Tres, Nombres
<1> QED
  BY <1>2, <1>3, <1>4, <1>5, <1>6, <1>7, <1>8, <1>9, <1>10, <1>11, <1>12, <1>13, <1>14 DEF Molde

LEMMA ColasDa ==
  ASSUME NEW l \in Colas
  PROVE  /\ \/ l = <<>>
            \/ /\ l # <<>> /\ Head(l) \in Lecturas /\ Tail(l) \in Colas
               /\ \A x : Contains(l, x) <=> Head(l) = x \/ Contains(Tail(l), x)
         /\ \A x : ~Contains(<<>>, x)
<1>1. \A x : ~Contains(<<>>, x)
  BY DEF Contains
<1>2. ASSUME NEW x
      PROVE  /\ Contains(<<"lista">>, x) <=> x = "lista"
             /\ Contains(<<"lotes">>, x) <=> x = "lotes"
             /\ Contains(<<"movs">>, x) <=> x = "movs"
             /\ Contains(<<"pdf">>, x) <=> x = "pdf"
             /\ Contains(<<"variantes", "lista">>, x) <=> x \in {"variantes", "lista"}
             /\ Contains(<<"movs", "lista">>, x) <=> x \in {"movs", "lista"}
             /\ Contains(<<"cliente", "movs", "lista">>, x) <=> x \in {"cliente", "movs", "lista"}
  BY DEF Contains
<1>3. CASE l \in {<<"lista">>, <<"lotes">>, <<"movs">>, <<"pdf">>}
  <2>1. PICK h \in {"lista", "lotes", "movs", "pdf"} : l = <<h>>
    BY <1>3
  <2>2. Tail(l) = <<>> /\ Head(l) = h /\ l # <<>>
    BY <2>1
  <2>3. ASSUME NEW x PROVE Contains(l, x) <=> Head(l) = x
    BY <1>2, <2>1, <2>2
  <2> QED
    BY <1>1, <2>2, <2>3 DEF Colas, Lecturas
<1>4. CASE l = <<"variantes", "lista">>
  <2>1. Tail(l) = <<"lista">> /\ Head(l) = "variantes"
    BY <1>4
  <2> QED
    BY <1>1, <1>2, <1>4, <2>1 DEF Colas, Lecturas
<1>5. CASE l = <<"movs", "lista">>
  <2>1. Tail(l) = <<"lista">> /\ Head(l) = "movs"
    BY <1>5
  <2> QED
    BY <1>1, <1>2, <1>5, <2>1 DEF Colas, Lecturas
<1>6. CASE l = <<"cliente", "movs", "lista">>
  <2>1. Tail(l) = <<"movs", "lista">> /\ Head(l) = "cliente"
    BY <1>6
  <2> QED
    BY <1>1, <1>2, <1>6, <2>1 DEF Colas, Lecturas
<1> QED
  BY <1>1, <1>3, <1>4, <1>5, <1>6 DEF Colas

\* The sets the fields of a call are taken from.
LEMMA CamposDa ==
  /\ Escrituras \subseteq Operaciones /\ Lecturas \subseteq Operaciones
  /\ Nadie \in Sujetos /\ Filas \subseteq Sujetos /\ NoVista \in Fichas /\ {} \in SUBSET Filas
  /\ Vacio \in Textos /\ Vacio \in Locales /\ Nombres \cup Banderas \subseteq Textos
  /\ {<<>>, <<"lista">>, <<"lotes">>, <<"movs">>, <<"pdf">>, <<"variantes", "lista">>,
      <<"cliente", "movs", "lista">>} \subseteq Colas
  /\ Banderas \cap {Vacio, "lotes", "variantes", "chatLoading", "metricasLoading", "importing",
                    "refreshing"} = {}
  /\ ~Contains(<<>>, "lotes") /\ ~Contains(<<>>, "variantes")
  /\ ~Contains(<<"lista">>, "lotes") /\ ~Contains(<<"lista">>, "variantes")
  /\ ~Contains(<<"movs">>, "lotes") /\ ~Contains(<<"movs">>, "variantes")
  /\ ~Contains(<<"pdf">>, "lotes") /\ ~Contains(<<"pdf">>, "variantes")
  /\ ~Contains(<<"lotes">>, "variantes") /\ ~Contains(<<"variantes", "lista">>, "lotes")
  /\ ~Contains(<<"cliente", "movs", "lista">>, "lotes")
  /\ ~Contains(<<"cliente", "movs", "lista">>, "variantes")
<1>1. NoVista \in Fichas
  BY DEF NoVista, No, Fichas
<1>2. Vacio \in Textos /\ Vacio \in Locales /\ Nombres \cup Banderas \subseteq Textos
  BY DEF Textos, Locales
<1>3. Banderas \cap {Vacio, "lotes", "variantes", "chatLoading", "metricasLoading", "importing",
                     "refreshing"} = {}
  BY VacioDa DEF Banderas
<1>4. {<<>>, <<"lista">>, <<"lotes">>, <<"movs">>, <<"pdf">>, <<"variantes", "lista">>,
       <<"cliente", "movs", "lista">>} \subseteq Colas
  BY DEF Colas
<1>5. /\ ~Contains(<<>>, "lotes") /\ ~Contains(<<>>, "variantes")
      /\ ~Contains(<<"lista">>, "lotes") /\ ~Contains(<<"lista">>, "variantes")
      /\ ~Contains(<<"movs">>, "lotes") /\ ~Contains(<<"movs">>, "variantes")
      /\ ~Contains(<<"pdf">>, "lotes") /\ ~Contains(<<"pdf">>, "variantes")
      /\ ~Contains(<<"lotes">>, "variantes") /\ ~Contains(<<"variantes", "lista">>, "lotes")
      /\ ~Contains(<<"cliente", "movs", "lista">>, "lotes")
      /\ ~Contains(<<"cliente", "movs", "lista">>, "variantes")
  BY DEF Contains
<1>6. /\ Escrituras \subseteq Operaciones /\ Lecturas \subseteq Operaciones
      /\ Nadie \in Sujetos /\ Filas \subseteq Sujetos
  BY DEF Operaciones, Sujetos
<1> QED
  BY <1>1, <1>2, <1>3, <1>4, <1>5, <1>6

\* The call that follows another one of its chain.
Sigue(p, c, d) ==
  /\ Forma(p, d) /\ d.ida /\ d.q = c.q /\ d.hoja = c.hoja
  /\ \/ /\ c.resto # {} /\ d.sobre \in c.resto /\ d.resto = c.resto \ {d.sobre}
        /\ d.op = c.op /\ d.luego = c.luego /\ d.local = c.local /\ d.flag = c.flag
        /\ d.cierra = c.cierra /\ d.vale = c.vale
     \/ /\ c.resto = {} /\ c.luego # <<>> /\ d.resto = {} /\ d.sobre = c.sobre
        /\ d.op = Head(c.luego) /\ d.luego = Tail(c.luego)
        /\ d.flag = (IF c.flag = "importing" THEN Vacio ELSE c.flag)
        /\ d.local = Vacio /\ d.cierra = (IF c.local = "todas" THEN "lote" ELSE Vacio)

LEMMA ProximaDa ==
  ASSUME NEW p, NEW c, Forma(p, c)
  PROVE  \/ Proxima(c) = <<>> /\ c.luego = <<>> /\ c.resto = {}
         \/ \E d : Proxima(c) = <<d>> /\ Sigue(p, c, d)
<1>1. c \in Llamadas
  BY DEF Forma
<1>2. CASE c.resto # {}
  <2>1. PICK i \in Filas : i = (CHOOSE j \in c.resto : TRUE) /\ i \in c.resto
    BY <1>1, <1>2 DEF Llamadas
  <2>0. PICK R \in SUBSET Filas : R = c.resto \ {i}
    BY <1>1 DEF Llamadas
  <2>2. PICK d : d = [c EXCEPT !.sobre = i, !.resto = R, !.ida = TRUE]
    OBVIOUS
  <2>3. Proxima(c) = <<d>>
    BY <1>2, <2>0, <2>1, <2>2 DEF Proxima
  <2>4. /\ d.sobre = i /\ d.resto = R /\ d.ida /\ d.op = c.op /\ d.q = c.q
        /\ d.flag = c.flag /\ d.luego = c.luego /\ d.local = c.local /\ d.cierra = c.cierra
        /\ d.vale = c.vale /\ d.hoja = c.hoja
    BY <1>1, <2>2 DEF Llamadas
  <2>5. d \in Llamadas
    <3>1. d = [op |-> c.op, sobre |-> i, q |-> c.q, flag |-> c.flag, luego |-> c.luego,
               local |-> c.local, cierra |-> c.cierra, vale |-> c.vale, vio |-> c.vio, resto |-> R,
               hoja |-> c.hoja, ida |-> TRUE, res |-> c.res]
      BY <1>1, <2>2 DEF Llamadas
    <3>2. i \in Sujetos
      BY <2>1, CamposDa
    <3> QED
      BY <1>1, <2>1, <3>1, <3>2 DEF Llamadas
  <2>6. Forma(p, d)
    BY <1>2, <2>1, <2>4, <2>5 DEF Forma, Protegida, Escritura
  <2> QED
    BY <1>2, <2>0, <2>1, <2>3, <2>4, <2>6 DEF Sigue
<1>3. CASE c.resto = {} /\ c.luego = <<>>
  BY <1>3 DEF Proxima
<1>4. CASE c.resto = {} /\ c.luego # <<>>
  <2>1. PICK d : d = [c EXCEPT !.op = Head(c.luego), !.luego = Tail(c.luego), !.ida = TRUE,
                        !.flag = IF c.flag = "importing" THEN Vacio ELSE c.flag,
                        !.local = Vacio, !.cierra = IF c.local = "todas" THEN "lote" ELSE Vacio]
    OBVIOUS
  <2>2. Proxima(c) = <<d>>
    BY <1>4, <2>1 DEF Proxima
  <2>3. /\ d.sobre = c.sobre /\ d.resto = {} /\ d.ida /\ d.op = Head(c.luego) /\ d.q = c.q
        /\ d.flag = (IF c.flag = "importing" THEN Vacio ELSE c.flag) /\ d.luego = Tail(c.luego)
        /\ d.local = Vacio /\ d.cierra = (IF c.local = "todas" THEN "lote" ELSE Vacio)
        /\ d.hoja = c.hoja
    BY <1>1, <1>4, <2>1 DEF Llamadas
  <2>4. c.luego \in Colas
    BY <1>1 DEF Llamadas
  <2>5. Head(c.luego) \in Lecturas /\ Tail(c.luego) \in Colas
    BY <1>4, <2>4, ColasDa
  <2>6. d \in Llamadas
    <3>1. /\ Vacio \in Textos /\ "lote" \in Textos /\ Vacio \in Locales
          /\ Head(c.luego) \in Operaciones
      BY <2>5, CamposDa DEF Textos, Locales, Nombres
    <3> QED
      BY <1>1, <2>1, <2>5, <3>1 DEF Llamadas
  <2>7. Head(c.luego) = "lista" => Tail(c.luego) = <<>>
    <3>1. /\ Tail(<<"lista">>) = <<>> /\ Head(<<"lotes">>) = "lotes" /\ Head(<<"movs">>) = "movs"
          /\ Head(<<"variantes", "lista">>) = "variantes" /\ Head(<<"movs", "lista">>) = "movs"
          /\ Head(<<"cliente", "movs", "lista">>) = "cliente" /\ Head(<<"pdf">>) = "pdf"
      OBVIOUS
    <3>2. c.luego \in Colas \ {<<>>}
      BY <1>4, <2>4
    <3> QED
      BY <3>1, <3>2 DEF Colas
  <2>8. Head(c.luego) \notin Escrituras /\ ~Escritura(d) /\ ~Protegida(d)
    BY <2>3, <2>5 DEF Escrituras, Lecturas, Escritura, Protegida
  <2>9. d.op = "cliente" <=> d.luego \in {<<"movs">>, <<"movs", "lista">>}
    <3>1. /\ Head(<<"lista">>) = "lista" /\ Head(<<"lotes">>) = "lotes" /\ Head(<<"movs">>) = "movs"
          /\ Head(<<"variantes", "lista">>) = "variantes" /\ Head(<<"movs", "lista">>) = "movs"
          /\ Head(<<"cliente", "movs", "lista">>) = "cliente" /\ Head(<<"pdf">>) = "pdf"
          /\ Tail(<<"lista">>) = <<>> /\ Tail(<<"lotes">>) = <<>> /\ Tail(<<"movs">>) = <<>>
          /\ Tail(<<"variantes", "lista">>) = <<"lista">> /\ Tail(<<"movs", "lista">>) = <<"lista">>
          /\ Tail(<<"cliente", "movs", "lista">>) = <<"movs", "lista">> /\ Tail(<<"pdf">>) = <<>>
      OBVIOUS
    <3>2. /\ <<>> \notin {<<"movs">>, <<"movs", "lista">>}
          /\ <<"lista">> \notin {<<"movs">>, <<"movs", "lista">>}
      OBVIOUS
    <3>3. c.luego \in Colas \ {<<>>}
      BY <1>4, <2>4
    <3> QED
      BY <2>3, <3>1, <3>2, <3>3 DEF Colas
  <2>10. Forma(p, d)
    <3>1. d.op \notin {"estado", "borrar", "sub"}
      BY <2>3, <2>5 DEF Lecturas
    <3> QED
      BY <1>4, <2>3, <2>6, <2>7, <2>8, <2>9, <3>1, VacioDa DEF Forma, Escrituras, Nombres
  <2> QED
    BY <1>4, <2>2, <2>3, <2>10 DEF Sigue
<1> QED
  BY <1>2, <1>3, <1>4

-----------------------------------------------------------------------------
(* The types of the page, and what a gesture is *)

BaseInv ==
  /\ pagina \in Paginas /\ srv \in [Filas -> Registros] /\ filtro \in Filtros \cup {Nadie}
  /\ lista \in Copias /\ marcas \subseteq Filas
  /\ dialogo \in [tipo : Textos, sobre : Sujetos]
  /\ dialogo.tipo \in {Vacio, "importar", "lote", "pago", "precio"} => dialogo.sobre = Nadie
  /\ dialogo.tipo = "anular" => dialogo.sobre \in Filas
  /\ pagina \in Quietas => dialogo.tipo = Vacio
  /\ panel \in [Paneles -> [de : Sujetos, filas : Sujetos]]
  /\ hoja \in Nat /\ paso \in Nat /\ relojes \in Nat /\ fallas \in Nat
  /\ gestos \in Nat /\ gestos <= MaxGestos
  /\ vuelo \in Seq(Llamadas) /\ \A k \in DOMAIN vuelo : Forma(pagina, vuelo[k])

\* The form whose flag is f was closed by the answer to it, or is not there.
Sellada(f) ==
  \/ dialogo = Cerrado /\ pagina \notin {"nueva", "onboarding"} /\ f \notin Abiertas
  \/ pagina = "onboarding" /\ f = "loading" /\ "saved" \in ocupado

\* What every gesture leaves alone.
Toca ==
  /\ gestos < MaxGestos /\ gestos' = gestos + 1 /\ (carrera => carrera')
  /\ UNCHANGED <<pagina, srv, fallas, hechas, doble, anuladas, averia>>

\* A control that sends a call other than the request of the list.
EnvioEnPanel(c) ==
  \/ /\ UNCHANGED <<panel, dialogo>>
     /\ \A p \in {"lotes", "variantes"} :
          c.op # p /\ (Contains(c.luego, p) => c.sobre = panel[p].de /\ c.sobre # Nadie)
     /\ c.op = "movs" => c.sobre = panel["movs"].de
  \/ \E p \in {"lotes", "variantes"} :
       /\ c.op = p /\ c.luego = <<>> /\ c.local = Vacio /\ c.cierra = Vacio /\ c.sobre \in Filas
       /\ panel' = [panel EXCEPT ![p].de = c.sobre] /\ dialogo' = Cerrado
       /\ carrera' \/ \A k \in 1..Len(vuelo) : Contains(vuelo[k].luego, p) => vuelo[k].sobre = c.sobre

Envio(c) ==
  /\ Toca /\ UNCHANGED <<filtro, lista, marcas, paso, relojes>>
  /\ c \in Llamadas /\ Molde(pagina, c) /\ Forma(pagina, c)
  /\ c.ida /\ (Protegida(c) => c.hoja = hoja') /\ c.q = filtro /\ c.op # "lista"
  /\ Manda(c) /\ (c.flag \in Banderas => c.flag \notin ocupado)
  /\ hoja' = gestos + 1 \/ (hoja' = hoja /\ (Protegida(c) => ~Sellada(c.flag)))
  /\ Protegida(c) /\ c.cierra # Vacio => dialogo.tipo = c.cierra /\ UNCHANGED dialogo
  /\ c.local = "voltea" =>
       /\ Mostrada(c.sobre) /\ c.vale = ~lista.filas[c.sobre].activa
       /\ carrera' \/ \A k \in 1..Len(vuelo) : ~Cambia(vuelo[k], c.sobre)
  /\ pagina \notin {"consulta", "precio"} /\ (pagina = "stock" => dialogo # Cerrado)
  /\ EnvioEnPanel(c)

Recien(b, op, i) ==
  /\ b \in Llamadas /\ b.ida /\ b.q = filtro /\ b.op = op /\ b.sobre = i /\ b.flag = Vacio
  /\ b.luego = <<>> /\ b.local = Vacio /\ b.cierra = Vacio /\ b.vale = TRUE
  /\ b.resto = {} /\ b.hoja = hoja

LEMMA LlamadaNace ==
  ASSUME filtro \in Filtros \cup {Nadie}, hoja \in Nat, NEW op \in Operaciones, NEW i \in Sujetos,
         NEW b, b = Llamada(op, i)
  PROVE  Recien(b, op, i)
<1>1. NoVista \in Fichas /\ <<>> \in Colas /\ Vacio \in Textos /\ Vacio \in Locales
  BY DEF NoVista, No, Fichas, Colas, Textos, Locales
<1> QED
  BY <1>1 DEF Llamadas, Llamada, Recien

LEMMA LlamadaDa ==
  ASSUME BaseInv, NEW op \in Operaciones, NEW i \in Sujetos,
         NEW b, b = Llamada(op, i)
  PROVE  Recien(b, op, i)
BY LlamadaNace DEF BaseInv

\* Who a call is about, and of which form, are written when it is sent.
LEMMA SobreDa ==
  ASSUME NEW c \in Llamadas, NEW j \in Sujetos, NEW d, d = [c EXCEPT !.sobre = j]
  PROVE  /\ d \in Llamadas /\ d.sobre = j /\ d.ida = c.ida /\ d.q = c.q /\ d.op = c.op
         /\ d.flag = c.flag /\ d.luego = c.luego /\ d.local = c.local /\ d.cierra = c.cierra
         /\ d.vale = c.vale /\ d.resto = c.resto /\ d.hoja = c.hoja
BY DEF Llamadas

ConHoja(c, i, g) == [c EXCEPT !.sobre = i, !.hoja = g]

LEMMA SobreHojaDa ==
  ASSUME NEW c \in Llamadas, NEW j \in Sujetos, NEW g \in Nat, NEW d, d = ConHoja(c, j, g)
  PROVE  /\ d \in Llamadas /\ d.sobre = j /\ d.ida = c.ida /\ d.q = c.q /\ d.op = c.op
         /\ d.flag = c.flag /\ d.luego = c.luego /\ d.local = c.local /\ d.cierra = c.cierra
         /\ d.vale = c.vale /\ d.resto = c.resto /\ d.hoja = g
BY DEF Llamadas, ConHoja

\* A dialog's button.
LEMMA ConfirmaDa ==
  ASSUME BaseInv, NEW tipo \in Nombres, NEW c, NEW d, Confirma(tipo, c),
         d = [c EXCEPT !.sobre = dialogo.sobre], d \in Llamadas, d.ida, d.hoja = hoja, d.q = filtro,
         d.flag = c.flag, d.cierra = tipo, Molde(pagina, d), d.op \in Escrituras,
         ~Contains(d.luego, "lotes"), ~Contains(d.luego, "variantes")
  PROVE  Envio(d)
<1>1. /\ Manda(d) /\ d.flag \notin ocupado /\ dialogo.tipo = tipo
      /\ gestos < MaxGestos /\ gestos' = gestos + 1 /\ carrera' = (carrera \/ FALSE)
      /\ UNCHANGED <<pagina, srv, fallas, hechas, doble, anuladas, averia>>
      /\ UNCHANGED <<filtro, lista, cargando, dialogo, hoja, panel, marcas, paso, relojes>>
  BY DEF Confirma, Gesto, GestoEn
<1>2. tipo # Vacio /\ dialogo # Cerrado
  BY <1>1, VacioDa DEF Cerrado
<1>3. Forma(pagina, d)
  BY MoldeForma
<1>4. d.op \notin Lecturas
  BY DEF Escrituras, Lecturas
<1>5. pagina \notin Quietas
  BY <1>1, <1>2 DEF BaseInv
<1>6. pagina \notin {"consulta", "precio"} /\ d.local # "voltea"
  <2>1. CASE ConRecarga(pagina, d)
    BY <2>1, VacioDa DEF ConRecarga, SinLista, Nombres
  <2>2. CASE DeStock(pagina, d) \/ DeQuita(pagina, d) \/ DeMarca(pagina, d) \/ DePago(pagina, d)
    BY <2>2, VacioDa DEF DeStock, DeQuita, DeMarca, DePago, Nombres
  <2>3. CASE \/ DeLlave(pagina, d) \/ DeEstado(pagina, d) \/ DeTodas(pagina, d) \/ DePanel(pagina, d)
             \/ DeAnexo(pagina, d) \/ DeAsistente(pagina, d) \/ DeCompra(pagina, d) \/ DeLista(pagina, d)
    BY <1>2, <2>3 DEF DeLlave, DeEstado, DeTodas, DePanel, DeAnexo, DeAsistente, DeCompra, DeLista
  <2> QED
    BY <2>1, <2>2, <2>3 DEF Molde
<1>7. ~Sellada(d.flag)
  BY <1>2, <1>5 DEF Sellada, Quietas
<1>8. EnvioEnPanel(d)
  BY <1>1, <1>4 DEF EnvioEnPanel, Lecturas
<1>9. Toca
  BY <1>1 DEF Toca
<1> QED
  BY <1>1, <1>2, <1>3, <1>4, <1>6, <1>7, <1>8, <1>9 DEF Envio, Lecturas

\* A control of the page, and a form that is always on it.
LEMMA PulsaDa ==
  ASSUME BaseInv, NEW i \in Sujetos, NEW c, NEW d, Pulsa(i, c), NEW g, g = gestos + 1,
         d = ConHoja(c, i, g), d \in Llamadas, d.ida, d.sobre = i,
         d.hoja = g, d.q = filtro, d.flag = c.flag, d.local = c.local, d.cierra = Vacio,
         Molde(pagina, d), d.op \notin {"lista", "lotes", "variantes"},
         ~Contains(d.luego, "lotes"), ~Contains(d.luego, "variantes"),
         d.op = "movs" => i = panel["movs"].de,
         d.local = "voltea" => Mostrada(i) /\ d.vale = ~lista.filas[i].activa,
         pagina \notin {"consulta", "precio", "stock"}
  PROVE  Envio(d)
<1>1. /\ Manda(d) /\ d.flag \notin ocupado /\ hoja' = gestos + 1
      /\ gestos < MaxGestos /\ gestos' = gestos + 1
      /\ carrera' = (carrera \/ (c.local = "voltea" /\ \E k \in 1..Len(vuelo) : Cambia(vuelo[k], i)))
      /\ UNCHANGED <<pagina, srv, fallas, hechas, doble, anuladas, averia>>
      /\ UNCHANGED <<filtro, lista, cargando, dialogo, panel, marcas, paso, relojes>>
  BY DEF Pulsa, GestoEn, ConHoja
<1>2. Forma(pagina, d)
  BY MoldeForma
<1>3. EnvioEnPanel(d)
  BY <1>1 DEF EnvioEnPanel
<1>4. Toca
  BY <1>1 DEF Toca
<1>5. d.local = "voltea" => carrera' \/ \A k \in 1..Len(vuelo) : ~Cambia(vuelo[k], d.sobre)
  <2> DEFINE A == \E k \in 1..Len(vuelo) : Cambia(vuelo[k], i)
  <2>1. carrera' = (carrera \/ (d.local = "voltea" /\ A))
    BY <1>1
  <2>2. ~A => \A k \in 1..Len(vuelo) : ~Cambia(vuelo[k], d.sobre)
    OBVIOUS
  <2> HIDE DEF A
  <2> QED
    BY <2>1, <2>2, Zenon
<1>6. Protegida(d) /\ d.cierra # Vacio => FALSE
  OBVIOUS
<1> QED
  BY <1>1, <1>2, <1>3, <1>4, <1>5, <1>6 DEF Envio

LEMMA PresentaDa ==
  ASSUME BaseInv, NEW i \in Sujetos, NEW c, NEW d, Presenta(i, c),
         d = [c EXCEPT !.sobre = i], d \in Llamadas, d.ida, d.sobre = i,
         d.hoja = hoja, d.q = filtro, d.flag = c.flag, d.cierra = Vacio,
         Molde(pagina, d), d.op \in Escrituras, d.local # "voltea",
         \A p \in {"lotes", "variantes"} : Contains(d.luego, p) => i = panel[p].de /\ i # Nadie,
         Protegida(d) => pagina \in {"nueva", "onboarding"} \/ d.flag \in Abiertas,
         pagina = "onboarding" => "saved" \notin ocupado,
         pagina \notin {"consulta", "precio", "stock"}
  PROVE  Envio(d)
<1>1. /\ Manda(d) /\ d.flag \notin ocupado /\ dialogo = Cerrado
      /\ gestos < MaxGestos /\ gestos' = gestos + 1 /\ carrera' = (carrera \/ FALSE)
      /\ UNCHANGED <<pagina, srv, fallas, hechas, doble, anuladas, averia>>
      /\ UNCHANGED <<filtro, lista, cargando, dialogo, hoja, panel, marcas, paso, relojes>>
  BY DEF Presenta, Gesto, GestoEn
<1>2. Forma(pagina, d)
  BY MoldeForma
<1>3. d.op \notin Lecturas
  BY DEF Escrituras, Lecturas
<1>4. EnvioEnPanel(d) /\ d.op # "lista"
  BY <1>1, <1>3 DEF EnvioEnPanel, Lecturas
<1>5. Protegida(d) => ~Sellada(d.flag)
  BY <1>2 DEF Sellada, Forma
<1>6. Toca
  BY <1>1 DEF Toca
<1> QED
  BY <1>1, <1>2, <1>4, <1>5, <1>6 DEF Envio

\* The other gestures: a dialog opens or closes, rows are selected, a panel is
\* closed, the filter is emptied, the list is asked for.
AbreDialogo(t, i) ==
  /\ Toca /\ dialogo = Cerrado /\ dialogo' = [tipo |-> t, sobre |-> i] /\ hoja' = gestos + 1
  /\ pagina \notin Quietas
  /\ t \in {"importar", "lote", "pago", "precio"} => i = Nadie
  /\ t = "anular" => i \in Filas
  /\ pagina = "stock" => Mostrada(i)
  /\ UNCHANGED <<filtro, lista, ocupado, panel, marcas, paso, relojes, vuelo>>

CierraDialogo ==
  /\ Toca /\ dialogo' = Cerrado /\ ocupado' \in {ocupado, ocupado \ {"importing"}}
  /\ UNCHANGED <<filtro, lista, hoja, panel, marcas, paso, relojes, vuelo>>

Elige ==
  /\ Toca /\ pagina = "productos" /\ marcas' \subseteq Filas
  /\ UNCHANGED <<filtro, lista, dialogo, hoja, ocupado, panel, paso, relojes, vuelo>>

SueltaPanel ==
  /\ Toca
  /\ \/ \E p \in {"lotes", "variantes"} : panel' = [panel EXCEPT ![p].de = Nadie]
     \/ panel' = [panel EXCEPT !["movs"] = [de |-> Nadie, filas |-> Nadie]]
  /\ UNCHANGED <<filtro, lista, dialogo, hoja, ocupado, marcas, paso, relojes, vuelo>>

Limpia ==
  /\ Toca /\ pagina \in {"stock", "consulta", "precio"} /\ filtro' = Nadie /\ lista' = Nada
  /\ carrera' \/ vuelo = <<>>
  /\ dialogo' \in {dialogo, Cerrado} /\ (pagina = "stock" => dialogo = Cerrado)
  /\ UNCHANGED <<hoja, ocupado, panel, marcas, paso, relojes, vuelo>>

Lectura(c) ==
  /\ c \in Llamadas /\ DeLista(pagina, c) /\ Forma(pagina, c)
  /\ c.ida /\ c.q = filtro' /\ c.hoja = hoja /\ Manda(c)
  /\ (carrera => carrera') /\ gestos' \in {gestos, gestos + 1} /\ gestos' <= MaxGestos
  /\ \/ UNCHANGED <<filtro, lista>> /\ pagina \notin SinLista \cup {"stock"}
     \/ /\ filtro' \in Filtros /\ (carrera' \/ vuelo = <<>>)
        /\ lista' = lista \/ (lista' = Nada /\ pagina = "consulta")
  /\ UNCHANGED <<pagina, srv, dialogo, hoja, panel, marcas, paso, relojes, fallas, hechas,
                 doble, anuladas, averia>>

Gesticula ==
  \/ \E t \in Nombres, i \in Sujetos : AbreDialogo(t, i)
  \/ CierraDialogo \/ Elige \/ SueltaPanel \/ Limpia
  \/ \E c \in Llamadas : Envio(c) \/ Lectura(c)
  \/ \E d \in {0, 1} : OnboardingPasa(d)

LEMMA AbreDa ==
  ASSUME BaseInv, NEW t \in Nombres, NEW i \in Sujetos, Abre(t, i), pagina \notin Quietas,
         t \in {"importar", "lote", "pago", "precio"} => i = Nadie, t = "anular" => i \in Filas,
         pagina = "stock" => i \in Filas
  PROVE  Gesticula
<1>1. Toca
  BY DEF Abre, Gesto, GestoEn, Toca
<1>2. pagina = "stock" => Mostrada(i)
  BY PaginasAssumption DEF Abre, Clicable
<1>3. AbreDialogo(t, i)
  BY <1>1, <1>2 DEF Abre, Libre, AbreDialogo
<1> QED
  BY <1>3 DEF Gesticula

LEMMA AbreNuevaDa ==
  ASSUME BaseInv, AbreNueva, pagina \notin Quietas \cup {"stock"}
  PROVE  Gesticula
<1>1. "form" \in Nombres /\ Nadie \in Sujetos
  BY DEF Nombres, Sujetos
<1> QED
  BY <1>1, AbreDa DEF AbreNueva

LEMMA AbreFilaDa ==
  ASSUME BaseInv, NEW T, T \subseteq {"form", "stock", "baja", "desarme"}, AbreFila(T),
         pagina \notin Quietas
  PROVE  Gesticula
<1>1. PICK t \in T, i \in Filas : Abre(t, i)
  BY DEF AbreFila
<1>2. t \in Nombres /\ i \in Sujetos /\ t \notin {"importar", "lote", "pago", "precio", "anular"}
  BY DEF Nombres, Sujetos
<1> QED
  BY <1>1, <1>2, AbreDa

LEMMA CierraDa ==
  ASSUME Cierra
  PROVE  Gesticula
<1>1. CierraDialogo
  BY DEF Cierra, Gesto, GestoEn, Toca, CierraDialogo
<1> QED
  BY <1>1 DEF Gesticula

\* A request of the list: for another filter, with a flag of its own, or neither.
LEMMA ListarDa ==
  ASSUME BaseInv, NEW q \in Filtros \cup {Nadie}, pagina \notin {"nueva", "ai", "onboarding"},
         NEW c, \/ c = [Listar EXCEPT !.q = q]
                \/ q = filtro /\ c = [Listar EXCEPT !.flag = "refreshing"]
                \/ q = filtro /\ c = Listar
  PROVE  /\ c \in Llamadas /\ DeLista(pagina, c) /\ Forma(pagina, c)
         /\ c.ida /\ c.q = q /\ c.hoja = hoja
<1>1. "lista" \in Operaciones /\ Nadie \in Sujetos /\ "refreshing" \in Textos
  BY CamposDa DEF Operaciones, Lecturas, Nombres
<1>2. PICK b : b = Llamada("lista", Nadie)
  OBVIOUS
<1>3. Recien(b, "lista", Nadie)
  BY <1>1, <1>2, LlamadaDa
<1>4. b = Listar
  BY <1>2 DEF Listar
<1>5. /\ c \in Llamadas /\ c.ida /\ c.q = q /\ c.hoja = hoja /\ c.op = "lista" /\ c.luego = <<>>
      /\ c.flag \in {Vacio, "refreshing"} /\ c.local = Vacio /\ c.cierra = Vacio /\ c.resto = {}
  <2>1. CASE c = [Listar EXCEPT !.q = q]
    BY <1>1, <1>3, <1>4, <2>1 DEF Recien, Llamadas
  <2>2. CASE q = filtro /\ c = [Listar EXCEPT !.flag = "refreshing"]
    BY <1>1, <1>3, <1>4, <2>2 DEF Recien, Llamadas
  <2>3. CASE q = filtro /\ c = Listar
    BY <1>1, <1>3, <1>4, <2>3 DEF Recien
  <2> QED
    BY <2>1, <2>2, <2>3
<1>6. DeLista(pagina, c)
  BY <1>5 DEF DeLista
<1> QED
  BY <1>5, <1>6, MoldeForma DEF Molde

LEMMA LecturaDa ==
  ASSUME BaseInv, NEW c, c \in Llamadas, Lectura(c)
  PROVE  Gesticula
BY DEF Gesticula

LEMMA RefiltraDa ==
  ASSUME BaseInv, NEW q \in Filtros, Refiltra(q), pagina \notin {"nueva", "ai", "onboarding"}
  PROVE  Gesticula
<1>1. PICK c : c = [Listar EXCEPT !.q = q] /\ Manda(c)
  BY DEF Refiltra
<1>2. /\ c \in Llamadas /\ DeLista(pagina, c) /\ Forma(pagina, c)
      /\ c.ida /\ c.q = q /\ c.hoja = hoja
  BY <1>1, ListarDa
<1>3. /\ gestos < MaxGestos /\ gestos' = gestos + 1 /\ carrera' = (carrera \/ vuelo # <<>>)
      /\ UNCHANGED <<pagina, srv, fallas, hechas, doble, anuladas, averia>>
      /\ UNCHANGED <<lista, dialogo, hoja, panel, marcas, paso, relojes>> /\ filtro' = q
  BY DEF Refiltra, CambiaFiltro, GestoEn
<1>4. gestos' <= MaxGestos
  BY <1>3, PaginasAssumption DEF BaseInv
<1>5. Lectura(c)
  BY <1>1, <1>2, <1>3, <1>4 DEF Lectura
<1> QED
  BY <1>2, <1>5, LecturaDa

LEMMA RefrescaDa ==
  ASSUME BaseInv, Refresca \/ RefrescaAparte \/ HistorialVuelve, pagina \notin SinLista \cup {"stock"}
  PROVE  Gesticula
<1>1. PICK c : Manda(c) /\ (c = Listar \/ c = [Listar EXCEPT !.flag = "refreshing"])
  BY DEF Refresca, RefrescaAparte, HistorialVuelve
<1>2. filtro \in Filtros \cup {Nadie} /\ gestos \in Nat
  BY DEF BaseInv
<1>3. /\ c \in Llamadas /\ DeLista(pagina, c) /\ Forma(pagina, c)
      /\ c.ida /\ c.q = filtro /\ c.hoja = hoja
  BY <1>1, <1>2, ListarDa DEF SinLista
<1>4. /\ gestos < MaxGestos /\ gestos' = gestos + 1 /\ carrera' = (carrera \/ FALSE)
      /\ UNCHANGED <<pagina, srv, fallas, hechas, doble, anuladas, averia>>
      /\ UNCHANGED <<filtro, lista, dialogo, hoja, panel, marcas, paso, relojes>>
  BY DEF Refresca, RefrescaAparte, HistorialVuelve, Gesto, GestoEn
<1>5. gestos' <= MaxGestos
  BY <1>2, <1>4, PaginasAssumption
<1>6. Lectura(c)
  BY <1>1, <1>3, <1>4, <1>5 DEF Lectura
<1> QED
  BY <1>3, <1>6, LecturaDa

LEMMA EnvioDa ==
  ASSUME NEW c, Envio(c)
  PROVE  Gesticula
BY DEF Gesticula, Envio

\* The form of a page, and its confirmation of a deletion.
LEMMA FormularioDa ==
  ASSUME BaseInv, NEW flag \in {Vacio, "saving", "savingVinculo", "savingEditVinculo"},
         Formulario(flag, <<"lista">>), pagina \notin SinLista \cup {"reportes"}
  PROVE  Gesticula
<1>1. PICK op \in {"alta", "guardar"} : /\ op = (IF dialogo.sobre = Nadie THEN "alta" ELSE "guardar")
                                        /\ op = "alta" => dialogo.sobre = Nadie
  OBVIOUS
<1>2. /\ op \in Escrituras /\ op \in Operaciones /\ flag \in Textos /\ "form" \in Nombres
      /\ "form" \in Textos /\ <<"lista">> \in Colas /\ dialogo.sobre \in Sujetos
  BY CamposDa DEF Escrituras, Nombres, Banderas, Textos, BaseInv
<1>3. PICK b : b = Llamada(op, Nadie)
  OBVIOUS
<1>4. Recien(b, op, Nadie)
  BY <1>2, <1>3, CamposDa, LlamadaDa
<1>5. PICK c : /\ c = [b EXCEPT !.flag = flag, !.luego = <<"lista">>, !.cierra = "form"]
               /\ Confirma("form", c)
  BY <1>1, <1>3 DEF Formulario
<1>6. /\ c \in Llamadas /\ c.ida /\ c.q = filtro /\ c.op = op /\ c.local = Vacio /\ c.resto = {}
      /\ c.hoja = hoja /\ c.flag = flag /\ c.luego = <<"lista">> /\ c.cierra = "form"
  BY <1>2, <1>4, <1>5 DEF Llamadas, Recien
<1>7. PICK d : d = [c EXCEPT !.sobre = dialogo.sobre]
  OBVIOUS
<1>8. /\ d \in Llamadas /\ d.ida /\ d.q = filtro /\ d.op = op /\ d.local = Vacio /\ d.resto = {}
      /\ d.hoja = hoja /\ d.flag = flag /\ d.luego = <<"lista">> /\ d.cierra = "form"
      /\ d.sobre = dialogo.sobre
  BY <1>2, <1>6, <1>7, SobreDa
<1>9. Molde(pagina, d)
  BY <1>1, <1>8 DEF Molde, ConRecarga
<1> QED
  BY <1>2, <1>5, <1>6, <1>7, <1>8, <1>9, CamposDa, ConfirmaDa, EnvioDa

LEMMA BajaDa ==
  ASSUME BaseInv, NEW op \in {"borrar", "estado"}, NEW flag \in {Vacio, "deleting", "deletingVinculo"},
         Baja(op, flag), pagina \notin SinLista \cup Tres \cup {"reportes"}
  PROVE  Gesticula
<1>1. /\ op \in Escrituras /\ op \in Operaciones /\ flag \in Textos /\ "baja" \in Nombres
      /\ "baja" \in Textos /\ <<"lista">> \in Colas /\ dialogo.sobre \in Sujetos
  BY CamposDa DEF Escrituras, Nombres, Banderas, Textos, BaseInv
<1>2. PICK b : b = Llamada(op, Nadie)
  OBVIOUS
<1>3. Recien(b, op, Nadie)
  BY <1>1, <1>2, CamposDa, LlamadaDa
<1>4. PICK c : /\ c = [b EXCEPT !.vale = FALSE, !.flag = flag, !.luego = <<"lista">>, !.cierra = "baja"]
               /\ Confirma("baja", c)
  BY <1>2 DEF Baja
<1>5. /\ c \in Llamadas /\ c.ida /\ c.q = filtro /\ c.op = op /\ c.local = Vacio /\ c.resto = {}
      /\ c.hoja = hoja /\ c.flag = flag /\ c.luego = <<"lista">> /\ c.cierra = "baja"
  BY <1>1, <1>3, <1>4 DEF Llamadas, Recien
<1>6. PICK d : d = [c EXCEPT !.sobre = dialogo.sobre]
  OBVIOUS
<1>7. /\ d \in Llamadas /\ d.ida /\ d.q = filtro /\ d.op = op /\ d.local = Vacio /\ d.resto = {}
      /\ d.hoja = hoja /\ d.flag = flag /\ d.luego = <<"lista">> /\ d.cierra = "baja"
  BY <1>1, <1>5, <1>6, SobreDa
<1>8. Molde(pagina, d)
  BY <1>7 DEF Molde, ConRecarga
<1> QED
  BY <1>1, <1>4, <1>5, <1>6, <1>7, <1>8, CamposDa, ConfirmaDa, EnvioDa

\* A switch, and the state of a purchase: the request is for the opposite of what is shown.
Interruptor(local, luego) ==
  \/ local = "voltea" /\ luego = <<>> /\ pagina \in Tres
  \/ local = Vacio /\ luego = <<"lista">> /\ pagina = "categorias"
  \/ local = "estado" /\ luego = <<>> /\ pagina = "compras"

LEMMA ConmutaDa ==
  ASSUME BaseInv, NEW i \in Filas, NEW local \in Locales, NEW luego \in Colas,
         Conmuta(i, local, luego), Interruptor(local, luego)
  PROVE  Gesticula
<1>1. PICK v \in BOOLEAN : v = ~lista.filas[i].activa
  OBVIOUS
<1>0. PICK g \in Nat : g = gestos + 1
  BY DEF BaseInv
<1>2. /\ "estado" \in Operaciones /\ i \in Sujetos
  BY CamposDa DEF Operaciones, Escrituras, Sujetos
<1>3. PICK b : b = Llamada("estado", i)
  OBVIOUS
<1>4. Recien(b, "estado", i)
  BY <1>2, <1>3, LlamadaDa
<1>5. PICK c : /\ c = [b EXCEPT !.vale = v, !.local = local, !.luego = luego]
               /\ Pulsa(i, c) /\ Mostrada(i)
  BY <1>1, <1>3 DEF Conmuta, Clicable
<1>6. /\ c \in Llamadas /\ c.ida /\ c.q = filtro /\ c.op = "estado" /\ c.local = local /\ c.resto = {}
      /\ c.flag = Vacio /\ c.luego = luego /\ c.cierra = Vacio /\ c.vale = v
  BY <1>2, <1>4, <1>5 DEF Llamadas, Recien
<1>7. PICK d : d = ConHoja(c, i, g)
  OBVIOUS
<1>8. /\ d \in Llamadas /\ d.ida /\ d.q = filtro /\ d.op = "estado" /\ d.local = local /\ d.resto = {}
      /\ d.flag = Vacio /\ d.luego = luego /\ d.cierra = Vacio /\ d.vale = v /\ d.sobre = i
      /\ d.hoja = g
  BY <1>0, <1>2, <1>6, <1>7, SobreHojaDa
<1>9. Molde(pagina, d)
  BY <1>8 DEF Molde, ConRecarga, DeLlave, DeEstado, SinLista, Tres, Interruptor
<1>10. pagina \notin {"consulta", "precio", "stock"}
  BY DEF Tres, Interruptor
<1>12. ~Contains(luego, "lotes") /\ ~Contains(luego, "variantes")
  BY CamposDa DEF Interruptor
<1>13. Pulsa(i, c) /\ d.flag = c.flag /\ d.local = c.local /\ ~Contains(d.luego, "lotes") /\
       ~Contains(d.luego, "variantes") /\ d.op \notin {"lista", "lotes", "variantes", "movs"}
  BY <1>5, <1>6, <1>8, <1>12
<1>14. d.local = "voltea" => Mostrada(i) /\ d.vale = ~lista.filas[i].activa
  BY <1>1, <1>5, <1>8
<1>11. Envio(d)
  BY <1>0, <1>2, <1>7, <1>8, <1>9, <1>10, <1>13, <1>14, PulsaDa
<1> QED
  BY <1>11, EnvioDa

\* The lots and the variants of a product.
LEMMA AbrePanelDa ==
  ASSUME BaseInv, NEW p \in {"lotes", "variantes"}, NEW i \in Filas, AbrePanel(p, i),
         pagina = "productos"
  PROVE  Gesticula
<1>1. p \in Operaciones /\ i \in Sujetos /\ p \in Textos
  BY CamposDa DEF Operaciones, Lecturas, Sujetos, Nombres
<1>2. PICK b : b = Llamada(p, i)
  OBVIOUS
<1>3. Recien(b, p, i)
  BY <1>1, <1>2, LlamadaDa
<1>4. PICK c : c = [b EXCEPT !.flag = p] /\ Manda(c)
  BY <1>2 DEF AbrePanel
<1>5. /\ c \in Llamadas /\ c.ida /\ c.q = filtro /\ c.op = p /\ c.local = Vacio /\ c.resto = {}
      /\ c.flag = p /\ c.luego = <<>> /\ c.cierra = Vacio /\ c.sobre = i
  BY <1>1, <1>3, <1>4 DEF Llamadas, Recien
<1>6. Molde(pagina, c)
  BY <1>5, CamposDa DEF Molde, DePanel, Lecturas, Banderas
<1>7. Forma(pagina, c)
  BY <1>5, <1>6, MoldeForma
<1>8. /\ gestos < MaxGestos /\ gestos' = gestos + 1 /\ hoja' = gestos + 1
      /\ carrera' = (carrera \/ \E k \in 1..Len(vuelo) : Contains(vuelo[k].luego, p) /\ vuelo[k].sobre # i)
      /\ UNCHANGED <<pagina, srv, fallas, hechas, doble, anuladas, averia>>
      /\ UNCHANGED <<filtro, lista, marcas, paso, relojes>>
      /\ dialogo' = Cerrado /\ panel' = [panel EXCEPT ![p].de = i]
  BY DEF AbrePanel, GestoEn
<1>9. carrera' \/ \A k \in 1..Len(vuelo) : Contains(vuelo[k].luego, p) => vuelo[k].sobre = i
  <2> DEFINE A == \E k \in 1..Len(vuelo) : Contains(vuelo[k].luego, p) /\ vuelo[k].sobre # i
  <2>1. carrera' = (carrera \/ A)
    BY <1>8
  <2>2. ~A => \A k \in 1..Len(vuelo) : Contains(vuelo[k].luego, p) => vuelo[k].sobre = i
    OBVIOUS
  <2> HIDE DEF A
  <2> QED
    BY <2>1, <2>2, Zenon
<1>10. EnvioEnPanel(c)
  BY <1>5, <1>8, <1>9 DEF EnvioEnPanel
<1>11. ~Protegida(c)
  BY <1>5 DEF Protegida, Escritura, Lecturas
<1>12. Toca
  BY <1>8 DEF Toca
<1>13. c.op # "lista" /\ c.flag \notin Banderas /\ c.local # "voltea"
  BY <1>5, CamposDa, VacioDa DEF Nombres
<1>14. Envio(c)
  BY <1>4, <1>5, <1>6, <1>7, <1>8, <1>10, <1>11, <1>12, <1>13 DEF Envio
<1> QED
  BY <1>14, EnvioDa

\* What the page shows of a row.
LEMMA FichaDa ==
  ASSUME NEW l \in Copias
  PROVE  /\ DOMAIN l.filas \subseteq Filas
         /\ \A i \in DOMAIN l.filas :
              /\ l.filas[i] \in Vivas /\ l.filas[i] \in Fichas /\ l.filas[i].existe
              /\ l.filas[i].activa \in BOOLEAN /\ l.filas[i].n \in Nat
<1>1. PICK S \in SUBSET Filas : l.filas \in [S -> Vivas]
  BY DEF Copias, Vistas
<1>2. \A v \in Vivas : v \in Fichas /\ v.existe /\ v.activa \in BOOLEAN /\ v.n \in Nat
  BY DEF Vivas, Fichas
<1> QED
  BY <1>1, <1>2

LEMMA ProductosAjustaDa ==
  ASSUME BaseInv, ProductosAjusta
  PROVE  Gesticula
<1>1. pagina = "productos"
  BY DEF ProductosAjusta, En
<1>2. /\ "guardar" \in Operaciones /\ Vacio \in Textos /\ <<>> \in Colas /\ "stock" \in Locales
      /\ "stock" \in Textos /\ "stock" \in Nombres /\ dialogo.sobre \in Sujetos
  BY CamposDa DEF Operaciones, Escrituras, Lecturas, Nombres, Banderas, Textos, Locales, BaseInv
<1>4. PICK b : b = Llamada("guardar", Nadie)
  OBVIOUS
<1>5. Recien(b, "guardar", Nadie)
  BY <1>2, <1>4, CamposDa, LlamadaDa
<1>6. PICK c : c = [b EXCEPT !.local = "stock", !.cierra = "stock"] /\ Confirma("stock", c)
  BY <1>4 DEF ProductosAjusta
<1>7. /\ c \in Llamadas /\ c.ida /\ c.q = filtro /\ c.op = "guardar" /\ c.local = "stock"
      /\ c.resto = {} /\ c.hoja = hoja /\ c.flag = Vacio /\ c.luego = <<>>
      /\ c.cierra = "stock"
  BY <1>2, <1>5, <1>6 DEF Llamadas, Recien
<1>8. PICK d : d = [c EXCEPT !.sobre = dialogo.sobre]
  OBVIOUS
<1>9. /\ d \in Llamadas /\ d.ida /\ d.q = filtro /\ d.op = "guardar" /\ d.local = "stock"
      /\ d.resto = {} /\ d.hoja = hoja /\ d.flag = Vacio /\ d.luego = <<>>
      /\ d.cierra = "stock" /\ d.sobre = dialogo.sobre
  BY <1>2, <1>7, <1>8, SobreDa
<1>11. Molde(pagina, d)
  BY <1>1, <1>9 DEF Molde, DeStock
<1>12. "guardar" \in Escrituras
  BY DEF Escrituras
<1>13. Confirma("stock", c) /\ d.flag = c.flag /\ ~Contains(d.luego, "lotes") /\ ~Contains(d.luego, "variantes")
  BY <1>6, <1>7, <1>9, CamposDa
<1>14. Envio(d)
  BY <1>2, <1>8, <1>9, <1>11, <1>12, <1>13, ConfirmaDa
<1> QED
  BY <1>14, EnvioDa

LEMMA ProductosImportaDa ==
  ASSUME BaseInv, ProductosImporta
  PROVE  Gesticula
<1>1. pagina = "productos"
  BY DEF ProductosImporta, En
<1>2. /\ "alta" \in Operaciones /\ "importing" \in Textos /\ <<"lista">> \in Colas /\ Vacio \in Locales
      /\ "importar" \in Textos /\ "importar" \in Nombres /\ dialogo.sobre \in Sujetos
  BY CamposDa DEF Operaciones, Escrituras, Lecturas, Nombres, Banderas, Textos, Locales, BaseInv
<1>4. PICK b : b = Llamada("alta", Nadie)
  OBVIOUS
<1>5. Recien(b, "alta", Nadie)
  BY <1>2, <1>4, CamposDa, LlamadaDa
<1>6. PICK c : c = [b EXCEPT !.flag = "importing", !.luego = <<"lista">>, !.cierra = "importar"] /\ Confirma("importar", c)
  BY <1>4 DEF ProductosImporta
<1>7. /\ c \in Llamadas /\ c.ida /\ c.q = filtro /\ c.op = "alta" /\ c.local = Vacio
      /\ c.resto = {} /\ c.hoja = hoja /\ c.flag = "importing" /\ c.luego = <<"lista">>
      /\ c.cierra = "importar"
  BY <1>2, <1>5, <1>6 DEF Llamadas, Recien
<1>8. PICK d : d = [c EXCEPT !.sobre = dialogo.sobre]
  OBVIOUS
<1>9. /\ d \in Llamadas /\ d.ida /\ d.q = filtro /\ d.op = "alta" /\ d.local = Vacio
      /\ d.resto = {} /\ d.hoja = hoja /\ d.flag = "importing" /\ d.luego = <<"lista">>
      /\ d.cierra = "importar" /\ d.sobre = dialogo.sobre
  BY <1>2, <1>7, <1>8, SobreDa
<1>10. dialogo.sobre \in {Nadie}
  BY <1>6 DEF Confirma, BaseInv
<1>11. Molde(pagina, d)
  BY <1>1, <1>10, <1>9 DEF Molde, ConRecarga, SinLista
<1>12. "alta" \in Escrituras
  BY DEF Escrituras
<1>13. Confirma("importar", c) /\ d.flag = c.flag /\ ~Contains(d.luego, "lotes") /\ ~Contains(d.luego, "variantes")
  BY <1>6, <1>7, <1>9, CamposDa
<1>14. Envio(d)
  BY <1>2, <1>8, <1>9, <1>11, <1>12, <1>13, ConfirmaDa
<1> QED
  BY <1>14, EnvioDa

LEMMA InventarioDesarmaDa ==
  ASSUME BaseInv, InventarioDesarma
  PROVE  Gesticula
<1>1. pagina = "inventario"
  BY DEF InventarioDesarma, En
<1>2. /\ "guardar" \in Operaciones /\ Vacio \in Textos /\ <<"lista">> \in Colas /\ Vacio \in Locales
      /\ "desarme" \in Textos /\ "desarme" \in Nombres /\ dialogo.sobre \in Sujetos
  BY CamposDa DEF Operaciones, Escrituras, Lecturas, Nombres, Banderas, Textos, Locales, BaseInv
<1>4. PICK b : b = Llamada("guardar", Nadie)
  OBVIOUS
<1>5. Recien(b, "guardar", Nadie)
  BY <1>2, <1>4, CamposDa, LlamadaDa
<1>6. PICK c : c = [b EXCEPT !.luego = <<"lista">>, !.cierra = "desarme"] /\ Confirma("desarme", c)
  BY <1>4 DEF InventarioDesarma
<1>7. /\ c \in Llamadas /\ c.ida /\ c.q = filtro /\ c.op = "guardar" /\ c.local = Vacio
      /\ c.resto = {} /\ c.hoja = hoja /\ c.flag = Vacio /\ c.luego = <<"lista">>
      /\ c.cierra = "desarme"
  BY <1>2, <1>5, <1>6 DEF Llamadas, Recien
<1>8. PICK d : d = [c EXCEPT !.sobre = dialogo.sobre]
  OBVIOUS
<1>9. /\ d \in Llamadas /\ d.ida /\ d.q = filtro /\ d.op = "guardar" /\ d.local = Vacio
      /\ d.resto = {} /\ d.hoja = hoja /\ d.flag = Vacio /\ d.luego = <<"lista">>
      /\ d.cierra = "desarme" /\ d.sobre = dialogo.sobre
  BY <1>2, <1>7, <1>8, SobreDa
<1>11. Molde(pagina, d)
  BY <1>1, <1>9 DEF Molde, ConRecarga, SinLista
<1>12. "guardar" \in Escrituras
  BY DEF Escrituras
<1>13. Confirma("desarme", c) /\ d.flag = c.flag /\ ~Contains(d.luego, "lotes") /\ ~Contains(d.luego, "variantes")
  BY <1>6, <1>7, <1>9, CamposDa
<1>14. Envio(d)
  BY <1>2, <1>8, <1>9, <1>11, <1>12, <1>13, ConfirmaDa
<1> QED
  BY <1>14, EnvioDa

LEMMA StockAjustaDa ==
  ASSUME BaseInv, StockAjusta
  PROVE  Gesticula
<1>1. pagina = "stock"
  BY DEF StockAjusta, En
<1>2. /\ "guardar" \in Operaciones /\ Vacio \in Textos /\ <<"lista">> \in Colas /\ Vacio \in Locales
      /\ "stock" \in Textos /\ "stock" \in Nombres /\ dialogo.sobre \in Sujetos
  BY CamposDa DEF Operaciones, Escrituras, Lecturas, Nombres, Banderas, Textos, Locales, BaseInv
<1>4. PICK b : b = Llamada("guardar", Nadie)
  OBVIOUS
<1>5. Recien(b, "guardar", Nadie)
  BY <1>2, <1>4, CamposDa, LlamadaDa
<1>6. PICK c : c = [b EXCEPT !.luego = <<"lista">>, !.cierra = "stock"] /\ Confirma("stock", c)
  BY <1>4 DEF StockAjusta
<1>7. /\ c \in Llamadas /\ c.ida /\ c.q = filtro /\ c.op = "guardar" /\ c.local = Vacio
      /\ c.resto = {} /\ c.hoja = hoja /\ c.flag = Vacio /\ c.luego = <<"lista">>
      /\ c.cierra = "stock"
  BY <1>2, <1>5, <1>6 DEF Llamadas, Recien
<1>8. PICK d : d = [c EXCEPT !.sobre = dialogo.sobre]
  OBVIOUS
<1>9. /\ d \in Llamadas /\ d.ida /\ d.q = filtro /\ d.op = "guardar" /\ d.local = Vacio
      /\ d.resto = {} /\ d.hoja = hoja /\ d.flag = Vacio /\ d.luego = <<"lista">>
      /\ d.cierra = "stock" /\ d.sobre = dialogo.sobre
  BY <1>2, <1>7, <1>8, SobreDa
<1>11. Molde(pagina, d)
  BY <1>1, <1>9 DEF Molde, ConRecarga, SinLista
<1>12. "guardar" \in Escrituras
  BY DEF Escrituras
<1>13. Confirma("stock", c) /\ d.flag = c.flag /\ ~Contains(d.luego, "lotes") /\ ~Contains(d.luego, "variantes")
  BY <1>6, <1>7, <1>9, CamposDa
<1>14. Envio(d)
  BY <1>2, <1>8, <1>9, <1>11, <1>12, <1>13, ConfirmaDa
<1> QED
  BY <1>14, EnvioDa

LEMMA ComprasEliminaDa ==
  ASSUME BaseInv, ComprasElimina
  PROVE  Gesticula
<1>1. pagina = "compras"
  BY DEF ComprasElimina, En
<1>2. /\ "borrar" \in Operaciones /\ "deleting" \in Textos /\ <<>> \in Colas /\ "quita" \in Locales
      /\ "baja" \in Textos /\ "baja" \in Nombres /\ dialogo.sobre \in Sujetos /\ "deleting" \in Banderas
  BY CamposDa DEF Operaciones, Escrituras, Lecturas, Nombres, Banderas, Textos, Locales, BaseInv
<1>4. PICK b : b = Llamada("borrar", Nadie)
  OBVIOUS
<1>5. Recien(b, "borrar", Nadie)
  BY <1>2, <1>4, CamposDa, LlamadaDa
<1>6. PICK c : c = [b EXCEPT !.flag = "deleting", !.local = "quita", !.cierra = "baja"] /\ Confirma("baja", c)
  BY <1>4 DEF ComprasElimina
<1>7. /\ c \in Llamadas /\ c.ida /\ c.q = filtro /\ c.op = "borrar" /\ c.local = "quita"
      /\ c.resto = {} /\ c.hoja = hoja /\ c.flag = "deleting" /\ c.luego = <<>>
      /\ c.cierra = "baja"
  BY <1>2, <1>5, <1>6 DEF Llamadas, Recien
<1>8. PICK d : d = [c EXCEPT !.sobre = dialogo.sobre]
  OBVIOUS
<1>9. /\ d \in Llamadas /\ d.ida /\ d.q = filtro /\ d.op = "borrar" /\ d.local = "quita"
      /\ d.resto = {} /\ d.hoja = hoja /\ d.flag = "deleting" /\ d.luego = <<>>
      /\ d.cierra = "baja" /\ d.sobre = dialogo.sobre
  BY <1>2, <1>7, <1>8, SobreDa
<1>11. Molde(pagina, d)
  BY <1>1, <1>9 DEF Molde, DeQuita, SinLista
<1>12. "borrar" \in Escrituras
  BY DEF Escrituras
<1>13. Confirma("baja", c) /\ d.flag = c.flag /\ ~Contains(d.luego, "lotes") /\ ~Contains(d.luego, "variantes")
  BY <1>6, <1>7, <1>9, CamposDa
<1>14. Envio(d)
  BY <1>2, <1>8, <1>9, <1>11, <1>12, <1>13, ConfirmaDa
<1> QED
  BY <1>14, EnvioDa

LEMMA FacturacionAnulaDa ==
  ASSUME BaseInv, FacturacionAnula
  PROVE  Gesticula
<1>1. pagina = "facturacion"
  BY DEF FacturacionAnula, En
<1>2. /\ "estado" \in Operaciones /\ Vacio \in Textos /\ <<"lista">> \in Colas /\ "marca" \in Locales
      /\ "anular" \in Textos /\ "anular" \in Nombres /\ dialogo.sobre \in Sujetos
  BY CamposDa DEF Operaciones, Escrituras, Lecturas, Nombres, Banderas, Textos, Locales, BaseInv
<1>4. PICK b : b = Llamada("estado", Nadie)
  OBVIOUS
<1>5. Recien(b, "estado", Nadie)
  BY <1>2, <1>4, CamposDa, LlamadaDa
<1>6. PICK c : c = [b EXCEPT !.vale = FALSE, !.local = "marca", !.luego = <<"lista">>, !.cierra = "anular"] /\ Confirma("anular", c)
  BY <1>4 DEF FacturacionAnula
<1>7. /\ c \in Llamadas /\ c.ida /\ c.q = filtro /\ c.op = "estado" /\ c.local = "marca"
      /\ c.resto = {} /\ c.hoja = hoja /\ c.flag = Vacio /\ c.luego = <<"lista">>
      /\ c.cierra = "anular" /\ ~c.vale
  BY <1>2, <1>5, <1>6 DEF Llamadas, Recien
<1>8. PICK d : d = [c EXCEPT !.sobre = dialogo.sobre]
  OBVIOUS
<1>9. /\ d \in Llamadas /\ d.ida /\ d.q = filtro /\ d.op = "estado" /\ d.local = "marca"
      /\ d.resto = {} /\ d.hoja = hoja /\ d.flag = Vacio /\ d.luego = <<"lista">>
      /\ d.cierra = "anular" /\ ~d.vale /\ d.sobre = dialogo.sobre
  BY <1>2, <1>7, <1>8, SobreDa
<1>10. dialogo.sobre \in Filas
  BY <1>6 DEF Confirma, BaseInv
<1>11. Molde(pagina, d)
  BY <1>1, <1>10, <1>9 DEF Molde, DeMarca, SinLista
<1>12. "estado" \in Escrituras
  BY DEF Escrituras
<1>13. Confirma("anular", c) /\ d.flag = c.flag /\ ~Contains(d.luego, "lotes") /\ ~Contains(d.luego, "variantes")
  BY <1>6, <1>7, <1>9, CamposDa
<1>14. Envio(d)
  BY <1>2, <1>8, <1>9, <1>11, <1>12, <1>13, ConfirmaDa
<1> QED
  BY <1>14, EnvioDa

LEMMA ProductosCreaLoteDa ==
  ASSUME BaseInv, ProductosCreaLote
  PROVE  Gesticula
<1>1. pagina = "productos"
  BY DEF ProductosCreaLote, En
<1>2. /\ "sub" \in Operaciones /\ "creandoLote" \in Textos /\ <<"lotes">> \in Colas /\ "reset" \in Locales
      /\ Vacio \in Textos /\ "creandoLote" \in Banderas
  BY CamposDa DEF Operaciones, Escrituras, Lecturas, Nombres, Banderas, Textos, Locales, BaseInv
<1>3. PICK i \in Sujetos : i = panel["lotes"].de
  BY DEF BaseInv, Paneles, ProductosCreaLote
<1>4. PICK b : b = Llamada("sub", Nadie)
  OBVIOUS
<1>5. Recien(b, "sub", Nadie)
  BY <1>2, <1>3, <1>4, CamposDa, LlamadaDa
<1>6. PICK c : c = [b EXCEPT !.flag = "creandoLote", !.local = "reset", !.luego = <<"lotes">>] /\ Presenta(i, c)
  BY <1>3, <1>4 DEF ProductosCreaLote
<1>7. /\ c \in Llamadas /\ c.ida /\ c.q = filtro /\ c.op = "sub" /\ c.local = "reset"
      /\ c.resto = {} /\ c.flag = "creandoLote" /\ c.luego = <<"lotes">> /\ c.cierra = Vacio /\ c.hoja = hoja
  BY <1>2, <1>3, <1>5, <1>6 DEF Llamadas, Recien
<1>8. i \in Sujetos
  BY <1>3, CamposDa
<1>10. PICK d : d = [c EXCEPT !.sobre = i]
  OBVIOUS
<1>11. /\ d \in Llamadas /\ d.ida /\ d.q = filtro /\ d.op = "sub" /\ d.local = "reset"
      /\ d.resto = {} /\ d.flag = "creandoLote" /\ d.luego = <<"lotes">> /\ d.cierra = Vacio /\ d.sobre = i /\ d.hoja = hoja
  BY <1>7, <1>8, <1>10, SobreDa
<1>12. Molde(pagina, d)
  BY <1>1, <1>2, <1>3, <1>11 DEF Molde, DeAnexo, Abiertas
<1>13. /\ Presenta(i, c) /\ d.flag = c.flag /\ d.local # "voltea" /\ d.op \in Escrituras
       /\ \A p \in {"lotes", "variantes"} : Contains(d.luego, p) => i = panel[p].de /\ i # Nadie
       /\ Protegida(d) => pagina \in {"nueva", "onboarding"} \/ d.flag \in Abiertas
       /\ pagina = "onboarding" => "saved" \notin ocupado
  BY <1>1, <1>3, <1>6, <1>7, <1>11, CamposDa, VacioDa DEF Nombres, Escrituras, Protegida, Abiertas, ProductosCreaLote
<1>14. Envio(d)
  BY <1>1, <1>8, <1>10, <1>11, <1>12, <1>13, PresentaDa
<1> QED
  BY <1>14, EnvioDa

LEMMA ProductosBajaLoteDa ==
  ASSUME BaseInv, ProductosBajaLote
  PROVE  Gesticula
<1>1. pagina = "productos"
  BY DEF ProductosBajaLote, En
<1>2. /\ "sub" \in Operaciones /\ Vacio \in Textos /\ <<"lotes">> \in Colas /\ Vacio \in Locales
      /\ Vacio \in Textos
  BY CamposDa DEF Operaciones, Escrituras, Lecturas, Nombres, Banderas, Textos, Locales, BaseInv
<1>3. PICK i \in Sujetos : i = panel["lotes"].de
  BY DEF BaseInv, Paneles, ProductosBajaLote
<1>4. PICK b : b = Llamada("sub", Nadie)
  OBVIOUS
<1>5. Recien(b, "sub", Nadie)
  BY <1>2, <1>3, <1>4, CamposDa, LlamadaDa
<1>6. PICK c : c = [b EXCEPT !.luego = <<"lotes">>] /\ Presenta(i, c)
  BY <1>3, <1>4 DEF ProductosBajaLote
<1>7. /\ c \in Llamadas /\ c.ida /\ c.q = filtro /\ c.op = "sub" /\ c.local = Vacio
      /\ c.resto = {} /\ c.flag = Vacio /\ c.luego = <<"lotes">> /\ c.cierra = Vacio /\ c.hoja = hoja
  BY <1>2, <1>3, <1>5, <1>6 DEF Llamadas, Recien
<1>8. i \in Sujetos
  BY <1>3, CamposDa
<1>10. PICK d : d = [c EXCEPT !.sobre = i]
  OBVIOUS
<1>11. /\ d \in Llamadas /\ d.ida /\ d.q = filtro /\ d.op = "sub" /\ d.local = Vacio
      /\ d.resto = {} /\ d.flag = Vacio /\ d.luego = <<"lotes">> /\ d.cierra = Vacio /\ d.sobre = i /\ d.hoja = hoja
  BY <1>7, <1>8, <1>10, SobreDa
<1>12. Molde(pagina, d)
  BY <1>1, <1>2, <1>3, <1>11 DEF Molde, DeAnexo, Abiertas
<1>13. /\ Presenta(i, c) /\ d.flag = c.flag /\ d.local # "voltea" /\ d.op \in Escrituras
       /\ \A p \in {"lotes", "variantes"} : Contains(d.luego, p) => i = panel[p].de /\ i # Nadie
       /\ Protegida(d) => pagina \in {"nueva", "onboarding"} \/ d.flag \in Abiertas
       /\ pagina = "onboarding" => "saved" \notin ocupado
  BY <1>1, <1>3, <1>6, <1>7, <1>11, CamposDa, VacioDa DEF Nombres, Escrituras, Protegida, Abiertas, ProductosBajaLote
<1>14. Envio(d)
  BY <1>1, <1>8, <1>10, <1>11, <1>12, <1>13, PresentaDa
<1> QED
  BY <1>14, EnvioDa

LEMMA ProductosCreaVarianteDa ==
  ASSUME BaseInv, ProductosCreaVariante
  PROVE  Gesticula
<1>1. pagina = "productos"
  BY DEF ProductosCreaVariante, En
<1>2. /\ "sub" \in Operaciones /\ "creandoVariante" \in Textos /\ <<"variantes", "lista">> \in Colas /\ "reset" \in Locales
      /\ Vacio \in Textos /\ "creandoVariante" \in Banderas
  BY CamposDa DEF Operaciones, Escrituras, Lecturas, Nombres, Banderas, Textos, Locales, BaseInv
<1>3. PICK i \in Sujetos : i = panel["variantes"].de
  BY DEF BaseInv, Paneles, ProductosCreaVariante
<1>4. PICK b : b = Llamada("sub", Nadie)
  OBVIOUS
<1>5. Recien(b, "sub", Nadie)
  BY <1>2, <1>3, <1>4, CamposDa, LlamadaDa
<1>6. PICK c : c = [b EXCEPT !.flag = "creandoVariante", !.local = "reset", !.luego = <<"variantes", "lista">>] /\ Presenta(i, c)
  BY <1>3, <1>4 DEF ProductosCreaVariante
<1>7. /\ c \in Llamadas /\ c.ida /\ c.q = filtro /\ c.op = "sub" /\ c.local = "reset"
      /\ c.resto = {} /\ c.flag = "creandoVariante" /\ c.luego = <<"variantes", "lista">> /\ c.cierra = Vacio /\ c.hoja = hoja
  BY <1>2, <1>3, <1>5, <1>6 DEF Llamadas, Recien
<1>8. i \in Sujetos
  BY <1>3, CamposDa
<1>10. PICK d : d = [c EXCEPT !.sobre = i]
  OBVIOUS
<1>11. /\ d \in Llamadas /\ d.ida /\ d.q = filtro /\ d.op = "sub" /\ d.local = "reset"
      /\ d.resto = {} /\ d.flag = "creandoVariante" /\ d.luego = <<"variantes", "lista">> /\ d.cierra = Vacio /\ d.sobre = i /\ d.hoja = hoja
  BY <1>7, <1>8, <1>10, SobreDa
<1>12. Molde(pagina, d)
  BY <1>1, <1>2, <1>3, <1>11 DEF Molde, DeAnexo, Abiertas
<1>13. /\ Presenta(i, c) /\ d.flag = c.flag /\ d.local # "voltea" /\ d.op \in Escrituras
       /\ \A p \in {"lotes", "variantes"} : Contains(d.luego, p) => i = panel[p].de /\ i # Nadie
       /\ Protegida(d) => pagina \in {"nueva", "onboarding"} \/ d.flag \in Abiertas
       /\ pagina = "onboarding" => "saved" \notin ocupado
  BY <1>1, <1>3, <1>6, <1>7, <1>11, CamposDa, VacioDa DEF Nombres, Escrituras, Protegida, Abiertas, ProductosCreaVariante
<1>14. Envio(d)
  BY <1>1, <1>8, <1>10, <1>11, <1>12, <1>13, PresentaDa
<1> QED
  BY <1>14, EnvioDa

LEMMA ProveedoresAplicaCSVDa ==
  ASSUME BaseInv, ProveedoresAplicaCSV
  PROVE  Gesticula
<1>1. pagina = "proveedores"
  BY DEF ProveedoresAplicaCSV, En
<1>2. /\ "sub" \in Operaciones /\ "csvLoading" \in Textos /\ <<>> \in Colas /\ "reset" \in Locales
      /\ Vacio \in Textos /\ "csvLoading" \in Banderas
  BY CamposDa DEF Operaciones, Escrituras, Lecturas, Nombres, Banderas, Textos, Locales, BaseInv
<1>3. PICK i \in Filas : Presenta(i, [Llamada("sub", i) EXCEPT !.flag = "csvLoading", !.local = "reset"])
  BY Zenon DEF ProveedoresAplicaCSV
<1>4. PICK b : b = Llamada("sub", i)
  OBVIOUS
<1>5. Recien(b, "sub", i)
  BY <1>2, <1>3, <1>4, CamposDa, LlamadaDa
<1>6. PICK c : c = [b EXCEPT !.flag = "csvLoading", !.local = "reset"] /\ Presenta(i, c)
  BY <1>3, <1>4 DEF ProveedoresAplicaCSV
<1>7. /\ c \in Llamadas /\ c.ida /\ c.q = filtro /\ c.op = "sub" /\ c.local = "reset"
      /\ c.resto = {} /\ c.flag = "csvLoading" /\ c.luego = <<>> /\ c.cierra = Vacio /\ c.hoja = hoja
  BY <1>2, <1>3, <1>5, <1>6 DEF Llamadas, Recien
<1>8. i \in Sujetos
  BY <1>3, CamposDa
<1>10. PICK d : d = [c EXCEPT !.sobre = i]
  OBVIOUS
<1>11. /\ d \in Llamadas /\ d.ida /\ d.q = filtro /\ d.op = "sub" /\ d.local = "reset"
      /\ d.resto = {} /\ d.flag = "csvLoading" /\ d.luego = <<>> /\ d.cierra = Vacio /\ d.sobre = i /\ d.hoja = hoja
  BY <1>7, <1>8, <1>10, SobreDa
<1>12. Molde(pagina, d)
  BY <1>1, <1>2, <1>3, <1>11 DEF Molde, DeAnexo, Abiertas
<1>13. /\ Presenta(i, c) /\ d.flag = c.flag /\ d.local # "voltea" /\ d.op \in Escrituras
       /\ \A p \in {"lotes", "variantes"} : Contains(d.luego, p) => i = panel[p].de /\ i # Nadie
       /\ Protegida(d) => pagina \in {"nueva", "onboarding"} \/ d.flag \in Abiertas
       /\ pagina = "onboarding" => "saved" \notin ocupado
  BY <1>1, <1>3, <1>6, <1>7, <1>11, CamposDa, VacioDa DEF Nombres, Escrituras, Protegida, Abiertas, ProveedoresAplicaCSV
<1>14. Envio(d)
  BY <1>1, <1>8, <1>10, <1>11, <1>12, <1>13, PresentaDa
<1> QED
  BY <1>14, EnvioDa

LEMMA OnboardingGuardaDa ==
  ASSUME BaseInv, OnboardingGuarda
  PROVE  Gesticula
<1>1. pagina = "onboarding"
  BY DEF OnboardingGuarda, En
<1>2. /\ "sub" \in Operaciones /\ "loading" \in Textos /\ <<>> \in Colas /\ "fiscal" \in Locales
      /\ Vacio \in Textos /\ "loading" \in Banderas
  BY CamposDa DEF Operaciones, Escrituras, Lecturas, Nombres, Banderas, Textos, Locales, BaseInv
<1>3. PICK i \in Sujetos : i = Nadie
  BY CamposDa
<1>4. PICK b : b = Llamada("sub", Nadie)
  OBVIOUS
<1>5. Recien(b, "sub", Nadie)
  BY <1>2, <1>3, <1>4, CamposDa, LlamadaDa
<1>6. PICK c : c = [b EXCEPT !.flag = "loading", !.local = "fiscal"] /\ Presenta(i, c)
  BY <1>3, <1>4 DEF OnboardingGuarda
<1>7. /\ c \in Llamadas /\ c.ida /\ c.q = filtro /\ c.op = "sub" /\ c.local = "fiscal"
      /\ c.resto = {} /\ c.flag = "loading" /\ c.luego = <<>> /\ c.cierra = Vacio /\ c.hoja = hoja
  BY <1>2, <1>3, <1>5, <1>6 DEF Llamadas, Recien
<1>8. i \in Sujetos
  BY <1>3, CamposDa
<1>10. PICK d : d = [c EXCEPT !.sobre = i]
  OBVIOUS
<1>11. /\ d \in Llamadas /\ d.ida /\ d.q = filtro /\ d.op = "sub" /\ d.local = "fiscal"
      /\ d.resto = {} /\ d.flag = "loading" /\ d.luego = <<>> /\ d.cierra = Vacio /\ d.sobre = i /\ d.hoja = hoja
  BY <1>7, <1>8, <1>10, SobreDa
<1>12. Molde(pagina, d)
  BY <1>1, <1>2, <1>3, <1>11 DEF Molde, DeAsistente, Abiertas
<1>13. /\ Presenta(i, c) /\ d.flag = c.flag /\ d.local # "voltea" /\ d.op \in Escrituras
       /\ \A p \in {"lotes", "variantes"} : Contains(d.luego, p) => i = panel[p].de /\ i # Nadie
       /\ Protegida(d) => pagina \in {"nueva", "onboarding"} \/ d.flag \in Abiertas
       /\ pagina = "onboarding" => "saved" \notin ocupado
  BY <1>1, <1>3, <1>6, <1>7, <1>11, CamposDa, VacioDa DEF Nombres, Escrituras, Protegida, Abiertas, OnboardingGuarda
<1>14. Envio(d)
  BY <1>1, <1>8, <1>10, <1>11, <1>12, <1>13, PresentaDa
<1> QED
  BY <1>14, EnvioDa

LEMMA ClientesDetalleDa ==
  ASSUME BaseInv, ClientesDetalle
  PROVE  Gesticula
<1>1. pagina = "clientes"
  BY DEF ClientesDetalle, En
<1>2. /\ "cliente" \in Operaciones /\ Vacio \in Textos /\ <<"movs">> \in Colas /\ Vacio \in Locales
      /\ Vacio \in Textos /\ gestos + 1 \in Nat
  BY CamposDa DEF Operaciones, Escrituras, Lecturas, Nombres, Banderas, Textos, Locales, BaseInv
<1>3. PICK i \in Filas : Pulsa(i, [Llamada("cliente", i) EXCEPT !.luego = <<"movs">>])
  BY DEF ClientesDetalle
<1>4. PICK b : b = Llamada("cliente", i)
  OBVIOUS
<1>5. Recien(b, "cliente", i)
  BY <1>2, <1>3, <1>4, CamposDa, LlamadaDa
<1>6. PICK c : c = [b EXCEPT !.luego = <<"movs">>] /\ Pulsa(i, c)
  BY <1>3, <1>4 DEF ClientesDetalle
<1>7. /\ c \in Llamadas /\ c.ida /\ c.q = filtro /\ c.op = "cliente" /\ c.local = Vacio
      /\ c.resto = {} /\ c.flag = Vacio /\ c.luego = <<"movs">> /\ c.cierra = Vacio /\ c.hoja = hoja
  BY <1>2, <1>3, <1>5, <1>6 DEF Llamadas, Recien
<1>8. i \in Sujetos
  BY <1>3, CamposDa
<1>9. PICK g \in Nat : g = gestos + 1
  BY <1>2
<1>10. PICK d : d = ConHoja(c, i, g)
  OBVIOUS
<1>11. /\ d \in Llamadas /\ d.ida /\ d.q = filtro /\ d.op = "cliente" /\ d.local = Vacio
      /\ d.resto = {} /\ d.flag = Vacio /\ d.luego = <<"movs">> /\ d.cierra = Vacio /\ d.sobre = i /\ d.hoja = g
  BY <1>7, <1>8, <1>9, <1>10, SobreHojaDa
<1>12. Molde(pagina, d)
  BY <1>1, <1>11, VacioDa DEF Molde, DePanel, Lecturas, Nombres, Banderas
<1>13. /\ Pulsa(i, c) /\ d.flag = c.flag /\ d.local = c.local /\ d.local # "voltea"
       /\ ~Contains(d.luego, "lotes") /\ ~Contains(d.luego, "variantes")
       /\ d.op = "movs" => i = panel["movs"].de
       /\ d.op \notin {"lista", "lotes", "variantes"}
  BY <1>3, <1>6, <1>7, <1>11, CamposDa, VacioDa DEF Nombres, Titular
<1>14. Envio(d)
  BY <1>1, <1>8, <1>9, <1>10, <1>11, <1>12, <1>13, PulsaDa
<1> QED
  BY <1>14, EnvioDa

LEMMA ClientesDeudorDa ==
  ASSUME BaseInv, ClientesDeudor
  PROVE  Gesticula
<1>1. pagina = "clientes"
  BY DEF ClientesDeudor, En
<1>2. /\ "cliente" \in Operaciones /\ Vacio \in Textos /\ <<"movs">> \in Colas /\ Vacio \in Locales
      /\ Vacio \in Textos /\ gestos + 1 \in Nat
  BY CamposDa DEF Operaciones, Escrituras, Lecturas, Nombres, Banderas, Textos, Locales, BaseInv
<1>3. PICK i \in Filas : Pulsa(i, [Llamada("cliente", i) EXCEPT !.luego = <<"movs">>])
  BY DEF ClientesDeudor
<1>4. PICK b : b = Llamada("cliente", i)
  OBVIOUS
<1>5. Recien(b, "cliente", i)
  BY <1>2, <1>3, <1>4, CamposDa, LlamadaDa
<1>6. PICK c : c = [b EXCEPT !.luego = <<"movs">>] /\ Pulsa(i, c)
  BY <1>3, <1>4 DEF ClientesDeudor
<1>7. /\ c \in Llamadas /\ c.ida /\ c.q = filtro /\ c.op = "cliente" /\ c.local = Vacio
      /\ c.resto = {} /\ c.flag = Vacio /\ c.luego = <<"movs">> /\ c.cierra = Vacio /\ c.hoja = hoja
  BY <1>2, <1>3, <1>5, <1>6 DEF Llamadas, Recien
<1>8. i \in Sujetos
  BY <1>3, CamposDa
<1>9. PICK g \in Nat : g = gestos + 1
  BY <1>2
<1>10. PICK d : d = ConHoja(c, i, g)
  OBVIOUS
<1>11. /\ d \in Llamadas /\ d.ida /\ d.q = filtro /\ d.op = "cliente" /\ d.local = Vacio
      /\ d.resto = {} /\ d.flag = Vacio /\ d.luego = <<"movs">> /\ d.cierra = Vacio /\ d.sobre = i /\ d.hoja = g
  BY <1>7, <1>8, <1>9, <1>10, SobreHojaDa
<1>12. Molde(pagina, d)
  BY <1>1, <1>11, VacioDa DEF Molde, DePanel, Lecturas, Nombres, Banderas
<1>13. /\ Pulsa(i, c) /\ d.flag = c.flag /\ d.local = c.local /\ d.local # "voltea"
       /\ ~Contains(d.luego, "lotes") /\ ~Contains(d.luego, "variantes")
       /\ d.op = "movs" => i = panel["movs"].de
       /\ d.op \notin {"lista", "lotes", "variantes"}
  BY <1>3, <1>6, <1>7, <1>11, CamposDa, VacioDa DEF Nombres, Titular
<1>14. Envio(d)
  BY <1>1, <1>8, <1>9, <1>10, <1>11, <1>12, <1>13, PulsaDa
<1> QED
  BY <1>14, EnvioDa

LEMMA ClientesPaginaDa ==
  ASSUME BaseInv, ClientesPagina
  PROVE  Gesticula
<1>1. pagina = "clientes"
  BY DEF ClientesPagina, En
<1>2. /\ "movs" \in Operaciones /\ Vacio \in Textos /\ <<>> \in Colas /\ Vacio \in Locales
      /\ Vacio \in Textos /\ gestos + 1 \in Nat
  BY CamposDa DEF Operaciones, Escrituras, Lecturas, Nombres, Banderas, Textos, Locales, BaseInv
<1>3. PICK i \in Sujetos : i = Titular
  BY DEF BaseInv, Paneles, Titular
<1>4. PICK b : b = Llamada("movs", i)
  OBVIOUS
<1>5. Recien(b, "movs", i)
  BY <1>2, <1>3, <1>4, CamposDa, LlamadaDa
<1>6. PICK c : c = b /\ Pulsa(i, c)
  BY <1>3, <1>4 DEF ClientesPagina
<1>7. /\ c \in Llamadas /\ c.ida /\ c.q = filtro /\ c.op = "movs" /\ c.local = Vacio
      /\ c.resto = {} /\ c.flag = Vacio /\ c.luego = <<>> /\ c.cierra = Vacio /\ c.hoja = hoja
  BY <1>2, <1>3, <1>5, <1>6 DEF Llamadas, Recien
<1>8. i \in Sujetos
  BY <1>3, CamposDa
<1>9. PICK g \in Nat : g = gestos + 1
  BY <1>2
<1>10. PICK d : d = ConHoja(c, i, g)
  OBVIOUS
<1>11. /\ d \in Llamadas /\ d.ida /\ d.q = filtro /\ d.op = "movs" /\ d.local = Vacio
      /\ d.resto = {} /\ d.flag = Vacio /\ d.luego = <<>> /\ d.cierra = Vacio /\ d.sobre = i /\ d.hoja = g
  BY <1>7, <1>8, <1>9, <1>10, SobreHojaDa
<1>12. Molde(pagina, d)
  BY <1>1, <1>11, VacioDa DEF Molde, DePanel, Lecturas, Nombres, Banderas
<1>13. /\ Pulsa(i, c) /\ d.flag = c.flag /\ d.local = c.local /\ d.local # "voltea"
       /\ ~Contains(d.luego, "lotes") /\ ~Contains(d.luego, "variantes")
       /\ d.op = "movs" => i = panel["movs"].de
       /\ d.op \notin {"lista", "lotes", "variantes"}
  BY <1>3, <1>6, <1>7, <1>11, CamposDa, VacioDa DEF Nombres, Titular
<1>14. Envio(d)
  BY <1>1, <1>8, <1>9, <1>10, <1>11, <1>12, <1>13, PulsaDa
<1> QED
  BY <1>14, EnvioDa

LEMMA FacturacionDocumentoDa ==
  ASSUME BaseInv, FacturacionDocumento
  PROVE  Gesticula
<1>1. pagina = "facturacion"
  BY DEF FacturacionDocumento, En
<1>2. /\ "comprobante" \in Operaciones /\ Vacio \in Textos /\ <<"pdf">> \in Colas /\ Vacio \in Locales
      /\ Vacio \in Textos /\ gestos + 1 \in Nat
  BY CamposDa DEF Operaciones, Escrituras, Lecturas, Nombres, Banderas, Textos, Locales, BaseInv
<1>3. PICK i \in Filas : Pulsa(i, [Llamada("comprobante", i) EXCEPT !.luego = <<"pdf">>])
  BY DEF FacturacionDocumento
<1>4. PICK b : b = Llamada("comprobante", i)
  OBVIOUS
<1>5. Recien(b, "comprobante", i)
  BY <1>2, <1>3, <1>4, CamposDa, LlamadaDa
<1>6. PICK c : c = [b EXCEPT !.luego = <<"pdf">>] /\ Pulsa(i, c)
  BY <1>3, <1>4 DEF FacturacionDocumento
<1>7. /\ c \in Llamadas /\ c.ida /\ c.q = filtro /\ c.op = "comprobante" /\ c.local = Vacio
      /\ c.resto = {} /\ c.flag = Vacio /\ c.luego = <<"pdf">> /\ c.cierra = Vacio /\ c.hoja = hoja
  BY <1>2, <1>3, <1>5, <1>6 DEF Llamadas, Recien
<1>8. i \in Sujetos
  BY <1>3, CamposDa
<1>9. PICK g \in Nat : g = gestos + 1
  BY <1>2
<1>10. PICK d : d = ConHoja(c, i, g)
  OBVIOUS
<1>11. /\ d \in Llamadas /\ d.ida /\ d.q = filtro /\ d.op = "comprobante" /\ d.local = Vacio
      /\ d.resto = {} /\ d.flag = Vacio /\ d.luego = <<"pdf">> /\ d.cierra = Vacio /\ d.sobre = i /\ d.hoja = g
  BY <1>7, <1>8, <1>9, <1>10, SobreHojaDa
<1>12. Molde(pagina, d)
  BY <1>1, <1>11, VacioDa DEF Molde, DePanel, Lecturas, Nombres, Banderas
<1>13. /\ Pulsa(i, c) /\ d.flag = c.flag /\ d.local = c.local /\ d.local # "voltea"
       /\ ~Contains(d.luego, "lotes") /\ ~Contains(d.luego, "variantes")
       /\ d.op = "movs" => i = panel["movs"].de
       /\ d.op \notin {"lista", "lotes", "variantes"}
  BY <1>3, <1>6, <1>7, <1>11, CamposDa, VacioDa DEF Nombres, Titular
<1>14. Envio(d)
  BY <1>1, <1>8, <1>9, <1>10, <1>11, <1>12, <1>13, PulsaDa
<1> QED
  BY <1>14, EnvioDa

LEMMA FiscalGuardaDa ==
  ASSUME BaseInv, FiscalGuarda
  PROVE  Gesticula
<1>1. pagina = "fiscal"
  BY DEF FiscalGuarda, En
<1>2. /\ "guardar" \in Operaciones /\ "saving" \in Textos /\ <<>> \in Colas /\ "stock" \in Locales
      /\ Vacio \in Textos /\ "saving" \in Banderas /\ gestos + 1 \in Nat
  BY CamposDa DEF Operaciones, Escrituras, Lecturas, Nombres, Banderas, Textos, Locales, BaseInv
<1>3. PICK i \in Filas : Pulsa(i, [Llamada("guardar", i) EXCEPT !.flag = "saving", !.local = "stock"])
  BY Zenon DEF FiscalGuarda
<1>4. PICK b : b = Llamada("guardar", i)
  OBVIOUS
<1>5. Recien(b, "guardar", i)
  BY <1>2, <1>3, <1>4, CamposDa, LlamadaDa
<1>6. PICK c : c = [b EXCEPT !.flag = "saving", !.local = "stock"] /\ Pulsa(i, c)
  BY <1>3, <1>4 DEF FiscalGuarda
<1>7. /\ c \in Llamadas /\ c.ida /\ c.q = filtro /\ c.op = "guardar" /\ c.local = "stock"
      /\ c.resto = {} /\ c.flag = "saving" /\ c.luego = <<>> /\ c.cierra = Vacio /\ c.hoja = hoja
  BY <1>2, <1>3, <1>5, <1>6 DEF Llamadas, Recien
<1>8. i \in Sujetos
  BY <1>3, CamposDa
<1>9. PICK g \in Nat : g = gestos + 1
  BY <1>2
<1>10. PICK d : d = ConHoja(c, i, g)
  OBVIOUS
<1>11. /\ d \in Llamadas /\ d.ida /\ d.q = filtro /\ d.op = "guardar" /\ d.local = "stock"
      /\ d.resto = {} /\ d.flag = "saving" /\ d.luego = <<>> /\ d.cierra = Vacio /\ d.sobre = i /\ d.hoja = g
  BY <1>7, <1>8, <1>9, <1>10, SobreHojaDa
<1>12. Molde(pagina, d)
  BY <1>1, <1>2, <1>3, <1>11 DEF Molde, DeStock, Abiertas
<1>13. /\ Pulsa(i, c) /\ d.flag = c.flag /\ d.local = c.local /\ d.local # "voltea"
       /\ ~Contains(d.luego, "lotes") /\ ~Contains(d.luego, "variantes")
       /\ d.op = "movs" => i = panel["movs"].de
       /\ d.op \notin {"lista", "lotes", "variantes"}
  BY <1>3, <1>6, <1>7, <1>11, CamposDa, VacioDa DEF Nombres, Titular
<1>14. Envio(d)
  BY <1>1, <1>8, <1>9, <1>10, <1>11, <1>12, <1>13, PulsaDa
<1> QED
  BY <1>14, EnvioDa

LEMMA AIEnviaDa ==
  ASSUME BaseInv, AIEnvia
  PROVE  Gesticula
<1>1. pagina = "ai"
  BY DEF AIEnvia, En
<1>2. /\ "chat" \in Operaciones /\ "chatLoading" \in Textos /\ <<>> \in Colas /\ Vacio \in Locales
      /\ Vacio \in Textos /\ gestos + 1 \in Nat
  BY CamposDa DEF Operaciones, Escrituras, Lecturas, Nombres, Banderas, Textos, Locales, BaseInv
<1>3. PICK i \in Sujetos : i = Nadie
  BY CamposDa
<1>4. PICK b : b = Llamada("chat", i)
  OBVIOUS
<1>5. Recien(b, "chat", i)
  BY <1>2, <1>3, <1>4, CamposDa, LlamadaDa
<1>6. PICK c : c = [b EXCEPT !.flag = "chatLoading"] /\ Pulsa(i, c)
  BY <1>3, <1>4 DEF AIEnvia
<1>7. /\ c \in Llamadas /\ c.ida /\ c.q = filtro /\ c.op = "chat" /\ c.local = Vacio
      /\ c.resto = {} /\ c.flag = "chatLoading" /\ c.luego = <<>> /\ c.cierra = Vacio /\ c.hoja = hoja
  BY <1>2, <1>3, <1>5, <1>6 DEF Llamadas, Recien
<1>8. i \in Sujetos
  BY <1>3, CamposDa
<1>9. PICK g \in Nat : g = gestos + 1
  BY <1>2
<1>10. PICK d : d = ConHoja(c, i, g)
  OBVIOUS
<1>11. /\ d \in Llamadas /\ d.ida /\ d.q = filtro /\ d.op = "chat" /\ d.local = Vacio
      /\ d.resto = {} /\ d.flag = "chatLoading" /\ d.luego = <<>> /\ d.cierra = Vacio /\ d.sobre = i /\ d.hoja = g
  BY <1>7, <1>8, <1>9, <1>10, SobreHojaDa
<1>12. Molde(pagina, d)
  BY <1>1, <1>11, VacioDa DEF Molde, DePanel, Lecturas, Nombres, Banderas
<1>13. /\ Pulsa(i, c) /\ d.flag = c.flag /\ d.local = c.local /\ d.local # "voltea"
       /\ ~Contains(d.luego, "lotes") /\ ~Contains(d.luego, "variantes")
       /\ d.op = "movs" => i = panel["movs"].de
       /\ d.op \notin {"lista", "lotes", "variantes"}
  BY <1>3, <1>6, <1>7, <1>11, CamposDa, VacioDa DEF Nombres, Titular
<1>14. Envio(d)
  BY <1>1, <1>8, <1>9, <1>10, <1>11, <1>12, <1>13, PulsaDa
<1> QED
  BY <1>14, EnvioDa

LEMMA AIMetricasDa ==
  ASSUME BaseInv, AIMetricas
  PROVE  Gesticula
<1>1. pagina = "ai"
  BY DEF AIMetricas, En
<1>2. /\ "metricas" \in Operaciones /\ "metricasLoading" \in Textos /\ <<>> \in Colas /\ Vacio \in Locales
      /\ Vacio \in Textos /\ gestos + 1 \in Nat
  BY CamposDa DEF Operaciones, Escrituras, Lecturas, Nombres, Banderas, Textos, Locales, BaseInv
<1>3. PICK i \in Sujetos : i = Nadie
  BY CamposDa
<1>4. PICK b : b = Llamada("metricas", i)
  OBVIOUS
<1>5. Recien(b, "metricas", i)
  BY <1>2, <1>3, <1>4, CamposDa, LlamadaDa
<1>6. PICK c : c = [b EXCEPT !.flag = "metricasLoading"] /\ Pulsa(i, c)
  BY <1>3, <1>4 DEF AIMetricas
<1>7. /\ c \in Llamadas /\ c.ida /\ c.q = filtro /\ c.op = "metricas" /\ c.local = Vacio
      /\ c.resto = {} /\ c.flag = "metricasLoading" /\ c.luego = <<>> /\ c.cierra = Vacio /\ c.hoja = hoja
  BY <1>2, <1>3, <1>5, <1>6 DEF Llamadas, Recien
<1>8. i \in Sujetos
  BY <1>3, CamposDa
<1>9. PICK g \in Nat : g = gestos + 1
  BY <1>2
<1>10. PICK d : d = ConHoja(c, i, g)
  OBVIOUS
<1>11. /\ d \in Llamadas /\ d.ida /\ d.q = filtro /\ d.op = "metricas" /\ d.local = Vacio
      /\ d.resto = {} /\ d.flag = "metricasLoading" /\ d.luego = <<>> /\ d.cierra = Vacio /\ d.sobre = i /\ d.hoja = g
  BY <1>7, <1>8, <1>9, <1>10, SobreHojaDa
<1>12. Molde(pagina, d)
  BY <1>1, <1>11, VacioDa DEF Molde, DePanel, Lecturas, Nombres, Banderas
<1>13. /\ Pulsa(i, c) /\ d.flag = c.flag /\ d.local = c.local /\ d.local # "voltea"
       /\ ~Contains(d.luego, "lotes") /\ ~Contains(d.luego, "variantes")
       /\ d.op = "movs" => i = panel["movs"].de
       /\ d.op \notin {"lista", "lotes", "variantes"}
  BY <1>3, <1>6, <1>7, <1>11, CamposDa, VacioDa DEF Nombres, Titular
<1>14. Envio(d)
  BY <1>1, <1>8, <1>9, <1>10, <1>11, <1>12, <1>13, PulsaDa
<1> QED
  BY <1>14, EnvioDa

LEMMA CierreEnviaDa ==
  ASSUME BaseInv, CierreEnvia
  PROVE  Gesticula
<1>1. pagina = "cierre"
  BY DEF CierreEnvia, En
<1>2. /\ "estado" \in Operaciones /\ Vacio \in Textos /\ <<>> \in Colas /\ "marca" \in Locales
      /\ Vacio \in Textos /\ gestos + 1 \in Nat
  BY CamposDa DEF Operaciones, Escrituras, Lecturas, Nombres, Banderas, Textos, Locales, BaseInv
<1>3. PICK i \in Filas : i = Primera
  BY PaginasAssumption
<1>4. PICK b : b = Llamada("estado", i)
  OBVIOUS
<1>5. Recien(b, "estado", i)
  BY <1>2, <1>3, <1>4, CamposDa, LlamadaDa
<1>6. PICK c : c = [b EXCEPT !.vale = FALSE, !.local = "marca"] /\ Pulsa(i, c)
  BY <1>3, <1>4 DEF CierreEnvia
<1>7. /\ c \in Llamadas /\ c.ida /\ c.q = filtro /\ c.op = "estado" /\ c.local = "marca"
      /\ c.resto = {} /\ c.flag = Vacio /\ c.luego = <<>> /\ c.cierra = Vacio /\ ~c.vale /\ c.hoja = hoja
  BY <1>2, <1>3, <1>5, <1>6 DEF Llamadas, Recien
<1>8. i \in Sujetos
  BY <1>3, CamposDa
<1>9. PICK g \in Nat : g = gestos + 1
  BY <1>2
<1>10. PICK d : d = ConHoja(c, i, g)
  OBVIOUS
<1>11. /\ d \in Llamadas /\ d.ida /\ d.q = filtro /\ d.op = "estado" /\ d.local = "marca"
      /\ d.resto = {} /\ d.flag = Vacio /\ d.luego = <<>> /\ d.cierra = Vacio /\ ~d.vale /\ d.sobre = i /\ d.hoja = g
  BY <1>7, <1>8, <1>9, <1>10, SobreHojaDa
<1>12. Molde(pagina, d)
  BY <1>1, <1>2, <1>3, <1>11 DEF Molde, DeMarca, Abiertas
<1>13. /\ Pulsa(i, c) /\ d.flag = c.flag /\ d.local = c.local /\ d.local # "voltea"
       /\ ~Contains(d.luego, "lotes") /\ ~Contains(d.luego, "variantes")
       /\ d.op = "movs" => i = panel["movs"].de
       /\ d.op \notin {"lista", "lotes", "variantes"}
  BY <1>3, <1>6, <1>7, <1>11, CamposDa, VacioDa DEF Nombres, Titular
<1>14. Envio(d)
  BY <1>1, <1>8, <1>9, <1>10, <1>11, <1>12, <1>13, PulsaDa
<1> QED
  BY <1>14, EnvioDa

LEMMA InventarioAjustaDa ==
  ASSUME BaseInv, InventarioAjusta
  PROVE  Gesticula
<1>1. pagina = "inventario"
  BY DEF InventarioAjusta, En
<1>2. /\ "guardar" \in Operaciones /\ Vacio \in Textos /\ <<>> \in Colas /\ "stock" \in Locales
      /\ Vacio \in Textos
  BY CamposDa DEF Operaciones, Escrituras, Lecturas, Nombres, Banderas, Textos, Locales, BaseInv
<1>3. PICK i \in Filas : Mostrada(i) /\ Presenta(i, [Llamada("guardar", i) EXCEPT !.local = "stock", !.vio = lista.filas[i]])
  BY Zenon DEF InventarioAjusta
<1>15. PICK v \in Fichas : v = lista.filas[i]
  BY <1>3, FichaDa DEF BaseInv, Mostrada
<1>4. PICK b : b = Llamada("guardar", i)
  OBVIOUS
<1>5. Recien(b, "guardar", i)
  BY <1>2, <1>3, <1>4, CamposDa, LlamadaDa
<1>6. PICK c : c = [b EXCEPT !.local = "stock", !.vio = v] /\ Presenta(i, c)
  BY <1>3, <1>4, <1>15
<1>7. /\ c \in Llamadas /\ c.ida /\ c.q = filtro /\ c.op = "guardar" /\ c.local = "stock"
      /\ c.resto = {} /\ c.flag = Vacio /\ c.luego = <<>> /\ c.cierra = Vacio /\ c.hoja = hoja
  BY <1>2, <1>3, <1>5, <1>6, <1>15 DEF Llamadas, Recien
<1>8. i \in Sujetos
  BY <1>3, CamposDa
<1>10. PICK d : d = [c EXCEPT !.sobre = i]
  OBVIOUS
<1>11. /\ d \in Llamadas /\ d.ida /\ d.q = filtro /\ d.op = "guardar" /\ d.local = "stock"
      /\ d.resto = {} /\ d.flag = Vacio /\ d.luego = <<>> /\ d.cierra = Vacio /\ d.sobre = i /\ d.hoja = hoja
  BY <1>7, <1>8, <1>10, SobreDa
<1>12. Molde(pagina, d)
  BY <1>1, <1>2, <1>3, <1>11 DEF Molde, DeStock, Abiertas
<1>13. /\ Presenta(i, c) /\ d.flag = c.flag /\ d.local # "voltea" /\ d.op \in Escrituras
       /\ \A p \in {"lotes", "variantes"} : Contains(d.luego, p) => i = panel[p].de /\ i # Nadie
       /\ Protegida(d) => pagina \in {"nueva", "onboarding"} \/ d.flag \in Abiertas
       /\ pagina = "onboarding" => "saved" \notin ocupado
  BY <1>1, <1>3, <1>6, <1>7, <1>11, CamposDa, VacioDa DEF Nombres, Escrituras, Protegida, Abiertas, InventarioAjusta
<1>14. Envio(d)
  BY <1>1, <1>8, <1>10, <1>11, <1>12, <1>13, PresentaDa
<1> QED
  BY <1>14, EnvioDa

LEMMA CompraEstadoDa ==
  ASSUME BaseInv, CompraEstado
  PROVE  Gesticula
<1>1. pagina = "compra"
  BY DEF CompraEstado, En
<1>2. /\ "estado" \in Operaciones /\ "savingEstado" \in Textos /\ <<>> \in Colas /\ "estado" \in Locales
      /\ Vacio \in Textos /\ "savingEstado" \in Banderas /\ gestos + 1 \in Nat
  BY CamposDa DEF Operaciones, Escrituras, Lecturas, Nombres, Banderas, Textos, Locales, BaseInv
<1>3. PICK i \in Filas : Pulsa(i, [Llamada("estado", i) EXCEPT !.vale = ~lista.filas[i].activa,
                                          !.flag = "savingEstado", !.local = "estado"])
  BY Zenon DEF CompraEstado
<1>15. PICK v \in BOOLEAN : v = ~lista.filas[i].activa
  OBVIOUS
<1>4. PICK b : b = Llamada("estado", i)
  OBVIOUS
<1>5. Recien(b, "estado", i)
  BY <1>2, <1>3, <1>4, CamposDa, LlamadaDa
<1>6. PICK c : c = [b EXCEPT !.vale = v, !.flag = "savingEstado", !.local = "estado"] /\ Pulsa(i, c)
  BY <1>3, <1>4, <1>15
<1>7. /\ c \in Llamadas /\ c.ida /\ c.q = filtro /\ c.op = "estado" /\ c.local = "estado"
      /\ c.resto = {} /\ c.flag = "savingEstado" /\ c.luego = <<>> /\ c.cierra = Vacio /\ c.hoja = hoja
  BY <1>2, <1>3, <1>5, <1>6, <1>15 DEF Llamadas, Recien
<1>8. i \in Sujetos
  BY <1>3, CamposDa
<1>9. PICK g \in Nat : g = gestos + 1
  BY <1>2
<1>10. PICK d : d = ConHoja(c, i, g)
  OBVIOUS
<1>11. /\ d \in Llamadas /\ d.ida /\ d.q = filtro /\ d.op = "estado" /\ d.local = "estado"
      /\ d.resto = {} /\ d.flag = "savingEstado" /\ d.luego = <<>> /\ d.cierra = Vacio /\ d.sobre = i /\ d.hoja = g
  BY <1>7, <1>8, <1>9, <1>10, SobreHojaDa
<1>12. Molde(pagina, d)
  BY <1>1, <1>2, <1>3, <1>11 DEF Molde, DeEstado, Abiertas
<1>13. /\ Pulsa(i, c) /\ d.flag = c.flag /\ d.local = c.local /\ d.local # "voltea"
       /\ ~Contains(d.luego, "lotes") /\ ~Contains(d.luego, "variantes")
       /\ d.op = "movs" => i = panel["movs"].de
       /\ d.op \notin {"lista", "lotes", "variantes"}
  BY <1>3, <1>6, <1>7, <1>11, CamposDa, VacioDa DEF Nombres, Titular
<1>14. Envio(d)
  BY <1>1, <1>8, <1>9, <1>10, <1>11, <1>12, <1>13, PulsaDa
<1> QED
  BY <1>14, EnvioDa

\* The rows selected, of which the first one is sent.
LEMMA ProductosEliminaDa ==
  ASSUME BaseInv, ProductosElimina
  PROVE  Gesticula
<1>1. pagina = "productos" /\ dialogo.tipo = "lote" /\ "deleting" \notin ocupado /\ marcas # {}
  BY DEF ProductosElimina, En
<1>2. /\ "estado" \in Operaciones /\ "deleting" \in Textos /\ <<"lista">> \in Colas /\ "todas" \in Locales
      /\ Vacio \in Textos /\ "deleting" \in Banderas
  BY CamposDa DEF Operaciones, Escrituras, Lecturas, Nombres, Banderas, Textos, Locales, BaseInv
<1>3. PICK i \in Filas : i = CHOOSE j \in marcas : TRUE
  BY <1>1 DEF BaseInv
<1>4. PICK R \in SUBSET Filas : R = marcas \ {i}
  BY DEF BaseInv
<1>5. PICK b : b = Llamada("estado", i)
  OBVIOUS
<1>6. i \in Sujetos
  BY CamposDa
<1>7. Recien(b, "estado", i)
  BY <1>2, <1>5, <1>6, LlamadaDa
<1>8. PICK c : /\ c = [b EXCEPT !.vale = FALSE, !.resto = R, !.flag = "deleting", !.local = "todas",
                                !.luego = <<"lista">>]
               /\ Manda(c)
  BY <1>3, <1>4, <1>5, Zenon DEF ProductosElimina
<1>9. /\ c \in Llamadas /\ c.ida /\ c.q = filtro /\ c.op = "estado" /\ c.local = "todas" /\ ~c.vale
      /\ c.flag = "deleting" /\ c.luego = <<"lista">> /\ c.cierra = Vacio
  BY <1>2, <1>7, <1>8 DEF Llamadas, Recien
<1>10. Molde(pagina, c)
  BY <1>1, <1>9 DEF Molde, DeTodas
<1>11. Forma(pagina, c)
  BY <1>9, <1>10, MoldeForma
<1>12. /\ gestos < MaxGestos /\ gestos' = gestos + 1 /\ carrera' = (carrera \/ FALSE)
       /\ UNCHANGED <<pagina, srv, fallas, hechas, doble, anuladas, averia>>
       /\ UNCHANGED <<filtro, lista, cargando, dialogo, hoja, panel, marcas, paso, relojes>>
  BY DEF ProductosElimina, Gesto, GestoEn
<1>13. EnvioEnPanel(c) /\ ~Protegida(c) /\ c.op # "lista" /\ c.local # "voltea"
  BY <1>9, <1>12, CamposDa DEF EnvioEnPanel, Protegida
<1>14. Toca
  BY <1>12 DEF Toca
<1>15. Envio(c)
  BY <1>1, <1>8, <1>9, <1>10, <1>11, <1>12, <1>13, <1>14 DEF Envio
<1> QED
  BY <1>15, EnvioDa

\* The payment goes to the customer on the screen.
LEMMA ClientesPagoDa ==
  ASSUME BaseInv, ClientesPago
  PROVE  Gesticula
<1>1. pagina = "clientes" /\ dialogo.tipo = "pago" /\ "pagoLoading" \notin ocupado
  BY DEF ClientesPago, En
<1>2. /\ "guardar" \in Operaciones /\ "pagoLoading" \in Textos /\ <<"cliente", "movs", "lista">> \in Colas
      /\ Vacio \in Locales /\ "pago" \in Textos /\ "pagoLoading" \in Banderas
  BY CamposDa DEF Operaciones, Escrituras, Lecturas, Nombres, Banderas, Textos, Locales, BaseInv
<1>3. PICK i \in Sujetos : i = Titular
  BY DEF BaseInv, Titular, Paneles
<1>5. PICK b : b = Llamada("guardar", i)
  OBVIOUS
<1>7. Recien(b, "guardar", i)
  BY <1>2, <1>5, LlamadaDa
<1>8. PICK c : /\ c = [b EXCEPT !.flag = "pagoLoading", !.cierra = "pago",
                                !.luego = <<"cliente", "movs", "lista">>]
               /\ Manda(c)
  BY <1>3, <1>5 DEF ClientesPago
<1>9. /\ c \in Llamadas /\ c.ida /\ c.q = filtro /\ c.op = "guardar" /\ c.local = Vacio /\ c.resto = {}
      /\ c.flag = "pagoLoading" /\ c.luego = <<"cliente", "movs", "lista">> /\ c.cierra = "pago"
      /\ c.hoja = hoja
  BY <1>2, <1>7, <1>8 DEF Llamadas, Recien
<1>10. Molde(pagina, c)
  BY <1>1, <1>9 DEF Molde, DePago
<1>11. Forma(pagina, c)
  BY <1>9, <1>10, MoldeForma
<1>12. /\ gestos < MaxGestos /\ gestos' = gestos + 1 /\ carrera' = (carrera \/ FALSE)
       /\ UNCHANGED <<pagina, srv, fallas, hechas, doble, anuladas, averia>>
       /\ UNCHANGED <<filtro, lista, cargando, dialogo, hoja, panel, marcas, paso, relojes>>
  BY DEF ClientesPago, Gesto, GestoEn
<1>13. EnvioEnPanel(c) /\ c.op # "lista" /\ c.local # "voltea"
  BY <1>9, <1>12, CamposDa, VacioDa DEF EnvioEnPanel, Nombres
<1>14. ~Sellada("pagoLoading")
  BY <1>1, VacioDa DEF Sellada, Cerrado, Nombres
<1>15. Toca
  BY <1>12 DEF Toca
<1>16. Envio(c)
  BY <1>1, <1>8, <1>9, <1>10, <1>11, <1>12, <1>13, <1>14, <1>15 DEF Envio
<1> QED
  BY <1>16, EnvioDa

\* A saved purchase leaves its page.
LEMMA GuardaCompraDa ==
  ASSUME BaseInv, HandleGuardar
  PROVE  Gesticula
<1>1. pagina = "nueva"
  BY DEF HandleGuardar, En
<1>2. /\ "alta" \in Operaciones /\ "saving" \in Textos /\ "navega" \in Locales
      /\ Vacio \in Textos /\ "saving" \in Banderas
  BY CamposDa DEF Operaciones, Escrituras, Lecturas, Nombres, Banderas, Textos, Locales, BaseInv
<1>3. PICK i \in Sujetos : i = Nadie
  BY CamposDa
<1>4. PICK b : b = Llamada("alta", i)
  OBVIOUS
<1>5. Recien(b, "alta", i)
  BY <1>2, <1>4, LlamadaDa
<1>6. PICK c : c = [b EXCEPT !.flag = "saving", !.local = "navega"] /\ Presenta(i, c)
  BY <1>3, <1>4 DEF HandleGuardar
<1>7. /\ c \in Llamadas /\ c.ida /\ c.q = filtro /\ c.op = "alta" /\ c.local = "navega"
      /\ c.resto = {} /\ c.flag = "saving" /\ c.luego = <<>> /\ c.cierra = Vacio /\ c.hoja = hoja
  BY <1>2, <1>5, <1>6 DEF Llamadas, Recien
<1>10. PICK d : d = [c EXCEPT !.sobre = i]
  OBVIOUS
<1>11. /\ d \in Llamadas /\ d.ida /\ d.q = filtro /\ d.op = "alta" /\ d.local = "navega"
       /\ d.resto = {} /\ d.flag = "saving" /\ d.luego = <<>> /\ d.cierra = Vacio /\ d.sobre = i /\ d.hoja = hoja
  BY <1>7, <1>10, SobreDa
<1>12. Molde(pagina, d)
  BY <1>1, <1>3, <1>11 DEF Molde, DeCompra
<1>13. /\ Presenta(i, c) /\ d.flag = c.flag /\ d.local # "voltea" /\ d.op \in Escrituras
       /\ \A p \in {"lotes", "variantes"} : Contains(d.luego, p) => i = panel[p].de /\ i # Nadie
  BY <1>6, <1>7, <1>11, CamposDa DEF Escrituras
<1>14. Envio(d)
  BY <1>1, <1>10, <1>11, <1>12, <1>13, PresentaDa
<1> QED
  BY <1>14, EnvioDa

\* What empties the filter, asks for another one, or only turns the page.
LEMMA LimpiaDa ==
  ASSUME BaseInv, StockSinSucursal \/ ConsultaLimpia \/ PrecioLimpia
  PROVE  Gesticula
<1>1. /\ gestos < MaxGestos /\ gestos' = gestos + 1 /\ carrera' = (carrera \/ vuelo # <<>>)
      /\ UNCHANGED <<pagina, srv, fallas, hechas, doble, anuladas, averia>>
      /\ UNCHANGED <<hoja, ocupado, panel, marcas, paso, relojes, vuelo>>
      /\ filtro' = Nadie /\ lista' = Nada
  BY DEF StockSinSucursal, ConsultaLimpia, PrecioLimpia, CambiaFiltro, GestoEn
<1>2. /\ dialogo' \in {dialogo, Cerrado} /\ (pagina = "stock" => dialogo = Cerrado)
      /\ pagina \in {"stock", "consulta", "precio"}
  BY DEF StockSinSucursal, ConsultaLimpia, PrecioLimpia, En, Libre
<1>3. Toca
  BY <1>1 DEF Toca
<1>4. Limpia
  BY <1>1, <1>2, <1>3 DEF Limpia
<1> QED
  BY <1>4 DEF Gesticula

LEMMA BuscaDa ==
  ASSUME BaseInv, NEW q \in Filtros, ConsultaBusca(q) \/ PrecioBusca(q)
  PROVE  Gesticula
<1>1. pagina \in {"consulta", "precio"}
  BY DEF ConsultaBusca, PrecioBusca, En, BaseInv, Quietas
<1>2. PICK c : c = [Listar EXCEPT !.q = q] /\ Manda(c)
  BY DEF ConsultaBusca, PrecioBusca
<1>3. /\ c \in Llamadas /\ DeLista(pagina, c) /\ Forma(pagina, c)
      /\ c.ida /\ c.q = q /\ c.hoja = hoja
  BY <1>1, <1>2, ListarDa
<1>4. /\ gestos < MaxGestos /\ gestos' = gestos + 1 /\ carrera' = (carrera \/ vuelo # <<>>)
      /\ UNCHANGED <<pagina, srv, fallas, hechas, doble, anuladas, averia>>
      /\ UNCHANGED <<dialogo, hoja, panel, marcas, paso, relojes>> /\ filtro' = q
      /\ lista' = lista \/ (lista' = Nada /\ pagina = "consulta")
  BY DEF ConsultaBusca, PrecioBusca, CambiaFiltro, GestoEn, En
<1>5. gestos' <= MaxGestos
  BY <1>4, PaginasAssumption DEF BaseInv
<1>6. Lectura(c)
  BY <1>2, <1>3, <1>4, <1>5 DEF Lectura
<1> QED
  BY <1>3, <1>6, LecturaDa

LEMMA PanelesDa ==
  ASSUME BaseInv, ProductosCierraPanel \/ ClientesVolver
  PROVE  Gesticula
<1>1. SueltaPanel
  BY DEF ProductosCierraPanel, ClientesVolver, Gesto, GestoEn, Toca, SueltaPanel
<1> QED
  BY <1>1 DEF Gesticula

LEMMA EligeDa ==
  ASSUME BaseInv, NEW F, ProductosElige(F)
  PROVE  Gesticula
<1>1. F \subseteq Filas
  BY FichaDa DEF BaseInv, ProductosElige, Clicable, Mostrada
<1>2. Elige
  BY <1>1 DEF BaseInv, ProductosElige, Gesto, GestoEn, Toca, Elige, En
<1> QED
  BY <1>2 DEF Gesticula

LEMMA ClientesEditaDetalleDa ==
  ASSUME BaseInv, ClientesEditaDetalle
  PROVE  Gesticula
<1>1. Titular \in Sujetos /\ "form" \in Nombres
  BY DEF BaseInv, Titular, Paneles, Nombres
<1>2. AbreDialogo("form", Titular)
  BY DEF ClientesEditaDetalle, En, Gesto, GestoEn, Toca, AbreDialogo, Quietas
<1> QED
  BY <1>1, <1>2 DEF Gesticula

LEMMA PaginaProductosDa ==
  ASSUME BaseInv,
         \/ ProductosSucursal \/ ProductosAbre \/ ProductosGuarda \/ ProductosToggle
         \/ ProductosAjusta
         \/ (\E F \in {{i} : i \in Filas} \cup {DOMAIN lista.filas} : ProductosElige(F))
         \/ ProductosAbreImportar \/ ProductosImporta \/ ProductosAbreBaja
         \/ ProductosElimina \/ ProductosCierraPanel \/ ProductosLotes
         \/ ProductosCreaLote \/ ProductosBajaLote \/ ProductosVariantes
         \/ ProductosCreaVariante
  PROVE  Gesticula
<1>1. CASE ProductosSucursal
  BY <1>1, RefiltraDa, RefrescaDa DEF ProductosSucursal, En, SinLista
<1>2. CASE ProductosAbre
  BY <1>2, AbreNuevaDa, AbreFilaDa DEF ProductosAbre, En, Quietas
<1>3. CASE ProductosGuarda
  BY <1>3, FormularioDa DEF ProductosGuarda, En, SinLista
<1>4. CASE ProductosToggle
  BY <1>4, ConmutaDa, CamposDa DEF ProductosToggle, En, Interruptor, Tres, Locales
<1>5. CASE \/ ProductosAjusta \/ ProductosImporta \/ ProductosElimina
          \/ ProductosCreaLote \/ ProductosBajaLote \/ ProductosCreaVariante
  BY <1>5, ProductosAjustaDa, ProductosImportaDa, ProductosEliminaDa, ProductosCreaLoteDa,
     ProductosBajaLoteDa, ProductosCreaVarianteDa
<1>6. CASE (\E F \in {{i} : i \in Filas} \cup {DOMAIN lista.filas} : ProductosElige(F))
  BY <1>6, EligeDa
<1>7. CASE \/ ProductosAbreImportar \/ ProductosAbreBaja
  BY <1>7, AbreDa, CamposDa DEF ProductosAbreImportar, ProductosAbreBaja, En, Quietas, Nombres
<1>8. CASE ProductosCierraPanel
  BY <1>8, PanelesDa
<1>9. CASE \/ ProductosLotes \/ ProductosVariantes
  BY <1>9, AbrePanelDa DEF ProductosLotes, ProductosVariantes, En
<1> QED
  BY <1>1, <1>2, <1>3, <1>4, <1>5, <1>6, <1>7, <1>8, <1>9

LEMMA PaginaPromocionesDa ==
  ASSUME BaseInv,
         \/ PromocionesAbre \/ PromocionesGuarda \/ PromocionesElimina
  PROVE  Gesticula
<1>1. CASE PromocionesAbre
  BY <1>1, AbreNuevaDa, AbreFilaDa DEF PromocionesAbre, En, Quietas
<1>2. CASE PromocionesGuarda
  BY <1>2, FormularioDa DEF PromocionesGuarda, En, SinLista
<1>3. CASE PromocionesElimina
  BY <1>3, BajaDa DEF PromocionesElimina, En, SinLista, Tres
<1> QED
  BY <1>1, <1>2, <1>3

LEMMA PaginaCategoriasDa ==
  ASSUME BaseInv,
         \/ CategoriasAbre \/ CategoriasGuarda \/ CategoriasDesactiva
         \/ CategoriasReactiva
  PROVE  Gesticula
<1>1. CASE CategoriasAbre
  BY <1>1, AbreNuevaDa, AbreFilaDa DEF CategoriasAbre, En, Quietas
<1>2. CASE CategoriasGuarda
  BY <1>2, FormularioDa DEF CategoriasGuarda, En, SinLista
<1>3. CASE CategoriasDesactiva
  BY <1>3, BajaDa DEF CategoriasDesactiva, En, SinLista, Tres
<1>4. CASE CategoriasReactiva
  BY <1>4, ConmutaDa, CamposDa DEF CategoriasReactiva, En, Interruptor, Tres, Locales
<1> QED
  BY <1>1, <1>2, <1>3, <1>4

LEMMA PaginaInventarioDa ==
  ASSUME BaseInv,
         \/ InventarioSucursal \/ InventarioAbreCrear \/ InventarioAbreEditar
         \/ InventarioAbreBaja \/ InventarioAbreDesarme \/ InventarioCrea
         \/ InventarioEdita \/ InventarioElimina \/ InventarioDesarma
         \/ InventarioAjusta
  PROVE  Gesticula
<1>1. CASE InventarioSucursal
  BY <1>1, RefiltraDa, RefrescaDa DEF InventarioSucursal, En, SinLista
<1>2. CASE \/ InventarioAbreCrear \/ InventarioAbreEditar \/ InventarioAbreBaja
          \/ InventarioAbreDesarme
  BY <1>2, AbreNuevaDa, AbreFilaDa DEF InventarioAbreCrear, InventarioAbreEditar, InventarioAbreBaja, InventarioAbreDesarme, En, Quietas
<1>3. CASE \/ InventarioCrea \/ InventarioEdita
  BY <1>3, FormularioDa DEF InventarioCrea, InventarioEdita, En, SinLista
<1>4. CASE InventarioElimina
  BY <1>4, BajaDa DEF InventarioElimina, En, SinLista, Tres
<1>5. CASE \/ InventarioDesarma \/ InventarioAjusta
  BY <1>5, InventarioDesarmaDa, InventarioAjustaDa
<1> QED
  BY <1>1, <1>2, <1>3, <1>4, <1>5

LEMMA PaginaUsuariosDa ==
  ASSUME BaseInv,
         \/ UsuariosFiltra \/ UsuariosAbre \/ UsuariosGuarda \/ UsuariosToggle
  PROVE  Gesticula
<1>1. CASE UsuariosFiltra
  BY <1>1, RefiltraDa, RefrescaDa DEF UsuariosFiltra, En, SinLista
<1>2. CASE UsuariosAbre
  BY <1>2, AbreNuevaDa, AbreFilaDa DEF UsuariosAbre, En, Quietas
<1>3. CASE UsuariosGuarda
  BY <1>3, FormularioDa DEF UsuariosGuarda, En, SinLista
<1>4. CASE UsuariosToggle
  BY <1>4, ConmutaDa, CamposDa DEF UsuariosToggle, En, Interruptor, Tres, Locales
<1> QED
  BY <1>1, <1>2, <1>3, <1>4

LEMMA PaginaSucursalesDa ==
  ASSUME BaseInv,
         \/ SucursalesAbre \/ SucursalesGuarda \/ SucursalesToggle
  PROVE  Gesticula
<1>1. CASE SucursalesAbre
  BY <1>1, AbreNuevaDa, AbreFilaDa DEF SucursalesAbre, En, Quietas
<1>2. CASE SucursalesGuarda
  BY <1>2, FormularioDa DEF SucursalesGuarda, En, SinLista
<1>3. CASE SucursalesToggle
  BY <1>3, ConmutaDa, CamposDa DEF SucursalesToggle, En, Interruptor, Tres, Locales
<1> QED
  BY <1>1, <1>2, <1>3

LEMMA PaginaProveedoresDa ==
  ASSUME BaseInv,
         \/ ProveedoresAbreNuevo \/ ProveedoresAbreEditar \/ ProveedoresGuarda
         \/ ProveedoresAplicaCSV
  PROVE  Gesticula
<1>1. CASE \/ ProveedoresAbreNuevo \/ ProveedoresAbreEditar
  BY <1>1, AbreNuevaDa, AbreFilaDa DEF ProveedoresAbreNuevo, ProveedoresAbreEditar, En, Quietas
<1>2. CASE ProveedoresGuarda
  BY <1>2, FormularioDa DEF ProveedoresGuarda, En, SinLista
<1>3. CASE ProveedoresAplicaCSV
  BY <1>3, ProveedoresAplicaCSVDa
<1> QED
  BY <1>1, <1>2, <1>3

LEMMA PaginaTransferenciasDa ==
  ASSUME BaseInv,
         \/ TransferenciasFiltra \/ TransferenciasAbre \/ TransferenciasCrea
         \/ TransferenciasResuelve
  PROVE  Gesticula
<1>1. CASE TransferenciasFiltra
  BY <1>1, RefiltraDa, RefrescaDa DEF TransferenciasFiltra, En, SinLista
<1>2. CASE TransferenciasAbre
  BY <1>2, AbreNuevaDa, AbreFilaDa DEF TransferenciasAbre, En, Quietas
<1>3. CASE TransferenciasCrea
  BY <1>3, FormularioDa DEF TransferenciasCrea, En, SinLista
<1>4. CASE TransferenciasResuelve
  BY <1>4, BajaDa DEF TransferenciasResuelve, En, SinLista, Tres
<1> QED
  BY <1>1, <1>2, <1>3, <1>4

LEMMA PaginaStockDa ==
  ASSUME BaseInv,
         \/ StockSucursal \/ StockSinSucursal \/ StockAbre \/ StockAjusta
  PROVE  Gesticula
<1>1. CASE StockSucursal
  BY <1>1, RefiltraDa, RefrescaDa DEF StockSucursal, En, SinLista
<1>2. CASE StockSinSucursal
  BY <1>2, LimpiaDa
<1>3. CASE StockAbre
  BY <1>3, AbreNuevaDa, AbreFilaDa DEF StockAbre, En, Quietas
<1>4. CASE StockAjusta
  BY <1>4, StockAjustaDa
<1> QED
  BY <1>1, <1>2, <1>3, <1>4

LEMMA PaginaVencimientosDa ==
  ASSUME BaseInv,
         \/ VencimientosFiltra \/ VencimientosAbre \/ VencimientosElimina
  PROVE  Gesticula
<1>1. CASE VencimientosFiltra
  BY <1>1, RefiltraDa, RefrescaDa DEF VencimientosFiltra, En, SinLista
<1>2. CASE VencimientosAbre
  BY <1>2, AbreNuevaDa, AbreFilaDa DEF VencimientosAbre, En, Quietas
<1>3. CASE VencimientosElimina
  BY <1>3, BajaDa DEF VencimientosElimina, En, SinLista, Tres
<1> QED
  BY <1>1, <1>2, <1>3

LEMMA PaginaClientesDa ==
  ASSUME BaseInv,
         \/ ClientesAbreNuevo \/ ClientesAbreEditar \/ ClientesGuarda
         \/ ClientesEditaDetalle \/ ClientesDetalle \/ ClientesDeudor
         \/ ClientesVolver \/ ClientesPagina \/ ClientesAbrePago \/ ClientesPago
  PROVE  Gesticula
<1>1. CASE \/ ClientesAbreNuevo \/ ClientesAbreEditar
  BY <1>1, AbreNuevaDa, AbreFilaDa DEF ClientesAbreNuevo, ClientesAbreEditar, En, Quietas
<1>2. CASE ClientesGuarda
  BY <1>2, FormularioDa DEF ClientesGuarda, En, SinLista
<1>3. CASE \/ ClientesEditaDetalle \/ ClientesDetalle \/ ClientesDeudor
          \/ ClientesPagina \/ ClientesPago
  BY <1>3, ClientesEditaDetalleDa, ClientesDetalleDa, ClientesDeudorDa, ClientesPaginaDa,
     ClientesPagoDa
<1>4. CASE ClientesVolver
  BY <1>4, PanelesDa
<1>5. CASE ClientesAbrePago
  BY <1>5, AbreDa, CamposDa DEF ClientesAbrePago, En, Quietas, Nombres
<1> QED
  BY <1>1, <1>2, <1>3, <1>4, <1>5

LEMMA PaginaComprasDa ==
  ASSUME BaseInv,
         \/ ComprasFiltra \/ ComprasEstado \/ ComprasAbre \/ ComprasElimina
  PROVE  Gesticula
<1>1. CASE ComprasFiltra
  BY <1>1, RefiltraDa, RefrescaDa DEF ComprasFiltra, En, SinLista
<1>2. CASE ComprasEstado
  BY <1>2, ConmutaDa, CamposDa DEF ComprasEstado, En, Interruptor, Tres, Locales
<1>3. CASE ComprasAbre
  BY <1>3, AbreNuevaDa, AbreFilaDa DEF ComprasAbre, En, Quietas
<1>4. CASE ComprasElimina
  BY <1>4, ComprasEliminaDa
<1> QED
  BY <1>1, <1>2, <1>3, <1>4

LEMMA PaginaCompraDa ==
  ASSUME BaseInv,
         CompraEstado
  PROVE  Gesticula
BY CompraEstadoDa

LEMMA PaginaFacturacionDa ==
  ASSUME BaseInv,
         \/ FacturacionFiltra \/ FacturacionAbre \/ FacturacionAnula
         \/ FacturacionDocumento
  PROVE  Gesticula
<1>1. CASE FacturacionFiltra
  BY <1>1, RefiltraDa, RefrescaDa DEF FacturacionFiltra, En, SinLista
<1>2. CASE FacturacionAbre
  BY <1>2, AbreDa, CamposDa DEF FacturacionAbre, En, Quietas, Nombres
<1>3. CASE \/ FacturacionAnula \/ FacturacionDocumento
  BY <1>3, FacturacionAnulaDa, FacturacionDocumentoDa
<1> QED
  BY <1>1, <1>2, <1>3

LEMMA PaginaReportesDa ==
  ASSUME BaseInv,
         ReportesFiltra
  PROVE  Gesticula
BY RefiltraDa, RefrescaDa DEF ReportesFiltra, En, SinLista

LEMMA PaginaDashboardDa ==
  ASSUME BaseInv,
         DashboardFiltra
  PROVE  Gesticula
BY RefiltraDa, RefrescaDa DEF DashboardFiltra, En, SinLista

LEMMA PaginaFiscalDa ==
  ASSUME BaseInv,
         FiscalGuarda
  PROVE  Gesticula
BY FiscalGuardaDa

LEMMA PaginaAIDa ==
  ASSUME BaseInv,
         \/ AIEnvia \/ AIMetricas
  PROVE  Gesticula
BY AIEnviaDa, AIMetricasDa

LEMMA PaginaCierreDa ==
  ASSUME BaseInv,
         \/ CierreActualiza \/ CierreEnvia
  PROVE  Gesticula
<1>1. CASE CierreActualiza
  BY <1>1, RefiltraDa, RefrescaDa DEF CierreActualiza, En, SinLista
<1>2. CASE CierreEnvia
  BY <1>2, CierreEnviaDa
<1> QED
  BY <1>1, <1>2

LEMMA UsuarioDa ==
  ASSUME BaseInv, Usuario
  PROVE  Gesticula
<1>1. CASE ReportesFiltra \/ DashboardFiltra
  BY <1>1, PaginaReportesDa, PaginaDashboardDa
<1>2. CASE ConsultaLimpia \/ PrecioLimpia
  BY <1>2, LimpiaDa
<1>3. CASE (\E q \in Filtros : ConsultaBusca(q)) \/ \E q \in Filtros : PrecioBusca(q)
  BY <1>3, BuscaDa
<1>4. CASE PrecioAbre
  BY <1>4, AbreDa, CamposDa DEF PrecioAbre, En, Quietas, Nombres
<1>5. CASE HistorialVuelve
  BY <1>5, RefrescaDa DEF HistorialVuelve, En, SinLista
<1>6. CASE \E q \in Filtros \ {filtro} : HistorialSucursal(q)
  BY <1>6, RefiltraDa DEF HistorialSucursal, En
<1>7. CASE \E d \in {0, 1} : OnboardingPasa(d)
  BY <1>7 DEF Gesticula
<1>8. CASE OnboardingGuarda
  BY <1>8, OnboardingGuardaDa
<1>9. CASE Cierra
  BY <1>9, CierraDa
<1>10. CASE \/ ProductosSucursal \/ ProductosAbre \/ ProductosGuarda \/ ProductosToggle
            \/ ProductosAjusta
            \/ (\E F \in {{i} : i \in Filas} \cup {DOMAIN lista.filas} : ProductosElige(F))
            \/ ProductosAbreImportar \/ ProductosImporta \/ ProductosAbreBaja
            \/ ProductosElimina \/ ProductosCierraPanel \/ ProductosLotes
            \/ ProductosCreaLote \/ ProductosBajaLote \/ ProductosVariantes
            \/ ProductosCreaVariante
  BY <1>10, PaginaProductosDa
<1>11. CASE \/ PromocionesAbre \/ PromocionesGuarda \/ PromocionesElimina
            \/ CategoriasAbre \/ CategoriasGuarda \/ CategoriasDesactiva \/ CategoriasReactiva
  BY <1>11, PaginaPromocionesDa, PaginaCategoriasDa
<1>12. CASE \/ InventarioSucursal \/ InventarioAbreCrear \/ InventarioAbreEditar
            \/ InventarioAbreBaja \/ InventarioAbreDesarme \/ InventarioCrea \/ InventarioEdita
            \/ InventarioElimina \/ InventarioDesarma \/ InventarioAjusta
  BY <1>12, PaginaInventarioDa
<1>13. CASE \/ UsuariosFiltra \/ UsuariosAbre \/ UsuariosGuarda \/ UsuariosToggle
            \/ SucursalesAbre \/ SucursalesGuarda \/ SucursalesToggle
            \/ ProveedoresAbreNuevo \/ ProveedoresAbreEditar \/ ProveedoresGuarda
            \/ ProveedoresAplicaCSV
  BY <1>13, PaginaUsuariosDa, PaginaSucursalesDa, PaginaProveedoresDa
<1>14. CASE \/ TransferenciasFiltra \/ TransferenciasAbre \/ TransferenciasCrea
            \/ TransferenciasResuelve
            \/ StockSucursal \/ StockSinSucursal \/ StockAbre \/ StockAjusta
            \/ VencimientosFiltra \/ VencimientosAbre \/ VencimientosElimina
  BY <1>14, PaginaTransferenciasDa, PaginaStockDa, PaginaVencimientosDa
<1>15. CASE \/ ClientesAbreNuevo \/ ClientesAbreEditar \/ ClientesGuarda \/ ClientesEditaDetalle
            \/ ClientesDetalle \/ ClientesDeudor \/ ClientesVolver \/ ClientesPagina
            \/ ClientesAbrePago \/ ClientesPago
  BY <1>15, PaginaClientesDa
<1>16. CASE \/ ComprasFiltra \/ ComprasEstado \/ ComprasAbre \/ ComprasElimina \/ CompraEstado
            \/ FacturacionFiltra \/ FacturacionAbre \/ FacturacionAnula \/ FacturacionDocumento
  BY <1>16, PaginaComprasDa, PaginaCompraDa, PaginaFacturacionDa
<1>17. CASE FiscalGuarda \/ AIEnvia \/ AIMetricas \/ CierreActualiza \/ CierreEnvia
  BY <1>17, PaginaFiscalDa, PaginaAIDa, PaginaCierreDa
<1> QED
  BY <1>1, <1>2, <1>3, <1>4, <1>5, <1>6, <1>7, <1>8, <1>9, <1>10, <1>11, <1>12, <1>13, <1>14,
     <1>15, <1>16, <1>17 DEF Usuario

\* A key typed in the purchase form.
Teclea == Toca /\ UNCHANGED <<pantalla, vuelo>>

\* What a step of the panel can be.
Paso ==
  \/ Gesticula \/ Teclea
  \/ \E k \in 1..Len(vuelo) : Atiende(k) \/ DeCache(k) \/ Vuelve(k) \/ Falla(k) \/ OnboardingGuardado(k)
  \/ \E c \in Llamadas : Lectura(c)
  \/ OnboardingAvanza
  \/ \E k \in 1..Len(vuelo) : Navega(k)
  \/ Cancela
  \/ UNCHANGED vars

LEMMA PasoDa ==
  ASSUME BaseInv, [PanelNext]_panelVars
  PROVE  Paso
<1>1. CASE UNCHANGED panelVars
  BY <1>1 DEF panelVars, Paso
<1>2. CASE Usuario
  BY <1>2, UsuarioDa DEF Paso
<1>3. CASE \E k \in 1..Len(vuelo) : Red(k) \/ Falla(k) \/ DeCache(k)
  BY <1>3 DEF Red, Paso
<1>4. CASE OnboardingAvanza \/ Cancela
  BY <1>4 DEF Paso
<1>5. CASE DashboardTic
  <2>1. pagina = "dashboard"
    BY <1>5 DEF DashboardTic, En
  <2>2. PICK c : c = Listar /\ Manda(c)
    BY <1>5 DEF DashboardTic
  <2>3. filtro \in Filtros \cup {Nadie} /\ gestos \in Nat /\ gestos <= MaxGestos
    BY DEF BaseInv
  <2>4. /\ c \in Llamadas /\ DeLista(pagina, c) /\ Forma(pagina, c)
        /\ c.ida /\ c.q = filtro /\ c.hoja = hoja
    BY <2>1, <2>2, <2>3, ListarDa
  <2>5. Lectura(c)
    BY <1>5, <2>1, <2>2, <2>3, <2>4 DEF DashboardTic, Lectura, SinLista
  <2> QED
    BY <2>4, <2>5 DEF Paso
<1>6. CASE \E k \in DOMAIN vuelo : Navega(k)
  <2>1. DOMAIN vuelo = 1..Len(vuelo)
    BY DEF BaseInv
  <2> QED
    BY <1>6, <2>1 DEF Paso
<1>7. CASE HandleGuardar
  BY <1>7, GuardaCompraDa DEF Paso
<1>8. CASE DejaDescuento \/ ProveedoresLlegan
  BY <1>8 DEF DejaDescuento, ProveedoresLlegan, Paso
<1>9. CASE \/ AddRow \/ AddPago \/ EligeProveedor
           \/ \E k \in Claves(items) : RemoveRow(k) \/ (\E c \in Campos : UpdateRow(k, c[1], c[2]))
                                        \/ \E d \in Descuentos : TecleaDescuento(k, d)
           \/ \E k \in Claves(pagos) : RemovePago(k) \/ \E v \in Precios : UpdatePago(k, v)
  <2>1. Edita
    BY <1>9 DEF AddRow, AddPago, EligeProveedor, RemoveRow, UpdateRow, TecleaDescuento, RemovePago,
                UpdatePago
  <2>2. Teclea
    BY <2>1 DEF Edita, Gesto, GestoEn, Toca, Teclea
  <2> QED
    BY <2>2 DEF Paso
<1> QED
  BY <1>1, <1>2, <1>3, <1>4, <1>5, <1>6, <1>7, <1>8, <1>9 DEF PanelNext, Compra, Next

-----------------------------------------------------------------------------
(* The calls in flight, and the steps that change them *)

\* The place in the queue of the call that is at j once the one at k has left.
Salta(k, j) == IF j < k THEN j ELSE j + 1
Vuelta(k, i) == IF i < k THEN i ELSE i - 1

\* r is s without its call k; or with the next call d of its chain at the end.
Sin(V, s, k, r) ==
  /\ r \in Seq(V) /\ Len(r) = Len(s) - 1
  /\ \A j \in 1..Len(r) : Salta(k, j) \in 1..Len(s) \ {k} /\ r[j] = s[Salta(k, j)]
  /\ \A i \in 1..Len(s) \ {k} : Vuelta(k, i) \in 1..Len(r) /\ r[Vuelta(k, i)] = s[i]

Con(V, s, k, d, r) ==
  /\ r \in Seq(V) /\ Len(r) = Len(s) /\ r[Len(s)] = d
  /\ \A j \in 1..Len(s) \ {Len(s)} : Salta(k, j) \in 1..Len(s) \ {k} /\ r[j] = s[Salta(k, j)]
  /\ \A i \in 1..Len(s) \ {k} : Vuelta(k, i) \in 1..Len(s) \ {Len(s)} /\ r[Vuelta(k, i)] = s[i]

LEMMA QuitaDa ==
  ASSUME NEW V, NEW s \in Seq(V), NEW k \in 1..Len(s), NEW r, r = RemoveAt(s, k)
  PROVE  Sin(V, s, k, r)
<1>1. PICK n \in Nat : n = Len(s)
  OBVIOUS
<1>2. PICK a, b : a = SubSeq(s, 1, k - 1) /\ b = SubSeq(s, k + 1, n)
  OBVIOUS
<1>3. r = a \o b
  BY <1>1, <1>2 DEF RemoveAt
<1>4. a \in Seq(V) /\ Len(a) = k - 1 /\ \A j \in 1..(k - 1) : a[j] = s[j]
  BY <1>1, <1>2
<1>5. b \in Seq(V) /\ Len(b) = n - k /\ \A j \in 1..(n - k) : b[j] = s[k + j]
  <2>1. k \in 1..n /\ k + 1 \in 1..(n + 1) /\ n \in 0..n
    BY <1>1
  <2>2. CASE k = n
    BY <1>1, <1>2, <2>2
  <2>3. CASE k < n
    <3>1. \A j \in (k + 1)..n : s[j] \in V
      BY <1>1, <2>1
    <3>2. b = [j \in 1..(n - k) |-> s[k + j]]
      BY <1>1, <1>2, <2>1, <2>3
    <3> QED
      BY <1>1, <2>1, <2>3, <3>1, <3>2
  <2> QED
    BY <2>1, <2>2, <2>3
<1>6. r \in Seq(V) /\ Len(r) = n - 1
  <2>1. a \in Seq(V) /\ b \in Seq(V)
    BY <1>4, <1>5
  <2>2. r \in Seq(V) /\ Len(r) = Len(a) + Len(b)
    BY <1>3, <2>1
  <2> QED
    BY <1>1, <1>4, <1>5, <2>2
<1>7. ASSUME NEW j \in 1..Len(r) PROVE Salta(k, j) \in 1..Len(s) \ {k} /\ r[j] = s[Salta(k, j)]
  <2>1. CASE j < k
    BY <1>1, <1>3, <1>4, <1>5, <1>6, <2>1 DEF Salta
  <2>2. CASE ~(j < k)
    <3>1. j - (k - 1) \in 1..(n - k) /\ r[j] = b[j - (k - 1)]
      BY <1>1, <1>3, <1>4, <1>5, <1>6, <2>2
    <3>2. k + (j - (k - 1)) = j + 1
      BY <1>1, <1>6
    <3>3. b[j - (k - 1)] = s[j + 1]
      BY <1>5, <3>1, <3>2
    <3> QED
      BY <1>1, <1>6, <2>2, <3>1, <3>3 DEF Salta
  <2> QED
    BY <2>1, <2>2
<1>8. ASSUME NEW i \in 1..Len(s) \ {k} PROVE Vuelta(k, i) \in 1..Len(r) /\ r[Vuelta(k, i)] = s[i]
  <2>1. Vuelta(k, i) \in 1..Len(r) /\ Salta(k, Vuelta(k, i)) = i
    BY <1>1, <1>6 DEF Vuelta, Salta
  <2> QED
    BY <1>7, <2>1
<1> QED
  BY <1>1, <1>6, <1>7, <1>8 DEF Sin

LEMMA ColaSinDa ==
  ASSUME NEW V, NEW s \in Seq(V), NEW k \in 1..Len(s), NEW r, r = RemoveAt(s, k) \o <<>>
  PROVE  Sin(V, s, k, r)
<1>1. PICK u : u = RemoveAt(s, k)
  OBVIOUS
<1>2. Sin(V, s, k, u)
  BY <1>1, QuitaDa
<1>3. r = u
  BY <1>1, <1>2 DEF Sin
<1> QED
  BY <1>2, <1>3

Mas(V, u, d, r) ==
  /\ r \in Seq(V) /\ Len(r) = Len(u) + 1 /\ r[Len(u) + 1] = d
  /\ \A j \in 1..Len(u) : r[j] = u[j]

LEMMA AgregaDa ==
  ASSUME NEW V, NEW u \in Seq(V), NEW d \in V, NEW r, r = u \o <<d>>
  PROVE  Mas(V, u, d, r)
<1>1. r = Append(u, d)
  OBVIOUS
<1> QED
  BY <1>1 DEF Mas

LEMMA ColaConDa ==
  ASSUME NEW V, NEW s \in Seq(V), NEW k \in 1..Len(s), NEW d \in V,
         NEW r, r = RemoveAt(s, k) \o <<d>>
  PROVE  Con(V, s, k, d, r)
<1>1. PICK u : u = RemoveAt(s, k)
  OBVIOUS
<1>2. Sin(V, s, k, u)
  BY <1>1, QuitaDa
<1>3. u \in Seq(V) /\ Len(u) = Len(s) - 1 /\ r = u \o <<d>>
  BY <1>1, <1>2 DEF Sin
<1>6. r \in Seq(V) /\ Len(r) = Len(u) + 1 /\ r[Len(u) + 1] = d /\ \A j \in 1..Len(u) : r[j] = u[j]
  <2>1. Mas(V, u, d, r)
    BY <1>3, AgregaDa
  <2> QED
    BY <2>1 DEF Mas
<1>7. Len(s) \in Nat /\ Len(s) = Len(u) + 1
  BY <1>3
<1>5. 1..Len(s) \ {Len(s)} = 1..Len(u)
  BY <1>7
<1> QED
  BY <1>2, <1>5, <1>6, <1>7 DEF Sin, Con

LEMMA ConDa ==
  ASSUME NEW V, NEW s \in Seq(V), NEW k, NEW d, NEW r, Con(V, s, k, d, r)
  PROVE  /\ r \in Seq(V) /\ DOMAIN r = 1..Len(s) /\ Len(r) = Len(s) /\ r[Len(s)] = d
         /\ \A j \in DOMAIN r : r[j] = d \/ \E i \in 1..Len(s) \ {k} : r[j] = s[i]
BY DEF Con

\* A row seen with filter q.
Cifra(f, q) == f.n[IF Parcial(q) THEN q ELSE Completo]

LEMMA VistaDa ==
  /\ \A f \in Registros, q \in Filtros \cup {Nadie} :
       /\ Vista(f, q) \in Fichas /\ Vista(f, q).existe = f.existe /\ Vista(f, q).activa = f.activa
       /\ Vista(f, q).n = Cifra(f, q)
  /\ No \in Registros /\ Nueva \in Registros /\ ~No.existe
  /\ Completo \in Filtros /\ ~Parcial(Completo) /\ ~Parcial(Nadie)
<1>1. Completo \in Filtros
  BY PaginasAssumption
<1>2. ASSUME NEW f \in Registros, NEW q \in Filtros \cup {Nadie}
      PROVE  /\ Vista(f, q) \in Fichas /\ Vista(f, q).existe = f.existe /\ Vista(f, q).activa = f.activa
             /\ Vista(f, q).n = Cifra(f, q)
  <2>1. PICK a : a = IF Parcial(q) THEN q ELSE Completo
    OBVIOUS
  <2>2. a \in Filtros
    BY <1>1, <2>1 DEF Parcial
  <2>3. PICK m \in Nat : m = f.n[a]
    BY <2>2 DEF Registros
  <2>4. Vista(f, q) = [f EXCEPT !.n = m]
    BY <2>1, <2>3 DEF Vista
  <2> QED
    BY <2>1, <2>3, <2>4 DEF Registros, Fichas, Cifra
<1>3. EnNinguna \in [Filtros -> Nat]
  BY DEF EnNinguna
<1>4. No \in Registros /\ Nueva \in Registros /\ ~No.existe
  BY <1>3 DEF No, Nueva, Registros
<1>5. ~Parcial(Completo) /\ ~Parcial(Nadie)
  BY DEF Parcial
<1> QED
  BY <1>1, <1>2, <1>4, <1>5

\* The rows that page p shows with filter f.
Vistos(p, s, f) == {i \in Presentes(s) : p \in PorEstado /\ Parcial(f) => s[i].activa}

\* What a request of the list with filter q answers.
LEMMA ListadasDa ==
  ASSUME NEW s \in [Filas -> Registros], NEW q \in Filtros \cup {Nadie}, NEW r, r = Listadas(s, q)
  PROVE  /\ r \in Vistas /\ DOMAIN r = Vistos(pagina, s, q)
         /\ \A i \in DOMAIN r : /\ i \in Presentes(s) /\ i \in Filas /\ s[i] \in Registros
                               /\ r[i] = Vista(s[i], q)
<1>1. Visibles(s, q) = Vistos(pagina, s, q)
  BY DEF Visibles, Vistos
<1>2. DOMAIN r = Visibles(s, q) /\ \A i \in Visibles(s, q) : r[i] = Vista(s[i], q)
  BY DEF Listadas
<1>3. \A i \in Visibles(s, q) : i \in Presentes(s) /\ i \in Filas /\ s[i] \in Registros /\ s[i].existe
  BY DEF Visibles, Presentes
<1>4. \A i \in Visibles(s, q) : Vista(s[i], q) \in Vivas
  BY <1>3, VistaDa DEF Fichas, Vivas
<1>5. r \in [Visibles(s, q) -> Vivas] /\ Visibles(s, q) \in SUBSET Filas
  BY <1>3, <1>4 DEF Listadas
<1>6. r \in Vistas
  BY <1>5 DEF Vistas
<1> QED
  BY <1>1, <1>2, <1>3, <1>6

LEMMA EscritaDa ==
  ASSUME NEW c \in Llamadas, c.op \in {"guardar", "estado", "borrar"}, NEW f \in Registros, NEW g, g = Escrita(c, f)
  PROVE  /\ g \in Registros
         /\ c.op = "guardar" => g.existe = f.existe /\ g.activa = f.activa /\ g.n = Contada(c, f.n)
         /\ c.op = "estado" => g.existe = f.existe /\ g.activa = c.vale /\ g.n = f.n
         /\ c.op = "borrar" => g = No
<1>1. No \in Registros /\ c.vale \in BOOLEAN
  BY VistaDa DEF Llamadas
<1>2. CASE c.op = "guardar"
  <2>1. PICK m : m = Contada(c, f.n)
    OBVIOUS
  <2>2. m \in [Filtros -> Nat]
    BY <2>1 DEF Contada, Registros
  <2>3. g = [f EXCEPT !.n = m]
    BY <1>2, <2>1 DEF Escrita
  <2> QED
    BY <1>2, <2>1, <2>2, <2>3 DEF Registros
<1>3. CASE c.op = "estado"
  BY <1>1, <1>3 DEF Escrita, Registros
<1>4. CASE c.op = "borrar"
  BY <1>1, <1>4 DEF Escrita
<1> QED
  BY <1>2, <1>3, <1>4

\* What the server holds after a call: only alta creates a row.
LEMMA EfectoDa ==
  ASSUME srv \in [Filas -> Registros], NEW c \in Llamadas, NEW s, s = Efecto(c)
  PROVE  /\ s \in [Filas -> Registros]
         /\ c.op \in Lecturas \cup {"sub"} => s = srv
         /\ c.op # "alta" /\ c.sobre \notin Filas => s = srv
         /\ c.op # "alta" => \A j \in Filas \ {c.sobre} : s[j] = srv[j]
         /\ c.op \in {"guardar", "estado", "borrar"} /\ c.sobre \in Filas =>
              IF ~srv[c.sobre].existe THEN s = srv
              ELSE s = [srv EXCEPT ![c.sobre] = Escrita(c, srv[c.sobre])]
<1>1. No \in Registros /\ Nueva \in Registros /\ c.sobre \in Sujetos /\ c.vale \in BOOLEAN
  BY VistaDa DEF Llamadas
<1>2. CASE c.op \in Lecturas \cup {"sub"}
  <2>1. s = srv
    BY <1>2, Zenon DEF Efecto
  <2> QED
    BY <1>2, <2>1 DEF Lecturas
<1>3. CASE c.op = "alta"
  <2>0. c.op \notin Lecturas \cup {"sub"}
    BY <1>3 DEF Lecturas
  <2>1. PICK i : i = Destino(c)
    OBVIOUS
  <2>2. s = IF i \notin Filas THEN srv ELSE [srv EXCEPT ![i] = Nueva]
    BY <1>3, <2>0, <2>1 DEF Efecto, Escrita
  <2> QED
    BY <1>1, <1>3, <2>0, <2>2
<1>4. CASE c.op \in {"guardar", "estado", "borrar"}
  <2>0. c.op \notin Lecturas \cup {"sub"} /\ c.op # "alta"
    BY <1>4 DEF Lecturas
  <2>4. Destino(c) = c.sobre
    BY <2>0 DEF Destino
  <2>1. CASE c.sobre \notin Filas
    <3>1. s = srv
      BY <2>0, <2>1, <2>4 DEF Efecto
    <3> QED
      BY <2>0, <2>1, <3>1
  <2>2. CASE c.sobre \in Filas /\ ~srv[c.sobre].existe
    <3>1. s = srv
      BY <2>0, <2>2, <2>4 DEF Efecto
    <3> QED
      BY <2>0, <2>2, <3>1
  <2>3. CASE c.sobre \in Filas /\ srv[c.sobre].existe
    <3>1. s = [srv EXCEPT ![c.sobre] = Escrita(c, srv[c.sobre])]
      BY <2>0, <2>3, <2>4 DEF Efecto
    <3>2. Escrita(c, srv[c.sobre]) \in Registros
      BY <1>1, <1>4, <2>3, EscritaDa
    <3> QED
      BY <2>0, <2>3, <3>1, <3>2
  <2> QED
    BY <2>1, <2>2, <2>3
<1> QED
  BY <1>2, <1>3, <1>4 DEF Llamadas, Operaciones, Escrituras

LEMMA FilaDa ==
  ASSUME NEW l \in Copias, NEW i \in DOMAIN l.filas, NEW g \in Vivas, NEW a,
         a = [l EXCEPT !.filas[i] = g]
  PROVE  /\ a \in Copias /\ a.de = l.de /\ DOMAIN a.filas = DOMAIN l.filas /\ a.filas[i] = g
         /\ \A j \in DOMAIN l.filas \ {i} : a.filas[j] = l.filas[j]
<1>1. PICK S \in SUBSET Filas : l.filas \in [S -> Vivas]
  BY DEF Copias, Vistas
<1>2. PICK f : f = [l.filas EXCEPT ![i] = g]
  OBVIOUS
<1>3. f \in [S -> Vivas] /\ f[i] = g /\ \A j \in S \ {i} : f[j] = l.filas[j]
  BY <1>1, <1>2
<1>4. f \in Vistas
  BY <1>1, <1>3 DEF Vistas
<1>5. a = [l EXCEPT !.filas = f]
  BY <1>2
<1>6. a \in Copias /\ a.de = l.de /\ a.filas = f
  BY <1>4, <1>5 DEF Copias
<1> QED
  BY <1>1, <1>3, <1>6

\* What the answer of c makes of a copy l of the list.
Traza(l, c, a) ==
  /\ a.de = l.de
  /\ DOMAIN a.filas = IF c.local = "quita" THEN DOMAIN l.filas \ {c.sobre} ELSE DOMAIN l.filas
  /\ \A j \in DOMAIN a.filas \ {c.sobre} : a.filas[j] = l.filas[j]
  /\ c.sobre \in DOMAIN a.filas =>
       /\ a.filas[c.sobre].activa = IF c.local = "voltea" THEN ~l.filas[c.sobre].activa
                                    ELSE IF c.local = "estado" /\ c.res.existe THEN c.res.activa
                                    ELSE l.filas[c.sobre].activa
       /\ a.filas[c.sobre].n = IF c.local = "stock" /\ c.res.existe THEN c.res.n
                               ELSE l.filas[c.sobre].n
  /\ c.local \notin {"voltea", "stock", "estado", "quita"} => a = l

LEMMA AplicadaDa ==
  ASSUME NEW p, NEW l \in Copias, NEW c, Forma(p, c), ~c.ida, NEW a, a = Aplicada(l, c)
  PROVE  /\ a \in Copias
         /\ c.op = "lista" => a = [de |-> c.q, filas |-> c.res]
         /\ c.op # "lista" => Traza(l, c, a)
<1>1. /\ c \in Llamadas /\ c.q \in Filtros \cup {Nadie}
      /\ c.op = "lista" => c.res \in Vistas
      /\ c.op # "lista" => c.res \in Fichas
  BY DEF Forma, Llamadas
<1>2. CASE c.op = "lista"
  BY <1>1, <1>2 DEF Aplicada, Copias
<1>3. CASE c.op # "lista" /\ c.local = "quita"
  <2>1. PICK f : f = [i \in DOMAIN l.filas \ {c.sobre} |-> l.filas[i]]
    OBVIOUS
  <2>2. PICK S \in SUBSET Filas : l.filas \in [S -> Vivas]
    BY DEF Copias, Vistas
  <2>3. f \in [S \ {c.sobre} -> Vivas]
    BY <2>1, <2>2
  <2>4. f \in Vistas
    BY <2>3, <2>2 DEF Vistas
  <2>5. a = [l EXCEPT !.filas = f]
    BY <1>3, <2>1 DEF Aplicada
  <2>6. a \in Copias /\ a.de = l.de /\ a.filas = f
    BY <2>4, <2>5 DEF Copias
  <2> QED
    BY <1>3, <2>1, <2>2, <2>3, <2>6 DEF Traza
<1>4. CASE c.op # "lista" /\ c.sobre \in DOMAIN l.filas /\ c.local \in {"voltea", "stock", "estado"}
  <2>1. PICK i \in DOMAIN l.filas : i = c.sobre
    BY <1>4
  <2>2. PICK f : f = l.filas[i]
    OBVIOUS
  <2>3. f \in Vivas /\ f.activa \in BOOLEAN /\ f.n \in Nat
    BY <2>2, FichaDa
  <2>4. c.res \in Fichas /\ c.res.n \in Nat /\ c.res.activa \in BOOLEAN
    BY <1>1, <1>4 DEF Fichas
  <2>5. ASSUME NEW g \in Vivas, a = [l EXCEPT !.filas[i] = g],
               g.activa = IF c.local = "voltea" THEN ~f.activa
                          ELSE IF c.local = "estado" /\ c.res.existe THEN c.res.activa ELSE f.activa,
               g.n = IF c.local = "stock" /\ c.res.existe THEN c.res.n ELSE f.n
        PROVE  a \in Copias /\ Traza(l, c, a)
    <3>1. /\ a \in Copias /\ a.de = l.de /\ DOMAIN a.filas = DOMAIN l.filas /\ a.filas[i] = g
          /\ \A j \in DOMAIN l.filas \ {i} : a.filas[j] = l.filas[j]
      BY <2>5, FilaDa
    <3>2. c.local # "quita"
      BY <1>4
    <3> QED
      BY <1>4, <2>1, <2>2, <2>5, <3>1, <3>2 DEF Traza
  <2>6. CASE c.local = "voltea"
    <3>1. PICK g : g = [f EXCEPT !.activa = ~f.activa]
      OBVIOUS
    <3>2. g \in Vivas /\ g.activa = ~f.activa /\ g.n = f.n
      BY <2>3, <3>1 DEF Vivas
    <3>3. a = [l EXCEPT !.filas[i] = g]
      BY <1>4, <2>1, <2>2, <2>6, <3>1 DEF Aplicada
    <3> QED
      BY <1>4, <2>5, <2>6, <3>2, <3>3
  <2>7. CASE c.local = "stock" /\ c.res.existe
    <3>1. PICK g : g = [f EXCEPT !.n = c.res.n]
      OBVIOUS
    <3>2. g \in Vivas /\ g.activa = f.activa /\ g.n = c.res.n
      BY <2>3, <2>4, <3>1 DEF Vivas
    <3>3. a = [l EXCEPT !.filas[i] = g]
      BY <1>4, <2>1, <2>2, <2>7, <3>1 DEF Aplicada
    <3> QED
      BY <1>4, <2>5, <2>7, <3>2, <3>3
  <2>8. CASE c.local = "estado" /\ c.res.existe
    <3>1. PICK g : g = [f EXCEPT !.activa = c.res.activa]
      OBVIOUS
    <3>2. g \in Vivas /\ g.activa = c.res.activa /\ g.n = f.n
      BY <2>3, <2>4, <3>1 DEF Vivas
    <3>3. a = [l EXCEPT !.filas[i] = g]
      BY <1>4, <2>1, <2>2, <2>8, <3>1 DEF Aplicada
    <3> QED
      BY <1>4, <2>5, <2>8, <3>2, <3>3
  <2>9. CASE c.local \in {"stock", "estado"} /\ ~c.res.existe
    <3>1. a = l
      BY <1>4, <2>9 DEF Aplicada
    <3> QED
      BY <1>4, <2>9, <3>1 DEF Traza
  <2> QED
    BY <1>4, <2>6, <2>7, <2>8, <2>9
<1>5. CASE c.op # "lista" /\ c.sobre \notin DOMAIN l.filas /\ c.local # "quita"
  <2>1. a = l
    BY <1>5 DEF Aplicada
  <2> QED
    BY <1>5, <2>1 DEF Traza
<1>6. CASE c.op # "lista" /\ c.local \notin {"voltea", "stock", "estado", "quita"}
  <2>1. a = l
    BY <1>6 DEF Aplicada
  <2> QED
    BY <1>6, <2>1 DEF Traza
<1> QED
  BY <1>2, <1>3, <1>4, <1>5, <1>6

\* The call that the server attends: its answer is what the server held then.
LEMMA AtendidaDa ==
  ASSUME BaseInv, NEW k \in 1..Len(vuelo), Atiende(k)
  PROVE  \E e : /\ vuelo' = [vuelo EXCEPT ![k] = e] /\ ~e.ida /\ Forma(pagina, e)
                /\ e.op = vuelo[k].op /\ e.sobre = vuelo[k].sobre /\ e.q = vuelo[k].q
                /\ e.flag = vuelo[k].flag /\ e.luego = vuelo[k].luego /\ e.local = vuelo[k].local
                /\ e.cierra = vuelo[k].cierra /\ e.vale = vuelo[k].vale /\ e.vio = vuelo[k].vio
                /\ e.resto = vuelo[k].resto /\ e.hoja = vuelo[k].hoja
                /\ e.res = IF e.op = "lista" THEN Listadas(srv, e.q)
                           ELSE IF e.sobre \in Filas THEN Vista(srv'[e.sobre], Completo) ELSE NoVista
<1>1. PICK c : c = vuelo[k]
  OBVIOUS
<1>2. vuelo \in Seq(Llamadas) /\ c \in Llamadas /\ Forma(pagina, c) /\ srv \in [Filas -> Registros]
  BY <1>1 DEF BaseInv
<1>3. c.ida /\ srv' = Efecto(c)
  BY <1>1 DEF Atiende
<1>4. srv' \in [Filas -> Registros]
  BY <1>2, <1>3, EfectoDa
<1>5. PICK r : r = IF c.op = "lista" THEN Listadas(srv, c.q)
                   ELSE IF c.sobre \in Filas THEN Vista(srv'[c.sobre], Completo) ELSE NoVista
  OBVIOUS
<1>6. r \in (IF c.op = "lista" THEN Vistas ELSE Fichas)
  <2>1. CASE c.op = "lista"
    <3>1. c.q \in Filtros \cup {Nadie} /\ r = Listadas(srv, c.q)
      BY <1>2, <1>5, <2>1 DEF Llamadas
    <3> QED
      BY <1>2, <2>1, <3>1, ListadasDa
  <2>2. CASE c.op # "lista"
    <3>1. c.sobre \in Filas => Vista(srv'[c.sobre], Completo) \in Fichas
      BY <1>4, VistaDa
    <3> QED
      BY <1>5, <2>2, <3>1, CamposDa
  <2> QED
    BY <2>1, <2>2
<1>7. PICK e : e = [c EXCEPT !.ida = FALSE, !.res = r]
  OBVIOUS
<1>8. vuelo' = [vuelo EXCEPT ![k] = e]
  <2>1. vuelo' = [vuelo EXCEPT ![k].ida = FALSE, ![k].res = r]
    BY <1>1, <1>5 DEF Atiende
  <2> QED
    BY <1>1, <1>2, <1>7, <2>1
<1>9. /\ e.op = c.op /\ e.sobre = c.sobre /\ e.q = c.q /\ e.flag = c.flag /\ e.luego = c.luego
      /\ e.local = c.local /\ e.cierra = c.cierra /\ e.vale = c.vale /\ e.vio = c.vio
      /\ e.resto = c.resto /\ e.hoja = c.hoja /\ e.ida = FALSE /\ e.res = r
  BY <1>2, <1>7 DEF Llamadas
<1>10. r \in Fichas \cup Vistas
  BY <1>6
<1>11. e \in Llamadas
  BY <1>2, <1>7, <1>10 DEF Llamadas
<1>12. Forma(pagina, e)
  BY <1>2, <1>6, <1>9, <1>11 DEF Forma, Protegida, Escritura
<1> QED
  BY <1>1, <1>5, <1>8, <1>9, <1>12

\* The request of the list that the service worker answers.
LEMMA DeCacheDa ==
  ASSUME BaseInv, NEW k \in 1..Len(vuelo), DeCache(k)
  PROVE  /\ \E e : /\ vuelo' = [vuelo EXCEPT ![k] = e] /\ ~e.ida /\ Forma(pagina, e)
                   /\ e.op = vuelo[k].op /\ e.sobre = vuelo[k].sobre /\ e.q = vuelo[k].q
                   /\ e.flag = vuelo[k].flag /\ e.luego = vuelo[k].luego /\ e.local = vuelo[k].local
                   /\ e.cierra = vuelo[k].cierra /\ e.vale = vuelo[k].vale /\ e.hoja = vuelo[k].hoja
         /\ vuelo[k].op = "lista" /\ averia' /\ fallas' \in Nat
         /\ UNCHANGED <<pantalla, srv, gestos, hechas, doble, anuladas, carrera>>
<1>1. PICK c : c = vuelo[k]
  OBVIOUS
<1>2. vuelo \in Seq(Llamadas) /\ c \in Llamadas /\ Forma(pagina, c) /\ c.op = "lista"
  BY <1>1 DEF BaseInv, DeCache
<1>3. PICK q \in Filtros \cup {Nadie} : q = IF pagina \in PorEstado THEN c.q ELSE Completo
  BY <1>2, PaginasAssumption DEF Llamadas
<1>4. PICK r : r = Guardada(c)
  OBVIOUS
<1>5. r \in Vistas
  <2>1. Iniciales \in [Filas -> Registros]
    BY VistaDa DEF Iniciales
  <2>2. r = Listadas(Iniciales, q)
    BY <1>3, <1>4 DEF Guardada
  <2> QED
    BY <2>1, <2>2, ListadasDa
<1>6. PICK e : e = [c EXCEPT !.ida = FALSE, !.res = r]
  OBVIOUS
<1>7. vuelo' = [vuelo EXCEPT ![k] = e]
  <2>1. vuelo' = [vuelo EXCEPT ![k].ida = FALSE, ![k].res = r]
    BY <1>1, <1>4 DEF DeCache
  <2> QED
    BY <1>1, <1>2, <1>6, <2>1
<1>8. /\ e.op = c.op /\ e.sobre = c.sobre /\ e.q = c.q /\ e.flag = c.flag /\ e.luego = c.luego
      /\ e.local = c.local /\ e.cierra = c.cierra /\ e.vale = c.vale /\ e.vio = c.vio
      /\ e.resto = c.resto /\ e.hoja = c.hoja /\ e.ida = FALSE /\ e.res = r
  BY <1>2, <1>6 DEF Llamadas
<1>9. e \in Llamadas
  BY <1>2, <1>5, <1>6 DEF Llamadas
<1>10. Forma(pagina, e)
  BY <1>2, <1>5, <1>8, <1>9 DEF Forma, Protegida, Escritura
<1>11. /\ averia' /\ fallas' \in Nat
       /\ UNCHANGED <<pantalla, srv, gestos, hechas, doble, anuladas, carrera>>
  BY DEF DeCache, BaseInv
<1> QED
  BY <1>1, <1>2, <1>7, <1>8, <1>10, <1>11

\* Call k leaves the queue; or the next call d of its chain takes the last place.
Sale(k) == Sin(Llamadas, vuelo, k, vuelo')
Encadena(k, d) == Con(Llamadas, vuelo, k, d, vuelo')

LEMMA ContinuaDa ==
  ASSUME BaseInv, NEW k \in 1..Len(vuelo), NEW prox, prox = <<>> \/ prox = Proxima(vuelo[k]),
         Continua(k, prox)
  PROVE  \/ prox = <<>> /\ Sale(k)
         \/ \E d \in Llamadas : prox = <<d>> /\ Sigue(pagina, vuelo[k], d) /\ Encadena(k, d)
<1>1. vuelo \in Seq(Llamadas) /\ Forma(pagina, vuelo[k])
  BY DEF BaseInv
<1>2. vuelo' = RemoveAt(vuelo, k) \o prox
  BY DEF Continua
<1>3. CASE prox = <<>>
  BY <1>1, <1>2, <1>3, ColaSinDa DEF Sale
<1>4. CASE prox # <<>>
  <2>1. PICK d : prox = <<d>> /\ Sigue(pagina, vuelo[k], d)
    BY <1>1, <1>4, ProximaDa
  <2>2. d \in Llamadas
    BY <2>1 DEF Sigue, Forma
  <2>3. Encadena(k, d)
    BY <1>1, <1>2, <2>1, <2>2, ColaConDa DEF Encadena
  <2> QED
    BY <2>1, <2>2, <2>3
<1> QED
  BY <1>3, <1>4

\* The queue after either is made of calls in flight.
LEMMA VueloDa ==
  ASSUME BaseInv, NEW k \in 1..Len(vuelo),
         Sale(k) \/ \E d \in Llamadas : Sigue(pagina, vuelo[k], d) /\ Encadena(k, d)
  PROVE  vuelo' \in Seq(Llamadas) /\ \A j \in DOMAIN vuelo' : Forma(pagina, vuelo'[j])
<1>1. /\ vuelo \in Seq(Llamadas) /\ DOMAIN vuelo = 1..Len(vuelo)
      /\ \A j \in 1..Len(vuelo) : Forma(pagina, vuelo[j])
  BY DEF BaseInv
<1>2. CASE Sale(k)
  <2>1. vuelo' \in Seq(Llamadas) /\ DOMAIN vuelo' = 1..Len(vuelo')
    BY <1>2 DEF Sale, Sin
  <2> QED
    BY <1>1, <1>2, <2>1 DEF Sale, Sin
<1>3. ASSUME NEW d \in Llamadas, Sigue(pagina, vuelo[k], d), Encadena(k, d)
      PROVE  vuelo' \in Seq(Llamadas) /\ \A j \in DOMAIN vuelo' : Forma(pagina, vuelo'[j])
  <2>1. /\ vuelo' \in Seq(Llamadas)
        /\ \A j \in DOMAIN vuelo' : vuelo'[j] = d \/ \E i \in 1..Len(vuelo) \ {k} : vuelo'[j] = vuelo[i]
    BY <1>1, <1>3, ConDa DEF Encadena
  <2>2. Forma(pagina, d)
    BY <1>3 DEF Sigue
  <2>3. ASSUME NEW j \in DOMAIN vuelo' PROVE Forma(pagina, vuelo'[j])
    <3>1. CASE vuelo'[j] = d
      BY <2>2, <3>1
    <3>2. CASE \E i \in 1..Len(vuelo) \ {k} : vuelo'[j] = vuelo[i]
      BY <1>1, <3>2
    <3> QED
      BY <2>1, <3>1, <3>2
  <2> QED
    BY <2>1, <2>3
<1> QED
  BY <1>2, <1>3

LEMMA BaseVuelve ==
  ASSUME BaseInv, NEW k \in 1..Len(vuelo), Vuelve(k)
  PROVE  BaseInv'
<1>1. PICK c : c = vuelo[k]
  OBVIOUS
<1>2. c \in Llamadas /\ Forma(pagina, c) /\ ~c.ida
  BY <1>1 DEF BaseInv, Vuelve
<1>3. Continua(k, Proxima(c)) /\ UNCHANGED <<pagina, srv, filtro, paso, relojes, gestos, fallas>>
  BY <1>1 DEF Vuelve
<1>4. vuelo' \in Seq(Llamadas) /\ \A j \in DOMAIN vuelo' : Forma(pagina', vuelo'[j])
  BY <1>1, <1>3, ContinuaDa, VueloDa
<1>5. lista' \in Copias
  BY <1>1, <1>2, AplicadaDa DEF Vuelve, EnLaLista, BaseInv
<1>6. c.sobre \in Sujetos
  BY <1>2 DEF Llamadas
<1>7. panel' \in [Paneles -> [de : Sujetos, filas : Sujetos]]
  BY <1>1, <1>6 DEF Vuelve, EnElPanel, BaseInv, Paneles
<1>8. dialogo' = dialogo \/ dialogo' = Cerrado
  BY DEF Vuelve, Cerrando
<1>9. marcas' \subseteq Filas
  BY <1>1, <1>2 DEF Vuelve, Marcadas, BaseInv, Forma
<1>10. hoja' \in Nat
  BY DEF Vuelve, BaseInv
<1> QED
  BY <1>3, <1>4, <1>5, <1>7, <1>8, <1>9, <1>10, CamposDa, VacioDa DEF BaseInv, Cerrado, Nombres

LEMMA NadaDa ==
  /\ Nada \in Copias /\ Nada.de = Nadie /\ DOMAIN Nada.filas = {}
<1>1. <<>> \in [{} -> Vivas]
  OBVIOUS
<1>2. <<>> \in Vistas
  BY <1>1 DEF Vistas
<1> QED
  BY <1>2 DEF Nada, Copias

LEMMA BaseFalla ==
  ASSUME BaseInv, NEW k \in 1..Len(vuelo), Falla(k)
  PROVE  BaseInv'
<1>1. PICK c : c = vuelo[k]
  OBVIOUS
<1>2. c \in Llamadas /\ Forma(pagina, c)
  BY <1>1 DEF BaseInv
<1>3. PICK prox : (prox = <<>> \/ prox = Proxima(c)) /\ Continua(k, prox)
  BY <1>1 DEF Falla
<1>4. UNCHANGED <<pagina, srv, filtro, hoja, panel, paso, relojes, gestos>> /\ fallas' = fallas + 1
  BY DEF Falla
<1>5. vuelo' \in Seq(Llamadas) /\ \A j \in DOMAIN vuelo' : Forma(pagina', vuelo'[j])
  BY <1>1, <1>3, <1>4, ContinuaDa, VueloDa
<1>6. lista' \in Copias
  <2>1. CASE pagina = "inventario" /\ c.local = "stock" /\ Mostrada(c.sobre)
    <3>1. PICK i \in DOMAIN lista.filas : i = c.sobre
      BY <2>1 DEF Mostrada
    <3>2. PICK f : f = lista.filas[i]
      OBVIOUS
    <3>3. f \in Vivas /\ c.vio.n + 1 \in Nat
      <4>1. lista \in Copias
        BY DEF BaseInv
      <4>2. f \in Vivas
        BY <3>2, <4>1, FichaDa
      <4>3. c.vio \in Fichas
        BY <1>2 DEF Llamadas
      <4> QED
        BY <4>2, <4>3 DEF Fichas
    <3>4. PICK g : g = [f EXCEPT !.n = c.vio.n + 1]
      OBVIOUS
    <3>5. g \in Vivas
      BY <3>3, <3>4 DEF Vivas
    <3>6. lista' = [lista EXCEPT !.filas[i] = g]
      BY <1>1, <2>1, <3>1, <3>2, <3>4 DEF Falla
    <3> QED
      BY <3>5, <3>6, FilaDa DEF BaseInv
  <2>2. CASE ~(pagina = "inventario" /\ c.local = "stock" /\ Mostrada(c.sobre))
    <3>1. lista' \in {lista, Nada}
      BY <1>1, <2>2 DEF Falla
    <3> QED
      BY <3>1, NadaDa DEF BaseInv
  <2> QED
    BY <2>1, <2>2
<1>7. dialogo' = dialogo \/ dialogo' = Cerrado
  BY DEF Falla, Cerrando
<1>8. marcas' \subseteq Filas
  BY DEF Falla, BaseInv
<1> QED
  BY <1>4, <1>5, <1>6, <1>7, <1>8, CamposDa, VacioDa DEF BaseInv, Cerrado, Nombres

LEMMA BaseAtiende ==
  ASSUME BaseInv, NEW k \in 1..Len(vuelo), Atiende(k)
  PROVE  BaseInv'
<1>1. PICK e : vuelo' = [vuelo EXCEPT ![k] = e] /\ Forma(pagina, e)
  BY AtendidaDa
<1>2. vuelo \in Seq(Llamadas) /\ e \in Llamadas /\ \A j \in DOMAIN vuelo : Forma(pagina, vuelo[j])
  BY <1>1 DEF BaseInv, Forma
<1>3. UNCHANGED <<pantalla, gestos, fallas>>
  BY DEF Atiende
<1>4. vuelo' \in Seq(Llamadas) /\ \A j \in DOMAIN vuelo' : Forma(pagina', vuelo'[j])
  BY <1>1, <1>2, <1>3 DEF pantalla
<1>5. srv' \in [Filas -> Registros]
  BY <1>2, EfectoDa DEF Atiende, BaseInv
<1> QED
  BY <1>3, <1>4, <1>5 DEF BaseInv, pantalla

LEMMA BaseDeCache ==
  ASSUME BaseInv, NEW k \in 1..Len(vuelo), DeCache(k)
  PROVE  BaseInv'
<1>1. PICK e : vuelo' = [vuelo EXCEPT ![k] = e] /\ Forma(pagina, e)
  BY DeCacheDa
<1>2. vuelo \in Seq(Llamadas) /\ e \in Llamadas /\ \A j \in DOMAIN vuelo : Forma(pagina, vuelo[j])
  BY <1>1 DEF BaseInv, Forma
<1>3. UNCHANGED <<pantalla, srv, gestos>> /\ fallas' \in Nat
  BY DeCacheDa
<1>4. vuelo' \in Seq(Llamadas) /\ \A j \in DOMAIN vuelo' : Forma(pagina', vuelo'[j])
  BY <1>1, <1>2, <1>3 DEF pantalla
<1> QED
  BY <1>3, <1>4 DEF BaseInv, pantalla

LEMMA BaseGuardado ==
  ASSUME BaseInv, NEW k \in 1..Len(vuelo), OnboardingGuardado(k)
  PROVE  BaseInv' /\ Sale(k)
<1>1. vuelo' = RemoveAt(vuelo, k) /\ vuelo \in Seq(Llamadas)
  BY DEF OnboardingGuardado, BaseInv
<1>2. Sale(k)
  BY <1>1, QuitaDa DEF Sale
<1>3. vuelo' \in Seq(Llamadas) /\ \A j \in DOMAIN vuelo' : Forma(pagina, vuelo'[j])
  BY <1>2, VueloDa
<1> QED
  BY <1>2, <1>3 DEF BaseInv, OnboardingGuardado

\* The call joins the queue.
LEMMA MandaDa ==
  ASSUME vuelo \in Seq(Llamadas), NEW c \in Llamadas, Manda(c)
  PROVE  /\ vuelo' \in Seq(Llamadas) /\ Len(vuelo') = Len(vuelo) + 1 /\ vuelo'[Len(vuelo) + 1] = c
         /\ \A j \in 1..Len(vuelo) : vuelo'[j] = vuelo[j]
         /\ 1..Len(vuelo') = 1..Len(vuelo) \cup {Len(vuelo) + 1} /\ Len(vuelo) < MaxVuelo
         /\ DOMAIN vuelo' = 1..Len(vuelo') /\ DOMAIN vuelo = 1..Len(vuelo)
BY DEF Manda

LEMMA ColaMandaDa ==
  ASSUME BaseInv, NEW c \in Llamadas, Forma(pagina, c), Manda(c)
  PROVE  vuelo' \in Seq(Llamadas) /\ \A j \in DOMAIN vuelo' : Forma(pagina, vuelo'[j])
<1>1. vuelo \in Seq(Llamadas) /\ \A j \in DOMAIN vuelo : Forma(pagina, vuelo[j])
  BY DEF BaseInv
<1>2. /\ vuelo' \in Seq(Llamadas) /\ vuelo'[Len(vuelo) + 1] = c
      /\ \A j \in 1..Len(vuelo) : vuelo'[j] = vuelo[j]
      /\ DOMAIN vuelo' = 1..Len(vuelo) \cup {Len(vuelo) + 1} /\ DOMAIN vuelo = 1..Len(vuelo)
  BY <1>1, MandaDa
<1> QED
  BY <1>1, <1>2

\* The gestures keep the types.
LEMMA BaseAbre ==
  ASSUME BaseInv, NEW t \in Nombres, NEW i \in Sujetos, AbreDialogo(t, i)
  PROVE  BaseInv'
<1>1. t \in Textos /\ gestos' \in Nat /\ gestos' <= MaxGestos
  BY CamposDa, PaginasAssumption DEF AbreDialogo, Toca, BaseInv
<1> QED
  BY <1>1, VacioDa DEF AbreDialogo, Toca, BaseInv

LEMMA BaseCierra ==
  ASSUME BaseInv, CierraDialogo \/ Elige \/ SueltaPanel \/ Limpia \/ Teclea
  PROVE  BaseInv'
<1>1. Toca /\ UNCHANGED <<hoja, paso, relojes, vuelo>>
  BY DEF CierraDialogo, Elige, SueltaPanel, Limpia, Teclea, pantalla
<1>2. gestos' \in Nat /\ gestos' <= MaxGestos /\ UNCHANGED <<pagina, srv, fallas>>
  BY <1>1, PaginasAssumption DEF Toca, BaseInv
<1>3. dialogo' = dialogo \/ dialogo' = Cerrado
  BY DEF CierraDialogo, Elige, SueltaPanel, Limpia, Teclea, pantalla
<1>4. /\ dialogo' \in [tipo : Textos, sobre : Sujetos]
      /\ dialogo'.tipo \in {Vacio, "importar", "lote", "pago", "precio"} => dialogo'.sobre = Nadie
      /\ dialogo'.tipo = "anular" => dialogo'.sobre \in Filas
      /\ pagina \in Quietas => dialogo'.tipo = Vacio
  <2>1. CASE dialogo' = dialogo
    BY <2>1 DEF BaseInv
  <2>2. CASE dialogo' = Cerrado
    <3>1. Vacio \in Textos /\ Nadie \in Sujetos /\ Vacio # "anular"
      BY CamposDa, VacioDa DEF Nombres
    <3> QED
      BY <2>2, <3>1 DEF Cerrado
  <2> QED
    BY <1>3, <2>1, <2>2
<1>5. panel' \in [Paneles -> [de : Sujetos, filas : Sujetos]]
  <2>1. CASE SueltaPanel
    <3>1. panel \in [Paneles -> [de : Sujetos, filas : Sujetos]] /\ Nadie \in Sujetos
      BY CamposDa DEF BaseInv
    <3>2. ASSUME NEW p \in {"lotes", "variantes"}, panel' = [panel EXCEPT ![p].de = Nadie]
          PROVE  panel' \in [Paneles -> [de : Sujetos, filas : Sujetos]]
      BY <3>1, <3>2 DEF Paneles
    <3>3. CASE panel' = [panel EXCEPT !["movs"] = [de |-> Nadie, filas |-> Nadie]]
      BY <3>1, <3>3 DEF Paneles
    <3> QED
      BY <2>1, <3>2, <3>3 DEF SueltaPanel
  <2>2. CASE ~SueltaPanel
    <3>1. panel' = panel
      BY <2>2 DEF CierraDialogo, Elige, SueltaPanel, Limpia, Teclea, pantalla
    <3> QED
      BY <3>1 DEF BaseInv
  <2> QED
    BY <2>1, <2>2
<1>6. filtro' \in Filtros \cup {Nadie} /\ lista' \in Copias /\ marcas' \subseteq Filas
  BY NadaDa DEF CierraDialogo, Elige, SueltaPanel, Limpia, Teclea, pantalla, BaseInv
<1> QED
  BY <1>1, <1>2, <1>4, <1>5, <1>6 DEF BaseInv

LEMMA BaseEnvio ==
  ASSUME BaseInv, NEW c, Envio(c)
  PROVE  BaseInv'
<1>1. c \in Llamadas /\ Forma(pagina, c) /\ Manda(c) /\ Toca
  BY DEF Envio
<1>2. vuelo' \in Seq(Llamadas) /\ \A j \in DOMAIN vuelo' : Forma(pagina, vuelo'[j])
  BY <1>1, ColaMandaDa
<1>3. /\ gestos' \in Nat /\ gestos' <= MaxGestos /\ UNCHANGED <<pagina, srv, fallas>>
      /\ hoja' \in Nat /\ UNCHANGED <<filtro, lista, marcas, paso, relojes>>
  BY <1>1, PaginasAssumption DEF Toca, BaseInv, Envio
<1>4. dialogo' = dialogo \/ dialogo' = Cerrado
  BY DEF Envio, EnvioEnPanel
<1>5. /\ dialogo' \in [tipo : Textos, sobre : Sujetos]
      /\ dialogo'.tipo \in {Vacio, "importar", "lote", "pago", "precio"} => dialogo'.sobre = Nadie
      /\ dialogo'.tipo = "anular" => dialogo'.sobre \in Filas
      /\ pagina \in Quietas => dialogo'.tipo = Vacio
  BY <1>4, CamposDa, VacioDa DEF BaseInv, Cerrado, Nombres
<1>6. panel' = panel \/ \E p \in {"lotes", "variantes"} : panel' = [panel EXCEPT ![p].de = c.sobre]
  BY DEF Envio, EnvioEnPanel
<1>7. c.sobre \in Sujetos
  BY <1>1 DEF Llamadas
<1>8. panel' \in [Paneles -> [de : Sujetos, filas : Sujetos]]
  <2>1. panel \in [Paneles -> [de : Sujetos, filas : Sujetos]]
    BY DEF BaseInv
  <2>2. ASSUME NEW p \in Paneles, panel' = [panel EXCEPT ![p].de = c.sobre]
        PROVE  panel' \in [Paneles -> [de : Sujetos, filas : Sujetos]]
    BY <1>7, <2>1, <2>2
  <2> QED
    BY <1>6, <2>1, <2>2 DEF Paneles
<1> QED
  BY <1>2, <1>3, <1>5, <1>8 DEF BaseInv

LEMMA BaseLectura ==
  ASSUME BaseInv, NEW c, Lectura(c)
  PROVE  BaseInv'
<1>1. c \in Llamadas /\ Forma(pagina, c) /\ Manda(c)
  BY DEF Lectura
<1>2. vuelo' \in Seq(Llamadas) /\ \A j \in DOMAIN vuelo' : Forma(pagina, vuelo'[j])
  BY <1>1, ColaMandaDa
<1>3. filtro' \in Filtros \cup {Nadie} /\ lista' \in Copias
  BY NadaDa DEF Lectura, BaseInv
<1>4. /\ gestos' \in Nat /\ gestos' <= MaxGestos
      /\ UNCHANGED <<pagina, srv, dialogo, hoja, panel, marcas, paso, relojes, fallas>>
  BY DEF Lectura, BaseInv
<1> QED
  BY <1>2, <1>3, <1>4 DEF BaseInv

LEMMA BasePasa ==
  ASSUME BaseInv, OnboardingAvanza \/ \E d \in {0, 1} : OnboardingPasa(d)
  PROVE  BaseInv'
<1>1. CASE OnboardingAvanza
  <2>1. /\ relojes' \in Nat /\ paso' \in Nat /\ hoja' \in Nat
        /\ UNCHANGED <<pagina, srv, filtro, lista, dialogo, panel, marcas, vuelo, gestos, fallas>>
    BY <1>1, PaginasAssumption DEF OnboardingAvanza, BaseInv
  <2> QED
    BY <2>1 DEF BaseInv
<1>2. CASE \E d \in {0, 1} : OnboardingPasa(d)
  <2>1. /\ gestos' \in Nat /\ gestos' <= MaxGestos /\ paso' \in Nat /\ hoja' \in Nat
        /\ UNCHANGED <<pagina, srv, filtro, lista, dialogo, panel, marcas, relojes, vuelo, fallas>>
    BY <1>2, PaginasAssumption DEF OnboardingPasa, Gesto, GestoEn, BaseInv, Pasos
  <2> QED
    BY <2>1 DEF BaseInv
<1> QED
  BY <1>1, <1>2

LEMMA BaseGesticula ==
  ASSUME BaseInv, Gesticula
  PROVE  BaseInv'
BY BaseAbre, BaseCierra, BaseEnvio, BaseLectura, BasePasa DEF Gesticula

\* The purchase form leaves for the list of purchases.
LEMMA BaseSale ==
  ASSUME BaseInv, (\E k \in 1..Len(vuelo) : Navega(k)) \/ Cancela
  PROVE  /\ BaseInv' /\ pagina' = "compras" /\ ocupado' = {}
         /\ UNCHANGED <<dialogo, hoja, lista, srv, panel>>
         /\ pagina = "nueva" /\ vuelo' # <<>> /\ filtro' = Completo
         /\ Len(vuelo) <= MaxVuelo => Len(vuelo') <= MaxVuelo
         /\ \A j \in DOMAIN vuelo' : vuelo'[j].flag = Vacio /\ vuelo'[j].luego = <<>>
                /\ vuelo'[j].local = Vacio /\ vuelo'[j].op \in {"alta", "lista"}
         /\ \E n \in {0, Len(vuelo)} :
              /\ Len(vuelo') = n + 1 /\ vuelo'[n + 1].op = "lista" /\ vuelo'[n + 1].ida
              /\ vuelo'[n + 1].q = Completo
              /\ \A j \in 1..n : vuelo'[j].op = "alta" /\ vuelo'[j].ida = vuelo[j].ida
<1>1. PICK calls : ACompras(calls) /\ (calls = <<>> \/ (calls = [k \in DOMAIN vuelo |-> SinPantalla(vuelo[k])]
                                                            /\ Len(vuelo) < MaxVuelo))
                   /\ gestos' \in {gestos, gestos + 1} /\ gestos' <= MaxGestos
  BY PaginasAssumption DEF Navega, Cancela, BaseInv
<1>2. vuelo \in Seq(Llamadas) /\ DOMAIN vuelo = 1..Len(vuelo) /\ \A k \in 1..Len(vuelo) : Forma(pagina, vuelo[k])
  BY DEF BaseInv
<1>3. pagina = "nueva"
  BY <1>2 DEF Navega, Cancela, En, Forma
<1>4. ASSUME NEW c, Forma("nueva", c), NEW e, e = SinPantalla(c)
      PROVE  /\ e \in Llamadas /\ Forma("compras", e) /\ e.flag = Vacio /\ e.luego = <<>>
             /\ e.local = Vacio /\ e.op = "alta" /\ e.ida = c.ida
  <2>1. c \in Llamadas /\ c.luego = <<>> /\ c.op = "alta" /\ Vacio \in Textos /\ Vacio \in Locales
    BY <1>4, CamposDa DEF Forma
  <2>2. /\ e \in Llamadas /\ e.flag = Vacio /\ e.luego = <<>> /\ e.local = Vacio /\ e.op = "alta"
        /\ e.sobre = c.sobre /\ e.resto = c.resto /\ e.ida = c.ida /\ e.res = c.res /\ e.cierra = c.cierra
    BY <1>4, <2>1 DEF SinPantalla, Llamadas
  <2>3. ~Protegida(e)
    BY <2>2 DEF Protegida
  <2>4. c.resto = {} /\ c.cierra # "lote" /\ c.sobre = Nadie /\ (c.ida \/ c.res \in Fichas)
    BY <1>4, <2>1, VacioDa DEF Forma, Nombres
  <2>5. Forma("compras", e)
    BY <2>2, <2>3, <2>4, CamposDa, VacioDa DEF Forma, Nombres, Abiertas, Banderas
  <2> QED
    BY <2>2, <2>5
<1>5. /\ calls \in Seq(Llamadas) /\ DOMAIN calls = 1..Len(calls) /\ Len(calls) < MaxVuelo
      /\ \A j \in 1..Len(calls) : /\ Forma("compras", calls[j]) /\ calls[j].flag = Vacio
                                  /\ calls[j].luego = <<>> /\ calls[j].local = Vacio /\ calls[j].op = "alta"
                                  /\ calls[j].ida = vuelo[j].ida
      /\ Len(calls) \in {0, Len(vuelo)}
  <2>1. CASE calls = <<>>
    BY <2>1, PaginasAssumption
  <2>2. CASE calls = [k \in DOMAIN vuelo |-> SinPantalla(vuelo[k])] /\ Len(vuelo) < MaxVuelo
    <3>1. Len(vuelo) \in Nat /\ calls = [k \in 1..Len(vuelo) |-> SinPantalla(vuelo[k])]
      BY <1>2, <2>2
    <3>2. \A k \in 1..Len(vuelo) : calls[k] = SinPantalla(vuelo[k]) /\ SinPantalla(vuelo[k]) \in Llamadas
      BY <1>2, <1>3, <1>4, <3>1
    <3>3. calls \in Seq(Llamadas) /\ DOMAIN calls = 1..Len(calls) /\ Len(calls) = Len(vuelo)
      BY <3>1, <3>2
    <3> QED
      BY <1>2, <1>3, <1>4, <2>2, <3>2, <3>3
  <2> QED
    BY <1>1, <2>1, <2>2
<1>6. Completo \in Filtros
  BY PaginasAssumption
<1>7. PICK c : c = [Listar EXCEPT !.q = Completo]
  OBVIOUS
<1>8. /\ c \in Llamadas /\ c.ida /\ c.op = "lista" /\ c.luego = <<>> /\ c.local = Vacio /\ c.flag = Vacio
      /\ c.resto = {} /\ c.cierra = Vacio /\ c.q = Completo
  <2>1. "lista" \in Operaciones /\ Nadie \in Sujetos
    BY CamposDa DEF Operaciones, Lecturas
  <2>2. PICK b : b = Llamada("lista", Nadie)
    OBVIOUS
  <2>3. Recien(b, "lista", Nadie)
    BY <2>1, <2>2, LlamadaDa
  <2>4. PICK q \in Filtros : c = [b EXCEPT !.q = q] /\ q = Completo
    BY <1>6, <1>7, <2>2 DEF Listar
  <2> QED
    BY <2>3, <2>4 DEF Recien, Llamadas
<1>9. Forma("compras", c)
  BY <1>8, MoldeForma DEF Molde, DeLista
<1>10. vuelo' = Append(calls, c)
  BY <1>1, <1>7 DEF ACompras
<1>11. /\ vuelo' \in Seq(Llamadas) /\ vuelo' # <<>> /\ Len(vuelo') <= MaxVuelo
       /\ \A j \in DOMAIN vuelo' : vuelo'[j] = c \/ \E i \in 1..Len(calls) : vuelo'[j] = calls[i]
  BY <1>5, <1>8, <1>10, PaginasAssumption
<1>12. \A j \in DOMAIN vuelo' : /\ Forma("compras", vuelo'[j]) /\ vuelo'[j].flag = Vacio
          /\ vuelo'[j].luego = <<>> /\ vuelo'[j].local = Vacio /\ vuelo'[j].op \in {"alta", "lista"}
  BY <1>5, <1>8, <1>9, <1>11
<1>13. /\ pagina' = "compras" /\ ocupado' = {} /\ filtro' = Completo
       /\ UNCHANGED <<srv, lista, dialogo, hoja, panel, marcas, paso, relojes, fallas>>
  BY <1>1 DEF ACompras
<1>14. "compras" \in Paginas /\ "compras" \notin Quietas /\ gestos' \in Nat
  BY <1>1 DEF Paginas, Quietas, BaseInv
<1>15. PICK n \in {0, Len(vuelo)} : n = Len(calls)
  BY <1>5
<1>16. /\ Len(vuelo') = n + 1 /\ vuelo'[n + 1] = c
       /\ \A j \in 1..n : vuelo'[j] = calls[j]
  BY <1>5, <1>8, <1>10, <1>15
<1>17. /\ Len(vuelo') = n + 1 /\ vuelo'[n + 1].op = "lista" /\ vuelo'[n + 1].ida
       /\ vuelo'[n + 1].q = Completo
       /\ \A j \in 1..n : vuelo'[j].op = "alta" /\ vuelo'[j].ida = vuelo[j].ida
  BY <1>5, <1>8, <1>15, <1>16
<1>18. BaseInv'
  BY <1>1, <1>3, <1>6, <1>11, <1>12, <1>13, <1>14 DEF BaseInv
<1> QED
  BY <1>3, <1>5, <1>10, <1>11, <1>12, <1>13, <1>15, <1>17, <1>18

LEMMA BaseEmpieza ==
  ASSUME Init
  PROVE  BaseInv
<1>1. pagina \in Paginas
  BY PaginasAssumption DEF Init
<1>2. srv \in [Filas -> Registros]
  BY VistaDa DEF Init, Iniciales
<1>3. filtro \in Filtros \cup {Nadie}
  BY PaginasAssumption DEF Init
<1>4. lista \in Copias
  BY NadaDa DEF Init
<1>5. /\ dialogo \in [tipo : Textos, sobre : Sujetos] /\ dialogo.tipo = Vacio /\ dialogo.sobre = Nadie
      /\ Vacio # "anular"
  BY CamposDa, VacioDa DEF Init, Cerrado, Nombres
<1>6. panel \in [Paneles -> [de : Sujetos, filas : Sujetos]]
  BY CamposDa DEF Init
<1>7. vuelo \in Seq(Llamadas) /\ \A k \in DOMAIN vuelo : Forma(pagina, vuelo[k])
  <2>1. CASE pagina \in SinLista
    BY <2>1 DEF Init
  <2>2. CASE pagina \notin SinLista
    <3>1. PICK c : c = Listar
      OBVIOUS
    <3>2. "lista" \in Operaciones /\ Nadie \in Sujetos /\ hoja \in Nat
      BY CamposDa DEF Operaciones, Lecturas, Init
    <3>3. Recien(c, "lista", Nadie)
      BY <1>3, <3>1, <3>2, LlamadaNace DEF Listar
    <3>4. DeLista(pagina, c)
      BY <2>2, <3>3 DEF DeLista, Recien, SinLista
    <3>5. c \in Llamadas /\ Forma(pagina, c)
      BY <3>3, <3>4, MoldeForma DEF Molde, Recien
    <3>6. vuelo = <<c>>
      BY <2>2, <3>1 DEF Init
    <3> QED
      BY <3>5, <3>6
  <2> QED
    BY <2>1, <2>2
<1> QED
  BY <1>1, <1>2, <1>3, <1>4, <1>5, <1>6, <1>7, PaginasAssumption DEF Init, BaseInv

\* The calls in flight and the state they meet have their types.
LEMMA BasePaso ==
  ASSUME BaseInv, Paso
  PROVE  BaseInv'
<1>1. CASE UNCHANGED vars
  BY <1>1 DEF vars, BaseInv
<1>2. CASE Teclea \/ OnboardingAvanza
  BY <1>2, BaseCierra, BasePasa
<1> QED
  BY <1>1, <1>2, BaseGesticula, BaseVuelve, BaseFalla, BaseAtiende, BaseDeCache, BaseGuardado, BaseLectura, BaseSale
     DEF Paso

LEMMA BaseSiempre == PanelSpec => []BaseInv
<1>1. PanelInit => BaseInv
  BY BaseEmpieza DEF PanelInit
<1>2. BaseInv /\ [PanelNext]_panelVars => BaseInv'
  BY PasoDa, BasePaso
<1> QED
  BY <1>1, <1>2, PTL DEF PanelSpec

-----------------------------------------------------------------------------
(* A form has one effect *)

\* The form of a call and its flag: what `hechas' remembers.
Par(c) == <<c.hoja, c.flag>>

\* A flag belongs to one call in flight; in the wizard, to one of each form.
UnaPorBandera ==
  \A k, j \in 1..Len(vuelo) :
    k # j /\ vuelo[k].flag \in Banderas /\ vuelo[k].flag = vuelo[j].flag =>
      pagina = "onboarding" /\ vuelo[k].hoja # vuelo[j].hoja

\* While it is in flight its button is disabled, if it is still on the screen.
BanderaPuesta ==
  \A k \in 1..Len(vuelo) : vuelo[k].flag \in Banderas /\ Montado(vuelo[k]) => vuelo[k].flag \in ocupado

\* Forms are numbered by the clicks, and a reset or a turn of the page starts a new one.
Numeradas ==
  /\ \A k \in 1..Len(vuelo) : Protegida(vuelo[k]) => vuelo[k].hoja <= gestos
  /\ \A x \in hechas : x[1] \in Nat /\ x[1] <= gestos /\ x[2] \in Banderas
  /\ pagina = "nueva" => \A x \in hechas : x[2] \notin Abiertas
  /\ hoja <= gestos + 1 \/ (pagina = "onboarding" /\ paso > Fiscal)
  /\ pagina = "onboarding" /\ paso <= Fiscal => hoja <= gestos
  /\ pagina = "onboarding" /\ vuelo # <<>> => paso >= 1
  /\ relojes > 0 => pagina = "onboarding" /\ paso >= 1

\* A form still on its way has had no effect yet; and one that had it is waiting for
\* its answer, or was closed by it.
SinRepetir ==
  ~averia => /\ ~doble
             /\ \A k \in 1..Len(vuelo) : Protegida(vuelo[k]) /\ vuelo[k].ida => Par(vuelo[k]) \notin hechas
             /\ \A x \in hechas : x[1] = hoja =>
                  Sellada(x[2]) \/ \E k \in 1..Len(vuelo) :
                                     Protegida(vuelo[k]) /\ ~vuelo[k].ida /\ Par(vuelo[k]) = x

\* The dialog of a form in flight is open, unless it was closed.
SuDialogo ==
  \A k \in 1..Len(vuelo) : Protegida(vuelo[k]) /\ vuelo[k].cierra # Vacio /\ vuelo[k].hoja = hoja =>
    dialogo.tipo \in {vuelo[k].cierra, Vacio}

UnaInv == UnaPorBandera /\ BanderaPuesta /\ Numeradas /\ SinRepetir /\ SuDialogo

LEMMA ParDa ==
  ASSUME NEW c
  PROVE  /\ Par(c)[1] = c.hoja /\ Par(c)[2] = c.flag
         /\ \A d : Par(c) = Par(d) => c.hoja = d.hoja /\ c.flag = d.flag
BY DEF Par

\* What is awaited next is a read, or another row of a deletion: not a protected form.
LEMMA SigueDa ==
  ASSUME NEW p, NEW c, Forma(p, c), NEW d, Sigue(p, c, d)
  PROVE  /\ ~Protegida(d) /\ d.hoja = c.hoja /\ d.flag \in {c.flag, Vacio} /\ p # "onboarding"
         /\ d.op \in Lecturas \/ d.local = "todas"
         /\ c.resto = {} => d.op \in Lecturas
<1>1. CASE c.resto # {}
  BY <1>1 DEF Sigue, Forma, Protegida
<1>2. CASE c.resto = {}
  <2>1. c.luego \in Colas /\ c.luego # <<>> /\ d.op = Head(c.luego)
    BY <1>2 DEF Sigue, Forma, Llamadas
  <2>2. d.op \in Lecturas
    BY <2>1 DEF Colas, Lecturas
  <2> QED
    BY <1>2, <2>1, <2>2 DEF Sigue, Forma, Protegida, Escritura
<1> QED
  BY <1>1, <1>2

\* The wizard has calls of one kind.
LEMMA AsistenteDa ==
  ASSUME NEW c, Forma("onboarding", c)
  PROVE  Protegida(c) /\ c.flag = "loading" /\ c.local = "fiscal" /\ Proxima(c) = <<>>
<1>1. c.flag = "loading" /\ c.local = "fiscal" /\ c.op = "sub" /\ c.luego = <<>> /\ c.resto = {}
  BY DEF Forma
<1>2. Protegida(c)
  BY <1>1, VacioDa DEF Protegida, Escritura, Lecturas, Banderas
<1> QED
  BY <1>1, <1>2 DEF Proxima

\* The calls now at j and h were two calls of the same forms.
Hubo(j, h) ==
  \E i, l \in 1..Len(vuelo) :
    /\ i # l /\ vuelo[i].flag = vuelo'[j].flag /\ vuelo[l].flag = vuelo'[j].flag
    /\ vuelo[i].hoja = vuelo'[j].hoja /\ vuelo[l].hoja = vuelo'[h].hoja

\* What is left of the queue when call k is answered.
Queda(k) ==
  /\ \A j \in 1..Len(vuelo') :
       \/ \E i \in 1..Len(vuelo) \ {k} : vuelo'[j] = vuelo[i]
       \/ /\ ~Protegida(vuelo'[j]) /\ pagina # "onboarding"
          /\ vuelo'[j].flag \in Banderas => vuelo'[j].flag = vuelo[k].flag
  /\ \A j, h \in 1..Len(vuelo') :
       j # h /\ vuelo'[j].flag \in Banderas /\ vuelo'[j].flag = vuelo'[h].flag =>
         Hubo(j, h)
  /\ \A i \in 1..Len(vuelo) \ {k} : \E j \in 1..Len(vuelo') : vuelo'[j] = vuelo[i]

LEMMA EncadenaDa ==
  ASSUME vuelo \in Seq(Llamadas), NEW k \in 1..Len(vuelo), NEW d, Encadena(k, d)
  PROVE  /\ vuelo' \in Seq(Llamadas) /\ Len(vuelo') = Len(vuelo) /\ vuelo'[Len(vuelo)] = d
         /\ \A j \in 1..Len(vuelo) \ {Len(vuelo)} :
              Salta(k, j) \in 1..Len(vuelo) \ {k} /\ vuelo'[j] = vuelo[Salta(k, j)]
         /\ \A i \in 1..Len(vuelo) \ {k} :
              Vuelta(k, i) \in 1..Len(vuelo) \ {Len(vuelo)} /\ vuelo'[Vuelta(k, i)] = vuelo[i]
<1>1. Con(Llamadas, vuelo, k, d, vuelo')
  BY DEF Encadena
<1> QED
  BY <1>1, Zenon DEF Con

LEMMA QuedaDa ==
  ASSUME BaseInv, NEW k \in 1..Len(vuelo),
         Sale(k) \/ \E d \in Llamadas : Sigue(pagina, vuelo[k], d) /\ Encadena(k, d)
  PROVE  Queda(k)
<1>1. /\ vuelo \in Seq(Llamadas) /\ Len(vuelo) \in Nat /\ \A j \in 1..Len(vuelo) : Forma(pagina, vuelo[j])
  BY DEF BaseInv
<1>2. CASE Sale(k)
  <2>1. /\ vuelo' \in Seq(Llamadas) /\ Len(vuelo') = Len(vuelo) - 1
        /\ \A j \in 1..Len(vuelo') : Salta(k, j) \in 1..Len(vuelo) \ {k} /\ vuelo'[j] = vuelo[Salta(k, j)]
        /\ \A i \in 1..Len(vuelo) \ {k} : Vuelta(k, i) \in 1..Len(vuelo') /\ vuelo'[Vuelta(k, i)] = vuelo[i]
    BY <1>2 DEF Sale, Sin
  <2>2. \A j, h \in 1..Len(vuelo') : j # h => Salta(k, j) # Salta(k, h)
    BY <2>1 DEF Salta
  <2>3. ASSUME NEW j \in 1..Len(vuelo'), NEW h \in 1..Len(vuelo'), j # h,
               vuelo'[j].flag \in Banderas, vuelo'[j].flag = vuelo'[h].flag
        PROVE  Hubo(j, h)
    <3>1. PICK i, l \in 1..Len(vuelo) : i # l /\ vuelo'[j] = vuelo[i] /\ vuelo'[h] = vuelo[l]
      BY <2>1, <2>2, <2>3
    <3> QED
      BY <2>3, <3>1 DEF Hubo
  <2>4. /\ \A j \in 1..Len(vuelo') : \E i \in 1..Len(vuelo) \ {k} : vuelo'[j] = vuelo[i]
        /\ \A i \in 1..Len(vuelo) \ {k} : \E j \in 1..Len(vuelo') : vuelo'[j] = vuelo[i]
    BY <2>1
  <2> QED
    BY <2>3, <2>4 DEF Queda
<1>3. ASSUME NEW d \in Llamadas, Sigue(pagina, vuelo[k], d), Encadena(k, d)
      PROVE  Queda(k)
  <2>1. /\ Len(vuelo') = Len(vuelo) /\ vuelo'[Len(vuelo)] = d
        /\ \A j \in 1..Len(vuelo) \ {Len(vuelo)} : Salta(k, j) \in 1..Len(vuelo) \ {k} /\ vuelo'[j] = vuelo[Salta(k, j)]
        /\ \A i \in 1..Len(vuelo) \ {k} : Vuelta(k, i) \in 1..Len(vuelo) \ {Len(vuelo)} /\ vuelo'[Vuelta(k, i)] = vuelo[i]
    BY <1>1, <1>3, EncadenaDa
  <2>2. \A j, h \in 1..Len(vuelo) \ {Len(vuelo)} : j # h => Salta(k, j) # Salta(k, h)
    BY <1>1 DEF Salta
  <2>3. ~Protegida(d) /\ d.hoja = vuelo[k].hoja /\ d.flag \in {vuelo[k].flag, Vacio} /\ pagina # "onboarding"
    BY <1>1, <1>3, SigueDa
  <2>4. d.flag \in Banderas => d.flag = vuelo[k].flag
    BY <2>3, VacioDa
  <2>5. ASSUME NEW j \in 1..Len(vuelo'), NEW h \in 1..Len(vuelo'), j # h,
               vuelo'[j].flag \in Banderas, vuelo'[j].flag = vuelo'[h].flag
        PROVE  Hubo(j, h)
    <3>0. j \in 1..Len(vuelo) /\ h \in 1..Len(vuelo)
      BY <2>1
    <3>1. CASE j = Len(vuelo)
      <4>1. PICK l \in 1..Len(vuelo) \ {k} : vuelo'[h] = vuelo[l]
        BY <2>1, <2>5, <3>0, <3>1
      <4>2. vuelo'[j].hoja = vuelo[k].hoja /\ vuelo'[j].flag = vuelo[k].flag
        BY <2>1, <2>3, <2>4, <2>5, <3>1
      <4> QED
        BY <2>5, <4>1, <4>2 DEF Hubo
    <3>2. CASE h = Len(vuelo)
      <4>1. PICK i \in 1..Len(vuelo) \ {k} : vuelo'[j] = vuelo[i]
        BY <2>1, <2>5, <3>0, <3>2
      <4>2. vuelo'[h].hoja = vuelo[k].hoja /\ vuelo'[h].flag = vuelo[k].flag
        BY <2>1, <2>3, <2>4, <2>5, <3>2
      <4> QED
        BY <2>5, <4>1, <4>2 DEF Hubo
    <3>3. CASE j # Len(vuelo) /\ h # Len(vuelo)
      <4>1. PICK i, l \in 1..Len(vuelo) : i # l /\ vuelo'[j] = vuelo[i] /\ vuelo'[h] = vuelo[l]
        BY <2>1, <2>2, <2>5, <3>0, <3>3
      <4> QED
        BY <2>5, <4>1 DEF Hubo
    <3> QED
      BY <3>1, <3>2, <3>3
  <2>6. ASSUME NEW j \in 1..Len(vuelo')
        PROVE  \/ \E i \in 1..Len(vuelo) \ {k} : vuelo'[j] = vuelo[i]
               \/ /\ ~Protegida(vuelo'[j]) /\ pagina # "onboarding"
                  /\ vuelo'[j].flag \in Banderas => vuelo'[j].flag = vuelo[k].flag
    <3>1. CASE j = Len(vuelo)
      BY <2>1, <2>3, <2>4, <3>1
    <3>2. CASE j # Len(vuelo)
      BY <2>1, <3>2
    <3> QED
      BY <3>1, <3>2
  <2>7. \A i \in 1..Len(vuelo) \ {k} : \E j \in 1..Len(vuelo') : vuelo'[j] = vuelo[i]
    BY <2>1
  <2> QED
    BY <2>5, <2>6, <2>7 DEF Queda
<1> QED
  BY <1>2, <1>3

\* The flags of what is left, once Continua has released its own.
LEMMA BanderaSigueDa ==
  ASSUME BaseInv, UnaPorBandera, BanderaPuesta, NEW k \in 1..Len(vuelo),
         NEW prox, prox = <<>> \/ prox = Proxima(vuelo[k]), Continua(k, prox)
  PROVE  /\ Queda(k)
         /\ \A j \in 1..Len(vuelo') :
              vuelo'[j].flag \in Banderas /\ Montado(vuelo'[j]) => vuelo'[j].flag \in ocupado'
<1>1. /\ vuelo \in Seq(Llamadas) /\ Len(vuelo) \in Nat /\ \A j \in 1..Len(vuelo) : Forma(pagina, vuelo[j])
  BY DEF BaseInv
<1>2. PICK c : c = vuelo[k]
  OBVIOUS
<1>3. /\ ocupado' \subseteq ocupado
      /\ \A f \in ocupado \ {"refreshing"} :
           f \in ocupado' \/ (f = c.flag /\ Montado(c) /\ (prox = <<>> \/ prox[1].flag # c.flag))
  BY <1>2 DEF Continua
<1>4. "refreshing" \notin Banderas
  BY CamposDa
<1>5. ASSUME NEW i \in 1..Len(vuelo) \ {k}, vuelo[i].flag \in Banderas, Montado(vuelo[i])
      PROVE  vuelo[i].flag \in ocupado'
  <2>1. vuelo[i].flag \in ocupado
    BY <1>5 DEF BanderaPuesta
  <2>2. ~(vuelo[i].flag = c.flag /\ Montado(c))
    BY <1>2, <1>5 DEF UnaPorBandera, Montado
  <2> QED
    BY <1>3, <1>4, <1>5, <2>1, <2>2
<1>6. CASE Sale(k)
  <2>1. Queda(k)
    BY <1>6, QuedaDa
  <2>2. \A j \in 1..Len(vuelo') : \E i \in 1..Len(vuelo) \ {k} : vuelo'[j] = vuelo[i]
    BY <1>6 DEF Sale, Sin
  <2> QED
    BY <1>5, <2>1, <2>2
<1>7. ASSUME NEW d \in Llamadas, prox = <<d>>, Sigue(pagina, c, d), Encadena(k, d)
      PROVE  /\ Queda(k)
             /\ \A j \in 1..Len(vuelo') :
                  vuelo'[j].flag \in Banderas /\ Montado(vuelo'[j]) => vuelo'[j].flag \in ocupado'
  <2>1. Queda(k)
    BY <1>2, <1>7, QuedaDa
  <2>2. /\ Len(vuelo') = Len(vuelo) /\ vuelo'[Len(vuelo)] = d
        /\ \A j \in 1..Len(vuelo) \ {Len(vuelo)} : \E i \in 1..Len(vuelo) \ {k} : vuelo'[j] = vuelo[i]
    <3>1. /\ Len(vuelo') = Len(vuelo) /\ vuelo'[Len(vuelo)] = d
          /\ \A j \in 1..Len(vuelo) \ {Len(vuelo)} :
               Salta(k, j) \in 1..Len(vuelo) \ {k} /\ vuelo'[j] = vuelo[Salta(k, j)]
      BY <1>1, <1>7, EncadenaDa
    <3> QED
      BY <3>1
  <2>3. d.flag \in {c.flag, Vacio} /\ pagina # "onboarding"
    BY <1>1, <1>2, <1>7, SigueDa
  <2>4. d.flag \in Banderas => d.flag \in ocupado'
    <3>1. d.flag \in Banderas => d.flag = c.flag
      BY <2>3, VacioDa
    <3>2. c.flag \in Banderas => c.flag \in ocupado
      BY <1>2, <2>3 DEF BanderaPuesta, Montado
    <3> QED
      BY <1>3, <1>4, <1>7, <3>1, <3>2
  <2>5. ASSUME NEW j \in 1..Len(vuelo'), vuelo'[j].flag \in Banderas, Montado(vuelo'[j])
        PROVE  vuelo'[j].flag \in ocupado'
    <3>1. CASE j = Len(vuelo)
      BY <2>2, <2>4, <2>5, <3>1
    <3>2. CASE j # Len(vuelo)
      BY <1>5, <2>2, <2>5, <3>2
    <3> QED
      BY <3>1, <3>2
  <2> QED
    BY <2>1, <2>5
<1> QED
  BY <1>2, <1>6, <1>7, ContinuaDa

LEMMA BanderasQuedan ==
  ASSUME UnaPorBandera, NEW k \in 1..Len(vuelo), Queda(k), pagina' = pagina
  PROVE  UnaPorBandera'
<1>1. ASSUME NEW j \in 1..Len(vuelo'), NEW h \in 1..Len(vuelo'), j # h,
             vuelo'[j].flag \in Banderas, vuelo'[j].flag = vuelo'[h].flag
      PROVE  pagina' = "onboarding" /\ vuelo'[j].hoja # vuelo'[h].hoja
  <2>1. Hubo(j, h)
    BY <1>1 DEF Queda
  <2> QED
    BY <1>1, <2>1 DEF Hubo, UnaPorBandera
<1> QED
  BY <1>1 DEF UnaPorBandera

\* A protected form that is answered is closed by it: reset, or its dialog shut.
LEMMA UnaVuelve ==
  ASSUME BaseInv, UnaInv, NEW k \in 1..Len(vuelo), Vuelve(k)
  PROVE  UnaInv'
<1>1. PICK c : c = vuelo[k]
  OBVIOUS
<1>2. /\ c \in Llamadas /\ Forma(pagina, c) /\ ~c.ida /\ c.local # "navega" /\ c.local # "fiscal"
  BY <1>1 DEF BaseInv, Vuelve
<1>3. pagina # "onboarding"
  BY <1>2, AsistenteDa
<1>4. /\ UNCHANGED <<pagina, paso, relojes, gestos, hechas, doble, averia>>
      /\ hoja' = IF c.local = "reset" THEN gestos + 1 ELSE hoja
      /\ dialogo' = IF c.cierra # Vacio /\ dialogo.tipo = c.cierra THEN Cerrado ELSE dialogo
  BY <1>1 DEF Vuelve, Cerrando
<1>5. /\ Queda(k)
      /\ \A j \in 1..Len(vuelo') :
           vuelo'[j].flag \in Banderas /\ Montado(vuelo'[j]) => vuelo'[j].flag \in ocupado'
  BY <1>1, BanderaSigueDa DEF UnaInv, Vuelve
<1>6. UnaPorBandera'
  BY <1>4, <1>5, BanderasQuedan DEF UnaInv
<1>7. BanderaPuesta'
  BY <1>3, <1>4, <1>5 DEF BanderaPuesta, Montado
<1>8. \A j \in 1..Len(vuelo') : Protegida(vuelo'[j]) =>
        \E i \in 1..Len(vuelo) \ {k} : vuelo'[j] = vuelo[i]
  BY <1>5 DEF Queda
<1>9. Numeradas'
  <2>1. gestos \in Nat /\ hoja' <= gestos' + 1
    BY <1>3, <1>4 DEF BaseInv, UnaInv, Numeradas
  <2>2. \A j \in 1..Len(vuelo') : Protegida(vuelo'[j]) => vuelo'[j].hoja <= gestos'
    BY <1>4, <1>8 DEF UnaInv, Numeradas
  <2> QED
    BY <1>3, <1>4, <2>1, <2>2 DEF UnaInv, Numeradas, Protegida
<1>10. SuDialogo'
  <2>1. ASSUME NEW j \in 1..Len(vuelo'), Protegida(vuelo'[j]), vuelo'[j].cierra # Vacio, vuelo'[j].hoja = hoja'
        PROVE  dialogo'.tipo \in {vuelo'[j].cierra, Vacio}
    <3>1. PICK i \in 1..Len(vuelo) \ {k} : vuelo'[j] = vuelo[i]
      BY <1>8, <2>1
    <3>2. vuelo[i].hoja <= gestos /\ gestos \in Nat
      BY <2>1, <3>1 DEF UnaInv, Numeradas, BaseInv
    <3>3. hoja' = hoja
      BY <1>4, <2>1, <3>1, <3>2
    <3>4. dialogo.tipo \in {vuelo[i].cierra, Vacio}
      BY <2>1, <3>1, <3>3 DEF UnaInv, SuDialogo
    <3> QED
      BY <1>4, <3>1, <3>4 DEF Cerrado
  <2> QED
    BY <2>1 DEF SuDialogo, Protegida
<1>11. SinRepetir'
  <2> SUFFICES ASSUME ~averia PROVE SinRepetir'
    BY <1>4 DEF SinRepetir
  <2>1. ~doble' /\ \A j \in 1..Len(vuelo') : Protegida(vuelo'[j]) /\ vuelo'[j].ida => Par(vuelo'[j]) \notin hechas'
    BY <1>4, <1>8 DEF UnaInv, SinRepetir
  <2>2. ASSUME NEW x \in hechas', x[1] = hoja'
        PROVE  Sellada(x[2])' \/ \E j \in 1..Len(vuelo') :
                                  Protegida(vuelo'[j]) /\ ~vuelo'[j].ida /\ Par(vuelo'[j]) = x
    <3>0. x \in hechas /\ x[1] \in Nat /\ x[1] <= gestos /\ gestos \in Nat
      BY <1>4, <2>2 DEF UnaInv, Numeradas, BaseInv
    <3>1. hoja' = hoja /\ c.local # "reset"
      BY <1>4, <2>2, <3>0
    <3>2. CASE Sellada(x[2])
      <4>1. dialogo = Cerrado /\ pagina \notin {"nueva", "onboarding"} /\ x[2] \notin Abiertas
        BY <1>3, <3>2 DEF Sellada
      <4>2. dialogo' = Cerrado
        BY <1>4, <4>1
      <4> QED
        BY <1>4, <4>1, <4>2 DEF Sellada
    <3>3. ASSUME NEW i \in 1..Len(vuelo) \ {k}, Protegida(vuelo[i]), ~vuelo[i].ida, Par(vuelo[i]) = x
          PROVE  \E j \in 1..Len(vuelo') : Protegida(vuelo'[j]) /\ ~vuelo'[j].ida /\ Par(vuelo'[j]) = x
      <4>1. PICK j \in 1..Len(vuelo') : vuelo'[j] = vuelo[i]
        BY <1>5 DEF Queda
      <4> QED
        BY <3>3, <4>1
    <3>4. CASE Protegida(c) /\ Par(c) = x
      <4>1. c.hoja = hoja /\ x[2] = c.flag
        BY <2>2, <3>1, <3>4, ParDa
      <4>2. c.flag \notin Abiertas
        BY <1>2, <3>1, <3>4 DEF Forma, Protegida
      <4>3. dialogo' = Cerrado /\ pagina \notin {"nueva", "onboarding"}
        <5>1. CASE pagina \in {"compra", "fiscal"}
          <6>1. dialogo = Cerrado
            BY <5>1 DEF BaseInv, Quietas, Cerrado
          <6> QED
            BY <1>4, <5>1, <6>1
        <5>2. CASE c.cierra # Vacio /\ pagina \notin Quietas
          <6>1. dialogo.tipo \in {c.cierra, Vacio}
            BY <1>1, <3>4, <4>1, <5>2 DEF UnaInv, SuDialogo
          <6>2. dialogo.tipo = Vacio => dialogo = Cerrado
            BY DEF BaseInv, Cerrado
          <6> QED
            BY <1>4, <5>2, <6>1, <6>2 DEF Quietas
        <5> QED
          BY <1>2, <3>1, <3>4, <5>1, <5>2 DEF Forma
      <4> QED
        BY <1>4, <4>1, <4>2, <4>3 DEF Sellada
    <3> QED
      BY <1>1, <2>2, <3>0, <3>1, <3>2, <3>3, <3>4 DEF UnaInv, SinRepetir
  <2> QED
    BY <2>1, <2>2 DEF SinRepetir, Protegida, Par
<1> QED
  BY <1>6, <1>7, <1>9, <1>10, <1>11 DEF UnaInv

\* A failed call keeps its form open, unless its answer was lost.
LEMMA UnaFalla ==
  ASSUME BaseInv, UnaInv, NEW k \in 1..Len(vuelo), Falla(k)
  PROVE  UnaInv'
<1>1. PICK c : c = vuelo[k]
  OBVIOUS
<1>2. c \in Llamadas /\ Forma(pagina, c)
  BY <1>1 DEF BaseInv
<1>3. PICK prox : (prox = <<>> \/ prox = Proxima(c)) /\ Continua(k, prox)
  BY <1>1 DEF Falla
<1>4. /\ UNCHANGED <<pagina, hoja, paso, relojes, gestos, hechas, doble>>
      /\ dialogo' = dialogo \/ dialogo' = Cerrado
      /\ ~averia' => ~averia /\ c.ida
  BY <1>1 DEF Falla, Cerrando
<1>5. /\ Queda(k)
      /\ \A j \in 1..Len(vuelo') :
           vuelo'[j].flag \in Banderas /\ Montado(vuelo'[j]) => vuelo'[j].flag \in ocupado'
  BY <1>1, <1>3, BanderaSigueDa DEF UnaInv
<1>6. UnaPorBandera'
  BY <1>4, <1>5, BanderasQuedan DEF UnaInv
<1>7. BanderaPuesta'
  BY <1>4, <1>5 DEF BanderaPuesta, Montado
<1>8. /\ \A j \in 1..Len(vuelo') : Protegida(vuelo'[j]) => \E i \in 1..Len(vuelo) \ {k} : vuelo'[j] = vuelo[i]
      /\ pagina = "onboarding" => \A j \in 1..Len(vuelo') : \E i \in 1..Len(vuelo) \ {k} : vuelo'[j] = vuelo[i]
  BY <1>5 DEF Queda
<1>9. Numeradas'
  <2>1. \A j \in 1..Len(vuelo') : Protegida(vuelo'[j]) => vuelo'[j].hoja <= gestos'
    BY <1>4, <1>8 DEF UnaInv, Numeradas
  <2>2. vuelo # <<>>
    BY DEF BaseInv
  <2> QED
    BY <1>4, <2>1, <2>2 DEF UnaInv, Numeradas, Protegida
<1>10. SuDialogo'
  <2>1. ASSUME NEW j \in 1..Len(vuelo'), Protegida(vuelo'[j]), vuelo'[j].cierra # Vacio, vuelo'[j].hoja = hoja'
        PROVE  dialogo'.tipo \in {vuelo'[j].cierra, Vacio}
    <3>1. PICK i \in 1..Len(vuelo) \ {k} : vuelo'[j] = vuelo[i]
      BY <1>8, <2>1
    <3>2. dialogo.tipo \in {vuelo[i].cierra, Vacio}
      BY <1>4, <2>1, <3>1 DEF UnaInv, SuDialogo
    <3> QED
      BY <1>4, <3>1, <3>2 DEF Cerrado
  <2> QED
    BY <2>1 DEF SuDialogo, Protegida
<1>11. SinRepetir'
  <2> SUFFICES ASSUME ~averia' PROVE SinRepetir'
    BY DEF SinRepetir
  <2>1. ~averia /\ c.ida
    BY <1>4
  <2>2. ~doble' /\ \A j \in 1..Len(vuelo') : Protegida(vuelo'[j]) /\ vuelo'[j].ida => Par(vuelo'[j]) \notin hechas'
    BY <1>4, <1>8, <2>1 DEF UnaInv, SinRepetir
  <2>3. ASSUME NEW x \in hechas', x[1] = hoja'
        PROVE  Sellada(x[2])' \/ \E j \in 1..Len(vuelo') :
                                  Protegida(vuelo'[j]) /\ ~vuelo'[j].ida /\ Par(vuelo'[j]) = x
    <3>1. CASE Sellada(x[2])
      <4>1. CASE dialogo = Cerrado /\ pagina \notin {"nueva", "onboarding"} /\ x[2] \notin Abiertas
        BY <1>4, <4>1 DEF Sellada
      <4>2. CASE pagina = "onboarding" /\ x[2] = "loading" /\ "saved" \in ocupado
        <5>1. c.flag # "saved"
          BY <1>2 DEF Forma
        <5>2. "saved" \in ocupado'
          BY <1>1, <1>3, <4>2, <5>1 DEF Continua
        <5> QED
          BY <1>4, <4>2, <5>2 DEF Sellada
      <4> QED
        BY <3>1, <4>1, <4>2 DEF Sellada
    <3>2. ASSUME NEW i \in 1..Len(vuelo), Protegida(vuelo[i]), ~vuelo[i].ida, Par(vuelo[i]) = x
          PROVE  \E j \in 1..Len(vuelo') : Protegida(vuelo'[j]) /\ ~vuelo'[j].ida /\ Par(vuelo'[j]) = x
      <4>1. i # k
        BY <1>1, <2>1, <3>2
      <4>2. PICK j \in 1..Len(vuelo') : vuelo'[j] = vuelo[i]
        BY <1>5, <4>1 DEF Queda
      <4> QED
        BY <3>2, <4>2
    <3> QED
      BY <1>4, <2>1, <2>3, <3>1, <3>2 DEF UnaInv, SinRepetir
  <2> QED
    BY <2>2, <2>3 DEF SinRepetir, Protegida, Par
<1> QED
  BY <1>6, <1>7, <1>9, <1>10, <1>11 DEF UnaInv

\* The fiscal form of the wizard says it was saved, if it is still on the screen.
LEMMA UnaGuardado ==
  ASSUME BaseInv, UnaInv, NEW k \in 1..Len(vuelo), OnboardingGuardado(k)
  PROVE  UnaInv'
<1>1. PICK c : c = vuelo[k]
  OBVIOUS
<1>2. /\ c \in Llamadas /\ Forma(pagina, c) /\ c.local = "fiscal" /\ vuelo # <<>>
      /\ \A j \in 1..Len(vuelo) : Forma(pagina, vuelo[j])
  BY <1>1 DEF BaseInv, OnboardingGuardado
<1>3. /\ pagina = "onboarding" /\ c.flag = "loading"
      /\ \A j \in 1..Len(vuelo) : vuelo[j].flag = "loading"
  <2>1. pagina = "onboarding"
    BY <1>2 DEF Forma
  <2> QED
    BY <1>1, <1>2, <2>1, AsistenteDa
<1>4. /\ UNCHANGED <<pagina, hoja, dialogo, paso, gestos, hechas, doble, averia>> /\ relojes' = relojes + 1
      /\ ocupado' = IF c.hoja = hoja THEN {"saved"} ELSE ocupado
  BY <1>1, <1>3 DEF OnboardingGuardado, Montado
<1>5. Queda(k)
  BY BaseGuardado, QuedaDa
<1>6. UnaPorBandera'
  BY <1>4, <1>5, BanderasQuedan DEF UnaInv
<1>8. \A j \in 1..Len(vuelo') : \E i \in 1..Len(vuelo) \ {k} : vuelo'[j] = vuelo[i]
  BY <1>3, <1>5 DEF Queda
<1>7. BanderaPuesta'
  <2>1. ASSUME NEW j \in 1..Len(vuelo'), vuelo'[j].flag \in Banderas, vuelo'[j].hoja = hoja
        PROVE  vuelo'[j].flag \in ocupado'
    <3>1. PICK i \in 1..Len(vuelo) \ {k} : vuelo'[j] = vuelo[i]
      BY <1>8
    <3>2. c.hoja # hoja
      BY <1>1, <1>3, <2>1, <3>1 DEF UnaInv, UnaPorBandera
    <3> QED
      BY <1>3, <1>4, <2>1, <3>1, <3>2 DEF UnaInv, BanderaPuesta, Montado
  <2> QED
    BY <1>3, <1>4, <2>1 DEF BanderaPuesta, Montado
<1>9. Numeradas'
  <2>1. \A j \in 1..Len(vuelo') : Protegida(vuelo'[j]) => vuelo'[j].hoja <= gestos'
    BY <1>4, <1>8 DEF UnaInv, Numeradas
  <2> QED
    BY <1>2, <1>3, <1>4, <2>1 DEF UnaInv, Numeradas, Protegida
<1>10. SuDialogo'
  BY <1>4, <1>8 DEF UnaInv, SuDialogo, Protegida
<1>11. SinRepetir'
  <2> SUFFICES ASSUME ~averia PROVE SinRepetir'
    BY <1>4 DEF SinRepetir
  <2>1. ~doble' /\ \A j \in 1..Len(vuelo') : Protegida(vuelo'[j]) /\ vuelo'[j].ida => Par(vuelo'[j]) \notin hechas'
    BY <1>4, <1>8 DEF UnaInv, SinRepetir
  <2>2. ASSUME NEW x \in hechas', x[1] = hoja'
        PROVE  Sellada(x[2])' \/ \E j \in 1..Len(vuelo') :
                                  Protegida(vuelo'[j]) /\ ~vuelo'[j].ida /\ Par(vuelo'[j]) = x
    <3>1. CASE Sellada(x[2])
      BY <1>3, <1>4, <3>1 DEF Sellada
    <3>2. ASSUME NEW i \in 1..Len(vuelo) \ {k}, Protegida(vuelo[i]), ~vuelo[i].ida, Par(vuelo[i]) = x
          PROVE  \E j \in 1..Len(vuelo') : Protegida(vuelo'[j]) /\ ~vuelo'[j].ida /\ Par(vuelo'[j]) = x
      <4>1. PICK j \in 1..Len(vuelo') : vuelo'[j] = vuelo[i]
        BY <1>5 DEF Queda
      <4> QED
        BY <3>2, <4>1
    <3>3. CASE Par(c) = x
      <4>1. c.hoja = hoja /\ x[2] = "loading"
        BY <1>3, <1>4, <2>2, <3>3, ParDa
      <4> QED
        BY <1>3, <1>4, <4>1 DEF Sellada
    <3> QED
      BY <1>1, <1>4, <2>2, <3>1, <3>2, <3>3 DEF UnaInv, SinRepetir
  <2> QED
    BY <2>1, <2>2 DEF SinRepetir, Protegida, Par
<1> QED
  BY <1>6, <1>7, <1>9, <1>10, <1>11 DEF UnaInv

\* The effect of a form, which is its first one.
LEMMA UnaAtiende ==
  ASSUME BaseInv, UnaInv, NEW k \in 1..Len(vuelo), Atiende(k)
  PROVE  UnaInv'
<1>1. PICK c : c = vuelo[k]
  OBVIOUS
<1>2. /\ vuelo \in Seq(Llamadas) /\ c \in Llamadas /\ Forma(pagina, c) /\ c.ida
  BY <1>1 DEF BaseInv, Atiende
<1>3. PICK e : /\ vuelo' = [vuelo EXCEPT ![k] = e] /\ ~e.ida /\ e.op = c.op
               /\ e.flag = c.flag /\ e.local = c.local /\ e.cierra = c.cierra /\ e.hoja = c.hoja
  BY <1>1, AtendidaDa
<1>4. /\ (Protegida(e) <=> Protegida(c)) /\ Par(e) = Par(c) /\ (Montado(e) <=> Montado(c))
  BY <1>3 DEF Protegida, Escritura, Par, Montado
<1>5. /\ 1..Len(vuelo') = 1..Len(vuelo) /\ vuelo'[k] = e
      /\ \A j \in 1..Len(vuelo) \ {k} : vuelo'[j] = vuelo[j]
      /\ vuelo' # <<>> /\ vuelo # <<>>
  BY <1>2, <1>3
<1>6. /\ UNCHANGED <<pagina, hoja, dialogo, paso, relojes, ocupado, gestos, averia>>
      /\ hechas' = IF Protegida(c) THEN hechas \cup {Par(c)} ELSE hechas
      /\ doble' = (doble \/ (Protegida(c) /\ Par(c) \in hechas))
  BY <1>1 DEF Atiende, pantalla, Par
<1>7. \A j \in 1..Len(vuelo) :
        /\ vuelo'[j].flag = vuelo[j].flag /\ vuelo'[j].hoja = vuelo[j].hoja
        /\ vuelo'[j].cierra = vuelo[j].cierra /\ Par(vuelo'[j]) = Par(vuelo[j])
        /\ (Protegida(vuelo'[j]) <=> Protegida(vuelo[j])) /\ (Montado(vuelo'[j]) <=> Montado(vuelo[j]))
  BY <1>1, <1>3, <1>4, <1>5
<1>8. UnaPorBandera' /\ BanderaPuesta' /\ SuDialogo'
  BY <1>5, <1>6, <1>7 DEF UnaInv, UnaPorBandera, BanderaPuesta, SuDialogo, Montado, Protegida
<1>9. Numeradas'
  <2>1. Protegida(c) => /\ c.hoja \in Nat /\ c.hoja <= gestos /\ c.flag \in Banderas
                        /\ (pagina = "nueva" => c.flag \notin Abiertas)
    BY <1>1, <1>2 DEF UnaInv, Numeradas, Forma, Llamadas, Abiertas
  <2>2. Par(c)[1] = c.hoja /\ Par(c)[2] = c.flag
    BY ParDa
  <2>3. \A x \in hechas' : x[1] \in Nat /\ x[1] <= gestos /\ x[2] \in Banderas
    BY <1>6, <2>1, <2>2 DEF UnaInv, Numeradas
  <2>4. pagina = "nueva" => \A x \in hechas' : x[2] \notin Abiertas
    BY <1>6, <2>1, <2>2 DEF UnaInv, Numeradas
  <2> QED
    BY <1>5, <1>6, <1>7, <2>3, <2>4 DEF UnaInv, Numeradas, Protegida
<1>10. SinRepetir'
  <2> SUFFICES ASSUME ~averia PROVE SinRepetir'
    BY <1>6 DEF SinRepetir
  <2>1. ~doble'
    BY <1>1, <1>2, <1>6 DEF UnaInv, SinRepetir
  <2>2. ASSUME NEW j \in 1..Len(vuelo'), Protegida(vuelo'[j]), vuelo'[j].ida
        PROVE  Par(vuelo'[j]) \notin hechas'
    <3>1. j # k /\ j \in 1..Len(vuelo) /\ vuelo'[j] = vuelo[j]
      BY <1>3, <1>5, <2>2
    <3>2. Par(vuelo[j]) \notin hechas
      BY <2>2, <3>1 DEF UnaInv, SinRepetir
    <3>3. vuelo[j].flag \in Banderas
      BY <2>2, <3>1 DEF BaseInv, Forma
    <3>4. Par(vuelo[j]) # Par(c)
      BY <1>1, <3>1, <3>3, ParDa DEF UnaInv, UnaPorBandera
    <3> QED
      BY <1>6, <3>1, <3>2, <3>4
  <2>3. ASSUME NEW x \in hechas', x[1] = hoja'
        PROVE  Sellada(x[2])' \/ \E j \in 1..Len(vuelo') :
                                  Protegida(vuelo'[j]) /\ ~vuelo'[j].ida /\ Par(vuelo'[j]) = x
    <3>1. CASE x \in hechas
      <4>1. CASE Sellada(x[2])
        BY <1>6, <4>1 DEF Sellada
      <4>2. ASSUME NEW i \in 1..Len(vuelo), Protegida(vuelo[i]), ~vuelo[i].ida, Par(vuelo[i]) = x
            PROVE  \E j \in 1..Len(vuelo') : Protegida(vuelo'[j]) /\ ~vuelo'[j].ida /\ Par(vuelo'[j]) = x
        <5>1. i # k
          BY <1>1, <1>2, <4>2
        <5> QED
          BY <1>5, <4>2, <5>1
      <4> QED
        BY <1>6, <2>3, <3>1, <4>1, <4>2 DEF UnaInv, SinRepetir
    <3>2. CASE x = Par(c) /\ Protegida(c)
      BY <1>3, <1>4, <1>5, <3>2
    <3> QED
      BY <1>6, <2>3, <3>1, <3>2
  <2> QED
    BY <2>1, <2>2, <2>3 DEF SinRepetir, Protegida, Par
<1> QED
  BY <1>8, <1>9, <1>10 DEF UnaInv

\* A list read has no effect on the server.
LEMMA UnaDeCache ==
  ASSUME BaseInv, UnaInv, NEW k \in 1..Len(vuelo), DeCache(k)
  PROVE  UnaInv'
<1>1. PICK c : c = vuelo[k]
  OBVIOUS
<1>2. vuelo \in Seq(Llamadas) /\ c \in Llamadas
  BY <1>1 DEF BaseInv
<1>3. PICK e : /\ vuelo' = [vuelo EXCEPT ![k] = e] /\ ~e.ida /\ e.op = c.op
               /\ e.flag = c.flag /\ e.local = c.local /\ e.cierra = c.cierra /\ e.hoja = c.hoja
  BY <1>1, DeCacheDa
<1>4. /\ (Protegida(e) <=> Protegida(c)) /\ Par(e) = Par(c) /\ (Montado(e) <=> Montado(c))
  BY <1>3 DEF Protegida, Escritura, Par, Montado
<1>5. /\ 1..Len(vuelo') = 1..Len(vuelo) /\ vuelo'[k] = e
      /\ \A j \in 1..Len(vuelo) \ {k} : vuelo'[j] = vuelo[j]
      /\ vuelo' # <<>> /\ vuelo # <<>>
  BY <1>2, <1>3
<1>6. UNCHANGED <<pagina, hoja, dialogo, paso, relojes, ocupado, gestos, hechas, doble>> /\ averia'
  BY DeCacheDa DEF pantalla
<1>7. \A j \in 1..Len(vuelo) :
        /\ vuelo'[j].flag = vuelo[j].flag /\ vuelo'[j].hoja = vuelo[j].hoja
        /\ vuelo'[j].cierra = vuelo[j].cierra /\ Par(vuelo'[j]) = Par(vuelo[j])
        /\ (Protegida(vuelo'[j]) <=> Protegida(vuelo[j])) /\ (Montado(vuelo'[j]) <=> Montado(vuelo[j]))
  BY <1>1, <1>3, <1>4, <1>5
<1>8. UnaPorBandera' /\ BanderaPuesta' /\ SuDialogo'
  BY <1>5, <1>6, <1>7 DEF UnaInv, UnaPorBandera, BanderaPuesta, SuDialogo, Montado, Protegida
<1>9. Numeradas' /\ SinRepetir'
  BY <1>5, <1>6, <1>7 DEF UnaInv, Numeradas, SinRepetir, Protegida
<1> QED
  BY <1>5, <1>6, <1>8, <1>9 DEF UnaInv

\* In the wizard only the fiscal step sends anything.
LEMMA SoloFiscalDa ==
  ASSUME BaseInv, [PanelNext]_panelVars, pagina = "onboarding", NEW c, Envio(c)
  PROVE  paso = Fiscal
<1>1. gestos' = gestos + 1 /\ gestos \in Nat
  BY DEF Envio, Toca, BaseInv
<1>2. vuelo' # vuelo
  <2>1. Len(vuelo') = Len(vuelo) + 1 /\ Len(vuelo) \in Nat
    BY MandaDa DEF Envio, BaseInv
  <2> QED
    BY <2>1
<1>3. ~UNCHANGED panelVars
  BY <1>2 DEF panelVars, vars
<1>4. ~Compra
  BY <1>1, <1>2 DEF Compra, AddRow, AddPago, EligeProveedor, RemoveRow, UpdateRow, TecleaDescuento, RemovePago,
     UpdatePago, Edita, DejaDescuento, ProveedoresLlegan, HandleGuardar, Cancela, En, Navega, vars
<1>5. ~DashboardTic /\ ~OnboardingAvanza /\ ~\E k \in 1..Len(vuelo) : Red(k) \/ Falla(k) \/ DeCache(k)
  <2>1. ~DashboardTic /\ ~OnboardingAvanza
    BY <1>1 DEF DashboardTic, OnboardingAvanza
  <2>2. ASSUME NEW k \in 1..Len(vuelo), Red(k) \/ Falla(k) \/ DeCache(k) PROVE gestos' = gestos
    <3>1. CASE Atiende(k)
      BY <3>1 DEF Atiende
    <3>2. CASE Vuelve(k)
      BY <3>2 DEF Vuelve
    <3>3. CASE OnboardingGuardado(k)
      BY <3>3 DEF OnboardingGuardado
    <3>4. CASE Falla(k)
      BY <3>4 DEF Falla
    <3>5. CASE DeCache(k)
      BY <3>5 DEF DeCache
    <3> QED
      BY <2>2, <3>1, <3>2, <3>3, <3>4, <3>5 DEF Red
  <2> QED
    BY <1>1, <2>1, <2>2
<1>6. Usuario
  BY <1>3, <1>4, <1>5 DEF PanelNext, Next
<1>7. ~Cierra /\ ~\E d \in {0, 1} : OnboardingPasa(d)
  BY <1>2 DEF Cierra, OnboardingPasa
<1>8. /\ ~ProductosSucursal /\ ~ProductosAbre /\ ~ProductosGuarda /\ ~ProductosToggle
      /\ ~ProductosAjusta /\ ~ProductosAbreImportar /\ ~ProductosImporta /\ ~ProductosAbreBaja
      /\ ~ProductosElimina /\ ~ProductosCierraPanel /\ ~ProductosLotes /\ ~ProductosCreaLote
      /\ ~ProductosBajaLote /\ ~ProductosVariantes /\ ~ProductosCreaVariante
      /\ ~\E F \in {{i} : i \in Filas} \cup {DOMAIN lista.filas} : ProductosElige(F)
  BY DEF En, ProductosSucursal, ProductosAbre, ProductosGuarda, ProductosToggle, ProductosAjusta,
     ProductosAbreImportar, ProductosImporta, ProductosAbreBaja, ProductosElimina,
     ProductosCierraPanel, ProductosLotes, ProductosCreaLote, ProductosBajaLote,
     ProductosVariantes, ProductosCreaVariante, ProductosElige
<1>9. /\ ~PromocionesAbre /\ ~PromocionesGuarda /\ ~PromocionesElimina /\ ~CategoriasAbre
      /\ ~CategoriasGuarda /\ ~CategoriasDesactiva /\ ~CategoriasReactiva
      /\ ~InventarioSucursal /\ ~InventarioAbreCrear /\ ~InventarioAbreEditar
      /\ ~InventarioAbreBaja /\ ~InventarioAbreDesarme /\ ~InventarioCrea /\ ~InventarioEdita
      /\ ~InventarioElimina /\ ~InventarioDesarma /\ ~InventarioAjusta
  BY DEF En, PromocionesAbre, PromocionesGuarda, PromocionesElimina, CategoriasAbre,
     CategoriasGuarda, CategoriasDesactiva, CategoriasReactiva, InventarioSucursal,
     InventarioAbreCrear, InventarioAbreEditar, InventarioAbreBaja, InventarioAbreDesarme,
     InventarioCrea, InventarioEdita, InventarioElimina, InventarioDesarma, InventarioAjusta
<1>10. /\ ~UsuariosFiltra /\ ~UsuariosAbre /\ ~UsuariosGuarda /\ ~UsuariosToggle
       /\ ~SucursalesAbre /\ ~SucursalesGuarda /\ ~SucursalesToggle
       /\ ~ProveedoresAbreNuevo /\ ~ProveedoresAbreEditar /\ ~ProveedoresGuarda /\ ~ProveedoresAplicaCSV
       /\ ~TransferenciasFiltra /\ ~TransferenciasAbre /\ ~TransferenciasCrea /\ ~TransferenciasResuelve
       /\ ~StockSucursal /\ ~StockSinSucursal /\ ~StockAbre /\ ~StockAjusta
       /\ ~VencimientosFiltra /\ ~VencimientosAbre /\ ~VencimientosElimina
  BY DEF En, UsuariosFiltra, UsuariosAbre, UsuariosGuarda, UsuariosToggle, SucursalesAbre,
     SucursalesGuarda, SucursalesToggle, ProveedoresAbreNuevo, ProveedoresAbreEditar,
     ProveedoresGuarda, ProveedoresAplicaCSV, TransferenciasFiltra, TransferenciasAbre,
     TransferenciasCrea, TransferenciasResuelve, StockSucursal, StockSinSucursal, StockAbre,
     StockAjusta, VencimientosFiltra, VencimientosAbre, VencimientosElimina
<1>11. /\ ~ClientesAbreNuevo /\ ~ClientesAbreEditar /\ ~ClientesGuarda /\ ~ClientesEditaDetalle
       /\ ~ClientesDetalle /\ ~ClientesDeudor /\ ~ClientesVolver /\ ~ClientesPagina
       /\ ~ClientesAbrePago /\ ~ClientesPago
       /\ ~ComprasFiltra /\ ~ComprasEstado /\ ~ComprasAbre /\ ~ComprasElimina /\ ~CompraEstado
       /\ ~FacturacionFiltra /\ ~FacturacionAbre /\ ~FacturacionAnula /\ ~FacturacionDocumento
  BY DEF En, ClientesAbreNuevo, ClientesAbreEditar, ClientesGuarda, ClientesEditaDetalle,
     ClientesDetalle, ClientesDeudor, ClientesVolver, ClientesPagina, ClientesAbrePago,
     ClientesPago, ComprasFiltra, ComprasEstado, ComprasAbre, ComprasElimina, CompraEstado,
     FacturacionFiltra, FacturacionAbre, FacturacionAnula, FacturacionDocumento
<1>12. /\ ~ReportesFiltra /\ ~DashboardFiltra /\ ~FiscalGuarda /\ ~AIEnvia /\ ~AIMetricas
       /\ ~(\E q \in Filtros : ConsultaBusca(q)) /\ ~ConsultaLimpia
       /\ ~PrecioAbre /\ ~PrecioLimpia /\ ~(\E q \in Filtros : PrecioBusca(q))
       /\ ~CierreActualiza /\ ~CierreEnvia /\ ~HistorialVuelve
       /\ ~\E q \in Filtros \ {filtro} : HistorialSucursal(q)
  BY DEF En, ReportesFiltra, DashboardFiltra, FiscalGuarda, AIEnvia, AIMetricas, ConsultaBusca,
     ConsultaLimpia, PrecioAbre, PrecioLimpia, PrecioBusca, CierreActualiza, CierreEnvia,
     HistorialVuelve, HistorialSucursal
<1>13. OnboardingGuarda
  BY <1>6, <1>7, <1>8, <1>9, <1>10, <1>11, <1>12 DEF Usuario
<1> QED
  BY <1>13 DEF OnboardingGuarda

\* A form that is sent: its button was enabled, so nothing of it is in flight or done.
LEMMA UnaEnvio ==
  ASSUME BaseInv, UnaInv, NEW c, Envio(c), pagina = "onboarding" => paso = Fiscal
  PROVE  UnaInv'
<1>1. /\ c \in Llamadas /\ Forma(pagina, c) /\ Manda(c) /\ c.ida
      /\ (Protegida(c) => c.hoja = hoja') /\ (c.flag \in Banderas => c.flag \notin ocupado)
      /\ hoja' = gestos + 1 \/ (hoja' = hoja /\ (Protegida(c) => ~Sellada(c.flag)))
      /\ Protegida(c) /\ c.cierra # Vacio => dialogo.tipo = c.cierra /\ UNCHANGED dialogo
  BY DEF Envio
<1>2. /\ gestos' = gestos + 1 /\ UNCHANGED <<pagina, hechas, doble, averia, paso, relojes>>
      /\ dialogo' = dialogo \/ dialogo' = Cerrado
  BY DEF Envio, Toca, EnvioEnPanel
<1>3. /\ gestos \in Nat /\ hoja \in Nat /\ vuelo \in Seq(Llamadas) /\ Len(vuelo) \in Nat
      /\ \A j \in 1..Len(vuelo) : Forma(pagina, vuelo[j])
  BY DEF BaseInv
<1>4. /\ Len(vuelo') = Len(vuelo) + 1 /\ vuelo'[Len(vuelo) + 1] = c
      /\ \A j \in 1..Len(vuelo) : vuelo'[j] = vuelo[j]
      /\ 1..Len(vuelo') = 1..Len(vuelo) \cup {Len(vuelo) + 1}
  BY <1>1, <1>3, MandaDa
<1>5. ocupado' = ocupado \cup ({c.flag} \ {Vacio})
  BY <1>1 DEF Manda
<1>6. \A j \in 1..Len(vuelo) : Protegida(vuelo[j]) => vuelo[j].hoja <= gestos
  BY DEF UnaInv, Numeradas
<1>7. pagina = "onboarding" => Protegida(c) /\ \A j \in 1..Len(vuelo) : Protegida(vuelo[j])
  BY <1>1, <1>3, AsistenteDa
\* A call in flight with the same flag is of a form that is gone.
<1>8. ASSUME NEW j \in 1..Len(vuelo), vuelo[j].flag = c.flag, c.flag \in Banderas
      PROVE  pagina = "onboarding" /\ vuelo[j].hoja # hoja /\ vuelo[j].hoja # c.hoja
  <2>1. ~Montado(vuelo[j])
    BY <1>1, <1>8 DEF UnaInv, BanderaPuesta
  <2>2. pagina = "onboarding" /\ vuelo[j].hoja # hoja
    BY <2>1 DEF Montado
  <2>3. vuelo[j].hoja <= gestos /\ vuelo[j].hoja \in Nat
    BY <1>3, <1>6, <1>7, <2>2 DEF Forma, Llamadas
  <2> QED
    BY <1>1, <1>3, <1>7, <2>2, <2>3
<1>9. UnaPorBandera'
  <2>1. ASSUME NEW i \in 1..Len(vuelo'), NEW j \in 1..Len(vuelo'), i # j,
               vuelo'[i].flag \in Banderas, vuelo'[i].flag = vuelo'[j].flag
        PROVE  pagina = "onboarding" /\ vuelo'[i].hoja # vuelo'[j].hoja
    <3>1. CASE i \in 1..Len(vuelo) /\ j \in 1..Len(vuelo)
      BY <1>4, <2>1, <3>1 DEF UnaInv, UnaPorBandera
    <3>2. CASE i = Len(vuelo) + 1
      <4>1. j \in 1..Len(vuelo)
        BY <1>4, <2>1, <3>2
      <4> QED
        BY <1>4, <1>8, <2>1, <3>2, <4>1
    <3>3. CASE j = Len(vuelo) + 1
      <4>1. i \in 1..Len(vuelo)
        BY <1>4, <2>1, <3>3
      <4> QED
        BY <1>4, <1>8, <2>1, <3>3, <4>1
    <3> QED
      BY <1>4, <3>1, <3>2, <3>3
  <2> QED
    BY <1>2, <2>1 DEF UnaPorBandera
<1>10. BanderaPuesta'
  <2>1. ASSUME NEW j \in 1..Len(vuelo'), vuelo'[j].flag \in Banderas,
               pagina = "onboarding" => vuelo'[j].hoja = hoja'
        PROVE  vuelo'[j].flag \in ocupado'
    <3>1. CASE j = Len(vuelo) + 1
      BY <1>4, <1>5, <2>1, <3>1, VacioDa
    <3>2. CASE j \in 1..Len(vuelo)
      <4>1. pagina = "onboarding" => vuelo[j].hoja = hoja
        BY <1>1, <1>3, <1>4, <1>6, <1>7, <2>1, <3>2
      <4> QED
        BY <1>4, <1>5, <2>1, <3>2, <4>1 DEF UnaInv, BanderaPuesta, Montado
    <3> QED
      BY <1>4, <3>1, <3>2
  <2> QED
    BY <1>2, <2>1 DEF BanderaPuesta, Montado
<1>11. hoja' <= gestos'
  BY <1>1, <1>2, <1>3 DEF UnaInv, Numeradas, Fiscal
<1>12. Numeradas'
  <2>1. \A j \in 1..Len(vuelo') : Protegida(vuelo'[j]) => vuelo'[j].hoja <= gestos'
    <3>1. ASSUME NEW j \in 1..Len(vuelo), Protegida(vuelo[j]) PROVE vuelo[j].hoja <= gestos + 1
      BY <1>3, <1>6, <3>1 DEF Forma, Llamadas
    <3> QED
      BY <1>1, <1>2, <1>4, <1>11, <3>1
  <2>2. \A x \in hechas' : x[1] \in Nat /\ x[1] <= gestos' /\ x[2] \in Banderas
    BY <1>2, <1>3 DEF UnaInv, Numeradas
  <2>3. hoja' <= gestos' + 1
    <3>1. hoja' \in Nat
      BY <1>1, <1>3
    <3> QED
      BY <1>2, <1>3, <1>11, <3>1
  <2> QED
    BY <1>2, <1>11, <2>1, <2>2, <2>3 DEF UnaInv, Numeradas, Protegida, Fiscal
<1>13. SuDialogo'
  <2>1. ASSUME NEW j \in 1..Len(vuelo'), Protegida(vuelo'[j]), vuelo'[j].cierra # Vacio, vuelo'[j].hoja = hoja'
        PROVE  dialogo'.tipo \in {vuelo'[j].cierra, Vacio}
    <3>1. CASE j = Len(vuelo) + 1
      BY <1>1, <1>4, <2>1, <3>1
    <3>2. CASE j \in 1..Len(vuelo)
      <4>1. hoja' = hoja
        BY <1>1, <1>3, <1>4, <1>6, <2>1, <3>2
      <4>2. dialogo.tipo \in {vuelo[j].cierra, Vacio}
        BY <1>4, <2>1, <3>2, <4>1 DEF UnaInv, SuDialogo
      <4> QED
        BY <1>2, <1>4, <3>2, <4>2 DEF Cerrado
    <3> QED
      BY <1>4, <3>1, <3>2
  <2> QED
    BY <2>1 DEF SuDialogo, Protegida
<1>14. SinRepetir'
  <2> SUFFICES ASSUME ~averia PROVE SinRepetir'
    BY <1>2 DEF SinRepetir
  <2>0. \A x \in hechas : x[1] \in Nat /\ x[1] <= gestos
    BY DEF UnaInv, Numeradas
  <2>1. ~doble'
    BY <1>2 DEF UnaInv, SinRepetir
  <2>2. ASSUME NEW j \in 1..Len(vuelo'), Protegida(vuelo'[j]), vuelo'[j].ida
        PROVE  Par(vuelo'[j]) \notin hechas'
    <3>1. CASE j = Len(vuelo) + 1
      <4> SUFFICES ASSUME Par(c) \in hechas PROVE FALSE
        BY <1>2, <1>4, <3>1
      <4>1. Protegida(c) /\ c.flag \in Banderas /\ Par(c)[1] = hoja' /\ Par(c)[2] = c.flag
        BY <1>1, <1>4, <2>2, <3>1, ParDa DEF Forma
      <4>2. hoja' = hoja /\ ~Sellada(c.flag)
        BY <1>1, <1>3, <2>0, <4>1
      <4>3. PICK i \in 1..Len(vuelo) : Par(vuelo[i]) = Par(c)
        BY <4>1, <4>2 DEF UnaInv, SinRepetir
      <4>4. vuelo[i].flag = c.flag /\ vuelo[i].hoja = c.hoja
        BY <4>3, ParDa
      <4> QED
        BY <1>8, <4>1, <4>4
    <3>2. CASE j \in 1..Len(vuelo)
      BY <1>2, <1>4, <2>2, <3>2 DEF UnaInv, SinRepetir
    <3> QED
      BY <1>4, <3>1, <3>2
  <2>3. ASSUME NEW x \in hechas', x[1] = hoja'
        PROVE  Sellada(x[2])' \/ \E j \in 1..Len(vuelo') :
                                  Protegida(vuelo'[j]) /\ ~vuelo'[j].ida /\ Par(vuelo'[j]) = x
    <3>0. x \in hechas /\ hoja' = hoja
      BY <1>1, <1>2, <1>3, <2>0, <2>3
    <3>1. CASE Sellada(x[2])
      BY <1>2, <1>5, <3>1 DEF Sellada
    <3>2. ASSUME NEW i \in 1..Len(vuelo), Protegida(vuelo[i]), ~vuelo[i].ida, Par(vuelo[i]) = x
          PROVE  \E j \in 1..Len(vuelo') : Protegida(vuelo'[j]) /\ ~vuelo'[j].ida /\ Par(vuelo'[j]) = x
      BY <1>4, <3>2
    <3> QED
      BY <2>3, <3>0, <3>1, <3>2 DEF UnaInv, SinRepetir
  <2> QED
    BY <2>1, <2>2, <2>3 DEF SinRepetir, Protegida, Par
<1> QED
  BY <1>9, <1>10, <1>12, <1>13, <1>14 DEF UnaInv

\* The list is asked for.
LEMMA UnaLectura ==
  ASSUME BaseInv, UnaInv, NEW c, Lectura(c)
  PROVE  UnaInv'
<1>1. /\ c \in Llamadas /\ Manda(c) /\ pagina # "onboarding" /\ c.op = "lista" /\ c.flag \notin Banderas
  BY CamposDa DEF Lectura, DeLista
<1>2. /\ gestos <= gestos' /\ gestos \in Nat /\ gestos' \in Nat
      /\ UNCHANGED <<pagina, hoja, dialogo, paso, relojes, hechas, doble, averia>>
  BY DEF Lectura, BaseInv
<1>3. /\ vuelo \in Seq(Llamadas) /\ Len(vuelo) \in Nat /\ hoja \in Nat
      /\ \A j \in 1..Len(vuelo) : Forma(pagina, vuelo[j])
  BY DEF BaseInv
<1>4. /\ vuelo'[Len(vuelo) + 1] = c
      /\ \A j \in 1..Len(vuelo) : vuelo'[j] = vuelo[j]
      /\ 1..Len(vuelo') = 1..Len(vuelo) \cup {Len(vuelo) + 1}
  BY <1>1, <1>3, MandaDa
<1>5. ocupado \subseteq ocupado'
  BY <1>1 DEF Manda
<1>6. ~Protegida(c)
  BY <1>1 DEF Protegida, Escritura, Lecturas
<1>7. \A j \in 1..Len(vuelo') : vuelo'[j].flag \in Banderas \/ Protegida(vuelo'[j]) =>
        j \in 1..Len(vuelo) /\ vuelo'[j] = vuelo[j]
  BY <1>1, <1>4, <1>6
<1>8. UnaPorBandera'
  BY <1>2, <1>7 DEF UnaInv, UnaPorBandera
<1>9. BanderaPuesta'
  BY <1>2, <1>5, <1>7 DEF UnaInv, BanderaPuesta, Montado
<1>10. Numeradas'
  <2>1. ASSUME NEW j \in 1..Len(vuelo'), Protegida(vuelo'[j]) PROVE vuelo'[j].hoja <= gestos'
    BY <1>2, <1>3, <1>7, <2>1 DEF UnaInv, Numeradas, Forma, Llamadas
  <2>2. \A x \in hechas' : x[1] \in Nat /\ x[1] <= gestos' /\ x[2] \in Banderas
    BY <1>2 DEF UnaInv, Numeradas
  <2> QED
    BY <1>1, <1>2, <1>3, <2>1, <2>2 DEF UnaInv, Numeradas, Protegida
<1>11. SuDialogo'
  BY <1>2, <1>7 DEF UnaInv, SuDialogo, Protegida
<1>12. SinRepetir'
  <2> SUFFICES ASSUME ~averia PROVE SinRepetir'
    BY <1>2 DEF SinRepetir
  <2>1. ~doble' /\ \A j \in 1..Len(vuelo') : Protegida(vuelo'[j]) /\ vuelo'[j].ida => Par(vuelo'[j]) \notin hechas'
    BY <1>2, <1>7 DEF UnaInv, SinRepetir
  <2>2. ASSUME NEW x \in hechas', x[1] = hoja'
        PROVE  Sellada(x[2])' \/ \E j \in 1..Len(vuelo') :
                                  Protegida(vuelo'[j]) /\ ~vuelo'[j].ida /\ Par(vuelo'[j]) = x
    <3>1. CASE Sellada(x[2])
      BY <1>2, <1>5, <3>1 DEF Sellada
    <3>2. ASSUME NEW i \in 1..Len(vuelo), Protegida(vuelo[i]), ~vuelo[i].ida, Par(vuelo[i]) = x
          PROVE  \E j \in 1..Len(vuelo') : Protegida(vuelo'[j]) /\ ~vuelo'[j].ida /\ Par(vuelo'[j]) = x
      BY <1>4, <3>2
    <3> QED
      BY <1>2, <2>2, <3>1, <3>2 DEF UnaInv, SinRepetir
  <2> QED
    BY <2>1, <2>2 DEF SinRepetir, Protegida, Par
<1> QED
  BY <1>8, <1>9, <1>10, <1>11, <1>12 DEF UnaInv

LEMMA HojasDa ==
  ASSUME BaseInv
  PROVE  \A j \in 1..Len(vuelo) : Forma(pagina, vuelo[j]) /\ vuelo[j] \in Llamadas /\ vuelo[j].hoja \in Nat
<1>1. \A j \in 1..Len(vuelo) : Forma(pagina, vuelo[j]) /\ vuelo[j] \in Llamadas
  BY DEF BaseInv, Forma
<1>2. \A c \in Llamadas : c.hoja \in Nat
  BY DEF Llamadas
<1> QED
  BY <1>1, <1>2

\* The gestures that send nothing: the form stays, and its dialog may be closed.
LEMMA UnaQuieta ==
  ASSUME BaseInv, UnaInv, CierraDialogo \/ Elige \/ SueltaPanel \/ Limpia \/ Teclea \/ UNCHANGED vars
  PROVE  UnaInv'
<1>1. /\ gestos <= gestos' /\ gestos \in Nat /\ gestos' \in Nat
      /\ UNCHANGED <<pagina, hoja, vuelo, paso, relojes, hechas, doble, averia>>
      /\ dialogo' = dialogo \/ dialogo' = Cerrado
      /\ ocupado \ {"importing"} \subseteq ocupado'
  BY DEF CierraDialogo, Elige, SueltaPanel, Limpia, Teclea, pantalla, vars, Toca, BaseInv
<1>2. "importing" \notin Banderas
  BY CamposDa
<1>3. UnaPorBandera' /\ BanderaPuesta'
  BY <1>1, <1>2 DEF UnaInv, UnaPorBandera, BanderaPuesta, Montado
<1>4. SuDialogo'
  BY <1>1 DEF UnaInv, SuDialogo, Cerrado, Protegida
<1>5. Numeradas'
  <2>1. \A j \in 1..Len(vuelo) : vuelo[j].hoja \in Nat
    BY HojasDa
  <2>2. hoja \in Nat
    BY DEF BaseInv
  <2> QED
    BY <1>1, <2>1, <2>2 DEF UnaInv, Numeradas, Protegida
<1>6. SinRepetir'
  <2>1. \A f : Sellada(f) => Sellada(f)'
    BY <1>1 DEF Sellada
  <2> QED
    BY <1>1, <2>1 DEF UnaInv, SinRepetir, Protegida, Par
<1> QED
  BY <1>3, <1>4, <1>5, <1>6 DEF UnaInv

\* A new form: no call in flight is its own.
LEMMA UnaGira ==
  ASSUME BaseInv, UnaInv,
         \/ \E t \in Nombres, i \in Sujetos : AbreDialogo(t, i)
         \/ OnboardingAvanza \/ \E d \in {0, 1} : OnboardingPasa(d)
  PROVE  UnaInv'
<1>1. /\ gestos <= gestos' /\ gestos \in Nat /\ gestos' \in Nat /\ gestos <= MaxGestos /\ hoja \in Nat
      /\ UNCHANGED <<pagina, vuelo, hechas, doble, averia>> /\ hoja' \in Nat /\ hoja' > gestos
      /\ relojes \in Nat /\ paso \in Nat
      /\ \A j \in 1..Len(vuelo) : Forma(pagina, vuelo[j]) /\ vuelo[j].hoja \in Nat
  <2>1. /\ gestos \in Nat /\ gestos <= MaxGestos /\ hoja \in Nat /\ relojes \in Nat /\ paso \in Nat
        /\ MaxGestos \in Nat
    BY PaginasAssumption DEF BaseInv
  <2>2. CASE \E t \in Nombres, i \in Sujetos : AbreDialogo(t, i)
    BY <2>1, <2>2, HojasDa DEF AbreDialogo, Toca
  <2>3. CASE OnboardingAvanza
    BY <2>1, <2>3, HojasDa DEF OnboardingAvanza
  <2>4. CASE \E d \in {0, 1} : OnboardingPasa(d)
    BY <2>1, <2>4, HojasDa DEF OnboardingPasa, Gesto, GestoEn
  <2> QED
    BY <2>2, <2>3, <2>4
<1>2. \A j \in 1..Len(vuelo) : Protegida(vuelo[j]) => vuelo[j].hoja <= gestos /\ vuelo[j].hoja # hoja'
  BY <1>1 DEF UnaInv, Numeradas
<1>3. \A x \in hechas : x[1] # hoja' /\ x[1] \in Nat /\ x[1] <= gestos /\ x[2] \in Banderas
  BY <1>1 DEF UnaInv, Numeradas
<1>4. UnaPorBandera' /\ SuDialogo'
  BY <1>1, <1>2 DEF UnaInv, UnaPorBandera, SuDialogo, Protegida
<1>5. SinRepetir'
  BY <1>1, <1>3 DEF UnaInv, SinRepetir, Protegida, Par
<1>6. BanderaPuesta'
  <2>1. CASE pagina = "onboarding"
    <3>1. \A j \in 1..Len(vuelo) : vuelo[j].hoja # hoja'
      BY <1>1, <1>2, <2>1, AsistenteDa
    <3> QED
      BY <1>1, <2>1, <3>1 DEF BanderaPuesta, Montado
  <2>2. CASE pagina # "onboarding"
    <3>1. UNCHANGED ocupado
      BY <2>2 DEF AbreDialogo, OnboardingAvanza, OnboardingPasa, En, UnaInv, Numeradas
    <3> QED
      BY <1>1, <2>2, <3>1 DEF UnaInv, BanderaPuesta, Montado
  <2> QED
    BY <2>1, <2>2
<1>7. Numeradas'
  <2>1. CASE \E t \in Nombres, i \in Sujetos : AbreDialogo(t, i)
    <3>1. pagina # "onboarding" /\ hoja' = gestos' /\ UNCHANGED <<paso, relojes>>
      BY <2>1 DEF AbreDialogo, Toca, Quietas
    <3> QED
      BY <1>1, <1>2, <1>3, <3>1 DEF UnaInv, Numeradas, Protegida
  <2>2. CASE OnboardingAvanza
    <3>1. /\ pagina = "onboarding" /\ paso >= 1 /\ paso' = paso + 1 /\ gestos' = gestos /\ relojes' = relojes - 1
      BY <1>1, <2>2 DEF OnboardingAvanza, UnaInv, Numeradas
    <3> QED
      BY <1>1, <1>2, <1>3, <3>1 DEF Numeradas, Protegida, Fiscal
  <2>3. CASE \E d \in {0, 1} : OnboardingPasa(d)
    <3>1. /\ pagina = "onboarding" /\ hoja' = gestos' /\ relojes' = relojes /\ paso' >= 1
      BY <1>1, <2>3 DEF OnboardingPasa, En, Gesto, GestoEn, Fiscal
    <3> QED
      BY <1>1, <1>2, <1>3, <3>1 DEF Numeradas, Protegida, Fiscal
  <2> QED
    BY <2>1, <2>2, <2>3
<1> QED
  BY <1>4, <1>5, <1>6, <1>7 DEF UnaInv

\* The purchase form is left: what was sent is sealed by the page that is gone.
LEMMA UnaSale ==
  ASSUME BaseInv, UnaInv, (\E k \in 1..Len(vuelo) : Navega(k)) \/ Cancela
  PROVE  UnaInv'
<1>1. /\ pagina' = "compras" /\ UNCHANGED <<dialogo, hoja>> /\ pagina = "nueva"
      /\ \A j \in DOMAIN vuelo' : vuelo'[j].flag = Vacio
      /\ DOMAIN vuelo' = 1..Len(vuelo')
  BY BaseSale DEF BaseInv
<1>2. /\ UNCHANGED <<relojes, paso, hechas, doble, averia>> /\ gestos' \in {gestos, gestos + 1}
  BY DEF Navega, Cancela, ACompras
<1>3. \A j \in 1..Len(vuelo') : vuelo'[j].flag \notin Banderas /\ ~Protegida(vuelo'[j])
  BY <1>1, VacioDa DEF Protegida
<1>4. UnaPorBandera' /\ BanderaPuesta' /\ SuDialogo'
  BY <1>3 DEF UnaPorBandera, BanderaPuesta, SuDialogo, Protegida, Montado
<1>5. dialogo = Cerrado
  BY <1>1 DEF BaseInv, Quietas, Cerrado
<1>6. Numeradas'
  <2>1. gestos \in Nat /\ hoja \in Nat /\ relojes \in Nat
    BY DEF BaseInv
  <2> QED
    BY <1>1, <1>2, <1>3, <2>1 DEF UnaInv, Numeradas, Protegida
<1>7. SinRepetir'
  <2>1. \A x \in hechas' : Sellada(x[2])'
    BY <1>1, <1>2, <1>5 DEF UnaInv, Numeradas, Sellada
  <2> QED
    BY <1>2, <1>3, <2>1 DEF UnaInv, SinRepetir, Protegida, Par
<1> QED
  BY <1>4, <1>6, <1>7 DEF UnaInv

LEMMA UnaEmpieza ==
  ASSUME Init, BaseInv
  PROVE  UnaInv
<1>1. /\ hechas = {} /\ ~doble /\ gestos = 0 /\ hoja = 0 /\ relojes = 0 /\ dialogo = Cerrado
      /\ pagina = "onboarding" => vuelo = <<>>
  BY DEF Init, SinLista
<1>2. \A k \in 1..Len(vuelo) : vuelo[k].op = "lista" /\ vuelo[k].flag = Vacio
  <2>1. CASE vuelo = <<>>
    BY <2>1
  <2>2. CASE vuelo = <<Listar>>
    BY <2>2 DEF Listar, Llamada
  <2> QED
    BY <2>1, <2>2 DEF Init
<1>3. \A k \in 1..Len(vuelo) : vuelo[k].flag \notin Banderas /\ ~Protegida(vuelo[k])
  BY <1>2, VacioDa DEF Protegida
<1> QED
  BY <1>1, <1>3 DEF UnaInv, UnaPorBandera, BanderaPuesta, Numeradas, SinRepetir, SuDialogo

LEMMA UnaPaso ==
  ASSUME BaseInv, UnaInv, [PanelNext]_panelVars
  PROVE  UnaInv'
<1>1. Paso
  BY PasoDa
<1>2. ASSUME NEW c, Envio(c) PROVE UnaInv'
  BY <1>2, UnaEnvio, SoloFiscalDa
<1> QED
  BY <1>1, <1>2, UnaVuelve, UnaFalla, UnaGuardado, UnaAtiende, UnaDeCache, UnaLectura, UnaQuieta, UnaGira, UnaSale
     DEF Paso, Gesticula

\* A form whose button is disabled while it is in flight has at most one effect on the
\* server, on every page, unless an answer was lost and the user tried again.
THEOREM PaginasUnaVez == PanelSpec => []UnaVez
<1>1. PanelInit => BaseInv /\ UnaInv
  BY BaseEmpieza, UnaEmpieza DEF PanelInit
<1>2. BaseInv /\ UnaInv /\ [PanelNext]_panelVars => BaseInv' /\ UnaInv'
  BY PasoDa, BasePaso, UnaPaso
<1>3. UnaInv => UnaVez
  BY DEF UnaInv, SinRepetir, UnaVez
<1> QED
  BY <1>1, <1>2, <1>3, PTL DEF PanelSpec

-----------------------------------------------------------------------------
(* No button is left disabled by nobody, and an annulled sale stays annulled *)

\* A flag that is set is released by a call in flight that will find its form there.
TieneDueno(f) == \E k \in 1..Len(vuelo) : vuelo[k].flag = f /\ Montado(vuelo[k])

Ocupados ==
  /\ Len(vuelo) <= MaxVuelo
  /\ \A f \in ocupado \ {"saved"} : TieneDueno(f)
  /\ pagina = "facturacion" => anuladas \subseteq marcas

\* Continua releases the flag of the call that leaves, or hands it on.
LEMMA OcupadosSigue ==
  ASSUME BaseInv, Ocupados, NEW k \in 1..Len(vuelo),
         NEW prox, prox = <<>> \/ prox = Proxima(vuelo[k]), Continua(k, prox)
  PROVE  /\ Len(vuelo') <= MaxVuelo
         /\ \A f \in ocupado' \ {"saved"} :
              \E j \in 1..Len(vuelo') : vuelo'[j].flag = f /\ Montado(vuelo'[j])
<1>1. /\ vuelo \in Seq(Llamadas) /\ Len(vuelo) \in Nat /\ \A j \in 1..Len(vuelo) : Forma(pagina, vuelo[j])
      /\ MaxVuelo \in Nat /\ Len(vuelo) <= MaxVuelo
  BY PaginasAssumption DEF BaseInv, Ocupados
<1>2. PICK c : c = vuelo[k]
  OBVIOUS
<1>3. /\ ocupado' \subseteq ocupado
      /\ \A f \in ocupado' : f # c.flag \/ ~Montado(c) \/ (prox # <<>> /\ prox[1].flag = c.flag)
  BY <1>2 DEF Continua
<1>4. ASSUME NEW f \in ocupado' \ {"saved"}
      PROVE  \/ \E i \in 1..Len(vuelo) \ {k} : vuelo[i].flag = f /\ Montado(vuelo[i])
             \/ f = c.flag /\ Montado(c) /\ prox # <<>> /\ prox[1].flag = f
  <2>1. TieneDueno(f)
    BY <1>3, <1>4 DEF Ocupados
  <2> QED
    BY <1>2, <1>3, <1>4, <2>1 DEF TieneDueno
<1>5. CASE Sale(k) /\ prox = <<>>
  <2>1. Len(vuelo') = Len(vuelo) - 1 /\ \A i \in 1..Len(vuelo) \ {k} : \E j \in 1..Len(vuelo') : vuelo'[j] = vuelo[i]
    BY <1>5 DEF Sale, Sin
  <2>2. \A f \in ocupado' \ {"saved"} : \E i \in 1..Len(vuelo) \ {k} : vuelo[i].flag = f /\ Montado(vuelo[i])
    BY <1>4, <1>5
  <2>3. Len(vuelo') <= MaxVuelo
    BY <1>1, <2>1
  <2>5. ASSUME NEW f \in ocupado' \ {"saved"}
        PROVE  \E j \in 1..Len(vuelo') : vuelo'[j].flag = f /\ Montado(vuelo'[j])
    <3>1. PICK i \in 1..Len(vuelo) \ {k} : vuelo[i].flag = f /\ Montado(vuelo[i])
      BY <2>2
    <3>2. PICK j \in 1..Len(vuelo') : vuelo'[j] = vuelo[i]
      BY <2>1
    <3> QED
      BY <3>1, <3>2
  <2> QED
    BY <2>3, <2>5
<1>6. ASSUME NEW d \in Llamadas, prox = <<d>>, Sigue(pagina, c, d), Encadena(k, d)
      PROVE  /\ Len(vuelo') <= MaxVuelo
             /\ \A f \in ocupado' \ {"saved"} :
                  \E j \in 1..Len(vuelo') : vuelo'[j].flag = f /\ Montado(vuelo'[j])
  <2>1. Len(vuelo') = Len(vuelo) /\ vuelo'[Len(vuelo)] = d
    BY <1>1, <1>6, EncadenaDa
  <2>2. \A i \in 1..Len(vuelo) \ {k} : \E j \in 1..Len(vuelo') : vuelo'[j] = vuelo[i]
    BY <1>2, <1>6, QuedaDa DEF Queda
  <2>3. d.hoja = c.hoja
    BY <1>6 DEF Sigue
  <2>4. Montado(c) => Montado(d)
    BY <2>3 DEF Montado
  <2>5. prox[1] = d /\ Len(vuelo) \in 1..Len(vuelo')
    BY <1>1, <1>6, <2>1
  <2>6. ASSUME NEW f \in ocupado' \ {"saved"}
        PROVE  \E j \in 1..Len(vuelo') : vuelo'[j].flag = f /\ Montado(vuelo'[j])
    BY <1>4, <2>1, <2>2, <2>4, <2>5
  <2> QED
    BY <1>1, <2>1, <2>6
<1> QED
  BY <1>2, <1>5, <1>6, ContinuaDa

LEMMA OcupadosVuelve ==
  ASSUME BaseInv, Ocupados, NEW k \in 1..Len(vuelo), Vuelve(k) \/ Falla(k)
  PROVE  Ocupados'
<1>1. PICK c : c = vuelo[k]
  OBVIOUS
<1>2. Forma(pagina, c)
  BY <1>1 DEF BaseInv
<1>3. PICK prox : (prox = <<>> \/ prox = Proxima(c)) /\ Continua(k, prox)
  BY <1>1 DEF Vuelve, Falla
<1>4. /\ Len(vuelo') <= MaxVuelo
      /\ \A f \in ocupado' \ {"saved"} :
           \E j \in 1..Len(vuelo') : vuelo'[j].flag = f /\ Montado(vuelo'[j])
  BY <1>1, <1>3, OcupadosSigue
<1>5. /\ pagina' = pagina
      /\ hoja' = hoja \/ pagina # "onboarding"
  <2>1. CASE Vuelve(k)
    BY <1>1, <1>2, <2>1, AsistenteDa DEF Vuelve
  <2>2. CASE Falla(k)
    BY <2>2 DEF Falla
  <2> QED
    BY <2>1, <2>2
<1>6. pagina = "facturacion" => anuladas' \subseteq marcas'
  <2>1. pagina = "facturacion" => c.cierra # "lote"
    BY <1>2 DEF Forma
  <2>2. CASE Vuelve(k)
    BY <1>1, <2>1, <2>2 DEF Vuelve, Marcadas, Ocupados
  <2>3. CASE Falla(k)
    BY <1>1, <2>1, <2>3 DEF Falla, Ocupados
  <2> QED
    BY <2>2, <2>3
<1> QED
  BY <1>4, <1>5, <1>6 DEF Ocupados, TieneDueno, Montado

LEMMA OcupadosManda ==
  ASSUME BaseInv, Ocupados, NEW c, Envio(c) \/ Lectura(c)
  PROVE  Ocupados'
<1>1. /\ c \in Llamadas /\ Forma(pagina, c) /\ Manda(c) /\ UNCHANGED <<pagina, marcas, anuladas>>
      /\ vuelo \in Seq(Llamadas) /\ Len(vuelo) \in Nat
  BY DEF Envio, Toca, Lectura, BaseInv
<1>2. /\ Len(vuelo') = Len(vuelo) + 1 /\ vuelo'[Len(vuelo) + 1] = c
      /\ \A j \in 1..Len(vuelo) : vuelo'[j] = vuelo[j]
      /\ 1..Len(vuelo') = 1..Len(vuelo) \cup {Len(vuelo) + 1} /\ Len(vuelo) < MaxVuelo
  BY <1>1, MandaDa
<1>3. Len(vuelo') <= MaxVuelo
  BY <1>1, <1>2, PaginasAssumption
<1>4. ocupado' = ocupado \cup ({c.flag} \ {Vacio})
  BY <1>1 DEF Manda
<1>5. ASSUME NEW f \in ocupado' \ {"saved"}
      PROVE  \E j \in 1..Len(vuelo') : vuelo'[j].flag = f /\ (pagina = "onboarding" => vuelo'[j].hoja = hoja')
  <2>1. CASE pagina = "onboarding"
    <3>1. Envio(c)
      BY <2>1 DEF Lectura, DeLista
    <3>2. c.hoja = hoja' /\ c.flag = "loading"
      BY <1>1, <2>1, <3>1, AsistenteDa DEF Envio
    <3>3. f = "loading"
      <4>1. CASE f \in ocupado
        <5>1. TieneDueno(f)
          BY <1>5, <4>1 DEF Ocupados
        <5> QED
          BY <2>1, <5>1, HojasDa, AsistenteDa DEF TieneDueno
      <4> QED
        BY <1>4, <1>5, <3>2, <4>1
    <3> QED
      BY <1>2, <3>2, <3>3
  <2>2. CASE pagina # "onboarding" /\ f \in ocupado
    <3>1. TieneDueno(f)
      BY <1>5, <2>2 DEF Ocupados
    <3> QED
      BY <1>2, <2>2, <3>1 DEF TieneDueno
  <2>3. CASE pagina # "onboarding" /\ f = c.flag
    BY <1>2, <2>3
  <2> QED
    BY <1>4, <1>5, <2>1, <2>2, <2>3
<1> QED
  BY <1>1, <1>3, <1>5 DEF Ocupados, TieneDueno, Montado

LEMMA OcupadosQuieta ==
  ASSUME BaseInv, Ocupados,
         \/ CierraDialogo \/ Elige \/ SueltaPanel \/ Limpia \/ Teclea \/ UNCHANGED vars
         \/ \E t \in Nombres, i \in Sujetos : AbreDialogo(t, i)
  PROVE  Ocupados'
<1>1. /\ UNCHANGED <<pagina, vuelo, anuladas>> /\ ocupado' \subseteq ocupado
      /\ hoja' = hoja \/ pagina # "onboarding"
      /\ marcas' = marcas \/ pagina # "facturacion"
  BY DEF CierraDialogo, Elige, SueltaPanel, Limpia, Teclea, pantalla, vars, Toca, AbreDialogo, Quietas
<1> QED
  BY <1>1 DEF Ocupados, TieneDueno, Montado

LEMMA OcupadosGira ==
  ASSUME BaseInv, Ocupados,
         \/ OnboardingAvanza \/ \E d \in {0, 1} : OnboardingPasa(d)
         \/ (\E k \in 1..Len(vuelo) : Navega(k)) \/ Cancela
  PROVE  Ocupados'
<1>1. CASE OnboardingAvanza \/ \E d \in {0, 1} : OnboardingPasa(d)
  <2>1. ocupado' = {} /\ UNCHANGED <<pagina, vuelo, anuladas, marcas>>
    BY <1>1 DEF OnboardingAvanza, OnboardingPasa, Gesto, GestoEn
  <2> QED
    BY <2>1 DEF Ocupados
<1>2. CASE (\E k \in 1..Len(vuelo) : Navega(k)) \/ Cancela
  <2>1. ocupado' = {} /\ Len(vuelo') <= MaxVuelo /\ pagina' = "compras"
    BY <1>2, BaseSale DEF Ocupados
  <2> QED
    BY <2>1 DEF Ocupados
<1> QED
  BY <1>1, <1>2

LEMMA OcupadosAtiende ==
  ASSUME BaseInv, Ocupados, NEW k \in 1..Len(vuelo), Atiende(k)
  PROVE  Ocupados'
<1>1. PICK e : /\ vuelo' = [vuelo EXCEPT ![k] = e] /\ e.flag = vuelo[k].flag /\ e.hoja = vuelo[k].hoja
  BY AtendidaDa
<1>2. /\ Len(vuelo') = Len(vuelo) /\ vuelo'[k] = e
      /\ \A j \in 1..Len(vuelo) \ {k} : vuelo'[j] = vuelo[j]
  BY <1>1 DEF BaseInv
<1>3. UNCHANGED <<pagina, hoja, ocupado, marcas, anuladas>>
  BY DEF Atiende, pantalla
<1>4. \A j \in 1..Len(vuelo) : vuelo'[j].flag = vuelo[j].flag /\ vuelo'[j].hoja = vuelo[j].hoja
  BY <1>1, <1>2
<1> QED
  BY <1>2, <1>3, <1>4 DEF Ocupados, TieneDueno, Montado

LEMMA OcupadosDeCache ==
  ASSUME BaseInv, Ocupados, NEW k \in 1..Len(vuelo), DeCache(k)
  PROVE  Ocupados'
<1>1. PICK e : /\ vuelo' = [vuelo EXCEPT ![k] = e] /\ e.flag = vuelo[k].flag /\ e.hoja = vuelo[k].hoja
  BY DeCacheDa
<1>2. /\ Len(vuelo') = Len(vuelo) /\ vuelo'[k] = e
      /\ \A j \in 1..Len(vuelo) \ {k} : vuelo'[j] = vuelo[j]
  BY <1>1 DEF BaseInv
<1>3. UNCHANGED <<pagina, hoja, ocupado, marcas, anuladas>>
  BY DeCacheDa DEF pantalla
<1>4. \A j \in 1..Len(vuelo) : vuelo'[j].flag = vuelo[j].flag /\ vuelo'[j].hoja = vuelo[j].hoja
  BY <1>1, <1>2
<1> QED
  BY <1>2, <1>3, <1>4 DEF Ocupados, TieneDueno, Montado

LEMMA OcupadosGuardado ==
  ASSUME BaseInv, Ocupados, NEW k \in 1..Len(vuelo), OnboardingGuardado(k)
  PROVE  Ocupados'
<1>1. /\ Len(vuelo') = Len(vuelo) - 1 /\ Len(vuelo) \in Nat
      /\ \A i \in 1..Len(vuelo) \ {k} : \E j \in 1..Len(vuelo') : vuelo'[j] = vuelo[i]
  <2>1. Sale(k)
    BY BaseGuardado
  <2>2. Len(vuelo) \in Nat
    BY DEF BaseInv
  <2>3. Len(vuelo') = Len(vuelo) - 1
    BY <2>1 DEF Sale, Sin
  <2>4. \A i \in 1..Len(vuelo) \ {k} : Vuelta(k, i) \in 1..Len(vuelo') /\ vuelo'[Vuelta(k, i)] = vuelo[i]
    BY <2>1 DEF Sale, Sin
  <2> QED
    BY <2>2, <2>3, <2>4
<1>2. /\ UNCHANGED <<pagina, hoja, marcas, anuladas>>
      /\ ocupado' = IF Montado(vuelo[k]) THEN {"saved"} ELSE ocupado
  BY DEF OnboardingGuardado
<1>3. Len(vuelo') <= MaxVuelo
  BY <1>1, PaginasAssumption DEF Ocupados
<1>4. ASSUME NEW f \in ocupado' \ {"saved"}
      PROVE  \E j \in 1..Len(vuelo') : vuelo'[j].flag = f /\ Montado(vuelo'[j])
  <2>1. ~Montado(vuelo[k]) /\ f \in ocupado
    BY <1>2, <1>4
  <2>2. TieneDueno(f)
    BY <1>4, <2>1 DEF Ocupados
  <2>3. PICK i \in 1..Len(vuelo) : vuelo[i].flag = f /\ Montado(vuelo[i])
    BY <2>2 DEF TieneDueno
  <2>4. i # k
    BY <2>1, <2>3
  <2> QED
    BY <1>1, <2>3, <2>4
<1> QED
  BY <1>2, <1>3, <1>4 DEF Ocupados, TieneDueno, Montado

LEMMA OcupadosPaso ==
  ASSUME BaseInv, Ocupados, Paso
  PROVE  Ocupados'
BY OcupadosVuelve, OcupadosManda, OcupadosQuieta, OcupadosGira, OcupadosAtiende, OcupadosDeCache,
   OcupadosGuardado
   DEF Paso, Gesticula

LEMMA TiposDa ==
  ASSUME BaseInv, Ocupados
  PROVE  TypeOK /\ AnuladaNoRevive
<1>1. /\ lista.de \in Filtros \cup {Nadie} /\ DOMAIN lista.filas \subseteq Filas
      /\ \A i \in DOMAIN lista.filas : lista.filas[i] \in Vivas
  BY FichaDa DEF BaseInv, Copias
<1>2. \A f \in ocupado \ {"saved"} : \E k \in 1..Len(vuelo) : vuelo[k].flag = f
  BY DEF Ocupados, TieneDueno
<1>3. dialogo.sobre \in Filas \cup {Nadie}
  BY DEF BaseInv, Sujetos
<1>4. TypeOK
  BY <1>1, <1>2, <1>3 DEF TypeOK, BaseInv, Ocupados, Vivas
<1>5. AnuladaNoRevive
  BY DEF AnuladaNoRevive, Ocupados
<1> QED
  BY <1>4, <1>5

-----------------------------------------------------------------------------
(* What is left of the queue, and the states where nothing went wrong *)

\* r is q without its call k, whose chain goes on with the one of D, if there is one.
Tras(q, k, D, r) ==
  /\ q \in Seq(Llamadas) /\ r \in Seq(Llamadas) /\ k \in 1..Len(q)
  /\ \A i \in 1..Len(q) \ {k} : Vuelta(k, i) \in 1..Len(r) /\ r[Vuelta(k, i)] = q[i]
  /\ \A j \in 1..Len(r) : \/ Salta(k, j) \in 1..Len(q) \ {k} /\ r[j] = q[Salta(k, j)]
                          \/ j = Len(r) /\ r[j] \in D
  /\ \/ D = {} /\ Len(r) = Len(q) - 1
     \/ \E d \in Llamadas : D = {d} /\ Len(r) = Len(q) /\ r[Len(q)] = d

LEMMA TrasDa ==
  ASSUME BaseInv, NEW k \in 1..Len(vuelo)
  PROVE  /\ Sale(k) => Tras(vuelo, k, {}, vuelo')
         /\ \A d \in Llamadas : Encadena(k, d) => Tras(vuelo, k, {d}, vuelo')
<1>1. vuelo \in Seq(Llamadas) /\ Len(vuelo) \in Nat
  BY DEF BaseInv
<1>2. Sale(k) => Tras(vuelo, k, {}, vuelo')
  BY <1>1 DEF Sale, Sin, Tras
<1>3. ASSUME NEW d \in Llamadas, Encadena(k, d)
      PROVE  Tras(vuelo, k, {d}, vuelo')
  <2>1. /\ vuelo' \in Seq(Llamadas) /\ Len(vuelo') = Len(vuelo) /\ vuelo'[Len(vuelo)] = d
        /\ \A j \in 1..Len(vuelo) \ {Len(vuelo)} :
             Salta(k, j) \in 1..Len(vuelo) \ {k} /\ vuelo'[j] = vuelo[Salta(k, j)]
        /\ \A i \in 1..Len(vuelo) \ {k} :
             Vuelta(k, i) \in 1..Len(vuelo) \ {Len(vuelo)} /\ vuelo'[Vuelta(k, i)] = vuelo[i]
    BY <1>3 DEF Encadena, Con
  <2> QED
    BY <1>1, <2>1 DEF Tras
<1> QED
  BY <1>2, <1>3

\* What a handler that goes on, or ends, makes of the queue.
LEMMA ContinuaTras ==
  ASSUME BaseInv, NEW k \in 1..Len(vuelo), NEW prox, prox = <<>> \/ prox = Proxima(vuelo[k]),
         Continua(k, prox)
  PROVE  \/ prox = <<>> /\ Tras(vuelo, k, {}, vuelo')
         \/ \E d \in Llamadas : Sigue(pagina, vuelo[k], d) /\ Tras(vuelo, k, {d}, vuelo')
<1>1. CASE prox = <<>> /\ Sale(k)
  BY <1>1, TrasDa
<1>2. ASSUME NEW d \in Llamadas, Sigue(pagina, vuelo[k], d), Encadena(k, d)
      PROVE  \E e \in Llamadas : Sigue(pagina, vuelo[k], e) /\ Tras(vuelo, k, {e}, vuelo')
  BY <1>2, TrasDa
<1> QED
  BY <1>1, <1>2, ContinuaDa

Sereno == ~carrera /\ ~averia

LEMMA SerenoAtiende ==
  ASSUME NEW k \in 1..Len(vuelo), Atiende(k), Sereno'
  PROVE  Sereno /\ ~Parche(vuelo[k]) /\ \A j \in 1..(k - 1) : ~vuelo[j].ida
<1> DEFINE A == \E j \in 1..(k - 1) : vuelo[j].ida
           B == Parche(vuelo[k])
<1>1. carrera' = (carrera \/ B \/ A) /\ averia' = averia
  BY DEF Atiende
<1>2. ~A => \A j \in 1..(k - 1) : ~vuelo[j].ida
  OBVIOUS
<1> HIDE DEF A, B
<1> QED
  BY <1>1, <1>2, Zenon DEF Sereno, B

LEMMA SerenoVuelve ==
  ASSUME NEW k \in 1..Len(vuelo), Vuelve(k), Sereno'
  PROVE  Sereno /\ k = 1
<1>1. carrera' = (carrera \/ k # 1) /\ averia' = averia
  BY DEF Vuelve
<1> QED
  BY <1>1, Zenon DEF Sereno

LEMMA SerenoFalla ==
  ASSUME BaseInv, NEW k \in 1..Len(vuelo), Falla(k), Sereno'
  PROVE  /\ Sereno /\ Escritura(vuelo[k]) /\ vuelo[k].ida
         /\ UNCHANGED <<lista, marcas>>
<1> DEFINE A == pagina = "inventario" /\ vuelo[k].local = "stock" /\ Mostrada(vuelo[k].sobre)
           B == Escritura(vuelo[k])
           D == vuelo[k].ida
<1>1. averia' = (averia \/ ~B \/ ~D \/ A) /\ carrera' = carrera
  BY DEF Falla
<1>2. /\ lista' = IF A THEN [lista EXCEPT !.filas[vuelo[k].sobre].n = vuelo[k].vio.n + 1]
                  ELSE IF pagina \in {"reportes", "consulta"} THEN Nada ELSE lista
      /\ marcas' = IF vuelo[k].cierra = "lote" THEN {} ELSE marcas
  BY DEF Falla
<1>3. B => pagina \notin {"reportes", "consulta"} /\ vuelo[k].cierra # "lote"
  BY DEF BaseInv, Forma, Escritura, Lecturas
<1> HIDE DEF A, B, D
<1>4. Sereno /\ B /\ D /\ ~A
  BY <1>1, Zenon DEF Sereno
<1>5. lista' = lista /\ marcas' = marcas
  BY <1>2, <1>3, <1>4
<1> QED
  BY <1>4, <1>5 DEF B, D

LEMMA SerenoResto ==
  ASSUME BaseInv, Sereno',
         \/ Gesticula \/ Teclea \/ (\E c \in Llamadas : Lectura(c)) \/ OnboardingAvanza
         \/ (\E k \in 1..Len(vuelo) : OnboardingGuardado(k) \/ Navega(k)) \/ Cancela \/ UNCHANGED vars
  PROVE  Sereno
<1>1. CASE \/ Gesticula \/ Teclea \/ \E c \in Llamadas : Lectura(c)
  <2>1. (carrera => carrera') /\ averia' = averia
    <3>1. CASE \E d \in {0, 1} : OnboardingPasa(d)
      <4>1. carrera' = (carrera \/ FALSE) /\ averia' = averia
        BY <3>1 DEF OnboardingPasa, Gesto, GestoEn
      <4> QED
        BY <4>1, Zenon
    <3> QED
      BY <1>1, <3>1 DEF Gesticula, AbreDialogo, CierraDialogo, Elige, SueltaPanel, Limpia, Envio,
                        Lectura, Teclea, Toca
  <2> QED
    BY <2>1, Zenon DEF Sereno
<1>2. CASE \/ OnboardingAvanza \/ (\E k \in 1..Len(vuelo) : OnboardingGuardado(k) \/ Navega(k))
           \/ Cancela \/ UNCHANGED vars
  BY <1>2 DEF OnboardingAvanza, OnboardingGuardado, Navega, Cancela, ACompras, vars, Sereno
<1> QED
  BY <1>1, <1>2

-----------------------------------------------------------------------------
(* The panels show what their titles name *)

SinOp(q, p) == \A k \in 1..Len(q) : q[k].op # p

\* The last call of kind p is about i: its answer is the one that stays.
UltimaEs(q, p, i) ==
  \E k \in 1..Len(q) : q[k].op = p /\ q[k].sobre = i /\ \A j \in (k + 1)..Len(q) : q[j].op # p

\* A call that was attended will be followed by one of kind p.
Espera(q, p) == \E k \in 1..Len(q) : Contains(q[k].luego, p) /\ ~q[k].ida

\* The lots or variants p of the product in the title t.
Rotulo(q, p, t) ==
  \/ t.de = Nadie
  \/ /\ \A k \in 1..Len(q) : Contains(q[k].luego, p) => q[k].sobre = t.de
     /\ UltimaEs(q, p, t.de) \/ Espera(q, p) \/ (SinOp(q, p) /\ t.filas = t.de)

\* The movements of the account in the title t: the customer is read before them.
Cuenta(q, t) ==
  \/ \E k \in 1..Len(q) : q[k].op = "cliente"
  \/ Espera(q, "cliente") \/ t.de = Nadie \/ UltimaEs(q, "movs", t.de)
  \/ SinOp(q, "movs") /\ t.filas = t.de

PanelInv ==
  /\ pagina = "nueva" => \A p \in Paneles : panel[p].de = Nadie
  /\ Sereno => /\ \A p \in {"lotes", "variantes"} : Rotulo(vuelo, p, panel[p])
               /\ Cuenta(vuelo, panel["movs"])

LEMMA UltimaQueda ==
  ASSUME NEW q, NEW k, NEW D, NEW r, Tras(q, k, D, r), NEW p, NEW i,
         \A d \in D : d.op # p, UltimaEs(q, p, i), k = 1 \/ q[k].op # p
  PROVE  UltimaEs(r, p, i) \/ (SinOp(r, p) /\ q[k].op = p /\ q[k].sobre = i)
<1>1. PICK w \in 1..Len(q) : q[w].op = p /\ q[w].sobre = i /\ \A j \in (w + 1)..Len(q) : q[j].op # p
  BY DEF UltimaEs
<1>2. k \in 1..Len(q) /\ Len(q) \in Nat /\ Len(r) \in Nat /\ Len(r) <= Len(q)
  BY DEF Tras
<1>3. \A j \in 1..Len(r) : \/ Salta(k, j) \in 1..Len(q) \ {k} /\ r[j] = q[Salta(k, j)]
                           \/ r[j].op # p
  BY DEF Tras
<1>4. CASE w # k
  <2>1. Vuelta(k, w) \in 1..Len(r) /\ r[Vuelta(k, w)] = q[w]
    BY <1>1, <1>4 DEF Tras
  <2>2. ASSUME NEW j \in (Vuelta(k, w) + 1)..Len(r) PROVE r[j].op # p
    <3>1. j \in 1..Len(r)
      BY <1>2, <2>1
    <3>2. Salta(k, j) > w
      BY <1>1, <1>2, <1>4, <2>1, <3>1 DEF Salta, Vuelta
    <3> QED
      BY <1>1, <1>2, <1>3, <3>1, <3>2
  <2> QED
    BY <1>1, <2>1, <2>2 DEF UltimaEs
<1>5. CASE w = k
  <2>1. k = 1
    BY <1>1, <1>5
  <2>2. ASSUME NEW j \in 1..Len(r) PROVE r[j].op # p
    <3>1. Salta(k, j) > w
      BY <1>2, <1>5, <2>1 DEF Salta
    <3> QED
      BY <1>1, <1>2, <1>3, <3>1
  <2> QED
    BY <1>1, <1>5, <2>2 DEF SinOp
<1> QED
  BY <1>4, <1>5

LEMMA SinOpQueda ==
  ASSUME NEW q, NEW k, NEW D, NEW r, Tras(q, k, D, r), NEW p, \A d \in D : d.op # p, SinOp(q, p)
  PROVE  SinOp(r, p)
BY DEF Tras, SinOp

LEMMA EsperaQueda ==
  ASSUME NEW q, NEW k, NEW D, NEW r, Tras(q, k, D, r), NEW p, Espera(q, p)
  PROVE  Espera(r, p) \/ (Contains(q[k].luego, p) /\ ~q[k].ida)
<1>1. PICK w \in 1..Len(q) : Contains(q[w].luego, p) /\ ~q[w].ida
  BY DEF Espera
<1>2. CASE w # k
  <2>1. Vuelta(k, w) \in 1..Len(r) /\ r[Vuelta(k, w)] = q[w]
    BY <1>2 DEF Tras
  <2> QED
    BY <1>1, <2>1 DEF Espera
<1> QED
  BY <1>1, <1>2

\* The call that takes the last place is the last of its kind.
LEMMA UltimaLlega ==
  ASSUME NEW q, NEW k, NEW d \in Llamadas, NEW r, Tras(q, k, {d}, r)
  PROVE  Len(r) \in 1..Len(r) /\ r[Len(r)] = d /\ UltimaEs(r, d.op, d.sobre)
<1>1. Len(q) \in Nat /\ k \in 1..Len(q)
  BY DEF Tras
<1>2. \E e \in Llamadas : {d} = {e} /\ Len(r) = Len(q) /\ r[Len(q)] = e
  BY DEF Tras
<1>3. Len(r) = Len(q) /\ r[Len(q)] = d
  BY <1>2
<1>4. \A j \in (Len(q) + 1)..Len(q) : FALSE
  BY <1>1
<1> QED
  BY <1>1, <1>3, <1>4 DEF UltimaEs

\* What follows a call, by the chain it belongs to.
LEMMA SiguienteDa ==
  ASSUME NEW p, NEW c, Forma(p, c), NEW d, Sigue(p, c, d)
  PROVE  /\ c.resto # {} => d.op = "estado" /\ d.op = c.op /\ d.luego = c.luego /\ c.luego = <<"lista">>
         /\ c.resto = {} => /\ d.op \in Lecturas /\ d.sobre = c.sobre
                            /\ \A x : Contains(c.luego, x) <=> d.op = x \/ Contains(d.luego, x)
         /\ \A x \in {"lotes", "variantes"} : Contains(c.luego, x) => d.op = x /\ d.sobre = c.sobre
         /\ Contains(c.luego, "cliente") => d.op = "cliente"
         /\ d.op = "movs" <=> c.op = "cliente"
         /\ \A x : Contains(d.luego, x) => Contains(c.luego, x)
         /\ \A x \in {"lotes", "variantes", "cliente"} : ~Contains(d.luego, x)
<1>1. c.luego \in Colas /\ (c.resto # {} => c.op = "estado" /\ c.luego = <<"lista">>)
  BY DEF Forma, Llamadas
<1>2. \A x \in {"lotes", "variantes", "movs", "cliente"} : ~Contains(<<"lista">>, x)
  BY DEF Contains
<1>3. c.luego \notin {<<"movs">>, <<"movs", "lista">>} \/ c.op = "cliente"
  BY DEF Forma
<1>4. CASE c.resto # {}
  <2>1. d.op = "estado" /\ d.op = c.op /\ d.luego = c.luego /\ c.luego = <<"lista">>
    BY <1>1, <1>4 DEF Sigue
  <2> QED
    BY <1>2, <1>4, <2>1
<1>5. CASE c.resto = {}
  <2>1. d.sobre = c.sobre /\ d.op = Head(c.luego) /\ d.luego = Tail(c.luego) /\ c.luego # <<>>
    BY <1>5 DEF Sigue
  <2>2. d.op \in Lecturas /\ \A x : Contains(c.luego, x) <=> d.op = x \/ Contains(d.luego, x)
    BY <1>1, <2>1, ColasDa
  <2>3. /\ Head(<<"lista">>) = "lista" /\ Head(<<"lotes">>) = "lotes" /\ Head(<<"movs">>) = "movs"
        /\ Head(<<"variantes", "lista">>) = "variantes" /\ Head(<<"movs", "lista">>) = "movs"
        /\ Head(<<"cliente", "movs", "lista">>) = "cliente" /\ Head(<<"pdf">>) = "pdf"
        /\ Tail(<<"lista">>) = <<>> /\ Tail(<<"lotes">>) = <<>> /\ Tail(<<"movs">>) = <<>>
        /\ Tail(<<"variantes", "lista">>) = <<"lista">> /\ Tail(<<"movs", "lista">>) = <<"lista">>
        /\ Tail(<<"cliente", "movs", "lista">>) = <<"movs", "lista">> /\ Tail(<<"pdf">>) = <<>>
    OBVIOUS
  <2>4. d.op = "movs" <=> c.luego \in {<<"movs">>, <<"movs", "lista">>}
    BY <1>1, <2>1, <2>3 DEF Colas
  <2>5. d.op = "movs" <=> c.op = "cliente"
    BY <2>4 DEF Forma
  <2>6. \A x \in {"lotes", "variantes", "cliente"} :
          ~Contains(<<>>, x) /\ ~Contains(<<"lista">>, x) /\ ~Contains(<<"movs", "lista">>, x)
    BY DEF Contains
  <2>7. \A x \in {"lotes", "variantes", "cliente"} : ~Contains(d.luego, x)
    BY <1>1, <2>1, <2>3, <2>6 DEF Colas
  <2> QED
    BY <1>2, <1>5, <2>1, <2>2, <2>5, <2>7
<1> QED
  BY <1>4, <1>5

\* A handler goes on or ends; t and u are the panel before and after.
LEMMA RotuloSigue ==
  ASSUME NEW q, NEW k, NEW D, NEW r, Tras(q, k, D, r), NEW c, c = q[k], Forma(pagina, c),
         D = {} \/ \E d \in Llamadas : D = {d} /\ Sigue(pagina, c, d),
         NEW p \in {"lotes", "variantes"}, NEW t, NEW u, u.de = t.de, Rotulo(q, p, t),
         \/ k = 1 /\ u.filas = (IF c.op = p THEN c.sobre ELSE t.filas) /\ (D = {} => c.luego = <<>>)
         \/ c.op # p /\ u.filas = t.filas /\ (D = {} => ~Contains(c.luego, p) \/ c.ida)
  PROVE  Rotulo(r, p, u)
<1>1. CASE t.de = Nadie
  BY <1>1 DEF Rotulo
<1>2. ASSUME t.de # Nadie PROVE Rotulo(r, p, u)
  <2>1. /\ \A j \in 1..Len(q) : Contains(q[j].luego, p) => q[j].sobre = t.de
        /\ UltimaEs(q, p, t.de) \/ Espera(q, p) \/ (SinOp(q, p) /\ t.filas = t.de)
    BY <1>2 DEF Rotulo
  <2>2. \A d \in D : Sigue(pagina, c, d)
    OBVIOUS
  <2>3. k \in 1..Len(q)
    BY DEF Tras
  <2>4. \A j \in 1..Len(r) : Contains(r[j].luego, p) => r[j].sobre = t.de
    <3>1. \A d \in D : ~Contains(d.luego, p)
      BY <2>2, SiguienteDa
    <3> QED
      BY <2>1, <3>1 DEF Tras
  <2>5. CASE Contains(c.luego, p) /\ D # {}
    <3>1. PICK d \in Llamadas : D = {d} /\ Sigue(pagina, c, d)
      BY <2>5
    <3>2. d.op = p /\ d.sobre = c.sobre
      BY <2>5, <3>1, SiguienteDa
    <3>3. c.sobre = t.de
      BY <2>1, <2>3, <2>5
    <3>4. UltimaEs(r, p, t.de)
      BY <3>1, <3>2, <3>3, UltimaLlega
    <3> QED
      BY <2>4, <3>4 DEF Rotulo
  <2>6. CASE ~(Contains(c.luego, p) /\ D # {})
    <3>1. \A d \in D : d.op # p
      <4>1. ASSUME NEW d \in D PROVE d.op # p
        <5>1. Sigue(pagina, c, d) /\ ~Contains(c.luego, p)
          BY <2>2, <2>6
        <5>2. c.resto # {} \/ d.op # p
          BY <5>1, SiguienteDa
        <5>3. c.resto # {} => d.op = "estado"
          BY <5>1, SiguienteDa
        <5> QED
          BY <5>2, <5>3
      <4> QED
        BY <4>1
    <3>2. ~Contains(c.luego, p) \/ c.ida
      <4>1. ~Contains(<<>>, p)
        BY CamposDa
      <4> QED
        BY <2>6, <4>1
    <3>3. CASE Espera(q, p)
      <4>1. Espera(r, p)
        BY <3>2, <3>3, EsperaQueda
      <4> QED
        BY <2>4, <4>1 DEF Rotulo
    <3>4. CASE UltimaEs(q, p, t.de)
      <4>1. UltimaEs(r, p, t.de) \/ (SinOp(r, p) /\ c.op = p /\ c.sobre = t.de)
        BY <3>1, <3>4, UltimaQueda
      <4> QED
        BY <2>4, <4>1 DEF Rotulo
    <3>5. CASE SinOp(q, p) /\ t.filas = t.de
      <4>1. SinOp(r, p)
        BY <3>1, <3>5, SinOpQueda
      <4>2. c.op # p
        BY <2>3, <3>5 DEF SinOp
      <4>3. u.filas = t.filas /\ u.de = t.de
        BY <4>2
      <4> QED
        BY <2>4, <3>5, <4>1, <4>3 DEF Rotulo
    <3> QED
      BY <2>1, <3>3, <3>4, <3>5
  <2> QED
    BY <2>5, <2>6
<1> QED
  BY <1>1, <1>2

LEMMA CuentaSigue ==
  ASSUME NEW q, NEW k, NEW D, NEW r, Tras(q, k, D, r), NEW c, c = q[k], Forma(pagina, c),
         D = {} \/ \E d \in Llamadas : D = {d} /\ Sigue(pagina, c, d),
         NEW t, NEW u, Cuenta(q, t),
         \/ /\ k = 1 /\ (D = {} => c.luego = <<>> /\ c.resto = {})
            /\ u.de = (IF c.op = "cliente" THEN c.sobre ELSE t.de)
            /\ u.filas = (IF c.op = "movs" THEN c.sobre ELSE t.filas)
         \/ /\ c.op \notin {"cliente", "movs"} /\ u.de = t.de /\ u.filas = t.filas
            /\ c.ida \/ c.luego = <<>>
  PROVE  Cuenta(r, u)
<1>1. \A d \in D : d \in Llamadas /\ Sigue(pagina, c, d)
  OBVIOUS
<1>2. k \in 1..Len(q)
  BY DEF Tras
<1>3. CASE c.op = "cliente"
  <2>1. c.luego \in {<<"movs">>, <<"movs", "lista">>} /\ c.resto = {}
    BY <1>3 DEF Forma
  <2>2. PICK d \in Llamadas : D = {d} /\ Sigue(pagina, c, d)
    BY <1>3, <2>1
  <2>3. d.op = "movs" /\ d.sobre = c.sobre
    BY <1>3, <2>1, <2>2, SiguienteDa
  <2>4. UltimaEs(r, "movs", u.de)
    BY <1>3, <2>2, <2>3, UltimaLlega
  <2> QED
    BY <2>4 DEF Cuenta
<1>4. CASE c.op # "cliente" /\ \E d \in D : d.op = "cliente"
  <2>1. PICK d \in Llamadas : D = {d} /\ d.op = "cliente"
    BY <1>1, <1>4
  <2>2. Len(r) \in 1..Len(r) /\ r[Len(r)] = d
    BY <2>1, UltimaLlega
  <2> QED
    BY <2>1, <2>2 DEF Cuenta
<1>5. CASE c.op # "cliente" /\ \A d \in D : d.op # "cliente"
  <2>1. \A d \in D : d.op # "movs"
    BY <1>1, <1>5, SiguienteDa
  <2>2. ~Contains(c.luego, "cliente") \/ c.ida
    <3>1. D = {} => ~Contains(c.luego, "cliente") \/ c.ida
      BY ColasDa DEF Colas
    <3>2. D # {} => ~Contains(c.luego, "cliente")
      BY <1>1, <1>5, SiguienteDa
    <3> QED
      BY <3>1, <3>2
  <2>3. u.de = t.de
    BY <1>5
  <2>4. CASE \E w \in 1..Len(q) : q[w].op = "cliente"
    <3>1. PICK w \in 1..Len(q) : q[w].op = "cliente"
      BY <2>4
    <3>2. w \in 1..Len(q) \ {k}
      BY <1>5, <3>1
    <3>3. Vuelta(k, w) \in 1..Len(r) /\ r[Vuelta(k, w)] = q[w]
      BY <3>2 DEF Tras
    <3> QED
      BY <3>1, <3>3 DEF Cuenta
  <2>5. CASE Espera(q, "cliente")
    BY <2>2, <2>5, EsperaQueda DEF Cuenta
  <2>6. CASE t.de = Nadie
    BY <2>3, <2>6 DEF Cuenta
  <2>7. CASE UltimaEs(q, "movs", t.de)
    <3>1. UltimaEs(r, "movs", t.de) \/ (SinOp(r, "movs") /\ c.op = "movs" /\ c.sobre = t.de)
      BY <2>1, <2>7, UltimaQueda
    <3> QED
      BY <2>3, <3>1 DEF Cuenta
  <2>8. CASE SinOp(q, "movs") /\ t.filas = t.de
    <3>1. SinOp(r, "movs")
      BY <2>1, <2>8, SinOpQueda
    <3>2. c.op # "movs"
      BY <1>2, <2>8 DEF SinOp
    <3>3. u.filas = t.filas
      BY <3>2
    <3> QED
      BY <2>3, <2>8, <3>1, <3>3 DEF Cuenta
  <2> QED
    BY <2>4, <2>5, <2>6, <2>7, <2>8 DEF Cuenta
<1> QED
  BY <1>3, <1>4, <1>5

\* A call is added to the queue.
LEMMA UltimaManda ==
  ASSUME NEW q \in Seq(Llamadas), NEW c \in Llamadas, NEW r, Mas(Llamadas, q, c, r),
         NEW p, NEW i, c.op # p, UltimaEs(q, p, i)
  PROVE  UltimaEs(r, p, i)
<1>1. /\ Len(q) \in Nat /\ Len(r) = Len(q) + 1 /\ r[Len(q) + 1] = c /\ \A j \in 1..Len(q) : r[j] = q[j]
  BY DEF Mas
<1>2. PICK w \in 1..Len(q) : q[w].op = p /\ q[w].sobre = i /\ \A j \in (w + 1)..Len(q) : q[j].op # p
  BY DEF UltimaEs
<1>3. ASSUME NEW j \in (w + 1)..Len(r) PROVE r[j].op # p
  <2>1. j = Len(q) + 1 \/ (j \in (w + 1)..Len(q) /\ j \in 1..Len(q))
    BY <1>1, <1>2
  <2> QED
    BY <1>1, <1>2, <2>1
<1>4. w \in 1..Len(r) /\ r[w].op = p /\ r[w].sobre = i
  BY <1>1, <1>2
<1> QED
  BY <1>3, <1>4 DEF UltimaEs

LEMMA RotuloManda ==
  ASSUME NEW q \in Seq(Llamadas), NEW c \in Llamadas, NEW r, Mas(Llamadas, q, c, r), c.ida,
         NEW p, NEW t, c.op # p, Contains(c.luego, p) => c.sobre = t.de, Rotulo(q, p, t)
  PROVE  Rotulo(r, p, t)
<1>1. /\ Len(q) \in Nat /\ Len(r) = Len(q) + 1 /\ r[Len(q) + 1] = c /\ \A j \in 1..Len(q) : r[j] = q[j]
      /\ 1..Len(r) = 1..Len(q) \cup {Len(q) + 1}
  BY DEF Mas
<1>2. Espera(q, p) => Espera(r, p)
  BY <1>1 DEF Espera
<1>3. SinOp(q, p) => SinOp(r, p)
  BY <1>1 DEF SinOp
<1>4. UltimaEs(q, p, t.de) => UltimaEs(r, p, t.de)
  BY UltimaManda
<1> QED
  BY <1>1, <1>2, <1>3, <1>4 DEF Rotulo

LEMMA CuentaManda ==
  ASSUME NEW q \in Seq(Llamadas), NEW c \in Llamadas, NEW r, Mas(Llamadas, q, c, r), c.ida,
         NEW t, c.op = "movs" => c.sobre = t.de, Cuenta(q, t)
  PROVE  Cuenta(r, t)
<1>1. /\ Len(q) \in Nat /\ Len(r) = Len(q) + 1 /\ r[Len(q) + 1] = c /\ \A j \in 1..Len(q) : r[j] = q[j]
      /\ 1..Len(r) = 1..Len(q) \cup {Len(q) + 1}
  BY DEF Mas
<1>2. Espera(q, "cliente") => Espera(r, "cliente")
  BY <1>1 DEF Espera
<1>3. CASE c.op = "movs"
  <2>1. UltimaEs(r, "movs", t.de)
    BY <1>1, <1>3 DEF UltimaEs
  <2> QED
    BY <2>1 DEF Cuenta
<1>4. CASE c.op # "movs"
  <2>1. SinOp(q, "movs") => SinOp(r, "movs")
    BY <1>1, <1>4 DEF SinOp
  <2>2. UltimaEs(q, "movs", t.de) => UltimaEs(r, "movs", t.de)
    BY <1>4, UltimaManda
  <2>3. (\E k \in 1..Len(q) : q[k].op = "cliente") => \E k \in 1..Len(r) : r[k].op = "cliente"
    BY <1>1
  <2> QED
    BY <1>2, <2>1, <2>2, <2>3 DEF Cuenta
<1> QED
  BY <1>3, <1>4

\* The title changes and its rows are asked for.
LEMMA RotuloAbre ==
  ASSUME NEW q \in Seq(Llamadas), NEW c \in Llamadas, NEW r, Mas(Llamadas, q, c, r),
         NEW t, c.luego = <<>>, t.de = c.sobre,
         \A k \in 1..Len(q) : Contains(q[k].luego, c.op) => q[k].sobre = c.sobre
  PROVE  Rotulo(r, c.op, t)
<1>1. /\ Len(q) \in Nat /\ Len(r) = Len(q) + 1 /\ r[Len(q) + 1] = c /\ \A j \in 1..Len(q) : r[j] = q[j]
      /\ 1..Len(r) = 1..Len(q) \cup {Len(q) + 1}
  BY DEF Mas
<1>2. UltimaEs(r, c.op, t.de)
  BY <1>1 DEF UltimaEs
<1>3. ~Contains(c.luego, c.op)
  BY ColasDa DEF Colas
<1> QED
  BY <1>1, <1>2, <1>3 DEF Rotulo

\* A call is attended.
LEMMA RotuloAtiende ==
  ASSUME NEW q, NEW r, Len(r) = Len(q),
         \A j \in 1..Len(q) : /\ r[j].op = q[j].op /\ r[j].sobre = q[j].sobre /\ r[j].luego = q[j].luego
                              /\ ~q[j].ida => ~r[j].ida,
         NEW p, NEW t
  PROVE  (Rotulo(q, p, t) => Rotulo(r, p, t)) /\ (Cuenta(q, t) => Cuenta(r, t))
<1>1. \A x : Espera(q, x) => Espera(r, x)
  BY DEF Espera
<1>2. \A x : SinOp(q, x) => SinOp(r, x)
  BY DEF SinOp
<1>3. ASSUME NEW x, UltimaEs(q, x, t.de), Len(q) \in Nat PROVE UltimaEs(r, x, t.de)
  BY <1>3 DEF UltimaEs
<1> QED
  BY <1>1, <1>2, <1>3 DEF Rotulo, Cuenta

LEMMA PanelVuelve ==
  ASSUME BaseInv, PanelInv, NEW k \in 1..Len(vuelo), Vuelve(k)
  PROVE  PanelInv'
<1>1. PICK c : c = vuelo[k]
  OBVIOUS
<1>2. /\ c \in Llamadas /\ Forma(pagina, c) /\ panel \in [Paneles -> [de : Sujetos, filas : Sujetos]]
      /\ Continua(k, Proxima(c)) /\ EnElPanel(c) /\ pagina' = pagina
  BY <1>1 DEF BaseInv, Vuelve
<1>3. pagina # "nueva"
  BY <1>1, <1>2 DEF Vuelve, Forma
<1>4. PICK D : /\ Tras(vuelo, k, D, vuelo')
               /\ (D = {} /\ c.luego = <<>> /\ c.resto = {}) \/ \E d \in Llamadas : D = {d} /\ Sigue(pagina, c, d)
  <2>1. ASSUME Proxima(c) = <<>> PROVE c.luego = <<>> /\ c.resto = {}
    <3>1. \A d : <<>> # <<d>>
      OBVIOUS
    <3>2. (Proxima(c) = <<>> /\ c.luego = <<>> /\ c.resto = {}) \/ \E d : Proxima(c) = <<d>>
      BY <1>2, ProximaDa
    <3> QED
      BY <2>1, <3>1, <3>2
  <2> QED
    BY <1>1, <1>2, <2>1, ContinuaTras
<1>5. /\ \A p \in {"lotes", "variantes"} :
           panel'[p].de = panel[p].de /\ panel'[p].filas = IF c.op = p THEN c.sobre ELSE panel[p].filas
      /\ panel'["movs"].de = IF c.op = "cliente" THEN c.sobre ELSE panel["movs"].de
      /\ panel'["movs"].filas = IF c.op = "movs" THEN c.sobre ELSE panel["movs"].filas
  BY <1>2 DEF EnElPanel, Paneles
<1>6. ASSUME Sereno'
      PROVE  /\ \A p \in {"lotes", "variantes"} : Rotulo(vuelo', p, panel'[p])
             /\ Cuenta(vuelo', panel'["movs"])
  <2>1. k = 1 /\ Sereno
    BY <1>6, SerenoVuelve
  <2>2. ASSUME NEW p \in {"lotes", "variantes"} PROVE Rotulo(vuelo', p, panel'[p])
    <3>1. Rotulo(vuelo, p, panel[p])
      BY <2>1 DEF PanelInv
    <3> QED
      BY <1>1, <1>2, <1>4, <1>5, <2>1, <3>1, RotuloSigue
  <2>3. Cuenta(vuelo', panel'["movs"])
    <3>1. Cuenta(vuelo, panel["movs"])
      BY <2>1 DEF PanelInv
    <3>2. D = {} \/ \E d \in Llamadas : D = {d} /\ Sigue(pagina, c, d)
      BY <1>4
    <3>3. D = {} => c.luego = <<>> /\ c.resto = {}
      BY <1>4
    <3>4. PICK t, u : t = panel["movs"] /\ u = panel'["movs"]
      OBVIOUS
    <3>5. /\ u.de = (IF c.op = "cliente" THEN c.sobre ELSE t.de)
          /\ u.filas = (IF c.op = "movs" THEN c.sobre ELSE t.filas)
      BY <1>5, <3>4
    <3>6. Cuenta(vuelo', u)
      BY <1>1, <1>2, <1>4, <2>1, <3>1, <3>2, <3>3, <3>4, <3>5, CuentaSigue
    <3> QED
      BY <3>4, <3>6
  <2> QED
    BY <2>2, <2>3
<1> QED
  BY <1>2, <1>3, <1>6 DEF PanelInv

LEMMA PanelFalla ==
  ASSUME BaseInv, PanelInv, NEW k \in 1..Len(vuelo), Falla(k)
  PROVE  PanelInv'
<1>1. PICK c : c = vuelo[k]
  OBVIOUS
<1>2. c \in Llamadas /\ Forma(pagina, c) /\ UNCHANGED <<pagina, panel>>
  BY <1>1 DEF BaseInv, Falla
<1>3. PICK prox : (prox = <<>> \/ prox = Proxima(c)) /\ Continua(k, prox)
  BY <1>1 DEF Falla
<1>4. PICK D : Tras(vuelo, k, D, vuelo') /\ (D = {} \/ \E d \in Llamadas : D = {d} /\ Sigue(pagina, c, d))
  BY <1>1, <1>3, ContinuaTras
<1>5. ASSUME Sereno'
      PROVE  /\ \A p \in {"lotes", "variantes"} : Rotulo(vuelo', p, panel[p])
             /\ Cuenta(vuelo', panel["movs"])
  <2>1. Sereno /\ Escritura(c) /\ c.ida
    BY <1>1, <1>5, SerenoFalla
  <2>2. c.op \notin {"lotes", "variantes", "movs", "cliente"}
    BY <2>1 DEF Escritura, Lecturas
  <2>3. ASSUME NEW p \in {"lotes", "variantes"} PROVE Rotulo(vuelo', p, panel[p])
    <3>1. Rotulo(vuelo, p, panel[p])
      BY <2>1 DEF PanelInv
    <3> QED
      BY <1>1, <1>2, <1>4, <2>1, <2>2, <3>1, RotuloSigue
  <2>4. Cuenta(vuelo', panel["movs"])
    <3>1. Cuenta(vuelo, panel["movs"])
      BY <2>1 DEF PanelInv
    <3> QED
      BY <1>1, <1>2, <1>4, <2>1, <2>2, <3>1, SMTT(20), CuentaSigue
  <2> QED
    BY <2>3, <2>4
<1> QED
  BY <1>2, <1>5 DEF PanelInv

LEMMA PanelAtiende ==
  ASSUME BaseInv, PanelInv, NEW k \in 1..Len(vuelo), Atiende(k)
  PROVE  PanelInv'
<1>1. PICK e : /\ vuelo' = [vuelo EXCEPT ![k] = e] /\ ~e.ida /\ e.op = vuelo[k].op
               /\ e.sobre = vuelo[k].sobre /\ e.luego = vuelo[k].luego
  BY AtendidaDa
<1>2. /\ Len(vuelo') = Len(vuelo)
      /\ \A j \in 1..Len(vuelo) :
           /\ vuelo'[j].op = vuelo[j].op /\ vuelo'[j].sobre = vuelo[j].sobre
           /\ vuelo'[j].luego = vuelo[j].luego /\ (~vuelo[j].ida => ~vuelo'[j].ida)
  BY <1>1 DEF BaseInv
<1>3. UNCHANGED <<pagina, panel>>
  BY DEF Atiende, pantalla
<1>4. ASSUME Sereno'
      PROVE  /\ \A p \in {"lotes", "variantes"} : Rotulo(vuelo', p, panel[p])
             /\ Cuenta(vuelo', panel["movs"])
  <2>1. Sereno
    BY <1>4, SerenoAtiende
  <2> QED
    BY <1>2, <2>1, RotuloAtiende DEF PanelInv
<1> QED
  BY <1>3, <1>4 DEF PanelInv

LEMMA PanelDeCache ==
  ASSUME BaseInv, PanelInv, NEW k \in 1..Len(vuelo), DeCache(k)
  PROVE  PanelInv'
<1>1. UNCHANGED <<pagina, panel>> /\ ~Sereno'
  BY DeCacheDa DEF pantalla, Sereno
<1> QED
  BY <1>1 DEF PanelInv

LEMMA PanelGuardado ==
  ASSUME BaseInv, PanelInv, NEW k \in 1..Len(vuelo), OnboardingGuardado(k)
  PROVE  PanelInv'
<1>1. PICK c : c = vuelo[k]
  OBVIOUS
<1>2. c \in Llamadas /\ Forma(pagina, c) /\ UNCHANGED <<pagina, panel, carrera, averia>>
  BY <1>1 DEF BaseInv, OnboardingGuardado
<1>3. pagina = "onboarding" /\ c.op = "sub" /\ c.luego = <<>>
  BY <1>1, <1>2 DEF OnboardingGuardado, Forma
<1>4. Tras(vuelo, k, {}, vuelo')
  BY BaseGuardado, TrasDa
<1>5. ~Contains(c.luego, "lotes") /\ ~Contains(c.luego, "variantes")
  BY <1>3, CamposDa
<1>6. ASSUME Sereno
      PROVE  /\ \A p \in {"lotes", "variantes"} : Rotulo(vuelo', p, panel[p])
             /\ Cuenta(vuelo', panel["movs"])
  <2>1. ASSUME NEW p \in {"lotes", "variantes"} PROVE Rotulo(vuelo', p, panel[p])
    <3>1. Rotulo(vuelo, p, panel[p])
      BY <1>6 DEF PanelInv
    <3> QED
      BY <1>1, <1>2, <1>3, <1>4, <1>5, <3>1, RotuloSigue
  <2>2. Cuenta(vuelo', panel["movs"])
    <3>1. Cuenta(vuelo, panel["movs"])
      BY <1>6 DEF PanelInv
    <3> QED
      BY <1>1, <1>2, <1>3, <1>4, <3>1, CuentaSigue
  <2> QED
    BY <2>1, <2>2
<1> QED
  BY <1>2, <1>6 DEF PanelInv, Sereno

LEMMA PanelManda ==
  ASSUME BaseInv, PanelInv, NEW c \in Llamadas, Envio(c) \/ Lectura(c)
  PROVE  PanelInv'
<1>1. vuelo \in Seq(Llamadas) /\ Mas(Llamadas, vuelo, c, vuelo') /\ c.ida /\ UNCHANGED pagina
  <2>1. vuelo \in Seq(Llamadas) /\ Manda(c)
    BY DEF BaseInv, Envio, Lectura
  <2> QED
    BY <2>1, MandaDa DEF Mas, Envio, Toca, Lectura
<1>2. panel \in [Paneles -> [de : Sujetos, filas : Sujetos]] /\ Forma(pagina, c)
  BY DEF BaseInv, Envio, Lectura
<1>3. CASE /\ UNCHANGED panel
           /\ \A p \in {"lotes", "variantes"} : c.op # p /\ (Contains(c.luego, p) => c.sobre = panel[p].de)
           /\ c.op = "movs" => c.sobre = panel["movs"].de
  <2>1. ASSUME Sereno'
        PROVE  /\ \A p \in {"lotes", "variantes"} : Rotulo(vuelo', p, panel[p])
               /\ Cuenta(vuelo', panel["movs"])
    <3>1. Sereno
      BY <2>1, SerenoResto DEF Gesticula
    <3> QED
      BY <1>1, <1>3, <3>1, RotuloManda, CuentaManda DEF PanelInv
  <2> QED
    BY <1>1, <1>3, <2>1 DEF PanelInv
<1>4. ASSUME NEW p \in {"lotes", "variantes"}, c.op = p, c.luego = <<>>, Envio(c),
             panel' = [panel EXCEPT ![p].de = c.sobre],
             carrera' \/ \A k \in 1..Len(vuelo) : Contains(vuelo[k].luego, p) => vuelo[k].sobre = c.sobre
      PROVE  PanelInv'
  <2>1. /\ panel'[p].de = c.sobre
        /\ \A x \in Paneles \ {p} : panel'[x] = panel[x]
    BY <1>2, <1>4 DEF Paneles
  <2>2. pagina # "nueva"
    BY <1>2, <1>4 DEF Forma
  <2>3. ASSUME Sereno'
        PROVE  /\ \A x \in {"lotes", "variantes"} : Rotulo(vuelo', x, panel'[x])
               /\ Cuenta(vuelo', panel'["movs"])
    <3>1. Sereno
      BY <1>4, <2>3, SerenoResto DEF Gesticula
    <3>2. \A k \in 1..Len(vuelo) : Contains(vuelo[k].luego, p) => vuelo[k].sobre = c.sobre
      BY <1>4, <2>3 DEF Sereno
    <3>3. Rotulo(vuelo', p, panel'[p])
      BY <1>1, <1>4, <2>1, <3>2, RotuloAbre
    <3>4. ASSUME NEW x \in {"lotes", "variantes"} \ {p} PROVE Rotulo(vuelo', x, panel'[x])
      <4>1. panel'[x] = panel[x] /\ Rotulo(vuelo, x, panel[x])
        BY <2>1, <3>1, <3>4 DEF Paneles, PanelInv
      <4>2. ~Contains(c.luego, x) /\ c.op # x
        BY <1>4, <3>4, CamposDa
      <4> QED
        BY <1>1, <4>1, <4>2, RotuloManda
    <3>5. Cuenta(vuelo', panel'["movs"])
      <4>1. panel'["movs"] = panel["movs"] /\ Cuenta(vuelo, panel["movs"])
        BY <2>1, <3>1 DEF Paneles, PanelInv
      <4> QED
        BY <1>1, <1>4, <4>1, CuentaManda
    <3> QED
      BY <3>3, <3>4, <3>5
  <2> QED
    BY <1>1, <2>2, <2>3 DEF PanelInv
<1>5. CASE Lectura(c)
  <2>1. UNCHANGED panel /\ c.op = "lista" /\ c.luego = <<>>
    BY <1>5 DEF Lectura, DeLista
  <2> QED
    BY <1>3, <2>1, CamposDa
<1>6. CASE Envio(c)
  BY <1>3, <1>4, <1>6 DEF Envio, EnvioEnPanel
<1> QED
  BY <1>5, <1>6

LEMMA PanelQuieto ==
  ASSUME BaseInv, PanelInv,
         \/ CierraDialogo \/ Elige \/ SueltaPanel \/ Limpia \/ Teclea \/ UNCHANGED vars
         \/ (\E t \in Nombres, i \in Sujetos : AbreDialogo(t, i))
         \/ OnboardingAvanza \/ \E d \in {0, 1} : OnboardingPasa(d)
  PROVE  PanelInv'
<1>1. Sereno' => Sereno
  BY SerenoResto DEF Gesticula
<1>2. UNCHANGED <<pagina, vuelo>>
  BY DEF CierraDialogo, Elige, SueltaPanel, Limpia, Teclea, pantalla, vars, Toca, AbreDialogo,
         OnboardingAvanza, OnboardingPasa, Gesto, GestoEn
<1>3. panel \in [Paneles -> [de : Sujetos, filas : Sujetos]]
  BY DEF BaseInv
<1>4. \A p \in Paneles : panel'[p] = panel[p] \/ panel'[p].de = Nadie
  <2>1. CASE SueltaPanel
    BY <1>3, <2>1 DEF SueltaPanel, Paneles
  <2>2. CASE UNCHANGED panel
    BY <2>2
  <2> QED
    BY <2>1, <2>2 DEF CierraDialogo, Elige, Limpia, Teclea, pantalla, vars, AbreDialogo,
         OnboardingAvanza, OnboardingPasa
<1>5. \A p \in {"lotes", "variantes"} : Rotulo(vuelo, p, panel[p]) => Rotulo(vuelo, p, panel'[p])
  BY <1>4 DEF Rotulo, Paneles
<1>6. Cuenta(vuelo, panel["movs"]) => Cuenta(vuelo, panel'["movs"])
  BY <1>4 DEF Cuenta, Paneles
<1> QED
  BY <1>1, <1>2, <1>4, <1>5, <1>6 DEF PanelInv

LEMMA PanelSale ==
  ASSUME BaseInv, PanelInv, (\E k \in 1..Len(vuelo) : Navega(k)) \/ Cancela
  PROVE  PanelInv'
<1>1. pagina = "nueva" /\ pagina' = "compras" /\ panel' = panel
  BY BaseSale
<1> QED
  BY <1>1 DEF PanelInv, Rotulo, Cuenta, Paneles

LEMMA PanelPaso ==
  ASSUME BaseInv, PanelInv, Paso
  PROVE  PanelInv'
BY PanelVuelve, PanelFalla, PanelAtiende, PanelDeCache, PanelGuardado, PanelManda, PanelQuieto, PanelSale
   DEF Paso, Gesticula

LEMMA PanelEmpieza ==
  ASSUME Init
  PROVE  PanelInv
<1>1. \A p \in Paneles : panel[p].de = Nadie
  BY DEF Init
<1> QED
  BY <1>1 DEF PanelInv, Rotulo, Cuenta, Paneles

LEMMA PanelCalma ==
  ASSUME BaseInv, PanelInv
  PROVE  PanelDelTitulo
<1>1. ASSUME vuelo = <<>>, Sereno, NEW p \in Paneles, panel[p].de # Nadie
      PROVE  panel[p].filas = panel[p].de
  <2>1. \A k \in 1..Len(vuelo) : FALSE
    BY <1>1
  <2> QED
    BY <1>1, <2>1 DEF PanelInv, Rotulo, Cuenta, UltimaEs, Espera, Paneles
<1> QED
  BY <1>1 DEF PanelDelTitulo, Calma, Sereno

-----------------------------------------------------------------------------
(* The copy on the screen is what the server holds *)

\* Pages that show no list; the others ask for it and may follow it up.
Sueltas == {"nueva", "ai", "onboarding"}
PendeLista(c) == c.op = "lista" \/ Contains(c.luego, "lista")

\* A call whose answer is put in the list.
Pega(c) == c.local \in {"voltea", "stock", "estado"}

\* A call after whose answer, and those it brings, the whole list is read again.
Firme(c) ==
  \/ c.op = "lista" /\ c.ida
  \/ Contains(c.luego, "lista") /\ (~c.ida \/ ~Escritura(c) \/ c.local = "todas")
Firmes(q) == \E k \in 1..Len(q) : Firme(q[k])

\* The rows that the page knows annulled or will when the answers arrive.
Marcables(p, q, ms) ==
  {i \in Filas : /\ p \in {"facturacion", "cierre"}
                 /\ \/ i \in ms
                    \/ \E k \in 1..Len(q) : ~q[k].ida /\ q[k].local = "marca" /\ q[k].sobre = i}

\* The copy v is the rows s as page p shows them with filter f, the annulled ones A aside.
Encaja(p, v, s, f, A) ==
  /\ v.de = f
  /\ \A i \in DOMAIN v.filas : /\ s[i].existe /\ v.filas[i].n = Cifra(s[i], f)
                               /\ v.filas[i].activa = s[i].activa \/ i \in A
  /\ DOMAIN v.filas = IF f = Nadie THEN {} ELSE Vistos(p, s, f)

\* The first m calls were attended; w is the copy as their answers change it.
Orden(q, m) == m \in 0..Len(q) /\ \A k \in 1..Len(q) : q[k].ida <=> k > m
Cadena(q, m, w) == w \in [1..(m + 1) -> Copias] /\ \A k \in 1..m : w[k + 1] = Aplicada(w[k], q[k])

\* The reload that ends a bulk deletion hides what the switches show until then.
Tapada(q, j) == \E k \in 1..Len(q) : q[k].local = "todas" \/ (k >= j /\ q[k].cierra = "lote")
Gira(c, i) == c.local = "voltea" /\ c.sobre = i

\* One switch in flight per row, and what the copy shows of it.
GirosSolos(q, s) ==
  \A k \in 1..Len(q) : q[k].local = "voltea" =>
    /\ q[k].sobre \in Presentes(s)
    /\ \A l \in 1..Len(q) : Gira(q[l], q[k].sobre) => l = k
GiroVisto(q, m, v, s, j) ==
  \A i \in DOMAIN v.filas :
    /\ i \in Presentes(s)
    /\ \/ Tapada(q, j)
       \/ /\ \A k \in j..m : ~Gira(q[k], i)
          /\ v.filas[i].activa = s[i].activa
       \/ /\ \E k \in j..m : Gira(q[k], i)
          /\ v.filas[i].activa = ~s[i].activa
GiroFalta(q, m, s) ==
  \A k \in (m + 1)..Len(q) :
    q[k].local = "voltea" => Tapada(q, k) \/ s[q[k].sobre].activa = ~q[k].vale
Giros(q, m, w, s) ==
  GirosSolos(q, s) /\ (\A j \in 1..(m + 1) : GiroVisto(q, m, w[j], s, j)) /\ GiroFalta(q, m, s)

Pendientes(q, f) ==
  \A k \in 1..Len(q) : /\ PendeLista(q[k]) => q[k].q = f /\ f # Nadie
                       /\ Pega(q[k]) => q[k].q = f
AltasSiguen(q) ==
  \A k \in 1..Len(q) : q[k].op = "alta" /\ q[k].luego = <<>> /\ q[k].ida =>
    \E j \in 1..Len(q) : j > k /\ q[j].op = "lista" /\ q[j].ida

Fiel(p, q, m, w, s, f, ms) ==
  /\ Cadena(q, m, w) /\ (Firmes(q) \/ Encaja(p, w[m + 1], s, f, Marcables(p, q, ms)))
  /\ p \in Tres => Giros(q, m, w, s)
  /\ Pendientes(q, f) /\ AltasSiguen(q)

\* The filter and the copy of the pages that may have neither.
FiltroInv ==
  /\ pagina \notin SinLista \cup {"stock"} => filtro # Nadie
  /\ pagina \in Sueltas => filtro = Nadie /\ lista.de = Nadie /\ DOMAIN lista.filas = {}
  /\ Sereno /\ pagina = "stock" /\ filtro = Nadie =>
       vuelo = <<>> /\ dialogo = Cerrado /\ DOMAIN lista.filas = {}

ListaInv ==
  /\ FiltroInv
  /\ Sereno => \E m \in 0..Len(vuelo) :
       /\ Orden(vuelo, m)
       /\ pagina \notin Sueltas => \E w : w[1] = lista /\ Fiel(pagina, vuelo, m, w, srv, filtro, marcas)

\* What the server makes of a row.
LEMMA CambiaDa ==
  ASSUME srv \in [Filas -> Registros], NEW p, NEW c, Forma(p, c), NEW s, s = Efecto(c), NEW i \in Filas
  PROVE  /\ s[i] \in Registros
         /\ c.op \in Lecturas \cup {"sub"} => s = srv
         /\ c.op = "alta" => (srv[i].existe => s[i] = srv[i])
         /\ c.op # "borrar" => (srv[i].existe => s[i].existe)
         /\ c.op \in {"guardar", "estado"} =>
              /\ s[i].existe = srv[i].existe
              /\ s[i].activa = IF c.op = "estado" /\ i = c.sobre /\ srv[i].existe THEN c.vale
                               ELSE srv[i].activa
              /\ s[i].n = IF c.op = "guardar" /\ i = c.sobre /\ srv[i].existe THEN Contada(c, srv[i].n)
                          ELSE srv[i].n
         /\ c.op = "borrar" => /\ s[i].existe <=> (srv[i].existe /\ i # c.sobre)
                               /\ i # c.sobre => s[i] = srv[i]
<1>1. /\ c \in Llamadas /\ s \in [Filas -> Registros] /\ c.op \in Operaciones /\ srv[i] \in Registros
      /\ c.op = "alta" => c.sobre = Nadie
  BY EfectoDa DEF Forma, Llamadas
<1>2. CASE c.op \in Lecturas \cup {"sub"}
  <2>1. s = srv
    BY <1>1, <1>2, EfectoDa
  <2> QED
    BY <1>1, <1>2, <2>1 DEF Lecturas
<1>3. CASE c.op = "alta"
  <2>1. c.op \notin Lecturas \cup {"sub"}
    BY <1>3 DEF Lecturas
  <2>2. PICK j : j = Destino(c)
    OBVIOUS
  <2>3. j \notin Filas \/ ~srv[j].existe
    <3>1. CASE Presentes(srv) # Filas
      <4>1. \E x \in Filas : ~srv[x].existe
        BY <3>1 DEF Presentes
      <4>2. j = CHOOSE x \in Filas : ~srv[x].existe
        BY <1>3, <2>2, <3>1 DEF Destino
      <4> QED
        BY <4>1, <4>2
    <3>2. CASE Presentes(srv) = Filas
      <4>1. j = c.sobre
        BY <2>2, <3>2, Zenon DEF Destino
      <4>2. Nadie \notin Filas
        BY PaginasAssumption
      <4> QED
        BY <1>1, <1>3, <4>1, <4>2
    <3> QED
      BY <3>1, <3>2
  <2>4. s = IF j \notin Filas THEN srv ELSE [srv EXCEPT ![j] = Nueva]
    BY <1>3, <2>1, <2>2 DEF Efecto, Escrita
  <2>5. srv[i].existe => s[i] = srv[i]
    BY <2>3, <2>4
  <2> QED
    BY <1>1, <1>3, <2>1, <2>5
<1>4. CASE c.op \in {"guardar", "estado", "borrar"}
  <2>1. c.op \notin Lecturas \cup {"sub"} /\ c.op # "alta"
    BY <1>4 DEF Lecturas
  <2>2. PICK g : g = Escrita(c, srv[i])
    OBVIOUS
  <2>3. /\ g \in Registros
        /\ c.op = "guardar" => g.existe = srv[i].existe /\ g.activa = srv[i].activa /\ g.n = Contada(c, srv[i].n)
        /\ c.op = "estado" => g.existe = srv[i].existe /\ g.activa = c.vale /\ g.n = srv[i].n
        /\ c.op = "borrar" => g = No
    BY <1>1, <1>4, <2>2, EscritaDa
  <2>4. CASE i = c.sobre /\ srv[i].existe
    <3>1. s = [srv EXCEPT ![i] = g]
      BY <1>1, <1>4, <2>2, <2>4, EfectoDa
    <3>2. s[i] = g
      BY <3>1
    <3>3. ~No.existe
      BY VistaDa
    <3> QED
      BY <1>1, <1>4, <2>1, <2>3, <2>4, <3>2, <3>3 DEF Registros
  <2>5. CASE ~(i = c.sobre /\ srv[i].existe)
    <3>1. s[i] = srv[i]
      BY <1>1, <1>4, <2>1, <2>5, EfectoDa
    <3> QED
      BY <1>1, <1>4, <2>1, <2>5, <3>1
  <2> QED
    BY <2>4, <2>5
<1> QED
  BY <1>1, <1>2, <1>3, <1>4 DEF Operaciones, Escrituras

\* The answer of a call is applied to a copy that matched before it.
LEMMA EncajaAtiende ==
  ASSUME srv \in [Filas -> Registros], pagina \notin Sueltas, NEW l \in Copias, NEW f, NEW A, NEW B,
         Encaja(pagina, l, srv, f, A), A \subseteq B,
         NEW c, Forma(pagina, c), NEW s, s = Efecto(c), NEW e, Forma(pagina, e), ~e.ida,
         e.op = c.op, e.sobre = c.sobre, e.luego = c.luego, e.local = c.local,
         e.op # "lista", e.res = (IF e.sobre \in Filas THEN Vista(s[e.sobre], Completo) ELSE NoVista),
         ~Parche(c), Pega(c) => c.q = f,
         ~(c.op = "alta" /\ c.luego = <<>>), Contains(c.luego, "lista") => ~Escritura(c),
         c.local = "marca" => c.sobre \in B,
         c.local = "voltea" => c.sobre \in Presentes(srv) /\ srv[c.sobre].activa = ~c.vale,
         NEW x, x = Aplicada(l, e)
  PROVE  Encaja(pagina, x, s, f, B)
<1>1. /\ c \in Llamadas /\ c.op \in Operaciones /\ c.local \in Locales /\ c.vale \in BOOLEAN
      /\ x \in Copias /\ Traza(l, e, x) /\ s \in [Filas -> Registros]
  <2>1. c \in Llamadas
    BY DEF Forma
  <2> QED
    BY <2>1, AplicadaDa, EfectoDa DEF Llamadas
<1>2. /\ l.de = f /\ DOMAIN l.filas = IF f = Nadie THEN {} ELSE Vistos(pagina, srv, f)
      /\ \A i \in DOMAIN l.filas : /\ i \in Filas /\ srv[i].existe /\ l.filas[i].n = Cifra(srv[i], f)
                                   /\ l.filas[i].activa = srv[i].activa \/ i \in B
      /\ f \in Filtros \cup {Nadie}
  BY DEF Encaja, Presentes, Vistos, Copias
<1>3. x.de = f
  BY <1>1, <1>2 DEF Traza
<1>4. CASE c.op \in Lecturas \cup {"sub"}
  <2>1. s = srv
    BY <1>4, CambiaDa, EfectoDa, <1>1
  <2>2. c.local \notin {"voltea", "stock", "estado", "quita"}
    BY <1>4 DEF Forma, Lecturas
  <2>3. x = l
    BY <1>1, <2>2 DEF Traza
  <2> QED
    BY <1>2, <2>1, <2>3 DEF Encaja
<1>5. CASE c.op = "alta"
  <2>1. Escritura(c) /\ c.op \in Escrituras \ {"sub"}
    BY <1>5 DEF Escritura, Lecturas, Escrituras
  <2>2. c.local # Vacio
    BY <1>5, <2>1 DEF Forma
  <2>3. FALSE
    BY <1>1, <1>5, <2>2 DEF Forma, Locales, Sueltas
  <2> QED
    BY <2>3
<1>6. CASE c.op \in {"guardar", "estado"}
  <2>1. c.local \in {"stock", "voltea", "estado", "marca"} /\ (c.local = "stock" <=> c.op = "guardar")
    <3>1. Escritura(c)
      BY <1>6 DEF Escritura, Lecturas
    <3>2. c.local # Vacio
      BY <1>6, <3>1 DEF Forma, Escrituras
    <3>3. c.local # "todas"
      <4>1. Contains(<<"lista">>, "lista")
        BY DEF Contains
      <4> QED
        BY <3>1, <4>1 DEF Forma
    <3> QED
      BY <1>1, <1>6, <3>2, <3>3 DEF Forma, Locales, Sueltas
  <2>2. \A i \in Filas :
          /\ s[i].existe = srv[i].existe
          /\ s[i].activa = IF c.op = "estado" /\ i = c.sobre /\ srv[i].existe THEN c.vale ELSE srv[i].activa
          /\ s[i].n = IF c.op = "guardar" /\ i = c.sobre /\ srv[i].existe THEN Contada(c, srv[i].n)
                     ELSE srv[i].n
    BY <1>6, CambiaDa
  <2>3. Vistos(pagina, s, f) = Vistos(pagina, srv, f)
    <3>1. ~(pagina \in PorEstado /\ Parcial(f))
      <4>1. c.local = "marca" => pagina \notin PorEstado
        BY DEF Forma, PorEstado
      <4> QED
        BY <2>1, <4>1 DEF Parche, Pega
    <3> QED
      BY <2>2, <3>1 DEF Presentes, Vistos
  <2>4. DOMAIN x.filas = DOMAIN l.filas
    BY <1>1, <2>1 DEF Traza
  <2>5. ASSUME NEW i \in DOMAIN x.filas, i # c.sobre
        PROVE  s[i].existe /\ x.filas[i].n = Cifra(s[i], f) /\ (x.filas[i].activa = s[i].activa \/ i \in B)
    <3>1. x.filas[i] = l.filas[i]
      BY <1>1, <2>5 DEF Traza
    <3>2. Cifra(s[i], f) = Cifra(srv[i], f)
      BY <1>2, <2>2, <2>4, <2>5 DEF Cifra
    <3> QED
      BY <1>2, <2>2, <2>4, <2>5, <3>1, <3>2
  <2>6. ASSUME c.sobre \in DOMAIN x.filas, NEW i, i = c.sobre
        PROVE  s[i].existe /\ x.filas[i].n = Cifra(s[i], f) /\ (x.filas[i].activa = s[i].activa \/ i \in B)
    <3>1. /\ i \in Filas /\ srv[i].existe /\ s[i].existe /\ e.res.existe /\ e.res.activa = s[i].activa
          /\ e.res.n = Cifra(s[i], Completo) /\ i \in DOMAIN l.filas
      <4>1. i \in Filas /\ srv[i].existe /\ s[i].existe /\ i \in DOMAIN l.filas
        BY <1>2, <2>2, <2>4, <2>6
      <4>2. e.res = Vista(s[i], Completo) /\ s[i] \in Registros /\ Completo \in Filtros
        BY <1>1, <2>6, <4>1, VistaDa
      <4> QED
        BY <4>1, <4>2, VistaDa
    <3>2. /\ x.filas[i].activa = IF c.local = "voltea" THEN ~l.filas[i].activa
                                 ELSE IF c.local = "estado" /\ e.res.existe THEN e.res.activa
                                 ELSE l.filas[i].activa
          /\ x.filas[i].n = IF c.local = "stock" /\ e.res.existe THEN e.res.n ELSE l.filas[i].n
      BY <1>1, <2>6 DEF Traza
    <3>3. l.filas[i].activa = srv[i].activa \/ i \in B
      BY <1>2, <3>1
    <3>4. x.filas[i].n = Cifra(s[i], f)
      <4>1. CASE c.local = "stock"
        <5>1. ~Parcial(f)
          BY <4>1 DEF Parche, Pega
        <5>2. Cifra(s[i], f) = Cifra(s[i], Completo)
          BY <5>1, VistaDa DEF Cifra
        <5> QED
          BY <3>1, <3>2, <4>1, <5>2
      <4>2. CASE c.local # "stock"
        <5>1. s[i].n = srv[i].n
          BY <2>1, <2>2, <3>1, <4>2
        <5> QED
          BY <1>2, <3>1, <3>2, <4>2, <5>1 DEF Cifra
      <4> QED
        BY <4>1, <4>2
    <3>5. x.filas[i].activa = s[i].activa \/ i \in B
      <4>1. CASE c.local = "stock"
        BY <2>1, <2>2, <3>1, <3>2, <3>3, <4>1
      <4>2. CASE c.local = "estado"
        BY <3>1, <3>2, <4>2
      <4>3. CASE c.local = "marca"
        BY <2>6, <4>3
      <4>4. CASE c.local = "voltea"
        <5>1. x.filas[i].activa = ~l.filas[i].activa
          BY <3>2, <4>4
        <5>2. s[i].activa = c.vale /\ srv[i].activa = ~c.vale
          BY <1>6, <2>1, <2>2, <2>6, <3>1, <4>4
        <5> QED
          BY <1>1, <3>3, <5>1, <5>2
      <4> QED
        BY <2>1, <4>1, <4>2, <4>3, <4>4
    <3> QED
      BY <3>1, <3>4, <3>5
  <2> QED
    BY <1>2, <1>3, <2>3, <2>4, <2>5, <2>6 DEF Encaja
<1>7. CASE c.op = "borrar"
  <2>1. c.local = "quita"
    <3>1. Escritura(c) /\ c.local # Vacio
      BY <1>7 DEF Forma, Escrituras, Escritura, Lecturas
    <3> QED
      BY <1>1, <1>7, <3>1 DEF Forma, Locales, Sueltas
  <2>2. \A i \in Filas : /\ s[i].existe <=> (srv[i].existe /\ i # c.sobre)
                         /\ i # c.sobre => s[i] = srv[i]
    BY <1>7, CambiaDa
  <2>3. Vistos(pagina, s, f) = Vistos(pagina, srv, f) \ {c.sobre}
    BY <2>2 DEF Presentes, Vistos
  <2>4. /\ DOMAIN x.filas = DOMAIN l.filas \ {c.sobre}
        /\ \A i \in DOMAIN x.filas : x.filas[i] = l.filas[i]
    BY <1>1, <2>1 DEF Traza
  <2> QED
    BY <1>2, <1>3, <2>2, <2>3, <2>4 DEF Encaja
<1> QED
  BY <1>1, <1>4, <1>5, <1>6, <1>7 DEF Operaciones, Escrituras

\* On the pages with switches a call changes the state of a row by a switch only,
\* or by the bulk deletion.
LEMMA GiroCambia ==
  ASSUME srv \in [Filas -> Registros], pagina \in Tres, NEW c, Forma(pagina, c), NEW s, s = Efecto(c),
         NEW i \in Presentes(srv)
  PROVE  /\ i \in Presentes(s)
         /\ \/ c.local = "todas"
            \/ Gira(c, i) /\ s[i].activa = c.vale
            \/ ~Gira(c, i) /\ s[i].activa = srv[i].activa
<1>1. /\ i \in Filas /\ srv[i].existe /\ c.op \in Operaciones
      /\ c.op # "borrar" /\ (c.op = "estado" => c.local \in {"voltea", "todas"})
      /\ c.local = "voltea" => c.op = "estado"
  BY DEF Presentes, Forma, Llamadas
<1>2. s[i].existe
  BY <1>1, CambiaDa
<1>3. CASE c.op \in Lecturas \cup {"sub"}
  <2>1. s = srv
    BY <1>1, <1>3, CambiaDa
  <2>2. c.op # "estado"
    BY <1>3 DEF Lecturas
  <2> QED
    BY <1>1, <1>2, <2>1, <2>2 DEF Presentes, Gira
<1>4. CASE c.op = "alta"
  <2>1. s[i] = srv[i]
    BY <1>1, <1>4, CambiaDa
  <2> QED
    BY <1>1, <1>2, <1>4, <2>1 DEF Presentes, Gira
<1>5. CASE c.op \in {"guardar", "estado"}
  <2>1. s[i].activa = IF c.op = "estado" /\ i = c.sobre /\ srv[i].existe THEN c.vale ELSE srv[i].activa
    BY <1>1, <1>5, CambiaDa
  <2> QED
    BY <1>1, <1>2, <1>5, <2>1 DEF Presentes, Gira
<1> QED
  BY <1>1, <1>3, <1>4, <1>5 DEF Operaciones, Escrituras

\* r is q with its call k, c, attended: e.
Atendida(p, q, k, c, e, r) ==
  /\ k \in 1..Len(q) /\ Len(q) \in Nat /\ c = q[k] /\ Forma(p, c) /\ c.ida /\ Forma(p, e) /\ ~e.ida
  /\ e.op = c.op /\ e.sobre = c.sobre /\ e.q = c.q /\ e.luego = c.luego
  /\ e.local = c.local /\ e.cierra = c.cierra /\ e.vale = c.vale
  /\ Len(r) = Len(q) /\ r[k] = e /\ \A j \in 1..Len(q) \ {k} : r[j] = q[j]

\* The copy x, what the answer e of the call c will leave, after those of w.
Alarga(m, w, c, e, x, u, s) ==
  /\ m \in Nat /\ w \in [1..(m + 1) -> Copias] /\ x = Aplicada(w[m + 1], e)
  /\ (\A j \in 1..(m + 1) : u[j] = w[j]) /\ u[m + 2] = x /\ s = Efecto(c)
  /\ e.op = "lista" => e.res = Listadas(srv, e.q)

LEMMA GirosAtiende ==
  ASSUME srv \in [Filas -> Registros], pagina \in Tres, NEW q, NEW m, NEW w, Giros(q, m, w, srv),
         NEW c, NEW e, NEW r, Atendida(pagina, q, m + 1, c, e, r),
         NEW s, NEW x, NEW u, Alarga(m, w, c, e, x, u, s)
  PROVE  Giros(r, m + 1, u, s)
<1>13. /\ m + 1 \in 1..Len(q) /\ Len(q) \in Nat /\ c = q[m + 1] /\ Forma(pagina, c)
       /\ Forma(pagina, e) /\ ~e.ida /\ e.op = c.op /\ e.sobre = c.sobre
       /\ e.local = c.local /\ e.cierra = c.cierra /\ e.vale = c.vale
       /\ Len(r) = Len(q) /\ r[m + 1] = e /\ \A j \in 1..Len(q) \ {m + 1} : r[j] = q[j]
  BY DEF Atendida
<1>14. /\ m \in Nat /\ w \in [1..(m + 1) -> Copias] /\ x = Aplicada(w[m + 1], e)
       /\ (\A j \in 1..(m + 1) : u[j] = w[j]) /\ u[m + 2] = x /\ s = Efecto(c)
       /\ e.op = "lista" => e.res = Listadas(srv, e.q)
  BY DEF Alarga
<1> USE <1>13, <1>14
<1>1. \A j \in 1..Len(q) : /\ r[j].local = q[j].local /\ r[j].sobre = q[j].sobre
                           /\ r[j].cierra = q[j].cierra /\ r[j].vale = q[j].vale
  OBVIOUS
<1>2. \A j : Tapada(r, j) <=> Tapada(q, j)
  BY <1>1 DEF Tapada
<1>3. \A j \in 1..Len(q) : \A i : Gira(r[j], i) <=> Gira(q[j], i)
  BY <1>1 DEF Gira
<1>4. GirosSolos(q, srv) /\ GiroFalta(q, m, srv) /\ \A j \in 1..(m + 1) : GiroVisto(q, m, w[j], srv, j)
  BY DEF Giros
<1>5. \A i \in Presentes(srv) : /\ i \in Presentes(s)
                                /\ \/ c.local = "todas"
                                   \/ Gira(c, i) /\ s[i].activa = c.vale
                                   \/ ~Gira(c, i) /\ s[i].activa = srv[i].activa
  BY GiroCambia
<1>6. c.local = "todas" => \A j : Tapada(q, j)
  BY DEF Tapada
<1>7. ASSUME NEW i, Gira(c, i)
      PROVE  /\ \A l \in 1..Len(q) : Gira(q[l], i) => l = m + 1
             /\ Tapada(q, m + 1) \/ srv[i].activa = ~c.vale
  <2>1. c = q[m + 1] /\ c.local = "voltea" /\ c.sobre = i /\ m + 1 \in 1..Len(q) /\ m + 1 \in (m + 1)..Len(q)
    BY <1>7 DEF Gira
  <2>2. \A l \in 1..Len(q) : Gira(q[l], i) => l = m + 1
    BY <1>4, <2>1 DEF GirosSolos
  <2>3. Tapada(q, m + 1) \/ srv[i].activa = ~c.vale
    BY <1>4, <2>1 DEF GiroFalta
  <2> QED
    BY <2>2, <2>3
<1>8. GirosSolos(r, s)
  <2>1. ASSUME NEW k \in 1..Len(r), r[k].local = "voltea"
        PROVE  r[k].sobre \in Presentes(s) /\ \A l \in 1..Len(r) : Gira(r[l], r[k].sobre) => l = k
    <3>1. k \in 1..Len(q) /\ q[k].local = "voltea" /\ r[k].sobre = q[k].sobre /\ Len(r) = Len(q)
      BY <1>1, <2>1
    <3>2. q[k].sobre \in Presentes(srv) /\ \A l \in 1..Len(q) : Gira(q[l], q[k].sobre) => l = k
      BY <1>4, <3>1 DEF GirosSolos
    <3>3. q[k].sobre \in Presentes(s)
      BY <1>5, <3>2
    <3> QED
      BY <1>3, <3>1, <3>2, <3>3
  <2> QED
    BY <2>1 DEF GirosSolos
<1>9. ASSUME NEW j \in 1..(m + 1) PROVE GiroVisto(r, m + 1, u[j], s, j)
  <2>1. GiroVisto(q, m, w[j], srv, j) /\ u[j] = w[j]
    BY <1>4
  <2>2. ASSUME NEW i \in DOMAIN w[j].filas, ~Tapada(q, j)
        PROVE  /\ i \in Presentes(s)
               /\ \/ (\A k \in j..(m + 1) : ~Gira(r[k], i)) /\ w[j].filas[i].activa = s[i].activa
                  \/ (\E k \in j..(m + 1) : Gira(r[k], i)) /\ w[j].filas[i].activa = ~s[i].activa
    <3>1. /\ i \in Presentes(srv)
          /\ \/ (\A k \in j..m : ~Gira(q[k], i)) /\ w[j].filas[i].activa = srv[i].activa
             \/ (\E k \in j..m : Gira(q[k], i)) /\ w[j].filas[i].activa = ~srv[i].activa
      BY <2>1, <2>2 DEF GiroVisto
    <3>2. ~Tapada(q, m + 1)
      BY <2>2 DEF Tapada
    <3>3. j..(m + 1) = (j..m) \cup {m + 1} /\ \A k \in j..(m + 1) : k \in 1..Len(q)
      OBVIOUS
    <3>4. CASE Gira(c, i)
      <4>1. srv[i].activa = ~c.vale /\ s[i].activa = c.vale
        BY <1>5, <1>6, <1>7, <2>2, <3>1, <3>2, <3>4
      <4>2. \A k \in j..m : ~Gira(q[k], i)
        BY <1>7, <3>3, <3>4
      <4>3. Gira(r[m + 1], i)
        BY <1>3, <3>4
      <4> QED
        BY <1>5, <3>1, <3>3, <4>1, <4>2, <4>3
    <3>5. CASE ~Gira(c, i)
      <4>1. s[i].activa = srv[i].activa
        BY <1>5, <1>6, <2>2, <3>1, <3>5
      <4>2. ~Gira(r[m + 1], i)
        BY <1>3, <3>5
      <4> QED
        BY <1>3, <1>5, <3>1, <3>3, <4>1, <4>2
    <3> QED
      BY <3>4, <3>5
  <2>3. \A i \in DOMAIN w[j].filas : i \in Presentes(s)
    BY <1>5, <2>1 DEF GiroVisto
  <2> QED
    BY <1>2, <2>1, <2>2, <2>3 DEF GiroVisto
<1>10. GiroVisto(r, m + 1, x, s, m + 2)
  <2>1. PICK l \in Copias : l = w[m + 1] /\ GiroVisto(q, m, l, srv, m + 1)
    BY <1>4
  <2>2. \A k \in (m + 2)..(m + 1) : FALSE
    OBVIOUS
  <2>3. \A k \in (m + 1)..m : FALSE
    OBVIOUS
  <2>4. CASE e.op = "lista"
    <3>1. x = [de |-> e.q, filas |-> e.res]
      BY <2>1, <2>4, AplicadaDa
    <3>2. \A i \in DOMAIN x.filas : i \in Presentes(srv) /\ x.filas[i].activa = srv[i].activa
      <4>1. e.q \in Filtros \cup {Nadie}
        BY DEF Forma, Llamadas
      <4>2. \A i \in DOMAIN e.res : /\ i \in Presentes(srv) /\ srv[i] \in Registros
                                   /\ e.res[i] = Vista(srv[i], e.q)
        BY <2>4, <4>1, ListadasDa
      <4> QED
        BY <3>1, <4>1, <4>2, VistaDa
    <3>3. c.op = "lista" /\ c.local # "todas" /\ c.local # "voltea"
      BY <2>4 DEF Forma
    <3> QED
      BY <1>5, <2>2, <3>2, <3>3 DEF GiroVisto, Gira
  <2>5. CASE e.op # "lista"
    <3>1. Traza(l, e, x)
      BY <2>1, <2>5, AplicadaDa
    <3>2. e.local # "estado"
      BY DEF Forma
    <3>3. ASSUME NEW i \in DOMAIN x.filas
          PROVE  /\ i \in DOMAIN l.filas
                 /\ x.filas[i].activa = IF Gira(c, i) THEN ~l.filas[i].activa ELSE l.filas[i].activa
      <4>1. i \in DOMAIN l.filas
        BY <3>1 DEF Traza
      <4>2. CASE i = e.sobre
        BY <3>1, <3>2, <3>3, <4>1, <4>2 DEF Traza, Gira
      <4>3. CASE i # e.sobre
        BY <3>1, <3>3, <4>1, <4>3 DEF Traza, Gira
      <4> QED
        BY <4>1, <4>2, <4>3
    <3>4. c.cierra # "lote"
      BY <2>5 DEF Forma
    <3>5. Tapada(q, m + 1) => Tapada(q, m + 2)
      BY <3>4 DEF Tapada
    <3>6. ASSUME NEW i \in DOMAIN x.filas, ~Tapada(q, m + 2)
          PROVE  x.filas[i].activa = s[i].activa
      <4>1. ~Tapada(q, m + 1)
        BY <3>5, <3>6
      <4>2. i \in Presentes(srv) /\ l.filas[i].activa = srv[i].activa
        BY <2>1, <2>3, <3>3, <3>6, <4>1 DEF GiroVisto
      <4>3. CASE Gira(c, i)
        <5>1. srv[i].activa = ~c.vale /\ s[i].activa = c.vale
          BY <1>5, <1>6, <1>7, <4>1, <4>2, <4>3
        <5>2. c.vale \in BOOLEAN
          BY DEF Forma, Llamadas
        <5> QED
          BY <3>3, <3>6, <4>2, <4>3, <5>1, <5>2
      <4>4. CASE ~Gira(c, i)
        BY <1>5, <1>6, <3>3, <3>6, <4>1, <4>2, <4>4
      <4> QED
        BY <4>3, <4>4
    <3>7. \A i \in DOMAIN x.filas : i \in Presentes(s)
      BY <1>5, <2>1, <3>3 DEF GiroVisto
    <3> QED
      BY <1>2, <2>2, <3>6, <3>7 DEF GiroVisto
  <2> QED
    BY <2>4, <2>5
<1>11. GiroFalta(r, m + 1, s)
  <2>1. ASSUME NEW k \in (m + 2)..Len(r), r[k].local = "voltea"
        PROVE  Tapada(r, k) \/ s[r[k].sobre].activa = ~r[k].vale
    <3>1. k \in 1..Len(q) /\ k # m + 1 /\ k \in (m + 1)..Len(q) /\ q[k].local = "voltea"
      BY <1>1, <2>1
    <3>2. PICK i : i = q[k].sobre
      OBVIOUS
    <3>3. i \in Presentes(srv) /\ (Tapada(q, k) \/ srv[i].activa = ~q[k].vale)
      BY <1>4, <3>1, <3>2 DEF GirosSolos, GiroFalta
    <3>4. ~Gira(c, i)
      BY <1>7, <3>1, <3>2 DEF Gira
    <3>5. c.local = "todas" \/ s[i].activa = srv[i].activa
      BY <1>5, <3>3, <3>4
    <3> QED
      BY <1>1, <1>2, <1>6, <3>1, <3>2, <3>3, <3>5
  <2>2. (m + 1) + 1 = m + 2
    OBVIOUS
  <2> QED
    BY <2>1, <2>2 DEF GiroFalta
<1>12. \A j \in 1..((m + 1) + 1) : j \in 1..(m + 1) \/ j = m + 2
  OBVIOUS
<1> QED
  BY <1>8, <1>9, <1>10, <1>11, <1>12 DEF Giros

\* A call is attended: it is the first that was not.
LEMMA OrdenAtiende ==
  ASSUME NEW q \in Seq(Llamadas), NEW m, Orden(q, m), NEW k \in 1..Len(q), q[k].ida,
         \A j \in 1..(k - 1) : ~q[j].ida,
         NEW e \in Llamadas, ~e.ida, NEW r, r = [q EXCEPT ![k] = e]
  PROVE  k = m + 1 /\ Orden(r, m + 1)
<1>1. m \in Nat /\ m <= Len(q) /\ Len(q) \in Nat /\ \A j \in 1..Len(q) : q[j].ida <=> j > m
  BY DEF Orden
<1>2. k > m
  BY <1>1
<1>3. k = m + 1
  <2>1. CASE k > m + 1
    <3>1. m + 1 \in 1..(k - 1) /\ m + 1 \in 1..Len(q) /\ m + 1 > m
      BY <1>1, <2>1
    <3> QED
      BY <1>1, <3>1
  <2> QED
    BY <1>1, <1>2, <2>1
<1>4. Len(r) = Len(q) /\ r[k] = e /\ \A j \in 1..Len(q) \ {k} : r[j] = q[j]
  OBVIOUS
<1>5. \A j \in 1..Len(q) : r[j].ida <=> j > m + 1
  BY <1>1, <1>3, <1>4
<1> QED
  BY <1>1, <1>3, <1>4, <1>5 DEF Orden

LEMMA PendeDa ==
  ASSUME NEW p, NEW c, Forma(p, c)
  PROVE  /\ c.op = "lista" => ~Contains(c.luego, "lista")
         /\ c.luego = <<>> => ~Contains(c.luego, "lista")
         /\ c.local = "todas" => Contains(c.luego, "lista")
         /\ c.local \in {"voltea", "stock", "estado", "quita"} => ~Contains(c.luego, "lista") /\ c.op # "lista"
<1>1. ~Contains(<<>>, "lista") /\ Contains(<<"lista">>, "lista")
  BY DEF Contains
<1> QED
  BY <1>1 DEF Forma

LEMMA FirmesAtiende ==
  ASSUME NEW p, NEW q, NEW k, NEW c, NEW e, NEW r, Atendida(p, q, k, c, e, r), c.op # "lista"
  PROVE  Firmes(q) \/ Contains(c.luego, "lista") => Firmes(r)
<1> USE DEF Atendida
<1>1. ASSUME Firmes(q) PROVE Firmes(r) \/ Contains(c.luego, "lista")
  <2>1. PICK j \in 1..Len(q) : Firme(q[j])
    BY <1>1 DEF Firmes
  <2>2. CASE j = k
    BY <2>1, <2>2 DEF Firme
  <2>3. CASE j # k
    BY <2>1, <2>3 DEF Firmes
  <2> QED
    BY <2>2, <2>3
<1>2. ASSUME Contains(c.luego, "lista") PROVE Firmes(r)
  <2>1. Firme(e)
    BY <1>2 DEF Firme
  <2> QED
    BY <2>1 DEF Firmes
<1> QED
  BY <1>1, <1>2

LEMMA MarcablesAtiende ==
  ASSUME NEW p, NEW ms, NEW q, NEW k, NEW c, NEW e, NEW r, Atendida(p, q, k, c, e, r)
  PROVE  /\ Marcables(p, q, ms) \subseteq Marcables(p, r, ms)
         /\ c.local = "marca" => c.sobre \in Marcables(p, r, ms)
<1>1. c.local = "marca" => c.sobre \in Filas /\ p \in {"facturacion", "cierre"}
  BY DEF Forma, Atendida
<1> QED
  BY <1>1 DEF Marcables, Atendida

\* The copy that the answers in flight will leave is the server's after one more call.
LEMMA FielAtiende ==
  ASSUME BaseInv, pagina \notin Sueltas, NEW m, Orden(vuelo, m), NEW w, w[1] = lista,
         Fiel(pagina, vuelo, m, w, srv, filtro, marcas), NEW k \in 1..Len(vuelo), Atiende(k), Sereno'
  PROVE  \E n, u : Orden(vuelo', n) /\ u[1] = lista /\ Fiel(pagina, vuelo', n, u, srv', filtro, marcas)
<1>1. PICK e : /\ vuelo' = [vuelo EXCEPT ![k] = e] /\ ~e.ida /\ Forma(pagina, e)
               /\ e.op = vuelo[k].op /\ e.sobre = vuelo[k].sobre /\ e.q = vuelo[k].q
               /\ e.luego = vuelo[k].luego /\ e.local = vuelo[k].local
               /\ e.cierra = vuelo[k].cierra /\ e.vale = vuelo[k].vale
               /\ e.res = IF e.op = "lista" THEN Listadas(srv, e.q)
                          ELSE IF e.sobre \in Filas THEN Vista(srv'[e.sobre], Completo) ELSE NoVista
  BY AtendidaDa
<1>2. PICK q, c, r, s : q = vuelo /\ c = vuelo[k] /\ r = vuelo' /\ s = srv'
  OBVIOUS
<1>3. /\ q \in Seq(Llamadas) /\ Forma(pagina, c) /\ c.ida /\ s = Efecto(c) /\ e \in Llamadas
      /\ srv \in [Filas -> Registros] /\ \A j \in 1..(k - 1) : ~q[j].ida
  <2>1. /\ q \in Seq(Llamadas) /\ Forma(pagina, c) /\ c.ida /\ s = Efecto(c)
        /\ srv \in [Filas -> Registros]
    BY <1>2 DEF BaseInv, Atiende
  <2>2. e \in Llamadas
    BY <1>1 DEF Forma
  <2>3. \A j \in 1..(k - 1) : ~vuelo[j].ida
    BY SerenoAtiende
  <2> QED
    BY <1>2, <2>1, <2>2, <2>3
<1>18. /\ Forma(pagina, e) /\ ~e.ida /\ e.op = c.op /\ e.sobre = c.sobre /\ e.q = c.q /\ e.luego = c.luego
       /\ e.local = c.local /\ e.cierra = c.cierra /\ e.vale = c.vale
       /\ e.op = "lista" => e.res = Listadas(srv, e.q)
       /\ e.op # "lista" => e.res = (IF e.sobre \in Filas THEN Vista(s[e.sobre], Completo) ELSE NoVista)
  BY <1>1, <1>2
<1>19. c = q[k] /\ q = vuelo /\ r = [q EXCEPT ![k] = e] /\ k \in 1..Len(q)
  BY <1>1, <1>2
<1>4. k = m + 1 /\ Orden(r, m + 1) /\ m \in Nat
  <2>1. /\ Orden(q, m) /\ q[k].ida /\ q \in Seq(Llamadas) /\ k \in 1..Len(q) /\ e \in Llamadas /\ ~e.ida
        /\ r = [q EXCEPT ![k] = e] /\ \A j \in 1..(k - 1) : ~q[j].ida
    BY <1>3, <1>18, <1>19
  <2>2. k = m + 1 /\ Orden(r, m + 1)
    BY <2>1, OrdenAtiende
  <2> QED
    BY <2>1, <2>2 DEF Orden
<1>5. /\ Len(r) = Len(q) /\ r[k] = e /\ (\A j \in 1..Len(q) \ {k} : r[j] = q[j]) /\ Len(q) \in Nat
      /\ k \in 1..Len(q)
  BY <1>1, <1>2, <1>3
<1>6. /\ Cadena(q, m, w) /\ (Firmes(q) \/ Encaja(pagina, w[m + 1], srv, filtro, Marcables(pagina, q, marcas)))
      /\ pagina \in Tres => Giros(q, m, w, srv)
      /\ Pendientes(q, filtro) /\ AltasSiguen(q)
  BY <1>2 DEF Fiel
<1>20. Atendida(pagina, q, k, c, e, r)
  BY <1>3, <1>5, <1>18, <1>19 DEF Atendida
<1>7. PICK l \in Copias : l = w[m + 1]
  BY <1>4, <1>6 DEF Cadena
<1>8. PICK x \in Copias : x = Aplicada(l, e)
  BY <1>1, <1>7, AplicadaDa
<1>9. PICK u : u = [j \in 1..(m + 2) |-> IF j = m + 2 THEN x ELSE w[j]]
  OBVIOUS
<1>10. /\ u[m + 2] = x /\ \A j \in 1..(m + 1) : u[j] = w[j]
       /\ u \in [1..((m + 1) + 1) -> Copias] /\ w \in [1..(m + 1) -> Copias]
  BY <1>4, <1>6, <1>9 DEF Cadena
<1>11. Cadena(r, m + 1, u)
  <2>1. ASSUME NEW j \in 1..(m + 1) PROVE u[j + 1] = Aplicada(u[j], r[j])
    <3>1. CASE j \in 1..m
      BY <1>4, <1>5, <1>6, <1>10, <3>1 DEF Cadena
    <3>2. CASE j = m + 1
      BY <1>4, <1>5, <1>7, <1>8, <1>10, <3>2
    <3> QED
      BY <1>4, <3>1, <3>2
  <2> QED
    BY <1>10, <2>1 DEF Cadena
<1>12. pagina \in Tres => Giros(r, m + 1, u, s)
  <2>1. Alarga(m, w, c, e, x, u, s)
    BY <1>3, <1>4, <1>7, <1>8, <1>10, <1>18 DEF Alarga
  <2> QED
    BY <1>3, <1>4, <1>6, <1>20, <2>1, GirosAtiende
<1>13. Pendientes(r, filtro)
  BY <1>5, <1>6, <1>18, <1>19 DEF Pendientes, PendeLista, Pega
<1>14. AltasSiguen(r)
  <2>1. ASSUME NEW j \in 1..Len(q), r[j].op = "alta", r[j].luego = <<>>, r[j].ida
        PROVE  \E i \in 1..Len(q) : i > j /\ r[i].op = "lista" /\ r[i].ida
    <3>1. j # k /\ r[j] = q[j]
      BY <1>1, <1>5, <2>1
    <3>2. PICK i \in 1..Len(q) : i > j /\ q[i].op = "lista" /\ q[i].ida
      BY <1>6, <2>1, <3>1 DEF AltasSiguen
    <3>3. j > m /\ i # k
      BY <1>2, <1>3, <1>4, <2>1, <3>1, <3>2 DEF Orden
    <3> QED
      BY <1>5, <3>2, <3>3
  <2> QED
    BY <1>5, <2>1 DEF AltasSiguen
<1>15. Firmes(r) \/ Encaja(pagina, x, s, filtro, Marcables(pagina, r, marcas))
  <2>1. /\ Marcables(pagina, q, marcas) \subseteq Marcables(pagina, r, marcas)
        /\ c.local = "marca" => c.sobre \in Marcables(pagina, r, marcas)
    BY <1>20, MarcablesAtiende
  <2>2. CASE c.op = "lista"
    <3>1. s = srv
      <4>1. c \in Llamadas
        BY <1>3 DEF Forma
      <4> QED
        BY <1>3, <2>2, <4>1, EfectoDa DEF Lecturas
    <3>2. c.q = filtro /\ filtro # Nadie
      BY <1>2, <1>6, <2>2 DEF Pendientes, PendeLista
    <3>3. x = [de |-> filtro, filas |-> e.res] /\ e.res = Listadas(srv, filtro)
      BY <1>1, <1>2, <1>7, <1>8, <2>2, <3>2, AplicadaDa
    <3>4. /\ x.de = filtro /\ DOMAIN x.filas = Vistos(pagina, srv, filtro)
          /\ \A i \in DOMAIN x.filas : /\ i \in Presentes(srv) /\ x.filas[i].activa = srv[i].activa
                                       /\ x.filas[i].n = Cifra(srv[i], filtro)
      <4>1. filtro \in Filtros \cup {Nadie}
        BY DEF BaseInv
      <4>2. /\ DOMAIN e.res = Vistos(pagina, srv, filtro)
            /\ \A i \in DOMAIN e.res : /\ i \in Presentes(srv) /\ srv[i] \in Registros
                                       /\ e.res[i] = Vista(srv[i], filtro)
        BY <1>3, <3>3, <4>1, ListadasDa
      <4> QED
        BY <3>3, <4>1, <4>2, VistaDa
    <3> QED
      BY <3>1, <3>2, <3>4 DEF Encaja, Presentes
  <2>3. CASE c.op # "lista" /\ (Firmes(q) \/ Contains(c.luego, "lista"))
    BY <1>20, <2>3, FirmesAtiende
  <2>4. CASE c.op # "lista" /\ ~Firmes(q) /\ ~Contains(c.luego, "lista")
    <3>1. Encaja(pagina, l, srv, filtro, Marcables(pagina, q, marcas))
      BY <1>6, <1>7, <2>4
    <3>2. ~(c.op = "alta" /\ c.luego = <<>>)
      BY <1>2, <1>3, <1>6, <2>4 DEF AltasSiguen, Firmes, Firme
    <3>3. ~Tapada(q, m + 1)
      <4>1. \A j \in 1..Len(q) : q[j].local # "todas"
        <5>1. \A j \in 1..Len(q) : q[j].local = "todas" => Contains(q[j].luego, "lista")
          BY <1>2, PendeDa DEF BaseInv
        <5> QED
          BY <2>4, <5>1 DEF Firmes, Firme
      <4>2. \A j \in 1..Len(q) : j >= m + 1 => q[j].cierra # "lote"
        <5>1. \A j \in 1..Len(q) : q[j].cierra = "lote" => q[j].op = "lista"
          BY <1>2 DEF BaseInv, Forma
        <5>2. \A j \in 1..Len(q) : j >= m + 1 => q[j].ida
          BY <1>2, <1>4 DEF Orden
        <5> QED
          BY <2>4, <5>1, <5>2 DEF Firmes, Firme
      <4> QED
        BY <4>1, <4>2 DEF Tapada
    <3>4. c.local = "voltea" => c.sobre \in Presentes(srv) /\ srv[c.sobre].activa = ~c.vale
      <4>1. c.local = "voltea" => pagina \in Tres
        BY <1>3 DEF Forma
      <4> QED
        BY <1>2, <1>4, <1>5, <1>6, <3>3, <4>1 DEF Giros, GirosSolos, GiroFalta
    <3>5. ~Parche(c) /\ (Pega(c) => c.q = filtro)
      <4>1. ~Parche(c)
        BY <1>2, SerenoAtiende
      <4> QED
        BY <1>6, <1>19, <4>1 DEF Pendientes
    <3> QED
      BY <1>3, <1>8, <1>18, <2>1, <2>4, <3>1, <3>2, <3>4, <3>5, EncajaAtiende
  <2> QED
    BY <2>2, <2>3, <2>4
<1>16. Fiel(pagina, r, m + 1, u, s, filtro, marcas)
  <2>1. u[(m + 1) + 1] = x
    BY <1>4, <1>10
  <2> QED
    BY <1>11, <1>12, <1>13, <1>14, <1>15, <2>1 DEF Fiel
<1>17. u[1] = lista
  BY <1>4, <1>10
<1> QED
  BY <1>2, <1>4, <1>16, <1>17

\* r is q without its first call c, answered, whose chain goes on at the end.
Corre(p, q, c, r) ==
  /\ Len(q) \in Nat \ {0} /\ c = q[1] /\ Forma(p, c) /\ ~c.ida
  /\ \A j \in 1..(Len(q) - 1) : j \in 1..Len(r) /\ r[j] = q[j + 1]
  /\ \/ c.luego = <<>> /\ c.resto = {} /\ Len(r) = Len(q) - 1
     \/ Len(r) = Len(q) /\ Sigue(p, c, r[Len(q)])

LEMMA CorreDa ==
  ASSUME BaseInv, Vuelve(1), 1 \in 1..Len(vuelo)
  PROVE  Corre(pagina, vuelo, vuelo[1], vuelo')
<1>1. PICK c : c = vuelo[1]
  OBVIOUS
<1>2. Forma(pagina, c) /\ ~c.ida /\ Len(vuelo) \in Nat \ {0} /\ Continua(1, Proxima(c))
  BY <1>1 DEF BaseInv, Vuelve
<1>3. PICK D : /\ Tras(vuelo, 1, D, vuelo')
               /\ (D = {} /\ c.luego = <<>> /\ c.resto = {}) \/ \E d \in Llamadas : D = {d} /\ Sigue(pagina, c, d)
  <2>1. ASSUME Proxima(c) = <<>> PROVE c.luego = <<>> /\ c.resto = {}
    <3>1. \A d : <<>> # <<d>>
      OBVIOUS
    <3>2. (Proxima(c) = <<>> /\ c.luego = <<>> /\ c.resto = {}) \/ \E d : Proxima(c) = <<d>>
      BY <1>2, ProximaDa
    <3> QED
      BY <2>1, <3>1, <3>2
  <2> QED
    BY <1>1, <1>2, <2>1, ContinuaTras
<1>4. \A j \in 1..(Len(vuelo) - 1) : j \in 1..Len(vuelo') /\ vuelo'[j] = vuelo[j + 1]
  <2>1. \A i \in 1..Len(vuelo) \ {1} : Vuelta(1, i) \in 1..Len(vuelo') /\ vuelo'[Vuelta(1, i)] = vuelo[i]
    BY <1>3 DEF Tras
  <2>2. ASSUME NEW j \in 1..(Len(vuelo) - 1) PROVE j + 1 \in 1..Len(vuelo) \ {1} /\ Vuelta(1, j + 1) = j
    BY <1>2 DEF Vuelta
  <2> QED
    BY <2>1, <2>2
<1>5. \/ D = {} /\ Len(vuelo') = Len(vuelo) - 1
      \/ \E d \in Llamadas : D = {d} /\ Len(vuelo') = Len(vuelo) /\ vuelo'[Len(vuelo)] = d
  BY <1>3 DEF Tras
<1>6. CASE D = {}
  <2>1. \A d : D # {d}
    BY <1>6
  <2> QED
    BY <1>1, <1>2, <1>3, <1>4, <1>5, <2>1 DEF Corre
<1>7. CASE D # {}
  <2>1. PICK d \in Llamadas : D = {d} /\ Sigue(pagina, c, d)
    BY <1>3, <1>7
  <2>2. PICK e \in Llamadas : D = {e} /\ Len(vuelo') = Len(vuelo) /\ vuelo'[Len(vuelo)] = e
    BY <1>5, <1>7
  <2>3. d = e
    BY <2>1, <2>2
  <2> QED
    BY <1>1, <1>2, <1>4, <2>1, <2>2, <2>3 DEF Corre
<1> QED
  BY <1>6, <1>7

\* The call that follows in the chain.
LEMMA SigueFirme ==
  ASSUME NEW p, NEW c, Forma(p, c), NEW d, Sigue(p, c, d)
  PROVE  /\ d.ida /\ d.op # "alta" /\ d.local # "voltea" /\ d.local # "marca" /\ d.q = c.q /\ ~Pega(d)
         /\ Contains(c.luego, "lista") => Firme(d)
         /\ PendeLista(d) => PendeLista(c)
         /\ c.local = "todas" => d.local = "todas" \/ d.cierra = "lote"
<1>1. /\ d.ida /\ d.q = c.q
      /\ c.resto # {} => d.local = c.local /\ c.local = "todas"
      /\ c.resto = {} => d.local = Vacio /\ d.cierra = (IF c.local = "todas" THEN "lote" ELSE Vacio)
  BY DEF Sigue, Forma
<1>2. /\ c.resto # {} => d.op = "estado" /\ d.luego = c.luego
      /\ c.resto = {} => /\ d.op \in Lecturas
                         /\ \A x : Contains(c.luego, x) <=> d.op = x \/ Contains(d.luego, x)
      /\ \A x : Contains(d.luego, x) => Contains(c.luego, x)
  BY SiguienteDa
<1>3. Vacio \notin {"voltea", "stock", "estado"} /\ Vacio # "marca"
  BY VacioDa DEF Nombres
<1>4. d.op \in Lecturas => d.op # "alta" /\ ~Escritura(d)
  BY DEF Lecturas, Escritura
<1>5. CASE c.resto # {}
  BY <1>1, <1>2, <1>5 DEF Firme, PendeLista, Pega
<1>6. CASE c.resto = {}
  BY <1>1, <1>2, <1>3, <1>4, <1>6 DEF Firme, PendeLista, Pega
<1> QED
  BY <1>5, <1>6

LEMMA OrdenVuelve ==
  ASSUME NEW p, NEW q, NEW c, NEW r, Corre(p, q, c, r), NEW m, Orden(q, m)
  PROVE  m \in 1..Len(q) /\ Orden(r, m - 1)
<1>1. /\ Len(q) \in Nat \ {0} /\ c = q[1] /\ ~c.ida
      /\ \A j \in 1..(Len(q) - 1) : j \in 1..Len(r) /\ r[j] = q[j + 1]
      /\ Len(r) = Len(q) - 1 \/ (Len(r) = Len(q) /\ r[Len(q)].ida)
  BY SigueFirme DEF Corre
<1>2. m \in 0..Len(q) /\ \A j \in 1..Len(q) : q[j].ida <=> j > m
  BY DEF Orden
<1>3. m \in 1..Len(q)
  <2>1. 1 \in 1..Len(q)
    BY <1>1
  <2> QED
    BY <1>1, <1>2, <2>1
<1>4. \A j \in 1..(Len(q) - 1) : r[j].ida <=> j > m - 1
  BY <1>1, <1>2, <1>3
<1>5. \A j \in 1..Len(r) : j \in 1..(Len(q) - 1) \/ (j = Len(q) /\ Len(r) = Len(q))
  BY <1>1
<1> QED
  BY <1>1, <1>3, <1>4, <1>5 DEF Orden

LEMMA FirmesVuelve ==
  ASSUME NEW p, NEW q, NEW c, NEW r, Corre(p, q, c, r), Firmes(q)
  PROVE  Firmes(r)
<1>1. PICK k \in 1..Len(q) : Firme(q[k])
  BY DEF Firmes
<1>2. CASE k = 1
  <2>1. Contains(c.luego, "lista")
    BY <1>1, <1>2 DEF Corre, Firme
  <2>2. Len(r) = Len(q) /\ Sigue(p, c, r[Len(q)]) /\ Len(q) \in Nat \ {0} /\ Forma(p, c)
    BY <2>1, PendeDa DEF Corre
  <2>3. Firme(r[Len(q)]) /\ Len(q) \in 1..Len(r)
    BY <2>1, <2>2, SigueFirme
  <2> QED
    BY <2>3 DEF Firmes
<1>3. CASE k # 1
  <2>1. k - 1 \in 1..(Len(q) - 1) /\ (k - 1) + 1 = k
    BY <1>3 DEF Corre
  <2>2. r[k - 1] = q[k] /\ k - 1 \in 1..Len(r)
    BY <2>1 DEF Corre
  <2> QED
    BY <1>1, <2>2 DEF Firmes
<1> QED
  BY <1>2, <1>3

LEMMA TapadaVuelve ==
  ASSUME NEW p, NEW q, NEW c, NEW r, Corre(p, q, c, r), NEW j \in 1..Len(q), Tapada(q, j + 1)
  PROVE  Tapada(r, j)
<1>1. PICK k \in 1..Len(q) : q[k].local = "todas" \/ (k >= j + 1 /\ q[k].cierra = "lote")
  BY DEF Tapada
<1>2. CASE k = 1
  <2>1. c.local = "todas" /\ Forma(p, c) /\ Len(q) \in Nat \ {0}
    BY <1>1, <1>2 DEF Corre
  <2>2. Len(r) = Len(q) /\ Sigue(p, c, r[Len(q)])
    <3>1. c.luego # <<>>
      BY <2>1, PendeDa
    <3> QED
      BY <3>1 DEF Corre
  <2>3. r[Len(q)].local = "todas" \/ r[Len(q)].cierra = "lote"
    BY <2>1, <2>2, SigueFirme
  <2> QED
    BY <2>1, <2>2, <2>3 DEF Tapada
<1>3. CASE k # 1
  <2>1. k - 1 \in 1..(Len(q) - 1) /\ (k - 1) + 1 = k /\ Len(q) \in Nat
    BY <1>3 DEF Corre
  <2>2. r[k - 1] = q[k] /\ k - 1 \in 1..Len(r)
    BY <2>1 DEF Corre
  <2>3. k >= j + 1 => k - 1 >= j
    BY <2>1
  <2> QED
    BY <1>1, <2>2, <2>3 DEF Tapada
<1> QED
  BY <1>2, <1>3

LEMMA MarcablesVuelve ==
  ASSUME NEW p, NEW q, NEW c, NEW r, Corre(p, q, c, r), NEW ms, NEW mt,
         mt = IF c.local = "marca" THEN ms \cup {c.sobre} ELSE IF c.cierra = "lote" THEN {} ELSE ms
  PROVE  Marcables(p, q, ms) \subseteq Marcables(p, r, mt)
<1>1. /\ Len(q) \in Nat \ {0} /\ c = q[1] /\ (c.cierra = "lote" => p = "productos")
      /\ \A j \in 1..(Len(q) - 1) : j \in 1..Len(r) /\ r[j] = q[j + 1]
  BY DEF Corre, Forma
<1>2. ASSUME NEW i \in Filas, p \in {"facturacion", "cierre"},
             i \in ms \/ \E k \in 1..Len(q) : ~q[k].ida /\ q[k].local = "marca" /\ q[k].sobre = i
      PROVE  i \in mt \/ \E k \in 1..Len(r) : ~r[k].ida /\ r[k].local = "marca" /\ r[k].sobre = i
  <2>1. CASE i \in ms
    <3>1. c.cierra # "lote"
      BY <1>1, <1>2 DEF Corre, Forma
    <3> QED
      BY <2>1, <3>1
  <2>2. ASSUME NEW k \in 1..Len(q), ~q[k].ida, q[k].local = "marca", q[k].sobre = i
        PROVE  i \in mt \/ \E j \in 1..Len(r) : ~r[j].ida /\ r[j].local = "marca" /\ r[j].sobre = i
    <3>1. CASE k = 1
      BY <1>1, <2>2, <3>1
    <3>2. CASE k # 1
      <4>1. k - 1 \in 1..(Len(q) - 1) /\ (k - 1) + 1 = k
        BY <1>1, <3>2
      <4>2. r[k - 1] = q[k] /\ k - 1 \in 1..Len(r)
        BY <1>1, <4>1
      <4> QED
        BY <2>2, <4>2
    <3> QED
      BY <3>1, <3>2
  <2> QED
    BY <1>2, <2>1, <2>2
<1> QED
  BY <1>2 DEF Marcables

LEMMA GirosVuelve ==
  ASSUME NEW p, NEW q, NEW c, NEW r, Corre(p, q, c, r), NEW m \in 1..Len(q), NEW s,
         NEW w, NEW u, \A j \in 1..m : u[j] = w[j + 1], Giros(q, m, w, s)
  PROVE  Giros(r, m - 1, u, s)
<1>1. /\ Len(q) \in Nat \ {0} /\ m \in Nat
      /\ \A j \in 1..(Len(q) - 1) : j \in 1..Len(r) /\ r[j] = q[j + 1]
      /\ Len(r) = Len(q) - 1 \/ (Len(r) = Len(q) /\ r[Len(q)].local # "voltea")
  BY SigueFirme DEF Corre
<1>2. GirosSolos(q, s) /\ GiroFalta(q, m, s) /\ \A j \in 1..(m + 1) : GiroVisto(q, m, w[j], s, j)
  BY DEF Giros
<1>3. \A j \in 1..Len(q) : Tapada(q, j + 1) => Tapada(r, j)
  BY TapadaVuelve
<1>4. ASSUME NEW k \in 1..Len(r), r[k].local = "voltea"
      PROVE  k \in 1..(Len(q) - 1) /\ k + 1 \in 1..Len(q) /\ r[k] = q[k + 1]
  BY <1>1, <1>4
<1>5. GirosSolos(r, s)
  <2>1. ASSUME NEW k \in 1..Len(r), r[k].local = "voltea"
        PROVE  r[k].sobre \in Presentes(s)
    BY <1>2, <1>4, <2>1 DEF GirosSolos
  <2>2. ASSUME NEW k \in 1..Len(r), r[k].local = "voltea", NEW l \in 1..Len(r), Gira(r[l], r[k].sobre)
        PROVE  l = k
    <3>1. k + 1 \in 1..Len(q) /\ r[k] = q[k + 1]
      BY <1>4, <2>2
    <3>2. l + 1 \in 1..Len(q) /\ r[l] = q[l + 1]
      BY <1>4, <2>2 DEF Gira
    <3>3. l + 1 = k + 1
      BY <1>2, <2>2, <3>1, <3>2 DEF GirosSolos
    <3> QED
      BY <3>3
  <2> QED
    BY <2>1, <2>2 DEF GirosSolos
<1>6. ASSUME NEW j \in 1..m PROVE GiroVisto(r, m - 1, u[j], s, j)
  <2>1. GiroVisto(q, m, w[j + 1], s, j + 1) /\ u[j] = w[j + 1] /\ j \in 1..Len(q)
    BY <1>1, <1>2
  <2>2. \A k \in j..(m - 1) : k + 1 \in (j + 1)..m /\ r[k] = q[k + 1]
    BY <1>1
  <2>3. \A k \in (j + 1)..m : k - 1 \in j..(m - 1) /\ r[k - 1] = q[k]
    <3>1. ASSUME NEW k \in (j + 1)..m PROVE k - 1 \in j..(m - 1) /\ (k - 1) + 1 = k
      BY <1>1
    <3> QED
      BY <2>2, <3>1
  <2>4. ASSUME NEW i \in DOMAIN u[j].filas, ~Tapada(r, j)
        PROVE  \/ (\A k \in j..(m - 1) : ~Gira(r[k], i)) /\ u[j].filas[i].activa = s[i].activa
               \/ (\E k \in j..(m - 1) : Gira(r[k], i)) /\ u[j].filas[i].activa = ~s[i].activa
    <3>1. \/ (\A k \in (j + 1)..m : ~Gira(q[k], i)) /\ u[j].filas[i].activa = s[i].activa
          \/ (\E k \in (j + 1)..m : Gira(q[k], i)) /\ u[j].filas[i].activa = ~s[i].activa
      BY <1>3, <2>1, <2>4 DEF GiroVisto
    <3> QED
      BY <2>2, <2>3, <3>1
  <2>5. \A i \in DOMAIN u[j].filas : i \in Presentes(s)
    BY <2>1 DEF GiroVisto
  <2> QED
    BY <2>4, <2>5 DEF GiroVisto
<1>7. GiroFalta(r, m - 1, s)
  <2>1. ASSUME NEW k \in m..Len(r), r[k].local = "voltea"
        PROVE  Tapada(r, k) \/ s[r[k].sobre].activa = ~r[k].vale
    <3>1. k \in 1..Len(r)
      BY <1>1
    <3>2. k + 1 \in (m + 1)..Len(q) /\ k \in 1..Len(q) /\ r[k] = q[k + 1]
      BY <1>1, <1>4, <2>1, <3>1
    <3> QED
      BY <1>2, <1>3, <2>1, <3>2 DEF GiroFalta
  <2>2. (m - 1) + 1 = m
    BY <1>1
  <2> QED
    BY <2>1, <2>2 DEF GiroFalta
<1>8. (m - 1) + 1 = m
  BY <1>1
<1> QED
  BY <1>5, <1>6, <1>7, <1>8 DEF Giros

LEMMA RestoVuelve ==
  ASSUME NEW p, NEW q, NEW c, NEW r, Corre(p, q, c, r), NEW f, Pendientes(q, f), AltasSiguen(q)
  PROVE  Pendientes(r, f) /\ AltasSiguen(r)
<1>1. /\ Len(q) \in Nat \ {0} /\ c = q[1] /\ 1 \in 1..Len(q)
      /\ \A j \in 1..(Len(q) - 1) : j \in 1..Len(r) /\ r[j] = q[j + 1] /\ j + 1 \in 1..Len(q)
      /\ Len(r) = Len(q) - 1 \/ (Len(r) = Len(q) /\ Forma(p, c) /\ Sigue(p, c, r[Len(q)]))
  BY DEF Corre
<1>2. \A j \in 1..Len(r) : j \in 1..(Len(q) - 1) \/ (j = Len(q) /\ Len(r) = Len(q))
  BY <1>1
<1>3. Len(r) = Len(q) => /\ r[Len(q)].op # "alta" /\ r[Len(q)].q = c.q
                         /\ PendeLista(r[Len(q)]) => PendeLista(c)
                         /\ ~Pega(r[Len(q)])
  <2>1. Len(r) # Len(q) - 1 \/ Len(r) # Len(q)
    BY <1>1
  <2> QED
    BY <1>1, <2>1, SigueFirme
<1>4. Pendientes(r, f)
  BY <1>1, <1>2, <1>3 DEF Pendientes
<1>5. ASSUME NEW k \in 1..Len(r), r[k].op = "alta", r[k].luego = <<>>, r[k].ida
      PROVE  \E j \in 1..Len(r) : j > k /\ r[j].op = "lista" /\ r[j].ida
  <2>1. k \in 1..(Len(q) - 1)
    BY <1>2, <1>3, <1>5
  <2>2. PICK j \in 1..Len(q) : j > k + 1 /\ q[j].op = "lista" /\ q[j].ida
    BY <1>1, <1>5, <2>1 DEF AltasSiguen
  <2>3. j - 1 \in 1..(Len(q) - 1) /\ (j - 1) + 1 = j /\ j - 1 > k
    BY <1>1, <2>1, <2>2
  <2>4. r[j - 1] = q[j] /\ j - 1 \in 1..Len(r)
    BY <1>1, <2>3
  <2> QED
    BY <2>2, <2>3, <2>4
<1> QED
  BY <1>4, <1>5 DEF AltasSiguen

LEMMA EncajaMas ==
  ASSUME NEW p, NEW v, NEW s, NEW f, NEW A, NEW B, Encaja(p, v, s, f, A), A \subseteq B
  PROVE  Encaja(p, v, s, f, B)
BY DEF Encaja

\* An answer is applied to the screen: the rest of the copies follow as they were.
LEMMA FielVuelve ==
  ASSUME BaseInv, pagina \notin Sueltas, NEW m, Orden(vuelo, m), NEW w, w[1] = lista,
         Fiel(pagina, vuelo, m, w, srv, filtro, marcas), NEW k \in 1..Len(vuelo), Vuelve(k), Sereno'
  PROVE  \E n, u : Orden(vuelo', n) /\ u[1] = lista' /\ Fiel(pagina, vuelo', n, u, srv, filtro, marcas')
<1>1. k = 1
  BY SerenoVuelve
<1>2. PICK p, q, c, r : p = pagina /\ q = vuelo /\ c = vuelo[1] /\ r = vuelo'
  OBVIOUS
<1>3. Corre(p, q, c, r)
  <2>1. Corre(pagina, vuelo, vuelo[1], vuelo')
    BY <1>1, CorreDa
  <2> QED
    BY <1>2, <2>1
<1>4. Orden(q, m) /\ Fiel(p, q, m, w, srv, filtro, marcas)
  BY <1>2
<1>5. m \in 1..Len(q) /\ Orden(r, m - 1) /\ m \in Nat /\ (m - 1) + 1 = m
  <2>1. m \in 1..Len(q) /\ Orden(r, m - 1)
    BY <1>3, <1>4, OrdenVuelve
  <2>2. \A n \in Nat : m \in 1..n => m \in Nat /\ (m - 1) + 1 = m
    OBVIOUS
  <2> QED
    BY <1>3, <2>1, <2>2 DEF Corre
<1>6. /\ w \in [1..(m + 1) -> Copias] /\ (\A j \in 1..m : w[j + 1] = Aplicada(w[j], q[j]))
      /\ Firmes(q) \/ Encaja(p, w[m + 1], srv, filtro, Marcables(p, q, marcas))
      /\ p \in Tres => Giros(q, m, w, srv)
      /\ Pendientes(q, filtro) /\ AltasSiguen(q)
  BY <1>4 DEF Fiel, Cadena
<1>7. PICK u : u = [j \in 1..m |-> w[j + 1]]
  OBVIOUS
<1>8. u \in [1..m -> Copias] /\ \A j \in 1..m : u[j] = w[j + 1]
  BY <1>5, <1>6, <1>7
<1>9. Cadena(r, m - 1, u)
  <2>1. ASSUME NEW j \in 1..(m - 1) PROVE u[j + 1] = Aplicada(u[j], r[j])
    <3>1. j \in 1..m /\ j + 1 \in 1..m /\ j \in 1..(Len(q) - 1)
      BY <1>3, <1>5 DEF Corre
    <3>2. r[j] = q[j + 1] /\ u[j] = w[j + 1] /\ u[j + 1] = w[(j + 1) + 1]
      BY <1>3, <1>8, <3>1 DEF Corre
    <3> QED
      BY <1>6, <3>1, <3>2
  <2> QED
    BY <1>5, <1>8, <2>1 DEF Cadena
<1>10. u[1] = lista'
  <2>1. 1 \in 1..m
    BY <1>5
  <2>2. u[1] = w[1 + 1] /\ w[1 + 1] = Aplicada(w[1], q[1])
    BY <1>6, <1>8, <2>1
  <2>3. lista' = Aplicada(lista, c)
    BY <1>1, <1>2 DEF Vuelve, EnLaLista
  <2> QED
    BY <1>3, <2>2, <2>3 DEF Corre
<1>11. Firmes(r) \/ Encaja(p, u[m], srv, filtro, Marcables(p, r, marcas'))
  <2>1. CASE Firmes(q)
    BY <1>3, <2>1, FirmesVuelve
  <2>2. CASE Encaja(p, w[m + 1], srv, filtro, Marcables(p, q, marcas))
    <3>1. marcas' = IF c.local = "marca" THEN marcas \cup {c.sobre} ELSE IF c.cierra = "lote" THEN {} ELSE marcas
      BY <1>1, <1>2 DEF Vuelve, Marcadas
    <3>2. Marcables(p, q, marcas) \subseteq Marcables(p, r, marcas')
      BY <1>3, <3>1, MarcablesVuelve
    <3>3. u[m] = w[m + 1]
      BY <1>5, <1>8
    <3> QED
      BY <2>2, <3>2, <3>3, EncajaMas
  <2> QED
    BY <1>6, <2>1, <2>2
<1>12. p \in Tres => Giros(r, m - 1, u, srv)
  BY <1>3, <1>5, <1>6, <1>8, GirosVuelve
<1>13. Pendientes(r, filtro) /\ AltasSiguen(r)
  BY <1>3, <1>6, RestoVuelve
<1>14. Fiel(p, r, m - 1, u, srv, filtro, marcas')
  BY <1>5, <1>9, <1>11, <1>12, <1>13 DEF Fiel
<1> QED
  BY <1>2, <1>5, <1>10, <1>14

\* A write that is lost: nothing of it was seen anywhere.
LEMMA OrdenFalla ==
  ASSUME NEW q, NEW k, NEW D, NEW r, Tras(q, k, D, r), \A d \in D : d.ida,
         NEW m, Orden(q, m), q[k].ida
  PROVE  m \in Nat /\ k > m /\ Orden(r, m) /\ \A j \in 1..m : j \in 1..Len(q) /\ r[j] = q[j]
<1>1. /\ m \in Nat /\ m <= Len(q) /\ Len(q) \in Nat /\ k \in 1..Len(q) /\ (\A j \in 1..Len(q) : q[j].ida <=> j > m)
      /\ Len(r) \in Nat /\ Len(r) >= Len(q) - 1
  BY DEF Orden, Tras
<1>2. k > m
  BY <1>1
<1>3. ASSUME NEW j \in 1..m PROVE j \in 1..Len(q) /\ r[j] = q[j]
  <2>1. j \in 1..Len(q) \ {k} /\ Vuelta(k, j) = j
    BY <1>1, <1>2 DEF Vuelta
  <2> QED
    BY <2>1 DEF Tras
<1>4. ASSUME NEW j \in 1..Len(r), j > m PROVE r[j].ida
  <2>1. CASE Salta(k, j) \in 1..Len(q) \ {k} /\ r[j] = q[Salta(k, j)]
    <3>1. Salta(k, j) > m
      BY <1>1, <1>2, <1>4 DEF Salta
    <3> QED
      BY <1>1, <2>1, <3>1
  <2>2. CASE r[j] \in D
    BY <2>2
  <2> QED
    BY <2>1, <2>2 DEF Tras
<1>5. m <= Len(r)
  BY <1>1, <1>2
<1>6. \A j \in 1..Len(r) : j > m \/ j \in 1..m
  BY <1>1
<1> QED
  BY <1>1, <1>2, <1>3, <1>4, <1>5, <1>6 DEF Orden

\* r is q without its call k, c, a write that was not attended; a bulk deletion goes on.
Pierde(p, q, k, c, r) ==
  /\ Len(q) \in Nat /\ k \in 1..Len(q) /\ c = q[k] /\ Forma(p, c) /\ c.ida /\ Escritura(c)
  /\ \A i \in 1..Len(q) \ {k} : Vuelta(k, i) \in 1..Len(r) /\ r[Vuelta(k, i)] = q[i]
  /\ \/ c.local # "todas" /\ Len(r) = Len(q) - 1
     \/ c.local = "todas" /\ Len(r) = Len(q) /\ Sigue(p, c, r[Len(q)])
  /\ \A j \in 1..Len(r) : \/ Salta(k, j) \in 1..Len(q) \ {k} /\ r[j] = q[Salta(k, j)]
                          \/ j = Len(r) /\ c.local = "todas" /\ Len(r) = Len(q)

LEMMA PierdeDa ==
  ASSUME BaseInv, NEW k \in 1..Len(vuelo), Falla(k), Escritura(vuelo[k]), vuelo[k].ida
  PROVE  /\ Pierde(pagina, vuelo, k, vuelo[k], vuelo')
         /\ \A m : Orden(vuelo, m) =>
              /\ m \in Nat /\ k > m /\ Orden(vuelo', m)
              /\ \A j \in 1..m : j \in 1..Len(vuelo) /\ vuelo'[j] = vuelo[j]
<1>1. PICK c : c = vuelo[k]
  OBVIOUS
<1>2. PICK prox : /\ prox = IF c.op \in Tragan \/ c.resto # {} \/ c.local = "todas" THEN Proxima(c) ELSE <<>>
                  /\ Continua(k, prox)
  BY <1>1 DEF Falla
<1>3. Forma(pagina, c) /\ Len(vuelo) \in Nat /\ c.op \notin Tragan
  BY <1>1 DEF BaseInv, Escritura, Lecturas, Tragan
<1>4. CASE c.local # "todas"
  <2>1. prox = <<>>
    BY <1>2, <1>3, <1>4 DEF Forma
  <2>2. Tras(vuelo, k, {}, vuelo')
    <3>1. \A d : <<d>> # <<>>
      OBVIOUS
    <3>2. \/ prox = <<>> /\ Sale(k)
          \/ \E d \in Llamadas : prox = <<d>>
      BY <1>1, <1>2, <2>1, ContinuaDa
    <3> QED
      BY <2>1, <3>1, <3>2, TrasDa
  <2>3. Len(vuelo') = Len(vuelo) - 1
    <3>1. \A d : {d} # {}
      OBVIOUS
    <3> QED
      BY <2>2, <3>1 DEF Tras
  <2>4. \A m : Orden(vuelo, m) =>
              /\ m \in Nat /\ k > m /\ Orden(vuelo', m)
              /\ \A j \in 1..m : j \in 1..Len(vuelo) /\ vuelo'[j] = vuelo[j]
    BY <2>2, OrdenFalla
  <2> QED
    BY <1>1, <1>3, <1>4, <2>2, <2>3, <2>4 DEF Pierde, Tras
<1>5. CASE c.local = "todas"
  <2>1. prox = Proxima(c) /\ c.luego # <<>>
    BY <1>2, <1>3, <1>5, PendeDa
  <2>2. PICK d \in Llamadas : Sigue(pagina, c, d) /\ Encadena(k, d)
    <3>1. \A d : <<d>> # <<>>
      OBVIOUS
    <3>2. Proxima(c) # <<>>
      BY <1>3, <2>1, <3>1, ProximaDa
    <3>3. \/ prox = <<>> /\ Sale(k)
          \/ \E d \in Llamadas : prox = <<d>> /\ Sigue(pagina, vuelo[k], d) /\ Encadena(k, d)
      BY <1>1, <1>2, <2>1, ContinuaDa
    <3> QED
      BY <1>1, <2>1, <3>2, <3>3
  <2>3. Tras(vuelo, k, {d}, vuelo') /\ d.ida
    BY <2>2, TrasDa, <1>3, SigueFirme
  <2>4. Len(vuelo') = Len(vuelo) /\ vuelo'[Len(vuelo)] = d
    BY <2>2 DEF Encadena, Con
  <2>5. \A m : Orden(vuelo, m) =>
              /\ m \in Nat /\ k > m /\ Orden(vuelo', m)
              /\ \A j \in 1..m : j \in 1..Len(vuelo) /\ vuelo'[j] = vuelo[j]
    BY <2>3, OrdenFalla
  <2> QED
    BY <1>1, <1>3, <1>5, <2>2, <2>3, <2>4, <2>5 DEF Pierde, Tras
<1> QED
  BY <1>4, <1>5

LEMMA FirmesFalla ==
  ASSUME NEW p, NEW q, NEW k, NEW c, NEW r, Pierde(p, q, k, c, r), Firmes(q)
  PROVE  Firmes(r)
<1>1. PICK j \in 1..Len(q) : Firme(q[j])
  BY DEF Firmes
<1>2. CASE j = k
  <2>1. Contains(c.luego, "lista") /\ c.local = "todas"
    BY <1>1, <1>2 DEF Pierde, Firme, Escritura, Lecturas
  <2>2. Firme(r[Len(q)]) /\ Len(q) \in 1..Len(r)
    BY <2>1, SigueFirme DEF Pierde
  <2> QED
    BY <2>2 DEF Firmes
<1>3. CASE j # k
  BY <1>1, <1>3 DEF Pierde, Firmes
<1> QED
  BY <1>2, <1>3

LEMMA TapadaFalla ==
  ASSUME NEW p, NEW q, NEW k, NEW c, NEW r, Pierde(p, q, k, c, r), NEW j \in 1..Len(q),
         (j <= k /\ Tapada(q, j)) \/ (j >= k /\ Tapada(q, j + 1))
  PROVE  Tapada(r, j)
<1>1. PICK l \in 1..Len(q) : \/ q[l].local = "todas"
                             \/ ((j <= k /\ l >= j) \/ (j >= k /\ l >= j + 1)) /\ q[l].cierra = "lote"
  BY DEF Tapada
<1>2. CASE l = k
  <2>1. c.local = "todas"
    BY <1>1, <1>2 DEF Pierde, Forma, Escritura, Lecturas
  <2>2. r[Len(q)].local = "todas" \/ r[Len(q)].cierra = "lote"
    BY <2>1, SigueFirme DEF Pierde
  <2>3. Len(q) \in 1..Len(r) /\ Len(q) >= j
    BY <2>1 DEF Pierde
  <2> QED
    BY <2>2, <2>3 DEF Tapada
<1>3. CASE l # k
  <2>1. Vuelta(k, l) \in 1..Len(r) /\ r[Vuelta(k, l)] = q[l]
    BY <1>3 DEF Pierde
  <2>2. ((j <= k /\ l >= j) \/ (j >= k /\ l >= j + 1)) => Vuelta(k, l) >= j
    <3>1. k \in Nat /\ l \in Nat /\ j \in Nat
      BY DEF Pierde
    <3> QED
      BY <1>3, <3>1 DEF Vuelta
  <2> QED
    BY <1>1, <2>1, <2>2 DEF Tapada
<1> QED
  BY <1>2, <1>3

LEMMA GirosFalla ==
  ASSUME NEW p, NEW q, NEW k, NEW c, NEW r, Pierde(p, q, k, c, r), NEW m \in Nat, k > m,
         \A j \in 1..m : j \in 1..Len(q) /\ r[j] = q[j], NEW s, NEW w, Giros(q, m, w, s)
  PROVE  Giros(r, m, w, s)
<1>1. /\ Len(q) \in Nat /\ k \in 1..Len(q) /\ Len(r) \in {Len(q) - 1, Len(q)}
      /\ Len(r) = Len(q) => r[Len(q)].local # "voltea"
  BY SigueFirme DEF Pierde
<1>2. GirosSolos(q, s) /\ GiroFalta(q, m, s) /\ \A j \in 1..(m + 1) : GiroVisto(q, m, w[j], s, j)
  BY DEF Giros
<1>3. \A j \in 1..Len(q) : (j <= k /\ Tapada(q, j)) \/ (j >= k /\ Tapada(q, j + 1)) => Tapada(r, j)
  BY TapadaFalla
<1>4. ASSUME NEW j \in 1..Len(r), r[j].local = "voltea"
      PROVE  Salta(k, j) \in 1..Len(q) \ {k} /\ r[j] = q[Salta(k, j)]
  BY <1>1, <1>4 DEF Pierde
<1>5. GirosSolos(r, s)
  <2>1. ASSUME NEW j \in 1..Len(r), r[j].local = "voltea"
        PROVE  r[j].sobre \in Presentes(s)
    BY <1>2, <1>4, <2>1 DEF GirosSolos
  <2>2. ASSUME NEW j \in 1..Len(r), r[j].local = "voltea", NEW l \in 1..Len(r), Gira(r[l], r[j].sobre)
        PROVE  l = j
    <3>1. Salta(k, j) \in 1..Len(q) /\ r[j] = q[Salta(k, j)]
      BY <1>4, <2>2
    <3>2. Salta(k, l) \in 1..Len(q) /\ r[l] = q[Salta(k, l)]
      BY <1>4, <2>2 DEF Gira
    <3>3. Salta(k, l) = Salta(k, j)
      BY <1>2, <2>2, <3>1, <3>2 DEF GirosSolos
    <3>4. k \in Nat /\ j \in Nat /\ l \in Nat
      BY <1>1
    <3> QED
      BY <3>3, <3>4 DEF Salta
  <2> QED
    BY <2>1, <2>2 DEF GirosSolos
<1>6. ASSUME NEW j \in 1..(m + 1) PROVE GiroVisto(r, m, w[j], s, j)
  <2>1. GiroVisto(q, m, w[j], s, j) /\ j \in 1..Len(q) /\ j <= k
    BY <1>1, <1>2
  <2>2. \A l \in j..m : r[l] = q[l]
    OBVIOUS
  <2>3. Tapada(q, j) => Tapada(r, j)
    BY <1>3, <2>1
  <2> QED
    BY <2>1, <2>2, <2>3 DEF GiroVisto
<1>7. GiroFalta(r, m, s)
  <2>1. ASSUME NEW j \in (m + 1)..Len(r), r[j].local = "voltea"
        PROVE  Tapada(r, j) \/ s[r[j].sobre].activa = ~r[j].vale
    <3>1. j \in 1..Len(r) /\ j \in 1..Len(q)
      BY <1>1
    <3>2. Salta(k, j) \in 1..Len(q) \ {k} /\ r[j] = q[Salta(k, j)]
      BY <1>4, <2>1, <3>1
    <3>3. Salta(k, j) \in (m + 1)..Len(q)
      BY <1>1, <3>1, <3>2 DEF Salta
    <3>4. Tapada(q, Salta(k, j)) \/ s[r[j].sobre].activa = ~r[j].vale
      BY <1>2, <2>1, <3>2, <3>3 DEF GiroFalta
    <3>5. Tapada(q, Salta(k, j)) => Tapada(r, j)
      BY <1>1, <1>3, <3>1 DEF Salta
    <3> QED
      BY <3>4, <3>5
  <2> QED
    BY <2>1 DEF GiroFalta
<1> QED
  BY <1>5, <1>6, <1>7 DEF Giros

LEMMA RestoFalla ==
  ASSUME NEW p, NEW q, NEW k, NEW c, NEW r, Pierde(p, q, k, c, r), NEW f, Pendientes(q, f), AltasSiguen(q),
         NEW ms
  PROVE  Pendientes(r, f) /\ AltasSiguen(r) /\ Marcables(p, q, ms) \subseteq Marcables(p, r, ms)
<1>1. /\ Len(q) \in Nat /\ k \in 1..Len(q) /\ c = q[k] /\ c.ida /\ c.op # "lista"
      /\ \A i \in 1..Len(q) \ {k} : Vuelta(k, i) \in 1..Len(r) /\ r[Vuelta(k, i)] = q[i]
  BY DEF Pierde, Escritura, Lecturas
<1>2. ASSUME NEW j \in 1..Len(r)
      PROVE  \/ Salta(k, j) \in 1..Len(q) \ {k} /\ r[j] = q[Salta(k, j)]
             \/ r[j].op # "alta" /\ r[j].q = c.q /\ (PendeLista(r[j]) => PendeLista(c)) /\ ~Pega(r[j])
  BY SigueFirme DEF Pierde
<1>3. Pendientes(r, f)
  BY <1>1, <1>2 DEF Pendientes
<1>4. ASSUME NEW j \in 1..Len(r), r[j].op = "alta", r[j].luego = <<>>, r[j].ida
      PROVE  \E i \in 1..Len(r) : i > j /\ r[i].op = "lista" /\ r[i].ida
  <2>1. Salta(k, j) \in 1..Len(q) \ {k} /\ r[j] = q[Salta(k, j)]
    BY <1>2, <1>4
  <2>2. PICK i \in 1..Len(q) : i > Salta(k, j) /\ q[i].op = "lista" /\ q[i].ida
    BY <1>4, <2>1 DEF AltasSiguen
  <2>3. i # k
    BY <1>1, <2>2
  <2>4. Vuelta(k, i) > j
    <3>1. i \in Nat /\ j \in Nat /\ k \in Nat
      BY <1>1
    <3> QED
      BY <2>1, <2>2, <2>3, <3>1 DEF Salta, Vuelta
  <2> QED
    BY <1>1, <2>2, <2>3, <2>4
<1>5. Marcables(p, q, ms) \subseteq Marcables(p, r, ms)
  BY <1>1 DEF Marcables
<1> QED
  BY <1>3, <1>4, <1>5 DEF AltasSiguen

LEMMA FielFalla ==
  ASSUME BaseInv, pagina \notin Sueltas, NEW m, Orden(vuelo, m), NEW w, w[1] = lista,
         Fiel(pagina, vuelo, m, w, srv, filtro, marcas), NEW k \in 1..Len(vuelo), Falla(k), Sereno'
  PROVE  Orden(vuelo', m) /\ lista' = lista /\ Fiel(pagina, vuelo', m, w, srv, filtro, marcas')
<1>1. Escritura(vuelo[k]) /\ vuelo[k].ida /\ lista' = lista /\ marcas' = marcas
  BY SerenoFalla
<1>2. PICK p, q, c, r : p = pagina /\ q = vuelo /\ c = vuelo[k] /\ r = vuelo'
  OBVIOUS
<1>3. /\ Pierde(p, q, k, c, r) /\ m \in Nat /\ k > m /\ Orden(r, m)
      /\ \A j \in 1..m : j \in 1..Len(q) /\ r[j] = q[j]
  <2>1. /\ Pierde(pagina, vuelo, k, vuelo[k], vuelo') /\ m \in Nat /\ k > m /\ Orden(vuelo', m)
        /\ \A j \in 1..m : j \in 1..Len(vuelo) /\ vuelo'[j] = vuelo[j]
    BY <1>1, PierdeDa
  <2> QED
    BY <1>2, <2>1
<1>4. /\ w \in [1..(m + 1) -> Copias] /\ (\A j \in 1..m : w[j + 1] = Aplicada(w[j], q[j]))
      /\ Firmes(q) \/ Encaja(p, w[m + 1], srv, filtro, Marcables(p, q, marcas))
      /\ p \in Tres => Giros(q, m, w, srv)
      /\ Pendientes(q, filtro) /\ AltasSiguen(q)
  BY <1>2 DEF Fiel, Cadena
<1>5. Cadena(r, m, w)
  BY <1>3, <1>4 DEF Cadena
<1>6. /\ Pendientes(r, filtro) /\ AltasSiguen(r)
      /\ Marcables(p, q, marcas) \subseteq Marcables(p, r, marcas)
  BY <1>3, <1>4, RestoFalla
<1>7. p \in Tres => Giros(r, m, w, srv)
  BY <1>3, <1>4, GirosFalla
<1>8. Firmes(r) \/ Encaja(p, w[m + 1], srv, filtro, Marcables(p, r, marcas))
  BY <1>3, <1>4, <1>6, FirmesFalla, EncajaMas
<1>9. Fiel(p, r, m, w, srv, filtro, marcas)
  BY <1>5, <1>6, <1>7, <1>8 DEF Fiel
<1> QED
  BY <1>1, <1>2, <1>3, <1>9

\* What is known of a call c when it joins the queue q of a page that shows the copy l.
Enviada(q, c, l, f) ==
  /\ c.ida /\ c.q = f /\ (PendeLista(c) => f # Nadie) /\ (c.op = "alta" => c.luego # <<>>)
  /\ c.local = "voltea" =>
       /\ c.sobre \in DOMAIN l.filas /\ c.vale = ~l.filas[c.sobre].activa
       /\ \A k \in 1..Len(q) : ~Cambia(q[k], c.sobre)

LEMMA OrdenManda ==
  ASSUME NEW q, NEW c, NEW r, Mas(Llamadas, q, c, r), Len(q) \in Nat, c.ida, NEW m, Orden(q, m)
  PROVE  Orden(r, m)
<1>1. /\ Len(r) = Len(q) + 1 /\ r[Len(q) + 1] = c /\ \A j \in 1..Len(q) : r[j] = q[j]
      /\ \A j \in 1..Len(r) : j \in 1..Len(q) \/ j = Len(q) + 1
  BY DEF Mas
<1> QED
  BY <1>1 DEF Orden

LEMMA GirosManda ==
  ASSUME NEW q, NEW c, NEW r, Mas(Llamadas, q, c, r), Len(q) \in Nat, NEW m \in 0..Len(q),
         NEW w, NEW s, Giros(q, m, w, s), NEW l \in Copias, l = w[1], NEW f, Enviada(q, c, l, f)
  PROVE  Giros(r, m, w, s)
<1>1. /\ Len(r) = Len(q) + 1 /\ r[Len(q) + 1] = c /\ \A j \in 1..Len(q) : r[j] = q[j]
      /\ \A j \in 1..Len(r) : j \in 1..Len(q) \/ j = Len(q) + 1
      /\ \A j \in 1..Len(q) : j \in 1..Len(r) /\ j # Len(q) + 1
  BY DEF Mas
<1>2. GirosSolos(q, s) /\ GiroFalta(q, m, s) /\ \A j \in 1..(m + 1) : GiroVisto(q, m, w[j], s, j)
  BY DEF Giros
<1>3. \A j : Tapada(q, j) => Tapada(r, j)
  BY <1>1 DEF Tapada
<1>4. ASSUME c.local = "voltea"
      PROVE  /\ c.sobre \in Presentes(s) /\ s[c.sobre].activa = ~c.vale
             /\ \A k \in 1..Len(q) : ~Gira(q[k], c.sobre)
  <2>1. /\ c.sobre \in DOMAIN l.filas /\ c.vale = ~l.filas[c.sobre].activa
        /\ \A k \in 1..Len(q) : ~Cambia(q[k], c.sobre)
    BY <1>4 DEF Enviada
  <2>2. ~Tapada(q, 1) /\ \A k \in 1..Len(q) : ~Gira(q[k], c.sobre)
    BY <2>1 DEF Tapada, Gira, Cambia
  <2>3. GiroVisto(q, m, l, s, 1)
    BY <1>2
  <2>4. \A k \in 1..m : k \in 1..Len(q)
    OBVIOUS
  <2>5. c.sobre \in Presentes(s) /\ l.filas[c.sobre].activa = s[c.sobre].activa
    BY <2>1, <2>2, <2>3, <2>4 DEF GiroVisto
  <2>6. l.filas[c.sobre].activa \in BOOLEAN
    BY <2>1, FichaDa DEF Vivas
  <2> QED
    BY <2>1, <2>2, <2>5, <2>6
<1>5. GirosSolos(r, s)
  BY <1>1, <1>2, <1>4 DEF GirosSolos, Gira
<1>6. ASSUME NEW j \in 1..(m + 1) PROVE GiroVisto(r, m, w[j], s, j)
  <2>1. GiroVisto(q, m, w[j], s, j) /\ \A k \in j..m : r[k] = q[k]
    BY <1>1, <1>2
  <2> QED
    BY <1>3, <2>1 DEF GiroVisto
<1>7. GiroFalta(r, m, s)
  <2>1. ASSUME NEW k \in (m + 1)..Len(r), r[k].local = "voltea"
        PROVE  Tapada(r, k) \/ s[r[k].sobre].activa = ~r[k].vale
    <3>1. CASE k = Len(q) + 1
      BY <1>1, <1>4, <2>1, <3>1
    <3>2. CASE k # Len(q) + 1
      <4>1. k \in (m + 1)..Len(q) /\ r[k] = q[k]
        BY <1>1, <3>2
      <4> QED
        BY <1>2, <1>3, <2>1, <4>1 DEF GiroFalta
    <3> QED
      BY <3>1, <3>2
  <2> QED
    BY <2>1 DEF GiroFalta
<1> QED
  BY <1>5, <1>6, <1>7 DEF Giros

LEMMA FielManda ==
  ASSUME NEW p, NEW q \in Seq(Llamadas), NEW c, NEW r, Mas(Llamadas, q, c, r), NEW m, Orden(q, m),
         NEW w, NEW s, NEW f, NEW ms, Fiel(p, q, m, w, s, f, ms), NEW l \in Copias, l = w[1],
         NEW g, Enviada(q, c, l, g), g = f \/ (q = <<>> /\ c.op = "lista")
  PROVE  Orden(r, m) /\ Fiel(p, r, m, w, s, g, ms)
<1>1. /\ Len(q) \in Nat /\ Len(r) = Len(q) + 1 /\ r[Len(q) + 1] = c /\ \A j \in 1..Len(q) : r[j] = q[j]
      /\ \A j \in 1..Len(r) : j \in 1..Len(q) \/ j = Len(q) + 1
      /\ \A j \in 1..Len(q) : j \in 1..Len(r) /\ j # Len(q) + 1
  BY DEF Mas
<1>2. /\ c.ida /\ c.q = g /\ (PendeLista(c) => g # Nadie) /\ (c.op = "alta" => c.luego # <<>>)
      /\ m \in 0..Len(q)
  BY DEF Enviada, Orden
<1>3. /\ w \in [1..(m + 1) -> Copias] /\ (\A j \in 1..m : w[j + 1] = Aplicada(w[j], q[j]))
      /\ Firmes(q) \/ Encaja(p, w[m + 1], s, f, Marcables(p, q, ms))
      /\ p \in Tres => Giros(q, m, w, s)
      /\ Pendientes(q, f) /\ AltasSiguen(q)
  BY DEF Fiel, Cadena
<1>4. Orden(r, m)
  BY <1>1, <1>2, OrdenManda
<1>5. Cadena(r, m, w)
  BY <1>1, <1>2, <1>3 DEF Cadena
<1>6. p \in Tres => Giros(r, m, w, s)
  BY <1>1, <1>2, <1>3, GirosManda
<1>7. Pendientes(r, g)
  <2>1. q = <<>> => \A j \in 1..Len(q) : FALSE
    OBVIOUS
  <2> QED
    BY <1>1, <1>2, <1>3, <2>1 DEF Pendientes
<1>8. AltasSiguen(r)
  BY <1>1, <1>2, <1>3 DEF AltasSiguen
<1>9. Firmes(r) \/ Encaja(p, w[m + 1], s, g, Marcables(p, r, ms))
  <2>1. Firmes(q) \/ c.op = "lista" => Firmes(r)
    <3>1. Len(q) + 1 \in 1..Len(r)
      BY <1>1
    <3> QED
      BY <1>1, <1>2, <3>1 DEF Firmes, Firme
  <2>2. Marcables(p, q, ms) \subseteq Marcables(p, r, ms)
    BY <1>1 DEF Marcables
  <2> QED
    BY <1>3, <2>1, <2>2, EncajaMas
<1> QED
  BY <1>4, <1>5, <1>6, <1>7, <1>8, <1>9 DEF Fiel

\* Calls of a form that was left: their answers change nothing.
Olvidadas(q) ==
  \A j \in 1..Len(q) :
    /\ q[j].op = "alta" /\ q[j].local # "voltea" /\ ~PendeLista(q[j]) /\ ~Pega(q[j])
    /\ \A x \in Copias : q[j].ida \/ Aplicada(x, q[j]) = x

\* The request c of the list joins a queue q that says nothing of it: r.
Unica(p, q, c, r, m, l, g) ==
  /\ q \in Seq(Llamadas) /\ l \in Copias /\ c.op = "lista" /\ Mas(Llamadas, q, c, r)
  /\ Orden(q, m) /\ Enviada(q, c, l, g) /\ Olvidadas(q)
  /\ p \notin Tres \/ DOMAIN l.filas = {}

\* The list is asked for by a page that had asked for nothing, or left it behind.
LEMMA FielSola ==
  ASSUME NEW p, NEW q, NEW c, NEW r, NEW m, NEW l, NEW g, Unica(p, q, c, r, m, l, g), NEW s, NEW ms
  PROVE  \E w : Orden(r, m) /\ w[1] = l /\ Fiel(p, r, m, w, s, g, ms)
<1> USE DEF Olvidadas
<1>0. /\ q \in Seq(Llamadas) /\ l \in Copias /\ c.op = "lista" /\ Mas(Llamadas, q, c, r)
      /\ Orden(q, m) /\ Enviada(q, c, l, g) /\ Olvidadas(q) /\ (p \notin Tres \/ DOMAIN l.filas = {})
  BY DEF Unica
<1>1. /\ Len(q) \in Nat /\ Len(r) = Len(q) + 1 /\ r[Len(q) + 1] = c /\ \A j \in 1..Len(q) : r[j] = q[j]
      /\ \A j \in 1..Len(r) : j \in 1..Len(q) \/ j = Len(q) + 1
      /\ \A j \in 1..Len(q) : j \in 1..Len(r) /\ j # Len(q) + 1
      /\ Len(q) + 1 \in 1..Len(r)
  BY <1>0 DEF Mas
<1>2. c.ida /\ c.q = g /\ g # Nadie /\ m \in 0..Len(q) /\ (c.local = "voltea" => c.sobre \in DOMAIN l.filas)
  BY <1>0 DEF Enviada, Orden, PendeLista
<1>3. Orden(r, m)
  BY <1>0, <1>1, <1>2, OrdenManda
<1>11. l \in Copias /\ (\A j \in 1..Len(q) : q[j].ida <=> j > m) /\ Olvidadas(q)
  BY <1>0 DEF Orden
<1>4. PICK w : w = [j \in 1..(m + 1) |-> l]
  OBVIOUS
<1>5. Cadena(r, m, w) /\ w[1] = l
  <2>1. m \in Nat /\ \A j \in 1..m : j + 1 \in 1..(m + 1) /\ j \in 1..(m + 1) /\ j \in 1..Len(q)
    BY <1>1, <1>2
  <2>2. w \in [1..(m + 1) -> Copias] /\ w[1] = l
    BY <1>4, <1>11, <2>1
  <2>3. ASSUME NEW j \in 1..m PROVE w[j + 1] = Aplicada(w[j], r[j])
    <3>1. ~q[j].ida /\ r[j] = q[j]
      BY <1>1, <1>2, <1>11, <2>1
    <3>2. w[j + 1] = l /\ w[j] = l
      BY <1>4, <2>1
    <3>3. Aplicada(l, q[j]) = l
      BY <1>11, <2>1, <3>1
    <3> QED
      BY <3>1, <3>2, <3>3
  <2> QED
    BY <1>0, <2>2, <2>3 DEF Cadena
<1>6. Firmes(r)
  BY <1>0, <1>1, <1>2 DEF Firmes, Firme
<1>7. Pendientes(r, g)
  BY <1>0, <1>1, <1>2 DEF Pendientes
<1>8. AltasSiguen(r)
  <2>1. ASSUME NEW j \in 1..Len(r), r[j].op = "alta"
        PROVE  \E i \in 1..Len(r) : i > j /\ r[i].op = "lista" /\ r[i].ida
    <3>1. j # Len(q) + 1
      BY <1>0, <1>1, <2>1
    <3>2. Len(q) + 1 > j
      BY <1>0, <1>1, <3>1
    <3> QED
      BY <1>0, <1>1, <1>2, <3>2
  <2> QED
    BY <1>0, <2>1 DEF AltasSiguen
<1>9. p \in Tres => Giros(r, m, w, s)
  <2>1. ASSUME p \in Tres PROVE Giros(r, m, w, s)
    <3>1. DOMAIN l.filas = {} /\ \A j \in 1..Len(r) : r[j].local # "voltea"
      BY <1>0, <1>1, <1>2, <2>1
    <3>2. \A j \in (m + 1)..Len(r) : j \in 1..Len(r)
      BY <1>2
    <3>3. GirosSolos(r, s)
      BY <1>0, <3>1 DEF GirosSolos
    <3>4. GiroFalta(r, m, s)
      BY <1>0, <3>1, <3>2 DEF GiroFalta
    <3>5. \A j \in 1..(m + 1) : GiroVisto(r, m, w[j], s, j)
      BY <1>0, <1>4, <3>1 DEF GiroVisto
    <3> QED
      BY <1>0, <3>3, <3>4, <3>5 DEF Giros
  <2> QED
    BY <2>1
<1>10. Fiel(p, r, m, w, s, g, ms)
  BY <1>0, <1>5, <1>6, <1>7, <1>8, <1>9 DEF Fiel
<1> QED
  BY <1>0, <1>3, <1>5, <1>10

\* Nothing is shown and nothing was asked for.
LEMMA FielVacia ==
  ASSUME NEW p, NEW s, NEW ms, p \notin Tres, NEW q, q = <<>>
  PROVE  Orden(q, 0) /\ \E w : w[1] = Nada /\ Fiel(p, q, 0, w, s, Nadie, ms)
<1>1. Len(q) = 0 /\ \A k \in 1..Len(q) : FALSE
  OBVIOUS
<1>2. PICK w : w = [j \in 1..(0 + 1) |-> Nada]
  OBVIOUS
<1>3. w \in [1..(0 + 1) -> Copias] /\ w[1] = Nada /\ w[0 + 1] = Nada
  BY <1>2, NadaDa
<1>4. \A k \in 1..0 : FALSE
  OBVIOUS
<1>5. Cadena(q, 0, w)
  BY <1>3, <1>4 DEF Cadena
<1>6. Encaja(p, w[0 + 1], s, Nadie, Marcables(p, q, ms))
  BY <1>3, NadaDa DEF Encaja
<1>7. Pendientes(q, Nadie) /\ AltasSiguen(q) /\ Orden(q, 0)
  BY <1>1 DEF Pendientes, AltasSiguen, Orden
<1> QED
  BY <1>3, <1>5, <1>6, <1>7 DEF Fiel

LEMMA FiltroLlega ==
  ASSUME BaseInv, ListaInv, NEW k \in 1..Len(vuelo), Atiende(k) \/ Vuelve(k) \/ Falla(k) \/ OnboardingGuardado(k)
  PROVE  FiltroInv' /\ UNCHANGED <<pagina, filtro>>
<1>1. PICK c : c = vuelo[k]
  OBVIOUS
<1>2. Forma(pagina, c) /\ vuelo # <<>> /\ lista \in Copias
  BY <1>1 DEF BaseInv
<1>3. UNCHANGED <<pagina, filtro>>
  BY DEF Atiende, Vuelve, Falla, OnboardingGuardado, pantalla
<1>4. Sereno' => Sereno
  <2>1. CASE Falla(k)
    BY <2>1, SerenoFalla
  <2>2. CASE OnboardingGuardado(k)
    BY <2>2, SerenoResto
  <2> QED
    BY <2>1, <2>2, SerenoAtiende, SerenoVuelve
<1>5. ASSUME pagina \in Sueltas, lista.de = Nadie, DOMAIN lista.filas = {}
      PROVE  lista'.de = Nadie /\ DOMAIN lista'.filas = {}
  <2>1. CASE Vuelve(k)
    <3>1. ~c.ida /\ c.op # "lista" /\ lista' = Aplicada(lista, c)
      BY <1>1, <1>2, <1>5, <2>1 DEF Vuelve, EnLaLista, Forma, Sueltas
    <3>2. Traza(lista, c, lista')
      BY <1>2, <3>1, AplicadaDa
    <3> QED
      BY <1>5, <3>2 DEF Traza
  <2>2. CASE Falla(k)
    <3>1. lista' = lista
      BY <1>1, <1>5, <2>2 DEF Falla, Sueltas
    <3> QED
      BY <1>5, <3>1
  <2>3. CASE Atiende(k) \/ OnboardingGuardado(k)
    BY <1>5, <2>3 DEF Atiende, OnboardingGuardado, pantalla
  <2> QED
    BY <2>1, <2>2, <2>3
<1>6. FiltroInv
  BY DEF ListaInv
<1> QED
  BY <1>2, <1>3, <1>4, <1>5, <1>6 DEF FiltroInv

LEMMA ListaAtiende ==
  ASSUME BaseInv, ListaInv, NEW k \in 1..Len(vuelo), Atiende(k)
  PROVE  ListaInv'
<1>1. FiltroInv' /\ UNCHANGED <<pagina, filtro, lista, marcas>>
  BY FiltroLlega DEF Atiende, pantalla
<1>2. ASSUME Sereno'
      PROVE  \E n : /\ Orden(vuelo', n)
                    /\ pagina \notin Sueltas => \E u : u[1] = lista /\ Fiel(pagina, vuelo', n, u, srv', filtro, marcas)
  <2>1. Sereno /\ \A j \in 1..(k - 1) : ~vuelo[j].ida
    BY <1>2, SerenoAtiende
  <2>2. PICK m : /\ Orden(vuelo, m)
                 /\ pagina \notin Sueltas => \E w : w[1] = lista /\ Fiel(pagina, vuelo, m, w, srv, filtro, marcas)
    BY <2>1 DEF ListaInv
  <2>3. CASE pagina \notin Sueltas
    BY <1>2, <2>2, <2>3, FielAtiende
  <2>4. CASE pagina \in Sueltas
    <3>1. PICK e : vuelo' = [vuelo EXCEPT ![k] = e] /\ ~e.ida /\ e \in Llamadas
      BY AtendidaDa DEF Forma
    <3>2. vuelo \in Seq(Llamadas) /\ vuelo[k].ida
      BY DEF BaseInv, Atiende
    <3>3. PICK q, r : q = vuelo /\ r = vuelo'
      OBVIOUS
    <3>4. Orden(r, m + 1)
      BY <2>1, <2>2, <3>1, <3>2, <3>3, OrdenAtiende
    <3> QED
      BY <2>4, <3>3, <3>4
  <2> QED
    BY <2>3, <2>4
<1> QED
  BY <1>1, <1>2 DEF ListaInv, Orden

LEMMA ListaDeCache ==
  ASSUME BaseInv, ListaInv, NEW k \in 1..Len(vuelo), DeCache(k)
  PROVE  ListaInv'
<1>1. UNCHANGED <<pagina, filtro, lista>> /\ ~Sereno'
  BY DeCacheDa DEF pantalla, Sereno
<1> QED
  BY <1>1 DEF ListaInv, FiltroInv

LEMMA ListaVuelve ==
  ASSUME BaseInv, ListaInv, NEW k \in 1..Len(vuelo), Vuelve(k)
  PROVE  ListaInv'
<1>1. FiltroInv' /\ UNCHANGED <<pagina, filtro, srv>>
  BY FiltroLlega DEF Vuelve
<1>2. ASSUME Sereno'
      PROVE  \E n : /\ Orden(vuelo', n)
                    /\ pagina \notin Sueltas => \E u : u[1] = lista' /\ Fiel(pagina, vuelo', n, u, srv, filtro, marcas')
  <2>1. Sereno /\ k = 1
    BY <1>2, SerenoVuelve
  <2>2. PICK m : /\ Orden(vuelo, m)
                 /\ pagina \notin Sueltas => \E w : w[1] = lista /\ Fiel(pagina, vuelo, m, w, srv, filtro, marcas)
    BY <2>1 DEF ListaInv
  <2>3. CASE pagina \notin Sueltas
    BY <1>2, <2>2, <2>3, FielVuelve
  <2>4. CASE pagina \in Sueltas
    BY <2>1, <2>2, <2>4, CorreDa, OrdenVuelve
  <2> QED
    BY <2>3, <2>4
<1> QED
  BY <1>1, <1>2 DEF ListaInv, Orden

LEMMA ListaFalla ==
  ASSUME BaseInv, ListaInv, NEW k \in 1..Len(vuelo), Falla(k)
  PROVE  ListaInv'
<1>1. FiltroInv' /\ UNCHANGED <<pagina, filtro, srv>>
  BY FiltroLlega DEF Falla
<1>2. ASSUME Sereno'
      PROVE  \E n : /\ Orden(vuelo', n)
                    /\ pagina \notin Sueltas => \E u : u[1] = lista' /\ Fiel(pagina, vuelo', n, u, srv, filtro, marcas')
  <2>1. Sereno /\ Escritura(vuelo[k]) /\ vuelo[k].ida
    BY <1>2, SerenoFalla
  <2>2. PICK m : /\ Orden(vuelo, m)
                 /\ pagina \notin Sueltas => \E w : w[1] = lista /\ Fiel(pagina, vuelo, m, w, srv, filtro, marcas)
    BY <2>1 DEF ListaInv
  <2>3. CASE pagina \notin Sueltas
    BY <1>2, <2>2, <2>3, FielFalla
  <2>4. CASE pagina \in Sueltas
    BY <2>1, <2>2, <2>4, PierdeDa
  <2> QED
    BY <2>3, <2>4
<1> QED
  BY <1>1, <1>2 DEF ListaInv, Orden

LEMMA ListaGuardado ==
  ASSUME BaseInv, ListaInv, NEW k \in 1..Len(vuelo), OnboardingGuardado(k)
  PROVE  ListaInv'
<1>1. FiltroInv' /\ UNCHANGED pagina
  BY FiltroLlega
<1>2. pagina \in Sueltas
  BY DEF BaseInv, OnboardingGuardado, Forma, Sueltas
<1>3. ASSUME Sereno'
      PROVE  \E n : Orden(vuelo', n)
  <2>1. Sereno
    BY <1>3, SerenoResto
  <2>2. PICK m : Orden(vuelo, m)
    BY <2>1 DEF ListaInv
  <2>3. Sale(k) /\ ~vuelo[k].ida
    BY BaseGuardado DEF OnboardingGuardado
  <2>4. /\ m \in Nat /\ m <= Len(vuelo) /\ Len(vuelo) \in Nat /\ (\A j \in 1..Len(vuelo) : vuelo[j].ida <=> j > m)
        /\ Len(vuelo') = Len(vuelo) - 1
        /\ \A j \in 1..Len(vuelo') : Salta(k, j) \in 1..Len(vuelo) \ {k} /\ vuelo'[j] = vuelo[Salta(k, j)]
    BY <2>2, <2>3 DEF Orden, BaseInv, Sale, Sin
  <2>5. k <= m
    BY <2>3, <2>4
  <2>6. \A j \in 1..Len(vuelo') : Salta(k, j) > m <=> j > m - 1
    BY <2>4, <2>5 DEF Salta
  <2>7. PICK r : r = vuelo'
    OBVIOUS
  <2>8. m - 1 \in 0..Len(r)
    BY <2>4, <2>5, <2>7
  <2>9. ASSUME NEW j \in 1..Len(r) PROVE r[j].ida <=> j > m - 1
    <3>1. Salta(k, j) \in 1..Len(vuelo) /\ r[j] = vuelo[Salta(k, j)] /\ (Salta(k, j) > m <=> j > m - 1)
      BY <2>4, <2>6, <2>7
    <3> QED
      BY <2>4, <3>1
  <2> QED
    BY <2>7, <2>8, <2>9 DEF Orden
<1> QED
  BY <1>1, <1>2, <1>3 DEF ListaInv, Orden

\* A call that a page sends is either followed by the list or finds it asked for.
LEMMA EnviadaDa ==
  ASSUME BaseInv, ListaInv, Sereno, Sereno', pagina \notin Sueltas, NEW c \in Llamadas, Envio(c)
  PROVE  Enviada(vuelo, c, lista, filtro)
<1>1. c.ida /\ c.q = filtro /\ Molde(pagina, c)
  BY DEF Envio
<1>2. filtro # Nadie
  <2>1. FiltroInv
    BY DEF ListaInv
  <2>2. pagina \notin {"consulta", "precio"} /\ (pagina = "stock" => dialogo # Cerrado)
    BY DEF Envio
  <2> QED
    BY <2>1, <2>2 DEF FiltroInv, SinLista, Sueltas
<1>3. c.op = "alta" => c.luego # <<>>
  <2>1. <<"lista">> # <<>> /\ pagina # "nueva"
    BY DEF Sueltas
  <2>2. CASE ConRecarga(pagina, c)
    BY <2>1, <2>2 DEF ConRecarga
  <2>3. CASE ~ConRecarga(pagina, c)
    <3>1. c.op # "alta"
      BY <1>1, <2>1, <2>3 DEF Molde, DeLlave, DeEstado, DeStock, DeQuita, DeMarca, DeTodas, DePanel,
                        DeAnexo, DePago, DeAsistente, DeCompra, DeLista, Lecturas
    <3> QED
      BY <3>1
  <2> QED
    BY <2>2, <2>3
<1>4. ASSUME c.local = "voltea"
      PROVE  /\ c.sobre \in DOMAIN lista.filas /\ c.vale = ~lista.filas[c.sobre].activa
             /\ \A k \in 1..Len(vuelo) : ~Cambia(vuelo[k], c.sobre)
  <2>1. /\ Mostrada(c.sobre) /\ c.vale = ~lista.filas[c.sobre].activa
        /\ carrera' \/ \A k \in 1..Len(vuelo) : ~Cambia(vuelo[k], c.sobre)
    BY <1>4 DEF Envio
  <2>2. ~carrera'
    BY DEF Sereno
  <2> QED
    BY <2>1, <2>2 DEF Mostrada
<1> QED
  BY <1>1, <1>2, <1>3, <1>4 DEF Enviada

LEMMA ListaEnvio ==
  ASSUME BaseInv, ListaInv, NEW c \in Llamadas, Envio(c)
  PROVE  ListaInv'
<1>1. vuelo \in Seq(Llamadas) /\ Mas(Llamadas, vuelo, c, vuelo') /\ c.ida /\ lista \in Copias
  <2>1. vuelo \in Seq(Llamadas) /\ Manda(c)
    BY DEF BaseInv, Envio
  <2> QED
    BY <2>1, MandaDa DEF Mas, Envio, BaseInv
<1>2. UNCHANGED <<pagina, filtro, lista, marcas, srv>> /\ (pagina = "stock" => dialogo # Cerrado)
  BY DEF Envio, Toca
<1>3. Sereno' => Sereno
  BY SerenoResto DEF Gesticula
<1>4. FiltroInv
  BY DEF ListaInv
<1>5. FiltroInv'
  BY <1>2, <1>3, <1>4 DEF FiltroInv
<1>6. ASSUME Sereno'
      PROVE  \E m : /\ Orden(vuelo', m)
                    /\ pagina \notin Sueltas => \E w : w[1] = lista /\ Fiel(pagina, vuelo', m, w, srv, filtro, marcas)
  <2>1. PICK m : /\ Orden(vuelo, m)
                 /\ pagina \notin Sueltas => \E w : w[1] = lista /\ Fiel(pagina, vuelo, m, w, srv, filtro, marcas)
    BY <1>3, <1>6 DEF ListaInv
  <2>2. PICK q, r : q = vuelo /\ r = vuelo'
    OBVIOUS
  <2>3. Orden(r, m)
    <3>1. Len(q) \in Nat
      BY <1>1, <2>2
    <3> QED
      BY <1>1, <2>1, <2>2, <3>1, OrdenManda
  <2>4. ASSUME pagina \notin Sueltas
        PROVE  \E w : w[1] = lista /\ Fiel(pagina, r, m, w, srv, filtro, marcas)
    <3>1. PICK w : w[1] = lista /\ Fiel(pagina, q, m, w, srv, filtro, marcas)
      BY <2>1, <2>2, <2>4
    <3>2. Enviada(q, c, lista, filtro)
      BY <1>3, <1>6, <2>2, <2>4, EnviadaDa
    <3>3. Fiel(pagina, r, m, w, srv, filtro, marcas)
      BY <1>1, <2>1, <2>2, <3>1, <3>2, FielManda
    <3> QED
      BY <3>1, <3>3
  <2> QED
    BY <2>2, <2>3, <2>4
<1> QED
  BY <1>2, <1>5, <1>6 DEF ListaInv, Orden

LEMMA ListaLectura ==
  ASSUME BaseInv, ListaInv, NEW c \in Llamadas, Lectura(c)
  PROVE  ListaInv'
<1>1. vuelo \in Seq(Llamadas) /\ Mas(Llamadas, vuelo, c, vuelo') /\ c.ida /\ lista \in Copias
  <2>1. vuelo \in Seq(Llamadas) /\ Manda(c)
    BY DEF BaseInv, Lectura
  <2> QED
    BY <2>1, MandaDa DEF Mas, Lectura, BaseInv
<1>2. /\ UNCHANGED <<pagina, marcas, srv>> /\ pagina \notin Sueltas /\ c.op = "lista" /\ c.q = filtro'
      /\ c.local = Vacio
  BY DEF Lectura, DeLista, Sueltas
<1>3. Sereno' => Sereno
  BY SerenoResto DEF Gesticula
<1>4. FiltroInv
  BY DEF ListaInv
<1>5. \/ UNCHANGED <<filtro, lista>> /\ pagina \notin SinLista \cup {"stock"}
      \/ /\ filtro' \in Filtros /\ (carrera' \/ vuelo = <<>>)
         /\ lista' = lista \/ (lista' = Nada /\ pagina = "consulta")
  BY DEF Lectura
<1>6. filtro' # Nadie
  BY <1>4, <1>5, PaginasAssumption DEF FiltroInv
<1>7. FiltroInv'
  BY <1>2, <1>6 DEF FiltroInv
<1>8. ASSUME NEW l \in Copias PROVE Enviada(vuelo, c, l, filtro')
  <2>1. c.local # "voltea"
    BY <1>2, VacioDa DEF Nombres
  <2> QED
    BY <1>1, <1>2, <1>6, <2>1 DEF Enviada
<1>9. ASSUME Sereno'
      PROVE  \E m : Orden(vuelo', m) /\ \E w : w[1] = lista' /\ Fiel(pagina, vuelo', m, w, srv, filtro', marcas)
  <2>1. PICK m : Orden(vuelo, m) /\ \E w : w[1] = lista /\ Fiel(pagina, vuelo, m, w, srv, filtro, marcas)
    BY <1>2, <1>3, <1>9 DEF ListaInv
  <2>2. PICK q, r, g : q = vuelo /\ r = vuelo' /\ g = filtro'
    OBVIOUS
  <2>3. PICK w : w[1] = lista /\ Fiel(pagina, q, m, w, srv, filtro, marcas)
    BY <2>1, <2>2
  <2>4. g = filtro \/ q = <<>>
    BY <1>5, <1>9, <2>2 DEF Sereno
  <2>5. CASE lista' = lista
    <3>1. Orden(r, m) /\ Fiel(pagina, r, m, w, srv, g, marcas)
      BY <1>1, <1>2, <1>8, <2>1, <2>2, <2>3, <2>4, FielManda
    <3> QED
      BY <2>2, <2>3, <2>5, <3>1
  <2>6. CASE lista' # lista
    <3>1. lista' = Nada /\ pagina = "consulta" /\ q = <<>>
      BY <1>5, <1>9, <2>2, <2>6 DEF Sereno
    <3>2. Nada \in Copias /\ pagina \notin Tres /\ Enviada(q, c, Nada, g) /\ Orden(q, m)
      BY <1>8, <2>1, <2>2, <3>1, NadaDa DEF Tres
    <3>3. \A j \in 1..Len(q) : FALSE
      BY <3>1
    <3>4. Olvidadas(q)
      BY <3>3 DEF Olvidadas
    <3>5. q \in Seq(Llamadas) /\ Mas(Llamadas, q, c, r) /\ c.op = "lista"
      BY <1>1, <1>2, <2>2
    <3>6. Unica(pagina, q, c, r, m, Nada, g)
      BY <3>2, <3>4, <3>5 DEF Unica
    <3>7. \E u : Orden(r, m) /\ u[1] = Nada /\ Fiel(pagina, r, m, u, srv, g, marcas)
      BY <3>6, FielSola
    <3> QED
      BY <2>2, <3>1, <3>7
  <2> QED
    BY <2>5, <2>6
<1> QED
  BY <1>2, <1>7, <1>9 DEF ListaInv, Orden

LEMMA ListaLimpia ==
  ASSUME BaseInv, ListaInv, Limpia
  PROVE  ListaInv'
<1>1. /\ UNCHANGED <<pagina, vuelo, srv, marcas>> /\ pagina \in {"stock", "consulta", "precio"}
      /\ filtro' = Nadie /\ lista' = Nada /\ (carrera' \/ vuelo = <<>>)
      /\ pagina = "stock" => dialogo' = Cerrado
  BY DEF Limpia, Toca
<1>2. FiltroInv'
  BY <1>1, NadaDa DEF FiltroInv, SinLista, Sueltas, Sereno
<1>3. ASSUME Sereno'
      PROVE  \E m : Orden(vuelo', m) /\ \E w : w[1] = lista' /\ Fiel(pagina', vuelo', m, w, srv', filtro', marcas')
  <2>1. vuelo = <<>> /\ pagina \notin Tres
    BY <1>1, <1>3 DEF Sereno, Tres
  <2>2. Orden(vuelo, 0) /\ \E w : w[1] = Nada /\ Fiel(pagina, vuelo, 0, w, srv, Nadie, marcas)
    BY <2>1, FielVacia
  <2> QED
    BY <1>1, <2>2
<1> QED
  BY <1>1, <1>2, <1>3 DEF ListaInv, Orden

\* The rows selected matter to no copy of the list.
LEMMA FielMarcas ==
  ASSUME NEW p, NEW q, NEW m, NEW w, NEW s, NEW f, NEW ms, Fiel(p, q, m, w, s, f, ms),
         NEW ns, ns = ms \/ p = "productos"
  PROVE  Fiel(p, q, m, w, s, f, ns)
<1>1. Marcables(p, q, ms) = Marcables(p, q, ns)
  BY DEF Marcables
<1> QED
  BY <1>1 DEF Fiel

LEMMA ListaQuieta ==
  ASSUME BaseInv, ListaInv,
         \/ CierraDialogo \/ Elige \/ SueltaPanel \/ Teclea \/ UNCHANGED vars
         \/ (\E t \in Nombres, i \in Sujetos : AbreDialogo(t, i))
         \/ OnboardingAvanza \/ \E d \in {0, 1} : OnboardingPasa(d)
  PROVE  ListaInv'
<1>1. Sereno' => Sereno
  BY SerenoResto DEF Gesticula
<1>2. UNCHANGED <<pagina, vuelo, srv, filtro, lista>> /\ (marcas' = marcas \/ pagina = "productos")
  BY DEF CierraDialogo, Elige, SueltaPanel, Teclea, pantalla, vars, Toca, AbreDialogo,
         OnboardingAvanza, OnboardingPasa, Gesto, GestoEn
<1>3. pagina = "stock" => dialogo' = dialogo \/ dialogo' = Cerrado \/ DOMAIN lista.filas # {}
  BY DEF CierraDialogo, Elige, SueltaPanel, Teclea, pantalla, vars, Toca, AbreDialogo, Mostrada,
         OnboardingAvanza, OnboardingPasa, Gesto, GestoEn
<1>4. FiltroInv
  BY DEF ListaInv
<1>5. FiltroInv'
  BY <1>1, <1>2, <1>3, <1>4 DEF FiltroInv
<1>6. ASSUME Sereno'
      PROVE  \E m : /\ Orden(vuelo, m)
                    /\ pagina \notin Sueltas => \E w : w[1] = lista /\ Fiel(pagina, vuelo, m, w, srv, filtro, marcas')
  <2>1. PICK m : /\ Orden(vuelo, m)
                 /\ pagina \notin Sueltas => \E w : w[1] = lista /\ Fiel(pagina, vuelo, m, w, srv, filtro, marcas)
    BY <1>1, <1>6 DEF ListaInv
  <2>2. PICK ns : ns = marcas'
    OBVIOUS
  <2>3. \A w : Fiel(pagina, vuelo, m, w, srv, filtro, marcas) => Fiel(pagina, vuelo, m, w, srv, filtro, ns)
    BY <1>2, <2>2, FielMarcas
  <2> QED
    BY <2>1, <2>2, <2>3
<1> QED
  BY <1>2, <1>5, <1>6 DEF ListaInv, Orden

\* The purchase form gives way to the list of purchases.
LEMMA ListaSale ==
  ASSUME BaseInv, ListaInv, (\E k \in 1..Len(vuelo) : Navega(k)) \/ Cancela
  PROVE  ListaInv'
<1>1. PICK n \in {0, Len(vuelo)} :
        /\ Len(vuelo') = n + 1 /\ vuelo'[n + 1].op = "lista" /\ vuelo'[n + 1].ida
        /\ vuelo'[n + 1].q = Completo
        /\ \A j \in 1..n : vuelo'[j].op = "alta" /\ vuelo'[j].ida = vuelo[j].ida
  BY BaseSale
<1>2. /\ BaseInv' /\ pagina' = "compras" /\ UNCHANGED <<lista, srv>> /\ filtro' = Completo
      /\ \A j \in DOMAIN vuelo' : vuelo'[j].luego = <<>> /\ vuelo'[j].local = Vacio
  BY BaseSale
<1>3. Completo \in Filtros /\ Completo # Nadie
  BY PaginasAssumption
<1>4. FiltroInv'
  BY <1>2, <1>3 DEF FiltroInv, SinLista, Sueltas
<1>5. PICK r, ms : r = vuelo' /\ ms = marcas'
  OBVIOUS
<1>6. n \in Nat /\ lista \in Copias /\ r \in Seq(Llamadas) /\ \A j \in DOMAIN r : Forma("compras", r[j])
  <2>1. Len(vuelo) \in Nat /\ lista \in Copias
    BY DEF BaseInv
  <2>2. vuelo' \in Seq(Llamadas) /\ \A j \in DOMAIN vuelo' : Forma("compras", vuelo'[j])
    BY <1>2 DEF BaseInv
  <2> QED
    BY <1>5, <2>1, <2>2
<1>7. PICK c, q : c = r[n + 1] /\ q = [j \in 1..n |-> r[j]]
  OBVIOUS
<1>8. q \in Seq(Llamadas) /\ Len(q) = n /\ Mas(Llamadas, q, c, r)
  <2>1. Len(r) = n + 1
    BY <1>1, <1>5
  <2> QED
    BY <1>6, <1>7, <2>1 DEF Mas
<1>9. Enviada(q, c, lista, Completo) /\ c.op = "lista"
  <2>1. c.ida /\ c.q = Completo /\ c.op = "lista"
    BY <1>1, <1>5, <1>7
  <2>2. c.local = Vacio
    BY <1>1, <1>2, <1>5, <1>6, <1>7
  <2> QED
    BY <1>3, <2>1, <2>2, VacioDa DEF Enviada, Nombres
<1>10. ASSUME NEW j \in 1..Len(q)
       PROVE  /\ q[j].op = "alta" /\ ~PendeLista(q[j]) /\ (\A x \in Copias : q[j].ida \/ Aplicada(x, q[j]) = x)
              /\ q[j].local # "voltea" /\ ~Pega(q[j]) /\ q[j].ida = vuelo[j].ida
  <2>1. j \in 1..n /\ q[j] = r[j] /\ j \in DOMAIN r
    BY <1>1, <1>5, <1>6, <1>7, <1>8
  <2>2. q[j].op = "alta" /\ q[j].luego = <<>> /\ q[j].local = Vacio /\ q[j].ida = vuelo[j].ida
    BY <1>1, <1>2, <1>5, <2>1
  <2>3. Forma("compras", q[j])
    BY <1>6, <2>1
  <2>4. ~Contains(<<>>, "lista")
    BY DEF Contains
  <2>5. q[j].local \notin {"voltea", "stock", "estado", "quita"}
    BY <2>2, VacioDa DEF Nombres
  <2>6. ASSUME NEW x \in Copias, ~q[j].ida PROVE Aplicada(x, q[j]) = x
    <3>1. PICK a : a = Aplicada(x, q[j])
      OBVIOUS
    <3>2. Traza(x, q[j], a)
      BY <2>2, <2>3, <2>6, <3>1, AplicadaDa
    <3> QED
      BY <2>5, <3>1, <3>2 DEF Traza
  <2> QED
    BY <2>2, <2>4, <2>5, <2>6 DEF PendeLista, Pega
<1>11. ASSUME Sereno'
       PROVE  \E m : Orden(vuelo', m) /\ \E w : w[1] = lista /\ Fiel("compras", vuelo', m, w, srv, Completo, marcas')
  <2>1. Sereno
    BY <1>11, SerenoResto
  <2>2. PICK m0 : Orden(vuelo, m0)
    BY <2>1 DEF ListaInv
  <2>3. PICK m : m = IF n = 0 THEN 0 ELSE m0
    OBVIOUS
  <2>4. Orden(q, m)
    BY <1>6, <1>8, <1>10, <1>1, <2>2, <2>3 DEF Orden
  <2>5. \E w : Orden(r, m) /\ w[1] = lista /\ Fiel("compras", r, m, w, srv, Completo, ms)
    <3>1. Olvidadas(q)
      BY <1>10 DEF Olvidadas
    <3>2. PICK p, l, s, g : p = "compras" /\ l = lista /\ s = srv /\ g = Completo
      OBVIOUS
    <3>3. l \in Copias /\ Enviada(q, c, l, g) /\ c.op = "lista" /\ (p \notin Tres \/ DOMAIN l.filas = {})
      BY <1>6, <1>9, <3>2 DEF Tres
    <3>4. q \in Seq(Llamadas) /\ Mas(Llamadas, q, c, r)
      BY <1>8
    <3>5. Unica(p, q, c, r, m, l, g)
      BY <2>4, <3>1, <3>3, <3>4 DEF Unica
    <3>6. \E w : Orden(r, m) /\ w[1] = l /\ Fiel(p, r, m, w, s, g, ms)
      BY <3>5, FielSola
    <3> QED
      BY <3>2, <3>6
  <2> QED
    BY <1>5, <2>5
<1> QED
  BY <1>2, <1>4, <1>11 DEF ListaInv, Orden

LEMMA ListaEmpieza ==
  ASSUME Init
  PROVE  ListaInv
<1>1. /\ pagina \in SinLista => filtro = Nadie
      /\ pagina \notin SinLista => filtro \in Filtros /\ filtro # Nadie
  BY PaginasAssumption DEF Init
<1>2. /\ lista = Nada /\ vuelo = IF pagina \in SinLista THEN <<>> ELSE <<Listar>>
  BY DEF Init
<1>3. FiltroInv
  BY <1>1, <1>2, NadaDa DEF FiltroInv, SinLista, Sueltas
<1>4. CASE pagina \in SinLista
  <2>1. vuelo = <<>> /\ filtro = Nadie /\ pagina \notin Tres
    BY <1>1, <1>2, <1>4 DEF SinLista, Tres
  <2>2. Orden(vuelo, 0) /\ \E w : w[1] = Nada /\ Fiel(pagina, vuelo, 0, w, srv, Nadie, marcas)
    BY <2>1, FielVacia
  <2> QED
    BY <1>2, <1>3, <2>1, <2>2 DEF ListaInv, Orden
<1>5. CASE pagina \notin SinLista
  <2>1. filtro # Nadie /\ vuelo = <<Listar>>
    BY <1>1, <1>2, <1>5
  <2>2. PICK c, q, r : c = Listar /\ q = <<>> /\ r = vuelo
    OBVIOUS
  <2>3. c.op = "lista" /\ c.ida /\ c.q = filtro /\ c.local = Vacio
    BY <2>1, <2>2 DEF Listar, Llamada
  <2>4. Mas(Llamadas, q, c, r) /\ q \in Seq(Llamadas)
    <3>1. vuelo \in Seq(Llamadas)
      BY BaseEmpieza DEF BaseInv
    <3>2. q \in Seq(Llamadas) /\ Len(q) = 0 /\ Len(r) = 1 /\ r[1] = c /\ \A j \in 1..Len(q) : FALSE
      BY <2>1, <2>2
    <3> QED
      BY <2>2, <3>1, <3>2 DEF Mas
  <2>5. Orden(q, 0) /\ Olvidadas(q)
    <3>1. Len(q) = 0 /\ \A j \in 1..Len(q) : FALSE
      BY <2>2
    <3> QED
      BY <3>1 DEF Orden, Olvidadas
  <2>6. Enviada(q, c, Nada, filtro)
    BY <2>1, <2>3, VacioDa DEF Enviada, Nombres
  <2>7. Unica(pagina, q, c, r, 0, Nada, filtro)
    BY <2>3, <2>4, <2>5, <2>6, NadaDa DEF Unica
  <2>8. \E w : Orden(r, 0) /\ w[1] = Nada /\ Fiel(pagina, r, 0, w, srv, filtro, marcas)
    BY <2>7, FielSola
  <2> QED
    BY <1>2, <1>3, <2>1, <2>2, <2>8 DEF ListaInv, Orden
<1> QED
  BY <1>4, <1>5

LEMMA ListaPaso ==
  ASSUME BaseInv, ListaInv, Paso
  PROVE  ListaInv'
BY ListaAtiende, ListaDeCache, ListaVuelve, ListaFalla, ListaGuardado, ListaEnvio, ListaLectura, ListaLimpia,
   ListaQuieta, ListaSale
   DEF Paso, Gesticula

LEMMA ListaCalma ==
  ASSUME BaseInv, ListaInv
  PROVE  FielEnCalma
<1>1. ASSUME vuelo = <<>>, Sereno
      PROVE  Coincide
  <2>1. FiltroInv /\ lista \in Copias /\ srv \in [Filas -> Registros]
    BY DEF ListaInv, BaseInv
  <2>2. CASE pagina \in Sueltas
    BY <2>1, <2>2 DEF FiltroInv, Coincide
  <2>3. CASE pagina \notin Sueltas
    <3>1. PICK m, w : Orden(vuelo, m) /\ w[1] = lista /\ Fiel(pagina, vuelo, m, w, srv, filtro, marcas)
      BY <1>1, <2>3 DEF ListaInv
    <3>2. Len(vuelo) = 0 /\ \A k \in 1..Len(vuelo) : FALSE
      BY <1>1
    <3>3. m = 0 /\ ~Firmes(vuelo) /\ Marcables(pagina, vuelo, marcas) \subseteq marcas
      BY <3>1, <3>2 DEF Orden, Firmes, Marcables
    <3>4. Encaja(pagina, lista, srv, filtro, Marcables(pagina, vuelo, marcas))
      BY <3>1, <3>3 DEF Fiel
    <3>5. lista.de = filtro /\ (filtro # Nadie => DOMAIN lista.filas = Visibles(srv, filtro))
      BY <3>4 DEF Encaja, Visibles, Vistos
    <3>6. ASSUME NEW i \in DOMAIN lista.filas
          PROVE  /\ srv[i].existe
                 /\ [lista.filas[i] EXCEPT !.activa = @ /\ i \notin marcas]
                    = [Vista(srv[i], filtro) EXCEPT !.activa = @ /\ i \notin marcas]
      <4>1. PICK a, b : a = lista.filas[i] /\ b = Vista(srv[i], filtro)
        OBVIOUS
      <4>0. i \in Filas /\ srv[i] \in Registros /\ srv[i].existe /\ filtro \in Filtros \cup {Nadie}
        BY <2>1, <3>4, <3>6, FichaDa DEF Encaja, BaseInv
      <4>2. b.existe /\ a.n = b.n /\ (a.activa = b.activa \/ i \in marcas)
        BY <3>3, <3>4, <4>0, <4>1, VistaDa DEF Encaja
      <4>3. a \in Vivas /\ b \in Fichas
        BY <2>1, <3>6, <4>0, <4>1, FichaDa, VistaDa
      <4>4. a.existe = b.existe /\ (a.activa /\ i \notin marcas) = (b.activa /\ i \notin marcas)
        BY <4>2, <4>3 DEF Vivas, Fichas
      <4>5. [a EXCEPT !.activa = @ /\ i \notin marcas] = [b EXCEPT !.activa = @ /\ i \notin marcas]
        BY <4>2, <4>3, <4>4 DEF Vivas, Fichas
      <4> QED
        BY <4>0, <4>1, <4>5
    <3> QED
      BY <3>5, <3>6 DEF Coincide
  <2> QED
    BY <2>2, <2>3
<1> QED
  BY <1>1 DEF FielEnCalma, Calma, Sereno

\* Every page at rest is faithful, for any rows, filters, pages visited and bounds: what
\* it shows is what the server holds, its panels are those of their titles, its sales
\* known annulled stay so, and no button is left disabled by a call that is gone.
THEOREM PaginasFieles == PanelSpec => []PantallaFiel
<1>1. PanelInit => BaseInv /\ Ocupados /\ PanelInv /\ ListaInv
  <2>1. PanelInit => Len(vuelo) <= MaxVuelo
    BY PaginasAssumption DEF PanelInit, Init
  <2>2. PanelInit => ocupado = {} /\ anuladas = {}
    BY DEF PanelInit, Init
  <2> QED
    BY <2>1, <2>2, BaseEmpieza, PanelEmpieza, ListaEmpieza DEF PanelInit, Ocupados
<1>2. BaseInv /\ Ocupados /\ PanelInv /\ ListaInv /\ [PanelNext]_panelVars
      => BaseInv' /\ Ocupados' /\ PanelInv' /\ ListaInv'
  BY PasoDa, BasePaso, OcupadosPaso, PanelPaso, ListaPaso
<1>3. BaseInv /\ Ocupados /\ PanelInv /\ ListaInv => PantallaFiel
  BY TiposDa, PanelCalma, ListaCalma DEF PantallaFiel
<1> QED
  BY <1>1, <1>2, <1>3, PTL DEF PanelSpec
=============================================================================
