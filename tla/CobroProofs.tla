---------------------------- MODULE CobroProofs -----------------------------
(***************************************************************************)
(* Proofs about the cart (module Carrito) and the screen around it (module *)
(* Cobro): the total and the lines of the cart, the stock they may use,    *)
(* the sales that are recorded and the numbers of their tickets.           *)
(***************************************************************************)
EXTENDS Cobro, SumTheorems

-----------------------------------------------------------------------------
(* The greatest and the least of a finite set of integers *)

LEMMA MaxDa ==
  ASSUME NEW S, S \subseteq Int, IsFiniteSet(S), S # {}
  PROVE  Max(S) \in S /\ \A y \in S : Max(S) >= y
<1>1. PICK R : R = {r \in Int \X Int : r[1] >= r[2]}
  OBVIOUS
<1>2. /\ \A x, y \in S : <<x, y>> \in R <=> x >= y
      /\ \A x, y \in S : x >= y \/ y >= x
  BY <1>1
<1>3. \A x, y, z \in S : x >= y /\ y >= z => x >= z
  OBVIOUS
<1>4. \E x \in S : \A y \in S : <<x, y>> \in R
  BY <1>2, <1>3, Extremo
<1>5. \E x \in S : \A y \in S : x >= y
  BY <1>2, <1>4
<1> QED
  BY <1>5 DEF Max

LEMMA MinDa ==
  ASSUME NEW S, S \subseteq Int, IsFiniteSet(S), S # {}
  PROVE  Min(S) \in S /\ \A y \in S : Min(S) <= y
<1>1. PICK R : R = {r \in Int \X Int : r[1] <= r[2]}
  OBVIOUS
<1>2. /\ \A x, y \in S : <<x, y>> \in R <=> x <= y
      /\ \A x, y \in S : x <= y \/ y <= x
  BY <1>1
<1>3. \A x, y, z \in S : x <= y /\ y <= z => x <= z
  OBVIOUS
<1>4. \E x \in S : \A y \in S : <<x, y>> \in R
  BY <1>2, <1>3, Extremo
<1>5. \E x \in S : \A y \in S : x <= y
  BY <1>2, <1>4
<1> QED
  BY <1>5 DEF Min

LEMMA MaxDeDos ==
  ASSUME NEW a \in Int, NEW b \in Int
  PROVE  Max({a, b}) = IF a >= b THEN a ELSE b
<1>1. \E x \in {a, b} : \A y \in {a, b} : x >= y
  OBVIOUS
<1>2. Max({a, b}) \in {a, b} /\ \A y \in {a, b} : Max({a, b}) >= y
  BY <1>1 DEF Max
<1> QED
  BY <1>2

LEMMA MinDeDos ==
  ASSUME NEW a \in Int, NEW b \in Int
  PROVE  Min({a, b}) = IF a <= b THEN a ELSE b
<1>1. \E x \in {a, b} : \A y \in {a, b} : x <= y
  OBVIOUS
<1>2. Min({a, b}) \in {a, b} /\ \A y \in {a, b} : Min({a, b}) <= y
  BY <1>1 DEF Min
<1> QED
  BY <1>2

LEMMA ImagenFinita ==
  ASSUME NEW S, IsFiniteSet(S), NEW f
  PROVE  IsFiniteSet({f[x] : x \in S})
<1>1. PICK T : T = {f[x] : x \in S}
  OBVIOUS
<1>2. PICK g : g = [x \in S |-> f[x]]
  OBVIOUS
<1>3. g \in Surjection(S, T)
  BY <1>1, <1>2 DEF Surjection
<1> QED
  BY <1>1, <1>3, FS_Surjection

\* A sum of amounts is an amount, and positive when one of them is.
LEMMA SumaNatural ==
  ASSUME NEW S, IsFiniteSet(S), NEW f \in [S -> Nat]
  PROVE  SumFunction(f) \in Nat
<1>1. f \in [S -> Int]
  OBVIOUS
<1>2. PICK F \in [SUBSET S -> Int] : F = Sums(f, S) /\ \A s \in SUBSET S : F[s] = Step(f, F, s)
  BY <1>1, SumsEquation
<1> DEFINE B == {s \in SUBSET S : F[s] < 0}
<1>3. ASSUME B # {} PROVE FALSE
  <2>1. PICK m \in B : \A s \in B : ~(s \subseteq m /\ s # m)
    <3>1. B \subseteq SUBSET S
      OBVIOUS
    <3> HIDE DEF B
    <3> QED
      BY <1>3, <3>1, MinimalSubset
  <2>2. F[m] = Step(f, F, m) /\ F[m] < 0
    BY <1>2, <2>1
  <2>3. m # {}
    BY <2>2 DEF Step
  <2>4. Chosen(m) \in m /\ m \ {Chosen(m)} \in SUBSET S
    BY <2>1, <2>3, ChosenIn
  <2>5. F[m \ {Chosen(m)}] \in Int /\ F[m \ {Chosen(m)}] >= 0
    BY <1>2, <2>1, <2>4
  <2>6. f[Chosen(m)] \in Nat
    BY <2>1, <2>4
  <2> QED
    BY <2>2, <2>3, <2>5, <2>6 DEF Step
<1>4. F[S] \in Int /\ F[S] >= 0
  BY <1>3
<1> QED
  BY <1>1, <1>2, <1>4, SumIs

LEMMA SumaPositiva ==
  ASSUME NEW S, IsFiniteSet(S), S # {}, NEW f \in [S -> Nat \ {0}]
  PROVE  SumFunction(f) \in Nat \ {0}
<1>1. PICK a \in S : TRUE
  OBVIOUS
<1>2. PICK g : g = [x \in S \ {a} |-> f[x]]
  OBVIOUS
<1>3. /\ g \in [S \ {a} -> Nat] /\ g \in [S \ {a} -> Int] /\ f \in [S -> Int]
      /\ \A x \in S \ {a} : f[x] = g[x]
  BY <1>2
<1>4. IsFiniteSet(S \ {a})
  BY FS_Subset
<1>5. SumFunction(g) \in Nat
  BY <1>3, <1>4, SumaNatural
<1>6. SumFunction(f) = SumFunction(g) + f[a]
  BY <1>3, SumExtend
<1>7. f[a] \in Nat \ {0}
  BY <1>1
<1> QED
  BY <1>5, <1>6, <1>7

-----------------------------------------------------------------------------
(* The lines of a cart and what is counted in them *)

Promos == [prods : (SUBSET Productos) \ {{}}, n : Nat \ {0}, valor : Nat,
           tipo : {"porcentaje", "monto_fijo"}]
Renglones == [prod : Productos, w : Nat, cant : Nat \ {0}, peso : Nat, desc : 0 .. 100, sub : Nat]

Una(lineas) == \A i, j \in DOMAIN lineas :
  lineas[i].prod = lineas[j].prod /\ lineas[i].w = lineas[j].w => i = j

Listados == Listas \cup {<<>>}

LEMMA Constantes ==
  /\ Listados \subseteq Seq(Promos) /\ IsFiniteSet(Productos) /\ Nada \notin Productos
  /\ \A p \in Productos : Precio[p] \in Nat /\ Precio[p] > 0
<1>1. Listas \subseteq Seq(Promos)
  BY CarritoAssumption, Zenon DEF Promos
<1>2. <<>> \in Seq(Promos)
  OBVIOUS
<1>3. Precio \in [Productos -> Nat \ {0}] /\ IsFiniteSet(Productos) /\ Nada \notin Productos
  BY CarritoAssumption
<1>4. \A p \in Productos : Precio[p] \in Nat /\ Precio[p] > 0
  BY <1>3
<1> QED
  BY <1>1, <1>2, <1>3, <1>4 DEF Listados

LEMMA IndiceDa ==
  ASSUME NEW lineas \in Seq(Renglones), NEW p, NEW w
  PROVE  LET i == Indice(lineas, p, w) IN
         \/ i = 0 /\ \A j \in DOMAIN lineas : ~(lineas[j].prod = p /\ lineas[j].w = w)
         \/ i \in DOMAIN lineas /\ i # 0 /\ lineas[i].prod = p /\ lineas[i].w = w
<1>1. PICK I : I = {i \in 1 .. Len(lineas) : lineas[i].prod = p /\ lineas[i].w = w}
  OBVIOUS
<1>2. Indice(lineas, p, w) = IF I # {} THEN Min(I) ELSE 0
  BY <1>1 DEF Indice, SelectInSeq
<1>3. DOMAIN lineas = 1 .. Len(lineas) /\ Len(lineas) \in Nat
  OBVIOUS
<1>4. CASE I = {}
  BY <1>1, <1>2, <1>3, <1>4
<1>5. CASE I # {}
  <2>1. I \subseteq Nat
    BY <1>1
  <2>2. \E m \in I : \A k \in I : m <= k
    BY <1>5, <2>1, LeastNatural
  <2>3. Min(I) \in I
    BY <2>2 DEF Min
  <2>4. PICK m \in I : m = Min(I)
    BY <2>3
  <2> QED
    BY <1>1, <1>2, <1>3, <1>5, <2>4
<1> QED
  BY <1>4, <1>5

LEMMA CuentaDa ==
  ASSUME NEW lineas \in Seq(Renglones)
  PROVE  /\ Cuenta(lineas) \in [Productos -> Nat]
         /\ \A p \in Productos : Cuenta(lineas)[p] = CantidadDe(lineas, p)
         /\ Una(lineas) => \A i \in DOMAIN lineas :
              DeUnidad(lineas[i]) => Cuenta(lineas)[lineas[i].prod] = lineas[i].cant
<1>1. ASSUME NEW p
      PROVE  CantidadDe(lineas, p) \in Nat
  <2>1. CASE Indice(lineas, p, 0) = 0
    BY <2>1 DEF CantidadDe
  <2>2. CASE Indice(lineas, p, 0) # 0
    <3>1. Indice(lineas, p, 0) \in DOMAIN lineas
      BY <2>2, IndiceDa
    <3>2. lineas[Indice(lineas, p, 0)] \in Renglones
      BY <3>1
    <3> QED
      BY <2>2, <3>2 DEF CantidadDe, Renglones
  <2> QED
    BY <2>1, <2>2
<1>2. ASSUME Una(lineas), NEW i \in DOMAIN lineas, DeUnidad(lineas[i])
      PROVE  CantidadDe(lineas, lineas[i].prod) = lineas[i].cant
  <2>1. PICK k : k = Indice(lineas, lineas[i].prod, 0)
    OBVIOUS
  <2>2. k # 0 /\ k \in DOMAIN lineas /\ lineas[k].prod = lineas[i].prod /\ lineas[k].w = 0
    BY <1>2, <2>1, IndiceDa DEF DeUnidad
  <2>3. k = i
    BY <1>2, <2>2 DEF Una, DeUnidad
  <2> QED
    BY <2>1, <2>2, <2>3 DEF CantidadDe
<1>3. \A i \in DOMAIN lineas : lineas[i].prod \in Productos
  <2>1. \A i \in DOMAIN lineas : lineas[i] \in Renglones
    OBVIOUS
  <2> QED
    BY <2>1 DEF Renglones
<1> QED
  BY <1>1, <1>2, <1>3 DEF Cuenta

\* What is counted depends on the products, the ids and the quantities only.
LEMMA MismaCuenta ==
  ASSUME NEW a \in Seq(Renglones), NEW b \in Seq(Renglones), Len(a) = Len(b),
         \A i \in DOMAIN a : b[i].prod = a[i].prod /\ b[i].w = a[i].w /\ b[i].cant = a[i].cant
  PROVE  Cuenta(b) = Cuenta(a) /\ (Una(a) => Una(b))
<1>1. DOMAIN a = 1 .. Len(a) /\ DOMAIN b = 1 .. Len(a)
  OBVIOUS
<1>2. ASSUME NEW p PROVE Indice(b, p, 0) = Indice(a, p, 0)
  <2>1. {i \in 1 .. Len(b) : b[i].prod = p /\ b[i].w = 0}
          = {i \in 1 .. Len(a) : a[i].prod = p /\ a[i].w = 0}
    BY <1>1
  <2> QED
    BY <2>1 DEF Indice, SelectInSeq
<1>3. ASSUME NEW p PROVE CantidadDe(b, p) = CantidadDe(a, p)
  <2>1. Indice(a, p, 0) # 0 => Indice(a, p, 0) \in DOMAIN a
    BY IndiceDa
  <2> QED
    BY <1>2, <2>1 DEF CantidadDe
<1>4. Una(a) => Una(b)
  BY <1>1 DEF Una
<1> QED
  BY <1>3, <1>4 DEF Cuenta

-----------------------------------------------------------------------------
(* Discounts: none is more than what the line costs *)

LEMMA PctAcotado ==
  ASSUME NEW x \in Nat, NEW d \in 0 .. 100
  PROVE  Pct(x, d) \in 0 .. x
<1>1. x * d \in Nat /\ x * d <= 100 * x
  <2>1. d \in Nat /\ d <= 100
    OBVIOUS
  <2>2. x * d <= x * 100
    BY <2>1
  <2> QED
    BY <2>1, <2>2
<1>2. PICK y \in Nat : y = x * d
  BY <1>1
<1>3. y \div 100 \in Nat /\ y \div 100 <= x
  BY <1>1, <1>2
<1> QED
  BY <1>2, <1>3 DEF Pct

LEMMA SubtotalDa ==
  ASSUME NEW l \in Renglones, NEW base \in Nat, NEW rebaja \in 0 .. base
  PROVE  Subtotal(l, base, rebaja) \in 0 .. base
<1>1. Pct(base, l.desc) \in 0 .. base
  BY PctAcotado DEF Renglones
<1>2. PICK a \in 0 .. base : a = Pct(base, l.desc)
  BY <1>1
<1>3. Max({a, rebaja}) \in 0 .. base
  BY MaxDeDos
<1> QED
  BY <1>2, <1>3 DEF Subtotal

LEMMA JuegosDa ==
  ASSUME NEW promo \in Promos, NEW u, \A p \in promo.prods : u[p] \in Int
  PROVE  Juegos(promo, u) \in Int
<1>1. PICK f : f = [p \in promo.prods |-> u[p] \div promo.n]
  OBVIOUS
<1>0. PICK S : S = {f[p] : p \in promo.prods}
  OBVIOUS
<1>2. promo.n \in Nat /\ promo.n > 0 /\ promo.prods \subseteq Productos /\ promo.prods # {}
  BY DEF Promos
<1>3. S \subseteq Int
  <2>1. \A x \in Int : x \div promo.n \in Int
    BY <1>2
  <2> QED
    BY <1>0, <1>1, <2>1
<1>4. IsFiniteSet(S)
  <2>1. IsFiniteSet(promo.prods)
    BY <1>2, Constantes, FS_Subset
  <2> QED
    BY <1>0, <2>1, ImagenFinita
<1>5. S # {}
  BY <1>0, <1>2
<1>6. S = {u[p] \div promo.n : p \in promo.prods}
  BY <1>0, <1>1
<1> QED
  BY <1>3, <1>4, <1>5, <1>6, MinDa DEF Juegos

LEMMA RebajaDa ==
  ASSUME NEW promo \in Promos, NEW u \in [Productos -> Nat], NEW p \in promo.prods
  PROVE  Rebaja(promo, u, p) \in Int /\ Rebaja(promo, u, p) <= u[p] * Precio[p]
<1>1. promo.prods \subseteq Productos /\ promo.prods # {} /\ promo.n \in Nat /\ promo.valor \in Nat
      /\ p \in Productos
  BY DEF Promos
<1>2. PICK j \in Int : j = Juegos(promo, u)
  BY <1>1, JuegosDa
<1>3. Precio[p] \in Nat /\ u[p] \in Nat
  BY <1>1, Constantes
<1>4. Pct(j * promo.n * Precio[p], promo.valor) \in Int
  <2>1. PICK x \in Int : x = j * promo.n * Precio[p] * promo.valor
    BY <1>1, <1>3
  <2>2. x \div 100 \in Int
    OBVIOUS
  <2> QED
    BY <2>1, <2>2 DEF Pct
<1>5. (j * promo.valor * Precio[p]) \div SumFunction([q \in promo.prods |-> Precio[q]]) \in Int
  <2>1. PICK f : f = [q \in promo.prods |-> Precio[q]]
    OBVIOUS
  <2>2. f \in [promo.prods -> Nat \ {0}]
    BY <1>1, <2>1, Constantes
  <2>3. IsFiniteSet(promo.prods)
    BY <1>1, Constantes, FS_Subset
  <2>4. PICK s \in Nat : s = SumFunction(f) /\ s > 0
    BY <1>1, <2>2, <2>3, SumaPositiva
  <2>5. PICK x \in Int : x = j * promo.valor * Precio[p]
    BY <1>1, <1>3
  <2>6. x \div s \in Int
    BY <2>4
  <2> QED
    BY <2>1, <2>4, <2>5, <2>6
<1>6. PICK monto \in Int : Rebaja(promo, u, p) = Min({monto, u[p] * Precio[p]})
  BY <1>2, <1>4, <1>5 DEF Rebaja
<1>7. PICK tope \in Int : tope = u[p] * Precio[p]
  BY <1>3
<1>8. Min({monto, tope}) \in Int /\ Min({monto, tope}) <= tope
  BY MinDeDos
<1> QED
  BY <1>6, <1>7, <1>8

LEMMA RebajaPromoDa ==
  ASSUME NEW lista \in Seq(Promos), NEW u \in [Productos -> Nat], NEW p \in Productos
  PROVE  RebajaPromo(lista, u, p) \in 0 .. u[p] * Precio[p]
<1>1. PICK A : A = {i \in 1 .. Len(lista) : p \in lista[i].prods}
  OBVIOUS
<1>2. PICK f : f = [i \in A |-> Rebaja(lista[i], u, p)]
  OBVIOUS
<1>0. PICK R : R = {f[i] : i \in A}
  OBVIOUS
<1>3. PICK tope \in Nat : tope = u[p] * Precio[p]
  BY Constantes
<1>4. \A i \in A : lista[i] \in Promos /\ p \in lista[i].prods
  BY <1>1
<1>5. \A r \in R : r \in Int /\ r <= tope
  BY <1>0, <1>2, <1>3, <1>4, RebajaDa
<1>6. IsFiniteSet({0} \cup R)
  <2>1. Len(lista) \in Nat /\ 1 \in Int
    OBVIOUS
  <2>2. IsFiniteSet(1 .. Len(lista))
    BY <2>1, FS_Interval
  <2>3. IsFiniteSet(A)
    BY <1>1, <2>2, FS_Subset
  <2>4. IsFiniteSet(R)
    BY <1>0, <2>3, ImagenFinita
  <2> QED
    BY <2>4, FS_AddElement
<1>7. PICK S : S = {0} \cup R
  OBVIOUS
<1>8. S \subseteq Int /\ 0 \in S /\ \A r \in S : r <= tope
  BY <1>3, <1>5, <1>7
<1>9. Max(S) \in S /\ Max(S) >= 0
  BY <1>6, <1>7, <1>8, MaxDa
<1>10. Max(S) \in Int /\ Max(S) <= tope /\ Max(S) >= 0
  BY <1>8, <1>9
<1>11. RebajaPromo(lista, u, p) = Max(S)
  <2>1. R = {Rebaja(lista[i], u, p) : i \in A}
    BY <1>0, <1>2
  <2> QED
    BY <1>1, <1>7, <2>1 DEF RebajaPromo
<1> QED
  BY <1>3, <1>10, <1>11

-----------------------------------------------------------------------------
(* Carts *)

Partes == {"lineas", "global", "total", "conDescuento", "sel"}
Carros == [lineas : Seq(Renglones), global : 0 .. 100, total : Nat, conDescuento : Nat, sel : Int]

\* Each line of cart c costs what it should, with the promotions of lista; a
\* line by weight of a product in exc may have got a quantity of its own.
AlDia(c, lista, exc) ==
  \A i \in DOMAIN c.lineas : DeUnidad(c.lineas[i]) \/ c.lineas[i].prod \notin exc
    => c.lineas[i].sub = Debido(lista, c.lineas, c.lineas[i])

\* The last row, or the first of an empty cart.
Tope(n) == IF n = 0 THEN 0 ELSE n - 1

Bien(c, lista, exc) ==
  /\ c \in Carros /\ Una(c.lineas)
  /\ c.sel \in -1 .. Tope(Len(c.lineas))
  /\ c.total = ComputeTotal(c.lineas)
  /\ c.conDescuento = ComputeTotalConDescuento(c.total, c.global)
  /\ AlDia(c, lista, exc)

\* What a handler may leave before the promotions are looked at again.
Previo(c, exc) ==
  /\ DOMAIN c = Partes /\ c.lineas \in Seq(Renglones) /\ Una(c.lineas)
  /\ c.global \in 0 .. 100 /\ c.sel \in -1 .. Tope(Len(c.lineas))
  /\ \A i \in DOMAIN c.lineas : ~DeUnidad(c.lineas[i]) /\ c.lineas[i].prod \notin exc
       => c.lineas[i].sub = Subtotal(c.lineas[i], Base(c.lineas[i]), 0)

LEMMA DebidoDa ==
  ASSUME NEW lista \in Listados, NEW lineas \in Seq(Renglones), NEW l \in Renglones,
         DeUnidad(l) => Cuenta(lineas)[l.prod] = l.cant
  PROVE  Debido(lista, lineas, l) \in Nat
<1>1. l.prod \in Productos /\ l.cant \in Nat /\ l.peso \in Nat
  BY DEF Renglones
<1>2. Base(l) \in Nat
  BY <1>1, Constantes DEF Base
<1>3. lista \in Seq(Promos)
  BY Constantes
<1>4. CASE DeUnidad(l)
  <2>1. PICK u \in [Productos -> Nat] : u = Cuenta(lineas)
    BY CuentaDa
  <2>2. RebajaPromo(lista, u, l.prod) \in 0 .. u[l.prod] * Precio[l.prod]
    BY <1>1, <1>3, RebajaPromoDa
  <2>3. RebajaPromo(lista, u, l.prod) \in 0 .. Base(l)
    BY <1>4, <2>1, <2>2 DEF Base
  <2>4. Debido(lista, lineas, l) = Subtotal(l, Base(l), RebajaPromo(lista, u, l.prod))
    BY <1>4, <2>1 DEF Debido
  <2> QED
    BY <1>2, <2>3, <2>4, SubtotalDa
<1>5. CASE ~DeUnidad(l)
  <2>1. Debido(lista, lineas, l) = Subtotal(l, Base(l), 0)
    BY <1>5 DEF Debido
  <2> QED
    BY <1>2, <2>1, SubtotalDa
<1> QED
  BY <1>4, <1>5

LEMMA TotalDa ==
  ASSUME NEW lineas \in Seq(Renglones), NEW g \in 0 .. 100
  PROVE  /\ ComputeTotal(lineas) \in Nat
         /\ ComputeTotalConDescuento(ComputeTotal(lineas), g) \in Nat
<1>1. PICK f : f = [i \in DOMAIN lineas |-> lineas[i].sub]
  OBVIOUS
<1>2. f \in [DOMAIN lineas -> Nat]
  <2>1. \A i \in DOMAIN lineas : lineas[i] \in Renglones
    OBVIOUS
  <2> QED
    BY <1>1, <2>1 DEF Renglones
<1>3. IsFiniteSet(DOMAIN lineas)
  <2>1. DOMAIN lineas = 1 .. Len(lineas) /\ Len(lineas) \in Int /\ 1 \in Int
    OBVIOUS
  <2> QED
    BY <2>1, FS_Interval
<1>4. PICK x \in Nat : x = ComputeTotal(lineas)
  BY <1>1, <1>2, <1>3, SumaNatural DEF ComputeTotal
<1>5. Pct(x, g) \in 0 .. x
  BY PctAcotado
<1> QED
  BY <1>4, <1>5 DEF ComputeTotalConDescuento

LEMMA ConDa ==
  ASSUME NEW c, DOMAIN c = Partes, c.global \in 0 .. 100, c.sel \in Int,
         NEW lineas \in Seq(Renglones)
  PROVE  LET d == Con(c, lineas) IN
         /\ d \in Carros /\ d.lineas = lineas /\ d.global = c.global /\ d.sel = c.sel
         /\ d.total = ComputeTotal(lineas)
         /\ d.conDescuento = ComputeTotalConDescuento(d.total, d.global)
<1>1. PICK x \in Nat : x = ComputeTotal(lineas)
  BY TotalDa
<1>2. PICK y \in Nat : y = ComputeTotalConDescuento(x, c.global)
  BY <1>1, TotalDa
<1>3. PICK d : d = [c EXCEPT !.lineas = lineas, !.total = x, !.conDescuento = y]
  OBVIOUS
<1>4. Con(c, lineas) = d
  BY <1>1, <1>2, <1>3 DEF Con
<1>5. DOMAIN d = Partes /\ d.lineas = lineas /\ d.total = x /\ d.conDescuento = y
      /\ d.global = c.global /\ d.sel = c.sel
  BY <1>3 DEF Partes
<1>6. d = [lineas |-> lineas, global |-> c.global, total |-> x, conDescuento |-> y, sel |-> c.sel]
  BY <1>3 DEF Partes
<1>7. d \in Carros
  BY <1>6 DEF Carros
<1> QED
  BY <1>1, <1>2, <1>4, <1>5, <1>7

\* What is due for a line depends on the line and on what is counted.
LEMMA MismoDebido ==
  ASSUME NEW lista, NEW a, NEW b, Cuenta(a) = Cuenta(b), NEW l, NEW m,
         l.prod = m.prod, l.w = m.w, l.cant = m.cant, l.peso = m.peso, l.desc = m.desc
  PROVE  Debido(lista, a, l) = Debido(lista, b, m)
<1>1. DeUnidad(l) = DeUnidad(m)
  BY DEF DeUnidad
<1>2. Base(l) = Base(m)
  BY <1>1 DEF Base
<1> QED
  BY <1>1, <1>2 DEF Debido, Subtotal

(* The effect on cartKey and promociones puts a cart right: same lines, with *)
(* the subtotals and the totals that are due.                               *)
LEMMA EfectoDa ==
  ASSUME NEW lista \in Listados, NEW c, NEW exc, Previo(c, exc)
  PROVE  LET d == SetPromoDiscounts(lista, c) IN
         /\ Bien(d, lista, exc) /\ d.sel = c.sel /\ d.global = c.global
         /\ Len(d.lineas) = Len(c.lineas)
         /\ \A i \in DOMAIN c.lineas :
              /\ d.lineas[i].prod = c.lineas[i].prod /\ d.lineas[i].w = c.lineas[i].w
              /\ d.lineas[i].cant = c.lineas[i].cant
<1>1. PICK a \in Seq(Renglones) : a = c.lineas
  BY DEF Previo
<1>2. PICK b : b = [i \in DOMAIN a |-> IF DeUnidad(a[i]) THEN [a[i] EXCEPT !.sub = Debido(lista, a, a[i])]
                                       ELSE a[i]]
  OBVIOUS
<1>3. PICK d : d = SetPromoDiscounts(lista, c)
  OBVIOUS
<1>4. d = Con(c, b)
  BY <1>1, <1>2, <1>3 DEF SetPromoDiscounts
<1>5. ASSUME NEW i \in DOMAIN a
      PROVE  /\ b[i] \in Renglones
             /\ b[i].prod = a[i].prod /\ b[i].w = a[i].w /\ b[i].cant = a[i].cant
             /\ b[i].peso = a[i].peso /\ b[i].desc = a[i].desc
             /\ DeUnidad(a[i]) => b[i].sub = Debido(lista, a, a[i])
             /\ ~DeUnidad(a[i]) => b[i] = a[i]
  <2>1. a[i] \in Renglones
    BY <1>1
  <2>2. CASE DeUnidad(a[i])
    <3>1. DeUnidad(a[i]) => Cuenta(a)[a[i].prod] = a[i].cant
      BY <1>1, CuentaDa DEF Previo
    <3>2. PICK x \in Nat : x = Debido(lista, a, a[i])
      BY <2>1, <3>1, DebidoDa
    <3>3. b[i] = [a[i] EXCEPT !.sub = x]
      BY <1>2, <2>2, <3>2
    <3> QED
      BY <2>1, <2>2, <3>2, <3>3 DEF Renglones
  <2>3. CASE ~DeUnidad(a[i])
    BY <1>2, <2>1, <2>3
  <2> QED
    BY <2>2, <2>3
<1>6. b \in Seq(Renglones) /\ Len(b) = Len(a) /\ DOMAIN b = DOMAIN a
  <2>1. PICK n \in Nat : DOMAIN a = 1 .. n /\ Len(a) = n
    BY <1>1
  <2>2. b \in [1 .. n -> Renglones]
    BY <1>2, <1>5, <2>1
  <2> QED
    BY <2>1, <2>2
<1>7. Cuenta(b) = Cuenta(a) /\ Una(b)
  BY <1>1, <1>5, <1>6, MismaCuenta DEF Previo
<1>8. /\ d \in Carros /\ d.lineas = b /\ d.global = c.global /\ d.sel = c.sel
      /\ d.total = ComputeTotal(b) /\ d.conDescuento = ComputeTotalConDescuento(d.total, d.global)
  <2>1. c.sel \in Int
    <3>1. Len(c.lineas) \in Nat
      BY <1>1
    <3> QED
      BY <3>1 DEF Previo, Tope
  <2> QED
    BY <1>4, <1>6, <2>1, ConDa DEF Previo
<1>9. AlDia(d, lista, exc)
  <2>1. ASSUME NEW i \in DOMAIN b, DeUnidad(b[i]) \/ b[i].prod \notin exc
        PROVE  b[i].sub = Debido(lista, b, b[i])
    <3>1. Debido(lista, b, b[i]) = Debido(lista, a, a[i])
      BY <1>5, <1>6, <1>7, MismoDebido
    <3>2. CASE DeUnidad(a[i])
      BY <1>5, <1>6, <3>1, <3>2
    <3>3. CASE ~DeUnidad(a[i])
      <4>1. a[i].sub = Subtotal(a[i], Base(a[i]), 0)
        BY <1>1, <1>5, <1>6, <2>1, <3>3 DEF Previo
      <4> QED
        BY <1>5, <1>6, <3>1, <3>3, <4>1 DEF Debido
    <3> QED
      BY <3>2, <3>3
  <2> QED
    BY <1>8, <2>1 DEF AlDia
<1>10. Bien(d, lista, exc)
  BY <1>1, <1>6, <1>7, <1>8, <1>9 DEF Bien, Previo
<1> QED
  BY <1>1, <1>3, <1>5, <1>6, <1>8, <1>10

-----------------------------------------------------------------------------
(* What the store does to a cart *)

Igual(l, m) == l.prod = m.prod /\ l.w = m.w /\ l.cant = m.cant

\* The lines of b are lines of a, whatever they cost.
Hereda(a, b) == \A i \in DOMAIN b : \E j \in DOMAIN a : Igual(b[i], a[j])

LEMMA EfectoEs ==
  ASSUME NEW lista \in Listados, NEW c, NEW b, c.lineas = b, NEW exc, Previo(c, exc)
  PROVE  LET d == SetPromoDiscounts(lista, c) IN
         /\ Bien(d, lista, exc) /\ d.sel = c.sel /\ Len(d.lineas) = Len(b)
         /\ DOMAIN d.lineas = DOMAIN b
         /\ \A i \in DOMAIN b : Igual(d.lineas[i], b[i])
<1>1. PICK d : d = SetPromoDiscounts(lista, c)
  OBVIOUS
<1>2. /\ Bien(d, lista, exc) /\ d.sel = c.sel /\ Len(d.lineas) = Len(b)
      /\ \A i \in DOMAIN b : Igual(d.lineas[i], b[i])
  BY <1>1, EfectoDa DEF Igual
<1>3. d.lineas \in Seq(Renglones) /\ b \in Seq(Renglones)
  <2>1. d.lineas \in Seq(Renglones)
    BY <1>2 DEF Bien, Carros
  <2> QED
    BY <2>1 DEF Previo
<1> QED
  BY <1>1, <1>2, <1>3

LEMMA BienDa ==
  ASSUME NEW c, NEW lista, NEW exc, Bien(c, lista, exc)
  PROVE  /\ DOMAIN c = Partes /\ c.lineas \in Seq(Renglones) /\ Una(c.lineas)
         /\ c.global \in 0 .. 100 /\ c.total \in Nat /\ c.conDescuento \in Nat
         /\ c.sel \in -1 .. Tope(Len(c.lineas)) /\ c.sel \in Int
         /\ \A i \in DOMAIN c.lineas : ~DeUnidad(c.lineas[i]) /\ c.lineas[i].prod \notin exc
              => c.lineas[i].sub = Subtotal(c.lineas[i], Base(c.lineas[i]), 0)
<1>1. DOMAIN c = Partes /\ c.lineas \in Seq(Renglones) /\ c.global \in 0 .. 100 /\ c.sel \in Int
      /\ c.total \in Nat /\ c.conDescuento \in Nat
  BY DEF Bien, Carros, Partes
<1>2. ASSUME NEW i \in DOMAIN c.lineas, ~DeUnidad(c.lineas[i]), c.lineas[i].prod \notin exc
      PROVE  c.lineas[i].sub = Subtotal(c.lineas[i], Base(c.lineas[i]), 0)
  BY <1>2 DEF Bien, AlDia, Debido
<1> QED
  BY <1>1, <1>2 DEF Bien

LEMMA TopeDa ==
  ASSUME NEW n \in Nat
  PROVE  Max({0, n - 1}) = Tope(n) /\ Tope(n) \in Nat
<1>1. PICK k \in Int : k = n - 1
  OBVIOUS
<1>2. Max({0, k}) = IF 0 >= k THEN 0 ELSE k
  BY MaxDeDos
<1> QED
  BY <1>1, <1>2 DEF Tope

LEMMA LineaDa ==
  ASSUME NEW p \in Productos, NEW w \in Nat, NEW peso \in Nat
  PROVE  /\ Linea(p, w, peso) \in Renglones
         /\ Linea(p, w, peso).prod = p /\ Linea(p, w, peso).w = w /\ Linea(p, w, peso).cant = 1
         /\ w # 0 => Linea(p, w, peso).sub = Subtotal(Linea(p, w, peso), Base(Linea(p, w, peso)), 0)
<1>1. PICK l : l = Linea(p, w, peso)
  OBVIOUS
<1>2. PICK precio \in Nat : precio = Precio[p]
  BY Constantes
<1>3. PICK s \in Nat : s = precio * (IF w = 0 THEN 1 ELSE peso)
  BY <1>2
<1>4. l = [prod |-> p, w |-> w, cant |-> 1, peso |-> peso, desc |-> 0, sub |-> s]
  BY <1>1, <1>2, <1>3 DEF Linea
<1>5. l \in Renglones
  BY <1>4 DEF Renglones
<1>6. ASSUME w # 0 PROVE l.sub = Subtotal(l, Base(l), 0)
  <2>1. Base(l) = s
    BY <1>2, <1>3, <1>4, <1>6 DEF Base, DeUnidad
  <2>2. Pct(s, 0) = 0
    BY DEF Pct
  <2>3. Max({0, 0}) = 0
    BY MaxDeDos
  <2> QED
    BY <1>3, <1>4, <2>1, <2>2, <2>3 DEF Subtotal
<1> QED
  BY <1>1, <1>4, <1>5, <1>6

\* A line with an id of its own is added.
LEMMA AnexaDa ==
  ASSUME promociones \in Listados, NEW c, NEW exc, Bien(c, promociones, exc),
         NEW l \in Renglones, Indice(c.lineas, l.prod, l.w) = 0,
         l.w # 0 => l.sub = Subtotal(l, Base(l), 0)
  PROVE  LET d == EfectoPromos([c EXCEPT !.lineas = Append(@, l), !.sel = Len(c.lineas)]) IN
         /\ Bien(d, promociones, exc) /\ DOMAIN d.lineas # {}
         /\ \A i \in DOMAIN d.lineas :
              Igual(d.lineas[i], l) \/ \E j \in DOMAIN c.lineas : Igual(d.lineas[i], c.lineas[j])
<1>1. PICK a \in Seq(Renglones) : a = c.lineas
  BY BienDa
<1>2. PICK n \in Nat : n = Len(a) /\ DOMAIN a = 1 .. n
  BY <1>1
<1>3. PICK b : b = Append(a, l)
  OBVIOUS
<1>4. b \in Seq(Renglones) /\ Len(b) = n + 1 /\ DOMAIN b = 1 .. n + 1
      /\ b[n + 1] = l /\ \A i \in 1 .. n : b[i] = a[i]
  BY <1>1, <1>2, <1>3
<1>5. PICK c0 : c0 = [c EXCEPT !.lineas = b, !.sel = n]
  OBVIOUS
<1>6. DOMAIN c0 = Partes /\ c0.lineas = b /\ c0.sel = n /\ c0.global = c.global
  BY <1>5, BienDa DEF Partes
<1>7. Previo(c0, exc)
  <2>1. \A i \in 1 .. n : ~(a[i].prod = l.prod /\ a[i].w = l.w)
    BY <1>1, <1>2, IndiceDa
  <2>2. Una(b)
    <3>1. ASSUME NEW i \in 1 .. n + 1, NEW j \in 1 .. n + 1,
                 b[i].prod = b[j].prod, b[i].w = b[j].w
          PROVE  i = j
      <4>1. CASE i \in 1 .. n /\ j \in 1 .. n
        <5>1. Una(a)
          BY <1>1, BienDa
        <5> QED
          BY <1>2, <1>4, <3>1, <4>1, <5>1 DEF Una
      <4>2. CASE i \in 1 .. n /\ j = n + 1
        BY <1>4, <2>1, <3>1, <4>2
      <4>3. CASE i = n + 1 /\ j \in 1 .. n
        BY <1>4, <2>1, <3>1, <4>3
      <4>4. CASE i = n + 1 /\ j = n + 1
        BY <4>4
      <4> QED
        BY <1>2, <4>1, <4>2, <4>3, <4>4
    <3> QED
      BY <1>4, <3>1 DEF Una
  <2>3. n \in -1 .. Tope(n + 1)
    BY DEF Tope
  <2>4. ASSUME NEW i \in 1 .. n + 1, ~DeUnidad(b[i]), b[i].prod \notin exc
        PROVE  b[i].sub = Subtotal(b[i], Base(b[i]), 0)
    <3>1. CASE i \in 1 .. n
      <4>1. b[i] = a[i] /\ i \in DOMAIN c.lineas
        BY <1>1, <1>2, <1>4, <3>1
      <4> QED
        BY <1>1, <2>4, <4>1, BienDa
    <3>2. CASE i = n + 1
      BY <1>4, <2>4, <3>2 DEF DeUnidad
    <3> QED
      BY <1>2, <3>1, <3>2
  <2> QED
    <3>1. c0.global \in 0 .. 100 /\ c0.sel \in -1 .. Tope(Len(c0.lineas))
      BY <1>4, <1>6, <2>3, BienDa
    <3>2. c0.lineas \in Seq(Renglones) /\ Una(c0.lineas)
      BY <1>4, <1>6, <2>2
    <3>3. \A i \in DOMAIN c0.lineas : ~DeUnidad(c0.lineas[i]) /\ c0.lineas[i].prod \notin exc
            => c0.lineas[i].sub = Subtotal(c0.lineas[i], Base(c0.lineas[i]), 0)
      BY <1>4, <1>6, <2>4
    <3> QED
      BY <1>6, <3>1, <3>2, <3>3 DEF Previo
<1>8. PICK d : d = SetPromoDiscounts(promociones, c0)
  OBVIOUS
<1>9. /\ Bien(d, promociones, exc) /\ Len(d.lineas) = Len(b) /\ DOMAIN d.lineas = DOMAIN b
      /\ \A i \in DOMAIN b : Igual(d.lineas[i], b[i])
  BY <1>6, <1>7, <1>8, EfectoEs
<1>10. DOMAIN d.lineas = 1 .. n + 1 /\ Len(d.lineas) = n + 1
       /\ \A i \in 1 .. n + 1 : Igual(d.lineas[i], b[i])
  BY <1>4, <1>9
<1>11. \A i \in 1 .. n + 1 : Igual(d.lineas[i], l) \/ \E j \in 1 .. n : Igual(d.lineas[i], a[j])
  <2> TAKE i \in 1 .. n + 1
  <2>1. i \in 1 .. n \/ i = n + 1
    BY <1>2
  <2> QED
    BY <1>4, <1>10, <2>1
<1>12. d = EfectoPromos([c EXCEPT !.lineas = Append(@, l), !.sel = Len(c.lineas)])
  <2>1. c0 = [c EXCEPT !.lineas = Append(@, l), !.sel = Len(c.lineas)]
    BY <1>1, <1>2, <1>3, <1>5
  <2> QED
    BY <1>8, <2>1, Zenon DEF EfectoPromos
<1>13. n + 1 \in DOMAIN d.lineas
  BY <1>2, <1>10
<1> QED
  BY <1>1, <1>2, <1>9, <1>10, <1>11, <1>12, <1>13

\* A line changes, and keeps its id.
LEMMA CambiaDa ==
  ASSUME promociones \in Listados, NEW c, NEW exc, Bien(c, promociones, exc),
         NEW k \in DOMAIN c.lineas, NEW l \in Renglones,
         l.prod = c.lineas[k].prod, l.w = c.lineas[k].w,
         l.w # 0 /\ l.prod \notin exc => l.sub = Subtotal(l, Base(l), 0),
         NEW c0, DOMAIN c0 = Partes, c0.lineas = [c.lineas EXCEPT ![k] = l],
         c0.sel \in -1 .. Tope(Len(c.lineas)), c0.global = c.global
  PROVE  LET d == SetPromoDiscounts(promociones, c0) IN
         /\ Bien(d, promociones, exc) /\ DOMAIN d.lineas = DOMAIN c.lineas
         /\ Igual(d.lineas[k], l)
         /\ \A i \in DOMAIN c.lineas : i # k => Igual(d.lineas[i], c.lineas[i])
<1>1. PICK a \in Seq(Renglones) : a = c.lineas
  BY BienDa
<1>2. PICK n \in Nat : n = Len(a) /\ DOMAIN a = 1 .. n
  BY <1>1
<1>3. PICK b : b = [a EXCEPT ![k] = l]
  OBVIOUS
<1>4. b \in Seq(Renglones) /\ Len(b) = n /\ DOMAIN b = 1 .. n /\ k \in 1 .. n
      /\ b[k] = l /\ \A i \in 1 .. n : i # k => b[i] = a[i]
  BY <1>1, <1>2, <1>3
<1>5. Previo(c0, exc)
  <2>1. Una(b)
    <3>1. \A i \in 1 .. n : b[i].prod = a[i].prod /\ b[i].w = a[i].w
      BY <1>1, <1>4
    <3>2. Una(a)
      BY <1>1, BienDa
    <3> QED
      BY <1>2, <1>4, <3>1, <3>2 DEF Una
  <2>2. ASSUME NEW i \in 1 .. n, ~DeUnidad(b[i]), b[i].prod \notin exc
        PROVE  b[i].sub = Subtotal(b[i], Base(b[i]), 0)
    <3>1. CASE i = k
      BY <1>4, <2>2, <3>1 DEF DeUnidad
    <3>2. CASE i # k
      <4>1. b[i] = a[i] /\ i \in DOMAIN c.lineas
        BY <1>1, <1>2, <1>4, <3>2
      <4> QED
        BY <1>1, <2>2, <4>1, BienDa
    <3> QED
      BY <3>1, <3>2
  <2>3. c0.lineas = b /\ c0.global \in 0 .. 100 /\ c0.sel \in -1 .. Tope(Len(c0.lineas))
    BY <1>1, <1>2, <1>3, <1>4, BienDa
  <2> QED
    BY <1>4, <2>1, <2>2, <2>3 DEF Previo
<1>6. PICK d : d = SetPromoDiscounts(promociones, c0)
  OBVIOUS
<1>7. /\ Bien(d, promociones, exc) /\ DOMAIN d.lineas = DOMAIN b
      /\ \A i \in DOMAIN b : Igual(d.lineas[i], b[i])
  BY <1>1, <1>3, <1>5, <1>6, EfectoEs
<1> QED
  BY <1>1, <1>2, <1>4, <1>6, <1>7

\* A unit more of product p: its line has one more, or there is a new line.
LEMMA AddUnitDa ==
  ASSUME promociones \in Listados, NEW c, NEW exc, Bien(c, promociones, exc), NEW p \in Productos
  PROVE  LET d == AddUnit(c, p) IN
         /\ Bien(d, promociones, exc) /\ DOMAIN d.lineas # {}
         /\ \A i \in DOMAIN d.lineas :
              \/ \E j \in DOMAIN c.lineas : Igual(d.lineas[i], c.lineas[j])
              \/ /\ d.lineas[i].prod = p /\ d.lineas[i].w = 0
                 /\ d.lineas[i].cant = CantidadDe(c.lineas, p) + 1
<1>1. PICK a \in Seq(Renglones) : a = c.lineas
  BY BienDa
<1>2. PICK k : k = Indice(a, p, 0)
  OBVIOUS
<1>3. \/ k = 0 /\ \A j \in DOMAIN a : ~(a[j].prod = p /\ a[j].w = 0)
      \/ k \in DOMAIN a /\ k # 0 /\ a[k].prod = p /\ a[k].w = 0
  BY <1>2, IndiceDa
<1>4. CASE k = 0
  <2>1. CantidadDe(a, p) = 0
    BY <1>2, <1>4 DEF CantidadDe
  <2>2. PICK l \in Renglones : l = Linea(p, 0, 0) /\ l.prod = p /\ l.w = 0 /\ l.cant = 1
    BY LineaDa
  <2>3. PICK d : d = EfectoPromos([c EXCEPT !.lineas = Append(@, l), !.sel = Len(c.lineas)])
    OBVIOUS
  <2>4. d = AddUnit(c, p)
    BY <1>1, <1>2, <1>4, <2>2, <2>3 DEF AddUnit
  <2>5. /\ Bien(d, promociones, exc) /\ DOMAIN d.lineas # {}
        /\ \A i \in DOMAIN d.lineas :
             Igual(d.lineas[i], l) \/ \E j \in DOMAIN c.lineas : Igual(d.lineas[i], c.lineas[j])
    BY <1>1, <1>2, <1>4, <2>2, <2>3, AnexaDa
  <2> QED
    BY <1>1, <2>1, <2>2, <2>4, <2>5 DEF Igual
<1>5. CASE k \in DOMAIN a /\ k # 0 /\ a[k].prod = p /\ a[k].w = 0
  <2>1. a[k] \in Renglones /\ k \in Nat /\ k > 0 /\ CantidadDe(a, p) = a[k].cant
    BY <1>1, <1>2, <1>5 DEF CantidadDe
  <2>2. PICK l : l = [a[k] EXCEPT !.cant = @ + 1]
    OBVIOUS
  <2>3. l \in Renglones /\ l.prod = p /\ l.w = 0 /\ l.cant = a[k].cant + 1
    <3>1. PICK x \in Nat \ {0} : x = a[k].cant + 1
      BY <2>1 DEF Renglones
    <3>2. l = [a[k] EXCEPT !.cant = x]
      BY <2>2, <3>1
    <3>3. "cant" \in DOMAIN a[k]
      BY <2>1 DEF Renglones
    <3>4. l \in Renglones
      BY <2>1, <3>2 DEF Renglones
    <3> QED
      BY <1>5, <3>1, <3>2, <3>3, <3>4
  <2>4. PICK c0 : c0 = [c EXCEPT !.lineas = [a EXCEPT ![k] = l], !.sel = k - 1]
    OBVIOUS
  <2>5. DOMAIN c0 = Partes /\ c0.lineas = [c.lineas EXCEPT ![k] = l] /\ c0.sel = k - 1
        /\ c0.global = c.global
    BY <1>1, <2>4, BienDa DEF Partes
  <2>6. c0.sel \in -1 .. Tope(Len(c.lineas))
    <3>1. PICK n \in Nat : n = Len(a) /\ k \in 1 .. n
      BY <1>1, <1>5
    <3> QED
      BY <1>1, <2>5, <3>1 DEF Tope
  <2>7. PICK d : d = SetPromoDiscounts(promociones, c0)
    OBVIOUS
  <2>8. /\ Bien(d, promociones, exc) /\ DOMAIN d.lineas = DOMAIN c.lineas
        /\ Igual(d.lineas[k], l)
        /\ \A i \in DOMAIN c.lineas : i # k => Igual(d.lineas[i], c.lineas[i])
    BY <1>1, <1>5, <2>3, <2>5, <2>6, <2>7, CambiaDa
  <2>9. d = AddUnit(c, p)
    <3>1. c0 = [c EXCEPT !.lineas[k].cant = @ + 1, !.sel = k - 1]
      BY <1>1, <2>2, <2>4, BienDa DEF Partes
    <3> QED
      BY <1>1, <1>2, <2>1, <2>7, <3>1 DEF AddUnit, EfectoPromos
  <2> QED
    BY <1>1, <1>5, <2>1, <2>3, <2>8, <2>9 DEF Igual
<1> QED
  BY <1>3, <1>4, <1>5

\* A weight gives a line of its own.
LEMMA AddWeightDa ==
  ASSUME promociones \in Listados, NEW c, NEW exc, Bien(c, promociones, exc), NEW p \in Productos,
         NEW w \in Nat \ {0}, NEW peso \in Nat, Indice(c.lineas, p, w) = 0
  PROVE  LET d == AddWeightItem(c, p, w, peso) IN
         /\ Bien(d, promociones, exc) /\ DOMAIN d.lineas # {}
         /\ \A i \in DOMAIN d.lineas :
              d.lineas[i].w # 0 \/ \E j \in DOMAIN c.lineas : Igual(d.lineas[i], c.lineas[j])
<1>1. PICK l \in Renglones : /\ l = Linea(p, w, peso) /\ l.prod = p /\ l.w = w
                             /\ l.sub = Subtotal(l, Base(l), 0)
  BY LineaDa
<1>2. PICK d : d = AddWeightItem(c, p, w, peso)
  OBVIOUS
<1>3. d = EfectoPromos([c EXCEPT !.lineas = Append(@, l), !.sel = Len(c.lineas)])
  BY <1>1, <1>2 DEF AddWeightItem
<1>4. /\ Bien(d, promociones, exc) /\ DOMAIN d.lineas # {}
      /\ \A i \in DOMAIN d.lineas :
           Igual(d.lineas[i], l) \/ \E j \in DOMAIN c.lineas : Igual(d.lineas[i], c.lineas[j])
  <2>1. Indice(c.lineas, l.prod, l.w) = 0
    BY <1>1
  <2> QED
    BY <1>1, <1>3, <2>1, AnexaDa
<1> QED
  BY <1>1, <1>2, <1>4 DEF Igual

LEMMA RemoveAtDa ==
  ASSUME NEW T, NEW s \in Seq(T), NEW k \in DOMAIN s
  PROVE  /\ RemoveAt(s, k) \in Seq(T) /\ Len(RemoveAt(s, k)) = Len(s) - 1
         /\ \A i \in 1 .. Len(s) - 1 : RemoveAt(s, k)[i] = IF i < k THEN s[i] ELSE s[i + 1]
<1>1. PICK n \in Nat : n = Len(s) /\ DOMAIN s = 1 .. n
  OBVIOUS
<1>2. PICK u : u = SubSeq(s, 1, k - 1)
  OBVIOUS
<1>3. PICK v : v = SubSeq(s, k + 1, n)
  OBVIOUS
<1>4. k \in 1 .. n
  BY <1>1
<1>5. u \in Seq(T) /\ Len(u) = k - 1 /\ \A i \in 1 .. k - 1 : u[i] = s[i]
  <2>1. \A i \in 1 .. k - 1 : s[i] \in T
    BY <1>1, <1>4
  <2> QED
    BY <1>1, <1>2, <1>4, <2>1
<1>6. v \in Seq(T) /\ Len(v) = n - k /\ \A i \in 1 .. n - k : v[i] = s[i + k]
  <2>1. \A i \in k + 1 .. n : s[i] \in T
    BY <1>1, <1>4
  <2> QED
    BY <1>1, <1>3, <1>4, <2>1
<1>7. PICK r : r = u \o v
  OBVIOUS
<1>8. /\ r \in Seq(T) /\ Len(r) = n - 1
      /\ \A i \in 1 .. n - 1 : r[i] = IF i < k THEN u[i] ELSE v[i - (k - 1)]
  BY <1>1, <1>4, <1>5, <1>6, <1>7
<1>9. ASSUME NEW i \in 1 .. n - 1
      PROVE  r[i] = IF i < k THEN s[i] ELSE s[i + 1]
  <2>1. CASE i < k
    BY <1>4, <1>5, <1>8, <2>1
  <2>2. CASE i >= k
    <3>1. PICK j \in 1 .. n - k : j = i - (k - 1) /\ j + k = i + 1
      BY <1>1, <1>4, <2>2
    <3>2. r[i] = v[j]
      <4>1. r[i] = IF i < k THEN u[i] ELSE v[i - (k - 1)]
        BY <1>8
      <4>2. ~(i < k)
        BY <1>4, <2>2
      <4> QED
        BY <3>1, <4>1, <4>2
    <3>3. v[j] = s[j + k]
      BY <1>6, <3>1
    <3> QED
      BY <2>2, <3>1, <3>2, <3>3, <1>4
  <2> QED
    BY <1>4, <2>1, <2>2
<1>10. r = RemoveAt(s, k)
  BY <1>1, <1>2, <1>3, <1>7 DEF RemoveAt
<1> QED
  BY <1>1, <1>8, <1>9, <1>10

\* A line goes, if it is there.
LEMMA RemoveItemDa ==
  ASSUME promociones \in Listados, NEW c, NEW exc, Bien(c, promociones, exc), NEW p, NEW w
  PROVE  LET d == RemoveItem(c, p, w) IN
         Bien(d, promociones, exc) /\ Hereda(c.lineas, d.lineas)
<1>1. PICK a \in Seq(Renglones) : a = c.lineas
  BY BienDa
<1>2. PICK n \in Nat : n = Len(a) /\ DOMAIN a = 1 .. n
  BY <1>1
<1>3. PICK k : k = Indice(a, p, w)
  OBVIOUS
<1>4. PICK b : b = IF k = 0 THEN a ELSE RemoveAt(a, k)
  OBVIOUS
<1>5. PICK m \in Nat : /\ b \in Seq(Renglones) /\ Len(b) = m /\ DOMAIN b = 1 .. m
                       /\ \E f \in [1 .. m -> 1 .. n] :
                            /\ \A i \in 1 .. m : b[i] = a[f[i]]
                            /\ \A i, j \in 1 .. m : i # j => f[i] # f[j]
  <2>1. CASE k = 0
    <3>1. PICK f : f = [i \in 1 .. n |-> i]
      OBVIOUS
    <3> QED
      BY <1>2, <1>4, <2>1, <3>1
  <2>2. CASE k # 0
    <3>1. k \in 1 .. n
      BY <1>2, <1>3, <2>2, IndiceDa
    <3>2. PICK m \in Nat : m = n - 1
      BY <1>2, <3>1
    <3>3. b \in Seq(Renglones) /\ Len(b) = m
          /\ \A i \in 1 .. m : b[i] = IF i < k THEN a[i] ELSE a[i + 1]
      BY <1>1, <1>2, <1>4, <2>2, <3>1, <3>2, RemoveAtDa
    <3>4. PICK f : f = [i \in 1 .. m |-> IF i < k THEN i ELSE i + 1]
      OBVIOUS
    <3>5. f \in [1 .. m -> 1 .. n]
      BY <1>2, <3>1, <3>2, <3>4
    <3>6. \A i, j \in 1 .. m : i # j => f[i] # f[j]
      BY <3>1, <3>2, <3>4
    <3>7. \A i \in 1 .. m : b[i] = a[f[i]]
      BY <3>3, <3>4
    <3>8. DOMAIN b = 1 .. m
      BY <3>3
    <3> QED
      BY <3>2, <3>3, <3>5, <3>6, <3>7, <3>8
  <2> QED
    BY <2>1, <2>2
<1>6. PICK f \in [1 .. m -> 1 .. n] : /\ \A i \in 1 .. m : b[i] = a[f[i]]
                                      /\ \A i, j \in 1 .. m : i # j => f[i] # f[j]
  BY <1>5
<1>7. PICK s \in Int : s = Max({0, Min({c.sel, m - 1})}) /\ s \in 0 .. Tope(m)
  <2>1. c.sel \in Int
    BY BienDa
  <2>2. PICK k1 \in Int : k1 = m - 1
    BY <1>5
  <2>3. PICK x \in Int : x = Min({c.sel, k1}) /\ x <= k1
    BY <2>1, MinDeDos
  <2>4. Max({0, x}) = IF 0 >= x THEN 0 ELSE x
    BY MaxDeDos
  <2> QED
    BY <1>5, <2>2, <2>3, <2>4 DEF Tope
<1>8. PICK c0 : c0 = [c EXCEPT !.lineas = b, !.sel = s]
  OBVIOUS
<1>9. DOMAIN c0 = Partes /\ c0.lineas = b /\ c0.sel = s /\ c0.global = c.global
  BY <1>8, BienDa DEF Partes
<1>10. Previo(c0, exc)
  <2>1. Una(b)
    <3>1. Una(a)
      BY <1>1, BienDa
    <3>2. ASSUME NEW i \in 1 .. m, NEW j \in 1 .. m, b[i].prod = b[j].prod, b[i].w = b[j].w
          PROVE  i = j
      <4>1. f[i] \in 1 .. n /\ f[j] \in 1 .. n
        BY <1>6
      <4>2. f[i] = f[j]
        BY <1>2, <1>6, <3>1, <3>2, <4>1 DEF Una
      <4> QED
        BY <1>6, <4>2
    <3> QED
      BY <1>5, <3>2 DEF Una
  <2>2. ASSUME NEW i \in 1 .. m, ~DeUnidad(b[i]), b[i].prod \notin exc
        PROVE  b[i].sub = Subtotal(b[i], Base(b[i]), 0)
    <3>1. b[i] = a[f[i]] /\ f[i] \in DOMAIN a
      BY <1>2, <1>6
    <3>2. \A j \in DOMAIN a : ~DeUnidad(a[j]) /\ a[j].prod \notin exc
            => a[j].sub = Subtotal(a[j], Base(a[j]), 0)
      BY <1>1, BienDa
    <3>3. PICK j \in DOMAIN a : b[i] = a[j]
      BY <3>1
    <3> QED
      BY <2>2, <3>2, <3>3
  <2>3. c0.global \in 0 .. 100 /\ c0.sel \in -1 .. Tope(Len(c0.lineas))
    BY <1>5, <1>7, <1>9, BienDa DEF Tope
  <2> QED
    BY <1>5, <1>9, <2>1, <2>2, <2>3 DEF Previo
<1>11. PICK d : d = SetPromoDiscounts(promociones, c0)
  OBVIOUS
<1>12. /\ Bien(d, promociones, exc) /\ DOMAIN d.lineas = DOMAIN b
       /\ \A i \in DOMAIN b : Igual(d.lineas[i], b[i])
  BY <1>9, <1>10, <1>11, EfectoEs
<1>13. Hereda(a, d.lineas)
  <2>1. \A i \in 1 .. m : f[i] \in DOMAIN a /\ Igual(d.lineas[i], a[f[i]])
    BY <1>2, <1>5, <1>6, <1>12
  <2> QED
    BY <1>5, <1>12, <2>1 DEF Hereda
<1>14. d = RemoveItem(c, p, w)
  <2>1. c0 = [c EXCEPT !.lineas = b, !.sel = Max({0, Min({@, Len(b) - 1})})]
    BY <1>5, <1>7, <1>8
  <2> QED
    BY <1>1, <1>3, <1>4, <1>11, <2>1 DEF RemoveItem, EfectoPromos
<1> QED
  BY <1>1, <1>12, <1>13, <1>14

\* The quantity of a line, if it is there.
LEMMA SetQuantityDa ==
  ASSUME promociones \in Listados, NEW c, NEW exc, Bien(c, promociones, exc), NEW p \in Productos,
         NEW w, NEW cant \in Nat \ {0}, w # 0 => p \in exc
  PROVE  LET d == SetQuantity(c, p, w, cant) IN
         /\ Bien(d, promociones, exc) /\ DOMAIN d.lineas = DOMAIN c.lineas
         /\ \A i \in DOMAIN d.lineas :
              /\ d.lineas[i].prod = c.lineas[i].prod /\ d.lineas[i].w = c.lineas[i].w
              /\ \/ d.lineas[i].cant = c.lineas[i].cant
                 \/ d.lineas[i].prod = p /\ d.lineas[i].w = w /\ d.lineas[i].cant = cant
<1>1. PICK a \in Seq(Renglones) : a = c.lineas
  BY BienDa
<1>2. PICK k : k = Indice(a, p, w)
  OBVIOUS
<1>3. k = 0 \/ (k \in DOMAIN a /\ k # 0 /\ a[k].prod = p /\ a[k].w = w)
  BY <1>2, IndiceDa
<1>4. CASE k = 0
  BY <1>1, <1>2, <1>4 DEF SetQuantity
<1>5. CASE k \in DOMAIN a /\ k # 0 /\ a[k].prod = p /\ a[k].w = w
  <2>1. a[k] \in Renglones
    BY <1>1, <1>5
  <2>2. PICK s \in Nat : s = Subtotal(a[k], cant * Precio[p], 0)
    <3>1. PICK base \in Nat : base = cant * Precio[p]
      BY Constantes
    <3>2. 0 \in 0 .. base
      OBVIOUS
    <3>3. Subtotal(a[k], base, 0) \in 0 .. base
      BY <2>1, <3>2, SubtotalDa
    <3> QED
      BY <3>1, <3>3
  <2>3. PICK l : l = [a[k] EXCEPT !.cant = cant, !.sub = s]
    OBVIOUS
  <2>4. l \in Renglones /\ l.prod = p /\ l.w = w /\ l.cant = cant
    BY <1>5, <2>1, <2>3 DEF Renglones
  <2>5. PICK c0 : c0 = [c EXCEPT !.lineas = [a EXCEPT ![k] = l]]
    OBVIOUS
  <2>6. DOMAIN c0 = Partes /\ c0.lineas = [c.lineas EXCEPT ![k] = l] /\ c0.sel = c.sel
        /\ c0.global = c.global /\ c0.sel \in -1 .. Tope(Len(c.lineas))
    BY <1>1, <2>5, BienDa DEF Partes
  <2>7. PICK d : d = SetPromoDiscounts(promociones, c0)
    OBVIOUS
  <2>8. /\ Bien(d, promociones, exc) /\ DOMAIN d.lineas = DOMAIN c.lineas
        /\ Igual(d.lineas[k], l)
        /\ \A i \in DOMAIN c.lineas : i # k => Igual(d.lineas[i], c.lineas[i])
    BY <1>1, <1>5, <2>4, <2>6, <2>7, CambiaDa
  <2>9. d = SetQuantity(c, p, w, cant)
    <3>1. c0 = [c EXCEPT !.lineas[k].cant = cant,
                         !.lineas[k].sub = Subtotal(c.lineas[k], cant * Precio[p], 0)]
      BY <1>1, <2>2, <2>3, <2>5, BienDa DEF Partes
    <3> QED
      BY <1>1, <1>2, <1>5, <2>7, <3>1 DEF SetQuantity, EfectoPromos
  <2> QED
    BY <1>1, <1>5, <2>4, <2>8, <2>9 DEF Igual
<1> QED
  BY <1>3, <1>4, <1>5

\* The discount of a line.
LEMMA SetItemDiscountDa ==
  ASSUME promociones \in Listados, NEW c, NEW exc, Bien(c, promociones, exc),
         NEW k \in DOMAIN c.lineas, NEW desc \in 0 .. 100
  PROVE  LET d == SetItemDiscount(c, k, desc) IN
         /\ Bien(d, promociones, exc) /\ DOMAIN d.lineas = DOMAIN c.lineas
         /\ Hereda(c.lineas, d.lineas)
<1>1. PICK a \in Seq(Renglones) : a = c.lineas
  BY BienDa
<1>2. PICK n \in Nat : n = Len(a) /\ DOMAIN a = 1 .. n
  BY <1>1
<1>3. PICK l0 : l0 = [a[k] EXCEPT !.desc = desc]
  OBVIOUS
<1>4. /\ l0 \in Renglones /\ l0.prod = a[k].prod /\ l0.w = a[k].w /\ l0.cant = a[k].cant
      /\ l0.peso = a[k].peso /\ l0.desc = desc
  <2>1. a[k] \in Renglones
    BY <1>1
  <2> QED
    BY <1>3, <2>1 DEF Renglones
<1>5. PICK x \in Nat : x = Debido(promociones, a, l0)
  <2>1. DeUnidad(l0) => Cuenta(a)[l0.prod] = l0.cant
    BY <1>1, <1>4, CuentaDa, BienDa DEF DeUnidad
  <2> QED
    BY <1>1, <1>4, <2>1, DebidoDa
<1>6. PICK l : l = [l0 EXCEPT !.sub = x]
  OBVIOUS
<1>7. /\ l \in Renglones /\ l.prod = l0.prod /\ l.w = l0.w /\ l.cant = l0.cant
      /\ l.peso = l0.peso /\ l.desc = l0.desc /\ l.sub = x
  BY <1>4, <1>6 DEF Renglones
<1>8. PICK b : b = [a EXCEPT ![k] = l]
  OBVIOUS
<1>9. b \in Seq(Renglones) /\ Len(b) = n /\ DOMAIN b = 1 .. n /\ k \in 1 .. n
      /\ b[k] = l /\ \A i \in 1 .. n : i # k => b[i] = a[i]
  BY <1>1, <1>2, <1>7, <1>8
<1>10. PICK d : d = SetItemDiscount(c, k, desc)
  OBVIOUS
<1>11. d = Con(c, b)
  BY <1>1, <1>3, <1>5, <1>6, <1>8, <1>10 DEF SetItemDiscount
<1>12. /\ d \in Carros /\ d.lineas = b /\ d.global = c.global /\ d.sel = c.sel
       /\ d.total = ComputeTotal(b) /\ d.conDescuento = ComputeTotalConDescuento(d.total, d.global)
  BY <1>9, <1>11, BienDa, ConDa
<1>13. \A i \in 1 .. n : b[i].prod = a[i].prod /\ b[i].w = a[i].w /\ b[i].cant = a[i].cant
  BY <1>1, <1>4, <1>7, <1>9
<1>14. Cuenta(b) = Cuenta(a) /\ Una(b)
  <2>1. Una(a)
    BY <1>1, BienDa
  <2> QED
    BY <1>2, <1>9, <1>13, <2>1, MismaCuenta
<1>15. AlDia(d, promociones, exc)
  <2>1. ASSUME NEW i \in 1 .. n, DeUnidad(b[i]) \/ b[i].prod \notin exc
        PROVE  b[i].sub = Debido(promociones, b, b[i])
    <3>1. CASE i = k
      <4>1. Debido(promociones, b, l) = Debido(promociones, a, l0)
        BY <1>7, <1>14, MismoDebido
      <4> QED
        BY <1>5, <1>7, <1>9, <3>1, <4>1
    <3>2. CASE i # k
      <4>1. Debido(promociones, b, a[i]) = Debido(promociones, a, a[i])
        BY <1>14, MismoDebido
      <4>2. AlDia(c, promociones, exc)
        BY DEF Bien
      <4>3. a[i].sub = Debido(promociones, a, a[i])
        BY <1>1, <1>2, <1>9, <2>1, <3>2, <4>2 DEF AlDia
      <4> QED
        BY <1>9, <3>2, <4>1, <4>3
    <3> QED
      BY <3>1, <3>2
  <2> QED
    BY <1>9, <1>12, <2>1 DEF AlDia
<1>16. Bien(d, promociones, exc)
  <2>1. d.sel \in -1 .. Tope(Len(d.lineas))
    BY <1>1, <1>2, <1>9, <1>12, BienDa
  <2> QED
    BY <1>12, <1>14, <1>15, <2>1 DEF Bien
<1>17. Hereda(a, b)
  BY <1>2, <1>9, <1>13 DEF Hereda, Igual
<1> QED
  BY <1>1, <1>2, <1>9, <1>10, <1>12, <1>16, <1>17

\* The discount of the whole sale, and the row that is selected.
LEMMA DeUnCampo ==
  ASSUME NEW c, NEW lista, NEW exc, Bien(c, lista, exc), NEW d
  PROVE  /\ \A g \in 0 .. 100 : d = SetGlobalDiscount(c, g) =>
              Bien(d, lista, exc) /\ d.lineas = c.lineas
         /\ \A s \in -1 .. Tope(Len(c.lineas)) : d = [c EXCEPT !.sel = s] =>
              Bien(d, lista, exc) /\ d.lineas = c.lineas
<1>1. ASSUME NEW g \in 0 .. 100, d = SetGlobalDiscount(c, g)
      PROVE  Bien(d, lista, exc) /\ d.lineas = c.lineas
  <2>1. PICK y \in Nat : y = ComputeTotalConDescuento(c.total, g)
    BY BienDa, TotalDa DEF Bien
  <2>2. d = [c EXCEPT !.global = g, !.conDescuento = y]
    BY <1>1, <2>1 DEF SetGlobalDiscount
  <2>3. d \in Carros /\ d.lineas = c.lineas /\ d.sel = c.sel /\ d.total = c.total
        /\ d.global = g /\ d.conDescuento = y
    BY <2>2 DEF Bien, Carros
  <2> QED
    BY <2>1, <2>3 DEF Bien, AlDia
<1>2. ASSUME NEW s \in -1 .. Tope(Len(c.lineas)), d = [c EXCEPT !.sel = s]
      PROVE  Bien(d, lista, exc) /\ d.lineas = c.lineas
  <2>1. Len(c.lineas) \in Nat
    BY BienDa
  <2>2. s \in Int
    BY <2>1 DEF Tope
  <2>3. d \in Carros /\ d.lineas = c.lineas /\ d.sel = s /\ d.total = c.total
        /\ d.global = c.global /\ d.conDescuento = c.conDescuento
    BY <1>2, <2>2 DEF Bien, Carros
  <2> QED
    BY <2>3 DEF Bien, AlDia
<1> QED
  BY <1>1, <1>2

LEMMA MoveDa ==
  ASSUME NEW c, NEW lista, NEW exc, Bien(c, lista, exc), NEW paso \in {-1, 1}
  PROVE  Bien(Move(c, paso), lista, exc) /\ Move(c, paso).lineas = c.lineas
<1>1. PICK n \in Nat : n = Len(c.lineas)
  BY BienDa
<1>2. CASE n = 0
  BY <1>1, <1>2 DEF Move
<1>3. CASE n # 0
  <2>1. PICK to \in Int : to = c.sel + paso
    BY BienDa
  <2>2. PICK s \in -1 .. Tope(n) : s = IF to < 0 THEN n - 1 ELSE IF to > n - 1 THEN 0 ELSE to
    BY <1>3, <2>1 DEF Tope
  <2>3. PICK d : d = [c EXCEPT !.sel = s]
    OBVIOUS
  <2>4. d = Move(c, paso)
    BY <1>1, <1>3, <2>1, <2>2, <2>3 DEF Move
  <2>5. s \in -1 .. Tope(Len(c.lineas))
    BY <1>1
  <2>6. Bien(d, lista, exc) /\ d.lineas = c.lineas
    BY <2>3, <2>5, DeUnCampo
  <2> QED
    BY <2>4, <2>6
<1> QED
  BY <1>2, <1>3

\* A cart with nothing in it.
LEMMA VacioDa ==
  ASSUME NEW lista, NEW exc
  PROVE  Bien(Vacio, lista, exc) /\ DOMAIN Vacio.lineas = {}
<1>1. PICK c : c = Vacio
  OBVIOUS
<1>2. c.lineas = <<>> /\ c.global = 0 /\ c.total = 0 /\ c.conDescuento = 0 /\ c.sel = -1
  BY <1>1 DEF Vacio
<1>3. c.lineas \in Seq(Renglones) /\ DOMAIN c.lineas = {} /\ Len(c.lineas) = 0
  BY <1>2
<1>4. c \in Carros
  BY <1>1, <1>3 DEF Vacio, Carros
<1>5. ComputeTotal(c.lineas) = 0
  <2>1. PICK f : f = [i \in DOMAIN c.lineas |-> c.lineas[i].sub]
    OBVIOUS
  <2>2. f \in [{} -> Int]
    BY <1>3, <2>1
  <2> QED
    BY <2>1, <2>2, SumEmpty DEF ComputeTotal
<1>6. ComputeTotalConDescuento(0, 0) = 0
  BY DEF ComputeTotalConDescuento, Pct
<1>7. Una(c.lineas) /\ AlDia(c, lista, exc)
  BY <1>3 DEF Una, AlDia
<1>8. c.sel \in -1 .. Tope(Len(c.lineas))
  BY <1>2, <1>3 DEF Tope
<1> QED
  BY <1>1, <1>2, <1>3, <1>4, <1>5, <1>6, <1>7, <1>8 DEF Bien

-----------------------------------------------------------------------------
(* The invariant of the cart and its handlers                              *)
(*                                                                         *)
(* What a handler has read is not more than IndexedDB has, until the stock *)
(* changes behind it; then its product is excused.                         *)

Tareas == [pc : {"libre", "precio", "busca", "agrega", "cantidad"}, prod : Productos \cup {Nada},
           w : Nat, cant : Int, leido : Int]

TareaBien(ta, st, exc) ==
  /\ ta.pc # "libre" => ta.prod \in Productos
  /\ ta.pc = "cantidad" => ta.cant > 0 /\ (ta.w # 0 => ta.leido = 0)
  /\ ta.pc \in {"agrega", "cantidad"} /\ ta.w = 0 /\ ta.prod \notin exc => ta.leido <= st[ta.prod]
  /\ ta.pc = "agrega" => ta.w = 0

ConStock(c, st, exc) ==
  \A i \in DOMAIN c.lineas :
    DeUnidad(c.lineas[i]) /\ c.lineas[i].prod \notin exc => c.lineas[i].cant <= st[c.lineas[i].prod]

Tiendas ==
  /\ promociones \in Listados /\ stock \in [Productos -> Int]
  /\ pesando \in Pesables \cup {Nada} /\ catalogo \in {"no", "pedido", "borrado"}
  /\ excusados \subseteq Productos

Manejadores ==
  /\ tareas \in [1 .. MaxTareas -> Tareas]
  /\ \A t \in 1 .. MaxTareas : TareaBien(tareas[t], stock, excusados)

IInv ==
  /\ Tiendas /\ Manejadores
  /\ Bien(carrito, promociones, excusados) /\ ConStock(carrito, stock, excusados)

\* Handlers that change a quantity go on with it.
Siguen == \A t \in 1 .. MaxTareas : tareas[t].pc = "cantidad" => tareas'[t].pc = "cantidad"

LEMMA LibreDa == Libre \in Tareas /\ \A st, exc : TareaBien(Libre, st, exc)
<1>1. PICK l : l = Libre
  OBVIOUS
<1>2. l.pc = "libre" /\ l \in Tareas
  BY <1>1 DEF Libre, Tareas
<1> QED
  BY <1>1, <1>2 DEF TareaBien

LEMMA TareaDa ==
  ASSUME stock \in [Productos -> Int], NEW exc, NEW p \in Productos, NEW w \in Nat, NEW cant \in Int,
         NEW pc \in {"precio", "busca", "agrega", "cantidad"},
         pc = "cantidad" => cant > 0, pc # "cantidad" => w = 0
  PROVE  /\ Tarea(pc, p, w, cant) \in Tareas /\ Tarea(pc, p, w, cant).pc = pc
         /\ TareaBien(Tarea(pc, p, w, cant), stock, exc)
<1>1. PICK x \in Int : x = IF w = 0 THEN stock[p] ELSE 0
  OBVIOUS
<1>2. PICK ta : ta = Tarea(pc, p, w, cant)
  OBVIOUS
<1>3. ta = [pc |-> pc, prod |-> p, w |-> w, cant |-> cant, leido |-> x]
  BY <1>1, <1>2 DEF Tarea
<1>4. ta \in Tareas /\ ta.pc = pc /\ ta.prod = p /\ ta.w = w /\ ta.cant = cant /\ ta.leido = x
  BY <1>3 DEF Tareas
<1>5. stock[p] <= stock[p]
  OBVIOUS
<1>6. TareaBien(ta, stock, exc)
  BY <1>1, <1>4, <1>5 DEF TareaBien
<1> QED
  BY <1>2, <1>4, <1>6

LEMMA PrimeraDa ==
  ASSUME HayLugar
  PROVE  Primera \in 1 .. MaxTareas /\ tareas[Primera] = Libre
<1>1. PICK S : S = {t \in 1 .. MaxTareas : tareas[t] = Libre}
  OBVIOUS
<1>2. S \subseteq Nat /\ S # {}
  BY <1>1 DEF HayLugar
<1>3. \E m \in S : \A k \in S : m <= k
  BY <1>2, LeastNatural
<1>4. Min(S) \in S
  BY <1>3 DEF Min
<1> QED
  BY <1>1, <1>4 DEF Primera

\* One handler starts, goes on or ends.
LEMMA UnaTarea ==
  ASSUME Manejadores, NEW t \in 1 .. MaxTareas, NEW x \in Tareas, TareaBien(x, stock, excusados),
         tareas' = [tareas EXCEPT ![t] = x], stock' = stock, excusados' = excusados
  PROVE  /\ Manejadores'
         /\ (tareas[t].pc = "cantidad" => x.pc = "cantidad") => Siguen
<1>1. tareas' \in [1 .. MaxTareas -> Tareas]
  BY DEF Manejadores
<1>2. \A u \in 1 .. MaxTareas : tareas'[u] = IF u = t THEN x ELSE tareas[u]
  BY DEF Manejadores
<1>3. Manejadores'
  BY <1>1, <1>2 DEF Manejadores
<1> QED
  BY <1>2, <1>3 DEF Siguen

\* The stock changes only for products that are excused.
LEMMA TareasQuedan ==
  ASSUME Manejadores, tareas' = tareas, excusados \subseteq excusados',
         \A p \in Productos : p \notin excusados' => stock'[p] = stock[p]
  PROVE  Manejadores'
<1>1. ASSUME NEW t \in 1 .. MaxTareas PROVE TareaBien(tareas[t], stock', excusados')
  <2>1. TareaBien(tareas[t], stock, excusados)
    BY DEF Manejadores
  <2>2. tareas[t].pc \in {"agrega", "cantidad"} => tareas[t].prod \in Productos
    BY <2>1 DEF TareaBien
  <2> QED
    BY <2>1, <2>2 DEF TareaBien
<1> QED
  BY <1>1 DEF Manejadores

LEMMA BienCrece ==
  ASSUME NEW c, NEW lista, NEW exc, NEW mas, exc \subseteq mas, Bien(c, lista, exc)
  PROVE  Bien(c, lista, mas)
BY DEF Bien, AlDia

\* The lines of a cart may use what those they come from could.
LEMMA StockHereda ==
  ASSUME NEW c, NEW d, NEW st, NEW exc, ConStock(c, st, exc), Hereda(c.lineas, d.lineas)
  PROVE  ConStock(d, st, exc)
BY DEF ConStock, Hereda, Igual, DeUnidad

LEMMA EscanearPaso ==
  ASSUME IInv, NEW p \in Productos, Escanear(p)
  PROVE  IInv' /\ Siguen
<1>1. PICK pc \in {"precio", "busca"} : tareas' = [tareas EXCEPT ![Primera] = Tarea(pc, p, 0, 1)]
  BY DEF Escanear
<1>2. /\ UNCHANGED <<carrito, promociones, stock, pesando, catalogo, excusados>>
      /\ Primera \in 1 .. MaxTareas /\ tareas[Primera] = Libre
  BY PrimeraDa DEF Escanear
<1>3. Tiendas /\ Manejadores
  BY DEF IInv
<1>4. PICK x \in Tareas : x = Tarea(pc, p, 0, 1) /\ TareaBien(x, stock, excusados)
  BY <1>3, TareaDa DEF Tiendas
<1>5. PICK t \in 1 .. MaxTareas : t = Primera /\ tareas[t].pc # "cantidad"
  BY <1>2 DEF Libre
<1>6. Manejadores' /\ Siguen
  BY <1>1, <1>2, <1>3, <1>4, <1>5, UnaTarea
<1> QED
  BY <1>2, <1>6 DEF IInv, Tiendas

LEMMA AddItemPaso ==
  ASSUME IInv, NEW t \in 1 .. MaxTareas, tareas[t].pc # "cantidad", NEW p \in Productos,
         AddItem(t, p), UNCHANGED <<carrito, promociones, stock, catalogo, excusados>>
  PROVE  IInv' /\ Siguen
<1>1. Tiendas /\ Manejadores
  BY DEF IInv
<1>2. pesando' = pesando /\ tareas' = [tareas EXCEPT ![t] = Tarea("agrega", p, 0, 1)]
  BY DEF AddItem
<1>3. PICK x \in Tareas : x = Tarea("agrega", p, 0, 1) /\ TareaBien(x, stock, excusados)
  BY <1>1, TareaDa DEF Tiendas
<1>4. Manejadores' /\ Siguen
  BY <1>1, <1>2, <1>3, UnaTarea
<1> QED
  BY <1>2, <1>4 DEF IInv, Tiendas

LEMMA AddOrPromptWeightPaso ==
  ASSUME IInv, NEW t \in 1 .. MaxTareas, tareas[t].pc # "cantidad", NEW p \in Productos,
         AddOrPromptWeight(t, p), UNCHANGED <<carrito, promociones, stock, catalogo, excusados>>
  PROVE  IInv' /\ Siguen
<1>1. Tiendas /\ Manejadores
  BY DEF IInv
<1>2. CASE p \in Pesables /\ pesando' = p /\ tareas' = [tareas EXCEPT ![t] = Libre]
  <2>1. Manejadores' /\ Siguen
    BY <1>1, <1>2, LibreDa, UnaTarea
  <2> QED
    BY <1>2, <2>1 DEF IInv, Tiendas
<1>3. CASE AddItem(t, p)
  BY <1>3, AddItemPaso
<1> QED
  BY <1>2, <1>3 DEF AddOrPromptWeight

LEMMA ElegirPaso ==
  ASSUME IInv, NEW p \in Productos, ElegirDeBusqueda(p)
  PROVE  IInv' /\ Siguen
<1>1. PICK t \in 1 .. MaxTareas : t = Primera /\ tareas[t].pc # "cantidad"
  BY PrimeraDa DEF ElegirDeBusqueda, Libre
<1>2. CASE AddOrPromptWeight(t, p)
  BY <1>1, <1>2, AddOrPromptWeightPaso DEF ElegirDeBusqueda
<1>3. CASE AddItem(t, p)
  BY <1>1, <1>3, AddItemPaso DEF ElegirDeBusqueda
<1> QED
  BY <1>1, <1>2, <1>3 DEF ElegirDeBusqueda

LEMMA PesoConfirmadoPaso ==
  ASSUME IInv, NEW peso \in Pesos, PesoConfirmado(peso)
  PROVE  IInv' /\ Siguen /\ DOMAIN carrito'.lineas # {}
<1>1. PICK w \in 1 .. MaxGestos + 1 :
        LineaNueva(pesando, w) /\ carrito' = AddWeightItem(carrito, pesando, w, peso)
  BY DEF PesoConfirmado
<1>2. /\ pesando # Nada /\ pesando' = Nada
      /\ UNCHANGED <<promociones, stock, tareas, catalogo, excusados>>
  BY DEF PesoConfirmado
<1>3. /\ pesando \in Productos /\ w \in Nat \ {0} /\ peso \in Nat
      /\ Indice(carrito.lineas, pesando, w) = 0
  BY <1>1, <1>2, CarritoAssumption DEF IInv, Tiendas, Productos, LineaNueva, SinUso
<1>4. PICK p \in Productos : p = pesando
  BY <1>3
<1>5. PICK d : d = AddWeightItem(carrito, p, w, peso)
  OBVIOUS
<1>6. /\ Bien(d, promociones, excusados) /\ DOMAIN d.lineas # {}
      /\ \A i \in DOMAIN d.lineas :
           d.lineas[i].w # 0 \/ \E j \in DOMAIN carrito.lineas : Igual(d.lineas[i], carrito.lineas[j])
  BY <1>3, <1>4, <1>5, AddWeightDa DEF IInv, Tiendas
<1>7. ConStock(d, stock, excusados)
  BY <1>6 DEF IInv, ConStock, Igual, DeUnidad
<1>8. Manejadores' /\ Siguen
  BY <1>2, TareasQuedan DEF IInv, Siguen
<1> QED
  BY <1>1, <1>2, <1>4, <1>5, <1>6, <1>7, <1>8 DEF IInv, Tiendas

LEMMA PesoCanceladoPaso ==
  ASSUME IInv, PesoCancelado
  PROVE  IInv' /\ Siguen /\ carrito' = carrito
<1>1. pesando' = Nada /\ UNCHANGED <<carrito, promociones, stock, tareas, catalogo, excusados>>
  BY DEF PesoCancelado
<1>2. Manejadores' /\ Siguen
  BY <1>1, TareasQuedan DEF IInv, Siguen
<1> QED
  BY <1>1, <1>2 DEF IInv, Tiendas

LEMMA QuitarPaso ==
  ASSUME IInv, NEW i, Quitar(i)
  PROVE  IInv' /\ Siguen
<1>1. PICK p, w : carrito' = RemoveItem(carrito, p, w)
  BY DEF Quitar
<1>2. UNCHANGED <<promociones, stock, tareas, pesando, catalogo, excusados>>
  BY DEF Quitar
<1>3. PICK d : d = RemoveItem(carrito, p, w)
  OBVIOUS
<1>4. Bien(d, promociones, excusados) /\ Hereda(carrito.lineas, d.lineas)
  BY <1>3, RemoveItemDa DEF IInv, Tiendas
<1>5. ConStock(d, stock, excusados)
  BY <1>4, StockHereda DEF IInv
<1>6. Manejadores' /\ Siguen
  BY <1>2, TareasQuedan DEF IInv, Siguen
<1> QED
  BY <1>1, <1>2, <1>3, <1>4, <1>5, <1>6 DEF IInv, Tiendas

LEMMA UpdateQuantityPaso ==
  ASSUME IInv, NEW i \in Lineas, NEW cant \in Int, UpdateQuantity(i, cant)
  PROVE  IInv' /\ Siguen
<1>1. /\ UNCHANGED <<carrito, promociones, stock, pesando, catalogo, excusados>>
      /\ Primera \in 1 .. MaxTareas /\ tareas[Primera] = Libre /\ cant > 0
      /\ tareas' = [tareas EXCEPT ![Primera] = Tarea("cantidad", carrito.lineas[i].prod,
                                                     carrito.lineas[i].w, cant)]
  BY PrimeraDa DEF UpdateQuantity
<1>2. Tiendas /\ Manejadores
  BY DEF IInv
<1>3. PICK p \in Productos, w \in Nat : p = carrito.lineas[i].prod /\ w = carrito.lineas[i].w
  <2>1. carrito.lineas \in Seq(Renglones)
    BY BienDa DEF IInv
  <2>2. carrito.lineas[i] \in Renglones
    BY <2>1 DEF Lineas
  <2> QED
    BY <2>2 DEF Renglones
<1>4. PICK x \in Tareas : x = Tarea("cantidad", p, w, cant) /\ TareaBien(x, stock, excusados)
  BY <1>1, <1>2, TareaDa DEF Tiendas
<1>5. PICK t \in 1 .. MaxTareas : t = Primera /\ tareas[t].pc # "cantidad"
  BY <1>1 DEF Libre
<1>6. Manejadores' /\ Siguen
  BY <1>1, <1>2, <1>3, <1>4, <1>5, UnaTarea
<1> QED
  BY <1>1, <1>6 DEF IInv, Tiendas

LEMMA DescontarPaso ==
  ASSUME IInv, NEW i \in Lineas \cup {0}, NEW desc \in Descuentos, Descontar(i, desc)
  PROVE  IInv' /\ Siguen /\ DOMAIN carrito'.lineas = DOMAIN carrito.lineas
<1>1. UNCHANGED <<promociones, stock, tareas, pesando, catalogo, excusados>>
  BY DEF Descontar
<1>2. /\ promociones \in Listados /\ Bien(carrito, promociones, excusados)
      /\ desc \in 0 .. 100
  BY CarritoAssumption DEF IInv, Tiendas
<1>3. /\ Bien(carrito', promociones, excusados) /\ DOMAIN carrito'.lineas = DOMAIN carrito.lineas
      /\ Hereda(carrito.lineas, carrito'.lineas)
  <2>1. CASE i = 0
    <3>1. carrito' = SetGlobalDiscount(carrito, desc)
      BY <2>1 DEF Descontar
    <3>2. Bien(carrito', promociones, excusados) /\ carrito'.lineas = carrito.lineas
      BY <1>2, <3>1, DeUnCampo
    <3> QED
      BY <3>2 DEF Hereda, Igual
  <2>2. CASE i # 0
    <3>1. carrito' = SetItemDiscount(carrito, i, desc)
      BY <2>2 DEF Descontar
    <3>2. i \in DOMAIN carrito.lineas
      BY <1>2, <2>2, BienDa DEF Lineas
    <3> QED
      BY <1>2, <3>1, <3>2, SetItemDiscountDa
  <2> QED
    BY <2>1, <2>2
<1>4. ConStock(carrito', stock, excusados)
  BY <1>3, StockHereda DEF IInv
<1>5. Manejadores' /\ Siguen
  BY <1>1, TareasQuedan DEF IInv, Siguen
<1> QED
  BY <1>1, <1>3, <1>4, <1>5 DEF IInv, Tiendas

LEMMA SeleccionarPaso ==
  ASSUME IInv, Seleccionar
  PROVE  IInv' /\ Siguen
<1>1. UNCHANGED <<promociones, stock, tareas, pesando, catalogo, excusados>>
  BY DEF Seleccionar
<1>2. Bien(carrito, promociones, excusados)
  BY DEF IInv
<1>3. Bien(carrito', promociones, excusados) /\ carrito'.lineas = carrito.lineas
  <2>1. CASE carrito' \in {Move(carrito, -1), Move(carrito, 1)}
    BY <1>2, <2>1, MoveDa
  <2>2. CASE \E i \in 1 .. Len(carrito.lineas) : carrito' = [carrito EXCEPT !.sel = i - 1]
    <3>1. PICK n \in Nat : n = Len(carrito.lineas)
      BY <1>2, BienDa
    <3>2. PICK i \in 1 .. n : carrito' = [carrito EXCEPT !.sel = i - 1]
      BY <2>2, <3>1
    <3>3. PICK s \in -1 .. Tope(n) : s = i - 1
      BY <3>1 DEF Tope
    <3>4. s \in -1 .. Tope(Len(carrito.lineas))
      BY <3>1
    <3>5. carrito' = [carrito EXCEPT !.sel = s]
      BY <3>2, <3>3
    <3> QED
      BY <1>2, <3>4, <3>5, DeUnCampo
  <2> QED
    BY <2>1, <2>2 DEF Seleccionar
<1>4. ConStock(carrito', stock, excusados)
  BY <1>3 DEF IInv, ConStock
<1>5. Manejadores' /\ Siguen
  BY <1>1, TareasQuedan DEF IInv, Siguen
<1> QED
  BY <1>1, <1>3, <1>4, <1>5 DEF IInv, Tiendas

\* A sale empties the cart and takes its units off the stock.
LEMMA DeductLocalStockDa ==
  ASSUME stock \in [Productos -> Int], NEW lineas \in Seq(Renglones)
  PROVE  DeductLocalStock(lineas) \in [Productos -> Int]
<1>1. ASSUME NEW p \in Productos
      PROVE  SumFunction([i \in {j \in DOMAIN lineas : lineas[j].prod = p} |-> lineas[i].cant]) \in Int
  <2>1. PICK S : S = {j \in DOMAIN lineas : lineas[j].prod = p}
    OBVIOUS
  <2>2. PICK f : f = [i \in S |-> lineas[i].cant]
    OBVIOUS
  <2>3. \A i \in DOMAIN lineas : lineas[i] \in Renglones
    OBVIOUS
  <2>4. f \in [S -> Int]
    BY <2>1, <2>2, <2>3 DEF Renglones
  <2>5. IsFiniteSet(S)
    <3>1. DOMAIN lineas = 1 .. Len(lineas) /\ Len(lineas) \in Int /\ 1 \in Int
      OBVIOUS
    <3> QED
      BY <2>1, <3>1, FS_Interval, FS_Subset
  <2> QED
    BY <2>1, <2>2, <2>4, <2>5, SumType
<1>2. \A p \in Productos : stock[p] \in Int
  OBVIOUS
<1> QED
  BY <1>1, <1>2 DEF DeductLocalStock

LEMMA VaciarVendidoPaso ==
  ASSUME IInv, VaciarVendido
  PROVE  IInv' /\ Siguen
<1>1. /\ stock' = DeductLocalStock(carrito.lineas) /\ carrito' = Vacio
      /\ excusados' = excusados \cup {tareas[t].prod : t \in {u \in 1 .. MaxTareas :
                                      tareas[u].pc \in {"agrega", "cantidad"}}}
      /\ UNCHANGED <<promociones, tareas, pesando, catalogo>>
  BY DEF VaciarVendido
<1>2. stock' \in [Productos -> Int]
  <2>1. carrito.lineas \in Seq(Renglones)
    BY BienDa DEF IInv
  <2> QED
    BY <1>1, <2>1, DeductLocalStockDa DEF IInv, Tiendas
<1>3. ASSUME NEW t \in 1 .. MaxTareas
      PROVE  TareaBien(tareas[t], stock, excusados)
  BY DEF IInv, Manejadores
<1>4. excusados' \subseteq Productos
  BY <1>1, <1>3 DEF IInv, Tiendas, TareaBien
<1>5. ASSUME NEW t \in 1 .. MaxTareas
      PROVE  TareaBien(tareas[t], stock', excusados')
  <2>1. tareas[t].pc \in {"agrega", "cantidad"} => tareas[t].prod \in excusados'
    BY <1>1
  <2> QED
    BY <1>3, <2>1 DEF TareaBien
<1>6. Manejadores'
  BY <1>1, <1>5 DEF IInv, Manejadores
<1>7. Bien(carrito', promociones, excusados') /\ ConStock(carrito', stock', excusados')
  BY <1>1, VacioDa DEF ConStock
<1>8. Siguen
  BY <1>1 DEF Siguen
<1> QED
  BY <1>1, <1>2, <1>4, <1>6, <1>7, <1>8 DEF IInv, Tiendas

-----------------------------------------------------------------------------
(* The handlers go on *)

\* A cart that has lines keeps some.
Conserva == DOMAIN carrito.lineas # {} => DOMAIN carrito'.lineas # {}

LEMMA PrecioRespondePaso ==
  ASSUME IInv, NEW t \in 1 .. MaxTareas, PrecioResponde(t)
  PROVE  IInv' /\ Siguen /\ Conserva
<1>1. /\ UNCHANGED <<carrito, promociones, stock, pesando, catalogo, excusados>>
      /\ tareas[t].pc = "precio"
  BY DEF PrecioResponde
<1>2. Tiendas /\ Manejadores
  BY DEF IInv
<1>3. tareas[t].prod \in Productos
  BY <1>1, <1>2 DEF Manejadores, TareaBien
<1>4. PICK x \in Tareas : tareas' = [tareas EXCEPT ![t] = x] /\ TareaBien(x, stock, excusados)
  <2>1. CASE Termina(t)
    BY <2>1, LibreDa DEF Termina
  <2>2. CASE tareas' = [tareas EXCEPT ![t] = Tarea("busca", tareas[t].prod, 0, 1)]
    <3>1. PICK p \in Productos : p = tareas[t].prod
      BY <1>3
    <3>2. /\ Tarea("busca", p, 0, 1) \in Tareas
          /\ TareaBien(Tarea("busca", p, 0, 1), stock, excusados)
      BY <1>2, TareaDa DEF Tiendas
    <3> QED
      BY <2>2, <3>1, <3>2
  <2> QED
    BY <2>1, <2>2 DEF PrecioResponde
<1>5. Manejadores' /\ Siguen
  BY <1>1, <1>2, <1>4, UnaTarea
<1> QED
  BY <1>1, <1>5 DEF IInv, Tiendas, Conserva

LEMMA BuscaRespondePaso ==
  ASSUME IInv, NEW t \in 1 .. MaxTareas, BuscaResponde(t)
  PROVE  IInv' /\ Siguen /\ Conserva
<1>1. /\ UNCHANGED <<carrito, promociones, stock, catalogo, excusados>>
      /\ tareas[t].pc = "busca"
  BY DEF BuscaResponde
<1>2. Tiendas /\ Manejadores
  BY DEF IInv
<1>3. tareas[t].prod \in Productos
  BY <1>1, <1>2 DEF Manejadores, TareaBien
<1>4. IInv' /\ Siguen
  <2>1. CASE Encontrado(t)
    <3>1. AddOrPromptWeight(t, tareas[t].prod)
      BY <2>1 DEF BuscaResponde
    <3>2. PICK p \in Productos : p = tareas[t].prod
      BY <1>3
    <3> QED
      BY <1>1, <3>1, <3>2, AddOrPromptWeightPaso
  <2>2. CASE ~Encontrado(t)
    <3>1. pesando' = pesando /\ tareas' = [tareas EXCEPT ![t] = Libre]
      BY <2>2 DEF BuscaResponde, Termina
    <3>2. Manejadores' /\ Siguen
      BY <1>1, <1>2, <3>1, LibreDa, UnaTarea
    <3> QED
      BY <1>1, <3>1, <3>2 DEF IInv, Tiendas
  <2> QED
    BY <2>1, <2>2
<1> QED
  BY <1>1, <1>4 DEF Conserva

\* The handlers that are left when one ends, with another product excused.
LEMMA TerminaDa ==
  ASSUME Manejadores, NEW t \in 1 .. MaxTareas, Termina(t), stock' = stock,
         excusados \subseteq excusados'
  PROVE  Manejadores' /\ \A u \in 1 .. MaxTareas : u # t => tareas'[u] = tareas[u]
<1>1. tareas' = [tareas EXCEPT ![t] = Libre] /\ tareas \in [1 .. MaxTareas -> Tareas]
  BY DEF Termina, Manejadores
<1>2. tareas' \in [1 .. MaxTareas -> Tareas]
  BY <1>1, LibreDa
<1>3. /\ \A u \in 1 .. MaxTareas : u # t => tareas'[u] = tareas[u]
      /\ tareas'[t] = Libre
  BY <1>1
<1>4. ASSUME NEW u \in 1 .. MaxTareas
      PROVE  TareaBien(tareas'[u], stock', excusados')
  <2>1. CASE u = t
    BY <1>3, <2>1, LibreDa
  <2>2. CASE u # t
    <3>1. TareaBien(tareas[u], stock, excusados)
      BY DEF Manejadores
    <3> QED
      BY <1>3, <2>2, <3>1 DEF TareaBien
  <2> QED
    BY <2>1, <2>2
<1> QED
  BY <1>2, <1>3, <1>4 DEF Manejadores

LEMMA AgregaRespondePaso ==
  ASSUME IInv, NEW t \in 1 .. MaxTareas, AgregaResponde(t)
  PROVE  IInv' /\ Siguen /\ Conserva
<1>1. PICK p : p = tareas[t].prod
  OBVIOUS
<1>2. /\ UNCHANGED <<promociones, stock, pesando, catalogo>> /\ tareas[t].pc = "agrega" /\ Termina(t)
  BY DEF AgregaResponde
<1>3. TareaBien(tareas[t], stock, excusados)
  BY DEF IInv, Manejadores
<1>4. /\ p \in Productos /\ tareas[t].w = 0
      /\ p \notin excusados => tareas[t].leido <= stock[p]
  BY <1>1, <1>2, <1>3 DEF TareaBien
<1>5. promociones \in Listados /\ stock \in [Productos -> Int]
  BY DEF IInv, Tiendas
<1>6. \/ Cabe(t) /\ carrito' = AddUnit(carrito, p) /\ excusados' = excusados
      \/ carrito' = carrito /\ excusados' = excusados
      \/ carrito' = AddUnit(carrito, p) /\ excusados' = excusados \cup {p}
  BY <1>1 DEF AgregaResponde
<1>7. excusados \subseteq excusados' /\ excusados' \subseteq Productos
  BY <1>4, <1>6 DEF IInv, Tiendas
<1>8. Bien(carrito, promociones, excusados')
  BY <1>7, BienCrece DEF IInv
<1>9. ConStock(carrito, stock, excusados')
  BY <1>7 DEF IInv, ConStock
<1>10. /\ Bien(carrito', promociones, excusados') /\ ConStock(carrito', stock, excusados')
       /\ Conserva
  <2>1. CASE carrito' = carrito
    BY <1>8, <1>9, <2>1 DEF Conserva
  <2>2. CASE carrito' = AddUnit(carrito, p) /\ (p \in excusados' \/ (Cabe(t) /\ excusados' = excusados))
    <3>1. PICK d : d = AddUnit(carrito, p)
      OBVIOUS
    <3>2. /\ Bien(d, promociones, excusados') /\ DOMAIN d.lineas # {}
          /\ \A i \in DOMAIN d.lineas :
               \/ \E j \in DOMAIN carrito.lineas : Igual(d.lineas[i], carrito.lineas[j])
               \/ /\ d.lineas[i].prod = p /\ d.lineas[i].w = 0
                  /\ d.lineas[i].cant = CantidadDe(carrito.lineas, p) + 1
      BY <1>4, <1>5, <1>8, <3>1, AddUnitDa
    <3>3. p \notin excusados' => CantidadDe(carrito.lineas, p) + 1 <= stock[p]
      <4>1. ASSUME p \notin excusados'
            PROVE  CantidadDe(carrito.lineas, p) + 1 <= stock[p]
        <5>1. CantidadDe(carrito.lineas, p) + 1 <= tareas[t].leido
          BY <1>1, <2>2, <4>1 DEF Cabe
        <5>2. tareas[t].leido <= stock[p]
          BY <1>4, <1>7, <4>1
        <5>3. tareas[t].leido \in Int /\ stock[p] \in Int
          BY <1>4, <1>5 DEF IInv, Manejadores, Tareas
        <5>4. CantidadDe(carrito.lineas, p) \in Nat
          <6>1. carrito.lineas \in Seq(Renglones)
            BY <1>8, BienDa
          <6>2. /\ Cuenta(carrito.lineas) \in [Productos -> Nat]
                /\ Cuenta(carrito.lineas)[p] = CantidadDe(carrito.lineas, p)
            BY <1>4, <6>1, CuentaDa
          <6> QED
            BY <1>4, <6>2
        <5> QED
          BY <5>1, <5>2, <5>3, <5>4
      <4> QED
        BY <4>1
    <3>4. ConStock(d, stock, excusados')
      BY <1>9, <3>2, <3>3 DEF ConStock, Igual, DeUnidad
    <3> QED
      BY <2>2, <3>1, <3>2, <3>4 DEF Conserva
  <2> QED
    BY <1>6, <2>1, <2>2
<1>11. Manejadores' /\ \A u \in 1 .. MaxTareas : u # t => tareas'[u] = tareas[u]
  BY <1>2, <1>7, TerminaDa DEF IInv
<1>12. Siguen
  BY <1>2, <1>11 DEF Siguen
<1> QED
  BY <1>2, <1>7, <1>10, <1>11, <1>12 DEF IInv, Tiendas

\* A handler that changes a quantity leaves the lines there are.
LEMMA CantidadRespondePaso ==
  ASSUME IInv, NEW t \in 1 .. MaxTareas, CantidadResponde(t)
  PROVE  /\ IInv' /\ Conserva
         /\ \A i \in DOMAIN carrito'.lineas : \E j \in DOMAIN carrito.lineas :
              /\ carrito'.lineas[i].prod = carrito.lineas[j].prod
              /\ carrito'.lineas[i].w = carrito.lineas[j].w
<1>1. PICK ta : ta = tareas[t]
  OBVIOUS
<1>2. /\ UNCHANGED <<promociones, stock, pesando, catalogo>> /\ ta.pc = "cantidad" /\ Termina(t)
  BY <1>1 DEF CantidadResponde
<1>3. TareaBien(ta, stock, excusados) /\ ta \in Tareas
  BY <1>1 DEF IInv, Manejadores
<1>4. PICK p \in Productos, w \in Nat, cant \in Nat \ {0}, leido \in Int :
        p = ta.prod /\ w = ta.w /\ cant = ta.cant /\ leido = ta.leido
  BY <1>2, <1>3 DEF TareaBien, Tareas
<1>5. /\ w # 0 => leido = 0
      /\ w = 0 /\ p \notin excusados => leido <= stock[p]
  BY <1>2, <1>3, <1>4 DEF TareaBien
<1>6. promociones \in Listados /\ stock \in [Productos -> Int]
  BY DEF IInv, Tiendas
<1>7. \/ cant <= leido /\ carrito' = SetQuantity(carrito, p, w, cant) /\ excusados' = excusados
      \/ carrito' = carrito /\ excusados' = excusados
      \/ carrito' = SetQuantity(carrito, p, w, cant) /\ excusados' = excusados \cup {p}
  BY <1>1, <1>4 DEF CantidadResponde
<1>8. excusados \subseteq excusados' /\ excusados' \subseteq Productos
  BY <1>7 DEF IInv, Tiendas
<1>9. Bien(carrito, promociones, excusados')
  BY <1>8, BienCrece DEF IInv
<1>10. ConStock(carrito, stock, excusados')
  BY <1>8 DEF IInv, ConStock
<1>11. /\ Bien(carrito', promociones, excusados') /\ ConStock(carrito', stock, excusados')
       /\ DOMAIN carrito'.lineas = DOMAIN carrito.lineas
       /\ \A i \in DOMAIN carrito'.lineas :
            /\ carrito'.lineas[i].prod = carrito.lineas[i].prod
            /\ carrito'.lineas[i].w = carrito.lineas[i].w
  <2>1. CASE carrito' = carrito
    BY <1>9, <1>10, <2>1
  <2>2. CASE /\ carrito' = SetQuantity(carrito, p, w, cant)
             /\ p \in excusados' \/ (cant <= leido /\ excusados' = excusados)
    <3>1. PICK d : d = SetQuantity(carrito, p, w, cant)
      OBVIOUS
    <3>2. w # 0 => p \in excusados'
      BY <1>4, <1>5, <2>2
    <3>3. /\ Bien(d, promociones, excusados') /\ DOMAIN d.lineas = DOMAIN carrito.lineas
          /\ \A i \in DOMAIN d.lineas :
               /\ d.lineas[i].prod = carrito.lineas[i].prod /\ d.lineas[i].w = carrito.lineas[i].w
               /\ \/ d.lineas[i].cant = carrito.lineas[i].cant
                  \/ d.lineas[i].prod = p /\ d.lineas[i].w = w /\ d.lineas[i].cant = cant
      BY <1>6, <1>9, <3>1, <3>2, SetQuantityDa
    <3>4. w = 0 /\ p \notin excusados' => cant <= stock[p]
      <4>1. stock[p] \in Int
        BY <1>6
      <4> QED
        BY <1>4, <1>5, <2>2, <4>1
    <3>5. ConStock(d, stock, excusados')
      BY <1>10, <3>3, <3>4 DEF ConStock, DeUnidad
    <3> QED
      BY <2>2, <3>1, <3>3, <3>5
  <2> QED
    BY <1>7, <2>1, <2>2
<1>12. Manejadores'
  BY <1>2, <1>8, TerminaDa DEF IInv
<1>13. IInv'
  BY <1>2, <1>8, <1>11, <1>12 DEF IInv, Tiendas
<1> QED
  BY <1>11, <1>13 DEF Conserva

-----------------------------------------------------------------------------
(* The server answers *)

LEMMA PromocionesLleganPaso ==
  ASSUME IInv, PromocionesLlegan
  PROVE  IInv' /\ Siguen /\ Conserva
<1>1. PICK l \in Listas : promociones' = l /\ carrito' = SetPromoDiscounts(l, carrito)
  BY DEF PromocionesLlegan
<1>2. UNCHANGED <<stock, tareas, pesando, catalogo, excusados>>
  BY DEF PromocionesLlegan
<1>3. l \in Listados
  BY DEF Listados
<1>4. Bien(carrito, promociones, excusados)
  BY DEF IInv
<1>5. Previo(carrito, excusados)
  BY <1>4, BienDa DEF Previo
<1>6. PICK d : d = SetPromoDiscounts(l, carrito)
  OBVIOUS
<1>7. /\ Bien(d, l, excusados) /\ DOMAIN d.lineas = DOMAIN carrito.lineas
      /\ \A i \in DOMAIN carrito.lineas : Igual(d.lineas[i], carrito.lineas[i])
  BY <1>3, <1>5, <1>6, EfectoEs
<1>8. Hereda(carrito.lineas, d.lineas)
  BY <1>7 DEF Hereda
<1>9. ConStock(d, stock, excusados)
  BY <1>8, StockHereda DEF IInv
<1>10. Manejadores' /\ Siguen
  BY <1>2, TareasQuedan DEF IInv, Siguen
<1> QED
  BY <1>1, <1>2, <1>3, <1>6, <1>7, <1>9, <1>10 DEF IInv, Tiendas, Conserva

\* The catalogue: what stock it changes it excuses.
LEMMA CatalogoPaso ==
  ASSUME IInv, DeltaSyncCatalog \/ SeedBorra \/ CatalogoLlega
  PROVE  IInv' /\ Siguen /\ carrito' = carrito
<1>1. UNCHANGED <<carrito, promociones, tareas, pesando>>
  BY DEF DeltaSyncCatalog, SeedBorra, CatalogoLlega
<1>2. Tiendas
  BY DEF IInv
<1>3. /\ stock' \in [Productos -> Int] /\ catalogo' \in {"no", "pedido", "borrado"}
      /\ excusados \subseteq excusados' /\ excusados' \subseteq Productos
      /\ \A p \in Productos : p \notin excusados' => stock'[p] = stock[p]
  <2>1. CASE DeltaSyncCatalog
    BY <1>2, <2>1 DEF DeltaSyncCatalog, Tiendas
  <2>2. CASE SeedBorra
    BY <1>2, <2>2 DEF SeedBorra, Tiendas
  <2>3. CASE CatalogoLlega
    <3>1. CASE UNCHANGED <<stock, excusados>>
      BY <1>2, <2>3, <3>1 DEF CatalogoLlega, Tiendas
    <3>2. CASE \E p \in Productos, n \in 0 .. MaxStock :
                 stock' = [stock EXCEPT ![p] = n] /\ excusados' = excusados \cup {p}
      <4>1. PICK p \in Productos, n \in Int :
              stock' = [stock EXCEPT ![p] = n] /\ excusados' = excusados \cup {p}
        <5>1. 0 .. MaxStock \subseteq Int
          OBVIOUS
        <5> QED
          BY <3>2, <5>1
      <4> QED
        BY <1>2, <2>3, <4>1 DEF CatalogoLlega, Tiendas
    <3> QED
      BY <2>3, <3>1, <3>2 DEF CatalogoLlega
  <2> QED
    BY <2>1, <2>2, <2>3
<1>4. Manejadores' /\ Siguen
  BY <1>1, <1>3, TareasQuedan DEF IInv, Siguen
<1>5. Bien(carrito', promociones', excusados')
  BY <1>1, <1>3, BienCrece DEF IInv
<1>6. ConStock(carrito', stock', excusados')
  <2>1. \A i \in DOMAIN carrito.lineas : carrito.lineas[i].prod \in Productos
    <3>1. carrito.lineas \in Seq(Renglones)
      BY BienDa DEF IInv
    <3>2. \A i \in DOMAIN carrito.lineas : carrito.lineas[i] \in Renglones
      BY <3>1
    <3> QED
      BY <3>2 DEF Renglones
  <2> QED
    BY <1>1, <1>3, <2>1 DEF IInv, ConStock
<1> QED
  BY <1>1, <1>2, <1>3, <1>4, <1>5, <1>6 DEF IInv, Tiendas

-----------------------------------------------------------------------------
(* A combo of the screen is deleted *)

Filas == [promo : Promos, juegos : Int]
Acc == [resto : [Productos -> Int], combo : SUBSET Productos, filas : SUBSET Filas, suma : Int]

LEMMA ConComboDa ==
  ASSUME NEW acc \in Acc, NEW promo \in Promos
  PROVE  ConCombo(acc, promo) \in Acc
<1>1. /\ promo.prods \subseteq Productos /\ promo.n \in Nat /\ promo.valor \in Nat
      /\ acc.resto \in [Productos -> Int] /\ acc.combo \subseteq Productos
      /\ acc.filas \subseteq Filas /\ acc.suma \in Int
  BY DEF Promos, Acc
<1>2. PICK juegos \in Int : juegos = Juegos(promo, acc.resto)
  BY <1>1, JuegosDa
<1>3. PICK pleno \in Int : pleno = SumFunction([p \in promo.prods |-> Precio[p] * juegos * promo.n])
  <2>1. PICK f : f = [p \in promo.prods |-> Precio[p] * juegos * promo.n]
    OBVIOUS
  <2>2. f \in [promo.prods -> Int]
    BY <1>1, <2>1, Constantes
  <2>3. IsFiniteSet(promo.prods)
    BY <1>1, Constantes, FS_Subset
  <2> QED
    BY <2>1, <2>2, <2>3, SumType
<1>4. PICK resto \in [Productos -> Int] :
        resto = [p \in Productos |-> IF p \in promo.prods THEN acc.resto[p] - juegos * promo.n
                                                          ELSE acc.resto[p]]
  <2>1. PICK x \in Int : x = juegos * promo.n
    BY <1>1
  <2>2. \A p \in Productos : acc.resto[p] - x \in Int /\ acc.resto[p] \in Int
    BY <1>1
  <2> QED
    BY <2>1, <2>2
<1>5. PICK suma \in Int :
        suma = acc.suma + (IF promo.tipo = "porcentaje"
                             THEN pleno - Pct(pleno, promo.valor)
                             ELSE Max({0, pleno - juegos * promo.valor}))
  <2>1. Pct(pleno, promo.valor) \in Int
    <3>1. PICK x \in Int : x = pleno * promo.valor
      BY <1>1
    <3>2. x \div 100 \in Int
      OBVIOUS
    <3> QED
      BY <3>1, <3>2 DEF Pct
  <2>2. Max({0, pleno - juegos * promo.valor}) \in Int
    <3>1. PICK x \in Int : x = pleno - juegos * promo.valor
      BY <1>1
    <3> QED
      BY <3>1, MaxDeDos
  <2> QED
    BY <1>1, <2>1, <2>2
<1>6. PICK fila : fila = [promo |-> promo, juegos |-> juegos]
  OBVIOUS
<1>7. fila \in Filas
  BY <1>6 DEF Filas
<1>8. ConCombo(acc, promo) = IF Cardinality(promo.prods) = 1 \/ juegos = 0 THEN acc
        ELSE [resto |-> resto, combo |-> acc.combo \cup promo.prods,
              filas |-> acc.filas \cup {fila}, suma |-> suma]
  BY <1>2, <1>3, <1>4, <1>5, <1>6 DEF ConCombo
<1> QED
  BY <1>1, <1>7, <1>8 DEF Acc

Mayor == [s \in SUBSET (DOMAIN promociones) |-> Max(s)]
Base0(lineas) == [resto |-> Cuenta(lineas), combo |-> {}, filas |-> {}, suma |-> 0]
Combos(lineas) == CHOOSE iter : iter =
  [s \in SUBSET (DOMAIN promociones) |->
     IF s = {} THEN Base0(lineas) ELSE ConCombo(iter[s \ {Max(s)}], promociones[Max(s)])]

LEMMA CombosEs ==
  ASSUME NEW lineas
  PROVE  BuildDisplayRows(lineas) = Combos(lineas)[DOMAIN promociones]
BY DEF BuildDisplayRows, FoldLeft, MapThenFoldSet, Combos, Base0

LEMMA BuildDisplayRowsDa ==
  ASSUME NEW lineas \in Seq(Renglones), promociones \in Listados
  PROVE  BuildDisplayRows(lineas) \in Acc
<1>1. PICK n \in Nat : DOMAIN promociones = 1 .. n
  BY Constantes
<1>2. \A i \in 1 .. n : promociones[i] \in Promos
  BY <1>1, Constantes
<1>3. Base0(lineas) \in Acc
  BY CuentaDa DEF Base0, Acc
<1>4. IsFiniteSet(1 .. n) /\ 1 .. n \subseteq Int
  <2>1. 1 \in Int /\ n \in Int
    OBVIOUS
  <2> QED
    BY <2>1, FS_Interval
<1>5. ASSUME NEW s \in SUBSET (1 .. n), s # {}
      PROVE  Max(s) \in s /\ Mayor[s] = Max(s)
  <2>1. IsFiniteSet(s) /\ s \subseteq Int
    BY <1>4, FS_Subset
  <2> QED
    BY <1>1, <1>5, <2>1, MaxDa DEF Mayor
<1>6. PICK G : G = [z \in (1 .. n) \X Acc |-> ConCombo(z[2], promociones[z[1]])]
  OBVIOUS
<1>7. \A x \in 1 .. n, v \in Acc : G[<<x, v>>] = ConCombo(v, promociones[x]) /\ G[<<x, v>>] \in Acc
  BY <1>2, <1>6, ConComboDa
<1>8. PICK base \in Acc : base = Base0(lineas)
  BY <1>3
<1>9. PICK ch : ch = Mayor
  OBVIOUS
<1>10. PICK g : IsFold(1 .. n, Acc, base, ch, G, g)
  <2>1. Foldable(1 .. n, Acc, base, ch, G)
    BY <1>4, <1>5, <1>7, <1>8, <1>9 DEF Foldable
  <2> QED
    BY <2>1, FoldSolution
<1>11. /\ g \in [SUBSET (1 .. n) -> Acc]
       /\ \A s \in SUBSET (1 .. n) : g[s] = FoldStep(ch, G, base, g, s)
  BY <1>10 DEF IsFold
<1>12. \A s \in SUBSET (1 .. n) :
         g[s] = IF s = {} THEN Base0(lineas) ELSE ConCombo(g[s \ {Max(s)}], promociones[Max(s)])
  <2> TAKE s \in SUBSET (1 .. n)
  <2>1. CASE s = {}
    BY <1>8, <1>11, <2>1 DEF FoldStep
  <2>2. CASE s # {}
    <3>1. PICK m \in s : m = Max(s) /\ ch[s] = m
      BY <1>5, <1>9, <2>2
    <3>2. g[s \ {m}] \in Acc /\ m \in 1 .. n
      BY <1>11
    <3>3. g[s] = G[<<m, g[s \ {m}]>>]
      BY <1>11, <2>2, <3>1 DEF FoldStep
    <3> QED
      BY <1>7, <2>2, <3>1, <3>2, <3>3
  <2> QED
    BY <2>1, <2>2
<1>13. g = [s \in SUBSET (DOMAIN promociones) |->
              IF s = {} THEN Base0(lineas) ELSE ConCombo(g[s \ {Max(s)}], promociones[Max(s)])]
  BY <1>1, <1>11, <1>12
<1>14. PICK h : h = Combos(lineas)
  OBVIOUS
<1>15. h = [s \in SUBSET (DOMAIN promociones) |->
              IF s = {} THEN Base0(lineas) ELSE ConCombo(h[s \ {Max(s)}], promociones[Max(s)])]
  BY <1>13, <1>14, Zenon DEF Combos
<1>16. \A s \in SUBSET (1 .. n) :
         h[s] = IF s = {} THEN Base0(lineas) ELSE ConCombo(h[s \ {Max(s)}], promociones[Max(s)])
  BY <1>1, <1>15
<1>17. \A s \in SUBSET (1 .. n) : s # {} /\ h[s \ {ch[s]}] \in Acc => h[s] \in Acc
  <2> TAKE s \in SUBSET (1 .. n)
  <2> HAVE s # {} /\ h[s \ {ch[s]}] \in Acc
  <2>1. PICK m \in s : m = Max(s) /\ ch[s] = m
    BY <1>5, <1>9
  <2>2. promociones[m] \in Promos
    BY <1>2
  <2>3. h[s] = ConCombo(h[s \ {m}], promociones[m])
    BY <1>16, <2>1
  <2> QED
    BY <2>1, <2>2, <2>3, ConComboDa
<1>18. h[{}] \in Acc
  BY <1>3, <1>16
<1>19. h[1 .. n] \in Acc
  <2>1. PICK S, V : S = 1 .. n /\ V = Acc
    OBVIOUS
  <2>2. \A s \in SUBSET S : s # {} => ch[s] \in s
    BY <1>5, <1>9, <2>1
  <2>3. IsFiniteSet(S) /\ h[{}] \in V
        /\ \A s \in SUBSET S : s # {} /\ h[s \ {ch[s]}] \in V => h[s] \in V
    BY <1>4, <1>17, <1>18, <2>1
  <2>4. Folded(S, V, ch, h)
    BY <2>2, <2>3 DEF Folded
  <2>5. h[S] \in V
    BY <2>4, FoldRange
  <2> QED
    BY <2>1, <2>5
<1> QED
  BY <1>1, <1>14, <1>19, CombosEs

\* The carts that come from the one there is by removing lines.
Menos == {c \in Carros : Bien(c, promociones, excusados) /\ Hereda(carrito.lineas, c.lineas)}

Elegido(S) == [s \in SUBSET S |-> CHOOSE x \in s : TRUE]
Quitando(S) == CHOOSE iter : iter =
  [s \in SUBSET S |->
     IF s = {} THEN carrito
     ELSE RemoveItem(iter[s \ {CHOOSE x \in s : TRUE}], CHOOSE x \in s : TRUE, 0)]

LEMMA QuitandoEs ==
  ASSUME NEW S
  PROVE  SinLineas(S) = Quitando(S)[S]
BY DEF SinLineas, FoldSet, MapThenFoldSet, Quitando

LEMMA MenosDa ==
  ASSUME promociones \in Listados, NEW c \in Menos, NEW p
  PROVE  RemoveItem(c, p, 0) \in Menos
<1>1. PICK d : d = RemoveItem(c, p, 0)
  OBVIOUS
<1>2. Bien(c, promociones, excusados) /\ Hereda(carrito.lineas, c.lineas)
  BY DEF Menos
<1>3. Bien(d, promociones, excusados) /\ Hereda(c.lineas, d.lineas)
  BY <1>1, <1>2, RemoveItemDa
<1>4. Hereda(carrito.lineas, d.lineas)
  <2>1. ASSUME NEW i \in DOMAIN d.lineas
        PROVE  \E j \in DOMAIN carrito.lineas : Igual(d.lineas[i], carrito.lineas[j])
    <3>1. PICK k \in DOMAIN c.lineas : Igual(d.lineas[i], c.lineas[k])
      BY <1>3 DEF Hereda
    <3>2. PICK j \in DOMAIN carrito.lineas : Igual(c.lineas[k], carrito.lineas[j])
      BY <1>2 DEF Hereda
    <3> QED
      BY <3>1, <3>2 DEF Igual
  <2> QED
    BY <2>1 DEF Hereda
<1>5. d \in Carros
  BY <1>3 DEF Bien
<1> QED
  BY <1>1, <1>3, <1>4, <1>5 DEF Menos

LEMMA SinLineasDa ==
  ASSUME promociones \in Listados, Bien(carrito, promociones, excusados), NEW S, IsFiniteSet(S)
  PROVE  SinLineas(S) \in Menos
<1>1. carrito \in Menos
  BY DEF Menos, Bien, Hereda, Igual
<1>2. PICK ch : ch = Elegido(S)
  OBVIOUS
<1>3. \A s \in SUBSET S : s # {} => ch[s] \in s /\ ch[s] = CHOOSE x \in s : TRUE
  <2> TAKE s \in SUBSET S
  <2> HAVE s # {}
  <2>1. (CHOOSE x \in s : TRUE) \in s
    OBVIOUS
  <2> QED
    BY <1>2, <2>1 DEF Elegido
<1>4. PICK G : G = [z \in S \X Menos |-> RemoveItem(z[2], z[1], 0)]
  OBVIOUS
<1>5. \A x \in S, v \in Menos : G[<<x, v>>] = RemoveItem(v, x, 0) /\ G[<<x, v>>] \in Menos
  BY <1>4, MenosDa
<1>6. PICK base \in Menos : base = carrito
  BY <1>1
<1>7. PICK g : IsFold(S, Menos, base, ch, G, g)
  <2>1. Foldable(S, Menos, base, ch, G)
    BY <1>3, <1>5, <1>6 DEF Foldable
  <2> QED
    BY <2>1, FoldSolution
<1>8. /\ g \in [SUBSET S -> Menos]
      /\ \A s \in SUBSET S : g[s] = FoldStep(ch, G, base, g, s)
  BY <1>7 DEF IsFold
<1>9. \A s \in SUBSET S :
        g[s] = IF s = {} THEN carrito
               ELSE RemoveItem(g[s \ {CHOOSE x \in s : TRUE}], CHOOSE x \in s : TRUE, 0)
  <2> TAKE s \in SUBSET S
  <2>1. CASE s = {}
    BY <1>6, <1>8, <2>1 DEF FoldStep
  <2>2. CASE s # {}
    <3>1. PICK m \in s : m = (CHOOSE x \in s : TRUE) /\ ch[s] = m
      BY <1>3, <2>2
    <3>2. g[s \ {m}] \in Menos /\ m \in S
      BY <1>8
    <3>3. g[s] = G[<<m, g[s \ {m}]>>]
      BY <1>8, <2>2, <3>1 DEF FoldStep
    <3> QED
      BY <1>5, <2>2, <3>1, <3>2, <3>3
  <2> QED
    BY <2>1, <2>2
<1>10. g = [s \in SUBSET S |->
              IF s = {} THEN carrito
              ELSE RemoveItem(g[s \ {CHOOSE x \in s : TRUE}], CHOOSE x \in s : TRUE, 0)]
  BY <1>8, <1>9
<1>11. PICK h : h = Quitando(S)
  OBVIOUS
<1>12. h = [s \in SUBSET S |->
              IF s = {} THEN carrito
              ELSE RemoveItem(h[s \ {CHOOSE x \in s : TRUE}], CHOOSE x \in s : TRUE, 0)]
  BY <1>10, <1>11, Zenon DEF Quitando
<1>13. \A s \in SUBSET S : s # {} /\ h[s \ {ch[s]}] \in Menos => h[s] \in Menos
  <2> TAKE s \in SUBSET S
  <2> HAVE s # {} /\ h[s \ {ch[s]}] \in Menos
  <2>1. h[s] = RemoveItem(h[s \ {CHOOSE x \in s : TRUE}], CHOOSE x \in s : TRUE, 0)
    BY <1>12
  <2>2. h[s] = RemoveItem(h[s \ {ch[s]}], ch[s], 0)
    BY <1>3, <2>1
  <2> QED
    BY <2>2, MenosDa
<1>14. h[{}] \in Menos
  <2>1. {} \in SUBSET S
    OBVIOUS
  <2>2. h[{}] = carrito
    BY <1>12, <2>1
  <2> QED
    BY <1>1, <2>2
<1>15. Folded(S, Menos, ch, h)
  BY <1>3, <1>13, <1>14 DEF Folded
<1>16. h[S] \in Menos
  BY <1>15, FoldRange
<1> QED
  BY <1>11, <1>16, QuitandoEs

LEMMA DeleteComboPaso ==
  ASSUME IInv, NEW fila \in BuildDisplayRows(carrito.lineas).filas, DeleteCombo(fila)
  PROVE  IInv' /\ Siguen
<1>1. /\ Tiendas /\ Manejadores /\ promociones \in Listados /\ stock \in [Productos -> Int]
      /\ Bien(carrito, promociones, excusados)
  BY DEF IInv, Tiendas
<1>2. UNCHANGED <<promociones, stock, pesando, catalogo, excusados>>
  BY DEF DeleteCombo
<1>3. PICK lineas \in Seq(Renglones) : lineas = carrito.lineas
  BY <1>1, BienDa
<1>4. fila \in Filas
  <2>1. BuildDisplayRows(lineas) \in Acc
    BY <1>1, BuildDisplayRowsDa
  <2> QED
    BY <1>3, <2>1 DEF Acc
<1>5. fila.promo.prods \subseteq Productos /\ fila.juegos \in Int /\ fila.promo.n \in Nat
  BY <1>4 DEF Filas, Promos
<1>6. ASSUME NEW p \in Productos
      PROVE  Queda(fila, p) \in Int
  <2>1. PICK x \in Int : x = fila.juegos * fila.promo.n
    BY <1>5
  <2>2. CantidadDe(lineas, p) \in Nat
    <3>1. /\ Cuenta(lineas) \in [Productos -> Nat]
          /\ Cuenta(lineas)[p] = CantidadDe(lineas, p)
      BY CuentaDa
    <3> QED
      BY <3>1
  <2> QED
    BY <1>3, <2>1, <2>2 DEF Queda
<1>7. PICK esperan : esperan = {p \in fila.promo.prods : Queda(fila, p) > 0}
  OBVIOUS
<1>8. /\ \E turno \in [esperan -> {t \in 1 .. MaxTareas : tareas[t] = Libre}] :
           tareas' = ConTurnos(fila, turno)
      /\ carrito' = SinLineas(fila.promo.prods \ esperan)
  BY <1>7 DEF DeleteCombo
<1>9. PICK turno \in [esperan -> {t \in 1 .. MaxTareas : tareas[t] = Libre}] :
        tareas' = ConTurnos(fila, turno)
  BY <1>8
<1>10. ASSUME NEW t \in 1 .. MaxTareas
       PROVE  /\ tareas'[t] \in Tareas /\ TareaBien(tareas'[t], stock, excusados)
              /\ tareas[t].pc = "cantidad" => tareas'[t].pc = "cantidad"
  <2>0. DOMAIN turno = esperan
    BY <1>9
  <2>1. CASE \E p \in esperan : turno[p] = t
    <3>1. PICK p : p = CHOOSE q \in esperan : turno[q] = t
      OBVIOUS
    <3>2. p \in esperan
      BY <2>1, <3>1
    <3>3. PICK cant \in Int : cant = Queda(fila, p) /\ cant > 0 /\ p \in Productos
      BY <1>5, <1>6, <1>7, <3>2
    <3>4. tareas'[t] = Tarea("cantidad", p, 0, cant)
      BY <1>9, <2>0, <2>1, <3>1, <3>3 DEF ConTurnos
    <3>5. /\ Tarea("cantidad", p, 0, cant) \in Tareas /\ Tarea("cantidad", p, 0, cant).pc = "cantidad"
          /\ TareaBien(Tarea("cantidad", p, 0, cant), stock, excusados)
      BY <1>1, <3>3, TareaDa
    <3> QED
      BY <3>4, <3>5
  <2>2. CASE ~ \E p \in esperan : turno[p] = t
    <3>1. tareas'[t] = tareas[t]
      BY <1>9, <2>0, <2>2 DEF ConTurnos
    <3> QED
      BY <1>1, <3>1 DEF Manejadores
  <2> QED
    BY <2>1, <2>2
<1>11. Manejadores' /\ Siguen
  <2>1. tareas' \in [1 .. MaxTareas -> Tareas]
    <3>1. DOMAIN tareas' = 1 .. MaxTareas /\ tareas' = [t \in 1 .. MaxTareas |-> tareas'[t]]
      BY <1>9 DEF ConTurnos
    <3> QED
      BY <1>10, <3>1
  <2> QED
    BY <1>2, <1>10, <2>1 DEF Manejadores, Siguen
<1>12. carrito' \in Menos
  <2>1. IsFiniteSet(fila.promo.prods \ esperan)
    BY <1>5, Constantes, FS_Subset
  <2> QED
    BY <1>1, <1>8, <2>1, SinLineasDa
<1>13. Bien(carrito', promociones, excusados) /\ Hereda(carrito.lineas, carrito'.lineas)
  BY <1>12 DEF Menos
<1>14. ConStock(carrito', stock, excusados)
  BY <1>13, StockHereda DEF IInv
<1> QED
  BY <1>1, <1>2, <1>11, <1>13, <1>14 DEF IInv, Tiendas

-----------------------------------------------------------------------------
(* Every step *)

\* The ids of the lines were in the cart before.
DeAntes ==
  \A i \in DOMAIN carrito'.lineas : \E j \in DOMAIN carrito.lineas :
    /\ carrito'.lineas[i].prod = carrito.lineas[j].prod
    /\ carrito'.lineas[i].w = carrito.lineas[j].w

LEMMA InitDa ==
  ASSUME Init
  PROVE  IInv
<1>1. Tiendas
  <2>1. StockInicial \in [Productos -> 0 .. MaxStock]
    BY CarritoAssumption
  <2>2. 0 .. MaxStock \subseteq Int
    OBVIOUS
  <2>3. stock \in [Productos -> Int]
    BY <2>1, <2>2 DEF Init
  <2> QED
    BY <2>3 DEF Init, Tiendas, Listados
<1>2. Manejadores
  BY LibreDa DEF Init, Manejadores
<1>3. Bien(carrito, promociones, excusados) /\ ConStock(carrito, stock, excusados)
  BY VacioDa DEF Init, ConStock
<1> QED
  BY <1>1, <1>2, <1>3 DEF IInv

LEMMA PediblesDa ==
  ASSUME IInv, NEW i \in Lineas, NEW cant \in Pedibles(i)
  PROVE  cant \in Int
<1>1. carrito.lineas[i].cant \in Int
  <2>1. carrito.lineas \in Seq(Renglones)
    BY BienDa DEF IInv
  <2>2. carrito.lineas[i] \in Renglones
    BY <2>1 DEF Lineas
  <2> QED
    BY <2>2 DEF Renglones
<1>2. PICK n \in Int : n = carrito.lineas[i].cant
  BY <1>1
<1>3. cant = n - 1 \/ cant = n + 1 \/ cant \in n - Resto(i) .. MaxStock + 1
  BY <1>2 DEF Pedibles
<1>4. n - Resto(i) .. MaxStock + 1 \subseteq Int
  OBVIOUS
<1> QED
  BY <1>2, <1>3, <1>4

LEMMA CajeroPaso ==
  ASSUME IInv, Cajero
  PROVE  IInv' /\ Siguen
<1>1. ASSUME NEW p \in Productos, Escanear(p) PROVE IInv' /\ Siguen
  BY <1>1, EscanearPaso
<1>2. ASSUME NEW p \in Productos, ElegirDeBusqueda(p) PROVE IInv' /\ Siguen
  BY <1>2, ElegirPaso
<1>3. ASSUME NEW peso \in Pesos, PesoConfirmado(peso) PROVE IInv' /\ Siguen
  BY <1>3, PesoConfirmadoPaso
<1>4. ASSUME PesoCancelado PROVE IInv' /\ Siguen
  BY <1>4, PesoCanceladoPaso
<1>5. ASSUME NEW i \in Lineas, Quitar(i) PROVE IInv' /\ Siguen
  BY <1>5, QuitarPaso
<1>6. ASSUME NEW i \in Lineas, NEW cant \in Pedibles(i), UpdateQuantity(i, cant) PROVE IInv' /\ Siguen
  BY <1>6, PediblesDa, UpdateQuantityPaso
<1>7. ASSUME NEW fila \in BuildDisplayRows(carrito.lineas).filas, DeleteCombo(fila)
      PROVE  IInv' /\ Siguen
  BY <1>7, DeleteComboPaso
<1>8. ASSUME NEW i \in Lineas \cup {0}, NEW desc \in Descuentos, Descontar(i, desc)
      PROVE  IInv' /\ Siguen
  BY <1>8, DescontarPaso
<1>9. ASSUME Seleccionar PROVE IInv' /\ Siguen
  BY <1>9, SeleccionarPaso
<1> QED
  BY <1>1, <1>2, <1>3, <1>4, <1>5, <1>6, <1>7, <1>8, <1>9, Zenon DEF Cajero

LEMMA SiguePaso ==
  ASSUME IInv, NEW t \in 1 .. MaxTareas, Sigue(t)
  PROVE  IInv' /\ Conserva /\ (Siguen \/ DeAntes)
<1>1. CASE PrecioResponde(t)
  BY <1>1, PrecioRespondePaso
<1>2. CASE BuscaResponde(t)
  BY <1>2, BuscaRespondePaso
<1>3. CASE AgregaResponde(t)
  BY <1>3, AgregaRespondePaso
<1>4. CASE CantidadResponde(t)
  BY <1>4, CantidadRespondePaso DEF DeAntes
<1> QED
  BY <1>1, <1>2, <1>3, <1>4 DEF Sigue

LEMMA ServidorPaso ==
  ASSUME IInv, Servidor
  PROVE  IInv' /\ Conserva /\ Siguen
<1>1. CASE PromocionesLlegan
  BY <1>1, PromocionesLleganPaso
<1>2. CASE DeltaSyncCatalog \/ SeedBorra \/ CatalogoLlega
  BY <1>2, CatalogoPaso DEF Conserva
<1> QED
  BY <1>1, <1>2 DEF Servidor

LEMMA QuietoPaso ==
  ASSUME IInv, UNCHANGED vars
  PROVE  IInv' /\ Conserva /\ Siguen
<1>1. UNCHANGED <<carrito, promociones, stock, tareas, pesando, catalogo, excusados>>
  BY DEF vars
<1> QED
  BY <1>1 DEF IInv, Tiendas, Manejadores, Conserva, Siguen

LEMMA PasoDa ==
  ASSUME IInv, [Next]_vars
  PROVE  IInv' /\ (Siguen \/ DeAntes)
<1>1. CASE Cajero
  BY <1>1, CajeroPaso
<1>2. CASE Vender
  BY <1>2, VaciarVendidoPaso DEF Vender
<1>3. CASE \E t \in 1 .. MaxTareas : Sigue(t)
  BY <1>3, SiguePaso
<1>4. CASE Servidor
  BY <1>4, ServidorPaso
<1>5. CASE UNCHANGED vars
  BY <1>5, QuietoPaso
<1> QED
  BY <1>1, <1>2, <1>3, <1>4, <1>5 DEF Next

\* The cart of useCartStore, the handlers in flight and the stock of IndexedDB
\* satisfy the invariant, whatever the cashier, the server and a sale do.
THEOREM CarritoInvariante == Spec => []IInv
<1>1. Init => IInv
  BY InitDa
<1>2. IInv /\ [Next]_vars => IInv'
  BY PasoDa
<1> QED
  BY <1>1, <1>2, PTL DEF Spec

\* What the properties of module Carrito say of one state.
LEMMA IInvDa ==
  ASSUME IInv
  PROVE  TypeOK /\ UnaLineaPorProducto /\ TotalAlDia /\ CantidadConStock
<1>1. PICK a \in Seq(Renglones) : a = carrito.lineas
  BY BienDa DEF IInv
<1>2. PICK n \in Nat : n = Len(a) /\ DOMAIN a = 1 .. n
  BY <1>1
<1>3. Lineas = 1 .. n /\ \A i \in 1 .. n : a[i] \in Renglones
  BY <1>1, <1>2 DEF Lineas
<1>4. TypeOK
  <2>1. carrito.sel \in -1 .. Max({0, Len(carrito.lineas) - 1})
    <3>1. carrito.sel \in -1 .. Tope(n)
      BY <1>1, <1>2, BienDa DEF IInv
    <3>2. Max({0, n - 1}) = Tope(n)
      BY TopeDa
    <3> QED
      BY <1>1, <1>2, <3>1, <3>2
  <2>2. \A i \in Lineas : carrito.lineas[i].cant > 0
    BY <1>1, <1>3 DEF Renglones
  <2>3. \A t \in 1 .. MaxTareas :
          tareas[t].pc \in {"libre", "precio", "busca", "agrega", "cantidad"}
    BY DEF IInv, Manejadores, Tareas
  <2> QED
    BY <2>1, <2>2, <2>3 DEF IInv, Tiendas, Listados, TypeOK
<1>5. UnaLineaPorProducto
  BY <1>1, <1>2, <1>3 DEF IInv, Bien, Una, UnaLineaPorProducto
<1>6. ASSUME \A i \in Lineas : DeUnidad(carrito.lineas[i]) \/ carrito.lineas[i].prod \notin excusados
      PROVE  /\ carrito.total = SumFunction([i \in Lineas |->
                                  Debido(promociones, carrito.lineas, carrito.lineas[i])])
             /\ carrito.conDescuento = ComputeTotalConDescuento(carrito.total, carrito.global)
  <2>1. /\ carrito.total = ComputeTotal(a) /\ AlDia(carrito, promociones, excusados)
        /\ carrito.conDescuento = ComputeTotalConDescuento(carrito.total, carrito.global)
    BY <1>1 DEF IInv, Bien
  <2>2. \A i \in 1 .. n : a[i].sub = Debido(promociones, a, a[i])
    BY <1>1, <1>2, <1>3, <1>6, <2>1 DEF AlDia
  <2>3. [i \in DOMAIN a |-> a[i].sub] = [i \in 1 .. n |-> Debido(promociones, a, a[i])]
    BY <1>2, <2>2
  <2> QED
    BY <1>1, <1>3, <2>1, <2>3 DEF ComputeTotal
<1>7. CantidadConStock
  BY <1>1, <1>2, <1>3 DEF IInv, ConStock, CantidadConStock
<1> QED
  BY <1>4, <1>5, <1>6, <1>7 DEF TotalAlDia

\* The cart has one line for each product sold by unit and its totals are the
\* ones due (addItem, updateQuantity, setPromoDiscounts), for all prices, lists
\* of promotions and numbers of handlers.
THEOREM CarritoDebido == Spec => [](TypeOK /\ UnaLineaPorProducto /\ TotalAlDia)
<1>1. IInv => TypeOK /\ UnaLineaPorProducto /\ TotalAlDia
  BY IInvDa
<1> QED
  BY <1>1, CarritoInvariante, PTL

\* The stock that addItem and updateQuantity verified before their await still
\* covers the cart after it, unless the product is excused.
THEOREM StockAlcanza == Spec => []CantidadConStock
<1>1. IInv => CantidadConStock
  BY IInvDa
<1> QED
  BY <1>1, CarritoInvariante, PTL

\* A handler of a quantity that ends has found its lines in the cart.
LEMMA NadaRevive ==
  ASSUME IInv, IInv', Siguen \/ DeAntes, NEW t \in 1 .. MaxTareas,
         tareas[t].pc = "cantidad", tareas'[t] = Libre, NEW i \in 1 .. Len(carrito'.lineas)
  PROVE  Indice(carrito.lineas, carrito'.lineas[i].prod, carrito'.lineas[i].w) > 0
<1>1. DeAntes
  BY DEF Siguen, Libre
<1>2. PICK a \in Seq(Renglones) : a = carrito.lineas
  BY BienDa DEF IInv
<1>3. carrito'.lineas \in Seq(Renglones)
  <2>1. Bien(carrito', promociones', excusados')
    BY DEF IInv
  <2> QED
    BY <2>1, BienDa
<1>4. PICK j \in DOMAIN a : carrito'.lineas[i].prod = a[j].prod /\ carrito'.lineas[i].w = a[j].w
  <2>1. i \in DOMAIN carrito'.lineas
    BY <1>3
  <2> QED
    BY <1>1, <1>2, <2>1 DEF DeAntes
<1>5. PICK p, w : p = carrito'.lineas[i].prod /\ w = carrito'.lineas[i].w
  OBVIOUS
<1>6. Indice(a, p, w) \in DOMAIN a
  BY <1>4, <1>5, IndiceDa
<1>7. Indice(a, p, w) > 0
  BY <1>6
<1> QED
  BY <1>2, <1>5, <1>7

\* updateQuantity after its await puts back no line that was removed or sold.
THEOREM NoRevive == Spec => CantidadNoRevive
<1>1. IInv /\ IInv' /\ [Next]_vars =>
        [\A t \in 1 .. MaxTareas :
           tareas[t].pc = "cantidad" /\ tareas'[t] = Libre
             => \A i \in 1 .. Len(carrito'.lineas) :
                  Indice(carrito.lineas, carrito'.lineas[i].prod, carrito'.lineas[i].w) > 0]_vars
  <2> SUFFICES ASSUME IInv, IInv', [Next]_vars, NEW t \in 1 .. MaxTareas,
                      tareas[t].pc = "cantidad", tareas'[t] = Libre,
                      NEW i \in 1 .. Len(carrito'.lineas)
               PROVE  Indice(carrito.lineas, carrito'.lineas[i].prod, carrito'.lineas[i].w) > 0
    OBVIOUS
  <2> QED
    BY PasoDa, NadaRevive
<1> QED
  BY <1>1, CarritoInvariante, PTL DEF Spec, CantidadNoRevive

-----------------------------------------------------------------------------
(* The screen around the cart                                              *)
(*                                                                         *)
(* The counter is never behind the tickets that were issued, and while the *)
(* payment form is open nothing that may run empties the cart.             *)

Modales == {"pago", "precio", "descuento", "historial", "busqueda", "postventa", "caja"}
Fiados == [cliente : Clientes \cup {Nada}, lista : SUBSET Clientes, busca : BOOLEAN]

Marco ==
  /\ abiertos \subseteq Modales
  /\ "descuento" \notin abiertos => objetivo = <<Nada, 0>>
  /\ fiado \in Fiados
  /\ "postventa" \in abiertos <=> venta # SinVenta

Numeracion ==
  /\ ventas \in Nat /\ ventas <= MaxVentas
  /\ contador \in Nat /\ emitido \in Nat /\ emitido <= contador

CInv == IInv /\ Marco /\ Numeracion /\ PagosCuadran /\ PagoConCarrito

\* A sale that is recorded has a number above all that were.
Numera == ventas' = ventas + 1 => venta'.numero > emitido

LEMMA LineasDa ==
  ASSUME NEW c, NEW lista, NEW exc, Bien(c, lista, exc)
  PROVE  1 .. Len(c.lineas) = DOMAIN c.lineas
<1>1. c.lineas \in Seq(Renglones)
  BY BienDa
<1> QED
  BY <1>1

\* Steps of the cart alone.
LEMMA SoloCarrito ==
  ASSUME CInv, IInv', UNCHANGED <<pantalla, tickets>>, "pago" \in abiertos => Conserva
  PROVE  CInv' /\ Numera
<1>1. UNCHANGED <<abiertos, objetivo, fiado, venta, ventas, contador, emitido, pideNumero>>
  BY DEF pantalla, tickets
<1>2. Marco' /\ Numeracion' /\ PagosCuadran'
  BY <1>1 DEF CInv, Marco, Numeracion, PagosCuadran
<1>3. Lineas = DOMAIN carrito.lineas
  BY LineasDa DEF CInv, IInv, Lineas
<1>4. Lineas' = DOMAIN carrito'.lineas
  BY LineasDa DEF IInv, Lineas
<1>5. PagoConCarrito'
  BY <1>1, <1>3, <1>4 DEF CInv, PagoConCarrito, Conserva
<1>6. Numera
  BY <1>1 DEF CInv, Numeracion, Numera
<1> QED
  BY <1>2, <1>5, <1>6 DEF CInv

\* Steps of the screen that leave the cart, the last sale and the numbers.
LEMMA SoloPantalla ==
  ASSUME CInv, UNCHANGED <<vars, tickets>>, abiertos' \subseteq Modales, fiado' \in Fiados,
         "descuento" \notin abiertos' => objetivo' = <<Nada, 0>>,
         "postventa" \in abiertos' <=> "postventa" \in abiertos,
         "pago" \in abiertos' => "pago" \in abiertos \/ Lineas # {}
  PROVE  CInv' /\ Numera
<1>1. UNCHANGED <<carrito, venta, ventas, contador, emitido>>
  BY DEF vars, tickets
<1>2. IInv'
  BY QuietoPaso DEF CInv
<1>3. Marco' /\ Numeracion' /\ PagosCuadran' /\ PagoConCarrito'
  BY <1>1 DEF CInv, Marco, Numeracion, PagosCuadran, PagoConCarrito, Lineas
<1>4. Numera
  BY <1>1 DEF CInv, Numeracion, Numera
<1> QED
  BY <1>2, <1>3, <1>4 DEF CInv

LEMMA AbrePaso ==
  ASSUME CInv, NEW modal \in {"pago", "precio", "descuento", "historial", "busqueda"}, Abre(modal)
  PROVE  CInv' /\ Numera
<1>1. /\ abiertos' = abiertos \cup {modal} /\ objetivo' = <<Nada, 0>> /\ UNCHANGED <<vars, tickets>>
      /\ modal = "pago" => Lineas # {}
      /\ fiado' = IF modal = "pago" THEN [SinFiado EXCEPT !.busca = fiado.busca] ELSE fiado
  BY DEF Abre
<1>2. Marco
  BY DEF CInv
<1>3. fiado' \in Fiados
  <2>1. PICK b \in BOOLEAN : b = fiado.busca
    BY <1>2 DEF Marco, Fiados
  <2>2. [SinFiado EXCEPT !.busca = b] \in Fiados
    BY <2>1 DEF SinFiado, Fiados
  <2> QED
    BY <1>1, <1>2, <2>1, <2>2 DEF Marco
<1>4. abiertos' \subseteq Modales
  BY <1>1, <1>2 DEF Marco, Modales
<1> QED
  BY <1>1, <1>3, <1>4, SoloPantalla

LEMMA CierraPaso ==
  ASSUME CInv, NEW modal \in {"pago", "precio", "descuento", "historial", "busqueda"}, Cierra(modal)
  PROVE  CInv' /\ Numera
<1>1. /\ abiertos' = abiertos \ {modal} /\ UNCHANGED <<vars, fiado, tickets>>
      /\ objetivo' = IF modal = "descuento" THEN <<Nada, 0>> ELSE objetivo
  BY DEF Cierra
<1>2. Marco
  BY DEF CInv
<1>3. /\ abiertos' \subseteq Modales /\ fiado' \in Fiados
      /\ "descuento" \notin abiertos' => objetivo' = <<Nada, 0>>
  BY <1>1, <1>2 DEF Marco
<1> QED
  BY <1>1, <1>3, SoloPantalla

LEMMA DePantallaPaso ==
  ASSUME CInv,
         AbreDescuentoDeLinea \/ ModalDeCaja \/ BuscaCliente \/ ClientesLlegan
           \/ \E c \in Clientes : EligeCliente(c)
  PROVE  CInv' /\ Numera
<1>1. Marco
  BY DEF CInv
<1>2. CASE AbreDescuentoDeLinea
  <2>1. /\ abiertos' = abiertos \cup {"descuento"} /\ UNCHANGED <<vars, fiado, tickets>>
    BY <1>2 DEF AbreDescuentoDeLinea
  <2>2. abiertos' \subseteq Modales /\ fiado' \in Fiados
    BY <1>1, <2>1 DEF Marco, Modales
  <2> QED
    BY <2>1, <2>2, SoloPantalla
<1>3. CASE ModalDeCaja
  <2>1. /\ abiertos' = abiertos \ {"caja"} \/ abiertos' = abiertos \cup {"caja"}
        /\ UNCHANGED <<vars, objetivo, fiado, tickets>>
    BY <1>3 DEF ModalDeCaja
  <2>2. /\ abiertos' \subseteq Modales /\ fiado' \in Fiados
        /\ "descuento" \notin abiertos' => objetivo' = <<Nada, 0>>
    BY <1>1, <2>1 DEF Marco, Modales
  <2> QED
    BY <2>1, <2>2, SoloPantalla
<1>4. CASE BuscaCliente
  <2>1. fiado' = [fiado EXCEPT !.busca = TRUE] /\ UNCHANGED <<vars, abiertos, objetivo, tickets>>
    BY <1>4 DEF BuscaCliente
  <2>2. fiado' \in Fiados
    BY <1>1, <2>1 DEF Marco, Fiados
  <2> QED
    BY <1>1, <2>1, <2>2, SoloPantalla DEF Marco
<1>5. CASE ClientesLlegan
  <2>1. UNCHANGED <<vars, abiertos, objetivo, tickets>>
    BY <1>5, Zenon DEF ClientesLlegan
  <2>2. PICK l \in SUBSET Clientes : fiado' = [fiado EXCEPT !.lista = l, !.busca = FALSE]
    BY <1>5, Zenon DEF ClientesLlegan
  <2>3. fiado' \in Fiados
    BY <1>1, <2>2 DEF Marco, Fiados
  <2> QED
    BY <1>1, <2>1, <2>3, SoloPantalla DEF Marco
<1>6. CASE \E c \in Clientes : EligeCliente(c)
  <2>1. PICK c \in Clientes : EligeCliente(c)
    BY <1>6
  <2>2. /\ fiado' = [fiado EXCEPT !.cliente = c, !.busca = TRUE]
        /\ UNCHANGED <<vars, abiertos, objetivo, tickets>>
    BY <2>1, Zenon DEF EligeCliente
  <2>3. fiado' \in Fiados
    BY <1>1, <2>2 DEF Marco, Fiados
  <2> QED
    BY <1>1, <2>2, <2>3, SoloPantalla DEF Marco
<1> QED
  BY <1>2, <1>3, <1>4, <1>5, <1>6

LEMMA CierraPostVentaPaso ==
  ASSUME CInv, CierraPostVenta
  PROVE  CInv' /\ Numera
<1>1. /\ abiertos' = abiertos \ {"postventa"} /\ venta' = SinVenta
      /\ UNCHANGED <<vars, objetivo, fiado, ventas, contador, emitido, pideNumero>>
  BY DEF CierraPostVenta
<1>2. carrito' = carrito
  BY <1>1 DEF vars
<1>3. IInv'
  BY <1>1, QuietoPaso DEF CInv
<1>4. Marco' /\ Numeracion' /\ PagosCuadran' /\ PagoConCarrito'
  BY <1>1, <1>2 DEF CInv, Marco, Numeracion, PagosCuadran, PagoConCarrito, Lineas
<1>5. Numera
  BY <1>1 DEF CInv, Numeracion, Numera
<1> QED
  BY <1>3, <1>4, <1>5 DEF CInv

LEMMA NumeroLlegaPaso ==
  ASSUME CInv, NumeroLlega
  PROVE  CInv' /\ Numera
<1>1. /\ contador' \in {contador} \cup {SyncTicketCounter(n) : n \in 0 .. MaxNumero}
      /\ UNCHANGED <<vars, pantalla, venta, ventas, emitido>>
  BY DEF NumeroLlega
<1>2. UNCHANGED <<carrito, abiertos, objetivo, fiado>>
  BY <1>1 DEF vars, pantalla
<1>3. IInv'
  BY <1>1, QuietoPaso DEF CInv
<1>4. contador' \in Nat /\ contador' >= contador
  <2>1. contador \in Nat
    BY DEF CInv, Numeracion
  <2>2. \A n \in 0 .. MaxNumero : n \in Nat
    OBVIOUS
  <2>3. \A n \in 0 .. MaxNumero : SyncTicketCounter(n) \in Nat /\ SyncTicketCounter(n) >= contador
    BY <2>1, <2>2 DEF SyncTicketCounter
  <2> QED
    BY <1>1, <2>1, <2>3
<1>5. Numeracion'
  BY <1>1, <1>4 DEF CInv, Numeracion
<1>6. Marco' /\ PagosCuadran' /\ PagoConCarrito'
  BY <1>1, <1>2 DEF CInv, Marco, PagosCuadran, PagoConCarrito, Lineas
<1>7. Numera
  BY <1>1 DEF CInv, Numeracion, Numera
<1> QED
  BY <1>3, <1>5, <1>6, <1>7 DEF CInv

LEMMA TeclasPaso ==
  ASSUME CInv, Teclas
  PROVE  CInv' /\ Numera
<1>1. UNCHANGED <<pantalla, tickets>> /\ IInv
  BY DEF Teclas, CInv
<1>2. IInv' /\ ("pago" \in abiertos => Conserva)
  <2>1. CASE Despejado /\ \E p \in Productos : Escanear(p)
    <3>1. PICK p \in Productos : Escanear(p)
      BY <2>1
    <3> QED
      BY <1>1, <2>1, <3>1, EscanearPaso DEF Despejado
  <2>2. CASE pesando # Nada /\ \E peso \in Pesos : PesoConfirmado(peso)
    BY <1>1, <2>2, PesoConfirmadoPaso DEF Conserva
  <2>3. CASE PesoCancelado
    BY <1>1, <2>3, PesoCanceladoPaso DEF Conserva
  <2>4. CASE ~AnyModalOpen /\ \E i \in Lineas : Quitar(i)
    BY <1>1, <2>4, QuitarPaso DEF AnyModalOpen
  <2>5. CASE \E i \in Lineas : \E cant \in Pedibles(i) : ~AnyModalOpen /\ UpdateQuantity(i, cant)
    <3>1. PICK i \in Lineas : \E cant \in Pedibles(i) : ~AnyModalOpen /\ UpdateQuantity(i, cant)
      BY <2>5
    <3>2. PICK cant \in Pedibles(i) : ~AnyModalOpen /\ UpdateQuantity(i, cant)
      BY <3>1
    <3>3. cant \in Int
      BY <1>1, PediblesDa
    <3> QED
      BY <1>1, <3>2, <3>3, UpdateQuantityPaso DEF AnyModalOpen
  <2> QED
    BY <2>1, <2>2, <2>3, <2>4, <2>5, Zenon DEF Teclas
<1> QED
  BY <1>1, <1>2, SoloCarrito

LEMMA AplicaPaso ==
  ASSUME CInv, NEW desc \in Descuentos, Aplica(desc)
  PROVE  CInv' /\ Numera
<1>1. PICK i : i = Indice(carrito.lineas, objetivo[1], objetivo[2])
  OBVIOUS
<1>2. /\ Descontar(i, desc) /\ abiertos' = abiertos \ {"descuento"} /\ objetivo' = <<Nada, 0>>
      /\ UNCHANGED <<fiado, venta, ventas, contador, emitido>>
  BY <1>1 DEF Aplica, tickets
<1>3. Lineas = DOMAIN carrito.lineas /\ carrito.lineas \in Seq(Renglones)
  BY LineasDa, BienDa DEF CInv, IInv, Lineas
<1>4. i \in Lineas \cup {0}
  BY <1>1, <1>3, IndiceDa
<1>5. IInv' /\ DOMAIN carrito'.lineas = DOMAIN carrito.lineas
  BY <1>2, <1>4, DescontarPaso DEF CInv
<1>6. Lineas' = DOMAIN carrito'.lineas
  BY <1>5, LineasDa DEF IInv, Lineas
<1>7. Marco' /\ Numeracion' /\ PagosCuadran'
  BY <1>2 DEF CInv, Marco, Numeracion, PagosCuadran
<1>8. PagoConCarrito'
  BY <1>2, <1>3, <1>5, <1>6 DEF CInv, PagoConCarrito
<1>9. Numera
  BY <1>2 DEF CInv, Numeracion, Numera
<1> QED
  BY <1>5, <1>7, <1>8, <1>9 DEF CInv

LEMMA EligePaso ==
  ASSUME CInv, NEW p \in Productos, Elige(p)
  PROVE  CInv' /\ Numera
<1>1. /\ ElegirDeBusqueda(p) /\ abiertos' = abiertos \ {"busqueda"}
      /\ UNCHANGED <<objetivo, fiado, venta, ventas, contador, emitido>>
  BY DEF Elige, tickets
<1>2. carrito' = carrito
  BY <1>1 DEF ElegirDeBusqueda
<1>3. IInv'
  BY <1>1, ElegirPaso DEF CInv
<1>4. Marco' /\ Numeracion' /\ PagosCuadran' /\ PagoConCarrito'
  BY <1>1, <1>2 DEF CInv, Marco, Numeracion, PagosCuadran, PagoConCarrito, Lineas
<1>5. Numera
  BY <1>1 DEF CInv, Numeracion, Numera
<1> QED
  BY <1>3, <1>4, <1>5 DEF CInv

\* Handlers that are dropped leave the others as they were.
LEMMA SueltaDa ==
  ASSUME Manejadores, UNCHANGED <<stock, excusados>>, DOMAIN tareas' = 1 .. MaxTareas,
         tareas' = [t \in 1 .. MaxTareas |-> tareas'[t]],
         \A t \in 1 .. MaxTareas : tareas'[t] \in {tareas[t], Libre}
  PROVE  Manejadores'
<1>1. ASSUME NEW t \in 1 .. MaxTareas
      PROVE  tareas'[t] \in Tareas /\ TareaBien(tareas'[t], stock, excusados)
  <2>1. CASE tareas'[t] = tareas[t]
    BY <2>1 DEF Manejadores
  <2>2. CASE tareas'[t] = Libre
    BY <2>2, LibreDa
  <2> QED
    BY <2>1, <2>2
<1>2. tareas' \in [1 .. MaxTareas -> Tareas]
  BY <1>1
<1> QED
  BY <1>1, <1>2 DEF Manejadores

LEMMA VaciaPaso ==
  ASSUME CInv, Cancelar \/ SalirYVolver \/ Recargar
  PROVE  CInv' /\ Numera
<1>1. Tiendas /\ Manejadores
  BY DEF CInv, IInv
<1>2. /\ UNCHANGED <<promociones, stock, catalogo, excusados, ventas, contador, emitido>>
      /\ pesando' \in {pesando, Nada} /\ carrito' \in {carrito, Vacio}
      /\ "pago" \notin abiertos'
  BY DEF Cancelar, SalirYVolver, Recargar, Despejado, pantalla, tickets
<1>3. Manejadores'
  <2>1. CASE Cancelar
    BY <1>1, <2>1, TareasQuedan DEF Cancelar
  <2>2. CASE SalirYVolver
    <3>1. tareas' = [t \in 1 .. MaxTareas |-> IF PediriaPeso(tareas[t]) THEN Libre ELSE tareas[t]]
      BY <2>2 DEF SalirYVolver
    <3> QED
      BY <1>1, <1>2, <3>1, SueltaDa
  <2>3. CASE Recargar
    <3>1. tareas' = [t \in 1 .. MaxTareas |-> Libre]
      BY <2>3 DEF Recargar
    <3> QED
      BY <1>1, <1>2, <3>1, SueltaDa
  <2> QED
    BY <2>1, <2>2, <2>3
<1>4. Bien(carrito', promociones, excusados) /\ ConStock(carrito', stock, excusados)
  BY <1>2, VacioDa DEF CInv, IInv, ConStock
<1>5. IInv'
  BY <1>1, <1>2, <1>3, <1>4 DEF IInv, Tiendas
<1>6. Marco'
  <2>1. CASE Cancelar \/ SalirYVolver
    BY <2>1 DEF CInv, Marco, Cancelar, SalirYVolver, pantalla, tickets
  <2>2. CASE Recargar
    <3>1. abiertos' = {} /\ objetivo' = <<Nada, 0>> /\ fiado' = SinFiado /\ venta' = SinVenta
      BY <2>2 DEF Recargar
    <3>2. SinFiado \in Fiados
      BY DEF SinFiado, Fiados
    <3> QED
      BY <3>1, <3>2 DEF Marco
  <2> QED
    BY <2>1, <2>2
<1>7. venta' \in {venta, SinVenta}
  BY DEF Cancelar, SalirYVolver, Recargar, tickets
<1>8. Numeracion' /\ PagosCuadran' /\ PagoConCarrito'
  BY <1>2, <1>7 DEF CInv, Numeracion, PagosCuadran, PagoConCarrito
<1>9. Numera
  BY <1>2 DEF CInv, Numeracion, Numera
<1> QED
  BY <1>5, <1>6, <1>8, <1>9 DEF CInv

\* The record of a sale that may be confirmed: paid in full.
LEMMA RegistroDa ==
  ASSUME NEW f \in Formas, FinalTotal \in Nat, contador \in Nat, CanConfirm(f)
  PROVE  LET v == Registro(f) IN
         /\ v.numero = contador + 1 /\ v.lineas = Len(carrito.lineas)
         /\ v.efectivo + v.otros = v.total /\ v.vuelto >= 0 /\ v.recibido - v.vuelto = v.efectivo
<1>1. PICK T \in Nat : T = FinalTotal
  OBVIOUS
<1>2. /\ f.metodo \in {"efectivo", "debito", "mixto", "fiado"} /\ f.otros \in Nat
      /\ f.recibido \in Int
  <2>1. /\ f.metodo \in {"efectivo", "debito", "mixto", "fiado"} /\ f.otros \in Otros
        /\ f.recibido \in Recibidos \cup {-1}
    BY DEF Formas
  <2>2. (\A x \in Otros : x \in Nat) /\ \A x \in Recibidos \cup {-1} : x \in Int
    <3>1. Recibidos \subseteq Nat /\ Otros \subseteq Nat
      BY CobroAssumption
    <3>2. \A x \in Recibidos : x \in Int
      BY <3>1
    <3> QED
      BY <3>1, <3>2
  <2> QED
    BY <2>1, <2>2
<1>3. PICK debe \in Int : debe = CashDue(f)
  BY <1>1, <1>2 DEF CashDue
<1>4. PICK recibe \in Int : recibe = EfectivoRecibido(f)
  BY <1>2, <1>3 DEF EfectivoRecibido
<1>5. recibe = IF debe <= 0 THEN 0 ELSE IF f.recibido = -1 THEN debe ELSE f.recibido
  BY <1>3, <1>4 DEF EfectivoRecibido
<1>6. PICK v : v = Registro(f)
  OBVIOUS
<1>7. /\ v.numero = contador + 1 /\ v.lineas = Len(carrito.lineas) /\ v.total = T
      /\ v.efectivo = (IF debe > 0 THEN debe ELSE 0)
      /\ v.otros = (IF f.metodo = "mixto" THEN f.otros ELSE IF f.metodo = "efectivo" THEN 0 ELSE T)
      /\ v.recibido = recibe /\ v.vuelto = recibe - debe
  BY <1>1, <1>3, <1>4, <1>6 DEF Registro
<1>8. CASE f.metodo = "efectivo"
  <2>1. debe = T /\ recibe >= debe
    BY <1>1, <1>3, <1>4, <1>8 DEF CashDue, CanConfirm
  <2> QED
    BY <1>6, <1>7, <1>8, <2>1
<1>9. CASE f.metodo = "mixto"
  <2>1. debe = T - f.otros /\ debe >= 0 /\ recibe >= debe
    BY <1>1, <1>3, <1>4, <1>9 DEF CashDue, CanConfirm
  <2> QED
    BY <1>2, <1>6, <1>7, <1>9, <2>1
<1>10. CASE f.metodo \in {"debito", "fiado"}
  <2>1. debe = 0
    BY <1>3, <1>10 DEF CashDue
  <2> QED
    BY <1>5, <1>6, <1>7, <1>10, <2>1
<1> QED
  BY <1>2, <1>8, <1>9, <1>10

LEMMA ConfirmarPaso ==
  ASSUME CInv, NEW f \in Formas, Confirmar(f)
  PROVE  CInv' /\ Numera
<1>1. /\ "pago" \in abiertos /\ ventas < MaxVentas /\ CanConfirm(f)
      /\ venta' = Registro(f) /\ ventas' = ventas + 1 /\ contador' = contador + 1
      /\ emitido' = Max({emitido, contador + 1}) /\ VaciarVendido
      /\ abiertos' = (abiertos \ {"pago"}) \cup {"postventa"}
      /\ UNCHANGED <<objetivo, fiado>>
  BY DEF Confirmar
<1>2. IInv'
  BY <1>1, VaciarVendidoPaso DEF CInv
<1>3. contador \in Nat /\ emitido \in Nat /\ emitido <= contador /\ ventas \in Nat
  BY DEF CInv, Numeracion
<1>4. FinalTotal \in Nat
  BY BienDa DEF CInv, IInv, FinalTotal
<1>5. PICK v : v = Registro(f)
  OBVIOUS
<1>6. /\ v.numero = contador + 1 /\ v.lineas = Len(carrito.lineas)
      /\ v.efectivo + v.otros = v.total /\ v.vuelto >= 0 /\ v.recibido - v.vuelto = v.efectivo
  BY <1>1, <1>3, <1>4, <1>5, RegistroDa
<1>7. v # SinVenta
  <2>1. SinVenta.numero = 0
    BY DEF SinVenta
  <2> QED
    BY <1>3, <1>6, <2>1
<1>8. v.lineas > 0
  <2>1. carrito.lineas \in Seq(Renglones)
    BY BienDa DEF CInv, IInv
  <2>2. PICK n \in Nat : n = Len(carrito.lineas)
    BY <2>1
  <2>3. 1 .. n # {}
    BY <1>1, <2>2 DEF CInv, PagoConCarrito, Lineas
  <2> QED
    BY <1>6, <2>2, <2>3
<1>9. Marco'
  BY <1>1, <1>5, <1>7 DEF CInv, Marco, Modales
<1>10. Numeracion'
  <2>1. PICK n \in Nat : n = contador + 1
    BY <1>3
  <2>2. Max({emitido, n}) = n
    BY <1>3, <2>1, MaxDeDos
  <2>3. ventas + 1 \in Nat /\ ventas + 1 <= MaxVentas
    BY <1>1, <1>3, CobroAssumption
  <2> QED
    BY <1>1, <2>1, <2>2, <2>3 DEF Numeracion
<1>11. PagosCuadran' /\ PagoConCarrito'
  BY <1>1, <1>5, <1>6, <1>8 DEF PagosCuadran, PagoConCarrito
<1>12. Numera
  BY <1>1, <1>3, <1>5, <1>6 DEF Numera
<1> QED
  BY <1>2, <1>9, <1>10, <1>11, <1>12 DEF CInv

-----------------------------------------------------------------------------
(* Every step of the screen *)

LEMMA CobroInitDa ==
  ASSUME CobroInit
  PROVE  CInv
<1>1. IInv
  BY InitDa DEF CobroInit
<1>2. fiado \in Fiados
  BY DEF CobroInit, SinFiado, Fiados
<1>3. Marco /\ Numeracion /\ PagosCuadran /\ PagoConCarrito
  BY <1>2, CobroAssumption DEF CobroInit, Marco, Numeracion, PagosCuadran, PagoConCarrito
<1> QED
  BY <1>1, <1>3 DEF CInv

LEMMA CobroPaso ==
  ASSUME CInv, [CobroNext]_todo
  PROVE  CInv' /\ Numera
<1>1. IInv
  BY DEF CInv
<1>2. CASE \E modal \in {"pago", "precio", "descuento", "historial", "busqueda"} :
             Abre(modal) \/ Cierra(modal)
  BY <1>2, AbrePaso, CierraPaso
<1>3. CASE \/ AbreDescuentoDeLinea \/ ModalDeCaja \/ BuscaCliente \/ ClientesLlegan
           \/ \E c \in Clientes : EligeCliente(c)
  BY <1>3, DePantallaPaso
<1>4. CASE \E desc \in Descuentos : Aplica(desc)
  BY <1>4, AplicaPaso
<1>5. CASE \E p \in Productos : Elige(p)
  BY <1>5, EligePaso
<1>6. CASE Teclas
  BY <1>6, TeclasPaso
<1>7. CASE Cancelar \/ SalirYVolver \/ Recargar
  BY <1>7, VaciaPaso
<1>8. CASE CierraPostVenta
  BY <1>8, CierraPostVentaPaso
<1>9. CASE \E f \in Formas : Confirmar(f)
  BY <1>9, ConfirmarPaso
<1>10. CASE NumeroLlega
  BY <1>10, NumeroLlegaPaso
<1>11. CASE (\E t \in 1 .. MaxTareas : Sigue(t)) /\ UNCHANGED Fuera
  <2>1. UNCHANGED <<pantalla, tickets>>
    BY <1>11 DEF Fuera
  <2> QED
    BY <1>1, <1>11, <2>1, SiguePaso, SoloCarrito
<1>12. CASE Servidor /\ UNCHANGED Fuera
  <2>1. UNCHANGED <<pantalla, tickets>>
    BY <1>12 DEF Fuera
  <2> QED
    BY <1>1, <1>12, <2>1, ServidorPaso, SoloCarrito
<1>13. CASE UNCHANGED todo
  <2>1. UNCHANGED vars /\ UNCHANGED <<pantalla, tickets>>
    BY <1>13 DEF todo
  <2> QED
    BY <1>1, <2>1, QuietoPaso, SoloCarrito
<1> QED
  BY <1>2, <1>3, <1>4, <1>5, <1>6, <1>7, <1>8, <1>9, <1>10, <1>11, <1>12, <1>13 DEF CobroNext

\* The screen of PosTerminal, its payment form and its ticket numbers satisfy
\* the invariant, together with the cart.
THEOREM CobroInvariante == CobroSpec => []CInv
<1>1. CobroInit => CInv
  BY CobroInitDa
<1>2. CInv /\ [CobroNext]_todo => CInv'
  BY CobroPaso
<1> QED
  BY <1>1, <1>2, PTL DEF CobroSpec

\* A sale confirmSale records is paid in full and has lines, although handlers
\* and promotions go on while the payment form is open.
THEOREM VentaPagada == CobroSpec => []VentaCuadra
<1>1. CInv => VentaCuadra
  BY DEF CInv, Marco, Numeracion, Modales, Fiados, VentaCuadra, CobroTypeOK
<1> QED
  BY <1>1, CobroInvariante, PTL

\* Behind the keys and modals of the screen, with reloads and cancelled sales,
\* the cart is still the one that is due, and within the stock.
THEOREM CarritoEnPantalla ==
  CobroSpec => [](TypeOK /\ UnaLineaPorProducto /\ TotalAlDia /\ CantidadConStock)
<1>1. CInv => TypeOK /\ UnaLineaPorProducto /\ TotalAlDia /\ CantidadConStock
  BY IInvDa DEF CInv
<1> QED
  BY <1>1, CobroInvariante, PTL

\* No ticket number is used twice: a sale gets one above all that were issued,
\* whenever syncTicketCounter's answer arrives.
THEOREM NumerosNuevos == CobroSpec => NumerosCrecen
<1>1. CInv /\ [CobroNext]_todo => [ventas' = ventas + 1 => venta'.numero > emitido]_todo
  BY CobroPaso DEF Numera
<1> QED
  BY <1>1, CobroInvariante, PTL DEF CobroSpec, NumerosCrecen
=============================================================================
