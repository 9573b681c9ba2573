----------------------------- MODULE PortsProofs -----------------------------
(* That listeners stand for the ports people mean, for every base, port range *)
(* and word size: the width and modulus of ListenPorts::project pick exactly  *)
(* the ports written with the suffix, and the wizard adds nothing to what was *)
(* typed.  Power and Digits are recursive functions; that they satisfy their  *)
(* equations is proved by giving a solution, and what they compute by         *)
(* induction over sets of numbers.                                            *)
EXTENDS Ports, TLAPS, WellFoundedInduction

--------------------------------------------------------------------------
(* Induction over numbers.  The library states it for operators, which the    *)
(* provers cannot instantiate; stated for sets it follows from its least      *)
(* elements.                                                                  *)

\* Every non-empty set of numbers has a least element.
LEMMA Least ==
    ASSUME NEW T \in SUBSET Nat, T # {}
    PROVE  \E x \in T : \A y \in T : x <= y
<1>1. PICK R : R = OpToRel(<, Nat)
  OBVIOUS
<1>2. IsWellFoundedOn(R, Nat)
  BY <1>1, NatLessThanWellFounded
<1>3. PICK x \in T : \A y \in T : ~ (<<y, x>> \in R)
  BY <1>2, WFMin
<1>4. \A y, z \in Nat : y < z => <<y, z>> \in R
  BY <1>1 DEF OpToRel
<1>5. \A y \in T : ~ (y < x)
  BY <1>3, <1>4
<1>6. QED
  BY <1>5

\* Complete induction, over a set.
LEMMA CompleteInduction ==
    ASSUME NEW S, \A n \in Nat : (\A m \in Nat : m < n => m \in S) => n \in S
    PROVE  Nat \subseteq S
<1> SUFFICES ASSUME Nat \ S # {} PROVE FALSE
  OBVIOUS
<1>1. PICK n \in Nat \ S : \A m \in Nat \ S : n <= m
  BY Least
<1>2. QED
  BY <1>1

\* Induction from n to n + 1, over a set.
LEMMA Induction ==
    ASSUME NEW S, 0 \in S, \A n \in Nat : n \in S => n + 1 \in S
    PROVE  Nat \subseteq S
<1>1. ASSUME NEW n \in Nat, \A m \in Nat : m < n => m \in S
      PROVE  n \in S
  <2>1. CASE n = 0
    BY <2>1
  <2>2. CASE n # 0
    <3>1. n - 1 \in Nat /\ n - 1 \in S
      BY <1>1, <2>2
    <3>2. n - 1 + 1 \in S
      BY <3>1
    <3>3. QED
      BY <3>2
  <2>3. QED
    BY <2>1, <2>2
<1>2. QED
  BY <1>1, CompleteInduction

--------------------------------------------------------------------------
(* Division                                                                   *)

\* Multiplying by the base makes numbers larger.
LEMMA Grows ==
    ASSUME NEW b \in Nat, b > 1, NEW x \in Nat, x > 0
    PROVE  b * x \in Nat /\ b * x > x
OBVIOUS

\* What \div and % compute.
LEMMA Division ==
    ASSUME NEW n \in Nat, NEW b \in Nat, b > 0
    PROVE  /\ n \div b \in Nat /\ n % b \in Nat /\ n % b < b
           /\ n = b * (n \div b) + (n % b)
OBVIOUS

\* Quotient and remainder are unique.
LEMMA DivisionUnique ==
    ASSUME NEW b \in Nat, b > 0, NEW q \in Nat, NEW r \in Nat, r < b, NEW n, n = b * q + r
    PROVE  n \div b = q /\ n % b = r
OBVIOUS

\* A number below the divisor is its own remainder.
LEMMA SmallRemainder ==
    ASSUME NEW b \in Nat, NEW n \in Nat, n < b
    PROVE  n % b = n
<1> DEFINE q == 0
<1>1. q \in Nat /\ b > 0 /\ n = b * q + n
  OBVIOUS
<1> HIDE DEF q
<1>2. QED
  BY <1>1, DivisionUnique

\* Multiples of the divisor below n.
LEMMA DivBound ==
    ASSUME NEW n \in Nat, NEW b \in Nat, b > 0, NEW x \in Nat
    PROVE  b * x <= n <=> x <= n \div b
OBVIOUS

\* Dividing twice is dividing by the product.
LEMMA DivDiv ==
    ASSUME NEW n \in Nat, NEW b \in Nat, b > 0, NEW c \in Nat, c > 0
    PROVE  n \div (b * c) = (n \div b) \div c
OBVIOUS

\* The remainder of a product, from the quotient's remainder and the last digit.
LEMMA ModMod ==
    ASSUME NEW n \in Nat, NEW b \in Nat, b > 0, NEW c \in Nat, c > 0
    PROVE  n % (b * c) = b * ((n \div b) % c) + (n % b)
<1> DEFINE m == n \div b
           r == n % b
           k == m \div c
           l == m % c
<1>1. m \in Nat /\ r \in Nat /\ r < b /\ n = b * m + r
  BY Division
<1>2. k \in Nat /\ l \in Nat /\ l < c /\ m = c * k + l
  BY <1>1, Division
<1> HIDE DEF m, r, k, l
<1>3. b * c \in Nat /\ b * c > 0 /\ b * l + r \in Nat
  BY <1>1, <1>2
<1>4. n = (b * c) * k + (b * l + r)
  <2>1. n = b * (c * k + l) + r
    BY <1>1, <1>2
  <2>2. b * (c * k + l) = b * (c * k) + b * l
    BY <1>2
  <2>3. b * (c * k) = (b * c) * k
    BY <1>2
  <2>4. QED
    BY <1>1, <1>2, <1>3, <2>1, <2>2, <2>3
<1>5. b * l + r < b * c
  <2>1. b * (l + 1) <= b * c
    BY <1>2
  <2>2. b * (l + 1) = b * l + b
    BY <1>2
  <2>3. QED
    BY <1>1, <1>2, <1>3, <2>1, <2>2
<1>6. n % (b * c) = b * l + r
  <2> DEFINE d == b * c
             e == b * l + r
  <2>1. d \in Nat /\ d > 0 /\ e \in Nat /\ e < d /\ n = d * k + e
    BY <1>3, <1>4, <1>5
  <2> HIDE DEF d, e
  <2>2. n % d = e
    BY <1>2, <2>1, DivisionUnique
  <2>3. QED
    BY <2>2 DEF d, e
<1>7. QED
  BY <1>6 DEF l, r, m

--------------------------------------------------------------------------
(* Powers                                                                     *)

\* Approximations of Power, defined up to n.
Powers(n) == {g \in [0..n -> Nat] : g[0] = 1 /\ \A i \in 1..n : g[i] = Base * g[i - 1]}

\* Two of them agree where both are defined.
LEMMA PowersAgree ==
    ASSUME NEW m \in Nat, NEW n \in Nat, m <= n, NEW f \in Powers(m), NEW g \in Powers(n)
    PROVE  \A i \in 0..m : f[i] = g[i]
<1> DEFINE T == {i \in 0..m : f[i] # g[i]}
<1> SUFFICES ASSUME T # {} PROVE FALSE
  OBVIOUS
<1>1. PICK i \in T : \A j \in T : i <= j
  <2>1. T \in SUBSET Nat
    OBVIOUS
  <2> HIDE DEF T
  <2>2. QED
    BY <2>1, Least
<1>2. i \in Nat /\ i <= m /\ f[i] # g[i]
  BY <1>1
<1>3. i # 0
  BY <1>2 DEF Powers
<1>4. i - 1 \in 0..m /\ i - 1 \notin T
  BY <1>1, <1>2, <1>3
<1>5. f[i - 1] = g[i - 1]
  BY <1>4
<1>6. f[i] = Base * f[i - 1] /\ g[i] = Base * g[i - 1]
  BY <1>2, <1>3 DEF Powers
<1>7. QED
  BY <1>2, <1>5, <1>6

\* There is one for every n.
LEMMA PowersExist == \A n \in Nat : Powers(n) # {}
<1> DEFINE S == {n \in Nat : Powers(n) # {}}
<1>1. 0 \in S
  <2> DEFINE g == [i \in 0..0 |-> 1]
  <2>1. g \in [0..0 -> Nat] /\ g[0] = 1 /\ 1..0 = {}
    OBVIOUS
  <2>2. g \in Powers(0)
    BY <2>1 DEF Powers
  <2>3. QED
    BY <2>2
<1>2. ASSUME NEW n \in Nat, n \in S
      PROVE  n + 1 \in S
  <2>1. PICK g : g \in Powers(n)
    BY <1>2
  <2>2. g \in [0..n -> Nat] /\ g[0] = 1 /\ \A i \in 1..n : g[i] = Base * g[i - 1]
    BY <2>1 DEF Powers
  <2> DEFINE h == [i \in 0..(n + 1) |-> IF i <= n THEN g[i] ELSE Base * g[n]]
  <2>3. Base * g[n] \in Nat
    BY <2>2, PortsAssumption
  <2>4. h \in [0..(n + 1) -> Nat]
    BY <2>2, <2>3
  <2>5. h[0] = 1
    BY <2>2
  <2>6. ASSUME NEW i \in 1..(n + 1)
        PROVE  h[i] = Base * h[i - 1]
    <3>1. i - 1 \in 0..n /\ h[i - 1] = g[i - 1]
      OBVIOUS
    <3>2. CASE i <= n
      BY <2>2, <3>1, <3>2
    <3>3. CASE i = n + 1
      BY <3>1, <3>3
    <3>4. QED
      BY <3>2, <3>3
  <2> HIDE DEF h
  <2>7. h \in Powers(n + 1)
    BY <2>4, <2>5, <2>6 DEF Powers
  <2>8. QED
    BY <2>7
<1>3. Nat \subseteq S
  <2> HIDE DEF S
  <2>1. QED
    BY <1>1, <1>2, Induction
<1>4. QED
  BY <1>3

\* So the recursive definition of Power has a solution, and Power is one.
LEMMA PowerIs == Power = [w \in Nat |-> IF w = 0 THEN 1 ELSE Base * Power[w - 1]]
<1> DEFINE G(n) == CHOOSE g : g \in Powers(n)
           f == [w \in Nat |-> G(w)[w]]
<1>1. \A n \in Nat : G(n) \in Powers(n)
  BY PowersExist
<1>2. ASSUME NEW w \in Nat
      PROVE  f[w] = IF w = 0 THEN 1 ELSE Base * f[w - 1]
  <2>1. f[w] = G(w)[w] /\ G(w) \in Powers(w)
    BY <1>1
  <2>2. CASE w = 0
    BY <2>1, <2>2 DEF Powers
  <2>3. CASE w # 0
    <3>1. w - 1 \in Nat /\ f[w - 1] = G(w - 1)[w - 1] /\ G(w - 1) \in Powers(w - 1)
      BY <1>1, <2>3
    <3> HIDE DEF G, f
    <3>2. G(w - 1)[w - 1] = G(w)[w - 1]
      BY <2>1, <2>3, <3>1, PowersAgree
    <3>3. G(w)[w] = Base * G(w)[w - 1]
      BY <2>1, <2>3 DEF Powers
    <3>4. QED
      BY <2>1, <2>3, <3>1, <3>2, <3>3
  <2>4. QED
    BY <2>2, <2>3
<1>3. f = [w \in Nat |-> IF w = 0 THEN 1 ELSE Base * f[w - 1]]
  <2>1. f = [w \in Nat |-> f[w]]
    OBVIOUS
  <2> HIDE DEF f
  <2>2. QED
    BY <1>2, <2>1
<1> HIDE DEF f
<1>4. QED
  BY <1>3, Zenon DEF Power

\* Powers are numbers and exceed their exponents.
LEMMA PowerFacts ==
    /\ Power \in [Nat -> Nat] /\ Power[0] = 1 /\ Power[1] = Base
    /\ \A w \in Nat : Power[w + 1] = Base * Power[w] /\ Power[w] > w
<1>1. Power[0] = 1 /\ DOMAIN Power = Nat /\ Power = [w \in Nat |-> Power[w]]
  BY PowerIs
<1>2. ASSUME NEW w \in Nat
      PROVE  Power[w + 1] = Base * Power[w]
  <2>1. w + 1 \in Nat /\ w + 1 # 0 /\ (w + 1) - 1 = w
    OBVIOUS
  <2>2. QED
    BY <2>1, PowerIs
<1> DEFINE S == {w \in Nat : Power[w] \in Nat /\ Power[w] > w}
<1>3. 0 \in S
  BY <1>1
<1>4. ASSUME NEW w \in Nat, w \in S
      PROVE  w + 1 \in S
  <2>1. Base * Power[w] \in Nat /\ Base * Power[w] > Power[w]
    BY <1>4, PortsAssumption, Grows
  <2>2. QED
    BY <1>2, <1>4, <2>1
<1>5. Nat \subseteq S
  <2> HIDE DEF S
  <2>1. QED
    BY <1>3, <1>4, Induction
<1>6. Power[1] = Base
  <2>1. Power[0 + 1] = Base * Power[0]
    BY <1>2
  <2>2. QED
    BY <1>1, <2>1, PortsAssumption
<1>7. QED
  BY <1>1, <1>2, <1>5, <1>6

\* Powers do not shrink with their exponents.
LEMMA PowerGrows ==
    ASSUME NEW v \in Nat, NEW w \in Nat, v <= w
    PROVE  Power[v] <= Power[w]
<1> DEFINE S == {d \in Nat : Power[v] <= Power[v + d]}
<1>1. 0 \in S
  BY PowerFacts
<1>2. ASSUME NEW d \in Nat, d \in S
      PROVE  d + 1 \in S
  <2>1. v + d \in Nat /\ v + (d + 1) = (v + d) + 1
    OBVIOUS
  <2>2. Power[v + (d + 1)] = Base * Power[v + d] /\ Power[v + d] \in Nat /\ Power[v + d] > 0
    BY <2>1, PowerFacts
  <2>3. Power[v + (d + 1)] > Power[v + d]
    BY <2>2, PortsAssumption, Grows
  <2>4. QED
    BY <1>2, <2>2, <2>3, PowerFacts
<1>3. Nat \subseteq S
  <2> HIDE DEF S
  <2>1. QED
    BY <1>1, <1>2, Induction
<1>4. w - v \in Nat /\ v + (w - v) = w
  OBVIOUS
<1>5. QED
  BY <1>3, <1>4

--------------------------------------------------------------------------
(* Widths                                                                     *)

\* n is written with w digits.
IsWidth(w, n) == w \in Nat \ {0} /\ n < Power[w] /\ (w = 1 \/ Power[w - 1] <= n)
Width(n) == CHOOSE w \in Nat : IsWidth(w, n)

\* At most one width fits.
LEMMA OneWidth ==
    ASSUME NEW n \in Nat, NEW v, NEW w, IsWidth(v, n), IsWidth(w, n)
    PROVE  v = w
<1>1. ASSUME NEW x, NEW y, IsWidth(x, n), IsWidth(y, n), x < y
      PROVE  FALSE
  <2>1. x \in Nat /\ y - 1 \in Nat /\ x <= y - 1 /\ y # 1
    BY <1>1 DEF IsWidth
  <2>2. Power[x] <= Power[y - 1]
    BY <2>1, PowerGrows
  <2>3. n < Power[x] /\ Power[y - 1] <= n /\ Power[x] \in Nat /\ Power[y - 1] \in Nat
    BY <1>1, <2>1, PowerFacts DEF IsWidth
  <2>4. QED
    BY <2>2, <2>3
<1>2. v \in Nat /\ w \in Nat
  BY DEF IsWidth
<1>3. QED
  BY <1>1, <1>2

\* And one does, with no more digits than n + 1.
LEMMA WidthIs ==
    ASSUME NEW n \in Nat
    PROVE  IsWidth(Width(n), n) /\ Width(n) <= n + 1
<1> DEFINE T == {w \in Nat \ {0} : n < Power[w]}
<1>1. T \in SUBSET Nat /\ n + 1 \in T
  BY PowerFacts
<1>2. PICK w \in T : \A v \in T : w <= v
  <2> HIDE DEF T
  <2>1. QED
    BY <1>1, Least
<1>3. w \in Nat \ {0} /\ n < Power[w]
  BY <1>2
<1>4. w = 1 \/ Power[w - 1] <= n
  <2> SUFFICES ASSUME w # 1 PROVE Power[w - 1] <= n
    OBVIOUS
  <2>1. w - 1 \in Nat \ {0} /\ w - 1 \notin T
    BY <1>2, <1>3
  <2>2. QED
    BY <2>1, PowerFacts
<1>5. IsWidth(w, n) /\ w <= n + 1
  BY <1>1, <1>2, <1>3, <1>4 DEF IsWidth
<1>6. \E v \in Nat : IsWidth(v, n)
  BY <1>3, <1>5
<1>7. IsWidth(Width(n), n)
  BY <1>6 DEF Width
<1>8. QED
  BY <1>5, <1>7, OneWidth

\* decimal_width finds it for every u32.
LEMMA DecimalWidthIs ==
    ASSUME NEW n \in Word
    PROVE  DecimalWidth(n) = Width(n)
<1>1. n \in Nat /\ n + 1 <= WordSize /\ WordSize \in Nat
  BY PortsAssumption DEF Word
<1>2. IsWidth(Width(n), n) /\ Width(n) <= n + 1
  BY <1>1, WidthIs
<1>3. Width(n) \in 1..WordSize
  BY <1>1, <1>2 DEF IsWidth
<1> DEFINE P(w) == Power[w] > n /\ (w = 1 \/ Power[w - 1] <= n)
<1>4. \A w \in 1..WordSize : P(w) <=> IsWidth(w, n)
  BY <1>1 DEF IsWidth
<1>5. P(Width(n))
  BY <1>2, <1>3, <1>4
<1>6. DecimalWidth(n) \in 1..WordSize /\ P(DecimalWidth(n))
  <2>1. DecimalWidth(n) = CHOOSE w \in 1..WordSize : P(w)
    BY DEF DecimalWidth
  <2> HIDE DEF P
  <2>2. QED
    BY <1>3, <1>5, <2>1
<1>7. IsWidth(DecimalWidth(n), n)
  BY <1>4, <1>6
<1>8. QED
  BY <1>1, <1>2, <1>7, OneWidth

\* A number has one digit more than its quotient by the base.
LEMMA WidthSteps ==
    ASSUME NEW n \in Nat
    PROVE  /\ n < Base => Width(n) = 1
           /\ n >= Base => n \div Base < n /\ Width(n) = Width(n \div Base) + 1
<1>1. CASE n < Base
  <2>1. IsWidth(1, n)
    BY <1>1, PowerFacts DEF IsWidth
  <2>2. QED
    BY <1>1, <2>1, WidthIs, OneWidth, PortsAssumption
<1>2. CASE n >= Base
  <2> DEFINE m == n \div Base
             w == Width(m)
  <2>1. Base \in Nat /\ Base > 1 /\ Base > 0 /\ m \in Nat
    BY PortsAssumption, Division
  <2>2. m > 0 /\ m < n
    <3>1. 1 <= m
      <4>1. Base * 1 <= n
        BY <1>2, <2>1
      <4>2. QED
        BY <2>1, <4>1, DivBound
    <3>2. n = Base * m + (n % Base) /\ n % Base \in Nat
      BY <2>1, Division
    <3>3. Base * m > m /\ Base * m \in Nat
      BY <2>1, <3>1, Grows
    <3>4. QED
      BY <2>1, <3>1, <3>2, <3>3
  <2> HIDE DEF m
  <2>3. IsWidth(w, m) /\ w \in Nat \ {0}
    BY <2>1, WidthIs DEF IsWidth
  <2> HIDE DEF w
  <2>4. \A v \in Nat : Power[v + 1] <= n <=> Power[v] <= m
    <3> SUFFICES ASSUME NEW v \in Nat PROVE Power[v + 1] <= n <=> Power[v] <= m
      OBVIOUS
    <3>1. Power[v] \in Nat /\ Power[v + 1] = Base * Power[v]
      BY PowerFacts
    <3>2. QED
      BY <2>1, <3>1, DivBound DEF m
  <2>5. n < Power[w + 1]
    <3>1. ~ (Power[w] <= m)
      BY <2>1, <2>3, PowerFacts DEF IsWidth
    <3>2. ~ (Power[w + 1] <= n)
      BY <2>3, <2>4, <3>1
    <3>3. Power[w + 1] \in Nat
      BY <2>3, PowerFacts
    <3>4. QED
      BY <3>2, <3>3
  <2>6. Power[w] <= n
    <3>1. CASE w = 1
      BY <1>2, <3>1, PowerFacts
    <3>2. CASE w # 1
      <4>1. w - 1 \in Nat /\ (w - 1) + 1 = w /\ Power[w - 1] <= m
        BY <2>3, <3>2 DEF IsWidth
      <4>2. QED
        BY <2>4, <4>1
    <3>3. QED
      BY <3>1, <3>2
  <2>7. IsWidth(w + 1, n)
    BY <2>3, <2>5, <2>6 DEF IsWidth
  <2>8. Width(n) = w + 1
    BY <2>7, WidthIs, OneWidth
  <2>9. QED
    BY <1>2, <2>2, <2>8, PortsAssumption DEF m, w
<1>3. QED
  BY <1>1, <1>2, PortsAssumption

--------------------------------------------------------------------------
(* Digits                                                                     *)

\* The digits of n by position.
Written == [n \in Nat |-> [i \in 1..Width(n) |-> (n \div Power[Width(n) - i]) % Base]]

\* It solves the recursive equation of Digits.
LEMMA WrittenIs ==
    Written = [n \in Nat |-> IF n < Base THEN <<n>>
                             ELSE Append(Written[n \div Base], n % Base)]
<1>1. ASSUME NEW n \in Nat
      PROVE  Written[n] = IF n < Base THEN <<n>>
                          ELSE Append(Written[n \div Base], n % Base)
  <2>1. /\ Written[n] = [i \in 1..Width(n) |-> (n \div Power[Width(n) - i]) % Base]
        /\ Base \in Nat /\ Base > 1
    BY PortsAssumption DEF Written
  <2>2. CASE n < Base
    <3>1. Width(n) = 1 /\ Power[0] = 1
      BY <2>2, WidthSteps, PowerFacts
    <3>2. n \div 1 = n /\ n % Base = n
      <4>1. n = 1 * n + 0 /\ n = Base * 0 + n /\ 0 \in Nat /\ 1 \in Nat /\ Base > 0
        BY <2>1
      <4>2. n \div 1 = n
        <5>1. /\ n \div 1 \in Nat /\ n % 1 \in Nat /\ n % 1 < 1
              /\ n = 1 * (n \div 1) + (n % 1)
          BY <4>1, Division
        <5>2. QED
          BY <5>1
      <4>3. n % Base = n
        BY <2>1, <2>2, SmallRemainder
      <4>4. QED
        BY <4>2, <4>3
    <3>3. Written[n] = [i \in 1..1 |-> n]
      BY <2>1, <3>1, <3>2
    <3>4. QED
      BY <2>2, <3>3
  <2>3. CASE ~ (n < Base)
    <3> DEFINE m == n \div Base
    <3>1. m \in Nat /\ n % Base \in Nat
      BY <2>1, Division
    <3>2. Width(n) = Width(m) + 1 /\ Width(m) \in Nat
      <4>1. n >= Base
        BY <2>1, <2>3
      <4>2. Width(n) = Width(m) + 1
        BY <4>1, WidthSteps
      <4>3. IsWidth(Width(m), m)
        BY <3>1, WidthIs
      <4>4. QED
        BY <4>2, <4>3 DEF IsWidth
    <3>3. Written[m] = [i \in 1..Width(m) |-> (m \div Power[Width(m) - i]) % Base]
      BY <3>1 DEF Written
    <3>4. ASSUME NEW i \in 1..Width(m)
          PROVE  n \div Power[Width(n) - i] = m \div Power[Width(m) - i]
      <4>1. Width(m) - i \in Nat /\ Width(n) - i = (Width(m) - i) + 1
        BY <3>2
      <4>2. /\ Power[Width(n) - i] = Base * Power[Width(m) - i]
            /\ Power[Width(m) - i] \in Nat /\ Power[Width(m) - i] > 0
        BY <4>1, PowerFacts
      <4>3. QED
        BY <2>1, <4>2, DivDiv
    <3>5. n \div Power[Width(n) - (Width(m) + 1)] = n
      <4>1. Power[Width(n) - (Width(m) + 1)] = 1
        BY <3>2, PowerFacts
      <4>2. n = 1 * n + 0
        OBVIOUS
      <4>3. QED
        BY <4>1, <4>2, DivisionUnique
    <3> HIDE DEF m
    <3>6. Written[m] \in Seq(Int) /\ Len(Written[m]) = Width(m)
      <4>1. \A i \in 1..Width(m) : (m \div Power[Width(m) - i]) % Base \in Int
        <5>1. ASSUME NEW i \in 1..Width(m)
              PROVE  (m \div Power[Width(m) - i]) % Base \in Int
          <6>1. Width(m) - i \in Nat
            BY <3>2
          <6>2. Power[Width(m) - i] \in Nat /\ Power[Width(m) - i] > 0
            BY <6>1, PowerFacts
          <6>3. m \div Power[Width(m) - i] \in Nat
            BY <3>1, <6>2, Division
          <6>4. QED
            BY <2>1, <6>3, Division
        <5>2. QED
          BY <5>1
      <4>2. QED
        BY <3>2, <3>3, <4>1
    <3>7. Written[n] = Append(Written[m], n % Base)
      BY <2>1, <3>1, <3>2, <3>3, <3>4, <3>5, <3>6
    <3>8. QED
      BY <2>3, <3>7 DEF m
  <2>4. QED
    BY <2>2, <2>3
<1>2. Written = [n \in Nat |-> Written[n]]
  BY DEF Written
<1>3. QED
  BY <1>1, <1>2

\* So Digits satisfies its equation.
LEMMA DigitsAre ==
    ASSUME NEW n \in Nat
    PROVE  Digits[n] = IF n < Base THEN <<n>> ELSE Append(Digits[n \div Base], n % Base)
<1>1. Digits = [k \in Nat |-> IF k < Base THEN <<k>>
                              ELSE Append(Digits[k \div Base], k % Base)]
  BY WrittenIs, Zenon DEF Digits
<1>2. QED
  BY <1>1

\* A number is written with as many digits as its width.
LEMMA DigitsType ==
    ASSUME NEW n \in Nat
    PROVE  Digits[n] \in Seq(Nat) /\ Len(Digits[n]) = Width(n)
<1> DEFINE S == {k \in Nat : Digits[k] \in Seq(Nat) /\ Len(Digits[k]) = Width(k)}
<1>1. ASSUME NEW k \in Nat, \A j \in Nat : j < k => j \in S
      PROVE  k \in S
  <2>1. CASE k < Base
    <3>1. Digits[k] = <<k>> /\ Width(k) = 1
      BY <2>1, DigitsAre, WidthSteps
    <3>2. Digits[k] \in Seq(Nat) /\ Len(Digits[k]) = 1
      BY <3>1
    <3>3. QED
      BY <3>1, <3>2
  <2>2. CASE ~ (k < Base)
    <3> DEFINE j == k \div Base
    <3>1. j \in Nat /\ k % Base \in Nat
      BY PortsAssumption, Division
    <3>2. j < k /\ Width(k) = Width(j) + 1
      <4>1. k >= Base
        BY <2>2, PortsAssumption
      <4>2. QED
        BY <4>1, WidthSteps
    <3>3. Digits[k] = Append(Digits[j], k % Base)
      BY <2>2, DigitsAre
    <3> HIDE DEF j
    <3>4. Digits[j] \in Seq(Nat) /\ Len(Digits[j]) = Width(j)
      BY <1>1, <3>1, <3>2
    <3>5. Digits[k] \in Seq(Nat) /\ Len(Digits[k]) = Len(Digits[j]) + 1
      BY <3>1, <3>3, <3>4
    <3>6. QED
      BY <3>2, <3>4, <3>5
  <2>3. QED
    BY <2>1, <2>2
<1>2. Nat \subseteq S
  <2> HIDE DEF S
  <2>1. QED
    BY <1>1, CompleteInduction
<1>3. QED
  BY <1>2

--------------------------------------------------------------------------
(* Suffixes of sequences                                                      *)

\* Suffixes, position by position from the end.
LEMMA SuffixIs ==
    ASSUME NEW s \in Seq(Nat), NEW t \in Seq(Nat)
    PROVE  IsSuffix(s, t) <=>
             /\ Len(s) <= Len(t)
             /\ \A i \in 1..Len(s) : s[Len(s) - i + 1] = t[Len(t) - i + 1]
<1> DEFINE r == Reverse(s)
           q == Reverse(t)
<1>1. /\ r \in Seq(Nat) /\ Len(r) = Len(s) /\ \A i \in 1..Len(s) : r[i] = s[Len(s) - i + 1]
      /\ q \in Seq(Nat) /\ Len(q) = Len(t) /\ \A i \in 1..Len(t) : q[i] = t[Len(t) - i + 1]
  BY DEF Reverse
<1>2. IsSuffix(s, t) <=> Len(r) <= Len(q) /\ SubSeq(r, 1, Len(r)) = SubSeq(q, 1, Len(r))
  BY DEF IsSuffix, IsPrefix
<1> HIDE DEF r, q
<1>3. ASSUME Len(r) <= Len(q)
      PROVE  SubSeq(r, 1, Len(r)) = SubSeq(q, 1, Len(r)) <=> \A i \in 1..Len(r) : r[i] = q[i]
  <2>1. /\ Len(r) \in Nat /\ DOMAIN SubSeq(r, 1, Len(r)) = 1..Len(r)
        /\ \A i \in 1..Len(r) : SubSeq(r, 1, Len(r))[i] = r[i]
        /\ SubSeq(r, 1, Len(r)) \in Seq(Nat)
    <3>1. r \in Seq(Nat) /\ Len(r) \in Nat
      BY <1>1
    <3>2. SubSeq(r, 1, Len(r)) = r
      BY <3>1
    <3>3. QED
      BY <3>1, <3>2
  <2>2. /\ DOMAIN SubSeq(q, 1, Len(r)) = 1..Len(r)
        /\ \A i \in 1..Len(r) : SubSeq(q, 1, Len(r))[i] = q[i]
        /\ SubSeq(q, 1, Len(r)) \in Seq(Nat)
    <3>1. q \in Seq(Nat) /\ Len(r) \in 0..Len(q) /\ Len(q) \in Nat
      BY <1>1, <1>3, <2>1
    <3>2. SubSeq(q, 1, Len(r)) \in Seq(Nat) /\ Len(SubSeq(q, 1, Len(r))) = Len(r)
      BY <3>1
    <3>3. \A i \in 1..Len(r) : SubSeq(q, 1, Len(r))[i] = q[i]
      BY <3>1
    <3>4. QED
      BY <3>2, <3>3
  <2>3. QED
    BY <2>1, <2>2
<1>4. CASE Len(s) <= Len(t)
  <2>1. /\ Len(r) <= Len(q) /\ 1..Len(r) = 1..Len(s)
        /\ \A i \in 1..Len(s) : i \in 1..Len(t)
    BY <1>1, <1>4
  <2>2. \A i \in 1..Len(s) :
          r[i] = q[i] <=> s[Len(s) - i + 1] = t[Len(t) - i + 1]
    BY <1>1, <2>1
  <2>3. QED
    BY <1>2, <1>3, <1>4, <2>1, <2>2
<1>5. QED
  BY <1>1, <1>2, <1>4

\* The last elements count on their own.
LEMMA SuffixAppend ==
    ASSUME NEW x \in Seq(Nat), NEW y \in Seq(Nat), NEW d \in Nat, NEW e \in Nat
    PROVE  IsSuffix(Append(x, d), Append(y, e)) <=> d = e /\ IsSuffix(x, y)
<1> DEFINE s == Append(x, d)
           t == Append(y, e)
<1>1. /\ s \in Seq(Nat) /\ Len(s) = Len(x) + 1 /\ s[Len(s)] = d
      /\ \A i \in 1..Len(x) : s[i] = x[i]
      /\ t \in Seq(Nat) /\ Len(t) = Len(y) + 1 /\ t[Len(t)] = e
      /\ \A i \in 1..Len(y) : t[i] = y[i]
  OBVIOUS
<1> HIDE DEF s, t
<1>2. IsSuffix(s, t) <=>
        /\ Len(s) <= Len(t)
        /\ \A i \in 1..Len(s) : s[Len(s) - i + 1] = t[Len(t) - i + 1]
  BY <1>1, SuffixIs
<1>3. IsSuffix(x, y) <=>
        /\ Len(x) <= Len(y)
        /\ \A i \in 1..Len(x) : x[Len(x) - i + 1] = y[Len(y) - i + 1]
  BY SuffixIs
<1>4. ASSUME IsSuffix(s, t)
      PROVE  d = e /\ IsSuffix(x, y)
  <2>1. d = e
    <3>1. 1 \in 1..Len(s) /\ Len(s) - 1 + 1 = Len(s) /\ Len(t) - 1 + 1 = Len(t)
      BY <1>1
    <3>2. s[Len(s) - 1 + 1] = t[Len(t) - 1 + 1]
      BY <1>2, <1>4, <3>1
    <3>3. QED
      BY <1>1, <3>1, <3>2
  <2>2. Len(x) <= Len(y)
    BY <1>1, <1>2, <1>4
  <2>3. ASSUME NEW i \in 1..Len(x)
        PROVE  x[Len(x) - i + 1] = y[Len(y) - i + 1]
    <3>1. i + 1 \in 1..Len(s)
      BY <1>1
    <3>2. s[Len(s) - (i + 1) + 1] = t[Len(t) - (i + 1) + 1]
      BY <1>2, <1>4, <3>1
    <3>3. /\ Len(s) - (i + 1) + 1 = Len(x) - i + 1 /\ Len(x) - i + 1 \in 1..Len(x)
          /\ Len(t) - (i + 1) + 1 = Len(y) - i + 1 /\ Len(y) - i + 1 \in 1..Len(y)
      BY <1>1, <2>2
    <3>4. QED
      BY <1>1, <3>2, <3>3
  <2>4. QED
    BY <1>3, <2>1, <2>2, <2>3
<1>5. ASSUME d = e, IsSuffix(x, y)
      PROVE  IsSuffix(s, t)
  <2>1. Len(s) <= Len(t) /\ Len(x) <= Len(y)
    BY <1>1, <1>3, <1>5
  <2>2. ASSUME NEW i \in 1..Len(s)
        PROVE  s[Len(s) - i + 1] = t[Len(t) - i + 1]
    <3>1. CASE i = 1
      <4>1. Len(s) - i + 1 = Len(s) /\ Len(t) - i + 1 = Len(t)
        BY <1>1, <3>1
      <4>2. QED
        BY <1>1, <1>5, <4>1
    <3>2. CASE i # 1
      <4>1. i - 1 \in 1..Len(x)
        BY <1>1, <3>2
      <4>2. x[Len(x) - (i - 1) + 1] = y[Len(y) - (i - 1) + 1]
        BY <1>3, <1>5, <4>1
      <4>3. /\ Len(s) - i + 1 = Len(x) - (i - 1) + 1 /\ Len(s) - i + 1 \in 1..Len(x)
            /\ Len(t) - i + 1 = Len(y) - (i - 1) + 1 /\ Len(t) - i + 1 \in 1..Len(y)
        <5>1. /\ Len(x) \in Nat /\ Len(y) \in Nat /\ Len(x) <= Len(y)
              /\ Len(s) = Len(x) + 1 /\ Len(t) = Len(y) + 1 /\ i \in Int /\ 2 <= i
              /\ i <= Len(x) + 1
          <6>1. /\ Len(s) = Len(x) + 1 /\ Len(t) = Len(y) + 1
                /\ Len(x) <= Len(y)
            BY <1>1, <2>1
          <6>2. Len(x) \in Nat /\ Len(y) \in Nat
            OBVIOUS
          <6>3. QED
            BY <3>2, <6>1, <6>2
        <5>2. QED
          BY <5>1
      <4>4. QED
        BY <1>1, <4>2, <4>3
    <3>3. QED
      BY <3>1, <3>2
  <2>3. QED
    BY <1>2, <2>1, <2>2
<1>6. QED
  BY <1>4, <1>5 DEF s, t

--------------------------------------------------------------------------
(* Suffixes of numbers                                                        *)

\* What the theorem says of one suffix, for induction.
SuffixMeans(s) ==
    \A p \in Nat : IsSuffix(Digits[s], Digits[p]) <=> p % Power[Width(s)] = s

\* A suffix of one digit.
LEMMA LastDigit ==
    ASSUME NEW s \in Nat, s < Base
    PROVE  SuffixMeans(s)
<1>1. Base \in Nat /\ Base > 1
  BY PortsAssumption
<1>2. Width(s) = 1 /\ Power[1] = Base /\ Digits[s] = <<s>>
  BY WidthSteps, PowerFacts, DigitsAre
<1> DEFINE empty == SubSeq(<<s>>, 1, 0)
<1>3. empty \in Seq(Nat) /\ Len(empty) = 0
  OBVIOUS
<1>4. \A d \in Nat : <<d>> = Append(empty, d)
  BY <1>3
<1> HIDE DEF empty
<1>5. ASSUME NEW p \in Nat
      PROVE  IsSuffix(<<s>>, Digits[p]) <=> p % Base = s
  <2>1. \A x \in Seq(Nat), d \in Nat : IsSuffix(<<s>>, Append(x, d)) <=> s = d
    <3> SUFFICES ASSUME NEW x \in Seq(Nat), NEW d \in Nat
                 PROVE  IsSuffix(<<s>>, Append(x, d)) <=> s = d
      OBVIOUS
    <3>1. IsSuffix(empty, x)
      <4>1. IsSuffix(empty, x) <=>
              /\ Len(empty) <= Len(x)
              /\ \A i \in 1..Len(empty) :
                    empty[Len(empty) - i + 1] = x[Len(x) - i + 1]
        BY <1>3, SuffixIs
      <4>2. Len(empty) <= Len(x) /\ 1..Len(empty) = {}
        BY <1>3
      <4>3. QED
        BY <4>1, <4>2
    <3>2. IsSuffix(Append(empty, s), Append(x, d)) <=> s = d /\ IsSuffix(empty, x)
      BY <1>3, SuffixAppend
    <3>3. QED
      BY <1>4, <3>1, <3>2
  <2>2. CASE p < Base
    <3>1. Digits[p] = Append(empty, p)
      BY <1>4, <2>2, DigitsAre
    <3>2. p % Base = p
      BY <1>1, <2>2, SmallRemainder
    <3>3. QED
      BY <1>3, <2>1, <3>1, <3>2
  <2>3. CASE ~ (p < Base)
    <3>1. p \div Base \in Nat /\ p % Base \in Nat
      BY <1>1, Division
    <3>2. Digits[p] = Append(Digits[p \div Base], p % Base)
      BY <2>3, DigitsAre
    <3>3. Digits[p \div Base] \in Seq(Nat)
      BY <3>1, DigitsType
    <3>4. QED
      BY <2>1, <3>1, <3>2, <3>3
  <2>4. QED
    BY <2>2, <2>3
<1>6. QED
  BY <1>2, <1>5 DEF SuffixMeans

\* A suffix of more digits, from the suffix without its last one.
LEMMA MoreDigits ==
    ASSUME NEW s \in Nat, ~ (s < Base), SuffixMeans(s \div Base)
    PROVE  SuffixMeans(s)
<1> DEFINE k == s \div Base
           d == s % Base
           M == Power[Width(k)]
<1>1. Base \in Nat /\ Base > 1 /\ Base > 0 /\ s >= Base
  BY PortsAssumption
<1>2. k \in Nat /\ d \in Nat /\ d < Base /\ s = Base * k + d
  BY <1>1, Division
<1>3. Digits[s] = Append(Digits[k], d) /\ Digits[k] \in Seq(Nat)
  BY <1>2, DigitsAre, DigitsType
<1>4. /\ Width(s) = Width(k) + 1 /\ Width(k) \in Nat /\ M \in Nat /\ M > 0
      /\ Power[Width(s)] = Base * M
  <2>1. Width(s) = Width(k) + 1
    BY <1>1, WidthSteps
  <2>2. Width(k) \in Nat
    BY <1>2, WidthIs DEF IsWidth
  <2>3. QED
    BY <2>1, <2>2, PowerFacts
<1>5. \A p \in Nat : IsSuffix(Digits[k], Digits[p]) <=> p % M = k
  BY DEF SuffixMeans
<1>6. s < Base * M
  BY <1>4, WidthIs DEF IsWidth
<1> HIDE DEF k, d, M
<1>7. ASSUME NEW p \in Nat
      PROVE  IsSuffix(Digits[s], Digits[p]) <=> p % (Base * M) = s
  <2>1. CASE p < Base
    <3>1. p % (Base * M) = p
      <4>1. Base * M \in Nat /\ p < Base * M
        BY <1>1, <1>4, <1>6, <2>1
      <4>2. QED
        BY <4>1, SmallRemainder
    <3>2. p # s
      BY <1>1, <2>1
    <3>3. Len(Digits[p]) = 1 /\ Digits[p] \in Seq(Nat)
      BY <2>1, DigitsType, WidthSteps
    <3>4. Digits[s] \in Seq(Nat) /\ Len(Digits[s]) = Width(k) + 1
      BY <1>4, DigitsType
    <3>5. Width(k) > 0
      BY <1>2, WidthIs DEF IsWidth
    <3>6. ~ (Len(Digits[s]) <= Len(Digits[p]))
      BY <1>4, <3>3, <3>4, <3>5
    <3>7. QED
      BY <3>1, <3>2, <3>3, <3>4, <3>6, SuffixIs
  <2>2. CASE ~ (p < Base)
    <3> DEFINE m == p \div Base
               e == p % Base
               l == m % M
    <3>1. m \in Nat /\ e \in Nat /\ e < Base /\ Digits[m] \in Seq(Nat)
      BY <1>1, Division, DigitsType
    <3>2. Digits[p] = Append(Digits[m], e)
      BY <2>2, DigitsAre
    <3>3. p % (Base * M) = Base * l + e
      BY <1>1, <1>4, ModMod
    <3> HIDE DEF e, m
    <3>4. l \in Nat
      BY <1>4, <3>1, Division
    <3>5. IsSuffix(Digits[s], Digits[p]) <=> d = e /\ l = k
      <4>1. IsSuffix(Digits[s], Digits[p]) <=> d = e /\ IsSuffix(Digits[k], Digits[m])
        BY <1>2, <1>3, <3>1, <3>2, SuffixAppend
      <4>2. QED
        BY <1>5, <3>1, <4>1
    <3> HIDE DEF l
    <3>6. Base * l + e = Base * k + d <=> d = e /\ l = k
      <4>1. ASSUME Base * l + e = Base * k + d
            PROVE  d = e /\ l = k
        <5> DEFINE z == Base * l + e
        <5>1. z = Base * l + e /\ z = Base * k + d
          BY <4>1
        <5> HIDE DEF z
        <5>2. z % Base = e /\ z \div Base = l
          BY <1>1, <3>1, <3>4, <5>1, DivisionUnique
        <5>3. z % Base = d /\ z \div Base = k
          BY <1>1, <1>2, <5>1, DivisionUnique
        <5>4. QED
          BY <5>2, <5>3
      <4>2. QED
        BY <4>1
    <3>7. QED
      BY <1>2, <3>3, <3>5, <3>6
  <2>3. QED
    BY <2>1, <2>2
<1>8. QED
  BY <1>4, <1>7 DEF SuffixMeans

\* A number ends in the digits of a suffix exactly if the modulus test of
\* ListenPorts::project says so, whatever the base, the suffix and the number.
THEOREM SuffixesAre ==
    ASSUME NEW s \in Nat, NEW p \in Nat
    PROVE  IsSuffix(Digits[s], Digits[p]) <=> p % Power[Width(s)] = s
<1> DEFINE S == {k \in Nat : SuffixMeans(k)}
<1>1. ASSUME NEW k \in Nat, \A j \in Nat : j < k => j \in S
      PROVE  k \in S
  <2>1. CASE k < Base
    BY <2>1, LastDigit
  <2>2. CASE ~ (k < Base)
    <3>1. k >= Base
      BY <2>2, PortsAssumption
    <3>2. k \div Base \in Nat /\ k \div Base < k
      BY <3>1, PortsAssumption, Division, WidthSteps
    <3>3. SuffixMeans(k \div Base)
      BY <1>1, <3>2
    <3>4. QED
      BY <2>2, <3>3, MoreDigits
  <2>3. QED
    BY <2>1, <2>2
<1>2. Nat \subseteq S
  <2> HIDE DEF S
  <2>1. QED
    BY <1>1, CompleteInduction
<1>3. SuffixMeans(s)
  BY <1>2
<1>4. QED
  BY <1>3 DEF SuffixMeans

--------------------------------------------------------------------------
(* Range listeners                                                            *)

\* A range listener projects to the ports written with its suffix; a suffix whose power
\* wraps is longer than every port, so the wrapped modulus decides nothing.
LEMMA RangeMeans ==
    ASSUME NEW l \in ListenPorts, l.ports = Unset, Unset \notin {l.start, l.end, l.suffix}
    PROVE  LET meant == IF RangeAllowed(l.start, l.end)
                          THEN WrittenWith(l.suffix, l.start..(l.end - 1)) ELSE {}
           IN  Project(l) = IF meant = {} THEN Rejected ELSE meant
<1> DEFINE s == l.suffix
           R == l.start..(l.end - 1)
           w == Width(s)
           M == Modulus(s)
<1>1. Project(l) = ProjectRange(l)
  BY DEF Project
<1>2. s \in Word /\ s \in Nat /\ MaxPort \in Nat /\ WordSize \in Nat /\ WordSize > 0
  BY PortsAssumption DEF ListenPorts, Word
<1>3. IsWidth(w, s) /\ w \in Nat \ {0} /\ Power[w] \in Nat /\ s < Power[w]
  BY <1>2, WidthIs, PowerFacts DEF IsWidth
<1>4. M = Power[w] % WordSize /\ M \in Nat
  BY <1>2, <1>3, DecimalWidthIs, Division DEF Modulus
<1>5. CASE ~RangeAllowed(l.start, l.end)
  BY <1>1, <1>5 DEF ProjectRange
<1>6. CASE RangeAllowed(l.start, l.end)
  <2>1. \A p \in R : p \in Nat /\ p <= MaxPort
    BY <1>2, <1>6 DEF RangeAllowed
  <2>2. ProjectRange(l) = IF s < M /\ EndsIn(l.start, l.end, s) # {}
                            THEN EndsIn(l.start, l.end, s) ELSE Rejected
    BY <1>6 DEF ProjectRange
  <2>3. EndsIn(l.start, l.end, s) = {p \in R : p % M = s}
    BY DEF EndsIn
  <2>4. WrittenWith(s, R) = {p \in R : p % Power[w] = s}
    BY <1>2, <2>1, SuffixesAre DEF WrittenWith
  <2> HIDE DEF M, R, w
  <2>5. CASE Power[w] < WordSize
    <3>1. M = Power[w]
      BY <1>2, <1>3, <1>4, <2>5, SmallRemainder
    <3>2. QED
      BY <1>1, <1>3, <1>6, <2>2, <2>3, <2>4, <3>1 DEF R
  <2>6. CASE ~ (Power[w] < WordSize)
    <3>1. PICK k \in 1..WordSize : MaxPort < Power[k] /\ Power[k] < WordSize
      BY PowerAssumption
    <3>2. k \in Nat /\ Power[k] \in Nat
      BY <3>1, PowerFacts
    <3>3. k < w
      <4>1. ~ (w <= k)
        BY <1>2, <1>3, <2>6, <3>1, <3>2, PowerGrows
      <4>2. QED
        BY <1>3, <3>2, <4>1
    <3>4. s > MaxPort
      <4>1. w # 1 /\ w - 1 \in Nat /\ k <= w - 1
        BY <1>3, <3>1, <3>2, <3>3
      <4>2. Power[k] <= Power[w - 1] /\ Power[w - 1] \in Nat
        BY <3>2, <4>1, PowerGrows, PowerFacts
      <4>3. Power[w - 1] <= s
        BY <1>3, <4>1 DEF IsWidth
      <4>4. QED
        BY <1>2, <3>1, <3>2, <4>2, <4>3
    <3>5. ASSUME NEW p \in R, NEW m \in Nat, s < m
          PROVE  p % m # s
      <4>1. p \in Nat /\ p < m /\ p # s
        BY <1>2, <2>1, <3>4, <3>5
      <4>2. QED
        BY <4>1, SmallRemainder
    <3>6. WrittenWith(s, R) = {}
      BY <1>3, <2>4, <3>5
    <3>7. s < M => EndsIn(l.start, l.end, s) = {}
      BY <1>4, <2>3, <3>5
    <3>8. QED
      BY <1>1, <1>6, <2>2, <3>6, <3>7 DEF R
  <2>7. QED
    BY <2>5, <2>6
<1>7. QED
  BY <1>5, <1>6

--------------------------------------------------------------------------
(* The wizard                                                                 *)

\* What parse_port_range lets through.
LEMMA ParsedRange ==
    ASSUME NEW e \in Entry, NEW inclusive \in BOOLEAN,
           ParsePortRange(e.start, e.end, inclusive) # Rejected
    PROVE  LET r == ParsePortRange(e.start, e.end, inclusive) IN
           /\ r[1] = e.start /\ r[2] = Lowest(e.end, MaxPort)
           /\ e.start \in 1..MaxPort /\ e.end \in 2..(MaxPort + 1) /\ e.start < e.end
           /\ inclusive => e.end <= MaxPort
BY PortsAssumption DEF ParsePortRange

\* Whose project gives back exactly the ports listed.
LEMMA ListedPorts ==
    ASSUME NEW list \in Seq(Port), Project(Explicit(list)) # Rejected
    PROVE  Project(Explicit(list)) = Range(list)
<1>1. Unset \notin Seq(Port)
  BY PortsAssumption
<1>2. /\ Explicit(list).ports = list /\ list # Unset
      /\ {Explicit(list).start, Explicit(list).end, Explicit(list).suffix} = {Unset}
  BY <1>1 DEF Explicit
<1>3. Project(Explicit(list)) = ProjectExplicit(list)
  BY <1>2 DEF Project
<1>4. QED
  BY <1>3 DEF ProjectExplicit

\* An accepted entry gives ports that were asked for, and all of them but the highest
\* port of a suffix range.
LEMMA WizardListener ==
    ASSUME NEW e \in Entry, NEW l, l = Listener(e), l # Rejected, Project(l) # Rejected
    PROVE  /\ Project(l) \subseteq Asked(e)
           /\ Asked(e) \ Project(l) \subseteq
                (IF e.mode = "suffix" THEN {MaxPort} ELSE {})
<1> DEFINE r == ParsePortRange(e.start, e.end, e.mode = "range")
<1>1. MaxPort \in Nat /\ Unset \notin Word /\ (e.mode = "range") \in BOOLEAN
  BY PortsAssumption
<1>2. CASE e.mode = "single"
  <2>1. e.start \in 1..MaxPort /\ l = Explicit(<<e.start>>)
    BY <1>2 DEF Listener
  <2>2. <<e.start>> \in Seq(Port) /\ Range(<<e.start>>) = {e.start}
    BY <1>1, <2>1 DEF Port, Range
  <2>3. Project(l) = {e.start}
    BY <2>1, <2>2, ListedPorts
  <2>4. Asked(e) = {e.start} \cap (1..MaxPort)
    BY <1>2 DEF Asked
  <2>5. QED
    BY <1>2, <2>1, <2>3, <2>4
<1>3. CASE e.mode = "range"
  <2> DEFINE list == [i \in 1..(r[2] - r[1] + 1) |-> r[1] + i - 1]
  <2>1. r # Rejected /\ l = Explicit(list)
    BY <1>3 DEF Listener
  <2>2. /\ r[1] = e.start /\ r[2] = e.end
        /\ e.start \in 1..MaxPort /\ e.end \in 2..MaxPort /\ e.start < e.end
    <3>1. /\ r[1] = e.start /\ r[2] = Lowest(e.end, MaxPort)
          /\ e.start \in 1..MaxPort /\ e.end \in 2..(MaxPort + 1) /\ e.start < e.end
          /\ e.mode = "range" => e.end <= MaxPort
      BY <1>1, <2>1, ParsedRange
    <3> HIDE DEF r
    <3>2. Lowest(e.end, MaxPort) = e.end /\ e.end \in 2..MaxPort
      BY <1>1, <1>3, <3>1 DEF Lowest
    <3>3. QED
      BY <3>1, <3>2
  <2>3. list = [i \in 1..(e.end - e.start + 1) |-> e.start + i - 1]
    BY <2>2
  <2> HIDE DEF list, r
  <2>4. /\ e.end - e.start + 1 \in Nat
        /\ \A i \in 1..(e.end - e.start + 1) : e.start + i - 1 \in Port
        /\ \A i \in 1..(e.end - e.start + 1) : e.start + i - 1 \in e.start..e.end
    BY <1>1, <2>2 DEF Port
  <2>5. list \in Seq(Port)
    BY <2>3, <2>4
  <2>6. Range(list) = e.start..e.end
    <3>1. \A p \in e.start..e.end :
            p - e.start + 1 \in 1..(e.end - e.start + 1) /\ e.start + (p - e.start + 1) - 1 = p
      BY <1>1, <2>2
    <3>2. QED
      BY <2>3, <2>4, <3>1 DEF Range
  <2>7. Project(l) = e.start..e.end
    BY <2>1, <2>5, <2>6, ListedPorts
  <2>8. Asked(e) = e.start..e.end
    BY <1>3 DEF Asked
  <2>9. QED
    BY <2>7, <2>8
<1>4. CASE e.mode = "suffix"
  <2>1. r # Rejected /\ l = Suffixed(r[1], r[2], e.suffix) /\ e.suffix \in Word
    BY <1>4 DEF Listener, Entry
  <2>2. /\ r[1] = e.start /\ r[2] = Lowest(e.end, MaxPort)
        /\ e.start \in 1..MaxPort /\ e.end \in 2..(MaxPort + 1) /\ e.start < e.end
    BY <1>1, <2>1, ParsedRange
  <2> HIDE DEF r
  <2> DEFINE top == Lowest(e.end, MaxPort)
  <2>3. /\ top \in 0..MaxPort /\ top <= e.end
        /\ top = e.end \/ (top = MaxPort /\ e.end = MaxPort + 1)
    <3>1. e.end \in Int /\ 2 <= e.end /\ e.end <= MaxPort + 1
      BY <1>1, <2>2
    <3>2. top = IF e.end <= MaxPort THEN e.end ELSE MaxPort
      BY DEF Lowest
    <3> HIDE DEF top
    <3>3. QED
      BY <1>1, <3>1, <3>2
  <2>4. l = Suffixed(e.start, top, e.suffix)
    BY <2>1, <2>2
  <2> HIDE DEF top
  <2>5. /\ l.start = e.start /\ l.end = top /\ l.suffix = e.suffix /\ l.ports = Unset
        /\ e.start \in Word /\ top \in Word
    BY <1>1, <2>2, <2>3, <2>4, PortsAssumption DEF Suffixed, Word
  <2>6. l \in ListenPorts
    BY <2>1, <2>4, <2>5 DEF Suffixed, ListenPorts
  <2>7. Unset \notin {l.start, l.end, l.suffix}
    BY <1>1, <2>1, <2>5
  <2>8. Project(l) = WrittenWith(e.suffix, e.start..(top - 1))
    BY <2>5, <2>6, <2>7, RangeMeans
  <2>9. Asked(e) = WrittenWith(e.suffix, e.start..(e.end - 1))
    BY <1>4 DEF Asked
  <2>10. /\ e.start..(top - 1) \subseteq e.start..(e.end - 1)
         /\ \A p \in e.start..(e.end - 1) : p \notin e.start..(top - 1) => p = MaxPort
    BY <1>1, <2>2, <2>3
  <2>11. QED
    BY <1>4, <2>8, <2>9, <2>10 DEF WrittenWith
<1>5. QED
  BY <1>2, <1>3, <1>4 DEF Entry

\* The listener is the wizard's, which has projected it once; the ports are what it
\* projects to.
ListenerInv ==
    /\ (entry # Unset /\ listen # Rejected) =>
          listen = Listener(entry) /\ Project(listen) # Rejected
    /\ ports # Pending => listen # Rejected /\ ports = Project(listen)

\* Every operation keeps both.
LEMMA PromptListener ==
    ASSUME TypeOK, ListenerInv, Next
    PROVE  ListenerInv'
<1>1. CASE WizardListenPorts
  BY <1>1 DEF WizardListenPorts, ListenerInv
<1>2. CASE EditByHand
  BY <1>2 DEF EditByHand, ListenerInv
<1>3. CASE ValidateProfile
  BY <1>3 DEF ValidateProfile, ListenerInv
<1>4. QED
  BY <1>1, <1>2, <1>3 DEF Next

\* Both promises follow.
LEMMA ListenerPromises ==
    ASSUME TypeOK, ListenerInv
    PROVE  ProjectionEndsInSuffix /\ WizardAddsNothing
<1>1. ProjectionEndsInSuffix
  <2>1. ports # Pending => listen \in ListenPorts /\ ports = Project(listen)
    BY DEF TypeOK, ListenerInv
  <2>2. QED
    BY <2>1, RangeMeans DEF ProjectionEndsInSuffix
<1>2. ASSUME entry # Unset, ports # Pending
      PROVE  /\ ports # Rejected /\ ports \subseteq Asked(entry)
             /\ Asked(entry) \ ports \subseteq
                  (IF entry.mode = "suffix" THEN {MaxPort} ELSE {})
  <2>1. /\ entry \in Entry /\ listen # Rejected /\ listen = Listener(entry)
        /\ ports = Project(listen) /\ ports # Rejected
    BY <1>2 DEF TypeOK, ListenerInv
  <2>2. QED
    BY <2>1, WizardListener
<1>3. QED
  BY <1>1, <1>2 DEF WizardAddsNothing

--------------------------------------------------------------------------
(* Types                                                                      *)

\* A projected listener is a set of ports (ListenPorts::project).
LEMMA ProjectType ==
    ASSUME NEW l \in ListenPorts, Project(l) # Rejected
    PROVE  Project(l) \subseteq Port
  <1>1. CASE l.ports = Unset /\ Unset \notin {l.start, l.end, l.suffix}
    <2>1. Project(l) = EndsIn(l.start, l.end, l.suffix) /\ RangeAllowed(l.start, l.end)
      BY <1>1 DEF Project, ProjectRange
    <2>2. l.start \in 1..MaxPort /\ l.end \in 2..(MaxPort + 1)
      BY <2>1 DEF RangeAllowed
    <2>3. l.start..(l.end - 1) \subseteq 0..MaxPort
      BY <2>2, PortsAssumption
    <2>4. QED
      BY <2>1, <2>3 DEF EndsIn, Port
  <1>2. CASE l.ports # Unset /\ {l.start, l.end, l.suffix} = {Unset}
    <2>1. Project(l) = Range(l.ports)
      BY <1>2 DEF Project, ProjectExplicit
    <2>2. l.ports \in Seq(Port)
      BY <1>2 DEF ListenPorts
    <2>3. QED
      BY <2>1, <2>2 DEF Range
  <1>3. CASE /\ ~ (l.ports = Unset /\ Unset \notin {l.start, l.end, l.suffix})
             /\ ~ (l.ports # Unset /\ {l.start, l.end, l.suffix} = {Unset})
    BY <1>3 DEF Project
  <1>4. QED
    BY <1>1, <1>2, <1>3

\* The wizard's listener is one the file may hold (wizard_listen_ports).
LEMMA ListenerType ==
    ASSUME NEW e \in Entry
    PROVE  Listener(e) \in ListenPorts \cup {Rejected}
  <1> DEFINE r == ParsePortRange(e.start, e.end, e.mode = "range")
  <1>1. ASSUME r # Rejected
        PROVE  /\ r = <<r[1], r[2]>>
               /\ r[1] \in 1..MaxPort /\ r[2] \in 2..MaxPort /\ r[1] <= r[2]
    <2>1. /\ e.start \in 1..MaxPort /\ e.start < e.end
          /\ e.end \in 2..(MaxPort + 1)
          /\ r = <<e.start, Lowest(e.end, MaxPort)>>
      BY <1>1, PortsAssumption DEF ParsePortRange
    <2>2. Lowest(e.end, MaxPort) \in 2..MaxPort /\ e.start <= Lowest(e.end, MaxPort)
      BY <2>1, PortsAssumption DEF Lowest
    <2>3. QED
      BY <2>1, <2>2
  <1>2. Unset \in Word \cup {Unset} /\ Unset \in Seq(Port) \cup {Unset}
    OBVIOUS
  <1>3. ASSUME NEW ps \in Seq(Port)
        PROVE  Explicit(ps) \in ListenPorts
    BY <1>2 DEF Explicit, ListenPorts
  <1>4. CASE e.mode = "single"
    <2>1. Listener(e) = IF e.start \in 1..MaxPort THEN Explicit(<<e.start>>) ELSE Rejected
      BY <1>4 DEF Listener
    <2>2. e.start \in 1..MaxPort => <<e.start>> \in Seq(Port)
      BY PortsAssumption DEF Port
    <2>3. QED
      BY <2>1, <2>2, <1>3
  <1>5. CASE e.mode = "range"
    <2>1. CASE r = Rejected
      BY <1>5, <2>1 DEF Listener
    <2>2. CASE r # Rejected
      <3> DEFINE ps == [i \in 1..(r[2] - r[1] + 1) |-> r[1] + i - 1]
      <3>1. Listener(e) = Explicit(ps)
        BY <1>5, <2>2 DEF Listener
      <3>2. r[1] \in 1..MaxPort /\ r[2] \in 2..MaxPort /\ r[1] <= r[2] /\ MaxPort \in Nat
        BY <1>1, <2>2, PortsAssumption
      <3>3. r[2] - r[1] + 1 \in Nat
        BY <3>2
      <3>4. \A i \in 1..(r[2] - r[1] + 1) : r[1] + i - 1 \in Port
        BY <3>2 DEF Port
      <3>5. ps \in Seq(Port)
        BY <3>3, <3>4
      <3>6. QED
        BY <3>1, <3>5, <1>3
    <2>3. QED
      BY <2>1, <2>2
  <1>6. CASE e.mode = "suffix"
    <2>1. CASE r = Rejected
      BY <1>6, <2>1 DEF Listener
    <2>2. CASE r # Rejected
      <3>1. Listener(e) = Suffixed(r[1], r[2], e.suffix)
        BY <1>6, <2>2 DEF Listener
      <3>2. r[1] \in Word /\ r[2] \in Word
        BY <1>1, <2>2, PortsAssumption DEF Word
      <3>3. e.suffix \in Word
        BY <1>6 DEF Entry
      <3>4. QED
        BY <3>1, <3>2, <3>3, <1>2 DEF Suffixed, ListenPorts
    <2>3. QED
      BY <2>1, <2>2
  <1>7. QED
    BY <1>4, <1>5, <1>6 DEF Entry

LEMMA PromptType ==
    ASSUME TypeOK, Next
    PROVE  TypeOK'
  <1>1. CASE WizardListenPorts
    <2>1. entry' \in Entry /\ ports' = ports
      BY <1>1 DEF WizardListenPorts
    <2>2. listen' \in {Listener(entry'), Rejected}
      BY <1>1 DEF WizardListenPorts
    <2>3. listen' \in ListenPorts \cup {Rejected}
      BY <2>1, <2>2, ListenerType
    <2>4. QED
      BY <2>1, <2>3 DEF TypeOK, Validated
  <1>2. CASE EditByHand
    BY <1>2, PortsAssumption DEF EditByHand, TypeOK, Validated
  <1>3. CASE ValidateProfile
    <2>1. listen \in ListenPorts /\ ports' = Project(listen) /\ UNCHANGED <<entry, listen>>
      BY <1>3 DEF ValidateProfile, TypeOK
    <2>2. Validated' => ports' \subseteq Port
      BY <2>1, ProjectType DEF Validated
    <2>3. QED
      BY <2>1, <2>2 DEF TypeOK
  <1>4. QED
    BY <1>1, <1>2, <1>3 DEF Next

--------------------------------------------------------------------------
(* Theorems                                                                   *)

\* The types of the listener's variables (Ports).
THEOREM PortsTyped == Spec => []TypeOK
  <1>1. Init => TypeOK
    BY DEF Init, TypeOK, Validated
  <1>2. TypeOK /\ [Next]_vars => TypeOK'
    BY PromptType DEF vars, TypeOK, Validated
  <1>3. QED
    BY <1>1, <1>2, PTL DEF Spec

\* The listener's invariant holds of every update.
THEOREM ListenerInvariant == Spec => [](TypeOK /\ ListenerInv)
<1>1. Init => ListenerInv
  BY DEF Init, ListenerInv
<1>2. TypeOK /\ ListenerInv /\ [Next]_vars => ListenerInv'
  BY PromptListener DEF vars, ListenerInv
<1>3. QED
  BY <1>1, <1>2, PortsTyped, PTL DEF Spec

\* A range listener stands for the ports of its right-open range written with its
\* suffix, and is rejected only if there are none (ListenPorts::project).
THEOREM SuffixMeansDigits == Spec => []ProjectionEndsInSuffix
BY ListenerInvariant, ListenerPromises, PTL

\* The wizard forwards no port that was not asked for, leaves out at most the highest
\* port, and writes nothing the daemon rejects (wizard_listen_ports, parse_port_range).
THEOREM WizardForwardsWhatIsAsked == Spec => []WizardAddsNothing
BY ListenerInvariant, ListenerPromises, PTL
==============================================================================
