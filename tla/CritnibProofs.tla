--------------------------- MODULE CritnibProofs ---------------------------
(***************************************************************************)
(* Proofs about Critnib: the trie is the map the calls promise, no node or *)
(* leaf is lost, and a lookup returns a value of its time.                 *)
(***************************************************************************)
EXTENDS Critnib, FiniteSetTheorems, WellFoundedInduction, NaturalsInduction, TLAPS

-----------------------------------------------------------------------------
(* Numbers and recursive functions *)

\* A set of naturals that is not empty has a least member: induction in the
\* form the provers can use.
LEMMA Least ==
  ASSUME NEW S, S \subseteq Nat, S # {}
  PROVE  \E x \in S : \A y \in S : x =< y
<1>1. IsWellFoundedOn(OpToRel(<, Nat), Nat)
  BY NatLessThanWellFounded
<1>2. PICK x \in S : \A y \in S : ~(<<y, x>> \in OpToRel(<, Nat))
  BY <1>1, WFMin
<1>3. \A y \in S : ~(y < x)
  BY <1>2 DEF OpToRel
<1> QED BY <1>3

\* f is the sequence of values of the recursion f[i] = F[f[i-1]] from a.
Iterates(f, D, a, F, N) ==
  /\ f \in [0..N -> D]
  /\ f[0] = a
  /\ \A i \in 1..N : f[i] = F[f[i - 1]]

\* Every recursion of this form has a solution.
LEMMA IterationExists ==
  ASSUME NEW D, NEW a \in D, NEW F \in [D -> D], NEW N \in Nat
  PROVE  \E f : Iterates(f, D, a, F, N)
<1> DEFINE Bad == {n \in Nat : ~\E f : Iterates(f, D, a, F, n)}
<1> SUFFICES ASSUME Bad # {} PROVE FALSE
  OBVIOUS
<1>1. PICK n \in Bad : \A m \in Bad : n =< m
  <2>1. Bad \subseteq Nat
    OBVIOUS
  <2> HIDE DEF Bad
  <2> QED BY <2>1, Least
<1>2. CASE n = 0
  <2> DEFINE f == [i \in 0..0 |-> a]
  <2>1. Iterates(f, D, a, F, 0)
    BY DEF Iterates
  <2> QED BY <1>2, <2>1
<1>3. CASE n # 0
  <2>1. n - 1 \in Nat /\ n - 1 \notin Bad /\ n \in Nat
    BY <1>1, <1>3
  <2>2. PICK f : Iterates(f, D, a, F, n - 1)
    BY <2>1
  <2> DEFINE g == [i \in 0..n |-> IF i = n THEN F[f[n - 1]] ELSE f[i]]
  <2>3. f \in [0..n - 1 -> D] /\ f[0] = a /\ \A i \in 1..n - 1 : f[i] = F[f[i - 1]]
    BY <2>2 DEF Iterates
  <2>4. g \in [0..n -> D]
    BY <2>1, <2>3
  <2>5. g[0] = a
    BY <2>1, <2>3, <1>3
  <2>6. ASSUME NEW i \in 1..n PROVE g[i] = F[g[i - 1]]
    <3>1. i \in 0..n /\ i - 1 \in 0..n /\ i - 1 # n
      BY <2>1
    <3>2. g[i - 1] = f[i - 1]
      BY <3>1
    <3>3. CASE i = n
      BY <3>1, <3>2, <3>3
    <3>4. CASE i # n
      <4>1. i \in 1..n - 1
        BY <2>1, <3>4
      <4> QED BY <4>1, <3>1, <3>2, <3>4, <2>3
    <3> QED BY <3>3, <3>4
  <2>7. Iterates(g, D, a, F, n)
    BY <2>4, <2>5, <2>6 DEF Iterates
  <2> QED BY <2>7
<1> QED BY <1>2, <1>3

\* Pow2 is what its definition says.
LEMMA Pow2Def ==
  /\ Pow2 \in [0..SLICE * Slices -> Nat]
  /\ Pow2[0] = 1
  /\ \A n \in 1..SLICE * Slices : Pow2[n] = 2 * Pow2[n - 1]
<1> DEFINE N == SLICE * Slices
           F == [x \in Nat |-> 2 * x]
           R(f) == [n \in 0..N |-> IF n = 0 THEN 1 ELSE 2 * f[n - 1]]
<1>1. N \in Nat
  BY SliceAssumption
<1>2. F \in [Nat -> Nat]
  OBVIOUS
<1> HIDE DEF N
<1>3. PICK f : Iterates(f, Nat, 1, F, N)
  <2> HIDE DEF F
  <2> QED BY <1>1, <1>2, IterationExists
<1>4. f \in [0..N -> Nat] /\ f[0] = 1 /\ \A n \in 1..N : f[n] = 2 * f[n - 1]
  <2>1. f \in [0..N -> Nat] /\ f[0] = 1 /\ \A n \in 1..N : f[n] = F[f[n - 1]]
    BY <1>3 DEF Iterates
  <2>2. ASSUME NEW n \in 1..N PROVE f[n] = 2 * f[n - 1]
    <3>1. n - 1 \in 0..N
      BY <1>1
    <3>2. f[n - 1] \in Nat
      BY <3>1, <2>1
    <3> QED BY <3>2, <2>1
  <2> QED BY <2>1, <2>2
<1>5. f = R(f)
  BY <1>1, <1>4
<1>6. Pow2 = CHOOSE g : g = R(g)
  BY DEF Pow2, N
<1>7. Pow2 = R(Pow2)
  <2> HIDE DEF R
  <2> QED BY <1>5, <1>6
<1>8. \A n \in 0..N : Pow2[n] = IF n = 0 THEN 1 ELSE 2 * Pow2[n - 1]
  BY <1>7
<1>9. DOMAIN Pow2 = 0..N /\ Pow2 = [n \in 0..N |-> Pow2[n]]
  BY <1>7
<1>10. \A n \in 0..N : Pow2[n] \in Nat
  <2> DEFINE Bad == {n \in 0..N : Pow2[n] \notin Nat}
  <2> SUFFICES ASSUME Bad # {} PROVE FALSE
    OBVIOUS
  <2>1. PICK n \in Bad : \A m \in Bad : n =< m
    <3>1. Bad \subseteq Nat
      BY <1>1
    <3> HIDE DEF Bad
    <3> QED BY <3>1, Least
  <2>2. n # 0 /\ n \in 0..N
    BY <1>8, <2>1
  <2>3. n - 1 \in 0..N /\ n - 1 \notin Bad
    BY <2>1, <2>2, <1>1
  <2> QED BY <2>1, <2>2, <2>3, <1>8
<1>11. Pow2 \in [0..N -> Nat]
  BY <1>9, <1>10
<1>12. Pow2[0] = 1 /\ \A n \in 1..N : Pow2[n] = 2 * Pow2[n - 1]
  BY <1>1, <1>8
<1> QED BY <1>11, <1>12 DEF N

\* Powers of two multiply.
LEMMA Pow2Add ==
  ASSUME NEW a \in Nat, NEW b \in Nat, a + b =< SLICE * Slices
  PROVE  Pow2[a + b] = Pow2[a] * Pow2[b]
<1> DEFINE N == SLICE * Slices
           Bad == {n \in Nat : a + n =< N /\ Pow2[a + n] # Pow2[a] * Pow2[n]}
<1>1. N \in Nat
  BY SliceAssumption
<1>2. Pow2 \in [0..N -> Nat] /\ Pow2[0] = 1 /\ \A n \in 1..N : Pow2[n] = 2 * Pow2[n - 1]
  BY Pow2Def
<1> HIDE DEF N
<1> SUFFICES ASSUME Bad # {} PROVE FALSE
  BY DEF N
<1>3. PICK n \in Bad : \A m \in Bad : n =< m
  <2>1. Bad \subseteq Nat
    OBVIOUS
  <2> HIDE DEF Bad
  <2> QED BY <2>1, Least
<1>4. n \in Nat /\ a + n =< N /\ Pow2[a + n] # Pow2[a] * Pow2[n]
  BY Zenon
<1>5. Pow2[a] \in Nat /\ Pow2[n] \in Nat
  <2>1. n \in Nat /\ a + n =< N
    BY <1>4
  <2> HIDE DEF Bad
  <2>2. a \in 0..N /\ n \in 0..N
    BY <1>1, <2>1
  <2>3. Pow2 \in [0..N -> Nat]
    BY <1>2
  <2> QED BY <2>2, <2>3
<1>6. n # 0
  BY <1>2, <1>4, <1>5
<1>7. n - 1 \in Nat /\ n - 1 \notin Bad
  BY <1>3, <1>4, <1>6
<1>8. Pow2[a + (n - 1)] = Pow2[a] * Pow2[n - 1]
  BY <1>1, <1>4, <1>7
<1>9. Pow2[a + n] = 2 * Pow2[a + (n - 1)]
  <2>1. a + n \in 1..N /\ (a + n) - 1 = a + (n - 1)
    BY <1>1, <1>4, <1>6
  <2> QED BY <1>2, <2>1
<1>10. Pow2[n] = 2 * Pow2[n - 1] /\ Pow2[n - 1] \in Nat
  BY <1>1, <1>2, <1>4, <1>6
<1>11. ASSUME NEW x \in Nat, NEW y \in Nat PROVE 2 * (x * y) = x * (2 * y)
  OBVIOUS
<1> QED BY <1>4, <1>5, <1>8, <1>9, <1>10, <1>11

\* The weight of slice i of a key, and the key from slice i upwards.
Unit(i) == Pow2[SLICE * i]
High(x, i) == x \div Unit(i)

\* Multiples of SLICE.
LEMMA SliceBound ==
  ASSUME NEW i \in 0..Slices
  PROVE  /\ SLICE * i \in 0..SLICE * Slices
         /\ SLICE * i + SLICE = SLICE * (i + 1)
<1>1. ASSUME NEW a \in Nat, NEW b \in Nat, NEW c \in Nat, b =< c PROVE a * b =< a * c
  <2>1. PICK d \in Nat : c = b + d
    <3>1. c - b \in Nat /\ c = b + (c - b)
      BY <1>1
    <3> QED BY <3>1
  <2>2. a * c = a * b + a * d /\ a * b \in Nat /\ a * d \in Nat
    BY <2>1
  <2> QED BY <2>2
<1>2. i \in Nat /\ i =< Slices /\ SLICE \in Nat /\ Slices \in Nat
  BY SliceAssumption
<1>3. SLICE * i =< SLICE * Slices /\ SLICE * i \in Nat /\ SLICE * Slices \in Nat
  BY <1>1, <1>2
<1> QED BY <1>2, <1>3

\* Every unit is SLNODES times the one below.
LEMMA UnitFacts ==
  /\ SLNODES \in Nat \ {0}
  /\ Unit(0) = 1
  /\ \A i \in 0..Slices : Unit(i) \in Nat \ {0}
  /\ \A i \in 0..Slices - 1 : Unit(i + 1) = Unit(i) * SLNODES
<1> DEFINE N == SLICE * Slices
<1>1. N \in Nat
  BY SliceAssumption
<1>2. Pow2 \in [0..N -> Nat] /\ Pow2[0] = 1 /\ \A n \in 1..N : Pow2[n] = 2 * Pow2[n - 1]
  BY Pow2Def
<1>3. \A i \in 0..Slices : SLICE * i \in 0..N
  BY SliceBound
<1> HIDE DEF N
<1>4. \A n \in 0..N : Pow2[n] \in Nat \ {0}
  <2> DEFINE Bad == {n \in 0..N : Pow2[n] \notin Nat \ {0}}
  <2> SUFFICES ASSUME Bad # {} PROVE FALSE
    OBVIOUS
  <2>1. PICK n \in Bad : \A m \in Bad : n =< m
    <3>1. Bad \subseteq Nat
      BY <1>1
    <3> HIDE DEF Bad
    <3> QED BY <3>1, Least
  <2>2. n # 0 /\ n \in 0..N
    BY <1>2, <2>1
  <2>3. n - 1 \in 0..N /\ n - 1 \notin Bad
    BY <2>1, <2>2, <1>1
  <2> QED BY <2>1, <2>2, <2>3, <1>2
<1>5. SLICE * 1 = SLICE /\ SLICE * 0 = 0 /\ 1 \in 0..Slices /\ 0 \in 0..Slices
  BY SliceAssumption
<1>6. SLNODES \in Nat \ {0}
  BY <1>3, <1>4, <1>5 DEF SLNODES
<1>7. Unit(0) = 1
  BY <1>2, <1>5 DEF Unit
<1>8. \A i \in 0..Slices : Unit(i) \in Nat \ {0}
  BY <1>3, <1>4 DEF Unit
<1>9. ASSUME NEW i \in 0..Slices - 1 PROVE Unit(i + 1) = Unit(i) * SLNODES
  <2>1. i \in 0..Slices /\ i + 1 \in 0..Slices
    BY SliceAssumption
  <2>2. SLICE * i \in Nat /\ SLICE * i + SLICE = SLICE * (i + 1) /\ SLICE * i + SLICE =< SLICE * Slices
    BY <2>1, SliceBound
  <2>3. SLICE \in Nat
    BY SliceAssumption
  <2>4. Pow2[SLICE * i + SLICE] = Pow2[SLICE * i] * Pow2[SLICE]
    BY <2>2, <2>3, Pow2Add
  <2> QED BY <2>2, <2>4 DEF Unit, SLNODES
<1> QED BY <1>6, <1>7, <1>8, <1>9

\* Division with remainder.
LEMMA Euclid ==
  ASSUME NEW a \in Nat, NEW b \in Nat \ {0}
  PROVE  a \div b \in Nat /\ a % b \in 0..b - 1 /\ a % b = a - (a \div b) * b
OBVIOUS

\* The quotient is the only one.
LEMMA Quotient ==
  ASSUME NEW a \in Nat, NEW b \in Nat \ {0}, NEW t \in Nat, NEW r \in 0..b - 1, a = b * t + r
  PROVE  a \div b = t
<1>1. PICK p \in Nat : p = a \div b /\ b * p =< a /\ a < b * p + b
  <2>1. a \div b \in Nat /\ a % b \in 0..b - 1 /\ a % b = a - (a \div b) * b
    BY Euclid
  <2>2. PICK p \in Nat : p = a \div b
    BY <2>1
  <2>3. p * b = b * p /\ b * p \in Nat
    BY <2>2
  <2> QED BY <2>1, <2>2, <2>3
<1>2. ASSUME NEW u \in Nat, NEW v \in Nat, u < v PROVE b * u + b =< b * v
  <2>1. PICK d \in Nat : v = (u + 1) + d
    <3>1. v - (u + 1) \in Nat /\ v = (u + 1) + (v - (u + 1))
      BY <1>2
    <3> QED BY <3>1
  <2>2. b * v = (b * u + b) + b * d /\ b * d \in Nat /\ b * u \in Nat
    BY <2>1
  <2> QED BY <2>2
<1>3. b * t \in Nat /\ b * t =< a /\ a < b * t + b
  OBVIOUS
<1>4. b * p \in Nat
  BY <1>1
<1>5. /\ p < t => b * p + b =< b * t
      /\ t < p => b * t + b =< b * p
  BY <1>1, <1>2
<1>6. ~(p < t) /\ ~(t < p)
  <2>1. PICK bp \in Nat, bt \in Nat : bp = b * p /\ bt = b * t
    BY <1>3, <1>4
  <2> QED BY <2>1, <1>1, <1>3, <1>5
<1> QED BY <1>1, <1>6

LEMMA DivDiv ==
  ASSUME NEW a \in Nat, NEW b \in Nat \ {0}, NEW c \in Nat \ {0}
  PROVE  (a \div b) \div c = a \div (b * c)
OBVIOUS

\* The slices of a key and what is above them, by the number of the slice.
LEMMA HighFacts ==
  ASSUME NEW x \in Nat
  PROVE  /\ High(x, 0) = x
         /\ \A i \in 0..Slices : High(x, i) \in Nat
         /\ \A i \in 0..Slices - 1 :
              /\ High(x, i + 1) = High(x, i) \div SLNODES
              /\ slice_index(x, SLICE * i) = High(x, i) % SLNODES
              /\ slice_index(x, SLICE * i) \in Nibs
              /\ Above(x, SLICE * i) = High(x, i + 1) * Unit(i + 1)
              /\ Above(x, SLICE * i) \in Nat /\ Above(x, SLICE * i) =< x
<1>1. High(x, 0) = x
  BY UnitFacts DEF High
<1>2. \A i \in 0..Slices : High(x, i) \in Nat
  BY UnitFacts, Euclid DEF High
<1>3. ASSUME NEW i \in 0..Slices - 1
      PROVE  /\ High(x, i + 1) = High(x, i) \div SLNODES
             /\ slice_index(x, SLICE * i) = High(x, i) % SLNODES
             /\ slice_index(x, SLICE * i) \in Nibs
             /\ Above(x, SLICE * i) = High(x, i + 1) * Unit(i + 1)
             /\ Above(x, SLICE * i) \in Nat /\ Above(x, SLICE * i) =< x
  <2>1. i \in 0..Slices /\ i + 1 \in 0..Slices
    BY SliceAssumption
  <2>2. Unit(i) \in Nat \ {0} /\ Unit(i + 1) \in Nat \ {0} /\ Unit(i + 1) = Unit(i) * SLNODES
        /\ SLNODES \in Nat \ {0}
    BY <2>1, UnitFacts
  <2>3. High(x, i + 1) = High(x, i) \div SLNODES
    BY <2>2, DivDiv DEF High
  <2>4. slice_index(x, SLICE * i) = High(x, i) % SLNODES
    BY DEF slice_index, High, Unit
  <2>5. High(x, i) % SLNODES \in 0..SLNODES - 1
    BY <1>2, <2>1, <2>2, Euclid
  <2>6. SLICE * i + SLICE = SLICE * (i + 1)
    BY <2>1, SliceBound
  <2>7. Above(x, SLICE * i) = x - (x % Unit(i + 1))
    BY <2>6 DEF Above, Unit
  <2>8. /\ x % Unit(i + 1) \in 0..Unit(i + 1) - 1
        /\ x % Unit(i + 1) = x - High(x, i + 1) * Unit(i + 1)
        /\ High(x, i + 1) \in Nat
    BY <2>2, Euclid DEF High
  <2>9. High(x, i + 1) * Unit(i + 1) \in Nat
    BY <2>2, <2>8
  <2>10. Above(x, SLICE * i) = High(x, i + 1) * Unit(i + 1)
    BY <2>7, <2>8, <2>9
  <2>11. Above(x, SLICE * i) =< x
    BY <2>2, <2>7, <2>8
  <2> QED BY <2>3, <2>4, <2>5, <2>9, <2>10, <2>11 DEF Nibs
<1> QED BY <1>1, <1>2, <1>3

\* Keys are below the weight of the slice after the last.
LEMMA MaxKeyFact == MaxKey \in Nat /\ \A x \in 0..MaxKey : High(x, Slices) = 0
<1>1. Slices \in 0..Slices
  BY SliceAssumption
<1>2. Unit(Slices) \in Nat \ {0} /\ MaxKey = Unit(Slices) - 1
  BY <1>1, UnitFacts DEF MaxKey, Unit
<1>3. ASSUME NEW x \in 0..MaxKey PROVE High(x, Slices) = 0
  <2>1. x \in Nat /\ x \in 0..Unit(Slices) - 1 /\ x = Unit(Slices) * 0 + x
    BY <1>2
  <2> QED BY <1>2, <2>1, Quotient DEF High
<1> QED BY <1>2, <1>3

\* Two keys that agree in the slices from i upwards.
LEMMA SlicesAgree ==
  ASSUME NEW x \in 0..MaxKey, NEW y \in 0..MaxKey, NEW i \in 0..Slices,
         \A j \in i..Slices - 1 : slice_index(x, SLICE * j) = slice_index(y, SLICE * j)
  PROVE  High(x, i) = High(y, i)
<1> DEFINE Bad == {d \in Nat : d =< Slices - i /\ High(x, Slices - d) # High(y, Slices - d)}
<1>1. x \in Nat /\ y \in Nat
  BY MaxKeyFact
<1> SUFFICES ASSUME High(x, i) # High(y, i) PROVE FALSE
  OBVIOUS
<1>2. Slices - i \in Bad
  <2>1. Slices - i \in Nat /\ Slices - (Slices - i) = i
    BY SliceAssumption
  <2> QED BY <2>1
<1>3. PICK d \in Bad : \A m \in Bad : d =< m
  <2>1. Bad \subseteq Nat
    OBVIOUS
  <2> HIDE DEF Bad
  <2> QED BY <1>2, <2>1, Least
<1>4. d \in Nat /\ d =< Slices - i /\ High(x, Slices - d) # High(y, Slices - d)
  BY <1>3
<1>5. d # 0
  BY <1>4, MaxKeyFact, SliceAssumption
<1>6. d - 1 \in Nat /\ d - 1 \notin Bad
  BY <1>3, <1>4, <1>5
<1> DEFINE j == Slices - d
<1>7. j \in 0..Slices - 1 /\ j \in i..Slices - 1 /\ j + 1 = Slices - (d - 1)
  BY <1>4, <1>5, SliceAssumption
<1>8. High(x, j + 1) = High(y, j + 1)
  BY <1>4, <1>6, <1>7, SliceAssumption
<1>9. /\ High(x, j) \in Nat /\ High(y, j) \in Nat
      /\ High(x, j + 1) = High(x, j) \div SLNODES /\ High(y, j + 1) = High(y, j) \div SLNODES
      /\ High(x, j) % SLNODES = High(y, j) % SLNODES
  <2>1. j \in 0..Slices
    BY <1>7, SliceAssumption
  <2>2. slice_index(x, SLICE * j) = slice_index(y, SLICE * j)
    BY <1>7
  <2> QED BY <1>1, <1>7, <2>1, <2>2, HighFacts
<1>10. ASSUME NEW a \in Nat, NEW b \in Nat, a \div SLNODES = b \div SLNODES, a % SLNODES = b % SLNODES
       PROVE  a = b
  <2>1. SLNODES \in Nat \ {0}
    BY UnitFacts
  <2>2. /\ a \div SLNODES \in Nat /\ a % SLNODES \in Nat /\ a % SLNODES = a - (a \div SLNODES) * SLNODES
        /\ b \div SLNODES \in Nat /\ b % SLNODES \in Nat /\ b % SLNODES = b - (b \div SLNODES) * SLNODES
    <3>1. /\ a \div SLNODES \in Nat /\ a % SLNODES \in 0..SLNODES - 1
          /\ a % SLNODES = a - (a \div SLNODES) * SLNODES
      BY <2>1, Euclid
    <3>2. /\ b \div SLNODES \in Nat /\ b % SLNODES \in 0..SLNODES - 1
          /\ b % SLNODES = b - (b \div SLNODES) * SLNODES
      BY <2>1, Euclid
    <3> QED BY <3>1, <3>2, <2>1
  <2>3. (a \div SLNODES) * SLNODES \in Nat /\ (a \div SLNODES) * SLNODES = (b \div SLNODES) * SLNODES
    BY <2>1, <2>2, <1>10
  <2> QED BY <2>2, <2>3, <1>10
<1> QED BY <1>4, <1>8, <1>9, <1>10

\* What is above slice i of a key has the slices above i.
LEMMA HighOfAbove ==
  ASSUME NEW x \in Nat, NEW i \in 0..Slices - 1, NEW j \in i + 1..Slices
  PROVE  High(Above(x, SLICE * i), j) = High(x, j)
<1> DEFINE a == Above(x, SLICE * i)
           Bad == {n \in Nat : n >= i + 1 /\ n =< Slices /\ High(a, n) # High(x, n)}
<1>1. a \in Nat /\ a = High(x, i + 1) * Unit(i + 1)
  BY HighFacts
<1> HIDE DEF a
<1>2. High(a, i + 1) = High(x, i + 1)
  <2>1. i + 1 \in 0..Slices
    BY SliceAssumption
  <2>2. Unit(i + 1) \in Nat \ {0} /\ High(x, i + 1) \in Nat
    BY <2>1, UnitFacts, HighFacts
  <2>3. a = Unit(i + 1) * High(x, i + 1) + 0 /\ 0 \in 0..Unit(i + 1) - 1
    BY <1>1, <2>2
  <2>4. a \div Unit(i + 1) = High(x, i + 1)
    BY <1>1, <2>2, <2>3, Quotient
  <2> QED BY <2>4 DEF High
<1> SUFFICES ASSUME High(a, j) # High(x, j) PROVE FALSE
  BY DEF a
<1>3. j \in Bad
  BY SliceAssumption
<1>4. PICK n \in Bad : \A m \in Bad : n =< m
  <2>1. Bad \subseteq Nat
    OBVIOUS
  <2> HIDE DEF Bad
  <2> QED BY <1>3, <2>1, Least
<1>5. n \in Nat /\ n >= i + 1 /\ n =< Slices /\ High(a, n) # High(x, n)
  BY <1>4
<1>6. n # i + 1
  BY <1>2, <1>5
<1>7. n - 1 \in Nat /\ n - 1 \notin Bad /\ n - 1 >= i + 1 /\ n - 1 =< Slices
  BY <1>4, <1>5, <1>6, SliceAssumption
<1>8. High(a, n - 1) = High(x, n - 1)
  BY <1>7
<1>9. n - 1 \in 0..Slices - 1 /\ (n - 1) + 1 = n
  BY <1>5, <1>6, SliceAssumption
<1>10. High(a, (n - 1) + 1) = High(a, n - 1) \div SLNODES /\ High(x, (n - 1) + 1) = High(x, n - 1) \div SLNODES
  BY <1>1, <1>9, HighFacts
<1> QED BY <1>5, <1>8, <1>9, <1>10

-----------------------------------------------------------------------------
(* Slices of keys, by their shift *)

\* The number of the slice at a shift.
Level(s) == CHOOSE i \in 0..Slices - 1 : s = SLICE * i

LEMMA LevelFacts ==
  /\ \A s \in Shifts : s \in Nat /\ Level(s) \in 0..Slices - 1 /\ s = SLICE * Level(s)
  /\ \A s, t \in Shifts : s < t => Level(s) < Level(t)
  /\ \A s, t \in Shifts : s = t \/ s < t \/ t < s
  /\ \A i \in 0..Slices - 1 : SLICE * i \in Shifts
  /\ 0 \in Shifts
<1>1. ASSUME NEW s \in Shifts PROVE s \in Nat /\ Level(s) \in 0..Slices - 1 /\ s = SLICE * Level(s)
  <2>1. \E i \in 0..Slices - 1 : s = SLICE * i
    BY DEF Shifts
  <2>2. Level(s) \in 0..Slices - 1 /\ s = SLICE * Level(s)
    BY <2>1 DEF Level
  <2> QED BY <2>2, SliceAssumption
<1>2. ASSUME NEW s \in Shifts, NEW t \in Shifts, s < t PROVE Level(s) < Level(t)
  <2>1. PICK i \in Nat, j \in Nat : i = Level(s) /\ j = Level(t) /\ s = SLICE * i /\ t = SLICE * j
    BY <1>1
  <2>2. ASSUME j =< i PROVE FALSE
    <3>1. PICK d \in Nat : i = j + d
      <4>1. i - j \in Nat /\ i = j + (i - j)
        BY <2>2
      <4> QED BY <4>1
    <3>2. SLICE * i = SLICE * j + SLICE * d /\ SLICE * d \in Nat /\ SLICE * j \in Nat
      BY <3>1, SliceAssumption
    <3> QED BY <3>2, <2>1, <1>2
  <2> QED BY <2>1, <2>2
<1>3. \A s, t \in Shifts : s = t \/ s < t \/ t < s
  BY <1>1
<1>4. \A i \in 0..Slices - 1 : SLICE * i \in Shifts
  BY DEF Shifts
<1>5. 0 \in 0..Slices - 1 /\ SLICE * 0 = 0
  BY SliceAssumption
<1> QED BY <1>1, <1>2, <1>3, <1>4, <1>5

\* slice_index is an index of a node's children, and the part of a key above
\* a slice is a key.
LEMMA SliceType ==
  ASSUME NEW x \in 0..MaxKey, NEW s \in Shifts
  PROVE  slice_index(x, s) \in Nibs /\ Above(x, s) \in 0..MaxKey
<1>1. PICK i \in 0..Slices - 1 : s = SLICE * i
  BY DEF Shifts
<1>2. x \in Nat /\ MaxKey \in Nat
  BY MaxKeyFact
<1>3. slice_index(x, SLICE * i) \in Nibs /\ Above(x, SLICE * i) \in Nat /\ Above(x, SLICE * i) =< x
  BY <1>1, <1>2, HighFacts
<1> QED BY <1>1, <1>2, <1>3

\* Taking what is above a lower slice first changes nothing above.
LEMMA AboveAbove ==
  ASSUME NEW x \in 0..MaxKey, NEW s \in Shifts, NEW t \in Shifts, s =< t
  PROVE  Above(Above(x, s), t) = Above(x, t)
<1>1. PICK i, j : i = Level(s) /\ j = Level(t)
  OBVIOUS
<1>2. i \in 0..Slices - 1 /\ j \in 0..Slices - 1 /\ s = SLICE * i /\ t = SLICE * j
  BY <1>1, LevelFacts
<1>3. i =< j
  <2>1. s \in Nat /\ t \in Nat /\ (s = t \/ s < t)
    BY LevelFacts
  <2> QED BY <1>1, <1>2, <2>1, LevelFacts
<1>4. x \in Nat
  BY MaxKeyFact
<1>5. PICK a \in Nat : a = Above(x, SLICE * i)
  BY <1>2, <1>4, HighFacts
<1>6. Above(a, SLICE * j) = High(a, j + 1) * Unit(j + 1)
  BY <1>2, <1>5, HighFacts
<1>7. Above(x, SLICE * j) = High(x, j + 1) * Unit(j + 1)
  BY <1>2, <1>4, HighFacts
<1>8. High(Above(x, SLICE * i), j + 1) = High(x, j + 1)
  <2>1. j + 1 \in i + 1..Slices
    BY <1>2, <1>3, SliceAssumption
  <2> QED BY <2>1, <1>2, <1>4, HighOfAbove
<1> QED BY <1>2, <1>5, <1>6, <1>7, <1>8

\* A slice above is a slice of what is above.
LEMMA SliceOfAbove ==
  ASSUME NEW x \in 0..MaxKey, NEW s \in Shifts, NEW t \in Shifts, s < t
  PROVE  slice_index(Above(x, s), t) = slice_index(x, t)
<1>1. PICK i, j : i = Level(s) /\ j = Level(t)
  OBVIOUS
<1>2. i \in 0..Slices - 1 /\ j \in 0..Slices - 1 /\ s = SLICE * i /\ t = SLICE * j /\ i < j
  BY <1>1, LevelFacts
<1>3. x \in Nat
  BY MaxKeyFact
<1>4. PICK a \in Nat : a = Above(x, SLICE * i)
  BY <1>2, <1>3, HighFacts
<1>5. slice_index(a, SLICE * j) = High(a, j) % SLNODES
  BY <1>2, <1>4, HighFacts
<1>6. slice_index(x, SLICE * j) = High(x, j) % SLNODES
  BY <1>2, <1>3, HighFacts
<1>7. High(Above(x, SLICE * i), j) = High(x, j)
  <2>1. j \in i + 1..Slices
    BY <1>2, SliceAssumption
  <2> QED BY <2>1, <1>2, <1>3, HighOfAbove
<1> QED BY <1>2, <1>4, <1>5, <1>6, <1>7

\* Keys with the same slices above a shift agree above it.
LEMMA AboveAgrees ==
  ASSUME NEW x \in 0..MaxKey, NEW y \in 0..MaxKey, NEW s \in Shifts,
         \A u \in Shifts : u > s => slice_index(x, u) = slice_index(y, u)
  PROVE  Above(x, s) = Above(y, s)
<1>1. PICK i : i = Level(s)
  OBVIOUS
<1>2. i \in 0..Slices - 1 /\ s = SLICE * i /\ s \in Nat
  BY <1>1, LevelFacts
<1>3. ASSUME NEW j \in i + 1..Slices - 1 PROVE slice_index(x, SLICE * j) = slice_index(y, SLICE * j)
  <2>1. j \in 0..Slices - 1 /\ j \in Nat /\ i \in Nat /\ i < j
    BY <1>2, SliceAssumption
  <2>2. SLICE * j \in Shifts
    BY <2>1, LevelFacts
  <2>3. SLICE * j > SLICE * i
    <3>1. PICK d \in Nat : j = (i + 1) + d
      <4>1. j - (i + 1) \in Nat /\ j = (i + 1) + (j - (i + 1))
        BY <2>1
      <4> QED BY <4>1
    <3>2. SLICE * j = (SLICE * i + SLICE) + SLICE * d /\ SLICE * d \in Nat /\ SLICE * i \in Nat
      BY <2>1, <3>1, SliceAssumption
    <3> QED BY <3>2, SliceAssumption
  <2> QED BY <1>2, <2>2, <2>3
<1>4. High(x, i + 1) = High(y, i + 1)
  <2>1. i + 1 \in 0..Slices
    BY <1>2, SliceAssumption
  <2> QED BY <1>3, <2>1, SlicesAgree
<1>5. x \in Nat /\ y \in Nat
  BY MaxKeyFact
<1>6. Above(x, SLICE * i) = High(x, i + 1) * Unit(i + 1) /\ Above(y, SLICE * i) = High(y, i + 1) * Unit(i + 1)
  BY <1>2, <1>5, HighFacts
<1> QED BY <1>2, <1>4, <1>6

\* Two keys that differ have a highest slice where they differ: util_mssb_index
\* finds it.
LEMMA CriticalShiftFacts ==
  ASSUME NEW x \in 0..MaxKey, NEW y \in 0..MaxKey, x # y
  PROVE  /\ CriticalShift(x, y) \in Shifts
         /\ slice_index(x, CriticalShift(x, y)) # slice_index(y, CriticalShift(x, y))
         /\ \A u \in Shifts : u > CriticalShift(x, y) => slice_index(x, u) = slice_index(y, u)
<1> DEFINE Differ == {d \in Nat : /\ d =< Slices - 1
                                  /\ slice_index(x, SLICE * (Slices - 1 - d))
                                       # slice_index(y, SLICE * (Slices - 1 - d))}
<1>1. Differ # {}
  <2> SUFFICES ASSUME Differ = {} PROVE FALSE
    OBVIOUS
  <2>1. ASSUME NEW j \in 0..Slices - 1 PROVE slice_index(x, SLICE * j) = slice_index(y, SLICE * j)
    <3>1. Slices - 1 - j \in Nat /\ Slices - 1 - j =< Slices - 1 /\ Slices - 1 - (Slices - 1 - j) = j
      BY SliceAssumption
    <3> QED BY <3>1
  <2>2. 0 \in 0..Slices
    BY SliceAssumption
  <2>3. High(x, 0) = High(y, 0)
    BY <2>1, <2>2, SlicesAgree
  <2>4. x \in Nat /\ y \in Nat
    BY MaxKeyFact
  <2>5. High(x, 0) = x /\ High(y, 0) = y
    BY <2>4, HighFacts
  <2> QED BY <2>3, <2>5
<1>2. PICK d \in Differ : \A m \in Differ : d =< m
  <2>1. Differ \subseteq Nat
    OBVIOUS
  <2> HIDE DEF Differ
  <2> QED BY <1>1, <2>1, Least
<1>3. PICK i \in 0..Slices - 1 : i = Slices - 1 - d
  BY <1>2, SliceAssumption
<1>4. SLICE * i \in Shifts /\ slice_index(x, SLICE * i) # slice_index(y, SLICE * i)
  BY <1>2, <1>3, LevelFacts
<1>5. ASSUME NEW u \in Shifts, u > SLICE * i, slice_index(x, u) # slice_index(y, u) PROVE FALSE
  <2>1. PICK j : j = Level(u)
    OBVIOUS
  <2>2. j \in 0..Slices - 1 /\ u = SLICE * j
    BY <2>1, LevelFacts
  <2>3. ASSUME j =< i PROVE FALSE
    <3>1. PICK e \in Nat : i = j + e
      <4>1. i - j \in Nat /\ i = j + (i - j)
        BY <2>2, <2>3, SliceAssumption
      <4> QED BY <4>1
    <3>2. SLICE * i = SLICE * j + SLICE * e /\ SLICE * e \in Nat /\ SLICE * j \in Nat
      BY <2>2, <3>1, SliceAssumption
    <3> QED BY <3>2, <2>2, <1>5
  <2>4. Slices - 1 - j \in Nat /\ Slices - 1 - j =< Slices - 1 /\ Slices - 1 - (Slices - 1 - j) = j
        /\ Slices - 1 - j < d
    BY <1>2, <1>3, <2>2, <2>3, SliceAssumption
  <2>5. Slices - 1 - j \in Differ
    BY <1>5, <2>2, <2>4
  <2> QED BY <1>2, <2>4, <2>5
<1>6. \E s \in Shifts : /\ slice_index(x, s) # slice_index(y, s)
                        /\ \A u \in Shifts : u > s => slice_index(x, u) = slice_index(y, u)
  BY <1>4, <1>5
<1> QED BY <1>6 DEF CriticalShift

-----------------------------------------------------------------------------
(* The trie as a data structure: the operators below take the root r, the   *)
(* nodes nd and the leaves lf as parameters.                                *)

Ptr == {NULL} \cup NodeIds \cup LeafIds
NodeType == [child : [Nibs -> Ptr], path : 0..MaxKey, shift : Shifts]
LeafType == [key : 0..MaxKey, value : Nat]
PathType(nd) == \A n \in NodeIds : Above(nd[n].path, nd[n].shift) = nd[n].path
StoreType(r, nd, lf) ==
  /\ r \in Ptr /\ nd \in [NodeIds -> NodeType] /\ lf \in [LeafIds -> LeafType]
  /\ PathType(nd)

\* The places that hold pointers, when T is what hangs below the root.
Slots(T) == {RootSlot} \cup ((T \cap NodeIds) \X Nibs)
AtIn(r, nd, s) == IF s = RootSlot THEN r ELSE nd[s[1]].child[s[2]]

\* The key of a leaf, or the part of a key that all below a node share.
KeyIn(nd, lf, x) == IF is_leaf(x) THEN lf[x].key ELSE nd[x].path

\* x may be child j of n: its keys have the path of n and slice j at n's shift.
Fits(nd, lf, n, j, x) ==
  x # NULL => /\ x \in NodeIds => nd[x].shift < nd[n].shift
              /\ Above(KeyIn(nd, lf, x), nd[n].shift) = nd[n].path
              /\ slice_index(KeyIn(nd, lf, x), nd[n].shift) = j

\* T is a tree: its elements are what its slots hold, each in one slot, and
\* each where its key belongs.
Tree(T, r, nd, lf) ==
  /\ T \subseteq NodeIds \cup LeafIds
  /\ \A s \in Slots(T) : AtIn(r, nd, s) \in T \cup {NULL}
  /\ \A x \in T : \E s \in Slots(T) : AtIn(r, nd, s) = x
  /\ \A s, t \in Slots(T) : AtIn(r, nd, s) = AtIn(r, nd, t) /\ AtIn(r, nd, s) # NULL => s = t
  /\ \A n \in T \cap NodeIds, j \in Nibs : Fits(nd, lf, n, j, nd[n].child[j])

\* Nodes and leaves are told apart by their number.
LEMMA Kinds ==
  /\ \A n \in NodeIds : n # NULL /\ ~is_leaf(n) /\ n \notin LeafIds
  /\ \A k \in LeafIds : k # NULL /\ is_leaf(k) /\ k \notin NodeIds
  /\ ~is_leaf(NULL) /\ NULL \notin NodeIds /\ NULL \notin LeafIds
  /\ RootSlot = <<NULL, 0>>
BY ElementAssumption DEF NodeIds, LeafIds, is_leaf, NULL, RootSlot

\* What a slot is.
LEMMA SlotCases ==
  ASSUME NEW T, NEW s \in Slots(T), s # RootSlot
  PROVE  /\ s = <<s[1], s[2]>> /\ s[1] \in T \cap NodeIds /\ s[2] \in Nibs
BY DEF Slots

LEMMA NodeSlot ==
  ASSUME NEW T, NEW n \in T \cap NodeIds, NEW j \in Nibs, NEW r, NEW nd
  PROVE  <<n, j>> \in Slots(T) /\ <<n, j>> # RootSlot /\ AtIn(r, nd, <<n, j>>) = nd[n].child[j]
BY Kinds DEF Slots, AtIn

\* y lies on the path of a key: it is the leaf k, or a node all of whose keys
\* share the part above its slice with it.
OnPath(T, nd, key, k) ==
  {k} \cup {n \in T \cap NodeIds : Above(key, nd[n].shift) = nd[n].path}

\* The parent of what lies on the path of a key does so too, and the slice of
\* the key leads back to the child.
LEMMA ParentOnPath ==
  ASSUME NEW T, NEW r, NEW nd, NEW lf, StoreType(r, nd, lf), Tree(T, r, nd, lf),
         NEW k \in T \cap LeafIds, NEW key, key = lf[k].key,
         NEW n \in T \cap NodeIds, NEW j \in Nibs,
         nd[n].child[j] \in OnPath(T, nd, key, k)
  PROVE  n \in OnPath(T, nd, key, k) /\ slice_index(key, nd[n].shift) = j
<1>1. PICK y : y = nd[n].child[j]
  OBVIOUS
<1>2. Fits(nd, lf, n, j, y)
  BY <1>1 DEF Tree
<1>3. nd[n] \in NodeType /\ lf[k] \in LeafType
  BY DEF StoreType
<1>4. key \in 0..MaxKey /\ nd[n].shift \in Shifts
  BY <1>3 DEF NodeType, LeafType
<1>5. CASE y = k
  <2>1. Above(key, nd[n].shift) = nd[n].path /\ slice_index(key, nd[n].shift) = j
    BY <1>2, <1>5, Kinds DEF Fits, KeyIn
  <2> QED BY <2>1 DEF OnPath
<1>6. CASE y # k
  <2>1. y \in T \cap NodeIds /\ Above(key, nd[y].shift) = nd[y].path
    BY <1>1, <1>6 DEF OnPath
  <2>2. nd[y].shift \in Shifts
    BY <2>1 DEF StoreType, NodeType
  <2>3. /\ nd[y].shift < nd[n].shift
        /\ Above(nd[y].path, nd[n].shift) = nd[n].path
        /\ slice_index(nd[y].path, nd[n].shift) = j
    BY <1>2, <2>1, Kinds DEF Fits, KeyIn
  <2>4. Above(Above(key, nd[y].shift), nd[n].shift) = Above(key, nd[n].shift)
    <3>1. nd[y].shift =< nd[n].shift
      BY <2>2, <2>3, <1>4, LevelFacts
    <3> QED BY <3>1, <1>4, <2>2, AboveAbove
  <2>5. slice_index(Above(key, nd[y].shift), nd[n].shift) = slice_index(key, nd[n].shift)
    BY <1>4, <2>2, <2>3, SliceOfAbove
  <2> QED BY <2>1, <2>3, <2>4, <2>5 DEF OnPath
<1> QED BY <1>5, <1>6

\* G leads to leaf k: from every node of G the slices of the key lead to an
\* element of G, and k is the only leaf of G.
LeadsTo(G, T, nd, key, k) ==
  /\ G \subseteq T /\ k \in G
  /\ G \cap LeafIds = {k}
  /\ \A n \in G \cap NodeIds : /\ Above(key, nd[n].shift) = nd[n].path
                               /\ nd[n].child[slice_index(key, nd[n].shift)] \in G

\* The ancestors of a leaf lead to it, the root among them.
LEMMA PathToLeaf ==
  ASSUME NEW T, NEW r, NEW nd, NEW lf, StoreType(r, nd, lf), Tree(T, r, nd, lf),
         NEW k \in T \cap LeafIds, NEW key, key = lf[k].key
  PROVE  \E G : LeadsTo(G, T, nd, key, k) /\ r \in G
<1> DEFINE C == OnPath(T, nd, key, k)
           Closed(B) == \A n \in T \cap NodeIds, j \in Nibs : nd[n].child[j] \in B => n \in B
           G == {x \in C : \A B \in SUBSET T : k \in B /\ Closed(B) => x \in B}
<1>1. C \subseteq T /\ k \in C /\ G \subseteq C /\ k \in G
  BY DEF OnPath
<1>2. Closed(C)
  BY ParentOnPath
<1>3. Closed(G)
  <2> SUFFICES ASSUME NEW n \in T \cap NodeIds, NEW j \in Nibs, nd[n].child[j] \in G
               PROVE  n \in G
    OBVIOUS
  <2>1. n \in C
    BY <1>1, <1>2
  <2>2. ASSUME NEW B \in SUBSET T, k \in B, Closed(B) PROVE n \in B
    BY <2>2
  <2> QED BY <2>1, <2>2
<1>4. ASSUME NEW x \in G, x # k PROVE \E j \in Nibs : nd[x].child[j] \in G
  <2> SUFFICES ASSUME \A j \in Nibs : nd[x].child[j] \notin G PROVE FALSE
    OBVIOUS
  <2> DEFINE B == G \ {x}
  <2>1. B \in SUBSET T /\ k \in B
    BY <1>1, <1>4
  <2>2. ASSUME NEW n \in T \cap NodeIds, NEW j \in Nibs, nd[n].child[j] \in B PROVE n \in B
    <3>1. nd[n].child[j] \in G
      BY <2>2
    <3>2. n \in G
      <4> HIDE DEF G
      <4> QED BY <1>3, <3>1
    <3>3. n # x
      <4> HIDE DEF G
      <4> QED BY <3>1
    <3> QED BY <3>2, <3>3
  <2>3. x \in B
    BY <1>4, <2>1, <2>2
  <2> QED BY <2>3
<1>5. G \cap LeafIds = {k}
  BY <1>1, Kinds DEF OnPath
<1>6. ASSUME NEW n \in G \cap NodeIds
      PROVE  /\ Above(key, nd[n].shift) = nd[n].path
             /\ nd[n].child[slice_index(key, nd[n].shift)] \in G
  <2>1. n # k /\ n \in T \cap NodeIds
    BY <1>1, Kinds
  <2>2. PICK j \in Nibs : nd[n].child[j] \in G
    <3> HIDE DEF G
    <3> QED BY <1>4, <2>1
  <2>3. nd[n].child[j] \in C
    BY <2>2
  <2>4. slice_index(key, nd[n].shift) = j
    BY <2>1, <2>3, ParentOnPath
  <2>5. Above(key, nd[n].shift) = nd[n].path
    BY <1>1, <2>1 DEF OnPath
  <2> QED BY <2>2, <2>4, <2>5
<1>7. r \in G
  <2> SUFFICES ASSUME r \notin G PROVE FALSE
    OBVIOUS
  <2> HIDE DEF C, G
  <2>1. ASSUME NEW x \in G PROVE \E n \in G \cap NodeIds, j \in Nibs : nd[n].child[j] = x
    <3>1. PICK s \in Slots(T) : AtIn(r, nd, s) = x
      BY <1>1, <2>1 DEF Tree
    <3>2. s # RootSlot
      BY <2>1, <3>1 DEF AtIn
    <3>3. s[1] \in T \cap NodeIds /\ s[2] \in Nibs /\ nd[s[1]].child[s[2]] = x
      BY <3>1, <3>2, SlotCases DEF AtIn
    <3>4. s[1] \in G
      BY <2>1, <3>3, <1>3
    <3> QED BY <3>3, <3>4
  <2> DEFINE S == {Slices - 1 - Level(nd[n].shift) : n \in G \cap NodeIds}
  <2>2. ASSUME NEW n \in NodeIds
        PROVE  nd[n].shift \in Shifts /\ Level(nd[n].shift) \in 0..Slices - 1
    BY LevelFacts DEF StoreType, NodeType
  <2>3. S \subseteq Nat /\ S # {}
    <3>1. \A n \in G \cap NodeIds : Slices - 1 - Level(nd[n].shift) \in Nat
      BY <2>2, SliceAssumption
    <3>2. \E n \in G \cap NodeIds : TRUE
      BY <1>1, <2>1
    <3> QED BY <3>1, <3>2
  <2>4. PICK d \in S : \A m \in S : d =< m
    <3> HIDE DEF S
    <3> QED BY <2>3, Least
  <2>5. PICK n \in G \cap NodeIds : d = Slices - 1 - Level(nd[n].shift)
    BY <2>4
  <2>6. PICK p \in G \cap NodeIds, j \in Nibs : nd[p].child[j] = n
    BY <2>1, <2>5
  <2>7. nd[n].shift < nd[p].shift
    <3>1. p \in T \cap NodeIds
      BY <1>1, <2>6
    <3>2. Fits(nd, lf, p, j, n)
      BY <2>6, <3>1 DEF Tree
    <3> QED BY <2>5, <3>2, Kinds DEF Fits
  <2>8. Level(nd[n].shift) < Level(nd[p].shift)
    BY <2>2, <2>7, LevelFacts
  <2>9. Slices - 1 - Level(nd[p].shift) \in S
    BY <2>6
  <2>10. d =< Slices - 1 - Level(nd[p].shift)
    <3> HIDE DEF S
    <3> QED BY <2>4, <2>9
  <2> QED BY <2>2, <2>5, <2>8, <2>10, SliceAssumption
<1>8. G \subseteq T
  BY <1>1
<1> HIDE DEF G
<1> QED BY <1>1, <1>5, <1>6, <1>7, <1>8 DEF LeadsTo

-----------------------------------------------------------------------------
(* The walk of a writer *)

WalkPos == [slot : Slots(NodeIds), up : Slots(NodeIds)]
Start == [slot |-> RootSlot, up |-> RootSlot]

\* f is the walk towards key: its places step by step.
Steps(f, key, comparePath) ==
  /\ f \in [0..Slices -> WalkPos]
  /\ f[0] = Start
  /\ \A i \in 1..Slices : f[i] = Onward(key, comparePath, f[i - 1])

LEMMA AtIsAtIn == \A s : At(s) = AtIn(root, node, s)
BY DEF At, AtIn

\* A step of the walk leads to a slot.
LEMMA OnwardType ==
  ASSUME StoreType(root, node, leaf), NEW key \in 0..MaxKey, NEW comparePath \in BOOLEAN,
         NEW at \in WalkPos
  PROVE  Onward(key, comparePath, at) \in WalkPos
<1>1. PICK s : s = at.slot
  OBVIOUS
<1>2. s \in Slots(NodeIds)
  BY <1>1 DEF WalkPos
<1>3. PICK n : n = At(s)
  OBVIOUS
<1>4. CASE n = NULL \/ is_leaf(n) \/ (comparePath /\ Above(key, node[n].shift) # node[n].path)
  BY <1>1, <1>3, <1>4 DEF Onward
<1>5. CASE ~(n = NULL \/ is_leaf(n) \/ (comparePath /\ Above(key, node[n].shift) # node[n].path))
  <2>1. Onward(key, comparePath, at) = [slot |-> <<n, slice_index(key, node[n].shift)>>, up |-> s]
    BY <1>1, <1>3, <1>5 DEF Onward
  <2>2. n \in Ptr
    <3>1. CASE s = RootSlot
      BY <1>3, <3>1 DEF At, StoreType
    <3>2. CASE s # RootSlot
      <4>1. s[1] \in NodeIds /\ s[2] \in Nibs
        BY <1>2, <3>2, SlotCases
      <4>2. node[s[1]] \in NodeType
        BY <4>1 DEF StoreType
      <4> QED BY <1>3, <3>2, <4>1, <4>2 DEF At, NodeType
    <3> QED BY <3>1, <3>2
  <2>3. n \in NodeIds
    BY <1>5, <2>2, Kinds DEF Ptr
  <2>4. slice_index(key, node[n].shift) \in Nibs
    <3>1. node[n].shift \in Shifts
      BY <2>3 DEF StoreType, NodeType
    <3> QED BY <3>1, SliceType
  <2>5. <<n, slice_index(key, node[n].shift)>> \in Slots(NodeIds)
    BY <2>3, <2>4 DEF Slots
  <2> QED BY <1>2, <2>1, <2>5 DEF WalkPos
<1> QED BY <1>4, <1>5

\* The walk exists: the recursive function of Walk has its steps.
LEMMA WalkSteps ==
  ASSUME StoreType(root, node, leaf), NEW key \in 0..MaxKey, NEW comparePath \in BOOLEAN
  PROVE  \E f : Steps(f, key, comparePath) /\ Walk(key, comparePath) = f[Slices]
<1> DEFINE F == [at \in WalkPos |-> Onward(key, comparePath, at)]
           R(f) == [i \in 0..Slices |-> IF i = 0 THEN Start ELSE Onward(key, comparePath, f[i - 1])]
           g == CHOOSE f : f = R(f)
<1>1. F \in [WalkPos -> WalkPos]
  BY OnwardType
<1>2. Start \in WalkPos
  BY DEF Start, WalkPos, Slots
<1>3. Slices \in Nat
  BY SliceAssumption
<1>4. PICK f : Iterates(f, WalkPos, Start, F, Slices)
  <2> HIDE DEF F
  <2> QED BY <1>1, <1>2, <1>3, IterationExists
<1>5. f \in [0..Slices -> WalkPos] /\ f[0] = Start /\ \A i \in 1..Slices : f[i] = F[f[i - 1]]
  BY <1>4 DEF Iterates
<1>6. ASSUME NEW i \in 1..Slices PROVE f[i] = Onward(key, comparePath, f[i - 1])
  <2>1. i - 1 \in 0..Slices
    BY <1>3
  <2>2. f[i - 1] \in WalkPos
    BY <1>5, <2>1
  <2> QED BY <1>5, <2>2
<1>7. f = R(f)
  <2>1. ASSUME NEW i \in 0..Slices PROVE f[i] = R(f)[i]
    BY <1>3, <1>5, <1>6
  <2> QED BY <1>5, <2>1
<1>8. g = R(g)
  <2> HIDE DEF R
  <2> QED BY <1>7
<1>9. Walk(key, comparePath) = g[Slices]
  BY DEF Walk, Start
<1> HIDE DEF g
<1>10. \A i \in 0..Slices : g[i] = IF i = 0 THEN Start ELSE Onward(key, comparePath, g[i - 1])
  BY <1>8
<1>11. DOMAIN g = 0..Slices /\ g = [i \in 0..Slices |-> g[i]]
  BY <1>8
<1>12. g[0] = Start
  BY <1>3, <1>10
<1>13. ASSUME NEW i \in 1..Slices PROVE g[i] = Onward(key, comparePath, g[i - 1])
  BY <1>3, <1>10
<1>14. \A i \in 0..Slices : g[i] \in WalkPos
  <2> DEFINE Bad == {i \in 0..Slices : g[i] \notin WalkPos}
  <2> SUFFICES ASSUME Bad # {} PROVE FALSE
    OBVIOUS
  <2>1. PICK i \in Bad : \A m \in Bad : i =< m
    <3>1. Bad \subseteq Nat
      BY <1>3
    <3> HIDE DEF Bad
    <3> QED BY <3>1, Least
  <2>2. i # 0
    BY <1>2, <1>12, <2>1
  <2>3. i \in 1..Slices /\ i - 1 \in 0..Slices /\ i - 1 \notin Bad
    BY <2>1, <2>2, <1>3
  <2>4. g[i - 1] \in WalkPos
    BY <2>3
  <2>5. g[i] \in WalkPos
    BY <1>13, <2>3, <2>4, OnwardType
  <2> QED BY <2>1, <2>5
<1>15. g \in [0..Slices -> WalkPos]
  BY <1>11, <1>14
<1>16. Steps(g, key, comparePath)
  BY <1>12, <1>13, <1>15 DEF Steps
<1> QED BY <1>9, <1>16

\* A place the walk may be in: a slot of the tree on the path of the key.
WalkGood(T, key, comparePath, at) ==
  /\ at.slot \in Slots(T) /\ at.up \in Slots(T)
  /\ at.slot # RootSlot =>
       /\ At(at.up) = at.slot[1]
       /\ at.slot[2] = slice_index(key, node[at.slot[1]].shift)
       /\ comparePath => Above(key, node[at.slot[1]].shift) = node[at.slot[1]].path

\* The walk stops at node n, whose path differs from the key's.
Differs(key, comparePath, n) == comparePath /\ Above(key, node[n].shift) # node[n].path

\* The two things a step of the walk may do.
LEMMA OnwardCases ==
  ASSUME NEW T, StoreType(root, node, leaf), Tree(T, root, node, leaf),
         NEW key \in 0..MaxKey, NEW comparePath \in BOOLEAN,
         NEW at, at.slot \in Slots(T), NEW n, n = At(at.slot)
  PROVE  /\ n \in T \cup {NULL}
         /\ \/ /\ n \notin NodeIds \/ Differs(key, comparePath, n)
               /\ Onward(key, comparePath, at) = at
            \/ /\ n \in T \cap NodeIds /\ ~Differs(key, comparePath, n)
               /\ slice_index(key, node[n].shift) \in Nibs
               /\ Onward(key, comparePath, at) =
                    [slot |-> <<n, slice_index(key, node[n].shift)>>, up |-> at.slot]
<1>1. n \in T \cup {NULL} /\ T \subseteq NodeIds \cup LeafIds
  BY AtIsAtIn DEF Tree
<1>2. CASE n \notin NodeIds
  <2>1. n = NULL \/ is_leaf(n)
    BY <1>1, <1>2, Kinds
  <2> QED BY <1>1, <1>2, <2>1 DEF Onward
<1>3. CASE n \in NodeIds /\ Differs(key, comparePath, n)
  BY <1>1, <1>3 DEF Onward, Differs
<1>4. CASE n \in NodeIds /\ ~Differs(key, comparePath, n)
  <2>1. n # NULL /\ ~is_leaf(n) /\ n \in T
    BY <1>1, <1>4, Kinds
  <2>2. node[n].shift \in Shifts
    BY <1>4 DEF StoreType, NodeType
  <2>3. slice_index(key, node[n].shift) \in Nibs
    BY <2>2, SliceType
  <2> QED BY <1>1, <1>4, <2>1, <2>3 DEF Onward, Differs
<1> QED BY <1>2, <1>3, <1>4

\* Where the walk is after i steps: on the path, and at most Slices - 1 - i
\* nodes above the leaves.
LEMMA WalkInTree ==
  ASSUME NEW T, StoreType(root, node, leaf), Tree(T, root, node, leaf),
         NEW key \in 0..MaxKey, NEW comparePath \in BOOLEAN,
         NEW f, Steps(f, key, comparePath), NEW i \in 0..Slices
  PROVE  /\ WalkGood(T, key, comparePath, f[i])
         /\ \A n \in NodeIds : n = At(f[i].slot)
              => Differs(key, comparePath, n) \/ Level(node[n].shift) + i =< Slices - 1
<1> DEFINE Ok(m) == /\ WalkGood(T, key, comparePath, f[m])
                    /\ \A n \in NodeIds : n = At(f[m].slot)
                         => Differs(key, comparePath, n) \/ Level(node[n].shift) + m =< Slices - 1
           Bad == {m \in 0..Slices : ~Ok(m)}
<1>1. f \in [0..Slices -> WalkPos] /\ f[0] = Start
      /\ \A m \in 1..Slices : f[m] = Onward(key, comparePath, f[m - 1])
  BY DEF Steps
<1>2. \A n \in NodeIds : node[n].shift \in Shifts /\ Level(node[n].shift) \in 0..Slices - 1
  BY LevelFacts DEF StoreType, NodeType
<1>3. Slices \in Nat /\ Slices # 0
  BY SliceAssumption
<1>4. Ok(0)
  <2>1. f[0].slot = RootSlot /\ f[0].up = RootSlot /\ RootSlot \in Slots(T)
    BY <1>1 DEF Start, Slots
  <2>2. WalkGood(T, key, comparePath, f[0])
    BY <2>1 DEF WalkGood
  <2>3. \A n \in NodeIds : Level(node[n].shift) + 0 =< Slices - 1
    BY <1>2, <1>3
  <2> QED BY <2>2, <2>3
<1>5. ASSUME NEW m \in 1..Slices, Ok(m - 1) PROVE Ok(m)
  <2>1. PICK at : at = f[m - 1]
    OBVIOUS
  <2>2. PICK n : n = At(at.slot)
    OBVIOUS
  <2>3. WalkGood(T, key, comparePath, at) /\ f[m] = Onward(key, comparePath, at)
    BY <1>1, <1>5, <2>1
  <2>4. at.slot \in Slots(T)
    BY <2>3 DEF WalkGood
  <2>5. CASE f[m] = at /\ (n \notin NodeIds \/ Differs(key, comparePath, n))
    BY <2>2, <2>3, <2>5
  <2>6. CASE /\ n \in T \cap NodeIds /\ ~Differs(key, comparePath, n)
             /\ slice_index(key, node[n].shift) \in Nibs
             /\ f[m] = [slot |-> <<n, slice_index(key, node[n].shift)>>, up |-> at.slot]
    <3>1. PICK j \in Nibs : j = slice_index(key, node[n].shift)
      BY <2>6
    <3>2. f[m].slot = <<n, j>> /\ f[m].up = at.slot
      BY <2>6, <3>1
    <3>3. <<n, j>> \in Slots(T) /\ <<n, j>> # RootSlot /\ AtIn(root, node, <<n, j>>) = node[n].child[j]
      BY <2>6, NodeSlot
    <3>4. f[m].slot[1] = n /\ f[m].slot[2] = j
      BY <3>2
    <3>5. WalkGood(T, key, comparePath, f[m])
      BY <2>2, <2>4, <2>6, <3>1, <3>2, <3>3, <3>4 DEF WalkGood, Differs
    <3>6. Level(node[n].shift) + (m - 1) =< Slices - 1
      BY <1>5, <2>1, <2>2, <2>6
    <3>7. ASSUME NEW c \in NodeIds, c = At(f[m].slot) PROVE Level(node[c].shift) + m =< Slices - 1
      <4>1. c = node[n].child[j]
        BY <3>2, <3>3, <3>7, AtIsAtIn
      <4>2. Fits(node, leaf, n, j, c)
        BY <2>6, <4>1 DEF Tree
      <4>3. node[c].shift < node[n].shift
        BY <4>2, Kinds DEF Fits
      <4>4. Level(node[c].shift) < Level(node[n].shift)
        BY <2>6, <4>3, <1>2, LevelFacts
      <4> QED BY <1>2, <1>3, <2>6, <3>6, <4>4
    <3> QED BY <3>5, <3>7
  <2> QED BY <2>2, <2>3, <2>4, <2>5, <2>6, OnwardCases
<1> HIDE DEF Ok
<1>6. Bad = {}
  <2> SUFFICES ASSUME Bad # {} PROVE FALSE
    OBVIOUS
  <2>1. PICK m \in Bad : \A l \in Bad : m =< l
    <3>1. Bad \subseteq Nat
      BY <1>3
    <3> HIDE DEF Bad
    <3> QED BY <3>1, Least
  <2>2. m # 0 /\ m \in 0..Slices
    BY <1>4, <2>1
  <2>3. m \in 1..Slices /\ m - 1 \in 0..Slices /\ m - 1 \notin Bad
    BY <2>1, <2>2, <1>3
  <2>4. Ok(m)
    BY <1>5, <2>3
  <2> QED BY <2>1, <2>4
<1>7. Ok(i)
  BY <1>6
<1> QED BY <1>7 DEF Ok

\* Where the walk ends: at a slot of the tree on the path of the key that is
\* empty or holds a leaf, or, if the paths are compared, a node whose path
\* differs.
LEMMA WalkEnd ==
  ASSUME NEW T, StoreType(root, node, leaf), Tree(T, root, node, leaf),
         NEW key \in 0..MaxKey, NEW comparePath \in BOOLEAN,
         NEW at, at = Walk(key, comparePath), NEW n, n = At(at.slot)
  PROVE  /\ WalkGood(T, key, comparePath, at)
         /\ n \in T \cup {NULL}
         /\ n \in NodeIds => Differs(key, comparePath, n)
<1>1. PICK f : Steps(f, key, comparePath) /\ at = f[Slices]
  BY WalkSteps
<1>2. Slices \in 0..Slices /\ Slices \in Nat
  BY SliceAssumption
<1>3. /\ WalkGood(T, key, comparePath, f[Slices])
      /\ \A c \in NodeIds : c = At(f[Slices].slot)
           => Differs(key, comparePath, c) \/ Level(node[c].shift) + Slices =< Slices - 1
  BY <1>1, <1>2, WalkInTree
<1>4. ASSUME n \in NodeIds PROVE Differs(key, comparePath, n)
  <2>1. Level(node[n].shift) \in 0..Slices - 1
    BY <1>4, LevelFacts DEF StoreType, NodeType
  <2> QED BY <1>1, <1>2, <1>3, <1>4, <2>1
<1>5. n \in T \cup {NULL}
  BY <1>1, <1>3, AtIsAtIn DEF WalkGood, Tree
<1> QED BY <1>1, <1>3, <1>4, <1>5

\* A walk towards the key of a leaf ends there.
LEMMA WalkFinds ==
  ASSUME NEW T, StoreType(root, node, leaf), Tree(T, root, node, leaf),
         NEW k \in T \cap LeafIds, NEW key, key = leaf[k].key, NEW comparePath \in BOOLEAN
  PROVE  At(Walk(key, comparePath).slot) = k
<1>1. key \in 0..MaxKey
  BY DEF StoreType, LeafType
<1>2. PICK f : Steps(f, key, comparePath) /\ Walk(key, comparePath) = f[Slices]
  BY <1>1, WalkSteps
<1>3. f[0] = Start /\ \A m \in 1..Slices : f[m] = Onward(key, comparePath, f[m - 1])
  BY <1>2 DEF Steps
<1>4. PICK G : LeadsTo(G, T, node, key, k) /\ root \in G
  BY PathToLeaf
<1>5. Slices \in 0..Slices /\ Slices \in Nat
  BY SliceAssumption
<1> DEFINE Bad == {m \in 0..Slices : At(f[m].slot) \notin G}
<1>6. Bad = {}
  <2> SUFFICES ASSUME Bad # {} PROVE FALSE
    OBVIOUS
  <2>1. PICK m \in Bad : \A l \in Bad : m =< l
    <3>1. Bad \subseteq Nat
      BY <1>5
    <3> HIDE DEF Bad
    <3> QED BY <3>1, Least
  <2>2. m # 0
    BY <1>3, <1>4, <2>1 DEF Start, At
  <2>3. m \in 1..Slices /\ m - 1 \in 0..Slices /\ m - 1 \notin Bad
    BY <2>1, <2>2, <1>5
  <2>4. PICK n : n = At(f[m - 1].slot)
    OBVIOUS
  <2>5. n \in G /\ f[m] = Onward(key, comparePath, f[m - 1])
    BY <1>3, <2>3, <2>4
  <2>6. f[m - 1].slot \in Slots(T)
    BY <1>1, <1>2, <2>3, WalkInTree DEF WalkGood
  <2>7. CASE f[m] = f[m - 1]
    BY <2>1, <2>3, <2>7
  <2>8. CASE /\ n \in T \cap NodeIds /\ ~Differs(key, comparePath, n)
             /\ slice_index(key, node[n].shift) \in Nibs
             /\ f[m] = [slot |-> <<n, slice_index(key, node[n].shift)>>, up |-> f[m - 1].slot]
    <3>1. At(f[m].slot) = node[n].child[slice_index(key, node[n].shift)]
      BY <2>8, NodeSlot, AtIsAtIn
    <3> QED BY <1>4, <2>1, <2>5, <2>8, <3>1 DEF LeadsTo
  <2> QED BY <1>1, <2>4, <2>5, <2>6, <2>7, <2>8, OnwardCases
<1>7. At(Walk(key, comparePath).slot) \in G
  BY <1>2, <1>5, <1>6
<1>8. PICK n : n = At(Walk(key, comparePath).slot)
  OBVIOUS
<1>9. n \in NodeIds => Differs(key, comparePath, n)
  BY <1>1, <1>8, WalkEnd
<1>10. n \notin NodeIds
  BY <1>4, <1>7, <1>8, <1>9 DEF LeadsTo, Differs
<1>11. n \in LeafIds
  BY <1>4, <1>7, <1>8, <1>10 DEF LeadsTo, Tree
<1> QED BY <1>4, <1>7, <1>8, <1>11 DEF LeadsTo

-----------------------------------------------------------------------------
(* What a store does to the trie *)

\* StoreAt(s, p), on any trie.
StoredIn(r, nd, s, p, r2, nd2) ==
  IF s = RootSlot THEN r2 = p /\ nd2 = nd
  ELSE nd2 = [nd EXCEPT ![s[1]].child[s[2]] = p] /\ r2 = r

\* Paths and shifts of the nodes are the same.
SamePaths(nd, nd2) ==
  \A n \in NodeIds : nd2[n].path = nd[n].path /\ nd2[n].shift = nd[n].shift

LEMMA StoreFacts ==
  ASSUME NEW r, NEW nd, NEW lf, StoreType(r, nd, lf), NEW s \in Slots(NodeIds), NEW p \in Ptr,
         NEW r2, NEW nd2, StoredIn(r, nd, s, p, r2, nd2)
  PROVE  /\ StoreType(r2, nd2, lf)
         /\ SamePaths(nd, nd2)
         /\ AtIn(r2, nd2, s) = p
         /\ \A t \in Slots(NodeIds) : t # s => AtIn(r2, nd2, t) = AtIn(r, nd, t)
<1>1. CASE s = RootSlot
  <2>1. r2 = p /\ nd2 = nd
    BY <1>1 DEF StoredIn
  <2>2. StoreType(r2, nd2, lf) /\ SamePaths(nd, nd2)
    BY <2>1 DEF StoreType, SamePaths
  <2>3. AtIn(r2, nd2, s) = p /\ \A t \in Slots(NodeIds) : t # s => AtIn(r2, nd2, t) = AtIn(r, nd, t)
    BY <1>1, <2>1 DEF AtIn
  <2> QED BY <2>2, <2>3
<1>2. CASE s # RootSlot
  <2>1. PICK n \in NodeIds, j \in Nibs : s = <<n, j>>
    <3>1. s = <<s[1], s[2]>> /\ s[1] \in NodeIds /\ s[2] \in Nibs
      BY <1>2, SlotCases
    <3> QED BY <3>1
  <2>2. nd2 = [nd EXCEPT ![n].child[j] = p] /\ r2 = r
    BY <1>2, <2>1 DEF StoredIn
  <2>3. nd[n] \in NodeType /\ nd \in [NodeIds -> NodeType]
    BY DEF StoreType
  <2>4. nd[n].child \in [Nibs -> Ptr]
    BY <2>3 DEF NodeType
  <2>5. nd2[n] = [nd[n] EXCEPT !.child = [nd[n].child EXCEPT ![j] = p]]
    BY <2>2, <2>3
  <2>6. \A l \in NodeIds : l # n => nd2[l] = nd[l]
    BY <2>2, <2>3
  <2>7. nd2[n] \in NodeType /\ nd2[n].path = nd[n].path /\ nd2[n].shift = nd[n].shift
        /\ nd2[n].child = [nd[n].child EXCEPT ![j] = p]
    BY <2>3, <2>4, <2>5 DEF NodeType
  <2>8. DOMAIN nd2 = NodeIds /\ nd2 = [l \in NodeIds |-> nd2[l]]
    BY <2>2, <2>3
  <2>9. nd2 \in [NodeIds -> NodeType]
    BY <2>3, <2>6, <2>7, <2>8
  <2>10. SamePaths(nd, nd2)
    BY <2>6, <2>7 DEF SamePaths
  <2>11. AtIn(r2, nd2, s) = p
    BY <1>2, <2>1, <2>4, <2>7 DEF AtIn
  <2>12. ASSUME NEW t \in Slots(NodeIds), t # s PROVE AtIn(r2, nd2, t) = AtIn(r, nd, t)
    <3>1. CASE t = RootSlot
      BY <2>2, <3>1 DEF AtIn
    <3>2. CASE t # RootSlot
      <4>1. t = <<t[1], t[2]>> /\ t[1] \in NodeIds /\ t[2] \in Nibs
        BY <3>2, SlotCases
      <4>2. t[1] # n \/ t[2] # j
        BY <2>1, <2>12, <4>1
      <4>3. nd2[t[1]].child[t[2]] = nd[t[1]].child[t[2]]
        BY <2>4, <2>6, <2>7, <4>1, <4>2
      <4> QED BY <3>2, <4>3 DEF AtIn
    <3> QED BY <3>1, <3>2
  <2>13. PathType(nd2)
    BY <2>10 DEF StoreType, PathType, SamePaths
  <2> QED BY <2>2, <2>9, <2>10, <2>11, <2>12, <2>13 DEF StoreType
<1> QED BY <1>1, <1>2

\* Fits depends on the paths, the shifts and the keys.
LEMMA FitsSame ==
  ASSUME NEW nd, NEW nd2, SamePaths(nd, nd2), NEW lf, NEW n \in NodeIds, NEW j,
         NEW x \in Ptr, Fits(nd, lf, n, j, x)
  PROVE  Fits(nd2, lf, n, j, x)
<1>1. nd2[n].path = nd[n].path /\ nd2[n].shift = nd[n].shift
  BY DEF SamePaths
<1>2. x # NULL => KeyIn(nd2, lf, x) = KeyIn(nd, lf, x)
  BY Kinds DEF SamePaths, KeyIn, Ptr
<1>3. x \in NodeIds => nd2[x].shift = nd[x].shift
  BY DEF SamePaths
<1> QED BY <1>1, <1>2, <1>3 DEF Fits

\* The slots of a part of the nodes.
LEMMA SlotsMonotone == \A T, S : T \subseteq S => Slots(T) \subseteq Slots(S)
BY DEF Slots

LEMMA SlotsInNodes == \A T : Slots(T) \subseteq Slots(NodeIds)
BY DEF Slots

\* A tree stays one when nothing it looks at changes.
LEMMA TreeSame ==
  ASSUME NEW T, NEW r, NEW nd, NEW lf, Tree(T, r, nd, lf), NEW nd2, NEW lf2,
         \A n \in T \cap NodeIds : nd2[n] = nd[n],
         \A k \in T \cap LeafIds : lf2[k].key = lf[k].key
  PROVE  Tree(T, r, nd2, lf2)
<1>1. \A s \in Slots(T) : AtIn(r, nd2, s) = AtIn(r, nd, s)
  <2> SUFFICES ASSUME NEW s \in Slots(T) PROVE AtIn(r, nd2, s) = AtIn(r, nd, s)
    OBVIOUS
  <2>1. s # RootSlot => s[1] \in T \cap NodeIds
    BY SlotCases
  <2> QED BY <2>1 DEF AtIn
<1>2. ASSUME NEW n \in T \cap NodeIds, NEW j \in Nibs PROVE Fits(nd2, lf2, n, j, nd2[n].child[j])
  <2>1. PICK x : x = nd[n].child[j]
    OBVIOUS
  <2>2. x \in T \cup {NULL} /\ T \subseteq NodeIds \cup LeafIds
    <3>1. <<n, j>> \in Slots(T) /\ AtIn(r, nd, <<n, j>>) = nd[n].child[j]
      BY NodeSlot
    <3> QED BY <2>1, <3>1 DEF Tree
  <2>3. Fits(nd, lf, n, j, x)
    BY <2>1 DEF Tree
  <2>4. nd2[n] = nd[n] /\ (x \in NodeIds => nd2[x] = nd[x])
    BY <2>2, Kinds
  <2>5. x # NULL => KeyIn(nd2, lf2, x) = KeyIn(nd, lf, x)
    BY <2>2, <2>4, Kinds DEF KeyIn
  <2> QED BY <2>1, <2>3, <2>4, <2>5 DEF Fits
<1> QED BY <1>1, <1>2 DEF Tree

\* A new leaf in an empty slot where its key belongs (critnib_insert).
LEMMA TreePut ==
  ASSUME NEW T, NEW r, NEW nd, NEW lf, StoreType(r, nd, lf), Tree(T, r, nd, lf),
         NEW s \in Slots(T), AtIn(r, nd, s) = NULL, NEW k \in LeafIds, k \notin T,
         s # RootSlot => Fits(nd, lf, s[1], s[2], k),
         NEW r2, NEW nd2, StoredIn(r, nd, s, k, r2, nd2)
  PROVE  Tree(T \cup {k}, r2, nd2, lf)
<1>1. k \in Ptr /\ s \in Slots(NodeIds) /\ k # NULL
  BY SlotsInNodes, Kinds DEF Ptr
<1>2. /\ SamePaths(nd, nd2) /\ AtIn(r2, nd2, s) = k
      /\ \A t \in Slots(NodeIds) : t # s => AtIn(r2, nd2, t) = AtIn(r, nd, t)
  BY <1>1, StoreFacts
<1>3. Slots(T \cup {k}) = Slots(T) /\ (T \cup {k}) \cap NodeIds = T \cap NodeIds
  BY Kinds DEF Slots
<1>4. \A t \in Slots(T) : t # s => AtIn(r2, nd2, t) = AtIn(r, nd, t)
  BY <1>2, SlotsInNodes
<1>5. T \cup {k} \subseteq NodeIds \cup LeafIds
  BY DEF Tree
<1>6. \A t \in Slots(T) : AtIn(r, nd, t) \in T \cup {NULL}
  BY DEF Tree
<1>7. \A t \in Slots(T) : AtIn(r2, nd2, t) \in (T \cup {k}) \cup {NULL}
  BY <1>2, <1>4, <1>6
<1>8. ASSUME NEW x \in T \cup {k} PROVE \E t \in Slots(T) : AtIn(r2, nd2, t) = x
  <2>1. CASE x = k
    BY <1>2, <2>1
  <2>2. CASE x \in T
    <3>1. PICK t \in Slots(T) : AtIn(r, nd, t) = x
      BY <2>2 DEF Tree
    <3>2. t # s
      BY <2>2, <3>1, Kinds DEF Tree
    <3> QED BY <1>4, <3>1, <3>2
  <2> QED BY <2>1, <2>2
<1>9. ASSUME NEW t \in Slots(T), NEW u \in Slots(T),
             AtIn(r2, nd2, t) = AtIn(r2, nd2, u), AtIn(r2, nd2, t) # NULL
      PROVE  t = u
  <2>1. CASE t = s \/ u = s
    BY <1>2, <1>4, <1>6, <1>9, <1>1, <2>1
  <2>2. CASE t # s /\ u # s
    BY <1>4, <1>9, <2>2 DEF Tree
  <2> QED BY <2>1, <2>2
<1>10. ASSUME NEW n \in T \cap NodeIds, NEW j \in Nibs PROVE Fits(nd2, lf, n, j, nd2[n].child[j])
  <2>1. /\ <<n, j>> \in Slots(T) /\ <<n, j>> # RootSlot
        /\ AtIn(r, nd, <<n, j>>) = nd[n].child[j] /\ AtIn(r2, nd2, <<n, j>>) = nd2[n].child[j]
    BY NodeSlot
  <2>2. Fits(nd, lf, n, j, nd2[n].child[j])
    <3>1. CASE <<n, j>> = s
      BY <1>2, <2>1, <3>1
    <3>2. CASE <<n, j>> # s
      BY <1>4, <2>1, <3>2 DEF Tree
    <3> QED BY <3>1, <3>2
  <2>3. nd2[n].child[j] \in Ptr
    BY <1>5, <1>7, <2>1 DEF Ptr
  <2> QED BY <1>2, <2>2, <2>3, FitsSame
<1> QED BY <1>3, <1>5, <1>7, <1>8, <1>9, <1>10 DEF Tree

\* A leaf is taken out of its slot (critnib_remove).
LEMMA TreeUnlink ==
  ASSUME NEW T, NEW r, NEW nd, NEW lf, StoreType(r, nd, lf), Tree(T, r, nd, lf),
         NEW s \in Slots(T), NEW k \in T \cap LeafIds, AtIn(r, nd, s) = k,
         NEW r2, NEW nd2, StoredIn(r, nd, s, NULL, r2, nd2)
  PROVE  Tree(T \ {k}, r2, nd2, lf)
<1>1. NULL \in Ptr /\ s \in Slots(NodeIds) /\ k # NULL
  BY SlotsInNodes, Kinds DEF Ptr
<1>2. /\ SamePaths(nd, nd2) /\ AtIn(r2, nd2, s) = NULL
      /\ \A t \in Slots(NodeIds) : t # s => AtIn(r2, nd2, t) = AtIn(r, nd, t)
  BY <1>1, StoreFacts
<1>3. Slots(T \ {k}) = Slots(T) /\ (T \ {k}) \cap NodeIds = T \cap NodeIds
  BY Kinds DEF Slots
<1>4. \A t \in Slots(T) : t # s => AtIn(r2, nd2, t) = AtIn(r, nd, t)
  BY <1>2, SlotsInNodes
<1>5. T \ {k} \subseteq NodeIds \cup LeafIds
  BY DEF Tree
<1>6. \A t \in Slots(T) : t # s => AtIn(r, nd, t) \in (T \ {k}) \cup {NULL}
  BY <1>1 DEF Tree
<1>7. \A t \in Slots(T) : AtIn(r2, nd2, t) \in (T \ {k}) \cup {NULL}
  BY <1>2, <1>4, <1>6
<1>8. ASSUME NEW x \in T \ {k} PROVE \E t \in Slots(T) : AtIn(r2, nd2, t) = x
  <2>1. PICK t \in Slots(T) : AtIn(r, nd, t) = x
    BY DEF Tree
  <2>2. t # s
    BY <2>1
  <2> QED BY <1>4, <2>1, <2>2
<1>9. ASSUME NEW t \in Slots(T), NEW u \in Slots(T),
             AtIn(r2, nd2, t) = AtIn(r2, nd2, u), AtIn(r2, nd2, t) # NULL
      PROVE  t = u
  <2>1. t # s /\ u # s
    BY <1>2, <1>9
  <2> QED BY <1>4, <1>9, <2>1 DEF Tree
<1>10. ASSUME NEW n \in T \cap NodeIds, NEW j \in Nibs PROVE Fits(nd2, lf, n, j, nd2[n].child[j])
  <2>1. /\ <<n, j>> \in Slots(T) /\ <<n, j>> # RootSlot
        /\ AtIn(r, nd, <<n, j>>) = nd[n].child[j] /\ AtIn(r2, nd2, <<n, j>>) = nd2[n].child[j]
    BY NodeSlot
  <2>2. Fits(nd, lf, n, j, nd2[n].child[j])
    <3>1. CASE <<n, j>> = s
      BY <1>2, <2>1, <3>1 DEF Fits
    <3>2. CASE <<n, j>> # s
      BY <1>4, <2>1, <3>2 DEF Tree
    <3> QED BY <3>1, <3>2
  <2>3. nd2[n].child[j] \in Ptr
    BY <1>5, <1>7, <2>1 DEF Ptr
  <2> QED BY <1>2, <2>2, <2>3, FitsSame
<1> QED BY <1>3, <1>5, <1>7, <1>8, <1>9, <1>10 DEF Tree

\* A node m in the place of n that holds n and a new leaf (critnib_insert).
LEMMA TreeLink ==
  ASSUME NEW T, NEW r, NEW nd, NEW lf, StoreType(r, nd, lf), Tree(T, r, nd, lf),
         NEW s \in Slots(T), NEW n \in T, AtIn(r, nd, s) = n,
         NEW k \in LeafIds, k \notin T, NEW m \in NodeIds, m \notin T,
         NEW ik \in Nibs, NEW im \in Nibs, ik # im,
         nd[m].child[ik] = k, nd[m].child[im] = n,
         \A j \in Nibs \ {ik, im} : nd[m].child[j] = NULL,
         Fits(nd, lf, m, ik, k), Fits(nd, lf, m, im, n),
         s # RootSlot => Fits(nd, lf, s[1], s[2], m),
         NEW r2, NEW nd2, StoredIn(r, nd, s, m, r2, nd2)
  PROVE  Tree(T \cup {m, k}, r2, nd2, lf)
<1> DEFINE U == T \cup {m, k}
<1>1. m \in Ptr /\ s \in Slots(NodeIds) /\ k # NULL /\ m # NULL /\ n # NULL /\ m # k
  BY SlotsInNodes, Kinds DEF Ptr, Tree
<1>2. /\ SamePaths(nd, nd2) /\ AtIn(r2, nd2, s) = m
      /\ \A t \in Slots(NodeIds) : t # s => AtIn(r2, nd2, t) = AtIn(r, nd, t)
  BY <1>1, StoreFacts
<1>3. /\ U \cap NodeIds = (T \cap NodeIds) \cup {m}
      /\ \A t \in Slots(U) : t \in Slots(T) \/ \E j \in Nibs : t = <<m, j>>
      /\ Slots(T) \subseteq Slots(U)
  BY Kinds DEF Slots
<1>4. \A t \in Slots(T) : t # s => AtIn(r2, nd2, t) = AtIn(r, nd, t)
  BY <1>2, SlotsInNodes
<1>5. ASSUME NEW j \in Nibs
      PROVE  /\ <<m, j>> \in Slots(U) /\ <<m, j>> \notin Slots(T)
             /\ AtIn(r2, nd2, <<m, j>>) = nd[m].child[j]
  <2>1. <<m, j>> \notin Slots(T) /\ <<m, j>> \in Slots(U) /\ <<m, j>> \in Slots(NodeIds)
    BY Kinds DEF Slots
  <2>2. <<m, j>> # s
    BY <2>1
  <2>3. AtIn(r, nd, <<m, j>>) = nd[m].child[j]
    BY Kinds DEF AtIn
  <2> QED BY <1>2, <2>1, <2>2, <2>3
<1>6. U \subseteq NodeIds \cup LeafIds
  BY DEF Tree
<1>7. \A t \in Slots(T) : t # s => AtIn(r, nd, t) \in (T \ {n}) \cup {NULL}
  BY <1>1 DEF Tree
<1>8. ASSUME NEW t \in Slots(U) PROVE AtIn(r2, nd2, t) \in U \cup {NULL}
  <2>1. CASE t \in Slots(T)
    BY <1>2, <1>4, <1>7, <2>1
  <2>2. ASSUME NEW j \in Nibs, t = <<m, j>> PROVE AtIn(r2, nd2, t) \in U \cup {NULL}
    <3>1. AtIn(r2, nd2, t) = nd[m].child[j]
      BY <1>5, <2>2
    <3>2. nd[m].child[j] \in {k, n, NULL}
      OBVIOUS
    <3> QED BY <3>1, <3>2
  <2> QED BY <1>3, <2>1, <2>2
<1>9. ASSUME NEW x \in U PROVE \E t \in Slots(U) : AtIn(r2, nd2, t) = x
  <2>1. CASE x = m
    BY <1>2, <1>3, <2>1
  <2>2. CASE x = k
    BY <1>5, <2>2
  <2>3. CASE x = n
    BY <1>5, <2>3
  <2>4. CASE x \in T \ {n}
    <3>1. PICK t \in Slots(T) : AtIn(r, nd, t) = x
      BY <2>4 DEF Tree
    <3>2. t # s
      BY <2>4, <3>1
    <3> QED BY <1>3, <1>4, <3>1, <3>2
  <2> QED BY <2>1, <2>2, <2>3, <2>4
<1>10. ASSUME NEW t \in Slots(U), NEW u \in Slots(U),
             AtIn(r2, nd2, t) = AtIn(r2, nd2, u), AtIn(r2, nd2, t) # NULL
      PROVE  t = u
  <2>1. ASSUME NEW v \in Slots(U)
        PROVE  \/ v = s /\ AtIn(r2, nd2, v) = m
               \/ v = <<m, ik>> /\ AtIn(r2, nd2, v) = k
               \/ v = <<m, im>> /\ AtIn(r2, nd2, v) = n
               \/ AtIn(r2, nd2, v) = NULL
               \/ /\ v \in Slots(T) /\ AtIn(r2, nd2, v) = AtIn(r, nd, v)
                  /\ AtIn(r, nd, v) \in T /\ AtIn(r, nd, v) # n
    <3>1. CASE v \in Slots(T)
      BY <1>2, <1>4, <1>7, <3>1
    <3>2. ASSUME NEW j \in Nibs, v = <<m, j>>
          PROVE  \/ v = <<m, ik>> /\ AtIn(r2, nd2, v) = k
                 \/ v = <<m, im>> /\ AtIn(r2, nd2, v) = n
                 \/ AtIn(r2, nd2, v) = NULL
      <4>1. AtIn(r2, nd2, v) = nd[m].child[j]
        BY <1>5, <3>2
      <4> QED BY <3>2, <4>1
    <3> QED BY <1>3, <3>1, <3>2
  <2>2. k \notin T /\ m \notin T /\ n \in T /\ m # k
    BY <1>1
  <2>3. \A v, x \in Slots(T) : AtIn(r, nd, v) = AtIn(r, nd, x) /\ AtIn(r, nd, v) # NULL => v = x
    BY DEF Tree
  <2>4. PICK a, b : a = AtIn(r2, nd2, t) /\ b = AtIn(r2, nd2, u)
    OBVIOUS
  <2>5. \/ t = s /\ a = m
        \/ t = <<m, ik>> /\ a = k
        \/ t = <<m, im>> /\ a = n
        \/ t \in Slots(T) /\ a = AtIn(r, nd, t) /\ a \in T /\ a # n
    BY <1>10, <2>1, <2>4
  <2>6. \/ u = s /\ b = m
        \/ u = <<m, ik>> /\ b = k
        \/ u = <<m, im>> /\ b = n
        \/ u \in Slots(T) /\ b = AtIn(r, nd, u) /\ b \in T /\ b # n
    BY <1>10, <2>1, <2>4
  <2> QED BY <1>1, <1>10, <2>2, <2>3, <2>4, <2>5, <2>6
<1>11. ASSUME NEW l \in U \cap NodeIds, NEW j \in Nibs PROVE Fits(nd2, lf, l, j, nd2[l].child[j])
  <2>1. /\ <<l, j>> \in Slots(U) /\ <<l, j>> # RootSlot
        /\ AtIn(r, nd, <<l, j>>) = nd[l].child[j] /\ AtIn(r2, nd2, <<l, j>>) = nd2[l].child[j]
    BY NodeSlot
  <2>2. Fits(nd, lf, l, j, nd2[l].child[j])
    <3>1. CASE <<l, j>> = s
      BY <1>2, <2>1, <3>1
    <3>2. CASE <<l, j>> # s /\ l \in T
      <4>1. <<l, j>> \in Slots(T)
        BY <3>2 DEF Slots
      <4> QED BY <1>4, <2>1, <3>2, <4>1 DEF Tree
    <3>3. CASE l = m
      <4>1. nd2[l].child[j] = nd[m].child[j]
        BY <1>5, <2>1, <3>3
      <4>2. CASE j = ik
        BY <3>3, <4>1, <4>2
      <4>3. CASE j = im
        BY <3>3, <4>1, <4>3
      <4>4. CASE j \notin {ik, im}
        BY <4>1, <4>4 DEF Fits
      <4> QED BY <4>2, <4>3, <4>4
    <3> QED BY <1>3, <3>1, <3>2, <3>3
  <2>3. nd2[l].child[j] \in Ptr
    BY <1>6, <1>8, <2>1 DEF Ptr
  <2> QED BY <1>2, <2>2, <2>3, FitsSame
<1> HIDE DEF U
<1>12. Tree(U, r2, nd2, lf)
  BY <1>6, <1>8, <1>9, <1>10, <1>11 DEF Tree
<1> QED BY <1>12 DEF U

\* The only child of a node takes its place (critnib_remove).
LEMMA TreeCollapse ==
  ASSUME NEW T, NEW r, NEW nd, NEW lf, StoreType(r, nd, lf), Tree(T, r, nd, lf),
         NEW s \in Slots(T), NEW n \in T \cap NodeIds, AtIn(r, nd, s) = n,
         NEW i \in Nibs, NEW c, c = nd[n].child[i], c # NULL,
         \A j \in Nibs \ {i} : nd[n].child[j] = NULL,
         NEW r2, NEW nd2, StoredIn(r, nd, s, c, r2, nd2)
  PROVE  Tree(T \ {n}, r2, nd2, lf) /\ c \in T \ {n}
<1> DEFINE U == T \ {n}
<1>1. <<n, i>> \in Slots(T) /\ <<n, i>> # RootSlot /\ AtIn(r, nd, <<n, i>>) = c
  BY NodeSlot
<1>2. c \in T /\ c \in Ptr /\ T \subseteq NodeIds \cup LeafIds
  BY <1>1 DEF Tree, Ptr
<1>3. \A l \in NodeIds : nd[l].shift \in Nat
  BY LevelFacts DEF StoreType, NodeType
<1>4. Fits(nd, lf, n, i, c)
  BY DEF Tree
<1>5. c # n
  BY <1>3, <1>4 DEF Fits
<1>6. ASSUME s # RootSlot PROVE s[1] \in U /\ s[1] \in NodeIds /\ s[2] \in Nibs /\ Fits(nd, lf, s[1], s[2], n)
  <2>1. s[1] \in T \cap NodeIds /\ s[2] \in Nibs
    BY <1>6, SlotCases
  <2>2. Fits(nd, lf, s[1], s[2], n)
    BY <1>6, <2>1 DEF Tree, AtIn
  <2>3. s[1] # n
    BY <1>3, <2>1, <2>2, Kinds DEF Fits
  <2> QED BY <2>1, <2>2, <2>3
<1>7. s \in Slots(U) /\ s \in Slots(NodeIds)
  <2>1. CASE s = RootSlot
    BY <2>1 DEF Slots
  <2>2. CASE s # RootSlot
    BY <1>6, <2>2, SlotCases DEF Slots
  <2> QED BY <2>1, <2>2
<1>8. /\ SamePaths(nd, nd2) /\ AtIn(r2, nd2, s) = c
      /\ \A t \in Slots(NodeIds) : t # s => AtIn(r2, nd2, t) = AtIn(r, nd, t)
  BY <1>2, <1>7, StoreFacts
<1>9. /\ Slots(U) \subseteq Slots(T) /\ U \cap NodeIds \subseteq T \cap NodeIds
      /\ \A t \in Slots(T) : t \in Slots(U) \/ \E j \in Nibs : t = <<n, j>>
      /\ \A j \in Nibs : <<n, j>> \notin Slots(U)
  BY Kinds DEF Slots
<1>10. \A t \in Slots(U) : t # s => AtIn(r2, nd2, t) = AtIn(r, nd, t)
  BY <1>8, SlotsInNodes
<1>11. \A t \in Slots(U) : t # s => AtIn(r, nd, t) \in (U \ {c}) \cup {NULL}
  <2> SUFFICES ASSUME NEW t \in Slots(U), t # s, AtIn(r, nd, t) # NULL
               PROVE  AtIn(r, nd, t) \in U \ {c}
    OBVIOUS
  <2>1. t \in Slots(T) /\ t # <<n, i>>
    BY <1>9
  <2>2. AtIn(r, nd, t) \in T /\ AtIn(r, nd, t) # n /\ AtIn(r, nd, t) # c
    BY <1>1, <2>1, Kinds DEF Tree
  <2> QED BY <2>2
<1>12. \A t \in Slots(U) : AtIn(r2, nd2, t) \in U \cup {NULL}
  BY <1>2, <1>5, <1>8, <1>10, <1>11
<1>13. ASSUME NEW x \in U PROVE \E t \in Slots(U) : AtIn(r2, nd2, t) = x
  <2>1. CASE x = c
    BY <1>7, <1>8, <2>1
  <2>2. CASE x # c
    <3>1. PICK t \in Slots(T) : AtIn(r, nd, t) = x
      BY DEF Tree
    <3>2. t # s
      BY <3>1
    <3>3. x # NULL
      BY <1>2, Kinds
    <3>4. ASSUME NEW j \in Nibs, t = <<n, j>> PROVE FALSE
      <4>1. AtIn(r, nd, t) = nd[n].child[j]
        BY <3>4, NodeSlot
      <4> QED BY <2>2, <3>1, <3>3, <4>1
    <3>5. t \in Slots(U)
      BY <1>9, <3>4
    <3> QED BY <1>10, <3>1, <3>2, <3>5
  <2> QED BY <2>1, <2>2
<1>14. ASSUME NEW t \in Slots(U), NEW u \in Slots(U),
             AtIn(r2, nd2, t) = AtIn(r2, nd2, u), AtIn(r2, nd2, t) # NULL
      PROVE  t = u
  <2>1. CASE t = s \/ u = s
    BY <1>8, <1>10, <1>11, <1>14, <2>1
  <2>2. CASE t # s /\ u # s
    BY <1>9, <1>10, <1>14, <2>2 DEF Tree
  <2> QED BY <2>1, <2>2
<1>15. ASSUME s # RootSlot PROVE Fits(nd, lf, s[1], s[2], c)
  <2>1. PICK p, j : p = s[1] /\ j = s[2]
    OBVIOUS
  <2>2. p \in NodeIds /\ Fits(nd, lf, p, j, n)
    BY <1>6, <1>15, <2>1
  <2>3. nd[p].shift \in Shifts /\ nd[n].shift \in Shifts
    BY <2>2 DEF StoreType, NodeType
  <2>4. /\ nd[n].shift < nd[p].shift /\ Above(nd[n].path, nd[p].shift) = nd[p].path
        /\ slice_index(nd[n].path, nd[p].shift) = j
    BY <2>2, Kinds DEF Fits, KeyIn
  <2>5. PICK x : x = KeyIn(nd, lf, c)
    OBVIOUS
  <2>6. x \in 0..MaxKey
    BY <1>2, <2>5, Kinds DEF KeyIn, StoreType, NodeType, LeafType
  <2>7. Above(x, nd[n].shift) = nd[n].path /\ (c \in NodeIds => nd[c].shift < nd[n].shift)
    BY <1>4, <2>5 DEF Fits
  <2>8. Above(Above(x, nd[n].shift), nd[p].shift) = Above(x, nd[p].shift)
    <3>1. nd[n].shift =< nd[p].shift
      BY <2>2, <2>4, <1>3
    <3> QED BY <3>1, <2>3, <2>6, AboveAbove
  <2>9. slice_index(Above(x, nd[n].shift), nd[p].shift) = slice_index(x, nd[p].shift)
    BY <2>3, <2>4, <2>6, SliceOfAbove
  <2>10. c \in NodeIds => nd[c].shift < nd[p].shift
    BY <1>3, <2>2, <2>4, <2>7
  <2> QED BY <2>1, <2>4, <2>5, <2>7, <2>8, <2>9, <2>10 DEF Fits
<1>16. ASSUME NEW l \in U \cap NodeIds, NEW j \in Nibs PROVE Fits(nd2, lf, l, j, nd2[l].child[j])
  <2>1. /\ <<l, j>> \in Slots(U) /\ <<l, j>> # RootSlot
        /\ AtIn(r, nd, <<l, j>>) = nd[l].child[j] /\ AtIn(r2, nd2, <<l, j>>) = nd2[l].child[j]
    BY NodeSlot
  <2>2. Fits(nd, lf, l, j, nd2[l].child[j])
    <3>1. CASE <<l, j>> = s
      BY <1>8, <1>15, <2>1, <3>1
    <3>2. CASE <<l, j>> # s
      BY <1>9, <1>10, <2>1, <3>2 DEF Tree
    <3> QED BY <3>1, <3>2
  <2>3. nd2[l].child[j] \in Ptr
    BY <1>2, <1>12, <2>1 DEF Ptr
  <2> QED BY <1>8, <2>2, <2>3, FitsSame
<1>17. U \subseteq NodeIds \cup LeafIds
  BY <1>2
<1> HIDE DEF U
<1>18. Tree(U, r2, nd2, lf)
  BY <1>12, <1>13, <1>14, <1>16, <1>17 DEF Tree
<1> QED BY <1>2, <1>5, <1>18 DEF U

\* The node critnib_insert makes, at the highest slice where the key and what
\* is found at slot s differ, fits between the slot and what was found.
LEMMA NewNodeFits ==
  ASSUME NEW T, NEW r, NEW nd, NEW lf, StoreType(r, nd, lf), Tree(T, r, nd, lf),
         NEW s \in Slots(T), NEW n \in T, AtIn(r, nd, s) = n,
         NEW key \in 0..MaxKey, NEW path, path = KeyIn(nd, lf, n), path # key,
         n \in NodeIds => Above(key, nd[n].shift) # nd[n].path,
         s # RootSlot => /\ s[2] = slice_index(key, nd[s[1]].shift)
                         /\ Above(key, nd[s[1]].shift) = nd[s[1]].path,
         NEW sh, sh = CriticalShift(path, key),
         NEW m \in NodeIds, nd[m].shift = sh, nd[m].path = Above(key, sh),
         NEW k \in LeafIds, lf[k].key = key
  PROVE  /\ sh \in Shifts
         /\ slice_index(key, sh) \in Nibs /\ slice_index(path, sh) \in Nibs
         /\ slice_index(key, sh) # slice_index(path, sh)
         /\ Fits(nd, lf, m, slice_index(key, sh), k)
         /\ Fits(nd, lf, m, slice_index(path, sh), n)
         /\ s # RootSlot => Fits(nd, lf, s[1], s[2], m)
<1>1. n \in NodeIds \cup LeafIds /\ n # NULL
  BY Kinds DEF Tree
<1>2. path \in 0..MaxKey
  BY <1>1, Kinds DEF KeyIn, StoreType, NodeType, LeafType
<1>3. /\ sh \in Shifts /\ slice_index(path, sh) # slice_index(key, sh)
      /\ \A u \in Shifts : u > sh => slice_index(path, u) = slice_index(key, u)
  BY <1>2, CriticalShiftFacts
<1>4. slice_index(key, sh) \in Nibs /\ slice_index(path, sh) \in Nibs
  BY <1>2, <1>3, SliceType
<1>5. Above(path, sh) = Above(key, sh)
  BY <1>2, <1>3, AboveAgrees
<1>6. \A u, v \in Shifts : u \in Nat /\ v \in Nat
  BY LevelFacts
<1>7. ASSUME n \in NodeIds PROVE nd[n].shift < sh
  <2>1. nd[n].shift \in Shifts /\ path = nd[n].path /\ Above(path, nd[n].shift) = path
    BY <1>7, Kinds DEF KeyIn, StoreType, NodeType, PathType
  <2>2. PICK u \in Shifts : u > nd[n].shift /\ slice_index(path, u) # slice_index(key, u)
    BY <1>2, <1>7, <2>1, AboveAgrees
  <2>3. ~(u > sh)
    BY <1>3, <2>2
  <2> QED BY <1>3, <1>6, <2>1, <2>2, <2>3
<1>8. Fits(nd, lf, m, slice_index(key, sh), k)
  BY Kinds DEF Fits, KeyIn
<1>9. Fits(nd, lf, m, slice_index(path, sh), n)
  BY <1>5, <1>7 DEF Fits
<1>10. ASSUME s # RootSlot PROVE Fits(nd, lf, s[1], s[2], m)
  <2>1. PICK p, j : p = s[1] /\ j = s[2]
    OBVIOUS
  <2>2. p \in T \cap NodeIds /\ j \in Nibs /\ nd[p].child[j] = n
    BY <1>10, <2>1, SlotCases DEF AtIn
  <2>3. Fits(nd, lf, p, j, n)
    BY <2>2 DEF Tree
  <2>4. nd[p].shift \in Shifts
    BY <2>2 DEF StoreType, NodeType
  <2>5. Above(path, nd[p].shift) = nd[p].path /\ slice_index(path, nd[p].shift) = j
    BY <1>1, <2>3 DEF Fits
  <2>6. Above(key, nd[p].shift) = nd[p].path /\ slice_index(key, nd[p].shift) = j
    BY <1>10, <2>1
  <2>7. sh # nd[p].shift
    BY <1>3, <2>5, <2>6
  <2>8. ~(nd[p].shift < sh)
    <3> SUFFICES ASSUME nd[p].shift < sh PROVE FALSE
      OBVIOUS
    <3>1. slice_index(Above(path, nd[p].shift), sh) = slice_index(path, sh)
      BY <1>2, <1>3, <2>4, SliceOfAbove
    <3>2. slice_index(Above(key, nd[p].shift), sh) = slice_index(key, sh)
      BY <1>3, <2>4, SliceOfAbove
    <3> QED BY <1>3, <2>5, <2>6, <3>1, <3>2
  <2>9. sh < nd[p].shift
    BY <1>3, <1>6, <2>4, <2>7, <2>8
  <2>10. Above(Above(key, sh), nd[p].shift) = Above(key, nd[p].shift)
    <3>1. sh =< nd[p].shift
      BY <1>3, <1>6, <2>4, <2>9
    <3> QED BY <1>3, <2>4, <3>1, AboveAbove
  <2>11. slice_index(Above(key, sh), nd[p].shift) = slice_index(key, nd[p].shift)
    BY <1>3, <2>4, <2>9, SliceOfAbove
  <2>12. KeyIn(nd, lf, m) = Above(key, sh)
    BY Kinds DEF KeyIn
  <2> QED BY <2>1, <2>6, <2>9, <2>10, <2>11, <2>12 DEF Fits
<1> QED BY <1>3, <1>4, <1>8, <1>9, <1>10

-----------------------------------------------------------------------------
(* The pools: lists threaded through their elements *)

\* S are the elements of the list that starts at head and follows link; s
\* numbers them from the last.
Numbers(s, c, S, E, head, link) ==
  /\ c \in Nat /\ s \in [1..c -> E]
  /\ \A i, j \in 1..c : s[i] = s[j] => i = j
  /\ S = {s[i] : i \in 1..c}
  /\ head = IF c = 0 THEN NULL ELSE s[c]
  /\ \A i \in 1..c : link[s[i]] = IF i = 1 THEN NULL ELSE s[i - 1]
IsList(S, E, head, link) == \E c, s : Numbers(s, c, S, E, head, link)

\* The empty list.
LEMMA ListEmpty == \A E, link : IsList({}, E, NULL, link)
<1> SUFFICES ASSUME NEW E, NEW link PROVE IsList({}, E, NULL, link)
  OBVIOUS
<1> DEFINE s == [i \in 1..0 |-> 0]
<1>1. 0 \in Nat /\ 1..0 = {}
  OBVIOUS
<1>2. s \in [1..0 -> E]
  BY <1>1
<1>3. Numbers(s, 0, {}, E, NULL, link)
  BY <1>1, <1>2 DEF Numbers
<1> QED BY <1>3 DEF IsList

\* A list depends on the links of its elements.
LEMMA ListSame ==
  ASSUME NEW S, NEW E, NEW head, NEW link, IsList(S, E, head, link), NEW link2,
         \A x \in S : link2[x] = link[x]
  PROVE  IsList(S, E, head, link2)
<1>1. PICK c, s : Numbers(s, c, S, E, head, link)
  BY DEF IsList
<1>2. \A i \in 1..c : link2[s[i]] = link[s[i]]
  BY <1>1 DEF Numbers
<1>3. Numbers(s, c, S, E, head, link2)
  BY <1>1, <1>2 DEF Numbers
<1> QED BY <1>3 DEF IsList

\* The first element and the rest.
LEMMA ListPop ==
  ASSUME NEW S, NEW E, NEW head, NEW link, IsList(S, E, head, link), head # NULL, NEW link2,
         \A x \in S \ {head} : link2[x] = link[x]
  PROVE  head \in S /\ head \in E /\ IsList(S \ {head}, E, link[head], link2)
<1>1. PICK c, s : Numbers(s, c, S, E, head, link)
  BY DEF IsList
<1>2. /\ c \in Nat /\ c # 0 /\ s \in [1..c -> E] /\ head = s[c]
      /\ \A i, j \in 1..c : s[i] = s[j] => i = j
      /\ S = {s[i] : i \in 1..c}
      /\ \A i \in 1..c : link[s[i]] = IF i = 1 THEN NULL ELSE s[i - 1]
  BY <1>1 DEF Numbers
<1>3. c \in 1..c /\ c - 1 \in Nat /\ head \in S /\ head \in E
  BY <1>2
<1> DEFINE t == [i \in 1..c - 1 |-> s[i]]
<1>4. ASSUME NEW i \in 1..c - 1 PROVE i \in 1..c /\ t[i] = s[i] /\ s[i] # head /\ s[i] \in S /\ s[i] \in E
  BY <1>2, <1>3
<1>5. t \in [1..c - 1 -> E]
  BY <1>4
<1>6. \A i, j \in 1..c - 1 : t[i] = t[j] => i = j
  BY <1>2, <1>4
<1>7. S \ {head} = {t[i] : i \in 1..c - 1}
  <2>1. ASSUME NEW x \in S \ {head} PROVE \E i \in 1..c - 1 : t[i] = x
    <3>1. PICK i \in 1..c : x = s[i]
      BY <1>2
    <3>2. i # c
      BY <1>2, <3>1
    <3>3. i \in 1..c - 1
      BY <1>2, <3>1, <3>2
    <3> QED BY <1>4, <3>1, <3>3
  <2>2. \A i \in 1..c - 1 : t[i] \in S \ {head}
    BY <1>4
  <2> QED BY <2>1, <2>2
<1>8. link[head] = IF c - 1 = 0 THEN NULL ELSE t[c - 1]
  BY <1>2, <1>3
<1>9. ASSUME NEW i \in 1..c - 1 PROVE link2[t[i]] = IF i = 1 THEN NULL ELSE t[i - 1]
  <2>1. link2[t[i]] = link[s[i]] /\ i \in 1..c
    BY <1>4
  <2>2. link[s[i]] = IF i = 1 THEN NULL ELSE s[i - 1]
    BY <1>2, <2>1
  <2>3. i # 1 => t[i - 1] = s[i - 1]
    BY <1>3
  <2> QED BY <2>1, <2>2, <2>3
<1> HIDE DEF t
<1>10. Numbers(t, c - 1, S \ {head}, E, link[head], link2)
  BY <1>3, <1>5, <1>6, <1>7, <1>8, <1>9 DEF Numbers
<1> QED BY <1>3, <1>10 DEF IsList

\* An element is put in front.
LEMMA ListPush ==
  ASSUME NEW S, NEW E, NEW head, NEW link, IsList(S, E, head, link), NEW x \in E, x \notin S,
         NEW link2, link2[x] = head, \A y \in S : link2[y] = link[y]
  PROVE  IsList(S \cup {x}, E, x, link2)
<1>1. PICK c, s : Numbers(s, c, S, E, head, link)
  BY DEF IsList
<1>2. /\ c \in Nat /\ s \in [1..c -> E] /\ head = IF c = 0 THEN NULL ELSE s[c]
      /\ \A i, j \in 1..c : s[i] = s[j] => i = j
      /\ S = {s[i] : i \in 1..c}
      /\ \A i \in 1..c : link[s[i]] = IF i = 1 THEN NULL ELSE s[i - 1]
  BY <1>1 DEF Numbers
<1> DEFINE t == [i \in 1..c + 1 |-> IF i = c + 1 THEN x ELSE s[i]]
<1>3. c + 1 \in Nat /\ c + 1 # 0 /\ c + 1 \in 1..c + 1 /\ t[c + 1] = x
  BY <1>2
<1>4. ASSUME NEW i \in 1..c + 1 PROVE i = c + 1 \/ i \in 1..c
  BY <1>2
<1>5. ASSUME NEW i \in 1..c PROVE i \in 1..c + 1 /\ t[i] = s[i] /\ s[i] \in S /\ s[i] # x
  BY <1>2
<1>6. t \in [1..c + 1 -> E]
  BY <1>2, <1>4
<1>7. ASSUME NEW i \in 1..c + 1, NEW j \in 1..c + 1, t[i] = t[j] PROVE i = j
  BY <1>2, <1>3, <1>4, <1>5, <1>7
<1>8. S \cup {x} = {t[i] : i \in 1..c + 1}
  <2>1. ASSUME NEW y \in S \cup {x} PROVE \E i \in 1..c + 1 : t[i] = y
    BY <1>2, <1>3, <1>5
  <2>2. \A i \in 1..c + 1 : t[i] \in S \cup {x}
    BY <1>3, <1>4, <1>5
  <2> QED BY <2>1, <2>2
<1>9. ASSUME NEW i \in 1..c + 1 PROVE link2[t[i]] = IF i = 1 THEN NULL ELSE t[i - 1]
  <2>1. CASE i = c + 1
    <3>1. link2[t[i]] = head
      BY <1>3, <2>1
    <3>2. i # 1 => i - 1 \in 1..c /\ i - 1 = c
      BY <1>2, <2>1
    <3> QED BY <1>2, <1>5, <2>1, <3>1, <3>2
  <2>2. CASE i \in 1..c
    <3>1. link2[t[i]] = link[s[i]]
      BY <1>5, <2>2
    <3>2. i # 1 => i - 1 \in 1..c
      BY <1>2, <2>2
    <3> QED BY <1>2, <1>5, <2>2, <3>1, <3>2
  <2> QED BY <1>4, <2>1, <2>2
<1>10. x = IF c + 1 = 0 THEN NULL ELSE t[c + 1]
  BY <1>3
<1> HIDE DEF t
<1>11. Numbers(t, c + 1, S \cup {x}, E, x, link2)
  BY <1>3, <1>6, <1>7, <1>8, <1>9, <1>10 DEF Numbers
<1> QED BY <1>11 DEF IsList

\* Chain collects the elements of a list no longer than len.
LEMMA ChainIsList ==
  ASSUME NEW S, NEW E, NULL \notin E, NEW head, NEW link, NEW len \in Nat,
         IsFiniteSet(E), Cardinality(E) = len, IsList(S, E, head, link)
  PROVE  Chain(head, link, len) = S
<1>1. PICK c, s : Numbers(s, c, S, E, head, link)
  BY DEF IsList
<1>2. /\ c \in Nat /\ s \in [1..c -> E] /\ head = IF c = 0 THEN NULL ELSE s[c]
      /\ \A i, j \in 1..c : s[i] = s[j] => i = j
      /\ S = {s[i] : i \in 1..c}
      /\ \A i \in 1..c : link[s[i]] = IF i = 1 THEN NULL ELSE s[i - 1]
  BY <1>1 DEF Numbers
<1>3. c =< len
  <2> SUFFICES ASSUME len < c PROVE FALSE
    BY <1>2
  <2>1. IsFiniteSet(1..c) /\ Cardinality(1..c) = c
    <3>1. 1 \in Int /\ c \in Int /\ ~(1 > c) /\ c - 1 + 1 = c
      BY <1>2
    <3> QED BY <3>1, FS_Interval
  <2>2. \E i, j \in 1..c : i # j /\ s[i] = s[j]
    BY <1>2, <2>1, FS_PigeonHole
  <2> QED BY <1>2, <2>2
<1> DEFINE h == [i \in 0..len |-> IF i < c THEN s[c - i] ELSE NULL]
           R(f) == [i \in 0..len |-> IF i = 0 THEN head
                                     ELSE IF f[i - 1] = NULL THEN NULL ELSE link[f[i - 1]]]
           g == CHOOSE f : f = R(f)
<1>4. h[0] = head /\ 0 \in 0..len
  BY <1>2
<1>5. ASSUME NEW i \in 0..len, i # 0
      PROVE  h[i] = IF h[i - 1] = NULL THEN NULL ELSE link[h[i - 1]]
  <2>1. i \in Nat /\ i - 1 \in 0..len
    BY <1>5
  <2>2. h[i - 1] = IF i - 1 < c THEN s[c - (i - 1)] ELSE NULL
    BY <2>1
  <2>3. h[i] = IF i < c THEN s[c - i] ELSE NULL
    BY <1>5
  <2>4. CASE i - 1 < c
    <3>1. PICK j \in 1..c : j = c - (i - 1)
      BY <1>2, <1>5, <2>1, <2>4
    <3>2. h[i - 1] = s[j] /\ s[j] \in E /\ s[j] # NULL
      BY <1>2, <2>2, <2>4, <3>1
    <3>3. link[s[j]] = IF j = 1 THEN NULL ELSE s[j - 1]
      BY <1>2
    <3>4. j - 1 = c - i /\ (j = 1 <=> ~(i < c))
      BY <1>2, <2>1, <3>1
    <3> QED BY <2>3, <3>2, <3>3, <3>4
  <2>5. CASE ~(i - 1 < c)
    <3>1. ~(i < c)
      BY <1>2, <2>1, <2>5
    <3> QED BY <2>2, <2>3, <2>5, <3>1
  <2> QED BY <2>4, <2>5
<1>6. h = R(h)
  <2>1. ASSUME NEW i \in 0..len PROVE h[i] = R(h)[i]
    <3>1. CASE i = 0
      BY <1>4, <3>1
    <3>2. CASE i # 0
      <4>1. h[i] = IF h[i - 1] = NULL THEN NULL ELSE link[h[i - 1]]
        BY <1>5, <3>2
      <4> HIDE DEF h
      <4> QED BY <3>2, <4>1
    <3> QED BY <3>1, <3>2
  <2> QED BY <2>1
<1>7. g = R(g)
  <2> HIDE DEF R, h
  <2> QED BY <1>6
<1>8. Chain(head, link, len) = {g[i] : i \in 0..len} \ {NULL}
  BY DEF Chain
<1> HIDE DEF g
<1>9. \A i \in 0..len : g[i] = IF i = 0 THEN head
                               ELSE IF g[i - 1] = NULL THEN NULL ELSE link[g[i - 1]]
  BY <1>7
<1>10. \A i \in 0..len : g[i] = h[i]
  <2> DEFINE Bad == {i \in 0..len : g[i] # h[i]}
  <2> SUFFICES ASSUME Bad # {} PROVE FALSE
    OBVIOUS
  <2> HIDE DEF h
  <2>1. PICK i \in Bad : \A m \in Bad : i =< m
    <3>1. Bad \subseteq Nat
      OBVIOUS
    <3> HIDE DEF Bad
    <3> QED BY <3>1, Least
  <2>2. i # 0
    BY <1>4, <1>9, <2>1
  <2>3. i \in 0..len /\ i - 1 \in 0..len /\ i - 1 \notin Bad
    BY <2>1, <2>2
  <2> QED BY <1>5, <1>9, <2>1, <2>2, <2>3
<1>11. {h[i] : i \in 0..len} \ {NULL} = S
  <2>1. ASSUME NEW x \in S PROVE \E i \in 0..len : h[i] = x /\ x # NULL
    <3>1. PICK j \in 1..c : x = s[j]
      BY <1>2
    <3>2. c - j \in 0..len /\ c - j < c /\ c - (c - j) = j
      BY <1>2, <1>3, <3>1
    <3>3. h[c - j] = s[j]
      BY <3>2
    <3> QED BY <1>2, <3>1, <3>2, <3>3
  <2>2. ASSUME NEW i \in 0..len, h[i] # NULL PROVE h[i] \in S
    <3>1. i < c /\ h[i] = s[c - i]
      BY <2>2
    <3>2. c - i \in 1..c
      BY <1>2, <3>1
    <3> QED BY <1>2, <3>1, <3>2
  <2> HIDE DEF h
  <2> QED BY <2>1, <2>2
<1> HIDE DEF h
<1> QED BY <1>8, <1>10, <1>11

-----------------------------------------------------------------------------
(* InTree collects the tree *)

\* g[i] is what is at most i links below the root.
Reaches(g) ==
  /\ g \in [0..Slices -> SUBSET Ptr]
  /\ g[0] = {root}
  /\ \A i \in 1..Slices : g[i] = g[i - 1] \cup Below(g[i - 1])

LEMMA ReachExists ==
  ASSUME StoreType(root, node, leaf)
  PROVE  \E g : Reaches(g) /\ InTree = g[Slices] \ {NULL}
<1> DEFINE D == SUBSET Ptr
           F == [X \in D |-> X \cup Below(X)]
           R(f) == [i \in 0..Slices |-> IF i = 0 THEN {root} ELSE f[i - 1] \cup Below(f[i - 1])]
           g == CHOOSE f : f = R(f)
<1>1. ASSUME NEW X \in D PROVE X \cup Below(X) \in D
  <2>1. ASSUME NEW n \in X \cap NodeIds, NEW j \in Nibs PROVE node[n].child[j] \in Ptr
    BY DEF StoreType, NodeType
  <2> QED BY <2>1 DEF Below
<1>2. F \in [D -> D] /\ {root} \in D /\ Slices \in Nat
  BY <1>1, SliceAssumption DEF StoreType
<1>3. PICK f : Iterates(f, D, {root}, F, Slices)
  <2> HIDE DEF F, D
  <2> QED BY <1>2, IterationExists
<1>4. f \in [0..Slices -> D] /\ f[0] = {root} /\ \A i \in 1..Slices : f[i] = F[f[i - 1]]
  BY <1>3 DEF Iterates
<1>5. ASSUME NEW i \in 1..Slices PROVE f[i] = f[i - 1] \cup Below(f[i - 1])
  <2>1. f[i - 1] \in D
    BY <1>2, <1>4
  <2> QED BY <1>4, <2>1
<1>6. f = R(f)
  <2>1. ASSUME NEW i \in 0..Slices PROVE f[i] = R(f)[i]
    BY <1>2, <1>4, <1>5
  <2> QED BY <1>4, <2>1
<1>7. g = R(g)
  <2> HIDE DEF R
  <2> QED BY <1>6
<1>8. InTree = g[Slices] \ {NULL}
  BY DEF InTree
<1> HIDE DEF g
<1>9. \A i \in 0..Slices : g[i] = IF i = 0 THEN {root} ELSE g[i - 1] \cup Below(g[i - 1])
  BY <1>7
<1>10. DOMAIN g = 0..Slices /\ g = [i \in 0..Slices |-> g[i]]
  BY <1>7
<1>11. g[0] = {root} /\ \A i \in 1..Slices : g[i] = g[i - 1] \cup Below(g[i - 1])
  <2>1. 0 \in 0..Slices /\ \A i \in 1..Slices : i \in 0..Slices /\ i # 0
    BY <1>2
  <2>2. ASSUME NEW i \in 1..Slices PROVE g[i] = g[i - 1] \cup Below(g[i - 1])
    BY <1>9, <2>1
  <2>3. g[0] = {root}
    BY <1>9, <2>1
  <2> QED BY <2>2, <2>3
<1>12. \A i \in 0..Slices : g[i] \in D
  <2> DEFINE Bad == {i \in 0..Slices : g[i] \notin D}
  <2> SUFFICES ASSUME Bad # {} PROVE FALSE
    OBVIOUS
  <2> HIDE DEF D
  <2>1. PICK i \in Bad : \A m \in Bad : i =< m
    <3>1. Bad \subseteq Nat
      BY <1>2
    <3> HIDE DEF Bad
    <3> QED BY <3>1, Least
  <2>2. i # 0
    BY <1>2, <1>11, <2>1
  <2>3. i \in 1..Slices /\ i - 1 \in 0..Slices /\ i - 1 \notin Bad
    BY <2>1, <2>2, <1>2
  <2> QED BY <1>1, <1>11, <2>1, <2>3
<1>13. g \in [0..Slices -> D]
  BY <1>10, <1>12
<1> QED BY <1>8, <1>11, <1>13 DEF Reaches

LEMMA InTreeIsTree ==
  ASSUME NEW T, StoreType(root, node, leaf), Tree(T, root, node, leaf)
  PROVE  InTree = T
<1>1. PICK g : Reaches(g) /\ InTree = g[Slices] \ {NULL}
  BY ReachExists
<1>2. g[0] = {root} /\ \A i \in 1..Slices : g[i] = g[i - 1] \cup Below(g[i - 1])
  BY <1>1 DEF Reaches
<1>3. Slices \in Nat /\ Slices # 0
  BY SliceAssumption
<1>4. \A i \in 0..Slices : g[i] \subseteq T \cup {NULL}
  <2> DEFINE Bad == {i \in 0..Slices : ~(g[i] \subseteq T \cup {NULL})}
  <2> SUFFICES ASSUME Bad # {} PROVE FALSE
    OBVIOUS
  <2>1. PICK i \in Bad : \A m \in Bad : i =< m
    <3>1. Bad \subseteq Nat
      BY <1>3
    <3> HIDE DEF Bad
    <3> QED BY <3>1, Least
  <2>2. root \in T \cup {NULL}
    BY DEF Tree, Slots, AtIn
  <2>3. i # 0
    BY <1>2, <2>1, <2>2
  <2>4. i \in 1..Slices /\ i - 1 \in 0..Slices /\ i - 1 \notin Bad
    BY <2>1, <2>3, <1>3
  <2>5. g[i - 1] \subseteq T \cup {NULL}
    BY <2>4
  <2>6. ASSUME NEW n \in g[i - 1] \cap NodeIds, NEW j \in Nibs
        PROVE  node[n].child[j] \in T \cup {NULL}
    <3>1. n \in T \cap NodeIds
      BY <2>5, Kinds
    <3>2. <<n, j>> \in Slots(T) /\ AtIn(root, node, <<n, j>>) = node[n].child[j]
      BY <3>1, NodeSlot
    <3> QED BY <3>2 DEF Tree
  <2> QED BY <1>2, <2>1, <2>4, <2>5, <2>6 DEF Below
<1>5. ASSUME NEW i \in 0..Slices, NEW j \in 0..Slices, i =< j PROVE g[i] \subseteq g[j]
  <2> DEFINE Bad == {m \in i..Slices : ~(g[i] \subseteq g[m])}
  <2> SUFFICES ASSUME Bad # {} PROVE FALSE
    BY <1>3, <1>5
  <2>1. PICK l \in Bad : \A m \in Bad : l =< m
    <3>1. Bad \subseteq Nat
      BY <1>3
    <3> HIDE DEF Bad
    <3> QED BY <3>1, Least
  <2>2. l # i
    BY <2>1
  <2>3. l \in 1..Slices /\ l - 1 \in i..Slices /\ l - 1 \notin Bad
    BY <2>1, <2>2, <1>3
  <2>4. g[i] \subseteq g[l - 1]
    BY <2>3
  <2> QED BY <1>2, <2>1, <2>3, <2>4
<1>6. \A n \in NodeIds : node[n].shift \in Shifts /\ Level(node[n].shift) \in 0..Slices - 1
  BY LevelFacts DEF StoreType, NodeType
<1>7. ASSUME NEW x \in T PROVE x = root \/ \E p \in T \cap NodeIds, j \in Nibs : node[p].child[j] = x
  <2>1. PICK s \in Slots(T) : AtIn(root, node, s) = x
    BY DEF Tree
  <2>2. CASE s = RootSlot
    BY <2>1, <2>2 DEF AtIn
  <2>3. CASE s # RootSlot
    BY <2>1, <2>3, SlotCases DEF AtIn
  <2> QED BY <2>2, <2>3
<1>8. ASSUME NEW i \in 1..Slices, NEW p \in g[i - 1] \cap NodeIds, NEW j \in Nibs
      PROVE  node[p].child[j] \in g[i]
  BY <1>2 DEF Below
<1> DEFINE Depth(n) == Slices - 1 - Level(node[n].shift)
<1>9. ASSUME NEW n \in T \cap NodeIds PROVE n \in g[Depth(n)]
  <2> DEFINE Bad == {d \in Nat : \E l \in T \cap NodeIds : d = Depth(l) /\ l \notin g[Depth(l)]}
  <2> SUFFICES ASSUME Bad # {} PROVE FALSE
    <3>1. Depth(n) \in Nat
      BY <1>3, <1>6
    <3> QED BY <3>1
  <2>1. PICK d \in Bad : \A m \in Bad : d =< m
    <3>1. Bad \subseteq Nat
      OBVIOUS
    <3> HIDE DEF Bad
    <3> QED BY <3>1, Least
  <2>2. PICK l \in T \cap NodeIds : d = Depth(l) /\ l \notin g[Depth(l)]
    BY <2>1
  <2>3. Depth(l) \in 0..Slices /\ 0 \in 0..Slices
    BY <1>3, <1>6
  <2>4. l # root
    <3>1. g[0] \subseteq g[Depth(l)]
      BY <1>3, <1>5, <2>3
    <3> QED BY <1>2, <2>2, <3>1
  <2>5. PICK p \in T \cap NodeIds, j \in Nibs : node[p].child[j] = l
    BY <1>7, <2>4
  <2>6. Fits(node, leaf, p, j, l)
    BY <2>5 DEF Tree
  <2>7. Level(node[l].shift) < Level(node[p].shift)
    BY <1>6, <2>6, Kinds, LevelFacts DEF Fits
  <2>8. Depth(p) \in Nat /\ Depth(p) < d /\ Depth(p) + 1 \in 1..Slices /\ Depth(p) + 1 =< Depth(l)
        /\ (Depth(p) + 1) - 1 = Depth(p)
    BY <1>3, <1>6, <2>2, <2>7
  <2>9. p \in g[Depth(p)]
    <3>1. Depth(p) \notin Bad
      BY <2>1, <2>8
    <3> QED BY <2>5, <2>8, <3>1
  <2>10. l \in g[Depth(p) + 1]
    <3> HIDE DEF Depth
    <3> QED BY <1>8, <2>5, <2>8, <2>9
  <2>11. g[Depth(p) + 1] \subseteq g[Depth(l)]
    <3>1. Depth(p) + 1 \in 0..Slices
      BY <2>8
    <3> HIDE DEF Depth
    <3> QED BY <1>5, <2>3, <2>8, <3>1
  <2> QED BY <2>2, <2>10, <2>11
<1>10. ASSUME NEW x \in T PROVE x \in g[Slices]
  <2>1. Slices \in 0..Slices /\ 0 \in 0..Slices
    BY <1>3
  <2>2. CASE x = root
    <3>1. g[0] \subseteq g[Slices]
      BY <1>3, <1>5, <2>1
    <3> QED BY <1>2, <2>2, <3>1
  <2>3. CASE x # root
    <3>1. PICK p \in T \cap NodeIds, j \in Nibs : node[p].child[j] = x
      BY <1>7, <2>3
    <3>2. p \in g[Depth(p)]
      BY <1>9
    <3>3. Depth(p) + 1 \in 1..Slices /\ Depth(p) + 1 \in 0..Slices /\ (Depth(p) + 1) - 1 = Depth(p)
          /\ Depth(p) + 1 =< Slices
      BY <1>3, <1>6
    <3> HIDE DEF Depth
    <3>4. x \in g[Depth(p) + 1]
      BY <1>8, <3>1, <3>2, <3>3
    <3>5. g[Depth(p) + 1] \subseteq g[Slices]
      BY <1>5, <2>1, <3>3
    <3> QED BY <3>4, <3>5
  <2> QED BY <2>2, <2>3
<1>11. g[Slices] \subseteq T \cup {NULL} /\ NULL \notin T
  <2>1. Slices \in 0..Slices
    BY <1>3
  <2> QED BY <1>4, <2>1, Kinds DEF Tree
<1> QED BY <1>1, <1>10, <1>11

-----------------------------------------------------------------------------
(* The inductive invariant *)

NodeLink(nd) == [n \in NodeIds |-> nd[n].child[0]]
LeafLink(lf) == [k \in LeafIds |-> lf[k].value]
Dels == 0..DELETED_LIFE - 1
PendType == [node : NodeIds \cup {NULL}, leaf : LeafIds \cup {NULL}]
PoolType == [node : NodeIds \cup {NULL}, leaf : LeafIds \cup {NULL},
             freshNode : 1..MaxNodes + 1, freshLeaf : MaxNodes + 1..MaxNodes + MaxLeaves + 1]
CallType ==
  {Free} \cup [pc : {"place"}, k : LeafIds]
    \cup [pc : {"link"}, k : LeafIds, m : NodeIds, slot : Slots(NodeIds)]
    \cup [pc : {"recycle", "unlink"}, key : Keys, del : Dels]
    \cup [pc : {"collapse"}, del : Dels, n : NodeIds, up : Slots(NodeIds)]

WriterType ==
  /\ StoreType(root, node, leaf)
  /\ pool \in PoolType /\ pend \in [Dels -> PendType]
  /\ removes \in Nat /\ writes \in Nat /\ map \in [Keys -> Nat] /\ w \in CallType

\* The parts of U, disjoint.
Split(A, B, C, D, U) ==
  /\ A \cup B \cup C \cup D = U
  /\ A \cap B = {} /\ A \cap C = {} /\ A \cap D = {}
  /\ B \cap C = {} /\ B \cap D = {} /\ C \cap D = {}

\* No element waits in two places of pend.
PendOnce(pd) ==
  \A i, j \in Dels : /\ pd[i].node = pd[j].node /\ pd[i].node # NULL => i = j
                     /\ pd[i].leaf = pd[j].leaf /\ pd[i].leaf # NULL => i = j

\* The leaves of the tree are the entries of the map.
Stored(T) ==
  /\ \A k \in T \cap LeafIds : leaf[k].key \in Keys /\ map[leaf[k].key] = leaf[k].value
  /\ \A key \in Keys : map[key] # NULL => \E k \in T \cap LeafIds : leaf[k].key = key

\* A node m with the new leaf k and what is at s, ready to be linked there.
LinkReady(T, k, m, s) ==
  /\ s \in Slots(T) /\ leaf[k].key \in Keys
  /\ \A l \in T \cap LeafIds : leaf[l].key # leaf[k].key
  /\ s # RootSlot => Fits(node, leaf, s[1], s[2], m)
  /\ \E n \in T, ik \in Nibs, im \in Nibs :
       /\ At(s) = n /\ ik # im
       /\ node[m].child[ik] = k /\ node[m].child[im] = n
       /\ \A j \in Nibs \ {ik, im} : node[m].child[j] = NULL
       /\ Fits(node, leaf, m, ik, k) /\ Fits(node, leaf, m, im, n)

\* What the call that holds the mutex knows.
Held(T) ==
  /\ w.pc = "place" => leaf[w.k].key \in Keys
  /\ w.pc = "link" => LinkReady(T, w.k, w.m, w.slot)
  /\ w.pc \in {"recycle", "unlink", "collapse"} => removes # 0 /\ w.del = (removes - 1) % DELETED_LIFE
  /\ w.pc = "unlink" => pend[w.del].node = NULL /\ pend[w.del].leaf = NULL
  /\ w.pc = "collapse" => /\ w.n \in T \cap NodeIds /\ w.up \in Slots(T) /\ At(w.up) = w.n
                          /\ pend[w.del].node = NULL

\* T is in the tree, PN and PL are in the pools.
WriterInv(T, PN, PL) ==
  /\ WriterType
  /\ Tree(T, root, node, leaf)
  /\ IsList(PN, NodeIds, pool.node, NodeLink(node))
  /\ IsList(PL, LeafIds, pool.leaf, LeafLink(leaf))
  /\ Split(T, Pending, PN \cup PL, InHand, HandedOut)
  /\ PendOnce(pend)
  /\ Stored(T)
  /\ Held(T)
KeptAs(T) == \E PN, PL : WriterInv(T, PN, PL)
Inv == \E T : KeptAs(T)

\* The elements of a list are of its kind.
LEMMA ListIn ==
  ASSUME NEW S, NEW E, NEW head, NEW link, IsList(S, E, head, link)
  PROVE  S \subseteq E
BY DEF IsList, Numbers

\* The invariant gives both invariants of the run.
LEMMA InvTreeIsMap == Inv => TreeIsMap
<1> SUFFICES ASSUME NEW T, NEW PN, NEW PL, WriterInv(T, PN, PL), NEW key \in Keys
             PROVE  LET n == At(Walk(key, FALSE).slot)
                    IN  map[key] = IF n # NULL /\ leaf[n].key = key THEN leaf[n].value ELSE NULL
  BY DEF Inv, KeptAs, TreeIsMap
<1>1. PICK n : n = At(Walk(key, FALSE).slot)
  OBVIOUS
<1>2. /\ StoreType(root, node, leaf) /\ Tree(T, root, node, leaf) /\ Stored(T) /\ map \in [Keys -> Nat]
      /\ key \in 0..MaxKey
  BY KeyAssumption DEF WriterInv, WriterType
<1>3. PICK at : at = Walk(key, FALSE)
  OBVIOUS
<1>4. n \in T \cup {NULL} /\ n \notin NodeIds
  BY <1>1, <1>2, <1>3, WalkEnd DEF Differs
<1>5. CASE n # NULL /\ leaf[n].key = key
  <2>1. n \in T \cap LeafIds
    BY <1>2, <1>4, <1>5 DEF Tree
  <2> QED BY <1>1, <1>2, <1>5, <2>1 DEF Stored
<1>6. CASE ~(n # NULL /\ leaf[n].key = key)
  <2>1. map[key] = NULL
    <3> SUFFICES ASSUME map[key] # NULL PROVE FALSE
      OBVIOUS
    <3>1. PICK k \in T \cap LeafIds : leaf[k].key = key
      BY <1>2 DEF Stored
    <3>2. n = k
      BY <1>1, <1>2, <3>1, WalkFinds
    <3> QED BY <1>6, <3>1, <3>2, Kinds
  <2> QED BY <1>1, <1>6, <2>1
<1> QED BY <1>1, <1>5, <1>6

LEMMA PooledIsLists ==
  ASSUME NEW PN, NEW PL, IsList(PN, NodeIds, pool.node, NodeLink(node)),
         IsList(PL, LeafIds, pool.leaf, LeafLink(leaf))
  PROVE  Pooled = PN \cup PL
<1>1. IsFiniteSet(NodeIds) /\ Cardinality(NodeIds) = MaxNodes /\ MaxNodes \in Nat
  <2>1. 1 \in Int /\ MaxNodes \in Int /\ ~(1 > MaxNodes) /\ MaxNodes - 1 + 1 = MaxNodes
    BY ElementAssumption
  <2> QED BY <2>1, FS_Interval, ElementAssumption DEF NodeIds
<1>2. IsFiniteSet(LeafIds) /\ Cardinality(LeafIds) = MaxLeaves /\ MaxLeaves \in Nat
  <2>1. PICK a \in Int, b \in Int : a = MaxNodes + 1 /\ b = MaxNodes + MaxLeaves
    BY ElementAssumption
  <2>2. ~(a > b) /\ b - a + 1 = MaxLeaves /\ LeafIds = a..b
    BY <2>1, ElementAssumption DEF LeafIds
  <2> QED BY <2>1, <2>2, FS_Interval, ElementAssumption
<1>3. NULL \notin NodeIds /\ NULL \notin LeafIds
  BY Kinds
<1>4. Chain(pool.node, NodeLink(node), MaxNodes) = PN
  BY <1>1, <1>3, ChainIsList
<1>5. Chain(pool.leaf, LeafLink(leaf), MaxLeaves) = PL
  BY <1>2, <1>3, ChainIsList
<1> QED BY <1>4, <1>5 DEF Pooled, NodeLink, LeafLink

LEMMA InvElementsKept == Inv => ElementsKept
<1> SUFFICES ASSUME NEW T, NEW PN, NEW PL, WriterInv(T, PN, PL) PROVE ElementsKept
  BY DEF Inv, KeptAs
<1>1. InTree = T
  BY InTreeIsTree DEF WriterInv, WriterType
<1>2. Pooled = PN \cup PL
  BY PooledIsLists DEF WriterInv
<1>3. Split(InTree, Pending, Pooled, InHand, HandedOut)
  BY <1>1, <1>2 DEF WriterInv
<1>4. PICK A, B, C, D : A = InTree /\ B = Pending /\ C = Pooled /\ D = InHand
  OBVIOUS
<1>5. PICK places : places = <<A, B, C, D>>
  OBVIOUS
<1>6. places[1] = A /\ places[2] = B /\ places[3] = C /\ places[4] = D
  BY <1>5
<1>7. \A i \in 1..4 : i = 1 \/ i = 2 \/ i = 3 \/ i = 4
  OBVIOUS
<1>8. UNION {places[i] : i \in 1..4} = A \cup B \cup C \cup D
  <2>1. \A x : x \in UNION {places[i] : i \in 1..4} <=> \E i \in 1..4 : x \in places[i]
    OBVIOUS
  <2>2. \A x : (\E i \in 1..4 : x \in places[i]) <=> x \in A \cup B \cup C \cup D
    <3>1. 1 \in 1..4 /\ 2 \in 1..4 /\ 3 \in 1..4 /\ 4 \in 1..4
      OBVIOUS
    <3> QED BY <1>6, <1>7, <3>1
  <2> QED BY <2>1, <2>2
<1>9. \A i, j \in 1..4 : i # j => places[i] \cap places[j] = {}
  <2> SUFFICES ASSUME NEW i \in 1..4, NEW j \in 1..4, i # j PROVE places[i] \cap places[j] = {}
    OBVIOUS
  <2>1. /\ A \cap B = {} /\ A \cap C = {} /\ A \cap D = {}
        /\ B \cap C = {} /\ B \cap D = {} /\ C \cap D = {}
    BY <1>3, <1>4 DEF Split
  <2> QED BY <1>6, <1>7, <2>1
<1> QED BY <1>3, <1>4, <1>5, <1>8, <1>9 DEF Split, ElementsKept

-----------------------------------------------------------------------------
(* What waits, what is in hand, what was handed out *)

PendingOf(pd) == (UNION {{pd[i].node, pd[i].leaf} : i \in DOMAIN pd}) \ {NULL}
HandOf(c) == CASE c.pc = "place" -> {c.k} [] c.pc = "link" -> {c.k, c.m} [] OTHER -> {}
HandedBy(p) == (1..p.freshNode - 1) \cup (MaxNodes + 1..p.freshLeaf - 1)

LEMMA PlacesOf == Pending = PendingOf(pend) /\ InHand = HandOf(w) /\ HandedOut = HandedBy(pool)
BY DEF Pending, PendingOf, InHand, HandOf, HandedOut, HandedBy

LEMMA HandCases ==
  /\ \A c : c.pc = "place" => HandOf(c) = {c.k}
  /\ \A c : c.pc = "link" => HandOf(c) = {c.k, c.m}
  /\ \A c : c.pc # "place" /\ c.pc # "link" => HandOf(c) = {}
BY DEF HandOf

LEMMA PendingMember ==
  ASSUME NEW pd \in [Dels -> PendType], NEW x
  PROVE  x \in PendingOf(pd) <=> x # NULL /\ \E i \in Dels : x = pd[i].node \/ x = pd[i].leaf
<1>1. DOMAIN pd = Dels
  OBVIOUS
<1>2. PICK S : S = {{pd[i].node, pd[i].leaf} : i \in Dels}
  OBVIOUS
<1>3. PendingOf(pd) = (UNION S) \ {NULL}
  BY <1>1, <1>2 DEF PendingOf
<1>4. x \in (UNION S) <=> \E i \in Dels : x \in {pd[i].node, pd[i].leaf}
  BY <1>2
<1>5. x \in PendingOf(pd) <=> x \in (UNION S) /\ x # NULL
  BY <1>3
<1>6. ASSUME NEW i \in Dels PROVE x \in {pd[i].node, pd[i].leaf} <=> x = pd[i].node \/ x = pd[i].leaf
  OBVIOUS
<1> QED BY <1>4, <1>5, <1>6

LEMMA PendingKinds ==
  ASSUME NEW pd \in [Dels -> PendType], NEW i \in Dels
  PROVE  /\ pd[i].node \in NodeIds \cup {NULL} /\ pd[i].leaf \in LeafIds \cup {NULL}
         /\ pd[i].node # NULL => pd[i].node \in PendingOf(pd)
         /\ pd[i].leaf # NULL => pd[i].leaf \in PendingOf(pd)
<1>1. pd[i] \in PendType
  OBVIOUS
<1> QED BY <1>1, PendingMember DEF PendType

\* The changes of pend and of the pools, on any of them.
LeafWaits(pd, d, k, pd2) == pd2 = [pd EXCEPT ![d].leaf = k]
NodeWaits(pd, d, n, pd2) == pd2 = [pd EXCEPT ![d].node = n]
Cleared(pd, d, pd2) == pd2 = [pd EXCEPT ![d] = [node |-> NULL, leaf |-> NULL]]
NodeFreed(nd, head, n, nd2, head2) ==
  /\ nd2 = IF n = NULL THEN nd ELSE [nd EXCEPT ![n].child[0] = head]
  /\ head2 = IF n = NULL THEN head ELSE n
LeafFreed(lf, head, k, lf2, head2) ==
  /\ lf2 = IF k = NULL THEN lf ELSE [lf EXCEPT ![k].value = head]
  /\ head2 = IF k = NULL THEN head ELSE k

\* A leaf starts to wait.
LEMMA PendingLeaf ==
  ASSUME NEW pd \in [Dels -> PendType], PendOnce(pd), NEW d \in Dels, NEW k \in LeafIds,
         k \notin PendingOf(pd), pd[d].leaf = NULL,
         NEW pd2, LeafWaits(pd, d, k, pd2)
  PROVE  /\ pd2 \in [Dels -> PendType] /\ PendOnce(pd2)
         /\ PendingOf(pd2) = PendingOf(pd) \cup {k}
         /\ pd2[d].node = pd[d].node
<1>1. pd[d] \in PendType
  OBVIOUS
<1>2. pd2[d] = [pd[d] EXCEPT !.leaf = k] /\ \A i \in Dels : i # d => pd2[i] = pd[i]
  BY DEF LeafWaits
<1>3. pd2[d].node = pd[d].node /\ pd2[d].leaf = k /\ pd2[d] \in PendType
  BY <1>1, <1>2 DEF PendType
<1>4. pd2 \in [Dels -> PendType]
  BY <1>2, <1>3 DEF LeafWaits
<1>5. k # NULL
  BY Kinds
<1>6. ASSUME NEW x PROVE x \in PendingOf(pd2) <=> x \in PendingOf(pd) \cup {k}
  <2>1. x \in PendingOf(pd2) <=> x # NULL /\ \E i \in Dels : x = pd2[i].node \/ x = pd2[i].leaf
    BY <1>4, PendingMember
  <2>2. x \in PendingOf(pd) <=> x # NULL /\ \E i \in Dels : x = pd[i].node \/ x = pd[i].leaf
    BY PendingMember
  <2> QED BY <1>2, <1>3, <1>5, <2>1, <2>2
<1>7. \A i \in Dels : pd[i].leaf # k
  BY <1>5, PendingKinds
<1>8. PendOnce(pd2)
  BY <1>2, <1>3, <1>5, <1>7 DEF PendOnce, LeafWaits
<1> QED BY <1>3, <1>4, <1>6, <1>8

\* A node starts to wait.
LEMMA PendingNode ==
  ASSUME NEW pd \in [Dels -> PendType], PendOnce(pd), NEW d \in Dels, NEW n \in NodeIds,
         n \notin PendingOf(pd), pd[d].node = NULL,
         NEW pd2, NodeWaits(pd, d, n, pd2)
  PROVE  /\ pd2 \in [Dels -> PendType] /\ PendOnce(pd2)
         /\ PendingOf(pd2) = PendingOf(pd) \cup {n}
<1>1. pd[d] \in PendType
  OBVIOUS
<1>2. pd2[d] = [pd[d] EXCEPT !.node = n] /\ \A i \in Dels : i # d => pd2[i] = pd[i]
  BY DEF NodeWaits
<1>3. pd2[d].leaf = pd[d].leaf /\ pd2[d].node = n /\ pd2[d] \in PendType
  BY <1>1, <1>2 DEF PendType
<1>4. pd2 \in [Dels -> PendType]
  BY <1>2, <1>3 DEF NodeWaits
<1>5. n # NULL
  BY Kinds
<1>6. ASSUME NEW x PROVE x \in PendingOf(pd2) <=> x \in PendingOf(pd) \cup {n}
  <2>1. x \in PendingOf(pd2) <=> x # NULL /\ \E i \in Dels : x = pd2[i].node \/ x = pd2[i].leaf
    BY <1>4, PendingMember
  <2>2. x \in PendingOf(pd) <=> x # NULL /\ \E i \in Dels : x = pd[i].node \/ x = pd[i].leaf
    BY PendingMember
  <2> QED BY <1>2, <1>3, <1>5, <2>1, <2>2
<1>7. \A i \in Dels : pd[i].node # n
  BY <1>5, PendingKinds
<1>8. PendOnce(pd2)
  BY <1>2, <1>3, <1>5, <1>7 DEF PendOnce, NodeWaits
<1> QED BY <1>4, <1>6, <1>8

\* What waits in one place is taken out.
LEMMA PendingClear ==
  ASSUME NEW pd \in [Dels -> PendType], PendOnce(pd), NEW d \in Dels,
         NEW pd2, Cleared(pd, d, pd2)
  PROVE  /\ pd2 \in [Dels -> PendType] /\ PendOnce(pd2)
         /\ PendingOf(pd2) = PendingOf(pd) \ {pd[d].node, pd[d].leaf}
         /\ pd2[d].node = NULL /\ pd2[d].leaf = NULL
<1>1. pd2[d] = [node |-> NULL, leaf |-> NULL] /\ \A i \in Dels : i # d => pd2[i] = pd[i]
  BY DEF Cleared
<1>2. pd2[d].node = NULL /\ pd2[d].leaf = NULL /\ pd2[d] \in PendType
  BY <1>1 DEF PendType
<1>3. pd2 \in [Dels -> PendType]
  BY <1>1, <1>2 DEF Cleared
<1>4. \A i \in Dels : pd[i].node \in NodeIds \cup {NULL} /\ pd[i].leaf \in LeafIds \cup {NULL}
  BY PendingKinds
<1>5. ASSUME NEW x PROVE x \in PendingOf(pd2) <=> x \in PendingOf(pd) \ {pd[d].node, pd[d].leaf}
  <2>1. x \in PendingOf(pd2) <=> x # NULL /\ \E i \in Dels : x = pd2[i].node \/ x = pd2[i].leaf
    BY <1>3, PendingMember
  <2>2. x \in PendingOf(pd) <=> x # NULL /\ \E i \in Dels : x = pd[i].node \/ x = pd[i].leaf
    BY PendingMember
  <2>3. ASSUME x \in PendingOf(pd2) PROVE x \in PendingOf(pd) \ {pd[d].node, pd[d].leaf}
    <3>1. PICK i \in Dels : x # NULL /\ (x = pd2[i].node \/ x = pd2[i].leaf)
      BY <2>1, <2>3
    <3>2. i # d
      BY <1>2, <3>1
    <3>3. x = pd[i].node \/ x = pd[i].leaf
      BY <1>1, <3>1, <3>2
    <3>4. x # pd[d].node /\ x # pd[d].leaf
      BY <1>4, <3>1, <3>2, <3>3, Kinds DEF PendOnce
    <3> QED BY <2>2, <3>1, <3>3, <3>4
  <2>4. ASSUME x \in PendingOf(pd) \ {pd[d].node, pd[d].leaf} PROVE x \in PendingOf(pd2)
    BY <1>1, <2>1, <2>2, <2>4
  <2> QED BY <2>3, <2>4
<1>6. PendOnce(pd2)
  BY <1>1, <1>2 DEF PendOnce
<1> QED BY <1>2, <1>3, <1>5, <1>6

\* The head of a list is of its kind.
LEMMA ListHead ==
  ASSUME NEW S, NEW E, NEW head, NEW link, IsList(S, E, head, link)
  PROVE  head \in E \cup {NULL}
<1>1. PICK c, s : Numbers(s, c, S, E, head, link)
  BY DEF IsList
<1>2. c \in Nat /\ s \in [1..c -> E] /\ head = IF c = 0 THEN NULL ELSE s[c]
  BY <1>1 DEF Numbers
<1> QED BY <1>2

\* The next element the pool gives is new or the head of the list.
LEMMA Fresh ==
  ASSUME NEW p \in PoolType
  PROVE  /\ p.freshLeaf \in LeafIds => /\ p.freshLeaf \notin HandedBy(p)
                                       /\ HandedBy([p EXCEPT !.freshLeaf = @ + 1]) = HandedBy(p) \cup {p.freshLeaf}
                                       /\ [p EXCEPT !.freshLeaf = @ + 1] \in PoolType
         /\ p.freshNode \in NodeIds => /\ p.freshNode \notin HandedBy(p)
                                       /\ HandedBy([p EXCEPT !.freshNode = @ + 1]) = HandedBy(p) \cup {p.freshNode}
                                       /\ [p EXCEPT !.freshNode = @ + 1] \in PoolType
<1>1. PICK a, b : a = p.freshNode /\ b = p.freshLeaf
  OBVIOUS
<1>2. a \in 1..MaxNodes + 1 /\ b \in MaxNodes + 1..MaxNodes + MaxLeaves + 1
  BY <1>1 DEF PoolType
<1>3. MaxNodes \in Nat /\ MaxLeaves \in Nat
  BY ElementAssumption
<1>4. ASSUME b \in LeafIds
      PROVE  /\ b \notin HandedBy(p)
             /\ HandedBy([p EXCEPT !.freshLeaf = @ + 1]) = HandedBy(p) \cup {b}
             /\ [p EXCEPT !.freshLeaf = @ + 1] \in PoolType
  <2>1. b \in Nat /\ b >= MaxNodes + 1 /\ b =< MaxNodes + MaxLeaves
    BY <1>2, <1>3, <1>4 DEF LeafIds
  <2>2. PICK p2 : p2 = [p EXCEPT !.freshLeaf = @ + 1]
    OBVIOUS
  <2>3. p2.freshNode = a /\ p2.freshLeaf = b + 1 /\ p2.node = p.node /\ p2.leaf = p.leaf
    BY <1>1, <2>2 DEF PoolType
  <2>4. b + 1 \in MaxNodes + 1..MaxNodes + MaxLeaves + 1
    BY <1>3, <2>1
  <2>5. p2 \in PoolType
    BY <1>1, <2>2, <2>4 DEF PoolType
  <2>6. b \notin HandedBy(p)
    BY <1>1, <1>2, <1>3, <2>1 DEF HandedBy
  <2>7. MaxNodes + 1..b + 1 - 1 = (MaxNodes + 1..b - 1) \cup {b}
    BY <1>3, <2>1
  <2>8. HandedBy(p2) = HandedBy(p) \cup {b}
    <3>1. HandedBy(p) = (1..a - 1) \cup (MaxNodes + 1..b - 1)
      BY <1>1 DEF HandedBy
    <3>2. HandedBy(p2) = (1..a - 1) \cup (MaxNodes + 1..p2.freshLeaf - 1)
      BY <2>3 DEF HandedBy
    <3>3. HandedBy(p2) = (1..a - 1) \cup (MaxNodes + 1..b + 1 - 1)
      BY <1>2, <1>3, <2>1, <2>3, <3>2
    <3> QED BY <2>7, <3>1, <3>3
  <2> QED BY <2>2, <2>5, <2>6, <2>8
<1>5. ASSUME a \in NodeIds
      PROVE  /\ a \notin HandedBy(p)
             /\ HandedBy([p EXCEPT !.freshNode = @ + 1]) = HandedBy(p) \cup {a}
             /\ [p EXCEPT !.freshNode = @ + 1] \in PoolType
  <2>1. a \in Nat /\ a >= 1 /\ a =< MaxNodes
    BY <1>2, <1>3, <1>5 DEF NodeIds
  <2>2. PICK p2 : p2 = [p EXCEPT !.freshNode = @ + 1]
    OBVIOUS
  <2>3. p2.freshNode = a + 1 /\ p2.freshLeaf = b /\ p2.node = p.node /\ p2.leaf = p.leaf
    BY <1>1, <2>2 DEF PoolType
  <2>4. a + 1 \in 1..MaxNodes + 1
    BY <1>3, <2>1
  <2>5. p2 \in PoolType
    BY <1>1, <2>2, <2>4 DEF PoolType
  <2>6. a \notin HandedBy(p)
    BY <1>1, <1>2, <1>3, <2>1 DEF HandedBy
  <2>7. 1..a + 1 - 1 = (1..a - 1) \cup {a}
    BY <1>3, <2>1
  <2>8. HandedBy(p2) = HandedBy(p) \cup {a}
    <3>1. HandedBy(p) = (1..a - 1) \cup (MaxNodes + 1..b - 1)
      BY <1>1 DEF HandedBy
    <3>2. HandedBy(p2) = (1..p2.freshNode - 1) \cup (MaxNodes + 1..b - 1)
      BY <2>3 DEF HandedBy
    <3>3. HandedBy(p2) = (1..a + 1 - 1) \cup (MaxNodes + 1..b - 1)
      BY <1>2, <1>3, <2>1, <2>3, <3>2
    <3> QED BY <2>7, <3>1, <3>3
  <2> QED BY <2>2, <2>5, <2>6, <2>8
<1> QED BY <1>1, <1>4, <1>5

-----------------------------------------------------------------------------
(* The writer keeps the invariant *)

\* The fields a call has.
LEMMA CallCases ==
  ASSUME NEW c \in CallType
  PROVE  /\ c.pc \in {"free", "place", "link", "recycle", "unlink", "collapse"}
         /\ c.pc = "free" => c = Free
         /\ c.pc = "place" => c.k \in LeafIds
         /\ c.pc = "link" => c.k \in LeafIds /\ c.m \in NodeIds /\ c.slot \in Slots(NodeIds)
         /\ c.pc \in {"recycle", "unlink"} => /\ c.key \in Keys /\ c.del \in Dels
                                              /\ [c EXCEPT !.pc = "unlink"] \in CallType
                                              /\ [c EXCEPT !.pc = "unlink"].pc = "unlink"
                                              /\ [c EXCEPT !.pc = "unlink"].del = c.del
         /\ c.pc = "collapse" => c.del \in Dels /\ c.n \in NodeIds /\ c.up \in Slots(NodeIds)
<1>1. CASE c = Free
  BY <1>1 DEF Free
<1>2. CASE c \in [pc : {"place"}, k : LeafIds]
  BY <1>2
<1>3. CASE c \in [pc : {"link"}, k : LeafIds, m : NodeIds, slot : Slots(NodeIds)]
  BY <1>3
<1>4. CASE c \in [pc : {"recycle", "unlink"}, key : Keys, del : Dels]
  <2>1. PICK d : d = [c EXCEPT !.pc = "unlink"]
    OBVIOUS
  <2>2. d \in [pc : {"recycle", "unlink"}, key : Keys, del : Dels] /\ d.pc = "unlink" /\ d.del = c.del
    BY <1>4, <2>1
  <2>3. d \in CallType
    BY <2>2 DEF CallType
  <2>4. /\ c.pc \in {"recycle", "unlink"} /\ c.key \in Keys /\ c.del \in Dels
    BY <1>4
  <2> QED BY <2>1, <2>2, <2>3, <2>4
<1>5. CASE c \in [pc : {"collapse"}, del : Dels, n : NodeIds, up : Slots(NodeIds)]
  BY <1>5
<1> QED BY <1>1, <1>2, <1>3, <1>4, <1>5 DEF CallType

\* The calls of the critnib are of the type.
LEMMA CallIntro ==
  /\ Free \in CallType /\ Free.pc = "free"
  /\ \A k \in LeafIds : [pc |-> "place", k |-> k] \in CallType
  /\ \A k \in LeafIds, m \in NodeIds, s \in Slots(NodeIds) :
       [pc |-> "link", k |-> k, m |-> m, slot |-> s] \in CallType
  /\ \A key \in Keys, d \in Dels : [pc |-> "recycle", key |-> key, del |-> d] \in CallType
  /\ \A d \in Dels, n \in NodeIds, s \in Slots(NodeIds) :
       [pc |-> "collapse", del |-> d, n |-> n, up |-> s] \in CallType
BY DEF CallType, Free

\* The parts of the invariant, with the places spelled out.
LEMMA Taken ==
  ASSUME NEW T, NEW PN, NEW PL, WriterInv(T, PN, PL)
  PROVE  /\ StoreType(root, node, leaf) /\ pool \in PoolType /\ pend \in [Dels -> PendType]
         /\ removes \in Nat /\ writes \in Nat /\ map \in [Keys -> Nat] /\ w \in CallType
         /\ Tree(T, root, node, leaf)
         /\ IsList(PN, NodeIds, pool.node, NodeLink(node))
         /\ IsList(PL, LeafIds, pool.leaf, LeafLink(leaf))
         /\ PN \subseteq NodeIds /\ PL \subseteq LeafIds /\ T \subseteq NodeIds \cup LeafIds
         /\ Split(T, PendingOf(pend), PN \cup PL, HandOf(w), HandedBy(pool))
         /\ PendOnce(pend) /\ Stored(T) /\ Held(T)
<1>1. /\ WriterType /\ Tree(T, root, node, leaf)
      /\ IsList(PN, NodeIds, pool.node, NodeLink(node))
      /\ IsList(PL, LeafIds, pool.leaf, LeafLink(leaf))
      /\ PendOnce(pend) /\ Stored(T) /\ Held(T)
  BY DEF WriterInv
<1>2. Split(T, PendingOf(pend), PN \cup PL, HandOf(w), HandedBy(pool))
  BY PlacesOf DEF WriterInv
<1>3. PN \subseteq NodeIds
  BY <1>1, ListIn
<1>4. PL \subseteq LeafIds
  BY <1>1, ListIn
<1> QED BY <1>1, <1>2, <1>3, <1>4 DEF WriterType, Tree

LEMMA Kept ==
  ASSUME NEW T, NEW PN, NEW PL,
         StoreType(root', node', leaf'), pool' \in PoolType, pend' \in [Dels -> PendType],
         removes' \in Nat, writes' \in Nat, map' \in [Keys -> Nat], w' \in CallType,
         Tree(T, root', node', leaf'),
         IsList(PN, NodeIds, pool'.node, NodeLink(node')),
         IsList(PL, LeafIds, pool'.leaf, LeafLink(leaf')),
         Split(T, PendingOf(pend'), PN \cup PL, HandOf(w'), HandedBy(pool')),
         PendOnce(pend'), Stored(T)', Held(T)'
  PROVE  KeptAs(T)'
<1>1. Pending' = PendingOf(pend') /\ InHand' = HandOf(w') /\ HandedOut' = HandedBy(pool')
  BY DEF Pending, PendingOf, InHand, HandOf, HandedOut, HandedBy
<1>2. WriterInv(T, PN, PL)'
  BY <1>1 DEF WriterInv, WriterType
<1> QED BY <1>2 DEF KeptAs

LEMMA InitInv == Init => Inv
<1> SUFFICES ASSUME Init PROVE Inv
  OBVIOUS
<1>1. root \in Ptr /\ root = NULL
  BY DEF Init, Ptr
<1>2. 0 \in 0..MaxKey /\ 0 \in Shifts
  BY MaxKeyFact, LevelFacts
<1>3. EmptyNode \in NodeType
  BY <1>2 DEF EmptyNode, NodeType, Ptr
<1>4. node \in [NodeIds -> NodeType] /\ \A n \in NodeIds : node[n] = EmptyNode
  BY <1>3 DEF Init
<1>5. Above(0, 0) = 0
  <2>1. Above(0, 0) \in 0..MaxKey
    BY <1>2, SliceType
  <2>2. 0 + SLICE \in 0..SLICE * Slices /\ SLICE * 0 + SLICE = SLICE * 1 /\ 1 \in 0..Slices
    BY SliceBound, SliceAssumption
  <2>3. Pow2[0 + SLICE] \in Nat \ {0}
    <3>1. Unit(1) \in Nat \ {0}
      BY <2>2, UnitFacts
    <3>2. Unit(1) = Pow2[0 + SLICE]
      BY <2>2, SliceAssumption DEF Unit
    <3> QED BY <3>1, <3>2
  <2>4. PICK u : u = Pow2[0 + SLICE]
    OBVIOUS
  <2>5. 0 \in Nat /\ u \in Nat \ {0}
    BY <2>3, <2>4
  <2>6. 0 % u \in 0..u - 1
    BY <2>5, Euclid
  <2>7. Above(0, 0) = 0 - (0 % u)
    BY <2>4 DEF Above
  <2>8. Above(0, 0) \in Nat
    BY <2>1, MaxKeyFact
  <2> QED BY <2>5, <2>6, <2>7, <2>8
<1>6. PathType(node)
  BY <1>4, <1>5 DEF PathType, EmptyNode
<1>7. leaf \in [LeafIds -> LeafType]
  BY <1>2 DEF Init, LeafType, NULL
<1>8. StoreType(root, node, leaf)
  BY <1>1, <1>4, <1>6, <1>7 DEF StoreType
<1>9. pool \in PoolType /\ pool.node = NULL /\ pool.leaf = NULL
  BY ElementAssumption DEF Init, PoolType
<1>10. pend \in [Dels -> PendType] /\ \A i \in Dels : pend[i].node = NULL /\ pend[i].leaf = NULL
  BY DEF Init, Dels, PendType
<1>11. w = Free /\ w \in CallType /\ w.pc = "free"
  BY CallIntro DEF Init
<1>12. WriterType
  BY <1>8, <1>9, <1>10, <1>11 DEF WriterType, Init, NULL
<1>13. Tree({}, root, node, leaf)
  BY <1>1 DEF Tree, Slots, AtIn
<1>14. /\ IsList({}, NodeIds, pool.node, NodeLink(node))
       /\ IsList({}, LeafIds, pool.leaf, LeafLink(leaf))
  BY <1>9, ListEmpty
<1>15. PendingOf(pend) = {} /\ HandOf(w) = {}
  BY <1>10, <1>11, PendingMember, HandCases
<1>16. HandedBy(pool) = {}
  BY ElementAssumption DEF Init, HandedBy
<1>17. Split({}, Pending, {} \cup {}, InHand, HandedOut)
  BY <1>15, <1>16, PlacesOf DEF Split
<1>18. PendOnce(pend)
  BY <1>10 DEF PendOnce
<1>19. Stored({}) /\ Held({})
  BY <1>11 DEF Init, Stored, Held
<1>20. WriterInv({}, {}, {})
  BY <1>12, <1>13, <1>14, <1>17, <1>18, <1>19 DEF WriterInv
<1> QED BY <1>20 DEF Inv, KeptAs

\* What is stored depends on the leaves in the tree and on the map.
LEMMA StoredSame ==
  ASSUME NEW T, Stored(T), map' = map, \A k \in T \cap LeafIds : leaf'[k] = leaf[k]
  PROVE  Stored(T)'
BY DEF Stored

\* A leaf that gets new fields.
LEMMA LeafStore ==
  ASSUME NEW r, NEW nd, NEW lf, StoreType(r, nd, lf), NEW lf2, lf2 \in [LeafIds -> LeafType]
  PROVE  StoreType(r, nd, lf2)
BY DEF StoreType

LEMMA InsertLeafInv ==
  ASSUME NEW T, NEW PN, NEW PL, WriterInv(T, PN, PL), NEW key \in Keys, InsertLeaf(key)
  PROVE  KeptAs(T)'
<1>1. /\ StoreType(root, node, leaf) /\ pool \in PoolType /\ pend \in [Dels -> PendType]
      /\ removes \in Nat /\ writes \in Nat /\ map \in [Keys -> Nat] /\ w \in CallType
      /\ Tree(T, root, node, leaf)
      /\ IsList(PN, NodeIds, pool.node, NodeLink(node))
      /\ IsList(PL, LeafIds, pool.leaf, LeafLink(leaf))
      /\ PN \subseteq NodeIds /\ PL \subseteq LeafIds /\ T \subseteq NodeIds \cup LeafIds
      /\ Split(T, PendingOf(pend), PN \cup PL, HandOf(w), HandedBy(pool))
      /\ PendOnce(pend) /\ Stored(T) /\ Held(T)
  BY Taken
<1>2. PICK k : k = IF pool.leaf # NULL THEN pool.leaf ELSE pool.freshLeaf
  OBVIOUS
<1>3. /\ w = Free /\ writes' = writes + 1 /\ k \in LeafIds
      /\ pool' = IF pool.leaf # NULL THEN [pool EXCEPT !.leaf = leaf[k].value]
                 ELSE [pool EXCEPT !.freshLeaf = @ + 1]
      /\ leaf' = [leaf EXCEPT ![k] = [key |-> key, value |-> ValueOf(writes')]]
      /\ w' = [pc |-> "place", k |-> k]
      /\ map' = map /\ root' = root /\ node' = node /\ pend' = pend /\ removes' = removes
  BY <1>2 DEF InsertLeaf, SameMap
<1>4. [key |-> key, value |-> ValueOf(writes')] \in LeafType
  <2>1. key \in 0..MaxKey /\ ValueOf(writes') \in Nat
    BY <1>1, <1>3, KeyAssumption, ElementAssumption DEF ValueOf
  <2> QED BY <2>1 DEF LeafType
<1>5. /\ leaf \in [LeafIds -> LeafType]
      /\ leaf' \in [LeafIds -> LeafType] /\ leaf'[k].key = key
      /\ \A l \in LeafIds \ {k} : leaf'[l] = leaf[l]
  BY <1>1, <1>3, <1>4 DEF StoreType
<1>6. StoreType(root', node', leaf')
  BY <1>1, <1>3, <1>5, LeafStore
<1>7. w' \in CallType /\ w'.pc = "place" /\ w'.k = k /\ HandOf(w') = {k} /\ HandOf(w) = {}
  BY <1>3, CallIntro, HandCases
<1>8. writes' \in Nat /\ removes' \in Nat /\ map' \in [Keys -> Nat] /\ pend' \in [Dels -> PendType]
  BY <1>1, <1>3
<1>9. Held(T)'
  BY <1>3, <1>5, <1>7 DEF Held
<1>10. PendOnce(pend')
  BY <1>1, <1>3
<1>11. ASSUME k \notin T PROVE Tree(T, root', node', leaf') /\ Stored(T)'
  <2>1. \A l \in T \cap LeafIds : leaf'[l] = leaf[l]
    BY <1>5, <1>11
  <2>2. Stored(T)'
    BY <1>1, <1>3, <2>1, StoredSame
  <2>3. \A n \in T \cap NodeIds : node'[n] = node[n]
    BY <1>3
  <2>4. \A l \in T \cap LeafIds : leaf'[l].key = leaf[l].key
    BY <2>1
  <2>5. Tree(T, root, node', leaf')
    BY <1>1, <2>3, <2>4, TreeSame
  <2> QED BY <1>3, <2>2, <2>5
<1>12. CASE pool.leaf # NULL
  <2>1. k = pool.leaf /\ pool' = [pool EXCEPT !.leaf = leaf[k].value]
    BY <1>2, <1>3, <1>12
  <2>2. \A l \in PL \ {k} : LeafLink(leaf')[l] = LeafLink(leaf)[l]
    BY <1>1, <1>5 DEF LeafLink
  <2>3. k \in PL /\ IsList(PL \ {k}, LeafIds, LeafLink(leaf)[k], LeafLink(leaf'))
    BY <1>1, <1>12, <2>1, <2>2, ListPop
  <2>4. LeafLink(leaf)[k] = leaf[k].value
    BY <1>3 DEF LeafLink
  <2>5. leaf[k].value \in LeafIds \cup {NULL}
    BY <2>3, <2>4, ListHead
  <2>6. /\ pool' \in PoolType /\ pool'.leaf = leaf[k].value /\ pool'.node = pool.node
        /\ HandedBy(pool') = HandedBy(pool)
    <3>1. /\ pool' \in PoolType /\ pool'.leaf = leaf[k].value /\ pool'.node = pool.node
          /\ pool'.freshNode = pool.freshNode /\ pool'.freshLeaf = pool.freshLeaf
      BY <1>1, <2>1, <2>5 DEF PoolType
    <3> QED BY <3>1 DEF HandedBy
  <2>7. IsList(PL \ {k}, LeafIds, pool'.leaf, LeafLink(leaf'))
    BY <2>3, <2>4, <2>6
  <2>8. IsList(PN, NodeIds, pool'.node, NodeLink(node'))
    BY <1>1, <1>3, <2>6
  <2>9. k \notin T /\ k \notin PN
    BY <1>1, <1>3, <2>3, Kinds DEF Split
  <2>10. Split(T, PendingOf(pend'), PN \cup (PL \ {k}), HandOf(w'), HandedBy(pool'))
    BY <1>1, <1>3, <1>7, <2>3, <2>6, <2>9 DEF Split
  <2> QED BY <1>6, <1>7, <1>8, <1>9, <1>10, <1>11, <2>6, <2>7, <2>8, <2>9, <2>10, Kept
<1>13. CASE pool.leaf = NULL
  <2>1. k = pool.freshLeaf /\ pool' = [pool EXCEPT !.freshLeaf = @ + 1]
    BY <1>2, <1>3, <1>13
  <2>2. /\ k \notin HandedBy(pool) /\ pool' \in PoolType
        /\ HandedBy(pool') = HandedBy(pool) \cup {k}
    BY <1>1, <1>3, <2>1, Fresh
  <2>3. pool'.leaf = pool.leaf /\ pool'.node = pool.node
    BY <1>1, <2>1 DEF PoolType
  <2>4. k \notin T /\ k \notin PL /\ k \notin PendingOf(pend) /\ k \notin PN
    BY <1>1, <2>2 DEF Split
  <2>5. \A l \in PL : LeafLink(leaf')[l] = LeafLink(leaf)[l]
    BY <1>1, <1>5, <2>4 DEF LeafLink
  <2>6. IsList(PL, LeafIds, pool'.leaf, LeafLink(leaf'))
    BY <1>1, <2>3, <2>5, ListSame
  <2>7. IsList(PN, NodeIds, pool'.node, NodeLink(node'))
    BY <1>1, <1>3, <2>3
  <2>8. Split(T, PendingOf(pend'), PN \cup PL, HandOf(w'), HandedBy(pool'))
    BY <1>1, <1>3, <1>7, <2>2, <2>4 DEF Split
  <2> QED BY <1>6, <1>7, <1>8, <1>9, <1>10, <1>11, <2>2, <2>4, <2>6, <2>7, <2>8, Kept
<1> QED BY <1>12, <1>13

LEMMA StoreAtIn == \A s, p : StoreAt(s, p) => StoredIn(root, node, s, p, root', node')
BY DEF StoreAt, StoredIn

\* A store into the tree leaves the other nodes alone, those of the pool too.
LEMMA OtherNodes ==
  ASSUME NEW T, NEW r, NEW nd, NEW lf, StoreType(r, nd, lf), NEW s \in Slots(T), NEW p,
         NEW r2, NEW nd2, StoredIn(r, nd, s, p, r2, nd2), NEW PN, PN \subseteq NodeIds,
         PN \cap T = {}, NEW head, IsList(PN, NodeIds, head, NodeLink(nd))
  PROVE  /\ \A n \in NodeIds \ T : nd2[n] = nd[n]
         /\ IsList(PN, NodeIds, head, NodeLink(nd2))
<1>1. \A n \in NodeIds \ T : nd2[n] = nd[n]
  <2>1. CASE s = RootSlot
    BY <2>1 DEF StoredIn
  <2>2. CASE s # RootSlot
    <3>1. s[1] \in T
      BY <2>2, SlotCases
    <3> QED BY <2>2, <3>1 DEF StoredIn, StoreType
  <2> QED BY <2>1, <2>2
<1>2. \A n \in PN : NodeLink(nd2)[n] = NodeLink(nd)[n]
  BY <1>1 DEF NodeLink
<1>3. IsList(PN, NodeIds, head, NodeLink(nd2))
  BY <1>2, ListSame
<1> QED BY <1>1, <1>3

LEMMA InsertHereInv ==
  ASSUME NEW T, NEW PN, NEW PL, WriterInv(T, PN, PL), InsertHere
  PROVE  \E s \in Slots(T) :
           /\ AtIn(root, node, s) = NULL /\ StoredIn(root, node, s, w.k, root', node')
           /\ w.k \in LeafIds /\ leaf[w.k].key \in Keys /\ w'.pc = "free"
           /\ \E X : X = T \cup {w.k} /\ KeptAs(X)'
<1>1. /\ StoreType(root, node, leaf) /\ pool \in PoolType /\ pend \in [Dels -> PendType]
      /\ removes \in Nat /\ writes \in Nat /\ map \in [Keys -> Nat] /\ w \in CallType
      /\ Tree(T, root, node, leaf)
      /\ IsList(PN, NodeIds, pool.node, NodeLink(node))
      /\ IsList(PL, LeafIds, pool.leaf, LeafLink(leaf))
      /\ PN \subseteq NodeIds /\ PL \subseteq LeafIds /\ T \subseteq NodeIds \cup LeafIds
      /\ Split(T, PendingOf(pend), PN \cup PL, HandOf(w), HandedBy(pool))
      /\ PendOnce(pend) /\ Stored(T) /\ Held(T)
  BY Taken
<1>2. PICK k, key : k = w.k /\ key = leaf[k].key
  OBVIOUS
<1>3. PICK at : at = Walk(key, TRUE)
  OBVIOUS
<1>4. PICK s : s = at.slot
  OBVIOUS
<1>5. /\ w.pc = "place" /\ At(s) = NULL /\ StoreAt(s, k) /\ w' = Free
      /\ map' = [map EXCEPT ![key] = leaf[k].value]
      /\ leaf' = leaf /\ pool' = pool /\ pend' = pend /\ removes' = removes /\ writes' = writes
  BY <1>2, <1>3, <1>4 DEF InsertHere, Becomes
<1>6. k \in LeafIds /\ key \in Keys /\ key \in 0..MaxKey
  BY <1>1, <1>2, <1>5, CallCases, KeyAssumption DEF Held
<1>7. /\ HandOf(w) = {k} /\ k \notin T /\ PN \cap T = {}
      /\ w' \in CallType /\ w'.pc = "free" /\ HandOf(w') = {}
  <2>1. HandOf(w) = {k}
    BY <1>2, <1>5, HandCases
  <2>2. w' \in CallType /\ w'.pc = "free" /\ HandOf(w') = {}
    BY <1>5, CallIntro, HandCases
  <2> QED BY <1>1, <2>1, <2>2 DEF Split
<1>8. WalkGood(T, key, TRUE, at)
  <2>1. TRUE \in BOOLEAN
    OBVIOUS
  <2>2. PICK n : n = At(at.slot)
    OBVIOUS
  <2> QED BY <1>1, <1>3, <1>6, <2>1, <2>2, WalkEnd
<1>9. s \in Slots(T)
  BY <1>4, <1>8 DEF WalkGood
<1>10. s # RootSlot => Fits(node, leaf, s[1], s[2], k)
  <2> SUFFICES ASSUME s # RootSlot PROVE Fits(node, leaf, s[1], s[2], k)
    OBVIOUS
  <2>1. KeyIn(node, leaf, k) = key /\ k \notin NodeIds
    BY <1>2, <1>6, Kinds DEF KeyIn
  <2>2. s[2] = slice_index(key, node[s[1]].shift) /\ Above(key, node[s[1]].shift) = node[s[1]].path
    BY <1>4, <1>8 DEF WalkGood
  <2> QED BY <2>1, <2>2 DEF Fits
<1>11. StoredIn(root, node, s, k, root', node')
  BY <1>5, StoreAtIn
<1>12. AtIn(root, node, s) = NULL
  BY <1>5, AtIsAtIn
<1>13. Tree(T \cup {k}, root', node', leaf')
  <2>1. Tree(T \cup {k}, root', node', leaf)
    BY <1>1, <1>6, <1>7, <1>9, <1>10, <1>11, <1>12, TreePut
  <2> QED BY <1>5, <2>1
<1>14. StoreType(root', node', leaf')
  <2>1. s \in Slots(NodeIds) /\ k \in Ptr
    BY <1>6, <1>9, SlotsInNodes DEF Ptr
  <2>2. StoreType(root', node', leaf)
    BY <1>1, <1>11, <2>1, StoreFacts
  <2> QED BY <1>5, <2>2
<1>15. IsList(PN, NodeIds, pool'.node, NodeLink(node'))
  BY <1>1, <1>5, <1>7, <1>9, <1>11, OtherNodes
<1>16. IsList(PL, LeafIds, pool'.leaf, LeafLink(leaf'))
  BY <1>1, <1>5
<1>17. Split(T \cup {k}, PendingOf(pend'), PN \cup PL, HandOf(w'), HandedBy(pool'))
  BY <1>1, <1>5, <1>7 DEF Split
<1>18. \A l \in T \cap LeafIds : leaf[l].key # key
  <2> SUFFICES ASSUME NEW l \in T \cap LeafIds, leaf[l].key = key PROVE FALSE
    OBVIOUS
  <2>1. At(Walk(key, TRUE).slot) = l
    BY <1>1, WalkFinds
  <2> QED BY <1>3, <1>4, <1>5, <2>1, Kinds
<1>19. leaf[k].value \in Nat /\ map' \in [Keys -> Nat]
  BY <1>1, <1>5, <1>6 DEF StoreType, LeafType
<1>20. Stored(T \cup {k})'
  <2>1. \A l \in (T \cup {k}) \cap LeafIds : leaf'[l].key \in Keys /\ map'[leaf'[l].key] = leaf'[l].value
    BY <1>1, <1>2, <1>5, <1>6, <1>18 DEF Stored
  <2>2. \A x \in Keys : map'[x] # NULL => \E l \in (T \cup {k}) \cap LeafIds : leaf'[l].key = x
    BY <1>1, <1>2, <1>5, <1>6 DEF Stored
  <2> QED BY <2>1, <2>2 DEF Stored
<1>21. Held(T \cup {k})'
  BY <1>7 DEF Held
<1>22. /\ removes' \in Nat /\ writes' \in Nat /\ pool' \in PoolType
       /\ pend' \in [Dels -> PendType] /\ PendOnce(pend')
  BY <1>1, <1>5
<1>23. KeptAs(T \cup {k})'
  BY <1>7, <1>13, <1>14, <1>15, <1>16, <1>17, <1>19, <1>20, <1>21, <1>22, Kept
<1> QED BY <1>2, <1>6, <1>7, <1>9, <1>11, <1>12, <1>23

LEMMA InsertExistsInv ==
  ASSUME NEW T, NEW PN, NEW PL, WriterInv(T, PN, PL), NEW update \in BOOLEAN, InsertExists(update)
  PROVE  /\ KeptAs(T)'
         /\ \E n \in T \cap LeafIds :
              /\ leaf[n].key = leaf[w.k].key /\ leaf[n].key \in Keys /\ n # w.k
              /\ \A l \in LeafIds : leaf'[l].key = leaf[l].key
              /\ \A l \in LeafIds \ {w.k, n} : leaf'[l] = leaf[l]
              /\ leaf'[n].value = IF update THEN leaf[w.k].value ELSE leaf[n].value
              /\ ~update => leaf'[n] = leaf[n]
<1>1. /\ StoreType(root, node, leaf) /\ pool \in PoolType /\ pend \in [Dels -> PendType]
      /\ removes \in Nat /\ writes \in Nat /\ map \in [Keys -> Nat] /\ w \in CallType
      /\ Tree(T, root, node, leaf)
      /\ IsList(PN, NodeIds, pool.node, NodeLink(node))
      /\ IsList(PL, LeafIds, pool.leaf, LeafLink(leaf))
      /\ PN \subseteq NodeIds /\ PL \subseteq LeafIds /\ T \subseteq NodeIds \cup LeafIds
      /\ Split(T, PendingOf(pend), PN \cup PL, HandOf(w), HandedBy(pool))
      /\ PendOnce(pend) /\ Stored(T) /\ Held(T)
  BY Taken
<1>2. PICK k, key, v : k = w.k /\ key = leaf[k].key /\ v = leaf[k].value
  OBVIOUS
<1>3. PICK n : n = At(Walk(key, TRUE).slot)
  OBVIOUS
<1>4. /\ w.pc = "place" /\ n # NULL /\ is_leaf(n) /\ leaf[n].key = key /\ w' = Free
      /\ leaf' = [leaf EXCEPT ![k].value = pool.leaf, ![n].value = IF update THEN v ELSE @]
      /\ map' = IF update THEN [map EXCEPT ![key] = v] ELSE map
      /\ pool' = [pool EXCEPT !.leaf = k]
      /\ root' = root /\ node' = node /\ pend' = pend /\ removes' = removes /\ writes' = writes
  BY <1>2, <1>3 DEF InsertExists, Becomes, SameMap
<1>5. k \in LeafIds /\ key \in Keys /\ key \in 0..MaxKey
  <2>1. k \in LeafIds
    BY <1>1, <1>2, <1>4, CallCases
  <2>2. key \in Keys
    BY <1>1, <1>2, <1>4 DEF Held
  <2> QED BY <2>1, <2>2, KeyAssumption
<1>6. /\ HandOf(w) = {k} /\ k \notin T /\ k \notin PL /\ k \notin PendingOf(pend)
      /\ PL \cap T = {}
      /\ w' \in CallType /\ w'.pc = "free" /\ HandOf(w') = {}
  <2>1. HandOf(w) = {k}
    BY <1>2, <1>4, HandCases
  <2>2. w' \in CallType /\ w'.pc = "free" /\ HandOf(w') = {}
    BY <1>4, CallIntro, HandCases
  <2> QED BY <1>1, <2>1, <2>2 DEF Split
<1>7. n \in T \cap LeafIds /\ n # k
  <2>1. TRUE \in BOOLEAN
    OBVIOUS
  <2>2. PICK at : at = Walk(key, TRUE)
    OBVIOUS
  <2>3. n = At(at.slot)
    BY <1>3, <2>2
  <2>4. n \in T \cup {NULL}
    BY <1>1, <1>5, <2>1, <2>2, <2>3, WalkEnd
  <2> QED BY <1>1, <1>4, <1>6, <2>4, Kinds
<1>8. leaf \in [LeafIds -> LeafType] /\ pool.leaf \in Nat /\ v \in Nat
  <2>1. leaf \in [LeafIds -> LeafType]
    BY <1>1 DEF StoreType
  <2>2. pool.leaf \in Nat
    BY <1>1, ElementAssumption DEF PoolType, LeafIds, NULL
  <2> QED BY <1>2, <1>5, <2>1, <2>2 DEF LeafType
<1>9. /\ leaf' \in [LeafIds -> LeafType]
      /\ \A l \in LeafIds : leaf'[l].key = leaf[l].key
      /\ \A l \in LeafIds \ {k, n} : leaf'[l] = leaf[l]
      /\ leaf'[k].value = pool.leaf
      /\ leaf'[n].value = IF update THEN v ELSE leaf[n].value
  BY <1>4, <1>5, <1>7, <1>8 DEF LeafType
<1>10. StoreType(root', node', leaf')
  BY <1>1, <1>4, <1>9, LeafStore
<1>11. Tree(T, root', node', leaf')
  <2>1. \A m \in T \cap NodeIds : node'[m] = node[m]
    BY <1>4
  <2>2. \A l \in T \cap LeafIds : leaf'[l].key = leaf[l].key
    BY <1>9
  <2>3. Tree(T, root, node', leaf')
    BY <1>1, <2>1, <2>2, TreeSame
  <2> QED BY <1>4, <2>3
<1>12. /\ pool' \in PoolType /\ pool'.leaf = k /\ pool'.node = pool.node
       /\ HandedBy(pool') = HandedBy(pool)
  <2>1. /\ pool' \in PoolType /\ pool'.leaf = k /\ pool'.node = pool.node
        /\ pool'.freshNode = pool.freshNode /\ pool'.freshLeaf = pool.freshLeaf
    BY <1>1, <1>4, <1>5 DEF PoolType
  <2> QED BY <2>1 DEF HandedBy
<1>13. IsList(PL \cup {k}, LeafIds, pool'.leaf, LeafLink(leaf'))
  <2>1. LeafLink(leaf')[k] = pool.leaf
    BY <1>5, <1>9 DEF LeafLink
  <2>2. \A l \in PL : LeafLink(leaf')[l] = LeafLink(leaf)[l]
    BY <1>1, <1>6, <1>7, <1>9 DEF LeafLink
  <2>3. IsList(PL \cup {k}, LeafIds, k, LeafLink(leaf'))
    BY <1>1, <1>5, <1>6, <2>1, <2>2, ListPush
  <2> QED BY <1>12, <2>3
<1>14. IsList(PN, NodeIds, pool'.node, NodeLink(node'))
  BY <1>1, <1>4, <1>12
<1>15. Split(T, PendingOf(pend'), PN \cup (PL \cup {k}), HandOf(w'), HandedBy(pool'))
  BY <1>1, <1>4, <1>6, <1>12 DEF Split
<1>16. \A l \in T \cap LeafIds : leaf[l].key = key => l = n
  <2> SUFFICES ASSUME NEW l \in T \cap LeafIds, leaf[l].key = key PROVE l = n
    OBVIOUS
  <2>1. At(Walk(key, TRUE).slot) = l
    BY <1>1, WalkFinds
  <2> QED BY <1>3, <2>1
<1>17. map' \in [Keys -> Nat]
  BY <1>1, <1>4, <1>8
<1>18. Stored(T)'
  <2>1. ASSUME NEW l \in T \cap LeafIds
        PROVE  leaf'[l].key \in Keys /\ map'[leaf'[l].key] = leaf'[l].value
    <3>1. leaf[l].key \in Keys /\ map[leaf[l].key] = leaf[l].value /\ leaf'[l].key = leaf[l].key
      BY <1>1, <1>9 DEF Stored
    <3>2. CASE l = n
      BY <1>1, <1>4, <1>5, <1>9, <3>1, <3>2
    <3>3. CASE l # n
      <4>1. leaf[l].key # key /\ leaf'[l] = leaf[l]
        BY <1>6, <1>9, <1>16, <3>3
      <4> QED BY <1>1, <1>4, <3>1, <4>1
    <3> QED BY <3>2, <3>3
  <2>2. ASSUME NEW x \in Keys, map'[x] # NULL
        PROVE  \E l \in T \cap LeafIds : leaf'[l].key = x
    <3>1. CASE x = key
      BY <1>4, <1>7, <1>9, <3>1
    <3>2. CASE x # key
      <4>1. map[x] # NULL
        BY <1>1, <1>4, <2>2, <3>2
      <4> QED BY <1>1, <1>9, <4>1 DEF Stored
    <3> QED BY <3>1, <3>2
  <2> QED BY <2>1, <2>2 DEF Stored
<1>19. Held(T)'
  BY <1>6 DEF Held
<1>20. /\ removes' \in Nat /\ writes' \in Nat
       /\ pend' \in [Dels -> PendType] /\ PendOnce(pend')
  BY <1>1, <1>4
<1>21. KeptAs(T)'
  BY <1>6, <1>10, <1>11, <1>12, <1>13, <1>14, <1>15, <1>17, <1>18, <1>19, <1>20, Kept
<1>22. ~update => leaf'[n] = leaf[n]
  <2>1. leaf[n] \in LeafType /\ leaf'[n] \in LeafType
    BY <1>7, <1>8, <1>9
  <2>2. ~update => leaf'[n].key = leaf[n].key /\ leaf'[n].value = leaf[n].value
    BY <1>7, <1>9
  <2> QED BY <2>1, <2>2 DEF LeafType
<1> QED BY <1>2, <1>4, <1>5, <1>7, <1>9, <1>21, <1>22

LEMMA InsertNodeInv ==
  ASSUME NEW T, NEW PN, NEW PL, WriterInv(T, PN, PL), InsertNode
  PROVE  KeptAs(T)'
<1>1. /\ StoreType(root, node, leaf) /\ pool \in PoolType /\ pend \in [Dels -> PendType]
      /\ removes \in Nat /\ writes \in Nat /\ map \in [Keys -> Nat] /\ w \in CallType
      /\ Tree(T, root, node, leaf)
      /\ IsList(PN, NodeIds, pool.node, NodeLink(node))
      /\ IsList(PL, LeafIds, pool.leaf, LeafLink(leaf))
      /\ PN \subseteq NodeIds /\ PL \subseteq LeafIds /\ T \subseteq NodeIds \cup LeafIds
      /\ Split(T, PendingOf(pend), PN \cup PL, HandOf(w), HandedBy(pool))
      /\ PendOnce(pend) /\ Stored(T) /\ Held(T)
  BY Taken
<1>2. PICK k, key : k = w.k /\ key = leaf[k].key
  OBVIOUS
<1>3. PICK at : at = Walk(key, TRUE)
  OBVIOUS
<1>4. PICK s, n : s = at.slot /\ n = At(s)
  OBVIOUS
<1>5. PICK path : path = KeyIn(node, leaf, n)
  OBVIOUS
<1>6. PICK sh : sh = CriticalShift(path, key)
  OBVIOUS
<1>7. PICK m : m = IF pool.node # NULL THEN pool.node ELSE pool.freshNode
  OBVIOUS
<1>8. PICK rec : rec = [child |-> [EmptyNode.child EXCEPT ![slice_index(key, sh)] = k,
                                                          ![slice_index(path, sh)] = n],
                        shift |-> sh, path |-> Above(key, sh)]
  OBVIOUS
<1>9. /\ w.pc = "place" /\ n # NULL /\ path # key /\ m \in NodeIds
      /\ pool' = IF pool.node # NULL THEN [pool EXCEPT !.node = node[m].child[0]]
                 ELSE [pool EXCEPT !.freshNode = @ + 1]
      /\ node' = [node EXCEPT ![m] = rec]
      /\ w' = [pc |-> "link", k |-> k, m |-> m, slot |-> s]
      /\ map' = map /\ root' = root /\ leaf' = leaf /\ pend' = pend
      /\ removes' = removes /\ writes' = writes
  BY <1>2, <1>3, <1>4, <1>5, <1>6, <1>7, <1>8 DEF InsertNode, SameMap, KeyIn
<1>10. k \in LeafIds /\ key \in Keys /\ key \in 0..MaxKey
  BY <1>1, <1>2, <1>9, CallCases, KeyAssumption DEF Held
<1>11. HandOf(w) = {k} /\ k \notin T
  <2>1. HandOf(w) = {k}
    BY <1>2, <1>9, HandCases
  <2> QED BY <1>1, <2>1 DEF Split
<1>12. /\ WalkGood(T, key, TRUE, at) /\ n \in T
       /\ n \in NodeIds => Above(key, node[n].shift) # node[n].path
  <2>1. TRUE \in BOOLEAN /\ n = At(at.slot)
    BY <1>4
  <2>2. /\ WalkGood(T, key, TRUE, at) /\ n \in T \cup {NULL}
        /\ n \in NodeIds => Differs(key, TRUE, n)
    BY <1>1, <1>3, <1>10, <2>1, WalkEnd
  <2> QED BY <1>9, <2>2 DEF Differs
<1>13. /\ s \in Slots(T) /\ AtIn(root, node, s) = n
       /\ s # RootSlot => /\ s[2] = slice_index(key, node[s[1]].shift)
                          /\ Above(key, node[s[1]].shift) = node[s[1]].path
  BY <1>4, <1>12, AtIsAtIn DEF WalkGood
<1>14. path \in 0..MaxKey
  <2>1. CASE n \in NodeIds
    <3>1. node[n] \in NodeType /\ path = node[n].path
      BY <1>1, <1>5, <2>1, Kinds DEF StoreType, KeyIn
    <3> QED BY <3>1 DEF NodeType
  <2>2. CASE n \in LeafIds
    <3>1. leaf[n] \in LeafType /\ path = leaf[n].key
      BY <1>1, <1>5, <2>2, Kinds DEF StoreType, KeyIn
    <3> QED BY <3>1 DEF LeafType
  <2> QED BY <1>1, <1>12, <2>1, <2>2
<1>15. /\ sh \in Shifts /\ slice_index(key, sh) \in Nibs /\ slice_index(path, sh) \in Nibs
       /\ slice_index(key, sh) # slice_index(path, sh)
       /\ Above(key, sh) \in 0..MaxKey /\ Above(Above(key, sh), sh) = Above(key, sh)
  <2>1. sh \in Shifts /\ slice_index(path, sh) # slice_index(key, sh)
    BY <1>6, <1>9, <1>10, <1>14, CriticalShiftFacts
  <2>2. slice_index(key, sh) \in Nibs /\ Above(key, sh) \in 0..MaxKey
    BY <1>10, <2>1, SliceType
  <2>3. slice_index(path, sh) \in Nibs
    BY <1>14, <2>1, SliceType
  <2>4. sh =< sh
    BY <2>1, LevelFacts
  <2>5. Above(Above(key, sh), sh) = Above(key, sh)
    BY <1>10, <2>1, <2>4, AboveAbove
  <2> QED BY <2>1, <2>2, <2>3, <2>5
<1>16. PICK ik \in Nibs, im \in Nibs : ik = slice_index(key, sh) /\ im = slice_index(path, sh) /\ ik # im
  BY <1>15
<1>17. /\ rec \in NodeType /\ rec.shift = sh /\ rec.path = Above(key, sh)
       /\ rec.child[ik] = k /\ rec.child[im] = n
       /\ \A j \in Nibs \ {ik, im} : rec.child[j] = NULL
  <2>1. PICK ch : ch = [EmptyNode.child EXCEPT ![ik] = k, ![im] = n]
    OBVIOUS
  <2>2. EmptyNode.child \in [Nibs -> Ptr] /\ \A j \in Nibs : EmptyNode.child[j] = NULL
    BY DEF EmptyNode, Ptr
  <2>3. k \in Ptr /\ n \in Ptr
    BY <1>1, <1>10, <1>12 DEF Ptr
  <2>4. /\ ch \in [Nibs -> Ptr] /\ ch[ik] = k /\ ch[im] = n
        /\ \A j \in Nibs \ {ik, im} : ch[j] = NULL
    BY <1>16, <2>1, <2>2, <2>3
  <2>5. rec = [child |-> ch, shift |-> sh, path |-> Above(key, sh)]
    BY <1>8, <1>16, <2>1
  <2>6. rec \in NodeType
    BY <1>15, <2>4, <2>5 DEF NodeType
  <2> QED BY <2>4, <2>5, <2>6
<1>18. /\ StoreType(root, node', leaf) /\ node'[m] = rec
       /\ \A x \in NodeIds \ {m} : node'[x] = node[x]
  <2>1. node \in [NodeIds -> NodeType] /\ PathType(node)
    BY <1>1 DEF StoreType
  <2>2. /\ node' \in [NodeIds -> NodeType] /\ node'[m] = rec
        /\ \A x \in NodeIds \ {m} : node'[x] = node[x]
    BY <1>9, <1>17, <2>1
  <2>3. Above(rec.path, rec.shift) = rec.path
    BY <1>15, <1>17
  <2>4. PathType(node')
    BY <2>1, <2>2, <2>3 DEF PathType
  <2> QED BY <1>1, <2>2, <2>4 DEF StoreType
<1>19. w' \in CallType /\ w'.pc = "link" /\ w'.k = k /\ w'.m = m /\ w'.slot = s /\ HandOf(w') = {k, m}
  <2>1. s \in Slots(NodeIds)
    BY <1>13, SlotsInNodes
  <2>2. w' \in CallType
    BY <1>9, <1>10, <2>1, CallIntro
  <2>3. w'.pc = "link" /\ w'.k = k /\ w'.m = m /\ w'.slot = s
    BY <1>9
  <2> QED BY <2>2, <2>3, HandCases
<1>20. ASSUME m \notin T PROVE Tree(T, root', node', leaf') /\ Held(T)'
  <2>1. \A x \in T \cap NodeIds : node'[x] = node[x]
    BY <1>18, <1>20
  <2>2. \A x \in T \cap LeafIds : leaf[x].key = leaf[x].key
    OBVIOUS
  <2>3. Tree(T, root, node', leaf)
    BY <1>1, <2>1, <2>2, TreeSame
  <2>4. AtIn(root, node', s) = n
    <3>1. CASE s = RootSlot
      BY <1>13, <3>1 DEF AtIn
    <3>2. CASE s # RootSlot
      <4>1. s[1] \in T \cap NodeIds
        BY <1>13, <3>2, SlotCases
      <4> QED BY <1>13, <2>1, <3>2, <4>1 DEF AtIn
    <3> QED BY <3>1, <3>2
  <2>5. n \in NodeIds => node'[n] = node[n]
    BY <1>12, <2>1
  <2>6. path = KeyIn(node', leaf, n)
    BY <1>1, <1>5, <1>12, <2>5, Kinds DEF KeyIn
  <2>7. n \in NodeIds => Above(key, node'[n].shift) # node'[n].path
    BY <1>12, <2>5
  <2>8. s # RootSlot => /\ s[2] = slice_index(key, node'[s[1]].shift)
                        /\ Above(key, node'[s[1]].shift) = node'[s[1]].path
    <3> SUFFICES ASSUME s # RootSlot
                 PROVE  /\ s[2] = slice_index(key, node'[s[1]].shift)
                        /\ Above(key, node'[s[1]].shift) = node'[s[1]].path
      OBVIOUS
    <3>1. s[1] \in T \cap NodeIds
      BY <1>13, SlotCases
    <3> QED BY <1>13, <2>1, <3>1
  <2>9. node'[m].shift = sh /\ node'[m].path = Above(key, sh)
    BY <1>17, <1>18
  <2>10. /\ Fits(node', leaf, m, slice_index(key, sh), k)
         /\ Fits(node', leaf, m, slice_index(path, sh), n)
         /\ s # RootSlot => Fits(node', leaf, s[1], s[2], m)
    <3>1. PICK nd2 : nd2 = node'
      OBVIOUS
    <3>2. StoreType(root, nd2, leaf) /\ Tree(T, root, nd2, leaf)
      BY <1>18, <2>3, <3>1
    <3>3. s \in Slots(T) /\ n \in T /\ AtIn(root, nd2, s) = n
      BY <1>12, <1>13, <2>4, <3>1
    <3>4. key \in 0..MaxKey /\ path = KeyIn(nd2, leaf, n) /\ path # key
      BY <1>9, <1>10, <2>6, <3>1
    <3>5. n \in NodeIds => Above(key, nd2[n].shift) # nd2[n].path
      BY <2>7, <3>1
    <3>6. s # RootSlot => /\ s[2] = slice_index(key, nd2[s[1]].shift)
                          /\ Above(key, nd2[s[1]].shift) = nd2[s[1]].path
      BY <2>8, <3>1
    <3>7. m \in NodeIds /\ nd2[m].shift = sh /\ nd2[m].path = Above(key, sh)
      BY <1>9, <2>9, <3>1
    <3>8. k \in LeafIds /\ leaf[k].key = key
      BY <1>2, <1>10
    <3>9. /\ Fits(nd2, leaf, m, slice_index(key, sh), k)
          /\ Fits(nd2, leaf, m, slice_index(path, sh), n)
          /\ s # RootSlot => Fits(nd2, leaf, s[1], s[2], m)
      BY <1>6, <3>2, <3>3, <3>4, <3>5, <3>6, <3>7, <3>8, NewNodeFits
    <3> QED BY <3>1, <3>9
  <2>11. \A l \in T \cap LeafIds : leaf[l].key # key
    <3> SUFFICES ASSUME NEW l \in T \cap LeafIds, leaf[l].key = key PROVE FALSE
      OBVIOUS
    <3>1. At(Walk(key, TRUE).slot) = l
      BY <1>1, WalkFinds
    <3>2. n = l
      BY <1>3, <1>4, <3>1
    <3> QED BY <1>5, <1>9, <3>2, Kinds DEF KeyIn
  <2>12. LinkReady(T, k, m, s)'
    <3>1. At(s)' = n
      BY <1>9, <2>4 DEF At, AtIn
    <3>2. /\ node'[m].child[ik] = k /\ node'[m].child[im] = n
          /\ \A j \in Nibs \ {ik, im} : node'[m].child[j] = NULL
      BY <1>17, <1>18
    <3>3. Fits(node', leaf', m, ik, k) /\ Fits(node', leaf', m, im, n)
      BY <1>9, <1>16, <2>10
    <3>4. s # RootSlot => Fits(node', leaf', s[1], s[2], m)
      BY <1>9, <2>10
    <3>5. /\ s \in Slots(T) /\ leaf'[k].key \in Keys
          /\ \A l \in T \cap LeafIds : leaf'[l].key # leaf'[k].key
      BY <1>2, <1>9, <1>10, <1>13, <2>11
    <3>6. \E n2 \in T, ik2 \in Nibs, im2 \in Nibs :
            /\ At(s)' = n2 /\ ik2 # im2
            /\ node'[m].child[ik2] = k /\ node'[m].child[im2] = n2
            /\ \A j \in Nibs \ {ik2, im2} : node'[m].child[j] = NULL
            /\ Fits(node', leaf', m, ik2, k) /\ Fits(node', leaf', m, im2, n2)
      BY <1>12, <1>16, <3>1, <3>2, <3>3
    <3> QED BY <3>4, <3>5, <3>6 DEF LinkReady
  <2>13. Held(T)'
    BY <1>19, <2>12 DEF Held
  <2> QED BY <1>9, <2>3, <2>13
<1>21. Stored(T)'
  <2>1. \A l \in T \cap LeafIds : leaf'[l] = leaf[l]
    BY <1>9
  <2> QED BY <1>1, <1>9, <2>1, StoredSame
<1>22. StoreType(root', node', leaf')
  BY <1>9, <1>18
<1>23. /\ removes' \in Nat /\ writes' \in Nat /\ map' \in [Keys -> Nat]
       /\ pend' \in [Dels -> PendType] /\ PendOnce(pend')
  BY <1>1, <1>9
<1>24. CASE pool.node # NULL
  <2>1. m = pool.node /\ pool' = [pool EXCEPT !.node = node[m].child[0]]
    BY <1>7, <1>9, <1>24
  <2>2. \A l \in PN \ {m} : NodeLink(node')[l] = NodeLink(node)[l]
    BY <1>1, <1>18 DEF NodeLink
  <2>3. m \in PN /\ IsList(PN \ {m}, NodeIds, NodeLink(node)[m], NodeLink(node'))
    BY <1>1, <1>24, <2>1, <2>2, ListPop
  <2>4. NodeLink(node)[m] = node[m].child[0]
    BY <1>9 DEF NodeLink
  <2>5. node[m].child[0] \in NodeIds \cup {NULL}
    BY <2>3, <2>4, ListHead
  <2>6. /\ pool' \in PoolType /\ pool'.node = node[m].child[0] /\ pool'.leaf = pool.leaf
        /\ HandedBy(pool') = HandedBy(pool)
    <3>1. /\ pool' \in PoolType /\ pool'.node = node[m].child[0] /\ pool'.leaf = pool.leaf
          /\ pool'.freshNode = pool.freshNode /\ pool'.freshLeaf = pool.freshLeaf
      BY <1>1, <2>1, <2>5 DEF PoolType
    <3> QED BY <3>1 DEF HandedBy
  <2>7. IsList(PN \ {m}, NodeIds, pool'.node, NodeLink(node'))
    BY <2>3, <2>4, <2>6
  <2>8. IsList(PL, LeafIds, pool'.leaf, LeafLink(leaf'))
    BY <1>1, <1>9, <2>6
  <2>9. m \notin T /\ m \notin PL
    BY <1>1, <1>9, <2>3, Kinds DEF Split
  <2>10. Split(T, PendingOf(pend'), (PN \ {m}) \cup PL, HandOf(w'), HandedBy(pool'))
    BY <1>1, <1>9, <1>11, <1>19, <2>3, <2>6, <2>9 DEF Split
  <2> QED BY <1>19, <1>20, <1>21, <1>22, <1>23, <2>6, <2>7, <2>8, <2>9, <2>10, Kept
<1>25. CASE pool.node = NULL
  <2>1. m = pool.freshNode /\ pool' = [pool EXCEPT !.freshNode = @ + 1]
    BY <1>7, <1>9, <1>25
  <2>2. /\ m \notin HandedBy(pool) /\ pool' \in PoolType
        /\ HandedBy(pool') = HandedBy(pool) \cup {m}
    BY <1>1, <1>9, <2>1, Fresh
  <2>3. pool'.leaf = pool.leaf /\ pool'.node = pool.node
    BY <1>1, <2>1 DEF PoolType
  <2>4. m \notin T /\ m \notin PL /\ m \notin PendingOf(pend) /\ m \notin PN
    BY <1>1, <2>2 DEF Split
  <2>5. \A l \in PN : NodeLink(node')[l] = NodeLink(node)[l]
    BY <1>1, <1>18, <2>4 DEF NodeLink
  <2>6. IsList(PN, NodeIds, pool'.node, NodeLink(node'))
    BY <1>1, <2>3, <2>5, ListSame
  <2>7. IsList(PL, LeafIds, pool'.leaf, LeafLink(leaf'))
    BY <1>1, <1>9, <2>3
  <2>8. Split(T, PendingOf(pend'), PN \cup PL, HandOf(w'), HandedBy(pool'))
    BY <1>1, <1>9, <1>11, <1>19, <2>2, <2>4 DEF Split
  <2> QED BY <1>19, <1>20, <1>21, <1>22, <1>23, <2>2, <2>4, <2>6, <2>7, <2>8, Kept
<1> QED BY <1>24, <1>25

LEMMA InsertLinkInv ==
  ASSUME NEW T, NEW PN, NEW PL, WriterInv(T, PN, PL), InsertLink
  PROVE  /\ w.slot \in Slots(T) /\ w.k \in LeafIds /\ w.m \in NodeIds /\ w.k \notin T /\ w.m \notin T
         /\ StoredIn(root, node, w.slot, w.m, root', node')
         /\ leaf[w.k].key \in Keys /\ w'.pc = "free"
         /\ \E n \in T, ik \in Nibs, im \in Nibs :
              /\ AtIn(root, node, w.slot) = n /\ ik # im
              /\ node[w.m].child[ik] = w.k /\ node[w.m].child[im] = n
              /\ \A j \in Nibs \ {ik, im} : node[w.m].child[j] = NULL
              /\ Fits(node, leaf, w.m, im, n)
         /\ \E X : X = T \cup {w.m, w.k} /\ KeptAs(X)'
<1>1. /\ StoreType(root, node, leaf) /\ pool \in PoolType /\ pend \in [Dels -> PendType]
      /\ removes \in Nat /\ writes \in Nat /\ map \in [Keys -> Nat] /\ w \in CallType
      /\ Tree(T, root, node, leaf)
      /\ IsList(PN, NodeIds, pool.node, NodeLink(node))
      /\ IsList(PL, LeafIds, pool.leaf, LeafLink(leaf))
      /\ PN \subseteq NodeIds /\ PL \subseteq LeafIds /\ T \subseteq NodeIds \cup LeafIds
      /\ Split(T, PendingOf(pend), PN \cup PL, HandOf(w), HandedBy(pool))
      /\ PendOnce(pend) /\ Stored(T) /\ Held(T)
  BY Taken
<1>2. PICK k, m, s, key : k = w.k /\ m = w.m /\ s = w.slot /\ key = leaf[k].key
  OBVIOUS
<1>3. /\ w.pc = "link" /\ StoreAt(s, m) /\ w' = Free
      /\ map' = [map EXCEPT ![key] = leaf[k].value]
      /\ leaf' = leaf /\ pool' = pool /\ pend' = pend /\ removes' = removes /\ writes' = writes
  BY <1>2 DEF InsertLink, Becomes
<1>4. k \in LeafIds /\ m \in NodeIds
  BY <1>1, <1>2, <1>3, CallCases
<1>5. LinkReady(T, k, m, s)
  BY <1>1, <1>2, <1>3 DEF Held
<1>6. /\ s \in Slots(T) /\ key \in Keys
      /\ \A l \in T \cap LeafIds : leaf[l].key # key
      /\ s # RootSlot => Fits(node, leaf, s[1], s[2], m)
  BY <1>2, <1>5 DEF LinkReady
<1>7. PICK n \in T, ik \in Nibs, im \in Nibs :
         /\ At(s) = n /\ ik # im
         /\ node[m].child[ik] = k /\ node[m].child[im] = n
         /\ \A j \in Nibs \ {ik, im} : node[m].child[j] = NULL
         /\ Fits(node, leaf, m, ik, k) /\ Fits(node, leaf, m, im, n)
  BY <1>5 DEF LinkReady
<1>8. /\ HandOf(w) = {k, m} /\ k \notin T /\ m \notin T /\ PN \cap T = {}
      /\ w' \in CallType /\ w'.pc = "free" /\ HandOf(w') = {}
  <2>1. HandOf(w) = {k, m}
    BY <1>2, <1>3, HandCases
  <2>2. w' \in CallType /\ w'.pc = "free" /\ HandOf(w') = {}
    BY <1>3, CallIntro, HandCases
  <2> QED BY <1>1, <2>1, <2>2 DEF Split
<1>9. StoredIn(root, node, s, m, root', node')
  BY <1>3, StoreAtIn
<1>10. AtIn(root, node, s) = n
  BY <1>7, AtIsAtIn
<1>11. PICK r2, nd2 : r2 = root' /\ nd2 = node'
  OBVIOUS
<1>12. StoredIn(root, node, s, m, r2, nd2)
  BY <1>9, <1>11
<1>13. Tree(T \cup {m, k}, r2, nd2, leaf)
  BY <1>1, <1>4, <1>6, <1>7, <1>8, <1>10, <1>12, TreeLink
<1>14. Tree(T \cup {m, k}, root', node', leaf')
  BY <1>3, <1>11, <1>13
<1>15. StoreType(root', node', leaf')
  <2>1. s \in Slots(NodeIds) /\ m \in Ptr
    BY <1>4, <1>6, SlotsInNodes DEF Ptr
  <2>2. StoreType(root', node', leaf)
    BY <1>1, <1>9, <2>1, StoreFacts
  <2> QED BY <1>3, <2>2
<1>16. IsList(PN, NodeIds, pool'.node, NodeLink(node'))
  BY <1>1, <1>3, <1>6, <1>8, <1>9, OtherNodes
<1>17. IsList(PL, LeafIds, pool'.leaf, LeafLink(leaf'))
  BY <1>1, <1>3
<1>18. Split(T \cup {m, k}, PendingOf(pend'), PN \cup PL, HandOf(w'), HandedBy(pool'))
  BY <1>1, <1>3, <1>8 DEF Split
<1>19. leaf[k].value \in Nat /\ map' \in [Keys -> Nat]
  BY <1>1, <1>3, <1>4, <1>6 DEF StoreType, LeafType
<1>20. Stored(T \cup {m, k})'
  <2>1. (T \cup {m, k}) \cap LeafIds = (T \cap LeafIds) \cup {k}
    BY <1>4, Kinds
  <2>2. \A l \in (T \cap LeafIds) \cup {k} : leaf'[l].key \in Keys /\ map'[leaf'[l].key] = leaf'[l].value
    BY <1>1, <1>2, <1>3, <1>6 DEF Stored
  <2>3. \A x \in Keys : map'[x] # NULL => \E l \in (T \cap LeafIds) \cup {k} : leaf'[l].key = x
    BY <1>1, <1>2, <1>3, <1>6 DEF Stored
  <2> QED BY <2>1, <2>2, <2>3 DEF Stored
<1>21. Held(T \cup {m, k})'
  BY <1>8 DEF Held
<1>22. /\ removes' \in Nat /\ writes' \in Nat /\ pool' \in PoolType
       /\ pend' \in [Dels -> PendType] /\ PendOnce(pend')
  BY <1>1, <1>3
<1>23. KeptAs(T \cup {m, k})'
  BY <1>8, <1>14, <1>15, <1>16, <1>17, <1>18, <1>19, <1>20, <1>21, <1>22, Kept
<1>24. \E X : X = T \cup {w.m, w.k} /\ KeptAs(X)'
  BY <1>2, <1>23
<1> QED BY <1>2, <1>4, <1>6, <1>7, <1>8, <1>9, <1>10, <1>24

LEMMA RemoveCountInv ==
  ASSUME NEW T, NEW PN, NEW PL, WriterInv(T, PN, PL), NEW key \in Keys, RemoveCount(key)
  PROVE  KeptAs(T)'
<1>1. /\ StoreType(root, node, leaf) /\ pool \in PoolType /\ pend \in [Dels -> PendType]
      /\ removes \in Nat /\ writes \in Nat /\ map \in [Keys -> Nat] /\ w \in CallType
      /\ Tree(T, root, node, leaf)
      /\ IsList(PN, NodeIds, pool.node, NodeLink(node))
      /\ IsList(PL, LeafIds, pool.leaf, LeafLink(leaf))
      /\ Split(T, PendingOf(pend), PN \cup PL, HandOf(w), HandedBy(pool))
      /\ PendOnce(pend) /\ Stored(T)
  BY Taken
<1>2. PICK d : d = removes % DELETED_LIFE
  OBVIOUS
<1>3. /\ w = Free /\ removes' = removes + 1 /\ writes' = writes + 1
      /\ w' = [pc |-> "recycle", key |-> key, del |-> d]
      /\ root' = root /\ node' = node /\ leaf' = leaf /\ pool' = pool /\ pend' = pend /\ map' = map
  BY <1>2 DEF RemoveCount, SameMap
<1>4. d \in Dels
  BY <1>1, <1>2, LifeAssumption, Euclid DEF Dels
<1>5. /\ w' \in CallType /\ w'.pc = "recycle" /\ w'.del = d
      /\ HandOf(w) = {} /\ HandOf(w') = {}
  <2>1. w' \in CallType /\ w'.pc = "recycle" /\ w'.del = d
    BY <1>3, <1>4, CallIntro
  <2>2. HandOf(w) = {}
    BY <1>3, CallIntro, HandCases
  <2> QED BY <2>1, <2>2, HandCases
<1>6. Held(T)'
  <2>1. removes' # 0 /\ removes' - 1 = removes
    BY <1>1, <1>3
  <2> QED BY <1>2, <1>5, <2>1 DEF Held
<1>7. Stored(T)'
  BY <1>1, <1>3, StoredSame
<1>8. Split(T, PendingOf(pend'), PN \cup PL, HandOf(w'), HandedBy(pool'))
  BY <1>1, <1>3, <1>5
<1>9. /\ removes' \in Nat /\ writes' \in Nat /\ map' \in [Keys -> Nat] /\ pool' \in PoolType
      /\ pend' \in [Dels -> PendType] /\ PendOnce(pend')
  BY <1>1, <1>3
<1>10. /\ StoreType(root', node', leaf') /\ Tree(T, root', node', leaf')
       /\ IsList(PN, NodeIds, pool'.node, NodeLink(node'))
       /\ IsList(PL, LeafIds, pool'.leaf, LeafLink(leaf'))
  BY <1>1, <1>3
<1> QED BY <1>5, <1>6, <1>7, <1>8, <1>9, <1>10, Kept

\* A node that no longer waits goes to the pool (free_node) ...
LEMMA NodeToPool ==
  ASSUME NEW T, NEW r, NEW nd, NEW lf, StoreType(r, nd, lf), Tree(T, r, nd, lf),
         NEW PN, NEW head \in NodeIds \cup {NULL}, IsList(PN, NodeIds, head, NodeLink(nd)),
         NEW n \in NodeIds \cup {NULL}, n \notin T, n \notin PN, PN \cap T = {}, PN \subseteq NodeIds,
         NEW nd2, NEW head2, NodeFreed(nd, head, n, nd2, head2)
  PROVE  /\ StoreType(r, nd2, lf) /\ Tree(T, r, nd2, lf)
         /\ head2 \in NodeIds \cup {NULL}
         /\ IsList(PN \cup ({n} \ {NULL}), NodeIds, head2, NodeLink(nd2))
<1>1. CASE n = NULL
  <2>1. nd2 = nd /\ head2 = head /\ PN \cup ({n} \ {NULL}) = PN
    BY <1>1 DEF NodeFreed
  <2> QED BY <2>1
<1>2. CASE n # NULL
  <2>1. n \in NodeIds /\ head2 = n /\ PN \cup ({n} \ {NULL}) = PN \cup {n}
    BY <1>2 DEF NodeFreed
  <2>2. nd \in [NodeIds -> NodeType] /\ nd2 = [nd EXCEPT ![n].child[0] = head] /\ PathType(nd)
    BY <1>2 DEF StoreType, NodeFreed
  <2>3. nd[n] \in NodeType /\ nd[n].child \in [Nibs -> Ptr] /\ head \in Ptr /\ 0 \in Nibs
    <3>1. nd[n] \in NodeType
      BY <2>1, <2>2
    <3>2. 0 \in Nibs
      BY UnitFacts DEF Nibs
    <3> QED BY <3>1, <3>2 DEF NodeType, Ptr
  <2>4. PICK ch : ch = [nd[n].child EXCEPT ![0] = head]
    OBVIOUS
  <2>5. ch \in [Nibs -> Ptr] /\ ch[0] = head
    BY <2>3, <2>4
  <2>6. PICK rec : rec = [nd[n] EXCEPT !.child = ch]
    OBVIOUS
  <2>7. rec \in NodeType /\ rec.child = ch /\ rec.path = nd[n].path /\ rec.shift = nd[n].shift
    BY <2>3, <2>5, <2>6 DEF NodeType
  <2>8. nd2 = [nd EXCEPT ![n] = rec]
    BY <2>2, <2>4, <2>6
  <2>9. nd2 \in [NodeIds -> NodeType] /\ nd2[n] = rec /\ \A x \in NodeIds \ {n} : nd2[x] = nd[x]
    BY <2>1, <2>2, <2>7, <2>8
  <2>10. StoreType(r, nd2, lf)
    <3>1. PathType(nd2)
      BY <2>2, <2>7, <2>9 DEF PathType
    <3> QED BY <2>9, <3>1 DEF StoreType
  <2>11. \A x \in T \cap NodeIds : nd2[x] = nd[x]
    BY <2>9
  <2>12. Tree(T, r, nd2, lf)
    BY <2>11, TreeSame
  <2>13. NodeLink(nd2)[n] = head
    BY <2>1, <2>5, <2>7, <2>9 DEF NodeLink
  <2>14. \A x \in PN : NodeLink(nd2)[x] = NodeLink(nd)[x]
    BY <2>9 DEF NodeLink
  <2>15. IsList(PN \cup {n}, NodeIds, n, NodeLink(nd2))
    BY <2>1, <2>13, <2>14, ListPush
  <2> QED BY <2>1, <2>10, <2>12, <2>15
<1> QED BY <1>1, <1>2

\* ... and so does a leaf (free_leaf).
LEMMA LeafToPool ==
  ASSUME NEW T, NEW r, NEW nd, NEW lf, StoreType(r, nd, lf), Tree(T, r, nd, lf),
         NEW PL, NEW head \in LeafIds \cup {NULL}, IsList(PL, LeafIds, head, LeafLink(lf)),
         NEW k \in LeafIds \cup {NULL}, k \notin T, k \notin PL, PL \subseteq LeafIds,
         NEW lf2, NEW head2, LeafFreed(lf, head, k, lf2, head2)
  PROVE  /\ StoreType(r, nd, lf2) /\ Tree(T, r, nd, lf2)
         /\ head2 \in LeafIds \cup {NULL}
         /\ IsList(PL \cup ({k} \ {NULL}), LeafIds, head2, LeafLink(lf2))
<1>1. CASE k = NULL
  <2>1. lf2 = lf /\ head2 = head /\ PL \cup ({k} \ {NULL}) = PL
    BY <1>1 DEF LeafFreed
  <2> QED BY <2>1
<1>2. CASE k # NULL
  <2>1. k \in LeafIds /\ head2 = k /\ PL \cup ({k} \ {NULL}) = PL \cup {k}
    BY <1>2 DEF LeafFreed
  <2>2. lf \in [LeafIds -> LeafType] /\ lf2 = [lf EXCEPT ![k].value = head]
    BY <1>2 DEF StoreType, LeafFreed
  <2>3. head \in Nat
    BY ElementAssumption DEF LeafIds, NULL
  <2>4. /\ lf2 \in [LeafIds -> LeafType] /\ lf2[k].value = head
        /\ \A l \in LeafIds \ {k} : lf2[l] = lf[l]
    BY <2>1, <2>2, <2>3 DEF LeafType
  <2>5. StoreType(r, nd, lf2)
    BY <2>4, LeafStore
  <2>6. \A l \in T \cap LeafIds : lf2[l] = lf[l]
    BY <2>4
  <2>7. Tree(T, r, nd, lf2)
    <3>1. \A n \in T \cap NodeIds : nd[n] = nd[n]
      OBVIOUS
    <3>2. \A l \in T \cap LeafIds : lf2[l].key = lf[l].key
      BY <2>6
    <3> QED BY <3>1, <3>2, TreeSame
  <2>8. LeafLink(lf2)[k] = head
    BY <2>1, <2>4 DEF LeafLink
  <2>9. \A x \in PL : LeafLink(lf2)[x] = LeafLink(lf)[x]
    BY <2>4 DEF LeafLink
  <2>10. IsList(PL \cup {k}, LeafIds, k, LeafLink(lf2))
    BY <2>1, <2>8, <2>9, ListPush
  <2> QED BY <2>1, <2>5, <2>6, <2>7, <2>10
<1> QED BY <1>1, <1>2

LEMMA RemoveRecycleInv ==
  ASSUME NEW T, NEW PN, NEW PL, WriterInv(T, PN, PL), RemoveRecycle
  PROVE  KeptAs(T)'
<1>1. /\ StoreType(root, node, leaf) /\ pool \in PoolType /\ pend \in [Dels -> PendType]
      /\ removes \in Nat /\ writes \in Nat /\ map \in [Keys -> Nat] /\ w \in CallType
      /\ Tree(T, root, node, leaf)
      /\ IsList(PN, NodeIds, pool.node, NodeLink(node))
      /\ IsList(PL, LeafIds, pool.leaf, LeafLink(leaf))
      /\ PN \subseteq NodeIds /\ PL \subseteq LeafIds /\ T \subseteq NodeIds \cup LeafIds
      /\ Split(T, PendingOf(pend), PN \cup PL, HandOf(w), HandedBy(pool))
      /\ PendOnce(pend) /\ Stored(T) /\ Held(T)
  BY Taken
<1>2. PICK d : d = w.del
  OBVIOUS
<1>3. PICK n, k : n = pend[d].node /\ k = pend[d].leaf
  OBVIOUS
<1>4. /\ w.pc = "recycle"
      /\ node' = IF n = NULL THEN node ELSE [node EXCEPT ![n].child[0] = pool.node]
      /\ leaf' = IF k = NULL THEN leaf ELSE [leaf EXCEPT ![k].value = pool.leaf]
      /\ pool' = [pool EXCEPT !.node = IF n = NULL THEN @ ELSE n,
                              !.leaf = IF k = NULL THEN @ ELSE k]
      /\ pend' = [pend EXCEPT ![d] = [node |-> NULL, leaf |-> NULL]]
      /\ w' = [w EXCEPT !.pc = "unlink"]
      /\ map' = map /\ root' = root /\ removes' = removes /\ writes' = writes
  BY <1>2, <1>3 DEF RemoveRecycle, SameMap
<1>5. /\ d \in Dels /\ w' \in CallType /\ w'.pc = "unlink" /\ w'.del = d
      /\ HandOf(w) = {} /\ HandOf(w') = {}
  <2>1. d \in Dels /\ w' \in CallType /\ w'.pc = "unlink" /\ w'.del = d
    BY <1>1, <1>2, <1>4, CallCases
  <2> QED BY <1>4, <2>1, HandCases
<1>6. /\ n \in NodeIds \cup {NULL} /\ k \in LeafIds \cup {NULL}
      /\ n # NULL => n \in PendingOf(pend)
      /\ k # NULL => k \in PendingOf(pend)
  BY <1>1, <1>3, <1>5, PendingKinds
<1>7. /\ pend' \in [Dels -> PendType] /\ PendOnce(pend')
      /\ PendingOf(pend') = PendingOf(pend) \ {n, k}
      /\ pend'[d].node = NULL /\ pend'[d].leaf = NULL
  <2>1. PICK pd2 : pd2 = pend'
    OBVIOUS
  <2>2. Cleared(pend, d, pd2)
    BY <1>4, <2>1 DEF Cleared
  <2>3. /\ pd2 \in [Dels -> PendType] /\ PendOnce(pd2)
        /\ PendingOf(pd2) = PendingOf(pend) \ {pend[d].node, pend[d].leaf}
        /\ pd2[d].node = NULL /\ pd2[d].leaf = NULL
    BY <1>1, <1>5, <2>2, PendingClear
  <2> QED BY <1>3, <2>1, <2>3
<1>8. NULL \notin T /\ NULL \notin PN /\ NULL \notin PL
  BY <1>1, Kinds
<1>9. n \notin T /\ n \notin PN /\ k \notin T /\ k \notin PL /\ PN \cap T = {}
  <2>1. n \notin T /\ n \notin PN
    BY <1>1, <1>6, <1>8 DEF Split
  <2>2. k \notin T /\ k \notin PL /\ PN \cap T = {}
    BY <1>1, <1>6, <1>8 DEF Split
  <2> QED BY <2>1, <2>2
<1>10. PICK hn, hl : hn = pool'.node /\ hl = pool'.leaf
  OBVIOUS
<1>11. /\ hn = (IF n = NULL THEN pool.node ELSE n) /\ hl = (IF k = NULL THEN pool.leaf ELSE k)
       /\ pool.node \in NodeIds \cup {NULL} /\ pool.leaf \in LeafIds \cup {NULL}
       /\ pool'.freshNode = pool.freshNode /\ pool'.freshLeaf = pool.freshLeaf
  BY <1>1, <1>4, <1>10 DEF PoolType
<1>12. /\ StoreType(root, node', leaf) /\ Tree(T, root, node', leaf)
       /\ hn \in NodeIds \cup {NULL}
       /\ IsList(PN \cup ({n} \ {NULL}), NodeIds, hn, NodeLink(node'))
  <2>1. PICK nd2 : nd2 = node'
    OBVIOUS
  <2>2. NodeFreed(node, pool.node, n, nd2, hn)
    BY <1>4, <1>11, <2>1 DEF NodeFreed
  <2>3. /\ StoreType(root, nd2, leaf) /\ Tree(T, root, nd2, leaf)
        /\ hn \in NodeIds \cup {NULL}
        /\ IsList(PN \cup ({n} \ {NULL}), NodeIds, hn, NodeLink(nd2))
    <3>1. n \in NodeIds \cup {NULL} /\ n \notin T /\ n \notin PN /\ PN \subseteq NodeIds /\ PN \cap T = {}
      BY <1>1, <1>6, <1>9
    <3>2. /\ pool.node \in NodeIds \cup {NULL} /\ IsList(PN, NodeIds, pool.node, NodeLink(node))
          /\ StoreType(root, node, leaf) /\ Tree(T, root, node, leaf)
      BY <1>1, <1>11
    <3>3. StoreType(root, nd2, leaf)
      BY <2>2, <3>1, <3>2, NodeToPool
    <3>4. Tree(T, root, nd2, leaf)
      BY <2>2, <3>1, <3>2, NodeToPool
    <3>5. hn \in NodeIds \cup {NULL}
      BY <1>11, <3>1
    <3>6. IsList(PN \cup ({n} \ {NULL}), NodeIds, hn, NodeLink(nd2))
      BY <2>2, <3>1, <3>2, NodeToPool
    <3> QED BY <3>3, <3>4, <3>5, <3>6
  <2> QED BY <2>1, <2>3
<1>13. /\ StoreType(root, node', leaf') /\ Tree(T, root, node', leaf')
       /\ hl \in LeafIds \cup {NULL}
       /\ IsList(PL \cup ({k} \ {NULL}), LeafIds, hl, LeafLink(leaf'))
       /\ \A l \in T \cap LeafIds : leaf'[l] = leaf[l]
  <2>1. PICK nd2, lf2 : nd2 = node' /\ lf2 = leaf'
    OBVIOUS
  <2>2. LeafFreed(leaf, pool.leaf, k, lf2, hl)
    BY <1>4, <1>11, <2>1 DEF LeafFreed
  <2>3. StoreType(root, nd2, leaf) /\ Tree(T, root, nd2, leaf)
    BY <1>12, <2>1
  <2>4. /\ StoreType(root, nd2, lf2) /\ Tree(T, root, nd2, lf2)
        /\ hl \in LeafIds \cup {NULL}
        /\ IsList(PL \cup ({k} \ {NULL}), LeafIds, hl, LeafLink(lf2))
        /\ \A l \in T \cap LeafIds : lf2[l] = leaf[l]
    <3>1. k \in LeafIds \cup {NULL} /\ k \notin T /\ k \notin PL /\ PL \subseteq LeafIds
      BY <1>1, <1>6, <1>9
    <3>2. pool.leaf \in LeafIds \cup {NULL} /\ IsList(PL, LeafIds, pool.leaf, LeafLink(leaf))
      BY <1>1, <1>11
    <3>3. StoreType(root, nd2, lf2)
      BY <2>2, <2>3, <3>1, <3>2, LeafToPool
    <3>4. Tree(T, root, nd2, lf2)
      BY <2>2, <2>3, <3>1, <3>2, LeafToPool
    <3>5. hl \in LeafIds \cup {NULL}
      BY <1>11, <3>1
    <3>6. IsList(PL \cup ({k} \ {NULL}), LeafIds, hl, LeafLink(lf2))
      BY <2>2, <2>3, <3>1, <3>2, LeafToPool
    <3>7. ASSUME NEW l \in T \cap LeafIds PROVE lf2[l] = leaf[l]
      BY <1>1, <2>2, <3>1 DEF LeafFreed, StoreType
    <3> QED BY <3>3, <3>4, <3>5, <3>6, <3>7
  <2> QED BY <2>1, <2>4
<1>14. pool' \in PoolType /\ HandedBy(pool') = HandedBy(pool)
  <2>1. pool' = [pool EXCEPT !.node = hn, !.leaf = hl]
    BY <1>1, <1>4, <1>11 DEF PoolType
  <2>2. pool' \in PoolType
    BY <1>1, <1>12, <1>13, <2>1 DEF PoolType
  <2> QED BY <1>11, <2>2 DEF HandedBy
<1>15. PICK PN2, PL2 : PN2 = PN \cup ({n} \ {NULL}) /\ PL2 = PL \cup ({k} \ {NULL})
  OBVIOUS
<1>16. IsList(PN2, NodeIds, pool'.node, NodeLink(node')) /\ IsList(PL2, LeafIds, pool'.leaf, LeafLink(leaf'))
  BY <1>10, <1>12, <1>13, <1>15
<1>17. Split(T, PendingOf(pend'), PN2 \cup PL2, HandOf(w'), HandedBy(pool'))
  <2>1. NULL \notin PendingOf(pend)
    BY <1>1, PendingMember
  <2>2. PN2 \cup PL2 = (PN \cup PL) \cup ({n, k} \ {NULL})
    BY <1>15
  <2>3. {n, k} \ {NULL} \subseteq PendingOf(pend)
    BY <1>6
  <2>4. PendingOf(pend') = PendingOf(pend) \ ({n, k} \ {NULL})
    BY <1>7, <2>1
  <2> HIDE <1>7, <1>15
  <2> QED BY <1>1, <1>5, <1>14, <2>2, <2>3, <2>4 DEF Split
<1>18. Stored(T)'
  BY <1>1, <1>4, <1>13, StoredSame
<1>19. Held(T)'
  BY <1>1, <1>2, <1>4, <1>5, <1>7 DEF Held
<1>20. StoreType(root', node', leaf') /\ Tree(T, root', node', leaf')
  BY <1>4, <1>13
<1>21. removes' \in Nat /\ writes' \in Nat /\ map' \in [Keys -> Nat]
  BY <1>1, <1>4
<1> QED BY <1>5, <1>7, <1>14, <1>16, <1>17, <1>18, <1>19, <1>20, <1>21, Kept

LEMMA RemoveUnlinkInv ==
  ASSUME NEW T, NEW PN, NEW PL, WriterInv(T, PN, PL), RemoveUnlink
  PROVE  \/ /\ UNCHANGED <<root, node, leaf, pend, removes, map, window>>
            /\ w'.pc # "recycle" /\ KeptAs(T)'
         \/ \E s \in Slots(T), k \in T \cap LeafIds :
              /\ AtIn(root, node, s) = k /\ StoredIn(root, node, s, NULL, root', node')
              /\ leaf[k].key = w.key /\ w.key \in Keys /\ w.del \in Dels
              /\ LeafWaits(pend, w.del, k, pend') /\ w'.pc # "recycle"
              /\ \E X : X = T \ {k} /\ KeptAs(X)'
<1>1. /\ StoreType(root, node, leaf) /\ pool \in PoolType /\ pend \in [Dels -> PendType]
      /\ removes \in Nat /\ writes \in Nat /\ map \in [Keys -> Nat] /\ w \in CallType
      /\ Tree(T, root, node, leaf)
      /\ IsList(PN, NodeIds, pool.node, NodeLink(node))
      /\ IsList(PL, LeafIds, pool.leaf, LeafLink(leaf))
      /\ PN \subseteq NodeIds /\ PL \subseteq LeafIds /\ T \subseteq NodeIds \cup LeafIds
      /\ Split(T, PendingOf(pend), PN \cup PL, HandOf(w), HandedBy(pool))
      /\ PendOnce(pend) /\ Stored(T) /\ Held(T)
  BY Taken
<1>2. PICK key, d : key = w.key /\ d = w.del
  OBVIOUS
<1>3. PICK at : at = Walk(key, FALSE)
  OBVIOUS
<1>4. PICK s, k : s = at.slot /\ k = At(s)
  OBVIOUS
<1>5. /\ w.pc = "unlink"
      /\ leaf' = leaf /\ pool' = pool /\ removes' = removes /\ writes' = writes
      /\ \/ /\ w' = Free /\ map' = map /\ root' = root /\ node' = node /\ pend' = pend
            /\ window' = window
         \/ /\ k # NULL /\ leaf[k].key = key /\ StoreAt(s, NULL)
            /\ map' = [map EXCEPT ![key] = NULL]
            /\ pend' = [pend EXCEPT ![d].leaf = k]
            /\ w' = IF s = RootSlot THEN Free
                    ELSE [pc |-> "collapse", del |-> d, n |-> s[1], up |-> at.up]
  BY <1>2, <1>3, <1>4 DEF RemoveUnlink, Becomes, SameMap
<1>6. key \in Keys /\ d \in Dels /\ HandOf(w) = {}
  BY <1>1, <1>2, <1>5, CallCases, HandCases
<1>7. removes # 0 /\ d = (removes - 1) % DELETED_LIFE /\ pend[d].node = NULL /\ pend[d].leaf = NULL
  BY <1>1, <1>2, <1>5 DEF Held
<1>8. pool' \in PoolType /\ removes' \in Nat /\ writes' \in Nat
  BY <1>1, <1>5
<1>9. CASE /\ w' = Free /\ map' = map /\ root' = root /\ node' = node /\ pend' = pend
           /\ window' = window
  <2>1. w' \in CallType /\ w'.pc = "free" /\ HandOf(w') = {}
    BY <1>9, CallIntro, HandCases
  <2>2. Held(T)'
    BY <2>1 DEF Held
  <2>3. Stored(T)'
    BY <1>1, <1>5, <1>9, StoredSame
  <2>4. /\ StoreType(root', node', leaf') /\ Tree(T, root', node', leaf')
        /\ IsList(PN, NodeIds, pool'.node, NodeLink(node'))
        /\ IsList(PL, LeafIds, pool'.leaf, LeafLink(leaf'))
        /\ Split(T, PendingOf(pend'), PN \cup PL, HandOf(w'), HandedBy(pool'))
        /\ map' \in [Keys -> Nat] /\ pend' \in [Dels -> PendType] /\ PendOnce(pend')
    BY <1>1, <1>5, <1>6, <1>9, <2>1
  <2>5. KeptAs(T)'
    BY <1>8, <2>1, <2>2, <2>3, <2>4, Kept
  <2> QED BY <1>5, <1>9, <2>1, <2>5
<1>10. CASE /\ k # NULL /\ leaf[k].key = key /\ StoreAt(s, NULL)
            /\ map' = [map EXCEPT ![key] = NULL]
            /\ pend' = [pend EXCEPT ![d].leaf = k]
            /\ w' = IF s = RootSlot THEN Free
                    ELSE [pc |-> "collapse", del |-> d, n |-> s[1], up |-> at.up]
  <2>1. WalkGood(T, key, FALSE, at) /\ k \in T \cap LeafIds
    <3>1. key \in 0..MaxKey /\ FALSE \in BOOLEAN /\ k = At(at.slot)
      BY <1>4, <1>6, KeyAssumption
    <3>2. /\ WalkGood(T, key, FALSE, at) /\ k \in T \cup {NULL}
          /\ k \in NodeIds => Differs(key, FALSE, k)
      BY <1>1, <1>3, <3>1, WalkEnd
    <3> QED BY <1>1, <1>10, <3>2 DEF Differs
  <2>2. /\ s \in Slots(T) /\ at.up \in Slots(T) /\ AtIn(root, node, s) = k
        /\ s # RootSlot => AtIn(root, node, at.up) = s[1]
    BY <1>4, <2>1, AtIsAtIn DEF WalkGood
  <2>3. PICK r2, nd2, pd2 : r2 = root' /\ nd2 = node' /\ pd2 = pend'
    OBVIOUS
  <2>4. StoredIn(root, node, s, NULL, r2, nd2)
    BY <1>10, <2>3, StoreAtIn
  <2>5. Tree(T \ {k}, r2, nd2, leaf)
    BY <1>1, <2>1, <2>2, <2>4, TreeUnlink
  <2>6. /\ StoreType(r2, nd2, leaf)
        /\ \A t \in Slots(NodeIds) : t # s => AtIn(r2, nd2, t) = AtIn(root, node, t)
    <3>1. s \in Slots(NodeIds) /\ NULL \in Ptr
      BY <2>2, SlotsInNodes DEF Ptr
    <3> QED BY <1>1, <2>4, <3>1, StoreFacts
  <2>7. PN \cap T = {} /\ k \notin PendingOf(pend) /\ k \notin PN \cup PL
    BY <1>1, <2>1 DEF Split
  <2>8. IsList(PN, NodeIds, pool.node, NodeLink(nd2))
    BY <1>1, <2>2, <2>4, <2>7, OtherNodes
  <2>9. LeafWaits(pend, d, k, pd2)
    BY <1>10, <2>3 DEF LeafWaits
  <2>10. /\ pd2 \in [Dels -> PendType] /\ PendOnce(pd2)
         /\ PendingOf(pd2) = PendingOf(pend) \cup {k}
         /\ pd2[d].node = pend[d].node
    BY <1>1, <1>6, <1>7, <2>1, <2>7, <2>9, PendingLeaf
  <2>11. Slots(T \ {k}) = Slots(T)
    BY <2>1, Kinds DEF Slots
  <2>12. w' \in CallType /\ HandOf(w') = {} /\ Held(T \ {k})'
    <3>1. CASE s = RootSlot
      <4>1. w' \in CallType /\ w'.pc = "free" /\ HandOf(w') = {}
        BY <1>10, <3>1, CallIntro, HandCases
      <4> QED BY <4>1 DEF Held
    <3>2. CASE s # RootSlot
      <4>1. s[1] \in T \cap NodeIds /\ at.up \in Slots(NodeIds)
        BY <2>2, <3>2, SlotCases, SlotsInNodes
      <4>2. w' \in CallType
        BY <1>6, <1>10, <3>2, <4>1, CallIntro
      <4>3. w'.pc = "collapse" /\ w'.del = d /\ w'.n = s[1] /\ w'.up = at.up
        BY <1>10, <3>2
      <4>4. HandOf(w') = {}
        BY <4>3, HandCases
      <4>5. w'.n \in (T \ {k}) \cap NodeIds /\ w'.up \in Slots(T \ {k})
        BY <2>1, <2>2, <2>11, <4>1, <4>3, Kinds
      <4>6. at.up # s
        BY <2>1, <2>2, <3>2, <4>1, Kinds
      <4>7. AtIn(r2, nd2, at.up) = s[1]
        BY <2>2, <2>6, <3>2, <4>1, <4>6
      <4>8. At(w.up)' = w'.n
        BY <2>3, <4>3, <4>7 DEF At, AtIn
      <4>9. pend'[w'.del].node = NULL /\ removes' # 0 /\ w'.del = (removes' - 1) % DELETED_LIFE
        BY <1>5, <1>7, <2>3, <2>10, <4>3
      <4> QED BY <4>2, <4>3, <4>4, <4>5, <4>8, <4>9 DEF Held
    <3> QED BY <3>1, <3>2
  <2>13. \A l \in T \cap LeafIds : leaf[l].key = key => l = k
    <3> SUFFICES ASSUME NEW l \in T \cap LeafIds, leaf[l].key = key PROVE l = k
      OBVIOUS
    <3>1. At(Walk(key, FALSE).slot) = l
      BY <1>1, WalkFinds
    <3> QED BY <1>3, <1>4, <3>1
  <2>14. map' \in [Keys -> Nat] /\ map'[key] = NULL /\ \A x \in Keys \ {key} : map'[x] = map[x]
    BY <1>1, <1>6, <1>10 DEF NULL
  <2>15. Stored(T \ {k})'
    <3>1. ASSUME NEW l \in (T \ {k}) \cap LeafIds
          PROVE  leaf'[l].key \in Keys /\ map'[leaf'[l].key] = leaf'[l].value
      <4>1. leaf[l].key \in Keys /\ map[leaf[l].key] = leaf[l].value /\ leaf[l].key # key
        BY <1>1, <2>13 DEF Stored
      <4> QED BY <1>5, <2>14, <4>1
    <3>2. ASSUME NEW x \in Keys, map'[x] # NULL
          PROVE  \E l \in (T \ {k}) \cap LeafIds : leaf'[l].key = x
      <4>1. x # key /\ map[x] # NULL
        BY <2>14, <3>2
      <4>2. PICK l \in T \cap LeafIds : leaf[l].key = x
        BY <1>1, <4>1 DEF Stored
      <4>3. l # k
        BY <1>10, <4>1, <4>2
      <4> QED BY <1>5, <4>2, <4>3
    <3> QED BY <3>1, <3>2 DEF Stored
  <2>16. Split(T \ {k}, PendingOf(pend'), PN \cup PL, HandOf(w'), HandedBy(pool'))
    BY <1>1, <1>5, <1>6, <2>1, <2>3, <2>7, <2>10, <2>12 DEF Split
  <2>17. /\ StoreType(root', node', leaf') /\ Tree(T \ {k}, root', node', leaf')
         /\ IsList(PN, NodeIds, pool'.node, NodeLink(node'))
         /\ IsList(PL, LeafIds, pool'.leaf, LeafLink(leaf'))
         /\ pend' \in [Dels -> PendType] /\ PendOnce(pend')
    BY <1>1, <1>5, <2>3, <2>5, <2>6, <2>8, <2>10
  <2>18. KeptAs(T \ {k})'
    BY <1>8, <2>12, <2>14, <2>15, <2>16, <2>17, Kept
  <2>19. w'.pc # "recycle"
    BY <1>10, CallIntro
  <2>20. LeafWaits(pend, w.del, k, pend') /\ StoredIn(root, node, s, NULL, root', node')
    BY <1>2, <2>3, <2>4, <2>9
  <2>21. \E X : X = T \ {k} /\ KeptAs(X)'
    BY <2>18
  <2> QED BY <1>2, <1>6, <1>10, <2>1, <2>2, <2>19, <2>20, <2>21
<1> QED BY <1>5, <1>9, <1>10

LEMMA RemoveCollapseInv ==
  ASSUME NEW T, NEW PN, NEW PL, WriterInv(T, PN, PL), RemoveCollapse
  PROVE  /\ w'.pc # "recycle"
         /\ \/ UNCHANGED <<root, node, pend>> /\ KeptAs(T)'
            \/ \E s \in Slots(T), n \in T \cap NodeIds, i \in Nibs, c \in T :
                 /\ c # n /\ AtIn(root, node, s) = n /\ StoredIn(root, node, s, c, root', node')
                 /\ node[n].child[i] = c /\ \A j \in Nibs \ {i} : node[n].child[j] = NULL
                 /\ NodeWaits(pend, w.del, n, pend') /\ w.del \in Dels
                 /\ \E X : X = T \ {n} /\ KeptAs(X)'
<1>1. /\ StoreType(root, node, leaf) /\ pool \in PoolType /\ pend \in [Dels -> PendType]
      /\ removes \in Nat /\ writes \in Nat /\ map \in [Keys -> Nat] /\ w \in CallType
      /\ Tree(T, root, node, leaf)
      /\ IsList(PN, NodeIds, pool.node, NodeLink(node))
      /\ IsList(PL, LeafIds, pool.leaf, LeafLink(leaf))
      /\ PN \subseteq NodeIds /\ PL \subseteq LeafIds /\ T \subseteq NodeIds \cup LeafIds
      /\ Split(T, PendingOf(pend), PN \cup PL, HandOf(w), HandedBy(pool))
      /\ PendOnce(pend) /\ Stored(T) /\ Held(T)
  BY Taken
<1>2. PICK n, s, d : n = w.n /\ s = w.up /\ d = w.del
  OBVIOUS
<1>3. PICK left : left = {i \in Nibs : node[n].child[i] # NULL}
  OBVIOUS
<1>4. /\ w.pc = "collapse" /\ w' = Free
      /\ map' = map /\ leaf' = leaf /\ pool' = pool /\ removes' = removes /\ writes' = writes
      /\ \/ root' = root /\ node' = node /\ pend' = pend
         \/ /\ Cardinality(left) = 1
            /\ StoreAt(s, node[n].child[CHOOSE i \in left : TRUE])
            /\ pend' = [pend EXCEPT ![d].node = n]
  BY <1>2, <1>3 DEF RemoveCollapse, SameMap
<1>5. d \in Dels /\ HandOf(w) = {}
  BY <1>1, <1>2, <1>4, CallCases, HandCases
<1>6. n \in T \cap NodeIds /\ s \in Slots(T) /\ At(s) = n /\ pend[d].node = NULL
  BY <1>1, <1>2, <1>4 DEF Held
<1>7. w' \in CallType /\ w'.pc = "free" /\ HandOf(w') = {}
  BY <1>4, CallIntro, HandCases
<1>8. \A X : Held(X)'
  BY <1>7 DEF Held
<1>9. pool' \in PoolType /\ removes' \in Nat /\ writes' \in Nat /\ map' \in [Keys -> Nat]
  BY <1>1, <1>4
<1>10. CASE root' = root /\ node' = node /\ pend' = pend
  <2>1. Stored(T)'
    BY <1>1, <1>4, StoredSame
  <2>2. /\ StoreType(root', node', leaf') /\ Tree(T, root', node', leaf')
        /\ IsList(PN, NodeIds, pool'.node, NodeLink(node'))
        /\ IsList(PL, LeafIds, pool'.leaf, LeafLink(leaf'))
        /\ Split(T, PendingOf(pend'), PN \cup PL, HandOf(w'), HandedBy(pool'))
        /\ pend' \in [Dels -> PendType] /\ PendOnce(pend')
    BY <1>1, <1>4, <1>5, <1>7, <1>10
  <2>3. KeptAs(T)'
    BY <1>7, <1>8, <1>9, <2>1, <2>2, Kept
  <2> QED BY <1>7, <1>10, <2>3
<1>11. CASE /\ Cardinality(left) = 1
            /\ StoreAt(s, node[n].child[CHOOSE i \in left : TRUE])
            /\ pend' = [pend EXCEPT ![d].node = n]
  <2>1. PICK i : left = {i}
    <3>1. Nibs = 0..SLNODES - 1 /\ 0 \in Int /\ SLNODES - 1 \in Int
      BY UnitFacts DEF Nibs
    <3>2. IsFiniteSet(Nibs)
      BY <3>1, FS_Interval
    <3>3. IsFiniteSet(left)
      BY <1>3, <3>2, FS_Subset
    <3> QED BY <1>11, <3>3, FS_Singleton
  <2>2. /\ i \in Nibs /\ node[n].child[i] # NULL
        /\ \A j \in Nibs \ {i} : node[n].child[j] = NULL
        /\ (CHOOSE j \in left : TRUE) = i
    BY <1>3, <2>1
  <2>3. PICK c : c = node[n].child[i]
    OBVIOUS
  <2>4. PICK r2, nd2, pd2 : r2 = root' /\ nd2 = node' /\ pd2 = pend'
    OBVIOUS
  <2>5. StoredIn(root, node, s, c, r2, nd2)
    BY <1>11, <2>2, <2>3, <2>4, StoreAtIn
  <2>6. AtIn(root, node, s) = n /\ c # NULL
    BY <1>6, <2>2, <2>3, AtIsAtIn
  <2>7. Tree(T \ {n}, r2, nd2, leaf) /\ c \in T \ {n}
    <3>1. StoreType(root, node, leaf) /\ Tree(T, root, node, leaf)
      BY <1>1
    <3>2. n \in T \cap NodeIds /\ s \in Slots(T) /\ i \in Nibs
      BY <1>6, <2>2
    <3>3. \A j \in Nibs \ {i} : node[n].child[j] = NULL
      BY <2>2
    <3>4. Tree(T \ {n}, r2, nd2, leaf)
      BY <2>3, <2>5, <2>6, <3>1, <3>2, <3>3, TreeCollapse
    <3>5. c \in T \ {n}
      BY <2>3, <2>5, <2>6, <3>1, <3>2, <3>3, <3>4, TreeCollapse
    <3> QED BY <3>4, <3>5
  <2>8. StoreType(r2, nd2, leaf)
    <3>1. s \in Slots(NodeIds) /\ c \in Ptr
      BY <1>1, <1>6, <2>7, SlotsInNodes DEF Ptr
    <3> QED BY <1>1, <2>5, <3>1, StoreFacts
  <2>9. PN \cap T = {} /\ n \notin PendingOf(pend) /\ n \notin PN \cup PL
    BY <1>1, <1>6 DEF Split
  <2>10. IsList(PN, NodeIds, pool.node, NodeLink(nd2))
    BY <1>1, <1>6, <2>5, <2>9, OtherNodes
  <2>11. NodeWaits(pend, d, n, pd2)
    BY <1>11, <2>4 DEF NodeWaits
  <2>12. /\ pd2 \in [Dels -> PendType] /\ PendOnce(pd2)
         /\ PendingOf(pd2) = PendingOf(pend) \cup {n}
    BY <1>1, <1>5, <1>6, <2>9, <2>11, PendingNode
  <2>13. Stored(T \ {n})'
    <3>1. (T \ {n}) \cap LeafIds = T \cap LeafIds
      BY <1>6, Kinds
    <3> QED BY <1>1, <1>4, <3>1 DEF Stored
  <2>14. Split(T \ {n}, PendingOf(pend'), PN \cup PL, HandOf(w'), HandedBy(pool'))
    BY <1>1, <1>4, <1>5, <1>6, <1>7, <2>4, <2>9, <2>12 DEF Split
  <2>15. /\ StoreType(root', node', leaf') /\ Tree(T \ {n}, root', node', leaf')
         /\ IsList(PN, NodeIds, pool'.node, NodeLink(node'))
         /\ IsList(PL, LeafIds, pool'.leaf, LeafLink(leaf'))
         /\ pend' \in [Dels -> PendType] /\ PendOnce(pend')
    BY <1>1, <1>4, <2>4, <2>7, <2>8, <2>10, <2>12
  <2>16. Held(T \ {n})'
    BY <1>8
  <2>17. KeptAs(T \ {n})'
    BY <1>7, <1>9, <2>13, <2>14, <2>15, <2>16, Kept
  <2>18. \E X : X = T \ {n} /\ KeptAs(X)'
    BY <2>17
  <2>19. NodeWaits(pend, w.del, n, pend') /\ StoredIn(root, node, s, c, root', node') /\ w.del \in Dels
    BY <1>2, <1>5, <2>4, <2>5, <2>11
  <2> QED BY <1>6, <1>7, <2>2, <2>3, <2>6, <2>7, <2>18, <2>19
<1> QED BY <1>4, <1>10, <1>11

\* A step of a reader changes nothing the writers look at.
LEMMA ReaderKeeps ==
  ASSUME UNCHANGED <<root, node, leaf, pool, pend, removes, w, map, writes>>,
         NEW T, KeptAs(T)
  PROVE  KeptAs(T)'
<1>1. /\ root' = root /\ node' = node /\ leaf' = leaf /\ pool' = pool /\ pend' = pend
      /\ removes' = removes /\ w' = w /\ map' = map /\ writes' = writes
  OBVIOUS
<1>2. PICK PN, PL : WriterInv(T, PN, PL)
  BY DEF KeptAs
<1>3. /\ StoreType(root, node, leaf) /\ pool \in PoolType /\ pend \in [Dels -> PendType]
      /\ removes \in Nat /\ writes \in Nat /\ map \in [Keys -> Nat] /\ w \in CallType
      /\ Tree(T, root, node, leaf)
      /\ IsList(PN, NodeIds, pool.node, NodeLink(node))
      /\ IsList(PL, LeafIds, pool.leaf, LeafLink(leaf))
      /\ Split(T, PendingOf(pend), PN \cup PL, HandOf(w), HandedBy(pool))
      /\ PendOnce(pend) /\ Stored(T) /\ Held(T)
  BY <1>2, Taken
<1>4. Stored(T)'
  BY <1>1, <1>3, StoredSame
<1>5. Held(T)'
  BY <1>1, <1>3 DEF Held, LinkReady, At
<1>6. /\ StoreType(root', node', leaf') /\ pool' \in PoolType /\ pend' \in [Dels -> PendType]
      /\ removes' \in Nat /\ writes' \in Nat /\ map' \in [Keys -> Nat] /\ w' \in CallType
      /\ Tree(T, root', node', leaf')
      /\ IsList(PN, NodeIds, pool'.node, NodeLink(node'))
      /\ IsList(PL, LeafIds, pool'.leaf, LeafLink(leaf'))
      /\ Split(T, PendingOf(pend'), PN \cup PL, HandOf(w'), HandedBy(pool'))
      /\ PendOnce(pend')
  BY <1>1, <1>3
<1> QED BY <1>4, <1>5, <1>6, Kept

LEMMA ReaderUnchanged ==
  ASSUME NEW r \in Readers, Reader(r) \/ \E ask \in Queries : Query(r, ask[1], ask[2])
  PROVE  UNCHANGED <<root, node, leaf, pool, pend, removes, w, map, writes>>
<1>1. CASE Reader(r)
  BY <1>1 DEF Reader, LoadRoot, Dive, Compare, Find, Scan, FindOutermost, Descend, ReadKey, ReadValue,
     Restart, Return, Goes, Set
<1>2. CASE \E ask \in Queries : Query(r, ask[1], ask[2])
  BY <1>2 DEF Query, Set
<1> QED BY <1>1, <1>2

LEMMA NextInv == Inv /\ [Next]_vars => Inv'
<1> SUFFICES ASSUME Inv, [Next]_vars PROVE Inv'
  OBVIOUS
<1>1. PICK T, PN, PL : WriterInv(T, PN, PL) /\ KeptAs(T)
  BY DEF Inv, KeptAs
<1>2. CASE UNCHANGED vars
  BY <1>1, <1>2, ReaderKeeps DEF vars, Inv
<1>3. CASE \E r \in Readers : Reader(r) \/ \E ask \in Queries : Query(r, ask[1], ask[2])
  BY <1>1, <1>3, ReaderUnchanged, ReaderKeeps DEF Inv
<1>4. ASSUME NEW key \in Keys, InsertLeaf(key) PROVE Inv'
  BY <1>1, <1>4, InsertLeafInv DEF Inv
<1>5. ASSUME NEW key \in Keys, RemoveCount(key) PROVE Inv'
  BY <1>1, <1>5, RemoveCountInv DEF Inv
<1>6. CASE InsertHere
  BY <1>1, <1>6, InsertHereInv DEF Inv
<1>7. CASE InsertNode
  BY <1>1, <1>7, InsertNodeInv DEF Inv
<1>8. CASE InsertLink
  BY <1>1, <1>8, InsertLinkInv DEF Inv
<1>9. ASSUME NEW update \in BOOLEAN, InsertExists(update) PROVE Inv'
  BY <1>1, <1>9, InsertExistsInv DEF Inv
<1>10. CASE RemoveRecycle
  BY <1>1, <1>10, RemoveRecycleInv DEF Inv
<1>11. CASE RemoveUnlink
  BY <1>1, <1>11, RemoveUnlinkInv DEF Inv
<1>12. CASE RemoveCollapse
  BY <1>1, <1>12, RemoveCollapseInv DEF Inv
<1> QED BY <1>2, <1>3, <1>4, <1>5, <1>6, <1>7, <1>8, <1>9, <1>10, <1>11, <1>12 DEF Next, Writer

LEMMA InvHolds == Spec => []Inv
<1>1. Init => Inv
  BY InitInv
<1>2. Inv /\ [Next]_vars => Inv'
  BY NextInv
<1> QED BY <1>1, <1>2, PTL DEF Spec

\* Whoever holds the mutex, and at every step of critnib_insert and
\* critnib_remove, a walk from the root finds under each key the value the calls
\* promised and nothing under the others: for keys of any length, any slices and
\* any number of elements.
THEOREM TreeHoldsTheMap == Spec => []TreeIsMap
BY InvHolds, InvTreeIsMap, PTL

\* No element is lost or used twice: each one the slabs handed out is in the
\* tree, waits, is in the pool or in hand.
THEOREM ElementsStay == Spec => []ElementsKept
BY InvHolds, InvElementsKept, PTL

-----------------------------------------------------------------------------
(* What a lookup can see *)

\* Nothing but elements of V hangs below those of V.
Enclosed(V, nd) == \A n \in V \cap NodeIds, j \in Nibs : nd[n].child[j] \in V \cup {NULL}

\* x was put aside by one of the removals lo..hi.
Waits(x, pd, lo, hi) ==
  \E i \in lo..hi : i # 0 /\ x \in {pd[(i - 1) % DELETED_LIFE].node, pd[(i - 1) % DELETED_LIFE].leaf}
Recent(V, T, pd, lo, hi) == \A x \in V \ T : Waits(x, pd, lo, hi)

\* The leaves of V hold what one of the maps has under their key.
WasStored(V, lf, win) ==
  \A k \in V \cap LeafIds : lf[k].key \in Keys /\ \E m \in win : m[lf[k].key] = lf[k].value

\* Where the lookup c is.
Place(V, lf, c, win) ==
  /\ c.pc = "dive" => c.n \in V \cup {NULL}
  /\ c.pc = "value" => c.k = NULL \/ (c.k \in V \cap LeafIds /\ lf[c.k].key = c.bound)
  /\ c.pc = "verify" => c.k = NULL \/ (c.bound \in Keys /\ \E m \in win : m[c.bound] = c.value)

\* The slices of the key lead from the root and from where the lookup is to
\* the leaf k.
Guide(G, k, V, nd, lf, r, c) ==
  /\ LeadsTo(G, V, nd, c.bound, k) /\ lf[k].key = c.bound /\ r \in G
  /\ c.pc = "dive" => c.n \in G

\* The key was stored all the time.
Throughout(key, win) == key \in Keys /\ \A m \in win : m[key] # NULL
Guided(V, nd, lf, r, c, win) ==
  Throughout(c.bound, win) => /\ \E G, k : Guide(G, k, V, nd, lf, r, c)
                              /\ c.pc \in {"value", "verify"} => c.k # NULL

\* V is what the lookup c can have reached since it started: what is in the
\* tree and what was put aside since, as it was then.
Sees(V, T, r, nd, lf, pd, hi, c, win) ==
  /\ T \subseteq V /\ V \subseteq NodeIds \cup LeafIds
  /\ Enclosed(V, nd) /\ Recent(V, T, pd, c.wrs1, hi) /\ WasStored(V, lf, win)
  /\ Place(V, lf, c, win) /\ Guided(V, nd, lf, r, c, win)

\* A path depends on the nodes on it.
LEMMA LeadsSame ==
  ASSUME NEW G, NEW V, NEW nd, NEW key, NEW k, LeadsTo(G, V, nd, key, k),
         NEW nd2, \A n \in V \cap NodeIds : nd2[n] = nd[n], NEW V2, V \subseteq V2
  PROVE  LeadsTo(G, V2, nd2, key, k)
BY DEF LeadsTo

\* The lookup sees the same when nothing in V changes and what it may hold
\* still waits.
LEMMA SeesSame ==
  ASSUME NEW V, NEW T, NEW r, NEW nd, NEW lf, NEW pd, NEW hi, NEW c, NEW win,
         Sees(V, T, r, nd, lf, pd, hi, c, win),
         NEW nd2, NEW lf2, NEW pd2, NEW hi2,
         \A n \in V \cap NodeIds : nd2[n] = nd[n],
         \A k \in V \cap LeafIds : lf2[k] = lf[k],
         Recent(V, T, pd2, c.wrs1, hi2)
  PROVE  Sees(V, T, r, nd2, lf2, pd2, hi2, c, win)
<1>1. /\ T \subseteq V /\ V \subseteq NodeIds \cup LeafIds
      /\ Enclosed(V, nd) /\ WasStored(V, lf, win)
      /\ Place(V, lf, c, win) /\ Guided(V, nd, lf, r, c, win)
  BY DEF Sees
<1>2. Enclosed(V, nd2)
  BY <1>1 DEF Enclosed
<1>3. WasStored(V, lf2, win)
  BY <1>1 DEF WasStored
<1>4. Place(V, lf2, c, win)
  BY <1>1 DEF Place
<1>5. ASSUME NEW G, NEW k, Guide(G, k, V, nd, lf, r, c) PROVE Guide(G, k, V, nd2, lf2, r, c)
  <2>1. LeadsTo(G, V, nd2, c.bound, k)
    BY <1>5, LeadsSame DEF Guide
  <2>2. k \in V \cap LeafIds
    BY <1>5 DEF Guide, LeadsTo
  <2> QED BY <1>5, <2>1, <2>2 DEF Guide
<1>6. Guided(V, nd2, lf2, r, c, win)
  BY <1>1, <1>5 DEF Guided
<1> QED BY <1>1, <1>2, <1>3, <1>4, <1>6 DEF Sees

\* More maps make the conditions weaker.
LEMMA SeesGrow ==
  ASSUME NEW V, NEW T, NEW r, NEW nd, NEW lf, NEW pd, NEW hi, NEW c, NEW win,
         Sees(V, T, r, nd, lf, pd, hi, c, win), NEW win2, win \subseteq win2
  PROVE  Sees(V, T, r, nd, lf, pd, hi, c, win2)
<1>1. WasStored(V, lf, win2)
  BY DEF WasStored, Sees
<1>2. Place(V, lf, c, win2)
  BY DEF Place, Sees
<1>3. Guided(V, nd, lf, r, c, win2)
  <2>1. Throughout(c.bound, win2) => Throughout(c.bound, win)
    BY DEF Throughout
  <2> QED BY <2>1 DEF Guided, Sees
<1> QED BY <1>1, <1>2, <1>3 DEF Sees

\* A value stored in place (critnib_insert with update), which m has.
Updated(V, lf, x, m, lf2) ==
  /\ \A k \in V \cap LeafIds : lf2[k].key = lf[k].key /\ (k # x => lf2[k] = lf[k])
  /\ x \in V \cap LeafIds => m[lf[x].key] = lf2[x].value

LEMMA SeesUpdate ==
  ASSUME NEW V, NEW T, NEW r, NEW nd, NEW lf, NEW pd, NEW hi, NEW c, NEW win,
         Sees(V, T, r, nd, lf, pd, hi, c, win),
         NEW lf2, NEW x, NEW m \in win, Updated(V, lf, x, m, lf2)
  PROVE  Sees(V, T, r, nd, lf2, pd, hi, c, win)
<1>1. /\ T \subseteq V /\ V \subseteq NodeIds \cup LeafIds
      /\ Enclosed(V, nd) /\ WasStored(V, lf, win)
      /\ Place(V, lf, c, win) /\ Guided(V, nd, lf, r, c, win)
  BY DEF Sees
<1>2. WasStored(V, lf2, win)
  BY <1>1 DEF WasStored, Updated
<1>3. Place(V, lf2, c, win)
  BY <1>1 DEF Place, Updated
<1>4. ASSUME NEW G, NEW k, Guide(G, k, V, nd, lf, r, c) PROVE Guide(G, k, V, nd, lf2, r, c)
  <2>1. k \in V \cap LeafIds
    BY <1>4 DEF Guide, LeadsTo
  <2> QED BY <1>4, <2>1 DEF Guide, Updated
<1>5. Guided(V, nd, lf2, r, c, win)
  BY <1>1, <1>4 DEF Guided
<1> QED BY <1>1, <1>2, <1>3, <1>5 DEF Sees

\* A pointer store keeps the path when it puts something on the path where
\* there was something on the path.
LEMMA GuideStore ==
  ASSUME NEW G, NEW k, NEW V, NEW r, NEW nd, NEW lf, NEW c, StoreType(r, nd, lf),
         c.bound \in 0..MaxKey,
         Guide(G, k, V, nd, lf, r, c), NEW s \in Slots(NodeIds), NEW p \in Ptr,
         NEW r2, NEW nd2, StoredIn(r, nd, s, p, r2, nd2), AtIn(r, nd, s) \in G => p \in G
  PROVE  Guide(G, k, V, nd2, lf, r2, c)
<1>1. /\ SamePaths(nd, nd2) /\ AtIn(r2, nd2, s) = p
      /\ \A t \in Slots(NodeIds) : t # s => AtIn(r2, nd2, t) = AtIn(r, nd, t)
  BY StoreFacts
<1>2. \A t \in Slots(NodeIds) : AtIn(r, nd, t) \in G => AtIn(r2, nd2, t) \in G
  BY <1>1
<1>3. r2 \in G
  <2>1. RootSlot \in Slots(NodeIds) /\ AtIn(r, nd, RootSlot) = r /\ AtIn(r2, nd2, RootSlot) = r2
    BY DEF Slots, AtIn
  <2> QED BY <1>2, <2>1 DEF Guide
<1>4. ASSUME NEW n \in G \cap NodeIds
      PROVE  /\ Above(c.bound, nd2[n].shift) = nd2[n].path
             /\ nd2[n].child[slice_index(c.bound, nd2[n].shift)] \in G
  <2>1. PICK j : j = slice_index(c.bound, nd[n].shift)
    OBVIOUS
  <2>2. Above(c.bound, nd[n].shift) = nd[n].path /\ nd[n].child[j] \in G
    BY <2>1, <1>4 DEF Guide, LeadsTo
  <2>3. nd[n].shift \in Shifts
    BY DEF StoreType, NodeType
  <2>4. j \in Nibs
    BY <2>1, <2>3, SliceType
  <2>5. n \in NodeIds \cap NodeIds
    OBVIOUS
  <2>6. /\ <<n, j>> \in Slots(NodeIds)
        /\ AtIn(r, nd, <<n, j>>) = nd[n].child[j]
        /\ AtIn(r2, nd2, <<n, j>>) = nd2[n].child[j]
    BY <2>4, <2>5, NodeSlot
  <2>7. nd2[n].child[j] \in G
    BY <1>2, <2>2, <2>6
  <2>8. nd2[n].path = nd[n].path /\ nd2[n].shift = nd[n].shift
    BY <1>1 DEF SamePaths
  <2> QED BY <2>1, <2>2, <2>7, <2>8
<1> QED BY <1>3, <1>4 DEF Guide, LeadsTo

\* A new node above an element of the path is on the path.
LEMMA GuideAdd ==
  ASSUME NEW G, NEW k, NEW V, NEW r, NEW nd, NEW lf, NEW c, StoreType(r, nd, lf),
         c.bound \in 0..MaxKey,
         Guide(G, k, V, nd, lf, r, c), NEW n \in G, NEW m \in NodeIds, NEW j \in Nibs,
         nd[m].child[j] = n, Fits(nd, lf, m, j, n), V \subseteq NodeIds \cup LeafIds,
         NEW V2, V \subseteq V2, m \in V2
  PROVE  Guide(G \cup {m}, k, V2, nd, lf, r, c)
<1>1. nd[m].shift \in Shifts /\ n \in NodeIds \cup LeafIds /\ n # NULL /\ G \subseteq V
  BY Kinds DEF StoreType, NodeType, Guide, LeadsTo
<1>2. Above(c.bound, nd[m].shift) = nd[m].path /\ slice_index(c.bound, nd[m].shift) = j
  <2>1. CASE n \in LeafIds
    <3>1. n = k /\ lf[n].key = c.bound
      BY <2>1 DEF Guide, LeadsTo
    <3> QED BY <1>1, <2>1, <3>1, Kinds DEF Fits, KeyIn
  <2>2. CASE n \in NodeIds
    <3>1. nd[n].shift \in Shifts /\ Above(c.bound, nd[n].shift) = nd[n].path
      BY <2>2 DEF StoreType, NodeType, Guide, LeadsTo
    <3>2. /\ nd[n].shift < nd[m].shift
          /\ Above(nd[n].path, nd[m].shift) = nd[m].path
          /\ slice_index(nd[n].path, nd[m].shift) = j
      BY <1>1, <2>2, Kinds DEF Fits, KeyIn
    <3>3. nd[n].shift =< nd[m].shift
      BY <1>1, <3>1, <3>2, LevelFacts
    <3>4. Above(Above(c.bound, nd[n].shift), nd[m].shift) = Above(c.bound, nd[m].shift)
      BY <1>1, <3>1, <3>3, AboveAbove
    <3>5. slice_index(Above(c.bound, nd[n].shift), nd[m].shift) = slice_index(c.bound, nd[m].shift)
      BY <1>1, <3>1, <3>2, SliceOfAbove
    <3> QED BY <3>1, <3>2, <3>4, <3>5
  <2> QED BY <1>1, <2>1, <2>2
<1>3. (G \cup {m}) \cap LeafIds = {k}
  BY Kinds DEF Guide, LeadsTo
<1>4. ASSUME NEW l \in (G \cup {m}) \cap NodeIds
      PROVE  /\ Above(c.bound, nd[l].shift) = nd[l].path
             /\ nd[l].child[slice_index(c.bound, nd[l].shift)] \in G \cup {m}
  BY <1>2, <1>4 DEF Guide, LeadsTo
<1>5. G \cup {m} \subseteq V2 /\ k \in G \cup {m} /\ r \in G \cup {m} /\ (c.pc = "dive" => c.n \in G \cup {m})
  BY <1>1 DEF Guide, LeadsTo
<1> QED BY <1>3, <1>4, <1>5 DEF Guide, LeadsTo

\* What a pointer store must do for a lookup: what it puts on the path of the
\* key takes the place of something on it.
Leading(V, V2, s, p, r, nd, lf, c, win) ==
  \A G, k : Throughout(c.bound, win) /\ Guide(G, k, V, nd, lf, r, c)
    => \E G2 : Guide(G2, k, V2, nd, lf, r, c) /\ (AtIn(r, nd, s) \in G2 => p \in G2)

\* A pointer store, by a lookup: V2 is V with the elements that are new.
LEMMA SeesStore ==
  ASSUME NEW V, NEW T, NEW r, NEW nd, NEW lf, NEW pd, NEW hi, NEW c, NEW win,
         StoreType(r, nd, lf), c.bound \in 0..MaxKey,
         Sees(V, T, r, nd, lf, pd, hi, c, win),
         NEW V2, NEW T2, NEW pd2, V \subseteq V2, V2 \subseteq NodeIds \cup LeafIds, T2 \subseteq V2,
         NEW s \in Slots(NodeIds), NEW p \in V2 \cup {NULL},
         NEW r2, NEW nd2, StoredIn(r, nd, s, p, r2, nd2),
         Enclosed(V2, nd), WasStored(V2, lf, win), Recent(V2, T2, pd2, c.wrs1, hi),
         Leading(V, V2, s, p, r, nd, lf, c, win)
  PROVE  Sees(V2, T2, r2, nd2, lf, pd2, hi, c, win)
<1>1. p \in Ptr
  BY DEF Ptr
<1>2. /\ AtIn(r2, nd2, s) = p
      /\ \A t \in Slots(NodeIds) : t # s => AtIn(r2, nd2, t) = AtIn(r, nd, t)
  BY <1>1, StoreFacts
<1>3. Enclosed(V2, nd2)
  <2> SUFFICES ASSUME NEW n \in V2 \cap NodeIds, NEW j \in Nibs
               PROVE  nd2[n].child[j] \in V2 \cup {NULL}
    BY DEF Enclosed
  <2>1. n \in NodeIds \cap NodeIds
    OBVIOUS
  <2>2. /\ <<n, j>> \in Slots(NodeIds)
        /\ AtIn(r, nd, <<n, j>>) = nd[n].child[j]
        /\ AtIn(r2, nd2, <<n, j>>) = nd2[n].child[j]
    BY <2>1, NodeSlot
  <2> QED BY <1>2, <2>2 DEF Enclosed
<1>4. Place(V2, lf, c, win)
  BY DEF Place, Sees
<1>5. Guided(V2, nd2, lf, r2, c, win)
  <2> SUFFICES ASSUME Throughout(c.bound, win)
               PROVE  /\ \E G, k : Guide(G, k, V2, nd2, lf, r2, c)
                      /\ c.pc \in {"value", "verify"} => c.k # NULL
    BY DEF Guided
  <2>1. PICK G, k : Guide(G, k, V, nd, lf, r, c)
    BY DEF Guided, Sees
  <2>2. PICK G2 : Guide(G2, k, V2, nd, lf, r, c) /\ (AtIn(r, nd, s) \in G2 => p \in G2)
    BY <2>1 DEF Leading
  <2>3. Guide(G2, k, V2, nd2, lf, r2, c)
    BY <1>1, <2>2, GuideStore
  <2> QED BY <2>3 DEF Guided, Sees
<1> QED BY <1>3, <1>4, <1>5 DEF Sees

\* A lookup that starts sees the tree.
LEMMA SeesStart ==
  ASSUME NEW T, NEW r, NEW nd, NEW lf, StoreType(r, nd, lf), Tree(T, r, nd, lf),
         NEW pd, NEW hi, NEW c, NEW win, c.pc = "root", NEW m \in win,
         \A k \in T \cap LeafIds : lf[k].key \in Keys /\ m[lf[k].key] = lf[k].value,
         \A key \in Keys : m[key] # NULL => \E k \in T \cap LeafIds : lf[k].key = key
  PROVE  Sees(T, T, r, nd, lf, pd, hi, c, win)
<1>1. Enclosed(T, nd)
  <2> SUFFICES ASSUME NEW n \in T \cap NodeIds, NEW j \in Nibs
               PROVE  nd[n].child[j] \in T \cup {NULL}
    BY DEF Enclosed
  <2>1. <<n, j>> \in Slots(T) /\ AtIn(r, nd, <<n, j>>) = nd[n].child[j]
    BY NodeSlot
  <2> QED BY <2>1 DEF Tree
<1>2. WasStored(T, lf, win)
  BY DEF WasStored
<1>3. Guided(T, nd, lf, r, c, win)
  <2> SUFFICES ASSUME Throughout(c.bound, win)
               PROVE  \E G, k : Guide(G, k, T, nd, lf, r, c)
    BY DEF Guided
  <2>1. PICK k \in T \cap LeafIds : lf[k].key = c.bound
    BY DEF Throughout
  <2>2. PICK G : LeadsTo(G, T, nd, c.bound, k) /\ r \in G
    BY <2>1, PathToLeaf
  <2> QED BY <2>1, <2>2 DEF Guide
<1>4. Recent(T, T, pd, c.wrs1, hi) /\ Place(T, lf, c, win)
  BY DEF Recent, Place
<1> QED BY <1>1, <1>2, <1>3, <1>4 DEF Sees, Tree

\* Two numbers less than M apart differ modulo M.
LEMMA ModApart ==
  ASSUME NEW a \in Nat, NEW b \in Nat, NEW M \in Nat \ {0}, a < b, b < a + M
  PROVE  a % M # b % M
<1> SUFFICES ASSUME a % M = b % M PROVE FALSE
  OBVIOUS
<1>1. /\ a \div M \in Nat /\ a % M \in 0..M - 1 /\ a % M = a - (a \div M) * M
      /\ b \div M \in Nat /\ b % M \in 0..M - 1 /\ b % M = b - (b \div M) * M
  BY Euclid
<1>2. PICK u \in Nat, v \in Nat, z \in Nat : u = a \div M /\ v = b \div M /\ z = a % M
  <2>1. a \div M \in Nat /\ b \div M \in Nat
    BY <1>1
  <2>2. a % M \in Nat
    BY <1>1
  <2>3. PICK u \in Nat, v \in Nat : u = a \div M /\ v = b \div M
    BY <2>1
  <2>4. PICK z \in Nat : z = a % M
    BY <2>2
  <2> QED BY <2>3, <2>4
<1>3. u * M \in Nat /\ v * M \in Nat
  BY <1>2
<1>4. z = a - u * M /\ z = b - v * M
  BY <1>1, <1>2
<1>5. a = z + u * M /\ b = z + v * M
  <2>1. PICK x \in Nat, y \in Nat : x = u * M /\ y = v * M
    BY <1>3
  <2> QED BY <1>2, <1>4, <2>1
<1>6. CASE u < v
  <2>1. PICK d \in Nat : v = (u + 1) + d
    <3>1. v - (u + 1) \in Nat /\ v = (u + 1) + (v - (u + 1))
      BY <1>6
    <3> QED BY <3>1
  <2>2. v * M = (u * M + M) + d * M /\ d * M \in Nat /\ u * M \in Nat
    BY <2>1
  <2>3. PICK x \in Nat, y \in Nat : x = u * M /\ y = d * M
    BY <2>2
  <2> QED BY <1>2, <1>5, <2>2, <2>3
<1>7. CASE v =< u
  <2>1. PICK d \in Nat : u = v + d
    <3>1. u - v \in Nat /\ u = v + (u - v)
      BY <1>7
    <3> QED BY <3>1
  <2>2. u * M = v * M + d * M /\ d * M \in Nat /\ v * M \in Nat
    BY <2>1
  <2>3. PICK x \in Nat, y \in Nat : x = v * M /\ y = d * M
    BY <2>2
  <2> QED BY <1>2, <1>5, <2>2, <2>3
<1> QED BY <1>6, <1>7

\* The place of a removal among the deferred frees.
LEMMA DelOf == \A i \in Nat : i # 0 => i - 1 \in Nat /\ (i - 1) % DELETED_LIFE \in Dels
<1> SUFFICES ASSUME NEW i \in Nat, i # 0 PROVE i - 1 \in Nat /\ (i - 1) % DELETED_LIFE \in Dels
  OBVIOUS
<1>1. i - 1 \in Nat
  OBVIOUS
<1> QED BY <1>1, LifeAssumption, Euclid DEF Dels

\* What waits goes on waiting while its place is not touched.
LEMMA RecentSame ==
  ASSUME NEW V, NEW T, NEW pd, NEW lo \in Nat, NEW hi \in Nat, Recent(V, T, pd, lo, hi),
         NEW pd2, NEW hi2 \in Nat, hi =< hi2,
         \A i \in Dels : \A x \in V \ T : x \in {pd[i].node, pd[i].leaf} => x \in {pd2[i].node, pd2[i].leaf}
  PROVE  Recent(V, T, pd2, lo, hi2)
<1> SUFFICES ASSUME NEW x \in V \ T PROVE Waits(x, pd2, lo, hi2)
  BY DEF Recent
<1>1. PICK i \in lo..hi : i # 0 /\ x \in {pd[(i - 1) % DELETED_LIFE].node, pd[(i - 1) % DELETED_LIFE].leaf}
  BY DEF Recent, Waits
<1>2. i \in Nat /\ i \in lo..hi2 /\ (i - 1) % DELETED_LIFE \in Dels
  BY <1>1, DelOf
<1> QED BY <1>1, <1>2 DEF Waits

\* x waits in another place than d.
WaitsApart(x, d, pd, lo, hi) ==
  \E i \in Dels : /\ i # d /\ x \in {pd[i].node, pd[i].leaf}
                  /\ \E j \in lo..hi : j # 0 /\ i = (j - 1) % DELETED_LIFE

\* The place of removal n was used last for a removal that the lookup is not
\* concerned with.
LEMMA RecentApart ==
  ASSUME NEW V, NEW T, NEW pd, NEW lo \in Nat, NEW n \in Nat, n # 0, lo + DELETED_LIFE > n,
         Recent(V, T, pd, lo, n - 1), NEW x \in V \ T, NEW d, d = (n - 1) % DELETED_LIFE
  PROVE  WaitsApart(x, d, pd, lo, n)
<1>1. PICK j \in lo..n - 1 : j # 0 /\ x \in {pd[(j - 1) % DELETED_LIFE].node, pd[(j - 1) % DELETED_LIFE].leaf}
  BY DEF Recent, Waits
<1>2. j \in Nat /\ j \in lo..n /\ j - 1 \in Nat /\ n - 1 \in Nat /\ (j - 1) % DELETED_LIFE \in Dels
  BY <1>1, DelOf
<1>3. j - 1 < n - 1 /\ n - 1 < (j - 1) + DELETED_LIFE
  BY <1>1, <1>2, LifeAssumption
<1>4. (j - 1) % DELETED_LIFE # (n - 1) % DELETED_LIFE
  BY <1>2, <1>3, LifeAssumption, ModApart
<1> QED BY <1>1, <1>2, <1>4 DEF WaitsApart

-----------------------------------------------------------------------------
(* The steps of a lookup *)

LEMMA LookupRoot ==
  ASSUME NEW V, NEW T, NEW r, NEW nd, NEW lf, NEW pd, NEW hi, NEW c, NEW win,
         Sees(V, T, r, nd, lf, pd, hi, c, win), r \in T \cup {NULL},
         NEW c2, c2.pc = "dive", c2.n = r, c2.bound = c.bound, c2.wrs1 = c.wrs1
  PROVE  Sees(V, T, r, nd, lf, pd, hi, c2, win)
<1>1. Place(V, lf, c2, win)
  BY DEF Place, Sees
<1>2. Guided(V, nd, lf, r, c2, win)
  BY DEF Guided, Guide, Sees
<1> QED BY <1>1, <1>2 DEF Sees

LEMMA LookupDive ==
  ASSUME NEW V, NEW T, NEW r, NEW nd, NEW lf, NEW pd, NEW hi, NEW c, NEW win,
         StoreType(r, nd, lf), c.bound \in 0..MaxKey,
         Sees(V, T, r, nd, lf, pd, hi, c, win), c.pc = "dive", c.n # NULL, ~is_leaf(c.n),
         NEW c2, c2.pc = "dive", c2.n = nd[c.n].child[slice_index(c.bound, nd[c.n].shift)],
         c2.bound = c.bound, c2.wrs1 = c.wrs1
  PROVE  Sees(V, T, r, nd, lf, pd, hi, c2, win)
<1>1. c.n \in V \cap NodeIds
  BY Kinds DEF Sees, Place
<1>2. nd[c.n].shift \in Shifts
  BY <1>1 DEF StoreType, NodeType
<1>3. slice_index(c.bound, nd[c.n].shift) \in Nibs
  BY <1>2, SliceType
<1>4. Place(V, lf, c2, win)
  BY <1>1, <1>3 DEF Place, Sees, Enclosed
<1>5. Guided(V, nd, lf, r, c2, win)
  BY <1>1 DEF Guided, Guide, Sees, LeadsTo
<1> QED BY <1>4, <1>5 DEF Sees

LEMMA LookupCompare ==
  ASSUME NEW V, NEW T, NEW r, NEW nd, NEW lf, NEW pd, NEW hi, NEW c, NEW win,
         Sees(V, T, r, nd, lf, pd, hi, c, win), c.pc = "dive", c.n = NULL \/ is_leaf(c.n),
         NEW c2, c2.pc = "value",
         c2.k = IF c.n # NULL /\ lf[c.n].key = c.bound THEN c.n ELSE NULL,
         c2.bound = c.bound, c2.wrs1 = c.wrs1
  PROVE  Sees(V, T, r, nd, lf, pd, hi, c2, win)
<1>1. c.n \in (V \cap LeafIds) \cup {NULL}
  BY Kinds DEF Sees, Place
<1>2. Place(V, lf, c2, win)
  BY <1>1 DEF Place
<1>3. ASSUME NEW G, NEW k, Guide(G, k, V, nd, lf, r, c)
      PROVE  Guide(G, k, V, nd, lf, r, c2) /\ c2.k # NULL
  <2>1. G \subseteq NodeIds \cup LeafIds /\ c.n \in G /\ G \cap LeafIds = {k} /\ lf[k].key = c.bound
    BY <1>3 DEF Guide, LeadsTo, Sees
  <2>2. c.n = k /\ c.n # NULL
    BY <1>1, <2>1, Kinds
  <2> QED BY <1>3, <2>1, <2>2 DEF Guide
<1>4. Guided(V, nd, lf, r, c2, win)
  <2>1. Guided(V, nd, lf, r, c, win)
    BY DEF Sees
  <2> QED BY <1>3, <2>1 DEF Guided
<1> QED BY <1>2, <1>4 DEF Sees

LEMMA LookupValue ==
  ASSUME NEW V, NEW T, NEW r, NEW nd, NEW lf, NEW pd, NEW hi, NEW c, NEW win,
         Sees(V, T, r, nd, lf, pd, hi, c, win), c.pc = "value",
         NEW c2, c2.pc = "verify", c2.k = c.k,
         c2.value = IF c.k = NULL THEN NULL ELSE lf[c.k].value,
         c2.bound = c.bound, c2.wrs1 = c.wrs1
  PROVE  Sees(V, T, r, nd, lf, pd, hi, c2, win)
<1>1. Place(V, lf, c2, win)
  BY DEF Place, Sees, WasStored
<1>2. ASSUME NEW G, NEW k, Guide(G, k, V, nd, lf, r, c) PROVE Guide(G, k, V, nd, lf, r, c2)
  BY <1>2 DEF Guide
<1>3. Guided(V, nd, lf, r, c2, win)
  <2>1. Guided(V, nd, lf, r, c, win)
    BY DEF Sees
  <2> QED BY <1>2, <2>1 DEF Guided
<1> QED BY <1>1, <1>3 DEF Sees

-----------------------------------------------------------------------------
(* The lookups in progress *)

\* The removals that have made their place free.
Done == IF w.pc = "recycle" THEN removes - 1 ELSE removes

QueryOK(c, win) ==
  /\ {"pc", "n", "k", "value", "wrs1", "dir", "bound"} \subseteq DOMAIN c
  /\ c.wrs1 \in Nat /\ c.wrs1 =< removes /\ c.bound \in 0..MaxKey /\ map \in win
  /\ c.dir = "eq" => c.pc \in {"root", "dive", "value", "verify"}
QueriesOK ==
  /\ DOMAIN q = Readers /\ DOMAIN window = Readers
  /\ \A r \in Readers : q[r] # NoQuery => QueryOK(q[r], window[r])

\* A lookup that is not too old sees what it should.
Lookup(c) == c # NoQuery /\ c.dir = "eq" /\ c.wrs1 + DELETED_LIFE > removes
LookupsOK(T) ==
  \A r \in Readers : Lookup(q[r])
    => \E V : Sees(V, T, root, node, leaf, pend, Done, q[r], window[r])

LookupInv == \E T : KeptAs(T) /\ QueriesOK /\ LookupsOK(T)

\* The facts about the writer that the lookups rest on.
LEMMA KeptFacts ==
  ASSUME NEW T, KeptAs(T)
  PROVE  /\ StoreType(root, node, leaf) /\ pend \in [Dels -> PendType]
         /\ removes \in Nat /\ w \in CallType /\ Tree(T, root, node, leaf)
         /\ T \subseteq NodeIds \cup LeafIds /\ root \in T \cup {NULL}
         /\ PendOnce(pend) /\ Stored(T) /\ Held(T)
<1>1. PICK PN, PL : WriterInv(T, PN, PL)
  BY DEF KeptAs
<1>2. /\ StoreType(root, node, leaf) /\ pend \in [Dels -> PendType]
      /\ removes \in Nat /\ w \in CallType /\ Tree(T, root, node, leaf)
      /\ T \subseteq NodeIds \cup LeafIds
      /\ PendOnce(pend) /\ Stored(T) /\ Held(T)
  BY <1>1, Taken
<1>3. root \in T \cup {NULL}
  <2>1. RootSlot \in Slots(T) /\ AtIn(root, node, RootSlot) = root
    BY DEF Slots, AtIn
  <2> QED BY <1>2, <2>1 DEF Tree
<1> QED BY <1>2, <1>3

LEMMA InitLookups == Init => LookupInv
<1> SUFFICES ASSUME Init PROVE LookupInv
  OBVIOUS
<1>1. PICK T : KeptAs(T)
  BY InitInv DEF Inv
<1>2. QueriesOK
  BY DEF Init, QueriesOK
<1>3. LookupsOK(T)
  BY DEF Init, LookupsOK, Lookup
<1> QED BY <1>1, <1>2, <1>3 DEF LookupInv

\* What a reader's step means for the other queries, and for its own.
LEMMA ReaderStep ==
  ASSUME NEW T, KeptAs(T), QueriesOK, LookupsOK(T), NEW r \in Readers, NEW c2, NEW win2,
         Set(r, c2),
         window' = [window EXCEPT ![r] = win2] \/ (window' = window /\ win2 = window[r]),
         c2 # NoQuery => QueryOK(c2, win2),
         Lookup(c2) => \E V : Sees(V, T, root, node, leaf, pend, Done, c2, win2)
  PROVE  LookupInv'
<1>1. /\ q' = [q EXCEPT ![r] = c2]
      /\ UNCHANGED <<root, node, leaf, pool, pend, removes, w, map, writes>>
  BY DEF Set
<1>2. KeptAs(T)'
  BY <1>1, ReaderKeeps
<1>3. DOMAIN q = Readers /\ DOMAIN window = Readers
  BY DEF QueriesOK
<1>4. /\ q'[r] = c2 /\ window'[r] = win2
      /\ \A s \in Readers \ {r} : q'[s] = q[s] /\ window'[s] = window[s]
      /\ DOMAIN q' = Readers /\ DOMAIN window' = Readers
  BY <1>1, <1>3
<1>5. QueriesOK'
  BY <1>1, <1>4 DEF QueriesOK, QueryOK
<1>6. Done' = Done
  BY <1>1 DEF Done
<1>7. LookupsOK(T)'
  <2> SUFFICES ASSUME NEW s \in Readers, Lookup(q[s])'
               PROVE  \E V : Sees(V, T, root', node', leaf', pend', Done', q'[s], window'[s])
    BY DEF LookupsOK
  <2>1. CASE s = r
    BY <1>1, <1>4, <1>6, <2>1 DEF Lookup
  <2>2. CASE s # r
    <3>1. Lookup(q[s])
      BY <1>1, <1>4, <2>2 DEF Lookup
    <3>2. PICK V : Sees(V, T, root, node, leaf, pend, Done, q[s], window[s])
      BY <3>1 DEF LookupsOK
    <3> QED BY <1>1, <1>4, <1>6, <2>2, <3>2
  <2> QED BY <2>1, <2>2
<1> QED BY <1>2, <1>5, <1>7 DEF LookupInv

\* A lookup that starts, or starts over.
LEMMA StartSees ==
  ASSUME NEW T, KeptAs(T), NEW c, c.pc = "root", NEW win, map \in win
  PROVE  Sees(T, T, root, node, leaf, pend, Done, c, win)
<1>1. StoreType(root, node, leaf) /\ Tree(T, root, node, leaf) /\ Stored(T)
  BY KeptFacts
<1>2. \A k \in T \cap LeafIds : leaf[k].key \in Keys /\ map[leaf[k].key] = leaf[k].value
  BY <1>1 DEF Stored
<1>3. \A key \in Keys : map[key] # NULL => \E k \in T \cap LeafIds : leaf[k].key = key
  BY <1>1 DEF Stored
<1> QED BY <1>1, <1>2, <1>3, SeesStart

LEMMA QueryKeeps ==
  ASSUME NEW T, KeptAs(T), QueriesOK, LookupsOK(T), NEW r \in Readers, NEW ask \in Queries,
         Query(r, ask[1], ask[2])
  PROVE  LookupInv'
<1>1. PICK dir, key : dir = ask[1] /\ key = ask[2]
  OBVIOUS
<1>2. dir \in Dirs /\ key \in 0..MaxKey /\ MaxKey \in Nat
  BY <1>1, QueryAssumption, MaxKeyFact
<1>3. PICK d, b : /\ d = CASE dir = "lt" -> "le" [] dir = "gt" -> "ge" [] OTHER -> dir
                  /\ b = CASE dir = "lt" -> key - 1 [] dir = "gt" -> key + 1 [] OTHER -> key
  OBVIOUS
<1>4. PICK c : c = [pc |-> "root", n |-> NULL, nib |-> 0, frames |-> <<>>, k |-> NULL,
                    key |-> NULL, value |-> NULL, wrs1 |-> removes, dir |-> d, bound |-> b]
  OBVIOUS
<1>5. Set(r, c) /\ window' = [window EXCEPT ![r] = {map}] /\ (dir = "lt" => key > 0) /\ (dir = "gt" => key < MaxKey)
  BY <1>1, <1>3, <1>4 DEF Query
<1>6. b \in 0..MaxKey
  BY <1>2, <1>3, <1>5 DEF Dirs
<1>7. removes \in Nat
  BY KeptFacts
<1>8. c.pc = "root" /\ c.wrs1 = removes /\ c.bound = b
  BY <1>4
<1>9. {"pc", "n", "k", "value", "wrs1", "dir", "bound"} \subseteq DOMAIN c
  BY <1>4
<1>10. QueryOK(c, {map})
  BY <1>6, <1>7, <1>8, <1>9 DEF QueryOK
<1>11. Sees(T, T, root, node, leaf, pend, Done, c, {map})
  BY <1>8, StartSees
<1> QED BY <1>5, <1>10, <1>11, ReaderStep

\* Every step of a reader.
LEMMA ReaderLookups ==
  ASSUME NEW T, KeptAs(T), QueriesOK, LookupsOK(T), NEW r \in Readers, Reader(r)
  PROVE  LookupInv'
<1>1. PICK c, win : c = q[r] /\ win = window[r]
  OBVIOUS
<1>2. /\ StoreType(root, node, leaf) /\ removes \in Nat /\ root \in T \cup {NULL}
  BY KeptFacts
<1>3. c.pc # "none"
  BY <1>1 DEF Reader, LoadRoot, Dive, Compare, Find, Scan, FindOutermost, Descend, ReadKey, ReadValue,
     Restart, Return
<1>4. c # NoQuery
  BY <1>3 DEF NoQuery
<1>5. QueryOK(c, win)
  BY <1>1, <1>4 DEF QueriesOK
<1>6. /\ {"pc", "n", "k", "value", "wrs1", "dir", "bound"} \subseteq DOMAIN c
      /\ c.wrs1 \in Nat /\ c.wrs1 =< removes /\ c.bound \in 0..MaxKey /\ map \in win
      /\ c.dir = "eq" => c.pc \in {"root", "dive", "value", "verify"}
  BY <1>5 DEF QueryOK
<1>7. c.dir = "eq" /\ c.wrs1 + DELETED_LIFE > removes
        => \E V : Sees(V, T, root, node, leaf, pend, Done, c, win)
  BY <1>1, <1>4 DEF LookupsOK, Lookup
<1>8. ASSUME NEW c2, Goes(r, c2), QueryOK(c2, win),
             Lookup(c2) => \E V : Sees(V, T, root, node, leaf, pend, Done, c2, win)
      PROVE  LookupInv'
  BY <1>1, <1>8, ReaderStep DEF Goes
<1>9. CASE LoadRoot(r)
  <2>1. PICK c2 : c2 = [c EXCEPT !.n = root, !.pc = IF c.dir = "eq" THEN "dive" ELSE "find"]
    OBVIOUS
  <2>2. Goes(r, c2) /\ c.pc = "root"
    BY <1>1, <1>9, <2>1 DEF LoadRoot
  <2>3. /\ DOMAIN c2 = DOMAIN c /\ c2.n = root /\ c2.wrs1 = c.wrs1 /\ c2.bound = c.bound /\ c2.dir = c.dir
        /\ c.dir = "eq" => c2.pc = "dive"
    BY <1>6, <2>1
  <2>4. QueryOK(c2, win)
    BY <1>6, <2>3 DEF QueryOK
  <2>5. Lookup(c2) => \E V : Sees(V, T, root, node, leaf, pend, Done, c2, win)
    BY <1>2, <1>7, <2>3, LookupRoot DEF Lookup
  <2> QED BY <1>8, <2>2, <2>4, <2>5
<1>10. CASE Dive(r)
  <2>1. PICK c2 : c2 = [c EXCEPT !.n = node[c.n].child[slice_index(c.bound, node[c.n].shift)]]
    OBVIOUS
  <2>2. Goes(r, c2) /\ c.pc = "dive" /\ c.n # NULL /\ ~is_leaf(c.n)
    BY <1>1, <1>10, <2>1 DEF Dive
  <2>3. /\ DOMAIN c2 = DOMAIN c /\ c2.n = node[c.n].child[slice_index(c.bound, node[c.n].shift)]
        /\ c2.wrs1 = c.wrs1 /\ c2.bound = c.bound /\ c2.dir = c.dir /\ c2.pc = "dive"
    BY <1>6, <2>1, <2>2
  <2>4. QueryOK(c2, win)
    BY <1>6, <2>3 DEF QueryOK
  <2>5. Lookup(c2) => \E V : Sees(V, T, root, node, leaf, pend, Done, c2, win)
    BY <1>2, <1>6, <1>7, <2>2, <2>3, LookupDive DEF Lookup
  <2> QED BY <1>8, <2>2, <2>4, <2>5
<1>11. CASE Compare(r)
  <2>1. PICK c2 : c2 = [c EXCEPT !.k = IF c.n # NULL /\ leaf[c.n].key = c.bound THEN c.n ELSE NULL,
                                 !.key = c.bound, !.pc = "value"]
    OBVIOUS
  <2>2. Goes(r, c2) /\ c.pc = "dive" /\ (c.n = NULL \/ is_leaf(c.n))
    BY <1>1, <1>11, <2>1 DEF Compare
  <2>3. /\ DOMAIN c2 = DOMAIN c /\ c2.k = IF c.n # NULL /\ leaf[c.n].key = c.bound THEN c.n ELSE NULL
        /\ c2.wrs1 = c.wrs1 /\ c2.bound = c.bound /\ c2.dir = c.dir /\ c2.pc = "value"
    BY <1>6, <2>1
  <2>4. QueryOK(c2, win)
    BY <1>6, <2>3 DEF QueryOK
  <2>5. Lookup(c2) => \E V : Sees(V, T, root, node, leaf, pend, Done, c2, win)
    BY <1>7, <2>2, <2>3, LookupCompare DEF Lookup
  <2> QED BY <1>8, <2>2, <2>4, <2>5
<1>12. CASE ReadValue(r)
  <2>1. PICK c2 : c2 = [c EXCEPT !.value = IF c.k = NULL THEN NULL ELSE leaf[c.k].value,
                                 !.pc = "verify"]
    OBVIOUS
  <2>2. Goes(r, c2) /\ c.pc = "value"
    BY <1>1, <1>12, <2>1 DEF ReadValue
  <2>3. /\ DOMAIN c2 = DOMAIN c /\ c2.k = c.k /\ c2.value = IF c.k = NULL THEN NULL ELSE leaf[c.k].value
        /\ c2.wrs1 = c.wrs1 /\ c2.bound = c.bound /\ c2.dir = c.dir /\ c2.pc = "verify"
    BY <1>6, <2>1
  <2>4. QueryOK(c2, win)
    BY <1>6, <2>3 DEF QueryOK
  <2>5. Lookup(c2) => \E V : Sees(V, T, root, node, leaf, pend, Done, c2, win)
    BY <1>7, <2>2, <2>3, LookupValue DEF Lookup
  <2> QED BY <1>8, <2>2, <2>4, <2>5
<1>13. CASE Restart(r)
  <2>1. PICK c2 : c2 = [c EXCEPT !.pc = "root", !.wrs1 = removes, !.frames = <<>>]
    OBVIOUS
  <2>2. Goes(r, c2)
    BY <1>1, <1>13, <2>1 DEF Restart
  <2>3. /\ DOMAIN c2 = DOMAIN c /\ c2.wrs1 = removes /\ c2.bound = c.bound /\ c2.dir = c.dir /\ c2.pc = "root"
    BY <1>6, <2>1
  <2>4. QueryOK(c2, win)
    BY <1>2, <1>6, <2>3 DEF QueryOK
  <2>5. \E V : Sees(V, T, root, node, leaf, pend, Done, c2, win)
    BY <1>6, <2>3, StartSees
  <2> QED BY <1>8, <2>2, <2>4, <2>5
<1>14. CASE Return(r)
  <2>1. Set(r, NoQuery) /\ window' = [window EXCEPT ![r] = {}]
    BY <1>14 DEF Return
  <2>2. ~Lookup(NoQuery)
    BY DEF Lookup
  <2> QED BY <2>1, <2>2, ReaderStep
<1>15. ASSUME Find(r) \/ Scan(r) \/ FindOutermost(r) \/ Descend(r) \/ ReadKey(r) PROVE LookupInv'
  <2>1. c.dir # "eq"
    BY <1>1, <1>6, <1>15 DEF Find, Scan, FindOutermost, Descend, ReadKey
  <2>2. ASSUME NEW c2, DOMAIN c2 = DOMAIN c, c2.wrs1 = c.wrs1, c2.bound = c.bound, c2.dir = c.dir,
               Goes(r, c2)
        PROVE  LookupInv'
    <3>1. QueryOK(c2, win) /\ ~Lookup(c2)
      BY <1>6, <2>1, <2>2 DEF QueryOK, Lookup
    <3> QED BY <1>8, <2>2, <3>1
  <2>3. \A x : /\ DOMAIN Found(c, x) = DOMAIN c /\ Found(c, x).wrs1 = c.wrs1
               /\ Found(c, x).bound = c.bound /\ Found(c, x).dir = c.dir
    BY <1>6 DEF Found
  <2>4. /\ DOMAIN Nothing(c) = DOMAIN c /\ Nothing(c).wrs1 = c.wrs1
        /\ Nothing(c).bound = c.bound /\ Nothing(c).dir = c.dir
    BY <1>6 DEF Nothing
  <2>5. ASSUME NEW d, {"wrs1", "dir", "bound"} \subseteq DOMAIN d, NEW x
        PROVE  /\ DOMAIN Outermost(d, x) = DOMAIN d /\ Outermost(d, x).wrs1 = d.wrs1
               /\ Outermost(d, x).bound = d.bound /\ Outermost(d, x).dir = d.dir
    BY <2>5 DEF Outermost
  <2>6. CASE Find(r)
    <3>1. PICK n, nib : n = node[c.n] /\ nib = slice_index(c.bound, n.shift)
      OBVIOUS
    <3>2. PICK e : e = [c EXCEPT !.n = n.child[nib], !.frames = Append(@, [n |-> c.n, nib |-> nib])]
      OBVIOUS
    <3>3. DOMAIN e = DOMAIN c /\ e.wrs1 = c.wrs1 /\ e.bound = c.bound /\ e.dir = c.dir
      BY <1>6, <3>2
    <3>4. PICK c2 : c2 = IF c.n = NULL THEN Nothing(c)
                 ELSE IF is_leaf(c.n)
                 THEN IF Within(c.dir, leaf[c.n].key, c.bound) THEN Found(c, c.n) ELSE Nothing(c)
                 ELSE IF Above(c.bound, n.shift) # n.path
                 THEN IF Within(c.dir, n.path, c.bound) THEN Outermost(c, c.n) ELSE Nothing(c)
                 ELSE e
      OBVIOUS
    <3>5. Goes(r, c2)
      BY <1>1, <2>6, <3>1, <3>2, <3>4 DEF Find
    <3>6. c2 = Nothing(c) \/ c2 = Found(c, c.n) \/ c2 = Outermost(c, c.n) \/ c2 = e
      BY <3>4
    <3> QED BY <1>6, <2>2, <2>3, <2>4, <2>5, <3>3, <3>5, <3>6
  <2>7. CASE Scan(r)
    <3>1. PICK top, rest, nib : /\ top = c.frames[Len(c.frames)]
                                /\ rest = SubSeq(c.frames, 1, Len(c.frames) - 1)
                                /\ nib = Further(c.dir, top.nib)
      OBVIOUS
    <3>2. PICK m : m = node[top.n].child[nib]
      OBVIOUS
    <3>3. PICK e, f : /\ e = [c EXCEPT !.frames = rest]
                      /\ f = [c EXCEPT !.frames = Append(rest, [top EXCEPT !.nib = nib])]
      OBVIOUS
    <3>4. /\ DOMAIN e = DOMAIN c /\ e.wrs1 = c.wrs1 /\ e.bound = c.bound /\ e.dir = c.dir
          /\ DOMAIN f = DOMAIN c /\ f.wrs1 = c.wrs1 /\ f.bound = c.bound /\ f.dir = c.dir
      BY <1>6, <3>3
    <3>5. PICK c2 : c2 = IF c.frames = <<>> THEN Found(c, NULL)
                 ELSE IF top.nib = Past(c.dir) THEN e
                 ELSE IF m = NULL THEN f
                 ELSE IF is_leaf(m) THEN Found(c, m)
                 ELSE Outermost(e, m)
      OBVIOUS
    <3>6. Goes(r, c2)
      BY <1>1, <2>7, <3>1, <3>2, <3>3, <3>5 DEF Scan
    <3>7. c2 = Found(c, NULL) \/ c2 = e \/ c2 = f \/ c2 = Found(c, m) \/ c2 = Outermost(e, m)
      BY <3>5
    <3>8. /\ DOMAIN Outermost(e, m) = DOMAIN c /\ Outermost(e, m).wrs1 = c.wrs1
          /\ Outermost(e, m).bound = c.bound /\ Outermost(e, m).dir = c.dir
      BY <1>6, <2>5, <3>4
    <3> QED BY <2>2, <2>3, <3>4, <3>6, <3>7, <3>8
  <2>8. CASE FindOutermost(r)
    <3>1. PICK m, d : m = node[c.n].child[c.nib] /\ d = [c EXCEPT !.pc = "descend"]
      OBVIOUS
    <3>2. PICK e : e = [c EXCEPT !.nib = Further(c.dir, @)]
      OBVIOUS
    <3>3. /\ DOMAIN e = DOMAIN c /\ e.wrs1 = c.wrs1 /\ e.bound = c.bound /\ e.dir = c.dir
          /\ DOMAIN d = DOMAIN c /\ d.wrs1 = c.wrs1 /\ d.bound = c.bound /\ d.dir = c.dir
      BY <1>6, <3>1, <3>2
    <3>4. PICK c2 : c2 = IF m # NULL THEN d ELSE IF c.nib = Past(c.dir) THEN Nothing(c) ELSE e
      OBVIOUS
    <3>5. Goes(r, c2)
      BY <1>1, <2>8, <3>1, <3>2, <3>4 DEF FindOutermost
    <3>6. c2 = Nothing(c) \/ c2 = d \/ c2 = e
      BY <3>4
    <3> QED BY <2>2, <2>4, <3>3, <3>5, <3>6
  <2>9. CASE Descend(r)
    <3>1. PICK m, d : m = node[c.n].child[c.nib] /\ d = [c EXCEPT !.pc = "fault"]
      OBVIOUS
    <3>2. DOMAIN d = DOMAIN c /\ d.wrs1 = c.wrs1 /\ d.bound = c.bound /\ d.dir = c.dir
      BY <1>6, <3>1
    <3>3. PICK c2 : c2 = IF m = NULL THEN d ELSE IF is_leaf(m) THEN Found(c, m) ELSE Outermost(c, m)
      OBVIOUS
    <3>4. Goes(r, c2)
      BY <1>1, <2>9, <3>1, <3>3 DEF Descend
    <3>5. c2 = d \/ c2 = Found(c, m) \/ c2 = Outermost(c, m)
      BY <3>3
    <3> QED BY <1>6, <2>2, <2>3, <2>5, <3>2, <3>4, <3>5
  <2>10. CASE ReadKey(r)
    <3>1. PICK c2 : c2 = [c EXCEPT !.key = IF c.k = NULL THEN NULL ELSE leaf[c.k].key, !.pc = "value"]
      OBVIOUS
    <3>2. Goes(r, c2)
      BY <1>1, <2>10, <3>1 DEF ReadKey
    <3>3. DOMAIN c2 = DOMAIN c /\ c2.wrs1 = c.wrs1 /\ c2.bound = c.bound /\ c2.dir = c.dir
      BY <1>6, <3>1
    <3> QED BY <2>2, <3>2, <3>3
  <2> QED BY <1>15, <2>6, <2>7, <2>8, <2>9, <2>10
<1> QED BY <1>9, <1>10, <1>11, <1>12, <1>13, <1>14, <1>15 DEF Reader

-----------------------------------------------------------------------------
(* What the writers do to a lookup *)

\* Whatever a lookup sees while T is the tree, it sees something when it is T2.
Carries(T, T2) ==
  \A c, V, win : /\ map' \in win /\ c.wrs1 \in Nat /\ c.wrs1 =< removes /\ c.bound \in 0..MaxKey
                 /\ c.wrs1 + DELETED_LIFE > removes'
                 /\ Sees(V, T, root, node, leaf, pend, Done, c, win)
    => \E V2 : Sees(V2, T2, root', node', leaf', pend', Done', c, win)

LEMMA WriterStep ==
  ASSUME NEW T, KeptAs(T), QueriesOK, LookupsOK(T), NEW T2, KeptAs(T2)', q' = q,
         SameMap \/ Becomes(map'), removes' \in {removes, removes + 1}, Carries(T, T2)
  PROVE  LookupInv'
<1>1. removes \in Nat /\ removes' \in Nat /\ removes =< removes'
  BY KeptFacts
<1>2. /\ DOMAIN window' = Readers
      /\ \A r \in Readers : q[r] # NoQuery => window[r] \subseteq window'[r] /\ map' \in window'[r]
  <2>1. CASE SameMap
    BY <2>1 DEF SameMap, QueriesOK, QueryOK
  <2>2. CASE Becomes(map')
    BY <2>2 DEF Becomes
  <2> QED BY <2>1, <2>2
<1>3. QueriesOK'
  <2>1. ASSUME NEW r \in Readers, q[r] # NoQuery PROVE QueryOK(q[r], window[r])'
    <3>1. QueryOK(q[r], window[r])
      BY <2>1 DEF QueriesOK
    <3> QED BY <1>1, <1>2, <2>1, <3>1 DEF QueryOK
  <2> QED BY <1>2, <2>1 DEF QueriesOK
<1>4. LookupsOK(T2)'
  <2> SUFFICES ASSUME NEW r \in Readers, Lookup(q[r])'
               PROVE  \E V : Sees(V, T2, root', node', leaf', pend', Done', q'[r], window'[r])
    BY DEF LookupsOK
  <2>1. PICK c, win : c = q[r] /\ win = window'[r]
    OBVIOUS
  <2>2. c # NoQuery /\ c.dir = "eq" /\ c.wrs1 + DELETED_LIFE > removes'
    BY <2>1 DEF Lookup
  <2>3. QueryOK(c, window[r])
    BY <2>1, <2>2 DEF QueriesOK
  <2>4. c.wrs1 \in Nat /\ c.wrs1 =< removes /\ c.bound \in 0..MaxKey
    BY <2>3 DEF QueryOK
  <2>5. Lookup(c)
    BY <1>1, <2>2, <2>4, LifeAssumption DEF Lookup
  <2>6. PICK V : Sees(V, T, root, node, leaf, pend, Done, c, window[r])
    BY <2>1, <2>5 DEF LookupsOK
  <2>7. Sees(V, T, root, node, leaf, pend, Done, c, win)
    BY <1>2, <2>1, <2>2, <2>6, SeesGrow
  <2> QED BY <1>2, <2>1, <2>2, <2>4, <2>7 DEF Carries
<1> QED BY <1>3, <1>4 DEF LookupInv

\* A lookup holds what is in the tree or waits.
LEMMA SeenPlaces ==
  ASSUME NEW V, NEW T, NEW r, NEW nd, NEW lf, NEW pd \in [Dels -> PendType], NEW hi \in Nat,
         NEW c, NEW win, c.wrs1 \in Nat, Sees(V, T, r, nd, lf, pd, hi, c, win)
  PROVE  V \subseteq T \cup PendingOf(pd)
<1> SUFFICES ASSUME NEW x \in V, x \notin T PROVE x \in PendingOf(pd)
  OBVIOUS
<1>1. x # NULL
  BY Kinds DEF Sees
<1>2. PICK i \in c.wrs1..hi : i # 0 /\ x \in {pd[(i - 1) % DELETED_LIFE].node, pd[(i - 1) % DELETED_LIFE].leaf}
  BY DEF Sees, Recent, Waits
<1>3. (i - 1) % DELETED_LIFE \in Dels
  BY <1>2, DelOf
<1> QED BY <1>1, <1>2, <1>3, PendingMember

LEMMA DoneFacts ==
  ASSUME NEW T, KeptAs(T)
  PROVE  Done \in Nat /\ Done =< removes
<1>1. removes \in Nat /\ (w.pc = "recycle" => removes # 0)
  BY KeptFacts DEF Held
<1> QED BY <1>1 DEF Done

\* The call's own elements are in no other place.
LEMMA HandApart ==
  ASSUME NEW T, KeptAs(T)
  PROVE  (T \cup PendingOf(pend)) \cap HandOf(w) = {} /\ T \cap PendingOf(pend) = {}
<1>1. PICK PN, PL : WriterInv(T, PN, PL)
  BY DEF KeptAs
<1> QED BY <1>1, Taken DEF Split

LEMMA HandApartNext ==
  ASSUME NEW T, KeptAs(T)'
  PROVE  (T \cup PendingOf(pend')) \cap HandOf(w') = {}
<1>1. PICK PN, PL : WriterInv(T, PN, PL)'
  BY DEF KeptAs
<1>2. Split(T, Pending', PN \cup PL, InHand', HandedOut')
  BY <1>1 DEF WriterInv
<1>3. Pending' = PendingOf(pend') /\ InHand' = HandOf(w')
  BY DEF Pending, PendingOf, InHand, HandOf
<1> QED BY <1>2, <1>3 DEF Split

\* A step that leaves alone what is in the tree and what waits.
LEMMA QuietCarries ==
  ASSUME NEW T, KeptAs(T), root' = root, pend' = pend, Done' \in Nat, Done =< Done',
         \A n \in (T \cup PendingOf(pend)) \cap NodeIds : node'[n] = node[n],
         \A k \in (T \cup PendingOf(pend)) \cap LeafIds : leaf'[k] = leaf[k]
  PROVE  Carries(T, T)
<1> SUFFICES ASSUME NEW c, NEW V, NEW win, c.wrs1 \in Nat,
                    Sees(V, T, root, node, leaf, pend, Done, c, win)
             PROVE  Sees(V, T, root', node', leaf', pend', Done', c, win)
  BY DEF Carries
<1>1. pend \in [Dels -> PendType] /\ Done \in Nat
  BY KeptFacts, DoneFacts
<1>2. V \subseteq T \cup PendingOf(pend)
  BY <1>1, SeenPlaces
<1>3. PICK nd2, lf2, hi2 : nd2 = node' /\ lf2 = leaf' /\ hi2 = Done'
  OBVIOUS
<1>4. \A n \in V \cap NodeIds : nd2[n] = node[n]
  BY <1>2, <1>3
<1>5. \A k \in V \cap LeafIds : lf2[k] = leaf[k]
  BY <1>2, <1>3
<1>6. Recent(V, T, pend, c.wrs1, Done)
  BY DEF Sees
<1>7. Recent(V, T, pend, c.wrs1, hi2)
  BY <1>1, <1>3, <1>6, RecentSame
<1>8. Sees(V, T, root, nd2, lf2, pend, hi2, c, win)
  BY <1>4, <1>5, <1>7, SeesSame
<1> QED BY <1>3, <1>8

\* critnib_insert takes a leaf: nobody looks at it.
LEMMA InsertLeafLookups ==
  ASSUME NEW T, KeptAs(T), QueriesOK, LookupsOK(T), NEW key \in Keys, InsertLeaf(key)
  PROVE  LookupInv'
<1>1. KeptAs(T)'
  BY InsertLeafInv DEF KeptAs
<1>2. PICK k : k = IF pool.leaf # NULL THEN pool.leaf ELSE pool.freshLeaf
  OBVIOUS
<1>3. /\ w = Free /\ w' = [pc |-> "place", k |-> k] /\ SameMap /\ q' = q /\ removes' = removes
      /\ root' = root /\ node' = node /\ pend' = pend
      /\ \E rec : leaf' = [leaf EXCEPT ![k] = rec]
  BY <1>2 DEF InsertLeaf
<1>4. HandOf(w') = {k} /\ w.pc # "recycle" /\ w'.pc # "recycle"
  BY <1>3, HandCases DEF Free
<1>5. k \notin T \cup PendingOf(pend)
  BY <1>1, <1>3, <1>4, HandApartNext
<1>6. leaf \in [LeafIds -> LeafType] /\ Done \in Nat
  BY KeptFacts, DoneFacts DEF StoreType
<1>7. \A l \in (T \cup PendingOf(pend)) \cap LeafIds : leaf'[l] = leaf[l]
  BY <1>3, <1>5, <1>6
<1>8. Done' = Done
  BY <1>3, <1>4 DEF Done
<1>9. Carries(T, T)
  BY <1>3, <1>6, <1>7, <1>8, QuietCarries
<1> QED BY <1>1, <1>3, <1>9, WriterStep

\* It fills a node: nobody looks at it.
LEMMA InsertNodeLookups ==
  ASSUME NEW T, KeptAs(T), QueriesOK, LookupsOK(T), InsertNode
  PROVE  LookupInv'
<1>1. KeptAs(T)'
  BY InsertNodeInv DEF KeptAs
<1>2. PICK m : m = IF pool.node # NULL THEN pool.node ELSE pool.freshNode
  OBVIOUS
<1>3. /\ w.pc = "place" /\ SameMap /\ q' = q /\ removes' = removes
      /\ root' = root /\ leaf' = leaf /\ pend' = pend
      /\ \E rec : node' = [node EXCEPT ![m] = rec]
      /\ \E s : w' = [pc |-> "link", k |-> w.k, m |-> m, slot |-> s]
  BY <1>2 DEF InsertNode
<1>4. m \in HandOf(w') /\ w'.pc = "link"
  BY <1>3, HandCases
<1>5. m \notin T \cup PendingOf(pend)
  BY <1>1, <1>3, <1>4, HandApartNext
<1>6. node \in [NodeIds -> NodeType] /\ Done \in Nat
  BY KeptFacts, DoneFacts DEF StoreType
<1>7. \A l \in (T \cup PendingOf(pend)) \cap NodeIds : node'[l] = node[l]
  BY <1>3, <1>5, <1>6
<1>8. Done' = Done
  BY <1>3, <1>4 DEF Done
<1>9. Carries(T, T)
  BY <1>3, <1>6, <1>7, <1>8, QuietCarries
<1> QED BY <1>1, <1>3, <1>9, WriterStep

LEMMA RemoveCountLookups ==
  ASSUME NEW T, KeptAs(T), QueriesOK, LookupsOK(T), NEW key \in Keys, RemoveCount(key)
  PROVE  LookupInv'
<1>1. KeptAs(T)'
  BY RemoveCountInv DEF KeptAs
<1>2. /\ w = Free /\ removes' = removes + 1 /\ SameMap /\ q' = q
      /\ root' = root /\ node' = node /\ leaf' = leaf /\ pend' = pend
      /\ w' = [pc |-> "recycle", key |-> key, del |-> removes % DELETED_LIFE]
  BY DEF RemoveCount
<1>3. w.pc # "recycle" /\ w'.pc = "recycle"
  BY <1>2 DEF Free
<1>4. removes \in Nat
  BY KeptFacts
<1>5. Done' = Done /\ Done \in Nat
  BY <1>2, <1>3, <1>4 DEF Done
<1>6. Carries(T, T)
  BY <1>2, <1>5, QuietCarries
<1> QED BY <1>1, <1>2, <1>6, WriterStep

\* The key is there: the call's own leaf goes to the pool, and the value of the
\* leaf in the tree may change.
LEMMA InsertExistsLookups ==
  ASSUME NEW T, KeptAs(T), QueriesOK, LookupsOK(T), NEW update \in BOOLEAN, InsertExists(update)
  PROVE  LookupInv'
<1>1. PICK PN, PL : WriterInv(T, PN, PL)
  BY DEF KeptAs
<1>2. KeptAs(T)'
  BY <1>1, InsertExistsInv
<1>3. PICK n \in T \cap LeafIds :
        /\ leaf[n].key = leaf[w.k].key /\ leaf[n].key \in Keys /\ n # w.k
        /\ \A l \in LeafIds : leaf'[l].key = leaf[l].key
        /\ \A l \in LeafIds \ {w.k, n} : leaf'[l] = leaf[l]
        /\ leaf'[n].value = IF update THEN leaf[w.k].value ELSE leaf[n].value
        /\ ~update => leaf'[n] = leaf[n]
  BY <1>1, InsertExistsInv
<1>4. /\ w.pc = "place" /\ w' = Free /\ q' = q /\ removes' = removes
      /\ root' = root /\ node' = node /\ pend' = pend
      /\ update => Becomes([map EXCEPT ![leaf[w.k].key] = leaf[w.k].value])
      /\ ~update => SameMap
  BY DEF InsertExists
<1>5. w'.pc # "recycle"
  BY <1>4 DEF Free
<1>6. Done \in Nat /\ pend \in [Dels -> PendType] /\ map \in [Keys -> Nat]
  BY <1>1, Taken, DoneFacts
<1>7. Done' = Done
  BY <1>4, <1>5 DEF Done
<1>8. w.k \notin T \cup PendingOf(pend)
  BY <1>4, HandApart, HandCases
<1>9. CASE ~update
  <2>1. \A l \in (T \cup PendingOf(pend)) \cap LeafIds : leaf'[l] = leaf[l]
    BY <1>3, <1>8, <1>9
  <2>2. Carries(T, T)
    BY <1>4, <1>6, <1>7, <2>1, QuietCarries
  <2> QED BY <1>2, <1>4, <1>9, <2>2, WriterStep
<1>10. CASE update
  <2>1. Becomes(map') /\ map' = [map EXCEPT ![leaf[w.k].key] = leaf[w.k].value]
    BY <1>4, <1>10 DEF Becomes
  <2>2. map'[leaf[n].key] = leaf'[n].value
    BY <1>3, <1>6, <1>10, <2>1
  <2>3. Carries(T, T)
    <3> SUFFICES ASSUME NEW c, NEW V, NEW win, c.wrs1 \in Nat, map' \in win,
                        Sees(V, T, root, node, leaf, pend, Done, c, win)
                 PROVE  Sees(V, T, root', node', leaf', pend', Done', c, win)
      BY DEF Carries
    <3>1. V \subseteq T \cup PendingOf(pend)
      BY <1>6, SeenPlaces
    <3>2. PICK lf2, m : lf2 = leaf' /\ m = map'
      OBVIOUS
    <3>3. \A l \in V \cap LeafIds : lf2[l].key = leaf[l].key /\ (l # n => lf2[l] = leaf[l])
      BY <1>3, <1>8, <3>1, <3>2
    <3>4. m \in win
      BY <3>2
    <3>5. n \in V \cap LeafIds => m[leaf[n].key] = lf2[n].value
      BY <2>2, <3>2
    <3>6. Updated(V, leaf, n, m, lf2)
      BY <3>3, <3>5 DEF Updated
    <3>7. Sees(V, T, root, node, lf2, pend, Done, c, win)
      BY <3>4, <3>6, SeesUpdate
    <3> QED BY <1>4, <1>7, <3>2, <3>7
  <2> QED BY <1>2, <1>4, <2>1, <2>3, WriterStep
<1> QED BY <1>9, <1>10

\* What is recycled was removed before the lookup started, unless the lookup
\* is too old.
LEMMA RemoveRecycleLookups ==
  ASSUME NEW T, KeptAs(T), QueriesOK, LookupsOK(T), RemoveRecycle
  PROVE  LookupInv'
<1>1. KeptAs(T)'
  BY RemoveRecycleInv DEF KeptAs
<1>2. PICK d, n, k : d = w.del /\ n = pend[d].node /\ k = pend[d].leaf
  OBVIOUS
<1>3. /\ w.pc = "recycle" /\ w' = [w EXCEPT !.pc = "unlink"] /\ SameMap /\ q' = q /\ removes' = removes
      /\ root' = root /\ Cleared(pend, d, pend')
      /\ node' = IF n = NULL THEN node ELSE [node EXCEPT ![n].child[0] = pool.node]
      /\ leaf' = IF k = NULL THEN leaf ELSE [leaf EXCEPT ![k].value = pool.leaf]
  BY <1>2 DEF RemoveRecycle, Cleared
<1>4. /\ StoreType(root, node, leaf) /\ pend \in [Dels -> PendType] /\ removes \in Nat /\ w \in CallType
      /\ PendOnce(pend) /\ Held(T)
  BY KeptFacts
<1>5. removes # 0 /\ d = (removes - 1) % DELETED_LIFE /\ d \in Dels /\ w'.pc = "unlink"
  BY <1>2, <1>3, <1>4, CallCases DEF Held
<1>6. Done = removes - 1 /\ Done' = removes
  BY <1>3, <1>5 DEF Done
<1>7. \A i \in Dels : i # d => pend'[i] = pend[i]
  BY <1>3, <1>4 DEF Cleared
<1>8. node \in [NodeIds -> NodeType] /\ leaf \in [LeafIds -> LeafType]
  BY <1>4 DEF StoreType
<1>9. T \cap PendingOf(pend) = {}
  BY HandApart
<1>10. Carries(T, T)
  <2> SUFFICES ASSUME NEW c, NEW V, NEW win, c.wrs1 \in Nat, c.wrs1 + DELETED_LIFE > removes,
                      Sees(V, T, root, node, leaf, pend, Done, c, win)
               PROVE  Sees(V, T, root', node', leaf', pend', Done', c, win)
    BY <1>3 DEF Carries
  <2>1. Recent(V, T, pend, c.wrs1, removes - 1) /\ V \subseteq NodeIds \cup LeafIds
    BY <1>6 DEF Sees
  <2>2. ASSUME NEW x \in V \ T PROVE WaitsApart(x, d, pend, c.wrs1, removes)
    BY <1>4, <1>5, <2>1, <2>2, RecentApart
  <2>3. ASSUME NEW x \in V PROVE x # n /\ x # k
    <3>1. x # NULL
      BY <2>1, Kinds
    <3>2. CASE x \in T
      BY <1>2, <1>4, <1>5, <1>9, <3>1, <3>2, PendingKinds
    <3>3. CASE x \notin T
      <4>1. PICK i \in Dels : i # d /\ x \in {pend[i].node, pend[i].leaf}
        BY <2>2, <2>3, <3>3 DEF WaitsApart
      <4>2. /\ pend[i].node \in NodeIds \cup {NULL} /\ pend[i].leaf \in LeafIds \cup {NULL}
            /\ pend[d].node \in NodeIds \cup {NULL} /\ pend[d].leaf \in LeafIds \cup {NULL}
        BY <1>4, <1>5, PendingKinds
      <4>3. /\ pend[i].node = pend[d].node /\ pend[i].node # NULL => i = d
            /\ pend[i].leaf = pend[d].leaf /\ pend[i].leaf # NULL => i = d
        BY <1>4, <1>5 DEF PendOnce
      <4> QED BY <1>2, <3>1, <4>1, <4>2, <4>3, Kinds
    <3> QED BY <3>2, <3>3
  <2>4. PICK nd2, lf2, pd2 : nd2 = node' /\ lf2 = leaf' /\ pd2 = pend'
    OBVIOUS
  <2>5. \A l \in V \cap NodeIds : nd2[l] = node[l]
    BY <1>3, <1>8, <2>3, <2>4
  <2>6. \A l \in V \cap LeafIds : lf2[l] = leaf[l]
    BY <1>3, <1>8, <2>3, <2>4
  <2>7. Recent(V, T, pd2, c.wrs1, removes)
    <3> SUFFICES ASSUME NEW x \in V \ T PROVE Waits(x, pd2, c.wrs1, removes)
      BY DEF Recent
    <3>1. PICK i \in Dels : /\ i # d /\ x \in {pend[i].node, pend[i].leaf}
                            /\ \E j \in c.wrs1..removes : j # 0 /\ i = (j - 1) % DELETED_LIFE
      BY <2>2 DEF WaitsApart
    <3>2. pd2[i] = pend[i]
      BY <1>7, <2>4, <3>1
    <3> QED BY <3>1, <3>2 DEF Waits
  <2>8. Sees(V, T, root, nd2, lf2, pd2, removes, c, win)
    BY <2>5, <2>6, <2>7, SeesSame
  <2> QED BY <1>3, <1>6, <2>4, <2>8
<1> QED BY <1>1, <1>3, <1>10, WriterStep

LEMMA GuideWider ==
  ASSUME NEW G, NEW k, NEW V, NEW nd, NEW lf, NEW r, NEW c, Guide(G, k, V, nd, lf, r, c),
         NEW V2, V \subseteq V2
  PROVE  Guide(G, k, V2, nd, lf, r, c)
BY DEF Guide, LeadsTo

\* A pointer store, on the state.
LEMMA StoreCarries ==
  ASSUME NEW T, KeptAs(T), NEW V, NEW c, NEW win, c.bound \in 0..MaxKey,
         Sees(V, T, root, node, leaf, pend, Done, c, win),
         NEW V2, NEW T2, V \subseteq V2, V2 \subseteq NodeIds \cup LeafIds, T2 \subseteq V2,
         NEW s \in Slots(T), NEW p \in V2 \cup {NULL},
         StoredIn(root, node, s, p, root', node'), leaf' = leaf, Done' = Done,
         Enclosed(V2, node), WasStored(V2, leaf, win), Recent(V2, T2, pend', c.wrs1, Done),
         Leading(V, V2, s, p, root, node, leaf, c, win)
  PROVE  Sees(V2, T2, root', node', leaf', pend', Done', c, win)
<1>1. PICK r2, nd2, pd2 : r2 = root' /\ nd2 = node' /\ pd2 = pend'
  OBVIOUS
<1>2. StoreType(root, node, leaf) /\ s \in Slots(NodeIds)
  BY KeptFacts, SlotsInNodes
<1>3. StoredIn(root, node, s, p, r2, nd2) /\ Recent(V2, T2, pd2, c.wrs1, Done)
  BY <1>1
<1>4. Sees(V2, T2, r2, nd2, leaf, pd2, Done, c, win)
  BY <1>2, <1>3, SeesStore
<1> QED BY <1>1, <1>4

\* A leaf in an empty slot.
LEMMA InsertHereLookups ==
  ASSUME NEW T, KeptAs(T), QueriesOK, LookupsOK(T), InsertHere
  PROVE  LookupInv'
<1>1. PICK PN, PL : WriterInv(T, PN, PL)
  BY DEF KeptAs
<1>2. PICK s \in Slots(T) :
        /\ AtIn(root, node, s) = NULL /\ StoredIn(root, node, s, w.k, root', node')
        /\ w.k \in LeafIds /\ leaf[w.k].key \in Keys /\ w'.pc = "free"
        /\ \E X : X = T \cup {w.k} /\ KeptAs(X)'
  BY <1>1, InsertHereInv
<1>3. PICK k, T2 : k = w.k /\ T2 = T \cup {k} /\ KeptAs(T2)'
  BY <1>2
<1>4. /\ w.pc = "place" /\ q' = q /\ removes' = removes /\ leaf' = leaf /\ pend' = pend
      /\ Becomes([map EXCEPT ![leaf[k].key] = leaf[k].value])
  BY <1>3 DEF InsertHere
<1>5. Becomes(map') /\ map' = [map EXCEPT ![leaf[k].key] = leaf[k].value]
  BY <1>4 DEF Becomes
<1>6. map'[leaf[k].key] = leaf[k].value
  <2>1. map \in [Keys -> Nat] /\ leaf[k].key \in Keys
    BY <1>1, <1>2, <1>3, Taken
  <2> QED BY <1>5, <2>1
<1>7. Done' = Done
  BY <1>2, <1>4 DEF Done
<1>8. Carries(T, T2)
  <2> SUFFICES ASSUME NEW c, NEW V, NEW win, map' \in win, c.bound \in 0..MaxKey,
                      Sees(V, T, root, node, leaf, pend, Done, c, win)
               PROVE  \E V2 : Sees(V2, T2, root', node', leaf', pend', Done', c, win)
    BY DEF Carries
  <2>1. /\ T \subseteq V /\ V \subseteq NodeIds \cup LeafIds
        /\ Enclosed(V, node) /\ Recent(V, T, pend, c.wrs1, Done) /\ WasStored(V, leaf, win)
    BY DEF Sees
  <2>2. PICK V2 : V2 = V \cup {k}
    OBVIOUS
  <2>3. /\ V \subseteq V2 /\ V2 \subseteq NodeIds \cup LeafIds /\ T2 \subseteq V2
        /\ k \in V2 \cup {NULL} /\ V2 \ T2 \subseteq V \ T
    BY <1>2, <1>3, <2>1, <2>2
  <2>4. Enclosed(V2, node)
    BY <1>2, <1>3, <2>1, <2>2, Kinds DEF Enclosed
  <2>5. WasStored(V2, leaf, win)
    BY <1>2, <1>3, <1>6, <2>1, <2>2 DEF WasStored
  <2>6. Recent(V2, T2, pend', c.wrs1, Done)
    BY <1>4, <2>1, <2>3 DEF Recent
  <2>7. Leading(V, V2, s, k, root, node, leaf, c, win)
    <3> SUFFICES ASSUME NEW G, NEW l, Guide(G, l, V, node, leaf, root, c)
                 PROVE  Guide(G, l, V2, node, leaf, root, c) /\ AtIn(root, node, s) \notin G
      BY DEF Leading
    <3>1. NULL \notin G
      BY <2>1, Kinds DEF Guide, LeadsTo
    <3> QED BY <1>2, <2>3, <3>1, GuideWider
  <2>8. StoredIn(root, node, s, k, root', node')
    BY <1>2, <1>3
  <2>9. Sees(V2, T2, root', node', leaf', pend', Done', c, win)
    BY <1>4, <1>7, <2>3, <2>4, <2>5, <2>6, <2>7, <2>8, StoreCarries
  <2> QED BY <2>9
<1> QED BY <1>3, <1>4, <1>5, <1>8, WriterStep

\* A new node above what was in the slot.
LEMMA InsertLinkLookups ==
  ASSUME NEW T, KeptAs(T), QueriesOK, LookupsOK(T), InsertLink
  PROVE  LookupInv'
<1>1. PICK PN, PL : WriterInv(T, PN, PL)
  BY DEF KeptAs
<1>2. /\ w.slot \in Slots(T) /\ w.k \in LeafIds /\ w.m \in NodeIds /\ w.k \notin T /\ w.m \notin T
      /\ StoredIn(root, node, w.slot, w.m, root', node')
      /\ leaf[w.k].key \in Keys /\ w'.pc = "free"
      /\ \E n \in T, ik \in Nibs, im \in Nibs :
           /\ AtIn(root, node, w.slot) = n /\ ik # im
           /\ node[w.m].child[ik] = w.k /\ node[w.m].child[im] = n
           /\ \A j \in Nibs \ {ik, im} : node[w.m].child[j] = NULL
           /\ Fits(node, leaf, w.m, im, n)
      /\ \E X : X = T \cup {w.m, w.k} /\ KeptAs(X)'
  BY <1>1, InsertLinkInv
<1>3. PICK s, k, m, T2 : s = w.slot /\ k = w.k /\ m = w.m /\ T2 = T \cup {m, k} /\ KeptAs(T2)'
  BY <1>2
<1>4. PICK n \in T, ik \in Nibs, im \in Nibs :
        /\ AtIn(root, node, s) = n /\ node[m].child[ik] = k /\ node[m].child[im] = n
        /\ \A j \in Nibs \ {ik, im} : node[m].child[j] = NULL
        /\ Fits(node, leaf, m, im, n)
  BY <1>2, <1>3
<1>5. /\ s \in Slots(T) /\ k \in LeafIds /\ m \in NodeIds /\ leaf[k].key \in Keys
      /\ StoredIn(root, node, s, m, root', node')
  BY <1>2, <1>3
<1>6. /\ w.pc = "link" /\ q' = q /\ removes' = removes /\ leaf' = leaf /\ pend' = pend
      /\ Becomes([map EXCEPT ![leaf[k].key] = leaf[k].value])
  BY <1>3 DEF InsertLink
<1>7. Becomes(map') /\ map' = [map EXCEPT ![leaf[k].key] = leaf[k].value]
  BY <1>6 DEF Becomes
<1>8. map'[leaf[k].key] = leaf[k].value
  <2>1. map \in [Keys -> Nat]
    BY <1>1, Taken
  <2> QED BY <1>5, <1>7, <2>1
<1>9. Done' = Done
  BY <1>2, <1>6 DEF Done
<1>10. Carries(T, T2)
  <2> SUFFICES ASSUME NEW c, NEW V, NEW win, map' \in win, c.bound \in 0..MaxKey,
                      Sees(V, T, root, node, leaf, pend, Done, c, win)
               PROVE  \E V2 : Sees(V2, T2, root', node', leaf', pend', Done', c, win)
    BY DEF Carries
  <2>1. /\ T \subseteq V /\ V \subseteq NodeIds \cup LeafIds
        /\ Enclosed(V, node) /\ Recent(V, T, pend, c.wrs1, Done) /\ WasStored(V, leaf, win)
    BY DEF Sees
  <2>2. PICK V2 : V2 = V \cup {m, k}
    OBVIOUS
  <2>3. /\ V \subseteq V2 /\ V2 \subseteq NodeIds \cup LeafIds /\ T2 \subseteq V2
        /\ m \in V2 /\ k \in V2 /\ V2 \ T2 \subseteq V \ T
    BY <1>3, <1>5, <2>1, <2>2
  <2>4. Enclosed(V2, node)
    <3> SUFFICES ASSUME NEW l \in V2 \cap NodeIds, NEW j \in Nibs
                 PROVE  node[l].child[j] \in V2 \cup {NULL}
      BY DEF Enclosed
    <3>1. CASE l \in V
      BY <2>1, <2>3, <3>1 DEF Enclosed
    <3>2. CASE l = m
      BY <1>4, <2>1, <2>3, <3>2
    <3> QED BY <1>5, <2>2, <3>1, <3>2, Kinds
  <2>5. WasStored(V2, leaf, win)
    BY <1>5, <1>8, <2>1, <2>2, Kinds DEF WasStored
  <2>6. Recent(V2, T2, pend', c.wrs1, Done)
    BY <1>6, <2>1, <2>3 DEF Recent
  <2>7. Leading(V, V2, s, m, root, node, leaf, c, win)
    <3> SUFFICES ASSUME NEW G, NEW l, Guide(G, l, V, node, leaf, root, c)
                 PROVE  \E G2 : /\ Guide(G2, l, V2, node, leaf, root, c)
                                /\ AtIn(root, node, s) \in G2 => m \in G2
      BY DEF Leading
    <3>1. CASE n \in G
      <4>1. StoreType(root, node, leaf)
        BY KeptFacts
      <4>2. Guide(G \cup {m}, l, V2, node, leaf, root, c)
        BY <1>4, <1>5, <2>1, <2>3, <3>1, <4>1, GuideAdd
      <4> QED BY <4>2
    <3>2. CASE n \notin G
      BY <1>4, <2>3, <3>2, GuideWider
    <3> QED BY <3>1, <3>2
  <2>8. m \in V2 \cup {NULL}
    BY <2>3
  <2>9. Sees(V2, T2, root', node', leaf', pend', Done', c, win)
    BY <1>5, <1>6, <1>9, <2>3, <2>4, <2>5, <2>6, <2>7, <2>8, StoreCarries
  <2> QED BY <2>9
<1> QED BY <1>3, <1>6, <1>7, <1>10, WriterStep

\* x is put aside by removal n.
LEMMA RecentPut ==
  ASSUME NEW V, NEW T, NEW pd, NEW lo \in Nat, NEW n \in Nat, n # 0, lo =< n, Recent(V, T, pd, lo, n),
         NEW x, NEW d \in Dels, d = (n - 1) % DELETED_LIFE,
         NEW pd2, \A i \in Dels : \A y \in V \ T : y \in {pd[i].node, pd[i].leaf} => y \in {pd2[i].node, pd2[i].leaf},
         x \in {pd2[d].node, pd2[d].leaf}
  PROVE  Recent(V, T \ {x}, pd2, lo, n)
<1>1. Recent(V, T, pd2, lo, n)
  BY RecentSame
<1>2. Waits(x, pd2, lo, n)
  BY DEF Waits
<1> QED BY <1>1, <1>2 DEF Recent

\* A leaf is cut off: the lookups of other keys do not pass there, and those of
\* its key have seen it go.
LEMMA RemoveUnlinkLookups ==
  ASSUME NEW T, KeptAs(T), QueriesOK, LookupsOK(T), RemoveUnlink
  PROVE  LookupInv'
<1>1. PICK PN, PL : WriterInv(T, PN, PL)
  BY DEF KeptAs
<1>2. /\ w.pc = "unlink" /\ q' = q /\ removes' = removes /\ leaf' = leaf
  BY DEF RemoveUnlink
<1>3. Done \in Nat /\ Done = removes
  BY <1>2, DoneFacts DEF Done
<1>4. /\ pend \in [Dels -> PendType] /\ removes \in Nat /\ removes # 0
      /\ w.del = (removes - 1) % DELETED_LIFE /\ pend[w.del].leaf = NULL
  BY <1>2, KeptFacts DEF Held
<1>5. CASE /\ UNCHANGED <<root, node, leaf, pend, removes, map, window>>
           /\ w'.pc # "recycle" /\ KeptAs(T)'
  <2>1. Done' = Done
    BY <1>2, <1>5 DEF Done
  <2>2. root' = root /\ node' = node /\ leaf' = leaf /\ pend' = pend /\ SameMap
    BY <1>5 DEF SameMap
  <2>3. Carries(T, T)
    BY <1>3, <2>1, <2>2, QuietCarries
  <2> QED BY <1>2, <1>5, <2>2, <2>3, WriterStep
<1>6. ASSUME NEW s \in Slots(T), NEW k \in T \cap LeafIds,
             AtIn(root, node, s) = k, StoredIn(root, node, s, NULL, root', node'),
             leaf[k].key = w.key, w.key \in Keys, w.del \in Dels,
             LeafWaits(pend, w.del, k, pend'), w'.pc # "recycle",
             \E X : X = T \ {k} /\ KeptAs(X)'
      PROVE  LookupInv'
  <2>1. PICK T2, key, d : T2 = T \ {k} /\ KeptAs(T2)' /\ key = w.key /\ d = w.del
    BY <1>6
  <2>2. Done' = Done
    BY <1>2, <1>6 DEF Done
  <2>3. Becomes([map EXCEPT ![key] = NULL])
    <3>1. PICK at : at = Walk(w.key, FALSE)
      OBVIOUS
    <3>2. (SameMap /\ pend' = pend) \/ Becomes([map EXCEPT ![w.key] = NULL])
      BY <3>1 DEF RemoveUnlink
    <3>3. pend' # pend
      <4>1. pend[d] \in PendType /\ pend'[d] = [pend[d] EXCEPT !.leaf = k]
        BY <1>4, <1>6, <2>1 DEF LeafWaits
      <4>2. pend'[d].leaf = k /\ k # NULL
        BY <4>1, <1>6, Kinds DEF PendType
      <4> QED BY <1>4, <2>1, <4>2
    <3> QED BY <2>1, <3>2, <3>3
  <2>4. Becomes(map') /\ map' = [map EXCEPT ![key] = NULL]
    BY <2>3 DEF Becomes
  <2>5. map'[key] = NULL
    <3>1. map \in [Keys -> Nat]
      BY <1>1, Taken
    <3> QED BY <1>6, <2>1, <2>4, <3>1
  <2>6. PICK pd2 : pd2 = pend'
    OBVIOUS
  <2>7. d \in Dels /\ pd2[d].leaf = k /\ pd2[d].node = pend[d].node /\ \A i \in Dels : i # d => pd2[i] = pend[i]
    <3>1. pend[d] \in PendType /\ pd2[d] = [pend[d] EXCEPT !.leaf = k] /\ \A i \in Dels : i # d => pd2[i] = pend[i]
      BY <1>4, <1>6, <2>1, <2>6 DEF LeafWaits
    <3> QED BY <1>6, <2>1, <3>1 DEF PendType
  <2>8. Carries(T, T2)
    <3> SUFFICES ASSUME NEW c, NEW V, NEW win, map' \in win, c.bound \in 0..MaxKey,
                        c.wrs1 \in Nat, c.wrs1 =< removes,
                        Sees(V, T, root, node, leaf, pend, Done, c, win)
                 PROVE  Sees(V, T2, root', node', leaf', pend', Done', c, win)
      BY DEF Carries
    <3>1. /\ T \subseteq V /\ V \subseteq NodeIds \cup LeafIds
          /\ Enclosed(V, node) /\ Recent(V, T, pend, c.wrs1, removes) /\ WasStored(V, leaf, win)
      BY <1>3 DEF Sees
    <3>2. \A i \in Dels : \A y \in V \ T : y \in {pend[i].node, pend[i].leaf} => y \in {pd2[i].node, pd2[i].leaf}
      <4> SUFFICES ASSUME NEW i \in Dels, NEW y \in V \ T, y \in {pend[i].node, pend[i].leaf}
                   PROVE  y \in {pd2[i].node, pd2[i].leaf}
        OBVIOUS
      <4>1. y # NULL
        BY <3>1, Kinds
      <4> QED BY <1>4, <2>1, <2>7, <4>1
    <3>3. d = (removes - 1) % DELETED_LIFE /\ k \in {pd2[d].node, pd2[d].leaf}
      BY <1>4, <2>1, <2>7
    <3>4. Recent(V, T \ {k}, pd2, c.wrs1, removes)
      BY <1>4, <2>7, <3>1, <3>2, <3>3, RecentPut
    <3>5. Recent(V, T2, pend', c.wrs1, Done)
      BY <1>3, <2>1, <2>6, <3>4
    <3>6. Leading(V, V, s, NULL, root, node, leaf, c, win)
      <4> SUFFICES ASSUME NEW G, NEW l, Throughout(c.bound, win), Guide(G, l, V, node, leaf, root, c)
                   PROVE  AtIn(root, node, s) \notin G
        BY DEF Leading
      <4>1. c.bound # key
        BY <2>5 DEF Throughout
      <4>2. k \in G => k = l
        BY <1>6 DEF Guide, LeadsTo
      <4> QED BY <1>6, <2>1, <4>1, <4>2 DEF Guide
    <3>7. V \subseteq V /\ T2 \subseteq V /\ NULL \in V \cup {NULL}
      BY <2>1, <3>1
    <3> QED BY <1>2, <1>6, <2>2, <3>1, <3>5, <3>6, <3>7, StoreCarries
  <2> QED BY <1>2, <2>1, <2>4, <2>8, WriterStep
<1> QED BY <1>1, <1>5, <1>6, RemoveUnlinkInv

\* The node goes when its only child takes its place; a lookup in the node goes
\* on to the child.
LEMMA RemoveCollapseLookups ==
  ASSUME NEW T, KeptAs(T), QueriesOK, LookupsOK(T), RemoveCollapse
  PROVE  LookupInv'
<1>1. PICK PN, PL : WriterInv(T, PN, PL)
  BY DEF KeptAs
<1>2. /\ w.pc = "collapse" /\ q' = q /\ removes' = removes /\ leaf' = leaf /\ SameMap
  BY DEF RemoveCollapse
<1>3. w'.pc # "recycle"
  BY <1>1, RemoveCollapseInv
<1>4. Done \in Nat /\ Done = removes /\ Done' = Done
  BY <1>2, <1>3, DoneFacts DEF Done
<1>5. /\ pend \in [Dels -> PendType] /\ removes \in Nat /\ removes # 0
      /\ w.del = (removes - 1) % DELETED_LIFE /\ pend[w.del].node = NULL
  BY <1>2, KeptFacts DEF Held
<1>6. CASE UNCHANGED <<root, node, pend>> /\ KeptAs(T)'
  <2>1. root' = root /\ node' = node /\ pend' = pend
    BY <1>6
  <2>2. Carries(T, T)
    BY <1>2, <1>4, <2>1, QuietCarries
  <2> QED BY <1>2, <1>6, <2>2, WriterStep
<1>7. ASSUME NEW s \in Slots(T), NEW n \in T \cap NodeIds, NEW i \in Nibs, NEW x \in T,
             AtIn(root, node, s) = n, StoredIn(root, node, s, x, root', node'),
             node[n].child[i] = x, \A j \in Nibs \ {i} : node[n].child[j] = NULL,
             NodeWaits(pend, w.del, n, pend'), w.del \in Dels,
             \E X : X = T \ {n} /\ KeptAs(X)'
      PROVE  LookupInv'
  <2>1. PICK T2, d : T2 = T \ {n} /\ KeptAs(T2)' /\ d = w.del
    BY <1>7
  <2>2. PICK pd2 : pd2 = pend'
    OBVIOUS
  <2>3. d \in Dels /\ pd2[d].node = n /\ pd2[d].leaf = pend[d].leaf /\ \A j \in Dels : j # d => pd2[j] = pend[j]
    <3>1. pend[d] \in PendType /\ pd2[d] = [pend[d] EXCEPT !.node = n] /\ \A j \in Dels : j # d => pd2[j] = pend[j]
      BY <1>5, <1>7, <2>1, <2>2 DEF NodeWaits
    <3> QED BY <1>7, <2>1, <3>1 DEF PendType
  <2>4. Carries(T, T2)
    <3> SUFFICES ASSUME NEW c, NEW V, NEW win, map' \in win, c.bound \in 0..MaxKey,
                        c.wrs1 \in Nat, c.wrs1 =< removes,
                        Sees(V, T, root, node, leaf, pend, Done, c, win)
                 PROVE  Sees(V, T2, root', node', leaf', pend', Done', c, win)
      BY DEF Carries
    <3>1. /\ T \subseteq V /\ V \subseteq NodeIds \cup LeafIds
          /\ Enclosed(V, node) /\ Recent(V, T, pend, c.wrs1, removes) /\ WasStored(V, leaf, win)
      BY <1>4 DEF Sees
    <3>2. \A j \in Dels : \A y \in V \ T : y \in {pend[j].node, pend[j].leaf} => y \in {pd2[j].node, pd2[j].leaf}
      <4> SUFFICES ASSUME NEW j \in Dels, NEW y \in V \ T, y \in {pend[j].node, pend[j].leaf}
                   PROVE  y \in {pd2[j].node, pd2[j].leaf}
        OBVIOUS
      <4>1. y # NULL
        BY <3>1, Kinds
      <4> QED BY <1>5, <2>1, <2>3, <4>1
    <3>3. d = (removes - 1) % DELETED_LIFE /\ n \in {pd2[d].node, pd2[d].leaf}
      BY <1>5, <2>1, <2>3
    <3>4. Recent(V, T \ {n}, pd2, c.wrs1, removes)
      BY <1>5, <2>3, <3>1, <3>2, <3>3, RecentPut
    <3>5. Recent(V, T2, pend', c.wrs1, Done)
      BY <1>4, <2>1, <2>2, <3>4
    <3>6. Leading(V, V, s, x, root, node, leaf, c, win)
      <4> SUFFICES ASSUME NEW G, NEW l, Guide(G, l, V, node, leaf, root, c), n \in G
                   PROVE  x \in G
        BY <1>7 DEF Leading
      <4>1. PICK j : j = slice_index(c.bound, node[n].shift)
        OBVIOUS
      <4>2. node[n].child[j] \in G /\ NULL \notin G
        BY <1>7, <3>1, <4>1, Kinds DEF Guide, LeadsTo
      <4>3. node[n].shift \in Shifts
        BY <1>7, KeptFacts DEF StoreType, NodeType
      <4>4. j \in Nibs
        BY <4>1, <4>3, SliceType
      <4> QED BY <1>7, <4>2, <4>4
    <3>7. V \subseteq V /\ T2 \subseteq V /\ x \in V \cup {NULL}
      BY <1>7, <2>1, <3>1
    <3> QED BY <1>2, <1>4, <1>7, <3>1, <3>5, <3>6, <3>7, StoreCarries
  <2> QED BY <1>2, <2>1, <2>4, WriterStep
<1>8. \/ UNCHANGED <<root, node, pend>> /\ KeptAs(T)'
      \/ \E s \in Slots(T), n \in T \cap NodeIds, i \in Nibs, x \in T :
           /\ x # n /\ AtIn(root, node, s) = n /\ StoredIn(root, node, s, x, root', node')
           /\ node[n].child[i] = x /\ \A j \in Nibs \ {i} : node[n].child[j] = NULL
           /\ NodeWaits(pend, w.del, n, pend') /\ w.del \in Dels
           /\ \E X : X = T \ {n} /\ KeptAs(X)'
  BY <1>1, RemoveCollapseInv
<1> QED BY <1>6, <1>7, <1>8

LEMMA NextLookups == LookupInv /\ [Next]_vars => LookupInv'
<1> SUFFICES ASSUME LookupInv, [Next]_vars PROVE LookupInv'
  OBVIOUS
<1>1. PICK T : KeptAs(T) /\ QueriesOK /\ LookupsOK(T)
  BY DEF LookupInv
<1>2. CASE UNCHANGED vars
  <2>1. /\ root' = root /\ node' = node /\ leaf' = leaf /\ pool' = pool /\ pend' = pend
        /\ removes' = removes /\ w' = w /\ q' = q /\ map' = map /\ window' = window /\ writes' = writes
    BY <1>2 DEF vars
  <2>2. KeptAs(T)'
    BY <1>1, <2>1, ReaderKeeps
  <2>3. QueriesOK'
    BY <1>1, <2>1 DEF QueriesOK, QueryOK
  <2>4. LookupsOK(T)'
    BY <1>1, <2>1 DEF LookupsOK, Lookup, Done
  <2> QED BY <2>2, <2>3, <2>4 DEF LookupInv
<1>3. ASSUME NEW r \in Readers, Reader(r) PROVE LookupInv'
  BY <1>1, <1>3, ReaderLookups
<1>4. ASSUME NEW r \in Readers, NEW ask \in Queries, Query(r, ask[1], ask[2]) PROVE LookupInv'
  BY <1>1, <1>4, QueryKeeps
<1>5. ASSUME NEW key \in Keys, InsertLeaf(key) PROVE LookupInv'
  BY <1>1, <1>5, InsertLeafLookups
<1>6. ASSUME NEW key \in Keys, RemoveCount(key) PROVE LookupInv'
  BY <1>1, <1>6, RemoveCountLookups
<1>7. CASE InsertHere
  BY <1>1, <1>7, InsertHereLookups
<1>8. CASE InsertNode
  BY <1>1, <1>8, InsertNodeLookups
<1>9. CASE InsertLink
  BY <1>1, <1>9, InsertLinkLookups
<1>10. ASSUME NEW update \in BOOLEAN, InsertExists(update) PROVE LookupInv'
  BY <1>1, <1>10, InsertExistsLookups
<1>11. CASE RemoveRecycle
  BY <1>1, <1>11, RemoveRecycleLookups
<1>12. CASE RemoveUnlink
  BY <1>1, <1>12, RemoveUnlinkLookups
<1>13. CASE RemoveCollapse
  BY <1>1, <1>13, RemoveCollapseLookups
<1> QED BY <1>2, <1>3, <1>4, <1>5, <1>6, <1>7, <1>8, <1>9, <1>10, <1>11, <1>12, <1>13 DEF Next, Writer

\* What a lookup of bound should find in the map m.
LEMMA AnswerIs ==
  ASSUME NEW m, NEW bound
  PROVE  Answer(m, "eq", bound)[2] = IF bound \in Keys THEN m[bound] ELSE NULL
<1>1. PICK E : E = Entries(m, "eq", bound)
  OBVIOUS
<1>2. E = {k \in Keys : m[k] # NULL /\ k = bound}
  BY <1>1 DEF Entries
<1>3. PICK best : best = CHOOSE k \in E : \A j \in E \ {k} : Nearer("eq", k, j)
  OBVIOUS
<1>4. Answer(m, "eq", bound) = IF E = {} THEN <<NULL, NULL>> ELSE <<best, m[best]>>
  BY <1>1, <1>3 DEF Answer
<1>5. CASE bound \in Keys /\ m[bound] # NULL
  <2>1. E = {bound}
    BY <1>2, <1>5
  <2>2. \E k \in E : \A j \in E \ {k} : Nearer("eq", k, j)
    BY <2>1
  <2>3. best = bound
    BY <1>3, <2>1, <2>2
  <2> QED BY <1>4, <1>5, <2>1, <2>3
<1>6. CASE ~(bound \in Keys /\ m[bound] # NULL)
  <2>1. E = {}
    BY <1>2, <1>6
  <2> QED BY <1>4, <1>6, <2>1
<1> QED BY <1>5, <1>6

\* A query returns only in Return.
LEMMA OnlyReturn ==
  ASSUME QueriesOK, [Next]_vars, NEW r \in Readers, Returns(r)
  PROVE  Return(r)
<1>1. q[r] # NoQuery /\ q'[r] = NoQuery /\ DOMAIN q = Readers
  BY DEF Returns, QueriesOK
<1>2. q' # q
  BY <1>1
<1>3. ~Writer /\ ~UNCHANGED vars
  BY <1>2 DEF Writer, InsertLeaf, RemoveCount, InsertHere, InsertNode, InsertLink, InsertExists,
     RemoveRecycle, RemoveUnlink, RemoveCollapse, vars
<1>4. PICK s \in Readers : Reader(s) \/ \E ask \in Queries : Query(s, ask[1], ask[2])
  BY <1>3 DEF Next
<1>5. \E rec : q' = [q EXCEPT ![s] = rec]
  BY <1>4 DEF Reader, LoadRoot, Dive, Compare, Find, Scan, FindOutermost, Descend, ReadKey, ReadValue,
     Restart, Return, Query, Goes, Set
<1>6. s = r
  BY <1>1, <1>5
<1>7. ~\E ask \in Queries : Query(r, ask[1], ask[2])
  BY <1>1 DEF Query
<1>8. QueryOK(q[r], window[r])
  BY <1>1 DEF QueriesOK
<1>9. "wrs1" \in DOMAIN q[r] /\ "wrs1" \notin DOMAIN NoQuery
  BY <1>8 DEF QueryOK, NoQuery
<1>10. ASSUME NEW rec, Goes(r, rec), DOMAIN rec = DOMAIN q[r] PROVE FALSE
  <2>1. q'[r] = rec
    BY <1>1, <1>10 DEF Goes, Set
  <2> QED BY <1>1, <1>9, <1>10, <2>1
<1>11. Reader(r)
  BY <1>4, <1>6, <1>7
<1>12. CASE LoadRoot(r) \/ Dive(r) \/ Compare(r) \/ ReadKey(r) \/ ReadValue(r) \/ Restart(r)
  <2>1. PICK rec : Goes(r, rec) /\ DOMAIN rec = DOMAIN q[r]
    <3>1. CASE LoadRoot(r)
      <4>1. PICK rec : rec = [q[r] EXCEPT !.n = root, !.pc = IF q[r].dir = "eq" THEN "dive" ELSE "find"]
        OBVIOUS
      <4>2. Goes(r, rec)
        BY <3>1, <4>1 DEF LoadRoot
      <4>3. DOMAIN rec = DOMAIN q[r]
        BY <4>1
      <4> QED BY <4>2, <4>3
    <3>2. CASE Dive(r)
      BY <3>2 DEF Dive
    <3>3. CASE Compare(r)
      <4>1. PICK rec : rec = [q[r] EXCEPT !.k = IF q[r].n # NULL /\ leaf[q[r].n].key = q[r].bound THEN q[r].n ELSE NULL,
                                   !.key = q[r].bound, !.pc = "value"]
        OBVIOUS
      <4>2. Goes(r, rec)
        BY <3>3, <4>1 DEF Compare
      <4>3. DOMAIN rec = DOMAIN q[r]
        BY <4>1
      <4> QED BY <4>2, <4>3
    <3>4. CASE ReadKey(r)
      <4>1. PICK rec : rec = [q[r] EXCEPT !.key = IF q[r].k = NULL THEN NULL ELSE leaf[q[r].k].key, !.pc = "value"]
        OBVIOUS
      <4>2. Goes(r, rec)
        BY <3>4, <4>1 DEF ReadKey
      <4>3. DOMAIN rec = DOMAIN q[r]
        BY <4>1
      <4> QED BY <4>2, <4>3
    <3>5. CASE ReadValue(r)
      <4>1. PICK rec : rec = [q[r] EXCEPT !.value = IF q[r].k = NULL THEN NULL ELSE leaf[q[r].k].value, !.pc = "verify"]
        OBVIOUS
      <4>2. Goes(r, rec)
        BY <3>5, <4>1 DEF ReadValue
      <4>3. DOMAIN rec = DOMAIN q[r]
        BY <4>1
      <4> QED BY <4>2, <4>3
    <3>6. CASE Restart(r)
      <4>1. PICK rec : rec = [q[r] EXCEPT !.pc = "root", !.wrs1 = removes, !.frames = <<>>]
        OBVIOUS
      <4>2. Goes(r, rec)
        BY <3>6, <4>1 DEF Restart
      <4>3. DOMAIN rec = DOMAIN q[r]
        BY <4>1
      <4> QED BY <4>2, <4>3
    <3> QED BY <1>12, <3>1, <3>2, <3>3, <3>4, <3>5, <3>6
  <2> QED BY <1>10, <2>1
<1>13. ASSUME NEW c, NEW x PROVE DOMAIN Found(c, x) = DOMAIN c /\ DOMAIN Nothing(c) = DOMAIN c /\ DOMAIN Outermost(c, x) = DOMAIN c
  BY DEF Found, Nothing, Outermost
<1>14. CASE Find(r)
  <2>1. PICK c, n, nib : c = q[r] /\ n = node[c.n] /\ nib = slice_index(c.bound, n.shift)
    OBVIOUS
  <2>2. PICK e : e = [c EXCEPT !.n = n.child[nib], !.frames = Append(@, [n |-> c.n, nib |-> nib])]
    OBVIOUS
  <2>3. PICK rec : rec = IF c.n = NULL THEN Nothing(c)
                 ELSE IF is_leaf(c.n)
                 THEN IF Within(c.dir, leaf[c.n].key, c.bound) THEN Found(c, c.n) ELSE Nothing(c)
                 ELSE IF Above(c.bound, n.shift) # n.path
                 THEN IF Within(c.dir, n.path, c.bound) THEN Outermost(c, c.n) ELSE Nothing(c)
                 ELSE e
    OBVIOUS
  <2>4. Goes(r, rec)
    BY <1>14, <2>1, <2>2, <2>3 DEF Find
  <2>5. rec = Nothing(c) \/ rec = Found(c, c.n) \/ rec = Outermost(c, c.n) \/ rec = e
    BY <2>3
  <2>6. DOMAIN e = DOMAIN c
    BY <2>2
  <2> QED BY <1>10, <1>13, <2>1, <2>4, <2>5, <2>6
<1>15. CASE Scan(r)
  <2>1. PICK c, top, rest, nib : /\ c = q[r] /\ top = c.frames[Len(c.frames)]
                                 /\ rest = SubSeq(c.frames, 1, Len(c.frames) - 1)
                                 /\ nib = Further(c.dir, top.nib)
    OBVIOUS
  <2>2. PICK m, e, f : /\ m = node[top.n].child[nib]
                       /\ e = [c EXCEPT !.frames = rest]
                       /\ f = [c EXCEPT !.frames = Append(rest, [top EXCEPT !.nib = nib])]
    OBVIOUS
  <2>3. PICK rec : rec = IF c.frames = <<>> THEN Found(c, NULL)
                 ELSE IF top.nib = Past(c.dir) THEN e
                 ELSE IF m = NULL THEN f
                 ELSE IF is_leaf(m) THEN Found(c, m)
                 ELSE Outermost(e, m)
    OBVIOUS
  <2>4. Goes(r, rec)
    BY <1>15, <2>1, <2>2, <2>3 DEF Scan
  <2>5. rec = Found(c, NULL) \/ rec = e \/ rec = f \/ rec = Found(c, m) \/ rec = Outermost(e, m)
    BY <2>3
  <2>6. DOMAIN e = DOMAIN c /\ DOMAIN f = DOMAIN c
    BY <2>2
  <2> QED BY <1>10, <1>13, <2>1, <2>4, <2>5, <2>6
<1>16. CASE FindOutermost(r)
  <2>1. PICK c, m, e, d : /\ c = q[r] /\ m = node[c.n].child[c.nib]
                          /\ e = [c EXCEPT !.nib = Further(c.dir, @)]
                          /\ d = [c EXCEPT !.pc = "descend"]
    OBVIOUS
  <2>2. PICK rec : rec = IF m # NULL THEN d ELSE IF c.nib = Past(c.dir) THEN Nothing(c) ELSE e
    OBVIOUS
  <2>3. Goes(r, rec)
    BY <1>16, <2>1, <2>2 DEF FindOutermost
  <2>4. rec = Nothing(c) \/ rec = d \/ rec = e
    BY <2>2
  <2>5. DOMAIN e = DOMAIN c /\ DOMAIN d = DOMAIN c
    BY <2>1
  <2> QED BY <1>10, <1>13, <2>1, <2>3, <2>4, <2>5
<1>17. CASE Descend(r)
  <2>1. PICK c, m, d : /\ c = q[r] /\ m = node[c.n].child[c.nib] /\ d = [c EXCEPT !.pc = "fault"]
    OBVIOUS
  <2>2. PICK rec : rec = IF m = NULL THEN d ELSE IF is_leaf(m) THEN Found(c, m) ELSE Outermost(c, m)
    OBVIOUS
  <2>3. Goes(r, rec)
    BY <1>17, <2>1, <2>2 DEF Descend
  <2>4. rec = d \/ rec = Found(c, m) \/ rec = Outermost(c, m)
    BY <2>2
  <2>5. DOMAIN d = DOMAIN c
    BY <2>1
  <2> QED BY <1>10, <1>13, <2>1, <2>3, <2>4, <2>5
<1> QED BY <1>11, <1>12, <1>14, <1>15, <1>16, <1>17 DEF Reader

\* What a lookup returns.
LEMMA LookupReturns ==
  ASSUME NEW r \in Readers, LookupInv, Return(r), q[r].dir = "eq"
  PROVE  Result(r)[2] \in {Answer(m, "eq", q[r].bound)[2] : m \in window[r]}
<1>1. PICK T : KeptAs(T) /\ QueriesOK /\ LookupsOK(T)
  BY DEF LookupInv
<1>2. PICK c, win : c = q[r] /\ win = window[r]
  OBVIOUS
<1>3. c.pc = "verify" /\ ~(c.wrs1 + DELETED_LIFE =< removes) /\ c.dir = "eq"
  BY <1>2 DEF Return, Stale
<1>4. c # NoQuery
  BY <1>3 DEF NoQuery
<1>5. QueryOK(c, win)
  BY <1>1, <1>2, <1>4 DEF QueriesOK
<1>6. c.wrs1 \in Nat /\ map \in win /\ removes \in Nat
  BY <1>1, <1>5, KeptFacts DEF QueryOK
<1>7. Lookup(c)
  BY <1>3, <1>4, <1>6, LifeAssumption DEF Lookup
<1>8. PICK V : Sees(V, T, root, node, leaf, pend, Done, c, win)
  BY <1>1, <1>2, <1>7 DEF LookupsOK
<1>9. /\ c.k = NULL \/ (c.bound \in Keys /\ \E m \in win : m[c.bound] = c.value)
      /\ Throughout(c.bound, win) => c.k # NULL
  BY <1>3, <1>8 DEF Sees, Place, Guided
<1>10. Result(r)[2] = IF c.k = NULL THEN NULL ELSE c.value
  BY <1>2 DEF Result
<1>11. \E m \in win : Result(r)[2] = IF c.bound \in Keys THEN m[c.bound] ELSE NULL
  <2>1. CASE c.k # NULL
    BY <1>9, <1>10, <2>1
  <2>2. CASE c.k = NULL
    <3>1. ~Throughout(c.bound, win)
      BY <1>9, <2>2
    <3> QED BY <1>6, <1>10, <2>2, <3>1 DEF Throughout
  <2> QED BY <2>1, <2>2
<1>12. PICK m \in win : Result(r)[2] = IF c.bound \in Keys THEN m[c.bound] ELSE NULL
  BY <1>11
<1>13. Result(r)[2] = Answer(m, "eq", c.bound)[2]
  BY <1>12, AnswerIs
<1> QED BY <1>2, <1>12, <1>13

\* critnib_get is right without a lock: the value it returns was stored under
\* the key, or the key was absent, at some point between its call and its
\* return, however many inserts and removes ran meanwhile and whichever nodes
\* and leaves they removed, recycled and filled again; for any number of readers
\* and any DELETED_LIFE, since a lookup that lasted so many removals starts over.
THEOREM LookupsAreCurrent == Spec => GetCurrent
<1>1. Init => LookupInv
  BY InitLookups
<1>2. LookupInv /\ [Next]_vars => LookupInv'
  BY NextLookups
<1>3. LookupInv /\ [Next]_vars
        => [\A r \in Readers : Returns(r) /\ q[r].dir = "eq"
              => Result(r)[2] \in {Answer(m, "eq", q[r].bound)[2] : m \in window[r]}]_vars
  <2> SUFFICES ASSUME LookupInv, [Next]_vars, NEW r \in Readers, Returns(r), q[r].dir = "eq"
               PROVE  Result(r)[2] \in {Answer(m, "eq", q[r].bound)[2] : m \in window[r]}
    OBVIOUS
  <2>1. QueriesOK
    BY DEF LookupInv
  <2>2. Return(r)
    BY <2>1, OnlyReturn
  <2> QED BY <2>2, LookupReturns
<1> QED BY <1>1, <1>2, <1>3, PTL DEF Spec, GetCurrent

=============================================================================
