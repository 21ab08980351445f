------------------------------ MODULE NumberLemmas -----------------------------
(***************************************************************************)
(* Induction and recursion on numbers, which the proofs about recursive    *)
(* functions rest on, and division. What is proved by induction is stated  *)
(* as a set of numbers, and the step of a recursion as a function.         *)
(***************************************************************************)
EXTENDS Integers, WellFoundedInduction, TLAPS

\* A set of numbers has a least element.
LEMMA LeastElement ==
  ASSUME NEW T, T \subseteq Nat, T # {}
  PROVE  \E x \in T : \A y \in T : x <= y
<1> DEFINE R == {p \in Nat \X Nat : p[1] < p[2]}
<1>1. IsWellFoundedOn(R, Nat)
  BY NatLessThanWellFounded DEF OpToRel
<1>2. PICK x \in T : \A y \in T : <<y, x>> \notin R
  <2> HIDE DEF R
  <2> QED
    BY <1>1, WFMin
<1>3. \A y \in T : ~(y < x)
  BY <1>2
<1> QED
  BY <1>3

\* A set that holds 0 and, with a number, the next one holds every number.
LEMMA Induction ==
  ASSUME NEW T, 0 \in T, \A n \in Nat : n \in T => n + 1 \in T
  PROVE  Nat \subseteq T
<1> SUFFICES ASSUME Nat \ T # {} PROVE FALSE
  OBVIOUS
<1>1. PICK x \in Nat \ T : \A y \in Nat \ T : x <= y
  BY LeastElement
<1>2. x # 0 /\ x - 1 \in Nat
  BY <1>1
<1>3. x - 1 \in T
  BY <1>1, <1>2
<1> QED
  BY <1>1, <1>2, <1>3

\* The same for the numbers up to a bound.
LEMMA BoundedInduction ==
  ASSUME NEW n \in Nat, NEW T, 0 \in T,
         \A i \in 0 .. n - 1 : i \in T => i + 1 \in T
  PROVE  0 .. n \subseteq T
<1> DEFINE U == {i \in Nat : i <= n => i \in T}
<1>1. 0 \in U
  OBVIOUS
<1>2. ASSUME NEW i \in Nat, i \in U PROVE i + 1 \in U
  <2>1. i + 1 <= n => i \in 0 .. n - 1
    OBVIOUS
  <2> QED
    BY <1>2, <2>1
<1>3. Nat \subseteq U
  <2> HIDE DEF U
  <2> QED
    BY <1>1, <1>2, Induction
<1> QED
  BY <1>3

\* A set of numbers with a bound has a greatest element.
LEMMA GreatestElement ==
  ASSUME NEW n \in Nat, NEW T, T \subseteq 0 .. n, T # {}
  PROVE  \E x \in T : \A y \in T : y <= x
<1> DEFINE U == {v \in Nat : n - v \in T}
<1>1. U \subseteq Nat /\ U # {}
  <2>1. PICK y \in T : y \in 0 .. n
    OBVIOUS
  <2>2. n - y \in Nat /\ n - (n - y) = y
    BY <2>1
  <2>3. n - y \in U
    BY <2>1, <2>2
  <2> QED
    BY <2>3
<1>2. PICK u \in U : \A v \in U : u <= v
  <2> HIDE DEF U
  <2> QED
    BY <1>1, LeastElement
<1>3. n - u \in T
  BY <1>2
<1>4. ASSUME NEW y \in T PROVE y <= n - u
  <2>1. y \in 0 .. n
    OBVIOUS
  <2>2. n - y \in Nat /\ n - (n - y) = y
    BY <2>1
  <2>3. n - y \in U
    BY <2>2
  <2>4. u <= n - y
    BY <1>2, <2>3
  <2> QED
    BY <1>2, <2>1, <2>4
<1> QED
  BY <1>3, <1>4

-----------------------------------------------------------------------------
\* g begins with base and goes on for n steps.
Iterates(S, base, step, n, g) ==
  /\ g \in [0 .. n -> S] /\ g[0] = base
  /\ \A i \in 0 .. n - 1 : g[i + 1] = step[<<i, g[i]>>]

\* Steps can be iterated up to any number.
LEMMA IteratesExist ==
  ASSUME NEW S, NEW base \in S, NEW step \in [Nat \X S -> S]
  PROVE  \A n \in Nat : \E g : Iterates(S, base, step, n, g)
<1> DEFINE T == {n \in Nat : \E g : Iterates(S, base, step, n, g)}
<1>1. 0 \in T
  <2> DEFINE g == [i \in 0 .. 0 |-> base]
  <2>1. Iterates(S, base, step, 0, g)
    BY DEF Iterates
  <2> HIDE DEF g
  <2> QED
    BY <2>1
<1>2. ASSUME NEW n \in Nat, n \in T PROVE n + 1 \in T
  <2>1. PICK g : Iterates(S, base, step, n, g)
    BY <1>2
  <2>2. g \in [0 .. n -> S] /\ g[n] \in S
    BY <2>1 DEF Iterates
  <2> DEFINE h == [i \in 0 .. n + 1 |-> IF i = n + 1 THEN step[<<n, g[n]>>] ELSE g[i]]
  <2>3. step[<<n, g[n]>>] \in S
    BY <2>2
  <2>4. h \in [0 .. n + 1 -> S]
    BY <2>2, <2>3
  <2>5. h[0] = base
    BY <2>1 DEF Iterates
  <2>6. ASSUME NEW i \in 0 .. (n + 1) - 1 PROVE h[i + 1] = step[<<i, h[i]>>]
    <3>1. i \in 0 .. n /\ h[i] = g[i]
      OBVIOUS
    <3>2. CASE i = n
      <4>1. h[n + 1] = step[<<n, g[n]>>]
        OBVIOUS
      <4> HIDE DEF h
      <4> QED
        BY <3>1, <3>2, <4>1
    <3>3. CASE i # n
      <4>1. i \in 0 .. n - 1 /\ i + 1 \in 0 .. n
        BY <3>1, <3>3
      <4>2. h[i + 1] = g[i + 1]
        BY <4>1
      <4>3. g[i + 1] = step[<<i, g[i]>>]
        BY <2>1, <4>1 DEF Iterates
      <4> HIDE DEF h
      <4> QED
        BY <3>1, <4>2, <4>3
    <3> QED
      BY <3>2, <3>3
  <2>7. Iterates(S, base, step, n + 1, h)
    <3> HIDE DEF h
    <3> QED
      BY <2>4, <2>5, <2>6 DEF Iterates
  <2> HIDE DEF h
  <2> QED
    BY <2>7
<1>3. Nat \subseteq T
  <2> HIDE DEF T
  <2> QED
    BY <1>1, <1>2, Induction
<1> QED
  BY <1>3

\* Two iterations of the same steps agree as far as both go.
LEMMA IteratesAgree ==
  ASSUME NEW S, NEW base \in S, NEW step \in [Nat \X S -> S],
         NEW n \in Nat, NEW m \in Nat, n <= m, NEW g, NEW h,
         Iterates(S, base, step, n, g), Iterates(S, base, step, m, h)
  PROVE  \A i \in 0 .. n : g[i] = h[i]
<1> DEFINE T == {i \in 0 .. n : g[i] = h[i]}
<1>1. 0 \in T
  BY DEF Iterates
<1>2. ASSUME NEW i \in 0 .. n - 1, i \in T PROVE i + 1 \in T
  <2>1. i \in 0 .. m - 1 /\ i + 1 \in 0 .. n
    OBVIOUS
  <2> QED
    BY <1>2, <2>1 DEF Iterates
<1>3. 0 .. n \subseteq T
  <2> HIDE DEF T
  <2> QED
    BY <1>1, <1>2, BoundedInduction
<1> QED
  BY <1>3

\* f begins with base and goes on for ever.
Recurs(S, base, step, f) ==
  /\ f \in [Nat -> S] /\ f[0] = base
  /\ \A i \in Nat : f[i + 1] = step[<<i, f[i]>>]

\* A function that is given by its first value and a step exists.
\* A function that is given by its first value and a step exists.
\* A function that is given by its first value and a step exists.
\* A function that is given by its first value and a step exists.
\* A function that is given by its first value and a step exists.
\* A function that is given by its first value and a step exists.
LEMMA Recursion ==
  ASSUME NEW S, NEW base \in S, NEW step \in [Nat \X S -> S]
  PROVE  \E f : Recurs(S, base, step, f)
<1> DEFINE it(n) == CHOOSE g : Iterates(S, base, step, n, g)
           f == [n \in Nat |-> it(n)[n]]
<1>1. ASSUME NEW n \in Nat PROVE Iterates(S, base, step, n, it(n))
  BY IteratesExist
<1> HIDE DEF it
<1>2. f \in [Nat -> S]
  <2>1. ASSUME NEW n \in Nat PROVE it(n)[n] \in S
    BY <1>1 DEF Iterates
  <2> QED
    BY <2>1
<1>3. f[0] = base
  BY <1>1 DEF Iterates
<1>4. ASSUME NEW i \in Nat PROVE f[i + 1] = step[<<i, f[i]>>]
  <2>1. i + 1 \in Nat /\ i \in 0 .. (i + 1) - 1 /\ i \in 0 .. i /\ i <= i + 1
    OBVIOUS
  <2>2. Iterates(S, base, step, i + 1, it(i + 1)) /\ Iterates(S, base, step, i, it(i))
    BY <1>1, <2>1
  <2>3. it(i)[i] = it(i + 1)[i]
    BY <2>1, <2>2, IteratesAgree
  <2>4. it(i + 1)[i + 1] = step[<<i, it(i + 1)[i]>>]
    BY <2>1, <2>2 DEF Iterates
  <2> QED
    BY <2>1, <2>3, <2>4
<1> HIDE DEF f
<1>5. Recurs(S, base, step, f)
  BY <1>2, <1>3, <1>4 DEF Recurs
<1> QED
  BY <1>5

-----------------------------------------------------------------------------
(* Quotients and remainders of numbers that are not known.                   *)

\* Arithmetic that the provers do not find inside a larger step.
\* Arithmetic that the provers do not find inside a larger step.
\* Arithmetic that the provers do not find inside a larger step.
\* Arithmetic that the provers do not find inside a larger step.
\* Arithmetic that the provers do not find inside a larger step.
\* Arithmetic that the provers do not find inside a larger step.
LEMMA ProductType ==
  ASSUME NEW x \in Nat, NEW y \in Nat
  PROVE  x * y \in Nat
  OBVIOUS

\* A product grows with its factor.
\* A product grows with its factor.
\* A product grows with its factor.
\* A product grows with its factor.
\* A product grows with its factor.
\* A product grows with its factor.
LEMMA Monotone ==
  ASSUME NEW p \in Nat, NEW x \in Int, NEW y \in Int, x <= y
  PROVE  p * x <= p * y
<1>1. p * (y - x) >= 0
  OBVIOUS
<1>2. p * (y - x) = p * y - p * x
  OBVIOUS
<1>3. p * y \in Int /\ p * x \in Int
  OBVIOUS
<1> QED
  BY <1>1, <1>2, <1>3

\* A number is divided by p in one way only.
LEMMA Divided ==
  ASSUME NEW p \in Nat \ {0}, NEW x \in Int, NEW r \in Int, 0 <= r, r < p
  PROVE  (p * x + r) \div p = x /\ (p * x + r) % p = r
<1> DEFINE a == p * x + r
           y == a \div p
           s == a % p
<1>1. a \in Int
  OBVIOUS
<1>2. y \in Int /\ s \in 0 .. p - 1 /\ a = p * y + s
  <2> HIDE DEF a
  <2> QED
    BY <1>1
<1>3. p * y \in Int /\ p * x \in Int
  BY <1>2
<1> HIDE DEF y, s
<1>4. CASE x + 1 <= y
  <2>1. p * (x + 1) <= p * y
    BY <1>2, <1>4, Monotone
  <2>2. p * (x + 1) = p * x + p
    OBVIOUS
  <2> QED
    BY <1>2, <1>3, <2>1, <2>2
<1>5. CASE y + 1 <= x
  <2>1. p * (y + 1) <= p * x
    BY <1>2, <1>5, Monotone
  <2>2. p * (y + 1) = p * y + p
    BY <1>2
  <2> QED
    BY <1>2, <1>3, <2>1, <2>2
<1>6. CASE x = y
  BY <1>2, <1>6 DEF y, s
<1> QED
  BY <1>2, <1>4, <1>5, <1>6

\* Dividing twice is dividing by the product.
LEMMA DividedTwice ==
  ASSUME NEW a \in Nat, NEW p \in Nat \ {0}, NEW q \in Nat \ {0}
  PROVE  (a \div p) \div q = a \div (p * q)
<1> DEFINE x == a \div p
           r == a % p
           y == x \div q
           s == x % q
<1>1. x \in Int /\ r \in 0 .. p - 1 /\ a = p * x + r
  OBVIOUS
<1> HIDE DEF x, r
<1>2. y \in Int /\ s \in 0 .. q - 1 /\ x = q * y + s
  BY <1>1
<1> HIDE DEF y, s
<1>3. p * q \in Nat \ {0}
  OBVIOUS
<1>4. p * x = (p * q) * y + p * s
  BY <1>2
<1>5. p * s + p <= p * q
  <2>1. p * (s + 1) <= p * q
    BY <1>2, Monotone
  <2> QED
    BY <1>2, <2>1
<1>6. p * s >= 0 /\ p * s \in Int
  BY <1>2
<1> DEFINE t == p * s + r
<1>7. 0 <= t /\ t < p * q /\ t \in Int
  BY <1>1, <1>5, <1>6
<1>8. a = (p * q) * y + t
  BY <1>1, <1>2, <1>4, <1>6
<1> HIDE DEF t
<1>9. ((p * q) * y + t) \div (p * q) = y
  BY <1>2, <1>3, <1>7, Divided
<1> QED
  BY <1>8, <1>9 DEF x, y

\* A common factor goes through a remainder.
LEMMA ScaledRemainder ==
  ASSUME NEW a \in Nat, NEW p \in Nat \ {0}, NEW c \in Nat \ {0}
  PROVE  (a * c) % (p * c) = (a % p) * c
<1> DEFINE x == a \div p
           r == a % p
<1>1. x \in Int /\ r \in 0 .. p - 1 /\ a = p * x + r
  OBVIOUS
<1> HIDE DEF x, r
<1>2. p * c \in Nat \ {0}
  OBVIOUS
<1>3. a * c = (p * c) * x + r * c
  BY <1>1
<1>4. r * c + c <= p * c
  <2>1. c * (r + 1) <= c * p
    BY <1>1, Monotone
  <2> QED
    BY <1>1, <2>1
<1>5. r * c >= 0 /\ r * c \in Int
  BY <1>1
<1> DEFINE t == r * c
<1>6. 0 <= t /\ t < p * c /\ t \in Int
  BY <1>2, <1>4, <1>5
<1> HIDE DEF t
<1>7. ((p * c) * x + t) % (p * c) = t
  BY <1>1, <1>2, <1>6, Divided
<1> QED
  BY <1>3, <1>7 DEF t, r

\* Quotient and remainder of natural numbers.
\* Quotient and remainder of natural numbers.
\* Quotient and remainder of natural numbers.
\* Quotient and remainder of natural numbers.
\* Quotient and remainder of natural numbers.
\* Quotient and remainder of natural numbers.
LEMMA QuotientIsNat ==
  ASSUME NEW a \in Nat, NEW p \in Nat \ {0}
  PROVE  a \div p \in Nat /\ a % p \in Nat /\ a % p < p /\ a = p * (a \div p) + (a % p)
<1>1. a \div p \in Int /\ a % p \in 0 .. p - 1 /\ a = p * (a \div p) + (a % p)
  OBVIOUS
<1>2. CASE a \div p <= -1
  <2>1. p * (a \div p) <= p * (-1)
    BY <1>1, <1>2, Monotone
  <2>2. p * (-1) = -p
    OBVIOUS
  <2>3. p * (a \div p) \in Int
    BY <1>1
  <2> QED
    BY <1>1, <2>1, <2>2, <2>3
<1> QED
  BY <1>1, <1>2
=============================================================================
