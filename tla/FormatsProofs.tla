---------------------------- MODULE FormatsProofs ----------------------------
(***************************************************************************)
(* Theorems about JsonBoundary and ArtifactFormats: for every width of     *)
(* doubles and native integers, every limit of a text, and images of any   *)
(* commands.                                                               *)
(*                                                                         *)
(* Doubles, walks and sums are computed recursively.  Induction goes by    *)
(* the least number that something does not hold of, and a recursive       *)
(* function is what its definition says once there is such a function,     *)
(* which Recursion shows.  What one crossing or one inspection does is     *)
(* proved of any number, request, text, image or set of versions; that a   *)
(* behaviour is one of these is the invariant of its specification.        *)
(***************************************************************************)
EXTENDS JsonBoundary, ArtifactFormats, FiniteSetTheorems, WellFoundedInduction, TLAPS

-----------------------------------------------------------------------------
(***************************************************************************)
(* Induction and recursion                                                 *)
(***************************************************************************)
\* A set of natural numbers has a least one.
LEMMA Least ==
  ASSUME NEW T \in SUBSET Nat, T # {}
  PROVE  \E n \in T : \A m \in T : n <= m
<1> DEFINE R == OpToRel(<, Nat)
<1>1. IsWellFoundedOn(R, Nat)
  BY NatLessThanWellFounded
<1>2. \A m, n \in Nat : m < n => <<m, n>> \in R
  BY DEF OpToRel
<1> HIDE DEF R
<1>3. PICK n \in T : \A m \in T : <<m, n>> \notin R
  BY <1>1, WFMin
<1>4. \A m \in T : ~(m < n)
  BY <1>2, <1>3
<1>5. QED
  BY <1>4

\* Induction, for the set of the numbers it holds of.
LEMMA Induction ==
  ASSUME NEW T, 0 \in T, \A n \in Nat : n \in T => n + 1 \in T
  PROVE  Nat \subseteq T
<1> SUFFICES ASSUME Nat \ T # {} PROVE FALSE
  OBVIOUS
<1>1. PICK n \in Nat \ T : \A m \in Nat \ T : n <= m
  BY Least
<1>2. n # 0 /\ n - 1 \in Nat /\ n - 1 \in T
  BY <1>1
<1>3. QED  BY <1>1, <1>2

\* f has c and what each step makes of the value before it.
Iterates(f, S, c, step) ==
  f \in [Nat -> S] /\ f[0] = c /\ \A n \in Nat : f[n + 1] = step[n + 1][f[n]]

\* There is such an f: what is computed step by step from a first value.
LEMMA Recursion ==
  ASSUME NEW S, NEW c \in S, NEW step \in [Nat -> [S -> S]]
  PROVE  \E f : Iterates(f, S, c, step)
<1> DEFINE Part(n) == {g \in [0 .. n -> S] : g[0] = c /\ \A i \in 1 .. n : g[i] = step[i][g[i - 1]]}
<1>1. \A n \in Nat : \E g : g \in Part(n)
  <2> DEFINE T == {n \in Nat : \E g : g \in Part(n)}
  <2>1. 0 \in T
    <3>1. [i \in 0 .. 0 |-> c] \in Part(0)  OBVIOUS
    <3>2. QED  BY <3>1
  <2>2. ASSUME NEW n \in Nat, n \in T PROVE n + 1 \in T
    <3>1. PICK g : g \in Part(n)  BY <2>2
    <3> DEFINE h == [i \in 0 .. n + 1 |-> IF i = n + 1 THEN step[i][g[n]] ELSE g[i]]
    <3>2. h \in Part(n + 1)
      <4>1. \A i \in 0 .. n : g[i] \in S BY <3>1
      <4>2. h \in [0 .. n + 1 -> S]
        <5>1. step[n + 1][g[n]] \in S  BY <4>1
        <5>2. QED  BY <4>1, <5>1
      <4>3. h[0] = c BY <3>1
      <4>4. \A i \in 1 .. n + 1 : h[i] = step[i][h[i - 1]]
        BY <3>1
      <4>5. QED  BY <4>2, <4>3, <4>4
    <3> HIDE DEF h, Part
    <3>3. QED  BY <3>2
  <2> HIDE DEF T
  <2>3. Nat \subseteq T  BY <2>1, <2>2, Induction
  <2>4. QED  BY <2>3 DEF T
<1>2. ASSUME NEW m \in Nat, NEW n \in Nat, NEW g \in Part(m), NEW h \in Part(n), m <= n
      PROVE  \A i \in 0 .. m : g[i] = h[i]
  <2> DEFINE T == {i \in Nat : i <= m => g[i] = h[i]}
  <2>1. 0 \in T  OBVIOUS
  <2>2. ASSUME NEW i \in Nat, i \in T PROVE i + 1 \in T
    <3>1. CASE i + 1 <= m
      <4>1. g[i] = h[i] /\ i + 1 \in 1 .. m /\ i + 1 \in 1 .. n BY <1>2, <2>2, <3>1
      <4>2. g[i + 1] = step[i + 1][g[i]] /\ h[i + 1] = step[i + 1][h[i]] BY <4>1
      <4>3. QED  BY <4>1, <4>2
    <3>2. QED  BY <3>1
  <2> HIDE DEF T
  <2>3. Nat \subseteq T  BY <2>1, <2>2, Induction
  <2>4. QED  BY <2>3 DEF T
<1> DEFINE G(n) == CHOOSE g : g \in Part(n)
           f == [n \in Nat |-> G(n)[n]]
<1>3. \A n \in Nat : G(n) \in Part(n)  BY <1>1
<1>4. f \in [Nat -> S]
  <2>1. ASSUME NEW n \in Nat PROVE G(n)[n] \in S
    <3>1. G(n) \in [0 .. n -> S]  BY <1>3
    <3>2. QED  BY <3>1
  <2>2. QED  BY <2>1
<1>5. f[0] = c  BY <1>3
<1>6. ASSUME NEW n \in Nat PROVE f[n + 1] = step[n + 1][f[n]]
  <2> HIDE DEF G, Part
  <2>1. G(n) \in Part(n) /\ G(n + 1) \in Part(n + 1) BY <1>3
  <2>2. G(n)[n] = G(n + 1)[n]  BY <2>1, <1>2
  <2>3. G(n + 1)[n + 1] = step[n + 1][G(n + 1)[n]] BY <2>1 DEF Part
  <2>4. QED  BY <2>2, <2>3
<1>7. Iterates(f, S, c, step)
  <2> HIDE DEF f
  <2>1. QED  BY <1>4, <1>5, <1>6 DEF Iterates
<1>8. QED  BY <1>7

-----------------------------------------------------------------------------
(***************************************************************************)
(* Powers of two                                                           *)
(***************************************************************************)
\* Power is what its definition says.
LEMMA Powers ==
  /\ Power \in [Nat -> Nat] /\ Power[0] = 1
  /\ \A n \in Nat : Power[n + 1] = 2 * Power[n]
<1> DEFINE N == Nat
           step == [i \in Nat |-> [x \in N |-> 2 * x]]
<1>1. 1 \in N /\ step \in [Nat -> [N -> N]]
  OBVIOUS
<1>2. \A i \in Nat, x \in Nat : step[i][x] = 2 * x
  OBVIOUS
<1> HIDE DEF N, step
<1>3. PICK f : Iterates(f, N, 1, step)
  BY <1>1, Recursion
<1> USE DEF N, Iterates
<1>4. ASSUME NEW n \in Nat PROVE f[n + 1] = 2 * f[n]
  <2>1. n + 1 \in Nat /\ f[n] \in Nat  BY <1>3
  <2>2. step[n + 1][f[n]] = 2 * f[n]  BY <1>2, <2>1
  <2>3. QED  BY <1>3, <2>2
<1>5. ASSUME NEW n \in Nat PROVE f[n] = IF n = 0 THEN 1 ELSE 2 * f[n - 1]
  <2>1. CASE n = 0  BY <1>3, <2>1
  <2>2. CASE n # 0
    <3>1. n - 1 \in Nat /\ (n - 1) + 1 = n  BY <2>2
    <3>2. QED  BY <1>4, <2>2, <3>1
  <2>3. QED  BY <2>1, <2>2
<1>6. f = [n \in Nat |-> IF n = 0 THEN 1 ELSE 2 * f[n - 1]]
  BY <1>3, <1>5
<1>7. Power = [n \in Nat |-> IF n = 0 THEN 1 ELSE 2 * Power[n - 1]]
  BY <1>6 DEF Power
<1>8. ASSUME NEW n \in Nat PROVE Power[n + 1] = 2 * Power[n]
  <2>1. n + 1 \in Nat /\ n + 1 # 0 /\ (n + 1) - 1 = n
    OBVIOUS
  <2>2. QED  BY <1>7, <2>1
<1>9. Power[0] = 1
  BY <1>7
<1> DEFINE T == {n \in Nat : Power[n] \in Nat}
<1>10. 0 \in T /\ \A n \in Nat : n \in T => n + 1 \in T
  BY <1>8, <1>9
<1> HIDE DEF T
<1>11. \A n \in Nat : Power[n] \in Nat
  BY <1>10, Induction DEF T
<1>12. QED  BY <1>7, <1>8, <1>9, <1>11

\* They grow, and beyond every number.
LEMMA PowersGrow ==
  \A n \in Nat : /\ Power[n] \in Nat /\ Power[n] > n
                 /\ \A m \in 0 .. n : Power[m] <= Power[n]
<1> DEFINE T == {n \in Nat : Power[n] > n /\ \A m \in 0 .. n : Power[m] <= Power[n]}
<1>1. 0 \in T
  BY Powers
<1>2. ASSUME NEW n \in Nat, n \in T PROVE n + 1 \in T
  <2>1. Power[n + 1] = 2 * Power[n] /\ Power[n] \in Nat /\ Power[n] > n
    BY <1>2, Powers
  <2>2. ASSUME NEW m \in 0 .. n + 1 PROVE Power[m] <= Power[n + 1]
    <3>1. CASE m = n + 1  BY <2>1, <3>1
    <3>2. CASE m \in 0 .. n
      <4>1. Power[m] <= Power[n] /\ Power[m] \in Nat  BY <1>2, <3>2, Powers
      <4>2. QED  BY <2>1, <4>1
    <3>3. QED  BY <3>1, <3>2
  <2>3. QED  BY <2>1, <2>2
<1> HIDE DEF T
<1>3. Nat \subseteq T
  BY <1>1, <1>2, Induction
<1>4. QED  BY <1>3, Powers DEF T

\* The power of a sum is the product of the powers.
LEMMA PowersMultiply ==
  ASSUME NEW m \in Nat
  PROVE  \A n \in Nat : Power[m + n] = Power[m] * Power[n]
<1> DEFINE T == {n \in Nat : Power[m + n] = Power[m] * Power[n]}
<1>1. 0 \in T
  BY Powers
<1>2. ASSUME NEW n \in Nat, n \in T PROVE n + 1 \in T
  <2>1. Power[(m + n) + 1] = 2 * Power[m + n] /\ Power[n + 1] = 2 * Power[n]
    BY Powers
  <2>2. Power[m] \in Nat /\ Power[n] \in Nat
    BY Powers
  <2>3. 2 * (Power[m] * Power[n]) = Power[m] * (2 * Power[n])
    BY <2>2
  <2>4. QED  BY <1>2, <2>1, <2>3
<1> HIDE DEF T
<1>3. QED  BY <1>1, <1>2, Induction DEF T

\* A power but the first is twice the one before it.
LEMMA PowerHalves ==
  ASSUME NEW n \in Nat \ {0}
  PROVE  Power[n] = 2 * Power[n - 1] /\ Power[n - 1] \in Nat \ {0}
<1>1. PICK m \in Nat : m = n - 1  OBVIOUS
<1>2. n = m + 1  BY <1>1
<1>3. QED  BY <1>1, <1>2, Powers, PowersGrow

-----------------------------------------------------------------------------
(***************************************************************************)
(* Numbers                                                                 *)
(***************************************************************************)
\* Products grow with their factors.
LEMMA Products ==
  ASSUME NEW a \in Nat, NEW b \in Nat, NEW c \in Nat, a <= b
  PROVE  a * c <= b * c /\ c * a <= c * b /\ a * c = c * a
<1>1. PICK d \in Nat : b = a + d
  <2>1. b - a \in Nat /\ b = a + (b - a)  OBVIOUS
  <2>2. QED  BY <2>1
<1>2. b * c = a * c + d * c /\ c * b = c * a + c * d
  BY <1>1
<1>3. d * c >= 0 /\ c * d >= 0
  BY <1>1
<1>4. QED  BY <1>2, <1>3

\* A number is its quotient times the divisor, and the rest.
LEMMA Division ==
  ASSUME NEW n \in Nat, NEW s \in Nat \ {0}
  PROVE  /\ n \div s \in Nat /\ n % s \in 0 .. s - 1
         /\ n = s * (n \div s) + (n % s)
<1>1. n \div s \in Nat /\ n % s \in 0 .. s - 1
  OBVIOUS
<1>2. n = s * (n \div s) + (n % s)
  BY Z3
<1>3. QED  BY <1>1, <1>2

\* The exponent is the least with which the mantissa has Precision bits.
LEMMA Exponents ==
  ASSUME NEW h \in Int
  PROVE  /\ Exponent(h) \in Nat /\ Size(h) < Power[Precision + Exponent(h)]
         /\ Exponent(h) # 0 => Size(h) >= Power[Precision + Exponent(h) - 1]
<1> DEFINE T == {e \in Nat : Size(h) < Power[Precision + e]}
<1>1. Precision \in Nat \ {0} /\ Size(h) \in Nat
  BY BoundaryAssumption DEF Size
<1>2. Size(h) \in T
  BY <1>1, PowersGrow
<1>3. PICK e \in T : \A d \in T : e <= d
  BY <1>2, Least
<1>4. e \in 0 .. Size(h) /\ Size(h) < Power[Precision + e]
  BY <1>1, <1>2, <1>3
<1>5. e = 0 \/ Size(h) >= Power[Precision + e - 1]
  <2>1. CASE e # 0
    <3>1. e - 1 \in Nat /\ e - 1 \notin T /\ Precision + (e - 1) = Precision + e - 1
      BY <1>1, <1>3, <2>1
    <3>2. Precision + (e - 1) \in Nat  BY <1>1, <3>1
    <3>3. Power[Precision + (e - 1)] \in Nat  BY <3>2, Powers
    <3>4. QED  BY <1>1, <3>1, <3>3
  <2>2. QED  BY <2>1
<1>6. QED  BY <1>1, <1>4, <1>5 DEF Exponent

\* A double is its step times its mantissa, which is cut off or one more; a
\* number that is a multiple of the step is its own double.
LEMMA Mantissas ==
  ASSUME NEW h \in Int, NEW s, s = Power[Exponent(h)]
  PROVE  /\ s \in Nat \ {0} /\ Double(h) \in Int
         /\ \E m \in Nat : m >= Size(h) \div s /\ Size(Double(h)) = s * m
         /\ Size(h) % s = 0 => Double(h) = h
<1> DEFINE n == Size(h)
           q == n \div s
           up == 2 * (n % s) > s \/ (2 * (n % s) = s /\ q % 2 = 1)
           m == IF up THEN q + 1 ELSE q
<1>1. n \in Nat /\ s \in Nat \ {0}
  BY Exponents, PowersGrow DEF Size
<1>2. q \in Nat /\ n % s \in 0 .. s - 1 /\ n = s * q + (n % s)
  BY <1>1, Division
<1>3. Double(h) = IF h < 0 THEN -(s * m) ELSE s * m
  BY DEF Double
<1>4. m \in Nat /\ m >= q
  BY <1>2
<1>5. s * m \in Nat
  BY <1>1, <1>4
<1>6. Double(h) \in Int /\ Size(Double(h)) = s * m
  BY <1>3, <1>5 DEF Size
<1>7. ASSUME n % s = 0 PROVE Double(h) = h
  <2>1. 2 * (n % s) = 0  BY <1>7
  <2>2. ~up  BY <1>1, <2>1
  <2>3. m = q  BY <2>2
  <2>4. s * m = n
    <3>1. s * q \in Int  BY <1>1, <1>2
    <3>2. n = s * q  BY <1>2, <1>7, <3>1
    <3>3. QED  BY <2>3, <3>2
  <2>5. QED  BY <1>3, <2>4 DEF Size
<1>8. QED  BY <1>1, <1>4, <1>6, <1>7

\* A number whose size is a mantissa is its own double.
LEMMA SmallDoubles ==
  ASSUME NEW h \in Int, Size(h) < Power[Precision]
  PROVE  Double(h) = h
<1>1. Precision \in Nat  BY BoundaryAssumption
<1>2. Exponent(h) = 0
  <2> SUFFICES ASSUME Exponent(h) # 0 PROVE FALSE
    OBVIOUS
  <2>1. Exponent(h) - 1 \in Nat  BY Exponents
  <2>2. Power[Precision] <= Power[Precision + Exponent(h) - 1]
    BY <1>1, <2>1, PowersGrow
  <2>3. Size(h) \in Int /\ Power[Precision] \in Int /\ Power[Precision + Exponent(h) - 1] \in Int
    BY <1>1, <2>1, Powers DEF Size
  <2>4. QED  BY <2>2, <2>3, Exponents
<1>3. Power[Exponent(h)] = 1 /\ Size(h) % 1 = 0
  BY <1>2, Powers DEF Size
<1>4. QED  BY <1>3, Mantissas

\* A larger one has an even double that is no smaller than the largest mantissa, or
\* than twice that; up to there even numbers are their own doubles.
LEMMA LargeDoubles ==
  ASSUME NEW h \in Int, Size(h) >= Power[Precision]
  PROVE  /\ Whole(Double(h)) /\ Size(Double(h)) >= Power[Precision]
         /\ Size(h) >= 2 * Power[Precision] => Size(Double(h)) >= 2 * Power[Precision]
         /\ Size(h) < 2 * Power[Precision] /\ Whole(h) => Double(h) = h
<1> DEFINE e == Exponent(h)
           s == Power[e]
           r == Power[e - 1]
           n == Size(h)
           q == n \div s
           p == Power[Precision - 1]
<1>1. Precision - 1 \in Nat /\ Precision \in Nat
  BY BoundaryAssumption
<1>2. n \in Nat /\ e \in Nat /\ s \in Nat \ {0} /\ p \in Nat \ {0}
  BY <1>1, Exponents, PowersGrow DEF Size
<1>3. Power[Precision] = 2 * p
  BY <1>1, Powers
<1>4. n < Power[Precision + e] /\ (e # 0 => n >= Power[Precision + e - 1])
  BY Exponents
<1>5. PICK m \in Nat : m >= q /\ Size(Double(h)) = s * m
  BY Mantissas
<1>6. Double(h) \in Int /\ (n % s = 0 => Double(h) = h)
  BY Mantissas
<1>7. q \in Nat /\ n % s \in 0 .. s - 1 /\ n = s * q + (n % s)
  BY <1>2, Division
<1> HIDE DEF n, e, q
<1>8. e >= 1
  <2>1. CASE e = 0
    <3>1. Precision + e = Precision  BY <1>1, <2>1
    <3>2. QED  BY <1>1, <1>2, <1>4, <3>1, Powers DEF n
  <2>2. QED  BY <1>2, <2>1
<1>9. n >= p * s
  <2>1. Precision + e - 1 = (Precision - 1) + e  BY <1>1, <1>2
  <2>2. Power[(Precision - 1) + e] = p * s  BY <1>1, <1>2, PowersMultiply
  <2>3. QED  BY <1>2, <1>4, <1>8, <2>1, <2>2
<1>10. s = 2 * r /\ r \in Nat \ {0}
  BY <1>2, <1>8, PowerHalves
<1> HIDE DEF s, r, p
<1>11. q >= p
  <2> SUFFICES ASSUME q + 1 <= p PROVE FALSE
    BY <1>2, <1>7
  <2>1. s * (q + 1) <= p * s  BY <1>2, <1>7, Products
  <2>2. s * (q + 1) = s * q + s  BY <1>2, <1>7
  <2>3. s * q \in Nat  BY <1>2, <1>7
  <2>4. p * s \in Nat  BY <1>2
  <2>5. QED  BY <1>2, <1>7, <1>9, <2>1, <2>2, <2>3, <2>4
<1>12. Size(Double(h)) >= p * s
  BY <1>2, <1>5, <1>7, <1>11, Products
<1>13. p * s = 2 * (p * r) /\ p * s \in Nat /\ p * r \in Nat
  BY <1>2, <1>10
<1>14. p * r >= p
  <2>1. p * 1 <= p * r  BY <1>2, <1>10, Products
  <2>2. QED  BY <1>2, <2>1
<1>15. Size(Double(h)) \in Nat /\ Size(Double(h)) >= Power[Precision]
  BY <1>2, <1>3, <1>5, <1>6, <1>12, <1>13, <1>14 DEF Size
<1>16. Whole(Double(h))
  <2>1. s * m = 2 * (r * m) /\ r * m \in Nat  BY <1>5, <1>10
  <2>2. QED  BY <1>5, <1>6, <2>1 DEF Whole, Size
<1>17. ASSUME n >= 2 * Power[Precision] PROVE Size(Double(h)) >= 2 * Power[Precision]
  <2>1. e # 1
    <3>1. Power[Precision + 1] = 2 * Power[Precision]  BY <1>1, Powers
    <3>2. QED  BY <1>2, <1>3, <1>4, <1>17, <3>1
  <2>2. r >= 2
    <3>1. e - 1 \in Nat \ {0}  BY <1>2, <1>8, <2>1
    <3>2. r = 2 * Power[(e - 1) - 1] /\ Power[(e - 1) - 1] \in Nat \ {0}
      BY <3>1, PowerHalves DEF r
    <3>3. QED  BY <3>2
  <2>3. p * 2 <= p * r  BY <1>2, <1>10, <2>2, Products
  <2>4. QED  BY <1>2, <1>3, <1>12, <1>13, <1>15, <2>3
<1>18. ASSUME n < 2 * Power[Precision], Whole(h) PROVE Double(h) = h
  <2>1. n < 4 * p  BY <1>2, <1>3, <1>18
  <2>2. e = 1
    <3> SUFFICES ASSUME e >= 2 PROVE FALSE
      BY <1>2, <1>8
    <3>1. e - 1 \in Nat \ {0}  BY <1>2
    <3>2. r = 2 * Power[(e - 1) - 1] /\ Power[(e - 1) - 1] \in Nat \ {0}
      BY <3>1, PowerHalves DEF r
    <3>3. r >= 2  BY <3>2
    <3>4. p * 2 <= p * r  BY <1>2, <1>10, <3>3, Products
    <3>5. QED  BY <1>2, <1>9, <1>13, <2>1, <3>4
  <2>3. s = 2  BY <2>2, Powers DEF s
  <2>4. n % 2 = 0  BY <1>2, <1>18 DEF n, Whole, Size
  <2>5. QED  BY <1>6, <2>3, <2>4
<1>19. QED
  BY <1>15, <1>16, <1>17, <1>18 DEF n

\* A number that passes is sent as its double, an integer as itself.
LEMMA CheckedNumbers ==
  ASSUME NEW h \in Int
  PROVE  /\ Checked(h) = Error \/ Checked(h) = Number(Double(h))
         /\ Whole(h) /\ ~Failed(Checked(h)) => Double(h) = h
<1>1. Double(h) \in Int /\ Size(h) \in Nat /\ Size(Double(h)) \in Nat
  BY Mantissas DEF Size
<1>2. Precision \in Nat /\ Power[Precision] \in Nat
  BY BoundaryAssumption, Powers
<1>3. Checked(h) = Error \/ Checked(h) = Number(Double(h))
  BY DEF Checked
<1>4. ASSUME Whole(h), ~Failed(Checked(h)) PROVE Double(h) = h
  <2>1. CASE Size(h) < Power[Precision]
    BY <2>1, SmallDoubles
  <2>2. CASE Size(h) >= Power[Precision]
    <3>1. Whole(Double(h))  BY <2>2, LargeDoubles
    <3>2. SafeInteger(Double(h))  BY <1>4, <3>1 DEF Checked, Failed, Error
    <3>3. Size(Double(h)) < 2 * Power[Precision]  BY <3>2 DEF SafeInteger
    <3>4. Size(h) < 2 * Power[Precision]  BY <1>1, <1>2, <2>2, <3>3, LargeDoubles
    <3>5. QED  BY <1>4, <2>2, <3>4, LargeDoubles
  <2>3. QED  BY <1>1, <1>2, <2>1, <2>2
<1>5. QED  BY <1>3, <1>4

\* An integer that is read is a number or its digits, and one written as such can
\* be read.
LEMMA ParsedNumbers ==
  ASSUME NEW token \in [value : Int, integer : BOOLEAN], Whole(token.value)
  PROVE  /\ \/ Parsed(token) = Error \/ Parsed(token) = Text(token.value)
            \/ /\ Parsed(token) = Number(token.value)
               /\ Double(token.value) = token.value /\ ~Failed(Checked(token.value))
         /\ token.integer => ~Failed(Parsed(token))
<1> DEFINE h == token.value
<1>1. h \in Int  OBVIOUS
<1>2. CASE token.integer /\ ~(Finite(h) /\ SafeInteger(Double(h)))
  BY <1>2 DEF Parsed, Failed, Text
<1>3. CASE ~(token.integer /\ ~(Finite(h) /\ SafeInteger(Double(h))))
  <2>1. Parsed(token) = Checked(h)  BY <1>3 DEF Parsed
  <2>2. token.integer => Checked(h) = Number(Double(h))  BY <1>3 DEF Checked
  <2>3. QED  BY <1>1, <2>1, <2>2, CheckedNumbers DEF Failed, Number, Error
<1>4. QED  BY <1>2, <1>3

\* An amount that is burnt is the integer it is, if that is unsigned and fits.
LEMMA UnsignedNumbers ==
  ASSUME NEW amount, NEW h \in Int, Whole(h),
         \/ amount = Text(h)
         \/ amount = Number(h) /\ Double(h) = h /\ ~Failed(Checked(h))
  PROVE  Unsigned(amount) = IF h >= 0 /\ h < 2 * Power[Width] THEN Number(h) ELSE Error
BY DEF Unsigned, Text, Number

\* In whatever form it is given, an integer is burnt as itself or not at all.
LEMMA UnsignedIsExact ==
  ASSUME NEW amount, amount.value \in Int, ~Failed(Unsigned(amount))
  PROVE  /\ amount.type \in {"number", "text"}
         /\ Unsigned(amount).type = "number"
         /\ Whole(amount.value) => Unsigned(amount).value = amount.value
<1>1. amount.type \in {"number", "text"}
  BY DEF Unsigned, Failed, Error
<1>2. CASE amount.type = "number"
  <2>1. ~Failed(Checked(amount.value)) /\ Unsigned(amount) = Number(Double(amount.value))
    BY <1>2 DEF Unsigned, Failed, Error
  <2>2. QED  BY <1>1, <2>1, CheckedNumbers DEF Number
<1>3. CASE amount.type = "text"
  BY <1>3 DEF Unsigned, Failed, Error, Number
<1>4. QED  BY <1>1, <1>2, <1>3

-----------------------------------------------------------------------------
(***************************************************************************)
(* Requests                                                                *)
(***************************************************************************)
\* Values of fields, and requests of any such fields.
Value == [type : {"number", "text", "word", "hex", "undefined", "null"}, value : Int]

IsRequest(r) ==
  r.type \in {"object", "array"} /\ \A key \in DOMAIN r.value : r.value[key] \in Value

\* A byte is a number that no rounding changes.
LEMMA BytesAreExact ==
  ASSUME NEW v \in Value, IsByte(v)
  PROVE  v.value \in 0 .. 2 * (Power[Byte] - 1)
<1> DEFINE h == v.value
           b == Power[Byte]
<1>1. h \in Int /\ Double(h) \in Int /\ Whole(Double(h)) /\ Double(h) >= 0 /\ Double(h) < 2 * b
  BY Mantissas DEF IsByte, Value
<1>2. Byte \in Nat /\ Byte + 1 \in 0 .. Precision /\ Precision \in Nat
  BY BoundaryAssumption
<1>3. 2 * b <= Power[Precision] /\ b \in Nat
  <2>1. Power[Byte + 1] = 2 * b /\ Power[Byte + 1] <= Power[Precision] /\ b \in Nat
    BY <1>2, Powers, PowersGrow
  <2>2. QED  BY <2>1
<1>4. Power[Precision] \in Nat  BY <1>2, Powers
<1>5. Size(h) < Power[Precision]
  <2>1. Size(Double(h)) < Power[Precision]
    BY <1>1, <1>3, <1>4 DEF Size
  <2>2. QED
    BY <1>1, <1>4, <2>1, LargeDoubles DEF Size
<1>6. Double(h) = h  BY <1>1, <1>5, SmallDoubles
<1> HIDE DEF h, b
<1>7. h >= 0 /\ h < 2 * b /\ h % 2 = 0  BY <1>1, <1>6 DEF Whole
<1>8. h \in 0 .. 2 * (b - 1)
  BY <1>1, <1>3, <1>7
<1>9. QED  BY <1>8 DEF h, b

\* What is sent has the fields with a value, each as it was or as its double.
LEMMA StringifiedFields ==
  ASSUME NEW r, IsRequest(r), ~Failed(Stringified(r))
  PROVE  LET sent == Stringified(r).value
         IN  /\ DOMAIN sent = {key \in DOMAIN r.value : r.value[key] # Undefined}
             /\ \A key \in DOMAIN sent :
                  Whole(r.value[key].value) => sent[key].value = r.value[key].value
<1> DEFINE D == {key \in DOMAIN r.value : r.value[key] # Undefined}
           sent == [key \in D |-> IF r.value[key].type = "number"
                                    THEN Checked(r.value[key].value)
                                    ELSE r.value[key]]
<1>1. Stringified(r) = Object(sent) /\ \A key \in DOMAIN r.value :
        r.value[key].type = "number" => ~Failed(Checked(r.value[key].value))
  BY DEF Stringified, Failed, Error
<1>2. Stringified(r).value = sent
  BY <1>1 DEF Object
<1>3. ASSUME NEW key \in D, Whole(r.value[key].value)
      PROVE  sent[key].value = r.value[key].value
  <2>1. r.value[key].value \in Int  BY DEF IsRequest, Value
  <2>2. CASE r.value[key].type = "number"
    BY <1>1, <1>3, <2>1, <2>2, CheckedNumbers DEF Number, Failed, Error
  <2>3. QED  BY <2>2
<1>4. QED  BY <1>2, <1>3

\* So it is with what a burn sends, whose amounts besides are unsigned, and whose
\* confirmations are a byte.
LEMMA RewrittenFields ==
  ASSUME NEW r, IsRequest(r), DOMAIN r.value \subseteq BurnKey, ~Failed(Rewritten(r))
  PROVE  LET sent == Rewritten(r).value
         IN  /\ DOMAIN sent = {key \in DOMAIN r.value : r.value[key] # Undefined}
             /\ \A key \in DOMAIN sent :
                  r.value[key].type \in {"number", "text"} /\ Whole(r.value[key].value) =>
                    sent[key].value = r.value[key].value
             /\ sent["min_confirmations"].value \in 0 .. 2 * (Power[Byte] - 1)
<1> DEFINE amounts == {"amount", "fee_rate"}
           all == [key \in BurnKey |-> IF key \in amounts THEN Unsigned(Field(r, key))
                                                          ELSE Field(r, key)]
           D == {key \in BurnKey : all[key] # Undefined}
           sent == [key \in D |-> all[key]]
<1>1. /\ Rewritten(r) = Object(sent)
      /\ \A key \in amounts : ~Failed(all[key])
      /\ IsByte(all["min_confirmations"])
  BY DEF Rewritten, Failed, Error
<1>2. Rewritten(r).value = sent
  BY <1>1 DEF Object
<1>3. \A key \in BurnKey : Field(r, key) \in Value
  BY DEF Field, IsRequest, Value, Undefined
<1>4. amounts \subseteq BurnKey /\ "min_confirmations" \in BurnKey \ amounts
  BY DEF BurnKey
<1>5. ASSUME NEW key \in BurnKey
      PROVE  /\ all[key] # Undefined <=> key \in DOMAIN r.value /\ r.value[key] # Undefined
             /\ /\ key \in DOMAIN r.value /\ r.value[key].type \in {"number", "text"}
                /\ Whole(r.value[key].value)
                => all[key].value = r.value[key].value
  <2>1. CASE key \in amounts
    <3>1. /\ Field(r, key).type \in {"number", "text"} /\ all[key].type = "number"
          /\ Whole(Field(r, key).value) => all[key].value = Field(r, key).value
      BY <1>1, <1>3, <2>1, UnsignedIsExact DEF Value
    <3>2. Field(r, key) # Undefined /\ all[key] # Undefined
      BY <3>1 DEF Undefined
    <3>3. key \in DOMAIN r.value /\ Field(r, key) = r.value[key]
      BY <3>2 DEF Field
    <3>4. QED  BY <3>1, <3>2, <3>3
  <2>2. CASE key \notin amounts
    BY <2>2 DEF Field
  <2>3. QED  BY <2>1, <2>2
<1> HIDE DEF all
<1>6. D = {key \in DOMAIN r.value : r.value[key] # Undefined}
  BY <1>5
<1>7. \A key \in D : sent[key] = all[key]
  OBVIOUS
<1>8. "min_confirmations" \in D /\ all["min_confirmations"].value \in 0 .. 2 * (Power[Byte] - 1)
  <2>1. all["min_confirmations"] \in Value
    BY <1>3, <1>4 DEF all
  <2>2. all["min_confirmations"].type = "number"
    BY <1>1 DEF IsByte
  <2>3. QED  BY <1>1, <1>4, <2>1, <2>2, BytesAreExact DEF Undefined
<1> HIDE DEF D
<1>9. /\ DOMAIN sent = D
      /\ \A key \in DOMAIN sent :
           r.value[key].type \in {"number", "text"} /\ Whole(r.value[key].value) =>
             sent[key].value = r.value[key].value
      /\ sent["min_confirmations"].value \in 0 .. 2 * (Power[Byte] - 1)
  BY <1>5, <1>6, <1>7, <1>8
<1>10. QED  BY <1>2, <1>6, <1>9

\* A usual burn of an amount sends just what is sent of that amount.
LEMMA BurntAmounts ==
  ASSUME NEW amount
  PROVE  Burnt(amount) = Unsigned(amount)
<1> DEFINE r == Object([key \in BurnKey |-> IF key = "amount" THEN amount ELSE Usual[key]])
           amounts == {"amount", "fee_rate"}
           all == [key \in BurnKey |-> IF key \in amounts THEN Unsigned(Field(r, key))
                                                          ELSE Field(r, key)]
<1>1. /\ r.type = "object" /\ DOMAIN r.value = BurnKey /\ r.value["amount"] = amount
      /\ r.value["asset_id"] = Word(1) /\ r.value["burn_recipient"] = Null
      /\ r.value["min_confirmations"] = Number(2) /\ r.value["fee_rate"] = Number(2)
  BY DEF Object, Usual, BurnKey, PaymentKey
<1>2. /\ Field(r, "amount") = amount /\ Field(r, "asset_id") = Word(1)
      /\ Field(r, "burn_recipient") = Null
      /\ Field(r, "min_confirmations") = Number(2) /\ Field(r, "fee_rate") = Number(2)
  BY <1>1 DEF Field, BurnKey
<1>3. /\ {Byte, Precision, Width, Magnitude} \subseteq Nat \ {0}
      /\ 2 \in 0 .. Precision /\ 2 \in 0 .. Width /\ 2 \in 0 .. Magnitude /\ 1 \in 0 .. Byte
  BY BoundaryAssumption
<1>4. Power[1] = 2 /\ Power[2] = 4
  <2>1. Power[0 + 1] = 2 * Power[0] /\ Power[1 + 1] = 2 * Power[1] /\ Power[0] = 1
    BY Powers
  <2>2. QED  BY <2>1
<1>5. /\ Power[Byte] \in Nat /\ Power[Byte] >= 2
      /\ Power[Precision] \in Nat /\ Power[Precision] >= 4
      /\ Power[Width] \in Nat /\ Power[Width] >= 4
      /\ Power[Magnitude] \in Nat /\ Power[Magnitude] >= 4
  BY <1>3, <1>4, PowersGrow
<1>6. Double(2) = 2
  BY <1>5, SmallDoubles DEF Size
<1>7. Finite(2) /\ Whole(2) /\ SafeInteger(2) /\ ~Failed(Checked(2))
  BY <1>5, <1>6 DEF Finite, Whole, SafeInteger, Checked, Size, Failed, Number
<1>8. Unsigned(Number(2)) = Number(2)
  BY <1>5, <1>6, <1>7, UnsignedNumbers
<1>9. IsByte(Number(2)) /\ IsText(Word(1)) /\ IsRecipient(Null)
  BY <1>5, <1>6, <1>7 DEF IsByte, IsText, IsRecipient, Number, Word
<1>10. Unsigned(amount) = Error \/ Unsigned(amount).type = "number"
  BY DEF Unsigned, Number
<1>11. all["amount"] = Unsigned(amount) /\ all["fee_rate"] = Number(2)
       /\ all["asset_id"] = Word(1) /\ all["min_confirmations"] = Number(2)
       /\ all["burn_recipient"] = Null
  BY <1>2, <1>8 DEF BurnKey
<1>12. BurnRequest(r) = Rewritten(r)
  BY <1>1 DEF BurnRequest
<1>13. CASE Failed(Unsigned(amount))
  <2>1. Unsigned(amount) = Error  BY <1>10, <1>13 DEF Failed
  <2>2. Rewritten(r) = Error  BY <1>11, <1>13 DEF Rewritten
  <2>3. QED  BY <1>12, <2>1, <2>2 DEF Burnt, Failed, Error
<1>14. CASE ~Failed(Unsigned(amount))
  <2>1. Rewritten(r) = Object([key \in {k \in BurnKey : all[k] # Undefined} |-> all[key]])
    BY <1>1, <1>9, <1>11, <1>14 DEF Rewritten, Failed, Number
  <2>2. all["amount"] # Undefined
    BY <1>10, <1>11, <1>14 DEF Undefined, Failed, Error
  <2>3. "amount" \in {k \in BurnKey : all[k] # Undefined}
    BY <2>2 DEF BurnKey
  <2>4. Rewritten(r).value["amount"] = all["amount"] /\ ~Failed(Rewritten(r))
    <3> HIDE DEF all
    <3>1. QED  BY <2>1, <2>3 DEF Object, Failed
  <2>5. QED  BY <1>11, <1>12, <2>4 DEF Burnt
<1>15. QED  BY <1>13, <1>14

-----------------------------------------------------------------------------
(***************************************************************************)
(* Sums                                                                    *)
(***************************************************************************)
\* g has the sums of the first numbers of d, each from the one before it.
IsSum(g, n, d) == g = [i \in 0 .. n |-> IF i = 0 THEN 0 ELSE g[i - 1] + d[i]]

\* There are the sums of all the numbers d has.
LEMMA Series ==
  ASSUME NEW d, d \in [Nat -> Nat]
  PROVE  \E f \in [Nat -> Nat] : f[0] = 0 /\ \A n \in Nat : f[n + 1] = f[n] + d[n + 1]
<1> DEFINE N == Nat
           step == [i \in Nat |-> [x \in N |-> x + d[i]]]
<1>1. 0 \in N /\ step \in [Nat -> [N -> N]]
  OBVIOUS
<1>2. \A i \in Nat, x \in Nat : step[i][x] = x + d[i]
  OBVIOUS
<1> HIDE DEF N, step
<1>3. PICK f : Iterates(f, N, 0, step)
  BY <1>1, Recursion
<1> USE DEF N, Iterates
<1>4. ASSUME NEW n \in Nat PROVE f[n + 1] = f[n] + d[n + 1]
  <2>1. n + 1 \in Nat /\ f[n] \in Nat  BY <1>3
  <2>2. step[n + 1][f[n]] = f[n] + d[n + 1]  BY <1>2, <2>1
  <2>3. QED  BY <1>3, <2>2
<1>5. QED  BY <1>3, <1>4

\* There are the sums of finitely many.
LEMMA SumsExist ==
  ASSUME NEW n \in Nat, NEW d \in [1 .. n -> Nat]
  PROVE  \E g : IsSum(g, n, d)
<1> DEFINE all == [i \in Nat |-> IF i \in 1 .. n THEN d[i] ELSE 0]
<1>1. all \in [Nat -> Nat] /\ \A i \in 1 .. n : all[i] = d[i]
  OBVIOUS
<1> HIDE DEF all
<1>2. PICK f \in [Nat -> Nat] : f[0] = 0 /\ \A i \in Nat : f[i + 1] = f[i] + all[i + 1]
  BY <1>1, Series
<1> DEFINE g == [i \in 0 .. n |-> f[i]]
<1>5. ASSUME NEW i \in 0 .. n PROVE g[i] = IF i = 0 THEN 0 ELSE g[i - 1] + d[i]
  <2>1. CASE i = 0  BY <1>2, <2>1
  <2>2. CASE i # 0
    <3>1. i - 1 \in Nat /\ (i - 1) + 1 = i /\ i \in 1 .. n /\ i - 1 \in 0 .. n
      BY <2>2
    <3>2. f[i] = f[i - 1] + all[i]
      BY <1>2, <3>1
    <3>3. QED  BY <1>1, <2>2, <3>1, <3>2
  <2>3. QED  BY <2>1, <2>2
<1>6. g = [i \in 0 .. n |-> IF i = 0 THEN 0 ELSE g[i - 1] + d[i]]
  <2> HIDE DEF g
  <2>1. g = [i \in 0 .. n |-> g[i]]  BY DEF g
  <2>2. QED  BY <1>5, <2>1
<1>7. QED  BY <1>6 DEF IsSum

\* Sums grow.
LEMMA Sums ==
  ASSUME NEW n \in Nat, NEW d \in [1 .. n -> Nat], NEW g, IsSum(g, n, d)
  PROVE  /\ g \in [0 .. n -> Nat] /\ g[0] = 0
         /\ \A i \in 1 .. n : g[i] = g[i - 1] + d[i]
         /\ \A i \in 0 .. n : \A j \in 0 .. i : g[j] <= g[i]
<1>1. g[0] = 0 /\ DOMAIN g = 0 .. n /\ g = [i \in 0 .. n |-> g[i]]
  BY DEF IsSum
<1>2. ASSUME NEW i \in 1 .. n PROVE g[i] = g[i - 1] + d[i]
  <2>1. i \in 0 .. n /\ i # 0  OBVIOUS
  <2>2. QED  BY <2>1 DEF IsSum
<1> DEFINE T == {i \in Nat :
                   i <= n => g[i] \in Nat /\ \A j \in 0 .. i : g[j] \in Nat /\ g[j] <= g[i]}
<1>3. 0 \in T
  BY <1>1
<1>4. ASSUME NEW i \in Nat, i \in T PROVE i + 1 \in T
  <2> SUFFICES ASSUME i + 1 <= n
               PROVE  g[i + 1] \in Nat /\ \A j \in 0 .. i + 1 : g[j] \in Nat /\ g[j] <= g[i + 1]
    OBVIOUS
  <2>1. i + 1 \in 1 .. n /\ (i + 1) - 1 = i /\ d[i + 1] \in Nat
    OBVIOUS
  <2>2. g[i + 1] = g[i] + d[i + 1]
    BY <1>2, <2>1
  <2>3. g[i] \in Nat /\ \A j \in 0 .. i : g[j] \in Nat /\ g[j] <= g[i]
    BY <1>4
  <2>4. \A j \in 0 .. i + 1 : j \in 0 .. i \/ j = i + 1
    OBVIOUS
  <2>5. g[i + 1] \in Nat /\ g[i] <= g[i + 1]
    BY <2>1, <2>2, <2>3
  <2>6. QED  BY <2>3, <2>4, <2>5
<1> HIDE DEF T
<1>5. Nat \subseteq T
  BY <1>3, <1>4, Induction
<1>6. \A i \in 0 .. n : g[i] \in Nat /\ \A j \in 0 .. i : g[j] <= g[i]
  BY <1>5 DEF T
<1>7. QED  BY <1>1, <1>2, <1>6

-----------------------------------------------------------------------------
(***************************************************************************)
(* Texts                                                                   *)
(***************************************************************************)
\* What is left of a text from a unit on, after so many bytes, is well-formed.
Remains(units, share, limit, i, bytes) ==
  \/ i > Len(units)
  \/ /\ \A j \in i .. Len(units) :
          /\ units[j] = "high" => j < Len(units) /\ units[j + 1] = "low"
          /\ units[j] = "low" => j > i /\ units[j - 1] = "high"
     /\ bytes + share[Len(units)] - share[i - 1] <= limit

\* The share of a text is the sum of its units' shares.
LEMMA Shares ==
  ASSUME NEW units \in Seq(Unit)
  PROVE  LET n == Len(units)
             share == CHOOSE g : g = [i \in 0 .. n |->
                        IF i = 0 THEN 0 ELSE g[i - 1] + Share(units[i])]
         IN  /\ share \in [0 .. n -> Nat] /\ share[0] = 0
             /\ \A i \in 1 .. n : share[i] = share[i - 1] + Share(units[i])
             /\ \A i \in 0 .. n : \A j \in 0 .. i : share[j] <= share[i]
<1> DEFINE n == Len(units)
           d == [i \in 1 .. n |-> Share(units[i])]
           Eq(g) == g = [i \in 0 .. n |-> IF i = 0 THEN 0 ELSE g[i - 1] + Share(units[i])]
           share == CHOOSE g : Eq(g)
<1>1. n \in Nat /\ d \in [1 .. n -> Nat]
  BY DEF Share
<1>2. \A g : IsSum(g, n, d) <=> Eq(g)
  <2> TAKE g
  <2>1. \A i \in 0 .. n : (IF i = 0 THEN 0 ELSE g[i - 1] + d[i])
                            = (IF i = 0 THEN 0 ELSE g[i - 1] + Share(units[i]))
    BY <1>1
  <2>2. QED  BY <2>1 DEF IsSum
<1> HIDE DEF n, d
<1>3. \E g : Eq(g)
  BY <1>1, <1>2, SumsExist
<1> HIDE DEF Eq
<1>4. Eq(share)
  BY <1>3
<1>5. IsSum(share, n, d)
  BY <1>2, <1>4
<1>6. /\ share \in [0 .. n -> Nat] /\ share[0] = 0
      /\ \A i \in 1 .. n : share[i] = share[i - 1] + d[i]
      /\ \A i \in 0 .. n : \A j \in 0 .. i : share[j] <= share[i]
  <2> HIDE DEF share
  <2>1. QED  BY <1>1, <1>5, Sums
<1>7. \A i \in 1 .. n : d[i] = Share(units[i])
  BY DEF d
<1>8. QED  BY <1>6, <1>7 DEF n, Eq

\* That is decided at the first unit, and after it or, of a pair, after both.
LEMMA RemainsStep ==
  ASSUME NEW units \in Seq(Unit), NEW limit \in Nat, NEW bytes \in Int,
         NEW n, n = Len(units), NEW share \in [0 .. n -> Nat],
         \A i \in 1 .. n : share[i] = share[i - 1] + Share(units[i]),
         \A i \in 0 .. n : \A j \in 0 .. i : share[j] <= share[i],
         NEW i \in 1 .. n
  PROVE  LET next == IF units[i] = "high" THEN i + 2 ELSE i + 1
             more == Bytes(units[i])
         IN  Remains(units, share, limit, i, bytes) <=>
               /\ units[i] # "low"
               /\ units[i] = "high" => i < n /\ units[i + 1] = "low"
               /\ bytes + more <= limit
               /\ Remains(units, share, limit, next, bytes + more)
<1> DEFINE Pair(j, from) ==
             /\ units[j] = "high" => j < n /\ units[j + 1] = "low"
             /\ units[j] = "low" => j > from /\ units[j - 1] = "high"
<1>1. n \in Nat /\ \A j \in 1 .. n : units[j] \in Unit
  OBVIOUS
<1>2. \A j \in 0 .. n : share[j] \in Nat /\ share[j] <= share[n]
  <2>1. n \in 0 .. n  BY <1>1
  <2>2. QED  BY <2>1
<1>3. i - 1 \in 0 .. n /\ i \in 0 .. n /\ n \in 0 .. n /\ share[i] = share[i - 1] + Share(units[i])
  OBVIOUS
<1>4. \A j \in i .. n : j = i \/ j \in i + 1 .. n
  BY <1>1
<1>5. Remains(units, share, limit, i, bytes) <=>
        (\A j \in i .. n : Pair(j, i)) /\ bytes + share[n] - share[i - 1] <= limit
  BY <1>1 DEF Remains
<1>6. CASE units[i] = "low"
  <2>1. ~Pair(i, i) /\ i \in i .. n  BY <1>1, <1>6
  <2>2. QED  BY <1>5, <1>6, <2>1
<1>7. CASE units[i] = "high"
  <2> SUFFICES ASSUME i < n, units[i + 1] = "low"
               PROVE  Remains(units, share, limit, i, bytes) <=>
                        bytes + 4 <= limit /\ Remains(units, share, limit, i + 2, bytes + 4)
    <3>1. i \in i .. n  BY <1>1
    <3>2. QED  BY <1>5, <1>7, <3>1 DEF Bytes
  <2>1. i + 1 \in 1 .. n /\ i + 1 \in 0 .. n /\ (i + 1) - 1 = i  BY <1>1
  <2>2. share[i + 1] = share[i] + 2 /\ share[i] = share[i - 1] + 2
    BY <1>3, <1>7, <2>1 DEF Share
  <2>3. (\A j \in i .. n : Pair(j, i)) <=> (\A j \in i + 2 .. n : Pair(j, i + 2))
    <3>1. Pair(i, i) /\ Pair(i + 1, i)  BY <1>7, <2>1
    <3>2. ASSUME NEW j \in i + 2 .. n PROVE Pair(j, i) <=> Pair(j, i + 2)
      <4>1. CASE j = i + 2
        <5>1. j - 1 = i + 1 BY <1>1, <4>1
        <5>2. QED  BY <5>1
      <4>2. CASE j # i + 2
        BY <1>1, <4>2
      <4>3. QED  BY <4>1, <4>2
    <3>3. \A j \in i .. n : j = i \/ j = i + 1 \/ j \in i + 2 .. n  BY <1>1
    <3>4. i + 2 .. n \subseteq i .. n  BY <1>1
    <3> HIDE DEF Pair
    <3>5. QED  BY <3>1, <3>2, <3>3, <3>4
  <2>4. share[n] >= share[i + 1]  BY <1>2, <2>1
  <2>5. Remains(units, share, limit, i + 2, bytes + 4) <=>
          \/ i + 2 > n
          \/ (\A j \in i + 2 .. n : Pair(j, i + 2)) /\ bytes + 4 + share[n] - share[i + 1] <= limit
    <3>1. (i + 2) - 1 = i + 1  OBVIOUS
    <3>2. QED  BY <3>1 DEF Remains
  <2> HIDE DEF Pair
  <2>6. CASE i + 2 > n
    <3>1. n = i + 1 /\ \A j \in i + 2 .. n : Pair(j, i + 2)  BY <1>1, <2>1, <2>6
    <3>2. share[n] = share[i - 1] + 4  BY <1>2, <1>3, <2>2, <3>1
    <3>3. bytes + share[n] - share[i - 1] = bytes + 4
      <4>1. share[i - 1] \in Nat  BY <1>2, <1>3
      <4>2. QED  BY <3>2, <4>1
    <3>4. QED  BY <1>5, <2>3, <2>5, <2>6, <3>1, <3>3
  <2>7. CASE i + 2 <= n
    <3>1. /\ bytes + share[n] - share[i - 1] = bytes + 4 + share[n] - share[i + 1]
          /\ bytes + 4 <= bytes + 4 + share[n] - share[i + 1]
      <4>1. /\ share[i - 1] \in Nat /\ share[i] \in Nat
            /\ share[i + 1] \in Nat /\ share[n] \in Nat
        BY <1>2, <1>3, <2>1
      <4>2. PICK a \in Nat, b \in Nat : a = share[i - 1] /\ b = share[n]
        BY <4>1
      <4>3. PICK c \in Nat : c = share[i + 1]
        BY <4>1
      <4>4. c = a + 4 /\ b >= c
        BY <2>2, <2>4, <4>1, <4>2, <4>3
      <4>5. bytes + b - a = bytes + 4 + b - c /\ bytes + 4 <= bytes + 4 + b - c
        BY <4>4
      <4>6. bytes + share[n] - share[i - 1] = bytes + b - a
        BY <4>2
      <4>7. bytes + 4 + share[n] - share[i + 1] = bytes + 4 + b - c
        BY <4>2, <4>3
      <4>8. QED  BY ONLY <4>5, <4>6, <4>7
    <3>2. bytes + 4 + share[n] - share[i + 1] \in Int
      <4>1. share[n] \in Nat /\ share[i + 1] \in Nat  BY <1>2, <1>3, <2>1
      <4>2. QED  BY <4>1
    <3>3. QED  BY <1>1, <1>5, <2>3, <2>5, <2>7, <3>1, <3>2
  <2>8. QED  BY <1>1, <2>6, <2>7
<1>8. CASE units[i] \notin {"low", "high"}
  <2> DEFINE m == Bytes(units[i])
  <2>1. m = Share(units[i]) /\ m \in 1 .. 3
    BY <1>1, <1>8 DEF Unit, Bytes, Share
  <2> HIDE DEF m
  <2>2. (\A j \in i .. n : Pair(j, i)) <=> (\A j \in i + 1 .. n : Pair(j, i + 1))
    <3>1. Pair(i, i)  BY <1>8
    <3>2. ASSUME NEW j \in i + 1 .. n PROVE Pair(j, i) <=> Pair(j, i + 1)
      <4>1. CASE j = i + 1
        <5>1. j - 1 = i BY <1>1, <4>1
        <5>2. QED  BY <1>8, <5>1, <4>1
      <4>2. CASE j # i + 1
        BY <1>1, <4>2
      <4>3. QED  BY <4>1, <4>2
    <3>3. i + 1 .. n \subseteq i .. n  BY <1>1
    <3> HIDE DEF Pair
    <3>4. QED  BY <1>4, <3>1, <3>2, <3>3
  <2>3. share[n] >= share[i]  BY <1>2, <1>3
  <2>4. Remains(units, share, limit, i + 1, bytes + m) <=>
          \/ i + 1 > n
          \/ (\A j \in i + 1 .. n : Pair(j, i + 1)) /\ bytes + m + share[n] - share[i] <= limit
    <3>1. (i + 1) - 1 = i  OBVIOUS
    <3>2. QED  BY <3>1 DEF Remains
  <2> HIDE DEF Pair
  <2>5. /\ share[i - 1] \in Nat /\ share[i] \in Nat /\ share[n] \in Nat
        /\ share[i] = share[i - 1] + m
    BY <1>2, <1>3, <2>1
  <2>6. /\ bytes + share[n] - share[i - 1] = bytes + m + share[n] - share[i]
        /\ bytes + m <= bytes + m + share[n] - share[i]
        /\ bytes + m + share[n] - share[i] \in Int
    <3>1. PICK a \in Nat, b \in Nat : a = share[i - 1] /\ b = share[n]
      BY <2>5
    <3>2. share[i] = a + m /\ b >= a + m
      BY <2>3, <2>5, <3>1
    <3>3. /\ bytes + b - a = bytes + m + b - (a + m)
          /\ bytes + m <= bytes + m + b - (a + m)
          /\ bytes + m + b - (a + m) \in Int
      BY <2>1, <3>2
    <3>4. QED  BY <3>1, <3>2, <3>3
  <2>7. Remains(units, share, limit, i, bytes) <=>
          bytes + m <= limit /\ Remains(units, share, limit, i + 1, bytes + m)
    <3>1. CASE i + 1 > n
      <4>1. n = i /\ \A j \in i + 1 .. n : Pair(j, i + 1)  BY <1>1, <3>1
      <4>2. bytes + share[n] - share[i - 1] = bytes + m  BY <2>1, <2>5, <4>1
      <4>3. QED  BY <1>5, <2>2, <2>4, <3>1, <4>1, <4>2
    <3>2. CASE i + 1 <= n
      BY <1>1, <1>5, <2>1, <2>2, <2>4, <2>6, <3>2
    <3>3. QED  BY <1>1, <3>1, <3>2
  <2>8. QED  BY <1>8, <2>7 DEF m
<1>9. QED  BY <1>6, <1>7, <1>8

\* A text passes the walk just if it is well-formed and within the limit, whatever
\* its length and the limit are.
THEOREM TextsExactly ==
  ASSUME NEW units \in Seq(Unit), NEW limit \in Nat
  PROVE  Accepted(units, limit) <=> WellFormed(units, limit)
<1> DEFINE n == Len(units)
           share == CHOOSE g : g = [i \in 0 .. n |->
                      IF i = 0 THEN 0 ELSE g[i - 1] + Share(units[i])]
           next(i) == IF units[i] = "high" THEN i + 2 ELSE i + 1
           Step(w, i) ==
             IF i > n
               THEN 0 .. limit
               ELSE LET rest == w[next(i)]
                    IN  {b \in 0 .. limit :
                           /\ units[i] # "low"
                           /\ units[i] = "high" => i < n /\ units[i + 1] = "low"
                           /\ b + Bytes(units[i]) \in rest}
           Walk(w) == w = [i \in 1 .. n + 2 |-> Step(w, i)]
           Passed(i) == {b \in 0 .. limit : Remains(units, share, limit, i, b)}
           W == [i \in 1 .. n + 2 |-> Passed(i)]
           walk == CHOOSE w : Walk(w)
<1>1. n \in Nat /\ \A i \in 1 .. n : units[i] \in Unit
  OBVIOUS
<1>2. /\ share \in [0 .. n -> Nat] /\ share[0] = 0
      /\ \A i \in 1 .. n : share[i] = share[i - 1] + Share(units[i])
      /\ \A i \in 0 .. n : \A j \in 0 .. i : share[j] <= share[i]
  BY Shares
<1>3. Accepted(units, limit) <=> 0 \in walk[1]
  BY DEF Accepted
<1>4. WellFormed(units, limit) <=>
        /\ \A i \in 1 .. n :
             /\ units[i] = "high" => i < n /\ units[i + 1] = "low"
             /\ units[i] = "low" => i > 1 /\ units[i - 1] = "high"
        /\ share[n] <= limit
  BY DEF WellFormed
<1> HIDE DEF share
<1>5. WellFormed(units, limit) <=> Remains(units, share, limit, 1, 0)
  <2>1. 0 + share[n] - share[1 - 1] = share[n]
    <3>1. share[1 - 1] = 0 /\ share[n] \in Nat  BY <1>1, <1>2
    <3>2. QED  BY <3>1
  <2>2. CASE n = 0
    BY <1>2, <1>4, <2>2 DEF Remains
  <2>3. CASE n # 0
    <3>1. ~(1 > n) BY <1>1, <2>3
    <3>2. QED  BY <1>4, <2>1, <3>1 DEF Remains
  <2>4. QED  BY <2>2, <2>3
<1>6. ASSUME NEW i \in 1 .. n, NEW b \in 0 .. limit, units[i] # "low",
             b + Bytes(units[i]) <= limit
      PROVE  next(i) \in i + 1 .. n + 2 /\ b + Bytes(units[i]) \in 0 .. limit
  <2>1. Bytes(units[i]) \in 1 .. 4  BY <1>1, <1>6 DEF Bytes, Unit
  <2>2. QED  BY <1>1, <1>6, <2>1
<1>7. ASSUME NEW i \in 1 .. n, NEW b \in 0 .. limit
      PROVE  Remains(units, share, limit, i, b) <=>
               /\ units[i] # "low"
               /\ units[i] = "high" => i < n /\ units[i + 1] = "low"
               /\ b + Bytes(units[i]) <= limit
               /\ Remains(units, share, limit, next(i), b + Bytes(units[i]))
  <2>1. b \in Int  OBVIOUS
  <2> DEFINE m == n
  <2>2. m = Len(units) /\ i \in 1 .. m
    OBVIOUS
  <2> HIDE DEF m
  <2>3. /\ share \in [0 .. m -> Nat]
        /\ \A j \in 1 .. m : share[j] = share[j - 1] + Share(units[j])
        /\ \A j \in 0 .. m : \A k \in 0 .. j : share[k] <= share[j]
    BY <1>2 DEF m
  <2>4. QED  BY <2>1, <2>2, <2>3, RemainsStep
<1> HIDE DEF next, n
<1>8. \A i \in 1 .. n + 2 : i > n => Passed(i) = 0 .. limit
  BY DEF Remains, n
<1>9. ASSUME NEW w, NEW i \in 1 .. n, w[next(i)] = Passed(next(i))
      PROVE  Step(w, i) = Passed(i)
  <2>1. ~(i > n)  BY <1>1
  <2>2. ASSUME NEW b \in 0 .. limit
        PROVE  b \in Step(w, i) <=> b \in Passed(i)
    <3>1. CASE units[i] # "low" /\ b + Bytes(units[i]) <= limit
      <4>1. b + Bytes(units[i]) \in 0 .. limit
        BY <1>6, <3>1
      <4>2. b + Bytes(units[i]) \in w[next(i)] <=>
              Remains(units, share, limit, next(i), b + Bytes(units[i]))
        BY <1>9, <4>1
      <4>3. QED  BY <1>7, <2>1, <3>1, <4>2
    <3>2. CASE ~(units[i] # "low" /\ b + Bytes(units[i]) <= limit)
      <4>1. ~Remains(units, share, limit, i, b)  BY <1>7, <3>2
      <4>2. ASSUME b \in Step(w, i) PROVE FALSE
        <5>1. units[i] # "low" /\ b + Bytes(units[i]) \in Passed(next(i))
          BY <1>9, <2>1, <4>2
        <5>2. QED  BY <3>2, <5>1
      <4>3. QED  BY <4>1, <4>2
    <3>3. QED  BY <3>1, <3>2
  <2>3. Step(w, i) \subseteq 0 .. limit /\ Passed(i) \subseteq 0 .. limit
    BY <2>1
  <2> HIDE DEF Step, Passed
  <2>4. QED  BY <2>2, <2>3
<1>10. Walk(W)
  <2>1. ASSUME NEW i \in 1 .. n + 2 PROVE Step(W, i) = Passed(i)
    <3>1. CASE i > n
      BY <1>8, <3>1
    <3>2. CASE ~(i > n)
      <4>1. i \in 1 .. n /\ next(i) \in 1 .. n + 2
        BY <1>1, <3>2 DEF next
      <4>2. W[next(i)] = Passed(next(i))
        <5> HIDE DEF Passed
        <5>1. QED  BY <4>1
      <4> HIDE DEF W, Passed, Step
      <4>3. QED  BY <1>9, <4>1, <4>2
    <3>3. QED  BY <3>1, <3>2
  <2> HIDE DEF Step, Passed
  <2>2. QED  BY <2>1
<1>11. Walk(walk)
  <2> HIDE DEF Walk, W
  <2>1. QED  BY <1>10
<1>12. \A i \in 1 .. n + 2 : walk[i] = Step(walk, i)
  <2> HIDE DEF walk, Step
  <2>1. QED  BY <1>11
<1> HIDE DEF walk, W, Walk
<1> DEFINE T == {k \in Nat : k <= n =>
                   \A i \in n + 1 - k .. n + 2 : walk[i] = Passed(i)}
<1>13. 0 \in T
  <2> SUFFICES ASSUME NEW i \in n + 1 .. n + 2 PROVE walk[i] = Passed(i)
    BY <1>1
  <2>1. i > n /\ i \in 1 .. n + 2  BY <1>1
  <2>2. QED  BY <1>8, <1>12, <2>1
<1>14. ASSUME NEW k \in Nat, k \in T PROVE k + 1 \in T
  <2> SUFFICES ASSUME k + 1 <= n, NEW i \in n + 1 - (k + 1) .. n + 2
               PROVE  walk[i] = Passed(i)
    OBVIOUS
  <2> HIDE DEF Step, Passed
  <2>1. CASE i \in n + 1 - k .. n + 2
    BY <1>1, <1>14, <2>1
  <2>2. CASE i \notin n + 1 - k .. n + 2
    <3>1. i \in 1 .. n /\ i \in 1 .. n + 2 /\ next(i) \in n + 1 - k .. n + 2
      BY <1>1, <2>2 DEF next
    <3>2. walk[next(i)] = Passed(next(i))
      BY <1>1, <1>14, <3>1
    <3>3. QED  BY <1>9, <1>12, <3>1, <3>2
  <2>3. QED  BY <2>1, <2>2
<1> HIDE DEF T
<1>15. n \in T
  BY <1>1, <1>13, <1>14, Induction
<1>16. walk[1] = Passed(1)
  <2> HIDE DEF Passed
  <2>1. 1 \in n + 1 - n .. n + 2  BY <1>1
  <2>2. QED  BY <1>1, <1>15, <2>1 DEF T
<1>17. QED  BY <1>3, <1>5, <1>16

\* Requests to sign or to verify: texts, and fields without a value.
IsSigned(r) ==
  /\ r.type = "object" /\ DOMAIN r.value \subseteq DOMAIN Maximum
  /\ \A key \in DOMAIN r.value :
       r.value[key] = Undefined \/ \E units \in Seq(Unit) : r.value[key] = String(units)

\* Such a request is sent just if each of its texts is well-formed and in its limit.
LEMMA SignedTexts ==
  ASSUME NEW r, IsSigned(r)
  PROVE  ~Failed(Bip322Request(r)) <=>
           \A key \in DOMAIN r.value :
             r.value[key].type = "string" /\ WellFormed(r.value[key].value, Maximum[key])
<1>1. ASSUME NEW key \in DOMAIN Maximum
      PROVE  Limit(key) = Maximum[key] /\ Maximum[key] \in Nat
  BY BoundaryAssumption DEF Maximum, Limit
<1>2. ASSUME NEW key \in DOMAIN r.value, r.value[key].type = "string"
      PROVE  Accepted(r.value[key].value, Limit(key)) <=>
               WellFormed(r.value[key].value, Maximum[key])
  <2>1. r.value[key].value \in Seq(Unit)
    <3>1. r.value[key] # Undefined  BY <1>2 DEF Undefined
    <3>2. PICK units \in Seq(Unit) : r.value[key] = String(units)
      BY <3>1 DEF IsSigned
    <3>3. QED  BY <3>2 DEF String
  <2>2. key \in DOMAIN Maximum  BY DEF IsSigned
  <2>3. QED  BY <1>1, <2>1, <2>2, TextsExactly
<1>3. ~Failed(Bip322Request(r)) <=>
        \A key \in DOMAIN r.value :
          r.value[key].type = "string" /\ Accepted(r.value[key].value, Limit(key))
  BY DEF IsSigned, Bip322Request, Failed, Error
<1>4. QED  BY <1>2, <1>3

-----------------------------------------------------------------------------
(***************************************************************************)
(* What crosses in a behaviour                                             *)
(***************************************************************************)
\* The requests that are enumerated are such requests.
LEMMA RequestTypes ==
  ASSUME NEW keys \in {PaymentKey, BurnKey}, NEW r \in Requests(keys)
  PROVE  IsRequest(r)
<1>1. keys \cup {"other"} \subseteq DOMAIN Usual /\ MaxToken \in Nat
  BY BoundaryAssumption DEF Usual
<1>2. \A key \in DOMAIN Usual : Usual[key] \in Value
  BY DEF Usual, Value, Word, Null, Number
<1>3. \A key \in keys : Values(key) \subseteq Value
  BY <1>1 DEF Values, Value, Numbers, Digits, Halves, Undefined, Null, Word, Hex, Number, Text
<1>4. ASSUME NEW key \in keys, r \in Unusual(keys, key) PROVE IsRequest(r)
  <2>1. PICK type \in {"object", "array"}, v \in Values(key) :
          r = [type |-> type, value |-> [k \in keys |-> IF k = key THEN v ELSE Usual[k]]]
    BY <1>4 DEF Unusual
  <2>2. \A k \in keys : r.value[k] \in Value
    BY <1>1, <1>2, <1>3, <2>1
  <2>3. QED  BY <2>1, <2>2 DEF IsRequest
<1>5. CASE \E some \in SUBSET (keys \cup {"other"}) : r = Object([key \in some |-> Usual[key]])
  <2>1. PICK some \in SUBSET (keys \cup {"other"}) : r = Object([key \in some |-> Usual[key]])
    BY <1>5
  <2>2. r.type = "object" /\ DOMAIN r.value = some /\ \A k \in some : r.value[k] \in Value
    BY <1>1, <1>2, <2>1 DEF Object
  <2>3. QED  BY <2>2 DEF IsRequest
<1> DEFINE U == UNION {Unusual(keys, key) : key \in keys}
           O == {Object([key \in some |-> Usual[key]]) : some \in SUBSET (keys \cup {"other"})}
<1>6. r \in U \/ r \in O
  <2>1. Requests(keys) = U \cup O  BY DEF Requests
  <2> HIDE DEF U, O
  <2>2. QED  BY <2>1
<1>7. ASSUME r \in U PROVE IsRequest(r)
  BY <1>4, <1>7
<1>8. ASSUME r \in O PROVE IsRequest(r)
  BY <1>5, <1>8
<1>9. QED  BY <1>6, <1>7, <1>8

\* What has crossed is one of the inputs, and what has arrived is what becomes of it.
Crossed ==
  /\ direction \in {"none", "in", "out", "pay", "burn", "back", "text"}
  /\ direction = "in" => given \in Token /\ taken = Parsed(given)
  /\ direction = "out" => \E h \in Halves : given = Number(h) /\ taken = Checked(h)
  /\ direction = "pay" => given \in Requests(PaymentKey) /\ taken = PaymentRequest(given)
  /\ direction = "burn" => given \in Requests(BurnKey) /\ taken = BurnRequest(given)
  /\ direction = "back" => /\ given \in Token /\ ~Failed(Parsed(given))
                           /\ taken = Burnt(Parsed(given))
  /\ direction = "text" => IsSigned(given) /\ taken = Bip322Request(given)

\* The requests to sign that are enumerated are such requests.
LEMMA SigningTypes ==
  ASSUME NEW keys \in SigningKeys, NEW key \in keys, NEW v,
         v = Undefined \/ \E units \in Seq(Unit) : v = String(units)
  PROVE  IsSigned(Signature(keys, key, v))
<1>1. \E units \in Seq(Unit) : String(<<"ascii">>) = String(units)
  <2>1. <<"ascii">> \in Seq(Unit)  BY DEF Unit
  <2>2. QED  BY <2>1
<1>2. keys \subseteq DOMAIN Maximum
  BY DEF SigningKeys, Maximum
<1>3. QED  BY <1>1, <1>2 DEF IsSigned, Signature, Object

\* Crossed is an invariant.
LEMMA Crossings == BoundarySpec => []Crossed
<1>1. BoundaryInit => Crossed
  BY DEF BoundaryInit, Crossed
<1>2. Crossed /\ [BoundaryNext]_boundaryVars => Crossed'
  <2> SUFFICES ASSUME Crossed, [BoundaryNext]_boundaryVars PROVE Crossed'
    OBVIOUS
  <2>1. ASSUME NEW token \in Token, Receive(token) PROVE Crossed'
    BY <2>1 DEF Receive, Crossed
  <2>2. ASSUME NEW h \in Halves, Send(h) PROVE Crossed'
    BY <2>2 DEF Send, Crossed
  <2>3. ASSUME NEW r \in Requests(PaymentKey), Pay(r) PROVE Crossed'
    BY <2>3 DEF Pay, Crossed
  <2>4. ASSUME NEW r \in Requests(BurnKey), Burn(r) PROVE Crossed'
    BY <2>4 DEF Burn, Crossed
  <2>5. CASE BurnReceived
    BY <2>5 DEF BurnReceived, Crossed
  <2>6. ASSUME NEW keys \in SigningKeys, NEW key \in keys, NEW v,
               v = Undefined \/ \E units \in Seq(Unit) : v = String(units),
               Sign(Signature(keys, key, v))
        PROVE  Crossed'
    BY <2>6, SigningTypes DEF Sign, Crossed
  <2>7. CASE UNCHANGED boundaryVars
    BY <2>7 DEF boundaryVars, Crossed
  <2>8. ASSUME NEW n \in 0 .. MaxUnits, NEW units \in [1 .. n -> Unit]
        PROVE  units \in Seq(Unit)
    BY BoundaryAssumption
  <2>9. QED  BY <2>1, <2>2, <2>3, <2>4, <2>5, <2>6, <2>7, <2>8 DEF BoundaryNext
<1>3. QED  BY <1>1, <1>2, PTL DEF BoundarySpec

\* Integers cross exactly or not at all, whatever the widths of doubles and native
\* integers are, and what was read of an integer can be burnt if it is unsigned
\* and fits.
THEOREM IntegersAreExact == BoundarySpec => []IntegersCrossExactly
<1>1. Crossed => IntegersCrossExactly
  <2> SUFFICES ASSUME Crossed PROVE IntegersCrossExactly
    OBVIOUS
  <2>0. Halves \subseteq Int /\ MaxToken \in Nat  BY BoundaryAssumption DEF Halves
  <2>1. ASSUME direction \in {"in", "back"}, Whole(given.value)
        PROVE  /\ Failed(taken) \/ taken.value = given.value
               /\ direction = "in" /\ given.integer => ~Failed(taken)
               /\ direction = "back" /\ given.integer =>
                    (~Failed(taken) <=> given.value >= 0 /\ given.value < 2 * Power[Width])
    <3>1. given \in [value : Int, integer : BOOLEAN] /\ given.value \in Int
      BY <2>0, <2>1 DEF Crossed, Token
    <3>2. CASE direction = "in"
      BY <2>1, <3>1, <3>2, ParsedNumbers DEF Crossed, Failed, Error, Number, Text
    <3>3. CASE direction = "back"
      <4>1. taken = Unsigned(Parsed(given)) /\ ~Failed(Parsed(given))
        BY <3>3, BurntAmounts DEF Crossed
      <4>2. taken = IF given.value >= 0 /\ given.value < 2 * Power[Width]
                      THEN Number(given.value) ELSE Error
        BY <2>1, <3>1, <4>1, ParsedNumbers, UnsignedNumbers DEF Failed, Error
      <4>3. QED  BY <3>3, <4>2 DEF Failed, Error, Number
    <3>4. QED  BY <2>1, <3>2, <3>3
  <2>2. ASSUME direction = "out", Whole(given.value)
        PROVE  Failed(taken) \/ taken.value = given.value
    BY <2>0, <2>2, CheckedNumbers DEF Crossed, Failed, Error, Number
  <2>3. ASSUME direction \in {"pay", "burn"}, ~Failed(taken), NEW key \in DOMAIN taken.value,
               given.value[key].type \in {"number", "text"}, Whole(given.value[key].value)
        PROVE  taken.value[key].value = given.value[key].value
    <3>1. IsRequest(given)
      BY <2>3, RequestTypes DEF Crossed
    <3>2. CASE direction = "pay"
      <4>1. taken = Stringified(given)  BY <2>3, <3>2 DEF Crossed, PaymentRequest, Failed, Error
      <4>2. QED  BY <2>3, <3>1, <4>1, StringifiedFields
    <3>3. CASE direction = "burn"
      <4>1. taken = Rewritten(given) /\ DOMAIN given.value \subseteq BurnKey
        BY <2>3, <3>3 DEF Crossed, BurnRequest, Failed, Error
      <4>2. QED  BY <2>3, <3>1, <4>1, RewrittenFields
    <3>4. QED  BY <2>3, <3>2, <3>3
  <2>4. QED  BY <2>1, <2>2, <2>3 DEF IntegersCrossExactly
<1>2. QED  BY <1>1, Crossings, PTL

\* No field of a request is lost or added on its way, and confirmations fit in the
\* native byte.
THEOREM RequestsAreKept == BoundarySpec => []RequestsKeepTheirFields
<1>1. Crossed => RequestsKeepTheirFields
  <2> SUFFICES ASSUME Crossed, direction \in {"pay", "burn"}, ~Failed(taken)
               PROVE  /\ DOMAIN taken.value =
                           {key \in DOMAIN given.value : given.value[key] # Undefined}
                      /\ DOMAIN taken.value \subseteq
                           (IF direction = "pay" THEN PaymentKey ELSE BurnKey)
                      /\ direction = "burn" =>
                           taken.value["min_confirmations"].value \in 0 .. 2 * (Power[Byte] - 1)
    BY DEF RequestsKeepTheirFields
  <2>1. IsRequest(given)
    BY RequestTypes DEF Crossed
  <2>2. CASE direction = "pay"
    <3>1. taken = Stringified(given) /\ DOMAIN given.value \subseteq PaymentKey
      BY <2>2 DEF Crossed, PaymentRequest, Failed, Error
    <3>2. QED  BY <2>1, <2>2, <3>1, StringifiedFields
  <2>3. CASE direction = "burn"
    <3>1. taken = Rewritten(given) /\ DOMAIN given.value \subseteq BurnKey
      BY <2>3 DEF Crossed, BurnRequest, Failed, Error
    <3>2. QED  BY <2>1, <2>3, <3>1, RewrittenFields
  <2>4. QED  BY <2>2, <2>3
<1>2. QED  BY <1>1, Crossings, PTL

\* Of the texts to sign just the well-formed ones that keep their limits are sent,
\* whatever the limits are.
THEOREM TextsAreSound == BoundarySpec => []TextsAreWellFormed
<1>1. Crossed => TextsAreWellFormed
  BY SignedTexts DEF Crossed, TextsAreWellFormed
<1>2. QED  BY <1>1, Crossings, PTL

-----------------------------------------------------------------------------
(***************************************************************************)
(* Versions of the C library                                               *)
(***************************************************************************)
\* Of two versions one is at most the other, and so is one of a third.
LEMMA VersionsTotal ==
  ASSUME NEW v \in Seq(Nat), NEW w \in Seq(Nat)
  PROVE  AtMost(v, w) \/ AtMost(w, v)
<1> DEFINE D == {j \in Nat : j >= 1 /\ (j > Len(v) \/ j > Len(w) \/ v[j] # w[j])}
<1>1. Len(v) \in Nat /\ Len(w) \in Nat
  OBVIOUS
<1>2. Len(v) + 1 \in D
  BY <1>1
<1>3. PICK j \in D : \A k \in D : j <= k
  BY <1>2, Least
<1>4. PICK i \in Nat : j = i + 1
  <2>1. j - 1 \in Nat /\ j = (j - 1) + 1  BY <1>3
  <2>2. QED  BY <2>1
<1>5. \A k \in 1 .. i : k <= Len(v) /\ k <= Len(w) /\ v[k] = w[k]
  BY <1>1, <1>3, <1>4
<1>6. i <= Len(v) /\ i <= Len(w)
  <2>1. CASE i = 0  BY <1>1, <2>1
  <2>2. CASE i # 0
    <3>1. i \in 1 .. i  BY <1>4, <2>2
    <3>2. QED  BY <1>5, <3>1
  <2>3. QED  BY <2>1, <2>2
<1>7. i \in 0 .. Len(v) /\ i \in 0 .. Len(w)
  BY <1>1, <1>4, <1>6
<1>8. CASE i = Len(v)
  BY <1>5, <1>6, <1>7, <1>8 DEF AtMost
<1>9. CASE i = Len(w)
  BY <1>5, <1>6, <1>7, <1>9 DEF AtMost
<1>10. CASE i < Len(v) /\ i < Len(w)
  <2>1. v[i + 1] # w[i + 1] /\ i + 1 \in 1 .. Len(v) /\ i + 1 \in 1 .. Len(w)
    BY <1>1, <1>3, <1>4, <1>10
  <2>2. v[i + 1] \in Nat /\ w[i + 1] \in Nat
    BY <2>1
  <2>3. v[i + 1] < w[i + 1] \/ w[i + 1] < v[i + 1]
    BY <2>1, <2>2
  <2>4. ASSUME v[i + 1] < w[i + 1] PROVE AtMost(v, w)
    BY <1>5, <1>6, <1>7, <1>10, <2>4 DEF AtMost, Lower
  <2>5. ASSUME w[i + 1] < v[i + 1] PROVE AtMost(w, v)
    BY <1>5, <1>6, <1>7, <1>10, <2>5 DEF AtMost, Lower
  <2>6. QED  BY <2>3, <2>4, <2>5
<1>11. QED  BY <1>1, <1>6, <1>7, <1>8, <1>9, <1>10

\* A version at most one that is at most a third is at most that.
LEMMA VersionsTransitive ==
  ASSUME NEW u \in Seq(Nat), NEW v \in Seq(Nat), NEW w \in Seq(Nat),
         AtMost(u, v), AtMost(v, w)
  PROVE  AtMost(u, w)
<1> DEFINE Till(x, y, n) == n <= Len(y) /\ \A k \in 1 .. n : x[k] = y[k]
           Before(x, y, n) == n < Len(y) /\ x[n + 1] < y[n + 1]
<1>0. Len(u) \in Nat /\ Len(v) \in Nat /\ Len(w) \in Nat
  OBVIOUS
<1>1. PICK i \in 0 .. Len(u) : Till(u, v, i) /\ (i = Len(u) \/ Before(u, v, i))
  BY DEF AtMost, Lower
<1>2. PICK k \in 0 .. Len(v) : Till(v, w, k) /\ (k = Len(v) \/ Before(v, w, k))
  BY DEF AtMost, Lower
<1>3. ASSUME NEW n \in 0 .. Len(u), Till(u, w, n), n = Len(u) \/ Before(u, w, n)
      PROVE  AtMost(u, w)
  BY <1>3 DEF AtMost, Lower
<1>t. ASSUME i <= k PROVE Till(u, w, i)
  <2>1. i <= Len(w)  BY <1>0, <1>2, <1>t
  <2>2. ASSUME NEW j \in 1 .. i PROVE u[j] = w[j]
    <3>1. j \in 1 .. k  BY <1>0, <1>t
    <3>2. QED  BY <1>1, <1>2, <3>1
  <2>3. QED  BY <2>1, <2>2
<1>4. CASE i <= k /\ i = Len(u)
  <2>1. Till(u, w, i)  BY <1>t, <1>4
  <2>2. QED  BY <1>3, <1>4, <2>1
<1>5. CASE i < k /\ i # Len(u)
  <2>1. Till(u, w, i)
    <3>1. i <= k  BY <1>0, <1>5
    <3>2. QED  BY <1>t, <3>1
  <2>2. i + 1 \in 1 .. k  BY <1>0, <1>5
  <2>3. v[i + 1] = w[i + 1] /\ i < Len(w)  BY <1>0, <1>2, <1>5, <2>2
  <2>4. Before(u, w, i)  BY <1>1, <1>5, <2>3
  <2>5. QED  BY <1>3, <2>1, <2>4
<1>6. CASE k < i
  <2>1. Till(u, w, k) /\ k \in 0 .. Len(u)
    <3>1. k \in 0 .. Len(u) /\ k <= Len(w)  BY <1>0, <1>2, <1>6
    <3>2. ASSUME NEW j \in 1 .. k PROVE u[j] = w[j]
      <4>1. j \in 1 .. i  BY <1>0, <1>6
      <4>2. QED  BY <1>1, <1>2, <4>1
    <3>3. QED  BY <3>1, <3>2
  <2>2. k + 1 \in 1 .. i  BY <1>0, <1>6
  <2>3. u[k + 1] = v[k + 1]  BY <1>1, <2>2
  <2>4. Before(v, w, k)  BY <1>0, <1>1, <1>2, <1>6
  <2>5. Before(u, w, k)  BY <2>3, <2>4
  <2>6. QED  BY <1>3, <2>1, <2>5
<1>7. CASE k = i /\ i # Len(u)
  <2>1. Till(u, w, i)
    <3>1. i <= k  BY <1>0, <1>7
    <3>2. QED  BY <1>t, <3>1
  <2>2. Before(u, v, i) /\ Before(v, w, i)  BY <1>0, <1>1, <1>2, <1>7
  <2>3. /\ i + 1 \in 1 .. Len(u) /\ i + 1 \in 1 .. Len(v) /\ i + 1 \in 1 .. Len(w)
    BY <1>0, <1>1, <1>7, <2>2
  <2>4. u[i + 1] \in Nat /\ v[i + 1] \in Nat /\ w[i + 1] \in Nat
    <3>1. u[i + 1] \in Nat  BY <2>3
    <3>2. v[i + 1] \in Nat  BY <2>3
    <3>3. w[i + 1] \in Nat  BY <2>3
    <3>4. QED  BY <3>1, <3>2, <3>3
  <2>5. Before(u, w, i)  BY <2>2, <2>4
  <2>6. QED  BY <1>3, <2>1, <2>5
<1>8. QED  BY <1>0, <1>4, <1>5, <1>6, <1>7

\* Some version of an image is one that all are at most.
LEMMA Floors ==
  ASSUME NEW S \in SUBSET Seq(Nat), IsFiniteSet(S), S # {}
  PROVE  \E v \in S : \A w \in S : AtMost(w, v)
<1> DEFINE Sets(n) == {R \in SUBSET Seq(Nat) : IsFiniteSet(R) /\ Cardinality(R) = n + 1}
           T == {n \in Nat : \A R \in Sets(n) : \E v \in R : \A w \in R : AtMost(w, v)}
<1>1. ASSUME NEW n \in Nat, NEW R \in Sets(n)
      PROVE  \E v \in R : R \ {v} \in SUBSET Seq(Nat) /\ IsFiniteSet(R \ {v})
                          /\ Cardinality(R \ {v}) = n
  <2>1. R # {}  BY FS_EmptySet
  <2>2. PICK v \in R : TRUE  BY <2>1
  <2>3. IsFiniteSet(R \ {v}) /\ Cardinality(R \ {v}) = Cardinality(R) - 1
    BY FS_RemoveElement
  <2>4. Cardinality(R \ {v}) = n
    <3>1. Cardinality(R) = n + 1 /\ (n + 1) - 1 = n  OBVIOUS
    <3>2. QED  BY <2>3, <3>1
  <2>5. R \ {v} \in SUBSET Seq(Nat)  OBVIOUS
  <2>6. QED  BY <2>2, <2>3, <2>4, <2>5
<1>2. 0 \in T
  <2> SUFFICES ASSUME NEW R \in Sets(0) PROVE \E v \in R : \A w \in R : AtMost(w, v)
    OBVIOUS
  <2>1. PICK v \in R : IsFiniteSet(R \ {v}) /\ Cardinality(R \ {v}) = 0
    BY <1>1
  <2>2. R \ {v} = {}  BY <2>1, FS_EmptySet
  <2>3. AtMost(v, v)  BY VersionsTotal
  <2>4. QED  BY <2>2, <2>3
<1>3. ASSUME NEW n \in Nat, n \in T PROVE n + 1 \in T
  <2> SUFFICES ASSUME NEW R \in Sets(n + 1) PROVE \E v \in R : \A w \in R : AtMost(w, v)
    OBVIOUS
  <2>1. PICK v \in R : R \ {v} \in SUBSET Seq(Nat) /\ IsFiniteSet(R \ {v})
                       /\ Cardinality(R \ {v}) = n + 1
    <3>1. n + 1 \in Nat  OBVIOUS
    <3> HIDE DEF Sets
    <3>2. QED  BY <1>1, <3>1
  <2>2. PICK m \in R \ {v} : \A w \in R \ {v} : AtMost(w, m)
    <3>1. R \ {v} \in Sets(n)  BY <2>1
    <3> HIDE DEF Sets
    <3>2. QED  BY <1>3, <3>1
  <2>3. v \in Seq(Nat) /\ m \in Seq(Nat)  BY <2>1
  <2>4. CASE AtMost(v, m)
    BY <2>2, <2>4
  <2>5. CASE AtMost(m, v)
    <3>1. \A w \in R : AtMost(w, v)
      <4>1. AtMost(v, v)  BY <2>3, VersionsTotal
      <4>2. ASSUME NEW w \in R \ {v} PROVE AtMost(w, v)
        <5>1. w \in Seq(Nat) /\ AtMost(w, m)  BY <2>2
        <5>2. QED  BY <2>3, <2>5, <5>1, VersionsTransitive
      <4>3. QED  BY <4>1, <4>2
    <3>2. QED  BY <3>1
  <2>6. QED  BY <2>3, <2>4, <2>5, VersionsTotal
<1> HIDE DEF T
<1>4. Nat \subseteq T
  BY <1>2, <1>3, Induction
<1>5. Cardinality(S) \in Nat /\ Cardinality(S) # 0
  BY FS_CardinalityType, FS_EmptySet
<1>6. PICK n \in Nat : Cardinality(S) = n + 1
  <2>1. Cardinality(S) - 1 \in Nat /\ Cardinality(S) = (Cardinality(S) - 1) + 1
    BY <1>5
  <2>2. QED  BY <2>1
<1>7. S \in Sets(n)
  BY <1>6
<1>8. QED  BY <1>4, <1>7 DEF T

\* The versions at most the baseline are the supported ones.
LEMMA SupportedVersions ==
  ASSUME NEW v \in Seq(Nat), v # <<>>
  PROVE  AtMost(v, Baseline) <=> Supported(v)
<1>1. Len(v) \in Nat \ {0} /\ v[1] \in Nat
  OBVIOUS
<1>2. Len(Baseline) = 2 /\ Baseline[1] = 2 /\ Baseline[2] = 35
  BY DEF Baseline
<1>4. v = <<2, 35>> <=> Len(v) = 2 /\ v[1] = 2 /\ v[2] = 35
  OBVIOUS
<1> DEFINE P(i) == /\ i <= Len(Baseline) /\ \A j \in 1 .. i : v[j] = Baseline[j]
                   /\ i = Len(v) \/ (i < Len(Baseline) /\ Lower(v[i + 1], Baseline[i + 1]))
<1>5. P(0) <=> v[1] < 2
  BY <1>1, <1>2 DEF Lower
<1>6. P(1) <=> v[1] = 2 /\ (Len(v) = 1 \/ v[2] < 35)
  BY <1>1, <1>2 DEF Lower
<1>7. P(2) <=> Len(v) = 2 /\ v[1] = 2 /\ v[2] = 35
  BY <1>1, <1>2
<1>8. AtMost(v, Baseline) <=> \E i \in 0 .. Len(v) : P(i)
  BY DEF AtMost
<1>9. \A i \in 0 .. Len(v) : P(i) => i \in 0 .. 2
  BY <1>1, <1>2
<1> HIDE DEF P
<1>10. AtMost(v, Baseline) <=> P(0) \/ P(1) \/ (Len(v) >= 2 /\ P(2))
  BY <1>1, <1>8, <1>9
<1>11. Supported(v) <=> P(0) \/ P(1) \/ P(2)
  <2>1. Supported(v) <=>
          \/ v[1] < 2
          \/ v[1] = 2 /\ (Len(v) = 1 \/ v[2] < 35 \/ (Len(v) = 2 /\ v[1] = 2 /\ v[2] = 35))
    BY <1>4 DEF Supported
  <2>2. QED  BY <1>5, <1>6, <1>7, <2>1
<1>12. P(2) => Len(v) >= 2
  BY <1>7
<1>13. QED  BY <1>10, <1>11, <1>12

\* A Linux image is accepted just if its target supports what it needs.
THEOREM LinuxImages ==
  ASSUME NEW needed \in SUBSET (Seq(Nat) \ {<<>>}), IsFiniteSet(needed), NEW target
  PROVE  AcceptedLinux(needed, target) <=>
           IF target = "musl" THEN needed = {}
                              ELSE needed # {} /\ \A v \in needed : Supported(v)
<1>1. CASE target = "musl"
  BY <1>1 DEF AcceptedLinux
<1>2. CASE target # "musl" /\ needed # {}
  <2> DEFINE floor == CHOOSE v \in needed : \A w \in needed : AtMost(w, v)
  <2>1. floor \in needed /\ \A w \in needed : AtMost(w, floor)
    <3>1. \E v \in needed : \A w \in needed : AtMost(w, v)  BY <1>2, Floors
    <3>2. QED  BY <3>1
  <2>2. AcceptedLinux(needed, target) <=> AtMost(floor, Baseline)
    BY <1>2 DEF AcceptedLinux
  <2> HIDE DEF floor
  <2>3. Baseline \in Seq(Nat)  BY DEF Baseline
  <2>4. AtMost(floor, Baseline) <=> \A w \in needed : AtMost(w, Baseline)
    BY <2>1, <2>3, VersionsTransitive
  <2>5. \A w \in needed : AtMost(w, Baseline) <=> Supported(w)
    BY SupportedVersions
  <2>6. QED  BY <1>2, <2>2, <2>4, <2>5
<1>3. CASE target # "musl" /\ needed = {}
  BY <1>3 DEF AcceptedLinux
<1>4. QED  BY <1>1, <1>2, <1>3

-----------------------------------------------------------------------------
(***************************************************************************)
(* Darwin images                                                           *)
(***************************************************************************)
\* A command as it is read: the symbol table has four fields more.
Command ==
  [symtab : {FALSE}, size : Nat] \cup
  [symtab : {TRUE}, size : Nat, symbols : Nat, entries : Nat, strings : Nat, pool : Nat]

\* Any fields and any commands.
IsImage(image) ==
  /\ image.commands \in Seq(Command)
  /\ image.count \in Nat /\ image.commandsSize \in Nat /\ image.length \in Nat

\* sum has the room the first commands take up.
IsRoom(sum, commands) ==
  /\ sum \in [0 .. Len(commands) -> Nat] /\ sum[0] = 0
  /\ \A i \in 1 .. Len(commands) : sum[i] = sum[i - 1] + commands[i].size
  /\ \A i \in 0 .. Len(commands) : \A j \in 0 .. i : sum[j] <= sum[i]

\* CommandsSize is the room all the commands take up.
LEMMA Rooms ==
  ASSUME NEW commands \in Seq(Command)
  PROVE  \E sum : IsRoom(sum, commands) /\ CommandsSize(commands) = sum[Len(commands)]
<1> DEFINE n == Len(commands)
           d == [i \in 1 .. n |-> commands[i].size]
           Eq(g) == g = [i \in 0 .. n |-> IF i = 0 THEN 0 ELSE g[i - 1] + commands[i].size]
           sum == CHOOSE g : Eq(g)
<1>1. n \in Nat /\ \A i \in 1 .. n : commands[i].size \in Nat
  <2>1. \A i \in 1 .. n : commands[i] \in Command  OBVIOUS
  <2>2. \A c \in Command : c.size \in Nat  BY DEF Command
  <2>3. QED  BY <2>1, <2>2
<1>2. d \in [1 .. n -> Nat] /\ \A i \in 1 .. n : d[i] = commands[i].size
  BY <1>1
<1>3. CommandsSize(commands) = sum[n]
  BY DEF CommandsSize
<1> HIDE DEF n, d
<1>4. \A g : IsSum(g, n, d) <=> Eq(g)
  <2> TAKE g
  <2>1. \A i \in 0 .. n : (IF i = 0 THEN 0 ELSE g[i - 1] + d[i])
                            = (IF i = 0 THEN 0 ELSE g[i - 1] + commands[i].size)
    BY <1>1, <1>2
  <2>2. QED  BY <2>1 DEF IsSum
<1>5. \E g : Eq(g)
  BY <1>1, <1>2, <1>4, SumsExist
<1> HIDE DEF Eq
<1>6. Eq(sum)
  BY <1>5
<1>7. IsSum(sum, n, d)
  BY <1>4, <1>6
<1> HIDE DEF sum
<1>8. /\ sum \in [0 .. n -> Nat] /\ sum[0] = 0
      /\ \A i \in 1 .. n : sum[i] = sum[i - 1] + d[i]
      /\ \A i \in 0 .. n : \A j \in 0 .. i : sum[j] <= sum[i]
  BY <1>1, <1>2, <1>7, Sums
<1>9. IsRoom(sum, commands)
  BY <1>2, <1>8 DEF IsRoom, n
<1>10. QED  BY <1>3, <1>9 DEF n

\* The i-th command may be where the one before it ends, after so many tables.
Follows(image, i, offset, tables) ==
  LET command == CommandAt(image, i)
  IN  /\ offset + 2 <= End(image)
      /\ command.size >= 2 /\ command.size % 2 = 0
      /\ offset + command.size <= End(image)
      /\ command.symtab => tables = 0 /\ TableFits(image, command)

\* What is known of an image after each of its commands.
IsWalk(ok, offset, tables, image) ==
  /\ ok[0] /\ offset[0] = Header /\ tables[0] = 0
  /\ \A i \in 0 .. image.count : offset[i] \in Nat /\ tables[i] \in Nat
  /\ \A i \in 1 .. image.count :
       /\ ok[i] <=> ok[i - 1] /\ Follows(image, i, offset[i - 1], tables[i - 1])
       /\ offset[i] = offset[i - 1] + CommandAt(image, i).size
       /\ tables[i] = tables[i - 1] + (IF CommandAt(image, i).symtab THEN 1 ELSE 0)

\* The walk over the commands goes on as IsWalk says, and decides as the code does.
LEMMA Walks ==
  ASSUME NEW image, IsImage(image), NEW target
  PROVE  \E ok, offset, tables :
           /\ IsWalk(ok, offset, tables, image)
           /\ AcceptedDarwin(image, target) <=>
                /\ image.length >= Header /\ image.magic /\ image.cpu = target
                /\ End(image) <= image.length /\ 2 * image.count <= End(image) - Header
                /\ ok[image.count] /\ offset[image.count] = End(image)
                /\ tables[image.count] = 1
<1> DEFINE n == image.count
           R == [ok : BOOLEAN, offset : Nat, tables : Nat]
           first == [ok |-> TRUE, offset |-> Header, tables |-> 0]
           Ok(i, x) == /\ x.ok
                       /\ x.offset + 2 <= End(image)
                       /\ CommandAt(image, i).size >= 2 /\ CommandAt(image, i).size % 2 = 0
                       /\ Plus(x.offset, CommandAt(image, i).size) <= End(image)
                       /\ CommandAt(image, i).symtab =>
                            x.tables = 0 /\ TableFits(image, CommandAt(image, i))
           Next1(i, x) ==
             [ok |-> Ok(i, x),
              offset |-> x.offset + CommandAt(image, i).size,
              tables |-> x.tables + (IF CommandAt(image, i).symtab THEN 1 ELSE 0)]
           Eq(w) == w = [i \in 0 .. n |-> IF i = 0 THEN first ELSE Next1(i, w[i - 1])]
           walk == CHOOSE w : Eq(w)
           step == [i \in Nat |-> [x \in R |-> IF i = 0 THEN first ELSE Next1(i, x)]]
<1>1. n \in Nat /\ first \in R
  BY DEF IsImage, Header
<1>2. \A i \in Nat \ {0} : CommandAt(image, i).size \in Nat
  <2>1. ASSUME NEW i \in Nat \ {0}, i <= Len(image.commands)
        PROVE  image.commands[i] \in Command
    <3>1. i \in 1 .. Len(image.commands)  BY <2>1 DEF IsImage
    <3>2. QED  BY <3>1 DEF IsImage
  <2>2. \A c \in Command : c.size \in Nat  BY DEF Command
  <2>3. QED  BY <2>1, <2>2 DEF CommandAt, Nothing
<1>3. \A i \in Nat \ {0}, x \in R : Next1(i, x) \in R
  <2> SUFFICES ASSUME NEW i \in Nat \ {0}, NEW x \in R PROVE Next1(i, x) \in R
    OBVIOUS
  <2>1. Ok(i, x) \in BOOLEAN  OBVIOUS
  <2>2. x.offset + CommandAt(image, i).size \in Nat
    BY <1>2
  <2>3. x.tables + (IF CommandAt(image, i).symtab THEN 1 ELSE 0) \in Nat
    OBVIOUS
  <2> HIDE DEF Ok
  <2>4. QED  BY <2>1, <2>2, <2>3
<1>4. AcceptedDarwin(image, target) <=>
        /\ image.length >= Header /\ image.magic /\ image.cpu = target
        /\ End(image) <= image.length /\ 2 * image.count <= End(image) - Header
        /\ walk[n].ok /\ walk[n].offset = End(image) /\ walk[n].tables = 1
  BY DEF AcceptedDarwin
<1> HIDE DEF Next1, first, R
<1>5. step \in [Nat -> [R -> R]] /\ \A i \in Nat \ {0}, x \in R : step[i][x] = Next1(i, x)
  BY <1>1, <1>3
<1> HIDE DEF step
<1>6. PICK f : Iterates(f, R, first, step)
  BY <1>1, <1>5, Recursion
<1>7. ASSUME NEW i \in Nat \ {0} PROVE f[i] = Next1(i, f[i - 1])
  <2>1. i - 1 \in Nat /\ (i - 1) + 1 = i  OBVIOUS
  <2>2. f[i - 1] \in R /\ f[i] = step[i][f[i - 1]]
    BY <1>6, <2>1 DEF Iterates
  <2>3. QED  BY <1>5, <2>2
<1> DEFINE W == [i \in 0 .. n |-> f[i]]
<1>8. Eq(W)
  <2>1. ASSUME NEW i \in 0 .. n
        PROVE  f[i] = IF i = 0 THEN first ELSE Next1(i, W[i - 1])
    <3>1. CASE i = 0  BY <1>6, <3>1 DEF Iterates
    <3>2. CASE i # 0
      <4>1. W[i - 1] = f[i - 1] /\ i \in Nat \ {0}  BY <1>1, <3>2
      <4> HIDE DEF W
      <4>2. QED  BY <1>7, <3>2, <4>1
    <3>3. QED  BY <3>1, <3>2
  <2>2. QED  BY <2>1
<1>9. Eq(walk)
  <2> HIDE DEF Eq, W
  <2>1. QED  BY <1>8
<1> HIDE DEF walk, W
<1>10. walk[0] = first /\ \A i \in 1 .. n : walk[i] = Next1(i, walk[i - 1])
  <2>1. walk[0] = first  BY <1>1, <1>9
  <2>2. ASSUME NEW i \in 1 .. n PROVE walk[i] = Next1(i, walk[i - 1])
    <3>1. i \in 0 .. n /\ i # 0  BY <1>1
    <3>2. QED  BY <1>9, <3>1
  <2>3. QED  BY <2>1, <2>2
<1> HIDE DEF Eq
<1> DEFINE T == {i \in Nat : i <= n => walk[i] \in R}
<1>11. Nat \subseteq T
  <2>1. 0 \in T  BY <1>1, <1>10
  <2>2. ASSUME NEW i \in Nat, i \in T PROVE i + 1 \in T
    <3> SUFFICES ASSUME i + 1 <= n PROVE walk[i + 1] \in R
      OBVIOUS
    <3>1. i + 1 \in 1 .. n /\ (i + 1) - 1 = i /\ i + 1 \in Nat \ {0} /\ walk[i] \in R
      BY <1>1, <2>2
    <3>2. QED  BY <1>3, <1>10, <3>1
  <2> HIDE DEF T
  <2>3. QED  BY <2>1, <2>2, Induction
<1>12. \A i \in 0 .. n : walk[i] \in R
  BY <1>1, <1>11
<1> DEFINE ok == [i \in 0 .. n |-> walk[i].ok]
           offset == [i \in 0 .. n |-> walk[i].offset]
           tables == [i \in 0 .. n |-> walk[i].tables]
<1>13. \A i \in 0 .. n : /\ ok[i] = walk[i].ok /\ offset[i] = walk[i].offset
                         /\ tables[i] = walk[i].tables
                         /\ offset[i] \in Nat /\ tables[i] \in Nat
  BY <1>12 DEF R
<1> HIDE DEF ok, offset, tables
<1>14. ASSUME NEW i \in 1 .. n
       PROVE  /\ ok[i] <=> ok[i - 1] /\ Follows(image, i, offset[i - 1], tables[i - 1])
              /\ offset[i] = offset[i - 1] + CommandAt(image, i).size
              /\ tables[i] = tables[i - 1] + (IF CommandAt(image, i).symtab THEN 1 ELSE 0)
  <2>1. i \in 0 .. n /\ i - 1 \in 0 .. n  BY <1>1
  <2>2. walk[i] = Next1(i, walk[i - 1])  BY <1>10
  <2>3. ok[i] = Ok(i, walk[i - 1])
    <3> HIDE DEF Ok
    <3>1. QED  BY <1>13, <2>1, <2>2 DEF Next1
  <2>4. Ok(i, walk[i - 1]) <=> ok[i - 1] /\ Follows(image, i, offset[i - 1], tables[i - 1])
    BY <1>13, <2>1 DEF Follows, Plus
  <2>5. /\ offset[i] = walk[i - 1].offset + CommandAt(image, i).size
        /\ tables[i] = walk[i - 1].tables + (IF CommandAt(image, i).symtab THEN 1 ELSE 0)
    <3> HIDE DEF Ok
    <3>1. QED  BY <1>13, <2>1, <2>2 DEF Next1
  <2>6. QED  BY <1>13, <2>1, <2>3, <2>4, <2>5
<1>15. ok[0] /\ offset[0] = Header /\ tables[0] = 0 /\ n \in 0 .. n
  BY <1>1, <1>10, <1>13 DEF first
<1>16. IsWalk(ok, offset, tables, image)
  BY <1>13, <1>14, <1>15 DEF IsWalk
<1>17. QED  BY <1>4, <1>13, <1>15, <1>16

\* The first commands of an image, and the room they take up.
LEMMA FirstCommands ==
  ASSUME NEW image, IsImage(image), image.count <= Len(image.commands)
  PROVE  LET commands == SubSeq(image.commands, 1, image.count)
         IN  /\ commands \in Seq(Command) /\ Len(commands) = image.count
             /\ \A i \in 1 .. image.count :
                  commands[i] = image.commands[i] /\ CommandAt(image, i) = commands[i]
                  /\ commands[i] \in Command /\ commands[i].size \in Nat
<1> DEFINE n == image.count
           commands == SubSeq(image.commands, 1, n)
<1>1. n \in Nat /\ image.commands \in Seq(Command) /\ Len(image.commands) \in Nat
      /\ n <= Len(image.commands)
  BY DEF IsImage
<1>2. commands \in Seq(Command) /\ Len(commands) = n
  BY <1>1
<1>3. ASSUME NEW i \in 1 .. n
      PROVE  commands[i] = image.commands[i] /\ CommandAt(image, i) = commands[i]
             /\ commands[i] \in Command
  <2>1. commands[i] = image.commands[i] /\ i <= Len(image.commands)
    BY <1>1
  <2>2. QED  BY <1>2, <2>1 DEF CommandAt
<1>4. \A c \in Command : c.size \in Nat  BY DEF Command
<1>5. QED  BY <1>2, <1>3, <1>4

\* Commands end where their sizes add up to.
LEMMA CommandOffsets ==
  ASSUME NEW image, IsImage(image), image.count <= Len(image.commands),
         NEW ok, NEW offset, NEW tables, IsWalk(ok, offset, tables, image),
         NEW commands, commands = SubSeq(image.commands, 1, image.count),
         NEW sum, IsRoom(sum, commands)
  PROVE  \A i \in 0 .. image.count : offset[i] = Header + sum[i] /\ sum[i] \in Nat
<1> DEFINE n == image.count
           T == {i \in Nat : i <= n => offset[i] = Header + sum[i] /\ sum[i] \in Nat}
<1>1. n \in Nat  BY DEF IsImage
<1>2. sum[0] = 0 /\ \A i \in 1 .. n : /\ sum[i] = sum[i - 1] + CommandAt(image, i).size
                                      /\ CommandAt(image, i).size \in Nat
  BY FirstCommands DEF IsRoom
<1>3. 0 \in T
  BY <1>2 DEF IsWalk, Header
<1>4. ASSUME NEW i \in Nat, i \in T PROVE i + 1 \in T
  <2> SUFFICES ASSUME i + 1 <= n
               PROVE  offset[i + 1] = Header + sum[i + 1] /\ sum[i + 1] \in Nat
    OBVIOUS
  <2>1. i + 1 \in 1 .. n /\ (i + 1) - 1 = i /\ offset[i] = Header + sum[i] /\ sum[i] \in Nat
    BY <1>1, <1>4
  <2>2. offset[i + 1] = offset[i] + CommandAt(image, i + 1).size
    BY <2>1 DEF IsWalk
  <2>3. sum[i + 1] = sum[i] + CommandAt(image, i + 1).size /\ CommandAt(image, i + 1).size \in Nat
    BY <1>2, <2>1
  <2>4. QED  BY <2>1, <2>2, <2>3 DEF Header
<1> HIDE DEF T
<1>5. Nat \subseteq T  BY <1>3, <1>4, Induction
<1>6. ASSUME NEW i \in 0 .. n PROVE offset[i] = Header + sum[i] /\ sum[i] \in Nat
  <2>1. i \in Nat /\ i <= n  BY <1>1
  <2>2. QED  BY <1>5, <2>1 DEF T
<1> HIDE DEF n
<1>7. \A i \in 0 .. n : offset[i] = Header + sum[i] /\ sum[i] \in Nat
  BY <1>6
<1>8. QED  BY <1>7 DEF n

\* As long as all is well there is no table, or one, and it is where it should be.
LEMMA Tables ==
  ASSUME NEW image, IsImage(image),
         NEW ok, NEW offset, NEW tables, IsWalk(ok, offset, tables, image)
  PROVE  \A i \in 0 .. image.count : ok[i] =>
           /\ \A j \in 1 .. i : CommandAt(image, j).size >= 2
           /\ \/ tables[i] = 0 /\ \A j \in 1 .. i : ~CommandAt(image, j).symtab
              \/ /\ tables[i] = 1
                 /\ \E k \in 1 .. i : /\ \A j \in 1 .. i : CommandAt(image, j).symtab <=> j = k
                                      /\ TableFits(image, CommandAt(image, k))
<1> DEFINE n == image.count
           Large(i) == \A j \in 1 .. i : CommandAt(image, j).size >= 2
           None(i) == \A j \in 1 .. i : ~CommandAt(image, j).symtab
           One(i, k) == /\ \A j \in 1 .. i : CommandAt(image, j).symtab <=> j = k
                        /\ TableFits(image, CommandAt(image, k))
           P(i) == ok[i] =>
                     /\ Large(i)
                     /\ \/ tables[i] = 0 /\ None(i)
                        \/ tables[i] = 1 /\ \E k \in 1 .. i : One(i, k)
           T == {i \in Nat : i <= n => P(i)}
<1>1. n \in Nat  BY DEF IsImage
<1>2. 0 \in T
  BY DEF IsWalk
<1>3. ASSUME NEW i \in Nat, i \in T PROVE i + 1 \in T
  <2> SUFFICES ASSUME i + 1 <= n, ok[i + 1]
               PROVE  /\ Large(i + 1)
                      /\ \/ tables[i + 1] = 0 /\ None(i + 1)
                         \/ tables[i + 1] = 1 /\ \E k \in 1 .. i + 1 : One(i + 1, k)
    OBVIOUS
  <2>1. i + 1 \in 1 .. n /\ (i + 1) - 1 = i  BY <1>1
  <2>2. /\ ok[i] /\ Follows(image, i + 1, offset[i], tables[i])
        /\ tables[i + 1] = tables[i] + (IF CommandAt(image, i + 1).symtab THEN 1 ELSE 0)
    BY <2>1 DEF IsWalk
  <2>3. P(i)
    <3>1. i <= n  BY <1>1, <2>1
    <3> HIDE DEF P
    <3>2. QED  BY <1>3, <3>1
  <2>4. \A j \in 1 .. i + 1 : j \in 1 .. i \/ j = i + 1
    OBVIOUS
  <2>5. 1 .. i \subseteq 1 .. i + 1 /\ i + 1 \in 1 .. i + 1 /\ i + 1 \notin 1 .. i
    OBVIOUS
  <2>6. Large(i + 1)
    <3>1. Large(i)  BY <2>2, <2>3
    <3>2. CommandAt(image, i + 1).size >= 2  BY <2>2 DEF Follows
    <3>3. QED  BY <2>4, <3>1, <3>2
  <2>7. CASE CommandAt(image, i + 1).symtab
    <3>1. tables[i] = 0 /\ TableFits(image, CommandAt(image, i + 1)) /\ tables[i + 1] = 1
      BY <2>2, <2>7 DEF Follows
    <3>2. None(i)  BY <2>2, <2>3, <3>1
    <3>3. One(i + 1, i + 1)  BY <2>4, <2>5, <2>7, <3>1, <3>2
    <3> HIDE DEF One
    <3>4. QED  BY <2>5, <2>6, <3>1, <3>3
  <2>8. CASE ~CommandAt(image, i + 1).symtab
    <3>1. tables[i + 1] = tables[i] + 0  BY <2>2, <2>8
    <3>2. CASE tables[i] = 0 /\ None(i)
      <4>1. None(i + 1) /\ tables[i + 1] = 0  BY <2>4, <2>8, <3>1, <3>2
      <4> HIDE DEF None, One, Large
      <4>2. QED  BY <2>6, <4>1
    <3>3. CASE tables[i] = 1 /\ \E k \in 1 .. i : One(i, k)
      <4>1. PICK k \in 1 .. i : One(i, k)  BY <3>3
      <4>2. One(i + 1, k) /\ k \in 1 .. i + 1  BY <2>4, <2>5, <2>8, <4>1
      <4>3. tables[i + 1] = 1  BY <3>1, <3>3
      <4> HIDE DEF None, One, Large
      <4>4. QED  BY <2>6, <4>2, <4>3
    <3>4. QED  BY <2>2, <2>3, <3>2, <3>3
  <2>9. QED  BY <2>7, <2>8
<1> HIDE DEF T
<1>4. Nat \subseteq T  BY <1>2, <1>3, Induction
<1>5. \A i \in 0 .. n : P(i)  BY <1>1, <1>4 DEF T
<1>6. QED  BY <1>5

\* Whatever its fields and its commands are, an image that is accepted can be loaded.
THEOREM AcceptedImages ==
  ASSUME NEW image, IsImage(image), NEW target, AcceptedDarwin(image, target)
  PROVE  Loadable(image, target)
<1> DEFINE n == image.count
           commands == SubSeq(image.commands, 1, n)
           data == Header + image.commandsSize .. image.length - 1
           Span(from, size) == from .. from + size - 1
<1>1. n \in Nat /\ image.commandsSize \in Nat /\ image.length \in Nat
      /\ Len(image.commands) \in Nat
  BY DEF IsImage
<1>2. PICK ok, offset, tables :
        /\ IsWalk(ok, offset, tables, image)
        /\ image.cpu = target
        /\ ok[n] /\ offset[n] = End(image) /\ tables[n] = 1
  BY Walks
<1>3. PICK k \in 1 .. n : /\ \A j \in 1 .. n : CommandAt(image, j).symtab <=> j = k
                          /\ TableFits(image, CommandAt(image, k))
  <2>1. n \in 0 .. n  BY <1>1
  <2>2. QED  BY <1>2, <2>1, Tables
<1>4. n <= Len(image.commands)
  <2> SUFFICES ASSUME n > Len(image.commands) PROVE FALSE
    BY <1>1
  <2>1. n \in 0 .. n /\ n \in 1 .. n  BY <1>1, <1>3
  <2>2. CommandAt(image, n).size >= 2  BY <1>2, <2>1, Tables
  <2>3. CommandAt(image, n) = Nothing  BY <1>1 DEF CommandAt
  <2>4. QED  BY <2>2, <2>3 DEF Nothing
<1>5. commands \in Seq(Command) /\ Len(commands) = n
      /\ \A i \in 1 .. n : CommandAt(image, i) = commands[i] /\ commands[i] \in Command
  BY <1>4, FirstCommands
<1> HIDE DEF commands
<1>6. PICK sum : IsRoom(sum, commands) /\ CommandsSize(commands) = sum[Len(commands)]
  BY <1>5, Rooms
<1>7. CommandsSize(commands) = image.commandsSize
  <2>1. n \in 0 .. n  BY <1>1
  <2>2. offset[n] = Header + sum[n] /\ sum[n] \in Nat
    <3>1. commands = SubSeq(image.commands, 1, image.count)  BY DEF commands
    <3>2. QED  BY <1>2, <1>4, <1>6, <2>1, <3>1, CommandOffsets
  <2>3. QED  BY <1>1, <1>2, <1>5, <1>6, <2>2 DEF End, Plus, Header
<1>8. PICK table : table = commands[k]
  OBVIOUS
<1>9. /\ table.symbols \in Nat /\ table.entries \in Nat
      /\ table.strings \in Nat /\ table.pool \in Nat
  <2>1. table \in Command /\ table.symtab  BY <1>3, <1>5, <1>8
  <2>2. QED  BY <2>1 DEF Command
<1>10. TableFits(image, table)
  BY <1>3, <1>5, <1>8
<1>11. /\ Span(table.symbols, Entry * table.entries) \subseteq data
       /\ Span(table.strings, table.pool) \subseteq data
       /\ table.pool > 0 /\ table.strings % 2 = 0
  <2>1. /\ table.symbols >= 8 + image.commandsSize
        /\ table.symbols + 4 * table.entries <= image.length
        /\ table.pool > 0 /\ table.strings >= 8 + image.commandsSize
        /\ table.strings + table.pool <= image.length
        /\ table.strings % 2 = 0
    BY <1>10 DEF TableFits, End, Plus, Header, Entry
  <2>2. ASSUME NEW from \in Nat, NEW size \in Nat,
               from >= 8 + image.commandsSize, from + size <= image.length
        PROVE  Span(from, size) \subseteq data
    BY <1>1, <2>2 DEF Header
  <2>3. Entry * table.entries \in Nat /\ table.symbols + Entry * table.entries <= image.length
    BY <1>9, <2>1 DEF Entry
  <2> HIDE DEF Span, data
  <2>4. QED  BY <1>9, <2>1, <2>2, <2>3
<1>12. \A j \in 1 .. n : commands[j].symtab <=> j = k
  BY <1>3, <1>5
<1>13. QED
  BY <1>2, <1>4, <1>7, <1>8, <1>11, <1>12 DEF Loadable, commands

\* An image all of whose commands are even and whose table fits is accepted if it
\* can be loaded.
THEOREM LoadableImages ==
  ASSUME NEW image, IsImage(image), NEW target, Loadable(image, target),
         image.magic, End(image) <= image.length,
         \A i \in 1 .. image.count :
           LET command == CommandAt(image, i)
           IN  /\ command.size >= 2 /\ command.size % 2 = 0
               /\ command.symtab => TableFits(image, command)
  PROVE  AcceptedDarwin(image, target)
<1> DEFINE n == image.count
           commands == SubSeq(image.commands, 1, n)
<1>1. n \in Nat /\ image.commandsSize \in Nat /\ image.length \in Nat
      /\ Len(image.commands) \in Nat
  BY DEF IsImage
<1>2. n <= Len(image.commands) /\ CommandsSize(commands) = image.commandsSize
      /\ image.cpu = target
  BY <1>1 DEF Loadable
<1>3. PICK k \in 1 .. n : \A j \in 1 .. n : commands[j].symtab <=> j = k
  BY DEF Loadable
<1>4. commands \in Seq(Command) /\ Len(commands) = n
      /\ \A i \in 1 .. n : CommandAt(image, i) = commands[i] /\ commands[i].size \in Nat
  BY <1>2, FirstCommands
<1> HIDE DEF commands
<1>5. PICK sum : IsRoom(sum, commands) /\ CommandsSize(commands) = sum[Len(commands)]
  BY <1>4, Rooms
<1>6. PICK ok, offset, tables :
        /\ IsWalk(ok, offset, tables, image)
        /\ AcceptedDarwin(image, target) <=>
             /\ image.length >= Header /\ image.magic /\ image.cpu = target
             /\ End(image) <= image.length /\ 2 * n <= End(image) - Header
             /\ ok[n] /\ offset[n] = End(image) /\ tables[n] = 1
  BY Walks
<1>7. \A i \in 0 .. n : offset[i] = Header + sum[i] /\ sum[i] \in Nat
  <2>1. commands = SubSeq(image.commands, 1, image.count)  BY DEF commands
  <2>2. QED  BY <1>2, <1>5, <1>6, <2>1, CommandOffsets
<1>8. End(image) = Header + sum[n] /\ End(image) \in Nat /\ End(image) >= Header
  <2>1. n \in 0 .. n  BY <1>1
  <2>2. QED  BY <1>1, <1>2, <1>4, <1>5, <1>7, <2>1 DEF End, Plus, Header
<1>9. \A i \in 0 .. n : sum[i] <= sum[n]
  <2>1. n \in 0 .. n  BY <1>1
  <2>2. QED  BY <1>4, <1>5, <2>1 DEF IsRoom
<1> DEFINE P(i) == ok[i] /\ 2 * i <= sum[i] /\ tables[i] = (IF i < k THEN 0 ELSE 1)
           T == {i \in Nat : i <= n => P(i)}
<1>10. 0 \in T
  BY <1>5, <1>6 DEF IsWalk, IsRoom
<1>11. ASSUME NEW i \in Nat, i \in T PROVE i + 1 \in T
  <2> SUFFICES ASSUME i + 1 <= n PROVE P(i + 1)
    OBVIOUS
  <2>1. i + 1 \in 1 .. n /\ (i + 1) - 1 = i /\ i \in 0 .. n /\ i + 1 \in 0 .. n  BY <1>1
  <2>2. PICK command : command = CommandAt(image, i + 1)
    OBVIOUS
  <2>3. /\ command.size >= 2 /\ command.size % 2 = 0 /\ command.size \in Nat
        /\ command.symtab => TableFits(image, command)
        /\ command.symtab <=> i + 1 = k
    BY <1>3, <1>4, <2>1, <2>2
  <2>4. P(i)  BY <1>11, <2>1
  <2>5. sum[i + 1] = sum[i] + command.size
    BY <1>4, <1>5, <2>1, <2>2 DEF IsRoom
  <2>6. 2 * (i + 1) <= sum[i + 1]
    <3>1. sum[i] \in Nat  BY <1>7, <2>1
    <3>2. QED  BY <2>3, <2>4, <2>5, <3>1
  <2>7. offset[i] + 2 <= End(image) /\ offset[i] + command.size <= End(image)
    <3>1. sum[i] \in Nat /\ sum[n] \in Nat /\ sum[i + 1] <= sum[n] /\ offset[i] = Header + sum[i]
      BY <1>1, <1>7, <1>9, <2>1
    <3>2. QED  BY <1>8, <2>3, <2>5, <3>1 DEF Header
  <2>8. i + 1 = k => tables[i] = 0
    BY <2>4
  <2>9. Follows(image, i + 1, offset[i], tables[i])
    BY <2>2, <2>3, <2>7, <2>8 DEF Follows
  <2>10. ok[i + 1] /\ tables[i + 1] = tables[i] + (IF command.symtab THEN 1 ELSE 0)
    BY <1>6, <2>1, <2>2, <2>4, <2>9 DEF IsWalk
  <2>11. tables[i + 1] = (IF i + 1 < k THEN 0 ELSE 1)
    BY <2>3, <2>4, <2>10
  <2>12. QED  BY <2>6, <2>10, <2>11
<1> HIDE DEF T
<1>12. P(n)
  <2>1. n \in T  BY <1>1, <1>10, <1>11, Induction
  <2>2. QED  BY <1>1, <2>1 DEF T
<1>13. 2 * n <= End(image) - Header /\ tables[n] = 1 /\ offset[n] = End(image)
  <2>1. n \in 0 .. n /\ ~(n < k)  BY <1>1
  <2>2. QED  BY <1>7, <1>8, <1>12, <2>1 DEF Header
<1>14. image.length >= Header
  BY <1>1, <1>8 DEF Header
<1>15. QED  BY <1>2, <1>6, <1>12, <1>13, <1>14

\* Commands other than the table, as a linker makes them.
Padded == {c \in [symtab : {FALSE}, size : Nat] : c.size >= 2 /\ c.size % 2 = 0}

\* An image a linker makes is accepted just if it can be loaded: if its padding
\* aligns the string pool and the pool is not empty.
THEOREM LinkedImagesExactly ==
  ASSUME NEW before \in Seq(Padded), NEW after \in Seq(Padded),
         NEW entries \in Nat, NEW padding \in Nat, NEW pool \in Nat
  PROVE  LET image == Linked(before, after, entries, padding, pool)
         IN  /\ IsImage(image)
             /\ AcceptedDarwin(image, "arm64") <=> Loadable(image, "arm64")
<1> DEFINE room == CommandsSize(before \o after)
           end == Header + room + 6
           strings == end + Entry * entries + padding
           table == Table(6, end, entries, strings, pool)
           commands == before \o <<table>> \o after
           image == [length |-> strings + pool, magic |-> TRUE, cpu |-> "arm64",
                     commandsSize |-> end - Header, count |-> Len(commands),
                     commands |-> commands]
<1>1. Padded \subseteq Command /\ \A c \in Padded : c.symtab = FALSE
  BY DEF Padded, Command
<1>2. room \in Nat
  <2>1. before \o after \in Seq(Command)
    BY <1>1
  <2> HIDE DEF room
  <2>2. PICK sum : IsRoom(sum, before \o after) /\ room = sum[Len(before \o after)]
    BY <2>1, Rooms DEF room
  <2>3. Len(before \o after) \in 0 .. Len(before \o after)
    BY <2>1
  <2>4. QED  BY <2>2, <2>3 DEF IsRoom
<1>3. Linked(before, after, entries, padding, pool) = image
  BY DEF Linked
<1> HIDE DEF room
<1>4. end \in Nat /\ strings \in Nat /\ strings >= end + Entry * entries /\ Entry * entries \in Nat
  BY <1>2 DEF Header, Entry
<1>5. /\ table \in Command /\ table.symtab = TRUE /\ table.size = 6
      /\ table.symbols = end /\ table.entries = entries
      /\ table.strings = strings /\ table.pool = pool
  <2> HIDE DEF strings, end
  <2>1. QED  BY <1>4 DEF Table, Command
<1> HIDE DEF table
<1>6. commands \in Seq(Padded \cup {table}) /\ commands \in Seq(Command)
  <2>1. <<table>> \in Seq(Padded \cup {table})  OBVIOUS
  <2>2. before \in Seq(Padded \cup {table}) /\ after \in Seq(Padded \cup {table})
    OBVIOUS
  <2>3. commands \in Seq(Padded \cup {table})
    BY <2>1, <2>2
  <2>4. QED  BY <1>1, <1>5, <2>3
<1> HIDE DEF commands
<1>7. /\ image.length = strings + pool /\ image.magic = TRUE
      /\ image.commandsSize = end - Header /\ image.count = Len(commands)
      /\ image.commands = commands
  OBVIOUS
<1>8. end - Header \in Nat
  BY <1>2 DEF Header
<1> HIDE DEF image, strings, end
<1>9. IsImage(image)
  BY <1>4, <1>6, <1>7, <1>8 DEF IsImage
<1>10. End(image) = end /\ End(image) <= image.length
  BY <1>4, <1>7, <1>8 DEF End, Plus, Header
<1>11. ASSUME Loadable(image, "arm64") PROVE AcceptedDarwin(image, "arm64")
  <2>1. PICK k \in 1 .. Len(commands) :
          LET first == SubSeq(image.commands, 1, image.count)
          IN  /\ \A j \in 1 .. Len(commands) : first[j].symtab <=> j = k
              /\ first[k].pool > 0 /\ first[k].strings % 2 = 0
    BY <1>7, <1>11 DEF Loadable
  <2>2. \A i \in 1 .. Len(commands) :
          /\ SubSeq(image.commands, 1, image.count)[i] = commands[i]
          /\ CommandAt(image, i) = commands[i]
          /\ commands[i] \in Padded \cup {table}
    BY <1>6, <1>7 DEF CommandAt
  <2>3. commands[k] = table
    <3>1. commands[k].symtab  BY <2>1, <2>2
    <3>2. QED  BY <1>1, <2>2, <3>1
  <2>4. pool > 0 /\ strings % 2 = 0
    BY <1>5, <2>1, <2>2, <2>3
  <2>5. TableFits(image, table)
    BY <1>4, <1>5, <1>7, <1>10, <2>4 DEF TableFits, Plus
  <2>6. ASSUME NEW i \in 1 .. image.count
        PROVE  LET command == CommandAt(image, i)
               IN  /\ command.size >= 2 /\ command.size % 2 = 0
                   /\ command.symtab => TableFits(image, command)
    <3>1. CommandAt(image, i) \in Padded \cup {table}
      BY <1>7, <2>2
    <3>2. CASE CommandAt(image, i) = table
      BY <1>5, <2>5, <3>2
    <3>3. CASE CommandAt(image, i) \in Padded
      BY <1>1, <3>3 DEF Padded
    <3>4. QED  BY <3>1, <3>2, <3>3
  <2>7. QED  BY <1>7, <1>9, <1>10, <1>11, <2>6, LoadableImages
<1>12. QED  BY <1>3, <1>9, <1>11, AcceptedImages

\* The linked images that are enumerated are linked so.
LEMMA LinkedTypes ==
  ASSUME NEW image \in LinkedImages
  PROVE  IsImage(image) /\ (AcceptedDarwin(image, "arm64") <=> Loadable(image, "arm64"))
<1>1. Plain(2) \in Padded /\ Plain(4) \in Padded
  BY DEF Plain, Padded
<1>2. Plains \subseteq Seq(Padded)
  BY <1>1 DEF Plains
<1>3. PICK before \in Plains, after \in Plains, entries \in 0 .. 2, padding \in 0 .. 2,
           pool \in 1 .. 3 : image = Linked(before, after, entries, padding, pool)
  BY DEF LinkedImages
<1>4. QED  BY <1>2, <1>3, LinkedImagesExactly

-----------------------------------------------------------------------------
(***************************************************************************)
(* What is inspected in a behaviour                                        *)
(***************************************************************************)
\* What may be inspected are such images and versions.
LEMMA ImageTypes ==
  ASSUME NEW image \in LinkedImages \cup OtherImages
  PROVE  IsImage(image)
<1>1. ASSUME image \in LinkedImages PROVE IsImage(image)
  BY <1>1, LinkedTypes
<1>2. UsualTable \in Command /\ [UsualTable EXCEPT !.size = 4] \in Command
  BY DEF UsualTable, Table, Command
<1>3. Commands \subseteq Command
  <2>1. ASSUME NEW n \in 0 .. 4 PROVE Plain(n) \in Command
    <3>1. n \in Nat  OBVIOUS
    <3>2. [symtab |-> FALSE, size |-> n] \in [symtab : {FALSE}, size : Nat]
      BY <3>1
    <3>3. QED  BY <3>2 DEF Plain, Command
  <2>2. QED  BY <1>2, <2>1 DEF Commands
<1> DEFINE One(magic, cpu, size, count, commands) ==
             [length |-> 24, magic |-> magic, cpu |-> cpu, commandsSize |-> size,
              count |-> count, commands |-> commands]
           Two(length, symbols, entries, strings, pool) ==
             [length |-> length, magic |-> TRUE, cpu |-> "arm64", commandsSize |-> 6,
              count |-> 1, commands |-> <<Table(6, symbols, entries, strings, pool)>>]
<1>4. ASSUME NEW magic \in BOOLEAN, NEW cpu, NEW size \in {6, 8, 10}, NEW count \in 0 .. 3,
             NEW n \in 1 .. 2, NEW commands \in [1 .. n -> Commands],
             image = One(magic, cpu, size, count, commands)
      PROVE  IsImage(image)
  <2>1. commands \in Seq(Command)  BY <1>3
  <2>2. QED  BY <1>4, <2>1 DEF IsImage
<1>5. ASSUME NEW length \in Lengths, NEW symbols \in Offsets,
             NEW entries \in 0 .. 2 \cup {2^Bits - 1}, NEW strings \in Offsets,
             NEW pool \in Offsets,
             image = Two(length, symbols, entries, strings, pool)
      PROVE  IsImage(image)
  <2>1. /\ length \in 0 .. 2^Bits - 1 /\ symbols \in 0 .. 2^Bits - 1
        /\ strings \in 0 .. 2^Bits - 1 /\ pool \in 0 .. 2^Bits - 1
    BY FormatsAssumption
  <2>2. 2^Bits - 1 \in Int  BY FormatsAssumption
  <2>3. PICK top \in Int : top = 2^Bits - 1  BY <2>2
  <2>4. length \in Nat /\ symbols \in Nat /\ strings \in Nat /\ pool \in Nat /\ entries \in Nat
    BY <2>1, <2>3
  <2>5. Table(6, symbols, entries, strings, pool) \in Command
    BY <2>4 DEF Table, Command
  <2> HIDE DEF Two
  <2>6. <<Table(6, symbols, entries, strings, pool)>> \in Seq(Command)
    BY <2>5
  <2>7. QED  BY <1>5, <2>4, <2>6 DEF IsImage, Two
<1>6. QED  BY <1>1, <1>4, <1>5 DEF OtherImages

\* The versions that are enumerated are not empty, and finitely many.
LEMMA VersionTypes ==
  Versions \subseteq Seq(Nat) \ {<<>>} /\ IsFiniteSet(Versions)
<1>1. \A v \in Versions : v \in Seq(Nat) /\ v # <<>>
  <2>1. \A k, l, m \in Nat : /\ <<k, l>> \in Seq(Nat) /\ <<k, l>> # <<>>
                            /\ <<k, l, m>> \in Seq(Nat) /\ <<k, l, m>> # <<>>
    OBVIOUS
  <2>2. QED  BY <2>1 DEF Versions
<1>2. /\ IsFiniteSet({<<2, 2, 5>>}) /\ IsFiniteSet({<<2, 4>>}) /\ IsFiniteSet({<<2, 34>>})
      /\ IsFiniteSet({<<2, 35>>}) /\ IsFiniteSet({<<2, 35, 1>>}) /\ IsFiniteSet({<<2, 36>>})
      /\ IsFiniteSet({<<3, 0>>})
  BY FS_Singleton
<1>3. IsFiniteSet({<<2, 2, 5>>} \cup {<<2, 4>>} \cup {<<2, 34>>} \cup {<<2, 35>>}
                    \cup {<<2, 35, 1>>} \cup {<<2, 36>>} \cup {<<3, 0>>})
  BY <1>2, FS_Union
<1>4. Versions = {<<2, 2, 5>>} \cup {<<2, 4>>} \cup {<<2, 34>>} \cup {<<2, 35>>}
                    \cup {<<2, 35, 1>>} \cup {<<2, 36>>} \cup {<<3, 0>>}
  BY DEF Versions
<1>5. QED  BY <1>1, <1>3, <1>4

\* What has been inspected is one of the artifacts, and the verdict is about it.
Inspected ==
  \/ artifact = [kind |-> "none"]
  \/ \E image \in LinkedImages \cup OtherImages, target \in {"arm64", "x64"} :
       /\ artifact = [kind |-> "darwin", image |-> image, target |-> target]
       /\ verdict = AcceptedDarwin(image, target)
  \/ \E needed \in SUBSET Versions, target \in {"gnu", "musl"} :
       /\ artifact = [kind |-> "linux", needed |-> needed, target |-> target]
       /\ verdict = AcceptedLinux(needed, target)

\* Inspected is an invariant.
LEMMA Inspections == FormatSpec => []Inspected
<1>1. FormatInit => Inspected
  BY DEF FormatInit, Inspected
<1>2. Inspected /\ [FormatNext]_formatVars => Inspected'
  <2> SUFFICES ASSUME Inspected, [FormatNext]_formatVars PROVE Inspected'
    OBVIOUS
  <2>1. ASSUME NEW image \in LinkedImages \cup OtherImages, NEW target \in {"arm64", "x64"},
               InspectDarwin(image, target)
        PROVE  Inspected'
    BY <2>1 DEF InspectDarwin, Inspected
  <2>2. ASSUME NEW needed \in SUBSET Versions, NEW target \in {"gnu", "musl"},
               InspectLinux(needed, target)
        PROVE  Inspected'
    BY <2>2 DEF InspectLinux, Inspected
  <2>3. CASE UNCHANGED formatVars
    BY <2>3 DEF formatVars, Inspected
  <2>4. QED  BY <2>1, <2>2, <2>3 DEF FormatNext
<1>3. QED  BY <1>1, <1>2, PTL DEF FormatSpec

\* What is accepted before a release can be loaded, whatever the offsets, the lengths
\* and the width of the fields: every accepted Darwin image, just the loadable ones
\* of those a linker makes, and just the Linux images their target supports.
THEOREM AcceptedImagesAreLoadable == FormatSpec => []AcceptedImagesLoad
<1>1. Inspected => AcceptedImagesLoad
  <2> SUFFICES ASSUME Inspected PROVE AcceptedImagesLoad
    OBVIOUS
  <2>1. CASE artifact = [kind |-> "none"]
    BY <2>1 DEF AcceptedImagesLoad
  <2>2. ASSUME NEW image \in LinkedImages \cup OtherImages, NEW target,
               artifact = [kind |-> "darwin", image |-> image, target |-> target],
               verdict = AcceptedDarwin(image, target)
        PROVE  AcceptedImagesLoad
    <3>1. artifact.kind = "darwin" /\ artifact.image = image /\ artifact.target = target
      BY <2>2
    <3>2. verdict => Loadable(image, target)
      BY <2>2, ImageTypes, AcceptedImages
    <3>3. image \in LinkedImages /\ target = "arm64" => (verdict <=> Loadable(image, target))
      BY <2>2, LinkedTypes
    <3>4. QED  BY <3>1, <3>2, <3>3 DEF AcceptedImagesLoad
  <2>3. ASSUME NEW needed \in SUBSET Versions, NEW target,
               artifact = [kind |-> "linux", needed |-> needed, target |-> target],
               verdict = AcceptedLinux(needed, target)
        PROVE  AcceptedImagesLoad
    <3>1. artifact.kind = "linux" /\ artifact.needed = needed /\ artifact.target = target
      BY <2>3
    <3>2. IsFiniteSet(needed) /\ needed \in SUBSET (Seq(Nat) \ {<<>>})
      BY VersionTypes, FS_Subset
    <3>3. verdict <=> IF target = "musl" THEN needed = {}
                        ELSE needed # {} /\ \A v \in needed : Supported(v)
      BY <2>3, <3>2, LinuxImages
    <3>4. QED  BY <3>1, <3>3 DEF AcceptedImagesLoad
  <2>4. QED  BY <2>1, <2>2, <2>3 DEF Inspected
<1>2. QED  BY <1>1, Inspections, PTL
=============================================================================
