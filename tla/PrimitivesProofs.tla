-------------------------- MODULE PrimitivesProofs --------------------------
(***************************************************************************)
(* Theorems about what the exports that compute return, for every curve of  *)
(* the assumed structure, every block cipher and every size of a block: the *)
(* arithmetic of remainders and primes they rest on comes first, then the   *)
(* points, agreements and signatures, the chain of the blocks, and the      *)
(* selection of an entry.                                                   *)
(***************************************************************************)
EXTENDS Primitives, SequenceTheorems, WellFoundedInduction, TLAPS

-----------------------------------------------------------------------------
(* Arithmetic *)

\* A set of natural numbers has a least member.
LEMMA Least ==
  ASSUME NEW T, T \subseteq Nat, T # {}
  PROVE  \E x \in T : \A y \in T : x <= y
<1>1. IsWellFoundedOn(OpToRel(<, Nat), Nat)
  BY NatLessThanWellFounded
<1>2. PICK x \in T : \A y \in T : ~(<<y, x>> \in OpToRel(<, Nat))
  BY <1>1, WFMin
<1>3. \A y \in T : ~(y < x)
  BY <1>2 DEF OpToRel
<1> QED
  BY <1>3

\* Division, by its quotient.
LEMMA Quotient ==
  ASSUME NEW x \in Int, NEW n \in Nat \ {0}
  PROVE  x = n * (x \div n) + (x % n) /\ x % n \in 0..(n - 1) /\ x \div n \in Int
BY SMT

\* The same with a witness for the quotient,
LEMMA Divides ==
  ASSUME NEW x \in Int, NEW n \in Nat \ {0}
  PROVE  x % n \in 0..(n - 1) /\ \E q \in Int : x = n * q + (x % n)
BY Quotient

\* and for the remainder too.
LEMMA Divided ==
  ASSUME NEW x \in Int, NEW n \in Nat \ {0}
  PROVE  \E q \in Int, r \in 0..(n - 1) : x = n * q + r /\ r = x % n
BY Divides

\* What leaves no remainder is a multiple,
LEMMA Multiple ==
  ASSUME NEW x \in Int, NEW n \in Nat \ {0}, x % n = 0
  PROVE  \E q \in Int : x = n * q
<1>1. PICK q \in Int : x = n * q + (x % n)
  BY Divides
<1> QED
  BY <1>1

\* and what is added to a multiple, below the divisor, is the remainder.
LEMMA Remainder ==
  ASSUME NEW n \in Nat \ {0}, NEW q \in Int, NEW r \in 0..(n - 1)
  PROVE  (n * q + r) % n = r
BY SMT

\* What differs by a multiple has one remainder.
LEMMA SameRemainder ==
  ASSUME NEW n \in Nat \ {0}, NEW x \in Int, NEW q \in Int, NEW y, y = x + n * q
  PROVE  y % n = x % n
<1>1. x % n \in 0..(n - 1)
  BY Divides
<1>2. PICK p \in Int : x = n * p + (x % n)
  BY Divides
<1>3. PICK r \in 0..(n - 1) : r = x % n
  BY <1>1
<1>4. y = n * (p + q) + r
  BY <1>2, <1>3
<1>5. p + q \in Int
  OBVIOUS
<1> QED
  BY <1>3, <1>4, <1>5, Remainder

\* A common factor.
LEMMA Scaled ==
  ASSUME NEW c \in Nat \ {0}, NEW m \in Nat \ {0}, NEW x \in Int
  PROVE  (c * x) % (c * m) = c * (x % m)
<1>1. PICK q \in Int : x = m * q + (x % m)
  BY Divides
<1>2. PICK r \in 0..(m - 1) : r = x % m
  BY Divides
<1>3. PICK n \in Nat \ {0} : n = c * m
  <2>1. c * m \in Nat /\ c * m # 0
    BY SMT
  <2> QED
    BY <2>1
<1>4. c * r \in 0..(n - 1)
  <2>1. c * r >= 0 /\ c * r \in Int
    BY SMT
  <2>2. c * r <= c * (m - 1)
    BY SMT
  <2>3. c * (m - 1) = n - c
    BY <1>3
  <2> QED
    BY <2>1, <2>2, <2>3
<1>5. c * x = n * q + c * r
  <2>1. c * x = c * (m * q + r)
    BY <1>1, <1>2
  <2>3. c * (m * q + r) = c * (m * q) + c * r
    OBVIOUS
  <2>2. c * (m * q) = n * q
    BY <1>3
  <2> QED
    BY <2>1, <2>2, <2>3
<1>6. PICK s \in 0..(n - 1) : s = c * r
  BY <1>4
<1>7. (n * q + s) % n = s
  BY Remainder
<1> QED
  BY <1>2, <1>3, <1>5, <1>6, <1>7

\* A prime that divides a product divides one of the factors.
LEMMA Euclid ==
  ASSUME NEW p \in Nat, Prime(p), NEW a \in Int, NEW b \in Int, (a * b) % p = 0
  PROVE  a % p = 0 \/ b % p = 0
<1> SUFFICES ASSUME b % p # 0 PROVE a % p = 0
  OBVIOUS
<1> DEFINE T == {j \in 1..p : (j * b) % p = 0}
<1>1. p > 1 /\ \A d \in 2..(p - 1) : p % d # 0
  BY DEF Prime
<1>2. p \in T
  <2>1. (p * b + 0) % p = 0
    BY <1>1, Remainder
  <2>2. p * b + 0 = p * b
    BY SMT
  <2> QED
    BY <1>1, <2>1, <2>2
<1>3. PICK j \in 1..p : (j * b) % p = 0 /\ \A y \in 1..p : (y * b) % p = 0 => j <= y
  <2>1. T \subseteq Nat /\ T # {}
    BY <1>2
  <2>2. PICK j \in T : \A y \in T : j <= y
    <3> HIDE DEF T
    <3> QED
      BY <2>1, Least
  <2> QED
    BY <2>2
<1> HIDE DEF T
<1>0. p \in Nat \ {0} /\ j \in Nat \ {0}
  BY <1>1
<1>4. PICK m \in Int : j * b = p * m
  <2>1. j * b \in Int
    OBVIOUS
  <2> QED
    BY <1>0, <1>3, <2>1, Multiple
\* A multiple of j * b that lies below j is none.
<1>5. ASSUME NEW r \in Nat, r < j, NEW k \in Int, r * b = p * k
      PROVE  r = 0
  <2> SUFFICES ASSUME r # 0 PROVE FALSE
    OBVIOUS
  <2>1. (p * k + 0) % p = 0
    BY <1>0, Remainder
  <2>2. (r * b) % p = 0
    BY <1>5, <2>1
  <2>3. r \in 1..p
    BY <1>5
  <2> QED
    BY <1>3, <1>5, <2>2, <2>3
<1>6. j = p
  <2> SUFFICES ASSUME j # p PROVE FALSE
    OBVIOUS
  <2>1. j # 1
    <3> SUFFICES ASSUME j = 1 PROVE FALSE
      OBVIOUS
    <3>1. j * b = b
      BY SMT
    <3>2. (j * b) % p = b % p
      BY <3>1
    <3> QED
      BY <1>3, <3>2
  <2>2. p % j # 0
    <3>1. j \in 2..(p - 1)
      BY <2>1
    <3> QED
      BY <1>1, <3>1
  <2>3. PICK q \in Int, r \in 0..(j - 1) : p = j * q + r /\ r = p % j
    <3>1. p \in Int
      BY <1>0
    <3> QED
      BY <1>0, <3>1, Divided, Zenon
  <2>5. r * b = p * (b - q * m)
    <3>1. r = p - j * q
      BY <2>3
    <3>2. r * b = (p - j * q) * b
      BY <3>1
    <3>3. (p - j * q) * b = p * b - (j * b) * q
      OBVIOUS
    <3>4. (j * b) * q = (p * m) * q
      BY <1>4
    <3>5. p * b - (p * m) * q = p * (b - q * m)
      OBVIOUS
    <3> QED
      BY <3>2, <3>3, <3>4, <3>5
  <2>6. b - q * m \in Int
    OBVIOUS
  <2>7. r = 0
    <3>1. r \in Nat /\ r < j
      OBVIOUS
    <3> QED
      BY <1>5, <2>5, <2>6, <3>1
  <2> QED
    BY <2>2, <2>3, <2>7
<1>7. PICK q \in Int, r \in 0..(p - 1) : a = p * q + r /\ r = a % p
  BY <1>0, Divided
<1>9. PICK n \in Int : a * b = p * n
  <2>1. a * b \in Int
    OBVIOUS
  <2> QED
    BY <1>0, <2>1, Multiple, Zenon
<1>10. r * b = p * (n - q * b)
  <2>1. r * b = (a - p * q) * b
    BY <1>7
  <2>2. (a - p * q) * b = a * b - p * (q * b)
    OBVIOUS
  <2>3. p * n - p * (q * b) = p * (n - q * b)
    OBVIOUS
  <2> QED
    BY <1>9, <2>1, <2>2, <2>3
<1>11. n - q * b \in Int /\ r < j /\ r \in Nat
  BY <1>6
<1> QED
  BY <1>5, <1>7, <1>10, <1>11
-----------------------------------------------------------------------------
(* The two groups *)

\* The forms in which the lemmas above are used.
LEMMA Product ==
  ASSUME NEW p \in Nat, Prime(p), NEW a \in Int, NEW b \in Int, a % p # 0, b % p # 0,
         NEW x, x = a * b
  PROVE  x % p # 0
BY Euclid, Zenon

\* A factor of both comes out of the remainder.
LEMMA ScaledTo ==
  ASSUME NEW c \in Nat \ {0}, NEW m \in Nat \ {0}, NEW x \in Int,
         NEW y, y = c * x, NEW n, n = c * m
  PROVE  y % n = c * (x % m)
BY Scaled, Zenon

\* The sizes of the groups.
LEMMA Orders ==
  /\ Order \in Nat \ {0} /\ Order > 2 /\ Prime(Order)
  /\ TwistOrder \in Nat \ {0} /\ TwistOrder > 2 /\ Prime(TwistOrder)
  /\ Size("curve") = 8 * Order /\ Size("twist") = 4 * TwistOrder
  /\ Unit \in Nat /\ Unit > 1 /\ Unit < Order /\ Unit < TwistOrder /\ Order < 2 * Unit
  /\ Base \in Int /\ Base > 0 /\ Base < 8 * Order /\ Base % 8 = 0
BY CurveAssumption DEF Size

\* Below a prime there is no multiple of it,
LEMMA Below ==
  ASSUME NEW p \in Nat, NEW x \in 1..(p - 1)
  PROVE  x % p # 0
<1>1. p \in Nat \ {0} /\ x \in 0..(p - 1)
  OBVIOUS
<1>2. (p * 0 + x) % p = x
  BY <1>1, Remainder
<1>3. p * 0 + x = x
  OBVIOUS
<1> QED
  BY <1>2, <1>3

\* and it is odd.
LEMMA OddPrime ==
  ASSUME NEW p \in Nat, Prime(p), p > 2, NEW y \in Int
  PROVE  p # 2 * y
<1>1. p % 2 # 0
  BY DEF Prime
<1>2. (2 * y + 0) % 2 = 0
  BY Remainder
<1> QED
  BY <1>1, <1>2

\* It divides no power of two that a cofactor has.
LEMMA PowersOfTwo ==
  ASSUME NEW p \in Nat, Prime(p), p > 2
  PROVE  2 % p # 0 /\ 8 % p # 0
<1>1. 2 % p # 0
  <2>1. 2 \in 1..(p - 1)
    OBVIOUS
  <2> QED
    BY <2>1, Below
<1>2. 4 % p # 0
  <2>1. 4 = 2 * 2
    OBVIOUS
  <2> QED
    BY <1>1, <2>1, Euclid
<1>3. 8 % p # 0
  <2>1. 8 = 2 * 4
    OBVIOUS
  <2> QED
    BY <1>1, <1>2, <2>1, Euclid
<1> QED
  BY <1>1, <1>3

\* A clamped secret is eight times a number smaller than both orders.
LEMMA Clamped ==
  ASSUME NEW sk \in Secret
  PROVE  \E j \in 1..(Unit - 1) : Clamp(sk) = 8 * j
<1>1. PICK v \in Nat \ {0} : Unit = 2 * v
  <2>1. Unit % 2 = 0 /\ Unit \in Nat /\ Unit > 1
    BY CurveAssumption
  <2>2. PICK q \in Int : Unit = 2 * q
    BY <2>1, Multiple
  <2>3. q \in Nat \ {0}
    BY <2>1, <2>2
  <2> QED
    BY <2>2, <2>3
<1>2. sk \in Nat
  BY Orders DEF Secret
<1>3. PICK q \in Int, h \in 0..(8 * v - 1) : sk = (8 * v) * q + h /\ h = sk % (8 * v)
  <2>1. 8 * v \in Nat \ {0} /\ sk \in Int
    BY <1>2
  <2> QED
    BY <2>1, Divided
<1>4. sk % 8 = h % 8
  <2>1. sk = h + 8 * (v * q)
    BY <1>3
  <2>2. v * q \in Int /\ h \in Int
    OBVIOUS
  <2> QED
    BY <2>1, <2>2, SameRemainder
<1>5. PICK k \in Int, r \in 0..7 : h = 8 * k + r /\ r = h % 8
  <2>1. h \in Int
    OBVIOUS
  <2> QED
    BY <2>1, Divided
<1>6. k >= 0 /\ k < v
  BY <1>5
<1>7. TopBit \div 2 = 8 * v
  BY <1>1 DEF TopBit
<1>8. Clamp(sk) = h - r + 8 * v
  BY <1>3, <1>4, <1>5, <1>7 DEF Clamp
<1>9. PICK j \in Int : j = k + v
  OBVIOUS
<1>10. Clamp(sk) = 8 * j
  <2>1. h - r = 8 * k
    BY <1>5
  <2>2. 8 * k + 8 * v = 8 * j
    BY <1>9
  <2> QED
    BY <1>8, <2>1, <2>2
<1>11. j \in 1..(Unit - 1)
  BY <1>1, <1>6, <1>9
<1> QED
  BY <1>10, <1>11

\* The order does not divide it.
LEMMA ClampedIsUnit ==
  ASSUME NEW sk \in Secret
  PROVE  Clamp(sk) \in Nat /\ Clamp(sk) % Order # 0
<1>1. PICK j \in 1..(Unit - 1) : Clamp(sk) = 8 * j
  BY Clamped
<1>2. j \in 1..(Order - 1) /\ Order \in Nat /\ Prime(Order) /\ Order > 2
  BY Orders
<1>3. j % Order # 0 /\ 8 % Order # 0
  BY <1>2, Below, PowersOfTwo
<1>4. 8 \in Int /\ j \in Int /\ Clamp(sk) \in Nat
  BY <1>1
<1>5. Clamp(sk) % Order # 0
  BY <1>1, <1>2, <1>3, <1>4, Product
<1> QED
  BY <1>4, <1>5

\* The base point is eight times a number below the order.
LEMMA BaseIs == \E b \in 1..(Order - 1) : Base = 8 * b
<1>1. Base \in Int /\ Base % 8 = 0
  BY Orders
<1>2. PICK b \in Int : Base = 8 * b
  BY <1>1, Multiple
<1>3. b \in 1..(Order - 1)
  BY <1>2, Orders
<1> QED
  BY <1>2, <1>3

\* The multiples of the base point: eight times something below the order, and
\* the identity only for a multiple of the order.
LEMMA OfBase ==
  ASSUME NEW k \in Int, k % Order # 0
  PROVE  \E y \in 1..(Order - 1) : Times(k, Base) = 8 * y
<1>1. PICK b \in 1..(Order - 1) : Base = 8 * b
  BY BaseIs
<1>2. Order \in Nat \ {0} /\ Order \in Nat /\ Prime(Order) /\ k * b \in Int
  BY Orders
<1>3. PICK z \in Int : z = k * b
  BY <1>2
<1>4. k * Base = 8 * z
  BY <1>1, <1>3
<1>5. PICK q \in Int, y \in 0..(Order - 1) : z = Order * q + y /\ y = z % Order
  BY <1>2, Divided
<1>6. Times(k, Base) = 8 * y
  <2>1. PICK n \in Nat \ {0} : n = 8 * Order
    BY <1>2
  <2>2. PICK r \in 0..(n - 1) : r = 8 * y
    BY <1>2, <2>1
  <2>3. k * Base = n * q + r
    <3>1. 8 * (Order * q + y) = (8 * Order) * q + 8 * y
      BY <1>2
    <3> QED
      BY <1>4, <1>5, <2>1, <2>2, <3>1
  <2>4. (n * q + r) % n = r
    BY Remainder
  <2> QED
    BY <2>1, <2>2, <2>3, <2>4, Orders DEF Times
<1>7. y # 0
  <2>1. b % Order # 0 /\ b \in Int
    BY <1>2, Below
  <2> QED
    BY <1>2, <1>3, <1>5, <2>1, Product
<1> QED
  BY <1>6, <1>7

\* Only the remainder counts.
LEMMA TimesRemainder ==
  ASSUME NEW k \in Int
  PROVE  Times(k % Order, Base) = Times(k, Base)
<1>1. PICK b \in 1..(Order - 1) : Base = 8 * b
  BY BaseIs
<1>2. Order \in Nat \ {0}
  BY Orders
<1>3. PICK q \in Int, a \in 0..(Order - 1) : k = Order * q + a /\ a = k % Order
  BY <1>2, Divided
<1>4. k * Base = a * Base + (8 * Order) * (q * b)
  <2>1. k * Base = (Order * q + a) * Base
    BY <1>3
  <2>2. Base \in Int
    BY <1>1
  <2>3. (Order * q + a) * Base = a * Base + (Order * q) * Base
    BY <1>2, <2>2
  <2>4. (Order * q) * Base = (Order * q) * (8 * b)
    BY <1>1
  <2>5. (Order * q) * (8 * b) = (8 * Order) * (q * b)
    BY <1>2
  <2> QED
    BY <2>1, <2>3, <2>4, <2>5
<1>5. 8 * Order \in Nat \ {0} /\ a * Base \in Int /\ q * b \in Int
  BY <1>1, <1>2
<1>6. (k * Base) % (8 * Order) = (a * Base) % (8 * Order)
  <2>1. PICK n \in Nat \ {0} : n = 8 * Order
    BY <1>5
  <2>2. PICK y \in Int : y = a * Base
    BY <1>5
  <2>3. PICK d \in Int : d = q * b
    BY <1>5
  <2>4. PICK x : x = k * Base
    OBVIOUS
  <2>5. x = y + n * d
    BY <1>4, <2>1, <2>2, <2>3, <2>4
  <2>6. x % n = y % n
    BY <2>5, SameRemainder
  <2> QED
    BY <2>1, <2>2, <2>4, <2>6
<1> QED
  BY <1>3, <1>6, Orders DEF Times
-----------------------------------------------------------------------------
(* Keys *)

\* The points of the curve are numbers modulo this one.
LEMMA CurveSize ==
  \E n \in Nat \ {0} : n = Size("curve") /\ n = 8 * Order /\ Zero = [on |-> "curve", at |-> 4 * Order]
<1>1. Order \in Nat \ {0} /\ Size("curve") = 8 * Order
  BY Orders
<1>2. (8 * Order) \div 2 = 4 * Order
  BY <1>1
<1>3. Zero = [on |-> "curve", at |-> 4 * Order]
  BY <1>1, <1>2 DEF Zero
<1>4. 8 * Order \in Nat \ {0}
  BY <1>1
<1> QED
  BY <1>1, <1>3, <1>4

\* A key is the identity's for the identity and the point of order two alone;
LEMMA IsZero ==
  ASSUME NEW on \in {"curve", "twist"}, NEW n \in Nat \ {0}, n = Size(on), NEW x \in 0..(n - 1)
  PROVE  U(on, x) = Zero <=> x = 0 \/ 2 * x = n
<1>1. PICK opposite \in Int : opposite = n - x
  OBVIOUS
<1>2. U(on, x) = IF x = 0 \/ x = opposite THEN Zero
                 ELSE [on |-> on, at |-> IF x < opposite THEN x ELSE opposite]
  BY <1>1 DEF U
<1>3. x = opposite <=> 2 * x = n
  BY <1>1
<1>4. ASSUME x # 0, x # opposite
      PROVE  [on |-> on, at |-> IF x < opposite THEN x ELSE opposite] # Zero
  <2>1. Order \in Nat /\ Zero = [on |-> "curve", at |-> 4 * Order]
    BY CurveSize, Orders
  <2>2. CASE on = "twist"
    BY <2>1, <2>2
  <2>3. CASE on = "curve"
    <3>1. n = 8 * Order
      BY <2>3, Orders
    <3>2. PICK d : d = IF x < opposite THEN x ELSE opposite
      OBVIOUS
    <3>3. d = x \/ d = opposite
      BY <3>2
    <3>4. x # 4 * Order /\ opposite # 4 * Order
      <4>1. PICK f \in Nat : f = 4 * Order
        BY <2>1
      <4>2. n = 2 * f
        BY <2>1, <3>1, <4>1
      <4> QED
        BY <1>1, <1>4, <4>1, <4>2
    <3> QED
      BY <2>1, <3>2, <3>3, <3>4
  <2> QED
    BY <2>2, <2>3
<1> QED
  BY <1>2, <1>3, <1>4

\* otherwise it stands for two opposite points, the lower of which it names.
LEMMA KeyOf ==
  ASSUME NEW n \in Nat \ {0}, n = Size("curve"), NEW x \in 1..(n - 1), 2 * x # n
  PROVE  /\ U("curve", x).on = "curve"
         /\ U("curve", x).at \in {x, n - x} /\ 2 * U("curve", x).at < n
         /\ U("curve", x) = [on |-> "curve", at |-> U("curve", x).at]
<1>1. PICK opposite \in Int : opposite = n - x
  OBVIOUS
<1>2. x # 0 /\ x # opposite
  BY <1>1
<1>3. U("curve", x) = [on |-> "curve", at |-> IF x < opposite THEN x ELSE opposite]
  BY <1>1, <1>2 DEF U
<1>4. PICK d : d = IF x < opposite THEN x ELSE opposite
  OBVIOUS
<1>5. d \in {x, n - x} /\ 2 * d < n
  BY <1>1, <1>2, <1>4
<1>6. U("curve", x) = [on |-> "curve", at |-> d]
  BY <1>3, <1>4
<1> QED
  BY <1>5, <1>6

\* A point and its opposite have one key,
LEMMA Mirror ==
  ASSUME NEW n \in Nat \ {0}, n = Size("curve"), NEW x \in 1..(n - 1)
  PROVE  U("curve", n - x) = U("curve", x)
<1>1. PICK y \in 1..(n - 1) : y = n - x
  OBVIOUS
<1>2. n - y = x /\ n - x = y /\ x # 0 /\ y # 0
  BY <1>1
<1>3. U("curve", x) = IF x = y THEN Zero ELSE [on |-> "curve", at |-> IF x < y THEN x ELSE y]
  BY <1>2 DEF U
<1>4. U("curve", y) = IF y = x THEN Zero ELSE [on |-> "curve", at |-> IF y < x THEN y ELSE x]
  BY <1>2 DEF U
<1>5. x # y => (IF x < y THEN x ELSE y) = (IF y < x THEN y ELSE x)
  BY <1>1
<1>6. U("curve", x) = U("curve", y)
  BY <1>3, <1>4, <1>5
<1> QED
  BY <1>1, <1>6

\* and two points with one key are equal or opposite.
LEMMA SameKey ==
  ASSUME NEW n \in Nat \ {0}, n = Size("curve"),
         NEW x \in 1..(n - 1), 2 * x # n, NEW y \in 1..(n - 1), 2 * y # n,
         U("curve", x) = U("curve", y)
  PROVE  x = y \/ x = n - y
<1>1. PICK d : d = U("curve", x).at /\ d = U("curve", y).at
  OBVIOUS
<1>2. d \in {x, n - x} /\ d \in {y, n - y}
  BY <1>1, KeyOf
<1> QED
  BY <1>2

\* Two numbers that stand for equal or opposite points.
PlusMinus(x, y) ==
  \E q \in Int : x = y + Size("curve") * q \/ x = Size("curve") * q - y

\* Their points have one key,
LEMMA PlusMinusKey ==
  ASSUME NEW x \in Int, NEW y \in Int, PlusMinus(x, y)
  PROVE  U("curve", x % Size("curve")) = U("curve", y % Size("curve"))
<1>1. PICK n \in Nat \ {0} : n = Size("curve")
  BY CurveSize
<1>2. PICK q \in Int : x = y + n * q \/ x = n * q - y
  BY <1>1 DEF PlusMinus
<1>3. CASE x = y + n * q
  <2>1. x % n = y % n
    BY <1>3, SameRemainder
  <2> QED
    BY <1>1, <2>1
<1>4. CASE x = n * q - y
  <2>1. PICK p \in Int, r \in 0..(n - 1) : y = n * p + r /\ r = y % n
    BY Divided
  <2>2. CASE r = 0
    <3>1. PICK t \in Int : t = q - p
      OBVIOUS
    <3>2. x = n * t + r
      BY <1>4, <2>1, <2>2, <3>1
    <3>3. x % n = r
      BY <3>2, Remainder
    <3> QED
      BY <1>1, <2>1, <3>3
  <2>3. CASE r # 0
    <3>1. PICK e \in 0..(n - 1) : e = n - r
      BY <2>3
    <3>2. PICK t \in Int : t = q - p - 1
      OBVIOUS
    <3>3. x = n * t + e
      BY <1>4, <2>1, <3>1, <3>2
    <3>4. x % n = e
      BY <3>3, Remainder
    <3>5. r \in 1..(n - 1)
      BY <2>3
    <3>6. U("curve", n - r) = U("curve", r)
      BY <1>1, <3>5, Mirror
    <3> QED
      BY <1>1, <2>1, <3>1, <3>4, <3>6
  <2> QED
    BY <2>2, <2>3
<1> QED
  BY <1>2, <1>3, <1>4

\* and so have the points of their multiples.
LEMMA PlusMinusTimes ==
  ASSUME NEW k \in Int, NEW x \in Int, NEW y \in Int, PlusMinus(x, y)
  PROVE  PlusMinus(k * x, k * y)
<1>1. PICK n \in Nat \ {0} : n = Size("curve")
  BY CurveSize
<1>2. PICK q \in Int : x = y + n * q \/ x = n * q - y
  BY <1>1 DEF PlusMinus
<1>3. PICK p \in Int : p = k * q
  OBVIOUS
<1>4. n * p = k * (n * q)
  BY <1>3
<1>5. PICK w \in Int : w = n * q
  OBVIOUS
<1>6. k * (y + w) = k * y + k * w /\ k * (w - y) = k * w - k * y
  OBVIOUS
<1>7. k * x = k * y + n * p \/ k * x = n * p - k * y
  BY <1>2, <1>4, <1>5, <1>6
<1> QED
  BY <1>1, <1>7 DEF PlusMinus

\* A multiple of the base point by no multiple of the order: it is a point, and
\* neither the identity nor the point of order two, and eight times something
\* is named by its key.
LEMMA KeyOfMultiple ==
  ASSUME NEW k \in Int, k % Order # 0, NEW x, x = Times(k, Base)
  PROVE  /\ x \in Point /\ x # 0 /\ 2 * x # Size("curve")
         /\ U("curve", x).on = "curve" /\ U("curve", x).at \in {x, Size("curve") - x}
         /\ \E y \in 1..(Order - 1) : U("curve", x).at = 8 * y
<1>1. PICK y \in 1..(Order - 1) : x = 8 * y
  BY OfBase
<1>2. PICK n \in Nat \ {0} : n = Size("curve") /\ n = 8 * Order
  BY CurveSize
<1>3. Order \in Nat /\ Prime(Order) /\ Order > 2
  BY Orders
<1>4. x \in 1..(n - 1)
  BY <1>1, <1>2, <1>3
<1>5. 2 * x # n
  <2>1. Order # 2 * y
    BY <1>3, OddPrime
  <2> QED
    BY <1>1, <1>2, <1>3, <2>1
<1>6. x \in Point /\ x # 0
  BY <1>2, <1>4 DEF Point
<1>7. PICK d : d = U("curve", x).at
  OBVIOUS
<1>8. U("curve", x).on = "curve" /\ d \in {x, n - x}
  BY <1>2, <1>4, <1>5, <1>7, KeyOf
<1>9. \E z \in 1..(Order - 1) : d = 8 * z
  <2>1. CASE d = x
    BY <1>1, <2>1
  <2>2. CASE d = n - x
    <3>1. PICK z \in 1..(Order - 1) : z = Order - y
      BY <1>3
    <3>2. d = 8 * z
      BY <1>1, <1>2, <1>3, <2>2, <3>1
    <3> QED
      BY <3>2
  <2> QED
    BY <1>8, <2>1, <2>2
<1> QED
  BY <1>2, <1>5, <1>6, <1>7, <1>8, <1>9

\* The public key of a secret stands for the secret's multiple of the base point.
LEMMA Public ==
  ASSUME NEW sk \in Secret
  PROVE  /\ PublicOf(sk).on = "curve" /\ PublicOf(sk).at \in Int
         /\ PlusMinus(PublicOf(sk).at, Clamp(sk) * Base)
<1>1. Clamp(sk) \in Int /\ Clamp(sk) % Order # 0
  BY ClampedIsUnit
<1>2. PICK x : x = Times(Clamp(sk), Base)
  OBVIOUS
<1>3. PICK n \in Nat \ {0} : n = Size("curve")
  BY CurveSize
<1>4. PICK d : d = PublicOf(sk).at
  OBVIOUS
<1>5. PublicOf(sk).on = "curve" /\ d \in {x, n - x}
  BY <1>1, <1>2, <1>3, <1>4, KeyOfMultiple DEF PublicOf
<1>6. PICK v \in Int : v = Clamp(sk) * Base
  BY <1>1, Orders
<1>7. x = v % n
  BY <1>2, <1>3, <1>6 DEF Times
<1>8. PICK q \in Int, r \in 0..(n - 1) : v = n * q + r /\ r = v % n
  BY Divided
<1>9. PICK p \in Int : p = 0 - q
  OBVIOUS
<1>10. x = v + n * p /\ n - x = n * (q + 1) - v
  BY <1>7, <1>8, <1>9
<1>11. q + 1 \in Int
  OBVIOUS
<1>12. \E t \in Int : d = v + n * t \/ d = n * t - v
  BY <1>5, <1>10, <1>11
<1>13. d \in Int
  <2>1. PICK e \in Int : e = n - r
    OBVIOUS
  <2> QED
    BY <1>5, <1>7, <1>8, <2>1
<1> QED
  BY <1>3, <1>4, <1>5, <1>6, <1>12, <1>13 DEF PlusMinus
-----------------------------------------------------------------------------
(* Agreements *)

\* Each group has c times a prime points.
Group(on, c, p) ==
  /\ on \in {"curve", "twist"} /\ c \in {4, 8}
  /\ p \in Nat \ {0} /\ Prime(p) /\ p > 2 /\ Size(on) = c * p

\* Is a point the identity, or its key all zeros, exactly when w is zero?
Vanishes(on, x, w) ==
  /\ x % Size(on) = 0 <=> w = 0
  /\ U(on, x % Size(on)) = Zero <=> w = 0

\* A multiple of c vanishes exactly when the prime divides the factor.
LEMMA ZeroOf ==
  ASSUME NEW on, NEW c, NEW p, Group(on, c, p), NEW z \in Int, NEW x, x = c * z
  PROVE  Vanishes(on, x, z % p)
<1> on \in {"curve", "twist"} /\ c \in {4, 8} /\ p \in Nat \ {0} /\ Prime(p) /\ p > 2 /\ Size(on) = c * p
  BY DEF Group
<1>1. PICK q \in Int, w \in 0..(p - 1) : z = p * q + w /\ w = z % p
  BY Divided
<1>2. PICK n \in Nat \ {0} : n = c * p
  OBVIOUS
<1>3. PICK r \in 0..(n - 1) : r = c * w
  BY <1>2
<1>4. x = n * q + r
  <2>1. c * (p * q + w) = (c * p) * q + c * w
    OBVIOUS
  <2> QED
    BY <1>1, <1>2, <1>3, <2>1
<1>5. x % n = r
  BY <1>4, Remainder
<1>6. r = 0 <=> w = 0
  BY <1>3
<1>7. 2 * r # n
  <2>1. p # 2 * w
    BY OddPrime
  <2> QED
    BY <1>2, <1>3, <2>1
<1>8. U(on, r) = Zero <=> r = 0 \/ 2 * r = n
  BY <1>2, IsZero
<1> QED
  BY <1>1, <1>2, <1>5, <1>6, <1>7, <1>8 DEF Vanishes

\* The key of x is all zeros exactly when y is the identity.
Alike(on, x, y) == U(on, x % Size(on)) = Zero <=> y % Size(on) = 0

\* A factor below the prime changes nothing of this.
LEMMA ZeroProduct ==
  ASSUME NEW on, NEW c, NEW p, Group(on, c, p), NEW j, j \in 1..(p - 1), NEW a \in Int,
         NEW x, x = c * (j * a), NEW y, y = c * a
  PROVE  Alike(on, x, y)
<1>0. p \in Nat \ {0} /\ Prime(p) /\ c \in Int
  BY DEF Group
<1>1. PICK z \in Int : z = j * a
  BY <1>0
<1>2. U(on, x % Size(on)) = Zero <=> z % p = 0
  <2>1. x = c * z
    BY <1>1
  <2>2. Vanishes(on, x, z % p)
    BY <2>1, ZeroOf, Zenon
  <2> QED
    BY <2>2 DEF Vanishes
<1>3. y % Size(on) = 0 <=> a % p = 0
  <2>1. Vanishes(on, y, a % p)
    BY ZeroOf, Zenon
  <2> QED
    BY <2>1 DEF Vanishes
<1>4. p \in Nat /\ j \in Int /\ j % p # 0
  BY <1>0, Below
<1>5. ASSUME z % p = 0 PROVE a % p = 0
  <2>1. (j * a) % p = 0
    BY <1>1, <1>5
  <2> QED
    BY <1>0, <1>4, <2>1, Euclid
<1>6. ASSUME a % p = 0 PROVE z % p = 0
  <2>1. PICK q \in Int : a = p * q
    BY <1>0, <1>6, Multiple
  <2>2. PICK t \in Int : t = j * q
    BY <1>4
  <2>3. z = p * t + 0
    <3>1. j * (p * q) = p * (j * q)
      BY <1>4
    <3> QED
      BY <1>1, <2>1, <2>2, <3>1
  <2>4. 0 \in 0..(p - 1)
    BY <1>0
  <2> QED
    BY <1>0, <2>3, <2>4, Remainder
<1> QED
  BY <1>2, <1>3, <1>5, <1>6 DEF Alike

\* An agreement is all zeros exactly for a key of small order.
LEMMA ZeroAgreement ==
  ASSUME NEW sk \in Secret, NEW u \in PublicKey
  PROVE  Shared(sk, u) = Zero <=> SmallOrder(u)
<1>1. PICK j \in 1..(Unit - 1) : Clamp(sk) = 8 * j
  BY Clamped
<1>2. PICK at \in Int : at = u.at
  BY Orders DEF PublicKey
<1>3. PICK x, y : x = Clamp(sk) * at /\ y = 8 * at
  OBVIOUS
<1>4. Alike(u.on, x, y) => (Shared(sk, u) = Zero <=> SmallOrder(u))
  BY <1>2, <1>3 DEF Shared, SmallOrder, Alike
<1>5. ASSUME NEW on, NEW c, NEW p, Group(on, c, p), j \in 1..(p - 1), NEW a \in Int, c * a = 8 * at
      PROVE  Alike(on, x, y)
  <2>1. x = c * (j * a)
    <3>1. c * (j * a) = j * (c * a)
      BY <1>5 DEF Group
    <3>2. j * (8 * at) = (8 * j) * at
      OBVIOUS
    <3> QED
      BY <1>1, <1>3, <1>5, <3>1, <3>2
  <2>2. y = c * a
    BY <1>3, <1>5
  <2> QED
    BY <1>5, <2>1, <2>2, ZeroProduct, Zenon
<1>6. CASE u.on = "curve"
  <2>1. Group("curve", 8, Order) /\ j \in 1..(Order - 1)
    BY Orders DEF Group
  <2> QED
    BY <1>2, <1>4, <1>5, <1>6, <2>1
<1>7. CASE u.on = "twist"
  <2>1. Group("twist", 4, TwistOrder) /\ j \in 1..(TwistOrder - 1)
    BY Orders DEF Group
  <2>2. PICK a \in Int : a = 2 * at
    OBVIOUS
  <2>3. 4 * a = 8 * at
    BY <2>2
  <2> QED
    BY <1>4, <1>5, <1>7, <2>1, <2>3
<1>8. u.on \in {"curve", "twist"}
  BY DEF PublicKey
<1> QED
  BY <1>6, <1>7, <1>8

\* The key of such a multiple is none of small order.
LEMMA LargeKey ==
  ASSUME NEW k \in Int, k % Order # 0, NEW x, x = Times(k, Base)
  PROVE  ~SmallOrder(U("curve", x))
<1>1. Group("curve", 8, Order)
  BY Orders DEF Group
<1>2. PICK z \in 1..(Order - 1) : U("curve", x).on = "curve" /\ U("curve", x).at = 8 * z
  BY KeyOfMultiple
<1>3. PICK t \in Int : t = 8 * z
  OBVIOUS
<1>4. Vanishes("curve", 8 * t, t % Order)
  BY <1>1, ZeroOf, Zenon
<1>5. t % Order # 0
  <2>1. Order \in Nat /\ Prime(Order) /\ Order > 2
    BY Orders
  <2>2. z % Order # 0 /\ 8 % Order # 0
    BY <2>1, Below, PowersOfTwo
  <2>3. 8 \in Int /\ z \in Int
    OBVIOUS
  <2> QED
    BY <1>3, <2>1, <2>2, <2>3, Product
<1> QED
  BY <1>2, <1>3, <1>4, <1>5 DEF SmallOrder, Vanishes

\* Zero is.
LEMMA ZeroIsSmall ==
  SmallOrder(Zero)
<1>1. PICK n \in Nat \ {0} : n = Size("curve") /\ n = 8 * Order /\ Zero = [on |-> "curve", at |-> 4 * Order]
  BY CurveSize
<1>2. 8 * (4 * Order) = n * 4 + 0
  BY <1>1, Orders
<1>3. 0 \in 0..(n - 1)
  OBVIOUS
<1>4. (n * 4 + 0) % n = 0
  BY <1>3, Remainder
<1> QED
  BY <1>1, <1>2, <1>4 DEF SmallOrder

\* Both sides of an agreement come to the same.
LEMMA Agreement ==
  ASSUME NEW sk \in Secret, NEW other \in Secret
  PROVE  Shared(sk, PublicOf(other)) = Shared(other, PublicOf(sk))
<1>1. PICK k \in Int, l \in Int : k = Clamp(sk) /\ l = Clamp(other)
  BY ClampedIsUnit
<1>2. PICK b \in Int : b = Base
  BY Orders
<1>3. PICK x \in Int : PublicOf(sk).on = "curve" /\ PublicOf(sk).at = x /\ PlusMinus(x, k * b)
  BY <1>1, <1>2, Public
<1>4. PICK y \in Int : PublicOf(other).on = "curve" /\ PublicOf(other).at = y /\ PlusMinus(y, l * b)
  BY <1>1, <1>2, Public
<1>5. PICK z \in Int : z = k * (l * b) /\ z = l * (k * b)
  OBVIOUS
<1>6. U("curve", (k * y) % Size("curve")) = U("curve", z % Size("curve"))
  <2>1. l * b \in Int /\ k * y \in Int
    OBVIOUS
  <2>2. PlusMinus(k * y, z)
    BY <1>4, <1>5, <2>1, PlusMinusTimes
  <2> QED
    BY <2>1, <2>2, PlusMinusKey
<1>7. U("curve", (l * x) % Size("curve")) = U("curve", z % Size("curve"))
  <2>1. k * b \in Int /\ l * x \in Int
    OBVIOUS
  <2>2. PlusMinus(l * x, z)
    BY <1>3, <1>5, <2>1, PlusMinusTimes
  <2> QED
    BY <2>1, <2>2, PlusMinusKey
<1> QED
  BY <1>1, <1>3, <1>4, <1>6, <1>7 DEF Shared
-----------------------------------------------------------------------------
(* Signatures *)

\* A signature whose equation holds is one whose R is the base point's multiple
\* by s - c * a: a is the scalar of the key A, c the challenge.
Balances(s, c, a, A) ==
  (s * Base - c * A) % Size("curve") = Times(s - c * a, Base)

\* The equation holds of the scalar of the key.
LEMMA Equation ==
  ASSUME NEW s \in Int, NEW c \in Int, NEW a \in Int, NEW A, A = Times(a, Base)
  PROVE  Balances(s, c, a, A)
<1>1. PICK n \in Nat \ {0} : n = Size("curve")
  BY CurveSize
<1>2. PICK b \in Int : b = Base
  BY Orders
<1>3. PICK w \in Int : w = a * b
  OBVIOUS
<1>4. PICK q \in Int, r \in 0..(n - 1) : w = n * q + r /\ r = w % n
  BY Divided
<1>5. A = r
  BY <1>1, <1>2, <1>3, <1>4 DEF Times
<1>6. PICK x \in Int, y \in Int : x = (s - c * a) * b /\ y = s * b - c * r
  OBVIOUS
<1>7. PICK p \in Int : p = c * q
  OBVIOUS
<1>8. y = x + n * p
  <2>1. (s - c * a) * b = s * b - c * (a * b)
    OBVIOUS
  <2>2. c * w = c * (n * q) + c * r
    BY <1>4
  <2>3. c * (n * q) = n * (c * q)
    OBVIOUS
  <2>4. PICK d \in Int, e \in Int, f \in Int : d = s * b /\ e = c * w /\ f = c * r
    OBVIOUS
  <2>5. x = d - e /\ y = d - f /\ e = n * p + f
    BY <1>3, <1>6, <1>7, <2>1, <2>2, <2>3, <2>4
  <2> QED
    BY <2>4, <2>5
<1>9. y % n = x % n
  BY <1>8, SameRemainder
<1> QED
  BY <1>1, <1>2, <1>5, <1>6, <1>9 DEF Times, Balances

\* Scalars with one remainder have one multiple.
LEMMA SameTimes ==
  ASSUME NEW k \in Int, NEW l \in Int, k % Order = l % Order
  PROVE  Times(k, Base) = Times(l, Base)
<1>1. Times(k % Order, Base) = Times(k, Base) /\ Times(l % Order, Base) = Times(l, Base)
  BY TimesRemainder
<1> QED
  BY <1>1

\* The sign bit and what is below it.
LEMMA TwoParts ==
  ASSUME NEW s \in 0..(Order - 1), NEW bit \in {0, 1}, NEW S, S = s + bit * TopBit
  PROVE  S % TopBit = s /\ S \div TopBit = bit
<1>1. PICK t \in Nat \ {0} : t = TopBit
  BY Orders DEF TopBit
<1>2. s \in 0..(t - 1)
  BY <1>1, Orders DEF TopBit
<1>3. S = t * bit + s
  BY <1>1
<1>4. (t * bit + s) % t = s
  BY <1>2, Remainder
<1>5. PICK d \in Int, m \in 0..(t - 1) : S = t * d + m /\ d = S \div t /\ m = S % t
  <2>1. S \in Int
    BY <1>3
  <2> QED
    BY <2>1, Quotient
<1>6. m = s
  BY <1>3, <1>4, <1>5
<1>7. t * d = t * bit
  BY <1>3, <1>5, <1>6
<1>8. d = bit
  <2>1. PICK e \in Int : e = d - bit
    OBVIOUS
  <2>2. t * e = 0
    BY <1>7, <2>1
  <2>3. e = 0
    BY <2>2
  <2> QED
    BY <2>1, <2>3
<1> QED
  BY <1>1, <1>5, <1>6, <1>8

\* The parts of an S that was put together.
LEMMA Parts ==
  ASSUME NEW S \in Secret
  PROVE  /\ S % TopBit \in Nat /\ S \div TopBit \in {0, 1}
         /\ S = (S % TopBit) + (S \div TopBit) * TopBit
<1>1. PICK t \in Nat \ {0} : t = TopBit /\ S \in 0..(2 * t - 1)
  BY Orders DEF TopBit, Secret
<1>2. PICK d \in Int, m \in 0..(t - 1) : S = t * d + m /\ d = S \div t /\ m = S % t
  <2>1. S \in Int
    BY <1>1
  <2> QED
    BY <2>1, Quotient
<1>3. d \in {0, 1}
  <2>1. d >= 2 => t * d >= 2 * t
    OBVIOUS
  <2>2. d <= 0 - 1 => t * d <= 0 - t
    OBVIOUS
  <2> QED
    BY <1>1, <1>2, <2>1, <2>2
<1>4. t * d = d * t
  OBVIOUS
<1> QED
  BY <1>1, <1>2, <1>3, <1>4

\* What the parts of a signature are.
PartsOf(a, msg, r, A, R, c) ==
  /\ R \in Point /\ A \in Point /\ c \in 0..(Order - 1)
  /\ ~SmallOrder(U("curve", R)) /\ ~SmallOrder(U("curve", A)) /\ A # 0
  /\ SignatureOf(a, msg, r) = [R |-> R, S |-> ((r + c * a) % Order) + SignBit(A) * TopBit]

\* Signing makes them.
LEMMA SignatureParts ==
  ASSUME NEW a \in Int, a % Order # 0, NEW r \in Nonce, NEW msg \in Message,
         NEW A, A = Times(a, Base), NEW R, R = Times(r, Base), NEW c, c = Challenge(R, A, msg)
  PROVE  PartsOf(a, msg, r, A, R, c)
<1>1. r \in Int /\ r % Order # 0
  BY Orders, Below DEF Nonce
<1>2. R \in Point /\ A \in Point /\ A # 0
  BY <1>1, KeyOfMultiple
<1>3. ~SmallOrder(U("curve", R)) /\ ~SmallOrder(U("curve", A))
  BY <1>1, LargeKey
<1>4. c \in 0..(Order - 1)
  BY <1>2, ChallengeAssumption
<1>5. SignatureOf(a, msg, r) = [R |-> R, S |-> ((r + c * a) % Order) + SignBit(A) * TopBit]
  BY DEF SignatureOf
<1> QED
  BY <1>2, <1>3, <1>4, <1>5 DEF PartsOf

\* The equation of verification, of a signature that was made.
LEMMA Verified ==
  ASSUME NEW sk \in Secret, NEW msg \in Message, NEW r \in Nonce
  PROVE  Verifies(PublicOf(sk), msg, Signed(sk, msg, r))
<1>1. PICK k \in Int : k = Clamp(sk) /\ k % Order # 0
  BY ClampedIsUnit
<1>2. PICK n \in Nat \ {0} : n = Order
  BY Orders
<1>3. PICK a \in 0..(n - 1) : a = k % n /\ a # 0
  BY <1>1, <1>2, Divides
<1>4. a \in Int /\ a % Order # 0
  BY <1>2, <1>3, Below
<1>5. PICK A : A = Times(a, Base) /\ A = Times(k, Base)
  BY <1>1, <1>2, <1>3, TimesRemainder
<1>6. PICK R : R = Times(r, Base)
  OBVIOUS
<1>7. PICK c \in Int : c = Challenge(R, A, msg) /\ PartsOf(a, msg, r, A, R, c)
  <2>1. PICK c : c = Challenge(R, A, msg)
    OBVIOUS
  <2>2. PartsOf(a, msg, r, A, R, c)
    BY <1>4, <1>5, <1>6, <2>1, SignatureParts, Zenon
  <2>3. c \in Int
    BY <1>2, <2>2 DEF PartsOf
  <2> QED
    BY <2>1, <2>2, <2>3
<1>8. PICK s \in 0..(n - 1) : s = (r + c * a) % n
  <2>1. r + c * a \in Int
    BY DEF Nonce
  <2> QED
    BY <2>1, Divides
<1>9. PICK bit \in {0, 1} : bit = SignBit(A)
  BY DEF SignBit
<1>10. PICK S : S = s + bit * TopBit
  OBVIOUS
<1>11. PICK sig : sig = [R |-> R, S |-> S]
  OBVIOUS
<1>12. Signed(sk, msg, r) = sig
  <2>1. Signed(sk, msg, r) = SignatureOf(a, msg, r)
    BY <1>1, <1>2, <1>3 DEF Signed
  <2>2. SignatureOf(a, msg, r) = [R |-> R, S |-> ((r + c * a) % Order) + SignBit(A) * TopBit]
    BY <1>7 DEF PartsOf
  <2>3. [R |-> R, S |-> ((r + c * a) % Order) + SignBit(A) * TopBit] = sig
    BY <1>2, <1>8, <1>9, <1>10, <1>11
  <2> QED
    BY <2>1, <2>2, <2>3
<1>13. sig.R = R /\ sig.S % TopBit = s /\ sig.S \div TopBit = bit
  BY <1>2, <1>10, <1>11, TwoParts
<1>14. PublicOf(sk) = U("curve", A)
  BY <1>1, <1>5 DEF PublicOf
<1>15. A \in EdwardsOf(PublicOf(sk), bit)
  <2>1. A \in Point /\ A # 0
    BY <1>7 DEF PartsOf
  <2> QED
    BY <1>9, <1>14, <2>1 DEF EdwardsOf
<1>16. ~SmallOrder(PublicOf(sk)) /\ ~SmallOrder(U("curve", R))
  BY <1>7, <1>14 DEF PartsOf
<1>17. (s * Base - c * A) % Size("curve") = R
  <2>1. (s * Base - c * A) % Size("curve") = Times(s - c * a, Base)
    <3>1. s \in Int
      OBVIOUS
    <3>2. Balances(s, c, a, A)
      BY <1>4, <1>5, <3>1, Equation, Zenon
    <3> QED
      BY <3>2 DEF Balances
  <2>2. PICK x \in Int : x = r + c * a
    BY DEF Nonce
  <2>3. PICK q \in Int : x = n * q + s
    BY <1>8, <2>2, Divided
  <2>4. PICK d \in Int : d = s - c * a
    OBVIOUS
  <2>5. PICK p \in Int : p = 0 - q
    OBVIOUS
  <2>6. r \in Int
    BY DEF Nonce
  <2>7. d = r + n * p
    BY <2>2, <2>3, <2>4, <2>5, <2>6
  <2>8. d % n = r % n
    BY <2>6, <2>7, SameRemainder
  <2>9. Times(d, Base) = Times(r, Base)
    BY <1>2, <2>6, <2>8, SameTimes
  <2> QED
    BY <1>6, <2>1, <2>4, <2>9
<1>18. s < Order
  BY <1>2
<1>19. Verifies(PublicOf(sk), msg, sig)
  BY <1>7, <1>13, <1>15, <1>16, <1>17, <1>18 DEF Verifies
<1> QED
  BY <1>12, <1>19

\* The scalar of a key, up to its sign.
Scalar(sk, a) == a = Clamp(sk) % Order \/ a = Order - (Clamp(sk) % Order)

\* The two points of a secret's key have one of these scalars each.
LEMMA ScalarOf ==
  ASSUME NEW sk \in Secret, NEW A \in Point, A # 0, U("curve", A) = PublicOf(sk)
  PROVE  \E a \in 1..(Order - 1) : Scalar(sk, a) /\ A = Times(a, Base)
<1>1. PICK k \in Int : k = Clamp(sk) /\ k % Order # 0
  BY ClampedIsUnit
<1>2. PICK n \in Nat \ {0} : n = Order /\ Size("curve") = 8 * n
  BY Orders
<1>3. PICK a \in 1..(n - 1) : a = k % n
  <2>1. k % n \in 0..(n - 1)
    BY Divides
  <2> QED
    BY <1>1, <1>2, <2>1
<1>4. PICK x \in Int : x = Times(k, Base) /\ x = Times(a, Base)
  <2>1. Times(a, Base) = Times(k, Base)
    BY <1>1, <1>2, <1>3, TimesRemainder
  <2>2. Times(k, Base) \in Point
    BY <1>1, KeyOfMultiple
  <2> QED
    BY <1>2, <2>1, <2>2 DEF Point
<1>5. PublicOf(sk) = U("curve", x)
  BY <1>1, <1>4 DEF PublicOf
<1>6. PICK N \in Nat \ {0} : N = Size("curve") /\ N = 8 * n
  BY <1>2
<1>7. x \in 1..(N - 1) /\ 2 * x # N
  <2>1. x \in Point /\ x # 0 /\ 2 * x # Size("curve")
    BY <1>1, <1>4, KeyOfMultiple
  <2> QED
    BY <1>6, <2>1 DEF Point
<1>8. A \in 1..(N - 1)
  BY <1>6 DEF Point
<1>9. 2 * A # N
  <2>1. "curve" \in {"curve", "twist"} /\ x \in 0..(N - 1) /\ A \in 0..(N - 1)
    BY <1>7, <1>8
  <2>2. U("curve", x) # Zero
    BY <1>6, <1>7, <2>1, IsZero
  <2> QED
    BY <1>5, <1>6, <2>1, <2>2, IsZero
<1>10. A = x \/ A = N - x
  BY <1>5, <1>6, <1>7, <1>8, <1>9, SameKey
<1>11. CASE A = x
  BY <1>1, <1>2, <1>3, <1>4, <1>11 DEF Scalar
<1>12. CASE A = N - x
  <2>1. PICK e \in 1..(n - 1) : e = n - a
    OBVIOUS
  <2>2. PICK b \in 1..(n - 1) : Base = 8 * b
    BY <1>2, BaseIs
  <2>3. PICK v \in Int : v = a * Base
    BY <2>2
  <2>4. PICK q \in Int, t \in 0..(N - 1) : v = N * q + t /\ t = v % N
    BY Divided
  <2>5. t = x
    BY <1>4, <1>6, <2>3, <2>4 DEF Times
  <2>6. PICK p \in Int : p = b - q - 1
    OBVIOUS
  <2>7. e * Base = N * p + A
    <3>1. e * Base = n * Base - a * Base
      BY <2>1, <2>2
    <3>2. n * Base = N * b
      BY <1>6, <2>2
    <3>3. N * p = N * b - N * q - N
      BY <2>6
    <3>4. PICK f \in Int, g \in Int, h \in Int : f = N * b /\ g = N * q /\ h = N * p
      OBVIOUS
    <3>5. e * Base = f - v /\ v = g + x /\ h = f - g - N
      BY <2>3, <2>4, <2>5, <3>1, <3>2, <3>3, <3>4
    <3>6. e * Base = h + (N - x)
      BY <3>4, <3>5
    <3> QED
      BY <1>12, <3>4, <3>6
  <2>8. (e * Base) % N = A
    <3>1. A \in 0..(N - 1)
      BY <1>8
    <3> QED
      BY <2>7, <3>1, Remainder
  <2>9. A = Times(e, Base)
    BY <1>6, <2>8 DEF Times
  <2> QED
    BY <1>1, <1>2, <1>3, <2>1, <2>9 DEF Scalar
<1> QED
  BY <1>10, <1>11, <1>12

\* A signature that verifies under the key of a secret is one that signing makes.
IsMade(sk, msg, sig) ==
  \E a \in {Clamp(sk) % Order, Order - (Clamp(sk) % Order)}, r \in Nonce :
    sig = SignatureOf(a, msg, r)

\* It is what signing makes with one of them.
LEMMA Made ==
  ASSUME NEW sk \in Secret, NEW msg \in Message, NEW R \in Point, NEW S \in Secret,
         NEW sig, sig = [R |-> R, S |-> S], Verifies(PublicOf(sk), msg, sig)
  PROVE  IsMade(sk, msg, sig)
<1>1. PICK s, bit : s = S % TopBit /\ bit = S \div TopBit
  OBVIOUS
<1>2. s \in Nat /\ bit \in {0, 1} /\ S = s + bit * TopBit
  BY <1>1, Parts
<1>3. sig.R = R /\ sig.S = S
  OBVIOUS
<1>4. PICK A \in EdwardsOf(PublicOf(sk), bit) :
        /\ s < Order
        /\ ~SmallOrder(PublicOf(sk)) /\ ~SmallOrder(U("curve", R))
        /\ (s * Base - Challenge(R, A, msg) * A) % Size("curve") = R
  BY <1>1, <1>3 DEF Verifies
<1>5. A \in Point /\ U("curve", A) = PublicOf(sk) /\ A # 0
  BY DEF EdwardsOf
<1>6. SignBit(A) = bit
  <2>1. PublicOf(sk) # Zero
    BY <1>4, ZeroIsSmall
  <2> QED
    BY <2>1 DEF EdwardsOf
<1>7. PICK a \in 1..(Order - 1) : Scalar(sk, a) /\ A = Times(a, Base)
  BY <1>5, ScalarOf
<1>8. PICK n \in Nat \ {0} : n = Order
  BY Orders
<1>9. PICK c \in Int : c = Challenge(R, A, msg)
  BY <1>5, <1>8, ChallengeAssumption
<1>10. R = Times(s - c * a, Base)
  <2>1. s \in Int /\ a \in Int
    BY <1>2, <1>8
  <2>2. Balances(s, c, a, A)
    BY <1>7, <2>1, Equation, Zenon
  <2> QED
    BY <1>4, <1>9, <2>2 DEF Balances
<1>11. PICK d \in Int : d = s - c * a
  BY <1>2
<1>12. PICK q \in Int, r \in 0..(n - 1) : d = n * q + r /\ r = d % n
  BY Divided
<1>13. Times(r, Base) = R
  BY <1>8, <1>10, <1>11, <1>12, TimesRemainder
<1>14. r \in Nonce
  <2>1. r # 0
    <3> SUFFICES ASSUME r = 0 PROVE FALSE
      OBVIOUS
    <3>1. PICK N \in Nat \ {0} : N = Size("curve")
      BY CurveSize
    <3>2. R = 0
      <4>1. 0 * Base = N * 0 + 0
        BY Orders
      <4>2. 0 \in 0..(N - 1)
        OBVIOUS
      <4>3. (N * 0 + 0) % N = 0
        BY <4>2, Remainder
      <4> QED
        BY <1>13, <3>1, <4>1, <4>3 DEF Times
    <3>3. U("curve", R) = Zero
      BY <3>2 DEF U
    <3> QED
      BY <1>4, <3>3, ZeroIsSmall
  <2> QED
    BY <1>8, <2>1 DEF Nonce
<1>15. (r + c * a) % n = s
  <2>1. PICK x \in Int : x = r + c * a
    OBVIOUS
  <2>2. PICK p \in Int : p = 0 - q
    OBVIOUS
  <2>3. x = n * p + s
    <3>1. n * p = 0 - n * q
      BY <2>2
    <3>2. PICK f \in Int, g \in Int, h \in Int : f = n * q /\ g = n * p /\ h = c * a
      BY <1>8
    <3>3. s - h = f + r /\ x = r + h /\ g = 0 - f
      BY <1>11, <1>12, <2>1, <3>1, <3>2
    <3>4. x = g + s
      BY <1>2, <1>12, <3>2, <3>3
    <3> QED
      BY <3>2, <3>4
  <2>4. s \in 0..(n - 1)
    BY <1>2, <1>4, <1>8
  <2> QED
    BY <2>1, <2>3, <2>4, Remainder
<1>16. SignatureOf(a, msg, r) = [R |-> R, S |-> S]
  BY <1>2, <1>6, <1>7, <1>8, <1>9, <1>13, <1>15 DEF SignatureOf
<1> QED
  BY <1>7, <1>14, <1>16 DEF Scalar, IsMade

\* Nothing verifies under a key of the twist.
LEMMA OnCurve ==
  ASSUME NEW u, NEW msg, NEW sig, Verifies(u, msg, sig)
  PROVE  u.on = "curve" /\ ~SmallOrder(u)
<1>1. PICK A \in EdwardsOf(u, sig.S \div TopBit) : ~SmallOrder(u)
  BY DEF Verifies
<1>2. U("curve", A) = u
  BY DEF EdwardsOf
<1>3. u.on = "curve"
  BY <1>2 DEF U, Zero
<1> QED
  BY <1>1, <1>3

-----------------------------------------------------------------------------
(* Sequences of values *)

\* A set of numbers below a bound has a greatest one.
LEMMA Greatest ==
  ASSUME NEW n \in Nat, NEW T, T \subseteq 1..n, T # {}
  PROVE  \E x \in T : \A y \in T : y <= x
<1> DEFINE M == {n - x : x \in T}
<1>1. M \subseteq Nat /\ M # {}
  <2>1. \A x \in T : n - x \in Nat
    OBVIOUS
  <2> QED
    BY <2>1
<1>2. PICK m \in M : \A y \in M : m <= y
  <2> HIDE DEF M
  <2> QED
    BY <1>1, Least
<1>3. PICK x \in T : m = n - x
  OBVIOUS
<1>4. ASSUME NEW y \in T PROVE y <= x
  <2>1. n - y \in M
    OBVIOUS
  <2>2. m <= n - y
    BY <1>2, <2>1
  <2> QED
    BY <1>3, <2>2
<1> QED
  BY <1>4

\* A function that is given by its first value and its steps.
Steps(n, D, first, step, f) ==
  f \in [0..n -> D] /\ f = [i \in 0..n |-> IF i = 0 THEN first ELSE step[<<i, f[i - 1]>>]]

\* There is one for every number of steps.
LEMMA StepsExist ==
  ASSUME NEW m \in Nat, NEW D, NEW first \in D, NEW step \in [(1..m) \X D -> D]
  PROVE  \E f : Steps(m, D, first, step, f)
<1> DEFINE P(n) == \E f : Steps(n, D, first, step, f)
           T == {n \in 0..m : ~P(n)}
<1> SUFFICES ASSUME ~P(m) PROVE FALSE
  OBVIOUS
<1>1. T \subseteq Nat /\ T # {}
  OBVIOUS
<1>2. PICK n \in T : \A y \in T : n <= y
  <2> HIDE DEF T
  <2> QED
    BY <1>1, Least
<1>3. n \in 0..m /\ ~P(n)
  OBVIOUS
<1>4. n # 0
  <2>1. Steps(0, D, first, step, [i \in 0..0 |-> first])
    BY DEF Steps
  <2> QED
    BY <1>3, <2>1
<1>5. n - 1 \in 0..m /\ ~(n <= n - 1)
  BY <1>3, <1>4
<1>6. P(n - 1)
  BY <1>2, <1>5
<1>7. PICK f : Steps(n - 1, D, first, step, f)
  BY <1>6
<1> DEFINE g == [i \in 0..n |-> IF i = 0 THEN first ELSE step[<<i, f[i - 1]>>]]
<1>8. \A i \in 0..(n - 1) : f[i] \in D /\ f[i] = IF i = 0 THEN first ELSE step[<<i, f[i - 1]>>]
  BY <1>7 DEF Steps
<1>9. \A i \in 0..(n - 1) : g[i] = f[i]
  BY <1>3, <1>8
<1>10. \A i \in 0..n : g[i] = IF i = 0 THEN first ELSE step[<<i, g[i - 1]>>]
  <2> SUFFICES ASSUME NEW i \in 0..n, i # 0 PROVE g[i] = step[<<i, g[i - 1]>>]
    BY DEF g
  <2>1. i - 1 \in 0..(n - 1)
    BY <1>3
  <2>2. g[i - 1] = f[i - 1]
    BY <1>9, <2>1
  <2> QED
    BY <2>2
<1>11. \A i \in 0..n : g[i] \in D
  <2> TAKE i \in 0..n
  <2>1. CASE i = 0
    BY <2>1
  <2>2. CASE i # 0
    <3>1. i - 1 \in 0..(n - 1) /\ i \in 1..m
      BY <1>3, <2>2
    <3>2. <<i, f[i - 1]>> \in (1..m) \X D
      BY <1>8, <3>1
    <3> QED
      BY <2>2, <3>2
  <2> QED
    BY <2>1, <2>2
<1>12. g = [i \in 0..n |-> IF i = 0 THEN first ELSE step[<<i, g[i - 1]>>]]
  <2> DEFINE h == [i \in 0..n |-> IF i = 0 THEN first ELSE step[<<i, g[i - 1]>>]]
  <2>1. \A i \in 0..n : g[i] = h[i]
    BY <1>10
  <2>2. DOMAIN g = 0..n /\ DOMAIN h = 0..n
    OBVIOUS
  <2> QED
    BY <2>1, <2>2
<1>13. g \in [0..n -> D]
  BY <1>11
<1>14. Steps(n, D, first, step, g)
  <2> HIDE DEF g
  <2> QED
    BY <1>12, <1>13 DEF Steps
<1> QED
  BY <1>3, <1>14
-----------------------------------------------------------------------------
(* The selections of an entry *)

\* An entry that is behind none is behind no other that is not.
LEMMA NotBehindIs ==
  ASSUME NEW e \in Listed, NEW d \in Listed
  PROVE  /\ NotBehind(e, e) /\ e.used \in Int
         /\ NotBehind(e, d) <=> \/ IsOpen(e) /\ ~IsOpen(d)
                                \/ (IsOpen(e) <=> IsOpen(d)) /\ d.used <= e.used
<1>1. e.used \in Int /\ d.used \in Int
  BY DEF Listed
<1>2. IsOpen(e) \in BOOLEAN /\ IsOpen(d) \in BOOLEAN
  BY DEF IsOpen
<1>3. e.used <= e.used
  BY <1>1
<1>4. NotBehind(e, e)
  BY <1>2, <1>3 DEF NotBehind
<1>5. NotBehind(e, d) <=> \/ IsOpen(e) /\ ~IsOpen(d)
                          \/ (IsOpen(e) <=> IsOpen(d)) /\ d.used <= e.used
  BY <1>2 DEF NotBehind
<1> QED
  BY <1>1, <1>4, <1>5

\* Of two entries the reduction prefers one of them, behind neither.
LEMMA PreferredIs ==
  ASSUME NEW d \in Listed, NEW e \in Listed, NEW b, b = Preferred(d, e)
  PROVE  (b = d \/ b = e) /\ NotBehind(b, d) /\ NotBehind(b, e)
<1>1. IsOpen(e) \in BOOLEAN /\ IsOpen(d) \in BOOLEAN
  BY DEF IsOpen
<1>2. CASE IsOpen(e) # IsOpen(d)
  <2>1. b = IF IsOpen(e) THEN e ELSE d
    BY <1>2 DEF Preferred
  <2> QED
    BY <1>1, <1>2, <2>1, NotBehindIs
<1>3. CASE IsOpen(e) = IsOpen(d)
  <2>1. b = IF e.used > d.used THEN e ELSE d
    BY <1>3 DEF Preferred
  <2>2. e.used \in Int /\ d.used \in Int
    BY NotBehindIs
  <2>3. CASE e.used > d.used
    BY <1>3, <2>1, <2>2, <2>3, NotBehindIs
  <2>4. CASE ~(e.used > d.used)
    BY <1>3, <2>1, <2>2, <2>4, NotBehindIs
  <2> QED
    BY <2>3, <2>4
<1> QED
  BY <1>1, <1>2, <1>3

\* What is not behind an entry is not behind what that one is not behind.
LEMMA BehindOn ==
  ASSUME NEW b \in Listed, NEW d \in Listed, NEW c \in Listed, NotBehind(b, d), NotBehind(d, c)
  PROVE  NotBehind(b, c)
<1>1. b.used \in Int /\ d.used \in Int /\ c.used \in Int
  BY NotBehindIs
<1> QED
  BY <1>1, NotBehindIs

\* What the reduction keeps: an entry of those it has seen, behind none of them.
Best(r, n, e) ==
  /\ \E i \in 1..(n + 1) : e = r[i]
  /\ \A i \in 1..(n + 1) : NotBehind(e, r[i])

\* The reduction ends with one of these.
LEMMA ReducedIsBest ==
  ASSUME NEW r \in Seq(Listed), r # <<>>
  PROVE  Best(r, Len(r) - 1, Reduced(r))
<1>1. PICK m \in Nat : m = Len(r) - 1
  OBVIOUS
<1>2. \A i \in 1..(m + 1) : r[i] \in Listed
  BY <1>1
<1> DEFINE step == [p \in (1..m) \X Listed |-> Preferred(p[2], r[p[1] + 1])]
<1>3. step \in [(1..m) \X Listed -> Listed]
  <2> SUFFICES ASSUME NEW i \in 1..m, NEW e \in Listed PROVE Preferred(e, r[i + 1]) \in Listed
    OBVIOUS
  <2> QED
    BY <1>2 DEF Preferred
<1>4. PICK f : Steps(m, Listed, r[1], step, f)
  <2>1. r[1] \in Listed
    BY <1>2
  <2> HIDE DEF step
  <2> QED
    BY <1>3, <2>1, StepsExist
<1>5. f \in [0..m -> Listed] /\ f = [i \in 0..m |-> IF i = 0 THEN r[1] ELSE step[<<i, f[i - 1]>>]]
  <2> HIDE DEF step
  <2> QED
    BY <1>4 DEF Steps
<1>6. f = [i \in 0..m |-> IF i = 0 THEN r[1] ELSE Preferred(f[i - 1], r[i + 1])]
  <2> DEFINE h == [i \in 0..m |-> IF i = 0 THEN r[1] ELSE Preferred(f[i - 1], r[i + 1])]
  <2>1. ASSUME NEW i \in 0..m PROVE f[i] = h[i]
    <3>1. CASE i = 0
      BY <1>5, <3>1
    <3>2. CASE i # 0
      <4>1. i - 1 \in 0..m /\ i \in 1..m
        BY <3>2
      <4>2. <<i, f[i - 1]>> \in (1..m) \X Listed
        BY <1>5, <4>1
      <4>3. step[<<i, f[i - 1]>>] = Preferred(f[i - 1], r[i + 1])
        BY <4>2
      <4>4. f[i] = step[<<i, f[i - 1]>>]
        BY <1>5, <3>2
      <4> QED
        BY <3>2, <4>3, <4>4
    <3> QED
      BY <3>1, <3>2
  <2>2. DOMAIN f = 0..m /\ DOMAIN h = 0..m
    BY <1>5
  <2>3. f = [i \in DOMAIN f |-> f[i]] /\ h = [i \in DOMAIN h |-> h[i]]
    BY <1>5
  <2> QED
    BY <2>1, <2>2, <2>3
<1> HIDE DEF step
\* The function of the definition is one that is given so.
<1> DEFINE best == CHOOSE g : g = [i \in 0..m |-> IF i = 0 THEN r[1] ELSE Preferred(g[i - 1], r[i + 1])]
<1>7. best = [i \in 0..m |-> IF i = 0 THEN r[1] ELSE Preferred(best[i - 1], r[i + 1])]
  BY <1>6
<1>8. Reduced(r) = best[m]
  BY <1>1 DEF Reduced
<1> HIDE DEF best
<1>9. \A i \in 1..m : best[i] = Preferred(best[i - 1], r[i + 1])
  BY <1>7
<1>10. best[0] = r[1]
  BY <1>7
<1> DEFINE T == {n \in 0..m : ~(best[n] \in Listed /\ Best(r, n, best[n]))}
<1>11. T = {}
  <2> SUFFICES ASSUME T # {} PROVE FALSE
    OBVIOUS
  <2>1. PICK n \in T : \A y \in T : n <= y
    <3>1. T \subseteq Nat
      OBVIOUS
    <3> HIDE DEF T
    <3> QED
      BY <3>1, Least
  <2>2. n \in 0..m /\ ~(best[n] \in Listed /\ Best(r, n, best[n]))
    OBVIOUS
  <2>3. n # 0
    <3>1. best[0] \in Listed
      BY <1>2, <1>10
    <3>2. Best(r, 0, best[0])
      BY <1>10, <3>1, NotBehindIs DEF Best
    <3> QED
      BY <2>2, <3>1, <3>2
  <2>14. PICK k \in 0..m : k = n - 1
    BY <2>2, <2>3
  <2>4. PICK d : k = n - 1 /\ d = best[k]
    BY <2>14
  <2>5. d \in Listed /\ Best(r, k, d)
    BY <2>1, <2>2, <2>3, <2>4
  <2>6. PICK e \in Listed : e = r[n + 1]
    BY <1>2, <2>2
  <2>7. best[n] = Preferred(d, e)
    BY <1>9, <2>2, <2>3, <2>4, <2>6
  <2>8. PICK b : b = Preferred(d, e)
    OBVIOUS
  <2>9. (b = d \/ b = e) /\ NotBehind(b, d) /\ NotBehind(b, e) /\ b \in Listed
    BY <2>5, <2>8, PreferredIs
  <2>10. \A i \in 1..(k + 1) : NotBehind(b, r[i])
    <3> TAKE i \in 1..(k + 1)
    <3>1. r[i] \in Listed /\ NotBehind(d, r[i])
      BY <1>2, <2>5 DEF Best
    <3> QED
      BY <2>5, <2>9, <3>1, BehindOn
  <2>11. 1..(n + 1) = (1..(k + 1)) \cup {n + 1}
    BY <2>2, <2>4
  <2>12. \A i \in 1..(n + 1) : NotBehind(b, r[i])
    BY <2>6, <2>9, <2>10, <2>11
  <2>13. \E i \in 1..(n + 1) : b = r[i]
    BY <2>5, <2>6, <2>9, <2>11 DEF Best
  <2> QED
    BY <2>2, <2>7, <2>8, <2>9, <2>12, <2>13 DEF Best
<1>12. Best(r, m, best[m])
  BY <1>11
<1> QED
  BY <1>1, <1>8, <1>12

\* The native selection is one that is behind none.
LEMMA CurrentIsForemost ==
  ASSUME NEW r \in Seq(Listed), r # <<>>
  PROVE  Current(r) \in DOMAIN r /\ \A i \in DOMAIN r : NotBehind(r[Current(r)], r[i])
<1>1. PICK n \in Nat : n = Len(r) /\ DOMAIN r = 1..n /\ n - 1 + 1 = n
  OBVIOUS
<1>2. Foremost(r) \subseteq 1..n /\ Foremost(r) # {}
  <2>1. Best(r, n - 1, Reduced(r))
    BY <1>1, ReducedIsBest
  <2>2. PICK i \in 1..n : Reduced(r) = r[i] /\ \A j \in 1..n : NotBehind(r[i], r[j])
    BY <1>1, <2>1 DEF Best
  <2>3. i \in Foremost(r)
    BY <1>1, <2>2 DEF Foremost
  <2> QED
    BY <1>1, <2>3 DEF Foremost
<1>3. \E i \in Foremost(r) : \A k \in Foremost(r) : k <= i
  BY <1>2, Greatest
<1>4. Current(r) \in Foremost(r)
  BY <1>3 DEF Current
<1> QED
  BY <1>4 DEF Foremost

\* Both selections are open if any entry is, and of one age.
LEMMA SelectedAlike ==
  ASSUME NEW r \in Seq(Listed), r # <<>>, NEW e, e = Reduced(r), NEW c, c = r[Current(r)]
  PROVE  /\ IsOpen(c) <=> \E i \in DOMAIN r : IsOpen(r[i])
         /\ IsOpen(e) = IsOpen(c) /\ e.used = c.used
<1>1. PICK n \in Nat : n = Len(r) /\ DOMAIN r = 1..n /\ n - 1 + 1 = n
  OBVIOUS
<1>2. \A i \in 1..n : r[i] \in Listed
  BY <1>1
<1>3. PICK k \in 1..n : c = r[k] /\ \A i \in 1..n : NotBehind(c, r[i])
  BY <1>1, CurrentIsForemost
<1>4. PICK j \in 1..n : e = r[j] /\ \A i \in 1..n : NotBehind(e, r[i])
  <2>1. Best(r, n - 1, e)
    BY <1>1, ReducedIsBest
  <2> QED
    BY <1>1, <2>1 DEF Best
<1>5. NotBehind(c, e) /\ NotBehind(e, c) /\ c \in Listed /\ e \in Listed
  BY <1>2, <1>3, <1>4
<1>6. IsOpen(e) = IsOpen(c) /\ e.used = c.used
  BY <1>5 DEF NotBehind, Listed, IsOpen
<1>7. ASSUME NEW i \in 1..n, IsOpen(r[i]) PROVE IsOpen(c)
  BY <1>3, <1>7 DEF NotBehind, IsOpen
<1> QED
  BY <1>1, <1>3, <1>6, <1>7

-----------------------------------------------------------------------------
(* The cipher *)

\* What the assumptions say of the sizes.
LEMMA Sizes == Block \in Nat \ {0} /\ Byte \in Nat \ {0} /\ Block < Byte
BY CbcAssumption

\* The exclusive or is undone by itself: here, adding by subtracting.
LEMMA Undone ==
  ASSUME NEW n \in Nat \ {0}, NEW x \in 0..(n - 1), NEW y \in 0..(n - 1)
  PROVE  /\ (x + y) % n \in 0..(n - 1) /\ (x - y + n) % n \in 0..(n - 1)
         /\ (((x + y) % n) - y + n) % n = x
         /\ (((x - y + n) % n) + y) % n = x
<1>1. PICK s \in 0..(n - 1) : s = (x + y) % n /\ (s = x + y \/ s = x + y - n)
  <2>1. CASE x + y < n
    <3>1. (n * 0 + (x + y)) % n = x + y
      BY <2>1, Remainder
    <3>2. n * 0 + (x + y) = x + y
      OBVIOUS
    <3> QED
      BY <2>1, <3>1, <3>2
  <2>2. CASE x + y >= n
    <3>1. PICK r \in 0..(n - 1) : r = x + y - n
      BY <2>2
    <3>2. (n * 1 + r) % n = r
      BY Remainder
    <3>3. n * 1 + r = x + y
      BY <3>1
    <3> QED
      BY <3>1, <3>2, <3>3
  <2> QED
    BY <2>1, <2>2
<1>2. PICK d \in 0..(n - 1) : d = (x - y + n) % n /\ (d = x - y \/ d = x - y + n)
  <2>1. CASE x - y < 0
    <3>1. PICK r \in 0..(n - 1) : r = x - y + n
      BY <2>1
    <3>2. (n * 0 + r) % n = r
      BY Remainder
    <3>3. n * 0 + r = r
      OBVIOUS
    <3> QED
      BY <3>1, <3>2, <3>3
  <2>2. CASE x - y >= 0
    <3>1. PICK r \in 0..(n - 1) : r = x - y
      BY <2>2
    <3>2. (n * 1 + r) % n = r
      BY Remainder
    <3>3. n * 1 + r = x - y + n
      BY <3>1
    <3> QED
      BY <3>1, <3>2, <3>3
  <2> QED
    BY <2>1, <2>2
<1>3. (s - y + n) % n = x
  <2>1. PICK q \in Int : q = IF s = x + y THEN 1 ELSE 0
    OBVIOUS
  <2>2. (n * q + x) % n = x
    BY Remainder
  <2>3. s - y + n = n * q + x
    BY <1>1, <2>1
  <2> QED
    BY <2>2, <2>3
<1>4. (d + y) % n = x
  <2>1. PICK q \in Int : q = IF d = x - y THEN 0 ELSE 1
    OBVIOUS
  <2>2. (n * q + x) % n = x
    BY Remainder
  <2>3. d + y = n * q + x
    BY <1>2, <2>1
  <2> QED
    BY <2>2, <2>3
<1> QED
  BY <1>1, <1>2, <1>3, <1>4

\* The same for a whole block.
LEMMA BlocksUndone ==
  ASSUME NEW a \in Blocks, NEW b \in Blocks
  PROVE  /\ Plus(a, b) \in Blocks /\ Minus(a, b) \in Blocks
         /\ Minus(Plus(a, b), b) = a /\ Plus(Minus(a, b), b) = a
<1>1. ASSUME NEW i \in 1..Block
      PROVE  /\ (a[i] + b[i]) % Byte \in 0..(Byte - 1) /\ (a[i] - b[i] + Byte) % Byte \in 0..(Byte - 1)
             /\ (((a[i] + b[i]) % Byte) - b[i] + Byte) % Byte = a[i]
             /\ (((a[i] - b[i] + Byte) % Byte) + b[i]) % Byte = a[i]
  <2>1. PICK x \in 0..(Byte - 1), y \in 0..(Byte - 1) : x = a[i] /\ y = b[i]
    BY DEF Blocks
  <2> QED
    BY <2>1, Sizes, Undone
<1>2. Plus(a, b) \in Blocks /\ Minus(a, b) \in Blocks
  BY <1>1 DEF Plus, Minus, Blocks
<1>3. Minus(Plus(a, b), b) = a
  <2>1. Minus(Plus(a, b), b) = [i \in 1..Block |-> a[i]]
    BY <1>1 DEF Plus, Minus
  <2> QED
    BY <2>1 DEF Blocks
<1>4. Plus(Minus(a, b), b) = a
  <2>1. Plus(Minus(a, b), b) = [i \in 1..Block |-> a[i]]
    BY <1>1 DEF Plus, Minus
  <2> QED
    BY <2>1 DEF Blocks
<1> QED
  BY <1>2, <1>3, <1>4

\* A place in a text is a place in one of its blocks.
LEMMA Place ==
  ASSUME NEW count \in Nat, NEW j \in 1..(Block * count)
  PROVE  \E i \in 1..count, k \in 1..Block :
           /\ i = ((j - 1) \div Block) + 1 /\ k = ((j - 1) % Block) + 1
           /\ j = Block * (i - 1) + k
<1>1. PICK n \in Nat \ {0} : n = Block
  BY Sizes
<1>2. PICK k \in Nat : k = j - 1
  OBVIOUS
<1>3. PICK q \in Int, r \in 0..(n - 1) : k = n * q + r /\ q = k \div n /\ r = k % n
  <2>1. k \in Int
    OBVIOUS
  <2> QED
    BY <2>1, Quotient
<1>4. q >= 0
  <2> SUFFICES ASSUME q <= 0 - 1 PROVE FALSE
    OBVIOUS
  <2>1. n * q <= n * (0 - 1)
    OBVIOUS
  <2> QED
    BY <1>3, <2>1
<1>5. q < count
  <2> SUFFICES ASSUME count <= q PROVE FALSE
    OBVIOUS
  <2>1. n * count <= n * q
    OBVIOUS
  <2>2. PICK t \in Int : t = n * count
    OBVIOUS
  <2> QED
    BY <1>1, <1>2, <1>3, <2>1, <2>2
<1>6. PICK i \in 1..count, c \in 1..n : i = q + 1 /\ c = r + 1
  BY <1>4, <1>5
<1>7. i = ((j - 1) \div n) + 1 /\ c = ((j - 1) % n) + 1
  BY <1>2, <1>3, <1>6
<1>8. j = n * (i - 1) + c
  <2>1. i - 1 = q
    BY <1>6
  <2> QED
    BY <1>2, <1>3, <1>6, <2>1
<1> QED
  BY <1>1, <1>7, <1>8

IsPlace(count, i, k, j) ==
  /\ j \in 1..(Block * count)
  /\ ((j - 1) \div Block) + 1 = i /\ ((j - 1) % Block) + 1 = k

\* Each byte of each block has such a place.
LEMMA PlaceOf ==
  ASSUME NEW count \in Nat, NEW i \in 1..count, NEW k \in 1..Block, NEW j, j = Block * (i - 1) + k
  PROVE  IsPlace(count, i, k, j)
<1>1. PICK n \in Nat \ {0} : n = Block
  BY Sizes
<1>2. PICK p \in Int, c \in 0..(n - 1) : p = i - 1 /\ c = k - 1 /\ p >= 0
  BY <1>1
<1>3. PICK m \in Int : m = n * p + c /\ m = j - 1
  BY <1>1, <1>2
<1>4. m % n = c
  <2>1. (n * p + c) % n = c
    BY Remainder
  <2> QED
    BY <1>3, <2>1
<1>5. m \div n = p
  <2>1. PICK q \in Int, r \in 0..(n - 1) : m = n * q + r /\ q = m \div n /\ r = m % n
    BY Quotient
  <2>2. n * q = n * p
    BY <1>3, <1>4, <2>1
  <2>3. PICK e \in Int : e = q - p
    OBVIOUS
  <2>4. n * e = 0
    BY <2>2, <2>3
  <2>5. e = 0
    BY <2>4
  <2> QED
    BY <2>1, <2>3, <2>5
<1>6. j \in 1..(n * count)
  <2>1. n * p >= 0
    BY <1>2
  <2>2. n * (p + 1) <= n * count
    BY <1>2
  <2>3. n * (p + 1) = n * p + n
    OBVIOUS
  <2>4. PICK s \in Int, t \in Int : s = n * p /\ t = n * count
    OBVIOUS
  <2> QED
    BY <1>2, <1>3, <2>1, <2>2, <2>3, <2>4
<1> QED
  BY <1>1, <1>2, <1>3, <1>4, <1>5, <1>6 DEF IsPlace

\* Joining blocks and taking them apart.
LEMMA JoinedIs ==
  ASSUME NEW count \in Nat, NEW f, \A i \in 1..count : f[i] \in Blocks
  PROVE  /\ Joined(count, f) \in Bytes /\ Len(Joined(count, f)) = Block * count
         /\ \A i \in 1..count : BlockAt(Joined(count, f), i) = f[i]
<1>1. PICK len \in Nat : len = Block * count
  BY Sizes
<1>2. ASSUME NEW j \in 1..len
      PROVE  f[((j - 1) \div Block) + 1][((j - 1) % Block) + 1] \in 0..(Byte - 1)
  <2>1. PICK i \in 1..count, k \in 1..Block : i = ((j - 1) \div Block) + 1 /\ k = ((j - 1) % Block) + 1
    BY <1>1, Place
  <2>2. f[i][k] \in 0..(Byte - 1)
    BY DEF Blocks
  <2> QED
    BY <2>1, <2>2
<1>3. Joined(count, f) = [j \in 1..len |-> f[((j - 1) \div Block) + 1][((j - 1) % Block) + 1]]
  BY <1>1 DEF Joined
<1>4. Joined(count, f) \in Bytes /\ Len(Joined(count, f)) = len
  BY <1>2, <1>3 DEF Bytes
<1>5. ASSUME NEW i \in 1..count PROVE BlockAt(Joined(count, f), i) = f[i]
  <2>1. ASSUME NEW k \in 1..Block PROVE Joined(count, f)[Block * (i - 1) + k] = f[i][k]
    <3>1. PICK j : j = Block * (i - 1) + k
      OBVIOUS
    <3>3. IsPlace(count, i, k, j)
      BY <3>1, PlaceOf, Zenon
    <3>2. j \in 1..len /\ ((j - 1) \div Block) + 1 = i /\ ((j - 1) % Block) + 1 = k
      BY <1>1, <3>3 DEF IsPlace
    <3> QED
      BY <1>3, <3>1, <3>2
  <2>2. BlockAt(Joined(count, f), i) = [k \in 1..Block |-> f[i][k]]
    BY <2>1 DEF BlockAt
  <2>3. f[i] = [k \in 1..Block |-> f[i][k]]
    BY DEF Blocks
  <2> QED
    BY <2>2, <2>3
<1> QED
  BY <1>1, <1>4, <1>5

\* A block of a text is one of the cipher's blocks.
LEMMA BlockAtIs ==
  ASSUME NEW s \in Bytes, NEW count \in Nat, Len(s) = Block * count, NEW i \in 1..count
  PROVE  BlockAt(s, i) \in Blocks
<1>1. ASSUME NEW k \in 1..Block PROVE s[Block * (i - 1) + k] \in 0..(Byte - 1)
  <2>1. PICK j : j = Block * (i - 1) + k
    OBVIOUS
  <2>2. IsPlace(count, i, k, j)
    BY <2>1, PlaceOf, Zenon
  <2>3. j \in 1..Len(s)
    BY <2>2 DEF IsPlace
  <2>4. PICK D : D = 0..(Byte - 1) /\ s \in Seq(D)
    BY DEF Bytes
  <2>5. s[j] \in D
    BY <2>3, <2>4, ElementOfSeq
  <2> QED
    BY <2>1, <2>4, <2>5
<1> QED
  BY <1>1 DEF BlockAt, Blocks

\* A text that was taken apart is put together again.
LEMMA JoinedBack ==
  ASSUME NEW s \in Bytes, NEW count \in Nat, Len(s) = Block * count,
         NEW f, \A i \in 1..count : f[i] = BlockAt(s, i)
  PROVE  Joined(count, f) = s
<1>1. PICK len \in Nat : len = Block * count /\ Len(s) = len
  BY Sizes
<1>2. ASSUME NEW j \in 1..len
      PROVE  f[((j - 1) \div Block) + 1][((j - 1) % Block) + 1] = s[j]
  <2>1. PICK i \in 1..count, k \in 1..Block :
          /\ i = ((j - 1) \div Block) + 1 /\ k = ((j - 1) % Block) + 1
          /\ j = Block * (i - 1) + k
    BY <1>1, Place
  <2>2. f[i] = [c \in 1..Block |-> s[Block * (i - 1) + c]]
    BY DEF BlockAt
  <2>3. f[i][k] = s[j]
    BY <2>1, <2>2
  <2> QED
    BY <2>1, <2>3
<1>3. Joined(count, f) = [j \in 1..len |-> f[((j - 1) \div Block) + 1][((j - 1) % Block) + 1]]
  BY <1>1 DEF Joined
<1>4. s = [j \in 1..len |-> s[j]]
  BY <1>1 DEF Bytes
<1> QED
  BY <1>2, <1>3, <1>4

\* The chain of the blocks, of which each is enciphered with the one before.
Chained(count, iv, text, out) ==
  /\ out[0] = iv /\ \A i \in 0..count : out[i] \in Blocks
  /\ \A i \in 1..count : out[i] = EncryptBlock(Plus(BlockAt(text, i), out[i - 1]))

\* What encryption makes of a padded text.
Encrypted(count, iv, text, bytes) ==
  \E out : Chained(count, iv, text, out) /\ bytes = Joined(count, out)

\* The recursive definition finds one.
LEMMA ChainExists ==
  ASSUME NEW iv \in Blocks, NEW count \in Nat,
         NEW text, \A i \in 1..count : BlockAt(text, i) \in Blocks,
         NEW best, best = CHOOSE f : f = [i \in 0..count |->
                                            IF i = 0 THEN iv ELSE EncryptBlock(Plus(BlockAt(text, i), f[i - 1]))]
  PROVE  Chained(count, iv, text, best)
<1> DEFINE step == [p \in (1..count) \X Blocks |-> EncryptBlock(Plus(BlockAt(text, p[1]), p[2]))]
<1>1. step \in [(1..count) \X Blocks -> Blocks]
  <2> SUFFICES ASSUME NEW i \in 1..count, NEW b \in Blocks
               PROVE  EncryptBlock(Plus(BlockAt(text, i), b)) \in Blocks
    OBVIOUS
  <2>1. Plus(BlockAt(text, i), b) \in Blocks
    BY BlocksUndone
  <2> QED
    BY <2>1, PermutationAssumption
<1>2. PICK f : Steps(count, Blocks, iv, step, f)
  <2> HIDE DEF step
  <2> QED
    BY <1>1, StepsExist
<1>3. f \in [0..count -> Blocks] /\ f = [i \in 0..count |-> IF i = 0 THEN iv ELSE step[<<i, f[i - 1]>>]]
  <2> HIDE DEF step
  <2> QED
    BY <1>2 DEF Steps
<1>4. f = [i \in 0..count |-> IF i = 0 THEN iv ELSE EncryptBlock(Plus(BlockAt(text, i), f[i - 1]))]
  <2> DEFINE h == [i \in 0..count |-> IF i = 0 THEN iv ELSE EncryptBlock(Plus(BlockAt(text, i), f[i - 1]))]
  <2>1. ASSUME NEW i \in 0..count PROVE f[i] = h[i]
    <3>1. CASE i = 0
      BY <1>3, <3>1
    <3>2. CASE i # 0
      <4>1. i - 1 \in 0..count /\ i \in 1..count
        BY <3>2
      <4>2. <<i, f[i - 1]>> \in (1..count) \X Blocks
        BY <1>3, <4>1
      <4>3. step[<<i, f[i - 1]>>] = EncryptBlock(Plus(BlockAt(text, i), f[i - 1]))
        BY <4>2
      <4>4. f[i] = step[<<i, f[i - 1]>>]
        BY <1>3, <3>2
      <4> QED
        BY <3>2, <4>3, <4>4
    <3> QED
      BY <3>1, <3>2
  <2>2. DOMAIN f = 0..count /\ DOMAIN h = 0..count
    BY <1>3
  <2>3. f = [i \in DOMAIN f |-> f[i]] /\ h = [i \in DOMAIN h |-> h[i]]
    BY <1>3
  <2> QED
    BY <2>1, <2>2, <2>3
<1> HIDE DEF step
<1>5. best = [i \in 0..count |-> IF i = 0 THEN iv ELSE EncryptBlock(Plus(BlockAt(text, i), best[i - 1]))]
  <2> DEFINE Is(g) == g = [i \in 0..count |-> IF i = 0 THEN iv ELSE EncryptBlock(Plus(BlockAt(text, i), g[i - 1]))]
  <2>1. Is(f) /\ best = CHOOSE g : Is(g)
    BY <1>4
  <2>2. Is(best)
    <3> HIDE DEF Is
    <3> QED
      BY <2>1
  <2> QED
    BY <2>2
<1>10. PICK out : out = best
  OBVIOUS
<1>9. out = [i \in 0..count |-> IF i = 0 THEN iv ELSE EncryptBlock(Plus(BlockAt(text, i), out[i - 1]))]
  BY <1>5, <1>10, Zenon
<1>6. out[0] = iv /\ \A i \in 1..count : out[i] = EncryptBlock(Plus(BlockAt(text, i), out[i - 1]))
  BY <1>9
<1> DEFINE T == {n \in 0..count : out[n] \notin Blocks}
<1>7. T = {}
  <2> SUFFICES ASSUME T # {} PROVE FALSE
    OBVIOUS
  <2>1. PICK n \in T : \A y \in T : n <= y
    <3>1. T \subseteq Nat
      OBVIOUS
    <3> HIDE DEF T
    <3> QED
      BY <3>1, Least
  <2>2. n \in 1..count /\ out[n] \notin Blocks
    BY <1>6
  <2>3. n - 1 \in 0..count /\ ~(n <= n - 1)
    BY <2>2
  <2>4. out[n - 1] \in Blocks
    BY <2>1, <2>3
  <2>5. Plus(BlockAt(text, n), out[n - 1]) \in Blocks
    BY <2>2, <2>4, BlocksUndone
  <2>6. out[n] = EncryptBlock(Plus(BlockAt(text, n), out[n - 1]))
    BY <1>6, <2>2
  <2> QED
    BY <2>2, <2>5, <2>6, PermutationAssumption
<1>8. \A i \in 0..count : out[i] \in Blocks
  BY <1>7
<1> QED
  BY <1>6, <1>8, <1>10 DEF Chained

\* A text is filled up to whole blocks.
LEMMA Padded ==
  ASSUME NEW text \in Bytes
  PROVE  \E n \in 1..Block, count \in Nat :
           /\ n = Block - (Len(text) % Block)
           /\ Pad(text) = text \o [i \in 1..n |-> n]
           /\ Pad(text) \in Bytes /\ Len(Pad(text)) = Len(text) + n
           /\ Len(Pad(text)) = Block * count /\ count > 0 /\ Len(Pad(text)) \div Block = count
<1>1. PICK b \in Nat \ {0} : b = Block
  BY Sizes
<1>2. PICK len \in Nat : len = Len(text)
  BY DEF Bytes
<1>3. PICK q \in Int, r \in 0..(b - 1) : len = b * q + r /\ r = len % b
  <2>1. len \in Int
    OBVIOUS
  <2> QED
    BY <2>1, Divided
<1>4. PICK n \in 1..b : n = b - r
  OBVIOUS
<1>5. Pad(text) = text \o [i \in 1..n |-> n]
  BY <1>1, <1>2, <1>3, <1>4 DEF Pad
<1>6. Pad(text) \in Bytes /\ Len(Pad(text)) = len + n
  <2>1. [i \in 1..n |-> n] \in Bytes /\ Len([i \in 1..n |-> n]) = n
    <3>1. n \in 0..(Byte - 1)
      BY <1>1, Sizes
    <3> QED
      BY <3>1 DEF Bytes
  <2>2. PICK t \in Bytes : t = [i \in 1..n |-> n] /\ Len(t) = n
    BY <2>1
  <2>3. text \o t \in Bytes /\ Len(text \o t) = len + n
    BY <1>2, <2>2 DEF Bytes
  <2> QED
    BY <1>5, <2>2, <2>3
<1>7. PICK count \in Int : count = q + 1
  OBVIOUS
<1>8. len + n = b * count
  <2>1. b * count = b * q + b
    BY <1>7
  <2> QED
    BY <1>3, <1>4, <2>1
<1>9. count > 0
  <2> SUFFICES ASSUME count <= 0 PROVE FALSE
    OBVIOUS
  <2>1. b * count <= b * 0
    OBVIOUS
  <2> QED
    BY <1>4, <1>8, <2>1
<1>10. (len + n) \div b = count
  <2>1. PICK m \in Int : m = len + n
    OBVIOUS
  <2>2. PICK d \in Int, e \in 0..(b - 1) : m = b * d + e /\ d = m \div b /\ e = m % b
    BY Quotient
  <2>3. (b * count + 0) % b = 0
    <3>1. 0 \in 0..(b - 1)
      OBVIOUS
    <3> QED
      BY <3>1, Remainder
  <2>4. b * count + 0 = m
    BY <1>8, <2>1
  <2>5. b * d = b * count
    BY <2>2, <2>3, <2>4
  <2>6. PICK f \in Int : f = d - count
    OBVIOUS
  <2>7. b * f = 0
    BY <2>5, <2>6
  <2>8. f = 0
    BY <2>7
  <2> QED
    BY <2>1, <2>2, <2>6, <2>8
<1>11. n \in 1..Block /\ count \in Nat /\ count > 0 /\ n = Block - (Len(text) % Block)
  BY <1>1, <1>2, <1>3, <1>4, <1>9
<1>12. Pad(text) \in Bytes /\ Len(Pad(text)) = Len(text) + n
  BY <1>2, <1>6
<1>13. Len(Pad(text)) = Block * count /\ Len(Pad(text)) \div Block = count
  BY <1>1, <1>6, <1>8, <1>10
<1> QED
  BY <1>5, <1>11, <1>12, <1>13, Zenon

\* CbcEncrypt returns this chain, joined.
LEMMA EncryptIs ==
  ASSUME NEW iv \in Blocks, NEW text \in Bytes, NEW count \in Nat,
         Len(Pad(text)) = Block * count, Len(Pad(text)) \div Block = count, Pad(text) \in Bytes
  PROVE  Encrypted(count, iv, Pad(text), CbcEncrypt(iv, text))
<1>1. PICK p : p = Pad(text)
  OBVIOUS
<1>2. \A i \in 1..count : BlockAt(p, i) \in Blocks
  BY <1>1, BlockAtIs
<1>3. PICK out : out = CHOOSE f : f = [i \in 0..count |->
                                        IF i = 0 THEN iv ELSE EncryptBlock(Plus(BlockAt(p, i), f[i - 1]))]
  OBVIOUS
<1>4. Chained(count, iv, p, out)
  BY <1>2, <1>3, ChainExists, Zenon
<1>5. CbcEncrypt(iv, text) = Joined(count, out)
  BY <1>1, <1>3, Zenon DEF CbcEncrypt
<1> QED
  BY <1>1, <1>4, <1>5 DEF Encrypted

\* What decryption makes of some blocks, the padding included.
Opened(count, iv, bytes) ==
  Joined(count, [i \in 1..count |->
    Minus(DecryptBlock(BlockAt(bytes, i)), IF i = 1 THEN iv ELSE BlockAt(bytes, i - 1))])

\* CbcDecrypt cuts the padding of it, if that is sound.
LEMMA DecryptIs ==
  ASSUME NEW iv, NEW bytes, NEW count, Len(bytes) \div Block = count,
         NEW out, out = Opened(count, iv, bytes)
  PROVE  /\ bytes # <<>> /\ Len(bytes) % Block = 0 /\ PaddingSound(out)
              => CbcDecrypt(iv, bytes) = SubSeq(out, 1, Len(out) - out[Len(out)])
         /\ ~(bytes # <<>> /\ Len(bytes) % Block = 0 /\ PaddingSound(out)) => CbcDecrypt(iv, bytes) = CbcError
BY Zenon DEF CbcDecrypt, Opened

\* Decryption of a chain is the text it was made of.
LEMMA OpenedChain ==
  ASSUME NEW iv \in Blocks, NEW count \in Nat, NEW text \in Bytes, Len(text) = Block * count,
         NEW bytes, Encrypted(count, iv, text, bytes)
  PROVE  bytes \in Bytes /\ Len(bytes) = Block * count /\ Opened(count, iv, bytes) = text
<1>1. PICK out : Chained(count, iv, text, out) /\ bytes = Joined(count, out)
  BY DEF Encrypted
<1>2. /\ out[0] = iv /\ \A i \in 0..count : out[i] \in Blocks
      /\ \A i \in 1..count : out[i] = EncryptBlock(Plus(BlockAt(text, i), out[i - 1]))
  BY <1>1 DEF Chained
<1>3. \A i \in 1..count : out[i] \in Blocks
  BY <1>2
<1>4. /\ bytes \in Bytes /\ Len(bytes) = Block * count
      /\ \A i \in 1..count : BlockAt(bytes, i) = out[i]
  BY <1>1, <1>3, JoinedIs
<1> DEFINE f == [i \in 1..count |->
                   Minus(DecryptBlock(BlockAt(bytes, i)), IF i = 1 THEN iv ELSE BlockAt(bytes, i - 1))]
<1>5. ASSUME NEW i \in 1..count PROVE f[i] = BlockAt(text, i)
  <2>1. i - 1 \in 0..count /\ (i # 1 => i - 1 \in 1..count)
    OBVIOUS
  <2>2. PICK a \in Blocks, b \in Blocks : a = BlockAt(text, i) /\ b = out[i - 1]
    BY <1>2, <2>1, BlockAtIs
  <2>3. (IF i = 1 THEN iv ELSE BlockAt(bytes, i - 1)) = b
    BY <1>2, <1>4, <2>1, <2>2
  <2>4. BlockAt(bytes, i) = EncryptBlock(Plus(a, b))
    BY <1>2, <1>4, <2>2
  <2>5. DecryptBlock(BlockAt(bytes, i)) = Plus(a, b)
    BY <2>4, BlocksUndone, PermutationAssumption
  <2>6. f[i] = Minus(Plus(a, b), b)
    BY <2>3, <2>5
  <2> QED
    BY <2>2, <2>6, BlocksUndone
<1>6. Joined(count, f) = text
  <2> HIDE DEF f
  <2> QED
    BY <1>5, JoinedBack
<1> QED
  BY <1>4, <1>6 DEF Opened

\* and encryption of what was opened is a chain of the same blocks.
LEMMA ChainOpened ==
  ASSUME NEW iv \in Blocks, NEW count \in Nat, NEW bytes \in Bytes, Len(bytes) = Block * count,
         NEW text, text = Opened(count, iv, bytes),
         NEW made, Encrypted(count, iv, text, made)
  PROVE  made = bytes
<1>1. PICK out : Chained(count, iv, text, out) /\ made = Joined(count, out)
  BY DEF Encrypted
<1>2. /\ out[0] = iv
      /\ \A i \in 1..count : out[i] = EncryptBlock(Plus(BlockAt(text, i), out[i - 1]))
  BY <1>1 DEF Chained
<1> DEFINE f == [i \in 1..count |->
                   Minus(DecryptBlock(BlockAt(bytes, i)), IF i = 1 THEN iv ELSE BlockAt(bytes, i - 1))]
<1>3. ASSUME NEW i \in 1..count
      PROVE  /\ BlockAt(bytes, i) \in Blocks /\ (IF i = 1 THEN iv ELSE BlockAt(bytes, i - 1)) \in Blocks
             /\ DecryptBlock(BlockAt(bytes, i)) \in Blocks
  <2>1. BlockAt(bytes, i) \in Blocks
    BY BlockAtIs
  <2>2. i # 1 => BlockAt(bytes, i - 1) \in Blocks
    <3>1. i # 1 => i - 1 \in 1..count
      OBVIOUS
    <3> QED
      BY <3>1, BlockAtIs
  <2> QED
    BY <2>1, <2>2, PermutationAssumption
<1>4. ASSUME NEW i \in 1..count PROVE f[i] \in Blocks
  BY <1>3, BlocksUndone
<1>5. text = Joined(count, f)
  BY DEF Opened
<1>6. \A i \in 1..count : BlockAt(text, i) = f[i]
  <2> HIDE DEF f
  <2> QED
    BY <1>4, <1>5, JoinedIs
<1> DEFINE T == {i \in 1..count : out[i] # BlockAt(bytes, i)}
<1>7. T = {}
  <2> SUFFICES ASSUME T # {} PROVE FALSE
    OBVIOUS
  <2>1. PICK i \in T : \A y \in T : i <= y
    <3>1. T \subseteq Nat
      OBVIOUS
    <3> HIDE DEF T
    <3> QED
      BY <3>1, Least
  <2>2. i \in 1..count /\ out[i] # BlockAt(bytes, i)
    OBVIOUS
  <2>3. PICK b \in Blocks, c \in Blocks :
          /\ b = IF i = 1 THEN iv ELSE BlockAt(bytes, i - 1)
          /\ c = BlockAt(bytes, i) /\ DecryptBlock(c) \in Blocks
    BY <1>3, <2>2
  <2>4. out[i - 1] = b
    <3>1. CASE i = 1
      BY <1>2, <2>3, <3>1
    <3>2. CASE i # 1
      <4>1. i - 1 \in 1..count /\ ~(i <= i - 1)
        BY <2>2, <3>2
      <4>2. out[i - 1] = BlockAt(bytes, i - 1)
        BY <2>1, <4>1
      <4> QED
        BY <2>3, <3>2, <4>2
    <3> QED
      BY <3>1, <3>2
  <2>5. BlockAt(text, i) = Minus(DecryptBlock(c), b)
    BY <1>6, <2>2, <2>3
  <2>6. Plus(BlockAt(text, i), b) = DecryptBlock(c)
    BY <2>3, <2>5, BlocksUndone
  <2>7. out[i] = EncryptBlock(DecryptBlock(c))
    BY <1>2, <2>2, <2>4, <2>6
  <2> QED
    BY <2>2, <2>3, <2>7, PermutationAssumption
<1>8. \A i \in 1..count : out[i] = BlockAt(bytes, i)
  BY <1>7
<1>9. Joined(count, out) = bytes
  BY <1>8, JoinedBack
<1> QED
  BY <1>1, <1>9

\* The beginning of a sequence, and a sequence with something added n times.
IsBeginning(D, s, m, t) == t \in Seq(D) /\ Len(t) = m /\ \A i \in 1..m : t[i] = s[i]

\* SubSeq makes such a beginning,
LEMMA Beginning ==
  ASSUME NEW D, NEW s \in Seq(D), NEW m \in Nat, m <= Len(s), NEW t, t = SubSeq(s, 1, m)
  PROVE  IsBeginning(D, s, m, t)
<1>1. \A i \in 1..m : s[i] \in D
  <2> TAKE i \in 1..m
  <2>1. i \in 1..Len(s)
    OBVIOUS
  <2> QED
    BY <2>1, ElementOfSeq
<1>2. /\ t \in Seq(D) /\ Len(t) = IF 1 <= m THEN m - 1 + 1 ELSE 0
      /\ \A i \in 1..(m - 1 + 1) : t[i] = s[1 + i - 1]
  BY <1>1, SubSeqProperties
<1>3. m - 1 + 1 = m /\ \A i \in 1..m : 1 + i - 1 = i
  OBVIOUS
<1> QED
  BY <1>2, <1>3 DEF IsBeginning

\* and a concatenation the sequence with n added n times.
LEMMA Filled ==
  ASSUME NEW D, NEW s \in Seq(D), NEW n \in Nat, n \in D, NEW t, t = s \o [i \in 1..n |-> n]
  PROVE  /\ t \in Seq(D) /\ Len(t) = Len(s) + n
         /\ \A i \in 1..(Len(s) + n) : t[i] = IF i <= Len(s) THEN s[i] ELSE n
<1>1. PICK f : f = [i \in 1..n |-> n]
  OBVIOUS
<1>2. f \in Seq(D) /\ Len(f) = n /\ \A i \in 1..n : f[i] = n
  BY <1>1
<1>3. /\ t \in Seq(D) /\ Len(t) = Len(s) + Len(f)
      /\ \A i \in 1..(Len(s) + Len(f)) : t[i] = IF i <= Len(s) THEN s[i] ELSE f[i - Len(s)]
  BY <1>1, <1>2, ConcatProperties
<1>4. PICK len \in Nat : len = Len(s)
  BY LenProperties
<1>5. ASSUME NEW i \in 1..(len + n), ~(i <= len) PROVE f[i - len] = n
  <2>1. i - len \in 1..n
    BY <1>5
  <2> QED
    BY <1>2, <2>1
<1> QED
  BY <1>2, <1>3, <1>4, <1>5

\* The padding is cut where it was added,
LEMMA CutPadding ==
  ASSUME NEW text \in Bytes, NEW n \in 1..Block, NEW out, out = text \o [i \in 1..n |-> n]
  PROVE  PaddingSound(out) /\ SubSeq(out, 1, Len(out) - out[Len(out)]) = text
<1>1. PICK D : D = 0..(Byte - 1) /\ text \in Seq(D)
  BY DEF Bytes
<1>2. n \in Nat /\ n > 0 /\ n \in D
  BY <1>1, Sizes
<1>3. PICK len \in Nat : len = Len(text)
  BY <1>1, LenProperties
<1>4. /\ out \in Seq(D) /\ Len(out) = len + n
      /\ \A i \in 1..(len + n) : out[i] = IF i <= len THEN text[i] ELSE n
  BY <1>1, <1>2, <1>3, Filled
<1>5. out[Len(out)] = n
  <2>1. len + n \in 1..(len + n) /\ ~(len + n <= len)
    BY <1>2
  <2> QED
    BY <1>4, <2>1
<1>6. PaddingSound(out)
  <2>1. ASSUME NEW i \in (Len(out) - n + 1)..Len(out) PROVE out[i] = n
    <3>1. i \in 1..(len + n) /\ ~(i <= len)
      BY <1>2, <1>4
    <3> QED
      BY <1>4, <3>1
  <2> QED
    BY <1>5, <2>1 DEF PaddingSound
<1>7. SubSeq(out, 1, Len(out) - out[Len(out)]) = text
  <2>1. Len(out) - out[Len(out)] = len /\ len <= Len(out)
    BY <1>2, <1>4, <1>5
  <2>2. PICK t : t = SubSeq(out, 1, len)
    OBVIOUS
  <2>3. t \in Seq(D) /\ Len(t) = len /\ \A i \in 1..len : t[i] = out[i]
    <3>1. IsBeginning(D, out, len, t)
      BY <1>4, <2>1, <2>2, Beginning, Zenon
    <3> QED
      BY <3>1 DEF IsBeginning
  <2>4. \A i \in 1..len : t[i] = text[i]
    <3> TAKE i \in 1..len
    <3>1. i \in 1..(len + n) /\ i <= len
      BY <1>2
    <3> QED
      BY <1>4, <2>3, <3>1
  <2>5. t = text
    BY <1>1, <1>3, <2>3, <2>4, SeqEqual
  <2> QED
    BY <2>1, <2>2, <2>5
<1> QED
  BY <1>6, <1>7

\* and added where it was cut.
LEMMA PadCut ==
  ASSUME NEW out \in Bytes, NEW count \in Nat, count > 0, Len(out) = Block * count, PaddingSound(out),
         NEW text, text = SubSeq(out, 1, Len(out) - out[Len(out)])
  PROVE  text \in Bytes /\ Pad(text) = out
<1>1. PICK b \in Nat \ {0} : b = Block
  BY Sizes
<1>2. PICK D : D = 0..(Byte - 1) /\ out \in Seq(D)
  BY DEF Bytes
<1>3. PICK len \in Nat : len = Len(out)
  BY <1>2, LenProperties
<1>15. len = b * count
  BY <1>1, <1>3
<1>4. PICK n \in 1..b : n = out[Len(out)] /\ \A i \in (len - n + 1)..len : out[i] = n
  BY <1>1, <1>3 DEF PaddingSound
<1>5. PICK q \in Int : q = count - 1
  OBVIOUS
<1>6. PICK r \in Int : r = b - n /\ r \in 0..(b - 1)
  OBVIOUS
<1>16. PICK m \in Int : m = len - n
  OBVIOUS
<1>17. m = b * q + r /\ m >= 0
  <2>1. b * count = b * q + b
    BY <1>5
  <2>2. b * q >= 0
    BY <1>5
  <2> QED
    BY <1>6, <1>15, <1>16, <2>1, <2>2
<1>7. m \in Nat /\ m = len - n
  BY <1>16, <1>17
<1>8. m % b = r
  <2>1. (b * q + r) % b = r
    BY <1>6, Remainder
  <2> QED
    BY <1>17, <2>1
<1>9. text \in Seq(D) /\ Len(text) = m /\ \A i \in 1..m : text[i] = out[i]
  <2>4. out[Len(out)] = n /\ Len(out) = len
    BY <1>3, <1>4
  <2>5. len - n = m /\ m <= len
    BY <1>7
  <2>1. Len(out) - out[Len(out)] = m /\ m <= Len(out)
    BY <2>4, <2>5, Zenon
  <2>2. text = SubSeq(out, 1, m)
    BY <2>1
  <2>3. IsBeginning(D, out, m, text)
    BY <1>2, <1>7, <2>1, <2>2, Beginning, Zenon
  <2> QED
    BY <2>3 DEF IsBeginning
<1>10. PICK t : Pad(text) = t /\ t = text \o [i \in 1..n |-> n]
  <2>1. Block - (Len(text) % Block) = n
    BY <1>1, <1>6, <1>8, <1>9
  <2> QED
    BY <2>1 DEF Pad
<1>11. /\ t \in Seq(D) /\ Len(t) = m + n
       /\ \A i \in 1..(m + n) : t[i] = IF i <= m THEN text[i] ELSE n
  <2>1. n \in Nat /\ n \in D
    BY <1>1, <1>2, Sizes
  <2> QED
    BY <1>9, <1>10, <2>1, Filled
<1>12. \A i \in 1..len : t[i] = out[i]
  <2> TAKE i \in 1..len
  <2>1. i \in 1..(m + n)
    BY <1>7
  <2>2. CASE i <= m
    <3>1. i \in 1..m
      BY <2>2
    <3> QED
      BY <1>9, <1>11, <2>1, <2>2, <3>1
  <2>3. CASE ~(i <= m)
    <3>1. i \in (len - n + 1)..len
      BY <1>7, <2>3
    <3> QED
      BY <1>4, <1>11, <2>1, <2>3, <3>1
  <2> QED
    BY <2>2, <2>3
<1>13. t = out
  <2>1. Len(t) = len /\ Len(out) = len
    BY <1>3, <1>7, <1>11
  <2> QED
    BY <1>2, <1>11, <1>12, <2>1, SeqEqual
<1>14. text \in Bytes
  BY <1>2, <1>9 DEF Bytes
<1> QED
  BY <1>10, <1>13, <1>14

\* What is encrypted is decrypted to itself,
LEMMA Sealed ==
  ASSUME NEW iv \in Blocks, NEW text \in Bytes
  PROVE  CbcDecrypt(iv, CbcEncrypt(iv, text)) = text
<1>1. PICK n \in 1..Block, count \in Nat :
        /\ Pad(text) = text \o [i \in 1..n |-> n]
        /\ Pad(text) \in Bytes /\ Len(Pad(text)) = Len(text) + n
        /\ Len(Pad(text)) = Block * count /\ count > 0 /\ Len(Pad(text)) \div Block = count
  BY Padded
<1>2. PICK p \in Bytes : p = Pad(text) /\ Len(p) = Block * count
  BY <1>1
<1>3. PICK bytes : bytes = CbcEncrypt(iv, text) /\ Encrypted(count, iv, p, bytes)
  BY <1>1, <1>2, EncryptIs
<1>4. bytes \in Bytes /\ Len(bytes) = Len(p) /\ Opened(count, iv, bytes) = p
  BY <1>2, <1>3, OpenedChain
<1>5. PaddingSound(p) /\ SubSeq(p, 1, Len(p) - p[Len(p)]) = text
  BY <1>1, <1>2, CutPadding
<1>6. Len(bytes) \div Block = count
  BY <1>1, <1>2, <1>4
<1>7. bytes # <<>> /\ Len(bytes) % Block = 0
  <2>1. PICK b \in Nat \ {0} : b = Block
    BY Sizes
  <2>2. PICK len : len = Len(bytes) /\ len = b * count
    BY <1>2, <1>4, <2>1
  <2>3. len # 0
    <3>1. b * count > 0
      BY <1>1
    <3> QED
      BY <2>2, <3>1
  <2>4. len % b = 0
    <3>1. (b * count + 0) % b = 0 /\ b * count + 0 = b * count
      BY Remainder
    <3> QED
      BY <2>2, <3>1
  <2> QED
    BY <2>1, <2>2, <2>3, <2>4
<1>8. CbcDecrypt(iv, bytes) = SubSeq(p, 1, Len(p) - p[Len(p)])
  BY <1>4, <1>5, <1>6, <1>7, DecryptIs
<1> QED
  BY <1>3, <1>5, <1>8

\* and what is decrypted is encrypted to what it was made of.
LEMMA Unsealed ==
  ASSUME NEW iv \in Blocks, NEW bytes \in Bytes, CbcDecrypt(iv, bytes) # CbcError
  PROVE  CbcEncrypt(iv, CbcDecrypt(iv, bytes)) = bytes
<1>1. PICK b \in Nat \ {0} : b = Block
  BY Sizes
<1>2. PICK len \in Nat : len = Len(bytes)
  BY DEF Bytes
<1>3. PICK count \in Int, r \in 0..(b - 1) : len = b * count + r /\ count = len \div b /\ r = len % b
  <2>1. len \in Int
    OBVIOUS
  <2> QED
    BY <2>1, Quotient
<1>4. PICK out : out = Opened(count, iv, bytes)
  OBVIOUS
<1>5. Len(bytes) \div Block = count
  BY <1>1, <1>2, <1>3
<1>6. bytes # <<>> /\ Len(bytes) % Block = 0 /\ PaddingSound(out)
  BY <1>4, <1>5, DecryptIs
<1>7. PICK text : text = CbcDecrypt(iv, bytes) /\ text = SubSeq(out, 1, Len(out) - out[Len(out)])
  BY <1>4, <1>5, <1>6, DecryptIs
<1>8. r = 0 /\ len # 0
  <2>1. len # 0
    BY <1>2, <1>6 DEF Bytes
  <2> QED
    BY <1>1, <1>2, <1>3, <1>6, <2>1
<1>9. count \in Nat /\ count > 0 /\ Len(bytes) = Block * count
  <2>1. count > 0
    <3> SUFFICES ASSUME count <= 0 PROVE FALSE
      OBVIOUS
    <3>1. b * count <= b * 0
      OBVIOUS
    <3> QED
      BY <1>3, <1>8, <3>1
  <2> QED
    BY <1>1, <1>2, <1>3, <1>8, <2>1
<1>10. out \in Bytes /\ Len(out) = Block * count
  <2> DEFINE f == [i \in 1..count |->
                     Minus(DecryptBlock(BlockAt(bytes, i)), IF i = 1 THEN iv ELSE BlockAt(bytes, i - 1))]
  <2>1. ASSUME NEW i \in 1..count PROVE f[i] \in Blocks
    <3>1. BlockAt(bytes, i) \in Blocks
      BY <1>9, BlockAtIs
    <3>2. i # 1 => BlockAt(bytes, i - 1) \in Blocks
      <4>1. i # 1 => i - 1 \in 1..count
        OBVIOUS
      <4> QED
        BY <1>9, <4>1, BlockAtIs
    <3>3. DecryptBlock(BlockAt(bytes, i)) \in Blocks
      BY <3>1, PermutationAssumption
    <3> QED
      BY <3>2, <3>3, BlocksUndone
  <2>2. out = Joined(count, f)
    BY <1>4 DEF Opened
  <2> HIDE DEF f
  <2> QED
    BY <1>9, <2>1, <2>2, JoinedIs
<1>11. text \in Bytes /\ Pad(text) = out
  BY <1>6, <1>7, <1>9, <1>10, PadCut
<1>12. Encrypted(count, iv, out, CbcEncrypt(iv, text))
  <2>1. Len(out) \div Block = count
    <3>1. Len(out) = Len(bytes)
      BY <1>9, <1>10
    <3> QED
      BY <1>5, <3>1
  <2> QED
    BY <1>9, <1>10, <1>11, <2>1, EncryptIs
<1>13. CbcEncrypt(iv, text) = bytes
  BY <1>4, <1>9, <1>12, ChainOpened
<1> QED
  BY <1>7, <1>13

-----------------------------------------------------------------------------
(* The calls *)

\* A call of an export that computes nothing of this: the record of a session
\* is read, or questioned.
OtherCall == call = NoCall /\ call'.op \in {"deserialize", "have open"}

Calls == Init /\ [][PrimitiveCall \/ OtherCall]_vars

\* What is answered is what the function makes of the arguments.
Multiplied ==
  call.op = "multiply" =>
    \E sk \in Secret, u \in PublicKey :
      /\ call = [op |-> "multiply", secret |-> sk, key |-> u]
      /\ reply = IF NonContributory(Shared(sk, u)) THEN Throws ELSE Returns(Shared(sk, u))

WasSigned ==
  call.op = "sign" =>
    \E sk \in Secret, msg \in Message, r \in Nonce :
      call = [op |-> "sign", secret |-> sk, msg |-> msg] /\ reply = Returns(Signed(sk, msg, r))

WasVerified ==
  call.op = "verify" =>
    \E u \in PublicKey, msg \in Message, R \in Point, S \in Secret :
      /\ call = [op |-> "verify", key |-> u, msg |-> msg, sig |-> [R |-> R, S |-> S]]
      /\ reply = Returns(Verifies(u, msg, [R |-> R, S |-> S]))

WasSealed ==
  call.op = "seal" =>
    \E iv \in Vector, text \in Text :
      call = [op |-> "seal", iv |-> iv, text |-> text] /\ reply = Returns(CbcEncrypt(iv, text))

WasUnsealed ==
  call.op = "unseal" =>
    \E iv \in Vector, bytes \in Ciphertext : \E text :
      /\ call = [op |-> "unseal", iv |-> iv, bytes |-> bytes] /\ text = CbcDecrypt(iv, bytes)
      /\ reply = IF text = CbcError THEN Throws ELSE Returns(text)

WasSelected ==
  call.op = "current" =>
    \E r \in Entries : call = [op |-> "current", entries |-> r] /\ reply = Returns(r[Current(r)])

Answers == Multiplied /\ WasSigned /\ WasVerified /\ WasSealed /\ WasUnsealed /\ WasSelected

\* What a call was answered is what its function makes of its arguments: the
\* invariant that the theorems below rest on (lib.rs:22-51, ratchet.rs:50-106).
THEOREM Answering == Calls => []Answers
<1>1. Init => Answers
  BY DEF Init, NoCall, Answers, Multiplied, WasSigned, WasVerified, WasSealed, WasUnsealed, WasSelected
<1>2. Answers /\ [PrimitiveCall \/ OtherCall]_vars => Answers'
  <2> SUFFICES ASSUME Answers, [PrimitiveCall \/ OtherCall]_vars PROVE Answers'
    OBVIOUS
  <2> USE DEF Answers, Multiplied, WasSigned, WasVerified, WasSealed, WasUnsealed, WasSelected
  <2>1. CASE CurveGenerateKeypair
    BY <2>1 DEF CurveGenerateKeypair
  <2>2. CASE CurveScalarMultiply
    BY <2>2 DEF CurveScalarMultiply
  <2>3. CASE CurveSign
    BY <2>3 DEF CurveSign
  <2>4. CASE CurveVerify
    BY <2>4 DEF CurveVerify
  <2>5. CASE AesCbcEncrypt
    BY <2>5 DEF AesCbcEncrypt
  <2>6. CASE AesCbcDecrypt
    BY <2>6 DEF AesCbcDecrypt
  <2>7. CASE CurrentSession
    BY <2>7 DEF CurrentSession
  <2>8. CASE OtherCall
    BY <2>8 DEF OtherCall
  <2>9. CASE UNCHANGED vars
    BY <2>9 DEF vars
  <2> QED
    BY <2>1, <2>2, <2>3, <2>4, <2>5, <2>6, <2>7, <2>8, <2>9 DEF PrimitiveCall
<1> QED
  BY <1>1, <1>2, PTL DEF Calls

\* An agreement throws for a key of small order, on the curve or its twist, and
\* for no other, whatever the secret, and both sides get the same result
\* (curve.rs:194-233).
THEOREM AgreementContributes == Calls => []Contributory
<1>1. Answers => Contributory
  <2> SUFFICES ASSUME Answers, call.op = "multiply" PROVE Contributory
    BY DEF Contributory
  <2>1. PICK sk \in Secret, u \in PublicKey :
          /\ call = [op |-> "multiply", secret |-> sk, key |-> u]
          /\ reply = IF NonContributory(Shared(sk, u)) THEN Throws ELSE Returns(Shared(sk, u))
    BY DEF Answers, Multiplied
  <2>2. call.secret = sk /\ call.key = u
    BY <2>1
  <2>3. Shared(sk, u) = Zero <=> SmallOrder(u)
    BY ZeroAgreement
  <2>4. reply.ok <=> ~SmallOrder(u)
    BY <2>1, <2>3 DEF NonContributory, Throws, Returns
  <2>5. ASSUME NEW other \in Secret, PublicOf(other) = u
        PROVE  reply = Returns(Shared(other, PublicOf(sk)))
    <3>1. ~SmallOrder(u)
      <4>1. PICK k \in Int : k = Clamp(other) /\ k % Order # 0
        BY ClampedIsUnit
      <4>2. PICK x : x = Times(k, Base)
        OBVIOUS
      <4>3. ~SmallOrder(U("curve", x))
        BY <4>1, <4>2, LargeKey
      <4> QED
        BY <2>5, <4>1, <4>2, <4>3 DEF PublicOf
    <3>2. reply = Returns(Shared(sk, u))
      BY <2>1, <2>3, <3>1 DEF NonContributory
    <3>3. Shared(sk, u) = Shared(other, PublicOf(sk))
      BY <2>5, Agreement
    <3> QED
      BY <3>2, <3>3
  <2> QED
    BY <2>2, <2>4, <2>5 DEF Contributory
<1> QED
  BY <1>1, Answering, PTL

\* What is signed with a secret verifies under its public key, whichever of the
\* two points the key stands for (curve.rs:77-179).
THEOREM SignatureVerifies == Calls => []SignedVerifies
<1>1. Answers => SignedVerifies
  <2> SUFFICES ASSUME Answers, call.op = "sign" PROVE SignedVerifies
    BY DEF SignedVerifies
  <2>1. PICK sk \in Secret, msg \in Message, r \in Nonce :
          call = [op |-> "sign", secret |-> sk, msg |-> msg] /\ reply = Returns(Signed(sk, msg, r))
    BY DEF Answers, WasSigned
  <2>2. call.secret = sk /\ call.msg = msg /\ reply.value = Signed(sk, msg, r)
    BY <2>1 DEF Returns
  <2> QED
    BY <2>2, Verified DEF SignedVerifies
<1> QED
  BY <1>1, Answering, PTL

\* What verifies under the public key of a secret is a signature that signing
\* makes with that secret or its opposite; nothing verifies under a key of small
\* order or of the twist (curve.rs:144-179).
THEOREM VerifiedWasSigned == Calls => []OnlySignedVerifies
<1>1. Answers => OnlySignedVerifies
  <2> SUFFICES ASSUME Answers, call.op = "verify", reply.value PROVE OnlySignedVerifies
    BY DEF OnlySignedVerifies
  <2>0. PICK u \in PublicKey, msg \in Message, R \in Point, S \in Secret :
          /\ call = [op |-> "verify", key |-> u, msg |-> msg, sig |-> [R |-> R, S |-> S]]
          /\ reply = Returns(Verifies(u, msg, [R |-> R, S |-> S]))
    BY DEF Answers, WasVerified
  <2>1. PICK sig :
          /\ sig = [R |-> R, S |-> S]
          /\ call = [op |-> "verify", key |-> u, msg |-> msg, sig |-> sig]
          /\ reply = Returns(Verifies(u, msg, sig))
    BY <2>0
  <2>2. call.key = u /\ call.msg = msg /\ call.sig = sig /\ Verifies(u, msg, sig)
    BY <2>1 DEF Returns
  <2>3. u.on = "curve" /\ ~SmallOrder(u)
    BY <2>2, OnCurve
  <2>4. ASSUME NEW sk \in Secret, PublicOf(sk) = u
        PROVE  \E a \in {Clamp(sk) % Order, Order - (Clamp(sk) % Order)}, r \in Nonce :
                 sig = SignatureOf(a, msg, r)
    <3>1. Verifies(PublicOf(sk), msg, sig)
      BY <2>2, <2>4
    <3>2. IsMade(sk, msg, sig)
      BY <2>1, <3>1, Made
    <3> QED
      BY <3>2 DEF IsMade
  <2> QED
    BY <2>2, <2>3, <2>4, Zenon DEF OnlySignedVerifies
<1> QED
  BY <1>1, Answering, PTL

\* Decryption undoes encryption for a text of any length, and what it accepts is
\* what encryption makes of the text it returns (ratchet.rs:50-105).
THEOREM CipherIsExact == Calls => []CbcExact
<1>1. Answers => CbcExact
  <2> SUFFICES ASSUME Answers PROVE CbcExact
    OBVIOUS
  <2>1. ASSUME call.op = "seal" PROVE CbcDecrypt(call.iv, reply.value) = call.text
    <3>1. PICK iv \in Vector, text \in Text :
            call = [op |-> "seal", iv |-> iv, text |-> text] /\ reply = Returns(CbcEncrypt(iv, text))
      BY <2>1 DEF Answers, WasSealed
    <3>2. iv \in Blocks /\ text \in Bytes
      BY PrimitivesAssumption
    <3>3. call.iv = iv /\ call.text = text /\ reply.value = CbcEncrypt(iv, text)
      BY <3>1 DEF Returns
    <3> QED
      BY <3>2, <3>3, Sealed
  <2>2. ASSUME call.op = "unseal", reply.ok PROVE CbcEncrypt(call.iv, reply.value) = call.bytes
    <3>0. PICK iv \in Vector, bytes \in Ciphertext : \E text :
            /\ call = [op |-> "unseal", iv |-> iv, bytes |-> bytes] /\ text = CbcDecrypt(iv, bytes)
            /\ reply = IF text = CbcError THEN Throws ELSE Returns(text)
      BY <2>2 DEF Answers, WasUnsealed
    <3>1. PICK text :
            /\ call = [op |-> "unseal", iv |-> iv, bytes |-> bytes] /\ text = CbcDecrypt(iv, bytes)
            /\ reply = IF text = CbcError THEN Throws ELSE Returns(text)
      BY <3>0
    <3>2. iv \in Blocks /\ bytes \in Bytes
      BY PrimitivesAssumption
    <3>3. text # CbcError /\ reply.value = text
      BY <2>2, <3>1 DEF Throws, Returns
    <3>4. call.iv = iv /\ call.bytes = bytes
      BY <3>1
    <3> QED
      BY <3>1, <3>2, <3>3, <3>4, Unsealed
  <2> QED
    BY <2>1, <2>2 DEF CbcExact
<1> QED
  BY <1>1, Answering, PTL

\* The native and the JavaScript selection of an entry come to one that is open
\* if any is, and of the same age, for a record of any size (session.rs:231-254,
\* session-cipher.js:8-22).
THEOREM SelectionsAreAlike == Calls => []SelectionsAgree
<1>1. Answers => SelectionsAgree
  <2> SUFFICES ASSUME Answers, call.op = "current" PROVE SelectionsAgree
    BY DEF SelectionsAgree
  <2>1. PICK r \in Entries : call = [op |-> "current", entries |-> r] /\ reply = Returns(r[Current(r)])
    BY DEF Answers, WasSelected
  <2>2. r \in Seq(Listed) /\ r # <<>>
    BY PrimitivesAssumption
  <2>3. PICK c, e : c = r[Current(r)] /\ e = Reduced(r)
    OBVIOUS
  <2>4. /\ IsOpen(c) <=> \E i \in DOMAIN r : IsOpen(r[i])
        /\ IsOpen(e) = IsOpen(c) /\ e.used = c.used
    BY <2>2, <2>3, SelectedAlike
  <2>5. call.entries = r /\ reply.value = c
    BY <2>1, <2>3 DEF Returns
  <2> QED
    BY <2>3, <2>4, <2>5 DEF SelectionsAgree
<1> QED
  BY <1>1, Answering, PTL
=============================================================================
