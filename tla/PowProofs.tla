------------------------------ MODULE PowProofs ------------------------------
(***************************************************************************)
(* Theorems about Pow, for every width of the numbers, every retarget      *)
(* interval and every gap between blocks.  The provers know nothing of     *)
(* powers; PowersFit states the facts about them that are needed.          *)
(***************************************************************************)
EXTENDS Pow, SequenceTheorems, WellFoundedInduction, TLAPS

-----------------------------------------------------------------------------
(* Numbers.                                                                 *)

\* A set of natural numbers that is not empty has a least element.
LEMMA LeastNumber ==
    ASSUME NEW S \in SUBSET Nat, S # {} PROVE \E x \in S : \A y \in S : x <= y
<1> DEFINE R == OpToRel(<, Nat)
<1>1. IsWellFoundedOn(R, Nat)
  BY NatLessThanWellFounded
<1> HIDE DEF R
<1>2. PICK x \in S : \A y \in S : ~ (<<y, x>> \in R)
  BY <1>1, WFMin
<1>3. \A y \in Nat : y < x => <<y, x>> \in R
  BY DEF R, OpToRel
<1>4. \A y \in S : ~(y < x)
  BY <1>2, <1>3
<1>5. \A y \in S : x <= y
  BY <1>4
<1> QED BY <1>5

\* Quotient and remainder.
LEMMA DivIs ==
    ASSUME NEW n \in Nat, NEW d \in Nat, d > 0
    PROVE  n \div d \in Nat /\ (n \div d) * d <= n /\ n < ((n \div d) + 1) * d
<1>1. n \div d \in Nat
  OBVIOUS
<1>2. (n \div d) * d <= n
  OBVIOUS
<1>3. n < ((n \div d) + 1) * d
  OBVIOUS
<1> QED BY <1>1, <1>2, <1>3

\* The quotient is the only number with these bounds.
LEMMA DivUnique ==
    ASSUME NEW n \in Nat, NEW d \in Nat, d > 0, NEW q \in Nat, q * d <= n, n < (q + 1) * d
    PROVE  n \div d = q
OBVIOUS

\* Multiplication keeps the order.
LEMMA MulMonotone ==
    ASSUME NEW a \in Nat, NEW b \in Nat, NEW c \in Nat, a <= b
    PROVE  a * c <= b * c /\ a * c \in Nat /\ b * c \in Nat
OBVIOUS

\* A product that is smaller has a smaller factor.
LEMMA MulStrict ==
    ASSUME NEW a \in Nat, NEW b \in Nat, NEW c \in Nat, a * c < b * c PROVE a < b
OBVIOUS

\* Rounding down to a multiple of d: the multiples of d below n stay below.
LEMMA MultipleBelow ==
    ASSUME NEW n \in Nat, NEW d \in Nat, d > 0, NEW m \in Nat, m * d <= n
    PROVE  m * d <= (n \div d) * d
<1>1. n \div d \in Nat /\ n < ((n \div d) + 1) * d
  BY DivIs
<1>2. m * d < ((n \div d) + 1) * d
  BY <1>1
<1>3. m < (n \div d) + 1
  BY <1>1, <1>2, MulStrict
<1> QED BY <1>1, <1>3, MulMonotone

\* Rounding down keeps the order.
LEMMA FloorMonotone ==
    ASSUME NEW a \in Nat, NEW b \in Nat, NEW d \in Nat, d > 0, a <= b
    PROVE  a \div d <= b \div d /\ (a \div d) * d <= (b \div d) * d
<1>1. a \div d \in Nat /\ (a \div d) * d <= a /\ b \div d \in Nat /\ b < ((b \div d) + 1) * d
  BY DivIs
<1>2. (a \div d) * d < ((b \div d) + 1) * d
  BY <1>1
<1>3. a \div d < (b \div d) + 1
  BY <1>1, <1>2, MulStrict
<1> QED BY <1>1, <1>3, MulMonotone

\* Dividing by d and then by b.
LEMMA DivTwice ==
    ASSUME NEW n \in Nat, NEW d \in Nat, d > 0, NEW b \in Nat, b > 0
    PROVE  (n \div d) \div b = n \div (b * d)
<1> DEFINE p == n \div d
           q == p \div b
<1>1. p \in Nat /\ p * d <= n /\ n < (p + 1) * d
  BY DivIs
<1>2. q \in Nat /\ q * b <= p /\ p < (q + 1) * b
  BY <1>1, DivIs
<1> HIDE DEF p, q
<1>3. b * d \in Nat /\ b * d > 0
  OBVIOUS
<1>4. q * (b * d) <= n
  <2>1. (q * b) * d <= p * d
    BY <1>1, <1>2, MulMonotone
  <2> QED BY <1>1, <1>2, <2>1
<1>5. n < (q + 1) * (b * d)
  <2>1. p + 1 <= (q + 1) * b
    BY <1>1, <1>2
  <2>2. (p + 1) * d <= ((q + 1) * b) * d
    BY <1>1, <1>2, <2>1, MulMonotone
  <2> QED BY <1>1, <1>2, <2>2
<1>6. n \div (b * d) = q
  BY <1>2, <1>3, <1>4, <1>5, DivUnique
<1> QED BY <1>6 DEF p, q

-----------------------------------------------------------------------------
(* Powers of Base, and the compact form.                                    *)

\* Half of three digits: the words from here on have the sign bit.
Half == Base^3 \div 2

\* The first powers, and that powers are positive and grow.
LEMMA Powers ==
    ASSUME PowersFit
    PROVE  /\ \A k \in 0..Size + 3 : Base^k \in Nat /\ Base^k >= 1
           /\ \A k \in 1..Size + 3 : Base^k = Base * Base^(k - 1)
<1>1. /\ Size \in Nat /\ Base \in Nat /\ Base >= 2 /\ Base^0 = 1
      /\ \A k \in 1..Size + 3 : Base^k \in Nat /\ Base^k = Base * Base^(k - 1)
  BY DEF PowersFit
<1> DEFINE W == {k \in 0..Size + 3 : ~ (Base^k \in Nat /\ Base^k >= 1)}
<1>2. W = {}
  <2> SUFFICES ASSUME W # {} PROVE FALSE
    OBVIOUS
  <2>1. W \in SUBSET Nat
    BY <1>1
  <2>2. PICK x \in W : \A y \in W : x <= y
    <3> HIDE DEF W
    <3> QED BY <2>1, LeastNumber, Zenon
  <2>3. x # 0 /\ x \in 0..Size + 3
    BY <1>1, <2>2
  <2>4. x \in 1..Size + 3 /\ x - 1 \in 0..Size + 3 /\ x - 1 \notin W
    BY <1>1, <2>2, <2>3
  <2>5. Base^(x - 1) \in Nat /\ Base^(x - 1) >= 1
    BY <2>4
  <2>6. Base^x \in Nat /\ Base^x = Base * Base^(x - 1)
    BY <1>1, <2>4
  <2>7. Base^x >= 1
    BY <1>1, <2>5, <2>6
  <2> QED BY <2>2, <2>6, <2>7
<1>3. \A k \in 0..Size + 3 : Base^k \in Nat /\ Base^k >= 1
  BY <1>2
<1> QED BY <1>1, <1>3

\* A power is at most a later one.
LEMMA PowersGrow ==
    ASSUME PowersFit, NEW i \in 0..Size + 3, NEW j \in i..Size + 3 PROVE Base^i <= Base^j
<1>1. /\ Size \in Nat /\ Base \in Nat /\ Base >= 2
  BY DEF PowersFit
<1>2. \A k \in 0..Size + 3 : Base^k \in Nat /\ Base^k >= 1
  BY Powers
<1>3. \A k \in 1..Size + 3 : Base^k = Base * Base^(k - 1)
  BY Powers
<1> DEFINE W == {k \in i..Size + 3 : ~ (Base^i <= Base^k)}
<1>4. W = {}
  <2> SUFFICES ASSUME W # {} PROVE FALSE
    OBVIOUS
  <2>1. W \in SUBSET Nat
    BY <1>1
  <2>2. PICK x \in W : \A y \in W : x <= y
    <3> HIDE DEF W
    <3> QED BY <2>1, LeastNumber, Zenon
  <2>3. x # i /\ x \in i..Size + 3
    BY <1>1, <1>2, <2>2
  <2>4. x \in 1..Size + 3 /\ x - 1 \in i..Size + 3 /\ x - 1 \notin W /\ x - 1 \in 0..Size + 3
    BY <1>1, <2>2, <2>3
  <2>5. Base^i <= Base^(x - 1) /\ Base^(x - 1) \in Nat /\ Base^i \in Nat
    BY <1>2, <2>4
  <2>6. Base^x = Base * Base^(x - 1)
    BY <1>3, <2>4
  <2>7. Base^i <= Base^x
    BY <1>1, <2>5, <2>6
  <2> QED BY <2>2, <2>7
<1> QED BY <1>4

\* Half is half of three digits, a multiple of Base, and at least two digits.
LEMMA HalfIs ==
    ASSUME PowersFit
    PROVE  /\ Base^1 = Base /\ Base^2 = Base * Base /\ Base^3 = Base * Base^2
           /\ Half \in Nat /\ Half >= 1 /\ Base^3 = 2 * Half /\ Base^2 <= Half
           /\ \E m \in Nat : m >= 1 /\ Half = m * Base
<1> DEFINE b == Base
           h == Base \div 2
<1>1. Size \in Nat /\ b \in Nat /\ b >= 2 /\ b = 2 * h /\ Base^0 = 1
  BY DEF PowersFit
<1>2. \A k \in 1..Size + 3 : Base^k = Base * Base^(k - 1)
  BY Powers
<1>3. 1 \in 1..Size + 3 /\ 2 \in 1..Size + 3 /\ 3 \in 1..Size + 3
  BY <1>1
<1>4. Base^1 = Base * Base^(1 - 1) /\ Base^2 = Base * Base^(2 - 1) /\ Base^3 = Base * Base^(3 - 1)
  BY <1>2, <1>3
<1>5. 1 - 1 = 0 /\ 2 - 1 = 1 /\ 3 - 1 = 2
  OBVIOUS
<1>6. Base^1 = b * Base^0 /\ Base^2 = b * Base^1 /\ Base^3 = b * Base^2
  BY <1>4, <1>5
<1>7. h \in Nat /\ h >= 1
  BY <1>1
<1> HIDE DEF b, h
<1>8. Base^1 = b /\ Base^2 = b * b /\ Base^3 = b * (b * b)
  BY <1>1, <1>6
<1>9. Base^3 = 2 * (h * (b * b)) /\ h * (b * b) \in Nat
  <2>1. b * (b * b) = (2 * h) * (b * b)
    BY <1>1
  <2>2. b * b \in Nat
    BY <1>1
  <2> QED BY <1>7, <1>8, <2>1, <2>2
<1>10. Half = h * (b * b)
  BY <1>9 DEF Half
<1>11. b * b <= h * (b * b) /\ b * b >= 1
  BY <1>1, <1>7
<1>12. h * b \in Nat /\ h * b >= 1 /\ h * (b * b) = (h * b) * b
  BY <1>1, <1>7
<1>13. \E m \in Nat : m >= 1 /\ Half = m * Base
  <2>1. Half = (h * b) * Base
    BY <1>10, <1>12 DEF b
  <2> QED BY <1>12, <2>1
<1>14. Base^1 = Base /\ Base^2 = Base * Base /\ Base^3 = Base * Base^2
  BY <1>6, <1>8 DEF b
<1>15. Half \in Nat /\ Half >= 1 /\ Base^3 = 2 * Half /\ Base^2 <= Half
  BY <1>1, <1>8, <1>9, <1>10, <1>11
<1> QED BY <1>13, <1>14, <1>15

\* The digits of a number.
LEMMA DigitsIs ==
    ASSUME PowersFit, NEW n \in Nat, n < 2^Width
    PROVE  /\ Digits(n) \in 0..Size /\ n < Base^Digits(n)
           /\ Digits(n) > 0 => n >= Base^(Digits(n) - 1)
<1> DEFINE S == {k \in 0..Size : n < Base^k}
<1>1. Size \in Nat /\ Size \in S
  BY DEF PowersFit
<1>2. S \in SUBSET Nat /\ S # {}
  BY <1>1
<1>3. Digits(n) = Min(S)
  BY DEF Digits
<1>4. Min(S) \in S /\ \A y \in S : Min(S) <= y
  <2> HIDE DEF S
  <2>1. \E x \in S : \A y \in S : x <= y
    BY <1>2, LeastNumber, Zenon
  <2> QED BY <2>1, Zenon DEF Min
<1>5. PICK s \in S : s = Digits(n) /\ \A y \in S : s <= y
  BY <1>3, <1>4
<1>6. s \in 0..Size /\ n < Base^s
  OBVIOUS
<1>7. ASSUME s > 0 PROVE n >= Base^(s - 1)
  <2>1. s - 1 \in 0..Size /\ s - 1 \in 0..Size + 3
    BY <1>1, <1>6, <1>7
  <2>2. s - 1 \notin S
    BY <1>5, <1>6
  <2>3. ~ (n < Base^(s - 1)) /\ Base^(s - 1) \in Nat
    BY <2>1, <2>2, Powers
  <2> QED BY <2>3
<1> QED BY <1>5, <1>6, <1>7

\* What is left of a number after GetCompact and SetCompact.
Rounded(n) == SetCompact(GetCompact(n))

\* The number is rounded down to a multiple of the u-th power, with as many digits
\* left as the word can hold without the sign bit.
RoundedTo(n, u) ==
    /\ Rounded(n) = (n \div Base^u) * Base^u
    /\ n < Half * Base^u
    /\ u > 0 => n >= Half * Base^(u - 1)

\* A number below 2^Width does not wrap.
LEMMA NoWrap ==
    ASSUME NEW x \in Nat, 2^Width \in Nat, x < 2^Width PROVE Wrap(x) = x
BY DEF Wrap

\* Rounding of a number of at most three digits.
LEMMA RoundedSmall ==
    ASSUME PowersFit, NEW n \in Nat, n < 2^Width, Digits(n) <= 3
    PROVE  \E u \in 0..Size : RoundedTo(n, u)
<1> DEFINE s == Digits(n)
           q == Base^(3 - s)
           word == n * q
<1>1. /\ Size \in Nat /\ Base \in Nat /\ Base >= 2 /\ Base^0 = 1 /\ 2^Width \in Nat
      /\ s \in 0..Size /\ n < Base^s /\ (s > 0 => n >= Base^(s - 1))
  <2>1. Size \in Nat /\ Base \in Nat /\ Base >= 2 /\ Base^0 = 1 /\ 2^Width = Base^Size
    BY DEF PowersFit
  <2>2. Base^Size \in Nat
    BY <2>1, Powers
  <2> QED BY <2>1, <2>2, DigitsIs
<1>2. /\ Base^1 = Base /\ Base^2 = Base * Base /\ Base^3 = Base * Base^2
      /\ Half \in Nat /\ Half >= 1 /\ Base^3 = 2 * Half /\ Base^2 <= Half
  BY HalfIs
<1>3. GetCompact(n) = IF word >= Half THEN <<s + 1, word \div Base>> ELSE <<s, word>>
  BY DEF GetCompact, Half
<1> HIDE DEF s
<1>4. 3 - s \in 0..3 /\ s \in 0..3 /\ 3 - s \in 0..Size + 3
  BY <1>1 DEF s
<1>5. q \in Nat /\ q >= 1
  BY <1>4, Powers
<1> HIDE DEF q
<1>6. word \in Nat /\ n <= word
  BY <1>5
<1>7. n \div 1 = n
  OBVIOUS
<1>8. ASSUME Rounded(n) = n, n < Half PROVE \E u \in 0..Size : RoundedTo(n, u)
  <2>1. (n \div Base^0) * Base^0 = n
    BY <1>1, <1>7
  <2>2. Half * Base^0 = Half
    BY <1>1, <1>2
  <2>3. RoundedTo(n, 0)
    BY <1>8, <2>1, <2>2 DEF RoundedTo
  <2> QED BY <1>1, <2>3
<1>9. word \div q = n
  BY <1>5, <1>6, DivUnique
<1>10. CASE ~ (word >= Half)
  <2>1. GetCompact(n) = <<s, word>>
    BY <1>3, <1>10
  <2>2. Rounded(n) = word \div Base^(3 - s)
    BY <1>4, <2>1 DEF Rounded, SetCompact
  <2>3. Rounded(n) = n
    BY <1>9, <2>2 DEF q
  <2>4. n < Half
    BY <1>2, <1>6, <1>10
  <2> QED BY <1>8, <2>3, <2>4
<1>11. CASE word >= Half /\ s < 3
  <2>1. GetCompact(n) = <<s + 1, word \div Base>>
    BY <1>3, <1>11
  <2> DEFINE p == Base^(3 - (s + 1))
  <2>2. Rounded(n) = (word \div Base) \div p
    BY <1>4, <1>11, <2>1 DEF Rounded, SetCompact
  <2>3. 3 - (s + 1) = (3 - s) - 1 /\ 3 - s \in 1..Size + 3 /\ 3 - (s + 1) \in 0..Size + 3
    BY <1>1, <1>4, <1>11
  <2>4. q = Base * p
    <3>1. Base^(3 - s) = Base * Base^((3 - s) - 1)
      BY <2>3, Powers
    <3> QED BY <2>3, <3>1 DEF q
  <2>5. p \in Nat /\ p >= 1
    BY <2>3, Powers
  <2> HIDE DEF p
  <2>6. word \div Base = n * p
    <3>1. word = (n * p) * Base /\ n * p \in Nat
      BY <1>1, <2>4, <2>5
    <3> HIDE DEF word
    <3> QED BY <1>1, <1>6, <3>1, DivUnique
  <2>7. (n * p) \div p = n
    <3>1. n * p \in Nat
      BY <2>5
    <3> QED BY <2>5, <3>1, DivUnique
  <2>8. Rounded(n) = n
    BY <2>2, <2>6, <2>7
  <2>9. n < Half
    <3>1. s \in 0..Size + 3 /\ 2 \in s..Size + 3
      BY <1>1, <1>4, <1>11
    <3>2. Base^s <= Base^2
      BY <3>1, PowersGrow
    <3>3. Base^s \in Nat /\ Base^2 \in Nat
      BY <1>1, <1>2, <3>1, Powers
    <3> QED BY <1>1, <1>2, <3>2, <3>3
  <2> QED BY <1>8, <2>8, <2>9
<1>12. CASE word >= Half /\ s = 3
  <2>1. q = 1 /\ word = n
    <3>1. 3 - s = 0
      BY <1>12
    <3>2. q = 1
      BY <1>1, <3>1 DEF q
    <3> QED BY <3>2
  <2>2. GetCompact(n) = <<4, n \div Base>>
    BY <1>3, <1>12, <2>1
  <2>3. Rounded(n) = Wrap((n \div Base) * Base^(4 - 3))
    BY <2>2 DEF Rounded, SetCompact
  <2>4. Base^(4 - 3) = Base
    <3>1. 4 - 3 = 1
      OBVIOUS
    <3> QED BY <1>2, <3>1
  <2>5. (n \div Base) * Base \in Nat /\ (n \div Base) * Base <= n
    BY <1>1, DivIs
  <2>6. Rounded(n) = (n \div Base) * Base
    BY <1>1, <2>3, <2>4, <2>5, NoWrap
  <2>7. n < Half * Base
    <3>1. n < Base^3
      BY <1>1, <1>12
    <3>2. 2 * Half <= Half * Base
      BY <1>1, <1>2
    <3>3. Half * Base \in Nat
      BY <1>1, <1>2
    <3> QED BY <1>2, <3>1, <3>2, <3>3
  <2>8. n >= Half * Base^(1 - 1)
    <3>1. 1 - 1 = 0
      OBVIOUS
    <3>2. Half * Base^0 = Half
      BY <1>1, <1>2
    <3> QED BY <1>12, <2>1, <3>1, <3>2
  <2>9. RoundedTo(n, 1)
    BY <1>2, <2>6, <2>7, <2>8 DEF RoundedTo
  <2> QED BY <1>1, <1>12, <2>9
<1> QED BY <1>4, <1>10, <1>11, <1>12

\* Rounding of a number of more than three digits.
LEMMA RoundedLarge ==
    ASSUME PowersFit, NEW n \in Nat, n < 2^Width, Digits(n) > 3
    PROVE  \E u \in 0..Size : RoundedTo(n, u)
<1> DEFINE s == Digits(n)
           d == Base^(s - 3)
           word == n \div d
<1>1. /\ Size \in Nat /\ Base \in Nat /\ Base >= 2 /\ Base^0 = 1 /\ 2^Width \in Nat
      /\ s \in 0..Size /\ n < Base^s /\ (s > 0 => n >= Base^(s - 1))
  <2>1. Size \in Nat /\ Base \in Nat /\ Base >= 2 /\ Base^0 = 1 /\ 2^Width = Base^Size
    BY DEF PowersFit
  <2>2. Base^Size \in Nat
    BY <2>1, Powers
  <2> QED BY <2>1, <2>2, DigitsIs
<1>2. /\ Base^1 = Base /\ Base^2 = Base * Base /\ Base^3 = Base * Base^2
      /\ Half \in Nat /\ Half >= 1 /\ Base^3 = 2 * Half /\ Base^2 <= Half
  BY HalfIs
<1>3. GetCompact(n) = IF word >= Half THEN <<s + 1, word \div Base>> ELSE <<s, word>>
  <2>1. ~ (s <= 3)
    BY <1>1
  <2> QED BY <2>1 DEF GetCompact, Half
<1> HIDE DEF s
<1>4. s \in 4..Size
  BY <1>1 DEF s
\* The powers around the number of digits.
<1> DEFINE c == Base^(s - 4)
           e == Base^(s - 2)
<1>5. /\ c \in Nat /\ c >= 1 /\ d \in Nat /\ d >= 1 /\ e \in Nat /\ e >= 1
      /\ d = Base * c /\ e = Base * d /\ Base^(s - 1) = Base * e /\ Base^s = Base * (Base * e)
  <2>1. /\ s - 4 \in 0..Size + 3 /\ s - 3 \in 1..Size + 3 /\ s - 2 \in 1..Size + 3
        /\ s - 1 \in 1..Size + 3 /\ s \in 1..Size + 3
        /\ (s - 3) - 1 = s - 4 /\ (s - 2) - 1 = s - 3 /\ (s - 1) - 1 = s - 2
    BY <1>1, <1>4
  <2>2. \A k \in 1..Size + 3 : Base^k = Base * Base^(k - 1)
    BY Powers
  <2>3. \A k \in 0..Size + 3 : Base^k \in Nat /\ Base^k >= 1
    BY Powers
  <2>4. c \in Nat /\ c >= 1
    BY <2>1, <2>3
  <2>5. d \in Nat /\ d >= 1
    BY <1>1, <2>1, <2>3
  <2>6. e \in Nat /\ e >= 1
    BY <1>1, <2>1, <2>3
  <2>7. d = Base * Base^((s - 3) - 1) /\ e = Base * Base^((s - 2) - 1)
    BY <2>1, <2>2
  <2>8. Base^(s - 1) = Base * Base^((s - 1) - 1) /\ Base^s = Base * Base^(s - 1)
    BY <2>1, <2>2
  <2>9. d = Base * c /\ e = Base * d /\ Base^(s - 1) = Base * e
    BY <2>1, <2>7, <2>8
  <2> QED BY <2>4, <2>5, <2>6, <2>8, <2>9
<1> HIDE DEF c, d, e
<1>6. word \in Nat /\ word * d <= n /\ n < (word + 1) * d
  BY <1>5, DivIs
<1> HIDE DEF word
<1>7. CASE ~ (word >= Half)
  <2> DEFINE u == s - 3
  <2>1. GetCompact(n) = <<s, word>>
    BY <1>3, <1>7
  <2>2. Rounded(n) = Wrap(word * Base^(s - 3))
    BY <1>4, <2>1 DEF Rounded, SetCompact
  <2>3. word * d \in Nat /\ word * d < 2^Width
    BY <1>1, <1>5, <1>6
  <2>4. Rounded(n) = word * d
    BY <1>1, <2>2, <2>3, NoWrap DEF d
  <2>5. n < Half * d
    <3>1. (word + 1) * d <= Half * d
      <4>1. word + 1 <= Half
        BY <1>2, <1>6, <1>7
      <4> QED BY <1>2, <1>5, <1>6, <4>1, MulMonotone
    <3>2. Half * d \in Nat /\ (word + 1) * d \in Nat
      BY <1>2, <1>5, <1>6
    <3> QED BY <1>6, <3>1, <3>2
  <2>6. n >= Half * c
    <3>1. n >= Base * e
      BY <1>1, <1>4, <1>5
    <3>2. Base * e = Base^3 * c
      <4>1. Base * (Base * (Base * c)) = (Base * (Base * Base)) * c
        BY <1>1, <1>5
      <4> QED BY <1>2, <1>5, <4>1
    <3>3. Half * c <= Base^3 * c
      BY <1>2, <1>5
    <3>4. Half * c \in Nat /\ Base^3 * c \in Nat
      BY <1>2, <1>5
    <3> QED BY <3>1, <3>2, <3>3, <3>4
  <2>7. u - 1 = s - 4 /\ u \in 0..Size
    BY <1>1, <1>4
  <2>8. Base^u = d /\ Base^(u - 1) = c
    BY <2>7 DEF d, c
  <2> HIDE DEF u
  <2>9. RoundedTo(n, u)
    BY <2>4, <2>5, <2>6, <2>8 DEF RoundedTo, word
  <2> QED BY <2>7, <2>9
<1>8. CASE word >= Half
  <2> DEFINE u == s - 2
             v == n \div e
  <2>1. GetCompact(n) = <<s + 1, word \div Base>>
    BY <1>3, <1>8
  <2>2. word \div Base = v
    BY <1>1, <1>5, DivTwice DEF word
  <2>3. v \in Nat /\ v * e <= n
    BY <1>5, DivIs
  <2> HIDE DEF v
  <2>4. Rounded(n) = Wrap(v * Base^((s + 1) - 3))
    BY <1>4, <2>1, <2>2 DEF Rounded, SetCompact
  <2>5. (s + 1) - 3 = s - 2
    BY <1>1, <1>4
  <2>6. Rounded(n) = v * e
    <3>1. v * e \in Nat /\ v * e < 2^Width
      BY <1>1, <1>5, <2>3
    <3> QED BY <1>1, <2>4, <2>5, <3>1, NoWrap DEF e
  <2>7. n < Half * e
    <3>1. Base * (Base * e) = Base^2 * e
      BY <1>1, <1>2, <1>5
    <3>2. Base^2 \in Nat
      BY <1>1, <1>2
    <3>3. Base^2 * e <= Half * e /\ Base^2 * e \in Nat /\ Half * e \in Nat
      BY <1>2, <1>5, <3>2, MulMonotone
    <3> QED BY <1>1, <1>5, <3>1, <3>3
  <2>8. n >= Half * d
    <3>1. Half * d <= word * d /\ Half * d \in Nat /\ word * d \in Nat
      BY <1>2, <1>5, <1>6, <1>8, MulMonotone
    <3> QED BY <1>6, <3>1
  <2>9. u - 1 = s - 3 /\ u \in 0..Size
    BY <1>1, <1>4
  <2>10. Base^u = e /\ Base^(u - 1) = d
    BY <2>9 DEF d, e
  <2> HIDE DEF u
  <2>11. RoundedTo(n, u)
    BY <2>6, <2>7, <2>8, <2>10 DEF RoundedTo, v
  <2> QED BY <2>9, <2>11
<1> QED BY <1>7, <1>8

\* Every number of the width is rounded so.
LEMMA RoundedIs ==
    ASSUME PowersFit, NEW n \in Nat, n < 2^Width PROVE \E u \in 0..Size : RoundedTo(n, u)
<1>1. Digits(n) \in Int
  BY DigitsIs DEF PowersFit
<1>2. CASE Digits(n) <= 3
  BY <1>2, RoundedSmall
<1>3. CASE Digits(n) > 3
  BY <1>3, RoundedLarge
<1> QED BY <1>1, <1>2, <1>3

\* The compact form does not make a number greater.
LEMMA RoundedBelow ==
    ASSUME PowersFit, NEW n \in Nat, n < 2^Width PROVE Rounded(n) \in Nat /\ Rounded(n) <= n
<1>1. PICK u \in 0..Size : RoundedTo(n, u)
  BY RoundedIs
<1>2. Base^u \in Nat /\ Base^u >= 1
  <2>1. u \in 0..Size + 3
    BY DEF PowersFit
  <2> QED BY <2>1, Powers
<1>3. Rounded(n) = (n \div Base^u) * Base^u
  BY <1>1 DEF RoundedTo
<1> DEFINE d == Base^u
<1> HIDE DEF d
<1>4. n \div d \in Nat /\ (n \div d) * d <= n /\ (n \div d) * d \in Nat
  <2>1. d \in Nat /\ d > 0
    BY <1>2 DEF d
  <2>2. n \div d \in Nat /\ (n \div d) * d <= n
    BY <2>1, DivIs
  <2> QED BY <2>1, <2>2
<1> QED BY <1>3, <1>4 DEF d

\* The compact form keeps the order of numbers.
LEMMA RoundedMonotone ==
    ASSUME PowersFit, NEW a \in Nat, NEW b \in Nat, a <= b, b < 2^Width
    PROVE  Rounded(a) <= Rounded(b)
<1>0. 2^Width \in Nat /\ Size \in Nat /\ Base \in Nat
  <2>1. Size \in Nat /\ Base \in Nat /\ 2^Width = Base^Size
    BY DEF PowersFit
  <2> QED BY <2>1, Powers
<1>1. PICK u \in 0..Size : RoundedTo(a, u)
  BY <1>0, RoundedIs
<1>2. PICK v \in 0..Size : RoundedTo(b, v)
  BY RoundedIs
<1>3. Base^u \in Nat /\ Base^u >= 1 /\ Base^v \in Nat /\ Base^v >= 1
  <2>1. u \in 0..Size + 3 /\ v \in 0..Size + 3
    BY <1>0
  <2> QED BY <2>1, Powers
<1>4. Half \in Nat /\ Half >= 1
  BY HalfIs
<1>5. CASE u = v
  <2>1. (a \div Base^v) * Base^v <= (b \div Base^v) * Base^v
    BY <1>3, FloorMonotone
  <2> QED BY <1>1, <1>2, <1>5, <2>1 DEF RoundedTo
<1>6. CASE u < v
  <2> DEFINE p == Base^(v - 1)
  <2>1. v - 1 \in 0..Size + 3 /\ u \in 0..Size + 3 /\ v - 1 \in u..Size + 3 /\ v \in 1..Size + 3
    BY <1>0, <1>6
  <2>2. p \in Nat /\ p >= 1 /\ Base^u <= p /\ Base^v = Base * p
    BY <2>1, Powers, PowersGrow
  <2> HIDE DEF p
  <2>3. a < Half * p
    <3>1. a < Half * Base^u
      BY <1>1 DEF RoundedTo
    <3>2. Half * Base^u <= Half * p /\ Half * Base^u \in Nat /\ Half * p \in Nat
      BY <1>3, <1>4, <2>2
    <3> QED BY <3>1, <3>2
  <2>4. b >= Half * p
    BY <1>0, <1>2, <1>6 DEF RoundedTo, p
  <2>5. PICK m \in Nat : Half = m * Base
    BY HalfIs
  <2>6. Half * p = m * Base^v
    BY <1>0, <2>2, <2>5
  <2>7. m * Base^v <= (b \div Base^v) * Base^v
    <3>1. m * Base^v <= b
      BY <2>4, <2>6
    <3> QED BY <1>3, <3>1, MultipleBelow
  <2>8. Rounded(b) = (b \div Base^v) * Base^v
    BY <1>2 DEF RoundedTo
  <2>9. Rounded(a) \in Nat /\ Rounded(a) <= a /\ Rounded(b) \in Nat
    BY <1>0, RoundedBelow
  <2>10. Half * p \in Nat
    BY <1>4, <2>2
  <2> QED BY <2>3, <2>6, <2>7, <2>8, <2>9, <2>10
<1>7. CASE u > v
  <2> DEFINE p == Base^(u - 1)
  <2>1. u - 1 \in 0..Size + 3 /\ v \in 0..Size + 3 /\ u - 1 \in v..Size + 3
    BY <1>0, <1>7
  <2>2. p \in Nat /\ Base^v <= p
    BY <2>1, Powers, PowersGrow
  <2> HIDE DEF p
  <2>3. a >= Half * p
    BY <1>0, <1>1, <1>7 DEF RoundedTo, p
  <2>4. b < Half * Base^v
    BY <1>2 DEF RoundedTo
  <2>5. Half * Base^v <= Half * p /\ Half * Base^v \in Nat /\ Half * p \in Nat
    BY <1>3, <1>4, <2>2
  <2> QED BY <2>3, <2>4, <2>5
<1> QED BY <1>0, <1>5, <1>6, <1>7

-----------------------------------------------------------------------------
(* The retarget.                                                            *)

\* The lesser and the greater one of two numbers.
LEMMA MinOfTwo ==
    ASSUME NEW a \in Int, NEW b \in Int
    PROVE  /\ Min({a, b}) = IF a <= b THEN a ELSE b
           /\ Max({a, b}) = IF a >= b THEN a ELSE b
<1>1. \E x \in {a, b} : \A y \in {a, b} : x <= y
  OBVIOUS
<1>2. Min({a, b}) \in {a, b} /\ \A y \in {a, b} : Min({a, b}) <= y
  BY <1>1 DEF Min
<1>3. \E x \in {a, b} : \A y \in {a, b} : x >= y
  OBVIOUS
<1>4. Max({a, b}) \in {a, b} /\ \A y \in {a, b} : Max({a, b}) >= y
  BY <1>3 DEF Max
<1> QED BY <1>2, <1>4

\* A target that is allowed.
Allowed(bits) == SetCompact(bits) \in Nat /\ SetCompact(bits) <= params.powLimit

\* The timespan and the limit of a network.
LEMMA Fits ==
    ASSUME ConstantsFit, params \in Networks
    PROVE  /\ Timespan \in Nat /\ Timespan > 0 /\ Timespan \div 4 \in Nat
           /\ Timespan \div 4 <= Timespan * 4
           /\ params.powLimit \in Nat /\ params.powLimit >= 1 /\ params.powLimit < 2^Width
<1>1. Spacing \in Nat /\ Spacing > 0 /\ Interval \in Nat /\ Interval > 0
  BY DEF ConstantsFit
<1>2. Timespan \in Nat /\ Timespan > 0
  BY <1>1 DEF Timespan
<1>3. params.powLimit \in Nat \ {0} /\ params.powLimit < 2^Width
  BY DEF ConstantsFit
<1>4. Timespan \div 4 \in Nat /\ Timespan \div 4 <= Timespan * 4
  BY <1>2
<1> QED BY <1>2, <1>3, <1>4

\* From this target the product of a retarget does not wrap.
LeavesRoom(bits) == SetCompact(bits) * (Timespan * 4) < 2^Width

\* What a retarget is then.
LEMMA RetargetedIs ==
    ASSUME ConstantsFit, PowersFit, params \in Networks, NEW bits, Allowed(bits),
           LeavesRoom(bits), NEW span \in Nat, span <= Timespan * 4
    PROVE  /\ Retargeted(bits, span)
                 = Capped((SetCompact(bits) * span) \div Timespan, params.powLimit)
           /\ (SetCompact(bits) * span) \div Timespan \in Nat
           /\ Retargeted(bits, span) \in Nat /\ Retargeted(bits, span) <= params.powLimit
<1> DEFINE t == SetCompact(bits)
           L == params.powLimit
<1>1. t \in Nat /\ t * (Timespan * 4) < 2^Width
  BY DEF Allowed, LeavesRoom
<1>2. Timespan \in Nat /\ Timespan > 0 /\ L \in Nat /\ 2^Width \in Nat
  <2>1. Size \in Nat /\ 2^Width = Base^Size
    BY DEF PowersFit
  <2>2. 2^Width \in Nat
    BY <2>1, Powers
  <2> QED BY <2>2, Fits
<1> HIDE DEF t, L
<1>3. t * span \in Nat /\ t * (Timespan * 4) \in Nat /\ t * span <= t * (Timespan * 4)
  BY <1>1, <1>2
<1>4. t * span < 2^Width
  BY <1>1, <1>2, <1>3
<1>5. Wrap(t * span) = t * span
  BY <1>2, <1>3, <1>4, NoWrap
<1>6. Retargeted(bits, span) = Capped((t * span) \div Timespan, L)
  BY <1>5 DEF Retargeted, t, L
<1>7. (t * span) \div Timespan \in Nat
  BY <1>2, <1>3, DivIs
<1>8. Capped((t * span) \div Timespan, L) \in Nat /\ Capped((t * span) \div Timespan, L) <= L
  BY <1>2, <1>7 DEF Capped
<1> QED BY <1>6, <1>7, <1>8 DEF t, L

\* A longer period gives no smaller target, rounded as it is.
LEMMA RetargetedMonotone ==
    ASSUME ConstantsFit, PowersFit, params \in Networks, NEW bits, Allowed(bits),
           LeavesRoom(bits), NEW s1 \in Nat, NEW s2 \in Nat, s1 <= s2, s2 <= Timespan * 4
    PROVE  Rounded(Retargeted(bits, s1)) <= Rounded(Retargeted(bits, s2))
<1> DEFINE t == SetCompact(bits)
           a == (t * s1) \div Timespan
           b == (t * s2) \div Timespan
<1>1. /\ Timespan \in Nat /\ Timespan > 0
      /\ params.powLimit \in Nat /\ params.powLimit < 2^Width
  BY Fits
<1>2. s1 <= Timespan * 4
  BY <1>1
<1>3. /\ Retargeted(bits, s1) = Capped(a, params.powLimit) /\ a \in Nat
      /\ Retargeted(bits, s1) \in Nat /\ Retargeted(bits, s1) <= params.powLimit
  BY <1>2, RetargetedIs
<1>4. /\ Retargeted(bits, s2) = Capped(b, params.powLimit) /\ b \in Nat
      /\ Retargeted(bits, s2) \in Nat /\ Retargeted(bits, s2) <= params.powLimit
  BY RetargetedIs
<1>5. a <= b
  <2>1. t \in Nat
    BY DEF Allowed
  <2> HIDE DEF t
  <2>2. t * s1 <= t * s2 /\ t * s1 \in Nat /\ t * s2 \in Nat
    BY <2>1
  <2> QED BY <1>1, <2>2, FloorMonotone
<1> HIDE DEF a, b
<1>6. Capped(a, params.powLimit) <= Capped(b, params.powLimit)
  BY <1>1, <1>3, <1>4, <1>5 DEF Capped
<1>7. Retargeted(bits, s1) <= Retargeted(bits, s2)
  BY <1>3, <1>4, <1>6
<1>8. Retargeted(bits, s2) < 2^Width
  <2>1. 2^Width \in Nat
    <3>1. Size \in Nat /\ 2^Width = Base^Size
      BY DEF PowersFit
    <3> QED BY <3>1, Powers
  <2> QED BY <1>1, <1>4, <2>1
<1> QED BY <1>3, <1>4, <1>7, <1>8, RoundedMonotone

-----------------------------------------------------------------------------
(* The chain of headers.                                                    *)

\* The inductive invariant: every difficulty of the period is allowed, and is the
\* one the period began with or the limit.
Inv ==
    /\ params \in Networks /\ height \in Nat
    /\ \E S : period \in Seq(S)
    /\ Len(period) >= 1
    /\ \A i \in 1..Len(period) :
          /\ period[i].time \in Int /\ Allowed(period[i].bits)
          /\ period[i].bits \in {First.bits, Limit}
    /\ EscapeEnds

\* The last block of the period that is not at the limit has the difficulty of
\* the first.
LEMMA LastNonSpecialIs ==
    ASSUME Inv PROVE LastNonSpecial = First.bits
<1> DEFINE n == Len(period)
           S == {1} \cup {i \in 1..n : period[i].bits # Limit}
           D == {n - i : i \in S}
<1>1. n \in Nat /\ n >= 1
  BY LenProperties DEF Inv
<1>2. S \in SUBSET (1..n) /\ 1 \in S
  BY <1>1
<1>3. D \in SUBSET Nat /\ D # {}
  BY <1>1, <1>2
<1>4. PICK x \in D : \A y \in D : x <= y
  <2> HIDE DEF D
  <2> QED BY <1>3, LeastNumber, Zenon
<1>5. PICK i \in S : \A j \in S : n - i <= n - j
  BY <1>4
<1>6. \A j \in S : i >= j
  BY <1>1, <1>2, <1>5
<1>7. Max(S) \in S
  <2> HIDE DEF S
  <2> QED BY <1>6, Zenon DEF Max
<1>8. \A j \in S : period[j].bits = First.bits
  BY <1>1, <1>2 DEF Inv, First
<1>9. LastNonSpecial = period[Max(S)].bits
  BY DEF LastNonSpecial
<1> HIDE DEF S
<1> QED BY <1>7, <1>8, <1>9

\* What a node requires of a block inside a period.
LEMMA InsidePeriod ==
    ASSUME Inv, (height + 1) % Interval # 0, NEW time
    PROVE  /\ GetNextWorkRequired(time) \in {First.bits, Limit}
           /\ ~ AllowMinDifficulty(height + 1) => GetNextWorkRequired(time) = Last.bits
           /\ AllowMinDifficulty(height + 1) /\ ~ (time > Last.time + Spacing * 2)
                 => GetNextWorkRequired(time) = First.bits
<1>1. LastNonSpecial = First.bits
  BY LastNonSpecialIs
<1>2. Last.bits \in {First.bits, Limit}
  <2>1. Len(period) \in 1..Len(period)
    BY LenProperties DEF Inv
  <2> QED BY <2>1 DEF Inv, Last
<1>3. GetNextWorkRequired(time) =
          IF ~ AllowMinDifficulty(height + 1) THEN Last.bits
          ELSE IF time > Last.time + Spacing * 2 THEN Limit ELSE LastNonSpecial
  BY Zenon DEF GetNextWorkRequired
<1> QED BY <1>1, <1>2, <1>3

\* A header that starts a period.
LEMMA PeriodStarts ==
    ASSUME Inv, NEW bits, Allowed(bits), params' = params, height' = height + 1,
           period' = <<[bits |-> bits, time |-> 0]>>
    PROVE  Inv'
<1> DEFINE block == [bits |-> bits, time |-> 0]
<1>1. period' = <<block>> /\ block.bits = bits /\ block.time = 0
  OBVIOUS
<1> HIDE DEF block
<1>2. Len(period') = 1 /\ period'[1] = block /\ period' \in Seq({block})
  BY <1>1
<1>3. First'.bits = bits
  BY <1>1, <1>2 DEF First
<1>4. \A i \in 1..Len(period') :
          /\ period'[i].time \in Int /\ Allowed(period[i].bits)'
          /\ period'[i].bits \in {First'.bits, Limit'}
  <2> SUFFICES ASSUME NEW i \in 1..Len(period')
               PROVE  /\ period'[i].time \in Int /\ Allowed(period[i].bits)'
                      /\ period'[i].bits \in {First'.bits, Limit'}
    OBVIOUS
  <2>1. i = 1 /\ period'[i].bits = bits /\ period'[i].time \in Int
    BY <1>1, <1>2
  <2>2. Allowed(period[i].bits)'
    BY <2>1 DEF Allowed
  <2> QED BY <1>3, <2>1, <2>2
<1>5. EscapeEnds'
  BY <1>2 DEF EscapeEnds
<1>6. params' \in Networks /\ height' \in Nat
  BY DEF Inv
<1>7. \E S : period' \in Seq(S)
  BY <1>2
<1>8. Len(period') >= 1
  BY <1>2
<1> QED BY <1>4, <1>5, <1>6, <1>7, <1>8, Zenon DEF Inv

\* A header inside a period.
LEMMA PeriodGoesOn ==
    ASSUME Inv, NEW bits, Allowed(bits), NEW time \in Int, ConstantsFit,
           bits \in {First.bits, Limit},
           AllowMinDifficulty(height + 1) /\ ~ (time > Last.time + Spacing * 2)
               => bits = First.bits,
           params' = params, height' = height + 1,
           period' = Append(period, [bits |-> bits, time |-> time])
    PROVE  Inv'
<1> DEFINE n == Len(period)
           block == [bits |-> bits, time |-> time]
<1>1. period' = Append(period, block) /\ block.bits = bits /\ block.time = time
  OBVIOUS
<1> HIDE DEF block
<1>2. PICK S : period \in Seq(S)
  BY DEF Inv
<1>3. n \in Nat /\ n >= 1
  BY <1>2, LenProperties DEF Inv
<1>4. /\ period' \in Seq(S \cup {block}) /\ Len(period') = n + 1
      /\ \A i \in 1..n : period'[i] = period[i]
      /\ period'[n + 1] = block
  <2>1. period \in Seq(S \cup {block})
    BY <1>2, SeqMonotonic
  <2> QED BY <1>1, <2>1, AppendProperties
<1>5. First' = First /\ Limit' = Limit
  <2>1. 1 \in 1..n
    BY <1>3
  <2>2. First' = First
    BY <1>4, <2>1 DEF First
  <2>3. Limit' = Limit
    BY DEF Limit
  <2> QED BY <2>2, <2>3
<1> HIDE DEF n
<1>6. ASSUME NEW i \in 1..Len(period')
      PROVE  /\ period'[i].time \in Int /\ Allowed(period[i].bits)'
             /\ period'[i].bits \in {First'.bits, Limit'}
  <2>1. i \in 1..n \/ i = n + 1
    BY <1>3, <1>4
  <2>2. CASE i \in 1..n
    <3>1. period'[i] = period[i]
      BY <1>4, <2>2
    <3>2. period[i].time \in Int /\ Allowed(period[i].bits) /\ period[i].bits \in {First.bits, Limit}
      BY <2>2 DEF Inv, n
    <3>3. Allowed(period[i].bits)'
      BY <3>1, <3>2 DEF Allowed
    <3> QED BY <1>5, <3>1, <3>2, <3>3
  <2>3. CASE i = n + 1
    <3>1. period'[i].bits = bits /\ period'[i].time = time
      BY <1>1, <1>4, <2>3
    <3>2. Allowed(period[i].bits)'
      BY <3>1 DEF Allowed
    <3> QED BY <1>5, <3>1, <3>2
  <2> QED BY <2>1, <2>2, <2>3
<1>7. EscapeEnds'
  <2>0. height \in Nat /\ Spacing \in Nat
    BY DEF Inv, ConstantsFit
  <2>1. \A i \in Int : height' - Len(period') + i = height - n + i
    BY <1>3, <1>4, <2>0
  <2> SUFFICES ASSUME NEW i \in 2..Len(period'),
                      AllowMinDifficulty(height - Len(period) + i)',
                      period'[i].time <= period'[i-1].time + Spacing * 2
               PROVE  period'[i].bits = First'.bits
    BY DEF EscapeEnds
  <2>2. AllowMinDifficulty(height - n + i)
    BY <2>1 DEF AllowMinDifficulty
  <2>3. CASE i \in 2..n
    <3>1. i \in 1..n /\ i - 1 \in 1..n
      BY <1>3, <2>3
    <3>2. period'[i] = period[i] /\ period'[i-1] = period[i-1]
      BY <1>4, <3>1
    <3>3. period[i].bits = First.bits
      BY <2>2, <2>3, <3>2 DEF Inv, EscapeEnds, n
    <3> QED BY <1>5, <3>2, <3>3
  <2>4. CASE i = n + 1
    <3>1. i - 1 = n /\ n \in 1..n /\ height - n + i = height + 1
      BY <1>3, <2>0, <2>4
    <3>2. period'[i-1] = Last /\ period'[i].time = time /\ period'[i].bits = bits
      BY <1>1, <1>4, <2>4, <3>1 DEF Last, n
    <3>3. Last.time \in Int
      BY <3>1 DEF Inv, Last, n
    <3>4. ~ (time > Last.time + Spacing * 2)
      <4>1. time <= Last.time + Spacing * 2
        BY <3>2
      <4> QED BY ONLY <2>0, <3>3, <4>1, time \in Int
    <3>5. AllowMinDifficulty(height + 1)
      BY <2>2, <3>1
    <3> QED BY <1>5, <3>2, <3>4, <3>5
  <2> QED BY <1>3, <1>4, <2>3, <2>4
<1>8. params' \in Networks /\ height' \in Nat
  BY DEF Inv
<1>9. \E T : period' \in Seq(T)
  BY <1>4
<1>10. Len(period') >= 1
  BY <1>3, <1>4
<1> QED BY <1>6, <1>7, <1>8, <1>9, <1>10, Zenon DEF Inv

\* A block keeps the invariant.
LEMMA AcceptKeeps ==
    ASSUME ConstantsFit, Inv, NEW gap \in Gaps, AcceptBlock(gap) PROVE Inv'
<1> DEFINE time == Last.time + gap
           bits == GetNextWorkRequired(time)
<1>1. /\ Minable(bits) /\ height' = height + 1 /\ params' = params
      /\ period' = IF height' % Interval = 0 THEN <<[bits |-> bits, time |-> 0]>>
                   ELSE Append(period, [bits |-> bits, time |-> time])
  BY Zenon DEF AcceptBlock
<1>2. Last.time \in Int /\ time \in Int
  <2>1. Len(period) \in 1..Len(period)
    BY LenProperties DEF Inv
  <2>2. gap \in Int
    BY DEF ConstantsFit
  <2> QED BY <2>1, <2>2 DEF Inv, Last
<1> HIDE DEF time
<1>3. (height + 1) % Interval # 0 =>
          /\ bits \in {First.bits, Limit}
          /\ AllowMinDifficulty(height + 1) /\ ~ (time > Last.time + Spacing * 2)
                => bits = First.bits
  BY InsidePeriod
<1> HIDE DEF bits
<1>4. Allowed(bits)
  <2>1. params.powLimit \in Nat
    BY Fits DEF Inv
  <2> QED BY <1>1, <2>1 DEF Minable, Allowed
<1>5. CASE (height + 1) % Interval = 0
  <2>1. period' = <<[bits |-> bits, time |-> 0]>>
    BY <1>1, <1>5
  <2> QED BY <1>1, <1>4, <2>1, PeriodStarts
<1>6. CASE (height + 1) % Interval # 0
  <2>1. period' = Append(period, [bits |-> bits, time |-> time])
    BY <1>1, <1>6
  <2> QED BY <1>1, <1>2, <1>3, <1>4, <1>6, <2>1, PeriodGoesOn
<1> QED BY <1>5, <1>6

\* The invariant always holds.
LEMMA AlwaysInv ==
    ASSUME ConstantsFit, PowersFit PROVE Spec => []Inv
<1>1. Init => Inv
  <2> SUFFICES ASSUME Init PROVE Inv
    OBVIOUS
  <2>1. PICK n \in 1..params.powLimit :
            period = <<[bits |-> GetCompact(n), time |-> 0]>>
    BY DEF Init
  <2>2. params \in Networks /\ height = 0
    BY DEF Init
  <2>3. /\ params.powLimit \in Nat /\ params.powLimit < 2^Width /\ 2^Width \in Nat
    <3>1. Size \in Nat /\ 2^Width = Base^Size
      BY DEF PowersFit
    <3>2. 2^Width \in Nat
      BY <3>1, Powers
    <3>3. params.powLimit \in Nat /\ params.powLimit < 2^Width
      BY <2>2, Fits
    <3> QED BY <3>2, <3>3
  <2> DEFINE bits == GetCompact(n)
             block == [bits |-> bits, time |-> 0]
  <2>4. Allowed(bits)
    <3>1. n \in Nat /\ n < 2^Width /\ n <= params.powLimit
      BY <2>3
    <3>2. Rounded(n) \in Nat /\ Rounded(n) <= n
      BY <3>1, RoundedBelow
    <3> QED BY <2>3, <3>1, <3>2 DEF Allowed, Rounded
  <2> HIDE DEF bits
  <2>5. period = <<block>> /\ block.bits = bits /\ block.time = 0
    BY <2>1 DEF bits
  <2> HIDE DEF block
  <2>6. Len(period) = 1 /\ period[1] = block /\ period \in Seq({block})
    BY <2>5
  <2>7. First.bits = bits
    BY <2>5, <2>6 DEF First
  <2>8. \A i \in 1..Len(period) :
            /\ period[i].time \in Int /\ Allowed(period[i].bits)
            /\ period[i].bits \in {First.bits, Limit}
    BY <2>4, <2>5, <2>6, <2>7
  <2>9. EscapeEnds
    BY <2>6 DEF EscapeEnds
  <2>10. \E S : period \in Seq(S)
    BY <2>6
  <2>11. Len(period) >= 1 /\ height \in Nat
    BY <2>2, <2>6
  <2> QED BY <2>2, <2>8, <2>9, <2>10, <2>11, Zenon DEF Inv
<1>2. Inv /\ [Next]_vars => Inv'
  <2> SUFFICES ASSUME Inv, [Next]_vars PROVE Inv'
    OBVIOUS
  <2>1. ASSUME NEW gap \in Gaps, AcceptBlock(gap) PROVE Inv'
    BY <2>1, AcceptKeeps
  <2>2. CASE UNCHANGED vars
    BY <2>2 DEF vars, Inv, EscapeEnds, AllowMinDifficulty, Allowed, Limit, First
  <2> QED BY <2>1, <2>2, Zenon DEF Next
<1> QED BY <1>1, <1>2, PTL DEF Spec

-----------------------------------------------------------------------------
(* The theorems.                                                            *)

\* While the min-difficulty rule holds, a block that came within two spacings has
\* the difficulty its period began with (GetNextWorkRequired).
THEOREM EscapeDoesEnd ==
    ASSUME ConstantsFit, PowersFit PROVE Spec => []EscapeEnds
<1>1. Inv => EscapeEnds
  BY DEF Inv
<1> QED BY <1>1, AlwaysInv, PTL

\* What a block does, and the time its retarget counts.
LEMMA AcceptIs ==
    ASSUME ConstantsFit, Inv, NEW gap \in Gaps, AcceptBlock(gap)
    PROVE  /\ height' = height + 1 /\ params' = params
           /\ Last'.bits = GetNextWorkRequired(Last.time + gap)
           /\ Last.time \in Int /\ Allowed(Last.bits) /\ Allowed(First.bits)
<1> DEFINE time == Last.time + gap
           bits == GetNextWorkRequired(time)
<1>1. /\ height' = height + 1 /\ params' = params
      /\ period' = IF height' % Interval = 0 THEN <<[bits |-> bits, time |-> 0]>>
                   ELSE Append(period, [bits |-> bits, time |-> time])
  BY Zenon DEF AcceptBlock
<1> HIDE DEF bits, time
<1>2. PICK S : period \in Seq(S)
  BY DEF Inv
<1>3. Len(period) \in 1..Len(period) /\ 1 \in 1..Len(period)
  BY <1>2, LenProperties DEF Inv
<1>4. Last.time \in Int /\ Allowed(Last.bits) /\ Allowed(First.bits)
  BY <1>3 DEF Inv, Last, First
<1>5. Last'.bits = bits
  <2>1. CASE height' % Interval = 0
    <3> DEFINE block == [bits |-> bits, time |-> 0]
    <3>1. period' = <<block>> /\ block.bits = bits
      BY <1>1, <2>1
    <3> HIDE DEF block
    <3>2. Len(period') = 1 /\ period'[1] = block
      BY <3>1
    <3> QED BY <3>1, <3>2 DEF Last
  <2>2. CASE height' % Interval # 0
    <3> DEFINE block == [bits |-> bits, time |-> time]
    <3>1. period' = Append(period, block) /\ block.bits = bits
      BY <1>1, <2>2
    <3> HIDE DEF block
    <3>2. period \in Seq(S \cup {block})
      BY <1>2, SeqMonotonic
    <3>3. Len(period') = Len(period) + 1 /\ period'[Len(period) + 1] = block
      BY <3>1, <3>2, AppendProperties
    <3> QED BY <3>1, <3>3 DEF Last
  <2> QED BY <2>1, <2>2
<1> QED BY <1>1, <1>4, <1>5 DEF bits, time

\* The time a retarget counts.
LEMMA SpanIs ==
    ASSUME ConstantsFit, params \in Networks, NEW time \in Int
    PROVE  LET span == Capped(Floored(time, Timespan \div 4), Timespan * 4)
           IN  /\ span \in Nat /\ Timespan \div 4 <= span /\ span <= Timespan * 4
               /\ span = Min({Max({time, Timespan \div 4}), Timespan * 4})
<1> DEFINE low  == Timespan \div 4
           high == Timespan * 4
           a == Floored(time, low)
<1>1. low \in Nat /\ high \in Nat /\ low <= high
  BY Fits
<1> HIDE DEF low, high
<1>2. a \in Nat /\ low <= a /\ a = Max({time, low})
  <2>1. Max({time, low}) = IF time >= low THEN time ELSE low
    BY <1>1, MinOfTwo
  <2> QED BY <1>1, <2>1 DEF Floored
<1> HIDE DEF a
<1>3. Min({a, high}) = IF a <= high THEN a ELSE high
  BY <1>1, <1>2, MinOfTwo
<1>4. Capped(a, high) \in Nat /\ low <= Capped(a, high) /\ Capped(a, high) <= high
  BY <1>1, <1>2 DEF Capped
<1>5. Capped(a, high) = Min({a, high})
  BY <1>1, <1>2, <1>3 DEF Capped
<1> QED BY <1>2, <1>4, <1>5 DEF a, low, high

\* A retarget scales the target by the time the period took, limited to a factor
\* of four, as whole numbers would, if the targets it starts from leave room for
\* the product (CalculateNextWorkRequired).
THEOREM RetargetIsExact ==
    ASSUME ConstantsFit, PowersFit PROVE Spec /\ []ProductFits => RetargetExact
<1> DEFINE span == Min({Max({Last.time, Timespan \div 4}), Timespan * 4})
           base == IF params.enforce_BIP94 THEN First.bits ELSE Last.bits
           A == height' % Interval = 0 /\ ~ params.fPowNoRetargeting =>
                   Last'.bits = GetCompact(Min({params.powLimit,
                                    (SetCompact(base) * span) \div Timespan}))
<1>1. Inv /\ ProductFits /\ [Next]_vars => [A]_vars
  <2> SUFFICES ASSUME Inv, ProductFits, NEW gap \in Gaps, AcceptBlock(gap),
                      height' % Interval = 0, ~ params.fPowNoRetargeting
               PROVE  Last'.bits = GetCompact(Min({params.powLimit,
                                       (SetCompact(base) * span) \div Timespan}))
    BY DEF Next
  <2>1. /\ height' = height + 1 /\ Last'.bits = GetNextWorkRequired(Last.time + gap)
        /\ Last.time \in Int /\ Allowed(Last.bits) /\ Allowed(First.bits)
    BY AcceptIs
  <2>2. GetNextWorkRequired(Last.time + gap) = CalculateNextWorkRequired
    BY <2>1 DEF GetNextWorkRequired
  <2>3. params \in Networks
    BY DEF Inv
  <2>4. /\ span \in Nat /\ span <= Timespan * 4
        /\ span = Capped(Floored(Last.time, Timespan \div 4), Timespan * 4)
    BY <2>1, <2>3, SpanIs
  <2>5. CalculateNextWorkRequired = GetCompact(Retargeted(base, span))
    BY <2>4 DEF CalculateNextWorkRequired
  <2>6. Allowed(base) /\ LeavesRoom(base)
    BY <2>1 DEF ProductFits, LeavesRoom
  <2> HIDE DEF base, span
  <2>7. /\ Retargeted(base, span)
              = Capped((SetCompact(base) * span) \div Timespan, params.powLimit)
        /\ (SetCompact(base) * span) \div Timespan \in Nat
    BY <2>3, <2>4, <2>6, RetargetedIs
  <2>8. params.powLimit \in Nat
    BY <2>3, Fits
  <2> DEFINE x == (SetCompact(base) * span) \div Timespan
  <2> HIDE DEF x
  <2>9. Capped(x, params.powLimit) = Min({params.powLimit, x})
    <3>1. x \in Nat
      BY <2>7 DEF x
    <3>2. Min({params.powLimit, x}) = IF params.powLimit <= x THEN params.powLimit ELSE x
      BY <2>8, <3>1, MinOfTwo
    <3> QED BY <2>8, <3>1, <3>2 DEF Capped
  <2> QED BY <2>1, <2>2, <2>5, <2>7, <2>9 DEF x
<1> QED BY <1>1, AlwaysInv, PTL DEF Spec, RetargetExact

\* Whatever a full node requires of the next block, the pre-synchronisation of
\* headers lets pass, if the targets retargets start from leave room for the
\* product (PermittedDifficultyTransition).
THEOREM RequiredDoesPass ==
    ASSUME ConstantsFit, PowersFit PROVE Spec /\ []ProductFits => RequiredIsPermitted
<1> DEFINE A == PermittedDifficultyTransition(height', Last.bits, Last'.bits)
<1>1. Inv /\ ProductFits /\ [Next]_vars => [A]_vars
  <2> SUFFICES ASSUME Inv, ProductFits, NEW gap \in Gaps, AcceptBlock(gap) PROVE A
    BY DEF Next
  <2>1. /\ height' = height + 1 /\ Last'.bits = GetNextWorkRequired(Last.time + gap)
        /\ Last.time \in Int /\ Allowed(Last.bits)
    BY AcceptIs
  <2>2. params \in Networks
    BY DEF Inv
  <2>3. CASE AllowMinDifficulty(height + 1)
    BY <2>1, <2>3 DEF PermittedDifficultyTransition
  <2>4. CASE ~ AllowMinDifficulty(height + 1) /\ (height + 1) % Interval # 0
    <3>1. Last'.bits = Last.bits
      BY <2>1, <2>4, InsidePeriod
    <3> QED BY <2>1, <2>4, <3>1 DEF PermittedDifficultyTransition
  <2>5. CASE ~ AllowMinDifficulty(height + 1) /\ (height + 1) % Interval = 0
    <3> DEFINE span == Capped(Floored(Last.time, Timespan \div 4), Timespan * 4)
               old  == Last.bits
    <3>1. ~ params.enforce_BIP94 /\ ~ params.fPowNoRetargeting
      BY <2>2, <2>5 DEF AllowMinDifficulty, ConstantsFit
    <3>2. Last'.bits = GetCompact(Retargeted(old, span))
      BY <2>1, <2>5, <3>1 DEF GetNextWorkRequired, CalculateNextWorkRequired
    <3>0. LeavesRoom(old)
      BY <2>5, <3>1 DEF ProductFits, LeavesRoom
    <3>3. span \in Nat /\ Timespan \div 4 <= span /\ span <= Timespan * 4
      BY <2>1, <2>2, SpanIs
    <3> HIDE DEF span
    <3>4. /\ Timespan \div 4 \in Nat /\ Timespan * 4 \in Nat
          /\ Timespan \div 4 <= Timespan * 4
      BY <2>2, Fits
    <3>5. Rounded(Retargeted(old, span)) <= Rounded(Retargeted(old, Timespan * 4))
      BY <2>1, <2>2, <3>0, <3>3, <3>4, RetargetedMonotone
    <3>6. Rounded(Retargeted(old, Timespan \div 4)) <= Rounded(Retargeted(old, span))
      BY <2>1, <2>2, <3>0, <3>3, <3>4, RetargetedMonotone
    <3>7. /\ SetCompact(Last'.bits) = Rounded(Retargeted(old, span))
          /\ \A s : SetCompact(GetCompact(Retargeted(old, s))) = Rounded(Retargeted(old, s))
      BY <3>2 DEF Rounded
    <3>8. /\ Rounded(Retargeted(old, span)) \in Int
          /\ Rounded(Retargeted(old, Timespan \div 4)) \in Int
      <4>1. \A s \in Nat : s <= Timespan * 4 => Rounded(Retargeted(old, s)) \in Int
        <5> SUFFICES ASSUME NEW s \in Nat, s <= Timespan * 4
                     PROVE  Rounded(Retargeted(old, s)) \in Int
          OBVIOUS
        <5>1. Retargeted(old, s) \in Nat /\ Retargeted(old, s) <= params.powLimit
          BY <2>1, <2>2, <3>0, RetargetedIs
        <5>2. params.powLimit \in Nat /\ params.powLimit < 2^Width /\ 2^Width \in Nat
          <6>1. Size \in Nat /\ 2^Width = Base^Size
            BY DEF PowersFit
          <6> QED BY <2>2, <6>1, Fits, Powers
        <5>3. Retargeted(old, s) < 2^Width
          BY <5>1, <5>2
        <5> QED BY <5>1, <5>3, RoundedBelow
      <4> QED BY <3>3, <3>4, <4>1
    <3>9. SetCompact(Last'.bits) >= Rounded(Retargeted(old, Timespan \div 4))
      BY <3>6, <3>7, <3>8
    <3>10. SetCompact(Last'.bits) <= Rounded(Retargeted(old, Timespan * 4))
      BY <3>5, <3>7
    <3> QED BY <2>1, <2>5, <3>7, <3>9, <3>10, Zenon DEF PermittedDifficultyTransition
  <2> QED BY <2>3, <2>4, <2>5
<1> QED BY <1>1, AlwaysInv, PTL DEF Spec, RequiredIsPermitted

\* Where the limit of every network that retargets leaves room for the product,
\* every target does.
THEOREM LimitLeavesRoom ==
    ASSUME ConstantsFit, PowersFit, LimitsFit PROVE Spec => []ProductFits
<1>1. Inv => ProductFits
  <2> SUFFICES ASSUME Inv PROVE ProductFits
    OBVIOUS
  <2>1. PICK S : period \in Seq(S)
    BY DEF Inv
  <2>2. Len(period) \in 1..Len(period) /\ 1 \in 1..Len(period)
    BY <2>1, LenProperties DEF Inv
  <2>3. params \in Networks /\ Allowed(Last.bits) /\ Allowed(First.bits)
    BY <2>2 DEF Inv, Last, First
  <2>4. ASSUME ~ params.fPowNoRetargeting, NEW bits, Allowed(bits)
        PROVE  SetCompact(bits) * (Timespan * 4) < 2^Width
    <3> DEFINE t == SetCompact(bits)
               L == params.powLimit
               T == Timespan * 4
    <3>1. t \in Nat /\ t <= L /\ L \in Nat /\ T \in Nat /\ 2^Width \in Nat
      <4>1. Size \in Nat /\ 2^Width = Base^Size
        BY DEF PowersFit
      <4>2. 2^Width \in Nat
        BY <4>1, Powers
      <4> QED BY <2>3, <2>4, <4>2, Fits DEF Allowed
    <3>2. L * T < 2^Width
      BY <2>3, <2>4 DEF LimitsFit
    <3> HIDE DEF t, L, T
    <3>3. t * T <= L * T /\ t * T \in Nat /\ L * T \in Nat
      BY <3>1, MulMonotone
    <3>4. t * T < 2^Width
      BY <3>1, <3>2, <3>3
    <3> QED BY <3>4 DEF t, T
  <2> QED BY <2>3, <2>4 DEF ProductFits
<1> QED BY <1>1, AlwaysInv, PTL
=============================================================================
