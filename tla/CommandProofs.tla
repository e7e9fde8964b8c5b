---------------------------- MODULE CommandProofs ----------------------------
(***************************************************************************)
(* Proofs about the commands: the strings they are made of, what the shell *)
(* does with a line, and what is printed.                                  *)
(***************************************************************************)
EXTENDS Shell, CommandOutput, SequenceTheorems, WellFoundedInduction, TLAPS

-----------------------------------------------------------------------------
(* Strings and numbers                                                     *)

Ten(k) == 10^k

LEMMA Powers == /\ Ten(0) = 1 /\ Ten(1) = 10 /\ Ten(2) = 100 /\ Ten(3) = 1000 /\ Ten(4) = 10000
                /\ Ten(5) = 100000 /\ Ten(6) = 1000000 /\ Ten(7) = 10000000 /\ Ten(8) = 100000000
                /\ Ten(9) = 1000000000 /\ Ten(10) = 10000000000
  BY SMT DEF Ten

LEMMA LeastOf ==
    ASSUME NEW S \in SUBSET Nat, S # {}
    PROVE  \E m \in S : \A n \in S : m <= n
<1>1. PICK m \in S : \A n \in S : <<n, m>> \notin OpToRel(<, Nat)
  BY NatLessThanWellFounded, WFMin, Zenon
<1>2. \A n \in S : ~(n < m)  BY <1>1, Zenon DEF OpToRel
<1>3. \A n \in S : m <= n  BY <1>2
<1>. QED  BY <1>3

(* A function on 0 .. N whose values come from the ones before: from z, and *)
(* from f[n - 1] by F.                                                     *)
Follows(f, z, F, n) == IF n = 0 THEN z ELSE F[n][f[n - 1]]

LEMMA RecursionEnds ==
    ASSUME NEW N \in Nat, NEW z \in Int, NEW F \in [Nat -> [Int -> Int]]
    PROVE  \E f \in [0 .. N -> Int] : f = [n \in 0 .. N |-> Follows(f, z, F, n)]
<1>. DEFINE P(k) == \E f \in [0 .. k -> Int] : f = [n \in 0 .. k |-> Follows(f, z, F, n)]
            Bad == {k \in Nat : ~P(k)}
<1>. HIDE DEF P
<1>1. ASSUME Bad # {}  PROVE FALSE
  <2>1. PICK m \in Bad : \A k \in Bad : m <= k  BY <1>1, LeastOf
  <2>2. m \in Nat /\ ~P(m)  BY <2>1
  <2>3. CASE m = 0
    <3>. DEFINE f == [n \in 0 .. 0 |-> z]
    <3>1. f = [n \in 0 .. 0 |-> Follows(f, z, F, n)]  BY DEF Follows
    <3>2. f \in [0 .. 0 -> Int]  OBVIOUS
    <3>. QED  BY <2>2, <2>3, <3>1, <3>2 DEF P
  <2>4. CASE m # 0
    <3>1. m - 1 \in Nat /\ m - 1 \notin Bad  BY <2>1, <2>2, <2>4
    <3>2. PICK g \in [0 .. m - 1 -> Int] : g = [n \in 0 .. m - 1 |-> Follows(g, z, F, n)]
      BY <3>1 DEF P
    <3>. DEFINE v == F[m][g[m - 1]]
                f == [n \in 0 .. m |-> IF n = m THEN v ELSE g[n]]
    <3>3. g[m - 1] \in Int /\ v \in Int  BY <2>2, <3>1, <3>2
    <3>4. \A n \in 0 .. m : f[n] = Follows(f, z, F, n)
      <4>. TAKE n \in 0 .. m
      <4>1. CASE n = m
        <5>1. f[m] = v /\ f[m - 1] = g[m - 1]  BY <2>2, <2>4
        <5>. HIDE DEF f
        <5>. QED  BY <2>4, <4>1, <5>1 DEF Follows
      <4>2. CASE n # m
        <5>1. n \in 0 .. m - 1 /\ f[n] = g[n] /\ (n # 0 => f[n - 1] = g[n - 1])
          BY <2>2, <4>2
        <5>2. g[n] = Follows(g, z, F, n)  BY <3>2, <5>1
        <5>. HIDE DEF f
        <5>. QED  BY <5>1, <5>2 DEF Follows
      <4>. QED  BY <4>1, <4>2
    <3>5. \A n \in 0 .. m : f[n] \in Int
      <4>. HIDE DEF v
      <4>1. \A n \in 0 .. m : n # m => n \in 0 .. m - 1  BY <2>2
      <4>. QED  BY <3>2, <3>3, <4>1
    <3>6. f = [n \in 0 .. m |-> f[n]]  OBVIOUS
    <3>7. f = [n \in 0 .. m |-> Follows(f, z, F, n)]
      <4>. HIDE DEF f
      <4>. QED  BY <3>4, <3>6
    <3>8. f \in [0 .. m -> Int]
      <4>. HIDE DEF f
      <4>. QED  BY <3>5, <3>6
    <3>. HIDE DEF f
    <3>. QED  BY <2>2, <3>7, <3>8 DEF P
  <2>. QED  BY <2>3, <2>4
<1>2. P(N)  BY <1>1
<1>. QED  BY <1>2 DEF P

LEMMA IntegersFollow ==
    ASSUME NEW N \in Nat, NEW f, f[0] \in Int,
           \A n \in 1 .. N : f[n - 1] \in Int => f[n] \in Int
    PROVE  \A n \in 0 .. N : f[n] \in Int
<1>. DEFINE Bad == {n \in Nat : n <= N /\ f[n] \notin Int}
<1>1. ASSUME Bad # {}  PROVE FALSE
  <2>1. PICK m \in Bad : \A k \in Bad : m <= k  BY <1>1, LeastOf
  <2>2. m - 1 \in Nat /\ m - 1 \notin Bad /\ m \in 1 .. N  BY <2>1
  <2>. QED  BY <2>1, <2>2
<1>. QED  BY <1>1

(* Multiplier and Result of ToInt.                                         *)
LEMMA ToIntIs ==
    ASSUME NEW s \in Seq(Int)
    PROVE  \E M \in [0 .. Len(s) -> Int], R \in [0 .. Len(s) -> Int] :
               /\ ToInt(s) = R[Len(s)]
               /\ M[0] = 1 /\ \A n \in 1 .. Len(s) : M[n] = 10 * M[n - 1]
               /\ R[0] = 0
               /\ \A n \in 1 .. Len(s) : R[n] = R[n - 1] + (s[Len(s) - n + 1] - 48) * M[n - 1]
<1>. DEFINE N == Len(s)
            M == CHOOSE f : f = [n \in 0 .. N |-> IF n = 0 THEN 1 ELSE 10 * f[n - 1]]
            R == CHOOSE f : f = [n \in 0 .. N |->
                     IF n = 0 THEN 0 ELSE f[n - 1] + (s[N - n + 1] - 48) * M[n - 1]]
            FM == [n \in Nat |-> [v \in Int |-> 10 * v]]
            FR == [n \in Nat |-> [v \in Int |-> IF n \in 1 .. N
                                        THEN v + (s[N - n + 1] - 48) * M[n - 1] ELSE 0]]
<1>1. ToInt(s) = R[N]  BY DEF ToInt
<1>2. N \in Nat /\ \A n \in 1 .. N : N - n + 1 \in 1 .. N /\ s[N - n + 1] \in Int /\ n - 1 \in 0 .. N
  OBVIOUS
<1>. HIDE DEF N
<1>3. FM \in [Nat -> [Int -> Int]] /\ \A n \in Nat, v \in Int : FM[n][v] = 10 * v  OBVIOUS
<1>. HIDE DEF FM
<1>4. M \in [0 .. N -> Int] /\ M[0] = 1 /\ \A n \in 1 .. N : M[n] = 10 * M[n - 1]
  <2>1. 1 \in Int /\ \A n \in 0 .. N : n \in Nat /\ n # 0 => n - 1 \in 0 .. N  BY <1>2
  <2>2. PICK f \in [0 .. N -> Int] : f = [n \in 0 .. N |-> Follows(f, 1, FM, n)]
    BY <1>2, <1>3, <2>1, RecursionEnds, Zenon
  <2>3. \A n \in 0 .. N : Follows(f, 1, FM, n) = IF n = 0 THEN 1 ELSE 10 * f[n - 1]
    <3>1. ASSUME NEW n \in 0 .. N, n # 0  PROVE FM[n][f[n - 1]] = 10 * f[n - 1]
      <4>1. n \in Nat /\ f[n - 1] \in Int  BY <2>1, <3>1
      <4>. QED  BY <1>3, <4>1, Zenon
    <3>. QED  BY <3>1, Zenon DEF Follows
  <2>4. f = [n \in 0 .. N |-> IF n = 0 THEN 1 ELSE 10 * f[n - 1]]
    <3>1. [n \in 0 .. N |-> Follows(f, 1, FM, n)] = [n \in 0 .. N |-> IF n = 0 THEN 1 ELSE 10 * f[n - 1]]
      BY <2>3, Zenon
    <3>. QED  BY <2>2, <3>1, Zenon
  <2>5. M = [n \in 0 .. N |-> IF n = 0 THEN 1 ELSE 10 * M[n - 1]]  BY <2>4, Zenon
  <2>. HIDE DEF M
  <2>6. M[0] = 1 /\ \A n \in 1 .. N : M[n] = 10 * M[n - 1]  BY <1>2, <2>5
  <2>7. \A n \in 0 .. N : M[n] \in Int
    <3>1. M[0] \in Int /\ \A n \in 1 .. N : M[n - 1] \in Int => M[n] \in Int  BY <2>6
    <3>. QED  BY <1>2, <3>1, IntegersFollow, Zenon
  <2>8. M = [n \in 0 .. N |-> M[n]]
    <3>1. M = [n \in DOMAIN M |-> M[n]] /\ DOMAIN M = 0 .. N  BY <2>5
    <3>. QED  BY <3>1, Zenon
  <2>9. M \in [0 .. N -> Int]  BY <2>7, <2>8, Zenon
  <2>. QED  BY <2>6, <2>9
<1>. HIDE DEF M
<1>5. \A n \in 1 .. N : (s[N - n + 1] - 48) * M[n - 1] \in Int
  <2>. TAKE n \in 1 .. N
  <2>1. s[N - n + 1] \in Int /\ M[n - 1] \in Int  BY <1>2, <1>4
  <2>. QED  BY <2>1
<1>6. /\ FR \in [Nat -> [Int -> Int]]
      /\ \A n \in 1 .. N, v \in Int : FR[n][v] = v + (s[N - n + 1] - 48) * M[n - 1]
  <2>1. \A n \in 1 .. N, v \in Int : v + (s[N - n + 1] - 48) * M[n - 1] \in Int  BY <1>5
  <2>2. \A n \in 1 .. N : n \in Nat  BY <1>2
  <2>. QED  BY <2>1, <2>2
<1>. HIDE DEF FR
<1>7. R \in [0 .. N -> Int] /\ R[0] = 0 /\ \A n \in 1 .. N : R[n] = R[n - 1] + (s[N - n + 1] - 48) * M[n - 1]
  <2>1. 0 \in Int /\ \A n \in 0 .. N : n # 0 => n \in 1 .. N /\ n - 1 \in 0 .. N  BY <1>2
  <2>2. PICK f \in [0 .. N -> Int] : f = [n \in 0 .. N |-> Follows(f, 0, FR, n)]
    BY <1>2, <1>6, <2>1, RecursionEnds, Zenon
  <2>3. \A n \in 0 .. N : Follows(f, 0, FR, n) = IF n = 0 THEN 0 ELSE f[n - 1] + (s[N - n + 1] - 48) * M[n - 1]
    <3>1. ASSUME NEW n \in 0 .. N, n # 0  PROVE FR[n][f[n - 1]] = f[n - 1] + (s[N - n + 1] - 48) * M[n - 1]
      <4>1. n \in 1 .. N /\ f[n - 1] \in Int  BY <2>1, <3>1
      <4>. QED  BY <1>6, <4>1, Zenon
    <3>. QED  BY <3>1, Zenon DEF Follows
  <2>4. f = [n \in 0 .. N |-> IF n = 0 THEN 0 ELSE f[n - 1] + (s[N - n + 1] - 48) * M[n - 1]]
    <3>1. [n \in 0 .. N |-> Follows(f, 0, FR, n)]
            = [n \in 0 .. N |-> IF n = 0 THEN 0 ELSE f[n - 1] + (s[N - n + 1] - 48) * M[n - 1]]
      BY <2>3, Zenon
    <3>. QED  BY <2>2, <3>1, Zenon
  <2>5. R = [n \in 0 .. N |-> IF n = 0 THEN 0 ELSE R[n - 1] + (s[N - n + 1] - 48) * M[n - 1]]  BY <2>4, Zenon
  <2>. HIDE DEF R
  <2>6. R[0] = 0 /\ \A n \in 1 .. N : R[n] = R[n - 1] + (s[N - n + 1] - 48) * M[n - 1]  BY <1>2, <2>5
  <2>8. \A n \in 0 .. N : R[n] \in Int
    <3>1. R[0] \in Int /\ \A n \in 1 .. N : R[n - 1] \in Int => R[n] \in Int  BY <1>5, <2>6
    <3>. QED  BY <1>2, <3>1, IntegersFollow, Zenon
  <2>9. R = [n \in 0 .. N |-> R[n]]
    <3>1. R = [n \in DOMAIN R |-> R[n]] /\ DOMAIN R = 0 .. N  BY <2>5
    <3>. QED  BY <3>1, Zenon
  <2>10. R \in [0 .. N -> Int]  BY <2>8, <2>9, Zenon
  <2>. QED  BY <2>6, <2>10
<1>. HIDE DEF R
<1>. QED  BY <1>1, <1>4, <1>7, Zenon DEF N

(* For a text of any length it is a number.                                *)
LEMMA ToIntInt ==
    ASSUME NEW s \in Seq(Int)
    PROVE  ToInt(s) \in Int
<1>1. Len(s) \in Nat  OBVIOUS
<1>. QED  BY <1>1, ToIntIs

(* Ten times a power is the next one, and the ten powers are in order.     *)
LEMMA PowersGrow ==
    /\ \A k \in 0 .. 10 : Ten(k) \in Nat /\ Ten(k) > 0
    /\ \A k \in 0 .. 9 : Ten(k + 1) = 10 * Ten(k)
    /\ \A a, b \in 0 .. 10 : a <= b => Ten(a) <= Ten(b)
<1>1. \A k \in 0 .. 10 : Ten(k) \in Nat /\ Ten(k) > 0  BY Powers, SMT
<1>2. \A k \in 0 .. 9 : Ten(k + 1) = 10 * Ten(k)  BY Powers, SMT
<1>3. \A a, b \in 0 .. 10 : a <= b => Ten(a) <= Ten(b)  BY Powers, SMT
<1>. QED  BY <1>1, <1>2, <1>3, Zenon

(* One more digit in front of a number.                                    *)
LEMMA PutBefore ==
    ASSUME NEW k \in 0 .. 9, NEW r \in Nat, r < Ten(k), NEW e \in 0 .. 9
    PROVE  /\ r + e * Ten(k) \in Nat /\ r + e * Ten(k) < Ten(k + 1)
           /\ (r + e * Ten(k)) % Ten(k) = r /\ (r + e * Ten(k)) \div Ten(k) = e
<1>0. CASE k = 0  BY <1>0, Powers, SMT
<1>1. CASE k = 1  BY <1>1, Powers, SMT
<1>2. CASE k = 2  BY <1>2, Powers, SMT
<1>3. CASE k = 3  BY <1>3, Powers, SMT
<1>4. CASE k = 4  BY <1>4, Powers, SMT
<1>5. CASE k = 5  BY <1>5, Powers, SMT
<1>6. CASE k = 6  BY <1>6, Powers, SMT
<1>7. CASE k = 7  BY <1>7, Powers, SMT
<1>8. CASE k = 8  BY <1>8, Powers, SMT
<1>9. CASE k = 9  BY <1>9, Powers, SMT
<1>. QED  BY <1>0, <1>1, <1>2, <1>3, <1>4, <1>5, <1>6, <1>7, <1>8, <1>9

(* The last digits of a number, and the one before them.                   *)
LEMMA TakeOff ==
    ASSUME NEW k \in 0 .. 9, NEW n \in Nat
    PROVE  /\ n % Ten(k) \in Nat /\ n % Ten(k) < Ten(k) /\ GetDigit(n, k) \in 0 .. 9
           /\ n % Ten(k + 1) = (n % Ten(k)) + GetDigit(n, k) * Ten(k)
           /\ n < Ten(k + 1) => n % Ten(k + 1) = n
           /\ n < Ten(k) => GetDigit(n, k) = 0
<1>. GetDigit(n, k) = (n \div Ten(k)) % 10  BY Zenon DEF GetDigit, Ten
<1>0. CASE k = 0  BY <1>0, Powers, SMT
<1>1. CASE k = 1  BY <1>1, Powers, SMT
<1>2. CASE k = 2  BY <1>2, Powers, SMT
<1>3. CASE k = 3  BY <1>3, Powers, SMT
<1>4. CASE k = 4  BY <1>4, Powers, SMT
<1>5. CASE k = 5  BY <1>5, Powers, SMT
<1>6. CASE k = 6  BY <1>6, Powers, SMT
<1>7. CASE k = 7  BY <1>7, Powers, SMT
<1>8. CASE k = 8  BY <1>8, Powers, SMT
<1>9. CASE k = 9  BY <1>9, Powers, SMT
<1>. QED  BY <1>0, <1>1, <1>2, <1>3, <1>4, <1>5, <1>6, <1>7, <1>8, <1>9

(* GetDigitAmount counts the digits.                                       *)
HasDigits(n, d) == n < Ten(d) /\ (d = 0 \/ n >= Ten(d - 1))

LEMMA DigitAmountIs ==
    ASSUME NEW n \in Nat, NEW d \in 0 .. 10, HasDigits(n, d)
    PROVE  GetDigitAmount(n) = d
<1>1. \A a, b \in 0 .. 10 : a < b => Ten(a) <= Ten(b - 1)
  BY Powers, SMT
<1>2. \A a \in 0 .. 10 : Ten(a) \in Nat  BY Powers, SMT
<1>3. ASSUME NEW a \in 0 .. 10, HasDigits(n, a)  PROVE a = d
  <2>1. ~(a < d)  BY <1>1, <1>2, <1>3 DEF HasDigits
  <2>2. ~(d < a)  BY <1>1, <1>2, <1>3 DEF HasDigits
  <2>. QED  BY <2>1, <2>2
<1>. QED  BY <1>3, Zenon DEF GetDigitAmount, HasDigits, Ten

LEMMA DigitsExist ==
    ASSUME NEW n \in Nat, n < Ten(10)
    PROVE  \E d \in 0 .. 10 : HasDigits(n, d)
  BY Powers, SMT DEF HasDigits

(* The digits of a number that 32 bits hold, the highest first.            *)
LEMMA ToStringIs ==
    ASSUME NEW n \in Nat, n < Ten(10)
    PROVE  /\ ToString(n) \in Seq(48 .. 57) /\ Len(ToString(n)) \in 1 .. 10
           /\ n = 0 => ToString(n) = <<48>>
           /\ n # 0 => /\ HasDigits(n, Len(ToString(n)))
                       /\ \A i \in 1 .. Len(ToString(n)) :
                              ToString(n)[i] = 48 + GetDigit(n, Len(ToString(n)) - i)
<1>1. PICK d \in 0 .. 10 : HasDigits(n, d)  BY DigitsExist
<1>2. GetDigitAmount(n) = d  BY <1>1, DigitAmountIs
<1>3. \A k \in 0 .. 10 : GetDigit(n, k) \in 0 .. 9  BY Powers, SMT DEF GetDigit, Ten
<1>4. CASE d = 0
  <2>1. ToString(n) = <<48>>  BY <1>2, <1>4 DEF ToString
  <2>2. n = 0  BY <1>1, <1>4, Powers, SMT DEF HasDigits
  <2>. QED  BY <2>1, <2>2
<1>5. CASE d # 0
  <2>1. ToString(n) = [i \in 1 .. d |-> 48 + GetDigit(n, d - i)]  BY <1>2, <1>5 DEF ToString
  <2>2. \A i \in 1 .. d : 48 + GetDigit(n, d - i) \in 48 .. 57  BY <1>3
  <2>3. n # 0
    <3>1. \A k \in 0 .. 10 : Ten(k) \in Nat /\ Ten(k) > 0  BY Powers, SMT
    <3>. QED  BY <1>1, <1>5, <3>1 DEF HasDigits
  <2>4. ToString(n) \in Seq(48 .. 57) /\ Len(ToString(n)) = d  BY <1>5, <2>1, <2>2
  <2>. QED  BY <1>1, <1>5, <2>1, <2>3, <2>4
<1>. QED  BY <1>4, <1>5

Digital == 48 .. 57

(* What ToInt makes of ten digits or less is the number that they are.     *)
LEMMA ToIntOfDigits ==
    ASSUME NEW s \in Seq(Digital), Len(s) <= 10
    PROVE  /\ ToInt(s) \in Nat /\ ToInt(s) < Ten(Len(s))
           /\ \A k \in 0 .. Len(s) - 1 : GetDigit(ToInt(s), k) = s[Len(s) - k] - 48
<1>. DEFINE N == Len(s)
<1>1. /\ N \in 0 .. 10 /\ s \in Seq(Int)
      /\ \A n \in 1 .. N : N - n + 1 \in 1 .. N /\ s[N - n + 1] \in Digital
      /\ \A d \in Digital : d - 48 \in 0 .. 9
  <2>1. N \in Nat /\ N <= 10  OBVIOUS
  <2>2. s \in Seq(Int)  BY DEF Digital
  <2>3. \A n \in 1 .. N : N - n + 1 \in 1 .. N /\ s[N - n + 1] \in Digital  OBVIOUS
  <2>4. \A d \in Digital : d - 48 \in 0 .. 9  BY DEF Digital
  <2>5. N \in 0 .. 10
    <3>1. \A n \in Nat : n <= 10 => n \in 0 .. 10  OBVIOUS
    <3>. QED  BY <2>1, <3>1, Zenon
  <2>. QED  BY <2>2, <2>3, <2>4, <2>5, Zenon
<1>0. N \in Nat /\ N <= 10 /\ N \in 0 .. N /\ 0 \in 0 .. N  BY <1>1
<1>2. PICK M \in [0 .. N -> Int], R \in [0 .. N -> Int] :
               /\ ToInt(s) = R[N]
               /\ M[0] = 1 /\ \A n \in 1 .. N : M[n] = 10 * M[n - 1]
               /\ R[0] = 0
               /\ \A n \in 1 .. N : R[n] = R[n - 1] + (s[N - n + 1] - 48) * M[n - 1]
  BY <1>1, ToIntIs, Zenon
<1>. HIDE DEF N
<1>3. \A k \in 0 .. N : M[k] = Ten(k)
  <2>. DEFINE Bad == {k \in Nat : k <= N /\ M[k] # Ten(k)}
  <2>1. ASSUME Bad # {}  PROVE FALSE
    <3>1. PICK m \in Bad : \A k \in Bad : m <= k  BY <2>1, LeastOf
    <3>2. m # 0  BY <1>2, <3>1, Powers
    <3>3. m - 1 \in Nat /\ m - 1 \notin Bad /\ m \in 1 .. N /\ m - 1 \in 0 .. 9 /\ (m - 1) + 1 = m
      BY <1>1, <3>1, <3>2
    <3>4. M[m - 1] = Ten(m - 1)  BY <1>1, <3>3
    <3>5. Ten(m) = 10 * Ten(m - 1)  BY <3>3, PowersGrow
    <3>. QED  BY <1>2, <3>1, <3>3, <3>4, <3>5
  <2>2. \A k \in 0 .. N : k \in Nat /\ k <= N  BY <1>0
  <2>3. \A k \in Nat : k <= N => M[k] = Ten(k)  BY <2>1, Zenon
  <2>. QED  BY <2>2, <2>3, Zenon
<1>4. \A k \in 0 .. N - 1 : R[k + 1] = R[k] + (s[N - k] - 48) * Ten(k)
  <2>. TAKE k \in 0 .. N - 1
  <2>1. k + 1 \in 1 .. N /\ (k + 1) - 1 = k /\ N - (k + 1) + 1 = N - k /\ k \in 0 .. N  BY <1>1
  <2>2. R[k + 1] = R[k] + (s[N - k] - 48) * M[k]  BY <1>2, <2>1, Zenon
  <2>. QED  BY <1>3, <2>1, <2>2, Zenon
<1>5. \A k \in 0 .. N - 1 : s[N - k] - 48 \in 0 .. 9
  <2>. TAKE k \in 0 .. N - 1
  <2>1. k + 1 \in 1 .. N /\ N - (k + 1) + 1 = N - k  BY <1>1
  <2>2. s[N - k] \in Digital  BY <1>1, <2>1, Zenon
  <2>. QED  BY <1>1, <2>2, Zenon
<1>6. \A k \in 0 .. N : R[k] \in Nat /\ R[k] < Ten(k)
  <2>. DEFINE Bad == {k \in Nat : k <= N /\ ~(R[k] \in Nat /\ R[k] < Ten(k))}
  <2>1. ASSUME Bad # {}  PROVE FALSE
    <3>1. PICK m \in Bad : \A k \in Bad : m <= k  BY <2>1, LeastOf
    <3>2. m # 0  BY <1>2, <3>1, Powers
    <3>3. m - 1 \in Nat /\ m - 1 \notin Bad /\ m - 1 \in 0 .. N - 1 /\ m - 1 \in 0 .. 9 /\ (m - 1) + 1 = m
      BY <1>1, <3>1, <3>2
    <3>4. R[m - 1] \in Nat /\ R[m - 1] < Ten(m - 1)  BY <1>1, <3>3
    <3>. DEFINE e == s[N - (m - 1)] - 48
    <3>5. R[m] = R[m - 1] + e * Ten(m - 1) /\ e \in 0 .. 9  BY <1>4, <1>5, <3>3, Zenon
    <3>. HIDE DEF e
    <3>6. R[m - 1] + e * Ten(m - 1) \in Nat /\ R[m - 1] + e * Ten(m - 1) < Ten((m - 1) + 1)
      BY <3>3, <3>4, <3>5, PutBefore
    <3>7. R[m] \in Nat /\ R[m] < Ten(m)  BY <3>3, <3>5, <3>6, Zenon
    <3>. QED  BY <3>1, <3>7
  <2>2. \A k \in 0 .. N : k \in Nat /\ k <= N  BY <1>0
  <2>3. \A k \in Nat : k <= N => R[k] \in Nat /\ R[k] < Ten(k)  BY <2>1, Zenon
  <2>. QED  BY <2>2, <2>3, Zenon
<1>7. \A k \in 0 .. N - 1 : R[k + 1] % Ten(k) = R[k] /\ R[k + 1] \div Ten(k) = s[N - k] - 48
  <2>. TAKE k \in 0 .. N - 1
  <2>1. k \in 0 .. 9 /\ k \in 0 .. N  BY <1>1
  <2>. DEFINE e == s[N - k] - 48
  <2>2. R[k + 1] = R[k] + e * Ten(k) /\ e \in 0 .. 9 /\ R[k] \in Nat /\ R[k] < Ten(k)
    BY <1>4, <1>5, <1>6, <2>1, Zenon
  <2>. HIDE DEF e
  <2>3. (R[k] + e * Ten(k)) % Ten(k) = R[k] /\ (R[k] + e * Ten(k)) \div Ten(k) = e
    BY <2>1, <2>2, PutBefore
  <2>4. R[k + 1] % Ten(k) = R[k] /\ R[k + 1] \div Ten(k) = e  BY <2>2, <2>3, Zenon
  <2>. QED  BY <2>4 DEF e
(* So R is what the last digits of the whole are.                          *)
<1>8. \A k \in 0 .. N : R[N] % Ten(k) = R[k]
  <2>. DEFINE Bad == {j \in Nat : j <= N /\ R[N] % Ten(N - j) # R[N - j]}
  <2>1. ASSUME Bad # {}  PROVE FALSE
    <3>1. PICK m \in Bad : \A k \in Bad : m <= k  BY <2>1, LeastOf
    <3>2. R[N] \in Nat /\ Ten(N) \in Nat /\ R[N] < Ten(N)
      <4>1. N \in 0 .. 10  BY <1>0
      <4>2. Ten(N) \in Nat  BY <4>1, PowersGrow, Zenon
      <4>. QED  BY <1>0, <1>6, <4>2, Zenon
    <3>3. m # 0
      <4>1. \A a, b \in Nat : a < b => a % b = a  OBVIOUS
      <4>2. N - 0 = N  BY <1>0
      <4>3. R[N] % Ten(N) = R[N]  BY <3>2, <4>1, Zenon
      <4>. QED  BY <3>1, <4>2, <4>3, Zenon
    <3>. DEFINE k == N - m
    <3>4. /\ k \in 0 .. N - 1 /\ k \in 0 .. 9 /\ m - 1 \in Nat /\ m - 1 \notin Bad /\ m - 1 <= N
          /\ N - (m - 1) = k + 1
      <4>1. m \in Nat /\ m <= N /\ \A j \in Bad : m <= j  BY <3>1
      <4>2. m - 1 \in Nat /\ ~(m <= m - 1)  BY <3>3, <4>1
      <4>3. m - 1 \notin Bad  BY <4>1, <4>2, Zenon
      <4>. HIDE DEF Bad
      <4>. QED  BY <1>0, <3>3, <4>1, <4>2, <4>3
    <3>5. R[N] % Ten(k + 1) = R[k + 1]  BY <3>4
    <3>6. R[k + 1] % Ten(k) = R[k]  BY <1>7, <3>4, Zenon
    <3>7. (R[N] % Ten(k + 1)) % Ten(k) = R[N] % Ten(k)
      <4>. DEFINE r == R[N] % Ten(k)
                  e == GetDigit(R[N], k)
      <4>1. r \in Nat /\ r < Ten(k) /\ e \in 0 .. 9 /\ R[N] % Ten(k + 1) = r + e * Ten(k)
        BY <3>2, <3>4, TakeOff, Zenon
      <4>. HIDE DEF r, e
      <4>2. (r + e * Ten(k)) % Ten(k) = r  BY <3>4, <4>1, PutBefore, Zenon
      <4>. QED  BY <4>1, <4>2, Zenon DEF r
    <3>8. R[N] % Ten(k) = R[k]  BY <3>5, <3>6, <3>7, Zenon
    <3>. QED  BY <3>1, <3>8, Zenon
  <2>2. ASSUME NEW k \in 0 .. N  PROVE R[N] % Ten(k) = R[k]
    <3>1. N - k \in Nat /\ N - k <= N /\ N - (N - k) = k /\ N - k \notin Bad
      <4>1. N - k \in Nat /\ N - k <= N /\ N - (N - k) = k  BY <1>0
      <4>. QED  BY <2>1, <4>1, Zenon
    <3>. QED  BY <3>1, Zenon
  <2>. QED  BY <2>2
<1>9. \A k \in 0 .. N - 1 : GetDigit(R[N], k) = s[N - k] - 48
  <2>. TAKE k \in 0 .. N - 1
  <2>1. /\ k \in 0 .. 9 /\ k \in 0 .. N /\ k + 1 \in 0 .. N /\ N \in 0 .. N
    BY <1>1
  <2>2. R[N] \in Nat /\ R[N] % Ten(k) = R[k] /\ R[N] % Ten(k + 1) = R[k + 1]  BY <1>6, <1>8, <2>1, Zenon
  <2>. DEFINE e == GetDigit(R[N], k)
  <2>3. e \in 0 .. 9 /\ R[k + 1] = R[k] + e * Ten(k) /\ R[k] \in Nat /\ R[k] < Ten(k)
    <3>1. /\ e \in 0 .. 9 /\ R[N] % Ten(k + 1) = (R[N] % Ten(k)) + e * Ten(k)
          /\ R[N] % Ten(k) \in Nat /\ R[N] % Ten(k) < Ten(k)
      BY <2>1, <2>2, TakeOff
    <3>. QED  BY <2>2, <3>1, Zenon
  <2>. HIDE DEF e
  <2>6. (R[k] + e * Ten(k)) \div Ten(k) = e  BY <2>1, <2>3, PutBefore
  <2>4. R[k + 1] \div Ten(k) = e  BY <2>3, <2>6, Zenon
  <2>5. e = s[N - k] - 48  BY <1>7, <2>4, Zenon
  <2>. QED  BY <2>5 DEF e
<1>10. N \in 0 .. N  BY <1>1
<1>. QED  BY <1>2, <1>6, <1>9, <1>10, Zenon DEF N

(* Two numbers with the same digits are the same.                          *)
LEMMA SameDigits ==
    ASSUME NEW d \in 0 .. 10, NEW x \in Nat, NEW y \in Nat, x < Ten(d), y < Ten(d),
           \A k \in 0 .. d - 1 : GetDigit(x, k) = GetDigit(y, k)
    PROVE  x = y
<1>. DEFINE Bad == {k \in Nat : k <= d /\ x % Ten(k) # y % Ten(k)}
<1>1. ASSUME Bad # {}  PROVE FALSE
  <2>1. PICK m \in Bad : \A k \in Bad : m <= k  BY <1>1, LeastOf
  <2>2. m # 0
    <3>1. x % 1 = 0 /\ y % 1 = 0  OBVIOUS
    <3>. QED  BY <2>1, <3>1, Powers
  <2>3. m - 1 \in Nat /\ m - 1 \notin Bad /\ m - 1 \in 0 .. d - 1 /\ m - 1 \in 0 .. 9 /\ (m - 1) + 1 = m
    BY <2>1, <2>2
  <2>4. x % Ten(m - 1) = y % Ten(m - 1) /\ GetDigit(x, m - 1) = GetDigit(y, m - 1)  BY <2>1, <2>3
  <2>5. /\ x % Ten(m) = (x % Ten(m - 1)) + GetDigit(x, m - 1) * Ten(m - 1)
        /\ y % Ten(m) = (y % Ten(m - 1)) + GetDigit(y, m - 1) * Ten(m - 1)
    BY <2>3, TakeOff, Zenon
  <2>. QED  BY <2>1, <2>4, <2>5, Zenon
<1>2. x % Ten(d) = y % Ten(d)  BY <1>1
<1>3. Ten(d) \in Nat  BY PowersGrow
<1>. QED  BY <1>2, <1>3

(* ToInt takes back what ToString made of a number.                        *)
LEMMA ToIntOfString ==
    ASSUME NEW n \in Nat, n < Ten(10)
    PROVE  ToInt(ToString(n)) = n
<1>. DEFINE s == ToString(n)
            x == ToInt(s)
<1>1. s \in Seq(Digital) /\ Len(s) \in 1 .. 10  BY ToStringIs DEF Digital
<1>2. /\ n = 0 => s = <<48>>
      /\ n # 0 => HasDigits(n, Len(s)) /\ \A i \in 1 .. Len(s) : s[i] = 48 + GetDigit(n, Len(s) - i)
  BY ToStringIs
<1>. HIDE DEF s
<1>3. /\ x \in Nat /\ x < Ten(Len(s)) /\ \A k \in 0 .. Len(s) - 1 : GetDigit(x, k) = s[Len(s) - k] - 48
  <2>1. \A m \in 1 .. 10 : m <= 10  OBVIOUS
  <2>. QED  BY <1>1, <2>1, ToIntOfDigits, Zenon
<1>. HIDE DEF x
<1>4. CASE n = 0
  <2>1. s = <<48>> /\ Len(s) = 1 /\ s[1] = 48  BY <1>2, <1>4
  <2>2. GetDigit(x, 0) = 0 /\ x < 10  BY <1>3, <2>1, Powers
  <2>3. Ten(0) = 1 /\ Ten(1) = 10 /\ x % Ten(0 + 1) = (x % Ten(0)) + GetDigit(x, 0) * Ten(0)
    BY <1>3, Powers, TakeOff
  <2>4. x % 10 = x % 1
    <3>1. x % 1 \in Nat  BY <1>3
    <3>. QED  BY <2>2, <2>3, <3>1
  <2>5. x = 0
    <3>1. x \in Nat  BY <1>3
    <3>. QED  BY <2>2, <2>4, <3>1
  <2>. QED  BY <1>4, <2>5, Zenon DEF s, x
<1>5. CASE n # 0
  <2>1. n < Ten(Len(s))  BY <1>2, <1>5 DEF HasDigits
  <2>2. ASSUME NEW k \in 0 .. Len(s) - 1  PROVE GetDigit(n, k) = GetDigit(x, k)
    <3>1. Len(s) - k \in 1 .. Len(s) /\ Len(s) - (Len(s) - k) = k /\ k \in 0 .. 9
      <4>1. PICK d \in 1 .. 10 : d = Len(s)  BY <1>1, Zenon
      <4>2. ASSUME NEW j \in 0 .. d - 1  PROVE d - j \in 1 .. d /\ d - (d - j) = j /\ j \in 0 .. 9
        OBVIOUS
      <4>. QED  BY <4>1, <4>2, Zenon
    <3>2. GetDigit(x, k) = s[Len(s) - k] - 48 /\ s[Len(s) - k] = 48 + GetDigit(n, k)
      BY <1>2, <1>3, <1>5, <3>1, Zenon
    <3>3. GetDigit(n, k) \in 0 .. 9  BY <3>1, TakeOff
    <3>. QED  BY <3>2, <3>3
  <2>3. Len(s) \in 0 .. 10  BY <1>1
  <2>4. n = x  BY <1>3, <2>1, <2>2, <2>3, SameDigits, Zenon
  <2>. QED  BY <2>4, Zenon DEF s, x
<1>. QED  BY <1>4, <1>5, Zenon DEF s, x

LEMMA Below ==
    /\ \A n \in 0 .. 10 : 10 \in 0 .. 10 /\ n <= 10 /\ 0 <= n
    /\ \A n \in 0 .. 10, d \in 1 .. 10 :
           /\ d - 1 \in 0 .. 10 /\ (n < d => n <= d - 1)
           /\ d <= n => \A j \in 1 .. (n - d + 1) - 1 :
                 j \in 1 .. n /\ n - j \in 0 .. 9 /\ n - j \in 0 .. 10 /\ d \in 0 .. 10 /\ d <= n - j
<1>1. \A n \in 0 .. 10 : 10 \in 0 .. 10 /\ n <= 10 /\ 0 <= n  OBVIOUS
<1>2. ASSUME NEW n \in 0 .. 10, NEW d \in 1 .. 10  PROVE d - 1 \in 0 .. 10 /\ (n < d => n <= d - 1)
  OBVIOUS
<1>3. ASSUME NEW n \in 0 .. 10, NEW d \in 1 .. 10, d <= n, NEW j \in 1 .. (n - d + 1) - 1
      PROVE  j \in 1 .. n /\ n - j \in 0 .. 9 /\ n - j \in 0 .. 10 /\ d \in 0 .. 10 /\ d <= n - j
  <2>1. j \in Nat /\ n \in Nat /\ d \in Nat /\ j >= 1 /\ j <= n - d /\ d >= 1 /\ n <= 10 /\ d <= 10
    OBVIOUS
  <2>. QED  BY <2>1
<1>. QED  BY <1>1, <1>2, <1>3

LEMMA SubSeqIs ==
    ASSUME NEW S, NEW s, NEW m \in Int, NEW n \in Int, m <= n, \A i \in m .. n : s[i] \in S
    PROVE  /\ SubSeq(s, m, n) \in Seq(S) /\ Len(SubSeq(s, m, n)) = n - m + 1
           /\ \A i \in 1 .. n - m + 1 : SubSeq(s, m, n)[i] = s[m + i - 1]
  BY SubSeqProperties

LEMMA DigitsFrom ==
    \A s : \A m, n \in Int : m <= n /\ (\A i \in m .. n : s[i] \in Digital) =>
        /\ SubSeq(s, m, n) \in Seq(Digital) /\ Len(SubSeq(s, m, n)) = n - m + 1
        /\ \A i \in 1 .. n - m + 1 : SubSeq(s, m, n)[i] = s[m + i - 1]
<1>1. ASSUME NEW s, NEW m \in Int, NEW n \in Int, m <= n, \A i \in m .. n : s[i] \in Digital
      PROVE  /\ SubSeq(s, m, n) \in Seq(Digital) /\ Len(SubSeq(s, m, n)) = n - m + 1
             /\ \A i \in 1 .. n - m + 1 : SubSeq(s, m, n)[i] = s[m + i - 1]
  BY <1>1, SubSeqIs
<1>. QED  BY <1>1

(* A text that ToInt takes for a number is this number with zeroes in      *)
(* front, if it is made of digits.                                         *)
LEMMA NumberTyped ==
    ASSUME NEW s \in Seq(Digital), Len(s) <= 10, NEW id \in Nat, id # 0, ToInt(s) = id
    PROVE  IsNumber(s, id)
<1>1. PICK N \in 0 .. 10 : N = Len(s)
  <2>1. \A n \in Nat : n <= 10 => n \in 0 .. 10  OBVIOUS
  <2>2. Len(s) \in Nat  OBVIOUS
  <2>. QED  BY <2>1, <2>2, Zenon
<1>2. id < Ten(N) /\ \A k \in 0 .. N - 1 : GetDigit(id, k) = s[N - k] - 48
  BY <1>1, ToIntOfDigits, Zenon
<1>3. id < Ten(10)
  <2>1. N \in 0 .. 10 /\ 10 \in 0 .. 10 /\ N <= 10  BY <1>1, Below, Zenon
  <2>2. Ten(N) <= Ten(10) /\ Ten(N) \in Nat /\ Ten(10) \in Nat  BY <2>1, PowersGrow, Zenon
  <2>. QED  BY <1>2, <2>2
<1>. DEFINE t == ToString(id)
<1>4. t \in Seq(Digital) /\ Len(t) \in 1 .. 10  BY <1>3, ToStringIs DEF Digital
<1>5. HasDigits(id, Len(t)) /\ \A i \in 1 .. Len(t) : t[i] = 48 + GetDigit(id, Len(t) - i)
  BY <1>3, ToStringIs, Zenon
<1>. HIDE DEF t
<1>6. PICK d \in 1 .. 10 : d = Len(t)  BY <1>4, Zenon
<1>7. d <= N
  <2>1. id >= Ten(d - 1)  BY <1>5, <1>6 DEF HasDigits
  <2>2. ASSUME N < d  PROVE FALSE
    <3>1. N \in 0 .. 10 /\ d - 1 \in 0 .. 10 /\ N <= d - 1  BY <1>1, <1>6, <2>2, Below, Zenon
    <3>2. Ten(N) <= Ten(d - 1) /\ Ten(N) \in Nat /\ Ten(d - 1) \in Nat  BY <3>1, PowersGrow, Zenon
    <3>. QED  BY <1>2, <2>1, <3>2
  <2>. QED  BY <2>2
<1>8. \A i \in 1 .. N : s[i] \in Digital /\ s[i] - 48 = GetDigit(id, N - i)
  <2>. TAKE i \in 1 .. N
  <2>1. N - i \in 0 .. N - 1 /\ N - (N - i) = i  BY <1>1
  <2>2. s[i] \in Digital
    <3>1. i \in 1 .. Len(s)  BY <1>1, Zenon
    <3>. QED  BY <3>1, ElementOfSeq, Zenon
  <2>. QED  BY <1>2, <2>1, <2>2, Zenon
<1>9. PICK b \in Int : b = N - d + 1 /\ b \in 1 .. N /\ N \in Int /\ N - b + 1 = d /\ b <= N
  <2>1. LET b == N - d + 1 IN
        b \in Int /\ b \in 1 .. N /\ N \in Int /\ N - b + 1 = d /\ b <= N
    BY <1>1, <1>6, <1>7
  <2>. QED  BY <2>1, Zenon
<1>. DEFINE u == SubSeq(s, b, N)
<1>10. u = t
  <2>1. \A i \in b .. N : s[i] \in Digital  BY <1>8, <1>9
  <2>2. /\ u \in Seq(Digital) /\ Len(u) = d /\ \A i \in 1 .. d : u[i] = s[b + i - 1]
    <3>1. /\ u \in Seq(Digital) /\ Len(u) = N - b + 1
          /\ \A i \in 1 .. N - b + 1 : u[i] = s[b + i - 1]
      BY <1>9, <2>1, DigitsFrom
    <3>. QED  BY <1>9, <3>1, Zenon
  <2>. HIDE DEF u
  <2>3. \A i \in 1 .. d : u[i] = t[i]
    <3>. TAKE i \in 1 .. d
    <3>1. b + i - 1 \in 1 .. N /\ N - (b + i - 1) = d - i  BY <1>1, <1>6, <1>7, <1>9
    <3>2. s[b + i - 1] \in Digital /\ s[b + i - 1] - 48 = GetDigit(id, d - i)  BY <1>8, <3>1, Zenon
    <3>3. t[i] = 48 + GetDigit(id, d - i)  BY <1>5, <1>6, Zenon
    <3>4. \A c \in Digital : c = 48 + (c - 48)  BY DEF Digital
    <3>. QED  BY <2>2, <3>2, <3>3, <3>4, Zenon
  <2>. QED  BY <1>4, <1>6, <2>2, <2>3, SeqEqual, Zenon
<1>11. \A j \in 1 .. b - 1 : s[j] = 48
  <2>. TAKE j \in 1 .. b - 1
  <2>1. j \in 1 .. N /\ N - j \in 0 .. 9 /\ N - j \in 0 .. 10 /\ d \in 0 .. 10 /\ d <= N - j
    BY <1>1, <1>6, <1>7, <1>9, Below, Zenon
  <2>2. id < Ten(d)  BY <1>5, <1>6 DEF HasDigits
  <2>3. Ten(d) <= Ten(N - j) /\ Ten(d) \in Nat /\ Ten(N - j) \in Nat  BY <2>1, PowersGrow, Zenon
  <2>4. id < Ten(N - j)  BY <2>2, <2>3
  <2>5. GetDigit(id, N - j) = 0  BY <2>1, <2>4, TakeOff, Zenon
  <2>6. s[j] \in Digital /\ s[j] - 48 = 0  BY <1>8, <2>1, <2>5, Zenon
  <2>. QED  BY <2>6 DEF Digital
<1>12. b \in 1 .. Len(s) /\ SubSeq(s, b, Len(s)) = ToString(id)  BY <1>1, <1>9, <1>10, Zenon DEF t
<1>. QED  BY <1>11, <1>12, Zenon DEF IsNumber

-----------------------------------------------------------------------------
(* Words                                                                   *)

Ascii == 1 .. 127
Letters == 97 .. 122

LEMMA WordEndIs ==
    ASSUME NEW s \in Seq(Ascii), NEW e \in 2 .. Len(s) + 2, EndsWord(s, e),
           \A j \in 2 .. e - 1 : ~EndsWord(s, j)
    PROVE  WordEnd(s) = e
<1>1. ASSUME NEW i \in 2 .. Len(s) + 2, EndsWord(s, i), \A j \in 2 .. i - 1 : ~EndsWord(s, j)
      PROVE  i = e
  <2>1. ~(i < e)
    <3>1. i < e => i \in 2 .. e - 1  BY <1>1
    <3>. QED  BY <1>1, <3>1, Zenon
  <2>2. ~(e < i)
    <3>1. e < i => e \in 2 .. i - 1  BY <1>1
    <3>. QED  BY <1>1, <3>1, Zenon
  <2>. QED  BY <2>1, <2>2
<1>. QED  BY <1>1, Zenon DEF WordEnd

LEMMA WordEnds ==
    ASSUME NEW s \in Seq(Ascii)
    PROVE  WordEnd(s) \in 2 .. Len(s) + 2
<1>. DEFINE S == {i \in 2 .. Len(s) + 2 : EndsWord(s, i)}
<1>1. Len(s) + 2 \in S  BY DEF EndsWord
<1>2. PICK e \in S : \A i \in S : e <= i
  <2>1. S \in SUBSET Nat /\ S # {}  BY <1>1
  <2>. HIDE DEF S
  <2>. QED  BY <2>1, LeastOf
<1>3. \A j \in 2 .. e - 1 : ~EndsWord(s, j)
  <2>1. \A j \in 2 .. e - 1 : j \in 2 .. Len(s) + 2 /\ ~(e <= j)  BY <1>2
  <2>. QED  BY <1>2, <2>1, Zenon
<1>4. WordEnd(s) = e  BY <1>2, <1>3, WordEndIs, Zenon
<1>. QED  BY <1>2, <1>4, Zenon

(* s is the word w, or begins with it and a space.                         *)
Begins(s, w) == /\ Len(w) <= Len(s) /\ \A i \in 1 .. Len(w) : s[i] = w[i]
                /\ Len(w) < Len(s) => s[Len(w) + 1] = Space

LEMMA WordIs ==
    ASSUME NEW w \in Seq(Letters), Len(w) >= 1, NEW s \in Seq(Ascii), Begins(s, w)
    PROVE  /\ FirstWord(s) = w
           /\ Len(w) = Len(s) => NextWord(s) = SubSeq(s, Len(s), Len(s))
           /\ Len(w) < Len(s) => NextWord(s) = SubSeq(s, Len(w) + 2, Len(s))
<1>1. PICK a \in Nat : a = Len(w)  OBVIOUS
<1>2. PICK n \in Nat : n = Len(s)  OBVIOUS
<1>3. a >= 1 /\ a <= n /\ \A i \in 1 .. a : s[i] = w[i] /\ w[i] \in Letters
  <2>1. \A i \in 1 .. a : w[i] \in Letters  BY <1>1, ElementOfSeq, Zenon
  <2>. QED  BY <1>1, <1>2, <2>1 DEF Begins
<1>4. a < n => s[a + 1] = Space  BY <1>1, <1>2 DEF Begins
<1>5. WordEnd(s) = a + 1
  <2>1. a + 1 \in 2 .. n + 2  BY <1>1, <1>2, <1>3
  <2>2. EndsWord(s, a + 1)  BY <1>1, <1>2, <1>3, <1>4 DEF EndsWord
  <2>3. \A j \in 2 .. (a + 1) - 1 : ~EndsWord(s, j)
    <3>. TAKE j \in 2 .. (a + 1) - 1
    <3>1. j \in 1 .. a /\ ~(j > n)  BY <1>1, <1>2, <1>3
    <3>2. s[j] \in Letters  BY <1>3, <3>1, Zenon
    <3>3. \A c \in Letters : c # Space  BY DEF Letters, Space
    <3>. QED  BY <1>2, <3>1, <3>2, <3>3, Zenon DEF EndsWord
  <2>. QED  BY <1>2, <2>1, <2>2, <2>3, WordEndIs, Zenon
<1>6. FirstWord(s) = w
  <2>. DEFINE u == SubSeq(s, 1, a)
  <2>1. \A i \in 1 .. a : s[i] \in Letters  BY <1>3, Zenon
  <2>2. 1 \in Int /\ a \in Int /\ 1 <= a /\ a - 1 + 1 = a  BY <1>1, <1>3
  <2>3. u \in Seq(Letters) /\ Len(u) = a /\ \A i \in 1 .. a : u[i] = s[1 + i - 1]
    <3>1. /\ u \in Seq(Letters) /\ Len(u) = (IF 1 <= a THEN a - 1 + 1 ELSE 0)
          /\ \A i \in 1 .. a - 1 + 1 : u[i] = s[1 + i - 1]
      BY <2>1, <2>2, SubSeqProperties
    <3>. QED  BY <2>2, <3>1, Zenon
  <2>. HIDE DEF u
  <2>4. \A i \in 1 .. a : u[i] = w[i]
    <3>1. \A i \in 1 .. a : 1 + i - 1 = i  OBVIOUS
    <3>. QED  BY <1>3, <2>3, <3>1, Zenon
  <2>5. u = w  BY <1>1, <2>3, <2>4, SeqEqual, Zenon
  <2>6. (a + 1) - 1 = a  OBVIOUS
  <2>. QED  BY <1>5, <2>5, <2>6, Zenon DEF FirstWord, u
<1>7. a = n => NextWord(s) = SubSeq(s, n, n)
  <2>1. a = n => a + 1 > n  OBVIOUS
  <2>. QED  BY <1>2, <1>5, <2>1, Zenon DEF NextWord
<1>8. a < n => NextWord(s) = SubSeq(s, a + 2, n)
  <2>1. a < n => ~(a + 1 > n)  OBVIOUS
  <2>2. (a + 1) + 1 = a + 2  OBVIOUS
  <2>. QED  BY <1>2, <1>5, <2>1, <2>2, Zenon DEF NextWord
<1>. QED  BY <1>1, <1>2, <1>6, <1>7, <1>8, Zenon

(* What is left of a text is text, unless it was empty.                    *)
LEMMA NextWordText ==
    ASSUME NEW s \in Seq(Ascii), s # <<>>
    PROVE  NextWord(s) \in Seq(Ascii)
<1>1. PICK n \in Nat \ {0} : n = Len(s)  BY EmptySeq, Zenon
<1>2. \A i \in 1 .. n : s[i] \in Ascii  BY <1>1, ElementOfSeq, Zenon
<1>3. PICK e \in 2 .. n + 2 : e = WordEnd(s)  BY <1>1, WordEnds, Zenon
<1>4. CASE e > n
  <2>1. \A i \in n .. n : s[i] \in Ascii  BY <1>1, <1>2
  <2>2. SubSeq(s, n, n) \in Seq(Ascii)  BY <1>1, <2>1, SubSeqProperties
  <2>. QED  BY <1>1, <1>3, <1>4, <2>2, Zenon DEF NextWord
<1>5. CASE ~(e > n)
  <2>1. \A i \in e + 1 .. n : s[i] \in Ascii  BY <1>1, <1>2, <1>3
  <2>2. SubSeq(s, e + 1, n) \in Seq(Ascii)  BY <1>1, <1>3, <2>1, SubSeqProperties
  <2>. QED  BY <1>1, <1>3, <1>5, <2>2, Zenon DEF NextWord
<1>. QED  BY <1>4, <1>5

(* A name of a table: so short that each of its characters counts in the   *)
(* hash, and so long that the first three tell it from the others.         *)
IsName(w) == w \in Seq(Letters) /\ Len(w) \in 3 .. 12

Nibbles(w, a, b, c) == w[1] % 16 = a /\ w[2] % 16 = b /\ w[3] % 16 = c

HashOf(w) == [i \in 1 .. 16 |-> IF i <= Len(w) THEN w[i] % 16 ELSE 0]

LEMMA HashIs == \A s : HashWord(s) = HashOf(FirstWord(s))
  BY Zenon DEF HashWord, HashOf

LEMMA HashTells ==
    ASSUME NEW w, IsName(w), NEW a, NEW b, NEW c, Nibbles(w, a, b, c)
    PROVE  HashOf(w)[1] = a /\ HashOf(w)[2] = b /\ HashOf(w)[3] = c
<1>1. \A n \in 3 .. 12 : 1 <= n /\ 2 <= n /\ 3 <= n  OBVIOUS
<1>2. 1 <= Len(w) /\ 2 <= Len(w) /\ 3 <= Len(w)  BY <1>1, Zenon DEF IsName
<1>3. 1 \in 1 .. 16 /\ 2 \in 1 .. 16 /\ 3 \in 1 .. 16  OBVIOUS
<1>4. \A i \in 1 .. 16 : i <= Len(w) => HashOf(w)[i] = w[i] % 16  BY Zenon DEF HashOf
<1>. QED  BY <1>2, <1>3, <1>4, Zenon DEF Nibbles

(* A name is its own first word.                                           *)
LEMMA NameIsWord ==
    ASSUME NEW w, IsName(w)
    PROVE  /\ w \in Seq(Letters) /\ Len(w) >= 1 /\ w # <<>> /\ w \in Seq(Ascii)
           /\ FirstWord(w) = w /\ HashWord(w) = HashOf(w)
<1>1. w \in Seq(Letters) /\ Len(w) >= 1 /\ w \in Seq(Ascii) /\ w # <<>>
  BY DEF IsName, Letters, Ascii
<1>2. Begins(w, w)  BY <1>1 DEF Begins
<1>3. FirstWord(w) = w  BY <1>1, <1>2, WordIs, Zenon
<1>. QED  BY <1>1, <1>3, HashIs, Zenon

LEMMA CommandsAre ==
    /\ DOMAIN Commands = {"set", "list", "help", "time", "date", "kill", "clear", "start",
           "restart", "shutdown", "suicide", "heapvis", "sysfetch"}
    /\ \A n \in DOMAIN Commands : IsName(Commands[n])
    /\ \A n, m \in DOMAIN Commands : HashOf(Commands[n]) = HashOf(Commands[m]) => n = m
<1>0. DOMAIN Commands = {"set", "list", "help", "time", "date", "kill", "clear", "start",
      "restart", "shutdown", "suicide", "heapvis", "sysfetch"}  BY DEF Commands
<1>1. IsName(Commands["set"]) /\ Nibbles(Commands["set"], 3, 5, 4)
  <2>. SUFFICES ASSUME NEW w, w = Commands["set"]
              PROVE  IsName(w) /\ Nibbles(w, 3, 5, 4)
    BY Zenon
  <2>1. w = <<115, 101, 116>>  BY DEF Commands
  <2>2. /\ w \in Seq(97 .. 122) /\ Len(w) = 3
        /\ w[1] = 115 /\ w[2] = 101 /\ w[3] = 116
    BY <2>1
  <2>3. IsName(w)  BY <2>2 DEF IsName, Letters
  <2>4. Nibbles(w, 3, 5, 4)  BY <2>2 DEF Nibbles
  <2>. QED  BY <2>3, <2>4, Zenon
<1>2. IsName(Commands["list"]) /\ Nibbles(Commands["list"], 12, 9, 3)
  <2>. SUFFICES ASSUME NEW w, w = Commands["list"]
              PROVE  IsName(w) /\ Nibbles(w, 12, 9, 3)
    BY Zenon
  <2>1. w = <<108, 105, 115, 116>>  BY DEF Commands
  <2>2. /\ w \in Seq(97 .. 122) /\ Len(w) = 4
        /\ w[1] = 108 /\ w[2] = 105 /\ w[3] = 115
    BY <2>1
  <2>3. IsName(w)  BY <2>2 DEF IsName, Letters
  <2>4. Nibbles(w, 12, 9, 3)  BY <2>2 DEF Nibbles
  <2>. QED  BY <2>3, <2>4, Zenon
<1>3. IsName(Commands["help"]) /\ Nibbles(Commands["help"], 8, 5, 12)
  <2>. SUFFICES ASSUME NEW w, w = Commands["help"]
              PROVE  IsName(w) /\ Nibbles(w, 8, 5, 12)
    BY Zenon
  <2>1. w = <<104, 101, 108, 112>>  BY DEF Commands
  <2>2. /\ w \in Seq(97 .. 122) /\ Len(w) = 4
        /\ w[1] = 104 /\ w[2] = 101 /\ w[3] = 108
    BY <2>1
  <2>3. IsName(w)  BY <2>2 DEF IsName, Letters
  <2>4. Nibbles(w, 8, 5, 12)  BY <2>2 DEF Nibbles
  <2>. QED  BY <2>3, <2>4, Zenon
<1>4. IsName(Commands["time"]) /\ Nibbles(Commands["time"], 4, 9, 13)
  <2>. SUFFICES ASSUME NEW w, w = Commands["time"]
              PROVE  IsName(w) /\ Nibbles(w, 4, 9, 13)
    BY Zenon
  <2>1. w = <<116, 105, 109, 101>>  BY DEF Commands
  <2>2. /\ w \in Seq(97 .. 122) /\ Len(w) = 4
        /\ w[1] = 116 /\ w[2] = 105 /\ w[3] = 109
    BY <2>1
  <2>3. IsName(w)  BY <2>2 DEF IsName, Letters
  <2>4. Nibbles(w, 4, 9, 13)  BY <2>2 DEF Nibbles
  <2>. QED  BY <2>3, <2>4, Zenon
<1>5. IsName(Commands["date"]) /\ Nibbles(Commands["date"], 4, 1, 4)
  <2>. SUFFICES ASSUME NEW w, w = Commands["date"]
              PROVE  IsName(w) /\ Nibbles(w, 4, 1, 4)
    BY Zenon
  <2>1. w = <<100, 97, 116, 101>>  BY DEF Commands
  <2>2. /\ w \in Seq(97 .. 122) /\ Len(w) = 4
        /\ w[1] = 100 /\ w[2] = 97 /\ w[3] = 116
    BY <2>1
  <2>3. IsName(w)  BY <2>2 DEF IsName, Letters
  <2>4. Nibbles(w, 4, 1, 4)  BY <2>2 DEF Nibbles
  <2>. QED  BY <2>3, <2>4, Zenon
<1>6. IsName(Commands["kill"]) /\ Nibbles(Commands["kill"], 11, 9, 12)
  <2>. SUFFICES ASSUME NEW w, w = Commands["kill"]
              PROVE  IsName(w) /\ Nibbles(w, 11, 9, 12)
    BY Zenon
  <2>1. w = <<107, 105, 108, 108>>  BY DEF Commands
  <2>2. /\ w \in Seq(97 .. 122) /\ Len(w) = 4
        /\ w[1] = 107 /\ w[2] = 105 /\ w[3] = 108
    BY <2>1
  <2>3. IsName(w)  BY <2>2 DEF IsName, Letters
  <2>4. Nibbles(w, 11, 9, 12)  BY <2>2 DEF Nibbles
  <2>. QED  BY <2>3, <2>4, Zenon
<1>7. IsName(Commands["clear"]) /\ Nibbles(Commands["clear"], 3, 12, 5)
  <2>. SUFFICES ASSUME NEW w, w = Commands["clear"]
              PROVE  IsName(w) /\ Nibbles(w, 3, 12, 5)
    BY Zenon
  <2>1. w = <<99, 108, 101, 97, 114>>  BY DEF Commands
  <2>2. /\ w \in Seq(97 .. 122) /\ Len(w) = 5
        /\ w[1] = 99 /\ w[2] = 108 /\ w[3] = 101
    BY <2>1
  <2>3. IsName(w)  BY <2>2 DEF IsName, Letters
  <2>4. Nibbles(w, 3, 12, 5)  BY <2>2 DEF Nibbles
  <2>. QED  BY <2>3, <2>4, Zenon
<1>8. IsName(Commands["start"]) /\ Nibbles(Commands["start"], 3, 4, 1)
  <2>. SUFFICES ASSUME NEW w, w = Commands["start"]
              PROVE  IsName(w) /\ Nibbles(w, 3, 4, 1)
    BY Zenon
  <2>1. w = <<115, 116, 97, 114, 116>>  BY DEF Commands
  <2>2. /\ w \in Seq(97 .. 122) /\ Len(w) = 5
        /\ w[1] = 115 /\ w[2] = 116 /\ w[3] = 97
    BY <2>1
  <2>3. IsName(w)  BY <2>2 DEF IsName, Letters
  <2>4. Nibbles(w, 3, 4, 1)  BY <2>2 DEF Nibbles
  <2>. QED  BY <2>3, <2>4, Zenon
<1>9. IsName(Commands["restart"]) /\ Nibbles(Commands["restart"], 2, 5, 3)
  <2>. SUFFICES ASSUME NEW w, w = Commands["restart"]
              PROVE  IsName(w) /\ Nibbles(w, 2, 5, 3)
    BY Zenon
  <2>1. w = <<114, 101, 115, 116, 97, 114, 116>>  BY DEF Commands
  <2>2. /\ w \in Seq(97 .. 122) /\ Len(w) = 7
        /\ w[1] = 114 /\ w[2] = 101 /\ w[3] = 115
    BY <2>1
  <2>3. IsName(w)  BY <2>2 DEF IsName, Letters
  <2>4. Nibbles(w, 2, 5, 3)  BY <2>2 DEF Nibbles
  <2>. QED  BY <2>3, <2>4, Zenon
<1>10. IsName(Commands["shutdown"]) /\ Nibbles(Commands["shutdown"], 3, 8, 5)
  <2>. SUFFICES ASSUME NEW w, w = Commands["shutdown"]
              PROVE  IsName(w) /\ Nibbles(w, 3, 8, 5)
    BY Zenon
  <2>1. w = <<115, 104, 117, 116, 100, 111, 119, 110>>  BY DEF Commands
  <2>2. /\ w \in Seq(97 .. 122) /\ Len(w) = 8
        /\ w[1] = 115 /\ w[2] = 104 /\ w[3] = 117
    BY <2>1
  <2>3. IsName(w)  BY <2>2 DEF IsName, Letters
  <2>4. Nibbles(w, 3, 8, 5)  BY <2>2 DEF Nibbles
  <2>. QED  BY <2>3, <2>4, Zenon
<1>11. IsName(Commands["suicide"]) /\ Nibbles(Commands["suicide"], 3, 5, 9)
  <2>. SUFFICES ASSUME NEW w, w = Commands["suicide"]
              PROVE  IsName(w) /\ Nibbles(w, 3, 5, 9)
    BY Zenon
  <2>1. w = <<115, 117, 105, 99, 105, 100, 101>>  BY DEF Commands
  <2>2. /\ w \in Seq(97 .. 122) /\ Len(w) = 7
        /\ w[1] = 115 /\ w[2] = 117 /\ w[3] = 105
    BY <2>1
  <2>3. IsName(w)  BY <2>2 DEF IsName, Letters
  <2>4. Nibbles(w, 3, 5, 9)  BY <2>2 DEF Nibbles
  <2>. QED  BY <2>3, <2>4, Zenon
<1>12. IsName(Commands["heapvis"]) /\ Nibbles(Commands["heapvis"], 8, 5, 1)
  <2>. SUFFICES ASSUME NEW w, w = Commands["heapvis"]
              PROVE  IsName(w) /\ Nibbles(w, 8, 5, 1)
    BY Zenon
  <2>1. w = <<104, 101, 97, 112, 118, 105, 115>>  BY DEF Commands
  <2>2. /\ w \in Seq(97 .. 122) /\ Len(w) = 7
        /\ w[1] = 104 /\ w[2] = 101 /\ w[3] = 97
    BY <2>1
  <2>3. IsName(w)  BY <2>2 DEF IsName, Letters
  <2>4. Nibbles(w, 8, 5, 1)  BY <2>2 DEF Nibbles
  <2>. QED  BY <2>3, <2>4, Zenon
<1>13. IsName(Commands["sysfetch"]) /\ Nibbles(Commands["sysfetch"], 3, 9, 3)
  <2>. SUFFICES ASSUME NEW w, w = Commands["sysfetch"]
              PROVE  IsName(w) /\ Nibbles(w, 3, 9, 3)
    BY Zenon
  <2>1. w = <<115, 121, 115, 102, 101, 116, 99, 104>>  BY DEF Commands
  <2>2. /\ w \in Seq(97 .. 122) /\ Len(w) = 8
        /\ w[1] = 115 /\ w[2] = 121 /\ w[3] = 115
    BY <2>1
  <2>3. IsName(w)  BY <2>2 DEF IsName, Letters
  <2>4. Nibbles(w, 3, 9, 3)  BY <2>2 DEF Nibbles
  <2>. QED  BY <2>3, <2>4, Zenon
<1>14. \A n \in DOMAIN Commands : IsName(Commands[n])  BY <1>0, <1>1, <1>2, <1>3, <1>4, <1>5, <1>6, <1>7, <1>8, <1>9, <1>10, <1>11, <1>12, <1>13, Zenon
<1>. DEFINE H(n) == HashOf(Commands[n])
<1>15. H("set")[1] = 3 /\ H("set")[2] = 5 /\ H("set")[3] = 4  BY <1>1, HashTells
<1>16. H("list")[1] = 12 /\ H("list")[2] = 9 /\ H("list")[3] = 3  BY <1>2, HashTells
<1>17. H("help")[1] = 8 /\ H("help")[2] = 5 /\ H("help")[3] = 12  BY <1>3, HashTells
<1>18. H("time")[1] = 4 /\ H("time")[2] = 9 /\ H("time")[3] = 13  BY <1>4, HashTells
<1>19. H("date")[1] = 4 /\ H("date")[2] = 1 /\ H("date")[3] = 4  BY <1>5, HashTells
<1>20. H("kill")[1] = 11 /\ H("kill")[2] = 9 /\ H("kill")[3] = 12  BY <1>6, HashTells
<1>21. H("clear")[1] = 3 /\ H("clear")[2] = 12 /\ H("clear")[3] = 5  BY <1>7, HashTells
<1>22. H("start")[1] = 3 /\ H("start")[2] = 4 /\ H("start")[3] = 1  BY <1>8, HashTells
<1>23. H("restart")[1] = 2 /\ H("restart")[2] = 5 /\ H("restart")[3] = 3  BY <1>9, HashTells
<1>24. H("shutdown")[1] = 3 /\ H("shutdown")[2] = 8 /\ H("shutdown")[3] = 5  BY <1>10, HashTells
<1>25. H("suicide")[1] = 3 /\ H("suicide")[2] = 5 /\ H("suicide")[3] = 9  BY <1>11, HashTells
<1>26. H("heapvis")[1] = 8 /\ H("heapvis")[2] = 5 /\ H("heapvis")[3] = 1  BY <1>12, HashTells
<1>27. H("sysfetch")[1] = 3 /\ H("sysfetch")[2] = 9 /\ H("sysfetch")[3] = 3  BY <1>13, HashTells
<1>. HIDE DEF H
<1>28. \A n, m \in {"set", "list", "help", "time", "date", "kill", "clear", "start", "restart", "shutdown", "suicide", "heapvis", "sysfetch"} : H(n) = H(m) => n = m
  <2>1. \A m \in {"set", "list", "help", "time", "date", "kill", "clear", "start", "restart", "shutdown", "suicide", "heapvis", "sysfetch"} :
            H("set") = H(m) => "set" = m
    BY <1>15, <1>16, <1>17, <1>18, <1>19, <1>20, <1>21, <1>22, <1>23, <1>24, <1>25, <1>26, <1>27
  <2>2. \A m \in {"set", "list", "help", "time", "date", "kill", "clear", "start", "restart", "shutdown", "suicide", "heapvis", "sysfetch"} :
            H("list") = H(m) => "list" = m
    BY <1>15, <1>16, <1>17, <1>18, <1>19, <1>20, <1>21, <1>22, <1>23, <1>24, <1>25, <1>26, <1>27
  <2>3. \A m \in {"set", "list", "help", "time", "date", "kill", "clear", "start", "restart", "shutdown", "suicide", "heapvis", "sysfetch"} :
            H("help") = H(m) => "help" = m
    BY <1>15, <1>16, <1>17, <1>18, <1>19, <1>20, <1>21, <1>22, <1>23, <1>24, <1>25, <1>26, <1>27
  <2>4. \A m \in {"set", "list", "help", "time", "date", "kill", "clear", "start", "restart", "shutdown", "suicide", "heapvis", "sysfetch"} :
            H("time") = H(m) => "time" = m
    BY <1>15, <1>16, <1>17, <1>18, <1>19, <1>20, <1>21, <1>22, <1>23, <1>24, <1>25, <1>26, <1>27
  <2>5. \A m \in {"set", "list", "help", "time", "date", "kill", "clear", "start", "restart", "shutdown", "suicide", "heapvis", "sysfetch"} :
            H("date") = H(m) => "date" = m
    BY <1>15, <1>16, <1>17, <1>18, <1>19, <1>20, <1>21, <1>22, <1>23, <1>24, <1>25, <1>26, <1>27
  <2>6. \A m \in {"set", "list", "help", "time", "date", "kill", "clear", "start", "restart", "shutdown", "suicide", "heapvis", "sysfetch"} :
            H("kill") = H(m) => "kill" = m
    BY <1>15, <1>16, <1>17, <1>18, <1>19, <1>20, <1>21, <1>22, <1>23, <1>24, <1>25, <1>26, <1>27
  <2>7. \A m \in {"set", "list", "help", "time", "date", "kill", "clear", "start", "restart", "shutdown", "suicide", "heapvis", "sysfetch"} :
            H("clear") = H(m) => "clear" = m
    BY <1>15, <1>16, <1>17, <1>18, <1>19, <1>20, <1>21, <1>22, <1>23, <1>24, <1>25, <1>26, <1>27
  <2>8. \A m \in {"set", "list", "help", "time", "date", "kill", "clear", "start", "restart", "shutdown", "suicide", "heapvis", "sysfetch"} :
            H("start") = H(m) => "start" = m
    BY <1>15, <1>16, <1>17, <1>18, <1>19, <1>20, <1>21, <1>22, <1>23, <1>24, <1>25, <1>26, <1>27
  <2>9. \A m \in {"set", "list", "help", "time", "date", "kill", "clear", "start", "restart", "shutdown", "suicide", "heapvis", "sysfetch"} :
            H("restart") = H(m) => "restart" = m
    BY <1>15, <1>16, <1>17, <1>18, <1>19, <1>20, <1>21, <1>22, <1>23, <1>24, <1>25, <1>26, <1>27
  <2>10. \A m \in {"set", "list", "help", "time", "date", "kill", "clear", "start", "restart", "shutdown", "suicide", "heapvis", "sysfetch"} :
            H("shutdown") = H(m) => "shutdown" = m
    BY <1>15, <1>16, <1>17, <1>18, <1>19, <1>20, <1>21, <1>22, <1>23, <1>24, <1>25, <1>26, <1>27
  <2>11. \A m \in {"set", "list", "help", "time", "date", "kill", "clear", "start", "restart", "shutdown", "suicide", "heapvis", "sysfetch"} :
            H("suicide") = H(m) => "suicide" = m
    BY <1>15, <1>16, <1>17, <1>18, <1>19, <1>20, <1>21, <1>22, <1>23, <1>24, <1>25, <1>26, <1>27
  <2>12. \A m \in {"set", "list", "help", "time", "date", "kill", "clear", "start", "restart", "shutdown", "suicide", "heapvis", "sysfetch"} :
            H("heapvis") = H(m) => "heapvis" = m
    BY <1>15, <1>16, <1>17, <1>18, <1>19, <1>20, <1>21, <1>22, <1>23, <1>24, <1>25, <1>26, <1>27
  <2>13. \A m \in {"set", "list", "help", "time", "date", "kill", "clear", "start", "restart", "shutdown", "suicide", "heapvis", "sysfetch"} :
            H("sysfetch") = H(m) => "sysfetch" = m
    BY <1>15, <1>16, <1>17, <1>18, <1>19, <1>20, <1>21, <1>22, <1>23, <1>24, <1>25, <1>26, <1>27
  <2>. QED  BY <2>1, <2>2, <2>3, <2>4, <2>5, <2>6, <2>7, <2>8, <2>9, <2>10, <2>11, <2>12, <2>13
<1>. QED  BY <1>0, <1>14, <1>28, Zenon DEF H

LEMMA StartableProcessesAre ==
    /\ DOMAIN StartableProcesses = {"tty", "desktop", "topbar", "systemmenu", "startmenu",
           "terminal", "calculator", "tetris"}
    /\ \A n \in DOMAIN StartableProcesses : IsName(StartableProcesses[n])
    /\ \A n, m \in DOMAIN StartableProcesses : HashOf(StartableProcesses[n]) = HashOf(StartableProcesses[m]) => n = m
<1>0. DOMAIN StartableProcesses = {"tty", "desktop", "topbar", "systemmenu", "startmenu",
      "terminal", "calculator", "tetris"}  BY DEF StartableProcesses
<1>1. IsName(StartableProcesses["tty"]) /\ Nibbles(StartableProcesses["tty"], 4, 4, 9)
  <2>. SUFFICES ASSUME NEW w, w = StartableProcesses["tty"]
              PROVE  IsName(w) /\ Nibbles(w, 4, 4, 9)
    BY Zenon
  <2>1. w = <<116, 116, 121>>  BY DEF StartableProcesses
  <2>2. /\ w \in Seq(97 .. 122) /\ Len(w) = 3
        /\ w[1] = 116 /\ w[2] = 116 /\ w[3] = 121
    BY <2>1
  <2>3. IsName(w)  BY <2>2 DEF IsName, Letters
  <2>4. Nibbles(w, 4, 4, 9)  BY <2>2 DEF Nibbles
  <2>. QED  BY <2>3, <2>4, Zenon
<1>2. IsName(StartableProcesses["desktop"]) /\ Nibbles(StartableProcesses["desktop"], 4, 5, 3)
  <2>. SUFFICES ASSUME NEW w, w = StartableProcesses["desktop"]
              PROVE  IsName(w) /\ Nibbles(w, 4, 5, 3)
    BY Zenon
  <2>1. w = <<100, 101, 115, 107, 116, 111, 112>>  BY DEF StartableProcesses
  <2>2. /\ w \in Seq(97 .. 122) /\ Len(w) = 7
        /\ w[1] = 100 /\ w[2] = 101 /\ w[3] = 115
    BY <2>1
  <2>3. IsName(w)  BY <2>2 DEF IsName, Letters
  <2>4. Nibbles(w, 4, 5, 3)  BY <2>2 DEF Nibbles
  <2>. QED  BY <2>3, <2>4, Zenon
<1>3. IsName(StartableProcesses["topbar"]) /\ Nibbles(StartableProcesses["topbar"], 4, 15, 0)
  <2>. SUFFICES ASSUME NEW w, w = StartableProcesses["topbar"]
              PROVE  IsName(w) /\ Nibbles(w, 4, 15, 0)
    BY Zenon
  <2>1. w = <<116, 111, 112, 98, 97, 114>>  BY DEF StartableProcesses
  <2>2. /\ w \in Seq(97 .. 122) /\ Len(w) = 6
        /\ w[1] = 116 /\ w[2] = 111 /\ w[3] = 112
    BY <2>1
  <2>3. IsName(w)  BY <2>2 DEF IsName, Letters
  <2>4. Nibbles(w, 4, 15, 0)  BY <2>2 DEF Nibbles
  <2>. QED  BY <2>3, <2>4, Zenon
<1>4. IsName(StartableProcesses["systemmenu"]) /\ Nibbles(StartableProcesses["systemmenu"], 3, 9, 3)
  <2>. SUFFICES ASSUME NEW w, w = StartableProcesses["systemmenu"]
              PROVE  IsName(w) /\ Nibbles(w, 3, 9, 3)
    BY Zenon
  <2>1. w = <<115, 121, 115, 116, 101, 109, 109, 101, 110, 117>>  BY DEF StartableProcesses
  <2>2. /\ w \in Seq(97 .. 122) /\ Len(w) = 10
        /\ w[1] = 115 /\ w[2] = 121 /\ w[3] = 115
    BY <2>1
  <2>3. IsName(w)  BY <2>2 DEF IsName, Letters
  <2>4. Nibbles(w, 3, 9, 3)  BY <2>2 DEF Nibbles
  <2>. QED  BY <2>3, <2>4, Zenon
<1>5. IsName(StartableProcesses["startmenu"]) /\ Nibbles(StartableProcesses["startmenu"], 3, 4, 1)
  <2>. SUFFICES ASSUME NEW w, w = StartableProcesses["startmenu"]
              PROVE  IsName(w) /\ Nibbles(w, 3, 4, 1)
    BY Zenon
  <2>1. w = <<115, 116, 97, 114, 116, 109, 101, 110, 117>>  BY DEF StartableProcesses
  <2>2. /\ w \in Seq(97 .. 122) /\ Len(w) = 9
        /\ w[1] = 115 /\ w[2] = 116 /\ w[3] = 97
    BY <2>1
  <2>3. IsName(w)  BY <2>2 DEF IsName, Letters
  <2>4. Nibbles(w, 3, 4, 1)  BY <2>2 DEF Nibbles
  <2>. QED  BY <2>3, <2>4, Zenon
<1>6. IsName(StartableProcesses["terminal"]) /\ Nibbles(StartableProcesses["terminal"], 4, 5, 2)
  <2>. SUFFICES ASSUME NEW w, w = StartableProcesses["terminal"]
              PROVE  IsName(w) /\ Nibbles(w, 4, 5, 2)
    BY Zenon
  <2>1. w = <<116, 101, 114, 109, 105, 110, 97, 108>>  BY DEF StartableProcesses
  <2>2. /\ w \in Seq(97 .. 122) /\ Len(w) = 8
        /\ w[1] = 116 /\ w[2] = 101 /\ w[3] = 114
    BY <2>1
  <2>3. IsName(w)  BY <2>2 DEF IsName, Letters
  <2>4. Nibbles(w, 4, 5, 2)  BY <2>2 DEF Nibbles
  <2>. QED  BY <2>3, <2>4, Zenon
<1>7. IsName(StartableProcesses["calculator"]) /\ Nibbles(StartableProcesses["calculator"], 3, 1, 12)
  <2>. SUFFICES ASSUME NEW w, w = StartableProcesses["calculator"]
              PROVE  IsName(w) /\ Nibbles(w, 3, 1, 12)
    BY Zenon
  <2>1. w = <<99, 97, 108, 99, 117, 108, 97, 116, 111, 114>>  BY DEF StartableProcesses
  <2>2. /\ w \in Seq(97 .. 122) /\ Len(w) = 10
        /\ w[1] = 99 /\ w[2] = 97 /\ w[3] = 108
    BY <2>1
  <2>3. IsName(w)  BY <2>2 DEF IsName, Letters
  <2>4. Nibbles(w, 3, 1, 12)  BY <2>2 DEF Nibbles
  <2>. QED  BY <2>3, <2>4, Zenon
<1>8. IsName(StartableProcesses["tetris"]) /\ Nibbles(StartableProcesses["tetris"], 4, 5, 4)
  <2>. SUFFICES ASSUME NEW w, w = StartableProcesses["tetris"]
              PROVE  IsName(w) /\ Nibbles(w, 4, 5, 4)
    BY Zenon
  <2>1. w = <<116, 101, 116, 114, 105, 115>>  BY DEF StartableProcesses
  <2>2. /\ w \in Seq(97 .. 122) /\ Len(w) = 6
        /\ w[1] = 116 /\ w[2] = 101 /\ w[3] = 116
    BY <2>1
  <2>3. IsName(w)  BY <2>2 DEF IsName, Letters
  <2>4. Nibbles(w, 4, 5, 4)  BY <2>2 DEF Nibbles
  <2>. QED  BY <2>3, <2>4, Zenon
<1>9. \A n \in DOMAIN StartableProcesses : IsName(StartableProcesses[n])  BY <1>0, <1>1, <1>2, <1>3, <1>4, <1>5, <1>6, <1>7, <1>8, Zenon
<1>. DEFINE H(n) == HashOf(StartableProcesses[n])
<1>10. H("tty")[1] = 4 /\ H("tty")[2] = 4 /\ H("tty")[3] = 9  BY <1>1, HashTells
<1>11. H("desktop")[1] = 4 /\ H("desktop")[2] = 5 /\ H("desktop")[3] = 3  BY <1>2, HashTells
<1>12. H("topbar")[1] = 4 /\ H("topbar")[2] = 15 /\ H("topbar")[3] = 0  BY <1>3, HashTells
<1>13. H("systemmenu")[1] = 3 /\ H("systemmenu")[2] = 9 /\ H("systemmenu")[3] = 3  BY <1>4, HashTells
<1>14. H("startmenu")[1] = 3 /\ H("startmenu")[2] = 4 /\ H("startmenu")[3] = 1  BY <1>5, HashTells
<1>15. H("terminal")[1] = 4 /\ H("terminal")[2] = 5 /\ H("terminal")[3] = 2  BY <1>6, HashTells
<1>16. H("calculator")[1] = 3 /\ H("calculator")[2] = 1 /\ H("calculator")[3] = 12  BY <1>7, HashTells
<1>17. H("tetris")[1] = 4 /\ H("tetris")[2] = 5 /\ H("tetris")[3] = 4  BY <1>8, HashTells
<1>. HIDE DEF H
<1>18. \A n, m \in {"tty", "desktop", "topbar", "systemmenu", "startmenu", "terminal", "calculator", "tetris"} : H(n) = H(m) => n = m
  <2>1. \A m \in {"tty", "desktop", "topbar", "systemmenu", "startmenu", "terminal", "calculator", "tetris"} :
            H("tty") = H(m) => "tty" = m
    BY <1>10, <1>11, <1>12, <1>13, <1>14, <1>15, <1>16, <1>17
  <2>2. \A m \in {"tty", "desktop", "topbar", "systemmenu", "startmenu", "terminal", "calculator", "tetris"} :
            H("desktop") = H(m) => "desktop" = m
    BY <1>10, <1>11, <1>12, <1>13, <1>14, <1>15, <1>16, <1>17
  <2>3. \A m \in {"tty", "desktop", "topbar", "systemmenu", "startmenu", "terminal", "calculator", "tetris"} :
            H("topbar") = H(m) => "topbar" = m
    BY <1>10, <1>11, <1>12, <1>13, <1>14, <1>15, <1>16, <1>17
  <2>4. \A m \in {"tty", "desktop", "topbar", "systemmenu", "startmenu", "terminal", "calculator", "tetris"} :
            H("systemmenu") = H(m) => "systemmenu" = m
    BY <1>10, <1>11, <1>12, <1>13, <1>14, <1>15, <1>16, <1>17
  <2>5. \A m \in {"tty", "desktop", "topbar", "systemmenu", "startmenu", "terminal", "calculator", "tetris"} :
            H("startmenu") = H(m) => "startmenu" = m
    BY <1>10, <1>11, <1>12, <1>13, <1>14, <1>15, <1>16, <1>17
  <2>6. \A m \in {"tty", "desktop", "topbar", "systemmenu", "startmenu", "terminal", "calculator", "tetris"} :
            H("terminal") = H(m) => "terminal" = m
    BY <1>10, <1>11, <1>12, <1>13, <1>14, <1>15, <1>16, <1>17
  <2>7. \A m \in {"tty", "desktop", "topbar", "systemmenu", "startmenu", "terminal", "calculator", "tetris"} :
            H("calculator") = H(m) => "calculator" = m
    BY <1>10, <1>11, <1>12, <1>13, <1>14, <1>15, <1>16, <1>17
  <2>8. \A m \in {"tty", "desktop", "topbar", "systemmenu", "startmenu", "terminal", "calculator", "tetris"} :
            H("tetris") = H(m) => "tetris" = m
    BY <1>10, <1>11, <1>12, <1>13, <1>14, <1>15, <1>16, <1>17
  <2>. QED  BY <2>1, <2>2, <2>3, <2>4, <2>5, <2>6, <2>7, <2>8
<1>. QED  BY <1>0, <1>9, <1>18, Zenon DEF H

LEMMA SettableVarsAre ==
    /\ DOMAIN SettableVars = {"drawmouse", "font"}
    /\ \A n \in DOMAIN SettableVars : IsName(SettableVars[n])
    /\ \A n, m \in DOMAIN SettableVars : HashOf(SettableVars[n]) = HashOf(SettableVars[m]) => n = m
<1>0. DOMAIN SettableVars = {"drawmouse", "font"}  BY DEF SettableVars
<1>1. IsName(SettableVars["drawmouse"]) /\ Nibbles(SettableVars["drawmouse"], 4, 2, 1)
  <2>. SUFFICES ASSUME NEW w, w = SettableVars["drawmouse"]
              PROVE  IsName(w) /\ Nibbles(w, 4, 2, 1)
    BY Zenon
  <2>1. w = <<100, 114, 97, 119, 109, 111, 117, 115, 101>>  BY DEF SettableVars
  <2>2. /\ w \in Seq(97 .. 122) /\ Len(w) = 9
        /\ w[1] = 100 /\ w[2] = 114 /\ w[3] = 97
    BY <2>1
  <2>3. IsName(w)  BY <2>2 DEF IsName, Letters
  <2>4. Nibbles(w, 4, 2, 1)  BY <2>2 DEF Nibbles
  <2>. QED  BY <2>3, <2>4, Zenon
<1>2. IsName(SettableVars["font"]) /\ Nibbles(SettableVars["font"], 6, 15, 14)
  <2>. SUFFICES ASSUME NEW w, w = SettableVars["font"]
              PROVE  IsName(w) /\ Nibbles(w, 6, 15, 14)
    BY Zenon
  <2>1. w = <<102, 111, 110, 116>>  BY DEF SettableVars
  <2>2. /\ w \in Seq(97 .. 122) /\ Len(w) = 4
        /\ w[1] = 102 /\ w[2] = 111 /\ w[3] = 110
    BY <2>1
  <2>3. IsName(w)  BY <2>2 DEF IsName, Letters
  <2>4. Nibbles(w, 6, 15, 14)  BY <2>2 DEF Nibbles
  <2>. QED  BY <2>3, <2>4, Zenon
<1>3. \A n \in DOMAIN SettableVars : IsName(SettableVars[n])  BY <1>0, <1>1, <1>2, Zenon
<1>. DEFINE H(n) == HashOf(SettableVars[n])
<1>4. H("drawmouse")[1] = 4 /\ H("drawmouse")[2] = 2 /\ H("drawmouse")[3] = 1  BY <1>1, HashTells
<1>5. H("font")[1] = 6 /\ H("font")[2] = 15 /\ H("font")[3] = 14  BY <1>2, HashTells
<1>. HIDE DEF H
<1>6. \A n, m \in {"drawmouse", "font"} : H(n) = H(m) => n = m
  <2>1. \A m \in {"drawmouse", "font"} :
            H("drawmouse") = H(m) => "drawmouse" = m
    BY <1>4, <1>5
  <2>2. \A m \in {"drawmouse", "font"} :
            H("font") = H(m) => "font" = m
    BY <1>4, <1>5
  <2>. QED  BY <2>1, <2>2
<1>. QED  BY <1>0, <1>3, <1>6, Zenon DEF H

-----------------------------------------------------------------------------
(* Lines                                                                   *)

Line(n, t) == Commands[n] \o <<Space>> \o t

(* A word and, behind a space, a text.                                     *)
LEMMA Joined ==
    ASSUME NEW w \in Seq(Letters), Len(w) >= 1, NEW t \in Seq(Ascii)
    PROVE  /\ w \o <<Space>> \o t \in Seq(Ascii) /\ w \o <<Space>> \o t # <<>>
           /\ FirstWord(w \o <<Space>> \o t) = w /\ NextWord(w \o <<Space>> \o t) = t
<1>. DEFINE s == w \o <<Space>> \o t
<1>1. PICK a \in Nat \ {0} : a = Len(w)  OBVIOUS
<1>2. PICK b \in Nat : b = Len(t)  OBVIOUS
<1>3. w \in Seq(Ascii) /\ <<Space>> \in Seq(Ascii) /\ Len(<<Space>>) = 1 /\ <<Space>>[1] = Space
  BY DEF Letters, Ascii, Space
<1>4. /\ s \in Seq(Ascii) /\ Len(s) = a + 1 + b
      /\ \A i \in 1 .. a : s[i] = w[i]
      /\ s[a + 1] = Space
      /\ \A i \in 1 .. b : s[a + 1 + i] = t[i]
  BY <1>1, <1>2, <1>3
<1>. HIDE DEF s
<1>5. Begins(s, w)  BY <1>1, <1>4 DEF Begins
<1>6. FirstWord(s) = w /\ NextWord(s) = SubSeq(s, a + 2, Len(s))
  <2>1. Len(w) < Len(s) /\ Len(w) + 2 = a + 2  BY <1>1, <1>2, <1>4
  <2>. QED  BY <1>4, <1>5, <2>1, WordIs, Zenon
<1>7. SubSeq(s, a + 2, Len(s)) = t
  <2>1. \A i \in a + 2 .. Len(s) : s[i] \in Ascii  BY <1>4
  <2>2. a + 2 <= Len(s) + 1 /\ a + 2 \in Int /\ Len(s) \in Int  BY <1>4
  <2>. DEFINE u == SubSeq(s, a + 2, Len(s))
  <2>3. u \in Seq(Ascii) /\ Len(u) = b /\ \A i \in 1 .. b : u[i] = s[a + 1 + i]
    BY <1>4, <2>1, <2>2
  <2>. HIDE DEF u
  <2>4. u = t  BY <1>2, <1>4, <2>3
  <2>. QED  BY <2>4 DEF u
<1>8. s # <<>>  BY <1>4
<1>. QED  BY <1>4, <1>6, <1>7, <1>8, Zenon DEF s

(* A line is a command, alone or with a text behind it.                    *)
LEMMA LineIs ==
    ASSUME ShellAssumption, NEW s \in Lines
    PROVE  \E n \in DOMAIN Commands :
             \/ s = Commands[n]
             \/ \E t \in Seq(Ascii) : s = Line(n, t) /\ Len(t) >= 1 /\ (n = "kill" => Len(t) \in 1 .. 10)
<1>. USE CommandsAre
<1>1. CASE \E n \in DOMAIN Commands : s = Commands[n]  BY <1>1, Zenon
<1>2. CASE \E n \in {"set", "kill", "start"}, a \in Argument : s = Commands[n] \o <<Space>> \o a
  <2>1. PICK n \in {"set", "kill", "start"}, a \in Argument : s = Line(n, a)  BY <1>2, Zenon DEF Line
  <2>2. a \in Seq(1 .. 127) /\ Len(a) \in 1 .. 9  BY Zenon DEF ShellAssumption, ArgumentAssumption
  <2>3. \A k \in 1 .. 9 : k \in 1 .. 10 /\ k >= 1  OBVIOUS
  <2>4. a \in Seq(Ascii) /\ Len(a) >= 1 /\ Len(a) \in 1 .. 10  BY <2>2, <2>3, Zenon DEF Ascii
  <2>5. n \in DOMAIN Commands  OBVIOUS
  <2>. QED  BY <2>1, <2>4, <2>5, Zenon
<1>3. CASE \E id \in FirstID .. MaxID : s = Commands["kill"] \o <<Space>> \o ToString(id)
  <2>1. PICK id \in FirstID .. MaxID : s = Line("kill", ToString(id))  BY <1>3, Zenon DEF Line
  <2>2. id \in Nat /\ id < Ten(10)
    <3>1. MaxID < Ten(9)  BY Zenon DEF ShellAssumption, IDAssumption, Ten
    <3>2. Ten(9) <= Ten(10) /\ Ten(9) \in Nat /\ Ten(10) \in Nat  BY Powers, SMT
    <3>. QED  BY <2>1, <3>1, <3>2 DEF ShellAssumption, IDAssumption
  <2>3. ToString(id) \in Seq(48 .. 57) /\ Len(ToString(id)) \in 1 .. 10  BY <2>2, ToStringIs, Zenon
  <2>4. \A u \in Seq(48 .. 57) : u \in Seq(Ascii)  BY DEF Ascii
  <2>5. \A k \in 1 .. 10 : k >= 1  OBVIOUS
  <2>6. "kill" \in DOMAIN Commands  OBVIOUS
  <2>. QED  BY <2>1, <2>3, <2>4, <2>5, <2>6, Zenon
<1>4. CASE \E p \in DOMAIN StartableProcesses : s = Commands["start"] \o <<Space>> \o StartableProcesses[p]
  <2>1. PICK p \in DOMAIN StartableProcesses : s = Line("start", StartableProcesses[p])
    BY <1>4, Zenon DEF Line
  <2>2. StartableProcesses[p] \in Seq(Ascii) /\ Len(StartableProcesses[p]) >= 1
    BY StartableProcessesAre, NameIsWord, Zenon
  <2>3. "start" \in DOMAIN Commands /\ "start" # "kill"  OBVIOUS
  <2>. QED  BY <2>1, <2>2, <2>3, Zenon
<1>5. CASE \E v \in DOMAIN SettableVars, a \in Argument :
             s = Commands["set"] \o <<Space>> \o SettableVars[v] \o <<Space>> \o a
  <2>1. PICK v \in DOMAIN SettableVars, a \in Argument :
             s = Commands["set"] \o <<Space>> \o SettableVars[v] \o <<Space>> \o a
    BY <1>5, Zenon
  <2>. DEFINE c == Commands["set"]
              w == SettableVars[v]
              t == w \o <<Space>> \o a
  <2>2. w \in Seq(Letters) /\ Len(w) >= 1 /\ w \in Seq(Ascii)  BY SettableVarsAre, NameIsWord, Zenon
  <2>3. a \in Seq(Ascii)  BY Zenon DEF ShellAssumption, ArgumentAssumption, Ascii
  <2>4. t \in Seq(Ascii) /\ t # <<>>  BY <2>2, <2>3, Joined, Zenon
  <2>5. c \in Seq(Ascii) /\ <<Space>> \in Seq(Ascii)
    <3>1. c \in Seq(Ascii)  BY NameIsWord, Zenon
    <3>. QED  BY <3>1 DEF Ascii, Space
  <2>6. s = c \o <<Space>> \o w \o <<Space>> \o a  BY <2>1, Zenon
  <2>7. Len(t) >= 1  BY <2>4
  <2>. HIDE DEF c, w
  <2>8. s = c \o <<Space>> \o t
    <3>1. <<Space>> \in Seq(Ascii)  BY <2>5
    <3>. QED  BY <2>2, <2>3, <2>5, <2>6
  <2>9. s = Line("set", t)  BY <2>8, Zenon DEF Line, c
  <2>10. "set" \in DOMAIN Commands /\ "set" # "kill"  OBVIOUS
  <2>. QED  BY <2>4, <2>7, <2>9, <2>10, Zenon
<1>6. \/ \E n \in DOMAIN Commands : s = Commands[n]
      \/ \E n \in {"set", "kill", "start"}, a \in Argument : s = Commands[n] \o <<Space>> \o a
      \/ \E id \in FirstID .. MaxID : s = Commands["kill"] \o <<Space>> \o ToString(id)
      \/ \E p \in DOMAIN StartableProcesses : s = Commands["start"] \o <<Space>> \o StartableProcesses[p]
      \/ \E v \in DOMAIN SettableVars, a \in Argument :
             s = Commands["set"] \o <<Space>> \o SettableVars[v] \o <<Space>> \o a
  <2>. DEFINE A == {Commands[n] : n \in DOMAIN Commands}
              B == {Commands[n] \o <<Space>> \o a : n \in {"set", "kill", "start"}, a \in Argument}
              C == {Commands["kill"] \o <<Space>> \o ToString(id) : id \in FirstID .. MaxID}
              D == {Commands["start"] \o <<Space>> \o StartableProcesses[p] : p \in DOMAIN StartableProcesses}
              E == {Commands["set"] \o <<Space>> \o SettableVars[v] \o <<Space>> \o a :
                      v \in DOMAIN SettableVars, a \in Argument}
  <2>1. s \in A => \E n \in DOMAIN Commands : s = Commands[n]  BY Zenon
  <2>2. s \in B => \E n \in {"set", "kill", "start"}, a \in Argument : s = Commands[n] \o <<Space>> \o a
    <3>. DEFINE G(n, a) == Commands[n] \o <<Space>> \o a
                F == {G(n, a) : n \in {"set", "kill", "start"}, a \in Argument}
    <3>. HIDE DEF G
    <3>1. s \in F => \E n \in {"set", "kill", "start"}, a \in Argument : s = G(n, a)  OBVIOUS
    <3>2. B = F  BY DEF G
    <3>3. \A n, a : G(n, a) = Commands[n] \o <<Space>> \o a  BY DEF G
    <3>. HIDE DEF B, F
    <3>. QED  BY <3>1, <3>2, <3>3, Zenon
  <2>3. s \in C => \E id \in FirstID .. MaxID : s = Commands["kill"] \o <<Space>> \o ToString(id)
    BY Zenon
  <2>4. s \in D => \E p \in DOMAIN StartableProcesses : s = Commands["start"] \o <<Space>> \o StartableProcesses[p]
    BY Zenon
  <2>5. s \in E => \E v \in DOMAIN SettableVars, a \in Argument :
                      s = Commands["set"] \o <<Space>> \o SettableVars[v] \o <<Space>> \o a
    <3>. DEFINE G(v, a) == Commands["set"] \o <<Space>> \o SettableVars[v] \o <<Space>> \o a
                F == {G(v, a) : v \in DOMAIN SettableVars, a \in Argument}
    <3>. HIDE DEF G
    <3>1. s \in F => \E v \in DOMAIN SettableVars, a \in Argument : s = G(v, a)  OBVIOUS
    <3>. QED  BY <3>1 DEF G
  <2>6. Lines = A \cup B \cup C \cup D \cup E  BY DEF Lines
  <2>. HIDE DEF A, B, C, D, E
  <2>7. s \in A \/ s \in B \/ s \in C \/ s \in D \/ s \in E  BY <2>6, Zenon
  <2>. QED  BY <2>1, <2>2, <2>3, <2>4, <2>5, <2>7, Zenon
<1>. QED  BY <1>1, <1>2, <1>3, <1>4, <1>5, <1>6, Zenon

(* What a line runs, and what the command finds behind its name: what was  *)
(* typed there, or the command's last character.                           *)
LEMMA LineRuns ==
    ASSUME ShellAssumption, NEW s \in Lines
    PROVE  /\ s # <<>>
           /\ \E n \in DOMAIN Commands :
                 /\ FirstWord(s) = Commands[n]
                 /\ n = "kill" => Len(NextWord(s)) <= 10 /\ (s = Commands["kill"] => NextWord(s) = <<108>>)
           /\ NextWord(s) \in Seq(Ascii) /\ NextWord(s) # <<>>
<1>1. PICK n \in DOMAIN Commands :
        \/ s = Commands[n]
        \/ \E t \in Seq(Ascii) : s = Line(n, t) /\ Len(t) >= 1 /\ (n = "kill" => Len(t) \in 1 .. 10)
  BY LineIs, Zenon
<1>. DEFINE w == Commands[n]
<1>2. IsName(w) /\ w \in Seq(Letters) /\ Len(w) >= 1 /\ w # <<>> /\ w \in Seq(Ascii)
  BY CommandsAre, NameIsWord, Zenon
<1>3. CASE s = w
  <2>. HIDE DEF w
  <2>1. Begins(s, w)  BY <1>2, <1>3 DEF Begins
  <2>2. FirstWord(s) = w /\ NextWord(s) = SubSeq(s, Len(s), Len(s))  BY <1>2, <1>3, <2>1, WordIs, Zenon
  <2>3. PICK a \in Nat \ {0} : a = Len(s)  BY <1>2, <1>3
  <2>4. \A i \in a .. a : s[i] \in Ascii  BY <1>2, <1>3, <2>3
  <2>. DEFINE u == SubSeq(s, a, a)
  <2>5. u \in Seq(Ascii) /\ Len(u) = 1  BY <2>4, SubSeqIs
  <2>6. NextWord(s) = u  BY <2>2, <2>3, Zenon
  <2>. HIDE DEF u
  <2>7. u # <<>> /\ Len(u) <= 10
    <3>1. u # <<>>
      <4>1. 1 # 0  OBVIOUS
      <4>. QED  BY <2>5, <4>1, EmptySeq, Zenon
    <3>2. 1 <= 10  OBVIOUS
    <3>. QED  BY <2>5, <3>1, <3>2, Zenon
  <2>8. n = "kill" => NextWord(s) = <<108>>
    <3>1. SUFFICES ASSUME n = "kill" PROVE  NextWord(s) = <<108>>  OBVIOUS
    <3>2. s = <<107, 105, 108, 108>>  BY <1>3, <3>1 DEF w, Commands
    <3>3. Len(s) = 4 /\ s[4] = 108  BY <3>2
    <3>4. a = 4 /\ u \in Seq(Ascii) /\ Len(u) = 1 /\ u[1] = s[4]
      <4>1. /\ a \in Int /\ a <= a /\ a - a + 1 = 1 /\ 1 \in 1 .. 1 /\ a + 1 - 1 = a
        BY <2>3
      <4>2. u \in Seq(Ascii) /\ Len(u) = 1 /\ \A i \in 1 .. 1 : u[i] = s[a + i - 1]
        BY <2>4, <4>1, SubSeqIs DEF u
      <4>3. u[1] = s[a + 1 - 1]  BY <4>1, <4>2, Zenon
      <4>. QED  BY <2>3, <3>3, <4>1, <4>2, <4>3, Zenon
    <3>5. u = <<108>>  BY <3>3, <3>4
    <3>. QED  BY <2>6, <3>5, Zenon
  <2>. QED  BY <1>2, <1>3, <2>2, <2>5, <2>6, <2>7, <2>8, Zenon DEF w
<1>4. CASE \E t \in Seq(Ascii) : s = Line(n, t) /\ Len(t) >= 1 /\ (n = "kill" => Len(t) \in 1 .. 10)
  <2>1. PICK t \in Seq(Ascii) : s = Line(n, t) /\ Len(t) >= 1 /\ (n = "kill" => Len(t) \in 1 .. 10)
    BY <1>4, Zenon
  <2>2. /\ s # <<>> /\ FirstWord(s) = w /\ NextWord(s) = t
    BY <1>2, <2>1, Joined, Zenon DEF Line
  <2>3. t # <<>>  BY <2>1
  <2>4. s = Commands["kill"] /\ n = "kill" => FALSE
    <3>1. SUFFICES ASSUME s = w PROVE FALSE  BY Zenon
    <3>. DEFINE u == <<Space>> \o t
    <3>2. Len(w \o <<Space>> \o t) = Len(w) + 1 + Len(t)
      <4>1. w \in Seq(Ascii) /\ <<Space>> \in Seq(Ascii) /\ Len(<<Space>>) = 1  BY <1>2 DEF Ascii, Space
      <4>. HIDE DEF w
      <4>. QED  BY <4>1
    <3>3. s = w \o <<Space>> \o t  BY <2>1, Zenon DEF Line
    <3>4. Len(w) \in Nat /\ Len(t) \in Nat  BY <1>2
    <3>. HIDE DEF w
    <3>. QED  BY <3>1, <3>2, <3>3, <3>4
  <2>5. \A k \in 1 .. 10 : k <= 10  OBVIOUS
  <2>. QED  BY <2>1, <2>2, <2>3, <2>4, <2>5, Zenon
<1>. QED  BY <1>1, <1>3, <1>4, Zenon

(* The entry that is found is the one with the name.                       *)
LEMMA CommandFound ==
    ASSUME NEW s, NEW n \in DOMAIN Commands, FirstWord(s) = Commands[n]
    PROVE  Found(CommandHash, s) = {n}
<1>1. HashWord(s) = HashOf(Commands[n])  BY HashIs, Zenon
<1>2. \A m \in DOMAIN Commands : CommandHash[m] = HashOf(Commands[m])
  BY CommandsAre, NameIsWord, Zenon DEF CommandHash
<1>3. DOMAIN CommandHash = DOMAIN Commands  BY Zenon DEF CommandHash
<1>4. \A m : m \in Found(CommandHash, s) <=> m \in DOMAIN Commands /\ HashOf(Commands[m]) = HashOf(Commands[n])
  BY <1>1, <1>2, <1>3, Zenon DEF Found
<1>5. \A m : m \in Found(CommandHash, s) <=> m = n  BY <1>4, CommandsAre, Zenon
<1>. QED  BY <1>5, Zenon

LEMMA ProcessFound ==
    /\ \A s : Found(ProcessHash, s) \subseteq DOMAIN StartableProcesses
    /\ \A p \in DOMAIN StartableProcesses : Found(ProcessHash, StartableProcesses[p]) = {p}
<1>1. DOMAIN ProcessHash = DOMAIN StartableProcesses  BY Zenon DEF ProcessHash
<1>2. \A m \in DOMAIN StartableProcesses :
         ProcessHash[m] = HashOf(StartableProcesses[m]) /\ HashWord(StartableProcesses[m]) = HashOf(StartableProcesses[m])
  BY StartableProcessesAre, NameIsWord, Zenon DEF ProcessHash
<1>3. \A s : Found(ProcessHash, s) \subseteq DOMAIN StartableProcesses  BY <1>1, Zenon DEF Found
<1>4. \A p \in DOMAIN StartableProcesses : \A m :
         m \in Found(ProcessHash, StartableProcesses[p]) <=> m = p
  BY <1>1, <1>2, StartableProcessesAre, Zenon DEF Found
<1>. QED  BY <1>3, <1>4, Zenon

-----------------------------------------------------------------------------
(* The shell                                                               *)

LineInv == /\ line \in Lines \cup {<<>>}
           /\ ran \in DOMAIN Commands \cup {"none"}
           /\ started \in DOMAIN StartableProcesses \cup {"none"}
           /\ NamedRuns
           /\ ran = "kill" => killed = ToInt(NextWord(line))

ProcessesInv == /\ answer \in {0} \cup FirstID .. MaxID
                /\ \A q \in Processes : q = Process(q.id, q.program) /\ q.program \in DOMAIN StartableProcesses
                /\ \A q \in Processes : q.id \in FirstID .. NewID
                /\ NewID \in FirstID .. MaxID
                /\ AnswerNamesIt /\ NoneTwice

LoopTypeOK == /\ starting \in {"idle", "search", "number", "read", "push", "store"}
              /\ loading \in {"none", "topbar", "tty"}
              /\ own \in {0} \cup FirstID .. MaxID
              /\ changed \in BOOLEAN /\ mixed \subseteq {"twin", "id", "lost"}

(* Once the loop has searched, none runs that it starts, and once it has   *)
(* counted, none has the ID that it takes, unless a command came into it;  *)
(* none does when it starts the tty, as there is no process to pass it on. *)
LoopInv == /\ starting # "idle" => loading \in {"topbar", "tty"}
           /\ loading = "tty" /\ starting # "idle" => Processes = {}
           /\ starting \notin {"idle", "search"} /\ "twin" \notin mixed =>
                 \A q \in Processes : q.program # loading
           /\ starting \in {"push", "store"} => own \in FirstID .. NewID
           /\ "id" \notin mixed /\ starting = "read" => \A q \in Processes : q.id # NewID
           /\ "id" \notin mixed /\ starting \in {"push", "store"} => \A q \in Processes : q.id # own

FontInv == /\ SelectedFont \in 0 .. 255
           /\ font \in {"idle", "tested", "beyond"}
           /\ raced \in BOOLEAN
           /\ FontExists
           /\ font = "tested" /\ ~raced => SelectedFont < FontAmount

ShellInv == LineInv /\ ProcessesInv /\ FontInv /\ LoopTypeOK /\ LoopInv /\ opening \in BOOLEAN

(* A process that is new has the ID that was counted for it.               *)
Fresh == \/ NewID' = NewID /\ Processes' \subseteq Processes
         \/ NewID' = NewID + 1 /\ \A q \in Processes' \ Processes : q.id = NewID + 1

(* The program that is started is there once, alone on the whole screen.   *)
LEMMA StartKeeps ==
    ASSUME ShellAssumption, ProcessesInv, NEW program \in DOMAIN StartableProcesses, StartProcess(program),
           mixed \subseteq mixed'
    PROVE  /\ answer' \in {0} \cup FirstID .. MaxID
           /\ \A q \in Processes' : q = Process(q.id, q.program) /\ q.program \in DOMAIN StartableProcesses
           /\ \A q \in Processes' : q.id \in FirstID .. NewID'
           /\ NewID' \in FirstID .. MaxID
           /\ NoneTwice' /\ Fresh
           /\ answer' # 0 => Process(answer', program) \in Processes'
           /\ answer' # 0 => \A q \in Processes' : q.id = answer' => q.program = program
           /\ \A q \in Processes \ Processes' :
                 program \in Fullscreen /\ q.program \in Fullscreen \ {program}
<1>1. CASE Running(program)
  <2>1. answer' = 0 /\ Processes' = Processes /\ NewID' = NewID  BY <1>1, Zenon DEF StartProcess
  <2>2. NoneTwice'  BY <2>1, Zenon DEF ProcessesInv, NoneTwice
  <2>3. Fresh  BY <2>1, Zenon DEF Fresh
  <2>. QED  BY <2>1, <2>2, <2>3, Zenon DEF ProcessesInv
<1>2. CASE ~Running(program)
  <2>. DEFINE new == Process(NewID + 1, program)
  <2>1. /\ NewID < MaxID /\ NewID' = NewID + 1 /\ answer' = NewID + 1
        /\ Processes' = (Processes \ Replaced(program)) \cup {new}
    BY <1>2, Zenon DEF StartProcess, Construct
  <2>2. new.id = NewID + 1 /\ new.program = program /\ new = Process(new.id, new.program)
    BY DEF Process
  <2>. HIDE DEF new
  <2>3. answer' \in FirstID .. MaxID /\ NewID' \in FirstID .. MaxID /\ new.id \in FirstID .. NewID'
    BY <2>1, <2>2 DEF ProcessesInv, ShellAssumption, IDAssumption
  <2>4. \A k \in FirstID .. NewID : k \in FirstID .. NewID' /\ k # answer'
    BY <2>1 DEF ProcessesInv, ShellAssumption, IDAssumption
  <2>5. \A q \in Processes' : q = new \/ (q \in Processes /\ q \notin Replaced(program))
    <3>1. Processes' = (Processes \ Replaced(program)) \cup {new}  BY <2>1, Zenon
    <3>2. ASSUME NEW q \in Processes'
          PROVE  q = new \/ (q \in Processes /\ q \notin Replaced(program))
      <4>1. q \in (Processes \ Replaced(program)) \cup {new}  BY <3>1, Zenon
      <4>. QED  BY <4>1, Zenon
    <3>. QED  BY <3>2, Zenon
  <2>6. \A q \in Processes' : q = Process(q.id, q.program) /\ q.program \in DOMAIN StartableProcesses
    BY <2>2, <2>5, Zenon DEF ProcessesInv
  <2>7. \A q \in Processes' : q.id \in FirstID .. NewID'  BY <2>2, <2>3, <2>4, <2>5, Zenon DEF ProcessesInv
  <2>8. \A q \in Processes : q.program # program  BY <1>2, Zenon DEF Running
  <2>9. \A q \in Processes : program \in Fullscreen /\ q.program \in Fullscreen <=> q \in Replaced(program)
    BY Zenon DEF Replaced
  <2>10. NoneTwice'
    <3>1. SUFFICES ASSUME "lost" \notin mixed, NEW q \in Processes', NEW r \in Processes'
                   PROVE  /\ q.program = r.program => q = r \/ "twin" \in mixed
                          /\ {q.program, r.program} \subseteq Fullscreen => q = r
      BY Zenon DEF NoneTwice
    <3>2. CASE q = new /\ r = new  BY <3>2, Zenon
    <3>3. CASE q = new /\ r # new  BY <2>2, <2>5, <2>8, <2>9, <3>3, Zenon
    <3>4. CASE q # new /\ r = new  BY <2>2, <2>5, <2>8, <2>9, <3>4, Zenon
    <3>5. CASE q # new /\ r # new
      <4>1. q \in Processes /\ r \in Processes  BY <2>5, <3>5, Zenon
      <4>. QED  BY <3>1, <4>1, Zenon DEF ProcessesInv, NoneTwice
    <3>. QED  BY <3>2, <3>3, <3>4, <3>5, Zenon
  <2>11. new \in Processes' /\ Process(answer', program) = new
    BY <2>1, Zenon DEF new
  <2>12. \A q \in Processes \ Processes' : program \in Fullscreen /\ q.program \in Fullscreen \ {program}
    BY <2>1, <2>8, <2>9, Zenon
  <2>13. Fresh  BY <2>1, <2>2, <2>5, Zenon DEF Fresh
  <2>14. \A q \in Processes' : q.id = answer' => q.program = program
    BY <2>2, <2>4, <2>5, Zenon DEF ProcessesInv
  <2>. QED  BY <2>3, <2>6, <2>7, <2>10, <2>11, <2>12, <2>13, <2>14, Zenon
<1>. QED  BY <1>1, <1>2, Zenon

LEMMA KillKeeps ==
    ASSUME ProcessesInv, NEW id, KillProcess(id), NewID' = NewID, mixed \subseteq mixed'
    PROVE  /\ ProcessesInv' /\ Processes' \subseteq Processes
           /\ \A q \in Processes \ Processes' : q.id = id
<1>1. Processes' \in Killing(id) /\ started' = "none" /\ answer' = 0  BY Zenon DEF KillProcess
<1>2. Processes' \subseteq Processes /\ \A q \in Processes \ Processes' : q.id = id
  <2>1. CASE Processes' = Processes  BY <2>1, Zenon
  <2>2. CASE \E q \in Named(id) : Processes' = Processes \ {q}  BY <2>2, Zenon DEF Named
  <2>. QED  BY <1>1, <2>1, <2>2, Zenon DEF Killing
<1>3. AnswerNamesIt'  BY <1>1, Zenon DEF AnswerNamesIt
<1>4. NoneTwice'  BY <1>2, Zenon DEF NoneTwice, ProcessesInv
<1>. QED  BY <1>1, <1>2, <1>3, <1>4, Zenon DEF ProcessesInv

(* A step that leaves the processes, and names no program or the old one.  *)
LEMMA ProcessesStay ==
    ASSUME ProcessesInv, UNCHANGED <<Processes, NewID>>, mixed \subseteq mixed',
           \/ started' = "none" /\ answer' = 0
           \/ UNCHANGED <<started, answer>>
    PROVE  ProcessesInv'
<1>1. Processes' = Processes /\ NewID' = NewID  OBVIOUS
<1>2. NoneTwice'  BY <1>1, Zenon DEF NoneTwice, ProcessesInv
<1>3. CASE started' = "none" /\ answer' = 0
  BY <1>1, <1>2, <1>3, Zenon DEF ProcessesInv, AnswerNamesIt
<1>4. CASE started' = started /\ answer' = answer
  BY <1>1, <1>2, <1>4, Zenon DEF ProcessesInv, AnswerNamesIt
<1>. QED  BY <1>3, <1>4

(* A process that goes was killed, left the screen to another, or was lost.*)
Gone == \A q \in Processes \ Processes' :
          \/ ran' = "suicide"
          \/ started' \in Fullscreen /\ q.program \in Fullscreen \ {started'}
          \/ ran' = "kill" /\ IsNumber(NextWord(line'), q.id)
          \/ ran' = "kill" /\ \E i \in DOMAIN NextWord(line') : NextWord(line')[i] \notin 48 .. 57
          \/ "lost" \in mixed'

LEMMA AsciiNumbers ==
    ASSUME NEW s \in Seq(Ascii)
    PROVE  s \in Seq(Int)
<1>1. \A i \in 1 .. Len(s) : s[i] \in Int
  <2>1. \A i \in 1 .. Len(s) : s[i] \in Ascii  BY ElementOfSeq, Zenon
  <2>2. \A k \in Ascii : k \in Int  BY DEF Ascii
  <2>. QED  BY <2>1, <2>2, Zenon
<1>2. Len(s) \in Nat /\ DOMAIN s = 1 .. Len(s) /\ s = [i \in 1 .. Len(s) |-> s[i]]
  OBVIOUS
<1>. QED  BY <1>1, <1>2

LEMMA SetKeeps ==
    ASSUME ShellAssumption, FontInv, ProcessesInv, NEW s \in Lines, CommandSet(s), UNCHANGED font,
           mixed \subseteq mixed'
    PROVE  FontInv' /\ ProcessesInv' /\ started' = "none" /\ Processes' = Processes /\ NewID' = NewID
<1>. DEFINE t == NextWord(s)
<1>1. t \in Seq(Ascii) /\ t # <<>>  BY LineRuns, Zenon
<1>2. NextWord(t) \in Seq(Ascii)  BY <1>1, NextWordText, Zenon
<1>3. NextWord(t) \in Seq(Int)
  BY <1>2, AsciiNumbers, Zenon
<1>4. ToInt(NextWord(t)) \in Int  BY <1>3, ToIntInt, Zenon
<1>5. \A n \in Int : Byte(n) \in 0 .. 255  BY DEF Byte
<1>. DEFINE value == Byte(ToInt(NextWord(t)))
            named == "font" \in Found(VarHash, t)
<1>6. value \in 0 .. 255  BY <1>4, <1>5, Zenon
<1>7. /\ SelectedFont' = (IF named THEN value ELSE SelectedFont)
      /\ raced' = (raced \/ (named /\ font = "tested"))
      /\ started' = "none" /\ answer' = 0 /\ Processes' = Processes /\ NewID' = NewID
  BY Zenon DEF CommandSet
<1>. HIDE DEF value, named, t
<1>8. font' = font  OBVIOUS
<1>9. FontInv'  BY <1>6, <1>7, <1>8 DEF FontInv, FontExists
<1>10. ProcessesInv'  BY <1>7, ProcessesStay, Zenon
<1>. QED  BY <1>7, <1>9, <1>10, Zenon

LEMMA SystemKeeps ==
    ASSUME ShellAssumption, ShellInv, NEW s \in Lines, System(s), mixed \subseteq mixed'
    PROVE  LineInv' /\ ProcessesInv' /\ FontInv' /\ Fresh /\ Gone
<1>. USE CommandsAre DEF ShellInv
<1>1. PICK n \in DOMAIN Commands :
        /\ FirstWord(s) = Commands[n]
        /\ n = "kill" => Len(NextWord(s)) <= 10 /\ (s = Commands["kill"] => NextWord(s) = <<108>>)
  BY LineRuns, Zenon
<1>2. NextWord(s) \in Seq(Ascii) /\ NextWord(s) # <<>>  BY LineRuns, Zenon
<1>3. Found(CommandHash, s) = {n}  BY <1>1, CommandFound, Zenon
<1>4. line' = s /\ ran' = n /\ font' = font
  <2>1. {n} # {}  OBVIOUS
  <2>2. CommandOf[s] = {n}  BY <1>3, Zenon DEF CommandOf
  <2>. QED  BY <2>1, <2>2, Zenon DEF System
<1>5. \A m \in DOMAIN Commands : FirstWord(s) = Commands[m] => m = n  BY <1>1, Zenon
<1>6. /\ n = "set" => CommandSet(s)
      /\ n = "start" => CommandStart(s)
      /\ n = "kill" => CommandKill(s)
      /\ n = "suicide" => CommandSuicide
      /\ n \notin Acting => /\ started' = "none" /\ answer' = 0 /\ killed' = 0
                           /\ UNCHANGED <<Processes, NewID, SelectedFont, raced>>
  BY <1>4 DEF System, Acting
<1>. DEFINE AsTyped == /\ started' \in DOMAIN StartableProcesses \cup {"none"}
                       /\ n = "start" => \A p \in DOMAIN StartableProcesses :
                                           NextWord(s) = StartableProcesses[p] => started' = p
                       /\ n = "kill" => killed' = ToInt(NextWord(s))
<1>7. AsTyped => LineInv'
  <2>. HIDE DEF AsTyped
  <2>1. SUFFICES ASSUME AsTyped PROVE LineInv'  OBVIOUS
  <2>2. \A m \in DOMAIN Commands : (Runs(m) => ran = m)'  BY <1>4, <1>5, Zenon DEF Runs
  <2>3. NamedRuns'  BY <1>4, <2>1, <2>2, Zenon DEF NamedRuns, AsTyped
  <2>. QED  BY <1>4, <2>1, <2>3, Zenon DEF LineInv, AsTyped
<1>8. CASE n = "set"
  <2>1. FontInv' /\ ProcessesInv' /\ started' = "none" /\ Processes' = Processes /\ NewID' = NewID
    BY <1>4, <1>6, <1>8, SetKeeps, Zenon
  <2>2. "set" # "start" /\ "set" # "kill"  OBVIOUS
  <2>3. AsTyped  BY <1>8, <2>1, <2>2, Zenon
  <2>. QED  BY <1>7, <2>1, <2>3, Zenon DEF Gone, Fresh
<1>9. CASE n = "start"
  <2>1. SelectedFont' = SelectedFont /\ raced' = raced  BY <1>6, <1>9, Zenon DEF CommandStart
  <2>2. FontInv'  BY <1>4, <2>1 DEF FontInv, FontExists
  <2>3. "start" # "kill"  OBVIOUS
  <2>4. CASE /\ Found(ProcessHash, NextWord(s)) = {}
             /\ started' = "none" /\ answer' = 0 /\ UNCHANGED <<Processes, NewID>>
    <3>1. \A p \in DOMAIN StartableProcesses : NextWord(s) # StartableProcesses[p]
      BY <2>4, ProcessFound, Zenon
    <3>2. AsTyped  BY <1>9, <2>3, <2>4, <3>1, Zenon
    <3>3. ProcessesInv'  BY <2>4, ProcessesStay, Zenon
    <3>. QED  BY <1>7, <2>2, <2>4, <3>2, <3>3, Zenon DEF Gone, Fresh
  <2>5. CASE \E program \in Found(ProcessHash, NextWord(s)) : started' = program /\ StartProcess(program)
    <3>1. PICK program \in Found(ProcessHash, NextWord(s)) : started' = program /\ StartProcess(program)
      BY <2>5, Zenon
    <3>2. program \in DOMAIN StartableProcesses  BY ProcessFound, Zenon
    <3>3. AsTyped
      <4>1. \A p \in DOMAIN StartableProcesses : NextWord(s) = StartableProcesses[p] => program = p
        <5>1. SUFFICES ASSUME NEW p \in DOMAIN StartableProcesses, NextWord(s) = StartableProcesses[p]
                       PROVE  program = p
          BY Zenon
        <5>2. Found(ProcessHash, StartableProcesses[p]) = {p}  BY ProcessFound, Zenon
        <5>3. program \in {p}  BY <3>1, <5>1, <5>2, Zenon
        <5>. QED  BY <5>3
      <4>. QED  BY <1>9, <2>3, <3>1, <3>2, <4>1, Zenon
    <3>4. /\ answer' \in {0} \cup FirstID .. MaxID
          /\ \A q \in Processes' : q = Process(q.id, q.program) /\ q.program \in DOMAIN StartableProcesses
          /\ \A q \in Processes' : q.id \in FirstID .. NewID'
          /\ NewID' \in FirstID .. MaxID
          /\ NoneTwice' /\ Fresh
          /\ answer' # 0 => Process(answer', program) \in Processes'
          /\ answer' # 0 => \A q \in Processes' : q.id = answer' => q.program = program
          /\ \A q \in Processes \ Processes' : program \in Fullscreen /\ q.program \in Fullscreen \ {program}
      BY <3>1, <3>2, StartKeeps, Zenon
    <3>5. AnswerNamesIt'  BY <3>1, <3>4, Zenon DEF AnswerNamesIt
    <3>6. ProcessesInv'  BY <3>4, <3>5, Zenon DEF ProcessesInv
    <3>. QED  BY <1>7, <2>2, <3>1, <3>3, <3>4, <3>6, Zenon DEF Gone
  <2>. QED  BY <1>6, <1>9, <2>4, <2>5, Zenon DEF CommandStart, ProgramOf
<1>10. CASE n = "kill"
  <2>. DEFINE t == NextWord(s)
  <2>1. KillProcess(ToInt(t)) /\ NewID' = NewID /\ SelectedFont' = SelectedFont /\ raced' = raced
    BY <1>6, <1>10, Zenon DEF CommandKill, NumberOf
  <2>2. FontInv'  BY <1>4, <2>1 DEF FontInv, FontExists
  <2>3. ProcessesInv' /\ Processes' \subseteq Processes /\ \A q \in Processes \ Processes' : q.id = ToInt(t)
    BY <2>1, KillKeeps, Zenon
  <2>4. "kill" # "start"  OBVIOUS
  <2>5. AsTyped  BY <1>10, <2>1, <2>4, Zenon DEF KillProcess
  <2>6. ASSUME NEW q \in Processes \ Processes'
        PROVE  IsNumber(t, q.id) \/ \E i \in DOMAIN t : t[i] \notin 48 .. 57
    <3>1. SUFFICES ASSUME \A i \in DOMAIN t : t[i] \in Digital  PROVE IsNumber(t, q.id)
      BY Zenon DEF Digital
    <3>2. t \in Seq(Digital)
      <4>1. t \in Seq(Ascii)  BY <1>2
      <4>. HIDE DEF t
      <4>2. Len(t) \in Nat /\ t = [i \in 1 .. Len(t) |-> t[i]] /\ DOMAIN t = 1 .. Len(t)  BY <4>1
      <4>. QED  BY <3>1, <4>2
    <3>3. q.id \in Nat /\ q.id # 0
      BY DEF ProcessesInv, ShellAssumption, IDAssumption
    <3>4. Len(t) <= 10 /\ ToInt(t) = q.id  BY <1>1, <1>10, <2>3, Zenon
    <3>. HIDE DEF t
    <3>. QED  BY <3>2, <3>3, <3>4, NumberTyped, Zenon
  <2>7. Fresh  BY <2>1, <2>3, Zenon DEF Fresh
  <2>. QED  BY <1>4, <1>7, <1>10, <2>2, <2>3, <2>5, <2>6, <2>7, Zenon DEF Gone
<1>11. CASE n = "suicide"
  <2>1. PICK id : KillProcess(id) /\ NewID' = NewID /\ SelectedFont' = SelectedFont /\ raced' = raced
    BY <1>6, <1>11, Zenon DEF CommandSuicide
  <2>2. FontInv'  BY <1>4, <2>1 DEF FontInv, FontExists
  <2>3. ProcessesInv' /\ Processes' \subseteq Processes  BY <2>1, KillKeeps, Zenon
  <2>4. "suicide" # "start" /\ "suicide" # "kill"  OBVIOUS
  <2>5. AsTyped  BY <1>11, <2>1, <2>4, Zenon DEF KillProcess
  <2>. QED  BY <1>4, <1>7, <1>11, <2>1, <2>2, <2>3, <2>5, Zenon DEF Gone, Fresh
<1>12. CASE n \notin Acting
  <2>1. /\ started' = "none" /\ answer' = 0
        /\ Processes' = Processes /\ NewID' = NewID /\ SelectedFont' = SelectedFont /\ raced' = raced
    BY <1>6, <1>12
  <2>2. FontInv'  BY <1>4, <2>1 DEF FontInv, FontExists
  <2>3. ProcessesInv'  BY <2>1, ProcessesStay, Zenon
  <2>4. n # "start" /\ n # "kill"  BY <1>12 DEF Acting
  <2>5. AsTyped  BY <2>1, <2>4, Zenon
  <2>. QED  BY <1>7, <2>1, <2>2, <2>3, <2>5, Zenon DEF Gone, Fresh
<1>. QED  BY <1>8, <1>9, <1>10, <1>11, <1>12 DEF Acting

LEMMA ShellBegins == ShellAssumption /\ ShellInit => ShellInv
<1>. SUFFICES ASSUME ShellAssumption, ShellInit PROVE ShellInv  OBVIOUS
<1>1. LineInv
  <2>1. "none" # "kill" /\ "none" # "start"  OBVIOUS
  <2>. QED  BY <2>1, Zenon DEF ShellInit, LineInv, NamedRuns, Runs
<1>2. ProcessesInv
  <2>1. Process(FirstID, "tty").id = FirstID /\ Process(FirstID, "tty").program = "tty"  BY DEF Process
  <2>2. "tty" \in DOMAIN StartableProcesses  BY StartableProcessesAre
  <2>3. FirstID \in FirstID .. MaxID /\ FirstID \in FirstID .. FirstID  BY DEF ShellAssumption, IDAssumption
  <2>. QED  BY <2>1, <2>2, <2>3, Zenon DEF ShellInit, ProcessesInv, AnswerNamesIt, NoneTwice
<1>3. FontInv
  <2>1. "idle" # "tested" /\ "idle" # "beyond" /\ 0 \in 0 .. 255  OBVIOUS
  <2>. QED  BY <2>1, Zenon DEF ShellInit, FontInv, FontExists
<1>4. LoopTypeOK /\ LoopInv  BY DEF ShellInit, LoopTypeOK, LoopInv
<1>. QED  BY <1>1, <1>2, <1>3, <1>4, Zenon DEF ShellInv, ShellInit

(* A command that comes into a start of the loop.                          *)
LEMMA DisturbKeeps ==
    ASSUME ShellAssumption, ProcessesInv, LoopTypeOK, LoopInv, Shells # {}, Disturb
    PROVE  mixed \subseteq mixed' /\ LoopTypeOK' /\ (Fresh => LoopInv')
<1>1. starting' = starting /\ loading' = loading /\ own' = own  BY DEF Disturb
<1>2. mixed \subseteq mixed'  BY Zenon DEF Disturb
<1>3. LoopTypeOK'
  <2>1. mixed' \subseteq {"twin", "id", "lost"}
    <3>. DEFINE T == {"twin" : q \in {p \in Processes' \ Processes : p.program = loading
                                            /\ starting \notin {"idle", "search"}}}
                I == IF starting = "read" /\ NewID' # NewID THEN {"id"} ELSE {}
    <3>1. T \subseteq {"twin"} /\ I \subseteq {"id"}  BY Zenon
    <3>2. mixed' = mixed \cup T \cup I  BY Zenon DEF Disturb
    <3>. HIDE DEF T, I
    <3>. QED  BY <3>1, <3>2 DEF LoopTypeOK
  <2>2. changed' \in BOOLEAN  BY DEF Disturb, LoopTypeOK
  <2>. QED  BY <1>1, <2>1, <2>2, Zenon DEF LoopTypeOK
<1>4. Processes # {}  BY Zenon DEF Shells
<1>5. ASSUME Fresh PROVE LoopInv'
  <2>1. NewID \in FirstID .. MaxID /\ FirstID \in Nat /\ MaxID \in Nat
    BY Zenon DEF ProcessesInv, ShellAssumption, IDAssumption
  <2>2. loading = "tty" => starting = "idle"  BY <1>4, Zenon DEF LoopInv
  <2>3. ASSUME starting \notin {"idle", "search"}, "twin" \notin mixed', NEW q \in Processes'
        PROVE  q.program # loading
    <3>1. CASE q \in Processes  BY <1>2, <2>3, <3>1, Zenon DEF LoopInv
    <3>2. CASE q \notin Processes /\ q.program = loading
      <4>1. "twin" \in {"twin" : w \in {p \in Processes' \ Processes : p.program = loading
                                            /\ starting \notin {"idle", "search"}}}
        BY <2>3, <3>2, Zenon
      <4>. QED  BY <2>3, <4>1, Zenon DEF Disturb
    <3>. QED  BY <3>1, <3>2, Zenon
  <2>4. starting \in {"push", "store"} => own \in FirstID .. NewID'
    BY <1>5, <2>1 DEF LoopInv, Fresh
  <2>5. ASSUME "id" \notin mixed', starting = "read", NEW q \in Processes'
        PROVE  q.id # NewID'
    <3>1. NewID' = NewID  BY <2>5, Zenon DEF Disturb
    <3>2. NewID # NewID + 1  BY <2>1
    <3>3. q \in Processes  BY <1>5, <3>1, <3>2, Zenon DEF Fresh
    <3>. QED  BY <1>2, <2>5, <3>1, <3>3, Zenon DEF LoopInv
  <2>6. ASSUME "id" \notin mixed', starting \in {"push", "store"}, NEW q \in Processes'
        PROVE  q.id # own
    <3>1. CASE q \in Processes  BY <1>2, <2>6, <3>1, Zenon DEF LoopInv
    <3>2. CASE q \notin Processes
      <4>1. q.id = NewID + 1  BY <1>5, <3>2, Zenon DEF Fresh
      <4>2. own \in FirstID .. NewID  BY <2>6, Zenon DEF LoopInv
      <4>. QED  BY <2>1, <4>1, <4>2
    <3>. QED  BY <3>1, <3>2
  <2>. QED  BY <1>1, <2>2, <2>3, <2>4, <2>5, <2>6, Zenon DEF LoopInv
<1>. QED  BY <1>2, <1>3, <1>5, Zenon

LEMMA BeginKeeps ==
    ASSUME ProcessesInv, LoopTypeOK, LoopInv, NEW program \in {"topbar", "tty"}, Begin(program),
           program = "tty" => Processes = {}
    PROVE  /\ ProcessesInv' /\ LoopTypeOK' /\ LoopInv' /\ Processes' = Processes
           /\ UNCHANGED <<line, ran, started, killed, opening, fontVars>>
<1>1. /\ starting' = "search" /\ loading' = program
      /\ own' = own /\ changed' = changed /\ mixed' = mixed
      /\ Processes' = Processes /\ NewID' = NewID /\ started' = started /\ answer' = answer
      /\ UNCHANGED <<line, ran, started, killed, opening, fontVars>>
  BY DEF Begin
<1>2. ProcessesInv'  BY <1>1, ProcessesStay
<1>3. LoopTypeOK'  BY <1>1 DEF LoopTypeOK
<1>4. LoopInv'
  <2>1. "search" \in {"idle", "search"} /\ "search" \notin {"push", "store"} /\ "search" # "read"  OBVIOUS
  <2>. QED  BY <1>1, <2>1, Zenon DEF LoopInv
<1>. QED  BY <1>1, <1>2, <1>3, <1>4, Zenon

LEMMA SearchKeeps ==
    ASSUME ProcessesInv, LoopTypeOK, LoopInv, Search, opening \in BOOLEAN
    PROVE  /\ ProcessesInv' /\ LoopTypeOK' /\ LoopInv' /\ Processes' = Processes
           /\ opening' \in BOOLEAN /\ UNCHANGED <<line, ran, started, killed, fontVars>>
<1>1. /\ starting = "search" /\ loading' = loading /\ own' = own
      /\ Processes' = Processes /\ NewID' = NewID /\ started' = started /\ answer' = answer
      /\ UNCHANGED <<line, ran, started, killed, fontVars>>
  BY DEF Search
<1>2. \/ starting' = "idle" /\ mixed' = mixed
      \/ starting' = "number" /\ mixed' = mixed \cup (IF Running(loading) THEN {"twin"} ELSE {})
  BY Zenon DEF Search, Finish
<1>3. changed' = FALSE /\ opening' \in BOOLEAN
  <2>1. Finish => changed' = FALSE /\ opening' \in BOOLEAN  BY DEF Finish
  <2>. QED  BY <2>1, Zenon DEF Search
<1>4. mixed \subseteq mixed' /\ mixed' \subseteq mixed \cup {"twin"}  BY <1>2
<1>5. ProcessesInv'  BY <1>1, <1>4, ProcessesStay
<1>6. LoopTypeOK'  BY <1>1, <1>2, <1>3, <1>4 DEF LoopTypeOK
<1>7. LoopInv'
  <2>1. CASE starting' = "idle" /\ mixed' = mixed
    <3>1. "idle" \notin {"push", "store"} /\ "idle" # "read"  OBVIOUS
    <3>. QED  BY <1>1, <2>1, <3>1, Zenon DEF LoopInv
  <2>2. CASE starting' = "number" /\ mixed' = mixed \cup (IF Running(loading) THEN {"twin"} ELSE {})
    <3>1. "number" \notin {"push", "store"} /\ "number" # "read" /\ "search" # "idle"  OBVIOUS
    <3>2. "twin" \notin mixed' => \A q \in Processes' : q.program # loading'
      BY <1>1, <2>2, Zenon DEF Running
    <3>. QED  BY <1>1, <2>2, <3>1, <3>2, Zenon DEF LoopInv
  <2>. QED  BY <1>2, <2>1, <2>2
<1>. QED  BY <1>1, <1>3, <1>5, <1>6, <1>7, Zenon

(* The ID is counted up, read, and the size raised.                        *)
LEMMA CountingKeeps ==
    ASSUME ShellAssumption, ProcessesInv, LoopTypeOK, LoopInv, IncrementID \/ ReadID \/ RaiseSize
    PROVE  /\ ProcessesInv' /\ LoopTypeOK' /\ LoopInv' /\ Processes' = Processes
           /\ UNCHANGED <<line, ran, started, killed, opening, fontVars>>
<1>1. /\ loading' = loading /\ changed' = changed /\ mixed' = mixed
      /\ Processes' = Processes /\ started' = started /\ answer' = answer
      /\ UNCHANGED <<line, ran, started, killed, opening, fontVars>>
  BY DEF IncrementID, ReadID, RaiseSize
<1>2. /\ NewID \in FirstID .. MaxID /\ FirstID \in Nat /\ MaxID \in Nat
      /\ \A q \in Processes : q.id \in FirstID .. NewID
  BY Zenon DEF ProcessesInv, ShellAssumption, IDAssumption
<1>3. CASE IncrementID
  <2>1. starting = "number" /\ starting' = "read" /\ NewID < MaxID /\ NewID' = NewID + 1 /\ own' = own
    BY <1>3 DEF IncrementID
  <2>2. NewID' \in FirstID .. MaxID /\ \A k \in FirstID .. NewID : k \in FirstID .. NewID' /\ k # NewID'
    BY <1>2, <2>1
  <2>3. AnswerNamesIt' /\ NoneTwice'  BY <1>1, Zenon DEF ProcessesInv, AnswerNamesIt, NoneTwice
  <2>4. ProcessesInv'  BY <1>1, <1>2, <2>2, <2>3, Zenon DEF ProcessesInv
  <2>5. LoopTypeOK'  BY <1>1, <2>1 DEF LoopTypeOK
  <2>6. LoopInv'
    <3>1. "read" \notin {"push", "store"} /\ "number" \notin {"idle", "search"} /\ "number" # "idle"  OBVIOUS
    <3>. QED  BY <1>1, <1>2, <2>1, <2>2, <3>1, Zenon DEF LoopInv
  <2>. QED  BY <1>1, <2>4, <2>5, <2>6, Zenon
<1>4. CASE ReadID
  <2>1. starting = "read" /\ starting' = "push" /\ NewID' = NewID /\ own' = NewID
    BY <1>4 DEF ReadID
  <2>2. ProcessesInv'  BY <1>1, <2>1, ProcessesStay
  <2>3. LoopTypeOK'  BY <1>1, <1>2, <2>1 DEF LoopTypeOK
  <2>4. LoopInv'
    <3>1. "read" \notin {"idle", "search"} /\ "push" # "read" /\ "read" # "idle"  OBVIOUS
    <3>2. NewID \in FirstID .. NewID  BY <1>2
    <3>. QED  BY <1>1, <2>1, <3>1, <3>2, Zenon DEF LoopInv
  <2>. QED  BY <1>1, <2>2, <2>3, <2>4, Zenon
<1>5. CASE RaiseSize
  <2>1. starting = "push" /\ starting' = "store" /\ NewID' = NewID /\ own' = own
    BY <1>5 DEF RaiseSize
  <2>2. ProcessesInv'  BY <1>1, <2>1, ProcessesStay
  <2>3. LoopTypeOK'  BY <1>1, <2>1 DEF LoopTypeOK
  <2>4. LoopInv'
    <3>1. "push" \notin {"idle", "search"} /\ "store" # "read" /\ "push" # "idle"  OBVIOUS
    <3>. QED  BY <1>1, <2>1, <3>1, Zenon DEF LoopInv
  <2>. QED  BY <1>1, <2>2, <2>3, <2>4, Zenon
<1>. QED  BY <1>3, <1>4, <1>5

(* What is pushed is the only one of its program and ID, and nothing goes  *)
(* unless a command came into the Push.                                    *)
LEMMA StoreKeeps ==
    ASSUME ShellAssumption, ProcessesInv, LoopTypeOK, LoopInv, Store, opening \in BOOLEAN
    PROVE  /\ ProcessesInv' /\ LoopTypeOK' /\ LoopInv' /\ Gone
           /\ opening' \in BOOLEAN /\ UNCHANGED <<line, ran, started, killed, fontVars>>
<1>. DEFINE new == Process(own, loading)
<1>1. /\ starting = "store" /\ starting' = "idle" /\ loading' = loading /\ own' = own
      /\ NewID' = NewID /\ started' = started /\ answer' = answer
      /\ UNCHANGED <<line, ran, started, killed, fontVars>>
  BY DEF Store, Finish
<1>2. changed' = FALSE /\ opening' \in BOOLEAN  BY DEF Store, Finish
<1>3. mixed' = mixed \cup (IF changed THEN {"lost"} ELSE {})  BY Zenon DEF Store
<1>4. PICK over \in SUBSET Processes :
          /\ Processes' = (Processes \ over) \cup {new}
          /\ ~changed => over = {}
  <2>1. PICK over \in {{}} \cup (IF changed THEN {{q} : q \in Processes} ELSE {}) :
          Processes' = (Processes \ over) \cup {new}
    BY Zenon DEF Store
  <2>2. over \in SUBSET Processes  BY <2>1
  <2>3. ~changed => over = {}  BY <2>1
  <2>. QED  BY <2>1, <2>2, <2>3, Zenon
<1>5. new.id = own /\ new.program = loading /\ new = Process(new.id, new.program)  BY DEF Process
<1>6. /\ own \in FirstID .. NewID /\ loading \in {"topbar", "tty"}
      /\ loading = "tty" => Processes = {}
      /\ "twin" \notin mixed => \A q \in Processes : q.program # loading
      /\ "id" \notin mixed => \A q \in Processes : q.id # own
  <2>1. "store" \notin {"idle", "search"} /\ "store" # "idle" /\ "store" \in {"push", "store"}  OBVIOUS
  <2>. QED  BY <1>1, <2>1, Zenon DEF LoopInv
<1>7. loading \in DOMAIN StartableProcesses
  <2>1. "topbar" \in DOMAIN StartableProcesses /\ "tty" \in DOMAIN StartableProcesses  BY StartableProcessesAre
  <2>. QED  BY <1>6, <2>1
<1>. HIDE DEF new
<1>8. \A q \in Processes' : q = new \/ q \in Processes
  <2>1. ASSUME NEW q \in Processes'  PROVE q = new \/ q \in Processes
    <3>1. q \in (Processes \ over) \cup {new}  BY <1>4, Zenon DEF new
    <3>. QED  BY <3>1, Zenon
  <2>. QED  BY <2>1, Zenon
<1>9. ~changed => Processes' = Processes \cup {new}
  <2>1. over = {} => (Processes \ over) \cup {new} = Processes \cup {new}  BY Zenon
  <2>. QED  BY <1>4, <2>1, Zenon DEF new
<1>10. "lost" \notin mixed' => "lost" \notin mixed /\ Processes' = Processes \cup {new}
  <2>1. "lost" \notin mixed' => ~changed /\ "lost" \notin mixed  BY <1>3
  <2>. QED  BY <1>9, <2>1
<1>11. "twin" \in mixed <=> "twin" \in mixed'  BY <1>3
<1>12. "id" \in mixed <=> "id" \in mixed'  BY <1>3
<1>13. AnswerNamesIt'
  <2>1. SUFFICES ASSUME answer # 0, started # "none", "lost" \notin mixed'
                 PROVE  /\ Process(answer, started) \in Processes'
                        /\ \A q \in Processes' : q.id = answer => q.program = started \/ "id" \in mixed'
    BY <1>1, Zenon DEF AnswerNamesIt
  <2>2. /\ Process(answer, started) \in Processes
        /\ \A q \in Processes : q.id = answer => q.program = started \/ "id" \in mixed
    BY <1>10, <2>1, Zenon DEF ProcessesInv, AnswerNamesIt
  <2>3. Process(answer, started).id = answer  BY DEF Process
  <2>4. "id" \notin mixed => own # answer  BY <1>6, <2>2, <2>3, Zenon
  <2>5. Process(answer, started) \in Processes'  BY <1>10, <2>1, <2>2, Zenon
  <2>. QED  BY <1>5, <1>8, <1>12, <2>2, <2>4, <2>5, Zenon
<1>14. NoneTwice'
  <2>1. SUFFICES ASSUME "lost" \notin mixed', NEW q \in Processes', NEW r \in Processes'
                 PROVE  /\ q.program = r.program => q = r \/ "twin" \in mixed'
                        /\ {q.program, r.program} \subseteq Fullscreen => q = r
    BY Zenon DEF NoneTwice
  <2>2. \A p \in Processes : ~({loading, p.program} \subseteq Fullscreen)
    <3>1. "topbar" \notin Fullscreen  BY DEF Fullscreen
    <3>. QED  BY <1>6, <3>1, Zenon
  <2>3. CASE q = new /\ r = new  BY <2>3, Zenon
  <2>4. CASE q = new /\ r \in Processes  BY <1>5, <1>6, <1>11, <2>2, <2>4, Zenon
  <2>5. CASE q \in Processes /\ r = new  BY <1>5, <1>6, <1>11, <2>2, <2>5, Zenon
  <2>6. CASE q \in Processes /\ r \in Processes
    BY <1>10, <1>11, <2>1, <2>6, Zenon DEF ProcessesInv, NoneTwice
  <2>. QED  BY <1>8, <2>3, <2>4, <2>5, <2>6, Zenon
<1>15. ProcessesInv'
  <2>1. /\ \A q \in Processes' : q = Process(q.id, q.program) /\ q.program \in DOMAIN StartableProcesses
        /\ \A q \in Processes' : q.id \in FirstID .. NewID'
    BY <1>1, <1>5, <1>6, <1>7, <1>8, Zenon DEF ProcessesInv
  <2>. QED  BY <1>1, <1>13, <1>14, <2>1, Zenon DEF ProcessesInv
<1>16. LoopTypeOK'
  <2>1. mixed' \subseteq {"twin", "id", "lost"}  BY <1>3 DEF LoopTypeOK
  <2>. QED  BY <1>1, <1>2, <2>1 DEF LoopTypeOK
<1>17. LoopInv'
  <2>1. "idle" \in {"idle", "search"} /\ "idle" \notin {"push", "store"} /\ "idle" # "read"  OBVIOUS
  <2>. QED  BY <1>1, <2>1, Zenon DEF LoopInv
<1>18. Gone
  <2>1. CASE changed  BY <1>3, <2>1, Zenon DEF Gone
  <2>2. CASE ~changed
    <3>1. \A q \in Processes : q \in Processes'
      <4>1. Processes' = Processes \cup {new}  BY <1>9, <2>2
      <4>. QED  BY <4>1, Zenon
    <3>. QED  BY <3>1, Zenon DEF Gone
  <2>. QED  BY <2>1, <2>2
<1>. QED  BY <1>1, <1>2, <1>15, <1>16, <1>17, <1>18, Zenon

LEMMA LoopKeeps ==
    ASSUME ShellAssumption, ShellInv, LoopStarts
    PROVE  /\ ProcessesInv' /\ LoopTypeOK' /\ LoopInv' /\ Gone
           /\ opening' \in BOOLEAN /\ UNCHANGED <<line, ran, started, killed, fontVars>>
<1>1. ProcessesInv /\ LoopTypeOK /\ LoopInv /\ opening \in BOOLEAN  BY Zenon DEF ShellInv
<1>2. Processes' = Processes => Gone  BY Zenon DEF Gone
<1>3. CASE OpenAnimation
  <2>1. "topbar" \in DOMAIN StartableProcesses  BY StartableProcessesAre
  <2>2. Found(ProcessHash, StartableProcesses["topbar"]) = {"topbar"}  BY <2>1, ProcessFound, Zenon
  <2>3. Begin("topbar") /\ "topbar" # "tty"  BY <1>3, <2>2 DEF OpenAnimation
  <2>. QED  BY <1>1, <1>2, <2>3, BeginKeeps
<1>4. CASE Restart
  <2>1. Begin("tty") /\ Processes = {}  BY <1>4, Zenon DEF Restart
  <2>. QED  BY <1>1, <1>2, <2>1, BeginKeeps
<1>5. CASE Search  BY <1>1, <1>2, <1>5, SearchKeeps, Zenon
<1>6. CASE IncrementID \/ ReadID \/ RaiseSize  BY <1>1, <1>2, <1>6, CountingKeeps
<1>7. CASE Store  BY <1>1, <1>7, StoreKeeps, Zenon
<1>. QED  BY <1>3, <1>4, <1>5, <1>6, <1>7, Zenon DEF LoopStarts

LEMMA ShellKeeps ==
    ASSUME ShellAssumption, ShellInv, [ShellNext]_shellVars
    PROVE  ShellInv' /\ (UNCHANGED shellVars \/ Gone)
<1>. USE DEF ShellInv
<1>1. CASE \E s \in Lines : Enter(s)
  <2>1. PICK s \in Lines : /\ System(s) /\ opening' = (opening \/ (started' = "desktop" /\ answer' # 0))
                           /\ Shells # {} /\ Disturb
    BY <1>1, Zenon DEF Enter
  <2>2. opening' \in BOOLEAN  BY <2>1
  <2>3. mixed \subseteq mixed' /\ LoopTypeOK' /\ (Fresh => LoopInv')  BY <2>1, DisturbKeeps, Zenon
  <2>. QED  BY <2>1, <2>2, <2>3, SystemKeeps, Zenon
<1>2. CASE LoopStarts
  <2>1. /\ ProcessesInv' /\ LoopTypeOK' /\ LoopInv' /\ Gone /\ opening' \in BOOLEAN
        /\ line' = line /\ ran' = ran /\ started' = started /\ killed' = killed
        /\ SelectedFont' = SelectedFont /\ font' = font /\ raced' = raced
    BY <1>2, LoopKeeps DEF fontVars
  <2>2. LineInv'  BY <2>1, Zenon DEF LineInv, NamedRuns, Runs
  <2>3. FontInv'  BY <2>1 DEF FontInv, FontExists
  <2>. QED  BY <2>1, <2>2, <2>3, Zenon
<1>3. CASE TestFont \/ ReadFont \/ UNCHANGED shellVars
  <2>1. /\ line' = line /\ ran' = ran /\ started' = started /\ answer' = answer /\ Processes' = Processes
        /\ killed' = killed /\ NewID' = NewID /\ opening' = opening
        /\ starting' = starting /\ loading' = loading /\ own' = own /\ changed' = changed /\ mixed' = mixed
    BY <1>3 DEF TestFont, ReadFont, shellVars, loop
  <2>2. LineInv'  BY <2>1, Zenon DEF LineInv, NamedRuns, Runs
  <2>3. mixed \subseteq mixed'  BY <2>1, Zenon
  <2>4. ProcessesInv'  BY <2>1, <2>3, ProcessesStay
  <2>5. LoopTypeOK' /\ LoopInv'  BY <2>1, Zenon DEF LoopTypeOK, LoopInv
  <2>6. FontInv'
    <3>1. CASE TestFont
      <4>1. SelectedFont' = (IF Missing THEN 0 ELSE SelectedFont) /\ font' = "tested" /\ raced' = FALSE
        BY <3>1, Zenon DEF TestFont
      <4>2. SelectedFont' \in 0 .. 255 /\ SelectedFont' < FontAmount
        BY <4>1 DEF FontInv, Missing, ShellAssumption, FontAssumption
      <4>3. "tested" # "beyond"  OBVIOUS
      <4>. QED  BY <4>1, <4>2, <4>3, Zenon DEF FontInv, FontExists
    <3>2. CASE ReadFont
      <4>1. /\ font = "tested" /\ SelectedFont' = SelectedFont
            /\ \/ SelectedFont < FontAmount /\ font' = "idle" /\ raced' = FALSE
               \/ SelectedFont >= FontAmount /\ font' = "beyond" /\ raced' = raced
        BY <3>2 DEF ReadFont, Missing
      <4>2. font' = "beyond" => raced
        BY <4>1 DEF FontInv, ShellAssumption, FontAssumption
      <4>3. SelectedFont' \in 0 .. 255 /\ raced' \in BOOLEAN /\ font' \in {"idle", "beyond"}
        BY <4>1 DEF FontInv
      <4>4. font' = "beyond" => raced'  BY <4>1, <4>2
      <4>. QED  BY <4>3, <4>4 DEF FontInv, FontExists
    <3>3. CASE UNCHANGED shellVars
      <4>1. font' = font /\ SelectedFont' = SelectedFont /\ raced' = raced  BY <3>3 DEF shellVars, fontVars
      <4>. QED  BY <4>1 DEF FontInv, FontExists
    <3>. QED  BY <1>3, <3>1, <3>2, <3>3
  <2>7. Gone  BY <2>1, Zenon DEF Gone
  <2>. QED  BY <2>1, <2>2, <2>4, <2>5, <2>6, <2>7, Zenon
<1>. QED  BY <1>1, <1>2, <1>3, Zenon DEF ShellNext

LEMMA ShellShows ==
    ASSUME ShellAssumption, ShellInv
    PROVE  ShellTypeOK /\ NamedRuns /\ KillsListed /\ AnswerNamesIt /\ NoneTwice /\ FontExists
<1>1. ShellTypeOK
  BY Zenon DEF ShellTypeOK, ShellInv, LineInv, ProcessesInv, FontInv, LoopTypeOK
<1>2. KillsListed
  <2>1. ASSUME NEW id \in FirstID .. MaxID, ran = "kill", NextWord(line) = ToString(id)
        PROVE  killed = id
    <3>1. MaxID < Ten(9)  BY Zenon DEF ShellAssumption, IDAssumption, Ten
    <3>2. Ten(9) <= Ten(10) /\ Ten(9) \in Nat /\ Ten(10) \in Nat  BY Powers, SMT
    <3>3. id \in Nat /\ id < Ten(10)  BY <3>1, <3>2 DEF ShellAssumption, IDAssumption
    <3>. QED  BY <2>1, <3>3, ToIntOfString, Zenon DEF ShellInv, LineInv
  <2>. QED  BY <2>1, Zenon DEF KillsListed
<1>. QED  BY <1>1, <1>2, Zenon DEF ShellInv, LineInv, ProcessesInv, FontInv

(* A line that is typed runs the command and starts the program that it    *)
(* names, kill is for the process of the number that is typed, the answer  *)
(* to a start is the ID of the program, nothing runs twice, a process goes *)
(* by a kill for it or for another on the whole screen, and a font that is *)
(* used exists unless one was set since the test, whatever the arguments,  *)
(* the IDs and the number of fonts are.                                    *)
THEOREM ShellIsRight == ShellAssumption => (ShellSpec => ShellRight)
<1>. SUFFICES ASSUME ShellAssumption  PROVE ShellSpec => ShellRight
  OBVIOUS
<1>1. ShellInit => ShellInv  BY ShellBegins
<1>2. ShellInv /\ [ShellNext]_shellVars => ShellInv'  BY ShellKeeps
<1>3. ShellInv /\ [ShellNext]_shellVars => [Gone]_shellVars  BY ShellKeeps
<1>4. ShellInv => ShellTypeOK /\ NamedRuns /\ KillsListed /\ AnswerNamesIt /\ NoneTwice /\ FontExists
  BY ShellShows
<1>5. ShellSpec => [][Gone]_shellVars  BY <1>1, <1>2, <1>3, PTL DEF ShellSpec
<1>6. [][Gone]_shellVars => GoneWasKilled  BY PTL DEF Gone, GoneWasKilled
<1>7. ShellSpec => [](ShellTypeOK /\ NamedRuns /\ KillsListed /\ AnswerNamesIt /\ NoneTwice /\ FontExists)
  BY <1>1, <1>2, <1>4, PTL DEF ShellSpec
<1>. QED  BY <1>5, <1>6, <1>7, PTL DEF ShellRight

-----------------------------------------------------------------------------
(* The tables                                                              *)

(* How many characters a number of k digits at most, and one of more than  *)
(* j, has.                                                                 *)
LEMMA DigitsAre ==
    ASSUME NEW n \in Nat, NEW k \in 1 .. 10, n < Ten(k)
    PROVE  /\ DigitsOf(n) \in 1 .. k
           /\ \A j \in 0 .. 9 : n >= Ten(j) => DigitsOf(n) >= j + 1
<1>1. k \in 0 .. 10 /\ Ten(k) \in Nat /\ Ten(10) \in Nat /\ Ten(k) <= Ten(10) /\ n < Ten(10)
  <2>1. k \in 0 .. 10 /\ 10 \in 0 .. 10  OBVIOUS
  <2>2. k <= 10  OBVIOUS
  <2>3. Ten(k) \in Nat /\ Ten(10) \in Nat /\ Ten(k) <= Ten(10)  BY <2>1, <2>2, PowersGrow, Zenon
  <2>4. n < Ten(10)  BY <2>3
  <2>. QED  BY <2>1, <2>3, <2>4, Zenon
<1>2. PICK d \in 1 .. 10 : d = Len(ToString(n))  BY <1>1, ToStringIs, Zenon
<1>3. CASE n = 0
  <2>1. ToString(n) = <<48>>  BY <1>1, <1>3, ToStringIs, Zenon
  <2>2. d = 1  BY <1>2, <2>1
  <2>3. \A j \in 0 .. 9 : ~(n >= Ten(j))
    <3>1. SUFFICES ASSUME NEW j \in 0 .. 9 PROVE ~(n >= Ten(j))  BY Zenon
    <3>2. j \in 0 .. 10  OBVIOUS
    <3>3. Ten(j) \in Nat /\ Ten(j) > 0  BY <3>2, PowersGrow, Zenon
    <3>. QED  BY <1>3, <3>3
  <2>4. 1 \in 1 .. k  OBVIOUS
  <2>. QED  BY <1>2, <2>2, <2>3, <2>4, Zenon DEF DigitsOf
<1>4. CASE n # 0
  <2>1. n < Ten(d) /\ (d = 0 \/ n >= Ten(d - 1))
    BY <1>1, <1>2, <1>4, ToStringIs, Zenon DEF HasDigits
  <2>2. d - 1 \in 0 .. 10 /\ d \in 0 .. 10 /\ d # 0  OBVIOUS
  <2>3. d <= k
    <3>1. SUFFICES ASSUME k <= d - 1 PROVE FALSE  OBVIOUS
    <3>2. Ten(k) <= Ten(d - 1)  BY <1>1, <2>2, <3>1, PowersGrow, Zenon
    <3>3. Ten(d - 1) \in Nat  BY <2>2, PowersGrow, Zenon
    <3>. QED  BY <1>1, <2>1, <2>2, <3>2, <3>3
  <2>4. ASSUME NEW j \in 0 .. 9, n >= Ten(j)  PROVE d >= j + 1
    <3>1. SUFFICES ASSUME d <= j PROVE FALSE  OBVIOUS
    <3>2. j \in 0 .. 10  OBVIOUS
    <3>3. Ten(d) <= Ten(j) /\ Ten(d) \in Nat /\ Ten(j) \in Nat  BY <2>2, <3>1, <3>2, PowersGrow, Zenon
    <3>. QED  BY <2>1, <2>4, <3>3
  <2>5. d \in 1 .. k  BY <2>3
  <2>. QED  BY <1>2, <2>4, <2>5, Zenon DEF DigitsOf
<1>. QED  BY <1>3, <1>4

(* The numbers of the tables.                                              *)
LEMMA Digits ==
    /\ \A n \in Nat : n < Ten(9) => DigitsOf(n) \in 1 .. 9
    /\ \A n \in 0 .. 9 : DigitsOf(n) = 1
    /\ \A n \in 0 .. 31 : DigitsOf(n) \in 1 .. 2
    /\ \A n \in 64 .. 999 : DigitsOf(n) \in 2 .. 3
    /\ \A n \in Nat : n < Ten(6) => DigitsOf(n) \in 1 .. 6
<1>1. \A n \in Nat, k \in 1 .. 10 : n < Ten(k) => /\ DigitsOf(n) \in 1 .. k
                                                  /\ \A j \in 0 .. 9 : n >= Ten(j) => DigitsOf(n) >= j + 1
  BY DigitsAre, Zenon
<1>2. 1 \in 1 .. 10 /\ 2 \in 1 .. 10 /\ 3 \in 1 .. 10 /\ 6 \in 1 .. 10 /\ 9 \in 1 .. 10 /\ 1 \in 0 .. 9
  OBVIOUS
<1>3. ASSUME NEW n \in Nat, n < Ten(9)  PROVE DigitsOf(n) \in 1 .. 9
  BY <1>1, <1>2, <1>3, Zenon
<1>4. ASSUME NEW n \in 0 .. 9  PROVE DigitsOf(n) = 1
  <2>1. n \in Nat /\ n < Ten(1)  BY Powers, SMT
  <2>2. DigitsOf(n) \in 1 .. 1  BY <1>1, <1>2, <2>1, Zenon
  <2>. QED  BY <2>2
<1>5. ASSUME NEW n \in 0 .. 31  PROVE DigitsOf(n) \in 1 .. 2
  <2>1. n \in Nat /\ n < Ten(2)  BY Powers, SMT
  <2>. QED  BY <1>1, <1>2, <2>1, Zenon
<1>6. ASSUME NEW n \in 64 .. 999  PROVE DigitsOf(n) \in 2 .. 3
  <2>1. n \in Nat /\ n < Ten(3) /\ n >= Ten(1)  BY Powers, SMT
  <2>2. DigitsOf(n) \in 1 .. 3 /\ DigitsOf(n) >= 1 + 1  BY <1>1, <1>2, <2>1, Zenon
  <2>. QED  BY <2>2
<1>7. ASSUME NEW n \in Nat, n < Ten(6)  PROVE DigitsOf(n) \in 1 .. 6
  BY <1>1, <1>2, <1>7, Zenon
<1>. QED  BY <1>3, <1>4, <1>5, <1>6, <1>7, Zenon

(* A line of two entries is of one length, unless one fills its column.    *)
LEMMA LineIsLong ==
    /\ \A a \in 0 .. 10, b \in 0 .. 30 : LineOf(<<a, b>>) = 70 /\ ~Fills(<<a, b>>)
    /\ \A a \in 0 .. 10, b \in 0 .. 31 : LineOf(<<a, b>>) \in Nat
    /\ \A a \in 0 .. 10, b \in 0 .. 31 : ~Fills(<<a, b>>) => b \in 0 .. 30
    /\ WriteLine(2) = 69
<1>. DEFINE L(a, b) == LineOf(<<a, b>>)
            F(a, b) == Fills(<<a, b>>)
<1>1. ASSUME NEW a \in 0 .. 10, NEW b \in 0 .. 31
      PROVE  L(a, b) \in Nat /\ (b # 31 => L(a, b) = 70) /\ (F(a, b) <=> (b = 31))
  <2>1. StartLine(a) = 2 + a  BY DEF StartLine, Write
  <2>2. \A n, l \in Int : NextEntry(n, l) = n + (33 - (n % 33)) + 2 + l
    BY DEF NextEntry, Write, Padding, Column
  <2>3. NextEntry(2 + a, b) = 35 + b
    <3>1. (2 + a) % 33 = 2 + a /\ 2 + a \in Int /\ b \in Int  OBVIOUS
    <3>. QED  BY <2>2, <3>1
  <2>4. NextEntry(35 + b, 0) = 35 + b + (33 - ((35 + b) % 33)) + 2 + 0
    <3>1. 35 + b \in Int /\ 0 \in Int  OBVIOUS
    <3>. QED  BY <2>2, <3>1, Zenon
  <2>5. (b # 31 => (35 + b) % 33 = b + 2) /\ (b = 31 => (35 + b) % 33 = 0)  OBVIOUS
  <2>6. EndLine(2 + a, b) = NextEntry(35 + b, 0) + 2  BY <2>3, Zenon DEF EndLine
  <2>7. EndLine(2 + a, b) \in Nat /\ (b # 31 => EndLine(2 + a, b) = 70)  BY <2>4, <2>5, <2>6
  <2>8. <<a, b>>[1] = a /\ <<a, b>>[2] = b  OBVIOUS
  <2>9. LineOf(<<a, b>>) = EndLine(2 + a, b)  BY <2>1, <2>8, Zenon DEF LineOf
  <2>10. Fills(<<a, b>>) <=> (2 + a) % 33 = 0 \/ (2 + b) % 33 = 0  BY <2>8, Zenon DEF Fills, Column
  <2>11. (2 + a) % 33 # 0 /\ ((2 + b) % 33 = 0 <=> b = 31)  OBVIOUS
  <2>. QED  BY <2>7, <2>9, <2>10, <2>11, Zenon
<1>3. WriteLine(2) = 69  BY DEF WriteLine, Column
<1>. HIDE DEF L, F
<1>2. \A a \in 0 .. 10, b \in 0 .. 31 : L(a, b) \in Nat /\ (b # 31 => L(a, b) = 70) /\ (F(a, b) <=> (b = 31))
  BY <1>1, Zenon
<1>4. \A a \in 0 .. 10, b \in 0 .. 30 : L(a, b) = 70 /\ ~F(a, b)  BY <1>2
<1>5. \A a \in 0 .. 10, b \in 0 .. 31 : ~F(a, b) => b \in 0 .. 30  BY <1>2
<1>. QED  BY <1>2, <1>3, <1>4, <1>5, Zenon DEF L, F

(* The entries; those of the list of processes never fill their column.    *)
LEMMA EntriesAre ==
    ASSUME OutputAssumption, NEW t \in Tables, rows \in Nat, t = "sata" => rows <= 31, NEW e \in Entries(t)
    PROVE  \E a \in 0 .. 10, b \in 0 .. 31 : e = <<a, b>> /\ (t = "process" => b \in 0 .. 30)
<1>1. CASE t = "process"
  <2>1. e \in Title \X {DigitsOf(id) : id \in IDs}
    <3>1. Entries("process") = Title \X {DigitsOf(id) : id \in IDs}  BY DEF Entries
    <3>. QED  BY <1>1, <3>1, Zenon
  <2>2. PICK a \in Title, b \in {DigitsOf(id) : id \in IDs} : e = <<a, b>>  BY <2>1
  <2>3. b \in 1 .. 9
    <3>1. PICK id \in IDs : b = DigitsOf(id)  BY Zenon
    <3>2. id \in Nat /\ id < Ten(9)  BY Zenon DEF OutputAssumption, RowsAssumption, Ten
    <3>. QED  BY <3>1, <3>2, Digits, Zenon
  <2>4. a \in 0 .. 10  BY DEF Title
  <2>5. b \in 0 .. 31 /\ b \in 0 .. 30  BY <2>3
  <2>. QED  BY <2>2, <2>4, <2>5, Zenon
<1>2. CASE t = "pci"
  <2>1. e \in Vendor \X Type  BY <1>2 DEF Entries
  <2>2. PICK a \in Vendor, b \in Type : e = <<a, b>>  BY <2>1
  <2>3. a \in 0 .. 10  BY DEF Vendor
  <2>4. b \in 0 .. 31  BY DEF Type, StorageType, DisplayType, BridgeType, SerialType
  <2>. QED  BY <1>2, <2>2, <2>3, <2>4
<1>3. CASE t = "sata"
  <2>1. e \in {DigitsOf(rows)} \X PortEntry
    <3>1. Entries("sata") = {DigitsOf(rows)} \X PortEntry  BY DEF Entries
    <3>. QED  BY <1>3, <3>1, Zenon
  <2>2. PICK a \in {DigitsOf(rows)}, b \in PortEntry : e = <<a, b>>  BY <2>1
  <2>3. a \in 0 .. 10
    <3>1. rows \in 0 .. 31  BY <1>3
    <3>2. a \in 1 .. 2  BY <3>1, Digits, Zenon
    <3>. QED  BY <3>2
  <2>4. b \in 0 .. 31
    <3>1. \A x, y : PortType(x, y) \in {6, 4, 2} \/ y \notin {"SATAPI", "SATA", "PM", "SEMB", "other"}
      BY DEF PortType
    <3>. QED  BY <3>1 DEF PortEntry
  <2>. QED  BY <1>3, <2>2, <2>3, <2>4
<1>. QED  BY <1>1, <1>2, <1>3 DEF Tables

(* A segment's part of heapvis' text.                                      *)
LEMMA SegmentIs ==
    ASSUME OutputAssumption, NEW n \in Sizes
    PROVE  Segment(n) \in 29 .. 34
<1>1. /\ n \in Nat /\ n >= 64
      /\ n >= 1000 => n \div 1000 \in Nat /\ n \div 1000 < Ten(6)
  <2>1. n \in Nat /\ n >= 64 /\ n < Ten(9)  BY Zenon DEF OutputAssumption, RowsAssumption, Ten
  <2>. QED  BY <2>1, Powers, SMT
<1>2. CASE n >= 1000
  <2>1. PICK k \in Nat : k = n \div 1000 /\ k < Ten(6)  BY <1>1, <1>2, SMT
  <2>2. DigitsOf(k) \in 1 .. 6  BY <2>1, Digits
  <2>. QED  BY <1>2, <2>1, <2>2, SMT DEF Segment, SegmentSize, Color
<1>3. CASE ~(n >= 1000)
  <2>1. n \in 64 .. 999  BY <1>1, <1>3
  <2>2. DigitsOf(n) \in 2 .. 3  BY <2>1, Digits, Zenon
  <2>. QED  BY <1>3, <2>2 DEF Segment, SegmentSize, Color
<1>. QED  BY <1>2, <1>3

-----------------------------------------------------------------------------
(* Where the pointer is after some rows, as long as no entry filled its    *)
(* column: two lines, the titles and the rows, and a line behind the last. *)
End == IF ended THEN 69 ELSE 0

OutInv == /\ list \in Tables \cup {"none", "heapvis"}
          /\ at \in Nat /\ rows \in Nat
          /\ full \in BOOLEAN /\ ended \in BOOLEAN
          /\ list = "none" => rows = 0 /\ lengths = {} /\ ~full /\ ~ended
          /\ list \in Tables => rows <= Most(list)
          /\ list \in Tables /\ ~full => at = 208 + 70 * rows + End /\ lengths \subseteq {70}
          /\ list = "process" => ~full
          /\ list = "heapvis" =>
                /\ rows <= MaxRows /\ lengths = {} /\ ~full
                /\ IF ended THEN 33 + 29 * rows <= at /\ at <= 33 + 34 * rows
                            ELSE 11 + 29 * rows <= at /\ at <= 11 + 34 * rows

LEMMA MostIs == /\ "process" \in Tables /\ Most("process") = 8 /\ Most("sata") = 32 /\ Most("pci") = MaxRows
                /\ "none" \notin Tables /\ "heapvis" \notin Tables /\ "none" # "process" /\ "heapvis" # "process"
                /\ \A t \in Tables : t # "none" /\ t # "heapvis"
                /\ \A t : t \in Tables <=> t = "process" \/ t = "pci" \/ t = "sata"
  BY DEF Most, Ports, MostProcesses, Tables

LEMMA MostNat == OutputAssumption => \A t \in Tables : Most(t) \in Nat
<1>1. 8 \in Nat /\ 32 \in Nat  OBVIOUS
<1>. QED  BY <1>1, MostIs, Zenon DEF OutputAssumption, RowsAssumption

LEMMA PlainLines == \A c \in 0 .. 10, d \in 0 .. 30 : LineOf(<<c, d>>) = 70
  BY LineIsLong, Zenon

LEMMA ListBegins ==
    ASSUME OutputAssumption, OutInv, NEW t \in Tables, CommandList(t)
    PROVE  OutInv'
<1>1. list = "none" /\ list' = t /\ rows' = rows /\ lengths' = lengths /\ full' = full /\ ended' = ended
  BY Zenon DEF CommandList
<1>2. rows = 0 /\ lengths = {} /\ ~full /\ ~ended /\ full \in BOOLEAN /\ ended \in BOOLEAN
  BY <1>1, Zenon DEF OutInv
<1>3. at' = 208
  <2>1. \A e : (e = <<4, 4>> \/ e = <<6, 4>> \/ e = <<5, 2>>) => LineOf(e) = 70
    <3>1. LineOf(<<4, 4>>) = 70 /\ LineOf(<<6, 4>>) = 70 /\ LineOf(<<5, 2>>) = 70
      <4>1. 4 \in 0 .. 10 /\ 6 \in 0 .. 10 /\ 5 \in 0 .. 10 /\ 4 \in 0 .. 30 /\ 2 \in 0 .. 30  OBVIOUS
      <4>2. \A a \in 0 .. 10, b \in 0 .. 30 : LineOf(<<a, b>>) = 70  BY LineIsLong, Zenon
      <4>3. LineOf(<<4, 4>>) = 70  BY <4>2
      <4>4. LineOf(<<6, 4>>) = 70  BY <4>2
      <4>5. LineOf(<<5, 2>>) = 70  BY <4>2
      <4>. QED  BY <4>3, <4>4, <4>5, Zenon
    <3>. QED  BY <3>1, Zenon
  <2>2. PICK e : /\ e = <<4, 4>> \/ e = <<6, 4>> \/ e = <<5, 2>>
                 /\ at' = 2 * WriteLine(2) + LineOf(e)
    <3>. DEFINE e == IF t = "sata" THEN <<4, 4>> ELSE IF t = "pci" THEN <<6, 4>> ELSE <<5, 2>>
    <3>1. at' = 2 * WriteLine(2) + LineOf(e)  BY Zenon DEF CommandList
    <3>2. e = <<4, 4>> \/ e = <<6, 4>> \/ e = <<5, 2>>  BY Zenon
    <3>. HIDE DEF e
    <3>. QED  BY <3>1, <3>2, Zenon
  <2>3. LineOf(e) = 70 /\ WriteLine(2) = 69  BY <2>1, <2>2, LineIsLong, Zenon
  <2>. QED  BY <2>2, <2>3
<1>4. End' = 0  BY <1>1, <1>2, Zenon DEF End
<1>5. at' \in Nat /\ at' = 208 + 70 * rows' + End' /\ rows' \in Nat  BY <1>1, <1>2, <1>3, <1>4
<1>6. rows' <= Most(t)  
  <2>1. Most(t) \in Nat  BY MostNat, Zenon
  <2>. QED  BY <1>1, <1>2, <2>1
<1>7. list' # "none" /\ list' # "heapvis"  BY <1>1, MostIs, Zenon
<1>8. full' \in BOOLEAN /\ ended' \in BOOLEAN /\ ~full' /\ lengths' \subseteq {70}  BY <1>1, <1>2, Zenon
<1>. QED  BY <1>1, <1>5, <1>6, <1>7, <1>8, Zenon DEF OutInv

LEMMA RowKeeps ==
    ASSUME OutputAssumption, OutInv, TableRow
    PROVE  OutInv'
<1>1. /\ list \in Tables /\ ~ended /\ rows < Most(list)
      /\ rows' = rows + 1 /\ list' = list /\ ended' = ended
  BY DEF TableRow, More
<1>2. PICK e \in Entries(list) : /\ at' = at + LineOf(e)
                                 /\ lengths' = lengths \cup {LineOf(e)}
                                 /\ full' = (full \/ Fills(e))
  BY Zenon DEF TableRow
<1>3. rows \in Nat /\ at \in Nat /\ full \in BOOLEAN /\ ended \in BOOLEAN  BY Zenon DEF OutInv
<1>4. list = "sata" => rows <= 31
  <2>1. list = "sata" => rows < 32  BY <1>1, MostIs, Zenon
  <2>. QED  BY <1>3, <2>1
<1>5. PICK a \in 0 .. 10, b \in 0 .. 31 : e = <<a, b>> /\ (list = "process" => b \in 0 .. 30)
  BY <1>1, <1>2, <1>3, <1>4, EntriesAre, Zenon
<1>6. LineOf(e) \in Nat /\ (~Fills(e) => LineOf(e) = 70) /\ (list = "process" => ~Fills(e))
  <2>1. LineOf(<<a, b>>) \in Nat  BY LineIsLong, Zenon
  <2>2. \A c \in 0 .. 10, d \in 0 .. 30 : LineOf(<<c, d>>) = 70  BY PlainLines, Zenon
  <2>3. \A c \in 0 .. 10, d \in 0 .. 30 : ~Fills(<<c, d>>)  BY LineIsLong, Zenon
  <2>4. ~Fills(<<a, b>>) => b \in 0 .. 30  BY LineIsLong, Zenon
  <2>. QED  BY <1>5, <2>1, <2>2, <2>3, <2>4, Zenon
<1>7. at' \in Nat /\ rows' \in Nat /\ rows' <= Most(list)
  <2>1. Most(list) \in Nat  BY <1>1, MostNat, Zenon
  <2>. QED  BY <1>1, <1>2, <1>3, <1>6, <2>1
<1>8. ~full' => ~full /\ ~Fills(e)  BY <1>2
<1>9. ~full => at = 208 + 70 * rows /\ lengths \subseteq {70}
  <2>1. ~full => at = 208 + 70 * rows + 0 /\ lengths \subseteq {70}  BY <1>1, Zenon DEF OutInv, End
  <2>. QED  BY <1>3, <2>1
<1>10. End' = 0  BY <1>1, Zenon DEF End
<1>11. ~full' => at' = 208 + 70 * rows' + End' /\ lengths' \subseteq {70}
  BY <1>1, <1>2, <1>3, <1>6, <1>8, <1>9, <1>10
<1>12. full' \in BOOLEAN  BY <1>2, <1>3
<1>13. list = "process" => ~full'  BY <1>2, <1>6, Zenon DEF OutInv
<1>14. list' # "none" /\ list' # "heapvis"  BY <1>1, MostIs, Zenon
<1>. QED  BY <1>1, <1>3, <1>7, <1>11, <1>12, <1>13, <1>14, Zenon DEF OutInv

LEMMA EndKeeps ==
    ASSUME OutputAssumption, OutInv, EndList
    PROVE  OutInv'
<1>1. /\ list \in Tables /\ ~ended /\ at' = at + WriteLine(2) /\ ended' = TRUE
      /\ list' = list /\ rows' = rows /\ lengths' = lengths /\ full' = full
  BY Zenon DEF EndList
<1>2. rows \in Nat /\ at \in Nat /\ full \in BOOLEAN /\ WriteLine(2) = 69  BY LineIsLong, Zenon DEF OutInv
<1>3. ~full => at = 208 + 70 * rows /\ lengths \subseteq {70}
  <2>1. ~full => at = 208 + 70 * rows + 0 /\ lengths \subseteq {70}  BY <1>1, Zenon DEF OutInv, End
  <2>. QED  BY <1>2, <2>1
<1>4. End' = 69  BY <1>1, Zenon DEF End
<1>5. at' \in Nat /\ (~full' => at' = 208 + 70 * rows' + End' /\ lengths' \subseteq {70})
  BY <1>1, <1>2, <1>3, <1>4
<1>6. list' # "none" /\ list' # "heapvis"  BY <1>1, MostIs, Zenon
<1>7. ended' \in BOOLEAN  BY <1>1
<1>. QED  BY <1>1, <1>2, <1>5, <1>6, <1>7, Zenon DEF OutInv

LEMMA HeapvisKeeps ==
    ASSUME OutputAssumption, OutInv, CommandHeapvis \/ NextSegment \/ EndHeapvis
    PROVE  OutInv'
<1>. DEFINE Between == IF ended THEN 33 + 29 * rows <= at /\ at <= 33 + 34 * rows
                                ELSE 11 + 29 * rows <= at /\ at <= 11 + 34 * rows
<1>0. rows \in Nat /\ at \in Nat /\ MaxRows \in Nat  BY Zenon DEF OutInv, OutputAssumption, RowsAssumption
<1>1. ASSUME list' = "heapvis", at' \in Nat, rows' \in Nat, rows' <= MaxRows, lengths' = {}, full' = FALSE,
             ended' \in BOOLEAN, Between'
      PROVE  OutInv'
  <2>1. full' \in BOOLEAN  BY <1>1
  <2>. QED  BY <1>1, <2>1, MostIs, Zenon DEF OutInv
<1>2. CASE CommandHeapvis
  <2>1. /\ list = "none" /\ list' = "heapvis" /\ at' = 11
        /\ rows' = rows /\ lengths' = lengths /\ full' = full /\ ended' = ended
    BY <1>2, Zenon DEF CommandHeapvis, Color
  <2>2. rows = 0 /\ lengths = {} /\ ~full /\ ~ended /\ full \in BOOLEAN /\ ended \in BOOLEAN
    BY <2>1, Zenon DEF OutInv
  <2>3. full' = FALSE /\ ended' \in BOOLEAN /\ ~ended'  BY <2>1, <2>2
  <2>4. at' \in Nat /\ rows' \in Nat /\ rows' <= MaxRows /\ Between'  BY <1>0, <2>1, <2>2, <2>3
  <2>. QED  BY <1>1, <2>1, <2>2, <2>3, <2>4, Zenon
<1>3. CASE NextSegment
  <2>1. /\ list = "heapvis" /\ ~ended /\ rows < MaxRows /\ rows' = rows + 1
        /\ list' = list /\ lengths' = lengths /\ full' = full /\ ended' = ended
    BY <1>3, Zenon DEF NextSegment
  <2>2. PICK n \in Sizes : at' = at + Segment(n)  BY <1>3, Zenon DEF NextSegment
  <2>3. Segment(n) \in 29 .. 34  BY SegmentIs, Zenon
  <2>4. lengths = {} /\ ~full /\ full \in BOOLEAN /\ ended \in BOOLEAN /\ Between  BY <2>1, Zenon DEF OutInv
  <2>5. full' = FALSE /\ ended' \in BOOLEAN /\ ~ended'  BY <2>1, <2>4
  <2>6. 11 + 29 * rows <= at /\ at <= 11 + 34 * rows  BY <2>1, <2>4
  <2>7. at' \in Nat /\ rows' \in Nat /\ rows' <= MaxRows /\ 11 + 29 * rows' <= at' /\ at' <= 11 + 34 * rows'
    BY <1>0, <2>1, <2>2, <2>3, <2>6
  <2>. QED  BY <1>1, <2>1, <2>4, <2>5, <2>7, Zenon
<1>4. CASE EndHeapvis
  <2>1. /\ list = "heapvis" /\ ~ended /\ at' = at + 2 * 11 /\ ended' = TRUE
        /\ list' = list /\ rows' = rows /\ lengths' = lengths /\ full' = full
    BY <1>4, Zenon DEF EndHeapvis, Color
  <2>4. lengths = {} /\ ~full /\ full \in BOOLEAN /\ Between /\ rows <= MaxRows  BY <2>1, Zenon DEF OutInv
  <2>5. full' = FALSE /\ ended' \in BOOLEAN /\ ended'  BY <2>1, <2>4
  <2>6. 11 + 29 * rows <= at /\ at <= 11 + 34 * rows  BY <2>1, <2>4
  <2>7. at' \in Nat /\ rows' \in Nat /\ rows' <= MaxRows /\ 33 + 29 * rows' <= at' /\ at' <= 33 + 34 * rows'
    BY <1>0, <2>1, <2>4, <2>6
  <2>. QED  BY <1>1, <2>1, <2>4, <2>5, <2>7, Zenon
<1>. QED  BY <1>2, <1>3, <1>4

LEMMA OutBegins == OutputInit => OutInv
<1>1. 0 \in Nat  OBVIOUS
<1>. QED  BY <1>1, MostIs, Zenon DEF OutputInit, OutInv

LEMMA OutKeeps ==
    ASSUME OutputAssumption, OutInv, OutputNext
    PROVE  OutInv'
<1>1. CASE Reuse
  <2>1. list' = "none" /\ at' = 0 /\ rows' = 0 /\ lengths' = {} /\ full' = FALSE /\ ended' = FALSE
    BY <1>1, Zenon DEF Reuse
  <2>2. 0 \in Nat  OBVIOUS
  <2>. QED  BY <2>1, <2>2, MostIs, Zenon DEF OutInv
<1>. QED  BY <1>1, ListBegins, RowKeeps, EndKeeps, HeapvisKeeps, Zenon DEF OutputNext

LEMMA OutStays ==
    ASSUME OutInv, UNCHANGED outVars
    PROVE  OutInv'
<1>1. list' = list /\ at' = at /\ rows' = rows /\ lengths' = lengths /\ full' = full /\ ended' = ended
  BY DEF outVars
<1>. QED  BY <1>1, Zenon DEF OutInv, End

LEMMA OutShows ==
    ASSUME OutputAssumption, OutInv
    PROVE  OutputTypeOK /\ TableFits /\ HeapvisFits /\ RowsAligned
<1>1. OutputTypeOK
  <2>1. list \in Tables => rows \in 0 .. Most(list)
    <3>1. \A m, n \in Nat : m <= n => m \in 0 .. n  OBVIOUS
    <3>. QED  BY <3>1, MostNat, Zenon DEF OutInv
  <2>2. list \notin Tables => rows \in 0 .. MaxRows
    <3>1. \A m, n \in Nat : (m <= n \/ m = 0) => m \in 0 .. n  OBVIOUS
    <3>. QED  BY <3>1, Zenon DEF OutInv, OutputAssumption, RowsAssumption
  <2>. QED  BY <2>1, <2>2, Zenon DEF OutputTypeOK, OutInv
<1>2. TableFits
  <2>0. rows \in Nat /\ at \in Nat  BY Zenon DEF OutInv
  <2>1. ASSUME list \in Tables, ended, ~full  PROVE at <= Size <=> rows <= 10
    <3>1. at = 208 + 70 * rows + 69  BY <2>1, Zenon DEF OutInv, End
    <3>. QED  BY <2>0, <3>1 DEF Size
  <2>2. ASSUME list = "process"  PROVE at <= Size
    <3>1. ~full /\ list \in Tables /\ rows <= 8  BY <2>2, MostIs, Zenon DEF OutInv
    <3>2. at = 208 + 70 * rows + End  BY <3>1, Zenon DEF OutInv
    <3>. QED  BY <2>0, <3>1, <3>2 DEF End, Size
  <2>. QED  BY <2>1, <2>2, Zenon DEF TableFits
<1>3. HeapvisFits
  <2>0. rows \in Nat /\ at \in Nat  BY Zenon DEF OutInv
  <2>1. SUFFICES ASSUME list = "heapvis", ended
                 PROVE  (rows <= 28 => at < Size) /\ (rows >= 35 => at > Size)
    BY Zenon DEF HeapvisFits
  <2>2. 33 + 29 * rows <= at /\ at <= 33 + 34 * rows  BY <2>1, Zenon DEF OutInv
  <2>. QED  BY <2>0, <2>2 DEF Size
<1>4. RowsAligned
  <2>1. 2 * Column + 4 = 70  BY DEF Column
  <2>. QED  BY <2>1, Zenon DEF RowsAligned, OutInv
<1>. QED  BY <1>1, <1>2, <1>3, <1>4

-----------------------------------------------------------------------------
(* sysfetch                                                                *)

Unsigned == {Space, 66, 75, 115}
Chars == Unsigned \cup 48 .. 57

Plain == {"Ticks", "Segments", "Processes"}

LEMMA DecimalIs ==
    ASSUME OutputAssumption, NEW n \in Nat
    PROVE  /\ Decimal(n) \in Seq(48 .. 57) /\ Decimal(n) \in Seq(Chars) /\ Len(Decimal(n)) \in 1 .. 10
           /\ n <= 9 => Len(Decimal(n)) = 1
<1>1. PICK m \in Nat : m = n % Wide /\ m < Wide /\ m <= n
  BY DEF OutputAssumption, NumbersAssumption
<1>2. Wide \in Nat /\ Wide \div 10 < Ten(9)  BY Zenon DEF OutputAssumption, NumbersAssumption, Ten
<1>3. m < Ten(10)
  <2>1. Ten(9) \in Nat /\ Ten(10) = 10 * Ten(9)  BY Powers, SMT
  <2>2. \A w, t \in Nat : w \div 10 < t => w < 10 * t  OBVIOUS
  <2>3. Wide < 10 * Ten(9)  BY <1>2, <2>1, <2>2, Zenon
  <2>. QED  BY <1>1, <1>2, <2>1, <2>3
<1>4. Decimal(n) = ToString(m)  BY <1>1, Zenon DEF Decimal
<1>5. Decimal(n) \in Seq(48 .. 57) /\ Len(Decimal(n)) \in 1 .. 10  BY <1>3, <1>4, ToStringIs, Zenon
<1>6. ASSUME NEW s \in Seq(48 .. 57)  PROVE s \in Seq(Chars)  BY DEF Chars
<1>7. n <= 9 => Len(Decimal(n)) = 1
  <2>1. n <= 9 => m \in 0 .. 9  BY <1>1
  <2>. QED  BY <1>4, <2>1, Digits, Zenon DEF DigitsOf
<1>. QED  BY <1>5, <1>6, <1>7, Zenon

LEMMA UnitIs ==
    ASSUME NEW f \in Fields
    PROVE  /\ Unit(f) \in Seq(Chars) /\ Len(Unit(f)) \in 0 .. 6
           /\ f \in {"Uptime", "Heap"} => /\ Len(Unit(f)) \in 5 .. 6
                                          /\ \A i \in 1 .. Len(Unit(f)) : i > Len(Unit(f)) - 3 => Unit(f)[i] = Space
           /\ f \in Plain => Unit(f) = <<>> /\ Len(Unit(f)) = 0
           /\ f \in Plain <=> f \notin {"Uptime", "Heap"}
<1>1. CASE f = "Uptime"
  <2>1. PICK u : u = Unit(f)  BY Zenon
  <2>2. u = <<Space, 115, Space, Space, Space>>  BY <1>1, <2>1 DEF Unit
  <2>3. u \in Seq(Chars) /\ Len(u) = 5 /\ \A i \in 1 .. 5 : i > 2 => u[i] = Space
    BY <2>2 DEF Chars, Unsigned, Space
  <2>4. 5 \in 0 .. 6 /\ 5 \in 5 .. 6 /\ 5 - 3 = 2  OBVIOUS
  <2>5. f \notin Plain  BY <1>1 DEF Plain
  <2>. QED  BY <1>1, <2>1, <2>3, <2>4, <2>5, Zenon
<1>2. CASE f = "Heap"
  <2>1. PICK u : u = Unit(f)  BY Zenon
  <2>2. u = <<Space, 75, 66, Space, Space, Space>>  BY <1>2, <2>1 DEF Unit
  <2>3. u \in Seq(Chars) /\ Len(u) = 6 /\ \A i \in 1 .. 6 : i > 3 => u[i] = Space
    BY <2>2 DEF Chars, Unsigned, Space
  <2>4. 6 \in 0 .. 6 /\ 6 \in 5 .. 6 /\ 6 - 3 = 3  OBVIOUS
  <2>5. f \notin Plain  BY <1>2 DEF Plain
  <2>. QED  BY <1>2, <2>1, <2>3, <2>4, <2>5, Zenon
<1>3. CASE f \in Plain
  <2>1. Unit(f) = <<>>  BY <1>3 DEF Unit, Plain
  <2>2. f \notin {"Uptime", "Heap"}  BY <1>3 DEF Plain
  <2>3. <<>> \in Seq(Chars) /\ Len(<<>>) = 0 /\ 0 \in 0 .. 6  OBVIOUS
  <2>. QED  BY <1>3, <2>1, <2>2, <2>3, Zenon
<1>. QED  BY <1>1, <1>2, <1>3 DEF Fields, Plain

(* What is behind the characters that are copied stays.                    *)
LEMMA CopyIs ==
    ASSUME NEW S, NEW dest \in Seq(S), NEW s \in Seq(S), NEW l \in Nat, l = Len(s), NEW k \in Nat, k = Len(dest)
    PROVE  /\ CopyString(dest, s) \in Seq(S)
           /\ Len(CopyString(dest, s)) = IF l < k THEN k ELSE l
           /\ \A i \in 1 .. l : CopyString(dest, s)[i] = s[i]
           /\ \A i \in l + 1 .. k : CopyString(dest, s)[i] = dest[i]
<1>. DEFINE rest == SubSeq(dest, l + 1, k)
<1>1. \A i \in l + 1 .. k : dest[i] \in S  OBVIOUS
<1>2. /\ rest \in Seq(S) /\ Len(rest) = (IF l + 1 <= k THEN k - (l + 1) + 1 ELSE 0)
      /\ \A i \in 1 .. k - (l + 1) + 1 : rest[i] = dest[l + 1 + i - 1]
  <2>1. l + 1 \in Int /\ k \in Int  OBVIOUS
  <2>. QED  BY <1>1, <2>1, SubSeqProperties
<1>3. CopyString(dest, s) = s \o rest  BY Zenon DEF CopyString
<1>. HIDE DEF rest
<1>4. /\ s \o rest \in Seq(S) /\ Len(s \o rest) = l + Len(rest)
      /\ \A i \in 1 .. l + Len(rest) : (s \o rest)[i] = IF i <= l THEN s[i] ELSE rest[i - l]
  BY <1>2, ConcatProperties
<1>5. Len(s \o rest) = IF l < k THEN k ELSE l  BY <1>2, <1>4
<1>6. \A i \in 1 .. l : (s \o rest)[i] = s[i]  BY <1>2, <1>4
<1>7. ASSUME NEW i \in l + 1 .. k  PROVE (s \o rest)[i] = dest[i]
  <2>1. /\ i \in 1 .. l + Len(rest) /\ ~(i <= l)
        /\ i - l \in 1 .. k - (l + 1) + 1 /\ l + 1 + (i - l) - 1 = i
    BY <1>2
  <2>. QED  BY <1>2, <1>4, <2>1, Zenon
<1>. QED  BY <1>3, <1>4, <1>5, <1>6, <1>7, Zenon

(* The field holds the number and its unit, behind them what an older and  *)
(* longer number left: spaces, three before the end, or digits.            *)
Holds(d, u) == /\ Len(text) = longest + Len(u) /\ Len(d) <= longest
               /\ \A i \in 1 .. Len(d) : text[i] = d[i]
               /\ \A i \in 1 .. Len(u) : text[Len(d) + i] = u[i]

FetchInv == /\ field \in Fields
            /\ number \in Nat /\ longest \in 0 .. 10
            /\ text \in Seq(Chars)
            /\ longest = 0 => text = <<>>
            /\ longest > 0 => Holds(Decimal(number), Unit(field))
            /\ field \in {"Uptime", "Heap"} => \A i \in 1 .. Len(text) : i > Len(text) - 3 => text[i] = Space
            /\ field \in Plain => \A i \in 1 .. Len(text) : text[i] \in 48 .. 57
            /\ field = "Processes" => number <= 8 /\ longest <= 1

LEMMA FetchBegins == FetchInit => FetchInv
<1>1. FetchInit => \A i \in 1 .. Len(text) : FALSE  BY DEF FetchInit
<1>2. 0 \in Nat /\ 0 \in 0 .. 10 /\ ~(0 > 0) /\ 0 <= 8 /\ 0 <= 1 /\ <<>> \in Seq(Chars)  OBVIOUS
<1>. QED  BY <1>1, <1>2, Zenon DEF FetchInit, FetchInv

LEMMA FetchKeeps ==
    ASSUME OutputAssumption, FetchInv, FetchNext
    PROVE  FetchInv'
<1>1. PICK n \in Values(field, number) :
        /\ number' = n
        /\ text' = CopyString(text, Decimal(n) \o Unit(field))
        /\ longest' = IF Len(Decimal(n)) > longest THEN Len(Decimal(n)) ELSE longest
        /\ field' = field
  BY Zenon DEF FetchNext
<1>2. field \in Fields /\ longest \in 0 .. 10 /\ text \in Seq(Chars)  BY Zenon DEF FetchInv
<1>3. n \in Nat /\ (field = "Processes" => n <= 8)
  BY <1>2 DEF Values, Fields, OutputAssumption, NumbersAssumption, MostProcesses
<1>. DEFINE D == Decimal(n)
            U == Unit(field)
            new == D \o U
<1>4. D \in Seq(48 .. 57) /\ D \in Seq(Chars) /\ Len(D) \in 1 .. 10 /\ (n <= 9 => Len(D) = 1)
  BY <1>3, DecimalIs, Zenon
<1>5. U \in Seq(Chars) /\ Len(U) \in 0 .. 6  BY <1>2, UnitIs, Zenon
<1>6. /\ field \in {"Uptime", "Heap"} => /\ Len(U) \in 5 .. 6
                                         /\ \A i \in 1 .. Len(U) : i > Len(U) - 3 => U[i] = Space
      /\ field \in Plain => Len(U) = 0
  BY <1>2, UnitIs, Zenon
<1>7. PICK d \in 1 .. 10 : d = Len(D)  BY <1>4, Zenon
<1>8. PICK u \in 0 .. 6 : u = Len(U)  BY <1>5, Zenon
<1>9. PICK o \in 0 .. 10 : o = longest  BY <1>2, Zenon
<1>10. Len(text) \in Nat /\ (o = 0 => Len(text) = 0) /\ (o > 0 => Len(text) = o + u)
  <2>1. Len(text) \in Nat  BY <1>2
  <2>2. o = 0 => Len(text) = 0  BY <1>9 DEF FetchInv
  <2>3. o > 0 => Len(text) = o + u  BY <1>8, <1>9, Zenon DEF FetchInv, Holds
  <2>. QED  BY <2>1, <2>2, <2>3, Zenon
<1>11. PICK k \in Nat : k = Len(text) /\ (o = 0 => k = 0) /\ (o > 0 => k = o + u)  BY <1>10, Zenon
<1>12. /\ new \in Seq(Chars) /\ Len(new) = d + u
       /\ \A i \in 1 .. d + u : new[i] = IF i <= d THEN D[i] ELSE U[i - d]
  BY <1>4, <1>5, <1>7, <1>8, ConcatProperties, Zenon
<1>. HIDE DEF D, U
<1>13. \A i \in 1 .. d : new[i] = D[i]  BY <1>12
<1>14. \A i \in 1 .. u : new[d + i] = U[i]
  <2>1. \A i \in 1 .. u : d + i \in 1 .. d + u /\ ~(d + i <= d) /\ (d + i) - d = i  OBVIOUS
  <2>. QED  BY <1>12, <2>1, Zenon
<1>. HIDE DEF new
<1>15. /\ text' \in Seq(Chars) /\ Len(text') = IF d + u < k THEN k ELSE d + u
       /\ \A i \in 1 .. d + u : text'[i] = new[i]
       /\ \A i \in (d + u) + 1 .. k : text'[i] = text[i]
  <2>1. d + u \in Nat  OBVIOUS
  <2>2. text' = CopyString(text, new)  BY <1>1, Zenon DEF new, D, U
  <2>3. /\ CopyString(text, new) \in Seq(Chars)
        /\ Len(CopyString(text, new)) = IF d + u < k THEN k ELSE d + u
        /\ \A i \in 1 .. d + u : CopyString(text, new)[i] = new[i]
        /\ \A i \in (d + u) + 1 .. k : CopyString(text, new)[i] = text[i]
    <3>1. d + u = Len(new) /\ k = Len(text)  BY <1>11, <1>12, Zenon
    <3>. QED  BY <1>2, <1>12, <2>1, <3>1, CopyIs
  <2>. QED  BY <2>2, <2>3, Zenon
<1>16. PICK p \in 1 .. 10 : p = longest' /\ (p = IF d > o THEN d ELSE o)
  <2>1. longest' = IF d > o THEN d ELSE o  BY <1>1, <1>7, <1>9, Zenon DEF D
  <2>. QED  BY <2>1
<1>17. Len(text') = p + u /\ d <= p /\ (p > o => k <= d + u) /\ (k > d + u => p = o /\ k = p + u)
  <2>1. (IF d + u < k THEN k ELSE d + u) = p + u  BY <1>11, <1>16
  <2>2. d <= p /\ (p > o => k <= d + u) /\ (k > d + u => p = o /\ k = p + u)  BY <1>11, <1>16
  <2>. QED  BY <1>15, <2>1, <2>2, Zenon
<1>18. Holds(Decimal(number), Unit(field))'
  <2>1. \A i \in 1 .. d : text'[i] = D[i]
    <3>1. \A i \in 1 .. d : i \in 1 .. d + u  OBVIOUS
    <3>. QED  BY <1>13, <1>15, <3>1, Zenon
  <2>2. \A i \in 1 .. u : text'[d + i] = U[i]
    <3>1. \A i \in 1 .. u : d + i \in 1 .. d + u  OBVIOUS
    <3>. QED  BY <1>14, <1>15, <3>1, Zenon
  <2>3. Decimal(number)' = D /\ Unit(field)' = U  BY <1>1, Zenon DEF D, U, Decimal, Unit
  <2>. QED  BY <1>7, <1>8, <1>16, <1>17, <2>1, <2>2, <2>3, Zenon DEF Holds
<1>19. ASSUME field \in {"Uptime", "Heap"}, NEW i \in 1 .. Len(text'), i > Len(text') - 3
       PROVE  text'[i] = Space
  <2>0. i \in 1 .. p + u /\ i > p + u - 3  BY <1>17, <1>19
  <2>00. u \in 5 .. 6  BY <1>6, <1>8, <1>19, Zenon
  <2>1. CASE i <= d + u
    <3>1. i - d \in 1 .. u /\ i - d > u - 3 /\ d + (i - d) = i /\ i \in 1 .. d + u
      BY <1>17, <2>0, <2>00, <2>1
    <3>2. text'[i] = new[i] /\ new[d + (i - d)] = U[i - d]  BY <1>14, <1>15, <3>1, Zenon
    <3>3. U[i - d] = Space  BY <1>6, <1>8, <1>19, <3>1, Zenon
    <3>. QED  BY <3>1, <3>2, <3>3, Zenon
  <2>2. CASE ~(i <= d + u)
    <3>0. IF d + u < k THEN p + u = k ELSE p + u = d + u  BY <1>15, <1>17, Zenon
    <3>1. i \in (d + u) + 1 .. k /\ p + u = k /\ i \in 1 .. k /\ i > k - 3
      BY <1>17, <2>0, <2>2, <3>0
    <3>2. text'[i] = text[i]  BY <1>15, <3>1, Zenon
    <3>3. text[i] = Space  BY <1>11, <1>19, <3>1, Zenon DEF FetchInv
    <3>. QED  BY <3>2, <3>3, Zenon
  <2>. QED  BY <2>1, <2>2
<1>20. ASSUME field \in Plain, NEW i \in 1 .. Len(text')
       PROVE  text'[i] \in 48 .. 57
  <2>0. i \in 1 .. p + u  BY <1>17, Zenon
  <2>00. u = 0  BY <1>6, <1>8, <1>20, Zenon
  <2>1. CASE i <= d
    <3>1. i \in 1 .. d + u /\ i \in 1 .. d  BY <2>0, <2>1
    <3>2. text'[i] = D[i]  BY <1>13, <1>15, <3>1, Zenon
    <3>3. D[i] \in 48 .. 57  BY <1>4, <1>7, <3>1, ElementOfSeq, Zenon
    <3>. QED  BY <3>2, <3>3, Zenon
  <2>2. CASE ~(i <= d)
    <3>0. IF d + u < k THEN p + u = k ELSE p + u = d + u  BY <1>15, <1>17, Zenon
    <3>1. i \in (d + u) + 1 .. k /\ i \in 1 .. k  BY <2>0, <2>00, <2>2, <3>0
    <3>2. text'[i] = text[i]  BY <1>15, <3>1, Zenon
    <3>3. text[i] \in 48 .. 57  BY <1>11, <1>20, <3>1, Zenon DEF FetchInv
    <3>. QED  BY <3>2, <3>3, Zenon
  <2>. QED  BY <2>1, <2>2
<1>21. field = "Processes" => n <= 8 /\ p <= 1
  <2>1. field = "Processes" => d = 1 /\ o <= 1
    <3>1. n <= 8 => n <= 9  BY <1>3
    <3>. QED  BY <1>3, <1>4, <1>7, <1>9, <3>1, Zenon DEF FetchInv
  <2>2. field = "Processes" => p <= 1  BY <1>16, <2>1
  <2>. QED  BY <1>3, <2>2, Zenon
<1>22. p \in 0 .. 10 /\ p # 0  OBVIOUS
<1>23. field' \in Fields /\ number' \in Nat /\ longest' \in 0 .. 10 /\ longest' # 0
       /\ text' \in Seq(Chars) /\ (field' = "Processes" => number' <= 8 /\ longest' <= 1)
  <2>1. field' \in Fields  BY <1>1, <1>2, Zenon
  <2>2. number' \in Nat  BY <1>1, <1>3, Zenon
  <2>3. longest' \in 0 .. 10 /\ longest' # 0  BY <1>16, <1>22, Zenon
  <2>4. field' = "Processes" => number' <= 8 /\ longest' <= 1  BY <1>1, <1>16, <1>21, Zenon
  <2>. QED  BY <1>15, <2>1, <2>2, <2>3, <2>4, Zenon
<1>24. field' \in {"Uptime", "Heap"} => \A i \in 1 .. Len(text') : i > Len(text') - 3 => text'[i] = Space
  BY <1>1, <1>19, Zenon
<1>25. field' \in Plain => \A i \in 1 .. Len(text') : text'[i] \in 48 .. 57
  BY <1>1, <1>20, Zenon
<1>. QED  BY <1>18, <1>23, <1>24, <1>25, Zenon DEF FetchInv, Plain

LEMMA FetchStays ==
    ASSUME FetchInv, UNCHANGED fetchVars
    PROVE  FetchInv'
<1>1. field' = field /\ text' = text /\ number' = number /\ longest' = longest  BY DEF fetchVars
<1>2. Holds(Decimal(number), Unit(field))' <=> Holds(Decimal(number), Unit(field))
  BY <1>1, Zenon DEF Holds, Decimal, Unit
<1>. QED  BY <1>1, <1>2, Zenon DEF FetchInv

LEMMA FetchShows ==
    ASSUME OutputAssumption, FetchInv
    PROVE  FetchTypeOK /\ ShownRight
<1>. DEFINE d == Decimal(number)
            u == Unit(field)
            shown == d \o u
<1>1. d \in Seq(Chars) /\ Len(d) \in 1 .. 10 /\ (number <= 9 => Len(d) = 1)
  BY DecimalIs, Zenon DEF FetchInv
<1>2. u \in Seq(Chars) /\ Len(u) \in 0 .. 6  BY UnitIs, Zenon DEF FetchInv
<1>3. field \in Plain => u = <<>> /\ Len(u) = 0  BY UnitIs, Zenon DEF FetchInv
<1>4. PICK m \in 1 .. 10 : m = Len(d)  BY <1>1, Zenon
<1>5. PICK n \in 0 .. 6 : n = Len(u)  BY <1>2, Zenon
<1>6. PICK o \in 0 .. 10 : o = longest  BY Zenon DEF FetchInv
<1>7. text \in Seq(Chars) /\ Len(text) \in Nat
  <2>1. text \in Seq(Chars)  BY Zenon DEF FetchInv
  <2>. QED  BY <2>1
<1>8. (o = 0 => Len(text) = 0) /\ (o > 0 => Len(text) = o + n /\ m <= o)
  <2>1. o = 0 => Len(text) = 0  BY <1>6 DEF FetchInv
  <2>2. o > 0 => Len(text) = o + n /\ m <= o  BY <1>4, <1>5, <1>6, Zenon DEF FetchInv, Holds
  <2>. QED  BY <2>1, <2>2, Zenon
<1>9. FetchTypeOK
  <2>1. Len(text) <= 10 + 6  BY <1>7, <1>8
  <2>2. text \in Seq({Space, 66, 75, 115} \cup 48 .. 57)  BY <1>7, Zenon DEF Chars, Unsigned
  <2>. QED  BY <2>1, <2>2, Zenon DEF FetchTypeOK, FetchInv
<1>10. /\ shown \in Seq(Chars) /\ Len(shown) = m + n
       /\ \A i \in 1 .. m + n : shown[i] = IF i <= m THEN d[i] ELSE u[i - m]
  BY <1>1, <1>2, <1>4, <1>5, ConcatProperties, Zenon
<1>. HIDE DEF d, u
<1>11. ASSUME o > 0  PROVE \A i \in 1 .. m + n : text[i] = shown[i]
  <2>0. Holds(d, u)  BY <1>6, <1>11, Zenon DEF FetchInv, d, u
  <2>1. ASSUME NEW i \in 1 .. m + n, i <= m  PROVE text[i] = shown[i]
    <3>1. i \in 1 .. m  BY <2>1
    <3>. QED  BY <1>4, <1>10, <2>0, <2>1, <3>1, Zenon DEF Holds
  <2>2. ASSUME NEW i \in 1 .. m + n, ~(i <= m)  PROVE text[i] = shown[i]
    <3>1. i - m \in 1 .. n /\ m + (i - m) = i  BY <2>2
    <3>2. text[m + (i - m)] = u[i - m]  BY <1>4, <1>5, <2>0, <3>1, Zenon DEF Holds
    <3>. QED  BY <1>10, <2>2, <3>1, <3>2, Zenon
  <2>. QED  BY <2>1, <2>2
<1>. HIDE DEF shown
<1>12. ASSUME o > 0  PROVE SubSeq(text, 1, m + n) = shown
  <2>0. m + n <= Len(text) /\ m + n \in Int /\ 1 \in Int /\ 1 <= m + n /\ m + n - 1 + 1 = m + n
    BY <1>7, <1>8, <1>12
  <2>1. \A i \in 1 .. m + n : text[i] \in Chars
    <3>1. \A i \in 1 .. m + n : i \in 1 .. Len(text)  BY <1>7, <2>0
    <3>. QED  BY <1>7, <3>1, ElementOfSeq, Zenon
  <2>. DEFINE t == SubSeq(text, 1, m + n)
  <2>2. t \in Seq(Chars) /\ Len(t) = m + n /\ \A i \in 1 .. m + n : t[i] = text[i]
    <3>1. t \in Seq(Chars) /\ Len(t) = m + n - 1 + 1 /\ \A i \in 1 .. m + n - 1 + 1 : t[i] = text[1 + i - 1]
      BY <2>0, <2>1, SubSeqIs
    <3>2. \A i \in 1 .. m + n : 1 + i - 1 = i  OBVIOUS
    <3>. QED  BY <2>0, <3>1, <3>2, Zenon
  <2>. HIDE DEF t
  <2>3. \A i \in 1 .. Len(t) : t[i] = shown[i]  BY <1>11, <1>12, <2>2, Zenon
  <2>4. t = shown  BY <1>10, <2>2, <2>3, SeqEqual, Zenon
  <2>. QED  BY <2>4, Zenon DEF t
<1>13. ASSUME o > 0
       PROVE  Right(number) <=> \A i \in m + n + 1 .. Len(text) : text[i] = Space
  <2>1. Len(text) >= m + n  BY <1>7, <1>8, <1>13
  <2>2. Right(number) <=> /\ Len(text) >= Len(shown) /\ SubSeq(text, 1, Len(shown)) = shown
                          /\ \A i \in Len(shown) + 1 .. Len(text) : text[i] = Space
    BY Zenon DEF Right, shown, d, u
  <2>3. Len(shown) = m + n  BY <1>10, Zenon
  <2>4. SubSeq(text, 1, m + n) = shown  BY <1>12, <1>13, Zenon
  <2>. HIDE DEF Right
  <2>. QED  BY <2>1, <2>2, <2>3, <2>4, Zenon
<1>14. ASSUME o > 0, field \in {"Uptime", "Heap"}, o <= m + 3  PROVE Right(number)
  <2>1. ASSUME NEW i \in m + n + 1 .. Len(text)  PROVE text[i] = Space
    <3>1. Len(text) = o + n  BY <1>8, <1>14, Zenon
    <3>2. i \in 1 .. Len(text) /\ i > Len(text) - 3  BY <1>14, <3>1
    <3>. QED  BY <1>14, <3>2, Zenon DEF FetchInv
  <2>. QED  BY <1>13, <1>14, <2>1, Zenon
<1>15. ASSUME o > 0, field \in Plain  PROVE Right(number) <=> o = m
  <2>0. n = 0 /\ Len(text) = o + n /\ m <= o  BY <1>3, <1>5, <1>8, <1>15, Zenon
  <2>1. ASSUME o = m  PROVE Right(number)
    <3>1. \A i \in m + n + 1 .. Len(text) : FALSE  BY <2>0, <2>1
    <3>. QED  BY <1>13, <1>15, <3>1, Zenon
  <2>2. ASSUME Right(number), o # m  PROVE FALSE
    <3>1. \A i \in m + n + 1 .. Len(text) : text[i] = Space  BY <1>13, <1>15, <2>2, Zenon
    <3>2. o \in m + n + 1 .. Len(text) /\ o \in 1 .. Len(text)  BY <2>0, <2>2
    <3>3. text[o] = Space  BY <3>1, <3>2, Zenon
    <3>4. text[o] \in 48 .. 57  BY <1>15, <3>2, Zenon DEF FetchInv
    <3>. QED  BY <3>3, <3>4 DEF Space
  <2>. QED  BY <2>1, <2>2, Zenon
<1>16. field = "Processes" => m = 1 /\ o <= 1
  <2>1. field = "Processes" => number <= 9
    <3>1. number <= 8 /\ number \in Nat => number <= 9  OBVIOUS
    <3>. QED  BY <3>1, Zenon DEF FetchInv
  <2>. QED  BY <1>1, <1>4, <1>6, <2>1, Zenon DEF FetchInv, d
<1>17. "Ticks" \in Plain /\ "Segments" \in Plain /\ "Processes" \in Plain  BY DEF Plain
<1>18. ShownRight
  <2>0. o > 0 /\ field = "Processes" => o = m  BY <1>16
  <2>1. SUFFICES ASSUME o > 0
                 PROVE  /\ field \in {"Uptime", "Heap"} /\ o <= m + 3 => Right(number)
                        /\ field \in {"Ticks", "Segments"} => (Right(number) <=> o = m)
                        /\ field = "Processes" => Right(number)
    BY <1>4, <1>6, Zenon DEF ShownRight, d
  <2>2. field \in {"Uptime", "Heap"} /\ o <= m + 3 => Right(number)  BY <1>14, <2>1, Zenon
  <2>3. field \in Plain => (Right(number) <=> o = m)  BY <1>15, <2>1, Zenon
  <2>. QED  BY <1>17, <2>0, <2>1, <2>2, <2>3, Zenon
<1>. QED  BY <1>9, <1>18

(* What the commands print stays inside of the array up to these numbers   *)
(* of rows, in aligned lines, and sysfetch shows the number it counts      *)
(* unless a longer one was there, whatever processes, devices, segments    *)
(* and numbers there are.                                                  *)
THEOREM TablesAreRight == OutputAssumption => (TablesSpec => []TablesRight)
<1>. SUFFICES ASSUME OutputAssumption  PROVE TablesSpec => []TablesRight
  OBVIOUS
<1>. DEFINE Inv == OutInv /\ FetchInv
<1>1. TablesInit => Inv  BY OutBegins, FetchBegins, Zenon DEF TablesInit
<1>2. Inv /\ [TablesNext]_<<outVars, fetchVars>> => Inv'
  <2>. SUFFICES ASSUME OutInv, FetchInv, [TablesNext]_<<outVars, fetchVars>>  PROVE OutInv' /\ FetchInv'
    BY Zenon
  <2>1. CASE OutputNext /\ UNCHANGED fetchVars  BY <2>1, OutKeeps, FetchStays, Zenon
  <2>2. CASE FetchNext /\ UNCHANGED outVars  BY <2>2, OutStays, FetchKeeps, Zenon
  <2>3. CASE UNCHANGED <<outVars, fetchVars>>
    <3>1. UNCHANGED outVars /\ UNCHANGED fetchVars  BY <2>3
    <3>. QED  BY <3>1, OutStays, FetchStays, Zenon
  <2>. QED  BY <2>1, <2>2, <2>3, Zenon DEF TablesNext
<1>3. Inv => TablesRight  BY OutShows, FetchShows, Zenon DEF TablesRight
<1>. HIDE DEF Inv
<1>. QED  BY <1>1, <1>2, <1>3, PTL DEF TablesSpec
=============================================================================
