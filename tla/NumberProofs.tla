---------------------------- MODULE NumberProofs ----------------------------
(***************************************************************************)
(* Facts about numbers the other proofs rest on: intervals, remainders,    *)
(* induction over the naturals, and functions defined by recursion over an *)
(* interval.  Induction is stated with sets and functions, so that each use*)
(* of it is a first-order instance; it rests on the well-foundedness of <  *)
(* on Nat.                                                                 *)
(***************************************************************************)
EXTENDS Integers, WellFoundedInduction, TLAPS

LEMMA ModRange ==
    ASSUME NEW a \in Int, NEW b \in Nat \ {0}
    PROVE  a % b \in 0 .. b - 1
  BY SMT

LEMMA IntervalGrows ==
    ASSUME NEW m \in Nat, NEW n \in Nat, m <= n
    PROVE  0 .. m - 1 \subseteq 0 .. n - 1
  OBVIOUS

(* Division with remainder, and that there is one result only. *)
LEMMA DivMod ==
    ASSUME NEW a \in Int, NEW b \in Nat \ {0}
    PROVE  \E q \in Int : \E r \in 0 .. b - 1 : a = b * q + r /\ a % b = r
  <1> DEFINE q == a \div b
             r == a % b
  <1>1. q = a \div b /\ r = a % b
    OBVIOUS
  <1> HIDE DEF q, r
  <1>2. a = b * q + r /\ q \in Int /\ r \in 0 .. b - 1
    BY <1>1, SMT
  <1>3. QED
    BY <1>1, <1>2

LEMMA MultiplesApart ==
    ASSUME NEW b \in Nat \ {0}, NEW q \in Int, NEW p \in Int, q < p
    PROVE  b * q + b <= b * p
  <1>1. p - q >= 1 /\ p - q \in Nat
    OBVIOUS
  <1>2. b * (p - q) >= b
    BY <1>1
  <1>3. b * (p - q) = b * p - b * q /\ b * p \in Int /\ b * q \in Int
    OBVIOUS
  <1>4. QED
    BY <1>2, <1>3

LEMMA ModUnique ==
    ASSUME NEW b \in Nat \ {0}, NEW q \in Int, NEW r \in 0 .. b - 1
    PROVE  (b * q + r) % b = r
  <1> DEFINE a == b * q + r
  <1>1. a \in Int
    OBVIOUS
  <1>2. PICK p \in Int, s \in 0 .. b - 1 : a = b * p + s /\ a % b = s
    <2> HIDE DEF a
    <2>1. QED
      BY <1>1, DivMod
  <1>3. b * q \in Int /\ b * p \in Int /\ b * q + r = b * p + s
    BY <1>2
  <1>4. ~(q < p)
    BY <1>3, MultiplesApart
  <1>5. ~(p < q)
    BY <1>3, MultiplesApart
  <1>6. r = s
    BY <1>3, <1>4, <1>5
  <1>7. QED
    BY <1>2, <1>6

(* Counting on: the remainder of the next number. *)
LEMMA ModNext ==
    ASSUME NEW b \in Nat \ {0}, NEW a \in Int
    PROVE  (a + 1) % b = IF a % b = b - 1 THEN 0 ELSE (a % b) + 1
  <1>1. PICK q \in Int, r \in 0 .. b - 1 : a = b * q + r /\ a % b = r
    BY DivMod
  <1>2. CASE r = b - 1
    <2>1. a + 1 = b * (q + 1) + 0 /\ q + 1 \in Int /\ 0 \in 0 .. b - 1
      BY <1>1, <1>2
    <2>2. (b * (q + 1) + 0) % b = 0
      BY <2>1, ModUnique
    <2>3. QED
      BY <1>1, <1>2, <2>1, <2>2
  <1>3. CASE r # b - 1
    <2>1. a + 1 = b * q + (r + 1) /\ r + 1 \in 0 .. b - 1
      BY <1>1, <1>3
    <2>2. (b * q + (r + 1)) % b = r + 1
      BY <2>1, ModUnique
    <2>3. QED
      BY <1>1, <1>3, <2>1, <2>2
  <1>4. QED
    BY <1>2, <1>3

LEMMA ModSmall ==
    ASSUME NEW b \in Nat \ {0}, NEW r \in 0 .. b - 1
    PROVE  r % b = r
  <1>1. b * 0 + r = r /\ 0 \in Int
    OBVIOUS
  <1>2. (b * 0 + r) % b = r
    BY <1>1, ModUnique
  <1>3. QED
    BY <1>1, <1>2

(* Going on from a remainder is going on from the number itself.           *)
LEMMA ModOnward ==
    ASSUME NEW b \in Nat \ {0}, NEW a \in Int, NEW m \in Int, NEW n \in Int
    PROVE  (((a + n) % b) + (m - n)) % b = (a + m) % b
  <1>1. a + n \in Int /\ m - n \in Int
    OBVIOUS
  <1>2. PICK q \in Int, r \in 0 .. b - 1 : a + n = b * q + r /\ (a + n) % b = r
    BY <1>1, DivMod
  <1>3. r + (m - n) \in Int
    BY <1>2
  <1>4. PICK p \in Int, t \in 0 .. b - 1 :
          r + (m - n) = b * p + t /\ (r + (m - n)) % b = t
    BY <1>3, DivMod
  <1>5. a + m = b * (q + p) + t /\ q + p \in Int
    <2>1. b * (q + p) = b * q + b * p /\ b * q \in Int /\ b * p \in Int
      OBVIOUS
    <2>2. QED
      BY <1>2, <1>4, <2>1
  <1>6. (b * (q + p) + t) % b = t
    BY <1>5, ModUnique
  <1>7. QED
    BY <1>2, <1>4, <1>5, <1>6

(* Adding the same number keeps two remainders apart.                      *)
LEMMA ModCancel ==
    ASSUME NEW b \in Nat \ {0}, NEW a \in Int, NEW x \in 0 .. b - 1, NEW y \in 0 .. b - 1,
           (a + x) % b = (a + y) % b
    PROVE  x = y
  <1>1. a + x \in Int /\ a + y \in Int /\ b \in Int /\ x \in Int /\ y \in Int
    OBVIOUS
  <1>2. PICK q \in Int, r \in 0 .. b - 1 : a + x = b * q + r /\ (a + x) % b = r
    BY <1>1, DivMod
  <1>3. PICK p \in Int, t \in 0 .. b - 1 : a + y = b * p + t /\ (a + y) % b = t
    BY <1>1, DivMod
  <1>4. r = t /\ b * q \in Int /\ b * p \in Int
    BY <1>2, <1>3
  <1>5. ~(q < p)
    <2>1. SUFFICES ASSUME q < p PROVE FALSE
      OBVIOUS
    <2>2. b * q + b <= b * p
      BY <2>1, MultiplesApart
    <2>3. QED
      BY <1>2, <1>3, <1>4, <2>2
  <1>6. ~(p < q)
    <2>1. SUFFICES ASSUME p < q PROVE FALSE
      OBVIOUS
    <2>2. b * p + b <= b * q
      BY <2>1, MultiplesApart
    <2>3. QED
      BY <1>2, <1>3, <1>4, <2>2
  <1>7. p = q
    BY <1>5, <1>6
  <1>8. QED
    BY <1>2, <1>3, <1>4, <1>7

(* A block number, the one after it and the one before it, in a byte. *)
LEMMA BlockNumberFacts ==
    ASSUME NEW b \in Nat \ {0}, b > 1, NEW a \in Int
    PROVE  /\ ((a % b) + 1) % b = (a + 1) % b
           /\ (a + 1) % b # a % b
           /\ (((a + 1) % b) - 1) % b = a % b
           /\ ((a % b) - 1) % b # a % b
  <1> DEFINE r == a % b
             t == (a + 1) % b
  <1>1. r \in 0 .. b - 1 /\ t = IF r = b - 1 THEN 0 ELSE r + 1
    BY ModRange, ModNext
  <1>2. r % b = r
    BY <1>1, ModSmall
  <1>3. (r + 1) % b = t
    <2> HIDE DEF r, t
    <2>1. r \in Int
      BY <1>1
    <2>2. (r + 1) % b = IF r % b = b - 1 THEN 0 ELSE (r % b) + 1
      BY <2>1, ModNext
    <2>3. QED
      BY <1>1, <1>2, <2>2
  <1>4. t # r
    BY <1>1
  <1>5. t \in 0 .. b - 1 /\ t - 1 \in Int /\ (t - 1) % b \in 0 .. b - 1
    BY SMTT(30), <1>1, ModRange
  <1>6. (t - 1) % b = r
    <2> HIDE DEF r, t
    <2>1. ((t - 1) + 1) % b = IF (t - 1) % b = b - 1 THEN 0 ELSE ((t - 1) % b) + 1
      BY <1>5, ModNext
    <2>2. (t - 1) + 1 = t /\ t % b = t
      BY <1>5, ModSmall
    <2>3. QED
      BY <1>1, <1>5, <2>1, <2>2
  <1>7. (r - 1) % b # r
    <2>1. r - 1 \in Int /\ (r - 1) + 1 = r /\ (r - 1) % b \in 0 .. b - 1
      BY <1>1, ModRange
    <2>2. ((r - 1) + 1) % b = IF (r - 1) % b = b - 1 THEN 0 ELSE ((r - 1) % b) + 1
      BY <2>1, ModNext
    <2> HIDE DEF r
    <2>3. QED
      BY <1>1, <1>2, <2>1, <2>2
  <1>8. QED
    BY <1>3, <1>4, <1>6, <1>7

-----------------------------------------------------------------------------
(* A non-empty set of naturals has a least element. *)
LEMMA LeastNumber ==
    ASSUME NEW S, S \subseteq Nat, S # {}
    PROVE  \E m \in S : \A n \in S : m <= n
  <1> DEFINE R == OpToRel(<, Nat)
  <1>1. IsWellFoundedOn(R, Nat)
    BY NatLessThanWellFounded
  <1>2. PICK m \in S : \A n \in S : ~(<<n, m>> \in R)
    BY <1>1, WFMin
  <1>3. ASSUME NEW n \in S
        PROVE  m <= n
    <2>1. ~(n < m)
      BY <1>2 DEF OpToRel
    <2>2. QED
      BY <2>1
  <1>4. QED
    BY <1>3

(* Induction: a set that holds 0 and every successor holds every natural. *)
LEMMA SetInduction ==
    ASSUME NEW S, 0 \in S, \A n \in Nat : n \in S => n + 1 \in S
    PROVE  \A n \in Nat : n \in S
  <1> SUFFICES ASSUME Nat \ S # {} PROVE FALSE
    OBVIOUS
  <1>1. PICK m \in Nat \ S : \A n \in Nat \ S : m <= n
    BY LeastNumber
  <1>2. m - 1 \in Nat /\ m - 1 \in S
    BY <1>1
  <1>3. QED
    BY <1>1, <1>2

(* What a function defined by recursion along lo .. hi is: b at lo, and the*)
(* step G of its last value from there on.                                 *)
IsRecursion(f, lo, hi, b, G) ==
    f[lo] = b /\ \A i \in lo + 1 .. hi : f[i] = G[<<i, f[i - 1]>>]
Recursion(lo, hi, V, b, G) == CHOOSE f \in [lo .. hi -> V] : IsRecursion(f, lo, hi, b, G)

(* A step function on V applied along lo .. hi has values in V.            *)
LEMMA RecursionExists ==
    ASSUME NEW lo \in Int, NEW hi \in Int, lo <= hi, NEW V, NEW b \in V,
           NEW G \in [Int \X V -> V]
    PROVE  /\ Recursion(lo, hi, V, b, G) \in [lo .. hi -> V]
           /\ IsRecursion(Recursion(lo, hi, V, b, G), lo, hi, b, G)
  <1> DEFINE Good(n, f) == /\ f[lo] = b
                           /\ \A i \in lo + 1 .. lo + n : f[i] = G[<<i, f[i - 1]>>]
             S == {n \in Nat : \E f \in [lo .. lo + n -> V] : Good(n, f)}
  <1>1. 0 \in S
    <2> DEFINE f == [i \in lo .. lo + 0 |-> b]
    <2>1. f \in [lo .. lo + 0 -> V] /\ Good(0, f)
      OBVIOUS
    <2>2. QED
      BY <2>1
  <1>2. ASSUME NEW n \in Nat, n \in S
        PROVE  n + 1 \in S
    <2>1. PICK f \in [lo .. lo + n -> V] : Good(n, f)
      BY <1>2
    <2> DEFINE top == lo + n + 1
               g == [i \in lo .. lo + (n + 1) |-> IF i = top THEN G[<<i, f[lo + n]>>] ELSE f[i]]
    <2>2. f[lo + n] \in V /\ G[<<top, f[lo + n]>>] \in V
      OBVIOUS
    <2>3. g \in [lo .. lo + (n + 1) -> V]
      BY <2>2
    <2>4. ASSUME NEW i \in lo + 1 .. lo + (n + 1)
          PROVE  g[i] = G[<<i, g[i - 1]>>]
      <3>1. i - 1 \in lo .. lo + n /\ g[i - 1] = f[i - 1]
        OBVIOUS
      <3>2. CASE i = top
        BY <3>1, <3>2
      <3>3. CASE i # top
        <4>1. i \in lo + 1 .. lo + n
          BY <3>3
        <4>2. g[i] = f[i]
          BY <3>3
        <4>3. QED
          BY <2>1, <3>1, <4>1, <4>2
      <3>4. QED
        BY <3>2, <3>3
    <2>5. g[lo] = b
      BY <2>1
    <2>6. Good(n + 1, g)
      BY <2>4, <2>5
    <2>7. \E h \in [lo .. lo + (n + 1) -> V] : Good(n + 1, h)
      <3> HIDE DEF g, Good
      <3>1. QED
        BY <2>3, <2>6
    <2>8. n + 1 \in Nat
      OBVIOUS
    <2>9. QED
      <3> HIDE DEF Good
      <3>1. QED
        BY <2>7, <2>8
  <1>3. hi - lo \in S
    <2> HIDE DEF S
    <2>1. QED
      BY <1>1, <1>2, SetInduction
  <1>4. PICK f \in [lo .. lo + (hi - lo) -> V] : Good(hi - lo, f)
    BY <1>3
  <1>5. lo + (hi - lo) = hi
    OBVIOUS
  <1>6. f \in [lo .. hi -> V] /\ IsRecursion(f, lo, hi, b, G)
    BY <1>4, <1>5 DEF IsRecursion
  <1>7. QED
    BY <1>6 DEF Recursion

(* Whatever satisfies such a recursion has its values in V.                *)
LEMMA RecursionType ==
    ASSUME NEW lo \in Int, NEW hi \in Int, NEW V, NEW f,
           f[lo] \in V,
           \A i \in lo + 1 .. hi : f[i - 1] \in V => f[i] \in V
    PROVE  \A i \in lo .. hi : f[i] \in V
  <1> DEFINE S == {n \in Nat : lo + n <= hi => f[lo + n] \in V}
  <1>1. 0 \in S
    OBVIOUS
  <1>2. ASSUME NEW n \in Nat, n \in S
        PROVE  n + 1 \in S
    <2>1. SUFFICES ASSUME lo + (n + 1) <= hi PROVE f[lo + (n + 1)] \in V
      OBVIOUS
    <2>2. f[lo + n] \in V
      BY <1>2, <2>1
    <2>3. lo + (n + 1) \in lo + 1 .. hi /\ (lo + (n + 1)) - 1 = lo + n
      BY <2>1
    <2>4. QED
      BY <2>2, <2>3
  <1>3. \A n \in Nat : n \in S
    <2> HIDE DEF S
    <2>1. QED
      BY <1>1, <1>2, SetInduction
  <1>4. ASSUME NEW i \in lo .. hi
        PROVE  f[i] \in V
    <2>1. i - lo \in S /\ lo + (i - lo) = i
      BY <1>3
    <2>2. QED
      BY <2>1
  <1>5. QED
    BY <1>4
=============================================================================
