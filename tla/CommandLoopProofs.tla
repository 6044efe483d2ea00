------------------------- MODULE CommandLoopProofs -------------------------
(***************************************************************************)
(* Proofs about CommandLoop, for every value of its constants: its types,  *)
(* the ranges its handlers accept and the sectors they touch.              *)
(***************************************************************************)
EXTENDS CommandLoop, NumberProofs, TLAPS

-----------------------------------------------------------------------------
(* Words and sums. *)
LEMMA WeightFacts ==
    /\ Weight[0] = 1
    /\ \A i \in 1 .. WordBytes : Weight[i] = ByteMod * Weight[i - 1]
    /\ \A i \in 0 .. WordBytes : Weight[i] \in Nat /\ Weight[i] > 0
  <1> DEFINE V == Nat \ {0}
             G == [x \in Int \X V |-> ByteMod * x[2]]
             N == WordBytes
             IsWeight(w) == w = [i \in 0 .. N |-> IF i = 0 THEN 1 ELSE ByteMod * w[i - 1]]
             f == Recursion(0, N, V, 1, G)
  <1>1. N \in Nat /\ ByteMod \in Nat \ {0} /\ 0 <= N
    BY CommandLoopAssumption
  <1>2. G \in [Int \X V -> V]
    <2>1. \A v \in V : ByteMod * v \in V
      BY <1>1
    <2>2. QED
      BY <2>1
  <1>3. f \in [0 .. N -> V] /\ IsRecursion(f, 0, N, 1, G)
    <2> HIDE DEF G, N
    <2>1. 0 \in Int /\ N \in Int /\ 1 \in V
      BY <1>1
    <2> HIDE DEF V
    <2>2. QED
      BY <1>1, <1>2, <2>1, RecursionExists
  <1> HIDE DEF f, N
  <1>4. ASSUME NEW i \in 1 .. N PROVE f[i] = ByteMod * f[i - 1]
    <2>0. i - 1 \in 0 .. N /\ i \in 0 + 1 .. N
      BY <1>1
    <2>1. f[i] = G[<<i, f[i - 1]>>] /\ f[i - 1] \in V
      BY <1>3, <2>0 DEF IsRecursion
    <2>2. QED
      BY <2>1
  <1>5. f[0] = 1 /\ IsWeight(f)
    <2>1. f[0] = 1
      BY <1>3 DEF IsRecursion
    <2>2. \A i \in 0 .. N : f[i] = IF i = 0 THEN 1 ELSE ByteMod * f[i - 1]
      BY <1>1, <1>4, <2>1
    <2>3. QED
      BY <1>3, <2>1, <2>2
  <1>6. Weight = CHOOSE w : IsWeight(w)
    BY DEF Weight, N
  <1>7. IsWeight(Weight)
    <2> HIDE DEF IsWeight
    <2>1. QED
      BY <1>5, <1>6
  <1>8. Weight[0] = 1
    BY <1>1, <1>7
  <1>9. ASSUME NEW i \in 1 .. N PROVE Weight[i] = ByteMod * Weight[i - 1]
    BY <1>1, <1>7
  <1>10. \A i \in 0 .. N : Weight[i] \in V
    <2>1. \A i \in 0 + 1 .. N : Weight[i - 1] \in V => Weight[i] \in V
      BY <1>1, <1>9
    <2>2. Weight[0] \in V
      BY <1>8
    <2>3. 0 \in Int /\ N \in Int
      BY <1>1
    <2> HIDE DEF V
    <2>4. QED
      BY <2>1, <2>2, <2>3, RecursionType
  <1>11. QED
    BY <1>8, <1>9, <1>10 DEF N

LEMMA WordFacts == WordMod \in Nat /\ WordMod > 0 /\ 0 \in Word /\ FlashSize \in Nat /\ FlashSize < WordMod
  <1>1. WordMod \in Nat /\ WordMod > 0
    BY WeightFacts, CommandLoopAssumption DEF WordMod
  <1>2. QED
    BY <1>1, CommandLoopAssumption DEF Word

(* A word of bytes is a word. *)
LEMMA LoadType ==
    ASSUME NEW buf \in Seq(Byte), NEW k \in Nat, WordBytes * k + WordBytes <= Len(buf)
    PROVE  Load(buf, k) \in Word
  <1> DEFINE N == WordBytes
             d(i) == buf[N * k + i]
             G == [x \in Int \X Int |->
                       IF x[1] \in 1 .. N THEN x[2] + d(x[1]) * Weight[x[1] - 1] ELSE 0]
             IsLoad(h) == h = [i \in 0 .. N |->
                                  IF i = 0 THEN 0 ELSE h[i - 1] + d(i) * Weight[i - 1]]
             f == Recursion(0, N, Int, 0, G)
  <1>1. N \in Nat /\ ByteMod \in Nat \ {0} /\ 0 <= N /\ N * k \in Nat
    BY CommandLoopAssumption
  <1>2. ASSUME NEW i \in 1 .. N
        PROVE  d(i) \in Nat /\ d(i) <= ByteMod - 1
    <2>1. N * k + i \in 1 .. Len(buf)
      BY <1>1
    <2>2. buf[N * k + i] \in Byte
      BY <2>1
    <2>3. QED
      BY <1>1, <2>2 DEF Byte
  <1>3. ASSUME NEW i \in 1 .. N
        PROVE  /\ Weight[i - 1] \in Nat /\ Weight[i - 1] > 0
               /\ Weight[i] = ByteMod * Weight[i - 1] /\ d(i) * Weight[i - 1] \in Int
    <2>1. i - 1 \in 0 .. N
      BY <1>1
    <2>2. QED
      BY <1>2, <2>1, WeightFacts
  <1> HIDE DEF d
  <1>4. G \in [Int \X Int -> Int]
    BY <1>3
  <1>5. f \in [0 .. N -> Int] /\ IsRecursion(f, 0, N, 0, G)
    <2> HIDE DEF G, N
    <2>1. 0 \in Int /\ N \in Int
      BY <1>1
    <2>2. QED
      BY <1>1, <1>4, <2>1, RecursionExists
  <1> HIDE DEF f
  <1>6. ASSUME NEW i \in 1 .. N PROVE f[i] = f[i - 1] + d(i) * Weight[i - 1]
    <2>0. i - 1 \in 0 .. N /\ i \in 0 + 1 .. N
      <3> HIDE DEF N
      <3>1. QED
        BY <1>1
    <2>1. f[i] = G[<<i, f[i - 1]>>] /\ f[i - 1] \in Int
      BY <1>5, <2>0 DEF IsRecursion
    <2>2. QED
      <3> HIDE DEF N
      <3>1. G[<<i, f[i - 1]>>] = f[i - 1] + d(i) * Weight[i - 1]
        BY <1>1, <2>1
      <3>2. QED
        BY <2>1, <3>1
  <1>7. f[0] = 0 /\ IsLoad(f)
    <2> HIDE DEF N
    <2>1. f[0] = 0
      BY <1>5 DEF IsRecursion
    <2>2. \A i \in 0 .. N : f[i] = IF i = 0 THEN 0 ELSE f[i - 1] + d(i) * Weight[i - 1]
      BY <1>1, <1>6, <2>1
    <2>3. QED
      BY <1>5, <2>1, <2>2
  <1> DEFINE g == CHOOSE h : IsLoad(h)
  <1>8. Load(buf, k) = g[N]
    BY DEF Load, d
  <1>9. IsLoad(g)
    <2> HIDE DEF IsLoad
    <2>1. QED
      BY <1>7
  <1> HIDE DEF g, N
  <1>10. g[0] = 0 /\ \A i \in 1 .. N : g[i] = g[i - 1] + d(i) * Weight[i - 1]
    BY <1>1, <1>9
  <1> DEFINE S == {i \in Nat : i <= N => g[i] \in Nat /\ g[i] <= Weight[i] - 1}
  <1>11. 0 \in S
    BY <1>10, WeightFacts
  <1>12. ASSUME NEW i \in Nat, i \in S PROVE i + 1 \in S
    <2>1. SUFFICES ASSUME i + 1 <= N
                   PROVE  g[i + 1] \in Nat /\ g[i + 1] <= Weight[i + 1] - 1
      OBVIOUS
    <2>2. i + 1 \in 1 .. N /\ (i + 1) - 1 = i /\ g[i] \in Nat /\ g[i] <= Weight[i] - 1
      BY <1>1, <1>12, <2>1
    <2> DEFINE w == Weight[i]
               c == d(i + 1)
    <2>3. /\ w \in Nat /\ w > 0 /\ Weight[i + 1] = ByteMod * w
          /\ c \in Nat /\ c <= ByteMod - 1 /\ g[i + 1] = g[i] + c * w
      BY <1>2, <1>3, <1>10, <2>2 DEF N
    <2> HIDE DEF w, c
    <2>4. c * w \in Nat /\ c * w <= (ByteMod - 1) * w
      BY <1>1, <2>3
    <2>5. (ByteMod - 1) * w = ByteMod * w - w /\ ByteMod * w \in Nat
      BY <1>1, <2>3
    <2>6. g[i] <= w - 1
      BY <2>2 DEF w
    <2>7. QED
      BY <2>2, <2>3, <2>4, <2>5, <2>6
  <1>13. N \in S
    <2> HIDE DEF S
    <2>1. QED
      BY <1>1, <1>11, <1>12, SetInduction
  <1>14. g[N] \in Nat /\ g[N] <= WordMod - 1
    BY <1>1, <1>13 DEF WordMod, N
  <1>15. QED
    BY <1>8, <1>14, WordFacts DEF Word

(* The sums of the first bytes of s: each is a byte, and how they go on. *)
Sums(s) == CHOOSE h : h = [i \in 0 .. Len(s) |->
                              IF i = 0 THEN 0 ELSE (h[i - 1] + s[i]) % ByteMod]

LEMMA SumsFacts ==
    ASSUME NEW s \in Seq(Byte)
    PROVE  /\ SumOf(s) = Sums(s)[Len(s)] /\ Sums(s)[0] = 0
           /\ \A i \in 1 .. Len(s) : Sums(s)[i] = (Sums(s)[i - 1] + s[i]) % ByteMod
           /\ \A i \in 0 .. Len(s) : Sums(s)[i] \in Byte
  <1> DEFINE N == Len(s)
             G == [x \in Int \X Byte |-> IF x[1] \in 1 .. N THEN (x[2] + s[x[1]]) % ByteMod ELSE 0]
             IsSum(h) == h = [i \in 0 .. N |-> IF i = 0 THEN 0 ELSE (h[i - 1] + s[i]) % ByteMod]
             f == Recursion(0, N, Byte, 0, G)
  <1>1. N \in Nat /\ 0 <= N /\ ByteMod \in Nat \ {0} /\ 0 \in Byte
    BY CommandLoopAssumption DEF Byte
  <1>2. \A i \in 1 .. N : s[i] \in Byte
    OBVIOUS
  <1>3. \A a \in Byte : \A c \in Byte : (a + c) % ByteMod \in Byte
    BY <1>1, ModRange DEF Byte
  <1>4. G \in [Int \X Byte -> Byte]
    BY <1>1, <1>2, <1>3
  <1>5. f \in [0 .. N -> Byte] /\ IsRecursion(f, 0, N, 0, G)
    <2> HIDE DEF G, N
    <2>1. 0 \in Int /\ N \in Int
      BY <1>1
    <2>2. QED
      BY <1>1, <1>4, <2>1, RecursionExists
  <1> HIDE DEF f
  <1>6. ASSUME NEW i \in 1 .. N PROVE f[i] = (f[i - 1] + s[i]) % ByteMod
    <2>0. i - 1 \in 0 .. N /\ i \in 0 + 1 .. N
      BY <1>1
    <2>1. f[i] = G[<<i, f[i - 1]>>] /\ f[i - 1] \in Byte
      BY <1>5, <2>0 DEF IsRecursion
    <2>2. QED
      BY <1>1, <2>1
  <1>7. f[0] = 0 /\ IsSum(f)
    <2>1. f[0] = 0
      BY <1>5 DEF IsRecursion
    <2>2. \A i \in 0 .. N : f[i] = IF i = 0 THEN 0 ELSE (f[i - 1] + s[i]) % ByteMod
      BY <1>1, <1>6, <2>1
    <2>3. QED
      BY <1>5, <2>1, <2>2
  <1> DEFINE g == CHOOSE h : IsSum(h)
  <1>8. SumOf(s) = g[N] /\ Sums(s) = g
    BY DEF SumOf, Sums
  <1>9. IsSum(g)
    <2> HIDE DEF IsSum
    <2>1. QED
      BY <1>7
  <1> HIDE DEF g
  <1>10. g[0] = 0 /\ \A i \in 1 .. N : g[i] = (g[i - 1] + s[i]) % ByteMod
    BY <1>1, <1>9
  <1>11. \A i \in 0 .. N : g[i] \in Byte
    <2>1. \A i \in 0 + 1 .. N : g[i - 1] \in Byte => g[i] \in Byte
      BY <1>2, <1>3, <1>10
    <2>2. g[0] \in Byte /\ 0 \in Int /\ N \in Int
      BY <1>1, <1>10
    <2> HIDE DEF N
    <2>3. QED
      BY <2>1, <2>2, RecursionType
  <1>12. QED
    BY <1>8, <1>10, <1>11

LEMMA SumFacts == ASSUME NEW s \in Seq(Byte) PROVE SumOf(s) \in Byte
  <1>1. Len(s) \in 0 .. Len(s)
    OBVIOUS
  <1>2. QED
    BY <1>1, SumsFacts

(* The sum tells apart two frames that differ in one byte. *)
LEMMA SumTellsOne ==
    ASSUME NEW s \in Seq(Byte), NEW t \in Seq(Byte), Len(s) = Len(t),
           NEW k \in 1 .. Len(s), \A i \in (1 .. Len(s)) \ {k} : s[i] = t[i],
           s[k] # t[k]
    PROVE  SumOf(s) # SumOf(t)
  <1> DEFINE a == Sums(s)
             b == Sums(t)
             n == Len(s)
  <1>1. /\ n \in Nat /\ k \in Nat /\ 1 <= k /\ k <= n /\ Len(t) = n
        /\ SumOf(s) = a[n] /\ SumOf(t) = b[n] /\ a[0] = 0 /\ b[0] = 0
    BY SumsFacts
  <1>2. \A i \in 1 .. n : /\ a[i] = (a[i - 1] + s[i]) % ByteMod
                          /\ b[i] = (b[i - 1] + t[i]) % ByteMod
    BY SumsFacts
  <1>3. \A i \in 0 .. n : a[i] \in Byte /\ b[i] \in Byte
    BY SumsFacts
  <1>4. \A i \in 1 .. n : s[i] \in Byte /\ t[i] \in Byte
    OBVIOUS
  <1>5. ByteMod \in Nat \ {0} /\ \A x \in Byte : x \in 0 .. ByteMod - 1 /\ x \in Int
    BY CommandLoopAssumption DEF Byte
  <1> HIDE DEF a, b, n
  <1> DEFINE Less == {i \in Nat : i < k => a[i] = b[i]}
             More == {i \in Nat : k + i <= n => a[k + i] # b[k + i]}
  <1>6. ASSUME NEW i \in Nat, i \in Less PROVE i + 1 \in Less
    <2>1. SUFFICES ASSUME i + 1 < k PROVE a[i + 1] = b[i + 1]
      OBVIOUS
    <2>2. a[i] = b[i] /\ i + 1 \in 1 .. n /\ i + 1 # k /\ (i + 1) - 1 = i
      BY <1>1, <1>6, <2>1
    <2>3. s[i + 1] = t[i + 1]
      BY <2>2 DEF n
    <2>4. QED
      BY <1>2, <2>2, <2>3
  <1>7. a[k - 1] = b[k - 1]
    <2>1. 0 \in Less
      BY <1>1
    <2>2. \A i \in Nat : i \in Less
      <3> HIDE DEF Less
      <3>1. QED
        BY <1>6, <2>1, SetInduction
    <2>3. k - 1 \in Nat /\ k - 1 < k
      BY <1>1
    <2>4. QED
      BY <2>2, <2>3
  <1>8. a[k] # b[k]
    <2>1. a[k] = (a[k - 1] + s[k]) % ByteMod /\ b[k] = (a[k - 1] + t[k]) % ByteMod
      BY <1>1, <1>2, <1>7
    <2>2. k \in 1 .. n /\ k - 1 \in 0 .. n
      BY <1>1
    <2>3. /\ a[k - 1] \in Int /\ s[k] \in 0 .. ByteMod - 1 /\ t[k] \in 0 .. ByteMod - 1
      BY <1>3, <1>4, <1>5, <2>2
    <2>4. QED
      BY <1>5, <2>1, <2>3, ModCancel
  <1>9. ASSUME NEW i \in Nat, i \in More PROVE i + 1 \in More
    <2>1. SUFFICES ASSUME k + (i + 1) <= n PROVE a[k + (i + 1)] # b[k + (i + 1)]
      OBVIOUS
    <2> DEFINE j == k + (i + 1)
    <2>2. j \in 1 .. n /\ j # k /\ j - 1 = k + i /\ k + i <= n /\ j - 1 \in 0 .. n
      BY <1>1, <2>1
    <2>3. a[j - 1] # b[j - 1]
      BY <1>9, <2>2
    <2> HIDE DEF j
    <2>4. s[j] = t[j] /\ a[j] = (a[j - 1] + s[j]) % ByteMod /\ b[j] = (b[j - 1] + t[j]) % ByteMod
      BY <1>2, <2>2 DEF n
    <2>5. s[j] \in Int /\ a[j - 1] \in 0 .. ByteMod - 1 /\ b[j - 1] \in 0 .. ByteMod - 1
      BY <1>3, <1>4, <1>5, <2>2
    <2>6. a[j - 1] + s[j] = s[j] + a[j - 1] /\ b[j - 1] + t[j] = s[j] + b[j - 1]
      BY <2>4, <2>5
    <2>7. a[j] # b[j]
      <3>1. a[j] = (s[j] + a[j - 1]) % ByteMod /\ b[j] = (s[j] + b[j - 1]) % ByteMod
        BY <2>4, <2>6
      <3>2. QED
        BY <1>5, <2>3, <2>5, <3>1, ModCancel
    <2>8. QED
      BY <2>7 DEF j
  <1>10. n - k \in More
    <2>1. 0 \in More
      BY <1>1, <1>8
    <2>2. n - k \in Nat
      BY <1>1
    <2> HIDE DEF More
    <2>3. QED
      BY <1>9, <2>1, <2>2, SetInduction
  <1>11. k + (n - k) = n /\ n <= n
    BY <1>1
  <1>12. QED
    BY <1>1, <1>10, <1>11

-----------------------------------------------------------------------------
LEMMA ConcatFacts ==
    ASSUME NEW S, NEW a \in Seq(S), NEW b \in Seq(S)
    PROVE  /\ a \o b \in Seq(S) /\ Len(a \o b) = Len(a) + Len(b)
           /\ \A i \in 1 .. Len(a) : (a \o b)[i] = a[i]
           /\ \A i \in 1 .. Len(b) : (a \o b)[Len(a) + i] = b[i]
  <1>1. a \o b \in Seq(S) /\ Len(a \o b) = Len(a) + Len(b) /\ Len(a) \in Nat /\ Len(b) \in Nat
    OBVIOUS
  <1>2. \A i \in 1 .. Len(a) : (a \o b)[i] = a[i]
    OBVIOUS
  <1>3. ASSUME NEW i \in 1 .. Len(b) PROVE (a \o b)[Len(a) + i] = b[i]
    <2>1. Len(a) + i \in 1 .. Len(a) + Len(b) /\ ~(Len(a) + i <= Len(a))
          /\ (Len(a) + i) - Len(a) = i
      BY <1>1
    <2>2. QED
      BY <2>1
  <1>4. QED
    BY <1>1, <1>2, <1>3

(* What is on the line is bytes, whatever is lost or altered. *)
LEMMA FrameSumType ==
    ASSUME NEW type \in Byte, NEW l0 \in Byte, NEW l1 \in Byte, NEW data \in Seq(Byte)
    PROVE  FrameSum(type, l0, l1, data) \in Byte
  <1>1. SumOf(data) \in Nat /\ type \in Nat /\ l0 \in Nat /\ l1 \in Nat /\ Magic \in Nat
    BY SumFacts, CommandLoopAssumption DEF Byte
  <1>2. ByteMod \in Nat \ {0} /\ Magic + type + l0 + l1 + SumOf(data) \in Int
    BY <1>1, CommandLoopAssumption
  <1>3. QED
    BY <1>2, ModRange DEF FrameSum, Byte

(* A length below ByteMod^2 is two bytes. *)
LEMMA LengthBytes ==
    ASSUME NEW n \in Nat, n < ByteMod * ByteMod
    PROVE  /\ n % ByteMod \in Byte /\ n \div ByteMod \in Byte
           /\ (n % ByteMod) + ByteMod * (n \div ByteMod) = n
  <1> DEFINE B == ByteMod
             q == n \div B
             r == n % B
  <1>1. B \in Nat \ {0}
    BY CommandLoopAssumption
  <1>2. n = B * q + r /\ q \in Int /\ r \in 0 .. B - 1
    <2> HIDE DEF B
    <2>1. QED
      BY <1>1, SMT
  <1> HIDE DEF q, r, B
  <1>3. q < B
    <2>1. SUFFICES ASSUME B <= q PROVE FALSE
      BY <1>1, <1>2
    <2>2. B * B <= B * q /\ B * q \in Int /\ B * B \in Int
      BY <1>1, <1>2, <2>1
    <2>3. n < B * B
      BY DEF B
    <2>4. QED
      BY <1>1, <1>2, <2>2, <2>3
  <1>4. q >= 0
    <2>1. SUFFICES ASSUME q <= 0 - 1 PROVE FALSE
      BY <1>2
    <2>2. B * q <= B * (0 - 1) /\ B * (0 - 1) = 0 - B /\ B * q \in Int
      BY <1>1, <1>2, <2>1
    <2>3. QED
      BY <1>1, <1>2, <2>2
  <1>5. q \in Byte /\ r \in Byte /\ r + B * q = n
    <2>1. B * q \in Int
      BY <1>1, <1>2
    <2>2. q \in 0 .. B - 1 /\ r + B * q = n
      BY <1>1, <1>2, <1>3, <1>4, <2>1
    <2>3. QED
      BY <1>2, <2>2 DEF Byte, B
  <1>6. QED
    BY <1>5 DEF q, r, B

LEMMA FrameFacts ==
    ASSUME NEW r \in Requests
    PROVE  /\ Frame(r) \in Seq(Byte) /\ Len(Frame(r)) = Len(r.data) + 5
           /\ Frame(r)[1] = Magic /\ Frame(r)[2] = Code[r.cmd]
           /\ Frame(r)[3] \in Byte /\ Frame(r)[4] \in Byte
           /\ Frame(r)[3] + ByteMod * Frame(r)[4] = Len(r.data)
           /\ \A i \in 1 .. Len(r.data) : Frame(r)[4 + i] = r.data[i]
           /\ Frame(r)[Len(r.data) + 5]
                = FrameSum(Code[r.cmd], Frame(r)[3], Frame(r)[4], r.data)
           /\ r.data \in Seq(Byte) /\ Code[r.cmd] \in Byte /\ Magic \in Byte
  <1> DEFINE n == Len(r.data)
             l0 == n % ByteMod
             l1 == n \div ByteMod
             head == <<Magic, Code[r.cmd], l0, l1>>
             tail == <<FrameSum(Code[r.cmd], l0, l1, r.data)>>
  <1>1. /\ r.data \in Seq(Byte) /\ n \in Nat /\ n < ByteMod * ByteMod
        /\ Code[r.cmd] \in Byte /\ Magic \in Byte
    BY CommandLoopAssumption
  <1>2. l0 \in Byte /\ l1 \in Byte /\ l0 + ByteMod * l1 = n
    BY <1>1, LengthBytes
  <1>3. head \in Seq(Byte) /\ Len(head) = 4
    <2> HIDE DEF l0, l1
    <2>1. QED
      BY <1>1, <1>2
  <1>4. tail \in Seq(Byte) /\ Len(tail) = 1
    <2> HIDE DEF l0, l1
    <2>1. FrameSum(Code[r.cmd], l0, l1, r.data) \in Byte
      BY <1>1, <1>2, FrameSumType
    <2>2. QED
      BY <2>1
  <1>5. Frame(r) = (head \o r.data) \o tail
    BY DEF Frame
  <1>6. /\ head[1] = Magic /\ head[2] = Code[r.cmd] /\ head[3] = l0 /\ head[4] = l1
        /\ tail[1] = FrameSum(Code[r.cmd], l0, l1, r.data)
    OBVIOUS
  <1> HIDE DEF head, tail, l0, l1
  <1> DEFINE m == head \o r.data
  <1>7. /\ m \in Seq(Byte) /\ Len(m) = n + 4
        /\ m[1] = head[1] /\ m[2] = head[2] /\ m[3] = head[3] /\ m[4] = head[4]
        /\ \A i \in 1 .. n : m[4 + i] = r.data[i]
    <2> DEFINE d == r.data
    <2> HIDE DEF d
    <2>1. d \in Seq(Byte) /\ m = head \o d /\ n = Len(d)
      BY <1>1 DEF d
    <2> HIDE DEF m, n
    <2>2. /\ m \in Seq(Byte) /\ Len(m) = Len(head) + Len(d)
          /\ \A i \in 1 .. Len(head) : m[i] = head[i]
          /\ \A i \in 1 .. Len(d) : m[Len(head) + i] = d[i]
      <3> DEFINE a == head
      <3>1. a \in Seq(Byte) /\ a = head
        BY <1>3
      <3> HIDE DEF a
      <3>2. /\ a \o d \in Seq(Byte) /\ Len(a \o d) = Len(a) + Len(d)
            /\ \A i \in 1 .. Len(a) : (a \o d)[i] = a[i]
            /\ \A i \in 1 .. Len(d) : (a \o d)[Len(a) + i] = d[i]
        <4>1. a \o d \in Seq(Byte) /\ Len(a \o d) = Len(a) + Len(d)
          BY <2>1, <3>1
        <4>2. \A i \in 1 .. Len(a) : (a \o d)[i] = a[i]
          BY <2>1, <3>1
        <4>3. \A i \in 1 .. Len(d) : (a \o d)[Len(a) + i] = d[i]
          BY <2>1, <3>1, ConcatFacts
        <4>4. QED
          BY <4>1, <4>2, <4>3
      <3>3. QED
        BY <2>1, <3>1, <3>2, Zenon
    <2>3. \A i \in 1 .. n : m[4 + i] = d[i]
      BY <1>3, <2>1, <2>2
    <2>4. Len(m) = n + 4 /\ n \in Nat
      BY <1>3, <2>1, <2>2
    <2>5. m[1] = head[1] /\ m[2] = head[2] /\ m[3] = head[3] /\ m[4] = head[4]
      BY <1>3, <2>2
    <2>6. QED
      BY <2>2, <2>3, <2>4, <2>5 DEF d
  <1> HIDE DEF m
  <1>8. /\ m \o tail \in Seq(Byte) /\ Len(m \o tail) = n + 5
        /\ \A i \in 1 .. n + 4 : (m \o tail)[i] = m[i]
        /\ (m \o tail)[n + 5] = tail[1]
    <2>1. /\ m \o tail \in Seq(Byte) /\ Len(m \o tail) = Len(m) + Len(tail)
          /\ \A i \in 1 .. Len(m) : (m \o tail)[i] = m[i]
          /\ \A i \in 1 .. Len(tail) : (m \o tail)[Len(m) + i] = tail[i]
      <3>1. m \in Seq(Byte) /\ tail \in Seq(Byte)
        BY <1>4, <1>7
      <3>2. QED
        <4>1. m \o tail \in Seq(Byte) /\ Len(m \o tail) = Len(m) + Len(tail)
          BY <3>1
        <4>2. \A i \in 1 .. Len(m) : (m \o tail)[i] = m[i]
          BY <3>1
        <4>3. \A i \in 1 .. Len(tail) : (m \o tail)[Len(m) + i] = tail[i]
          BY <3>1, ConcatFacts
        <4>4. QED
          BY <4>1, <4>2, <4>3
    <2>2. (m \o tail)[(n + 4) + 1] = tail[1]
      BY <1>4, <1>7, <2>1
    <2>3. n + 4 + 1 = n + 5
      BY <1>1
    <2>4. QED
      BY <1>4, <1>7, <2>1, <2>2, <2>3
  <1>9. Frame(r) = m \o tail
    BY <1>5 DEF m
  <1>10. /\ Frame(r) \in Seq(Byte) /\ Len(Frame(r)) = n + 5
         /\ Frame(r)[1] = Magic /\ Frame(r)[2] = Code[r.cmd]
         /\ Frame(r)[3] = l0 /\ Frame(r)[4] = l1
         /\ Frame(r)[n + 5] = FrameSum(Code[r.cmd], l0, l1, r.data)
    BY <1>1, <1>6, <1>7, <1>8, <1>9
  <1>11. \A i \in 1 .. n : Frame(r)[4 + i] = r.data[i]
    BY <1>1, <1>7, <1>8, <1>9
  <1>12. QED
    BY <1>1, <1>2, <1>10, <1>11

LEMMA TransmitType ==
    ASSUME line \in Seq(Byte), faults \in 0 .. MaxFaults, NEW r \in Requests, NEW h,
           Transmit(r, h)
    PROVE  line' \in Seq(Byte) /\ faults' \in 0 .. MaxFaults
  <1> DEFINE f == Frame(r)
  <1>1. f \in Seq(Byte) /\ MaxFaults \in Nat /\ Noise \subseteq Byte
    BY FrameFacts, CommandLoopAssumption
  <1>2. \A i \in 1 .. Len(f) : SubSeq(f, 1, i - 1) \in Seq(Byte)
                               /\ SubSeq(f, i + 1, Len(f)) \in Seq(Byte)
    BY <1>1
  <1>3. \A i \in 1 .. Len(f), b \in Byte : [f EXCEPT ![i] = b] \in Seq(Byte)
    BY <1>1
  <1>4. \/ line' = line \/ line' = line \o f
        \/ \E i \in 1 .. Len(f) : line' = line \o SubSeq(f, 1, i - 1) \o SubSeq(f, i + 1, Len(f))
        \/ \E i \in 1 .. Len(f), b \in Noise : line' = line \o [f EXCEPT ![i] = b]
    BY DEF Transmit
  <1>5. faults' = faults \/ (faults < MaxFaults /\ faults' = faults + 1)
    BY DEF Transmit
  <1> HIDE DEF f
  <1>6. line' \in Seq(Byte)
    <2>1. CASE line' = line \/ line' = line \o f
      BY <1>1, <2>1, ConcatFacts
    <2>2. ASSUME NEW i \in 1 .. Len(f),
                 line' = line \o SubSeq(f, 1, i - 1) \o SubSeq(f, i + 1, Len(f))
          PROVE  line' \in Seq(Byte)
      <3> DEFINE a == SubSeq(f, 1, i - 1)
                 b == SubSeq(f, i + 1, Len(f))
      <3>1. a \in Seq(Byte) /\ b \in Seq(Byte) /\ line' = line \o a \o b
        BY <1>2, <2>2
      <3> HIDE DEF a, b
      <3>2. line \o a \in Seq(Byte)
        BY <3>1, ConcatFacts
      <3>3. QED
        BY <3>1, <3>2, ConcatFacts
    <2>3. ASSUME NEW i \in 1 .. Len(f), NEW b \in Noise, line' = line \o [f EXCEPT ![i] = b]
          PROVE  line' \in Seq(Byte)
      <3> DEFINE a == [f EXCEPT ![i] = b]
      <3>1. a \in Seq(Byte) /\ line' = line \o a
        BY <1>1, <1>3, <2>3
      <3> HIDE DEF a
      <3>2. QED
        BY <3>1, ConcatFacts
    <2>4. QED
      BY <1>4, <2>1, <2>2, <2>3
  <1>7. QED
    BY <1>1, <1>5, <1>6

-----------------------------------------------------------------------------
(* The inductive invariant. *)

(* The frame at hand has the bytes read so far; it never outgrows cmd_buf: *)
(* neither the one of main nor, in a download, the one of                  *)
(* packet_receive_handle, whose header is kept in front of it here.        *)
FrameLen(raw) == raw[3] + ByteMod * raw[4]
RawOK(raw) == Len(raw) >= 4 => FrameLen(raw) <= BufSize /\ Len(raw) < FrameLen(raw) + 5
FrameOK ==
    /\ pc \in {"idle", "type", "session", "gone"} => frame = NoFrame
    /\ pc \in {"l0", "l1"} => frame.data = <<>>
    /\ pc = "data" => Len(frame.data) < DataLen /\ DataLen <= BufSize
    /\ pc \in {"sum", "run", "upload", "digest"} => Len(frame.data) = DataLen
    /\ pc = "frames" => RawOK(frame.data)

HostStates == {"ready", "waiting", "transfer"}
HostOK ==
    /\ host \in [state : HostStates, req : Requests \cup {NoRequest},
                 rates : [1 .. 2 -> Word], turn : {1, 2}]
    /\ host.state = "waiting" => host.req \in Requests

(* What is left of an accepted range ends, counted modulo 2^32, in the chip*)
Kinds == {"none", "write", "frames", "read", "digest"}
AccessOK ==
    /\ access \in [kind : Kinds, off : Word, len : Word]
    /\ (access.off + access.len) % WordMod <= FlashSize
    /\ access.kind = "digest" => access.off + access.len <= FlashSize

CInv == TypeOK /\ FrameOK /\ HostOK /\ AccessOK /\ WritesInChip

LEMMA InitCInv == Init => CInv
  <1> SUFFICES ASSUME Init PROVE CInv
    OBVIOUS
  <1>1. 0 \in Byte /\ 0 \in Word /\ FirstRate \in Word
    BY CommandLoopAssumption, WordFacts DEF Byte
  <1>2. NoFrame \in [type : Byte, l0 : Byte, l1 : Byte, data : Seq(Byte)] /\ Len(NoFrame.data) = 0
    BY <1>1 DEF NoFrame
  <1>3. TypeOK
    BY <1>1, <1>2, CommandLoopAssumption DEF Init, TypeOK, NoRange
  <1>4. FrameOK
    BY DEF Init, FrameOK
  <1>5. HostOK
    <2>1. <<FirstRate, FirstRate>> \in [1 .. 2 -> Word]
      BY <1>1
    <2>2. QED
      BY <2>1 DEF Init, HostOK, HostStates
  <1>6. AccessOK
    <2>1. 0 % WordMod = 0
      BY WordFacts, ModSmall
    <2>2. QED
      BY <1>1, <2>1, WordFacts DEF Init, AccessOK, NoRange, Kinds
  <1>7. WritesInChip
    BY DEF Init, WritesInChip
  <1>8. QED
    BY <1>3, <1>4, <1>5, <1>6, <1>7 DEF CInv

(* No range. *)
LEMMA NoRangeOK ==
    /\ NoRange \in [kind : Kinds, off : Word, len : Word]
    /\ (NoRange.off + NoRange.len) % WordMod <= FlashSize /\ NoRange.kind = "none"
  <1>1. 0 % WordMod = 0 /\ 0 \in Word
    BY WordFacts, ModSmall
  <1>2. QED
    BY <1>1, WordFacts DEF NoRange, Kinds

-----------------------------------------------------------------------------
(* Reading a frame. *)
LEMMA NoFrameOK ==
    /\ NoFrame \in [type : Byte, l0 : Byte, l1 : Byte, data : Seq(Byte)]
    /\ Len(NoFrame.data) <= BufSize
  BY CommandLoopAssumption DEF NoFrame, Byte

(* Only the frame, the place in it and the line change; what the command   *)
(* before has touched is forgotten at the first byte.                      *)
ReadsOnly ==
    /\ UNCHANGED <<rate, access, host, faults>>
    /\ UNCHANGED <<touched, loose>> \/ touched' = {}
    /\ line' \in Seq(Byte)

LEMMA ReadsOnlyKeeps ==
    ASSUME CInv, ReadsOnly, FrameOK',
           pc' \in {"idle", "type", "l0", "l1", "data", "sum", "run"},
           frame' \in [type : Byte, l0 : Byte, l1 : Byte, data : Seq(Byte)],
           Len(frame'.data) <= BufSize
    PROVE  CInv'
  <1>1. TypeOK'
    BY DEF CInv, TypeOK, ReadsOnly
  <1>2. HostOK' /\ AccessOK' /\ WritesInChip'
    BY DEF CInv, HostOK, AccessOK, WritesInChip, ReadsOnly
  <1>3. QED
    BY <1>1, <1>2 DEF CInv

LEMMA TakeByteFacts ==
    ASSUME TypeOK, TakeByte
    PROVE  Head(line) \in Byte /\ line' \in Seq(Byte)
  BY DEF TypeOK, TakeByte

LEMMA ReadMagicKeeps == ASSUME CInv, ReadMagic PROVE CInv'
  <1>1. line' \in Seq(Byte) /\ pc = "idle" /\ frame = NoFrame /\ frame' = frame
        /\ pc' \in {"idle", "type"} /\ ReadsOnly
    BY TakeByteFacts DEF CInv, ReadMagic, FrameOK, ReadsOnly
  <1>2. FrameOK'
    BY <1>1 DEF FrameOK
  <1>3. QED
    BY <1>1, <1>2, NoFrameOK, ReadsOnlyKeeps

LEMMA RefuseLengthKeeps == ASSUME CInv, RefuseLength PROVE CInv'
  <1>1. line' \in Seq(Byte) /\ frame' = NoFrame /\ pc' = "idle" /\ ReadsOnly
    BY TakeByteFacts DEF CInv, RefuseLength, ReadsOnly
  <1>2. FrameOK'
    BY <1>1 DEF FrameOK
  <1>3. QED
    BY <1>1, <1>2, NoFrameOK, ReadsOnlyKeeps

LEMMA ReadHeaderKeeps == ASSUME CInv, ReadHeader PROVE CInv'
  <1>1. /\ line' \in Seq(Byte) /\ Head(line) \in Byte /\ ReadsOnly
        /\ pc \in {"type", "l0", "l1"} /\ ~TooLong
    BY TakeByteFacts DEF CInv, ReadHeader, ReadsOnly
  <1>2. /\ frame \in [type : Byte, l0 : Byte, l1 : Byte, data : Seq(Byte)]
        /\ frame.data = <<>>
    BY <1>1 DEF CInv, TypeOK, FrameOK, NoFrame
  <1>3. CASE pc = "type"
    <2>1. frame' = [frame EXCEPT !.type = Head(line)] /\ pc' = "l0"
      BY <1>3 DEF ReadHeader
    <2>2. /\ frame' \in [type : Byte, l0 : Byte, l1 : Byte, data : Seq(Byte)]
          /\ frame'.data = <<>>
      BY <1>1, <1>2, <2>1
    <2>3. FrameOK'
      BY <2>1, <2>2 DEF FrameOK
    <2>4. QED
      BY <1>1, <2>1, <2>2, <2>3, CommandLoopAssumption, ReadsOnlyKeeps
  <1>4. CASE pc = "l0"
    <2>1. frame' = [frame EXCEPT !.l0 = Head(line)] /\ pc' = "l1"
      BY <1>4 DEF ReadHeader
    <2>2. /\ frame' \in [type : Byte, l0 : Byte, l1 : Byte, data : Seq(Byte)]
          /\ frame'.data = <<>>
      BY <1>1, <1>2, <2>1
    <2>3. FrameOK'
      BY <2>1, <2>2 DEF FrameOK
    <2>4. QED
      BY <1>1, <2>1, <2>2, <2>3, CommandLoopAssumption, ReadsOnlyKeeps
  <1>5. CASE pc = "l1"
    <2>1. frame' = [frame EXCEPT !.l1 = Head(line)] /\ pc' = AfterData
      BY <1>5 DEF ReadHeader
    <2>2. /\ frame' \in [type : Byte, l0 : Byte, l1 : Byte, data : Seq(Byte)]
          /\ frame'.data = <<>> /\ frame'.l0 = frame.l0 /\ frame'.l1 = Head(line)
      BY <1>1, <1>2, <2>1
    <2>3. /\ frame'.l0 + ByteMod * frame'.l1 <= BufSize
          /\ frame'.l0 + ByteMod * frame'.l1 \in Nat
      <3>1. frame.l0 \in Nat /\ Head(line) \in Nat /\ ByteMod \in Nat /\ BufSize \in Nat
        BY <1>1, <1>2, CommandLoopAssumption DEF Byte
      <3>2. ByteMod * Head(line) \in Nat
        BY <3>1
      <3>3. ~(frame.l0 + ByteMod * Head(line) > BufSize)
        BY <1>1, <1>5 DEF TooLong
      <3>4. QED
        BY <2>2, <3>1, <3>2, <3>3
    <2>4. Len(frame'.data) = 0
      BY <2>2
    <2>5. pc' = IF 0 = frame'.l0 + ByteMod * frame'.l1 THEN "sum" ELSE "data"
      BY <2>1, <2>4 DEF AfterData
    <2>6. FrameOK'
      BY <2>3, <2>4, <2>5 DEF FrameOK, DataLen
    <2>7. QED
      BY <1>1, <2>2, <2>4, <2>5, <2>6, CommandLoopAssumption, ReadsOnlyKeeps
  <1>6. QED
    BY <1>1, <1>3, <1>4, <1>5

LEMMA ReadDataKeeps == ASSUME CInv, ReadData PROVE CInv'
  <1>1. /\ line' \in Seq(Byte) /\ Head(line) \in Byte /\ ReadsOnly /\ pc = "data"
        /\ frame' = [frame EXCEPT !.data = Append(@, Head(line))] /\ pc' = AfterData
    BY TakeByteFacts DEF CInv, ReadData, ReadsOnly
  <1>2. /\ frame \in [type : Byte, l0 : Byte, l1 : Byte, data : Seq(Byte)]
        /\ Len(frame.data) < DataLen /\ DataLen <= BufSize
    BY <1>1 DEF CInv, TypeOK, FrameOK
  <1>3. /\ frame' \in [type : Byte, l0 : Byte, l1 : Byte, data : Seq(Byte)]
        /\ frame'.data = Append(frame.data, Head(line))
        /\ frame'.l0 = frame.l0 /\ frame'.l1 = frame.l1
    <2> DEFINE d == Append(frame.data, Head(line))
    <2>1. d \in Seq(Byte) /\ frame' = [frame EXCEPT !.data = d]
      BY <1>1, <1>2
    <2>2. d = Append(frame.data, Head(line))
      OBVIOUS
    <2> HIDE DEF d
    <2>3. /\ frame' \in [type : Byte, l0 : Byte, l1 : Byte, data : Seq(Byte)]
          /\ frame'.data = d /\ frame'.l0 = frame.l0 /\ frame'.l1 = frame.l1
      BY <1>2, <2>1
    <2>4. QED
      BY <2>2, <2>3
  <1>4. Len(frame'.data) = Len(frame.data) + 1 /\ Len(frame.data) \in Nat
    BY <1>2, <1>3
  <1>5. DataLen \in Nat /\ DataLen = frame.l0 + ByteMod * frame.l1 /\ BufSize \in Nat
    <2>1. frame.l0 \in Nat /\ frame.l1 \in Nat /\ ByteMod \in Nat /\ BufSize \in Nat
      BY <1>2, CommandLoopAssumption DEF Byte
    <2>2. QED
      BY <2>1 DEF DataLen
  <1>6. pc' = IF Len(frame'.data) = DataLen THEN "sum" ELSE "data"
    BY <1>1, <1>3, <1>5 DEF AfterData
  <1>7. DataLen' = DataLen
    BY <1>3, <1>5 DEF DataLen
  <1>8. FrameOK'
    BY <1>2, <1>4, <1>5, <1>6, <1>7 DEF FrameOK
  <1>9. Len(frame'.data) <= BufSize /\ pc' \in {"data", "sum"}
    BY <1>2, <1>4, <1>5, <1>6
  <1>10. QED
    BY <1>1, <1>3, <1>8, <1>9, ReadsOnlyKeeps

LEMMA ReadSumKeeps == ASSUME CInv, ReadSum PROVE CInv'
  <1>1. line' \in Seq(Byte) /\ ReadsOnly /\ pc = "sum"
        /\ \/ pc' = "run" /\ frame' = frame
           \/ pc' = "idle" /\ frame' = NoFrame
    BY TakeByteFacts DEF CInv, ReadSum, ReadsOnly
  <1>2. /\ frame \in [type : Byte, l0 : Byte, l1 : Byte, data : Seq(Byte)]
        /\ Len(frame.data) = DataLen /\ Len(frame.data) <= BufSize
    BY <1>1 DEF CInv, TypeOK, FrameOK
  <1>3. FrameOK'
    BY <1>1, <1>2 DEF FrameOK, DataLen
  <1>4. QED
    BY <1>1, <1>2, <1>3, NoFrameOK, ReadsOnlyKeeps

LEMMA FrameTimeoutKeeps == ASSUME CInv, FrameTimeout PROVE CInv'
  <1>1. line' \in Seq(Byte) /\ frame' = NoFrame /\ pc' = "idle" /\ ReadsOnly
    BY DEF CInv, TypeOK, FrameTimeout, ReadsOnly, netVars
  <1>2. FrameOK'
    BY <1>1 DEF FrameOK
  <1>3. QED
    BY <1>1, <1>2, NoFrameOK, ReadsOnlyKeeps

-----------------------------------------------------------------------------
(* The handlers. *)
RunFacts == /\ frame \in [type : Byte, l0 : Byte, l1 : Byte, data : Seq(Byte)]
            /\ Len(frame.data) = DataLen /\ Len(frame.data) <= BufSize

LEMMA OffCount ==
    ASSUME RunFacts
    PROVE  /\ DataLen >= WordBytes => Off \in Word
           /\ DataLen >= 2 * WordBytes => Off \in Word /\ Count \in Word
  <1>1. frame.data \in Seq(Byte) /\ Len(frame.data) = DataLen /\ WordBytes \in Nat
        /\ DataLen \in Nat
    BY CommandLoopAssumption DEF RunFacts
  <1>2. ASSUME DataLen >= WordBytes PROVE Off \in Word
    <2>1. WordBytes * 0 + WordBytes <= Len(frame.data) /\ 0 \in Nat
      BY <1>1, <1>2
    <2>2. QED
      BY <1>1, <2>1, LoadType DEF Off
  <1>3. ASSUME DataLen >= 2 * WordBytes PROVE Count \in Word /\ Off \in Word
    <2>1. WordBytes * 1 + WordBytes <= Len(frame.data) /\ 1 \in Nat /\ DataLen >= WordBytes
      BY <1>1, <1>3
    <2>2. QED
      BY <1>1, <1>2, <2>1, LoadType DEF Count
  <1>4. QED
    BY <1>2, <1>3

(* A range whose end, modulo 2^32, is in the chip is erased inside it: the *)
(* walk of the W800 compares with the loose end.                         *)
LEMMA WalkInChip ==
    ASSUME NEW o \in Word, NEW n \in Word, (o + n) % WordMod <= FlashSize
    PROVE  EraseWalk(o, n) \subseteq 0 .. FlashSize - 1 /\ EraseWalk(o, n) \subseteq Word
  <1>1. /\ o + n \in Int /\ WordMod \in Nat \ {0} /\ FlashSize \in Nat
        /\ (o + n) % WordMod \in 0 .. WordMod - 1
    <2>1. WordMod \in Nat \ {0} /\ FlashSize \in Nat /\ o + n \in Int
      BY WordFacts DEF Word
    <2>2. QED
      BY <2>1, ModRange
  <1> DEFINE end == (o + n) % WordMod
  <1>2. EraseWalk(o, n) = {s \in Word : o <= s /\ s < end}
    BY DEF EraseWalk
  <1>3. end \in Nat /\ end <= FlashSize
    BY <1>1
  <1> HIDE DEF end
  <1>4. \A s \in Word : s \in Nat
    BY <1>1 DEF Word
  <1>5. QED
    BY <1>1, <1>2, <1>3, <1>4

LEMMA ChipWalk ==
    EraseWalk(Protected, FlashSize - Protected) \subseteq (0 .. FlashSize - 1) \cap Word
  <1>1. Protected \in Nat /\ FlashSize \in Nat /\ FlashSize < WordMod /\ WordMod \in Nat \ {0}
    BY WordFacts, CommandLoopAssumption
  <1>2. Protected + (FlashSize - Protected) = FlashSize /\ FlashSize \in 0 .. WordMod - 1
    BY <1>1
  <1>3. (Protected + (FlashSize - Protected)) % WordMod = FlashSize
    BY <1>1, <1>2, ModSmall
  <1>4. EraseWalk(Protected, FlashSize - Protected) = {s \in Word : Protected <= s /\ s < FlashSize}
    BY <1>3 DEF EraseWalk
  <1>5. \A s \in Word : s \in Nat
    BY <1>1 DEF Word
  <1>6. QED
    BY <1>1, <1>4, <1>5

(* What any handler leaves: the frame is done or a phase of its own has    *)
(* begun, with a range that ends in the chip.                              *)
Leaves == UNCHANGED <<loose, line, host, faults>> /\ rate' \in Word
NextPhase ==
    \/ pc' \in {"idle", "session", "gone"} /\ frame' = NoFrame
    \/ pc' \in {"upload", "digest"} /\ frame' = frame
    \/ pc' = "frames" /\ frame' = [NoFrame EXCEPT !.type = frame.type]
NewRange ==
    /\ Off \in Word /\ Count \in Word
    /\ (Off + Count) % WordMod <= FlashSize
    /\ \E kind \in Kinds :
          /\ access' = [kind |-> kind, off |-> Off, len |-> Count]
          /\ kind = "digest" => Off + Count <= FlashSize
TouchesChip ==
    /\ touched \subseteq touched'
    /\ touched' \ touched \subseteq (0 .. FlashSize - 1) \cap Word
HandlerDone ==
    /\ Leaves /\ NextPhase /\ TouchesChip
    /\ access' = access \/ NewRange

LEMMA HandlerDoneKeeps ==
    ASSUME CInv, pc = "run", HandlerDone
    PROVE  CInv'
  <1>1. RunFacts /\ DataLen' = IF frame' = frame THEN DataLen ELSE DataLen'
    BY DEF CInv, TypeOK, FrameOK, RunFacts, DataLen
  <1>2. /\ frame' \in [type : Byte, l0 : Byte, l1 : Byte, data : Seq(Byte)]
        /\ Len(frame'.data) <= BufSize
        /\ pc' \in {"idle", "session", "gone", "upload", "digest", "frames"}
    <2>1. CASE pc' = "frames" /\ frame' = [NoFrame EXCEPT !.type = frame.type]
      BY <1>1, <2>1, NoFrameOK DEF RunFacts
    <2>2. QED
      BY <1>1, <2>1, NoFrameOK DEF HandlerDone, NextPhase, RunFacts
  <1>3. FrameOK'
    <2>1. CASE pc' = "frames" /\ frame' = [NoFrame EXCEPT !.type = frame.type]
      <3>1. Len(frame'.data) = 0
        BY <2>1, NoFrameOK DEF NoFrame
      <3>2. QED
        BY <2>1, <3>1 DEF FrameOK, RawOK
    <2>2. CASE ~(pc' = "frames" /\ frame' = [NoFrame EXCEPT !.type = frame.type])
      BY <1>1, <2>2 DEF HandlerDone, NextPhase, FrameOK, RunFacts, DataLen
    <2>3. QED
      BY <2>1, <2>2
  <1>4. AccessOK'
    <2>1. CASE access' = access
      BY <2>1 DEF CInv, AccessOK
    <2>2. CASE access' # access
      <3>1. /\ Off \in Word /\ Count \in Word
            /\ (Off + Count) % WordMod <= FlashSize
        BY <2>2 DEF HandlerDone, NewRange
      <3>2. PICK kind \in Kinds :
                /\ access' = [kind |-> kind, off |-> Off, len |-> Count]
                /\ kind = "digest" => Off + Count <= FlashSize
        BY <2>2 DEF HandlerDone, NewRange
      <3>3. access'.off = Off /\ access'.len = Count /\ access'.kind = kind
        BY <3>2
      <3>4. access' \in [kind : Kinds, off : Word, len : Word]
        BY <3>1, <3>2
      <3>5. QED
        BY <3>1, <3>2, <3>3, <3>4 DEF AccessOK
    <2>3. QED
      BY <2>1, <2>2
  <1>5. HostOK'
    BY DEF CInv, HandlerDone, Leaves, HostOK
  <1>6. WritesInChip' /\ touched' \subseteq Word
    BY DEF CInv, HandlerDone, Leaves, TouchesChip, WritesInChip, TypeOK
  <1>7. {access.off, access.len}' \subseteq Word
    BY <1>4 DEF AccessOK
  <1>8. TypeOK'
    BY <1>2, <1>6, <1>7, CommandLoopAssumption DEF HandlerDone, Leaves, CInv, TypeOK
  <1>9. QED
    BY <1>3, <1>4, <1>5, <1>6, <1>8 DEF CInv

LEMMA AnswerDone ==
    ASSUME CInv, NEW status, Answer(status)
    PROVE  HandlerDone
  BY DEF CInv, TypeOK, Answer, HandlerDone, Leaves, NextPhase, TouchesChip

LEMMA EnterPhase ==
    ASSUME CInv, NEW status, NEW phase \in {"idle", "session", "gone"}, Enter(phase, status)
    PROVE  Leaves /\ NextPhase
  BY DEF CInv, TypeOK, Enter, Leaves, NextPhase

LEMMA EnterFramesPhase == ASSUME CInv, EnterFrames PROVE Leaves /\ NextPhase
  BY DEF CInv, TypeOK, EnterFrames, Leaves, NextPhase

LEMMA TouchesNothing == ASSUME touched' = touched PROVE TouchesChip
  BY DEF TouchesChip

LEMMA AcceptedRange ==
    ASSUME RunFacts, DataLen >= 2 * WordBytes, InRange,
           NEW kind \in {"write", "read", "frames"}, Accepted(kind)
    PROVE  NewRange
  BY OffCount DEF InRange, Accepted, NewRange, Kinds

LEMMA EraseTouches ==
    ASSUME RunFacts, DataLen >= 2 * WordBytes, InRange,
           touched \subseteq touched', touched' \subseteq touched \cup EraseWalk(Off, Count)
    PROVE  TouchesChip
  <1>1. Off \in Word /\ Count \in Word
    BY OffCount
  <1>2. EraseWalk(Off, Count) \subseteq 0 .. FlashSize - 1 /\ EraseWalk(Off, Count) \subseteq Word
    BY <1>1, WalkInChip DEF InRange
  <1>3. QED
    BY <1>2 DEF TouchesChip

LEMMA RefusedDone ==
    ASSUME CInv, RangeRefused(DataLen = 2 * WordBytes) \/ RangeRefused(DataLen >= 2 * WordBytes)
    PROVE  HandlerDone
  <1>1. \E status : Answer(status)
    BY DEF RangeRefused
  <1>2. QED
    BY <1>1, AnswerDone

LEMMA EraseFailsDone ==
    ASSUME CInv, RunFacts, EraseFails, DataLen >= 2 * WordBytes, InRange
    PROVE  HandlerDone
  <1>1. TouchesChip
    BY EraseTouches DEF EraseFails
  <1>2. Leaves /\ NextPhase
    BY EnterPhase DEF EraseFails
  <1>3. QED
    BY <1>1, <1>2 DEF EraseFails, HandlerDone

(* A range is accepted and a transfer begins, after an erase or without it.*)
LEMMA TransferDone ==
    ASSUME CInv, RunFacts, DataLen >= 2 * WordBytes, InRange,
           touched \subseteq touched', touched' \subseteq touched \cup EraseWalk(Off, Count),
           NEW kind \in {"write", "read", "frames"}, access' = access \/ Accepted(kind),
           EnterFrames \/ \E phase \in {"idle", "session"} : Enter(phase, "SUCCESS")
    PROVE  HandlerDone
  <1>1. TouchesChip
    BY EraseTouches
  <1>2. Leaves /\ NextPhase
    BY EnterPhase, EnterFramesPhase
  <1>3. access' = access \/ NewRange
    BY AcceptedRange
  <1>4. QED
    BY <1>1, <1>2, <1>3 DEF HandlerDone

(* A phase that answers later begins. *)
LEMMA PhaseDone ==
    ASSUME CInv, NewRange, pc' \in {"upload", "digest"},
           UNCHANGED <<frame, rate, touched, loose, netVars, host>>
    PROVE  HandlerDone
  BY DEF CInv, TypeOK, HandlerDone, Leaves, NextPhase, TouchesChip, netVars

LEMMA BaudChangeDone == ASSUME CInv, RunFacts, BaudChange PROVE HandlerDone
  <1>1. CASE DataLen # WordBytes
    BY <1>1, AnswerDone DEF BaudChange
  <1>2. CASE DataLen = WordBytes
    <2>1. rate' = Off /\ pc' = "idle" /\ frame' = NoFrame
          /\ UNCHANGED <<touched, access, loose, line, host, aligned, faults>>
      BY <1>2 DEF BaudChange
    <2>2. Off \in Word
      <3>1. DataLen >= WordBytes
        BY <1>2, CommandLoopAssumption
      <3>2. QED
        BY <3>1, OffCount
    <2>3. QED
      BY <2>1, <2>2 DEF HandlerDone, Leaves, NextPhase, TouchesChip
  <1>3. QED
    BY <1>1, <1>2

LEMMA FlashDigestDone == ASSUME CInv, RunFacts, FlashDigest PROVE HandlerDone
  <1>1. CASE DataLen = 2 * WordBytes /\ DigestRange(Off, Count)
    <2>1. DataLen >= 2 * WordBytes /\ DataLen = 2 * WordBytes
      BY <1>1, CommandLoopAssumption
    <2>2. Off \in Word /\ Count \in Word
      BY <2>1, OffCount
    <2>3. Off + Count <= FlashSize /\ Off + Count \in Nat
      BY <1>1, <2>2, WordFacts DEF DigestRange, Word
    <2>4. Off + Count \in 0 .. WordMod - 1 /\ WordMod \in Nat \ {0}
      BY <2>3, WordFacts
    <2>5. (Off + Count) % WordMod = Off + Count
      BY <2>4, ModSmall
    <2>6. \/ pc' = "digest" /\ Accepted("digest")
             /\ UNCHANGED <<frame, rate, touched, loose, netVars, host>>
          \/ \E status : Answer(status)
      BY DEF FlashDigest
    <2>7. CASE pc' = "digest" /\ Accepted("digest")
               /\ UNCHANGED <<frame, rate, touched, loose, netVars, host>>
      <3>1. NewRange
        <4>1. (Off + Count) % WordMod <= FlashSize
          BY <2>3, <2>5
        <4>2. QED
          BY <2>2, <2>3, <2>7, <4>1 DEF NewRange, Accepted, Kinds
      <3>2. QED
        BY <2>7, <3>1, PhaseDone
    <2>8. QED
      BY <2>6, <2>7, AnswerDone
  <1>2. CASE ~(DataLen = 2 * WordBytes /\ DigestRange(Off, Count))
    <2>1. \E status : Answer(status)
      BY <1>2 DEF FlashDigest
    <2>2. QED
      BY <2>1, AnswerDone
  <1>3. QED
    BY <1>1, <1>2

LEMMA HandlerMakesDone ==
    ASSUME CInv, Handler
    PROVE  HandlerDone /\ pc = "run"
  <1>1. pc = "run"
    BY DEF Handler, Sync, RamDownload, FlashDownload, FlashErase, FlashUpload, BaudChange, Run,
           FlashId, FlashDigest, GetMac, XmodemWrite, XmodemRead, RawRead, ChipErase,
           ReadFuses, Registers, KeyValue, JumpRam, Unknown, Received
  <1> SUFFICES HandlerDone
    BY <1>1
  <1>2. RunFacts
    BY <1>1 DEF CInv, TypeOK, FrameOK, RunFacts
  <1>3. DataLen = 2 * WordBytes => DataLen >= 2 * WordBytes
    BY CommandLoopAssumption
  <1>4. CASE Sync \/ FlashId \/ GetMac \/ ReadFuses \/ Registers \/ KeyValue \/ Unknown
    <2>1. \E status : Answer(status)
      BY <1>4 DEF Sync, FlashId, GetMac, ReadFuses, Registers, KeyValue, Unknown
    <2>2. QED
      BY <2>1, AnswerDone
  <1>5. CASE RamDownload \/ Run \/ RawRead
    <2>1. \/ \E status : Answer(status)
          \/ /\ EnterFrames \/ \E phase \in {"idle", "session", "gone"} : Enter(phase, "SUCCESS")
             /\ touched' = touched /\ access' = access
      BY <1>5 DEF RamDownload, Run, RawRead
    <2>2. QED
      BY <2>1, AnswerDone, EnterPhase, EnterFramesPhase, TouchesNothing DEF HandlerDone
  <1>6. CASE FlashDownload
    <2>1. \/ RangeRefused(DataLen = 2 * WordBytes)
          \/ DataLen = 2 * WordBytes /\ InRange /\ EraseFails
          \/ /\ DataLen = 2 * WordBytes /\ InRange
             /\ touched' = touched \cup EraseWalk(Off, Count)
             /\ access' = access \/ Accepted("frames")
             /\ EnterFrames
      BY <1>6 DEF FlashDownload
    <2>2. QED
      BY <1>2, <1>3, <2>1, RefusedDone, EraseFailsDone, TransferDone
  <1>7. CASE FlashErase
    <2>1. \/ RangeRefused(DataLen >= 2 * WordBytes)
          \/ DataLen >= 2 * WordBytes /\ InRange /\ EraseFails
          \/ /\ DataLen >= 2 * WordBytes /\ InRange
             /\ touched' = touched \cup EraseWalk(Off, Count)
             /\ access' = access /\ Enter("idle", "SUCCESS")
      BY <1>7 DEF FlashErase
    <2>2. QED
      BY <1>2, <2>1, RefusedDone, EraseFailsDone, TransferDone
  <1>8. CASE FlashUpload
    <2>1. \/ RangeRefused(DataLen = 2 * WordBytes)
          \/ /\ DataLen = 2 * WordBytes /\ InRange
             /\ pc' = "upload" /\ Accepted("read")
             /\ UNCHANGED <<frame, rate, touched, loose, netVars, host>>
      BY <1>8 DEF FlashUpload
    <2>2. QED
      BY <1>2, <1>3, <2>1, RefusedDone, AcceptedRange, PhaseDone
  <1>9. CASE XmodemWrite \/ XmodemRead
    <2>1. \/ RangeRefused(DataLen >= 2 * WordBytes)
          \/ /\ DataLen >= 2 * WordBytes /\ InRange
             /\ touched' = touched \/ touched' = touched \cup EraseWalk(Off, Count)
             /\ \E kind \in {"write", "read"} : Accepted(kind)
             /\ Enter("session", "SUCCESS")
      BY <1>9 DEF XmodemWrite, XmodemRead
    <2>2. QED
      BY <1>2, <2>1, RefusedDone, TransferDone
  <1>10. CASE ChipErase
    <2>1. \/ \E status : Answer(status)
          \/ /\ touched' = touched \cup EraseWalk(Protected, FlashSize - Protected)
             /\ Enter("idle", "SUCCESS") /\ access' = access
      BY <1>10 DEF ChipErase
    <2>2. ASSUME touched' = touched \cup EraseWalk(Protected, FlashSize - Protected)
          PROVE  TouchesChip
      BY <2>2, ChipWalk DEF TouchesChip
    <2>3. QED
      BY <2>1, <2>2, AnswerDone, EnterPhase DEF HandlerDone
  <1>11. CASE JumpRam
    <2>1. \/ \E status : Answer(status)
          \/ /\ pc' \in {"idle", "gone"} /\ frame' = NoFrame
             /\ UNCHANGED <<rate, touched, access, loose, netVars, host>>
      BY <1>11 DEF JumpRam
    <2>2. CASE /\ pc' \in {"idle", "gone"} /\ frame' = NoFrame
               /\ UNCHANGED <<rate, touched, access, loose, netVars, host>>
      BY <2>2 DEF CInv, TypeOK, HandlerDone, Leaves, NextPhase, TouchesChip, netVars
    <2>3. QED
      BY <2>1, <2>2, AnswerDone
  <1>12. QED
    BY <1>1, <1>2, <1>4, <1>5, <1>6, <1>7, <1>8, <1>9, <1>10, <1>11, BaudChangeDone,
       FlashDigestDone DEF Handler

-----------------------------------------------------------------------------
(* The phases that follow an answer, the host and the line.                *)
LEMMA UploadChunkKeeps == ASSUME CInv, UploadChunk PROVE CInv'
  <1> DEFINE n == IF access.len < ChunkLen THEN access.len ELSE ChunkLen
  <1>1. /\ pc = "upload"
        /\ UNCHANGED <<rate, touched, loose, line, host, aligned, faults>>
        /\ \/ access.len = n /\ pc' = "idle" /\ access' = NoRange /\ frame' = NoFrame
           \/ /\ access' = [access EXCEPT !.off = (@ + n) % WordMod, !.len = @ - n]
              /\ UNCHANGED <<pc, frame>>
    BY DEF UploadChunk
  <1>2. /\ access \in [kind : Kinds, off : Word, len : Word]
        /\ (access.off + access.len) % WordMod <= FlashSize
        /\ access.kind = "digest" => access.off + access.len <= FlashSize
    BY DEF CInv, AccessOK
  <1>3. AccessOK'
    <2>1. CASE access' = NoRange
      BY <2>1, NoRangeOK DEF AccessOK
    <2>2. CASE access' = [access EXCEPT !.off = (@ + n) % WordMod, !.len = @ - n]
      <3>1. /\ access.off \in Nat /\ access.len \in Nat /\ access.len < WordMod
            /\ ChunkLen \in Nat /\ WordMod \in Nat \ {0} /\ FlashSize \in Nat
        BY <1>2, WordFacts, CommandLoopAssumption DEF Word
      <3>2. n \in Nat /\ n <= access.len
        BY <3>1
      <3> HIDE DEF n
      <3>3. (access.off + n) % WordMod \in Word /\ access.len - n \in Word
        <4>1. access.off + n \in Int
          BY <3>1, <3>2
        <4>2. (access.off + n) % WordMod \in 0 .. WordMod - 1
          BY <3>1, <4>1, ModRange
        <4>3. access.len - n \in 0 .. WordMod - 1
          BY <3>1, <3>2
        <4>4. QED
          BY <4>2, <4>3 DEF Word
      <3>4. /\ access' \in [kind : Kinds, off : Word, len : Word]
            /\ access'.off = (access.off + n) % WordMod /\ access'.len = access.len - n
            /\ access'.kind = access.kind
        BY <1>2, <2>2, <3>3
      <3>5. (access'.off + access'.len) % WordMod = (access.off + access.len) % WordMod
        BY <3>1, <3>2, <3>4, ModOnward
      <3>6. access.kind = "digest" => access'.off + access'.len <= FlashSize
        <4>1. SUFFICES ASSUME access.kind = "digest"
                       PROVE  access'.off + access'.len <= FlashSize
          OBVIOUS
        <4>2. access.off + access.len <= FlashSize /\ FlashSize < WordMod
          BY <1>2, <4>1, WordFacts
        <4>3. access.off + n \in 0 .. WordMod - 1
          BY <3>1, <3>2, <4>2
        <4>4. (access.off + n) % WordMod = access.off + n
          BY <3>1, <4>3, ModSmall
        <4>5. QED
          BY <3>1, <3>2, <3>4, <4>2, <4>4
      <3>7. QED
        BY <1>2, <3>4, <3>5, <3>6 DEF AccessOK
    <2>3. QED
      BY <1>1, <2>1, <2>2
  <1>4. /\ frame' \in [type : Byte, l0 : Byte, l1 : Byte, data : Seq(Byte)]
        /\ Len(frame'.data) <= BufSize /\ pc' \in {"idle", "upload"}
    BY <1>1, NoFrameOK DEF CInv, TypeOK
  <1>5. FrameOK'
    BY <1>1 DEF CInv, FrameOK, DataLen
  <1>6. HostOK' /\ WritesInChip'
    BY <1>1 DEF CInv, HostOK, WritesInChip
  <1>7. {access.off, access.len}' \subseteq Word
    BY <1>3 DEF AccessOK
  <1>8. TypeOK'
    BY <1>1, <1>4, <1>7 DEF CInv, TypeOK
  <1>9. QED
    BY <1>3, <1>5, <1>6, <1>8 DEF CInv

LEMMA DigestDoneKeeps == ASSUME CInv, DigestDone PROVE CInv'
  <1>1. /\ pc' = "idle" /\ access' = NoRange /\ frame' = NoFrame
        /\ UNCHANGED <<rate, touched, loose, line, host, aligned, faults>>
    BY DEF DigestDone
  <1>2. FrameOK' /\ AccessOK'
    BY <1>1, NoRangeOK DEF FrameOK, AccessOK
  <1>3. HostOK' /\ WritesInChip'
    BY <1>1 DEF CInv, HostOK, WritesInChip
  <1>4. {access.off, access.len}' \subseteq Word
    BY <1>2 DEF AccessOK
  <1>5. TypeOK'
    BY <1>1, <1>4, NoFrameOK DEF CInv, TypeOK
  <1>6. QED
    BY <1>2, <1>3, <1>5 DEF CInv

LEMMA SessionEndsKeeps == ASSUME CInv, SessionEnds PROVE CInv'
  <1>1. /\ pc = "session" /\ pc' = "idle" /\ access' = NoRange /\ frame' = frame
        /\ UNCHANGED <<rate, touched, loose, line, host, aligned, faults>>
    BY DEF SessionEnds, netVars
  <1>2. FrameOK' /\ AccessOK'
    BY <1>1, NoRangeOK DEF CInv, FrameOK, AccessOK
  <1>3. HostOK' /\ WritesInChip'
    BY <1>1 DEF CInv, HostOK, WritesInChip
  <1>4. {access.off, access.len}' \subseteq Word
    BY <1>2 DEF AccessOK
  <1>5. TypeOK'
    BY <1>1, <1>4 DEF CInv, TypeOK
  <1>6. QED
    BY <1>2, <1>3, <1>5 DEF CInv

(* A transfer writes inside the chip unless its range wraps. *)
LEMMA SessionWritesKeeps == ASSUME CInv, SessionWrites PROVE CInv'
  <1> DEFINE S == {(access.off + i) % WordMod : i \in 0 .. access.len - 1}
  <1>1. /\ touched' = touched \cup S /\ pc = "session"
        /\ loose' = (loose \/ access.off + access.len >= WordMod)
        /\ UNCHANGED <<pc, frame, rate, access, line, host, faults>>
    BY DEF SessionWrites, netVars
  <1>2. /\ access.off \in Nat /\ access.len \in Nat /\ WordMod \in Nat \ {0} /\ FlashSize \in Nat
        /\ (access.off + access.len) % WordMod <= FlashSize
    BY WordFacts DEF CInv, AccessOK, Word
  <1>3. S \subseteq Word
    <2>1. ASSUME NEW i \in 0 .. access.len - 1 PROVE (access.off + i) % WordMod \in Word
      <3>1. access.off + i \in Int
        BY <1>2
      <3>2. (access.off + i) % WordMod \in 0 .. WordMod - 1
        BY <1>2, <3>1, ModRange
      <3>3. QED
        BY <3>2 DEF Word
    <2>2. QED
      BY <2>1
  <1>4. ASSUME access.off + access.len < WordMod PROVE S \subseteq 0 .. FlashSize - 1
    <2>1. access.off + access.len <= FlashSize
      <3>1. access.off + access.len \in 0 .. WordMod - 1
        BY <1>2, <1>4
      <3>2. (access.off + access.len) % WordMod = access.off + access.len
        BY <1>2, <3>1, ModSmall
      <3>3. QED
        BY <1>2, <3>2
    <2>2. ASSUME NEW i \in 0 .. access.len - 1
          PROVE  (access.off + i) % WordMod \in 0 .. FlashSize - 1
      <3>1. access.off + i \in 0 .. WordMod - 1 /\ access.off + i \in 0 .. FlashSize - 1
        BY <1>2, <1>4, <2>1
      <3>2. (access.off + i) % WordMod = access.off + i
        BY <1>2, <3>1, ModSmall
      <3>3. QED
        BY <3>1, <3>2
    <2>3. QED
      BY <2>2
  <1> HIDE DEF S
  <1>5. WritesInChip'
    <2>1. SUFFICES ASSUME ~loose' PROVE touched' \subseteq 0 .. FlashSize - 1
      BY DEF WritesInChip
    <2>2. ~loose /\ ~(access.off + access.len >= WordMod)
      BY <1>1, <2>1, Zenon
    <2>3. access.off + access.len < WordMod
      BY <1>2, <2>2
    <2>4. QED
      BY <1>1, <1>4, <2>2, <2>3 DEF CInv, WritesInChip
  <1>6. FrameOK' /\ HostOK' /\ AccessOK'
    BY <1>1 DEF CInv, FrameOK, HostOK, AccessOK, DataLen
  <1>7. TypeOK'
    BY <1>1, <1>3 DEF CInv, TypeOK
  <1>8. QED
    BY <1>5, <1>6, <1>7 DEF CInv

(* The frames of a download. *)
LEMMA RawFacts ==
    ASSUME CInv, FrameByte
    PROVE  /\ frame \in [type : Byte, l0 : Byte, l1 : Byte, data : Seq(Byte)]
           /\ Raw \in Seq(Byte) /\ Len(Raw) = Len(frame.data) + 1 /\ Len(frame.data) \in Nat
           /\ \A i \in 1 .. Len(frame.data) : Raw[i] = frame.data[i]
           /\ RawOK(frame.data) /\ line' \in Seq(Byte) /\ pc = "frames"
           /\ Len(Raw) >= 4 => RawLen \in Nat
           /\ Len(Raw) > 4 => RawLen = FrameLen(frame.data)
  <1> DEFINE d == frame.data
             b == Head(line)
  <1>1. /\ frame \in [type : Byte, l0 : Byte, l1 : Byte, data : Seq(Byte)]
        /\ b \in Byte /\ line' \in Seq(Byte) /\ pc = "frames" /\ RawOK(frame.data)
    BY TakeByteFacts DEF CInv, TypeOK, FrameOK, FrameByte
  <1>2. d \in Seq(Byte) /\ Raw = Append(d, b)
    BY <1>1 DEF Raw
  <1> HIDE DEF d, b
  <1>3. /\ Raw \in Seq(Byte) /\ Len(Raw) = Len(d) + 1 /\ Len(d) \in Nat
        /\ \A i \in 1 .. Len(d) : Raw[i] = d[i]
    BY <1>1, <1>2
  <1>4. ASSUME Len(Raw) >= 4 PROVE RawLen \in Nat
    <2>1. Raw[3] \in Byte /\ Raw[4] \in Byte /\ ByteMod \in Nat
      BY <1>3, <1>4, CommandLoopAssumption
    <2>2. Raw[3] \in Nat /\ Raw[4] \in Nat
      BY <2>1 DEF Byte
    <2>3. QED
      BY <2>1, <2>2 DEF RawLen
  <1>5. ASSUME Len(Raw) > 4 PROVE RawLen = FrameLen(d)
    <2>1. 3 \in 1 .. Len(d) /\ 4 \in 1 .. Len(d)
      BY <1>3, <1>5
    <2>2. QED
      BY <1>3, <2>1 DEF RawLen, FrameLen
  <1>6. QED
    BY <1>1, <1>3, <1>4, <1>5 DEF d

LEMMA FrameGoesOnKeeps == ASSUME CInv, FrameGoesOn PROVE CInv'
  <1>1. /\ FrameByte /\ frame' = [frame EXCEPT !.data = Raw]
        /\ \/ Len(Raw) < 4
           \/ Len(Raw) = 4 /\ RawLen <= BufSize
           \/ Len(Raw) > 4 /\ Len(Raw) < RawLen + 5
        /\ UNCHANGED <<pc, rate, touched, access, loose, host, faults>>
    BY DEF FrameGoesOn
  <1>2. /\ frame \in [type : Byte, l0 : Byte, l1 : Byte, data : Seq(Byte)]
        /\ Raw \in Seq(Byte) /\ Len(Raw) \in Nat /\ pc' = "frames" /\ line' \in Seq(Byte)
        /\ Len(Raw) >= 4 => RawLen \in Nat
    BY <1>1, RawFacts
  <1>3. /\ frame' \in [type : Byte, l0 : Byte, l1 : Byte, data : Seq(Byte)]
        /\ frame'.data = Raw
    BY <1>1, <1>2
  <1>4. RawLen = FrameLen(Raw) /\ BufSize \in Nat
    BY CommandLoopAssumption DEF RawLen, FrameLen
  <1>5. Len(Raw) > 4 => RawLen <= BufSize
    <2>1. SUFFICES ASSUME Len(Raw) > 4 PROVE RawLen <= BufSize
      OBVIOUS
    <2>2. Len(frame.data) >= 4 /\ RawLen = FrameLen(frame.data) /\ RawOK(frame.data)
      BY <1>1, <2>1, RawFacts
    <2>3. QED
      BY <2>2 DEF RawOK
  <1>6. RawOK(Raw) /\ Len(Raw) <= BufSize + 4
    <2> DEFINE n == Len(Raw)  l == RawLen
    <2>1. /\ n \in Nat /\ (n >= 4 => l \in Nat) /\ BufSize \in Nat /\ (n > 4 => l <= BufSize)
          /\ n < 4 \/ (n = 4 /\ l <= BufSize) \/ (n > 4 /\ n < l + 5)
      BY <1>1, <1>2, <1>4, <1>5
    <2> HIDE DEF n, l
    <2>2. (n >= 4 => l <= BufSize /\ n < l + 5) /\ n <= BufSize + 4
      BY <2>1
    <2>3. QED
      BY <1>4, <2>2 DEF RawOK, n, l
  <1>7. FrameOK'
    BY <1>2, <1>3, <1>6 DEF FrameOK
  <1>8. HostOK' /\ AccessOK' /\ WritesInChip'
    BY <1>1 DEF CInv, HostOK, AccessOK, WritesInChip
  <1>9. TypeOK'
    BY <1>1, <1>2, <1>3, <1>6 DEF CInv, TypeOK
  <1>10. QED
    BY <1>7, <1>8, <1>9 DEF CInv

LEMMA FrameRefusedKeeps == ASSUME CInv, FrameRefused PROVE CInv'
  <1>1. /\ line' \in Seq(Byte) /\ pc' = "idle" /\ frame' = NoFrame /\ access' = NoRange
        /\ UNCHANGED <<rate, touched, loose, host, faults>>
    BY RawFacts DEF FrameRefused, FramesEnd
  <1>2. FrameOK' /\ AccessOK'
    BY <1>1, NoRangeOK DEF FrameOK, AccessOK
  <1>3. HostOK' /\ WritesInChip'
    BY <1>1 DEF CInv, HostOK, WritesInChip
  <1>4. {access.off, access.len}' \subseteq Word
    BY <1>2 DEF AccessOK
  <1>5. TypeOK'
    BY <1>1, <1>4, NoFrameOK DEF CInv, TypeOK
  <1>6. QED
    BY <1>2, <1>3, <1>5 DEF CInv

(* The pages of a download begin in the sector before its range: they are  *)
(* in the chip when there is such a sector and the range does not wrap.    *)
LEMMA FrameSectorsFacts ==
    ASSUME CInv
    PROVE  /\ FrameSectors \subseteq Word
           /\ ~Unbounded => FrameSectors \subseteq 0 .. FlashSize - 1
  <1>1. /\ access.off \in Nat /\ access.len \in Nat /\ WordMod \in Nat \ {0} /\ FlashSize \in Nat
        /\ (access.off + access.len) % WordMod <= FlashSize
    BY WordFacts DEF CInv, AccessOK, Word
  <1> DEFINE o == access.off  n == access.len  M == WordMod
             at(i) == (o + i + M - 1) % M
  <1>2. FrameSectors = {} \/ FrameSectors = {at(i) : i \in 0 .. n}
    BY DEF FrameSectors
  <1>3. /\ o \in Nat /\ n \in Nat /\ M \in Nat \ {0} /\ (o + n) % M <= FlashSize
        /\ Word = 0 .. M - 1
    BY <1>1 DEF Word
  <1>4. ~Unbounded <=> ~(o = 0 \/ o + n >= M)
    BY DEF Unbounded
  <1> HIDE DEF o, n, M
  <1>5. ASSUME NEW i \in 0 .. n PROVE at(i) \in Word
    <2>1. o + i + M - 1 \in Int
      BY <1>3
    <2>2. QED
      BY <1>3, <2>1, ModRange
  <1>6. ASSUME NEW i \in 0 .. n, ~Unbounded PROVE at(i) \in 0 .. FlashSize - 1
    <2>1. o >= 1 /\ o + n < M
      BY <1>3, <1>4, <1>6
    <2>2. o + n <= FlashSize
      <3>1. o + n \in 0 .. M - 1
        BY <1>3, <2>1
      <3>2. (o + n) % M = o + n
        BY <1>3, <3>1, ModSmall
      <3>3. QED
        BY <1>3, <3>2
    <2>3. o + i - 1 \in 0 .. M - 1 /\ o + i - 1 \in 0 .. FlashSize - 1
      BY <1>1, <1>3, <2>1, <2>2
    <2>4. at(i) = o + i - 1
      <3> DEFINE a == o + i - 1
      <3>1. a \in 0 .. M - 1 /\ a \in Int /\ o + i + M - 1 = a + M
        BY <1>3, <2>3
      <3> HIDE DEF a
      <3>2. (M * 1 + a) % M = a
        BY <1>3, <3>1, ModUnique
      <3>3. M * 1 + a = o + i + M - 1
        BY <1>3, <3>1
      <3>4. QED
        BY <3>2, <3>3 DEF a
    <2>5. QED
      BY <2>3, <2>4
  <1>7. QED
    BY <1>2, <1>5, <1>6

LEMMA FrameTakenKeeps == ASSUME CInv, FrameTaken PROVE CInv'
  <1>1. /\ FrameByte /\ touched' = touched \cup FrameSectors
        /\ ~loose' => ~loose /\ (access.kind = "frames" => ~Unbounded)
        /\ \/ pc' \in {"idle", "gone"} /\ frame' = NoFrame /\ access' = NoRange
           \/ frame' = [frame EXCEPT !.data = <<>>] /\ UNCHANGED <<pc, access>>
        /\ UNCHANGED <<rate, host, faults>>
    <2>1. PICK complete \in BOOLEAN, beyond \in BOOLEAN :
            /\ loose' = (loose \/ (access.kind = "frames" /\ (beyond \/ Unbounded)))
            /\ \/ pc' \in {"idle", "gone"} /\ frame' = NoFrame /\ access' = NoRange
               \/ frame' = [frame EXCEPT !.data = <<>>] /\ UNCHANGED <<pc, access>>
      BY DEF FrameTaken
    <2>2. ~loose' => ~loose /\ (access.kind = "frames" => ~Unbounded)
      BY <2>1, Zenon
    <2>3. FrameByte /\ touched' = touched \cup FrameSectors /\ UNCHANGED <<rate, host, faults>>
      BY DEF FrameTaken
    <2>4. QED
      BY <2>1, <2>2, <2>3
  <1>2. /\ line' \in Seq(Byte) /\ pc = "frames"
        /\ frame \in [type : Byte, l0 : Byte, l1 : Byte, data : Seq(Byte)]
    BY <1>1, RawFacts
  <1>3. WritesInChip' /\ touched' \subseteq Word
    <2>1. access.kind # "frames" => FrameSectors = {}
      BY DEF FrameSectors
    <2>2. /\ touched \subseteq Word /\ FrameSectors \subseteq Word
          /\ ~loose => touched \subseteq 0 .. FlashSize - 1
          /\ ~Unbounded => FrameSectors \subseteq 0 .. FlashSize - 1
      BY FrameSectorsFacts DEF CInv, TypeOK, WritesInChip
    <2>3. ~loose' => touched' \subseteq 0 .. FlashSize - 1
      BY <1>1, <2>1, <2>2
    <2>4. touched' \subseteq Word
      BY <1>1, <2>2
    <2>5. QED
      BY <2>3, <2>4 DEF WritesInChip
  <1>4. AccessOK'
    BY <1>1, NoRangeOK DEF CInv, AccessOK
  <1>5. HostOK'
    BY <1>1 DEF CInv, HostOK
  <1>6. /\ frame' \in [type : Byte, l0 : Byte, l1 : Byte, data : Seq(Byte)]
        /\ Len(frame'.data) <= BufSize /\ pc' \in {"idle", "gone", "frames"}
        /\ pc' \in {"idle", "gone"} => frame' = NoFrame
        /\ pc' = "frames" => Len(frame'.data) = 0
    <2>1. CASE pc' \in {"idle", "gone"} /\ frame' = NoFrame
      BY <2>1, NoFrameOK
    <2>2. CASE frame' = [frame EXCEPT !.data = <<>>] /\ pc' = "frames"
      <3>1. <<>> \in Seq(Byte) /\ Len(<<>>) = 0 /\ BufSize \in Nat
        BY CommandLoopAssumption
      <3>2. /\ frame' \in [type : Byte, l0 : Byte, l1 : Byte, data : Seq(Byte)]
            /\ frame'.data = <<>>
        BY <1>2, <2>2, <3>1
      <3>3. Len(frame'.data) = 0
        BY <3>1, <3>2
      <3>4. QED
        BY <2>2, <3>1, <3>2, <3>3
    <2>3. QED
      BY <1>1, <1>2, <2>1, <2>2
  <1>7. FrameOK'
    BY <1>6 DEF FrameOK, RawOK
  <1>8. {access.off, access.len}' \subseteq Word
    BY <1>4 DEF AccessOK
  <1>9. TypeOK'
    BY <1>1, <1>2, <1>3, <1>6, <1>8, CommandLoopAssumption DEF CInv, TypeOK
  <1>10. QED
    BY <1>3, <1>4, <1>5, <1>7, <1>9 DEF CInv

(* Steps of the other side. *)
OtherSide ==
    /\ UNCHANGED stubVars
    /\ line' \in Seq(Byte) /\ faults' \in 0 .. MaxFaults

LEMMA OtherSideKeeps == ASSUME CInv, OtherSide, HostOK' PROVE CInv'
  <1>1. UNCHANGED <<pc, frame, rate, touched, access, loose>>
    BY DEF OtherSide, stubVars
  <1>2. FrameOK' /\ AccessOK' /\ WritesInChip'
    BY <1>1 DEF CInv, FrameOK, AccessOK, WritesInChip, DataLen
  <1>3. host'.state \in {"ready", "waiting", "transfer"}
    BY DEF HostOK, HostStates
  <1>4. TypeOK'
    BY <1>1, <1>3 DEF CInv, TypeOK, OtherSide
  <1>5. QED
    BY <1>2, <1>4 DEF CInv

LEMMA RateType ==
    ASSUME NEW r \in Requests, NEW now \in Word PROVE RateAfter(r, now) \in Word
  <1>1. CASE ChangesRate(r)
    <2>1. r.data \in Seq(Byte) /\ WordBytes * 0 + WordBytes <= Len(r.data)
      BY <1>1, CommandLoopAssumption DEF ChangesRate
    <2>2. Load(r.data, 0) \in Word
      BY <2>1, LoadType
    <2>3. QED
      BY <1>1, <2>2 DEF RateAfter
  <1>2. CASE ~ChangesRate(r)
    BY <1>2 DEF RateAfter
  <1>3. QED
    BY <1>1, <1>2

LEMMA HostSendsKeeps == ASSUME CInv, HostSends PROVE CInv'
  <1>1. PICK r \in Requests :
          /\ host' = [host EXCEPT !.state = "waiting", !.req = r,
                                  !.rates[2] = RateAfter(r, host.rates[1])]
          /\ Transmit(r, host.rates[1])
    BY DEF HostSends
  <1>2. UNCHANGED stubVars
    BY DEF HostSends
  <1>3. OtherSide
    BY <1>1, <1>2, TransmitType DEF CInv, TypeOK, OtherSide
  <1>4. HostOK'
    <2>1. host \in [state : HostStates, req : Requests \cup {NoRequest},
                    rates : [1 .. 2 -> Word], turn : {1, 2}]
      BY DEF CInv, HostOK
    <2>2. RateAfter(r, host.rates[1]) \in Word
      BY <2>1, RateType
    <2>3. host' \in [state : HostStates, req : Requests \cup {NoRequest},
                     rates : [1 .. 2 -> Word], turn : {1, 2}]
      BY <1>1, <2>1, <2>2 DEF HostStates
    <2>4. host'.req = r
      BY <1>1, <2>1
    <2>5. QED
      BY <2>3, <2>4 DEF HostOK
  <1>5. QED
    BY <1>3, <1>4, OtherSideKeeps

LEMMA HostRepeatsKeeps == ASSUME CInv, HostRepeats PROVE CInv'
  <1>1. /\ host' = [host EXCEPT !.turn = 3 - @] /\ UNCHANGED stubVars
        /\ Transmit(host.req, host'.rates[host'.turn]) /\ host.req \in Requests
    BY DEF HostRepeats, CInv, HostOK
  <1>2. OtherSide
    BY <1>1, TransmitType DEF CInv, TypeOK, OtherSide
  <1>3. HostOK'
    <2>1. host \in [state : HostStates, req : Requests \cup {NoRequest},
                    rates : [1 .. 2 -> Word], turn : {1, 2}]
      BY DEF CInv, HostOK
    <2>2. 3 - host.turn \in {1, 2}
      BY <2>1
    <2>3. /\ host' \in [state : HostStates, req : Requests \cup {NoRequest},
                        rates : [1 .. 2 -> Word], turn : {1, 2}]
          /\ host'.state = host.state /\ host'.req = host.req
      BY <1>1, <2>1, <2>2
    <2>4. QED
      BY <2>3 DEF CInv, HostOK
  <1>4. QED
    BY <1>2, <1>3, OtherSideKeeps

LEMMA HostReadsKeeps == ASSUME CInv, HostReads PROVE CInv'
  <1>1. OtherSide
    BY DEF HostReads, CInv, TypeOK, OtherSide
  <1>2. host \in [state : HostStates, req : Requests \cup {NoRequest},
                  rates : [1 .. 2 -> Word], turn : {1, 2}] /\ host.state = "waiting"
        /\ host.req \in Requests
    BY DEF CInv, HostOK, HostReads
  <1>3. HostListensAt \in Word /\ host.rates[host.turn] \in Word
    <2>1. host.rates[host.turn] \in Word
      BY <1>2
    <2>2. QED
      BY <1>2, <2>1, RateType DEF HostListensAt
  <1>4. CASE host' = host
    BY <1>1, <1>4, OtherSideKeeps DEF CInv, HostOK
  <1>5. CASE \E used \in Word, state \in {"transfer", "ready"} :
                host' = [host EXCEPT !.state = state, !.req = NoRequest,
                                     !.rates = <<used, used>>, !.turn = 1]
    <2>1. PICK used \in Word, state \in {"transfer", "ready"} :
                host' = [host EXCEPT !.state = state, !.req = NoRequest,
                                     !.rates = <<used, used>>, !.turn = 1]
      BY <1>5
    <2>2. <<used, used>> \in [1 .. 2 -> Word]
      OBVIOUS
    <2>3. host' \in [state : HostStates, req : Requests \cup {NoRequest},
                     rates : [1 .. 2 -> Word], turn : {1, 2}] /\ host'.state = state
      BY <1>2, <2>1, <2>2 DEF HostStates
    <2>4. QED
      BY <1>1, <2>3, OtherSideKeeps DEF HostOK
  <1>6. QED
    BY <1>3, <1>4, <1>5 DEF HostReads

LEMMA HostOtherKeeps ==
    ASSUME CInv, HostGivesUp \/ HostPayload \/ HostSendsData \/ HostEndsTransfer \/ LoseAnswer
    PROVE  CInv'
  <1>1. host \in [state : HostStates, req : Requests \cup {NoRequest},
                  rates : [1 .. 2 -> Word], turn : {1, 2}]
    BY DEF CInv, HostOK
  <1>2. line \in Seq(Byte) /\ faults \in 0 .. MaxFaults
        /\ MaxFaults \in Nat /\ Noise \subseteq Byte
    BY CommandLoopAssumption DEF CInv, TypeOK
  <1>3. CASE HostGivesUp
    <2>1. OtherSide
      BY <1>2, <1>3 DEF HostGivesUp, OtherSide, netVars
    <2>0. /\ host.rates[1] \in Word
          /\ host' = [host EXCEPT !.state = "ready", !.req = NoRequest,
                                  !.rates[2] = host.rates[1], !.turn = 1]
      BY <1>1, <1>3 DEF HostGivesUp
    <2>2. host' \in [state : HostStates, req : Requests \cup {NoRequest},
                     rates : [1 .. 2 -> Word], turn : {1, 2}] /\ host'.state = "ready"
      BY <1>1, <2>0 DEF HostStates
    <2>3. QED
      BY <2>1, <2>2, OtherSideKeeps DEF HostOK
  <1>4. CASE HostPayload
    <2>1. PICK b \in Noise : line' = <<b>>
      BY <1>4 DEF HostPayload
    <2>2. line' \in Seq(Byte)
      BY <1>2, <2>1
    <2>3. OtherSide
      BY <1>2, <1>4, <2>2 DEF HostPayload, OtherSide
    <2>4. host' = host
      BY <1>4 DEF HostPayload
    <2>5. QED
      BY <2>3, <2>4, OtherSideKeeps DEF CInv, HostOK
  <1>5. CASE HostEndsTransfer
    <2>1. OtherSide
      BY <1>2, <1>5 DEF HostEndsTransfer, OtherSide, netVars
    <2>2. host' \in [state : HostStates, req : Requests \cup {NoRequest},
                     rates : [1 .. 2 -> Word], turn : {1, 2}] /\ host'.state = "ready"
      BY <1>1, <1>5 DEF HostEndsTransfer, HostStates
    <2>3. QED
      BY <2>1, <2>2, OtherSideKeeps DEF HostOK
  <1>6. CASE LoseAnswer
    <2>1. OtherSide /\ host' = host
      BY <1>2, <1>6 DEF LoseAnswer, OtherSide
    <2>2. QED
      BY <2>1, OtherSideKeeps DEF CInv, HostOK
  <1>7. CASE HostSendsData
    <2>1. /\ UNCHANGED stubVars /\ host' = host
          /\ \E r \in Requests : Transmit(r, host.rates[1])
      BY <1>7 DEF HostSendsData
    <2>2. OtherSide
      BY <1>2, <2>1, TransmitType DEF OtherSide
    <2>3. QED
      BY <2>1, <2>2, OtherSideKeeps DEF CInv, HostOK
  <1>8. QED
    BY <1>3, <1>4, <1>5, <1>6, <1>7

LEMMA SessionReadsKeeps == ASSUME CInv, SessionReads PROVE CInv'
  <1>1. OtherSide /\ host' = host
    BY TakeByteFacts DEF SessionReads, OtherSide, CInv, TypeOK
  <1>2. QED
    BY <1>1, OtherSideKeeps DEF CInv, HostOK

LEMMA NextKeepsCInv == ASSUME CInv, [Next]_vars PROVE CInv'
  <1>1. CASE UNCHANGED vars
    <2>1. OtherSide /\ host' = host
      BY <1>1 DEF vars, stubVars, netVars, OtherSide, CInv, TypeOK
    <2>2. QED
      BY <2>1, OtherSideKeeps DEF CInv, HostOK
  <1>2. CASE Handler
    BY <1>2, HandlerMakesDone, HandlerDoneKeeps
  <1>3. CASE Stub
    BY <1>2, <1>3, ReadMagicKeeps, RefuseLengthKeeps, ReadHeaderKeeps, ReadDataKeeps,
       ReadSumKeeps, FrameTimeoutKeeps, UploadChunkKeeps, DigestDoneKeeps, FrameGoesOnKeeps,
       FrameRefusedKeeps, FrameTakenKeeps, SessionReadsKeeps, SessionWritesKeeps,
       SessionEndsKeeps DEF Stub
  <1>4. QED
    BY <1>1, <1>3, HostSendsKeeps, HostRepeatsKeeps, HostReadsKeeps, HostOtherKeeps
       DEF Next, Host

(* The inductive invariant holds throughout. *)
THEOREM LoopInvariant == Spec => []CInv
  <1>1. CInv /\ [Next]_vars => CInv'
    BY NextKeepsCInv
  <1>2. QED
    BY <1>1, InitCInv, PTL DEF Spec

(* Type correctness of main and handle_obk_frame: whatever bytes arrive,   *)
(* the data of a frame never outgrows cmd_buf (the length is checked before*)
(* the data is read), and every range and rate a handler takes from the    *)
(* frame is a 32-bit word.                                                 *)
THEOREM TypeCorrect == Spec => []TypeOK
  <1>1. CInv => TypeOK
    BY DEF CInv
  <1>2. QED
    BY <1>1, LoopInvariant, PTL

(* The ranges handlers work on: those of the digests end in the chip, those*)
(* of the other commands too unless off + len wraps at 2^32.               *)
THEOREM RangesStayInChip == Spec => []RangesInChip
  <1>1. CInv => RangesInChip
    <2>1. SUFFICES ASSUME CInv PROVE RangesInChip
      OBVIOUS
    <2>2. /\ access.off \in Nat /\ access.len \in Nat /\ WordMod \in Nat \ {0}
          /\ (access.off + access.len) % WordMod <= FlashSize
          /\ access.kind = "digest" => access.off + access.len <= FlashSize
      BY <2>1, WordFacts DEF CInv, AccessOK, Word
    <2>3. ASSUME access.off + access.len < WordMod PROVE access.off + access.len <= FlashSize
      <3>1. access.off + access.len \in 0 .. WordMod - 1
        BY <2>2, <2>3
      <3>2. (access.off + access.len) % WordMod = access.off + access.len
        BY <2>2, <3>1, ModSmall
      <3>3. QED
        BY <2>2, <3>2
    <2>4. QED
      BY <2>2, <2>3 DEF RangesInChip
  <1>2. QED
    BY <1>1, LoopInvariant, PTL

(* No erase and no transfer touches a sector outside the chip, except a    *)
(* transfer whose range wraps, a FLASH_DOWNLOAD to offset 0 (its first     *)
(* page goes below that) and one that is sent more than it announced.      *)
THEOREM WritesStayInChip == Spec => []WritesInChip
  <1>1. CInv => WritesInChip
    BY DEF CInv
  <1>2. QED
    BY <1>1, LoopInvariant, PTL

-----------------------------------------------------------------------------
(* Host and stub in step: while they are, at most one frame is on the line,*)
(* that of the request the host waits for, and one byte of it may have been*)
(* altered, though not its magic or its length.                            *)
IsFrame(r, g) ==
    /\ Len(g) = Len(r.data) + 5
    /\ \E i \in (1 .. Len(g)) \ {1, 3, 4} :
          \A j \in (1 .. Len(g)) \ {i} : g[j] = Frame(r)[j]

(* The bytes of the frame at hand that the stub has read. *)
Consumed ==
    CASE pc = "type" -> <<Magic>>
      [] pc = "l0"   -> <<Magic, frame.type>>
      [] pc = "l1"   -> <<Magic, frame.type, frame.l0>>
      [] pc \in {"data", "sum"} -> <<Magic, frame.type, frame.l0, frame.l1>> \o frame.data
      [] OTHER       -> <<>>

Asked == host.state = "waiting" /\ answers = <<>>
InStep ==
    aligned =>
        /\ pc # "frames"
        /\ pc = "idle" => line = <<>> \/ (Asked /\ IsFrame(host.req, line))
        /\ Reading => Asked /\ IsFrame(host.req, Consumed \o line)
        /\ pc = "run" => /\ Asked /\ line = <<>>
                         /\ frame.type = Code[host.req.cmd] /\ frame.data = host.req.data
        /\ pc = "digest" => Asked /\ line = <<>>
        /\ pc = "upload" => /\ host.state = "waiting" /\ line = <<>>
                            /\ host.req.cmd = "FLASH_UPLOAD"
        /\ pc = "session" =>
              /\ line = <<>>
              /\ \/ host.state = "transfer"
                 \/ /\ host.state = "waiting" /\ host.req.cmd \in Sessions
                    /\ \A k \in 1 .. Len(answers) : answers[k].status = "SUCCESS"

LEMMA ConsumedFacts ==
    ASSUME TypeOK, Reading
    PROVE  /\ Consumed \in Seq(Byte)
           /\ pc = "type" => Len(Consumed) = 1
           /\ pc = "l0" => Len(Consumed) = 2 /\ Consumed[2] = frame.type
           /\ pc = "l1" => /\ Len(Consumed) = 3 /\ Consumed[2] = frame.type
                           /\ Consumed[3] = frame.l0
           /\ pc \in {"data", "sum"} =>
                 /\ Len(Consumed) = 4 + Len(frame.data) /\ Consumed[2] = frame.type
                 /\ Consumed[3] = frame.l0 /\ Consumed[4] = frame.l1
                 /\ \A i \in 1 .. Len(frame.data) : Consumed[4 + i] = frame.data[i]
  <1>1. /\ Magic \in Byte /\ frame.type \in Byte /\ frame.l0 \in Byte /\ frame.l1 \in Byte
        /\ frame.data \in Seq(Byte)
    BY CommandLoopAssumption DEF TypeOK
  <1>2. CASE pc = "type"
    BY <1>1, <1>2 DEF Consumed
  <1>3. CASE pc = "l0"
    BY <1>1, <1>3 DEF Consumed
  <1>4. CASE pc = "l1"
    BY <1>1, <1>4 DEF Consumed
  <1>5. CASE pc \in {"data", "sum"}
    <2> DEFINE h == <<Magic, frame.type, frame.l0, frame.l1>>
               d == frame.data
    <2>1. Consumed = h \o d
      BY <1>5 DEF Consumed
    <2>2. Len(h) = 4 /\ h[2] = frame.type /\ h[3] = frame.l0 /\ h[4] = frame.l1
      BY <1>1
    <2>3. h \in Seq(Byte)
      BY <1>1
    <2>4. d \in Seq(Byte)
      BY <1>1
    <2>5. d = frame.data
      OBVIOUS
    <2> HIDE DEF h, d
    <2>6. /\ h \o d \in Seq(Byte) /\ Len(h \o d) = Len(h) + Len(d)
          /\ \A i \in 1 .. Len(h) : (h \o d)[i] = h[i]
          /\ \A i \in 1 .. Len(d) : (h \o d)[Len(h) + i] = d[i]
      BY <2>3, <2>4, ConcatFacts
    <2>7. /\ (h \o d)[2] = frame.type /\ (h \o d)[3] = frame.l0 /\ (h \o d)[4] = frame.l1
      <3>1. 2 \in 1 .. Len(h) /\ 3 \in 1 .. Len(h) /\ 4 \in 1 .. Len(h)
        BY <2>2
      <3>2. QED
        BY <2>2, <2>6, <3>1
    <2>8. \A i \in 1 .. Len(d) : (h \o d)[4 + i] = d[i]
      BY <2>2, <2>6
    <2>9. Len(h \o d) = 4 + Len(d)
      BY <2>2, <2>6
    <2>10. QED
      BY <1>5, <2>1, <2>5, <2>6, <2>7, <2>8, <2>9
  <1>6. QED
    BY <1>2, <1>3, <1>4, <1>5 DEF Reading

(* A byte read moves from the line to the bytes consumed. *)
LEMMA ByteMoves ==
    ASSUME NEW c \in Seq(Byte), NEW l \in Seq(Byte), l # <<>>
    PROVE  /\ Append(c, Head(l)) \o Tail(l) = c \o l
           /\ (c \o l)[Len(c) + 1] = Head(l) /\ Len(c) + 1 \in 1 .. Len(c \o l)
  <1> DEFINE a == Append(c, Head(l))
             t == Tail(l)
  <1>1. /\ Len(l) \in Nat /\ Len(l) >= 1 /\ Head(l) = l[1] /\ Head(l) \in Byte
        /\ t \in Seq(Byte) /\ Len(t) = Len(l) - 1 /\ Len(c) \in Nat
        /\ \A i \in 1 .. Len(t) : t[i] = l[i + 1]
    OBVIOUS
  <1>2. /\ a \in Seq(Byte) /\ Len(a) = Len(c) + 1 /\ a[Len(c) + 1] = Head(l)
        /\ \A i \in 1 .. Len(c) : a[i] = c[i]
    BY <1>1
  <1>10. a \in Seq(Byte)
    BY <1>2
  <1>11. t \in Seq(Byte)
    BY <1>1
  <1> HIDE DEF a, t
  <1>3. /\ a \o t \in Seq(Byte) /\ Len(a \o t) = Len(a) + Len(t)
        /\ \A i \in 1 .. Len(a) : (a \o t)[i] = a[i]
        /\ \A i \in 1 .. Len(t) : (a \o t)[Len(a) + i] = t[i]
    BY <1>10, <1>11, ConcatFacts
  <1>4. /\ c \o l \in Seq(Byte) /\ Len(c \o l) = Len(c) + Len(l)
        /\ \A i \in 1 .. Len(c) : (c \o l)[i] = c[i]
        /\ \A i \in 1 .. Len(l) : (c \o l)[Len(c) + i] = l[i]
    BY ConcatFacts
  <1>5. ASSUME NEW i \in 1 .. Len(c) + Len(l) PROVE (a \o t)[i] = (c \o l)[i]
    <2>0. i \in Nat /\ Len(c) \in Nat /\ Len(l) \in Nat /\ Len(a) = Len(c) + 1
          /\ Len(t) = Len(l) - 1 /\ i >= 1 /\ i <= Len(c) + Len(l) /\ Len(l) >= 1
      BY <1>1, <1>2
    <2>1. CASE i <= Len(c)
      <3>1. i \in 1 .. Len(a) /\ i \in 1 .. Len(c)
        BY <2>0, <2>1
      <3>2. QED
        BY <1>2, <1>3, <1>4, <3>1
    <2>2. CASE i = Len(c) + 1
      <3>1. i \in 1 .. Len(a) /\ 1 \in 1 .. Len(l)
        BY <2>0, <2>2
      <3>2. (a \o t)[i] = a[i] /\ (c \o l)[i] = l[1]
        BY <1>3, <1>4, <2>2, <3>1
      <3>3. QED
        BY <1>1, <1>2, <2>2, <3>2
    <2>3. CASE i > Len(c) + 1
      <3> DEFINE j == i - (Len(c) + 1)
      <3>1. j \in 1 .. Len(t) /\ j + 1 \in 1 .. Len(l) /\ Len(a) + j = i /\ Len(c) + (j + 1) = i
        BY <2>0, <2>3
      <3> HIDE DEF j
      <3>2. (a \o t)[Len(a) + j] = t[j]
        BY <1>3, <3>1
      <3>3. (c \o l)[Len(c) + (j + 1)] = l[j + 1]
        BY <1>4, <3>1
      <3>4. t[j] = l[j + 1]
        BY <1>1, <3>1
      <3>5. QED
        BY <3>1, <3>2, <3>3, <3>4
    <2>4. QED
      BY <2>0, <2>1, <2>2, <2>3
  <1>6. Len(a \o t) = Len(c \o l)
    BY <1>1, <1>2, <1>3, <1>4
  <1>7. a \o t = c \o l
    <2>1. \A i \in 1 .. Len(a \o t) : (a \o t)[i] = (c \o l)[i]
      BY <1>4, <1>5, <1>6
    <2>2. a \o t \in Seq(Byte)
      BY <1>3
    <2>3. c \o l \in Seq(Byte)
      BY <1>4
    <2>4. QED
      BY <1>6, <2>1, <2>2, <2>3
  <1>8. (c \o l)[Len(c) + 1] = Head(l) /\ Len(c) + 1 \in 1 .. Len(c \o l)
    <2>1. 1 \in 1 .. Len(l) /\ Len(c) + 1 \in 1 .. Len(c) + Len(l)
      BY <1>1
    <2>2. QED
      BY <1>1, <1>4, <2>1
  <1>9. QED
    BY <1>7, <1>8 DEF a, t

(* What is fixed of a frame that has one byte altered. *)
LEMMA IsFrameFacts ==
    ASSUME NEW r \in Requests, NEW g \in Seq(Byte), IsFrame(r, g)
    PROVE  /\ g[1] = Magic /\ g[3] + ByteMod * g[4] = Len(r.data)
           /\ Len(g) = Len(r.data) + 5 /\ Len(r.data) \in Nat
           /\ g[1] \in Byte /\ g[3] \in Byte /\ g[4] \in Byte
  <1>1. PICK i \in (1 .. Len(g)) \ {1, 3, 4} :
          \A j \in (1 .. Len(g)) \ {i} : g[j] = Frame(r)[j]
    BY DEF IsFrame
  <1>2. Len(r.data) \in Nat /\ Len(g) = Len(r.data) + 5
    BY CommandLoopAssumption DEF IsFrame
  <1>3. 1 \in (1 .. Len(g)) \ {i} /\ 3 \in (1 .. Len(g)) \ {i} /\ 4 \in (1 .. Len(g)) \ {i}
    BY <1>1, <1>2
  <1>4. g[1] = Frame(r)[1] /\ g[3] = Frame(r)[3] /\ g[4] = Frame(r)[4]
    BY <1>1, <1>3
  <1>5. QED
    BY <1>2, <1>4, FrameFacts

(* A frame with the right sum is the one that was sent. *)
LEMMA SumAccepts ==
    ASSUME NEW r \in Requests, NEW g \in Seq(Byte), IsFrame(r, g),
           NEW d \in Seq(Byte), Len(d) = Len(r.data), \A i \in 1 .. Len(d) : d[i] = g[4 + i],
           g[Len(g)] = FrameSum(g[2], g[3], g[4], d)
    PROVE  g[2] = Code[r.cmd] /\ d = r.data
  <1> DEFINE f == Frame(r)
             n == Len(r.data)
             c == Code[r.cmd]
             t == r.data
  <1>1. /\ f \in Seq(Byte) /\ f[2] = c /\ f[3] \in Byte /\ f[4] \in Byte
        /\ \A i \in 1 .. n : f[4 + i] = t[i]
        /\ f[n + 5] = FrameSum(c, f[3], f[4], t)
        /\ t \in Seq(Byte) /\ c \in Byte /\ Magic \in Byte
    BY FrameFacts
  <1>2. n \in Nat /\ Len(g) = n + 5 /\ Len(t) = n /\ Len(d) = n
    BY IsFrameFacts
  <1>3. PICK k \in (1 .. Len(g)) \ {1, 3, 4} :
          \A j \in (1 .. Len(g)) \ {k} : g[j] = f[j]
    BY DEF IsFrame
  <1> HIDE DEF f, n, c, t
  <1>4. g[3] = f[3] /\ g[4] = f[4]
    <2>1. 3 \in (1 .. Len(g)) \ {k} /\ 4 \in (1 .. Len(g)) \ {k}
      BY <1>2, <1>3
    <2>2. QED
      BY <1>3, <2>1
  <1>5. ASSUME k # 2 PROVE g[2] = c
    <2>1. 2 \in (1 .. Len(g)) \ {k}
      BY <1>2, <1>5
    <2>2. QED
      BY <1>1, <1>3, <2>1
  <1>6. ASSUME NEW i \in 1 .. n, k # 4 + i PROVE d[i] = t[i]
    <2>1. 4 + i \in (1 .. Len(g)) \ {k}
      BY <1>2, <1>6
    <2>2. g[4 + i] = f[4 + i]
      BY <1>3, <2>1
    <2>3. QED
      BY <1>1, <1>2, <1>6, <2>2
  <1>7. ASSUME \A i \in 1 .. n : d[i] = t[i] PROVE d = t
    BY <1>1, <1>2, <1>7
  <1>8. CASE k = n + 5
    <2>1. k # 2 /\ \A i \in 1 .. n : k # 4 + i
      BY <1>2, <1>8
    <2>2. QED
      BY <1>5, <1>6, <1>7, <2>1 DEF c, t
  <1>9. ASSUME k # n + 5
        PROVE  FrameSum(g[2], f[3], f[4], d) = FrameSum(c, f[3], f[4], t)
    <2>1. n + 5 \in (1 .. Len(g)) \ {k}
      BY <1>2, <1>9
    <2>2. g[Len(g)] = f[n + 5]
      BY <1>2, <1>3, <2>1
    <2>3. QED
      BY <1>1, <1>4, <2>2
  <1>10. /\ Magic \in Int /\ c \in Int /\ f[3] \in Int /\ f[4] \in Int /\ ByteMod \in Nat \ {0}
         /\ SumOf(d) \in 0 .. ByteMod - 1 /\ SumOf(t) \in 0 .. ByteMod - 1
         /\ SumOf(t) \in Int /\ SumOf(d) \in Int
         /\ c \in 0 .. ByteMod - 1
    <2>1. ByteMod \in Nat \ {0}
      BY CommandLoopAssumption
    <2>2. SumOf(d) \in Byte /\ SumOf(t) \in Byte
      BY <1>1, SumFacts
    <2>3. Magic \in Byte /\ c \in Byte /\ f[3] \in Byte /\ f[4] \in Byte
      BY <1>1
    <2>4. \A x \in Byte : x \in Int /\ x \in 0 .. ByteMod - 1
      BY <2>1 DEF Byte
    <2>5. QED
      BY <2>1, <2>2, <2>3, <2>4
  <1>11. CASE k = 2
    <2>1. \A i \in 1 .. n : k # 4 + i
      BY <1>2, <1>11
    <2>2. d = t
      BY <1>6, <1>7, <2>1
    <2>3. k # n + 5
      BY <1>2, <1>11
    <2> DEFINE a == Magic + f[3] + f[4] + SumOf(t)
    <2>4. g[2] \in 0 .. ByteMod - 1 /\ g[2] \in Int
      <3>1. 2 \in 1 .. Len(g)
        BY <1>2
      <3>2. g[2] \in Byte
        BY <3>1
      <3>3. QED
        BY <1>10, <3>2 DEF Byte
    <2>5. a \in Int /\ Magic + g[2] + f[3] + f[4] + SumOf(t) = a + g[2]
          /\ Magic + c + f[3] + f[4] + SumOf(t) = a + c
      <3> DEFINE v == g[2]  x == f[3]  y == f[4]  z == SumOf(t)
      <3>1. Magic \in Int /\ c \in Int /\ v \in Int /\ x \in Int /\ y \in Int /\ z \in Int
        BY <1>10, <2>4
      <3> HIDE DEF v, x, y, z
      <3>2. /\ Magic + x + y + z \in Int
            /\ Magic + v + x + y + z = (Magic + x + y + z) + v
            /\ Magic + c + x + y + z = (Magic + x + y + z) + c
        BY <3>1
      <3>3. QED
        BY <3>2 DEF v, x, y, z
    <2> HIDE DEF a
    <2>6. (a + g[2]) % ByteMod = (a + c) % ByteMod
      BY <1>9, <2>2, <2>3, <2>5 DEF FrameSum
    <2>7. g[2] = c
      BY <1>10, <2>4, <2>5, <2>6, ModCancel
    <2>8. QED
      BY <2>2, <2>7 DEF c, t
  <1>12. CASE k # 2 /\ k # n + 5
    <2>1. k \in 5 .. n + 4 /\ k - 4 \in 1 .. n /\ 4 + (k - 4) = k
      BY <1>2, <1>3, <1>12
    <2>2. g[2] = c
      BY <1>5, <1>12
    <2> DEFINE a == Magic + c + f[3] + f[4]
    <2>3. a \in Int
      BY SMTT(30), <1>10
    <2> HIDE DEF a
    <2>4. (a + SumOf(d)) % ByteMod = (a + SumOf(t)) % ByteMod
      BY <1>9, <1>12, <2>2 DEF FrameSum, a
    <2>5. SumOf(d) = SumOf(t)
      BY <1>10, <2>3, <2>4, ModCancel
    <2> DEFINE m == k - 4
    <2>6. m \in 1 .. n /\ \A i \in 1 .. n : i # m => k # 4 + i
      BY <1>2, <2>1
    <2> HIDE DEF m
    <2>7. \A i \in (1 .. n) \ {m} : d[i] = t[i]
      BY <1>6, <2>6
    <2>8. d[m] = t[m]
      <3>1. m \in 1 .. Len(d) /\ Len(d) = Len(t) /\ \A i \in (1 .. Len(d)) \ {m} : d[i] = t[i]
        BY <1>2, <2>6, <2>7
      <3>2. t \in Seq(Byte)
        BY <1>1
      <3>3. QED
        BY <2>5, <3>1, <3>2, SumTellsOne
    <2>9. d = t
      BY <1>7, <2>6, <2>7, <2>8
    <2>10. QED
      BY <2>2, <2>9 DEF c, t
  <1>13. QED
    BY <1>8, <1>11, <1>12

-----------------------------------------------------------------------------
(* Every step keeps host and stub in step, or says that they are not.      *)
LEMMA ReadsOn ==
    ASSUME CInv, InStep, aligned, aligned' = aligned, host' = host, answers' = answers,
           TakeByte, Reading, pc' \in {"l0", "l1", "data", "sum"},
           Consumed' = Append(Consumed, Head(line))
    PROVE  InStep'
  <1>1. Consumed \in Seq(Byte)
    BY ConsumedFacts DEF CInv
  <1>2. line \in Seq(Byte) /\ line # <<>> /\ line' = Tail(line)
    BY DEF CInv, TypeOK, TakeByte
  <1>3. Consumed' \o line' = Consumed \o line
    BY <1>1, <1>2, ByteMoves
  <1>4. Asked /\ IsFrame(host.req, Consumed \o line)
    BY DEF InStep
  <1>5. Asked'
    BY <1>4 DEF Asked
  <1>6. IsFrame(host.req, Consumed \o line)'
    <2>1. IsFrame(host'.req, Consumed' \o line')
      BY <1>3, <1>4
    <2>2. QED
      BY <2>1
  <1>7. pc' \notin {"idle", "run", "digest", "upload", "session", "frames"}
    OBVIOUS
  <1>8. QED
    BY <1>5, <1>6, <1>7 DEF InStep

LEMMA ReadMagicInStep == ASSUME CInv, InStep, ReadMagic PROVE InStep'
  <1>1. /\ pc = "idle" /\ TakeByte /\ line \in Seq(Byte) /\ line # <<>> /\ line' = Tail(line)
        /\ pc' = (IF Head(line) = Magic THEN "type" ELSE "idle")
        /\ UNCHANGED <<frame, answers, host, aligned>>
    BY DEF ReadMagic, TakeByte, CInv, TypeOK
  <1>2. SUFFICES ASSUME aligned PROVE InStep'
    BY <1>1 DEF InStep
  <1>3. Asked /\ IsFrame(host.req, line) /\ host.req \in Requests
    BY <1>1, <1>2 DEF InStep, Asked, CInv, HostOK
  <1>4. Head(line) = line[1]
    BY <1>1
  <1>5. line[1] = Magic
    BY <1>1, <1>3, IsFrameFacts
  <1>6. pc' = "type"
    BY <1>1, <1>4, <1>5
  <1>7. Consumed' \o line' = line
    <2>1. Consumed' = <<Magic>>
      BY <1>6 DEF Consumed
    <2>2. <<>> \in Seq(Byte) /\ Append(<<>>, Head(line)) = <<Magic>>
      BY <1>4, <1>5
    <2>3. <<Magic>> \o Tail(line) = <<>> \o line
      BY <1>1, <2>2, ByteMoves
    <2>4. <<>> \o line = line
      BY <1>1
    <2>5. QED
      BY <1>1, <2>1, <2>3, <2>4
  <1>8. IsFrame(host.req, Consumed \o line)'
    <2>1. IsFrame(host'.req, Consumed' \o line')
      BY <1>1, <1>3, <1>7
    <2>2. QED
      BY <2>1
  <1>9. Asked'
    BY <1>1, <1>3 DEF Asked
  <1>10. QED
    BY <1>6, <1>8, <1>9 DEF InStep

LEMMA ReadHeaderInStep == ASSUME CInv, InStep, ReadHeader PROVE InStep'
  <1>1. /\ pc \in {"type", "l0", "l1"} /\ TakeByte
        /\ frame' = CASE pc = "type" -> [frame EXCEPT !.type = Head(line)]
                      [] pc = "l0"   -> [frame EXCEPT !.l0 = Head(line)]
                      [] pc = "l1"   -> [frame EXCEPT !.l1 = Head(line)]
        /\ pc' = CASE pc = "type" -> "l0" [] pc = "l0" -> "l1" [] OTHER -> AfterData
        /\ UNCHANGED <<answers, host, aligned>>
    BY DEF ReadHeader
  <1>2. SUFFICES ASSUME aligned PROVE InStep'
    BY <1>1 DEF InStep
  <1>3. AfterData \in {"data", "sum"}
    BY DEF AfterData
  <1>4. frame \in [type : Byte, l0 : Byte, l1 : Byte, data : Seq(Byte)]
    BY DEF CInv, TypeOK
  <1>5. pc' \in {"l0", "l1", "data", "sum"} /\ Reading
    BY <1>1, <1>3 DEF Reading
  <1>6. Consumed' = Append(Consumed, Head(line))
    <2>1. CASE pc = "type"
      <3>1. pc' = "l0" /\ frame'.type = Head(line)
        BY <1>1, <1>4, <2>1
      <3>2. Consumed' = <<Magic, Head(line)>> /\ Consumed = <<Magic>>
        BY <2>1, <3>1 DEF Consumed
      <3>3. QED
        BY <3>2
    <2>2. CASE pc = "l0"
      <3>1. pc' = "l1" /\ frame'.type = frame.type /\ frame'.l0 = Head(line)
        BY <1>1, <1>4, <2>2
      <3>2. Consumed' = <<Magic, frame.type, Head(line)>> /\ Consumed = <<Magic, frame.type>>
        BY <2>2, <3>1 DEF Consumed
      <3>3. QED
        BY <3>2
    <2>3. CASE pc = "l1"
      <3>1. /\ pc' \in {"data", "sum"} /\ frame'.type = frame.type /\ frame'.l0 = frame.l0
            /\ frame'.l1 = Head(line) /\ frame'.data = <<>>
        BY <1>1, <1>3, <1>4, <2>3 DEF CInv, FrameOK
      <3>2. Consumed' = <<Magic, frame.type, frame.l0, Head(line)>> \o <<>>
            /\ Consumed = <<Magic, frame.type, frame.l0>>
        BY <2>3, <3>1 DEF Consumed
      <3>3. QED
        BY <3>2
    <2>4. QED
      BY <1>1, <2>1, <2>2, <2>3
  <1>7. QED
    BY <1>1, <1>2, <1>5, <1>6, ReadsOn

LEMMA ReadDataInStep == ASSUME CInv, InStep, ReadData PROVE InStep'
  <1>1. /\ pc = "data" /\ TakeByte
        /\ frame' = [frame EXCEPT !.data = Append(@, Head(line))]
        /\ pc' = AfterData
        /\ UNCHANGED <<answers, host, aligned>>
    BY DEF ReadData
  <1>2. SUFFICES ASSUME aligned PROVE InStep'
    BY <1>1 DEF InStep
  <1>3. pc' \in {"data", "sum"} /\ Reading
    BY <1>1 DEF AfterData, Reading
  <1>4. frame \in [type : Byte, l0 : Byte, l1 : Byte, data : Seq(Byte)] /\ Head(line) \in Byte
        /\ Magic \in Byte
    BY <1>1, TakeByteFacts, CommandLoopAssumption DEF CInv, TypeOK
  <1> DEFINE h == <<Magic, frame.type, frame.l0, frame.l1>>
             d == frame.data
             b == Head(line)
  <1>5. /\ frame'.type = frame.type /\ frame'.l0 = frame.l0 /\ frame'.l1 = frame.l1
        /\ frame'.data = Append(d, b)
    BY <1>1, <1>4
  <1>6. Consumed = h \o d /\ Consumed' = h \o Append(d, b)
    BY <1>1, <1>3, <1>5 DEF Consumed
  <1>7. h \in Seq(Byte)
    BY <1>4
  <1>8. d \in Seq(Byte) /\ b \in Byte
    BY <1>4
  <1> HIDE DEF h, d, b
  <1>9. h \o Append(d, b) = Append(h \o d, b)
    BY <1>7, <1>8
  <1>10. Consumed' = Append(Consumed, Head(line))
    BY <1>6, <1>9 DEF b
  <1>11. QED
    BY <1>1, <1>2, <1>3, <1>10, ReadsOn

LEMMA ReadSumInStep == ASSUME CInv, InStep, ReadSum PROVE InStep'
  <1>1. /\ pc = "sum" /\ line # <<>> /\ line' = Tail(line) /\ line \in Seq(Byte)
        /\ UNCHANGED <<host, aligned>>
        /\ \/ /\ Head(line) = FrameSum(frame.type, frame.l0, frame.l1, frame.data)
              /\ pc' = "run" /\ UNCHANGED <<frame, answers>>
           \/ pc' = "idle"
    BY DEF ReadSum, TakeByte, CInv, TypeOK
  <1>2. SUFFICES ASSUME aligned PROVE InStep'
    BY <1>1 DEF InStep
  <1> DEFINE r == host.req
             g == Consumed \o line
             d == frame.data
  <1>3. Asked /\ IsFrame(r, g) /\ r \in Requests
    BY <1>1, <1>2 DEF InStep, Asked, Reading, CInv, HostOK
  <1>4. /\ Consumed \in Seq(Byte) /\ Len(Consumed) = 4 + Len(d) /\ Consumed[2] = frame.type
        /\ Consumed[3] = frame.l0 /\ Consumed[4] = frame.l1
        /\ \A i \in 1 .. Len(d) : Consumed[4 + i] = d[i]
    BY <1>1, ConsumedFacts DEF CInv, Reading
  <1>5. d \in Seq(Byte) /\ Len(d) = frame.l0 + ByteMod * frame.l1
    BY <1>1 DEF CInv, TypeOK, FrameOK, DataLen
  <1>6. /\ g \in Seq(Byte) /\ Len(g) = Len(Consumed) + Len(line)
        /\ \A i \in 1 .. Len(Consumed) : g[i] = Consumed[i]
        /\ g[Len(Consumed) + 1] = Head(line) /\ Len(line) \in Nat /\ Len(line) >= 1
        /\ Len(d) \in Nat
    <2>1. Consumed \in Seq(Byte) /\ line \in Seq(Byte) /\ line # <<>>
      BY <1>1, <1>4
    <2>2. Len(line) \in Nat /\ Len(line) >= 1 /\ Len(d) \in Nat
      BY <1>5, <2>1
    <2>3. QED
      BY <2>1, <2>2, ConcatFacts, ByteMoves
  <1> HIDE DEF g, d
  <1>7. /\ g[1] = Magic /\ g[3] + ByteMod * g[4] = Len(r.data)
        /\ Len(g) = Len(r.data) + 5 /\ Len(r.data) \in Nat
    BY <1>3, <1>6, IsFrameFacts
  <1>8. g[2] = frame.type /\ g[3] = frame.l0 /\ g[4] = frame.l1
    <2>1. 2 \in 1 .. Len(Consumed) /\ 3 \in 1 .. Len(Consumed) /\ 4 \in 1 .. Len(Consumed)
      BY <1>4, <1>6
    <2>2. QED
      BY <1>4, <1>6, <2>1
  <1>9. Len(d) = Len(r.data) /\ Len(line) = 1 /\ Len(g) = Len(Consumed) + 1
    <2>1. Len(d) = Len(r.data)
      BY <1>5, <1>7, <1>8, Zenon
    <2> DEFINE n == Len(r.data)  m == Len(line)  k == Len(g)  j == Len(Consumed)
    <2>2. n \in Nat /\ m \in Nat /\ k = n + 5 /\ k = j + m /\ j = 4 + n
      BY <1>4, <1>6, <1>7, <2>1
    <2> HIDE DEF n, m, k, j
    <2>3. m = 1 /\ k = j + 1
      BY <2>2
    <2>4. QED
      BY <2>1, <2>3 DEF m, k, j
  <1>10. line' = <<>>
    BY <1>1, <1>9
  <1>11. \A i \in 1 .. Len(d) : d[i] = g[4 + i]
    <2>1. ASSUME NEW i \in 1 .. Len(d) PROVE d[i] = g[4 + i]
      <3>1. 4 + i \in 1 .. Len(Consumed)
        BY <1>4, <1>6
      <3>2. QED
        BY <1>4, <1>6, <3>1
    <2>2. QED
      BY <2>1
  <1>12. CASE pc' = "idle"
    BY <1>10, <1>12 DEF InStep, Reading
  <1>13. CASE /\ Head(line) = FrameSum(frame.type, frame.l0, frame.l1, frame.data)
              /\ pc' = "run" /\ UNCHANGED <<frame, answers>>
    <2>1. g[Len(g)] = FrameSum(g[2], g[3], g[4], d)
      BY <1>6, <1>8, <1>9, <1>13 DEF d
    <2>2. g[2] = Code[r.cmd] /\ d = r.data
      BY <1>3, <1>5, <1>6, <1>9, <1>11, <2>1, SumAccepts
    <2>3. frame'.type = Code[host'.req.cmd] /\ frame'.data = host'.req.data
      BY <1>1, <1>8, <1>13, <2>2 DEF d
    <2>4. Asked'
      BY <1>1, <1>3, <1>13 DEF Asked
    <2>5. QED
      BY <1>10, <1>13, <2>3, <2>4 DEF InStep, Reading
  <1>14. QED
    BY <1>1, <1>12, <1>13

(* What a handler leaves the stub at, and what it answers before that,     *)
(* unless it goes on with the frames of a download, out of step with main. *)
LeavesFor ==
    \/ pc' \in {"idle", "gone"}
    \/ /\ pc' = "session" /\ \E cmd \in Sessions : Received(cmd)
       /\ \/ answers' = answers
          \/ \E t : answers' = Append(answers, [type |-> t, status |-> "SUCCESS"])
    \/ pc' = "upload" /\ Received("FLASH_UPLOAD")
    \/ pc' = "digest" /\ answers' = answers
LEMMA HandlerLeaves ==
    ASSUME Handler
    PROVE  /\ pc = "run" /\ UNCHANGED <<line, host>>
           /\ (aligned' = aligned /\ LeavesFor) \/ aligned' = FALSE
  <1>0. EnterFrames => /\ UNCHANGED <<line, host>>
                       /\ (aligned' = aligned /\ pc' = "idle") \/ aligned' = FALSE
    BY DEF EnterFrames
  <1>1. ASSUME NEW status, Answer(status)
        PROVE  UNCHANGED <<line, host, aligned>> /\ pc' = "idle"
    BY <1>1 DEF Answer
  <1>2. ASSUME NEW phase, NEW status, Enter(phase, status)
        PROVE  UNCHANGED <<line, host, aligned>> /\ pc' = phase
    BY <1>2 DEF Enter
  <1>3. ASSUME Enter("session", "SUCCESS")
        PROVE  /\ UNCHANGED <<line, host, aligned>> /\ pc' = "session"
               /\ \/ answers' = answers
                  \/ \E t : answers' = Append(answers, [type |-> t, status |-> "SUCCESS"])
    BY <1>3 DEF Enter, Reply, ReplyAt
  <1>4. RangeRefused(DataLen = 2 * WordBytes) \/ RangeRefused(DataLen >= 2 * WordBytes) =>
            UNCHANGED <<line, host, aligned>> /\ pc' = "idle"
    BY <1>1 DEF RangeRefused
  <1>5. EraseFails => UNCHANGED <<line, host, aligned>> /\ pc' = "idle"
    BY <1>2 DEF EraseFails
  <1>6. CASE Sync \/ FlashId \/ GetMac \/ ReadFuses \/ Registers \/ KeyValue \/ Unknown
    BY <1>1, <1>6 DEF Sync, FlashId, GetMac, ReadFuses, Registers, KeyValue, Unknown, Received,
                      LeavesFor
  <1>7. CASE RamDownload \/ RawRead
    <2>1. CASE RamDownload
      BY <1>0, <1>1, <2>1 DEF RamDownload, Received, LeavesFor
    <2>2. CASE RawRead
      BY <1>1, <1>3, <2>2 DEF RawRead, Received, LeavesFor, Sessions
    <2>3. QED
      BY <1>7, <2>1, <2>2
  <1>8. CASE FlashDownload
    <2>1. \/ RangeRefused(DataLen = 2 * WordBytes) \/ EraseFails \/ EnterFrames
      BY <1>8 DEF FlashDownload
    <2>2. QED
      BY <1>0, <1>4, <1>5, <1>8, <2>1 DEF FlashDownload, Received, LeavesFor
  <1>9. CASE FlashErase \/ ChipErase \/ Run
    <2>1. \/ RangeRefused(DataLen >= 2 * WordBytes) \/ EraseFails \/ Enter("idle", "SUCCESS")
          \/ Answer("ERROR") \/ Enter("gone", "SUCCESS")
      BY <1>9 DEF FlashErase, ChipErase, Run
    <2>2. pc = "run"
      BY <1>9 DEF FlashErase, ChipErase, Run, Received
    <2>3. UNCHANGED <<line, host, aligned>> /\ pc' \in {"idle", "gone"}
      BY <1>1, <1>2, <1>4, <1>5, <2>1
    <2>4. QED
      BY <2>2, <2>3 DEF LeavesFor
  <1>10. CASE FlashUpload
    <2>1. \/ RangeRefused(DataLen = 2 * WordBytes)
          \/ pc' = "upload" /\ UNCHANGED <<line, host, aligned>>
      BY <1>10 DEF FlashUpload, netVars
    <2>2. QED
      BY <1>4, <1>10, <2>1 DEF FlashUpload, Received, LeavesFor
  <1>11. CASE BaudChange
    BY <1>1, <1>11 DEF BaudChange, Received, LeavesFor
  <1>12. CASE FlashDigest
    BY <1>1, <1>12 DEF FlashDigest, Received, LeavesFor, netVars
  <1>13. CASE XmodemWrite \/ XmodemRead
    <2>1. \/ RangeRefused(DataLen >= 2 * WordBytes) \/ Enter("session", "SUCCESS")
      BY <1>13 DEF XmodemWrite, XmodemRead
    <2>2. \E cmd \in Sessions : Received(cmd)
      BY <1>13 DEF XmodemWrite, XmodemRead, Sessions
    <2>3. pc = "run"
      BY <2>2 DEF Received
    <2>4. QED
      BY <1>3, <1>4, <2>1, <2>2, <2>3 DEF LeavesFor
  <1>14. CASE JumpRam
    BY <1>1, <1>14 DEF JumpRam, Received, LeavesFor, netVars
  <1>15. QED
    BY <1>6, <1>7, <1>8, <1>9, <1>10, <1>11, <1>12, <1>13, <1>14 DEF Handler

LEMMA HandlerInStep == ASSUME CInv, InStep, Handler PROVE InStep'
  <1>0. SUFFICES ASSUME aligned' PROVE InStep'
    BY DEF InStep
  <1>1. pc = "run" /\ UNCHANGED <<line, host, aligned>> /\ LeavesFor
    BY <1>0, HandlerLeaves
  <1>2. aligned
    BY <1>0, <1>1
  <1>3. /\ host.state = "waiting" /\ answers = <<>> /\ line = <<>>
        /\ frame.type = Code[host.req.cmd] /\ host.req.cmd \in DOMAIN Code
    BY <1>1, <1>2, CommandLoopAssumption DEF InStep, Asked, CInv, HostOK
  <1>4. ASSUME NEW cmd, Received(cmd) PROVE host.req.cmd = cmd
    BY <1>3, <1>4, CommandLoopAssumption DEF Received
  <1>5. CASE pc' \in {"idle", "gone"}
    BY <1>1, <1>3, <1>5 DEF InStep, Reading
  <1>6. CASE /\ pc' = "session" /\ \E cmd \in Sessions : Received(cmd)
             /\ \/ answers' = answers
                \/ \E t : answers' = Append(answers, [type |-> t, status |-> "SUCCESS"])
    <2>1. host.req.cmd \in Sessions
      BY <1>4, <1>6
    <2>2. \A k \in 1 .. Len(answers') : answers'[k].status = "SUCCESS"
      <3>1. CASE answers' = answers
        BY <1>3, <3>1
      <3>2. CASE \E t : answers' = Append(answers, [type |-> t, status |-> "SUCCESS"])
        <4>1. PICK t : answers' = Append(answers, [type |-> t, status |-> "SUCCESS"])
          BY <3>2
        <4>2. answers' = <<[type |-> t, status |-> "SUCCESS"]>>
          BY <1>3, <4>1
        <4>3. QED
          BY <4>2
      <3>3. QED
        BY <1>6, <3>1, <3>2
    <2>3. QED
      BY <1>1, <1>3, <1>6, <2>1, <2>2 DEF InStep, Reading
  <1>7. CASE pc' = "upload" /\ Received("FLASH_UPLOAD")
    BY <1>1, <1>3, <1>4, <1>7 DEF InStep, Reading
  <1>8. CASE pc' = "digest" /\ answers' = answers
    BY <1>1, <1>3, <1>8 DEF InStep, Reading, Asked
  <1>9. QED
    BY <1>1, <1>5, <1>6, <1>7, <1>8 DEF LeavesFor

LEMMA PhasesInStep ==
    ASSUME CInv, InStep, FrameTimeout \/ UploadChunk \/ DigestDone \/ SessionReads
                         \/ SessionWrites \/ SessionEnds \/ RefuseLength
                         \/ FrameGoesOn \/ FrameRefused \/ FrameTaken
    PROVE  InStep'
  <1>1. CASE FrameTimeout
    BY <1>1 DEF FrameTimeout, InStep, Reading, netVars
  <1>2. CASE UploadChunk
    <2>1. pc = "upload" /\ UNCHANGED <<line, host, aligned>> /\ pc' \in {"idle", "upload"}
      BY <1>2 DEF UploadChunk
    <2>2. QED
      BY <2>1 DEF InStep, Reading
  <1>3. CASE DigestDone
    BY <1>3 DEF DigestDone, InStep, Reading
  <1>4. CASE SessionReads
    BY <1>4 DEF SessionReads, TakeByte, InStep
  <1>5. CASE SessionWrites
    BY <1>5 DEF SessionWrites, InStep, Reading, netVars
  <1>6. CASE SessionEnds
    BY <1>6 DEF SessionEnds, InStep, Reading, netVars
  <1>7. CASE RefuseLength
    BY <1>7 DEF RefuseLength, InStep
  <1>8. CASE FrameGoesOn \/ FrameRefused \/ FrameTaken
    <2>1. pc = "frames" /\ aligned' = aligned
      BY <1>8 DEF FrameGoesOn, FrameRefused, FramesEnd, FrameTaken, FrameByte
    <2>2. QED
      BY <2>1 DEF InStep
  <1>9. QED
    BY <1>1, <1>2, <1>3, <1>4, <1>5, <1>6, <1>7, <1>8

(* What leaves the host while the line is empty.                           *)
LEMMA TransmitInStep ==
    ASSUME line = <<>>, NEW r \in Requests, NEW h, Transmit(r, h), aligned'
    PROVE  (aligned \/ Idle) /\ (line' = <<>> \/ IsFrame(r, line'))
  <1> DEFINE f == Frame(r)
  <1>1. /\ f \in Seq(Byte) /\ Len(f) = Len(r.data) + 5 /\ Len(r.data) \in Nat
        /\ Noise \subseteq Byte
    BY FrameFacts, CommandLoopAssumption
  <1>2. <<>> \o f = f /\ \A b : <<>> \o b = <<>> \o b
    BY <1>1
  <1>3. CASE /\ line' = IF h = rate THEN line \o f ELSE line
             /\ aligned' = (aligned \/ Idle)
    <2>1. line' = f \/ line' = <<>>
      BY <1>2, <1>3
    <2>2. ASSUME line' = f PROVE IsFrame(r, line')
      <3>1. 2 \in (1 .. Len(f)) \ {1, 3, 4}
        BY <1>1
      <3>2. QED
        BY <1>1, <2>2, <3>1 DEF IsFrame
    <2>3. QED
      BY <1>3, <2>1, <2>2
  <1>4. CASE \E i \in 1 .. Len(f), b \in Noise :
                /\ line' = line \o [f EXCEPT ![i] = b]
                /\ aligned' = ((aligned \/ Idle) /\ i \notin {1, 3, 4})
    <2>1. PICK i \in 1 .. Len(f), b \in Noise :
                /\ line' = line \o [f EXCEPT ![i] = b]
                /\ aligned' = ((aligned \/ Idle) /\ i \notin {1, 3, 4})
      BY <1>4
    <2> DEFINE g == [f EXCEPT ![i] = b]
    <2>2. /\ g \in Seq(Byte) /\ Len(g) = Len(f)
          /\ \A j \in 1 .. Len(f) : j # i => g[j] = f[j]
      BY <1>1
    <2>3. (aligned \/ Idle) /\ i \notin {1, 3, 4}
      BY <2>1, Zenon
    <2>4. line' = g
      <3>1. line' = <<>> \o g
        BY <2>1
      <3> HIDE DEF g
      <3>2. QED
        BY <2>2, <3>1
    <2> HIDE DEF g
    <2>5. i \in (1 .. Len(g)) \ {1, 3, 4} /\ \A j \in (1 .. Len(g)) \ {i} : g[j] = f[j]
      BY <2>1, <2>2, <2>3
    <2>6. IsFrame(r, g)
      BY <1>1, <2>2, <2>5 DEF IsFrame
    <2>7. QED
      BY <2>3, <2>4, <2>6
  <1>5. QED
    BY <1>3, <1>4 DEF Transmit

LEMMA HostAsksInStep == ASSUME CInv, InStep, HostSends \/ HostRepeats PROVE InStep'
  <1>1. SUFFICES ASSUME aligned' PROVE InStep'
    BY DEF InStep
  <1>2. CASE HostSends
    <2>1. PICK r \in Requests :
            /\ host' = [host EXCEPT !.state = "waiting", !.req = r,
                                    !.rates[2] = RateAfter(r, host.rates[1])]
            /\ Transmit(r, host.rates[1])
      BY <1>2 DEF HostSends
    <2>2. /\ host.state = "ready" /\ pc # "gone" /\ answers' = <<>> /\ pc' = pc
          /\ line \in Seq(Byte)
      BY <1>2 DEF HostSends, stubVars, CInv, TypeOK
    <2>3. host'.state = "waiting" /\ host'.req = r
      BY <2>1 DEF CInv, HostOK
    <2>4. aligned \/ Idle
      BY <1>1, <2>1, Zenon DEF Transmit
    <2>5. pc = "idle" /\ line = <<>>
      BY <2>2, <2>4 DEF InStep, Asked, Reading, Idle, CInv, TypeOK
    <2>6. line' = <<>> \/ IsFrame(r, line')
      BY <1>1, <2>1, <2>5, TransmitInStep
    <2>7. Asked'
      BY <2>2, <2>3 DEF Asked
    <2>8. IsFrame(r, line') => IsFrame(host'.req, line')
      BY <2>3
    <2>9. QED
      BY <2>2, <2>5, <2>6, <2>7, <2>8 DEF InStep, Reading
  <1>3. CASE HostRepeats
    <2>1. /\ host' = [host EXCEPT !.turn = 3 - @] /\ host.state = "waiting"
          /\ Transmit(host.req, host'.rates[host'.turn]) /\ host.req \in Requests
          /\ Quiet /\ pc # "gone" /\ pc' = pc /\ answers = <<>> /\ answers' = answers
      BY <1>3 DEF HostRepeats, CInv, HostOK, stubVars
    <2>0. pc = "idle" /\ line = <<>>
      <3>1. aligned \/ Idle
        BY <1>1, <2>1, Zenon DEF Transmit
      <3>2. QED
        BY <2>1, <3>1 DEF Quiet, Idle, InStep
    <2>2. host'.state = "waiting" /\ host'.req = host.req
      BY <2>1 DEF CInv, HostOK
    <2>3. line' = <<>> \/ IsFrame(host.req, line')
      BY <1>1, <2>0, <2>1, TransmitInStep
    <2>4. Asked'
      BY <2>1, <2>2 DEF Asked
    <2>5. IsFrame(host.req, line') => IsFrame(host'.req, line')
      BY <2>2
    <2>6. QED
      BY <2>0, <2>1, <2>3, <2>4, <2>5 DEF InStep, Reading
  <1>4. QED
    BY <1>2, <1>3

LEMMA HostReadsInStep == ASSUME CInv, InStep, HostReads PROVE InStep'
  <1>1. /\ host.state = "waiting" /\ answers # <<>> /\ answers' = Tail(answers)
        /\ UNCHANGED <<pc, frame, line, aligned>>
    BY DEF HostReads, stubVars
  <1>2. SUFFICES ASSUME aligned PROVE InStep'
    BY <1>1 DEF InStep
  <1>3. CASE pc \in {"idle", "gone"}
    BY <1>1, <1>2, <1>3 DEF InStep, Asked, Reading
  <1>4. CASE pc = "upload"
    <2>1. host.req.cmd = "FLASH_UPLOAD" /\ line = <<>>
      BY <1>2, <1>4 DEF InStep
    <2>2. host' = host
      BY <1>4, <2>1 DEF HostReads, MoreToCome
    <2>3. QED
      BY <1>1, <1>4, <2>1, <2>2 DEF InStep, Reading
  <1>5. CASE pc = "session"
    <2>1. /\ host.req.cmd \in Sessions /\ line = <<>>
          /\ \A k \in 1 .. Len(answers) : answers[k].status = "SUCCESS"
      BY <1>1, <1>2, <1>5 DEF InStep
    <2>2. host' = host \/ host'.state = "transfer"
      <3>1. host \in [state : HostStates, req : Requests \cup {NoRequest},
                      rates : [1 .. 2 -> Word], turn : {1, 2}]
        BY DEF CInv, HostOK
      <3>2. Head(answers).status = "SUCCESS"
        BY <1>1, <2>1
      <3>3. QED
        BY <2>1, <3>1, <3>2 DEF HostReads
    <2>3. \A k \in 1 .. Len(answers') : answers'[k].status = "SUCCESS"
      BY <1>1, <2>1
    <2>4. QED
      BY <1>1, <1>5, <2>1, <2>2, <2>3 DEF InStep, Reading
  <1>6. QED
    BY <1>1, <1>2, <1>3, <1>4, <1>5 DEF InStep, Asked, Reading, CInv, TypeOK

LEMMA HostOtherInStep ==
    ASSUME CInv, InStep, HostGivesUp \/ HostPayload \/ HostSendsData \/ HostEndsTransfer \/ LoseAnswer
    PROVE  InStep'
  <1>1. CASE HostGivesUp
    <2>1. /\ pc' = pc /\ line' = line
          /\ pc \in {"gone", "frames"} \/ (pc = "idle" /\ line = <<>>)
          /\ aligned' = aligned
      BY <1>1 DEF HostGivesUp, Quiet, Idle, stubVars, netVars
    <2>2. QED
      BY <2>1 DEF InStep, Reading
  <1>2. CASE HostPayload
    BY <1>2 DEF HostPayload, InStep
  <1>3. CASE HostEndsTransfer
    <2>1. /\ pc' = pc /\ line' = line /\ aligned' = aligned
          /\ host.state = "transfer" /\ pc # "session"
      BY <1>3 DEF HostEndsTransfer, stubVars, netVars
    <2>2. aligned => pc \in {"idle", "gone"} /\ (pc = "idle" => line = <<>>)
      BY <2>1 DEF InStep, Asked, Reading, CInv, TypeOK
    <2>3. QED
      BY <2>1, <2>2 DEF InStep, Reading
  <1>4. CASE LoseAnswer
    <2>1. /\ answers # <<>> /\ answers' = Tail(answers)
          /\ UNCHANGED <<pc, frame, line, host, aligned>>
      BY <1>4 DEF LoseAnswer, stubVars
    <2>2. SUFFICES ASSUME aligned PROVE InStep'
      BY <2>1 DEF InStep
    <2>3. CASE pc \in {"idle", "gone", "upload"}
      BY <2>1, <2>2, <2>3 DEF InStep, Asked, Reading
    <2>4. CASE pc = "session"
      <3>1. CASE host.state = "transfer"
        BY <2>1, <2>2, <2>4, <3>1 DEF InStep, Reading
      <3>2. CASE host.state # "transfer"
        <4>1. \A k \in 1 .. Len(answers) : answers[k].status = "SUCCESS"
          BY <2>2, <2>4, <3>2 DEF InStep
        <4>2. \A k \in 1 .. Len(answers') : answers'[k].status = "SUCCESS"
          BY <2>1, <4>1
        <4>3. QED
          BY <2>1, <2>2, <2>4, <3>2, <4>2 DEF InStep, Reading
      <3>3. QED
        BY <3>1, <3>2
    <2>5. QED
      BY <2>1, <2>2, <2>3, <2>4 DEF InStep, Asked, Reading, CInv, TypeOK
  <1>5. CASE HostSendsData
    <2>1. PICK r \in Requests : Transmit(r, host.rates[1])
      BY <1>5 DEF HostSendsData
    <2>2. pc = "frames"
      BY <1>5 DEF HostSendsData
    <2>3. aligned' => aligned \/ Idle
      BY <2>1, Zenon DEF Transmit
    <2>4. ~aligned'
      BY <2>2, <2>3 DEF InStep, Idle
    <2>5. QED
      BY <2>4 DEF InStep
  <1>6. QED
    BY <1>1, <1>2, <1>3, <1>4, <1>5

LEMMA NextKeepsInStep == ASSUME CInv, InStep, [Next]_vars PROVE InStep'
  <1>1. CASE UNCHANGED vars
    BY SMTT(30), <1>1 DEF vars, stubVars, netVars, InStep, Asked, Reading, Consumed, IsFrame
  <1>2. CASE Stub
    BY <1>2, ReadMagicInStep, ReadHeaderInStep, ReadDataInStep, ReadSumInStep, HandlerInStep,
       PhasesInStep DEF Stub
  <1>3. QED
    BY <1>1, <1>2, HostAsksInStep, HostReadsInStep, HostOtherInStep DEF Next, Host

(* The sum of a frame covers every byte of it, and one altered byte changes*)
(* the sum: while host and stub are in step, handle_obk_frame runs only the*)
(* request that the host is waiting for.                                   *)
THEOREM SentFramesOnly == Spec => []OnlySentFramesRun
  <1>1. Init => InStep
    BY DEF Init, InStep, Reading
  <1>2. CInv /\ InStep /\ [Next]_vars => InStep'
    BY NextKeepsInStep
  <1>3. CInv /\ InStep => OnlySentFramesRun
    BY DEF CInv, HostOK, InStep, Asked, OnlySentFramesRun
  <1>4. QED
    BY <1>1, <1>2, <1>3, LoopInvariant, PTL DEF Spec

-----------------------------------------------------------------------------
(* Baud changes: a frame is worked at only when it was sent at the rate of *)
(* the stub, and an answer to the request of the host that is under way was*)
(* given at the rate the host will go on with.                             *)
Working  == pc \notin {"idle", "frames", "gone"} \/ (pc # "gone" /\ line # <<>>)
Statuses == {"SUCCESS", "ERROR", "LEN_ERROR", "ADDR_ERROR", "TYPE_ERROR", "CRC_ERROR"}
Given == RateAfter(host.req, host.rates[host.turn])
Fits(type, status) ==
    type = Code[host.req.cmd] =>
        /\ status = "SUCCESS" => rate = Given
        /\ status \notin {"SUCCESS", "CRC_ERROR"} => rate = host.rates[host.turn]
OfBaud(type) == "BAUD_CHANGE" \in DOMAIN Code /\ Code["BAUD_CHANGE"] = type
RateOK ==
    /\ answers \in Seq([type : Byte, status : Statuses])
    /\ pc \in {"upload", "digest", "frames"} => ~OfBaud(frame.type)
    /\ host.state # "waiting" => host.rates[2] = host.rates[1] /\ host.turn = 1
    /\ host.state # "waiting" /\ pc # "gone" => rate = host.rates[1]
    /\ host.state = "waiting" /\ pc # "gone" =>
          /\ host.rates[2] = RateAfter(host.req, host.rates[1])
          /\ rate \in {host.rates[1], host.rates[2]}
          /\ Working => rate = host.rates[host.turn]
          /\ \A k \in 1 .. Len(answers) : Fits(answers[k].type, answers[k].status)

(* What a handler does to the rate, and what it answers.                   *)
Says(s) == \/ answers' = answers
           \/ answers' = Append(answers, [type |-> frame.type, status |-> s])

LEMMA SaysFacts ==
    ASSUME NEW status
    PROVE  /\ Reply(frame.type, status) => Says(status)
           /\ Answer(status) => rate' = rate /\ Says(status) /\ pc' = "idle"
           /\ \A phase : Enter(phase, status) => rate' = rate /\ Says(status) /\ pc' = phase
  BY DEF Reply, ReplyAt, Says, Answer, Enter

Other == \E c : c # "BAUD_CHANGE" /\ Received(c)

LEMMA HandlerRates ==
    ASSUME Handler
    PROVE  \/ /\ rate' = rate
              /\ \E s \in Statuses : Says(s) /\ (s = "SUCCESS" => Other)
              /\ pc' \in {"upload", "digest", "frames"} => Other /\ frame'.type = frame.type
           \/ /\ Received("BAUD_CHANGE") /\ DataLen = WordBytes /\ rate' = Off
              /\ Says("SUCCESS") /\ pc' = "idle"
  <1> DEFINE Calm(s) == rate' = rate /\ Says(s)
             Done == /\ rate' = rate
                     /\ \E s \in Statuses : Says(s) /\ (s = "SUCCESS" => Other)
                     /\ pc' \in {"upload", "digest", "frames"} => Other /\ frame'.type = frame.type
  <1>1. ASSUME NEW c, Received(c), c # "BAUD_CHANGE" PROVE Other
    BY <1>1 DEF Other
  <1>2. EnterFrames => /\ rate' = rate /\ Says("SUCCESS") /\ pc' \in {"idle", "frames"}
                       /\ pc' = "frames" => frame'.type = frame.type
    BY SaysFacts DEF EnterFrames, NoFrame
  <1>3. \A c : RangeRefused(c) => \E s \in Statuses : Calm(s) /\ s # "SUCCESS" /\ pc' = "idle"
    BY SaysFacts DEF RangeRefused, Statuses
  <1>4. EraseFails => Calm("ERROR") /\ pc' = "idle"
    BY SaysFacts DEF EraseFails, Statuses
  <1>5. CASE Sync \/ FlashId \/ GetMac \/ ReadFuses \/ KeyValue
    <2>1. Other
      BY <1>1, <1>5 DEF Sync, FlashId, GetMac, ReadFuses, KeyValue
    <2>2. \E s \in Statuses : Answer(s)
      BY <1>5 DEF Sync, FlashId, GetMac, ReadFuses, KeyValue, Statuses
    <2>3. QED
      BY <2>1, <2>2, SaysFacts
  <1>6. CASE Registers
    <2>1. Other
      BY <1>1, <1>6 DEF Registers
    <2>2. \E s \in Statuses : Answer(s)
      BY <1>6 DEF Registers, Statuses
    <2>3. QED
      BY <2>1, <2>2, SaysFacts
  <1>7. CASE Unknown
    <2>1. Answer("TYPE_ERROR")
      BY <1>7 DEF Unknown
    <2>2. QED
      BY <2>1, SaysFacts DEF Statuses
  <1>8. CASE BaudChange
    <2>1. CASE DataLen # WordBytes /\ Answer("LEN_ERROR")
      BY <2>1, SaysFacts DEF Statuses
    <2>2. CASE ~(DataLen # WordBytes /\ Answer("LEN_ERROR"))
      BY <1>8, <2>2 DEF BaudChange, ReplyAt, Says
    <2>3. QED
      BY <2>1, <2>2
  <1>9. CASE RamDownload \/ RawRead \/ Run
    <2>1. Other
      BY <1>1, <1>9 DEF RamDownload, RawRead, Run
    <2>2. \/ \E s \in Statuses : Answer(s) \/ \E phase \in {"idle", "session", "gone"} : Enter(phase, s)
          \/ EnterFrames
      BY <1>9 DEF RamDownload, RawRead, Run, Statuses
    <2>3. QED
      BY <1>2, <2>1, <2>2, SaysFacts DEF Statuses
  <1>10. CASE FlashDownload \/ FlashErase \/ ChipErase \/ XmodemWrite \/ XmodemRead
    <2>1. Other
      BY <1>1, <1>10 DEF FlashDownload, FlashErase, ChipErase, XmodemWrite, XmodemRead
    <2>2. \/ \E c : RangeRefused(c)
          \/ EraseFails
          \/ \E s \in Statuses : Answer(s) \/ \E phase \in {"idle", "session"} : Enter(phase, s)
          \/ EnterFrames
      BY <1>10 DEF FlashDownload, FlashErase, ChipErase, XmodemWrite, XmodemRead, Statuses
    <2>3. QED
      BY <1>2, <1>3, <1>4, <2>1, <2>2, SaysFacts DEF Statuses
  <1>11. CASE FlashUpload
    <2>1. Other
      BY <1>1, <1>11 DEF FlashUpload
    <2>2. \/ \E c : RangeRefused(c)
          \/ rate' = rate /\ answers' = answers /\ pc' = "upload" /\ frame' = frame
      BY <1>11 DEF FlashUpload, netVars, Statuses
    <2>3. QED
      BY <1>3, <2>1, <2>2 DEF Says, Statuses
  <1>12. CASE FlashDigest
    <2>1. Other
      BY <1>1, <1>12 DEF FlashDigest
    <2>2. \/ \E s \in Statuses : Answer(s)
          \/ rate' = rate /\ answers' = answers /\ pc' = "digest" /\ frame' = frame
      BY <1>12 DEF FlashDigest, netVars, Statuses
    <2>3. QED
      BY <2>1, <2>2, SaysFacts DEF Says, Statuses
  <1>13. CASE JumpRam
    <2>1. Other
      BY <1>1, <1>13 DEF JumpRam
    <2>2. \/ \E s \in Statuses : Answer(s)
          \/ rate' = rate /\ answers' = answers /\ pc' \in {"idle", "gone"}
      BY <1>13 DEF JumpRam, netVars, Statuses
    <2>3. QED
      BY <2>1, <2>2, SaysFacts DEF Says, Statuses
  <1>14. QED
    BY <1>5, <1>6, <1>7, <1>8, <1>9, <1>10, <1>11, <1>12, <1>13 DEF Handler


(* A step that leaves the rates alone and whose answers, if any, are given *)
(* at the rate the host will go on with.                                   *)
LEMMA SameRates ==
    ASSUME CInv, RateOK, UNCHANGED <<rate, host>>,
           pc' # "gone" => pc # "gone",
           Working' => Working,
           pc' \in {"upload", "digest", "frames"} => ~OfBaud(frame'.type),
           \/ answers' = answers
           \/ answers # <<>> /\ answers' = Tail(answers)
           \/ \E s \in Statuses :
                 /\ answers' = Append(answers, [type |-> frame.type, status |-> s])
                 /\ host.state = "waiting" /\ pc' # "gone" => Fits(frame.type, s)
    PROVE  RateOK'
  <1> DEFINE Answer1 == [type : Byte, status : Statuses]
  <1>1. answers \in Seq(Answer1) /\ frame.type \in Byte
    BY DEF RateOK, CInv, TypeOK
  <1>2. answers' \in Seq(Answer1)
    <2>1. CASE \E s \in Statuses : answers' = Append(answers, [type |-> frame.type, status |-> s])
      <3>1. PICK s \in Statuses : answers' = Append(answers, [type |-> frame.type, status |-> s])
        BY <2>1
      <3>2. [type |-> frame.type, status |-> s] \in Answer1
        BY <1>1, <3>1
      <3> HIDE DEF Answer1
      <3>3. QED
        BY <1>1, <3>1, <3>2
    <2> HIDE DEF Answer1
    <2>2. CASE answers' = answers
      BY <1>1, <2>2
    <2>3. CASE answers # <<>> /\ answers' = Tail(answers)
      BY <1>1, <2>3
    <2>4. QED
      BY <2>1, <2>2, <2>3
  <1>3. ASSUME host.state = "waiting", pc' # "gone", NEW k \in 1 .. Len(answers')
        PROVE  Fits(answers'[k].type, answers'[k].status)
    <2>1. \A j \in 1 .. Len(answers) : Fits(answers[j].type, answers[j].status)
      BY <1>3 DEF RateOK
    <2>2. CASE answers' = answers
      BY <1>3, <2>1, <2>2
    <2>3. CASE answers # <<>> /\ answers' = Tail(answers)
      <3>1. answers'[k] = answers[k + 1] /\ k + 1 \in 1 .. Len(answers)
        BY <1>1, <1>3, <2>3
      <3>2. QED
        BY <2>1, <3>1
    <2>4. CASE \E s \in Statuses :
                  /\ answers' = Append(answers, [type |-> frame.type, status |-> s])
                  /\ host.state = "waiting" /\ pc' # "gone" => Fits(frame.type, s)
      <3>1. PICK s \in Statuses :
                  /\ answers' = Append(answers, [type |-> frame.type, status |-> s])
                  /\ host.state = "waiting" /\ pc' # "gone" => Fits(frame.type, s)
        BY <2>4
      <3> DEFINE a == [type |-> frame.type, status |-> s]
      <3>2. a.status = s /\ a.type = frame.type
        OBVIOUS
      <3> HIDE DEF a
      <3>3. answers' = Append(answers, a)
        BY <3>1 DEF a
      <3>4. \/ k \in 1 .. Len(answers) /\ answers'[k] = answers[k]
            \/ answers'[k] = a
        BY <1>1, <1>3, <3>3
      <3>5. QED
        BY <1>3, <2>1, <3>1, <3>2, <3>4
    <2>5. QED
      BY <2>2, <2>3, <2>4
  <1>4. host.state = "waiting" /\ pc' # "gone" =>
            \A k \in 1 .. Len(answers') : (Fits(answers[k].type, answers[k].status))'
    BY <1>3 DEF Fits, Given
  <1>5. QED
    BY <1>2, <1>4 DEF RateOK

(* What is answered fits when the host waits for something else, or has not*)
(* asked for another rate.                                                 *)
LEMMA OthersFit ==
    ASSUME CInv, RateOK, host.state = "waiting", Working, NEW s,
           s = "SUCCESS" => ~OfBaud(frame.type)
    PROVE  Fits(frame.type, s)
  <1>1. host.req.cmd \in DOMAIN Code
    BY CommandLoopAssumption DEF CInv, HostOK
  <1>2. rate = host.rates[host.turn]
    BY DEF RateOK, Working
  <1>3. s = "SUCCESS" /\ frame.type = Code[host.req.cmd] => host.req.cmd # "BAUD_CHANGE"
    BY <1>1 DEF OfBaud
  <1>4. QED
    BY <1>2, <1>3 DEF Fits, Given, RateAfter, ChangesRate

(* BAUD_CHANGE goes to the rate the host listens at from then on.          *)
BaudInStep == Received("BAUD_CHANGE") => aligned
LEMMA BaudRateOK ==
    ASSUME CInv, InStep, RateOK, aligned, Received("BAUD_CHANGE"), DataLen = WordBytes,
           rate' = Off, Says("SUCCESS"), pc' = "idle", UNCHANGED <<line, host>>
    PROVE  RateOK'
  <1>1. /\ pc = "run" /\ host.state = "waiting" /\ host.req \in Requests /\ answers = <<>>
        /\ line = <<>> /\ frame.data = host.req.data /\ frame.type = Code[host.req.cmd]
        /\ host.req.cmd \in DOMAIN Code
    BY CommandLoopAssumption DEF Received, InStep, Asked, CInv, HostOK
  <1>2. host.req.cmd = "BAUD_CHANGE" /\ Len(host.req.data) = WordBytes
    BY <1>1, CommandLoopAssumption DEF CInv, FrameOK, Received
  <1>3. ChangesRate(host.req) /\ rate' = Load(host.req.data, 0)
    BY <1>1, <1>2 DEF ChangesRate, Off
  <1>4. \A now : RateAfter(host.req, now) = rate'
    BY <1>3 DEF RateAfter
  <1>5. host'.rates[2] = rate' /\ RateAfter(host'.req, host'.rates[1]) = rate'
    BY <1>1, <1>4 DEF RateOK
  <1>6. (Given = rate)'
    BY <1>4 DEF Given
  <1>7. ~Working'
    BY <1>1 DEF Working
  <1>8. answers' \in Seq([type : Byte, status : Statuses])
        /\ \A k \in 1 .. Len(answers') : answers'[k].status = "SUCCESS"
    <2> DEFINE a == [type |-> frame.type, status |-> "SUCCESS"]
               A == [type : Byte, status : Statuses]
    <2>1. answers' = <<>> \/ answers' = <<a>>
      BY <1>1 DEF Says
    <2>2. a \in A /\ a.status = "SUCCESS"
      BY DEF CInv, TypeOK, Statuses
    <2> HIDE DEF a, A
    <2>3. CASE answers' = <<>>
      BY <2>3
    <2>4. CASE answers' = <<a>>
      <3>1. <<a>> \in Seq(A) /\ Len(<<a>>) = 1 /\ <<a>>[1] = a
        BY <2>2
      <3>2. QED
        BY <2>2, <2>4, <3>1 DEF A
    <2>5. QED
      BY <2>1, <2>3, <2>4 DEF A
  <1>9. \A k \in 1 .. Len(answers') : (Fits(answers[k].type, answers[k].status))'
    BY <1>6, <1>8 DEF Fits
  <1>10. QED
    BY <1>1, <1>5, <1>7, <1>8, <1>9 DEF RateOK

LEMMA HandlerRateOK == ASSUME CInv, InStep, RateOK, BaudInStep, Handler PROVE RateOK'
  <1>1. pc = "run" /\ UNCHANGED <<line, host>>
    BY HandlerLeaves
  <1>2. CASE /\ rate' = rate
             /\ \E s \in Statuses : Says(s) /\ (s = "SUCCESS" => Other)
             /\ pc' \in {"upload", "digest", "frames"} => Other /\ frame'.type = frame.type
    <2>1. Other => ~OfBaud(frame.type)
      BY CommandLoopAssumption DEF Other, OfBaud, Received
    <2>2. PICK s \in Statuses : Says(s) /\ (s = "SUCCESS" => Other)
      BY <1>2
    <2>3. Working
      BY <1>1 DEF Working
    <2>4. host.state = "waiting" => Fits(frame.type, s)
      BY <2>1, <2>2, <2>3, OthersFit
    <2>5. UNCHANGED <<rate, host>> /\ pc # "gone"
      BY <1>1, <1>2
    <2>6. pc' \in {"upload", "digest", "frames"} => ~OfBaud(frame'.type)
      BY <1>2, <2>1
    <2>7. \/ answers' = answers
          \/ \E x \in Statuses :
                /\ answers' = Append(answers, [type |-> frame.type, status |-> x])
                /\ host.state = "waiting" /\ pc' # "gone" => Fits(frame.type, x)
      BY <2>2, <2>4 DEF Says
    <2>8. QED
      BY <2>3, <2>5, <2>6, <2>7, SameRates
  <1>3. CASE /\ Received("BAUD_CHANGE") /\ DataLen = WordBytes /\ rate' = Off
             /\ Says("SUCCESS") /\ pc' = "idle"
    BY <1>1, <1>3, BaudRateOK DEF BaudInStep
  <1>4. QED
    BY <1>2, <1>3, HandlerRates

(* The steps of the stub that end no handler: some answer, at the rate at  *)
(* which the bytes came in.                                                *)
LEMMA StubRateOK == ASSUME CInv, InStep, RateOK, BaudInStep, Stub PROVE RateOK'
  <1>1. CASE ReadMagic \/ ReadHeader \/ ReadData \/ FrameTimeout \/ SessionReads
             \/ SessionWrites \/ SessionEnds
    <2>1. /\ UNCHANGED <<rate, host>> /\ answers' = answers
          /\ pc \notin {"gone", "frames"} /\ (pc = "idle" => line # <<>>)
          /\ pc' \notin {"upload", "digest", "frames"}
      BY <1>1 DEF ReadMagic, ReadHeader, ReadData, FrameTimeout, SessionReads, SessionWrites,
                  SessionEnds, TakeByte, AfterData, Reading, netVars, stubVars
    <2>2. QED
      BY <2>1, SameRates DEF Working
  <1>2. CASE FrameGoesOn
    <2>1. /\ UNCHANGED <<rate, host>> /\ answers' = answers /\ pc = "frames" /\ pc' = pc
          /\ line # <<>> /\ frame' = [frame EXCEPT !.data = Raw]
      BY <1>2 DEF FrameGoesOn, FrameByte, TakeByte
    <2>2. frame'.type = frame.type
      BY <2>1 DEF CInv, TypeOK
    <2>3. ~OfBaud(frame'.type) /\ Working
      BY <2>1, <2>2 DEF RateOK, Working
    <2>4. QED
      BY <2>1, <2>3, SameRates
  <1>3. CASE RefuseLength \/ ReadSum \/ UploadChunk \/ DigestDone \/ FrameRefused \/ FrameTaken
    <2>1. /\ UNCHANGED <<rate, host>> /\ Working
          /\ \E s \in Statuses : Says(s) /\ (s = "SUCCESS" => pc \in {"upload", "digest", "frames"})
          /\ pc' \in {"upload", "digest", "frames"} => pc = pc' /\ frame'.type = frame.type
      <3>1. CASE RefuseLength
        BY <3>1 DEF RefuseLength, TooLong, Reply, ReplyAt, Says, Statuses, Working
      <3>2. CASE ReadSum
        BY <3>2 DEF ReadSum, Reply, ReplyAt, Says, Statuses, Working
      <3>3. CASE UploadChunk
        BY <3>3 DEF UploadChunk, Reply, ReplyAt, Says, Statuses, Working
      <3>4. CASE DigestDone
        BY <3>4 DEF DigestDone, Reply, ReplyAt, Says, Statuses, Working
      <3>5. CASE FrameRefused
        <4>1. /\ pc = "frames" /\ line # <<>>
              /\ \E s \in {"ERROR", "LEN_ERROR", "CRC_ERROR"} : FramesEnd(s)
          BY <3>5 DEF FrameRefused, FrameByte, TakeByte
        <4>2. QED
          BY <4>1 DEF FramesEnd, Reply, ReplyAt, Says, Statuses, Working
      <3>6. CASE FrameTaken
        <4>1. /\ pc = "frames" /\ line # <<>> /\ UNCHANGED <<rate, host>>
              /\ \/ pc' \in {"idle", "gone"}
                 \/ pc' = pc /\ frame' = [frame EXCEPT !.data = <<>>]
              /\ answers' = answers \/ Reply(frame.type, "SUCCESS")
          BY <3>6 DEF FrameTaken, FrameByte, TakeByte
        <4>2. [frame EXCEPT !.data = <<>>].type = frame.type
          BY DEF CInv, TypeOK
        <4>3. QED
          BY <4>1, <4>2 DEF Reply, ReplyAt, Says, Statuses, Working
      <3>7. QED
        BY <1>3, <3>1, <3>2, <3>3, <3>4, <3>5, <3>6
    <2>2. PICK s \in Statuses : Says(s) /\ (s = "SUCCESS" => pc \in {"upload", "digest", "frames"})
      BY <2>1
    <2>3. host.state = "waiting" => Fits(frame.type, s)
      BY <2>1, <2>2, OthersFit DEF RateOK
    <2>4. \/ answers' = answers
          \/ \E x \in Statuses :
                /\ answers' = Append(answers, [type |-> frame.type, status |-> x])
                /\ host.state = "waiting" /\ pc' # "gone" => Fits(frame.type, x)
      BY <2>2, <2>3 DEF Says
    <2>5. pc' \in {"upload", "digest", "frames"} => ~OfBaud(frame'.type)
      BY <2>1 DEF RateOK
    <2>6. pc # "gone"
      BY <2>1 DEF Working
    <2>7. QED
      BY <2>1, <2>4, <2>5, <2>6, SameRates
  <1>4. CASE Handler
    BY <1>4, HandlerRateOK
  <1>5. QED
    BY <1>1, <1>2, <1>3, <1>4 DEF Stub

(* A frame reaches the stub only when it was sent at the stub's rate.      *)
LEMMA SentAtRate ==
    ASSUME NEW r, NEW h, Transmit(r, h), line = <<>>, line' # <<>>
    PROVE  h = rate
  BY Zenon DEF Transmit

(* The steps of the host and of the line.                                  *)
LEMMA HostSendsRateOK == ASSUME CInv, RateOK, HostSends PROVE RateOK'
  <1>1. PICK r \in Requests :
          /\ host' = [host EXCEPT !.state = "waiting", !.req = r,
                                  !.rates[2] = RateAfter(r, host.rates[1])]
          /\ Transmit(r, host.rates[1])
    BY DEF HostSends
  <1>2. /\ host.state = "ready" /\ pc # "gone" /\ answers' = <<>>
        /\ UNCHANGED <<pc, rate, frame>>
    BY DEF HostSends, stubVars
  <1>3. rate = host.rates[1] /\ host.turn = 1
    BY <1>2 DEF RateOK
  <1>4. /\ host'.state = "waiting" /\ host'.req = r /\ host'.turn = 1
        /\ host'.rates[1] = host.rates[1] /\ host'.rates[2] = RateAfter(r, host.rates[1])
    BY <1>1, <1>3 DEF CInv, HostOK
  <1>5. <<>> \in Seq([type : Byte, status : Statuses]) /\ \A k \in 1 .. Len(answers') : FALSE
    BY <1>2
  <1>6. QED
    BY <1>2, <1>3, <1>4, <1>5 DEF RateOK

LEMMA HostRepeatsRateOK == ASSUME CInv, RateOK, HostRepeats PROVE RateOK'
  <1>1. /\ host' = [host EXCEPT !.turn = 3 - @] /\ host.state = "waiting"
        /\ Transmit(host.req, host'.rates[host'.turn])
        /\ pc \in {"idle", "frames"} /\ line = <<>> /\ answers = <<>> /\ answers' = answers
        /\ UNCHANGED <<pc, rate, frame>>
    BY DEF HostRepeats, Quiet, Idle, stubVars
  <1>2. host'.state = "waiting" /\ host'.req = host.req /\ host'.rates = host.rates
    BY <1>1 DEF CInv, HostOK
  <1>3. Working' => rate' = host'.rates[host'.turn]
    BY <1>1, SentAtRate DEF Working
  <1>4. <<>> \in Seq([type : Byte, status : Statuses]) /\ \A k \in 1 .. Len(answers') : FALSE
    BY <1>1
  <1>5. QED
    BY <1>1, <1>2, <1>3, <1>4 DEF RateOK

LEMMA HostReadsRateOK == ASSUME CInv, RateOK, HostReads PROVE RateOK'
  <1>1. /\ host.state = "waiting" /\ answers # <<>> /\ answers' = Tail(answers)
        /\ UNCHANGED <<pc, line, rate, frame>>
    BY DEF HostReads, stubVars
  <1>2. CASE host' = host
    BY <1>1, <1>2, SameRates DEF Working, RateOK
  <1>3. CASE host' # host
    <2> DEFINE a == Head(answers)
               used == IF a.status = "SUCCESS" THEN HostListensAt ELSE host.rates[host.turn]
    <2>1. /\ a.status # "CRC_ERROR" /\ a.type = Code[host.req.cmd]
          /\ host' = [host EXCEPT
                       !.state = IF host.req.cmd \in Sessions /\ a.status = "SUCCESS"
                                 THEN "transfer" ELSE "ready",
                       !.req = NoRequest,
                       !.rates = <<used, used>>, !.turn = 1]
      BY <1>3 DEF HostReads
    <2>2. /\ host'.state # "waiting" /\ host'.rates[1] = used /\ host'.rates[2] = used
          /\ host'.turn = 1
      BY <2>1 DEF CInv, HostOK
    <2>3. answers \in Seq([type : Byte, status : Statuses])
      BY DEF RateOK
    <2>4. pc # "gone" => Fits(a.type, a.status)
      BY <1>1, <2>3 DEF RateOK
    <2>5. pc # "gone" => rate = used
      BY <1>1, <2>1, <2>4 DEF Fits, Given, HostListensAt
    <2>6. answers' \in Seq([type : Byte, status : Statuses])
      <3> DEFINE A == [type : Byte, status : Statuses]
      <3> HIDE DEF A
      <3>1. answers \in Seq(A)
        BY <2>3 DEF A
      <3>2. answers' \in Seq(A)
        BY <1>1, <3>1
      <3>3. QED
        BY <3>2 DEF A
    <2>7. QED
      BY <1>1, <2>2, <2>5, <2>6 DEF RateOK
  <1>4. QED
    BY <1>2, <1>3

LEMMA OthersRateOK ==
    ASSUME CInv, RateOK,
           HostGivesUp \/ HostPayload \/ HostSendsData \/ HostEndsTransfer \/ LoseAnswer
    PROVE  RateOK'
  <1>1. CASE HostGivesUp
    <2>1. /\ host.state = "waiting" /\ UNCHANGED <<pc, rate, answers, frame>>
          /\ host.req.cmd = "JUMP_RAM" \/ pc = "gone"
          /\ host' = [host EXCEPT !.state = "ready", !.req = NoRequest,
                                  !.rates[2] = host.rates[1], !.turn = 1]
      BY <1>1 DEF HostGivesUp, stubVars, netVars
    <2>2. /\ host'.state = "ready" /\ host'.turn = 1 /\ host'.rates[1] = host.rates[1]
          /\ host'.rates[2] = host.rates[1]
      BY <2>1 DEF CInv, HostOK
    <2>3. pc # "gone" => rate = host.rates[1]
      BY <2>1 DEF RateOK, RateAfter, ChangesRate
    <2>4. QED
      BY <2>1, <2>2, <2>3 DEF RateOK
  <1>2. CASE HostPayload \/ HostSendsData
    <2>1. /\ host.state = "transfer" /\ UNCHANGED <<pc, rate, host, frame>>
          /\ answers' = answers \/ answers' = <<>>
      BY <1>2 DEF HostPayload, HostSendsData, stubVars
    <2>2. <<>> \in Seq([type : Byte, status : Statuses])
      OBVIOUS
    <2>3. QED
      BY <2>1, <2>2 DEF RateOK
  <1>3. CASE HostEndsTransfer
    <2>1. /\ host.state = "transfer" /\ host' = [host EXCEPT !.state = "ready"]
          /\ UNCHANGED <<pc, rate, answers, frame>>
      BY <1>3 DEF HostEndsTransfer, stubVars, netVars
    <2>2. host'.state = "ready" /\ host'.rates = host.rates /\ host'.turn = host.turn
      BY <2>1 DEF CInv, HostOK
    <2>3. QED
      BY <2>1, <2>2 DEF RateOK
  <1>4. CASE LoseAnswer
    BY <1>4, SameRates DEF LoseAnswer, stubVars, Working, RateOK
  <1>5. QED
    BY <1>1, <1>2, <1>3, <1>4

LEMMA NextKeepsRateOK ==
    ASSUME CInv, InStep, RateOK, BaudInStep, [Next]_vars PROVE RateOK'
  <1>1. CASE UNCHANGED vars
    <2>1. UNCHANGED <<pc, rate, host, answers, line, frame>>
      BY <1>1 DEF vars, stubVars, netVars
    <2>2. QED
      BY <2>1, SameRates DEF Working, RateOK
  <1>2. QED
    BY <1>1, StubRateOK, HostSendsRateOK, HostRepeatsRateOK, HostReadsRateOK, OthersRateOK
       DEF Next, Host

(* BAUD_CHANGE answers at the new rate and the host, when it hears nothing,*)
(* tries both: they have the same rate whenever the host is done with a    *)
(* request, however many bytes and answers were lost, whichever commands   *)
(* and transfers came before, as long as every BAUD_CHANGE that the stub   *)
(* runs came in while it was in step with the host.  (Out of step it may   *)
(* take the pieces of two frames for a BAUD_CHANGE that nobody sent.)      *)
THEOREM RatesStayTogether == Spec /\ []BaudInStep => []RatesAgree
  <1>1. Init => InStep /\ RateOK
    <2>1. ASSUME Init PROVE RateOK
      <3>1. <<>> \in Seq([type : Byte, status : Statuses])
        OBVIOUS
      <3>2. QED
        BY <2>1, <3>1 DEF Init, RateOK
    <2>2. QED
      BY <2>1 DEF Init, InStep, Reading
  <1>2. CInv /\ InStep /\ [Next]_vars => InStep'
    BY NextKeepsInStep
  <1>3. CInv /\ InStep /\ RateOK /\ BaudInStep /\ [Next]_vars => RateOK'
    BY NextKeepsRateOK
  <1>4. RateOK => RatesAgree
    BY DEF RateOK, RatesAgree
  <1>5. QED
    BY <1>1, <1>2, <1>3, <1>4, LoopInvariant, PTL DEF Spec
=============================================================================
