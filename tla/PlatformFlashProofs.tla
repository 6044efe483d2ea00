------------------------ MODULE PlatformFlashProofs ------------------------
(***************************************************************************)
(* Proofs about PlatformFlash and PlatformDigest, for every chip, page,    *)
(* sector and block size, every platform, range and number of faults.      *)
(***************************************************************************)
EXTENDS PlatformDigest, NumberProofs, TLAPS

-----------------------------------------------------------------------------
(* Rounding to multiples of a size. *)
LEMMA Floor ==
    ASSUME NEW a \in Int, NEW b \in Nat \ {0}
    PROVE  /\ a \div b \in Int
           /\ b * (a \div b) \in Int
           /\ b * (a \div b) <= a /\ a < b * (a \div b) + b
  <1> DEFINE q == a \div b
             r == a % b
  <1>1. q = a \div b /\ r = a % b
    OBVIOUS
  <1> HIDE DEF q, r
  <1>2. a = b * q + r /\ q \in Int /\ r \in 0 .. b - 1
    BY <1>1, SMT
  <1>3. b * q \in Int
    BY <1>2
  <1>4. QED
    BY <1>1, <1>2, <1>3

LEMMA FloorUnique ==
    ASSUME NEW a \in Int, NEW b \in Nat \ {0}, NEW q \in Int,
           b * q <= a, a < b * q + b
    PROVE  a \div b = q
  <1> DEFINE p == a \div b
  <1>1. p \in Int /\ b * p \in Int /\ b * p <= a /\ a < b * p + b
    BY Floor
  <1> HIDE DEF p
  <1>2. b * q \in Int
    OBVIOUS
  <1>3. ~(p < q)
    BY <1>1, <1>2, MultiplesApart
  <1>4. ~(q < p)
    BY <1>1, <1>2, MultiplesApart
  <1>5. p = q
    BY <1>1, <1>3, <1>4
  <1>6. QED
    BY <1>5 DEF p

LEMMA FloorGrows ==
    ASSUME NEW a \in Int, NEW c \in Int, a <= c, NEW b \in Nat \ {0}
    PROVE  a \div b <= c \div b
  <1> DEFINE p == a \div b
             q == c \div b
  <1>1. /\ p \in Int /\ b * p \in Int /\ b * p <= a
        /\ q \in Int /\ b * q \in Int /\ c < b * q + b
    BY Floor
  <1> HIDE DEF p, q
  <1>2. ~(q < p)
    BY <1>1, MultiplesApart
  <1>3. p <= q
    BY <1>1, <1>2
  <1>4. QED
    BY <1>3 DEF p, q

(* No multiple of b lies strictly between two that follow each other. *)
LEMMA MultipleOrder ==
    ASSUME NEW b \in Nat \ {0}, NEW q \in Int, NEW p \in Int
    PROVE  /\ b * q \in Int /\ b * p \in Int
           /\ b * q < b * p => q < p
           /\ q < p => b * q + b <= b * p
           /\ b * q <= b * p => q <= p
           /\ q <= p => b * q <= b * p
           /\ b * (q + 1) = b * q + b
  <1>1. b * q \in Int /\ b * p \in Int /\ b * (q + 1) = b * q + b
    OBVIOUS
  <1>2. q < p => b * q + b <= b * p
    BY MultiplesApart
  <1>3. p < q => b * p + b <= b * q
    BY MultiplesApart
  <1>4. q = p => b * q = b * p
    OBVIOUS
  <1>5. QED
    BY <1>1, <1>2, <1>3, <1>4

LEMMA Multiple ==
    ASSUME NEW a \in Int, NEW b \in Nat \ {0}
    PROVE  /\ a % b = 0 => a = b * (a \div b)
           /\ \A q \in Int : a = b * q => a % b = 0 /\ a \div b = q
  <1>1. ASSUME a % b = 0 PROVE a = b * (a \div b)
    <2> DEFINE q == a \div b
               r == a % b
    <2>1. q = a \div b /\ r = a % b
      OBVIOUS
    <2> HIDE DEF q, r
    <2>2. a = b * q + r /\ q \in Int
      BY <2>1, SMT
    <2>3. b * q + 0 = b * q
      BY <2>2
    <2>4. QED
      BY <1>1, <2>1, <2>2, <2>3
  <1>2. ASSUME NEW q \in Int, a = b * q PROVE a % b = 0 /\ a \div b = q
    <2>1. b * q \in Int /\ b * q + 0 = b * q /\ b * q <= a /\ a < b * q + b /\ 0 \in 0 .. b - 1
      BY <1>2
    <2>2. QED
      BY <1>2, <2>1, FloorUnique, ModUnique
  <1>3. QED
    BY <1>1, <1>2

LEMMA MultipleOf ==
    ASSUME NEW b \in Nat \ {0}, NEW q \in Int
    PROVE  (b * q) % b = 0
  <1>1. b * q \in Int
    OBVIOUS
  <1>2. QED
    BY <1>1, Multiple

LEMMA DownUp ==
    ASSUME NEW a \in Int, NEW b \in Nat \ {0}
    PROVE  /\ Down(a, b) \in Int /\ Down(a, b) = b * (a \div b)
           /\ Down(a, b) <= a /\ a < Down(a, b) + b
           /\ Up(a, b) \in Int /\ Up(a, b) = b * ((a + b - 1) \div b)
           /\ a <= Up(a, b) /\ Up(a, b) < a + b
  <1> DEFINE c == a + b - 1
  <1>1. c \in Int /\ c = a + b - 1
    OBVIOUS
  <1> HIDE DEF c
  <1>2. /\ a \div b \in Int /\ b * (a \div b) \in Int
        /\ b * (a \div b) <= a /\ a < b * (a \div b) + b
    BY Floor
  <1>3. /\ c \div b \in Int /\ b * (c \div b) \in Int
        /\ b * (c \div b) <= c /\ c < b * (c \div b) + b
    BY <1>1, Floor
  <1>4. Down(a, b) = b * (a \div b) /\ Down(c, b) = b * (c \div b)
    BY <1>2, <1>3 DEF Down
  <1>5. Up(a, b) = Down(c, b)
    BY <1>1 DEF Up
  <1>6. Up(a, b) = b * ((a + b - 1) \div b)
    BY <1>1, <1>4, <1>5
  <1>7. QED
    BY <1>1, <1>2, <1>3, <1>4, <1>5, <1>6

-----------------------------------------------------------------------------
(* The chip: lines, sectors and blocks divide each other. *)
LEMMA ChipFacts ==
    /\ LineBytes \in Nat \ {0} /\ PageBytes \in Nat \ {0}
    /\ SectorBytes \in Nat \ {0} /\ BlockBytes \in Nat \ {0}
    /\ FlashBytes \in Nat /\ Protected \in Nat /\ Protected <= FlashBytes
    /\ FlashBytes \div LineBytes \in Int
    /\ FlashBytes = LineBytes * (FlashBytes \div LineBytes)
    /\ \E k \in Int : SectorBytes = LineBytes * k
    /\ \E k \in Int : BlockBytes = SectorBytes * k
    /\ HalfBlockBytes \in Nat \ {0}
    /\ \E k \in Int : HalfBlockBytes = SectorBytes * k
  <1>1. /\ LineBytes \in Nat \ {0} /\ PageBytes \in Nat \ {0}
        /\ SectorBytes \in Nat \ {0} /\ BlockBytes \in Nat \ {0}
        /\ FlashBytes \in Nat /\ Protected \in Nat /\ Protected <= FlashBytes
        /\ HalfBlockBytes \in Nat \ {0}
    BY PlatformFlashAssumption
  <1> DEFINE p == PageBytes \div LineBytes
             s == SectorBytes \div PageBytes
             b == BlockBytes \div SectorBytes
             h == HalfBlockBytes \div SectorBytes
             f == FlashBytes \div SectorBytes
  <1>2. /\ p \in Int /\ PageBytes = LineBytes * p
        /\ s \in Int /\ SectorBytes = PageBytes * s
        /\ b \in Int /\ BlockBytes = SectorBytes * b
        /\ h \in Int /\ HalfBlockBytes = SectorBytes * h
        /\ f \in Int /\ FlashBytes = SectorBytes * f
    BY <1>1, PlatformFlashAssumption, Multiple, Floor
  <1> HIDE DEF p, s, b, h, f
  <1>3. p * s \in Int /\ SectorBytes = LineBytes * (p * s)
    BY <1>1, <1>2
  <1>4. (p * s) * f \in Int /\ FlashBytes = LineBytes * ((p * s) * f)
    BY <1>1, <1>2, <1>3
  <1>5. FlashBytes \div LineBytes = (p * s) * f
    BY <1>1, <1>4, Multiple
  <1>6. QED
    BY <1>1, <1>2, <1>3, <1>4, <1>5

LEMMA Sizes ==
    /\ LineBytes \in Nat \ {0} /\ PageBytes \in Nat \ {0}
    /\ SectorBytes \in Nat \ {0} /\ BlockBytes \in Nat \ {0}
    /\ HalfBlockBytes \in Nat \ {0} /\ FlashBytes \in Nat
  BY PlatformFlashAssumption

SectorOf(l) == (LineBytes * l) \div SectorBytes

LEMMA LineFacts ==
    ASSUME NEW l \in Lines
    PROVE  /\ l \in Nat /\ LineBytes * l \in Nat
           /\ LineBytes * (l + 1) = LineBytes * l + LineBytes
           /\ LineBytes * l + LineBytes <= FlashBytes
           /\ SectorOf(l) \in Int /\ SectorBytes * SectorOf(l) \in Int
           /\ SectorBytes * SectorOf(l) <= LineBytes * l
           /\ LineBytes * l + LineBytes <= SectorBytes * SectorOf(l) + SectorBytes
  <1> DEFINE n == FlashBytes \div LineBytes
             s == SectorOf(l)
  <1>1. n \in Int /\ FlashBytes = LineBytes * n /\ LineBytes \in Nat \ {0} /\ SectorBytes \in Nat \ {0}
    BY ChipFacts
  <1>2. l \in Nat /\ l < n
    BY <1>1 DEF Lines
  <1> HIDE DEF n
  <1>3. /\ LineBytes * l \in Int /\ LineBytes * (l + 1) = LineBytes * l + LineBytes
        /\ LineBytes * l + LineBytes <= FlashBytes
        /\ LineBytes * 0 <= LineBytes * l
    BY <1>1, <1>2, MultipleOrder
  <1>4. LineBytes * 0 = 0
    BY <1>1
  <1>5. /\ s \in Int /\ SectorBytes * s \in Int
        /\ SectorBytes * s <= LineBytes * l /\ LineBytes * l < SectorBytes * s + SectorBytes
    BY <1>1, <1>3, Floor DEF SectorOf
  <1> HIDE DEF s
  <1>6. PICK k \in Int : SectorBytes = LineBytes * k
    BY ChipFacts
  <1>7. k * s + k \in Int /\ SectorBytes * s + SectorBytes = LineBytes * (k * s + k)
    BY <1>1, <1>5, <1>6
  <1>8. l < k * s + k
    BY <1>1, <1>2, <1>5, <1>7, MultipleOrder
  <1>9. LineBytes * l + LineBytes <= SectorBytes * s + SectorBytes
    BY <1>1, <1>2, <1>7, <1>8, MultipleOrder
  <1>10. QED
    BY <1>2, <1>3, <1>4, <1>5, <1>9 DEF s

(* The line an address is in, and the first one of a sector. *)
LEMMA LineOfAddress ==
    ASSUME NEW x \in Nat, x < FlashBytes
    PROVE  /\ x \div LineBytes \in Lines
           /\ LineBytes * (x \div LineBytes) <= x
           /\ x < LineBytes * (x \div LineBytes) + LineBytes
           /\ SectorOf(x \div LineBytes) = x \div SectorBytes
  <1> DEFINE n == FlashBytes \div LineBytes
             m == x \div LineBytes
             s == x \div SectorBytes
  <1>1. n \in Int /\ FlashBytes = LineBytes * n /\ LineBytes \in Nat \ {0} /\ SectorBytes \in Nat \ {0}
    BY ChipFacts
  <1>2. /\ m \in Int /\ LineBytes * m \in Int
        /\ LineBytes * m <= x /\ x < LineBytes * m + LineBytes
        /\ s \in Int /\ SectorBytes * s \in Int
        /\ SectorBytes * s <= x /\ x < SectorBytes * s + SectorBytes
    BY <1>1, Floor
  <1>3. m \in Lines
    <2> HIDE DEF n, m
    <2>1. m < n
      BY <1>1, <1>2, MultipleOrder
    <2>2. LineBytes * 0 < LineBytes * (m + 1) /\ LineBytes * (m + 1) = LineBytes * m + LineBytes
      BY <1>1, <1>2
    <2>3. 0 < m + 1
      BY <1>1, <1>2, <2>2, MultipleOrder
    <2>4. QED
      BY <1>1, <1>2, <2>1, <2>3 DEF Lines, n
  <1> HIDE DEF n, m, s
  <1>4. PICK k \in Int : SectorBytes = LineBytes * k
    BY ChipFacts
  <1>5. k * s \in Int /\ SectorBytes * s = LineBytes * (k * s)
    BY <1>1, <1>2, <1>4
  <1>6. k * s < m + 1
    <2>1. LineBytes * (k * s) < LineBytes * (m + 1)
      BY <1>1, <1>2, <1>5
    <2>2. QED
      BY <1>1, <1>2, <1>5, <2>1, MultipleOrder
  <1>7. SectorBytes * s <= LineBytes * m
    BY <1>1, <1>2, <1>5, <1>6, MultipleOrder
  <1>8. (LineBytes * m) \div SectorBytes = s
    BY <1>1, <1>2, <1>7, FloorUnique
  <1>9. QED
    BY <1>2, <1>3, <1>8 DEF m, s, SectorOf

(* The lines of the sectors a range touches are those of the sectors from  *)
(* the one src is in to the last that begins before the end.               *)
LEMMA TouchedLines ==
    ASSUME NEW src \in Nat, NEW len \in Nat, len > 0, src + len <= FlashBytes,
           NEW l \in Lines
    PROVE  l \in Sectors(src, len) <=>
              /\ src \div SectorBytes <= SectorOf(l)
              /\ SectorBytes * SectorOf(l) < src + len
  <1> DEFINE s == SectorOf(l)
             first == src \div SectorBytes
  <1>1. /\ LineBytes \in Nat \ {0} /\ SectorBytes \in Nat \ {0} /\ FlashBytes \in Nat
        /\ first \in Int /\ SectorBytes * first \in Int
        /\ SectorBytes * first <= src /\ src < SectorBytes * first + SectorBytes
    <2>1. src \in Int /\ SectorBytes \in Nat \ {0}
      BY Sizes
    <2>2. QED
      BY <2>1, Sizes, Floor
  <1>2. /\ l \in Nat /\ LineBytes * l \in Nat
        /\ s \in Int /\ SectorBytes * s \in Int
        /\ SectorBytes * s <= LineBytes * l
        /\ LineBytes * l + LineBytes <= SectorBytes * s + SectorBytes
    BY LineFacts
  <1>3. \A m \in Lines : m \in LinesOf(src, len)
           <=> LineBytes * m < src + len /\ src < LineBytes * m + LineBytes
    BY LineFacts DEF LinesOf
  <1>4. l \in Sectors(src, len) <=> \E m \in LinesOf(src, len) : SectorOf(m) = s
    BY DEF Sectors, Spread, Around, SectorOf
  <1> HIDE DEF s, first
  <1>5. ASSUME NEW m \in LinesOf(src, len), SectorOf(m) = s
        PROVE  first <= s /\ SectorBytes * s < src + len
    <2>1. m \in Lines
      BY DEF LinesOf
    <2>2. /\ LineBytes * m \in Nat
          /\ SectorBytes * s <= LineBytes * m
          /\ LineBytes * m + LineBytes <= SectorBytes * s + SectorBytes
      BY <1>5, <2>1, LineFacts
    <2>3. LineBytes * m < src + len /\ src < LineBytes * m + LineBytes
      BY <1>3, <2>1
    <2>4. SectorBytes * first < SectorBytes * (s + 1) /\ s + 1 \in Int
      BY <1>1, <1>2, <2>2, <2>3
    <2>5. first < s + 1
      BY <1>1, <2>4, MultipleOrder
    <2>6. QED
      BY <1>1, <1>2, <2>2, <2>3, <2>5
  <1>6. ASSUME first <= s, SectorBytes * s < src + len
        PROVE  \E m \in LinesOf(src, len) : SectorOf(m) = s
    <2>1. CASE first = s
      <3> DEFINE m == src \div LineBytes
      <3>1. src < FlashBytes
        BY <1>1
      <3>2. /\ m \in Lines /\ LineBytes * m <= src /\ src < LineBytes * m + LineBytes
            /\ SectorOf(m) = first
        BY <3>1, LineOfAddress DEF first
      <3> HIDE DEF m
      <3>3. LineBytes * m \in Nat
        BY <3>2, LineFacts
      <3>4. QED
        BY <1>3, <2>1, <3>2, <3>3
    <2>2. CASE first < s
      <3> DEFINE x == SectorBytes * s
                 m == x \div LineBytes
      <3>1. SectorBytes * first + SectorBytes <= SectorBytes * s
        BY <1>1, <1>2, <2>2, MultipleOrder
      <3>2. x \in Nat /\ x < FlashBytes /\ src < x /\ x < src + len
        BY <1>1, <1>2, <1>6, <3>1
      <3>3. x \div SectorBytes = s
        BY <1>1, <1>2, Multiple
      <3> HIDE DEF x
      <3>4. /\ m \in Lines /\ LineBytes * m <= x /\ x < LineBytes * m + LineBytes
            /\ SectorOf(m) = s
        BY <3>2, <3>3, LineOfAddress
      <3> HIDE DEF m
      <3>5. LineBytes * m \in Nat
        BY <3>4, LineFacts
      <3>6. QED
        BY <1>1, <1>3, <3>2, <3>4, <3>5
    <2>3. QED
      BY <1>1, <1>2, <1>6, <2>1, <2>2
  <1>7. QED
    BY <1>4, <1>5, <1>6 DEF s, first

(* A line inside the range is among them. *)
LEMMA InsideTouched ==
    ASSUME NEW src \in Nat, NEW len \in Nat, len > 0, src + len <= FlashBytes,
           NEW l \in Lines, src < LineBytes * l + LineBytes, LineBytes * l < src + len
    PROVE  l \in Sectors(src, len)
  <1>1. l \in LinesOf(src, len)
    BY LineFacts DEF LinesOf
  <1>2. l \in Around(LineBytes * l, SectorBytes)
    BY DEF Around
  <1>3. QED
    BY <1>1, <1>2 DEF Sectors, Spread

(* The whole chip touches every line. *)
LEMMA ChipTouched ==
    ASSUME NEW l \in Lines
    PROVE  FlashBytes > 0 /\ l \in Sectors(0, FlashBytes)
  <1>1. FlashBytes > 0 /\ 0 < LineBytes * l + LineBytes /\ LineBytes * l < 0 + FlashBytes
    BY LineFacts, Sizes
  <1>2. QED
    BY <1>1, Sizes, InsideTouched

-----------------------------------------------------------------------------
(* One iteration of the walk, on the platforms whose own loop it is.       *)

Aligns == platform = "RDA5981"

(* The sectors of the range up to cur have had their turn: cur is at the   *)
(* boundary of a sector, and of a block where the RDA5981 erases blocks.   *)
AtBoundary(src, len, cur) ==
    /\ cur % SectorBytes = 0
    /\ (/\ platform = "RDA5981"
        /\ Up(src, BlockBytes) <= cur /\ cur <= Down(src + len, BlockBytes))
          => cur % BlockBytes = 0

(* The walk of the LN882H and LN8825 is whole sectors from its start, and  *)
(* where it erases blocks whole blocks from the first of them.             *)
InStride(src, len, cur) ==
    /\ \E k \in Int : cur = src + SectorBytes * k
    /\ BlocksFrom(src, len) <= cur /\ cur < BlocksEnd(src, len) =>
          \E k \in Int : cur = BlocksFrom(src, len) + HalfBlockBytes * k

(* What an erase can reach: the sectors of its range, but for the long     *)
(* ranges of those two that start inside a sector.                         *)
Overreaches(src, len) ==
    /\ platform \in Lightning
    /\ ~(Aligns \/ src % SectorBytes = 0)
    /\ len >= HalfBlockBytes
ReachOf(src, len) ==
    IF Overreaches(src, len) THEN Spread(src, len, HalfBlockBytes)
    ELSE Sectors(src, len)

LEMMA EraseSizes ==
    ASSUME NEW src, NEW len, NEW cur
    PROVE  EraseSize(src, len, cur) \in {SectorBytes, HalfBlockBytes, BlockBytes}
  BY DEF EraseSize

LEMMA WhichSize ==
    ASSUME NEW src, NEW len, NEW cur
    PROVE  \/ EraseSize(src, len, cur) = SectorBytes /\ ~InBlocks(src, len, cur)
           \/ /\ EraseSize(src, len, cur) = BlockBytes
              /\ InBlocks(src, len, cur) /\ platform \notin Lightning
           \/ /\ EraseSize(src, len, cur) = HalfBlockBytes
              /\ InBlocks(src, len, cur) /\ platform \in Lightning
  BY DEF EraseSize

(* When there is more than a sector to erase, by the platform.             *)
LEMMA WhichBlocks ==
    ASSUME NEW src, NEW len, NEW cur
    PROVE  /\ platform = "RDA5981" =>
                (InBlocks(src, len, cur) <=>
                   Up(src, BlockBytes) <= cur /\ cur < Down(src + len, BlockBytes))
           /\ platform \in Lightning =>
                (InBlocks(src, len, cur) <=>
                   BlocksFrom(src, len) <= cur /\ cur < BlocksEnd(src, len))
           /\ platform # "RDA5981" /\ platform \notin Lightning /\ InBlocks(src, len, cur)
                => cur % BlockBytes = 0 /\ src + len - cur >= BlockBytes
  <1>1. "RDA5981" \notin Lightning /\ "OPL1000A2" \notin Lightning
    BY DEF Lightning
  <1>2. CASE platform = "RDA5981"
    BY <1>1, <1>2 DEF InBlocks
  <1>3. CASE platform \in Lightning
    BY <1>1, <1>3 DEF InBlocks
  <1>4. CASE platform = "OPL1000A2"
    BY <1>1, <1>4 DEF InBlocks
  <1>5. CASE platform # "RDA5981" /\ platform \notin Lightning /\ platform # "OPL1000A2"
    BY <1>5 DEF InBlocks
  <1>6. QED
    BY <1>2, <1>3, <1>4, <1>5

LEMMA WalkEnds ==
    ASSUME NEW src, NEW len
    PROVE  /\ len = 0 => WalkEnd(src, len) = WalkStart(src)
           /\ len # 0 /\ platform = "RDA5981" => WalkEnd(src, len) = Up(src + len, SectorBytes)
           /\ len # 0 /\ platform \in Lightning =>
                WalkEnd(src, len) = LightningEnd(src, len) /\ platform # "RDA5981"
           /\ len # 0 /\ platform # "RDA5981" /\ platform \notin Lightning =>
                WalkEnd(src, len) = src + len
  <1>1. "RDA5981" \notin Lightning
    BY DEF Lightning
  <1>2. QED
    BY <1>1 DEF WalkEnd

LEMMA DownMod ==
    ASSUME NEW a \in Int, NEW b \in Nat \ {0}
    PROVE  /\ a % b \in 0 .. b - 1
           /\ Down(a, b) + (a % b) = a
           /\ a \div b \in Int /\ Down(a, b) = b * (a \div b)
           /\ (\E k \in Int : a = b * k) => Down(a, b) = a
           /\ a % b = 0 => \E k \in Int : a = b * k
  <1> DEFINE q == a \div b
             m == a % b
  <1>1. q = a \div b /\ m = a % b
    OBVIOUS
  <1>2. q \in Int
    BY Floor
  <1>3. Down(a, b) = b * q
    BY DownUp
  <1> HIDE DEF q, m
  <1>4. a = b * q + m /\ m \in 0 .. b - 1
    BY <1>1, SMT
  <1>5. ASSUME NEW k \in Int, a = b * k PROVE q = k
    BY <1>1, <1>5, Multiple
  <1>6. m = 0 => a = b * q
    BY <1>2, <1>4
  <1>7. b * q + m = a
    BY <1>4
  <1>8. QED
    BY <1>1, <1>2, <1>3, <1>4, <1>5, <1>6, <1>7

(* The parts of the walk of the LN882H and LN8825.                         *)
LEMMA LightningFacts ==
    ASSUME NEW src \in Nat, NEW len \in Nat
    PROVE  /\ BlocksFrom(src, len) \in Nat /\ BlocksEnd(src, len) \in Nat
           /\ LightningEnd(src, len) \in Nat
           /\ src <= BlocksFrom(src, len)
           /\ BlocksEnd(src, len) <= src + len
           /\ LightningEnd(src, len) < src + len + SectorBytes
           /\ \E k \in Int : BlocksFrom(src, len) = src + SectorBytes * k
           /\ \E k \in Int : BlocksEnd(src, len) = BlocksFrom(src, len) + HalfBlockBytes * k
           /\ \E k \in Int : LightningEnd(src, len) = BlocksEnd(src, len) + SectorBytes * k
           /\ BlocksFrom(src, len) < BlocksEnd(src, len) => len >= HalfBlockBytes
           /\ src % SectorBytes = 0 =>
                /\ src + len <= LightningEnd(src, len)
                /\ len >= HalfBlockBytes =>
                      \E k \in Int : BlocksFrom(src, len) = HalfBlockBytes * k
  <1> DEFINE S == SectorBytes
             H == HalfBlockBytes
             t == Tailing(src)
             rest == Remainder(src, len)
             from == BlocksFrom(src, len)
             to == BlocksEnd(src, len)
             m == rest % H
  <1>1. S \in Nat \ {0} /\ H \in Nat \ {0} /\ src \in Int /\ len \in Int
    BY Sizes
  <1>2. PICK h \in Int : H = S * h
    BY ChipFacts
  <1>3. PICK q \in Int : q = src \div H /\ Down(src, H) = H * q
    BY <1>1, DownMod, ZenonT(30)
  <1>4. /\ t \in Int /\ 0 < t /\ t <= H /\ src + t = H * (q + 1)
        /\ H * (q + 1) \in Int
    <2>1. Down(src, H) \in Int /\ Down(src, H) <= src /\ src < Down(src, H) + H
      BY <1>1, DownUp
    <2>2. t = Down(src, H) + H - src
      BY DEF Tailing
    <2> HIDE DEF t
    <2>3. t \in Int /\ 0 < t /\ t <= H /\ src + t = Down(src, H) + H
      BY <1>1, <2>1, <2>2
    <2>4. H * (q + 1) = H * q + H
      BY <1>1
    <2>5. QED
      BY <1>1, <1>3, <2>1, <2>3, <2>4
  <1> HIDE DEF t
  <1>5. PICK i \in Int : i = t \div S /\ Down(t, S) = S * i
    <2>1. t \div S \in Int /\ Down(t, S) = S * (t \div S)
      BY <1>1, <1>4, DownMod
    <2>2. QED
      BY <2>1
  <1>6. Down(t, S) \in Int /\ 0 <= Down(t, S) /\ Down(t, S) <= t
    <2>1. Down(t, S) \in Int /\ Down(t, S) <= t /\ t < Down(t, S) + S
      BY <1>1, <1>4, DownUp
    <2>2. S * 0 < S * (i + 1) /\ S * (i + 1) = Down(t, S) + S
      BY <1>1, <1>4, <1>5, <2>1
    <2>3. 0 < i + 1
      BY <1>1, <2>2, MultipleOrder
    <2>4. S * 0 <= S * i
      BY <1>1, <2>3, MultipleOrder
    <2>5. QED
      BY <1>1, <1>5, <2>1, <2>4
  <1>7. CASE len < H
    <2>1. rest = len /\ from = src
      BY <1>1, <1>7 DEF Remainder, BlocksFrom
    <2>2. Down(rest, H) = 0 /\ m = len
      <3>1. len = H * 0 + len /\ len \in 0 .. H - 1 /\ len \div H = 0
        BY <1>1, <1>7, FloorUnique
      <3>2. len % H = len
        BY <1>1, <3>1, ModSmall
      <3>3. Down(len, H) = H * 0
        BY <1>1, <3>1, DownMod
      <3>4. QED
        BY <1>1, <2>1, <3>2, <3>3
    <2>3. to = src
      BY <2>1, <2>2 DEF BlocksEnd
    <2>4. PICK k \in Int : LightningEnd(src, len) = to + S * k /\ S * k = Up(len, S)
      <3>1. (len + S - 1) \div S \in Int
        BY <1>1, Floor
      <3>2. Up(len, S) = S * ((len + S - 1) \div S)
        BY <1>1, DownUp
      <3>3. LightningEnd(src, len) = to + Up(m, S)
        BY DEF LightningEnd
      <3>4. QED
        BY <2>2, <3>1, <3>2, <3>3
    <2>5. Up(len, S) \in Int /\ len <= Up(len, S) /\ Up(len, S) < len + S
      BY <1>1, DownUp
    <2> HIDE DEF from, to, rest, m
    <2>6. LightningEnd(src, len) \in Nat /\ LightningEnd(src, len) < src + len + S
          /\ src + len <= LightningEnd(src, len)
      BY <1>1, <2>3, <2>4, <2>5
    <2>7. from = src + S * 0 /\ to = from + H * 0
      BY <1>1, <2>1, <2>3
    <2>8. QED
      BY <1>1, <1>7, <2>1, <2>3, <2>4, <2>6, <2>7 DEF from, to
  <1>8. CASE len >= H
    <2>1. rest = len - t /\ from = src + Down(t, S)
      BY <1>1, <1>8 DEF Remainder, BlocksFrom, t
    <2>2. rest \in Int /\ 0 <= rest
      BY <1>1, <1>4, <1>8, <2>1
    <2>3. to = from + Down(rest, H) /\ LightningEnd(src, len) = to + Up(m, S)
      BY DEF BlocksEnd, LightningEnd
    <2> HIDE DEF rest, from, to
    <2>4. PICK j \in Int : Down(rest, H) = H * j
      <3>1. rest \in Int /\ H \in Nat \ {0}
        BY <1>1, <2>2
      <3>2. rest \div H \in Int /\ Down(rest, H) = H * (rest \div H)
        BY <3>1, DownMod, ZenonT(30)
      <3>3. QED
        BY <3>2
    <2>5. m \in 0 .. H - 1 /\ Down(rest, H) + m = rest /\ Down(rest, H) \in Int
      BY <1>1, <2>2, DownMod, DownUp
    <2> HIDE DEF m
    <2>6. PICK k \in Int : Up(m, S) = S * k
      <3>1. m \in Int /\ (m + S - 1) \div S \in Int
        BY <1>1, <2>5, Floor
      <3>2. QED
        BY <1>1, <3>1, DownUp
    <2>7. Up(m, S) \in Int /\ m <= Up(m, S) /\ Up(m, S) < m + S
      <3>1. m \in Int
        BY <1>1, <2>5
      <3>2. QED
        BY <1>1, <3>1, DownUp
    <2>8. 0 <= Down(rest, H)
      <3>1. H * 0 < H * (j + 1) /\ H * (j + 1) = Down(rest, H) + H
        BY <1>1, <2>2, <2>4, <2>5
      <3>2. 0 < j + 1
        BY <1>1, <3>1, MultipleOrder
      <3>3. H * 0 <= H * j
        BY <1>1, <3>2, MultipleOrder
      <3>4. QED
        BY <1>1, <2>4, <3>3
    <2>9. /\ from \in Nat /\ src <= from /\ to \in Nat /\ to <= src + len
          /\ LightningEnd(src, len) \in Nat
          /\ LightningEnd(src, len) < src + len + S
      BY <1>1, <1>4, <1>6, <2>1, <2>2, <2>3, <2>5, <2>7, <2>8
    <2>10. from = src + S * i /\ to = from + H * j /\ LightningEnd(src, len) = to + S * k
      BY <1>5, <2>1, <2>3, <2>4, <2>6
    <2>11. ASSUME src % S = 0
           PROVE  from = H * (q + 1) /\ src + len <= LightningEnd(src, len)
      <3>1. PICK p \in Int : src = S * p
        BY <1>1, <2>11, DownMod
      <3>2. h * (q + 1) - p \in Int /\ t = S * (h * (q + 1) - p)
        <4>1. H * (q + 1) = S * (h * (q + 1)) /\ h * (q + 1) \in Int
          BY <1>1, <1>2
        <4>2. S * (h * (q + 1) - p) = S * (h * (q + 1)) - S * p
          BY <1>1, <4>1
        <4>3. S * p \in Int /\ S * (h * (q + 1)) \in Int
          BY <1>1, <4>1
        <4>4. QED
          BY <1>1, <1>4, <3>1, <4>1, <4>2, <4>3
      <3>3. Down(t, S) = t
        BY <1>1, <1>4, <3>2, DownMod
      <3>4. QED
        BY <1>1, <1>4, <2>1, <2>2, <2>3, <2>5, <2>7, <2>9, <3>3
    <2>12. q + 1 \in Int
      OBVIOUS
    <2>13. /\ \E x \in Int : from = src + SectorBytes * x
           /\ \E x \in Int : to = from + HalfBlockBytes * x
           /\ \E x \in Int : LightningEnd(src, len) = to + SectorBytes * x
           /\ src % S = 0 => \E x \in Int : from = HalfBlockBytes * x
      BY <2>10, <2>11, <2>12
    <2>14. QED
      BY <1>8, <2>9, <2>11, <2>13 DEF from, to
  <1>9. QED
    BY <1>1, <1>7, <1>8

LEMMA WalkStartsWell ==
    ASSUME NEW src \in Nat, NEW len \in Nat
    PROVE  /\ WalkStart(src) \in Nat
           /\ Down(src, SectorBytes) <= WalkStart(src) /\ WalkStart(src) <= src
           /\ (platform = "RDA5981" \/ src % SectorBytes = 0) =>
                /\ AtBoundary(src, len, WalkStart(src))
                /\ WalkStart(src) = Down(src, SectorBytes)
  <1> DEFINE first == src \div SectorBytes
             d == Down(src, SectorBytes)
             u == Up(src, BlockBytes)
  <1>1. /\ SectorBytes \in Nat \ {0} /\ BlockBytes \in Nat \ {0}
        /\ first \in Int /\ d \in Int /\ d = SectorBytes * first /\ d <= src /\ src < d + SectorBytes
    <2>1. src \in Int /\ SectorBytes \in Nat \ {0}
      BY Sizes
    <2>2. first \in Int
      BY <2>1, Floor
    <2>3. QED
      BY <2>1, <2>2, Sizes, DownUp
  <1>2. d \in Nat
    <2>1. SectorBytes * 0 < SectorBytes * (first + 1) /\ SectorBytes * (first + 1) = d + SectorBytes
      BY <1>1
    <2>2. 0 < first + 1
      BY <1>1, <2>1, MultipleOrder
    <2>3. SectorBytes * 0 <= SectorBytes * first
      BY <1>1, <2>2, MultipleOrder
    <2>4. QED
      BY <1>1, <2>3
  <1>3. d % SectorBytes = 0
    BY <1>1, Multiple
  <1>4. src % SectorBytes = 0 => d = src
    BY <1>1, Multiple
  <1>5. u \in Int /\ src <= u /\ (src + BlockBytes - 1) \div BlockBytes \in Int
        /\ u = BlockBytes * ((src + BlockBytes - 1) \div BlockBytes)
    <2>1. src \in Int /\ BlockBytes \in Nat \ {0} /\ src + BlockBytes - 1 \in Int
      BY Sizes
    <2>2. (src + BlockBytes - 1) \div BlockBytes \in Int
      BY <2>1, Floor
    <2>3. QED
      BY <2>1, <2>2, DownUp
  <1>6. u <= d => d % BlockBytes = 0
    <2> HAVE u <= d
    <2>1. d = u
      BY <1>1, <1>5
    <2>2. QED
      BY <1>1, <1>5, <2>1, Multiple
  <1> HIDE DEF d, u, first
  <1>7. CASE platform = "RDA5981"
    <2>1. WalkStart(src) = d
      BY <1>7 DEF WalkStart, d
    <2>2. AtBoundary(src, len, d)
      BY <1>3, <1>6 DEF AtBoundary, u
    <2>3. d = Down(src, SectorBytes)
      BY DEF d
    <2>4. QED
      BY <1>1, <1>2, <2>1, <2>2, <2>3
  <1>8. CASE platform # "RDA5981"
    <2>1. WalkStart(src) = src
      BY <1>8 DEF WalkStart
    <2>2. src % SectorBytes = 0 => AtBoundary(src, len, src)
      BY <1>8 DEF AtBoundary
    <2>3. d = Down(src, SectorBytes)
      BY DEF d
    <2>4. QED
      BY <1>1, <1>4, <1>8, <2>1, <2>2, <2>3
  <1>9. QED
    BY <1>7, <1>8

(* Lines of one sector are in one of the larger blocks.                    *)
LEMMA SameHalf ==
    ASSUME NEW l \in Lines, NEW m \in Lines, SectorOf(l) = SectorOf(m)
    PROVE  (LineBytes * l) \div HalfBlockBytes = (LineBytes * m) \div HalfBlockBytes
  <1> DEFINE S == SectorBytes
             H == HalfBlockBytes
             s == SectorOf(l)
             c == (S * s) \div H
  <1>1. S \in Nat \ {0} /\ H \in Nat \ {0}
    BY Sizes
  <1>2. PICK h \in Int : H = S * h
    BY ChipFacts
  <1>3. s \in Int /\ S * s \in Int
    BY LineFacts
  <1>4. c \in Int /\ H * c \in Int /\ H * c <= S * s /\ S * s < H * c + H
    BY <1>1, <1>3, Floor
  <1> HIDE DEF s, c
  <1>5. h * c + h \in Int /\ S * (h * c + h) = H * c + H
    BY <1>1, <1>2, <1>4
  <1>6. S * s + S <= H * c + H
    <2>1. S * s < S * (h * c + h)
      BY <1>3, <1>4, <1>5
    <2>2. S * s + S <= S * (h * c + h)
      BY <1>1, <1>3, <1>5, <2>1, MultipleOrder
    <2>3. QED
      BY <1>5, <2>2
  <1>7. ASSUME NEW x \in Lines, SectorOf(x) = s PROVE (LineBytes * x) \div H = c
    <2>1. /\ LineBytes * x \in Nat /\ LineBytes \in Nat \ {0}
          /\ S * s <= LineBytes * x /\ LineBytes * x + LineBytes <= S * s + S
      BY <1>7, LineFacts, Sizes
    <2>2. H * c <= LineBytes * x /\ LineBytes * x < H * c + H
      BY <1>1, <1>3, <1>4, <1>6, <2>1
    <2>3. QED
      BY <1>1, <1>4, <2>1, <2>2, FloorUnique
  <1>8. QED
    BY <1>7 DEF s

LEMMA SectorsSpread ==
    ASSUME NEW src, NEW len
    PROVE  Sectors(src, len) \subseteq Spread(src, len, HalfBlockBytes)
  <1> SUFFICES ASSUME NEW l \in Sectors(src, len)
               PROVE  l \in Spread(src, len, HalfBlockBytes)
    OBVIOUS
  <1>1. PICK m \in LinesOf(src, len) : l \in Lines /\ SectorOf(l) = SectorOf(m)
    BY DEF Sectors, Spread, Around, SectorOf
  <1>2. m \in Lines
    BY DEF LinesOf
  <1>3. l \in Around(LineBytes * m, HalfBlockBytes)
    BY <1>1, <1>2, SameHalf DEF Around
  <1>4. QED
    BY <1>3 DEF Spread

(* Where a walk ends, and that it has not come to the end of its range.    *)
LEMMA WalkInside ==
    ASSUME NEW src \in Nat, NEW len \in Nat, NEW cur \in Nat,
           WalkStart(src) <= cur, cur < WalkEnd(src, len),
           platform \in Lightning => InStride(src, len, cur)
    PROVE  platform \in Lightning => src <= cur /\ cur < src + len
  <1> SUFFICES ASSUME platform \in Lightning PROVE src <= cur /\ cur < src + len
    OBVIOUS
  <1> DEFINE S == SectorBytes
             end == LightningEnd(src, len)
             from == BlocksFrom(src, len)
             to == BlocksEnd(src, len)
  <1>1. platform # "RDA5981" /\ WalkStart(src) = src
    BY DEF Lightning, WalkStart
  <1>2. len # 0 /\ cur < end
    BY <1>1, WalkEnds
  <1>3. S \in Nat \ {0} /\ end \in Nat /\ end < src + len + S
    BY Sizes, LightningFacts
  <1>4. PICK n \in Int : end = src + S * n
    <2>1. PICK h \in Int : HalfBlockBytes = S * h
      BY ChipFacts
    <2>2. PICK i \in Int : from = src + S * i
      BY LightningFacts
    <2>3. PICK j \in Int : to = from + HalfBlockBytes * j
      BY LightningFacts
    <2>4. PICK k \in Int : end = to + S * k
      BY LightningFacts
    <2> HIDE DEF from, to, end
    <2>5. /\ HalfBlockBytes * j = S * (h * j) /\ h * j \in Int
          /\ S * i + S * (h * j) + S * k = S * (i + h * j + k) /\ i + h * j + k \in Int
      BY <1>3, <2>1
    <2>6. S * i \in Int /\ S * (h * j) \in Int /\ S * k \in Int
      BY <1>3, <2>5
    <2>7. end = src + S * (i + h * j + k)
      BY <2>2, <2>3, <2>4, <2>5, <2>6
    <2>8. QED
      BY <2>5, <2>7
  <1>5. PICK m \in Int : cur = src + S * m
    BY DEF InStride
  <1> HIDE DEF end
  <1>6. S * m + S <= S * n /\ S * m \in Int /\ S * n \in Int
    <2>1. S * m \in Int /\ S * n \in Int
      BY <1>3
    <2>2. S * m < S * n
      BY <1>2, <1>3, <1>4, <1>5, <2>1
    <2>3. QED
      BY <1>3, <2>1, <2>2, MultipleOrder
  <1>7. QED
    BY <1>1, <1>3, <1>4, <1>5, <1>6

(* What an iteration erases is within its reach.                           *)
LEMMA WalkErasesTouched ==
    ASSUME NEW src \in Nat, NEW len \in Nat, src + len <= FlashBytes,
           NEW cur \in Nat, WalkStart(src) <= cur, cur < WalkEnd(src, len),
           platform \in Lightning => InStride(src, len, cur),
           NEW l \in Around(cur, EraseSize(src, len, cur))
    PROVE  len > 0 /\ l \in ReachOf(src, len)
  <1> DEFINE S == SectorBytes
             B == BlockBytes
             H == HalfBlockBytes
             end == src + len
             a == LineBytes * l
  <1>1. /\ S \in Nat \ {0} /\ B \in Nat \ {0} /\ H \in Nat \ {0}
        /\ end \in Int /\ src \in Int /\ cur \in Int
    BY Sizes
  <1>2. len > 0
    <2>1. len # 0
      BY WalkStartsWell, WalkEnds
    <2>2. QED
      BY <2>1
  <1>3. l \in Lines /\ a \in Nat
    BY LineFacts DEF Around
  <1>4. ASSUME EraseSize(src, len, cur) = S PROVE l \in Sectors(src, len)
    <2>1. SectorOf(l) = cur \div S
      BY <1>4 DEF Around, SectorOf
    <2>2. /\ cur \div S \in Int /\ S * (cur \div S) \in Int /\ S * (cur \div S) <= cur
          /\ cur < S * (cur \div S) + S
      BY <1>1, Floor
    <2>3. src \div S <= cur \div S
      <3> DEFINE d == Down(src, S)
      <3>1. d <= cur /\ d \in Int /\ d = S * (src \div S) /\ src \div S \in Int
        <4>1. src \div S \in Int
          BY <1>1, Floor
        <4>2. d \in Int /\ d = S * (src \div S)
          BY <1>1, DownUp
        <4>3. d <= WalkStart(src) /\ WalkStart(src) \in Nat
          BY WalkStartsWell
        <4>4. QED
          BY <1>1, <4>1, <4>2, <4>3
      <3>2. d \div S = src \div S
        BY <1>1, <3>1, Multiple
      <3>3. d \div S <= cur \div S
        BY <1>1, <3>1, FloorGrows
      <3>4. QED
        BY <3>2, <3>3
    <2>4. S * (cur \div S) < end
      <3>1. CASE platform # "RDA5981"
        <4>1. cur < end
          BY <1>2, <3>1, WalkEnds, WalkInside
        <4>2. QED
          BY <1>1, <2>2, <4>1
      <3>2. CASE platform = "RDA5981"
        <4> DEFINE u == (end + S - 1) \div S
        <4>1. cur < Up(end, S)
          BY <1>2, <3>2, WalkEnds
        <4>2. Up(end, S) \in Int /\ Up(end, S) = S * u /\ Up(end, S) < end + S
          BY <1>1, DownUp
        <4>3. u \in Int
          <5>1. end + S - 1 \in Int
            BY <1>1
          <5>2. QED
            BY <1>1, <5>1, Floor
        <4> HIDE DEF u
        <4>4. S * (cur \div S) < S * u
          BY <1>1, <2>2, <4>1, <4>2
        <4>5. S * (cur \div S) + S <= S * u
          BY <1>1, <2>2, <4>3, <4>4, MultipleOrder
        <4>6. QED
          BY <1>1, <2>2, <4>2, <4>5
      <3>3. QED
        BY <3>1, <3>2
    <2>5. QED
      BY <1>2, <1>3, <2>1, <2>3, <2>4, TouchedLines
  <1>5. ASSUME EraseSize(src, len, cur) = B, InBlocks(src, len, cur),
               platform \notin Lightning
        PROVE  l \in Sectors(src, len)
    <2> DEFINE c == cur \div B
    <2>1. /\ c \in Int /\ B * c \in Int /\ B * c <= cur /\ cur < B * c + B
      BY <1>1, Floor
    <2>2. B * c <= a /\ a < B * c + B
      <3>1. a \div B = c
        BY <1>5 DEF Around
      <3>2. a \in Int
        BY <1>3
      <3>3. /\ B * (a \div B) <= a /\ a < B * (a \div B) + B
        BY <1>1, <3>2, Floor
      <3>4. QED
        BY <3>1, <3>3
    <2>3. src <= B * c /\ B * c + B <= end
      <3>1. CASE platform # "RDA5981"
        <4>1. cur % B = 0 /\ end - cur >= B
          BY <1>5, <3>1, WhichBlocks
        <4>2. cur = B * c
          BY <1>1, <4>1, Multiple
        <4>3. src <= cur
          BY <3>1 DEF WalkStart
        <4>4. QED
          BY <1>1, <4>1, <4>2, <4>3
      <3>2. CASE platform = "RDA5981"
        <4> DEFINE u == (src + B - 1) \div B
                   d == end \div B
        <4>1. Up(src, B) <= cur /\ cur < Down(end, B)
          BY <1>5, <3>2, WhichBlocks
        <4>2. src + B - 1 \in Int
          BY <1>1
        <4>3. u \in Int /\ d \in Int
          BY <1>1, <4>2, Floor
        <4>4. /\ Up(src, B) = B * u /\ src <= Up(src, B)
              /\ Down(end, B) = B * d /\ Down(end, B) <= end
          BY <1>1, DownUp
        <4> HIDE DEF u, d, c
        <4>5. B * u \in Int /\ B * d \in Int /\ B * u < B * (c + 1) /\ B * c < B * d
          BY <1>1, <2>1, <4>1, <4>3, <4>4
        <4>6. u < c + 1 /\ c < d
          BY <1>1, <2>1, <4>3, <4>5, MultipleOrder
        <4>7. B * u <= B * c /\ B * c + B <= B * d
          BY <1>1, <2>1, <4>3, <4>6, MultipleOrder
        <4>8. QED
          BY <1>1, <2>1, <4>4, <4>5, <4>7
      <3>3. QED
        BY <3>1, <3>2
    <2>4. src < a + LineBytes /\ a < end
      BY <1>1, <1>3, <2>1, <2>2, <2>3, Sizes
    <2>5. QED
      BY <1>2, <1>3, <2>4, InsideTouched
  <1>6. ASSUME EraseSize(src, len, cur) = H, InBlocks(src, len, cur), platform \in Lightning
        PROVE  l \in ReachOf(src, len)
    <2> DEFINE from == BlocksFrom(src, len)
               to == BlocksEnd(src, len)
    <2>1. /\ from <= cur /\ cur < to /\ from \in Nat /\ to \in Nat /\ to <= end
          /\ src <= from /\ len >= H
      <3>1. from <= cur /\ cur < to
        BY <1>6, WhichBlocks
      <3>2. /\ from \in Nat /\ to \in Nat /\ to <= end /\ src <= from
            /\ from < to => len >= H
        BY LightningFacts
      <3>3. QED
        BY <1>1, <3>1, <3>2
    <2>2. a \div H = cur \div H
      BY <1>6 DEF Around
    <2>3. CASE src % S = 0
      <3>1. PICK k \in Int : cur = from + H * k
        BY <1>6, <2>1 DEF InStride
      <3>2. PICK j \in Int : to = from + H * j
        BY LightningFacts
      <3>3. PICK i \in Int : from = H * i
        BY <2>1, <2>3, LightningFacts
      <3> HIDE DEF from, to
      <3>4. H * k < H * j /\ H * k \in Int /\ H * j \in Int
        BY <1>1, <2>1, <3>1, <3>2
      <3>5. H * k + H <= H * j
        BY <1>1, <3>4, MultipleOrder
      <3>6. cur + H <= end
        BY <1>1, <2>1, <3>1, <3>2, <3>4, <3>5
      <3>7. cur = H * (i + k) /\ i + k \in Int
        BY <1>1, <3>1, <3>3
      <3>8. cur \div H = i + k
        BY <1>1, <3>7, Multiple
      <3>9. a \in Int /\ H * (a \div H) <= a /\ a < H * (a \div H) + H
        <4>1. a \in Int
          BY <1>3
        <4> HIDE DEF a
        <4>2. QED
          BY <1>1, <4>1, Floor
      <3>10. cur <= a /\ a < cur + H
        BY <2>2, <3>7, <3>8, <3>9
      <3>11. src < a + LineBytes /\ a < end
        BY <1>1, <1>3, <2>1, <3>6, <3>10, Sizes
      <3>12. QED
        BY <1>2, <1>3, <2>3, <3>11, InsideTouched DEF ReachOf, Overreaches
    <2>4. CASE src % S # 0
      <3> DEFINE m == cur \div LineBytes
      <3>1. cur < FlashBytes /\ src <= cur /\ cur < end
        BY <1>1, <2>1, Sizes
      <3>2. m \in Lines /\ LineBytes * m <= cur /\ cur < LineBytes * m + LineBytes
        BY <3>1, LineOfAddress
      <3>3. m \in LinesOf(src, len)
        <4> HIDE DEF m
        <4>1. LineBytes * m \in Nat /\ LineBytes * (m + 1) = LineBytes * m + LineBytes
          BY <3>2, LineFacts
        <4>2. LineBytes * m < end /\ src < LineBytes * (m + 1)
          BY <1>1, <3>1, <3>2, <4>1, Sizes
        <4>3. QED
          BY <3>2, <4>2 DEF LinesOf
      <3>4. (LineBytes * m) \div H = cur \div H
        <4>1. PICK k \in Int : H = LineBytes * k
          <5>1. PICK x \in Int : S = LineBytes * x
            BY ChipFacts
          <5>2. PICK y \in Int : H = S * y
            BY ChipFacts
          <5>3. H = LineBytes * (x * y) /\ x * y \in Int
            BY <1>1, <5>1, <5>2, Sizes
          <5>4. QED
            BY <5>3
        <4> DEFINE c == cur \div H
        <4>2. c \in Int /\ H * c \in Int /\ H * c <= cur /\ cur < H * c + H
          BY <1>1, Floor
        <4> HIDE DEF c, m
        <4>3. LineBytes \in Nat \ {0} /\ k * c \in Int /\ H * c = LineBytes * (k * c)
          BY <4>1, <4>2, Sizes
        <4>4. m \in Int /\ LineBytes * m \in Nat
          BY <3>2, LineFacts
        <4>5. k * c < m + 1
          <5>1. LineBytes * (k * c) < LineBytes * (m + 1)
            BY <1>1, <3>2, <4>2, <4>3, <4>4
          <5>2. m + 1 \in Int
            BY <4>4
          <5>3. QED
            BY <4>3, <5>1, <5>2, MultipleOrder
        <4>6. LineBytes * (k * c) <= LineBytes * m
          BY <4>3, <4>4, <4>5, MultipleOrder
        <4>7. H * c <= LineBytes * m /\ LineBytes * m < H * c + H
          BY <1>1, <3>2, <4>2, <4>3, <4>4, <4>6
        <4>8. (LineBytes * m) \div H = c
          BY <1>1, <4>2, <4>4, <4>7, FloorUnique
        <4>9. QED
          BY <4>8 DEF c
      <3>5. l \in Around(LineBytes * m, H)
        BY <1>3, <2>2, <3>4 DEF Around
      <3>6. l \in Spread(src, len, H)
        BY <3>3, <3>5 DEF Spread
      <3>7. Overreaches(src, len)
        BY <1>6, <2>1, <2>4 DEF Overreaches, Aligns, Lightning
      <3>8. QED
        BY <3>6, <3>7 DEF ReachOf
    <2>5. QED
      BY <2>3, <2>4
  <1>7. l \in Sectors(src, len) => l \in ReachOf(src, len)
    BY SectorsSpread DEF ReachOf
  <1>8. QED
    BY <1>2, <1>4, <1>5, <1>6, <1>7, WhichSize

(* From a boundary an iteration erases the lines up to the next boundary.  *)
LEMMA WalkAdvances ==
    ASSUME NEW src \in Nat, NEW len \in Nat, NEW cur \in Nat,
           AtBoundary(src, len, cur),
           platform \in Lightning => InStride(src, len, cur) /\ src % SectorBytes = 0
    PROVE  /\ AtBoundary(src, len, cur + EraseSize(src, len, cur))
           /\ \A l \in Lines :
                 cur <= LineBytes * l /\ LineBytes * l < cur + EraseSize(src, len, cur)
                    => l \in Around(cur, EraseSize(src, len, cur))
  <1> DEFINE S == SectorBytes
             B == BlockBytes
             end == src + len
             q == cur \div S
             size == EraseSize(src, len, cur)
  <1>1. S \in Nat \ {0} /\ B \in Nat \ {0} /\ end \in Int /\ src \in Int /\ cur \in Int
    BY Sizes
  <1>2. q \in Int /\ cur = S * q
    <2>1. cur % S = 0
      BY DEF AtBoundary
    <2>2. q \in Int
      BY <1>1, Floor
    <2>3. QED
      BY <1>1, <2>1, <2>2, Multiple
  <1>3. PICK k \in Int : B = S * k
    BY ChipFacts
  <1>4. ASSUME NEW b \in Nat \ {0}, NEW c \in Int, cur = b * c, size = b
        PROVE  \A l \in Lines : cur <= LineBytes * l /\ LineBytes * l < cur + size
                  => l \in Around(cur, size)
    <2> TAKE l \in Lines
    <2> HAVE cur <= LineBytes * l /\ LineBytes * l < cur + size
    <2>1. LineBytes * l \in Int
      BY LineFacts
    <2>2. (LineBytes * l) \div b = c
      BY <1>4, <2>1, FloorUnique
    <2>3. cur \div b = c
      BY <1>1, <1>4, Multiple
    <2> HIDE DEF size
    <2>4. QED
      BY <1>4, <2>2, <2>3 DEF Around
  <1>5. CASE size = S /\ ~InBlocks(src, len, cur)
    <2>1. cur + S = S * (q + 1) /\ q + 1 \in Int /\ cur + S \in Int
      BY <1>1, <1>2
    <2> HIDE DEF q
    <2>2. (cur + S) % S = 0
      <3>1. (S * (q + 1)) % S = 0
        BY <1>1, <2>1, MultipleOf
      <3>2. QED
        BY <2>1, <3>1
    <2>3. ASSUME platform = "RDA5981", Up(src, B) <= cur + S, cur + S <= Down(end, B)
          PROVE  (cur + S) % B = 0
      <3> DEFINE u == (src + B - 1) \div B
      <3>1. src + B - 1 \in Int
        BY <1>1
      <3>2. u \in Int
        BY <1>1, <3>1, Floor
      <3>3. Up(src, B) = B * u /\ Up(src, B) \in Int /\ Down(end, B) \in Int
        BY <1>1, DownUp
      <3>4. ~(Up(src, B) <= cur)
        <4>1. Up(src, B) <= cur => cur < Down(end, B)
          BY <1>1, <2>3, <3>3
        <4>2. QED
          BY <1>5, <2>3, <4>1, WhichBlocks
      <3> HIDE DEF u
      <3>5. k * u \in Int /\ B * u = S * (k * u)
        BY <1>1, <1>3, <3>2
      <3>6. S * q < S * (k * u)
        BY <1>1, <1>2, <3>3, <3>4, <3>5
      <3>7. S * q + S <= S * (k * u)
        BY <1>1, <1>2, <3>5, <3>6, MultipleOrder
      <3>8. cur + S = B * u
        BY <1>1, <1>2, <2>3, <3>3, <3>5, <3>7
      <3>9. (B * u) % B = 0
        BY <1>1, <3>2, MultipleOf
      <3>10. QED
        BY <3>8, <3>9
    <2>4. AtBoundary(src, len, cur + S)
      BY <2>2, <2>3 DEF AtBoundary
    <2>5. QED
      BY <1>1, <1>2, <1>4, <1>5, <2>4
  <1>6. CASE size = B /\ InBlocks(src, len, cur) /\ platform \notin Lightning
    <2> DEFINE c == cur \div B
    <2>1. cur % B = 0
      <3>1. CASE platform # "RDA5981"
        BY <1>6, <3>1, WhichBlocks
      <3>2. CASE platform = "RDA5981"
        <4>1. Up(src, B) <= cur /\ cur < Down(end, B)
          BY <1>6, <3>2, WhichBlocks
        <4>2. Down(end, B) \in Int
          BY <1>1, DownUp
        <4>3. cur <= Down(end, B)
          BY <1>1, <4>1, <4>2
        <4>4. QED
          BY <3>2, <4>1, <4>3 DEF AtBoundary
      <3>3. QED
        BY <3>1, <3>2
    <2>2. c \in Int /\ cur = B * c
      <3>1. c \in Int
        BY <1>1, Floor
      <3>2. QED
        BY <1>1, <2>1, <3>1, Multiple
    <2> HIDE DEF c
    <2>3. cur + B = B * (c + 1) /\ c + 1 \in Int /\ cur + B \in Int
      BY <1>1, <2>2
    <2>4. (cur + B) % B = 0
      BY <1>1, <2>3, Multiple
    <2>5. q + k \in Int /\ cur + B = S * (q + k)
      BY <1>1, <1>2, <1>3
    <2>6. (cur + B) % S = 0
      <3>1. (S * (q + k)) % S = 0
        BY <1>1, <2>5, MultipleOf
      <3>2. QED
        BY <2>5, <3>1
    <2>7. AtBoundary(src, len, cur + B)
      BY <2>4, <2>6 DEF AtBoundary
    <2>8. QED
      BY <1>1, <1>4, <1>6, <2>2, <2>7
  <1>7. CASE size = HalfBlockBytes /\ InBlocks(src, len, cur) /\ platform \in Lightning
    <2> DEFINE H == HalfBlockBytes
               from == BlocksFrom(src, len)
    <2>1. /\ from <= cur /\ cur < BlocksEnd(src, len)
          /\ from \in Nat /\ BlocksEnd(src, len) \in Nat /\ H \in Nat \ {0}
      BY <1>7, WhichBlocks, LightningFacts, Sizes
    <2>2. PICK i \in Int : from = H * i
      <3>1. from < BlocksEnd(src, len)
        BY <1>1, <2>1
      <3>2. QED
        BY <1>7, <3>1, LightningFacts
    <2>3. PICK n \in Int : cur = from + H * n
      BY <1>7, <2>1 DEF InStride
    <2> HIDE DEF from
    <2>4. cur = H * (i + n) /\ i + n \in Int
      BY <1>1, <2>1, <2>2, <2>3
    <2>5. PICK h \in Int : H = S * h
      BY ChipFacts
    <2>6. cur + H = S * (q + h) /\ q + h \in Int
      BY <1>1, <1>2, <2>5
    <2>7. (cur + H) % S = 0
      <3>1. (S * (q + h)) % S = 0
        BY <1>1, <2>6, MultipleOf
      <3>2. QED
        BY <2>6, <3>1
    <2>8. AtBoundary(src, len, cur + H)
      BY <1>7, <2>7 DEF AtBoundary, Lightning
    <2>9. QED
      BY <1>4, <1>7, <2>1, <2>4, <2>8
  <1>8. QED
    BY <1>5, <1>6, <1>7, WhichSize

(* The stride is kept by every iteration.                                  *)
LEMMA StrideGoesOn ==
    ASSUME NEW src \in Nat, NEW len \in Nat, NEW cur \in Nat, platform \in Lightning,
           InStride(src, len, cur)
    PROVE  InStride(src, len, cur + EraseSize(src, len, cur))
  <1> DEFINE S == SectorBytes
             H == HalfBlockBytes
             from == BlocksFrom(src, len)
             to == BlocksEnd(src, len)
  <1>1. /\ S \in Nat \ {0} /\ H \in Nat \ {0} /\ from \in Nat /\ to \in Nat
        /\ src \in Int /\ cur \in Int
    BY LightningFacts, Sizes
  <1>2. PICK h \in Int : H = S * h
    BY ChipFacts
  <1>3. PICK m \in Int : cur = src + S * m
    BY DEF InStride
  <1>4. PICK i \in Int : from = src + S * i
    BY LightningFacts
  <1>5. CASE EraseSize(src, len, cur) = S /\ ~InBlocks(src, len, cur)
    <2>1. ~(from <= cur /\ cur < to)
      BY <1>5, WhichBlocks
    <2> HIDE DEF from, to
    <2>2. cur + S = src + S * (m + 1) /\ m + 1 \in Int
      BY <1>1, <1>3
    <2>3. ASSUME from <= cur + S, cur + S < to PROVE cur + S = from + H * 0
      <3>1. S * m \in Int /\ S * i \in Int
        BY <1>1
      <3>2. S * m < S * i
        BY <1>1, <1>3, <1>4, <2>1, <2>3, <3>1
      <3>3. S * m + S <= S * i
        BY <1>1, <3>2, MultipleOrder
      <3>4. QED
        BY <1>1, <1>3, <1>4, <2>3, <3>1, <3>3
    <2>4. QED
      BY <1>5, <2>2, <2>3 DEF InStride, from, to
  <1>6. CASE EraseSize(src, len, cur) = H /\ InBlocks(src, len, cur)
    <2>1. from <= cur /\ cur < to
      BY <1>6, WhichBlocks
    <2>2. PICK k \in Int : cur = from + H * k
      BY <2>1 DEF InStride
    <2>3. cur + H = src + S * (m + h) /\ m + h \in Int
      BY <1>1, <1>2, <1>3
    <2> HIDE DEF from, to
    <2>4. cur + H = from + H * (k + 1) /\ k + 1 \in Int
      BY <1>1, <2>2
    <2>5. QED
      BY <1>6, <2>3, <2>4 DEF InStride, from, to
  <1>7. QED
    BY <1>5, <1>6, WhichSize

LEMMA StrideStarts ==
    ASSUME NEW src \in Nat, NEW len \in Nat
    PROVE  InStride(src, len, src)
  <1> DEFINE from == BlocksFrom(src, len)
  <1>1. from \in Nat /\ src <= from /\ SectorBytes \in Nat /\ HalfBlockBytes \in Nat
    BY LightningFacts, Sizes
  <1>2. src = src + SectorBytes * 0
    BY <1>1
  <1>3. from <= src => src = from + HalfBlockBytes * 0
    BY <1>1
  <1>4. QED
    BY <1>2, <1>3 DEF InStride

(* A walk that has ended at a boundary has had the turn of every line of   *)
(* the sectors its range touches.                                          *)
LEMMA WalkCovers ==
    ASSUME NEW src \in Nat, NEW len \in Nat, len > 0, src + len <= FlashBytes,
           NEW cur \in Nat, cur % SectorBytes = 0, WalkEnd(src, len) <= cur,
           platform \in Lightning => src % SectorBytes = 0,
           NEW l \in Sectors(src, len)
    PROVE  Down(src, SectorBytes) <= LineBytes * l /\ LineBytes * l < cur
  <1> DEFINE S == SectorBytes
             end == src + len
             q == cur \div S
             s == SectorOf(l)
             first == src \div S
  <1>1. S \in Nat \ {0} /\ end \in Int /\ src \in Int /\ cur \in Int
    BY Sizes
  <1>2. l \in Lines
    BY DEF Sectors, Spread, Around
  <1>3. first <= s /\ S * s < end
    BY <1>2, TouchedLines
  <1>4. /\ LineBytes * l \in Nat /\ LineBytes \in Nat \ {0} /\ s \in Int /\ S * s \in Int
        /\ S * s <= LineBytes * l /\ LineBytes * l + LineBytes <= S * s + S
    BY <1>2, LineFacts, Sizes
  <1>5. end <= cur
    <2>1. CASE platform # "RDA5981" /\ platform \notin Lightning
      BY <2>1, WalkEnds
    <2>4. CASE platform \in Lightning
      <3>1. end <= LightningEnd(src, len) /\ LightningEnd(src, len) \in Nat
        BY <2>4, LightningFacts
      <3>2. WalkEnd(src, len) = LightningEnd(src, len)
        BY <2>4, WalkEnds
      <3>3. QED
        BY <1>1, <3>1, <3>2
    <2>2. CASE platform = "RDA5981"
      <3>1. Up(end, S) \in Int /\ end <= Up(end, S)
        BY <1>1, DownUp
      <3>2. Up(end, S) <= cur
        BY <2>2, WalkEnds
      <3>3. QED
        BY <1>1, <3>1, <3>2
    <2>3. QED
      BY <2>1, <2>2, <2>4
  <1>6. q \in Int /\ cur = S * q
    <2>1. q \in Int
      BY <1>1, Floor
    <2>2. QED
      BY <1>1, <2>1, Multiple
  <1>7. first \in Int /\ Down(src, S) = S * first
    <2>1. first \in Int
      BY <1>1, Floor
    <2>2. QED
      BY <1>1, <2>1, DownUp
  <1> HIDE DEF q, s, first
  <1>8. S * first <= S * s
    BY <1>1, <1>3, <1>4, <1>7, MultipleOrder
  <1>9. S * s + S <= S * q
    <2>1. S * s < S * q
      BY <1>1, <1>3, <1>4, <1>5, <1>6
    <2>2. QED
      BY <1>1, <1>4, <1>6, <2>1, MultipleOrder
  <1>10. S * first \in Int
    BY <1>1, <1>7
  <1>11. QED
    BY <1>1, <1>4, <1>6, <1>7, <1>8, <1>9, <1>10

-----------------------------------------------------------------------------
(* The inductive invariant of the flash operations. *)
Jobs == [op : {"none", "erase", "write", "chip"},
         pc : {"idle", "erase", "program", "restore"},
         src : Nat, len : Nat, cur : Nat,
         saved : {<<>>} \cup [BootLines -> Contents],
         ok : BOOLEAN, programmed : BOOLEAN, skipped : BOOLEAN]

FlashTypeOK ==
    /\ platform \in Known
    /\ flash \in [Lines -> Contents] /\ before \in [Lines -> Contents]
    /\ cache \in [Lines -> Contents \cup {"none"}]
    /\ job \in Jobs
    /\ settled \subseteq Lines
    /\ faults \in Nat /\ jobs \in Nat

Touched == IF job.len = 0 THEN {} ELSE Sectors(job.src, job.len)
Reach == Touched \cup (IF Overreaches(job.src, job.len)
                       THEN Spread(job.src, job.len, HalfBlockBytes) ELSE {})
OutsideKept == \A l \in Lines \ Reach : flash[l] = before[l]

JobOK ==
    /\ job.src + job.len <= FlashBytes
    /\ job.op = "none" => job.pc = "idle"
    /\ job.op = "write" => job.len > 0
    /\ job.pc # "idle" => job.ok /\ jobs > 0
    /\ ~job.ok => flash = before
    /\ job.pc = "program" => /\ job.op = "write"
                             /\ job.src <= job.cur /\ job.cur < job.src + job.len

(* How far the walk has come: what is behind it is blank, in a loop of the *)
(* driver that starts at the boundary of a sector.                         *)
Follows(src) ==
    platform \notin Library /\ (platform = "RDA5981" \/ src % SectorBytes = 0)
BlankUpTo(src, cur) ==
    \A l \in Lines : Down(src, SectorBytes) <= LineBytes * l /\ LineBytes * l < cur
                        => flash[l] = "blank"
TouchedBlank == \A l \in Touched : flash[l] = "blank"

WalkOK ==
    job.pc = "erase" =>
        /\ job.op \in {"erase", "write", "chip"}
        /\ job.op = "chip" => platform \in {"W800", "OPL1000A2"}
        /\ WalkStart(job.src) <= job.cur
        /\ platform \in Library /\ job.cur >= WalkEnd(job.src, job.len) => TouchedBlank
        /\ platform \in Lightning => InStride(job.src, job.len, job.cur)
        /\ Follows(job.src) /\ ~job.skipped =>
              /\ AtBoundary(job.src, job.len, job.cur)
              /\ BlankUpTo(job.src, job.cur)

(* The boot sector of the RDA5981 between the erase and its restoration.   *)
RestoreOK ==
    job.pc = "restore" =>
        /\ job.op = "chip" /\ platform = "RDA5981"
        /\ job.src = 0 /\ job.len = FlashBytes
        /\ job.saved \in [BootLines -> Contents]
        /\ \A l \in Lines : flash[l] = "blank"
        /\ jobs = 1 => \A l \in BootLines : job.saved[l] = before[l]

(* Where the cache agrees with the chip, platform by platform. *)
Fresh(lines) == \A l \in lines : cache[l] \in {"none", flash[l]}
CacheOK ==
    /\ jobs = 0 => Fresh(Lines)
    /\ platform \in Whole /\ job.pc \in {"idle", "program"} => Fresh(Lines)
    /\ platform \in OnProgram /\ job.op = "write" /\ job.programmed =>
          Fresh(Lines) /\ job.pc \in {"idle", "program"}
    /\ platform \in ByRange =>
          IF job.pc = "erase" THEN Fresh(settled \ Touched) ELSE Fresh(settled)

(* A finished erase has blanked what it touched, but for the boot sector.  *)
DoneOK ==
    (/\ job.pc = "idle" /\ job.op \in {"erase", "chip"} /\ job.ok /\ ~job.skipped
     /\ Aligns \/ job.src % SectorBytes = 0) =>
        \A l \in Touched : \/ flash[l] = "blank"
                           \/ /\ job.op = "chip" /\ platform = "RDA5981"
                              /\ l \in BootLines
                              /\ flash[l] = before[l] \/ jobs > 1

FInv == /\ FlashTypeOK /\ JobOK /\ OutsideKept /\ WalkOK /\ RestoreOK
        /\ DoneOK /\ CacheOK

LEMMA FInvErasedExactly == FInv => ErasedExactly
  <1> SUFFICES ASSUME FInv PROVE ErasedExactly
    OBVIOUS
  <1>1. \A l \in Lines \ Reach : flash[l] = before[l]
    BY DEF FInv, OutsideKept
  <1> DEFINE aligned == platform = "RDA5981" \/ job.src % SectorBytes = 0
             reach == IF platform \in Lightning /\ ~aligned /\ job.len >= HalfBlockBytes
                      THEN Spread(job.src, job.len, HalfBlockBytes) ELSE Touched
  <1>4. Reach \subseteq reach
    <2>1. Touched \subseteq Spread(job.src, job.len, HalfBlockBytes)
      BY SectorsSpread DEF Touched
    <2>2. QED
      BY <2>1 DEF Reach, Overreaches, Aligns
  <1>5. \A l \in Lines \ reach : flash[l] = before[l]
    BY <1>1, <1>4
  <1>2. ~job.ok => flash = before
    BY DEF FInv, JobOK
  <1>3. job.pc = "program" => job.op = "write"
    BY DEF FInv, JobOK
  <1>6. QED
    BY <1>2, <1>3, <1>5 DEF FInv, DoneOK, ErasedExactly, Touched, Aligns

LEMMA NoJobFacts ==
    /\ NoJob \in Jobs
    /\ NoJob.op = "none" /\ NoJob.pc = "idle" /\ NoJob.src = 0 /\ NoJob.len = 0
    /\ NoJob.cur = 0 /\ NoJob.saved = <<>> /\ NoJob.ok = TRUE
    /\ NoJob.programmed = FALSE /\ NoJob.skipped = FALSE
  BY DEF NoJob, Jobs

LEMMA InitFInv == FlashInit => FInv
  <1> SUFFICES ASSUME FlashInit PROVE FInv
    OBVIOUS
  <1>1. /\ platform \in Known /\ job = NoJob /\ before = flash /\ settled = Lines
        /\ faults = 0 /\ jobs = 0
    BY PlatformFlashAssumption DEF FlashInit
  <1>2. /\ flash \in [Lines -> Contents] /\ cache \in [Lines -> Contents \cup {"none"}]
        /\ Fresh(Lines)
    BY DEF FlashInit, Contents, Fresh
  <1>3. FlashTypeOK
    BY <1>1, <1>2, NoJobFacts DEF FlashTypeOK
  <1>4. JobOK
    BY <1>1, NoJobFacts, Sizes DEF JobOK
  <1>5. OutsideKept /\ WalkOK /\ RestoreOK /\ DoneOK
    BY <1>1, NoJobFacts DEF OutsideKept, WalkOK, RestoreOK, DoneOK
  <1>6. CacheOK
    BY <1>1, <1>2, NoJobFacts DEF CacheOK, Fresh
  <1>7. QED
    BY <1>3, <1>4, <1>5, <1>6 DEF FInv

LEMMA LibraryAlone ==
    platform \in Library => platform # "RDA5981" /\ platform \notin Lightning
  BY DEF Library, Lightning

(* A read fills the cache with what it returns.                            *)
LEMMA FilledFacts ==
    ASSUME FlashTypeOK, NEW lines
    PROVE  /\ Filled(lines) \in [Lines -> Contents \cup {"none"}]
           /\ \A l \in Lines : cache[l] \in {"none", flash[l]}
                 => Filled(lines)[l] \in {"none", flash[l]}
           /\ \A l \in Lines : Mapped(l) \in Contents
           /\ \A l \in Lines : cache[l] \in {"none", flash[l]} => Mapped(l) = flash[l]
           /\ platform \notin Cached => \A l \in Lines : Mapped(l) = flash[l]
  BY DEF FlashTypeOK, Filled, Mapped, Contents

LEMMA ReadKeepsFInv ==
    ASSUME FInv, NEW lines, cache' \in {cache, Filled(lines)},
           UNCHANGED <<platform, flash, job, before, settled, faults, jobs>>
    PROVE  FInv'
  <1>1. FlashTypeOK
    BY DEF FInv
  <1>2. /\ cache' \in [Lines -> Contents \cup {"none"}]
        /\ \A l \in Lines : cache[l] \in {"none", flash[l]} => cache'[l] \in {"none", flash[l]}
    <2>1. cache \in [Lines -> Contents \cup {"none"}]
      BY <1>1 DEF FlashTypeOK
    <2>2. QED
      BY <1>1, <2>1, FilledFacts
  <1>3. FlashTypeOK'
    BY <1>1, <1>2 DEF FlashTypeOK
  <1>4. Touched' = Touched /\ (Aligns' <=> Aligns) /\ Reach' = Reach
    BY DEF Touched, Aligns, Reach, Overreaches
  <1>5. JobOK' /\ OutsideKept'
    BY <1>4 DEF FInv, JobOK, OutsideKept
  <1>6. WalkOK'
    BY <1>4 DEF FInv, WalkOK, WalkStart, WalkEnd, AtBoundary, Follows, BlankUpTo, TouchedBlank,
                 InStride
  <1>7. RestoreOK'
    BY DEF FInv, RestoreOK
  <1>8. DoneOK'
    BY <1>4 DEF FInv, DoneOK
  <1>9. CacheOK'
    <2>1. settled \subseteq Lines
      BY <1>1 DEF FlashTypeOK
    <2>2. \A L : L \subseteq Lines /\ Fresh(L) => Fresh(L)'
      BY <1>2 DEF Fresh
    <2>3. /\ Fresh(Lines) => Fresh(Lines)'
          /\ Fresh(settled \ Touched) => Fresh(settled \ Touched)'
          /\ Fresh(settled) => Fresh(settled)'
      BY <1>2, <1>4, <2>1 DEF Fresh
    <2>4. QED
      BY <1>4, <2>3 DEF FInv, CacheOK
  <1>10. QED
    BY <1>3, <1>5, <1>6, <1>7, <1>8, <1>9 DEF FInv

-----------------------------------------------------------------------------
(* The commands and the erase walk. *)
LEMMA StartKeeps ==
    ASSUME FInv, NEW op \in {"erase", "write", "chip"}, NEW src \in Nat, NEW len \in Nat,
           src + len <= FlashBytes, op = "write" => len > 0,
           op = "chip" => platform \in {"W800", "OPL1000A2"},
           Start(op, src, len)
    PROVE  FInv'
  <1>1. /\ job.pc = "idle" /\ jobs' = jobs + 1 /\ before' = flash /\ jobs \in Nat
        /\ UNCHANGED <<platform, flash, cache, settled, faults>>
    BY DEF Start, FInv, FlashTypeOK
  <1>2. /\ job' \in Jobs
        /\ job'.op = op /\ job'.src = src /\ job'.len = len
        /\ job'.pc \in {"idle", "erase"} /\ ~job'.skipped /\ ~job'.programmed
        /\ job'.pc = "erase" <=> job'.ok
        /\ job'.pc = "erase" => job'.cur = WalkStart(src)
    <2>1. CASE Refused(src, len)
      <3>1. job' = [NoJob EXCEPT !.op = op, !.src = src, !.len = len, !.ok = FALSE]
        BY <2>1 DEF Start
      <3>2. QED
        BY <3>1, NoJobFacts DEF Jobs
    <2>2. CASE ~Refused(src, len)
      <3>1. job' = [NoJob EXCEPT !.op = op, !.src = src, !.len = len,
                                 !.pc = "erase", !.cur = WalkStart(src)]
        BY <2>2 DEF Start
      <3>2. WalkStart(src) \in Nat
        BY WalkStartsWell
      <3>3. QED
        BY <3>1, <3>2, NoJobFacts DEF Jobs
    <2>3. QED
      BY <2>1, <2>2
  <1>3. FlashTypeOK'
    BY <1>1, <1>2 DEF FInv, FlashTypeOK
  <1>4. JobOK' /\ OutsideKept'
    BY <1>1, <1>2 DEF JobOK, OutsideKept
  <1>5. WalkOK'
    <2> SUFFICES ASSUME job'.pc = "erase" PROVE WalkOK'
      BY DEF WalkOK
    <2>1. /\ job'.cur = WalkStart(src) /\ WalkStart(src) \in Nat
          /\ (platform = "RDA5981" \/ src % SectorBytes = 0) =>
                /\ AtBoundary(src, len, WalkStart(src))
                /\ WalkStart(src) = Down(src, SectorBytes)
      BY <1>2, WalkStartsWell
    <2>2. (platform \in Library /\ WalkStart(src) >= WalkEnd(src, len)) => len = 0
      <3>1. platform \in Library => platform # "RDA5981"
        BY DEF Library
      <3>2. QED
        BY <3>1, WalkEnds, LibraryAlone DEF WalkStart
    <2>3. len = 0 => Touched' = {}
      BY <1>2 DEF Touched
    <2>4. job'.src = src /\ job'.len = len /\ job'.op = op /\ job'.cur = WalkStart(src)
      BY <1>2, <2>1
    <2>5. /\ WalkStart(job.src)' = WalkStart(src)
          /\ WalkEnd(job.src, job.len)' = WalkEnd(src, len)
          /\ AtBoundary(job.src, job.len, job.cur)' <=> AtBoundary(src, len, WalkStart(src))
          /\ Follows(job.src)' <=> Follows(src)
      BY <1>1, <2>4 DEF WalkStart, WalkEnd, AtBoundary, Follows
    <2>10. platform \in Lightning => InStride(job.src, job.len, job.cur)'
      <3>1. platform \in Lightning => WalkStart(src) = src
        BY DEF WalkStart, Lightning
      <3>2. InStride(job.src, job.len, job.cur)' <=> InStride(src, len, WalkStart(src))
        BY <1>1, <2>4 DEF InStride
      <3>3. QED
        BY <3>1, <3>2, StrideStarts
    <2>6. Follows(src) => BlankUpTo(job.src, job.cur)'
      <3>1. Follows(src) => job'.cur = Down(src, SectorBytes) /\ job'.cur \in Nat
        BY <2>1, <2>4 DEF Follows
      <3>2. \A l \in Lines : LineBytes * l \in Nat
        BY LineFacts
      <3>3. QED
        BY <2>4, <3>1, <3>2 DEF BlankUpTo
    <2>7. TouchedBlank' \/ len # 0
      BY <2>3 DEF TouchedBlank
    <2>8. Follows(src) => AtBoundary(src, len, WalkStart(src))
      BY <2>1 DEF Follows
    <2>9. QED
      BY <1>1, <2>1, <2>2, <2>4, <2>5, <2>6, <2>7, <2>8, <2>10 DEF WalkOK
  <1>6. RestoreOK' /\ DoneOK'
    BY <1>2 DEF RestoreOK, DoneOK
  <1>7. CacheOK'
    <2>1. settled \subseteq Lines
      BY DEF FInv, FlashTypeOK
    <2>2. (platform \in Whole \/ platform \in ByRange) =>
              IF platform \in Whole THEN Fresh(Lines) ELSE Fresh(settled)
      BY <1>1 DEF FInv, CacheOK
    <2>3. \A L : L \subseteq Lines /\ Fresh(L) => Fresh(L)'
      BY <1>1 DEF Fresh
    <2>4. platform \in ByRange => Fresh(settled)' /\ Fresh(settled \ Touched)'
      BY <1>1, <2>2 DEF Fresh, Whole, ByRange
    <2>5. platform \in Whole => Fresh(Lines)'
      BY <1>1, <2>2 DEF Fresh
    <2>6. QED
      BY <1>1, <1>2, <2>4, <2>5 DEF CacheOK
  <1>8. QED
    BY <1>3, <1>4, <1>5, <1>6, <1>7 DEF FInv

(* What a step leaves to be shown when it only moves cur during an erase.  *)
LEMMA EraseGoesOn ==
    ASSUME FInv, job.pc = "erase", NEW cur \in Nat, NEW skipped \in BOOLEAN,
           NEW lines, lines \subseteq Reach,
           flash' = Blanked(flash, lines),
           job' = [job EXCEPT !.cur = cur, !.skipped = skipped],
           faults' \in Nat,
           UNCHANGED <<platform, cache, before, settled, jobs>>,
           WalkStart(job.src) <= cur,
           platform \in Library /\ cur >= WalkEnd(job.src, job.len) => TouchedBlank',
           platform \in Lightning => InStride(job.src, job.len, cur),
           Follows(job.src) /\ ~skipped =>
              AtBoundary(job.src, job.len, cur) /\ BlankUpTo(job.src, cur)'
    PROVE  FInv'
  <1>1. FlashTypeOK /\ job \in Jobs /\ flash \in [Lines -> Contents]
    BY DEF FInv, FlashTypeOK
  <1>2. /\ job' \in Jobs /\ job'.cur = cur /\ job'.skipped = skipped
        /\ job'.src = job.src /\ job'.len = job.len /\ job'.op = job.op /\ job'.pc = "erase"
        /\ job'.ok = job.ok /\ job'.programmed = job.programmed
    BY <1>1 DEF Jobs
  <1>3. /\ flash' \in [Lines -> Contents]
        /\ \A l \in Lines : flash'[l] = IF l \in lines THEN "blank" ELSE flash[l]
    BY <1>1 DEF Blanked, Contents
  <1>4. FlashTypeOK' /\ Touched' = Touched /\ Reach' = Reach
    BY <1>1, <1>2, <1>3 DEF FlashTypeOK, Touched, Reach, Overreaches, Aligns
  <1>5. JobOK' /\ OutsideKept'
    <2>1. JobOK'
      BY <1>2 DEF FInv, JobOK
    <2>2. OutsideKept'
      BY <1>3, <1>4 DEF FInv, OutsideKept
    <2>3. QED
      BY <2>1, <2>2
  <1>6. WalkOK'
    <2>1. /\ WalkStart(job.src)' = WalkStart(job.src)
          /\ WalkEnd(job.src, job.len)' = WalkEnd(job.src, job.len)
          /\ AtBoundary(job.src, job.len, job.cur)' <=> AtBoundary(job.src, job.len, cur)
          /\ Follows(job.src)' <=> Follows(job.src)
          /\ BlankUpTo(job.src, job.cur)' <=> BlankUpTo(job.src, cur)'
          /\ InStride(job.src, job.len, job.cur)' <=> InStride(job.src, job.len, cur)
      BY <1>2 DEF WalkStart, WalkEnd, AtBoundary, Follows, BlankUpTo, InStride
    <2>2. /\ job.op \in {"erase", "write", "chip"}
          /\ job.op = "chip" => platform \in {"W800", "OPL1000A2"}
      BY DEF FInv, WalkOK
    <2>3. QED
      BY <1>2, <2>1, <2>2 DEF WalkOK
  <1>7. RestoreOK' /\ DoneOK'
    BY <1>2 DEF RestoreOK, DoneOK
  <1>8. CacheOK'
    <2>1. settled \subseteq Lines
      BY <1>1 DEF FlashTypeOK
    <2>2. jobs # 0
      BY <1>1 DEF FInv, JobOK, FlashTypeOK
    <2>3. platform \in ByRange => Fresh(settled \ Touched)'
      <3>1. platform \in ByRange => Fresh(settled \ Touched)
        BY DEF FInv, CacheOK
      <3>4. platform \in ByRange => Reach = Touched
        BY DEF Reach, Overreaches, ByRange, Lightning
      <3>2. platform \in ByRange => \A l \in settled \ Touched : flash'[l] = flash[l]
        BY <1>3, <2>1, <3>4
      <3>3. QED
        BY <1>4, <3>1, <3>2 DEF Fresh
    <2>4. ~(platform \in OnProgram /\ job.op = "write" /\ job.programmed)
      BY DEF FInv, CacheOK
    <2>5. QED
      BY <1>2, <2>2, <2>3, <2>4 DEF CacheOK
  <1>9. QED
    BY <1>4, <1>5, <1>6, <1>7, <1>8 DEF FInv

LEMMA WalkFacts ==
    ASSUME FInv, job.pc = "erase"
    PROVE  /\ job.src \in Nat /\ job.len \in Nat /\ job.cur \in Nat
           /\ job.src + job.len <= FlashBytes
           /\ WalkStart(job.src) \in Nat /\ WalkStart(job.src) <= job.cur
           /\ EraseSize(job.src, job.len, job.cur) \in Nat
           /\ job.cur + EraseSize(job.src, job.len, job.cur) \in Nat
           /\ WalkStart(job.src) <= job.cur + EraseSize(job.src, job.len, job.cur)
  <1>1. job.src \in Nat /\ job.len \in Nat /\ job.cur \in Nat
    BY DEF FInv, FlashTypeOK, Jobs
  <1>2. job.src + job.len <= FlashBytes /\ WalkStart(job.src) <= job.cur
    BY DEF FInv, JobOK, WalkOK
  <1>3. WalkStart(job.src) \in Nat
    BY <1>1, WalkStartsWell
  <1> DEFINE size == EraseSize(job.src, job.len, job.cur)
  <1>4. size \in Nat
    BY EraseSizes, Sizes
  <1> HIDE DEF size
  <1>5. job.cur + size \in Nat /\ WalkStart(job.src) <= job.cur + size
    BY <1>1, <1>2, <1>3, <1>4
  <1>6. QED
    BY <1>1, <1>2, <1>3, <1>4, <1>5 DEF size

LEMMA EraseNextKeeps == ASSUME FInv, EraseNext PROVE FInv'
  <1> DEFINE size == EraseSize(job.src, job.len, job.cur)
             lines == Around(job.cur, size)
  <1>1. /\ job.pc = "erase" /\ platform \notin Library
        /\ job.cur < WalkEnd(job.src, job.len)
        /\ flash' = Blanked(flash, lines)
        /\ job' = [job EXCEPT !.cur = job.cur + size]
        /\ UNCHANGED <<platform, cache, before, settled, faults, jobs>>
    BY DEF EraseNext
  <1>2. /\ job.src \in Nat /\ job.len \in Nat /\ job.cur \in Nat
        /\ job.src + job.len <= FlashBytes /\ WalkStart(job.src) <= job.cur
        /\ job.cur + size \in Nat /\ WalkStart(job.src) <= job.cur + size /\ size \in Nat
    BY <1>1, WalkFacts
  <1>3. FlashTypeOK /\ job \in Jobs /\ job.skipped \in BOOLEAN /\ faults' \in Nat
    BY <1>1 DEF FInv, FlashTypeOK, Jobs
  <1>10. platform \in Lightning => InStride(job.src, job.len, job.cur)
    BY <1>1 DEF FInv, WalkOK
  <1>4. lines \subseteq Reach
    <2> SUFFICES ASSUME NEW l \in lines PROVE l \in Reach
      OBVIOUS
    <2>1. job.len > 0 /\ l \in ReachOf(job.src, job.len)
      BY <1>1, <1>2, <1>10, WalkErasesTouched
    <2>2. job.len # 0
      BY <1>2, <2>1
    <2>3. QED
      BY <2>1, <2>2 DEF Touched, Reach, ReachOf
  <1>5. job' = [job EXCEPT !.cur = job.cur + size, !.skipped = job.skipped]
    BY <1>1, <1>3 DEF Jobs
  <1>6. PICK next \in Nat : next = job.cur + size
    BY <1>2
  <1>7. ASSUME Follows(job.src), ~job.skipped
        PROVE  AtBoundary(job.src, job.len, next) /\ BlankUpTo(job.src, next)'
    <2>1. AtBoundary(job.src, job.len, job.cur) /\ BlankUpTo(job.src, job.cur)
      BY <1>1, <1>7 DEF FInv, WalkOK
    <2>11. platform \in Lightning =>
              InStride(job.src, job.len, job.cur) /\ job.src % SectorBytes = 0
      BY <1>7, <1>10 DEF Follows, Lightning
    <2>2. AtBoundary(job.src, job.len, job.cur + size)
      BY <1>2, <2>1, <2>11, WalkAdvances
    <2>3. \A l \in Lines : job.cur <= LineBytes * l /\ LineBytes * l < job.cur + size
                              => l \in lines
      BY <1>2, <2>1, <2>11, WalkAdvances
    <2>4. \A l \in Lines : flash'[l] = IF l \in lines THEN "blank" ELSE flash[l]
      BY <1>1 DEF Blanked
    <2>5. \A l \in Lines : LineBytes * l \in Nat
      BY LineFacts
    <2> HIDE DEF lines, size
    <2>6. ASSUME NEW l \in Lines, LineBytes * l < job.cur + size,
                 Down(job.src, SectorBytes) <= LineBytes * l
          PROVE  flash'[l] = "blank"
      <3>1. CASE LineBytes * l < job.cur
        BY <2>1, <2>4, <2>6, <3>1 DEF BlankUpTo
      <3>2. CASE job.cur <= LineBytes * l
        BY <2>3, <2>4, <2>6, <3>2
      <3>3. LineBytes * l \in Nat
        BY <2>5
      <3>4. QED
        BY <1>2, <3>1, <3>2, <3>3
    <2>7. Down(job.src, SectorBytes)' = Down(job'.src, SectorBytes) /\ job'.src = job.src
      BY <1>1, <1>3 DEF Jobs
    <2>8. \A l \in Lines : Down(job'.src, SectorBytes) <= LineBytes * l /\ LineBytes * l < next
                              => flash'[l] = "blank"
      BY <1>6, <2>6, <2>7
    <2>9. BlankUpTo(job.src, next)'
      BY <2>8 DEF BlankUpTo
    <2>10. QED
      BY <1>6, <2>2, <2>9 DEF size
  <1>11. platform \in Lightning => InStride(job.src, job.len, next)
    BY <1>2, <1>6, <1>10, StrideGoesOn
  <1> HIDE DEF lines, size
  <1>8. /\ next \in Nat /\ job.skipped \in BOOLEAN /\ job.pc = "erase"
        /\ flash' = Blanked(flash, lines)
        /\ job' = [job EXCEPT !.cur = next, !.skipped = job.skipped]
        /\ UNCHANGED <<platform, cache, before, settled, jobs>> /\ faults' \in Nat
        /\ WalkStart(job.src) <= next
        /\ platform \in Library /\ next >= WalkEnd(job.src, job.len) => TouchedBlank'
    BY <1>1, <1>2, <1>3, <1>5, <1>6
  <1>9. QED
    BY ZenonT(30), <1>4, <1>7, <1>8, <1>11, EraseGoesOn

(* A command the SPI bus did not take leaves the chip as it is.            *)
LEMMA EraseSkippedKeeps == ASSUME FInv, EraseSkipped PROVE FInv'
  <1> DEFINE size == EraseSize(job.src, job.len, job.cur)
  <1>1. /\ job.pc = "erase" /\ platform \in SpiDriven
        /\ job' = [job EXCEPT !.cur = job.cur + size, !.skipped = TRUE]
        /\ faults' = faults + 1
        /\ UNCHANGED <<platform, flash, cache, before, settled, jobs>>
    BY DEF EraseSkipped
  <1>2. job.cur + size \in Nat /\ WalkStart(job.src) <= job.cur + size
    BY <1>1, WalkFacts
  <1>3. flash \in [Lines -> Contents] /\ faults' \in Nat
    BY <1>1 DEF FInv, FlashTypeOK
  <1>4. PICK lines : lines \subseteq Reach /\ flash' = Blanked(flash, lines)
    <2>1. flash' = Blanked(flash, {}) /\ {} \subseteq Reach
      BY <1>1, <1>3 DEF Blanked
    <2>2. QED
      BY <2>1
  <1>5. platform \notin Library /\ platform \notin Lightning
    BY <1>1 DEF SpiDriven, Library, Lightning
  <1> HIDE DEF size
  <1>6. PICK next \in Nat : next = job.cur + size
    BY <1>2
  <1>7. PICK skipped \in BOOLEAN : skipped = TRUE
    OBVIOUS
  <1>8. job' = [job EXCEPT !.cur = next, !.skipped = skipped]
    BY <1>1, <1>6, <1>7
  <1>9. ~(Follows(job.src) /\ ~skipped)
    BY <1>7
  <1>10. QED
    BY <1>1, <1>2, <1>3, <1>4, <1>5, <1>6, <1>8, <1>9, EraseGoesOn

LEMMA LibraryEraseKeeps == ASSUME FInv, LibraryErase PROVE FInv'
  <1>1. /\ job.pc = "erase" /\ platform \in Library
        /\ job.cur < WalkEnd(job.src, job.len)
        /\ flash' = Blanked(flash, Sectors(job.src, job.len))
        /\ job' = [job EXCEPT !.cur = job.src + job.len]
        /\ UNCHANGED <<platform, cache, before, settled, faults, jobs>>
    BY DEF LibraryErase
  <1>2. /\ job.src \in Nat /\ job.len \in Nat /\ job.src + job.len \in Nat
        /\ WalkStart(job.src) <= job.cur /\ job.cur \in Nat
    BY <1>1, WalkFacts
  <1>3. platform # "RDA5981" /\ platform \notin Lightning /\ ~Follows(job.src)
    BY <1>1 DEF Library, Lightning, Follows
  <1>4. job.len # 0 /\ WalkStart(job.src) = job.src
    <2>1. job.len # 0
      <3>1. WalkStart(job.src) \in Nat
        BY <1>2, WalkStartsWell
      <3>2. job.len = 0 => WalkEnd(job.src, job.len) = WalkStart(job.src)
        BY WalkEnds
      <3>3. QED
        BY <1>1, <1>2, <3>1, <3>2
    <2>2. QED
      BY <1>3, <2>1 DEF WalkStart
  <1>5. Touched = Sectors(job.src, job.len) /\ Touched \subseteq Reach
    BY <1>4 DEF Touched, Reach
  <1>6. job \in Jobs /\ job.skipped \in BOOLEAN /\ faults' \in Nat
    BY <1>1 DEF FInv, FlashTypeOK, Jobs
  <1>7. job' = [job EXCEPT !.cur = job.src + job.len, !.skipped = job.skipped]
    BY <1>1, <1>6 DEF Jobs
  <1>8. TouchedBlank'
    <2>1. Touched' = Touched
      BY <1>1, <1>6 DEF Touched, Jobs
    <2>2. \A l \in Touched : l \in Lines
      BY <1>5 DEF Sectors, Spread, Around
    <2>3. QED
      BY <1>1, <1>5, <2>1, <2>2 DEF TouchedBlank, Blanked
  <1>9. WalkStart(job.src) <= job.src + job.len
    BY <1>2, <1>4
  <1>10. PICK next \in Nat : next = job.src + job.len
    BY <1>2
  <1>11. QED
    BY <1>1, <1>2, <1>3, <1>5, <1>6, <1>7, <1>8, <1>9, <1>10, EraseGoesOn,
       ZenonT(30)

(* The end of the walk: what the command promised has been blanked, and the*)
(* lines it is said to invalidate are gone from the cache.                 *)
LEMMA EraseEndBlank ==
    ASSUME FInv, job.pc = "erase", job.cur >= WalkEnd(job.src, job.len), ~job.skipped,
           Aligns \/ job.src % SectorBytes = 0
    PROVE  TouchedBlank
  <1>1. CASE platform \in Library
    BY <1>1 DEF FInv, WalkOK
  <1>2. CASE platform \notin Library
    <2>1. Follows(job.src)
      BY <1>2 DEF Follows, Aligns
    <2>2. AtBoundary(job.src, job.len, job.cur) /\ BlankUpTo(job.src, job.cur)
      BY <2>1 DEF FInv, WalkOK
    <2>3. /\ job.src \in Nat /\ job.len \in Nat /\ job.cur \in Nat
          /\ job.src + job.len <= FlashBytes
      BY WalkFacts
    <2>4. ASSUME NEW l \in Touched PROVE flash[l] = "blank"
      <3>1. job.len > 0 /\ l \in Sectors(job.src, job.len)
        BY <2>3 DEF Touched
      <3>2. l \in Lines
        BY <3>1 DEF Sectors, Spread, Around
      <3>3. job.cur % SectorBytes = 0 /\ WalkEnd(job.src, job.len) <= job.cur
        <4>1. WalkEnd(job.src, job.len) \in Int
          <5>1. job.src + job.len \in Int
            BY <2>3
          <5>2. Up(job.src + job.len, SectorBytes) \in Int
            BY <5>1, Sizes, DownUp
          <5>3. WalkStart(job.src) \in Int
            BY WalkFacts
          <5>4. LightningEnd(job.src, job.len) \in Int
            <6>1. LightningEnd(job.src, job.len) \in Nat
              BY <2>3, LightningFacts
            <6>2. QED
              BY <6>1
          <5>5. QED
            BY <5>1, <5>2, <5>3, <5>4, WalkEnds
        <4>2. QED
          BY <2>2, <2>3, <4>1 DEF AtBoundary
      <3>4. Down(job.src, SectorBytes) <= LineBytes * l /\ LineBytes * l < job.cur
        BY <2>1, <2>3, <3>1, <3>3, WalkCovers DEF Follows, Lightning
      <3>5. QED
        BY <2>2, <3>2, <3>4 DEF BlankUpTo
    <2>5. QED
      BY <2>4 DEF TouchedBlank
  <1>3. QED
    BY <1>1, <1>2

LEMMA EraseEndKeeps == ASSUME FInv, EraseEnd PROVE FInv'
  <1>1. /\ job.pc = "erase" /\ job.cur >= WalkEnd(job.src, job.len)
        /\ cache' = Without(cache, ErasedLinesDropped(job.src, job.len))
        /\ settled' = Settled
        /\ job' = IF job.op = "write" THEN [job EXCEPT !.pc = "program", !.cur = job.src]
                  ELSE [job EXCEPT !.pc = "idle"]
        /\ UNCHANGED <<platform, flash, before, faults, jobs>>
    BY DEF EraseEnd
  <1>2. /\ FlashTypeOK /\ job \in Jobs /\ settled \subseteq Lines
        /\ cache \in [Lines -> Contents \cup {"none"}]
    BY DEF FInv, FlashTypeOK
  <1>3. /\ job' \in Jobs /\ job'.op = job.op /\ job'.src = job.src /\ job'.len = job.len
        /\ job'.ok = job.ok /\ job'.skipped = job.skipped /\ job'.programmed = job.programmed
        /\ IF job.op = "write" THEN job'.pc = "program" /\ job'.cur = job.src
                               ELSE job'.pc = "idle"
    BY <1>1, <1>2 DEF Jobs
  <1>4. /\ cache' \in [Lines -> Contents \cup {"none"}]
        /\ \A l \in Lines : cache'[l] = IF l \in ErasedLinesDropped(job.src, job.len)
                                        THEN "none" ELSE cache[l]
    BY <1>1, <1>2 DEF Without
  <1>5. settled' \subseteq Lines
    BY <1>1, <1>2 DEF Settled, LinesOf
  <1>6. FlashTypeOK' /\ Touched' = Touched /\ (Aligns' <=> Aligns) /\ Reach' = Reach
    BY <1>1, <1>2, <1>3, <1>4, <1>5 DEF FlashTypeOK, Touched, Aligns, Reach, Overreaches
  <1>7. JobOK' /\ OutsideKept'
    <2>1. job.op = "write" => job.src <= job.src /\ job.src < job.src + job.len
      BY <1>2 DEF FInv, JobOK, Jobs
    <2>2. job.op # "none"
      BY <1>1 DEF FInv, WalkOK
    <2>3. JobOK'
      BY <1>1, <1>3, <2>1, <2>2 DEF FInv, JobOK
    <2>4. OutsideKept'
      BY <1>1, <1>6 DEF FInv, OutsideKept
    <2>5. QED
      BY <2>3, <2>4
  <1>8. WalkOK' /\ RestoreOK'
    BY <1>3 DEF WalkOK, RestoreOK
  <1>9. DoneOK'
    BY <1>1, <1>3, <1>6, EraseEndBlank DEF DoneOK, TouchedBlank
  <1>10. CacheOK'
    <2>1. jobs # 0 /\ ~(platform \in OnProgram /\ job.op = "write" /\ job.programmed)
      BY <1>1, <1>2 DEF FInv, JobOK, FlashTypeOK, CacheOK
    <2>2. platform \in Whole => Fresh(Lines)'
      <3>1. platform \in Whole => ErasedLinesDropped(job.src, job.len) = Lines
        BY DEF ErasedLinesDropped, ByRange, Whole
      <3>2. QED
        BY <1>4, <3>1 DEF Fresh
    <2>3. platform \in ByRange => Fresh(settled)'
      <3> SUFFICES ASSUME platform \in ByRange, NEW l \in settled'
                   PROVE  cache'[l] \in {"none", flash'[l]}
        BY DEF Fresh
      <3>1. ErasedLinesDropped(job.src, job.len) = LinesOf(job.src, job.len)
        BY DEF ErasedLinesDropped, ByRange, Whole
      <3>2. CASE l \in LinesOf(job.src, job.len)
        BY <1>4, <1>5, <3>1, <3>2
      <3>3. CASE l \notin LinesOf(job.src, job.len)
        <4>1. l \in settled \ Touched
          BY <1>1, <3>3 DEF Settled, Touched
        <4>2. cache[l] \in {"none", flash[l]}
          BY <1>1, <4>1 DEF FInv, CacheOK, Fresh
        <4>3. QED
          BY <1>1, <1>4, <1>5, <3>1, <3>3, <4>2
      <3>4. QED
        BY <3>2, <3>3
    <2>4. job'.pc # "erase"
      BY <1>3
    <2>5. QED
      BY <1>1, <1>3, <2>1, <2>2, <2>3, <2>4 DEF CacheOK
  <1>11. QED
    BY <1>6, <1>7, <1>8, <1>9, <1>10 DEF FInv

-----------------------------------------------------------------------------
(* The page programs: a page holds lines of the range only.                *)
LEMMA PageInRange ==
    ASSUME FInv, job.pc = "program"
    PROVE  PageLines \subseteq LinesOf(job.cur, PageBytes) /\ PageLines \subseteq Touched
  <1>1. PageLines \subseteq LinesOf(job.cur, PageBytes)
    BY DEF PageLines
  <1>2. ASSUME NEW l \in PageLines PROVE l \in Touched
    <2>1. /\ job.src \in Nat /\ job.len \in Nat /\ job.cur \in Nat
          /\ job.src + job.len <= FlashBytes /\ job.len > 0 /\ job.src <= job.cur
      BY DEF FInv, FlashTypeOK, Jobs, JobOK
    <2>2. l \in Lines /\ job.cur < LineBytes * (l + 1) /\ LineBytes * l < job.src + job.len
      BY DEF PageLines, LinesOf
    <2>3. LineBytes * (l + 1) = LineBytes * l + LineBytes /\ LineBytes * l \in Nat
          /\ LineBytes \in Nat
      BY <2>2, LineFacts, Sizes
    <2>4. job.src < LineBytes * l + LineBytes
      BY <2>1, <2>2, <2>3
    <2>5. QED
      BY <2>1, <2>2, <2>4, InsideTouched DEF Touched
  <1>3. QED
    BY <1>1, <1>2

LEMMA ProgramGoesOn ==
    ASSUME FInv, job.pc = "program",
           NEW programmed \in BOOLEAN, NEW skipped \in BOOLEAN,
           job' = [NextPage EXCEPT !.programmed = programmed, !.skipped = skipped],
           flash' \in [Lines -> Contents],
           \A l \in Lines \ PageLines : flash'[l] = flash[l],
           cache' \in [Lines -> Contents \cup {"none"}],
           faults' \in Nat,
           UNCHANGED <<platform, before, settled, jobs>>,
           platform \in Whole => Fresh(Lines)',
           platform \in OnProgram /\ programmed => Fresh(Lines)',
           platform \in ByRange => Fresh(settled)'
    PROVE  FInv'
  <1>1. FlashTypeOK /\ job \in Jobs /\ PageBytes \in Nat
    BY Sizes DEF FInv, FlashTypeOK
  <1>2. /\ job.op = "write" /\ job.ok /\ job.len > 0 /\ jobs > 0 /\ jobs \in Nat
        /\ job.src + job.len <= FlashBytes
        /\ job.src <= job.cur /\ job.cur < job.src + job.len
        /\ job.src \in Nat /\ job.len \in Nat /\ job.cur \in Nat
    BY <1>1 DEF FInv, JobOK, Jobs, FlashTypeOK
  <1>3. /\ job' \in Jobs /\ job'.op = "write" /\ job'.src = job.src /\ job'.len = job.len
        /\ job'.ok /\ job'.programmed = programmed /\ job'.skipped = skipped
        /\ job'.pc \in {"program", "idle"}
        /\ job'.pc = "program" => job.src <= job'.cur /\ job'.cur < job.src + job.len
    <2>1. job.cur + PageBytes \in Nat /\ job.src <= job.cur + PageBytes
      BY <1>1, <1>2
    <2>2. CASE job.cur + PageBytes < job.src + job.len
      <3>1. NextPage = [job EXCEPT !.cur = job.cur + PageBytes]
        BY <2>2 DEF NextPage
      <3>2. QED
        BY <1>1, <1>2, <2>1, <2>2, <3>1 DEF Jobs
    <2>3. CASE ~(job.cur + PageBytes < job.src + job.len)
      <3>1. NextPage = [job EXCEPT !.pc = "idle"]
        BY <2>3 DEF NextPage
      <3>2. QED
        BY <1>1, <1>2, <3>1 DEF Jobs
    <2>4. QED
      BY <2>2, <2>3
  <1>4. FlashTypeOK' /\ Touched' = Touched /\ Reach' = Reach /\ Touched \subseteq Reach
    BY <1>1, <1>3 DEF FlashTypeOK, Touched, Reach, Overreaches, Aligns
  <1>5. JobOK'
    BY <1>1, <1>2, <1>3 DEF JobOK
  <1>6. OutsideKept'
    BY <1>4, PageInRange DEF FInv, OutsideKept
  <1>7. WalkOK' /\ RestoreOK' /\ DoneOK'
    BY <1>3 DEF WalkOK, RestoreOK, DoneOK
  <1>8. CacheOK'
    BY <1>2, <1>3 DEF CacheOK
  <1>9. QED
    BY <1>4, <1>5, <1>6, <1>7, <1>8 DEF FInv

LEMMA ProgramPageKeeps == ASSUME FInv, ProgramPage PROVE FInv'
  <1>1. /\ job.pc = "program"
        /\ flash' = [l \in Lines |-> IF l \in PageLines THEN Over(flash[l], "new")
                                     ELSE flash[l]]
        /\ cache' = Without(cache, ProgrammedLinesDropped(job.cur))
        /\ job' = [NextPage EXCEPT !.programmed = TRUE]
        /\ UNCHANGED <<platform, before, settled, faults, jobs>>
    BY DEF ProgramPage
  <1>2. /\ FlashTypeOK /\ job \in Jobs /\ settled \subseteq Lines /\ faults' \in Nat
        /\ flash \in [Lines -> Contents] /\ cache \in [Lines -> Contents \cup {"none"}]
    BY <1>1 DEF FInv, FlashTypeOK
  <1>3. flash' \in [Lines -> Contents] /\ \A l \in Lines \ PageLines : flash'[l] = flash[l]
    BY <1>1, <1>2 DEF Over, Contents
  <1>4. /\ cache' \in [Lines -> Contents \cup {"none"}]
        /\ \A l \in Lines : cache'[l] = IF l \in ProgrammedLinesDropped(job.cur)
                                        THEN "none" ELSE cache[l]
    BY <1>1, <1>2 DEF Without
  <1>5. platform \in Whole \/ platform \in OnProgram => Fresh(Lines)'
    <2>1. platform \in Whole \/ platform \in OnProgram
              => ProgrammedLinesDropped(job.cur) = Lines
      BY DEF ProgrammedLinesDropped, Whole, OnProgram, ByRange
    <2>2. QED
      BY <1>4, <2>1 DEF Fresh
  <1>6. platform \in ByRange => Fresh(settled)'
    <2> SUFFICES ASSUME platform \in ByRange, NEW l \in settled
                 PROVE  cache'[l] \in {"none", flash'[l]}
      BY <1>1 DEF Fresh
    <2>1. ProgrammedLinesDropped(job.cur) = LinesOf(job.cur, PageBytes)
      BY DEF ProgrammedLinesDropped, Whole, OnProgram, ByRange
    <2>2. l \in Lines /\ cache[l] \in {"none", flash[l]}
      BY <1>1, <1>2 DEF FInv, CacheOK, Fresh
    <2>3. CASE l \in LinesOf(job.cur, PageBytes)
      BY <1>4, <2>1, <2>2, <2>3
    <2>4. CASE l \notin LinesOf(job.cur, PageBytes)
      BY <1>1, <1>3, <1>4, <2>1, <2>2, <2>4, PageInRange
    <2>5. QED
      BY <2>3, <2>4
  <1>7. PICK p \in BOOLEAN, s \in BOOLEAN : p = TRUE /\ s = job.skipped
    BY <1>2 DEF Jobs
  <1>8. job' = [NextPage EXCEPT !.programmed = p, !.skipped = s]
    BY <1>1, <1>2, <1>7 DEF NextPage, Jobs
  <1>9. QED
    BY <1>1, <1>2, <1>3, <1>4, <1>5, <1>6, <1>8, ProgramGoesOn

(* A page that is not programmed leaves the chip and the cache alone.      *)
LEMMA NoProgramKeeps ==
    ASSUME FInv, job.pc = "program", NEW skipped \in BOOLEAN,
           job' = [NextPage EXCEPT !.skipped = skipped], faults' \in Nat,
           UNCHANGED <<platform, flash, cache, before, settled, jobs>>
    PROVE  FInv'
  <1>1. /\ FlashTypeOK /\ job \in Jobs
        /\ flash \in [Lines -> Contents] /\ cache \in [Lines -> Contents \cup {"none"}]
    BY DEF FInv, FlashTypeOK
  <1>2. PICK p \in BOOLEAN : p = job.programmed
    BY <1>1 DEF Jobs
  <1>3. job' = [NextPage EXCEPT !.programmed = p, !.skipped = skipped]
    BY <1>1, <1>2 DEF NextPage, Jobs
  <1>4. job.op = "write"
    BY DEF FInv, JobOK
  <1>5. /\ platform \in Whole => Fresh(Lines)'
        /\ platform \in OnProgram /\ p => Fresh(Lines)'
        /\ platform \in ByRange => Fresh(settled)'
    BY <1>2, <1>4 DEF FInv, CacheOK, Fresh
  <1>6. QED
    BY <1>1, <1>3, <1>5, ProgramGoesOn

LEMMA BlankPageKeeps == ASSUME FInv, BlankPage PROVE FInv'
  <1>1. /\ job.pc = "program" /\ job' = NextPage
        /\ UNCHANGED <<platform, flash, cache, before, settled, faults, jobs>>
    BY DEF BlankPage
  <1>2. job \in Jobs /\ faults' \in Nat
    BY <1>1 DEF FInv, FlashTypeOK
  <1>3. PICK s \in BOOLEAN : s = job.skipped
    BY <1>2 DEF Jobs
  <1>4. job' = [NextPage EXCEPT !.skipped = s]
    BY <1>1, <1>2, <1>3 DEF NextPage, Jobs
  <1>5. QED
    BY <1>1, <1>2, <1>4, NoProgramKeeps

LEMMA ProgramSkippedKeeps == ASSUME FInv, ProgramSkipped PROVE FInv'
  <1>1. /\ job.pc = "program" /\ job' = [NextPage EXCEPT !.skipped = TRUE]
        /\ faults' = faults + 1
        /\ UNCHANGED <<platform, flash, cache, before, settled, jobs>>
    BY DEF ProgramSkipped
  <1>2. faults' \in Nat
    BY <1>1 DEF FInv, FlashTypeOK
  <1>3. PICK s \in BOOLEAN : s = TRUE
    OBVIOUS
  <1>4. job' = [NextPage EXCEPT !.skipped = s]
    BY <1>1, <1>3
  <1>5. QED
    BY <1>1, <1>2, <1>4, NoProgramKeeps

-----------------------------------------------------------------------------
(* The chip erases. *)
LEMMA EraseChipByRangeKeeps == ASSUME FInv, EraseChipByRange PROVE FInv'
  <1>1. FlashBytes \in Nat /\ Protected \in Nat /\ FlashBytes - Protected \in Nat
        /\ Protected + (FlashBytes - Protected) <= FlashBytes /\ 0 + FlashBytes <= FlashBytes
    BY ChipFacts
  <1>2. CASE platform = "W800" /\ Start("chip", Protected, FlashBytes - Protected)
    BY <1>1, <1>2, StartKeeps
  <1>3. CASE platform = "OPL1000A2" /\ Start("chip", 0, FlashBytes)
    BY <1>1, <1>3, StartKeeps
  <1>4. QED
    BY <1>2, <1>3 DEF EraseChipByRange

(* A chip erase that is over: the chip is blank, or the bus did not take it.*)
LEMMA ChipErased ==
    ASSUME FInv, job.pc = "idle", jobs' = jobs + 1, before' = flash,
           platform \notin {"W800", "OPL1000A2", "RDA5981"},
           NEW skipped \in BOOLEAN, skipped => platform \in Whole,
           flash' = IF skipped THEN flash ELSE Blanked(flash, Lines),
           cache' = Without(cache, ChipLinesDropped),
           settled' = Lines, faults' \in Nat,
           job' = [NoJob EXCEPT !.op = "chip", !.len = FlashBytes, !.skipped = skipped],
           UNCHANGED platform
    PROVE  FInv'
  <1>1. /\ FlashTypeOK /\ flash \in [Lines -> Contents] /\ jobs \in Nat
        /\ cache \in [Lines -> Contents \cup {"none"}]
    BY DEF FInv, FlashTypeOK
  <1>2. /\ job' \in Jobs /\ job'.op = "chip" /\ job'.pc = "idle" /\ job'.src = 0
        /\ job'.len = FlashBytes /\ job'.ok /\ ~job'.programmed /\ job'.skipped = skipped
    BY NoJobFacts, Sizes DEF Jobs
  <1>3. /\ flash' \in [Lines -> Contents]
        /\ ~skipped => \A l \in Lines : flash'[l] = "blank"
    BY <1>1 DEF Blanked, Contents
  <1>4. /\ cache' \in [Lines -> Contents \cup {"none"}]
        /\ platform \in Whole \cup ByRange => \A l \in Lines : cache'[l] = "none"
    BY <1>1 DEF Without, ChipLinesDropped
  <1>5. FlashTypeOK'
    BY <1>1, <1>2, <1>3, <1>4 DEF FlashTypeOK
  <1>6. Lines \subseteq Touched' /\ Touched' \subseteq Lines
    <2>1. \A l \in Lines : FlashBytes > 0 /\ l \in Sectors(0, FlashBytes)
      BY ChipTouched
    <2>2. \A l \in Lines : FlashBytes # 0
      BY <2>1, Sizes
    <2>3. Sectors(0, FlashBytes) \subseteq Lines
      BY DEF Sectors, Spread, Around
    <2>4. QED
      BY <1>2, <2>1, <2>2, <2>3 DEF Touched
  <1>7. JobOK'
    BY <1>2, Sizes DEF JobOK
  <1>8. OutsideKept' /\ WalkOK' /\ RestoreOK'
    BY <1>2, <1>6 DEF OutsideKept, Reach, WalkOK, RestoreOK
  <1>9. DoneOK'
    BY <1>2, <1>3, <1>6 DEF DoneOK
  <1>10. CacheOK'
    <2>1. jobs' # 0
      BY <1>1
    <2>2. platform \in Whole \cup ByRange => Fresh(Lines)'
      BY <1>4 DEF Fresh
    <2>3. QED
      BY <1>2, <2>1, <2>2 DEF CacheOK
  <1>11. QED
    BY <1>5, <1>7, <1>8, <1>9, <1>10 DEF FInv

LEMMA EraseChipKeeps == ASSUME FInv, EraseChip PROVE FInv'
  <1>1. /\ platform \notin {"W800", "OPL1000A2", "RDA5981"}
        /\ job.pc = "idle" /\ jobs' = jobs + 1 /\ before' = flash
        /\ flash' = Blanked(flash, Lines)
        /\ cache' = Without(cache, ChipLinesDropped)
        /\ settled' = Lines
        /\ job' = [NoJob EXCEPT !.op = "chip", !.len = FlashBytes]
        /\ UNCHANGED <<platform, faults>>
    BY DEF EraseChip
  <1>2. faults' \in Nat
    BY <1>1 DEF FInv, FlashTypeOK
  <1>3. PICK s \in BOOLEAN : s = NoJob.skipped /\ ~s
    BY NoJobFacts
  <1>4. job' = [NoJob EXCEPT !.op = "chip", !.len = FlashBytes, !.skipped = s]
    BY <1>1, <1>3, NoJobFacts DEF Jobs
  <1>5. flash' = (IF s THEN flash ELSE Blanked(flash, Lines)) /\ (s => platform \in Whole)
    BY <1>1, <1>3
  <1>6. QED
    BY <1>1, <1>2, <1>4, <1>5, ChipErased

LEMMA EraseChipSkippedKeeps == ASSUME FInv, EraseChipSkipped PROVE FInv'
  <1>1. /\ platform \in SpiDriven
        /\ job.pc = "idle" /\ jobs' = jobs + 1 /\ before' = flash
        /\ cache' = Without(cache, ChipLinesDropped)
        /\ settled' = Lines /\ faults' = faults + 1
        /\ job' = [NoJob EXCEPT !.op = "chip", !.len = FlashBytes, !.skipped = TRUE]
        /\ UNCHANGED <<platform, flash>>
    BY DEF EraseChipSkipped
  <1>2. faults' \in Nat
    BY <1>1 DEF FInv, FlashTypeOK
  <1>3. platform \notin {"W800", "OPL1000A2", "RDA5981"} /\ platform \in Whole
    BY <1>1 DEF SpiDriven, Whole
  <1>4. PICK s \in BOOLEAN : s = TRUE
    OBVIOUS
  <1>5. /\ job' = [NoJob EXCEPT !.op = "chip", !.len = FlashBytes, !.skipped = s]
        /\ flash' = IF s THEN flash ELSE Blanked(flash, Lines)
    BY <1>1, <1>4
  <1>6. QED
    BY <1>1, <1>2, <1>3, <1>5, ChipErased

(* The RDA5981 saves the boot sector through the cache, which is what the  *)
(* chip holds as long as nothing has changed the chip before.              *)
LEMMA EraseChipSavingKeeps == ASSUME FInv, EraseChipSaving PROVE FInv'
  <1>1. /\ platform = "RDA5981" /\ job.pc = "idle" /\ jobs' = jobs + 1 /\ before' = flash
        /\ cache' = Filled(BootLines)
        /\ flash' = Blanked(flash, Lines)
        /\ job' = [NoJob EXCEPT !.op = "chip", !.len = FlashBytes, !.pc = "restore",
                                !.saved = [l \in BootLines |-> Mapped(l)]]
        /\ UNCHANGED <<platform, settled, faults>>
    BY DEF EraseChipSaving
  <1>2. /\ FlashTypeOK /\ flash \in [Lines -> Contents] /\ jobs \in Nat
        /\ BootLines \subseteq Lines
    BY DEF FInv, FlashTypeOK, BootLines, LinesOf
  <1> DEFINE saved == [l \in BootLines |-> Mapped(l)]
  <1>3. saved \in [BootLines -> Contents]
    BY <1>2, FilledFacts
  <1>4. /\ job' \in Jobs /\ job'.op = "chip" /\ job'.pc = "restore" /\ job'.src = 0
        /\ job'.len = FlashBytes /\ job'.ok /\ ~job'.programmed /\ ~job'.skipped
        /\ job'.saved = saved
    <2> HIDE DEF saved
    <2>1. job' = [NoJob EXCEPT !.op = "chip", !.len = FlashBytes, !.pc = "restore",
                                !.saved = saved]
      BY <1>1 DEF saved
    <2>2. QED
      BY <1>3, <2>1, NoJobFacts, Sizes DEF Jobs
  <1>5. /\ flash' \in [Lines -> Contents] /\ \A l \in Lines : flash'[l] = "blank"
    BY <1>1 DEF Blanked, Contents
  <1>6. cache' \in [Lines -> Contents \cup {"none"}]
    BY <1>1, <1>2, FilledFacts
  <1>7. FlashTypeOK'
    BY <1>1, <1>2, <1>4, <1>5, <1>6 DEF FlashTypeOK
  <1>8. Lines \subseteq Touched'
    <2>1. \A l \in Lines : FlashBytes > 0 /\ l \in Sectors(0, FlashBytes)
      BY ChipTouched
    <2>2. \A l \in Lines : FlashBytes # 0
      BY <2>1, Sizes
    <2>3. QED
      BY <1>4, <2>1, <2>2 DEF Touched
  <1>9. JobOK'
    BY <1>1, <1>2, <1>4, Sizes DEF JobOK
  <1>10. OutsideKept' /\ WalkOK' /\ DoneOK'
    BY <1>4, <1>8 DEF OutsideKept, Reach, WalkOK, DoneOK
  <1>11. RestoreOK'
    <2>1. ASSUME jobs' = 1, NEW l \in BootLines PROVE saved[l] = before'[l]
      <3>1. jobs = 0
        BY <1>1, <1>2, <2>1
      <3>2. cache[l] \in {"none", flash[l]}
        BY <1>2, <3>1 DEF FInv, CacheOK, Fresh
      <3>3. QED
        BY <1>1, <1>2, <3>2, FilledFacts
    <2> HIDE DEF saved
    <2>2. QED
      BY <1>1, <1>3, <1>4, <1>5, <2>1 DEF RestoreOK
  <1>12. CacheOK'
    <2>1. jobs' # 0
      BY <1>1, <1>2
    <2>2. QED
      BY <1>1, <1>4, <2>1 DEF CacheOK, Whole, ByRange
  <1>13. QED
    BY <1>7, <1>9, <1>10, <1>11, <1>12 DEF FInv

LEMMA RestoreKeeps == ASSUME FInv, RestoreBootSector PROVE FInv'
  <1>1. /\ job.pc = "restore"
        /\ flash' = [l \in Lines |-> IF l \in BootLines
                                     THEN Over(flash[l], job.saved[l]) ELSE flash[l]]
        /\ settled' = Lines
        /\ job' = [job EXCEPT !.pc = "idle", !.saved = <<>>]
        /\ UNCHANGED <<platform, cache, before, faults, jobs>>
    BY DEF RestoreBootSector
  <1>2. /\ FlashTypeOK /\ job \in Jobs /\ jobs \in Nat /\ BootLines \subseteq Lines
        /\ job.op = "chip" /\ platform = "RDA5981" /\ job.src = 0 /\ job.len = FlashBytes
        /\ job.saved \in [BootLines -> Contents]
        /\ \A l \in Lines : flash[l] = "blank"
        /\ jobs = 1 => \A l \in BootLines : job.saved[l] = before[l]
        /\ jobs > 0 /\ job.ok
    BY <1>1 DEF FInv, FlashTypeOK, RestoreOK, JobOK, BootLines, LinesOf
  <1>3. /\ job' \in Jobs /\ job'.op = "chip" /\ job'.pc = "idle" /\ job'.src = 0
        /\ job'.len = FlashBytes /\ job'.ok /\ job'.skipped = job.skipped
    BY <1>1, <1>2 DEF Jobs
  <1>4. /\ flash' \in [Lines -> Contents]
        /\ \A l \in Lines \ BootLines : flash'[l] = "blank"
        /\ \A l \in BootLines : flash'[l] = job.saved[l]
    BY <1>1, <1>2 DEF Over, Contents
  <1>5. FlashTypeOK'
    BY <1>1, <1>2, <1>3, <1>4 DEF FlashTypeOK
  <1>6. JobOK'
    BY <1>1, <1>2, <1>3, Sizes DEF JobOK
  <1>7. Touched' = Touched /\ Lines \subseteq Touched /\ Touched \subseteq Lines
    <2>1. \A l \in Lines : FlashBytes > 0 /\ l \in Sectors(0, FlashBytes)
      BY ChipTouched
    <2>2. \A l \in Lines : FlashBytes # 0
      BY <2>1, Sizes
    <2>3. Sectors(0, FlashBytes) \subseteq Lines
      BY DEF Sectors, Spread, Around
    <2>4. QED
      BY <1>2, <1>3, <2>1, <2>2, <2>3 DEF Touched
  <1>8. OutsideKept' /\ WalkOK' /\ RestoreOK'
    BY <1>3, <1>7 DEF OutsideKept, Reach, WalkOK, RestoreOK
  <1>9. DoneOK'
    <2> SUFFICES ASSUME NEW l \in Touched'
                 PROVE  \/ flash'[l] = "blank"
                        \/ /\ l \in BootLines
                           /\ flash'[l] = before'[l] \/ jobs' > 1
      BY <1>1, <1>2, <1>3 DEF DoneOK, BootLines, LinesOf
    <2>1. l \in Lines
      BY <1>7
    <2>2. jobs > 1 \/ jobs = 1
      BY <1>2
    <2>3. QED
      BY <1>1, <1>2, <1>4, <2>1, <2>2
  <1>10. CacheOK'
    <2>1. jobs' # 0
      BY <1>1, <1>2
    <2>2. QED
      BY <1>1, <1>2, <1>3, <2>1 DEF CacheOK, Whole, ByRange
  <1>11. QED
    BY <1>5, <1>6, <1>8, <1>9, <1>10 DEF FInv

LEMMA FlashNextKeeps == ASSUME FInv, FlashNext PROVE FInv'
  <1>1. ASSUME NEW r \in EraseRanges, Start("erase", r.src, r.len) PROVE FInv'
    <2>1. r.src \in Nat /\ r.len \in Nat /\ r.src + r.len <= FlashBytes
      BY PlatformFlashAssumption
    <2>2. QED
      BY <1>1, <2>1, StartKeeps
  <1>2. ASSUME NEW r \in WriteRanges, Start("write", r.src, r.len) PROVE FInv'
    <2>1. r.src \in Nat /\ r.len \in Nat /\ r.src + r.len <= FlashBytes /\ r.len > 0
      BY PlatformFlashAssumption
    <2>2. QED
      BY <1>2, <2>1, StartKeeps
  <1>3. QED
    BY <1>1, <1>2, EraseNextKeeps, EraseSkippedKeeps, LibraryEraseKeeps, EraseEndKeeps,
       ProgramPageKeeps, BlankPageKeeps, ProgramSkippedKeeps, EraseChipByRangeKeeps,
       EraseChipKeeps, EraseChipSkippedKeeps, EraseChipSavingKeeps, RestoreKeeps DEF FlashNext

-----------------------------------------------------------------------------
(* The commands that read the flash only fill the cache.                   *)
Answers(src, len) ==
    Crc32(src, len) \/ Crc32Fails(src, len) \/ Sha256(src, len) \/ Upload(src, len)

LEMMA NextKeepsFInv == ASSUME FInv, [Next]_vars PROVE FInv'
  <1>1. CASE FlashNext
    BY <1>1, FlashNextKeeps
  <1>2. ASSUME NEW lines, cache' \in {cache, Filled(lines)},
               UNCHANGED <<platform, flash, job, before, settled, faults, jobs>>
        PROVE  FInv'
    BY <1>2, ReadKeepsFInv
  <1>3. CASE UNCHANGED flashVars
    BY <1>2, <1>3 DEF flashVars
  <1>4. ASSUME NEW r \in ReadRanges,
               Answers(r.src, r.len) \/ CrcBegin(r.src, r.len)
        PROVE  FInv'
    <2>1. CASE Crc32(r.src, r.len) \/ Upload(r.src, r.len)
      BY <1>2, <2>1 DEF Crc32, Upload
    <2>2. CASE Sha256(r.src, r.len)
      BY <1>2, <2>2 DEF Sha256
    <2>3. CASE CrcBegin(r.src, r.len) \/ Crc32Fails(r.src, r.len)
      BY <1>3, <2>3 DEF CrcBegin, Crc32Fails
    <2>4. QED
      BY <1>4, <2>1, <2>2, <2>3 DEF Answers
  <1>5. CASE CrcReads
    BY <1>2, <1>5 DEF CrcReads
  <1>6. CASE CrcRuns \/ CrcEnds
    BY <1>3, <1>6 DEF CrcRuns, CrcEnds
  <1>7. CASE UNCHANGED vars
    BY <1>3, <1>7 DEF vars
  <1>8. QED
    BY <1>1, <1>4, <1>5, <1>6, <1>7 DEF Next, Answers

(* What every step of a flash command keeps, on every platform: types, the *)
(* progress of the walk, what the chip erase saves, and which lines of the *)
(* cache may differ from the chip.                                         *)
THEOREM FlashInvariant == Spec => []FInv
  <1>1. Init => FInv
    BY InitFInv DEF Init
  <1>2. FInv /\ [Next]_vars => FInv'
    BY NextKeepsFInv
  <1>3. QED
    BY <1>1, <1>2, PTL DEF Spec

(* flash_erase_range of every platform, for every chip, every size of page,*)
(* sector and block, every range inside the chip and any number of skipped *)
(* SPI commands: nothing outside the sectors of the range is erased, and   *)
(* when the walk is over all of them are blank.                            *)
THEOREM ErasesExactly == Spec => []ErasedExactly
  <1>1. FInv => ErasedExactly
    BY FInvErasedExactly
  <1>2. QED
    BY <1>1, FlashInvariant, PTL

-----------------------------------------------------------------------------
(* What a digest is computed of.  Holds says that a sequence begins with   *)
(* the n bytes of the chip from an address on.                             *)
Bytes == [at : Nat, is : Contents]
ByteAt(x) == [at |-> x, is |-> flash[x \div LineBytes]]
Holds(q, a, n) ==
    /\ q \in Seq(Bytes) /\ Len(q) >= n
    /\ \A i \in 1 .. n : q[i] = ByteAt(a + i - 1)

Chunks  == result.len \div ChunkBytes
Started == Chunks - crc.chunks

CrcTypeOK ==
    /\ crc \in [pc : {"idle", "copy", "start", "tail", "starttail", "finish"},
                src : Nat, chunks : Int, tail : Nat, cur : {0, 1}, active : BOOLEAN]
    /\ dma \in [half : {0, 1}, words : Nat, done : Nat]

(* A range of whole chunks: the DMA engine is one chunk behind the CPU and *)
(* works on the half the CPU does not write.                               *)
ChunkWise ==
    /\ crc.pc \in {"copy", "start", "tail", "finish"} /\ crc.tail = 0
    /\ crc.chunks \in 0 .. Chunks
    /\ crc.pc \in {"copy", "start"} <=> crc.chunks > 0
    /\ crc.active <=> Started > 0
    /\ crc.src = result.src + ChunkBytes * (IF crc.pc = "start" THEN Started + 1 ELSE Started)
    /\ crc.pc = "start" =>
          Holds(buf[crc.cur], result.src + ChunkBytes * Started, ChunkBytes)
    /\ crc.active =>
          /\ dma.half = 1 - crc.cur /\ dma.words = ChunkBytes \div WordBytes
          /\ Holds(buf[1 - crc.cur], result.src + ChunkBytes * (Started - 1), ChunkBytes)
          /\ Len(fed) = ChunkBytes * (Started - 1) + WordBytes * dma.done
    /\ ~crc.active => fed = <<>> /\ dma = NoDma

(* A range shorter than a chunk: its words by the engine, the rest by the  *)
(* CPU, from the half that is not started any more.                        *)
TailOnly ==
    /\ crc.pc \in {"tail", "starttail", "finish"} /\ crc.tail = result.len
    /\ crc.cur = 0 /\ crc.src = result.src
    /\ crc.pc # "tail" => Holds(buf[1], result.src, crc.tail)
    /\ crc.active <=> crc.pc = "finish" /\ crc.tail \div WordBytes > 0
    /\ crc.active => dma.half = 1 /\ dma.words = crc.tail \div WordBytes
    /\ ~crc.active => dma = NoDma
    /\ Len(fed) = WordBytes * dma.done

Covered  == result.len < ChunkBytes \/ result.len % ChunkBytes = 0
HalvesOK ==
    /\ IF result.len < ChunkBytes THEN TailOnly ELSE ChunkWise
    /\ buf \in [{0, 1} -> Seq(Bytes)]
    /\ dma.done <= dma.words
    /\ Holds(fed, result.src, Len(fed))

CrcOK ==
    /\ CrcTypeOK
    /\ crc.pc = "idle" => dma = NoDma /\ buf = [h \in {0, 1} |-> <<>>] /\ fed = <<>>
    /\ crc.pc # "idle" =>
          /\ job.pc = "idle" /\ platform = "RDA5981" /\ result.kind = "none"
          /\ result.src \in Nat /\ result.len \in Nat \ {0}
          /\ result.src + result.len <= FlashBytes
    /\ crc.pc # "idle" /\ Flushed /\ Covered => HalvesOK

ResultTypeOK ==
    /\ result = [kind |-> result.kind, src |-> result.src, len |-> result.len,
                  bytes |-> result.bytes, ok |-> result.ok]
    /\ result.kind \in {"none", "crc32", "sha256", "upload"} /\ result.ok \in BOOLEAN
    /\ result.src \in Nat /\ result.len \in Nat

DigestInv == FInv /\ ResultTypeOK /\ CrcOK /\ ReadsReturnChip

LEMMA ChunkFacts ==
    /\ ChunkBytes \in Nat \ {0} /\ ChunkBytes \div WordBytes \in Nat \ {0}
    /\ ChunkBytes = WordBytes * (ChunkBytes \div WordBytes) /\ WordBytes = 4
  <1>1. ChunkBytes \in Nat \ {0} /\ ChunkBytes % 4 = 0
    BY RdaCrcAssumption DEF WordBytes
  <1>2. QED
    BY <1>1 DEF WordBytes

LEMMA BytesOfChip ==
    ASSUME FlashTypeOK, NEW x \in Nat, x < FlashBytes
    PROVE  x \div LineBytes \in Lines /\ ByteAt(x) \in Bytes
  <1>1. x \div LineBytes \in Lines
    BY LineOfAddress
  <1>2. QED
    BY <1>1 DEF FlashTypeOK, ByteAt, Bytes

LEMMA HoldsAll ==
    ASSUME NEW src \in Nat, NEW len \in Nat, NEW q, Holds(q, src, len), Len(q) = len
    PROVE  q = ChipBytes(src, len)
  <1>1. q \in Seq(Bytes) /\ \A i \in 1 .. len : q[i] = ByteAt(src + i - 1)
    BY DEF Holds
  <1>2. q = [i \in 1 .. len |-> q[i]]
    BY <1>1
  <1>3. ChipBytes(src, len) = [i \in 1 .. len |-> ByteAt(src + i - 1)]
    BY DEF ChipBytes, ByteAt
  <1>4. [i \in 1 .. len |-> q[i]] = [i \in 1 .. len |-> ByteAt(src + i - 1)]
    BY <1>1
  <1>5. QED
    BY <1>2, <1>3, <1>4

(* A read through a cache that agrees with the chip returns the chip.      *)
LEMMA MappedHolds ==
    ASSUME FlashTypeOK, NEW src \in Nat, NEW len \in Nat, src + len <= FlashBytes,
           \A l \in LinesOf(src, len) : Mapped(l) = flash[l]
    PROVE  /\ MappedBytes(src, len) = ChipBytes(src, len)
           /\ Holds(MappedBytes(src, len), src, len) /\ Len(MappedBytes(src, len)) = len
  <1>1. ASSUME NEW i \in 1 .. len
        PROVE  /\ ByteAt(src + i - 1) \in Bytes
               /\ Mapped((src + i - 1) \div LineBytes) = flash[(src + i - 1) \div LineBytes]
    <2> DEFINE x == src + i - 1
               m == x \div LineBytes
    <2>1. x \in Nat /\ x < FlashBytes /\ src <= x /\ x < src + len
      BY Sizes
    <2>2. m \in Lines /\ LineBytes * m <= x /\ x < LineBytes * m + LineBytes
      <3> HIDE DEF x
      <3>1. QED
        BY <2>1, LineOfAddress
    <2>3. ByteAt(x) \in Bytes
      <3> HIDE DEF x
      <3>1. QED
        BY <2>1, BytesOfChip
    <2> HIDE DEF m, x
    <2>4. LineBytes * (m + 1) = LineBytes * m + LineBytes /\ LineBytes * m \in Nat
          /\ LineBytes \in Nat
      BY <2>2, LineFacts, Sizes
    <2>5. m \in LinesOf(src, len)
      BY <2>1, <2>2, <2>4 DEF LinesOf
    <2>6. Mapped(m) = flash[m]
      BY <2>5
    <2>7. QED
      BY <2>3, <2>6 DEF m, x
  <1> DEFINE q == MappedBytes(src, len)
  <1>2. q = [i \in 1 .. len |-> ByteAt(src + i - 1)]
    BY <1>1 DEF MappedBytes, ByteAt
  <1>3. ChipBytes(src, len) = [i \in 1 .. len |-> ByteAt(src + i - 1)]
    BY DEF ChipBytes, ByteAt
  <1>4. q \in Seq(Bytes) /\ Len(q) = len /\ \A i \in 1 .. len : q[i] = ByteAt(src + i - 1)
    <2> HIDE DEF q
    <2>1. q \in [1 .. len -> Bytes]
      BY <1>1, <1>2
    <2>2. q \in Seq(Bytes) /\ Len(q) = len
      BY <2>1
    <2>3. QED
      BY <1>2, <2>2
  <1>5. QED
    BY <1>2, <1>3, <1>4 DEF Holds

(* Bytes that follow are put behind those fed before.                      *)
LEMMA FeedsOn ==
    ASSUME NEW a \in Int, NEW f, Holds(f, a, Len(f)),
           NEW b \in Int, NEW q \in Seq(Bytes), NEW lo \in Nat, NEW hi \in Nat, lo <= hi,
           Holds(q, b, hi), b + lo = a + Len(f)
    PROVE  /\ Len(f \o SubSeq(q, lo + 1, hi)) = Len(f) + (hi - lo)
           /\ Holds(f \o SubSeq(q, lo + 1, hi), a, Len(f) + (hi - lo))
  <1> DEFINE s == SubSeq(q, lo + 1, hi)
             n == Len(f)
             g == f \o s
  <1>1. f \in Seq(Bytes) /\ n \in Nat /\ \A i \in 1 .. n : f[i] = ByteAt(a + i - 1)
    BY DEF Holds
  <1>2. Len(q) \in Nat /\ hi <= Len(q) /\ \A i \in 1 .. hi : q[i] = ByteAt(b + i - 1)
    BY DEF Holds
  <1>3. PICK k \in Nat : k = hi - lo
    OBVIOUS
  <1>4. s \in Seq(Bytes) /\ Len(s) = k /\ \A j \in 1 .. k : s[j] = q[lo + j]
    <2>1. \A i \in 1 .. Len(q) : q[i] \in Bytes
      OBVIOUS
    <2>2. s = [j \in 1 .. k |-> q[lo + j]]
      BY <1>2, <1>3
    <2>3. \A j \in 1 .. k : lo + j \in 1 .. Len(q)
      BY <1>2, <1>3
    <2> HIDE DEF s
    <2>4. s \in [1 .. k -> Bytes]
      BY <2>1, <2>2, <2>3
    <2>5. s \in Seq(Bytes) /\ Len(s) = k
      BY <2>4
    <2>6. QED
      BY <2>2, <2>5
  <1> HIDE DEF s
  <1>5. /\ g \in Seq(Bytes) /\ Len(g) = n + k
        /\ \A i \in 1 .. n : g[i] = f[i]
        /\ \A i \in n + 1 .. n + k : g[i] = s[i - n]
    <2>1. f \in Seq(Bytes) /\ s \in Seq(Bytes) /\ Len(s) = k
      BY <1>1, <1>4
    <2>2. g \in Seq(Bytes) /\ Len(g) = Len(f) + Len(s)
      BY <2>1
    <2>3. \A i \in 1 .. Len(f) + Len(s) :
             g[i] = IF i <= Len(f) THEN f[i] ELSE s[i - Len(f)]
      BY <2>1
    <2> HIDE DEF g
    <2>4. n = Len(f) /\ n \in Nat
      BY <1>1
    <2> HIDE DEF n
    <2>5. QED
      BY <2>1, <2>2, <2>3, <2>4
  <1> HIDE DEF g
  <1>9. b + lo = a + n
    OBVIOUS
  <1>6. ASSUME NEW i \in 1 .. n + k PROVE g[i] = ByteAt(a + i - 1)
    <2>1. CASE i <= n
      BY <1>1, <1>5, <2>1
    <2>2. CASE i > n
      <3>1. i - n \in 1 .. k /\ lo + (i - n) \in 1 .. hi /\ i \in n + 1 .. n + k
        BY <1>1, <1>3, <2>2
      <3>2. g[i] = q[lo + (i - n)]
        BY <1>4, <1>5, <3>1
      <3>3. b + (lo + (i - n)) - 1 = a + i - 1
        <4> HIDE DEF n
        <4>1. QED
          BY <1>1, <1>9
      <3>4. QED
        BY <1>2, <3>1, <3>2, <3>3
    <2>3. QED
      BY <1>1, <2>1, <2>2
  <1>7. Len(g) >= n + k
    BY <1>1, <1>5
  <1>8. QED
    BY <1>3, <1>5, <1>6, <1>7 DEF Holds, g, n, s

LEMMA HoldsLess ==
    ASSUME NEW a \in Int, NEW q, NEW n \in Int, NEW m \in Int, m <= n, Holds(q, a, n)
    PROVE  Holds(q, a, m)
  BY DEF Holds

(* The lines a read can rely on.                                           *)
LEMMA FreshReads ==
    ASSUME FInv, job.pc = "idle", platform # "RTL8710C" \/ jobs = 0, Flushed,
           NEW src \in Nat, NEW len \in Nat, src + len <= FlashBytes,
           platform \in ByRange => LinesOf(src, len) \subseteq settled
    PROVE  /\ MappedBytes(src, len) = ChipBytes(src, len)
           /\ Holds(MappedBytes(src, len), src, len) /\ Len(MappedBytes(src, len)) = len
  <1>1. FlashTypeOK /\ CacheOK
    BY DEF FInv
  <1>2. CASE platform \in Cached
    <2>1. LinesOf(src, len) \subseteq Lines
      BY DEF LinesOf
    <2>2. Fresh(LinesOf(src, len))
      BY <1>1, <1>2, <2>1 DEF CacheOK, Fresh, Cached, Flushed, ByRange, Whole, OnProgram
    <2>3. \A l \in LinesOf(src, len) : cache[l] \in {"none", flash[l]}
      BY <2>2 DEF Fresh
    <2>4. \A l \in LinesOf(src, len) : Mapped(l) = flash[l]
      BY <1>1, <2>1, <2>3, FilledFacts
    <2>5. QED
      BY <1>1, <2>4, MappedHolds
  <1>3. CASE platform \notin Cached
    <2>1. \A l \in LinesOf(src, len) : Mapped(l) = flash[l]
      BY <1>3 DEF Mapped
    <2>2. QED
      BY <1>1, <2>1, MappedHolds
  <1>4. QED
    BY <1>2, <1>3

(* The chip and the range stay what they are while a CRC is computed.      *)
LEMMA CrcGoesOn ==
    ASSUME CrcOK, crc.pc # "idle", CrcTypeOK', crc'.pc # "idle",
           UNCHANGED <<platform, flash, job, jobs, result>>,
           Flushed /\ Covered => HalvesOK'
    PROVE  CrcOK'
  <1>1. (Flushed' <=> Flushed) /\ (Covered' <=> Covered)
    BY DEF Flushed, Covered
  <1>2. QED
    BY <1>1 DEF CrcOK

LEMMA HoldsStays ==
    ASSUME flash' = flash, NEW q, NEW a, NEW n, Holds(q, a, n)
    PROVE  Holds(q, a, n)'
  BY DEF Holds, ByteAt

LEMMA ChunkOrder ==
    ASSUME NEW k \in Nat, NEW len \in Nat, k <= len \div ChunkBytes
    PROVE  ChunkBytes * k <= len /\ ChunkBytes * k \in Nat
  <1>1. ChunkBytes \in Nat \ {0}
    BY ChunkFacts
  <1>2. ChunkBytes * (len \div ChunkBytes) <= len
    BY <1>1, Floor
  <1>3. ChunkBytes * k <= ChunkBytes * (len \div ChunkBytes)
    BY <1>1, MultipleOrder
  <1>4. QED
    BY <1>1, <1>2, <1>3

LEMMA RestOfSeq ==
    ASSUME NEW S, NEW s \in Seq(S), NEW n \in Nat
    PROVE  SubSeq(s, n + 1, Len(s)) \in Seq(S)
  <1>1. PICK m \in Nat : m = Len(s)
    OBVIOUS
  <1>2. PICK k \in Nat : IF m >= n THEN k = m - n ELSE k = 0
    <2>1. CASE m >= n
      <3>1. m - n \in Nat
        BY <1>1, <2>1
      <3>2. QED
        BY <2>1, <3>1
    <2>2. CASE ~(m >= n)
      <3>1. 0 \in Nat
        OBVIOUS
      <3>2. QED
        BY <2>2, <3>1
    <2>3. QED
      BY <2>1, <2>2
  <1>3. \A i \in 1 .. k : s[n + i] \in S
    BY <1>1, <1>2
  <1>4. SubSeq(s, n + 1, m) = [i \in 1 .. k |-> s[n + i]]
    <2>1. CASE m >= n
      BY <1>1, <1>2, <2>1
    <2>2. CASE m < n
      BY <1>1, <1>2, <2>2
    <2>3. QED
      BY <1>1, <2>1, <2>2
  <1>5. [i \in 1 .. k |-> s[n + i]] \in [1 .. k -> S]
    BY <1>3
  <1>6. QED
    BY <1>1, <1>2, <1>4, <1>5

LEMMA ChunkWiseFacts ==
    ASSUME CrcOK, Flushed, Covered, crc.pc # "idle", crc.tail = 0
    PROVE  /\ HalvesOK /\ ChunkWise /\ Chunks \in Nat \ {0} /\ Started \in 0 .. Chunks
           /\ ChunkBytes * Chunks = result.len /\ crc.chunks = Chunks - Started
  <1>1. HalvesOK /\ result.len \in Nat \ {0} /\ ChunkBytes \in Nat \ {0}
    BY ChunkFacts DEF CrcOK
  <1>2. ~(result.len < ChunkBytes)
    BY <1>1 DEF HalvesOK, TailOnly
  <1>3. ChunkWise /\ result.len % ChunkBytes = 0
    BY <1>1, <1>2 DEF HalvesOK, Covered
  <1>4. Chunks \in Int /\ ChunkBytes * Chunks = result.len
    <2>1. PICK n \in Int : n = result.len
      BY <1>1
    <2>2. n \div ChunkBytes \in Int /\ n % ChunkBytes = 0
      BY <1>1, <1>3, <2>1, Floor
    <2>3. n = ChunkBytes * (n \div ChunkBytes)
      BY <1>1, <2>2, Multiple
    <2>4. QED
      BY <2>1, <2>2, <2>3 DEF Chunks
  <1>5. Chunks \in Nat \ {0}
    BY <1>1, <1>2, <1>4
  <1>6. crc.chunks \in 0 .. Chunks
    BY <1>3 DEF ChunkWise
  <1>7. Started \in 0 .. Chunks /\ crc.chunks = Chunks - Started
    <2> HIDE DEF Chunks
    <2>1. QED
      BY <1>5, <1>6 DEF Started
  <1>8. QED
    BY <1>1, <1>3, <1>4, <1>5, <1>7

LEMMA TailOnlyFacts ==
    ASSUME CrcOK, Flushed, Covered, crc.pc # "idle", crc.tail > 0
    PROVE  HalvesOK /\ TailOnly /\ result.len < ChunkBytes
  <1>1. HalvesOK
    BY DEF CrcOK
  <1>2. ~ChunkWise
    BY DEF ChunkWise
  <1>3. QED
    BY <1>1, <1>2 DEF HalvesOK

LEMMA CopyChunkKeeps ==
    ASSUME FInv, CrcOK, crc.pc = "copy", CrcReads
    PROVE  CrcOK'
  <1> DEFINE n == ChunkBytes
             q == MappedBytes(crc.src, n)
  <1>1. /\ buf' = [buf EXCEPT ![crc.cur] = q]
        /\ crc' = [crc EXCEPT !.pc = "start", !.src = crc.src + n]
        /\ UNCHANGED <<dma, fed, platform, flash, job, before, settled, faults, jobs, result>>
    BY DEF CrcReads, CopyChunk, CopyTail
  <1>2. n \in Nat \ {0} /\ CrcTypeOK
    BY ChunkFacts DEF CrcOK
  <1>3. crc.src \in Nat /\ crc.cur \in {0, 1} /\ crc.chunks \in Int
    BY <1>2 DEF CrcTypeOK
  <1> HIDE DEF q, n
  <1>4. /\ crc'.pc = "start" /\ crc'.src = crc.src + n /\ crc'.chunks = crc.chunks
        /\ crc'.tail = crc.tail /\ crc'.cur = crc.cur /\ crc'.active = crc.active
        /\ CrcTypeOK'
    <2>1. crc.src + n \in Nat
      BY <1>2, <1>3
    <2>2. QED
      BY <1>1, <1>2, <1>3, <2>1 DEF CrcTypeOK
  <1>5. ASSUME Flushed, Covered PROVE HalvesOK'
    <2>0. crc.tail = 0
      BY <1>5 DEF CrcOK, HalvesOK, TailOnly, ChunkWise
    <2>1. /\ HalvesOK /\ ChunkWise /\ Chunks \in Nat \ {0} /\ Started \in 0 .. Chunks
          /\ ChunkBytes * Chunks = result.len /\ crc.chunks = Chunks - Started
          /\ ~(result.len < ChunkBytes)
      BY <1>5, <2>0, ChunkWiseFacts DEF HalvesOK, TailOnly
    <2>2. /\ result.src \in Nat /\ result.len \in Nat /\ result.src + result.len <= FlashBytes
          /\ job.pc = "idle" /\ platform = "RDA5981"
      BY DEF CrcOK
    <2>3. Started' = Started /\ Chunks' = Chunks
      BY <1>1, <1>4 DEF Started, Chunks
    <2>4. PICK s \in Nat : s = Started
      BY <2>1
    <2>5. crc.src = result.src + n * s /\ s + 1 <= Chunks
      BY <2>1, <2>4 DEF ChunkWise, n
    <2>6. n * (s + 1) <= result.len /\ n * s \in Nat /\ n * (s + 1) = n * s + n
      <3>1. n * (s + 1) <= result.len
        BY <2>2, <2>4, <2>5, ChunkOrder DEF Chunks, n
      <3>2. QED
        BY <1>2, <2>4, <3>1, MultipleOrder
    <2>7. crc.src + n <= FlashBytes
      BY <1>2, <2>2, <2>5, <2>6, Sizes
    <2>8. Holds(q, crc.src, n) /\ Len(q) = n
      BY <1>2, <1>3, <1>5, <2>2, <2>7, FreshReads DEF q, ByRange
    <2>9. q \in Seq(Bytes) /\ buf \in [{0, 1} -> Seq(Bytes)]
      BY <2>1, <2>8 DEF Holds, HalvesOK
    <2>10. /\ buf' \in [{0, 1} -> Seq(Bytes)] /\ buf'[crc.cur] = q
           /\ buf'[1 - crc.cur] = buf[1 - crc.cur]
      BY <1>1, <1>3, <2>9
    <2>11. Holds(buf'[crc'.cur], result.src + n * s, n)
      BY <1>4, <2>5, <2>8, <2>10
    <2>12. crc'.src = result.src + n * (s + 1)
      BY <1>2, <1>4, <2>2, <2>5, <2>6
    <2>13. ChunkWise'
      <3>1. /\ crc'.chunks \in 0 .. Chunks' /\ crc'.chunks > 0 /\ crc'.tail = 0
            /\ crc'.active <=> Started' > 0
        BY <1>4, <2>1, <2>3, <2>0 DEF ChunkWise
      <3>2. crc'.src = result'.src + ChunkBytes * (Started' + 1)
        BY <1>1, <2>3, <2>4, <2>12 DEF n
      <3>3. Holds(buf'[crc'.cur], result.src + ChunkBytes * Started', ChunkBytes)
        BY <2>3, <2>4, <2>11 DEF n
      <3>4. Holds(buf[crc.cur], result.src + ChunkBytes * Started, ChunkBytes)'
        BY <1>1, <1>4, <2>3, <3>3 DEF Holds, ByteAt
      <3>5. ASSUME crc'.active
            PROVE  /\ dma'.half = 1 - crc'.cur /\ dma'.words = ChunkBytes \div WordBytes
                   /\ Holds(buf[1 - crc.cur], result.src + ChunkBytes * (Started - 1), ChunkBytes)
                   /\ Len(fed') = ChunkBytes * (Started' - 1) + WordBytes * dma'.done
        BY <1>1, <1>4, <2>1, <2>3, <3>5 DEF ChunkWise
      <3>6. crc'.active => Holds(buf[1 - crc.cur], result.src + ChunkBytes * (Started - 1), ChunkBytes)'
        BY <1>1, <1>4, <2>3, <2>10, <3>5 DEF Holds, ByteAt
      <3>7. ~crc'.active => fed' = <<>> /\ dma' = NoDma
        BY <1>1, <1>4, <2>1 DEF ChunkWise
      <3>8. QED
        BY <1>4, <3>1, <3>2, <3>4, <3>5, <3>6, <3>7 DEF ChunkWise
    <2>14. Holds(fed, result.src, Len(fed))' /\ dma'.done <= dma'.words
      BY <1>1, <2>1 DEF HalvesOK, Holds, ByteAt
    <2>15. QED
      BY <1>1, <2>1, <2>10, <2>13, <2>14 DEF HalvesOK
  <1>6. QED
    BY <1>1, <1>4, <1>5, CrcGoesOn

LEMMA CopyTailKeeps ==
    ASSUME FInv, CrcOK, crc.pc = "tail", CrcReads
    PROVE  CrcOK'
  <1> DEFINE n == crc.tail
             q == MappedBytes(crc.src, n)
  <1>1. /\ n > 0
        /\ buf' = [buf EXCEPT ![1 - crc.cur] =
                      q \o SubSeq(buf[1 - crc.cur], Len(q) + 1, Len(buf[1 - crc.cur]))]
        /\ crc' = [crc EXCEPT !.pc = "starttail"]
        /\ UNCHANGED <<dma, fed, platform, flash, job, before, settled, faults, jobs, result>>
    BY DEF CrcReads, CopyChunk, CopyTail
  <1>2. n \in Nat \ {0} /\ CrcTypeOK /\ crc.src \in Nat /\ crc.cur \in {0, 1}
    BY <1>1 DEF CrcOK, CrcTypeOK
  <1> HIDE DEF q
  <1>4. /\ crc'.pc = "starttail" /\ crc'.src = crc.src /\ crc'.chunks = crc.chunks
        /\ crc'.tail = crc.tail /\ crc'.cur = crc.cur /\ crc'.active = crc.active
        /\ CrcTypeOK'
    BY <1>1, <1>2 DEF CrcTypeOK
  <1>5. ASSUME Flushed, Covered PROVE HalvesOK'
    <2>1. HalvesOK /\ TailOnly /\ result.len < ChunkBytes
      BY <1>1, <1>5, TailOnlyFacts
    <2>2. /\ result.src \in Nat /\ result.len \in Nat /\ result.src + result.len <= FlashBytes
          /\ job.pc = "idle" /\ platform = "RDA5981"
      BY DEF CrcOK
    <2>3. crc.src = result.src /\ n = result.len /\ crc.cur = 0
      BY <2>1 DEF TailOnly
    <2>4. Holds(q, crc.src, n) /\ Len(q) = n
      BY <1>2, <1>5, <2>2, <2>3, FreshReads DEF q, ByRange
    <2>5. q \in Seq(Bytes) /\ buf \in [{0, 1} -> Seq(Bytes)]
      BY <2>1, <2>4 DEF Holds, HalvesOK
    <2>6. PICK r \in Seq(Bytes) : r = SubSeq(buf[1], Len(q) + 1, Len(buf[1]))
      <3>1. buf[1] \in Seq(Bytes) /\ Len(q) = n
        BY <2>4, <2>5
      <3>2. QED
        BY <1>2, <3>1, RestOfSeq
    <2>7. q \o r \in Seq(Bytes) /\ Len(q \o r) >= n /\ \A i \in 1 .. n : (q \o r)[i] = q[i]
      BY <1>2, <2>4, <2>5
    <2>8. buf' = [buf EXCEPT ![1] = q \o r]
      BY <1>1, <2>3, <2>6
    <2>9. buf' \in [{0, 1} -> Seq(Bytes)] /\ buf'[1] = q \o r
      BY <2>5, <2>7, <2>8
    <2>10. Holds(buf'[1], result.src, n)
      BY <2>3, <2>4, <2>7, <2>9 DEF Holds
    <2>11. Holds(buf[1], result.src, crc.tail)'
      BY <1>1, <1>4, <2>10 DEF Holds, ByteAt
    <2>12. TailOnly'
      BY <1>1, <1>4, <2>1, <2>11 DEF TailOnly
    <2>13. Holds(fed, result.src, Len(fed))' /\ dma'.done <= dma'.words
      BY <1>1, <2>1 DEF HalvesOK, Holds, ByteAt
    <2>14. QED
      BY <1>1, <2>1, <2>9, <2>12, <2>13 DEF HalvesOK
  <1>6. QED
    BY <1>1, <1>4, <1>5, CrcGoesOn

LEMMA StartChunkKeeps ==
    ASSUME FInv, CrcOK, StartChunk, UNCHANGED <<flashVars, result>>
    PROVE  CrcOK'
  <1> DEFINE w == ChunkBytes \div WordBytes
  <1>1. /\ crc.pc = "start" /\ (crc.active => dma.done = dma.words)
        /\ dma' = [half |-> crc.cur, words |-> w, done |-> 0]
        /\ crc' = [crc EXCEPT !.active = TRUE, !.cur = 1 - crc.cur, !.chunks = crc.chunks - 1,
                              !.pc = IF crc.chunks > 1 THEN "copy" ELSE "tail"]
        /\ UNCHANGED <<buf, fed, platform, flash, job, before, settled, faults, jobs, result>>
    BY DEF StartChunk, DmaDone, flashVars
  <1>2. /\ ChunkBytes \in Nat \ {0} /\ w \in Nat \ {0} /\ ChunkBytes = 4 * w /\ WordBytes = 4
        /\ CrcTypeOK
    BY ChunkFacts DEF CrcOK
  <1> HIDE DEF w
  <1>3. crc.src \in Nat /\ crc.cur \in {0, 1} /\ crc.chunks \in Int
    BY <1>2 DEF CrcTypeOK
  <1>4. /\ crc'.pc = IF crc.chunks > 1 THEN "copy" ELSE "tail"
        /\ crc'.src = crc.src /\ crc'.chunks = crc.chunks - 1 /\ crc'.tail = crc.tail
        /\ crc'.cur = 1 - crc.cur /\ crc'.active = TRUE
        /\ dma'.half = crc.cur /\ dma'.words = w /\ dma'.done = 0
    BY <1>1, <1>2 DEF CrcTypeOK
  <1>5. CrcTypeOK'
    <2>1. crc.chunks - 1 \in Int /\ 1 - crc.cur \in {0, 1}
      BY <1>3
    <2>2. crc'.pc \in {"copy", "tail"} /\ dma' \in [half : {0, 1}, words : Nat, done : Nat]
      BY <1>1, <1>2, <1>3, <1>4
    <2>3. crc' = [pc |-> crc'.pc, src |-> crc.src, chunks |-> crc.chunks - 1,
                  tail |-> crc.tail, cur |-> 1 - crc.cur, active |-> TRUE]
      BY <1>1, <1>2 DEF CrcTypeOK
    <2>4. crc.tail \in Nat
      BY <1>2 DEF CrcTypeOK
    <2>5. crc' \in [pc : {"idle", "copy", "start", "tail", "starttail", "finish"},
                    src : Nat, chunks : Int, tail : Nat, cur : {0, 1}, active : BOOLEAN]
      <3>1. PICK p \in {"copy", "tail"} : p = crc'.pc
        BY <2>2
      <3>2. crc' = [pc |-> p, src |-> crc.src, chunks |-> crc.chunks - 1,
                    tail |-> crc.tail, cur |-> 1 - crc.cur, active |-> TRUE]
        BY <2>3, <3>1
      <3>3. QED
        BY <1>3, <2>1, <2>4, <3>1, <3>2
    <2>6. QED
      BY <2>2, <2>5 DEF CrcTypeOK
  <1>6. ASSUME Flushed, Covered PROVE HalvesOK'
    <2>0. crc.tail = 0
      BY <1>1, <1>6 DEF CrcOK, HalvesOK, TailOnly, ChunkWise
    <2>1. /\ HalvesOK /\ ChunkWise /\ Chunks \in Nat \ {0} /\ Started \in 0 .. Chunks
          /\ crc.chunks = Chunks - Started /\ ~(result.len < ChunkBytes)
      BY <1>1, <1>6, <2>0, ChunkWiseFacts DEF HalvesOK, TailOnly
    <2>2. result.src \in Nat
      BY <1>1 DEF CrcOK
    <2>3. PICK s \in Nat : s = Started
      BY <2>1
    <2>4. PICK c \in Nat : c = Chunks
      BY <2>1
    <2>5. Chunks' = c
      BY <1>1, <2>4 DEF Chunks
    <2>6. crc.chunks = c - s /\ crc.chunks > 0 /\ s <= c
      BY <1>1, <2>1, <2>3, <2>4 DEF ChunkWise
    <2>7. Started' = s + 1
      BY <1>4, <2>5, <2>6 DEF Started
    <2>8. /\ crc.src = result.src + ChunkBytes * (s + 1)
          /\ Holds(buf[crc.cur], result.src + ChunkBytes * s, ChunkBytes)
      BY <1>1, <2>1, <2>3 DEF ChunkWise
    <2>9. s + 1 - 1 = s
      OBVIOUS
    <2>10. Len(fed) = ChunkBytes * s
      <3>1. CASE crc.active
        <4>1. dma.done = w /\ Len(fed) = ChunkBytes * (s - 1) + 4 * w
          BY <1>1, <1>2, <2>1, <2>3, <3>1 DEF ChunkWise, w
        <4>2. ChunkBytes * ((s - 1) + 1) = ChunkBytes * (s - 1) + ChunkBytes
          BY <1>2, MultipleOrder
        <4>3. (s - 1) + 1 = s
          OBVIOUS
        <4>4. QED
          BY <1>2, <4>1, <4>2, <4>3
      <3>2. CASE ~crc.active
        <4>1. s = 0 /\ fed = <<>>
          BY <2>1, <2>3, <3>2 DEF ChunkWise
        <4>2. QED
          BY <1>2, <4>1
      <3>3. QED
        BY <3>1, <3>2
    <2>11. ChunkWise'
      <3>1. /\ crc'.pc \in {"copy", "tail"} /\ crc'.tail = 0
            /\ crc'.chunks \in 0 .. Chunks' /\ (crc'.pc = "copy" <=> crc'.chunks > 0)
            /\ (crc'.active <=> Started' > 0)
        BY <1>4, <2>0, <2>5, <2>6, <2>7
      <3>2. crc'.src = result'.src + ChunkBytes * Started'
        BY <1>1, <1>4, <2>7, <2>8
      <3>3. /\ dma'.half = 1 - crc'.cur /\ dma'.words = ChunkBytes \div WordBytes
            /\ Len(fed') = ChunkBytes * (Started' - 1) + WordBytes * dma'.done
        <4>1. dma'.half = 1 - crc'.cur
          BY <1>3, <1>4
        <4>2. ChunkBytes * s \in Int
          BY <1>2
        <4>3. Len(fed') = ChunkBytes * (Started' - 1) + WordBytes * dma'.done
          BY <1>1, <1>2, <1>4, <2>7, <2>9, <2>10, <4>2
        <4>4. QED
          BY <1>4, <4>1, <4>3 DEF w
      <3>4. Holds(buf[1 - crc.cur], result.src + ChunkBytes * (Started - 1), ChunkBytes)'
        <4>1. 1 - crc'.cur = crc.cur
          BY <1>3, <1>4
        <4>2. Started' - 1 = s
          BY <2>7
        <4>3. QED
          BY <1>1, <2>8, <4>1, <4>2 DEF Holds, ByteAt
      <3>5. QED
        BY <1>4, <3>1, <3>2, <3>3, <3>4 DEF ChunkWise
    <2>12. Holds(fed, result.src, Len(fed))' /\ dma'.done <= dma'.words
      BY <1>1, <1>2, <1>4, <2>1 DEF HalvesOK, Holds, ByteAt
    <2>13. QED
      BY <1>1, <2>1, <2>11, <2>12 DEF HalvesOK
  <1>7. crc.pc # "idle" /\ crc'.pc # "idle"
    BY <1>1, <1>4
  <1>8. QED
    BY <1>1, <1>5, <1>6, <1>7, CrcGoesOn

LEMMA NoTailKeeps ==
    ASSUME CrcOK, NoTail, UNCHANGED <<flashVars, result>>
    PROVE  CrcOK'
  <1>1. /\ crc.pc = "tail" /\ crc.tail = 0 /\ crc' = [crc EXCEPT !.pc = "finish"]
        /\ UNCHANGED <<buf, dma, fed, platform, flash, job, before, settled, faults, jobs, result>>
    BY DEF NoTail, flashVars
  <1>2. CrcTypeOK
    BY DEF CrcOK
  <1>3. /\ crc'.pc = "finish" /\ crc'.src = crc.src /\ crc'.chunks = crc.chunks
        /\ crc'.tail = crc.tail /\ crc'.cur = crc.cur /\ crc'.active = crc.active
        /\ CrcTypeOK'
    BY <1>1, <1>2 DEF CrcTypeOK
  <1>4. ASSUME Flushed, Covered PROVE HalvesOK'
    <2>1. HalvesOK /\ ChunkWise /\ ~(result.len < ChunkBytes)
      <3>1. result.len \in Nat \ {0}
        BY <1>1 DEF CrcOK
      <3>2. QED
        BY <1>1, <1>4, <3>1, ChunkWiseFacts DEF HalvesOK, TailOnly
    <2>2. Started' = Started /\ Chunks' = Chunks
      BY <1>1, <1>3 DEF Started, Chunks
    <2>3. ChunkWise'
      BY <1>1, <1>3, <2>1, <2>2 DEF ChunkWise, Holds, ByteAt
    <2>4. Holds(fed, result.src, Len(fed))'
      BY <1>1, <2>1 DEF HalvesOK, Holds, ByteAt
    <2>5. QED
      BY <1>1, <2>1, <2>3, <2>4 DEF HalvesOK
  <1>5. QED
    BY <1>1, <1>3, <1>4, CrcGoesOn

LEMMA StartTailKeeps ==
    ASSUME CrcOK, StartTail, UNCHANGED <<flashVars, result>>
    PROVE  CrcOK'
  <1> DEFINE w == crc.tail \div WordBytes
  <1>1. /\ crc.pc = "starttail"
        /\ dma' = IF w > 0 THEN [half |-> 1 - crc.cur, words |-> w, done |-> 0] ELSE dma
        /\ crc' = [crc EXCEPT !.active = w > 0, !.pc = "finish"]
        /\ UNCHANGED <<buf, fed, platform, flash, job, before, settled, faults, jobs, result>>
    BY DEF StartTail, flashVars
  <1>2. CrcTypeOK /\ crc.tail \in Nat /\ crc.cur \in {0, 1}
    BY DEF CrcOK, CrcTypeOK
  <1>3. w \in Nat /\ (w > 0) \in BOOLEAN
    BY <1>2 DEF WordBytes
  <1> HIDE DEF w
  <1>4. /\ crc'.pc = "finish" /\ crc'.src = crc.src /\ crc'.chunks = crc.chunks
        /\ crc'.tail = crc.tail /\ crc'.cur = crc.cur /\ crc'.active = (w > 0)
        /\ crc' \in [pc : {"idle", "copy", "start", "tail", "starttail", "finish"},
                     src : Nat, chunks : Int, tail : Nat, cur : {0, 1}, active : BOOLEAN]
    BY <1>1, <1>2, <1>3 DEF CrcTypeOK
  <1>5. dma' \in [half : {0, 1}, words : Nat, done : Nat]
    <2>1. CASE w > 0
      BY <1>1, <1>2, <1>3, <2>1
    <2>2. CASE ~(w > 0)
      BY <1>1, <1>2, <2>2 DEF CrcTypeOK
    <2>3. QED
      BY <2>1, <2>2
  <1>6. CrcTypeOK'
    BY <1>4, <1>5 DEF CrcTypeOK
  <1>7. ASSUME Flushed, Covered PROVE HalvesOK'
    <2>1. HalvesOK /\ TailOnly /\ result.len < ChunkBytes
      BY <1>1, <1>7 DEF CrcOK, HalvesOK, ChunkWise
    <2>2. crc.cur = 0 /\ ~crc.active /\ dma = NoDma /\ Len(fed) = 4 * dma.done
      BY <1>1, <2>1 DEF TailOnly, WordBytes
    <2>3. /\ w > 0 => dma'.half = 1 /\ dma'.words = w /\ dma'.done = 0
          /\ ~(w > 0) => dma' = NoDma /\ dma'.done = 0 /\ dma'.words = 0
      BY <1>1, <1>3, <2>2 DEF NoDma
    <2>4. Len(fed') = WordBytes * dma'.done
      BY <1>1, <1>3, <2>2, <2>3 DEF NoDma, WordBytes
    <2>5. Holds(buf[1], result.src, crc.tail)'
      BY <1>1, <1>4, <2>1 DEF TailOnly, Holds, ByteAt
    <2>6. crc'.tail \div WordBytes = w
      BY <1>4 DEF w
    <2>7. TailOnly'
      BY <1>1, <1>4, <2>1, <2>2, <2>3, <2>4, <2>5, <2>6 DEF TailOnly
    <2>8. Holds(fed, result.src, Len(fed))' /\ dma'.done <= dma'.words
      <3>1. dma'.done <= dma'.words
        BY <1>3, <2>3
      <3>2. QED
        BY <1>1, <2>1, <3>1 DEF HalvesOK, Holds, ByteAt
    <2>9. QED
      BY <1>1, <2>1, <2>7, <2>8 DEF HalvesOK
  <1>8. QED
    BY <1>1, <1>4, <1>6, <1>7, CrcGoesOn

(* One word of the half the engine works on.                               *)
LEMMA DmaFeeds ==
    ASSUME CrcTypeOK, HalvesOK, DmaStep, result.src \in Nat, UNCHANGED <<flash, result>>,
           NEW b \in Int, Holds(buf[dma.half], b, WordBytes * (dma.done + 1)),
           b + WordBytes * dma.done = result.src + Len(fed)
    PROVE  Len(fed') = Len(fed) + WordBytes /\ Holds(fed, result.src, Len(fed))'
  <1>1. dma.done \in Nat /\ dma.half \in {0, 1} /\ Len(fed) \in Nat
    BY DEF CrcTypeOK, HalvesOK, Holds
  <1>2. PICK q \in Seq(Bytes) : q = buf[dma.half]
    BY <1>1 DEF HalvesOK
  <1>3. PICK lo \in Nat : lo = WordBytes * dma.done
    BY <1>1 DEF WordBytes
  <1>4. PICK hi \in Nat : hi = WordBytes * (dma.done + 1)
    BY <1>1 DEF WordBytes
  <1>5. hi = lo + 4
    BY SMTT(30), <1>1, <1>3, <1>4 DEF WordBytes
  <1>6. PICK f : f = fed
    OBVIOUS
  <1>7. PICK a \in Int : a = result.src
    OBVIOUS
  <1>8. Holds(f, a, Len(f)) /\ Holds(q, b, hi) /\ b + lo = a + Len(f)
    BY <1>2, <1>3, <1>4, <1>6, <1>7 DEF HalvesOK
  <1>9. /\ Len(f \o SubSeq(q, lo + 1, hi)) = Len(f) + (hi - lo)
        /\ Holds(f \o SubSeq(q, lo + 1, hi), a, Len(f) + (hi - lo))
    <2>1. lo <= hi
      BY <1>3, <1>5
    <2>2. QED
      BY <1>8, <2>1, FeedsOn
  <1>10. PICK g : g = f \o SubSeq(q, lo + 1, hi)
    OBVIOUS
  <1>11. fed' = g
    BY <1>2, <1>3, <1>4, <1>6, <1>10 DEF DmaStep
  <1>12. hi - lo = 4 /\ Len(g) = Len(f) + 4
    <2>1. hi - lo = 4
      BY <1>3, <1>5
    <2>2. QED
      BY <1>9, <1>10, <2>1
  <1>13. Holds(g, a, Len(g))
    BY <1>9, <1>10, <1>12
  <1>14. Holds(fed, result.src, Len(fed))'
    BY <1>7, <1>11, <1>13 DEF Holds, ByteAt
  <1>15. QED
    BY <1>6, <1>11, <1>12, <1>14 DEF WordBytes

LEMMA DmaStepKeeps ==
    ASSUME CrcOK, DmaStep, UNCHANGED <<flashVars, result>>
    PROVE  CrcOK'
  <1>1. /\ dma.done < dma.words /\ dma' = [dma EXCEPT !.done = dma.done + 1]
        /\ UNCHANGED <<crc, buf, platform, flash, job, before, settled, faults, jobs, result>>
    BY DEF DmaStep, flashVars
  <1>2. CrcTypeOK
    BY DEF CrcOK
  <1>3. /\ dma'.half = dma.half /\ dma'.words = dma.words /\ dma'.done = dma.done + 1
        /\ dma.done \in Nat /\ dma.words \in Nat /\ dma.done + 1 \in Nat
        /\ CrcTypeOK'
    BY <1>1, <1>2 DEF CrcTypeOK
  <1>4. dma # NoDma
    BY <1>1 DEF NoDma
  <1>5. crc.pc # "idle" /\ crc'.pc # "idle"
    BY <1>1, <1>4 DEF CrcOK
  <1>6. result.src \in Nat /\ result.len \in Nat \ {0}
    BY <1>5 DEF CrcOK
  <1>7. ChunkBytes \in Nat \ {0} /\ ChunkBytes = 4 * (ChunkBytes \div WordBytes) /\ WordBytes = 4
        /\ ChunkBytes \div WordBytes \in Nat
    BY ChunkFacts
  <1>8. PICK d \in Nat : d = dma.done
    BY <1>3
  <1>9. ASSUME Flushed, Covered, result.len < ChunkBytes PROVE HalvesOK'
    <2>1. HalvesOK /\ TailOnly
      BY <1>5, <1>9 DEF CrcOK, HalvesOK
    <2>2. /\ crc.active /\ dma.half = 1 /\ dma.words = crc.tail \div WordBytes
          /\ Len(fed) = 4 * d /\ crc.tail \in Nat /\ crc.pc = "finish"
          /\ Holds(buf[1], result.src, crc.tail)
      BY <1>2, <1>4, <1>7, <1>8, <2>1 DEF TailOnly, CrcTypeOK
    <2>3. 4 * (d + 1) <= crc.tail /\ 4 * (d + 1) \in Nat
      <3>1. PICK t \in Nat : t = crc.tail
        BY <2>2
      <3>2. d < t \div 4
        BY <1>1, <1>7, <1>8, <2>2, <3>1
      <3>3. 4 * (d + 1) <= t /\ 4 * (d + 1) \in Nat
        BY <3>2
      <3>4. QED
        BY <3>1, <3>3
    <2>4. Holds(buf[1], result.src, 4 * (d + 1))
      BY <1>6, <2>2, <2>3, HoldsLess
    <2>5. Len(fed') = Len(fed) + 4 /\ Holds(fed, result.src, Len(fed))'
      <3>1. PICK b \in Int : b = result.src
        BY <1>6
      <3>2. Holds(buf[dma.half], b, 4 * (d + 1)) /\ b + 4 * d = result.src + Len(fed)
        BY <2>2, <2>4, <3>1
      <3>3. QED
        BY <1>1, <1>2, <1>6, <1>7, <1>8, <2>1, <3>2, DmaFeeds
    <2>6. Len(fed') = WordBytes * dma'.done
      BY <1>3, <1>7, <1>8, <2>2, <2>5
    <2>7. TailOnly'
      BY <1>1, <1>3, <2>1, <2>2, <2>6 DEF TailOnly, Holds, ByteAt
    <2>8. dma'.done <= dma'.words
      BY <1>1, <1>3
    <2>9. QED
      BY <1>1, <1>9, <2>1, <2>5, <2>7, <2>8 DEF HalvesOK
  <1>10. ASSUME Flushed, Covered, ~(result.len < ChunkBytes) PROVE HalvesOK'
    <2>1. HalvesOK /\ ChunkWise /\ crc.tail = 0
      BY <1>5, <1>10 DEF CrcOK, HalvesOK, ChunkWise
    <2>2. Started \in 0 .. Chunks /\ Chunks \in Nat
      BY <1>5, <1>10, <2>1, ChunkWiseFacts
    <2>3. PICK s \in Nat : s = Started
      BY <2>2
    <2>4. PICK base \in Int : base = ChunkBytes * (s - 1)
      BY <1>7
    <2>5. PICK b \in Int : b = result.src + base
      BY <1>6
    <2>6. /\ crc.active /\ dma.half = 1 - crc.cur /\ dma.words = ChunkBytes \div WordBytes
          /\ Len(fed) = base + 4 * d
          /\ Holds(buf[dma.half], b, ChunkBytes)
      BY <1>4, <1>7, <1>8, <2>1, <2>3, <2>4, <2>5 DEF ChunkWise
    <2>7. 4 * (d + 1) <= ChunkBytes /\ 4 * (d + 1) \in Nat
      BY SMTT(30), <1>1, <1>7, <1>8, <2>6
    <2>8. Holds(buf[dma.half], b, 4 * (d + 1))
      BY <1>7, <2>6, <2>7, HoldsLess
    <2>9. b + 4 * d = result.src + Len(fed)
      BY <1>6, <2>4, <2>5, <2>6
    <2>10. Len(fed') = Len(fed) + 4 /\ Holds(fed, result.src, Len(fed))'
      BY <1>1, <1>2, <1>6, <1>7, <1>8, <2>1, <2>8, <2>9, DmaFeeds
    <2>11. Started' = Started /\ Chunks' = Chunks
      BY <1>1 DEF Started, Chunks
    <2>12. Len(fed') = ChunkBytes * (Started' - 1) + WordBytes * dma'.done
      BY SMTT(30), <1>3, <1>7, <1>8, <2>3, <2>4, <2>6, <2>10, <2>11
    <2>13. ChunkWise'
      BY <1>1, <1>3, <2>1, <2>6, <2>11, <2>12 DEF ChunkWise, Holds, ByteAt
    <2>14. dma'.done <= dma'.words
      BY <1>1, <1>3
    <2>15. QED
      BY <1>1, <1>10, <2>1, <2>10, <2>13, <2>14 DEF HalvesOK
  <1>11. QED
    BY <1>1, <1>3, <1>5, <1>9, <1>10, CrcGoesOn

LEMMA CrcBeginKeeps ==
    ASSUME CrcOK, NEW r \in ReadRanges, CrcBegin(r.src, r.len)
    PROVE  CrcOK'
  <1>1. r.src \in Nat /\ r.len \in Nat \ {0} /\ r.src + r.len <= FlashBytes
    BY ReadRangesAssumption
  <1>2. PICK len \in Nat : len = r.len
    BY <1>1
  <1>3. PICK n \in Int : n = len \div ChunkBytes
    BY <1>2, ChunkFacts, Floor
  <1>4. /\ job.pc = "idle" /\ crc.pc = "idle" /\ platform = "RDA5981"
        /\ crc' = [NoCrc EXCEPT !.src = r.src, !.chunks = n, !.tail = len % ChunkBytes,
                                !.pc = IF n > 0 THEN "copy" ELSE "tail"]
        /\ fed' = <<>> /\ result' = [NoResult EXCEPT !.src = r.src, !.len = r.len]
        /\ UNCHANGED <<buf, dma, platform, flash, job, jobs>>
    BY <1>2, <1>3 DEF CrcBegin, MainLoopFree, Begin, flashVars
  <1>5. dma' = NoDma /\ buf' = [h \in {0, 1} |-> <<>>]
    BY <1>4 DEF CrcOK
  <1>6. ChunkBytes \in Nat \ {0} /\ len % ChunkBytes \in 0 .. ChunkBytes - 1
    BY <1>2, ChunkFacts
  <1>7. n \in Nat /\ (n > 0 <=> len >= ChunkBytes)
    <2>1. ChunkBytes * n <= len /\ len < ChunkBytes * n + ChunkBytes
      <3>1. PICK b \in Nat \ {0} : b = ChunkBytes
        BY <1>6
      <3>2. b * (len \div b) <= len /\ len < b * (len \div b) + b
        BY Floor
      <3>3. QED
        BY <1>3, <3>1, <3>2
    <2>2. ChunkBytes * 0 = 0 /\ ChunkBytes * 1 = ChunkBytes /\ ChunkBytes * n \in Int
      BY <1>6
    <2>3. n < 0 => ChunkBytes * n + ChunkBytes <= ChunkBytes * 0
      BY <1>6, MultipleOrder
    <2>4. n > 0 => ChunkBytes * 0 + ChunkBytes <= ChunkBytes * n
      BY <1>6, MultipleOrder
    <2>5. n = 0 => ChunkBytes * n = 0
      BY <1>6
    <2>6. ~(n < 0) /\ (n > 0 => len >= ChunkBytes) /\ (n = 0 => len < ChunkBytes)
      BY <1>2, <1>6, <2>1, <2>2, <2>3, <2>4, <2>5
    <2>7. QED
      BY <1>2, <1>6, <2>6
  <1>8. /\ crc'.pc = (IF n > 0 THEN "copy" ELSE "tail")
        /\ crc'.src = r.src /\ crc'.chunks = n /\ crc'.tail = len % ChunkBytes
        /\ crc'.cur = 0 /\ crc'.active = FALSE /\ CrcTypeOK'
    <2>1. PICK t \in Nat : t = len % ChunkBytes
      BY <1>6
    <2>2. PICK p \in {"copy", "tail"} : p = IF n > 0 THEN "copy" ELSE "tail"
      OBVIOUS
    <2>3. crc' = [pc |-> p, src |-> r.src, chunks |-> n, tail |-> t, cur |-> 0, active |-> FALSE]
      BY <1>4, <2>1, <2>2 DEF NoCrc
    <2>4. crc' \in [pc : {"idle", "copy", "start", "tail", "starttail", "finish"},
                    src : Nat, chunks : Int, tail : Nat, cur : {0, 1}, active : BOOLEAN]
      BY <1>1, <1>3, <2>1, <2>2, <2>3
    <2>5. dma' \in [half : {0, 1}, words : Nat, done : Nat]
      BY <1>5 DEF NoDma
    <2>6. QED
      BY <2>1, <2>2, <2>3, <2>4, <2>5 DEF CrcTypeOK
  <1>9. result'.kind = "none" /\ result'.src = r.src /\ result'.len = len
    BY <1>2, <1>4 DEF NoResult
  <1>10. crc'.pc # "idle" /\ Chunks' = n /\ Started' = 0
    <2>1. Chunks' = n
      BY <1>3, <1>9 DEF Chunks
    <2>2. QED
      BY <1>7, <1>8, <2>1 DEF Started
  <1>11. ASSUME Covered' PROVE HalvesOK'
    <2>1. CASE len < ChunkBytes
      <3>1. n = 0 /\ len % ChunkBytes = len
        <4>1. n = 0
          BY <1>6, <1>7, <2>1
        <4>2. len \in 0 .. ChunkBytes - 1 /\ len = ChunkBytes * 0 + len
          BY <1>2, <1>6, <2>1
        <4>3. QED
          BY <1>2, <1>6, <4>1, <4>2, ModUnique
      <3>2. TailOnly'
        BY <1>5, <1>4, <1>8, <1>9, <3>1 DEF TailOnly, NoDma, WordBytes
      <3>3. QED
        BY <1>4, <1>5, <1>9, <2>1, <3>2 DEF HalvesOK, NoDma, Holds
    <2>2. CASE ~(len < ChunkBytes)
      <3>1. n > 0 /\ len % ChunkBytes = 0
        BY <1>2, <1>6, <1>7, <1>9, <1>11, <2>2 DEF Covered
      <3>2. crc'.src = result'.src + ChunkBytes * 0
        BY <1>1, <1>6, <1>8, <1>9
      <3>3. ChunkWise'
        BY <1>4, <1>5, <1>7, <1>8, <1>9, <1>10, <3>1, <3>2 DEF ChunkWise
      <3>4. QED
        BY <1>4, <1>5, <1>9, <2>2, <3>3 DEF HalvesOK, NoDma, Holds
    <2>3. QED
      BY <2>1, <2>2
  <1>12. QED
    BY <1>1, <1>2, <1>4, <1>8, <1>9, <1>10, <1>11 DEF CrcOK

LEMMA FourParts ==
    ASSUME NEW n \in Nat
    PROVE  n % 4 \in 0 .. 3 /\ n = 4 * (n \div 4) + (n % 4)
  <1>1. PICK q \in Int : q = n \div 4 /\ 4 * q <= n /\ n < 4 * q + 4
    BY Floor
  <1>2. PICK r \in 0 .. 3 : r = n - 4 * q
    BY <1>1
  <1>3. n = 4 * q + r
    BY <1>2
  <1>4. n % 4 = r
    BY <1>3, ModUnique
  <1>5. QED
    BY <1>1, <1>3, <1>4

(* The digest of the CRC unit is that of the range.                        *)
LEMMA CrcEndsTrue ==
    ASSUME CrcOK, ResultTypeOK, CrcEnds, Flushed, Covered
    PROVE  result'.bytes = ChipBytes(result.src, result.len)
  <1>1. /\ crc.pc = "finish" /\ (crc.active => dma.done = dma.words)
        /\ result' = [result EXCEPT !.kind = "crc32", !.bytes = CrcResult]
    BY DEF CrcEnds, Finished, DmaDone
  <1>2. HalvesOK /\ CrcTypeOK /\ result.src \in Nat /\ result.len \in Nat \ {0}
    BY <1>1 DEF CrcOK
  <1>3. PICK src \in Nat : src = result.src
    BY <1>2
  <1>4. PICK len \in Nat : len = result.len /\ len > 0
    BY <1>2
  <1>5. PICK f : f = fed
    OBVIOUS
  <1>6. Holds(f, src, Len(f)) /\ f \in Seq(Bytes) /\ Len(f) \in Nat
    BY <1>2, <1>3, <1>5 DEF HalvesOK, Holds
  <1>7. PICK g : g = CrcResult
    OBVIOUS
  <1>8. Holds(g, src, len) /\ Len(g) = len
    <2>1. CASE ~(len < ChunkBytes)
      <3>1. ChunkWise /\ crc.tail = 0 /\ ~(crc.chunks > 0)
        BY <1>1, <1>2, <1>4, <2>1 DEF HalvesOK, ChunkWise
      <3>2. Chunks \in Nat \ {0} /\ Started \in 0 .. Chunks /\ ChunkBytes * Chunks = len
            /\ crc.chunks = Chunks - Started /\ crc.chunks \in 0 .. Chunks
        BY <1>1, <1>4, <3>1, ChunkWiseFacts DEF ChunkWise
      <3>3. PICK c \in Nat : c = Chunks /\ c > 0
        BY <3>2
      <3>4. Started = c
        BY <3>1, <3>2, <3>3
      <3>5. /\ dma.done = ChunkBytes \div WordBytes
            /\ Len(f) = ChunkBytes * (c - 1) + WordBytes * dma.done
        BY <1>1, <1>5, <3>1, <3>3, <3>4 DEF ChunkWise
      <3>6. ChunkBytes * ((c - 1) + 1) = ChunkBytes * (c - 1) + ChunkBytes
        BY <3>3, ChunkFacts, MultipleOrder
      <3>7. (c - 1) + 1 = c
        OBVIOUS
      <3>8. Len(f) = len
        BY <3>2, <3>3, <3>5, <3>6, <3>7, ChunkFacts
      <3>9. g = f
        BY <1>5, <1>7, <3>1 DEF CrcResult, WordBytes
      <3>10. QED
        BY <1>6, <3>8, <3>9
    <2>2. CASE len < ChunkBytes
      <3>1. TailOnly /\ crc.tail = len /\ crc.cur = 0 /\ Holds(buf[1], src, len)
        BY <1>1, <1>2, <1>3, <1>4, <2>2 DEF HalvesOK, TailOnly
      <3>2. /\ crc.active <=> len \div 4 > 0
            /\ Len(f) = 4 * dma.done
            /\ crc.active => dma.done = len \div 4
            /\ ~crc.active => dma.done = 0
        BY <1>1, <1>5, <3>1 DEF TailOnly, NoDma, WordBytes
      <3>3. PICK lo \in Nat : lo = len - (len % 4) /\ lo <= len
        BY <1>4
      <3>4. Len(f) = lo /\ (~crc.active => lo = 0) /\ (len % 4 = 0 => lo = len)
        <4>1. PICK m \in Nat : m = len \div 4
          BY <1>4
        <4>2. len % 4 \in 0 .. 3 /\ len = 4 * (len \div 4) + (len % 4)
          BY FourParts
        <4>3. lo = 4 * m
          BY <3>3, <4>1, <4>2
        <4>4. dma.done = m
          BY <3>2, <4>1
        <4>5. ~crc.active => m = 0
          BY <3>2, <4>1
        <4>6. QED
          BY <1>4, <3>2, <3>3, <4>2, <4>3, <4>4, <4>5
      <3>5. CASE len % 4 = 0
        <4>1. g = f
          BY <1>5, <1>7, <3>1, <3>5 DEF CrcResult, WordBytes
        <4>2. QED
          BY <1>6, <3>4, <3>5, <4>1
      <3>6. CASE len % 4 # 0
        <4>1. PICK q \in Seq(Bytes) : q = buf[1]
          BY <1>2 DEF HalvesOK
        <4>2. TailBytes = SubSeq(q, lo + 1, len)
          <5>1. 1 - crc.cur = 1
            BY <3>1
          <5>2. QED
            <6>1. TailBytes = SubSeq(buf[1 - crc.cur], (crc.tail - (crc.tail % 4)) + 1, crc.tail)
              BY DEF TailBytes, WordBytes
            <6>2. crc.tail - (crc.tail % 4) = lo
              <7>1. crc.tail = len /\ len - (len % 4) = lo
                BY <3>1, <3>3
              <7>2. QED
                BY <7>1
            <6>3. QED
              BY <3>1, <4>1, <5>1, <6>1, <6>2
        <4>3. PICK s : s = SubSeq(q, lo + 1, len)
          OBVIOUS
        <4>4. Holds(q, src, len) /\ src + lo = src + Len(f)
          BY <3>1, <3>4, <4>1
        <4>5. /\ Len(f \o SubSeq(q, lo + 1, len)) = Len(f) + (len - lo)
              /\ Holds(f \o SubSeq(q, lo + 1, len), src, Len(f) + (len - lo))
          <5>1. Holds(f, src, Len(f)) /\ lo <= len
            BY <1>6, <3>3
          <5>2. src \in Int
            OBVIOUS
          <5>3. QED
            BY <4>4, <5>1, <5>2, FeedsOn
        <4>6. Len(f) + (len - lo) = len
          BY <1>4, <3>3, <3>4
        <4>7. Holds(f \o s, src, len) /\ Len(f \o s) = len
          BY <4>3, <4>5, <4>6
        <4>8. CASE crc.active
          <5>1. g = f \o s
            BY <1>5, <1>7, <3>1, <3>6, <4>2, <4>3, <4>8 DEF CrcResult, WordBytes
          <5>2. QED
            BY <4>7, <5>1
        <4>9. CASE ~crc.active
          <5>1. g = s
            BY <1>7, <3>1, <3>6, <4>2, <4>3, <4>9 DEF CrcResult, WordBytes
          <5>2. lo = 0 /\ f = <<>>
            BY <1>6, <3>4, <4>9
          <5>3. s \in Seq(Bytes)
            <6>1. SubSeq(q, 1, len) = [i \in 1 .. len |-> q[i]]
              BY <1>4, <4>1
            <6>2. \A i \in 1 .. len : q[i] \in Bytes
              BY <1>4, <4>1, <4>4 DEF Holds
            <6>3. [i \in 1 .. len |-> q[i]] \in [1 .. len -> Bytes]
              BY <6>2
            <6>4. QED
              BY <1>4, <4>3, <5>2, <6>1, <6>3
          <5>4. f \o s = s
            BY <5>2, <5>3
          <5>5. QED
            BY <4>7, <5>1, <5>4
        <4>10. QED
          BY <4>8, <4>9
      <3>7. QED
        BY <3>5, <3>6
    <2>3. QED
      BY <1>4, <2>1, <2>2, ChunkFacts
  <1>9. g = ChipBytes(src, len)
    BY <1>8, HoldsAll
  <1>10. result'.bytes = g
    BY <1>1, <1>7 DEF ResultTypeOK
  <1>11. QED
    BY <1>3, <1>4, <1>9, <1>10

(* A read that another one replaces, or a step that leaves it.             *)
LEMMA ReadStays ==
    ASSUME ReadsReturnChip, result' = result,
           UNCHANGED <<platform, flash, job, settled, jobs>>
    PROVE  ReadsReturnChip'
  BY DEF ReadsReturnChip, Reliable, Flushed, WholeCrc, ChipBytes

LEMMA ReadKeepsDigestInv ==
    ASSUME DigestInv, NEW r \in ReadRanges, Answers(r.src, r.len)
    PROVE  (CrcOK /\ ResultTypeOK /\ ReadsReturnChip)'
  <1>1. /\ r.src \in Nat /\ r.len \in Nat \ {0} /\ r.src + r.len <= FlashBytes
        /\ FInv /\ FlashTypeOK
    BY ReadRangesAssumption DEF DigestInv, FInv
  <1>2. PICK src \in Nat, len \in Nat : src = r.src /\ len = r.len
    BY <1>1
  <1>3. src + len <= FlashBytes
    BY <1>1, <1>2
  <1>4. PICK q : q = MappedBytes(src, len)
    OBVIOUS
  <1> DEFINE k == result'.kind
             b == result'.bytes
             ok == result'.ok
  <1>6. /\ result' = [kind |-> k, src |-> src, len |-> len, bytes |-> b, ok |-> ok]
        /\ k \in {"crc32", "sha256", "upload"} /\ ok \in BOOLEAN
        /\ ok /\ ~(platform = "OPL1000A2" /\ k = "upload") => b = q
        /\ UNCHANGED <<platform, flash, job, before, settled, faults, jobs, crcVars>>
    <2>1. CASE Crc32(r.src, r.len)
      BY <1>2, <1>4, <2>1 DEF Crc32
    <2>2. CASE Crc32Fails(r.src, r.len)
      BY <1>2, <2>2 DEF Crc32Fails, flashVars
    <2>3. CASE Sha256(r.src, r.len)
      <3>1. CASE platform \in Hashing
        BY <1>2, <1>4, <2>3, <3>1 DEF Sha256
      <3>2. CASE platform \notin Hashing
        <4>1. (platform \in Hashing) = FALSE
          BY <3>2
        <4>2. ok = (platform \in Hashing)
          BY <2>3 DEF Sha256
        <4>3. result' = [kind |-> "sha256", src |-> r.src, len |-> r.len,
                         bytes |-> Unread(r.src, r.len), ok |-> ok]
          BY <2>3, <3>2 DEF Sha256
        <4>4. UNCHANGED <<platform, flash, job, before, settled, faults, jobs, crcVars>>
          BY <2>3 DEF Sha256
        <4>5. ok = FALSE
          BY <4>1, <4>2
        <4>6. k = "sha256" /\ b = Unread(r.src, r.len)
          BY <4>3
        <4>7. result' = [kind |-> k, src |-> src, len |-> len, bytes |-> b, ok |-> ok]
          BY <1>2, <4>3, <4>6
        <4> HIDE DEF k, b, ok
        <4>8. QED
          BY <4>4, <4>5, <4>6, <4>7
      <3>3. QED
        BY <3>1, <3>2
    <2>4. CASE Upload(r.src, r.len)
      <3>1. CASE platform = "OPL1000A2"
        BY <1>2, <2>4, <3>1 DEF Upload
      <3>2. CASE platform # "OPL1000A2"
        BY <1>2, <1>4, <2>4, <3>2 DEF Upload
      <3>3. QED
        BY <3>1, <3>2
    <2>5. QED
      BY <2>1, <2>2, <2>3, <2>4 DEF Answers
  <1> HIDE DEF k, b, ok
  <1>7. job.pc = "idle" /\ crc.pc = "idle"
    BY DEF Answers, Crc32, Crc32Fails, Sha256, Upload, MainLoopFree
  <1>8. CrcOK'
    <2>1. crc' = crc /\ dma' = dma /\ buf' = buf /\ fed' = fed
      BY <1>6 DEF crcVars
    <2>2. CrcOK
      BY DEF DigestInv
    <2>3. QED
      BY <1>7, <2>1, <2>2 DEF CrcOK, CrcTypeOK
  <1>9. ResultTypeOK'
    BY <1>6 DEF ResultTypeOK
  <1>10. ReadsReturnChip'
    <2>1. SUFFICES ASSUME Reliable' PROVE result'.bytes = ChipBytes(result.src, result.len)'
      BY DEF ReadsReturnChip
    <2>2. /\ result'.kind = k /\ result'.src = src /\ result'.len = len
          /\ result'.bytes = b /\ result'.ok = ok
      BY <1>6 DEF k, b, ok
    <2>3. /\ platform # "RTL8710C" \/ jobs = 0
          /\ Flushed
          /\ ok
          /\ platform = "OPL1000A2" => k # "upload"
          /\ platform \in ByRange => LinesOf(src, len) \subseteq settled
      <3>1. /\ platform' # "RTL8710C" \/ jobs' = 0
            /\ Flushed'
            /\ result'.ok
            /\ platform' = "OPL1000A2" => result'.kind # "upload"
            /\ platform' \in ByRange => LinesOf(result'.src, result'.len) \subseteq settled'
        <4>1. LinesOf(result.src, result.len)' = LinesOf(result'.src, result'.len)
          BY DEF LinesOf
        <4>2. QED
          BY <2>1, <4>1 DEF Reliable
      <3>2. Flushed' <=> Flushed
        BY <1>6 DEF Flushed
      <3>3. QED
        BY <1>6, <2>2, <3>1, <3>2
    <2>4. q = ChipBytes(src, len)
      BY <1>1, <1>3, <1>4, <1>7, <2>3, FreshReads
    <2>5. b = q
      BY <1>6, <2>3
    <2>6. ChipBytes(result.src, result.len)' = ChipBytes(src, len)
      BY <1>6, <2>2 DEF ChipBytes
    <2>7. QED
      BY <2>2, <2>4, <2>5, <2>6
  <1>11. QED
    BY <1>8, <1>9, <1>10

LEMMA CrcEndsKeeps ==
    ASSUME DigestInv, CrcEnds
    PROVE  (CrcOK /\ ResultTypeOK /\ ReadsReturnChip)'
  <1>1. /\ crc.pc = "finish" /\ CrcOK /\ ResultTypeOK
        /\ result' = [result EXCEPT !.kind = "crc32", !.bytes = CrcResult]
        /\ crc' = NoCrc /\ dma' = NoDma /\ fed' = <<>> /\ buf' = [h \in {0, 1} |-> <<>>]
        /\ UNCHANGED <<platform, flash, job, settled, jobs>>
    BY DEF CrcEnds, Finished, DigestInv, flashVars
  <1>2. /\ result'.kind = "crc32" /\ result'.src = result.src /\ result'.len = result.len
        /\ result.src \in Nat /\ result.len \in Nat \ {0} /\ platform = "RDA5981"
    BY <1>1 DEF ResultTypeOK, CrcOK
  <1>3. CrcOK'
    BY <1>1 DEF CrcOK, CrcTypeOK, NoCrc, NoDma
  <1>4. ReadsReturnChip'
    <2>1. SUFFICES ASSUME Reliable' PROVE result'.bytes = ChipBytes(result.src, result.len)'
      BY DEF ReadsReturnChip
    <2>2. Flushed' /\ WholeCrc'
      BY <2>1 DEF Reliable
    <2>3. Flushed /\ Covered
      BY <1>1, <1>2, <2>2 DEF Flushed, WholeCrc, Covered
    <2>4. result'.bytes = ChipBytes(result.src, result.len)
      BY <1>1, <2>3, CrcEndsTrue
    <2>5. QED
      BY <1>1, <1>2, <2>4 DEF ChipBytes
  <1>5. ResultTypeOK'
    BY <1>1, <1>2 DEF ResultTypeOK
  <1>6. QED
    BY <1>3, <1>4, <1>5

LEMMA CrcStepKeeps ==
    ASSUME DigestInv, CrcReads \/ CrcRuns
    PROVE  (CrcOK /\ ResultTypeOK /\ ReadsReturnChip)'
  <1>1. FInv /\ CrcOK /\ ResultTypeOK /\ ReadsReturnChip
    BY DEF DigestInv
  <1>2. UNCHANGED <<platform, flash, job, settled, jobs, result>>
    BY DEF CrcReads, CrcRuns, flashVars
  <1>3. ResultTypeOK' /\ ReadsReturnChip'
    BY <1>1, <1>2, ReadStays DEF ResultTypeOK
  <1>4. CASE CrcReads
    <2>1. crc.pc = "copy" \/ crc.pc = "tail"
      BY <1>4 DEF CrcReads, CopyChunk, CopyTail
    <2>2. QED
      BY <1>1, <1>3, <1>4, <2>1, CopyChunkKeeps, CopyTailKeeps
  <1>5. CASE CrcRuns
    <2>1. UNCHANGED <<flashVars, result>>
      BY <1>5 DEF CrcRuns
    <2>2. CrcOK'
      BY <1>1, <1>5, <2>1, StartChunkKeeps, StartTailKeeps, NoTailKeeps, DmaStepKeeps
      DEF CrcRuns
    <2>3. QED
      BY <1>3, <2>2
  <1>6. QED
    BY <1>4, <1>5

LEMMA NextKeepsDigestInv == ASSUME DigestInv, [Next]_vars PROVE DigestInv'
  <1>1. FInv' /\ CrcOK /\ ResultTypeOK /\ ReadsReturnChip
    BY NextKeepsFInv DEF DigestInv
  <1>2. SUFFICES (CrcOK /\ ResultTypeOK /\ ReadsReturnChip)'
    BY <1>1 DEF DigestInv
  <1>3. ASSUME NEW r \in ReadRanges, Answers(r.src, r.len)
        PROVE  (CrcOK /\ ResultTypeOK /\ ReadsReturnChip)'
    BY <1>3, ReadKeepsDigestInv
  <1>4. ASSUME NEW r \in ReadRanges, CrcBegin(r.src, r.len)
        PROVE  (CrcOK /\ ResultTypeOK /\ ReadsReturnChip)'
    <2>1. CrcOK'
      BY <1>1, <1>4, CrcBeginKeeps
    <2>2. result' = [kind |-> "none", src |-> r.src, len |-> r.len, bytes |-> <<>>,
                   ok |-> TRUE]
      BY <1>4 DEF CrcBegin, NoResult
    <2>3. r.src \in Nat /\ r.len \in Nat
      BY ReadRangesAssumption
    <2>4. QED
      BY <2>1, <2>2, <2>3 DEF ResultTypeOK, ReadsReturnChip
  <1>5. CASE CrcReads \/ CrcRuns
    BY <1>5, CrcStepKeeps
  <1>6. CASE CrcEnds
    BY <1>6, CrcEndsKeeps
  <1>7. CASE crc.pc = "idle" /\ FlashNext /\ result' = NoResult /\ UNCHANGED crcVars
    <2>1. crc' = crc /\ dma' = dma /\ buf' = buf /\ fed' = fed
      BY <1>7 DEF crcVars
    <2>2. CrcOK'
      BY <1>1, <1>7, <2>1 DEF CrcOK, CrcTypeOK
    <2>3. QED
      BY <1>7, <2>2 DEF ResultTypeOK, ReadsReturnChip, NoResult
  <1>8. CASE UNCHANGED vars
    <2>1. /\ crc' = crc /\ dma' = dma /\ buf' = buf /\ fed' = fed /\ result' = result
          /\ UNCHANGED <<platform, flash, job, settled, jobs>>
      BY <1>8 DEF vars, crcVars, flashVars
    <2>2. CrcOK'
      BY <1>1, <2>1 DEF CrcOK, CrcTypeOK, Flushed, Covered, HalvesOK, TailOnly, ChunkWise,
                        Started, Chunks, Holds, ByteAt
    <2>3. QED
      BY <1>1, <2>1, <2>2, ReadStays DEF ResultTypeOK
  <1>9. QED
    BY <1>3, <1>4, <1>5, <1>6, <1>7, <1>8 DEF Next, Answers

LEMMA InitDigestInv == Init => DigestInv
  <1> SUFFICES ASSUME Init PROVE DigestInv
    OBVIOUS
  <1>1. FInv
    BY InitFInv DEF Init
  <1>2. CrcOK
    BY DEF Init, CrcInit, CrcOK, CrcTypeOK, NoCrc, NoDma
  <1>3. ResultTypeOK /\ ReadsReturnChip
    BY DEF Init, NoResult, ResultTypeOK, ReadsReturnChip
  <1>4. QED
    BY <1>1, <1>2, <1>3 DEF DigestInv

(* crc32_memory, sha256_memory_hardware, stub_flash_read and the           *)
(* invalidations of every platform, for every chip, cache line, sector and *)
(* chunk size, every range and any sequence of commands: outside the places*)
(* Reliable names - the failures that are answered with SUCCESS among them *)
(* - a digest or an upload is made of what the chip holds, every byte of   *)
(* the range once and in order, whatever the cache held and however the DMA*)
(* engine of the RDA5981 and its CPU take turns.                           *)
THEOREM ReadsAreTrue == Spec => []ReadsReturnChip
  <1>1. DigestInv /\ [Next]_vars => DigestInv'
    BY NextKeepsDigestInv
  <1>2. DigestInv => ReadsReturnChip
    BY DEF DigestInv
  <1>3. QED
    BY InitDigestInv, <1>1, <1>2, PTL DEF Spec
=============================================================================
