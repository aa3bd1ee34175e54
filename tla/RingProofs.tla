----------------------------- MODULE RingProofs -----------------------------
(***************************************************************************)
(* The AF_XDP source: for any sizes of its rings every frame of the UMEM   *)
(* is in one place, and ReadPacket implements PacketSource; the program of *)
(* an interface is detached by the last close, for any number of queues    *)
(* and of concurrent callers of Close.                                     *)
(***************************************************************************)
EXTENDS TLAPS, XDPRing, XDPShared, FiniteSetTheorems

(* Remainders. *)

LEMMA TimesStep == ASSUME NEW a \in Int, NEW b \in Int, NEW m \in Nat \ {0}, a < b PROVE a * m + m <= b * m
<1>1. PICK c \in Nat : b = a + 1 + c
  <2>1. b - a - 1 \in Nat /\ b = a + 1 + (b - a - 1)
    OBVIOUS
  <2> QED BY <2>1, Zenon
<1>2. c * m >= 0
  OBVIOUS
<1>3. b * m = a * m + m + c * m
  BY <1>1
<1> QED BY <1>2, <1>3

LEMMA DivMod == ASSUME NEW a \in Int, NEW m \in Nat \ {0}
                PROVE /\ a \div m \in Int /\ a % m \in 0..m-1 /\ a = (a \div m) * m + (a % m)
<1>1. a \div m \in Int
  OBVIOUS
<1>2. a % m \in 0..m-1
  OBVIOUS
<1>3. a = m * (a \div m) + (a % m)
  OBVIOUS
<1>4. m * (a \div m) = (a \div m) * m
  BY <1>1
<1> QED BY <1>1, <1>2, <1>3, <1>4, Zenon

LEMMA ModUnique == ASSUME NEW a \in Int, NEW m \in Nat \ {0}, NEW q \in Int, NEW r \in 0..m-1, a = q * m + r
                   PROVE a % m = r
<1> DEFINE p == a \div m
<1> DEFINE s == a % m
<1>1. p \in Int /\ s \in 0..m-1 /\ a = p * m + s
  BY DivMod, Zenon
<1> HIDE DEF p, s
<1>a. p * m \in Int /\ q * m \in Int BY <1>1
<1>2. CASE p < q
  <2>1. p * m + m <= q * m BY <1>1, <1>2, TimesStep, Zenon
  <2> QED BY <2>1, <1>1, <1>a
<1>3. CASE q < p
  <2>1. q * m + m <= p * m BY <1>1, <1>3, TimesStep, Zenon
  <2> QED BY <2>1, <1>1, <1>a
<1>4. CASE p = q
  <2>1. s = r BY <1>1, <1>4, <1>a
  <2> QED BY <2>1, Zenon DEF s
<1> QED BY <1>1, <1>2, <1>3, <1>4

LEMMA ModShift == ASSUME NEW a \in Int, NEW m \in Nat \ {0}, NEW w \in Int, w % m = 0
                  PROVE (a + w) % m = a % m
<1> DEFINE p == a \div m
<1> DEFINE s == a % m
<1> DEFINE v == w \div m
<1>1. p \in Int /\ s \in 0..m-1 /\ a = p * m + s
  BY DivMod, Zenon
<1>2. v \in Int /\ w = v * m
  BY DivMod
<1> HIDE DEF p, s, v
<1>a. p + v \in Int /\ (p + v) * m = p * m + v * m /\ p * m \in Int /\ v * m \in Int
  BY <1>1, <1>2
<1>3. a + w = (p + v) * m + s
  BY <1>1, <1>2, <1>a
<1>b. a + w \in Int
  OBVIOUS
<1>4. (a + w) % m = s
  BY ONLY m \in Nat \ {0}, <1>1, <1>3, <1>a, <1>b, ModUnique, Zenon
<1> QED BY <1>4, Zenon DEF s

LEMMA ModApart == ASSUME NEW a \in Int, NEW b \in Int, NEW m \in Nat \ {0}, a < b, b < a + m
                  PROVE a % m # b % m
<1> SUFFICES ASSUME a % m = b % m PROVE FALSE BY Zenon
<1> DEFINE p == a \div m
<1> DEFINE q == b \div m
<1> DEFINE s == a % m
<1>1. p \in Int /\ s \in 0..m-1 /\ a = p * m + s BY DivMod, Zenon
<1>2. q \in Int /\ b = q * m + s BY DivMod, Zenon
<1> HIDE DEF p, q, s
<1>a. p * m \in Int /\ q * m \in Int BY <1>1, <1>2
<1>3. CASE p < q
  BY <1>1, <1>2, <1>3, <1>a, TimesStep
<1>4. CASE q < p
  BY <1>1, <1>2, <1>4, <1>a, TimesStep
<1> QED BY <1>1, <1>2, <1>3, <1>4

----------------------------------------------------------------------------
(* Counters and windows of a ring. *)

\* A counter of a ring, and a ring size that divides the width of the counters.
Counters == 0..Width - 1
RingSizes == {m \in Nat \ {0} : Width % m = 0 /\ Width > m}

LEMMA Sizes == FillSize \in RingSizes /\ RxSize \in RingSizes /\ Width \in Nat \ {0} /\ FrameSize \in Nat \ {0}
  BY RingConstants, Zenon DEF RingSizes

\* The distance of two counters, without the remainder.
LEMMA UsedIs == ASSUME NEW p \in Counters, NEW c \in Counters
                PROVE  /\ Used(p, c) \in Counters
                       /\ Used(p, c) = IF p >= c THEN p - c ELSE p - c + Width
                       /\ (Used(p, c) = 0) <=> (p = c)
<1>0. Width \in Nat \ {0} /\ p \in Int /\ c \in Int /\ 0 <= p /\ p < Width /\ 0 <= c /\ c < Width
  BY Sizes DEF Counters
<1>1. CASE p >= c
  <2>1. p - c \in Int /\ p - c \in 0..Width - 1 /\ p - c = 0 * Width + (p - c)
    BY <1>0, <1>1
  <2>2. (p - c) % Width = p - c
    BY <1>0, <2>1, ModUnique
  <2> QED BY <1>0, <1>1, <2>1, <2>2 DEF Used, Counters
<1>2. CASE p < c
  <2>1. p - c \in Int /\ p - c + Width \in 0..Width - 1 /\ p - c = (-1) * Width + (p - c + Width)
    BY <1>0, <1>2
  <2>2. (p - c) % Width = p - c + Width
    BY <1>0, <2>1, ModUnique
  <2> QED BY <1>0, <1>2, <2>1, <2>2 DEF Used, Counters
<1> QED BY <1>0, <1>1, <1>2

LEMMA BumpIs == ASSUME NEW c \in Counters
                PROVE  /\ Bump(c) \in Counters
                       /\ Bump(c) = IF c = Width - 1 THEN 0 ELSE c + 1
<1>0. Width \in Nat \ {0} /\ c \in Int /\ 0 <= c /\ c < Width
  BY Sizes DEF Counters
<1>1. CASE c = Width - 1
  <2>1. c + 1 \in Int /\ 0 \in 0..Width - 1 /\ c + 1 = 1 * Width + 0 /\ 1 \in Int
    BY <1>0, <1>1
  <2>2. (c + 1) % Width = 0
    BY <1>0, <2>1, ModUnique, Zenon
  <2> QED BY <1>0, <1>1, <2>1, <2>2, Zenon DEF Bump, Counters
<1>2. CASE c # Width - 1
  <2>1. c + 1 \in Int /\ c + 1 \in 0..Width - 1 /\ c + 1 = 0 * Width + (c + 1)
    BY <1>0, <1>2
  <2>2. (c + 1) % Width = c + 1
    BY <1>0, <2>1, ModUnique
  <2> QED BY <1>0, <1>2, <2>1, <2>2, Zenon DEF Bump, Counters
<1> QED BY <1>0, <1>1, <1>2, Zenon

\* The k-th slot of a window, seen from either end, before and after a bump.
LEMMA SlotOf == ASSUME NEW c \in Counters, NEW m \in RingSizes, NEW k \in Nat
                PROVE  /\ (c + k) % m \in 0..m - 1
                       /\ (Bump(c) + k) % m = (c + k + 1) % m
<1>0. Width \in Nat \ {0} /\ c \in Int /\ m \in Nat \ {0} /\ Width % m = 0 /\ k \in Int
  BY Sizes DEF Counters, RingSizes
<1>w. Width \in Int
  BY <1>0
<1>1. (c + k) % m \in 0..m - 1
  <2>1. c + k \in Int BY <1>0
  <2> QED BY <1>0, <2>1, DivMod, Zenon
<1>2. CASE c = Width - 1
  <2>1. Bump(c) = 0
    BY <1>2, BumpIs, Zenon
  <2>2. (k + Width) % m = k % m
    BY ONLY <1>0, <1>w, ModShift, Zenon
  <2>3. c + k + 1 = k + Width /\ 0 + k = k
    BY <1>0, <1>2
  <2> QED BY <1>1, <2>1, <2>2, <2>3, Zenon
<1>3. CASE c # Width - 1
  <2>1. Bump(c) = c + 1
    BY <1>3, BumpIs, Zenon
  <2>2. (c + 1) + k = c + k + 1
    BY <1>0
  <2> QED BY <1>1, <2>1, <2>2, Zenon
<1> QED BY <1>2, <1>3, Zenon

LEMMA EndOf == ASSUME NEW p \in Counters, NEW c \in Counters, NEW m \in RingSizes
               PROVE  (c + Used(p, c)) % m = p % m
<1>0. Width \in Nat \ {0} /\ p \in Int /\ c \in Int /\ m \in Nat \ {0} /\ Width % m = 0
  BY Sizes DEF Counters, RingSizes
<1>w. Width \in Int
  BY <1>0
<1>1. CASE p >= c
  <2>1. c + Used(p, c) = p
    BY <1>0, <1>1, UsedIs
  <2> QED BY <2>1, Zenon
<1>2. CASE ~(p >= c)
  <2>1. c + Used(p, c) = p + Width
    BY <1>0, <1>2, UsedIs
  <2>2. (p + Width) % m = p % m
    BY ONLY <1>0, <1>w, ModShift, Zenon
  <2> QED BY <2>1, <2>2, Zenon
<1> QED BY <1>1, <1>2, Zenon

LEMMA Apart == ASSUME NEW c \in Counters, NEW m \in RingSizes, NEW i \in 0..m - 1, NEW j \in 0..m - 1, i # j
               PROVE  (c + i) % m # (c + j) % m
<1>0. c \in Int /\ m \in Nat \ {0} /\ i \in Int /\ j \in Int /\ 0 <= i /\ 0 <= j /\ i < m /\ j < m
  BY DEF Counters, RingSizes
<1>1. c + i \in Int /\ c + j \in Int
  BY <1>0
<1>2. CASE i < j
  <2>1. c + i < c + j /\ c + j < (c + i) + m
    BY <1>0, <1>2
  <2> QED BY <1>0, <1>1, <2>1, ModApart, Zenon
<1>3. CASE j < i
  <2>1. c + j < c + i /\ c + i < (c + j) + m
    BY <1>0, <1>3
  <2> QED BY <1>0, <1>1, <2>1, ModApart, Zenon
<1> QED BY <1>0, <1>2, <1>3

\* What the window of a ring holds, and what producing and consuming do to it.
LEMMA WindowIn == ASSUME NEW p \in Counters, NEW c \in Counters, NEW m \in RingSizes
                  PROVE  Window(p, c, m) \subseteq 0..m - 1
<1> SUFFICES ASSUME NEW k \in 0..Used(p, c) - 1 PROVE (c + k) % m \in 0..m - 1
  BY Zenon DEF Window
<1>1. k \in Nat
  BY UsedIs DEF Counters
<1> QED BY <1>1, SlotOf, Zenon

LEMMA UsedProduce == ASSUME NEW p \in Counters, NEW c \in Counters, Used(p, c) < Width - 1
                     PROVE  Used(Bump(p), c) = Used(p, c) + 1 /\ Bump(p) # c
<1>0. Width \in Nat \ {0} /\ p \in Int /\ c \in Int /\ 0 <= p /\ p < Width /\ 0 <= c /\ c < Width
  BY Sizes DEF Counters
<1>1. Bump(p) \in Counters /\ Bump(p) = IF p = Width - 1 THEN 0 ELSE p + 1
  BY BumpIs, Zenon
<1>2. Used(p, c) = IF p >= c THEN p - c ELSE p - c + Width
  BY UsedIs, Zenon
<1>3. Used(Bump(p), c) = IF Bump(p) >= c THEN Bump(p) - c ELSE Bump(p) - c + Width
  BY <1>1, UsedIs, Zenon
<1> QED BY <1>0, <1>1, <1>2, <1>3

LEMMA UsedConsume == ASSUME NEW p \in Counters, NEW c \in Counters, p # c
                     PROVE  Used(p, Bump(c)) = Used(p, c) - 1 /\ Used(p, c) > 0
<1>0. Width \in Nat \ {0} /\ p \in Int /\ c \in Int /\ 0 <= p /\ p < Width /\ 0 <= c /\ c < Width
  BY Sizes DEF Counters
<1>1. Bump(c) \in Counters /\ Bump(c) = IF c = Width - 1 THEN 0 ELSE c + 1
  BY BumpIs, Zenon
<1>2. Used(p, c) = IF p >= c THEN p - c ELSE p - c + Width
  BY UsedIs, Zenon
<1>3. Used(p, Bump(c)) = IF p >= Bump(c) THEN p - Bump(c) ELSE p - Bump(c) + Width
  BY <1>1, UsedIs, Zenon
<1> QED BY <1>0, <1>1, <1>2, <1>3

LEMMA WindowProduce ==
  ASSUME NEW p \in Counters, NEW c \in Counters, NEW m \in RingSizes, Used(p, c) < m
  PROVE  /\ Window(Bump(p), c, m) = Window(p, c, m) \cup {p % m}
         /\ p % m \notin Window(p, c, m) /\ p % m \in 0..m - 1
         /\ Used(Bump(p), c) = Used(p, c) + 1
<1> DEFINE n == Used(p, c)
<1>0. n \in Nat /\ n < m /\ m \in Nat /\ m < Width /\ Width \in Nat
  BY UsedIs, Sizes DEF Counters, RingSizes
<1>1. Used(Bump(p), c) = n + 1
  BY <1>0, UsedProduce
<1>2. (c + n) % m = p % m
  BY EndOf, Zenon
<1>3. Window(p, c, m) = {(c + k) % m : k \in 0..n - 1}
  BY Zenon DEF Window
<1>4. Window(Bump(p), c, m) = {(c + k) % m : k \in 0..n}
  <2>1. Used(Bump(p), c) - 1 = n
    BY <1>0, <1>1
  <2> QED BY <2>1, Zenon DEF Window
<1> HIDE DEF n
<1>5. 0..n = (0..n - 1) \cup {n}
  BY <1>0
<1>6. Window(Bump(p), c, m) = Window(p, c, m) \cup {p % m}
  BY <1>2, <1>3, <1>4, <1>5, Zenon
<1>7. ASSUME NEW k \in 0..n - 1 PROVE (c + k) % m # p % m
  <2>1. k \in 0..m - 1 /\ n \in 0..m - 1 /\ k # n
    BY <1>0
  <2> QED BY <1>2, <2>1, Apart, Zenon
<1>8. p % m \notin Window(p, c, m)
  BY <1>3, <1>7, Zenon
<1>9. p % m \in 0..m - 1
  BY <1>0, <1>2, SlotOf, Zenon
<1> QED BY <1>1, <1>6, <1>8, <1>9, Zenon DEF n

LEMMA WindowConsume ==
  ASSUME NEW p \in Counters, NEW c \in Counters, NEW m \in RingSizes, p # c, Used(p, c) <= m
  PROVE  /\ Window(p, Bump(c), m) = Window(p, c, m) \ {c % m}
         /\ c % m \in Window(p, c, m)
         /\ Used(p, Bump(c)) = Used(p, c) - 1
<1> DEFINE n == Used(p, c)
<1>0. n \in Nat /\ n <= m /\ m \in Nat /\ n > 0 /\ c \in Nat
  BY UsedIs, UsedConsume, Sizes DEF Counters, RingSizes
<1>1. Used(p, Bump(c)) = n - 1
  BY <1>0, UsedConsume, Zenon
<1>3. Window(p, c, m) = {(c + k) % m : k \in 0..n - 1}
  BY Zenon DEF Window
<1>4. Window(p, Bump(c), m) = {(Bump(c) + k) % m : k \in 0..n - 2}
  <2>1. n - 1 - 1 = n - 2
    BY <1>0
  <2> QED BY <1>1, <2>1, Zenon DEF Window
<1> HIDE DEF n
<1>5. ASSUME NEW k \in 0..n - 2 PROVE (Bump(c) + k) % m = (c + (k + 1)) % m
  <2>1. k \in Nat /\ c + k + 1 = c + (k + 1)
    BY <1>0
  <2> QED BY <2>1, SlotOf, Zenon
<1>6. Window(p, Bump(c), m) = {(c + k) % m : k \in 1..n - 1}
  <2>1. ASSUME NEW x, x \in Window(p, Bump(c), m) PROVE x \in {(c + k) % m : k \in 1..n - 1}
    <3>1. PICK k \in 0..n - 2 : x = (Bump(c) + k) % m
      BY <1>4, <2>1, Zenon
    <3>2. k + 1 \in 1..n - 1
      BY <1>0
    <3> QED BY <1>5, <3>1, <3>2, Zenon
  <2>2. ASSUME NEW k \in 1..n - 1 PROVE (c + k) % m \in Window(p, Bump(c), m)
    <3>1. k - 1 \in 0..n - 2 /\ (k - 1) + 1 = k
      BY <1>0
    <3>2. (Bump(c) + (k - 1)) % m = (c + ((k - 1) + 1)) % m
      BY <1>5, <3>1, Zenon
    <3> QED BY <1>4, <3>1, <3>2, Zenon
  <2> QED BY <2>1, <2>2, Zenon
<1>7. 0..n - 1 = (1..n - 1) \cup {0}
  BY <1>0
<1>8. c + 0 = c
  BY <1>0
<1>9. ASSUME NEW k \in 1..n - 1 PROVE (c + k) % m # c % m
  <2>1. k \in 0..m - 1 /\ 0 \in 0..m - 1 /\ k # 0
    BY <1>0
  <2>2. (c + k) % m # (c + 0) % m
    BY <2>1, Apart, Zenon
  <2> QED BY <1>8, <2>2, Zenon
<1>10. Window(p, c, m) = {(c + k) % m : k \in 1..n - 1} \cup {c % m}
  BY <1>3, <1>7, <1>8, Zenon
<1>11. c % m \notin {(c + k) % m : k \in 1..n - 1}
  BY <1>9, Zenon
<1>12. Window(p, Bump(c), m) = Window(p, c, m) \ {c % m} /\ c % m \in Window(p, c, m)
  BY <1>6, <1>10, <1>11, Zenon
<1> QED BY <1>1, <1>12, Zenon DEF n

----------------------------------------------------------------------------
(* Every frame in one place. *)

Descriptors == [addr : Nat, length : Nat]

\* A descriptor that points into the UMEM points into one of its frames.
Framed(d) == InUmem(d) => FrameBase(d.addr) \in Frames

RxFrame(s) == FrameBase(rx[s].addr)
Mine == FrameBase(desc.addr)

RingTypes ==
  /\ fill \in [0..FillSize - 1 -> Frames] /\ fillProd \in Counters /\ fillCons \in Counters
  /\ rx \in [0..RxSize - 1 -> Descriptors] /\ rxProd \in Counters /\ rxCons \in Counters
  /\ umem \in [Frames -> Nat] /\ kernel \in Frames \cup {-1} /\ arrived \in Nat /\ corrupt \in Nat
  /\ desc \in Descriptors /\ data \in Nat /\ returned \in Seq(Nat)
  /\ \A s \in 0..RxSize - 1 : Framed(rx[s])

\* No slot of the rings, and neither the kernel nor the reader, holds a frame that
\* another place holds.
Separate ==
  /\ \A s, t \in FillSlots : s # t => fill[s] # fill[t]
  /\ \A s, t \in RxSlots : s # t => RxFrame(s) # RxFrame(t)
  /\ \A s \in FillSlots, t \in RxSlots : fill[s] # RxFrame(t)
  /\ \A s \in FillSlots : fill[s] # kernel
  /\ \A t \in RxSlots : RxFrame(t) # kernel
  /\ Recycling => /\ \A s \in FillSlots : fill[s] # Mine
                  /\ \A t \in RxSlots : RxFrame(t) # Mine
                  /\ Mine # kernel /\ Mine \in Frames

\* What the reader relies on between two of its steps.
ReaderInv ==
  /\ Used(rxProd, rxCons) <= RxSize
  /\ kernel # -1 => Used(rxProd, rxCons) < RxSize
  /\ rpc \in {"copy", "advance"} =>
       rxProd # rxCons /\ desc = rx[rxCons % RxSize] /\ InUmem(desc)
  /\ rpc = "publish" => fill[fillProd % FillSize] = Mine

PlaceInv == RingTypes /\ ReaderInv /\ Separate /\ FramesKept

LEMMA FramesNat == Frames \subseteq Nat /\ -1 \notin Frames
<1>1. ASSUME NEW i \in 0..FillSize - 1 PROVE i * FrameSize \in Nat
  BY Sizes DEF RingSizes
<1>2. Frames \subseteq Nat
  BY <1>1, Zenon DEF Frames
<1> QED BY <1>2

\* An address inside a frame leads back to the frame, and the frame ends in the UMEM.
LEMMA InsideFrame == ASSUME NEW f \in Frames, NEW off \in 0..FrameSize - 1
                     PROVE  FrameBase(f + off) = f /\ f + FrameSize <= UmemLen /\ f + off \in Nat
<1>0. FrameSize \in Nat \ {0} /\ FillSize \in Nat \ {0}
  BY Sizes, Zenon DEF RingSizes
<1>1. PICK i \in 0..FillSize - 1 : f = i * FrameSize
  BY Zenon DEF Frames
<1>2. i \in Int /\ i < FillSize /\ f \in Nat /\ off \in Nat
  BY <1>0, <1>1, FramesNat
<1>3. f + off = i * FrameSize + off /\ f + off \in Int
  BY <1>1, <1>2
<1>4. (f + off) % FrameSize = off
  BY ONLY <1>0, <1>2, <1>3, off \in 0..FrameSize - 1, ModUnique, Zenon
<1>5. FrameBase(f + off) = f
  BY <1>2, <1>4 DEF FrameBase
<1>6. FillSize \in Int
  BY <1>0
<1>7. i * FrameSize + FrameSize <= FillSize * FrameSize
  BY ONLY <1>0, <1>2, <1>6, TimesStep, Zenon
<1> QED BY <1>1, <1>2, <1>5, <1>7 DEF UmemLen

LEMMA UmemSize == UmemLen \in Nat
  BY Sizes DEF UmemLen, RingSizes

\* The slots of the two windows.
LEMMA SlotsIn == ASSUME RingTypes
                 PROVE  /\ FillSlots \subseteq 0..FillSize - 1 /\ RxSlots \subseteq 0..RxSize - 1
                        /\ IsFiniteSet(RxSlots) /\ Cardinality(RxSlots) \in Nat
                        /\ Used(fillProd, fillCons) \in Nat /\ Used(rxProd, rxCons) \in Nat
<1>1. FillSlots \subseteq 0..FillSize - 1
  BY WindowIn, Sizes, Zenon DEF RingTypes, FillSlots
<1>2. Window(rxProd, rxCons, RxSize) \subseteq 0..RxSize - 1
  BY WindowIn, Sizes, Zenon DEF RingTypes
<1>3. RxSlots \subseteq 0..RxSize - 1
  BY <1>2, Zenon DEF RxSlots
<1>4. IsFiniteSet(0..RxSize - 1)
  <2>1. RxSize - 1 \in Int /\ 0 \in Int
    BY Sizes DEF RingSizes
  <2> QED BY <2>1, FS_Interval, Zenon
<1>5. IsFiniteSet(RxSlots)
  BY <1>3, <1>4, FS_Subset, Zenon
<1>6. Cardinality(RxSlots) \in Nat
  BY <1>5, FS_CardinalityType, Zenon
<1>7. Used(fillProd, fillCons) \in Nat /\ Used(rxProd, rxCons) \in Nat
  BY UsedIs DEF RingTypes, Counters
<1> QED BY <1>1, <1>3, <1>5, <1>6, <1>7, Zenon

\* While the reader or the kernel holds a frame the fill ring has room for it.
LEMMA FillRoom == ASSUME RingTypes, FramesKept
                  PROVE  /\ Used(fillProd, fillCons) <= FillSize
                         /\ Recycling => Used(fillProd, fillCons) < FillSize
<1>1. FillSize \in Nat /\ corrupt \in Nat
  BY Sizes, Zenon DEF RingSizes, RingTypes
<1> QED BY <1>1, SlotsIn DEF FramesKept

LEMMA PlaceStart == RingInit => PlaceInv
<1> SUFFICES ASSUME RingInit PROVE PlaceInv
  BY Zenon
<1>0. FillSize \in Nat \ {0} /\ RxSize \in Nat \ {0} /\ Width \in Nat /\ FillSize < Width /\ FrameSize \in Nat \ {0}
  BY Sizes, Zenon DEF RingSizes
<1>1. 0 \in Counters /\ FillSize \in Counters
  BY <1>0 DEF Counters
<1>2. fill \in [0..FillSize - 1 -> Frames]
  BY Zenon DEF RingInit, Frames
<1>3. rx \in [0..RxSize - 1 -> Descriptors] /\ desc \in Descriptors
  BY Zenon DEF RingInit, Descriptors
<1>4. 0 \in Frames
  <2>1. 0 \in 0..FillSize - 1 /\ 0 * FrameSize = 0
    BY <1>0
  <2> QED BY <2>1, Zenon DEF Frames
<1>5. FrameBase(0) = 0
  <2>1. 0 \in 0..FrameSize - 1 /\ 0 + 0 = 0
    BY <1>0
  <2>2. FrameBase(0 + 0) = 0
    BY <1>4, <2>1, InsideFrame, Zenon
  <2> QED BY <2>1, <2>2, Zenon
<1>6. \A s \in 0..RxSize - 1 : Framed(rx[s])
  BY <1>4, <1>5, Zenon DEF RingInit, Framed
<1>7. RingTypes
  BY <1>1, <1>2, <1>3, <1>6 DEF RingInit, RingTypes
<1>8. Used(fillProd, fillCons) = FillSize /\ Used(rxProd, rxCons) = 0
  <2>1. Used(FillSize, 0) = FillSize
    BY <1>0, <1>1, UsedIs
  <2>2. Used(0, 0) = 0
    BY <1>1, UsedIs, Zenon
  <2> QED BY <2>1, <2>2, Zenon DEF RingInit
<1>9. RxSlots = {}
  BY <1>8 DEF RxSlots, Window
<1>10. FramesKept
  <2>1. Cardinality(RxSlots) = 0
    BY <1>9, FS_EmptySet, Zenon
  <2> QED BY <1>0, <1>8, <2>1 DEF RingInit, FramesKept, Recycling
<1>11. ReaderInv
  BY <1>0, <1>8 DEF RingInit, ReaderInv
<1>12. \A s, t \in FillSlots : s # t => fill[s] # fill[t]
  <2> SUFFICES ASSUME NEW s \in 0..FillSize - 1, NEW t \in 0..FillSize - 1, s < t PROVE fill[s] # fill[t]
    <3>1. FillSlots \subseteq 0..FillSize - 1
      BY <1>7, SlotsIn, Zenon
    <3>2. \A s, t \in 0..FillSize - 1 : s # t => s < t \/ t < s
      BY <1>0
    <3> QED BY <3>1, <3>2, Zenon
  <2>1. s \in Int /\ t \in Int
    BY <1>0
  <2>2. s * FrameSize + FrameSize <= t * FrameSize
    BY ONLY <1>0, <2>1, s < t, TimesStep, Zenon
  <2>3. s * FrameSize \in Int /\ t * FrameSize \in Int
    BY <1>0, <2>1
  <2>4. s * FrameSize # t * FrameSize
    BY <1>0, <2>2, <2>3
  <2> QED BY <2>4, Zenon DEF RingInit
<1>13. \A s \in FillSlots : fill[s] # kernel
  BY <1>7, SlotsIn, FramesNat, Zenon DEF RingInit, RingTypes
<1>14. Separate
  BY <1>9, <1>12, <1>13, Zenon DEF RingInit, Separate, Recycling
<1> QED BY <1>7, <1>10, <1>11, <1>14, Zenon DEF PlaceInv

\* A step that moves no frame.
LEMMA Unmoved ==
  ASSUME PlaceInv, UNCHANGED <<fillRing, rxRing, kernel, corrupt>>,
         umem' \in [Frames -> Nat], arrived' \in Nat, data' \in Nat, returned' \in Seq(Nat),
         desc' \in Descriptors, Recycling' = Recycling, Recycling => desc' = desc,
         rpc' \in {"copy", "advance"} =>
           rxProd # rxCons /\ desc' = rx[rxCons % RxSize] /\ InUmem(desc'),
         rpc' = "publish" => rpc = "publish"
  PROVE  PlaceInv'
<1>0. /\ fill' = fill /\ fillProd' = fillProd /\ fillCons' = fillCons
      /\ rx' = rx /\ rxProd' = rxProd /\ rxCons' = rxCons /\ kernel' = kernel /\ corrupt' = corrupt
  BY Zenon DEF fillRing, rxRing
<1>1. FillSlots' = FillSlots /\ RxSlots' = RxSlots /\ \A s : RxFrame(s)' = RxFrame(s)
  BY <1>0, Zenon DEF FillSlots, RxSlots, RxFrame
<1>2. RingTypes'
  BY <1>0, Zenon DEF PlaceInv, RingTypes
<1>3. Recycling => Mine' = Mine
  BY Zenon DEF Mine
<1>4. ReaderInv'
  <2>1. rpc' = "publish" => Recycling
    BY Zenon DEF Recycling
  <2> QED BY <1>0, <1>3, <2>1, Zenon DEF PlaceInv, ReaderInv
<1>5. Separate'
  BY <1>0, <1>1, <1>3, Zenon DEF PlaceInv, Separate
<1>6. FramesKept'
  BY <1>0, <1>1, Zenon DEF PlaceInv, FramesKept
<1> QED BY <1>2, <1>4, <1>5, <1>6, Zenon DEF PlaceInv

\* The kernel takes the oldest frame out of the fill ring.
LEMMA PlaceWrite == PlaceInv /\ KernelWrite => PlaceInv'
<1> SUFFICES ASSUME PlaceInv, KernelWrite PROVE PlaceInv'
  BY Zenon
<1>1. CASE UNCHANGED <<kernel, umem, fillCons>>
  BY <1>1, Unmoved DEF KernelWrite, fillRing, rxRing, PlaceInv, RingTypes, ReaderInv, Recycling
<1>2. CASE /\ fillProd # fillCons /\ Used(rxProd, rxCons) < RxSize
           /\ kernel' = fill[fillCons % FillSize]
           /\ umem' = [umem EXCEPT ![fill[fillCons % FillSize]] = arrived + 1]
           /\ fillCons' = Bump(fillCons)
  <2> DEFINE h == fillCons % FillSize
  <2>0. RingTypes /\ ReaderInv /\ Separate /\ FramesKept
    BY Zenon DEF PlaceInv
  <2>1. /\ fill' = fill /\ fillProd' = fillProd /\ rx' = rx /\ rxProd' = rxProd /\ rxCons' = rxCons
        /\ corrupt' = corrupt /\ rpc' = rpc /\ desc' = desc /\ data' = data /\ returned' = returned
        /\ kernel = -1 /\ arrived' = arrived + 1
    BY Zenon DEF KernelWrite, rxRing
  <2>2. /\ FillSlots' = FillSlots \ {h} /\ h \in FillSlots /\ h \in 0..FillSize - 1
        /\ Used(fillProd', fillCons') = Used(fillProd, fillCons) - 1 /\ fillCons' \in Counters
    <3>1. Used(fillProd, fillCons) <= FillSize
      BY <2>0, FillRoom, Zenon
    <3>2. fillProd \in Counters /\ fillCons \in Counters
      BY <2>0, Zenon DEF RingTypes
    <3>3. /\ Window(fillProd, Bump(fillCons), FillSize) = Window(fillProd, fillCons, FillSize) \ {h}
          /\ h \in Window(fillProd, fillCons, FillSize)
          /\ Used(fillProd, Bump(fillCons)) = Used(fillProd, fillCons) - 1
      BY <1>2, <3>1, <3>2, WindowConsume, Sizes, Zenon
    <3>4. Bump(fillCons) \in Counters
      BY <3>2, BumpIs, Zenon
    <3> QED BY <1>2, <2>0, <2>1, <3>3, <3>4, SlotsIn, Zenon DEF FillSlots
  <2> HIDE DEF h
  <2>3. kernel' = fill[h] /\ fill[h] \in Frames /\ kernel' # -1
    BY <1>2, <2>0, <2>2, FramesNat, Zenon DEF RingTypes, h
  <2>4. RxSlots' = RxSlots /\ (\A s : RxFrame(s)' = RxFrame(s)) /\ Mine' = Mine /\ Recycling' = Recycling
    BY <2>1, Zenon DEF RxSlots, RxFrame, Mine, Recycling
  <2>5. RingTypes'
    <3>1. umem' \in [Frames -> Nat] /\ arrived' \in Nat
      BY <1>2, <2>0, <2>1, <2>3 DEF RingTypes
    <3> QED BY <2>0, <2>1, <2>2, <2>3, <3>1, Zenon DEF RingTypes
  <2>6. ReaderInv'
    BY <1>2, <2>0, <2>1, <2>4, Zenon DEF ReaderInv
  <2>7. Separate'
    BY <2>0, <2>1, <2>2, <2>3, <2>4, Zenon DEF Separate
  <2>8. FramesKept'
    <3>1. Used(fillProd, fillCons) \in Nat /\ Cardinality(RxSlots) \in Nat /\ FillSize \in Nat /\ corrupt \in Nat
      BY <2>0, SlotsIn, Sizes, Zenon DEF RingTypes, RingSizes
    <3> QED BY <2>0, <2>1, <2>2, <2>3, <2>4, <3>1 DEF FramesKept
  <2> QED BY <2>5, <2>6, <2>7, <2>8, Zenon DEF PlaceInv
<1> QED BY <1>1, <1>2, Zenon DEF KernelWrite

\* What posting descriptor d in slot e of the rx ring does: the slot was free, and
\* the descriptor leads to the frame that the kernel has written, or nowhere.
Posted(e, d) ==
  /\ e = rxProd % RxSize /\ e \in 0..RxSize - 1 /\ e \notin RxSlots /\ d \in Descriptors
  /\ e \notin Window(rxProd, rxCons, RxSize)
  /\ rx' \in [0..RxSize - 1 -> Descriptors] /\ rx'[e] = d
  /\ \A s \in 0..RxSize - 1 : s # e => rx'[s] = rx[s]
  /\ \/ InUmem(d) /\ FrameBase(d.addr) = kernel /\ corrupt' = corrupt /\ RxSlots' = RxSlots \cup {e}
     \/ ~InUmem(d) /\ corrupt' = corrupt + 1 /\ RxSlots' = RxSlots
  /\ rxProd' \in Counters /\ Used(rxProd', rxCons') = Used(rxProd, rxCons) + 1

LEMMA PostedSlots == ASSUME PlaceInv, KernelPost PROVE \E e, d : Posted(e, d)
<1>0. RingTypes /\ ReaderInv /\ Separate /\ FramesKept
  BY Zenon DEF PlaceInv
<1>e. PICK e : e = rxProd % RxSize
  BY Zenon
<1>1. /\ fill' = fill /\ fillProd' = fillProd /\ fillCons' = fillCons /\ rxCons' = rxCons /\ umem' = umem
      /\ arrived' = arrived /\ rpc' = rpc /\ desc' = desc /\ data' = data /\ returned' = returned
      /\ kernel # -1 /\ kernel' = -1 /\ rxProd' = Bump(rxProd)
  BY Zenon DEF KernelPost, fillRing
<1>2. PICK d \in {[addr |-> kernel + off, length |-> FrameSize - off] : off \in 0..FrameSize - 1}
                 \cup {[addr |-> UmemLen, length |-> 1]} :
        /\ rx' = [rx EXCEPT ![e] = d]
        /\ corrupt' = IF d.addr = UmemLen THEN corrupt + 1 ELSE corrupt
  BY <1>e, Zenon DEF KernelPost
<1>3. /\ Window(rxProd', rxCons', RxSize) = Window(rxProd, rxCons, RxSize) \cup {e}
      /\ e \notin Window(rxProd, rxCons, RxSize) /\ e \in 0..RxSize - 1
      /\ Used(rxProd', rxCons') = Used(rxProd, rxCons) + 1 /\ rxProd' \in Counters
  <2>1. rxProd \in Counters /\ rxCons \in Counters /\ Used(rxProd, rxCons) < RxSize
    BY <1>0, <1>1, Zenon DEF RingTypes, ReaderInv
  <2>2. /\ Window(Bump(rxProd), rxCons, RxSize) = Window(rxProd, rxCons, RxSize) \cup {e}
        /\ e \notin Window(rxProd, rxCons, RxSize) /\ e \in 0..RxSize - 1
        /\ Used(Bump(rxProd), rxCons) = Used(rxProd, rxCons) + 1
    BY <1>e, <2>1, WindowProduce, Sizes, Zenon
  <2>3. Bump(rxProd) \in Counters
    BY <2>1, BumpIs, Zenon
  <2> QED BY <1>1, <2>2, <2>3, Zenon
<1>4. kernel \in Frames /\ kernel \in Nat /\ FrameSize \in Nat \ {0} /\ UmemLen \in Nat
  BY <1>0, <1>1, FramesNat, UmemSize, Sizes, Zenon DEF RingTypes
<1>5. /\ rx'[e] = d /\ \A s \in 0..RxSize - 1 : s # e => rx'[s] = rx[s]
  BY <1>0, <1>2, <1>3, Zenon DEF RingTypes
<1>7. RxSlots \subseteq 0..RxSize - 1 /\ e \notin RxSlots
  BY <1>0, <1>3, SlotsIn, Zenon DEF RxSlots
<1>9. \/ /\ InUmem(d) /\ FrameBase(d.addr) = kernel /\ d \in Descriptors /\ corrupt' = corrupt
      \/ ~InUmem(d) /\ d \in Descriptors /\ corrupt' = corrupt + 1
  <2>1. ASSUME NEW off \in 0..FrameSize - 1, d = [addr |-> kernel + off, length |-> FrameSize - off]
        PROVE  InUmem(d) /\ FrameBase(d.addr) = kernel /\ d \in Descriptors /\ corrupt' = corrupt
    <3>1. d.addr = kernel + off /\ d.length = FrameSize - off
      BY <2>1, Zenon
    <3>2. FrameBase(kernel + off) = kernel /\ kernel + FrameSize <= UmemLen /\ kernel + off \in Nat
      BY <1>4, InsideFrame, Zenon
    <3>3. FrameSize - off \in Nat /\ (kernel + off) + (FrameSize - off) = kernel + FrameSize /\ kernel + off # UmemLen
      BY <1>4, <3>2
    <3>4. d \in Descriptors
      BY <2>1, <3>2, <3>3, Zenon DEF Descriptors
    <3>5. corrupt' = corrupt
      BY <1>2, <3>1, <3>3, Zenon
    <3> QED BY <3>1, <3>2, <3>3, <3>4, <3>5, Zenon DEF InUmem
  <2>2. CASE d = [addr |-> UmemLen, length |-> 1]
    <3>1. d.addr = UmemLen /\ d.length = 1 /\ d \in Descriptors
      BY <1>4, <2>2, Zenon DEF Descriptors
    <3> QED BY <1>2, <1>4, <3>1 DEF InUmem
  <2> QED BY <1>2, <2>1, <2>2, Zenon
<1>10. RxSlots' = IF InUmem(d) THEN RxSlots \cup {e} ELSE RxSlots
  <2>1. Window(rxProd, rxCons, RxSize) \subseteq 0..RxSize - 1
    BY <1>0, WindowIn, Sizes, Zenon DEF RingTypes
  <2>2. RxSlots' = {s \in Window(rxProd, rxCons, RxSize) \cup {e} : InUmem(rx'[s])}
    BY <1>3, Zenon DEF RxSlots, InUmem
  <2> QED BY <1>3, <1>5, <2>1, <2>2, Zenon DEF RxSlots
<1>11. rx' \in [0..RxSize - 1 -> Descriptors]
  BY <1>0, <1>2, <1>9, Zenon DEF RingTypes
<1>12. Posted(e, d)
  BY <1>3, <1>5, <1>7, <1>9, <1>10, <1>11, <1>e, Zenon DEF Posted
<1> QED BY <1>12, Zenon

\* The kernel posts the frame it has written, or a descriptor that points nowhere.
LEMMA PlacePost == PlaceInv /\ KernelPost => PlaceInv'
<1> SUFFICES ASSUME PlaceInv, KernelPost PROVE PlaceInv'
  BY Zenon
<1>0. RingTypes /\ ReaderInv /\ Separate /\ FramesKept
  BY Zenon DEF PlaceInv
<1>1. /\ fill' = fill /\ fillProd' = fillProd /\ fillCons' = fillCons /\ rxCons' = rxCons /\ umem' = umem
      /\ arrived' = arrived /\ rpc' = rpc /\ desc' = desc /\ data' = data /\ returned' = returned
      /\ kernel # -1 /\ kernel' = -1
  BY Zenon DEF KernelPost, fillRing
<1>2. PICK e, d : Posted(e, d)
  BY PostedSlots, Zenon
<1>3. /\ e \notin Window(rxProd, rxCons, RxSize) /\ e \in 0..RxSize - 1
      /\ Used(rxProd', rxCons') = Used(rxProd, rxCons) + 1 /\ rxProd' \in Counters
  BY <1>2, Zenon DEF Posted
<1>4. kernel \in Frames
  BY <1>0, <1>1, Zenon DEF RingTypes
<1>5. rx'[e] = d /\ \A s \in 0..RxSize - 1 : s # e => rx'[s] = rx[s]
  BY <1>2, Zenon DEF Posted
<1>6. FillSlots' = FillSlots /\ Recycling' = Recycling /\ Mine' = Mine
  BY <1>1, Zenon DEF FillSlots, Recycling, Mine
<1>7. RxSlots \subseteq 0..RxSize - 1 /\ e \notin RxSlots
  BY <1>0, <1>2, SlotsIn, Zenon DEF Posted
<1>8. \A s \in RxSlots : RxFrame(s)' = RxFrame(s)
  BY <1>5, <1>7, Zenon DEF RxFrame
<1>9. \/ /\ InUmem(d) /\ FrameBase(d.addr) = kernel /\ d \in Descriptors /\ corrupt' = corrupt
      \/ ~InUmem(d) /\ d \in Descriptors /\ corrupt' = corrupt + 1
  BY <1>2, Zenon DEF Posted
<1>10. RxSlots' = IF InUmem(d) THEN RxSlots \cup {e} ELSE RxSlots
  BY <1>2, Zenon DEF Posted
<1>11. RingTypes'
  <2>1. rx' \in [0..RxSize - 1 -> Descriptors]
    BY <1>2, Zenon DEF Posted
  <2>2. \A s \in 0..RxSize - 1 : Framed(rx'[s])
    BY <1>0, <1>4, <1>5, <1>9, Zenon DEF RingTypes, Framed
  <2>3. corrupt' \in Nat
    BY <1>0, <1>9 DEF RingTypes
  <2>4. (\A s \in 0..RxSize - 1 : Framed(rx[s]))'
    BY <2>2, Zenon DEF Framed, InUmem
  <2> QED BY <1>0, <1>1, <1>3, <2>1, <2>3, <2>4, Zenon DEF RingTypes
<1>12. ReaderInv'
  <2>1. Used(rxProd', rxCons') <= RxSize
    BY <1>0, <1>1, <1>3, SlotsIn, Sizes DEF ReaderInv, RingSizes
  <2>2. ASSUME rpc \in {"copy", "advance"}
        PROVE  rxProd' # rxCons' /\ desc = rx'[rxCons % RxSize] /\ InUmem(desc)
    <3>1. rxProd # rxCons /\ desc = rx[rxCons % RxSize] /\ InUmem(desc)
      BY <1>0, <2>2, Zenon DEF ReaderInv
    <3>2. rxCons % RxSize \in Window(rxProd, rxCons, RxSize) /\ rxProd \in Counters /\ rxCons \in Counters
      BY <1>0, <3>1, WindowConsume, Sizes, Zenon DEF RingTypes, ReaderInv
    <3>3. rxCons % RxSize \in 0..RxSize - 1 /\ rxCons % RxSize # e
      BY <1>3, <3>2, WindowIn, Sizes, Zenon
    <3>4. Used(rxProd', rxCons') # 0
      BY <1>0, <1>3, SlotsIn
    <3>5. rxProd' # rxCons'
      BY <1>1, <1>3, <3>2, <3>4, UsedIs, Zenon
    <3> QED BY <1>5, <3>1, <3>3, <3>5, Zenon
  <2>3. (rpc = "publish" => fill[fillProd % FillSize] = Mine)'
    BY <1>0, <1>1, <1>6, Zenon DEF ReaderInv
  <2>4. (rpc \in {"copy", "advance"} => rxProd # rxCons /\ desc = rx[rxCons % RxSize] /\ InUmem(desc))'
    BY <1>1, <2>2, Zenon DEF InUmem
  <2> QED BY <1>1, <2>1, <2>3, <2>4, Zenon DEF ReaderInv
<1>13. Separate'
  <2>1. \A s \in FillSlots : fill'[s] # kernel'
    BY <1>0, <1>1, SlotsIn, FramesNat, Zenon DEF RingTypes
  <2>2. CASE InUmem(d)
    <3>1. RxSlots' = RxSlots \cup {e} /\ RxFrame(e)' = kernel
      BY <1>5, <1>9, <1>10, <2>2, Zenon DEF RxFrame
    <3>2. \A t \in RxSlots' : RxFrame(t)' # kernel'
      <4>1. \A t \in RxSlots : RxFrame(t) \in Frames
        BY <1>0, <1>7, Zenon DEF RingTypes, Framed, RxSlots, RxFrame
      <4> QED BY <1>1, <1>4, <1>8, <3>1, <4>1, FramesNat, Zenon
    <3>3. \A s, t \in RxSlots' : s # t => RxFrame(s)' # RxFrame(t)'
      BY <1>0, <1>8, <3>1 DEF Separate
    <3>4. \A s \in FillSlots, t \in RxSlots' : fill'[s] # RxFrame(t)'
      BY <1>0, <1>1, <1>8, <3>1, Zenon DEF Separate
    <3>5. Recycling => /\ \A s \in FillSlots : fill'[s] # Mine
                       /\ \A t \in RxSlots' : RxFrame(t)' # Mine
                       /\ Mine # kernel' /\ Mine \in Frames
      BY <1>0, <1>1, <1>8, <3>1, FramesNat, Zenon DEF Separate
    <3> QED BY <1>0, <1>1, <1>6, <2>1, <3>2, <3>3, <3>4, <3>5, Zenon DEF Separate
  <2>3. CASE ~InUmem(d)
    <3>1. RxSlots' = RxSlots
      BY <1>10, <2>3, Zenon
    <3>2. \A t \in RxSlots : RxFrame(t)' # kernel'
      <4>1. \A t \in RxSlots : RxFrame(t) \in Frames
        BY <1>0, <1>7, Zenon DEF RingTypes, Framed, RxSlots, RxFrame
      <4> QED BY <1>1, <1>8, <4>1, FramesNat, Zenon
    <3>3. Recycling => Mine # kernel'
      BY <1>0, <1>1, FramesNat, Zenon DEF Separate
    <3> QED BY <1>0, <1>1, <1>6, <1>8, <2>1, <3>1, <3>2, <3>3 DEF Separate
  <2> QED BY <2>2, <2>3, Zenon
<1>14. FramesKept'
  <2>1. Used(fillProd, fillCons) \in Nat /\ Cardinality(RxSlots) \in Nat /\ FillSize \in Nat /\ corrupt \in Nat
        /\ IsFiniteSet(RxSlots)
    BY <1>0, SlotsIn, Sizes, Zenon DEF RingTypes, RingSizes
  <2>2. CASE InUmem(d)
    <3>1. Cardinality(RxSlots') = Cardinality(RxSlots) + 1 /\ corrupt' = corrupt
      BY <1>7, <1>9, <1>10, <2>1, <2>2, FS_AddElement, Zenon
    <3> QED BY <1>0, <1>1, <1>6, <2>1, <3>1 DEF FramesKept
  <2>3. CASE ~InUmem(d)
    <3>1. RxSlots' = RxSlots /\ corrupt' = corrupt + 1
      BY <1>9, <1>10, <2>3, Zenon
    <3> DEFINE r == IF Recycling THEN 1 ELSE 0
    <3>2. r \in Nat /\ (IF Recycling' THEN 1 ELSE 0) = r
      BY <1>6, Zenon
    <3>3. Used(fillProd, fillCons) + Cardinality(RxSlots) + 1 + r = FillSize - corrupt
      BY <1>0, <1>1, Zenon DEF FramesKept
    <3> HIDE DEF r
    <3>4. Used(fillProd, fillCons) + Cardinality(RxSlots') + 0 + r = FillSize - corrupt'
      BY <2>1, <3>1, <3>2, <3>3
    <3> QED BY <1>1, <3>2, <3>4, Zenon DEF FramesKept
  <2> QED BY <2>2, <2>3, Zenon
<1> QED BY <1>11, <1>12, <1>13, <1>14, Zenon DEF PlaceInv

\* ReadPacket moves no frame while it looks for a packet, copies it and returns it.
LEMMA PlaceStill ==
  ASSUME PlaceInv, Call \/ CheckClosed \/ PollFails \/ Copy \/ Return \/ RingClose \/ UNCHANGED ringVars
  PROVE  PlaceInv'
<1>0. RingTypes /\ ReaderInv
  BY Zenon DEF PlaceInv
<1>1. CASE Call \/ CheckClosed
  BY <1>0, <1>1, Unmoved DEF Call, CheckClosed, kernelVars, RingTypes, Recycling
<1>2. CASE PollFails
  BY <1>0, <1>2, Unmoved DEF PollFails, Goto, kernelVars, RingTypes, Recycling
<1>3. CASE Copy
  <2>1. /\ desc' = desc /\ rpc = "copy" /\ rpc' = "advance" /\ UNCHANGED <<fillRing, rxRing, kernel, corrupt>>
        /\ umem' = umem /\ arrived' = arrived /\ returned' = returned /\ data' = umem[Mine]
    BY <1>3, Zenon DEF Copy, Goto, kernelVars, Mine
  <2>2. rxProd # rxCons /\ desc = rx[rxCons % RxSize] /\ InUmem(desc)
    BY <1>0, <2>1, Zenon DEF ReaderInv
  <2>3. Mine \in Frames
    <3>1. rxCons % RxSize \in 0..RxSize - 1
      <4>1. rxCons % RxSize \in Window(rxProd, rxCons, RxSize)
        BY <1>0, <2>2, WindowConsume, Sizes, Zenon DEF RingTypes, ReaderInv
      <4> QED BY <1>0, <4>1, WindowIn, Sizes, Zenon DEF RingTypes
    <3> QED BY <1>0, <2>2, <3>1, Zenon DEF RingTypes, Framed, Mine
  <2>4. data' \in Nat
    BY <1>0, <2>1, <2>3, Zenon DEF RingTypes
  <2>5. InUmem(desc') /\ Recycling' = Recycling /\ ~Recycling
    BY <2>1, <2>2 DEF Recycling
  <2> QED BY <1>0, <2>1, <2>2, <2>4, <2>5, Unmoved, Zenon DEF RingTypes
<1>4. CASE Return
  <2>1. /\ desc' = desc /\ rpc = "return" /\ rpc' \in {"check", "idle"} /\ UNCHANGED <<fillRing, rxRing, kernel, corrupt>>
        /\ umem' = umem /\ arrived' = arrived /\ data' = data
        /\ returned' = returned \/ returned' = Append(returned, data)
    <3>1. CASE Goto("return", "check") /\ UNCHANGED returned
      BY <1>4, <3>1, Zenon DEF Return, Goto, kernelVars
    <3>2. CASE Goto("return", "idle") /\ returned' = Append(returned, data)
      BY <1>4, <3>2, Zenon DEF Return, Goto, kernelVars
    <3> QED BY <1>4, <3>1, <3>2, Zenon DEF Return
  <2>2. returned' \in Seq(Nat)
    <3>1. returned \in Seq(Nat) /\ data \in Nat
      BY <1>0, Zenon DEF RingTypes
    <3>2. Append(returned, data) \in Seq(Nat)
      BY ONLY <3>1
    <3> QED BY <2>1, <3>1, <3>2, Zenon
  <2>3. Recycling' = Recycling
    BY <2>1 DEF Recycling
  <2> QED BY <1>0, <2>1, <2>2, <2>3, Unmoved, Zenon DEF RingTypes
<1>5. CASE RingClose \/ UNCHANGED ringVars
  <2>1. UNCHANGED <<fillRing, rxRing, umem, kernelVars, rpc, desc, data, returned>>
    BY <1>5, Zenon DEF RingClose, ringVars, fillRing, rxRing, kernelVars
  <2>2. Recycling' = Recycling
    BY <2>1, Zenon DEF Recycling
  <2> QED BY <1>0, <2>1, <2>2, Unmoved, Zenon DEF RingTypes, ReaderInv, kernelVars
<1> QED BY <1>1, <1>2, <1>3, <1>4, <1>5, Zenon

\* A slot of the rx ring is given back: what the windows and the slots become.
LEMMA RxConsume ==
  ASSUME RingTypes, Used(rxProd, rxCons) <= RxSize, rxProd # rxCons, UNCHANGED <<rx, rxProd>>,
         rxCons' = Bump(rxCons), NEW h, h = rxCons % RxSize
  PROVE  /\ h \in Window(rxProd, rxCons, RxSize) /\ h \in 0..RxSize - 1
         /\ RxSlots' = RxSlots \ {h}
         /\ Used(rxProd', rxCons') = Used(rxProd, rxCons) - 1
         /\ rxCons' \in Counters
         /\ \A s : RxFrame(s)' = RxFrame(s)
<1>1. rxProd \in Counters /\ rxCons \in Counters /\ RxSize \in RingSizes
  BY Sizes, Zenon DEF RingTypes
<1>2. /\ Window(rxProd, Bump(rxCons), RxSize) = Window(rxProd, rxCons, RxSize) \ {h}
      /\ h \in Window(rxProd, rxCons, RxSize)
      /\ Used(rxProd, Bump(rxCons)) = Used(rxProd, rxCons) - 1
  BY <1>1, WindowConsume
<1>3. h \in 0..RxSize - 1 /\ Bump(rxCons) \in Counters
  BY <1>1, <1>2, WindowIn, BumpIs, Zenon
<1>4. RxSlots' = {s \in Window(rxProd, rxCons, RxSize) \ {h} : InUmem(rx[s])}
  BY <1>2, Zenon DEF RxSlots, InUmem
<1>5. RxSlots' = RxSlots \ {h}
  BY <1>4, Zenon DEF RxSlots
<1> QED BY <1>2, <1>3, <1>5, Zenon DEF RxFrame

\* A descriptor is looked at, and skipped if it points out of the UMEM.
LEMMA PlaceLoad == PlaceInv /\ Load => PlaceInv'
<1> SUFFICES ASSUME PlaceInv, Load PROVE PlaceInv'
  BY Zenon
<1>0. RingTypes /\ ReaderInv /\ Separate /\ FramesKept
  BY Zenon DEF PlaceInv
<1>h. PICK h : h = rxCons % RxSize
  BY Zenon
<1>1. /\ UNCHANGED <<fillRing, rx, rxProd, data, returned, umem, kernelVars>> /\ rpc = "load"
      /\ \/ rpc' = "check" /\ desc' = desc /\ rxCons' = rxCons
         \/ /\ rxProd # rxCons /\ rx[h].addr + rx[h].length > UmemLen
            /\ rpc' = "check" /\ desc' = rx[h] /\ rxCons' = Bump(rxCons)
         \/ /\ rxProd # rxCons /\ rx[h].addr + rx[h].length <= UmemLen
            /\ rpc' = "copy" /\ desc' = rx[h] /\ rxCons' = rxCons
  BY <1>h, Zenon DEF Load, Goto
<1>2. ~Recycling /\ ~Recycling' /\ Recycling' = Recycling
  BY <1>1 DEF Recycling
<1>3. CASE rpc' = "check" /\ desc' = desc /\ rxCons' = rxCons
  BY <1>0, <1>1, <1>2, <1>3, Unmoved, Zenon DEF RingTypes, kernelVars, rxRing
<1>4. ASSUME rxProd # rxCons
      PROVE  h \in Window(rxProd, rxCons, RxSize) /\ h \in 0..RxSize - 1 /\ rx[h] \in Descriptors
  <2>1. h \in Window(rxProd, rxCons, RxSize)
    BY <1>0, <1>h, <1>4, WindowConsume, Sizes, Zenon DEF RingTypes, ReaderInv
  <2>2. h \in 0..RxSize - 1
    BY <1>0, <2>1, WindowIn, Sizes, Zenon DEF RingTypes
  <2> QED BY <1>0, <2>1, <2>2, Zenon DEF RingTypes
<1>5. CASE /\ rxProd # rxCons /\ rx[h].addr + rx[h].length <= UmemLen
           /\ rpc' = "copy" /\ desc' = rx[h] /\ rxCons' = rxCons
  <2>1. desc' \in Descriptors /\ InUmem(desc') /\ desc' = rx[rxCons % RxSize]
    BY <1>h, <1>4, <1>5, Zenon DEF InUmem
  <2> QED BY <1>0, <1>1, <1>2, <1>5, <2>1, Unmoved, Zenon DEF RingTypes, kernelVars, rxRing
<1>6. CASE /\ rxProd # rxCons /\ rx[h].addr + rx[h].length > UmemLen
           /\ rpc' = "check" /\ desc' = rx[h] /\ rxCons' = Bump(rxCons)
  <2>1. /\ RxSlots' = RxSlots \ {h} /\ rxCons' \in Counters
        /\ Used(rxProd', rxCons') = Used(rxProd, rxCons) - 1
        /\ \A s : RxFrame(s)' = RxFrame(s)
    BY <1>0, <1>1, <1>h, <1>6, RxConsume, Zenon DEF ReaderInv
  <2>2. h \notin RxSlots
    <3>1. ~InUmem(rx[h])
      <4>1. rx[h].addr \in Nat /\ rx[h].length \in Nat
        BY <1>4, <1>6, Zenon DEF Descriptors
      <4> QED BY <1>6, <4>1, UmemSize DEF InUmem
    <3> QED BY <3>1, Zenon DEF RxSlots
  <2>3. RxSlots' = RxSlots
    BY <2>1, <2>2, Zenon
  <2>4. /\ fill' = fill /\ fillProd' = fillProd /\ fillCons' = fillCons /\ rx' = rx /\ rxProd' = rxProd
        /\ umem' = umem /\ kernel' = kernel /\ arrived' = arrived /\ corrupt' = corrupt
        /\ data' = data /\ returned' = returned
    BY <1>1, Zenon DEF fillRing, kernelVars
  <2>5. FillSlots' = FillSlots
    BY <2>4, Zenon DEF FillSlots
  <2>6. desc' \in Descriptors
    BY <1>4, <1>6, Zenon
  <2>7. RingTypes'
    BY <1>0, <2>1, <2>4, <2>6, Zenon DEF RingTypes
  <2>8. ReaderInv'
    <3>1. Used(rxProd, rxCons) \in Nat /\ RxSize \in Nat
      BY <1>0, SlotsIn, Sizes, Zenon DEF RingSizes
    <3> QED BY <1>0, <1>6, <2>1, <2>4, <3>1 DEF ReaderInv
  <2>9. Separate'
    BY <1>0, <1>2, <2>1, <2>3, <2>4, <2>5, Zenon DEF Separate
  <2>10. FramesKept'
    BY <1>0, <1>2, <2>3, <2>4, Zenon DEF FramesKept
  <2> QED BY <2>7, <2>8, <2>9, <2>10, Zenon DEF PlaceInv
<1> QED BY <1>1, <1>3, <1>5, <1>6, Zenon

\* The slot is given back and the reader holds the frame.
LEMMA PlaceAdvance == PlaceInv /\ Advance => PlaceInv'
<1> SUFFICES ASSUME PlaceInv, Advance PROVE PlaceInv'
  BY Zenon
<1>0. RingTypes /\ ReaderInv /\ Separate /\ FramesKept
  BY Zenon DEF PlaceInv
<1>1. /\ fill' = fill /\ fillProd' = fillProd /\ fillCons' = fillCons /\ rx' = rx /\ rxProd' = rxProd
      /\ umem' = umem /\ kernel' = kernel /\ arrived' = arrived /\ corrupt' = corrupt
      /\ desc' = desc /\ data' = data /\ returned' = returned
      /\ rpc = "advance" /\ rpc' = "recycle" /\ rxCons' = Bump(rxCons)
  BY Zenon DEF Advance, Goto, fillRing, kernelVars
<1>h. PICK h : h = rxCons % RxSize
  BY Zenon
<1>2. rxProd # rxCons /\ desc = rx[h] /\ InUmem(desc)
  BY <1>0, <1>1, <1>h, Zenon DEF ReaderInv
<1>3. /\ h \in Window(rxProd, rxCons, RxSize) /\ h \in 0..RxSize - 1
      /\ RxSlots' = RxSlots \ {h} /\ rxCons' \in Counters
      /\ Used(rxProd', rxCons') = Used(rxProd, rxCons) - 1
      /\ \A s : RxFrame(s)' = RxFrame(s)
  BY <1>0, <1>1, <1>2, <1>h, RxConsume, Zenon DEF ReaderInv
<1>4. h \in RxSlots /\ Mine = RxFrame(h) /\ Mine' = Mine /\ Mine \in Frames
  BY <1>0, <1>1, <1>2, <1>3, Zenon DEF RxSlots, Mine, RxFrame, RingTypes, Framed
<1>5. ~Recycling /\ Recycling' /\ FillSlots' = FillSlots
  BY <1>1, Zenon DEF Recycling, FillSlots
<1>6. RingTypes'
  BY <1>0, <1>1, <1>3, Zenon DEF RingTypes
<1>7. ReaderInv'
  <2>1. Used(rxProd, rxCons) \in Nat /\ RxSize \in Nat
    BY <1>0, SlotsIn, Sizes, Zenon DEF RingSizes
  <2> QED BY <1>0, <1>1, <1>3, <2>1 DEF ReaderInv
<1>8. Separate'
  BY <1>0, <1>1, <1>3, <1>4, <1>5, Zenon DEF Separate
<1>9. FramesKept'
  <2>1. Used(fillProd, fillCons) \in Nat /\ Cardinality(RxSlots) \in Nat /\ FillSize \in Nat /\ corrupt \in Nat
        /\ IsFiniteSet(RxSlots)
    BY <1>0, SlotsIn, Sizes, Zenon DEF RingTypes, RingSizes
  <2>2. Cardinality(RxSlots') = Cardinality(RxSlots) - 1
    BY <1>3, <1>4, <2>1, FS_RemoveElement, Zenon
  <2> DEFINE r == IF kernel = -1 THEN 0 ELSE 1
  <2>3. Used(fillProd, fillCons) + Cardinality(RxSlots) + r + 0 = FillSize - corrupt
    BY <1>0, <1>5, Zenon DEF FramesKept
  <2>4. r \in Nat
    BY Zenon
  <2>5. (IF kernel' = -1 THEN 0 ELSE 1) = r
    BY <1>1, Zenon
  <2> HIDE DEF r
  <2>6. Used(fillProd, fillCons) + Cardinality(RxSlots') + r + 1 = FillSize - corrupt
    BY <2>1, <2>2, <2>3, <2>4
  <2> QED BY <1>1, <1>5, <2>5, <2>6, Zenon DEF FramesKept
<1> QED BY <1>6, <1>7, <1>8, <1>9, Zenon DEF PlaceInv

\* The address of the frame is written behind the window of the fill ring, which
\* always has room for it.
LEMMA PlaceRecycle == PlaceInv /\ Recycle => PlaceInv'
<1> SUFFICES ASSUME PlaceInv, Recycle PROVE PlaceInv'
  BY Zenon
<1>0. RingTypes /\ ReaderInv /\ Separate /\ FramesKept
  BY Zenon DEF PlaceInv
<1>e. PICK e : e = fillProd % FillSize
  BY Zenon
<1>1. rpc = "recycle"
  BY Zenon DEF Recycle, Goto
<1>2. Recycling /\ Used(fillProd, fillCons) < FillSize
  BY <1>0, <1>1, FillRoom, Zenon DEF Recycling
<1>3. FillSize - Used(fillProd, fillCons) > 0
  BY <1>0, <1>2, SlotsIn, Sizes DEF RingSizes
<1>4. Goto("recycle", "publish") /\ fill' = [fill EXCEPT ![e] = Mine]
  BY <1>3, <1>e, Zenon DEF Recycle, Mine
<1>5. /\ fillProd' = fillProd /\ fillCons' = fillCons /\ rx' = rx /\ rxProd' = rxProd /\ rxCons' = rxCons
      /\ umem' = umem /\ kernel' = kernel /\ arrived' = arrived /\ corrupt' = corrupt
      /\ desc' = desc /\ data' = data /\ returned' = returned /\ rpc' = "publish"
  BY <1>4, Zenon DEF Recycle, Goto, rxRing, kernelVars
<1>6. e \notin FillSlots /\ e \in 0..FillSize - 1 /\ FillSlots \subseteq 0..FillSize - 1
  BY <1>0, <1>2, <1>e, WindowProduce, SlotsIn, Sizes, Zenon DEF RingTypes, FillSlots
<1>7. Mine \in Frames /\ Mine' = Mine /\ Recycling'
  BY <1>0, <1>2, <1>5, Zenon DEF Separate, Mine, Recycling
<1>8. /\ FillSlots' = FillSlots /\ RxSlots' = RxSlots /\ \A s : RxFrame(s)' = RxFrame(s)
  BY <1>5, Zenon DEF FillSlots, RxSlots, RxFrame
<1>9. fill' \in [0..FillSize - 1 -> Frames] /\ fill'[e] = Mine /\ \A s \in FillSlots : fill'[s] = fill[s]
  BY <1>0, <1>4, <1>6, <1>7, Zenon DEF RingTypes
<1>10. RingTypes'
  BY <1>0, <1>5, <1>9, Zenon DEF RingTypes
<1>11. ReaderInv'
  BY <1>0, <1>5, <1>7, <1>9, <1>e, Zenon DEF ReaderInv
<1>12. Separate'
  BY <1>0, <1>2, <1>5, <1>7, <1>8, <1>9 DEF Separate
<1>13. FramesKept'
  BY <1>0, <1>2, <1>5, <1>7, <1>8, Zenon DEF FramesKept
<1> QED BY <1>10, <1>11, <1>12, <1>13, Zenon DEF PlaceInv

\* The kernel may take the frame from now on.
LEMMA PlacePublish == PlaceInv /\ Publish => PlaceInv'
<1> SUFFICES ASSUME PlaceInv, Publish PROVE PlaceInv'
  BY Zenon
<1>0. RingTypes /\ ReaderInv /\ Separate /\ FramesKept
  BY Zenon DEF PlaceInv
<1>e. PICK e : e = fillProd % FillSize
  BY Zenon
<1>1. /\ fill' = fill /\ fillCons' = fillCons /\ rx' = rx /\ rxProd' = rxProd /\ rxCons' = rxCons
      /\ umem' = umem /\ kernel' = kernel /\ arrived' = arrived /\ corrupt' = corrupt
      /\ desc' = desc /\ data' = data /\ returned' = returned
      /\ rpc = "publish" /\ rpc' = "return" /\ fillProd' = Bump(fillProd)
  BY Zenon DEF Publish, Goto, rxRing, kernelVars
<1>2. Recycling /\ ~Recycling' /\ Used(fillProd, fillCons) < FillSize
  BY <1>0, <1>1, FillRoom, Zenon DEF Recycling
<1>3. /\ FillSlots' = FillSlots \cup {e} /\ e \notin FillSlots /\ fillProd' \in Counters
      /\ Used(fillProd', fillCons') = Used(fillProd, fillCons) + 1
  BY <1>0, <1>1, <1>2, <1>e, WindowProduce, BumpIs, Sizes, Zenon DEF RingTypes, FillSlots
<1>4. fill[e] = Mine /\ Mine' = Mine
  BY <1>0, <1>1, <1>e, Zenon DEF ReaderInv, Mine
<1>5. RxSlots' = RxSlots /\ \A s : RxFrame(s)' = RxFrame(s)
  BY <1>1, Zenon DEF RxSlots, RxFrame
<1>6. RingTypes'
  BY <1>0, <1>1, <1>3, Zenon DEF RingTypes
<1>7. ReaderInv'
  BY <1>0, <1>1, Zenon DEF ReaderInv
<1>8. Separate'
  BY <1>0, <1>1, <1>2, <1>3, <1>4, <1>5, Zenon DEF Separate
<1>9. FramesKept'
  <2>1. Used(fillProd, fillCons) \in Nat /\ Cardinality(RxSlots) \in Nat /\ FillSize \in Nat /\ corrupt \in Nat
    BY <1>0, SlotsIn, Sizes, Zenon DEF RingTypes, RingSizes
  <2> QED BY <1>0, <1>1, <1>2, <1>3, <1>5, <2>1 DEF FramesKept
<1> QED BY <1>6, <1>7, <1>8, <1>9, Zenon DEF PlaceInv

LEMMA PlaceStep == PlaceInv /\ [RingNext]_ringVars => PlaceInv'
  BY PlaceWrite, PlacePost, PlaceLoad, PlaceAdvance, PlaceRecycle, PlacePublish, PlaceStill,
      Zenon DEF RingNext, ReadPacket

LEMMA PlaceImplies == PlaceInv => FramesInOnePlace
<1> SUFFICES ASSUME PlaceInv PROVE FramesInOnePlace
  BY Zenon
<1>0. RingTypes /\ ReaderInv /\ Separate /\ FramesKept
  BY Zenon DEF PlaceInv
<1>1. ASSUME NEW p \in Places, NEW q \in Places, p # q PROVE FrameAt(p) # FrameAt(q)
  <2> DEFINE Fills == {"fill"} \X FillSlots
             Rxs == {"rx"} \X RxSlots
             Kernels == IF kernel = -1 THEN {} ELSE {<<"kernel", 0>>}
             Readers == IF Recycling THEN {<<"reader", 0>>} ELSE {}
  <2>1. \A x \in Fills : x[1] = "fill" /\ x[2] \in FillSlots /\ x = <<"fill", x[2]>> /\ FrameAt(x) = fill[x[2]]
    BY DEF FrameAt
  <2>2. \A x \in Rxs : x[1] = "rx" /\ x[2] \in RxSlots /\ x = <<"rx", x[2]>> /\ FrameAt(x) = RxFrame(x[2])
    BY DEF FrameAt, RxFrame
  <2>3. \A x \in Kernels : x = <<"kernel", 0>> /\ FrameAt(x) = kernel /\ kernel # -1
    BY DEF FrameAt
  <2>4. \A x \in Readers : x = <<"reader", 0>> /\ FrameAt(x) = Mine /\ Recycling
    BY DEF FrameAt, Mine
  <2>5. p \in Fills \cup Rxs \cup Kernels \cup Readers /\ q \in Fills \cup Rxs \cup Kernels \cup Readers
    BY Zenon DEF Places
  <2> HIDE DEF Fills, Rxs, Kernels, Readers
  <2>6. CASE p \in Fills
    BY <1>0, <1>1, <2>1, <2>2, <2>3, <2>4, <2>5, <2>6 DEF Separate
  <2>7. CASE p \in Rxs
    BY <1>0, <1>1, <2>1, <2>2, <2>3, <2>4, <2>5, <2>7 DEF Separate
  <2>8. CASE p \in Kernels
    BY <1>0, <1>1, <2>1, <2>2, <2>3, <2>4, <2>5, <2>8, Zenon DEF Separate
  <2>9. CASE p \in Readers
    BY <1>0, <1>1, <2>1, <2>2, <2>3, <2>4, <2>5, <2>9, Zenon DEF Separate
  <2> QED BY <2>5, <2>6, <2>7, <2>8, <2>9, Zenon
<1>2. FramesDistinct
  BY <1>1, Zenon DEF FramesDistinct
<1> QED BY <1>0, <1>2, FillRoom, Zenon DEF FramesInOnePlace, ReaderInv

\* For any ring sizes, counters of any width that they divide and any interleaving
\* of ReadPacket with the kernel: no frame of the UMEM is in two places, only a
\* corrupt descriptor costs a frame, and neither ring is overrun.
THEOREM FramesArePlaced == RingSpec => []FramesInOnePlace
  BY PlaceStart, PlaceStep, PlaceImplies, PTL DEF RingSpec

----------------------------------------------------------------------------
(* The packets in the rings. *)

\* The packets accepted so far: all that arrived but the one being written.
Accepted == IF kernel = -1 THEN arrived ELSE arrived - 1

PacketInv ==
  /\ arrived <= MaxArrivals
  /\ kernel # -1 => arrived > 0 /\ umem[kernel] = arrived
  /\ \A s \in RxSlots : umem[RxFrame(s)] \in 1..Accepted
  /\ rpc = "advance" => data = umem[Mine]
  /\ rpc \in {"recycle", "publish", "return"} => data \in 1..Accepted
  /\ \A i \in 1..Len(returned) : returned[i] \in 1..Accepted

LEMMA PacketStart == RingInit => PacketInv
<1> SUFFICES ASSUME RingInit PROVE PacketInv
  BY Zenon
<1>1. RxSlots = {}
  <2>1. PlaceInv
    BY PlaceStart, Zenon
  <2>2. 0 \in Counters
    BY Sizes DEF Counters
  <2>3. Used(0, 0) = 0
    BY <2>2, UsedIs, Zenon
  <2> QED BY <2>3 DEF RingInit, RxSlots, Window
<1> QED BY <1>1, RingConstants DEF RingInit, PacketInv

LEMMA PacketUnmoved ==
  ASSUME PlaceInv, PacketInv, UNCHANGED <<rx, rxProd, rxCons, kernel, arrived, umem, returned>>,
         rpc' = "advance" => (data = umem[Mine])',
         rpc' \in {"recycle", "publish", "return"} => rpc \in {"recycle", "publish", "return"} /\ data' = data
  PROVE  PacketInv'
<1>1. RxSlots' = RxSlots /\ (\A s : RxFrame(s)' = RxFrame(s)) /\ Accepted' = Accepted
  BY Zenon DEF RxSlots, RxFrame, Accepted
<1> QED BY <1>1, Zenon DEF PacketInv

\* The head of the rx ring, which the reader has in desc, is a slot that counts.
LEMMA HeadSlot == ASSUME PlaceInv, rpc \in {"copy", "advance"}, NEW h, h = rxCons % RxSize
                  PROVE  h \in RxSlots /\ Mine = RxFrame(h) /\ Mine \in Frames
<1>0. RingTypes /\ ReaderInv
  BY Zenon DEF PlaceInv
<1>1. rxProd # rxCons /\ desc = rx[h] /\ InUmem(desc) /\ Used(rxProd, rxCons) <= RxSize
  BY <1>0, Zenon DEF ReaderInv
<1>2. h \in Window(rxProd, rxCons, RxSize)
  BY <1>0, <1>1, WindowConsume, Sizes, Zenon DEF RingTypes
<1>3. h \in 0..RxSize - 1
  BY <1>0, <1>2, WindowIn, Sizes, Zenon DEF RingTypes
<1> QED BY <1>0, <1>1, <1>2, <1>3, Zenon DEF RxSlots, Mine, RxFrame, RingTypes, Framed

LEMMA PacketStep == PlaceInv /\ PacketInv /\ [RingNext]_ringVars => PacketInv'
<1> SUFFICES ASSUME PlaceInv, PacketInv, [RingNext]_ringVars PROVE PacketInv'
  BY Zenon
<1>0. RingTypes /\ ReaderInv /\ Separate /\ FramesKept
  BY Zenon DEF PlaceInv
<1>a. arrived \in Nat /\ MaxArrivals \in Nat /\ Accepted \in Int
  BY <1>0, RingConstants DEF RingTypes, Accepted
<1>1. CASE KernelWrite
  <2>0. /\ rx' = rx /\ rxProd' = rxProd /\ rxCons' = rxCons /\ rpc' = rpc /\ desc' = desc /\ data' = data
        /\ returned' = returned /\ kernel = -1 /\ arrived' = arrived + 1 /\ arrived < MaxArrivals
    BY <1>1, Zenon DEF KernelWrite, rxRing
  <2>1. RxSlots' = RxSlots /\ (\A s : RxFrame(s)' = RxFrame(s)) /\ Mine' = Mine /\ Accepted = arrived
    BY <2>0, Zenon DEF RxSlots, RxFrame, Mine, Accepted
  <2>2. CASE UNCHANGED <<kernel, umem, fillCons>>
    <3>1. Accepted' = arrived + 1 /\ \A n \in 1..Accepted : n \in 1..Accepted'
      BY <1>a, <2>0, <2>1, <2>2 DEF Accepted
    <3> QED BY <1>a, <2>0, <2>1, <2>2, <3>1 DEF PacketInv
  <2>3. CASE /\ fillProd # fillCons /\ kernel' = fill[fillCons % FillSize]
             /\ umem' = [umem EXCEPT ![fill[fillCons % FillSize]] = arrived + 1]
    <3>h. PICK h : h = fillCons % FillSize
      BY Zenon
    <3>1. h \in FillSlots /\ h \in 0..FillSize - 1
      <4>1. Used(fillProd, fillCons) <= FillSize
        BY <1>0, FillRoom, Zenon
      <4>2. h \in FillSlots
        BY <1>0, <2>3, <3>h, <4>1, WindowConsume, Sizes, Zenon DEF RingTypes, FillSlots
      <4> QED BY <1>0, <4>2, SlotsIn, Zenon
    <3>2. kernel' = fill[h] /\ fill[h] \in Frames /\ kernel' # -1
      BY <1>0, <2>3, <3>1, <3>h, FramesNat, Zenon DEF RingTypes
    <3>3. Accepted' = arrived
      BY <1>a, <2>0, <3>2 DEF Accepted
    <3>4. umem'[kernel'] = arrived + 1 /\ \A f \in Frames : f # fill[h] => umem'[f] = umem[f]
      BY <1>0, <2>3, <3>2, <3>h, Zenon DEF RingTypes
    <3>5. \A s \in RxSlots : RxFrame(s) # fill[h] /\ RxFrame(s) \in Frames
      <4>1. RxSlots \subseteq 0..RxSize - 1
        BY <1>0, SlotsIn, Zenon
      <4> QED BY <1>0, <3>1, <4>1, Zenon DEF Separate, RingTypes, Framed, RxSlots, RxFrame
    <3>6. \A s \in RxSlots : umem'[RxFrame(s)] = umem[RxFrame(s)]
      BY <3>4, <3>5, Zenon
    <3>7. rpc = "advance" => umem'[Mine] = umem[Mine]
      <4> SUFFICES ASSUME rpc = "advance" PROVE umem'[Mine] = umem[Mine]
        BY Zenon
      <4>1. PICK g : g = rxCons % RxSize
        BY Zenon
      <4>2. g \in RxSlots /\ Mine = RxFrame(g)
        BY <4>1, HeadSlot, Zenon
      <4> QED BY <3>6, <4>2, Zenon
    <3> QED BY <1>a, <2>0, <2>1, <3>2, <3>3, <3>4, <3>6, <3>7 DEF PacketInv
  <2> QED BY <1>1, <2>2, <2>3, Zenon DEF KernelWrite
<1>2. CASE KernelPost
  <2>0. /\ rxCons' = rxCons /\ umem' = umem
        /\ arrived' = arrived /\ rpc' = rpc /\ desc' = desc /\ data' = data /\ returned' = returned
        /\ kernel # -1 /\ kernel' = -1
    BY <1>2, Zenon DEF KernelPost
  <2>1. Accepted = arrived - 1 /\ Accepted' = arrived /\ Mine' = Mine
    BY <2>0, Zenon DEF Accepted, Mine
  <2>2. \A s \in RxSlots' : RxFrame(s)' = kernel \/ (s \in RxSlots /\ RxFrame(s)' = RxFrame(s))
    <3>1. PICK e, d : Posted(e, d)
      BY <1>2, PostedSlots, Zenon
    <3>2. RxSlots \subseteq 0..RxSize - 1
      BY <1>0, SlotsIn, Zenon
    <3> QED BY <3>1, <3>2, Zenon DEF Posted, RxFrame
  <2>3. \A n \in 1..Accepted : n \in 1..Accepted'
    BY <1>a, <2>1
  <2>4. arrived \in 1..Accepted' /\ umem[kernel] = arrived
    BY <1>a, <2>0, <2>1 DEF PacketInv
  <2> QED BY <1>a, <2>0, <2>1, <2>2, <2>3, <2>4, Zenon DEF PacketInv
<1>3. CASE Load \/ Advance
  <2>1. UNCHANGED <<rx, rxProd, kernel, arrived, umem, returned, data>>
    BY <1>3, Zenon DEF Load, Advance, Goto, kernelVars
  <2>2. CASE rxCons' = rxCons /\ Load
    <3>1. rpc' \in {"check", "copy"}
      BY <2>2, Zenon DEF Load, Goto
    <3> QED BY <2>1, <2>2, <3>1, PacketUnmoved, Zenon
  <2>3. CASE rxProd # rxCons /\ rxCons' = Bump(rxCons)
    <3>1. RxSlots' \subseteq RxSlots /\ \A s : RxFrame(s)' = RxFrame(s)
      <4>1. PICK h : h = rxCons % RxSize
        BY Zenon
      <4> QED BY <1>0, <2>1, <2>3, <4>1, RxConsume, Zenon DEF ReaderInv
    <3>2. Accepted' = Accepted
      BY <2>1, Zenon DEF Accepted
    <3>3. CASE Load
      <4>1. rpc' \in {"check", "copy"}
        BY <3>3, Zenon DEF Load, Goto
      <4> QED BY <2>1, <3>1, <3>2, <4>1, Zenon DEF PacketInv
    <3>4. CASE Advance
      <4>1. rpc' = "recycle" /\ rpc = "advance"
        BY <3>4, Zenon DEF Advance, Goto
      <4>2. data \in 1..Accepted
        <5>1. PICK h : h = rxCons % RxSize
          BY Zenon
        <5>2. h \in RxSlots /\ Mine = RxFrame(h)
          BY <4>1, <5>1, HeadSlot, Zenon
        <5> QED BY <4>1, <5>2, Zenon DEF PacketInv
      <4> QED BY <2>1, <3>1, <3>2, <4>1, <4>2, Zenon DEF PacketInv
    <3> QED BY <1>3, <3>3, <3>4, Zenon
  <2>4. CASE Advance
    <3>1. rxProd # rxCons /\ rxCons' = Bump(rxCons)
      BY <1>0, <2>4, Zenon DEF Advance, Goto, ReaderInv
    <3> QED BY <2>3, <3>1, Zenon
  <2>5. Load => (rxCons' = rxCons \/ (rxProd # rxCons /\ rxCons' = Bump(rxCons)))
    BY Zenon DEF Load
  <2> QED BY <1>3, <2>2, <2>3, <2>4, <2>5, Zenon
<1>4. CASE Call \/ CheckClosed \/ PollFails \/ RingClose \/ UNCHANGED ringVars
  <2>1. /\ UNCHANGED <<rx, rxProd, rxCons, kernel, arrived, umem, returned, data, desc>>
        /\ rpc' = rpc \/ rpc' \in {"check", "load", "eof", "idle"}
    BY <1>4, Zenon DEF Call, CheckClosed, PollFails, RingClose, Goto, kernelVars, rxRing, ringVars
  <2>2. rpc' = "advance" => (data = umem[Mine])'
    BY <2>1, Zenon DEF PacketInv, Mine
  <2> QED BY <2>1, <2>2, PacketUnmoved, Zenon
<1>5. CASE Copy
  <2>1. /\ UNCHANGED <<rx, rxProd, rxCons, kernel, arrived, umem, returned, desc>>
        /\ rpc' = "advance" /\ data' = umem[Mine]
    BY <1>5, Zenon DEF Copy, Goto, kernelVars, rxRing, Mine
  <2>2. (data = umem[Mine])'
    BY <2>1, Zenon DEF Mine
  <2> QED BY <2>1, <2>2, PacketUnmoved, Zenon
<1>6. CASE Recycle \/ Publish
  <2>1. /\ UNCHANGED <<rx, rxProd, rxCons, kernel, arrived, umem, returned, data>>
        /\ rpc \in {"recycle", "publish"} /\ rpc' \in {"publish", "return"}
    BY <1>6, Zenon DEF Recycle, Publish, Goto, kernelVars, rxRing
  <2> QED BY <2>1, PacketUnmoved, Zenon
<1>7. CASE Return
  <2>1. /\ UNCHANGED <<rx, rxProd, rxCons, kernel, arrived, umem, data>>
        /\ rpc = "return" /\ rpc' \in {"check", "idle"}
        /\ returned' = returned \/ returned' = Append(returned, data)
    <3>1. CASE Goto("return", "check") /\ UNCHANGED returned
      BY <1>7, <3>1, Zenon DEF Return, Goto, kernelVars, rxRing
    <3>2. CASE Goto("return", "idle") /\ returned' = Append(returned, data)
      BY <1>7, <3>2, Zenon DEF Return, Goto, kernelVars, rxRing
    <3> QED BY <1>7, <3>1, <3>2, Zenon DEF Return
  <2>2. RxSlots' = RxSlots /\ (\A s : RxFrame(s)' = RxFrame(s)) /\ Accepted' = Accepted
    BY <2>1, Zenon DEF RxSlots, RxFrame, Accepted
  <2>3. data \in 1..Accepted
    BY <2>1, Zenon DEF PacketInv
  <2>4. \A i \in 1..Len(returned') : returned'[i] \in 1..Accepted
    <3>1. returned \in Seq(Nat) /\ \A i \in 1..Len(returned) : returned[i] \in 1..Accepted
      BY <1>0, Zenon DEF RingTypes, PacketInv
    <3>2. CASE returned' = Append(returned, data)
      BY ONLY <2>3, <3>1, <3>2
    <3> QED BY <2>1, <3>1, <3>2, Zenon
  <2> QED BY <2>1, <2>2, <2>4, Zenon DEF PacketInv
<1> QED BY <1>1, <1>2, <1>3, <1>4, <1>5, <1>6, <1>7, Zenon DEF RingNext, ReadPacket

----------------------------------------------------------------------------
(* ReadPacket implements PacketSource. *)

\* Sequences are equal that agree on their elements.
LEMMA SeqSame == ASSUME NEW s \in Seq(Nat), NEW t \in Seq(Nat), Len(t) = Len(s),
                        \A i \in 1..Len(s) : t[i] = s[i]
                 PROVE  t = s
  OBVIOUS

LEMMA SeqAppend == ASSUME NEW s \in Seq(Nat), NEW t \in Seq(Nat), NEW n \in Nat, Len(t) = Len(s) + 1,
                          \A i \in 1..Len(s) : t[i] = s[i], t[Len(s) + 1] = n
                   PROVE  t = Append(s, n)
<1>1. Append(s, n) \in Seq(Nat) /\ Len(Append(s, n)) = Len(s) + 1
  OBVIOUS
<1>2. \A i \in 1..Len(s) + 1 : Append(s, n)[i] = t[i]
  OBVIOUS
<1> QED BY <1>1, <1>2, SeqSame, Zenon

LEMMA SeqTail == ASSUME NEW s \in Seq(Nat), NEW t \in Seq(Nat), s # << >>, Len(t) = Len(s) - 1,
                        \A i \in 1..Len(t) : t[i] = s[i + 1]
                 PROVE  t = Tail(s)
<1>1. Tail(s) \in Seq(Nat) /\ Len(Tail(s)) = Len(s) - 1
  OBVIOUS
<1>2. \A i \in 1..Len(t) : Tail(s)[i] = t[i]
  OBVIOUS
<1> QED BY <1>1, <1>2, SeqSame, Zenon

\* The packets in the rx ring, and the queue that the reader and the ring form.
LEMMA PacketAtIn == ASSUME RingTypes, PacketInv, NEW k \in 0..Used(rxProd, rxCons) - 1
                    PROVE  /\ PacketAt(k) \in Nat /\ PacketAt(k) <= arrived
                           /\ kernel # -1 => PacketAt(k) < arrived
<1>s. PICK s : s = (rxCons + k) % RxSize
  BY Zenon
<1>1. s \in Window(rxProd, rxCons, RxSize)
  BY <1>s, Zenon DEF Window
<1>2. s \in 0..RxSize - 1
  BY <1>1, WindowIn, Sizes, Zenon DEF RingTypes
<1>3. PacketAt(k) = IF InUmem(rx[s]) THEN umem[RxFrame(s)] ELSE 0
  BY <1>s, Zenon DEF PacketAt, RxFrame
<1>4. arrived \in Nat
  BY Zenon DEF RingTypes
<1>5. CASE InUmem(rx[s])
  <2>1. s \in RxSlots
    BY <1>1, <1>5, Zenon DEF RxSlots
  <2>2. umem[RxFrame(s)] \in 1..Accepted
    BY <2>1, Zenon DEF PacketInv
  <2> QED BY <1>3, <1>4, <1>5, <2>2 DEF Accepted
<1>6. CASE ~InUmem(rx[s])
  <2>1. PacketAt(k) = 0
    BY <1>3, <1>6, Zenon
  <2> QED BY <1>4, <2>1 DEF PacketInv
<1> QED BY <1>5, <1>6, Zenon

QueueFacts ==
  /\ Pending \in Seq(Nat) /\ Len(Pending) = InHand + Used(rxProd, rxCons)
  /\ \A i \in 1..Len(Pending) :
       /\ Pending[i] = IF i <= InHand THEN data ELSE PacketAt(i - InHand - 1)
       /\ Pending[i] <= arrived
       /\ kernel # -1 => Pending[i] < arrived

LEMMA PendingIs == PlaceInv /\ PacketInv => QueueFacts
<1> SUFFICES ASSUME PlaceInv, PacketInv PROVE QueueFacts
  BY Zenon
<1>r. RingTypes
  BY Zenon DEF PlaceInv
<1> DEFINE n == Used(rxProd, rxCons)
<1>0. n \in Nat /\ InHand \in {0, 1} /\ arrived \in Nat
  BY <1>r, UsedIs DEF RingTypes, Counters, InHand
<1>1. ASSUME NEW i \in 1..InHand + n, i <= InHand
      PROVE  data \in Nat /\ data <= arrived /\ (kernel # -1 => data < arrived)
  <2>1. rpc \in {"recycle", "publish", "return"}
    BY <1>0, <1>1 DEF InHand
  <2>2. data \in 1..Accepted
    BY <2>1, Zenon DEF PacketInv
  <2> QED BY <1>0, <2>2 DEF Accepted
<1>2. ASSUME NEW i \in 1..InHand + n, ~(i <= InHand)
      PROVE  /\ PacketAt(i - InHand - 1) \in Nat /\ PacketAt(i - InHand - 1) <= arrived
             /\ kernel # -1 => PacketAt(i - InHand - 1) < arrived
  <2>1. i - InHand - 1 \in 0..n - 1
    BY <1>0, <1>2
  <2> QED BY <1>r, <2>1, PacketAtIn, Zenon
<1>3. Pending = [i \in 1..InHand + n |-> IF i <= InHand THEN data ELSE PacketAt(i - InHand - 1)]
  BY Zenon DEF Pending
<1> HIDE DEF n
<1>4. \A i \in 1..InHand + n : Pending[i] = IF i <= InHand THEN data ELSE PacketAt(i - InHand - 1)
  BY <1>3, Zenon
<1>5. \A i \in 1..InHand + n : Pending[i] \in Nat /\ Pending[i] <= arrived /\ (kernel # -1 => Pending[i] < arrived)
  BY <1>1, <1>2, <1>4, Zenon
<1>6. InHand + n \in Nat /\ Pending = [i \in 1..InHand + n |-> Pending[i]]
  BY <1>0, <1>3
<1>7. Pending \in Seq(Nat) /\ Len(Pending) = InHand + n
  <2>1. Pending \in [1..InHand + n -> Nat]
    BY <1>5, <1>6, Zenon
  <2> QED BY <1>6, <2>1
<1> QED BY <1>4, <1>5, <1>7, Zenon DEF n, QueueFacts

SourceVars == <<Pending, returned>>

\* The packets at the same places of the rx ring stay when their frames do.
LEMMA SameAt ==
  ASSUME RingTypes, UNCHANGED <<rx, rxProd, rxCons>>,
         \A s \in RxSlots : umem'[RxFrame(s)] = umem[RxFrame(s)]
  PROVE  \A k \in 0..Used(rxProd, rxCons) - 1 : PacketAt(k)' = PacketAt(k)
<1> SUFFICES ASSUME NEW k \in 0..Used(rxProd, rxCons) - 1 PROVE PacketAt(k)' = PacketAt(k)
  BY Zenon
<1>s. PICK s : s = (rxCons + k) % RxSize
  BY Zenon
<1>1. s \in Window(rxProd, rxCons, RxSize)
  BY <1>s, Zenon DEF Window
<1>2. InUmem(rx[s]) => s \in RxSlots
  BY <1>1, Zenon DEF RxSlots
<1>3. PacketAt(k) = IF InUmem(rx[s]) THEN umem[RxFrame(s)] ELSE 0
  BY <1>s, Zenon DEF PacketAt, RxFrame
<1>4. PacketAt(k)' = IF InUmem(rx[s]) THEN umem'[RxFrame(s)] ELSE 0
  BY <1>s, Zenon DEF PacketAt, RxFrame, InUmem
<1> QED BY <1>2, <1>3, <1>4, Zenon

\* A step that leaves the packets and the reader's hand alone leaves the queue alone.
LEMMA QueueSame ==
  ASSUME QueueFacts, QueueFacts', Used(rxProd, rxCons) \in Nat, Used(rxProd', rxCons') = Used(rxProd, rxCons),
         InHand' = InHand, InHand = 1 => data' = data,
         \A k \in 0..Used(rxProd, rxCons) - 1 : PacketAt(k)' = PacketAt(k)
  PROVE  Pending' = Pending
<1>0. InHand \in {0, 1}
  BY Zenon DEF InHand
<1>1. Pending \in Seq(Nat) /\ Pending' \in Seq(Nat) /\ Len(Pending') = Len(Pending)
  BY Zenon DEF QueueFacts
<1>2. ASSUME NEW i \in 1..Len(Pending) PROVE Pending'[i] = Pending[i]
  <2>1. i \in 1..InHand + Used(rxProd, rxCons)
    BY Zenon DEF QueueFacts
  <2>2. Pending[i] = IF i <= InHand THEN data ELSE PacketAt(i - InHand - 1)
    BY Zenon DEF QueueFacts
  <2>3. Pending'[i] = IF i <= InHand' THEN data' ELSE PacketAt(i - InHand - 1)'
    BY <1>1, Zenon DEF QueueFacts
  <2>4. CASE i <= InHand
    BY <1>0, <2>1, <2>2, <2>3, <2>4
  <2>5. CASE ~(i <= InHand)
    <3>1. i - InHand - 1 \in 0..Used(rxProd, rxCons) - 1
      BY <1>0, <2>1, <2>5
    <3> QED BY <2>2, <2>3, <2>5, <3>1, Zenon
  <2> QED BY <2>4, <2>5, Zenon
<1> QED BY <1>1, <1>2, SeqSame, Zenon

LEMMA NextAt ==
  ASSUME RingTypes, UNCHANGED <<rx, umem>>, rxCons' = Bump(rxCons), NEW k \in Nat
  PROVE  PacketAt(k)' = PacketAt(k + 1)
<1>1. rxCons \in Counters /\ rxCons \in Nat
  BY DEF RingTypes, Counters
<1>2. (Bump(rxCons) + k) % RxSize = (rxCons + k + 1) % RxSize
  BY <1>1, SlotOf, Sizes, Zenon
<1>3. rxCons + k + 1 = rxCons + (k + 1)
  BY <1>1
<1>s. PICK s : s = (rxCons + (k + 1)) % RxSize
  BY Zenon
<1>4. (rxCons' + k) % RxSize = s
  BY <1>2, <1>3, <1>s, Zenon
<1>5. PacketAt(k)' = IF InUmem(rx[s]) THEN umem[FrameBase(rx[s].addr)] ELSE 0
  BY <1>4, Zenon DEF PacketAt, InUmem
<1>6. PacketAt(k + 1) = IF InUmem(rx[s]) THEN umem[FrameBase(rx[s].addr)] ELSE 0
  BY <1>s, Zenon DEF PacketAt
<1> QED BY <1>5, <1>6

\* The frame the kernel posts is the youngest packet of the queue.
LEMMA PostRefines ==
  ASSUME PlaceInv, PacketInv, QueueFacts, QueueFacts', KernelPost
  PROVE  Source!Next
<1>0. RingTypes /\ ReaderInv
  BY Zenon DEF PlaceInv
<1>n. PICK n : n = Used(rxProd, rxCons)
  BY Zenon
<1>1. /\ rxCons' = rxCons /\ umem' = umem /\ arrived' = arrived /\ rpc' = rpc /\ data' = data
      /\ returned' = returned /\ kernel # -1
  BY Zenon DEF KernelPost
<1>2. PICK e, d : Posted(e, d)
  BY PostedSlots, Zenon
<1>3. n \in Nat /\ Used(rxProd', rxCons') = n + 1 /\ (rxCons + n) % RxSize = e
  <2>1. (rxCons + Used(rxProd, rxCons)) % RxSize = rxProd % RxSize
    BY <1>0, EndOf, Sizes, Zenon DEF RingTypes
  <2> QED BY <1>0, <1>2, <1>n, <2>1, SlotsIn, Zenon DEF Posted
<1>4. ASSUME NEW k \in 0..n - 1 PROVE PacketAt(k)' = PacketAt(k)
  <2>s. PICK s : s = (rxCons + k) % RxSize
    BY Zenon
  <2>1. s \in Window(rxProd, rxCons, RxSize)
    BY <1>n, <2>s, Zenon DEF Window
  <2>2. s \in 0..RxSize - 1 /\ s # e
    BY <1>0, <1>2, <2>1, WindowIn, Sizes, Zenon DEF RingTypes, Posted
  <2>3. rx'[s] = rx[s]
    BY <1>2, <2>2, Zenon DEF Posted
  <2>4. PacketAt(k)' = IF InUmem(rx'[s]) THEN umem[FrameBase(rx'[s].addr)] ELSE 0
    BY <1>1, <2>s, Zenon DEF PacketAt, InUmem
  <2>5. PacketAt(k) = IF InUmem(rx[s]) THEN umem[FrameBase(rx[s].addr)] ELSE 0
    BY <2>s, Zenon DEF PacketAt
  <2> QED BY <2>3, <2>4, <2>5
<1>5. PacketAt(n)' = IF InUmem(d) THEN umem[kernel] ELSE 0
  <2>1. PacketAt(n)' = IF InUmem(rx'[e]) THEN umem[FrameBase(rx'[e].addr)] ELSE 0
    BY <1>1, <1>3, Zenon DEF PacketAt, InUmem
  <2> QED BY <1>2, <2>1, Zenon DEF Posted
<1>6. InHand' = InHand /\ InHand \in {0, 1}
  BY <1>1, Zenon DEF InHand
<1>p. PICK p : p = PacketAt(n)'
  BY Zenon
<1>7. arrived \in 1..MaxArrivals /\ umem[kernel] = arrived /\ arrived \in Nat /\ MaxArrivals \in Nat
  BY <1>0, <1>1, RingConstants DEF PacketInv, RingTypes
<1>8. p \in Nat /\ (p = arrived \/ p = 0)
  BY <1>5, <1>7, <1>p
<1>9. Pending \in Seq(Nat) /\ Pending' \in Seq(Nat) /\ Len(Pending) = InHand + n /\ Len(Pending') = Len(Pending) + 1
  BY <1>1, <1>3, <1>6, <1>n DEF QueueFacts
<1>10. ASSUME NEW i \in 1..Len(Pending') PROVE Pending'[i] = IF i = Len(Pending) + 1 THEN p ELSE Pending[i]
  <2>1. i \in 1..InHand + n + 1 /\ i \in Nat
    BY <1>3, <1>6, <1>9
  <2>2. Pending'[i] = IF i <= InHand' THEN data' ELSE PacketAt(i - InHand - 1)'
    BY Zenon DEF QueueFacts
  <2>k. PICK k : k = i - InHand - 1
    BY Zenon
  <2>3. CASE i = Len(Pending) + 1
    <3>1. k = n /\ ~(i <= InHand)
      BY <1>3, <1>6, <1>9, <2>3, <2>k
    <3>2. Pending'[i] = PacketAt(k)'
      BY <1>6, <2>2, <2>k, <3>1, Zenon
    <3> QED BY <1>p, <2>3, <3>1, <3>2, Zenon
  <2>4. CASE i # Len(Pending) + 1
    <3>1. i \in 1..Len(Pending)
      BY <1>3, <1>6, <1>9, <2>1, <2>4
    <3>2. Pending[i] = IF i <= InHand THEN data ELSE PacketAt(k)
      BY <2>k, <3>1, Zenon DEF QueueFacts
    <3>3. Pending'[i] = IF i <= InHand THEN data ELSE PacketAt(k)'
      BY <1>1, <1>6, <2>2, <2>k, Zenon
    <3>4. ~(i <= InHand) => k \in 0..n - 1
      BY <1>3, <1>6, <1>9, <2>k, <3>1
    <3> QED BY <1>4, <2>4, <3>2, <3>3, <3>4, Zenon
  <2> QED BY <2>3, <2>4, Zenon
<1>11. Pending' = Append(Pending, p)
  <2>1. \A i \in 1..Len(Pending) : Pending'[i] = Pending[i]
    BY <1>9, <1>10
  <2>2. Pending'[Len(Pending) + 1] = p
    BY <1>9, <1>10
  <2> QED BY <1>8, <1>9, <2>1, <2>2, SeqAppend, Zenon
<1>12. CASE p = 0
  <2>1. Source!Misplace
    BY <1>1, <1>11, <1>12, Zenon DEF Source!Misplace
  <2> QED BY <2>1, Zenon DEF Source!Next
<1>13. CASE p = arrived
  <2>1. \A i \in 1..Len(Pending) : Pending[i] < p
    BY <1>1, <1>13, Zenon DEF QueueFacts
  <2>2. \A i \in 1..Len(returned) : returned[i] < p
    <3>1. \A i \in 1..Len(returned) : returned[i] \in 1..arrived - 1
      BY <1>1, Zenon DEF PacketInv, Accepted
    <3> QED BY <1>7, <1>13, <3>1
  <2>3. Source!Accept
    BY <1>1, <1>7, <1>11, <1>13, <2>1, <2>2, Zenon DEF Source!Accept
  <2> QED BY <2>3, Zenon DEF Source!Next
<1> QED BY <1>8, <1>12, <1>13, Zenon

\* The queue loses its head: a descriptor is skipped, or a packet is returned.
LEMMA HeadLeaves ==
  ASSUME QueueFacts, QueueFacts', NEW n \in Nat, Len(Pending) = n + 1, Len(Pending') = n,
         \A i \in 1..n : Pending'[i] = Pending[i + 1]
  PROVE  Pending # << >> /\ Pending' = Tail(Pending) /\ Head(Pending) = Pending[1]
<1>1. Pending \in Seq(Nat) /\ Pending' \in Seq(Nat)
  BY Zenon DEF QueueFacts
<1>2. Pending # << >> /\ Len(Pending') = Len(Pending) - 1
  BY <1>1
<1>3. Pending' = Tail(Pending)
  BY <1>1, <1>2, SeqTail, Zenon
<1> QED BY <1>1, <1>2, <1>3

\* A descriptor that points out of the UMEM leaves the queue without a packet.
LEMMA SkipRefines ==
  ASSUME PlaceInv, PacketInv, QueueFacts, QueueFacts', Load, rxCons' # rxCons
  PROVE  Source!Next
<1>0. RingTypes /\ ReaderInv
  BY Zenon DEF PlaceInv
<1>1. /\ rx' = rx /\ rxProd' = rxProd /\ umem' = umem /\ returned' = returned
      /\ rpc = "load" /\ rpc' = "check" /\ rxProd # rxCons /\ rxCons' = Bump(rxCons)
      /\ rx[rxCons % RxSize].addr + rx[rxCons % RxSize].length > UmemLen
  BY Zenon DEF Load, Goto
<1>2. InHand = 0 /\ InHand' = 0
  BY <1>1, Zenon DEF InHand
<1>m. PICK m : m = Used(rxProd', rxCons')
  BY Zenon
<1>3. m \in Nat /\ Used(rxProd, rxCons) = m + 1
  <2>1. Used(rxProd, Bump(rxCons)) = Used(rxProd, rxCons) - 1 /\ Used(rxProd, rxCons) > 0
    BY <1>0, <1>1, UsedConsume, Zenon DEF RingTypes
  <2> QED BY <1>0, <1>1, <1>m, <2>1, SlotsIn
<1>4. Len(Pending) = m + 1 /\ Len(Pending') = m
  BY <1>2, <1>3, <1>m DEF QueueFacts
<1>5. ASSUME NEW i \in 1..m PROVE Pending'[i] = Pending[i + 1]
  <2>k. PICK k : k = i - 1
    BY Zenon
  <2>0. k \in Nat /\ i - 0 - 1 = k /\ (i + 1) - 0 - 1 = k + 1 /\ i + 1 \in 1..m + 1 /\ i \in Nat /\ i > 0
    BY <1>3, <2>k
  <2>1. Pending'[i] = PacketAt(k)'
    <3>1. Pending'[i] = IF i <= InHand' THEN data' ELSE PacketAt(i - InHand - 1)'
      BY <1>4, Zenon DEF QueueFacts
    <3>2. ~(i <= 0) /\ i - InHand' - 1 = k
      BY <1>2, <2>0
    <3> QED BY <1>2, <3>1, <3>2, Zenon
  <2>2. Pending[i + 1] = PacketAt(k + 1)
    <3>1. Pending[i + 1] = IF i + 1 <= InHand THEN data ELSE PacketAt((i + 1) - InHand - 1)
      BY <1>4, <2>0, Zenon DEF QueueFacts
    <3> QED BY <1>2, <2>0, <3>1
  <2> QED BY <1>0, <1>1, <2>0, <2>1, <2>2, NextAt, Zenon
<1>6. Pending # << >> /\ Pending' = Tail(Pending) /\ Head(Pending) = Pending[1]
  BY <1>3, <1>4, <1>5, HeadLeaves, Zenon
<1>7. Pending[1] = 0
  <2>1. Pending[1] = IF 1 <= InHand THEN data ELSE PacketAt(1 - InHand - 1)
    BY <1>3, <1>4 DEF QueueFacts
  <2>2. Pending[1] = PacketAt(0)
    BY <1>2, <2>1
  <2>h. PICK h : h = rxCons % RxSize
    BY Zenon
  <2>3. (rxCons + 0) % RxSize = h
    <3>1. rxCons + 0 = rxCons
      BY <1>0 DEF RingTypes, Counters
    <3> QED BY <2>h, <3>1, Zenon
  <2>4. ~InUmem(rx[h])
    <3>1. h \in 0..RxSize - 1
      <4>1. h \in Window(rxProd, rxCons, RxSize)
        BY <1>0, <1>1, <2>h, WindowConsume, Sizes, Zenon DEF RingTypes, ReaderInv
      <4> QED BY <1>0, <4>1, WindowIn, Sizes, Zenon DEF RingTypes
    <3>2. rx[h].addr \in Nat /\ rx[h].length \in Nat
      BY <1>0, <3>1, Zenon DEF RingTypes, Descriptors
    <3> QED BY <1>1, <2>h, <3>2, UmemSize DEF InUmem
  <2> QED BY <2>2, <2>3, <2>4, Zenon DEF PacketAt
<1>8. Head(Pending) \notin 1..MaxArrivals \ Unmatched
  BY <1>6, <1>7
<1>9. Source!Return
  BY <1>1, <1>6, <1>8, Zenon DEF Source!Return
<1> QED BY <1>9, Zenon DEF Source!Next

\* The packet copied before is in the reader's hand when its slot is given back.
LEMMA AdvanceRefines ==
  ASSUME PlaceInv, PacketInv, QueueFacts, QueueFacts', Advance
  PROVE  UNCHANGED SourceVars
<1>0. RingTypes /\ ReaderInv
  BY Zenon DEF PlaceInv
<1>1. /\ rx' = rx /\ rxProd' = rxProd /\ umem' = umem /\ returned' = returned /\ data' = data
      /\ rpc = "advance" /\ rpc' = "recycle" /\ rxCons' = Bump(rxCons)
  BY Zenon DEF Advance, Goto
<1>2. InHand = 0 /\ InHand' = 1
  BY <1>1, Zenon DEF InHand
<1>m. PICK m : m = Used(rxProd', rxCons')
  BY Zenon
<1>3. m \in Nat /\ Used(rxProd, rxCons) = m + 1
  <2>1. Used(rxProd, Bump(rxCons)) = Used(rxProd, rxCons) - 1 /\ Used(rxProd, rxCons) > 0
    BY <1>0, <1>1, UsedConsume, Zenon DEF RingTypes, ReaderInv
  <2> QED BY <1>0, <1>1, <1>m, <2>1, SlotsIn
<1>4. /\ Len(Pending) = m + 1 /\ Len(Pending') = m + 1
      /\ Pending \in Seq(Nat) /\ Pending' \in Seq(Nat)
  BY <1>2, <1>3, <1>m DEF QueueFacts
<1>5. data = PacketAt(0)
  <2>h. PICK h : h = rxCons % RxSize
    BY Zenon
  <2>1. h \in RxSlots /\ Mine = RxFrame(h)
    BY <1>1, <2>h, HeadSlot, Zenon
  <2>2. (rxCons + 0) % RxSize = h
    <3>1. rxCons + 0 = rxCons
      BY <1>0 DEF RingTypes, Counters
    <3> QED BY <2>h, <3>1, Zenon
  <2>3. InUmem(rx[h])
    BY <2>1, Zenon DEF RxSlots
  <2>4. PacketAt(0) = umem[RxFrame(h)]
    BY <2>2, <2>3, Zenon DEF PacketAt, RxFrame
  <2> QED BY <1>1, <2>1, <2>4, Zenon DEF PacketInv
<1>6. ASSUME NEW i \in 1..m + 1 PROVE Pending'[i] = Pending[i]
  <2>0. Pending'[i] = IF i <= InHand' THEN data' ELSE PacketAt(i - InHand - 1)'
    BY <1>4, Zenon DEF QueueFacts
  <2>1. Pending[i] = IF i <= InHand THEN data ELSE PacketAt(i - InHand - 1)
    BY <1>4, Zenon DEF QueueFacts
  <2>2. CASE i = 1
    <3>1. Pending'[i] = data
      BY <1>1, <1>2, <2>0, <2>2
    <3>2. Pending[i] = PacketAt(0)
      BY <1>2, <2>1, <2>2
    <3> QED BY <1>5, <3>1, <3>2, Zenon
  <2>3. CASE i # 1
    <3>k. PICK k : k = i - 2
      BY Zenon
    <3>1. k \in Nat /\ i - 1 - 1 = k /\ i - 0 - 1 = k + 1 /\ ~(i <= 1) /\ ~(i <= 0)
      BY <1>3, <2>3, <3>k
    <3>2. Pending'[i] = PacketAt(k)'
      <4>1. i - InHand' - 1 = k
        BY <1>2, <3>1, Zenon
      <4> QED BY <1>2, <2>0, <3>1, <4>1, Zenon
    <3>3. Pending[i] = PacketAt(k + 1)
      BY <1>2, <2>1, <3>1, Zenon
    <3> QED BY <1>0, <1>1, <3>1, <3>2, <3>3, NextAt, Zenon
  <2> QED BY <2>2, <2>3, Zenon
<1>7. Pending' = Pending
  BY <1>4, <1>6, SeqSame, Zenon
<1> QED BY <1>1, <1>7, Zenon DEF SourceVars

\* The packet in the hand is returned if the filter lets it through.
LEMMA ReturnRefines ==
  ASSUME PlaceInv, PacketInv, QueueFacts, QueueFacts', Return
  PROVE  Source!Next
<1>0. RingTypes
  BY Zenon DEF PlaceInv
<1>1. /\ rx' = rx /\ rxProd' = rxProd /\ rxCons' = rxCons /\ umem' = umem /\ data' = data
      /\ rpc = "return" /\ rpc' \in {"check", "idle"}
      /\ \/ data \in Unmatched /\ returned' = returned
         \/ data \notin Unmatched /\ returned' = Append(returned, data)
  <2>1. CASE data \in Unmatched /\ Goto("return", "check") /\ UNCHANGED returned
    BY <2>1, Zenon DEF Return, Goto, rxRing
  <2>2. CASE data \notin Unmatched /\ Goto("return", "idle") /\ returned' = Append(returned, data)
    BY <2>2, Zenon DEF Return, Goto, rxRing
  <2> QED BY <2>1, <2>2, Zenon DEF Return
<1>2. InHand = 1 /\ InHand' = 0
  BY <1>1, Zenon DEF InHand
<1>m. PICK m : m = Used(rxProd, rxCons)
  BY Zenon
<1>3. m \in Nat /\ Used(rxProd', rxCons') = m
  BY <1>0, <1>1, <1>m, SlotsIn, Zenon
<1>4. Len(Pending) = m + 1 /\ Len(Pending') = m
  BY <1>2, <1>3, <1>m DEF QueueFacts
<1>5. ASSUME NEW i \in 1..m PROVE Pending'[i] = Pending[i + 1]
  <2>k. PICK k : k = i - 1
    BY Zenon
  <2>0. /\ k \in 0..m - 1 /\ i - 0 - 1 = k /\ (i + 1) - 1 - 1 = k /\ i + 1 \in 1..m + 1
        /\ ~(i <= 0) /\ ~(i + 1 <= 1)
    BY <1>3, <2>k
  <2>1. Pending'[i] = PacketAt(k)'
    <3>1. Pending'[i] = IF i <= InHand' THEN data' ELSE PacketAt(i - InHand - 1)'
      BY <1>4, Zenon DEF QueueFacts
    <3>2. i - InHand' - 1 = k
      BY <1>2, <2>0, Zenon
    <3> QED BY <1>2, <2>0, <3>1, <3>2, Zenon
  <2>2. Pending[i + 1] = PacketAt(k)
    <3>1. Pending[i + 1] = IF i + 1 <= InHand THEN data ELSE PacketAt((i + 1) - InHand - 1)
      BY <1>4, <2>0, Zenon DEF QueueFacts
    <3> QED BY <1>2, <2>0, <3>1, Zenon
  <2>3. PacketAt(k)' = PacketAt(k)
    BY <1>1, Zenon DEF PacketAt, InUmem
  <2> QED BY <2>1, <2>2, <2>3, Zenon
<1>6. Pending # << >> /\ Pending' = Tail(Pending) /\ Head(Pending) = Pending[1]
  BY <1>3, <1>4, <1>5, HeadLeaves, Zenon
<1>7. Pending[1] = data
  <2>1. Pending[1] = IF 1 <= InHand THEN data ELSE PacketAt(1 - InHand - 1)
    BY <1>3, <1>4 DEF QueueFacts
  <2> QED BY <1>2, <2>1
<1>8. data \in 1..MaxArrivals
  <2>1. data \in 1..Accepted /\ arrived <= MaxArrivals
    BY <1>1, Zenon DEF PacketInv
  <2>2. arrived \in Nat /\ MaxArrivals \in Nat
    BY <1>0, RingConstants, Zenon DEF RingTypes
  <2> QED BY <2>1, <2>2 DEF Accepted
<1>9. returned' = IF Head(Pending) \in 1..MaxArrivals \ Unmatched THEN Append(returned, Head(Pending)) ELSE returned
  BY <1>1, <1>6, <1>7, <1>8, Zenon
<1>10. Source!Return
  BY <1>6, <1>9, Zenon DEF Source!Return
<1> QED BY <1>10, Zenon DEF Source!Next

\* Every other step of the reader, of Close and of the kernel leaves the queue alone.
LEMMA StutterRefines ==
  ASSUME PlaceInv, PacketInv, QueueFacts, QueueFacts',
         \/ Call \/ CheckClosed \/ PollFails \/ Copy \/ Recycle \/ Publish \/ RingClose \/ KernelWrite
         \/ (Load /\ rxCons' = rxCons) \/ UNCHANGED ringVars
  PROVE  UNCHANGED SourceVars
<1>0. RingTypes /\ Separate /\ FramesKept
  BY Zenon DEF PlaceInv
<1>1. /\ rx' = rx /\ rxProd' = rxProd /\ rxCons' = rxCons /\ returned' = returned
      /\ InHand' = InHand /\ (InHand = 1 => data' = data)
  <2>1. CASE Call \/ CheckClosed \/ PollFails
    BY <2>1, Zenon DEF Call, CheckClosed, PollFails, Goto, rxRing, InHand
  <2>2. CASE Copy
    BY <2>2 DEF Copy, Goto, rxRing, InHand
  <2>3. CASE Recycle \/ Publish
    BY <2>3, Zenon DEF Recycle, Publish, Goto, rxRing, InHand
  <2>4. CASE RingClose \/ KernelWrite \/ UNCHANGED ringVars
    BY <2>4, Zenon DEF RingClose, KernelWrite, rxRing, ringVars, InHand
  <2>5. CASE Load /\ rxCons' = rxCons
    <3>1. rpc = "load" /\ rpc' \in {"check", "copy"} /\ UNCHANGED <<rx, rxProd, returned>>
      BY <2>5, Zenon DEF Load, Goto
    <3> QED BY <2>5, <3>1 DEF InHand
  <2> QED BY <2>1, <2>2, <2>3, <2>4, <2>5, Zenon
<1>2. \A s \in RxSlots : umem'[RxFrame(s)] = umem[RxFrame(s)]
  <2>1. CASE umem' = umem
    BY <2>1, Zenon
  <2>2. CASE KernelWrite /\ umem' # umem
    <3>h. PICK h : h = fillCons % FillSize
      BY Zenon
    <3>1. fillProd # fillCons /\ umem' = [umem EXCEPT ![fill[h]] = arrived + 1]
      BY <2>2, <3>h, Zenon DEF KernelWrite
    <3>2. h \in FillSlots
      <4>1. Used(fillProd, fillCons) <= FillSize
        BY <1>0, FillRoom, Zenon
      <4> QED BY <1>0, <3>1, <3>h, <4>1, WindowConsume, Sizes, Zenon DEF RingTypes, FillSlots
    <3>3. \A s \in RxSlots : RxFrame(s) # fill[h] /\ RxFrame(s) \in Frames
      <4>1. RxSlots \subseteq 0..RxSize - 1
        BY <1>0, SlotsIn, Zenon
      <4> QED BY <1>0, <3>2, <4>1, Zenon DEF Separate, RingTypes, Framed, RxSlots, RxFrame
    <3> QED BY <1>0, <3>1, <3>3, Zenon DEF RingTypes
  <2>3. KernelWrite \/ umem' = umem
    BY Zenon DEF Call, CheckClosed, PollFails, Copy, Recycle, Publish, RingClose, Load, Goto, ringVars
  <2> QED BY <2>1, <2>2, <2>3, Zenon
<1>3. \A k \in 0..Used(rxProd, rxCons) - 1 : PacketAt(k)' = PacketAt(k)
  BY <1>0, <1>1, <1>2, SameAt, Zenon
<1>4. Used(rxProd, rxCons) \in Nat /\ Used(rxProd', rxCons') = Used(rxProd, rxCons)
  BY <1>0, <1>1, SlotsIn, Zenon
<1>5. Pending' = Pending
  BY <1>1, <1>3, <1>4, QueueSame, Zenon
<1> QED BY <1>1, <1>5, Zenon DEF SourceVars

\* ReadPacket returns the packets that the kernel has accepted intact, in their
\* order and each once, but those that the filter rejects: it implements
\* PacketSource, for rings and frames of any size.
THEOREM XDPImplements == RingSpec => XDPIsSource
<1>1. RingInit => Source!Init
  <2> SUFFICES ASSUME RingInit PROVE Source!Init
    BY Zenon
  <2>1. QueueFacts
    BY PlaceStart, PacketStart, PendingIs, Zenon
  <2>2. Used(rxProd, rxCons) = 0
    <3>1. 0 \in Counters
      BY Sizes DEF Counters
    <3> QED BY <3>1, UsedIs, Zenon DEF RingInit
  <2>3. InHand = 0
    BY Zenon DEF RingInit, InHand
  <2>4. Pending = << >>
    BY <2>1, <2>2, <2>3 DEF QueueFacts
  <2> QED BY <2>4, Zenon DEF Source!Init, RingInit
<1>2. PlaceInv /\ PacketInv /\ QueueFacts /\ QueueFacts' /\ [RingNext]_ringVars => [Source!Next]_SourceVars
  <2> SUFFICES ASSUME PlaceInv, PacketInv, QueueFacts, QueueFacts', [RingNext]_ringVars
               PROVE  [Source!Next]_SourceVars
    BY Zenon
  <2>1. CASE KernelPost
    BY <2>1, PostRefines, Zenon
  <2>2. CASE Load /\ rxCons' # rxCons
    BY <2>2, SkipRefines, Zenon
  <2>3. CASE Advance
    BY <2>3, AdvanceRefines, Zenon
  <2>4. CASE Return
    BY <2>4, ReturnRefines, Zenon
  <2>5. CASE \/ Call \/ CheckClosed \/ PollFails \/ Copy \/ Recycle \/ Publish \/ RingClose \/ KernelWrite
             \/ (Load /\ rxCons' = rxCons) \/ UNCHANGED ringVars
    BY <2>5, StutterRefines, Zenon
  <2> QED BY <2>1, <2>2, <2>3, <2>4, <2>5, Zenon DEF RingNext, ReadPacket
<1>3. [Source!Next]_SourceVars => [Source!Next]_<<Pending, returned>>
  BY Zenon DEF SourceVars
<1> QED BY <1>1, <1>2, <1>3, PlaceStart, PacketStart, PlaceStep, PacketStep, PendingIs, PTL DEF RingSpec,
      XDPIsSource, Source!Spec

----------------------------------------------------------------------------
(* The shared program. *)

\* The callers that are past the compare-and-swap and hold a reference to drop.
Dropping == {c \in Closers : closing[c] # 0}

\* The reference count is the number of sources that are open or being closed;
\* while they are created, the open ones are the first queues.
RefInv ==
  /\ fpc \in {"program", "open", "created", "failed"}
  /\ closing \in [Closers -> Int] /\ refs \in Int /\ IsFiniteSet(opened) /\ IsFiniteSet(Dropping)
  /\ 0 \notin opened
  /\ fpc # "created" => Dropping = {}
  /\ fpc \in {"program", "failed"} => opened = {}
  /\ fpc = "program" => refs = 0 /\ ~attached
  /\ fpc = "open" => attached /\ refs \in Nat /\ opened = 1..refs
  /\ fpc = "created" => /\ refs = Cardinality(opened) + Cardinality(Dropping)
                        /\ opened \subseteq Int
                        /\ refs # 0 => attached
                        /\ refs = 0 => ~attached

LEMMA RefInit == SharedInit => RefInv
<1> SUFFICES ASSUME SharedInit PROVE RefInv
  BY Zenon
<1>1. Dropping = {}
  BY Zenon DEF SharedInit, Dropping
<1>2. IsFiniteSet(opened) /\ IsFiniteSet(Dropping)
  BY <1>1, FS_EmptySet, Zenon DEF SharedInit
<1>3. closing \in [Closers -> Int]
  BY DEF SharedInit
<1>4. fpc = "program" /\ ~attached /\ refs = 0 /\ opened = {}
  BY Zenon DEF SharedInit
<1> QED
  BY <1>1, <1>2, <1>3, <1>4 DEF RefInv

\* CreateSources: the program, then one source after the other, or a failure.
LEMMA RefCreate == RefInv /\ (NewShared \/ ResolveFails \/ OpenQueue \/ OpenQueueFails) => RefInv'
<1> SUFFICES ASSUME RefInv, NewShared \/ ResolveFails \/ OpenQueue \/ OpenQueueFails
             PROVE  RefInv'
  BY Zenon
<1>1. closing' = closing /\ Dropping' = Dropping /\ Dropping = {}
  BY Zenon DEF RefInv, NewShared, ResolveFails, OpenQueue, OpenQueueFails, Dropping
<1>2. CASE NewShared
  <2>1. refs' = 0 /\ opened' = {} /\ opened' = 1..refs'
    BY <1>2 DEF RefInv, NewShared
  <2>2. CASE fpc' = "open" /\ attached' = TRUE
    BY <1>1, <2>1, <2>2 DEF RefInv
  <2>3. CASE fpc' = "failed" /\ attached' = attached
    BY <1>1, <2>1, <2>3 DEF RefInv
  <2> QED
    BY <1>2, <2>2, <2>3, Zenon DEF NewShared
<1>3. CASE ResolveFails
  BY <1>1, <1>3 DEF RefInv, ResolveFails, DecRef
<1>4. CASE OpenQueue
  <2>1. fpc = "open" /\ refs \in Nat /\ opened = 1..refs /\ attached
    BY <1>4, Zenon DEF RefInv, OpenQueue
  <2>2. Cardinality(opened) = refs
    BY <2>1, FS_Interval
  <2>3. NextQueue = refs + 1 /\ opened' = 1..(refs + 1) /\ refs' = refs + 1
    BY <1>4, <2>1, <2>2 DEF OpenQueue, NextQueue
  <2>4. IsFiniteSet(opened') /\ Cardinality(opened') = refs + 1
    BY <2>1, <2>3, FS_Interval
  <2>5. Cardinality(Dropping') = 0
    BY <1>1, FS_EmptySet, Zenon
  <2>6. attached' = attached /\ fpc' \in {"created", "open"}
    BY <1>4, Zenon DEF OpenQueue
  <2> QED
    BY <1>1, <2>1, <2>3, <2>4, <2>5, <2>6 DEF RefInv
<1>5. CASE OpenQueueFails
  <2>1. fpc = "open" /\ refs \in Nat /\ opened = 1..refs /\ fpc' = "failed"
    BY <1>5, Zenon DEF RefInv, OpenQueueFails
  <2>2. Cardinality(opened) = refs
    BY <2>1, FS_Interval
  <2>3. refs' \in Int /\ opened' = {}
    BY <1>5, <2>1, <2>2 DEF OpenQueueFails, DecRef
  <2> QED
    BY <1>1, <2>1, <2>3, FS_EmptySet, Zenon DEF RefInv
<1> QED
  BY <1>2, <1>3, <1>4, <1>5, Zenon

\* Close: the first caller takes the source, and drops its reference later.
LEMMA RefClose == ASSUME NEW c \in Closers, RefInv, CloseOne(c) \/ CloseDrops(c)
                  PROVE  RefInv'
<1>1. fpc = "created" /\ fpc' = "created"
  BY Zenon DEF RefInv, CloseOne, CloseDrops, Dropping
<1>2. CASE CloseOne(c)
  <2>1. PICK q \in opened : closing' = [closing EXCEPT ![c] = q] /\ opened' = opened \ {q}
    BY <1>2, Zenon DEF CloseOne
  <2>2. q \in Int /\ q # 0 /\ c \notin Dropping
    BY <1>1, <1>2, <2>1, Zenon DEF RefInv, CloseOne, Dropping
  <2>3. Dropping' = Dropping \cup {c} /\ closing' \in [Closers -> Int]
    BY <2>1, <2>2, Zenon DEF RefInv, Dropping
  <2>4. IsFiniteSet(opened') /\ Cardinality(opened') = Cardinality(opened) - 1
    BY <2>1, FS_RemoveElement, Zenon DEF RefInv
  <2>5. IsFiniteSet(Dropping') /\ Cardinality(Dropping') = Cardinality(Dropping) + 1
    BY <2>2, <2>3, FS_AddElement, Zenon DEF RefInv
  <2>6. Cardinality(opened) \in Nat /\ Cardinality(Dropping) \in Nat
    BY FS_CardinalityType, Zenon DEF RefInv
  <2>7. refs' = refs /\ attached' = attached
    BY <1>2, Zenon DEF CloseOne
  <2> QED
    BY <1>1, <2>1, <2>3, <2>4, <2>5, <2>6, <2>7 DEF RefInv
<1>3. CASE CloseDrops(c)
  <2>1. c \in Dropping /\ Dropping' = Dropping \ {c} /\ closing' \in [Closers -> Int]
    BY <1>3 DEF RefInv, CloseDrops, Dropping
  <2>2. IsFiniteSet(Dropping') /\ Cardinality(Dropping') = Cardinality(Dropping) - 1
    BY <2>1, FS_RemoveElement, Zenon DEF RefInv
  <2>3. Cardinality(opened) \in Nat /\ Cardinality(Dropping) \in Nat /\ Cardinality(Dropping') \in Nat
    BY <2>2, FS_CardinalityType, Zenon DEF RefInv
  <2>4. attached /\ refs' = refs - 1 /\ opened' = opened
    BY <1>1, <1>3, <2>2, <2>3 DEF RefInv, CloseDrops, DecRef
  <2>5. (refs' # 0 => attached') /\ (refs' = 0 => ~attached')
    BY <1>3, <2>4, Zenon DEF CloseDrops, DecRef
  <2> QED
    BY <1>1, <2>1, <2>2, <2>3, <2>4, <2>5 DEF RefInv
<1> QED
  BY <1>2, <1>3, Zenon

LEMMA RefImplies == RefInv => DetachedByLast
<1> SUFFICES ASSUME RefInv PROVE DetachedByLast
  BY Zenon
<1>1. Cardinality(opened) \in Nat /\ Cardinality(Dropping) \in Nat
  BY FS_CardinalityType, Zenon DEF RefInv
<1>2. opened # {} => attached
  <2> SUFFICES ASSUME opened # {} PROVE attached
    BY Zenon
  <2>1. Cardinality(opened) # 0
    BY FS_EmptySet, Zenon DEF RefInv
  <2> QED
    BY <1>1, <2>1 DEF RefInv
<1>3. ASSUME fpc = "created", opened = {}, \A c \in Closers : closing[c] = 0
      PROVE  ~attached
  <2>1. Dropping = {}
    BY <1>3, Zenon DEF Dropping
  <2>2. Cardinality(opened) = 0 /\ Cardinality(Dropping) = 0
    BY <1>3, <2>1, FS_EmptySet, Zenon
  <2> QED
    BY <1>1, <1>3, <2>2 DEF RefInv
<1> QED
  BY <1>2, <1>3, Zenon DEF DetachedByLast

\* The XDP program stays attached while a source of CreateSources is open, and
\* the last of the concurrent closes detaches it.
THEOREM LastCloseDetaches == SharedSpec => []DetachedByLast
<1>1. RefInv /\ [SharedNext]_sharedVars => RefInv'
  <2> SUFFICES ASSUME RefInv, [SharedNext]_sharedVars PROVE RefInv'
    BY Zenon
  <2>1. CASE NewShared \/ ResolveFails \/ OpenQueue \/ OpenQueueFails
    BY <2>1, RefCreate, Zenon
  <2>2. CASE \E c \in Closers : CloseOne(c) \/ CloseDrops(c)
    BY <2>2, RefClose, Zenon
  <2>3. CASE UNCHANGED sharedVars
    BY <2>3, Zenon DEF sharedVars, RefInv, Dropping
  <2> QED
    BY <2>1, <2>2, <2>3, Zenon DEF SharedNext
<1> QED
  BY <1>1, RefInit, RefImplies, PTL DEF SharedSpec
=============================================================================
