----------------------------- MODULE QueueProofs -----------------------------
(***************************************************************************)
(* Proofs about SPSCQueue, for every capacity, every modulus of its        *)
(* indices that the capacity divides, and any number of values; about      *)
(* MPSCQueue, its count and its refinement of the queue, for every         *)
(* capacity and any number of producers; and about MPSCIntrusiveQueue, who *)
(* holds each entry and its refinement of the queue, for any number of     *)
(* producers and every finite set of entries.                              *)
(***************************************************************************)
EXTENDS Queues, SequenceTheorems, FunctionTheorems, FiniteSetTheorems, TLAPS

-----------------------------------------------------------------------------
(* Arithmetic of the indices *)

\* The quotient and the remainder, and that they are unique.
LEMMA ModIs ==
    ASSUME NEW a \in Int, NEW m \in Int, m > 0
    PROVE  a % m \in 0 .. m - 1 /\ \E q \in Int : a = q * m + (a % m)
<1>1. \E q \in Int : a = q * m + (a % m)
  BY Z3
<1>2. a % m \in 0 .. m - 1
  OBVIOUS
<1> QED
  BY <1>1, <1>2

LEMMA ModUnique ==
    ASSUME NEW q \in Int, NEW m \in Int, m > 0, NEW r \in 0 .. m - 1
    PROVE  (q * m + r) % m = r
<1>1. (r + q * m) % m = r
  OBVIOUS
<1> QED
  BY <1>1

\* Adding to a number adds to its remainder, up to one wrap.
LEMMA ModAdd ==
    ASSUME NEW a \in Int, NEW m \in Int, m > 0, NEW d \in 0 .. m
    PROVE  (a + d) % m = IF (a % m) + d < m THEN (a % m) + d ELSE (a % m) + d - m
<1>1. PICK q \in Int : a = q * m + (a % m)
  BY ModIs
<1>2. PICK r \in 0 .. m - 1 : r = a % m
  BY ModIs
<1>3. PICK p \in Int : p = q * m
  OBVIOUS
<1>4. a = p + r
  BY <1>1, <1>2, <1>3
<1>5. CASE r + d < m
  <2>1. PICK s \in 0 .. m - 1 : s = r + d
    BY <1>5
  <2>2. (q * m + s) % m = s
    BY ModUnique
  <2>3. a + d = q * m + s
    BY <1>3, <1>4, <2>1
  <2> QED BY <1>2, <1>5, <2>1, <2>2, <2>3
<1>6. CASE ~ (r + d < m)
  <2>1. PICK s \in 0 .. m - 1 : s = r + d - m
    BY <1>6
  <2>2. PICK k \in Int : k = q + 1
    OBVIOUS
  <2>3. (k * m + s) % m = s
    BY ModUnique
  <2>4. k * m = q * m + m
    BY <2>2
  <2>5. a + d = k * m + s
    BY <1>3, <1>4, <2>1, <2>4
  <2> QED BY <1>2, <1>6, <2>1, <2>3, <2>5
<1> QED
  BY <1>5, <1>6

Index == 0 .. IndexModulus - 1

\* The distance of two indices, and the next index.
LEMMA IndexMinus ==
    ASSUME NEW a \in Index, NEW b \in Index
    PROVE  Minus(a, b) = IF a >= b THEN a - b ELSE a - b + IndexModulus
<1> USE SPSCAssumption DEF Index
<1>1. CASE a >= b
  <2>1. a - b = 0 * IndexModulus + (a - b) /\ a - b \in 0 .. IndexModulus - 1
    BY <1>1
  <2> QED BY <1>1, <2>1, ModUnique DEF Minus
<1>2. CASE ~ (a >= b)
  <2>1. a - b = (-1) * IndexModulus + (a - b + IndexModulus) /\ a - b + IndexModulus \in 0 .. IndexModulus - 1
    BY <1>2
  <2> QED BY <1>2, <2>1, ModUnique DEF Minus
<1> QED BY <1>1, <1>2

LEMMA IndexPlus ==
    ASSUME NEW a \in Index
    PROVE  Plus(a, 1) = (IF a + 1 < IndexModulus THEN a + 1 ELSE 0) /\ Plus(a, 1) \in Index
<1> USE SPSCAssumption DEF Index
<1>1. a % IndexModulus = a
  OBVIOUS
<1>2. (a + 1) % IndexModulus = IF (a % IndexModulus) + 1 < IndexModulus THEN (a % IndexModulus) + 1
                               ELSE (a % IndexModulus) + 1 - IndexModulus
  BY ModAdd
<1> QED
  BY <1>1, <1>2 DEF Plus

-----------------------------------------------------------------------------
(* The slots of the indices *)

LEMMA SlotType ==
    ASSUME NEW x \in Int
    PROVE  RingSlot(x) \in 0 .. mask
  BY SPSCAssumption, ModIs DEF RingSlot, mask

\* The capacity divides the modulus: an index and its slot wrap together.
LEMMA SlotWraps ==
    ASSUME NEW x \in Int
    PROVE  RingSlot(x + IndexModulus) = RingSlot(x)
<1>1. PICK c \in Int : c = ring_capacity /\ c > 0
  BY SPSCAssumption
<1>2. PICK m \in Int : m = IndexModulus /\ m % c = 0
  BY <1>1, SPSCAssumption
<1>3. PICK k \in Int : m = k * c + (m % c)
  BY <1>1, ModIs
<1>4. PICK q \in Int : x = q * c + (x % c)
  BY <1>1, ModIs
<1>5. PICK r \in 0 .. c - 1 : r = x % c
  BY <1>1, ModIs
<1>6. PICK n \in Int : n = q + k
  OBVIOUS
<1>7. n * c = q * c + k * c
  BY <1>6
<1>a. PICK u \in Int : u = q * c
  BY <1>1
<1>b. PICK v \in Int : v = k * c
  BY <1>1
<1>8. x + m = n * c + r
  <2>1. x = u + r /\ m = v
    BY <1>2, <1>3, <1>4, <1>5, <1>a, <1>b
  <2>2. n * c = u + v
    BY <1>7, <1>a, <1>b
  <2> QED BY <2>1, <2>2
<1>9. (n * c + r) % c = r
  BY <1>1, ModUnique
<1> QED
  BY <1>1, <1>2, <1>5, <1>8, <1>9 DEF RingSlot

\* Neighbouring indices have different slots, and reach all of them.
LEMMA SlotShift ==
    ASSUME NEW x \in Int, NEW i \in 0 .. ring_capacity
    PROVE  RingSlot(x + i) = IF RingSlot(x) + i < ring_capacity THEN RingSlot(x) + i
                             ELSE RingSlot(x) + i - ring_capacity
<1>1. PICK c \in Int : c = ring_capacity /\ c > 0
  BY SPSCAssumption
<1>2. i \in 0 .. c
  BY <1>1
<1>3. (x + i) % c = IF (x % c) + i < c THEN (x % c) + i ELSE (x % c) + i - c
  BY <1>1, <1>2, ModAdd
<1> QED
  BY <1>1, <1>3, Zenon DEF RingSlot

LEMMA SlotInjective ==
    ASSUME NEW x \in Int, NEW i \in 0 .. mask, NEW j \in 0 .. mask,
           RingSlot(x + i) = RingSlot(x + j)
    PROVE  i = j
<1>1. PICK c \in Nat : c = ring_capacity /\ mask = c - 1 /\ c >= 2
  BY SPSCAssumption DEF mask
<1>2. PICK r \in 0 .. c - 1 : r = RingSlot(x)
  BY <1>1, SlotType
<1>3. i \in 0 .. c - 1 /\ j \in 0 .. c - 1
  BY <1>1
<1>4. /\ RingSlot(x + i) = IF RingSlot(x) + i < ring_capacity THEN RingSlot(x) + i
                            ELSE RingSlot(x) + i - ring_capacity
      /\ RingSlot(x + j) = IF RingSlot(x) + j < ring_capacity THEN RingSlot(x) + j
                            ELSE RingSlot(x) + j - ring_capacity
  <2>1. i \in 0 .. ring_capacity /\ j \in 0 .. ring_capacity
    BY <1>1, <1>3
  <2> QED BY ONLY <2>1, x \in Int, SlotShift
<1>5. (IF r + i < c THEN r + i ELSE r + i - c) = (IF r + j < c THEN r + j ELSE r + j - c)
  BY <1>1, <1>2, <1>4
<1> QED
  BY <1>3, <1>5

LEMMA SlotOnto ==
    ASSUME NEW x \in Int, NEW s \in 0 .. mask
    PROVE  \E i \in 0 .. mask : RingSlot(x + i) = s
<1>1. PICK c \in Nat : c = ring_capacity /\ mask = c - 1 /\ c >= 2
  BY SPSCAssumption DEF mask
<1>2. PICK r \in 0 .. c - 1 : r = RingSlot(x)
  BY <1>1, SlotType
<1>a. (IF s >= r THEN s - r ELSE s - r + c) \in 0 .. c - 1
  BY <1>1, <1>2
<1>3. PICK i \in 0 .. c - 1 : i = IF s >= r THEN s - r ELSE s - r + c
  BY <1>a
<1>4. RingSlot(x + i) = IF RingSlot(x) + i < ring_capacity THEN RingSlot(x) + i
                        ELSE RingSlot(x) + i - ring_capacity
  <2>1. i \in 0 .. ring_capacity
    BY <1>1
  <2> QED BY ONLY <2>1, x \in Int, SlotShift
<1>b. (IF r + i < c THEN r + i ELSE r + i - c) = s /\ i \in 0 .. mask
  BY <1>1, <1>3
<1>5. RingSlot(x + i) = s
  BY <1>1, <1>2, <1>4, <1>b
<1> QED
  BY <1>b, <1>5

-----------------------------------------------------------------------------
(* The inductive invariant *)

\* Whether the oldest object is moved out and its slot not yet given back,
\* and whether one is constructed and not yet published.
Out == IF tpc = "release" THEN 1 ELSE 0
Made == IF ppc = "publish" THEN 1 ELSE 0

\* What the slots from index t on hold: o slots that are moved out, the
\* values from f + 1 on up to n slots, and raw memory.
Contents(b, t, o, n, f) ==
    \A i \in 0 .. mask :
        b[RingSlot(t + i)] = IF o <= i /\ i < n THEN f + i + 1 ELSE Raw

RingTypeOK ==
    /\ ring_head \in Index /\ ring_tail \in Index
    /\ tail_cached \in Index /\ head_cached \in Index
    /\ DOMAIN buffer = 0 .. mask
    /\ sent \in 0 .. MaxValues
    /\ taken \in Seq(Nat)

\* A cached index is old by less than the ring: the producer's copy makes
\* the ring look fuller than it is and the consumer's emptier, never the
\* other way round.
CopiesOld ==
    /\ Used + Len(taken) = sent + Out
    /\ Used <= Minus(ring_head, tail_cached)
    /\ Minus(ring_head, tail_cached) <= ring_capacity
    /\ Minus(head_cached, ring_tail) <= Used

\* What a side has found out from its copy and still relies on.
Relied ==
    /\ ppc \in {"reload", "construct", "publish"} => sent < MaxValues
    /\ ppc \in {"construct", "publish"} => Minus(ring_head, tail_cached) < ring_capacity
    /\ tpc \in {"move", "release"} => Minus(head_cached, ring_tail) > 0
    /\ tpc = "gone" => ppc = "gone" /\ Used = 0

RingContents == Contents(buffer, ring_tail, Out, Used + Made, Len(taken) - Out)

RingInv == RingTypeOK /\ CopiesOld /\ Relied /\ RingContents

-----------------------------------------------------------------------------
(* Distances under a step of an index *)

\* The larger index moves away, the smaller one moves closer.
LEMMA HeadAway ==
    ASSUME NEW a \in Index, NEW b \in Index, Minus(a, b) < IndexModulus - 1
    PROVE  Minus(Plus(a, 1), b) = Minus(a, b) + 1
<1>1. Plus(a, 1) = (IF a + 1 < IndexModulus THEN a + 1 ELSE 0) /\ Plus(a, 1) \in Index
  BY IndexPlus
<1>2. PICK c \in Index : c = Plus(a, 1)
  BY <1>1
<1>3. Minus(a, b) = IF a >= b THEN a - b ELSE a - b + IndexModulus
  BY IndexMinus
<1>4. Minus(c, b) = IF c >= b THEN c - b ELSE c - b + IndexModulus
  BY IndexMinus
<1>5. (IF c >= b THEN c - b ELSE c - b + IndexModulus)
         = (IF a >= b THEN a - b ELSE a - b + IndexModulus) + 1
  BY <1>1, <1>2, <1>3, SPSCAssumption DEF Index
<1> QED
  BY <1>2, <1>3, <1>4, <1>5

LEMMA TailCloser ==
    ASSUME NEW a \in Index, NEW b \in Index, Minus(a, b) > 0
    PROVE  Minus(a, Plus(b, 1)) = Minus(a, b) - 1
<1>1. Plus(b, 1) = (IF b + 1 < IndexModulus THEN b + 1 ELSE 0) /\ Plus(b, 1) \in Index
  BY IndexPlus
<1>2. PICK c \in Index : c = Plus(b, 1)
  BY <1>1
<1>3. Minus(a, b) = IF a >= b THEN a - b ELSE a - b + IndexModulus
  BY IndexMinus
<1>4. Minus(a, c) = IF a >= c THEN a - c ELSE a - c + IndexModulus
  BY IndexMinus
<1>5. (IF a >= c THEN a - c ELSE a - c + IndexModulus)
         = (IF a >= b THEN a - b ELSE a - b + IndexModulus) - 1
  BY <1>1, <1>2, <1>3, SPSCAssumption DEF Index
<1> QED
  BY <1>2, <1>3, <1>4, <1>5

LEMMA MinusType ==
    ASSUME NEW a \in Index, NEW b \in Index
    PROVE  Minus(a, b) \in Nat /\ Minus(a, b) < IndexModulus /\ (Minus(a, b) = 0 <=> a = b)
<1>1. Minus(a, b) = IF a >= b THEN a - b ELSE a - b + IndexModulus
  BY IndexMinus
<1> QED
  BY <1>1, SPSCAssumption DEF Index

\* The slot of the index a distance away.
LEMMA SlotOfHead ==
    ASSUME NEW a \in Index, NEW b \in Index
    PROVE  RingSlot(b + Minus(a, b)) = RingSlot(a)
<1>1. Minus(a, b) = IF a >= b THEN a - b ELSE a - b + IndexModulus
  BY IndexMinus
<1>2. a \in Int /\ b \in Int /\ IndexModulus \in Int
  BY SPSCAssumption DEF Index
<1>3. CASE a >= b
  <2>1. b + Minus(a, b) = a
    BY <1>1, <1>2, <1>3
  <2> QED BY <2>1
<1>4. CASE ~ (a >= b)
  <2>1. b + Minus(a, b) = a + IndexModulus
    BY <1>1, <1>2, <1>4
  <2> QED BY <1>2, <2>1, SlotWraps
<1> QED
  BY <1>3, <1>4

LEMMA SlotOfNext ==
    ASSUME NEW a \in Index, NEW i \in Int
    PROVE  RingSlot(Plus(a, 1) + i) = RingSlot(a + (i + 1))
<1>1. Plus(a, 1) = (IF a + 1 < IndexModulus THEN a + 1 ELSE 0)
  BY IndexPlus
<1>2. a \in Int /\ IndexModulus \in Int /\ a <= IndexModulus - 1
  BY SPSCAssumption DEF Index
<1>3. CASE a + 1 < IndexModulus
  <2>1. Plus(a, 1) + i = a + (i + 1)
    BY <1>1, <1>2, <1>3
  <2> QED BY <2>1
<1>4. CASE ~ (a + 1 < IndexModulus)
  <2>1. (Plus(a, 1) + i) + IndexModulus = a + (i + 1) /\ Plus(a, 1) + i \in Int
    BY <1>1, <1>2, <1>4
  <2>2. RingSlot((Plus(a, 1) + i) + IndexModulus) = RingSlot(Plus(a, 1) + i)
    BY <2>1, SlotWraps
  <2> QED BY <2>1, <2>2
<1> QED
  BY <1>3, <1>4

-----------------------------------------------------------------------------
(* What the slots hold, under the steps that change it *)

LEMMA ContentsConstruct ==
    ASSUME NEW b, DOMAIN b = 0 .. mask, NEW t \in Int, NEW o \in Nat, NEW n \in 0 .. mask,
           NEW f \in Int, Contents(b, t, o, n, f), o <= n
    PROVE  Contents([b EXCEPT ![RingSlot(t + n)] = f + n + 1], t, o, n + 1, f)
<1> DEFINE c == [b EXCEPT ![RingSlot(t + n)] = f + n + 1]
<1> SUFFICES ASSUME NEW i \in 0 .. mask
             PROVE  c[RingSlot(t + i)] = IF o <= i /\ i < n + 1 THEN f + i + 1 ELSE Raw
  BY DEF Contents
<1>1. b[RingSlot(t + i)] = IF o <= i /\ i < n THEN f + i + 1 ELSE Raw
  BY DEF Contents
<1>2. i \in Int /\ n \in Int /\ mask \in Int
  BY SPSCAssumption DEF mask
<1>3. RingSlot(t + i) \in DOMAIN b
  <2>1. PICK x \in Int : x = t + i
    BY <1>2
  <2>2. RingSlot(x) \in 0 .. mask
    BY SlotType
  <2> QED BY <2>1, <2>2
<1>4. CASE i = n
  <2>1. c[RingSlot(t + i)] = f + n + 1
    BY <1>3, <1>4
  <2> QED BY <1>2, <1>4, <2>1
<1>5. CASE i # n
  <2>1. RingSlot(t + i) # RingSlot(t + n)
    BY <1>5, SlotInjective
  <2>2. c[RingSlot(t + i)] = b[RingSlot(t + i)]
    BY <1>3, <2>1
  <2>3. (o <= i /\ i < n) <=> (o <= i /\ i < n + 1)
    BY <1>2, <1>5
  <2> QED BY <1>1, <2>2, <2>3
<1> QED
  BY <1>4, <1>5

LEMMA ContentsMove ==
    ASSUME NEW b, DOMAIN b = 0 .. mask, NEW t \in Int, NEW n \in Nat, NEW f \in Int,
           Contents(b, t, 0, n, f)
    PROVE  Contents([b EXCEPT ![RingSlot(t)] = Raw], t, 1, n, f)
<1> DEFINE c == [b EXCEPT ![RingSlot(t)] = Raw]
<1> SUFFICES ASSUME NEW i \in 0 .. mask
             PROVE  c[RingSlot(t + i)] = IF 1 <= i /\ i < n THEN f + i + 1 ELSE Raw
  BY DEF Contents
<1>1. b[RingSlot(t + i)] = IF 0 <= i /\ i < n THEN f + i + 1 ELSE Raw
  BY DEF Contents
<1>2. i \in Int /\ mask \in Int /\ 0 \in 0 .. mask /\ t + 0 = t
  BY SPSCAssumption DEF mask
<1>3. RingSlot(t + i) \in DOMAIN b
  <2>1. PICK x \in Int : x = t + i
    BY <1>2
  <2>2. RingSlot(x) \in 0 .. mask
    BY SlotType
  <2> QED BY <2>1, <2>2
<1>4. CASE i = 0
  <2>1. c[RingSlot(t + i)] = Raw
    BY <1>2, <1>3, <1>4
  <2> QED BY <1>4, <2>1
<1>5. CASE i # 0
  <2>1. RingSlot(t + i) # RingSlot(t + 0)
    BY <1>2, <1>5, SlotInjective
  <2>2. c[RingSlot(t + i)] = b[RingSlot(t + i)]
    BY <1>2, <1>3, <2>1
  <2>3. (0 <= i /\ i < n) <=> (1 <= i /\ i < n)
    BY <1>2, <1>5
  <2> QED BY <1>1, <2>2, <2>3
<1> QED
  BY <1>4, <1>5

LEMMA ContentsRelease ==
    ASSUME NEW b, NEW t \in Index, NEW n \in 1 .. ring_capacity, NEW f \in Int,
           Contents(b, t, 1, n, f)
    PROVE  Contents(b, Plus(t, 1), 0, n - 1, f + 1)
<1> SUFFICES ASSUME NEW i \in 0 .. mask
             PROVE  b[RingSlot(Plus(t, 1) + i)]
                       = IF 0 <= i /\ i < n - 1 THEN (f + 1) + i + 1 ELSE Raw
  BY DEF Contents
<1>1. i \in Int /\ t \in Int /\ n \in Int /\ mask \in Int /\ ring_capacity = mask + 1 /\ mask >= 1
  BY SPSCAssumption DEF mask, Index
<1>2. RingSlot(Plus(t, 1) + i) = RingSlot(t + (i + 1))
  BY <1>1, SlotOfNext
<1>3. CASE i < mask
  <2>1. PICK j \in 0 .. mask : j = i + 1
    BY <1>1, <1>3
  <2>2. b[RingSlot(t + j)] = IF 1 <= j /\ j < n THEN f + j + 1 ELSE Raw
    BY DEF Contents
  <2>3. (1 <= j /\ j < n) <=> (0 <= i /\ i < n - 1)
    BY <1>1, <2>1
  <2>4. f + j + 1 = (f + 1) + i + 1
    BY <1>1, <2>1
  <2> QED BY <1>2, <2>1, <2>2, <2>3, <2>4
<1>4. CASE i = mask
  <2>1. RingSlot(t + (i + 1)) = RingSlot(t)
    <3>1. RingSlot(t) \in 0 .. mask
      BY <1>1, SlotType
    <3>2. ring_capacity \in 0 .. ring_capacity /\ i + 1 = ring_capacity
      BY <1>1, <1>4
    <3>3. RingSlot(t + ring_capacity)
             = IF RingSlot(t) + ring_capacity < ring_capacity THEN RingSlot(t) + ring_capacity
               ELSE RingSlot(t) + ring_capacity - ring_capacity
      BY <1>1, <3>2, SlotShift
    <3>4. RingSlot(t + ring_capacity) = RingSlot(t)
      BY <1>1, <3>1, <3>3
    <3> QED BY <3>2, <3>4
  <2>2. b[RingSlot(t + 0)] = IF 1 <= 0 /\ 0 < n THEN f + 0 + 1 ELSE Raw
    BY <1>1 DEF Contents
  <2>3. t + 0 = t /\ ~ (i < n - 1)
    BY <1>1, <1>4
  <2> QED BY <1>2, <2>1, <2>2, <2>3
<1> QED
  BY <1>1, <1>3, <1>4

-----------------------------------------------------------------------------
(* The invariant is inductive *)

LEMMA RingInvInit == RingInit => RingInv
<1> SUFFICES ASSUME RingInit
             PROVE  RingInv
  OBVIOUS
<1> USE SPSCAssumption
<1>1. ring_head = 0 /\ ring_tail = 0 /\ tail_cached = 0 /\ head_cached = 0 /\ sent = 0 /\ taken = <<>>
  BY DEF RingInit
<1>2. 0 \in Index
  BY DEF Index
<1>3. Minus(0, 0) = 0
  BY <1>2, MinusType
<1>4. RingTypeOK
  BY <1>1, <1>2 DEF RingInit, RingTypeOK
<1>5. Out = 0 /\ Made = 0 /\ Used = 0 /\ Len(taken) = 0
  BY <1>1, <1>3 DEF RingInit, Out, Made, Used
<1>6. CopiesOld
  <2>1. Used + Len(taken) = sent + Out
    BY <1>1, <1>5
  <2>2. Minus(ring_head, tail_cached) = 0 /\ Minus(head_cached, ring_tail) = 0
    BY <1>1, <1>3
  <2>3. 0 <= ring_capacity
    OBVIOUS
  <2> QED BY <1>5, <2>1, <2>2, <2>3 DEF CopiesOld
<1>7. Relied
  BY DEF RingInit, Relied
<1>8. RingContents
  <2> SUFFICES ASSUME NEW i \in 0 .. mask
               PROVE  buffer[RingSlot(0 + i)]
                         = IF 0 <= i /\ i < 0 THEN 0 + i + 1 ELSE Raw
    BY <1>1, <1>5 DEF RingContents, Contents
  <2>1. PICK x \in Int : x = 0 + i
    BY DEF mask
  <2>2. RingSlot(x) \in 0 .. mask
    BY SlotType
  <2>3. buffer[RingSlot(x)] = Raw
    BY <2>2 DEF RingInit
  <2> QED BY <2>1, <2>3 DEF mask
<1> QED
  BY <1>4, <1>6, <1>7, <1>8 DEF RingInv

\* The numbers of the invariant, for the steps below.
Numbers ==
    /\ Used \in Nat /\ Used <= ring_capacity
    /\ Minus(ring_head, tail_cached) \in Nat
    /\ Minus(head_cached, ring_tail) \in Nat
    /\ Out \in Nat /\ Made \in Nat /\ Out <= 1 /\ Made <= 1
    /\ Len(taken) \in Nat /\ sent \in Nat /\ MaxValues \in Nat
    /\ ring_capacity \in Nat /\ ring_capacity >= 2 /\ mask = ring_capacity - 1
    /\ IndexModulus \in Nat /\ ring_capacity < IndexModulus
    /\ ring_head \in Int /\ ring_tail \in Int

LEMMA RingNumbers == RingInv => Numbers
<1> SUFFICES ASSUME RingInv
             PROVE  Numbers
  OBVIOUS
<1> USE SPSCAssumption DEF RingInv, RingTypeOK
<1>1. Used \in Nat /\ Minus(ring_head, tail_cached) \in Nat /\ Minus(head_cached, ring_tail) \in Nat
  BY MinusType DEF Used
<1>2. Used <= ring_capacity
  BY <1>1 DEF CopiesOld
<1>3. Len(taken) \in Nat
  BY LenProperties
<1> QED
  BY <1>1, <1>2, <1>3 DEF Out, Made, mask, Index, Numbers

\* A step that leaves the slots and the indices they are counted from alone.
LEMMA ContentsKept ==
    ASSUME RingInv, UNCHANGED <<ring_head, ring_tail, buffer, taken>>, Out' = Out, Made' = Made
    PROVE  RingContents'
<1>1. Used' = Used
  BY DEF Used
<1> QED
  BY <1>1 DEF RingInv, RingContents

LEMMA RingInvProduce ==
    ASSUME RingInv, Produce
    PROVE  RingInv'
<1>0. Numbers
  BY RingNumbers
<1> USE <1>0 DEF RingInv, Numbers
<1>1. CASE TryPush
  <2> USE <1>1 DEF TryPush
  <2>1. Used' = Used /\ Out' = Out /\ Made' = Made
    BY DEF Used, Out, Made
  <2>2. RingTypeOK'
    BY DEF RingTypeOK
  <2>3. CopiesOld'
    BY <2>1 DEF CopiesOld, Minus
  <2>4. Minus(ring_head, tail_cached)' = Minus(ring_head, tail_cached)
    BY DEF Minus
  <2>5. ppc' = "construct" => Minus(ring_head, tail_cached) < ring_capacity
    BY DEF Full
  <2>6. ppc' \in {"reload", "construct"} /\ ppc # "gone"
    OBVIOUS
  <2>7. Relied'
    BY <2>1, <2>4, <2>5, <2>6 DEF Relied, Minus
  <2> QED BY <2>1, <2>2, <2>3, <2>7, ContentsKept
<1>2. CASE ReloadTail
  <2> USE <1>2 DEF ReloadTail
  <2>1. Used' = Used /\ Out' = Out /\ Made' = Made
    BY DEF Used, Out, Made
  <2>2. RingTypeOK'
    BY DEF RingTypeOK
  <2>3. Minus(ring_head, tail_cached)' = Used
    BY DEF Minus, Used
  <2>4. Minus(head_cached, ring_tail)' = Minus(head_cached, ring_tail)
    BY DEF Minus
  <2>5. CopiesOld'
    BY <2>1, <2>3, <2>4 DEF CopiesOld
  <2>6. ppc' = "construct" => Used < ring_capacity
    BY DEF Full, Used
  <2>7. ppc' \in {"idle", "construct"} /\ sent < MaxValues /\ tpc # "gone"
    BY DEF Relied
  <2>8. Relied'
    BY <2>1, <2>3, <2>4, <2>6, <2>7 DEF Relied
  <2> QED BY <2>1, <2>2, <2>5, <2>8, ContentsKept
<1>3. CASE Construct
  <2> USE <1>3 DEF Construct
  <2>1. Used' = Used /\ Out' = Out /\ Made = 0 /\ Made' = 1
    BY DEF Used, Out, Made
  <2>2. RingTypeOK'
    BY DEF RingTypeOK
  <2>3. CopiesOld'
    BY <2>1 DEF CopiesOld, Minus
  <2>4. Minus(ring_head, tail_cached) < ring_capacity /\ Used < ring_capacity /\ Out <= Used
    <3>1. Minus(ring_head, tail_cached) < ring_capacity
      BY DEF Relied
    <3>2. Out <= Used
      BY DEF Out, Relied, CopiesOld
    <3> QED BY <3>1, <3>2 DEF CopiesOld
  <2>5. Relied'
    BY <2>1, <2>4 DEF Relied, Minus
  <2>6. RingContents'
    <3>1. PICK n \in 0 .. mask : n = Used
      BY <2>4
    <3>2. PICK f \in Int : f = Len(taken) - Out
      OBVIOUS
    <3>3. PICK o \in Nat : o = Out
      OBVIOUS
    <3>4. PICK t \in Int : t = ring_tail
      OBVIOUS
    <3>5. Contents(buffer, t, o, n, f)
      BY <2>1, <3>1, <3>2, <3>3, <3>4 DEF RingContents
    <3>6. Contents([buffer EXCEPT ![RingSlot(t + n)] = f + n + 1], t, o, n + 1, f)
      BY <2>4, <3>1, <3>3, <3>5, ContentsConstruct DEF RingTypeOK
    <3>7. RingSlot(t + n) = RingSlot(ring_head)
      <4>1. RingSlot(ring_tail + Minus(ring_head, ring_tail)) = RingSlot(ring_head)
        BY SlotOfHead DEF RingTypeOK
      <4> QED BY <3>1, <3>4, <4>1 DEF Used
    <3>8. f + n + 1 = sent + 1
      <4>1. Used + Len(taken) = sent + Out
        BY DEF CopiesOld
      <4>2. PICK l \in Nat : l = Len(taken)
        OBVIOUS
      <4> QED BY <3>1, <3>2, <3>3, <4>1, <4>2
    <3>9. buffer' = [buffer EXCEPT ![RingSlot(t + n)] = f + n + 1]
      BY <3>7, <3>8
    <3> QED BY <2>1, <3>1, <3>2, <3>3, <3>4, <3>6, <3>9 DEF RingContents
  <2> QED BY <2>2, <2>3, <2>5, <2>6
<1>4. CASE PublishHead
  <2> USE <1>4 DEF PublishHead
  <2>1. /\ Minus(ring_head, tail_cached) < ring_capacity
        /\ Used < ring_capacity
        /\ sent < MaxValues
    BY DEF Relied, CopiesOld
  <2>2. /\ Minus(ring_head', tail_cached) = Minus(ring_head, tail_cached) + 1
        /\ Minus(ring_head', ring_tail) = Minus(ring_head, ring_tail) + 1
        /\ ring_head' \in Index
    BY <2>1, HeadAway, IndexPlus DEF RingTypeOK, Used
  <2>3. Used' = Used + 1 /\ Out' = Out /\ Made = 1 /\ Made' = 0
    BY <2>2 DEF Used, Out, Made
  <2>4. RingTypeOK'
    BY <2>1, <2>2 DEF RingTypeOK
  <2>5. /\ Minus(ring_head, tail_cached)' = Minus(ring_head, tail_cached) + 1
        /\ Minus(head_cached, ring_tail)' = Minus(head_cached, ring_tail)
    BY <2>2 DEF Minus
  <2>6. CopiesOld'
    <3>1. Used + Len(taken) = sent + Out
      BY DEF CopiesOld
    <3>2. Used' + Len(taken') = sent' + Out'
      BY <2>3, <3>1
    <3> QED BY <2>1, <2>3, <2>5, <3>2 DEF CopiesOld
  <2>7. Relied'
    BY <2>5 DEF Relied
  <2>8. Used' + Made' = Used + Made
    BY <2>3
  <2>9. RingContents'
    <3>1. UNCHANGED <<buffer, ring_tail, taken>> /\ Out' = Out
      BY <2>3
    <3> QED BY ONLY <2>8, <3>1, RingInv DEF RingInv, RingContents
  <2> QED BY <2>4, <2>6, <2>7, <2>9
<1> QED
  BY <1>1, <1>2, <1>3, <1>4 DEF Produce

LEMMA RingInvConsume ==
    ASSUME RingInv, Consume
    PROVE  RingInv'
<1>0. Numbers
  BY RingNumbers
<1> USE <1>0 DEF RingInv, Numbers
<1>1. CASE TryPop
  <2> USE <1>1 DEF TryPop
  <2>1. Used' = Used /\ Out' = Out /\ Made' = Made
    BY DEF Used, Out, Made
  <2>2. RingTypeOK'
    BY DEF RingTypeOK
  <2>3. CopiesOld'
    BY <2>1 DEF CopiesOld, Minus
  <2>4. Minus(head_cached, ring_tail)' = Minus(head_cached, ring_tail)
    BY DEF Minus
  <2>5. tpc' = "move" => Minus(head_cached, ring_tail) > 0
    <3>1. Minus(head_cached, ring_tail) = 0 <=> head_cached = ring_tail
      BY MinusType DEF RingTypeOK
    <3> QED BY <3>1
  <2>6. tpc' \in {"reload", "move"}
    OBVIOUS
  <2>7. Relied'
    BY <2>1, <2>4, <2>5, <2>6 DEF Relied, Minus
  <2> QED BY <2>1, <2>2, <2>3, <2>7, ContentsKept
<1>2. CASE ReloadHead
  <2> USE <1>2 DEF ReloadHead
  <2>1. Used' = Used /\ Out' = Out /\ Made' = Made
    BY DEF Used, Out, Made
  <2>2. RingTypeOK'
    BY DEF RingTypeOK
  <2>3. Minus(head_cached, ring_tail)' = Used
    BY DEF Minus, Used
  <2>4. Minus(ring_head, tail_cached)' = Minus(ring_head, tail_cached)
    BY DEF Minus
  <2>5. CopiesOld'
    BY <2>1, <2>3, <2>4 DEF CopiesOld
  <2>6. Used = 0 <=> ring_head = ring_tail
    BY MinusType DEF RingTypeOK, Used
  <2>7. /\ tpc' = "move" => Used > 0
        /\ tpc' = "gone" => ppc = "gone" /\ Used = 0
        /\ tpc' # "release"
    BY <2>6
  <2>8. Relied'
    BY <2>1, <2>3, <2>4, <2>7 DEF Relied
  <2> QED BY <2>1, <2>2, <2>5, <2>8, ContentsKept
<1>3. CASE MoveOut
  <2> USE <1>3 DEF MoveOut
  <2>1. Used' = Used /\ Made' = Made /\ Out = 0 /\ Out' = 1
    BY DEF Used, Out, Made
  <2>2. Minus(head_cached, ring_tail) > 0 /\ Used > 0
    BY DEF Relied, CopiesOld
  <2>3. PICK t \in Int : t = ring_tail
    OBVIOUS
  <2>4. PICK n \in Nat : n = Used + Made
    OBVIOUS
  <2>5. PICK f \in Nat : f = Len(taken) /\ f = Len(taken) - Out
    BY <2>1
  <2>6. Contents(buffer, t, 0, n, f)
    BY <2>1, <2>3, <2>4, <2>5 DEF RingContents
  <2>7. buffer[RingSlot(ring_tail)] = f + 1
    <3>1. 0 \in 0 .. mask /\ 0 < n /\ t + 0 = t /\ f + 0 + 1 = f + 1
      BY <2>2, <2>4
    <3>2. buffer[RingSlot(t + 0)] = IF 0 <= 0 /\ 0 < n THEN f + 0 + 1 ELSE Raw
      BY <2>6, <3>1 DEF Contents
    <3> QED BY <2>3, <3>1, <3>2
  <2>8. taken' \in Seq(Nat) /\ Len(taken') = f + 1
    <3>1. taken \in Seq(Nat)
      BY DEF RingTypeOK
    <3>2. taken' = Append(taken, f + 1) /\ f + 1 \in Nat
      BY <2>7
    <3>3. f \in Nat /\ Len(taken) = f
      BY <2>5
    <3> QED BY ONLY <3>1, <3>2, <3>3, AppendProperties
  <2>9. RingTypeOK'
    BY <2>8 DEF RingTypeOK
  <2>a. CopiesOld'
    <3>1. Used + Len(taken) = sent + Out
      BY DEF CopiesOld
    <3>a. sent' = sent /\ f \in Nat /\ sent \in Nat /\ Used \in Nat
      OBVIOUS
    <3>2. Used' + Len(taken') = sent' + Out'
      BY ONLY <2>1, <2>5, <2>8, <3>1, <3>a
    <3>3. /\ Minus(ring_head, tail_cached)' = Minus(ring_head, tail_cached)
          /\ Minus(head_cached, ring_tail)' = Minus(head_cached, ring_tail)
      BY DEF Minus
    <3> QED BY <2>1, <3>2, <3>3 DEF CopiesOld
  <2>b. Relied'
    BY <2>1, <2>2 DEF Relied, Minus
  <2>c. RingContents'
    <3>1. Contents([buffer EXCEPT ![RingSlot(t)] = Raw], t, 1, n, f)
      <4>1. DOMAIN buffer = 0 .. mask /\ t \in Int /\ n \in Nat /\ f \in Int
        BY DEF RingTypeOK
      <4> QED BY ONLY <2>6, <4>1, ContentsMove
    <3>2. Len(taken') - Out' = f /\ Used' + Made' = n
      BY <2>1, <2>4, <2>8
    <3> QED BY <2>1, <2>3, <3>1, <3>2 DEF RingContents
  <2> QED BY <2>9, <2>a, <2>b, <2>c
<1>4. CASE ReleaseTail
  <2> USE <1>4 DEF ReleaseTail
  <2>1. Minus(head_cached, ring_tail) > 0 /\ Used > 0 /\ Out = 1 /\ Out' = 0 /\ Made' = Made
    BY DEF Relied, CopiesOld, Out, Made
  <2>2. /\ Minus(head_cached, ring_tail') = Minus(head_cached, ring_tail) - 1
        /\ Minus(ring_head, ring_tail') = Minus(ring_head, ring_tail) - 1
        /\ ring_tail' \in Index
    BY <2>1, TailCloser, IndexPlus DEF RingTypeOK, Used
  <2>3. Used' = Used - 1
    BY <2>2 DEF Used
  <2>4. RingTypeOK'
    BY <2>2 DEF RingTypeOK
  <2>5. /\ Minus(ring_head, tail_cached)' = Minus(ring_head, tail_cached)
        /\ Minus(head_cached, ring_tail)' = Minus(head_cached, ring_tail) - 1
    BY <2>2 DEF Minus
  <2>6. CopiesOld'
    <3>1. Used + Len(taken) = sent + Out
      BY DEF CopiesOld
    <3>2. Used' + Len(taken') = sent' + Out'
      BY <2>1, <2>3, <3>1
    <3> QED BY <2>1, <2>3, <2>5, <3>2 DEF CopiesOld
  <2>7. Relied'
    BY <2>5 DEF Relied
  <2>8. RingContents'
    <3>1. PICK t \in Index : t = ring_tail
      BY DEF RingTypeOK
    <3>2. Used + Made \in 1 .. ring_capacity
      <4>1. CASE ppc = "publish"
        BY <2>1, <4>1 DEF Made, Relied, CopiesOld
      <4>2. CASE ppc # "publish"
        BY <2>1, <4>2 DEF Made
      <4> QED BY <4>1, <4>2
    <3>3. PICK n \in 1 .. ring_capacity : n = Used + Made
      BY <3>2
    <3>4. PICK f \in Int : f = Len(taken) - Out
      OBVIOUS
    <3>5. Contents(buffer, t, 1, n, f)
      BY <2>1, <3>1, <3>3, <3>4 DEF RingContents
    <3>6. Contents(buffer, Plus(t, 1), 0, n - 1, f + 1)
      BY <3>5, ContentsRelease
    <3>7. n - 1 = Used' + Made' /\ f + 1 = Len(taken') - Out' /\ Plus(t, 1) = ring_tail'
      BY <2>1, <2>3, <3>1, <3>3, <3>4
    <3> QED BY <2>1, <3>6, <3>7 DEF RingContents
  <2> QED BY <2>4, <2>6, <2>7, <2>8
<1> QED
  BY <1>1, <1>2, <1>3, <1>4 DEF Consume

LEMMA RingInvStep == RingInv /\ [RingNext]_ringVars => RingInv'
<1> SUFFICES ASSUME RingInv, [RingNext]_ringVars
             PROVE  RingInv'
  OBVIOUS
<1>1. CASE Produce
  BY <1>1, RingInvProduce
<1>2. CASE Consume
  BY <1>2, RingInvConsume
<1>3. CASE Destroy
  <2> USE <1>3 DEF Destroy, RingInv
  <2>1. Used' = Used /\ Out' = Out /\ Made' = Made
    BY DEF Used, Out, Made
  <2>2. RingTypeOK'
    BY DEF RingTypeOK
  <2>3. CopiesOld'
    BY <2>1 DEF CopiesOld, Minus
  <2>4. Relied'
    BY <2>1 DEF Relied, Minus
  <2> QED BY <2>1, <2>2, <2>3, <2>4, ContentsKept
<1>4. CASE UNCHANGED ringVars
  <2> USE <1>4 DEF ringVars, RingInv
  <2>1. Used' = Used /\ Out' = Out /\ Made' = Made
    BY DEF Used, Out, Made
  <2>2. RingTypeOK'
    BY DEF RingTypeOK
  <2>3. CopiesOld'
    BY <2>1 DEF CopiesOld, Minus
  <2>4. Relied'
    BY <2>1 DEF Relied, Minus
  <2> QED BY <2>1, <2>2, <2>3, <2>4, ContentsKept
<1> QED
  BY <1>1, <1>2, <1>3, <1>4 DEF RingNext, RingOver

-----------------------------------------------------------------------------
(* The ring as a part of Queues *)

\* Every behaviour of the queues is one of the ring, for its variables.
LEMMA RingPart == QueuesSpec => RingInit /\ [][RingNext]_ringVars
<1>1. QueuesInit => RingInit
  BY DEF QueuesInit
<1>2. [QueuesNext]_queueVars => [RingNext]_ringVars
  <2> SUFFICES ASSUME [QueuesNext]_queueVars
               PROVE  [RingNext]_ringVars
    OBVIOUS
  <2>1. CASE UNCHANGED queueVars
    BY <2>1 DEF queueVars
  <2>2. CASE kind = "ring" /\ QueuesNext
    BY <2>2, Zenon DEF QueuesNext, RingStep, ListStep, SlotStep, RingNext, Produce, Consume
  <2>3. CASE kind # "ring" /\ QueuesNext
    BY <2>3, Zenon DEF QueuesNext, RingStep, ListStep, SlotStep
  <2> QED BY <2>1, <2>2, <2>3
<1> QED
  BY <1>1, <1>2, PTL DEF QueuesSpec

LEMMA RingInvAlways == QueuesSpec => []RingInv
  BY RingPart, RingInvInit, RingInvStep, PTL

\* The slots the invariant speaks of are the window between the indices.
LEMMA RingInvLive == RingInv => LiveSlots
<1> SUFFICES ASSUME RingInv
             PROVE  LiveSlots
  OBVIOUS
<1> DEFINE window == {RingSlot(ring_tail + i) : i \in 0 .. Used - 1}
           added  == IF ppc = "publish" THEN {RingSlot(ring_head)} ELSE {}
           moved  == IF tpc = "release" THEN {RingSlot(ring_tail)} ELSE {}
<1>0. Numbers
  BY RingNumbers
<1>1. Used + Made <= ring_capacity
  <2>1. CASE ppc = "publish"
    BY <1>0, <2>1 DEF Made, Relied, CopiesOld, Numbers, RingInv
  <2>2. CASE ppc # "publish"
    BY <1>0, <2>2 DEF Made, Numbers
  <2> QED BY <2>1, <2>2
<1>2. RingSlot(ring_head) = RingSlot(ring_tail + Used)
  BY SlotOfHead DEF RingInv, RingTypeOK, Used
<1>3. ring_tail + 0 = ring_tail
  BY <1>0 DEF Numbers
<1>4. ASSUME NEW i \in 0 .. mask
      PROVE  /\ buffer[RingSlot(ring_tail + i)] # Raw <=> Out <= i /\ i < Used + Made
             /\ RingSlot(ring_tail + i) \in window <=> i < Used
             /\ RingSlot(ring_tail + i) \in moved <=> Out = 1 /\ i = 0
             /\ RingSlot(ring_tail + i) \in added <=> Made = 1 /\ i = Used
  <2> USE <1>0 DEF Numbers
  <2>0. i \in Nat /\ 0 \in 0 .. mask
    OBVIOUS
  <2>1. buffer[RingSlot(ring_tail + i)] # Raw <=> Out <= i /\ i < Used + Made
    <3>a. Len(taken) - Out \in Int
      OBVIOUS
    <3>1. PICK f \in Int : f = Len(taken) - Out
      BY ONLY <3>a, Zenon
    <3>2. buffer[RingSlot(ring_tail + i)]
             = IF Out <= i /\ i < Used + Made THEN f + i + 1 ELSE Raw
      BY <3>1 DEF RingInv, RingContents, Contents
    <3>3. ASSUME Out <= i PROVE f + i + 1 \in Nat
      <4>1. Len(taken) - Out + i + 1 \in Nat
        BY <2>0, <3>3
      <4> QED BY <3>1, <4>1
    <3> QED BY <3>2, <3>3, SPSCAssumption
  <2>2. RingSlot(ring_tail + i) \in window <=> i < Used
    <3>1. ASSUME i < Used PROVE RingSlot(ring_tail + i) \in window
      BY <2>0, <3>1
    <3>2. ASSUME RingSlot(ring_tail + i) \in window PROVE i < Used
      <4>1. PICK j \in 0 .. Used - 1 : RingSlot(ring_tail + i) = RingSlot(ring_tail + j)
        BY <3>2
      <4>2. j \in 0 .. mask /\ j < Used
        BY <1>1
      <4>3. i = j
        BY <4>1, <4>2, SlotInjective
      <4> QED BY <4>2, <4>3
    <3> QED BY <3>1, <3>2
  <2>3. RingSlot(ring_tail + i) \in moved <=> Out = 1 /\ i = 0
    <3>1. RingSlot(ring_tail + i) = RingSlot(ring_tail + 0) => i = 0
      BY <2>0, SlotInjective
    <3> QED BY <1>3, <3>1 DEF Out
  <2>4. RingSlot(ring_tail + i) \in added <=> Made = 1 /\ i = Used
    <3>1. CASE ppc = "publish"
      <4>1. Used \in 0 .. mask /\ Made = 1
        BY <1>1, <3>1 DEF Made
      <4>2. RingSlot(ring_tail + i) = RingSlot(ring_tail + Used) => i = Used
        BY <4>1, SlotInjective
      <4> QED BY <1>2, <3>1, <4>1, <4>2
    <3>2. CASE ppc # "publish"
      BY <3>2 DEF Made
    <3> QED BY <3>1, <3>2
  <2> QED BY <2>1, <2>2, <2>3, <2>4
<1>5. \A s \in 0 .. mask : \E i \in 0 .. mask : s = RingSlot(ring_tail + i)
  BY <1>0, SlotOnto DEF Numbers
<1>6. window \subseteq 0 .. mask /\ added \subseteq 0 .. mask /\ moved \subseteq 0 .. mask
  <2>1. ASSUME NEW x \in Int PROVE RingSlot(x) \in 0 .. mask
    BY SlotType
  <2>2. ASSUME NEW i \in 0 .. Used - 1 PROVE RingSlot(ring_tail + i) \in 0 .. mask
    <3>1. PICK x \in Int : x = ring_tail + i
      BY <1>0 DEF Numbers
    <3> QED BY <2>1, <3>1
  <2>3. RingSlot(ring_head) \in 0 .. mask /\ RingSlot(ring_tail) \in 0 .. mask
    BY <1>0, <2>1 DEF Numbers
  <2> QED BY <2>2, <2>3
<1>7. \A s \in 0 .. mask : buffer[s] # Raw <=> (s \in window /\ s \notin moved) \/ s \in added
  <2> SUFFICES ASSUME NEW i \in 0 .. mask
               PROVE  LET s == RingSlot(ring_tail + i)
                      IN  buffer[s] # Raw <=> (s \in window /\ s \notin moved) \/ s \in added
    BY <1>5
  <2> HIDE DEF window, added, moved
  <2>1. (Out <= i /\ i < Used + Made)
           <=> (i < Used /\ ~ (Out = 1 /\ i = 0)) \/ (Made = 1 /\ i = Used)
    <3>1. Out = 0 \/ Out = 1
      BY DEF Out
    <3>2. Made = 0 \/ Made = 1
      BY DEF Made
    <3>3. Out <= Used
      BY <1>0 DEF Out, Relied, CopiesOld, Numbers, RingInv
    <3> QED BY <1>0, <3>1, <3>2, <3>3 DEF Numbers
  <2> QED BY <1>4, <2>1
<1>8. {s \in 0 .. mask : buffer[s] # Raw} = (window \ moved) \cup added
  <2> HIDE DEF window, added, moved
  <2> QED BY <1>6, <1>7
<1>9. added \cap window = {}
  <2> SUFFICES ASSUME NEW s \in 0 .. mask, s \in added, s \in window
               PROVE  FALSE
    BY <1>6
  <2>1. PICK i \in 0 .. mask : s = RingSlot(ring_tail + i)
    BY <1>5
  <2> HIDE DEF window, added, moved
  <2>2. i < Used /\ i = Used
    BY <1>4, <2>1
  <2> QED BY <1>0, <2>2 DEF Numbers
<1>a. ppc = "construct" => buffer[RingSlot(ring_head)] = Raw
  <2> SUFFICES ASSUME ppc = "construct"
               PROVE  buffer[RingSlot(ring_head)] = Raw
    OBVIOUS
  <2>1. Used \in 0 .. mask /\ Made = 0
    BY <1>0 DEF Made, Relied, CopiesOld, Numbers, RingInv
  <2>2. ~ (Used < Used + Made)
    BY <2>1, <1>0 DEF Numbers
  <2> QED BY <1>2, <1>4, <2>1, <2>2
<1>b. tpc = "move" => buffer[RingSlot(ring_tail)] # Raw
  <2> SUFFICES ASSUME tpc = "move"
               PROVE  buffer[RingSlot(ring_tail)] # Raw
    OBVIOUS
  <2>1. 0 \in 0 .. mask /\ 0 < Used + Made /\ Out <= 0
    BY <1>0 DEF Out, Relied, CopiesOld, Numbers, RingInv
  <2> QED BY <1>3, <1>4, <2>1
<1>c. tpc = "gone" => \A s \in 0 .. mask : buffer[s] = Raw
  <2> SUFFICES ASSUME tpc = "gone", NEW i \in 0 .. mask
               PROVE  buffer[RingSlot(ring_tail + i)] = Raw
    BY <1>5
  <2>1. Used = 0 /\ Made = 0
    BY DEF Relied, Made, RingInv
  <2>2. ~ (i < Used + Made)
    BY <1>0, <2>1 DEF Numbers
  <2> QED BY <1>4, <2>2
<1> QED
  BY <1>0, <1>8, <1>9, <1>a, <1>b, <1>c DEF LiveSlots, Numbers

\* No cached index, however old, lets try_push() construct an object over a
\* live one, or try_pop() move one out of raw memory, for every capacity and
\* also when the indices wrap.
THEOREM RingSlotsAlwaysLive == QueuesSpec => []LiveSlots
  BY RingInvAlways, RingInvLive, PTL

-----------------------------------------------------------------------------
(* The ring implements the queue *)

\* The numbers after k up to n: what is in the ring when k values have left
\* it and n are published.
Span(k, n) == [i \in 1 .. n - k |-> k + i]

LEMMA SpanType ==
    ASSUME NEW k \in Nat, NEW n \in Nat, k <= n
    PROVE  Span(k, n) \in Seq(Nat) /\ Len(Span(k, n)) = n - k
<1>1. n - k \in Nat /\ \A i \in 1 .. n - k : k + i \in Nat
  OBVIOUS
<1> QED
  BY <1>1 DEF Span

LEMMA SpanGrows ==
    ASSUME NEW k \in Nat, NEW n \in Nat, k <= n
    PROVE  Span(k, n + 1) = Append(Span(k, n), n + 1)
<1>1. PICK m \in Nat : m = n - k
  OBVIOUS
<1>2. Span(k, n) = [i \in 1 .. m |-> k + i] /\ Span(k, n + 1) = [i \in 1 .. m + 1 |-> k + i]
  BY <1>1 DEF Span
<1>3. n + 1 = k + (m + 1)
  BY <1>1
<1> QED
  BY <1>1, <1>2, <1>3

LEMMA SpanShrinks ==
    ASSUME NEW k \in Nat, NEW n \in Nat, k < n
    PROVE  /\ Span(k, n) # <<>>
           /\ Head(Span(k, n)) = k + 1
           /\ Tail(Span(k, n)) = Span(k + 1, n)
<1>1. PICK m \in Nat : m = n - k /\ m >= 1
  OBVIOUS
<1>2. /\ Span(k, n) = [i \in 1 .. m |-> k + i]
      /\ Span(k + 1, n) = [i \in 1 .. m - 1 |-> (k + 1) + i]
  BY <1>1 DEF Span
<1>3. Span(k, n) \in Seq(Nat) /\ Len(Span(k, n)) = m
  BY <1>1, SpanType
<1>4. Span(k, n) # <<>>
  BY <1>1, <1>3
<1>5. Head(Span(k, n)) = k + 1
  BY <1>1, <1>2
<1>6. Tail(Span(k, n)) = [i \in 1 .. m - 1 |-> k + (i + 1)]
  BY <1>1, <1>2, <1>3
<1>7. \A i \in 1 .. m - 1 : k + (i + 1) = (k + 1) + i
  BY <1>1
<1> QED
  BY <1>2, <1>4, <1>5, <1>6, <1>7

LEMMA RingItemsAre ==
    RingInv => /\ RingItems = Span(Len(taken), sent)
               /\ Len(taken) \in Nat /\ sent \in Nat /\ Len(taken) <= sent
<1> SUFFICES ASSUME RingInv
             PROVE  /\ RingItems = Span(Len(taken), sent)
                    /\ Len(taken) \in Nat /\ sent \in Nat /\ Len(taken) <= sent
  OBVIOUS
<1>0. Numbers
  BY RingNumbers
<1>1. PICK l \in Nat, n \in Nat, u \in Nat, o \in Nat, v \in Nat, t \in Int, f \in Int :
         /\ l = Len(taken) /\ n = sent /\ u = Used /\ o = Out /\ v = Made /\ t = ring_tail
         /\ f = l - o
  BY <1>0 DEF Numbers
<1>2. u + l = n + o
  BY <1>1 DEF RingInv, CopiesOld
<1>3. o <= u /\ u <= ring_capacity /\ mask = ring_capacity - 1 /\ mask \in Nat /\ ring_capacity \in Nat
  BY <1>0, <1>1 DEF Out, Relied, CopiesOld, Numbers, RingInv
<1>4. u - o = n - l /\ l <= n
  BY <1>2, <1>3
<1>5. RingItems = [i \in 1 .. n - l |-> buffer[RingSlot(t + o + i - 1)]]
  BY <1>1, <1>4 DEF RingItems, Out
<1>6. ASSUME NEW i \in 1 .. n - l
      PROVE  buffer[RingSlot(t + o + i - 1)] = l + i
  <2>1. PICK j \in 0 .. mask : j = o + i - 1 /\ o <= j /\ j < u
    BY <1>3, <1>4
  <2>2. t + o + i - 1 = t + j
    BY <2>1
  <2>3. buffer[RingSlot(t + j)] = IF o <= j /\ j < u + v THEN f + j + 1 ELSE Raw
    BY <1>1 DEF RingInv, RingContents, Contents
  <2>4. j < u + v /\ f + j + 1 = l + i
    BY <1>1, <2>1
  <2> QED BY <2>1, <2>2, <2>3, <2>4
<1>7. RingItems = Span(l, n)
  BY <1>5, <1>6 DEF Span
<1> QED
  BY <1>1, <1>4, <1>7

LEMMA RingSteps ==
    RingInv /\ RingInv' /\ [RingNext]_ringVars
       => [RingAbstract!Next]_<<RingItems, {}, taken>>
<1> SUFFICES ASSUME RingInv, RingInv', [RingNext]_ringVars
             PROVE  [RingAbstract!Next]_<<RingItems, {}, taken>>
  OBVIOUS
<1>1. /\ RingItems = Span(Len(taken), sent)
      /\ Len(taken) \in Nat /\ sent \in Nat /\ Len(taken) <= sent
  BY RingItemsAre
<1>2. RingItems' = Span(Len(taken'), sent')
  <2>1. RingInv' => (RingItems = Span(Len(taken), sent))'
    BY RingItemsAre, PTL
  <2> QED BY <2>1
<1>3. CASE UNCHANGED <<taken, sent>>
  <2>1. UNCHANGED <<RingItems, taken>>
    BY <1>1, <1>2, <1>3
  <2> QED BY <2>1
<1>4. CASE PublishHead
  <2>1. taken' = taken /\ sent' = sent + 1 /\ ppc = "publish"
    BY <1>4 DEF PublishHead
  <2>2. RingItems' = Append(RingItems, sent + 1)
    BY <1>1, <1>2, <2>1, SpanGrows
  <2>3. sent + 1 \in 1 .. MaxValues
    BY <1>1, <2>1, SPSCAssumption DEF RingInv, Relied
  <2>4. RingAbstract!Enqueue(sent + 1)
    BY <2>1, <2>2 DEF RingAbstract!Enqueue
  <2> QED BY <2>3, <2>4 DEF RingAbstract!Next
<1>5. CASE MoveOut
  <2>1. sent' = sent /\ tpc = "move" /\ taken' = Append(taken, buffer[RingSlot(ring_tail)])
    BY <1>5 DEF MoveOut
  <2>2. PICK k \in Nat, n \in Nat, t \in Int : k = Len(taken) /\ n = sent /\ t = ring_tail
    BY <1>1, RingNumbers DEF Numbers
  <2>3. k < n /\ 0 < Used + Made /\ Out = 0 /\ 0 \in 0 .. mask
    <3>1. Numbers
      BY RingNumbers
    <3>2. Used > 0 /\ Out = 0
      BY <2>1, <3>1 DEF Numbers, RingInv, Relied, CopiesOld, Out
    <3>3. Used + Len(taken) = sent + Out
      BY DEF RingInv, CopiesOld
    <3> QED BY <2>2, <3>1, <3>2, <3>3 DEF Numbers
  <2>4. buffer[RingSlot(ring_tail)] = k + 1
    <3>1. buffer[RingSlot(ring_tail + 0)]
             = IF Out <= 0 /\ 0 < Used + Made THEN Len(taken) - Out + 0 + 1 ELSE Raw
      BY <2>3 DEF RingInv, RingContents, Contents
    <3>2. Out <= 0 /\ Len(taken) - Out + 0 + 1 = k + 1 /\ ring_tail + 0 = ring_tail
      BY <2>2, <2>3
    <3> QED BY <2>3, <3>1, <3>2
  <2>5. taken \in Seq(Nat)
    BY DEF RingInv, RingTypeOK
  <2>6. Len(taken') = k + 1
    BY <2>1, <2>2, <2>4, <2>5, AppendProperties
  <2>7. RingItems # <<>> /\ Head(RingItems) = k + 1 /\ Tail(RingItems) = Span(k + 1, n)
    BY <1>1, <2>2, <2>3, SpanShrinks
  <2>8. RingItems' = Tail(RingItems) /\ taken' = Append(taken, Head(RingItems))
    BY <1>2, <2>1, <2>2, <2>4, <2>6, <2>7
  <2> QED BY <2>7, <2>8 DEF RingAbstract!Next, RingAbstract!Dequeue
<1>6. RingNext => PublishHead \/ MoveOut \/ UNCHANGED <<taken, sent>>
  BY Zenon DEF RingNext, Produce, Consume, RingOver, ringVars, TryPush, ReloadTail,
     Construct, TryPop, ReloadHead, ReleaseTail, Destroy
<1>7. UNCHANGED ringVars => UNCHANGED <<taken, sent>>
  BY DEF ringVars
<1> QED
  BY <1>3, <1>4, <1>5, <1>6, <1>7

\* SPSCQueue implements the queue, for every capacity, every modulus of its
\* indices that the capacity divides and any number of values: values leave it
\* in the order in which try_push() published them, none is lost, repeated or
\* overwritten.
THEOREM RingImplements == QueuesSpec => RingImplementsQueue
<1>1. RingInit => RingAbstract!Init
  <2> SUFFICES ASSUME RingInit
               PROVE  RingAbstract!Init
    OBVIOUS
  <2>1. taken = <<>> /\ sent = 0 /\ Len(taken) = 0
    BY DEF RingInit
  <2>2. RingItems = Span(0, 0)
    BY <2>1, RingItemsAre, RingInvInit
  <2>3. Span(0, 0) = <<>>
    BY DEF Span
  <2> QED BY <2>1, <2>2, <2>3 DEF RingAbstract!Init
<1> QED
  BY <1>1, RingPart, RingInvAlways, RingSteps, PTL DEF RingImplementsQueue, RingAbstract!Spec

-----------------------------------------------------------------------------
(* MPSCQueue: the positions and the count *)

\* A producer owns the position it has claimed until it has published or
\* withdrawn it.
Claiming == {"check", "revert", "write", "publish"}

\* Published positions, producers that have not yet counted theirs, and
\* whether the consumer has not yet counted out what it took.
Ready == {i \in tail .. head - 1 : sequence[SlotOf(i)] = i + 1}
Counting == {p \in Producers : pc[p] = "count"}
Popping == IF cpc \in {"release", "count"} THEN 1 ELSE 0

SlotsTypeOK ==
    /\ head \in Nat /\ tail \in Nat /\ tail <= head
    /\ sequence \in [0 .. capacity - 1 -> Nat]
    /\ data \in [0 .. capacity - 1 -> (Producers \X Nat) \cup {NoValue}]
    /\ received \in Seq((Producers \X Nat) \cup {NoValue})
    /\ size_approx \in 0 .. SizeModulus - 1
    /\ DOMAIN pc = Producers
    /\ my_head \in [Producers -> Nat]
    /\ pushes \in [Producers -> Nat]

\* Every push is counted once: the current one is not among the pushed values.
PushesOnce ==
    /\ IsFiniteSet(pushed)
    /\ \A p \in Producers :
          /\ \A n : <<p, n>> \in pushed => n \in Nat /\ n <= pushes[p]
          /\ pc[p] # "idle" => <<p, pushes[p]>> \notin pushed

\* The window of positions is no longer than the ring; while the consumer has
\* a slot in hand it is one shorter.
WindowOK ==
    /\ head <= tail + capacity
    /\ cpc = "release" => head < tail + capacity /\ tail > 0
    /\ cpc = "take" => tail < head /\ sequence[SlotOf(tail)] = tail + 1

\* What the sequence number of a slot says: a position of the window is
\* claimed, withdrawn or published, one after it is free.
SequenceOK ==
    /\ \A i \in tail .. head - 1 : sequence[SlotOf(i)] \in {i, i + 1}
    /\ \A i \in head .. tail + capacity - 1 :
          sequence[SlotOf(i)] = IF cpc = "release" /\ i = tail + capacity - 1 THEN tail ELSE i

\* A claimed position has one owner; and a producer about to claim head_ has
\* seen a free slot, which is still free unless head_ has moved.
ClaimsOK ==
    /\ \A p \in Producers : pc[p] \in Claiming =>
          /\ tail <= my_head[p] /\ my_head[p] < head
          /\ sequence[SlotOf(my_head[p])] = my_head[p]
    /\ \A p, q \in Producers :
          pc[p] \in Claiming /\ pc[q] \in Claiming /\ my_head[p] = my_head[q] => p = q
    /\ \A p \in Producers : pc[p] \in {"load_seq", "claim"} => my_head[p] <= head
    /\ \A p \in Producers : pc[p] = "claim" /\ my_head[p] = head =>
          /\ head < tail + capacity
          /\ cpc = "release" => head < tail + capacity - 1

CountOK ==
    /\ Cardinality(pushed) + Cardinality(Counting) = Len(received) + Cardinality(Ready)
    /\ size_approx = (Cardinality(pushed) + Popping - Len(received)) % SizeModulus

SlotsInv ==
    SlotsTypeOK /\ PushesOnce /\ WindowOK /\ SequenceOK /\ ClaimsOK /\ CountOK

-----------------------------------------------------------------------------
(* Slots of the positions, and sets of positions *)

LEMMA CapacityType ==
    /\ capacity \in Nat /\ capacity >= 2
    /\ SizeModulus \in Nat /\ SizeModulus > capacity
<1>1. Cardinality(Producers) \in Nat
  BY PushAssumption, FS_CardinalityType
<1> QED
  BY <1>1, MPSCAssumption

LEMMA PositionSlot ==
    ASSUME NEW i \in Nat
    PROVE  SlotOf(i) \in 0 .. capacity - 1 /\ SlotOf(i + capacity) = SlotOf(i)
<1>1. PICK c \in Int : c = capacity /\ c >= 2
  BY CapacityType
<1>2. i % c \in 0 .. c - 1
  BY <1>1, ModIs
<1>3. (i + c) % c = IF (i % c) + c < c THEN (i % c) + c ELSE (i % c) + c - c
  BY <1>1, ModAdd
<1>4. (i + c) % c = i % c
  BY <1>1, <1>2, <1>3
<1> QED
  BY <1>1, <1>2, <1>4 DEF SlotOf

\* Two positions closer than the capacity have different slots.
LEMMA PositionsApart ==
    ASSUME NEW i \in Nat, NEW j \in Nat, i < j, j < i + capacity
    PROVE  SlotOf(i) # SlotOf(j)
<1>1. PICK c \in Int : c = capacity /\ c >= 2
  BY CapacityType
<1>2. PICK r \in 0 .. c - 1 : r = i % c
  BY <1>1, ModIs
<1>3. PICK d \in 0 .. c : d = j - i /\ d > 0 /\ d < c
  BY <1>1
<1>4. (i + d) % c = IF (i % c) + d < c THEN (i % c) + d ELSE (i % c) + d - c
  BY <1>1, ModAdd
<1>5. (i + d) % c = IF r + d < c THEN r + d ELSE r + d - c
  BY <1>2, <1>4
<1>6. (i + d) % c # r
  BY <1>1, <1>2, <1>3, <1>5
<1>7. i + d = j
  BY <1>3
<1> QED
  BY <1>1, <1>2, <1>6, <1>7 DEF SlotOf

LEMMA ReadyFinite ==
    ASSUME NEW t \in Nat, NEW h \in Nat, t <= h, NEW R \in SUBSET (t .. h - 1)
    PROVE  IsFiniteSet(R) /\ Cardinality(R) \in Nat /\ Cardinality(R) <= h - t
<1>1. h - 1 \in Int /\ t \in Int
  OBVIOUS
<1>2. IsFiniteSet(t .. h - 1) /\ Cardinality(t .. h - 1) = IF t > h - 1 THEN 0 ELSE (h - 1) - t + 1
  BY <1>1, FS_Interval
<1>3. Cardinality(t .. h - 1) = h - t
  BY <1>2
<1>4. IsFiniteSet(R) /\ Cardinality(R) <= Cardinality(t .. h - 1)
  BY <1>2, FS_Subset
<1> QED
  BY <1>3, <1>4, FS_CardinalityType

\* Counting up or down and taking the remainder, in either order.
LEMMA ModCount ==
    ASSUME NEW a \in Int, NEW m \in Int, m > 1
    PROVE  /\ ((a % m) + 1) % m = (a + 1) % m
           /\ ((a % m) - 1) % m = (a - 1) % m
<1>1. PICK r \in 0 .. m - 1 : r = a % m
  BY ModIs
<1>2. (r + 1) % m = (a + 1) % m
  <2>1. (a + 1) % m = IF r + 1 < m THEN r + 1 ELSE r + 1 - m
    BY <1>1, ModAdd
  <2>2. CASE r + 1 < m
    BY <2>1, <2>2
  <2>3. CASE r + 1 = m
    <3>1. (1 * m + 0) % m = 0
      BY ModUnique
    <3>2. m % m = 0
      BY <3>1
    <3> QED BY <2>1, <2>3, <3>2
  <2> QED BY <2>2, <2>3
<1>3. (r - 1) % m = (a - 1) % m
  <2>1. PICK b \in Int : b = a - 1
    OBVIOUS
  <2>2. PICK u \in 0 .. m - 1 : u = b % m
    BY ModIs
  <2>3. (b + 1) % m = IF u + 1 < m THEN u + 1 ELSE u + 1 - m
    BY <2>2, ModAdd
  <2>4. b + 1 = a
    BY <2>1
  <2>5. r = IF u + 1 < m THEN u + 1 ELSE u + 1 - m
    BY <1>1, <2>3, <2>4
  <2>6. (r - 1) % m = u
    <3>1. CASE u + 1 < m
      BY <2>5, <3>1
    <3>2. CASE u + 1 = m
      <4>1. ((-1) * m + u) % m = u
        BY ModUnique
      <4>2. (-1) * m + u = r - 1
        BY <2>5, <3>2
      <4> QED BY <4>1, <4>2
    <3> QED BY <3>1, <3>2
  <2> QED BY <2>1, <2>2, <2>6
<1> QED
  BY <1>1, <1>2, <1>3

LEMMA SlotsNumbers ==
    ASSUME SlotsInv
    PROVE  /\ IsFiniteSet(Ready) /\ Cardinality(Ready) \in Nat
           /\ Cardinality(Ready) <= capacity
           /\ IsFiniteSet(Counting) /\ Cardinality(Counting) \in Nat
           /\ IsFiniteSet(pushed) /\ Cardinality(pushed) \in Nat
           /\ Len(received) \in Nat
           /\ Popping \in Nat /\ Popping <= 1
<1> USE DEF SlotsInv, SlotsTypeOK
<1>1. IsFiniteSet(Ready) /\ Cardinality(Ready) \in Nat /\ Cardinality(Ready) <= head - tail
  <2>1. Ready \in SUBSET (tail .. head - 1)
    BY DEF Ready
  <2>2. head \in Nat /\ tail \in Nat /\ tail <= head
    OBVIOUS
  <2> QED BY <2>1, <2>2, ReadyFinite
<1>2. Cardinality(Ready) <= capacity
  BY <1>1, CapacityType DEF WindowOK
<1>3. IsFiniteSet(Counting) /\ Cardinality(Counting) \in Nat
  BY PushAssumption, FS_Subset, FS_CardinalityType DEF Counting
<1>4. IsFiniteSet(pushed) /\ Cardinality(pushed) \in Nat
  BY FS_CardinalityType DEF PushesOnce
<1>5. Len(received) \in Nat
  BY LenProperties
<1> QED
  BY <1>1, <1>2, <1>3, <1>4, <1>5 DEF Popping

\* When nobody is inside a call, nothing is counted in advance or late.
LEMMA SlotsInvSettles == SlotsInv => SizeSettles
<1> SUFFICES ASSUME SlotsInv, Idle
             PROVE  size_approx = Cardinality(pushed) - Len(received)
  BY DEF SizeSettles
<1>1. Popping = 0 /\ Counting = {}
  BY DEF Idle, Popping, Counting
<1>2. Cardinality(Counting) = 0
  BY <1>1, FS_EmptySet
<1>3. /\ Cardinality(Ready) \in Nat /\ Cardinality(Ready) <= capacity
      /\ Cardinality(pushed) \in Nat /\ Len(received) \in Nat
  BY SlotsNumbers
<1>4. Cardinality(pushed) - Len(received) = Cardinality(Ready)
  BY <1>2, <1>3 DEF SlotsInv, CountOK
<1>5. PICK n \in Int, m \in Int : n = Cardinality(Ready) /\ m = SizeModulus /\ 0 <= n /\ n < m
  BY <1>3, CapacityType
<1>6. n % m = n
  BY <1>5
<1>7. Cardinality(pushed) + Popping - Len(received) = n
  BY <1>1, <1>3, <1>4, <1>5
<1> QED
  BY <1>4, <1>5, <1>6, <1>7 DEF SlotsInv, CountOK

-----------------------------------------------------------------------------
(* The steps of MPSCQueue *)

\* Init of the positions, the slots and the count.
LEMMA SlotsInvInit == Init => SlotsInv
<1> SUFFICES ASSUME Init
             PROVE  SlotsInv
  OBVIOUS
<1> USE CapacityType DEF Init, PushesInit
<1>1. SlotsTypeOK
  <2>1. sequence \in [0 .. capacity - 1 -> Nat]
    OBVIOUS
  <2>2. data \in [0 .. capacity - 1 -> (Producers \X Nat) \cup {NoValue}]
    OBVIOUS
  <2>3. received \in Seq((Producers \X Nat) \cup {NoValue})
    OBVIOUS
  <2>4. size_approx \in 0 .. SizeModulus - 1
    OBVIOUS
  <2> QED BY <2>1, <2>2, <2>3, <2>4 DEF SlotsTypeOK
<1>2. PushesOnce
  BY FS_EmptySet DEF PushesOnce
<1>3. WindowOK
  BY DEF WindowOK
<1>4. SequenceOK
  <2>1. \A i \in 0 .. capacity - 1 : SlotOf(i) = i
    <3> SUFFICES ASSUME NEW i \in 0 .. capacity - 1
                 PROVE  i % capacity = i
      BY DEF SlotOf
    <3>1. PICK c \in Int : c = capacity /\ c >= 2
      OBVIOUS
    <3>2. i \in 0 .. c - 1
      BY <3>1
    <3>3. i % c = i
      BY ONLY <3>1, <3>2
    <3> QED BY <3>1, <3>3
  <2> QED BY <2>1 DEF SequenceOK
<1>5. ClaimsOK
  BY DEF ClaimsOK, Claiming
<1>6. CountOK
  <2>1. Ready = {} /\ Counting = {} /\ pushed = {} /\ Popping = 0 /\ Len(received) = 0
    BY DEF Ready, Counting, Popping
  <2>2. Cardinality({}) = 0
    BY FS_EmptySet
  <2>3. 0 % SizeModulus = 0
    OBVIOUS
  <2>4. size_approx = 0
    OBVIOUS
  <2> QED BY ONLY <2>1, <2>2, <2>3, <2>4 DEF CountOK
<1> QED
  BY <1>1, <1>2, <1>3, <1>4, <1>5, <1>6 DEF SlotsInv

\* A producer goes on without claiming, publishing or counting anything.
LEMMA ProducerGoesOn ==
    ASSUME SlotsInv, NEW p \in Producers, NEW l, NEW h \in Nat,
           UNCHANGED <<head, tail, sequence, size_approx, pushed, cpc, received>>,
           data' \in [0 .. capacity - 1 -> (Producers \X Nat) \cup {NoValue}],
           pc' = [pc EXCEPT ![p] = l],
           my_head' = [my_head EXCEPT ![p] = h],
           \/ pushes' = pushes /\ pc[p] # "idle"
           \/ pushes' = [pushes EXCEPT ![p] = @ + 1],
           pc[p] # "count", l # "count",
           l \in Claiming => pc[p] \in Claiming /\ h = my_head[p],
           l \in {"load_seq", "claim"} => h <= head,
           l = "claim" /\ h = head =>
              /\ head < tail + capacity
              /\ cpc = "release" => head < tail + capacity - 1
    PROVE  SlotsInv'
<1> USE DEF SlotsInv
<1>0. /\ DOMAIN pc' = Producers /\ pc'[p] = l
      /\ \A q \in Producers : q # p => pc'[q] = pc[q]
  BY DEF SlotsTypeOK
<1>1. /\ my_head' \in [Producers -> Nat] /\ my_head'[p] = h
      /\ \A q \in Producers : q # p => my_head'[q] = my_head[q]
  BY DEF SlotsTypeOK
<1>2. /\ pushes' \in [Producers -> Nat]
      /\ \A q \in Producers : q # p => pushes'[q] = pushes[q]
      /\ \/ pushes'[p] = pushes[p] /\ pc[p] # "idle"
         \/ pushes'[p] = pushes[p] + 1
  BY DEF SlotsTypeOK
<1>3. SlotsTypeOK'
  BY <1>0, <1>1, <1>2 DEF SlotsTypeOK
<1>4. PushesOnce'
  <2>1. \A q \in Producers : pushes[q] \in Nat
    BY DEF SlotsTypeOK
  <2>2. ASSUME NEW q \in Producers
        PROVE  /\ \A n : <<q, n>> \in pushed' => n \in Nat /\ n <= pushes'[q]
               /\ pc'[q] # "idle" => <<q, pushes'[q]>> \notin pushed'
    <3>1. CASE q = p
      <4>1. \A n : <<p, n>> \in pushed => n \in Nat /\ n <= pushes[p]
        BY DEF PushesOnce
      <4>2. \A n : <<p, n>> \in pushed => n \in Nat /\ n <= pushes'[p]
        BY <1>2, <2>1, <4>1
      <4>3. <<p, pushes'[p]>> \notin pushed
        <5>1. CASE pushes'[p] = pushes[p] /\ pc[p] # "idle"
          BY <5>1 DEF PushesOnce
        <5>2. CASE pushes'[p] = pushes[p] + 1
          BY <2>1, <4>1, <5>2
        <5> QED BY <1>2, <5>1, <5>2
      <4> QED BY <3>1, <4>2, <4>3
    <3>2. CASE q # p
      BY <1>0, <1>2, <3>2 DEF PushesOnce
    <3> QED BY <3>1, <3>2
  <2> QED BY <2>2 DEF PushesOnce
<1>5. WindowOK' /\ SequenceOK'
  BY DEF WindowOK, SequenceOK
<1>6. ClaimsOK'
  BY <1>0, <1>1 DEF ClaimsOK, Claiming
<1>7. Ready' = Ready /\ Popping' = Popping
  BY DEF Ready, Popping
<1>8. Counting' = Counting
  BY <1>0 DEF Counting
<1>9. CountOK'
  BY <1>7, <1>8 DEF CountOK
<1> QED
  BY <1>3, <1>4, <1>5, <1>6, <1>9

\* What the paths of a failed try_push() do.
LEMMA FailedPush ==
    ASSUME SlotsInv, NEW p \in Producers, Fail(p) \/ Return(p)
    PROVE  \E l \in {"loop", "idle"} : /\ pc' = [pc EXCEPT ![p] = l]
                                       /\ my_head' = [my_head EXCEPT ![p] = 0]
  BY DEF Fail, Return, Goto

\* A stored value that is already there changes nothing.
LEMMA StoreSame ==
    ASSUME NEW s \in [0 .. capacity - 1 -> Nat], NEW k \in Nat, s[SlotOf(k)] = k
    PROVE  [s EXCEPT ![SlotOf(k)] = k] = s
<1>1. SlotOf(k) \in 0 .. capacity - 1
  BY PositionSlot
<1> QED
  BY <1>1

LEMMA QuietSlots ==
    ASSUME SlotsInv, NEW p \in Producers,
           \/ \E block \in BOOLEAN : Push(p, block)
           \/ PushLoop(p) \/ LoadHead(p) \/ LoadSeq(p) \/ CheckClosed(p)
           \/ Revert(p) \/ WriteData(p)
           \/ Claim(p) /\ head' = head
    PROVE  SlotsInv'
<1> USE DEF Goto
<1>0. /\ my_head[p] \in Nat /\ head \in Nat /\ tail \in Nat /\ pushes[p] \in Nat
      /\ DOMAIN pc = Producers
      /\ sequence \in [0 .. capacity - 1 -> Nat]
      /\ data \in [0 .. capacity - 1 -> (Producers \X Nat) \cup {NoValue}]
      /\ my_head = [my_head EXCEPT ![p] = my_head[p]]
  BY DEF SlotsInv, SlotsTypeOK
<1>1. ASSUME NEW block \in BOOLEAN, Push(p, block)
      PROVE  SlotsInv'
  <2>1. \E l \in {"loop", "load_head"} : pc' = [pc EXCEPT ![p] = l]
    BY <1>1 DEF Push
  <2>2. /\ my_head' = [my_head EXCEPT ![p] = my_head[p]]
        /\ pushes' = [pushes EXCEPT ![p] = @ + 1]
    BY <1>0, <1>1 DEF Push, BeginPush
  <2> QED BY <1>0, <1>1, <2>1, <2>2, ProducerGoesOn DEF Push, Claiming
<1>2. CASE PushLoop(p)
  <2>1. \E l \in {"loop", "load_head", "idle"}, h \in {0, my_head[p]} :
           pc' = [pc EXCEPT ![p] = l] /\ my_head' = [my_head EXCEPT ![p] = h]
    BY <1>0, <1>2 DEF PushLoop, Return
  <2>f. /\ UNCHANGED <<head, tail, sequence, size_approx, pushed, cpc, received, data, pushes>>
        /\ pc[p] \notin {"idle", "count"}
    BY <1>2 DEF PushLoop
  <2>2. PICK l \in {"loop", "load_head", "idle"}, h \in Nat :
           pc' = [pc EXCEPT ![p] = l] /\ my_head' = [my_head EXCEPT ![p] = h]
    BY <1>0, <2>1
  <2>3. l # "count" /\ l \notin Claiming /\ l \notin {"load_seq", "claim"}
    BY DEF Claiming
  <2> QED BY <1>0, <2>f, <2>2, <2>3, ProducerGoesOn
<1>3. CASE LoadHead(p)
  <2>1. pc' = [pc EXCEPT ![p] = "load_seq"] /\ my_head' = [my_head EXCEPT ![p] = head]
    BY <1>3 DEF LoadHead
  <2>f. /\ UNCHANGED <<head, tail, sequence, size_approx, pushed, cpc, received, data, pushes>>
        /\ pc[p] \notin {"idle", "count"}
    BY <1>3 DEF LoadHead
  <2>2. PICK l \in {"load_seq"}, h \in Nat : h = head /\ h <= head
    BY <1>0
  <2>3. pc' = [pc EXCEPT ![p] = l] /\ my_head' = [my_head EXCEPT ![p] = h]
    BY <2>1, <2>2
  <2>4. l # "count" /\ l \notin Claiming /\ l # "claim"
    BY <2>2 DEF Claiming
  <2> QED BY <1>0, <2>f, <2>2, <2>3, <2>4, ProducerGoesOn
<1>4. CASE CheckClosed(p)
  <2>1. \E l \in {"revert", "write"} : pc' = [pc EXCEPT ![p] = l]
    BY <1>4 DEF CheckClosed
  <2>2. my_head' = [my_head EXCEPT ![p] = my_head[p]] /\ pc[p] \in Claiming
    BY <1>0, <1>4 DEF CheckClosed, Claiming
  <2> QED BY <1>0, <1>4, <2>1, <2>2, ProducerGoesOn DEF CheckClosed, Claiming
<1>5. CASE WriteData(p)
  <2>1. pc' = [pc EXCEPT ![p] = "publish"]
    BY <1>5 DEF WriteData
  <2>2. my_head' = [my_head EXCEPT ![p] = my_head[p]] /\ pc[p] \in Claiming
    BY <1>0, <1>5 DEF WriteData, Claiming
  <2>3. data' \in [0 .. capacity - 1 -> (Producers \X Nat) \cup {NoValue}]
    <3>1. SlotOf(my_head[p]) \in 0 .. capacity - 1
      BY <1>0, PositionSlot
    <3>2. Value(p) \in Producers \X Nat
      BY <1>0 DEF Value
    <3> QED BY <1>0, <1>5, <3>1, <3>2 DEF WriteData
  <2> QED BY <1>0, <1>5, <2>1, <2>2, <2>3, ProducerGoesOn DEF WriteData, Claiming
<1>6. CASE Revert(p)
  <2>1. PICK l \in {"loop", "idle"} : /\ pc' = [pc EXCEPT ![p] = l]
                                      /\ my_head' = [my_head EXCEPT ![p] = 0]
    BY <1>6, FailedPush DEF Revert
  <2>2. sequence' = sequence
    <3>1. sequence[SlotOf(my_head[p])] = my_head[p]
      BY <1>6 DEF Revert, SlotsInv, ClaimsOK, Claiming
    <3>2. sequence' = [sequence EXCEPT ![SlotOf(my_head[p])] = my_head[p]]
      BY <1>6 DEF Revert
    <3> QED BY <1>0, <3>1, <3>2, StoreSame
  <2> QED BY <1>0, <1>6, <2>1, <2>2, ProducerGoesOn DEF Revert, Claiming
<1>7. CASE Claim(p) /\ head' = head
  <2>1. /\ pc' = [pc EXCEPT ![p] = "load_seq"]
        /\ my_head' = [my_head EXCEPT ![p] = head]
    BY <1>0, <1>7 DEF Claim
  <2>f. /\ UNCHANGED <<head, tail, sequence, size_approx, pushed, cpc, received, data, pushes>>
        /\ pc[p] \notin {"idle", "count"}
    BY <1>7 DEF Claim
  <2>2. PICK l \in {"load_seq"}, h \in Nat : h = head /\ h <= head
    BY <1>0
  <2>3. pc' = [pc EXCEPT ![p] = l] /\ my_head' = [my_head EXCEPT ![p] = h]
    BY <2>1, <2>2
  <2>4. l # "count" /\ l \notin Claiming /\ l # "claim"
    BY <2>2 DEF Claiming
  <2> QED BY <1>0, <2>f, <2>2, <2>3, <2>4, ProducerGoesOn
<1>8. CASE LoadSeq(p)
  <2>1. CASE Fail(p)
    <3>1. PICK l \in {"loop", "idle"} : /\ pc' = [pc EXCEPT ![p] = l]
                                        /\ my_head' = [my_head EXCEPT ![p] = 0]
      BY <2>1, FailedPush
    <3> QED BY <1>0, <1>8, <3>1, ProducerGoesOn DEF LoadSeq, Claiming
  <2>2. CASE Goto(p, "load_head") /\ UNCHANGED my_head
    <3>1. /\ pc' = [pc EXCEPT ![p] = "load_head"]
          /\ my_head' = [my_head EXCEPT ![p] = my_head[p]]
      BY <1>0, <2>2
    <3> QED BY <1>0, <1>8, <3>1, ProducerGoesOn DEF LoadSeq, Claiming
  <2>3. CASE /\ sequence[SlotOf(my_head[p])] - my_head[p] = 0
             /\ Goto(p, "claim") /\ UNCHANGED my_head
    <3>1. /\ pc' = [pc EXCEPT ![p] = "claim"]
          /\ my_head' = [my_head EXCEPT ![p] = my_head[p]]
      BY <1>0, <2>3
    <3>2. my_head[p] <= head
      BY <1>8 DEF LoadSeq, SlotsInv, ClaimsOK
    <3>3. sequence[SlotOf(my_head[p])] = my_head[p]
      <4>1. sequence[SlotOf(my_head[p])] \in Nat
        BY <1>0, PositionSlot
      <4> QED BY <1>0, <2>3, <4>1
    <3>4. ASSUME my_head[p] = head
          PROVE  head < tail + capacity /\ (cpc = "release" => head < tail + capacity - 1)
      <4>1. head <= tail + capacity /\ tail <= head
        BY DEF SlotsInv, WindowOK, SlotsTypeOK
      <4>2. head # tail + capacity
        <5> SUFFICES ASSUME head = tail + capacity
                     PROVE  FALSE
          OBVIOUS
        <5>1. SlotOf(head) = SlotOf(tail)
          BY <1>0, PositionSlot
        <5>2. sequence[SlotOf(tail)] \in {tail, tail + 1}
          BY <1>0, CapacityType DEF SlotsInv, SequenceOK
        <5> QED BY <1>0, <3>3, <3>4, <5>1, <5>2, CapacityType
      <4>3. ~ (cpc = "release" /\ head = tail + capacity - 1)
        <5> SUFFICES ASSUME cpc = "release", head = tail + capacity - 1
                     PROVE  FALSE
          OBVIOUS
        <5>1. sequence[SlotOf(head)] = tail
          BY <1>0, CapacityType DEF SlotsInv, SequenceOK
        <5> QED BY <1>0, <3>3, <3>4, <5>1, CapacityType
      <4>4. PICK h \in Nat, t \in Nat, c \in Nat : h = head /\ t = tail /\ c = capacity
        BY <1>0, CapacityType
      <4>5. h < t + c
        BY <4>1, <4>2, <4>4
      <4>6. cpc = "release" => h # t + c - 1
        BY <4>3, <4>4
      <4>7. cpc = "release" => h < t + c - 1
        BY <4>5, <4>6
      <4> QED BY <4>4, <4>5, <4>7
    <3> QED BY <1>0, <1>8, <3>1, <3>2, <3>4, ProducerGoesOn DEF LoadSeq, Claiming
  <2> QED BY <1>8, <2>1, <2>2, <2>3 DEF LoadSeq
<1> QED
  BY <1>1, <1>2, <1>3, <1>4, <1>5, <1>6, <1>7, <1>8

\* head_ moves on: the position is free, and its owner is its claimer.
LEMMA ClaimSlots ==
    ASSUME SlotsInv, NEW p \in Producers, Claim(p), head' # head
    PROVE  SlotsInv'
<1> USE DEF SlotsInv
<1>0. /\ head \in Nat /\ tail \in Nat /\ tail <= head /\ my_head \in [Producers -> Nat]
      /\ DOMAIN pc = Producers
  BY DEF SlotsTypeOK
<1>1. /\ head = my_head[p] /\ head' = head + 1 /\ pc[p] = "claim"
      /\ pc' = [pc EXCEPT ![p] = "check"]
      /\ UNCHANGED <<tail, sequence, data, size_approx, my_head, pushes, pushed, cpc, received>>
  BY DEF Claim, Goto
<1>2. head < tail + capacity /\ (cpc = "release" => head < tail + capacity - 1)
  BY <1>1 DEF ClaimsOK
<1>3. sequence[SlotOf(head)] = head
  BY <1>0, <1>2, CapacityType DEF SequenceOK
<1>4. DOMAIN pc' = Producers /\ pc'[p] = "check" /\ \A q \in Producers : q # p => pc'[q] = pc[q]
  BY <1>0, <1>1
<1>5. SlotsTypeOK'
  BY <1>0, <1>1, <1>4 DEF SlotsTypeOK
<1>6. PushesOnce'
  BY <1>1, <1>4 DEF PushesOnce
<1>7. WindowOK'
  BY <1>0, <1>1, <1>2, CapacityType DEF WindowOK
<1>8. SequenceOK'
  <2>1. \A i \in tail .. head : sequence[SlotOf(i)] \in {i, i + 1}
    BY <1>0, <1>3 DEF SequenceOK
  <2>2. head' - 1 = head
    BY <1>0, <1>1
  <2>3. \A i \in head' .. tail + capacity - 1 : i \in head .. tail + capacity - 1
    BY <1>0, <1>1, CapacityType
  <2> QED BY <1>1, <2>1, <2>2, <2>3 DEF SequenceOK
<1>9. ClaimsOK'
  <2>1. \A q \in Producers : pc'[q] \in Claiming =>
          /\ tail <= my_head[q] /\ my_head[q] < head'
          /\ sequence[SlotOf(my_head[q])] = my_head[q]
    BY <1>0, <1>1, <1>3, <1>4 DEF ClaimsOK
  <2>2. \A q, r \in Producers :
          pc'[q] \in Claiming /\ pc'[r] \in Claiming /\ my_head[q] = my_head[r] => q = r
    BY <1>0, <1>1, <1>4 DEF ClaimsOK
  <2>3. \A q \in Producers : pc'[q] \in {"load_seq", "claim"} =>
          my_head[q] <= head' /\ my_head[q] # head'
    BY <1>0, <1>1, <1>4 DEF ClaimsOK
  <2> QED BY <1>1, <2>1, <2>2, <2>3 DEF ClaimsOK
<1>a. Counting' = Counting /\ Popping' = Popping
  BY <1>1, <1>4 DEF Counting, Popping
<1>b. Ready' = Ready
  <2>1. \A i : i \in Ready' <=> i \in Ready
    BY <1>0, <1>1, <1>3 DEF Ready
  <2> QED BY <2>1
<1>c. CountOK'
  BY <1>1, <1>a, <1>b DEF CountOK
<1> QED
  BY <1>5, <1>6, <1>7, <1>8, <1>9, <1>c

\* A store to the slot of one position, as seen from another one.
LEMMA SequenceStore ==
    ASSUME sequence \in [0 .. capacity - 1 -> Nat], NEW k \in Nat, NEW v \in Nat,
           sequence' = [sequence EXCEPT ![SlotOf(k)] = v]
    PROVE  /\ sequence' \in [0 .. capacity - 1 -> Nat]
           /\ sequence'[SlotOf(k)] = v
           /\ \A i \in Nat : i # k /\ i < k + capacity /\ k < i + capacity
                                => sequence'[SlotOf(i)] = sequence[SlotOf(i)]
<1>1. SlotOf(k) \in 0 .. capacity - 1
  BY PositionSlot
<1>2. ASSUME NEW i \in Nat, i # k, i < k + capacity, k < i + capacity
      PROVE  sequence'[SlotOf(i)] = sequence[SlotOf(i)]
  <2>1. SlotOf(i) # SlotOf(k)
    <3>1. CASE i < k
      BY <1>2, <3>1, PositionsApart
    <3>2. CASE k < i
      BY <1>2, <3>2, PositionsApart
    <3> QED BY <1>2, <3>1, <3>2
  <2>2. SlotOf(i) \in 0 .. capacity - 1
    BY PositionSlot
  <2> QED BY <1>1, <2>1, <2>2
<1> QED
  BY <1>1, <1>2

\* A position is published; its producer has yet to count it.
LEMMA PublishSlots ==
    ASSUME SlotsInv, NEW p \in Producers, Publish(p)
    PROVE  SlotsInv'
<1> USE DEF SlotsInv
<1>0. /\ head \in Nat /\ tail \in Nat /\ tail <= head /\ my_head \in [Producers -> Nat]
      /\ DOMAIN pc = Producers /\ sequence \in [0 .. capacity - 1 -> Nat]
      /\ head <= tail + capacity
  BY DEF SlotsTypeOK, WindowOK
<1>1. PICK k \in Nat : k = my_head[p]
  BY <1>0
<1>2. /\ pc[p] = "publish" /\ pc' = [pc EXCEPT ![p] = "count"]
      /\ sequence' = [sequence EXCEPT ![SlotOf(k)] = k + 1]
      /\ UNCHANGED <<head, tail, data, size_approx, my_head, pushes, pushed, cpc, received>>
  BY <1>1 DEF Publish, Goto
<1>3. tail <= k /\ k < head /\ sequence[SlotOf(k)] = k
  BY <1>1, <1>2 DEF ClaimsOK, Claiming
<1>4. /\ sequence' \in [0 .. capacity - 1 -> Nat] /\ sequence'[SlotOf(k)] = k + 1
      /\ \A i \in Nat : i # k /\ i < k + capacity /\ k < i + capacity
                           => sequence'[SlotOf(i)] = sequence[SlotOf(i)]
  <2>1. k + 1 \in Nat
    OBVIOUS
  <2> QED BY <1>0, <1>2, <2>1, SequenceStore
<1>5. \A i \in tail .. tail + capacity - 1 : i # k => sequence'[SlotOf(i)] = sequence[SlotOf(i)]
  <2> SUFFICES ASSUME NEW i \in tail .. tail + capacity - 1, i # k
               PROVE  sequence'[SlotOf(i)] = sequence[SlotOf(i)]
    OBVIOUS
  <2>1. i \in Nat /\ i < k + capacity /\ k < i + capacity
    BY <1>0, <1>3, CapacityType
  <2> QED BY <1>4, <2>1
<1>6. DOMAIN pc' = Producers /\ pc'[p] = "count" /\ \A q \in Producers : q # p => pc'[q] = pc[q]
  BY <1>0, <1>2
<1>7. SlotsTypeOK'
  BY <1>2, <1>4, <1>6 DEF SlotsTypeOK
<1>8. PushesOnce'
  BY <1>2, <1>6 DEF PushesOnce
<1>9. WindowOK'
  <2>1. cpc = "take" => tail < head /\ sequence'[SlotOf(tail)] = tail + 1
    BY <1>0, <1>3, <1>4, <1>5, CapacityType DEF WindowOK
  <2> QED BY <1>2, <2>1 DEF WindowOK
<1>a. SequenceOK'
  <2>1. \A i \in tail .. head - 1 : sequence'[SlotOf(i)] \in {i, i + 1}
    <3> SUFFICES ASSUME NEW i \in tail .. head - 1
                 PROVE  sequence'[SlotOf(i)] \in {i, i + 1}
      OBVIOUS
    <3>1. CASE i = k
      BY <1>4, <3>1
    <3>2. CASE i # k
      <4>1. i \in tail .. tail + capacity - 1
        BY <1>0, CapacityType
      <4>2. sequence[SlotOf(i)] \in {i, i + 1}
        BY DEF SequenceOK
      <4> QED BY <1>5, <3>2, <4>1, <4>2
    <3> QED BY <3>1, <3>2
  <2>2. \A i \in head .. tail + capacity - 1 : sequence'[SlotOf(i)] = sequence[SlotOf(i)]
    BY <1>0, <1>3, <1>5, CapacityType
  <2> QED BY <1>2, <2>1, <2>2 DEF SequenceOK
<1>b. ClaimsOK'
  <2>1. \A q \in Producers : pc'[q] \in Claiming =>
          /\ tail <= my_head[q] /\ my_head[q] < head
          /\ sequence'[SlotOf(my_head[q])] = my_head[q]
    <3> SUFFICES ASSUME NEW q \in Producers, pc'[q] \in Claiming
                 PROVE  /\ tail <= my_head[q] /\ my_head[q] < head
                        /\ sequence'[SlotOf(my_head[q])] = my_head[q]
      OBVIOUS
    <3>1. q # p /\ pc[q] \in Claiming
      BY <1>6 DEF Claiming
    <3>2. my_head[q] # k
      BY <1>1, <1>2, <3>1 DEF ClaimsOK, Claiming
    <3>3. /\ tail <= my_head[q] /\ my_head[q] < head
          /\ sequence[SlotOf(my_head[q])] = my_head[q]
      BY <3>1 DEF ClaimsOK
    <3>4. PICK i \in Nat : i = my_head[q]
      BY <1>0
    <3>5. i \in tail .. tail + capacity - 1 /\ i # k
      BY <1>0, <3>2, <3>3, <3>4, CapacityType
    <3>6. sequence'[SlotOf(i)] = sequence[SlotOf(i)]
      BY <1>5, <3>5
    <3> QED BY <3>3, <3>4, <3>6
  <2>2. \A q \in Producers : pc'[q] \in Claiming \cup {"load_seq", "claim"} => pc'[q] = pc[q]
    BY <1>6 DEF Claiming
  <2> QED BY <1>2, <2>1, <2>2 DEF ClaimsOK
<1>c. Ready' = Ready \cup {k} /\ k \notin Ready
  <2>0. k \in tail .. head - 1 /\ \A i \in tail .. head - 1 : i \in tail .. tail + capacity - 1
    BY <1>0, <1>3, CapacityType
  <2>a. \A i : i \in Ready' <=> i \in tail .. head - 1 /\ sequence'[SlotOf(i)] = i + 1
    BY <1>2 DEF Ready
  <2>b. \A i : i \in Ready <=> i \in tail .. head - 1 /\ sequence[SlotOf(i)] = i + 1
    BY DEF Ready
  <2>1. \A i : i \in Ready' <=> i \in Ready \/ i = k
    BY <1>4, <1>5, <2>0, <2>a, <2>b
  <2> QED BY <1>0, <1>3, <2>1 DEF Ready
<1>d. Counting' = Counting \cup {p} /\ p \notin Counting
  BY <1>2, <1>6 DEF Counting
<1>e. Cardinality(Ready') = Cardinality(Ready) + 1 /\ Cardinality(Counting') = Cardinality(Counting) + 1
  BY <1>c, <1>d, SlotsNumbers, FS_AddElement
<1>f. CountOK'
  <2>1. Popping' = Popping
    BY <1>2 DEF Popping
  <2>2. /\ Cardinality(Ready) \in Nat /\ Cardinality(Counting) \in Nat
        /\ Cardinality(pushed) \in Nat /\ Len(received) \in Nat
    BY SlotsNumbers
  <2>3. Cardinality(pushed) + Cardinality(Counting) = Len(received) + Cardinality(Ready)
    BY DEF CountOK
  <2>4. Cardinality(pushed) + Cardinality(Counting') = Len(received) + Cardinality(Ready')
    BY <1>e, <2>2, <2>3
  <2> QED BY <1>2, <2>1, <2>4 DEF CountOK
<1> QED
  BY <1>7, <1>8, <1>9, <1>a, <1>b, <1>f

\* The producer counts what it has published: its value joins the pushed ones.
LEMMA CountPushSlots ==
    ASSUME SlotsInv, NEW p \in Producers, CountPush(p)
    PROVE  SlotsInv'
<1> USE DEF SlotsInv
<1>0. /\ my_head \in [Producers -> Nat] /\ DOMAIN pc = Producers
      /\ pushes \in [Producers -> Nat]
  BY DEF SlotsTypeOK
<1>1. /\ pc[p] = "count" /\ pc' = [pc EXCEPT ![p] = "idle"]
      /\ my_head' = [my_head EXCEPT ![p] = 0]
      /\ size_approx' = (size_approx + 1) % SizeModulus
      /\ pushed' = pushed \cup {<<p, pushes[p]>>}
      /\ UNCHANGED <<head, tail, sequence, data, pushes, cpc, received>>
  BY DEF CountPush, Return, Goto, Value
<1>2. DOMAIN pc' = Producers /\ pc'[p] = "idle" /\ \A q \in Producers : q # p => pc'[q] = pc[q]
  BY <1>0, <1>1
<1>3. /\ my_head' \in [Producers -> Nat]
      /\ \A q \in Producers : q # p => my_head'[q] = my_head[q]
  BY <1>0, <1>1
<1>4. size_approx' \in 0 .. SizeModulus - 1
  <2>1. PICK m \in Int, a \in Int : m = SizeModulus /\ m > 1 /\ a = size_approx + 1
    BY CapacityType DEF SlotsTypeOK
  <2>2. a % m \in 0 .. m - 1
    BY <2>1, ModIs
  <2> QED BY <1>1, <2>1, <2>2
<1>5. SlotsTypeOK'
  BY <1>1, <1>2, <1>3, <1>4 DEF SlotsTypeOK
<1>6. <<p, pushes[p]>> \notin pushed
  BY <1>1 DEF PushesOnce
<1>7. IsFiniteSet(pushed) /\ IsFiniteSet(pushed') /\ Cardinality(pushed') = Cardinality(pushed) + 1
  <2>1. IsFiniteSet(pushed)
    BY DEF PushesOnce
  <2> QED BY <1>1, <1>6, <2>1, FS_AddElement
<1>8. PushesOnce'
  <2>1. ASSUME NEW q \in Producers
        PROVE  /\ \A n : <<q, n>> \in pushed' => n \in Nat /\ n <= pushes[q]
               /\ pc'[q] # "idle" => <<q, pushes[q]>> \notin pushed'
    <3>1. pushes[q] \in Nat
      BY <1>0
    <3>2. \A n : <<q, n>> \in pushed => n \in Nat /\ n <= pushes[q]
      BY DEF PushesOnce
    <3>3. \A n : <<q, n>> = <<p, pushes[p]>> => q = p /\ n = pushes[p]
      OBVIOUS
    <3>4. \A n : <<q, n>> \in pushed' => n \in Nat /\ n <= pushes[q]
      BY <1>1, <3>1, <3>2, <3>3
    <3>5. pc'[q] # "idle" => q # p /\ pc[q] # "idle"
      BY <1>2
    <3>6. pc'[q] # "idle" => <<q, pushes[q]>> \notin pushed
      BY <3>5 DEF PushesOnce
    <3> QED BY <1>1, <3>3, <3>4, <3>5, <3>6
  <2> QED BY <1>1, <1>7, <2>1 DEF PushesOnce
<1>9. WindowOK' /\ SequenceOK'
  BY <1>1 DEF WindowOK, SequenceOK
<1>a. ClaimsOK'
  BY <1>1, <1>2, <1>3 DEF ClaimsOK, Claiming
<1>b. Ready' = Ready /\ Popping' = Popping
  BY <1>1 DEF Ready, Popping
<1>c. Counting = Counting' \cup {p} /\ p \notin Counting'
  BY <1>1, <1>2 DEF Counting
<1>d. IsFiniteSet(Counting') /\ Cardinality(Counting) = Cardinality(Counting') + 1
  <2>1. IsFiniteSet(Counting)
    BY SlotsNumbers
  <2>2. IsFiniteSet(Counting')
    BY <1>c, <2>1, FS_Subset
  <2> QED BY <1>c, <2>2, FS_AddElement
<1>e. /\ Cardinality(pushed) \in Nat /\ Len(received) \in Nat /\ Popping \in Nat
      /\ Cardinality(Ready) \in Nat /\ Cardinality(Counting') \in Nat
  BY <1>d, SlotsNumbers, FS_CardinalityType
<1>f. Cardinality(pushed') + Cardinality(Counting') = Len(received') + Cardinality(Ready')
  BY <1>1, <1>7, <1>b, <1>d, <1>e DEF CountOK
<1>g. size_approx' = (Cardinality(pushed') + Popping' - Len(received')) % SizeModulus
  <2>1. PICK m \in Int, a \in Int :
           m = SizeModulus /\ m > 1 /\ a = Cardinality(pushed) + Popping - Len(received)
    BY <1>e, CapacityType
  <2>2. size_approx = a % m
    BY <2>1 DEF CountOK
  <2>3. ((a % m) + 1) % m = (a + 1) % m
    BY <2>1, ModCount
  <2>4. Cardinality(pushed') + Popping' - Len(received') = a + 1
    BY <1>1, <1>7, <1>b, <1>e, <2>1
  <2> QED BY <1>1, <2>1, <2>2, <2>3, <2>4
<1> QED
  BY <1>5, <1>8, <1>9, <1>a, <1>f, <1>g DEF CountOK

\* The consumer finds a published position, which lies in the window; or counts
\* out what it took; or the queue is closed.
LEMMA QuietPop ==
    ASSUME SlotsInv, PopLoad \/ PopCount \/ Close
    PROVE  SlotsInv'
<1> USE DEF SlotsInv
<1>1. UNCHANGED <<head, tail, sequence, data, pc, my_head, pushes, pushed, received>>
  BY DEF PopLoad, PopCount, Close, prodVars
<1>2. cpc' # "release" \/ cpc' = cpc
  BY DEF PopLoad, PopCount, Close
<1>3. size_approx' \in 0 .. SizeModulus - 1
  <2>1. CASE size_approx' = size_approx
    BY <2>1 DEF SlotsTypeOK
  <2>2. CASE size_approx' = (size_approx - 1) % SizeModulus
    <3>1. PICK m \in Int, a \in Int : m = SizeModulus /\ m > 1 /\ a = size_approx - 1
      BY CapacityType DEF SlotsTypeOK
    <3>2. a % m \in 0 .. m - 1
      BY <3>1, ModIs
    <3> QED BY <2>2, <3>1, <3>2
  <2> QED BY <2>1, <2>2 DEF PopLoad, PopCount, Close
<1>4. SlotsTypeOK' /\ PushesOnce'
  BY <1>1, <1>3 DEF SlotsTypeOK, PushesOnce
<1>5. PopLoad => tail < head
  <2> SUFFICES ASSUME PopLoad, ~ (tail < head)
               PROVE  FALSE
    OBVIOUS
  <2>1. head \in Nat /\ tail \in Nat /\ tail = head
    BY DEF SlotsTypeOK
  <2>2. sequence[SlotOf(head)] = head
    BY <2>1, CapacityType DEF SequenceOK, PopLoad
  <2> QED BY <2>1, <2>2 DEF PopLoad
<1>6. WindowOK'
  BY <1>1, <1>5 DEF WindowOK, PopLoad, PopCount, Close
<1>7. cpc = "release" <=> cpc' = "release"
  BY DEF PopLoad, PopCount, Close
<1>8. SequenceOK' /\ ClaimsOK'
  BY <1>1, <1>7 DEF SequenceOK, ClaimsOK
<1>9. Ready' = Ready /\ Counting' = Counting
  BY <1>1 DEF Ready, Counting
<1>a. Cardinality(pushed) \in Nat /\ Len(received) \in Nat
  BY SlotsNumbers
<1>b. size_approx' = (Cardinality(pushed') + Popping' - Len(received')) % SizeModulus
  <2>1. CASE PopLoad \/ Close
    <3>1. Popping' = Popping /\ size_approx' = size_approx
      BY <2>1 DEF Popping, PopLoad, Close
    <3> QED BY <1>1, <3>1 DEF CountOK
  <2>2. CASE PopCount
    <3>1. Popping = 1 /\ Popping' = 0 /\ size_approx' = (size_approx - 1) % SizeModulus
      BY <2>2 DEF Popping, PopCount
    <3>2. PICK m \in Int, a \in Int :
             m = SizeModulus /\ m > 1 /\ a = Cardinality(pushed) + 1 - Len(received)
      BY <1>a, CapacityType
    <3>3. size_approx = a % m
      BY <3>1, <3>2 DEF CountOK
    <3>4. ((a % m) - 1) % m = (a - 1) % m
      BY <3>2, ModCount
    <3>5. Cardinality(pushed') + Popping' - Len(received') = a - 1
      BY <1>1, <1>a, <3>1, <3>2
    <3> QED BY <3>1, <3>2, <3>3, <3>4, <3>5
  <2> QED BY <2>1, <2>2
<1>c. CountOK'
  BY <1>1, <1>9, <1>b DEF CountOK
<1> QED
  BY <1>4, <1>6, <1>8, <1>c

\* The consumer takes the oldest position out of the window.
LEMMA TakeSlots ==
    ASSUME SlotsInv, PopTake
    PROVE  SlotsInv'
<1> USE DEF SlotsInv
<1>0. /\ head \in Nat /\ tail \in Nat /\ my_head \in [Producers -> Nat]
      /\ data \in [0 .. capacity - 1 -> (Producers \X Nat) \cup {NoValue}]
      /\ received \in Seq((Producers \X Nat) \cup {NoValue})
      /\ head <= tail + capacity /\ SlotOf(tail) \in 0 .. capacity - 1
  BY PositionSlot DEF SlotsTypeOK, WindowOK
<1>1. /\ cpc = "take" /\ cpc' = "release" /\ tail' = tail + 1
      /\ received' = Append(received, data[SlotOf(tail)])
      /\ data' = [data EXCEPT ![SlotOf(tail)] = NoValue]
      /\ UNCHANGED <<head, sequence, size_approx, pc, my_head, pushes, pushed>>
  BY DEF PopTake, prodVars
<1>2. tail < head /\ sequence[SlotOf(tail)] = tail + 1
  BY <1>1 DEF WindowOK
<1>3. received' \in Seq((Producers \X Nat) \cup {NoValue}) /\ Len(received') = Len(received) + 1
  <2>1. data[SlotOf(tail)] \in (Producers \X Nat) \cup {NoValue}
    BY <1>0
  <2> QED BY <1>0, <1>1, <2>1, AppendProperties
<1>4. SlotsTypeOK'
  <2>1. data' \in [0 .. capacity - 1 -> (Producers \X Nat) \cup {NoValue}]
    BY <1>0, <1>1
  <2> QED BY <1>0, <1>1, <1>2, <1>3, <2>1 DEF SlotsTypeOK
<1>5. PushesOnce'
  BY <1>1 DEF PushesOnce
<1>6. WindowOK'
  BY <1>0, <1>1, CapacityType DEF WindowOK
<1>7. SequenceOK'
  <2>1. ASSUME NEW i \in tail' .. head - 1
        PROVE  sequence[SlotOf(i)] \in {i, i + 1}
    <3>1. i \in tail .. head - 1
      BY <1>0, <1>1
    <3> QED BY <3>1 DEF SequenceOK
  <2>2. ASSUME NEW i \in head .. tail' + capacity - 1
        PROVE  sequence[SlotOf(i)] = IF i = tail' + capacity - 1 THEN tail' ELSE i
    <3>1. CASE i = tail + capacity
      <4>1. SlotOf(i) = SlotOf(tail)
        BY <1>0, <3>1, PositionSlot
      <4>2. i = tail' + capacity - 1
        BY <1>0, <1>1, <3>1, CapacityType
      <4> QED BY <1>1, <1>2, <4>1, <4>2
    <3>2. CASE i # tail + capacity
      <4>1. i \in head .. tail + capacity - 1 /\ i # tail' + capacity - 1
        BY <1>0, <1>1, <3>2, CapacityType
      <4>2. sequence[SlotOf(i)] = i
        BY <1>1, <4>1 DEF SequenceOK
      <4> QED BY <4>1, <4>2
    <3> QED BY <3>1, <3>2
  <2> QED BY <1>1, <2>1, <2>2 DEF SequenceOK
<1>8. ClaimsOK'
  <2>1. ASSUME NEW p \in Producers, pc[p] \in Claiming
        PROVE  /\ tail' <= my_head[p] /\ my_head[p] < head
               /\ sequence[SlotOf(my_head[p])] = my_head[p]
    <3>1. /\ tail <= my_head[p] /\ my_head[p] < head /\ my_head[p] \in Nat
          /\ sequence[SlotOf(my_head[p])] = my_head[p]
      BY <1>0, <2>1 DEF ClaimsOK
    <3>2. my_head[p] # tail
      BY <1>0, <1>2, <3>1
    <3> QED BY <1>0, <1>1, <3>1, <3>2
  <2>2. ASSUME NEW p \in Producers, pc[p] = "claim", my_head[p] = head
        PROVE  head < tail' + capacity /\ head < tail' + capacity - 1
    <3>1. head < tail + capacity
      BY <2>2 DEF ClaimsOK
    <3> QED BY <1>0, <1>1, <3>1, CapacityType
  <2> QED BY <1>1, <2>1, <2>2 DEF ClaimsOK
<1>9. Ready = Ready' \cup {tail} /\ tail \notin Ready'
  <2>1. \A i : i \in Ready <=> i \in Ready' \/ i = tail
    BY <1>0, <1>1, <1>2 DEF Ready
  <2> QED BY <1>0, <1>1, <2>1 DEF Ready
<1>a. IsFiniteSet(Ready') /\ Cardinality(Ready) = Cardinality(Ready') + 1
  <2>1. IsFiniteSet(Ready)
    BY SlotsNumbers
  <2>2. IsFiniteSet(Ready')
    BY <1>9, <2>1, FS_Subset
  <2> QED BY <1>9, <2>2, FS_AddElement
<1>b. /\ Cardinality(pushed) \in Nat /\ Len(received) \in Nat
      /\ Cardinality(Ready') \in Nat /\ Cardinality(Counting) \in Nat
  BY <1>a, SlotsNumbers, FS_CardinalityType
<1>c. Counting' = Counting /\ Popping = 0 /\ Popping' = 1
  BY <1>1 DEF Counting, Popping
<1>d. Cardinality(pushed') + Cardinality(Counting') = Len(received') + Cardinality(Ready')
  BY <1>1, <1>3, <1>a, <1>b, <1>c DEF CountOK
<1>e. Cardinality(pushed') + Popping' - Len(received')
         = Cardinality(pushed) + Popping - Len(received)
  BY <1>1, <1>3, <1>b, <1>c
<1>f. CountOK'
  BY <1>1, <1>d, <1>e DEF CountOK
<1> QED
  BY <1>4, <1>5, <1>6, <1>7, <1>8, <1>f

\* The slot is handed to the producer of one lap later.
LEMMA ReleaseSlots ==
    ASSUME SlotsInv, PopRelease
    PROVE  SlotsInv'
<1> USE DEF SlotsInv
<1>0. /\ head \in Nat /\ tail \in Nat /\ tail <= head /\ my_head \in [Producers -> Nat]
      /\ sequence \in [0 .. capacity - 1 -> Nat]
  BY DEF SlotsTypeOK
<1>1. /\ cpc = "release" /\ cpc' = "count"
      /\ sequence' = [sequence EXCEPT ![SlotOf(tail - 1)] = tail - 1 + capacity]
      /\ UNCHANGED <<head, tail, data, size_approx, pc, my_head, pushes, pushed, received>>
  BY DEF PopRelease, prodVars
<1>2. head < tail + capacity /\ tail > 0
  BY <1>1 DEF WindowOK
<1>3. PICK k \in Nat : k = tail - 1 + capacity /\ SlotOf(tail - 1) = SlotOf(k)
  <2>1. PICK j \in Nat : j = tail - 1
    BY <1>0, <1>2
  <2>2. SlotOf(j + capacity) = SlotOf(j) /\ j + capacity \in Nat
    BY PositionSlot, CapacityType
  <2> QED BY <2>1, <2>2
<1>4. /\ sequence' \in [0 .. capacity - 1 -> Nat] /\ sequence'[SlotOf(k)] = k
      /\ \A i \in Nat : i # k /\ i < k + capacity /\ k < i + capacity
                           => sequence'[SlotOf(i)] = sequence[SlotOf(i)]
  BY <1>0, <1>1, <1>3, SequenceStore
<1>5. ASSUME NEW i \in tail .. tail + capacity - 2
      PROVE  sequence'[SlotOf(i)] = sequence[SlotOf(i)]
  <2>1. i \in Nat /\ i # k /\ i < k + capacity /\ k < i + capacity
    BY <1>0, <1>3, CapacityType
  <2> QED BY <1>4, <2>1
<1>6. SlotsTypeOK' /\ PushesOnce'
  BY <1>1, <1>4 DEF SlotsTypeOK, PushesOnce
<1>7. WindowOK'
  BY <1>1 DEF WindowOK
<1>8. \A i \in tail .. head - 1 : sequence'[SlotOf(i)] = sequence[SlotOf(i)]
  <2> SUFFICES ASSUME NEW i \in tail .. head - 1
               PROVE  sequence'[SlotOf(i)] = sequence[SlotOf(i)]
    OBVIOUS
  <2>1. i \in tail .. tail + capacity - 2
    BY <1>0, <1>2, CapacityType
  <2> QED BY <1>5, <2>1
<1>9. SequenceOK'
  <2>1. ASSUME NEW i \in head .. tail + capacity - 1
        PROVE  sequence'[SlotOf(i)] = i
    <3>1. CASE i = k
      BY <1>4, <3>1
    <3>2. CASE i # k
      <4>1. i \in tail .. tail + capacity - 2 /\ i # tail + capacity - 1
        BY <1>0, <1>3, <3>2, CapacityType
      <4>2. sequence[SlotOf(i)] = i
        BY <4>1 DEF SequenceOK
      <4> QED BY <1>5, <4>1, <4>2
    <3> QED BY <3>1, <3>2
  <2> QED BY <1>1, <1>8, <2>1 DEF SequenceOK
<1>a. ClaimsOK'
  <2>1. ASSUME NEW p \in Producers, pc[p] \in Claiming
        PROVE  sequence'[SlotOf(my_head[p])] = my_head[p]
    <3>1. /\ tail <= my_head[p] /\ my_head[p] < head /\ my_head[p] \in Nat
          /\ sequence[SlotOf(my_head[p])] = my_head[p]
      BY <1>0, <2>1 DEF ClaimsOK
    <3>2. my_head[p] \in tail .. head - 1
      BY <1>0, <3>1
    <3> QED BY <1>8, <3>1, <3>2
  <2> QED BY <1>1, <2>1 DEF ClaimsOK
<1>b. Ready' = Ready
  <2>1. \A i : i \in Ready' <=> i \in Ready
    BY <1>1, <1>8 DEF Ready
  <2> QED BY <2>1
<1>c. Counting' = Counting /\ Popping' = Popping
  BY <1>1 DEF Counting, Popping
<1>d. CountOK'
  BY <1>1, <1>b, <1>c DEF CountOK
<1> QED
  BY <1>6, <1>7, <1>9, <1>a, <1>d

LEMMA SlotsInvStep == SlotsInv /\ [Next]_vars => SlotsInv'
<1> SUFFICES ASSUME SlotsInv, [Next]_vars
             PROVE  SlotsInv'
  OBVIOUS
<1>1. CASE UNCHANGED vars
  BY <1>1 DEF vars, prodVars, SlotsInv, SlotsTypeOK, PushesOnce, WindowOK, SequenceOK,
              ClaimsOK, CountOK, Ready, Counting, Popping
<1>2. ASSUME NEW p \in Producers, (\E block \in BOOLEAN : Push(p, block)) \/ PushStep(p)
      PROVE  SlotsInv'
  <2>1. CASE Claim(p) /\ head' # head
    BY <2>1, ClaimSlots
  <2>2. CASE Claim(p) /\ head' = head
    BY <2>2, QuietSlots
  <2>3. CASE Publish(p)
    BY <2>3, PublishSlots
  <2>4. CASE CountPush(p)
    BY <2>4, CountPushSlots
  <2>5. CASE \/ \E block \in BOOLEAN : Push(p, block)
             \/ PushLoop(p) \/ LoadHead(p) \/ LoadSeq(p) \/ CheckClosed(p)
             \/ Revert(p) \/ WriteData(p)
    BY <2>5, QuietSlots
  <2> QED BY <1>2, <2>1, <2>2, <2>3, <2>4, <2>5 DEF PushStep
<1>3. CASE PopStep
  BY <1>3, QuietPop, TakeSlots, ReleaseSlots DEF PopStep
<1>4. CASE Close
  BY <1>4, QuietPop
<1>5. CASE Finished
  BY <1>1, <1>5 DEF Finished
<1> QED
  BY <1>1, <1>2, <1>3, <1>4, <1>5 DEF Next

-----------------------------------------------------------------------------
(* The count settles *)

\* In a program whose queue is another one the slots stay as they were.
SlotsPart ==
    IF kind = "slots"
    THEN SlotsInv
    ELSE pushed = {} /\ received = <<>> /\ size_approx = 0

LEMMA SlotsPartStep == SlotsPart /\ [QueuesNext]_queueVars => SlotsPart'
<1> SUFFICES ASSUME SlotsPart, [QueuesNext]_queueVars
             PROVE  SlotsPart'
  OBVIOUS
<1>0. kind' = kind
  BY Zenon DEF QueuesNext, queueVars, RingStep, ListStep, SlotStep
<1>1. CASE kind = "slots"
  <2>1. [Next]_vars
    <3>1. CASE UNCHANGED queueVars
      BY <3>1 DEF queueVars, slotVars, vars, prodVars
    <3>2. CASE QueuesNext
      BY <1>1, <3>2, Zenon DEF QueuesNext, RingStep, ListStep, SlotStep, Next, PushStep, PopStep
    <3> QED BY <3>1, <3>2
  <2>2. SlotsInv
    BY <1>1 DEF SlotsPart
  <2> QED BY <1>0, <1>1, <2>1, <2>2, SlotsInvStep DEF SlotsPart
<1>2. CASE kind # "slots"
  <2>1. UNCHANGED slotVars
    <3>1. CASE UNCHANGED queueVars
      BY <3>1 DEF queueVars
    <3>2. CASE QueuesNext
      BY <1>2, <3>2, Zenon DEF QueuesNext, RingStep, ListStep, SlotStep
    <3> QED BY <3>1, <3>2
  <2> QED BY <1>0, <1>2, <2>1 DEF SlotsPart, slotVars
<1> QED
  BY <1>1, <1>2

\* size_approx_ of MPSCQueue is the number of values in the queue whenever
\* nobody is inside a call, for every capacity, any number of producers and any
\* number of pushes: a pop that counts a value out before its producer has
\* counted it in, which wraps the counter, is made good.
THEOREM SizeAlwaysSettles == QueuesSpec => []SizeSettles
<1>1. QueuesInit => SlotsPart
  BY SlotsInvInit DEF QueuesInit, SlotsPart, Init
<1>2. SlotsPart => SizeSettles
  <2> SUFFICES ASSUME SlotsPart
               PROVE  SizeSettles
    OBVIOUS
  <2>1. CASE kind = "slots"
    BY <2>1, SlotsInvSettles DEF SlotsPart
  <2>2. CASE kind # "slots"
    BY <2>2, FS_EmptySet DEF SlotsPart, SizeSettles
  <2> QED BY <2>1, <2>2
<1> QED
  BY <1>1, <1>2, SlotsPartStep, PTL DEF QueuesSpec

-----------------------------------------------------------------------------
(* Numbering the elements of a set of numbers *)

LEMMA RankOrder ==
    ASSUME NEW L \in SUBSET Nat, IsFiniteSet(L)
    PROVE  /\ Cardinality(L) \in Nat
           /\ \A i \in L : Rank(L, i) \in 1 .. Cardinality(L)
           /\ \A i, j \in L : i < j => Rank(L, i) < Rank(L, j)
<1>0. Cardinality(L) \in Nat
  BY FS_CardinalityType
<1>1. ASSUME NEW i \in L
      PROVE  Rank(L, i) \in 1 .. Cardinality(L)
  <2> DEFINE D == {j \in L : j <= i}
  <2>1. IsFiniteSet(D) /\ Cardinality(D) <= Cardinality(L) /\ Cardinality(D) \in Nat
    BY FS_Subset, FS_CardinalityType
  <2>2. i \in D
    OBVIOUS
  <2>3. Cardinality(D) # 0
    BY <2>1, <2>2, FS_EmptySet
  <2> QED BY <1>0, <2>1, <2>3 DEF Rank
<1>2. ASSUME NEW i \in L, NEW j \in L, i < j
      PROVE  Rank(L, i) < Rank(L, j)
  <2> DEFINE D == {k \in L : k <= i}
             E == {k \in L : k <= j}
  <2>1. IsFiniteSet(D) /\ IsFiniteSet(E) /\ Cardinality(D) \in Nat /\ Cardinality(E) \in Nat
    BY FS_Subset, FS_CardinalityType
  <2>2. D \in SUBSET E /\ j \in E /\ j \notin D
    <3>1. \A k \in L : k \in Nat
      OBVIOUS
    <3>2. \A k \in L : k <= i => k <= j
      BY <1>2, <3>1
    <3>3. j <= j /\ ~ (j <= i)
      BY <1>2, <3>1
    <3> QED BY <3>2, <3>3
  <2>3. Cardinality(D) <= Cardinality(E) /\ Cardinality(D) # Cardinality(E)
    BY <2>1, <2>2, FS_Subset
  <2> QED BY <2>1, <2>3 DEF Rank
<1> QED
  BY <1>0, <1>1, <1>2

\* Every number up to the size of the set is the rank of one element.
LEMMA NthIs ==
    ASSUME NEW L \in SUBSET Nat, IsFiniteSet(L)
    PROVE  /\ \A k \in 1 .. Cardinality(L) : Nth(L, k) \in L /\ Rank(L, Nth(L, k)) = k
           /\ \A i \in L : Nth(L, Rank(L, i)) = i
<1> DEFINE n == Cardinality(L)
           f == [i \in L |-> Rank(L, i)]
<1>0. n \in Nat
  BY RankOrder
<1>1. \A i \in L : Rank(L, i) \in 1 .. n
  BY RankOrder
<1>2. \A i, j \in L : Rank(L, i) = Rank(L, j) => i = j
  <2> SUFFICES ASSUME NEW i \in L, NEW j \in L, Rank(L, i) = Rank(L, j)
               PROVE  i = j
    OBVIOUS
  <2>1. ~ (i < j) /\ ~ (j < i)
    <3>1. /\ i < j => Rank(L, i) < Rank(L, j)
          /\ j < i => Rank(L, j) < Rank(L, i)
      BY RankOrder
    <3>2. Rank(L, i) \in Int /\ Rank(L, j) \in Int
      BY <1>0, <1>1
    <3> QED BY <3>1, <3>2
  <2> QED BY <2>1
<1>3. f \in Injection(L, 1 .. n)
  BY <1>1, <1>2 DEF Injection, IsInjective
<1>4. IsFiniteSet(1 .. n) /\ Cardinality(1 .. n) = n
  <2>1. n \in Int /\ 1 \in Int
    BY <1>0
  <2>2. IsFiniteSet(1 .. n) /\ Cardinality(1 .. n) = IF 1 > n THEN 0 ELSE n - 1 + 1
    BY <2>1, FS_Interval
  <2> QED BY <1>0, <2>2
<1>5. f \in Surjection(L, 1 .. n)
  BY <1>3, <1>4, FS_Injection
<1>6. \A k \in 1 .. n : \E i \in L : Rank(L, i) = k
  BY <1>5 DEF Surjection
<1>7. ASSUME NEW k \in 1 .. n
      PROVE  Nth(L, k) \in L /\ Rank(L, Nth(L, k)) = k
  BY <1>6 DEF Nth
<1>8. ASSUME NEW i \in L
      PROVE  Nth(L, Rank(L, i)) = i
  BY <1>1, <1>2, <1>7
<1> QED
  BY <1>7, <1>8

\* A new greatest element comes last.
LEMMA NthAdded ==
    ASSUME NEW L \in SUBSET Nat, IsFiniteSet(L), NEW h \in Nat, \A i \in L : i < h
    PROVE  /\ Cardinality(L \cup {h}) = Cardinality(L) + 1
           /\ \A k \in 1 .. Cardinality(L) : Nth(L \cup {h}, k) = Nth(L, k)
           /\ Nth(L \cup {h}, Cardinality(L) + 1) = h
<1> DEFINE K == L \cup {h}
<1>0. Cardinality(L) \in Nat
  BY RankOrder
<1>1. h \notin L
  OBVIOUS
<1>2. K \in SUBSET Nat /\ IsFiniteSet(K) /\ Cardinality(K) = Cardinality(L) + 1
  BY <1>1, FS_AddElement
<1>3. ASSUME NEW i \in L
      PROVE  Rank(K, i) = Rank(L, i)
  <2>1. {j \in K : j <= i} = {j \in L : j <= i}
    OBVIOUS
  <2> QED BY <2>1 DEF Rank
<1>4. Rank(K, h) = Cardinality(L) + 1
  <2>1. \A j \in K : j <= h
    OBVIOUS
  <2>2. {j \in K : j <= h} = K
    BY <2>1
  <2> QED BY <1>2, <2>2 DEF Rank
<1>5. \A i \in K : Nth(K, Rank(K, i)) = i
  BY <1>2, NthIs
<1>6. ASSUME NEW k \in 1 .. Cardinality(L)
      PROVE  Nth(K, k) = Nth(L, k)
  <2>1. Nth(L, k) \in L /\ Rank(L, Nth(L, k)) = k
    BY NthIs
  <2>2. Rank(K, Nth(L, k)) = k
    BY <1>3, <2>1
  <2> QED BY <1>5, <2>1, <2>2
<1> QED
  BY <1>2, <1>4, <1>5, <1>6

\* Without x, what came after x moves up.
LEMMA NthRemoved ==
    ASSUME NEW L \in SUBSET Nat, IsFiniteSet(L), NEW x \in L
    PROVE  /\ Cardinality(L \ {x}) + 1 = Cardinality(L)
           /\ \A k \in 1 .. Cardinality(L \ {x}) :
                 Nth(L \ {x}, k) = IF k < Rank(L, x) THEN Nth(L, k) ELSE Nth(L, k + 1)
<1> DEFINE K == L \ {x}
<1>0. Cardinality(L) \in Nat
  BY RankOrder
<1>1. K \in SUBSET Nat /\ IsFiniteSet(K) /\ Cardinality(K) = Cardinality(L) - 1
  BY FS_RemoveElement
<1>2. ASSUME NEW i \in K, i < x
      PROVE  Rank(K, i) = Rank(L, i)
  <2>1. {j \in K : j <= i} = {j \in L : j <= i}
    BY <1>2
  <2> QED BY <2>1 DEF Rank
<1>3. ASSUME NEW i \in K, x < i
      PROVE  Rank(K, i) = Rank(L, i) - 1
  <2> DEFINE D == {j \in L : j <= i}
  <2>1. {j \in K : j <= i} = D \ {x}
    OBVIOUS
  <2>2. x \in D /\ IsFiniteSet(D)
    BY <1>3, FS_Subset
  <2>3. Cardinality(D \ {x}) = Cardinality(D) - 1
    BY <2>2, FS_RemoveElement
  <2> QED BY <2>1, <2>3 DEF Rank
<1>4. \A i \in K : Nth(K, Rank(K, i)) = i
  BY <1>1, NthIs
<1>5. Rank(L, x) \in 1 .. Cardinality(L)
  BY RankOrder
<1>6. ASSUME NEW k \in 1 .. Cardinality(K)
      PROVE  Nth(K, k) = IF k < Rank(L, x) THEN Nth(L, k) ELSE Nth(L, k + 1)
  <2>1. CASE k < Rank(L, x)
    <3>1. PICK y \in L : y = Nth(L, k) /\ Rank(L, y) = k
      <4>1. k \in 1 .. Cardinality(L)
        BY <1>0, <1>1
      <4> QED BY <4>1, NthIs
    <3>2. y < x
      <4>1. x < y => Rank(L, x) < Rank(L, y)
        BY RankOrder
      <4>2. y # x
        BY <1>0, <1>5, <2>1, <3>1
      <4> QED BY <1>0, <1>1, <1>5, <2>1, <3>1, <4>1, <4>2
    <3>3. y \in K /\ Rank(K, y) = k
      BY <1>2, <3>1, <3>2
    <3> QED BY <1>4, <2>1, <3>1, <3>3
  <2>2. CASE ~ (k < Rank(L, x))
    <3>1. PICK y \in L : y = Nth(L, k + 1) /\ Rank(L, y) = k + 1
      <4>1. PICK m \in 1 .. Cardinality(L) : m = k + 1
        BY <1>0, <1>1
      <4>2. Nth(L, m) \in L /\ Rank(L, Nth(L, m)) = m
        BY NthIs
      <4> QED BY <4>1, <4>2
    <3>2. x < y
      <4>1. y < x => Rank(L, y) < Rank(L, x)
        BY RankOrder
      <4>2. y # x
        BY <1>0, <1>1, <1>5, <2>2, <3>1
      <4> QED BY <1>0, <1>1, <1>5, <2>2, <3>1, <4>1, <4>2
    <3>3. y \in K /\ Rank(K, y) = (k + 1) - 1
      BY <1>3, <3>1, <3>2
    <3>4. (k + 1) - 1 = k
      BY <1>0, <1>1
    <3> QED BY <1>4, <2>2, <3>1, <3>3, <3>4
  <2> QED BY <2>1, <2>2
<1> QED
  BY <1>0, <1>1, <1>6

-----------------------------------------------------------------------------
(* The values in the slots *)

\* Producer p owns the claimed position i.
Claims(p, i) == pc[p] \in Claiming /\ my_head[p] = i

\* Of every push in progress there is a value, and what is about to be
\* published has been written.
Holding ==
    /\ \A p \in Producers : pushes[p] <= MaxPushes /\ (pc[p] # "idle" => pushes[p] > 0)
    /\ \A p \in Producers :
          pc[p] = "publish" => data[SlotOf(my_head[p])] = <<p, pushes[p]>>

Contained == (Producers \X Nat) \cup {NoValue}

\* What the positions of the window stand for, without the choice of an owner.
Cells == [i \in tail .. head - 1 |-> Cell(i)]
CellsAre ==
    \A i \in tail .. head - 1 :
        /\ \A p \in Producers : Claims(p, i) => Cells[i] = <<p, pushes[p]>>
        /\ (\A p \in Producers : ~ Claims(p, i)) => Cells[i] = data[SlotOf(i)]

LEMMA CellsFact == SlotsInv => CellsAre
<1> SUFFICES ASSUME SlotsInv, NEW i \in tail .. head - 1
             PROVE  /\ \A p \in Producers : Claims(p, i) => Cell(i) = <<p, pushes[p]>>
                    /\ (\A p \in Producers : ~ Claims(p, i)) => Cell(i) = data[SlotOf(i)]
  BY DEF CellsAre, Cells
<1>1. \A p : p \in Claimers(i) <=> p \in Producers /\ Claims(p, i)
  BY DEF Claimers, Claims, Claiming
<1>2. ASSUME NEW p \in Producers, Claims(p, i)
      PROVE  Cell(i) = <<p, pushes[p]>>
  <2>1. \A q \in Producers : Claims(q, i) => q = p
    BY <1>2 DEF Claims, SlotsInv, ClaimsOK
  <2>2. Claimers(i) = {p}
    BY <1>1, <1>2, <2>1
  <2>3. (CHOOSE q \in Claimers(i) : TRUE) = p
    BY <2>2
  <2> QED BY <2>2, <2>3 DEF Cell, Value
<1>3. ASSUME \A p \in Producers : ~ Claims(p, i)
      PROVE  Cell(i) = data[SlotOf(i)]
  <2>1. Claimers(i) = {}
    BY <1>1, <1>3
  <2> QED BY <2>1 DEF Cell
<1> QED
  BY <1>2, <1>3

LEMMA CellsFactNext == SlotsInv' => CellsAre'
  BY CellsFact, PTL

LEMMA LiveIs ==
    \A i : i \in Live <=> /\ i \in tail .. head - 1
                          /\ \/ \E p \in Producers : Claims(p, i)
                             \/ sequence[SlotOf(i)] = i + 1
  BY DEF Live, Claimers, Claims, Claiming

LEMMA LiveIsNext ==
    \A i : i \in Live' <=> /\ i \in tail' .. head' - 1
                           /\ \/ \E p \in Producers : Claims(p, i)'
                              \/ sequence'[SlotOf(i)] = i + 1
  BY DEF Live, Claimers, Claims, Claiming

\* The values in the queue as a sequence.
ItemsAre ==
    /\ Live \in SUBSET Nat /\ Live \in SUBSET (tail .. head - 1)
    /\ IsFiniteSet(Live) /\ Cardinality(Live) \in Nat
    /\ Items \in Seq(Contained) /\ Len(Items) = Cardinality(Live)
    /\ \A k \in 1 .. Cardinality(Live) : Items[k] = Cells[Nth(Live, k)]

LEMMA ItemsFact == SlotsInv => ItemsAre
<1> SUFFICES ASSUME SlotsInv
             PROVE  ItemsAre
  OBVIOUS
<1>0. /\ head \in Nat /\ tail \in Nat /\ tail <= head /\ pushes \in [Producers -> Nat]
      /\ data \in [0 .. capacity - 1 -> Contained]
  BY DEF SlotsInv, SlotsTypeOK, Contained
<1>1. Live \in SUBSET (tail .. head - 1)
  BY LiveIs
<1>2. Live \in SUBSET Nat
  BY <1>0, <1>1
<1>3. IsFiniteSet(Live) /\ Cardinality(Live) \in Nat
  BY <1>0, <1>1, ReadyFinite
<1>4. \A i \in Live : Cells[i] \in Contained
  <2> SUFFICES ASSUME NEW i \in Live
               PROVE  Cells[i] \in Contained
    OBVIOUS
  <2>0. i \in tail .. head - 1
    BY <1>1
  <2>1. CASE \E p \in Producers : Claims(p, i)
    <3>1. PICK p \in Producers : Claims(p, i)
      BY <2>1
    <3>2. Cells[i] = <<p, pushes[p]>>
      BY <2>0, <3>1, CellsFact DEF CellsAre
    <3>3. pushes[p] \in Nat
      BY <1>0
    <3> QED BY <3>2, <3>3 DEF Contained
  <2>2. CASE \A p \in Producers : ~ Claims(p, i)
    <3>1. SlotOf(i) \in 0 .. capacity - 1
      BY <1>2, PositionSlot
    <3>2. Cells[i] = data[SlotOf(i)]
      BY <2>0, <2>2, CellsFact DEF CellsAre
    <3> QED BY <1>0, <3>1, <3>2
  <2> QED BY <2>1, <2>2
<1>5. \A k \in 1 .. Cardinality(Live) : Nth(Live, k) \in Live
  BY <1>2, <1>3, NthIs
<1>6. \A k \in 1 .. Cardinality(Live) : Cell(Nth(Live, k)) = Cells[Nth(Live, k)]
  <2> SUFFICES ASSUME NEW k \in 1 .. Cardinality(Live)
               PROVE  Cell(Nth(Live, k)) = Cells[Nth(Live, k)]
    OBVIOUS
  <2>1. Nth(Live, k) \in tail .. head - 1
    BY <1>1, <1>5
  <2> QED BY <2>1 DEF Cells
<1>7. Items \in [1 .. Cardinality(Live) -> Contained]
  BY <1>4, <1>5, <1>6 DEF Items
<1>8. Items \in Seq(Contained) /\ Len(Items) = Cardinality(Live)
  BY <1>3, <1>7
<1> QED
  BY <1>1, <1>2, <1>3, <1>6, <1>8 DEF Items, ItemsAre

LEMMA ItemsFactNext == SlotsInv' => ItemsAre'
  BY ItemsFact, PTL

\* The values stay: the same positions are live and stand for the same.
LEMMA ItemsKept ==
    ASSUME SlotsInv, SlotsInv', Live' = Live, \A i \in Live : Cells'[i] = Cells[i]
    PROVE  Items' = Items
<1>1. ItemsAre /\ ItemsAre'
  BY ItemsFact, ItemsFactNext
<1>2. \A k \in 1 .. Cardinality(Live) : Nth(Live, k) \in Live
  BY <1>1, NthIs DEF ItemsAre
<1>3. \A k \in 1 .. Len(Items) : Items'[k] = Items[k]
  <2>1. \A k \in 1 .. Cardinality(Live) :
           Items[k] = Cells[Nth(Live, k)] /\ Items'[k] = Cells'[Nth(Live, k)]
    BY <1>1 DEF ItemsAre
  <2>2. Len(Items) = Cardinality(Live)
    BY <1>1 DEF ItemsAre
  <2> QED BY <1>2, <2>1, <2>2
<1>4. Items' \in Seq(Contained) /\ Items \in Seq(Contained) /\ Len(Items') = Len(Items)
  BY <1>1 DEF ItemsAre
<1> QED
  BY <1>3, <1>4, SeqEqual

\* A new greatest position: its value is appended.
LEMMA ItemsAppended ==
    ASSUME SlotsInv, SlotsInv', NEW h \in Nat, \A i \in Live : i < h,
           Live' = Live \cup {h}, \A i \in Live : Cells'[i] = Cells[i]
    PROVE  Items' = Append(Items, Cells'[h])
<1>1. ItemsAre /\ ItemsAre'
  BY ItemsFact, ItemsFactNext
<1>2. PICK L \in SUBSET Nat, n \in Nat : L = Live /\ n = Cardinality(L) /\ IsFiniteSet(L)
  BY <1>1 DEF ItemsAre
<1>3. /\ Cardinality(L \cup {h}) = n + 1
      /\ \A k \in 1 .. n : Nth(L \cup {h}, k) = Nth(L, k)
      /\ Nth(L \cup {h}, n + 1) = h
  BY <1>2, NthAdded
<1>4. \A k \in 1 .. n : Nth(L, k) \in L
  BY <1>2, NthIs
<1>5. /\ Items \in Seq(Contained) /\ Len(Items) = n
      /\ \A k \in 1 .. n : Items[k] = Cells[Nth(L, k)]
  BY <1>1, <1>2 DEF ItemsAre
<1>6. /\ Items' \in Seq(Contained) /\ Len(Items') = n + 1
      /\ \A k \in 1 .. n + 1 : Items'[k] = Cells'[Nth(L \cup {h}, k)]
  BY <1>1, <1>2, <1>3 DEF ItemsAre
<1>7. \A k \in 1 .. n : Items'[k] = Items[k]
  <2> SUFFICES ASSUME NEW k \in 1 .. n
               PROVE  Items'[k] = Items[k]
    OBVIOUS
  <2>1. k \in 1 .. n + 1
    OBVIOUS
  <2>2. Items'[k] = Cells'[Nth(L, k)]
    BY <1>3, <1>6, <2>1
  <2>3. Nth(L, k) \in Live
    BY <1>2, <1>4
  <2> QED BY <1>5, <2>2, <2>3
<1>8. Items'[n + 1] = Cells'[h] /\ Cells'[h] \in Contained
  <2>1. n + 1 \in 1 .. n + 1
    OBVIOUS
  <2>2. Items'[n + 1] = Cells'[h]
    BY <1>3, <1>6, <2>1
  <2> QED BY <1>6, <2>1, <2>2, ElementOfSeq
<1>9. /\ Append(Items, Cells'[h]) \in Seq(Contained)
      /\ Len(Append(Items, Cells'[h])) = n + 1
      /\ \A k \in 1 .. n : Append(Items, Cells'[h])[k] = Items[k]
      /\ Append(Items, Cells'[h])[n + 1] = Cells'[h]
  BY <1>5, <1>8, AppendProperties
<1>a. \A k \in 1 .. n + 1 : k \in 1 .. n \/ k = n + 1
  OBVIOUS
<1>b. \A k \in 1 .. n + 1 : Items'[k] = Append(Items, Cells'[h])[k]
  BY <1>7, <1>8, <1>9, <1>a
<1> QED
  BY <1>6, <1>9, <1>b, SeqEqual

\* A position less: the values after it move up.
LEMMA ItemsWithout ==
    ASSUME SlotsInv, SlotsInv', NEW x \in Live,
           Live' = Live \ {x}, \A i \in Live \ {x} : Cells'[i] = Cells[i]
    PROVE  /\ Rank(Live, x) \in 1 .. Len(Items) /\ Len(Items) \in Nat
           /\ Items \in Seq(Contained) /\ Items' \in Seq(Contained)
           /\ Len(Items') = Len(Items) - 1
           /\ \A k \in 1 .. Len(Items) - 1 :
                 Items'[k] = IF k < Rank(Live, x) THEN Items[k] ELSE Items[k + 1]
           /\ Items[Rank(Live, x)] = Cells[x]
<1>1. ItemsAre /\ ItemsAre'
  BY ItemsFact, ItemsFactNext
<1>2. PICK L \in SUBSET Nat, n \in Nat : L = Live /\ n = Cardinality(L) /\ IsFiniteSet(L)
  BY <1>1 DEF ItemsAre
<1>b. PICK r : r = Rank(L, x)
  OBVIOUS
<1>3. x \in L /\ r \in 1 .. n /\ Nth(L, r) = x
  BY <1>2, <1>b, RankOrder, NthIs
<1>4. PICK m \in Nat : m = Cardinality(L \ {x}) /\ m + 1 = n
  <2>1. Cardinality(L \ {x}) + 1 = Cardinality(L)
    BY <1>2, <1>3, NthRemoved
  <2>2. Cardinality(L \ {x}) \in Nat
    BY <1>1, <1>2 DEF ItemsAre
  <2> QED BY <1>2, <2>1, <2>2
<1>5. \A k \in 1 .. m : Nth(L \ {x}, k) = IF k < r THEN Nth(L, k) ELSE Nth(L, k + 1)
  BY <1>2, <1>3, <1>4, <1>b, NthRemoved
<1>6. /\ Items \in Seq(Contained) /\ Len(Items) = n
      /\ \A k \in 1 .. n : Items[k] = Cells[Nth(L, k)]
  BY <1>1, <1>2 DEF ItemsAre
<1>7. /\ Items' \in Seq(Contained) /\ Len(Items') = m
      /\ \A k \in 1 .. m : Items'[k] = Cells'[Nth(L \ {x}, k)]
  BY <1>1, <1>2, <1>4 DEF ItemsAre
<1>8. ASSUME NEW k \in 1 .. m
      PROVE  Items'[k] = IF k < r THEN Items[k] ELSE Items[k + 1]
  <2>1. Nth(L \ {x}, k) \in L \ {x}
    <3>1. L \ {x} \in SUBSET Nat /\ IsFiniteSet(L \ {x})
      BY <1>2, FS_RemoveElement
    <3> QED BY <1>4, <3>1, NthIs
  <2>2. Items'[k] = Cells[Nth(L \ {x}, k)]
    BY <1>2, <1>7, <2>1
  <2>3. k \in 1 .. n /\ k + 1 \in 1 .. n
    BY <1>4
  <2> QED BY <1>5, <1>6, <2>2, <2>3
<1>9. Items[r] = Cells[x]
  BY <1>3, <1>6
<1>a. m = n - 1
  BY <1>4
<1> QED
  BY <1>2, <1>3, <1>6, <1>7, <1>8, <1>9, <1>a, <1>b

\* The positions of the window have slots of their own.
LEMMA WindowApart ==
    ASSUME SlotsInv, NEW i \in tail .. head - 1, NEW j \in tail .. head - 1, i # j
    PROVE  SlotOf(i) # SlotOf(j) /\ SlotOf(i) \in 0 .. capacity - 1
<1>1. head \in Nat /\ tail \in Nat /\ head <= tail + capacity
  BY DEF SlotsInv, SlotsTypeOK, WindowOK
<1>2. i \in Nat /\ j \in Nat /\ i < j + capacity /\ j < i + capacity
  BY <1>1, CapacityType
<1>3. CASE i < j
  BY <1>2, <1>3, PositionsApart, PositionSlot
<1>4. CASE j < i
  BY <1>2, <1>4, PositionsApart, PositionSlot
<1> QED
  BY <1>2, <1>3, <1>4

LEMMA ClaimInWindow ==
    ASSUME SlotsInv, NEW p \in Producers, pc[p] \in Claiming
    PROVE  my_head[p] \in tail .. head - 1 /\ sequence[SlotOf(my_head[p])] = my_head[p]
<1>1. head \in Nat /\ tail \in Nat /\ my_head[p] \in Nat
  BY DEF SlotsInv, SlotsTypeOK
<1> QED
  BY <1>1 DEF SlotsInv, ClaimsOK

\* A step that the abstract queue does not see.
Unseen == Items' = Items /\ Pending' = Pending /\ received' = received

LEMMA PendingIs ==
    \A v : v \in Pending <=> \E q \in Producers : pc[q] \in Claiming /\ v = <<q, pushes[q]>>
  BY DEF Pending, Claimers, Claiming, Value

LEMMA PendingIsNext ==
    \A v : v \in Pending' <=> \E q \in Producers : pc'[q] \in Claiming /\ v = <<q, pushes'[q]>>
  BY DEF Pending, Claimers, Claiming, Value

\* Pushes that keep their places are pending as they were.
LEMMA PendingKept ==
    ASSUME \A q \in Producers : pc'[q] \in Claiming <=> pc[q] \in Claiming,
           \A q \in Producers : pc[q] \in Claiming => pushes'[q] = pushes[q]
    PROVE  Pending' = Pending
<1>1. \A v : v \in Pending' <=> v \in Pending
  BY PendingIs, PendingIsNext
<1> QED
  BY <1>1

\* One push gives up or commits its place.
LEMMA PendingLess ==
    ASSUME NEW p \in Producers, pc[p] \in Claiming, pc'[p] \notin Claiming,
           \A q \in Producers : q # p => pc'[q] = pc[q],
           UNCHANGED pushes
    PROVE  <<p, pushes[p]>> \in Pending /\ Pending' = Pending \ {<<p, pushes[p]>>}
<1>1. \A v : v \in Pending' <=> v \in Pending /\ v # <<p, pushes[p]>>
  BY PendingIs, PendingIsNext
<1> QED
  BY <1>1, PendingIs

\* Nobody claims, publishes or withdraws, and no published value is touched.
LEMMA ItemsUntouched ==
    ASSUME SlotsInv, SlotsInv', UNCHANGED <<head, tail>>,
           \A q \in Producers : pc'[q] \in Claiming <=> pc[q] \in Claiming,
           \A q \in Producers : pc[q] \in Claiming =>
              my_head'[q] = my_head[q] /\ pushes'[q] = pushes[q],
           \A i \in tail .. head - 1 : sequence'[SlotOf(i)] = sequence[SlotOf(i)],
           \A i \in tail .. head - 1 :
              (\E q \in Producers : Claims(q, i)) \/ data'[SlotOf(i)] = data[SlotOf(i)]
    PROVE  Items' = Items /\ Pending' = Pending
<1>1. \A q \in Producers, i \in tail .. head - 1 : Claims(q, i)' <=> Claims(q, i)
  BY DEF Claims
<1>2. Live' = Live
  <2>1. \A i : i \in Live' <=> i \in Live
    BY <1>1, LiveIs, LiveIsNext
  <2> QED BY <2>1
<1>3. \A i \in tail .. head - 1 : Cells'[i] = Cells[i]
  <2> SUFFICES ASSUME NEW i \in tail .. head - 1
               PROVE  Cells'[i] = Cells[i]
    OBVIOUS
  <2>0. i \in tail' .. head' - 1
    OBVIOUS
  <2>1. CASE \E q \in Producers : Claims(q, i)
    <3>1. PICK q \in Producers : Claims(q, i) /\ Claims(q, i)'
      BY <1>1, <2>1
    <3>2. Cells[i] = <<q, pushes[q]>> /\ pushes'[q] = pushes[q]
      BY <3>1, CellsFact DEF CellsAre, Claims
    <3>3. Cells'[i] = <<q, pushes'[q]>>
      BY <2>0, <3>1, CellsFactNext DEF CellsAre
    <3> QED BY <3>2, <3>3
  <2>2. CASE \A q \in Producers : ~ Claims(q, i)
    <3>1. \A q \in Producers : ~ Claims(q, i)'
      BY <1>1, <2>2
    <3>2. Cells[i] = data[SlotOf(i)]
      BY <2>2, CellsFact DEF CellsAre
    <3>3. Cells'[i] = data'[SlotOf(i)]
      BY <2>0, <3>1, CellsFactNext DEF CellsAre
    <3> QED BY <2>2, <3>2, <3>3
  <2> QED BY <2>1, <2>2
<1>4. \A i \in Live : Cells'[i] = Cells[i]
  BY <1>3, LiveIs
<1>5. Pending' = Pending
  BY PendingKept
<1> QED
  BY <1>2, <1>4, <1>5, ItemsKept

\* A producer step that leaves the claims and the slots alone.
LEMMA QuietItems ==
    ASSUME SlotsInv, SlotsInv', NEW p \in Producers,
           \/ \E block \in BOOLEAN : Push(p, block)
           \/ PushLoop(p) \/ LoadHead(p) \/ LoadSeq(p) \/ CheckClosed(p)
           \/ Claim(p) /\ head' = head
           \/ CountPush(p)
    PROVE  Unseen
<1>0. DOMAIN pc = Producers /\ my_head \in [Producers -> Nat] /\ pushes \in [Producers -> Nat]
      /\ head \in Nat
  BY DEF SlotsInv, SlotsTypeOK
<1>1. UNCHANGED <<head, tail, sequence, data, received>>
  BY <1>0 DEF Push, PushLoop, LoadHead, LoadSeq, CheckClosed, Claim, CountPush
<1>2. /\ \A q \in Producers : q # p => pc'[q] = pc[q] /\ my_head'[q] = my_head[q]
                                       /\ pushes'[q] = pushes[q]
      /\ pc'[p] \in Claiming <=> pc[p] \in Claiming
      /\ pc[p] \in Claiming => my_head'[p] = my_head[p] /\ pushes'[p] = pushes[p]
  <2> USE <1>0 DEF Claiming, Goto, Return, Fail
  <2>1. CASE \E block \in BOOLEAN : Push(p, block)
    BY <2>1 DEF Push, BeginPush
  <2>2. CASE PushLoop(p) \/ LoadHead(p)
    BY <2>2 DEF PushLoop, LoadHead
  <2>3. CASE LoadSeq(p)
    BY <2>3 DEF LoadSeq
  <2>4. CASE CheckClosed(p) \/ (Claim(p) /\ head' = head)
    BY <2>4 DEF CheckClosed, Claim
  <2>5. CASE CountPush(p)
    BY <2>5 DEF CountPush
  <2> QED BY <2>1, <2>2, <2>3, <2>4, <2>5
<1> QED
  BY <1>1, <1>2, ItemsUntouched DEF Unseen

\* The value is written where its owner alone looks.
LEMMA WriteItems ==
    ASSUME SlotsInv, SlotsInv', NEW p \in Producers, WriteData(p)
    PROVE  Unseen
<1>0. DOMAIN pc = Producers
  BY DEF SlotsInv, SlotsTypeOK
<1>1. /\ pc[p] = "write" /\ pc' = [pc EXCEPT ![p] = "publish"]
      /\ data' = [data EXCEPT ![SlotOf(my_head[p])] = Value(p)]
      /\ UNCHANGED <<head, tail, sequence, my_head, pushes, received>>
  BY DEF WriteData, Goto
<1>2. my_head[p] \in tail .. head - 1
  BY <1>1, ClaimInWindow DEF Claiming
<1>3. \A i \in tail .. head - 1 :
         (\E q \in Producers : Claims(q, i)) \/ data'[SlotOf(i)] = data[SlotOf(i)]
  <2> SUFFICES ASSUME NEW i \in tail .. head - 1, i # my_head[p]
               PROVE  data'[SlotOf(i)] = data[SlotOf(i)]
    BY <1>1 DEF Claims, Claiming
  <2>1. SlotOf(i) # SlotOf(my_head[p])
    BY <1>2, WindowApart
  <2>2. DOMAIN data = 0 .. capacity - 1
    BY DEF SlotsInv, SlotsTypeOK
  <2>3. SlotOf(i) \in 0 .. capacity - 1
    BY <1>2, WindowApart
  <2> QED BY <1>1, <2>1, <2>2, <2>3
<1>4. \A q \in Producers : pc'[q] \in Claiming <=> pc[q] \in Claiming
  BY <1>0, <1>1 DEF Claiming
<1> QED
  BY <1>1, <1>3, <1>4, ItemsUntouched DEF Unseen

\* The consumer's steps but for the taking of a value, and close().
LEMMA QuietPopItems ==
    ASSUME SlotsInv, SlotsInv', PopLoad \/ PopCount \/ Close \/ PopRelease
    PROVE  Unseen
<1>1. UNCHANGED <<head, tail, data, pc, my_head, pushes, received>>
  BY DEF PopLoad, PopCount, Close, PopRelease, prodVars
<1>2. \A i \in tail .. head - 1 : sequence'[SlotOf(i)] = sequence[SlotOf(i)]
  <2>1. CASE PopLoad \/ PopCount \/ Close
    BY <2>1 DEF PopLoad, PopCount, Close
  <2>2. CASE PopRelease
    <3> SUFFICES ASSUME NEW i \in tail .. head - 1
                 PROVE  sequence'[SlotOf(i)] = sequence[SlotOf(i)]
      OBVIOUS
    <3>0. /\ head \in Nat /\ tail \in Nat /\ head < tail + capacity /\ tail > 0
          /\ sequence \in [0 .. capacity - 1 -> Nat]
      BY <2>2 DEF SlotsInv, SlotsTypeOK, WindowOK, PopRelease
    <3>1. PICK j \in Nat : j = tail - 1
      BY <3>0
    <3>2. sequence' = [sequence EXCEPT ![SlotOf(j)] = j + capacity]
      BY <2>2, <3>1 DEF PopRelease
    <3>3. i \in Nat /\ i # j /\ i < j + capacity /\ j < i + capacity /\ j + capacity \in Nat
      BY <3>0, <3>1, CapacityType
    <3> QED BY <3>0, <3>2, <3>3, SequenceStore
  <2> QED BY <2>1, <2>2
<1> QED
  BY <1>1, <1>2, ItemsUntouched DEF Unseen

\* The push in progress has a number.
LEMMA PushNumbered ==
    ASSUME SlotsInv, Holding, NEW p \in Producers, pc[p] # "idle"
    PROVE  <<p, pushes[p]>> \in Producers \X (1 .. MaxPushes)
<1>1. pushes[p] \in Nat /\ pushes[p] > 0 /\ pushes[p] <= MaxPushes
  BY DEF SlotsInv, SlotsTypeOK, Holding
<1>2. pushes[p] \in 1 .. MaxPushes
  BY <1>1, PushAssumption
<1> QED
  BY <1>2

\* A published position stands for the value its owner has written: publishing
\* it commits the push.
LEMMA PublishItems ==
    ASSUME SlotsInv, SlotsInv', Holding, NEW p \in Producers, Publish(p)
    PROVE  Abstract!Next
<1>0. /\ DOMAIN pc = Producers /\ my_head \in [Producers -> Nat]
      /\ sequence \in [0 .. capacity - 1 -> Nat]
  BY DEF SlotsInv, SlotsTypeOK
<1>1. PICK k \in Nat : k = my_head[p]
  BY <1>0
<1>2. /\ pc[p] = "publish" /\ pc' = [pc EXCEPT ![p] = "count"]
      /\ sequence' = [sequence EXCEPT ![SlotOf(k)] = k + 1]
      /\ UNCHANGED <<head, tail, data, my_head, pushes, received>>
  BY <1>1 DEF Publish, Goto
<1>3. k \in tail .. head - 1 /\ Claims(p, k) /\ data[SlotOf(k)] = <<p, pushes[p]>>
  BY <1>1, <1>2, ClaimInWindow DEF Claiming, Claims, Holding
<1>4. \A i \in tail .. head - 1 : i # k => sequence'[SlotOf(i)] = sequence[SlotOf(i)]
  <2> SUFFICES ASSUME NEW i \in tail .. head - 1, i # k
               PROVE  sequence'[SlotOf(i)] = sequence[SlotOf(i)]
    OBVIOUS
  <2>1. SlotOf(i) # SlotOf(k) /\ SlotOf(i) \in 0 .. capacity - 1
    BY <1>3, WindowApart
  <2> QED BY <1>0, <1>2, <2>1
<1>5. sequence'[SlotOf(k)] = k + 1
  BY <1>0, <1>2, PositionSlot
<1>6. \A i : i # k => \A q \in Producers : Claims(q, i)' <=> Claims(q, i)
  BY <1>0, <1>1, <1>2 DEF Claims, Claiming
<1>7. \A q \in Producers : ~ Claims(q, k)'
  <2> SUFFICES ASSUME NEW q \in Producers, Claims(q, k)'
               PROVE  FALSE
    OBVIOUS
  <2>1. q # p /\ Claims(q, k)
    BY <1>0, <1>2 DEF Claims, Claiming
  <2> QED BY <1>3, <2>1 DEF Claims, SlotsInv, ClaimsOK
<1>8. Live' = Live
  <2>1. \A i : i # k => (i \in Live' <=> i \in Live)
    BY <1>2, <1>4, <1>6, LiveIs, LiveIsNext
  <2>2. k \in Live' /\ k \in Live
    BY <1>2, <1>3, <1>5, LiveIs, LiveIsNext
  <2>3. \A i : i \in Live' <=> i \in Live
    BY <2>1, <2>2
  <2> QED BY <2>3
<1>9. ASSUME NEW i \in Live
      PROVE  Cells'[i] = Cells[i]
  <2>0. i \in tail .. head - 1 /\ i \in tail' .. head' - 1
    BY <1>2, LiveIs
  <2>1. CASE i = k
    <3>1. Cells[k] = <<p, pushes[p]>>
      BY <1>3, <2>0, <2>1, CellsFact DEF CellsAre
    <3>2. Cells'[k] = data'[SlotOf(k)]
      BY <1>7, <2>0, <2>1, CellsFactNext DEF CellsAre
    <3> QED BY <1>2, <1>3, <2>1, <3>1, <3>2
  <2>2. CASE i # k /\ \E q \in Producers : Claims(q, i)
    <3>1. PICK q \in Producers : Claims(q, i) /\ Claims(q, i)'
      BY <1>6, <2>2
    <3>2. Cells[i] = <<q, pushes[q]>> /\ Cells'[i] = <<q, pushes'[q]>>
      BY <2>0, <3>1, CellsFact, CellsFactNext DEF CellsAre
    <3> QED BY <1>2, <3>2
  <2>3. CASE i # k /\ \A q \in Producers : ~ Claims(q, i)
    <3>1. \A q \in Producers : ~ Claims(q, i)'
      BY <1>6, <2>3
    <3>2. Cells[i] = data[SlotOf(i)] /\ Cells'[i] = data'[SlotOf(i)]
      BY <2>0, <2>3, <3>1, CellsFact, CellsFactNext DEF CellsAre
    <3> QED BY <1>2, <3>2
  <2> QED BY <2>1, <2>2, <2>3
<1>a. Items' = Items
  BY <1>8, <1>9, ItemsKept
<1>b. <<p, pushes[p]>> \in Pending /\ Pending' = Pending \ {<<p, pushes[p]>>}
  BY <1>0, <1>2, PendingLess DEF Claiming
<1>c. <<p, pushes[p]>> \in Producers \X (1 .. MaxPushes)
  BY <1>2, PushNumbered
<1>d. Abstract!Commit(<<p, pushes[p]>>)
  BY <1>2, <1>a, <1>b DEF Abstract!Commit
<1> QED
  BY <1>c, <1>d DEF Abstract!Next

\* Positions whose claims, sequence numbers and values stay are as they were.
LEMMA CellsKept ==
    ASSUME SlotsInv, SlotsInv', NEW i, i \in tail .. head - 1, i \in tail' .. head' - 1,
           \A q \in Producers : Claims(q, i)' <=> Claims(q, i),
           \A q \in Producers : Claims(q, i) => pushes'[q] = pushes[q],
           data'[SlotOf(i)] = data[SlotOf(i)]
    PROVE  Cells'[i] = Cells[i]
<1>1. CASE \E q \in Producers : Claims(q, i)
  <2>1. PICK q \in Producers : Claims(q, i) /\ Claims(q, i)'
    BY <1>1
  <2>2. Cells[i] = <<q, pushes[q]>> /\ Cells'[i] = <<q, pushes'[q]>>
    BY <2>1, CellsFact, CellsFactNext DEF CellsAre
  <2> QED BY <2>1, <2>2
<1>2. CASE \A q \in Producers : ~ Claims(q, i)
  <2>1. \A q \in Producers : ~ Claims(q, i)'
    BY <1>2
  <2>2. Cells[i] = data[SlotOf(i)] /\ Cells'[i] = data'[SlotOf(i)]
    BY <1>2, <2>1, CellsFact, CellsFactNext DEF CellsAre
  <2> QED BY <2>2
<1> QED
  BY <1>1, <1>2

\* The compare-exchange of head_ puts the value at the end of the queue.
LEMMA ClaimItems ==
    ASSUME SlotsInv, SlotsInv', Holding, NEW p \in Producers, Claim(p), head' # head
    PROVE  Abstract!Next
<1>0. /\ DOMAIN pc = Producers /\ my_head \in [Producers -> Nat] /\ head \in Nat /\ tail \in Nat
      /\ pushes \in [Producers -> Nat] /\ tail <= head
  BY DEF SlotsInv, SlotsTypeOK
<1>1. /\ head = my_head[p] /\ head' = head + 1 /\ pc[p] = "claim"
      /\ pc' = [pc EXCEPT ![p] = "check"]
      /\ UNCHANGED <<tail, sequence, data, my_head, pushes, received>>
  BY DEF Claim, Goto
<1>2. PICK h \in Nat : h = head
  BY <1>0
<1>3. \A i : i # h => \A q \in Producers : Claims(q, i)' <=> Claims(q, i)
  BY <1>0, <1>1, <1>2 DEF Claims, Claiming
<1>4. Claims(p, h)' /\ h \in tail' .. head' - 1
  BY <1>0, <1>1, <1>2 DEF Claims, Claiming
<1>5. \A i \in tail .. head - 1 : i < h /\ i \in tail' .. head' - 1
  BY <1>0, <1>1, <1>2
<1>6. \A i \in tail' .. head' - 1 : i = h \/ i \in tail .. head - 1
  BY <1>0, <1>1, <1>2
<1>7. Live' = Live \cup {h} /\ \A i \in Live : i < h
  <2>1. \A i : i \in Live' <=> i \in Live \/ i = h
    BY <1>1, <1>3, <1>4, <1>5, <1>6, LiveIs, LiveIsNext
  <2>2. \A i \in Live : i < h
    BY <1>5, LiveIs
  <2> QED BY <2>1, <2>2
<1>8. \A i \in Live : Cells'[i] = Cells[i]
  <2> SUFFICES ASSUME NEW i \in Live
               PROVE  Cells'[i] = Cells[i]
    OBVIOUS
  <2>1. i \in tail .. head - 1 /\ i \in tail' .. head' - 1 /\ i # h
    BY <1>2, <1>5, LiveIs
  <2>2. \A q \in Producers : Claims(q, i)' <=> Claims(q, i)
    BY <1>3, <2>1
  <2> QED BY <1>1, <2>1, <2>2, CellsKept
<1>9. Cells'[h] = <<p, pushes[p]>>
  BY <1>1, <1>4, CellsFactNext DEF CellsAre
<1>a. Items' = Append(Items, <<p, pushes[p]>>)
  BY <1>7, <1>8, <1>9, ItemsAppended
<1>b. <<p, pushes[p]>> \in Producers \X (1 .. MaxPushes)
  BY <1>1, PushNumbered
<1>c. Pending' = Pending \cup {<<p, pushes[p]>>}
  <2>1. pc[p] \notin Claiming /\ pc'[p] \in Claiming /\ \A q \in Producers : q # p => pc'[q] = pc[q]
    BY <1>0, <1>1 DEF Claiming
  <2>2. \A v : v \in Pending' <=> v \in Pending \/ v = <<p, pushes[p]>>
    BY <1>1, <2>1, PendingIs, PendingIsNext
  <2> QED BY <2>2
<1> QED
  BY <1>1, <1>a, <1>b, <1>c DEF Abstract!Next, Abstract!Enqueue

\* Taking out the element at a place of a sequence.
LEMMA RemovedAt ==
    ASSUME NEW S, NEW s \in Seq(S), NEW i \in 1 .. Len(s), NEW t \in Seq(S),
           Len(t) = Len(s) - 1,
           \A k \in 1 .. Len(s) - 1 : t[k] = IF k < i THEN s[k] ELSE s[k + 1]
    PROVE  t = SubSeq(s, 1, i - 1) \o SubSeq(s, i + 1, Len(s))
<1> DEFINE a == SubSeq(s, 1, i - 1)
           b == SubSeq(s, i + 1, Len(s))
<1>1. Len(s) \in Nat /\ \A k \in 1 .. Len(s) : s[k] \in S
  OBVIOUS
<1>2. a \in Seq(S) /\ Len(a) = i - 1 /\ \A k \in 1 .. i - 1 : a[k] = s[k]
  BY <1>1, SubSeqProperties
<1>3. b \in Seq(S) /\ Len(b) = Len(s) - i /\ \A k \in 1 .. Len(s) - i : b[k] = s[i + k]
  BY <1>1, SubSeqProperties
<1>4. PICK r : r = a \o b
  OBVIOUS
<1> HIDE DEF a, b
<1>5. r \in Seq(S) /\ Len(r) = Len(a) + Len(b)
      /\ \A k \in 1 .. Len(a) + Len(b) : r[k] = IF k <= Len(a) THEN a[k] ELSE b[k - Len(a)]
  <2>1. /\ a \o b \in Seq(S) /\ Len(a \o b) = Len(a) + Len(b)
        /\ \A k \in 1 .. Len(a) + Len(b) :
              (a \o b)[k] = IF k <= Len(a) THEN a[k] ELSE b[k - Len(a)]
    BY <1>2, <1>3, ConcatProperties, Zenon
  <2> QED BY <1>4, <2>1, Zenon
<1>6. \A k \in 1 .. Len(s) - 1 :
        IF k <= Len(a) THEN k < i /\ k \in 1 .. i - 1
        ELSE ~ (k < i) /\ k - Len(a) \in 1 .. Len(s) - i /\ i + (k - Len(a)) = k + 1
  BY <1>1, <1>2
<1>7. Len(a) + Len(b) = Len(s) - 1
  BY <1>1, <1>2, <1>3
<1>8. \A k \in 1 .. Len(t) : t[k] = r[k]
  <2>1. \A k \in 1 .. Len(s) - 1 : r[k] = IF k < i THEN s[k] ELSE s[k + 1]
    BY <1>2, <1>3, <1>5, <1>6, <1>7
  <2> QED BY <2>1
<1>9. t = r
  BY <1>5, <1>7, <1>8, SeqEqual
<1> QED
  BY <1>4, <1>9 DEF a, b

\* "Revert turn on closure" takes the value out of the queue again.
LEMMA RevertItems ==
    ASSUME SlotsInv, SlotsInv', NEW p \in Producers, Revert(p)
    PROVE  Abstract!Next
<1>0. /\ DOMAIN pc = Producers /\ my_head \in [Producers -> Nat] /\ head \in Nat /\ tail \in Nat
      /\ sequence \in [0 .. capacity - 1 -> Nat]
  BY DEF SlotsInv, SlotsTypeOK
<1>1. PICK k \in Nat : k = my_head[p]
  BY <1>0
<1>2. /\ pc[p] = "revert"
      /\ sequence' = [sequence EXCEPT ![SlotOf(k)] = k]
      /\ UNCHANGED <<head, tail, data, pushes, received>>
  BY <1>1 DEF Revert
<1>3. PICK l \in {"loop", "idle"} :
         pc' = [pc EXCEPT ![p] = l] /\ my_head' = [my_head EXCEPT ![p] = 0]
  <2>1. Fail(p)
    BY DEF Revert
  <2> QED BY <2>1, FailedPush
<1>4. k \in tail .. head - 1 /\ Claims(p, k) /\ sequence[SlotOf(k)] = k
  BY <1>1, <1>2, ClaimInWindow DEF Claiming, Claims
<1>5. sequence' = sequence
  BY <1>0, <1>2, <1>4, PositionSlot
<1>6. \A i : i # k => \A q \in Producers : Claims(q, i)' <=> Claims(q, i)
  <2> SUFFICES ASSUME NEW i, i # k, NEW q \in Producers
               PROVE  Claims(q, i)' <=> Claims(q, i)
    OBVIOUS
  <2>1. CASE q = p
    BY <1>0, <1>1, <1>3, <2>1 DEF Claims, Claiming
  <2>2. CASE q # p
    BY <1>0, <1>3, <2>2 DEF Claims
  <2> QED BY <2>1, <2>2
<1>7. \A q \in Producers : ~ Claims(q, k)'
  <2> SUFFICES ASSUME NEW q \in Producers, Claims(q, k)'
               PROVE  FALSE
    OBVIOUS
  <2>1. q # p /\ Claims(q, k)
    BY <1>0, <1>3 DEF Claims, Claiming
  <2> QED BY <1>4, <2>1 DEF Claims, SlotsInv, ClaimsOK
<1>8. Live' = Live \ {k} /\ k \in Live
  <2>1. \A i : i # k => (i \in Live' <=> i \in Live)
    BY <1>2, <1>5, <1>6, LiveIs, LiveIsNext
  <2>2. k \in Live /\ k \notin Live'
    BY <1>4, <1>5, <1>7, LiveIs, LiveIsNext
  <2>3. \A i : i \in Live' <=> i \in Live /\ i # k
    BY <2>1, <2>2
  <2> QED BY <2>2, <2>3
<1>9. \A i \in Live \ {k} : Cells'[i] = Cells[i]
  <2> SUFFICES ASSUME NEW i \in Live \ {k}
               PROVE  Cells'[i] = Cells[i]
    OBVIOUS
  <2>1. i \in tail .. head - 1 /\ i \in tail' .. head' - 1 /\ i # k
    BY <1>2, LiveIs
  <2>2. \A q \in Producers : Claims(q, i)' <=> Claims(q, i)
    BY <1>6, <2>1
  <2> QED BY <1>2, <2>1, <2>2, CellsKept
<1>a. PICK s, t, r :
         /\ s = Items /\ t = Items' /\ r \in 1 .. Len(s) /\ Len(s) \in Nat
         /\ s \in Seq(Contained) /\ t \in Seq(Contained) /\ Len(t) = Len(s) - 1
         /\ \A j \in 1 .. Len(s) - 1 : t[j] = IF j < r THEN s[j] ELSE s[j + 1]
         /\ s[r] = Cells[k]
  BY <1>8, <1>9, ItemsWithout
<1>b. t = SubSeq(s, 1, r - 1) \o SubSeq(s, r + 1, Len(s))
  <2>1. s \in Seq(Contained) /\ t \in Seq(Contained) /\ r \in 1 .. Len(s)
    BY <1>a
  <2>2. Len(t) = Len(s) - 1
    BY <1>a
  <2>3. \A j \in 1 .. Len(s) - 1 : t[j] = IF j < r THEN s[j] ELSE s[j + 1]
    BY <1>a
  <2> QED BY <2>1, <2>2, <2>3, RemovedAt
<1>c. r \in DOMAIN s
  BY <1>a
<1>d. Items' = Abstract!RemoveAt(Items, r)
  BY <1>a, <1>b, Zenon DEF Abstract!RemoveAt
<1>f. Items[r] = <<p, pushes[p]>>
  <2>1. Cells[k] = <<p, pushes[p]>>
    BY <1>4, CellsFact DEF CellsAre
  <2> QED BY <1>a, <2>1
<1>g. <<p, pushes[p]>> \in Pending /\ Pending' = Pending \ {<<p, pushes[p]>>}
  <2>1. pc[p] \in Claiming /\ pc'[p] \notin Claiming /\ \A q \in Producers : q # p => pc'[q] = pc[q]
    BY <1>0, <1>2, <1>3 DEF Claiming
  <2> QED BY <1>2, <2>1, PendingLess
<1>e. Abstract!Withdraw(r)
  BY <1>2, <1>d, <1>f, <1>g, Zenon DEF Abstract!Withdraw
<1> QED
  BY <1>a, <1>c, <1>e DEF Abstract!Next

\* The consumer takes the first value.
LEMMA TakeItems ==
    ASSUME SlotsInv, SlotsInv', PopTake
    PROVE  Abstract!Next
<1>0. /\ head \in Nat /\ tail \in Nat /\ my_head \in [Producers -> Nat]
      /\ DOMAIN data = 0 .. capacity - 1
  BY DEF SlotsInv, SlotsTypeOK
<1>1. /\ cpc = "take" /\ tail' = tail + 1
      /\ received' = Append(received, data[SlotOf(tail)])
      /\ data' = [data EXCEPT ![SlotOf(tail)] = NoValue]
      /\ UNCHANGED <<head, sequence, pc, my_head, pushes>>
  BY DEF PopTake, prodVars
<1>2. tail < head /\ sequence[SlotOf(tail)] = tail + 1
  BY <1>1 DEF SlotsInv, WindowOK
<1>3. PICK x \in Nat : x = tail
  BY <1>0
<1>4. x \in tail .. head - 1 /\ \A i \in tail .. head - 1 : i # x <=> i \in tail' .. head' - 1
  BY <1>0, <1>1, <1>2, <1>3
<1>5. \A i \in tail' .. head' - 1 : i \in tail .. head - 1 /\ x < i
  BY <1>0, <1>1, <1>3
<1>6. \A q \in Producers : \A i : Claims(q, i)' <=> Claims(q, i)
  BY <1>1 DEF Claims
<1>7. \A q \in Producers : ~ Claims(q, x)
  <2> SUFFICES ASSUME NEW q \in Producers, Claims(q, x)
               PROVE  FALSE
    OBVIOUS
  <2>1. sequence[SlotOf(x)] = x
    BY ClaimInWindow DEF Claims
  <2> QED BY <1>2, <1>3, <2>1
<1>8. Live' = Live \ {x} /\ x \in Live
  <2>1. x \in Live /\ x \notin Live'
    BY <1>2, <1>3, <1>4, LiveIs, LiveIsNext
  <2>2. \A i : i # x => (i \in Live' <=> i \in Live)
    BY <1>1, <1>4, <1>5, <1>6, LiveIs, LiveIsNext
  <2>3. \A i : i \in Live' <=> i \in Live /\ i # x
    BY <2>1, <2>2
  <2> QED BY <2>1, <2>3
<1>9. \A i \in Live \ {x} : Cells'[i] = Cells[i]
  <2> SUFFICES ASSUME NEW i \in Live \ {x}
               PROVE  Cells'[i] = Cells[i]
    OBVIOUS
  <2>1. i \in tail .. head - 1 /\ i \in tail' .. head' - 1 /\ i # x
    BY <1>4, LiveIs
  <2>2. SlotOf(i) # SlotOf(x) /\ SlotOf(i) \in 0 .. capacity - 1
    BY <1>4, <2>1, WindowApart
  <2>3. data'[SlotOf(i)] = data[SlotOf(i)]
    BY <1>0, <1>1, <1>3, <2>2
  <2> QED BY <1>1, <1>6, <2>1, <2>3, CellsKept
<1>a. Cells[x] = data[SlotOf(x)]
  BY <1>4, <1>7, CellsFact DEF CellsAre
<1>b. Rank(Live, x) = 1
  <2>1. \A i \in Live : i <= x <=> i = x
    <3> SUFFICES ASSUME NEW i \in Live
                 PROVE  i <= x <=> i = x
      OBVIOUS
    <3>1. i \in tail .. head - 1
      BY LiveIs
    <3> QED BY <1>0, <1>3, <3>1
  <2>2. {i \in Live : i <= x} = {x}
    BY <1>8, <2>1
  <2> QED BY <2>2, FS_Singleton DEF Rank
<1>c. PICK s, t :
         /\ s = Items /\ t = Items' /\ 1 \in 1 .. Len(s) /\ Len(s) \in Nat
         /\ s \in Seq(Contained) /\ t \in Seq(Contained) /\ Len(t) = Len(s) - 1
         /\ \A j \in 1 .. Len(s) - 1 : t[j] = IF j < 1 THEN s[j] ELSE s[j + 1]
         /\ s[1] = data[SlotOf(x)]
  <2>1. /\ Rank(Live, x) \in 1 .. Len(Items) /\ Len(Items) \in Nat
        /\ Items \in Seq(Contained) /\ Items' \in Seq(Contained)
        /\ Len(Items') = Len(Items) - 1
        /\ \A k \in 1 .. Len(Items) - 1 :
              Items'[k] = IF k < Rank(Live, x) THEN Items[k] ELSE Items[k + 1]
        /\ Items[Rank(Live, x)] = Cells[x]
    BY <1>8, <1>9, ItemsWithout
  <2> QED BY <1>a, <1>b, <2>1
<1>d. s # <<>> /\ Head(s) = data[SlotOf(x)] /\ t = Tail(s)
  <2>1. s # <<>>
    BY <1>c
  <2>2. Tail(s) \in Seq(Contained) /\ Len(Tail(s)) = Len(s) - 1
        /\ \A j \in 1 .. Len(s) - 1 : Tail(s)[j] = s[j + 1]
    BY <1>c, <2>1, HeadTailProperties
  <2>3. \A j \in 1 .. Len(t) : t[j] = Tail(s)[j]
    BY <1>c, <2>2
  <2>4. t = Tail(s)
    BY <1>c, <2>2, <2>3, SeqEqual
  <2> QED BY <1>c, <2>1, <2>4
<1>e. Pending' = Pending
  BY <1>1, PendingKept
<1> QED
  BY <1>1, <1>3, <1>c, <1>d, <1>e DEF Abstract!Next, Abstract!Dequeue

LEMMA HoldingStep ==
    ASSUME SlotsInv, Holding, [Next]_vars
    PROVE  Holding'
<1>0. /\ DOMAIN pc = Producers /\ my_head \in [Producers -> Nat] /\ pushes \in [Producers -> Nat]
      /\ DOMAIN data = 0 .. capacity - 1
  BY DEF SlotsInv, SlotsTypeOK
<1>1. CASE UNCHANGED <<data, pc, my_head, pushes>>
  BY <1>1 DEF Holding
<1>2. ASSUME NEW p \in Producers, NEW block \in BOOLEAN, Push(p, block)
      PROVE  Holding'
  <2>1. pushes[p] \in Nat /\ pushes[p] < MaxPushes /\ pushes' = [pushes EXCEPT ![p] = @ + 1]
    BY <1>0, <1>2 DEF Push, BeginPush
  <2>2. UNCHANGED <<data, my_head>> /\ pc'[p] # "publish" /\ \A q \in Producers : q # p => pc'[q] = pc[q]
    BY <1>0, <1>2 DEF Push, Goto
  <2>3. pushes'[p] = pushes[p] + 1 /\ \A q \in Producers : q # p => pushes'[q] = pushes[q]
    BY <1>0, <2>1
  <2>4. pushes'[p] <= MaxPushes /\ pushes'[p] > 0
    BY <2>1, <2>3, PushAssumption
  <2> QED BY <2>2, <2>3, <2>4 DEF Holding
<1>3. ASSUME NEW p \in Producers, WriteData(p)
      PROVE  Holding'
  <2>1. /\ pc[p] = "write" /\ pc' = [pc EXCEPT ![p] = "publish"]
        /\ data' = [data EXCEPT ![SlotOf(my_head[p])] = <<p, pushes[p]>>]
        /\ UNCHANGED <<my_head, pushes>>
    BY <1>3 DEF WriteData, Goto, Value
  <2>2. my_head[p] \in tail .. head - 1
    BY <2>1, ClaimInWindow DEF Claiming
  <2>3. SlotOf(my_head[p]) \in 0 .. capacity - 1
    BY <1>0, PositionSlot
  <2>4. data'[SlotOf(my_head[p])] = <<p, pushes[p]>>
    BY <1>0, <2>1, <2>3
  <2>5. ASSUME NEW q \in Producers, q # p, pc[q] = "publish"
        PROVE  data'[SlotOf(my_head[q])] = data[SlotOf(my_head[q])]
    <3>1. my_head[q] \in tail .. head - 1
      BY <2>5, ClaimInWindow DEF Claiming
    <3>2. my_head[q] # my_head[p]
      BY <2>1, <2>5 DEF SlotsInv, ClaimsOK, Claiming
    <3>3. SlotOf(my_head[q]) # SlotOf(my_head[p]) /\ SlotOf(my_head[q]) \in 0 .. capacity - 1
      BY <2>2, <3>1, <3>2, WindowApart
    <3> QED BY <1>0, <2>1, <3>3
  <2>6. pc'[p] = "publish" /\ \A q \in Producers : q # p => pc'[q] = pc[q]
    BY <1>0, <2>1
  <2> QED BY <2>1, <2>4, <2>5, <2>6 DEF Holding
<1>4. ASSUME NEW p \in Producers,
             \/ PushLoop(p) \/ LoadHead(p) \/ LoadSeq(p) \/ Claim(p) \/ CheckClosed(p)
             \/ Revert(p) \/ Publish(p) \/ CountPush(p)
      PROVE  Holding'
  <2>1. UNCHANGED <<data, pushes>> /\ pc[p] # "idle"
    BY <1>4 DEF PushLoop, LoadHead, LoadSeq, Claim, CheckClosed, Revert, Publish, CountPush
  <2>2. /\ pc'[p] # "publish"
        /\ \A q \in Producers : q # p => pc'[q] = pc[q] /\ my_head'[q] = my_head[q]
    <3> USE <1>0 DEF Goto, Return, Fail
    <3>1. CASE PushLoop(p) \/ LoadHead(p)
      BY <3>1 DEF PushLoop, LoadHead
    <3>2. CASE LoadSeq(p)
      BY <3>2 DEF LoadSeq
    <3>3. CASE Claim(p) \/ CheckClosed(p)
      BY <3>3 DEF Claim, CheckClosed
    <3>4. CASE Revert(p)
      BY <3>4 DEF Revert
    <3>5. CASE Publish(p) \/ CountPush(p)
      BY <3>5 DEF Publish, CountPush
    <3> QED BY <1>4, <3>1, <3>2, <3>3, <3>4, <3>5
  <2> QED BY <2>1, <2>2 DEF Holding
<1>5. CASE PopTake
  <2>1. /\ cpc = "take" /\ data' = [data EXCEPT ![SlotOf(tail)] = NoValue]
        /\ UNCHANGED <<pc, my_head, pushes>>
    BY <1>5 DEF PopTake, prodVars
  <2>2. /\ tail \in Nat /\ head \in Nat /\ tail < head /\ sequence[SlotOf(tail)] = tail + 1
    BY <2>1 DEF SlotsInv, WindowOK, SlotsTypeOK
  <2>3. ASSUME NEW q \in Producers, pc[q] = "publish"
        PROVE  data'[SlotOf(my_head[q])] = data[SlotOf(my_head[q])]
    <3>1. my_head[q] \in tail .. head - 1 /\ sequence[SlotOf(my_head[q])] = my_head[q]
      BY <2>3, ClaimInWindow DEF Claiming
    <3>2. my_head[q] # tail /\ tail \in tail .. head - 1
      BY <2>2, <3>1
    <3>3. SlotOf(my_head[q]) # SlotOf(tail) /\ SlotOf(my_head[q]) \in 0 .. capacity - 1
      BY <3>1, <3>2, WindowApart
    <3> QED BY <1>0, <2>1, <3>3
  <2> QED BY <2>1, <2>3 DEF Holding
<1>6. CASE PopLoad \/ PopRelease \/ PopCount \/ Close \/ Finished \/ UNCHANGED vars
  BY <1>1, <1>6 DEF PopLoad, PopRelease, PopCount, Close, Finished, vars, prodVars
<1> QED
  BY <1>2, <1>3, <1>4, <1>5, <1>6 DEF Next, PushStep, PopStep

\* Every step of MPSCQueue is one of the abstract queue or changes nothing of
\* it.
LEMMA ItemsStep ==
    ASSUME SlotsInv, SlotsInv', Holding, [Next]_vars
    PROVE  Abstract!Next \/ Unseen
<1>1. ASSUME NEW p \in Producers, (\E block \in BOOLEAN : Push(p, block)) \/ PushStep(p)
      PROVE  Abstract!Next \/ Unseen
  <2>1. CASE Claim(p) /\ head' # head
    BY <2>1, ClaimItems
  <2>2. CASE Revert(p)
    BY <2>2, RevertItems
  <2>3. CASE Publish(p)
    BY <2>3, PublishItems
  <2>4. CASE WriteData(p)
    BY <2>4, WriteItems
  <2>5. CASE \/ \E block \in BOOLEAN : Push(p, block)
             \/ PushLoop(p) \/ LoadHead(p) \/ LoadSeq(p) \/ CheckClosed(p)
             \/ Claim(p) /\ head' = head
             \/ CountPush(p)
    BY <2>5, QuietItems
  <2> QED BY <1>1, <2>1, <2>2, <2>3, <2>4, <2>5 DEF PushStep
<1>2. CASE PopStep
  BY <1>2, QuietPopItems, TakeItems DEF PopStep
<1>3. CASE Close
  BY <1>3, QuietPopItems
<1>4. CASE Finished \/ UNCHANGED vars
  <2>1. UNCHANGED <<head, tail, data, sequence, pc, my_head, pushes, received>>
    BY <1>4 DEF Finished, vars, prodVars
  <2> QED BY <2>1, ItemsUntouched DEF Unseen
<1> QED
  BY <1>1, <1>2, <1>3, <1>4 DEF Next

\* In a program whose queue is another one there is nothing in the slots.
NothingLive == Live = {} /\ Items = <<>> /\ Pending = {} /\ received = <<>>
NothingClaimed ==
    head = 0 /\ tail = 0 /\ received = <<>> /\ \A p \in Producers : pc[p] = "idle"

LEMMA EmptyWindow ==
    NothingClaimed => NothingLive
<1> SUFFICES ASSUME NothingClaimed
             PROVE  NothingLive
  OBVIOUS
<1>0. head = 0 /\ tail = 0 /\ received = <<>>
  BY DEF NothingClaimed
<1>1. Live = {}
  BY <1>0, LiveIs
<1>2. Items = <<>>
  BY <1>1, FS_EmptySet DEF Items
<1>3. Pending = {}
  BY PendingIs DEF NothingClaimed, Claiming
<1> QED
  BY <1>0, <1>1, <1>2, <1>3 DEF NothingLive

LEMMA EmptyWindowNext ==
    NothingClaimed' => NothingLive'
  BY EmptyWindow, PTL

ItemsPart ==
    IF kind = "slots"
    THEN SlotsInv /\ Holding
    ELSE NothingClaimed

LEMMA ItemsPartStep ==
    ASSUME ItemsPart, [QueuesNext]_queueVars
    PROVE  ItemsPart' /\ [Abstract!Next]_<<Items, Pending, received>>
<1>0. kind' = kind
  BY Zenon DEF QueuesNext, queueVars, RingStep, ListStep, SlotStep
<1>1. CASE kind = "slots"
  <2>1. [Next]_vars
    <3>1. CASE UNCHANGED queueVars
      BY <3>1 DEF queueVars, slotVars, vars, prodVars
    <3>2. CASE QueuesNext
      BY <1>1, <3>2, Zenon DEF QueuesNext, RingStep, ListStep, SlotStep, Next, PushStep, PopStep
    <3> QED BY <3>1, <3>2
  <2>2. SlotsInv /\ Holding
    BY <1>1 DEF ItemsPart
  <2>3. SlotsInv' /\ Holding'
    BY <2>1, <2>2, SlotsInvStep, HoldingStep
  <2>4. Abstract!Next \/ Unseen
    BY <2>1, <2>2, <2>3, ItemsStep
  <2> QED BY <1>0, <1>1, <2>3, <2>4 DEF ItemsPart, Unseen
<1>2. CASE kind # "slots"
  <2>1. UNCHANGED slotVars
    <3>1. CASE UNCHANGED queueVars
      BY <3>1 DEF queueVars
    <3>2. CASE QueuesNext
      BY <1>2, <3>2, Zenon DEF QueuesNext, RingStep, ListStep, SlotStep
    <3> QED BY <3>1, <3>2
  <2>2. NothingClaimed
    BY <1>2 DEF ItemsPart
  <2>3. NothingClaimed'
    BY <2>1, <2>2 DEF slotVars, prodVars, NothingClaimed
  <2>4. UNCHANGED <<Items, Pending, received>>
    BY <2>2, <2>3, EmptyWindow, EmptyWindowNext DEF NothingLive
  <2> QED BY <1>0, <1>2, <2>3, <2>4 DEF ItemsPart
<1> QED
  BY <1>1, <1>2

\* MPSCQueue implements the queue, for every capacity, any number of producers
\* and any number of pushes: try_pop() returns the values in the order in which
\* the compare-exchanges of head_ gave them their positions, none twice and none
\* overwritten by a producer a lap ahead; a push that finds the queue closed
\* after its claim takes its own value out again and nothing else, and no value
\* that was published is taken back.
THEOREM SlotsImplement == QueuesSpec => ImplementsQueue
<1>1. QueuesInit => ItemsPart /\ Abstract!Init
  <2> SUFFICES ASSUME QueuesInit
               PROVE  ItemsPart /\ Abstract!Init
    OBVIOUS
  <2>1. Init /\ NothingClaimed
    BY DEF QueuesInit, Init, NothingClaimed
  <2>2. SlotsInv
    BY <2>1, SlotsInvInit
  <2>3. Holding
    BY <2>1, PushAssumption DEF Init, PushesInit, Holding
  <2>4. Items = <<>> /\ Pending = {} /\ received = <<>>
    BY <2>1, EmptyWindow DEF NothingLive
  <2> QED BY <2>1, <2>2, <2>3, <2>4 DEF ItemsPart, Abstract!Init
<1>2. ItemsPart /\ [QueuesNext]_queueVars => ItemsPart' /\ [Abstract!Next]_<<Items, Pending, received>>
  BY ItemsPartStep
<1> QED
  BY <1>1, <1>2, PTL DEF QueuesSpec, ImplementsQueue, Abstract!Spec

-----------------------------------------------------------------------------
(* MPSCIntrusiveQueue: what links lead to *)

\* The nodes that the links R lead to from n.
Reach(R, n) ==
    {m \in Nodes :
        \A S \in SUBSET Nodes : n \in S /\ (\A x \in S : R[x] \subseteq S) => m \in S}

LEMMA ReachIs ==
    ASSUME NEW R \in [Nodes -> SUBSET Nodes], NEW n \in Nodes
    PROVE  /\ n \in Reach(R, n) /\ Reach(R, n) \in SUBSET Nodes
           /\ \A x \in Reach(R, n) : R[x] \subseteq Reach(R, n)
<1>1. n \in Reach(R, n) /\ Reach(R, n) \in SUBSET Nodes
  BY DEF Reach
<1>2. ASSUME NEW x \in Reach(R, n), NEW y \in R[x]
      PROVE  y \in Reach(R, n)
  <2>1. x \in Nodes /\ y \in Nodes
    BY <1>1
  <2> SUFFICES ASSUME NEW S \in SUBSET Nodes, n \in S, \A z \in S : R[z] \subseteq S
               PROVE  y \in S
    BY <2>1 DEF Reach
  <2>2. x \in S
    BY DEF Reach
  <2> QED BY <1>2, <2>2
<1> QED
  BY <1>1, <1>2

LEMMA ReachLeast ==
    ASSUME NEW R, NEW n, NEW S \in SUBSET Nodes, n \in S, \A x \in S : R[x] \subseteq S
    PROVE  Reach(R, n) \in SUBSET S
  BY DEF Reach

LEMMA ReachTransitive ==
    ASSUME NEW R \in [Nodes -> SUBSET Nodes], NEW n \in Nodes, NEW m \in Reach(R, n)
    PROVE  Reach(R, m) \in SUBSET Reach(R, n)
<1>1. Reach(R, n) \in SUBSET Nodes /\ \A x \in Reach(R, n) : R[x] \subseteq Reach(R, n)
  BY ReachIs
<1> QED
  BY <1>1, ReachLeast

LEMMA ReachEnd ==
    ASSUME NEW R \in [Nodes -> SUBSET Nodes], NEW n \in Nodes, R[n] = {}
    PROVE  Reach(R, n) = {n}
<1>1. Reach(R, n) \in SUBSET {n}
  <2>1. {n} \in SUBSET Nodes /\ \A x \in {n} : R[x] \subseteq {n}
    OBVIOUS
  <2>2. n \in {n}
    OBVIOUS
  <2> QED BY <2>1, <2>2, ReachLeast
<1>2. n \in Reach(R, n)
  BY ReachIs
<1> QED
  BY <1>1, <1>2

LEMMA ReachStep ==
    ASSUME NEW R \in [Nodes -> SUBSET Nodes], NEW n \in Nodes, NEW m \in Nodes, R[n] = {m}
    PROVE  Reach(R, n) = {n} \cup Reach(R, m)
<1>1. n \in Reach(R, n) /\ m \in Reach(R, n)
  BY ReachIs
<1>2. Reach(R, m) \in SUBSET Reach(R, n)
  BY <1>1, ReachTransitive
<1>3. m \in Reach(R, m) /\ Reach(R, m) \in SUBSET Nodes
      /\ \A x \in Reach(R, m) : R[x] \subseteq Reach(R, m)
  BY ReachIs
<1>4. PICK S \in SUBSET Nodes : S = {n} \cup Reach(R, m)
  BY <1>3
<1>5. n \in S /\ \A x \in S : R[x] \subseteq S
  BY <1>3, <1>4
<1>6. Reach(R, n) \in SUBSET S
  BY <1>5, ReachLeast
<1> QED
  BY <1>1, <1>2, <1>4, <1>6

\* Links elsewhere do not matter.
LEMMA ReachSame ==
    ASSUME NEW R \in [Nodes -> SUBSET Nodes], NEW Q \in [Nodes -> SUBSET Nodes], NEW n \in Nodes,
           \A x \in Reach(R, n) : Q[x] = R[x]
    PROVE  Reach(Q, n) = Reach(R, n)
<1>1. n \in Reach(R, n) /\ Reach(R, n) \in SUBSET Nodes
      /\ \A x \in Reach(R, n) : R[x] \subseteq Reach(R, n)
  BY ReachIs
<1>2. \A x \in Reach(R, n) : Q[x] \subseteq Reach(R, n)
  BY <1>1
<1>3. Reach(Q, n) \in SUBSET Reach(R, n)
  BY <1>1, <1>2, ReachLeast
<1>4. n \in Reach(Q, n) /\ Reach(Q, n) \in SUBSET Nodes
      /\ \A x \in Reach(Q, n) : Q[x] \subseteq Reach(Q, n)
  BY ReachIs
<1>5. \A x \in Reach(Q, n) : R[x] \subseteq Reach(Q, n)
  BY <1>3, <1>4
<1>6. Reach(R, n) \in SUBSET Reach(Q, n)
  BY <1>4, <1>5, ReachLeast
<1> QED
  BY <1>3, <1>6

\* A new link from a last node h to another one that leads nowhere.
LEMMA ReachGrows ==
    ASSUME NEW R \in [Nodes -> SUBSET Nodes], NEW Q \in [Nodes -> SUBSET Nodes],
           NEW h \in Nodes, NEW e \in Nodes, h # e, R[h] = {}, R[e] = {},
           Q[h] = {e}, \A y \in Nodes \ {h} : Q[y] = R[y],
           NEW n \in Nodes, h \in Reach(R, n)
    PROVE  Reach(Q, n) = Reach(R, n) \cup {e}
<1>1. n \in Reach(R, n) /\ Reach(R, n) \in SUBSET Nodes
      /\ \A x \in Reach(R, n) : R[x] \subseteq Reach(R, n)
  BY ReachIs
<1>2. PICK S \in SUBSET Nodes : S = Reach(R, n) \cup {e}
  BY <1>1
<1>3. n \in S /\ \A x \in S : Q[x] \subseteq S
  BY <1>1, <1>2
<1>4. Reach(Q, n) \in SUBSET S
  BY <1>3, ReachLeast
<1>5. n \in Reach(Q, n) /\ Reach(Q, n) \in SUBSET Nodes
      /\ \A x \in Reach(Q, n) : Q[x] \subseteq Reach(Q, n)
  BY ReachIs
<1>6. \A x \in Reach(Q, n) : R[x] \subseteq Reach(Q, n)
  BY <1>5
<1>7. Reach(R, n) \in SUBSET Reach(Q, n)
  BY <1>5, <1>6, ReachLeast
<1>8. e \in Reach(Q, n)
  BY <1>5, <1>7
<1> QED
  BY <1>2, <1>4, <1>7, <1>8

-----------------------------------------------------------------------------
(* Nodes in a line *)

\* From x the links lead along one line to h.
IsLine(R, x, h) ==
    /\ R \in [Nodes -> SUBSET Nodes] /\ x \in Nodes /\ h \in Nodes
    /\ R[h] = {}
    /\ \A n \in Reach(R, x) : h \in Reach(R, n)
    /\ \A n \in Reach(R, x) : \A m \in R[n] : R[n] = {m} /\ n \notin Reach(R, m)
    /\ \A m, n \in Reach(R, x) : m \in Reach(R, n) \/ n \in Reach(R, m)

LEMMA LineSame ==
    ASSUME NEW R, NEW x, NEW h, IsLine(R, x, h), NEW Q \in [Nodes -> SUBSET Nodes],
           \A n \in Reach(R, x) : Q[n] = R[n]
    PROVE  IsLine(Q, x, h) /\ \A n \in Reach(R, x) : Reach(Q, n) = Reach(R, n)
<1>1. R \in [Nodes -> SUBSET Nodes] /\ x \in Nodes /\ h \in Nodes
  BY DEF IsLine
<1>2. x \in Reach(R, x) /\ Reach(R, x) \in SUBSET Nodes
      /\ \A n \in Reach(R, x) : R[n] \subseteq Reach(R, x)
  BY <1>1, ReachIs
<1>3. ASSUME NEW n \in Reach(R, x)
      PROVE  Reach(Q, n) = Reach(R, n)
  <2>1. Reach(R, n) \in SUBSET Reach(R, x) /\ n \in Nodes
    BY <1>1, <1>2, ReachTransitive
  <2>2. \A y \in Reach(R, n) : Q[y] = R[y]
    BY <2>1
  <2> QED BY <1>1, <2>1, <2>2, ReachSame
<1>4. Reach(Q, x) = Reach(R, x)
  BY <1>2, <1>3
<1>5. h \in Reach(R, x) /\ Q[h] = {}
  BY <1>2 DEF IsLine
<1>6. \A n \in Reach(Q, x) : h \in Reach(Q, n)
  BY <1>3, <1>4 DEF IsLine
<1>7. \A n \in Reach(Q, x) : \A m \in Q[n] : Q[n] = {m} /\ n \notin Reach(Q, m)
  <2> SUFFICES ASSUME NEW n \in Reach(R, x), NEW m \in R[n]
               PROVE  R[n] = {m} /\ n \notin Reach(Q, m)
    BY <1>4
  <2>1. m \in Reach(R, x)
    BY <1>2
  <2>2. Reach(Q, m) = Reach(R, m)
    BY <1>3, <2>1
  <2> QED BY <2>2 DEF IsLine
<1>8. \A m, n \in Reach(Q, x) : m \in Reach(Q, n) \/ n \in Reach(Q, m)
  BY <1>3, <1>4 DEF IsLine
<1> QED
  BY <1>1, <1>3, <1>5, <1>6, <1>7, <1>8 DEF IsLine

\* A node is put after the last.
LEMMA LineGrows ==
    ASSUME NEW R, NEW x, NEW h, IsLine(R, x, h), NEW e \in Nodes, e \notin Reach(R, x),
           R[e] = {}, NEW Q \in [Nodes -> SUBSET Nodes], Q[h] = {e},
           \A y \in Nodes \ {h} : Q[y] = R[y]
    PROVE  /\ IsLine(Q, x, e) /\ Reach(Q, e) = {e}
           /\ \A n \in Reach(R, x) : Reach(Q, n) = Reach(R, n) \cup {e}
<1>1. R \in [Nodes -> SUBSET Nodes] /\ x \in Nodes /\ h \in Nodes /\ R[h] = {}
  BY DEF IsLine
<1>2. x \in Reach(R, x) /\ Reach(R, x) \in SUBSET Nodes
      /\ \A n \in Reach(R, x) : R[n] \subseteq Reach(R, x)
  BY <1>1, ReachIs
<1>3. h \in Reach(R, x) /\ h # e
  BY <1>2 DEF IsLine
<1>4. Q[e] = {}
  BY <1>3
<1>5. Reach(Q, e) = {e}
  BY <1>4, ReachEnd
<1>6. ASSUME NEW n \in Reach(R, x)
      PROVE  Reach(Q, n) = Reach(R, n) \cup {e}
  <2>1. n \in Nodes /\ h \in Reach(R, n)
    BY <1>2 DEF IsLine
  <2> QED BY <1>1, <1>3, <1>4, <2>1, ReachGrows
<1>7. Reach(Q, x) = Reach(R, x) \cup {e}
  BY <1>2, <1>6
<1>8. \A n \in Reach(Q, x) : e \in Reach(Q, n)
  BY <1>5, <1>6, <1>7
<1>9. \A n \in Reach(Q, x) : \A m \in Q[n] : Q[n] = {m} /\ n \notin Reach(Q, m)
  <2> SUFFICES ASSUME NEW n \in Reach(R, x), NEW m \in Q[n]
               PROVE  Q[n] = {m} /\ n \notin Reach(Q, m)
    BY <1>4, <1>7
  <2>1. n # e
    OBVIOUS
  <2>2. CASE n = h
    BY <1>4, <1>5, <2>1, <2>2
  <2>3. CASE n # h
    <3>1. Q[n] = R[n] /\ m \in R[n]
      BY <1>2, <1>4, <2>3
    <3>2. m \in Reach(R, x) /\ R[n] = {m} /\ n \notin Reach(R, m)
      BY <1>2, <3>1 DEF IsLine
    <3>3. Reach(Q, m) = Reach(R, m) \cup {e}
      BY <1>6, <3>2
    <3> QED BY <2>1, <3>1, <3>2, <3>3
  <2> QED BY <2>2, <2>3
<1>a. ASSUME NEW m \in Reach(Q, x), NEW n \in Reach(Q, x)
      PROVE  m \in Reach(Q, n) \/ n \in Reach(Q, m)
  <2>1. CASE m = e \/ n = e
    BY <1>8, <2>1
  <2>2. CASE m \in Reach(R, x) /\ n \in Reach(R, x)
    <3>1. m \in Reach(R, n) \/ n \in Reach(R, m)
      BY <2>2 DEF IsLine
    <3> QED BY <1>6, <2>2, <3>1
  <2> QED BY <1>7, <2>1, <2>2
<1> QED
  BY <1>1, <1>4, <1>5, <1>6, <1>8, <1>9, <1>a DEF IsLine

\* The first node is left behind.
LEMMA LineMoves ==
    ASSUME NEW R, NEW x, NEW h, IsLine(R, x, h), NEW m \in R[x]
    PROVE  /\ IsLine(R, m, h) /\ x \notin Reach(R, m)
           /\ Reach(R, x) = {x} \cup Reach(R, m)
<1>1. R \in [Nodes -> SUBSET Nodes] /\ x \in Nodes /\ h \in Nodes
  BY DEF IsLine
<1>2. x \in Reach(R, x) /\ m \in Nodes
  BY <1>1, ReachIs
<1>3. R[x] = {m} /\ x \notin Reach(R, m)
  BY <1>2 DEF IsLine
<1>4. Reach(R, x) = {x} \cup Reach(R, m)
  BY <1>1, <1>2, <1>3, ReachStep
<1>5. \A n \in Reach(R, m) : n \in Reach(R, x)
  BY <1>4
<1> QED
  BY <1>1, <1>2, <1>3, <1>4, <1>5 DEF IsLine

\* Two nodes of a line are not after each other.
LEMMA LineOrder ==
    ASSUME NEW R, NEW x, NEW h, IsLine(R, x, h), NEW m \in Reach(R, x), NEW n \in Reach(R, x),
           m \in Reach(R, n), n \in Reach(R, m)
    PROVE  m = n
<1>1. R \in [Nodes -> SUBSET Nodes] /\ x \in Nodes
  BY DEF IsLine
<1>2. m \in Nodes /\ n \in Nodes /\ R[n] \in SUBSET Nodes
  BY <1>1, ReachIs
<1>3. CASE R[n] = {}
  <2>1. Reach(R, n) = {n}
    BY <1>1, <1>2, <1>3, ReachEnd
  <2> QED BY <2>1
<1>4. CASE R[n] # {}
  <2>1. PICK p \in Nodes : p \in R[n]
    BY <1>2, <1>4
  <2>2. R[n] = {p} /\ n \notin Reach(R, p)
    BY <2>1 DEF IsLine
  <2>3. Reach(R, n) = {n} \cup Reach(R, p)
    BY <1>1, <1>2, <2>1, <2>2, ReachStep
  <2>4. m \notin Reach(R, p)
    <3> SUFFICES ASSUME m \in Reach(R, p)
                 PROVE  FALSE
      OBVIOUS
    <3>1. Reach(R, m) \in SUBSET Reach(R, p)
      BY <1>1, <2>1, ReachTransitive
    <3> QED BY <2>2, <3>1
  <2> QED BY <2>3, <2>4
<1> QED
  BY <1>3, <1>4

-----------------------------------------------------------------------------
(* The entries of a line and their order *)

Behind(R, n) == Reach(R, n) \cap Entries

\* How many entries there are before e, counted from 1.
Place(R, x, e) == Cardinality(Behind(R, x) \ Behind(R, e)) + 1

LEMMA BehindFinite ==
    \A R, n : /\ IsFiniteSet(Behind(R, n)) /\ Cardinality(Behind(R, n)) \in Nat
              /\ \A e : /\ IsFiniteSet(Behind(R, n) \ Behind(R, e))
                        /\ Cardinality(Behind(R, n) \ Behind(R, e)) \in Nat
<1> SUFFICES ASSUME NEW R, NEW n, NEW e
             PROVE  /\ IsFiniteSet(Behind(R, n)) /\ Cardinality(Behind(R, n)) \in Nat
                    /\ IsFiniteSet(Behind(R, n) \ Behind(R, e))
                    /\ Cardinality(Behind(R, n) \ Behind(R, e)) \in Nat
  OBVIOUS
<1>1. Behind(R, n) \in SUBSET Entries /\ Behind(R, n) \ Behind(R, e) \in SUBSET Entries
  BY DEF Behind
<1>2. IsFiniteSet(Entries)
  BY IntrusiveAssumption
<1>3. IsFiniteSet(Behind(R, n)) /\ IsFiniteSet(Behind(R, n) \ Behind(R, e))
  BY <1>1, <1>2, FS_Subset
<1> QED
  BY <1>3, FS_CardinalityType

\* The places of the entries are the numbers from 1 on, one for each.
LEMMA PlacesAre ==
    ASSUME NEW R, NEW x, NEW h, IsLine(R, x, h)
    PROVE  /\ \A e \in Behind(R, x) : Place(R, x, e) \in 1 .. Cardinality(Behind(R, x))
           /\ \A d, e \in Behind(R, x) : Place(R, x, d) = Place(R, x, e) => d = e
           /\ \A k \in 1 .. Cardinality(Behind(R, x)) : \E e \in Behind(R, x) : Place(R, x, e) = k
<1> DEFINE B == Behind(R, x)
           c == Cardinality(B)
           f == [e \in B |-> Place(R, x, e)]
<1>0. R \in [Nodes -> SUBSET Nodes] /\ x \in Nodes
  BY DEF IsLine
<1>1. IsFiniteSet(B) /\ c \in Nat
  BY BehindFinite
<1>2. \A e \in B : e \in Reach(R, x) /\ e \in Entries /\ e \in Nodes /\ e \in Behind(R, e)
  <2> SUFFICES ASSUME NEW e \in B
               PROVE  e \in Reach(R, x) /\ e \in Entries /\ e \in Nodes /\ e \in Behind(R, e)
    OBVIOUS
  <2>1. e \in Reach(R, x) /\ e \in Entries /\ e \in Nodes
    BY DEF Behind, Nodes
  <2>2. e \in Reach(R, e)
    BY <1>0, <2>1, ReachIs
  <2> QED BY <2>1, <2>2 DEF Behind
<1>3. ASSUME NEW e \in B
      PROVE  Place(R, x, e) \in 1 .. c
  <2> DEFINE D == B \ Behind(R, e)
  <2>1. IsFiniteSet(D) /\ Cardinality(D) \in Nat
    BY BehindFinite
  <2>2. D \in SUBSET B /\ D # B
    BY <1>2
  <2>3. Cardinality(D) <= c /\ Cardinality(D) # c
    BY <1>1, <2>2, FS_Subset
  <2>4. Cardinality(D) + 1 \in 1 .. c
    BY <1>1, <2>1, <2>3
  <2> QED BY <2>4 DEF Place
<1>4. ASSUME NEW d \in B, NEW e \in B, d # e, e \in Reach(R, d)
      PROVE  Place(R, x, d) # Place(R, x, e)
  <2> DEFINE D == B \ Behind(R, d)
             E == B \ Behind(R, e)
  <2>1. Reach(R, e) \in SUBSET Reach(R, d)
    BY <1>0, <1>2, <1>4, ReachTransitive
  <2>2. d \notin Reach(R, e)
    BY <1>2, <1>4, LineOrder
  <2>3. D \in SUBSET E /\ d \in E /\ d \notin D
    BY <1>2, <2>1, <2>2 DEF Behind
  <2>4. IsFiniteSet(E) /\ Cardinality(E) \in Nat /\ Cardinality(D) \in Nat
    BY BehindFinite
  <2>5. Cardinality(D) # Cardinality(E)
    BY <2>3, <2>4, FS_Subset
  <2>6. Cardinality(D) + 1 # Cardinality(E) + 1
    BY <2>4, <2>5
  <2> QED BY <2>6 DEF Place
<1>5. \A d, e \in B : Place(R, x, d) = Place(R, x, e) => d = e
  <2> SUFFICES ASSUME NEW d \in B, NEW e \in B, d # e
               PROVE  Place(R, x, d) # Place(R, x, e)
    OBVIOUS
  <2>1. e \in Reach(R, d) \/ d \in Reach(R, e)
    BY <1>2 DEF IsLine
  <2> QED BY <1>4, <2>1
<1>6. f \in Injection(B, 1 .. c)
  BY <1>3, <1>5 DEF Injection, IsInjective
<1>7. IsFiniteSet(1 .. c) /\ Cardinality(1 .. c) = c
  <2>1. c \in Int /\ 1 \in Int
    BY <1>1
  <2>2. IsFiniteSet(1 .. c) /\ Cardinality(1 .. c) = IF 1 > c THEN 0 ELSE c - 1 + 1
    BY <2>1, FS_Interval
  <2> QED BY <1>1, <2>2
<1>8. f \in Surjection(B, 1 .. c)
  BY <1>6, <1>7, FS_Injection
<1>9. \A k \in 1 .. c : \E e \in B : f[e] = k
  BY <1>8 DEF Surjection
<1> QED
  BY <1>3, <1>5, <1>9

\* The sequence w holds the entries of the line in their order.
Orders(R, x, w) ==
    /\ w \in Seq(Entries) /\ Len(w) = Cardinality(Behind(R, x))
    /\ \A k \in 1 .. Len(w) : w[k] \in Behind(R, x) /\ Place(R, x, w[k]) = k

LEMMA OrderUnique ==
    ASSUME NEW R, NEW x, NEW h, IsLine(R, x, h),
           NEW v, Orders(R, x, v), NEW w, Orders(R, x, w)
    PROVE  v = w
<1>1. v \in Seq(Entries) /\ w \in Seq(Entries) /\ Len(v) = Len(w)
  BY DEF Orders
<1>2. \A k \in 1 .. Len(v) : v[k] = w[k]
  <2> SUFFICES ASSUME NEW k \in 1 .. Len(v)
               PROVE  v[k] = w[k]
    OBVIOUS
  <2>1. /\ v[k] \in Behind(R, x) /\ Place(R, x, v[k]) = k
        /\ w[k] \in Behind(R, x) /\ Place(R, x, w[k]) = k
    BY <1>1 DEF Orders
  <2> QED BY <2>1, PlacesAre
<1> QED
  BY <1>1, <1>2, SeqEqual

\* The same entries are behind the first node and behind each of them.
LEMMA OrderKept ==
    ASSUME NEW R, NEW x, NEW w, Orders(R, x, w), NEW Q, NEW y,
           Behind(Q, y) = Behind(R, x),
           \A e \in Behind(R, x) : Behind(R, x) \ Behind(Q, e) = Behind(R, x) \ Behind(R, e)
    PROVE  Orders(Q, y, w)
  BY DEF Orders, Place

\* An entry is put after the last node.
LEMMA OrderGrows ==
    ASSUME NEW R, NEW x, NEW h, IsLine(R, x, h), NEW w, Orders(R, x, w),
           NEW Q, NEW e \in Entries, e \notin Reach(R, x), Reach(Q, e) = {e},
           \A n \in Reach(R, x) : Reach(Q, n) = Reach(R, n) \cup {e}
    PROVE  Orders(Q, x, Append(w, e))
<1> DEFINE c == Cardinality(Behind(R, x))
<1>0. /\ R \in [Nodes -> SUBSET Nodes] /\ x \in Nodes /\ x \in Reach(R, x)
      /\ c \in Nat /\ IsFiniteSet(Behind(R, x))
  BY BehindFinite, ReachIs DEF IsLine
<1>1. Behind(Q, x) = Behind(R, x) \cup {e} /\ e \notin Behind(R, x)
  BY <1>0 DEF Behind
<1>2. Cardinality(Behind(Q, x)) = c + 1
  BY <1>0, <1>1, FS_AddElement
<1>3. w \in Seq(Entries) /\ Len(w) = c
      /\ \A k \in 1 .. c : w[k] \in Behind(R, x) /\ Place(R, x, w[k]) = k
  BY DEF Orders
<1>4. PICK v : v = Append(w, e)
  OBVIOUS
<1>5. /\ v \in Seq(Entries) /\ Len(v) = c + 1 /\ v[c + 1] = e
      /\ \A k \in 1 .. c : v[k] = w[k]
  BY <1>3, <1>4, AppendProperties
<1>6. ASSUME NEW d \in Behind(R, x)
      PROVE  Place(Q, x, d) = Place(R, x, d)
  <2>1. Behind(Q, d) = Behind(R, d) \cup {e}
    BY DEF Behind
  <2>2. Behind(Q, x) \ Behind(Q, d) = Behind(R, x) \ Behind(R, d)
    BY <1>1, <2>1
  <2> QED BY <2>2 DEF Place
<1>7. Place(Q, x, e) = c + 1
  <2>1. Behind(Q, x) \ Behind(Q, e) = Behind(R, x)
    BY <1>1 DEF Behind
  <2> QED BY <2>1 DEF Place
<1>8. ASSUME NEW k \in 1 .. c + 1
      PROVE  v[k] \in Behind(Q, x) /\ Place(Q, x, v[k]) = k
  <2>1. CASE k = c + 1
    BY <1>1, <1>5, <1>7, <2>1
  <2>2. CASE k \in 1 .. c
    BY <1>1, <1>3, <1>5, <1>6, <2>2
  <2> QED BY <1>0, <2>1, <2>2
<1>9. Orders(Q, x, v)
  BY <1>2, <1>5, <1>8 DEF Orders
<1> QED
  BY <1>4, <1>9

\* The first node, an entry, is left behind.
LEMMA OrderMoves ==
    ASSUME NEW R, NEW x, NEW h, IsLine(R, x, h), NEW w, Orders(R, x, w),
           NEW m \in R[x], x \in Entries
    PROVE  w # <<>> /\ Head(w) = x /\ Orders(R, m, Tail(w))
<1> DEFINE c == Cardinality(Behind(R, x))
<1>0. /\ R \in [Nodes -> SUBSET Nodes] /\ x \in Nodes /\ m \in Nodes
      /\ c \in Nat /\ IsFiniteSet(Behind(R, x))
  BY BehindFinite DEF IsLine
<1>1. x \notin Reach(R, m) /\ Reach(R, x) = {x} \cup Reach(R, m)
  BY LineMoves
<1>2. Behind(R, m) = Behind(R, x) \ {x} /\ x \in Behind(R, x)
  BY <1>1 DEF Behind
<1>3. Cardinality(Behind(R, m)) = c - 1
  <2>1. Cardinality(Behind(R, x) \ {x}) = c - 1
    BY <1>0, <1>2, FS_RemoveElement
  <2> QED BY <1>2, <2>1
<1>4. /\ w \in Seq(Entries) /\ Len(w) = c
      /\ \A k \in 1 .. c : w[k] \in Behind(R, x) /\ Place(R, x, w[k]) = k
  BY DEF Orders
<1>5. Place(R, x, x) = 1
  <2>1. Behind(R, x) \ Behind(R, x) = {}
    OBVIOUS
  <2>2. Cardinality(Behind(R, x) \ Behind(R, x)) = 0
    BY <2>1, FS_EmptySet
  <2> QED BY <2>2 DEF Place
<1>6. 1 \in 1 .. c
  BY <1>2, <1>5, PlacesAre
<1>7. w[1] = x
  BY <1>2, <1>4, <1>5, <1>6, PlacesAre
<1>8. ASSUME NEW e \in Behind(R, m)
      PROVE  Place(R, m, e) = Place(R, x, e) - 1
  <2>1. e \in Reach(R, m) /\ e \in Entries
    BY DEF Behind
  <2>2. Reach(R, e) \in SUBSET Reach(R, m)
    BY <1>0, <2>1, ReachTransitive
  <2>3. x \notin Behind(R, e)
    BY <1>1, <2>2 DEF Behind
  <2> DEFINE D == Behind(R, x) \ Behind(R, e)
  <2>4. Behind(R, m) \ Behind(R, e) = D \ {x} /\ x \in D
    BY <1>2, <2>3
  <2>5. IsFiniteSet(D) /\ Cardinality(D) \in Nat
    BY BehindFinite
  <2>6. Cardinality(D \ {x}) = Cardinality(D) - 1
    BY <2>4, <2>5, FS_RemoveElement
  <2> HIDE DEF D
  <2>7. Cardinality(D \ {x}) + 1 = (Cardinality(D) + 1) - 1
    BY <2>5, <2>6
  <2> QED BY <2>4, <2>7 DEF Place, D
<1>9. w # <<>> /\ Head(w) = x
  BY <1>4, <1>6, <1>7
<1>a. PICK v : v = Tail(w)
  OBVIOUS
<1>b. /\ v \in Seq(Entries) /\ Len(v) = c - 1
      /\ \A k \in 1 .. c - 1 : v[k] = w[k + 1]
  BY <1>4, <1>9, <1>a, HeadTailProperties
<1>c. ASSUME NEW k \in 1 .. c - 1
      PROVE  v[k] \in Behind(R, m) /\ Place(R, m, v[k]) = k
  <2>1. k + 1 \in 1 .. c /\ k + 1 # 1 /\ v[k] = w[k + 1] /\ k \in Int
    BY <1>0, <1>b
  <2>2. v[k] \in Behind(R, x) /\ Place(R, x, v[k]) = k + 1
    BY <1>4, <2>1
  <2>3. v[k] # x
    BY <1>5, <2>1, <2>2
  <2>4. v[k] \in Behind(R, m)
    BY <1>2, <2>2, <2>3
  <2> QED BY <1>8, <2>1, <2>2, <2>4
<1>d. Orders(R, m, v)
  BY <1>3, <1>b, <1>c DEF Orders
<1> QED
  BY <1>9, <1>a, <1>d

-----------------------------------------------------------------------------
(* The links of a state *)

Links == [n \in Nodes |-> {m \in Nodes : LeadsTo(n, m)}]

\* The nodes of the list: list_tail and what the links lead to.
Listed == Reach(Links, list_tail)

ListTypeOK ==
    /\ next \in [Nodes -> Nodes \cup {Null}]
    /\ list_head \in Nodes /\ list_tail \in Nodes
    /\ DOMAIN lpc = Callers
    /\ entry \in [Callers -> Nodes \cup {Null}]
    /\ prev \in [Callers -> Nodes \cup {Null}]
    /\ pool \in SUBSET Entries /\ popped \in Seq(Entries)

\* The list is one line of nodes from list_tail to list_head.
LineOK == IsLine(Links, list_tail, list_head)

\* A missing link goes out of a node of the list, and one thread makes it.
LinkersOK ==
    /\ \A t \in Callers : lpc[t] = "link" =>
          prev[t] \in Listed /\ next[prev[t]] = Null /\ entry[t] \in Nodes
    /\ \A t, u \in Callers :
          lpc[t] = "link" /\ lpc[u] = "link" /\ prev[t] = prev[u] => t = u

\* What is about to enter the list is not in it.
PushersOK ==
    /\ \A t \in Callers : lpc[t] = "exchange" =>
          /\ entry[t] \in Nodes \ Listed /\ next[entry[t]] = Null
          /\ entry[t] = Stub <=> t = Consumer
    /\ \A t, u \in Callers :
          lpc[t] = "exchange" /\ lpc[u] = "exchange" /\ entry[t] = entry[u] => t = u

\* Every entry is with the client, in the list or with one producer.
PoolOK ==
    /\ pool \cap Listed = {}
    /\ \A t \in Callers : lpc[t] = "exchange" => entry[t] \notin pool
    /\ \A e \in Entries : \/ e \in pool \/ e \in Listed
                          \/ \E t \in Producers : lpc[t] = "exchange" /\ entry[t] = e

\* pop() passes the stub first, and pushes it when it is not in the list.
StubOK ==
    /\ lpc[Consumer] = "push_stub" => Stub \notin Listed
    /\ lpc[Consumer] # "idle" => list_tail # Stub

ListInv == ListTypeOK /\ LineOK /\ LinkersOK /\ PushersOK /\ PoolOK /\ StubOK

\* The mapping's sets are the entries of the list.
LEMMA EntriesAre ==
    ASSUME NEW n \in Nodes
    PROVE  EntriesFrom(n) = Behind(Links, n)
<1>1. ASSUME NEW e \in Entries, e \notin Behind(Links, n)
      PROVE  e \notin EntriesFrom(n)
  <2>1. e \in Nodes /\ e \notin Reach(Links, n)
    BY <1>1 DEF Behind, Nodes
  <2>2. PICK S \in SUBSET Nodes :
            n \in S /\ (\A x \in S : Links[x] \subseteq S) /\ e \notin S
    BY <2>1 DEF Reach
  <2>3. S \in SUBSET (Nodes \ {e})
    BY <2>2
  <2>4. ~ \E x \in S, y \in Nodes \ S : LeadsTo(x, y)
    BY <2>2 DEF Links
  <2> QED BY <2>2, <2>3, <2>4 DEF EntriesFrom
<1>2. ASSUME NEW e \in Entries, e \notin EntriesFrom(n)
      PROVE  e \notin Behind(Links, n)
  <2>1. PICK S \in SUBSET (Nodes \ {e}) :
            n \in S /\ ~ \E x \in S, y \in Nodes \ S : LeadsTo(x, y)
    BY <1>2 DEF EntriesFrom
  <2>2. S \in SUBSET Nodes /\ e \notin S
    OBVIOUS
  <2>3. \A x \in S : Links[x] \subseteq S
    BY <2>1, <2>2 DEF Links
  <2>4. e \notin Reach(Links, n)
    BY <2>1, <2>2, <2>3 DEF Reach
  <2> QED BY <2>4 DEF Behind
<1>3. EntriesFrom(n) \in SUBSET Entries /\ Behind(Links, n) \in SUBSET Entries
  BY DEF EntriesFrom, Behind
<1> QED
  BY <1>1, <1>2, <1>3

\* The mapping is the order of the list.
ListOrdered ==
    /\ Orders(Links, list_tail, ListItems)
    /\ {ListItems[i] : i \in DOMAIN ListItems} = Behind(Links, list_tail)

LEMMA ListItemsOrdered == ListInv => ListOrdered
<1> SUFFICES ASSUME ListInv
             PROVE  ListOrdered
  OBVIOUS
<1> DEFINE B == Behind(Links, list_tail)
           c == Cardinality(B)
<1>1. IsLine(Links, list_tail, list_head) /\ list_tail \in Nodes
  BY DEF ListInv, LineOK, ListTypeOK
<1>2. EntriesFrom(list_tail) = B /\ B \in SUBSET Entries /\ c \in Nat
  BY <1>1, EntriesAre, BehindFinite DEF Behind
<1>3. \A e \in B : EntriesFrom(e) = Behind(Links, e)
  BY <1>2, EntriesAre DEF Nodes
<1>4. PICK x \in Nodes : x = list_tail
  BY <1>1
<1>5. PICK R : R = Links
  OBVIOUS
<1>6. PICK h : h = list_head
  OBVIOUS
<1>7. IsLine(R, x, h) /\ B = Behind(R, x)
  BY <1>1, <1>4, <1>5, <1>6
<1>8. /\ \A e \in B : Place(R, x, e) \in 1 .. c
      /\ \A k \in 1 .. c : \E e \in B : Place(R, x, e) = k
      /\ \A d, e \in B : Place(R, x, d) = Place(R, x, e) => d = e
  BY <1>7, PlacesAre
<1>9. \A e \in B : /\ Cardinality(B \ EntriesFrom(e)) \in Nat
                   /\ Place(R, x, e) = Cardinality(B \ EntriesFrom(e)) + 1
  BY <1>3, <1>5, <1>7, BehindFinite DEF Place
<1>a. PICK w : w = ListItems
  OBVIOUS
<1>b. w = [k \in 1 .. c |-> CHOOSE e \in B : Cardinality(B \ EntriesFrom(e)) = k - 1]
  BY <1>2, <1>a DEF ListItems
<1>c. ASSUME NEW k \in 1 .. c
      PROVE  w[k] \in B /\ Place(R, x, w[k]) = k
  <2>1. PICK d \in B : Place(R, x, d) = k
    BY <1>8
  <2>2. Cardinality(B \ EntriesFrom(d)) = k - 1
    BY <1>2, <1>9, <2>1
  <2>3. w[k] = CHOOSE e \in B : Cardinality(B \ EntriesFrom(e)) = k - 1
    BY <1>b
  <2>4. w[k] \in B /\ Cardinality(B \ EntriesFrom(w[k])) = k - 1
    BY <2>2, <2>3
  <2>5. (k - 1) + 1 = k
    OBVIOUS
  <2> QED BY <1>9, <2>4, <2>5
<1>d. w \in [1 .. c -> B]
  BY <1>b, <1>c
<1>e. w \in Seq(Entries) /\ Len(w) = c /\ DOMAIN w = 1 .. c
  BY <1>2, <1>d
<1>f. Orders(R, x, w)
  BY <1>7, <1>c, <1>e DEF Orders
<1>g. {w[i] : i \in DOMAIN w} = B
  <2>1. ASSUME NEW e \in B
        PROVE  \E i \in 1 .. c : w[i] = e
    <3>1. Place(R, x, e) \in 1 .. c
      BY <1>8
    <3>2. w[Place(R, x, e)] = e
      BY <1>8, <1>c, <3>1
    <3> QED BY <3>1, <3>2
  <2> QED BY <1>c, <1>e, <2>1
<1> QED
  BY <1>4, <1>5, <1>a, <1>f, <1>g DEF ListOrdered

LEMMA ListItemsOrderedNext == ListInv' => ListOrdered'
  BY ListItemsOrdered, PTL

LEMMA LinksType == Links \in [Nodes -> SUBSET Nodes]
  BY DEF Links

LEMMA LinksTypeNext == Links' \in [Nodes -> SUBSET Nodes]
  BY DEF Links

\* No node is Null, and the threads of the list.
LEMMA ListNames ==
    /\ Null \notin Nodes /\ Stub \in Nodes /\ Stub \notin Entries
    /\ Consumer \in Callers /\ Consumer \notin Producers
    /\ \A t : t \in Callers <=> (t \in Producers \/ t = Consumer)
    /\ \A n : n \in Nodes <=> (n \in Entries \/ n = Stub)
  BY IntrusiveAssumption DEF Nodes, Callers

\* What the invariant says of the two ends.
ListEnds ==
    /\ IsLine(Links, list_tail, list_head) /\ Listed = Reach(Links, list_tail)
    /\ list_tail \in Listed /\ list_head \in Listed /\ Listed \in SUBSET Nodes
    /\ next[list_head] = Null /\ Links[list_head] = {}
    /\ \A t \in Callers : lpc[t] = "link" => prev[t] # list_head

LEMMA ListEndsFact == ListInv => ListEnds
<1> SUFFICES ASSUME ListInv
             PROVE  ListEnds
  OBVIOUS
<1>1. IsLine(Links, list_tail, list_head) /\ Listed = Reach(Links, list_tail)
  BY DEF ListInv, LineOK, Listed
<1>2. list_tail \in Nodes /\ list_head \in Nodes /\ next[list_head] \in Nodes \cup {Null}
  BY DEF ListInv, ListTypeOK
<1>3. list_tail \in Listed /\ Listed \in SUBSET Nodes
  BY <1>1, <1>2, LinksType, ReachIs
<1>4. list_head \in Listed /\ Links[list_head] = {}
  BY <1>1, <1>3 DEF IsLine
<1>5. \A m \in Nodes : ~ LeadsTo(list_head, m)
  BY <1>2, <1>4 DEF Links
<1>6. next[list_head] = Null
  BY <1>2, <1>5 DEF LeadsTo
<1>7. \A t \in Callers : lpc[t] = "link" => prev[t] # list_head
  BY <1>5 DEF LeadsTo, ListInv, LinkersOK
<1> QED
  BY <1>1, <1>3, <1>4, <1>6, <1>7 DEF ListEnds

-----------------------------------------------------------------------------
(* How steps change the line *)

\* A node keeps its links when its next pointer and the linkers stay.
LEMMA LinksKept ==
    ASSUME NEW n \in Nodes, next'[n] = next[n],
           \A t \in Callers : /\ lpc'[t] = "link" <=> lpc[t] = "link"
                              /\ lpc[t] = "link" => prev'[t] = prev[t] /\ entry'[t] = entry[t]
    PROVE  Links'[n] = Links[n]
<1>1. \A m \in Nodes : LeadsTo(n, m)' <=> LeadsTo(n, m)
  BY DEF LeadsTo
<1>2. Links'[n] = {m \in Nodes : LeadsTo(n, m)'} /\ Links[n] = {m \in Nodes : LeadsTo(n, m)}
  BY DEF Links
<1> QED
  BY <1>1, <1>2

LEMMA OrderSame ==
    ASSUME NEW R \in [Nodes -> SUBSET Nodes], NEW x \in Nodes, NEW Q,
           \A n \in Reach(R, x) : Reach(Q, n) = Reach(R, n),
           NEW w, Orders(R, x, w)
    PROVE  Orders(Q, x, w)
<1>1. x \in Reach(R, x)
  BY ReachIs
<1>2. \A n \in Reach(R, x) : Behind(Q, n) = Behind(R, n)
  BY DEF Behind
<1>3. Behind(Q, x) = Behind(R, x)
  BY <1>1, <1>2
<1>4. \A e \in Behind(R, x) : Behind(R, x) \ Behind(Q, e) = Behind(R, x) \ Behind(R, e)
  BY <1>2 DEF Behind
<1> QED
  BY <1>3, <1>4, OrderKept

\* Nothing changes on the line.
LEMMA ListKept ==
    ASSUME ListInv, UNCHANGED <<list_head, list_tail>>, \A n \in Listed : Links'[n] = Links[n]
    PROVE  /\ LineOK' /\ Listed' = Listed
           /\ \A w : Orders(Links, list_tail, w) => Orders(Links', list_tail', w)
<1>1. ListEnds
  BY ListEndsFact
<1>2. PICK R \in [Nodes -> SUBSET Nodes] : R = Links
  BY LinksType
<1>3. PICK Q \in [Nodes -> SUBSET Nodes] : Q = Links'
  BY LinksTypeNext
<1>4. PICK x \in Nodes : x = list_tail
  BY <1>1 DEF ListEnds
<1>5. PICK h \in Nodes : h = list_head
  BY <1>1 DEF ListEnds
<1>6. IsLine(R, x, h) /\ \A n \in Reach(R, x) : Q[n] = R[n]
  BY <1>1, <1>2, <1>3, <1>4, <1>5 DEF ListEnds
<1>7. IsLine(Q, x, h) /\ \A n \in Reach(R, x) : Reach(Q, n) = Reach(R, n)
  BY <1>6, LineSame
<1>8. x \in Reach(R, x)
  BY ReachIs
<1>9. Reach(Q, x) = Reach(R, x)
  BY <1>7, <1>8
<1>a. \A w : Orders(R, x, w) => Orders(Q, x, w)
  BY <1>7, OrderSame
<1>b. LineOK' <=> IsLine(Q, x, h)
  BY <1>3, <1>4, <1>5 DEF LineOK
<1>c. Listed = Reach(R, x) /\ Listed' = Reach(Q, x)
  BY <1>2, <1>3, <1>4 DEF Listed
<1>d. \A w : Orders(Links, list_tail, w) => Orders(Links', list_tail', w)
  BY <1>2, <1>3, <1>4, <1>a
<1> QED
  BY <1>7, <1>9, <1>b, <1>c, <1>d

\* list_tail goes to the node its next pointer names.
LEMMA ListMoves ==
    ASSUME ListInv, next[list_tail] # Null, list_tail' = next[list_tail],
           UNCHANGED list_head, \A n \in Nodes : Links'[n] = Links[n]
    PROVE  /\ LineOK' /\ list_tail' \in Nodes /\ list_tail' \in Listed'
           /\ list_tail \notin Listed' /\ Listed = {list_tail} \cup Listed'
           /\ \A t \in Callers : lpc[t] = "link" => prev[t] \in Listed'
           /\ \A w : Orders(Links, list_tail, w) =>
                 IF list_tail = Stub
                 THEN Orders(Links', list_tail', w)
                 ELSE w # <<>> /\ Head(w) = list_tail /\ Orders(Links', list_tail', Tail(w))
<1>1. ListEnds
  BY ListEndsFact
<1>2. PICK R \in [Nodes -> SUBSET Nodes] : R = Links
  BY LinksType
<1>3. R = Links'
  BY <1>2, LinksTypeNext
<1>4. PICK x \in Nodes : x = list_tail
  BY <1>1 DEF ListEnds
<1>5. PICK h \in Nodes : h = list_head
  BY <1>1 DEF ListEnds
<1>6. PICK m \in Nodes : m = list_tail'
  BY <1>4 DEF ListInv, ListTypeOK
<1>7. IsLine(R, x, h)
  BY <1>1, <1>2, <1>4, <1>5 DEF ListEnds
<1>8. m \in R[x]
  BY <1>2, <1>4, <1>6 DEF Links, LeadsTo
<1>9. IsLine(R, m, h) /\ x \notin Reach(R, m) /\ Reach(R, x) = {x} \cup Reach(R, m)
  BY <1>7, <1>8, LineMoves
<1>a. m \in Reach(R, m)
  BY ReachIs
<1>b. LineOK' <=> IsLine(R, m, h)
  BY <1>3, <1>5, <1>6 DEF LineOK
<1>c. Listed = Reach(R, x) /\ Listed' = Reach(R, m)
  BY <1>2, <1>3, <1>4, <1>6 DEF Listed
<1>d. ASSUME NEW t \in Callers, lpc[t] = "link"
      PROVE  prev[t] \in Listed'
  <2>1. prev[t] \in Listed /\ prev[t] # list_tail
    BY <1>d DEF ListInv, LinkersOK
  <2> QED BY <1>4, <1>9, <1>c, <2>1
<1>e. ASSUME NEW w, Orders(R, x, w), x = Stub
      PROVE  Orders(R, m, w)
  <2>1. Behind(R, m) = Behind(R, x)
    BY <1>9, <1>e, ListNames DEF Behind
  <2> QED BY <1>e, <2>1, OrderKept
<1>f. ASSUME NEW w, Orders(R, x, w), x # Stub
      PROVE  w # <<>> /\ Head(w) = x /\ Orders(R, m, Tail(w))
  <2>1. x \in Entries
    BY <1>f, ListNames
  <2> QED BY <1>7, <1>8, <1>f, <2>1, OrderMoves
<1>g. \A w : Orders(Links, list_tail, w) =>
                 IF list_tail = Stub
                 THEN Orders(Links', list_tail', w)
                 ELSE w # <<>> /\ Head(w) = list_tail /\ Orders(Links', list_tail', Tail(w))
  BY <1>2, <1>3, <1>4, <1>6, <1>e, <1>f
<1> QED
  BY <1>4, <1>6, <1>9, <1>a, <1>b, <1>c, <1>d, <1>g

\* The exchange puts the entry of t after list_head.
LEMMA ListGrows ==
    ASSUME ListInv, NEW t \in Callers, Exchange(t)
    PROVE  /\ LineOK' /\ Listed' = Listed \cup {entry[t]}
           /\ \A w : Orders(Links, list_tail, w) =>
                 IF t = Consumer
                 THEN Orders(Links', list_tail', w)
                 ELSE Orders(Links', list_tail', Append(w, entry[t]))
<1>1. ListEnds
  BY ListEndsFact
<1>2. PICK R \in [Nodes -> SUBSET Nodes] : R = Links
  BY LinksType
<1>3. PICK Q \in [Nodes -> SUBSET Nodes] : Q = Links'
  BY LinksTypeNext
<1>4. PICK x \in Nodes : x = list_tail
  BY <1>1 DEF ListEnds
<1>5. PICK h \in Nodes : h = list_head
  BY <1>1 DEF ListEnds
<1>6. PICK e \in Nodes : e = entry[t] /\ e \notin Listed /\ next[e] = Null
                         /\ (e = Stub <=> t = Consumer)
  BY DEF Exchange, ListInv, PushersOK
<1>7. /\ UNCHANGED <<next, entry, list_tail>> /\ list_head' = e
      /\ lpc[t] = "exchange" /\ lpc'[t] = "link" /\ prev'[t] = h
      /\ \A u \in Callers \ {t} : lpc'[u] = lpc[u] /\ prev'[u] = prev[u]
  BY <1>5, <1>6 DEF Exchange, At, ListInv, ListTypeOK
<1>8. IsLine(R, x, h) /\ Listed = Reach(R, x) /\ Listed' = Reach(Q, x)
  BY <1>1, <1>2, <1>3, <1>4, <1>5, <1>7 DEF ListEnds, Listed
<1>9. R[e] = {}
  <2>1. ASSUME NEW m \in Nodes
        PROVE  ~ LeadsTo(e, m)
    <3>1. next[e] # m
      BY <1>6, ListNames
    <3>2. \A u \in Callers : lpc[u] = "link" => prev[u] # e
      BY <1>6 DEF ListInv, LinkersOK
    <3> QED BY <3>1, <3>2 DEF LeadsTo
  <2> QED BY <1>2, <2>1 DEF Links
<1>a. Q[h] = {e}
  <2>1. next'[h] = Null /\ \A u \in Callers : lpc[u] = "link" => prev[u] # h
    BY <1>1, <1>5, <1>7 DEF ListEnds
  <2>2. ASSUME NEW m \in Nodes
        PROVE  LeadsTo(h, m)' <=> m = e
    <3>1. next'[h] # m
      BY <2>1, ListNames
    <3>2. (\E u \in Callers : lpc'[u] = "link" /\ prev'[u] = h /\ entry'[u] = m) <=> m = e
      BY <1>6, <1>7, <2>1
    <3> QED BY <3>1, <3>2 DEF LeadsTo
  <2>3. Q[h] = {m \in Nodes : LeadsTo(h, m)'}
    BY <1>3 DEF Links
  <2> QED BY <2>2, <2>3
<1>b. ASSUME NEW y \in Nodes \ {h}
      PROVE  Q[y] = R[y]
  <2>1. ASSUME NEW m \in Nodes
        PROVE  LeadsTo(y, m)' <=> LeadsTo(y, m)
    <3>1. \A u \in Callers : (lpc'[u] = "link" /\ prev'[u] = y /\ entry'[u] = m)
                               <=> (lpc[u] = "link" /\ prev[u] = y /\ entry[u] = m)
      BY <1>7
    <3> QED BY <1>7, <3>1 DEF LeadsTo
  <2>2. Q[y] = {m \in Nodes : LeadsTo(y, m)'} /\ R[y] = {m \in Nodes : LeadsTo(y, m)}
    BY <1>2, <1>3 DEF Links
  <2> QED BY <2>1, <2>2
<1>c. e \notin Reach(R, x)
  BY <1>6, <1>8
<1>d. /\ IsLine(Q, x, e) /\ Reach(Q, e) = {e}
      /\ \A n \in Reach(R, x) : Reach(Q, n) = Reach(R, n) \cup {e}
  BY <1>8, <1>9, <1>a, <1>b, <1>c, LineGrows
<1>e. x \in Reach(R, x)
  BY ReachIs
<1>f. Reach(Q, x) = Reach(R, x) \cup {e}
  BY <1>d, <1>e
<1>g. LineOK' <=> IsLine(Q, x, e)
  BY <1>3, <1>4, <1>7 DEF LineOK
<1>h. ASSUME NEW w, Orders(R, x, w), t = Consumer
      PROVE  Orders(Q, x, w)
  <2>1. \A n \in Reach(R, x) : Behind(Q, n) = Behind(R, n)
    BY <1>6, <1>d, <1>h, ListNames DEF Behind
  <2>2. Behind(Q, x) = Behind(R, x)
    BY <1>e, <2>1
  <2>3. \A d \in Behind(R, x) : Behind(R, x) \ Behind(Q, d) = Behind(R, x) \ Behind(R, d)
    BY <2>1 DEF Behind
  <2> QED BY <1>h, <2>2, <2>3, OrderKept
<1>i. ASSUME NEW w, Orders(R, x, w), t # Consumer
      PROVE  Orders(Q, x, Append(w, e))
  <2>1. e \in Entries
    BY <1>6, <1>i, ListNames
  <2> QED BY <1>8, <1>c, <1>d, <1>i, <2>1, OrderGrows
<1>j. \A w : Orders(Links, list_tail, w) =>
                 IF t = Consumer
                 THEN Orders(Links', list_tail', w)
                 ELSE Orders(Links', list_tail', Append(w, entry[t]))
  BY <1>2, <1>3, <1>4, <1>6, <1>7, <1>h, <1>i
<1> QED
  BY <1>6, <1>8, <1>d, <1>f, <1>g, <1>j

-----------------------------------------------------------------------------
(* The list's invariant *)

LEMMA ListInvInit ==
    ListInit => ListInv /\ ListItems = <<>> /\ popped = <<>>
<1> SUFFICES ASSUME ListInit
             PROVE  ListInv /\ ListItems = <<>>
  BY DEF ListInit
<1>1. /\ next = [n \in Nodes |-> Null] /\ list_head = Stub /\ list_tail = Stub
      /\ lpc = [t \in Callers |-> "idle"] /\ pool = Entries
  BY DEF ListInit, Nodes
<1>2. ListTypeOK
  <2>1. popped \in Seq(Entries)
    BY DEF ListInit
  <2> QED BY <1>1, <2>1, ListNames DEF ListTypeOK, ListInit
<1>3. PICK R \in [Nodes -> SUBSET Nodes] : R = Links
  BY LinksType
<1>4. \A n \in Nodes : R[n] = {}
  <2>1. \A n, m \in Nodes : ~ LeadsTo(n, m)
    BY <1>1, ListNames DEF LeadsTo
  <2> QED BY <1>3, <2>1 DEF Links
<1>5. Reach(R, Stub) = {Stub}
  BY <1>4, ListNames, ReachEnd
<1>6. IsLine(R, Stub, Stub)
  BY <1>4, <1>5, ListNames DEF IsLine
<1>7. LineOK /\ Listed = {Stub}
  BY <1>1, <1>3, <1>5, <1>6 DEF LineOK, Listed
<1>8. LinkersOK /\ PushersOK
  BY <1>1 DEF LinkersOK, PushersOK
<1>9. PoolOK /\ StubOK
  BY <1>1, <1>7, ListNames DEF PoolOK, StubOK
<1>a. ListInv
  BY <1>2, <1>7, <1>8, <1>9 DEF ListInv
<1>b. Behind(R, Stub) = {}
  BY <1>5, ListNames DEF Behind
<1>c. Orders(R, Stub, ListItems)
  BY <1>1, <1>3, <1>a, ListItemsOrdered DEF ListOrdered
<1>d. PICK w : w = ListItems
  OBVIOUS
<1>e. w \in Seq(Entries) /\ Len(w) = 0
  BY <1>b, <1>c, <1>d, FS_EmptySet DEF Orders
<1>f. w = <<>>
  BY <1>e, EmptySeq
<1> QED
  BY <1>a, <1>d, <1>f

\* The entries of the list and their order stay.
OrderStays == \A w : Orders(Links, list_tail, w) => Orders(Links', list_tail', w)

\* The start of a push clears a node outside the list.
LEMMA ClearInv ==
    ASSUME ListInv, NEW t \in Callers, NEW e \in Nodes \ Listed, Clear(t, e),
           lpc[t] \notin {"exchange", "link"}, e = Stub <=> t = Consumer,
           pool' = pool \ {e}, t = Consumer => list_tail # Stub,
           t = Consumer \/ e \in pool,
           UNCHANGED <<list_head, list_tail, prev, popped>>
    PROVE  ListInv' /\ OrderStays
<1>1. ListEnds
  BY ListEndsFact
<1>2. /\ next' = [next EXCEPT ![e] = Null] /\ entry' = [entry EXCEPT ![t] = e]
      /\ lpc' = [lpc EXCEPT ![t] = "exchange"]
  BY DEF Clear, At
<1>3. ListTypeOK'
  BY <1>2 DEF ListInv, ListTypeOK
<1>4. /\ entry'[t] = e /\ lpc'[t] = "exchange" /\ next'[e] = Null
      /\ \A u \in Callers \ {t} : lpc'[u] = lpc[u] /\ entry'[u] = entry[u]
      /\ \A n \in Nodes \ {e} : next'[n] = next[n]
  BY <1>2 DEF ListInv, ListTypeOK
<1>5. ASSUME NEW n \in Listed
      PROVE  Links'[n] = Links[n]
  <2>1. n \in Nodes /\ n # e
    BY <1>1 DEF ListEnds
  <2>2. next'[n] = next[n]
    BY <1>4, <2>1
  <2>3. \A u \in Callers : /\ lpc'[u] = "link" <=> lpc[u] = "link"
                           /\ lpc[u] = "link" => prev'[u] = prev[u] /\ entry'[u] = entry[u]
    BY <1>4
  <2> QED BY <2>1, <2>2, <2>3, LinksKept
<1>6. LineOK' /\ Listed' = Listed /\ OrderStays
  BY <1>5, ListKept DEF OrderStays
<1>7. LinkersOK'
  <2>1. ASSUME NEW u \in Callers, lpc'[u] = "link"
        PROVE  u # t /\ lpc[u] = "link" /\ prev'[u] = prev[u] /\ entry'[u] = entry[u]
               /\ prev[u] \in Listed /\ next'[prev[u]] = Null /\ entry[u] \in Nodes
    <3>1. u # t /\ lpc[u] = "link" /\ prev'[u] = prev[u] /\ entry'[u] = entry[u]
      BY <1>4, <2>1
    <3>2. prev[u] \in Listed /\ next[prev[u]] = Null /\ entry[u] \in Nodes
      BY <3>1 DEF ListInv, LinkersOK
    <3>3. prev[u] \in Nodes \ {e}
      BY <1>1, <3>2 DEF ListEnds
    <3> QED BY <1>4, <3>1, <3>2, <3>3
  <2>2. \A u, v \in Callers :
          lpc'[u] = "link" /\ lpc'[v] = "link" /\ prev'[u] = prev'[v] => u = v
    BY <2>1 DEF ListInv, LinkersOK
  <2> QED BY <1>6, <2>1, <2>2 DEF LinkersOK
<1>8. PushersOK'
  <2>1. \A u \in Callers \ {t} : lpc'[u] = "exchange" => entry[u] # e
    BY <1>4, ListNames DEF ListInv, PushersOK, PoolOK
  <2>2. ASSUME NEW u \in Callers, lpc'[u] = "exchange"
        PROVE  /\ entry'[u] \in Nodes \ Listed /\ next'[entry'[u]] = Null
               /\ entry'[u] = Stub <=> u = Consumer
    <3>1. CASE u = t
      BY <1>4, <3>1
    <3>2. CASE u # t
      <4>1. lpc[u] = "exchange" /\ entry'[u] = entry[u] /\ entry[u] # e
        BY <1>4, <2>1, <2>2, <3>2
      <4>2. /\ entry[u] \in Nodes \ Listed /\ next[entry[u]] = Null
            /\ entry[u] = Stub <=> u = Consumer
        BY <4>1 DEF ListInv, PushersOK
      <4> QED BY <1>4, <4>1, <4>2
    <3> QED BY <3>1, <3>2
  <2>3. ASSUME NEW u \in Callers, NEW v \in Callers,
               lpc'[u] = "exchange", lpc'[v] = "exchange", entry'[u] = entry'[v]
        PROVE  u = v
    BY <1>4, <2>1, <2>3 DEF ListInv, PushersOK
  <2> QED BY <1>6, <2>2, <2>3 DEF PushersOK
<1>9. PoolOK'
  <2>1. pool' \cap Listed = {}
    BY DEF ListInv, PoolOK
  <2>2. \A u \in Callers : lpc'[u] = "exchange" => entry'[u] \notin pool'
    BY <1>4 DEF ListInv, PoolOK
  <2>3. ASSUME NEW d \in Entries
        PROVE  \/ d \in pool' \/ d \in Listed
               \/ \E u \in Producers : lpc'[u] = "exchange" /\ entry'[u] = d
    <3>1. CASE d = e
      BY <1>4, <3>1, ListNames
    <3>2. CASE d # e
      <4>1. \/ d \in pool \/ d \in Listed
            \/ \E u \in Producers : lpc[u] = "exchange" /\ entry[u] = d
        BY DEF ListInv, PoolOK
      <4>2. ASSUME NEW u \in Producers, lpc[u] = "exchange", entry[u] = d
            PROVE  lpc'[u] = "exchange" /\ entry'[u] = d
        BY <1>4, <4>2, ListNames
      <4> QED BY <3>2, <4>1, <4>2
    <3> QED BY <3>1, <3>2
  <2> QED BY <1>6, <2>1, <2>2, <2>3 DEF PoolOK
<1>a. StubOK'
  <2>1. CASE t = Consumer
    BY <1>4, <2>1 DEF StubOK
  <2>2. CASE t # Consumer
    BY <1>4, <1>6, <2>2, ListNames DEF ListInv, StubOK
  <2> QED BY <2>1, <2>2
<1> QED
  BY <1>3, <1>6, <1>7, <1>8, <1>9, <1>a DEF ListInv

LEMMA ListPushInv ==
    ASSUME ListInv, NEW p \in Producers, NEW e \in Entries, ListPush(p, e)
    PROVE  ListInv' /\ OrderStays /\ UNCHANGED popped
<1>1. p \in Callers /\ p # Consumer /\ e \in Nodes /\ e # Stub
  BY ListNames
<1>2. /\ lpc[p] \notin {"exchange", "link"} /\ e \in pool /\ Clear(p, e) /\ pool' = pool \ {e}
      /\ UNCHANGED <<list_head, list_tail, prev, popped>>
  BY DEF ListPush
<1>3. e \notin Listed
  BY <1>2 DEF ListInv, PoolOK
<1> QED
  BY <1>1, <1>2, <1>3, ClearInv

LEMMA PopPushStubInv ==
    ASSUME ListInv, PopPushStub
    PROVE  ListInv' /\ OrderStays /\ UNCHANGED popped
<1>1. /\ lpc[Consumer] \notin {"exchange", "link"} /\ Clear(Consumer, Stub)
      /\ UNCHANGED <<list_head, list_tail, prev, pool, popped>>
  BY DEF PopPushStub
<1>2. Stub \notin Listed /\ list_tail # Stub
  BY DEF PopPushStub, ListInv, StubOK
<1>3. pool' = pool \ {Stub}
  BY <1>1, ListNames DEF ListInv, ListTypeOK
<1> QED
  BY <1>1, <1>2, <1>3, ListNames, ClearInv

LEMMA ExchangeInv ==
    ASSUME ListInv, NEW t \in Callers, Exchange(t)
    PROVE  ListInv'
<1>1. ListEnds
  BY ListEndsFact
<1>2. LineOK' /\ Listed' = Listed \cup {entry[t]}
  BY ListGrows
<1>3. /\ lpc[t] = "exchange" /\ prev' = [prev EXCEPT ![t] = list_head]
      /\ list_head' = entry[t] /\ lpc' = [lpc EXCEPT ![t] = "link"]
      /\ UNCHANGED <<next, list_tail, entry, pool, popped>>
  BY DEF Exchange, At
<1>4. entry[t] \in Nodes \ Listed
  BY <1>3 DEF ListInv, PushersOK
<1>5. ListTypeOK'
  BY <1>3, <1>4 DEF ListInv, ListTypeOK
<1>6. /\ prev'[t] = list_head /\ lpc'[t] = "link"
      /\ \A u \in Callers \ {t} : lpc'[u] = lpc[u] /\ prev'[u] = prev[u]
  BY <1>3 DEF ListInv, ListTypeOK
<1>7. LinkersOK'
  <2>1. ASSUME NEW u \in Callers, lpc'[u] = "link"
        PROVE  prev'[u] \in Listed' /\ next'[prev'[u]] = Null /\ entry'[u] \in Nodes
    <3>1. CASE u = t
      BY <1>1, <1>2, <1>3, <1>4, <1>6, <3>1 DEF ListEnds
    <3>2. CASE u # t
      BY <1>2, <1>3, <1>6, <2>1, <3>2 DEF ListInv, LinkersOK
    <3> QED BY <3>1, <3>2
  <2>2. ASSUME NEW u \in Callers, NEW v \in Callers,
               lpc'[u] = "link", lpc'[v] = "link", prev'[u] = prev'[v]
        PROVE  u = v
    <3>1. \A w \in Callers \ {t} : lpc'[w] = "link" => prev'[w] # list_head
      BY <1>1, <1>6 DEF ListEnds
    <3>2. CASE u = t \/ v = t
      BY <1>6, <2>2, <3>1, <3>2
    <3>3. CASE u # t /\ v # t
      BY <1>6, <2>2, <3>3 DEF ListInv, LinkersOK
    <3> QED BY <3>2, <3>3
  <2> QED BY <2>1, <2>2 DEF LinkersOK
<1>8. PushersOK'
  <2>1. ASSUME NEW u \in Callers, lpc'[u] = "exchange"
        PROVE  u # t /\ lpc[u] = "exchange" /\ entry'[u] = entry[u] /\ entry[u] # entry[t]
    <3>1. u # t /\ lpc[u] = "exchange"
      BY <1>6, <2>1
    <3> QED BY <1>3, <3>1 DEF ListInv, PushersOK
  <2>2. ASSUME NEW u \in Callers, lpc'[u] = "exchange"
        PROVE  /\ entry'[u] \in Nodes \ Listed' /\ next'[entry'[u]] = Null
               /\ entry'[u] = Stub <=> u = Consumer
    <3>1. /\ entry[u] \in Nodes \ Listed /\ next[entry[u]] = Null
          /\ entry[u] = Stub <=> u = Consumer
      BY <2>1, <2>2 DEF ListInv, PushersOK
    <3> QED BY <1>2, <1>3, <2>1, <2>2, <3>1
  <2>3. \A u, v \in Callers :
          lpc'[u] = "exchange" /\ lpc'[v] = "exchange" /\ entry'[u] = entry'[v] => u = v
    BY <2>1 DEF ListInv, PushersOK
  <2> QED BY <2>2, <2>3 DEF PushersOK
<1>9. PoolOK'
  <2>1. pool' \cap Listed' = {}
    BY <1>2, <1>3 DEF ListInv, PoolOK
  <2>2. \A u \in Callers : lpc'[u] = "exchange" => entry'[u] \notin pool'
    BY <1>3, <1>6 DEF ListInv, PoolOK
  <2>3. ASSUME NEW d \in Entries
        PROVE  \/ d \in pool' \/ d \in Listed'
               \/ \E u \in Producers : lpc'[u] = "exchange" /\ entry'[u] = d
    <3>1. \/ d \in pool \/ d \in Listed
          \/ \E u \in Producers : lpc[u] = "exchange" /\ entry[u] = d
      BY DEF ListInv, PoolOK
    <3>2. ASSUME NEW u \in Producers, lpc[u] = "exchange", entry[u] = d
          PROVE  d \in Listed' \/ (lpc'[u] = "exchange" /\ entry'[u] = d)
      BY <1>2, <1>3, <1>6, <3>2, ListNames
    <3> QED BY <1>2, <1>3, <3>1, <3>2
  <2> QED BY <2>1, <2>2, <2>3 DEF PoolOK
<1>a. StubOK'
  <2>1. list_tail' = list_tail /\ (lpc'[Consumer] # "idle" => list_tail # Stub)
    BY <1>3, <1>6, ListNames DEF ListInv, StubOK
  <2>2. lpc'[Consumer] = "push_stub" => Stub \notin Listed'
    <3>1. SUFFICES ASSUME lpc'[Consumer] = "push_stub"
                   PROVE  Stub \notin Listed'
      OBVIOUS
    <3>2. t # Consumer /\ lpc[Consumer] = "push_stub"
      BY <1>6, <3>1, ListNames
    <3>3. entry[t] # Stub
      BY <1>3, <3>2 DEF ListInv, PushersOK
    <3> QED BY <1>2, <3>2, <3>3 DEF ListInv, StubOK
  <2> QED BY <2>1, <2>2 DEF StubOK
<1> QED
  BY <1>2, <1>5, <1>7, <1>8, <1>9, <1>a DEF ListInv

LEMMA LinkInv ==
    ASSUME ListInv, NEW t \in Callers, Link(t)
    PROVE  ListInv' /\ OrderStays /\ UNCHANGED popped
<1>1. ListEnds
  BY ListEndsFact
<1>2. PICK l \in {"last", "idle"} : lpc' = [lpc EXCEPT ![t] = l] /\ (l = "last" <=> t = Consumer)
  BY DEF Link, At
<1>3. /\ lpc[t] = "link" /\ next' = [next EXCEPT ![prev[t]] = entry[t]]
      /\ prev' = [prev EXCEPT ![t] = Null] /\ entry' = [entry EXCEPT ![t] = Null]
      /\ UNCHANGED <<list_head, list_tail, pool, popped>>
  BY DEF Link
<1>4. prev[t] \in Listed /\ prev[t] \in Nodes /\ next[prev[t]] = Null /\ entry[t] \in Nodes
  BY <1>1, <1>3 DEF ListInv, LinkersOK, ListEnds
<1>5. ListTypeOK'
  BY <1>2, <1>3, <1>4 DEF ListInv, ListTypeOK
<1>6. /\ lpc'[t] = l /\ next'[prev[t]] = entry[t]
      /\ \A u \in Callers \ {t} :
            lpc'[u] = lpc[u] /\ prev'[u] = prev[u] /\ entry'[u] = entry[u]
      /\ \A n \in Nodes \ {prev[t]} : next'[n] = next[n]
  BY <1>2, <1>3, <1>4 DEF ListInv, ListTypeOK
<1>7. \A u \in Callers \ {t} : lpc[u] = "link" => prev[u] # prev[t]
  BY <1>3 DEF ListInv, LinkersOK
<1>8. ASSUME NEW n \in Nodes
      PROVE  Links'[n] = Links[n]
  <2>1. ASSUME NEW m \in Nodes
        PROVE  LeadsTo(n, m)' <=> LeadsTo(n, m)
    <3>1. CASE n = prev[t]
      <4>1. LeadsTo(n, m) <=> m = entry[t]
        BY <1>3, <1>4, <1>7, <3>1, ListNames DEF LeadsTo
      <4>2. ~ \E u \in Callers : lpc'[u] = "link" /\ prev'[u] = n /\ entry'[u] = m
        BY <1>6, <1>7, <3>1
      <4>3. LeadsTo(n, m)' <=> next'[n] = m
        BY <4>2 DEF LeadsTo
      <4> QED BY <1>6, <3>1, <4>1, <4>3
    <3>2. CASE n # prev[t]
      <4>1. next'[n] = next[n]
        BY <1>6, <3>2
      <4>2. \A u \in Callers : (lpc'[u] = "link" /\ prev'[u] = n /\ entry'[u] = m)
                                 <=> (lpc[u] = "link" /\ prev[u] = n /\ entry[u] = m)
        BY <1>6, <3>2
      <4> QED BY <4>1, <4>2 DEF LeadsTo
    <3> QED BY <3>1, <3>2
  <2>2. Links'[n] = {m \in Nodes : LeadsTo(n, m)'} /\ Links[n] = {m \in Nodes : LeadsTo(n, m)}
    BY DEF Links
  <2> QED BY <2>1, <2>2
<1>9. LineOK' /\ Listed' = Listed /\ OrderStays
  BY <1>1, <1>3, <1>8, ListKept DEF OrderStays, ListEnds
<1>a. LinkersOK'
  <2>1. ASSUME NEW u \in Callers, lpc'[u] = "link"
        PROVE  /\ prev'[u] = prev[u] /\ lpc[u] = "link"
               /\ prev'[u] \in Listed' /\ next'[prev'[u]] = Null /\ entry'[u] \in Nodes
    <3>1. u # t /\ lpc[u] = "link" /\ prev'[u] = prev[u] /\ entry'[u] = entry[u]
      BY <1>6, <2>1
    <3>2. prev[u] \in Listed /\ next[prev[u]] = Null /\ entry[u] \in Nodes
      BY <3>1 DEF ListInv, LinkersOK
    <3>3. prev[u] \in Nodes \ {prev[t]}
      BY <1>1, <1>7, <3>1, <3>2 DEF ListEnds
    <3> QED BY <1>6, <1>9, <3>1, <3>2, <3>3
  <2>2. \A u, v \in Callers :
          lpc'[u] = "link" /\ lpc'[v] = "link" /\ prev'[u] = prev'[v] => u = v
    BY <2>1 DEF ListInv, LinkersOK
  <2> QED BY <2>1, <2>2 DEF LinkersOK
<1>b. PushersOK'
  <2>1. ASSUME NEW u \in Callers, lpc'[u] = "exchange"
        PROVE  /\ entry'[u] = entry[u] /\ lpc[u] = "exchange"
               /\ entry'[u] \in Nodes \ Listed' /\ next'[entry'[u]] = Null
               /\ entry'[u] = Stub <=> u = Consumer
    <3>1. u # t /\ lpc[u] = "exchange" /\ entry'[u] = entry[u]
      BY <1>6, <2>1
    <3>2. /\ entry[u] \in Nodes \ Listed /\ next[entry[u]] = Null
          /\ entry[u] = Stub <=> u = Consumer
      BY <3>1 DEF ListInv, PushersOK
    <3>3. entry[u] # prev[t]
      BY <1>4, <3>2
    <3> QED BY <1>6, <1>9, <3>1, <3>2, <3>3
  <2>2. \A u, v \in Callers :
          lpc'[u] = "exchange" /\ lpc'[v] = "exchange" /\ entry'[u] = entry'[v] => u = v
    BY <2>1 DEF ListInv, PushersOK
  <2> QED BY <2>1, <2>2 DEF PushersOK
<1>c. PoolOK'
  <2>1. \A u \in Callers : /\ lpc'[u] = "exchange" <=> lpc[u] = "exchange"
                           /\ lpc[u] = "exchange" => entry'[u] = entry[u]
    BY <1>3, <1>6
  <2> QED BY <1>3, <1>9, <2>1, ListNames DEF ListInv, PoolOK
<1>d. StubOK'
  BY <1>3, <1>6, <1>9, ListNames DEF ListInv, StubOK
<1> QED
  BY <1>3, <1>5, <1>9, <1>a, <1>b, <1>c, <1>d DEF ListInv

\* A step in which the consumer neither pushes nor links: the links stay.
Reading(label) ==
    /\ lpc[Consumer] \notin {"exchange", "link"} /\ label \notin {"exchange", "link"}
    /\ lpc' = [lpc EXCEPT ![Consumer] = label]
    /\ UNCHANGED <<next, list_head, entry, prev>>

LEMMA ReadingLinks ==
    ASSUME ListInv, NEW label, Reading(label)
    PROVE  /\ lpc'[Consumer] = label
           /\ \A t \in Callers : t # Consumer => lpc'[t] = lpc[t]
           /\ \A t \in Callers : /\ lpc'[t] = "link" <=> lpc[t] = "link"
                                 /\ lpc'[t] = "exchange" <=> lpc[t] = "exchange"
           /\ \A n \in Nodes : Links'[n] = Links[n]
<1>1. /\ lpc'[Consumer] = label
      /\ \A t \in Callers : t # Consumer => lpc'[t] = lpc[t]
  BY ListNames DEF ListInv, ListTypeOK, Reading
<1>2. \A t \in Callers : /\ lpc'[t] = "link" <=> lpc[t] = "link"
                         /\ lpc'[t] = "exchange" <=> lpc[t] = "exchange"
  BY <1>1 DEF Reading
<1>3. ASSUME NEW n \in Nodes
      PROVE  Links'[n] = Links[n]
  BY <1>2, LinksKept DEF Reading
<1> QED
  BY <1>1, <1>2, <1>3

LEMMA PopGotoInv ==
    ASSUME ListInv, NEW label, Reading(label), UNCHANGED <<list_tail, pool, popped>>,
           label = "push_stub" => Stub \notin Listed,
           label # "idle" => list_tail # Stub
    PROVE  ListInv' /\ OrderStays /\ UNCHANGED popped
<1>1. /\ lpc'[Consumer] = label
      /\ \A t \in Callers : /\ lpc'[t] = "link" <=> lpc[t] = "link"
                            /\ lpc'[t] = "exchange" <=> lpc[t] = "exchange"
      /\ \A n \in Nodes : Links'[n] = Links[n]
  BY ReadingLinks
<1>2. UNCHANGED <<next, list_head, entry, prev>> /\ DOMAIN lpc' = DOMAIN lpc
  BY DEF Reading
<1>3. ListEnds
  BY ListEndsFact
<1>4. LineOK' /\ Listed' = Listed /\ OrderStays
  BY <1>1, <1>2, <1>3, ListKept DEF OrderStays, ListEnds
<1>5. ListTypeOK'
  BY <1>2 DEF ListInv, ListTypeOK
<1>6. LinkersOK'
  BY <1>1, <1>2, <1>4 DEF ListInv, LinkersOK
<1>7. PushersOK'
  BY <1>1, <1>2, <1>4 DEF ListInv, PushersOK
<1>8. PoolOK'
  BY <1>1, <1>2, <1>4, ListNames DEF ListInv, PoolOK
<1>9. StubOK'
  BY <1>1, <1>4 DEF StubOK
<1> QED
  BY <1>4, <1>5, <1>6, <1>7, <1>8, <1>9 DEF ListInv

\* list_tail moves on; an entry it leaves is delivered.
LEMMA TailMovesInv ==
    ASSUME ListInv, NEW label, Reading(label), label # "push_stub",
           next[list_tail] # Null, list_tail' = next[list_tail],
           label # "idle" => list_tail = Stub,
           IF list_tail = Stub THEN UNCHANGED <<pool, popped>>
                               ELSE /\ pool' = pool \cup {list_tail}
                                    /\ popped' = Append(popped, list_tail)
    PROVE  ListInv'
<1>1. /\ lpc'[Consumer] = label
      /\ \A t \in Callers : /\ lpc'[t] = "link" <=> lpc[t] = "link"
                            /\ lpc'[t] = "exchange" <=> lpc[t] = "exchange"
      /\ \A n \in Nodes : Links'[n] = Links[n]
  BY ReadingLinks
<1>2. UNCHANGED <<next, list_head, entry, prev>> /\ DOMAIN lpc' = DOMAIN lpc
  BY DEF Reading
<1>3. ListEnds
  BY ListEndsFact
<1>4. /\ LineOK' /\ list_tail' \in Nodes /\ list_tail' \in Listed'
      /\ list_tail \notin Listed' /\ Listed = {list_tail} \cup Listed'
      /\ \A t \in Callers : lpc[t] = "link" => prev[t] \in Listed'
  BY <1>1, <1>2, ListMoves
<1>5. list_tail \in Nodes /\ (list_tail # Stub => list_tail \in Entries)
  BY <1>3, ListNames DEF ListEnds
<1>6. ListTypeOK'
  <2>1. pool' \in SUBSET Entries
    BY <1>5 DEF ListInv, ListTypeOK
  <2>2. popped' \in Seq(Entries)
    BY <1>5, AppendProperties DEF ListInv, ListTypeOK
  <2> QED BY <1>2, <1>4, <2>1, <2>2 DEF ListInv, ListTypeOK
<1>7. LinkersOK'
  BY <1>1, <1>2, <1>4 DEF ListInv, LinkersOK
<1>8. PushersOK'
  <2>1. \A t \in Callers : lpc[t] = "exchange" =>
           /\ entry[t] \in Nodes \ Listed' /\ next[entry[t]] = Null
           /\ entry[t] = Stub <=> t = Consumer
    BY <1>4 DEF ListInv, PushersOK
  <2> QED BY <1>1, <1>2, <2>1 DEF ListInv, PushersOK
<1>9. PoolOK'
  <2>1. pool' \cap Listed' = {}
    BY <1>4 DEF ListInv, PoolOK
  <2>2. ASSUME NEW t \in Callers, lpc[t] = "exchange"
        PROVE  entry[t] \notin pool'
    <3>1. entry[t] \notin Listed /\ entry[t] \notin pool
      BY <2>2 DEF ListInv, PoolOK, PushersOK
    <3>2. entry[t] # list_tail
      BY <1>4, <3>1
    <3> QED BY <3>1, <3>2
  <2>3. ASSUME NEW d \in Entries
        PROVE  \/ d \in pool' \/ d \in Listed'
               \/ \E u \in Producers : lpc[u] = "exchange" /\ entry[u] = d
    <3>1. \/ d \in pool \/ d \in Listed
          \/ \E u \in Producers : lpc[u] = "exchange" /\ entry[u] = d
      BY DEF ListInv, PoolOK
    <3>2. d # Stub
      BY ListNames
    <3> QED BY <1>4, <3>1, <3>2
  <2> QED BY <1>1, <1>2, <2>1, <2>2, <2>3, ListNames DEF PoolOK
<1>a. StubOK'
  BY <1>1, <1>4 DEF StubOK
<1> QED
  BY <1>4, <1>6, <1>7, <1>8, <1>9, <1>a DEF ListInv

-----------------------------------------------------------------------------
(* The steps of the list are steps of the queue *)

ListRefines == [ListAbstract!Next]_<<ListItems, {}, popped>>

\* The mapping is the one order of the line.
LEMMA ListItemsUnique ==
    ASSUME ListInv', NEW v, Orders(Links', list_tail', v)
    PROVE  ListItems' = v
<1>1. IsLine(Links', list_tail', list_head')
  BY DEF ListInv, LineOK
<1>2. Orders(Links', list_tail', ListItems')
  BY ListItemsOrderedNext DEF ListOrdered
<1>3. PICK R : R = Links'
  OBVIOUS
<1>4. PICK x : x = list_tail'
  OBVIOUS
<1>5. PICK h : h = list_head'
  OBVIOUS
<1>6. PICK w : w = ListItems'
  OBVIOUS
<1>7. IsLine(R, x, h) /\ Orders(R, x, v) /\ Orders(R, x, w)
  BY <1>1, <1>2, <1>3, <1>4, <1>5, <1>6
<1>8. v = w
  BY <1>7, OrderUnique
<1> QED
  BY <1>6, <1>8

LEMMA ListStutters ==
    ASSUME ListInv, ListInv', OrderStays, UNCHANGED popped
    PROVE  ListRefines
<1>1. PICK w : w = ListItems
  OBVIOUS
<1>2. Orders(Links, list_tail, w)
  BY <1>1, ListItemsOrdered DEF ListOrdered
<1>3. Orders(Links', list_tail', w)
  BY <1>2 DEF OrderStays
<1>4. ListItems' = w
  BY <1>3, ListItemsUnique
<1> QED
  BY <1>1, <1>4 DEF ListRefines

LEMMA ExchangeRefines ==
    ASSUME ListInv, NEW t \in Callers, Exchange(t)
    PROVE  ListRefines
<1>1. ListInv'
  BY ExchangeInv
<1>2. UNCHANGED <<entry, popped>> /\ lpc[t] = "exchange"
  BY DEF Exchange
<1>3. CASE t = Consumer
  <2>1. OrderStays
    BY <1>3, ListGrows DEF OrderStays
  <2> QED BY <1>1, <1>2, <2>1, ListStutters
<1>4. CASE t # Consumer
  <2>1. PICK e \in Entries : e = entry[t]
    <3>1. entry[t] \in Nodes /\ entry[t] # Stub
      BY <1>2, <1>4 DEF ListInv, PushersOK
    <3> QED BY <3>1, ListNames
  <2>2. PICK w : w = ListItems
    OBVIOUS
  <2>3. Orders(Links, list_tail, w)
    BY <2>2, ListItemsOrdered DEF ListOrdered
  <2>4. Orders(Links', list_tail', Append(w, e))
    BY <1>4, <2>1, <2>3, ListGrows
  <2>5. PICK v : v = Append(w, e)
    OBVIOUS
  <2>6. ListItems' = v
    BY <1>1, <2>4, <2>5, ListItemsUnique
  <2>7. ListItems' = Append(ListItems, e)
    BY <2>2, <2>5, <2>6
  <2>8. ListAbstract!Enqueue(e)
    BY <1>2, <2>7 DEF ListAbstract!Enqueue
  <2> QED BY <2>8 DEF ListAbstract!Next, ListRefines
<1> QED
  BY <1>3, <1>4

\* The consumer takes an entry off the list.
LEMMA DeliverRefines ==
    ASSUME ListInv, Deliver, next[list_tail] # Null, list_tail # Stub,
           lpc[Consumer] \notin {"exchange", "link"}
    PROVE  ListInv' /\ ListRefines
<1>1. Reading("idle")
  BY DEF Deliver, At, Reading
<1>2. /\ list_tail' = next[list_tail] /\ popped' = Append(popped, list_tail)
      /\ pool' = pool \cup {list_tail} /\ UNCHANGED list_head
  BY DEF Deliver
<1>3. PICK label : label = "idle"
  OBVIOUS
<1>4. Reading(label) /\ \A n \in Nodes : Links'[n] = Links[n]
  BY <1>1, <1>3, ReadingLinks
<1>5. ListInv'
  BY <1>2, <1>3, <1>4, TailMovesInv
<1>6. PICK w : w = ListItems
  OBVIOUS
<1>7. Orders(Links, list_tail, w)
  BY <1>6, ListItemsOrdered DEF ListOrdered
<1>8. w # <<>> /\ Head(w) = list_tail /\ Orders(Links', list_tail', Tail(w))
  BY <1>2, <1>4, <1>7, ListMoves
<1>9. PICK v : v = Tail(w)
  OBVIOUS
<1>a. ListItems' = v
  BY <1>5, <1>8, <1>9, ListItemsUnique
<1>b. ListAbstract!Dequeue
  BY <1>2, <1>6, <1>8, <1>9, <1>a DEF ListAbstract!Dequeue
<1> QED
  BY <1>5, <1>b DEF ListAbstract!Next, ListRefines

LEMMA PassStubRefines ==
    ASSUME ListInv, list_tail = Stub, next[list_tail] # Null,
           list_tail' = next[list_tail], UNCHANGED <<pool, popped>>, Reading("after_stub")
    PROVE  ListInv' /\ ListRefines
<1>1. PICK label : label = "after_stub"
  OBVIOUS
<1>2. Reading(label) /\ \A n \in Nodes : Links'[n] = Links[n]
  BY <1>1, ReadingLinks
<1>3. ListInv'
  BY <1>1, <1>2, TailMovesInv
<1>4. UNCHANGED list_head
  BY DEF Reading
<1>5. OrderStays
  BY <1>2, <1>4, ListMoves DEF OrderStays
<1> QED
  BY <1>3, <1>5, ListStutters

LEMMA GotoRefines ==
    ASSUME ListInv, NEW label, PopGoto(label), label \notin {"exchange", "link"},
           lpc[Consumer] \notin {"exchange", "link"},
           label = "push_stub" => Stub \notin Listed,
           label # "idle" => list_tail # Stub
    PROVE  ListInv' /\ ListRefines
<1>1. Reading(label) /\ UNCHANGED <<list_tail, pool, popped>>
  BY DEF PopGoto, At, Reading
<1>2. ListInv' /\ OrderStays /\ UNCHANGED popped
  BY <1>1, PopGotoInv
<1> QED
  BY <1>2, ListStutters

LEMMA PopRefines ==
    ASSUME ListInv, Pop \/ PopAfterStub \/ PopLoadHead \/ PopLast
    PROVE  ListInv' /\ ListRefines
<1>1. CASE Pop
  <2>1. lpc[Consumer] = "idle"
    BY <1>1 DEF Pop
  <2>2. CASE /\ list_tail = Stub /\ next[Stub] # Null /\ list_tail' = next[Stub]
             /\ At(Consumer, "after_stub")
             /\ UNCHANGED <<next, list_head, entry, prev, pushes, pool, popped>>
    <3>1. Reading("after_stub")
      BY <2>1, <2>2 DEF At, Reading
    <3> QED BY <2>2, <3>1, PassStubRefines
  <2>3. CASE list_tail # Stub /\ next[list_tail] # Null /\ Deliver
    BY <2>1, <2>3, DeliverRefines
  <2>4. CASE list_tail # Stub /\ next[list_tail] = Null /\ PopGoto("load_head")
    BY <2>1, <2>4, GotoRefines
  <2> QED BY <1>1, <2>2, <2>3, <2>4 DEF Pop
<1>2. CASE PopAfterStub
  <2>1. lpc[Consumer] = "after_stub" /\ list_tail # Stub
    BY <1>2 DEF PopAfterStub, ListInv, StubOK
  <2>2. CASE next[list_tail] # Null /\ Deliver
    BY <2>1, <2>2, DeliverRefines
  <2>3. CASE PopGoto("load_head")
    BY <2>1, <2>3, GotoRefines
  <2> QED BY <1>2, <2>2, <2>3 DEF PopAfterStub
<1>3. CASE PopLoadHead
  <2>1. lpc[Consumer] = "load_head" /\ list_tail # Stub
    BY <1>3 DEF PopLoadHead, ListInv, StubOK
  <2>2. CASE list_tail # list_head
    <3>1. PopGoto("idle")
      BY <1>3, <2>2 DEF PopLoadHead
    <3> QED BY <2>1, <3>1, GotoRefines
  <2>3. CASE list_tail = list_head
    <3>1. PopGoto("push_stub")
      BY <1>3, <2>3 DEF PopLoadHead
    <3>2. Stub \notin Listed
      <4>1. ListEnds
        BY ListEndsFact
      <4>2. list_tail \in Nodes /\ Links[list_tail] = {}
        BY <2>3, <4>1 DEF ListEnds
      <4>3. Reach(Links, list_tail) = {list_tail}
        BY <4>2, LinksType, ReachEnd
      <4> QED BY <2>1, <4>3 DEF Listed
    <3> QED BY <2>1, <3>1, <3>2, GotoRefines
  <2> QED BY <2>2, <2>3
<1>4. CASE PopLast
  <2>1. lpc[Consumer] = "last" /\ list_tail # Stub
    BY <1>4 DEF PopLast, ListInv, StubOK
  <2>2. CASE next[list_tail] # Null /\ Deliver
    BY <2>1, <2>2, DeliverRefines
  <2>3. CASE PopGoto("idle")
    BY <2>1, <2>3, GotoRefines
  <2> QED BY <1>4, <2>2, <2>3 DEF PopLast
<1> QED
  BY <1>1, <1>2, <1>3, <1>4

LEMMA ListInvStep == ListInv /\ [ListNext]_linkVars => ListInv' /\ ListRefines
<1> SUFFICES ASSUME ListInv, [ListNext]_linkVars
             PROVE  ListInv' /\ ListRefines
  OBVIOUS
<1>1. CASE UNCHANGED linkVars
  <2>1. UNCHANGED <<next, list_head, list_tail, lpc, entry, prev, pool, popped>>
    BY <1>1 DEF linkVars
  <2>2. UNCHANGED <<Links, ListItems>>
    BY <2>1 DEF Links, LeadsTo, ListItems, EntriesFrom
  <2>3. UNCHANGED Listed
    BY <2>1, <2>2 DEF Listed
  <2>4. ListInv'
    BY <2>1, <2>2, <2>3 DEF ListInv, ListTypeOK, LineOK, LinkersOK, PushersOK, PoolOK, StubOK
  <2> QED BY <2>1, <2>2, <2>4 DEF ListRefines
<1>2. ASSUME NEW p \in Producers, NEW e \in Entries, ListPush(p, e)
      PROVE  ListInv' /\ ListRefines
  BY <1>2, ListPushInv, ListStutters
<1>3. ASSUME NEW t \in Callers, Exchange(t)
      PROVE  ListInv' /\ ListRefines
  BY <1>3, ExchangeInv, ExchangeRefines
<1>4. ASSUME NEW t \in Callers, Link(t)
      PROVE  ListInv' /\ ListRefines
  BY <1>4, LinkInv, ListStutters
<1>5. CASE PopPushStub
  BY <1>5, PopPushStubInv, ListStutters
<1>6. CASE Pop \/ PopAfterStub \/ PopLoadHead \/ PopLast
  BY <1>6, PopRefines
<1>7. ListOver => UNCHANGED linkVars
  BY DEF ListOver, listVars
<1>8. ListNext => \/ \E p \in Producers, e \in Entries : ListPush(p, e)
                  \/ \E t \in Callers : Exchange(t) \/ Link(t)
                  \/ PopPushStub \/ Pop \/ PopAfterStub \/ PopLoadHead \/ PopLast \/ ListOver
  BY ListNames, Zenon DEF ListNext, Consuming, Producing
<1> QED
  BY <1>1, <1>2, <1>3, <1>4, <1>5, <1>6, <1>7, <1>8

-----------------------------------------------------------------------------
(* The list as a part of Queues *)

LEMMA ListPart == QueuesSpec => ListInit /\ [][ListNext]_linkVars
<1>1. QueuesInit => ListInit
  BY DEF QueuesInit
<1>2. [QueuesNext]_queueVars => [ListNext]_linkVars
  <2> SUFFICES ASSUME [QueuesNext]_queueVars
               PROVE  [ListNext]_linkVars
    OBVIOUS
  <2>1. CASE UNCHANGED queueVars
    BY <2>1 DEF queueVars
  <2>2. CASE kind = "list" /\ QueuesNext
    <3>1. \/ \E p \in Producers, e \in Entries : ListPush(p, e)
          \/ \E t \in Callers : Exchange(t) \/ Link(t)
          \/ PopPushStub \/ Pop \/ PopAfterStub \/ PopLoadHead \/ PopLast \/ ListOver
      BY <2>2, Zenon DEF QueuesNext, RingStep, ListStep, SlotStep
    <3> QED BY <3>1, ListNames, Zenon DEF ListNext, Consuming, Producing
  <2>3. CASE kind # "list" /\ QueuesNext
    BY <2>3, Zenon DEF QueuesNext, RingStep, ListStep, SlotStep
  <2> QED BY <2>1, <2>2, <2>3
<1> QED
  BY <1>1, <1>2, PTL DEF QueuesSpec

LEMMA ListInvAlways == QueuesSpec => []ListInv
  BY ListPart, ListInvInit, ListInvStep, PTL

\* The invariant says where every entry is.
LEMMA ListInvOwned == ListInv => EntriesOwned
<1> SUFFICES ASSUME ListInv
             PROVE  EntriesOwned
  OBVIOUS
<1> DEFINE listed  == {ListItems[i] : i \in DOMAIN ListItems}
           pushing == {entry[p] : p \in {q \in Producers : lpc[q] = "exchange"}}
<1>1. /\ listed = Behind(Links, list_tail)
      /\ Len(ListItems) = Cardinality(Behind(Links, list_tail))
  BY ListItemsOrdered DEF ListOrdered, Orders
<1>2. listed = Listed \cap Entries
  BY <1>1 DEF Behind, Listed
<1>3. \A t \in Callers : lpc[t] = "link" => prev[t] \notin pool
  BY DEF ListInv, LinkersOK, PoolOK
<1>4. \A e \in pushing : e \in Entries /\ e \notin Listed /\ e \notin pool
  <2> SUFFICES ASSUME NEW p \in Producers, lpc[p] = "exchange"
               PROVE  entry[p] \in Entries /\ entry[p] \notin Listed /\ entry[p] \notin pool
    OBVIOUS
  <2>1. p \in Callers /\ p # Consumer
    BY ListNames
  <2>2. entry[p] \in Nodes \ Listed /\ entry[p] # Stub /\ entry[p] \notin pool
    BY <2>1 DEF ListInv, PushersOK, PoolOK
  <2> QED BY <2>2, ListNames
<1>5. pool \in SUBSET Entries /\ pool \cap Listed = {}
  BY DEF ListInv, ListTypeOK, PoolOK
<1>6. \A e \in Entries : e \in pool \/ e \in Listed \/ e \in pushing
  BY DEF ListInv, PoolOK
<1> HIDE DEF listed, pushing
<1>7. pool \cup listed \cup pushing = Entries
  BY <1>2, <1>4, <1>5, <1>6
<1>8. pool \cap listed = {} /\ (pool \cup listed) \cap pushing = {}
  BY <1>2, <1>4, <1>5
<1>9. /\ IsFiniteSet(pool) /\ IsFiniteSet(listed) /\ IsFiniteSet(pushing)
      /\ IsFiniteSet(pool \cup listed)
  <2>1. /\ pool \in SUBSET Entries /\ listed \in SUBSET Entries /\ pushing \in SUBSET Entries
        /\ pool \cup listed \in SUBSET Entries
    BY <1>2, <1>4, <1>5
  <2> QED BY <2>1, FS_Subset, IntrusiveAssumption
<1>a. /\ Cardinality(pool) \in Nat /\ Cardinality(listed) \in Nat /\ Cardinality(pushing) \in Nat
      /\ Cardinality(pool \cup listed) \in Nat
  BY <1>9, FS_CardinalityType
<1>b. Cardinality(pool \cup listed) = Cardinality(pool) + Cardinality(listed)
  <2>1. Cardinality(pool \cup listed)
           = Cardinality(pool) + Cardinality(listed) - Cardinality(pool \cap listed)
    BY <1>9, FS_Union
  <2>2. Cardinality(pool \cap listed) = 0
    BY <1>8, FS_EmptySet
  <2> QED BY <1>a, <2>1, <2>2
<1>c. Cardinality((pool \cup listed) \cup pushing)
         = Cardinality(pool \cup listed) + Cardinality(pushing)
  <2>1. Cardinality((pool \cup listed) \cup pushing)
           = Cardinality(pool \cup listed) + Cardinality(pushing)
             - Cardinality((pool \cup listed) \cap pushing)
    BY <1>9, FS_Union
  <2>2. Cardinality((pool \cup listed) \cap pushing) = 0
    BY <1>8, FS_EmptySet
  <2> QED BY <1>a, <2>1, <2>2
<1>d. Cardinality(pool) + Cardinality(listed) + Cardinality(pushing) = Cardinality(Entries)
  BY <1>7, <1>b, <1>c
<1>e. Cardinality(pool) + Len(ListItems) + Cardinality(pushing) = Cardinality(Entries)
  BY <1>1, <1>d
<1> QED
  BY <1>3, <1>7, <1>e DEF EntriesOwned, listed, pushing

\* MPSCIntrusiveQueue never gives the consumer an entry that a producer is
\* still going to store through, for any number of producers and every finite
\* set of entries: an entry is in the client's hands, in the list or with the
\* one producer that is about to push it, never in two of these and never lost.
THEOREM EntriesAlwaysOwned == QueuesSpec => []EntriesOwned
  BY ListInvAlways, ListInvOwned, PTL

\* MPSCIntrusiveQueue implements the queue, for any number of producers and
\* every finite set of entries: pop() returns entries in the order of the
\* exchanges on head_, however late the links are stored and wherever the stub
\* is in the list.
THEOREM ListImplements == QueuesSpec => ListImplementsQueue
<1>1. ListInit => ListAbstract!Init
  BY ListInvInit DEF ListAbstract!Init
<1>2. ListInv /\ [ListNext]_linkVars => [ListAbstract!Next]_<<ListItems, {}, popped>>
  BY ListInvStep DEF ListRefines
<1> QED
  BY <1>1, <1>2, ListPart, ListInvAlways, PTL DEF ListImplementsQueue, ListAbstract!Spec
=============================================================================
