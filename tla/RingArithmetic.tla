---------------------------- MODULE RingArithmetic ----------------------------
(***************************************************************************)
(* Positions and slot indices: a position grows for ever, its slot is the    *)
(* position modulo a capacity that need not be a power of two.  And segments:  *)
(* the elements a history holds between two positions, as a sequence.          *)
(***************************************************************************)
EXTENDS Integers, SequenceTheorems, TLAPS

\* Multiplying by a natural number keeps the order.
LEMMA TimesMonotone ==
  ASSUME NEW a \in Int, NEW b \in Int, NEW n \in Nat, a <= b
  PROVE  a * n <= b * n
OBVIOUS

\* Quotient and remainder make up the dividend.
LEMMA DivisionTheorem ==
  ASSUME NEW a \in Nat, NEW n \in Nat \ {0}
  PROVE  /\ a % n \in 0..(n - 1)
         /\ (a \div n) \in Nat
         /\ a = (a \div n) * n + (a % n)
OBVIOUS

\* They are the only ones that do.
LEMMA DivisionUnique ==
  ASSUME NEW q1 \in Nat, NEW q2 \in Nat, NEW n \in Nat \ {0},
         NEW r1 \in 0..(n - 1), NEW r2 \in 0..(n - 1),
         q1 * n + r1 = q2 * n + r2
  PROVE  q1 = q2 /\ r1 = r2
<1>1. CASE q1 < q2
  <2>1. (q1 + 1) * n <= q2 * n  BY <1>1, TimesMonotone
  <2>2. (q1 + 1) * n = q1 * n + n  OBVIOUS
  <2> QED BY <2>1, <2>2
<1>2. CASE q2 < q1
  <2>1. (q2 + 1) * n <= q1 * n  BY <1>2, TimesMonotone
  <2>2. (q2 + 1) * n = q2 * n + n  OBVIOUS
  <2> QED BY <2>1, <2>2
<1>3. CASE q1 = q2  BY <1>3
<1> QED BY <1>1, <1>2, <1>3

\* A remainder is known as soon as some decomposition is.
LEMMA RemainderUnique ==
  ASSUME NEW a \in Nat, NEW n \in Nat \ {0}, NEW q \in Nat, NEW r \in 0..(n - 1),
         a = q * n + r
  PROVE  a % n = r
<1>1. PICK q2 \in Nat, r2 \in 0..(n - 1) : a = q2 * n + r2 /\ r2 = a % n  BY DivisionTheorem
<1>2. q * n + r = q2 * n + r2  BY <1>1
<1>3. r = r2  BY <1>2, DivisionUnique
<1> QED BY <1>1, <1>3

\* The slot of a position a few elements further on: the incremental advance of
\* an index with at most one wrap, as shared_ring.cpp computes it.
LEMMA SlotAdvance ==
  ASSUME NEW a \in Nat, NEW n \in Nat \ {0}, NEW i \in 0..n
  PROVE  (a + i) % n = IF (a % n) + i >= n THEN (a % n) + i - n ELSE (a % n) + i
<1>0. a + i \in Nat  OBVIOUS
<1>1. PICK q \in Nat, r \in 0..(n - 1) : a = q * n + r /\ r = a % n  BY DivisionTheorem
<1>2. a % n = r  BY <1>1
<1>3. (q + 1) * n = q * n + n  OBVIOUS
<1>4. CASE r + i >= n
  <2>1. (q + 1) \in Nat /\ r + i - n \in 0..(n - 1)  BY <1>4
  <2>2. a + i = (q + 1) * n + (r + i - n)  BY <1>1, <1>3
  <2>3. (a + i) % n = r + i - n  BY <1>0, <2>1, <2>2, RemainderUnique
  <2> QED BY <2>3, <1>2, <1>4
<1>5. CASE r + i < n
  <2>1. r + i \in 0..(n - 1)  BY <1>5
  <2>2. a + i = q * n + (r + i)  BY <1>1
  <2>3. (a + i) % n = r + i  BY <1>0, <2>1, <2>2, RemainderUnique
  <2> QED BY <2>3, <1>2, <1>5
<1> QED BY <1>4, <1>5

\* Two positions less than a ring apart have different slots.
LEMMA SlotsDistinct ==
  ASSUME NEW a \in Nat, NEW b \in Nat, NEW n \in Nat \ {0}, a < b, b < a + n
  PROVE  a % n # b % n
<1>1. b - a \in 0..n /\ a + (b - a) = b  OBVIOUS
<1>2. b % n = IF (a % n) + (b - a) >= n THEN (a % n) + (b - a) - n ELSE (a % n) + (b - a)
  BY <1>1, SlotAdvance
<1>3. a % n \in 0..(n - 1)  BY DivisionTheorem
<1> QED BY <1>2, <1>3

\* So within one ring's length a slot has only one position.
LEMMA SlotsInjective ==
  ASSUME NEW low \in Nat, NEW n \in Nat \ {0}, NEW a \in Nat, NEW b \in Nat,
         low <= a, a < low + n, low <= b, b < low + n, a % n = b % n
  PROVE  a = b
<1>1. CASE a < b
  <2>1. b < a + n  OBVIOUS
  <2> QED BY <1>1, <2>1, SlotsDistinct
<1>2. CASE b < a
  <2>1. a < b + n  OBVIOUS
  <2> QED BY <1>2, <2>1, SlotsDistinct
<1> QED BY <1>1, <1>2

-----------------------------------------------------------------------------
(* Segments of a history.                                                   *)

\* Elements low..high-1 of f are in S.
Within(f, S, low, high) == \A p \in Nat : low <= p /\ p < high => f[p] \in S

\* Those elements, in order.
Segment(f, low, high) == [i \in 1..(high - low) |-> f[low + i - 1]]

\* A segment is a sequence of its length.
LEMMA SegmentIsSeq ==
  ASSUME NEW f, NEW S, NEW low \in Nat, NEW high \in Nat, low <= high,
         Within(f, S, low, high)
  PROVE  /\ Segment(f, low, high) \in [1..(high - low) -> S]
         /\ Segment(f, low, high) \in Seq(S)
         /\ Len(Segment(f, low, high)) = high - low
<1>1. high - low \in Nat  OBVIOUS
<1>2. Segment(f, low, high) \in [1..(high - low) -> S]
  BY DEF Segment, Within
<1>3. Segment(f, low, high) \in Seq(S)  BY <1>1, <1>2, SeqDef
<1>4. Len(Segment(f, low, high)) \in Nat /\ DOMAIN Segment(f, low, high) = 1..Len(Segment(f, low, high))
  BY <1>3, LenProperties
<1>5. DOMAIN Segment(f, low, high) = 1..(high - low)  BY DEF Segment
<1> QED BY <1>1, <1>2, <1>3, <1>4, <1>5

\* Adjacent segments join.
LEMMA SegmentsJoin ==
  ASSUME NEW f, NEW S, NEW low \in Nat, NEW mid \in Nat, NEW high \in Nat,
         low <= mid, mid <= high, Within(f, S, low, high)
  PROVE  Segment(f, low, mid) \o Segment(f, mid, high) = Segment(f, low, high)
<1> DEFINE s == Segment(f, low, mid)
           t == Segment(f, mid, high)
           u == Segment(f, low, high)
<1>0. /\ low <= high
      /\ Within(f, S, low, mid) /\ Within(f, S, mid, high)
  BY DEF Within
<1>1. s \in Seq(S) /\ Len(s) = mid - low  BY <1>0, SegmentIsSeq
<1>2. t \in Seq(S) /\ Len(t) = high - mid  BY <1>0, SegmentIsSeq
<1>3. u \in Seq(S) /\ Len(u) = high - low  BY <1>0, SegmentIsSeq
<1>4. /\ s \o t \in Seq(S) /\ Len(s \o t) = (mid - low) + (high - mid)
      /\ \A i \in 1..((mid - low) + (high - mid)) :
           (s \o t)[i] = IF i <= mid - low THEN s[i] ELSE t[i - (mid - low)]
  <2> HIDE DEF s, t
  <2>1. /\ s \o t \in Seq(S) /\ Len(s \o t) = Len(s) + Len(t)
        /\ \A i \in 1..(Len(s) + Len(t)) :
             (s \o t)[i] = IF i <= Len(s) THEN s[i] ELSE t[i - Len(s)]
    BY <1>1, <1>2, ConcatProperties
  <2> QED BY <1>1, <1>2, <2>1
<1>5. ASSUME NEW i \in 1..Len(u)  PROVE (s \o t)[i] = u[i]
  <2>1. i \in 1..(high - low) /\ u[i] = f[low + i - 1]  BY <1>3, <1>5 DEF Segment
  <2>2. CASE i <= mid - low
    <3>1. s[i] = f[low + i - 1]  BY <2>1, <2>2 DEF Segment
    <3> QED BY <3>1, <2>1, <2>2, <1>4
  <2>3. CASE ~(i <= mid - low)
    <3>1. i - (mid - low) \in 1..(high - mid)  BY <2>1, <2>3
    <3>2. t[i - (mid - low)] = f[mid + (i - (mid - low)) - 1]  BY <3>1 DEF Segment
    <3>3. mid + (i - (mid - low)) - 1 = low + i - 1  BY <2>1
    <3> QED BY <3>2, <3>3, <2>1, <2>3, <1>4
  <2> QED BY <2>2, <2>3
<1>6. Len(s \o t) = Len(u)  BY <1>3, <1>4
<1> HIDE DEF s, t, u
<1>7. s \o t = u  BY <1>3, <1>4, <1>5, <1>6, SeqEqual
<1> QED BY <1>7 DEF s, t, u

\* The first and the last elements of a segment are segments.
LEMMA SegmentSplits ==
  ASSUME NEW f, NEW S, NEW low \in Nat, NEW mid \in Nat, NEW high \in Nat,
         low <= mid, mid <= high, Within(f, S, low, high)
  PROVE  /\ SubSeq(Segment(f, low, high), 1, mid - low) = Segment(f, low, mid)
         /\ SubSeq(Segment(f, low, high), (mid - low) + 1, high - low) = Segment(f, mid, high)
<1> DEFINE s == Segment(f, low, mid)
           t == Segment(f, mid, high)
           u == Segment(f, low, high)
           n == mid - low
           a == SubSeq(u, 1, n)
           b == SubSeq(u, n + 1, high - low)
<1>0. /\ n \in Nat /\ high - low \in Nat /\ low <= high
      /\ Within(f, S, low, mid) /\ Within(f, S, mid, high)
  BY DEF Within
<1>1. s \in Seq(S) /\ Len(s) = n  BY <1>0, SegmentIsSeq
<1>2. t \in Seq(S) /\ Len(t) = high - mid  BY <1>0, SegmentIsSeq
<1>3. u \in [1..(high - low) -> S]  BY <1>0, SegmentIsSeq
<1>4. /\ a \in Seq(S) /\ Len(a) = n
      /\ \A i \in 1..n : a[i] = u[i]
  <2>1. \A i \in 1..n : u[i] \in S  BY <1>3
  <2> HIDE DEF u, n
  <2>2. /\ a \in Seq(S) /\ Len(a) = IF 1 <= n THEN n - 1 + 1 ELSE 0
        /\ \A i \in 1..(n - 1 + 1) : a[i] = u[1 + i - 1]
    BY <1>0, <2>1, SubSeqProperties
  <2> QED BY <1>0, <2>2
<1>5. /\ b \in Seq(S) /\ Len(b) = high - mid
      /\ \A i \in 1..(high - mid) : b[i] = u[n + i]
  <2>1. \A i \in (n + 1)..(high - low) : u[i] \in S  BY <1>3
  <2>2. n + 1 \in Int /\ high - low \in Int /\ (high - low) - (n + 1) + 1 = high - mid
    BY <1>0
  <2> HIDE DEF u, n
  <2>3. /\ b \in Seq(S) /\ Len(b) = IF n + 1 <= high - low THEN (high - low) - (n + 1) + 1 ELSE 0
        /\ \A i \in 1..((high - low) - (n + 1) + 1) : b[i] = u[(n + 1) + i - 1]
    BY <2>2, <2>1, SubSeqProperties
  <2>4. \A i \in 1..(high - mid) : (n + 1) + i - 1 = n + i  BY <1>0
  <2>5. Len(b) = high - mid  BY <2>2, <2>3, <1>0 DEF n
  <2> QED BY <2>2, <2>3, <2>4, <2>5
<1>6. \A i \in 1..n : u[i] = s[i]  BY <1>0 DEF Segment
<1>7. \A i \in 1..(high - mid) : u[n + i] = t[i]
  <2> TAKE i \in 1..(high - mid)
  <2>1. n + i \in 1..(high - low) /\ low + (n + i) - 1 = mid + i - 1  OBVIOUS
  <2> QED BY <2>1 DEF Segment
<1> HIDE DEF s, t, u, a, b, n
<1>8. a = s  BY <1>1, <1>4, <1>6, SeqEqual
<1>9. b = t  BY <1>2, <1>5, <1>7, SeqEqual
<1> QED BY <1>8, <1>9 DEF s, t, u, a, b, n

\* Two histories that agree on a range have the same segment there.
LEMMA SegmentsEqual ==
  ASSUME NEW f, NEW g, NEW low \in Nat, NEW high \in Nat,
         \A p \in Nat : low <= p /\ p < high => f[p] = g[p]
  PROVE  Segment(f, low, high) = Segment(g, low, high)
<1>1. ASSUME NEW i \in 1..(high - low)  PROVE f[low + i - 1] = g[low + i - 1]
  <2>1. low + i - 1 \in Nat /\ low <= low + i - 1 /\ low + i - 1 < high  OBVIOUS
  <2> QED BY <2>1
<1> QED BY <1>1 DEF Segment
=============================================================================
