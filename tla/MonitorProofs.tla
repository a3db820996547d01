---------------------------- MODULE MonitorProofs ----------------------------
(***************************************************************************)
(* Proofs about the monitor, for any consumers, measurements, history size *)
(* and capacity of the channels.                                           *)
(***************************************************************************)
EXTENDS Monitor, FiniteSetTheorems, WellFoundedInduction, SequenceTheorems, TLAPS

-----------------------------------------------------------------------------
(* The score of the monitor                                                *)

\* Rounding keeps order and, with it, bounds that are whole units.
LEMMA RoundedMonotone ==
  ASSUME NEW x \in Nat, NEW y \in Nat, x <= y
  PROVE  Rounded(x, 600) \in Nat /\ Rounded(x, 600) <= Rounded(y, 600)
BY SMT DEF Rounded

LEMMA RoundedWhole ==
  ASSUME NEW n \in Nat
  PROVE  Rounded(600 * n, 600) = n
BY SMT DEF Rounded

LEMMA PartsInRange ==
  ASSUME NEW x \in Nat
  PROVE  /\ LatencyPart(x) \in Nat /\ LatencyPart(x) <= 600 * 3500
         /\ JitterPart(x) \in Nat /\ JitterPart(x) <= 600 * 1500
         /\ LossPart(x) \in Nat /\ LossPart(x) <= 600 * 2500
<1>1. LatencyPart(x) \in Nat /\ LatencyPart(x) <= 600 * 3500
  BY SMT DEF LatencyPart, PosPart
<1>2. JitterPart(x) \in Nat /\ JitterPart(x) <= 600 * 1500
  BY SMT DEF JitterPart, PosPart
<1>3. LossPart(x) \in Nat /\ LossPart(x) <= 600 * 2500
  BY SMT DEF LossPart, PosPart
<1> QED
  BY <1>1, <1>2, <1>3, SMT

LEMMA SpeedInRange ==
  ASSUME NEW up \in Nat, NEW down \in Nat
  PROVE  SpeedPart(up, down) \in Nat /\ SpeedPart(up, down) <= 600 * 2500
BY SMT DEF SpeedPart, AtMost

\* A score is one of 0 to 100 points, whatever was measured
\* ("network quality score (0-100, higher = better)", monitor.go:39).
THEOREM ScoreInRange ==
  ASSUME NEW latency \in Nat, NEW jitter \in Nat, NEW loss \in Nat,
         NEW up \in Nat, NEW down \in Nat
  PROVE  /\ ComputeScore(latency, jitter, loss, up, down) \in Nat
         /\ ComputeScore(latency, jitter, loss, up, down) <= 10000
<1> DEFINE x == LatencyPart(latency) + JitterPart(jitter) + LossPart(loss)
                  + SpeedPart(up, down)
<1>1. x \in Nat /\ x <= 600 * 10000
  <2> DEFINE a == LatencyPart(latency)
             b == JitterPart(jitter)
             c == LossPart(loss)
             d == SpeedPart(up, down)
  <2>1. /\ a \in Nat /\ a <= 600 * 3500 /\ b \in Nat /\ b <= 600 * 1500
        /\ c \in Nat /\ c <= 600 * 2500 /\ d \in Nat /\ d <= 600 * 2500
    <3>1. d \in Nat /\ d <= 600 * 2500
      BY SpeedInRange, SMT
    <3> QED
      BY <3>1, PartsInRange, SMT
  <2> HIDE DEF a, b, c, d
  <2>2. a + b + c + d \in Nat /\ a + b + c + d <= 600 * 10000
    BY <2>1, SMT
  <2> QED
    BY <2>2, SMT DEF a, b, c, d
<1>2. Rounded(x, 600) \in Nat /\ Rounded(x, 600) <= Rounded(600 * 10000, 600)
  <2> DEFINE y == 600 * 10000
  <2>1. y \in Nat /\ x <= y
    BY <1>1, SMT
  <2> HIDE DEF x, y
  <2>2. Rounded(x, 600) \in Nat /\ Rounded(x, 600) <= Rounded(y, 600)
    BY <1>1, <2>1, RoundedMonotone, SMT
  <2> QED
    BY <2>2, SMT DEF y
<1>3. Rounded(600 * 10000, 600) = 10000
  BY RoundedWhole, SMT
<1> QED
  BY <1>2, <1>3, SMT DEF ComputeScore

\* Without speeds no measurement, however good, gives more than 75 points; and
\* the daemon never has speeds, since only tests call UpdateSpeeds
\* (monitor.go:159, 182).
THEOREM ScoreWithoutSpeeds ==
  ASSUME NEW latency \in Nat, NEW jitter \in Nat, NEW loss \in Nat
  PROVE  /\ ComputeScore(latency, jitter, loss, 0, 0) \in Nat
         /\ ComputeScore(latency, jitter, loss, 0, 0) <= 7500
<1> DEFINE x == LatencyPart(latency) + JitterPart(jitter) + LossPart(loss)
                  + SpeedPart(0, 0)
<1>1. SpeedPart(0, 0) = 0
  BY SMT DEF SpeedPart, AtMost
<1>2. x \in Nat /\ x <= 600 * 7500
  <2> DEFINE a == LatencyPart(latency)
             b == JitterPart(jitter)
             c == LossPart(loss)
             d == SpeedPart(0, 0)
  <2>1. /\ a \in Nat /\ a <= 600 * 3500 /\ b \in Nat /\ b <= 600 * 1500
        /\ c \in Nat /\ c <= 600 * 2500 /\ d \in Nat /\ d <= 0
    BY <1>1, PartsInRange, SMT
  <2> HIDE DEF a, b, c, d
  <2>2. a + b + c + d \in Nat /\ a + b + c + d <= 600 * 7500
    BY <2>1, SMT
  <2> QED
    BY <2>2, SMT DEF a, b, c, d
<1>3. Rounded(x, 600) \in Nat /\ Rounded(x, 600) <= Rounded(600 * 7500, 600)
  <2> DEFINE y == 600 * 7500
  <2>1. y \in Nat /\ x <= y
    BY <1>2, SMT
  <2> HIDE DEF x, y
  <2>2. Rounded(x, 600) \in Nat /\ Rounded(x, 600) <= Rounded(y, 600)
    BY <1>2, <2>1, RoundedMonotone, SMT
  <2> QED
    BY <2>2, SMT DEF y
<1>4. Rounded(600 * 7500, 600) = 7500
  BY RoundedWhole, SMT
<1> QED
  BY <1>3, <1>4, SMT DEF ComputeScore

LEMMA PartsAntitone ==
  ASSUME NEW x \in Nat, NEW y \in Nat, x <= y
  PROVE  /\ LatencyPart(y) <= LatencyPart(x)
         /\ JitterPart(y) <= JitterPart(x)
         /\ LossPart(y) <= LossPart(x)
BY SMT DEF LatencyPart, JitterPart, LossPart, PosPart

LEMMA SpeedMonotone ==
  ASSUME NEW u \in Nat, NEW v \in Nat, NEW d \in Nat, NEW e \in Nat, u <= v, d <= e
  PROVE  SpeedPart(u, d) <= SpeedPart(v, e)
BY SMT DEF SpeedPart, AtMost

\* A network that is at least as good in everything never scores less, although
\* latencies over 150 ms have a formula of their own (monitor.go:42-45).
THEOREM ScoreMonotone ==
  ASSUME NEW l1 \in Nat, NEW l2 \in Nat, l1 <= l2,
         NEW j1 \in Nat, NEW j2 \in Nat, j1 <= j2,
         NEW p1 \in Nat, NEW p2 \in Nat, p1 <= p2,
         NEW u1 \in Nat, NEW u2 \in Nat, u2 <= u1,
         NEW d1 \in Nat, NEW d2 \in Nat, d2 <= d1
  PROVE  ComputeScore(l2, j2, p2, u2, d2) <= ComputeScore(l1, j1, p1, u1, d1)
<1> DEFINE Total(l, j, p, u, d) ==
      LatencyPart(l) + JitterPart(j) + LossPart(p) + SpeedPart(u, d)
<1>1. /\ LatencyPart(l2) <= LatencyPart(l1)
      /\ JitterPart(j2) <= JitterPart(j1)
      /\ LossPart(p2) <= LossPart(p1)
  BY PartsAntitone, SMT
<1>2. SpeedPart(u2, d2) <= SpeedPart(u1, d1)
  BY SpeedMonotone, SMT
<1>3. /\ Total(l1, j1, p1, u1, d1) \in Nat /\ Total(l2, j2, p2, u2, d2) \in Nat
      /\ Total(l2, j2, p2, u2, d2) <= Total(l1, j1, p1, u1, d1)
  <2>1. LatencyPart(l1) \in Nat /\ LatencyPart(l2) \in Nat
    BY PartsInRange, SMT
  <2>2. JitterPart(j1) \in Nat /\ JitterPart(j2) \in Nat
    BY PartsInRange, SMT
  <2>3. LossPart(p1) \in Nat /\ LossPart(p2) \in Nat
    BY PartsInRange, SMT
  <2>4. SpeedPart(u1, d1) \in Nat
    BY SpeedInRange, SMT
  <2>5. SpeedPart(u2, d2) \in Nat
    BY SpeedInRange, SMT
  <2> QED
    BY <1>1, <1>2, <2>1, <2>2, <2>3, <2>4, <2>5, SMT
<1> HIDE DEF Total
<1>4. Rounded(Total(l2, j2, p2, u2, d2), 600) <= Rounded(Total(l1, j1, p1, u1, d1), 600)
  BY <1>3, RoundedMonotone, SMT
<1> QED
  BY <1>4, SMT DEF ComputeScore, Total

-----------------------------------------------------------------------------
(* Least and greatest elements                                             *)

Below == {p \in Nat \X Nat : p[1] < p[2]}

\* The natural numbers are well-founded.
LEMMA Least ==
  ASSUME NEW S \in SUBSET Nat, S # {}
  PROVE  \E x \in S : \A y \in S : x <= y
<1>1. IsWellFoundedOn(Below, Nat)
  BY NatLessThanWellFounded DEF Below, OpToRel
<1>2. PICK x \in S : \A y \in S : ~(<<y, x>> \in Below)
  BY <1>1, WFMin
<1>3. ASSUME NEW y \in S PROVE x <= y
  <2>1. x \in Nat /\ y \in Nat
    OBVIOUS
  <2>2. ~(<<y, x>> \in Below)
    BY <1>2
  <2>3. ~(y < x)
    BY <2>1, <2>2 DEF Below
  <2> QED
    BY <2>1, <2>3
<1> QED
  BY <1>3

LEMMA MinIs ==
  ASSUME NEW S \in SUBSET Int, NEW x \in S, \A y \in S : x <= y
  PROVE  Min(S) = x
<1>1. Min(S) \in S /\ \A y \in S : Min(S) <= y
  BY Zenon DEF Min
<1>2. Min(S) \in Int /\ x \in Int /\ Min(S) <= x /\ x <= Min(S)
  BY <1>1
<1> QED
  BY <1>2

LEMMA MaxIs ==
  ASSUME NEW S \in SUBSET Int, NEW x \in S, \A y \in S : x >= y
  PROVE  Max(S) = x
<1>1. Max(S) \in S /\ \A y \in S : Max(S) >= y
  BY Zenon DEF Max
<1>2. Max(S) \in Int /\ x \in Int /\ Max(S) >= x /\ x >= Max(S)
  BY <1>1
<1> QED
  BY <1>2

\* One of the first k elements is the greatest of them.
HasTop(s, k) == \E i \in 1 .. k : \A j \in 1 .. k : s[i] >= s[j]

\* A sequence of natural numbers that is not empty has a least element and a
\* greatest one: among the lengths of prefixes that have none, none is the least.
LEMMA Extremes ==
  ASSUME NEW s \in Seq(Nat), s # << >>
  PROVE  /\ \E i \in 1 .. Len(s) : \A j \in 1 .. Len(s) : s[i] <= s[j]
         /\ \E i \in 1 .. Len(s) : \A j \in 1 .. Len(s) : s[i] >= s[j]
<1>1. Len(s) \in Nat \ {0} /\ \A i \in 1 .. Len(s) : s[i] \in Nat
  OBVIOUS
<1>2. \E i \in 1 .. Len(s) : \A j \in 1 .. Len(s) : s[i] <= s[j]
  <2> DEFINE S == {s[i] : i \in 1 .. Len(s)}
  <2>1. S \in SUBSET Nat /\ S # {}
    BY <1>1
  <2>2. PICK x \in S : \A y \in S : x <= y
    BY <2>1, Least
  <2> QED
    BY <2>2
<1>3. HasTop(s, Len(s))
  <2> DEFINE B == {k \in 1 .. Len(s) : ~HasTop(s, k)}
  <2>1. ASSUME B # {} PROVE FALSE
    <3>1. B \in SUBSET Nat
      OBVIOUS
    <3>2. PICK k \in B : \A y \in B : k <= y
      BY <2>1, <3>1, Least
    <3>3. k \in 1 .. Len(s) /\ ~HasTop(s, k)
      OBVIOUS
    <3>4. CASE k = 1
      <4>1. 1 \in 1 .. Len(s) /\ 1 \in 1 .. 1 /\ \A j \in 1 .. 1 : j = 1
        BY <1>1
      <4>2. s[1] >= s[1]
        BY <1>1, <4>1
      <4>3. HasTop(s, 1)
        BY <4>1, <4>2 DEF HasTop
      <4> QED
        BY <3>3, <3>4, <4>3
    <3>5. CASE k # 1
      <4>1. k - 1 \in 1 .. Len(s) /\ k - 1 < k /\ k \in Nat
        BY <1>1, <3>3, <3>5
      <4>2. HasTop(s, k - 1)
        <5>1. ~(k <= k - 1)
          BY <4>1
        <5>2. k - 1 \notin B
          BY <3>2, <5>1
        <5> QED
          BY <4>1, <5>2
      <4>3. PICK i \in 1 .. (k - 1) : \A j \in 1 .. (k - 1) : s[i] >= s[j]
        BY <4>2 DEF HasTop
      <4>4. \A j \in 1 .. k : j \in 1 .. Len(s) /\ (j \in 1 .. (k - 1) \/ j = k)
        BY <1>1, <3>3
      <4>5. i \in 1 .. k /\ k \in 1 .. k
        BY <4>1
      <4>6. CASE s[i] >= s[k]
        BY <3>3, <4>3, <4>4, <4>5, <4>6 DEF HasTop
      <4>7. CASE ~(s[i] >= s[k])
        <5>1. \A j \in 1 .. k : s[k] >= s[j]
          BY <1>1, <4>3, <4>4, <4>5, <4>7
        <5> QED
          BY <3>3, <4>5, <5>1 DEF HasTop
      <4> QED
        BY <4>6, <4>7
    <3> QED
      BY <3>4, <3>5
  <2>2. Len(s) \in 1 .. Len(s)
    BY <1>1
  <2> QED
    BY <2>1, <2>2
<1> QED
  BY <1>2, <1>3 DEF HasTop

\* What Min and Max of its range are.
LEMMA ExtremesOfRange ==
  ASSUME NEW s \in Seq(Nat), s # << >>
  PROVE  /\ \E i \in 1 .. Len(s) : s[i] = Min(Range(s))
         /\ \E i \in 1 .. Len(s) : s[i] = Max(Range(s))
         /\ \A i \in 1 .. Len(s) : Min(Range(s)) <= s[i] /\ Max(Range(s)) >= s[i]
<1>1. PICK i \in 1 .. Len(s) : \A j \in 1 .. Len(s) : s[i] <= s[j]
  BY Extremes
<1>2. PICK k \in 1 .. Len(s) : \A j \in 1 .. Len(s) : s[k] >= s[j]
  BY Extremes
<1>3. Range(s) = {s[j] : j \in 1 .. Len(s)} /\ Range(s) \in SUBSET Int
  BY DEF Range
<1>4. Min(Range(s)) = s[i]
  BY <1>1, <1>3, MinIs
<1>5. Max(Range(s)) = s[k]
  BY <1>2, <1>3, MaxIs
<1> QED
  BY <1>1, <1>2, <1>4, <1>5

LEMMA MinOfTwo ==
  ASSUME NEW a \in Int, NEW b \in Int
  PROVE  Min({a, b}) = IF a <= b THEN a ELSE b
<1>1. CASE a <= b
  BY <1>1, MinIs
<1>2. CASE ~(a <= b)
  BY <1>2, MinIs
<1> QED
  BY <1>1, <1>2

LEMMA MaxOfTwo ==
  ASSUME NEW a \in Int, NEW b \in Int
  PROVE  Max({a, b}) = IF a >= b THEN a ELSE b
<1>1. CASE a >= b
  BY <1>1, MaxIs
<1>2. CASE ~(a >= b)
  BY <1>2, MaxIs
<1> QED
  BY <1>1, <1>2

-----------------------------------------------------------------------------
(* The invariant                                                           *)

\* Point i of a slice, when the arrays are a; and a slice within its array.
At(a, h, i) == a[h.array][h.first + i - 1]
Fits(a, h) ==
  /\ h \in Slice
  /\ h.len > 0 => h.array \in 1 .. Len(a) /\ h.first + h.len - 1 <= Len(a[h.array])

\* The score of a measurement: no speed is ever set.
Scored(x, y, z) == ComputeScore(x, y, z, 0, 0)
ScoreRange == 0 .. 10000

\* Metrics describe the points of a slice.
Describes(m, a, h) ==
  /\ m \in Metrics /\ Fits(a, h)
  /\ h.len = IF m.update <= MaxHistory THEN m.update ELSE MaxHistory
  /\ m.update > 0 =>
       /\ m.latency = At(a, h, h.len)
       /\ m.score = Scored(m.latency, m.jitter, m.loss)
       /\ \E i \in 1 .. h.len : At(a, h, i) = m.min
       /\ \E i \in 1 .. h.len : At(a, h, i) = m.max
       /\ \A i \in 1 .. h.len : m.min <= At(a, h, i) /\ At(a, h, i) <= m.max

\* Arrays are only added, and only written behind what they hold.
Grow(a, b) ==
  /\ Len(a) <= Len(b)
  /\ \A k \in 1 .. Len(a) :
       /\ Len(a[k]) <= Len(b[k])
       /\ \A i \in 1 .. Len(a[k]) : b[k][i] = a[k][i]

LoopState ==
  loop = "update" => measured \in Measurement /\ metrics.update < MaxUpdates

\* The two histories agree, and the first ends where its array does.
SameHistory ==
  /\ Len(latencyHistory) = history.len
  /\ \A i \in 1 .. history.len : latencyHistory[i] = At(arrays, history, i)
AtEnd ==
  /\ history.len > 0 =>
       history.first + history.len = Len(arrays[history.array]) + 1
  /\ room > 0 => history.len > 0

\* A result, wherever it is, describes its points, which are in the arrays a, and
\* is not newer than update u.
Sound(q, a, u) == Describes(q.metrics, a, q.history) /\ q.metrics.update <= u

\* What has been read of a result, as far as it goes, are its points.
Reads(q, g, a, u) ==
  /\ q = None => g = << >>
  /\ q # None =>
       /\ Sound(q, a, u)
       /\ Len(g) <= q.history.len
       /\ \A i \in 1 .. Len(g) : g[i] = At(a, q.history, i)

ResultsState ==
  \A c \in Consumer :
    /\ \A i \in 1 .. Len(chan[c]) : Sound(chan[c][i], arrays, metrics.update)
    /\ Reads(reading[c], got[c], arrays, metrics.update)

\* What a subscriber since update s has been sent by update u: l, of which it has
\* received as many as r holds, while the others are in its channel ch.
Logged(s, l, r, ch, u) ==
  /\ s = None => l = << >> /\ r = << >> /\ ch = << >>
  /\ s # None =>
       /\ s <= u
       /\ \A i \in 1 .. Len(l) :
            /\ s < l[i] /\ l[i] <= u
            /\ i > 1 => l[i - 1] < l[i]
       /\ Len(r) + Len(ch) = Len(l)
       /\ \A i \in 1 .. Len(r) : r[i] <= u
       /\ \A v \in s + 1 .. u :
            \/ \E i \in 1 .. Len(l) : l[i] = v
            \/ Cardinality(Waiting(l, r, v)) = ChanSize

LogState ==
  \A c \in Consumer : Logged(since[c], log[c], received[c], chan[c], metrics.update)

HistoryState == Describes(metrics, arrays, history) /\ SameHistory /\ AtEnd
IInv == TypeOK /\ LoopState /\ HistoryState /\ ResultsState /\ LogState

\* What describes its points still does when the arrays have grown.
LEMMA DescribesStays ==
  ASSUME NEW m, NEW h, NEW a \in Seq(Seq(Latency)), NEW b \in Seq(Seq(Latency)),
         Describes(m, a, h), Grow(a, b)
  PROVE  Describes(m, b, h) /\ \A i \in 1 .. h.len : At(b, h, i) = At(a, h, i)
<1>1. h \in Slice /\ Fits(a, h)
  BY DEF Describes, Fits
<1>2. CASE h.len = 0
  <2>1. m.update = 0
    BY <1>2, MonitorAssumption DEF Describes, Metrics
  <2> QED
    BY <1>1, <1>2, <2>1, SMTT(30) DEF Describes, Fits
<1>3. CASE h.len # 0
  <2>0. /\ h.len \in Nat /\ h.len > 0 /\ h.first \in Nat \ {0}
        /\ h.array \in 1 .. Len(a) /\ h.first + h.len - 1 <= Len(a[h.array])
    BY <1>1, <1>3, MonitorAssumption DEF Fits, Slice
  <2>1. Len(a[h.array]) \in Nat /\ Len(b[h.array]) \in Nat /\ h.array \in 1 .. Len(b)
    <3>1. Len(a) \in Nat /\ Len(b) \in Nat /\ Len(a) <= Len(b)
      BY LenProperties DEF Grow
    <3>2. h.array \in 1 .. Len(b)
      BY <2>0, <3>1
    <3>3. a[h.array] \in Seq(Latency) /\ b[h.array] \in Seq(Latency)
      BY <2>0, <3>2, ElementOfSeq
    <3> QED
      BY <3>2, <3>3, LenProperties
  <2>2. ASSUME NEW i \in 1 .. h.len PROVE At(b, h, i) = At(a, h, i)
    <3>1. h.first + i - 1 \in 1 .. Len(a[h.array])
      <4> DEFINE f == h.first
                 l == h.len
                 n == Len(a[h.array])
      <4>1. f \in Nat \ {0} /\ l \in Nat /\ n \in Nat /\ f + l - 1 <= n /\ i \in 1 .. l
        BY <2>0, <2>1
      <4> HIDE DEF f, l, n
      <4>2. f + i - 1 \in 1 .. n
        BY <4>1
      <4> QED
        BY <4>2 DEF f, n
    <3> QED
      BY <2>0, <3>1 DEF At, Grow
  <2>3. Fits(b, h)
    <3>1. Len(a[h.array]) <= Len(b[h.array])
      BY <2>0 DEF Grow
    <3>2. h.first + h.len - 1 <= Len(b[h.array])
      <4> DEFINE o == h.first + h.len - 1
                 n == Len(a[h.array])
                 v == Len(b[h.array])
      <4>1. o \in Int /\ n \in Nat /\ v \in Nat /\ o <= n /\ n <= v
        BY <2>0, <2>1, <3>1
      <4> HIDE DEF o, n, v
      <4>2. o <= v
        BY <4>1
      <4> QED
        BY <4>2 DEF o, v
    <3> QED
      BY <1>1, <2>0, <2>1, <3>2 DEF Fits
  <2>4. h.len \in 1 .. h.len
    BY <2>0
  <2> QED
    BY <2>2, <2>3, <2>4 DEF Describes
<1> QED
  BY <1>2, <1>3

LEMMA DescribesTypes ==
  ASSUME NEW m, NEW a, NEW h, Describes(m, a, h)
  PROVE  m \in Metrics /\ h \in Slice
BY DEF Describes, Fits

\* The points of a slice, when the arrays are a.
PointsIn(a, h) ==
  IF h.len = 0 THEN << >> ELSE SubSeq(a[h.array], h.first, h.first + h.len - 1)

LEMMA PointsAre ==
  ASSUME NEW a \in Seq(Seq(Latency)), NEW h, Fits(a, h)
  PROVE  /\ PointsIn(a, h) \in Seq(Latency) /\ Len(PointsIn(a, h)) = h.len
         /\ \A i \in 1 .. h.len : PointsIn(a, h)[i] = At(a, h, i)
<1>1. h \in Slice /\ h.len \in Nat /\ h.first \in Nat \ {0}
  BY MonitorAssumption DEF Fits, Slice
<1>2. CASE h.len = 0
  BY <1>2 DEF PointsIn
<1>3. CASE h.len # 0
  <2> DEFINE s == a[h.array]
             f == h.first
             n == h.len
             l == f + n - 1
  <2>1. h.array \in 1 .. Len(a) /\ l <= Len(s) /\ s \in Seq(Latency) /\ Len(s) \in Nat
    <3>1. h.array \in 1 .. Len(a) /\ l <= Len(s)
      BY <1>1, <1>3 DEF Fits
    <3> QED
      BY <3>1, ElementOfSeq, LenProperties
  <2>2. f \in Nat \ {0} /\ n \in Nat /\ n # 0
    BY <1>1, <1>3
  <2>3. PointsIn(a, h) = SubSeq(s, f, l)
    BY <1>3 DEF PointsIn
  <2>4. \A i \in 1 .. n : At(a, h, i) = s[f + i - 1]
    BY DEF At
  <2> HIDE DEF s, f, n
  <2>5. f \in Int /\ l \in Int /\ f <= l /\ l - f + 1 = n
    BY <2>2
  <2>6. \A i \in f .. l : s[i] \in Latency
    <3>1. \A i \in f .. l : i \in 1 .. Len(s)
      BY <2>1, <2>2
    <3> QED
      BY <2>1, <3>1, ElementOfSeq
  <2>7. /\ SubSeq(s, f, l) \in Seq(Latency) /\ Len(SubSeq(s, f, l)) = n
        /\ \A i \in 1 .. n : SubSeq(s, f, l)[i] = s[f + i - 1]
    BY <2>5, <2>6, SubSeqProperties, SMTT(30)
  <2> QED
    BY <2>3, <2>4, <2>7 DEF n
<1> QED
  BY <1>2, <1>3

-----------------------------------------------------------------------------
(* Update: the histories                                                   *)

\* The points that are dropped when a history of n points grows by one.
Skip(n) == IF n < MaxHistory THEN 0 ELSE 1

\* The latency history without its oldest point, once it is full.
LEMMA WindowIs ==
  ASSUME NEW s \in Seq(Latency), Len(s) <= MaxHistory, NEW p \in Latency
  PROVE  /\ Window(Append(s, p)) \in Seq(Latency)
         /\ Len(Window(Append(s, p))) = Len(s) + 1 - Skip(Len(s))
         /\ Window(Append(s, p))[Len(s) + 1 - Skip(Len(s))] = p
         /\ \A i \in 1 .. (Len(s) - Skip(Len(s))) :
              Window(Append(s, p))[i] = s[i + Skip(Len(s))]
<1> DEFINE t == Append(s, p)
           w == Window(t)
           skip == Skip(Len(s))
           first == 1 + skip
           n == Len(s) + 1 - skip
<1>1. /\ Len(s) \in Nat /\ MaxHistory \in Nat \ {0}
      /\ t \in Seq(Latency) /\ Len(t) = Len(s) + 1 /\ t[Len(s) + 1] = p
      /\ \A i \in 1 .. Len(s) : t[i] = s[i]
      /\ skip \in {0, 1} /\ (skip = 0 <=> Len(s) < MaxHistory)
  BY MonitorAssumption DEF Skip
<1> HIDE DEF skip
<1>2. Max({1, Len(t) - MaxHistory + 1}) = first
  BY <1>1, MaxOfTwo
<1>3. w = SubSeq(t, first, Len(t))
  BY <1>2 DEF Window
<1> HIDE DEF w
<1>4. first \in Int /\ Len(t) \in Int /\ \A i \in first .. Len(t) : t[i] \in Latency
  BY <1>1
<1>5. /\ w \in Seq(Latency)
      /\ Len(w) = IF first <= Len(t) THEN Len(t) - first + 1 ELSE 0
      /\ \A i \in 1 .. (Len(t) - first + 1) : w[i] = t[first + i - 1]
  <2> HIDE DEF first, t
  <2> QED
    BY <1>3, <1>4, SubSeqProperties
<1>6. Len(t) - first + 1 = n /\ first <= Len(t) /\ n \in Nat \ {0}
  BY <1>1
<1>7. w[n] = p
  <2>1. first + n - 1 = Len(s) + 1 /\ n \in 1 .. n
    BY <1>1, <1>6
  <2> QED
    BY <1>1, <1>5, <1>6, <2>1
<1>8. ASSUME NEW i \in 1 .. (Len(s) - skip)
      PROVE  w[i] = s[i + skip]
  <2>1. i + skip \in 1 .. Len(s) /\ i \in 1 .. n /\ first + i - 1 = i + skip
    BY <1>1, <1>6
  <2> QED
    BY <1>1, <1>5, <1>6, <2>1
<1> QED
  BY <1>5, <1>6, <1>7, <1>8 DEF w, skip

\* A slice that has grown by a point p at its end, and what trimming leaves of it.
LEMMA TrimmedIs ==
  ASSUME NEW a \in Seq(Seq(Latency)), NEW k \in 1 .. Len(a), NEW f \in Nat \ {0},
         NEW n \in 0 .. MaxHistory, f + n = Len(a[k]),
         NEW g, g = Trimmed([array |-> k, first |-> f, len |-> n + 1])
  PROVE  /\ Fits(a, g) /\ g.array = k /\ g.first = f + Skip(n)
         /\ g.len = n + 1 - Skip(n) /\ g.len > 0
         /\ g.first + g.len = Len(a[k]) + 1
         /\ \A i \in 1 .. g.len : At(a, g, i) = a[k][f + Skip(n) + i - 1]
<1> DEFINE skip == Skip(n)
           o == [array |-> k, first |-> f, len |-> n + 1]
           h == [array |-> k, first |-> f + skip, len |-> n + 1 - skip]
<1>1. MaxHistory \in Nat \ {0} /\ n \in Nat /\ n <= MaxHistory /\ f \in Nat /\ f > 0
      /\ k \in Nat /\ skip \in {0, 1} /\ (skip = 0 <=> n < MaxHistory)
  BY MonitorAssumption DEF Skip
<1> HIDE DEF skip
<1>2. Trimmed(o) = h
  <2>1. CASE n < MaxHistory
    BY <1>1, <2>1 DEF Trimmed
  <2>2. CASE ~(n < MaxHistory)
    <3>1. o.len > MaxHistory /\ o.first + 1 = f + skip /\ o.len - 1 = n + 1 - skip
      BY <1>1, <2>2
    <3>2. Trimmed(o) = [o EXCEPT !.first = o.first + 1, !.len = o.len - 1]
      BY <3>1 DEF Trimmed
    <3>3. Trimmed(o) = [array |-> k, first |-> o.first + 1, len |-> o.len - 1]
      BY <3>2
    <3> QED
      BY <3>1, <3>3
  <2> QED
    BY <2>1, <2>2
<1>3. /\ f + skip \in Nat \ {0} /\ n + 1 - skip \in 0 .. MaxHistory /\ n + 1 - skip > 0
      /\ f + skip + (n + 1 - skip) = f + n + 1
  BY <1>1
<1>4. Fits(a, h)
  <2>1. h \in Slice
    BY <1>1, <1>3 DEF Slice
  <2>2. h.array = k /\ h.first + h.len = Len(a[k]) + 1
    BY <1>3
  <2>3. Len(a[k]) \in Nat
    BY ElementOfSeq, LenProperties
  <2> HIDE DEF h
  <2>4. h.first \in Nat /\ h.len \in Nat
    BY <1>1, <2>1 DEF Slice
  <2>5. h.first + h.len - 1 <= Len(a[h.array])
    <3> DEFINE x == h.first
               y == h.len
               z == Len(a[k])
    <3>1. x \in Nat /\ y \in Nat /\ z \in Nat /\ x + y = z + 1
      BY <2>2, <2>3, <2>4
    <3> HIDE DEF x, y, z
    <3>2. x + y - 1 <= z
      BY <3>1
    <3> QED
      BY <2>2, <3>2 DEF x, y, z
  <2> QED
    BY <2>1, <2>2, <2>5 DEF Fits
<1>5. \A i \in 1 .. h.len : At(a, h, i) = a[k][f + skip + i - 1]
  BY DEF At
<1>6. /\ Trimmed(o) = h /\ h.array = k /\ h.first = f + skip /\ h.len = n + 1 - skip
      /\ h.len > 0 /\ h.first + h.len = Len(a[k]) + 1
  BY <1>1, <1>2, <1>3
<1> HIDE DEF h
<1> QED
  BY <1>4, <1>5, <1>6 DEF skip

\* Where append has put the new point: behind the old ones, in their array or in a
\* new one to which they have been copied.
PutAt(k, f, p) ==
  /\ k \in 1 .. Len(arrays') /\ f \in Nat \ {0}
  /\ history' = Trimmed([array |-> k, first |-> f, len |-> history.len + 1])
  /\ f + history.len = Len(arrays'[k])
  /\ \A i \in 1 .. history.len : arrays'[k][f + i - 1] = At(arrays, history, i)
  /\ arrays'[k][f + history.len] = p

LEMMA Appended ==
  ASSUME TypeOK, HistoryState, NEW p \in Latency, Record(p)
  PROVE  /\ arrays' \in Seq(Seq(Latency)) /\ room' \in Nat /\ Grow(arrays, arrays')
         /\ \E k, f : PutAt(k, f, p)
<1> DEFINE n == history.len
<1>1. /\ history \in Slice /\ Fits(arrays, history)
      /\ n \in Nat /\ history.first \in Nat \ {0} /\ arrays \in Seq(Seq(Latency))
      /\ Len(arrays) \in Nat /\ room \in Nat /\ MaxSpare \in Nat
  BY MonitorAssumption, LenProperties DEF TypeOK, HistoryState, Describes, Slice
<1>2. ASSUME NEW k \in 1 .. Len(arrays)
      PROVE  arrays[k] \in Seq(Latency) /\ Len(arrays[k]) \in Nat
  BY <1>1, ElementOfSeq, LenProperties
<1>3. n > 0 => /\ history.array \in 1 .. Len(arrays)
               /\ history.first + n = Len(arrays[history.array]) + 1
  BY <1>1 DEF HistoryState, AtEnd, Fits
<1>4. CASE room > 0
  <2> DEFINE k == history.array
             f == history.first
             q == Append(arrays[k], p)
  <2>1. n > 0 /\ k \in 1 .. Len(arrays) /\ f + n = Len(arrays[k]) + 1
    BY <1>3, <1>4 DEF HistoryState, AtEnd
  <2>2. /\ arrays' = [arrays EXCEPT ![k] = q] /\ room' = room - 1
        /\ history' = Trimmed([history EXCEPT !.len = n + 1])
    BY <1>4 DEF Record
  <2>3. /\ q \in Seq(Latency) /\ Len(q) = Len(arrays[k]) + 1 /\ q[Len(arrays[k]) + 1] = p
        /\ \A i \in 1 .. Len(arrays[k]) : q[i] = arrays[k][i]
    BY <1>2, <2>1, AppendProperties
  <2> HIDE DEF q
  <2>4. /\ arrays' \in Seq(Seq(Latency)) /\ Len(arrays') = Len(arrays)
        /\ \A j \in 1 .. Len(arrays) : arrays'[j] = IF j = k THEN q ELSE arrays[j]
    BY <1>1, <2>1, <2>2, <2>3, ExceptSeq, SMTT(30)
  <2>5. Grow(arrays, arrays')
    <3>1. ASSUME NEW j \in 1 .. Len(arrays)
          PROVE  /\ Len(arrays[j]) <= Len(arrays'[j])
                 /\ \A i \in 1 .. Len(arrays[j]) : arrays'[j][i] = arrays[j][i]
      <4>1. CASE j = k
        <5>1. arrays'[j] = q /\ Len(arrays[j]) \in Nat
          BY <1>2, <2>4, <4>1
        <5> QED
          BY <2>3, <4>1, <5>1
      <4>2. CASE j # k
        BY <1>2, <2>4, <4>2
      <4> QED
        BY <4>1, <4>2
    <3> QED
      BY <1>1, <2>4, <3>1 DEF Grow
  <2>6. [history EXCEPT !.len = n + 1] = [array |-> k, first |-> f, len |-> n + 1]
    BY <1>1 DEF Slice
  <2>7. k \in 1 .. Len(arrays') /\ arrays'[k] = q
    BY <2>1, <2>4
  <2>8. f + n = Len(q) /\ q[f + n] = p
    BY <2>1, <2>3
  <2>9. ASSUME NEW i \in 1 .. n PROVE q[f + i - 1] = At(arrays, history, i)
    <3>1. f + i - 1 \in 1 .. Len(arrays[k])
      <4> DEFINE l == Len(arrays[k])
      <4>1. f \in Nat \ {0} /\ n \in Nat /\ l \in Nat /\ f + n = l + 1
        BY <1>1, <1>2, <2>1
      <4> HIDE DEF f, l, n
      <4>2. f + i - 1 \in 1 .. l
        BY <4>1
      <4> QED
        BY <4>2 DEF l
    <3> QED
      BY <2>3, <3>1 DEF At
  <2>10. PutAt(k, f, p)
    BY <1>1, <2>2, <2>6, <2>7, <2>8, <2>9 DEF PutAt
  <2>11. room' \in Nat
    BY <1>1, <1>4, <2>2
  <2> QED
    BY <2>4, <2>5, <2>10, <2>11
<1>5. CASE ~(room > 0)
  <2> DEFINE q == Append(Points(history), p)
             k == Len(arrays) + 1
  <2>1. /\ arrays' = Append(arrays, q) /\ room' \in 0 .. MaxSpare
        /\ history' = Trimmed([array |-> Len(arrays'), first |-> 1, len |-> n + 1])
    BY <1>5 DEF Record
  <2>2. /\ Points(history) \in Seq(Latency) /\ Len(Points(history)) = n
        /\ \A i \in 1 .. n : Points(history)[i] = At(arrays, history, i)
    <3>1. Points(history) = PointsIn(arrays, history)
      BY DEF Points, PointsIn
    <3> QED
      BY <1>1, <3>1, PointsAre
  <2>3. /\ q \in Seq(Latency) /\ Len(q) = n + 1 /\ q[n + 1] = p
        /\ \A i \in 1 .. n : q[i] = At(arrays, history, i)
    BY <2>2, AppendProperties
  <2> HIDE DEF q
  <2>4. /\ arrays' \in Seq(Seq(Latency)) /\ Len(arrays') = k /\ arrays'[k] = q
        /\ \A j \in 1 .. Len(arrays) : arrays'[j] = arrays[j]
    BY <1>1, <2>1, <2>3, AppendProperties, SMTT(30)
  <2>5. Grow(arrays, arrays')
    BY <1>1, <1>2, <2>4, SMTT(30) DEF Grow
  <2>6. k \in 1 .. Len(arrays') /\ room' \in Nat
    BY <1>1, <2>1, <2>4
  <2>7. 1 + n = Len(q) /\ q[1 + n] = p /\ \A i \in 1 .. n : q[1 + i - 1] = At(arrays, history, i)
    BY <1>1, <2>3
  <2>8. PutAt(k, 1, p)
    BY <2>1, <2>4, <2>6, <2>7 DEF PutAt
  <2> QED
    BY <2>4, <2>5, <2>6, <2>8
<1> QED
  BY <1>4, <1>5

\* Update leaves both histories with the same points, the new one last.
LEMMA RecordIs ==
  ASSUME TypeOK, HistoryState, NEW p \in Latency, Record(p),
         latencyHistory' = Window(Append(latencyHistory, p))
  PROVE  /\ arrays' \in Seq(Seq(Latency)) /\ room' \in Nat /\ Grow(arrays, arrays')
         /\ latencyHistory' \in Seq(Latency) /\ Len(latencyHistory') <= MaxHistory
         /\ Fits(arrays', history') /\ SameHistory' /\ AtEnd'
         /\ history'.len = (IF history.len < MaxHistory THEN history.len + 1 ELSE history.len)
         /\ history'.len > 0 /\ At(arrays', history', history'.len) = p
<1> DEFINE n == history.len
           skip == Skip(n)
<1>1. PICK k, f : PutAt(k, f, p) /\ k \in 1 .. Len(arrays') /\ f \in Nat \ {0}
  BY Appended DEF PutAt
<1>2. arrays' \in Seq(Seq(Latency)) /\ room' \in Nat /\ Grow(arrays, arrays')
  BY Appended
<1>3. /\ n \in 0 .. MaxHistory /\ n \in Nat /\ MaxHistory \in Nat \ {0}
      /\ latencyHistory \in Seq(Latency) /\ Len(latencyHistory) = n
      /\ \A i \in 1 .. n : latencyHistory[i] = At(arrays, history, i)
  BY MonitorAssumption DEF TypeOK, Slice, HistoryState, SameHistory
<1>0. skip \in {0, 1} /\ (skip = 0 <=> n < MaxHistory)
  BY DEF Skip
<1>10. n + 1 - skip \in Nat \ {0} /\ n - skip \in Nat
  BY <1>0, <1>3
<1> HIDE DEF skip, n
<1>4. /\ Fits(arrays', history') /\ history'.array = k /\ history'.first = f + skip
      /\ history'.len = n + 1 - skip /\ history'.len > 0
      /\ history'.first + history'.len = Len(arrays'[k]) + 1
      /\ \A i \in 1 .. history'.len : At(arrays', history', i) = arrays'[k][f + skip + i - 1]
  <2>1. /\ k \in 1 .. Len(arrays') /\ f \in Nat \ {0} /\ f + n = Len(arrays'[k])
        /\ history' = Trimmed([array |-> k, first |-> f, len |-> n + 1])
    BY <1>1 DEF PutAt, n
  <2> DEFINE a == arrays'
             g == Trimmed([array |-> k, first |-> f, len |-> n + 1])
  <2>2. a \in Seq(Seq(Latency)) /\ n \in 0 .. MaxHistory /\ k \in 1 .. Len(a)
        /\ f \in Nat \ {0} /\ f + n = Len(a[k])
    BY <1>2, <1>3, <2>1
  <2>4. history' = g /\ g = Trimmed([array |-> k, first |-> f, len |-> n + 1])
    BY <2>1
  <2> HIDE DEF a, g
  <2>3. /\ Fits(a, g) /\ g.array = k /\ g.first = f + Skip(n)
        /\ g.len = n + 1 - Skip(n) /\ g.len > 0
        /\ g.first + g.len = Len(a[k]) + 1
        /\ \A i \in 1 .. g.len : At(a, g, i) = a[k][f + Skip(n) + i - 1]
    BY <2>2, <2>4, TrimmedIs
  <2> QED
    BY <2>3, <2>4 DEF skip, a
<1>5. /\ latencyHistory' \in Seq(Latency) /\ Len(latencyHistory') = n + 1 - skip
      /\ latencyHistory'[n + 1 - skip] = p
      /\ \A i \in 1 .. (n - skip) : latencyHistory'[i] = latencyHistory[i + skip]
  <2>1. /\ latencyHistory \in Seq(Latency) /\ Len(latencyHistory) <= MaxHistory
        /\ skip = Skip(Len(latencyHistory))
    BY <1>3 DEF skip
  <2>2. /\ latencyHistory' \in Seq(Latency)
        /\ Len(latencyHistory') = Len(latencyHistory) + 1 - skip
        /\ latencyHistory'[Len(latencyHistory) + 1 - skip] = p
        /\ \A i \in 1 .. (Len(latencyHistory) - skip) :
             latencyHistory'[i] = latencyHistory[i + skip]
    BY <1>0, <2>1, WindowIs
  <2> QED
    BY <1>3, <2>2
<1>6. At(arrays', history', n + 1 - skip) = p
  <2>1. n + 1 - skip \in 1 .. history'.len /\ f + skip + (n + 1 - skip) - 1 = f + n
    BY <1>10, <1>0, <1>1, <1>3, <1>4
  <2> QED
    BY <1>1, <1>4, <2>1 DEF PutAt, n
<1>7. ASSUME NEW i \in 1 .. (n - skip)
      PROVE  At(arrays', history', i) = latencyHistory'[i]
  <2>1. /\ i \in 1 .. history'.len /\ i + skip \in 1 .. n
        /\ f + skip + i - 1 = f + (i + skip) - 1
    BY <1>0, <1>1, <1>3, <1>4
  <2>2. arrays'[k][f + (i + skip) - 1] = latencyHistory[i + skip]
    BY <1>1, <1>3, <2>1 DEF PutAt, n
  <2> QED
    BY <1>4, <1>5, <2>1, <2>2
<1>8. SameHistory'
  <2>1. \A i \in 1 .. (n + 1 - skip) : i \in 1 .. (n - skip) \/ i = n + 1 - skip
    BY <1>0, <1>3
  <2> QED
    BY <1>4, <1>5, <1>6, <1>7, <2>1 DEF SameHistory
<1>9. AtEnd' /\ Len(latencyHistory') <= MaxHistory
  BY <1>0, <1>3, <1>4, <1>5 DEF AtEnd
<1>11. history'.len = IF n < MaxHistory THEN n + 1 ELSE n
  BY <1>0, <1>3, <1>4
<1> QED
  BY <1>2, <1>4, <1>5, <1>6, <1>8, <1>9, <1>11 DEF n

-----------------------------------------------------------------------------
(* Update: the metrics and the subscribers                                 *)

LEMMA LatencyNat ==
  Latency \subseteq Nat /\ \A m \in Measurement :
    m.latency \in Latency /\ m.latency \in Nat /\ m.jitter \in Nat /\ m.loss \in Nat
BY MonitorAssumption DEF Latency

LEMMA ScoreOf ==
  ASSUME NEW x \in Nat, NEW y \in Nat, NEW z \in Nat
  PROVE  Scored(x, y, z) \in ScoreRange
<1> DEFINE o == 0
           w == ComputeScore(x, y, z, o, o)
<1>1. o \in Nat
  OBVIOUS
<1> HIDE DEF o
<1>2. w \in Nat /\ w <= 10000
  BY <1>1, ScoreInRange
<1> HIDE DEF w
<1>3. w \in ScoreRange
  BY <1>2, SMTT(30) DEF ScoreRange
<1> QED
  BY <1>3 DEF w, o, Scored

LEMMA MetricsNat ==
  ASSUME NEW m \in Metrics
  PROVE  /\ m.update \in Nat /\ m.latency \in Nat /\ m.jitter \in Nat /\ m.loss \in Nat
         /\ m.score \in Int
<1>1. m.update \in 0 .. MaxUpdates /\ MaxUpdates \in Nat
  BY MonitorAssumption DEF Metrics
<1>2. m.latency \in Nat /\ m.jitter \in Nat /\ m.loss \in Nat
  BY DEF Metrics
<1>3. m.score \in Int
  <2>1. m.score \in ScoreRange
    BY DEF Metrics, ScoreRange
  <2>2. ScoreRange \subseteq Int
    BY DEF ScoreRange
  <2> QED
    BY <2>1, <2>2
<1> QED
  BY <1>1, <1>2, <1>3

LEMMA ScoredMonotone ==
  ASSUME NEW x \in Nat, NEW y \in Nat, NEW z \in Nat,
         NEW v \in Nat, NEW w \in Nat, NEW t \in Nat, v <= x, w <= y, t <= z
  PROVE  Scored(x, y, z) <= Scored(v, w, t)
<1> DEFINE o == 0
<1>1. o \in Nat /\ o <= o
  OBVIOUS
<1> HIDE DEF o
<1>2. ComputeScore(x, y, z, o, o) <= ComputeScore(v, w, t, o, o)
  BY <1>1, ScoreMonotone
<1> QED
  BY <1>2 DEF o, Scored

\* The metrics describe the history that Update leaves.
LEMMA UpdateDescribes ==
  ASSUME TypeOK, HistoryState, LoopState, Update
  PROVE  /\ HistoryState' /\ metrics'.update = metrics.update + 1
         /\ arrays' \in Seq(Seq(Latency)) /\ room' \in Nat /\ Grow(arrays, arrays')
         /\ latencyHistory' \in Seq(Latency) /\ Len(latencyHistory') <= MaxHistory
<1> DEFINE p == measured.latency
           u == metrics.update + 1
           lo == Min(Range(latencyHistory'))
           hi == Max(Range(latencyHistory'))
           score == Scored(measured.latency, measured.jitter, measured.loss)
           len == history'.len
<1>1. /\ measured \in Measurement /\ metrics.update \in Nat /\ metrics.update < MaxUpdates
      /\ Record(p) /\ latencyHistory' = Window(Append(latencyHistory, p))
      /\ metrics' = [update |-> u, latency |-> p, jitter |-> measured.jitter,
                     loss |-> measured.loss, score |-> score, min |-> lo, max |-> hi]
  BY DEF TypeOK, LoopState, Update, Metrics, Scored
<1>2. /\ p \in Latency /\ p \in Nat /\ measured.jitter \in Nat /\ measured.loss \in Nat
  BY <1>1, LatencyNat
<1>3. /\ arrays' \in Seq(Seq(Latency)) /\ room' \in Nat /\ Grow(arrays, arrays')
      /\ latencyHistory' \in Seq(Latency) /\ Len(latencyHistory') <= MaxHistory
      /\ Fits(arrays', history') /\ SameHistory' /\ AtEnd'
      /\ len = (IF history.len < MaxHistory THEN history.len + 1 ELSE history.len)
      /\ len > 0 /\ At(arrays', history', len) = p
  BY <1>1, <1>2, RecordIs
<1>4. len = IF u <= MaxHistory THEN u ELSE MaxHistory
  <2>1. history.len = IF metrics.update <= MaxHistory THEN metrics.update ELSE MaxHistory
    BY DEF HistoryState, Describes
  <2>2. MaxHistory \in Nat
    BY MonitorAssumption
  <2> QED
    BY <1>1, <1>3, <2>1, <2>2
<1>5. /\ latencyHistory' \in Seq(Nat) /\ latencyHistory' # << >> /\ Len(latencyHistory') = len
      /\ \A i \in 1 .. len : latencyHistory'[i] = At(arrays', history', i)
  <2>1. Len(latencyHistory') = len /\ len \in Nat
    BY <1>3, MonitorAssumption DEF SameHistory, Fits, Slice
  <2>2. latencyHistory' # << >>
    BY <1>3, <2>1
  <2>3. latencyHistory' \in Seq(Nat)
    BY <1>3, LatencyNat, SeqMonotonic
  <2> QED
    BY <1>3, <2>1, <2>2, <2>3 DEF SameHistory
<1>6. /\ \E i \in 1 .. len : At(arrays', history', i) = lo
      /\ \E i \in 1 .. len : At(arrays', history', i) = hi
      /\ \A i \in 1 .. len : lo <= At(arrays', history', i) /\ At(arrays', history', i) <= hi
  <2>1. /\ \E i \in 1 .. len : latencyHistory'[i] = lo
        /\ \E i \in 1 .. len : latencyHistory'[i] = hi
        /\ \A i \in 1 .. len : lo <= latencyHistory'[i] /\ hi >= latencyHistory'[i]
    BY <1>5, ExtremesOfRange, SMTT(30)
  <2>2. lo \in Nat /\ hi \in Nat /\ \A i \in 1 .. len : latencyHistory'[i] \in Nat
    BY <1>5, <2>1
  <2> QED
    BY <1>5, <2>1, <2>2
<1>7. lo \in Latency /\ hi \in Latency
  <2>1. \A i \in 1 .. len : latencyHistory'[i] \in Latency
    BY <1>3, <1>5, ElementOfSeq
  <2> QED
    BY <1>5, <1>6, <2>1
<1>8. score \in ScoreRange
  BY <1>2, ScoreOf
<1>9. metrics' \in Metrics
  <2>1. u \in 0 .. MaxUpdates
    BY <1>1, MonitorAssumption
  <2> HIDE DEF u, p, lo, hi, score
  <2> QED
    BY <1>1, <1>2, <1>7, <1>8, <2>1 DEF Metrics, ScoreRange
<1>10. Describes(metrics', arrays', history')
  <2> DEFINE m == metrics'
  <2>1. /\ m.update = u /\ m.latency = p /\ m.jitter = measured.jitter
        /\ m.loss = measured.loss /\ m.score = score /\ m.min = lo /\ m.max = hi
    BY <1>1
  <2>2. Scored(m.latency, m.jitter, m.loss) = score
    BY <2>1
  <2> HIDE DEF m, u, p, lo, hi, score
  <2> QED
    BY <1>3, <1>4, <1>6, <1>9, <2>1, <2>2 DEF Describes, m
<1> QED
  BY <1>1, <1>3, <1>10 DEF HistoryState

\* What a subscriber's channel and its log are after Notify: as before, when the
\* channel is full or there is no subscription, or with the result at their ends.
LEMMA Notified ==
  ASSUME TypeOK, NEW q \in Result, q.metrics.update \in 1 .. MaxUpdates, Notify(q),
         NEW c \in Consumer
  PROVE  \/ /\ since[c] # None /\ Len(chan[c]) < ChanSize
            /\ chan'[c] = Append(chan[c], q) /\ log'[c] = Append(log[c], q.metrics.update)
         \/ /\ since[c] = None \/ Len(chan[c]) = ChanSize
            /\ chan'[c] = chan[c] /\ log'[c] = log[c]
<1>1. /\ Len(chan[c]) \in Nat /\ Len(chan[c]) <= ChanSize /\ ChanSize \in Nat
  BY MonitorAssumption, LenProperties DEF TypeOK
<1>2. CASE since[c] # None /\ Len(chan[c]) < ChanSize
  BY <1>2 DEF Notify
<1>3. CASE ~(since[c] # None /\ Len(chan[c]) < ChanSize)
  BY <1>1, <1>3 DEF Notify
<1> QED
  BY <1>2, <1>3

LEMMA NotifyTypes ==
  ASSUME TypeOK, NEW q \in Result, q.metrics.update \in 1 .. MaxUpdates, Notify(q)
  PROVE  /\ chan' \in [Consumer -> Seq(Result)]
         /\ \A c \in Consumer : Len(chan'[c]) <= ChanSize
         /\ log' \in [Consumer -> Seq(1 .. MaxUpdates)]
<1>1. ASSUME NEW c \in Consumer
      PROVE  /\ chan'[c] \in Seq(Result) /\ Len(chan'[c]) <= ChanSize
             /\ log'[c] \in Seq(1 .. MaxUpdates)
  <2>1. /\ chan[c] \in Seq(Result) /\ Len(chan[c]) <= ChanSize /\ Len(chan[c]) \in Nat
        /\ log[c] \in Seq(1 .. MaxUpdates) /\ ChanSize \in Nat
    BY MonitorAssumption, LenProperties DEF TypeOK
  <2>2. CASE chan'[c] = chan[c] /\ log'[c] = log[c]
    BY <2>1, <2>2
  <2>3. CASE /\ since[c] # None /\ Len(chan[c]) < ChanSize
             /\ chan'[c] = Append(chan[c], q)
             /\ log'[c] = Append(log[c], q.metrics.update)
    <3>1. /\ Append(chan[c], q) \in Seq(Result)
          /\ Len(Append(chan[c], q)) = Len(chan[c]) + 1
          /\ Append(log[c], q.metrics.update) \in Seq(1 .. MaxUpdates)
      BY <2>1, AppendProperties
    <3> QED
      BY <2>1, <2>3, <3>1
  <2> QED
    BY <2>2, <2>3, Notified
<1>2. DOMAIN chan' = Consumer /\ DOMAIN log' = Consumer
      /\ chan' = [c \in Consumer |-> chan'[c]] /\ log' = [c \in Consumer |-> log'[c]]
  BY DEF Notify
<1> QED
  BY <1>1, <1>2

\* What was sound stays so while the arrays grow and the updates go on.
LEMMA SoundStays ==
  ASSUME NEW q \in Result, NEW u \in Nat, NEW v \in Nat, u <= v,
         NEW a \in Seq(Seq(Latency)), NEW b \in Seq(Seq(Latency)), Grow(a, b),
         Sound(q, a, u)
  PROVE  Sound(q, b, v) /\ \A i \in 1 .. q.history.len : At(b, q.history, i) = At(a, q.history, i)
<1>1. Describes(q.metrics, a, q.history) /\ q.metrics.update <= u
  BY DEF Sound
<1>2. /\ Describes(q.metrics, b, q.history)
      /\ \A i \in 1 .. q.history.len : At(b, q.history, i) = At(a, q.history, i)
  BY <1>1, DescribesStays, SMTT(30)
<1>3. q.metrics.update <= v
  BY <1>1 DEF Result, Metrics
<1> QED
  BY <1>2, <1>3 DEF Sound

LEMMA ReadsStay ==
  ASSUME NEW q \in Result \cup {None}, NEW g \in Seq(Latency),
         NEW u \in Nat, NEW v \in Nat, u <= v,
         NEW a \in Seq(Seq(Latency)), NEW b \in Seq(Seq(Latency)), Grow(a, b),
         Reads(q, g, a, u)
  PROVE  Reads(q, g, b, v)
<1>1. CASE q = None
  BY <1>1 DEF Reads
<1>2. CASE q # None
  <2>1. q \in Result /\ Sound(q, a, u) /\ Len(g) <= q.history.len
        /\ \A i \in 1 .. Len(g) : g[i] = At(a, q.history, i)
    BY <1>2 DEF Reads
  <2>2. Sound(q, b, v) /\ \A i \in 1 .. q.history.len : At(b, q.history, i) = At(a, q.history, i)
    BY <2>1, SoundStays
  <2>3. q.history.len \in Nat /\ Len(g) \in Nat
    BY <2>1, MonitorAssumption, LenProperties DEF Result, Slice
  <2>4. \A i \in 1 .. Len(g) : i \in 1 .. q.history.len
    BY <2>1, <2>3
  <2> QED
    BY <1>2, <2>1, <2>2, <2>4 DEF Reads
<1> QED
  BY <1>1, <1>2

\* The results that wait when update u + 1 is made are those in the channel.
LEMMA WaitingNow ==
  ASSUME NEW l \in Seq(1 .. MaxUpdates), NEW r \in Seq(0 .. MaxUpdates),
         NEW u \in Nat, NEW n \in Nat, Len(r) + n = Len(l),
         \A i \in 1 .. Len(l) : l[i] <= u,
         \A i \in 1 .. Len(r) : r[i] <= u
  PROVE  Cardinality(Waiting(l, r, u + 1)) = n
<1>1. /\ Len(l) \in Nat /\ DOMAIN l = 1 .. Len(l) /\ \A i \in 1 .. Len(l) : l[i] \in Nat
      /\ Len(r) \in Nat /\ DOMAIN r = 1 .. Len(r) /\ \A i \in 1 .. Len(r) : r[i] \in Nat
  BY MonitorAssumption
<1>2. Waiting(l, r, u + 1) = Len(r) + 1 .. Len(l)
  BY <1>1 DEF Waiting
<1> DEFINE a == Len(r) + 1
           b == Len(l)
<1>3. a \in Int /\ b \in Int /\ n = IF a > b THEN 0 ELSE b - a + 1
  BY <1>1
<1> HIDE DEF a, b
<1>4. Cardinality(a .. b) = n
  BY <1>3, FS_Interval
<1> QED
  BY <1>2, <1>4 DEF a, b

\* A result that is sent or received after update v was not waiting, or still
\* was, when v was made.
LEMMA WaitingStays ==
  ASSUME NEW l \in Seq(1 .. MaxUpdates), NEW r \in Seq(0 .. MaxUpdates),
         NEW u \in Nat, NEW v \in Nat, v <= u
  PROVE  /\ Waiting(Append(l, u + 1), r, v) = Waiting(l, r, v)
         /\ Waiting(l, Append(r, u), v) = Waiting(l, r, v)
<1>1. /\ Len(l) \in Nat /\ DOMAIN l = 1 .. Len(l)
      /\ Len(r) \in Nat /\ DOMAIN r = 1 .. Len(r)
  OBVIOUS
<1>2. Waiting(Append(l, u + 1), r, v) = Waiting(l, r, v)
  <2> DEFINE k == Append(l, u + 1)
  <2>1. /\ DOMAIN k = 1 .. (Len(l) + 1) /\ k[Len(l) + 1] = u + 1
        /\ \A i \in 1 .. Len(l) : k[i] = l[i]
    BY <1>1
  <2> HIDE DEF k
  <2>2. Waiting(k, r, v) = Waiting(l, r, v)
    BY <1>1, <2>1 DEF Waiting
  <2> QED
    BY <2>2 DEF k
<1>3. Waiting(l, Append(r, u), v) = Waiting(l, r, v)
  <2> DEFINE k == Append(r, u)
  <2>1. /\ DOMAIN k = 1 .. (Len(r) + 1) /\ k[Len(r) + 1] = u
        /\ \A i \in 1 .. Len(r) : k[i] = r[i]
    BY <1>1
  <2> HIDE DEF k
  <2>2. Waiting(l, k, v) = Waiting(l, r, v)
    BY <1>1, <2>1 DEF Waiting
  <2> QED
    BY <2>2 DEF k
<1> QED
  BY <1>2, <1>3

\* An update that a full channel misses, or that comes before any subscription.
LEMMA LogStays ==
  ASSUME NEW s \in Nat \cup {None}, NEW l \in Seq(1 .. MaxUpdates),
         NEW r \in Seq(0 .. MaxUpdates), NEW ch \in Seq(Result), NEW u \in Nat,
         Logged(s, l, r, ch, u), s = None \/ Len(ch) = ChanSize
  PROVE  Logged(s, l, r, ch, u + 1)
<1>1. CASE s = None
  BY <1>1 DEF Logged
<1>2. CASE s # None
  <2>0. s \in Nat /\ Len(ch) = ChanSize /\ ChanSize \in Nat
    BY <1>2, MonitorAssumption
  <2>1. /\ s <= u /\ Len(r) + Len(ch) = Len(l)
        /\ \A i \in 1 .. Len(l) : s < l[i] /\ l[i] <= u /\ (i > 1 => l[i - 1] < l[i])
        /\ \A i \in 1 .. Len(r) : r[i] <= u
        /\ \A v \in s + 1 .. u :
             \/ \E i \in 1 .. Len(l) : l[i] = v
             \/ Cardinality(Waiting(l, r, v)) = ChanSize
    BY <1>2 DEF Logged
  <2>2. Cardinality(Waiting(l, r, u + 1)) = ChanSize
    BY <2>0, <2>1, WaitingNow
  <2>3. ASSUME NEW v \in s + 1 .. u + 1
        PROVE  \/ \E i \in 1 .. Len(l) : l[i] = v
               \/ Cardinality(Waiting(l, r, v)) = ChanSize
    <3>1. v = u + 1 \/ v \in s + 1 .. u
      BY <2>0
    <3> QED
      BY <2>1, <2>2, <3>1
  <2>4. /\ s <= u + 1
        /\ \A i \in 1 .. Len(l) : l[i] <= u + 1
        /\ \A i \in 1 .. Len(r) : r[i] <= u + 1
    <3>1. /\ \A i \in 1 .. Len(l) : l[i] \in Nat
          /\ \A i \in 1 .. Len(r) : r[i] \in Nat
      BY MonitorAssumption
    <3> QED
      BY <2>0, <2>1, <3>1
  <2> QED
    BY <1>2, <2>1, <2>3, <2>4 DEF Logged
<1> QED
  BY <1>1, <1>2

\* A channel with room gets the next update.
LEMMA LogGrows ==
  ASSUME NEW s \in Nat, s # None, NEW l \in Seq(1 .. MaxUpdates),
         NEW r \in Seq(0 .. MaxUpdates), NEW ch \in Seq(Result),
         NEW u \in Nat, u + 1 \in 1 .. MaxUpdates, NEW q \in Result,
         Logged(s, l, r, ch, u)
  PROVE  Logged(s, Append(l, u + 1), r, Append(ch, q), u + 1)
<1> DEFINE n == Len(l)
           k == Append(l, u + 1)
<1>1. /\ n \in Nat /\ Len(ch) \in Nat /\ Len(r) \in Nat
      /\ \A i \in 1 .. n : l[i] \in Nat
      /\ \A i \in 1 .. Len(r) : r[i] \in Nat
  BY MonitorAssumption, LenProperties
<1>2. /\ s <= u /\ Len(r) + Len(ch) = n
      /\ \A i \in 1 .. n :
           /\ s < l[i] /\ l[i] <= u
           /\ i > 1 => l[i - 1] < l[i]
      /\ \A i \in 1 .. Len(r) : r[i] <= u
      /\ \A v \in s + 1 .. u :
           \/ \E i \in 1 .. n : l[i] = v
           \/ Cardinality(Waiting(l, r, v)) = ChanSize
  BY DEF Logged
<1>3. /\ Len(k) = n + 1 /\ k[n + 1] = u + 1 /\ \A i \in 1 .. n : k[i] = l[i]
      /\ Len(Append(ch, q)) = Len(ch) + 1
  BY AppendProperties
<1>4. \A v \in s + 1 .. u : Waiting(k, r, v) = Waiting(l, r, v)
  BY WaitingStays
<1> HIDE DEF n, k
<1>5. ASSUME NEW i \in 1 .. (n + 1)
      PROVE  /\ s < k[i] /\ k[i] <= u + 1
             /\ i > 1 => k[i - 1] < k[i]
  <2>1. CASE i = n + 1
    <3>1. i > 1 => n \in 1 .. n /\ i - 1 = n
      BY <1>1, <2>1
    <3>2. i > 1 => k[i - 1] = l[n] /\ l[n] <= u /\ l[n] \in Nat
      BY <1>1, <1>2, <1>3, <3>1
    <3>3. k[i] = u + 1
      BY <1>3, <2>1
    <3> QED
      BY <1>2, <2>1, <3>2, <3>3
  <2>2. CASE i # n + 1
    <3>1. i \in 1 .. n /\ (i > 1 => i - 1 \in 1 .. n)
      BY <1>1, <2>2
    <3>2. k[i] = l[i] /\ l[i] \in Nat /\ (i > 1 => k[i - 1] = l[i - 1])
      BY <1>1, <1>3, <3>1
    <3> QED
      BY <1>2, <3>1, <3>2
  <2> QED
    BY <2>1, <2>2
<1>6. /\ s <= u + 1 /\ Len(r) + Len(Append(ch, q)) = n + 1
      /\ \A i \in 1 .. Len(r) : r[i] <= u + 1
  <2>1. s <= u + 1 /\ \A i \in 1 .. Len(r) : r[i] <= u + 1
    BY <1>1, <1>2
  <2>2. Len(r) + (Len(ch) + 1) = n + 1
    BY <1>1, <1>2
  <2> QED
    BY <1>3, <2>1, <2>2
<1>7. ASSUME NEW v \in s + 1 .. u + 1
      PROVE  \/ \E i \in 1 .. (n + 1) : k[i] = v
             \/ Cardinality(Waiting(k, r, v)) = ChanSize
  <2>1. CASE v = u + 1
    BY <1>1, <1>3, <2>1
  <2>2. CASE v # u + 1
    <3>1. v \in s + 1 .. u /\ \A i \in 1 .. n : i \in 1 .. (n + 1)
      BY <1>1, <2>2
    <3> QED
      BY <1>2, <1>3, <1>4, <3>1
  <2> QED
    BY <2>1, <2>2
<1>8. Logged(s, k, r, Append(ch, q), u + 1)
  BY <1>3, <1>5, <1>6, <1>7 DEF Logged
<1> QED
  BY <1>8 DEF k

\* The subscriber receives the next result.
LEMMA LogTaken ==
  ASSUME NEW s \in Nat, s # None, NEW l \in Seq(1 .. MaxUpdates),
         NEW r \in Seq(0 .. MaxUpdates), NEW ch \in Seq(Result), NEW t \in Seq(Result),
         NEW u \in 0 .. MaxUpdates, Logged(s, l, r, ch, u), Len(t) = Len(ch) - 1
  PROVE  Logged(s, l, Append(r, u), t, u)
<1> DEFINE k == Append(r, u)
<1>1. u \in Nat /\ Len(l) \in Nat /\ Len(r) \in Nat /\ Len(ch) \in Nat
  BY MonitorAssumption, LenProperties
<1>2. /\ s <= u /\ Len(r) + Len(ch) = Len(l)
      /\ \A i \in 1 .. Len(l) :
           /\ s < l[i] /\ l[i] <= u
           /\ i > 1 => l[i - 1] < l[i]
      /\ \A i \in 1 .. Len(r) : r[i] <= u
      /\ \A v \in s + 1 .. u :
           \/ \E i \in 1 .. Len(l) : l[i] = v
           \/ Cardinality(Waiting(l, r, v)) = ChanSize
  BY DEF Logged
<1>3. Len(k) = Len(r) + 1 /\ k[Len(r) + 1] = u /\ \A i \in 1 .. Len(r) : k[i] = r[i]
  BY AppendProperties
<1>4. \A v \in s + 1 .. u : Waiting(l, k, v) = Waiting(l, r, v)
  BY <1>1, WaitingStays
<1> HIDE DEF k
<1>5. /\ Len(k) + Len(t) = Len(l)
      /\ \A i \in 1 .. Len(k) : k[i] <= u
  <2> DEFINE a == Len(r)
             b == Len(ch)
             n == Len(l)
  <2>0. a \in Nat /\ b \in Nat /\ n \in Nat /\ a + b = n
    BY <1>1, <1>2
  <2>1. /\ Len(k) = a + 1 /\ Len(t) = b - 1
        /\ k[a + 1] = u /\ \A i \in 1 .. a : k[i] = r[i] /\ r[i] <= u
    BY <1>1, <1>2, <1>3
  <2> HIDE DEF a, b, n
  <2>2. Len(k) + Len(t) = n
    <3>1. (a + 1) + (b - 1) = n
      BY <2>0
    <3> QED
      BY <2>1, <3>1, Zenon
  <2>3. ASSUME NEW i \in 1 .. (a + 1) PROVE k[i] <= u
    <3>1. CASE i = a + 1
      BY <1>1, <2>1, <3>1
    <3>2. CASE i # a + 1
      <4>1. i \in 1 .. a
        BY <2>0, <3>2
      <4>2. k[i] = r[i] /\ r[i] <= u
        BY <2>1, <4>1
      <4> QED
        BY <4>2
    <3> QED
      BY <3>1, <3>2
  <2> QED
    BY <2>1, <2>2, <2>3 DEF n
<1>6. Logged(s, l, k, t, u)
  BY <1>2, <1>4, <1>5 DEF Logged
<1> QED
  BY <1>6 DEF k

\* The subscribers of an update.
LEMMA UpdateReaches ==
  ASSUME IInv, Update, HistoryState', metrics'.update = metrics.update + 1,
         arrays' \in Seq(Seq(Latency)), Grow(arrays, arrays')
  PROVE  ResultsState' /\ LogState'
<1> DEFINE q == [metrics |-> metrics', history |-> history']
           u == metrics.update
           a == arrays
           b == arrays'
<1>1. metrics \in Metrics /\ metrics' \in Metrics /\ history' \in Slice
  <2>1. metrics \in Metrics
    BY DEF IInv, TypeOK
  <2>2. Describes(metrics', arrays', history')
    BY Zenon DEF HistoryState
  <2> QED
    BY <2>1, <2>2, DescribesTypes
<1>2. u \in Nat /\ u + 1 \in 1 .. MaxUpdates /\ metrics'.update = u + 1
  BY <1>1, MonitorAssumption DEF Metrics
<1>3. q \in Result /\ q.metrics.update = u + 1 /\ Sound(q, b, u + 1)
  BY <1>1, <1>2 DEF HistoryState, Describes, Result, Sound
<1>4. Notify(q) /\ reading' = reading /\ got' = got /\ since' = since
      /\ received' = received
  BY DEF Update, readVars
<1>5. a \in Seq(Seq(Latency)) /\ b \in Seq(Seq(Latency)) /\ Grow(a, b) /\ u <= u + 1
      /\ u + 1 \in Nat
  BY <1>2 DEF IInv, TypeOK
<1> HIDE DEF q, u, a, b
<1>6. ASSUME NEW c \in Consumer
      PROVE  /\ \A i \in 1 .. Len(chan'[c]) : Sound(chan'[c][i], b, u + 1)
             /\ Reads(reading'[c], got'[c], b, u + 1)
             /\ Logged(since'[c], log'[c], received'[c], chan'[c], u + 1)
  <2> DEFINE ch == chan[c]
             s == since[c]
             l == log[c]
             r == received[c]
  <2>1. /\ ch \in Seq(Result) /\ s \in Nat \cup {None} /\ l \in Seq(1 .. MaxUpdates)
        /\ r \in Seq(0 .. MaxUpdates)
        /\ reading[c] \in Result \cup {None} /\ got[c] \in Seq(Latency)
    BY MonitorAssumption DEF IInv, TypeOK
  <2>2. /\ \A i \in 1 .. Len(ch) : Sound(ch[i], a, u)
        /\ Reads(reading[c], got[c], a, u)
        /\ Logged(s, l, r, ch, u)
    BY DEF IInv, ResultsState, LogState, a, u
  <2>3. Reads(reading'[c], got'[c], b, u + 1)
    BY <1>2, <1>4, <1>5, <2>1, <2>2, ReadsStay
  <2>4. \A i \in 1 .. Len(ch) : Sound(ch[i], b, u + 1)
    <3>1. ASSUME NEW i \in 1 .. Len(ch) PROVE Sound(ch[i], b, u + 1)
      <4>1. ch[i] \in Result /\ Sound(ch[i], a, u)
        BY <2>1, <2>2, ElementOfSeq
      <4> QED
        BY <1>2, <1>5, <4>1, SoundStays
    <3> QED
      BY <3>1
  <2>5. \/ /\ s # None /\ Len(ch) < ChanSize
           /\ chan'[c] = Append(ch, q) /\ log'[c] = Append(l, u + 1)
        \/ /\ s = None \/ Len(ch) = ChanSize
           /\ chan'[c] = ch /\ log'[c] = l
    BY <1>2, <1>3, <1>4, Notified DEF IInv
  <2> HIDE DEF ch, s, l, r
  <2>6. CASE /\ s # None /\ Len(ch) < ChanSize
             /\ chan'[c] = Append(ch, q) /\ log'[c] = Append(l, u + 1)
    <3>1. Logged(s, Append(l, u + 1), r, Append(ch, q), u + 1)
      BY <1>2, <1>3, <2>1, <2>2, <2>6, LogGrows
    <3>2. /\ Len(Append(ch, q)) = Len(ch) + 1 /\ Len(ch) \in Nat
          /\ \A i \in 1 .. Len(ch) : Append(ch, q)[i] = ch[i]
          /\ Append(ch, q)[Len(ch) + 1] = q
      BY <1>3, <2>1, AppendProperties, LenProperties
    <3>3. ASSUME NEW i \in 1 .. (Len(ch) + 1) PROVE Sound(Append(ch, q)[i], b, u + 1)
      <4>1. CASE i = Len(ch) + 1
        BY <1>3, <3>2, <4>1
      <4>2. CASE i # Len(ch) + 1
        <5>1. i \in 1 .. Len(ch)
          BY <3>2, <4>2
        <5> QED
          BY <2>4, <3>2, <5>1
      <4> QED
        BY <4>1, <4>2
    <3> QED
      BY <1>4, <2>3, <2>6, <3>1, <3>2, <3>3 DEF s, r
  <2>7. CASE /\ s = None \/ Len(ch) = ChanSize
             /\ chan'[c] = ch /\ log'[c] = l
    <3>1. Logged(s, l, r, ch, u + 1)
      BY <1>2, <2>1, <2>2, <2>7, LogStays
    <3> QED
      BY <1>4, <2>3, <2>4, <2>7, <3>1 DEF s, r
  <2> QED
    BY <2>5, <2>6, <2>7
<1> QED
  BY <1>2, <1>6 DEF ResultsState, LogState, b

LEMMA UpdateInv ==
  ASSUME IInv, Update
  PROVE  IInv'
<1>1. /\ HistoryState' /\ metrics'.update = metrics.update + 1
      /\ arrays' \in Seq(Seq(Latency)) /\ room' \in Nat /\ Grow(arrays, arrays')
      /\ latencyHistory' \in Seq(Latency) /\ Len(latencyHistory') <= MaxHistory
  BY UpdateDescribes DEF IInv
<1>2. ResultsState' /\ LogState'
  BY <1>1, UpdateReaches
<1>3. /\ loop' = "select" /\ measured' = None
      /\ UNCHANGED <<ctxDone, since, received, reading, got>>
      /\ Notify([metrics |-> metrics', history |-> history'])
  BY DEF Update, readVars
<1>4. [metrics |-> metrics', history |-> history'] \in Result
      /\ metrics'.update \in 1 .. MaxUpdates
  <2>1. metrics \in Metrics /\ metrics' \in Metrics /\ history' \in Slice
    <3>1. metrics \in Metrics
      BY DEF IInv, TypeOK
    <3>2. Describes(metrics', arrays', history')
      BY <1>1, Zenon DEF HistoryState
    <3> QED
      BY <3>1, <3>2, DescribesTypes
  <2>2. metrics'.update \in 1 .. MaxUpdates
    BY <1>1, <2>1, MonitorAssumption DEF Metrics
  <2> QED
    BY <2>1, <2>2 DEF Result
<1>5. /\ chan' \in [Consumer -> Seq(Result)]
      /\ \A c \in Consumer : Len(chan'[c]) <= ChanSize
      /\ log' \in [Consumer -> Seq(1 .. MaxUpdates)]
  BY <1>3, <1>4, NotifyTypes DEF IInv
<1>6. history' \in Slice /\ metrics' \in Metrics
  BY <1>1 DEF HistoryState, Describes, Fits
<1>7. TypeOK'
  BY <1>1, <1>3, <1>5, <1>6 DEF IInv, TypeOK
<1> QED
  BY <1>1, <1>2, <1>3, <1>7 DEF IInv, LoopState

-----------------------------------------------------------------------------
(* The other steps                                                         *)

\* The initial metrics have no points.
LEMMA InitInv ==
  ASSUME Init
  PROVE  IInv
<1> DEFINE h == [array |-> 0, first |-> 1, len |-> 0]
<1>1. MaxHistory \in Nat \ {0} /\ ChanSize \in Nat \ {0} /\ MaxUpdates \in Nat
  BY MonitorAssumption
<1>2. /\ history = h /\ h \in Slice /\ h.len = 0 /\ arrays = << >> /\ room = 0
      /\ metrics = [update |-> 0, latency |-> 0, jitter |-> 0, loss |-> 0, score |-> 0,
                    min |-> 0, max |-> 0]
      /\ latencyHistory = << >> /\ ctxDone = FALSE /\ loop = "measure" /\ measured = None
  BY <1>1 DEF Init, Slice
<1>3. metrics \in Metrics /\ metrics.update = 0
  BY <1>1, <1>2 DEF Metrics
<1>4. ASSUME NEW c \in Consumer
      PROVE  /\ since[c] = None /\ chan[c] = << >> /\ log[c] = << >>
             /\ received[c] = << >> /\ reading[c] = None /\ got[c] = << >>
  BY DEF Init
<1>5. TypeOK
  <2>1. /\ since \in [Consumer -> 0 .. MaxUpdates \cup {None}]
        /\ chan \in [Consumer -> Seq(Result)] /\ log \in [Consumer -> Seq(1 .. MaxUpdates)]
        /\ received \in [Consumer -> Seq(0 .. MaxUpdates)]
        /\ reading \in [Consumer -> Result \cup {None}]
        /\ got \in [Consumer -> Seq(Latency)]
    BY DEF Init
  <2>2. \A c \in Consumer : Len(chan[c]) <= ChanSize
    BY <1>1, <1>4
  <2>3. latencyHistory \in Seq(Latency) /\ Len(latencyHistory) <= MaxHistory
        /\ arrays \in Seq(Seq(Latency)) /\ room \in Nat
    BY <1>1, <1>2
  <2> QED
    BY <1>2, <1>3, <2>1, <2>2, <2>3 DEF TypeOK
<1>6. HistoryState
  <2>1. Describes(metrics, arrays, history)
    BY <1>1, <1>2, <1>3 DEF Describes, Fits
  <2>2. SameHistory /\ AtEnd
    BY <1>2 DEF SameHistory, AtEnd
  <2> QED
    BY <2>1, <2>2 DEF HistoryState
<1>7. ResultsState /\ LogState
  <2>1. ASSUME NEW c \in Consumer
        PROVE  Logged(since[c], log[c], received[c], chan[c], metrics.update)
    <3>1. Logged(None, << >>, << >>, << >>, metrics.update)
      BY DEF Logged
    <3> QED
      BY <1>4, <3>1
  <2> QED
    BY <1>4, <2>1 DEF ResultsState, LogState, Reads
<1> QED
  BY <1>2, <1>5, <1>6, <1>7 DEF IInv, LoopState

\* What the loop does beside Update.
LEMMA LoopInv ==
  ASSUME IInv, Cancel \/ (\E m \in Measurement : Measured(m)) \/ MeasureFails
                 \/ Tick \/ LoopReturns
  PROVE  IInv'
<1>1. UNCHANGED <<historyVars, metrics, chanVars, readVars>>
  BY DEF Cancel, Measured, MeasureFails, Tick, LoopReturns
<1>2. /\ ctxDone' \in BOOLEAN /\ loop' \in {"measure", "update", "select", "returned"}
      /\ measured' \in Measurement \cup {None}
      /\ LoopState'
  BY <1>1 DEF IInv, TypeOK, LoopState, Cancel, Measured, MeasureFails, Tick, LoopReturns
<1>3. TypeOK'
  BY <1>1, <1>2 DEF IInv, TypeOK, historyVars, chanVars, readVars
<1>4. HistoryState'
  BY <1>1 DEF IInv, HistoryState, SameHistory, AtEnd, historyVars
<1>5. ResultsState' /\ LogState'
  BY <1>1 DEF IInv, ResultsState, LogState, historyVars, chanVars, readVars
<1> QED
  BY <1>2, <1>3, <1>4, <1>5 DEF IInv

LEMMA SubscribeInv ==
  ASSUME IInv, NEW c \in Consumer, Subscribe(c)
  PROVE  IInv'
<1>1. /\ since[c] = None /\ since' = [since EXCEPT ![c] = metrics.update]
      /\ UNCHANGED <<loopVars, historyVars, metrics, chan, log, received, readVars>>
  BY DEF Subscribe
<1>2. metrics.update \in 0 .. MaxUpdates /\ metrics.update \in Nat /\ metrics.update # None
  BY MonitorAssumption DEF IInv, TypeOK, Metrics
<1>3. TypeOK'
  BY <1>1, <1>2 DEF IInv, TypeOK, loopVars, historyVars, readVars
<1>4. HistoryState' /\ ResultsState' /\ LoopState'
  BY <1>1 DEF IInv, HistoryState, SameHistory, AtEnd, ResultsState, LoopState,
              loopVars, historyVars, readVars
<1>5. ASSUME NEW d \in Consumer
      PROVE  Logged(since'[d], log'[d], received'[d], chan'[d], metrics'.update)
  <2>1. Logged(since[d], log[d], received[d], chan[d], metrics.update)
    BY DEF IInv, LogState
  <2>2. CASE d = c
    <3>1. log[d] = << >> /\ received[d] = << >> /\ chan[d] = << >>
      BY <1>1, <2>1, <2>2 DEF Logged
    <3>2. Logged(metrics.update, << >>, << >>, << >>, metrics.update)
      BY <1>2 DEF Logged
    <3>3. since'[d] = metrics.update
      BY <1>1, <2>2 DEF IInv, TypeOK
    <3> QED
      BY <1>1, <3>1, <3>2, <3>3
  <2>3. CASE d # c
    BY <1>1, <2>1, <2>3 DEF IInv, TypeOK
  <2> QED
    BY <2>2, <2>3
<1> QED
  BY <1>3, <1>4, <1>5 DEF IInv, LogState

\* What a consumer begins to read describes its points.
LEMMA BeginsToRead ==
  ASSUME IInv, NEW q \in Result, NEW c \in Consumer, reading[c] = None,
         Sound(q, arrays, metrics.update)
  PROVE  Reads(q, got[c], arrays, metrics.update) /\ got[c] = << >>
<1>1. Reads(reading[c], got[c], arrays, metrics.update)
  BY DEF IInv, ResultsState
<1>2. got[c] = << >>
  BY <1>1 DEF Reads
<1>3. q.history.len \in Nat
  BY MonitorAssumption DEF Result, Slice
<1> QED
  BY <1>2, <1>3 DEF Reads

LEMMA ReceiveInv ==
  ASSUME IInv, NEW c \in Consumer, Receive(c)
  PROVE  IInv'
<1> DEFINE ch == chan[c]
           q == Head(ch)
           t == Tail(ch)
           a == arrays
           u == metrics.update
           k == Append(received[c], u)
<1>1. /\ reading[c] = None /\ ch # << >>
      /\ reading' = [reading EXCEPT ![c] = q] /\ chan' = [chan EXCEPT ![c] = t]
      /\ received' = [received EXCEPT ![c] = k]
      /\ UNCHANGED <<loopVars, historyVars, metrics, since, log, got>>
  BY DEF Receive
<1>2. ch \in Seq(Result) /\ Len(ch) <= ChanSize /\ ChanSize \in Nat
      /\ log[c] \in Seq(1 .. MaxUpdates) /\ received[c] \in Seq(0 .. MaxUpdates)
      /\ u \in 0 .. MaxUpdates /\ since[c] \in 0 .. MaxUpdates \cup {None}
  BY MonitorAssumption DEF IInv, TypeOK, Metrics
<1>3. /\ Len(ch) \in Nat /\ Len(ch) > 0 /\ q \in Result /\ q = ch[1]
      /\ t \in Seq(Result) /\ Len(t) = Len(ch) - 1
      /\ \A i \in 1 .. Len(t) : t[i] = ch[i + 1] /\ i + 1 \in 1 .. Len(ch)
  BY <1>1, <1>2
<1>4. \A i \in 1 .. Len(ch) : Sound(ch[i], a, u)
  BY DEF IInv, ResultsState
<1>5. Reads(q, got[c], a, u)
  <2>1. 1 \in 1 .. Len(ch)
    BY <1>3
  <2>2. Sound(q, a, u)
    BY <1>3, <1>4, <2>1
  <2> HIDE DEF q
  <2> QED
    BY <1>1, <1>3, <2>2, BeginsToRead
<1>6. Logged(since[c], log[c], k, t, u)
  <2>1. Logged(since[c], log[c], received[c], ch, u)
    BY DEF IInv, LogState
  <2>2. since[c] # None
    BY <1>1, <2>1 DEF Logged
  <2>3. since[c] \in Nat
    BY <1>2, <2>2, MonitorAssumption
  <2> HIDE DEF ch, t, u
  <2> QED
    BY <1>2, <1>3, <2>1, <2>2, <2>3, LogTaken
<1>7. /\ chan'[c] = t /\ reading'[c] = q /\ received'[c] = k
      /\ \A d \in Consumer \ {c} : /\ chan'[d] = chan[d] /\ reading'[d] = reading[d]
                                   /\ received'[d] = received[d]
  BY <1>1 DEF IInv, TypeOK
<1>8. TypeOK'
  <2>1. chan' \in [Consumer -> Seq(Result)] /\ reading' \in [Consumer -> Result \cup {None}]
    BY <1>1, <1>3 DEF IInv, TypeOK
  <2>3. received' \in [Consumer -> Seq(0 .. MaxUpdates)]
    <3>1. k \in Seq(0 .. MaxUpdates)
      BY <1>2, AppendProperties
    <3> HIDE DEF k
    <3> QED
      BY <1>1, <3>1 DEF IInv, TypeOK
  <2>2. ASSUME NEW d \in Consumer PROVE Len(chan'[d]) <= ChanSize
    <3>1. CASE d = c
      <4>1. Len(t) <= ChanSize
        BY <1>2, <1>3
      <4> QED
        BY <1>7, <3>1, <4>1
    <3>2. CASE d # c
      BY <1>7, <3>2 DEF IInv, TypeOK
    <3> QED
      BY <3>1, <3>2
  <2> QED
    BY <1>1, <2>1, <2>2, <2>3 DEF IInv, TypeOK, loopVars, historyVars
<1>9. HistoryState' /\ LoopState' /\ UNCHANGED <<arrays, metrics, since, log, got>>
  BY <1>1 DEF IInv, HistoryState, SameHistory, AtEnd, LoopState, loopVars, historyVars
<1> HIDE DEF ch, q, t, k
<1>10. ASSUME NEW d \in Consumer
       PROVE  /\ \A i \in 1 .. Len(chan'[d]) : Sound(chan'[d][i], a, u)
              /\ Reads(reading'[d], got[d], a, u)
              /\ Logged(since[d], log[d], received'[d], chan'[d], u)
  <2>1. CASE d = c
    BY <1>3, <1>4, <1>5, <1>6, <1>7, <2>1
  <2>2. CASE d # c
    BY <1>7, <2>2 DEF IInv, ResultsState, LogState
  <2> QED
    BY <2>1, <2>2
<1> QED
  BY <1>8, <1>9, <1>10 DEF IInv, ResultsState, LogState

\* Steps that change only what consumer c reads.
LEMMA ReadingInv ==
  ASSUME IInv, NEW c \in Consumer, NEW q \in Result \cup {None}, NEW g \in Seq(Latency),
         Reads(q, g, arrays, metrics.update),
         reading' = [reading EXCEPT ![c] = q], got' = [got EXCEPT ![c] = g],
         UNCHANGED <<loopVars, historyVars, metrics, chanVars>>
  PROVE  IInv'
<1>1. TypeOK'
  BY DEF IInv, TypeOK, loopVars, historyVars, chanVars
<1>2. HistoryState' /\ LoopState' /\ LogState'
  BY DEF IInv, HistoryState, SameHistory, AtEnd, LoopState, LogState,
         loopVars, historyVars, chanVars
<1>3. ASSUME NEW d \in Consumer
      PROVE  Reads(reading'[d], got'[d], arrays, metrics.update)
  <2>1. CASE d = c
    BY <2>1 DEF IInv, TypeOK
  <2>2. CASE d # c
    BY <2>2 DEF IInv, TypeOK, ResultsState
  <2> QED
    BY <2>1, <2>2
<1>4. ResultsState'
  BY <1>3 DEF IInv, ResultsState, historyVars, chanVars
<1> QED
  BY <1>1, <1>2, <1>4 DEF IInv

LEMMA GetMetricsInv ==
  ASSUME IInv, NEW c \in Consumer, GetMetrics(c)
  PROVE  IInv'
<1> DEFINE q == [metrics |-> metrics, history |-> history]
           g == got[c]
<1>0. metrics \in Metrics /\ history \in Slice
  BY DEF IInv, TypeOK
<1>1. metrics \in Metrics /\ history \in Slice /\ metrics.update \in Nat
  BY <1>0, MetricsNat
<1>2. q \in Result
  BY <1>1 DEF Result
<1>3. Sound(q, arrays, metrics.update)
  BY <1>1 DEF IInv, HistoryState, Sound
<1>4. /\ reading[c] = None /\ reading' = [reading EXCEPT ![c] = q] /\ got' = got
      /\ UNCHANGED <<loopVars, historyVars, metrics, chanVars>>
  BY DEF GetMetrics
<1> HIDE DEF q
<1>5. Reads(q, g, arrays, metrics.update)
  BY <1>2, <1>3, <1>4, BeginsToRead
<1>6. got' = [got EXCEPT ![c] = g] /\ g \in Seq(Latency)
  BY <1>4 DEF IInv, TypeOK
<1> HIDE DEF g
<1> QED
  BY <1>2, <1>4, <1>5, <1>6, ReadingInv

LEMMA ReadPointInv ==
  ASSUME IInv, NEW c \in Consumer, ReadPoint(c)
  PROVE  IInv'
<1> DEFINE q == reading[c]
           h == q.history
           g == got[c]
           n == Len(g)
           p == arrays[h.array][h.first + n]
<1>1. /\ q # None /\ n < h.len
      /\ got' = [got EXCEPT ![c] = Append(g, p)] /\ reading' = reading
      /\ UNCHANGED <<loopVars, historyVars, metrics, chanVars>>
  BY DEF ReadPoint
<1>2. /\ q \in Result /\ h \in Slice /\ g \in Seq(Latency) /\ n \in Nat
      /\ h.len \in Nat /\ h.first \in Nat \ {0} /\ arrays \in Seq(Seq(Latency))
  BY <1>1, MonitorAssumption, LenProperties DEF IInv, TypeOK, Result, Slice
<1>3. Reads(q, g, arrays, metrics.update)
  BY DEF IInv, ResultsState
<1>4. /\ Sound(q, arrays, metrics.update) /\ Fits(arrays, h)
      /\ \A i \in 1 .. n : g[i] = At(arrays, h, i)
  BY <1>1, <1>3 DEF Reads, Sound, Describes
<1>5. p \in Latency
  <2>1. h.array \in 1 .. Len(arrays) /\ h.first + h.len - 1 <= Len(arrays[h.array])
    BY <1>1, <1>2, <1>4 DEF Fits
  <2>2. arrays[h.array] \in Seq(Latency) /\ Len(arrays[h.array]) \in Nat
    BY <1>2, <2>1, ElementOfSeq, LenProperties
  <2>3. h.first + n \in 1 .. Len(arrays[h.array])
    <3> DEFINE f == h.first
               l == h.len
               m == Len(arrays[h.array])
    <3>1. f \in Nat \ {0} /\ l \in Nat /\ m \in Nat /\ n \in Nat /\ n < l /\ f + l - 1 <= m
      BY <1>1, <1>2, <2>1, <2>2
    <3> HIDE DEF f, l, m, n
    <3>2. f + n \in 1 .. m
      BY <3>1
    <3> QED
      BY <3>2 DEF f, m
  <2> QED
    BY <2>2, <2>3, ElementOfSeq
<1>6. p = At(arrays, h, n + 1)
  <2>1. h.first + (n + 1) - 1 = h.first + n
    BY <1>2
  <2> QED
    BY <2>1 DEF At
<1>7. /\ Append(g, p) \in Seq(Latency) /\ Len(Append(g, p)) = n + 1
      /\ \A i \in 1 .. n : Append(g, p)[i] = g[i]
      /\ Append(g, p)[n + 1] = p
  <2> HIDE DEF p, g
  <2> QED
    BY <1>2, <1>5, AppendProperties
<1> DEFINE k == Append(g, p)
<1> HIDE DEF q, h, g, n, p, k
<1>8. Reads(q, k, arrays, metrics.update)
  <2>1. Len(k) = n + 1 /\ Len(k) <= h.len
    BY <1>1, <1>2, <1>7 DEF k
  <2>2. ASSUME NEW i \in 1 .. (n + 1) PROVE k[i] = At(arrays, h, i)
    <3>1. CASE i = n + 1
      BY <1>6, <1>7, <3>1 DEF k
    <3>2. CASE i # n + 1
      <4>1. i \in 1 .. n
        BY <1>2, <3>2
      <4> QED
        BY <1>4, <1>7, <4>1 DEF k
    <3> QED
      BY <3>1, <3>2
  <2> QED
    BY <1>1, <1>4, <2>1, <2>2 DEF Reads, h
<1>9. reading' = [reading EXCEPT ![c] = q]
  BY <1>1 DEF IInv, TypeOK, q
<1> QED
  BY <1>1, <1>2, <1>7, <1>8, <1>9, ReadingInv DEF k

LEMMA FinishInv ==
  ASSUME IInv, NEW c \in Consumer, Finish(c)
  PROVE  IInv'
<1>1. /\ reading' = [reading EXCEPT ![c] = None] /\ got' = [got EXCEPT ![c] = << >>]
      /\ UNCHANGED <<loopVars, historyVars, metrics, chanVars>>
  BY DEF Finish
<1>2. Reads(None, << >>, arrays, metrics.update) /\ << >> \in Seq(Latency)
  BY DEF Reads
<1> QED
  BY <1>1, <1>2, ReadingInv

LEMMA StepInv ==
  ASSUME IInv, [Next]_vars
  PROVE  IInv'
<1>1. CASE UNCHANGED vars
  BY <1>1 DEF IInv, TypeOK, LoopState, HistoryState, SameHistory, AtEnd, ResultsState,
              LogState, vars, loopVars, historyVars, chanVars, readVars
<1>2. CASE Next
  BY <1>2, LoopInv, UpdateInv, SubscribeInv, ReceiveInv, GetMetricsInv, ReadPointInv,
     FinishInv DEF Next, LoopStep
<1> QED
  BY <1>1, <1>2

-----------------------------------------------------------------------------
(* Theorems                                                                *)

THEOREM Invariance == Spec => []IInv
BY InitInv, StepInv, PTL DEF Spec

\* The type invariant; with it, no history is longer than maxHistory, and no channel
\* than its capacity, at any step (monitor.go:76).
THEOREM TypeCorrect == Spec => []TypeOK
BY Invariance, PTL DEF IInv

\* A subscriber gets the updates in order and none twice, and misses only those
\* made while a whole channel of earlier ones waits for it (monitor.go:171).
THEOREM LosesOnlyFullChannels == Spec => []LosesOnlyWhenBehind
<1>1. ASSUME IInv PROVE LosesOnlyWhenBehind
  <2>1. ASSUME NEW c \in Consumer, since[c] # None
        PROVE  LET l == log[c] IN
               /\ \A i \in DOMAIN l : l[i] > IF i = 1 THEN since[c] ELSE l[i - 1]
               /\ \A v \in since[c] + 1 .. metrics.update :
                    \/ v \in Range(l)
                    \/ Cardinality(Waiting(l, received[c], v)) = ChanSize
    <3> DEFINE s == since[c]
               l == log[c]
               r == received[c]
               u == metrics.update
    <3>1. s \in Nat /\ s # None /\ l \in Seq(1 .. MaxUpdates) /\ u \in Nat
      BY <1>1, <2>1, MonitorAssumption DEF IInv, TypeOK, Metrics
    <3>2. Logged(s, l, r, chan[c], u)
      BY <1>1 DEF IInv, LogState
    <3> HIDE DEF s, l, r, u
    <3>3. DOMAIN l = 1 .. Len(l) /\ Len(l) \in Nat /\ \A i \in 1 .. Len(l) : l[i] \in Nat
      BY <3>1, MonitorAssumption, LenProperties
    <3>4. /\ \A i \in 1 .. Len(l) : s < l[i] /\ (i > 1 => l[i - 1] < l[i])
          /\ \A v \in s + 1 .. u :
               \/ \E i \in 1 .. Len(l) : l[i] = v
               \/ Cardinality(Waiting(l, r, v)) = ChanSize
      BY <3>1, <3>2 DEF Logged
    <3>5. ASSUME NEW i \in DOMAIN l PROVE l[i] > IF i = 1 THEN s ELSE l[i - 1]
      <4>1. CASE i = 1
        BY <3>1, <3>3, <3>4, <4>1
      <4>2. CASE i # 1
        <5>1. i - 1 \in 1 .. Len(l) /\ i > 1 /\ i \in 1 .. Len(l)
          BY <3>3, <4>2
        <5> QED
          BY <3>3, <3>4, <4>2, <5>1
      <4> QED
        BY <4>1, <4>2
    <3>6. \A v : (\E i \in 1 .. Len(l) : l[i] = v) => v \in Range(l)
      BY <3>3 DEF Range
    <3> QED
      BY <3>4, <3>5, <3>6 DEF s, l, r, u
  <2> QED
    BY <2>1 DEF LosesOnlyWhenBehind
<1> QED
  BY <1>1, Invariance, PTL

\* What a consumer has read without the lock agrees with the metrics it came with
\* (monitor.go:131, 159), and a measurement that is no worse has no lower score.
THEOREM ResultsAreCoherent == Spec => []ResultsCoherent
<1>1. ASSUME IInv PROVE ResultsCoherent
  <2>1. ASSUME NEW c \in Consumer, AllRead(c)
        PROVE  LET m == reading[c].metrics
                   g == got[c] IN
               /\ Len(g) = Min({m.update, MaxHistory})
               /\ g # << >> => /\ g[Len(g)] = m.latency
                               /\ m.min = Min(Range(g))
                               /\ m.max = Max(Range(g))
               /\ m.update > 0 /\ NoWorse(metrics, m) => metrics.score >= m.score
    <3> DEFINE q == reading[c]
               h == q.history
               m == q.metrics
               g == got[c]
               n == Len(g)
    <3>1. /\ q # None /\ n = h.len /\ q \in Result /\ g \in Seq(Latency)
          /\ Reads(q, g, arrays, metrics.update)
      BY <1>1, <2>1 DEF AllRead, IInv, TypeOK, ResultsState
    <3>2. /\ Describes(m, arrays, h) /\ m.update <= metrics.update
          /\ \A i \in 1 .. n : g[i] = At(arrays, h, i)
      BY <3>1 DEF Reads, Sound
    <3>3. /\ m \in Metrics /\ metrics \in Metrics /\ m.update \in Nat /\ metrics.update \in Nat
          /\ MaxHistory \in Nat \ {0} /\ Latency \subseteq Nat /\ n \in Nat
      <4>1. m \in Metrics /\ metrics \in Metrics
        BY <1>1, <3>1 DEF Result, IInv, TypeOK
      <4>2. n \in Nat
        <5> HIDE DEF g
        <5> QED
          BY <3>1, LenProperties
      <4> HIDE DEF m
      <4> QED
        BY <4>1, <4>2, MetricsNat, MonitorAssumption, LatencyNat
    <3> HIDE DEF q, h, m, g, n
    <3>4. n = Min({m.update, MaxHistory})
      <4>1. m.update \in Int /\ MaxHistory \in Int
        BY <3>3
      <4>2. Min({m.update, MaxHistory}) = IF m.update <= MaxHistory THEN m.update ELSE MaxHistory
        BY <4>1, MinOfTwo
      <4> QED
        BY <3>1, <3>2, <4>2 DEF Describes
    <3>5. ASSUME g # << >>
          PROVE  g[n] = m.latency /\ m.min = Min(Range(g)) /\ m.max = Max(Range(g))
      <4>1. n > 0 /\ n \in 1 .. n
        BY <3>1, <3>3, <3>5 DEF n
      <4>2. m.update > 0
        BY <3>1, <3>2, <3>3, <4>1 DEF Describes
      <4>3. /\ m.latency = At(arrays, h, n)
            /\ \E i \in 1 .. n : At(arrays, h, i) = m.min
            /\ \E i \in 1 .. n : At(arrays, h, i) = m.max
            /\ \A i \in 1 .. n : m.min <= At(arrays, h, i) /\ At(arrays, h, i) <= m.max
        BY <3>1, <3>2, <4>2 DEF Describes
      <4>4. Range(g) = {g[i] : i \in 1 .. n} /\ \A i \in 1 .. n : g[i] \in Nat
        <5>1. DOMAIN g = 1 .. n
          BY <3>1, LenProperties DEF n
        <5>2. ASSUME NEW i \in 1 .. n PROVE g[i] \in Nat
          BY <3>1, <3>3, <5>2, ElementOfSeq DEF n
        <5> QED
          BY <5>1, <5>2 DEF Range
      <4>5. /\ Range(g) \in SUBSET Int
            /\ m.min \in Range(g) /\ \A y \in Range(g) : m.min <= y
            /\ m.max \in Range(g) /\ \A y \in Range(g) : m.max >= y
        <5>1. Range(g) \in SUBSET Int
          BY <4>4
        <5>2. m.min \in Range(g) /\ m.max \in Range(g)
          BY <3>2, <4>3, <4>4
        <5>3. m.min \in Nat /\ m.max \in Nat
          BY <4>4, <5>2
        <5>4. ASSUME NEW y \in Range(g) PROVE m.min <= y /\ m.max >= y
          <6>1. PICK i \in 1 .. n : y = g[i]
            BY <4>4
          <6>2. y = At(arrays, h, i) /\ y \in Nat
            BY <3>2, <4>4, <6>1
          <6> QED
            BY <4>3, <5>3, <6>2
        <5> QED
          BY <5>1, <5>2, <5>4
      <4>6. m.min = Min(Range(g)) /\ m.max = Max(Range(g))
        BY <4>5, MinIs, MaxIs
      <4> QED
        BY <3>2, <4>1, <4>3, <4>6
    <3>6. ASSUME m.update > 0, NoWorse(metrics, m)
          PROVE  metrics.score >= m.score
      <4> DEFINE w == metrics
      <4>1. w.update > 0 /\ Describes(w, arrays, history)
        BY <1>1, <3>2, <3>3, <3>6 DEF IInv, HistoryState
      <4>2. /\ w.score = Scored(w.latency, w.jitter, w.loss)
            /\ m.score = Scored(m.latency, m.jitter, m.loss)
        BY <3>2, <3>6, <4>1 DEF Describes
      <4>3. /\ w.latency \in Nat /\ w.jitter \in Nat /\ w.loss \in Nat
            /\ m.latency \in Nat /\ m.jitter \in Nat /\ m.loss \in Nat
            /\ w.latency <= m.latency /\ w.jitter <= m.jitter /\ w.loss <= m.loss
        BY <3>3, <3>6, MetricsNat DEF NoWorse
      <4>4. Scored(m.latency, m.jitter, m.loss) <= Scored(w.latency, w.jitter, w.loss)
        <5> DEFINE x == m.latency  y == m.jitter  z == m.loss
                   a == w.latency  b == w.jitter  k == w.loss
        <5>1. /\ a \in Nat /\ b \in Nat /\ k \in Nat /\ x \in Nat /\ y \in Nat /\ z \in Nat
              /\ a <= x /\ b <= y /\ k <= z
          BY <4>3
        <5> HIDE DEF x, y, z, a, b, k
        <5>2. Scored(x, y, z) <= Scored(a, b, k)
          BY <5>1, ScoredMonotone
        <5> QED
          BY <5>2 DEF x, y, z, a, b, k
      <4>5. w.score \in Int /\ m.score \in Int
        BY <3>3, MetricsNat
      <4> QED
        BY <4>2, <4>4, <4>5
    <3> QED
      BY <3>4, <3>5, <3>6 DEF q, m, g, n
  <2> QED
    BY <2>1 DEF ResultsCoherent
<1> QED
  BY <1>1, Invariance, PTL

-----------------------------------------------------------------------------
(* The refinement of Snapshots                                             *)

\* A result, the results in a channel and the one being read as Snapshots sees
\* them, when the arrays are a.
CopyIn(a, q) == [metrics |-> q.metrics, points |-> PointsIn(a, q.history)]
QueueIn(a, ch) == [i \in 1 .. Len(ch) |-> CopyIn(a, ch[i])]
TakenIn(a, q) == IF q = None THEN {} ELSE {CopyIn(a, q)}

LEMMA Mapping ==
  /\ Points(history) = PointsIn(arrays, history)
  /\ Points(history)' = PointsIn(arrays', history')
  /\ Queues = [c \in Consumer |-> QueueIn(arrays, chan[c])]
  /\ Queues' = [c \in Consumer |-> QueueIn(arrays', chan'[c])]
  /\ Taken = [c \in Consumer |-> TakenIn(arrays, reading[c])]
  /\ Taken' = [c \in Consumer |-> TakenIn(arrays', reading'[c])]
BY DEF Points, PointsIn, Queues, QueueIn, Taken, TakenIn, Copy, CopyIn

\* A copy does not change while the arrays grow.
LEMMA CopyStays ==
  ASSUME NEW q \in Result, NEW u \in Nat,
         NEW a \in Seq(Seq(Latency)), NEW b \in Seq(Seq(Latency)), Grow(a, b),
         Sound(q, a, u)
  PROVE  CopyIn(b, q) = CopyIn(a, q)
<1>1. /\ Sound(q, b, u)
      /\ \A i \in 1 .. q.history.len : At(b, q.history, i) = At(a, q.history, i)
  BY SoundStays
<1>2. Fits(a, q.history) /\ Fits(b, q.history)
  BY <1>1 DEF Sound, Describes
<1> DEFINE s == PointsIn(a, q.history)
           t == PointsIn(b, q.history)
<1>3. /\ s \in Seq(Latency) /\ t \in Seq(Latency) /\ Len(s) = Len(t)
      /\ \A i \in 1 .. Len(s) : s[i] = t[i]
  BY <1>1, <1>2, PointsAre
<1> HIDE DEF s, t
<1>4. s = t
  BY <1>3, SeqEqual, SMTT(30)
<1> QED
  BY <1>4 DEF s, t, CopyIn

LEMMA QueueStays ==
  ASSUME NEW ch \in Seq(Result), NEW u \in Nat,
         NEW a \in Seq(Seq(Latency)), NEW b \in Seq(Seq(Latency)), Grow(a, b),
         \A i \in 1 .. Len(ch) : Sound(ch[i], a, u)
  PROVE  QueueIn(b, ch) = QueueIn(a, ch)
<1>1. ASSUME NEW i \in 1 .. Len(ch) PROVE CopyIn(b, ch[i]) = CopyIn(a, ch[i])
  <2>1. ch[i] \in Result /\ Sound(ch[i], a, u)
    BY ElementOfSeq
  <2> QED
    BY <2>1, CopyStays
<1> QED
  BY <1>1 DEF QueueIn

\* The ends of a channel and those of what it is mapped to.
LEMMA QueueIsSeq ==
  ASSUME NEW ch \in Seq(Result), NEW a
  PROVE  LET S == {CopyIn(a, q) : q \in Result} IN
         /\ QueueIn(a, ch) \in Seq(S) /\ Len(QueueIn(a, ch)) = Len(ch)
         /\ \A i \in 1 .. Len(ch) : QueueIn(a, ch)[i] = CopyIn(a, ch[i])
<1> DEFINE S == {CopyIn(a, q) : q \in Result}
           n == Len(ch)
<1>1. n \in Nat /\ \A i \in 1 .. n : ch[i] \in Result
  BY LenProperties, ElementOfSeq
<1>2. QueueIn(a, ch) = [i \in 1 .. n |-> CopyIn(a, ch[i])]
  BY DEF QueueIn
<1>3. \A i \in 1 .. n : CopyIn(a, ch[i]) \in S
  BY <1>1
<1> HIDE DEF S, n
<1>4. [i \in 1 .. n |-> CopyIn(a, ch[i])] \in Seq(S)
  BY <1>1, <1>3, IsASeq
<1>5. DOMAIN QueueIn(a, ch) = 1 .. Len(QueueIn(a, ch)) /\ Len(QueueIn(a, ch)) \in Nat
  BY <1>2, <1>4, LenProperties
<1>6. Len(QueueIn(a, ch)) = n
  BY <1>1, <1>2, <1>5
<1> QED
  BY <1>2, <1>4, <1>6 DEF S, n

LEMMA QueueAppended ==
  ASSUME NEW ch \in Seq(Result), NEW q \in Result, NEW a
  PROVE  QueueIn(a, Append(ch, q)) = Append(QueueIn(a, ch), CopyIn(a, q))
<1> DEFINE S == {CopyIn(a, r) : r \in Result}
           n == Len(ch)
           e == CopyIn(a, q)
           s == QueueIn(a, Append(ch, q))
           t == QueueIn(a, ch)
<1>1. /\ Append(ch, q) \in Seq(Result) /\ Len(Append(ch, q)) = n + 1 /\ n \in Nat
      /\ \A i \in 1 .. n : Append(ch, q)[i] = ch[i]
      /\ Append(ch, q)[n + 1] = q
  BY AppendProperties, LenProperties
<1>2. /\ s \in Seq(S) /\ Len(s) = n + 1
      /\ \A i \in 1 .. (n + 1) : s[i] = CopyIn(a, Append(ch, q)[i])
  BY <1>1, QueueIsSeq
<1>3. /\ t \in Seq(S) /\ Len(t) = n /\ \A i \in 1 .. n : t[i] = CopyIn(a, ch[i])
  BY QueueIsSeq
<1>4. e \in S
  OBVIOUS
<1> HIDE DEF S, n, s, t
<1>5. /\ Append(t, e) \in Seq(S) /\ Len(Append(t, e)) = n + 1
      /\ \A i \in 1 .. n : Append(t, e)[i] = t[i]
      /\ Append(t, e)[n + 1] = e
  BY <1>3, <1>4, AppendProperties
<1>6. ASSUME NEW i \in 1 .. (n + 1) PROVE s[i] = Append(t, e)[i]
  <2>1. CASE i = n + 1
    BY <1>1, <1>2, <1>5, <2>1
  <2>2. CASE i # n + 1
    <3>1. i \in 1 .. n
      BY <1>1, <2>2
    <3> QED
      BY <1>1, <1>2, <1>3, <1>5, <3>1
  <2> QED
    BY <2>1, <2>2
<1>7. s = Append(t, e)
  BY <1>2, <1>5, <1>6, SeqEqual
<1> QED
  BY <1>7 DEF s, t

LEMMA QueueTaken ==
  ASSUME NEW ch \in Seq(Result), ch # << >>, NEW a
  PROVE  /\ QueueIn(a, ch) # << >> /\ Head(QueueIn(a, ch)) = CopyIn(a, Head(ch))
         /\ QueueIn(a, Tail(ch)) = Tail(QueueIn(a, ch))
<1> DEFINE S == {CopyIn(a, r) : r \in Result}
           n == Len(ch)
           s == QueueIn(a, ch)
           t == QueueIn(a, Tail(ch))
<1>1. /\ n \in Nat /\ n > 0 /\ Head(ch) = ch[1]
      /\ Tail(ch) \in Seq(Result) /\ Len(Tail(ch)) = n - 1
      /\ \A i \in 1 .. (n - 1) : Tail(ch)[i] = ch[i + 1]
  <2>1. /\ Tail(ch) \in Seq(Result) /\ Len(Tail(ch)) = n - 1
        /\ \A i \in 1 .. Len(Tail(ch)) : Tail(ch)[i] = ch[i + 1]
    BY HeadTailProperties
  <2>2. n \in Nat /\ n > 0
    BY EmptySeq, LenProperties
  <2> QED
    BY <2>1, <2>2
<1>2. /\ s \in Seq(S) /\ Len(s) = n /\ \A i \in 1 .. n : s[i] = CopyIn(a, ch[i])
  BY QueueIsSeq
<1>3. /\ t \in Seq(S) /\ Len(t) = n - 1
      /\ \A i \in 1 .. (n - 1) : t[i] = CopyIn(a, Tail(ch)[i])
  <2> DEFINE r == Tail(ch)
  <2> HIDE DEF r
  <2>1. /\ QueueIn(a, r) \in Seq(S) /\ Len(QueueIn(a, r)) = Len(r)
        /\ \A i \in 1 .. Len(r) : QueueIn(a, r)[i] = CopyIn(a, r[i])
    <3>1. r \in Seq(Result)
      BY <1>1 DEF r
    <3> QED
      BY <3>1, QueueIsSeq
  <2>2. t = QueueIn(a, r) /\ Len(r) = n - 1 /\ r = Tail(ch)
    BY <1>1 DEF r
  <2> HIDE DEF S, n, t
  <2> QED
    BY <2>1, <2>2
<1> HIDE DEF S, n, s, t
<1>4. s # << >> /\ Head(s) = s[1] /\ 1 \in 1 .. n
  BY <1>1, <1>2
<1>5. /\ Tail(s) \in Seq(S) /\ Len(Tail(s)) = n - 1
      /\ \A i \in 1 .. (n - 1) : Tail(s)[i] = s[i + 1]
  BY <1>2, <1>4, HeadTailProperties
<1>6. ASSUME NEW i \in 1 .. (n - 1) PROVE t[i] = Tail(s)[i]
  <2>1. i + 1 \in 1 .. n
    BY <1>1
  <2> QED
    BY <1>1, <1>2, <1>3, <1>5, <2>1
<1>7. t = Tail(s)
  BY <1>3, <1>5, <1>6, SeqEqual
<1> QED
  BY <1>1, <1>2, <1>4, <1>7 DEF s, t

\* The window of the latency history drops what the copies drop.
LEMMA WindowKept ==
  ASSUME NEW s \in Seq(Latency), Len(s) <= MaxHistory, NEW p \in Latency
  PROVE  Window(Append(s, p)) = Copies!Kept(Append(s, p))
<1> DEFINE n == Len(s)
           k == n + 1 - Skip(n)
           w == Window(Append(s, p))
           e == Append(s, p)
<1>1. n \in Nat /\ MaxHistory \in Nat /\ n <= MaxHistory
  BY LenProperties, MonitorAssumption
<1>2. /\ w \in Seq(Latency) /\ Len(w) = k /\ w[k] = p
      /\ \A i \in 1 .. (n - Skip(n)) : w[i] = s[i + Skip(n)]
  BY WindowIs
<1>3. /\ e \in Seq(Latency) /\ Len(e) = n + 1 /\ e[n + 1] = p /\ e # << >>
      /\ \A i \in 1 .. n : e[i] = s[i]
  BY AppendProperties
<1>4. Copies!Kept(e) = IF Len(e) > MaxHistory THEN Tail(e) ELSE e
  BY DEF Copies!Kept
<1> HIDE DEF n, w, e
<1>5. CASE n < MaxHistory
  <2>1. Skip(n) = 0 /\ k = n + 1 /\ n - Skip(n) = n
    BY <1>1, <1>5 DEF Skip
  <2>2. ASSUME NEW i \in 1 .. (n + 1) PROVE w[i] = e[i]
    <3>1. i = n + 1 \/ (i \in 1 .. n /\ i + Skip(n) = i)
      BY <1>1, <2>1
    <3> QED
      BY <1>2, <1>3, <2>1, <3>1
  <2>3. w = e
    BY <1>2, <1>3, <2>1, <2>2, SeqEqual
  <2> QED
    BY <1>1, <1>3, <1>4, <1>5, <2>3 DEF w, e
<1>6. CASE ~(n < MaxHistory)
  <2>1. Skip(n) = 1 /\ k = n /\ n - Skip(n) = n - 1 /\ n > 0
    BY <1>1, <1>6, MonitorAssumption DEF Skip
  <2>2. /\ Tail(e) \in Seq(Latency) /\ Len(Tail(e)) = n
        /\ \A i \in 1 .. n : Tail(e)[i] = e[i + 1]
    <3>1. Len(e) - 1 = n
      BY <1>1, <1>3
    <3> QED
      BY <1>3, <3>1, HeadTailProperties
  <2>3. ASSUME NEW i \in 1 .. n PROVE w[i] = Tail(e)[i]
    <3>1. i = n \/ (i \in 1 .. (n - 1) /\ i + 1 \in 1 .. n)
      BY <1>1, <2>1
    <3> QED
      BY <1>2, <1>3, <2>1, <2>2, <3>1
  <2>4. w = Tail(e)
    BY <1>2, <2>1, <2>2, <2>3, SeqEqual
  <2> QED
    BY <1>1, <1>3, <1>4, <1>6, <2>4 DEF w, e
<1> QED
  BY <1>5, <1>6

\* The two histories have the same points.
LEMMA HistoryPoints ==
  ASSUME NEW a \in Seq(Seq(Latency)), NEW h, NEW s \in Seq(Latency), Fits(a, h),
         Len(s) = h.len, \A i \in 1 .. h.len : s[i] = At(a, h, i)
  PROVE  PointsIn(a, h) = s
<1> DEFINE t == PointsIn(a, h)
<1>1. t \in Seq(Latency) /\ Len(t) = Len(s) /\ \A i \in 1 .. Len(t) : t[i] = s[i]
  BY PointsAre
<1> HIDE DEF t
<1>2. t = s
  BY <1>1, SeqEqual
<1> QED
  BY <1>2 DEF t

\* An update publishes what has been measured, and leaves all other copies alone.
LEMMA UpdatePublishes ==
  ASSUME IInv, Update
  PROVE  \E m \in Measurement : Copies!Publish(m)
<1> DEFINE p == measured.latency
           q == [metrics |-> metrics', history |-> history']
           s == latencyHistory'
           u == metrics.update
           a == arrays
           b == arrays'
<1>1. /\ measured \in Measurement /\ Record(p)
      /\ s = Window(Append(latencyHistory, p))
      /\ metrics' = [update |-> u + 1, latency |-> p, jitter |-> measured.jitter,
                     loss |-> measured.loss,
                     score |-> ComputeScore(p, measured.jitter, measured.loss, 0, 0),
                     min |-> Min(Range(s)), max |-> Max(Range(s))]
      /\ Notify(q) /\ UNCHANGED <<since, reading, got>>
  BY DEF IInv, LoopState, Update, readVars
<1>2. p \in Latency
  BY <1>1, LatencyNat
<1>3. /\ a \in Seq(Seq(Latency)) /\ b \in Seq(Seq(Latency)) /\ Grow(a, b)
      /\ s \in Seq(Latency) /\ Len(s) <= MaxHistory /\ Fits(b, history') /\ SameHistory'
  BY <1>1, <1>2, RecordIs DEF IInv, TypeOK
<1>4. Points(history) = latencyHistory
  <2>1. /\ latencyHistory \in Seq(Latency) /\ Fits(a, history)
        /\ Len(latencyHistory) = history.len
        /\ \A i \in 1 .. history.len : latencyHistory[i] = At(a, history, i)
    BY DEF IInv, TypeOK, HistoryState, Describes, SameHistory
  <2> QED
    BY <1>3, <2>1, HistoryPoints, Mapping
<1>5. Points(history)' = s
  <2>1. Len(s) = history'.len /\ \A i \in 1 .. history'.len : s[i] = At(b, history', i)
    BY <1>3 DEF SameHistory
  <2> HIDE DEF s, b
  <2>2. PointsIn(b, history') = s
    BY <1>3, <2>1, HistoryPoints
  <2> QED
    BY <2>2, Mapping DEF b
<1>6. Points(history)' = Copies!Kept(Append(Points(history), p))
  <2>1. latencyHistory \in Seq(Latency) /\ Len(latencyHistory) <= MaxHistory
    BY DEF IInv, TypeOK
  <2> QED
    BY <1>1, <1>2, <1>4, <1>5, <2>1, WindowKept
<1>7. Min(Range(s)) = Copies!Least(s) /\ Max(Range(s)) = Copies!Greatest(s)
  <2>1. Range(s) = Copies!Values(s)
    <3>1. DOMAIN s = 1 .. Len(s)
      BY <1>3, LenProperties
    <3> QED
      BY <3>1 DEF Range, Copies!Values
  <2> QED
    BY <2>1 DEF Min, Max, Copies!Least, Copies!Greatest
<1>8. ScoreIs[measured] = ComputeScore(p, measured.jitter, measured.loss, 0, 0)
  BY <1>1 DEF ScoreIs
<1>9. /\ q \in Result /\ q.metrics.update \in 1 .. MaxUpdates
      /\ CopyIn(b, q) = [metrics |-> metrics', points |-> Points(history)']
  <2>1. HistoryState' /\ metrics \in Metrics /\ u < MaxUpdates
    BY UpdateDescribes DEF IInv, TypeOK, LoopState, Update
  <2>2. metrics' \in Metrics /\ history' \in Slice
    <3>1. Describes(metrics', arrays', history')
      BY <2>1, Zenon DEF HistoryState
    <3> QED
      BY <3>1, DescribesTypes
  <2>3. metrics'.update \in 1 .. MaxUpdates
    <3>1. metrics'.update = u + 1 /\ u \in Nat /\ MaxUpdates \in Nat
      BY <1>1, <2>1, MetricsNat, MonitorAssumption
    <3> HIDE DEF u
    <3> QED
      BY <2>1, <3>1
  <2>4. CopyIn(b, q) = [metrics |-> metrics', points |-> PointsIn(b, history')]
    BY DEF CopyIn
  <2> QED
    BY <2>2, <2>3, <2>4, Mapping DEF Result
<1> HIDE DEF q, s, u, a
<1>10. ASSUME NEW c \in Consumer
       PROVE  QueueIn(b, chan'[c]) =
                IF c \in Subscribers /\ Len(Queues[c]) < ChanSize
                  THEN Append(Queues[c], CopyIn(b, q)) ELSE Queues[c]
  <2>1. chan[c] \in Seq(Result) /\ \A i \in 1 .. Len(chan[c]) : Sound(chan[c][i], a, u)
    BY DEF IInv, TypeOK, ResultsState, a, u
  <2>2. u \in Nat
    <3>1. metrics \in Metrics
      BY DEF IInv, TypeOK
    <3> QED
      BY <3>1, MetricsNat DEF u
  <2>3. Queues[c] = QueueIn(a, chan[c]) /\ Len(Queues[c]) = Len(chan[c])
    BY <2>1, Mapping, QueueIsSeq DEF a
  <2>4. QueueIn(b, chan[c]) = Queues[c]
    <3> HIDE DEF b
    <3> QED
      BY <1>3, <2>1, <2>2, <2>3, QueueStays
  <2>5. c \in Subscribers <=> since[c] # None
    BY DEF Subscribers
  <2>6. CASE /\ since[c] # None /\ Len(chan[c]) < ChanSize
             /\ chan'[c] = Append(chan[c], q)
    <3>1. QueueIn(b, chan'[c]) = Append(QueueIn(b, chan[c]), CopyIn(b, q))
      BY <1>9, <2>1, <2>6, QueueAppended
    <3> QED
      BY <2>3, <2>4, <2>5, <2>6, <3>1
  <2>7. CASE /\ since[c] = None \/ Len(chan[c]) = ChanSize
             /\ chan'[c] = chan[c]
    <3>1. ChanSize \in Nat
      BY MonitorAssumption
    <3> QED
      BY <2>3, <2>4, <2>5, <2>7, <3>1
  <2> QED
    BY <1>1, <1>9, <2>6, <2>7, Notified DEF IInv
<1>11. Queues' = [c \in Consumer |->
                    IF c \in Subscribers /\ Len(Queues[c]) < ChanSize
                      THEN Append(Queues[c], [metrics |-> metrics',
                                              points |-> Points(history)'])
                      ELSE Queues[c]]
  BY <1>9, <1>10, Mapping
<1>12. Subscribers' = Subscribers
  BY <1>1 DEF Subscribers
<1>13. Taken' = Taken
  <2>1. ASSUME NEW c \in Consumer PROVE TakenIn(b, reading'[c]) = TakenIn(a, reading[c])
    <3>1. /\ reading[c] \in Result \cup {None} /\ reading'[c] = reading[c]
          /\ Reads(reading[c], got[c], a, u)
      BY <1>1 DEF IInv, TypeOK, ResultsState, a, u
    <3>2. CASE reading[c] = None
      BY <3>1, <3>2 DEF TakenIn
    <3>3. CASE reading[c] # None
      <4>1. reading[c] \in Result /\ Sound(reading[c], a, u)
        BY <3>1, <3>3 DEF Reads
      <4>2. u \in Nat
        <5>1. metrics \in Metrics
          BY DEF IInv, TypeOK
        <5> QED
          BY <5>1, MetricsNat DEF u
      <4>3. CopyIn(b, reading[c]) = CopyIn(a, reading[c])
        BY <1>3, <4>1, <4>2, CopyStays
      <4> QED
        BY <3>1, <3>3, <4>3 DEF TakenIn
    <3> QED
      BY <3>2, <3>3
  <2> QED
    BY <2>1, Mapping DEF a, b
<1>14. metrics' = [update |-> metrics.update + 1, latency |-> p,
                   jitter |-> measured.jitter, loss |-> measured.loss,
                   score |-> ScoreIs[measured],
                   min |-> Copies!Least(Points(history)'),
                   max |-> Copies!Greatest(Points(history)')]
  BY <1>1, <1>5, <1>7, <1>8 DEF u
<1>15. Copies!Publish(measured)
  BY <1>1, <1>6, <1>11, <1>12, <1>13, <1>14 DEF Copies!Publish
<1> QED
  BY <1>1, <1>15

\* A step that leaves the arrays and the history alone leaves all copies alone.
LEMMA SameCopies ==
  ASSUME UNCHANGED historyVars
  PROVE  /\ Points(history)' = Points(history)
         /\ chan' = chan => Queues' = Queues
         /\ reading' = reading => Taken' = Taken
         /\ since' = since => Subscribers' = Subscribers
BY Mapping DEF historyVars, Subscribers

LEMMA SubscribeCopies ==
  ASSUME IInv, NEW c \in Consumer, Subscribe(c)
  PROVE  Copies!Subscribe(c)
<1>1. /\ since[c] = None /\ since' = [since EXCEPT ![c] = metrics.update]
      /\ UNCHANGED <<historyVars, metrics, chan, reading, got>>
  BY DEF Subscribe, readVars
<1>2. metrics.update # None
  BY MonitorAssumption DEF IInv, TypeOK, Metrics
<1>3. c \notin Subscribers /\ Subscribers' = Subscribers \cup {c}
  BY <1>1, <1>2 DEF IInv, TypeOK, Subscribers
<1> QED
  BY <1>1, <1>3, SameCopies DEF Copies!Subscribe

\* What a consumer takes, in either way, is taken as a copy.
LEMMA TakenChanges ==
  ASSUME IInv, NEW c \in Consumer, NEW q \in Result \cup {None},
         UNCHANGED historyVars, reading' = [reading EXCEPT ![c] = q]
  PROVE  Taken' = [Taken EXCEPT ![c] = TakenIn(arrays, q)]
<1>1. arrays' = arrays /\ Taken = [d \in Consumer |-> TakenIn(arrays, reading[d])]
      /\ Taken' = [d \in Consumer |-> TakenIn(arrays', reading'[d])]
  BY Mapping DEF historyVars
<1>2. \A d \in Consumer : reading'[d] = IF d = c THEN q ELSE reading[d]
  BY DEF IInv, TypeOK
<1> QED
  BY <1>1, <1>2

LEMMA ReceiveCopies ==
  ASSUME IInv, NEW c \in Consumer, Receive(c)
  PROVE  Copies!Receive(c)
<1> DEFINE ch == chan[c]
           a == arrays
           q == Head(ch)
           t == Tail(ch)
<1>1. /\ reading[c] = None /\ ch # << >> /\ ch \in Seq(Result)
      /\ reading' = [reading EXCEPT ![c] = q] /\ chan' = [chan EXCEPT ![c] = t]
      /\ UNCHANGED <<historyVars, metrics, since, got>>
  BY DEF IInv, TypeOK, Receive
<1>2. q \in Result /\ q # None
  BY <1>1, HeadTailProperties, ResultAssumption
<1>3. /\ QueueIn(a, ch) # << >> /\ Head(QueueIn(a, ch)) = CopyIn(a, q)
      /\ QueueIn(a, t) = Tail(QueueIn(a, ch))
  BY <1>1, QueueTaken
<1>4. /\ a' = a /\ Queues = [d \in Consumer |-> QueueIn(a, chan[d])]
      /\ Queues' = [d \in Consumer |-> QueueIn(a, chan'[d])]
  BY <1>1, Mapping DEF historyVars
<1>5. \A d \in Consumer : chan'[d] = IF d = c THEN t ELSE chan[d]
  BY <1>1 DEF IInv, TypeOK
<1>6. Taken[c] = {} /\ TakenIn(a, q) = {CopyIn(a, q)}
  BY <1>1, <1>2, Mapping DEF TakenIn
<1>7. Taken' = [Taken EXCEPT ![c] = TakenIn(a, q)]
  BY <1>1, <1>2, TakenChanges
<1> HIDE DEF ch, a, q, t
<1>8. Queues[c] # << >> /\ Head(Queues[c]) = CopyIn(a, q)
  BY <1>3, <1>4 DEF ch
<1>9. Queues' = [Queues EXCEPT ![c] = Tail(Queues[c])]
  BY <1>3, <1>4, <1>5 DEF ch
<1>10. Taken' = [Taken EXCEPT ![c] = {Head(Queues[c])}]
  BY <1>6, <1>7, <1>8
<1> QED
  BY <1>1, <1>6, <1>8, <1>9, <1>10, SameCopies DEF Copies!Receive

LEMMA GetMetricsCopies ==
  ASSUME IInv, NEW c \in Consumer, GetMetrics(c)
  PROVE  Copies!GetMetrics(c)
<1> DEFINE q == [metrics |-> metrics, history |-> history]
<1>1. /\ reading[c] = None /\ reading' = [reading EXCEPT ![c] = q]
      /\ UNCHANGED <<historyVars, metrics, since, chan, got>>
  BY DEF GetMetrics, chanVars
<1>2. q \in Result /\ q # None
  <2>1. metrics \in Metrics /\ history \in Slice
    BY DEF IInv, TypeOK
  <2>2. q \in Result
    BY <2>1 DEF Result
  <2> QED
    BY <2>2, ResultAssumption
<1>3. CopyIn(arrays, q) = [metrics |-> metrics, points |-> Points(history)]
  BY Mapping DEF CopyIn
<1>4. Taken[c] = {}
  BY <1>1, Mapping DEF TakenIn
<1> HIDE DEF q
<1>5. TakenIn(arrays, q) = {[metrics |-> metrics, points |-> Points(history)]}
  BY <1>2, <1>3 DEF TakenIn
<1>6. Taken' = [Taken EXCEPT ![c] = TakenIn(arrays, q)]
  BY <1>1, <1>2, TakenChanges
<1> QED
  BY <1>1, <1>4, <1>5, <1>6, SameCopies DEF Copies!GetMetrics

\* The point in the array is that of the copy.
LEMMA ReadPointCopies ==
  ASSUME IInv, NEW c \in Consumer, ReadPoint(c)
  PROVE  Copies!ReadPoint(c)
<1> DEFINE q == reading[c]
           h == q.history
           n == Len(got[c])
           p == arrays[h.array][h.first + n]
           r == CopyIn(arrays, q)
<1>1. /\ q # None /\ n < h.len /\ q \in Result /\ got[c] \in Seq(Latency)
      /\ got' = [got EXCEPT ![c] = Append(got[c], p)]
      /\ UNCHANGED <<historyVars, metrics, since, chan, reading>>
  BY DEF IInv, TypeOK, ReadPoint, chanVars
<1>2. arrays \in Seq(Seq(Latency)) /\ Fits(arrays, h)
  BY <1>1 DEF IInv, TypeOK, ResultsState, Reads, Sound, Describes
<1>3. n \in Nat /\ n + 1 \in 1 .. h.len /\ h.first \in Nat
  <2>1. h \in Slice /\ h.len \in Nat /\ h.first \in Nat
    BY <1>2, MonitorAssumption DEF Fits, Slice
  <2>2. n \in Nat
    BY <1>1, LenProperties
  <2> QED
    BY <1>1, <2>1, <2>2
<1>4. r.points = PointsIn(arrays, h)
  BY DEF CopyIn
<1>5. Len(r.points) = h.len /\ r.points[n + 1] = At(arrays, h, n + 1)
  BY <1>2, <1>3, <1>4, PointsAre
<1>6. At(arrays, h, n + 1) = p
  <2>1. h.first + (n + 1) - 1 = h.first + n
    BY <1>3
  <2> QED
    BY <2>1 DEF At
<1>7. r \in Taken[c]
  BY <1>1, Mapping DEF TakenIn
<1> HIDE DEF q, h, p, r
<1>8. got' = [got EXCEPT ![c] = Append(@, r.points[Len(@) + 1])]
  BY <1>1, <1>5, <1>6
<1>9. Len(got[c]) < Len(r.points)
  BY <1>1, <1>5
<1> QED
  BY <1>1, <1>7, <1>8, <1>9, SameCopies DEF Copies!ReadPoint

LEMMA FinishCopies ==
  ASSUME IInv, NEW c \in Consumer, Finish(c)
  PROVE  Copies!Finish(c)
<1> DEFINE q == reading[c]
           r == CopyIn(arrays, q)
           s == PointsIn(arrays, q.history)
           g == got[c]
<1>1. /\ q # None /\ Len(g) = q.history.len /\ g \in Seq(Latency)
      /\ reading' = [reading EXCEPT ![c] = None] /\ got' = [got EXCEPT ![c] = << >>]
      /\ UNCHANGED <<historyVars, metrics, since, chan>>
  BY DEF IInv, TypeOK, Finish, AllRead, chanVars
<1>2. /\ arrays \in Seq(Seq(Latency)) /\ Fits(arrays, q.history)
      /\ \A i \in 1 .. Len(g) : g[i] = At(arrays, q.history, i)
  BY <1>1 DEF IInv, TypeOK, ResultsState, Reads, Sound, Describes
<1>3. s \in Seq(Latency) /\ Len(s) = Len(g) /\ \A i \in 1 .. Len(g) : g[i] = s[i]
  BY <1>1, <1>2, PointsAre
<1>4. r.points = s /\ r \in Taken[c]
  BY <1>1, Mapping DEF CopyIn, TakenIn
<1>5. Taken' = [Taken EXCEPT ![c] = TakenIn(arrays, None)]
  BY <1>1, TakenChanges
<1>6. TakenIn(arrays, None) = {}
  BY DEF TakenIn
<1> HIDE DEF q, r, s, g
<1>7. g = s
  BY <1>1, <1>3, SeqEqual
<1> QED
  BY <1>1, <1>4, <1>5, <1>6, <1>7, SameCopies DEF Copies!Finish, g

\* The monitor, whose results share arrays that it goes on writing to, implements
\* one that hands out copies (monitor.go:166, 199).
THEOREM Refinement == Spec => ImplementsSnapshots
<1>1. Init => Copies!Init
  <2> SUFFICES ASSUME Init PROVE Copies!Init
    OBVIOUS
  <2>1. Points(history) = << >> /\ Subscribers = {}
    BY DEF Init, Points, Subscribers
  <2>2. Queues = [c \in Consumer |-> << >>]
    <3>1. \A c \in Consumer : QueueIn(arrays, chan[c]) = << >>
      BY DEF Init, QueueIn
    <3> QED
      BY <3>1, Mapping
  <2>3. Taken = [c \in Consumer |-> {}]
    BY Mapping DEF Init, TakenIn
  <2> QED
    BY <2>1, <2>2, <2>3 DEF Init, Copies!Init
<1>2. IInv /\ [Next]_vars => [Copies!Next]_(Copies!vars)
  <2> SUFFICES ASSUME IInv, [Next]_vars PROVE [Copies!Next]_(Copies!vars)
    OBVIOUS
  <2>1. CASE UNCHANGED <<historyVars, metrics, chanVars, readVars>>
    BY <2>1, SameCopies DEF Copies!vars, chanVars, readVars
  <2>2. CASE Update
    BY <2>2, UpdatePublishes DEF Copies!Next
  <2>3. ASSUME NEW c \in Consumer,
               Subscribe(c) \/ Receive(c) \/ GetMetrics(c) \/ ReadPoint(c) \/ Finish(c)
        PROVE  Copies!Next
    BY <2>3, SubscribeCopies, ReceiveCopies, GetMetricsCopies, ReadPointCopies,
       FinishCopies DEF Copies!Next
  <2>4. CASE Cancel \/ (\E m \in Measurement : Measured(m)) \/ MeasureFails
             \/ Tick \/ LoopReturns
    <3>1. UNCHANGED <<historyVars, metrics, chanVars, readVars>>
      BY <2>4 DEF Cancel, Measured, MeasureFails, Tick, LoopReturns
    <3> QED
      BY <2>1, <3>1
  <2>5. CASE UNCHANGED vars
    BY <2>1, <2>5 DEF vars
  <2> QED
    BY <2>2, <2>3, <2>4, <2>5 DEF Next, LoopStep
<1> QED
  BY <1>1, <1>2, Invariance, PTL DEF Spec, ImplementsSnapshots, Copies!Spec

=============================================================================
