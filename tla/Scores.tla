------------------------------- MODULE Scores -------------------------------
(* The scores and statistics of internal/monitor, internal/benchmark and   *)
(* internal/latency as operators.                                          *)
(*                                                                         *)
(* The code computes with floating-point numbers and rounds what it hands  *)
(* out to two decimals.  Here all quantities are integers, in hundredths   *)
(* (of a millisecond, a percent, a Mbit/s, a point), and each sum is taken *)
(* in a fraction of them in which it is exact, and rounded at the end.     *)
EXTENDS Integers, Sequences

\* math.Max(0, x), and math.Min(b, x).
PosPart(x) == IF x > 0 THEN x ELSE 0
AtMost(b, x) == IF x < b THEN x ELSE b

\* math.Round(x / unit), for x >= 0.
Rounded(x, unit) == (2 * x + unit) \div (2 * unit)

-----------------------------------------------------------------------------
(* monitor.ComputeScore, in units of 1/600                                 *)

LatencyPart(latency) ==
  IF latency > 15000
    THEN PosPart(21 * (65000 - latency))
    ELSE PosPart(70 * (30000 - latency))
JitterPart(jitter) == PosPart(90 * (10000 - 3 * jitter))
LossPart(loss) == PosPart(150 * (10000 - 10 * loss))
SpeedPart(up, down) == 300 * AtMost(3000, down) + 600 * AtMost(1000, up)

ComputeScore(latency, jitter, loss, up, down) ==
  Rounded(LatencyPart(latency) + JitterPart(jitter) + LossPart(loss)
            + SpeedPart(up, down), 600)

-----------------------------------------------------------------------------
(* benchmark.RunAll and QuickBenchmark                                     *)

\* The quality score of RunAll, 0 when nothing was reachable.
QualityScore(latency, jitter, loss) ==
  IF latency = 0 THEN 0
  ELSE Rounded(PosPart(20000 - PosPart(latency - 2000) - 4 * PosPart(jitter - 1000)
                         - (IF loss > 100 THEN 10 * loss ELSE 0)), 2)

\* improvement: of the fastest DNS server over the last one, which is negative
\* when the last one was unreachable, since its latency is 0.
computeOptimizationScore(improvement, quality, loss) ==
  Rounded(AtMost(100000, PosPart(
    50000
    + (IF improvement > 0 THEN AtMost(20000, 20 * improvement) ELSE 0)
    + (IF quality > 0 THEN 3 * (quality - 5000) ELSE 0)
    + (IF loss = 0 THEN 10000 ELSE IF loss < 100 THEN 5000 ELSE 0))), 10)

PingPoints(ping) ==
  CASE ping = 0 -> 0
    [] 0 < ping /\ ping < 2000 -> 15000
    [] 2000 <= ping /\ ping < 5000 -> 10000
    [] 5000 <= ping /\ ping < 10000 -> 5000
    [] 10000 <= ping -> 10000 - ping

JitterPoints(jitter) ==
  CASE 0 < jitter /\ jitter < 1500 -> 5000
    [] jitter > 3000 -> -5000
    [] OTHER -> 0

SpeedPoints(speed) ==
  CASE speed > 5000 -> 5000
    [] 2000 < speed /\ speed <= 5000 -> 2500
    [] speed < 500 -> -5000
    [] OTHER -> 0

\* In units of 1/5, with the points of 60 at the start.
ComputeQuickScore(ping, jitter, speed) ==
  Rounded(AtMost(50000, PosPart(30000 + PingPoints(ping) + JitterPoints(jitter)
                                  + SpeedPoints(speed))), 5)

-----------------------------------------------------------------------------
(* latency.computeStats                                                    *)

Sorted(data) == \A i, j \in DOMAIN data : i <= j => data[i] <= data[j]

\* The value at a rank, in hundredths of a place and of a microsecond: between
\* two samples it is interpolated.
ValueAt(data, rank) ==
  LET lower == rank \div 100 + 1
      part == rank % 100 IN
  IF part = 0 THEN 100 * data[lower]
  ELSE 100 * data[lower] + (data[lower + 1] - data[lower]) * part

percentile(data, p) ==
  CASE data = << >> -> 0
    [] data # << >> /\ p <= 0 -> 100 * data[1]
    [] data # << >> /\ p >= 100 -> 100 * data[Len(data)]
    [] OTHER -> ValueAt(data, p * (Len(data) - 1))

\* The samples have been sorted, so that the mean difference between consecutive
\* ones is that between the last and the first, divided.  A single sample gives
\* 0/0, whose conversion to an integer is 0 or the least one, according to the
\* processor, and 1000 times either is 0 in 64 bits.
Jitter(data) ==
  IF Len(data) = 1 THEN 0 ELSE (data[Len(data)] - data[1]) \div (Len(data) - 1)

\* The statistics of a target with sorted, reachable samples, in microseconds,
\* without the mean and the deviation.
computeStats(data) ==
  [min |-> data[1], max |-> data[Len(data)],
   median |-> percentile(data, 50) \div 100,
   p95 |-> percentile(data, 95) \div 100,
   p99 |-> percentile(data, 99) \div 100,
   jitter |-> Jitter(data)]
=============================================================================
