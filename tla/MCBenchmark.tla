---------------------------- MODULE MCBenchmark ----------------------------
(* A small instance of Benchmark: one call of any kind beside a speed test   *)
(* of the shared Tester.                                                     *)
EXTENDS Benchmark, TLC

CONSTANTS a, b, t1, t2, p1, p2, u1

MCCalls == {a, b}
MCKinds == (a :> {"full", "quick", "test"}) @@ (b :> {"test"})
MCTargets == {t1, t2}
MCPings == {p1, p2}
MCURLs == {u1}
=============================================================================
