------------------------------ MODULE Benchmark ------------------------------
(* Measurements and their fan-outs: BenchmarkTargets of internal/latency,  *)
(* RunFullTest of internal/speedtest and the two calls of                  *)
(* internal/benchmark that put them together:                              *)
(*   RunAll          ("full")  BenchmarkServers beside BenchmarkTargets    *)
(*   QuickBenchmark  ("quick") BenchmarkTargets, then RunFullTest of a     *)
(*                             Tester of its own                           *)
(*   RunFullTest     ("test")  of a Tester that all such calls share       *)
(* Each fan-out is a set of goroutines that count what they find under a   *)
(* mutex and a wait group that its caller waits for.                       *)
EXTENDS Naturals, FiniteSets

CONSTANTS
  Calls,
  Kinds,    \* [Calls -> the kinds a call may be of]
  Targets,  \* the targets of BenchmarkTargets
  Samples,  \* latency.Tester.sampleSize, the pings of each
  Pings,    \* the pings of measureLatency
  URLs      \* speedtest.Tester.downloadURLs

ASSUME CallAssumption ==
  /\ Kinds \in [Calls -> SUBSET {"full", "quick", "test"}]
  /\ IsFiniteSet(Pings) /\ IsFiniteSet(URLs)
  /\ Samples \in Nat \ {0}

VARIABLES
  cancelled,  \* the context is done
  kind,       \* [Calls -> the kind, once started]
  call,       \* [Calls -> program counter]
  servers,    \* [Calls -> "idle", "running", "done"]: the DNS part of RunAll
  target,     \* [Calls -> [Targets -> a BenchmarkTarget]]
  flying,     \* [Calls -> the pings of measureLatency under way]
  body,       \* [Calls -> [URLs -> a goroutine of measureDownload]]
  result,     \* [Calls -> what RunFullTest has counted]
  cache       \* the shared Tester's cached results: one that is still valid, or none

fanVars == <<servers, target>>
testVars == <<flying, body, result>>
vars == <<cancelled, kind, call, fanVars, testVars, cache>>

Target ==
  [at : {"idle", "pause", "wait", "abort", "result", "error"},
   launched : 0 .. Samples, ok : 0 .. Samples, lost : 0 .. Samples]

Result ==
  [ok : 0 .. Cardinality(Pings), lost : 0 .. Cardinality(Pings),
   speeds : 0 .. Cardinality(URLs)]

Unmeasured ==
  [t \in Targets |-> [at |-> "idle", launched |-> 0, ok |-> 0, lost |-> 0]]

TypeOK ==
  /\ cancelled \in BOOLEAN
  /\ kind \in [Calls -> {"none", "full", "quick", "test"}]
  /\ call \in [Calls -> {"idle", "latency", "check", "pings", "downloads", "store", "done"}]
  /\ servers \in [Calls -> {"idle", "running", "done"}]
  /\ target \in [Calls -> [Targets -> Target]]
  /\ flying \in [Calls -> SUBSET Pings]
  /\ body \in [Calls -> [URLs -> {"idle", "get", "read", "broken", "ended"}]]
  /\ result \in [Calls -> Result]
  /\ cache \subseteq Result /\ Cardinality(cache) <= 1

Init ==
  /\ cancelled = FALSE
  /\ kind = [c \in Calls |-> "none"]
  /\ call = [c \in Calls |-> "idle"]
  /\ servers = [c \in Calls |-> "idle"]
  /\ target = [c \in Calls |-> Unmeasured]
  /\ flying = [c \in Calls |-> {}]
  /\ body = [c \in Calls |-> [u \in URLs |-> "idle"]]
  /\ result = [c \in Calls |-> [ok |-> 0, lost |-> 0, speeds |-> 0]]
  /\ cache = {}

Goes(c, from, to) ==
  /\ call[c] = from
  /\ call' = [call EXCEPT ![c] = to]

-----------------------------------------------------------------------------
(* A call begins                                                           *)

\* BenchmarkTargets starts its goroutines, each of which launches a ping.
FirstPings(c) ==
  target' = [target EXCEPT ![c] =
    [t \in Targets |-> [at |-> "pause", launched |-> 1, ok |-> 0, lost |-> 0]]]

RunAll(c) ==
  /\ "full" \in Kinds[c]
  /\ Goes(c, "idle", "latency")
  /\ kind' = [kind EXCEPT ![c] = "full"]
  /\ servers' = [servers EXCEPT ![c] = "running"]
  /\ FirstPings(c)
  /\ UNCHANGED <<cancelled, testVars, cache>>

QuickBenchmark(c) ==
  /\ "quick" \in Kinds[c]
  /\ Goes(c, "idle", "latency")
  /\ kind' = [kind EXCEPT ![c] = "quick"]
  /\ FirstPings(c)
  /\ UNCHANGED <<cancelled, servers, testVars, cache>>

RunFullTest(c) ==
  /\ "test" \in Kinds[c]
  /\ Goes(c, "idle", "check")
  /\ kind' = [kind EXCEPT ![c] = "test"]
  /\ UNCHANGED <<cancelled, fanVars, testVars, cache>>

-----------------------------------------------------------------------------
(* BenchmarkTarget                                                         *)

\* The interval has passed: the next ping, or after the last one wg.Wait.
IntervalPasses(c, t) ==
  /\ target[c][t].at = "pause"
  /\ target' = IF target[c][t].launched < Samples
                 THEN [target EXCEPT ![c][t].launched = @ + 1]
                 ELSE [target EXCEPT ![c][t].at = "wait"]
  /\ UNCHANGED <<cancelled, kind, call, servers, testVars, cache>>

\* Mutant: the cancellation returns without waiting for the pings.
SeesCancelReturns(c, t) ==
  /\ target[c][t].at = "pause" /\ cancelled
  /\ target' = [target EXCEPT ![c][t].at = "error"]
  /\ UNCHANGED <<cancelled, kind, call, servers, testVars, cache>>

\* <-ctx.Done() in the same select, which may choose either case.
SeesCancel(c, t) ==
  /\ target[c][t].at = "pause" /\ cancelled
  /\ target' = [target EXCEPT ![c][t].at = "abort"]
  /\ UNCHANGED <<cancelled, kind, call, servers, testVars, cache>>

\* A ping ends: its dial succeeds, or fails, times out or is cancelled.
PingEnds(c, t) ==
  /\ target[c][t].ok + target[c][t].lost < target[c][t].launched
  /\ \/ target' = [target EXCEPT ![c][t].ok = @ + 1]
     \/ target' = [target EXCEPT ![c][t].lost = @ + 1]
  /\ UNCHANGED <<cancelled, kind, call, servers, testVars, cache>>

\* wg.Wait returns: statistics, or the context's error.
TargetEnds(c, t) ==
  /\ target[c][t].at \in {"wait", "abort"}
  /\ target[c][t].ok + target[c][t].lost = target[c][t].launched
  /\ target' = [target EXCEPT ![c][t].at =
                  IF @ = "wait" THEN "result" ELSE "error"]
  /\ UNCHANGED <<cancelled, kind, call, servers, testVars, cache>>

TargetStep(c, t) ==
  \/ IntervalPasses(c, t)
  \/ SeesCancel(c, t)
  \/ PingEnds(c, t)
  \/ TargetEnds(c, t)

-----------------------------------------------------------------------------
(* The rest of RunAll and QuickBenchmark                                   *)

\* BenchmarkServers returns: its goroutines always end (DnsOptimizer).
ServersEnd(c) ==
  /\ servers[c] = "running"
  /\ servers' = [servers EXCEPT ![c] = "done"]
  /\ UNCHANGED <<cancelled, kind, call, target, testVars, cache>>

TargetsEnded(c) == \A t \in Targets : target[c][t].at \in {"result", "error"}

\* The targets that BenchmarkTargets reports: those with an error are dropped.
Reported(c) == {t \in Targets : target[c][t].at = "result"}

\* RunAll waits for both parts, which have left their summaries, and computes
\* the score.
FullEnds(c) ==
  /\ kind[c] = "full"
  /\ TargetsEnded(c) /\ servers[c] = "done"
  /\ Goes(c, "latency", "done")
  /\ target' = [target EXCEPT ![c] = Unmeasured]
  /\ UNCHANGED <<cancelled, kind, servers, testVars, cache>>

\* QuickBenchmark takes the averages and goes on to the speed test, whose Tester
\* is new and has no cached result.  measureLatency starts its pings whatever the
\* context.
QuickTests(c) ==
  /\ kind[c] = "quick"
  /\ TargetsEnded(c)
  /\ Goes(c, "latency", "pings")
  /\ target' = [target EXCEPT ![c] = Unmeasured]
  /\ flying' = [flying EXCEPT ![c] = Pings]
  /\ UNCHANGED <<cancelled, kind, servers, body, result, cache>>

-----------------------------------------------------------------------------
(* RunFullTest                                                             *)

\* A valid cached result is copied under the lock.
Hit(c) ==
  /\ Goes(c, "check", "done")
  /\ \E r \in cache : result' = [result EXCEPT ![c] = r]
  /\ UNCHANGED <<cancelled, kind, fanVars, flying, body, cache>>

Misses(c) ==
  /\ cache = {}
  /\ Goes(c, "check", "pings")
  /\ flying' = [flying EXCEPT ![c] = Pings]
  /\ UNCHANGED <<cancelled, kind, fanVars, body, result, cache>>

\* A ping of measureLatency appends its latency, or 0 for a failed dial.
SampleEnds(c, p) ==
  /\ p \in flying[c]
  /\ flying' = [flying EXCEPT ![c] = @ \ {p}]
  /\ \/ result' = [result EXCEPT ![c].ok = @ + 1]
     \/ result' = [result EXCEPT ![c].lost = @ + 1]
  /\ UNCHANGED <<cancelled, kind, call, fanVars, body, cache>>

\* wg.Wait of measureLatency; measureDownload starts a goroutine per URL.
PingsEnd(c) ==
  /\ flying[c] = {}
  /\ Goes(c, "pings", "downloads")
  /\ body' = [body EXCEPT ![c] = [u \in URLs |-> "get"]]
  /\ UNCHANGED <<cancelled, kind, fanVars, flying, result, cache>>

BodyGoes(c, u, from, to) ==
  /\ body[c][u] \in from
  /\ body' = [body EXCEPT ![c][u] = to]
  /\ UNCHANGED <<cancelled, kind, call, fanVars, flying, cache>>

\* client.Do answers, or fails, which leaves no sample.
Answered(c, u) == BodyGoes(c, u, {"get"}, "read") /\ UNCHANGED result
GetFails(c, u) == BodyGoes(c, u, {"get"}, "ended") /\ UNCHANGED result

\* A read fails with an error other than EOF, the client's timeout say: the
\* loop goes on, and so does the error.
ReadFails(c, u) == BodyGoes(c, u, {"read"}, "broken") /\ UNCHANGED result

\* ctx.Done() at the head of the loop: no sample.
DownloadCancelled(c, u) ==
  /\ cancelled
  /\ BodyGoes(c, u, {"read", "broken"}, "ended")
  /\ UNCHANGED result

\* Mutant: the sample of the timer is taken, and again after the loop.
SampledTwice(c) == result' = [result EXCEPT ![c].speeds = @ + 2]

\* samples = append(samples, ...)
Sampled(c) == result' = [result EXCEPT ![c].speeds = @ + 1]

\* Mutant: the timer's case leaves the select and not the loop.
TimeUpLeavesSelect(c, u) ==
  body[c][u] \in {"read", "broken"} /\ UNCHANGED vars

\* The five seconds are over: a sample of what has been read, broken or not.
TimeUp(c, u) == BodyGoes(c, u, {"read", "broken"}, "ended") /\ Sampled(c)

EndOfBody(c, u) == BodyGoes(c, u, {"read"}, "ended") /\ Sampled(c)

DownloadStep(c, u) ==
  \/ Answered(c, u)
  \/ GetFails(c, u)
  \/ ReadFails(c, u)
  \/ DownloadCancelled(c, u)
  \/ TimeUp(c, u)
  \/ EndOfBody(c, u)

DownloadsEnd(c) ==
  /\ \A u \in URLs : body[c][u] = "ended"
  /\ Goes(c, "downloads", "store")
  /\ UNCHANGED <<cancelled, kind, fanVars, testVars, cache>>

\* The result is cached whatever it is, and whatever was stored meanwhile; the
\* Tester of QuickBenchmark is forgotten with its cache.
Store(c) ==
  /\ Goes(c, "store", "done")
  /\ cache' = IF kind[c] = "test" THEN {result[c]} ELSE cache
  /\ UNCHANGED <<cancelled, kind, fanVars, testVars>>

\* cacheTTL has passed.
Expire ==
  /\ cache' = {}
  /\ UNCHANGED <<cancelled, kind, call, fanVars, testVars>>

-----------------------------------------------------------------------------

\* The shutdown of the daemon, whose context all calls use.
Cancel ==
  /\ ~cancelled
  /\ cancelled' = TRUE
  /\ UNCHANGED <<kind, call, fanVars, testVars, cache>>

CallStep(c) ==
  \/ ServersEnd(c)
  \/ FullEnds(c)
  \/ QuickTests(c)
  \/ Hit(c)
  \/ Misses(c)
  \/ PingsEnd(c)
  \/ DownloadsEnd(c)
  \/ Store(c)

Next ==
  \/ \E c \in Calls :
       \/ RunAll(c) \/ QuickBenchmark(c) \/ RunFullTest(c)
       \/ CallStep(c)
       \/ \E t \in Targets : TargetStep(c, t)
       \/ \E p \in Pings : SampleEnds(c, p)
       \/ \E u \in URLs : DownloadStep(c, u)
  \/ Expire
  \/ Cancel

\* Goroutines are scheduled; dials and the HTTP client have timeouts, and the
\* five-second timer of a download is seen after the read under way.
Fairness ==
  \A c \in Calls :
    /\ WF_vars(CallStep(c))
    /\ \A t \in Targets : WF_vars(TargetStep(c, t))
    /\ \A p \in Pings : WF_vars(SampleEnds(c, p))
    /\ \A u \in URLs : WF_vars(DownloadStep(c, u))

Spec == Init /\ [][Next]_vars
FairSpec == Spec /\ Fairness

-----------------------------------------------------------------------------
(* Properties                                                              *)

\* When the latency part of a call is over, every ping launched has been counted
\* once, and what is reported has all its samples.
TargetsComplete(c) ==
  TargetsEnded(c) =>
    /\ \A t \in Targets :
         target[c][t].ok + target[c][t].lost = target[c][t].launched
    /\ \A t \in Reported(c) : target[c][t].launched = Samples
    /\ ~cancelled => Reported(c) = Targets

\* A speed test that is over has a sample for each ping and no goroutine left.
TestComplete(c) ==
  call[c] \in {"store", "done"} /\ kind[c] # "full" =>
    /\ result[c].ok + result[c].lost = Cardinality(Pings)
    /\ flying[c] = {}
    /\ \A u \in URLs : body[c][u] \in {"idle", "ended"}

\* Nothing of a fan-out outlives it, and what it hands on is one whole
\* measurement: after a cancellation between two pings as well, when targets are
\* dropped but never reported in part; and also when a speed test comes from the
\* cache, which other calls fill meanwhile (latency.go:78, speedtest.go:71).
ResultsComplete ==
  /\ \A c \in Calls : TargetsComplete(c) /\ TestComplete(c)
  /\ \A r \in cache : r.ok + r.lost = Cardinality(Pings)

\* Every call returns: unreachable targets, stalled or broken downloads and a
\* cancellation at any moment included.
CallsReturn == \A c \in Calls : call[c] # "idle" ~> call[c] = "done"
=============================================================================
