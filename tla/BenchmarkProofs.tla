--------------------------- MODULE BenchmarkProofs ---------------------------
(***************************************************************************)
(* Proofs about the fan-outs of the benchmarks, for any calls, targets,    *)
(* pings and URLs.                                                         *)
(***************************************************************************)
EXTENDS Benchmark, Scores, FiniteSetTheorems, TLAPS

\* A target, as far as its goroutine has come.
TargetState(x) ==
  /\ x.ok + x.lost <= x.launched
  /\ x.at \in {"wait", "result"} => x.launched = Samples
  /\ x.at \in {"result", "error"} => x.ok + x.lost = x.launched
  /\ x.at \in {"abort", "error"} => cancelled

\* The goroutines of measureDownload that have ended.
Ended(c) == {u \in URLs : body[c][u] = "ended"}

NoDownload(c) == \A u \in URLs : body[c][u] = "idle"
Whole(r) == r.ok + r.lost = Cardinality(Pings)

\* The speed test of a call, as far as the call has come: each ping is under way
\* or counted, and each download has left at most one sample.
TestState(c) ==
  /\ call[c] \in {"idle", "latency", "check"} =>
       /\ flying[c] = {} /\ NoDownload(c)
       /\ result[c] = [ok |-> 0, lost |-> 0, speeds |-> 0]
  /\ call[c] = "pings" =>
       /\ NoDownload(c)
       /\ result[c].speeds = 0
       /\ result[c].ok + result[c].lost + Cardinality(flying[c]) = Cardinality(Pings)
  /\ call[c] = "downloads" =>
       /\ flying[c] = {} /\ Whole(result[c])
       /\ result[c].speeds <= Cardinality(Ended(c))
  /\ call[c] \in {"store", "done"} /\ kind[c] # "full" =>
       /\ flying[c] = {} /\ Whole(result[c])
       /\ \A u \in URLs : body[c][u] \in {"idle", "ended"}
  /\ kind[c] = "full" =>
       call[c] \in {"latency", "done"} /\ flying[c] = {} /\ NoDownload(c)

TargetInv == \A c \in Calls, t \in Targets : TargetState(target[c][t])
TestInv == \A c \in Calls : TestState(c)
CacheWhole == \A r \in cache : Whole(r)

IInv == TypeOK /\ TargetInv /\ TestInv /\ CacheWhole

-----------------------------------------------------------------------------
(* Counting                                                                *)

LEMMA Sizes ==
  /\ Cardinality(Pings) \in Nat /\ Cardinality(URLs) \in Nat
  /\ Samples \in Nat /\ Samples > 0
BY CallAssumption, FS_CardinalityType

LEMMA FlyingFinite ==
  ASSUME TypeOK, NEW c \in Calls
  PROVE  IsFiniteSet(flying[c]) /\ Cardinality(flying[c]) \in Nat
<1>1. flying[c] \subseteq Pings
  BY DEF TypeOK
<1> QED
  BY <1>1, CallAssumption, FS_Subset, FS_CardinalityType

LEMMA EndedFinite ==
  ASSUME NEW c \in Calls
  PROVE  /\ IsFiniteSet(Ended(c)) /\ Cardinality(Ended(c)) \in Nat
         /\ IsFiniteSet(Ended(c)') /\ Cardinality(Ended(c)') <= Cardinality(URLs)
<1>1. Ended(c) \subseteq URLs /\ Ended(c)' \subseteq URLs
  BY DEF Ended
<1> QED
  BY <1>1, CallAssumption, FS_Subset, FS_CardinalityType

\* Only calls in their downloads have goroutines of measureDownload, and only
\* those in their pings have pings under way.
LEMMA WhereBodiesRun ==
  ASSUME IInv, NEW c \in Calls, NEW u \in URLs, body[c][u] \in {"get", "read", "broken"}
  PROVE  call[c] = "downloads"
BY SMTT(30) DEF IInv, TypeOK, TestInv, TestState, NoDownload

LEMMA WherePingsFly ==
  ASSUME IInv, NEW c \in Calls, flying[c] # {}
  PROVE  call[c] = "pings"
BY DEF IInv, TypeOK, TestInv, TestState

-----------------------------------------------------------------------------
(* The latency part                                                        *)

\* A step of the goroutine of one target, or of one of its pings.
LEMMA TargetStepInv ==
  ASSUME IInv, NEW c \in Calls, NEW t \in Targets, TargetStep(c, t)
  PROVE  IInv'
<1> DEFINE x == target[c][t]
<1>1. x \in Target /\ TargetState(x)
  BY DEF IInv, TypeOK, TargetInv
<1>2. UNCHANGED <<cancelled, kind, call, servers, testVars, cache>>
  BY DEF TargetStep, IntervalPasses, SeesCancel, PingEnds, TargetEnds
<1>3. ASSUME NEW y \in Target, TargetState(y), target' = [target EXCEPT ![c][t] = y]
      PROVE  IInv'
  <2>1. \A d \in Calls, s \in Targets :
          target'[d][s] = IF d = c /\ s = t THEN y ELSE target[d][s]
    BY <1>3 DEF IInv, TypeOK
  <2>2. target' \in [Calls -> [Targets -> Target]]
    BY <1>3 DEF IInv, TypeOK
  <2>3. TargetInv'
    BY <1>2, <1>3, <2>1 DEF IInv, TargetInv, TargetState
  <2>4. TypeOK'
    BY <1>2, <2>2 DEF IInv, TypeOK, testVars, Result
  <2>5. TestInv' /\ CacheWhole'
    BY <1>2 DEF IInv, TestInv, TestState, NoDownload, Whole, Ended, CacheWhole, testVars
  <2> QED
    BY <2>3, <2>4, <2>5 DEF IInv
<1>4. CASE IntervalPasses(c, t)
  <2>1. x.at = "pause"
    BY <1>4 DEF IntervalPasses
  <2>2. CASE x.launched < Samples
    <3> DEFINE y == [x EXCEPT !.launched = @ + 1]
    <3>1. target' = [target EXCEPT ![c][t] = y]
      BY <1>4, <2>2 DEF IntervalPasses
    <3>2. y \in Target /\ TargetState(y)
      BY <1>1, <2>1, <2>2, Sizes DEF Target, TargetState
    <3> QED
      BY <1>3, <3>1, <3>2
  <2>3. CASE ~(x.launched < Samples)
    <3> DEFINE y == [x EXCEPT !.at = "wait"]
    <3>1. target' = [target EXCEPT ![c][t] = y]
      BY <1>4, <2>3 DEF IntervalPasses
    <3>2. x.launched = Samples
      BY <1>1, <2>3, Sizes DEF Target
    <3>3. y \in Target /\ TargetState(y)
      BY <1>1, <2>1, <3>2, Sizes DEF Target, TargetState
    <3> QED
      BY <1>3, <3>1, <3>3
  <2> QED
    BY <2>2, <2>3
<1>5. CASE SeesCancel(c, t)
  <2> DEFINE y == [x EXCEPT !.at = "abort"]
  <2>1. target' = [target EXCEPT ![c][t] = y] /\ cancelled
    BY <1>5 DEF SeesCancel
  <2>2. y \in Target /\ TargetState(y)
    BY <1>1, <2>1, Sizes DEF Target, TargetState
  <2> QED
    BY <1>3, <2>1, <2>2
<1>6. CASE PingEnds(c, t)
  <2>1. ASSUME NEW y \in {[x EXCEPT !.ok = @ + 1], [x EXCEPT !.lost = @ + 1]},
               x.ok + x.lost < x.launched
        PROVE  y \in Target /\ TargetState(y)
    BY <1>1, <2>1, Sizes DEF Target, TargetState
  <2>2. x.ok + x.lost < x.launched
    BY <1>6 DEF PingEnds
  <2>3. \/ target' = [target EXCEPT ![c][t] = [x EXCEPT !.ok = @ + 1]]
        \/ target' = [target EXCEPT ![c][t] = [x EXCEPT !.lost = @ + 1]]
    BY <1>6 DEF PingEnds
  <2> QED
    BY <1>3, <2>1, <2>2, <2>3
<1>7. CASE TargetEnds(c, t)
  <2> DEFINE y == [x EXCEPT !.at = IF @ = "wait" THEN "result" ELSE "error"]
  <2>1. /\ target' = [target EXCEPT ![c][t] = y]
        /\ x.at \in {"wait", "abort"} /\ x.ok + x.lost = x.launched
    BY <1>7 DEF TargetEnds
  <2>2. y \in Target /\ TargetState(y)
    BY <1>1, <2>1, Sizes DEF Target, TargetState
  <2> QED
    BY <1>3, <2>1, <2>2
<1> QED
  BY <1>4, <1>5, <1>6, <1>7 DEF TargetStep

\* Targets that are all reset, or all sent their first ping.
LEMMA FreshTargets ==
  ASSUME TypeOK, TargetInv, cancelled' = cancelled, NEW c \in Calls,
         target' = target \/ FirstPings(c) \/ target' = [target EXCEPT ![c] = Unmeasured]
  PROVE  target' \in [Calls -> [Targets -> Target]] /\ TargetInv'
<1>1. CASE target' = target
  BY <1>1 DEF TypeOK, TargetInv, TargetState
<1>2. ASSUME NEW n \in {0, 1}, NEW at \in {"idle", "pause"},
             target' = [target EXCEPT ![c] =
               [t \in Targets |-> [at |-> at, launched |-> n, ok |-> 0, lost |-> 0]]]
      PROVE  target' \in [Calls -> [Targets -> Target]] /\ TargetInv'
  <2> DEFINE y == [at |-> at, launched |-> n, ok |-> 0, lost |-> 0]
  <2>1. y \in Target /\ TargetState(y)'
    BY <1>2, Sizes DEF Target, TargetState
  <2>2. \A d \in Calls, s \in Targets :
          target'[d][s] = IF d = c THEN y ELSE target[d][s]
    BY <1>2 DEF TypeOK
  <2>3. target' \in [Calls -> [Targets -> Target]]
    BY <1>2, <2>1 DEF TypeOK
  <2>4. TargetInv'
    BY <2>1, <2>2 DEF TargetInv, TargetState
  <2> QED
    BY <2>3, <2>4
<1> QED
  BY <1>1, <1>2 DEF FirstPings, Unmeasured

-----------------------------------------------------------------------------
(* The calls                                                               *)

\* What is not touched stays as it is.
LEMMA OthersStay ==
  ASSUME NEW d \in Calls, TestState(d),
         call'[d] = call[d], kind'[d] = kind[d], flying'[d] = flying[d],
         body'[d] = body[d], result'[d] = result[d]
  PROVE  TestState(d)'
BY DEF TestState, NoDownload, Whole, Ended

\* A call begins.
LEMMA BeginInv ==
  ASSUME IInv, NEW c \in Calls, RunAll(c) \/ QuickBenchmark(c) \/ RunFullTest(c)
  PROVE  IInv'
<1> USE DEF IInv
<1>1. /\ UNCHANGED <<cancelled, testVars, cache>> /\ call[c] = "idle"
      /\ target' = target \/ FirstPings(c)
      /\ \E k \in {"full", "quick", "test"} :
           /\ kind' = [kind EXCEPT ![c] = k]
           /\ call' = [call EXCEPT ![c] = IF k = "test" THEN "check" ELSE "latency"]
      /\ servers' \in {servers, [servers EXCEPT ![c] = "running"]}
  BY DEF RunAll, QuickBenchmark, RunFullTest, Goes, fanVars
<1>2. target' \in [Calls -> [Targets -> Target]] /\ TargetInv'
  BY <1>1, FreshTargets
<1>3. TypeOK'
  <2>1. /\ call' \in [Calls -> {"idle", "latency", "check", "pings", "downloads", "store", "done"}]
        /\ kind' \in [Calls -> {"none", "full", "quick", "test"}]
        /\ servers' \in [Calls -> {"idle", "running", "done"}]
    <3>1. PICK k \in {"full", "quick", "test"}, at \in {"check", "latency"} :
            kind' = [kind EXCEPT ![c] = k] /\ call' = [call EXCEPT ![c] = at]
      BY <1>1
    <3> QED
      BY <1>1, <3>1 DEF TypeOK
  <2>2. flying' = flying /\ body' = body /\ result' = result
    BY <1>1 DEF testVars
  <2>3. result' \in [Calls -> Result]
    BY <2>2 DEF TypeOK
  <2>4. cache' \subseteq Result /\ Cardinality(cache') <= 1
    BY <1>1 DEF TypeOK
  <2> QED
    BY <1>1, <1>2, <2>1, <2>2, <2>3, <2>4 DEF TypeOK, Result
<1>4. TestInv'
  <2> SUFFICES ASSUME NEW d \in Calls PROVE TestState(d)'
    BY DEF TestInv
  <2>1. CASE d # c
    BY <1>1, <2>1, OthersStay DEF TestInv, TypeOK, testVars
  <2>2. CASE d = c
    BY <1>1, <2>2 DEF TestInv, TypeOK, TestState, NoDownload, testVars
  <2> QED
    BY <2>1, <2>2
<1>5. CacheWhole'
  BY <1>1 DEF CacheWhole, Whole
<1> QED
  BY <1>2, <1>3, <1>4, <1>5

\* A call goes on: its pings and downloads are those of one measurement.
LEMMA CallTest ==
  ASSUME IInv, NEW c \in Calls, CallStep(c)
  PROVE  TestState(c)'
<1> USE DEF IInv, TypeOK, Goes
<1>1. TestState(c)
  BY DEF TestInv
<1>2. CASE ServersEnd(c)
  BY <1>1, <1>2, OthersStay DEF ServersEnd, testVars
<1>3. CASE FullEnds(c)
  BY <1>1, <1>3 DEF FullEnds, TestState, NoDownload, testVars
<1>4. CASE QuickTests(c)
  BY <1>1, <1>4, Sizes DEF QuickTests, TestState, NoDownload
<1>5. CASE Hit(c)
  <2>1. PICK r \in cache : result' = [result EXCEPT ![c] = r]
    BY <1>5 DEF Hit
  <2>2. call[c] = "check" /\ call'[c] = "done" /\ result'[c] = r /\ Whole(r)
        /\ flying' = flying /\ body' = body /\ kind' = kind
    BY <1>5, <2>1 DEF Hit, CacheWhole
  <2> QED
    BY <1>1, <2>2 DEF TestState, NoDownload, Whole
<1>6. CASE Misses(c)
  BY <1>1, <1>6, Sizes DEF Misses, TestState, NoDownload, fanVars
<1>7. CASE PingsEnd(c)
  <2>1. flying[c] = {} /\ Cardinality(flying[c]) = 0
    BY <1>7, FS_EmptySet DEF PingsEnd
  <2>2. call[c] = "pings" /\ call'[c] = "downloads" /\ flying' = flying
        /\ result' = result /\ kind' = kind
    BY <1>7 DEF PingsEnd, fanVars
  <2>3. Whole(result[c]) /\ result[c].speeds = 0 /\ kind[c] # "full"
    BY <1>1, <2>1, <2>2 DEF TestState, Whole, Result
  <2>4. Cardinality(Ended(c)') \in Nat
    BY EndedFinite, FS_CardinalityType
  <2> QED
    BY <2>1, <2>2, <2>3, <2>4 DEF TestState, Whole
<1>8. CASE DownloadsEnd(c)
  BY <1>1, <1>8 DEF DownloadsEnd, TestState, Whole, fanVars, testVars
<1>9. CASE Store(c)
  BY <1>1, <1>9 DEF Store, TestState, Whole, fanVars, testVars
<1> QED
  BY <1>2, <1>3, <1>4, <1>5, <1>6, <1>7, <1>8, <1>9 DEF CallStep

LEMMA CallTypes ==
  ASSUME IInv, NEW c \in Calls, CallStep(c)
  PROVE  TypeOK' /\ TargetInv'
<1> USE DEF IInv
<1>1. /\ cancelled' = cancelled /\ kind' = kind
      /\ target' = target \/ target' = [target EXCEPT ![c] = Unmeasured]
      /\ servers' \in {servers, [servers EXCEPT ![c] = "done"]}
  BY DEF CallStep, ServersEnd, FullEnds, QuickTests, Hit, Misses, PingsEnd,
         DownloadsEnd, Store, fanVars
<1>2. target' \in [Calls -> [Targets -> Target]] /\ TargetInv'
  BY <1>1, FreshTargets
<1>3. call' \in [Calls -> {"idle", "latency", "check", "pings", "downloads", "store", "done"}]
  BY DEF TypeOK, Goes, CallStep, ServersEnd, FullEnds, QuickTests, Hit, Misses, PingsEnd,
         DownloadsEnd, Store
<1>4. flying' \in [Calls -> SUBSET Pings]
  <2>1. flying' = flying \/ flying' = [flying EXCEPT ![c] = Pings]
    BY DEF CallStep, ServersEnd, FullEnds, QuickTests, Hit, Misses, PingsEnd,
           DownloadsEnd, Store, testVars
  <2>2. Pings \in SUBSET Pings
    OBVIOUS
  <2> QED
    BY <2>1, <2>2 DEF TypeOK
<1>5. body' \in [Calls -> [URLs -> {"idle", "get", "read", "broken", "ended"}]]
  <2>1. body' = body \/ body' = [body EXCEPT ![c] = [u \in URLs |-> "get"]]
    BY DEF CallStep, ServersEnd, FullEnds, QuickTests, Hit, Misses, PingsEnd,
           DownloadsEnd, Store, testVars
  <2>2. [u \in URLs |-> "get"] \in [URLs -> {"idle", "get", "read", "broken", "ended"}]
    OBVIOUS
  <2> QED
    BY <2>1, <2>2 DEF TypeOK
<1>6. result' \in [Calls -> Result]
  <2>1. CASE Hit(c)
    BY <2>1 DEF TypeOK, Hit
  <2>2. CASE ~Hit(c)
    BY <2>2 DEF TypeOK, CallStep, ServersEnd, FullEnds, QuickTests, Misses, PingsEnd,
                DownloadsEnd, Store, testVars
  <2> QED
    BY <2>1, <2>2
<1>7. cache' \subseteq Result /\ Cardinality(cache') <= 1
  <2>1. cache' = cache \/ cache' = {result[c]}
    BY DEF CallStep, ServersEnd, FullEnds, QuickTests, Hit, Misses, PingsEnd,
           DownloadsEnd, Store
  <2>2. result[c] \in Result /\ Cardinality({result[c]}) = 1
    BY FS_Singleton DEF TypeOK
  <2>3. CASE cache' = cache
    BY <2>3 DEF TypeOK
  <2>4. CASE cache' = {result[c]}
    BY <2>2, <2>4
  <2> QED
    BY <2>1, <2>3, <2>4
<1> QED
  BY <1>1, <1>2, <1>3, <1>4, <1>5, <1>6, <1>7 DEF TypeOK, Result

LEMMA CallInv ==
  ASSUME IInv, NEW c \in Calls, CallStep(c)
  PROVE  IInv'
<1> USE DEF IInv
<1>1. \A d \in Calls : d # c =>
        /\ call'[d] = call[d] /\ kind'[d] = kind[d] /\ flying'[d] = flying[d]
        /\ body'[d] = body[d] /\ result'[d] = result[d]
  BY DEF TypeOK, Goes, CallStep, ServersEnd, FullEnds, QuickTests, Hit, Misses, PingsEnd,
         DownloadsEnd, Store, fanVars, testVars
<1>2. TestInv'
  BY <1>1, CallTest, OthersStay DEF TestInv
<1>3. CacheWhole'
  <2>1. CASE Store(c)
    <3>1. cache' = cache \/ (kind[c] = "test" /\ cache' = {result[c]})
      BY <2>1 DEF Store
    <3>2. call[c] = "store"
      BY <2>1 DEF Store, Goes
    <3>3. kind[c] = "test" => Whole(result[c])
      BY <3>2 DEF TestInv, TestState
    <3> QED
      BY <3>1, <3>3 DEF CacheWhole, Whole
  <2>2. CASE ~Store(c)
    <3>1. cache' = cache
      BY <2>2 DEF CallStep, ServersEnd, FullEnds, QuickTests, Hit, Misses, PingsEnd,
                  DownloadsEnd
    <3> QED
      BY <3>1 DEF CacheWhole, Whole
  <2> QED
    BY <2>1, <2>2
<1> QED
  BY <1>2, <1>3, CallTypes

-----------------------------------------------------------------------------
(* The goroutines of a speed test                                          *)

\* A ping that ends moves from those under way to those counted.
LEMMA SampleInv ==
  ASSUME IInv, NEW c \in Calls, NEW p \in Pings, SampleEnds(c, p)
  PROVE  IInv'
<1> USE DEF IInv
<1>1. /\ UNCHANGED <<cancelled, kind, call, fanVars, body, cache>>
      /\ p \in flying[c] /\ flying' = [flying EXCEPT ![c] = @ \ {p}]
  BY DEF SampleEnds
<1>2. PICK r : /\ r \in {[result[c] EXCEPT !.ok = @ + 1], [result[c] EXCEPT !.lost = @ + 1]}
               /\ result' = [result EXCEPT ![c] = r]
  BY DEF SampleEnds
<1>3. call[c] = "pings"
  BY <1>1, WherePingsFly
<1>4. /\ Cardinality(flying[c] \ {p}) = Cardinality(flying[c]) - 1
      /\ Cardinality(flying[c] \ {p}) \in Nat
  BY <1>1, FlyingFinite, FS_RemoveElement, FS_CardinalityType
<1>5. /\ result[c] \in Result /\ result[c].speeds = 0 /\ NoDownload(c)
      /\ result[c].ok + result[c].lost + Cardinality(flying[c]) = Cardinality(Pings)
      /\ kind[c] # "full"
  BY <1>3 DEF TypeOK, TestInv, TestState
<1>6. /\ r \in Result /\ r.speeds = 0
      /\ r.ok + r.lost + Cardinality(flying[c] \ {p}) = Cardinality(Pings)
  <2> DEFINE left == Cardinality(flying[c] \ {p})
             Counted(x) == x \in Result /\ x.speeds = 0
                             /\ x.ok + x.lost + left = Cardinality(Pings)
  <2>1. /\ left \in Nat /\ Cardinality(Pings) \in Nat
        /\ result[c].ok + result[c].lost + left + 1 = Cardinality(Pings)
    BY <1>4, <1>5, FlyingFinite, Sizes DEF Result
  <2> HIDE DEF left
  <2>2. Counted([result[c] EXCEPT !.ok = @ + 1])
    BY <1>5, <2>1 DEF Result
  <2>3. Counted([result[c] EXCEPT !.lost = @ + 1])
    BY <1>5, <2>1 DEF Result
  <2>4. Counted(r)
    BY <1>2, <2>2, <2>3
  <2> QED
    BY <2>4 DEF left
<1>7. TypeOK'
  BY <1>1, <1>2, <1>6 DEF TypeOK, fanVars, Result
<1>8. TestInv'
  <2> SUFFICES ASSUME NEW d \in Calls PROVE TestState(d)'
    BY DEF TestInv
  <2>1. CASE d # c
    BY <1>1, <1>2, <2>1, OthersStay DEF TestInv, TypeOK
  <2>2. CASE d = c
    <3>1. flying'[c] = flying[c] \ {p} /\ result'[c] = r
      BY <1>1, <1>2 DEF TypeOK
    <3> QED
      BY <1>1, <1>3, <1>5, <1>6, <2>2, <3>1 DEF TestState, NoDownload
  <2> QED
    BY <2>1, <2>2
<1>9. TargetInv' /\ CacheWhole'
  BY <1>1 DEF TargetInv, TargetState, CacheWhole, Whole, fanVars
<1> QED
  BY <1>7, <1>8, <1>9

\* A download that ends leaves at most one sample.
LEMMA DownloadInv ==
  ASSUME IInv, NEW c \in Calls, NEW u \in URLs, DownloadStep(c, u)
  PROVE  IInv'
<1> USE DEF IInv
<1>1. PICK to \in {"read", "broken", "ended"} :
        /\ body[c][u] \in {"get", "read", "broken"}
        /\ body' = [body EXCEPT ![c][u] = to]
        /\ result' = result \/ (to = "ended" /\ Sampled(c))
        /\ UNCHANGED <<cancelled, kind, call, fanVars, flying, cache>>
  BY DEF DownloadStep, Answered, GetFails, ReadFails, DownloadCancelled, TimeUp,
         EndOfBody, BodyGoes
<1>2. call[c] = "downloads"
  BY <1>1, WhereBodiesRun
<1>3. /\ result[c] \in Result /\ flying[c] = {} /\ Whole(result[c])
      /\ result[c].speeds <= Cardinality(Ended(c)) /\ kind[c] # "full"
  BY <1>2 DEF TypeOK, TestInv, TestState
<1>4. Ended(c)' = IF to = "ended" THEN Ended(c) \cup {u} ELSE Ended(c)
  BY <1>1 DEF Ended, TypeOK
<1>5. u \notin Ended(c)
  BY <1>1 DEF Ended
<1>6. Cardinality(Ended(c)') = IF to = "ended" THEN Cardinality(Ended(c)) + 1
                                               ELSE Cardinality(Ended(c))
  BY <1>4, <1>5, EndedFinite, FS_AddElement
<1>7. PICK r \in {result[c], [result[c] EXCEPT !.speeds = @ + 1]} :
        /\ result' = [result EXCEPT ![c] = r]
        /\ r = result[c] \/ to = "ended"
  BY <1>1 DEF Sampled, TypeOK
<1>8. /\ r.ok = result[c].ok /\ r.lost = result[c].lost
      /\ r.speeds \in Nat /\ r.speeds <= Cardinality(Ended(c)')
  BY <1>3, <1>6, <1>7, EndedFinite DEF Result
<1>9. r \in Result
  BY <1>3, <1>7, <1>8, EndedFinite, Sizes, FS_CardinalityType DEF Result
<1>10. TypeOK'
  BY <1>1, <1>7, <1>9 DEF TypeOK, fanVars, Result
<1>11. TestInv'
  <2> SUFFICES ASSUME NEW d \in Calls PROVE TestState(d)'
    BY DEF TestInv
  <2>1. CASE d # c
    BY <1>1, <1>7, <2>1, OthersStay DEF TestInv, TypeOK
  <2>2. CASE d = c
    <3>1. result'[c] = r
      BY <1>7 DEF TypeOK
    <3> QED
      BY <1>1, <1>2, <1>3, <1>8, <2>2, <3>1 DEF TestState, Whole
  <2> QED
    BY <2>1, <2>2
<1>12. TargetInv' /\ CacheWhole'
  BY <1>1 DEF TargetInv, TargetState, CacheWhole, Whole, fanVars
<1> QED
  BY <1>10, <1>11, <1>12

-----------------------------------------------------------------------------
(* The theorems                                                            *)

LEMMA InitInv == Init => IInv
<1> SUFFICES ASSUME Init PROVE IInv
  OBVIOUS
<1>1. TypeOK
  <2>1. cache \subseteq Result /\ Cardinality(cache) <= 1
    BY FS_EmptySet DEF Init
  <2>2. Unmeasured \in [Targets -> Target]
    BY Sizes DEF Unmeasured, Target
  <2>3. result \in [Calls -> Result]
    <3>1. [ok |-> 0, lost |-> 0, speeds |-> 0] \in Result
      BY Sizes DEF Result
    <3> QED
      BY <3>1 DEF Init
  <2>4. target \in [Calls -> [Targets -> Target]]
    BY <2>2 DEF Init
  <2>5. flying \in [Calls -> SUBSET Pings]
    BY DEF Init
  <2>6. body \in [Calls -> [URLs -> {"idle", "get", "read", "broken", "ended"}]]
    BY DEF Init
  <2>7. /\ cancelled \in BOOLEAN
        /\ kind \in [Calls -> {"none", "full", "quick", "test"}]
        /\ call \in [Calls -> {"idle", "latency", "check", "pings", "downloads", "store", "done"}]
        /\ servers \in [Calls -> {"idle", "running", "done"}]
    BY DEF Init
  <2> QED
    BY <2>1, <2>3, <2>4, <2>5, <2>6, <2>7 DEF TypeOK
<1>2. TargetInv
  BY Sizes DEF Init, TargetInv, TargetState, Unmeasured
<1>3. TestInv /\ CacheWhole
  BY DEF Init, TestInv, TestState, NoDownload, CacheWhole
<1> QED
  BY <1>1, <1>2, <1>3 DEF IInv

LEMMA StepInv == IInv /\ [Next]_vars => IInv'
<1> SUFFICES ASSUME IInv, [Next]_vars PROVE IInv'
  OBVIOUS
<1>1. ASSUME UNCHANGED <<kind, call, fanVars, testVars>>, cancelled => cancelled',
             cancelled' \in BOOLEAN, cache' \in {cache, {}}
      PROVE  IInv'
  <2>1. TypeOK'
    <3>1. cache' \subseteq Result /\ Cardinality(cache') <= 1
      <4>1. Cardinality({}) = 0
        BY FS_EmptySet
      <4>2. CASE cache' = cache
        BY <4>2 DEF IInv, TypeOK
      <4>3. CASE cache' = {}
        BY <4>1, <4>3
      <4> QED
        BY <1>1, <4>2, <4>3
    <3> QED
      BY <1>1, <3>1 DEF IInv, TypeOK, fanVars, testVars, Result
  <2>2. TargetInv'
    BY <1>1 DEF IInv, TargetInv, TargetState, fanVars
  <2>3. TestInv' /\ CacheWhole'
    BY <1>1 DEF IInv, TestInv, TestState, NoDownload, Ended, CacheWhole, Whole, testVars
  <2> QED
    BY <2>1, <2>2, <2>3 DEF IInv
<1>2. CASE UNCHANGED vars
  BY <1>1, <1>2 DEF vars, IInv, TypeOK
<1>3. CASE Expire
  BY <1>1, <1>3 DEF Expire, IInv, TypeOK
<1>4. CASE Cancel
  BY <1>1, <1>4 DEF Cancel
<1> QED
  BY <1>2, <1>3, <1>4, BeginInv, CallInv, TargetStepInv, SampleInv, DownloadInv DEF Next

THEOREM Invariance == Spec => []IInv
BY InitInv, StepInv, PTL DEF Spec

\* The type invariant; with it, no target counts more pings than its samples and no
\* speed test more than it has pings and URLs, at any step.
THEOREM TypeCorrect == Spec => []TypeOK
BY Invariance, PTL DEF IInv

\* Nothing of a fan-out outlives it, and what it reports, or takes from the cache,
\* is one whole measurement (latency.go:78, speedtest.go:71).
THEOREM ResultsAreComplete == Spec => []ResultsComplete
<1>1. ASSUME IInv PROVE ResultsComplete
  <2>1. ASSUME NEW c \in Calls PROVE TargetsComplete(c)
    BY <1>1 DEF IInv, TypeOK, TargetInv, TargetState, TargetsComplete, TargetsEnded,
                Reported, Target
  <2>2. ASSUME NEW c \in Calls PROVE TestComplete(c)
    BY <1>1 DEF IInv, TestInv, TestState, TestComplete, Whole
  <2> QED
    BY <1>1, <2>1, <2>2 DEF IInv, CacheWhole, Whole, ResultsComplete
<1> QED
  BY <1>1, Invariance, PTL

-----------------------------------------------------------------------------
(* The scores of the benchmark                                             *)

\* Rounding keeps order.
LEMMA RoundedMonotone ==
  ASSUME NEW x \in Nat, NEW y \in Nat, x <= y, NEW unit \in {5, 10}
  PROVE  Rounded(x, unit) \in Nat /\ Rounded(x, unit) <= Rounded(y, unit)
<1>1. CASE unit = 5
  BY <1>1, SMT DEF Rounded
<1>2. CASE unit = 10
  BY <1>2, SMT DEF Rounded
<1> QED
  BY <1>1, <1>2, SMT

\* The quality score is one of 0 to 100 points (benchmark.go:166-179).
THEOREM QualityInRange ==
  ASSUME NEW latency \in Nat, NEW jitter \in Nat, NEW loss \in Nat
  PROVE  /\ QualityScore(latency, jitter, loss) \in Nat
         /\ QualityScore(latency, jitter, loss) <= 10000
<1>1. PosPart(latency - 2000) \in Nat /\ PosPart(jitter - 1000) \in Nat
  BY SMT DEF PosPart
<1>2. (IF loss > 100 THEN 10 * loss ELSE 0) \in Nat
  BY SMT
<1> DEFINE x == 20000 - PosPart(latency - 2000) - 4 * PosPart(jitter - 1000)
                  - (IF loss > 100 THEN 10 * loss ELSE 0)
<1>3. x \in Int /\ x <= 20000
  <2>1. \A i, j, k \in Nat : 20000 - i - 4 * j - k \in Int /\ 20000 - i - 4 * j - k <= 20000
    BY SMT
  <2> QED
    BY <1>1, <1>2, <2>1, SMT
<1> HIDE DEF x
<1>4. PosPart(x) \in Nat /\ PosPart(x) <= 20000
  BY <1>3, SMT DEF PosPart
<1>5. Rounded(PosPart(x), 2) \in Nat /\ Rounded(PosPart(x), 2) <= 10000
  BY <1>4, SMT DEF Rounded
<1> QED
  BY <1>5, SMT DEF QualityScore, x

\* The optimization score, clamped to 0 to 100 points, never leaves 35 to 95:
\* neither clamp ever acts (benchmark.go:194-216).
THEOREM OptimizationInRange ==
  ASSUME NEW improvement \in Int, NEW quality \in Nat, quality <= 10000, NEW loss \in Nat
  PROVE  /\ computeOptimizationScore(improvement, quality, loss) \in Int
         /\ 3500 <= computeOptimizationScore(improvement, quality, loss)
         /\ computeOptimizationScore(improvement, quality, loss) <= 9500
<1> DEFINE a == IF improvement > 0 THEN AtMost(20000, 20 * improvement) ELSE 0
           b == IF quality > 0 THEN 3 * (quality - 5000) ELSE 0
           c == IF loss = 0 THEN 10000 ELSE IF loss < 100 THEN 5000 ELSE 0
<1>1. a \in Nat /\ a <= 20000
  BY SMT DEF AtMost
<1>2. b \in Int /\ -15000 <= b /\ b <= 15000 /\ c \in Nat /\ c <= 10000
  BY SMT
<1> HIDE DEF a, b, c
<1> DEFINE x == AtMost(100000, PosPart(50000 + a + b + c))
<1>3. x \in Int /\ 35000 <= x /\ x <= 95000
  BY <1>1, <1>2, SMT DEF AtMost, PosPart
<1> HIDE DEF x
<1>4. Rounded(x, 10) \in Int /\ 3500 <= Rounded(x, 10) /\ Rounded(x, 10) <= 9500
  BY <1>3, SMT DEF Rounded
<1> QED
  BY <1>4, SMT DEF computeOptimizationScore, a, b, c, x

\* An outage has lost everything and has no quality, which is not punished: it
\* scores no less than a network that still answers, but loses packets at a
\* quality below 50 (benchmark.go:203-213).
THEOREM OutageBeatsLossyNetwork ==
  ASSUME NEW improvement \in Int, NEW quality \in 1 .. 4999, NEW loss \in Nat, loss >= 100
  PROVE  computeOptimizationScore(improvement, quality, loss)
           <= computeOptimizationScore(improvement, 0, 10000)
<1> DEFINE a == IF improvement > 0 THEN AtMost(20000, 20 * improvement) ELSE 0
           b(q) == IF q > 0 THEN 3 * (q - 5000) ELSE 0
           c(l) == IF l = 0 THEN 10000 ELSE IF l < 100 THEN 5000 ELSE 0
           Sum(p, q) == AtMost(100000, PosPart(50000 + a + p + q))
<1>1. a \in Nat
  BY SMT DEF AtMost
<1>2. b(quality) \in Int /\ b(quality) <= 0 /\ b(0) = 0 /\ c(loss) = 0 /\ c(10000) = 0
  BY SMT
<1> HIDE DEF a, b, c
<1>3. /\ Sum(b(quality), 0) \in Nat /\ Sum(0, 0) \in Nat
      /\ Sum(b(quality), 0) <= Sum(0, 0)
  BY <1>1, <1>2, SMT DEF AtMost, PosPart
<1> HIDE DEF Sum
<1>4. Rounded(Sum(b(quality), 0), 10) <= Rounded(Sum(0, 0), 10)
  BY <1>3, RoundedMonotone, SMT
<1>5. Rounded(Sum(b(quality), c(loss)), 10) <= Rounded(Sum(b(0), c(10000)), 10)
  BY <1>2, <1>4, SMT
<1> QED
  BY <1>5, SMT DEF computeOptimizationScore, Sum, a, b, c

LEMMA PointsAreIntegers ==
  ASSUME NEW n \in Nat
  PROVE  /\ PingPoints(n) \in Int /\ JitterPoints(n) \in Int /\ SpeedPoints(n) \in Int
         /\ PingPoints(0) = 0 /\ (n >= 10000 => PingPoints(n) <= 0)
<1>1. PingPoints(n) \in Int /\ PingPoints(0) = 0 /\ (n >= 10000 => PingPoints(n) <= 0)
  BY SMT DEF PingPoints
<1>2. JitterPoints(n) \in Int
  BY SMT DEF JitterPoints
<1>3. SpeedPoints(n) \in Int
  BY SMT DEF SpeedPoints
<1> QED
  BY <1>1, <1>2, <1>3, SMT

\* The quick score is one of 0 to 100 points ("quick network score (0-100)",
\* benchmark.go:328).
THEOREM QuickScoreInRange ==
  ASSUME NEW ping \in Nat, NEW jitter \in Nat, NEW speed \in Nat
  PROVE  /\ ComputeQuickScore(ping, jitter, speed) \in Nat
         /\ ComputeQuickScore(ping, jitter, speed) <= 10000
<1>1. /\ PingPoints(ping) \in Int
      /\ JitterPoints(jitter) \in Int
      /\ SpeedPoints(speed) \in Int
  BY PointsAreIntegers, SMT
<1> DEFINE x == AtMost(50000, PosPart(30000 + PingPoints(ping) + JitterPoints(jitter)
                                        + SpeedPoints(speed)))
<1>2. x \in Nat /\ x <= 50000
  BY <1>1, SMT DEF AtMost, PosPart
<1> HIDE DEF x
<1>3. Rounded(x, 5) \in Nat /\ Rounded(x, 5) <= 10000
  BY <1>2, SMT DEF Rounded
<1> QED
  BY <1>3, SMT DEF ComputeQuickScore, x

\* With nothing reachable ping, jitter and speed are 0, and a ping of 0 is neither
\* rewarded nor punished: the quick score is 50, and no less than that of a
\* network that answers after 100 ms or more, is slow and has no low jitter
\* (benchmark.go:333-356).
THEOREM OutageBeatsSlowNetwork ==
  /\ ComputeQuickScore(0, 0, 0) = 5000
  /\ \A ping, jitter, speed \in Nat :
       ping >= 10000 /\ (jitter = 0 \/ jitter >= 1500) /\ speed < 500 =>
         ComputeQuickScore(ping, jitter, speed) <= ComputeQuickScore(0, 0, 0)
<1>1. PingPoints(0) = 0 /\ JitterPoints(0) = 0 /\ SpeedPoints(0) = -5000
  BY SMT DEF PingPoints, JitterPoints, SpeedPoints
<1>2. ComputeQuickScore(0, 0, 0) = Rounded(25000, 5)
  BY <1>1, SMT DEF ComputeQuickScore, AtMost, PosPart
<1>3. Rounded(25000, 5) = 5000
  BY SMT DEF Rounded
<1>4. ASSUME NEW ping \in Nat, NEW jitter \in Nat, NEW speed \in Nat,
             ping >= 10000, jitter = 0 \/ jitter >= 1500, speed < 500
      PROVE  ComputeQuickScore(ping, jitter, speed) <= Rounded(25000, 5)
  <2> DEFINE x == AtMost(50000, PosPart(30000 + PingPoints(ping) + JitterPoints(jitter)
                                          + SpeedPoints(speed)))
  <2>1. PingPoints(ping) \in Int /\ PingPoints(ping) <= 0
    BY <1>4, PointsAreIntegers, SMT
  <2>2. JitterPoints(jitter) \in {0, -5000}
    BY <1>4, SMT DEF JitterPoints
  <2>3. SpeedPoints(speed) = -5000
    BY <1>4, SMT DEF SpeedPoints
  <2>4. x \in Nat /\ x <= 25000
    BY <2>1, <2>2, <2>3, SMT DEF AtMost, PosPart
  <2> HIDE DEF x
  <2>5. Rounded(x, 5) <= Rounded(25000, 5)
    BY <2>4, RoundedMonotone, SMT
  <2>6. ComputeQuickScore(ping, jitter, speed) = Rounded(x, 5)
    BY SMT DEF ComputeQuickScore, x
  <2> QED
    BY <2>5, <2>6, SMT
<1> QED
  BY <1>2, <1>3, <1>4, SMT

-----------------------------------------------------------------------------
(* Percentiles                                                             *)

\* A rank on sorted data lies between two samples, and its value between theirs.
LEMMA ValueBetween ==
  ASSUME NEW data \in Seq(Nat), Sorted(data), NEW rank \in Nat,
         rank <= 100 * (Len(data) - 1)
  PROVE  LET lower == rank \div 100 + 1 IN
         /\ lower \in 1 .. Len(data)
         /\ ValueAt(data, rank) \in Nat
         /\ 100 * data[lower] <= ValueAt(data, rank)
         /\ \A i \in lower + 1 .. Len(data) : ValueAt(data, rank) <= 100 * data[i]
<1> DEFINE lower == rank \div 100 + 1
           part == rank % 100
<1>1. /\ lower \in Nat \ {0} /\ part \in 0 .. 99
      /\ rank = 100 * (lower - 1) + part
  OBVIOUS
<1>2. Len(data) \in Nat /\ lower <= Len(data) /\ (part # 0 => lower + 1 <= Len(data))
  BY <1>1
<1>3. DOMAIN data = 1 .. Len(data) /\ data[lower] \in Nat
  BY <1>1, <1>2
<1>4. CASE part = 0
  <2>1. ValueAt(data, rank) = 100 * data[lower]
    BY <1>4 DEF ValueAt
  <2>2. \A i \in lower + 1 .. Len(data) : data[lower] <= data[i] /\ data[i] \in Nat
    BY <1>1, <1>2, <1>3 DEF Sorted
  <2> HIDE DEF lower, part
  <2> QED
    BY <1>1, <1>2, <1>3, <2>1, <2>2 DEF lower
<1>5. CASE part # 0
  <2>1. ValueAt(data, rank) = 100 * data[lower] + (data[lower + 1] - data[lower]) * part
    BY <1>5 DEF ValueAt
  <2>2. data[lower + 1] \in Nat /\ data[lower] <= data[lower + 1]
    <3>1. lower \in DOMAIN data /\ lower + 1 \in DOMAIN data /\ lower <= lower + 1
      BY <1>1, <1>2, <1>3, <1>5, SMTT(30)
    <3> HIDE DEF lower, part
    <3> QED
      BY <3>1 DEF Sorted
  <2>3. \A i \in lower + 1 .. Len(data) : data[lower + 1] <= data[i] /\ data[i] \in Nat
    BY <1>1, <1>2, <1>3, <1>5, SMTT(30) DEF Sorted
  <2>4. \A d \in Nat, q \in 0 .. 99 : d * q \in Nat /\ d * q <= 100 * d
    OBVIOUS
  <2> DEFINE d == data[lower + 1] - data[lower]
  <2>5. d \in Nat
    BY <1>3, <2>2
  <2>6. d * part \in Nat /\ d * part <= 100 * d
    BY <1>1, <2>4, <2>5
  <2> DEFINE w == d * part
  <2>7. ValueAt(data, rank) = 100 * data[lower] + w
    BY <2>1
  <2>8. w \in Nat /\ w <= 100 * d
    BY <2>6
  <2>9. /\ ValueAt(data, rank) \in Nat
        /\ 100 * data[lower] <= ValueAt(data, rank)
        /\ ValueAt(data, rank) <= 100 * data[lower + 1]
    <3> DEFINE e == data[lower]
               f == data[lower + 1]
               v == ValueAt(data, rank)
    <3>1. e \in Nat /\ f \in Nat /\ f = e + d
      BY <1>3, <2>2
    <3>2. v = 100 * e + w
      BY <2>7
    <3> HIDE DEF w, d, e, f, v, lower
    <3>3. v \in Nat /\ 100 * e <= v /\ v <= 100 * f
      BY <2>5, <2>8, <3>1, <3>2
    <3> QED
      BY <3>3 DEF e, f, v
  <2> HIDE DEF lower, part, d, w
  <2> QED
    BY <1>1, <1>2, <1>3, <2>2, <2>3, <2>9, SMTT(30) DEF lower
<1> QED
  BY <1>4, <1>5

\* Values grow with the rank: within one pair of samples with the part, and from
\* one pair to the next because the data are sorted.
LEMMA ValueMonotone ==
  ASSUME NEW data \in Seq(Nat), Sorted(data), NEW r \in Nat, NEW q \in Nat,
         r <= q, q <= 100 * (Len(data) - 1)
  PROVE  ValueAt(data, r) <= ValueAt(data, q)
<1> DEFINE a == r \div 100 + 1
           b == q \div 100 + 1
<1>1. a \in Nat /\ b \in Nat /\ a <= b
  OBVIOUS
<1>2. /\ a \in 1 .. Len(data) /\ b \in 1 .. Len(data)
      /\ ValueAt(data, r) \in Nat /\ ValueAt(data, q) \in Nat
      /\ \A i \in a + 1 .. Len(data) : ValueAt(data, r) <= 100 * data[i]
      /\ 100 * data[a] <= ValueAt(data, r)
      /\ 100 * data[b] <= ValueAt(data, q)
  <2>1. r <= 100 * (Len(data) - 1)
    OBVIOUS
  <2> QED
    BY <2>1, ValueBetween
<1>3. CASE a < b
  <2>1. b \in a + 1 .. Len(data) /\ b \in 1 .. Len(data)
    <3>1. b \in 1 .. Len(data)
      BY <1>2
    <3> HIDE DEF a, b
    <3> QED
      BY <1>1, <1>3, <3>1
  <2> DEFINE u == ValueAt(data, r)
  <2>2. \A i \in a + 1 .. Len(data) : u <= 100 * data[i]
    BY <1>2
  <2> HIDE DEF a, b, u
  <2>3. u <= 100 * data[b]
    BY <2>1, <2>2
  <2>4. data[b] \in Nat
    BY <2>1
  <2>5. u <= ValueAt(data, q)
    BY <1>2, <2>3, <2>4 DEF u
  <2> QED
    BY <2>5 DEF u
<1>4. CASE a = b
  <2> DEFINE s == r % 100
             t == q % 100
  <2>1. s \in 0 .. 99 /\ t \in 0 .. 99 /\ s <= t
    BY <1>4
  <2>2. CASE s = 0
    <3>1. ValueAt(data, r) = 100 * data[a]
      BY <2>2 DEF ValueAt
    <3> HIDE DEF a, b, s, t
    <3> QED
      BY <1>2, <1>4, <3>1
  <2>3. CASE s # 0
    <3> DEFINE d == data[a + 1] - data[a]
    <3>1. ValueAt(data, r) = 100 * data[a] + d * s
      BY <2>3 DEF ValueAt
    <3>2. ValueAt(data, q) = 100 * data[a] + d * t
      BY <2>1, <2>3, <1>4 DEF ValueAt
    <3>3. a + 1 <= Len(data)
      BY <2>3
    <3>4. d \in Nat /\ data[a] \in Nat
      <4>1. data[a] <= data[a + 1] /\ data[a] \in Nat /\ data[a + 1] \in Nat
        <5>1. a \in Nat /\ a \in 1 .. Len(data)
          BY <1>1, <1>2
        <5> HIDE DEF a
        <5>2. a \in DOMAIN data /\ a + 1 \in DOMAIN data /\ a <= a + 1
          BY <3>3, <5>1
        <5> QED
          BY <5>2 DEF Sorted
      <4> QED
        BY <4>1
    <3>5. \A n \in Nat, x \in 0 .. 99, y \in 0 .. 99 :
            x <= y => n * x \in Nat /\ n * y \in Nat /\ n * x <= n * y
      OBVIOUS
    <3>6. d * s \in Nat /\ d * t \in Nat /\ d * s <= d * t
      BY <2>1, <3>4, <3>5
    <3> DEFINE v == d * s
               w == d * t
    <3>7. v \in Nat /\ w \in Nat /\ v <= w
      BY <3>6
    <3>8. ValueAt(data, r) = 100 * data[a] + v /\ ValueAt(data, q) = 100 * data[a] + w
      BY <3>1, <3>2
    <3> HIDE DEF v, w, d, a
    <3> QED
      BY <3>4, <3>7, <3>8
  <2> QED
    BY <2>2, <2>3
<1> QED
  BY <1>1, <1>3, <1>4

\* Percentiles of sorted samples: the ranks stay within the data, the values lie
\* between the extremes and grow with the percentage (latency.go:236-257).
THEOREM PercentilesOrdered ==
  ASSUME NEW data \in Seq(Nat), data # << >>, Sorted(data),
         NEW p \in 1 .. 99, NEW q \in 1 .. 99, p <= q
  PROVE  /\ 100 * data[1] <= percentile(data, p)
         /\ percentile(data, p) <= percentile(data, q)
         /\ percentile(data, q) <= 100 * data[Len(data)]
<1> DEFINE m == Len(data) - 1
<1>1. m \in Nat /\ Len(data) \in Nat /\ data[1] \in Nat /\ data[Len(data)] \in Nat
  OBVIOUS
<1>2. \A n \in Nat, x \in 1 .. 99, y \in 1 .. 99 :
        x <= y => x * n \in Nat /\ y * n \in Nat /\ x * n <= y * n /\ y * n <= 100 * n
  OBVIOUS
<1>3. /\ p * m \in Nat /\ q * m \in Nat /\ p * m <= q * m /\ q * m <= 100 * m
  BY <1>1, <1>2
<1>4. ASSUME NEW n \in 1 .. 99
      PROVE  percentile(data, n) = ValueAt(data, n * m)
  <2>1. ~(n <= 0) /\ ~(n >= 100) /\ data # << >>
    OBVIOUS
  <2> QED
    BY <2>1, Zenon DEF percentile
<1> DEFINE r == p * m
           t == q * m
<1>5. r \in Nat /\ t \in Nat /\ r <= t /\ t <= 100 * m
  BY <1>3
<1> HIDE DEF r, t
<1>6. ValueAt(data, r) <= ValueAt(data, t)
  BY <1>5, ValueMonotone
<1>7. 100 * data[1] <= ValueAt(data, r)
  <2>1. ValueAt(data, 0) = 100 * data[1]
    BY DEF ValueAt
  <2>2. ValueAt(data, 0) <= ValueAt(data, r)
    BY <1>1, <1>5, ValueMonotone
  <2> QED
    BY <2>1, <2>2
<1>8. ValueAt(data, t) <= 100 * data[Len(data)]
  <2>1. ValueAt(data, 100 * m) = 100 * data[Len(data)]
    <3>1. (100 * m) % 100 = 0 /\ (100 * m) \div 100 = m
      BY <1>1
    <3> QED
      BY <1>1, <3>1 DEF ValueAt
  <2>2. ValueAt(data, t) <= ValueAt(data, 100 * m)
    BY <1>1, <1>5, ValueMonotone
  <2> QED
    BY <2>1, <2>2
<1> QED
  BY <1>4, <1>6, <1>7, <1>8 DEF r, t
=============================================================================
