--------------------------- MODULE OptinetdProofs ---------------------------
(***************************************************************************)
(* Proofs about the DNS optimizer and the boot of the daemon, for any      *)
(* servers, scores, width of the semaphore and size of the cache.          *)
(***************************************************************************)
EXTENDS Optinetd, FiniteSetTheorems, TLAPS

\* The probers that hold a token of the semaphore.
Holding == {s \in Servers : prober[s] \in {"probing", "sent"}}

\* The semaphore holds a token for each of them, never one more or less.
TokensExact == slots = Cardinality(Holding)

\* A prober that has sent has left a result.
Sent ==
  \A s \in Servers :
    prober[s] \in {"sent", "done"} => \E r \in results : r.addr = s

\* The cache is finite, and bounded as CacheBounded says.
Bounded == IsFiniteSet(cached) /\ CacheBounded

IInv == TypeOK /\ TokensExact /\ Sent /\ Bounded /\ FastestChosen

-----------------------------------------------------------------------------
(* The semaphore                                                           *)

LEMMA HoldingFinite == IsFiniteSet(Holding) /\ Cardinality(Holding) \in Nat
<1>1. Holding \subseteq Servers
  BY DEF Holding
<1> QED
  BY <1>1, FS_Subset, FS_CardinalityType, BenchAssumption

LEMMA AcquireTokens ==
  ASSUME NEW s \in Servers, TypeOK, TokensExact, Acquire(s)
  PROVE  TokensExact' /\ slots' \in 0 .. Concurrency
<1>1. Holding' = Holding \cup {s} /\ s \notin Holding
  BY DEF Holding, Acquire, ProberGoes, TypeOK, DnsTypeOK
<1>2. Cardinality(Holding') = Cardinality(Holding) + 1
  BY <1>1, HoldingFinite, FS_AddElement
<1> QED
  BY <1>2, HoldingFinite, BenchAssumption
  DEF TokensExact, Acquire, TypeOK, DnsTypeOK

LEMMA ReleaseTokens ==
  ASSUME NEW s \in Servers, TypeOK, TokensExact, Release(s)
  PROVE  TokensExact' /\ slots' \in 0 .. Concurrency
<1>1. Holding' = Holding \ {s} /\ s \in Holding
  BY DEF Holding, Release, ProberGoes, TypeOK, DnsTypeOK
<1>2. Cardinality(Holding') = Cardinality(Holding) - 1 /\ IsFiniteSet(Holding')
  BY <1>1, HoldingFinite, FS_RemoveElement
<1>3. Cardinality(Holding') \in Nat
  BY <1>2, FS_CardinalityType
<1> QED
  BY <1>2, <1>3, HoldingFinite, BenchAssumption
  DEF TokensExact, Release, TypeOK, DnsTypeOK

-----------------------------------------------------------------------------
(* The cache                                                               *)

\* A store finds room: what it keeps is finite and smaller than maxCache.
LEMMA KeptSmall ==
  ASSUME Bounded, NEW k \in Kept
  PROVE  /\ IsFiniteSet(k) /\ k \subseteq cached
         /\ Cardinality(k) + 1 <= MaxCache
<1>1. Cardinality(cached) \in Nat
  BY FS_CardinalityType DEF Bounded
<1>2. CASE Cardinality(cached) < MaxCache
  BY <1>1, <1>2, CacheAssumption DEF Kept, Bounded
<1>3. CASE ~(Cardinality(cached) < MaxCache)
  <2>1. k \subseteq cached
        /\ Cardinality(k) = IF MaxCache \div 2 > 0 THEN MaxCache \div 2 - 1 ELSE 0
    BY <1>3 DEF Kept, Evicted
  <2>2. IsFiniteSet(k)
    BY <2>1, FS_Subset DEF Bounded
  <2> QED
    BY <2>1, <2>2, CacheAssumption
<1> QED
  BY <1>2, <1>3

LEMMA StoreBounded ==
  ASSUME NEW c \in Callers, Bounded, Store(c)
  PROVE  Bounded'
<1>1. PICK k \in Kept : cached' = k \cup {asking[c]}
  BY DEF Store
<1>2. IsFiniteSet(k) /\ Cardinality(k) + 1 <= MaxCache /\ Cardinality(k) \in Nat
  BY <1>1, KeptSmall, FS_CardinalityType
<1>3. /\ IsFiniteSet(cached')
      /\ Cardinality(cached') = IF asking[c] \in k THEN Cardinality(k)
                                                  ELSE Cardinality(k) + 1
  BY <1>1, <1>2, FS_AddElement
<1> QED
  BY <1>2, <1>3, CacheAssumption DEF Bounded, CacheBounded

\* Whatever the optimizer does, the cache stays bounded.
LEMMA OptimizerBounded ==
  ASSUME Bounded, DnsNext
  PROVE  Bounded'
<1>1. ASSUME UNCHANGED cached PROVE Bounded'
  BY <1>1 DEF Bounded, CacheBounded
<1>2. ASSUME NEW s \in Servers, ProberStep(s) PROVE Bounded'
  BY <1>1, <1>2 DEF ProberStep, Acquire, Probe, Release, cacheVars
<1>3. ASSUME NEW c \in Callers, NEW h \in Hosts, Miss(c, h) PROVE Bounded'
  BY <1>1, <1>3 DEF Miss
<1>4. ASSUME NEW c \in Callers, LookupFails(c) PROVE Bounded'
  BY <1>1, <1>4 DEF LookupFails
<1>5. ASSUME NEW c \in Callers, Store(c) PROVE Bounded'
  BY <1>5, StoreBounded
<1>6. ASSUME NEW h \in Hosts, Expire(h) PROVE Bounded'
  BY <1>1, <1>6 DEF Expire
<1>7. CASE FlushCache
  BY <1>7, FS_EmptySet, CacheAssumption DEF FlushCache, Bounded, CacheBounded
<1> QED
  BY <1>2, <1>3, <1>4, <1>5, <1>6, <1>7 DEF DnsNext, CacheStep

-----------------------------------------------------------------------------
(* The invariant                                                           *)

LEMMA InitInv == Init => IInv
<1> SUFFICES ASSUME Init PROVE IInv
  OBVIOUS
<1>1. TypeOK
  <2>1. slots \in 0 .. Concurrency
    BY BenchAssumption DEF Init, DnsInit
  <2>2. prober \in [Servers -> {"waiting", "probing", "sent", "done"}]
        /\ asking \in [Callers -> Hosts \cup {None}]
    BY DEF Init, DnsInit
  <2>3. results = {} /\ cached = {} /\ fresh = {}
    BY DEF Init, DnsInit
  <2>4. found \in BOOLEAN /\ dnsServer \in Servers /\ dnsAddr \in Servers \cup {None}
    BY DefaultAssumption DEF Init
  <2> QED
    BY <2>1, <2>2, <2>3, <2>4 DEF TypeOK, DnsTypeOK
<1>2. Holding = {} /\ Sent
  BY DEF Init, DnsInit, Holding, Sent
<1>3. TokensExact
  BY <1>2, FS_EmptySet DEF Init, DnsInit, TokensExact
<1>4. Bounded
  BY FS_EmptySet, CacheAssumption DEF Init, DnsInit, Bounded, CacheBounded
<1>5. FastestChosen
  BY DEF Init, FastestChosen
<1> QED
  BY <1>1, <1>3, <1>2, <1>4, <1>5 DEF IInv

\* Results are only added, so a server that was compared with all of them when
\* all probers had sent stays the winner.
LEMMA ChoiceStays ==
  ASSUME FastestChosen, results \subseteq results', UNCHANGED bootVars
  PROVE  FastestChosen'
BY DEF FastestChosen, bootVars

LEMMA ProberInv ==
  ASSUME IInv, NEW s \in Servers, ProberStep(s), UNCHANGED bootVars
  PROVE  TypeOK' /\ TokensExact' /\ Sent' /\ FastestChosen'
<1> USE DEF IInv
<1>1. CASE Acquire(s)
  <2>1. TypeOK'
    BY <1>1, AcquireTokens
    DEF Acquire, ProberGoes, TypeOK, DnsTypeOK, cacheVars, bootVars
  <2>2. Sent' /\ FastestChosen'
    BY <1>1, ChoiceStays DEF Acquire, ProberGoes, Sent, TypeOK, DnsTypeOK
  <2> QED
    BY <1>1, <2>1, <2>2, AcquireTokens
<1>2. CASE Probe(s)
  <2>1. PICK x \in Scores \cup {Unreachable} :
          results' = results \cup {[addr |-> s, score |-> x]}
    BY <1>2 DEF Probe
  <2>2. TypeOK'
    BY <1>2, <2>1 DEF Probe, ProberGoes, TypeOK, DnsTypeOK, cacheVars, bootVars
  <2>3. Holding' = Holding
    BY <1>2 DEF Probe, ProberGoes, Holding, TypeOK, DnsTypeOK
  <2>4. TokensExact'
    BY <1>2, <2>3 DEF Probe, TokensExact
  <2>5. Sent'
    <3> SUFFICES ASSUME NEW t \in Servers, prober'[t] \in {"sent", "done"}
                 PROVE  \E r \in results' : r.addr = t
      BY DEF Sent
    <3>1. CASE t = s
      <4>1. [addr |-> s, score |-> x] \in results'
        BY <2>1
      <4> QED
        BY <3>1, <4>1
    <3>2. CASE t # s
      <4>1. prober[t] \in {"sent", "done"}
        BY <1>2, <3>2 DEF Probe, ProberGoes, TypeOK, DnsTypeOK
      <4> QED
        BY <2>1, <4>1 DEF Sent
    <3> QED
      BY <3>1, <3>2
  <2> QED
    BY <2>1, <2>2, <2>4, <2>5, ChoiceStays
<1>3. CASE Release(s)
  <2>1. TypeOK'
    BY <1>3, ReleaseTokens
    DEF Release, ProberGoes, TypeOK, DnsTypeOK, cacheVars, bootVars
  <2>2. Sent' /\ FastestChosen'
    BY <1>3, ChoiceStays DEF Release, ProberGoes, Sent, TypeOK, DnsTypeOK
  <2> QED
    BY <1>3, <2>1, <2>2, ReleaseTokens
<1> QED
  BY <1>1, <1>2, <1>3 DEF ProberStep

LEMMA CacheInv ==
  ASSUME IInv, CacheStep, UNCHANGED bootVars
  PROVE  TypeOK' /\ TokensExact' /\ Sent' /\ FastestChosen'
<1>1. UNCHANGED benchVars
  BY DEF CacheStep, Miss, LookupFails, Store, Expire, FlushCache
<1>2. TokensExact' /\ Sent' /\ FastestChosen'
  BY <1>1, ChoiceStays DEF IInv, benchVars, TokensExact, Holding, Sent
<1> DEFINE CacheTyped == /\ cached' \subseteq Hosts /\ fresh' \subseteq cached'
                         /\ asking' \in [Callers -> Hosts \cup {None}]
<1>3. CacheTyped
  <2> USE DEF IInv, TypeOK, DnsTypeOK
  <2>1. ASSUME NEW c \in Callers, NEW h \in Hosts, Miss(c, h) PROVE CacheTyped
    BY <2>1 DEF Miss
  <2>2. ASSUME NEW c \in Callers, LookupFails(c) PROVE CacheTyped
    BY <2>2 DEF LookupFails
  <2>3. ASSUME NEW c \in Callers, Store(c) PROVE CacheTyped
    <3>1. PICK k \in Kept : /\ cached' = k \cup {asking[c]}
                            /\ fresh' = (fresh \cap k) \cup {asking[c]}
      BY <2>3 DEF Store
    <3>2. k \subseteq cached /\ asking[c] \in Hosts
      BY <2>3, <3>1, KeptSmall DEF Store
    <3> QED
      BY <2>3, <3>1, <3>2 DEF Store
  <2>4. ASSUME NEW h \in Hosts, Expire(h) PROVE CacheTyped
    BY <2>4 DEF Expire
  <2>5. CASE FlushCache
    BY <2>5 DEF FlushCache
  <2> QED
    BY <2>1, <2>2, <2>3, <2>4, <2>5 DEF CacheStep
<1> QED
  BY <1>1, <1>2, <1>3 DEF IInv, TypeOK, DnsTypeOK, benchVars, bootVars

\* The winner has a result that is no worse than any, and every server has one.
LEMMA FindInv ==
  ASSUME IInv, FindFastest
  PROVE  IInv'
<1>1. PICK s \in Fastest : dnsServer' = s
  BY DEF FindFastest
<1>2. PICK r \in results : r.addr = s /\ \A p \in results : r.score <= p.score
  BY <1>1 DEF Fastest
<1>3. s \in Servers
  BY <1>2 DEF IInv, TypeOK, DnsTypeOK
<1>4. \A t \in Servers : \E q \in results : q.addr = t
  BY DEF FindFastest, AllProbed, IInv, Sent
<1>5. UNCHANGED dnsVars /\ found' = TRUE /\ dnsAddr' = dnsAddr
  BY DEF FindFastest
<1>6. TypeOK' /\ TokensExact' /\ Sent' /\ Bounded'
  BY <1>1, <1>3, <1>5
  DEF IInv, TypeOK, DnsTypeOK, TokensExact, Holding, Sent, Bounded, CacheBounded,
      dnsVars, benchVars, cacheVars
<1>7. dnsAddr \in {None, DefaultServer}
  BY DEF IInv, FastestChosen, FindFastest
<1>8. FastestChosen'
  BY <1>1, <1>2, <1>4, <1>5, <1>7
  DEF FastestChosen, dnsVars, benchVars
<1> QED
  BY <1>6, <1>8 DEF IInv

LEMMA StepInv == IInv /\ [Next]_vars => IInv'
<1> SUFFICES ASSUME IInv, [Next]_vars PROVE IInv'
  OBVIOUS
<1>1. CASE OptimizerStep
  <2>1. Bounded'
    BY <1>1, OptimizerBounded DEF OptimizerStep, IInv
  <2> QED
    BY <1>1, <2>1, ProberInv, CacheInv DEF OptimizerStep, DnsNext, IInv
<1>2. CASE FindFastest
  BY <1>2, FindInv
<1>3. CASE StartUdp
  BY <1>3
  DEF StartUdp, IInv, TypeOK, DnsTypeOK, TokensExact, Holding, Sent, Bounded,
      CacheBounded, FastestChosen, dnsVars, benchVars, cacheVars
<1>4. CASE UNCHANGED vars
  BY <1>4
  DEF IInv, TypeOK, DnsTypeOK, TokensExact, Holding, Sent, Bounded, CacheBounded,
      FastestChosen, vars, dnsVars, benchVars, cacheVars, bootVars
<1> QED
  BY <1>1, <1>2, <1>3, <1>4 DEF Next

THEOREM Invariance == Spec => []IInv
BY InitInv, StepInv, PTL DEF Spec

\* The type invariant, and with it the width of the semaphore: no more than
\* Concurrency probers ever dial at a time (dns.go:97-104).
THEOREM TypeCorrect == Spec => []TypeOK
BY Invariance, PTL DEF IInv

\* The cache never outgrows maxCache, whatever the calls (dns.go:197-213).
THEOREM CacheNeverOverflows == Spec => []CacheBounded
BY Invariance, PTL DEF IInv, Bounded

\* The proxy's server is the default or, once the benchmark has ended, one whose
\* measured score no server's beats (dns.go:91-162, main.go:147-161).
THEOREM FastestIsChosen == Spec => []FastestChosen
BY Invariance, PTL DEF IInv
=============================================================================
