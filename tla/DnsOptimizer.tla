---------------------------- MODULE DnsOptimizer ----------------------------
(* The DNS optimizer, internal/dns/dns.go.                                 *)
(*                                                                         *)
(* BenchmarkServers starts one goroutine (a prober) per server; a buffered *)
(* channel is the semaphore that bounds how many of them dial at a time,   *)
(* another one collects a result per server, and the caller takes the      *)
(* results, sorted, when all probers have ended.                           *)
(*                                                                         *)
(* ResolveWith looks into the cache under its lock, asks the network       *)
(* without it and stores the answer under it, after an eviction when the   *)
(* cache is full.  The cache is keyed by host name, so a cached host       *)
(* stands for its entry, whichever server has answered.                    *)
EXTENDS Naturals, FiniteSets

CONSTANTS
  Servers,      \* the addresses of NewOptimizer
  Concurrency,  \* BenchOptions.Concurrency
  Samples,      \* BenchOptions.Samples
  Latencies,    \* average latencies of a probed server, in microseconds
  Unreachable,  \* math.MaxFloat64, the score of a server without a sample
  Callers,      \* goroutines that call ResolveWith
  Hosts,        \* host names
  MaxCache,     \* Optimizer.maxCache
  None

\* A server reached at least once has the average latency, worsened by a tenth
\* for each percent of loss, as its score; here in units of 1/Samples.
Scores == {avg * (Samples + 10 * lost) : avg \in Latencies, lost \in 0 .. Samples - 1}

ASSUME BenchAssumption ==
  /\ IsFiniteSet(Servers) /\ Servers # {}
  /\ Concurrency \in Nat \ {0}
  /\ Samples \in Nat \ {0}
  /\ Latencies \subseteq Nat
  /\ Unreachable \in Nat /\ \A x \in Scores : x < Unreachable
ASSUME CacheAssumption == MaxCache \in Nat \ {0} /\ None \notin Hosts

VARIABLES
  prober,   \* [Servers -> "waiting", "probing", "sent", "done"]
  slots,    \* how many tokens the semaphore holds
  results,  \* the results in the channel
  cached,   \* the hosts in the cache
  fresh,    \* those whose entry has not expired
  asking    \* [Callers -> the host a caller is looking up, or None]

benchVars == <<prober, slots, results>>
cacheVars == <<cached, fresh, asking>>
dnsVars == <<benchVars, cacheVars>>

DnsTypeOK ==
  /\ prober \in [Servers -> {"waiting", "probing", "sent", "done"}]
  /\ slots \in 0 .. Concurrency
  /\ results \subseteq [addr : Servers, score : Scores \cup {Unreachable}]
  /\ cached \subseteq Hosts
  /\ fresh \subseteq cached
  /\ asking \in [Callers -> Hosts \cup {None}]

DnsInit ==
  /\ prober = [s \in Servers |-> "waiting"]
  /\ slots = 0
  /\ results = {}
  /\ cached = {}
  /\ fresh = {}
  /\ asking = [c \in Callers |-> None]

-----------------------------------------------------------------------------
(* BenchmarkServers                                                        *)

ProberGoes(s, from, to) ==
  /\ prober[s] = from
  /\ prober' = [prober EXCEPT ![s] = to]

\* Mutant: the probers do not wait for the semaphore.
AcquireAtOnce(s) ==
  /\ ProberGoes(s, "waiting", "probing")
  /\ slots' = slots + 1
  /\ UNCHANGED <<results, cacheVars>>

\* sem <- struct{}{}
Acquire(s) ==
  /\ slots < Concurrency
  /\ ProberGoes(s, "waiting", "probing")
  /\ slots' = slots + 1
  /\ UNCHANGED <<results, cacheVars>>

\* The samples, one after another, and the result, whose channel has room for
\* all servers.  A server that fails every sample has a result as well.
Probe(s) ==
  /\ ProberGoes(s, "probing", "sent")
  /\ \E x \in Scores \cup {Unreachable} :
       results' = results \cup {[addr |-> s, score |-> x]}
  /\ UNCHANGED <<slots, cacheVars>>

\* Mutant: the return for an unreachable server keeps its token.
ReleaseIfReached(s) ==
  /\ ProberGoes(s, "sent", "done")
  /\ slots' = IF [addr |-> s, score |-> Unreachable] \in results
                THEN slots ELSE slots - 1
  /\ UNCHANGED <<results, cacheVars>>

\* The deferred functions: <-sem, then wg.Done.
Release(s) ==
  /\ ProberGoes(s, "sent", "done")
  /\ slots' = slots - 1
  /\ UNCHANGED <<results, cacheVars>>

ProberStep(s) == Acquire(s) \/ Probe(s) \/ Release(s)

\* Mutant: the results are taken when the first server has answered.
AnyProbed == \E s \in Servers : prober[s] = "done"

\* wg.Wait
AllProbed == \A s \in Servers : prober[s] = "done"

\* The servers that may come first: sort.Slice leaves equal scores in any order.
Fastest == {r.addr : r \in {q \in results : \A p \in results : q.score <= p.score}}

-----------------------------------------------------------------------------
(* ResolveWith, FlushCache                                                 *)

\* What an eviction may leave: entries go in the map's order, which is any,
\* until fewer than half of maxCache are left.
Evicted ==
  {k \in SUBSET cached :
     Cardinality(k) = IF MaxCache \div 2 > 0 THEN MaxCache \div 2 - 1 ELSE 0}

\* Mutant: the cache is full one entry late.
KeptLate == IF Cardinality(cached) <= MaxCache THEN {cached} ELSE Evicted

\* What a new entry may find in the cache.
Kept == IF Cardinality(cached) < MaxCache THEN {cached} ELSE Evicted

\* The cache has no unexpired entry (a hit changes nothing): ask the network.
Miss(c, h) ==
  /\ asking[c] = None
  /\ h \notin fresh
  /\ asking' = [asking EXCEPT ![c] = h]
  /\ UNCHANGED <<benchVars, cached, fresh>>

LookupFails(c) ==
  /\ asking[c] # None
  /\ asking' = [asking EXCEPT ![c] = None]
  /\ UNCHANGED <<benchVars, cached, fresh>>

\* Cache the result, under the lock, whatever has happened to the cache since
\* the check: another call may have stored an answer, or FlushCache run.
Store(c) ==
  /\ asking[c] # None
  /\ \E k \in Kept :
       /\ cached' = k \cup {asking[c]}
       /\ fresh' = (fresh \cap k) \cup {asking[c]}
  /\ asking' = [asking EXCEPT ![c] = None]
  /\ UNCHANGED benchVars

\* cacheTTL has passed; the entry stays.
Expire(h) ==
  /\ h \in fresh
  /\ fresh' = fresh \ {h}
  /\ UNCHANGED <<benchVars, cached, asking>>

FlushCache ==
  /\ cached' = {}
  /\ fresh' = {}
  /\ UNCHANGED <<benchVars, asking>>

CacheStep ==
  \/ \E c \in Callers :
       (\E h \in Hosts : Miss(c, h)) \/ LookupFails(c) \/ Store(c)
  \/ \E h \in Hosts : Expire(h)
  \/ FlushCache

DnsNext == (\E s \in Servers : ProberStep(s)) \/ CacheStep

-----------------------------------------------------------------------------
(* Properties                                                              *)

\* The cache never holds more than maxCache entries, however lookups, expiry
\* and flushes interleave: the check of its size, the eviction and the new
\* entry are one critical section (dns.go:197-213).
CacheBounded == Cardinality(cached) <= MaxCache
=============================================================================
