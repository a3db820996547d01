# A TLA+ model of OptiNet Turbo

OptiNet Turbo is one Go process on a phone: three proxies (HTTP/CONNECT/SOCKS5,
SOCKS5, UDP) and around them measurements (DNS, latency, speed), a monitor and a
dashboard. This directory holds TLA+ modules of its parts, the TLC
configurations that check them on small instances, and proofs of their safety
properties for every value of the constants. Paths such as `udpproxy.go:131`
are relative to `src/internal/<package>/`.

## The system

| Part | State | Operations | Talks to |
|---|---|---|---|
| UDP proxy `udpproxy` | sessions by client, sockets, DNS address, counters | Start, handlePacket, relayResponses, closeSession, cleanupLoop, SetDNSAddr, GetStats | clients, DNS/STUN servers, the daemon's context |
| Proxy server `proxy.Server` | counters, throughput window, listener | Start, handleConnection, handleCONNECT, handleHTTP, handleSOCKS5FromReader, GetStats | clients, targets, buffer pool |
| SOCKS5 server `proxy.SOCKS5Server` | counters, listener | Start, handleSOCKS5, GetStats | the same |
| Buffer pool `pool` | free buffers | Get/PutSmall, PooledCopy, PooledCopy2Ways | every tunnel |
| TCP options `tcpopt` | deadline, linger time of a connection | Apply, DialWithOpts | kernel |
| Worker pool `workerpool` | channel of jobs, quit channel, `active`, `started` | New, worker, Submit, Stop, Active | nobody yet |
| DNS optimizer `dns` | answer cache | BenchmarkServers, ResolveWith, FlushCache | daemon, benchmark |
| Monitor `monitor` | metrics, histories, subscribers | Update, UpdateSpeeds, GetMetrics, Subscribe | measuring loop, dashboard |
| Latency tester, speed test, benchmark | result cache (speed test) | fan-out measurements, statistics, scores | network |
| Dashboard | two status fields | HTTP handlers | monitor |
| Daemon `cmd/optinetd` | context | boot order, loops, shutdown | all of them |

### What is hard, and what makes each part correct

*UDP proxy.* One goroutine per datagram, one relay per session, a cleanup loop,
and only the map under the mutex. The session is looked up under one lock and
registered under another; relays evict *by client*, not by session; sockets are
used after the lock is given up. Correct means: the map holds open sessions of
their own client, each with a relay; nobody uses another client's session;
nothing leaks but by the overwrite that the two locks allow; counters are exact;
the table empties by itself.

*Tunnel.* Two copiers, deadlines set by a library function on one connection and
cleared by the caller on the other, a Close that resets. Correct means: a copier
without a failure passes on all of its stream, statistics are complete when the
connection closes, and a tunnel ends when its client has left.

*Handshakes.* The dedicated SOCKS5 server reads the socket field by field under
a deadline; the shared port peeks three bytes, replays them and parses from a
buffered reader without a deadline. Correct means: exactly the handshake is taken
off the socket whatever the client sends, the address asked for is dialled, replies
come in their order, nobody holds a handler.

*Proxy server.* Counters that are atomic one by one and read one by one; a mutex
for the throughput window only. Correct means: counters agree with connections,
failures count once, snapshots make sense, windows partition the bytes.

*Worker pool.* Two selects that choose at random, jobs that submit jobs, a flag
without a lock. Correct means: Stop returns and leaves no job running, accepted
jobs are run unless the pool is stopped or jammed.

*Monitor.* Results share the arrays that the monitor goes on writing to, and are
read without the lock; subscribers may lag or stop. Correct means: a result reads
the same whenever it is read, its parts agree, a subscriber loses only what was made
while its channel was full, and nobody holds up the measuring loop.

*DNS optimizer and boot.* Seven probers share five places, with a result each,
also of servers that do not answer; the cache is checked under one lock and filled
under another; the UDP proxy takes its DNS server while the benchmark that looks
for the fastest runs. Correct means: every prober gets and gives back its place,
the server set is one that no result beats, the cache never outgrows its bound.

*Measurements.* Goroutines per target, per ping and per URL, a context that may
be cancelled between two pings, bodies that stall or break, a result cache that
concurrent calls fill. Correct means: nothing of a call outlives it, a result is
one whole measurement, every call returns.

*Scores.* Formulas with pieces, clamps and zeros that mean "not measured".
Correct means: in range, no better for a worse network, percentiles inside the data.

The list `hazards` of PROJECT.json has each of these at its line.

## Modules

| Module | Models | Checked by | Proved in |
|---|---|---|---|
| `UdpProxy` | udpproxy.go | `MCUdpProxy.cfg` | `UdpProxyProofs` |
| `SessionTable` | the life of a session, abstractly | refined by `UdpProxy` | `UdpProxyProofs` |
| `Tunnel` | pool.go, tcpopt.go, ends of the handlers in proxy.go | `MCTunnel`: `.cfg`, `Cut.cfg`, `Linger.cfg` | `TunnelProofs` |
| `Handshake` | proxy.go, from the first byte to the relay | `MCHandshake`: `.cfg`, `Count.cfg` | `HandshakeProofs` |
| `Dialogue` | what a client is told before its relay, abstractly | refined by `Handshake` | `HandshakeProofs` |
| `ProxyServer` | proxy.go, accept loop, counters, GetStats | `MCProxyServer.cfg` | `ProxyServerProofs` |
| `WorkerPool` | workerpool.go | `MCWorkerPool.cfg` | `WorkerPoolProofs` |
| `Monitor` | monitor.go, measuring loop in main.go, its readers in dashboard.go | `MCMonitor.cfg` | `MonitorProofs` |
| `Snapshots` | what a reader of the metrics gets, abstractly | refined by `Monitor` | `MonitorProofs` |
| `DnsOptimizer` | dns.go | through `Optinetd` | `OptinetdProofs` |
| `Optinetd` | the boot in main.go around the DNS server | `MCOptinetd`: `.cfg`, `Fastest.cfg` | `OptinetdProofs` |
| `Benchmark` | fan-outs of latency.go, speedtest.go, benchmark.go | `MCBenchmark.cfg` | `BenchmarkProofs` |
| `Scores` | scores and percentiles of monitor.go, benchmark.go, latency.go | the monitor's through `Monitor` | `MonitorProofs`, `BenchmarkProofs` |

`ProxyServer`, `Handshake` and `Tunnel` are three views of one connection that
meet at named points: `Handshake` starts where `ProxyServer` has spawned a
handler (`peek`) and ends in `relay`, where `Tunnel` starts; in `ProxyServer` the
two are single nondeterministic outcomes (`ServeSocks`, `ServeConnect`,
`Relayed`), so that every result the other two can have is one it allows.

### UdpProxy

A session is named by the datagram whose handler created it. `handler[d]` is the
program counter of `handlePacket` for datagram `d` (`lookup`, `forward`, `touch`,
`evict`, `dial`, `register`, `spawn`), `relay[s]` that of `relayResponses`, `loop`
and `cleaner` those of `Start` and `cleanupLoop`. Whatever happens between two
steps in the code may happen between two steps of the model. `stale` replaces the
clock: the sessions whose `LastUsed` is older than two minutes. Which datagrams
look like DNS (`Query`) and which clients use a STUN port are constants, since
`isDNSQuery` and the port test look at nothing else. `ForwardFails`,
`RelayReadFails` and `RelayWriteFails` are always possible: a UDP socket may
report an earlier ICMP error, deadlines may lapse. Byte counters, which move with
the packet counters, are left out. An orphaned socket stays open in the model
until the end; in Go a finalizer may close it once its relay has returned.

### Tunnel

`copier[dir]` is one goroutine of `PooledCopy2Ways`. Of each stream the model counts
the chunks that the source has sent, the copier has `taken` and `written`, and the
destination has received (`arrived`). Between the last two is the kernel; a Close
with SO_LINGER 0 drops the difference, so nothing arrives once `handler` is
`"closed"`. `deadlines` names the connections whose deadline is never cleared:
the target (tcpopt.go:83 sets both, proxy.go:187, 191, 195, 453, 561 clear the
client's). Both ends are TCP connections, so `io.CopyBuffer` (pool.go:66) lets them
copy by themselves: the buffer taken from the pool is put back without a byte having
been in it, and is not in the model.

### Handshake

A client is any sequence of bytes (`stream`), on either server: nothing makes the
clients of the dedicated server speak SOCKS5, and its handler does not look at the
version byte, so an HTTP client on port 1080 is told `05 00` once it has sent two
bytes and as many more as the second one says. `sent` of the bytes have arrived, `fetched`
are off the socket, `pos` are parsed. What a client sends before its first and before
its second reply (`first`, `second`) makes it patient or not, and it may leave after
any byte. The two SOCKS5 handlers share actions and differ in `Buffered` and in what a
failed read does: the shared port dials all the same, an address that it has not
read, or one whose port is the one byte that came (`ReadFails`). Whether a dial
succeeds is open, except that none does without an address. Of `http.ReadRequest`
the model keeps how many bytes it reads (`head`) and whether they are a request
(`valid`, `BadHead`); `RoundTrip` is one step.

Both implement `Dialogue`, the replies of each protocol in their order, for the
`Protocol` that the handler takes the client to speak; `Stage` forgets where in the
handshake the handler is. The properties measure the handlers against the stream as
RFC 1928 divides it (`RequestAt`, `AddressAt`, `HandshakeLen`), also a stream that
is not SOCKS5: the dedicated server takes exactly that much of it.

### ProxyServer

Every access to a counter is a step, the additions of the accept loop
(146, 147) included. GetStats holds `mu` from `Lock` to `Unlock`; whether a second
has passed since the last window is a choice. `BytesIn` stands for `BytesOut` too,
`LatencyCount` for `LatencySum`; `windowIn` adds up what the windows have measured
and exists only in the model, like `snapshot`, the part of a result under way.

### WorkerPool

`worker`, `job` and `stopper` are program counters; the selects of `worker` and
`Submit` are actions that may both be enabled. `Child[j]` is the job that `j`
submits from its worker. `racing` (model only) records overlapping calls of Stop.
Jobs end; a job that panics (which kills the process) or calls Stop (which waits
for itself) is left out.

### Monitor

Each method holds the mutex throughout and is one step (`Update`, `GetMetrics`,
`Subscribe`); encoding a result happens later and point by point (`ReadPoint`).
`arrays` is the heap: a slice is an array, a first point and a length, `append`
writes in place while there is `room` and allocates otherwise, with any spare room
up to `MaxSpare`, since Go's growth is an implementation detail. A measurement is
its outcome, a record of latency, jitter and loss (`Measured`), or none
(`MeasureFails`), after which the old metrics stay. The histories of the jitter,
kept in the same way as those of the latency, are left out; the score is
`ComputeScore` of `Scores`. `since`, `log` and `received` (model only) are the updates a
subscriber has been promised, sent and has taken; a missed one must have been made
while `ChanSize` earlier ones were `Waiting`, sent and not yet taken.

`Snapshots` is the monitor a reader would like to have: results are values, a
subscriber's queue and a reader hold copies, and there are no arrays. `Copies` in
`Monitor` maps to it every slice to the points that it shows now (`Copy`), so that
the refinement says that no later step of the monitor changes what a result shows.
Its `Publish` defines a result completely: the last points, the measurement, its
score, the extremes of those points.

### DnsOptimizer and Optinetd

`DnsOptimizer` has the two halves of dns.go, which share nothing: the probers of
`BenchmarkServers` (`prober`, `slots` for the semaphore, `results` for the channel)
and the users of `ResolveWith` (`asking`, `cached`, `fresh`). The samples of one
server, taken one after another, are one step `Probe` with any score; a lookup is
three, `Miss`, the network without the lock, and `Store` or `LookupFails`. The map
is keyed by host, so an entry is its host. `Kept` is what an eviction leaves: Go
iterates a map in any order. `Optinetd` EXTENDS it with the two variables that
hold a DNS server and the goroutines that write them.

Reading dns.go for the model shows more than the properties say. The benchmark
dials UDP, which contacts nobody, so it measures the creation of a socket and a
dead server looks as good as any. Every server has a result, so `BenchmarkServers`
never fails: the branches "no DNS servers reachable" and "using default"
(main.go:151) are not reached. An unreachable server has latency 0 beside the worst score, so
the improvement over it (main.go:166, benchmark.go:93) is negative.

### Benchmark

A call is a `RunAll`, a `QuickBenchmark` or a `RunFullTest` of the shared tester.
`target` is one goroutine of `BenchmarkTargets` each, with the pings it has
launched and their outcomes; `flying` the pings of `measureLatency`, launched at
once; `body` the downloads; `result` counts the samples of a speed test, `cache`
is what the tester keeps for five minutes. All calls have the daemon's context
(main.go:114, 249, 261). `target` is reset when its summary is taken, which only saves states.
`ReadFails` is an error other than EOF: the code goes on reading
(speedtest.go:203-206), and only the timer or the context ends it. A test that
failed or was cancelled is cached like any other.

### Scores

Pure operators over integers in hundredths, exact where the code computes with
floating-point numbers and rounds to two decimals at the end.
`percentile` keeps the interpolation; the jitter of `computeStats`, whose samples
have been sorted before, is the spread divided by their number less one, not the
"mean absolute difference between consecutive samples" of its comment
(latency.go:212). `Monitor` uses `ComputeScore`; the rest is there for its theorems.

## Runs

| Run | Instance | What it shows |
|---|---|---|
| `udp_safety` | 2 clients, 3 datagrams (one client sends a STUN datagram and a query), 1 DNS server; 1 response | type, table, isolation, leaks, counters, refinement of `SessionTable`; the table drains |
| `tunnel` | 3 chunks each way | whole streams, statistics; a client that leaves ends the tunnel |
| `tunnel_cut` | 1 chunk each way | *violated*: the target's deadline cuts a healthy tunnel |
| `tunnel_linger` | the same | *violated*: Close drops the end of a finished stream |
| `handshake` | the 133 clients of `MCHandshake` on both servers | bytes taken, replies, address; refinement of `Dialogue`; no stuck handler |
| `handshake_count` | a usual client with one method | *violated*: the version is read as the number of methods |
| `proxy_server` | 2 connections, 2 callers, 2 calls, byte counts up to 1 | counters, failures, snapshots, windows, shutdown |
| `worker_pool` | 2 workers, channel of 1, 5 jobs of which 2 submit, 2 calls of Stop | Stop once and twice, no lost job, Stop on a jammed pool |
| `monitor` | 1 consumer that subscribes and polls, 2 measurements, histories of 2, channel of 2, 4 updates | coherent results, subscriber's losses, refinement of `Snapshots`, the loop ends |
| `optinetd` | 2 servers, 1 place, 2 samples, 2 callers, 5 hosts, a cache of 4 | the winner, the bound of the cache, the boot settles |
| `optinetd_fastest` | the same without callers | *violated*: the UDP proxy uses the fastest server |
| `benchmark` | 1 call of any kind beside 1 speed test, 2 targets of 2 pings, 2 pings and 1 URL | whole results, every call returns |

*Bounds.* Two datagrams of one client are the smallest case of the overwrite, a
third one (another client's) that of a wrong key; where queries go does not matter
to the properties, so one DNS server is enough. Three
chunks can be at the source, in the kernel and at the destination at once. The
clients of `MCHandshake` are SOCKS5 clients of 0 to 2 methods, both kinds of commands
and every type of address, patient and eager, with address bytes in which the shared
port's misreading finds requests of every kind; HTTP clients with valid, malformed and
unfinished heads; and bytes of no protocol, long enough for the dedicated server to
take a request from them. Two
workers, two nested jobs and one more jam the pool. Four updates fill a history of
two twice, so that arrays are appended to in place, trimmed and replaced while a
consumer reads, and overflow a channel of two; consumers do not affect one another,
so one is enough. Two probers on one place must wait for each other. A cache of
four evicts to one, so that an eviction keeps and drops entries, and five hosts
overfill it; two callers store between each other's check and store. Two targets of two pings let a
cancellation fall between the pings of one and after those of the other; one speed
test beside another call fills the cache under it. The bounds of the runs are the
constants `MaxResponses`, `MaxChunks`, `MaxBytes`, `MaxReads`, `MaxSpare`,
`MaxUpdates` and the sizes of the sets; the proofs hold for all of their values.
All configurations switch the deadlock check off: the finite supply of datagrams,
bytes, connections, jobs and calls runs out, and the modelled goroutines may all
have returned.

*Fairness.* Goroutines are scheduled (weak fairness of each handler, relay,
copier and loop), deadlines pass, dials time out (10 s in `DialWithOpts`), jobs
end; in `UdpProxy` only handlers and relays are needed, so that the table drains
also when the loop and the cleaner have returned. No fairness is given to clients,
targets, operators, shutdown, users of the DNS cache or the expiry of caches. In
`Benchmark` dials and the HTTP client have timeouts and a download has its
five-second timer. In
`Handshake` the server of a page is taken to answer or to close (`Forward`), since no
timeout limits `RoundTrip` once it is connected, and a read fails in the end only where the code sets a deadline or the
client has gone. In `Monitor` the select of the measuring
loop is strongly fair to its cancellation case, since Go picks at random among the
ready ones; consumers owe nothing. `ReadingSpec`, used for `tunnel_cut`, adds that peers read what
reaches them, so that the violation is the proxy's and not theirs.

### The violated runs

1. `optinetd_fastest` (main.go:89): the UDP proxy, the only one that sends DNS
   queries, is created with the default server before the benchmark has ended, and
   nobody calls `SetDNSAddr` later; README.md:243 of the repository promises the
   fastest after 5 seconds.
2. `tunnel_cut` (tcpopt.go:83): the target gets an absolute deadline of 30
   seconds at the dial that nobody clears.
3. `tunnel_linger` (tcpopt.go:89): SO_LINGER 0 on all connections; the deferred
   Close resets them. The same Close follows an HTTP response (proxy.go:285, 162).
4. `handshake_count` (proxy.go:488): the replayed bytes begin with the version,
   which is read as the number of methods.

## Proofs

All theorems but those about the operators of `Scores` are of the form
`Spec => []P` or, for an abstract specification, `Spec => Table!Spec`, assume only the named
assumptions on the constants, and follow from an inductive invariant. Every
safety invariant that a run checks, the type invariants included, is proved, and so are the
three refinements.

*UdpProxyProofs.* `IInv` is the type invariant, `LocalState` (what each program
counter says about `found`, `conn`, `relay` and `sentTo`) and the four safety
invariants, which need one another: that a relay's eviction by client keeps
`RelayAttached` needs `TableSound` (what it closes is the client's own and open);
`LeakOnlyByOverwrite` survives an eviction because the eviction closes exactly what
it removes. `StepKinds` sorts the steps into registrations, evictions and quiet
ones; on it rest `CountersExact`, with finite-set cardinalities, and `Refinement`,
where a registration maps to `Open`, an eviction to `Close`, the rest to stutters.

*TunnelProofs.* `IInv` adds to the types how far each copier is: one that reads has
written all that it has taken, one that writes all but a chunk; one that is done
without a failure has met the end of its stream. From this follow `TypeCorrect`,
`WholeStreams` and, with the handler's wait for both, `StatisticsComplete`.

*HandshakeProofs.* The properties speak of the end of a handshake, so `IInv` says for
each program counter where in the stream the handler stands (`Dedicated`), what it
waits for (`Parser`), what it has read of the request and replied to it (`Asked`), and,
for CONNECT, that it waits for the whole head while a client that waits for the reply
has sent no more (`Connecting`). Nothing is assumed of the stream but that it is bytes;
where its parts lie is known only as far as it has been read, and `Dedicated` says for
each program counter which lengths are. A step of a handler that reads a whole field is
described once (`Takes`, `ReadFullIs`). For `Refinement`, `Told` says what each program
counter knows of the protocol and of the last reply.

*ProxyServerProofs.* `Counts` (finiteness and exactness, failures included) carries the
rest: that the
decrement of ConnsActive leaves a natural number, and that what GetStats reads
first is at most one above what it reads later, since active handlers are among
those started (`ActiveBelowTotal`) and ConnsTotal only grows. `Measured` relates
a window under way to the bytes loaded; `Locked` makes the lock exclude a second
one. `Works` describes the nine steps of a working handler at once.

*OptinetdProofs.* `IInv` adds to the types that the semaphore holds exactly one
token for each prober that is probing or about to give it back (`TokensExact`, with
which the bound of `slots` is inductive), that a prober that has sent has left a
result (`Sent`), and that the cache is finite. `FastestIsChosen` follows because all
servers have sent when the choice is made and results are only added;
`CacheNeverOverflows` because what an eviction leaves has room for one more
(`KeptSmall`).

*WorkerPoolProofs.* `IInv` adds to the types that `active` is the number of workers
between the two additions (`ActiveExact`, with which its bound is inductive), that a
running job has its worker, and what calls of Stop know of one another
(`StopState`): two that are under way at once have both raced, so that what one does
to `started` and to the channel between another's steps concerns only calls that
have. `StopTwiceIsSafe` is that a second close needs two such calls; `Left`, that a
returned call has waited for all workers, gives `QuietAfterStopHolds`.

*BenchmarkProofs.* `IInv` adds to the types how far each goroutine of a latency test
has come (`TargetState`: it never counts more pings than it has launched, all of
them once it has waited, and reports an error only after the cancellation), the same
of a speed test by the phase of its call (`TestState`: each ping is under way or
counted, each download has left at most one sample), and that only whole
measurements are in the cache. Pings and samples are counted with finite-set
cardinalities, a goroutine's end being the removal, or the addition, of one element.

*MonitorProofs.* `IInv` adds to the types that metrics describe the points of their
slice (`Describes`: length, last point, least and greatest one, score) wherever
they are: in the monitor (`HistoryState`, with the two histories equal point by
point and the slice at the end of its array), in a channel, or at a consumer that
has read some of them (`ResultsState`). What consumers hold survives an update since
arrays only `Grow`: `append` writes behind all that is there, or into a new array
(`DescribesStays`, `Appended`). `LogState` says what each subscriber has been
sent; a channel loses an update only when it is full, and then as many earlier
ones are `Waiting`, which later steps do not change (`WaitingStays`). That histories have
extremes at all is `Extremes`, from the well-foundedness of the natural numbers;
that scores are ordered is `ScoreMonotone`. `Refinement` uses the same invariant step
by step: `UpdatePublishes` shows that an update is a `Publish` of its measurement
(`WindowKept`: trimming the history and dropping the oldest point agree;
`HistoryPoints`: the extremes, taken from the other history, are those of the
published points) and leaves all other copies alone (`CopyStays`); subscribing,
receiving, polling, reading a point and finishing map to the actions of the same
name; the steps of the loop map to stutters.

*Scores.* Theorems about the operators, without a specification, in the modules of
their callers: `MonitorProofs` has `ScoreInRange`, `ScoreMonotone` and
`ScoreWithoutSpeeds`, `BenchmarkProofs` the ranges and orders of the other scores
(`QualityInRange`, `QuickScoreInRange`) and of percentiles (`PercentilesOrdered`,
which rests on `ValueBetween` and `ValueMonotone`). Among them are three facts a reader of the dashboard should know. Without speeds, which nothing in the
daemon sets, the score never exceeds 75 (`ScoreWithoutSpeeds`), whereas README.md:45
calls it a score out of 100 and README.md:252 advises to aim for more than 70. The
optimization score stays between 35 and 95 (`OptimizationInRange`). And what was not
measured is not punished, so that an outage can beat a network that works badly: its
optimization score is no less than that of a network that loses packets at a quality
below 50 (`OutageBeatsLossyNetwork`), its quick score is 50, no less than that of a
slow network with a ping of 100 ms (`OutageBeatsSlowNetwork`).

Only model-checked: all liveness (`TableDrains`, `StartStops`,
`ClientGoneEndsTunnel`, `HandshakeEnds`, `QueuedRuns`,
`StopReturns`, `LoopStops`, `BootSettles`, `CallsReturn`), which rests on fairness
and ENABLED, out of the prover's reach. What
sums over a sequence compute (means, deviations) needs induction over data, also out
of its reach.

## Not modelled

Logging, rendering and formatting, the dashboard's pages with them (its reads of the
monitor are in `Monitor`, its fan-out of pings is one of `Benchmark`'s); data races
as such (torn values of `LastUsed` and of the string `dnsAddr`); the UDP proxy's
`GetStats` and byte counters; the pooled buffers, which no byte of a tunnel passes
through, and the large ones, which nothing takes; keep-alive and buffer-size tuning,
`IsSOCKS5Request` and `IsCONNECTRequest`, which nothing calls; the accept loop of
`SOCKS5Server`, which is that of `Server` with fewer counters; UpdateSpeeds,
UpdateThroughput and SetConnections of the monitor, which only tests call, and its
RunSpeedTest, which nothing calls; means and deviations of samples; bytes and speeds
of a download. The daemon's shutdown is the cancellation of the context in each
module that has one: that main sleeps half a second and then returns, whatever is
still running (main.go:141-144), has no model, since nothing here has a clock; the UDP loop may need two
seconds to see it.

## Plan

1. *done*: `UdpProxy` with `SessionTable`, `Tunnel`, `Handshake` with
   `Dialogue`, `ProxyServer`, `WorkerPool`, `Monitor` with `Snapshots`; `DnsOptimizer`, `Optinetd`, `Benchmark`,
   `Scores`; the proofs above.
2. *next*: the composition that the table above states in words, as a refinement: the
   handler of `ProxyServer` as the abstract life of a connection that `Handshake`
   and `Tunnel` implement.
