---------------------------- MODULE ProxyServer ----------------------------
(***************************************************************************)
(* The proxy server of internal/proxy/proxy.go around its connections: the *)
(* accept loop of Start, the handlers with the statistics they keep, and   *)
(* concurrent calls of GetStats, which reads the statistics field by field *)
(* under a mutex that nothing else takes.  Every access to a counter is an *)
(* atomic step of its own.                                                 *)
(*                                                                         *)
(* How a handler parses its client is the module Handshake, how it relays  *)
(* the module Tunnel; here each ends in one of its outcomes.  Of BytesIn   *)
(* and BytesOut, which the code treats alike, BytesIn stands for both.     *)
(***************************************************************************)
EXTENDS Integers, FiniteSets

CONSTANTS
  Conn,      \* connections that arrive
  Caller,    \* callers of GetStats
  None,      \* no connection, no caller
  MaxBytes,  \* bound: bytes of a message or a relayed stream
  MaxReads   \* bound: calls of GetStats

ASSUME ProxyAssumption ==
  /\ None \notin Conn \cup Caller
  /\ MaxBytes \in Nat
  /\ MaxReads \in Nat

VARIABLES
  ctxDone,      \* the context is cancelled
  listener,     \* "open" or "closed"
  loop,         \* Start: "accept", "active", "total", "spawn", "error",
                \*   "returned"
  accepted,     \* the connection the loop is taking in, or None
  handler,      \* where the handler of each connection stands
  active,       \* stats.ConnsActive
  total,        \* stats.ConnsTotal
  failed,       \* stats.ConnsFailed
  timed,        \* stats.LatencyCount
  bytesIn,      \* stats.BytesIn
  mu,           \* the caller of GetStats that holds Server.mu, or None
  caller,       \* GetStats: "idle", "load", "measure", "store", "active",
                \*   "total", "return"
  calls,        \* calls of GetStats so far
  loaded,       \* the BytesIn each caller has loaded for its window
  lastBytesIn,  \* Server.lastBytesIn
  windowIn,     \* the sum of the bytes that throughput windows measured
  snapshot      \* the ConnsActive and ConnsTotal each call has read

loopVars == <<ctxDone, listener, loop, accepted>>
connCounts == <<active, total, failed, timed>>
countVars == <<connCounts, bytesIn>>
readVars == <<mu, caller, calls, loaded, lastBytesIn, windowIn, snapshot>>
vars == <<loopVars, handler, countVars, readVars>>

HandlerState ==
  {"idle", "peek", "socks", "connect", "timeConnect", "reply", "copy", "addIn",
   "http", "timeHttp", "respond", "respIn", "fail", "leave", "done"}

\* The type invariant.  The byte counters may become negative: the length of an
\* HTTP message is -1 when it is not known in advance.
TypeOK ==
  /\ ctxDone \in BOOLEAN
  /\ listener \in {"open", "closed"}
  /\ loop \in {"accept", "active", "total", "spawn", "error", "returned"}
  /\ accepted \in Conn \cup {None}
  /\ handler \in [Conn -> HandlerState]
  /\ active \in Nat /\ total \in Nat /\ failed \in Nat /\ timed \in Nat
  /\ bytesIn \in Int
  /\ mu \in Caller \cup {None}
  /\ caller \in [Caller -> {"idle", "load", "measure", "store", "active", "total",
                           "return"}]
  /\ calls \in 0 .. MaxReads
  /\ loaded \in [Caller -> Int]
  /\ lastBytesIn \in Int
  /\ windowIn \in Int
  /\ snapshot \in [Caller -> [active : Nat, total : Nat]]

Init ==
  /\ ctxDone = FALSE
  /\ listener = "open"
  /\ loop = "accept"
  /\ accepted = None
  /\ handler = [c \in Conn |-> "idle"]
  /\ active = 0 /\ total = 0 /\ failed = 0 /\ timed = 0
  /\ bytesIn = 0
  /\ mu = None
  /\ caller = [r \in Caller |-> "idle"]
  /\ calls = 0
  /\ loaded = [r \in Caller |-> 0]
  /\ lastBytesIn = 0
  /\ windowIn = 0
  /\ snapshot = [r \in Caller |-> [active |-> 0, total |-> 0]]

-----------------------------------------------------------------------------
(* Start                                                                   *)

LoopGoes(from, to) ==
  /\ loop = from
  /\ loop' = to

Cancel ==
  /\ ~ctxDone
  /\ ctxDone' = TRUE
  /\ UNCHANGED <<listener, loop, accepted, handler, countVars, readVars>>

\* Mutant: nobody closes the listener.
CloseListenerNever == FALSE /\ UNCHANGED vars

\* The goroutine that waits for the context closes the listener.
CloseListener ==
  /\ ctxDone /\ listener = "open"
  /\ listener' = "closed"
  /\ UNCHANGED <<ctxDone, loop, accepted, handler, countVars, readVars>>

Accept(c) ==
  /\ LoopGoes("accept", "active")
  /\ listener = "open" /\ handler[c] = "idle"
  /\ accepted' = c
  /\ UNCHANGED <<ctxDone, listener, handler, countVars, readVars>>

\* Accept fails, for the listener is closed or for want of descriptors.
AcceptFails ==
  /\ LoopGoes("accept", "error")
  /\ UNCHANGED <<ctxDone, listener, accepted, handler, countVars, readVars>>

\* An error ends the loop when the context is done, and is ignored otherwise.
AfterError ==
  /\ LoopGoes("error", IF ctxDone THEN "returned" ELSE "accept")
  /\ UNCHANGED <<ctxDone, listener, accepted, handler, countVars, readVars>>

CountActive ==
  /\ LoopGoes("active", "total")
  /\ active' = active + 1
  /\ UNCHANGED <<ctxDone, listener, accepted, handler, total, failed, timed,
                 bytesIn, readVars>>

CountTotal ==
  /\ LoopGoes("total", "spawn")
  /\ total' = total + 1
  /\ UNCHANGED <<ctxDone, listener, accepted, handler, active, failed, timed,
                 bytesIn, readVars>>

Spawn ==
  /\ LoopGoes("spawn", "accept")
  /\ handler' = [handler EXCEPT ![accepted] = "peek"]
  /\ accepted' = None
  /\ UNCHANGED <<ctxDone, listener, countVars, readVars>>

-----------------------------------------------------------------------------
(* The handlers                                                            *)

HandlerGoes(c, from, to) ==
  /\ handler[c] = from
  /\ handler' = [handler EXCEPT ![c] = to]

\* handleConnection finds the protocol, or fails to read three bytes.
Dispatch(c) ==
  /\ \E to \in {"socks", "connect", "http", "fail"} : HandlerGoes(c, "peek", to)
  /\ UNCHANGED <<loopVars, countVars, readVars>>

\* handleSOCKS5FromReader relays, or gives up without counting a failure.
ServeSocks(c) ==
  /\ \E to \in {"copy", "leave"} : HandlerGoes(c, "socks", to)
  /\ UNCHANGED <<loopVars, countVars, readVars>>

\* handleCONNECT parses the request and dials the target, or counts a failure.
ServeConnect(c) ==
  /\ \E to \in {"timeConnect", "fail"} : HandlerGoes(c, "connect", to)
  /\ UNCHANGED <<loopVars, countVars, readVars>>

\* handleHTTP parses the request and gets a response, or counts a failure.
ServeHTTP(c) ==
  /\ \E to \in {"timeHttp", "fail"} : HandlerGoes(c, "http", to)
  /\ UNCHANGED <<loopVars, countVars, readVars>>

CountLatency(c) ==
  /\ \/ HandlerGoes(c, "timeConnect", "reply")
     \/ HandlerGoes(c, "timeHttp", "respond")
  /\ timed' = timed + 1
  /\ UNCHANGED <<loopVars, active, total, failed, bytesIn, readVars>>

\* The 200 response is written, or the connection counts as failed after all.
Reply(c) ==
  /\ \E to \in {"copy", "fail"} : HandlerGoes(c, "reply", to)
  /\ UNCHANGED <<loopVars, countVars, readVars>>

\* Both copiers have returned, or the response is written (or not).
Relayed(c) ==
  /\ HandlerGoes(c, "copy", "addIn") \/ HandlerGoes(c, "respond", "respIn")
  /\ UNCHANGED <<loopVars, countVars, readVars>>

\* A tunnel adds what it relayed, an HTTP response its ContentLength.
AddBytes(c) ==
  /\ \/ /\ HandlerGoes(c, "addIn", "leave")
        /\ \E n \in 0 .. MaxBytes : bytesIn' = bytesIn + n
     \/ /\ HandlerGoes(c, "respIn", "leave")
        /\ \E n \in -1 .. MaxBytes : bytesIn' = bytesIn + n
  /\ UNCHANGED <<loopVars, connCounts, readVars>>

Fail(c) ==
  /\ HandlerGoes(c, "fail", "leave")
  /\ failed' = failed + 1
  /\ UNCHANGED <<loopVars, active, total, timed, bytesIn, readVars>>

\* Mutants of Leave: no decrement, and a decrement that is done twice.
LeaveUncounted(c) ==
  /\ HandlerGoes(c, "leave", "done")
  /\ UNCHANGED <<loopVars, countVars, readVars>>

LeaveTwice(c) ==
  /\ HandlerGoes(c, "leave", "done")
  /\ active' = active - 2
  /\ UNCHANGED <<loopVars, total, failed, timed, bytesIn, readVars>>

\* The deferred decrement, and Close of the client's connection.
Leave(c) ==
  /\ HandlerGoes(c, "leave", "done")
  /\ active' = active - 1
  /\ UNCHANGED <<loopVars, total, failed, timed, bytesIn, readVars>>

-----------------------------------------------------------------------------
(* GetStats                                                                *)

CallerGoes(r, from, to) ==
  /\ caller[r] = from
  /\ caller' = [caller EXCEPT ![r] = to]

\* Mutant: GetStats takes no lock.
LockNothing(r) ==
  /\ \E to \in {"load", "active"} : CallerGoes(r, "idle", to)
  /\ calls < MaxReads /\ calls' = calls + 1
  /\ UNCHANGED <<loopVars, handler, countVars, mu, loaded, lastBytesIn, windowIn,
                 snapshot>>

\* The lock, and whether a second has passed since the last window.
Lock(r) ==
  /\ \E to \in {"load", "active"} : CallerGoes(r, "idle", to)
  /\ mu = None /\ mu' = r
  /\ calls < MaxReads /\ calls' = calls + 1
  /\ UNCHANGED <<loopVars, handler, countVars, loaded, lastBytesIn, windowIn,
                 snapshot>>

LoadBytes(r) ==
  /\ CallerGoes(r, "load", "measure")
  /\ loaded' = [loaded EXCEPT ![r] = bytesIn]
  /\ UNCHANGED <<loopVars, handler, countVars, mu, calls, lastBytesIn, windowIn,
                 snapshot>>

\* The throughput since the last window.
MeasureWindow(r) ==
  /\ CallerGoes(r, "measure", "store")
  /\ windowIn' = windowIn + (loaded[r] - lastBytesIn)
  /\ UNCHANGED <<loopVars, handler, countVars, mu, calls, loaded, lastBytesIn,
                 snapshot>>

\* The start of the next window.
StartWindow(r) ==
  /\ CallerGoes(r, "store", "active")
  /\ lastBytesIn' = loaded[r]
  /\ loaded' = [loaded EXCEPT ![r] = 0]
  /\ UNCHANGED <<loopVars, handler, countVars, mu, calls, windowIn, snapshot>>

ReadActive(r) ==
  /\ CallerGoes(r, "active", "total")
  /\ snapshot' = [snapshot EXCEPT ![r].active = active]
  /\ UNCHANGED <<loopVars, handler, countVars, mu, calls, loaded, lastBytesIn,
                 windowIn>>

\* Mutant: the total is the one from before ConnsActive was read.
ReadTotalEarly(r) ==
  /\ CallerGoes(r, "total", "return")
  /\ UNCHANGED <<loopVars, handler, countVars, mu, calls, loaded, lastBytesIn,
                 windowIn, snapshot>>

ReadTotal(r) ==
  /\ CallerGoes(r, "total", "return")
  /\ snapshot' = [snapshot EXCEPT ![r].total = total]
  /\ UNCHANGED <<loopVars, handler, countVars, mu, calls, loaded, lastBytesIn,
                 windowIn>>

\* The call returns; its variables of the model are cleared.
Unlock(r) ==
  /\ CallerGoes(r, "return", "idle")
  /\ mu' = None
  /\ snapshot' = [snapshot EXCEPT ![r] = [active |-> 0, total |-> 0]]
  /\ UNCHANGED <<loopVars, handler, countVars, calls, loaded, lastBytesIn,
                 windowIn>>

-----------------------------------------------------------------------------

LoopStep == AfterError \/ CountActive \/ CountTotal \/ Spawn

HandlerStep(c) ==
  \/ Dispatch(c)
  \/ ServeSocks(c)
  \/ ServeConnect(c)
  \/ ServeHTTP(c)
  \/ CountLatency(c)
  \/ Reply(c)
  \/ Relayed(c)
  \/ AddBytes(c)
  \/ Fail(c)
  \/ Leave(c)

CallerStep(r) ==
  \/ Lock(r)
  \/ LoadBytes(r)
  \/ MeasureWindow(r)
  \/ StartWindow(r)
  \/ ReadActive(r)
  \/ ReadTotal(r)
  \/ Unlock(r)

Next ==
  \/ \E c \in Conn : Accept(c) \/ HandlerStep(c)
  \/ \E r \in Caller : CallerStep(r)
  \/ Cancel
  \/ CloseListener
  \/ AcceptFails
  \/ LoopStep

\* The loop and the goroutine that closes the listener are scheduled; Accept
\* need not fail before the listener is closed, and handlers need not end.
Fairness ==
  /\ WF_vars(CloseListener)
  /\ WF_vars(LoopStep)
  /\ WF_vars(listener = "closed" /\ AcceptFails)

Spec == Init /\ [][Next]_vars
FairSpec == Spec /\ Fairness

-----------------------------------------------------------------------------
(* Properties                                                              *)

Live == {c \in Conn : handler[c] \notin {"idle", "done"}}
Ended == {c \in Conn : handler[c] \in {"leave", "done"}}
Spawned == {c \in Conn : handler[c] # "idle"}

\* A connection is counted as failed at most once, and only when it ends.
FailsOnce == failed <= Cardinality(Ended)

\* ConnsActive is the number of handlers that run, and ConnsTotal that of those
\* ever started, but for the connection the accept loop is taking in; and no
\* connection has failed more than once, or without ending.
CountsConnections ==
  /\ active = Cardinality(Live) + (IF loop \in {"total", "spawn"} THEN 1 ELSE 0)
  /\ total = Cardinality(Spawned) + (IF loop = "spawn" THEN 1 ELSE 0)
  /\ FailsOnce

\* Although GetStats reads its fields at different times, a result never shows
\* more active connections than connections, but for the one being accepted.
SnapshotOrdered ==
  \A r \in Caller :
    caller[r] = "return" => snapshot[r].active <= snapshot[r].total + 1

\* Throughput windows neither overlap nor leave bytes out, also when several
\* goroutines call GetStats: between two windows, all of them together have
\* measured the bytes up to lastBytesIn.
WindowsTelescope == (\A r \in Caller : caller[r] # "store") => windowIn = lastBytesIn

\* Start returns after the context is cancelled, even if nobody connects.
StartStops == ctxDone ~> loop = "returned"
=============================================================================
