------------------------------ MODULE UdpProxy ------------------------------
(***************************************************************************)
(* The UDP game proxy (internal/udpproxy/udpproxy.go).                     *)
(*                                                                         *)
(* Start receives datagrams and spawns one goroutine per datagram          *)
(* (handlePacket).  A handler that finds a session for its client forwards *)
(* on the session's target socket; one that finds none dials a target,     *)
(* registers a new session and spawns relayResponses for it.  Handlers,    *)
(* relays, the cleanup loop and shutdown interleave; only the accesses to  *)
(* the sessions map are under the mutex.                                   *)
(*                                                                         *)
(* A session is identified by the datagram whose handler created it.  Time *)
(* is abstracted: `stale' holds the sessions whose LastUsed is more than   *)
(* sessionTTL ago, and a relay's read deadline may lapse at any read.      *)
(***************************************************************************)
EXTENDS Integers, FiniteSets

CONSTANTS
  Client,       \* client addresses, the keys of the sessions map
  Datagram,     \* datagrams received; also the identities of the sessions
  Source,       \* Source[d]: the client that sent datagram d
  Query,        \* the datagrams isDNSQuery accepts
  StunClient,   \* clients that send from port 3478 or 3479
  DnsServer,    \* values of dnsAddr
  Stun,         \* the STUN server resolveTarget returns
  None,         \* no session, no target
  MaxResponses  \* bound: responses relayed in a behaviour

ASSUME ConstantsAssumption ==
  /\ Source \in [Datagram -> Client]
  /\ Query \subseteq Datagram
  /\ StunClient \subseteq Client
  /\ None \notin Datagram \cup DnsServer \cup {Stun}
  /\ MaxResponses \in Nat

VARIABLES
  loop,         \* Start's receive loop: "top" (the context check), "read"
                \*   (in ReadFrom) or "returned"
  cleaner,      \* cleanupLoop: "running" or "returned"
  ctxDone,      \* the context has been cancelled
  dnsAddr,      \* Server.dnsAddr
  sessions,     \* Server.sessions: the session registered for each client
  stale,        \* sessions whose LastUsed is older than sessionTTL
  conn,         \* TargetConn of each session: "none", "open", "closed"
  handler,      \* where each datagram's handlePacket stands
  found,        \* the session handlePacket looked up for the datagram
  sentTo,       \* the address each datagram was written to
  relay,        \* where each session's relayResponses stands
  sessionCount, \* stats.Sessions
  packetsOut,   \* stats.PacketsOut
  packetsIn     \* stats.PacketsIn

ctlVars == <<loop, cleaner, ctxDone, dnsAddr>>
tableVars == <<sessions, conn>>
handlerVars == <<handler, found, sentTo>>
statVars == <<sessionCount, packetsOut, packetsIn>>
vars == <<ctlVars, tableVars, stale, handlerVars, relay, statVars>>

HandlerState == {"idle", "lookup", "forward", "touch", "evict", "dial",
                 "register", "spawn", "done"}
RelayState == {"none", "read", "write", "count", "evict", "done"}
Address == DnsServer \cup {Stun}

\* The type invariant.
TypeOK ==
  /\ loop \in {"top", "read", "returned"}
  /\ cleaner \in {"running", "returned"}
  /\ ctxDone \in BOOLEAN
  /\ dnsAddr \in DnsServer
  /\ sessions \in [Client -> Datagram \cup {None}]
  /\ stale \in SUBSET Datagram
  /\ conn \in [Datagram -> {"none", "open", "closed"}]
  /\ handler \in [Datagram -> HandlerState]
  /\ found \in [Datagram -> Datagram \cup {None}]
  /\ sentTo \in [Datagram -> Address \cup {None}]
  /\ relay \in [Datagram -> RelayState]
  /\ sessionCount \in Nat
  /\ packetsOut \in Nat
  /\ packetsIn \in Nat

Init ==
  /\ loop = "top"
  /\ cleaner = "running"
  /\ ctxDone = FALSE
  /\ dnsAddr \in DnsServer
  /\ sessions = [c \in Client |-> None]
  /\ stale = {}
  /\ conn = [d \in Datagram |-> "none"]
  /\ handler = [d \in Datagram |-> "idle"]
  /\ found = [d \in Datagram |-> None]
  /\ sentTo = [d \in Datagram |-> None]
  /\ relay = [d \in Datagram |-> "none"]
  /\ sessionCount = 0
  /\ packetsOut = 0
  /\ packetsIn = 0

-----------------------------------------------------------------------------
(* Helpers                                                                 *)

HandlerGoes(d, from, to) ==
  /\ handler[d] = from
  /\ handler' = [handler EXCEPT ![d] = to]

RelayGoes(s, from, to) ==
  /\ relay[s] = from
  /\ relay' = [relay EXCEPT ![s] = to]

\* Where a datagram of a client without a session goes; None when the port
\* heuristics know no target and the datagram is dropped.
Target(d) ==
  IF d \in Query THEN dnsAddr
  ELSE IF Source[d] \in StunClient THEN Stun ELSE None

\* Mutants of Remove: one forgets to delete the entry, one to close the socket.
RemoveKeepsEntry(cs) ==
  /\ conn' = [s \in Datagram |->
                IF \E c \in cs : sessions[c] = s THEN "closed" ELSE conn[s]]
  /\ UNCHANGED sessions

RemoveLeavesOpen(cs) ==
  /\ UNCHANGED conn
  /\ sessions' = [c \in Client |-> IF c \in cs THEN None ELSE sessions[c]]

\* Under the lock: close and remove whatever is registered for the clients cs.
Remove(cs) ==
  /\ conn' = [s \in Datagram |->
                IF \E c \in cs : sessions[c] = s THEN "closed" ELSE conn[s]]
  /\ sessions' = [c \in Client |-> IF c \in cs THEN None ELSE sessions[c]]

closeSession(c) == Remove({c})

-----------------------------------------------------------------------------
(* Control: Start, the cleanup loop, the context, SetDNSAddr               *)

\* Start: the select at the top of the loop.
Poll ==
  /\ loop = "top"
  /\ loop' = IF ctxDone THEN "returned" ELSE "read"
  /\ UNCHANGED <<cleaner, ctxDone, dnsAddr, tableVars, stale, handlerVars,
                 relay, statVars>>

\* Start: ReadFrom returns a datagram; it is copied and a handler is spawned.
Receive(d) ==
  /\ loop = "read"
  /\ loop' = "top"
  /\ HandlerGoes(d, "idle", "lookup")
  /\ UNCHANGED <<cleaner, ctxDone, dnsAddr, tableVars, stale, found, sentTo,
                 relay, statVars>>

\* Start: the two-second deadline ends ReadFrom (another error is followed by
\* the same check of the context as the one at the top of the loop).
ReadTimesOut ==
  /\ loop = "read"
  /\ loop' = "top"
  /\ UNCHANGED <<cleaner, ctxDone, dnsAddr, tableVars, stale, handlerVars,
                 relay, statVars>>

Cancel ==
  /\ ~ctxDone
  /\ ctxDone' = TRUE
  /\ UNCHANGED <<loop, cleaner, dnsAddr, tableVars, stale, handlerVars, relay,
                 statVars>>

SetDNSAddr(a) ==
  /\ dnsAddr' = a
  /\ UNCHANGED <<loop, cleaner, ctxDone, tableVars, stale, handlerVars, relay,
                 statVars>>

\* More than sessionTTL passes without a write to the session's LastUsed.
Ages(s) ==
  /\ conn[s] = "open" /\ s \notin stale
  /\ stale' = stale \cup {s}
  /\ UNCHANGED <<ctlVars, tableVars, handlerVars, relay, statVars>>

\* cleanupLoop: a tick closes and removes every session that is stale.
Cleanup ==
  /\ cleaner = "running"
  /\ \E c \in Client : sessions[c] \in stale
  /\ Remove({c \in Client : sessions[c] \in stale})
  /\ UNCHANGED <<ctlVars, stale, handlerVars, relay, statVars>>

CleanerReturns ==
  /\ cleaner = "running" /\ ctxDone
  /\ cleaner' = "returned"
  /\ UNCHANGED <<loop, ctxDone, dnsAddr, tableVars, stale, handlerVars, relay,
                 statVars>>

-----------------------------------------------------------------------------
(* handlePacket                                                            *)

\* Mutant: sessions are looked up under a key that several clients share.
LookupSharedKey(d) ==
  \E c \in Client :
    /\ found' = [found EXCEPT ![d] = sessions[c]]
    /\ HandlerGoes(d, "lookup", IF sessions[c] = None THEN "dial" ELSE "forward")
    /\ UNCHANGED <<ctlVars, tableVars, stale, sentTo, relay, statVars>>

\* The lookup under the read lock.
Lookup(d) ==
  /\ found' = [found EXCEPT ![d] = sessions[Source[d]]]
  /\ HandlerGoes(d, "lookup",
                 IF sessions[Source[d]] = None THEN "dial" ELSE "forward")
  /\ UNCHANGED <<ctlVars, tableVars, stale, sentTo, relay, statVars>>

\* The write on the session found, whose socket may have been closed since.
ForwardOk(d) ==
  /\ HandlerGoes(d, "forward", "touch")
  /\ conn[found[d]] = "open"
  /\ sentTo' = [sentTo EXCEPT ![d] = sentTo[found[d]]]
  /\ UNCHANGED <<ctlVars, tableVars, stale, found, relay, statVars>>

\* The write fails: the socket is closed, or reports an earlier ICMP error.
ForwardFails(d) ==
  /\ HandlerGoes(d, "forward", "evict")
  /\ UNCHANGED <<ctlVars, tableVars, stale, found, sentTo, relay, statVars>>

\* Mutants of Touch: one puts the session back into the map, one does not count.
TouchReinserts(d) ==
  /\ HandlerGoes(d, "touch", "done")
  /\ packetsOut' = packetsOut + 1
  /\ sessions' = [sessions EXCEPT ![Source[d]] = found[d]]
  /\ UNCHANGED <<ctlVars, conn, stale, found, sentTo, relay, sessionCount,
                 packetsIn>>

TouchUncounted(d) ==
  /\ HandlerGoes(d, "touch", "done")
  /\ UNCHANGED <<ctlVars, tableVars, stale, found, sentTo, relay, statVars>>

\* The counters and the unlocked write of LastUsed.
Touch(d) ==
  /\ HandlerGoes(d, "touch", "done")
  /\ packetsOut' = packetsOut + 1
  /\ stale' = stale \ {found[d]}
  /\ UNCHANGED <<ctlVars, tableVars, found, sentTo, relay, sessionCount,
                 packetsIn>>

\* closeSession(key) after a failed forward.
HandlerEvicts(d) ==
  /\ HandlerGoes(d, "evict", "done")
  /\ closeSession(Source[d])
  /\ UNCHANGED <<ctlVars, stale, found, sentTo, relay, statVars>>

\* No session: pick the target, dial it, write the datagram.
DialOk(d) ==
  /\ HandlerGoes(d, "dial", "register")
  /\ Target(d) # None
  /\ sentTo' = [sentTo EXCEPT ![d] = Target(d)]
  /\ conn' = [conn EXCEPT ![d] = "open"]
  /\ UNCHANGED <<ctlVars, sessions, stale, found, relay, statVars>>

\* No target, no socket, or a first write that fails and closes the socket.
DialFails(d) ==
  /\ HandlerGoes(d, "dial", "done")
  /\ UNCHANGED <<ctlVars, tableVars, stale, found, sentTo, relay, statVars>>

\* Mutant: the session is stored under the address of its target.
RegisterByTarget(d) ==
  /\ HandlerGoes(d, "register", "spawn")
  /\ sessions' = [key \in Client \cup {sentTo[d]} |->
                    IF key = sentTo[d] THEN d ELSE sessions[key]]
  /\ sessionCount' = sessionCount + 1
  /\ UNCHANGED <<ctlVars, conn, stale, found, sentTo, relay, packetsOut,
                 packetsIn>>

\* The session enters the map, over any session another handler of the same
\* client has registered since the lookup.
Register(d) ==
  /\ HandlerGoes(d, "register", "spawn")
  /\ sessions' = [sessions EXCEPT ![Source[d]] = d]
  /\ sessionCount' = sessionCount + 1
  /\ UNCHANGED <<ctlVars, conn, stale, found, sentTo, relay, packetsOut,
                 packetsIn>>

\* Mutant: the session is registered and no relay is started for it.
SpawnForgotten(d) ==
  /\ HandlerGoes(d, "spawn", "done")
  /\ packetsOut' = packetsOut + 1
  /\ relay' = [relay EXCEPT ![d] = "done"]
  /\ UNCHANGED <<ctlVars, tableVars, stale, found, sentTo, sessionCount,
                 packetsIn>>

\* The counters, and go relayResponses.
Spawn(d) ==
  /\ HandlerGoes(d, "spawn", "done")
  /\ packetsOut' = packetsOut + 1
  /\ relay' = [relay EXCEPT ![d] = "read"]
  /\ UNCHANGED <<ctlVars, tableVars, stale, found, sentTo, sessionCount,
                 packetsIn>>

-----------------------------------------------------------------------------
(* relayResponses                                                          *)

\* A response arrives within the read deadline.
RelayRead(s) ==
  /\ conn[s] = "open" /\ packetsIn < MaxResponses
  /\ RelayGoes(s, "read", "write")
  /\ UNCHANGED <<ctlVars, tableVars, stale, handlerVars, statVars>>

\* The read deadline lapses, or the socket is closed or reports an error.
RelayReadFails(s) ==
  /\ RelayGoes(s, "read", "evict")
  /\ UNCHANGED <<ctlVars, tableVars, stale, handlerVars, statVars>>

RelayWrite(s) ==
  /\ RelayGoes(s, "write", "count")
  /\ UNCHANGED <<ctlVars, tableVars, stale, handlerVars, statVars>>

\* WriteTo on the listener fails; its deadline, which Start renews for its
\* reads, covers writes too.
RelayWriteFails(s) ==
  /\ RelayGoes(s, "write", "evict")
  /\ UNCHANGED <<ctlVars, tableVars, stale, handlerVars, statVars>>

\* The counters and the unlocked write of LastUsed.
RelayCounts(s) ==
  /\ RelayGoes(s, "count", "read")
  /\ packetsIn' = packetsIn + 1
  /\ stale' = stale \ {s}
  /\ UNCHANGED <<ctlVars, tableVars, handlerVars, sessionCount, packetsOut>>

\* Mutant: the relay returns and leaves its session to the cleanup loop.
RelayEvictsNothing(s) ==
  /\ RelayGoes(s, "evict", "done")
  /\ UNCHANGED <<ctlVars, tableVars, stale, handlerVars, statVars>>

\* closeSession(key): closes what the map holds for the client, which need not
\* be the relay's own session.
RelayEvicts(s) ==
  /\ RelayGoes(s, "evict", "done")
  /\ closeSession(Source[s])
  /\ UNCHANGED <<ctlVars, stale, handlerVars, statVars>>

-----------------------------------------------------------------------------

HandlerStep(d) ==
  \/ Lookup(d)
  \/ ForwardOk(d)
  \/ ForwardFails(d)
  \/ Touch(d)
  \/ HandlerEvicts(d)
  \/ DialOk(d)
  \/ DialFails(d)
  \/ Register(d)
  \/ Spawn(d)

\* What a relay does without a response to read.
RelayStep(s) ==
  \/ RelayReadFails(s)
  \/ RelayWrite(s)
  \/ RelayWriteFails(s)
  \/ RelayCounts(s)
  \/ RelayEvicts(s)

Next ==
  \/ \E d \in Datagram :
       Receive(d) \/ HandlerStep(d) \/ Ages(d) \/ RelayRead(d) \/ RelayStep(d)
  \/ \E a \in DnsServer : SetDNSAddr(a)
  \/ Cancel
  \/ Poll
  \/ ReadTimesOut
  \/ Cleanup
  \/ CleanerReturns

\* Handlers and relays are scheduled and every read of a relay has a deadline;
\* nothing obliges clients, targets, the clock of another session, the receive
\* loop, the cleanup loop or the operator to act.
Fairness ==
  \A d \in Datagram : WF_vars(HandlerStep(d)) /\ WF_vars(RelayStep(d))

Spec == Init /\ [][Next]_vars
FairSpec == Spec /\ Fairness

-----------------------------------------------------------------------------
(* Properties                                                              *)

\* The session of datagram s has entered the map at some time.
Registered(s) == handler[s] = "spawn" \/ relay[s] # "none"

\* The map never holds a closed session, or one under another client's key: a
\* datagram that finds a session is written to an open socket of its own
\* client, unless the session is evicted between the lookup and the write.
TableSound ==
  \A c \in Client : LET s == sessions[c] IN
    s # None => Source[s] = c /\ conn[s] = "open" /\ Registered(s)

\* A session in the map has a relay, or is about to get one: no session waits
\* in the map for responses that nobody reads or for an eviction that only the
\* cleanup loop would make, although relays evict by client and not by session.
RelayAttached ==
  \A c \in Client : LET s == sessions[c] IN
    s # None => handler[s] = "spawn" \/ relay[s] \notin {"none", "done"}

\* A handler never forwards one client's datagram to the session of another,
\* nor to a socket that was never opened.
SessionIsolation ==
  \A d \in Datagram :
    found[d] # None => /\ Source[found[d]] = Source[d]
                       /\ Registered(found[d])
                       /\ conn[found[d]] # "none"

\* A registered session whose socket stays open while the map has lost it was
\* overwritten: another handler of the same client registered a session too.
\* Neither an eviction, the cleanup loop nor shutdown loses an open socket.
LeakOnlyByOverwrite ==
  \A s \in Datagram :
    Registered(s) /\ conn[s] = "open" /\ sessions[Source[s]] # s
      => \E q \in Datagram \ {s} : Source[q] = Source[s] /\ Registered(q)

\* The counters agree with the traffic: stats.Sessions counts the sessions
\* registered, stats.PacketsOut the datagrams that some socket accepted.
Accounting ==
  /\ sessionCount = Cardinality({d \in Datagram : Registered(d)})
  /\ packetsOut =
       Cardinality({d \in Datagram : handler[d] = "done" /\ sentTo[d] # None})

\* Where a session stands in its life, as SessionTable sees it.
Phase ==
  [s \in Datagram |->
     IF ~Registered(s) THEN "new"
     ELSE IF sessions[Source[s]] = s THEN "live"
     ELSE IF conn[s] = "open" THEN "orphan" ELSE "closed"]

Table == INSTANCE SessionTable WITH Session <- Datagram, Owner <- Source,
                                    phase <- Phase

\* The proxy implements the life cycle of SessionTable: a session is opened
\* once, leaves the map closed or replaced by a newer one of its client, and
\* neither a closed nor a replaced session ever comes back, in any interleaving
\* of handlers, relays and the cleanup loop.
ImplementsTable == Table!Spec

\* Once clients and targets are silent the map empties, also when the cleanup
\* loop has stopped: every session is evicted by a relay.
TableDrains == <>[](\A c \in Client : sessions[c] = None)
=============================================================================
