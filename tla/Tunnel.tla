------------------------------- MODULE Tunnel -------------------------------
(***************************************************************************)
(* A proxied TCP connection once it is established (internal/pool/pool.go  *)
(* and the ends of handleCONNECT, handleSOCKS5 and handleSOCKS5FromReader  *)
(* in internal/proxy/proxy.go): PooledCopy2Ways runs two copiers; the      *)
(* handler waits for both, counts the bytes and closes both connections.   *)
(*                                                                         *)
(* Both ends are *net.TCPConn values, so io.CopyBuffer leaves the copy to  *)
(* their WriteTo and ReadFrom (splice, or a buffer of the call's own).     *)
(* The buffer that PooledCopy takes from the pool is never read or written *)
(* and is left out; a copier has what it has read to itself.               *)
(*                                                                         *)
(* The peers act as they like: they send, finish their stream (FIN), leave *)
(* (close or reset the connection), and read or do not read.  The socket   *)
(* of a connection in `deadlines' also fails once its deadline has lapsed. *)
(* What a Write has accepted waits in the kernel until it arrives; tcpopt  *)
(* sets SO_LINGER to 0, so that a Close drops what is still waiting.       *)
(***************************************************************************)
EXTENDS Integers

CONSTANT MaxChunks  \* bound: chunks sent in each direction

ASSUME TunnelAssumption == MaxChunks \in Nat

VARIABLES
  peer,     \* each peer: "open", "finished" (sent FIN), "gone" (closed)
  lapsed,   \* the connections whose deadline has passed
  sent,     \* chunks sent by the source of each direction
  taken,    \* chunks the copier of each direction has read
  written,  \* chunks the destination's socket has accepted, which the copy counts
  arrived,  \* how many of these have reached the destination
  copier,   \* where the copier of each direction stands
  handler,  \* "wait", "countIn", "countOut", "closed"
  bytesIn,  \* stats.BytesIn, in chunks
  bytesOut  \* stats.BytesOut, in chunks

peerVars == <<peer, lapsed, sent>>
copyVars == <<taken, written, copier>>
handlerVars == <<handler, bytesIn, bytesOut>>
vars == <<peerVars, copyVars, arrived, handlerVars>>

Peer == {"client", "target"}
Direction == {"up", "down"}
From(dir) == IF dir = "up" THEN "client" ELSE "target"
To(dir) == IF dir = "up" THEN "target" ELSE "client"

\* Mutant: the target's deadline is cleared like the client's.
deadlinesCleared == {}

\* tcpopt.Apply gives both connections a deadline; the handlers clear the
\* client's before they copy, and nothing clears the target's.
deadlines == {"target"}

\* The type invariant.
TypeOK ==
  /\ peer \in [Peer -> {"open", "finished", "gone"}]
  /\ lapsed \in SUBSET Peer
  /\ sent \in [Direction -> 0 .. MaxChunks]
  /\ taken \in [Direction -> 0 .. MaxChunks]
  /\ written \in [Direction -> 0 .. MaxChunks]
  /\ arrived \in [Direction -> 0 .. MaxChunks]
  /\ copier \in [Direction -> {"read", "write", "done"}]
  /\ handler \in {"wait", "countIn", "countOut", "closed"}
  /\ bytesIn \in 0 .. MaxChunks
  /\ bytesOut \in 0 .. MaxChunks

Init ==
  /\ peer = [p \in Peer |-> "open"]
  /\ lapsed = {}
  /\ sent = [dir \in Direction |-> 0]
  /\ taken = [dir \in Direction |-> 0]
  /\ written = [dir \in Direction |-> 0]
  /\ arrived = [dir \in Direction |-> 0]
  /\ copier = [dir \in Direction |-> "read"]
  /\ handler = "wait"
  /\ bytesIn = 0
  /\ bytesOut = 0

-----------------------------------------------------------------------------
(* The peers and the clock                                                 *)

Send(dir) ==
  /\ peer[From(dir)] = "open" /\ sent[dir] < MaxChunks
  /\ sent' = [sent EXCEPT ![dir] = @ + 1]
  /\ UNCHANGED <<peer, lapsed, copyVars, arrived, handlerVars>>

\* The peer ends its stream and may go on reading.
Finish(p) ==
  /\ peer[p] = "open"
  /\ peer' = [peer EXCEPT ![p] = "finished"]
  /\ UNCHANGED <<lapsed, sent, copyVars, arrived, handlerVars>>

Leave(p) ==
  /\ peer[p] # "gone"
  /\ peer' = [peer EXCEPT ![p] = "gone"]
  /\ UNCHANGED <<lapsed, sent, copyVars, arrived, handlerVars>>

Lapse(p) ==
  /\ p \in deadlines \ lapsed
  /\ lapsed' = lapsed \cup {p}
  /\ UNCHANGED <<peer, sent, copyVars, arrived, handlerVars>>

\* The destination takes the next chunk from the kernel, until the connection
\* is closed.
Arrive(dir) ==
  /\ arrived[dir] < written[dir]
  /\ peer[To(dir)] # "gone" /\ handler # "closed"
  /\ arrived' = [arrived EXCEPT ![dir] = @ + 1]
  /\ UNCHANGED <<peerVars, copyVars, handlerVars>>

-----------------------------------------------------------------------------
(* PooledCopy in each direction                                            *)

\* The copy ends, and PooledCopy returns.
Ends(dir) ==
  /\ copier' = [copier EXCEPT ![dir] = "done"]
  /\ UNCHANGED <<peerVars, taken, written, arrived, handlerVars>>

Read(dir) ==
  /\ copier[dir] = "read"
  /\ From(dir) \notin lapsed /\ taken[dir] < sent[dir]
  /\ copier' = [copier EXCEPT ![dir] = "write"]
  /\ taken' = [taken EXCEPT ![dir] = @ + 1]
  /\ UNCHANGED <<peerVars, written, arrived, handlerVars>>

\* Mutant: a source that has finished its stream ends the copy, also when not
\* all of the stream has been read.
ReadEndsEarly(dir) ==
  /\ copier[dir] = "read"
  /\ peer[From(dir)] # "open" \/ From(dir) \in lapsed
  /\ Ends(dir)

\* End of the stream, a reset that also drops what was not read yet, or a
\* deadline that has lapsed.
ReadEnds(dir) ==
  /\ copier[dir] = "read"
  /\ \/ peer[From(dir)] = "finished" /\ taken[dir] = sent[dir]
     \/ peer[From(dir)] = "gone"
     \/ From(dir) \in lapsed
  /\ Ends(dir)

\* The kernel takes the chunk, also for a peer that has just left; the buffer
\* of a destination that does not read is full and blocks the copier.
Write(dir) ==
  /\ copier[dir] = "write" /\ To(dir) \notin lapsed
  /\ copier' = [copier EXCEPT ![dir] = "read"]
  /\ written' = [written EXCEPT ![dir] = @ + 1]
  /\ UNCHANGED <<peerVars, taken, arrived, handlerVars>>

WriteFails(dir) ==
  /\ copier[dir] = "write"
  /\ peer[To(dir)] = "gone" \/ To(dir) \in lapsed
  /\ Ends(dir)

-----------------------------------------------------------------------------
(* The handler: wg.Wait, the two atomic additions, the deferred Close calls *)

\* Mutant: the wait group expects one copier.
WaitedForOne ==
  /\ handler = "wait" /\ \E dir \in Direction : copier[dir] = "done"
  /\ handler' = "countIn"
  /\ UNCHANGED <<peerVars, copyVars, arrived, bytesIn, bytesOut>>

Waited ==
  /\ handler = "wait" /\ \A dir \in Direction : copier[dir] = "done"
  /\ handler' = "countIn"
  /\ UNCHANGED <<peerVars, copyVars, arrived, bytesIn, bytesOut>>

\* Mutant: both directions are counted as bytes in.
CountInBoth ==
  /\ handler = "countIn"
  /\ handler' = "countOut"
  /\ bytesIn' = bytesIn + written["up"] + written["down"]
  /\ UNCHANGED <<peerVars, copyVars, arrived, bytesOut>>

CountIn ==
  /\ handler = "countIn"
  /\ handler' = "countOut"
  /\ bytesIn' = bytesIn + written["up"]
  /\ UNCHANGED <<peerVars, copyVars, arrived, bytesOut>>

CountOut ==
  /\ handler = "countOut"
  /\ handler' = "closed"
  /\ bytesOut' = bytesOut + written["down"]
  /\ UNCHANGED <<peerVars, copyVars, arrived, bytesIn>>

-----------------------------------------------------------------------------

\* What a copier does without the help of its destination.
CopierStep(dir) ==
  \/ Read(dir)
  \/ ReadEnds(dir)
  \/ WriteFails(dir)

Next ==
  \/ \E dir \in Direction :
       Send(dir) \/ Arrive(dir) \/ CopierStep(dir) \/ Write(dir)
  \/ \E p \in Peer : Finish(p) \/ Leave(p) \/ Lapse(p)
  \/ Waited
  \/ CountIn
  \/ CountOut

\* Goroutines are scheduled and time passes.  No peer has to send, to finish,
\* to leave or to read.
Fairness ==
  /\ \A dir \in Direction : WF_vars(CopierStep(dir))
  /\ \A p \in Peer : WF_vars(Lapse(p))
  /\ WF_vars(Waited \/ CountIn \/ CountOut)

Spec == Init /\ [][Next]_vars
FairSpec == Spec /\ Fairness

\* With peers that read what is written to them.
ReadingSpec ==
  FairSpec /\ \A dir \in Direction : WF_vars(Write(dir)) /\ WF_vars(Arrive(dir))

-----------------------------------------------------------------------------
(* Properties                                                              *)

\* A tunnel that ends by itself has copied all of both streams: unless a peer
\* left or a deadline lapsed, every chunk that either peer sent was handed to
\* the other's socket before the connections are closed.
CopiesWholeStreams ==
  handler = "closed" /\ lapsed = {} /\ (\A p \in Peer : peer[p] # "gone") =>
    \A dir \in Direction : written[dir] = sent[dir]

\* A connection is closed after both copiers have returned, and the statistics
\* then hold all that they wrote: never less than what the destinations
\* received.
CountedWhenClosed ==
  handler = "closed" =>
    /\ \A dir \in Direction : copier[dir] = "done"
    /\ bytesIn = written["up"] /\ bytesIn >= arrived["up"]
    /\ bytesOut = written["down"] /\ bytesOut >= arrived["down"]

\* A handler whose client has left returns, also when the target is silent
\* and open: the deadline that tcpopt set on the target ends the other copier.
ClientGoneEndsTunnel == peer["client"] = "gone" ~> handler = "closed"

\* "Full TCP proxy for apps that support SOCKS (gaming, streaming, etc.)"
\* (README.md:41): while both connections stay open, what the target sends
\* arrives.
TargetDataArrives ==
  \A n \in 1 .. MaxChunks :
    sent["down"] >= n ~> arrived["down"] >= n \/ \E p \in Peer : peer[p] # "open"

\* The same promise for streams that end: when both peers have finished their
\* streams, in time, and stay to read, each has received all of the other's
\* stream by the time the proxy closes.
FinishedStreamsArrive ==
  handler = "closed" /\ lapsed = {} /\ (\A p \in Peer : peer[p] = "finished")
    => \A dir \in Direction : arrived[dir] = sent[dir]
=============================================================================
