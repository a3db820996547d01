---------------------------- MODULE TunnelProofs ----------------------------
(***************************************************************************)
(* Proofs about Tunnel: a tunnel that ends by itself has copied whole      *)
(* streams and the statistics are complete, for any number of chunks.      *)
(***************************************************************************)
EXTENDS Tunnel, TLAPS

\* A copier that returned although its stream went on was stopped: a peer is
\* gone or a deadline has lapsed.
Stopped == lapsed # {} \/ \E p \in Peer : peer[p] = "gone"

\* Each copier is at most the one chunk it holds behind its reads, what
\* arrives has been written, and a copier that was not stopped returns at the
\* end of a finished stream.
Progress ==
  \A dir \in Direction :
    /\ taken[dir] <= sent[dir]
    /\ written[dir] <= taken[dir]
    /\ copier[dir] = "write" => taken[dir] = written[dir] + 1
    /\ copier[dir] = "read" => taken[dir] = written[dir]
    /\ arrived[dir] <= written[dir]
    /\ copier[dir] = "done" =>
         \/ Stopped
         \/ peer[From(dir)] = "finished" /\ written[dir] = sent[dir]

\* How far the handler has come after the copiers have returned.
HandlerState ==
  /\ handler # "wait" => \A dir \in Direction : copier[dir] = "done"
  /\ bytesIn = IF handler \in {"wait", "countIn"} THEN 0 ELSE written["up"]
  /\ bytesOut = IF handler # "closed" THEN 0 ELSE written["down"]

IInv == TypeOK /\ Progress /\ HandlerState

LEMMA InitIInv == Init => IInv
  BY TunnelAssumption DEF Init, IInv, TypeOK, Progress, HandlerState, Direction, Peer

\* Counting one chunk more in one direction.
LEMMA Increment ==
  ASSUME NEW f \in [Direction -> 0 .. MaxChunks], NEW dir \in Direction,
         f[dir] < MaxChunks
  PROVE  LET g == [f EXCEPT ![dir] = @ + 1] IN
         /\ g \in [Direction -> 0 .. MaxChunks]
         /\ g[dir] = f[dir] + 1
         /\ \A d \in Direction : g[d] \in Nat /\ g[d] >= f[d]
<1>1. f[dir] \in Nat /\ f[dir] + 1 \in 0 .. MaxChunks
  BY TunnelAssumption
<1> QED
  BY <1>1, TunnelAssumption

\* The end of one copy keeps the invariant, whatever stopped it.
LEMMA EndsIInv ==
  ASSUME IInv, NEW dir \in Direction, Ends(dir), copier[dir] # "done",
         \/ Stopped
         \/ peer[From(dir)] = "finished" /\ written[dir] = sent[dir]
  PROVE  IInv'
<1> USE DEF IInv, Ends, peerVars, handlerVars
<1>1. TypeOK'
  BY DEF TypeOK
<1>2. Progress'
  BY DEF TypeOK, Progress, Stopped
<1>3. HandlerState'
  BY DEF TypeOK, HandlerState
<1> QED
  BY <1>1, <1>2, <1>3

LEMMA StepIInv == IInv /\ [Next]_vars => IInv'
<1> SUFFICES ASSUME IInv, [Next]_vars PROVE IInv'
  OBVIOUS
<1> USE TunnelAssumption
    DEF IInv, TypeOK, Progress, HandlerState, Stopped, peerVars, copyVars, handlerVars
<1>1. ASSUME NEW dir \in Direction, Send(dir) PROVE IInv'
  <2> HIDE DEF Progress, HandlerState
  <2>0. sent[dir] < MaxChunks /\ sent' = [sent EXCEPT ![dir] = @ + 1]
    BY <1>1 DEF Send
  <2>1. /\ sent' \in [Direction -> 0 .. MaxChunks]
        /\ \A d \in Direction : sent'[d] \in Nat /\ sent'[d] >= sent[d]
    BY <2>0, Increment
  <2>2. \A d \in Direction : peer[From(d)] = "finished" => sent'[d] = sent[d]
    BY <1>1, <2>0 DEF Send, Direction, From
  <2>3. TypeOK'
    BY <1>1, <2>1 DEF Send
  <2>4. Progress'
    BY <1>1, <2>1, <2>2 DEF Send, Progress
  <2>5. HandlerState'
    BY <1>1 DEF Send, HandlerState
  <2> QED
    BY <2>3, <2>4, <2>5
<1>2. ASSUME NEW p \in Peer, Finish(p) PROVE IInv'
  BY <1>2 DEF Finish
<1>3. ASSUME NEW p \in Peer, Leave(p) PROVE IInv'
  BY <1>3 DEF Leave
<1>4. ASSUME NEW p \in Peer, Lapse(p) PROVE IInv'
  BY <1>4 DEF Lapse, deadlines, Peer
<1>5. ASSUME NEW dir \in Direction, ReadEnds(dir) PROVE IInv'
  BY <1>5, EndsIInv DEF ReadEnds, From, Peer
<1>6. ASSUME NEW dir \in Direction, WriteFails(dir) PROVE IInv'
  BY <1>6, EndsIInv DEF WriteFails, To, Peer
<1>7. ASSUME NEW dir \in Direction, Read(dir) PROVE IInv'
  <2>1. /\ taken[dir] < sent[dir] /\ taken[dir] < MaxChunks
        /\ taken' = [taken EXCEPT ![dir] = @ + 1]
    BY <1>7 DEF Read
  <2>2. taken' \in [Direction -> 0 .. MaxChunks] /\ taken'[dir] = taken[dir] + 1
    BY <2>1, Increment
  <2>3. TypeOK'
    BY <1>7, <2>2 DEF Read
  <2>4. Progress'
    BY <1>7, <2>1, <2>2 DEF Read
  <2>5. HandlerState'
    BY <1>7 DEF Read
  <2> QED
    BY <2>3, <2>4, <2>5
<1>8. ASSUME NEW dir \in Direction, Write(dir) PROVE IInv'
  <2>1. /\ written[dir] < taken[dir] /\ written[dir] < MaxChunks
        /\ written' = [written EXCEPT ![dir] = @ + 1]
    BY <1>8 DEF Write
  <2>2. written' \in [Direction -> 0 .. MaxChunks] /\ written'[dir] = written[dir] + 1
    BY <2>1, Increment
  <2>3. TypeOK'
    BY <1>8, <2>2 DEF Write
  <2>4. Progress'
    BY <1>8, <2>1, <2>2 DEF Write
  <2>5. HandlerState'
    BY <1>8 DEF Write, Direction
  <2> QED
    BY <2>3, <2>4, <2>5
<1>9. ASSUME NEW dir \in Direction, Arrive(dir) PROVE IInv'
  <2>1. /\ arrived[dir] < written[dir] /\ arrived[dir] < MaxChunks
        /\ arrived' = [arrived EXCEPT ![dir] = @ + 1]
    BY <1>9 DEF Arrive
  <2>2. arrived' \in [Direction -> 0 .. MaxChunks] /\ arrived'[dir] = arrived[dir] + 1
    BY <2>1, Increment
  <2>3. TypeOK'
    BY <1>9, <2>2 DEF Arrive
  <2>4. Progress'
    BY <1>9, <2>1, <2>2 DEF Arrive
  <2>5. HandlerState'
    BY <1>9 DEF Arrive
  <2> QED
    BY <2>3, <2>4, <2>5
<1>10. ASSUME Waited PROVE IInv'
  BY <1>10 DEF Waited
<1>11. ASSUME CountIn PROVE IInv'
  BY <1>11 DEF CountIn, Direction
<1>12. ASSUME CountOut PROVE IInv'
  BY <1>12 DEF CountOut, Direction
<1>13. CASE UNCHANGED vars
  BY <1>13 DEF vars
<1> QED
  BY <1>1, <1>2, <1>3, <1>4, <1>5, <1>6, <1>7, <1>8, <1>9, <1>10, <1>11, <1>12,
     <1>13
  DEF Next, CopierStep

LEMMA Invariance == Spec => []IInv
  BY InitIInv, StepIInv, PTL DEF Spec

\* No copier loses count of its chunks, and the statistics stay in their range.
THEOREM TypeCorrect == Spec => []TypeOK
  BY Invariance, PTL DEF IInv

\* Unless a peer leaves or a deadline lapses, a tunnel closes only after all
\* that either peer sent has been handed to the other's socket.
THEOREM WholeStreams == Spec => []CopiesWholeStreams
<1>1. IInv => CopiesWholeStreams
  BY DEF IInv, Progress, HandlerState, Stopped, CopiesWholeStreams
<1> QED
  BY <1>1, Invariance, PTL

\* Connections close after both copiers, with complete statistics.
THEOREM StatisticsComplete == Spec => []CountedWhenClosed
<1>1. IInv => CountedWhenClosed
  BY DEF IInv, TypeOK, Progress, HandlerState, CountedWhenClosed, Direction
<1> QED
  BY <1>1, Invariance, PTL
=============================================================================
