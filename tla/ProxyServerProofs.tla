------------------------- MODULE ProxyServerProofs -------------------------
(***************************************************************************)
(* Proofs about ProxyServer, for any connections and callers of GetStats:  *)
(* the counters of connections are exact, snapshots are ordered and        *)
(* throughput windows neither overlap nor leave bytes out.                 *)
(***************************************************************************)
EXTENDS ProxyServer, FiniteSetTheorems, TLAPS

\* The connection that the accept loop takes in has no handler yet.
Taking ==
  loop \in {"active", "total", "spawn"}
    => accepted \in Conn /\ handler[accepted] = "idle"

\* Only the holder of the lock is in a call of GetStats.
Locked == \A r \in Caller : caller[r] # "idle" => mu = r

\* Between its measurement and the start of the next window, a caller has
\* measured up to the bytes that it loaded.
Measured == \A r \in Caller : caller[r] = "store" => windowIn = loaded[r]

\* After ConnsActive has been read ConnsTotal only grows.
Reading ==
  \A r \in Caller : caller[r] = "total" => snapshot[r].active <= total + 1

Counts == IsFiniteSet(Spawned) /\ CountsConnections

IInv ==
  /\ TypeOK
  /\ Taking
  /\ Locked
  /\ Measured
  /\ WindowsTelescope
  /\ Reading
  /\ SnapshotOrdered
  /\ Counts

-----------------------------------------------------------------------------
(* What the steps do to the parts of the state                             *)

\* The steps of a handler that remains one.
Works(c) ==
  /\ handler[c] \notin {"idle", "done", "leave"}
  /\ handler' \in [Conn -> HandlerState]
  /\ handler'[c] \notin {"idle", "done"}
  /\ \A q \in Conn \ {c} : handler'[q] = handler[q]
  /\ \/ failed' = failed
     \/ failed' = failed + 1 /\ handler'[c] = "leave"
  /\ bytesIn' \in Int /\ timed' \in Nat
  /\ UNCHANGED <<loopVars, active, total, readVars>>

\* The steps that change no handler and no counter of connections, and their
\* counterparts that do.
LoopQuiet ==
  \/ \E c \in Conn : Accept(c)
  \/ Cancel \/ CloseListener \/ AcceptFails \/ AfterError

Kinds ==
  \/ \E c \in Conn : Works(c) \/ Leave(c)
  \/ \E r \in Caller : CallerStep(r)
  \/ LoopQuiet
  \/ CountActive \/ CountTotal \/ Spawn
  \/ UNCHANGED vars

LEMMA StepKinds == ASSUME TypeOK, [Next]_vars PROVE Kinds
<1>1. ASSUME NEW c \in Conn, HandlerStep(c), ~Leave(c) PROVE Works(c)
  <2> USE <1>1 DEF Works, HandlerGoes, TypeOK, HandlerState
  <2>1. CASE Dispatch(c)
    BY <2>1 DEF Dispatch, countVars, connCounts
  <2>2. CASE ServeSocks(c)
    BY <2>2 DEF ServeSocks, countVars, connCounts
  <2>3. CASE ServeConnect(c)
    BY <2>3 DEF ServeConnect, countVars, connCounts
  <2>4. CASE ServeHTTP(c)
    BY <2>4 DEF ServeHTTP, countVars, connCounts
  <2>5. CASE CountLatency(c)
    BY <2>5 DEF CountLatency
  <2>6. CASE Reply(c)
    BY <2>6 DEF Reply, countVars, connCounts
  <2>7. CASE Relayed(c)
    BY <2>7 DEF Relayed, countVars, connCounts
  <2>8. CASE AddBytes(c)
    <3>1. \A n \in -1 .. MaxBytes : n \in Int
      OBVIOUS
    <3>2. \A n \in 0 .. MaxBytes : n \in Int
      OBVIOUS
    <3> QED
      BY <2>8, <3>1, <3>2 DEF AddBytes, connCounts
  <2>9. CASE Fail(c)
    BY <2>9 DEF Fail
  <2> QED
    BY <2>1, <2>2, <2>3, <2>4, <2>5, <2>6, <2>7, <2>8, <2>9 DEF HandlerStep
<1> QED
  BY <1>1 DEF Next, Kinds, LoopQuiet, LoopStep

\* ConnsActive is ahead of ConnsTotal by at most the connection being taken in.
LEMMA ActiveBelowTotal == ASSUME TypeOK, Counts PROVE active <= total + 1
<1>1. Live \in SUBSET Spawned
  BY DEF Live, Spawned
<1>2. IsFiniteSet(Live) /\ Cardinality(Live) <= Cardinality(Spawned)
  BY <1>1, FS_Subset DEF Counts
<1>3. Cardinality(Live) \in Nat /\ Cardinality(Spawned) \in Nat
  BY <1>2, FS_CardinalityType DEF Counts
<1> QED
  BY <1>2, <1>3 DEF TypeOK, Counts, CountsConnections

-----------------------------------------------------------------------------
(* The counters                                                            *)

LEMMA StepCounts ==
  ASSUME TypeOK, Taking, Counts, [Next]_vars
  PROVE  Counts' /\ active' \in Int
<1> USE DEF TypeOK, Counts, CountsConnections, FailsOnce
<1>1. /\ IsFiniteSet(Live) /\ Cardinality(Live) \in Nat
      /\ IsFiniteSet(Ended) /\ Cardinality(Ended) \in Nat
      /\ Cardinality(Spawned) \in Nat
  <2>1. Live \in SUBSET Spawned /\ Ended \in SUBSET Spawned
    BY DEF Live, Ended, Spawned
  <2> QED
    BY <2>1, FS_Subset, FS_CardinalityType
<1>2. ASSUME NEW c \in Conn, Works(c) PROVE Counts' /\ active' \in Int
  <2>1. Live' = Live /\ Spawned' = Spawned
    BY <1>2 DEF Works, Live, Spawned
  <2>2. c \notin Ended /\ Ended' \in {Ended, Ended \cup {c}}
    BY <1>2 DEF Works, Ended
  <2>3. handler'[c] = "leave" => Ended' = Ended \cup {c}
    BY <1>2 DEF Works, Ended
  <2>4. Cardinality(Ended \cup {c}) = Cardinality(Ended) + 1
    BY <2>2, <1>1, FS_AddElement
  <2>5. failed' = failed \/ (failed' = failed + 1 /\ Ended' = Ended \cup {c})
    BY <1>2, <2>3 DEF Works
  <2>6. FailsOnce'
    <3>1. CASE Ended' = Ended
      <4>1. failed' = failed
        BY <3>1, <2>2, <2>5
      <4> QED
        BY <3>1, <4>1
    <3>2. CASE Ended' = Ended \cup {c}
      BY <3>2, <2>4, <2>5, <1>1
    <3> QED
      BY <2>2, <3>1, <3>2
  <2> QED
    BY <1>2, <2>1, <2>6 DEF Works, loopVars
<1>3. ASSUME NEW c \in Conn, Leave(c) PROVE Counts' /\ active' \in Int
  <2>1. Live' = Live \ {c} /\ c \in Live /\ Spawned' = Spawned /\ Ended' = Ended
    BY <1>3 DEF Leave, HandlerGoes, Live, Spawned, Ended, HandlerState
  <2>2. Cardinality(Live') = Cardinality(Live) - 1
    BY <2>1, <1>1, FS_RemoveElement
  <2> QED
    BY <1>3, <1>1, <2>1, <2>2 DEF Leave, loopVars
<1>4. ASSUME Spawn PROVE Counts' /\ active' \in Int
  <2>1. accepted \in Conn /\ handler[accepted] = "idle"
    BY <1>4 DEF Spawn, LoopGoes, Taking
  <2>2. /\ Live' = Live \cup {accepted} /\ accepted \notin Live
        /\ Spawned' = Spawned \cup {accepted} /\ accepted \notin Spawned
        /\ Ended' = Ended
    BY <1>4, <2>1 DEF Spawn, Live, Spawned, Ended, HandlerState
  <2>3. /\ Cardinality(Live') = Cardinality(Live) + 1
        /\ Cardinality(Spawned') = Cardinality(Spawned) + 1
        /\ IsFiniteSet(Spawned')
    BY <2>2, <1>1, FS_AddElement
  <2>4. UNCHANGED <<active, total, failed>> /\ loop = "spawn" /\ loop' = "accept"
    BY <1>4 DEF Spawn, LoopGoes, countVars, connCounts
  <2> QED
    BY <1>1, <2>2, <2>3, <2>4
<1>5. ASSUME UNCHANGED handler PROVE UNCHANGED <<Live, Spawned, Ended>>
  BY <1>5 DEF Live, Spawned, Ended
<1>6. ASSUME CountActive \/ CountTotal PROVE Counts' /\ active' \in Int
  BY <1>6, <1>5, <1>1 DEF CountActive, CountTotal, LoopGoes
<1>7. ASSUME LoopQuiet PROVE Counts' /\ active' \in Int
  BY <1>7, <1>5
  DEF LoopQuiet, Accept, Cancel, CloseListener, AcceptFails, AfterError, LoopGoes,
      countVars, connCounts
<1>8. ASSUME NEW r \in Caller, CallerStep(r)
      PROVE Counts' /\ active' \in Int
  BY <1>8, <1>5
  DEF CallerStep, Lock, LoadBytes, MeasureWindow, StartWindow, ReadActive,
      ReadTotal, Unlock, loopVars, countVars, connCounts
<1>9. ASSUME UNCHANGED vars PROVE Counts' /\ active' \in Int
  BY <1>9, <1>5 DEF vars, loopVars, countVars, connCounts
<1> QED
  BY <1>2, <1>3, <1>4, <1>6, <1>7, <1>8, <1>9, StepKinds DEF Kinds

-----------------------------------------------------------------------------
(* The accept loop and GetStats                                            *)

LEMMA StepTaking == ASSUME TypeOK, Taking, [Next]_vars PROVE Taking'
<1> USE DEF TypeOK, Taking
<1>1. ASSUME NEW c \in Conn, Works(c) PROVE Taking'
  BY <1>1 DEF Works, loopVars
<1>2. ASSUME NEW c \in Conn, Leave(c) PROVE Taking'
  BY <1>2 DEF Leave, HandlerGoes, loopVars
<1>3. ASSUME NEW r \in Caller, CallerStep(r) PROVE Taking'
  BY <1>3
  DEF CallerStep, Lock, LoadBytes, MeasureWindow, StartWindow, ReadActive,
      ReadTotal, Unlock, loopVars
<1>4. CASE LoopQuiet
  BY <1>4 DEF LoopQuiet, Accept, Cancel, CloseListener, AcceptFails, AfterError, LoopGoes
<1>5. CASE CountActive \/ CountTotal \/ Spawn
  BY <1>5 DEF CountActive, CountTotal, Spawn, LoopGoes
<1>6. CASE UNCHANGED vars
  BY <1>6 DEF vars, loopVars
<1> QED
  BY <1>1, <1>2, <1>3, <1>4, <1>5, <1>6, StepKinds DEF Kinds

\* Every step but those of a caller leaves the calls of GetStats alone, and
\* ConnsTotal never falls.
LEMMA OthersKeepCalls ==
  ASSUME TypeOK, Counts, Kinds, ~(\E r \in Caller : CallerStep(r))
  PROVE  UNCHANGED readVars /\ total' >= total /\ total' \in Nat
<1> USE DEF TypeOK
<1>1. ASSUME NEW c \in Conn, Works(c) PROVE UNCHANGED readVars /\ total' >= total /\ total' \in Nat
  BY <1>1 DEF Works
<1>2. ASSUME NEW c \in Conn, Leave(c) PROVE UNCHANGED readVars /\ total' >= total /\ total' \in Nat
  BY <1>2 DEF Leave
<1>3. CASE LoopQuiet
  BY <1>3
  DEF LoopQuiet, Accept, Cancel, CloseListener, AcceptFails, AfterError,
      countVars, connCounts
<1>4. CASE CountActive \/ CountTotal \/ Spawn
  BY <1>4 DEF CountActive, CountTotal, Spawn, countVars, connCounts
<1>5. CASE UNCHANGED vars
  BY <1>5 DEF vars, countVars, connCounts
<1> QED
  BY <1>1, <1>2, <1>3, <1>4, <1>5 DEF Kinds

CallsInv == Locked /\ Measured /\ WindowsTelescope /\ Reading /\ SnapshotOrdered

LEMMA StepCalls ==
  ASSUME TypeOK, Counts, CallsInv, [Next]_vars PROVE CallsInv'
<1> USE DEF TypeOK, CallsInv, Locked, Measured, WindowsTelescope, Reading,
            SnapshotOrdered
<1>1. CASE ~(\E r \in Caller : CallerStep(r))
  <2>1. UNCHANGED readVars /\ total' >= total /\ total' \in Nat
    BY <1>1, OthersKeepCalls, StepKinds
  <2> QED
    BY <2>1 DEF readVars
<1>2. ASSUME NEW r \in Caller, CallerStep(r) PROVE CallsInv'
  <2>1. total' = total
    BY <1>2
    DEF CallerStep, Lock, LoadBytes, MeasureWindow, StartWindow, ReadActive,
        ReadTotal, Unlock, countVars, connCounts
  <2> USE <2>1 DEF CallerGoes
  <2>2. CASE Lock(r)
    BY <2>2, ProxyAssumption DEF Lock
  <2>3. CASE LoadBytes(r)
    BY <2>3 DEF LoadBytes
  <2>4. CASE MeasureWindow(r)
    BY <2>4 DEF MeasureWindow
  <2>5. CASE StartWindow(r)
    BY <2>5 DEF StartWindow
  <2>6. CASE ReadActive(r)
    BY <2>6, ActiveBelowTotal DEF ReadActive
  <2>7. CASE ReadTotal(r)
    BY <2>7 DEF ReadTotal
  <2>8. CASE Unlock(r)
    BY <2>8 DEF Unlock
  <2> QED
    BY <1>2, <2>2, <2>3, <2>4, <2>5, <2>6, <2>7, <2>8 DEF CallerStep
<1> QED
  BY <1>1, <1>2

-----------------------------------------------------------------------------
(* The invariant                                                           *)

LEMMA StepType ==
  ASSUME TypeOK, Taking, Counts, Counts', active' \in Int, [Next]_vars
  PROVE  TypeOK'
<1>1. active' \in Nat
  <2>1. Live' \in SUBSET Spawned' /\ IsFiniteSet(Spawned')
    BY DEF Counts, Live, Spawned
  <2>2. Cardinality(Live') \in Nat
    BY <2>1, FS_Subset, FS_CardinalityType
  <2> QED
    BY <2>2 DEF Counts, CountsConnections
<1> USE <1>1 DEF TypeOK
<1>2. ASSUME NEW c \in Conn, Works(c) PROVE TypeOK'
  BY <1>2 DEF Works, loopVars, readVars
<1>3. ASSUME NEW c \in Conn, Leave(c) PROVE TypeOK'
  BY <1>3 DEF Leave, HandlerGoes, HandlerState, loopVars, readVars
<1>4. ASSUME NEW r \in Caller, CallerStep(r) PROVE TypeOK'
  <2> USE DEF CallerGoes, loopVars, countVars, connCounts
  <2>1. CASE Lock(r)
    BY <2>1, ProxyAssumption DEF Lock
  <2>2. CASE LoadBytes(r)
    BY <2>2 DEF LoadBytes
  <2>3. CASE MeasureWindow(r)
    BY <2>3 DEF MeasureWindow
  <2>4. CASE StartWindow(r)
    BY <2>4 DEF StartWindow
  <2>5. CASE ReadActive(r)
    BY <2>5 DEF ReadActive
  <2>6. CASE ReadTotal(r)
    BY <2>6 DEF ReadTotal
  <2>7. CASE Unlock(r)
    BY <2>7 DEF Unlock
  <2> QED
    BY <1>4, <2>1, <2>2, <2>3, <2>4, <2>5, <2>6, <2>7 DEF CallerStep
<1>5. CASE LoopQuiet
  BY <1>5
  DEF LoopQuiet, Accept, Cancel, CloseListener, AcceptFails, AfterError, LoopGoes,
      countVars, connCounts, readVars
<1>6. CASE CountActive \/ CountTotal \/ Spawn
  BY <1>6
  DEF CountActive, CountTotal, Spawn, LoopGoes, HandlerState, countVars,
      connCounts, readVars
<1>7. CASE UNCHANGED vars
  BY <1>7 DEF vars, loopVars, countVars, connCounts, readVars
<1> QED
  BY <1>2, <1>3, <1>4, <1>5, <1>6, <1>7, StepKinds DEF Kinds

LEMMA InitIInv == Init => IInv
<1> SUFFICES ASSUME Init PROVE IInv
  OBVIOUS
<1>1. TypeOK
  <2>1. snapshot \in [Caller -> [active : Nat, total : Nat]]
    BY DEF Init
  <2>2. /\ handler \in [Conn -> HandlerState]
        /\ caller \in [Caller -> {"idle", "load", "measure", "store", "active",
                                "total", "return"}]
        /\ loaded \in [Caller -> Int]
    BY DEF Init, HandlerState
  <2>3. calls \in 0 .. MaxReads
    BY ProxyAssumption DEF Init
  <2>4. /\ ctxDone \in BOOLEAN
        /\ listener \in {"open", "closed"}
        /\ loop \in {"accept", "active", "total", "spawn", "error", "returned"}
        /\ accepted \in Conn \cup {None}
        /\ mu \in Caller \cup {None}
    BY DEF Init
  <2>5. /\ active \in Nat /\ total \in Nat /\ failed \in Nat /\ timed \in Nat
        /\ bytesIn \in Int /\ lastBytesIn \in Int /\ windowIn \in Int
    BY DEF Init
  <2> QED
    BY <2>1, <2>2, <2>3, <2>4, <2>5 DEF TypeOK
<1>2. Live = {} /\ Spawned = {} /\ Ended = {}
  BY DEF Init, Live, Spawned, Ended
<1>3. Counts
  BY <1>2, FS_EmptySet DEF Init, Counts, CountsConnections, FailsOnce
<1>4. Taking /\ Locked /\ Measured /\ WindowsTelescope /\ Reading /\ SnapshotOrdered
  BY DEF Init, Taking, Locked, Measured, WindowsTelescope, Reading, SnapshotOrdered
<1> QED
  BY <1>1, <1>3, <1>4 DEF IInv

LEMMA StepIInv == IInv /\ [Next]_vars => IInv'
<1> SUFFICES ASSUME IInv, [Next]_vars PROVE IInv'
  OBVIOUS
<1>1. Counts' /\ active' \in Int
  BY StepCounts DEF IInv
<1>2. TypeOK'
  BY <1>1, StepType DEF IInv
<1>3. Taking'
  BY StepTaking DEF IInv
<1>4. CallsInv'
  BY StepCalls DEF IInv, CallsInv
<1> QED
  BY <1>1, <1>2, <1>3, <1>4 DEF IInv, CallsInv

LEMMA Invariance == Spec => []IInv
  BY InitIInv, StepIInv, PTL DEF Spec

\* The type invariant: no counter of connections ever becomes negative.
THEOREM TypeCorrect == Spec => []TypeOK
  BY Invariance, PTL DEF IInv

\* ConnsActive and ConnsTotal are exact for any number of connections, and
\* ConnsFailed never exceeds the number of connections that have ended.
THEOREM CountersExact == Spec => []CountsConnections
<1>1. IInv => CountsConnections
  BY DEF IInv, Counts
<1> QED
  BY <1>1, Invariance, PTL

\* A snapshot shows at most one active connection more than connections.
THEOREM SnapshotsOrdered == Spec => []SnapshotOrdered
  BY Invariance, PTL DEF IInv

\* Throughput windows partition the bytes counted, for any number of callers.
THEOREM WindowsPartition == Spec => []WindowsTelescope
  BY Invariance, PTL DEF IInv
=============================================================================
