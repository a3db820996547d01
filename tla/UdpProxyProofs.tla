--------------------------- MODULE UdpProxyProofs ---------------------------
(***************************************************************************)
(* Proofs about UdpProxy: its invariants, the counters and the refinement  *)
(* of SessionTable, for any clients, any datagrams and any amount of       *)
(* traffic.                                                                *)
(***************************************************************************)
EXTENDS UdpProxy, FiniteSetTheorems, TLAPS

(***************************************************************************)
(* What holds of a handler, its session's socket and its relay at each     *)
(* point of handlePacket: the link between the program counters that makes *)
(* the invariants inductive.                                               *)
(***************************************************************************)
LocalState ==
  \A d \in Datagram :
    /\ handler[d] \in {"idle", "lookup", "dial", "forward", "evict"}
         => sentTo[d] = None
    /\ handler[d] \in {"touch", "register", "spawn"} => sentTo[d] # None
    /\ handler[d] \in {"forward", "touch", "evict"} => found[d] # None
    /\ handler[d] = "register" => conn[d] = "open"
    /\ relay[d] # "none" => handler[d] = "done"
    /\ conn[d] # "none" <=> handler[d] = "register" \/ Registered(d)
    /\ Registered(d) => sentTo[d] # None

IInv ==
  /\ TypeOK
  /\ LocalState
  /\ TableSound
  /\ RelayAttached
  /\ SessionIsolation
  /\ LeakOnlyByOverwrite

LEMMA InitIInv == Init => IInv
<1> SUFFICES ASSUME Init PROVE IInv
  OBVIOUS
<1>1. TypeOK
  BY DEF Init, TypeOK, HandlerState, RelayState
<1>2. \A d \in Datagram : ~Registered(d)
  BY DEF Init, Registered
<1>3. LocalState
  BY <1>2 DEF Init, LocalState
<1>4. TableSound /\ RelayAttached /\ SessionIsolation /\ LeakOnlyByOverwrite
  BY <1>2
  DEF Init, TableSound, RelayAttached, SessionIsolation, LeakOnlyByOverwrite
<1> QED
  BY <1>1, <1>3, <1>4 DEF IInv

(***************************************************************************)
(* The one way in which the map loses a session, Remove, keeps the map     *)
(* sound and leaks no socket.  It is used by the cleanup loop and, through *)
(* closeSession, by handlers and relays; relays that end with it are the   *)
(* set R, handlers that end with it the set H.                             *)
(***************************************************************************)
Evicts(cs, R, H) ==
  /\ Remove(cs)
  /\ \A s \in R : relay[s] = "evict" /\ Source[s] \in cs
  /\ \A d \in H : handler[d] = "evict"
  /\ relay' = [s \in Datagram |-> IF s \in R THEN "done" ELSE relay[s]]
  /\ handler' = [d \in Datagram |-> IF d \in H THEN "done" ELSE handler[d]]
  /\ UNCHANGED <<loop, cleaner, ctxDone, dnsAddr, stale, found, sentTo, statVars>>

LEMMA RemoveKeepsIInv ==
  ASSUME IInv, NEW cs \in SUBSET Client, NEW R \in SUBSET Datagram,
         NEW H \in SUBSET Datagram, Evicts(cs, R, H)
  PROVE  IInv'
<1> USE ConstantsAssumption
<1>1. TypeOK'
  BY DEF IInv, TypeOK, Evicts, Remove, statVars, HandlerState, RelayState
<1>2. \A d \in Datagram : Registered(d)' <=> Registered(d)
  BY DEF IInv, TypeOK, LocalState, Registered, Evicts
<1>3. LocalState'
  BY <1>2 DEF IInv, TypeOK, LocalState, TableSound, Evicts, Remove, Registered
<1>4. TableSound'
  BY <1>2 DEF IInv, TypeOK, TableSound, Evicts, Remove
<1>5. RelayAttached'
  BY DEF IInv, TypeOK, LocalState, TableSound, RelayAttached, Evicts, Remove
<1>6. SessionIsolation'
  BY <1>2 DEF IInv, TypeOK, SessionIsolation, Evicts, Remove
<1>7. LeakOnlyByOverwrite'
  BY <1>2 DEF IInv, TypeOK, LeakOnlyByOverwrite, Evicts, Remove
<1> QED
  BY <1>1, <1>3, <1>4, <1>5, <1>6, <1>7 DEF IInv

LEMMA EvictionsKeepIInv ==
  ASSUME IInv,
         \/ \E d \in Datagram : HandlerEvicts(d)
         \/ \E s \in Datagram : RelayEvicts(s)
         \/ Cleanup
  PROVE  IInv'
<1> USE ConstantsAssumption
<1>1. /\ relay \in [Datagram -> RelayState]
      /\ handler \in [Datagram -> HandlerState]
      /\ {} \in SUBSET Datagram
  BY DEF IInv, TypeOK
<1>2. ASSUME NEW d \in Datagram, HandlerEvicts(d) PROVE IInv'
  <2>1. {Source[d]} \in SUBSET Client /\ {d} \in SUBSET Datagram
    OBVIOUS
  <2>2. Evicts({Source[d]}, {}, {d})
    BY <1>1, <1>2
    DEF Evicts, HandlerEvicts, HandlerGoes, closeSession, ctlVars
  <2> QED
    BY <1>1, <2>1, <2>2, RemoveKeepsIInv
<1>3. ASSUME NEW s \in Datagram, RelayEvicts(s) PROVE IInv'
  <2>1. {Source[s]} \in SUBSET Client /\ {s} \in SUBSET Datagram
    OBVIOUS
  <2>2. Evicts({Source[s]}, {s}, {})
    BY <1>1, <1>3
    DEF Evicts, RelayEvicts, RelayGoes, closeSession, ctlVars, handlerVars
  <2> QED
    BY <1>1, <2>1, <2>2, RemoveKeepsIInv
<1>4. ASSUME Cleanup PROVE IInv'
  <2> DEFINE cs == {c \in Client : sessions[c] \in stale}
  <2>1. cs \in SUBSET Client
    OBVIOUS
  <2>2. Evicts(cs, {}, {})
    BY <1>1, <1>4, SMTT(30) DEF Evicts, Cleanup, ctlVars, handlerVars
  <2> QED
    BY <1>1, <2>1, <2>2, RemoveKeepsIInv
<1> QED
  BY <1>2, <1>3, <1>4

(***************************************************************************)
(* One step per action.  The actions that evict reduce to the lemma above. *)
(***************************************************************************)
LEMMA StepIInv == IInv /\ [Next]_vars => IInv'
<1> SUFFICES ASSUME IInv, [Next]_vars PROVE IInv'
  OBVIOUS
<1> USE ConstantsAssumption DEF HandlerState, RelayState
<1> USE DEF IInv, TypeOK, LocalState, TableSound, RelayAttached,
      SessionIsolation, LeakOnlyByOverwrite, Registered, ctlVars, tableVars,
      handlerVars, statVars
<1>1. ASSUME NEW d \in Datagram, Receive(d) PROVE IInv'
  BY <1>1 DEF Receive, HandlerGoes
<1>2. ASSUME NEW d \in Datagram, Lookup(d) PROVE IInv'
  BY <1>2 DEF Lookup, HandlerGoes
<1>3. ASSUME NEW d \in Datagram, ForwardOk(d) PROVE IInv'
  BY <1>3 DEF ForwardOk, HandlerGoes, Address
<1>4. ASSUME NEW d \in Datagram, ForwardFails(d) PROVE IInv'
  BY <1>4 DEF ForwardFails, HandlerGoes
<1>5. ASSUME NEW d \in Datagram, Touch(d) PROVE IInv'
  BY <1>5 DEF Touch, HandlerGoes
<1>6. ASSUME NEW d \in Datagram, DialOk(d) PROVE IInv'
  BY <1>6 DEF DialOk, HandlerGoes, Target, Address
<1>7. ASSUME NEW d \in Datagram, DialFails(d) PROVE IInv'
  BY <1>7 DEF DialFails, HandlerGoes
<1>8. ASSUME NEW d \in Datagram, Register(d) PROVE IInv'
  BY <1>8 DEF Register, HandlerGoes
<1>9. ASSUME NEW d \in Datagram, Spawn(d) PROVE IInv'
  BY <1>9 DEF Spawn, HandlerGoes
<1>10. ASSUME NEW d \in Datagram, RelayRead(d) PROVE IInv'
  BY <1>10 DEF RelayRead, RelayGoes
<1>11. ASSUME NEW d \in Datagram, RelayReadFails(d) PROVE IInv'
  BY <1>11 DEF RelayReadFails, RelayGoes
<1>12. ASSUME NEW d \in Datagram, RelayWrite(d) PROVE IInv'
  BY <1>12 DEF RelayWrite, RelayGoes
<1>13. ASSUME NEW d \in Datagram, RelayWriteFails(d) PROVE IInv'
  BY <1>13 DEF RelayWriteFails, RelayGoes
<1>14. ASSUME NEW d \in Datagram, RelayCounts(d) PROVE IInv'
  BY <1>14 DEF RelayCounts, RelayGoes
<1>15. ASSUME NEW d \in Datagram, Ages(d) PROVE IInv'
  BY <1>15 DEF Ages
<1>16. ASSUME Poll PROVE IInv'
  BY <1>16 DEF Poll
<1>17. ASSUME ReadTimesOut PROVE IInv'
  BY <1>17 DEF ReadTimesOut
<1>18. ASSUME Cancel PROVE IInv'
  BY <1>18 DEF Cancel
<1>19. ASSUME CleanerReturns PROVE IInv'
  BY <1>19 DEF CleanerReturns
<1>20. ASSUME NEW a \in DnsServer, SetDNSAddr(a) PROVE IInv'
  BY <1>20 DEF SetDNSAddr
<1>21. CASE \/ \E d \in Datagram : HandlerEvicts(d)
            \/ \E s \in Datagram : RelayEvicts(s)
            \/ Cleanup
  BY <1>21, EvictionsKeepIInv
<1>22. CASE UNCHANGED vars
  BY <1>22 DEF vars
<1> QED
  BY <1>1, <1>2, <1>3, <1>4, <1>5, <1>6, <1>7, <1>8, <1>9, <1>10, <1>11, <1>12,
     <1>13, <1>14, <1>15, <1>16, <1>17, <1>18, <1>19, <1>20, <1>21, <1>22
  DEF Next, HandlerStep, RelayStep

LEMMA Invariance == Spec => []IInv
  BY InitIInv, StepIInv, PTL DEF Spec

\* Every variable of the proxy keeps its type.
THEOREM TypeCorrect == Spec => []TypeOK
  BY Invariance, PTL DEF IInv

\* The session map holds open sessions of the right client only.
THEOREM TableIsSound == Spec => []TableSound
  BY Invariance, PTL DEF IInv

\* A session in the map always has a relay, or its handler starts one.
THEOREM RelaysAttached == Spec => []RelayAttached
  BY Invariance, PTL DEF IInv

\* Handlers forward only on sockets of their own client.
THEOREM SessionsIsolated == Spec => []SessionIsolation
  BY Invariance, PTL DEF IInv

\* A socket is lost open only when two handlers of a client both register.
THEOREM LeaksAreOverwrites == Spec => []LeakOnlyByOverwrite
  BY Invariance, PTL DEF IInv

-----------------------------------------------------------------------------
(***************************************************************************)
(* Refinement of SessionTable and the counters.  Both follow from one      *)
(* split of the steps: a registration, an eviction, or a step that leaves  *)
(* the map and the sockets of registered sessions alone.                   *)
(***************************************************************************)
RegisteredSet == {d \in Datagram : Registered(d)}
CountedSet == {d \in Datagram : handler[d] = "done" /\ sentTo[d] # None}

AccountingInv ==
  /\ Accounting
  /\ IsFiniteSet(RegisteredSet)
  /\ IsFiniteSet(CountedSet)

Eviction ==
  \/ \E d \in Datagram : HandlerEvicts(d)
  \/ \E s \in Datagram : RelayEvicts(s)
  \/ Cleanup

Quiet ==
  /\ sessions' = sessions
  /\ \A d \in Datagram : Registered(d)' <=> Registered(d)
  /\ \A d \in Datagram : Registered(d) => conn'[d] = conn[d]
  /\ sessionCount' = sessionCount

LEMMA StepKinds ==
  ASSUME IInv, [Next]_vars
  PROVE  (\E d \in Datagram : Register(d)) \/ Eviction \/ Quiet
<1> USE DEF IInv, TypeOK, LocalState, Registered, Quiet, HandlerGoes, RelayGoes,
      ctlVars, tableVars, handlerVars, statVars
<1>1. ASSUME NEW d \in Datagram,
             \/ Receive(d) \/ Lookup(d) \/ ForwardOk(d) \/ ForwardFails(d)
             \/ Touch(d) \/ DialFails(d) \/ Ages(d)
      PROVE  Quiet
  BY <1>1 DEF Receive, Lookup, ForwardOk, ForwardFails, Touch, DialFails, Ages
<1>2. ASSUME NEW d \in Datagram, DialOk(d) \/ Spawn(d) PROVE Quiet
  BY <1>2 DEF DialOk, Spawn
<1>3. ASSUME NEW s \in Datagram,
             \/ RelayRead(s) \/ RelayReadFails(s) \/ RelayWrite(s)
             \/ RelayWriteFails(s) \/ RelayCounts(s)
      PROVE  Quiet
  BY <1>3
  DEF RelayRead, RelayReadFails, RelayWrite, RelayWriteFails, RelayCounts
<1>4. ASSUME \/ Poll \/ ReadTimesOut \/ Cancel \/ CleanerReturns
             \/ \E a \in DnsServer : SetDNSAddr(a)
      PROVE  Quiet
  BY <1>4 DEF Poll, ReadTimesOut, Cancel, CleanerReturns, SetDNSAddr
<1>5. CASE UNCHANGED vars
  BY <1>5 DEF vars
<1> QED
  BY <1>1, <1>2, <1>3, <1>4, <1>5 DEF Next, HandlerStep, RelayStep, Eviction

LEMMA RegisterOpens ==
  ASSUME IInv, NEW d \in Datagram, Register(d)
  PROVE  Table!Open(d)
<1> USE ConstantsAssumption DEF Register, HandlerGoes, IInv, TypeOK
<1>1. ~Registered(d) /\ Registered(d)'
  BY DEF LocalState, Registered
<1>2. \A q \in Datagram \ {d} : Registered(q)' <=> Registered(q)
  BY DEF Registered
<1>3. ASSUME NEW q \in Datagram, sessions[Source[q]] = q
      PROVE  conn[q] = "open"
  <2>1. Source[q] \in Client /\ q # None
    OBVIOUS
  <2> QED
    BY <1>3, <2>1 DEF TableSound
<1>4. Phase[d] = "new" /\ Phase'[d] = "live"
  BY <1>1 DEF Phase
<1>5. ASSUME NEW q \in Datagram, q # d
      PROVE  Phase'[q] = IF Source[q] = Source[d] /\ Phase[q] = "live"
                           THEN "orphan" ELSE Phase[q]
  BY <1>2, <1>3, <1>5 DEF Phase
<1> QED
  BY <1>4, <1>5 DEF Table!Open, Phase

LEMMA EvictionCloses ==
  ASSUME IInv, Eviction
  PROVE  Table!Next
<1> USE ConstantsAssumption DEF IInv, TypeOK
<1>1. PICK cs \in SUBSET Client : Remove(cs)
  BY DEF Eviction, HandlerEvicts, RelayEvicts, closeSession, Cleanup
<1>2. \A q \in Datagram : Registered(q)' <=> Registered(q)
  BY DEF Eviction, HandlerEvicts, RelayEvicts, Cleanup, Registered, LocalState,
         HandlerGoes, RelayGoes, handlerVars
<1> DEFINE S == {q \in Datagram : Phase[q] = "live" /\ Source[q] \in cs}
<1>3. ASSUME NEW q \in Datagram
      PROVE  Phase'[q] = IF q \in S THEN "closed" ELSE Phase[q]
  <2>1. q \in S <=> sessions[Source[q]] = q /\ Source[q] \in cs
    BY DEF Phase, TableSound
  <2>2. CASE q \in S
    BY <1>1, <1>2, <2>1, <2>2 DEF Remove, Phase, TableSound
  <2>3. CASE q \notin S
    BY <1>1, <1>2, <2>1, <2>3 DEF Remove, Phase, TableSound
  <2> QED
    BY <2>2, <2>3
<1>4. Phase' = [q \in Datagram |-> IF q \in S THEN "closed" ELSE Phase[q]]
  BY <1>3 DEF Phase
<1>5. Table!Close(S)
  BY <1>4 DEF Table!Close
<1> QED
  BY <1>5 DEF Table!Next

\* The proxy implements the life cycle that SessionTable specifies.
THEOREM Refinement == Spec => ImplementsTable
<1>1. Init => Table!Init
  BY DEF Init, Table!Init, Phase, Registered
<1>2. IInv /\ [Next]_vars => [Table!Next]_Phase
  <2> SUFFICES ASSUME IInv, [Next]_vars PROVE [Table!Next]_Phase
    OBVIOUS
  <2>1. CASE \E d \in Datagram : Register(d)
    BY <2>1, RegisterOpens DEF Table!Next
  <2>2. CASE Eviction
    BY <2>2, EvictionCloses
  <2>3. CASE Quiet
    BY <2>3 DEF Quiet, Phase
  <2> QED
    BY <2>1, <2>2, <2>3, StepKinds
<1> QED
  BY <1>1, <1>2, Invariance, PTL DEF Spec, ImplementsTable, Table!Spec

(***************************************************************************)
(* The counters: each step adds nothing to the set a counter counts, or    *)
(* adds one new element and increments the counter.                        *)
(***************************************************************************)
LEMMA SessionCounted ==
  ASSUME IInv, [Next]_vars
  PROVE  \/ /\ RegisteredSet' = RegisteredSet
            /\ sessionCount' = sessionCount
         \/ \E d \in Datagram \ RegisteredSet :
              /\ RegisteredSet' = RegisteredSet \cup {d}
              /\ sessionCount' = sessionCount + 1
<1>1. ASSUME NEW d \in Datagram, Register(d)
      PROVE  /\ d \notin RegisteredSet
             /\ RegisteredSet' = RegisteredSet \cup {d}
             /\ sessionCount' = sessionCount + 1
  BY <1>1
  DEF Register, HandlerGoes, IInv, TypeOK, LocalState, Registered, RegisteredSet
<1>2. CASE Eviction
  BY <1>2
  DEF Eviction, HandlerEvicts, RelayEvicts, Cleanup, HandlerGoes, RelayGoes,
      IInv, TypeOK, LocalState, Registered, RegisteredSet, handlerVars, statVars
<1>3. CASE Quiet
  BY <1>3 DEF Quiet, RegisteredSet
<1> QED
  BY <1>1, <1>2, <1>3, StepKinds

LEMMA PacketCounted ==
  ASSUME IInv, [Next]_vars
  PROVE  \/ /\ CountedSet' = CountedSet
            /\ packetsOut' = packetsOut
         \/ \E d \in Datagram \ CountedSet :
              /\ CountedSet' = CountedSet \cup {d}
              /\ packetsOut' = packetsOut + 1
<1> USE DEF IInv, TypeOK, LocalState, CountedSet, HandlerGoes, ctlVars,
      handlerVars, statVars
<1>1. ASSUME NEW d \in Datagram, Touch(d) \/ Spawn(d)
      PROVE  /\ d \notin CountedSet
             /\ CountedSet' = CountedSet \cup {d}
             /\ packetsOut' = packetsOut + 1
  BY <1>1 DEF Touch, Spawn
<1>2. ASSUME NEW d \in Datagram,
             \/ Receive(d) \/ Lookup(d) \/ ForwardOk(d) \/ ForwardFails(d)
             \/ HandlerEvicts(d) \/ DialOk(d) \/ DialFails(d) \/ Register(d)
      PROVE  CountedSet' = CountedSet /\ packetsOut' = packetsOut
  BY <1>2 DEF Receive, Lookup, ForwardOk, ForwardFails, HandlerEvicts, DialOk,
      DialFails, Register
<1>3. ASSUME \/ \E s \in Datagram : \/ RelayRead(s) \/ RelayStep(s) \/ Ages(s)
             \/ \E a \in DnsServer : SetDNSAddr(a)
             \/ Poll \/ ReadTimesOut \/ Cancel \/ Cleanup \/ CleanerReturns
             \/ UNCHANGED vars
      PROVE  CountedSet' = CountedSet /\ packetsOut' = packetsOut
  BY <1>3 DEF RelayRead, RelayStep, RelayReadFails, RelayWrite, RelayWriteFails,
      RelayCounts, RelayEvicts, Ages, SetDNSAddr, Poll, ReadTimesOut, Cancel,
      Cleanup, CleanerReturns, vars
<1> QED
  BY <1>1, <1>2, <1>3 DEF Next, HandlerStep

\* stats.Sessions and stats.PacketsOut are exact, however handlers interleave.
THEOREM CountersExact == Spec => []Accounting
<1>1. Init => AccountingInv
  <2> SUFFICES ASSUME Init PROVE AccountingInv
    OBVIOUS
  <2>1. RegisteredSet = {} /\ CountedSet = {}
    BY DEF Init, RegisteredSet, CountedSet, Registered
  <2> QED
    BY <2>1, FS_EmptySet
    DEF Init, AccountingInv, Accounting, RegisteredSet, CountedSet
<1>2. IInv /\ AccountingInv /\ [Next]_vars => AccountingInv'
  <2> SUFFICES ASSUME IInv, AccountingInv, [Next]_vars PROVE AccountingInv'
    OBVIOUS
  <2>1. /\ sessionCount' = Cardinality(RegisteredSet')
        /\ IsFiniteSet(RegisteredSet')
    BY SessionCounted, FS_AddElement DEF AccountingInv, Accounting, RegisteredSet
  <2>2. /\ packetsOut' = Cardinality(CountedSet')
        /\ IsFiniteSet(CountedSet')
    BY PacketCounted, FS_AddElement DEF AccountingInv, Accounting, CountedSet
  <2> QED
    BY <2>1, <2>2 DEF AccountingInv, Accounting, RegisteredSet, CountedSet
<1> QED
  BY <1>1, <1>2, Invariance, PTL DEF Spec, AccountingInv
=============================================================================
