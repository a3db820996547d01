------------------------------ MODULE Monitor ------------------------------
(***************************************************************************)
(* The monitor (internal/monitor/monitor.go) with the measuring loop that  *)
(* feeds it (cmd/optinetd/main.go) and the consumers that read it: the     *)
(* handlers of the dashboard, which call GetMetrics, and subscribers.      *)
(*                                                                         *)
(* Every method holds the mutex for the whole of its body and is one step. *)
(* What it hands out is not a copy, though: the History of a result is a   *)
(* slice of the array that the monitor goes on appending to, and consumers *)
(* read it, point by point, after the lock has been given back.  `arrays'  *)
(* is the heap of these arrays, and a slice names its array, its first     *)
(* point and its length.                                                   *)
(*                                                                         *)
(* The histories of the latency stand for those of the jitter, which are   *)
(* kept in the same way.  The setters of the other fields, the speeds of   *)
(* the score among them, have no caller in the program.                    *)
(***************************************************************************)
EXTENDS Scores, FiniteSetsExt, Functions

CONSTANTS
  Consumer,    \* goroutines that read the metrics
  Measurement, \* what may be measured: records of a latency, a jitter and a loss
  MaxHistory,  \* Monitor.maxHistory
  ChanSize,    \* the capacity of a subscriber's channel
  MaxSpare,    \* bound: free places that append adds to a new array
  MaxUpdates,  \* bound: updates in a behaviour
  None         \* nothing measured, read or subscribed to

ASSUME MonitorAssumption ==
  /\ Measurement \subseteq [latency : Nat, jitter : Nat, loss : Nat]
  /\ MaxHistory \in Nat \ {0}
  /\ ChanSize \in Nat \ {0}
  /\ MaxSpare \in Nat
  /\ MaxUpdates \in Nat
  /\ None \notin Measurement \cup Nat

VARIABLES
  ctxDone,         \* the context has been cancelled
  loop,            \* monitoringLoop: "measure", "update", "select", "returned"
  measured,        \* what measureLatency passes to Update
  arrays,          \* the arrays allocated for the history, as far as written
  room,            \* the places behind history in its array
  history,         \* Monitor.history
  latencyHistory,  \* Monitor.latencyHistory
  metrics,         \* Monitor.metrics
  since,           \* the update after which each consumer has subscribed
  chan,            \* the channel of each subscriber
  log,             \* history: the updates that have entered it, and for each
  received,        \*   that was received the update metrics then stood at
  reading,         \* the result each consumer is reading
  got              \* the points of its History it has read

loopVars == <<ctxDone, loop, measured>>
historyVars == <<arrays, room, history, latencyHistory>>
chanVars == <<since, chan, log, received>>
readVars == <<reading, got>>
vars == <<loopVars, historyVars, metrics, chanVars, readVars>>

Slice == [array : Nat, first : Nat \ {0}, len : 0 .. MaxHistory]
Latency == {m.latency : m \in Measurement}
Metrics ==
  [update : 0 .. MaxUpdates,  \* stands for the Timestamp
   latency : Nat, jitter : Nat, loss : Nat, score : 0 .. 10000,
   min : Latency \cup {0}, max : Latency \cup {0}]
Result == [metrics : Metrics, history : Slice]

ASSUME ResultAssumption == None \notin Result

\* The type invariant.
TypeOK ==
  /\ ctxDone \in BOOLEAN
  /\ loop \in {"measure", "update", "select", "returned"}
  /\ measured \in Measurement \cup {None}
  /\ arrays \in Seq(Seq(Latency))
  /\ room \in Nat
  /\ history \in Slice
  /\ latencyHistory \in Seq(Latency) /\ Len(latencyHistory) <= MaxHistory
  /\ metrics \in Metrics
  /\ since \in [Consumer -> 0 .. MaxUpdates \cup {None}]
  /\ chan \in [Consumer -> Seq(Result)]
  /\ \A c \in Consumer : Len(chan[c]) <= ChanSize
  /\ log \in [Consumer -> Seq(1 .. MaxUpdates)]
  /\ received \in [Consumer -> Seq(0 .. MaxUpdates)]
  /\ reading \in [Consumer -> Result \cup {None}]
  /\ got \in [Consumer -> Seq(Latency)]

\* NewMonitor, and main starts the loop.
Init ==
  /\ ctxDone = FALSE /\ loop = "measure" /\ measured = None
  /\ arrays = << >> /\ room = 0
  /\ history = [array |-> 0, first |-> 1, len |-> 0]
  /\ latencyHistory = << >>
  /\ metrics = [update |-> 0, latency |-> 0, jitter |-> 0, loss |-> 0, score |-> 0,
                min |-> 0, max |-> 0]
  /\ since = [c \in Consumer |-> None]
  /\ chan = [c \in Consumer |-> << >>]
  /\ log = [c \in Consumer |-> << >>]
  /\ received = [c \in Consumer |-> << >>]
  /\ reading = [c \in Consumer |-> None]
  /\ got = [c \in Consumer |-> << >>]

-----------------------------------------------------------------------------
(* Helpers                                                                 *)

\* The points of a slice, in the array as it is now.
Points(h) ==
  IF h.len = 0 THEN << >>
  ELSE SubSeq(arrays[h.array], h.first, h.first + h.len - 1)

\* Mutant: one point too many is kept.
TrimmedLate(h) ==
  IF h.len > MaxHistory + 1 THEN [h EXCEPT !.first = @ + 1, !.len = @ - 1] ELSE h

\* history[len - maxHistory:], when the history has grown by one point.
Trimmed(h) ==
  IF h.len > MaxHistory THEN [h EXCEPT !.first = @ + 1, !.len = @ - 1] ELSE h

\* Mutant: the oldest point is dropped by moving the others forward.
RecordShifts(p) ==
  IF history.len = MaxHistory
    THEN /\ arrays' = [arrays EXCEPT ![history.array] = Append(Tail(@), p)]
         /\ UNCHANGED <<room, history>>
    ELSE /\ arrays' = Append(arrays, Append(Points(history), p))
         /\ room' = 0
         /\ history' = [array |-> Len(arrays'), first |-> 1, len |-> history.len + 1]

\* append(history, p): in place while there is room, in a new array of some
\* larger size when there is none; and the history is trimmed.
Record(p) ==
  IF room > 0
    THEN /\ arrays' = [arrays EXCEPT ![history.array] = Append(@, p)]
         /\ room' = room - 1
         /\ history' = Trimmed([history EXCEPT !.len = @ + 1])
    ELSE /\ arrays' = Append(arrays, Append(Points(history), p))
         /\ room' \in 0 .. MaxSpare
         /\ history' = Trimmed([array |-> Len(arrays'), first |-> 1,
                                len |-> history.len + 1])

\* The last MaxHistory elements.
Window(s) == SubSeq(s, Max({1, Len(s) - MaxHistory + 1}), Len(s))

\* Mutants of Notify: one blocks while a channel is full, one sends only to
\* subscribers that have nothing left to receive.
NotifyBlocks(r) ==
  LET Subscribed == {c \in Consumer : since[c] # None} IN
  /\ \A c \in Subscribed : Len(chan[c]) < ChanSize
  /\ chan' = [c \in Consumer |->
                IF c \in Subscribed THEN Append(chan[c], r) ELSE chan[c]]
  /\ log' = [c \in Consumer |->
               IF c \in Subscribed THEN Append(log[c], r.metrics.update) ELSE log[c]]

NotifyWhenIdle(r) ==
  LET Ready == {c \in Consumer : since[c] # None /\ chan[c] = << >>} IN
  /\ chan' = [c \in Consumer |-> IF c \in Ready THEN <<r>> ELSE chan[c]]
  /\ log' = [c \in Consumer |->
               IF c \in Ready THEN Append(log[c], r.metrics.update) ELSE log[c]]

\* The result goes to every subscriber whose channel has room.
Notify(r) ==
  LET Ready == {c \in Consumer : since[c] # None /\ Len(chan[c]) < ChanSize} IN
  /\ chan' = [c \in Consumer |-> IF c \in Ready THEN Append(chan[c], r) ELSE chan[c]]
  /\ log' = [c \in Consumer |->
               IF c \in Ready THEN Append(log[c], r.metrics.update) ELSE log[c]]

-----------------------------------------------------------------------------
(* monitoringLoop and Update                                               *)

Cancel ==
  /\ ~ctxDone
  /\ ctxDone' = TRUE
  /\ UNCHANGED <<loop, measured, historyVars, metrics, chanVars, readVars>>

\* measureLatency: some target was reachable.
Measured(m) ==
  /\ loop = "measure" /\ metrics.update < MaxUpdates
  /\ loop' = "update"
  /\ measured' = m
  /\ UNCHANGED <<ctxDone, historyVars, metrics, chanVars, readVars>>

\* No target was reachable, or the context was cancelled: no update.
MeasureFails ==
  /\ loop = "measure"
  /\ loop' = "select"
  /\ UNCHANGED <<ctxDone, measured, historyVars, metrics, chanVars, readVars>>

\* No speed is ever set.
Update ==
  /\ loop = "update"
  /\ loop' = "select"
  /\ measured' = None
  /\ Record(measured.latency)
  /\ latencyHistory' = Window(Append(latencyHistory, measured.latency))
  /\ metrics' = [update |-> metrics.update + 1, latency |-> measured.latency,
                 jitter |-> measured.jitter, loss |-> measured.loss,
                 score |-> ComputeScore(measured.latency, measured.jitter,
                                        measured.loss, 0, 0),
                 min |-> Min(Range(latencyHistory')),
                 max |-> Max(Range(latencyHistory'))]
  /\ Notify([metrics |-> metrics', history |-> history'])
  /\ UNCHANGED <<ctxDone, since, received, readVars>>

\* The ticker's case of the select.
Tick ==
  /\ loop = "select"
  /\ loop' = "measure"
  /\ UNCHANGED <<ctxDone, measured, historyVars, metrics, chanVars, readVars>>

LoopReturns ==
  /\ loop = "select" /\ ctxDone
  /\ loop' = "returned"
  /\ UNCHANGED <<ctxDone, measured, historyVars, metrics, chanVars, readVars>>

-----------------------------------------------------------------------------
(* The consumers                                                           *)

Subscribe(c) ==
  /\ since[c] = None
  /\ since' = [since EXCEPT ![c] = metrics.update]
  /\ UNCHANGED <<loopVars, historyVars, metrics, chan, log, received, readVars>>

Receive(c) ==
  /\ reading[c] = None /\ chan[c] # << >>
  /\ reading' = [reading EXCEPT ![c] = Head(chan[c])]
  /\ chan' = [chan EXCEPT ![c] = Tail(@)]
  /\ received' = [received EXCEPT ![c] = Append(@, metrics.update)]
  /\ UNCHANGED <<loopVars, historyVars, metrics, since, log, got>>

GetMetrics(c) ==
  /\ reading[c] = None
  /\ reading' = [reading EXCEPT ![c] = [metrics |-> metrics, history |-> history]]
  /\ UNCHANGED <<loopVars, historyVars, metrics, chanVars, got>>

\* The encoder reads the next point, without the lock.
ReadPoint(c) ==
  /\ reading[c] # None /\ Len(got[c]) < reading[c].history.len
  /\ LET h == reading[c].history IN
     got' = [got EXCEPT ![c] = Append(@, arrays[h.array][h.first + Len(@)])]
  /\ UNCHANGED <<loopVars, historyVars, metrics, chanVars, reading>>

AllRead(c) == reading[c] # None /\ Len(got[c]) = reading[c].history.len

Finish(c) ==
  /\ AllRead(c)
  /\ reading' = [reading EXCEPT ![c] = None]
  /\ got' = [got EXCEPT ![c] = << >>]
  /\ UNCHANGED <<loopVars, historyVars, metrics, chanVars>>

-----------------------------------------------------------------------------

LoopStep ==
  \/ \E m \in Measurement : Measured(m)
  \/ MeasureFails
  \/ Update

Next ==
  \/ Cancel
  \/ LoopStep
  \/ Tick
  \/ LoopReturns
  \/ \E c \in Consumer :
       Subscribe(c) \/ Receive(c) \/ GetMetrics(c) \/ ReadPoint(c) \/ Finish(c)

\* Measurements time out and the loop is scheduled; the select, which picks at
\* random among its ready cases, does not for ever pick the ticker's.  No
\* consumer has to receive or to read on.
Fairness ==
  /\ WF_vars(LoopStep)
  /\ WF_vars(Tick)
  /\ SF_vars(LoopReturns)

Spec == Init /\ [][Next]_vars
FairSpec == Spec /\ Fairness

-----------------------------------------------------------------------------
(* Properties                                                              *)

NoWorse(m, n) == m.latency <= n.latency /\ m.jitter <= n.jitter /\ m.loss <= n.loss

\* What a consumer has read of a result agrees with the rest of the result,
\* although it has read the points without the lock and others were recorded
\* meanwhile: the latest point is the result's latency, and its extremes, which
\* come from another history, are those of the points.  Two results agree as
\* well: one that was measured no worse has no lower score.
ResultsCoherent ==
  \A c \in Consumer : AllRead(c) =>
    LET m == reading[c].metrics
        g == got[c] IN
    /\ Len(g) = Min({m.update, MaxHistory})
    /\ g # << >> => /\ g[Len(g)] = m.latency
                    /\ m.min = Min(Range(g))
                    /\ m.max = Max(Range(g))
    /\ m.update > 0 /\ NoWorse(metrics, m) => metrics.score >= m.score

\* Of the results l sent to a subscriber, which has received as many as r holds,
\* those that were waiting in its channel when update u was made: sent before u,
\* and not received before u.
Waiting(l, r, u) == {i \in DOMAIN l : l[i] < u /\ (i \in DOMAIN r => r[i] >= u)}

\* A subscriber gets the updates in order and each once; and of all the updates
\* since its subscription, however long ago that is, it misses only those that
\* were made while a whole channel of earlier ones was waiting for it.
LosesOnlyWhenBehind ==
  \A c \in Consumer : since[c] # None =>
    /\ \A i \in DOMAIN log[c] : log[c][i] > IF i = 1 THEN since[c] ELSE log[c][i - 1]
    /\ \A u \in since[c] + 1 .. metrics.update :
         \/ u \in Range(log[c])
         \/ Cardinality(Waiting(log[c], received[c], u)) = ChanSize

\* The monitor as Snapshots sees it: a result shows the points that its slice has
\* now.
Copy(r) == [metrics |-> r.metrics, points |-> Points(r.history)]
Queues == [c \in Consumer |-> [i \in 1 .. Len(chan[c]) |-> Copy(chan[c][i])]]
Taken == [c \in Consumer |-> IF reading[c] = None THEN {} ELSE {Copy(reading[c])}]
Subscribers == {c \in Consumer : since[c] # None}
ScoreIs == [m \in Measurement |-> ComputeScore(m.latency, m.jitter, m.loss, 0, 0)]

Copies == INSTANCE Snapshots WITH Score <- ScoreIs, points <- Points(history),
                                  subscribers <- Subscribers, queue <- Queues,
                                  taken <- Taken

\* The monitor, which hands out slices of arrays that it goes on writing to,
\* implements one that hands out copies: no step changes what a result that has
\* been published shows, wherever it is, and each point that a consumer reads is
\* the one that was published.
ImplementsSnapshots == Copies!Spec

\* The measuring loop ends after the context is cancelled: neither a
\* subscriber that has stopped receiving nor a slow consumer holds it up.
LoopStops == ctxDone ~> loop = "returned"
=============================================================================
