----------------------------- MODULE Snapshots -----------------------------
(***************************************************************************)
(* What the monitor promises the readers of its metrics: a result is a     *)
(* value.  Whoever takes one, from the monitor or from the queue of its    *)
(* subscription, has a copy of the metrics and the points as they were     *)
(* when it was published, and reads the points of that copy, however       *)
(* slowly and whatever is measured meanwhile.  There is no memory here     *)
(* that two results could share.                                           *)
(***************************************************************************)
EXTENDS Integers, Sequences

CONSTANTS
  Consumer,     \* the readers
  Measurement,  \* what may be measured
  Score,        \* Score[m]: the score of a measurement
  MaxHistory,   \* the points that a result keeps
  ChanSize      \* the results that wait for a subscriber

VARIABLES
  metrics,      \* the metrics published last
  points,       \* the points published with them
  subscribers,  \* the readers that have a queue
  queue,        \* the results that wait for each of them
  taken,        \* the result a reader is reading, if it is reading one
  got           \* the points it has read

vars == <<metrics, points, subscribers, queue, taken, got>>

Init ==
  /\ metrics = [update |-> 0, latency |-> 0, jitter |-> 0, loss |-> 0, score |-> 0,
                min |-> 0, max |-> 0]
  /\ points = << >>
  /\ subscribers = {}
  /\ queue = [c \in Consumer |-> << >>]
  /\ taken = [c \in Consumer |-> {}]
  /\ got = [c \in Consumer |-> << >>]

\* All points but the oldest, when they have become too many.
Kept(s) == IF Len(s) > MaxHistory THEN Tail(s) ELSE s

Values(s) == {s[i] : i \in 1 .. Len(s)}
Least(s) == CHOOSE x \in Values(s) : \A y \in Values(s) : x <= y
Greatest(s) == CHOOSE x \in Values(s) : \A y \in Values(s) : x >= y

\* A measurement makes a result of its own, for every queue that has room.
Publish(m) ==
  /\ points' = Kept(Append(points, m.latency))
  /\ metrics' = [update |-> metrics.update + 1, latency |-> m.latency,
                 jitter |-> m.jitter, loss |-> m.loss, score |-> Score[m],
                 min |-> Least(points'), max |-> Greatest(points')]
  /\ queue' = [c \in Consumer |->
                 IF c \in subscribers /\ Len(queue[c]) < ChanSize
                   THEN Append(queue[c], [metrics |-> metrics', points |-> points'])
                   ELSE queue[c]]
  /\ UNCHANGED <<subscribers, taken, got>>

Subscribe(c) ==
  /\ c \notin subscribers
  /\ subscribers' = subscribers \cup {c}
  /\ UNCHANGED <<metrics, points, queue, taken, got>>

Receive(c) ==
  /\ taken[c] = {} /\ queue[c] # << >>
  /\ taken' = [taken EXCEPT ![c] = {Head(queue[c])}]
  /\ queue' = [queue EXCEPT ![c] = Tail(@)]
  /\ UNCHANGED <<metrics, points, subscribers, got>>

GetMetrics(c) ==
  /\ taken[c] = {}
  /\ taken' = [taken EXCEPT ![c] = {[metrics |-> metrics, points |-> points]}]
  /\ UNCHANGED <<metrics, points, subscribers, queue, got>>

\* The next point of the copy.
ReadPoint(c) ==
  /\ \E r \in taken[c] :
       /\ Len(got[c]) < Len(r.points)
       /\ got' = [got EXCEPT ![c] = Append(@, r.points[Len(@) + 1])]
  /\ UNCHANGED <<metrics, points, subscribers, queue, taken>>

\* All of the copy has been read.
Finish(c) ==
  /\ \E r \in taken[c] : got[c] = r.points
  /\ taken' = [taken EXCEPT ![c] = {}]
  /\ got' = [got EXCEPT ![c] = << >>]
  /\ UNCHANGED <<metrics, points, subscribers, queue>>

Next ==
  \/ \E m \in Measurement : Publish(m)
  \/ \E c \in Consumer :
       Subscribe(c) \/ Receive(c) \/ GetMetrics(c) \/ ReadPoint(c) \/ Finish(c)

Spec == Init /\ [][Next]_vars
=============================================================================
