----------------------------- MODULE MCMonitor -----------------------------
(* One consumer, which may subscribe, poll or do both in turn.               *)
EXTENDS Monitor

CONSTANT c1

MCConsumer == {c1}

\* A good and a bad network: 25 and 160 ms.
MCMeasurement == {[latency |-> 2500, jitter |-> 300, loss |-> 0],
                  [latency |-> 16000, jitter |-> 2000, loss |-> 2500]}
=============================================================================
