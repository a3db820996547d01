---------------------------- MODULE SessionTable ----------------------------
(***************************************************************************)
(* What the UDP proxy's session map promises: the life of a session.  A    *)
(* session is new, then live (the map holds it), then either closed, or    *)
(* orphaned when a newer session of the same client takes its place.       *)
(* Closed and orphaned sessions never come back to the map.                *)
(***************************************************************************)
CONSTANTS
  Session,   \* sessions, opened or not
  Owner      \* Owner[s]: the client of session s

VARIABLE phase

Init == phase = [s \in Session |-> "new"]

\* A new session takes the place of the live one of its client.
Open(s) ==
  /\ phase[s] = "new"
  /\ phase' = [q \in Session |->
                 IF q = s THEN "live"
                 ELSE IF Owner[q] = Owner[s] /\ phase[q] = "live" THEN "orphan"
                 ELSE phase[q]]

\* Live sessions are closed and leave the map.
Close(S) ==
  /\ \A s \in S : phase[s] = "live"
  /\ phase' = [q \in Session |-> IF q \in S THEN "closed" ELSE phase[q]]

Next ==
  \/ \E s \in Session : Open(s)
  \/ \E S \in SUBSET Session : Close(S)

Spec == Init /\ [][Next]_phase
=============================================================================
