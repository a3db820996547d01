------------------------------ MODULE Dialogue ------------------------------
(***************************************************************************)
(* What a client of internal/proxy/proxy.go may be told before its bytes   *)
(* are relayed, whatever it sends: the replies of its own protocol, each   *)
(* once and in their order.  A SOCKS5 request is answered only after the   *)
(* method, and refused only then; CONNECT has one answer; a page is        *)
(* answered with its response.  Only a request that was granted is         *)
(* relayed, and nothing is said after an answer or after the end.          *)
(***************************************************************************)
VARIABLES
  proto,  \* what the client speaks: "socks", "connect" or "http"
  stage,  \* "asking", "relay" or "closed"
  reply   \* the last reply

said == <<proto, stage, reply>>

Init ==
  /\ proto \in {"socks", "connect", "http"}
  /\ stage = "asking"
  /\ reply = "none"

\* The dialogue goes on to stage `to' after a reply.
Says(to, what) ==
  /\ stage = "asking"
  /\ stage' = to /\ reply' = what
  /\ UNCHANGED proto

Negotiate ==
  /\ proto = "socks" /\ reply = "none"
  /\ Says("asking", "method")

Refuse ==
  /\ proto = "socks" /\ reply = "method"
  /\ Says("closed", "refused")

\* The target is dialled, once the client may expect the answer.
Answer ==
  /\ \/ proto = "socks" /\ reply = "method"
     \/ proto = "connect" /\ reply = "none"
  /\ Says("relay", "ok") \/ Says("closed", "unreachable")

Respond ==
  /\ proto = "http" /\ reply = "none"
  /\ Says("closed", "ok")

\* The connection is closed without a word: nothing was read, or nothing can be
\* written.
GiveUp == Says("closed", reply)

Next == Negotiate \/ Refuse \/ Answer \/ Respond \/ GiveUp

Spec == Init /\ [][Next]_said
=============================================================================
