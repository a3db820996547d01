----------------------------- MODULE MCUdpProxy -----------------------------
(* A small instance of UdpProxy: a STUN client that sends a datagram of its  *)
(* own and a query, and a client that only queries.                          *)
EXTENDS UdpProxy, TLC

CONSTANTS c1, c2, d1, d2, d3, dns1

MCClient == {c1, c2}
MCDatagram == {d1, d2, d3}
MCSource == (d1 :> c1) @@ (d2 :> c1) @@ (d3 :> c2)
MCQuery == {d2, d3}
MCStunClient == {c1}
MCDnsServer == {dns1}
=============================================================================
