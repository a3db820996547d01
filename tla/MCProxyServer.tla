--------------------------- MODULE MCProxyServer ---------------------------
(* Two connections and two callers of GetStats.                              *)
EXTENDS ProxyServer

CONSTANTS c1, c2, r1, r2

MCConn == {c1, c2}
MCCaller == {r1, r2}
=============================================================================
