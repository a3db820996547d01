----------------------------- MODULE MCOptinetd -----------------------------
(* A small instance of Optinetd.                                             *)
EXTENDS Optinetd

CONSTANTS s1, s2, c1, c2, h1, h2, h3, h4, h5

MCServers == {s1, s2}
MCLatencies == {1}
MCCallers == {c1, c2}
MCHosts == {h1, h2, h3, h4, h5}
NoCallers == {}
=============================================================================
