------------------------------ MODULE MCTunnel ------------------------------
(* Tunnel with three chunks in each direction: some sent, some read and some *)
(* on their way at the same time.                                            *)
EXTENDS Tunnel

MCMaxChunks == 3
=============================================================================
