---------------------------- MODULE MCMultiplexer ----------------------------
(* Instances of Multiplexer for TLC.  Clients of one protocol may be        *)
(* permuted where only safety is asked.                                     *)
EXTENDS Multiplexer, TLC

MuxSymmetry == Permutations(TcpClients) \cup Permutations(UdpClients)
=============================================================================
