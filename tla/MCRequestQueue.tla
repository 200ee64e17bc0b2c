--------------------------- MODULE MCRequestQueue ---------------------------
(* Instances of RequestQueue for TLC.  Clients and messages may be permuted *)
(* where only safety is asked.                                              *)
EXTENDS RequestQueue, TLC

QueueSymmetry == Permutations(Clients) \cup Permutations(Messages)
=============================================================================
