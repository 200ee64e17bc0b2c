--------------------------- MODULE MCServicePool ---------------------------
(* Instances of ServicePool for TLC.  Clients and messages are model values *)
(* nothing tells apart, so both may be permuted where only safety is asked. *)
EXTENDS ServicePool, TLC

PoolSymmetry == Permutations(Clients) \cup Permutations(Messages)
=============================================================================
