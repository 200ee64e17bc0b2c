-------------------------- MODULE MCThreadRegistry --------------------------
(* Instances of ThreadRegistry for TLC.  Clients and messages are model     *)
(* values nothing tells apart.                                              *)
EXTENDS ThreadRegistry, TLC

RegistrySymmetry == Permutations(Clients) \cup Permutations(Messages)
=============================================================================
