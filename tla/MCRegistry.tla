---------------------------- MODULE MCRegistry ------------------------------
(* Instances of Registry for TLC.                                          *)
EXTENDS Registry

MCKeys == [store : Stores, strategy : Strategies]
MCSymmetry == Permutations(Calls) \cup Permutations(Strategies)
=============================================================================
