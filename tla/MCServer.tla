------------------------------ MODULE MCServer ------------------------------
(***************************************************************************)
(* Model checking of Server: the clients are interchangeable.              *)
(***************************************************************************)
EXTENDS ServerInvariant, TLC

Symmetry == Permutations(Conns)
=============================================================================
