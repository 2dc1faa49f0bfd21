----------------------------- MODULE MCTunConfig -----------------------------
(* Model checking of TunConfig: handlers are interchangeable. *)
EXTENDS TunConfig, TLC

Symmetry == Permutations(Handlers)
=============================================================================
