-------------------------- MODULE MCClientLifecycle --------------------------
(* Instances of ClientLifecycle for TLC: sessions are interchangeable.      *)
EXTENDS ClientLifecycle, TLC

Symmetry == Permutations(Sessions)
=============================================================================
