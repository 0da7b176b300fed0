----------------------------- MODULE MCFramework -----------------------------
(* Framework for TLC: sockets and workers are interchangeable.             *)
EXTENDS Framework, TLC

Symmetry == Permutations(Sockets) \cup Permutations(Workers)
===============================================================================
