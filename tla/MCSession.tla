----------------------------- MODULE MCSession -----------------------------
(* Session on a few tabs and windows. *)
EXTENDS Session, TLC

\* Tabs are interchangeable.
Symmetry == Permutations(Tabs)
=============================================================================
