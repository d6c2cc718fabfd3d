------------------------------- MODULE MCHost -------------------------------
(* Host on small sets of connections and requests. *)
EXTENDS Host, TLC

\* Connections are interchangeable, and so are requests.
Symmetry == Permutations(Conns) \cup Permutations(Ids)
=============================================================================
