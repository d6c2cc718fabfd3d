-------------------------------- MODULE MCHar --------------------------------
(***************************************************************************)
(* Instances of HarRecorder: a request of two hops, recordings that follow *)
(* each other, bodies larger than the cap and together than the budget.    *)
(***************************************************************************)
EXTENDS HarRecorder

\* No body, and two bytes that may be cut after the first: raw data, or a form
\* of two values.
MCPosts == {[size |-> 0, cuts |-> {0}], [size |-> 2, cuts |-> 0 .. 2]}
=============================================================================
