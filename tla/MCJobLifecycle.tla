-------------------------- MODULE MCJobLifecycle --------------------------
(* Small instances of JobLifecycle. *)
EXTENDS JobLifecycle

\* An analysis that finds something for every table, and one that has packets
\* to store and no flows.
SomeOutcomes == {Tables, {"packets"}}
=============================================================================
