-------------------------- MODULE MCMapHistory --------------------------
(* A small instance of the history of the object map queue for TLC. *)
EXTENDS MapHistory, TLC

CONSTANTS c1, c2, p, r, v1, v2

OneSetting == {[shortlived |-> 2, blacklist |-> 2, consolidate |-> 1]}

\* A property with either of two values; with references to one component or both.
MixedPayloads == {p :> v1 @@ r :> {c1}, p :> v2 @@ r :> {c1, c2}}

=============================================================================
