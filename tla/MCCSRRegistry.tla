---------------------------- MODULE MCCSRRegistry ----------------------------
(* Two users, two requests, the two condition types, two updates.          *)
EXTENDS CSRRegistry

CONSTANTS u1, u2, r1, r2

MCUsers      == {u1, u2}
MCRequests   == {r1, r2}
MCConditions == {"Approved", "Denied"}

Symmetry == Permutations(MCUsers) \cup Permutations(MCRequests)

=============================================================================
