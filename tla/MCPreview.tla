------------------------------ MODULE MCPreview ------------------------------
(* A small instance of Preview: two sessions of one process.               *)
EXTENDS Preview, TLC

\* Sessions are interchangeable, and so are handlers in flight.
SessionSymmetry == Permutations(Sessions) \cup Permutations(Requests)
=============================================================================
