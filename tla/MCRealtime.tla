------------------------------ MODULE MCRealtime ------------------------------
(* Small instances of Realtime.                                             *)
EXTENDS Realtime, TLC

CONSTANTS k1, k2, w1, w2

TwoIssuers == [k \in Commands |-> IF k = k1 THEN w1 ELSE w2]
OneIssuer == [k \in Commands |-> w1]

\* Sockets are interchangeable.
SocketSymmetry == Permutations(Conns)
=============================================================================
