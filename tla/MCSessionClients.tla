--------------------------- MODULE MCSessionClients ---------------------------
(* Small instances of SessionClients: one client works from snapshots while *)
(* another actor edits, and both undo and redo.                             *)
EXTENDS SessionClients, TLC

CONSTANTS n1, n2, e1, box, bang, p1, x0, x1, alice, bob

MCSources == {box}
Edge(src, dst, feedback) == [src |-> src, dst |-> dst, feedback |-> feedback]
One == [nodes |-> (n1 :> box), edges |-> <<>>, rev |-> 1]
MCProjects == {[graph |-> One, view |-> <<>>, patches |-> [t \in PatchIds |-> One]]}
MCChangeSets ==
    {<<[op |-> "nodeMove", node |-> n1, from |-> AnyView, to |-> x1]>>,
     <<[op |-> "edgeConnect", edge |-> e1, spec |-> Edge(n1, n2, FALSE)]>>}
MCViewPatches == {<<[op |-> "move", node |-> n1, from |-> x0, to |-> x1]>>}
=============================================================================
