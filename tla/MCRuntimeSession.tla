--------------------------- MODULE MCRuntimeSession ---------------------------
(* Small instances of RuntimeSession.                                       *)
EXTENDS RuntimeSession, TLC

CONSTANTS n1, n2, e1, e2, box, bang, x0, x1, alice, bob

ActorSymmetry == Permutations({alice, bob})

MCNodeIds == {n1, n2}
MCEdgeIds == {e1, e2}
MCSources == {box}
MCSinks == {box}

Edge(src, dst, feedback) == [src |-> src, dst |-> dst, feedback |-> feedback]
EmptyGraph == [nodes |-> <<>>, edges |-> <<>>, rev |-> 1]
Pair == [nodes |-> (n1 :> box @@ n2 :> box), edges |-> (e1 :> Edge(n1, n2, FALSE)), rev |-> 1]
Loop == [Pair EXCEPT !.edges = @ @@ (e2 :> Edge(n2, n1, TRUE))]

Doc(g) == [graph |-> g, view |-> <<>>, patches |-> [t \in PatchIds |-> EmptyGraph]]

MCProjects == {Doc(Pair), Doc(Loop)}

AddNode(n, c, view) == [op |-> "nodeAdd", node |-> n, content |-> c, view |-> view]
MoveNode(n, from, to) == [op |-> "nodeMove", node |-> n, from |-> from, to |-> to]
DeleteNode(n) == [op |-> "nodeDelete", node |-> n]
Connect(i, e) == [op |-> "edgeConnect", edge |-> i, spec |-> e]
Disconnect(i) == [op |-> "edgeDisconnect", edge |-> i]

MCChangeSets ==
    {<<Connect(e2, Edge(n2, n1, FALSE))>>,
     <<Connect(e1, Edge(n1, n2, FALSE))>>,
     <<Disconnect(e1)>>,
     <<DeleteNode(n2), AddNode(n2, bang, NoView)>>,
     <<MoveNode(n1, AnyView, x1), Connect(e2, Edge(n2, n1, TRUE))>>}
MCViewPatches ==
    {<<[op |-> "move", node |-> n1, from |-> x0, to |-> x1]>>,
     <<[op |-> "set", node |-> n1, from |-> AnyView, to |-> x0],
       [op |-> "set", node |-> n2, from |-> AnyView, to |-> x1]>>}
MCFragments ==
    {[nodes |-> (n1 :> box), edges |-> <<>>, view |-> (n1 :> x1)]}
=============================================================================
