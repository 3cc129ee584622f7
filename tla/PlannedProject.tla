---------------------------- MODULE PlannedProject ----------------------------
(***************************************************************************)
(* What planning promises: the installed plan is a schedule of the         *)
(* installed document.  It runs every object once, objects inside patches  *)
(* once per instance, and an object only after the objects that feed it    *)
(* through cables, inlets and outlets, feedback excepted.  A request       *)
(* installs a document with its schedule, or changes nothing.              *)
(*                                                                         *)
(* The definitions speak of the document as it is written and of the       *)
(* places its instances make: a place is a graph and the path of instances *)
(* that leads to it.  A point, where a cable can end, is a port of an      *)
(* object, <<"node", path, port>>, or a boundary of a patch,               *)
(* <<"pin", path, kind, key>>, which an inlet or an outlet stands for.     *)
(***************************************************************************)
EXTENDS Integers, Sequences, FiniteSets

CONSTANTS
  PatchOf(_, _),    \* the patch a node is an instance of, <<>> for none
  AliasesOf(_),     \* the names under which a boundary node is connected
  MaxDepth,         \* how deep instances may lie in instances
  None

VARIABLES document, plan

Nodes(graph) == {graph.nodes[i] : i \in 1..Len(graph.nodes)}
Edges(graph) == {graph.edges[i] : i \in 1..Len(graph.edges)}
IsBoundary(node) == node.kind \in {"inlet", "outlet"}
IsInstance(doc, node) == ~IsBoundary(node) /\ PatchOf(doc, node) # <<>>

Inside(doc, place, node) ==
  [path |-> Append(place.path, node.id), graph |-> PatchOf(doc, node)[1].graph]

\* The places d instances deep.
Nesting(doc) ==
  LET deep[d \in 0..MaxDepth] ==
        IF d = 0 THEN {[path |-> <<>>, graph |-> doc.graph]}
        ELSE UNION {{Inside(doc, place, n) : n \in {m \in Nodes(place.graph) : IsInstance(doc, m)}} :
                      place \in deep[d - 1]}
  IN deep

Places(doc) == UNION {Nesting(doc)[d] : d \in 0..MaxDepth}

\* No place lies deeper than the promise speaks of.
WithinDepth(doc) ==
  \A place \in Nesting(doc)[MaxDepth] : \A n \in Nodes(place.graph) : ~IsInstance(doc, n)

Objects(doc, place) == {n \in Nodes(place.graph) : ~IsInstance(doc, n) /\ ~IsBoundary(n)}
LeavesAt(doc, place) == {Append(place.path, n.id) : n \in Objects(doc, place)}
Leaves(doc) == UNION {LeavesAt(doc, place) : place \in Places(doc)}

Boundary(path, node) == <<"pin", path, node.kind, node.key>>

\* A boundary of an instance goes by a name when no other boundary does.
Named(place, kind, name) ==
  LET bearers == {Boundary(place.path, n) :
                    n \in {m \in Nodes(place.graph) : m.kind = kind /\ name \in AliasesOf(m)}}
  IN {pin \in bearers : bearers = {pin}}

\* The points at one end of an edge.
EndOf(doc, place, node, end, kind) ==
  CASE IsBoundary(node) -> {Boundary(place.path, node)}
    [] IsInstance(doc, node) -> Named(Inside(doc, place, node), kind, end[2])
    [] node \in Objects(doc, place) -> {<<"node", Append(place.path, node.id), end[2]>>}

Ends(doc, place, end, kind) ==
  UNION {EndOf(doc, place, n, end, kind) : n \in {m \in Nodes(place.graph) : m.id = end[1]}}

ArcsOf(doc, place, edge) ==
  {[from |-> from, to |-> to, feedback |-> edge.feedback] :
     from \in Ends(doc, place, edge.from, "outlet"), to \in Ends(doc, place, edge.to, "inlet")}
Arcs(doc) == UNION {UNION {ArcsOf(doc, place, e) : e \in Edges(place.graph)} : place \in Places(doc)}

\* The cables from objects, by way of boundaries each of which is passed once.
\* A cable is a feedback when the last of its parts that says so, one way or
\* the other, says it is.
Start(arc) == [from |-> arc.from, to |-> arc.to, passed |-> {}, feedback |-> arc.feedback]
Longer(cable, arc) ==
  [from |-> cable.from, to |-> arc.to, passed |-> cable.passed \cup {cable.to},
   feedback |-> IF arc.feedback = "unset" THEN cable.feedback ELSE arc.feedback]
Goes(cable, arc) ==
  cable.to = arc.from /\ cable.to[1] = "pin" /\ arc.to \notin cable.passed \cup {cable.to}

CablesOf(arcs) ==
  LET passing[n \in 0..Cardinality(arcs)] ==
        IF n = 0 THEN {Start(a) : a \in {b \in arcs : b.from[1] = "node"}}
        ELSE UNION {{Longer(c, a) : a \in {b \in arcs : Goes(c, b)}} : c \in passing[n - 1]}
  IN UNION {passing[n] : n \in 0..Cardinality(arcs)}

\* One object feeds another over a cable that is no feedback.  A cable that
\* comes back to the very port it left joins nothing.
Feeds(doc) ==
  {<<c.from[2], c.to[2]>> :
     c \in {d \in CablesOf(Arcs(doc)) : d.to[1] = "node" /\ d.feedback # "on" /\ d.from # d.to}}

IsSchedule(order, doc) ==
  /\ WithinDepth(doc)
  /\ {order[i] : i \in 1..Len(order)} = Leaves(doc)
  /\ \A i, j \in 1..Len(order) : order[i] = order[j] => i = j
  /\ LET feeds == Feeds(doc) IN
     \A i, j \in 1..Len(order) : <<order[i], order[j]>> \in feeds => i < j

Init == document = None /\ plan = <<>>

Install ==
  /\ document' # None
  /\ IsSchedule(plan', document')

Spec == Init /\ [][Install]_<<document, plan>>
=============================================================================
