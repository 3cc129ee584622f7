------------------------------- MODULE Planning -------------------------------
(***************************************************************************)
(* Planning a project (project_current.rs) as the session asks for it      *)
(* (session.rs): a request loads a document or edits one of its graphs;    *)
(* the patches are expanded in place, cables are joined across inlets and  *)
(* outlets, the result is validated and ordered, and only then installed   *)
(* with the node definitions the session remembers.  Everything happens    *)
(* under the session lock; the steps are the turns of the code's loops:    *)
(* the nodes and edges of each graph being expanded, the pins contracted   *)
(* (in an order the code leaves open), the edges the ordering relaxes.     *)
(*                                                                         *)
(* A document is [graph, library]; a graph [nodes, edges], sequences; an   *)
(* edge [from, to, feedback] between <<node, port>>.  The id an expanded   *)
(* node gets is the path of instances it lies in.                          *)
(***************************************************************************)
EXTENDS ObjectText, FiniteSets

CONSTANTS
  Payloads,      \* [schema, version, fields, document]: what clients send to be loaded
  Creations,     \* [target, text, id, policy] requests of clients
  Deletions,     \* <<target, node id>>
  Compatible(_, _), \* external: a port of one type and flow feeds the other
  MaxSubpatchDepth, \* 16 in the code
  MaxRequests,   \* bound: requests
  Root, None

\* What is parsed is a document: sequences of nodes, each with an id, of edges
\* and of patches.
IsSequence(s) == s \in Seq(Range(s))
IsGraph(graph) ==
  /\ graph = [nodes |-> graph.nodes, edges |-> graph.edges]
  /\ IsSequence(graph.nodes) /\ IsSequence(graph.edges)
  /\ \A i \in 1..Len(graph.nodes) : "id" \in DOMAIN graph.nodes[i]
IsDocument(doc) ==
  /\ doc = [library |-> doc.library, graph |-> doc.graph]
  /\ IsGraph(doc.graph) /\ IsSequence(doc.library)
  /\ \A i \in 1..Len(doc.library) :
       /\ doc.library[i] = [id |-> doc.library[i].id, revision |-> doc.library[i].revision,
                            graph |-> doc.library[i].graph]
       /\ IsGraph(doc.library[i].graph)

ASSUME PlanningAssumption ==
  /\ MaxSubpatchDepth \in Nat
  /\ "graph" \notin DOMAIN None
  /\ \A payload \in Payloads : IsDocument(payload.document)

VARIABLES
  document,      \* the session's project document
  nodes_current, \* node definitions the session remembers
  plan,          \* the order of the execution plan
  groups,        \* its groups: execution model -> node ids
  request,       \* being planned: [document, remembered, nodes]
  phase,         \* "idle", "expand", "contract", "order"
  calls,         \* of expand_graph_current: [path, graph, refs, at], innermost last
  opened,        \* history: the graphs called for, [path, graph]
  expanded,      \* nodes of the expanded graph
  pins,          \* boundary pins
  edges,         \* edges of the expanded graph, to pins or nodes
  indegree, queue, ordered, \* topological_order_current
  relaxing,      \* positions of the edges of the last ordered node, to be counted
  requests       \* count of requests, for the bound

installed == <<document, nodes_current, plan, groups>>
expansion == <<calls, opened, expanded, pins>>
ordering == <<indegree, queue, ordered, relaxing>>
work == <<expansion, edges, ordering>>
vars == <<installed, request, phase, work, requests>>

PatchIds(library) == {library[i].id : i \in 1..Len(library)}
PatchNamed(library, id) == library[CHOOSE i \in 1..Len(library) : library[i].id = id]

\* The elements of a sequence that belong to a set, in their order.
Only(s, S) ==
  LET kept[i \in 0..Len(s)] ==
        IF i = 0 THEN <<>> ELSE IF s[i] \in S THEN Append(kept[i - 1], s[i]) ELSE kept[i - 1]
  IN kept[Len(s)]
Positions(s) == [i \in 1..Len(s) |-> i]
IdsOf(nodes) == [i \in 1..Len(nodes) |-> nodes[i].id]

(***************************************************************************)
(* Expansion of patches in place.                                          *)
(***************************************************************************)
is_boundary_node(node) == node.kind \in {"inlet", "outlet"}
is_subpatch_node(node) == node.kind = "subpatch" \/ IsPatchKind(node.kind)

\* The patch a node refers to, by parameter, by text or by kind: <<id>> or <<>>.
subpatch_ref(library, node) ==
  LET named == ParamOf(node.params, "patchRef")
      parsed == resolve_object_text(node.text)
      byKind == {id \in PatchIds(library) : node.kind = "object.project.patch." \o id}
  IN CASE named # {} -> <<(CHOOSE atom \in named : TRUE)[2]>>
       [] named = {} /\ parsed.kind = "subpatch" /\ parsed.code = "ok" ->
            <<(CHOOSE atom \in ParamOf(parsed.params, "patchRef") : TRUE)[2]>>
       [] named = {} /\ parsed.kind # "subpatch" /\ byKind # {} -> <<CHOOSE id \in byKind : TRUE>>
       [] OTHER -> <<>>

boundary_aliases(node) ==
  {node.key, node.id} \cup {atom[2] : atom \in ParamOf(node.params, "portId") \cup ParamOf(node.params, "label")}

Pin(ns, node) == <<"pin", ns, node.kind, node.key>>

\* register_boundary_node: a name two boundary nodes bear is removed, and a
\* third one brings it back.
AliasTable(graph, ns, kind, name) ==
  LET bearers == Only(graph.nodes, {n \in Range(graph.nodes) : n.kind = kind /\ name \in boundary_aliases(n)})
      entry[i \in 0..Len(bearers)] ==
        IF i = 0 THEN <<>>
        ELSE LET pin == Pin(ns, bearers[i]) IN
             IF entry[i - 1] = <<>> THEN <<pin>>
             ELSE IF entry[i - 1] = <<pin>> THEN <<pin>> ELSE <<>>
  IN entry[Len(bearers)]

\* What becomes of a node that refers to a patch: "ok" or why it cannot be expanded.
SubpatchVerdict(library, ref, stack) ==
  CASE ref = <<>> -> "subpatch.missing-ref"
    [] ref # <<>> /\ ref[1] \in Range(stack) -> "subpatch.recursion"
    [] ref # <<>> /\ ref[1] \notin Range(stack) /\ Len(stack) + 1 > MaxSubpatchDepth ->
         "subpatch.depth-exceeded"
    [] ref # <<>> /\ ref[1] \notin PatchIds(library) /\ ref[1] \notin Range(stack)
         /\ Len(stack) + 1 <= MaxSubpatchDepth -> "subpatch.missing-patch"
    [] OTHER -> "ok"

\* One end of an edge: a node, or the pin of an instance's boundary; none
\* when the instance has no such boundary.
EndAt(library, ns, node, ref, end, kind) ==
  CASE is_boundary_node(node) -> <<Pin(ns, node)>>
    [] ~is_boundary_node(node) /\ is_subpatch_node(node) /\ ref # <<>> /\ ref[1] \in PatchIds(library) ->
         AliasTable(PatchNamed(library, ref[1]).graph, Append(ns, node.id), kind, end[2])
    [] OTHER -> <<<<"node", Append(ns, end[1]), end[2]>>>>

resolve_endpoint(library, graph, ns, end, kind) ==
  LET at == {i \in 1..Len(graph.nodes) : graph.nodes[i].id = end[1]}
      node == graph.nodes[CHOOSE i \in at : TRUE]
  IN IF at = {} THEN <<<<"node", Append(ns, end[1]), end[2]>>>>
     ELSE EndAt(library, ns, node, subpatch_ref(library, node), end, kind)

validate_patch_library(library) ==
  {"subpatch.duplicate-patch-id" : i \in {j \in 1..Len(library) :
                                           \E k \in 1..(j - 1) : library[k].id = library[j].id}}

(***************************************************************************)
(* Joining cables across a boundary pin.                                   *)
(***************************************************************************)
has_incoming_boundary_edge(es, pin) == \E e \in Range(es) : e.to = pin
has_outgoing_boundary_edge(es, pin) == \E e \in Range(es) : e.from = pin

\* Faulty variant: the first part of a cable decides.
merge_source_first(source, target) ==
  [from |-> source.from, to |-> target.to,
   feedback |-> IF source.feedback = "unset" THEN target.feedback ELSE source.feedback]

\* What the target's edge does not say is taken from the source's edge.
merge_boundary_edges(source, target) ==
  [from |-> source.from, to |-> target.to,
   feedback |-> IF target.feedback = "unset" THEN source.feedback ELSE target.feedback]

\* The cables into a pin, each joined with each cable out of it.
Joined(es, pin) ==
  LET incoming == Only(es, {e \in Range(es) : e.to = pin})
      outgoing == Only(es, {e \in Range(es) : e.from = pin})
  IN FlattenSeq([i \in 1..Len(incoming) |->
                  [j \in 1..Len(outgoing) |-> merge_boundary_edges(incoming[i], outgoing[j])]])

Retained(es, pin) == Only(es, {e \in Range(es) : e.from # pin /\ e.to # pin})

\* Faulty variant: a pin on a loop of cables is passed over.
contract_skips_loops(es, pin) ==
  IF \E e \in Range(Joined(es, pin)) : e.from = e.to THEN es
  ELSE Retained(es, pin) \o Joined(es, pin)

contract(es, pin) ==
  Retained(es, pin) \o Only(Joined(es, pin), {e \in Range(Joined(es, pin)) : e.from # e.to})

Contractable(es) ==
  {pin \in pins : has_incoming_boundary_edge(es, pin) /\ has_outgoing_boundary_edge(es, pin)}

expansion_edge_to_real_edge(es) ==
  Only(es, {e \in Range(es) : e.from[1] = "node" /\ e.to[1] = "node"})

(***************************************************************************)
(* Validation of the expanded graph.                                       *)
(***************************************************************************)
object_text_diagnostics(node) ==
  LET resolution == resolve_object_text(node.text) IN
  CASE resolution.code \notin {"ok", "unresolved"} -> {resolution.code}
    [] resolution.code = "ok" /\ resolution.kind # node.kind /\ node.kind # "unresolved" ->
         {"object-text.kind-mismatch"}
    [] OTHER -> {}

\* Ports are compared by id, direction and type.
validate_node_snapshot(node, definition) ==
  LET shape(ports) == {<<p.id, p.direction, p.type>> : p \in ports} IN
  IF shape(node.ports) = shape(definition.ports) THEN {} ELSE {"node.port-snapshot"}

NodeDiagnostics(node, definitions) ==
  LET found == {d \in definitions : d.id = node.kind} IN
  object_text_diagnostics(node)
  \cup IF found = {} THEN {"node-definition.missing"}
       ELSE validate_node_snapshot(node, CHOOSE d \in found : TRUE)

find_port(nodes, end) ==
  {p \in UNION {nodes[i].ports : i \in {j \in 1..Len(nodes) : nodes[j].id = end[2]}} : p.id = end[3]}

validate_edge(nodes, e) ==
  LET source == find_port(nodes, e.from)
      target == find_port(nodes, e.to)
  IN IF source = {} \/ target = {} THEN {"graph.edge-missing-port"}
     ELSE LET s == CHOOSE p \in source : TRUE
              t == CHOOSE p \in target : TRUE
          IN {"graph.edge-direction" : x \in {y \in {s} : s.direction # "output" \/ t.direction # "input"}}
             \cup {"graph.edge-incompatible-type" : x \in {y \in {s} : ~Compatible(s, t)}}

is_feedback_edge(e) == e.feedback = "on"

\* analyze_graph_document (contracts): a cycle that no feedback breaks is an
\* error.  There is one when some nodes are all fed by one another.
Cyclic(nodes, es) ==
  \E S \in SUBSET Range(IdsOf(nodes)) :
    /\ S # {}
    /\ \A id \in S : \E e \in Range(es) : ~is_feedback_edge(e) /\ e.to[2] = id /\ e.from[2] \in S

validate_project(nodes, es, definitions) ==
  (UNION {NodeDiagnostics(nodes[i], definitions) : i \in 1..Len(nodes)})
  \cup (UNION {validate_edge(nodes, es[i]) : i \in 1..Len(es)})
  \cup {"graph.invalid-cycle" : x \in {y \in {1} : Cyclic(nodes, es)}}

(***************************************************************************)
(* Requests.                                                               *)
(***************************************************************************)
Init ==
  /\ document = None /\ nodes_current = {} /\ plan = <<>> /\ groups = {}
  /\ request = None /\ phase = "idle"
  /\ calls = <<>> /\ opened = {} /\ expanded = <<>> /\ pins = {} /\ edges = <<>>
  /\ indegree = <<>> /\ queue = <<>> /\ ordered = <<>> /\ relaxing = <<>>
  /\ requests = 0

Idle == phase' = "idle" /\ request' = None
ClearWork ==
  /\ calls' = <<>> /\ opened' = {} /\ expanded' = <<>> /\ pins' = {} /\ edges' = <<>>
  /\ indegree' = <<>> /\ queue' = <<>> /\ ordered' = <<>> /\ relaxing' = <<>>

\* A request is refused: the session keeps document, definitions and plan.
Refuse == Idle /\ ClearWork /\ UNCHANGED installed

Call(path, graph, refs) == [path |-> path, graph |-> graph, refs |-> refs, at |-> 1]

\* The patch library is validated and the expansion of the graph begins.
Begin(doc, remembered) ==
  /\ requests' = requests + 1
  /\ IF validate_patch_library(doc.library) # {} THEN Refuse
     ELSE /\ phase' = "expand"
          /\ request' = [document |-> doc, remembered |-> remembered,
                         nodes |-> normalized_node_definitions(doc.library, remembered)]
          /\ calls' = <<Call(<<>>, doc.graph, <<>>)>>
          /\ opened' = {[path |-> <<>>, graph |-> doc.graph]}
          /\ UNCHANGED <<installed, expanded, pins, edges, ordering>>

CanBegin == phase = "idle" /\ requests < MaxRequests

\* A payload is a project document, or an older request that wraps a graph and
\* a library; the version looked at is that of the document or of the graph.
is_project_document(payload) == payload.schema = "skenion.project"

project_schema_version(payload) ==
  IF is_project_document(payload) THEN payload.version
  ELSE IF "graph" \in payload.fields THEN payload.version ELSE "none"

\* A document defines no nodes of its own.
reject_top_level_nodes(payload) == "nodes" \notin payload.fields

\* The number of frames is for a run; elsewhere it must only be a number.
take_frames(payload) == "frames" \in payload.fields => payload.frames \in Nat

decode_project_document_request(payload) ==
  reject_top_level_nodes(payload) /\ take_frames(payload)

decode_project_payload(payload) ==
  /\ project_schema_version(payload) = "0.1.0"
  /\ is_project_document(payload) => decode_project_document_request(payload)

\* The contracts library refuses a document with two nodes of one id in a graph.
validate_graph_document(graph) ==
  \A i, j \in 1..Len(graph.nodes) : graph.nodes[i].id = graph.nodes[j].id => i = j
validate_project_document(doc) ==
  /\ validate_graph_document(doc.graph)
  /\ \A i \in 1..Len(doc.library) : validate_graph_document(doc.library[i].graph)

load_project(doc) ==
  IF validate_project_document(doc) THEN Begin(doc, normalized_node_definitions(doc.library, {}))
  ELSE requests' = requests + 1 /\ Refuse

load_session(payload) ==
  /\ CanBegin
  /\ IF decode_project_payload(payload) THEN load_project(payload.document)
     ELSE requests' = requests + 1 /\ Refuse

GraphOf(doc, target) == IF target = Root THEN doc.graph ELSE PatchNamed(doc.library, target).graph

WithGraph(doc, target, graph) ==
  IF target = Root THEN [doc EXCEPT !.graph = graph]
  ELSE [doc EXCEPT !.library = [i \in DOMAIN @ |->
          IF @[i].id = target THEN [@[i] EXCEPT !.graph = graph] ELSE @[i]]]

HasGraph(doc, target) == target = Root \/ target \in PatchIds(doc.library)

ensure_object_node_definition(definitions, definition) ==
  IF \E d \in definitions : d.id = definition.id THEN definitions ELSE definitions \cup {definition}

create_object_node(c) ==
  /\ CanBegin /\ document # None /\ HasGraph(document, c.target)
  /\ LET graph == GraphOf(document, c.target)
         node == materialize_object_command_node(document.library, c.text, c.id, c.policy)
     IN /\ node # <<>>
        /\ \A n \in Range(graph.nodes) : n.id # c.id
        /\ Begin(WithGraph(document, c.target, [graph EXCEPT !.nodes = @ \o node]),
                 ensure_object_node_definition(nodes_current, node_definition(node[1])))

delete_node(target, id) ==
  /\ CanBegin /\ document # None /\ HasGraph(document, target)
  /\ LET graph == GraphOf(document, target) IN
     /\ \E n \in Range(graph.nodes) : n.id = id
     /\ Begin(WithGraph(document, target,
                [nodes |-> Only(graph.nodes, {n \in Range(graph.nodes) : n.id # id}),
                 edges |-> Only(graph.edges, {e \in Range(graph.edges) : e.from[1] # id /\ e.to[1] # id})]),
              nodes_current)

\* expand_graph_current: the innermost call visits the nodes of its graph, then
\* the edges, and returns.  A complaint refuses the request in the end; it is
\* refused here at the first one.
call == calls[Len(calls)]
Library == request.document.library
Advanced == [calls EXCEPT ![Len(calls)].at = @ + 1]
VisitsNode == call.at <= Len(call.graph.nodes)
VisitsEdge == ~VisitsNode /\ call.at <= Len(call.graph.nodes) + Len(call.graph.edges)
visited == call.graph.nodes[call.at]

expand_boundary ==
  /\ VisitsNode /\ is_boundary_node(visited)
  /\ calls' = Advanced /\ pins' = pins \cup {Pin(call.path, visited)}
  /\ UNCHANGED <<installed, request, phase, opened, expanded, edges, ordering, requests>>

expand_subpatch ==
  /\ VisitsNode /\ ~is_boundary_node(visited) /\ is_subpatch_node(visited)
  /\ LET ref == subpatch_ref(Library, visited) IN
     IF SubpatchVerdict(Library, ref, call.refs) # "ok" THEN Refuse
     ELSE LET path == Append(call.path, visited.id)
              graph == PatchNamed(Library, ref[1]).graph
          IN /\ calls' = Append(Advanced, Call(path, graph, Append(call.refs, ref[1])))
             /\ opened' = opened \cup {[path |-> path, graph |-> graph]}
             /\ UNCHANGED <<installed, request, phase, expanded, pins, edges, ordering>>
  /\ UNCHANGED requests

expand_object ==
  /\ VisitsNode /\ ~is_boundary_node(visited) /\ ~is_subpatch_node(visited)
  /\ calls' = Advanced
  /\ expanded' = Append(expanded, [visited EXCEPT !.id = Append(call.path, visited.id)])
  /\ UNCHANGED <<installed, request, phase, opened, pins, edges, ordering, requests>>

expand_edge ==
  /\ VisitsEdge
  /\ LET edge == call.graph.edges[call.at - Len(call.graph.nodes)]
         source == resolve_endpoint(Library, call.graph, call.path, edge.from, "outlet")
         target == resolve_endpoint(Library, call.graph, call.path, edge.to, "inlet")
     IN IF source = <<>> \/ target = <<>> THEN Refuse
        ELSE /\ calls' = Advanced
             /\ edges' = Append(edges, [from |-> source[1], to |-> target[1], feedback |-> edge.feedback])
             /\ UNCHANGED <<installed, request, phase, opened, expanded, pins, ordering>>
  /\ UNCHANGED requests

expand_return ==
  /\ ~VisitsNode /\ ~VisitsEdge
  /\ calls' = Front(calls)
  /\ phase' = IF Len(calls) = 1 THEN "contract" ELSE "expand"
  /\ UNCHANGED <<installed, request, opened, expanded, pins, edges, ordering, requests>>

expand_graph ==
  /\ phase = "expand"
  /\ expand_boundary \/ expand_subpatch \/ expand_object \/ expand_edge \/ expand_return

\* contract_boundary_edges: one round, any pin that still joins cables.
contract_boundary_edges(pin) ==
  /\ phase = "contract" /\ pin \in Contractable(edges)
  /\ edges' = contract(edges, pin)
  /\ UNCHANGED <<installed, request, phase, expansion, ordering, requests>>

\* The edges the ordering counts, by position.
Leaving(id) ==
  Only(Positions(edges), {i \in 1..Len(edges) : edges[i].from[2] = id /\ ~is_feedback_edge(edges[i])})

\* build_execution_plan_current: validation, then the start of the ordering.
StartOrder ==
  /\ phase = "contract" /\ Contractable(edges) = {}
  /\ LET es == expansion_edge_to_real_edge(edges)
         ids == IdsOf(expanded)
         count(id) == Cardinality({i \in 1..Len(es) : es[i].to[2] = id /\ ~is_feedback_edge(es[i])})
     IN IF validate_project(expanded, es, request.nodes) # {} THEN Refuse
        ELSE /\ phase' = "order"
             /\ edges' = es
             /\ indegree' = [id \in Range(ids) |-> count(id)]
             /\ queue' = Only(ids, {id \in Range(ids) : count(id) = 0})
             /\ UNCHANGED <<installed, request, expansion, ordered, relaxing>>
  /\ UNCHANGED requests

\* topological_order_current: the next node is ordered ...
order_next ==
  /\ phase = "order" /\ relaxing = <<>> /\ queue # <<>>
  /\ ordered' = Append(ordered, Head(queue)) /\ queue' = Tail(queue)
  /\ relaxing' = Leaving(Head(queue))
  /\ UNCHANGED <<installed, request, phase, expansion, edges, indegree, requests>>

\* ... and each node it feeds waits for one edge less.
relax_edge ==
  /\ phase = "order" /\ relaxing # <<>>
  /\ LET next == edges[Head(relaxing)].to[2] IN
     /\ indegree' = [indegree EXCEPT ![next] = @ - 1]
     /\ queue' = IF indegree[next] = 1 THEN Append(queue, next) ELSE queue
  /\ relaxing' = Tail(relaxing)
  /\ UNCHANGED <<installed, request, phase, expansion, edges, ordered, requests>>

ModelOf(kind) == (CHOOSE d \in request.nodes : d.id = kind).model
KindOf(id) == (CHOOSE n \in Range(expanded) : n.id = id).kind

\* Nodes on a cycle come last, in the order of the graph; then the plan and
\* its groups are made and everything is installed.
Finish ==
  /\ phase = "order" /\ relaxing = <<>> /\ queue = <<>>
  /\ plan' = ordered \o Only(IdsOf(expanded), Range(IdsOf(expanded)) \ Range(ordered))
  /\ groups' = {<<model, Only(plan', {id \in Range(plan') : ModelOf(KindOf(id)) = model})>> :
                  model \in {ModelOf(n.kind) : n \in Range(expanded)}}
  /\ document' = request.document /\ nodes_current' = request.remembered
  /\ Idle /\ ClearWork /\ UNCHANGED requests

Next ==
  \/ \E payload \in Payloads : load_session(payload)
  \/ \E c \in Creations : create_object_node(c)
  \/ \E d \in Deletions : delete_node(d[1], d[2])
  \/ expand_graph
  \/ \E pin \in pins : contract_boundary_edges(pin)
  \/ StartOrder
  \/ order_next
  \/ relax_edge
  \/ Finish

Spec == Init /\ [][Next]_vars
FairSpec == Spec /\ WF_vars(expand_graph \/ StartOrder \/ order_next \/ relax_edge \/ Finish
                            \/ \E pin \in pins : contract_boundary_edges(pin))
-----------------------------------------------------------------------------
(***************************************************************************)
(* Properties.                                                             *)
(***************************************************************************)
PatchOfNode(doc, node) ==
  IF is_subpatch_node(node) THEN <<PatchNamed(doc.library, subpatch_ref(doc.library, node)[1])>> ELSE <<>>

Promise == INSTANCE PlannedProject WITH
  PatchOf <- PatchOfNode, AliasesOf <- boundary_aliases, MaxDepth <- MaxSubpatchDepth

(* Every request installs a document together with a schedule of it, or
   changes nothing, whatever the order in which the pins of inlets and outlets
   are contracted (the set's iteration order in contract_boundary_edges): the
   plan runs each object of each instance once and after what feeds it. *)
PlansTheDocument == Promise!Spec

(* A document the session holds loads into a new session with no complaint
   about an object, with one exception: where a patch bears the first alias of
   a core object, that object's canonical text is ambiguous, so the catalog and
   the definitions of planning lose the kind.  The session that created the
   object still has its definition (ensure_object_node_definition_current). *)
SavedObjectsLoad ==
  document # None =>
    LET shadowed == {register_first_party_core[i].kind : i \in
                       {j \in 1..Len(register_first_party_core) :
                          register_first_party_core[j].aliases[1] \in PatchIds(document.library)}}
    IN \A place \in Promise!Places(document) : \A n \in Promise!Objects(document, place) :
         NodeDiagnostics(n, normalized_node_definitions(document.library, {}))
           = IF n.kind \in shadowed THEN {"node-definition.missing"} ELSE {}

(* Creating an object with the text its catalog entry shows gives a node of
   the entry's kind with the ports of its definition.  A patch named like a
   core object, or like a payload, is listed as creatable and is not. *)
CatalogTextCreates ==
  document # None => \A entry \in catalog_projection(document.library) :
    LET resolution == resolve(document.library, FALSE, entry.text)
        name == entry.text.class
        taken == \/ \E i \in 1..Len(register_first_party_core) :
                      name \in Range(register_first_party_core[i].aliases)
                 \/ is_payload_identity_kind(name) \/ unsupported_first_party_audio(name)
    IN IF IsPatchKind(entry.kind) /\ taken THEN resolution.code # "ok"
       ELSE resolution.kind = entry.kind /\ resolution.ports = entry.definition.ports

(* Planning ends for every request: contraction removes a pin with each round,
   whatever loops the cables of inlets and outlets make. *)
PlanningEnds == phase # "idle" ~> phase = "idle"
=============================================================================
