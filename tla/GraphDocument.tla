---------------------------- MODULE GraphDocument ----------------------------
(***************************************************************************)
(* Project documents and the pure edits the session makes to them          *)
(* (src/src/session.rs, src/src/project_current.rs).                       *)
(*                                                                         *)
(* A graph is [nodes, edges, rev]: nodes maps the ids in use to their      *)
(* content (kind, parameters and port snapshot together), edges maps the   *)
(* edge ids in use to [src, dst, feedback], rev is the graph revision.     *)
(* A project is [graph, view, patches]: the root graph, the canvas         *)
(* position of root nodes, and the graphs of the project's patch library.  *)
(* An edit that the code may refuse returns a set: the edited document     *)
(* alone, or nothing.                                                      *)
(***************************************************************************)
EXTENDS Integers, Sequences, FiniteSets, Functions

CONSTANTS
    NodeIds,      \* node ids that clients use
    EdgeIds,      \* edge ids that clients use
    Contents,     \* node contents
    Sources,      \* the contents that have the output port edges start from
    Sinks,        \* the contents that have the input port edges end at
    Positions,    \* canvas positions
    DefaultView,  \* the position a node without a stored view gets
    PatchIds,     \* the patch definitions of the project's patch library
    Root,         \* the target path of the root graph
    AnyView       \* the absent `from` of a move

ASSUME ContentsAssumption == Sources \subseteq Contents /\ Sinks \subseteq Contents
ASSUME DefaultViewAssumption == DefaultView \in Positions
ASSUME TargetAssumption == Root \notin PatchIds
ASSUME AnyViewAssumption == AnyView \notin Positions

PartialFunctions(D, R) == UNION {[S -> R] : S \in SUBSET D}

EdgeSpec == [src : NodeIds, dst : NodeIds, feedback : BOOLEAN]
Graph == [nodes : PartialFunctions(NodeIds, Contents),
          edges : PartialFunctions(EdgeIds, EdgeSpec),
          rev   : Nat]
View == PartialFunctions(NodeIds, Positions)
Project == [graph : Graph, view : View, patches : [PatchIds -> Graph]]
Targets == PatchIds \cup {Root}

\* f with v at k; f where it is defined, g elsewhere.
Put(f, k, v) == [j \in DOMAIN f \cup {k} |-> IF j = k THEN v ELSE f[j]]
Over(f, g) == [k \in DOMAIN f \cup DOMAIN g |-> IF k \in DOMAIN f THEN f[k] ELSE g[k]]

----------------------------------------------------------------------------
(* Validity: what makes a plan for the document possible.                  *)

edge_is_valid(g, e) ==
    /\ e.src \in DOMAIN g.nodes /\ g.nodes[e.src] \in Sources
    /\ e.dst \in DOMAIN g.nodes /\ g.nodes[e.dst] \in Sinks

\* No cycle among the given edges: no set of nodes each fed by another.
Acyclic(g, edgeIds) ==
    ~ \E S \in SUBSET DOMAIN g.nodes :
        /\ S # {}
        /\ \A n \in S : \E i \in edgeIds : g.edges[i].src \in S /\ g.edges[i].dst = n

valid_graph(g) ==
    /\ \A i \in DOMAIN g.edges : edge_is_valid(g, g.edges[i])
    /\ Acyclic(g, {i \in DOMAIN g.edges : ~ g.edges[i].feedback})

\* build_execution_plan_request_current succeeds: library and root graph are
\* valid and every root node's definition is known.
Plannable(p, defs) ==
    /\ \A t \in PatchIds : valid_graph(p.patches[t])
    /\ valid_graph(p.graph)
    /\ Range(p.graph.nodes) \subseteq defs

\* A view patch plans the lowered graph (project.rs, planner.rs), whose edges
\* have no feedback marks: every cycle is an error.
lower_graph_for_execution(g) ==
    [nodes |-> g.nodes,
     edges |-> [i \in DOMAIN g.edges |-> [src |-> g.edges[i].src, dst |-> g.edges[i].dst]]]

\* Contents stand for a kind and its ports: a node whose definition is in the
\* registry has the definition's ports.
validate_node_snapshot(l, n, defs) == l.nodes[n] \in defs

validate_edges(l) == \A i \in DOMAIN l.edges : edge_is_valid(l, l.edges[i])

detect_cycle(l) == ~ Acyclic(l, DOMAIN l.edges)

validate_project(l, defs) ==
    /\ \A n \in DOMAIN l.nodes : validate_node_snapshot(l, n, defs)
    /\ validate_edges(l)
    /\ ~ detect_cycle(l)

\* The nodes put in order after k rounds: those with nothing left before them.
topological_order(l) ==
    LET ordered[k \in 0..Cardinality(DOMAIN l.nodes)] ==
          IF k = 0 THEN {}
          ELSE {n \in DOMAIN l.nodes :
                  \A i \in DOMAIN l.edges : l.edges[i].dst = n => l.edges[i].src \in ordered[k - 1]}
    IN  ordered[Cardinality(DOMAIN l.nodes)]

build_execution_plan(l, defs) ==
    validate_project(l, defs) /\ topological_order(l) = DOMAIN l.nodes

LoweredPlannable(g, defs) == build_execution_plan(lower_graph_for_execution(g), defs)

----------------------------------------------------------------------------
(* Views and targets.                                                      *)

reconcile_view_state(g, view) ==
    [n \in DOMAIN g.nodes |-> IF n \in DOMAIN view THEN view[n] ELSE DefaultView]

target_graph(p, t) == IF t = Root THEN p.graph ELSE p.patches[t]

\* Store an edited graph and view under the target; a patch definition has
\* no view of its own.
apply_graph_to_project(p, t, g, view) ==
    IF t = Root
    THEN [p EXCEPT !.graph = g, !.view = reconcile_view_state(g, view)]
    ELSE [p EXCEPT !.patches[t] = g]

next_graph_revision(rev) == rev + 1

Bump(g) == [g EXCEPT !.rev = next_graph_revision(@)]
Without(f, S) == Restrict(f, DOMAIN f \ S)
IncidentEdges(g, n) == {i \in DOMAIN g.edges : n \in {g.edges[i].src, g.edges[i].dst}}
PutNode(g, n, c) == [g EXCEPT !.nodes = Put(@, n, c)]
DropNode(g, n) ==
    [g EXCEPT !.nodes = Without(@, {n}), !.edges = Without(@, IncidentEdges(g, n))]
DropEdges(g, S) == [g EXCEPT !.edges = Without(@, S)]

----------------------------------------------------------------------------
(* Change sets: a sequence of changes, all applied or none                 *)
(* (apply_collaboration_changes_to_project_current).  The working draft is *)
(* [g, view, graphChanged, viewChanged].                                   *)

NoView == AnyView

\* A node added earlier in the same change set may have no view yet.
ViewOf(view, n) == IF n \in DOMAIN view THEN view[n] ELSE DefaultView

ChangeAllowed(t, d, c) ==
    CASE c.op = "nodeAdd"        -> c.node \notin DOMAIN d.g.nodes /\ (c.view = NoView \/ t = Root)
      [] c.op = "nodeMove"       -> /\ t = Root
                                    /\ c.node \in DOMAIN d.g.nodes
                                    /\ c.from = AnyView \/ c.from = ViewOf(d.view, c.node)
      [] c.op = "nodeDelete"     -> c.node \in DOMAIN d.g.nodes
      [] c.op = "edgeConnect"    -> c.edge \notin DOMAIN d.g.edges
      [] c.op = "edgeDisconnect" -> c.edge \in DOMAIN d.g.edges

ApplyChange(t, d, c) ==
    CASE c.op = "nodeAdd" ->
           [d EXCEPT !.g = PutNode(@, c.node, c.content), !.graphChanged = TRUE,
                     !.view = IF c.view = NoView THEN @ ELSE Put(@, c.node, c.view),
                     !.viewChanged = @ \/ c.view # NoView]
      [] c.op = "nodeMove" ->
           [d EXCEPT !.view = Put(@, c.node, c.to), !.viewChanged = TRUE]
      [] c.op = "nodeDelete" ->
           [d EXCEPT !.g = DropNode(@, c.node), !.graphChanged = TRUE,
                     !.view = IF t = Root THEN Without(@, {c.node}) ELSE @,
                     !.viewChanged = @ \/ t = Root]
      [] c.op = "edgeConnect" ->
           [d EXCEPT !.g.edges = Put(@, c.edge, c.spec), !.graphChanged = TRUE]
      [] c.op = "edgeDisconnect" ->
           [d EXCEPT !.g = DropEdges(@, {c.edge}), !.graphChanged = TRUE]

Change ==
    [op : {"nodeAdd"}, node : NodeIds, content : Contents, view : Positions \cup {NoView}]
    \cup [op : {"nodeMove"}, node : NodeIds, from : Positions \cup {AnyView}, to : Positions]
    \cup [op : {"nodeDelete"}, node : NodeIds]
    \cup [op : {"edgeConnect"}, edge : EdgeIds, spec : EdgeSpec]
    \cup [op : {"edgeDisconnect"}, edge : EdgeIds]

apply_changes(p, t, changes) ==
    LET start == [g |-> target_graph(p, t), view |-> p.view,
                  graphChanged |-> FALSE, viewChanged |-> FALSE]
        drafts[i \in 0..Len(changes)] ==
            IF i = 0 THEN {start}
            ELSE {ApplyChange(t, d, changes[i]) :
                    d \in {e \in drafts[i - 1] : ChangeAllowed(t, e, changes[i])}}
    IN  drafts[Len(changes)]

----------------------------------------------------------------------------
(* View patches: a sequence of setNodeView and moveNodeView operations,    *)
(* all applied or none, and the inverse patch undo applies.                *)

ViewOpAllowed(g, view, op) ==
    /\ op.node \in DOMAIN g.nodes
    /\ op.node \in DOMAIN view
    /\ op.from # AnyView => op.from = view[op.node]

\* The views after 0, 1, ... operations, each a set of at most one view.
PatchedViews(g, view, ops) ==
    LET views[i \in 0..Len(ops)] ==
          IF i = 0 THEN {view}
          ELSE {[v EXCEPT ![ops[i].node] = ops[i].to] :
                  v \in {w \in views[i - 1] : ViewOpAllowed(g, w, ops[i])}}
    IN  views

apply_view_patch(g, view, ops) == PatchedViews(g, view, ops)[Len(ops)]

\* A set is undone by a set, a move by a move that insists on finding the
\* node where it left it; last operation first.
inverse_ops(g, view, ops) ==
    [j \in 1..Len(ops) |->
       LET i == Len(ops) + 1 - j
           previous == (CHOOSE v \in PatchedViews(g, view, ops)[i - 1] : TRUE)[ops[i].node]
       IN  [op   |-> ops[i].op, node |-> ops[i].node, to |-> previous,
            from |-> IF ops[i].op = "move" THEN ops[i].to ELSE AnyView]]

----------------------------------------------------------------------------
(* Undo and redo of a document edit.  When the document is exactly as the  *)
(* edit left it the other end is restored; otherwise the edit's additions  *)
(* and changes are merged into the current document.                       *)

Added(before, after) == DOMAIN after \ DOMAIN before

\* Replace the values that still are as `expected` has them by those of
\* `target`, for the keys both ends of the edit have.
Revert(f, expected, target) ==
    [k \in DOMAIN f |->
       IF k \in DOMAIN expected \cap DOMAIN target /\ f[k] = expected[k] THEN target[k] ELSE f[k]]

undo_graph_history_delta(g, before, after) ==
    LET addedNodes == Added(before.nodes, after.nodes)
        addedEdges == Added(before.edges, after.edges)
        keptEdges  == {i \in DOMAIN g.edges \ addedEdges :
                         {g.edges[i].src, g.edges[i].dst} \cap addedNodes = {}}
    IN  [g EXCEPT !.nodes = Revert(Without(@, addedNodes), after.nodes, before.nodes),
                  !.edges = Restrict(@, keptEdges)]

redo_graph_history_delta(g, before, after) ==
    LET nodes == Over(Revert(g.nodes, before.nodes, after.nodes),
                      Restrict(after.nodes, Added(before.nodes, after.nodes)))
        edges == {i \in Added(before.edges, after.edges) :
                    {after.edges[i].src, after.edges[i].dst} \subseteq DOMAIN nodes}
    IN  [g EXCEPT !.nodes = nodes, !.edges = Over(@, Restrict(after.edges, edges))]

\* Faulty variant: the positions of the nodes the edit added stay.
undo_view_delta_keeps_added(view, before, after) == Revert(view, after, before)

\* ... or every position goes back, moved since or not.
undo_view_delta_unguarded(view, before, after) ==
    Over(Restrict(before, DOMAIN before \cap DOMAIN view \cap DOMAIN after), Without(view, Added(before, after)))

undo_view_delta(view, before, after) ==
    Revert(Without(view, Added(before, after)), after, before)
redo_view_delta(view, before, after) ==
    Revert(Over(view, Restrict(after, Added(before, after))), before, after)

\* The deltas report a change also for a node they rewrite to the same value.
DeltaChanged(g, next, expected, target) ==
    \/ DOMAIN g.nodes # DOMAIN next.nodes \/ DOMAIN g.edges # DOMAIN next.edges
    \/ \E n \in DOMAIN g.nodes \cap DOMAIN expected.nodes \cap DOMAIN target.nodes :
         g.nodes[n] = expected.nodes[n]

GraphDelta(g, before, after, direction) ==
    IF direction = "undo" THEN undo_graph_history_delta(g, before, after)
                          ELSE redo_graph_history_delta(g, before, after)

PatchDelta(g, before, after, direction) ==
    LET next == GraphDelta(g, before, after, direction)
        ends == IF direction = "undo" THEN <<after, before>> ELSE <<before, after>>
    IN  IF DeltaChanged(g, next, ends[1], ends[2]) THEN Bump(next) ELSE next

project_document_history_delta(p, before, after, direction) ==
    LET expected == IF direction = "undo" THEN after ELSE before
        exact    == IF direction = "undo" THEN before ELSE after
    IN  IF p = expected THEN exact
        ELSE [graph   |-> GraphDelta(p.graph, before.graph, after.graph, direction),
              view    |-> IF direction = "undo"
                          THEN undo_view_delta(p.view, before.view, after.view)
                          ELSE redo_view_delta(p.view, before.view, after.view),
              patches |-> [t \in PatchIds |->
                             PatchDelta(p.patches[t], before.patches[t], after.patches[t], direction)]]
=============================================================================
