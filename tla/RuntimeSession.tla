---------------------------- MODULE RuntimeSession ----------------------------
(***************************************************************************)
(* One runtime session (src/src/session.rs, struct RuntimeSession): the    *)
(* loaded project, its revisions, the execution plan, the control state    *)
(* and the undo/redo history.  Every action is one call under the          *)
(* session's write lock.  A call the code refuses without changing the     *)
(* session is a stuttering step and has no action; the refusals that do    *)
(* change it (a failed plan) are actions.                                  *)
(***************************************************************************)
EXTENDS GraphDocument, FiniteSets

CONSTANTS
    Actors,         \* the actor ids edits are attributed to
    Controls,       \* control states
    DefaultControl, \* the control state a graph's parameters define
    Projects,       \* documents that clients load
    InitialDefs,    \* node definitions that come with a loaded project
    ChangeSets,     \* change sets clients submit
    ViewPatches,    \* view patches clients submit
    Fragments,      \* graph fragments clients paste
    NoProject,      \* the session holds no project
    MaxRevision     \* bound: sessions are explored up to this revision

ASSUME ControlAssumption == DefaultControl \in Controls
ASSUME ProjectsAssumption ==
    /\ Projects \subseteq Project
    /\ NoProject \notin Project
ASSUME InputsAssumption ==
    /\ InitialDefs \subseteq Contents
    /\ MaxRevision \in Nat

\* setNodeView, moveNodeView
ViewOp == [op : {"set", "move"}, node : NodeIds, from : Positions \cup {AnyView}, to : Positions]
ASSUME ViewPatchesAssumption == ViewPatches \subseteq Seq(ViewOp)
ASSUME ChangeSetsAssumption == ChangeSets \subseteq Seq(Change)

\* Fragments are complete: edges to nodes outside are omitted or refused
\* before the fragment is pasted.
ASSUME FragmentsAssumption ==
    \A frag \in Fragments :
      /\ frag.nodes \in PartialFunctions(NodeIds, Contents)
      /\ frag.edges \in PartialFunctions(EdgeIds, EdgeSpec)
      /\ frag.view \in View /\ DOMAIN frag.view \subseteq DOMAIN frag.nodes
      /\ \A i \in DOMAIN frag.edges :
           {frag.edges[i].src, frag.edges[i].dst} \subseteq DOMAIN frag.nodes

VARIABLES
    project,         \* the project document, or NoProject
    defs,            \* nodes_current: contents whose definition is known
    plan,            \* the root revision the plan was built for, or NoPlan
    revision,        \* session revision
    viewRevision,
    controlRevision,
    control,         \* control_state
    entries,         \* history_entries: a sequence of [kind, subject]
    undoStack,       \* history stack entries, the last one on top
    redoStack

vars == <<project, defs, plan, revision, viewRevision, controlRevision, control,
          entries, undoStack, redoStack>>
history == <<entries, undoStack, redoStack>>

NoPlan == -1
Loaded == project # NoProject

\* History ids are runtime_event_000001, ...: next_event_sequence is always
\* one more than the number of entries, and both start over together.
NextEventId == Len(entries) + 1
LogEntry(kind, subject) == [kind |-> kind, subject |-> subject]

\* HistoryEntry: what the undo and redo stacks hold.
DocumentEntry(actor, next, nextViewRevision) ==
    [kind |-> "document", id |-> NextEventId, actor |-> actor, before |-> project, after |-> next,
     beforeView |-> viewRevision, afterView |-> nextViewRevision]
MutationEntry(actor, ops) ==
    [kind |-> "mutation", id |-> NextEventId, actor |-> actor, ops |-> ops,
     inverse |-> inverse_ops(project.graph, project.view, ops)]

Init ==
    /\ project = NoProject /\ defs = {} /\ plan = NoPlan
    /\ revision = 0 /\ viewRevision = 0 /\ controlRevision = 0
    /\ control = DefaultControl
    /\ entries = <<>> /\ undoStack = <<>> /\ redoStack = <<>>

----------------------------------------------------------------------------
(* Load, plan, clear.                                                      *)

clear_history == entries' = <<>> /\ undoStack' = <<>> /\ redoStack' = <<>>

load_project(doc) ==
    LET stored == [doc EXCEPT !.view = reconcile_view_state(doc.graph, @)]
    IN  /\ Plannable(stored, InitialDefs)
        /\ project' = stored
        /\ defs' = InitialDefs
        /\ plan' = stored.graph.rev
        /\ revision' = revision + 1
        /\ viewRevision' = 1
        /\ controlRevision' = 0
        /\ control' = DefaultControl
        /\ clear_history

clear ==
    /\ project' = NoProject /\ defs' = {} /\ plan' = NoPlan
    /\ revision' = revision + 1
    /\ viewRevision' = 0 /\ controlRevision' = 0
    /\ control' = DefaultControl
    /\ clear_history

\* Also the plan step of run_current, which only plans when there is no plan.
plan_current ==
    /\ Loaded
    /\ plan' = IF Plannable(project, defs) THEN project.graph.rev ELSE NoPlan
    /\ UNCHANGED <<project, defs, revision, viewRevision, controlRevision, control, history>>

----------------------------------------------------------------------------
(* Document edits: every one ends in apply_project_document_update.        *)

\* Faulty variant: the old plan stays.
install_project_keeps_plan(next, nextDefs, nextViewRevision) ==
    /\ project' = next /\ defs' = nextDefs /\ plan' = plan
    /\ revision' = revision + 1 /\ viewRevision' = nextViewRevision
    /\ controlRevision' = 0 /\ control' = DefaultControl

\* The session's new state after the document was replaced.
install_project(next, nextDefs, nextViewRevision) ==
    /\ project' = next
    /\ defs' = nextDefs
    /\ plan' = next.graph.rev
    /\ revision' = revision + 1
    /\ viewRevision' = nextViewRevision
    /\ controlRevision' = 0
    /\ control' = DefaultControl

apply_project_document_update(actor, next, nextDefs, nextViewRevision) ==
    /\ Plannable(next, nextDefs)
    /\ install_project(next, nextDefs, nextViewRevision)
    /\ entries' = Append(entries, LogEntry("apply", NextEventId))
    /\ undoStack' = Append(undoStack, DocumentEntry(actor, next, nextViewRevision))
    /\ redoStack' = <<>>

\* The base revision a client sends must be the target graph's revision.
TargetAt(t, base) == Loaded /\ t \in Targets /\ base = target_graph(project, t).rev

EditGraph(actor, t, g, view, viewChanged, nextDefs) ==
    apply_project_document_update(actor,
        apply_graph_to_project(project, t, Bump(g), view), nextDefs,
        IF viewChanged /\ t = Root THEN viewRevision + 1 ELSE viewRevision)

apply_change_set(actor, t, base, changes) ==
    /\ TargetAt(t, base)
    /\ \E d \in apply_changes(project, t, changes) :
         apply_project_document_update(actor,
             apply_graph_to_project(project, t, IF d.graphChanged THEN Bump(d.g) ELSE d.g, d.view),
             defs,
             IF d.viewChanged /\ t = Root THEN viewRevision + 1 ELSE viewRevision)

\* The object's own definition joins the known ones only if the edit is applied.
apply_object_node_create(actor, t, base, n, c, view) ==
    /\ TargetAt(t, base)
    /\ LET g == target_graph(project, t)
       IN  /\ n \notin DOMAIN g.nodes
           /\ view # NoView => t = Root
           /\ EditGraph(actor, t, PutNode(g, n, c),
                  IF view = NoView THEN project.view ELSE Put(project.view, n, view),
                  view # NoView, defs \cup {c})

InvalidIncidentEdges(g, n) == {i \in IncidentEdges(g, n) : ~ edge_is_valid(g, g.edges[i])}

\* The replaced node is put in place: what changes neither graph nor view is
\* no edit.
InstallReplacement(actor, t, n, g, view, nextDefs) ==
    LET moved == view # NoView /\ ViewOf(project.view, n) # view
    IN  /\ view # NoView => t = Root
        /\ g # target_graph(project, t) \/ moved
        /\ EditGraph(actor, t, g,
               IF view = NoView THEN project.view ELSE Put(project.view, n, view),
               moved, nextDefs)

\* policy "drop" removes the edges the new interface no longer fits; with the
\* other two policies the replacement is refused when there is such an edge.
apply_object_node_replace(actor, t, base, n, c, view, policy) ==
    /\ TargetAt(t, base)
    /\ n \in DOMAIN target_graph(project, t).nodes
    /\ LET placed  == PutNode(target_graph(project, t), n, c)
           invalid == InvalidIncidentEdges(placed, n)
       IN  /\ invalid # {} => policy = "drop"
           /\ InstallReplacement(actor, t, n, DropEdges(placed, invalid), view, defs \cup {c})

apply_node_delete(actor, t, base, n) ==
    /\ TargetAt(t, base)
    /\ n \in DOMAIN target_graph(project, t).nodes
    /\ EditGraph(actor, t, DropNode(target_graph(project, t), n),
           IF t = Root THEN Without(project.view, {n}) ELSE project.view,
           t = Root /\ n \in DOMAIN project.view, defs)

\* Parameters are part of the content: an update keeps the node's kind, so
\* the new content has the same ports.
SameKind(c, d) == (c \in Sources <=> d \in Sources) /\ (c \in Sinks <=> d \in Sinks)

apply_node_update(actor, t, base, n, c) ==
    /\ TargetAt(t, base)
    /\ n \in DOMAIN target_graph(project, t).nodes
    /\ SameKind(c, target_graph(project, t).nodes[n])
    /\ EditGraph(actor, t, PutNode(target_graph(project, t), n, c), project.view, FALSE, defs)

\* Ids of a pasted fragment that are in use are replaced by unused ones
\* (idConflictPolicy remap, the default); the code picks the first free
\* suffix, here any injection that moves no id without need.
Remappings(ids, used, all) ==
    {m \in [ids -> all \ used] :
       /\ \A i, j \in ids : i # j => m[i] # m[j]
       /\ \A i \in ids : m[i] # i => i \in used \/ \E j \in ids \ {i} : m[j] = i}

RemapEdge(e, m) == [e EXCEPT !.src = m[@], !.dst = m[@]]

PasteNodes(g, frag, nm) ==
    [g EXCEPT !.nodes =
       Over(@, [n \in Range(nm) |-> frag.nodes[CHOOSE k \in DOMAIN nm : nm[k] = n]])]

PasteEdges(g, frag, nm, em) ==
    [g EXCEPT !.edges =
       Over(@, [i \in Range(em) |-> RemapEdge(frag.edges[CHOOSE k \in DOMAIN em : em[k] = i], nm)])]

\* The positions the fragment brings; moved to where it is pasted, they are
\* positions like any other.
lower_fragment_view_patch(frag, nm) ==
    [n \in {nm[k] : k \in DOMAIN frag.view} |->
       frag.view[CHOOSE k \in DOMAIN frag.view : nm[k] = n]]

paste_graph_fragment_into_project(actor, t, frag, nm, em) ==
    LET pasted == PasteEdges(PasteNodes(target_graph(project, t), frag, nm), frag, nm, em)
        views  == lower_fragment_view_patch(frag, nm)
    IN  EditGraph(actor, t, pasted, Over(views, project.view), DOMAIN views # {}, defs)

paste_graph_fragment(actor, t, base, frag) ==
    /\ TargetAt(t, base)
    /\ LET g == target_graph(project, t)
       IN  \E nm \in Remappings(DOMAIN frag.nodes, DOMAIN g.nodes, NodeIds),
              em \in Remappings(DOMAIN frag.edges, DOMAIN g.edges, EdgeIds) :
             paste_graph_fragment_into_project(actor, t, frag, nm, em)

----------------------------------------------------------------------------
(* View patches, control events.                                           *)

\* apply_mutation_with_history on a view patch; `ops` was given against the
\* base view revision, and the patch must change something.
ViewPatchResult(ops) ==
    apply_view_patch(project.graph, reconcile_view_state(project.graph, project.view), ops)

\* Faulty variant: only the view revision tells that the view changed.
install_view_keeps_revision(view) ==
    /\ project' = [project EXCEPT !.view = view]
    /\ plan' = project.graph.rev
    /\ viewRevision' = viewRevision + 1
    /\ control' = DefaultControl
    /\ UNCHANGED <<defs, controlRevision, revision>>

\* The control state goes back to the graph's defaults; its revision stays.
install_view(view) ==
    /\ project' = [project EXCEPT !.view = view]
    /\ plan' = project.graph.rev
    /\ revision' = revision + 1
    /\ viewRevision' = viewRevision + 1
    /\ control' = DefaultControl
    /\ UNCHANGED <<defs, controlRevision>>

apply_mutation(actor, base, ops) ==
    /\ Loaded /\ base = viewRevision
    /\ LoweredPlannable(project.graph, defs)
    /\ \E view \in ViewPatchResult(ops) :
         /\ view # project.view
         /\ install_view(view)
    /\ entries' = Append(entries, LogEntry("apply", NextEventId))
    /\ undoStack' = Append(undoStack, MutationEntry(actor, ops))
    /\ redoStack' = <<>>

\* The lowered graph has no plan (a feedback loop): the patch is refused, and
\* the session loses the plan it had.  Undo and redo of a patch end here too.
apply_mutation_without_plan(base, ops) ==
    /\ Loaded /\ base = viewRevision
    /\ \E view \in ViewPatchResult(ops) : view # project.view
    /\ ~ LoweredPlannable(project.graph, defs)
    /\ plan' = NoPlan
    /\ UNCHANGED <<project, defs, revision, viewRevision, controlRevision, control, history>>

apply_control_event(value) ==
    /\ Loaded
    /\ control # value
    /\ control' = value
    /\ controlRevision' = controlRevision + 1
    /\ UNCHANGED <<project, defs, plan, revision, viewRevision, history>>

----------------------------------------------------------------------------
(* Undo and redo.                                                          *)

\* Faulty variants: the merged document is installed without planning it ...
restore_project_document_state_unplanned(entry, direction) ==
    LET merged == project_document_history_delta(project, entry.before, entry.after, direction)
        next   == [merged EXCEPT !.graph.rev = next_graph_revision(project.graph.rev)]
    IN  install_project(next, defs,
          IF direction = "undo" THEN entry.beforeView ELSE entry.afterView)
\* ... or the graph revision returns with the document.
restore_project_document_state_old_revision(entry, direction) ==
    LET merged == project_document_history_delta(project, entry.before, entry.after, direction)
    IN  /\ Plannable(merged, defs)
        /\ install_project(merged, defs,
             IF direction = "undo" THEN entry.beforeView ELSE entry.afterView)

\* restore_project_document_state: the root revision moves on, the view
\* revision returns to the one recorded with the edit.
restore_project_document_state(entry, direction) ==
    LET merged == project_document_history_delta(project, entry.before, entry.after, direction)
        next   == [merged EXCEPT !.graph.rev = next_graph_revision(project.graph.rev)]
    IN  /\ Plannable(next, defs)
        /\ install_project(next, defs,
             IF direction = "undo" THEN entry.beforeView ELSE entry.afterView)

\* A view patch is applied against the current view revision.
reapply_view_patch(entry, direction) ==
    /\ LoweredPlannable(project.graph, defs)
    /\ \E view \in ViewPatchResult(IF direction = "undo" THEN entry.inverse ELSE entry.ops) :
         /\ view # project.view
         /\ install_view(view)

apply_history_entry(entry, direction) ==
    /\ Loaded
    /\ \/ entry.kind = "document" /\ restore_project_document_state(entry, direction)
       \/ entry.kind = "mutation" /\ reapply_view_patch(entry, direction)
    /\ entries' = Append(entries, LogEntry(direction, entry.id))

\* Faulty variant: the top entry goes, whichever was asked for.
RemoveTop(s, i) == SubSeq(s, 1, Len(s) - 1)

RemoveIndex(s, i) == [k \in 1..(Len(s) - 1) |-> IF k < i THEN s[k] ELSE s[k + 1]]

\* Move the entry at index i from one stack to the top of the other.
UndoAt(i) ==
    /\ apply_history_entry(undoStack[i], "undo")
    /\ undoStack' = RemoveIndex(undoStack, i)
    /\ redoStack' = Append(redoStack, undoStack[i])
RedoAt(i) ==
    /\ apply_history_entry(redoStack[i], "redo")
    /\ redoStack' = RemoveIndex(redoStack, i)
    /\ undoStack' = Append(undoStack, redoStack[i])

\* The topmost entry of the actor (rposition).
LastOf(stack, actor, i) ==
    /\ i \in DOMAIN stack /\ stack[i].actor = actor
    /\ \A k \in DOMAIN stack : stack[k].actor = actor => k <= i

undo == undoStack # <<>> /\ UndoAt(Len(undoStack))
redo == redoStack # <<>> /\ RedoAt(Len(redoStack))
undo_for_actor(actor) == \E i \in DOMAIN undoStack : LastOf(undoStack, actor, i) /\ UndoAt(i)
redo_for_actor(actor) == \E i \in DOMAIN redoStack : LastOf(redoStack, actor, i) /\ RedoAt(i)

\* The entries that undo, redo and their per-actor forms pick.
Selectable(stack, i) == i = Len(stack) \/ \E actor \in Actors : LastOf(stack, actor, i)

\* A refused undo or redo of a view patch also drops the plan.
history_patch_without_plan ==
    /\ Loaded
    /\ \/ \E i \in DOMAIN undoStack :
            /\ Selectable(undoStack, i) /\ undoStack[i].kind = "mutation"
            /\ \E view \in ViewPatchResult(undoStack[i].inverse) : view # project.view
       \/ \E i \in DOMAIN redoStack :
            /\ Selectable(redoStack, i) /\ redoStack[i].kind = "mutation"
            /\ \E view \in ViewPatchResult(redoStack[i].ops) : view # project.view
    /\ ~ LoweredPlannable(project.graph, defs)
    /\ plan' = NoPlan
    /\ UNCHANGED <<project, defs, revision, viewRevision, controlRevision, control, history>>

----------------------------------------------------------------------------
ObjectEdit(actor, t, base) ==
    \E n \in NodeIds :
      \/ \E c \in Contents, view \in Positions \cup {NoView} :
           \/ apply_object_node_create(actor, t, base, n, c, view)
           \/ \E policy \in {"drop", "reject", "preserve"} :
                apply_object_node_replace(actor, t, base, n, c, view, policy)
      \/ \E c \in Contents : apply_node_update(actor, t, base, n, c)
      \/ apply_node_delete(actor, t, base, n)

Edit(actor, t, base) ==
    \/ ObjectEdit(actor, t, base)
    \/ \E changes \in ChangeSets : apply_change_set(actor, t, base, changes)
    \/ \E frag \in Fragments : paste_graph_fragment(actor, t, base, frag)

PatchView(actor, base) == \E ops \in ViewPatches : apply_mutation(actor, base, ops)

SessionAdmin ==
    \/ \E doc \in Projects : load_project(doc)
    \/ clear
    \/ plan_current
    \/ \E ops \in ViewPatches : apply_mutation_without_plan(viewRevision, ops)
    \/ history_patch_without_plan
    \/ \E value \in Controls : apply_control_event(value)

UndoRedo ==
    \/ undo
    \/ redo
    \/ \E actor \in Actors : undo_for_actor(actor) \/ redo_for_actor(actor)

Within == revision < MaxRevision /\ controlRevision < MaxRevision

Next ==
    /\ Within
    /\ \/ SessionAdmin
       \/ Loaded /\ \E actor \in Actors, t \in Targets :
                       Edit(actor, t, target_graph(project, t).rev)
       \/ \E actor \in Actors : PatchView(actor, viewRevision)
       \/ UndoRedo

Spec == Init /\ [][Next]_vars

----------------------------------------------------------------------------
(* Properties.                                                             *)

\* The canvas has a position for exactly the nodes of the root graph, whatever
\* interleaving of edits, merged undos and merged redos led here: the deltas
\* treat graph and view separately and nothing reconciles them afterwards.
ViewCoversNodes ==
    Loaded => DOMAIN project.view = DOMAIN project.graph.nodes

\* The stored document always has a plan: no edit, undo or redo, exact or
\* merged with other clients' later edits, leaves a dangling edge, an edge
\* its ports do not fit, an unmarked cycle or a node without definition.
SessionPlannable == Loaded => Plannable(project, defs)

\* A plan the session holds was built for the graph the session holds.
PlanIsCurrent == plan # NoPlan => Loaded /\ plan = project.graph.rev

LastKind(id) ==
    entries[CHOOSE k \in DOMAIN entries :
              /\ entries[k].subject = id
              /\ \A j \in DOMAIN entries : entries[j].subject = id => j <= k].kind

StackIds(stack) == {stack[i].id : i \in DOMAIN stack}

\* The two stacks are what the history log says: an edit can be undone exactly
\* when its last log entry is an apply or a redo; what can be redone was undone
\* and no new edit came after; no edit is on the stacks twice, whichever
\* clients undid and redid edits from the middle of the stacks.
HistoryMatchesLog ==
    /\ StackIds(undoStack) =
         {id \in DOMAIN entries : entries[id].subject = id /\ LastKind(id) # "undo"}
    /\ \A id \in StackIds(redoStack) :
         \E k \in DOMAIN entries :
           /\ entries[k] = [kind |-> "undo", subject |-> id]
           /\ \A j \in DOMAIN entries : j > k => entries[j].kind # "apply"
                                             /\ entries[j].subject # id
    /\ \A stack \in {undoStack, redoStack} :
         \A i, j \in DOMAIN stack : stack[i].id = stack[j].id => i = j

SameAt(f, g, k) ==
    /\ k \in DOMAIN f <=> k \in DOMAIN g
    /\ k \in DOMAIN f => f[k] = g[k]
\* Going from one end of an edit to the other is not to touch k in p: both
\* ends agree on k, or k has become something else since.
NotTheEdits(p, from, to, k) ==
    \/ SameAt(from, to, k)
    \/ k \in DOMAIN p \cap DOMAIN from \cap DOMAIN to /\ p[k] # from[k]
KeptFrom(p, q, from, to, keys) == \A k \in keys : NotTheEdits(p, from, to, k) => SameAt(p, q, k)
UnchangedBy(p, q, from, to) ==
    /\ KeptFrom(p.nodes, q.nodes, from.nodes, to.nodes, NodeIds)
    /\ \A i \in EdgeIds :
         SameAt(from.edges, to.edges, i)
         => \/ SameAt(p.edges, q.edges, i)
            \/ i \in DOMAIN p.edges /\ {p.edges[i].src, p.edges[i].dst} \ DOMAIN q.nodes # {}
\* The graphs and the positions, from p to q, when an edit is taken from one end
\* to the other.
OthersKept(p, q, from, to) ==
    /\ \A t \in Targets : UnchangedBy(target_graph(p, t), target_graph(q, t),
                                     target_graph(from, t), target_graph(to, t))
    /\ KeptFrom(p.view, q.view, from.view, to.view, NodeIds)
LoggedHistoryStep(e, direction) ==
    /\ Len(entries') = Len(entries) + 1
    /\ entries'[Len(entries')] = LogEntry(direction, e.id)

\* Undo or redo of one document edit leaves alone every node, edge and position
\* that the edit itself did not add or change, except edges of the nodes it
\* removes, and every node and position another edit has changed since: what
\* other clients did stays, in the graph and in the view, though the two are
\* merged separately.
UndoKeepsOthersWork ==
    [][\A e \in Range(undoStack) \cup Range(redoStack) :
         e.kind = "document"
         => /\ LoggedHistoryStep(e, "undo") => OthersKept(project, project', e.after, e.before)
            /\ LoggedHistoryStep(e, "redo") => OthersKept(project, project', e.before, e.after)]_vars

\* A session revision names one document: whatever changes the project, its
\* view or its history moves the session revision on by one, never back.  With
\* the control revision it names one control state: a view patch resets the
\* control values and keeps their revision, but not the session's.
RevisionNamesDocument ==
    [][/\ (project' # project \/ history' # history) => revision' = revision + 1
       /\ control' # control => <<revision', controlRevision'>> # <<revision, controlRevision>>]_vars

=============================================================================
