---------------------------- MODULE SessionClients ----------------------------
(***************************************************************************)
(* Clients that edit one session optimistically.  A client reads a         *)
(* snapshot (GET snapshot, session.attached, a session event) and later    *)
(* submits edits whose base revisions come from that snapshot              *)
(* (GraphTargetRef.baseRevision, RuntimeViewPatch.baseViewRevision), while *)
(* others edit, undo and redo.                                             *)
(***************************************************************************)
EXTENDS RuntimeSession

CONSTANTS
    Clients,     \* actors that work from a snapshot
    NoSnapshot

ASSUME ClientsAssumption == Clients \subseteq Actors

VARIABLES
    seen,   \* the snapshot each client works from
    epoch   \* counts loads and clears: history, not part of the program

clientVars == <<vars, seen, epoch>>

\* The format of the values an edge of the root graph carries is that of its
\* source port; an edge without a source has none.
value_format_for_edge(g, e) == g.nodes[e.src]

derive_runtime_binding_formats(g) ==
    [i \in {j \in DOMAIN g.edges : g.edges[j].src \in DOMAIN g.nodes} |->
       [format |-> value_format_for_edge(g, g.edges[i]), revision |-> g.rev]]

snapshot == [project |-> project, revision |-> revision, viewRevision |-> viewRevision,
             bindings |-> derive_runtime_binding_formats(project.graph), epoch |-> epoch]

ClientInit == Init /\ seen = [c \in Clients |-> NoSnapshot] /\ epoch = 0

ReadSnapshot(c) ==
    /\ Loaded
    /\ seen' = [seen EXCEPT ![c] = snapshot]
    /\ UNCHANGED <<vars, epoch>>

\* The edit is accepted only if the base revision the client holds is the
\* target's revision now, whatever happened in between.
SubmitEdit(c, t) ==
    /\ seen[c] # NoSnapshot
    /\ Edit(c, t, target_graph(seen[c].project, t).rev)
    /\ UNCHANGED <<seen, epoch>>

SubmitViewPatch(c) ==
    /\ seen[c] # NoSnapshot
    /\ PatchView(c, seen[c].viewRevision)
    /\ UNCHANGED <<seen, epoch>>

\* Edits of everyone else, always based on the current revisions.
OtherEdit ==
    /\ \/ Loaded /\ \E a \in Actors \ Clients, t \in Targets :
                      Edit(a, t, target_graph(project, t).rev)
       \/ \E a \in Actors \ Clients : PatchView(a, viewRevision)
    /\ UNCHANGED <<seen, epoch>>

Reload ==
    /\ (\E doc \in Projects : load_project(doc)) \/ clear
    /\ epoch' = epoch + 1
    /\ UNCHANGED seen

ClientNext ==
    \/ \E c \in Clients : ReadSnapshot(c)
    \/ /\ Within
       /\ \/ \E c \in Clients : SubmitViewPatch(c) \/ \E t \in Targets : SubmitEdit(c, t)
          \/ OtherEdit
          \/ UndoRedo /\ UNCHANGED <<seen, epoch>>
          \/ Reload

ClientSpec == ClientInit /\ [][ClientNext]_clientVars

----------------------------------------------------------------------------
Comparable(c) == Loaded /\ seen[c] # NoSnapshot /\ seen[c].epoch = epoch

\* An edit of the root graph is accepted only by a client that knows the graph
\* it edits: within one loaded project the root revision is never used again
\* for other contents, not even after undo and redo.  The same holds for the
\* formats of values, which the snapshot numbers with the root revision: a
\* binding with the number the client knows has the format it knows.
RootRevisionNamesGraph ==
    \A c \in Clients :
      (Comparable(c) /\ seen[c].project.graph.rev = project.graph.rev)
      => /\ seen[c].project.graph = project.graph
         /\ seen[c].bindings = derive_runtime_binding_formats(project.graph)

=============================================================================
