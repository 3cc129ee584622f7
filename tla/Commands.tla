------------------------------- MODULE Commands -------------------------------
(***************************************************************************)
(* What realtime commands do to the session and what clients are told of   *)
(* it (realtime.rs: handle_graph_command, handle_control_command,          *)
(* handle_presence_update, handle_node_catalog_request).  A handler runs   *)
(* beside the handlers of other sockets: it takes its event sequence,      *)
(* then the session lock, and publishes after the lock is free.  Retries,  *)
(* replay and loss of frames are in Realtime.                              *)
(*                                                                         *)
(* A graph is [revision, nodes], nodes a function from ids to [kind,       *)
(* param]; an id is <<base, index>>, written base or base_index.           *)
(***************************************************************************)
EXTENDS Integers, Sequences, FiniteSets, FiniteSetsExt, SequencesExt

CONSTANTS
  Clients,
  Requests,     \* frames clients send: [kind, path, id, text, param, policy, named, complete, hot]
  Resolution,   \* text -> node kind, "unresolved" for none (see ObjectText)
  Document,     \* the loaded document: path -> graph
  Feeds,        \* pairs of ids: a message to the first goes on to the second
  Root, Patch,  \* paths
  PresenceLimit, \* entries of the presence table
  MaxFrames,    \* bound: frames sent
  MaxOutside,   \* bound: requests over HTTP
  None

\* A hello asks for the node catalog in one of three ways.
ASSUME RequestsAssumption ==
  \A r \in Requests : r.kind = "session.hello" => r.text \in {"none", "ifChanged", "always"}

VARIABLES
  session,      \* the runtime session
  sequence,     \* last event sequence
  job,          \* client -> the frame its handler works on, or Idle
  published,    \* events in the order they were published
  presence,     \* presence table: client -> sequence
  frames, outside, \* counts, for the bounds
  epoch,        \* history: times the control values were reset
  silent,       \* history: the values were changed without an event since
  held,         \* client -> the node catalog it has, None for none
  missed        \* history: clients whose catalog may be an old one

vars == <<session, sequence, job, published, presence, frames, outside,
          epoch, silent, held, missed>>

(***************************************************************************)
(* The session.                                                            *)
(***************************************************************************)
\* Values of the root graph's value objects, as the document has them.
from_graph(document) ==
  LET nodes == document[Root].nodes IN
  [id \in {n \in DOMAIN nodes : nodes[n].kind = "float"} |-> nodes[id].param]

\* What a catalog shows of a patch is its interface.
node_catalog_visible_key(document) ==
  {id \in DOMAIN document[Patch].nodes : document[Patch].nodes[id].kind = "inlet"}
catalog_projection(document) == node_catalog_visible_key(document)

refresh_node_catalog_cache(cache, document) ==
  IF cache.key = node_catalog_visible_key(document) THEN cache
  ELSE [key |-> node_catalog_visible_key(document), snapshot |-> catalog_projection(document)]

\* apply_project_document_update: an edit is installed.
apply_project_document_update(s, document) ==
  [s EXCEPT !.document = document, !.past = Append(@, s.document), !.revision = @ + 1,
            !.values = from_graph(document), !.control_revision = 0,
            !.catalog = refresh_node_catalog_cache(@, document)]

\* restore_project_document_state, exact undo.
restore_project_document_state(s, document) ==
  [s EXCEPT !.document = document, !.past = Front(@), !.revision = @ + 1,
            !.values = from_graph(document), !.control_revision = 0,
            !.catalog = refresh_node_catalog_cache(@, document)]

\* apply_mutation, a view patch: the plan and the control state are built anew.
apply_view_patch(s) ==
  [s EXCEPT !.view = @ + 1, !.revision = @ + 1, !.values = from_graph(s.document)]

\* ControlState::apply_event for value objects: <<accepted, values>>.
apply_event(s, id, param) ==
  IF id \notin DOMAIN s.values THEN <<FALSE, s.values>>
  ELSE <<TRUE, [n \in DOMAIN s.values |-> IF n = id \/ <<id, n>> \in Feeds THEN param ELSE s.values[n]]>>

apply_control_event(s, id, param) ==
  LET outcome == apply_event(s, id, param) IN
  [s EXCEPT !.values = outcome[2],
            !.control_revision = IF outcome[2] # s.values THEN s.control_revision + 1 ELSE s.control_revision]

changed_control_values(before, after) ==
  [n \in {m \in DOMAIN after : m \notin DOMAIN before \/ before[m] # after[m]} |-> after[n]]

(***************************************************************************)
(* Edits: the document after an edit of one graph, <<>> if it is refused.  *)
(***************************************************************************)
next_generated_node_id(base, used) ==
  <<base, Min({i \in 1..(Cardinality(used) + 1) : <<base, i>> \notin used})>>

materialize_object_command_node(r) ==
  CASE Resolution[r.text] # "unresolved" -> <<[kind |-> Resolution[r.text], param |-> r.param]>>
    [] Resolution[r.text] = "unresolved" /\ r.policy = "materialize" ->
         <<[kind |-> "unresolved", param |-> r.param]>>
    [] OTHER -> <<>>

WithNodes(document, path, nodes) ==
  <<[document EXCEPT ![path] = [revision |-> @.revision + 1, nodes |-> nodes]]>>

Put(nodes, id, node) == [n \in DOMAIN nodes \cup {id} |-> IF n = id THEN node ELSE nodes[n]]

apply_object_create(document, r) ==
  LET nodes == document[r.path].nodes
      id == IF r.id # None THEN r.id ELSE next_generated_node_id(r.text, DOMAIN nodes)
      node == materialize_object_command_node(r)
  IN IF node = <<>> \/ id \in DOMAIN nodes THEN <<>>
     ELSE WithNodes(document, r.path, Put(nodes, id, node[1]))

apply_object_replace(document, r) ==
  LET nodes == document[r.path].nodes
      node == materialize_object_command_node(r)
  IN IF node = <<>> \/ r.id \notin DOMAIN nodes THEN <<>>
     ELSE WithNodes(document, r.path, Put(nodes, r.id, node[1]))

apply_node_delete(document, r) ==
  LET nodes == document[r.path].nodes IN
  IF r.id \notin DOMAIN nodes THEN <<>>
  ELSE WithNodes(document, r.path, [n \in DOMAIN nodes \ {r.id} |-> nodes[n]])

\* node.update, and a change set that sets parameters.
apply_node_update(document, r) ==
  LET nodes == document[r.path].nodes IN
  IF r.id \notin DOMAIN nodes THEN <<>>
  ELSE WithNodes(document, r.path, [nodes EXCEPT ![r.id].param = r.param])

Edited(document, r) ==
  CASE r.kind = "node.create" -> apply_object_create(document, r)
    [] r.kind = "node.replace" -> apply_object_replace(document, r)
    [] r.kind = "node.delete" -> apply_node_delete(document, r)
    [] r.kind \in {"node.update", "collaboration.changeSet"} -> apply_node_update(document, r)

EditKinds == {"node.create", "node.replace", "node.delete", "node.update", "collaboration.changeSet"}

(***************************************************************************)
(* Handlers.                                                               *)
(***************************************************************************)
\* A handler that waits for a frame.
Idle == [request |-> None, step |-> "idle", sequence |-> 0, events |-> <<>>, catalog |-> <<>>, known |-> None,
         session_revision |-> None, target_revision |-> 0, view_revision |-> 0]

Init ==
  /\ session = [document |-> Document, past |-> <<>>, revision |-> 1, view |-> 0,
                values |-> from_graph(Document), control_revision |-> 0,
                catalog |-> [key |-> node_catalog_visible_key(Document),
                             snapshot |-> catalog_projection(Document)]]
  /\ sequence = 0 /\ job = [c \in Clients |-> Idle] /\ published = <<>>
  /\ presence = <<>> /\ frames = 0 /\ outside = 0
  /\ epoch = 0 /\ silent = FALSE
  /\ held = [c \in Clients |-> None] /\ missed = {}

histories == <<epoch, silent, held, missed>>
counts == <<frames, outside>>

NeedsSequence(r) == r.kind \notin {"nodeCatalog.request", "session.hello", "unsupported"}

\* A frame arrives and takes its sequence.  The revisions in it are those the
\* client saw last; only some name the session's.
ReceiveFrame(c, r) ==
  /\ job[c].step = "idle" /\ frames < MaxFrames
  /\ frames' = frames + 1
  /\ sequence' = IF NeedsSequence(r) THEN sequence + 1 ELSE sequence
  /\ job' = [job EXCEPT ![c] =
       [request |-> r, step |-> "apply", sequence |-> sequence', events |-> <<>>, catalog |-> <<>>, known |-> held[c],
        session_revision |-> IF r.named THEN session.revision ELSE None,
        target_revision |-> session.document[r.path].revision, view_revision |-> session.view]]
  /\ UNCHANGED <<session, published, presence, outside, histories>>

At(c, step, kinds) == job[c].step = step /\ job[c].request.kind \in kinds

\* The answer is sent to the client, and that is all there is.
Answer(c) == job' = [job EXCEPT ![c] = Idle]

\* A command is refused: the session stays as it is.
graph_command_rejected(c) == Answer(c) /\ UNCHANGED <<session, histories>>

\* A frame that no handler takes is answered with runtime.error.
runtime_error(c) == Answer(c) /\ UNCHANGED <<session, sequence, published, presence, counts, histories>>

Event(type, c, content) ==
  [type |-> type, sequence |-> job[c].sequence, content |-> content, epoch |-> epoch']

SessionRevisionFits(c) == job[c].session_revision \in {None, session.revision}

\* validate_object_command_target
TargetFits(c) == session.document[job[c].request.path].revision = job[c].target_revision

\* Faulty variant: only what is new in a catalog counts.
CatalogGrowth(before, after) ==
  IF after.catalog.snapshot \subseteq before.catalog.snapshot THEN <<>> ELSE <<after.catalog.snapshot>>

\* with_catalog_change compares the catalogs before and after, under the lock:
\* <<>> or the new catalog.
CatalogChange(before, after) ==
  IF before.catalog.snapshot # after.catalog.snapshot THEN <<after.catalog.snapshot>> ELSE <<>>

\* GraphCommandOutcome: what is left to acknowledge and publish.
Outcome(c, events, catalog) ==
  job' = [job EXCEPT ![c].step = "tell", ![c].events = events, ![c].catalog = catalog]

\* A catalog change applied and not yet published.
ChangeUnderWay == \E d \in Clients : job[d].catalog # <<>>

\* A command that edits a graph.  Its catalog change, if it is the only one
\* under way, brings every client up to date.
ApplyEdit(c) ==
  /\ At(c, "apply", EditKinds)
  /\ LET r == job[c].request
         document == IF r.complete /\ SessionRevisionFits(c) /\ TargetFits(c)
                     THEN Edited(session.document, r) ELSE <<>>
         after == apply_project_document_update(session, document[1])
         catalog == CatalogChange(session, after)
     IN IF document = <<>> THEN graph_command_rejected(c)
        ELSE /\ session' = after
             /\ epoch' = epoch + 1 /\ silent' = FALSE
             /\ Outcome(c, <<Event("graph.applied", c, after.revision)>>, catalog)
             /\ missed' = CASE catalog = <<>> -> missed
                            [] catalog # <<>> /\ ChangeUnderWay -> Clients
                            [] OTHER -> {}
             /\ UNCHANGED held
  /\ UNCHANGED <<sequence, published, presence, counts>>

\* view.patch: the root view only.
ApplyViewPatch(c) ==
  /\ At(c, "apply", {"view.patch"})
  /\ LET r == job[c].request
         accepted == /\ r.complete /\ SessionRevisionFits(c) /\ r.path = Root /\ TargetFits(c)
                     /\ job[c].view_revision = session.view
     IN IF ~accepted THEN graph_command_rejected(c)
        ELSE /\ session' = apply_view_patch(session)
             /\ epoch' = epoch + 1 /\ silent' = FALSE
             /\ Outcome(c, <<Event("graph.applied", c, session.revision + 1)>>, <<>>)
             /\ UNCHANGED <<held, missed>>
  /\ UNCHANGED <<sequence, published, presence, counts>>

\* node.resolve changes nothing and is answered to the sender.
ResolveObject(c) ==
  /\ At(c, "apply", {"node.resolve"})
  /\ Answer(c)
  /\ UNCHANGED <<session, sequence, published, presence, counts, histories>>

\* node.input is checked under the lock, and the lock is given back.
CheckInput(c) ==
  /\ At(c, "apply", {"node.input"})
  /\ IF job[c].request.complete /\ SessionRevisionFits(c)
     THEN job' = [job EXCEPT ![c].step = "input"] ELSE Answer(c)
  /\ UNCHANGED <<session, sequence, published, presence, counts, histories>>

\* Faulty variant: only the addressed object's value is told.
control_emitted_of_target(c, before, after, id) ==
  LET changed == [n \in {m \in {id} : before.values[m] # after.values[m]} |-> after.values[n]] IN
  IF job[c].request.hot \/ DOMAIN changed # {}
  THEN <<Event("control.emitted", c, [revision |-> after.control_revision, values |-> changed])>> ELSE <<>>

\* control_emitted_event: told when something was emitted or changed.
control_emitted(c, before, after, id) ==
  LET changed == changed_control_values(before.values, after.values) IN
  IF job[c].request.hot \/ DOMAIN changed # {}
  THEN <<Event("control.emitted", c, [revision |-> after.control_revision, values |-> changed])>> ELSE <<>>

\* apply_control_command: <<accepted, session>>, under the lock.
apply_control_command(s, r) ==
  IF apply_event(s, r.id, r.param)[1] THEN <<TRUE, apply_control_event(s, r.id, r.param)>> ELSE <<FALSE, s>>

\* node.input once checked, and control.command.
ApplyInput(c) ==
  /\ At(c, "input", {"node.input"}) \/ At(c, "apply", {"control.command"})
  /\ LET r == job[c].request
         outcome == apply_control_command(session, r)
     IN /\ session' = outcome[2]
        /\ UNCHANGED epoch
        /\ IF outcome[1] THEN Outcome(c, control_emitted(c, session, outcome[2], r.id), <<>>) ELSE Answer(c)
  /\ UNCHANGED <<sequence, published, presence, counts, silent, held, missed>>

\* prune_presence_locked: the oldest entry makes room.
prune_presence(entries) ==
  LET oldest == CHOOSE d \in DOMAIN entries : \A e \in DOMAIN entries : entries[d] <= entries[e]
  IN IF Cardinality(DOMAIN entries) <= PresenceLimit THEN entries
     ELSE [d \in DOMAIN entries \ {oldest} |-> entries[d]]

\* remember_presence: the client's entry is put in, expired ones are dropped.
remember_presence(entries, expired, c) ==
  prune_presence([d \in (DOMAIN entries \ expired) \cup {c} |->
                    IF d = c THEN job[c].sequence ELSE entries[d]])

UpdatePresence(c) ==
  /\ At(c, "apply", {"presence.update"})
  /\ \E expired \in SUBSET DOMAIN presence :
       presence' = remember_presence(presence, expired, c)
  /\ job' = [job EXCEPT ![c].step = "publish",
               ![c].events = <<[type |-> "presence.updated", sequence |-> job[c].sequence,
                                content |-> None, epoch |-> epoch]>>]
  /\ UNCHANGED <<session, sequence, published, counts, histories>>

\* A catalog revision is the catalog's digest: clients name the one they have.
catalog_revision_matches(known) == known = session.catalog.snapshot

\* Client c is answered, and has this catalog then.  While a change is under
\* way, what c misses is not settled; nor is it by "unchanged" for a catalog
\* that c asked about and has no longer.
Hold(c, catalog) ==
  /\ held' = [held EXCEPT ![c] = catalog]
  /\ missed' = IF ChangeUnderWay \/ job[c].known # held[c] THEN missed ELSE missed \ {c}

\* nodeCatalog.unchanged leaves the client with what it has.
node_catalog_response(c) ==
  IF catalog_revision_matches(job[c].known) THEN held[c] ELSE session.catalog.snapshot

\* nodeCatalog.request is answered to the sender.
RequestCatalog(c) ==
  /\ At(c, "apply", {"nodeCatalog.request"})
  /\ Answer(c) /\ Hold(c, node_catalog_response(c))
  /\ UNCHANGED <<session, sequence, published, presence, counts, epoch, silent>>

\* What session.attached and session.syncRequired say of the catalog.
hello_node_catalog_payload(c, mode) ==
  CASE mode = "none" -> held[c]
    [] mode = "ifChanged" -> node_catalog_response(c)
    [] mode = "always" -> session.catalog.snapshot

\* session.hello, as far as the catalog is concerned (see Realtime).
Hello(c) ==
  /\ At(c, "apply", {"session.hello"})
  /\ LET mode == job[c].request.text IN
     IF mode = "none" THEN UNCHANGED <<held, missed>> ELSE Hold(c, hello_node_catalog_payload(c, mode))
  /\ Answer(c)
  /\ UNCHANGED <<session, sequence, published, presence, counts, epoch, silent>>

RejectFrame(c) == At(c, "apply", {"unsupported"}) /\ runtime_error(c)

\* The event has the catalog as it was under the lock.
node_catalog_changed_event(c) ==
  [type |-> "nodeCatalog.changed", sequence |-> sequence + 1, content |-> job[c].catalog[1], epoch |-> epoch]

\* The lock is free: a changed catalog takes a sequence of its own, the result
\* is remembered and the acknowledgement sent.
Acknowledge(c) ==
  /\ At(c, "tell", {r.kind : r \in Requests})
  /\ LET change == job[c].catalog # <<>>
     IN /\ sequence' = IF change THEN sequence + 1 ELSE sequence
        /\ job' = [job EXCEPT ![c].step = "publish",
               ![c].events = IF change THEN Append(job[c].events, node_catalog_changed_event(c)) ELSE job[c].events]
  /\ UNCHANGED <<session, published, presence, counts, histories>>

\* Realtime is about how an event reaches the clients; here it is there at once.
Publish(c) ==
  /\ At(c, "publish", {r.kind : r \in Requests})
  /\ IF job[c].events = <<>> THEN Answer(c) /\ UNCHANGED <<published, held>>
     ELSE LET event == Head(job[c].events)
              catalog == event.type = "nodeCatalog.changed"
          IN /\ published' = Append(published, event)
             /\ held' = IF catalog THEN [d \in Clients |-> event.content] ELSE held
             /\ job' = [job EXCEPT ![c].events = Tail(job[c].events),
                                    ![c].catalog = IF catalog THEN <<>> ELSE job[c].catalog]
  /\ UNCHANGED <<session, sequence, presence, counts, epoch, silent, missed>>

(***************************************************************************)
(* Requests over HTTP, which realtime clients are not told of.             *)
(***************************************************************************)
Outside == outside < MaxOutside /\ outside' = outside + 1

Undo ==
  /\ Outside /\ session.past # <<>>
  /\ LET restored == [Last(session.past) EXCEPT ![Root].revision = session.document[Root].revision + 1]
         after == restore_project_document_state(session, restored)
     IN /\ session' = after
        /\ missed' = IF after.catalog.snapshot # session.catalog.snapshot THEN Clients ELSE missed
  /\ job' = job
  /\ epoch' = epoch + 1 /\ silent' = FALSE
  /\ UNCHANGED <<sequence, published, presence, frames, held>>

HttpControl(id, param) ==
  /\ Outside /\ id \in DOMAIN session.values
  /\ session' = apply_control_event(session, id, param)
  /\ silent' = (silent \/ session'.values # session.values)
  /\ UNCHANGED <<sequence, job, published, presence, frames, epoch, held, missed>>

Next ==
  \/ \E c \in Clients :
       \/ \E r \in Requests : ReceiveFrame(c, r)
       \/ ApplyEdit(c) \/ ApplyViewPatch(c) \/ ResolveObject(c) \/ CheckInput(c) \/ ApplyInput(c)
       \/ UpdatePresence(c) \/ RequestCatalog(c) \/ Hello(c) \/ RejectFrame(c) \/ Acknowledge(c) \/ Publish(c)
  \/ Undo
  \/ \E r \in Requests : r.kind = "control.command" /\ HttpControl(r.id, r.param)

Spec == Init /\ [][Next]_vars
-----------------------------------------------------------------------------
(***************************************************************************)
(* Properties.                                                             *)
(***************************************************************************)
Quiet == \A c \in Clients : job[c].step = "idle"

(* When every handler is done, a value object has the value that the
   control.emitted event with the greatest controlRevision gives it, or the
   document's when none names it.  Sequences do not order the events: they are
   taken before the lock.  Every edit and view patch resets the values, so the
   events since the last one count; HTTP control events are not told. *)
LatestToldIsCurrent ==
  (Quiet /\ ~silent) => \A id \in DOMAIN session.values :
    LET told == {e \in Range(published) : e.type = "control.emitted" /\ e.epoch = epoch
                                          /\ id \in DOMAIN e.content.values}
        latest == CHOOSE e \in told : \A d \in told : d.content.revision <= e.content.revision
    IN session.values[id] = IF told = {} THEN from_graph(session.document)[id] ELSE latest.content.values[id]

(* When every handler is done, a client that has a node catalog -- from
   session.attached, from an answer or from nodeCatalog.changed -- has the
   session's, unless undo changed it since (over HTTP no event is sent) or two
   changes were under way at once (their events are published in either order,
   and a catalog revision is a digest that does not order them).  Asking again
   repairs both. *)
CatalogIsTold ==
  Quiet => \A c \in Clients \ missed : held[c] \in {None, session.catalog.snapshot}

(* A view patch moves objects and leaves control values alone. *)
ViewPatchKeepsControls == [][session'.view # session.view => session'.values = session.values]_session
=============================================================================
