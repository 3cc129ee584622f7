# Verification of the Skenion runtime

This directory holds a TLA+ model of the Skenion runtime: the server that keeps
a patch project in memory, lets several clients edit it at once, plans and runs
it, and tells every client what changed. Modules are checked with TLC on small
instances; theorems are proved with TLAPS for every instance.

## 1. The system

| Part | State | Operations | Talks to |
| --- | --- | --- | --- |
| Runtime session (`session.rs`) | project document, execution plan, session, view and control revision, control state, history log, undo and redo stack | load, clear, plan, run; change sets, object create/replace, node delete/update, paste; view patches; control events; undo/redo, also per actor | called by HTTP handlers, collaboration and realtime under one read-write lock |
| Validation and planning (`project_current.rs`, `planner.rs`, `validation.rs`) | none | validate a document, expand subpatches, order nodes | called by the session |
| Object text and catalog (`object_text.rs`, `registry.rs`, `conversion.rs`) | none; derived from the project | resolve a text, list the catalog, give planning the node definitions | session, realtime |
| Control state (`control_state.rs`, `control_value.rs`) | value per node, named channels, cold operands | apply an event, propagate messages | the session |
| Realtime channel (`realtime.rs`) | event sequence, bounded event store, results by idempotency key, resume tokens, presence; per socket: identity, high water mark | `session.hello`, `graph.command`, `control.command`, `presence.update`, `nodeCatalog.request`; replay, live delivery, lag | one task per socket; a broadcast channel; the session |
| Session registry (`session_registry.rs`) | sessions by id, bounded session event store, listeners | create, look up; publish, capture a replay, stream | HTTP handlers |
| Collaboration (`collaboration.rs`, `runtime_transport.rs`) | operation results by key, presence, selection, bounded event store, operation guard | submit an operation or a batch, presence, selection, replay, stream | HTTP handlers, the session |
| Preview (`preview_manager.rs`, `visual.rs`, `render/`) | the preview process, its context, the last control snapshot | start, stop, update control state, poll | HTTP handlers; a child process that reads files |
| Audio (`dsp.rs`, `audio_backend.rs`) | plan, buffers, phases | plan, render offline, serve the device's callback | the project |
| Extensions and packages (`extension_manager.rs`, `package_registry.rs`) | registry, diagnostics | scan the configured directories once | server start, the log |
| Log store (`log_store.rs`) | bounded backlog, listeners | record, stream | every handler that answers with diagnostics |
| MIDI clock (`clock.rs`) | snapshot of the sender's clock, source of its position, timeline | apply a message, run a fixture | command line |
| HTTP server (`server.rs`) | none of its own | one handler per route; takes the locks of the parts above one after the other | all parts |

What is hard: several actors edit one document and undo edits from the middle
of the history; clients submit edits based on snapshots that may be old;
handlers interleave between any two critical sections; acknowledgements, events
and snapshots travel separately; frames get lost and commands are sent again;
stores, queues and caches are bounded; a child process and other programs
share files with the runtime; hash sets leave the order of work open.
`PROJECT.json` lists every such hazard at its line with the properties that
cover it.

## 2. Modules

```
GraphDocument            documents and the pure edits of the session
  RuntimeSession         the session: one action per call under the write lock
    SessionClients       clients that edit from snapshots
      SessionProofs      theorems of all three
Realtime                 the WebSocket channel: socket tasks and shared state
  RealtimeProofs         its theorems
Commands                 what each kind of command does and what clients are told
  CommandsProofs         its theorems
Collaboration            operations, batches, presence and selection over HTTP
  CollaborationProofs    its theorems
EventStreams             event store and event stream, session or collaboration
ObjectText               object text, the catalog, node definitions
  Planning               expansion, boundary contraction, ordering, installation
    PlanningProofs       its theorems, with the refinement of PlannedProject
PlannedProject           what planning promises; Planning implements it
ControlState             messages through a control graph
  ControlProofs          its theorems
Preview                  preview managers, their child processes and files
  PreviewProofs          its theorems
AudioDsp                 audio plan, offline renderer, realtime executor
RuntimeLogs              the log and its streams
  Registries             extension and package scan, then serving
MidiClock                the MIDI clock adapter
  ServicesProofs         theorems of EventStreams, AudioDsp, RuntimeLogs, Registries, MidiClock
MC*                      instances for TLC
```

**GraphDocument** has no variables. A graph maps node ids to contents and edge
ids to edges and carries a revision; a project is a root graph with a view (one
position per node) and the graphs of the patch library. Contents stand for kind,
parameters and ports together: `Sources` and `Sinks` are those that have the
ports an edge needs. Edits that the code may refuse return the set of possible
results, with at most one element. Merged undo and redo
(`project_document_history_delta`) are translated rule by rule, with what they
leave out: deleted nodes and edges are not put back.

**RuntimeSession** has the fields of the struct as variables. The plan is
reduced to the root revision it was built for. A refused call that changes
nothing is a stuttering step; the refusal that drops the plan
(`apply_mutation_without_plan`) is an action. Base revisions are parameters, so
that **SessionClients** can supply old ones; there, `epoch` counts loads and
only serves the property.

**Realtime** models the socket task with a step between any two critical
sections that matter: reading the snapshot and the rest of `session.hello`;
cache lookup with sequence allocation, apply, `remember_ack`, sending the
acknowledgement, storing and broadcasting. The session is reduced to the list of
applied commands; `known` says which of their sequences a client has learnt on
the socket. A full queue drops its oldest event and marks the socket as lagged,
which is how the broadcast channel of tokio behaves (external). The time to live
of resume tokens and of remembered results is up to chance: `ExpireToken` takes a
token away, `ResultAges` marks a result that the next prune drops (`aged`).

**Commands** has the same handlers from the other side: which part of the
session each command reads and writes, under which lock, and which
`control.emitted`, `nodeCatalog.changed` and `presence` events come of it, while
HTTP requests change the session beside them. Loss and replay are Realtime's
affair.

**Collaboration** translates the validators of `runtime_transport.rs` (envelopes
are records of the fields they look at), the handlers with the operation guard
and its poisoning, the remembered results with their pruning by time stamp, the
rebase, batches, presence and selection. The guard is held from start to end, but
the session's revision is read before the write lock is taken, so an operation is
three steps; WebSocket and HTTP edits come in between. `applied`, `latest` and
`unsound` only serve properties.

**EventStreams** models one event log and one client that connects, reads,
disconnects and connects again with its last event id. `kind` tells the
session's log (subscribe, snapshot, mark, replay; events carry the state, so the
newest one makes up for older ones) from the collaboration log (mark, replay,
subscribe; every event counts). Publishers take turns, as they do in the code
under the session's write lock or the operation guard.

**ObjectText** and **Planning**: a text is a class with arguments, resolved among
core objects and the project's patches; a request loads a payload (a document, or
an older wrapper of a graph and a library, which brings no node definitions of
its own) or edits a graph; planning expands patches in place, joins cables
across inlets and outlets in any order (the code iterates a `HashSet`),
validates, orders by Kahn's algorithm and installs, or changes nothing.
**PlannedProject** states the promise on the document as written, without
expansion: places, objects and cables are defined on the document, and the plan
runs every object of every patch instance once and after what feeds it.
`PlansTheDocument` is `Promise!Spec` with the installed document and plan as the
mapping. `opened` is a history variable that only the proof looks at.

**ControlState** works on a staged copy with a stack of emissions, round by round,
and installs the copy at the end, as the code does under one lock. Floats count
halves so that truncation shows; a text is a sequence of tokens. Storing a value
converts it as `conversion.rs` does: it is sanitized to 64 bits, then the
representation's step is taken, which clamps integers, colours and the unsigned
formats at zero, and makes a float too large for its format infinite
(`quantize_float`, with `FloatMax` for each format's largest number). A rounding
finer than a half, and JSON's null for an infinity that is written out, are left
out. Of the answer's
emissions the model keeps the newest message of each output (`emitted`), or
notes that there is no such thing: an output that emits while an older emission
of its own still waits on the stack is delivered newest first (`Told`).

**Preview** models all sessions of one runtime process, because their previews
share a directory of temporary files. A handler that reads the session and then
works on the preview is two actions, with what it read kept in `request`. A
method of the manager is an operator from its state to the set of states it may
leave, one for each outcome of its system calls; `Commit` installs one of them
under the preview lock. The child reads its document, then its control file, and
then looks at the control file in every frame. `lost` names processes whose
handle was dropped after a failed `try_wait`, `kill` or `wait`, `raced` sessions
whose last clear a start overlapped, `overwritten` children whose document a start
of another session replaced before they read it: the file is named by the session
revision alone.

**AudioDsp** plans one graph and renders it, offline or in realtime, every node
of a block a step. Samples are integers and an oscillator's phase runs through
`0..Turn-1`; what matters is which buffer is read when. The search for a route
between an input and an output is the code's, round by round with its stack; its
judgement is compared with routes told without one (`Leads`: no set of nodes that the
edges do not leave holds one end alone). What is rendered is compared with `Signal`,
the graph's signal as a function of node and time, without plan, blocks or buffers.

**Registries** reads directory after directory, look by look, while another
program may rewrite one; then the server records the diagnostics in the log and
serves. **RuntimeLogs** stores under the lock and broadcasts after it.

**MidiClock** applies a fixture's messages. The contracts library's
`apply_midi_clock_message` is external: whether a tick moves the position is
left open.

Operators introduced as *faulty variants* are not used by any specification.
Each one is a plausible mistake in the definition it stands in front of, and the
property named in `PROJECT.json` fails when it takes the definition's place.

## 3. Runs

| Run | Shows |
| --- | --- |
| `session` | Two actors, two nodes, two edges, five revisions: view and graph agree, the stored document always has a plan, a plan belongs to the present graph, the stacks are what the log says, undo and redo leave others' nodes, edges and canvas positions alone, and the session revision names one document. |
| `clients` | Edits from old snapshots, with a patch definition beside the root: within one load the root revision never names two graphs. |
| `realtime` | Two clients, two sockets, a window of one event, lost frames and retries: nothing is lost without notice, nobody is shown an edit that was not made, a result is forgotten only for one of three reasons, one token per identity. |
| `delivery` | What was applied was published or is about to be; liveness: broadcast events reach attached clients. |
| `commands` | Two clients, three frames of any kind and one HTTP request: the newest control value and catalog a client was told are the session's, judged by control revision and per client. |
| `collaboration` | Operations, batches, retries, presence of two participants, a store of two results: keys are used once, events come out in order, a rebase names the revision applied to, panics have three known causes only, the presence table keeps who is there. |
| `planning` | Documents with nested, shared, looping, misnamed and recursive patches, three requests: the refinement, termination, and that documents and catalog entries stay usable. |
| `control` | Eight control graphs, four events: values keep type, representation and, with the exceptions below, range; receivers agree with channels, values downstream follow the reported emissions unless one overtook another, every event ends. |
| `preview` | Two sessions whose previews share a directory, two starts, any system call may fail: a running child is its manager's, a preview that is not stale renders its own session's document unless another session's start replaced the file, the reported control revision is true, a clear that no start overlaps stops it. |
| `services` | Five services without shared state. A behaviour picks one and leaves the others as they start, so the states of the run are the sum of theirs: event streams over reconnections, eviction and lag; audio graphs in every node order and cut of time; registries scanned while directories change; log streams that open while handlers record; MIDI fixtures of up to four messages. |

Two runs end in a violation, each a disagreement between the code and what it
says of itself (`findings` in `PROJECT.json`):

* `results_validate`: the handler asserts that every result validates, but a
  refusal repeats the causal record it refuses. The handler panics with the
  operation guard held, and every later collaboration handler finds it poisoned.
* `view_patch`: `docs/api-inventory.md` says that `view.patch` does not touch
  control values; it rebuilds the control state from the document.

What the code guarantees less than one might expect, found while modelling. Where
a property carries an exception, the exception is this:

* A merged undo does not put back what the edit deleted, so undoing two edits in
  order may leave an edge missing (`project_document_history_delta`).
* Undo gives a patch definition and the view their old revisions back, and the
  next edit uses them for something else; only the root and the session revision
  are safe to compare (`RootRevisionNamesGraph`, `RevisionNamesDocument`).
* A command sequenced before and applied after a hello's snapshot is filtered out
  by the high water mark; `NoSilentLoss` speaks of events above the mark.
* A result may be pruned before its event is published; a retry is applied again
  once a later event was published or a window of sequences was used, whether the
  client was shown it or not, and also when nothing happened but the result's time
  to live passed (`RetryIsRemembered`). Two
  sockets with one identity may apply a command twice (`Overlap`); an up-to-date
  client may be resynchronised because refused commands use up sequences.
* A handler that cannot send an acknowledgement never publishes the event of the
  command it has applied. The property has this as its exception
  (`AppliedIsPublished`): it shows that nothing else keeps an event back.
* A definition added for an object whose creation is refused is taken away again
  (`session.rs:845`). No property would notice if it stayed: it makes no plan fail.
* An extension is judged by what the scan saw; its files may be gone when the listing
  is read. `LoadedIsUsable` speaks of the moment of the judgement.
* `LossOnlyWhileOpening`, `TwiceOnlyWhenLate`: snapshot, mark and store are read
  one after the other; the collaboration stream even subscribes last. After a
  server restart a client's cursor lies above every sequence and nothing says so.
* A batch without operations makes its handler panic (it asserts that the answer
  validates), with no lock held. An acknowledgement's server clock may repeat a
  client's vector that is ahead of the server (`KnownPanics`).
* An "unchanged" catalog answer may name a revision the client no longer has; two
  clients may hear of two catalog changes in different orders (`CatalogIsTold`).
* A patch that takes a core object's name makes that kind unknown to the next
  load, and the catalog lists entries that cannot be created
  (`SavedObjectsLoad`, `CatalogTextCreates`). Graph revisions that are no numbers
  all give binding formats the revision 1.
* Emissions are kept on a stack. An object that is reached twice, in one round or
  along two paths of different length, emits twice before anything is delivered;
  the newer emission goes first and the objects after it end with the older one,
  while the answer lists the newer last (`TargetsFollowReports`). A channel's entries
  per message kind may disagree with the receivers (`ReceiversFollowChannel`).
* Values out of their range (`ValuesKeepTheirType`): a parameter is stored
  unchecked; an object of a narrow float format stores infinity when it is sent a
  finite number above the format's largest (the value is sanitized before it is
  narrowed, `conversion.rs:42`, `:93`); an operator's result is a finite 64-bit
  number, whatever the representation of the object.
* In realtime, frames of a block that do not fit a callback are dropped
  (`dsp.rs:487`); an edge against the plan order is silent offline and one block
  late in realtime, unless it leads into the output, which is read when the block is
  complete (`RenderingIsSignal`); the search for clock bridges looks at one route per node
  (`CrossingsAreJudged`).
* `ClearStopsPreview`: a start that reads its context before a clear starts the
  preview of the project that is gone. `control_live` compares control revisions
  only, so a late snapshot may count as live. Two sessions at the same revision
  share one document file (`preview_document.rs:52`): a start in one replaces what the
  other's child has not read yet, and that preview renders the wrong document while its
  status says otherwise (`RendersSessionPlan`).
* A log event may reach a stream twice, from the backlog and live.

**Bounds.** `MaxRevision` bounds session and control revisions: five calls are enough
for load, three edits and a merged undo, or load, two edits and two undos.
`MaxSequence` bounds event sequences and `MaxConnection` identities and aged results
together; with a window of one or two events they reach eviction, lag, expired cursors
and resumption. `MaxFrames` and `MaxOutside` bound commands and HTTP requests: three
frames are two racing commands and one that follows. `MaxTime` bounds the clock of the
presence table, `RetentionLimit` and `PresenceLimit` are its limits made small.
`MaxRequests` lets a document be loaded, edited and loaded again; `MaxSubpatchDepth`
is the code's limit made small. `SafetyLimit` is the number of rounds the code allows,
made small; `MaxEvents` bounds control events. `MaxFloat` is the largest 64-bit
number, `FloatMax` the largest of each narrower format: events carry numbers between
the two. `MaxStarts` bounds preview processes, `MaxRevision` and `MaxControl` the
edits and control events of all sessions together, `MaxServed` the sessions
that handlers serve at one moment (both requests may be of one session; the theorems
have no such limit), `MaxLost` processes lost to a failing system call: two sessions at
one revision, one starting before the other's child has read its file, fit in. `MaxBlocks` bounds
rendering, `MaxChanges` rewritten directories, `MaxLogEvents` log events. Runs stop at
their bounds, so deadlock is not checked. Actors, clients, requests and sockets are
symmetric where no liveness is checked.

**Fairness.** In Realtime, weak fairness of each handler's own steps: it is one
task of the async executor, and a task that can run is run. In ControlState and
Planning, weak fairness of the steps of a call that has begun: it runs under a
lock on one thread and waits for nothing. Nothing is assumed of clients: they may
never connect, speak or close.

## 4. Proofs

A theorem holds for every value of the constants: any number of sockets, clients,
actors, sessions and requests, any documents and limits. It is stated of the
module's `Spec` (without fairness), with the actions the runs check. The
assumptions are the named ASSUMEs of the modules, which TLC evaluates on every
run: the constants are of their types, limits are positive, special values are
not ordinary ones. Four assume more, each because the code makes sure of it:
`GraphsAssumption` (ControlState: node ids are unique, `validation` refuses a
document otherwise), `RequestsAssumption` (Commands: the catalog mode of a hello
is one of the enumeration's), `CollaborationAssumption` (envelopes have the fields
of the wire types), `GraphsAssumption` (AudioDsp: edges join nodes of their graph,
parameters are numbers). One theorem has a hypothesis of its own:
`RetriesAreRemembered` assumes `Overlap = FALSE`, because two sockets with one
identity really do apply a command twice.

Every proof has the same outline: the invariant is given as a conjunction of
named parts, one lemma per action (or per action and part) shows that a step keeps
it, the property follows from it. What the invariants add, and why:

**SessionProofs.** `DocumentInv` needs the types of stacks and log, because undo and
redo install what the stacks hold. Every mutating call is first summed up as one of
five kinds of step (started over, replaced, history move, new edit, document kept),
which the later proofs use in place of the calls. `HistoryMatchesLog` computes stacks
from the log by a recursive function; `StacksInv` says what it yields without
recursion (an edit is undoable if the last entry about it is no undo, redoable if it
is one and no edit came later, and is on a stack once), since undo and redo by actor
take edits from the middle. `RevisionNamesDocument` and `UndoKeepsOthersWork` are
action properties; the latter compares the graphs' nodes and edges and the view's
positions, which the merge computes apart. `SnapshotInv` lets a client's snapshot be
of an earlier load, and compares graphs only within one.

**RealtimeProofs.** `TaskShape`: a busy handler serves an attached socket, so the head
of its events exists. `EventsApplied` follows graph events wherever they are.
`HelloCovers`: while a hello is under way, an event is in the snapshot, in the queue,
or dropped with a mark; it rests on the handler subscribing before its first hello and
not receiving during one. `PublishedOrHeld` gives `AppliedIsPublished`.
`RetryIsRemembered` needs most: identities belong to one socket at a time
(`SocketsInv`), sequences are handed out once (`SequencesInv`), and an applied command
is remembered, about to be, or forgotten for a reason (`RememberedInv`); that pruning
forgets only for a reason is a case for the store, one for the age and a counting
argument over the window (`FS_Injection`). The property once spoke of events a client
was shown; that was false on larger instances and now it speaks of what was published.

**CommandsProofs.** `ControlInv`: the emitted control events, published or still with a
handler, carry growing control revisions since the values were last reset, and the
newest of those about a value has it. `HoldInv`: where a client may count on its
catalog, every unfinished change of the catalog is the present one.

**CollaborationProofs.** `HandlersInv` says what the holder of the guard knows: target,
causal record, rebase and reserved sequence, above everything in the log. It gives
`KnownPanics`, `PublishedInOrder` and `RebaseIsExact`. `KeysInv` counts, for each
remembered result, those that came after it, because pruning drops the oldest.
`PresenceInv` compares the table with all updates within the time to live.

**PreviewProofs.** The manager's methods are sets of outcomes, so their lemmas speak of
one outcome each. `Known`: what a request, a file or a child carries was once the
session's, and with equal revisions it is equal. `Holds` ties a live process to its
manager's handle, `Reports` a status to its file, `Apart` the control files of two
sessions. Document files are not apart. `OwnInv`: what is in the file of a child that has
not read it, or in the child that has, is its own session's, unless it is `overwritten`;
a write by another session adds to that set, and a file that is removed shows nothing.
The attempt at `ClearStopsPreview` showed that installing a project must not reset
`raced`, which the run's bounds had hidden.

**ControlProofs.** `ShapeInv` gives the types and what a representation can hold;
`QuantizeFacts` and `ColorFacts` say what a conversion yields, overflow included. A
receiver follows its channel, in the staged copy up to deliveries on their way, which
carry the newest message of a numeric channel (`Routed`). A target follows its source:
the newest message is on the stack, or on its way with no other delivery about, or
stored (`Reaches`). The attempt found the overtaking emissions of section 3. The
deliveries of an emission are a recursive filter (`At`); what it keeps is proved once
(`AtFacts`).

**PlanningProofs.** The refinement follows a request through the phases. `DocumentsInv`:
documents are sequences of nodes, one of an id, whatever commands made of them. While
graphs are expanded, `VisitedInv` says what a turn that is over has left (a pin, an
object, an opened instance, the arcs of an edge), `ParentsInv` and `ExpandedInv` that
whatever is there came from such a turn, and `FramesInv` that the calls under way are
one instance apart, so that a path names one place; when the last call returns, objects
and arcs are the document's (`Complete`, `ArcsKept`). Contraction is the hard part: a
cable may loop through pins that are contracted in any order, and the promise builds
cables arc by arc. `KeptBy` says it without counting: every set that is `Closed` (it
holds what starts with an edge, and with a cable what an edge makes longer) holds every
cable of the document; a set closed under the contracted edges is made from one closed
under the old ones. In the ordering `CountInv` ties the indegree to the edges not yet
relaxed, `FedInv` follows, and what an empty queue leaves behind would be a cycle that
validation has refused. The attempt showed that the promise said too much: three
boundaries of one name, where `register_boundary_node` forgets the name with the second
and learns it again with the third, and cables that come back to the port they left,
which contraction drops. It now speaks of names that only one boundary bears and leaves
such cables out; a document with both is part of the run.

**ServicesProofs.** Log: `LogInv`, an event on record is on its way to an open stream,
queued or seen, or the stream was overrun and is told. Scans: `Usable` and `RootsRead`
follow the two look by look. Clock: `SourceTellsHistory`, the adapter's source is "spp"
exactly while a pointer stands and "unknown" exactly before the first start or pointer.
Event streams: one invariant for both kinds of log. `CoverInv`: every published
number is known to the client, excused by the window, or pending in one of six
places. `TwiceInv`: what was delivered is `Gone`, at or below the mark, late, or no
longer in the channel. `QueueInv` has the reason why the collaboration stream may
trust its store: the queue is the end of the store. Clock crossings: `SearchInv` says
what each round of the route search keeps. A frame's boundary is worth one route to its
node (`FrameSound`), every edge of an expanded node leads to one expanded or on the stack,
and frames, unspent edges and rounds add up to no more than the rounds there are, so that
the search is over when its model stops (`SearchEnds`). An empty stack leaves a set of
nodes that no signal edge leaves, without the output (`RouteFound`). Rendering:
the signal is defined by a recursion over times and, within one time, over the planned
order; `SignalFacts` shows that such a function exists and obeys its equation, node by
node and frame by frame. `RenderInv` says what a buffer holds in the middle of a block
(its node's samples of this block if its turn was, else silence offline and the last
block's in realtime), which phase each oscillator has, and how far output, callback and
block are apart; `InputArrives` is the step that matters, that what a node reads at a port
is what arrives there. The attempt showed that a feedback edge into the output is never
late, whatever the order, because the output is read after the block; the property
had said otherwise and now the run has such a graph (`PlayLate`).

Recursive functions are reasoned about by induction over a set of naturals
(`NatSetInduction`, from the well-foundedness of `<`), first that the function exists
and then what it yields, as the induction theorems with an operator parameter are
beyond the installed provers.

Left to TLC:

* Liveness and fairness: `BroadcastIsDelivered`, `EventsEnd`, `PlanningEnds`.
* `SavedObjectsLoad`, `CatalogTextCreates`: they compare names and kinds put together
  from strings, of which the provers only know whether two literals are equal.

## 5. Not modelled

* Audio arithmetic, device access, MIDI input, rendering, shaders: floats,
  drivers and GPU; nothing else depends on their results.
* Telemetry and preview heartbeats: numbers for display. A heartbeat file bears a
  nonce in its name and is written by one process.
* The dry-run preview handle and file removals that fail.
* Parsing of object text, JSON schemas, routing, CORS, serialisation: text
  processing and libraries.
* The registry's map of sessions (created on first use, never removed) and a
  restart of the server.
* Embedded patches nested in a node's parameters as edit targets.
* The command line and project files, the dummy scheduler (a map over the plan).

## 6. Plan

1. *Done*: the modules above with their runs; theorems for every safety property but
   two of texts and names in Planning; the refinement of `PlannedProject`.
2. An abstract exactly-once service that the retry protocol implements while the
   window lasts, with overlapping sockets; a server restart for the streams.
