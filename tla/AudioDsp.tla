------------------------------- MODULE AudioDsp -------------------------------
(***************************************************************************)
(* The audio engine (dsp.rs, audio_backend.rs): the plan built from an     *)
(* execution plan, the offline renderer, and the realtime executor that    *)
(* the device's callback drives.  One behaviour plans one graph and then   *)
(* renders it, offline or in realtime; every node of a block is one step.  *)
(*                                                                         *)
(* Samples are integers.  An oscillator's phase runs through 0..Turn-1 and *)
(* stands for its sine.                                                    *)
(***************************************************************************)
EXTENDS Integers, Sequences, FiniteSets, SequencesExt

CONSTANTS
    Graphs,        \* [nodes, kind, param, domain, edges]: documents, already lowered
    Options,       \* [block, rate, blocks, channels]: what the caller asks for
    Callbacks,     \* frames a device callback asks for
    MaxBlocks,     \* bound: blocks one executor renders
    Turn,          \* phase steps of a full turn
    DefaultFrequency,
    NoParam,       \* a node without params.value or params.frequency
    NoDomain       \* a node without params.clockDomain

VARIABLES
    graph,
    options,
    order,      \* node order of the execution plan
    engine,     \* "idle", "planned", "offline", "realtime", "done" or an error
    plan,       \* [nodes, buffers, bridges]
    at,         \* index of the plan node that is rendered next
    buffers,    \* buffer index -> samples of one block
    phases,      \* oscillator -> phase
    rendered,   \* blocks rendered so far
    reports,    \* offline: the buffers of every finished block
    snapshots,  \* offline: <<block, node, value>>
    callback    \* realtime: [total, offset, output, start]

audioVars == <<graph, options, order, engine, plan, at, buffers, phases, rendered,
               reports, snapshots, callback>>

----------------------------------------------------------------------------
(* Ports and edges                                                         *)

AudioBlockKinds == {"sig", "osc", "mul", "snapshot", "input", "output", "clock-bridge", "resample"}
SignalOutputs(kind) ==
    IF kind \in {"sig", "osc", "mul", "input", "clock-bridge", "resample", "bad"} THEN {"out"} ELSE {}
SignalInputs(kind) ==
    CASE kind \in {"mul", "output"} -> {"left", "right"}
      [] kind = "snapshot" -> {"signal"}
      [] kind \in {"clock-bridge", "resample"} -> {"in"}
      [] OTHER -> {}

Nodes(g) == ToSet(g.nodes)

is_audio_signal_edge(g, e) ==
    /\ e.fromPort \in SignalOutputs(g.kind[e.from])
    /\ e.toPort \in SignalInputs(g.kind[e.to])

\* The elements of a sequence that belong to a set, in their order.
Only(s, S) ==
    LET kept[i \in 0..Len(s)] ==
          IF i = 0 THEN <<>> ELSE IF s[i] \in S THEN Append(kept[i - 1], s[i]) ELSE kept[i - 1]
    IN  kept[Len(s)]

SignalEdges(g) == {e \in ToSet(g.edges) : is_audio_signal_edge(g, e)}

Precedes(o, a, b) == \E j, k \in DOMAIN o : j < k /\ o[j] = a /\ o[k] = b

\* The orders of all nodes in which every edge but the feedback edges runs forwards.
PlannedOrders(g) ==
    {o \in [1 .. Len(g.nodes) -> Nodes(g)] :
       /\ \A j, k \in DOMAIN o : o[j] = o[k] => j = k
       /\ Nodes(g) \subseteq ToSet(o)
       /\ \A e \in ToSet(g.edges) : e.feedback \/ Precedes(o, e.from, e.to)}

----------------------------------------------------------------------------
(* Planning                                                                *)

is_audio_endpoint_kind(kind) == kind \in {"input", "output"}
is_audio_clock_boundary_kind(kind) == kind \in {"clock-bridge", "resample"}

audio_endpoint_plan_nodes(g) == SelectSeq(g.nodes, LAMBDA n : is_audio_endpoint_kind(g.kind[n]))

\* A node without a clock domain of its own is alone in the domain of its name.
audio_clock_domain_id(g, n) == IF g.domain[n] = NoDomain THEN <<"endpoint", n>> ELSE g.domain[n]

audio_clock_domains(g) ==
    [d \in {audio_clock_domain_id(g, n) : n \in ToSet(audio_endpoint_plan_nodes(g))} |->
       SelectSeq(audio_endpoint_plan_nodes(g), LAMBDA n : audio_clock_domain_id(g, n) = d)]

\* Audio nodes that are no endpoints belong to the first output's domain, or
\* to the first endpoint's.
audio_graph_partitions(g) ==
    LET endpoints == audio_endpoint_plan_nodes(g)
        outputs == SelectSeq(endpoints, LAMBDA n : g.kind[n] = "output")
        default == audio_clock_domain_id(g, IF outputs # <<>> THEN Head(outputs) ELSE Head(endpoints))
        inner == SelectSeq(g.nodes, LAMBDA n : /\ g.kind[n] \in AudioBlockKinds
                                                /\ ~is_audio_endpoint_kind(g.kind[n]))
    IN  IF endpoints = <<>> THEN <<>>
        ELSE [d \in DOMAIN audio_clock_domains(g) |->
                audio_clock_domains(g)[d] \o (IF d = default THEN inner ELSE <<>>)]

\* Faulty variant: the boundary is forgotten at the node after it.
next_bridge_forgotten(g, n, bridge) == IF is_audio_clock_boundary_kind(g.kind[n]) THEN <<n>> ELSE <<>>
\* The last clock boundary on the way to node n, if any: <<>> or <<boundary>>.
next_bridge(g, n, bridge) == IF is_audio_clock_boundary_kind(g.kind[n]) THEN <<n>> ELSE bridge

\* The frames that expanding a node pushes, one for each of its signal edges.
Pushed(g, frame) ==
    LET out == Only(g.edges, {e \in SignalEdges(g) : e.from = frame.node})
    IN  [i \in 1 .. Len(out) |-> [node |-> out[i].to, bridge |-> next_bridge(g, out[i].to, frame.bridge)]]

\* One round of the depth-first search: the frame pushed last is taken, and its
\* node expanded unless it was before.
SearchRound(g, output, s) ==
    LET top == Last(s.stack)
    IN  IF s.found \/ s.stack = <<>> THEN s
        ELSE IF top.node \in s.visited THEN [s EXCEPT !.stack = Front(s.stack)]
        ELSE IF top.node = output THEN [s EXCEPT !.found = TRUE, !.bridge = top.bridge]
        ELSE [s EXCEPT !.stack = Front(s.stack) \o Pushed(g, top), !.visited = @ \union {top.node}]

\* The search for a route.  Every edge pushes one frame at most, so that this
\* many rounds leave it with an answer or an empty stack.
find_audio_route_to_output(g, source, output) ==
    LET search[k \in 0 .. Len(g.edges) + 1] ==
          IF k = 0
          THEN [stack |-> <<[node |-> source, bridge |-> <<>>]>>, visited |-> {},
                found |-> FALSE, bridge |-> <<>>]
          ELSE SearchRound(g, output, search[k - 1])
    IN  search[Len(g.edges) + 1]

\* What skenion-contracts decides about two domains (external).
plan_audio_clock_bridge(from, to, bridge) ==
    IF from = to THEN "direct" ELSE IF bridge = <<>> THEN "invalid" ELSE "clock-bridge"

bridge_method(g, source, output) ==
    LET bridge == find_audio_route_to_output(g, source, output).bridge
    IN  IF bridge # <<>> /\ g.kind[bridge[1]] = "resample" THEN "resample"
        ELSE plan_audio_clock_bridge(audio_clock_domain_id(g, source),
                                     audio_clock_domain_id(g, output), bridge)

\* Pairs of an input and an output with a signal route between them.
audio_routes(g) ==
    {r \in Nodes(g) \X Nodes(g) : /\ g.kind[r[1]] = "input"
                                  /\ g.kind[r[2]] = "output"
                                  /\ find_audio_route_to_output(g, r[1], r[2]).found}

audio_clock_bridge_plans(g) == [r \in audio_routes(g) |-> bridge_method(g, r[1], r[2])]

reject_signal_ports_outside_audio_block(g) ==
    \E n \in Nodes(g) : /\ g.kind[n] \notin AudioBlockKinds
                        /\ SignalOutputs(g.kind[n]) \union SignalInputs(g.kind[n]) # {}

\* The buffer of an output port is the place of its node among the producers.
audio_buffers(g, o) ==
    Only(o, {n \in Nodes(g) : g.kind[n] \in AudioBlockKinds /\ SignalOutputs(g.kind[n]) # {}})
BufferOf(p, n) ==
    IF n \in ToSet(p.buffers) THEN CHOOSE b \in DOMAIN p.buffers : p.buffers[b] = n ELSE 0

\* The first edge into a port names the buffer it reads; 0 stands for none.
SignalInto(g, n, port) == Only(g.edges, {e \in SignalEdges(g) : e.to = n /\ e.toPort = port})
signal_input_buffer(p, g, n, port) ==
    LET into == SignalInto(g, n, port)
    IN  IF into = <<>> THEN 0 ELSE BufferOf(p, Head(into).from)

param(value, default) == IF value = NoParam THEN default ELSE value

\* A control input takes the parameter of the node it is connected to.
control_input(g, n, port) ==
    LET into == Only(g.edges, {e \in ToSet(g.edges) : e.to = n /\ e.toPort = port})
    IN  IF into = <<>> THEN NoParam
        ELSE param(g.param[Head(into).from], 0)

oscillator_frequency(g, n) ==
    IF control_input(g, n, "frequency") # NoParam THEN control_input(g, n, "frequency")
    ELSE param(g.param[n], DefaultFrequency)

\* build_audio_dsp_plan: options, schema versions and the execution plan come first.
PlanError ==
    IF options.block = 0 THEN "invalid-block-size"
    ELSE IF options.rate = 0 THEN "invalid-sample-rate"
    ELSE IF reject_signal_ports_outside_audio_block(graph) THEN "signal-port-outside-audio-block"
    ELSE IF "invalid" \in Range(audio_clock_bridge_plans(graph)) THEN "crossing-requires-bridge"
    ELSE "none"

build_audio_dsp_plan ==
    [nodes |-> Only(order, {n \in Nodes(graph) : graph.kind[n] \in AudioBlockKinds}),
     buffers |-> audio_buffers(graph, order),
     bridges |-> audio_clock_bridge_plans(graph),
     partitions |-> audio_graph_partitions(graph)]

Silence == [i \in 1 .. options.block |-> 0]
SilentBuffers(p) == [b \in DOMAIN p.buffers |-> Silence]

----------------------------------------------------------------------------
(* Rendering one node                                                      *)

Sample(b, i) == IF b \in DOMAIN buffers THEN buffers[b][i] ELSE 0

\* The value a node writes into its own buffer, and the oscillators' phases.
render_sig(n) == [i \in 1 .. options.block |-> param(graph.param[n], 0)]
Increment(n) == oscillator_frequency(graph, n)
render_osc(n) == [i \in 1 .. options.block |-> (phases[n] + (i - 1) * Increment(n)) % Turn]
\* Faulty variant: every block starts the oscillator again.
next_phase_reset(n) == 0
next_phase(n) == (phases[n] + options.block * Increment(n)) % Turn
render_mul(n) ==
    LET left == signal_input_buffer(plan, graph, n, "left")
        right == signal_input_buffer(plan, graph, n, "right")
    IN  [i \in 1 .. options.block |-> Sample(left, i) * Sample(right, i)]

write_signal_output(n, samples) == buffers' = [buffers EXCEPT ![BufferOf(plan, n)] = samples]

RenderNode(n) ==
    LET kind == graph.kind[n]
    IN  /\ CASE kind = "sig" -> write_signal_output(n, render_sig(n))
             [] kind = "osc" -> write_signal_output(n, render_osc(n))
             [] kind = "mul" -> write_signal_output(n, render_mul(n))
             [] OTHER -> UNCHANGED buffers
        /\ phases' = IF kind = "osc" THEN [phases EXCEPT ![n] = next_phase(n)] ELSE phases

----------------------------------------------------------------------------
\* The parts of a plan that rendering and the properties look at.
NoPlan == [nodes |-> <<>>, buffers |-> <<>>, bridges |-> <<>>, partitions |-> <<>>]

\* Sizes and counts, none of which the caller need have checked.
IsOptions(o) == {o.block, o.rate, o.blocks, o.channels} \subseteq Nat

\* Validation refuses a document whose edges do not join nodes of its own.
IsGraph(g) ==
    /\ g.nodes \in Seq(Nodes(g)) /\ g.edges \in Seq(ToSet(g.edges))
    /\ \A e \in ToSet(g.edges) : e.from \in Nodes(g) /\ e.to \in Nodes(g)
    /\ g.param \in [Nodes(g) -> Int \union {NoParam}]

ASSUME GraphsAssumption == \A g \in Graphs : IsGraph(g)
ASSUME NumbersAssumption ==
    /\ Turn \in Nat \ {0} /\ DefaultFrequency \in Int /\ NoParam \notin Int
    /\ Callbacks \subseteq Nat
ASSUME OptionsAssumption == \A o \in Options : IsOptions(o)

AudioInit ==
    /\ graph \in Graphs
    /\ options \in Options
    /\ order \in PlannedOrders(graph)
    /\ engine = "idle"
    /\ plan = NoPlan
    /\ at = 1
    /\ buffers = <<>>
    /\ phases = [n \in Nodes(graph) |-> 0]
    /\ rendered = 0
    /\ reports = <<>>
    /\ snapshots = {}
    /\ callback = [total |-> 0, offset |-> 0, output |-> <<>>, start |-> 0]

Refuse(error) ==
    /\ engine' = error
    /\ UNCHANGED <<plan, buffers>>

\* run_offline_audio_dsp: a block of silence for every buffer to begin with.
run_offline_audio_dsp ==
    /\ engine = "idle"
    /\ LET p == build_audio_dsp_plan
       IN  CASE options.blocks = 0 -> Refuse("invalid-block-count")
             [] options.blocks > 0 /\ PlanError # "none" -> Refuse(PlanError)
             [] OTHER -> engine' = "offline" /\ plan' = p /\ buffers' = SilentBuffers(p)
    /\ UNCHANGED <<graph, options, order, at, phases, rendered, reports, snapshots, callback>>

\* One node of the loop of run_offline_audio_dsp_with_plan.
OfflineNode ==
    /\ engine = "offline"
    /\ at <= Len(plan.nodes)
    /\ LET n == plan.nodes[at]
       IN  IF graph.kind[n] \in {"sig", "osc", "mul", "snapshot"}
           THEN /\ RenderNode(n)
                /\ at' = at + 1
                /\ snapshots' = IF graph.kind[n] = "snapshot"
                                THEN snapshots \union
                                       {<<rendered, n, Sample(signal_input_buffer(plan, graph, n, "signal"), 1)>>}
                                ELSE snapshots
                /\ UNCHANGED engine
           ELSE engine' = "unsupported-node-kind" /\ UNCHANGED <<buffers, phases, at, snapshots>>
    /\ UNCHANGED <<graph, options, order, plan, rendered, reports, callback>>

\* The block's report; the next block starts from silence again.
OfflineBlock ==
    /\ engine = "offline"
    /\ at > Len(plan.nodes)
    /\ reports' = Append(reports, buffers)
    /\ rendered' = rendered + 1
    /\ at' = 1
    /\ engine' = IF rendered' = options.blocks THEN "done" ELSE engine
    /\ buffers' = SilentBuffers(plan)
    /\ UNCHANGED <<graph, options, order, plan, phases, snapshots, callback>>

\* AudioRealtimeDspExecutor::new, called by start_default_audio_output_backend.
new_executor ==
    /\ engine = "idle"
    /\ LET p == build_audio_dsp_plan
           outputs == Only(p.nodes, {n \in Nodes(graph) : graph.kind[n] = "output"})
       IN  CASE options.channels = 0 -> Refuse("invalid-channel-count")
             [] options.channels > 0 /\ PlanError # "none" -> Refuse(PlanError)
             [] options.channels > 0 /\ PlanError = "none" /\ Len(outputs) # 1 -> Refuse("output-count")
             [] options.channels > 0 /\ PlanError = "none" /\ Len(outputs) = 1
                /\ (\E n \in ToSet(p.nodes) : graph.kind[n] \notin {"sig", "osc", "mul", "output"})
                -> Refuse("unsupported-node-kind")
             [] OTHER -> engine' = "realtime" /\ plan' = p /\ buffers' = SilentBuffers(p)
    /\ UNCHANGED <<graph, options, order, at, phases, rendered, reports, snapshots, callback>>

CallbackDone == callback.offset = callback.total

\* The device asks for the next frames (process_interleaved_output).
BeginCallback(frames) ==
    /\ engine = "realtime"
    /\ CallbackDone
    /\ rendered < MaxBlocks
    /\ callback' = [total |-> frames, offset |-> 0, output |-> <<>>, start |-> rendered]
    /\ UNCHANGED <<graph, options, order, engine, plan, at, buffers, phases, rendered,
                   reports, snapshots>>

\* process_block: the buffers keep what the block before left in them.
RealtimeNode ==
    /\ engine = "realtime"
    /\ ~CallbackDone
    /\ at <= Len(plan.nodes)
    /\ RenderNode(plan.nodes[at])
    /\ at' = at + 1
    /\ UNCHANGED <<graph, options, order, engine, plan, rendered, reports, snapshots, callback>>

OutputNode == CHOOSE n \in ToSet(plan.nodes) : graph.kind[n] = "output"
OutputFrame(i) ==
    LET left == signal_input_buffer(plan, graph, OutputNode, "left")
        right == signal_input_buffer(plan, graph, OutputNode, "right")
    IN  [c \in 1 .. options.channels |->
           CASE c = 1 -> Sample(left, i) [] c = 2 -> Sample(right, i) [] OTHER -> 0]

\* copy_output_frames: the frames of the block that the callback has room for;
\* the others are dropped.
copy_output_frames ==
    /\ engine = "realtime"
    /\ ~CallbackDone
    /\ at > Len(plan.nodes)
    /\ LET left == callback.total - callback.offset
           frames == IF left < options.block THEN left ELSE options.block
       IN  callback' = [callback EXCEPT !.offset = @ + frames,
                                        !.output = @ \o [i \in 1 .. frames |-> OutputFrame(i)]]
    /\ rendered' = rendered + 1
    /\ at' = 1
    /\ UNCHANGED <<graph, options, order, engine, plan, buffers, phases, reports, snapshots>>

AudioNext ==
    \/ run_offline_audio_dsp \/ OfflineNode \/ OfflineBlock
    \/ new_executor \/ RealtimeNode \/ copy_output_frames
    \/ \E frames \in Callbacks : BeginCallback(frames)

AudioSpec == AudioInit /\ [][AudioNext]_audioVars

----------------------------------------------------------------------------
(* The signal, defined without plan, blocks or buffers                     *)

\* Only a feedback edge may run against the order in which nodes are rendered; what
\* the output gets is read when the block is complete.
Late(g, o, e) == e.feedback /\ g.kind[e.to] # "output" /\ ~Precedes(o, e.from, e.to)

\* What arrives at an input port at time t: a late edge delivers what was sent
\* delay frames ago, and silence before.
Arrives(g, o, delay, value, n, port, t) ==
    LET into == SignalInto(g, n, port)
        e == Head(into)
        sent == IF Late(g, o, e) THEN t - delay ELSE t
    IN  IF into = <<>> \/ sent < 0 THEN 0 ELSE value[<<e.from, sent>>]

\* What a node sends at time t.
Sends(g, o, delay, value, n, t) ==
    CASE g.kind[n] = "sig" -> param(g.param[n], 0)
      [] g.kind[n] = "osc" -> (t * oscillator_frequency(g, n)) % Turn
      [] g.kind[n] = "mul" -> Arrives(g, o, delay, value, n, "left", t) * Arrives(g, o, delay, value, n, "right", t)
      [] OTHER -> 0

\* What every node sends at every time.
Signal(g, o, delay) ==
    LET value[p \in Nodes(g) \X Nat] == Sends(g, o, delay, value, p[1], p[2])
    IN  value

\* Offline every block starts from silence, so a late edge never delivers anything.
StreamLength == options.blocks * options.block

\* Offline: every buffer of every block, and every snapshot.
OfflineIsSignal ==
    LET signal == Signal(graph, order, StreamLength)
    IN  /\ \A b \in DOMAIN reports : \A k \in DOMAIN plan.buffers : \A i \in 1 .. options.block :
             reports[b][k][i] = signal[<<plan.buffers[k], (b - 1) * options.block + (i - 1)>>]
        /\ \A s \in snapshots :
             s[3] = Arrives(graph, order, StreamLength, signal, s[2], "signal", s[1] * options.block)

\* In realtime: every frame handed to the device, at the time its block stands for.
RealtimeIsSignal ==
    LET signal == Signal(graph, order, options.block)
        Frame(port, k) == Arrives(graph, order, options.block, signal, OutputNode, port,
                                  callback.start * options.block + (k - 1))
    IN  engine = "realtime" =>
          \A k \in DOMAIN callback.output :
            /\ callback.output[k][1] = Frame("left", k)
            /\ options.channels > 1 => callback.output[k][2] = Frame("right", k)

\* What is rendered is the graph's signal at that time, whatever order the planner
\* chose and however time is cut into blocks and callbacks: no buffer is read before
\* it is written or after it is overwritten, although realtime buffers outlive their
\* block and callbacks may end inside one (run_offline_audio_dsp_with_plan, process_block).
RenderingIsSignal == OfflineIsSignal /\ RealtimeIsSignal

\* Some of the edges lead from node a to node b: no set of nodes that holds a
\* and that none of them leaves is without b.
Leads(g, es, a, b) ==
    \A T \in SUBSET Nodes(g) : a \in T /\ (\A e \in es : e.from \in T => e.to \in T) => b \in T

Unbridged(g) == {e \in SignalEdges(g) : ~is_audio_clock_boundary_kind(g.kind[e.to])}

\* Inputs and outputs of different clock domains with a signal route between them.
Crossings(g) ==
    {r \in Nodes(g) \X Nodes(g) :
       /\ g.kind[r[1]] = "input" /\ g.kind[r[2]] = "output"
       /\ audio_clock_domain_id(g, r[1]) # audio_clock_domain_id(g, r[2])
       /\ Leads(g, SignalEdges(g), r[1], r[2])}

BridgedRoute(g, a, b) ==
    \E m \in Nodes(g) : /\ is_audio_clock_boundary_kind(g.kind[m])
                        /\ Leads(g, SignalEdges(g), a, m)
                        /\ Leads(g, SignalEdges(g), m, b)

\* A graph is refused for a missing clock bridge only if some route between two
\* domains has none, and planned only if every crossing pair has a route with one:
\* the search, which expands a node once and keeps one boundary for it, misjudges
\* neither (find_audio_route_to_output, audio_clock_bridge_plans).
CrossingsAreJudged ==
    /\ engine = "crossing-requires-bridge" =>
         \E r \in Crossings(graph) : Leads(graph, Unbridged(graph), r[1], r[2])
    /\ plan.nodes # <<>> => \A r \in Crossings(graph) : BridgedRoute(graph, r[1], r[2])
=============================================================================
