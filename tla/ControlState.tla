----------------------------- MODULE ControlState -----------------------------
(***************************************************************************)
(* The control state of a session (control_state.rs): the value each       *)
(* control object holds, the named channels and the cold operands of       *)
(* operators.  An event on an input port is worked on in a staged copy;    *)
(* what objects emit is put on a stack and delivered along edges and named *)
(* channels until the stack is empty, and only then the copy is installed. *)
(* All of it happens under the session's write lock, so one event ends     *)
(* before the next begins; the steps here are the rounds of the loop.      *)
(*                                                                         *)
(* A value is <<type, representation, content>>.  Floats count halves, so  *)
(* that truncation is visible; a magnitude above MaxFloat is not finite.   *)
(* Roundings finer than a half (to f32, to the sixteenths of the 8-bit     *)
(* floats, to the 255 levels of the 8-bit colours) leave a value as it is. *)
(* A text is a sequence of tokens, words or numbers.                       *)
(***************************************************************************)
EXTENDS Integers, Sequences, SequencesExt

CONSTANTS
  Graphs,      \* documents: [nodes: Seq(node), edges: Seq(edge)]
  Events,      \* requests of clients: [node, port, message]
  IntRange,    \* representation -> <<least, greatest>>, known ones only
  UintMax,     \* representation -> greatest, known ones only
  FloatMax,    \* representation -> greatest magnitude that stays finite in it
  MaxFloat,    \* greatest finite magnitude of a 64-bit float
  SafetyLimit, \* 32 in the code
  MaxEvents    \* bound: accepted events

VARIABLES
  graph,    \* the document's graph
  state,    \* ControlState: [values, channels, right]
  staged,   \* the copy an event works on
  stack,    \* emissions still to deliver (a Vec used as a stack)
  pending,  \* deliveries left of the emission of this round
  emitted,  \* response.emitted: the newest message of each output, see Told
  visited,  \* rounds of the loop so far
  busy,     \* an event is being worked on
  reported, \* history: the newest message of each output told to clients so far
  events    \* events accepted, for the bound

ASSUME NumbersAssumption ==
  /\ MaxFloat \in Nat
  /\ \A rep \in DOMAIN IntRange :
       IntRange[rep][1] \in Int /\ IntRange[rep][2] \in Int /\ IntRange[rep][1] <= IntRange[rep][2]
  /\ \A rep \in DOMAIN UintMax : UintMax[rep] \in Nat
  /\ \A rep \in DOMAIN FloatMax : FloatMax[rep] \in 0..MaxFloat
  /\ "i64" \in DOMAIN IntRange /\ "u64" \in DOMAIN UintMax
  /\ \A i \in {IntRange["i64"][1], IntRange["i64"][2], UintMax["u64"]} : 2 * i \in -MaxFloat..MaxFloat

ASSUME GraphsAssumption ==
  \A g \in Graphs :
    /\ g.nodes \in Seq(ToSet(g.nodes)) /\ g.edges \in Seq(ToSet(g.edges))
    /\ \A i, j \in 1..Len(g.nodes) : g.nodes[i].id = g.nodes[j].id => i = j

vars == <<graph, state, staged, stack, pending, emitted, visited, busy, reported, events>>

(***************************************************************************)
(* Values and messages (control_value.rs).                                 *)
(***************************************************************************)
Type(value) == value[1]
Rep(value) == value[2]
Content(value) == value[3]

float(x) == <<"float", "f32", x>>
int(x) == <<"int", "i32", x>>
bool(b) == <<"bool", "", b>>
string(text) == <<"string", "", text>>
uint(x) == <<"uint", "u32", x>>
color(channels) == <<"color", "rgba32f", channels>>

Word(w) == <<"word", w>>
Number(x) == <<"num", x>>

Message(selector, atoms) == [selector |-> selector, atoms |-> atoms]
bang == Message("bang", <<>>)

from_value(value) ==
  Message(IF Type(value) = "string" THEN "symbol" ELSE Type(value), <<value>>)

is_bang_message(m) == m = bang

OperatorKinds == {"add", "sub", "mul", "div", "pow", "min", "max", "sqrt"}
TextKinds == {"message", "comment", "panel"}
ValueKinds == {"float", "int", "uint", "color"} \cup TextKinds
supports_runtime_control_events(kind) ==
  kind \in ValueKinds \cup OperatorKinds \cup {"bang"}

IsNumber(token) == token[1] = "num"
IsLiteral(token, least, greatest) ==
  IsNumber(token) /\ token[2] % 2 = 0 /\ token[2] \div 2 \in least..greatest
IsInt(token) == IsLiteral(token, IntRange["i64"][1], IntRange["i64"][2])

\* A literal of 64 bits parses as an int, any other number as a float.
parse_scalar_atom(token) ==
  CASE token \in {Word("on"), Word("true")} -> <<bool(TRUE)>>
    [] token \in {Word("off"), Word("false")} -> <<bool(FALSE)>>
    [] IsNumber(token) -> IF IsInt(token) THEN <<int(token[2] \div 2)>> ELSE <<float(token[2])>>
    [] OTHER -> <<>>

parse_color_atom(text) ==
  IF Len(text) = 4 /\ \A i \in 1..4 : IsNumber(text[i])
  THEN <<color([i \in 1..4 |-> text[i][2]])>> ELSE <<>>

\* The elements of a sequence at the given places, in their order.
At(seq, places) ==
  LET kept[i \in 0..Len(seq)] ==
        IF i = 0 THEN <<>>
        ELSE IF i \in places THEN Append(kept[i - 1], seq[i]) ELSE kept[i - 1]
  IN kept[Len(seq)]

\* The word color takes four numbers after it with it; every other token is an
\* atom of its own.
parse_message_atoms(text) ==
  LET grouped(i) == IF i \in 1..Len(text) - 4 /\ text[i] = Word("color")
                    THEN parse_color_atom(SubSeq(text, i + 1, i + 4)) ELSE <<>>
      scalar(i) == IF parse_scalar_atom(text[i]) = <<>> THEN <<string(<<text[i]>>)>>
                                                        ELSE parse_scalar_atom(text[i])
      starts == {i \in 1..Len(text) : \A k \in 1..4 : grouped(i - k) = <<>>}
  IN At([i \in 1..Len(text) |-> (grouped(i) \o scalar(i))[1]], starts)

\* The one atom a text stands for after the name of a type.
parse_typed_atom(type, text) ==
  IF type = "color" THEN parse_color_atom(text)
  ELSE IF Len(text) # 1 THEN <<>>
  ELSE LET token == text[1] IN
       CASE type = "float" /\ IsNumber(token) -> <<float(token[2])>>
         [] type = "int" /\ IsInt(token) -> <<int(token[2] \div 2)>>
         [] type = "uint" /\ IsLiteral(token, 0, UintMax["u64"]) -> <<uint(token[2] \div 2)>>
         [] type = "bool" /\ token \in {Number(2), Word("on"), Word("true")} -> <<bool(TRUE)>>
         [] type = "bool" /\ token \in {Number(0), Word("off"), Word("false")} -> <<bool(FALSE)>>
         [] OTHER -> <<>>

typed_or_generic_message(selector, rest) ==
  LET atom == parse_typed_atom(selector, rest) IN
  IF atom # <<>> THEN from_value(atom[1])
                 ELSE Message(selector, parse_message_atoms(rest))

parse_text(text) ==
  IF text = <<>> THEN Message("symbol", <<string(<<>>)>>)
  ELSE LET first == text[1]
           rest == Tail(text)
           scalar == parse_scalar_atom(first)
       IN CASE first = Word("bang") /\ rest = <<>> -> bang
            [] first = Word("set") -> Message("set", parse_message_atoms(rest))
            [] first \in {Word(type) : type \in {"float", "int", "uint", "bool", "color"}} ->
                 typed_or_generic_message(first[2], rest)
            [] first = Word("symbol") -> Message("symbol", <<string(rest)>>)
            [] rest = <<>> /\ first \in {Word("on"), Word("off"), Word("true"), Word("false")} ->
                 Message(first[2], <<>>)
            [] rest = <<>> /\ scalar # <<>> -> from_value(scalar[1])
            [] rest = <<>> /\ scalar = <<>> -> Message("symbol", <<string(text)>>)
            [] OTHER -> Message(IF first[1] = "word" THEN first[2] ELSE "number",
                                parse_message_atoms(rest))

atom_to_text(atom) ==
  CASE Type(atom) = "float" -> <<Number(Content(atom))>>
    [] Type(atom) \in {"int", "uint"} -> <<Number(2 * Content(atom))>>
    [] Type(atom) = "bool" -> <<Word(IF Content(atom) THEN "on" ELSE "off")>>
    [] Type(atom) = "string" -> Content(atom)
    [] Type(atom) = "color" -> <<Word("color")>> \o [i \in 1..4 |-> Number(Content(atom)[i])]

\* A message with one atom of its selector's type names the type once.
to_text(m) ==
  LET atoms == FlattenSeq([i \in 1..Len(m.atoms) |-> atom_to_text(m.atoms[i])]) IN
  IF Len(m.atoms) = 1 /\ Type(m.atoms[1]) = "color" /\ m.selector = "color" THEN atoms
  ELSE <<Word(m.selector)>> \o atoms

\* silent_set_message: the text a "set" message leaves in a text object.
set_message_text(m) == FlattenSeq([i \in 1..Len(m.atoms) |-> atom_to_text(m.atoms[i])])

(***************************************************************************)
(* Conversions (conversion.rs).                                            *)
(***************************************************************************)
Clamp(x, least, greatest) ==
  IF x < least THEN least ELSE IF x > greatest THEN greatest ELSE x

sanitize(x) == IF x \in -MaxFloat..MaxFloat THEN x ELSE 0

Trunc(halves) == IF halves < 0 THEN -((-halves) \div 2) ELSE halves \div 2

\* The number an atom stands for, in halves; none for text and colours.
numeric_as_f64(value) ==
  CASE Type(value) = "float" -> <<Content(value)>>
    [] Type(value) \in {"int", "uint"} -> <<2 * Content(value)>>
    [] Type(value) = "bool" -> <<IF Content(value) THEN 2 ELSE 0>>
    [] OTHER -> <<>>

convert_color(channels, rep) ==
  [i \in 1..4 |-> IF rep = "rgb8unorm" /\ i = 4 THEN 2 ELSE Clamp(sanitize(channels[i]), 0, 2)]

Infinity == MaxFloat + 1
Unsigned == {"ufloat16", "ufloat8"}
Least(rep) == IF rep \in Unsigned THEN 0 ELSE -MaxFloat
Greatest(rep) == IF rep \in DOMAIN FloatMax THEN FloatMax[rep] ELSE MaxFloat

\* Faulty variant: the unsigned floats take negative numbers.
quantize_float_signed(x, rep) ==
  IF x \in -Greatest(rep)..Greatest(rep) THEN x ELSE IF x > 0 THEN Infinity ELSE -Infinity

\* Numbers too large for the representation become infinite: this follows
\* sanitize, which only takes away what was not finite before.
quantize_float(x, rep) ==
  LET floored == IF x < Least(rep) THEN Least(rep) ELSE x
  IN IF floored \in -Greatest(rep)..Greatest(rep) THEN floored
     ELSE IF floored > Greatest(rep) THEN Infinity ELSE -Infinity

\* The value as the stored value's type and representation, or none.
convert_control_value_to_stored(value, stored) ==
  LET rep == Rep(stored)
      number == numeric_as_f64(value)
      whole == Trunc(sanitize(number[1]))
  IN CASE Type(stored) = "float" /\ number # <<>> ->
            <<<<"float", rep, quantize_float(sanitize(number[1]), rep)>>>>
       [] Type(stored) = "int" /\ number # <<>> /\ rep \in DOMAIN IntRange ->
            <<<<"int", rep, Clamp(whole, IntRange[rep][1], IntRange[rep][2])>>>>
       [] Type(stored) = "uint" /\ number # <<>> /\ rep \in DOMAIN UintMax ->
            <<<<"uint", rep, Clamp(whole, 0, UintMax[rep])>>>>
       [] Type(stored) = "color" /\ Type(value) = "color" ->
            <<<<"color", rep, convert_color(Content(value), rep)>>>>
       [] OTHER -> <<>>

value_from_message(m, stored) ==
  IF m.atoms = <<>> THEN <<>> ELSE convert_control_value_to_stored(m.atoms[1], stored)

numeric_message_value(m) == IF m.atoms = <<>> THEN <<>> ELSE numeric_as_f64(m.atoms[1])

Root(x) == CHOOSE r \in 0..x : r * r <= x /\ (r + 1) * (r + 1) > x

\* x.powf(y), rounded down to halves; no root of a negative number and nothing
\* divided by zero is finite.
powf(x, y) ==
  LET n == (IF y < 0 THEN -y ELSE y) \div 2
      whole == IF n = 0 THEN 1 ELSE x ^ n
      power == (whole * (IF y % 2 = 0 THEN 2 ELSE Root(2 * x))) \div (IF n = 0 THEN 1 ELSE 2 ^ n)
  IN CASE y % 2 = 1 /\ x < 0 -> Infinity
       [] (y % 2 = 0 \/ x >= 0) /\ y >= 0 -> power
       [] (y % 2 = 0 \/ x >= 0) /\ y < 0 -> IF power = 0 THEN Infinity
                                            ELSE IF power > 0 THEN 4 \div power ELSE -(4 \div (-power))

\* Operands and result count halves.
evaluate_operator(kind, input, right) ==
  sanitize(CASE kind = "add" -> input + right
             [] kind = "sub" -> input - right
             [] kind = "mul" -> Trunc(input * right)
             [] kind = "div" -> IF right = 0 THEN 0 ELSE
                                  IF right > 0 THEN (2 * input) \div right
                                               ELSE (-2 * input) \div (-right)
             [] kind = "pow" -> powf(input, right)
             [] kind = "min" -> IF input < right THEN input ELSE right
             [] kind = "max" -> IF input > right THEN input ELSE right
             [] kind = "sqrt" -> IF input < 0 THEN 0 ELSE Root(2 * input))

(***************************************************************************)
(* The initial state of a graph.  A node is                                *)
(* [id, kind, inputs, rep, value, right, send, receive].                   *)
(***************************************************************************)
NodeIds(g) == {g.nodes[i].id : i \in 1..Len(g.nodes)}
NodeOf(g, id) == g.nodes[CHOOSE i \in 1..Len(g.nodes) : g.nodes[i].id = id]

\* The parameter is taken as it is: it is not brought into the range of the
\* node's representation.
for_node_default(node) ==
  CASE node.kind \in {"float", "int", "uint", "color"} -> <<node.kind, node.rep, node.value>>
    [] node.kind \in TextKinds -> string(node.value)
    [] node.kind \in OperatorKinds -> float(0)

from_graph(g) ==
  [values |-> [id \in {n \in NodeIds(g) : NodeOf(g, n).kind \in ValueKinds \cup OperatorKinds} |->
                 for_node_default(NodeOf(g, id))],
   right |-> [id \in {n \in NodeIds(g) : NodeOf(g, n).kind \in OperatorKinds \ {"sqrt"}} |->
                float(NodeOf(g, id).right)],
   channels |-> <<>>]

\* What a client reads: a parameter of the document or the object's value.
read_control(g, st, id, target, key) ==
  CASE id \in DOMAIN st.values /\ target = "state" /\ key = "value" -> <<st.values[id]>>
    [] id \in NodeIds(g) /\ target = "param" /\ key \in {"value", "right"} -> <<NodeOf(g, id)[key]>>
    [] OTHER -> <<>>

(***************************************************************************)
(* One event at one object: [ok, st, emitted].                             *)
(***************************************************************************)
Refused(st) == [ok |-> FALSE, st |-> st, emitted |-> <<>>]
Accepted(st, out) == [ok |-> TRUE, st |-> st, emitted |-> out]
Emission(id, port, m) == [node |-> id, port |-> port, message |-> m]
Output(e) == <<e.node, e.port>>
Store(st, id, value) == [st EXCEPT !.values[id] = value]

apply_operator_event(st, node, port, m) ==
  LET number == numeric_message_value(m)
      right == IF node.id \in DOMAIN st.right THEN Content(st.right[node.id]) ELSE 0
      result == float(evaluate_operator(node.kind, sanitize(number[1]), sanitize(right)))
  IN CASE port = "in" /\ is_bang_message(m) ->
            Accepted(st, <<Emission(node.id, "out", from_value(st.values[node.id]))>>)
       [] port = "in" /\ ~is_bang_message(m) /\ number # <<>> ->
            Accepted(Store(st, node.id, result),
                     IF m.selector = "set" THEN <<>>
                     ELSE <<Emission(node.id, "out", from_value(result))>>)
       [] port = "right" /\ m.selector # "set" /\ number # <<>> ->
            Accepted([st EXCEPT !.right =
                        [n \in DOMAIN @ \cup {node.id} |->
                           IF n = node.id THEN float(sanitize(number[1])) ELSE @[n]]], <<>>)
       [] OTHER -> Refused(st)

\* Objects that hold text take only "set" on their input, a message object
\* sends its text for anything else.
ApplyTextEvent(st, node, m) ==
  CASE m.selector = "set" -> Accepted(Store(st, node.id, string(set_message_text(m))), <<>>)
    [] m.selector # "set" /\ node.kind = "message" ->
         Accepted(st, <<Emission(node.id, "out", parse_text(Content(st.values[node.id])))>>)
    [] OTHER -> Refused(st)

ApplyValueEvent(st, node, port, m) ==
  LET next == value_from_message(m, st.values[node.id]) IN
  CASE port = "in" /\ is_bang_message(m) ->
         Accepted(st, <<Emission(node.id, "value", from_value(st.values[node.id]))>>)
    [] port = "in" /\ next # <<>> ->
         Accepted(Store(st, node.id, next[1]),
                  IF m.selector = "set" THEN <<>>
                  ELSE <<Emission(node.id, "value", from_value(next[1]))>>)
    [] port = "cold" /\ m.selector # "set" /\ next # <<>> ->
         Accepted(Store(st, node.id, next[1]), <<>>)
    [] OTHER -> Refused(st)

\* Text objects on their cold port: a comment or panel stores any message but
\* bang and set as text, a message object refuses.
ApplyColdText(st, node, m) ==
  IF node.kind = "message" \/ is_bang_message(m) \/ m.selector = "set" THEN Refused(st)
  ELSE Accepted(Store(st, node.id,
                  string(IF m.selector = "symbol" /\ m.atoms # <<>> /\ Type(m.atoms[1]) = "string"
                         THEN Content(m.atoms[1])
                         ELSE to_text(m))), <<>>)

apply_event_direct(g, st, id, port, m) ==
  IF id \notin NodeIds(g) THEN Refused(st)
  ELSE LET node == NodeOf(g, id) IN
       CASE ~supports_runtime_control_events(node.kind) -> Refused(st)
         [] node.kind = "bang" ->
              IF port = "in" THEN Accepted(st, <<Emission(id, "out", bang)>>) ELSE Refused(st)
         [] node.kind # "bang" /\ port \notin node.inputs -> Refused(st)
         [] port \in node.inputs /\ node.kind \in OperatorKinds ->
              apply_operator_event(st, node, port, m)
         [] port \in node.inputs /\ node.kind \in TextKinds ->
              IF port = "in" THEN ApplyTextEvent(st, node, m)
              ELSE IF port = "cold" THEN ApplyColdText(st, node, m) ELSE Refused(st)
         [] OTHER -> ApplyValueEvent(st, node, port, m)

(***************************************************************************)
(* Named channels.                                                         *)
(***************************************************************************)
data_kind_for_control_message(m) ==
  IF is_bang_message(m) THEN "bang"
  ELSE IF m.atoms = <<>> THEN "message" ELSE Type(m.atoms[1])

NumericKinds == {"float", "int", "uint", "bool"}

object_accepts_data_kind(node, kind) ==
  CASE node.kind \in {"float", "int", "uint"} \cup OperatorKinds -> kind \in NumericKinds
    [] node.kind = "color" -> kind = "color"
    [] node.kind \in {"comment", "panel"} -> kind \in {"string", "message"}
    [] node.kind \in {"message", "bang"} -> TRUE
    [] OTHER -> FALSE

\* apply_receive_name_updates: the other objects that receive on this name and
\* accept the kind, in the order of the document.  Named deliveries may fail.
apply_receive_name_updates(g, e, name) ==
  LET kind == data_kind_for_control_message(e.message)
      receivers == At(g.nodes, {i \in 1..Len(g.nodes) :
                                  /\ g.nodes[i].id # e.node
                                  /\ g.nodes[i].receive = name
                                  /\ object_accepts_data_kind(g.nodes[i], kind)})
  IN [i \in 1..Len(receivers) |->
        [to |-> <<receivers[i].id, "in">>, message |-> e.message, named |-> TRUE]]

publish_object_channel(g, st, e) ==
  LET name == NodeOf(g, e.node).send
      key == <<data_kind_for_control_message(e.message), name>>
  IN IF name = "" THEN st
     ELSE [st EXCEPT !.channels =
             [k \in DOMAIN @ \cup {key} |-> IF k = key THEN e.message ELSE @[k]]]

(***************************************************************************)
(* The loop of propagate_emissions.                                        *)
(***************************************************************************)
\* The edges that leave an emission's port, in the order of the document;
\* targets that are gone or have no control input are passed over.
AlongEdges(g, e) ==
  LET edges == At(g.edges, {i \in 1..Len(g.edges) :
                              /\ g.edges[i].from = Output(e)
                              /\ g.edges[i].to[1] \in NodeIds(g)
                              /\ supports_runtime_control_events(NodeOf(g, g.edges[i].to[1]).kind)})
  IN [i \in 1..Len(edges) |-> [to |-> edges[i].to, message |-> e.message, named |-> FALSE]]

\* Faulty variant: the receivers of the channel are left out.
deliveries_without_names(g, e) == AlongEdges(g, e)

deliveries(g, e) ==
  LET name == NodeOf(g, e.node).send IN
  (IF name = "" THEN <<>> ELSE apply_receive_name_updates(g, e, name)) \o AlongEdges(g, e)

Larger(a, b) == IF a > b THEN a ELSE b

\* What the answer tells of each output after more emissions (at most one): the
\* newest message, or nothing certain where an older one is still to be delivered
\* and will reach the objects after it last.
Told(told, waiting, more) ==
  IF more = <<>> THEN told
  ELSE LET overtakes == \E e \in waiting : Output(e) = Output(more[1])
       IN [out \in DOMAIN told \cup {Output(more[1])} |->
             IF out = Output(more[1]) THEN (IF overtakes THEN <<>> ELSE <<more[1].message>>)
                                      ELSE told[out]]

Limit(g) == Larger(2 * Len(g.edges), SafetyLimit)

Init ==
  /\ graph \in Graphs
  /\ state = from_graph(graph)
  /\ staged = state
  /\ stack = <<>> /\ pending = <<>> /\ emitted = <<>> /\ visited = 0 /\ busy = FALSE
  /\ reported = <<>>
  /\ events = 0

\* apply_event up to the loop; a refused event changes nothing.
BeginEvent(request) ==
  LET r == apply_event_direct(graph, state, request.node, request.port, request.message) IN
  /\ ~busy
  /\ events < MaxEvents
  /\ r.ok
  /\ staged' = r.st
  /\ stack' = r.emitted
  /\ emitted' = Told(<<>>, {}, r.emitted)
  /\ busy' = TRUE
  /\ events' = events + 1
  /\ UNCHANGED <<graph, state, pending, visited, reported>>

\* Faulty variant: what was delivered before the refusal stays.
AbortKeepsWork ==
  /\ busy' = FALSE
  /\ state' = staged
  /\ stack' = <<>> /\ pending' = <<>> /\ emitted' = <<>> /\ visited' = 0
  /\ UNCHANGED <<graph, staged, reported, events>>

\* The event is refused: the copy is thrown away.
Abort ==
  /\ busy' = FALSE
  /\ staged' = state
  /\ stack' = <<>> /\ pending' = <<>> /\ emitted' = <<>> /\ visited' = 0
  /\ UNCHANGED <<graph, state, reported, events>>

\* Faulty variant: rounds are not counted.
BeginRoundUncounted ==
  /\ busy /\ pending = <<>> /\ stack # <<>>
  /\ LET e == Last(stack) IN
     /\ staged' = publish_object_channel(graph, staged, e)
     /\ stack' = Front(stack)
     /\ pending' = deliveries(graph, e)
     /\ UNCHANGED <<graph, state, visited, emitted, busy, reported, events>>

\* Take the emission on top of the stack: fill the channel its object sends
\* on, then deliver it to the channel's receivers and along the edges.
BeginRound ==
  /\ busy /\ pending = <<>> /\ stack # <<>>
  /\ LET e == Last(stack) IN
     IF visited + 1 > Limit(graph) THEN Abort
     ELSE /\ staged' = publish_object_channel(graph, staged, e)
          /\ stack' = Front(stack)
          /\ pending' = deliveries(graph, e)
          /\ visited' = visited + 1
          /\ UNCHANGED <<graph, state, emitted, busy, reported, events>>

\* One delivery.  The first target of an edge that refuses ends the event;
\* what an object refuses on a channel is only reported.
Deliver ==
  /\ busy /\ pending # <<>>
  /\ LET d == Head(pending)
         r == apply_event_direct(graph, staged, d.to[1], d.to[2], d.message)
     IN IF ~r.ok /\ ~d.named THEN Abort
        ELSE /\ staged' = r.st
             /\ stack' = stack \o r.emitted
             /\ emitted' = Told(emitted, ToSet(stack), r.emitted)
             /\ pending' = Tail(pending)
             /\ UNCHANGED <<graph, state, visited, busy, reported, events>>

\* Nothing is left to deliver: install the copy and answer.
Commit ==
  /\ busy /\ stack = <<>> /\ pending = <<>>
  /\ state' = staged
  /\ busy' = FALSE
  /\ emitted' = <<>>
  /\ visited' = 0
  /\ reported' = [out \in DOMAIN reported \cup DOMAIN emitted |->
                     IF out \in DOMAIN emitted THEN emitted[out] ELSE reported[out]]
  /\ UNCHANGED <<graph, staged, stack, pending, events>>

Next ==
  \/ \E request \in Events : BeginEvent(request)
  \/ BeginRound
  \/ Deliver
  \/ Commit

Spec == Init /\ [][Next]_vars

\* The loop runs in one call and does not stop on its own.
FairSpec == Spec /\ WF_vars(BeginRound \/ Deliver \/ Commit)

(***************************************************************************)
(* Properties.                                                             *)
(***************************************************************************)
InRange(value) ==
  LET x == Content(value) IN
  CASE Type(value) = "int" -> x \in IntRange[Rep(value)][1]..IntRange[Rep(value)][2]
    [] Type(value) = "uint" -> x \in 0..UintMax[Rep(value)]
    [] Type(value) = "float" -> /\ x \in -Greatest(Rep(value))..Greatest(Rep(value))
                                /\ x >= Least(Rep(value))
    [] Type(value) = "color" -> \A i \in 1..4 : x[i] \in 0..2 /\ (Rep(value) = "rgb8unorm" => x[4] = 2)
    [] OTHER -> TRUE

\* A float whose representation is narrower than the 64 bits it is computed in
\* holds infinity after a finite number that was too large for it.
Overflowed(value) ==
  /\ Type(value) = "float" /\ Rep(value) \in DOMAIN FloatMax
  /\ Content(value) = Infinity \/ (Content(value) = -Infinity /\ Rep(value) \notin Unsigned)

Storable(value) == InRange(value) \/ Overflowed(value)

\* What an object may hold.
KeptBy(node, value) ==
  LET default == for_node_default(node) IN
  /\ Type(value) = Type(default) /\ Rep(value) = Rep(default)
  /\ \/ value = default
     \/ node.kind \in OperatorKinds /\ Content(value) \in -MaxFloat..MaxFloat
     \/ node.kind \notin OperatorKinds /\ Storable(value)

(* Whatever messages arrive, by request, edge or channel, an object keeps a
   value of its own type and representation.  Unless it is still the unchecked
   parameter of the document, the value is within the range of that
   representation: integers between its bounds, floats finite and the unsigned
   ones not negative, colour channels between nought and one.  There are two
   exceptions.  A float of a narrow representation holds infinity after a
   finite number too large for it (quantize_float comes after sanitize_f64),
   and an operator's result is only known to be a finite 64-bit number: it is
   stored as it is computed, whatever its representation says
   (value_from_message, evaluate_operator, for_node_default). *)
ValuesKeepTheirType ==
  /\ DOMAIN state.values = DOMAIN from_graph(graph).values
  /\ \A id \in DOMAIN state.values : KeptBy(NodeOf(graph, id), state.values[id])

EdgesInto(id) == {i \in 1..Len(graph.edges) : graph.edges[i].to[1] = id}
Addressed(id) == \E request \in Events : request.node = id
IsNumeric(id) == id \in NodeIds(graph) /\ NodeOf(graph, id).kind \in {"float", "int", "uint"}

(* An object that is fed by a channel alone holds what some numeric message on
   that channel, still stored in the channel, converts to: channel table and
   receivers do not come apart, whichever objects refuse (a partial failure)
   and whichever event is thrown away. *)
ReceiversFollowChannel ==
  ~busy => \A id \in DOMAIN state.values :
    LET node == NodeOf(graph, id)
        default == for_node_default(node)
        sources == {key \in DOMAIN state.channels :
                      key[2] = node.receive /\ key[1] \in NumericKinds}
    IN (/\ IsNumeric(id) /\ "in" \in node.inputs /\ EdgesInto(id) = {} /\ ~Addressed(id)
        /\ node.receive # "" /\ node.send # node.receive)
       => \/ state.values[id] = default /\ (sources = {} \/ value_from_message(
                                              Message("int", <<int(0)>>), default) = <<>>)
          \/ \E key \in sources :
               value_from_message(state.channels[key], default) = <<state.values[id]>>

(* An object fed by one edge alone holds what the newest message told for the
   edge's source converts to, and its parameter before the first one: clients
   that follow the emissions know the values downstream, and a refused event
   leaves no trace there.  The exception is an output whose emission overtook
   an older one: the stack of propagate_emissions delivers the newer first, and
   the objects after it end with the older one. *)
TargetsFollowReports ==
  ~busy => \A i \in 1..Len(graph.edges) :
    LET from == graph.edges[i].from
        id == graph.edges[i].to[1]
    IN (/\ graph.edges[i].to[2] \in {"in", "cold"}
        /\ IsNumeric(id) /\ EdgesInto(id) = {i} /\ ~Addressed(id)
        /\ NodeOf(graph, id).receive = "")
       => IF from \notin DOMAIN reported
          THEN state.values[id] = for_node_default(NodeOf(graph, id))
          ELSE \A j \in 1..Len(reported[from]) :
                 \/ is_bang_message(reported[from][j])
                 \/ value_from_message(reported[from][j], state.values[id])
                      = read_control(graph, state, id, "state", "value")

(* Every event ends, accepted or refused, also on a graph or through channels
   that feed an object's output back to it (the safety limit). *)
EventsEnd == busy ~> ~busy
=============================================================================
