------------------------------ MODULE ObjectText ------------------------------
(***************************************************************************)
(* Object text (object_text.rs): what a client types into an object box is *)
(* looked up among the core objects and the patches of the project, and    *)
(* becomes a node.  The same registry, projected, is the node catalog and  *)
(* gives planning the definitions of the node kinds.                       *)
(*                                                                         *)
(* A text is [class, args], an argument an atom <<type, content>>; parsing *)
(* belongs to the contracts library.  A patch is [id, revision, graph]; a  *)
(* library is a sequence of patches.  Port metadata that only editors read *)
(* (labels, accepted types, message keys) is left out.                     *)
(***************************************************************************)
EXTENDS Integers, Sequences, SequencesExt

CONSTANTS
  Sanitize, \* patch id -> the id with every foreign character replaced by '-'
  MaxInt    \* greatest i64

(***************************************************************************)
(* Atoms.                                                                  *)
(***************************************************************************)
Text(class, args) == [class |-> class, args |-> args]

\* An unsigned literal that does not fit i64 becomes a symbol.
contract_object_text_atom_to_runtime(atom) ==
  CASE atom[1] = "uint" /\ atom[2] > MaxInt -> <<"symbol", "digits">>
    [] atom[1] = "uint" /\ atom[2] <= MaxInt -> <<"int", atom[2]>>
    [] OTHER -> atom

parse_object_text_input(text) ==
  [text EXCEPT !.args = [i \in 1..Len(@) |-> contract_object_text_atom_to_runtime(@[i])]]

numeric_value(atom) == atom[1] \in {"float", "int"}
integer_value(atom) == atom[1] = "int"
unsigned_value(atom) == atom[1] = "int" /\ atom[2] >= 0
symbol_value(atom) == atom[1] = "symbol" /\ atom[2] # ""

(***************************************************************************)
(* Ports of the core objects.                                              *)
(***************************************************************************)
input_port(id, type, rate) == [id |-> id, direction |-> "input", type |-> type, rate |-> rate]
output_port(id, type, rate) == [id |-> id, direction |-> "output", type |-> type, rate |-> rate]
message_input_port(id) == input_port(id, "message", "control")

stored_value_ports(type) ==
  {message_input_port("in"), input_port("cold", type, "control"), output_port("value", type, "control")}
control_sqrt_ports ==
  {input_port("in", "float32", "control"), output_port("out", "float32", "control")}
control_operator_ports == control_sqrt_ports \cup {input_port("right", "float32", "control")}
bang_ports == {message_input_port("in"), output_port("out", "bang", "event")}
message_ports == {message_input_port("in"), output_port("out", "message", "control")}
comment_ports == {message_input_port("in")}
audio_sig_ports ==
  {input_port("value", "float32", "control"), output_port("out", "float32", "audio")}
audio_osc_ports ==
  {input_port("frequency", "float32", "control"), output_port("out", "float32", "audio")}
audio_output_ports == {input_port(side, "float32", "audio") : side \in {"left", "right"}}
audio_input_ports == {output_port(side, "float32", "audio") : side \in {"left", "right"}}
audio_binary_ports == audio_output_ports \cup {output_port("out", "float32", "audio")}

EmptyGraph == [nodes |-> <<>>, edges |-> <<>>]

(***************************************************************************)
(* The registry: candidates in the order they are registered.              *)
(***************************************************************************)
Core(kind, aliases) ==
  [source |-> "core", kind |-> kind, aliases |-> Append(aliases, "object.core." \o kind), patch |-> <<>>]

register_first_party_core ==
  <<Core("operator.add", <<"+", "add">>), Core("operator.sub", <<"-", "sub">>),
    Core("operator.mul", <<"*", "mul">>), Core("operator.div", <<"/", "div">>),
    Core("operator.pow", <<"pow">>), Core("operator.min", <<"min">>),
    Core("operator.max", <<"max">>), Core("operator.sqrt", <<"sqrt">>),
    Core("float", <<"f", "float", "number">>), Core("int", <<"i", "int">>),
    Core("uint", <<"u", "uint">>), Core("bang", <<"b", "bang">>),
    Core("message", <<"msg", "message">>), Core("comment", <<"comment">>),
    Core("audio.sig", <<"sig~">>), Core("audio.osc", <<"osc~">>),
    Core("audio.operator.mul", <<"*~">>), Core("audio.input", <<"adc~">>),
    Core("audio.output", <<"dac~">>), Core("subpatch", <<"p">>),
    Core("inlet", <<"inlet">>), Core("outlet", <<"outlet">>)>>

CoreKinds == {register_first_party_core[i].kind : i \in 1..Len(register_first_party_core)}
OperatorKinds == {"operator." \o op : op \in {"add", "sub", "mul", "div", "pow", "min", "max"}}

\* Patch kinds are told apart from core kinds by their prefix.
project_patch_object_kind(id) == "object.project.patch." \o Sanitize[id]
IsPatchKind(kind) == kind \notin CoreKinds \cup {"unresolved"}

\* derive_patch_contract: an inlet of the patch is an input port of its
\* instances, an outlet an output port, each named by its boundary key.
project_patch_ports(patch) ==
  LET boundary(kind) == {patch.graph.nodes[i] : i \in {j \in 1..Len(patch.graph.nodes) :
                                                        patch.graph.nodes[j].kind = kind}}
  IN {input_port(n.key, "float32", "control") : n \in boundary("inlet")}
     \cup {output_port(n.key, "float32", "control") : n \in boundary("outlet")}

register_project_patches(library) ==
  [i \in 1..Len(library) |->
     [source |-> "patch", kind |-> project_patch_object_kind(library[i].id),
      aliases |-> <<library[i].id>>, patch |-> <<library[i]>>]]

for_patch_library(library) == register_first_party_core \o register_project_patches(library)

(***************************************************************************)
(* Resolution: [code, kind, params, ports].  Parameters are a set of     *)
(* <<key, atom>>.                                                          *)
(***************************************************************************)
failure(code) == [code |-> code, kind |-> "none", params |-> {}, ports |-> {}]
success(candidate, params, ports) ==
  [code |-> "ok", kind |-> candidate.kind, params |-> params, ports |-> ports]

\* At most `most` arguments, each passing the check.
CheckArgs(args, most, Coerces(_)) ==
  CASE Len(args) > most -> "invalid-arg-count"
    [] Len(args) <= most /\ \E i \in 1..Len(args) : ~Coerces(args[i]) -> "invalid-arg-type"
    [] OTHER -> "ok"

\* One optional argument that becomes a parameter.
WithParam(candidate, args, Coerces(_), default, key, ports) ==
  LET verdict == CheckArgs(args, 1, Coerces) IN
  IF verdict # "ok" THEN failure(verdict)
  ELSE success(candidate,
               IF args # <<>> THEN {<<key, args[1]>>}
               ELSE IF default = <<>> THEN {} ELSE {<<key, default>>},
               ports)

WithoutArgs(candidate, args, ports) ==
  IF args = <<>> THEN success(candidate, {}, ports) ELSE failure("invalid-arg-count")

resolve_control_value(candidate, args) ==
  CASE candidate.kind = "bang" -> WithoutArgs(candidate, args, bang_ports)
    [] candidate.kind = "message" -> success(candidate, {<<"text", args>>}, message_ports)
    [] candidate.kind = "comment" -> success(candidate, {<<"text", args>>}, comment_ports)
    [] candidate.kind = "float" ->
         WithParam(candidate, args, numeric_value, <<"int", 0>>, "value", stored_value_ports("float32"))
    [] candidate.kind = "int" ->
         WithParam(candidate, args, integer_value, <<"int", 0>>, "value", stored_value_ports("int32"))
    [] candidate.kind = "uint" ->
         WithParam(candidate, args, unsigned_value, <<"int", 0>>, "value", stored_value_ports("uint32"))

resolve_audio_object(candidate, args) ==
  CASE candidate.kind = "audio.sig" ->
         WithParam(candidate, args, numeric_value, <<"int", 0>>, "value", audio_sig_ports)
    [] candidate.kind = "audio.osc" ->
         WithParam(candidate, args, numeric_value, <<"int", 440>>, "frequency", audio_osc_ports)
    [] candidate.kind = "audio.operator.mul" -> WithoutArgs(candidate, args, audio_binary_ports)
    [] candidate.kind = "audio.input" -> WithoutArgs(candidate, args, audio_input_ports)
    [] candidate.kind = "audio.output" -> WithoutArgs(candidate, args, audio_output_ports)

\* A subpatch whose one argument is not a symbol, or that has none or several.
resolve_named_ref_object(candidate, args) ==
  IF Len(args) # 1 THEN failure("invalid-arg-count")
  ELSE IF ~symbol_value(args[1]) THEN failure("invalid-arg-type")
  ELSE success(candidate, {<<"patchRef", args[1]>>}, {})

construct_first_party_core(candidate, args) ==
  CASE candidate.kind = "operator.sqrt" -> WithoutArgs(candidate, args, control_sqrt_ports)
    [] candidate.kind \in OperatorKinds ->
         WithParam(candidate, args, numeric_value, <<"int", 0>>, "right", control_operator_ports)
    [] candidate.kind \in {"float", "int", "uint", "bang", "message", "comment"} ->
         resolve_control_value(candidate, args)
    [] candidate.kind = "subpatch" -> resolve_named_ref_object(candidate, args)
    [] candidate.kind \in {"inlet", "outlet"} ->
         WithParam(candidate, args, symbol_value, <<>>, "portId", {})
    [] OTHER -> resolve_audio_object(candidate, args)

IsSubpatchClass(class) == class \in {"p", "object.core.subpatch"}

construct_project_patch(candidate, text) ==
  LET patch == candidate.patch[1] IN
  IF ~IsSubpatchClass(text.class) /\ text.args # <<>> THEN failure("invalid-arg-count")
  ELSE success(candidate,
               {<<"patchRef", <<"symbol", patch.id>>>>, <<"patchRevision", patch.revision>>},
               project_patch_ports(patch))

\* Names of payloads; those with a prefix are stood for by one each.
is_payload_identity_kind(class) ==
  class \in {"value", "data", "payload", "bool", "string", "object.core.bool", "object.core.string",
             "value.core.message", "data.any", "payload.any", "control.any"}
unsupported_first_party_audio(class) ==
  class \in {"+~", "-~", "/~", "sqrt~", "phasor~",
             "object.core.audio.operator.add", "object.core.audio.operator.sub",
             "object.core.audio.operator.div", "object.core.audio.operator.sqrt",
             "object.core.audio.phasor"}

\* "p name" names a patch of the project, also one that bears a core alias.
\* The unchecked registry, which has no patches, takes any name.
lookup_explicit_project_patch_candidates(library, unchecked, text) ==
  IF Len(text.args) # 1 \/ ~symbol_value(text.args[1])
  THEN <<Core("subpatch", <<"p">>)>>
  ELSE LET id == text.args[1][2]
           matches == SelectSeq(register_project_patches(library),
                                LAMBDA candidate : candidate.patch[1].id = id)
       IN IF matches # <<>> \/ ~unchecked THEN matches
          ELSE <<[source |-> "patch", kind |-> "subpatch", aliases |-> <<id>>,
                  patch |-> <<[id |-> id, revision |-> 0, graph |-> EmptyGraph]>>]>>

lookup_candidates(library, unchecked, text) ==
  IF IsSubpatchClass(text.class) THEN lookup_explicit_project_patch_candidates(library, unchecked, text)
  ELSE SelectSeq(for_patch_library(library),
                 LAMBDA candidate : \E i \in 1..Len(candidate.aliases) : candidate.aliases[i] = text.class)

\* Faulty variant: the first candidate wins.
resolve_first(library, unchecked, input) ==
  LET text == parse_object_text_input(input)
      candidates == lookup_candidates(library, unchecked, text)
  IN IF candidates = <<>> THEN failure("unresolved")
     ELSE IF candidates[1].source = "core" THEN construct_first_party_core(candidates[1], text.args)
     ELSE construct_project_patch(candidates[1], text)

resolve(library, unchecked, input) ==
  LET text == parse_object_text_input(input)
      candidates == lookup_candidates(library, unchecked, text)
  IN CASE is_payload_identity_kind(text.class) -> failure("payload-identity")
       [] unsupported_first_party_audio(text.class) -> failure("unsupported-first-party")
       [] ~is_payload_identity_kind(text.class) /\ ~unsupported_first_party_audio(text.class) ->
            IF candidates = <<>> THEN failure("unresolved")
            ELSE IF Len(candidates) > 1 THEN failure("ambiguous")
            ELSE IF candidates[1].source = "core" THEN construct_first_party_core(candidates[1], text.args)
            ELSE construct_project_patch(candidates[1], text)

\* The resolver of validation: core objects and unchecked patch references.
resolve_object_text(input) == resolve(<<>>, TRUE, input)

(***************************************************************************)
(* Nodes.  `key` is the name of a boundary node.                           *)
(***************************************************************************)
ParamOf(params, key) == {p[2] : p \in {q \in params : q[1] = key}}

boundary_key(id, params) ==
  IF ParamOf(params, "portId") = {} THEN id
  ELSE (CHOOSE atom \in ParamOf(params, "portId") : TRUE)[2]

materialize_object_text_node(resolution, input, id) ==
  [id |-> id, kind |-> resolution.kind, text |-> input, params |-> resolution.params,
   ports |-> resolution.ports, key |-> boundary_key(id, resolution.params)]

materialize_unresolved_object_text_node(resolution, input, id) ==
  [id |-> id, kind |-> "unresolved", text |-> input, params |-> {}, ports |-> {}, key |-> id]

\* materialize_object_command_node: the node a client's text becomes, none
\* when its policy is to refuse.
materialize_object_command_node(library, input, id, policy) ==
  LET resolution == resolve(library, FALSE, input) IN
  CASE resolution.code = "ok" -> <<materialize_object_text_node(resolution, input, id)>>
    [] resolution.code # "ok" /\ policy = "materialize" ->
         <<materialize_unresolved_object_text_node(resolution, input, id)>>
    [] OTHER -> <<>>

(***************************************************************************)
(* The catalog and the definitions planning uses.                          *)
(***************************************************************************)
Definition(id, ports) ==
  [id |-> id, ports |-> ports,
   model |-> IF \E p \in ports : p.rate = "audio" THEN "audio_block" ELSE "control"]

unresolved_object_text_node_definition == [id |-> "unresolved", ports |-> {}, model |-> "event"]

canonical_object_text(candidate) == Text(candidate.aliases[1], <<>>)

CatalogEntry(text, kind, definition) == [text |-> text, kind |-> kind, definition |-> definition]

\* A core object is in the catalog when its canonical text creates something.
core_catalog_entry(library, candidate) ==
  LET resolution == resolve(library, FALSE, canonical_object_text(candidate)) IN
  IF candidate.kind = "subpatch" \/ resolution.code # "ok" THEN {}
  ELSE {CatalogEntry(canonical_object_text(candidate), candidate.kind,
                     Definition(resolution.kind, resolution.ports))}

\* A patch always is.  Its definition is not named by its kind (the name's
\* digest of the interface is left out).
project_patch_catalog_entry(candidate) ==
  LET ports == project_patch_ports(candidate.patch[1]) IN
  {CatalogEntry(canonical_object_text(candidate), candidate.kind,
                Definition("project.patch:" \o candidate.patch[1].id, ports))}

catalog_projection(library) ==
  UNION {LET candidate == for_patch_library(library)[i]
         IN IF candidate.source = "core" THEN core_catalog_entry(library, candidate)
            ELSE project_patch_catalog_entry(candidate) :
         i \in 1..Len(for_patch_library(library))}

\* Faulty variant: nodes without an object have no definition.
definitions_of_catalog(library) == {entry.definition : entry \in catalog_projection(library)}

node_definition_projection(library) ==
  {entry.definition : entry \in catalog_projection(library)}
  \cup {unresolved_object_text_node_definition}

\* The caller's definitions win over the catalog's.
normalized_node_definitions(library, explicit) ==
  explicit \cup {d \in node_definition_projection(library) : \A e \in explicit : e.id # d.id}

\* object_text_node_definition, remembered by the session with the node.
node_definition(node) ==
  IF node.kind = "unresolved" THEN unresolved_object_text_node_definition
  ELSE Definition(node.kind, node.ports)
=============================================================================
