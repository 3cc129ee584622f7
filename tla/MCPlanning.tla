----------------------------- MODULE MCPlanning -----------------------------
(* Small instances of Planning: documents with nested, shared, looping,     *)
(* misnamed and recursive patches, and objects created in them.             *)
EXTENDS Planning

Nothing == <<>>
Ids == {"fx", "wrap", "thru", "f", "my_fx", "my-fx", "bool", "echo"}
Sanitized == [id \in Ids |-> IF id = "my_fx" THEN "my-fx" ELSE id]
Sym(name) == <<"symbol", name>>

\* Audio feeds audio; messages take numbers.
TypesAgree(s, t) ==
  /\ (s.rate = "audio") = (t.rate = "audio")
  /\ s.type = t.type \/ t.type = "message"

Obj(id, class, args) ==
  materialize_object_command_node(<<>>, Text(class, args), id, "materialize")[1]
Use(id, patch) ==
  materialize_object_text_node(resolve_object_text(Text("p", <<Sym(patch)>>)), Text("p", <<Sym(patch)>>), id)
In(id, port) == Obj(id, "inlet", IF port = "" THEN <<>> ELSE <<Sym(port)>>)
Out(id, port) == Obj(id, "outlet", IF port = "" THEN <<>> ELSE <<Sym(port)>>)
Labelled(node, label) == [node EXCEPT !.params = @ \cup {<<"label", Sym(label)>>}]
Wire(from, port, to, input) == [from |-> <<from, port>>, to |-> <<to, input>>, feedback |-> "unset"]
Loops(edge, feedback) == [edge EXCEPT !.feedback = feedback]
Graph(nodes, es) == [nodes |-> nodes, edges |-> es]
Patch(id, graph) == [id |-> id, revision |-> 1, graph |-> graph]

\* One inlet feeds two objects, whose outputs meet in one outlet.
Fx == Patch("fx", Graph(<<Obj("b", "+", <<>>), In("i", "x"), Obj("a", "sqrt", <<>>), Out("o", "")>>,
        <<Wire("i", "x", "a", "in"), Wire("i", "x", "b", "right"), Wire("a", "out", "b", "in"),
          Wire("b", "out", "o", "in")>>))
\* A patch in a patch, with a cable that goes straight through.
Wrap == Patch("wrap", Graph(<<In("i", ""), Use("u", "fx"), Out("o", "y"), Out("d", "dry")>>,
        <<Wire("i", "x", "u", "x"), Wire("u", "o", "o", "in"), Wire("i", "x", "d", "in")>>))
\* Two ways through, one of them twice.
Thru == Patch("thru", Graph(<<In("i", "l"), In("j", "r"), Out("o", "l"), Labelled(Out("q", "r"), "s")>>,
        <<Wire("i", "x", "o", "in"), Wire("j", "x", "q", "in"), Wire("i", "x", "q", "in")>>))

\* A loop through an instance, broken by one part of its cable or by none.
Feedback(said) ==
  [library |-> <<Fx, Wrap>>,
   graph |-> Graph(<<Obj("n", "f", <<>>), Use("w", "wrap"), Obj("m", "max", <<>>)>>,
     <<Wire("n", "value", "m", "in"), Loops(Wire("w", "y", "m", "right"), said), Wire("m", "out", "w", "i")>>)]
\* A cable out of an instance and back into it through boundaries only.
Circle ==
  [library |-> <<Thru>>,
   graph |-> Graph(<<Obj("m", "max", <<>>), Use("t", "thru"), Obj("n", "f", <<>>)>>,
     <<Wire("n", "value", "t", "l"), Wire("t", "l", "t", "r"), Wire("t", "s", "t", "l"),
       Wire("t", "r", "m", "in"), Wire("t", "l", "m", "right")>>)]
\* An inner part of the loop's cable takes back what the outer part says.
Denied ==
  [library |-> <<Patch("fx", Graph(<<In("i", "x"), Obj("a", "sqrt", <<>>), Out("o", "")>>,
                   <<Loops(Wire("i", "x", "a", "in"), "off"), Wire("a", "out", "o", "in")>>))>>,
   graph |-> Graph(<<Use("u", "fx"), Obj("b", "sqrt", <<>>)>>,
     <<Loops(Wire("b", "out", "u", "x"), "on"), Wire("u", "o", "b", "in")>>)]
\* Three outlets that bear one name, by which the last is found, and a cable
\* that comes back to the port it left.
Odd ==
  [library |-> <<Patch("thru", Graph(<<In("i", "l"), Labelled(Out("o", "a"), "s"), Labelled(Out("p", "b"), "s"),
                                       Labelled(Out("q", "c"), "s")>>,
                   <<Wire("i", "x", "o", "in"), Wire("i", "x", "q", "in")>>))>>,
   graph |-> Graph(<<Obj("n", "f", <<>>), Use("t", "thru"), Obj("m", "max", <<>>)>>,
     <<Wire("m", "out", "t", "l"), Wire("t", "s", "n", "in"), Wire("t", "a", "m", "out")>>)]
\* Patches that bear the names of a core object and of a payload, and two
\* whose kinds are the same.
Names ==
  [library |-> <<Patch("f", Graph(<<Obj("a", "sqrt", <<>>)>>, <<>>)), Patch("bool", EmptyGraph),
                 Patch("my_fx", Fx.graph), Patch("my-fx", EmptyGraph)>>,
   graph |-> Graph(<<Use("u", "f"), Obj("a", "osc~", <<>>)>>, <<>>)]
\* Refused: recursion, a missing patch, too deep, two outlets with one name,
\* types that do not agree, two objects with one id.
Refusals ==
  {[library |-> <<Patch("echo", Graph(<<Use("u", "echo")>>, <<>>))>>, graph |-> Graph(<<Use("u", "echo")>>, <<>>)],
   [library |-> <<>>, graph |-> Graph(<<Use("u", "fx")>>, <<>>)],
   [library |-> <<Fx, Wrap, Patch("echo", Graph(<<Use("u", "wrap")>>, <<>>))>>, graph |-> Graph(<<Use("u", "echo")>>, <<>>)],
   [library |-> <<Fx, Fx>>, graph |-> EmptyGraph],
   [library |-> <<Patch("fx", Graph(<<Out("o", "x"), Labelled(Out("q", "y"), "x"), Obj("a", "f", <<>>)>>,
                                    <<Wire("a", "value", "q", "in")>>))>>,
    graph |-> Graph(<<Use("u", "fx"), Obj("m", "max", <<>>)>>, <<Wire("u", "x", "m", "in")>>)],
   [library |-> <<>>, graph |-> Graph(<<Obj("o", "osc~", <<>>), Obj("m", "max", <<>>)>>, <<Wire("o", "out", "m", "in")>>)],
   [library |-> <<>>, graph |-> Graph(<<Obj("o", "max", <<>>), Obj("o", "max", <<>>)>>, <<>>)]}

AllDocuments == {Feedback("on"), Feedback("unset"), Circle, Denied, Odd, Names} \cup Refusals

Sent(doc) ==
  [schema |-> "skenion.project", version |-> "0.1.0", fields |-> {"graph"}, frames |-> 0, document |-> doc]
\* Most documents come as they are, one in a wrapper; then what is not decoded.
AllPayloads ==
  {Sent(doc) : doc \in AllDocuments \ {Names}}
  \cup {[Sent(Names) EXCEPT !.schema = "none", !.fields = {"graph", "nodes"}],
        [Sent(Names) EXCEPT !.schema = "none", !.fields = {}],
        [Sent(Names) EXCEPT !.version = "0.2.0"],
        [Sent(Names) EXCEPT !.fields = {"graph", "nodes"}],
        [Sent(Names) EXCEPT !.fields = {"graph", "frames"}, !.frames = -1]}

Texts == {Text("float", <<>>), Text("f", <<<<"int", 1>>>>), Text("uint", <<<<"uint", 9>>>>),
          Text("int", <<<<"int", -1>>>>), Text("bool", <<>>), Text("my_fx", <<>>), Text("my-fx", <<>>),
          Text("p", <<Sym("f")>>), Text("p", <<>>), Text("inlet", <<Sym("z")>>), Text("+~", <<>>), Text("msg", <<>>)}
AllCreations ==
  {[target |-> target, text |-> text, id |-> "c", policy |-> policy] :
     target \in {Root, "fx"}, text \in Texts, policy \in {"materialize", "reject"}}
AllDeletions == {<<Root, "w">>, <<Root, "t">>, <<"fx", "a">>, <<"fx", "i">>, <<"wrap", "u">>, <<Root, "c">>}
=============================================================================
