----------------------------- MODULE MCCommands -----------------------------
(* Two clients on one document: two connected value objects and a patch.    *)
EXTENDS Commands

F(i) == <<"f", i>>
In(i) == <<"inlet", i>>
Node(kind) == [kind |-> kind, param |-> 0]
Loaded == (Root :> [revision |-> 1, nodes |-> (F(1) :> Node("float") @@ F(3) :> Node("float"))])
          @@ (Patch :> [revision |-> 1, nodes |-> (In(1) :> Node("inlet"))])
Connected == {<<F(1), F(3)>>}
Texts == ("f" :> "float") @@ ("inlet" :> "inlet") @@ ("nope" :> "unresolved")

Frame(kind, path, id, text, param) ==
  [kind |-> kind, path |-> path, id |-> id, text |-> text, param |-> param,
   policy |-> "reject", named |-> kind \in {"node.input", "node.update"}, complete |-> TRUE, hot |-> TRUE]

Frames ==
  {Frame("node.create", Root, None, "f", 1), Frame("node.create", Patch, None, "inlet", 0),
   Frame("node.create", Root, F(1), "nope", 0),
   Frame("node.replace", Root, F(1), "f", 1), Frame("node.delete", Patch, In(1), "f", 0),
   Frame("node.update", Root, F(1), "f", 1),
   Frame("view.patch", Root, None, "f", 0), Frame("node.resolve", Root, None, "nope", 0),
   Frame("node.input", Root, F(1), "f", 1), Frame("control.command", Root, F(3), "f", 2),
   Frame("presence.update", Root, None, "f", 0), Frame("nodeCatalog.request", Root, None, "f", 0),
   Frame("session.hello", Root, None, "none", 0), Frame("session.hello", Root, None, "ifChanged", 0),
   Frame("session.hello", Root, None, "always", 0), Frame("unsupported", Root, None, "f", 0),
   [Frame("node.input", Root, F(3), "f", 0) EXCEPT !.hot = FALSE],
   [Frame("collaboration.changeSet", Root, F(1), "f", 1) EXCEPT !.complete = FALSE]}
Symmetric == Permutations(Clients)
=============================================================================
