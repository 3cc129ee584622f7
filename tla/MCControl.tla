------------------------------ MODULE MCControl ------------------------------
(* Small instances of ControlState: graphs with a chain, a feedback loop, a  *)
(* source that reaches an operator twice, message boxes and channels.        *)
EXTENDS ControlState

Node(id, kind, rep, value, send, receive) ==
  [id |-> id, kind |-> kind, rep |-> rep, value |-> value, right |-> 2,
   send |-> send, receive |-> receive,
   inputs |-> CASE kind \in OperatorKinds \ {"sqrt"} -> {"in", "right"}
                [] kind \in {"sqrt", "message"} -> {"in"}
                [] OTHER -> {"in", "cold"}]
Edge(from, port, to, input) == [from |-> <<from, port>>, to |-> <<to, input>>]
White == <<2, 2, 2, 2>>

\* A value sent on a channel to an unsigned receiver, along edges to an
\* integer, its cold port, operators and an object without control input.
Chain ==
  [nodes |-> <<Node("a", "float", "f32", 1, "vol", ""), Node("b", "int", "i8", 9, "", ""),
               Node("c", "uint", "u8", 0, "", "vol"), Node("d", "div", "", 0, "", ""),
               Node("e", "float", "f32", 0, "", ""), Node("o", "osc", "", 0, "", ""),
               Node("q", "int", "i24", 0, "", "vol")>>,
   edges |-> <<Edge("a", "value", "b", "in"), Edge("b", "value", "d", "in"),
               Edge("a", "value", "d", "right"), Edge("d", "out", "e", "cold"),
               Edge("a", "value", "o", "in"), Edge("a", "value", "gone", "in")>>]

\* Two objects that feed each other.
Loop ==
  [nodes |-> <<Node("a", "float", "f32", 0, "", ""), Node("b", "add", "", 0, "", "")>>,
   edges |-> <<Edge("a", "value", "b", "in"), Edge("b", "out", "a", "in")>>]

\* Two objects that send and receive on one name.
Echo ==
  [nodes |-> <<Node("a", "float", "f32", 0, "x", "x"), Node("b", "int", "i32", 0, "x", "x")>>,
   edges |-> <<>>]

\* One emission reaches the operator by the channel, then its right operand,
\* then its input again.
Twice ==
  [nodes |-> <<Node("a", "float", "f32", 0, "x", ""), Node("d", "add", "", 0, "", "x"),
               Node("e", "float", "f32", 0, "", ""), Node("r", "sqrt", "", 0, "", "")>>,
   edges |-> <<Edge("a", "value", "d", "right"), Edge("a", "value", "d", "in"),
               Edge("d", "out", "e", "in"), Edge("e", "value", "r", "in")>>]

\* A message box whose text decides what it sends, and receivers that take
\* different kinds.
Box ==
  [nodes |-> <<Node("a", "message", "", <<Word("float"), Number(3)>>, "x", ""),
               Node("b", "float", "ufloat16", 0, "", "x"), Node("c", "color", "rgb8unorm", White, "", "x"),
               Node("d", "comment", "", <<>>, "", "x"), Node("e", "bang", "", 0, "", "x"),
               Node("f", "uint", "u8", 3, "", "")>>,
   edges |-> <<Edge("b", "value", "f", "in"), Edge("e", "out", "f", "in")>>]

\* A message box wired to a number and then to an object that takes only "set".
Strict ==
  [nodes |-> <<Node("b", "float", "f32", 0, "y", ""), Node("a", "message", "", <<Word("hi")>>, "", ""),
               Node("c", "int", "i8", 0, "", "y"), Node("e", "panel", "", <<>>, "", "")>>,
   edges |-> <<Edge("a", "out", "b", "in"), Edge("b", "value", "e", "cold"), Edge("a", "out", "e", "in")>>]

\* A number reached along two paths: its second emission overtakes the first.
Diamond ==
  [nodes |-> <<Node("a", "float", "f32", 0, "", ""), Node("s", "float", "f32", 0, "", ""),
               Node("x", "add", "", 0, "", ""), Node("t", "float", "f32", 0, "", "")>>,
   edges |-> <<Edge("a", "value", "s", "in"), Edge("a", "value", "x", "in"),
               Edge("x", "out", "s", "in"), Edge("s", "value", "t", "in")>>]

\* A power, the narrow float it is stored in and an unsigned one after that:
\* numbers that fit the first object and no longer the others.
Power ==
  [nodes |-> <<Node("a", "float", "f64", 0, "", ""), Node("p", "pow", "", 0, "", ""),
               Node("t", "float", "f32", 0, "", ""), Node("u", "float", "ufloat8", 0, "", "")>>,
   edges |-> <<Edge("a", "value", "p", "right"), Edge("a", "value", "p", "in"),
               Edge("p", "out", "t", "in"), Edge("a", "value", "u", "cold")>>]

AllGraphs == {Chain, Loop, Echo, Twice, Box, Strict, Diamond, Power}

Messages ==
  {bang, from_value(float(3)), from_value(int(-3)), from_value(bool(TRUE)),
   Message("set", <<float(5)>>), Message("set", <<string(<<Word("bang")>>)>>),
   Message("set", <<string(<<Word("set")>>), float(1)>>), Message("set", <<>>),
   Message("set", <<string(<<Word("hi"), Word("on")>>)>>), from_value(string(<<Word("off")>>)),
   from_value(color(<<3, -1, 0, 1>>)), from_value(float(10)), from_value(float(-9)),
   Message("set", <<color(<<3, -1, 0, 1>>)>>), Message("set", <<string(<<Word("hi")>>), color(<<0, 0, 1, 2>>)>>),
   Message("set", <<string(<<Word("uint")>>), int(2)>>), Message("set", <<string(<<Word("bool")>>), int(1)>>)}

AllEvents == {[node |-> "a", port |-> port, message |-> m] : port \in {"in", "cold"}, m \in Messages}

Ranges == [i8 |-> <<-2, 1>>, i32 |-> <<-3, 2>>, i64 |-> <<-4, 3>>]
Maxima == [u8 |-> 1, u32 |-> 3, u64 |-> 4]
Narrow == [f32 |-> 8, f16 |-> 8, ufloat16 |-> 8, ufloat8 |-> 9]
=============================================================================
