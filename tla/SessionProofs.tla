---------------------------- MODULE SessionProofs ----------------------------
(***************************************************************************)
(* Theorems about RuntimeSession and SessionClients, for any documents,    *)
(* edits, view patches and number of actors.                               *)
(***************************************************************************)
EXTENDS SessionClients, TLAPS, WellFoundedInduction

----------------------------------------------------------------------------
(* Induction on sets of naturals.                                          *)

\* A set with 0 that is closed under successor holds every natural number.
LEMMA NatSetInduction ==
    ASSUME NEW S, 0 \in S, \A n \in Nat : n \in S => n + 1 \in S
    PROVE  Nat \subseteq S
<1> SUFFICES ASSUME Nat \ S # {} PROVE FALSE
  OBVIOUS
<1>1. \E x \in Nat \ S : \A y \in Nat \ S : <<y, x>> \notin OpToRel(<, Nat)
  BY NatLessThanWellFounded, WFMin
<1>2. PICK x \in Nat \ S : \A y \in Nat \ S : ~ (y < x)
  BY <1>1 DEF OpToRel
<1>3. x # 0 /\ x - 1 \in Nat /\ x - 1 < x
  BY <1>2
<1>4. x - 1 \in S
  BY <1>2, <1>3
<1> QED BY <1>2, <1>3, <1>4

----------------------------------------------------------------------------
(* Partial functions.                                                      *)

LEMMA PartialFunctionFacts ==
    ASSUME NEW D, NEW R, NEW f
    PROVE  f \in PartialFunctions(D, R) <=> f \in [DOMAIN f -> R] /\ DOMAIN f \subseteq D
BY DEF PartialFunctions

\* Putting a value, keeping a part and overlaying stay within the type.
LEMMA PutType ==
    ASSUME NEW D, NEW R, NEW f \in PartialFunctions(D, R), NEW n \in D, NEW c \in R
    PROVE  /\ Put(f, n, c) \in PartialFunctions(D, R)
           /\ DOMAIN Put(f, n, c) = DOMAIN f \cup {n}
BY PartialFunctionFacts DEF Put

LEMMA RestrictType ==
    ASSUME NEW D, NEW R, NEW f \in PartialFunctions(D, R), NEW S, S \subseteq DOMAIN f
    PROVE  /\ Restrict(f, S) \in PartialFunctions(D, R)
           /\ DOMAIN Restrict(f, S) = S
           /\ \A k \in S : Restrict(f, S)[k] = f[k]
BY PartialFunctionFacts DEF Restrict

LEMMA WithoutType ==
    ASSUME NEW D, NEW R, NEW f \in PartialFunctions(D, R), NEW S
    PROVE  /\ Without(f, S) \in PartialFunctions(D, R)
           /\ DOMAIN Without(f, S) = DOMAIN f \ S
           /\ \A k \in DOMAIN f \ S : Without(f, S)[k] = f[k]
BY RestrictType DEF Without

LEMMA OverType ==
    ASSUME NEW D, NEW R, NEW f \in PartialFunctions(D, R), NEW g \in PartialFunctions(D, R)
    PROVE  /\ Over(f, g) \in PartialFunctions(D, R)
           /\ DOMAIN Over(f, g) = DOMAIN f \cup DOMAIN g
           /\ \A k \in DOMAIN Over(f, g) :
                Over(f, g)[k] = IF k \in DOMAIN f THEN f[k] ELSE g[k]
<1>1. f \in [DOMAIN f -> R] /\ DOMAIN f \subseteq D /\ g \in [DOMAIN g -> R] /\ DOMAIN g \subseteq D
  BY PartialFunctionFacts
<1> QED BY <1>1, PartialFunctionFacts DEF Over

LEMMA RevertType ==
    ASSUME NEW D, NEW R, NEW f \in PartialFunctions(D, R), NEW expected,
           NEW target \in PartialFunctions(D, R)
    PROVE  /\ Revert(f, expected, target) \in PartialFunctions(D, R)
           /\ DOMAIN Revert(f, expected, target) = DOMAIN f
           /\ \A k \in DOMAIN f :
                Revert(f, expected, target)[k] =
                  IF k \in DOMAIN expected \cap DOMAIN target /\ f[k] = expected[k]
                  THEN target[k] ELSE f[k]
<1>1. f \in [DOMAIN f -> R] /\ DOMAIN f \subseteq D /\ target \in [DOMAIN target -> R]
  BY PartialFunctionFacts
<1> QED BY <1>1, PartialFunctionFacts DEF Revert

----------------------------------------------------------------------------
(* Graphs and projects.                                                    *)

LEMMA GraphFields ==
    ASSUME NEW g \in Graph
    PROVE  /\ g.nodes \in PartialFunctions(NodeIds, Contents)
           /\ g.edges \in PartialFunctions(EdgeIds, EdgeSpec)
           /\ g.rev \in Nat
BY DEF Graph

\* Every edit of a graph yields a graph.
LEMMA GraphEditTypes ==
    ASSUME NEW g \in Graph
    PROVE  /\ Bump(g) \in Graph /\ Bump(g).nodes = g.nodes /\ Bump(g).edges = g.edges
           /\ Bump(g).rev = g.rev + 1
           /\ \A n \in NodeIds, c \in Contents :
                PutNode(g, n, c) \in Graph /\ PutNode(g, n, c).rev = g.rev
           /\ \A n : DropNode(g, n) \in Graph /\ DropNode(g, n).rev = g.rev
           /\ \A S : DropEdges(g, S) \in Graph /\ DropEdges(g, S).rev = g.rev
           /\ \A i \in EdgeIds, e \in EdgeSpec :
                [g EXCEPT !.edges = Put(@, i, e)] \in Graph
<1>1. /\ g.nodes \in PartialFunctions(NodeIds, Contents)
      /\ g.edges \in PartialFunctions(EdgeIds, EdgeSpec)
      /\ g.rev \in Nat
  BY GraphFields
<1>2. Bump(g) \in Graph /\ Bump(g).nodes = g.nodes /\ Bump(g).edges = g.edges /\ Bump(g).rev = g.rev + 1
  BY DEF Bump, Graph, next_graph_revision
<1>3. ASSUME NEW n \in NodeIds, NEW c \in Contents
      PROVE  PutNode(g, n, c) \in Graph /\ PutNode(g, n, c).rev = g.rev
  <2>1. Put(g.nodes, n, c) \in PartialFunctions(NodeIds, Contents)
    BY <1>1, PutType
  <2> QED BY <2>1 DEF PutNode, Graph
<1>4. ASSUME NEW n PROVE DropNode(g, n) \in Graph /\ DropNode(g, n).rev = g.rev
  <2>1. Without(g.nodes, {n}) \in PartialFunctions(NodeIds, Contents)
    BY <1>1, WithoutType
  <2>2. Without(g.edges, IncidentEdges(g, n)) \in PartialFunctions(EdgeIds, EdgeSpec)
    BY <1>1, WithoutType
  <2> QED BY <2>1, <2>2 DEF DropNode, Graph
<1>5. ASSUME NEW S PROVE DropEdges(g, S) \in Graph /\ DropEdges(g, S).rev = g.rev
  <2>1. Without(g.edges, S) \in PartialFunctions(EdgeIds, EdgeSpec)
    BY <1>1, WithoutType
  <2> QED BY <2>1 DEF DropEdges, Graph
<1>6. ASSUME NEW i \in EdgeIds, NEW e \in EdgeSpec PROVE [g EXCEPT !.edges = Put(@, i, e)] \in Graph
  <2>1. Put(g.edges, i, e) \in PartialFunctions(EdgeIds, EdgeSpec)
    BY <1>1, PutType
  <2> QED BY <2>1 DEF Graph
<1> QED BY <1>2, <1>3, <1>4, <1>5, <1>6

\* A project's root graph and patches; a position for every node.
LEMMA ProjectFields ==
    ASSUME NEW p \in Project
    PROVE  /\ p.graph \in Graph /\ p.view \in View /\ p.patches \in [PatchIds -> Graph]
           /\ p # NoProject
           /\ \A t \in Targets : target_graph(p, t) \in Graph
BY ProjectsAssumption, TargetAssumption DEF Project, Targets, target_graph

LEMMA ReconcileType ==
    ASSUME NEW g \in Graph, NEW view \in View
    PROVE  /\ reconcile_view_state(g, view) \in View
           /\ DOMAIN reconcile_view_state(g, view) = DOMAIN g.nodes
<1>1. /\ g.nodes \in [DOMAIN g.nodes -> Contents] /\ DOMAIN g.nodes \subseteq NodeIds
      /\ view \in [DOMAIN view -> Positions]
  BY GraphFields, PartialFunctionFacts DEF View
<1> QED BY <1>1, PartialFunctionFacts, DefaultViewAssumption DEF View, reconcile_view_state

----------------------------------------------------------------------------
(* Change sets.                                                            *)

Draft == [g : Graph, view : View, graphChanged : BOOLEAN, viewChanged : BOOLEAN]

\* A draft keeps the graph's revision, and the graph while it reports no change.
DraftOf(g, d) == d \in Draft /\ d.g.rev = g.rev /\ (~ d.graphChanged => d.g = g)

\* One change keeps that.
LEMMA ChangeType ==
    ASSUME NEW t \in Targets, NEW g \in Graph, NEW d, DraftOf(g, d), NEW c \in Change
    PROVE  DraftOf(g, ApplyChange(t, d, c))
<1>1. /\ d \in Draft /\ d.g \in Graph /\ d.view \in View /\ d.g.rev = g.rev
      /\ d.graphChanged \in BOOLEAN /\ d.viewChanged \in BOOLEAN
  BY DEF DraftOf, Draft
<1>2. CASE c.op = "nodeAdd"
  <2>1. c.node \in NodeIds /\ c.content \in Contents /\ c.view \in Positions \cup {NoView}
    BY <1>2 DEF Change
  <2>2. PutNode(d.g, c.node, c.content) \in Graph /\ PutNode(d.g, c.node, c.content).rev = g.rev
    BY <1>1, <2>1, GraphEditTypes
  <2>3. c.view # NoView => Put(d.view, c.node, c.view) \in View
    BY <1>1, <2>1, PutType DEF View
  <2>4. /\ ApplyChange(t, d, c).g = PutNode(d.g, c.node, c.content)
        /\ ApplyChange(t, d, c).graphChanged = TRUE
        /\ ApplyChange(t, d, c) \in Draft
    BY <1>1, <1>2, <2>2, <2>3 DEF ApplyChange, Draft
  <2> QED BY <2>2, <2>4 DEF DraftOf
<1>3. CASE c.op = "nodeMove"
  <2>1. Put(d.view, c.node, c.to) \in View
    BY <1>1, <1>3, PutType DEF Change, View
  <2>2. /\ ApplyChange(t, d, c).g = d.g
        /\ ApplyChange(t, d, c).graphChanged = d.graphChanged
        /\ ApplyChange(t, d, c) \in Draft
    BY <1>1, <1>3, <2>1 DEF ApplyChange, Draft
  <2> QED BY <1>1, <2>2 DEF DraftOf
<1>4. CASE c.op = "nodeDelete"
  <2>1. DropNode(d.g, c.node) \in Graph /\ DropNode(d.g, c.node).rev = g.rev
    BY <1>1, GraphEditTypes
  <2>2. Without(d.view, {c.node}) \in View
    BY <1>1, WithoutType DEF View
  <2>3. /\ ApplyChange(t, d, c).g = DropNode(d.g, c.node)
        /\ ApplyChange(t, d, c).graphChanged = TRUE
        /\ ApplyChange(t, d, c) \in Draft
    BY <1>1, <1>4, <2>1, <2>2 DEF ApplyChange, Draft
  <2> QED BY <2>1, <2>3 DEF DraftOf
<1>5. CASE c.op = "edgeConnect"
  <2> DEFINE h == [d.g EXCEPT !.edges = Put(@, c.edge, c.spec)]
  <2>1. h \in Graph /\ h.rev = g.rev
    <3>1. c.edge \in EdgeIds /\ c.spec \in EdgeSpec
      BY <1>5 DEF Change
    <3>2. h \in Graph
      BY <3>1, <1>1, GraphEditTypes
    <3> QED BY <3>2, <1>1 DEF Graph
  <2>2. /\ ApplyChange(t, d, c).g = h
        /\ ApplyChange(t, d, c).graphChanged = TRUE
        /\ ApplyChange(t, d, c) \in Draft
    BY <1>1, <1>5, <2>1 DEF ApplyChange, Draft
  <2> QED BY <2>1, <2>2 DEF DraftOf
<1>6. CASE c.op = "edgeDisconnect"
  <2>1. DropEdges(d.g, {c.edge}) \in Graph /\ DropEdges(d.g, {c.edge}).rev = g.rev
    BY <1>1, GraphEditTypes
  <2>2. /\ ApplyChange(t, d, c).g = DropEdges(d.g, {c.edge})
        /\ ApplyChange(t, d, c).graphChanged = TRUE
        /\ ApplyChange(t, d, c) \in Draft
    BY <1>1, <1>6, <2>1 DEF ApplyChange, Draft
  <2> QED BY <2>1, <2>2 DEF DraftOf
<1>7. c.op \in {"nodeAdd", "nodeMove", "nodeDelete", "edgeConnect", "edgeDisconnect"}
  BY DEF Change
<1> QED BY <1>2, <1>3, <1>4, <1>5, <1>6, <1>7

\* What a change set makes of a project is a draft of the target's graph.
LEMMA ChangesType ==
    ASSUME NEW p \in Project, NEW t \in Targets, NEW changes \in Seq(Change)
    PROVE  \A d \in apply_changes(p, t, changes) : DraftOf(target_graph(p, t), d)
<1> DEFINE start == [g |-> target_graph(p, t), view |-> p.view,
                     graphChanged |-> FALSE, viewChanged |-> FALSE]
           After(X, i) == {ApplyChange(t, d, changes[i]) :
                             d \in {e \in X : ChangeAllowed(t, e, changes[i])}}
           Rounds(f, n) == f = [i \in 0..n |-> IF i = 0 THEN {start} ELSE After(f[i - 1], i)]
           Defined == {n \in Nat : \E f : Rounds(f, n)}
<1>1. 0 \in Defined
  <2>1. Rounds([i \in 0..0 |-> {start}], 0)
    OBVIOUS
  <2> QED BY <2>1
<1>2. ASSUME NEW n \in Nat, n \in Defined PROVE n + 1 \in Defined
  <2>1. PICK f : Rounds(f, n)
    BY <1>2
  <2> DEFINE h == [i \in 0..(n + 1) |-> IF i \in 0..n THEN f[i] ELSE After(f[n], n + 1)]
  <2>2. \A i \in 0..n : h[i] = f[i] /\ f[i] = IF i = 0 THEN {start} ELSE After(f[i - 1], i)
    <3>1. ASSUME NEW i \in 0..n PROVE f[i] = IF i = 0 THEN {start} ELSE After(f[i - 1], i)
      <4> HIDE DEF start, After
      <4> QED BY <2>1
    <3>2. ASSUME NEW i \in 0..n PROVE h[i] = f[i]
      <4> i \in 0..(n + 1)
        OBVIOUS
      <4> HIDE DEF start, After
      <4> QED OBVIOUS
    <3> HIDE DEF start, After, h
    <3> QED BY <3>1, <3>2
  <2>3. h[n + 1] = After(f[n], n + 1) /\ h[n] = f[n]
    <3> HIDE DEF start, After
    <3> QED OBVIOUS
  <2>4. ASSUME NEW i \in 0..(n + 1) PROVE h[i] = IF i = 0 THEN {start} ELSE After(h[i - 1], i)
    <3> HIDE DEF start, After, h
    <3>1. CASE i = n + 1
      <4>1. i # 0 /\ i - 1 = n
        BY <3>1
      <4> QED BY <3>1, <4>1, <2>3
    <3>2. CASE i # n + 1 /\ i # 0
      <4>1. i \in 0..n /\ i - 1 \in 0..n
        BY <3>2
      <4>2. h[i - 1] = f[i - 1] /\ h[i] = f[i]
        BY <4>1, <2>2
      <4>3. f[i] = After(f[i - 1], i)
        BY <4>1, <2>2, <3>2
      <4> QED BY <4>2, <4>3, <3>2
    <3>3. CASE i = 0
      <4>1. i \in 0..n
        BY <3>3
      <4> QED BY <4>1, <3>3, <2>2
    <3> QED BY <3>1, <3>2, <3>3
  <2>5. Rounds(h, n + 1)
    <3>1. \A i \in 0..(n + 1) : h[i] = IF i = 0 THEN {start} ELSE After(h[i - 1], i)
      BY <2>4
    <3> HIDE DEF start, After
    <3> QED BY <3>1
  <2> HIDE DEF h, Rounds
  <2> QED BY <2>5
<1>3. Len(changes) \in Defined
  <2> HIDE DEF Defined
  <2>1. Nat \subseteq Defined
    BY <1>1, <1>2, NatSetInduction
  <2>2. Len(changes) \in Nat
    OBVIOUS
  <2> QED BY <2>1, <2>2
<1>4. PICK f : Rounds(f, Len(changes)) /\ apply_changes(p, t, changes) = f[Len(changes)]
  <2> DEFINE F == CHOOSE f : Rounds(f, Len(changes))
  <2>1. Rounds(F, Len(changes))
    BY <1>3
  <2>2. apply_changes(p, t, changes) = F[Len(changes)]
    BY DEF apply_changes
  <2> QED BY <2>1, <2>2
<1> DEFINE Good == {i \in Nat : i <= Len(changes) => \A d \in f[i] : DraftOf(target_graph(p, t), d)}
<1>5. 0 \in Good
  <2>1. f[0] = {start}
    BY <1>4
  <2>2. DraftOf(target_graph(p, t), start)
    BY ProjectFields DEF DraftOf, Draft
  <2> QED BY <2>1, <2>2
<1>6. ASSUME NEW n \in Nat, n \in Good PROVE n + 1 \in Good
  <2> SUFFICES ASSUME n + 1 <= Len(changes), NEW d \in f[n + 1]
               PROVE  DraftOf(target_graph(p, t), d)
    OBVIOUS
  <2>1. f[n + 1] = After(f[n], n + 1)
    <3> HIDE DEF After, start
    <3> QED BY <1>4
  <2>2. PICK e \in f[n] : d = ApplyChange(t, e, changes[n + 1])
    BY <2>1
  <2>3. DraftOf(target_graph(p, t), e) /\ changes[n + 1] \in Change
    BY <1>6
  <2> QED BY <2>2, <2>3, ChangeType, ProjectFields
<1>7. Len(changes) \in Good
  <2>1. Nat \subseteq Good
    <3> HIDE DEF Good
    <3> QED BY <1>5, <1>6, NatSetInduction
  <2> QED BY <2>1
<1> QED BY <1>4, <1>7

----------------------------------------------------------------------------
(* View patches.                                                           *)

\* PatchedViews is what its recursive equation says.
LEMMA PatchedViewsStep ==
    ASSUME NEW g, NEW view, NEW ops \in Seq(ViewOp)
    PROVE  /\ PatchedViews(g, view, ops)[0] = {view}
           /\ \A i \in 1..Len(ops) :
                PatchedViews(g, view, ops)[i] =
                  {[v EXCEPT ![ops[i].node] = ops[i].to] :
                     v \in {w \in PatchedViews(g, view, ops)[i - 1] : ViewOpAllowed(g, w, ops[i])}}
<1> DEFINE After(X, i) == {[v EXCEPT ![ops[i].node] = ops[i].to] :
                             v \in {w \in X : ViewOpAllowed(g, w, ops[i])}}
           Rounds(f, n) == f = [i \in 0..n |-> IF i = 0 THEN {view} ELSE After(f[i - 1], i)]
           Defined == {n \in Nat : \E f : Rounds(f, n)}
<1>1. 0 \in Defined
  <2>1. Rounds([i \in 0..0 |-> {view}], 0)
    OBVIOUS
  <2> QED BY <2>1
<1>2. ASSUME NEW n \in Nat, n \in Defined PROVE n + 1 \in Defined
  <2>1. PICK f : Rounds(f, n)
    BY <1>2
  <2> DEFINE h == [i \in 0..(n + 1) |-> IF i \in 0..n THEN f[i] ELSE After(f[n], n + 1)]
  <2>2. \A i \in 0..n : h[i] = f[i] /\ f[i] = IF i = 0 THEN {view} ELSE After(f[i - 1], i)
    <3>1. ASSUME NEW i \in 0..n PROVE f[i] = IF i = 0 THEN {view} ELSE After(f[i - 1], i)
      <4> HIDE DEF After
      <4> QED BY <2>1
    <3>2. ASSUME NEW i \in 0..n PROVE h[i] = f[i]
      <4> i \in 0..(n + 1)
        OBVIOUS
      <4> HIDE DEF After
      <4> QED OBVIOUS
    <3> HIDE DEF After, h
    <3> QED BY <3>1, <3>2
  <2>3. h[n + 1] = After(f[n], n + 1) /\ h[n] = f[n]
    <3> HIDE DEF After
    <3> QED OBVIOUS
  <2>4. ASSUME NEW i \in 0..(n + 1) PROVE h[i] = IF i = 0 THEN {view} ELSE After(h[i - 1], i)
    <3> HIDE DEF After, h
    <3>1. CASE i = n + 1
      <4>1. i # 0 /\ i - 1 = n
        BY <3>1
      <4> QED BY <3>1, <4>1, <2>3
    <3>2. CASE i # n + 1 /\ i # 0
      <4>1. i \in 0..n /\ i - 1 \in 0..n
        BY <3>2
      <4>2. h[i - 1] = f[i - 1] /\ h[i] = f[i]
        BY <4>1, <2>2
      <4>3. f[i] = After(f[i - 1], i)
        BY <4>1, <2>2, <3>2
      <4> QED BY <4>2, <4>3, <3>2
    <3>3. CASE i = 0
      <4>1. i \in 0..n
        BY <3>3
      <4> QED BY <4>1, <3>3, <2>2
    <3> QED BY <3>1, <3>2, <3>3
  <2>5. Rounds(h, n + 1)
    <3>1. \A i \in 0..(n + 1) : h[i] = IF i = 0 THEN {view} ELSE After(h[i - 1], i)
      BY <2>4
    <3> HIDE DEF After
    <3> QED BY <3>1
  <2> HIDE DEF h, Rounds
  <2> QED BY <2>5
<1>3. Len(ops) \in Defined
  <2> HIDE DEF Defined
  <2>1. Nat \subseteq Defined
    BY <1>1, <1>2, NatSetInduction
  <2>2. Len(ops) \in Nat
    OBVIOUS
  <2> QED BY <2>1, <2>2
<1> DEFINE F == CHOOSE f : Rounds(f, Len(ops))
<1>4. Rounds(F, Len(ops))
  BY <1>3
<1>5. PatchedViews(g, view, ops) = F
  BY DEF PatchedViews
<1>6. \A i \in 0..Len(ops) : F[i] = IF i = 0 THEN {view} ELSE After(F[i - 1], i)
  <2> HIDE DEF After, F
  <2> QED BY <1>4
<1>7. 0 \in 0..Len(ops) /\ \A i \in 1..Len(ops) : i \in 0..Len(ops) /\ i # 0
  OBVIOUS
<1> HIDE DEF F
<1> QED BY <1>5, <1>6, <1>7

\* Every view on the way has the positions' type and the nodes it began with;
\* a patch that goes through got through each of its operations.
LEMMA PatchedViewsType ==
    ASSUME NEW g, NEW view \in View, NEW ops \in Seq(ViewOp)
    PROVE  /\ \A i \in 0..Len(ops) : \A v \in PatchedViews(g, view, ops)[i] :
                v \in View /\ DOMAIN v = DOMAIN view
           /\ \A v \in apply_view_patch(g, view, ops) : v \in View /\ DOMAIN v = DOMAIN view
           /\ apply_view_patch(g, view, ops) # {}
              => \A i \in 0..Len(ops) :
                   /\ PatchedViews(g, view, ops)[i] # {}
                   /\ i > 0 => ops[i].node \in DOMAIN view
<1> DEFINE P == PatchedViews(g, view, ops)
           Good == {i \in Nat : i <= Len(ops) => \A v \in P[i] : v \in View /\ DOMAIN v = DOMAIN view}
           Back == {k \in Nat : k <= Len(ops) => P[Len(ops) - k] # {}}
<1>1. /\ P[0] = {view}
      /\ \A i \in 1..Len(ops) :
           P[i] = {[v EXCEPT ![ops[i].node] = ops[i].to] : v \in {w \in P[i - 1] : ViewOpAllowed(g, w, ops[i])}}
  BY PatchedViewsStep
<1>2. Len(ops) \in Nat /\ \A i \in 1..Len(ops) : ops[i] \in ViewOp
  OBVIOUS
<1> HIDE DEF P
<1>3. Nat \subseteq Good
  <2>1. 0 \in Good
    BY <1>1
  <2>2. ASSUME NEW n \in Nat, n \in Good PROVE n + 1 \in Good
    <3> SUFFICES ASSUME n + 1 <= Len(ops), NEW v \in P[n + 1] PROVE v \in View /\ DOMAIN v = DOMAIN view
      OBVIOUS
    <3>1. n + 1 \in 1..Len(ops) /\ (n + 1) - 1 = n
      BY <1>2
    <3>2. PICK w \in P[n] : v = [w EXCEPT ![ops[n + 1].node] = ops[n + 1].to]
      BY <1>1, <3>1
    <3>3. w \in View /\ DOMAIN w = DOMAIN view
      BY <2>2, <3>1, <1>2
    <3>4. ops[n + 1].to \in Positions
      BY <1>2, <3>1 DEF ViewOp
    <3> QED BY <3>2, <3>3, <3>4, PartialFunctionFacts DEF View
  <2> HIDE DEF Good
  <2> QED BY <2>1, <2>2, NatSetInduction
<1>4. ASSUME P[Len(ops)] # {} PROVE Nat \subseteq Back
  <2>1. 0 \in Back
    BY <1>4, <1>2
  <2>2. ASSUME NEW n \in Nat, n \in Back PROVE n + 1 \in Back
    <3> SUFFICES ASSUME n + 1 <= Len(ops) PROVE P[Len(ops) - (n + 1)] # {}
      OBVIOUS
    <3>1. Len(ops) - n \in 1..Len(ops) /\ (Len(ops) - n) - 1 = Len(ops) - (n + 1) /\ n <= Len(ops)
      BY <1>2
    <3>2. P[Len(ops) - n] # {}
      BY <2>2, <3>1
    <3> QED BY <3>1, <3>2, <1>1
  <2> HIDE DEF Back
  <2> QED BY <2>1, <2>2, NatSetInduction
<1>5. ASSUME P[Len(ops)] # {}, NEW i \in 0..Len(ops) PROVE P[i] # {} /\ (i > 0 => ops[i].node \in DOMAIN view)
  <2>1. Len(ops) - i \in Nat /\ Len(ops) - i <= Len(ops) /\ Len(ops) - (Len(ops) - i) = i
    BY <1>2
  <2>2. P[i] # {}
    BY <1>4, <1>5, <2>1
  <2>3. ASSUME i > 0 PROVE ops[i].node \in DOMAIN view
    <3>1. i \in 1..Len(ops) /\ i - 1 \in Nat /\ i - 1 <= Len(ops)
      BY <2>3, <1>2
    <3>2. PICK w \in P[i - 1] : ViewOpAllowed(g, w, ops[i])
      BY <1>1, <2>2, <3>1
    <3>3. DOMAIN w = DOMAIN view
      BY <1>3, <3>1
    <3> QED BY <3>2, <3>3 DEF ViewOpAllowed
  <2> QED BY <2>2, <2>3
<1>6. apply_view_patch(g, view, ops) = P[Len(ops)]
  BY DEF apply_view_patch, P
<1>7. \A i \in 0..Len(ops) : i \in Nat /\ i <= Len(ops)
  BY <1>2
<1>8. \A i \in 0..Len(ops) : \A v \in P[i] : v \in View /\ DOMAIN v = DOMAIN view
  BY <1>3, <1>7
<1>9. Len(ops) \in 0..Len(ops)
  BY <1>2
<1> QED BY <1>5, <1>6, <1>8, <1>9 DEF P

\* A view patch keeps the type of the view and the nodes that have a position.
LEMMA ViewPatchKeeps ==
    ASSUME NEW g, NEW old \in View, NEW ops \in Seq(ViewOp), NEW new \in apply_view_patch(g, old, ops)
    PROVE  new \in View /\ DOMAIN new = DOMAIN old
BY PatchedViewsType

\* The inverse of a patch that goes through is a patch.
LEMMA InverseType ==
    ASSUME NEW g, NEW view \in View, NEW ops \in Seq(ViewOp), apply_view_patch(g, view, ops) # {}
    PROVE  inverse_ops(g, view, ops) \in Seq(ViewOp)
<1> DEFINE P == PatchedViews(g, view, ops)
           inv(j) == LET i == Len(ops) + 1 - j
                         previous == (CHOOSE v \in P[i - 1] : TRUE)[ops[i].node]
                     IN  [op   |-> ops[i].op, node |-> ops[i].node, to |-> previous,
                          from |-> IF ops[i].op = "move" THEN ops[i].to ELSE AnyView]
<1>1. ASSUME NEW j \in 1..Len(ops) PROVE inv(j) \in ViewOp
  <2> DEFINE i == Len(ops) + 1 - j
  <2>1. Len(ops) \in Nat /\ i \in 1..Len(ops) /\ i \in 0..Len(ops) /\ i - 1 \in 0..Len(ops) /\ i > 0
    OBVIOUS
  <2>2. ops[i] \in ViewOp
    BY <2>1
  <2> DEFINE v == CHOOSE w \in P[i - 1] : TRUE
  <2> HIDE DEF i, P
  <2>3. P[i - 1] # {} /\ ops[i].node \in DOMAIN view
    BY <2>1, PatchedViewsType DEF P
  <2>4. v \in P[i - 1]
    BY <2>3
  <2>5. v \in View /\ DOMAIN v = DOMAIN view
    BY <2>1, <2>4, PatchedViewsType DEF P
  <2> HIDE DEF v
  <2>6. v[ops[i].node] \in Positions
    BY <2>3, <2>5, PartialFunctionFacts DEF View
  <2>7. inv(j) = [op |-> ops[i].op, node |-> ops[i].node, to |-> v[ops[i].node],
                  from |-> IF ops[i].op = "move" THEN ops[i].to ELSE AnyView]
    BY DEF v, i
  <2> QED BY <2>2, <2>6, <2>7 DEF ViewOp
<1>2. inverse_ops(g, view, ops) = [j \in 1..Len(ops) |-> inv(j)]
  BY DEF inverse_ops, P
<1> HIDE DEF inv
<1>3. Len(ops) \in Nat
  OBVIOUS
<1> QED BY <1>1, <1>2, <1>3

----------------------------------------------------------------------------
(* What each operation makes of the document.                              *)

\* Documents with a position for exactly the root graph's nodes.
Covered == {p \in Project : DOMAIN p.view = DOMAIN p.graph.nodes}

\* An edit of the root graph moves its revision; nothing else changes it.
RootMoves(p, q) == q.graph.rev = p.graph.rev + 1 \/ q.graph = p.graph

DocumentUpdate(actor) ==
    \E next \in Covered, nextDefs \in SUBSET Contents, nextViewRevision \in Nat :
      /\ RootMoves(project, next)
      /\ apply_project_document_update(actor, next, nextDefs, nextViewRevision)

LEMMA ApplyToProjectType ==
    ASSUME NEW p \in Covered, NEW t \in Targets, NEW g \in Graph, NEW view \in View
    PROVE  /\ apply_graph_to_project(p, t, g, view) \in Covered
           /\ t = Root => apply_graph_to_project(p, t, g, view).graph = g
           /\ t # Root => apply_graph_to_project(p, t, g, view).graph = p.graph
<1>1. p \in Project /\ DOMAIN p.view = DOMAIN p.graph.nodes
  BY DEF Covered
<1>2. p.graph \in Graph /\ p.view \in View /\ p.patches \in [PatchIds -> Graph]
  BY <1>1, ProjectFields
<1>3. CASE t = Root
  <2> DEFINE v == reconcile_view_state(g, view)
             q == [p EXCEPT !.graph = g, !.view = v]
  <2>1. v \in View /\ DOMAIN v = DOMAIN g.nodes
    BY ReconcileType
  <2>2. apply_graph_to_project(p, t, g, view) = q
    BY <1>3 DEF apply_graph_to_project
  <2> HIDE DEF v
  <2>3. q \in Project /\ q.graph = g /\ q.view = v
    BY <1>1, <1>2, <2>1 DEF Project
  <2> QED BY <1>3, <2>1, <2>2, <2>3 DEF Covered
<1>4. CASE t # Root
  <2> DEFINE q == [p EXCEPT !.patches[t] = g]
  <2>1. t \in PatchIds
    BY <1>4 DEF Targets
  <2>2. apply_graph_to_project(p, t, g, view) = q
    BY <1>4 DEF apply_graph_to_project
  <2>3. q \in Project /\ q.graph = p.graph /\ q.view = p.view
    BY <1>1, <1>2, <2>1 DEF Project
  <2> QED BY <1>1, <1>4, <2>2, <2>3 DEF Covered
<1> QED BY <1>3, <1>4

\* An edited target graph stored with the next revision is a document update.
LEMMA EditGraphUpdates ==
    ASSUME project \in Covered, viewRevision \in Nat, NEW actor, NEW t \in Targets,
           NEW g \in Graph, g.rev = target_graph(project, t).rev, NEW view \in View,
           NEW viewChanged, NEW nextDefs \in SUBSET Contents,
           EditGraph(actor, t, g, view, viewChanged, nextDefs)
    PROVE  DocumentUpdate(actor)
<1> DEFINE next == apply_graph_to_project(project, t, Bump(g), view)
<1>1. Bump(g) \in Graph /\ Bump(g).rev = g.rev + 1
  BY GraphEditTypes
<1>2. /\ next \in Covered
      /\ t = Root => next.graph = Bump(g)
      /\ t # Root => next.graph = project.graph
  BY <1>1, ApplyToProjectType
<1>3. RootMoves(project, next)
  BY <1>1, <1>2 DEF RootMoves, target_graph
<1>4. PICK nvr \in Nat : apply_project_document_update(actor, next, nextDefs, nvr)
  <2> HIDE DEF next
  <2>1. EditGraph(actor, t, g, view, viewChanged, nextDefs)
          = apply_project_document_update(actor, next, nextDefs,
              IF viewChanged /\ t = Root THEN viewRevision + 1 ELSE viewRevision)
    BY DEF EditGraph, next
  <2> QED BY <2>1
<1> QED BY <1>2, <1>3, <1>4 DEF DocumentUpdate

LEMMA ChangeSetUpdates ==
    ASSUME project \in Covered, viewRevision \in Nat, defs \in SUBSET Contents,
           NEW actor, NEW t, NEW base, NEW changes \in ChangeSets,
           apply_change_set(actor, t, base, changes)
    PROVE  DocumentUpdate(actor)
<1>1. t \in Targets
  BY DEF apply_change_set, TargetAt
<1>2. PICK d \in apply_changes(project, t, changes) :
         apply_project_document_update(actor,
             apply_graph_to_project(project, t, IF d.graphChanged THEN Bump(d.g) ELSE d.g, d.view),
             defs,
             IF d.viewChanged /\ t = Root THEN viewRevision + 1 ELSE viewRevision)
  BY DEF apply_change_set
<1>3. DraftOf(target_graph(project, t), d)
  BY <1>1, ChangesType, ChangeSetsAssumption DEF Covered
<1>4. /\ d.g \in Graph /\ d.view \in View /\ d.g.rev = target_graph(project, t).rev
      /\ ~ d.graphChanged => d.g = target_graph(project, t)
  BY <1>3 DEF DraftOf, Draft
<1> DEFINE g == IF d.graphChanged THEN Bump(d.g) ELSE d.g
           next == apply_graph_to_project(project, t, g, d.view)
           nvr == IF d.viewChanged /\ t = Root THEN viewRevision + 1 ELSE viewRevision
<1>5. /\ g \in Graph
      /\ g.rev = target_graph(project, t).rev + 1 \/ g = target_graph(project, t)
  BY <1>4, GraphEditTypes
<1> HIDE DEF g
<1>6. /\ next \in Covered
      /\ t = Root => next.graph = g
      /\ t # Root => next.graph = project.graph
  BY <1>1, <1>4, <1>5, ApplyToProjectType
<1>7. RootMoves(project, next)
  BY <1>5, <1>6 DEF RootMoves, target_graph
<1>8. nvr \in Nat
  OBVIOUS
<1>9. apply_project_document_update(actor, next, defs, nvr)
  BY <1>2 DEF g
<1> HIDE DEF next, nvr
<1> QED BY <1>6, <1>7, <1>8, <1>9 DEF DocumentUpdate

\* Creating, replacing, updating and deleting a node.
LEMMA ObjectEditUpdates ==
    ASSUME project \in Covered, viewRevision \in Nat, defs \in SUBSET Contents,
           NEW actor, NEW t, NEW base, ObjectEdit(actor, t, base)
    PROVE  DocumentUpdate(actor)
<1> USE DEF TargetAt
<1>1. PICK n \in NodeIds :
      \/ \E c \in Contents, view \in Positions \cup {NoView} :
           \/ apply_object_node_create(actor, t, base, n, c, view)
           \/ \E policy \in {"drop", "reject", "preserve"} :
                apply_object_node_replace(actor, t, base, n, c, view, policy)
      \/ \E c \in Contents : apply_node_update(actor, t, base, n, c)
      \/ apply_node_delete(actor, t, base, n)
  BY DEF ObjectEdit
<1> DEFINE tg == target_graph(project, t)
<1>2. t \in Targets
  BY <1>1 DEF apply_object_node_create, apply_object_node_replace, apply_node_update, apply_node_delete
<1>3. tg \in Graph /\ project.view \in View
  BY <1>2, ProjectFields DEF Covered
<1> HIDE DEF tg
<1>4. \A view \in Positions \cup {NoView} :
        (IF view = NoView THEN project.view ELSE Put(project.view, n, view)) \in View
  BY <1>3, PutType DEF View
<1>5. \A c \in Contents : defs \cup {c} \in SUBSET Contents
  OBVIOUS
<1>6. ASSUME NEW c \in Contents, NEW view \in Positions \cup {NoView},
             apply_object_node_create(actor, t, base, n, c, view)
      PROVE  DocumentUpdate(actor)
  <2>1. EditGraph(actor, t, PutNode(tg, n, c),
                  IF view = NoView THEN project.view ELSE Put(project.view, n, view),
                  view # NoView, defs \cup {c})
    BY <1>6 DEF apply_object_node_create, tg
  <2>2. PutNode(tg, n, c) \in Graph /\ PutNode(tg, n, c).rev = tg.rev
    BY <1>3, GraphEditTypes
  <2> QED BY <1>2, <1>4, <1>5, <2>1, <2>2, EditGraphUpdates DEF tg
<1>7. ASSUME NEW c \in Contents, NEW view \in Positions \cup {NoView}, NEW policy,
             apply_object_node_replace(actor, t, base, n, c, view, policy)
      PROVE  DocumentUpdate(actor)
  <2> DEFINE placed == PutNode(tg, n, c)
             g == DropEdges(placed, InvalidIncidentEdges(placed, n))
             moved == view # NoView /\ ViewOf(project.view, n) # view
  <2>1. EditGraph(actor, t, g,
               IF view = NoView THEN project.view ELSE Put(project.view, n, view),
               moved, defs \cup {c})
    BY <1>7 DEF apply_object_node_replace, InstallReplacement, tg
  <2>2. placed \in Graph /\ placed.rev = tg.rev
    BY <1>3, GraphEditTypes
  <2> HIDE DEF placed, moved
  <2>3. g \in Graph /\ g.rev = tg.rev
    BY <2>2, GraphEditTypes
  <2> HIDE DEF g
  <2> QED BY <1>2, <1>4, <1>5, <2>1, <2>3, EditGraphUpdates DEF tg
<1>8. ASSUME NEW c \in Contents, apply_node_update(actor, t, base, n, c)
      PROVE  DocumentUpdate(actor)
  <2>1. EditGraph(actor, t, PutNode(tg, n, c), project.view, FALSE, defs)
    BY <1>8 DEF apply_node_update, tg
  <2>2. PutNode(tg, n, c) \in Graph /\ PutNode(tg, n, c).rev = tg.rev
    BY <1>3, GraphEditTypes
  <2> QED BY <1>2, <1>3, <2>1, <2>2, EditGraphUpdates DEF tg
<1>9. ASSUME apply_node_delete(actor, t, base, n) PROVE DocumentUpdate(actor)
  <2> DEFINE v == IF t = Root THEN Without(project.view, {n}) ELSE project.view
  <2>1. EditGraph(actor, t, DropNode(tg, n), v, t = Root /\ n \in DOMAIN project.view, defs)
    BY <1>9 DEF apply_node_delete, tg
  <2>2. DropNode(tg, n) \in Graph /\ DropNode(tg, n).rev = tg.rev
    BY <1>3, GraphEditTypes
  <2>3. v \in View
    BY <1>3, WithoutType DEF View
  <2> HIDE DEF v
  <2> QED BY <1>2, <2>1, <2>2, <2>3, EditGraphUpdates DEF tg
<1> QED BY <1>1, <1>6, <1>7, <1>8, <1>9

\* A fragment under new ids overlays the graph; edges follow their nodes.
LEMMA PasteType ==
    ASSUME NEW g \in Graph, NEW frag \in Fragments,
           NEW nm \in [DOMAIN frag.nodes -> NodeIds], NEW em \in [DOMAIN frag.edges -> EdgeIds]
    PROVE  /\ PasteEdges(PasteNodes(g, frag, nm), frag, nm, em) \in Graph
           /\ PasteEdges(PasteNodes(g, frag, nm), frag, nm, em).rev = g.rev
           /\ lower_fragment_view_patch(frag, nm) \in View
<1>1. /\ frag.nodes \in [DOMAIN frag.nodes -> Contents]
      /\ frag.edges \in [DOMAIN frag.edges -> EdgeSpec]
      /\ frag.view \in [DOMAIN frag.view -> Positions]
      /\ DOMAIN frag.view \subseteq DOMAIN frag.nodes
      /\ \A i \in DOMAIN frag.edges :
           frag.edges[i].src \in DOMAIN frag.nodes /\ frag.edges[i].dst \in DOMAIN frag.nodes
  BY FragmentsAssumption, PartialFunctionFacts DEF View
<1> DEFINE ns == [n \in Range(nm) |-> frag.nodes[CHOOSE k \in DOMAIN nm : nm[k] = n]]
           es == [i \in Range(em) |-> RemapEdge(frag.edges[CHOOSE k \in DOMAIN em : em[k] = i], nm)]
           P == PasteNodes(g, frag, nm)
           Q == PasteEdges(P, frag, nm, em)
<1>2. ns \in PartialFunctions(NodeIds, Contents)
  <2>1. Range(nm) \subseteq NodeIds
    BY DEF Range
  <2>2. ASSUME NEW n \in Range(nm) PROVE frag.nodes[CHOOSE k \in DOMAIN nm : nm[k] = n] \in Contents
    <3>1. \E k \in DOMAIN nm : nm[k] = n
      BY DEF Range
    <3>2. (CHOOSE k \in DOMAIN nm : nm[k] = n) \in DOMAIN nm
      BY <3>1
    <3> QED BY <1>1, <3>2
  <2> QED BY ZenonT(40), <2>1, <2>2, PartialFunctionFacts
<1>3. es \in PartialFunctions(EdgeIds, EdgeSpec)
  <2>1. Range(em) \subseteq EdgeIds
    BY DEF Range
  <2>2. ASSUME NEW k \in DOMAIN em PROVE RemapEdge(frag.edges[k], nm) \in EdgeSpec
    <3>1. frag.edges[k] \in EdgeSpec /\ nm[frag.edges[k].src] \in NodeIds /\ nm[frag.edges[k].dst] \in NodeIds
      BY <1>1
    <3> QED BY <3>1 DEF RemapEdge, EdgeSpec
  <2>3. ASSUME NEW i \in Range(em)
        PROVE  RemapEdge(frag.edges[CHOOSE k \in DOMAIN em : em[k] = i], nm) \in EdgeSpec
    <3>1. \E k \in DOMAIN em : em[k] = i
      BY DEF Range
    <3>2. (CHOOSE k \in DOMAIN em : em[k] = i) \in DOMAIN em
      BY <3>1
    <3> QED BY <2>2, <3>2
  <2> QED BY <2>1, <2>3, PartialFunctionFacts
<1> HIDE DEF ns, es
<1>4. P \in Graph /\ P.rev = g.rev
  <2>1. Over(g.nodes, ns) \in PartialFunctions(NodeIds, Contents)
    BY <1>2, OverType, GraphFields
  <2>2. P = [g EXCEPT !.nodes = Over(@, ns)]
    BY DEF PasteNodes, ns
  <2> QED BY <2>1, <2>2 DEF Graph
<1> HIDE DEF P
<1>5. Q \in Graph /\ Q.rev = P.rev
  <2>1. Over(P.edges, es) \in PartialFunctions(EdgeIds, EdgeSpec)
    BY <1>3, <1>4, OverType, GraphFields
  <2>2. Q = [P EXCEPT !.edges = Over(@, es)]
    BY DEF PasteEdges, es
  <2> QED BY <1>4, <2>1, <2>2 DEF Graph
<1>6. lower_fragment_view_patch(frag, nm) \in View
  <2> DEFINE D == {nm[k] : k \in DOMAIN frag.view}
             at(n) == frag.view[CHOOSE k \in DOMAIN frag.view : nm[k] = n]
             v == [n \in D |-> at(n)]
  <2>1. D \subseteq NodeIds
    BY <1>1
  <2>2. ASSUME NEW n \in D PROVE at(n) \in Positions
    <3>1. (CHOOSE k \in DOMAIN frag.view : nm[k] = n) \in DOMAIN frag.view
      OBVIOUS
    <3> QED BY <1>1, <3>1
  <2>3. lower_fragment_view_patch(frag, nm) = v
    BY DEF lower_fragment_view_patch
  <2> HIDE DEF at, D
  <2>4. v \in [D -> Positions]
    BY <2>2
  <2> QED BY <2>1, <2>3, <2>4, PartialFunctionFacts DEF View
<1> QED BY <1>4, <1>5, <1>6 DEF P

LEMMA PasteUpdates ==
    ASSUME project \in Covered, viewRevision \in Nat, defs \in SUBSET Contents,
           NEW actor, NEW t, NEW base, NEW frag \in Fragments,
           paste_graph_fragment(actor, t, base, frag)
    PROVE  DocumentUpdate(actor)
<1> DEFINE tg == target_graph(project, t)
<1>1. t \in Targets
  BY DEF paste_graph_fragment, TargetAt
<1>2. PICK nm \in Remappings(DOMAIN frag.nodes, DOMAIN tg.nodes, NodeIds),
           em \in Remappings(DOMAIN frag.edges, DOMAIN tg.edges, EdgeIds) :
        paste_graph_fragment_into_project(actor, t, frag, nm, em)
  BY DEF paste_graph_fragment
<1>3. nm \in [DOMAIN frag.nodes -> NodeIds] /\ em \in [DOMAIN frag.edges -> EdgeIds]
  BY DEF Remappings
<1>4. tg \in Graph /\ project.view \in View
  BY <1>1, ProjectFields DEF Covered
<1> HIDE DEF tg
<1> DEFINE pasted == PasteEdges(PasteNodes(tg, frag, nm), frag, nm, em)
           views == lower_fragment_view_patch(frag, nm)
<1>5. pasted \in Graph /\ pasted.rev = tg.rev /\ views \in View
  BY <1>3, <1>4, PasteType
<1>6. Over(views, project.view) \in View
  BY <1>4, <1>5, OverType DEF View
<1>7. EditGraph(actor, t, pasted, Over(views, project.view), DOMAIN views # {}, defs)
  BY <1>2 DEF paste_graph_fragment_into_project, tg
<1> HIDE DEF pasted, views
<1> QED BY <1>1, <1>5, <1>6, <1>7, EditGraphUpdates DEF tg

\* Every edit a client can submit is such an update.
LEMMA EditUpdates ==
    ASSUME project \in Covered, viewRevision \in Nat, defs \in SUBSET Contents,
           NEW actor, NEW t, NEW base, Edit(actor, t, base)
    PROVE  Loaded /\ DocumentUpdate(actor)
<1>1. DocumentUpdate(actor)
  BY ObjectEditUpdates, ChangeSetUpdates, PasteUpdates DEF Edit
<1>2. Loaded
  BY ProjectFields DEF Loaded, Covered
<1> QED BY <1>1, <1>2

----------------------------------------------------------------------------
(* Undo and redo deltas.                                                   *)

LEMMA UndoMapType ==
    ASSUME NEW D, NEW R, NEW f \in PartialFunctions(D, R),
           NEW before \in PartialFunctions(D, R), NEW after \in PartialFunctions(D, R)
    PROVE  /\ Revert(Without(f, Added(before, after)), after, before) \in PartialFunctions(D, R)
           /\ DOMAIN Revert(Without(f, Added(before, after)), after, before) = DOMAIN f \ Added(before, after)
           /\ \A k : NotTheEdits(f, after, before, k)
                    => SameAt(f, Revert(Without(f, Added(before, after)), after, before), k)
<1> DEFINE added == Added(before, after)
           w == Without(f, added)
<1>1. w \in PartialFunctions(D, R) /\ DOMAIN w = DOMAIN f \ added /\ \A k \in DOMAIN f \ added : w[k] = f[k]
  <2> HIDE DEF added
  <2>1. w \in PartialFunctions(D, R)
    BY WithoutType
  <2> QED BY <2>1 DEF Without, Restrict
<1>2. ASSUME NEW k, NotTheEdits(f, after, before, k)
      PROVE  /\ k \notin added
             /\ (k \in DOMAIN f \cap DOMAIN before \cap DOMAIN after /\ f[k] = after[k]) => before[k] = after[k]
  BY <1>2 DEF NotTheEdits, SameAt, Added
<1> HIDE DEF w, added
<1>3. /\ Revert(w, after, before) \in PartialFunctions(D, R)
      /\ DOMAIN Revert(w, after, before) = DOMAIN w
      /\ \A k \in DOMAIN w : Revert(w, after, before)[k] =
           IF k \in DOMAIN after \cap DOMAIN before /\ w[k] = after[k] THEN before[k] ELSE w[k]
  BY <1>1, RevertType
<1>4. ASSUME NEW k, NotTheEdits(f, after, before, k) PROVE SameAt(f, Revert(w, after, before), k)
  <2>1. k \in DOMAIN w <=> k \in DOMAIN f
    BY <1>1, <1>2, <1>4
  <2>2. ASSUME k \in DOMAIN f PROVE f[k] = Revert(w, after, before)[k]
    BY <1>1, <1>2, <1>3, <1>4, <2>1, <2>2
  <2> QED BY <1>3, <2>1, <2>2 DEF SameAt
<1>5. DOMAIN Revert(w, after, before) = DOMAIN f \ added
  BY <1>1, <1>3
<1> QED BY <1>3, <1>4, <1>5 DEF w, added

LEMMA RedoMapType ==
    ASSUME NEW D, NEW R, NEW f \in PartialFunctions(D, R), NEW S,
           NEW after \in PartialFunctions(D, R), S \subseteq DOMAIN after
    PROVE  /\ Over(f, Restrict(after, S)) \in PartialFunctions(D, R)
           /\ DOMAIN Over(f, Restrict(after, S)) = DOMAIN f \cup S
           /\ \A k : k \notin S => SameAt(f, Over(f, Restrict(after, S)), k)
<1> DEFINE w == Restrict(after, S)
<1>1. w \in PartialFunctions(D, R) /\ DOMAIN w = S
  BY RestrictType
<1> HIDE DEF w
<1>2. /\ Over(f, w) \in PartialFunctions(D, R)
      /\ DOMAIN Over(f, w) = DOMAIN f \cup DOMAIN w
      /\ \A k \in DOMAIN Over(f, w) : Over(f, w)[k] = IF k \in DOMAIN f THEN f[k] ELSE w[k]
  <2>1. Over(f, w) \in PartialFunctions(D, R)
    BY <1>1, OverType
  <2> QED BY <2>1 DEF Over
<1>3. DOMAIN Over(f, w) = DOMAIN f \cup S
  BY <1>1, <1>2
<1>4. \A k : k \notin S => SameAt(f, Over(f, w), k)
  BY <1>2, <1>3 DEF SameAt
<1> QED BY <1>2, <1>3, <1>4 DEF w

LEMMA RevertMapType ==
    ASSUME NEW D, NEW R, NEW f \in PartialFunctions(D, R),
           NEW before \in PartialFunctions(D, R), NEW after \in PartialFunctions(D, R)
    PROVE  /\ Revert(f, before, after) \in PartialFunctions(D, R)
           /\ DOMAIN Revert(f, before, after) = DOMAIN f
           /\ \A k : NotTheEdits(f, before, after, k) => SameAt(f, Revert(f, before, after), k)
<1>1. /\ Revert(f, before, after) \in PartialFunctions(D, R)
      /\ DOMAIN Revert(f, before, after) = DOMAIN f
      /\ \A k \in DOMAIN f : Revert(f, before, after)[k] =
           IF k \in DOMAIN before \cap DOMAIN after /\ f[k] = before[k] THEN after[k] ELSE f[k]
  BY RevertType
<1> QED BY <1>1 DEF SameAt, NotTheEdits

LEMMA SameAtChain ==
    ASSUME NEW f, NEW g, NEW h, NEW k, SameAt(f, g, k), SameAt(g, h, k)
    PROVE  SameAt(f, h, k)
BY DEF SameAt

\* The keys after an undo or redo of an edit that added some.
DeltaDomain(keys, added, direction) ==
    IF direction = "undo" THEN keys \ added ELSE keys \cup added

\* The ends of an edit, in the direction it is taken.
From(before, after, direction) == IF direction = "undo" THEN after ELSE before
To(before, after, direction) == IF direction = "undo" THEN before ELSE after

\* Undo and redo of an edit of a graph yield a graph with the same revision,
\* and leave alone what the edit left alone and what was changed since.
LEMMA GraphDeltaType ==
    ASSUME NEW g \in Graph, NEW before \in Graph, NEW after \in Graph,
           NEW direction \in {"undo", "redo"}
    PROVE  /\ GraphDelta(g, before, after, direction) \in Graph
           /\ GraphDelta(g, before, after, direction).rev = g.rev
           /\ DOMAIN GraphDelta(g, before, after, direction).nodes =
                DeltaDomain(DOMAIN g.nodes, Added(before.nodes, after.nodes), direction)
           /\ UnchangedBy(g, GraphDelta(g, before, after, direction),
                          From(before, after, direction), To(before, after, direction))
<1> DEFINE N == PartialFunctions(NodeIds, Contents)
           E == PartialFunctions(EdgeIds, EdgeSpec)
           gn == g.nodes
           bn == before.nodes
           an == after.nodes
           ge == g.edges
           be == before.edges
           ae == after.edges
           addedNodes == Added(bn, an)
           addedEdges == Added(be, ae)
<1>1. gn \in N /\ bn \in N /\ an \in N /\ ge \in E /\ be \in E /\ ae \in E
  BY GraphFields
<1>2. \A k : SameAt(be, ae, k) => k \notin addedEdges
  BY DEF SameAt, Added
<1>3. \A k : NotTheEdits(gn, bn, an, k) => k \notin addedNodes
  <2> HIDE DEF gn, bn, an
  <2> QED BY DEF NotTheEdits, SameAt, Added
<1>4. addedEdges \subseteq DOMAIN ae /\ addedNodes \subseteq DOMAIN an
  BY DEF Added
<1>5. CASE direction = "undo"
  <2> DEFINE nodes == Revert(Without(gn, addedNodes), an, bn)
             keptEdges == {i \in DOMAIN ge \ addedEdges : {ge[i].src, ge[i].dst} \cap addedNodes = {}}
             edges == Restrict(ge, keptEdges)
             h == [g EXCEPT !.nodes = nodes, !.edges = edges]
  <2>1. GraphDelta(g, before, after, direction) = h
    BY <1>5 DEF GraphDelta, undo_graph_history_delta
  <2>2. /\ nodes \in N /\ DOMAIN nodes = DOMAIN gn \ addedNodes
        /\ \A k : NotTheEdits(gn, an, bn, k) => SameAt(gn, nodes, k)
    <3> HIDE DEF gn, bn, an
    <3>1. nodes \in N /\ \A k : NotTheEdits(gn, an, bn, k) => SameAt(gn, nodes, k)
      BY <1>1, UndoMapType DEF N
    <3>2. DOMAIN nodes = DOMAIN gn \ addedNodes
      <4> HIDE DEF addedNodes
      <4> QED BY DEF Revert, Without, Restrict
    <3> QED BY <3>1, <3>2
  <2>3. edges \in E /\ DOMAIN edges = keptEdges /\ \A k \in keptEdges : edges[k] = ge[k]
    <3> keptEdges \subseteq DOMAIN ge
      OBVIOUS
    <3> HIDE DEF keptEdges, ge
    <3> QED BY <1>1, RestrictType DEF E
  <2> HIDE DEF nodes
  <2>4. ASSUME NEW k, SameAt(ae, be, k), ~ SameAt(ge, edges, k)
        PROVE  k \in DOMAIN ge /\ {ge[k].src, ge[k].dst} \ DOMAIN nodes # {}
    <3> HIDE DEF addedNodes, addedEdges, edges, ge, be, ae
    <3>1. k \in DOMAIN ge /\ k \notin keptEdges
      <4> HIDE DEF keptEdges
      <4> QED BY <2>3, <2>4 DEF SameAt, keptEdges
    <3>2. k \notin addedEdges
      BY <2>4 DEF SameAt, Added, addedEdges
    <3>3. {ge[k].src, ge[k].dst} \cap addedNodes # {}
      BY <3>1, <3>2
    <3> QED BY <3>1, <3>3, <2>2
  <2> HIDE DEF edges, keptEdges
  <2>5. h \in Graph /\ h.rev = g.rev /\ h.nodes = nodes /\ h.edges = edges
    BY <2>2, <2>3 DEF Graph, N, E
  <2> HIDE DEF h
  <2>6. UnchangedBy(g, h, after, before)
    BY <2>2, <2>4, <2>5 DEF UnchangedBy, KeptFrom
  <2> QED BY <1>5, <2>1, <2>2, <2>5, <2>6 DEF DeltaDomain, From, To
<1>6. CASE direction = "redo"
  <2> DEFINE reverted == Revert(gn, bn, an)
             nodes == Over(reverted, Restrict(an, addedNodes))
             newEdges == {i \in addedEdges : {ae[i].src, ae[i].dst} \subseteq DOMAIN nodes}
             edges == Over(ge, Restrict(ae, newEdges))
             h == [g EXCEPT !.nodes = nodes, !.edges = edges]
  <2>1. GraphDelta(g, before, after, direction) = h
    BY <1>6 DEF GraphDelta, redo_graph_history_delta
  <2>2. /\ reverted \in N /\ DOMAIN reverted = DOMAIN gn
        /\ \A k : NotTheEdits(gn, bn, an, k) => SameAt(gn, reverted, k)
    <3> HIDE DEF gn, bn, an
    <3> QED BY <1>1, RevertMapType DEF N
  <2> HIDE DEF reverted
  <2>3. /\ nodes \in N /\ DOMAIN nodes = DOMAIN reverted \cup addedNodes
        /\ \A k : k \notin addedNodes => SameAt(reverted, nodes, k)
    <3> HIDE DEF gn, bn, an, addedNodes
    <3> QED BY <1>1, <1>4, <2>2, RedoMapType DEF N
  <2>4. /\ edges \in E
        /\ \A k : k \notin newEdges => SameAt(ge, edges, k)
    <3> newEdges \subseteq DOMAIN ae
      BY <1>4
    <3> HIDE DEF ge, ae, newEdges
    <3> QED BY <1>1, RedoMapType DEF E
  <2>5. newEdges \subseteq addedEdges
    OBVIOUS
  <2>6. \A k : NotTheEdits(gn, bn, an, k) => SameAt(gn, nodes, k)
    <3> HIDE DEF gn, bn, an, addedNodes, nodes
    <3> QED BY <1>3, <2>2, <2>3, SameAtChain
  <2> HIDE DEF nodes, edges, newEdges
  <2>7. h \in Graph /\ h.rev = g.rev /\ h.nodes = nodes /\ h.edges = edges
    BY <2>3, <2>4 DEF Graph, N, E
  <2> HIDE DEF h
  <2>8. UnchangedBy(g, h, before, after)
    BY <1>2, <2>4, <2>5, <2>6, <2>7 DEF UnchangedBy, KeptFrom
  <2> QED BY <1>6, <2>1, <2>2, <2>3, <2>7, <2>8 DEF DeltaDomain, From, To
<1> QED BY <1>5, <1>6

\* Undo and redo of an edit leave alone the positions the edit left alone and
\* those changed since.
LEMMA ViewDeltaKeeps ==
    ASSUME NEW v \in View, NEW before \in View, NEW after \in View
    PROVE  /\ KeptFrom(v, undo_view_delta(v, before, after), after, before, NodeIds)
           /\ KeptFrom(v, redo_view_delta(v, before, after), before, after, NodeIds)
<1> DEFINE P == PartialFunctions(NodeIds, Positions)
           added == Added(before, after)
           w == Over(v, Restrict(after, added))
           u == Revert(Without(v, added), after, before)
           r == Revert(w, before, after)
<1>1. v \in P /\ before \in P /\ after \in P
  BY DEF View
<1> HIDE DEF P
<1>2. \A k : NotTheEdits(v, after, before, k) => SameAt(v, u, k)
  BY <1>1, UndoMapType DEF P
<1>3. /\ w \in P
      /\ \A k : k \notin added => SameAt(v, w, k)
  <2>1. added \subseteq DOMAIN after
    BY DEF Added
  <2> HIDE DEF added
  <2> QED BY <1>1, <2>1, RedoMapType DEF P
<1>4. \A k : NotTheEdits(w, before, after, k) => SameAt(w, r, k)
  <2> HIDE DEF w
  <2> QED BY <1>1, <1>3, RevertMapType DEF P
<1>5. ASSUME NEW k, NotTheEdits(v, before, after, k) PROVE SameAt(v, r, k)
  <2>1. k \notin added
    BY <1>5 DEF NotTheEdits, SameAt, Added
  <2>2. SameAt(v, w, k)
    BY <1>3, <2>1
  <2> HIDE DEF w, r, added
  <2>3. NotTheEdits(w, before, after, k)
    BY <1>5, <2>2 DEF NotTheEdits, SameAt
  <2> QED BY <1>4, <2>2, <2>3, SameAtChain
<1> HIDE DEF u, r
<1>6. KeptFrom(v, u, after, before, NodeIds) /\ KeptFrom(v, r, before, after, NodeIds)
  BY <1>2, <1>5 DEF KeptFrom
<1> QED BY <1>6 DEF undo_view_delta, redo_view_delta, u, r, w, added

\* Whatever edits came between, undo and redo of an edit lead to a document
\* that has a position for exactly its nodes.
LEMMA HistoryDeltaCovers ==
    ASSUME NEW p \in Covered, NEW before \in Covered, NEW after \in Covered,
           NEW direction \in {"undo", "redo"}
    PROVE  project_document_history_delta(p, before, after, direction) \in Covered
<1>1. /\ p \in Project /\ before \in Project /\ after \in Project
      /\ DOMAIN p.view = DOMAIN p.graph.nodes
      /\ DOMAIN before.view = DOMAIN before.graph.nodes
      /\ DOMAIN after.view = DOMAIN after.graph.nodes
  BY DEF Covered
<1>2. /\ p.graph \in Graph /\ p.view \in View /\ p.patches \in [PatchIds -> Graph]
      /\ before.graph \in Graph /\ before.view \in View /\ before.patches \in [PatchIds -> Graph]
      /\ after.graph \in Graph /\ after.view \in View /\ after.patches \in [PatchIds -> Graph]
  BY <1>1, ProjectFields
<1> DEFINE expected == IF direction = "undo" THEN after ELSE before
           exact == IF direction = "undo" THEN before ELSE after
           g == GraphDelta(p.graph, before.graph, after.graph, direction)
           v == IF direction = "undo" THEN undo_view_delta(p.view, before.view, after.view)
                                      ELSE redo_view_delta(p.view, before.view, after.view)
           patch(t) == PatchDelta(p.patches[t], before.patches[t], after.patches[t], direction)
           ps == [t \in PatchIds |-> patch(t)]
<1>3. /\ g \in Graph
      /\ DOMAIN g.nodes = DeltaDomain(DOMAIN p.graph.nodes, Added(before.graph.nodes, after.graph.nodes), direction)
  <2> DEFINE pg == p.graph
             bg == before.graph
             ag == after.graph
  <2>1. g = GraphDelta(pg, bg, ag, direction) /\ pg \in Graph /\ bg \in Graph /\ ag \in Graph
    BY <1>2
  <2>2. /\ g \in Graph
        /\ DOMAIN g.nodes = DeltaDomain(DOMAIN pg.nodes, Added(bg.nodes, ag.nodes), direction)
    <3> HIDE DEF g, pg, bg, ag
    <3> QED BY <2>1, GraphDeltaType
  <2> QED BY <2>2
<1>4. Added(before.view, after.view) = Added(before.graph.nodes, after.graph.nodes)
  BY <1>1 DEF Added
<1> DEFINE pv == p.view
           bv == before.view
           av == after.view
           added == Added(bv, av)
<1>5. v \in View /\ DOMAIN v = DeltaDomain(DOMAIN pv, added, direction)
  <2>1. pv \in View /\ bv \in View /\ av \in View
    BY <1>2
  <2>2. CASE direction = "undo"
    <3>1. v = Revert(Without(pv, added), av, bv)
      BY <2>2 DEF undo_view_delta
    <3> HIDE DEF v, pv, bv, av
    <3>2. v \in View
      BY <2>1, <3>1, UndoMapType DEF View
    <3>3. DOMAIN v = DOMAIN pv \ added
      <4> HIDE DEF added
      <4> QED BY <3>1 DEF Revert, Without, Restrict
    <3> QED BY <2>2, <3>2, <3>3 DEF DeltaDomain
  <2>3. CASE direction = "redo"
    <3> DEFINE w == Over(pv, Restrict(av, added))
    <3>1. v = Revert(w, bv, av)
      BY <2>3 DEF redo_view_delta
    <3>2. added \subseteq DOMAIN av
      BY DEF Added
    <3> HIDE DEF v, pv, bv, av, added
    <3>3. w \in View
      BY <2>1, <3>2, RedoMapType DEF View
    <3>4. DOMAIN w = DOMAIN pv \cup added
      BY DEF Over, Restrict
    <3> HIDE DEF w
    <3>5. v \in View
      BY <2>1, <3>1, <3>3, RevertMapType DEF View
    <3>6. DOMAIN v = DOMAIN w
      BY <3>1 DEF Revert
    <3> QED BY <2>3, <3>4, <3>5, <3>6 DEF DeltaDomain
  <2> QED BY <2>2, <2>3
<1>6. ASSUME NEW t \in PatchIds PROVE patch(t) \in Graph
  <2> DEFINE next == GraphDelta(p.patches[t], before.patches[t], after.patches[t], direction)
  <2>1. next \in Graph
    BY <1>2, GraphDeltaType
  <2>2. patch(t) = next \/ patch(t) = Bump(next)
    BY DEF PatchDelta
  <2> HIDE DEF next
  <2> QED BY <2>1, <2>2, GraphEditTypes
<1> HIDE DEF g, v, patch
<1>7. CASE p = expected
  <2>1. project_document_history_delta(p, before, after, direction) = exact
    BY <1>7 DEF project_document_history_delta
  <2> QED BY <2>1
<1>8. CASE p # expected
  <2>1. project_document_history_delta(p, before, after, direction) = [graph |-> g, view |-> v, patches |-> ps]
    BY <1>8 DEF project_document_history_delta, g, v, patch
  <2>2. ps \in [PatchIds -> Graph]
    BY <1>6
  <2>3. DOMAIN v = DOMAIN g.nodes
    BY <1>1, <1>3, <1>4, <1>5
  <2> HIDE DEF ps
  <2> QED BY <1>3, <1>5, <2>1, <2>2, <2>3 DEF Covered, Project
<1> QED BY <1>7, <1>8

----------------------------------------------------------------------------
(* The steps of a session, summed up.                                      *)

DocumentEntries ==
    [kind : {"document"}, id : Nat, actor : Actors, before : Covered, after : Covered,
     beforeView : Nat, afterView : Nat]
MutationEntries ==
    [kind : {"mutation"}, id : Nat, actor : Actors, ops : Seq(ViewOp), inverse : Seq(ViewOp)]
HistoryEntries == DocumentEntries \cup MutationEntries
LogEntries == [kind : {"apply", "undo", "redo"}, subject : Nat]

\* The type of the session's state.
SessionTypeOK ==
    /\ project \in Project \cup {NoProject}
    /\ defs \in SUBSET Contents
    /\ plan \in Nat \cup {NoPlan}
    /\ revision \in Nat /\ viewRevision \in Nat /\ controlRevision \in Nat
    /\ control \in Controls
    /\ entries \in Seq(LogEntries)
    /\ undoStack \in Seq(HistoryEntries) /\ redoStack \in Seq(HistoryEntries)

\* What the document, its plan and its history keep together.
DocumentInv == SessionTypeOK /\ ViewCoversNodes /\ SessionPlannable /\ PlanIsCurrent

\* A loaded or cleared session.
StartedOver ==
    /\ project' \in Covered \cup {NoProject}
    /\ project' = NoProject => plan' = NoPlan
    /\ project' # NoProject => Plannable(project', defs') /\ plan' = project'.graph.rev
    /\ defs' \in SUBSET Contents
    /\ revision' = revision + 1 /\ viewRevision' \in Nat /\ controlRevision' \in Nat
    /\ control' \in Controls
    /\ clear_history

\* A document with a plan takes the place of the loaded one.
Replaced ==
    /\ project \in Covered /\ project' \in Covered
    /\ RootMoves(project, project')
    /\ Plannable(project', defs') /\ plan' = project'.graph.rev
    /\ defs' \in SUBSET Contents
    /\ revision' = revision + 1 /\ viewRevision' \in Nat /\ controlRevision' \in Nat
    /\ control' \in Controls

\* A new edit is logged and can be undone; what was undone is gone.
NewEdit ==
    /\ entries' = Append(entries, LogEntry("apply", NextEventId))
    /\ \E e \in HistoryEntries : e.id = NextEventId /\ undoStack' = Append(undoStack, e)
    /\ redoStack' = <<>>

\* An edit moves from one stack to the other.
Moved(from, to, nextFrom, nextTo, direction, i) ==
    /\ i \in DOMAIN from
    /\ nextFrom = RemoveIndex(from, i)
    /\ nextTo = Append(to, from[i])
    /\ entries' = Append(entries, LogEntry(direction, from[i].id))
HistoryMove ==
    \/ \E i : /\ Moved(undoStack, redoStack, undoStack', redoStack', "undo", i)
            /\ apply_history_entry(undoStack[i], "undo")
    \/ \E i : /\ Moved(redoStack, undoStack, redoStack', undoStack', "redo", i)
            /\ apply_history_entry(redoStack[i], "redo")

\* Document and history stay; the plan is dropped or made anew, or the
\* control state changes.
DocumentKept ==
    /\ UNCHANGED <<project, defs, revision, viewRevision, history>>
    /\ \/ plan' = plan
       \/ plan' = NoPlan
       \/ Loaded /\ plan' = project.graph.rev
    /\ \/ UNCHANGED <<control, controlRevision>>
       \/ control' \in Controls /\ controlRevision' = controlRevision + 1

LEMMA SessionCovered ==
    ASSUME DocumentInv, Loaded
    PROVE  project \in Covered /\ Plannable(project, defs)
BY DEF DocumentInv, SessionTypeOK, ViewCoversNodes, SessionPlannable, Loaded, Covered

LEMMA LoadStep ==
    ASSUME NEW doc \in Projects, load_project(doc)
    PROVE  StartedOver
<1> DEFINE stored == [doc EXCEPT !.view = reconcile_view_state(doc.graph, @)]
<1>1. doc \in Project /\ doc.graph \in Graph /\ doc.view \in View
  BY ProjectFields, ProjectsAssumption
<1>2. /\ reconcile_view_state(doc.graph, doc.view) \in View
      /\ DOMAIN reconcile_view_state(doc.graph, doc.view) = DOMAIN doc.graph.nodes
  BY <1>1, ReconcileType
<1>3. /\ stored \in Project /\ stored.graph = doc.graph
      /\ stored.view = reconcile_view_state(doc.graph, doc.view)
  BY <1>1, <1>2 DEF Project
<1>4. stored \in Covered /\ stored # NoProject
  BY <1>2, <1>3, ProjectsAssumption DEF Covered
<1>5. /\ Plannable(stored, InitialDefs) /\ project' = stored /\ defs' = InitialDefs
      /\ plan' = stored.graph.rev /\ revision' = revision + 1 /\ viewRevision' = 1
      /\ controlRevision' = 0 /\ control' = DefaultControl /\ clear_history
  BY DEF load_project
<1> HIDE DEF stored
<1> QED BY <1>4, <1>5, InputsAssumption, ControlAssumption DEF StartedOver

LEMMA ClearStep ==
    ASSUME clear
    PROVE  StartedOver
BY ControlAssumption DEF clear, StartedOver

LEMMA UpdateStep ==
    ASSUME DocumentInv, NEW actor \in Actors, DocumentUpdate(actor), project \in Covered
    PROVE  Replaced /\ NewEdit
<1>1. PICK next \in Covered, nextDefs \in SUBSET Contents, nextViewRevision \in Nat :
        /\ RootMoves(project, next)
        /\ apply_project_document_update(actor, next, nextDefs, nextViewRevision)
  BY DEF DocumentUpdate
<1>2. Replaced
  BY <1>1, ControlAssumption DEF apply_project_document_update, install_project, Replaced
<1>3. DocumentEntry(actor, next, nextViewRevision) \in HistoryEntries
  <2>1. NextEventId \in Nat /\ viewRevision \in Nat
    BY DEF NextEventId, DocumentInv, SessionTypeOK
  <2> QED BY <1>1, <2>1 DEF DocumentEntry, HistoryEntries, DocumentEntries
<1>4. DocumentEntry(actor, next, nextViewRevision).id = NextEventId
  BY DEF DocumentEntry
<1>5. NewEdit
  BY <1>1, <1>3, <1>4 DEF apply_project_document_update, NewEdit
<1> QED BY <1>2, <1>5

\* A view patch that goes through moves nodes the document has.
LEMMA ViewPatchType ==
    ASSUME NEW p \in Covered, NEW ops \in Seq(ViewOp),
           NEW view \in apply_view_patch(p.graph, reconcile_view_state(p.graph, p.view), ops)
    PROVE  /\ [p EXCEPT !.view = view] \in Covered
           /\ [p EXCEPT !.view = view].graph = p.graph
           /\ [p EXCEPT !.view = view].patches = p.patches
           /\ inverse_ops(p.graph, p.view, ops) \in Seq(ViewOp)
<1>1. p \in Project /\ p.graph \in Graph /\ p.view \in View /\ DOMAIN p.view = DOMAIN p.graph.nodes
  BY ProjectFields DEF Covered
<1>2. reconcile_view_state(p.graph, p.view) = p.view
  <2> DEFINE pv == p.view
             gn == p.graph.nodes
  <2>1. pv \in [DOMAIN pv -> Positions] /\ DOMAIN pv = DOMAIN gn
    BY <1>1, PartialFunctionFacts DEF View
  <2>2. reconcile_view_state(p.graph, pv) = [n \in DOMAIN gn |-> IF n \in DOMAIN pv THEN pv[n] ELSE DefaultView]
    BY DEF reconcile_view_state
  <2> HIDE DEF pv, gn
  <2>3. reconcile_view_state(p.graph, pv) = pv
    BY <2>1, <2>2
  <2> QED BY <2>3 DEF pv
<1>3. view \in apply_view_patch(p.graph, p.view, ops)
  BY <1>2
<1>4. view \in View /\ DOMAIN view = DOMAIN p.view
  BY <1>1, <1>3, ViewPatchKeeps
<1>5. inverse_ops(p.graph, p.view, ops) \in Seq(ViewOp)
  BY <1>1, <1>3, InverseType
<1>6. [p EXCEPT !.view = view] \in Project
  BY <1>1, <1>4 DEF Project
<1>7. /\ [p EXCEPT !.view = view].view = view
      /\ [p EXCEPT !.view = view].graph = p.graph
      /\ [p EXCEPT !.view = view].patches = p.patches
  BY <1>1 DEF Project
<1> QED BY <1>1, <1>4, <1>5, <1>6, <1>7 DEF Covered

LEMMA InstallViewStep ==
    ASSUME DocumentInv, Loaded, NEW ops \in Seq(ViewOp), NEW view \in ViewPatchResult(ops),
           install_view(view)
    PROVE  Replaced /\ inverse_ops(project.graph, project.view, ops) \in Seq(ViewOp)
<1>1. project \in Covered /\ Plannable(project, defs)
  BY SessionCovered
<1> DEFINE q == [project EXCEPT !.view = view]
<1>2. /\ q \in Covered /\ q.graph = project.graph /\ q.patches = project.patches
      /\ inverse_ops(project.graph, project.view, ops) \in Seq(ViewOp)
  BY <1>1, ViewPatchType DEF ViewPatchResult
<1>3. /\ project' = q /\ plan' = project.graph.rev /\ revision' = revision + 1
      /\ viewRevision' = viewRevision + 1 /\ control' = DefaultControl
      /\ defs' = defs /\ controlRevision' = controlRevision
  BY DEF install_view
<1> HIDE DEF q
<1>4. Plannable(q, defs)
  BY <1>1, <1>2 DEF Plannable
<1>5. defs \in SUBSET Contents /\ viewRevision \in Nat /\ controlRevision \in Nat
  BY DEF DocumentInv, SessionTypeOK
<1> QED BY <1>1, <1>2, <1>3, <1>4, <1>5, ControlAssumption DEF Replaced, RootMoves

LEMMA PatchStep ==
    ASSUME DocumentInv, NEW actor \in Actors, NEW base, PatchView(actor, base)
    PROVE  Replaced /\ NewEdit
<1>1. PICK ops \in ViewPatches : apply_mutation(actor, base, ops)
  BY DEF PatchView
<1>2. PICK view \in ViewPatchResult(ops) : install_view(view)
  BY <1>1 DEF apply_mutation
<1>3. Loaded /\ ops \in Seq(ViewOp)
  BY <1>1, ViewPatchesAssumption DEF apply_mutation
<1>4. Replaced /\ inverse_ops(project.graph, project.view, ops) \in Seq(ViewOp)
  BY <1>2, <1>3, InstallViewStep
<1>5. MutationEntry(actor, ops) \in HistoryEntries /\ MutationEntry(actor, ops).id = NextEventId
  <2>1. NextEventId \in Nat
    BY DEF NextEventId, DocumentInv, SessionTypeOK
  <2> QED BY <1>3, <1>4, <2>1 DEF MutationEntry, HistoryEntries, MutationEntries
<1>6. NewEdit
  BY <1>1, <1>5 DEF apply_mutation, NewEdit
<1> QED BY <1>4, <1>6

LEMMA HistoryEntryStep ==
    ASSUME DocumentInv, NEW entry \in HistoryEntries, NEW direction \in {"undo", "redo"},
           apply_history_entry(entry, direction)
    PROVE  Replaced /\ entries' = Append(entries, LogEntry(direction, entry.id))
<1>1. Loaded /\ entries' = Append(entries, LogEntry(direction, entry.id))
  BY DEF apply_history_entry
<1>2. project \in Covered /\ project # NoProject
  BY <1>1, SessionCovered DEF Loaded
<1>3. CASE entry.kind = "document" /\ restore_project_document_state(entry, direction)
  <2>1. entry.before \in Covered /\ entry.after \in Covered /\ entry.beforeView \in Nat /\ entry.afterView \in Nat
    BY <1>3 DEF HistoryEntries, DocumentEntries, MutationEntries
  <2> DEFINE merged == project_document_history_delta(project, entry.before, entry.after, direction)
             next == [merged EXCEPT !.graph.rev = next_graph_revision(project.graph.rev)]
             nvr == IF direction = "undo" THEN entry.beforeView ELSE entry.afterView
  <2>2. Plannable(next, defs) /\ install_project(next, defs, nvr)
    BY <1>3 DEF restore_project_document_state
  <2>3. merged \in Covered
    BY <1>2, <2>1, HistoryDeltaCovers
  <2> HIDE DEF merged
  <2>4. project.graph.rev \in Nat
    BY <1>2, ProjectFields, GraphFields DEF Covered
  <2>5. next \in Covered /\ next.graph.rev = project.graph.rev + 1
    <3>1. merged \in Project /\ merged.graph \in Graph /\ DOMAIN merged.view = DOMAIN merged.graph.nodes
      BY <2>3, ProjectFields DEF Covered
    <3> DEFINE g == [merged.graph EXCEPT !.rev = next_graph_revision(project.graph.rev)]
    <3>2. g \in Graph /\ g.rev = project.graph.rev + 1 /\ g.nodes = merged.graph.nodes
      BY <2>4, <3>1 DEF Graph, next_graph_revision
    <3>3. next = [merged EXCEPT !.graph = g]
      OBVIOUS
    <3> HIDE DEF g
    <3>4. next \in Project /\ next.graph = g /\ next.view = merged.view
      BY <3>1, <3>2, <3>3 DEF Project
    <3> QED BY <3>1, <3>2, <3>4 DEF Covered
  <2> HIDE DEF next
  <2>6. nvr \in Nat
    BY <2>1
  <2>7. defs \in SUBSET Contents
    BY DEF DocumentInv, SessionTypeOK
  <2> HIDE DEF nvr
  <2> QED BY <1>1, <1>2, <2>2, <2>5, <2>6, <2>7, ControlAssumption DEF install_project, Replaced, RootMoves
<1>4. CASE entry.kind = "mutation" /\ reapply_view_patch(entry, direction)
  <2>1. entry.ops \in Seq(ViewOp) /\ entry.inverse \in Seq(ViewOp)
    BY <1>4 DEF HistoryEntries, DocumentEntries, MutationEntries
  <2> DEFINE ops == IF direction = "undo" THEN entry.inverse ELSE entry.ops
  <2>2. PICK view \in ViewPatchResult(ops) : install_view(view)
    BY <1>4 DEF reapply_view_patch
  <2>3. ops \in Seq(ViewOp)
    BY <2>1
  <2> HIDE DEF ops
  <2> QED BY <1>1, <2>2, <2>3, InstallViewStep
<1> QED BY <1>3, <1>4 DEF apply_history_entry

LEMMA UndoRedoStep ==
    ASSUME DocumentInv, UndoRedo
    PROVE  Replaced /\ HistoryMove
<1>0. undoStack \in Seq(HistoryEntries) /\ redoStack \in Seq(HistoryEntries)
  BY DEF DocumentInv, SessionTypeOK
<1>1. ASSUME NEW i \in DOMAIN undoStack, UndoAt(i) PROVE Replaced /\ HistoryMove
  <2>1. undoStack[i] \in HistoryEntries
    BY <1>0, <1>1
  <2>2. Replaced /\ entries' = Append(entries, LogEntry("undo", undoStack[i].id))
    BY <1>1, <2>1, HistoryEntryStep DEF UndoAt
  <2> QED BY <1>1, <2>2 DEF UndoAt, HistoryMove, Moved
<1>2. ASSUME NEW i \in DOMAIN redoStack, RedoAt(i) PROVE Replaced /\ HistoryMove
  <2>1. redoStack[i] \in HistoryEntries
    BY <1>0, <1>2
  <2>2. Replaced /\ entries' = Append(entries, LogEntry("redo", redoStack[i].id))
    BY <1>2, <2>1, HistoryEntryStep DEF RedoAt
  <2> QED BY <1>2, <2>2 DEF RedoAt, HistoryMove, Moved
<1>3. undoStack # <<>> => Len(undoStack) \in DOMAIN undoStack
  BY <1>0
<1>4. redoStack # <<>> => Len(redoStack) \in DOMAIN redoStack
  BY <1>0
<1> QED BY <1>1, <1>2, <1>3, <1>4 DEF UndoRedo, undo, redo, undo_for_actor, redo_for_actor

LEMMA AdminStep ==
    ASSUME DocumentInv, SessionAdmin
    PROVE  StartedOver \/ DocumentKept
<1>1. ASSUME NEW doc \in Projects, load_project(doc) PROVE StartedOver
  BY <1>1, LoadStep
<1>2. ASSUME plan_current PROVE DocumentKept
  BY <1>2 DEF plan_current, DocumentKept
<1>3. ASSUME NEW ops \in ViewPatches, apply_mutation_without_plan(viewRevision, ops) PROVE DocumentKept
  BY <1>3 DEF apply_mutation_without_plan, DocumentKept
<1>4. ASSUME history_patch_without_plan PROVE DocumentKept
  BY <1>4 DEF history_patch_without_plan, DocumentKept
<1>5. ASSUME NEW value \in Controls, apply_control_event(value) PROVE DocumentKept
  BY <1>5 DEF apply_control_event, DocumentKept
<1> QED BY <1>1, <1>2, <1>3, <1>4, <1>5, ClearStep DEF SessionAdmin

\* Every step of a session is one of these.
LEMMA SessionStep ==
    ASSUME DocumentInv, Next
    PROVE  \/ StartedOver
           \/ DocumentKept
           \/ Replaced /\ NewEdit
           \/ Replaced /\ HistoryMove
<1>1. ASSUME NEW actor \in Actors, NEW t \in Targets, Loaded, Edit(actor, t, target_graph(project, t).rev)
      PROVE  Replaced /\ NewEdit
  <2>1. project \in Covered /\ viewRevision \in Nat /\ defs \in SUBSET Contents
    BY <1>1, SessionCovered DEF DocumentInv, SessionTypeOK
  <2>2. DocumentUpdate(actor)
    BY <1>1, <2>1, EditUpdates
  <2> QED BY <2>1, <2>2, UpdateStep
<1> QED BY <1>1, AdminStep, PatchStep, UndoRedoStep DEF Next

LEMMA RemoveIndexType ==
    ASSUME NEW S, NEW s \in Seq(S), NEW i \in DOMAIN s
    PROVE  /\ RemoveIndex(s, i) \in Seq(S)
           /\ Len(RemoveIndex(s, i)) = Len(s) - 1
           /\ DOMAIN RemoveIndex(s, i) = 1..(Len(s) - 1)
           /\ \A k \in 1..(Len(s) - 1) : RemoveIndex(s, i)[k] = IF k < i THEN s[k] ELSE s[k + 1]
<1>1. Len(s) \in Nat /\ Len(s) - 1 \in Nat /\ DOMAIN s = 1..Len(s)
  OBVIOUS
<1>2. \A k \in 1..(Len(s) - 1) : (IF k < i THEN s[k] ELSE s[k + 1]) \in S
  BY <1>1
<1> QED BY <1>1, <1>2 DEF RemoveIndex

\* The history after a step has its type.
LEMMA NewEditType ==
    ASSUME SessionTypeOK, NewEdit
    PROVE  /\ entries' \in Seq(LogEntries)
           /\ undoStack' \in Seq(HistoryEntries) /\ redoStack' \in Seq(HistoryEntries)
<1>1. LogEntry("apply", NextEventId) \in LogEntries
  BY DEF LogEntry, LogEntries, NextEventId, SessionTypeOK
<1> QED BY <1>1 DEF NewEdit, SessionTypeOK

LEMMA HistoryMoveType ==
    ASSUME SessionTypeOK, HistoryMove
    PROVE  /\ entries' \in Seq(LogEntries)
           /\ undoStack' \in Seq(HistoryEntries) /\ redoStack' \in Seq(HistoryEntries)
<1>1. ASSUME NEW from \in Seq(HistoryEntries), NEW to \in Seq(HistoryEntries),
             NEW nextFrom, NEW nextTo, NEW direction \in {"undo", "redo"}, NEW i,
             Moved(from, to, nextFrom, nextTo, direction, i)
      PROVE  entries' \in Seq(LogEntries) /\ nextFrom \in Seq(HistoryEntries) /\ nextTo \in Seq(HistoryEntries)
  <2>1. i \in DOMAIN from /\ from[i] \in HistoryEntries
    BY <1>1 DEF Moved
  <2>2. LogEntry(direction, from[i].id) \in LogEntries
    BY <2>1 DEF LogEntry, LogEntries, HistoryEntries, DocumentEntries, MutationEntries
  <2>3. nextFrom \in Seq(HistoryEntries)
    BY <1>1, <2>1, RemoveIndexType DEF Moved
  <2> QED BY <1>1, <2>1, <2>2, <2>3 DEF Moved, SessionTypeOK
<1>2. undoStack \in Seq(HistoryEntries) /\ redoStack \in Seq(HistoryEntries)
  BY DEF SessionTypeOK
<1> QED BY <1>1, <1>2 DEF HistoryMove

LEMMA DocumentInvInit == Init => DocumentInv
<1> SUFFICES ASSUME Init PROVE DocumentInv
  OBVIOUS
<1>1. SessionTypeOK
  BY ControlAssumption DEF Init, SessionTypeOK
<1> QED BY <1>1 DEF Init, DocumentInv, ViewCoversNodes, SessionPlannable, PlanIsCurrent, Loaded

LEMMA DocumentInvKept ==
    ASSUME DocumentInv, StartedOver \/ (Replaced /\ (NewEdit \/ HistoryMove))
    PROVE  DocumentInv'
<1> USE DEF DocumentInv
<1>1. ASSUME StartedOver PROVE DocumentInv'
  <2>1. SessionTypeOK'
    <3>1. plan' \in Nat \cup {NoPlan}
      BY <1>1, ProjectFields, GraphFields DEF StartedOver, Covered
    <3>2. entries' = <<>> /\ undoStack' = <<>> /\ redoStack' = <<>>
      BY <1>1 DEF StartedOver, clear_history
    <3> QED BY <1>1, <3>1, <3>2 DEF StartedOver, SessionTypeOK, Covered
  <2>2. (ViewCoversNodes /\ SessionPlannable /\ PlanIsCurrent)'
    BY <1>1 DEF StartedOver, ViewCoversNodes, SessionPlannable, PlanIsCurrent, Loaded, Covered
  <2> QED BY <2>1, <2>2
<1>2. ASSUME Replaced, NewEdit \/ HistoryMove PROVE DocumentInv'
  <2>1. plan' \in Nat \cup {NoPlan}
    BY <1>2, ProjectFields, GraphFields DEF Replaced, Covered
  <2>2. SessionTypeOK'
    BY <1>2, <2>1, NewEditType, HistoryMoveType DEF Replaced, SessionTypeOK, Covered
  <2>3. project' # NoProject
    BY <1>2, ProjectFields DEF Replaced, Covered
  <2>4. (ViewCoversNodes /\ SessionPlannable /\ PlanIsCurrent)'
    BY <1>2, <2>3 DEF Replaced, ViewCoversNodes, SessionPlannable, PlanIsCurrent, Loaded, Covered
  <2> QED BY <2>2, <2>4
<1> QED BY <1>1, <1>2

LEMMA DocumentInvStep == DocumentInv /\ [Next]_vars => DocumentInv'
<1> SUFFICES ASSUME DocumentInv, [Next]_vars PROVE DocumentInv'
  OBVIOUS
<1> USE DEF DocumentInv
<1>1. ASSUME DocumentKept PROVE DocumentInv'
  <2>1. Loaded => project.graph.rev \in Nat
    BY SessionCovered, ProjectFields, GraphFields DEF Covered
  <2>2. plan' = plan \/ plan' = NoPlan \/ (Loaded /\ plan' = project.graph.rev)
    BY <1>1 DEF DocumentKept
  <2>3. SessionTypeOK'
    BY <1>1, <2>1, <2>2 DEF DocumentKept, SessionTypeOK, history
  <2>4. (ViewCoversNodes /\ SessionPlannable /\ PlanIsCurrent)'
    BY <1>1, <2>2 DEF DocumentKept, ViewCoversNodes, SessionPlannable, PlanIsCurrent, Loaded
  <2> QED BY <2>3, <2>4
<1>2. ASSUME UNCHANGED vars PROVE DocumentInv'
  BY <1>2 DEF vars, SessionTypeOK, ViewCoversNodes, SessionPlannable, PlanIsCurrent, Loaded
<1> QED BY <1>1, <1>2, DocumentInvKept, SessionStep

\* A session keeps its document, plan and history in shape, for all documents,
\* edits and any number of actors.
THEOREM DocumentInvariant == Spec => []DocumentInv
BY DocumentInvInit, DocumentInvStep, PTL DEF Spec

\* The canvas positions are those of the root graph's nodes
\* (reconcile_view_state, and the undo and redo deltas that do without it).
THEOREM SessionViewCoversNodes == Spec => []ViewCoversNodes
BY DocumentInvariant, PTL DEF DocumentInv

\* The stored document always has a plan (apply_project_document_update and
\* restore_project_document_state plan before they store).
THEOREM SessionStaysPlannable == Spec => []SessionPlannable
BY DocumentInvariant, PTL DEF DocumentInv

\* A held plan is the plan of the held graph.
THEOREM SessionPlanIsCurrent == Spec => []PlanIsCurrent
BY DocumentInvariant, PTL DEF DocumentInv

\* A session revision names one document, and with the control revision one
\* control state: each install_project and install_view moves it on by one.
THEOREM SessionRevisionNamesDocument == Spec => RevisionNamesDocument
<1> DEFINE A == /\ (project' # project \/ history' # history) => revision' = revision + 1
                /\ control' # control => <<revision', controlRevision'>> # <<revision, controlRevision>>
<1>1. DocumentInv /\ [Next]_vars => [A]_vars
  <2> SUFFICES ASSUME DocumentInv, Next PROVE A
    OBVIOUS
  <2>1. revision \in Nat /\ controlRevision \in Nat
    BY DEF DocumentInv, SessionTypeOK
  <2>2. ASSUME revision' = revision + 1 PROVE A
    BY <2>1, <2>2
  <2>3. ASSUME DocumentKept PROVE A
    BY <2>1, <2>3 DEF DocumentKept
  <2> QED BY <2>2, <2>3, SessionStep DEF StartedOver, Replaced
<1> QED BY <1>1, DocumentInvariant, PTL DEF Spec, RevisionNamesDocument

----------------------------------------------------------------------------
(* The history: stacks and log.                                            *)

\* k is the last log entry about the edit id.
LastAt(log, id, k) ==
    /\ k \in DOMAIN log /\ log[k].subject = id
    /\ \A j \in DOMAIN log : log[j].subject = id => j <= k

\* The log's applies are its edits' own entries; every edit in it has a last
\* entry.
LogInv ==
    \A k \in DOMAIN entries :
      /\ entries[k].subject \in DOMAIN entries
      /\ entries[entries[k].subject].subject = entries[k].subject
      /\ entries[k].kind = "apply" <=> entries[k].subject = k
      /\ \E j : LastAt(entries, entries[k].subject, j)

Undoable(log, id) == id \in DOMAIN log /\ log[id].subject = id /\ \E k : LastAt(log, id, k) /\ log[k].kind # "undo"
Redoable(log, id) ==
    \E k : /\ LastAt(log, id, k) /\ log[k].kind = "undo"
          /\ \A j \in DOMAIN log : j > k => log[j].kind # "apply"
Once(stack) == \A i, j \in DOMAIN stack : stack[i].id = stack[j].id => i = j

StacksInv ==
    /\ \A id : id \in StackIds(undoStack) <=> Undoable(entries, id)
    /\ \A id \in StackIds(redoStack) : Redoable(entries, id)
    /\ Once(undoStack) /\ Once(redoStack)

HistoryInv == DocumentInv /\ LogInv /\ StacksInv

LEMMA LastAtUnique ==
    ASSUME NEW log \in Seq(LogEntries), NEW id, NEW j, NEW k, LastAt(log, id, j), LastAt(log, id, k)
    PROVE  j = k
BY DEF LastAt

\* The last entry is the one LastKind chooses.
LEMMA LastKindIs ==
    ASSUME entries \in Seq(LogEntries), NEW id, NEW k, LastAt(entries, id, k)
    PROVE  LastKind(id) = entries[k].kind
<1> DEFINE c == CHOOSE j \in DOMAIN entries :
                  /\ entries[j].subject = id
                  /\ \A m \in DOMAIN entries : entries[m].subject = id => m <= j
<1>1. LastAt(entries, id, c)
  BY DEF LastAt
<1>2. LastKind(id) = entries[c].kind
  BY DEF LastKind
<1> HIDE DEF c
<1> QED BY <1>1, <1>2, LastAtUnique

\* What an appended entry does to the last entries.
LEMMA AppendLast ==
    ASSUME NEW log \in Seq(LogEntries), NEW e \in LogEntries
    PROVE  /\ Append(log, e) \in Seq(LogEntries)
           /\ DOMAIN Append(log, e) = DOMAIN log \cup {Len(log) + 1}
           /\ Len(log) + 1 \notin DOMAIN log
           /\ Append(log, e)[Len(log) + 1] = e
           /\ \A k \in DOMAIN log : Append(log, e)[k] = log[k] /\ k < Len(log) + 1 /\ k \in Nat
           /\ LastAt(Append(log, e), e.subject, Len(log) + 1)
           /\ \A id, k : id # e.subject => (LastAt(Append(log, e), id, k) <=> LastAt(log, id, k))
<1> DEFINE next == Append(log, e)
           n == Len(log) + 1
<1>1. /\ next \in Seq(LogEntries) /\ DOMAIN next = DOMAIN log \cup {n} /\ n \notin DOMAIN log
      /\ next[n] = e /\ \A k \in DOMAIN log : next[k] = log[k] /\ k < n /\ k \in Nat
  OBVIOUS
<1>2. n \in Nat
  OBVIOUS
<1> HIDE DEF next, n
<1>3. LastAt(next, e.subject, n)
  BY <1>1, <1>2 DEF LastAt
<1>4. ASSUME NEW id, NEW k, id # e.subject PROVE LastAt(next, id, k) <=> LastAt(log, id, k)
  BY <1>1, <1>2, <1>4 DEF LastAt
<1> QED BY <1>1, <1>3, <1>4 DEF next, n

\* The invariant says what HistoryMatchesLog says.
LEMMA HistoryInvMatches == HistoryInv => HistoryMatchesLog
<1> SUFFICES ASSUME HistoryInv PROVE HistoryMatchesLog
  OBVIOUS
<1>1. entries \in Seq(LogEntries)
  BY DEF HistoryInv, DocumentInv, SessionTypeOK
<1>2. ASSUME NEW id \in DOMAIN entries, entries[id].subject = id
      PROVE  Undoable(entries, id) <=> LastKind(id) # "undo"
  <2>1. PICK k : LastAt(entries, id, k)
    BY <1>2 DEF HistoryInv, LogInv
  <2>2. LastKind(id) = entries[k].kind
    BY <1>1, <2>1, LastKindIs
  <2> QED BY <1>1, <1>2, <2>1, <2>2, LastAtUnique DEF Undoable
<1>3. StackIds(undoStack) = {id \in DOMAIN entries : entries[id].subject = id /\ LastKind(id) # "undo"}
  <2>1. \A id : id \in StackIds(undoStack) <=> Undoable(entries, id)
    BY DEF HistoryInv, StacksInv
  <2> QED BY <1>2, <2>1 DEF Undoable
<1>4. ASSUME NEW id \in StackIds(redoStack)
      PROVE  \E k \in DOMAIN entries :
               /\ entries[k] = [kind |-> "undo", subject |-> id]
               /\ \A j \in DOMAIN entries : j > k => entries[j].kind # "apply" /\ entries[j].subject # id
  <2>1. PICK k : /\ LastAt(entries, id, k) /\ entries[k].kind = "undo"
                 /\ \A j \in DOMAIN entries : j > k => entries[j].kind # "apply"
    BY DEF HistoryInv, StacksInv, Redoable
  <2>2. k \in DOMAIN entries /\ entries[k].subject = id
    BY <2>1 DEF LastAt
  <2>3. entries[k] = [kind |-> "undo", subject |-> id]
    <3> DEFINE e == entries[k]
    <3>1. e \in LogEntries
      BY <1>1, <2>2
    <3> HIDE DEF e
    <3>2. e = [kind |-> e.kind, subject |-> e.subject]
      BY <3>1 DEF LogEntries
    <3>3. e.kind = "undo" /\ e.subject = id
      BY <2>1, <2>2 DEF e
    <3> QED BY <3>2, <3>3 DEF e
  <2>4. ASSUME NEW j \in DOMAIN entries, j > k PROVE entries[j].subject # id
    BY <1>1, <2>1, <2>4 DEF LastAt
  <2> QED BY <2>1, <2>2, <2>3, <2>4
<1> QED BY <1>3, <1>4 DEF HistoryMatchesLog, HistoryInv, StacksInv, Once

\* Pushing onto a stack and taking from the middle of it.
LEMMA PushIds ==
    ASSUME NEW s \in Seq(HistoryEntries), NEW e \in HistoryEntries
    PROVE  /\ \A id : id \in StackIds(Append(s, e)) <=> id \in StackIds(s) \/ id = e.id
           /\ Once(s) /\ e.id \notin StackIds(s) => Once(Append(s, e))
<1> DEFINE t == Append(s, e)
           n == Len(s) + 1
<1>1. DOMAIN t = DOMAIN s \cup {n} /\ t[n] = e /\ \A k \in DOMAIN s : t[k] = s[k]
  OBVIOUS
<1> HIDE DEF t, n
<1>2. \A id : id \in StackIds(t) <=> id \in StackIds(s) \/ id = e.id
  BY <1>1 DEF StackIds
<1>3. ASSUME Once(s), e.id \notin StackIds(s) PROVE Once(t)
  BY <1>1, <1>3 DEF Once, StackIds
<1> QED BY <1>2, <1>3 DEF t

LEMMA TakeIds ==
    ASSUME NEW s \in Seq(HistoryEntries), NEW i \in DOMAIN s, Once(s)
    PROVE  /\ \A id : id \in StackIds(RemoveIndex(s, i)) <=> id \in StackIds(s) /\ id # s[i].id
           /\ Once(RemoveIndex(s, i))
<1> DEFINE t == RemoveIndex(s, i)
           from(k) == IF k < i THEN k ELSE k + 1
<1>1. DOMAIN t = 1..(Len(s) - 1) /\ \A k \in 1..(Len(s) - 1) : t[k] = IF k < i THEN s[k] ELSE s[k + 1]
  BY RemoveIndexType
<1>2. Len(s) \in Nat /\ DOMAIN s = 1..Len(s) /\ i \in 1..Len(s)
  OBVIOUS
<1> HIDE DEF t
<1>3. \A k \in DOMAIN t : from(k) \in DOMAIN s /\ from(k) # i /\ t[k] = s[from(k)]
  BY <1>1, <1>2
<1>4. ASSUME NEW j \in DOMAIN s, j # i PROVE \E k \in DOMAIN t : t[k] = s[j]
  <2>1. CASE j < i
    BY <1>1, <1>2, <2>1
  <2>2. CASE j > i
    <3>1. j - 1 \in 1..(Len(s) - 1) /\ ~ (j - 1 < i) /\ (j - 1) + 1 = j
      BY <1>2, <2>2
    <3> QED BY <1>1, <3>1
  <2> QED BY <1>2, <1>4, <2>1, <2>2
<1>5. \A id : id \in StackIds(t) <=> id \in StackIds(s) /\ id # s[i].id
  <2>1. ASSUME NEW k \in DOMAIN t PROVE t[k].id \in StackIds(s) /\ t[k].id # s[i].id
    <3> DEFINE j == from(k)
    <3>1. j \in DOMAIN s /\ j # i /\ t[k] = s[j]
      BY <1>3
    <3> HIDE DEF j
    <3> QED BY <3>1 DEF Once, StackIds
  <2>2. ASSUME NEW j \in DOMAIN s, s[j].id # s[i].id PROVE s[j].id \in StackIds(t)
    <3>1. j # i
      BY <2>2
    <3> QED BY <1>4, <3>1 DEF StackIds
  <2> QED BY <2>1, <2>2 DEF StackIds
<1>6. Once(t)
  <2> SUFFICES ASSUME NEW j \in DOMAIN t, NEW k \in DOMAIN t, t[j].id = t[k].id PROVE j = k
    BY DEF Once
  <2>1. from(j) = from(k)
    <3>1. from(j) \in DOMAIN s /\ from(k) \in DOMAIN s /\ t[j] = s[from(j)] /\ t[k] = s[from(k)]
      BY <1>3
    <3> HIDE DEF from
    <3> QED BY <3>1 DEF Once
  <2>2. j \in Int /\ k \in Int
    BY <1>1
  <2> QED BY <2>1, <2>2, <1>2
<1> QED BY <1>5, <1>6 DEF t

\* The log after an entry about an edit that is in it.
LEMMA LogGrows ==
    ASSUME entries \in Seq(LogEntries), LogInv, NEW e \in LogEntries,
           entries' = Append(entries, e),
           \/ e = LogEntry("apply", NextEventId)
           \/ /\ e.kind # "apply" /\ e.subject \in DOMAIN entries
              /\ entries[e.subject].subject = e.subject
    PROVE  LogInv'
<1> DEFINE n == Len(entries) + 1
           next == Append(entries, e)
<1>1. /\ DOMAIN next = DOMAIN entries \cup {n} /\ n \notin DOMAIN entries /\ next[n] = e
      /\ \A k \in DOMAIN entries : next[k] = entries[k]
      /\ LastAt(next, e.subject, n)
      /\ \A id, k : id # e.subject => (LastAt(next, id, k) <=> LastAt(entries, id, k))
  BY AppendLast
<1>2. \/ e.kind = "apply" /\ e.subject = n
      \/ /\ e.kind # "apply" /\ e.subject \in DOMAIN entries
         /\ entries[e.subject].subject = e.subject
  BY DEF LogEntry, NextEventId
<1> HIDE DEF n, next
<1>3. ASSUME NEW k \in DOMAIN entries
      PROVE  /\ next[k].subject \in DOMAIN next
             /\ next[next[k].subject].subject = next[k].subject
             /\ next[k].kind = "apply" <=> next[k].subject = k
             /\ \E j : LastAt(next, next[k].subject, j)
  <2>1. /\ entries[k].subject \in DOMAIN entries
        /\ entries[entries[k].subject].subject = entries[k].subject
        /\ entries[k].kind = "apply" <=> entries[k].subject = k
        /\ \E j : LastAt(entries, entries[k].subject, j)
    BY DEF LogInv
  <2> QED BY <1>1, <2>1
<1>4. /\ next[n].subject \in DOMAIN next
      /\ next[next[n].subject].subject = next[n].subject
      /\ next[n].kind = "apply" <=> next[n].subject = n
      /\ \E j : LastAt(next, next[n].subject, j)
  BY <1>1, <1>2
<1>5. entries' = next
  BY DEF next
<1> QED BY <1>1, <1>3, <1>4, <1>5 DEF LogInv

LEMMA NewEditHistory ==
    ASSUME HistoryInv, NewEdit
    PROVE  (LogInv /\ StacksInv)'
<1>1. entries \in Seq(LogEntries) /\ undoStack \in Seq(HistoryEntries) /\ LogInv /\ StacksInv
  BY DEF HistoryInv, DocumentInv, SessionTypeOK
<1> DEFINE n == NextEventId
           e == LogEntry("apply", n)
<1>2. e \in LogEntries /\ e.kind = "apply" /\ e.subject = n /\ entries' = Append(entries, e) /\ n = Len(entries) + 1
  BY <1>1 DEF NewEdit, LogEntry, LogEntries, NextEventId
<1>3. PICK x \in HistoryEntries : x.id = n /\ undoStack' = Append(undoStack, x)
  BY DEF NewEdit
<1>4. redoStack' = <<>>
  BY DEF NewEdit
<1>5. LogInv'
  BY <1>1, <1>2, LogGrows
<1> HIDE DEF e, n
<1>6. /\ DOMAIN entries' = DOMAIN entries \cup {n} /\ n \notin DOMAIN entries /\ entries'[n] = e
      /\ \A k \in DOMAIN entries : entries'[k] = entries[k]
      /\ LastAt(entries', n, n)
      /\ \A id, k : id # n => (LastAt(entries', id, k) <=> LastAt(entries, id, k))
  BY <1>1, <1>2, AppendLast
<1>7. Undoable(entries', n)
  BY <1>2, <1>6 DEF Undoable
<1>8. ASSUME NEW id, id # n PROVE Undoable(entries', id) <=> Undoable(entries, id)
  <2>1. \A k : LastAt(entries, id, k) => k \in DOMAIN entries
    BY DEF LastAt
  <2> QED BY <1>6, <1>8, <2>1 DEF Undoable
<1>9. ~ Undoable(entries, n)
  BY <1>6 DEF Undoable
<1>10. \A id : id \in StackIds(undoStack') <=> id \in StackIds(undoStack) \/ id = n
  BY <1>1, <1>3, PushIds
<1>11. Once(undoStack')
  BY <1>1, <1>3, <1>9, PushIds DEF StacksInv
<1>12. \A id : id \in StackIds(undoStack') <=> Undoable(entries', id)
  BY <1>1, <1>7, <1>8, <1>10 DEF StacksInv
<1>13. StackIds(redoStack') = {} /\ Once(redoStack')
  BY <1>4 DEF StackIds, Once
<1>14. StacksInv'
  <2>1. \A id \in StackIds(redoStack') : Redoable(entries', id)
    BY <1>13
  <2> QED BY <1>11, <1>12, <1>13, <2>1 DEF StacksInv
<1> QED BY <1>5, <1>14

\* An edit on the redo stack is not on the undo stack.
LEMMA StacksDisjoint ==
    ASSUME entries \in Seq(LogEntries), StacksInv, NEW id \in StackIds(redoStack)
    PROVE  id \notin StackIds(undoStack)
<1>1. PICK k : LastAt(entries, id, k) /\ entries[k].kind = "undo"
  BY DEF StacksInv, Redoable
<1>2. ~ Undoable(entries, id)
  BY <1>1, LastAtUnique DEF Undoable
<1> QED BY <1>2 DEF StacksInv

LEMMA HistoryMoveHistory ==
    ASSUME HistoryInv, HistoryMove
    PROVE  (LogInv /\ StacksInv)'
<1>1. /\ entries \in Seq(LogEntries) /\ LogInv /\ StacksInv
      /\ undoStack \in Seq(HistoryEntries) /\ redoStack \in Seq(HistoryEntries)
  BY DEF HistoryInv, DocumentInv, SessionTypeOK
<1>2. \A id \in StackIds(undoStack) \cup StackIds(redoStack) :
        id \in DOMAIN entries /\ entries[id].subject = id
  <2>1. ASSUME NEW id, Undoable(entries, id) PROVE id \in DOMAIN entries /\ entries[id].subject = id
    BY <2>1 DEF Undoable
  <2>2. ASSUME NEW id, Redoable(entries, id) PROVE id \in DOMAIN entries /\ entries[id].subject = id
    <3>1. PICK k \in DOMAIN entries : entries[k].subject = id
      BY <2>2 DEF Redoable, LastAt
    <3> QED BY <1>1, <3>1 DEF LogInv
  <2> QED BY <1>1, <2>1, <2>2 DEF StacksInv
<1>3. \A id, k : LastAt(entries, id, k) => k \in DOMAIN entries
  BY DEF LastAt
<1>0. /\ \A id : id \in StackIds(undoStack) <=> Undoable(entries, id)
      /\ \A id \in StackIds(redoStack) : Redoable(entries, id)
  BY <1>1 DEF StacksInv
\* What holds after either move, for the entry x that moves.
<1>4. ASSUME NEW x \in HistoryEntries, NEW direction \in {"undo", "redo"},
             x.id \in StackIds(undoStack) \cup StackIds(redoStack),
             entries' = Append(entries, LogEntry(direction, x.id))
      PROVE  /\ LogInv'
             /\ \A id : id # x.id => /\ Undoable(entries', id) <=> Undoable(entries, id)
                                     /\ Redoable(entries, id) => Redoable(entries', id)
             /\ Undoable(entries', x.id) <=> direction = "redo"
             /\ direction = "undo" => Redoable(entries', x.id)
  <2> DEFINE e == LogEntry(direction, x.id)
             n == Len(entries) + 1
  <2>1. e \in LogEntries /\ e.kind = direction /\ e.subject = x.id
    BY DEF LogEntry, LogEntries, HistoryEntries, DocumentEntries, MutationEntries
  <2>2. x.id \in DOMAIN entries /\ entries[x.id].subject = x.id
    BY <1>2, <1>4
  <2>3. LogInv'
    BY <1>1, <1>4, <2>1, <2>2, LogGrows
  <2>4. entries' = Append(entries, e)
    BY <1>4
  <2> HIDE DEF e
  <2>5. /\ entries' \in Seq(LogEntries)
        /\ DOMAIN entries' = DOMAIN entries \cup {n} /\ n \notin DOMAIN entries /\ entries'[n] = e
        /\ \A k \in DOMAIN entries : entries'[k] = entries[k] /\ k < n /\ k \in Nat
        /\ LastAt(entries', x.id, n)
        /\ \A id, k : id # x.id => (LastAt(entries', id, k) <=> LastAt(entries, id, k))
    BY <1>1, <2>1, <2>4, AppendLast
  <2>6. n \in Nat
    BY <1>1
  <2> HIDE DEF n
  <2>7. ASSUME NEW id, id # x.id PROVE Undoable(entries', id) <=> Undoable(entries, id)
    <3>1. id \notin DOMAIN entries => ~ Undoable(entries', id)
      <4>1. ASSUME id = n PROVE entries'[id].subject # id
        BY <2>1, <2>5, <2>7, <4>1
      <4> QED BY <2>5, <4>1 DEF Undoable
    <3>2. id \notin DOMAIN entries => ~ Undoable(entries, id)
      BY DEF Undoable
    <3>3. ASSUME id \in DOMAIN entries PROVE Undoable(entries', id) <=> Undoable(entries, id)
      BY <1>3, <2>5, <2>7, <3>3 DEF Undoable
    <3> QED BY <3>1, <3>2, <3>3
  <2>8. ASSUME NEW id, id # x.id, Redoable(entries, id) PROVE Redoable(entries', id)
    <3>1. PICK k : /\ LastAt(entries, id, k) /\ entries[k].kind = "undo"
                   /\ \A j \in DOMAIN entries : j > k => entries[j].kind # "apply"
      BY <2>8 DEF Redoable
    <3>2. k \in DOMAIN entries /\ LastAt(entries', id, k) /\ entries'[k].kind = "undo"
      BY <1>3, <2>5, <2>8, <3>1
    <3>3. \A j \in DOMAIN entries' : j > k => entries'[j].kind # "apply"
      BY <2>1, <2>5, <3>1
    <3> QED BY <3>2, <3>3 DEF Redoable
  <2>9. Undoable(entries', x.id) <=> direction = "redo"
    <3>1. \A k : LastAt(entries', x.id, k) => k = n
      BY <2>5, LastAtUnique
    <3>2. x.id \in DOMAIN entries' /\ entries'[x.id].subject = x.id /\ entries'[n].kind = direction
      BY <2>1, <2>2, <2>5
    <3> QED BY <2>5, <3>1, <3>2 DEF Undoable
  <2>10. ASSUME direction = "undo" PROVE Redoable(entries', x.id)
    <3>1. \A j \in DOMAIN entries' : ~ (j > n)
      BY <2>5, <2>6
    <3> QED BY <2>1, <2>5, <2>10, <3>1 DEF Redoable
  <2> QED BY <2>3, <2>7, <2>8, <2>9, <2>10
<1>5. ASSUME NEW i, Moved(undoStack, redoStack, undoStack', redoStack', "undo", i)
      PROVE  (LogInv /\ StacksInv)'
  <2> DEFINE x == undoStack[i]
  <2>1. i \in DOMAIN undoStack /\ x \in HistoryEntries /\ x.id \in StackIds(undoStack)
    BY <1>1, <1>5 DEF Moved, StackIds
  <2>2. /\ undoStack' = RemoveIndex(undoStack, i) /\ redoStack' = Append(redoStack, x)
        /\ entries' = Append(entries, LogEntry("undo", x.id))
    BY <1>5 DEF Moved
  <2>3. Once(undoStack) /\ Once(redoStack)
    BY <1>1 DEF StacksInv
  <2>4. x.id \notin StackIds(redoStack)
    BY <1>1, <2>1, StacksDisjoint
  <2>5. Once(undoStack') /\ \A id : id \in StackIds(undoStack') <=> id \in StackIds(undoStack) /\ id # x.id
    BY <1>1, <2>1, <2>2, <2>3, TakeIds
  <2> HIDE DEF x
  <2>6. Once(redoStack') /\ \A id : id \in StackIds(redoStack') <=> id \in StackIds(redoStack) \/ id = x.id
    BY <1>1, <2>1, <2>2, <2>3, <2>4, PushIds
  <2>7. /\ LogInv'
        /\ \A id : id # x.id => /\ Undoable(entries', id) <=> Undoable(entries, id)
                                /\ Redoable(entries, id) => Redoable(entries', id)
        /\ ~ Undoable(entries', x.id)
        /\ Redoable(entries', x.id)
    BY <1>4, <2>1, <2>2
  <2>8. \A id : id \in StackIds(undoStack') <=> Undoable(entries', id)
    BY <1>0, <2>5, <2>7, Zenon
  <2>9. \A id \in StackIds(redoStack') : Redoable(entries', id)
    BY <1>0, <2>6, <2>7, Zenon
  <2> QED BY <2>5, <2>6, <2>7, <2>8, <2>9 DEF StacksInv
<1>6. ASSUME NEW i, Moved(redoStack, undoStack, redoStack', undoStack', "redo", i)
      PROVE  (LogInv /\ StacksInv)'
  <2> DEFINE x == redoStack[i]
  <2>1. i \in DOMAIN redoStack /\ x \in HistoryEntries /\ x.id \in StackIds(redoStack)
    BY <1>1, <1>6 DEF Moved, StackIds
  <2>2. /\ redoStack' = RemoveIndex(redoStack, i) /\ undoStack' = Append(undoStack, x)
        /\ entries' = Append(entries, LogEntry("redo", x.id))
    BY <1>6 DEF Moved
  <2>3. Once(undoStack) /\ Once(redoStack)
    BY <1>1 DEF StacksInv
  <2>4. x.id \notin StackIds(undoStack)
    BY <1>1, <2>1, StacksDisjoint
  <2>5. Once(redoStack') /\ \A id : id \in StackIds(redoStack') <=> id \in StackIds(redoStack) /\ id # x.id
    BY <1>1, <2>1, <2>2, <2>3, TakeIds
  <2> HIDE DEF x
  <2>6. Once(undoStack') /\ \A id : id \in StackIds(undoStack') <=> id \in StackIds(undoStack) \/ id = x.id
    BY <1>1, <2>1, <2>2, <2>3, <2>4, PushIds
  <2>7. /\ LogInv'
        /\ \A id : id # x.id => /\ Undoable(entries', id) <=> Undoable(entries, id)
                                /\ Redoable(entries, id) => Redoable(entries', id)
        /\ Undoable(entries', x.id)
    BY <1>4, <2>1, <2>2
  <2>8. \A id : id \in StackIds(undoStack') <=> Undoable(entries', id)
    BY <1>0, <2>6, <2>7, Zenon
  <2>9. \A id \in StackIds(redoStack') : Redoable(entries', id)
    BY <1>0, <2>5, <2>7, Zenon
  <2> QED BY <2>5, <2>6, <2>7, <2>8, <2>9 DEF StacksInv
<1> QED BY <1>5, <1>6 DEF HistoryMove

LEMMA StartedOverHistory ==
    ASSUME clear_history
    PROVE  (LogInv /\ StacksInv)'
<1>1. entries' = <<>> /\ undoStack' = <<>> /\ redoStack' = <<>>
  BY DEF clear_history
<1>2. DOMAIN entries' = {} /\ StackIds(undoStack') = {} /\ StackIds(redoStack') = {}
  BY <1>1 DEF StackIds
<1> QED BY <1>1, <1>2 DEF LogInv, StacksInv, Once, Undoable

LEMMA HistoryInvInit == Init => HistoryInv
<1> SUFFICES ASSUME Init PROVE HistoryInv
  OBVIOUS
<1>1. DOMAIN entries = {} /\ StackIds(undoStack) = {} /\ StackIds(redoStack) = {}
      /\ undoStack = <<>> /\ redoStack = <<>>
  BY DEF Init, StackIds
<1>2. LogInv /\ StacksInv
  BY <1>1 DEF LogInv, StacksInv, Once, Undoable
<1> QED BY <1>2, DocumentInvInit DEF HistoryInv

LEMMA HistoryInvStep == HistoryInv /\ [Next]_vars => HistoryInv'
<1> SUFFICES ASSUME HistoryInv, [Next]_vars PROVE HistoryInv'
  OBVIOUS
<1>1. DocumentInv /\ DocumentInv'
  BY DocumentInvStep DEF HistoryInv
<1>2. ASSUME UNCHANGED history PROVE (LogInv /\ StacksInv)'
  <2>1. LogInv /\ StacksInv
    BY DEF HistoryInv
  <2> QED BY <1>2, <2>1 DEF history, LogInv, StacksInv, StackIds
<1>3. (LogInv /\ StacksInv)'
  <2>1. CASE UNCHANGED vars
    BY <1>2, <2>1 DEF vars, history
  <2>2. CASE Next
    BY <1>1, <1>2, <2>2, SessionStep, NewEditHistory, HistoryMoveHistory, StartedOverHistory
       DEF StartedOver, DocumentKept
  <2> QED BY <2>1, <2>2
<1> QED BY <1>1, <1>3 DEF HistoryInv

THEOREM HistoryInvariant == Spec => []HistoryInv
BY HistoryInvInit, HistoryInvStep, PTL DEF Spec

\* The undo and redo stacks are what the history log says, whichever actors
\* undid and redid edits from the middle of the stacks.
THEOREM SessionHistoryMatchesLog == Spec => []HistoryMatchesLog
BY HistoryInvariant, HistoryInvMatches, PTL

----------------------------------------------------------------------------
(* What undo and redo leave alone.                                         *)

\* Only nodes and edges count.
LEMMA UnchangedByContents ==
    ASSUME NEW g, NEW q, NEW r, NEW from, NEW to,
           UnchangedBy(g, q, from, to), r.nodes = q.nodes, r.edges = q.edges
    PROVE  UnchangedBy(g, r, from, to)
BY DEF UnchangedBy

\* What an edit itself does is never counted against it.
LEMMA EndsKept ==
    ASSUME NEW from, NEW to
    PROVE  /\ UnchangedBy(from, to, from, to)
           /\ KeptFrom(from.view, to.view, from.view, to.view, NodeIds)
BY DEF UnchangedBy, KeptFrom, NotTheEdits

\* Merged into the current document, an undo or redo of an edit leaves alone
\* what the edit left alone and what was changed since, in every graph of the
\* document and in its view.
LEMMA HistoryDeltaKeepsOthers ==
    ASSUME NEW p \in Covered, NEW before \in Covered, NEW after \in Covered,
           NEW direction \in {"undo", "redo"}
    PROVE  OthersKept(p, project_document_history_delta(p, before, after, direction),
                      From(before, after, direction), To(before, after, direction))
<1> DEFINE from == From(before, after, direction)
           to == To(before, after, direction)
           q == project_document_history_delta(p, before, after, direction)
<1>1. CASE p = from
  <2>1. q = to
    BY <1>1 DEF project_document_history_delta, From, To
  <2>2. OthersKept(from, to, from, to)
    <3> HIDE DEF from, to
    <3> QED BY EndsKept DEF OthersKept
  <2> QED BY <1>1, <2>1, <2>2
<1>2. CASE p # from
  <2>1. ASSUME NEW t \in Targets
        PROVE  UnchangedBy(target_graph(p, t), target_graph(q, t), target_graph(from, t), target_graph(to, t))
    <3> DEFINE bt == target_graph(before, t)
               at == target_graph(after, t)
               pt == target_graph(p, t)
               delta == GraphDelta(pt, bt, at, direction)
    <3>1. pt \in Graph /\ bt \in Graph /\ at \in Graph
      BY ProjectFields DEF Covered
    <3>2. /\ target_graph(from, t) = From(bt, at, direction)
          /\ target_graph(to, t) = To(bt, at, direction)
      BY DEF From, To
    <3> HIDE DEF pt, bt, at
    <3>3. UnchangedBy(pt, delta, From(bt, at, direction), To(bt, at, direction)) /\ delta \in Graph
      BY <3>1, GraphDeltaType
    <3>4. target_graph(q, t) = delta \/ target_graph(q, t) = Bump(delta)
      <4>1. CASE t = Root
        <5>1. q.graph = GraphDelta(p.graph, before.graph, after.graph, direction)
          BY <1>2 DEF project_document_history_delta, From
        <5> QED BY <4>1, <5>1 DEF target_graph, pt, bt, at
      <4>2. CASE t \in PatchIds
        <5>1. q.patches[t] = PatchDelta(p.patches[t], before.patches[t], after.patches[t], direction)
          BY <1>2, <4>2 DEF project_document_history_delta, From
        <5>2. t # Root
          BY <4>2, TargetAssumption
        <5>3. /\ p.patches[t] = pt /\ before.patches[t] = bt /\ after.patches[t] = at
              /\ target_graph(q, t) = q.patches[t]
          BY <5>2 DEF target_graph, pt, bt, at
        <5> HIDE DEF q, delta
        <5>4. PatchDelta(pt, bt, at, direction) = delta \/ PatchDelta(pt, bt, at, direction) = Bump(delta)
          BY DEF PatchDelta, delta
        <5> QED BY <5>1, <5>3, <5>4
      <4> QED BY <4>1, <4>2 DEF Targets
    <3>5. Bump(delta).nodes = delta.nodes /\ Bump(delta).edges = delta.edges
      BY <3>3, GraphEditTypes
    <3> HIDE DEF q, delta, from, to
    <3>6. target_graph(q, t).nodes = delta.nodes /\ target_graph(q, t).edges = delta.edges
      BY <3>4, <3>5
    <3> QED BY <3>2, <3>3, <3>6, UnchangedByContents DEF pt
  <2>2. KeptFrom(p.view, q.view, from.view, to.view, NodeIds)
    <3>1. p.view \in View /\ before.view \in View /\ after.view \in View
      BY ProjectFields DEF Covered
    <3>2. q.view = IF direction = "undo" THEN undo_view_delta(p.view, before.view, after.view)
                   ELSE redo_view_delta(p.view, before.view, after.view)
      BY <1>2 DEF project_document_history_delta, From
    <3> HIDE DEF q
    <3> QED BY <3>1, <3>2, ViewDeltaKeeps DEF From, To
  <2>3. OthersKept(p, q, from, to)
    <3> HIDE DEF q, from, to
    <3> QED BY <2>1, <2>2 DEF OthersKept
  <2> QED BY <2>3
<1> QED BY <1>1, <1>2

LEMMA RestoreKeepsOthers ==
    ASSUME project \in Covered, NEW e \in DocumentEntries, NEW direction \in {"undo", "redo"},
           restore_project_document_state(e, direction)
    PROVE  OthersKept(project, project', From(e.before, e.after, direction), To(e.before, e.after, direction))
<1> DEFINE merged == project_document_history_delta(project, e.before, e.after, direction)
           next == [merged EXCEPT !.graph.rev = next_graph_revision(project.graph.rev)]
           from == From(e.before, e.after, direction)
           to == To(e.before, e.after, direction)
<1>1. e.before \in Covered /\ e.after \in Covered
  BY DEF DocumentEntries
<1>2. OthersKept(project, merged, from, to)
  BY <1>1, HistoryDeltaKeepsOthers
<1>3. merged \in Covered
  BY <1>1, HistoryDeltaCovers
<1>4. project' = next
  BY DEF restore_project_document_state, install_project
<1> HIDE DEF merged, from, to
<1>5. /\ next.view = merged.view
      /\ \A t \in Targets : /\ target_graph(next, t).nodes = target_graph(merged, t).nodes
                            /\ target_graph(next, t).edges = target_graph(merged, t).edges
  <2>1. merged \in Project /\ merged.graph \in Graph
    BY <1>3, ProjectFields DEF Covered
  <2> QED BY <2>1 DEF target_graph, Project, Graph
<1> HIDE DEF next
<1>6. OthersKept(project, next, from, to)
  BY <1>2, <1>5, UnchangedByContents DEF OthersKept
<1> QED BY <1>4, <1>6 DEF from, to

\* Undo and redo of one edit leave alone what the edit did not touch and what
\* was changed since, in the graphs and in the view, whatever other clients
\* did in between.
THEOREM SessionUndoKeepsOthersWork == Spec => UndoKeepsOthersWork
<1> DEFINE Kept(e) ==
             /\ LoggedHistoryStep(e, "undo") => OthersKept(project, project', e.after, e.before)
             /\ LoggedHistoryStep(e, "redo") => OthersKept(project, project', e.before, e.after)
           A == \A e \in Range(undoStack) \cup Range(redoStack) : e.kind = "document" => Kept(e)
<1>1. ASSUME HistoryInv, Next PROVE A
  <2> SUFFICES ASSUME NEW e \in Range(undoStack) \cup Range(redoStack), e.kind = "document",
                      NEW direction \in {"undo", "redo"}, LoggedHistoryStep(e, direction)
               PROVE  OthersKept(project, project', From(e.before, e.after, direction),
                                 To(e.before, e.after, direction))
    BY DEF From, To
  <2>1. /\ DocumentInv /\ StacksInv /\ entries \in Seq(LogEntries)
        /\ undoStack \in Seq(HistoryEntries) /\ redoStack \in Seq(HistoryEntries)
    BY <1>1 DEF HistoryInv, DocumentInv, SessionTypeOK
  <2>2. e \in HistoryEntries /\ e.id \in StackIds(undoStack) \cup StackIds(redoStack)
    BY <2>1 DEF Range, StackIds
  <2>3. e \in DocumentEntries
    BY <2>2 DEF HistoryEntries, MutationEntries
  <2>4. /\ Len(entries') = Len(entries) + 1
        /\ entries'[Len(entries')].kind = direction /\ entries'[Len(entries')].subject = e.id
    BY DEF LoggedHistoryStep, LogEntry
  <2>5. /\ ~ StartedOver
        /\ ~ DocumentKept
        /\ ~ NewEdit
    <3>1. StartedOver => Len(entries') = 0
      BY DEF StartedOver, clear_history
    <3>2. DocumentKept => entries' = entries
      BY DEF DocumentKept, history
    <3>3. NewEdit => entries'[Len(entries')].kind = "apply"
      BY <2>1 DEF NewEdit, LogEntry
    <3> QED BY <2>1, <2>4, <3>1, <3>2, <3>3
  <2>6. Replaced /\ HistoryMove
    BY <1>1, <2>1, <2>5, SessionStep
  <2>7. ASSUME NEW x \in HistoryEntries, x = e, apply_history_entry(x, direction)
        PROVE  OthersKept(project, project', From(e.before, e.after, direction),
                          To(e.before, e.after, direction))
    <3>1. restore_project_document_state(e, direction)
      BY <2>7 DEF apply_history_entry
    <3>2. project \in Covered
      BY <2>6 DEF Replaced
    <3> QED BY <2>3, <3>1, <3>2, RestoreKeepsOthers
  <2>8. \A id : id \in StackIds(redoStack) => id \notin StackIds(undoStack)
    BY <2>1, StacksDisjoint
  <2>9. ASSUME NEW i, Moved(undoStack, redoStack, undoStack', redoStack', "undo", i),
               apply_history_entry(undoStack[i], "undo")
        PROVE  undoStack[i] = e /\ direction = "undo"
    <3>1. i \in DOMAIN undoStack /\ entries' = Append(entries, LogEntry("undo", undoStack[i].id))
      BY <2>9 DEF Moved
    <3>2. e.id = undoStack[i].id /\ direction = "undo"
      BY <2>1, <2>4, <3>1 DEF LogEntry
    <3>3. e \in Range(undoStack)
      BY <2>8, <3>1, <3>2 DEF Range, StackIds
    <3> QED BY <2>1, <3>1, <3>2, <3>3 DEF Range, StacksInv, Once
  <2>10. ASSUME NEW i, Moved(redoStack, undoStack, redoStack', undoStack', "redo", i),
                apply_history_entry(redoStack[i], "redo")
         PROVE  redoStack[i] = e /\ direction = "redo"
    <3>1. i \in DOMAIN redoStack /\ entries' = Append(entries, LogEntry("redo", redoStack[i].id))
      BY <2>10 DEF Moved
    <3>2. e.id = redoStack[i].id /\ direction = "redo"
      BY <2>1, <2>4, <3>1 DEF LogEntry
    <3>3. e \in Range(redoStack)
      BY <2>8, <3>1, <3>2 DEF Range, StackIds
    <3> QED BY <2>1, <3>1, <3>2, <3>3 DEF Range, StacksInv, Once
  <2> QED BY <2>2, <2>6, <2>7, <2>9, <2>10 DEF HistoryMove
<1>2. HistoryInv /\ [Next]_vars => [A]_vars
  BY <1>1
<1> QED BY <1>2, HistoryInvariant, PTL DEF Spec, UndoKeepsOthersWork

----------------------------------------------------------------------------
(* Clients: what the revision a client holds says.                         *)

\* The snapshot of a client is of this load or an earlier one; one of this
\* load is not ahead, and with an equal revision it is of the same graph.
SnapshotInv ==
    /\ epoch \in Nat
    /\ \A c \in Clients : seen[c] # NoSnapshot =>
         /\ seen[c].epoch \in Nat /\ seen[c].epoch <= epoch
         /\ seen[c].project \in Project
         /\ seen[c].bindings = derive_runtime_binding_formats(seen[c].project.graph)
         /\ seen[c].epoch = epoch /\ Loaded =>
              /\ seen[c].project.graph.rev <= project.graph.rev
              /\ seen[c].project.graph.rev = project.graph.rev
                 => seen[c].project.graph = project.graph
ClientInv == DocumentInv /\ SnapshotInv

LEMMA ClientInvInit == ClientInit => ClientInv
<1> SUFFICES ASSUME ClientInit PROVE ClientInv
  OBVIOUS
<1>1. SnapshotInv
  BY DEF ClientInit, SnapshotInv
<1> QED BY <1>1, DocumentInvInit DEF ClientInit, ClientInv

\* Edits by whomever are edits of the session.
LEMMA ClientSessionStep ==
    ASSUME DocumentInv, ClientNext
    PROVE  \/ Replaced /\ (NewEdit \/ HistoryMove) /\ UNCHANGED <<seen, epoch>>
           \/ StartedOver /\ epoch' = epoch + 1 /\ seen' = seen
           \/ \E c \in Clients : ReadSnapshot(c)
<1>1. ASSUME NEW actor \in Actors, NEW t, NEW base, Edit(actor, t, base)
      PROVE  Replaced /\ NewEdit
  <2>1. Loaded
    BY <1>1 DEF Edit, ObjectEdit, apply_object_node_create, apply_object_node_replace,
                apply_node_update, apply_node_delete, apply_change_set, paste_graph_fragment, TargetAt
  <2>2. project \in Covered /\ viewRevision \in Nat /\ defs \in SUBSET Contents
    BY <2>1, SessionCovered DEF DocumentInv, SessionTypeOK
  <2>3. DocumentUpdate(actor)
    BY <1>1, <2>2, EditUpdates
  <2> QED BY <2>2, <2>3, UpdateStep
<1>2. ASSUME NEW c \in Clients, SubmitViewPatch(c) \/ \E t \in Targets : SubmitEdit(c, t)
      PROVE  Replaced /\ NewEdit /\ UNCHANGED <<seen, epoch>>
  BY <1>1, <1>2, PatchStep, ClientsAssumption DEF SubmitViewPatch, SubmitEdit
<1>3. ASSUME OtherEdit PROVE Replaced /\ NewEdit /\ UNCHANGED <<seen, epoch>>
  BY <1>1, <1>3, PatchStep DEF OtherEdit
<1>4. ASSUME Reload PROVE StartedOver /\ epoch' = epoch + 1 /\ seen' = seen
  BY <1>4, LoadStep, ClearStep DEF Reload
<1> QED BY <1>2, <1>3, <1>4, UndoRedoStep DEF ClientNext

LEMMA ClientInvStep == ClientInv /\ [ClientNext]_clientVars => ClientInv'
<1> SUFFICES ASSUME ClientInv, [ClientNext]_clientVars PROVE ClientInv'
  OBVIOUS
<1>1. DocumentInv /\ SnapshotInv
  BY DEF ClientInv
<1>2. DocumentInv'
  <2>1. CASE UNCHANGED vars
    BY <1>1, <2>1, DocumentInvStep
  <2>2. CASE \E c \in Clients : ReadSnapshot(c)
    BY <1>1, <2>2, DocumentInvStep DEF ReadSnapshot
  <2>3. CASE ClientNext /\ ~ \E c \in Clients : ReadSnapshot(c)
    <3>1. StartedOver \/ (Replaced /\ (NewEdit \/ HistoryMove))
      BY <1>1, <2>3, ClientSessionStep
    <3> QED BY <1>1, <3>1, DocumentInvKept
  <2> QED BY <2>1, <2>2, <2>3 DEF clientVars
<1>3. ASSUME Replaced, UNCHANGED <<seen, epoch>> PROVE SnapshotInv'
  <2>1. project \in Project /\ project' \in Project /\ Loaded
    BY <1>3, ProjectFields DEF Replaced, Covered, Loaded
  <2>2. project.graph.rev \in Nat /\ project'.graph.rev \in Nat
    BY <2>1, ProjectFields, GraphFields
  <2>3. project'.graph.rev = project.graph.rev + 1 \/ project'.graph = project.graph
    BY <1>3 DEF Replaced, RootMoves
  <2> SUFFICES ASSUME NEW c \in Clients, seen[c] # NoSnapshot, seen[c].epoch = epoch
               PROVE  /\ seen[c].project.graph.rev <= project'.graph.rev
                      /\ seen[c].project.graph.rev = project'.graph.rev
                         => seen[c].project.graph = project'.graph
    BY <1>1, <1>3 DEF SnapshotInv
  <2>4. /\ seen[c].project.graph.rev <= project.graph.rev
        /\ seen[c].project.graph.rev = project.graph.rev => seen[c].project.graph = project.graph
        /\ seen[c].project \in Project
    BY <1>1, <2>1 DEF SnapshotInv
  <2>5. seen[c].project.graph.rev \in Nat
    BY <2>4, ProjectFields, GraphFields
  <2> QED BY <2>2, <2>3, <2>4, <2>5
<1>4. ASSUME epoch' = epoch + 1, seen' = seen PROVE SnapshotInv'
  BY <1>1, <1>4 DEF SnapshotInv
<1>5. ASSUME NEW c \in Clients, ReadSnapshot(c) PROVE SnapshotInv'
  <2>1. /\ Loaded /\ project \in Project /\ project' = project /\ epoch' = epoch
        /\ seen' = [seen EXCEPT ![c] = snapshot]
    BY <1>1, <1>5 DEF ReadSnapshot, vars, Loaded, DocumentInv, SessionTypeOK
  <2>2. project.graph.rev \in Nat
    BY <2>1, ProjectFields, GraphFields
  <2>3. /\ snapshot.project = project /\ snapshot.epoch = epoch
        /\ snapshot.bindings = derive_runtime_binding_formats(project.graph)
    BY DEF snapshot
  <2> SUFFICES ASSUME NEW d \in Clients, seen'[d] # NoSnapshot
               PROVE  /\ seen'[d].epoch \in Nat /\ seen'[d].epoch <= epoch
                      /\ seen'[d].project \in Project
                      /\ seen'[d].bindings = derive_runtime_binding_formats(seen'[d].project.graph)
                      /\ seen'[d].epoch = epoch =>
                           /\ seen'[d].project.graph.rev <= project.graph.rev
                           /\ seen'[d].project.graph.rev = project.graph.rev
                              => seen'[d].project.graph = project.graph
    BY <1>1, <2>1 DEF SnapshotInv
  <2>4. seen'[d] = seen[d] \/ seen'[d] = snapshot
    BY <2>1
  <2>5. CASE seen'[d] = seen[d]
    BY <1>1, <2>1, <2>5 DEF SnapshotInv
  <2>6. CASE seen'[d] = snapshot
    BY <1>1, <2>1, <2>2, <2>3, <2>6 DEF SnapshotInv
  <2> QED BY <2>4, <2>5, <2>6
<1>6. ASSUME UNCHANGED clientVars PROVE SnapshotInv'
  BY <1>1, <1>6 DEF clientVars, vars, SnapshotInv, Loaded
<1>7. SnapshotInv'
  BY <1>1, <1>3, <1>4, <1>5, <1>6, ClientSessionStep
<1> QED BY <1>2, <1>7 DEF ClientInv

THEOREM ClientInvariant == ClientSpec => []ClientInv
BY ClientInvInit, ClientInvStep, PTL DEF ClientSpec

\* A client whose root revision is current knows the current root graph and
\* its value formats, so an edit based on it is never applied to another graph.
THEOREM ClientsRootRevisionNamesGraph == ClientSpec => []RootRevisionNamesGraph
<1>1. ClientInv => RootRevisionNamesGraph
  BY DEF ClientInv, SnapshotInv, RootRevisionNamesGraph, Comparable
<1> QED BY <1>1, ClientInvariant, PTL
=============================================================================
