--------------------------- MODULE ControlProofs ---------------------------
(***************************************************************************)
(* Theorems about ControlState, for any graphs, requests, ranges of the    *)
(* representations and limits.                                             *)
(***************************************************************************)
EXTENDS ControlState, TLAPS, WellFoundedInduction

-----------------------------------------------------------------------------
(* Sequences.                                                              *)

IsSeq(s) == s \in Seq(ToSet(s))

LEMMA SeqIsSeq ==
    ASSUME NEW S, NEW s \in Seq(S)
    PROVE  /\ IsSeq(s) /\ ToSet(s) \subseteq S
           /\ \A x : x \in ToSet(s) <=> \E i \in 1..Len(s) : s[i] = x
<1>1. DOMAIN s = 1..Len(s) /\ Len(s) \in Nat /\ s = [i \in 1..Len(s) |-> s[i]]
  OBVIOUS
<1>2. \A i \in 1..Len(s) : s[i] \in ToSet(s)
  BY <1>1 DEF ToSet
<1>3. s \in Seq(ToSet(s))
  BY <1>1, <1>2
<1>4. ToSet(s) \subseteq S
  BY <1>1 DEF ToSet
<1>5. \A x : x \in ToSet(s) <=> \E i \in 1..Len(s) : s[i] = x
  BY <1>1 DEF ToSet
<1> QED BY <1>3, <1>4, <1>5 DEF IsSeq

LEMMA NothingIn ==
    ToSet(<<>>) = {} /\ IsSeq(<<>>)
<1>1. ToSet(<<>>) = {}
  BY DEF ToSet
<1>2. <<>> \in Seq({})
  OBVIOUS
<1> QED BY <1>1, <1>2 DEF IsSeq

LEMMA OneIn ==
    ASSUME NEW x
    PROVE  ToSet(<<x>>) = {x} /\ IsSeq(<<x>>) /\ <<x>> # <<>>
<1>1. <<x>> \in Seq({x}) /\ Len(<<x>>) = 1 /\ <<x>>[1] = x
  OBVIOUS
<1>2. IsSeq(<<x>>) /\ ToSet(<<x>>) \subseteq {x}
  BY <1>1, SeqIsSeq
<1>3. 1 \in 1..Len(<<x>>)
  BY <1>1
<1>4. x \in ToSet(<<x>>)
  BY <1>1, <1>3, SeqIsSeq
<1>5. <<x>> # <<>>
  OBVIOUS
<1> QED BY <1>2, <1>4, <1>5

LEMMA JoinFacts ==
    ASSUME NEW s, NEW t, IsSeq(s), IsSeq(t)
    PROVE  IsSeq(s \o t) /\ ToSet(s \o t) = ToSet(s) \cup ToSet(t)
<1> DEFINE S == ToSet(s) \cup ToSet(t)
<1>1. s \in Seq(S) /\ t \in Seq(S)
  BY DEF IsSeq
<1> HIDE DEF S
<1>2. /\ s \o t \in Seq(S) /\ Len(s \o t) = Len(s) + Len(t)
      /\ Len(s) \in Nat /\ Len(t) \in Nat
      /\ \A i \in 1..Len(s) : (s \o t)[i] = s[i]
      /\ \A i \in 1..Len(t) : (s \o t)[Len(s) + i] = t[i]
  BY <1>1
<1>3. ASSUME NEW x PROVE x \in ToSet(s \o t) <=> x \in ToSet(s) \/ x \in ToSet(t)
  <2>1. ASSUME x \in ToSet(s \o t) PROVE x \in ToSet(s) \/ x \in ToSet(t)
    <3>1. PICK i \in 1..Len(s) + Len(t) : (s \o t)[i] = x
      <4>1. \E i \in 1..Len(s \o t) : (s \o t)[i] = x
        BY <1>2, <2>1, SeqIsSeq
      <4> QED BY <1>2, <4>1
    <3>2. CASE i \in 1..Len(s)
      BY <1>1, <1>2, <3>1, <3>2, SeqIsSeq
    <3>3. CASE i \notin 1..Len(s)
      <4>1. i - Len(s) \in 1..Len(t) /\ Len(s) + (i - Len(s)) = i
        BY <1>2, <3>1, <3>3
      <4>2. t[i - Len(s)] = x
        BY <1>2, <3>1, <4>1
      <4> QED BY <1>1, <4>1, <4>2, SeqIsSeq
    <3> QED BY <3>2, <3>3
  <2>2. ASSUME x \in ToSet(s) PROVE x \in ToSet(s \o t)
    <3>1. PICK i \in 1..Len(s) : s[i] = x
      BY <1>1, <2>2, SeqIsSeq
    <3>2. i \in 1..Len(s \o t) /\ (s \o t)[i] = x
      BY <1>2, <3>1
    <3> QED BY <1>2, <3>2, SeqIsSeq
  <2>3. ASSUME x \in ToSet(t) PROVE x \in ToSet(s \o t)
    <3>1. PICK i \in 1..Len(t) : t[i] = x
      BY <1>1, <2>3, SeqIsSeq
    <3>2. Len(s) + i \in 1..Len(s \o t) /\ (s \o t)[Len(s) + i] = x
      BY <1>2, <3>1
    <3> QED BY <1>2, <3>2, SeqIsSeq
  <2> QED BY <2>1, <2>2, <2>3
<1> QED BY <1>2, <1>3, SeqIsSeq

LEMMA TailFacts ==
    ASSUME NEW s, IsSeq(s), s # <<>>
    PROVE  IsSeq(Tail(s)) /\ ToSet(s) = ToSet(Tail(s)) \cup {Head(s)}
<1> DEFINE S == ToSet(s)
<1>1. s \in Seq(S)
  BY DEF IsSeq
<1> HIDE DEF S
<1>2. /\ Tail(s) \in Seq(S) /\ Len(Tail(s)) = Len(s) - 1 /\ Head(s) = s[1]
      /\ Len(s) \in Nat /\ Len(s) >= 1
      /\ \A i \in 1..Len(s) - 1 : Tail(s)[i] = s[i + 1]
  BY <1>1
<1>3. ASSUME NEW x PROVE x \in ToSet(s) <=> x \in ToSet(Tail(s)) \/ x = Head(s)
  <2>1. ASSUME x \in ToSet(s), x # Head(s) PROVE x \in ToSet(Tail(s))
    <3>1. PICK i \in 1..Len(s) : s[i] = x
      BY <1>1, <2>1, SeqIsSeq
    <3>2. i - 1 \in 1..Len(Tail(s)) /\ Tail(s)[i - 1] = x
      BY <1>2, <2>1, <3>1
    <3> QED BY <1>2, <3>2, SeqIsSeq
  <2>2. ASSUME x \in ToSet(Tail(s)) PROVE x \in ToSet(s)
    <3>1. PICK i \in 1..Len(s) - 1 : Tail(s)[i] = x
      <4>1. \E i \in 1..Len(Tail(s)) : Tail(s)[i] = x
        BY ZenonT(40), <1>2, <2>2, SeqIsSeq
      <4> QED BY <1>2, <4>1
    <3>2. i + 1 \in 1..Len(s) /\ s[i + 1] = x
      BY <1>2, <3>1
    <3> QED BY <1>1, <3>2, SeqIsSeq
  <2>3. Head(s) \in ToSet(s)
    <3>1. 1 \in 1..Len(s) /\ s[1] = Head(s)
      BY <1>2
    <3> QED BY <1>1, <3>1, SeqIsSeq
  <2> QED BY <2>1, <2>2, <2>3
<1> QED BY <1>2, <1>3, SeqIsSeq

LEMMA FrontFacts ==
    ASSUME NEW s, IsSeq(s), s # <<>>
    PROVE  IsSeq(Front(s)) /\ ToSet(s) = ToSet(Front(s)) \cup {Last(s)}
<1> DEFINE S == ToSet(s)
<1>1. s \in Seq(S)
  BY DEF IsSeq
<1> HIDE DEF S
<1>2. /\ Len(s) \in Nat /\ Len(s) >= 1 /\ Last(s) = s[Len(s)]
  BY <1>1 DEF Last
<1>3. Front(s) = SubSeq(s, 1, Len(s) - 1)
  BY DEF Front
<1>4. /\ Front(s) \in Seq(S) /\ Len(Front(s)) = Len(s) - 1
      /\ \A i \in 1..Len(s) - 1 : Front(s)[i] = s[i]
  <2> DEFINE n == Len(s) - 1
  <2>1. n \in Nat /\ n <= Len(s) /\ \A i \in 1..n : i \in 1..Len(s)
    BY <1>2
  <2>2. \A i \in 1..n : s[i] \in S
    BY <1>1, <2>1
  <2>3. Front(s) = [i \in 1..n |-> s[i]]
    <3>1. Front(s) = [i \in 1..n |-> s[i + 1 - 1]]
      BY <1>3, <2>1
    <3>2. \A i \in 1..n : i + 1 - 1 = i
      OBVIOUS
    <3> QED BY <3>1, <3>2
  <2> HIDE DEF n
  <2>4. Front(s) \in Seq(S) /\ Len(Front(s)) = n
    BY <2>1, <2>2, <2>3
  <2> QED BY <2>3, <2>4 DEF n
<1>5. ASSUME NEW x PROVE x \in ToSet(s) <=> x \in ToSet(Front(s)) \/ x = Last(s)
  <2>1. ASSUME x \in ToSet(s), x # Last(s) PROVE x \in ToSet(Front(s))
    <3>1. PICK i \in 1..Len(s) : s[i] = x
      BY <1>1, <2>1, SeqIsSeq
    <3>2. i \in 1..Len(Front(s)) /\ Front(s)[i] = x
      BY <1>2, <1>4, <2>1, <3>1
    <3> QED BY <1>4, <3>2, SeqIsSeq
  <2>2. ASSUME x \in ToSet(Front(s)) PROVE x \in ToSet(s)
    <3>1. PICK i \in 1..Len(s) - 1 : Front(s)[i] = x
      <4>1. \E i \in 1..Len(Front(s)) : Front(s)[i] = x
        BY <1>4, <2>2, SeqIsSeq
      <4> QED BY <1>4, <4>1
    <3>2. i \in 1..Len(s) /\ s[i] = x
      BY <1>2, <1>4, <3>1
    <3> QED BY <1>1, <3>2, SeqIsSeq
  <2>3. Last(s) \in ToSet(s)
    <3>1. Len(s) \in 1..Len(s)
      BY <1>2
    <3> QED BY <1>1, <1>2, <3>1, SeqIsSeq
  <2> QED BY <2>1, <2>2, <2>3
<1> QED BY <1>4, <1>5, SeqIsSeq

\* A function on an initial segment of the naturals.
LEMMA MapFacts ==
    ASSUME NEW n \in Nat, NEW f, f = [i \in 1..n |-> f[i]]
    PROVE  IsSeq(f) /\ \A x : x \in ToSet(f) <=> \E i \in 1..n : f[i] = x
<1>1. DOMAIN f = 1..n
  OBVIOUS
<1>2. \A i \in 1..n : f[i] \in ToSet(f)
  BY <1>1 DEF ToSet
<1>3. f \in Seq(ToSet(f))
  BY <1>2
<1>4. \A x : x \in ToSet(f) <=> \E i \in 1..n : f[i] = x
  BY <1>1 DEF ToSet
<1> QED BY <1>3, <1>4 DEF IsSeq

-----------------------------------------------------------------------------
(* The elements at the given places of a sequence.                         *)

\* A set with 0 that is closed under successor holds every natural number.
LEMMA NatSetInduction ==
    ASSUME NEW S, 0 \in S, \A n \in Nat : n \in S => n + 1 \in S
    PROVE  Nat \subseteq S
<1> SUFFICES ASSUME Nat \ S # {} PROVE FALSE
  OBVIOUS
<1>1. \E x \in Nat \ S : \A y \in Nat \ S : <<y, x>> \notin OpToRel(<, Nat)
  BY NatLessThanWellFounded, WFMin
<1>2. PICK x \in Nat \ S : \A y \in Nat \ S : ~ (y < x)
  BY <1>1 DEF OpToRel
<1>3. x # 0 /\ x - 1 \in Nat /\ x - 1 < x
  BY <1>2
<1>4. x - 1 \in S
  BY <1>2, <1>3
<1> QED BY <1>2, <1>3, <1>4

\* At is what its recursive equation says.
LEMMA AtStep ==
    ASSUME NEW S, NEW s \in Seq(S), NEW places
    PROVE  \E kept :
             /\ At(s, places) = kept[Len(s)]
             /\ kept[0] = <<>>
             /\ \A i \in 1 .. Len(s) :
                  kept[i] = IF i \in places THEN Append(kept[i - 1], s[i]) ELSE kept[i - 1]
<1> DEFINE Next_(x, i) == IF i \in places THEN Append(x, s[i]) ELSE x
           Rounds(f, n) == f = [i \in 0 .. n |-> IF i = 0 THEN <<>> ELSE Next_(f[i - 1], i)]
           Defined == {n \in Nat : \E f : Rounds(f, n)}
<1>1. 0 \in Defined
  <2>1. Rounds([i \in 0 .. 0 |-> <<>>], 0)
    OBVIOUS
  <2> QED BY <2>1
<1>2. ASSUME NEW n \in Nat, n \in Defined PROVE n + 1 \in Defined
  <2>1. PICK f : Rounds(f, n)
    BY <1>2
  <2> DEFINE h == [i \in 0 .. n + 1 |-> IF i \in 0 .. n THEN f[i] ELSE Next_(f[n], n + 1)]
  <2>2. \A i \in 0 .. n : h[i] = f[i] /\ f[i] = IF i = 0 THEN <<>> ELSE Next_(f[i - 1], i)
    <3>1. ASSUME NEW i \in 0 .. n PROVE f[i] = IF i = 0 THEN <<>> ELSE Next_(f[i - 1], i)
      <4> HIDE DEF Next_
      <4> QED BY <2>1
    <3>2. ASSUME NEW i \in 0 .. n PROVE h[i] = f[i]
      <4> i \in 0 .. n + 1
        OBVIOUS
      <4> HIDE DEF Next_
      <4> QED OBVIOUS
    <3> HIDE DEF Next_, h
    <3> QED BY <3>1, <3>2
  <2>3. h[n + 1] = Next_(f[n], n + 1) /\ h[n] = f[n]
    <3> HIDE DEF Next_
    <3> QED OBVIOUS
  <2>4. ASSUME NEW i \in 0 .. n + 1 PROVE h[i] = IF i = 0 THEN <<>> ELSE Next_(h[i - 1], i)
    <3> HIDE DEF Next_, h
    <3>1. CASE i = n + 1
      <4>1. i # 0 /\ i - 1 = n
        BY <3>1
      <4> QED BY <3>1, <4>1, <2>3
    <3>2. CASE i # n + 1 /\ i # 0
      <4>1. i \in 0 .. n /\ i - 1 \in 0 .. n
        BY <3>2
      <4>2. h[i - 1] = f[i - 1] /\ h[i] = f[i]
        BY <4>1, <2>2
      <4>3. f[i] = Next_(f[i - 1], i)
        BY <4>1, <2>2, <3>2
      <4> QED BY <4>2, <4>3, <3>2
    <3>3. CASE i = 0
      <4>1. i \in 0 .. n
        BY <3>3
      <4> QED BY <4>1, <3>3, <2>2
    <3> QED BY <3>1, <3>2, <3>3
  <2>5. Rounds(h, n + 1)
    <3>1. \A i \in 0 .. n + 1 : h[i] = IF i = 0 THEN <<>> ELSE Next_(h[i - 1], i)
      BY <2>4
    <3> HIDE DEF Next_
    <3> QED BY <3>1
  <2> HIDE DEF h, Rounds
  <2> QED BY <2>5
<1>3. PICK f : Rounds(f, Len(s)) /\ At(s, places) = f[Len(s)]
  <2>1. Len(s) \in Defined
    <3> HIDE DEF Defined
    <3>1. Nat \subseteq Defined
      BY <1>1, <1>2, NatSetInduction
    <3> QED BY <3>1
  <2> DEFINE F == CHOOSE f : Rounds(f, Len(s))
  <2>2. Rounds(F, Len(s))
    BY <2>1
  <2>3. At(s, places) = F[Len(s)]
    BY DEF At
  <2> QED BY <2>2, <2>3
<1>4. f[0] = <<>>
  BY <1>3
<1>5. ASSUME NEW i \in 1 .. Len(s) PROVE f[i] = Next_(f[i - 1], i)
  <2> i \in 0 .. Len(s) /\ i # 0
    OBVIOUS
  <2> HIDE DEF Next_
  <2> QED BY <1>3
<1> QED BY <1>3, <1>4, <1>5

\* At keeps exactly the elements at the places.
LEMMA AtFacts ==
    ASSUME NEW s, IsSeq(s), NEW places
    PROVE  /\ IsSeq(At(s, places)) /\ Len(At(s, places)) \in Nat
           /\ \A i \in 1..Len(At(s, places)) : \E k \in 1..Len(s) : k \in places /\ At(s, places)[i] = s[k]
           /\ \A k \in 1..Len(s) : k \in places => \E i \in 1..Len(At(s, places)) : At(s, places)[i] = s[k]
<1> DEFINE S == ToSet(s)
<1>0. s \in Seq(S)
  BY DEF IsSeq
<1> HIDE DEF S
<1>1. PICK kept :
        /\ At(s, places) = kept[Len(s)]
        /\ kept[0] = <<>>
        /\ \A i \in 1 .. Len(s) :
             kept[i] = IF i \in places THEN Append(kept[i - 1], s[i]) ELSE kept[i - 1]
  BY <1>0, AtStep
<1> DEFINE Sound(n) == \A i \in 1..Len(kept[n]) : \E k \in 1..n : k \in places /\ kept[n][i] = s[k]
           Complete(n) == \A k \in 1..n : k \in places => \E i \in 1..Len(kept[n]) : kept[n][i] = s[k]
           Good == {n \in Nat : n <= Len(s) => kept[n] \in Seq(S) /\ Sound(n) /\ Complete(n)}
<1>2. 0 \in Good
  <2>1. kept[0] \in Seq(S) /\ Len(kept[0]) = 0
    BY <1>1
  <2> QED BY <2>1
<1>3. ASSUME NEW n \in Nat, n \in Good PROVE n + 1 \in Good
  <2> SUFFICES ASSUME n + 1 <= Len(s)
               PROVE  kept[n + 1] \in Seq(S) /\ Sound(n + 1) /\ Complete(n + 1)
    OBVIOUS
  <2>1. n + 1 \in 1 .. Len(s) /\ (n + 1) - 1 = n /\ s[n + 1] \in S /\ n <= Len(s)
    BY <1>0
  <2>2. kept[n] \in Seq(S) /\ Sound(n) /\ Complete(n)
    BY <1>3, <2>1
  <2>3. kept[n + 1] = IF n + 1 \in places THEN Append(kept[n], s[n + 1]) ELSE kept[n]
    BY <1>1, <2>1
  <2>4. \A k \in 1..n + 1 : k = n + 1 \/ k \in 1..n
    OBVIOUS
  <2>5. \A k \in 1..n : k \in 1..n + 1
    OBVIOUS
  <2>6. CASE n + 1 \in places
    <3>1. kept[n + 1] = Append(kept[n], s[n + 1])
      BY <2>3, <2>6
    <3>2. /\ kept[n + 1] \in Seq(S) /\ Len(kept[n + 1]) = Len(kept[n]) + 1 /\ Len(kept[n]) \in Nat
          /\ \A i \in 1..Len(kept[n]) : kept[n + 1][i] = kept[n][i]
          /\ kept[n + 1][Len(kept[n]) + 1] = s[n + 1]
      BY <2>1, <2>2, <3>1
    <3>3. ASSUME NEW i \in 1..Len(kept[n + 1])
          PROVE  \E k \in 1..n + 1 : k \in places /\ kept[n + 1][i] = s[k]
      <4>1. CASE i \in 1..Len(kept[n])
        BY <2>2, <2>5, <3>2, <4>1
      <4>2. CASE i \notin 1..Len(kept[n])
        <5>1. i = Len(kept[n]) + 1 /\ n + 1 \in 1..n + 1
          BY <3>2, <3>3, <4>2
        <5> QED BY <2>6, <3>2, <5>1
      <4> QED BY <4>1, <4>2
    <3>4. ASSUME NEW k \in 1..n + 1, k \in places
          PROVE  \E i \in 1..Len(kept[n + 1]) : kept[n + 1][i] = s[k]
      <4>1. CASE k \in 1..n
        <5>1. PICK i \in 1..Len(kept[n]) : kept[n][i] = s[k]
          BY <2>2, <3>4, <4>1
        <5>2. i \in 1..Len(kept[n + 1]) /\ kept[n + 1][i] = s[k]
          BY <3>2, <5>1
        <5> QED BY <5>2
      <4>2. CASE k = n + 1
        <5>1. Len(kept[n]) + 1 \in 1..Len(kept[n + 1])
          BY <3>2
        <5> QED BY <3>2, <4>2, <5>1
      <4> QED BY <2>4, <4>1, <4>2
    <3> QED BY <3>2, <3>3, <3>4
  <2>7. CASE n + 1 \notin places
    <3>1. kept[n + 1] = kept[n]
      BY <2>3, <2>7
    <3>2. Sound(n + 1)
      BY <2>2, <2>5, <3>1
    <3>3. Complete(n + 1)
      BY <2>2, <2>4, <2>7, <3>1
    <3> QED BY <2>2, <3>1, <3>2, <3>3
  <2> QED BY <2>6, <2>7
<1>4. Len(s) \in Good
  <2>1. Len(s) \in Nat
    BY <1>0
  <2> HIDE DEF Good
  <2>2. Nat \subseteq Good
    BY <1>2, <1>3, NatSetInduction
  <2> QED BY <2>1, <2>2
<1>5. At(s, places) \in Seq(S) /\ Sound(Len(s)) /\ Complete(Len(s)) /\ At(s, places) = kept[Len(s)]
  BY <1>0, <1>1, <1>4
<1>6. IsSeq(At(s, places)) /\ Len(At(s, places)) \in Nat
  BY <1>5, SeqIsSeq
<1> QED BY <1>5, <1>6

-----------------------------------------------------------------------------
(* The inductive invariant.                                                *)

\* The value is one that the object of this name may hold.
Keeps(g, id, value) == KeptBy(NodeOf(g, id), value)

ValuesOK(g, st) ==
  /\ DOMAIN st = {"values", "right", "channels"}
  /\ DOMAIN st.values = DOMAIN from_graph(g).values
  /\ \A id \in DOMAIN st.values : Keeps(g, id, st.values[id])

ShapeInv ==
  /\ graph \in Graphs
  /\ ValuesOK(graph, state) /\ ValuesOK(graph, staged)
  /\ IsSeq(stack) /\ IsSeq(pending)
  /\ \A e \in ToSet(stack) : e.node \in NodeIds(graph)
  /\ busy \in BOOLEAN
  /\ ~busy => stack = <<>> /\ pending = <<>> /\ emitted = <<>>

\* Objects fed by a channel alone.
Receiver(id) ==
  /\ IsNumeric(id) /\ "in" \in NodeOf(graph, id).inputs /\ EdgesInto(id) = {} /\ ~Addressed(id)
  /\ NodeOf(graph, id).receive # "" /\ NodeOf(graph, id).send # NodeOf(graph, id).receive

Default(id) == for_node_default(NodeOf(graph, id))

Sources(st, name) == {key \in DOMAIN st.channels : key[2] = name /\ key[1] \in NumericKinds}

\* An object of a representation nothing converts to keeps its parameter.
Stuck(id) == value_from_message(Message("int", <<int(0)>>), Default(id)) = <<>>

Followed(st, id) ==
  IF Stuck(id) THEN st.values[id] = Default(id)
  ELSE \/ st.values[id] = Default(id) /\ Sources(st, NodeOf(graph, id).receive) = {}
       \/ \E key \in Sources(st, NodeOf(graph, id).receive) :
            value_from_message(st.channels[key], Default(id)) = <<st.values[id]>>

\* A delivery of the newest message of a numeric channel.
Routed(d, id, st) ==
  LET kind == data_kind_for_control_message(d.message)
      key == <<kind, NodeOf(graph, id).receive>>
  IN /\ d.named /\ d.to = <<id, "in">>
     /\ kind \in NumericKinds
     /\ key \in DOMAIN st.channels /\ st.channels[key] = d.message

Routes(id, st, pend) ==
  /\ \A d \in ToSet(pend) : d.to[1] = id => Routed(d, id, st)
  /\ \/ Followed(st, id)
     \/ ~Stuck(id) /\ \E d \in ToSet(pend) : d.to[1] = id

ReceiverInv ==
  \A id \in NodeIds(graph) : Receiver(id) =>
    /\ Followed(state, id)
    /\ busy => Routes(id, staged, pending)

\* Objects fed by one edge alone.
Target(i) ==
  LET id == graph.edges[i].to[1] IN
  /\ graph.edges[i].to[2] \in {"in", "cold"}
  /\ IsNumeric(id) /\ EdgesInto(id) = {i} /\ ~Addressed(id)
  /\ NodeOf(graph, id).receive = ""

From(i) == graph.edges[i].from
Into(i) == graph.edges[i].to[1]

Holds(m, value) == is_bang_message(m) \/ value_from_message(m, value) = <<value>>

\* A value is what the newest message told for the source asks for.
Agrees(i, st, told) ==
  IF From(i) \notin DOMAIN told THEN st.values[Into(i)] = Default(Into(i))
  ELSE \A j \in 1..Len(told[From(i)]) : Holds(told[From(i)][j], st.values[Into(i)])

Waits(i, stk) == \E e \in ToSet(stk) : Output(e) = From(i)
Comes(i, pend) == \E d \in ToSet(pend) : d.to[1] = Into(i)

\* The newest message is on the stack, on its way or delivered.
Reaches(i, m, st, stk, pend) ==
  /\ \A e \in ToSet(stk) : Output(e) = From(i) => e.message = m
  /\ ~Waits(i, stk) =>
       /\ \A d \in ToSet(pend) : d.to[1] = Into(i) => d.message = m
       /\ ~Comes(i, pend) => Holds(m, st.values[Into(i)])

Carries(i, before, st, stk, pend, told) ==
  /\ From(i) \notin DOMAIN told =>
       ~Waits(i, stk) /\ ~Comes(i, pend) /\ st.values[Into(i)] = before.values[Into(i)]
  /\ From(i) \in DOMAIN told =>
       \A j \in 1..Len(told[From(i)]) : Reaches(i, told[From(i)][j], st, stk, pend)
  /\ \A d \in ToSet(pend) : d.to[1] = Into(i) => ~d.named

TargetInv ==
  \A i \in 1..Len(graph.edges) : Target(i) =>
    /\ Agrees(i, state, reported)
    /\ busy => Carries(i, state, staged, stack, pending, emitted)

ControlInv == ShapeInv /\ ReceiverInv /\ TargetInv
-----------------------------------------------------------------------------
(* Conversions.                                                            *)

LEMMA SanitizeFacts ==
    ASSUME NEW x
    PROVE  sanitize(x) \in -MaxFloat..MaxFloat /\ sanitize(x) \in Int
<1>1. 0 \in -MaxFloat..MaxFloat
  BY NumbersAssumption
<1>2. -MaxFloat..MaxFloat \subseteq Int
  BY NumbersAssumption
<1> QED BY <1>1, <1>2 DEF sanitize

LEMMA ClampFacts ==
    ASSUME NEW x \in Int, NEW a \in Int, NEW b \in Int, a <= b
    PROVE  Clamp(x, a, b) \in a..b
BY DEF Clamp

LEMMA TruncFacts ==
    ASSUME NEW x \in Int
    PROVE  Trunc(x) \in Int
<1>1. \A y \in Int : y \div 2 \in Int
  OBVIOUS
<1>2. -x \in Int
  OBVIOUS
<1> QED BY <1>1, <1>2 DEF Trunc

\* A quantised float is in the range of its representation, or infinite where
\* that is narrow.
LEMMA QuantizeFacts ==
    ASSUME NEW x \in -MaxFloat..MaxFloat, NEW rep,
           NEW v, v = <<"float", rep, quantize_float(x, rep)>>
    PROVE  Storable(v)
<1> DEFINE least == Least(rep)
           greatest == Greatest(rep)
           floored == IF x < least THEN least ELSE x
           y == quantize_float(x, rep)
<1>1. x \in Int /\ MaxFloat \in Nat /\ -MaxFloat <= x /\ x <= MaxFloat
  BY NumbersAssumption
<1>2. least \in Int /\ least <= 0 /\ -MaxFloat <= least /\ (rep \in Unsigned => least = 0)
  BY <1>1 DEF Least
<1>3. /\ greatest \in Int /\ 0 <= greatest /\ greatest <= MaxFloat
      /\ rep \notin DOMAIN FloatMax => greatest = MaxFloat
  <2>1. CASE rep \in DOMAIN FloatMax
    <3>1. FloatMax[rep] \in 0..MaxFloat
      BY <2>1, NumbersAssumption
    <3> QED BY <1>1, <2>1, <3>1 DEF Greatest
  <2>2. CASE rep \notin DOMAIN FloatMax
    BY <1>1, <2>2 DEF Greatest
  <2> QED BY <2>1, <2>2
<1>4. Type(v) = "float" /\ Rep(v) = rep /\ Content(v) = y
  BY DEF Type, Rep, Content
<1>5. \/ floored \in -greatest..greatest /\ y = floored
      \/ floored \notin -greatest..greatest /\ floored > greatest /\ y = Infinity
      \/ floored \notin -greatest..greatest /\ ~(floored > greatest) /\ y = -Infinity
  BY DEF quantize_float
<1> HIDE DEF least, greatest, y
<1>6. floored \in Int /\ least <= floored /\ -MaxFloat <= floored /\ floored <= MaxFloat
  BY <1>1, <1>2
<1> HIDE DEF floored
<1>7. CASE floored \in -greatest..greatest /\ y = floored
  BY <1>4, <1>6, <1>7 DEF Storable, InRange, least, greatest
<1>8. CASE floored > greatest /\ y = Infinity
  <2>1. rep \in DOMAIN FloatMax
    BY <1>1, <1>3, <1>6, <1>8
  <2> QED BY <1>4, <1>8, <2>1 DEF Storable, Overflowed
<1>9. CASE floored \notin -greatest..greatest /\ ~(floored > greatest) /\ y = -Infinity
  <2>1. floored < -greatest
    BY <1>3, <1>6, <1>9
  <2>2. rep \in DOMAIN FloatMax /\ rep \notin Unsigned
    BY <1>1, <1>2, <1>3, <1>6, <2>1
  <2> QED BY <1>4, <1>9, <2>2 DEF Storable, Overflowed
<1> QED BY <1>5, <1>7, <1>8, <1>9

\* The channels of a converted colour are between nought and one.
LEMMA ColorFacts ==
    ASSUME NEW channels, NEW rep
    PROVE  \A i \in 1..4 : /\ convert_color(channels, rep)[i] \in 0..2
                           /\ rep = "rgb8unorm" => convert_color(channels, rep)[4] = 2
<1>1. ASSUME NEW x PROVE Clamp(sanitize(x), 0, 2) \in 0..2
  <2> DEFINE y == sanitize(x)
  <2>1. y \in Int
    BY SanitizeFacts
  <2> HIDE DEF y
  <2>2. Clamp(y, 0, 2) \in 0..2
    BY <2>1 DEF Clamp
  <2> QED BY <2>2 DEF y
<1>2. \A i \in 1..4 : convert_color(channels, rep)[i]
                       = IF rep = "rgb8unorm" /\ i = 4 THEN 2 ELSE Clamp(sanitize(channels[i]), 0, 2)
  BY DEF convert_color
<1> QED BY <1>1, <1>2

\* A converted value is of the stored value's type, and in its range unless it
\* overflowed.
LEMMA ConvertFacts ==
    ASSUME NEW value, NEW stored
    PROVE  LET next == convert_control_value_to_stored(value, stored)
           IN \/ next = <<>>
              \/ \E v : /\ next = <<v>> /\ Type(v) = Type(stored) /\ Rep(v) = Rep(stored)
                       /\ Storable(v)
<1> DEFINE number == numeric_as_f64(value)
           whole == Trunc(sanitize(number[1]))
           rep == Rep(stored)
           next == convert_control_value_to_stored(value, stored)
           Fits(v) == /\ Type(v) = Type(stored) /\ Rep(v) = Rep(stored)
                      /\ Storable(v)
<1>1. sanitize(number[1]) \in -MaxFloat..MaxFloat /\ sanitize(number[1]) \in Int /\ whole \in Int
  BY SanitizeFacts, TruncFacts
<1> HIDE DEF whole
<1>2. CASE Type(stored) = "float"
  <2> DEFINE x == sanitize(number[1])
             v == <<"float", rep, quantize_float(x, rep)>>
  <2>1. next = <<>> \/ next = <<v>>
    BY <1>2 DEF convert_control_value_to_stored
  <2> HIDE DEF x
  <2>2. Storable(v)
    BY <1>1, QuantizeFacts DEF x
  <2>3. Type(v) = "float" /\ Rep(v) = rep
    BY DEF Type, Rep
  <2> HIDE DEF v
  <2> QED BY <1>2, <2>1, <2>2, <2>3
<1>3. CASE Type(stored) = "int"
  <2> DEFINE x == Clamp(whole, IntRange[rep][1], IntRange[rep][2])
  <2>1. next = <<>> \/ (next = <<<<"int", rep, x>>>> /\ rep \in DOMAIN IntRange)
    BY <1>3 DEF convert_control_value_to_stored, whole
  <2>2. ASSUME rep \in DOMAIN IntRange PROVE x \in IntRange[rep][1]..IntRange[rep][2]
    BY <1>1, <2>2, ClampFacts, NumbersAssumption
  <2> HIDE DEF x
  <2>3. ASSUME rep \in DOMAIN IntRange PROVE Fits(<<"int", rep, x>>)
    BY <1>3, <2>2, <2>3 DEF Storable, InRange, Type, Rep, Content
  <2> QED BY <2>1, <2>3
<1>4. CASE Type(stored) = "uint"
  <2> DEFINE x == Clamp(whole, 0, UintMax[rep])
  <2>1. next = <<>> \/ (next = <<<<"uint", rep, x>>>> /\ rep \in DOMAIN UintMax)
    BY <1>4 DEF convert_control_value_to_stored, whole
  <2>2. ASSUME rep \in DOMAIN UintMax PROVE x \in 0..UintMax[rep]
    <3>1. 0 \in Int /\ UintMax[rep] \in Int /\ 0 <= UintMax[rep]
      BY <2>2, NumbersAssumption
    <3> QED BY <1>1, <3>1, ClampFacts
  <2> HIDE DEF x
  <2>3. ASSUME rep \in DOMAIN UintMax PROVE Fits(<<"uint", rep, x>>)
    BY <1>4, <2>2, <2>3 DEF Storable, InRange, Type, Rep, Content
  <2> QED BY <2>1, <2>3
<1>5. CASE Type(stored) = "color"
  <2> DEFINE x == convert_color(Content(value), rep)
  <2>1. next = <<>> \/ next = <<<<"color", rep, x>>>>
    BY <1>5 DEF convert_control_value_to_stored
  <2>2. \A i \in 1..4 : x[i] \in 0..2 /\ (rep = "rgb8unorm" => x[4] = 2)
    BY ColorFacts
  <2> HIDE DEF x
  <2>3. Fits(<<"color", rep, x>>)
    BY <1>5, <2>2 DEF Storable, InRange, Type, Rep, Content
  <2> QED BY <2>1, <2>3
<1>6. CASE Type(stored) \notin {"float", "int", "uint", "color"}
  <2>1. next = <<>>
    BY <1>6 DEF convert_control_value_to_stored
  <2> QED BY <2>1
<1> QED BY <1>2, <1>3, <1>4, <1>5, <1>6

LEMMA MessageFacts ==
    ASSUME NEW m, NEW stored
    PROVE  LET next == value_from_message(m, stored)
           IN \/ next = <<>>
              \/ \E v : /\ next = <<v>> /\ Type(v) = Type(stored) /\ Rep(v) = Rep(stored)
                       /\ Storable(v)
BY ConvertFacts DEF value_from_message

\* Only type and representation of the stored value matter.
LEMMA SameTypeConverts ==
    ASSUME NEW m, NEW a, NEW b, Type(a) = Type(b), Rep(a) = Rep(b)
    PROVE  value_from_message(m, a) = value_from_message(m, b)
BY DEF value_from_message, convert_control_value_to_stored

\* A message of a numeric kind converts whenever any number does.
LEMMA NumbersConvert ==
    ASSUME NEW m, data_kind_for_control_message(m) \in NumericKinds,
           NEW stored, Type(stored) \in {"float", "int", "uint"}
    PROVE  /\ ~is_bang_message(m)
           /\ value_from_message(m, stored) = <<>>
                <=> value_from_message(Message("int", <<int(0)>>), stored) = <<>>
<1>1. ~is_bang_message(m) /\ m.atoms # <<>> /\ Type(m.atoms[1]) \in NumericKinds
  BY DEF data_kind_for_control_message, NumericKinds
<1> DEFINE v == m.atoms[1]
           w == int(0)
           zero == Message("int", <<w>>)
<1>2. zero.atoms # <<>> /\ zero.atoms[1] = w
  BY DEF Message
<1> HIDE DEF zero
<1>3. numeric_as_f64(v) # <<>> /\ numeric_as_f64(w) # <<>>
  BY <1>1 DEF numeric_as_f64, NumericKinds, Type, int
<1> HIDE DEF v, w
<1>4. ASSUME NEW x, numeric_as_f64(x) # <<>>
      PROVE  convert_control_value_to_stored(x, stored) = <<>>
               <=> \/ Type(stored) = "int" /\ Rep(stored) \notin DOMAIN IntRange
                   \/ Type(stored) = "uint" /\ Rep(stored) \notin DOMAIN UintMax
  BY <1>4 DEF convert_control_value_to_stored
<1>5. /\ value_from_message(m, stored) = convert_control_value_to_stored(v, stored)
      /\ value_from_message(zero, stored) = convert_control_value_to_stored(w, stored)
  BY <1>1, <1>2 DEF value_from_message, v
<1> QED BY <1>1, <1>3, <1>4, <1>5 DEF zero, w

-----------------------------------------------------------------------------
(* One event at one object.                                                *)

LEMMA NodeFacts ==
    ASSUME NEW g, NEW id \in NodeIds(g)
    PROVE  /\ NodeOf(g, id).id = id
           /\ \E i \in 1..Len(g.nodes) : NodeOf(g, id) = g.nodes[i]
<1>1. \E i \in 1..Len(g.nodes) : g.nodes[i].id = id
  BY DEF NodeIds
<1> DEFINE k == CHOOSE i \in 1..Len(g.nodes) : g.nodes[i].id = id
<1>2. k \in 1..Len(g.nodes) /\ g.nodes[k].id = id
  BY <1>1
<1>3. NodeOf(g, id) = g.nodes[k]
  BY DEF NodeOf
<1> QED BY <1>2, <1>3

LEMMA StoreFacts ==
    ASSUME NEW st, DOMAIN st = {"values", "right", "channels"}, NEW id, NEW v
    PROVE  /\ DOMAIN Store(st, id, v) = DOMAIN st
           /\ Store(st, id, v).channels = st.channels
           /\ DOMAIN Store(st, id, v).values = DOMAIN st.values
           /\ \A n \in DOMAIN st.values :
                Store(st, id, v).values[n] = IF n = id THEN v ELSE st.values[n]
<1>1. Store(st, id, v).values = [st.values EXCEPT ![id] = v]
  BY DEF Store
<1>2. DOMAIN Store(st, id, v) = DOMAIN st /\ Store(st, id, v).channels = st.channels
  BY DEF Store
<1> QED BY <1>1, <1>2

\* What an event at an object may change: the object's value, its operand.
Touches(g, st, id, r) ==
  /\ r.emitted = <<>> \/ \E e : r.emitted = <<e>> /\ e.node = id
  /\ DOMAIN r.st = DOMAIN st
  /\ r.st.channels = st.channels
  /\ DOMAIN r.st.values = DOMAIN st.values
  /\ \A n \in DOMAIN st.values : n # id => r.st.values[n] = st.values[n]
  /\ id \in DOMAIN st.values => Keeps(g, id, r.st.values[id])

LEMMA RefusedFacts ==
    ASSUME NEW st
    PROVE  ~Refused(st).ok /\ Refused(st).st = st /\ Refused(st).emitted = <<>>
BY DEF Refused

LEMMA AcceptedFacts ==
    ASSUME NEW st, NEW out
    PROVE  Accepted(st, out).ok /\ Accepted(st, out).st = st /\ Accepted(st, out).emitted = out
BY DEF Accepted

LEMMA EmissionFacts ==
    ASSUME NEW id, NEW port, NEW m
    PROVE  Emission(id, port, m).node = id /\ Emission(id, port, m).message = m
           /\ Output(Emission(id, port, m)) = <<id, port>>
BY DEF Emission, Output

LEMMA TouchesNothing ==
    ASSUME NEW g, NEW st, ValuesOK(g, st), NEW id, NEW r, r.st = st,
           r.emitted = <<>> \/ \E e : r.emitted = <<e>> /\ e.node = id
    PROVE  Touches(g, st, id, r)
BY DEF Touches, ValuesOK

LEMMA TouchesOne ==
    ASSUME NEW g, NEW st, ValuesOK(g, st), NEW id, NEW v, NEW r, r.st = Store(st, id, v),
           id \in DOMAIN st.values => Keeps(g, id, v),
           r.emitted = <<>> \/ \E e : r.emitted = <<e>> /\ e.node = id
    PROVE  Touches(g, st, id, r)
<1>1. DOMAIN st = {"values", "right", "channels"}
  BY DEF ValuesOK
<1> QED BY <1>1, StoreFacts DEF Touches

\* The branches of apply_event_direct.
LEMMA DirectCases ==
    ASSUME NEW g, NEW st, NEW id, NEW port, NEW m
    PROVE  LET r == apply_event_direct(g, st, id, port, m)
               node == NodeOf(g, id)
           IN \/ r = Refused(st)
              \/ /\ id \in NodeIds(g)
                 /\ \/ node.kind = "bang" /\ r = Accepted(st, <<Emission(id, "out", bang)>>)
                    \/ node.kind \in OperatorKinds /\ r = apply_operator_event(st, node, port, m)
                    \/ node.kind \in TextKinds /\ r = ApplyTextEvent(st, node, m)
                    \/ node.kind \in TextKinds /\ r = ApplyColdText(st, node, m)
                    \/ /\ node.kind \in ValueKinds \ TextKinds
                       /\ r = ApplyValueEvent(st, node, port, m)
<1> DEFINE r == apply_event_direct(g, st, id, port, m)
           node == NodeOf(g, id)
<1>1. CASE id \notin NodeIds(g)
  BY <1>1 DEF apply_event_direct
<1>2. CASE id \in NodeIds(g) /\ node.kind \in ValueKinds \cup OperatorKinds \cup {"bang"}
  BY <1>2 DEF apply_event_direct, supports_runtime_control_events
<1>3. CASE id \in NodeIds(g) /\ node.kind \notin ValueKinds \cup OperatorKinds \cup {"bang"}
  BY <1>3 DEF apply_event_direct, supports_runtime_control_events
<1> QED BY <1>1, <1>2, <1>3

LEMMA OperatorTouches ==
    ASSUME NEW g, NEW st, ValuesOK(g, st), NEW id \in NodeIds(g), NEW port, NEW m,
           NodeOf(g, id).kind \in OperatorKinds
    PROVE  Touches(g, st, id, apply_operator_event(st, NodeOf(g, id), port, m))
<1> DEFINE node == NodeOf(g, id)
           r == apply_operator_event(st, node, port, m)
           number == numeric_message_value(m)
           right == IF node.id \in DOMAIN st.right THEN Content(st.right[node.id]) ELSE 0
           level == evaluate_operator(node.kind, sanitize(number[1]), sanitize(right))
           result == float(level)
           operands == [n \in DOMAIN st.right \cup {node.id} |->
                          IF n = node.id THEN float(sanitize(number[1])) ELSE st.right[n]]
<1>1. node.id = id
  BY NodeFacts
<1>2. level \in -MaxFloat..MaxFloat
  BY SanitizeFacts DEF evaluate_operator
<1>3. Keeps(g, id, result)
  <2>1. for_node_default(node) = float(0)
    BY DEF for_node_default, OperatorKinds, TextKinds
  <2> HIDE DEF level
  <2>2. Type(result) = "float" /\ Rep(result) = "f32" /\ Content(result) = level
    BY DEF float, Type, Rep, Content
  <2>3. Type(float(0)) = "float" /\ Rep(float(0)) = "f32"
    BY DEF float, Type, Rep
  <2> HIDE DEF result
  <2> QED BY <1>2, <2>1, <2>2, <2>3 DEF Keeps, KeptBy
<1> HIDE DEF level, number, right
<1>4. \/ r = Accepted(st, <<Emission(id, "out", from_value(st.values[id]))>>)
      \/ \E out : /\ r = Accepted(Store(st, id, result), out)
                  /\ out = <<>> \/ out = <<Emission(id, "out", from_value(result))>>
      \/ r = Accepted([st EXCEPT !.right = operands], <<>>)
      \/ r = Refused(st)
  <2>1. CASE port = "in" /\ is_bang_message(m)
    BY <1>1, <2>1 DEF apply_operator_event
  <2>2. CASE port = "in" /\ ~is_bang_message(m) /\ number # <<>>
    <3>1. r = Accepted(Store(st, id, result),
                IF m.selector = "set" THEN <<>> ELSE <<Emission(id, "out", from_value(result))>>)
      BY <1>1, <2>2 DEF apply_operator_event, level, right, number
    <3> QED BY <3>1
  <2>3. CASE port = "right" /\ m.selector # "set" /\ number # <<>>
    BY <1>1, <2>3 DEF apply_operator_event, number
  <2>4. CASE /\ ~(port = "in" /\ is_bang_message(m))
             /\ ~(port = "in" /\ ~is_bang_message(m) /\ number # <<>>)
             /\ ~(port = "right" /\ m.selector # "set" /\ number # <<>>)
    BY <2>4 DEF apply_operator_event, number
  <2> QED BY <2>1, <2>2, <2>3, <2>4
<1> HIDE DEF r, result
<1>5. CASE r = Accepted(st, <<Emission(id, "out", from_value(st.values[id]))>>)
  <2> DEFINE e == Emission(id, "out", from_value(st.values[id]))
  <2>1. e.node = id
    BY EmissionFacts
  <2> HIDE DEF e
  <2>2. r.st = st /\ r.emitted = <<e>>
    BY <1>5, AcceptedFacts DEF e
  <2> QED BY <2>1, <2>2, TouchesNothing DEF r
<1>6. CASE \E out : /\ r = Accepted(Store(st, id, result), out)
                    /\ out = <<>> \/ out = <<Emission(id, "out", from_value(result))>>
  <2> DEFINE e == Emission(id, "out", from_value(result))
  <2>1. e.node = id
    BY EmissionFacts
  <2> HIDE DEF e
  <2>2. r.st = Store(st, id, result) /\ (r.emitted = <<>> \/ r.emitted = <<e>>)
    BY <1>6, AcceptedFacts DEF e
  <2> QED BY <1>3, <2>1, <2>2, TouchesOne DEF r
<1>7. CASE r = Accepted([st EXCEPT !.right = operands], <<>>)
  <2> HIDE DEF operands
  <2>1. r.st = [st EXCEPT !.right = operands] /\ r.emitted = <<>>
    BY <1>7, AcceptedFacts
  <2>2. DOMAIN r.st = DOMAIN st /\ r.st.channels = st.channels /\ r.st.values = st.values
    BY <2>1 DEF ValuesOK
  <2>3. Touches(g, st, id, r)
    BY <2>1, <2>2 DEF Touches, ValuesOK
  <2> QED BY <2>3 DEF r
<1>8. CASE r = Refused(st)
  <2>1. r.st = st /\ r.emitted = <<>>
    BY <1>8, RefusedFacts
  <2> QED BY <2>1, TouchesNothing DEF r
<1> QED BY <1>4, <1>5, <1>6, <1>7, <1>8

LEMMA TextTouches ==
    ASSUME NEW g, NEW st, ValuesOK(g, st), NEW id \in NodeIds(g), NEW m,
           NodeOf(g, id).kind \in TextKinds
    PROVE  /\ Touches(g, st, id, ApplyTextEvent(st, NodeOf(g, id), m))
           /\ Touches(g, st, id, ApplyColdText(st, NodeOf(g, id), m))
<1> DEFINE node == NodeOf(g, id)
<1>1. node.id = id
  BY NodeFacts
<1>2. ASSUME NEW text PROVE Keeps(g, id, string(text))
  <2>1. for_node_default(node) = string(node.value)
    <3>1. node.kind \notin {"float", "int", "uint", "color"} /\ node.kind \notin OperatorKinds
      BY DEF TextKinds, OperatorKinds
    <3> HIDE DEF node
    <3>2. node.kind \in TextKinds
      BY DEF node
    <3> QED BY <3>1, <3>2 DEF for_node_default
  <2>2. \A t : Type(string(t)) = "string" /\ Rep(string(t)) = ""
    BY DEF string, Type, Rep
  <2>3. Storable(string(text))
    BY <2>2 DEF Storable, InRange
  <2>4. node.kind \notin OperatorKinds
    BY DEF TextKinds, OperatorKinds
  <2> HIDE DEF node
  <2> QED BY <2>1, <2>2, <2>3, <2>4 DEF Keeps, KeptBy, node
<1>3. ASSUME NEW r, \/ r = Refused(st)
                    \/ \E text : r = Accepted(Store(st, id, string(text)), <<>>)
                    \/ \E message : r = Accepted(st, <<Emission(id, "out", message)>>)
      PROVE  Touches(g, st, id, r)
  <2>1. CASE r = Refused(st)
    <3>1. r.st = st /\ r.emitted = <<>>
      BY <2>1, RefusedFacts
    <3> QED BY <3>1, TouchesNothing
  <2>2. ASSUME NEW text, r = Accepted(Store(st, id, string(text)), <<>>)
        PROVE  Touches(g, st, id, r)
    <3> DEFINE v == string(text)
    <3>1. r.st = Store(st, id, v) /\ r.emitted = <<>> /\ Keeps(g, id, v)
      BY <1>2, <2>2, AcceptedFacts
    <3> HIDE DEF v
    <3> QED BY <3>1, TouchesOne
  <2>3. ASSUME NEW message, r = Accepted(st, <<Emission(id, "out", message)>>)
        PROVE  Touches(g, st, id, r)
    <3> DEFINE e == Emission(id, "out", message)
    <3>1. r.st = st /\ r.emitted = <<e>> /\ e.node = id
      BY <2>3, AcceptedFacts, EmissionFacts
    <3> HIDE DEF e
    <3> QED BY <3>1, TouchesNothing
  <2> QED BY <1>3, <2>1, <2>2, <2>3
<1>4. Touches(g, st, id, ApplyTextEvent(st, node, m))
  <2> DEFINE r == ApplyTextEvent(st, node, m)
  <2>1. \/ r = Refused(st)
        \/ \E text : r = Accepted(Store(st, id, string(text)), <<>>)
        \/ \E message : r = Accepted(st, <<Emission(id, "out", message)>>)
    BY <1>1 DEF ApplyTextEvent
  <2> HIDE DEF r
  <2>2. Touches(g, st, id, r)
    BY <1>3, <2>1
  <2> QED BY <2>2 DEF r
<1>5. Touches(g, st, id, ApplyColdText(st, node, m))
  <2> DEFINE r == ApplyColdText(st, node, m)
  <2>1. \/ r = Refused(st)
        \/ \E text : r = Accepted(Store(st, id, string(text)), <<>>)
        \/ \E message : r = Accepted(st, <<Emission(id, "out", message)>>)
    BY <1>1 DEF ApplyColdText
  <2> HIDE DEF r
  <2>2. Touches(g, st, id, r)
    BY <1>3, <2>1
  <2> QED BY <2>2 DEF r
<1> QED BY <1>4, <1>5

\* A value object stores what the message converts to, or leaves its value.
LEMMA ValueOutcome ==
    ASSUME NEW g, NEW st, ValuesOK(g, st), NEW id \in NodeIds(g), NEW port, NEW m,
           NodeOf(g, id).kind \in ValueKinds \ TextKinds
    PROVE  LET r == ApplyValueEvent(st, NodeOf(g, id), port, m)
               next == value_from_message(m, st.values[id])
           IN \/ r = Refused(st)
              \/ is_bang_message(m) /\ r = Accepted(st, <<Emission(id, "value", from_value(st.values[id]))>>)
              \/ /\ next # <<>>
                 /\ \E out : /\ r = Accepted(Store(st, id, next[1]), out)
                             /\ out = <<>> \/ out = <<Emission(id, "value", from_value(next[1]))>>
<1> DEFINE r == ApplyValueEvent(st, NodeOf(g, id), port, m)
           next == value_from_message(m, st.values[id])
<1>1. NodeOf(g, id).id = id
  BY NodeFacts
<1> HIDE DEF next
<1>2. CASE port = "in" /\ is_bang_message(m)
  BY <1>1, <1>2 DEF ApplyValueEvent
<1>3. CASE port = "in" /\ ~is_bang_message(m) /\ next # <<>>
  <2>1. r = Accepted(Store(st, id, next[1]),
              IF m.selector = "set" THEN <<>> ELSE <<Emission(id, "value", from_value(next[1]))>>)
    BY <1>1, <1>3 DEF ApplyValueEvent, next
  <2> QED BY <1>3, <2>1 DEF next
<1>4. CASE port = "cold" /\ m.selector # "set" /\ next # <<>>
  <2>1. r = Accepted(Store(st, id, next[1]), <<>>)
    BY <1>1, <1>4 DEF ApplyValueEvent, next
  <2> QED BY <1>4, <2>1 DEF next
<1>5. CASE /\ ~(port = "in" /\ is_bang_message(m))
           /\ ~(port = "in" /\ ~is_bang_message(m) /\ next # <<>>)
           /\ ~(port = "cold" /\ m.selector # "set" /\ next # <<>>)
  <2>1. r = Refused(st)
    BY <1>1, <1>5 DEF ApplyValueEvent, next
  <2> QED BY <2>1
<1> QED BY <1>2, <1>3, <1>4, <1>5

LEMMA ValueInDomain ==
    ASSUME NEW g, NEW st, ValuesOK(g, st), NEW id \in NodeIds(g),
           NodeOf(g, id).kind \in ValueKinds
    PROVE  id \in DOMAIN st.values
BY DEF ValuesOK, from_graph

LEMMA ValueTouches ==
    ASSUME NEW g, NEW st, ValuesOK(g, st), NEW id \in NodeIds(g), NEW port, NEW m,
           NodeOf(g, id).kind \in ValueKinds \ TextKinds
    PROVE  Touches(g, st, id, ApplyValueEvent(st, NodeOf(g, id), port, m))
<1> DEFINE r == ApplyValueEvent(st, NodeOf(g, id), port, m)
           next == value_from_message(m, st.values[id])
<1>1. \/ r = Refused(st)
      \/ r = Accepted(st, <<Emission(id, "value", from_value(st.values[id]))>>)
      \/ /\ next # <<>>
         /\ \E out : /\ r = Accepted(Store(st, id, next[1]), out)
                     /\ out = <<>> \/ out = <<Emission(id, "value", from_value(next[1]))>>
  BY ValueOutcome
<1>2. id \in DOMAIN st.values /\ Keeps(g, id, st.values[id])
  BY ValueInDomain DEF ValuesOK
<1>3. next # <<>> => /\ Type(next[1]) = Type(st.values[id]) /\ Rep(next[1]) = Rep(st.values[id])
                     /\ Storable(next[1])
  <2>1. \/ next = <<>>
        \/ \E v : /\ next = <<v>> /\ Type(v) = Type(st.values[id]) /\ Rep(v) = Rep(st.values[id])
                 /\ Storable(v)
    BY MessageFacts
  <2> HIDE DEF next
  <2>2. ASSUME NEW v, next = <<v>> PROVE next[1] = v
    BY <2>2
  <2> QED BY <2>1, <2>2
<1> HIDE DEF r, next
<1>4. next # <<>> => Keeps(g, id, next[1])
  <2>1. NodeOf(g, id).kind \notin OperatorKinds
    BY DEF ValueKinds, OperatorKinds, TextKinds
  <2> QED BY <1>2, <1>3, <2>1 DEF Keeps, KeptBy
<1>5. CASE r = Refused(st)
  <2>1. r.st = st /\ r.emitted = <<>>
    BY <1>5, RefusedFacts
  <2> QED BY <2>1, TouchesNothing DEF r
<1>6. CASE r = Accepted(st, <<Emission(id, "value", from_value(st.values[id]))>>)
  <2> DEFINE e == Emission(id, "value", from_value(st.values[id]))
  <2>1. r.st = st /\ r.emitted = <<e>> /\ e.node = id
    BY <1>6, AcceptedFacts, EmissionFacts
  <2> HIDE DEF e
  <2> QED BY <2>1, TouchesNothing DEF r
<1>7. ASSUME next # <<>>, NEW out, r = Accepted(Store(st, id, next[1]), out),
             out = <<>> \/ out = <<Emission(id, "value", from_value(next[1]))>>
      PROVE  Touches(g, st, id, r)
  <2> DEFINE v == next[1]
             e == Emission(id, "value", from_value(v))
  <2>1. r.st = Store(st, id, v) /\ (r.emitted = <<>> \/ r.emitted = <<e>>) /\ e.node = id
    BY <1>7, AcceptedFacts, EmissionFacts
  <2>2. Keeps(g, id, v)
    BY <1>4, <1>7
  <2> HIDE DEF e, v
  <2> QED BY <2>1, <2>2, TouchesOne
<1>8. Touches(g, st, id, r)
  BY <1>1, <1>5, <1>6, <1>7 DEF r
<1> QED BY <1>8 DEF r

\* An event touches one object and leaves values of the objects' types.
LEMMA DirectTouches ==
    ASSUME NEW g, NEW st, ValuesOK(g, st), NEW id, NEW port, NEW m
    PROVE  LET r == apply_event_direct(g, st, id, port, m)
           IN /\ Touches(g, st, id, r) /\ ValuesOK(g, r.st)
              /\ r.emitted # <<>> => id \in NodeIds(g)
              /\ ~r.ok => r.st = st /\ r.emitted = <<>>
<1> DEFINE r == apply_event_direct(g, st, id, port, m)
           node == NodeOf(g, id)
<1>1. \/ r = Refused(st)
      \/ /\ id \in NodeIds(g)
         /\ \/ r = Accepted(st, <<Emission(id, "out", bang)>>)
            \/ node.kind \in OperatorKinds /\ r = apply_operator_event(st, node, port, m)
            \/ node.kind \in TextKinds /\ r = ApplyTextEvent(st, node, m)
            \/ node.kind \in TextKinds /\ r = ApplyColdText(st, node, m)
            \/ /\ node.kind \in ValueKinds \ TextKinds
               /\ r = ApplyValueEvent(st, node, port, m)
  BY DirectCases
<1>2. ~r.ok => r = Refused(st)
  <2>1. \A s, out : Accepted(s, out).ok
    BY DEF Accepted
  <2>2. r = Refused(st) \/ \E s, out : r = Accepted(s, out)
    <3>1. ASSUME r = apply_operator_event(st, node, port, m) PROVE r = Refused(st) \/ \E s, out : r = Accepted(s, out)
      BY <3>1 DEF apply_operator_event
    <3>2. ASSUME r = ApplyTextEvent(st, node, m) PROVE r = Refused(st) \/ \E s, out : r = Accepted(s, out)
      BY <3>2 DEF ApplyTextEvent
    <3>3. ASSUME r = ApplyColdText(st, node, m) PROVE r = Refused(st) \/ \E s, out : r = Accepted(s, out)
      BY <3>3 DEF ApplyColdText
    <3>4. ASSUME r = ApplyValueEvent(st, node, port, m) PROVE r = Refused(st) \/ \E s, out : r = Accepted(s, out)
      BY <3>4 DEF ApplyValueEvent
    <3> HIDE DEF r
    <3> QED BY <1>1, <3>1, <3>2, <3>3, <3>4
  <2> HIDE DEF r
  <2> QED BY <2>1, <2>2
<1> HIDE DEF r
<1>3. r = Refused(st) => r.st = st /\ r.emitted = <<>>
  BY RefusedFacts
<1>4. Touches(g, st, id, r)
  <2>1. CASE r = Refused(st)
    BY <1>3, <2>1, TouchesNothing
  <2>2. CASE r = Accepted(st, <<Emission(id, "out", bang)>>)
    <3> DEFINE e == Emission(id, "out", bang)
    <3>1. r.st = st /\ r.emitted = <<e>> /\ e.node = id
      BY <2>2, AcceptedFacts, EmissionFacts
    <3> HIDE DEF e
    <3> QED BY <3>1, TouchesNothing
  <2>3. CASE id \in NodeIds(g) /\ node.kind \in OperatorKinds /\ r = apply_operator_event(st, node, port, m)
    BY <2>3, OperatorTouches
  <2>4. CASE id \in NodeIds(g) /\ node.kind \in TextKinds /\ (r = ApplyTextEvent(st, node, m) \/ r = ApplyColdText(st, node, m))
    BY <2>4, TextTouches
  <2>5. CASE id \in NodeIds(g) /\ node.kind \in ValueKinds \ TextKinds /\ r = ApplyValueEvent(st, node, port, m)
    BY <2>5, ValueTouches
  <2> QED BY <1>1, <2>1, <2>2, <2>3, <2>4, <2>5
<1>5. ValuesOK(g, r.st)
  BY <1>4 DEF Touches, ValuesOK
<1>6. r.emitted # <<>> => id \in NodeIds(g)
  BY <1>1, <1>3
<1> QED BY <1>2, <1>3, <1>4, <1>5, <1>6 DEF r

NumberKinds == {"float", "int", "uint"}

LEMMA DefaultOfNumber ==
    ASSUME NEW g, NEW st, ValuesOK(g, st), NEW id \in NodeIds(g), NodeOf(g, id).kind \in NumberKinds
    PROVE  /\ id \in DOMAIN st.values
           /\ Type(for_node_default(NodeOf(g, id))) \in NumberKinds
           /\ Type(st.values[id]) = Type(for_node_default(NodeOf(g, id)))
           /\ Rep(st.values[id]) = Rep(for_node_default(NodeOf(g, id)))
<1>1. NodeOf(g, id).kind \in ValueKinds
  BY DEF NumberKinds, ValueKinds
<1>2. id \in DOMAIN st.values
  BY <1>1, ValueInDomain
<1>3. Type(for_node_default(NodeOf(g, id))) \in NumberKinds
  <2> DEFINE node == NodeOf(g, id)
  <2>1. node.kind \in {"float", "int", "uint", "color"} /\ node.kind \notin TextKinds /\ node.kind \notin OperatorKinds
    BY DEF NumberKinds, TextKinds, OperatorKinds
  <2>2. node.kind \in NumberKinds
    OBVIOUS
  <2> HIDE DEF node
  <2>3. for_node_default(node) = <<node.kind, node.rep, node.value>>
    BY <2>1 DEF for_node_default
  <2> QED BY <2>2, <2>3 DEF Type, node
<1> QED BY <1>2, <1>3 DEF ValuesOK, Keeps, KeptBy

\* What an event does to a number.
LEMMA NumberOutcome ==
    ASSUME NEW g, NEW st, ValuesOK(g, st), NEW id \in NodeIds(g), NodeOf(g, id).kind \in NumberKinds,
           NEW port, NEW m
    PROVE  LET r == apply_event_direct(g, st, id, port, m)
               next == value_from_message(m, st.values[id])
           IN /\ r.ok => \/ is_bang_message(m) /\ r.st = st
                         \/ next = <<r.st.values[id]>>
              /\ port = "in" /\ "in" \in NodeOf(g, id).inputs /\ ~is_bang_message(m) =>
                   IF next = <<>> THEN r = Refused(st) ELSE r.ok
<1> DEFINE r == apply_event_direct(g, st, id, port, m)
           node == NodeOf(g, id)
           next == value_from_message(m, st.values[id])
<1>1. /\ node.kind \in ValueKinds \ TextKinds /\ node.kind # "bang"
      /\ node.kind \notin OperatorKinds /\ node.kind \notin TextKinds
  BY DEF NumberKinds, ValueKinds, TextKinds, OperatorKinds
<1>2. IF port \in node.inputs THEN r = ApplyValueEvent(st, node, port, m) ELSE r = Refused(st)
  <2>1. supports_runtime_control_events(node.kind)
    BY <1>1 DEF supports_runtime_control_events
  <2> HIDE DEF node
  <2> QED BY <1>1, <2>1 DEF apply_event_direct, node
<1>3. id \in DOMAIN st.values
  BY DefaultOfNumber
<1>4. DOMAIN st = {"values", "right", "channels"}
  BY DEF ValuesOK
<1>5. next = <<>> \/ \E v : next = <<v>>
  BY MessageFacts
<1> HIDE DEF r, next
<1>6. r.ok => \/ is_bang_message(m) /\ r.st = st
              \/ next = <<r.st.values[id]>>
  <2>1. \/ r = Refused(st)
        \/ is_bang_message(m) /\ r = Accepted(st, <<Emission(id, "value", from_value(st.values[id]))>>)
        \/ next # <<>> /\ \E out : r = Accepted(Store(st, id, next[1]), out)
    BY <1>1, <1>2, ValueOutcome DEF next
  <2>2. ASSUME next # <<>>, NEW out, r = Accepted(Store(st, id, next[1]), out)
        PROVE  next = <<r.st.values[id]>>
    <3>1. r.st = Store(st, id, next[1])
      BY <2>2, AcceptedFacts
    <3>2. r.st.values[id] = next[1]
      BY <1>3, <1>4, <3>1, StoreFacts
    <3>3. next = <<next[1]>>
      BY <1>5, <2>2
    <3> QED BY <3>2, <3>3
  <2> QED BY <2>1, <2>2, RefusedFacts, AcceptedFacts
<1>7. ASSUME port = "in", "in" \in node.inputs, ~is_bang_message(m)
      PROVE  IF next = <<>> THEN r = Refused(st) ELSE r.ok
  <2>1. r = ApplyValueEvent(st, node, port, m) /\ node.id = id
    BY <1>2, <1>7, NodeFacts
  <2> HIDE DEF node
  <2>2. CASE next = <<>>
    BY <1>7, <2>1, <2>2 DEF ApplyValueEvent, next
  <2>3. CASE next # <<>>
    <3>1. \E s, out : r = Accepted(s, out)
      BY <1>7, <2>1, <2>3 DEF ApplyValueEvent, next
    <3> QED BY <2>3, <3>1, AcceptedFacts
  <2> QED BY <2>2, <2>3
<1> QED BY <1>6, <1>7 DEF r, next

-----------------------------------------------------------------------------
(* The deliveries of an emission.                                          *)

LEMMA AlongEdgesFacts ==
    ASSUME NEW g \in Graphs, NEW e
    PROVE  /\ IsSeq(AlongEdges(g, e))
           /\ \A d \in ToSet(AlongEdges(g, e)) :
                /\ d.message = e.message /\ ~d.named
                /\ \E i \in 1..Len(g.edges) : g.edges[i].from = Output(e) /\ d.to = g.edges[i].to
           /\ \A i \in 1..Len(g.edges) :
                /\ g.edges[i].from = Output(e) /\ g.edges[i].to[1] \in NodeIds(g)
                /\ supports_runtime_control_events(NodeOf(g, g.edges[i].to[1]).kind)
                => \E d \in ToSet(AlongEdges(g, e)) : d.to = g.edges[i].to
<1> DEFINE places == {i \in 1..Len(g.edges) :
                        /\ g.edges[i].from = Output(e)
                        /\ g.edges[i].to[1] \in NodeIds(g)
                        /\ supports_runtime_control_events(NodeOf(g, g.edges[i].to[1]).kind)}
           edges == At(g.edges, places)
           f == [i \in 1..Len(edges) |-> [to |-> edges[i].to, message |-> e.message, named |-> FALSE]]
<1>1. AlongEdges(g, e) = f
  BY DEF AlongEdges
<1>2. IsSeq(g.edges)
  BY GraphsAssumption DEF IsSeq
<1>3. \A k \in places : k \in 1..Len(g.edges) /\ g.edges[k].from = Output(e)
  OBVIOUS
<1>4. \A k \in 1..Len(g.edges) :
        /\ g.edges[k].from = Output(e) /\ g.edges[k].to[1] \in NodeIds(g)
        /\ supports_runtime_control_events(NodeOf(g, g.edges[k].to[1]).kind)
        => k \in places
  OBVIOUS
<1> HIDE DEF places
<1>5. /\ Len(edges) \in Nat
      /\ \A i \in 1..Len(edges) : \E k \in 1..Len(g.edges) : k \in places /\ edges[i] = g.edges[k]
      /\ \A k \in 1..Len(g.edges) : k \in places => \E i \in 1..Len(edges) : edges[i] = g.edges[k]
  <2> DEFINE s == g.edges
             t == At(s, places)
  <2>1. IsSeq(s)
    BY <1>2
  <2> HIDE DEF s
  <2>2. /\ Len(t) \in Nat
        /\ \A i \in 1..Len(t) : \E k \in 1..Len(s) : k \in places /\ t[i] = s[k]
        /\ \A k \in 1..Len(s) : k \in places => \E i \in 1..Len(t) : t[i] = s[k]
    BY <2>1, AtFacts
  <2> QED BY <2>2 DEF s
<1> HIDE DEF edges
<1>6. f = [i \in 1..Len(edges) |-> f[i]]
  OBVIOUS
<1>7. \A i \in 1..Len(edges) : f[i].to = edges[i].to /\ f[i].message = e.message /\ ~f[i].named
  OBVIOUS
<1> HIDE DEF f
<1>8. IsSeq(f) /\ \A x : x \in ToSet(f) <=> \E i \in 1..Len(edges) : f[i] = x
  BY <1>5, <1>6, MapFacts
<1>9. ASSUME NEW d \in ToSet(f)
      PROVE  /\ d.message = e.message /\ ~d.named
             /\ \E i \in 1..Len(g.edges) : g.edges[i].from = Output(e) /\ d.to = g.edges[i].to
  <2>1. PICK i \in 1..Len(edges) : f[i] = d
    BY <1>8
  <2>2. PICK k \in 1..Len(g.edges) : k \in places /\ edges[i] = g.edges[k]
    BY <1>5
  <2> QED BY <1>3, <1>7, <2>1, <2>2
<1>10. ASSUME NEW k \in 1..Len(g.edges),
              g.edges[k].from = Output(e), g.edges[k].to[1] \in NodeIds(g),
              supports_runtime_control_events(NodeOf(g, g.edges[k].to[1]).kind)
       PROVE  \E d \in ToSet(f) : d.to = g.edges[k].to
  <2>1. PICK i \in 1..Len(edges) : edges[i] = g.edges[k]
    BY <1>4, <1>5, <1>10
  <2>2. f[i] \in ToSet(f) /\ f[i].to = g.edges[k].to
    BY <1>7, <1>8, <2>1
  <2> QED BY <2>2
<1> QED BY <1>1, <1>8, <1>9, <1>10

NamedTo(g, e, name, d) ==
  /\ d.message = e.message /\ d.named
  /\ \E k \in 1..Len(g.nodes) :
       /\ d.to = <<g.nodes[k].id, "in">> /\ g.nodes[k].id # e.node
       /\ g.nodes[k].receive = name
       /\ object_accepts_data_kind(g.nodes[k], data_kind_for_control_message(e.message))

LEMMA NamedFacts ==
    ASSUME NEW g \in Graphs, NEW e, NEW name
    PROVE  /\ IsSeq(apply_receive_name_updates(g, e, name))
           /\ \A d \in ToSet(apply_receive_name_updates(g, e, name)) : NamedTo(g, e, name, d)
           /\ \A n \in 1..Len(g.nodes) :
                /\ g.nodes[n].id # e.node /\ g.nodes[n].receive = name
                /\ object_accepts_data_kind(g.nodes[n], data_kind_for_control_message(e.message))
                => \E x \in ToSet(apply_receive_name_updates(g, e, name)) : x.to = <<g.nodes[n].id, "in">>
<1> DEFINE kind == data_kind_for_control_message(e.message)
           places == {i \in 1..Len(g.nodes) :
                        /\ g.nodes[i].id # e.node
                        /\ g.nodes[i].receive = name
                        /\ object_accepts_data_kind(g.nodes[i], kind)}
           nodes == At(g.nodes, places)
           f == [i \in 1..Len(nodes) |->
                   [to |-> <<nodes[i].id, "in">>, message |-> e.message, named |-> TRUE]]
<1>1. apply_receive_name_updates(g, e, name) = f
  BY DEF apply_receive_name_updates
<1>2. IsSeq(g.nodes)
  BY GraphsAssumption DEF IsSeq
<1> HIDE DEF kind
<1>3. \A k \in 1..Len(g.nodes) :
        k \in places <=> /\ g.nodes[k].id # e.node /\ g.nodes[k].receive = name
                         /\ object_accepts_data_kind(g.nodes[k], kind)
  OBVIOUS
<1> HIDE DEF places
<1>5. /\ Len(nodes) \in Nat
      /\ \A i \in 1..Len(nodes) : \E k \in 1..Len(g.nodes) : k \in places /\ nodes[i] = g.nodes[k]
      /\ \A k \in 1..Len(g.nodes) : k \in places => \E i \in 1..Len(nodes) : nodes[i] = g.nodes[k]
  <2> DEFINE s == g.nodes
             t == At(s, places)
  <2>1. IsSeq(s)
    BY <1>2
  <2> HIDE DEF s
  <2>2. /\ Len(t) \in Nat
        /\ \A i \in 1..Len(t) : \E k \in 1..Len(s) : k \in places /\ t[i] = s[k]
        /\ \A k \in 1..Len(s) : k \in places => \E i \in 1..Len(t) : t[i] = s[k]
    BY <2>1, AtFacts
  <2> QED BY <2>2 DEF s
<1> HIDE DEF nodes
<1>6. f = [i \in 1..Len(nodes) |-> f[i]]
  OBVIOUS
<1>7. \A i \in 1..Len(nodes) : f[i].to = <<nodes[i].id, "in">> /\ f[i].message = e.message /\ f[i].named
  OBVIOUS
<1> HIDE DEF f
<1>8. IsSeq(f) /\ \A x : x \in ToSet(f) <=> \E i \in 1..Len(nodes) : f[i] = x
  BY <1>5, <1>6, MapFacts
<1>9. ASSUME NEW d \in ToSet(f)
      PROVE  NamedTo(g, e, name, d)
  <2>1. PICK i \in 1..Len(nodes) : f[i] = d
    BY <1>8
  <2>2. PICK k \in 1..Len(g.nodes) : k \in places /\ nodes[i] = g.nodes[k]
    BY <1>5
  <2> QED BY <1>3, <1>7, <2>1, <2>2 DEF NamedTo, kind
<1>10. ASSUME NEW k \in 1..Len(g.nodes),
              g.nodes[k].id # e.node, g.nodes[k].receive = name,
              object_accepts_data_kind(g.nodes[k], kind)
       PROVE  \E d \in ToSet(f) : d.to = <<g.nodes[k].id, "in">>
  <2>1. PICK i \in 1..Len(nodes) : nodes[i] = g.nodes[k]
    BY <1>3, <1>5, <1>10
  <2>2. f[i] \in ToSet(f) /\ f[i].to = <<g.nodes[k].id, "in">>
    BY <1>7, <1>8, <2>1
  <2> QED BY <2>2
<1> QED BY <1>1, <1>8, <1>9, <1>10 DEF kind

\* The deliveries of an emission go to the receivers of its object's name and
\* along its edges, and carry its message.
Along(g, e, d) ==
  ~d.named /\ \E i \in 1..Len(g.edges) : g.edges[i].from = Output(e) /\ d.to = g.edges[i].to

Delivery(g, e, d) ==
  /\ d.message = e.message
  /\ Along(g, e, d) \/ (NodeOf(g, e.node).send # "" /\ NamedTo(g, e, NodeOf(g, e.node).send, d))

Wired(g, e, i) ==
  /\ g.edges[i].from = Output(e) /\ g.edges[i].to[1] \in NodeIds(g)
  /\ supports_runtime_control_events(NodeOf(g, g.edges[i].to[1]).kind)

Hears(g, e, k) ==
  /\ NodeOf(g, e.node).send # ""
  /\ g.nodes[k].id # e.node /\ g.nodes[k].receive = NodeOf(g, e.node).send
  /\ object_accepts_data_kind(g.nodes[k], data_kind_for_control_message(e.message))

LEMMA DeliveriesFacts ==
    ASSUME NEW g \in Graphs, NEW e
    PROVE  /\ IsSeq(deliveries(g, e))
           /\ \A d \in ToSet(deliveries(g, e)) : Delivery(g, e, d)
           /\ \A i \in 1..Len(g.edges) : Wired(g, e, i) =>
                \E d \in ToSet(deliveries(g, e)) : d.to = g.edges[i].to
           /\ \A k \in 1..Len(g.nodes) : Hears(g, e, k) =>
                \E d \in ToSet(deliveries(g, e)) : d.to = <<g.nodes[k].id, "in">>
<1> DEFINE channel == NodeOf(g, e.node).send
           by_name == IF channel = "" THEN <<>> ELSE apply_receive_name_updates(g, e, channel)
           along == AlongEdges(g, e)
<1>1. deliveries(g, e) = by_name \o along
  BY DEF deliveries
<1>2. IsSeq(by_name) /\ (channel = "" => ToSet(by_name) = {})
  BY NamedFacts, NothingIn
<1>3. IsSeq(along)
  BY AlongEdgesFacts
<1>4. IsSeq(deliveries(g, e)) /\ ToSet(deliveries(g, e)) = ToSet(by_name) \cup ToSet(along)
  <2> DEFINE all == deliveries(g, e)
  <2>1. all = by_name \o along
    BY <1>1
  <2> HIDE DEF by_name, along, all
  <2>2. IsSeq(by_name \o along) /\ ToSet(by_name \o along) = ToSet(by_name) \cup ToSet(along)
    BY <1>2, <1>3, JoinFacts
  <2> QED BY <2>1, <2>2 DEF all
<1>5. channel # "" => by_name = apply_receive_name_updates(g, e, channel)
  OBVIOUS
<1> DEFINE kind == data_kind_for_control_message(e.message)
           all == deliveries(g, e)
<1>6. ASSUME NEW d \in ToSet(all) PROVE Delivery(g, e, d)
  <2>1. CASE d \in ToSet(along)
    <3> HIDE DEF channel, kind, all, by_name
    <3>1. /\ d.message = e.message /\ ~d.named
          /\ \E i \in 1..Len(g.edges) : g.edges[i].from = Output(e) /\ d.to = g.edges[i].to
      BY <2>1, AlongEdgesFacts
    <3> QED BY <3>1 DEF Delivery, Along
  <2>2. CASE d \in ToSet(by_name)
    <3>1. channel # "" /\ d \in ToSet(apply_receive_name_updates(g, e, channel))
      BY <1>2, <1>5, <2>2
    <3> HIDE DEF channel, all, by_name, along
    <3>2. NamedTo(g, e, channel, d)
      BY <3>1, NamedFacts
    <3> QED BY <3>1, <3>2 DEF Delivery, channel, NamedTo
  <2> QED BY <1>4, <1>6, <2>1, <2>2
<1>7. ASSUME NEW i \in 1..Len(g.edges), Wired(g, e, i)
      PROVE  \E d \in ToSet(all) : d.to = g.edges[i].to
  <2>1. \E d \in ToSet(along) : d.to = g.edges[i].to
    BY <1>7, AlongEdgesFacts DEF Wired
  <2> QED BY <1>4, <2>1
<1>8. ASSUME NEW k \in 1..Len(g.nodes), Hears(g, e, k)
      PROVE  \E d \in ToSet(all) : d.to = <<g.nodes[k].id, "in">>
  <2>0. /\ channel # "" /\ g.nodes[k].id # e.node /\ g.nodes[k].receive = channel
        /\ object_accepts_data_kind(g.nodes[k], kind)
    BY <1>8 DEF Hears
  <2> HIDE DEF channel, all, by_name, along
  <2>1. \E d \in ToSet(apply_receive_name_updates(g, e, channel)) : d.to = <<g.nodes[k].id, "in">>
    BY <2>0, NamedFacts
  <2> HIDE DEF kind
  <2> QED BY <1>4, <1>5, <2>0, <2>1 DEF all
<1> QED BY <1>4, <1>6, <1>7, <1>8

-----------------------------------------------------------------------------
(* Types.                                                                  *)

\* One channel more, or a newer message in it.
Fills(before, after, key, m) ==
  /\ DOMAIN after.channels = DOMAIN before.channels \cup {key}
  /\ after.channels[key] = m
  /\ \A k \in DOMAIN before.channels : k # key => after.channels[k] = before.channels[k]

Publishes(g, e, before, after) ==
  /\ after.values = before.values
  /\ NodeOf(g, e.node).send = "" => after = before
  /\ NodeOf(g, e.node).send # "" =>
       Fills(before, after, <<data_kind_for_control_message(e.message), NodeOf(g, e.node).send>>, e.message)

LEMMA PublishFacts ==
    ASSUME NEW g, NEW st, ValuesOK(g, st), NEW e
    PROVE  /\ ValuesOK(g, publish_object_channel(g, st, e))
           /\ Publishes(g, e, st, publish_object_channel(g, st, e))
<1> DEFINE after == publish_object_channel(g, st, e)
           name == NodeOf(g, e.node).send
           key == <<data_kind_for_control_message(e.message), name>>
           channels == [k \in DOMAIN st.channels \cup {key} |-> IF k = key THEN e.message ELSE st.channels[k]]
<1>1. after = IF name = "" THEN st ELSE [st EXCEPT !.channels = channels]
  BY DEF publish_object_channel
<1>2. /\ DOMAIN channels = DOMAIN st.channels \cup {key} /\ channels[key] = e.message
      /\ \A k \in DOMAIN st.channels : k # key => channels[k] = st.channels[k]
  OBVIOUS
<1> HIDE DEF after, name, key, channels
<1>3. DOMAIN st = {"values", "right", "channels"}
  BY DEF ValuesOK
<1>4. /\ after.values = st.values /\ DOMAIN after = DOMAIN st
      /\ name # "" => after.channels = channels
  BY <1>1, <1>3
<1>5. ValuesOK(g, after)
  BY <1>4 DEF ValuesOK
<1>6. name # "" => Fills(st, after, key, e.message)
  BY <1>2, <1>4 DEF Fills
<1> QED BY <1>1, <1>4, <1>5, <1>6 DEF key, name, after, Publishes

LEMMA TouchedEmits ==
    ASSUME NEW g, NEW st, NEW id, NEW r, Touches(g, st, id, r)
    PROVE  IsSeq(r.emitted) /\ \A e \in ToSet(r.emitted) : e.node = id
<1>1. CASE r.emitted = <<>>
  BY <1>1, NothingIn
<1>2. ASSUME NEW e, r.emitted = <<e>>, e.node = id
      PROVE  IsSeq(r.emitted) /\ \A x \in ToSet(r.emitted) : x.node = id
  BY <1>2, OneIn
<1> QED BY <1>1, <1>2 DEF Touches

LEMMA InitialShape == Init => ShapeInv
<1> SUFFICES ASSUME Init PROVE ShapeInv
  OBVIOUS
<1>1. graph \in Graphs /\ state = from_graph(graph) /\ staged = state
  BY DEF Init
<1>2. ValuesOK(graph, state)
  <2>1. DOMAIN state = {"values", "right", "channels"}
    BY <1>1 DEF from_graph
  <2>2. \A id \in DOMAIN state.values : state.values[id] = for_node_default(NodeOf(graph, id))
    BY <1>1 DEF from_graph
  <2> QED BY <1>1, <2>1, <2>2 DEF ValuesOK, Keeps, KeptBy
<1>3. stack = <<>> /\ pending = <<>> /\ emitted = <<>> /\ busy = FALSE
  BY DEF Init
<1>4. IsSeq(stack) /\ IsSeq(pending) /\ ToSet(stack) = {}
  BY <1>3, NothingIn
<1> QED BY <1>1, <1>2, <1>3, <1>4 DEF ShapeInv

LEMMA AbortShape ==
    ASSUME ShapeInv, Abort
    PROVE  ShapeInv'
<1>1. /\ graph' = graph /\ state' = state /\ staged' = state
      /\ stack' = <<>> /\ pending' = <<>> /\ emitted' = <<>> /\ busy' = FALSE
  BY DEF Abort
<1>2. graph \in Graphs /\ ValuesOK(graph, state)
  BY DEF ShapeInv
<1>3. IsSeq(stack') /\ IsSeq(pending') /\ ToSet(stack') = {}
  BY <1>1, NothingIn
<1>4. ValuesOK(graph', state') /\ ValuesOK(graph', staged')
  BY <1>1, <1>2
<1> QED BY <1>1, <1>2, <1>3, <1>4 DEF ShapeInv

LEMMA BeginEventShape ==
    ASSUME ShapeInv, NEW request \in Events, BeginEvent(request)
    PROVE  ShapeInv'
<1> DEFINE r == apply_event_direct(graph, state, request.node, request.port, request.message)
<1>1. /\ graph' = graph /\ state' = state /\ staged' = r.st /\ stack' = r.emitted
      /\ pending' = pending /\ busy' = TRUE
  BY DEF BeginEvent
<1>2. graph \in Graphs /\ ValuesOK(graph, state) /\ IsSeq(pending)
  BY DEF ShapeInv
<1>3. /\ Touches(graph, state, request.node, r) /\ ValuesOK(graph, r.st)
      /\ r.emitted # <<>> => request.node \in NodeIds(graph)
  BY <1>2, DirectTouches
<1> HIDE DEF r
<1>4. IsSeq(r.emitted) /\ \A e \in ToSet(r.emitted) : e.node = request.node
  BY <1>3, TouchedEmits
<1>5. \A e \in ToSet(r.emitted) : e.node \in NodeIds(graph)
  BY <1>3, <1>4, NothingIn
<1>6. ValuesOK(graph', state') /\ ValuesOK(graph', staged') /\ graph' \in Graphs
  BY <1>1, <1>2, <1>3
<1>7. IsSeq(stack') /\ IsSeq(pending') /\ \A e \in ToSet(stack') : e.node \in NodeIds(graph')
  BY <1>1, <1>2, <1>4, <1>5
<1> QED BY <1>1, <1>6, <1>7 DEF ShapeInv

LEMMA BeginRoundShape ==
    ASSUME ShapeInv, BeginRound
    PROVE  ShapeInv'
<1> DEFINE e == Last(stack)
<1>1. CASE visited + 1 > Limit(graph)
  <2>1. Abort
    BY <1>1 DEF BeginRound
  <2> QED BY <2>1, AbortShape
<1>2. CASE ~(visited + 1 > Limit(graph))
  <2>1. /\ graph' = graph /\ state' = state /\ busy' = busy /\ busy /\ stack # <<>>
        /\ staged' = publish_object_channel(graph, staged, e)
        /\ stack' = Front(stack) /\ pending' = deliveries(graph, e)
    BY <1>2 DEF BeginRound
  <2>2. /\ graph \in Graphs /\ ValuesOK(graph, state) /\ ValuesOK(graph, staged) /\ IsSeq(stack)
        /\ \A x \in ToSet(stack) : x.node \in NodeIds(graph)
    BY DEF ShapeInv
  <2> HIDE DEF e
  <2>3. ValuesOK(graph, publish_object_channel(graph, staged, e))
    BY <2>2, PublishFacts
  <2>4. IsSeq(Front(stack)) /\ ToSet(Front(stack)) \subseteq ToSet(stack)
    BY <2>1, <2>2, FrontFacts
  <2>5. IsSeq(deliveries(graph, e))
    BY <2>2, DeliveriesFacts
  <2>6. ValuesOK(graph', state') /\ ValuesOK(graph', staged') /\ graph' \in Graphs
    BY <2>1, <2>2, <2>3
  <2>7. IsSeq(stack') /\ IsSeq(pending') /\ \A x \in ToSet(stack') : x.node \in NodeIds(graph')
    BY <2>1, <2>2, <2>4, <2>5
  <2> QED BY <2>1, <2>6, <2>7 DEF ShapeInv
<1> QED BY <1>1, <1>2

LEMMA DeliverShape ==
    ASSUME ShapeInv, Deliver
    PROVE  ShapeInv'
<1> DEFINE d == Head(pending)
           r == apply_event_direct(graph, staged, d.to[1], d.to[2], d.message)
<1>1. CASE ~r.ok /\ ~d.named
  <2>1. Abort
    BY <1>1 DEF Deliver
  <2> QED BY <2>1, AbortShape
<1>2. CASE r.ok \/ d.named
  <2>1. /\ graph' = graph /\ state' = state /\ busy' = busy /\ busy /\ pending # <<>>
        /\ staged' = r.st /\ stack' = stack \o r.emitted /\ pending' = Tail(pending)
    BY <1>2 DEF Deliver
  <2>2. /\ graph \in Graphs /\ ValuesOK(graph, state) /\ ValuesOK(graph, staged)
        /\ IsSeq(stack) /\ IsSeq(pending)
        /\ \A x \in ToSet(stack) : x.node \in NodeIds(graph)
    BY DEF ShapeInv
  <2>3. /\ Touches(graph, staged, d.to[1], r) /\ ValuesOK(graph, r.st)
        /\ r.emitted # <<>> => d.to[1] \in NodeIds(graph)
    BY <2>2, DirectTouches
  <2> HIDE DEF d, r
  <2>4. IsSeq(r.emitted) /\ \A x \in ToSet(r.emitted) : x.node = d.to[1]
    BY <2>3, TouchedEmits
  <2>5. \A x \in ToSet(r.emitted) : x.node \in NodeIds(graph)
    BY <2>3, <2>4, NothingIn
  <2>6. IsSeq(stack \o r.emitted) /\ ToSet(stack \o r.emitted) = ToSet(stack) \cup ToSet(r.emitted)
    BY <2>2, <2>4, JoinFacts
  <2>7. IsSeq(Tail(pending))
    BY <2>1, <2>2, TailFacts
  <2>8. ValuesOK(graph', state') /\ ValuesOK(graph', staged') /\ graph' \in Graphs
    BY <2>1, <2>2, <2>3
  <2>9. IsSeq(stack') /\ IsSeq(pending') /\ \A x \in ToSet(stack') : x.node \in NodeIds(graph')
    BY <2>1, <2>2, <2>5, <2>6, <2>7
  <2> QED BY <2>1, <2>8, <2>9 DEF ShapeInv
<1> QED BY <1>1, <1>2

LEMMA CommitShape ==
    ASSUME ShapeInv, Commit
    PROVE  ShapeInv'
<1>1. /\ graph' = graph /\ state' = staged /\ staged' = staged /\ busy' = FALSE
      /\ stack' = <<>> /\ pending' = <<>> /\ emitted' = <<>>
  BY DEF Commit
<1>2. graph \in Graphs /\ ValuesOK(graph, staged)
  BY DEF ShapeInv
<1>3. IsSeq(stack') /\ IsSeq(pending') /\ ToSet(stack') = {}
  BY <1>1, NothingIn
<1>4. ValuesOK(graph', state') /\ ValuesOK(graph', staged')
  BY <1>1, <1>2
<1> QED BY <1>1, <1>2, <1>3, <1>4 DEF ShapeInv

LEMMA ShapeNext == ShapeInv /\ [Next]_vars => ShapeInv'
<1> SUFFICES ASSUME ShapeInv, [Next]_vars PROVE ShapeInv'
  OBVIOUS
<1>1. CASE \E request \in Events : BeginEvent(request)
  BY <1>1, BeginEventShape
<1>2. CASE BeginRound
  BY <1>2, BeginRoundShape
<1>3. CASE Deliver
  BY <1>3, DeliverShape
<1>4. CASE Commit
  BY <1>4, CommitShape
<1>5. CASE UNCHANGED vars
  BY <1>5 DEF vars, ShapeInv
<1> QED BY <1>1, <1>2, <1>3, <1>4, <1>5 DEF Next

(* What every object may hold, in the installed state and in the copy an event
   works on, with the shape of the loop's stack and deliveries: also the values
   an event leaves half-way keep type and range, overflow to infinity excepted. *)
THEOREM ShapeInvariant == Spec => []ShapeInv
<1> QED BY InitialShape, ShapeNext, PTL DEF Spec

(* Whatever graphs, requests and ranges: an object keeps a value of its own type
   and representation, which is the unchecked parameter or within the range of
   the representation; a float of a narrow representation may have overflowed to
   infinity, and an operator holds a finite 64-bit number (value_from_message,
   quantize_float, evaluate_operator, for_node_default). *)
THEOREM TypesAreKept == Spec => []ValuesKeepTheirType
<1>1. ShapeInv => ValuesKeepTheirType
  BY DEF ShapeInv, ValuesOK, Keeps, ValuesKeepTheirType
<1> QED BY <1>1, ShapeInvariant, PTL

-----------------------------------------------------------------------------
(* Receivers follow their channel.                                         *)

LEMMA Unique ==
    ASSUME NEW g \in Graphs, NEW k \in 1..Len(g.nodes)
    PROVE  g.nodes[k].id \in NodeIds(g) /\ NodeOf(g, g.nodes[k].id) = g.nodes[k]
<1> DEFINE id == g.nodes[k].id
<1>1. id \in NodeIds(g)
  BY DEF NodeIds
<1>2. \A i \in 1..Len(g.nodes) : g.nodes[i].id = id => i = k
  BY GraphsAssumption
<1>3. (CHOOSE i \in 1..Len(g.nodes) : g.nodes[i].id = id) = k
  BY <1>2
<1> QED BY <1>1, <1>3 DEF NodeOf

\* The parts of a receiver's invariant that a step leaves alone.
LEMMA FollowedSame ==
    ASSUME NEW id, NEW a, NEW b, Followed(a, id),
           b.values[id] = a.values[id], b.channels = a.channels
    PROVE  Followed(b, id)
BY DEF Followed, Sources

LEMMA NumericFacts ==
    ASSUME NEW st, ValuesOK(graph, st), NEW id, IsNumeric(id)
    PROVE  /\ id \in NodeIds(graph) /\ NodeOf(graph, id).kind \in NumberKinds
           /\ NodeOf(graph, id).id = id
           /\ id \in DOMAIN st.values
           /\ Type(Default(id)) \in NumberKinds
           /\ Type(st.values[id]) = Type(Default(id)) /\ Rep(st.values[id]) = Rep(Default(id))
<1>1. id \in NodeIds(graph) /\ NodeOf(graph, id).kind \in NumberKinds
  BY DEF IsNumeric, NumberKinds
<1> QED BY <1>1, NodeFacts, DefaultOfNumber DEF Default

\* A request at another object, or one delivery to it, leaves the value alone.
LEMMA OthersStay ==
    ASSUME NEW st, ValuesOK(graph, st), NEW id \in DOMAIN st.values, NEW other, other # id, NEW r,
           Touches(graph, st, other, r)
    PROVE  r.st.values[id] = st.values[id] /\ r.st.channels = st.channels
BY DEF Touches

LEMMA RoundRoutes ==
    ASSUME graph \in Graphs, ValuesOK(graph, staged), NEW id \in NodeIds(graph), Receiver(id),
           Followed(staged, id), NEW e
    PROVE  Routes(id, publish_object_channel(graph, staged, e), deliveries(graph, e))
<1> DEFINE name == NodeOf(graph, e.node).send
           kind == data_kind_for_control_message(e.message)
           key == <<kind, name>>
           node == NodeOf(graph, id)
           after == publish_object_channel(graph, staged, e)
           all == deliveries(graph, e)
<1>1. /\ after.values = staged.values
      /\ name = "" => after = staged
      /\ name # "" => Fills(staged, after, key, e.message)
  <2> HIDE DEF after
  <2>1. Publishes(graph, e, staged, after)
    BY PublishFacts DEF after
  <2> QED BY <2>1 DEF Publishes
<1>2. /\ IsNumeric(id) /\ EdgesInto(id) = {} /\ node.receive # "" /\ node.send # node.receive
  BY DEF Receiver
<1>3. node.kind \in NumberKinds /\ node.id = id
  BY <1>2, NumericFacts
<1>4. \A k : object_accepts_data_kind(node, k) <=> k \in NumericKinds
  BY <1>3 DEF object_accepts_data_kind, NumberKinds
<1>5. /\ \A d \in ToSet(all) : Delivery(graph, e, d)
      /\ \A k \in 1..Len(graph.nodes) : Hears(graph, e, k) =>
           \E d \in ToSet(all) : d.to = <<graph.nodes[k].id, "in">>
  BY DeliveriesFacts
<1> HIDE DEF after, all
<1>6. ASSUME NEW d \in ToSet(all), d.to[1] = id PROVE Routed(d, id, after)
  <2>1. Delivery(graph, e, d)
    BY <1>5
  <2>2. ~Along(graph, e, d)
    BY <1>2, <1>6 DEF Along, EdgesInto
  <2>3. d.message = e.message /\ name # "" /\ NamedTo(graph, e, name, d)
    BY <2>1, <2>2 DEF Delivery
  <2> HIDE DEF name
  <2>4. PICK k \in 1..Len(graph.nodes) :
          /\ d.to = <<graph.nodes[k].id, "in">>
          /\ graph.nodes[k].receive = name
          /\ object_accepts_data_kind(graph.nodes[k], kind)
    BY <2>3 DEF NamedTo
  <2>5. graph.nodes[k].id = id /\ d.to = <<id, "in">>
    BY <1>6, <2>4
  <2>6. node = graph.nodes[k]
    BY <2>5, Unique
  <2>7. kind \in NumericKinds /\ name = node.receive /\ d.named
    BY <1>4, <2>3, <2>4, <2>6 DEF NamedTo
  <2>8. key \in DOMAIN after.channels /\ after.channels[key] = d.message
    BY <1>1, <2>3 DEF Fills
  <2> QED BY <2>3, <2>5, <2>7, <2>8 DEF Routed
<1>7. Followed(after, id) \/ (~Stuck(id) /\ \E d \in ToSet(all) : d.to[1] = id)
  <2>1. CASE Stuck(id)
    BY <1>1, <2>1 DEF Followed
  <2>2. CASE ~Stuck(id) /\ name = node.receive /\ kind \in NumericKinds
    <3>1. PICK k \in 1..Len(graph.nodes) : node = graph.nodes[k]
      BY NodeFacts
    <3>2. e.node # id
      BY <1>2, <2>2
    <3>3. Hears(graph, e, k)
      BY <1>2, <1>3, <1>4, <2>2, <3>1, <3>2 DEF Hears
    <3>4. PICK d \in ToSet(all) : d.to = <<graph.nodes[k].id, "in">>
      BY <1>5, <3>3
    <3>5. d.to[1] = id
      BY <1>3, <3>1, <3>4
    <3> QED BY <2>2, <3>5
  <2>3. CASE ~Stuck(id) /\ ~(name = node.receive /\ kind \in NumericKinds)
    <3> HIDE DEF name, kind, node
    <3>0. key[1] = kind /\ key[2] = name
      OBVIOUS
    <3> HIDE DEF key
    <3>1. Sources(after, node.receive) = Sources(staged, node.receive)
      BY <1>1, <2>3, <3>0 DEF Sources, Fills
    <3>2. \A k \in Sources(staged, node.receive) : after.channels[k] = staged.channels[k]
      BY <1>1, <2>3, <3>0 DEF Sources, Fills
    <3> QED BY <1>1, <2>3, <3>1, <3>2 DEF Followed, node
  <2> QED BY <2>1, <2>2, <2>3
<1> QED BY <1>6, <1>7 DEF Routes, after, all

LEMMA DeliveryRoutes ==
    ASSUME graph \in Graphs, ValuesOK(graph, staged), IsSeq(pending), pending # <<>>,
           NEW id \in NodeIds(graph), Receiver(id), Routes(id, staged, pending),
           NEW r, r = apply_event_direct(graph, staged, Head(pending).to[1], Head(pending).to[2],
                                         Head(pending).message)
    PROVE  Routes(id, r.st, Tail(pending))
<1> DEFINE d == Head(pending)
<1>1. ToSet(pending) = ToSet(Tail(pending)) \cup {d}
  BY TailFacts
<1>2. Touches(graph, staged, d.to[1], r) /\ (~r.ok => r.st = staged)
  BY DirectTouches
<1>3. /\ NodeOf(graph, id).kind \in NumberKinds /\ id \in DOMAIN staged.values
      /\ Type(Default(id)) \in NumberKinds
      /\ Type(staged.values[id]) = Type(Default(id)) /\ Rep(staged.values[id]) = Rep(Default(id))
  BY NumericFacts DEF Receiver
<1>4. r.st.channels = staged.channels
  BY <1>2 DEF Touches
<1>5. \A x \in ToSet(Tail(pending)) : x.to[1] = id => Routed(x, id, r.st)
  <2> SUFFICES ASSUME NEW x \in ToSet(Tail(pending)), x.to[1] = id PROVE Routed(x, id, r.st)
    OBVIOUS
  <2>1. Routed(x, id, staged)
    BY <1>1 DEF Routes
  <2> QED BY <1>4, <2>1 DEF Routed
<1>6. CASE d.to[1] # id
  <2> HIDE DEF d
  <2>1. r.st.values[id] = staged.values[id]
    BY <1>2, <1>3, <1>6, OthersStay
  <2>2. Followed(staged, id) => Followed(r.st, id)
    BY <1>4, <2>1, FollowedSame
  <2>3. (\E x \in ToSet(pending) : x.to[1] = id) => \E x \in ToSet(Tail(pending)) : x.to[1] = id
    BY <1>1, <1>6
  <2> QED BY <1>5, <2>2, <2>3 DEF Routes
<1>7. CASE d.to[1] = id
  <2> DEFINE m == d.message
             kind == data_kind_for_control_message(m)
             key == <<kind, NodeOf(graph, id).receive>>
             next == value_from_message(m, staged.values[id])
  <2>1. Routed(d, id, staged)
    BY <1>1, <1>7 DEF Routes
  <2>2. /\ d.to = <<id, "in">> /\ kind \in NumericKinds
        /\ key \in DOMAIN staged.channels /\ staged.channels[key] = m
    BY <2>1 DEF Routed
  <2>3. r = apply_event_direct(graph, staged, id, "in", m)
    BY <2>2
  <2> HIDE DEF d, m, next
  <2>4. ~is_bang_message(m) /\ (next = <<>> <=> Stuck(id))
    <3>1. value_from_message(m, staged.values[id]) = value_from_message(m, Default(id))
      BY <1>3, SameTypeConverts
    <3>2. /\ ~is_bang_message(m)
          /\ value_from_message(m, Default(id)) = <<>>
               <=> value_from_message(Message("int", <<int(0)>>), Default(id)) = <<>>
      BY <1>3, <2>2, NumbersConvert DEF NumberKinds
    <3> QED BY <3>1, <3>2 DEF Stuck, next
  <2>5. "in" \in NodeOf(graph, id).inputs
    BY DEF Receiver
  <2>6. /\ r.ok => is_bang_message(m) \/ next = <<r.st.values[id]>>
        /\ IF next = <<>> THEN r = Refused(staged) ELSE r.ok
    <3> USE DEF next
    <3>1. /\ r.ok => \/ is_bang_message(m) /\ r.st = staged
                     \/ next = <<r.st.values[id]>>
          /\ ("in" = "in" /\ "in" \in NodeOf(graph, id).inputs /\ ~is_bang_message(m)) =>
               IF next = <<>> THEN r = Refused(staged) ELSE r.ok
      BY <1>3, <2>3, NumberOutcome
    <3> HIDE DEF next
    <3> QED BY <2>4, <2>5, <3>1
  <2>7. CASE Stuck(id)
    <3>1. r.st = staged
      BY <2>4, <2>6, <2>7, RefusedFacts
    <3>2. Followed(staged, id)
      BY <2>7 DEF Routes
    <3> QED BY <1>5, <3>1, <3>2 DEF Routes
  <2>8. CASE ~Stuck(id)
    <3>1. next = <<r.st.values[id]>>
      BY <2>4, <2>6, <2>8
    <3>2. value_from_message(m, Default(id)) = next
      BY <1>3, SameTypeConverts DEF next
    <3>3. key \in Sources(r.st, NodeOf(graph, id).receive) /\ r.st.channels[key] = m
      BY <1>4, <2>2 DEF Sources
    <3>4. Followed(r.st, id)
      <4> HIDE DEF key
      <4> QED BY <2>8, <3>1, <3>2, <3>3 DEF Followed
    <3> QED BY <1>5, <3>4 DEF Routes
  <2> QED BY <2>7, <2>8
<1> QED BY <1>6, <1>7

\* The definitions of a receiver's invariant speak of the graph alone.
LEMMA SameGraphReceivers ==
    ASSUME graph' = graph, NEW id
    PROVE  /\ Receiver(id)' <=> Receiver(id)
           /\ Default(id)' = Default(id) /\ (Stuck(id)' <=> Stuck(id))
BY DEF Receiver, IsNumeric, EdgesInto, Addressed, Default, Stuck

LEMMA ReceiverStep ==
    ASSUME graph' = graph,
           \A id \in NodeIds(graph) : Receiver(id) =>
             /\ Followed(state', id)
             /\ busy' => Routes(id, staged', pending')
    PROVE  ReceiverInv'
<1> SUFFICES ASSUME NEW id \in NodeIds(graph'), Receiver(id)'
             PROVE  Followed(state, id)' /\ (busy' => Routes(id, staged, pending)')
  BY DEF ReceiverInv
<1>1. id \in NodeIds(graph) /\ Receiver(id)
  BY SameGraphReceivers
<1>2. Followed(state', id) /\ (busy' => Routes(id, staged', pending'))
  BY <1>1
<1>3. Default(id)' = Default(id) /\ (Stuck(id)' <=> Stuck(id))
  BY SameGraphReceivers
<1>4. Followed(state, id)' /\ (Followed(staged, id)' <=> Followed(staged', id))
  BY <1>2, <1>3 DEF Followed
<1>5. ASSUME NEW d PROVE Routed(d, id, staged)' <=> Routed(d, id, staged')
  BY DEF Routed
<1>6. Routes(id, staged', pending') => Routes(id, staged, pending)'
  BY <1>3, <1>4, <1>5 DEF Routes
<1> QED BY <1>2, <1>4, <1>6

LEMMA InitialReceivers == Init => ReceiverInv
<1> SUFFICES ASSUME Init, NEW id \in NodeIds(graph), Receiver(id)
             PROVE  Followed(state, id) /\ ~busy
  BY DEF ReceiverInv
<1>1. state = from_graph(graph) /\ ~busy
  BY DEF Init
<1>2. id \in DOMAIN state.values
  BY InitialShape, NumericFacts DEF ShapeInv, Receiver
<1>3. state.values[id] = Default(id)
  BY <1>1, <1>2 DEF from_graph, Default
<1>4. Sources(state, NodeOf(graph, id).receive) = {}
  BY <1>1 DEF Sources, from_graph
<1> QED BY <1>1, <1>3, <1>4 DEF Followed

LEMMA ReceiverNext == ShapeInv /\ ReceiverInv /\ [Next]_vars => ReceiverInv'
<1> SUFFICES ASSUME ShapeInv, ReceiverInv, [Next]_vars PROVE ReceiverInv'
  OBVIOUS
<1>1. /\ graph \in Graphs /\ ValuesOK(graph, state) /\ ValuesOK(graph, staged)
      /\ IsSeq(stack) /\ IsSeq(pending) /\ busy \in BOOLEAN
      /\ ~busy => pending = <<>>
  BY DEF ShapeInv
<1>2. \A id \in NodeIds(graph) : Receiver(id) =>
        Followed(state, id) /\ (busy => Routes(id, staged, pending))
  BY DEF ReceiverInv
<1>3. ASSUME Abort PROVE ReceiverInv'
  <2>1. graph' = graph /\ state' = state /\ busy' = FALSE
    BY <1>3 DEF Abort
  <2> QED BY <1>2, <2>1, ReceiverStep
<1>4. ASSUME NEW request \in Events, BeginEvent(request) PROVE ReceiverInv'
  <2> DEFINE r == apply_event_direct(graph, state, request.node, request.port, request.message)
  <2>1. graph' = graph /\ state' = state /\ staged' = r.st /\ pending' = <<>>
    BY <1>1, <1>4 DEF BeginEvent
  <2>2. Touches(graph, state, request.node, r)
    BY <1>1, DirectTouches
  <2> HIDE DEF r
  <2>3. ASSUME NEW id \in NodeIds(graph), Receiver(id) PROVE Routes(id, r.st, <<>>)
    <3>1. request.node # id
      BY <2>3 DEF Receiver, Addressed
    <3>2. id \in DOMAIN state.values
      BY <1>1, <2>3, NumericFacts DEF Receiver
    <3>3. r.st.values[id] = state.values[id] /\ r.st.channels = state.channels
      BY <1>1, <2>2, <3>1, <3>2, OthersStay
    <3>4. Followed(r.st, id)
      BY <1>2, <2>3, <3>3, FollowedSame
    <3> QED BY <3>4, NothingIn DEF Routes
  <2> QED BY <1>2, <2>1, <2>3, ReceiverStep
<1>5. ASSUME BeginRound PROVE ReceiverInv'
  <2> DEFINE e == Last(stack)
  <2>1. CASE visited + 1 > Limit(graph)
    BY <1>3, <1>5, <2>1 DEF BeginRound
  <2>2. CASE ~(visited + 1 > Limit(graph))
    <3>1. /\ graph' = graph /\ state' = state /\ busy /\ pending = <<>>
          /\ staged' = publish_object_channel(graph, staged, e) /\ pending' = deliveries(graph, e)
      BY <1>5, <2>2 DEF BeginRound
    <3> HIDE DEF e
    <3>2. ASSUME NEW id \in NodeIds(graph), Receiver(id) PROVE Routes(id, staged', pending')
      <4>1. Followed(staged, id)
        BY <1>2, <3>1, <3>2, NothingIn DEF Routes
      <4> QED BY <1>1, <3>1, <3>2, <4>1, RoundRoutes
    <3> QED BY <1>2, <3>1, <3>2, ReceiverStep
  <2> QED BY <2>1, <2>2
<1>6. ASSUME Deliver PROVE ReceiverInv'
  <2> DEFINE d == Head(pending)
             r == apply_event_direct(graph, staged, d.to[1], d.to[2], d.message)
  <2>1. CASE ~r.ok /\ ~d.named
    BY <1>3, <1>6, <2>1 DEF Deliver
  <2>2. CASE r.ok \/ d.named
    <3>1. /\ graph' = graph /\ state' = state /\ busy /\ pending # <<>>
          /\ staged' = r.st /\ pending' = Tail(pending)
      BY <1>6, <2>2 DEF Deliver
    <3>2. ASSUME NEW id \in NodeIds(graph), Receiver(id) PROVE Routes(id, r.st, Tail(pending))
      <4>1. Routes(id, staged, pending)
        BY <1>2, <3>1, <3>2
      <4> QED BY <1>1, <3>1, <3>2, <4>1, DeliveryRoutes
    <3> HIDE DEF r
    <3> QED BY <1>2, <3>1, <3>2, ReceiverStep
  <2> QED BY <2>1, <2>2
<1>7. ASSUME Commit PROVE ReceiverInv'
  <2>1. graph' = graph /\ state' = staged /\ busy' = FALSE /\ busy /\ pending = <<>>
    BY <1>7 DEF Commit
  <2>2. ASSUME NEW id \in NodeIds(graph), Receiver(id) PROVE Followed(staged, id)
    BY <1>2, <2>1, <2>2, NothingIn DEF Routes
  <2> QED BY <2>1, <2>2, ReceiverStep
<1>8. CASE UNCHANGED vars
  <2>1. graph' = graph /\ state' = state /\ staged' = staged /\ pending' = pending /\ busy' = busy
    BY <1>8 DEF vars
  <2> QED BY <1>2, <2>1, ReceiverStep
<1> QED BY <1>4, <1>5, <1>6, <1>7, <1>8 DEF Next

\* Receivers and their channel agree, in the staged copy up to what is on its way.
THEOREM ReceiverInvariant == Spec => []ReceiverInv
<1> QED BY InitialReceivers, ReceiverNext, ShapeInvariant, PTL DEF Spec

(* Whatever graphs, requests and refusals: an object fed by a channel alone holds
   what a numeric message stored in the channel converts to, or its parameter
   while none was sent (publish_object_channel, apply_receive_name_updates). *)
THEOREM ReceiversFollow == Spec => []ReceiversFollowChannel
<1>1. ShapeInv /\ ReceiverInv => ReceiversFollowChannel
  <2> SUFFICES ASSUME ShapeInv, ReceiverInv, NEW id \in DOMAIN state.values, Receiver(id)
               PROVE  LET node == NodeOf(graph, id)
                          default == for_node_default(node)
                          sources == {key \in DOMAIN state.channels :
                                        key[2] = node.receive /\ key[1] \in NumericKinds}
                      IN \/ state.values[id] = default /\ (sources = {} \/ value_from_message(
                                              Message("int", <<int(0)>>), default) = <<>>)
                         \/ \E key \in sources :
                              value_from_message(state.channels[key], default) = <<state.values[id]>>
    BY DEF ReceiversFollowChannel, Receiver
  <2>1. id \in NodeIds(graph)
    BY DEF Receiver, IsNumeric
  <2>2. Followed(state, id)
    BY <2>1 DEF ReceiverInv
  <2> QED BY <2>2 DEF Followed, Sources, Default, Stuck
<1> QED BY <1>1, ShapeInvariant, ReceiverInvariant, PTL

-----------------------------------------------------------------------------
(* Targets follow what is told of their source.                            *)

LEMMA TargetFacts ==
    ASSUME NEW st, ValuesOK(graph, st), NEW i, Target(i)
    PROVE  /\ IsNumeric(Into(i)) /\ Into(i) \in NodeIds(graph)
           /\ NodeOf(graph, Into(i)).kind \in NumberKinds /\ NodeOf(graph, Into(i)).id = Into(i)
           /\ Into(i) \in DOMAIN st.values
           /\ Type(st.values[Into(i)]) = Type(Default(Into(i)))
           /\ Rep(st.values[Into(i)]) = Rep(Default(Into(i)))
<1>1. IsNumeric(Into(i))
  BY DEF Target, Into
<1> QED BY <1>1, NumericFacts

\* Outputs an event does not emit on keep what is told of them.
LEMMA ToldSame ==
    ASSUME NEW told, NEW waiting, NEW more, NEW out,
           more = <<>> \/ \E e : more = <<e>> /\ Output(e) # out
    PROVE  /\ out \in DOMAIN Told(told, waiting, more) <=> out \in DOMAIN told
           /\ out \in DOMAIN told => Told(told, waiting, more)[out] = told[out]
<1>1. CASE more = <<>>
  BY <1>1 DEF Told
<1>2. ASSUME NEW e, more = <<e>>, Output(e) # out
      PROVE  /\ out \in DOMAIN Told(told, waiting, more) <=> out \in DOMAIN told
             /\ out \in DOMAIN told => Told(told, waiting, more)[out] = told[out]
  <2>1. more # <<>> /\ more[1] = e
    BY <1>2
  <2> QED BY <1>2, <2>1 DEF Told
<1> QED BY <1>1, <1>2

\* The newest message of an output, unless it overtakes another.
LEMMA ToldNew ==
    ASSUME NEW told, NEW waiting, NEW e, NEW out, Output(e) = out
    PROVE  /\ out \in DOMAIN Told(told, waiting, <<e>>)
           /\ Told(told, waiting, <<e>>)[out] =
                IF \E x \in waiting : Output(x) = out THEN <<>> ELSE <<e.message>>
<1>1. <<e>> # <<>> /\ <<e>>[1] = e
  OBVIOUS
<1> QED BY <1>1 DEF Told

\* What is emitted goes on the stack and is told.
LEMMA EmitCarries ==
    ASSUME NEW i, NEW before, NEW st, NEW stk, NEW pend, NEW told, NEW more, NEW joined,
           more = <<>> \/ \E e : more = <<e>>,
           ToSet(joined) = ToSet(stk) \cup ToSet(more),
           Carries(i, before, st, stk, pend, told)
    PROVE  Carries(i, before, st, joined, pend, Told(told, ToSet(stk), more))
<1> DEFINE new == Told(told, ToSet(stk), more)
<1>1. CASE more = <<>> \/ \E e : more = <<e>> /\ Output(e) # From(i)
  <2>1. /\ From(i) \in DOMAIN new <=> From(i) \in DOMAIN told
        /\ From(i) \in DOMAIN told => new[From(i)] = told[From(i)]
    BY <1>1, ToldSame
  <2> HIDE DEF new
  <2>2. \A e \in ToSet(more) : Output(e) # From(i)
    BY <1>1, NothingIn, OneIn
  <2>3. \A e : Output(e) = From(i) => (e \in ToSet(joined) <=> e \in ToSet(stk))
    BY <2>2
  <2>4. Waits(i, joined) <=> Waits(i, stk)
    BY <2>3 DEF Waits
  <2>5. \A m : Reaches(i, m, st, stk, pend) => Reaches(i, m, st, joined, pend)
    BY <2>3, <2>4 DEF Reaches
  <2>6. Carries(i, before, st, joined, pend, new)
    BY <2>1, <2>4, <2>5 DEF Carries
  <2> QED BY <2>6 DEF new
<1>2. ASSUME NEW e, more = <<e>>, Output(e) = From(i)
      PROVE  Carries(i, before, st, joined, pend, new)
  <2>1. /\ From(i) \in DOMAIN new
        /\ new[From(i)] = IF \E x \in ToSet(stk) : Output(x) = From(i) THEN <<>> ELSE <<e.message>>
    BY <1>2, ToldNew
  <2> HIDE DEF new
  <2>2. ToSet(joined) = ToSet(stk) \cup {e}
    BY <1>2, OneIn
  <2>3. \A d \in ToSet(pend) : d.to[1] = Into(i) => ~d.named
    BY DEF Carries
  <2>4. CASE Waits(i, stk)
    <3>1. new[From(i)] = <<>>
      BY <2>1, <2>4 DEF Waits
    <3>2. \A j : j \notin 1..Len(new[From(i)])
      BY <3>1
    <3> QED BY <2>1, <2>3, <3>2 DEF Carries
  <2>5. CASE ~Waits(i, stk)
    <3> DEFINE m == e.message
    <3>1. new[From(i)] = <<m>>
      BY <2>1, <2>5 DEF Waits
    <3>2. \A x \in ToSet(joined) : Output(x) = From(i) => x = e
      BY <2>2, <2>5 DEF Waits
    <3>3. Waits(i, joined)
      BY <1>2, <2>2 DEF Waits
    <3>4. Reaches(i, m, st, joined, pend)
      BY <3>2, <3>3 DEF Reaches
    <3> HIDE DEF m
    <3>5. \A j \in 1..Len(new[From(i)]) : new[From(i)][j] = m
      BY <3>1
    <3> QED BY <2>1, <2>3, <3>4, <3>5 DEF Carries
  <2> QED BY <2>4, <2>5
<1> QED BY <1>1, <1>2

\* A delivery at the target stores what its message converts to.
LEMMA DeliverCarries ==
    ASSUME graph \in Graphs, ValuesOK(graph, staged), IsSeq(pending), pending # <<>>,
           NEW i, Target(i), NEW before, NEW stk, NEW told,
           Carries(i, before, staged, stk, pending, told),
           NEW r, r = apply_event_direct(graph, staged, Head(pending).to[1], Head(pending).to[2],
                                         Head(pending).message),
           r.ok \/ Head(pending).named
    PROVE  Carries(i, before, r.st, stk, Tail(pending), told)
<1> DEFINE d == Head(pending)
           id == Into(i)
<1>1. ToSet(pending) = ToSet(Tail(pending)) \cup {d}
  BY TailFacts
<1>2. Touches(graph, staged, d.to[1], r) /\ ValuesOK(graph, r.st)
  BY DirectTouches
<1>3. /\ id \in NodeIds(graph) /\ NodeOf(graph, id).kind \in NumberKinds
      /\ id \in DOMAIN staged.values
      /\ Type(staged.values[id]) = Type(r.st.values[id]) /\ Rep(staged.values[id]) = Rep(r.st.values[id])
  BY <1>2, TargetFacts
<1>4. \A x \in ToSet(pending) : x.to[1] = Into(i) => ~x.named
  BY DEF Carries
<1>5. CASE d.to[1] # id
  <2> HIDE DEF d
  <2>1. r.st.values[id] = staged.values[id]
    BY <1>2, <1>3, <1>5, OthersStay
  <2>2. Comes(i, pending) <=> Comes(i, Tail(pending))
    BY <1>1, <1>5 DEF Comes
  <2>3. \A m : Reaches(i, m, staged, stk, pending) => Reaches(i, m, r.st, stk, Tail(pending))
    BY <1>1, <2>1, <2>2 DEF Reaches
  <2> QED BY <1>1, <1>4, <2>1, <2>2, <2>3 DEF Carries
<1>6. CASE d.to[1] = id
  <2>1. ~d.named /\ r.ok
    BY <1>1, <1>4, <1>6
  <2>2. Holds(d.message, r.st.values[id])
    <3> DEFINE next == value_from_message(d.message, staged.values[id])
    <3>1. r.ok => \/ is_bang_message(d.message) /\ r.st = staged
                  \/ next = <<r.st.values[id]>>
      BY <1>3, <1>6, NumberOutcome
    <3>2. next = value_from_message(d.message, r.st.values[id])
      BY <1>3, SameTypeConverts
    <3> QED BY <2>1, <3>1, <3>2 DEF Holds
  <2> HIDE DEF d
  <2>3. Comes(i, pending)
    BY <1>1, <1>6 DEF Comes
  <2>4. From(i) \in DOMAIN told
    BY <2>3 DEF Carries
  <2>5. ASSUME NEW m, Reaches(i, m, staged, stk, pending) PROVE Reaches(i, m, r.st, stk, Tail(pending))
    <3>1. ~Waits(i, stk) => d.message = m
      BY <1>1, <1>6, <2>5 DEF Reaches
    <3> QED BY <1>1, <2>2, <2>5, <3>1 DEF Reaches
  <2> QED BY <1>1, <1>4, <2>4, <2>5 DEF Carries
<1> QED BY <1>5, <1>6

\* A round puts the newest message of the source on its way to the target.
LEMMA RoundCarries ==
    ASSUME graph \in Graphs, ValuesOK(graph, staged), IsSeq(stack), stack # <<>>, pending = <<>>,
           NEW i \in 1..Len(graph.edges), Target(i), NEW before, NEW told,
           Carries(i, before, staged, stack, pending, told)
    PROVE  Carries(i, before, publish_object_channel(graph, staged, Last(stack)), Front(stack),
                   deliveries(graph, Last(stack)), told)
<1> DEFINE e == Last(stack)
           id == Into(i)
           after == publish_object_channel(graph, staged, e)
           all == deliveries(graph, e)
<1>1. after.values = staged.values
  <2>1. Publishes(graph, e, staged, after)
    BY PublishFacts
  <2> QED BY <2>1 DEF Publishes
<1>2. ToSet(stack) = ToSet(Front(stack)) \cup {e}
  BY FrontFacts
<1>3. ~Comes(i, pending)
  BY NothingIn DEF Comes
<1>4. ASSUME NEW d \in ToSet(all), d.to[1] = id
      PROVE  d.message = e.message /\ ~d.named /\ Output(e) = From(i)
  <2>1. Delivery(graph, e, d)
    BY DeliveriesFacts
  <2> HIDE DEF e, all
  <2>2. ~(NodeOf(graph, e.node).send # "" /\ NamedTo(graph, e, NodeOf(graph, e.node).send, d))
    <3> SUFFICES ASSUME NodeOf(graph, e.node).send # "", NamedTo(graph, e, NodeOf(graph, e.node).send, d)
                 PROVE  FALSE
      OBVIOUS
    <3>1. PICK k \in 1..Len(graph.nodes) :
            d.to = <<graph.nodes[k].id, "in">> /\ graph.nodes[k].receive = NodeOf(graph, e.node).send
      BY DEF NamedTo
    <3>2. graph.nodes[k].id = id
      <4>1. d.to[1] = id
        BY <1>4
      <4>2. d.to[1] = graph.nodes[k].id
        <5> DEFINE x == graph.nodes[k].id
                   y == d.to
        <5>1. y = <<x, "in">>
          BY <3>1
        <5> HIDE DEF x, y
        <5>2. y[1] = x
          BY <5>1
        <5> QED BY <5>2 DEF x, y
      <4> HIDE DEF id
      <4> QED BY <4>1, <4>2
    <3>3. NodeOf(graph, id) = graph.nodes[k]
      BY <3>2, Unique
    <3>4. NodeOf(graph, id).receive = ""
      BY DEF Target, Into
    <3> QED BY <3>1, <3>3, <3>4
  <2>3. d.message = e.message /\ Along(graph, e, d)
    BY <2>1, <2>2 DEF Delivery
  <2>4. PICK j \in 1..Len(graph.edges) : graph.edges[j].from = Output(e) /\ d.to = graph.edges[j].to
    BY <2>3 DEF Along
  <2>5. j \in EdgesInto(id)
    BY <1>4, <2>4 DEF EdgesInto
  <2>6. j = i
    BY <2>5 DEF Target, Into
  <2> QED BY <2>3, <2>4, <2>6 DEF Along, From
<1>5. Output(e) = From(i) => Comes(i, all)
  <2> SUFFICES ASSUME Output(e) = From(i) PROVE Comes(i, all)
    OBVIOUS
  <2>1. id \in NodeIds(graph) /\ NodeOf(graph, id).kind \in NumberKinds
    BY TargetFacts
  <2>2. supports_runtime_control_events(NodeOf(graph, id).kind)
    BY <2>1 DEF supports_runtime_control_events, NumberKinds, ValueKinds
  <2> HIDE DEF e
  <2>3. Wired(graph, e, i)
    BY <2>1, <2>2 DEF Wired, From, Into
  <2>4. PICK d \in ToSet(all) : d.to = graph.edges[i].to
    BY <2>3, DeliveriesFacts
  <2> QED BY <2>4 DEF Comes, Into
<1> HIDE DEF e, after, all
<1>6. CASE Output(e) # From(i)
  <2>1. ~Comes(i, all)
    BY <1>4, <1>6 DEF Comes
  <2>2. Waits(i, stack) <=> Waits(i, Front(stack))
    BY <1>2, <1>6 DEF Waits
  <2>3. \A m : Reaches(i, m, staged, stack, pending) => Reaches(i, m, after, Front(stack), all)
    <3> SUFFICES ASSUME NEW m, Reaches(i, m, staged, stack, pending)
                 PROVE  Reaches(i, m, after, Front(stack), all)
      OBVIOUS
    <3>1. ~Waits(i, Front(stack)) => Holds(m, after.values[Into(i)])
      BY <1>1, <1>3, <2>2 DEF Reaches
    <3>2. \A x \in ToSet(Front(stack)) : Output(x) = From(i) => x.message = m
      BY <1>2 DEF Reaches
    <3> QED BY <1>4, <1>6, <3>1, <3>2 DEF Reaches
  <2>4. Carries(i, before, after, Front(stack), all, told)
    BY <1>1, <1>4, <2>1, <2>2, <2>3 DEF Carries
  <2> QED BY <2>4 DEF e, after, all
<1>7. CASE Output(e) = From(i)
  <2>1. Waits(i, stack) /\ From(i) \in DOMAIN told
    BY <1>2, <1>7 DEF Waits, Carries
  <2>2. Comes(i, all)
    BY <1>5, <1>7
  <2>3. \A m : Reaches(i, m, staged, stack, pending) => Reaches(i, m, after, Front(stack), all)
    <3> SUFFICES ASSUME NEW m, Reaches(i, m, staged, stack, pending)
                 PROVE  Reaches(i, m, after, Front(stack), all)
      OBVIOUS
    <3>1. e.message = m
      BY <1>2, <1>7 DEF Reaches
    <3>2. \A x \in ToSet(Front(stack)) : Output(x) = From(i) => x.message = m
      BY <1>2 DEF Reaches
    <3> QED BY <1>4, <2>2, <3>1, <3>2 DEF Reaches
  <2>4. Carries(i, before, after, Front(stack), all, told)
    BY <1>4, <2>1, <2>3 DEF Carries
  <2> QED BY <2>4 DEF e, after, all
<1> QED BY <1>6, <1>7

LEMMA SameGraphTargets ==
    ASSUME graph' = graph, NEW i
    PROVE  /\ Target(i)' <=> Target(i)
           /\ From(i)' = From(i) /\ Into(i)' = Into(i)
           /\ Default(Into(i))' = Default(Into(i))
BY DEF Target, IsNumeric, EdgesInto, Addressed, From, Into, Default

LEMMA TargetStep ==
    ASSUME graph' = graph,
           \A i \in 1..Len(graph.edges) : Target(i) =>
             /\ Agrees(i, state', reported')
             /\ busy' => Carries(i, state', staged', stack', pending', emitted')
    PROVE  TargetInv'
<1> SUFFICES ASSUME NEW i \in 1..Len(graph'.edges), Target(i)'
             PROVE  /\ Agrees(i, state, reported)'
                    /\ (busy' => Carries(i, state, staged, stack, pending, emitted)')
  BY DEF TargetInv
<1>1. i \in 1..Len(graph.edges) /\ Target(i)
  BY SameGraphTargets
<1>2. /\ Agrees(i, state', reported')
      /\ busy' => Carries(i, state', staged', stack', pending', emitted')
  BY <1>1
<1>3. /\ From(i)' = From(i) /\ Into(i)' = Into(i)
      /\ Default(Into(i))' = Default(Into(i))
  BY SameGraphTargets
<1>4. Agrees(i, state, reported)' <=> Agrees(i, state', reported')
  BY <1>3 DEF Agrees
<1>5. /\ Waits(i, stack)' <=> Waits(i, stack')
      /\ Comes(i, pending)' <=> Comes(i, pending')
  BY <1>3 DEF Waits, Comes
<1>6. ASSUME NEW m PROVE Reaches(i, m, staged, stack, pending)' <=> Reaches(i, m, staged', stack', pending')
  BY <1>3, <1>5 DEF Reaches
<1>7. Carries(i, state', staged', stack', pending', emitted') => Carries(i, state, staged, stack, pending, emitted)'
  BY <1>3, <1>5, <1>6 DEF Carries
<1> QED BY <1>2, <1>4, <1>7

LEMMA InitialTargets == Init => TargetInv
<1> SUFFICES ASSUME Init, NEW i \in 1..Len(graph.edges), Target(i)
             PROVE  Agrees(i, state, reported) /\ ~busy
  BY DEF TargetInv
<1>1. state = from_graph(graph) /\ ~busy /\ reported = <<>>
  BY DEF Init
<1>2. Into(i) \in DOMAIN state.values
  BY InitialShape, TargetFacts DEF ShapeInv
<1>3. state.values[Into(i)] = Default(Into(i))
  BY <1>1, <1>2 DEF from_graph, Default
<1>4. From(i) \notin DOMAIN reported
  BY <1>1
<1> QED BY <1>1, <1>3, <1>4 DEF Agrees

LEMMA TargetNext == ShapeInv /\ TargetInv /\ [Next]_vars => TargetInv'
<1> SUFFICES ASSUME ShapeInv, TargetInv, [Next]_vars PROVE TargetInv'
  OBVIOUS
<1>1. /\ graph \in Graphs /\ ValuesOK(graph, state) /\ ValuesOK(graph, staged)
      /\ IsSeq(stack) /\ IsSeq(pending) /\ busy \in BOOLEAN
      /\ ~busy => stack = <<>> /\ pending = <<>>
  BY DEF ShapeInv
<1>2. \A i \in 1..Len(graph.edges) : Target(i) =>
        /\ Agrees(i, state, reported)
        /\ busy => Carries(i, state, staged, stack, pending, emitted)
  BY DEF TargetInv
<1>3. ASSUME Abort PROVE TargetInv'
  <2>1. graph' = graph /\ state' = state /\ busy' = FALSE /\ reported' = reported
    BY <1>3 DEF Abort
  <2> QED BY <1>2, <2>1, TargetStep
<1>4. ASSUME NEW request \in Events, BeginEvent(request) PROVE TargetInv'
  <2> DEFINE r == apply_event_direct(graph, state, request.node, request.port, request.message)
  <2>1. /\ graph' = graph /\ state' = state /\ staged' = r.st /\ pending' = <<>>
        /\ stack' = r.emitted /\ emitted' = Told(<<>>, {}, r.emitted) /\ reported' = reported
    BY <1>1, <1>4 DEF BeginEvent
  <2>2. Touches(graph, state, request.node, r)
    BY <1>1, DirectTouches
  <2> HIDE DEF r
  <2>3. ASSUME NEW i \in 1..Len(graph.edges), Target(i)
        PROVE  Carries(i, state, r.st, r.emitted, <<>>, Told(<<>>, {}, r.emitted))
    <3>1. request.node # Into(i)
      BY <2>3 DEF Target, Into, Addressed
    <3>2. Into(i) \in DOMAIN state.values
      BY <1>1, <2>3, TargetFacts
    <3>3. r.st.values[Into(i)] = state.values[Into(i)]
      BY <1>1, <2>2, <3>1, <3>2, OthersStay
    <3>4. ToSet(<<>>) = {}
      BY NothingIn
    <3>5. Carries(i, state, r.st, <<>>, <<>>, <<>>)
      BY <3>3, <3>4 DEF Carries, Waits, Comes
    <3>6. r.emitted = <<>> \/ \E e : r.emitted = <<e>>
      BY <2>2 DEF Touches
    <3>7. ToSet(r.emitted) = ToSet(<<>>) \cup ToSet(r.emitted)
      BY <3>4
    <3>8. Carries(i, state, r.st, r.emitted, <<>>, Told(<<>>, ToSet(<<>>), r.emitted))
      BY <3>5, <3>6, <3>7, EmitCarries
    <3> QED BY <3>4, <3>8
  <2> QED BY <1>2, <2>1, <2>3, TargetStep
<1>5. ASSUME BeginRound PROVE TargetInv'
  <2> DEFINE e == Last(stack)
  <2>1. CASE visited + 1 > Limit(graph)
    BY <1>3, <1>5, <2>1 DEF BeginRound
  <2>2. CASE ~(visited + 1 > Limit(graph))
    <3>1. /\ graph' = graph /\ state' = state /\ busy /\ pending = <<>> /\ stack # <<>>
          /\ staged' = publish_object_channel(graph, staged, e) /\ pending' = deliveries(graph, e)
          /\ stack' = Front(stack) /\ emitted' = emitted /\ reported' = reported
      BY <1>5, <2>2 DEF BeginRound
    <3>2. ASSUME NEW i \in 1..Len(graph.edges), Target(i)
          PROVE  Carries(i, state, staged', stack', pending', emitted')
      <4>1. Carries(i, state, staged, stack, pending, emitted)
        BY <1>2, <3>1, <3>2
      <4>2. Carries(i, state, publish_object_channel(graph, staged, Last(stack)), Front(stack),
                    deliveries(graph, Last(stack)), emitted)
        BY <1>1, <3>1, <3>2, <4>1, RoundCarries
      <4> QED BY <3>1, <4>2
    <3> HIDE DEF e
    <3> QED BY <1>2, <3>1, <3>2, TargetStep
  <2> QED BY <2>1, <2>2
<1>6. ASSUME Deliver PROVE TargetInv'
  <2> DEFINE d == Head(pending)
             r == apply_event_direct(graph, staged, d.to[1], d.to[2], d.message)
  <2>1. CASE ~r.ok /\ ~d.named
    BY <1>3, <1>6, <2>1 DEF Deliver
  <2>2. CASE r.ok \/ d.named
    <3>1. /\ graph' = graph /\ state' = state /\ busy /\ pending # <<>>
          /\ staged' = r.st /\ pending' = Tail(pending) /\ stack' = stack \o r.emitted
          /\ emitted' = Told(emitted, ToSet(stack), r.emitted) /\ reported' = reported
      BY <1>6, <2>2 DEF Deliver
    <3>2. ASSUME NEW i \in 1..Len(graph.edges), Target(i)
          PROVE  Carries(i, state, r.st, stack \o r.emitted, Tail(pending),
                         Told(emitted, ToSet(stack), r.emitted))
      <4>1. Carries(i, state, staged, stack, pending, emitted)
        BY <1>2, <3>1, <3>2
      <4>2. Carries(i, state, r.st, stack, Tail(pending), emitted)
        BY <1>1, <2>2, <3>1, <3>2, <4>1, DeliverCarries
      <4>3. Touches(graph, staged, d.to[1], r)
        BY <1>1, DirectTouches
      <4> HIDE DEF r
      <4>4. r.emitted = <<>> \/ \E e : r.emitted = <<e>>
        BY <4>3 DEF Touches
      <4>5. IsSeq(r.emitted)
        BY <4>3, TouchedEmits
      <4>6. ToSet(stack \o r.emitted) = ToSet(stack) \cup ToSet(r.emitted)
        BY <1>1, <4>5, JoinFacts
      <4> QED BY <4>2, <4>4, <4>6, EmitCarries
    <3> HIDE DEF r
    <3> QED BY <1>2, <3>1, <3>2, TargetStep
  <2> QED BY <2>1, <2>2
<1>7. ASSUME Commit PROVE TargetInv'
  <2>1. /\ graph' = graph /\ state' = staged /\ busy' = FALSE /\ busy /\ pending = <<>> /\ stack = <<>>
        /\ reported' = [out \in DOMAIN reported \cup DOMAIN emitted |->
                          IF out \in DOMAIN emitted THEN emitted[out] ELSE reported[out]]
    BY <1>7 DEF Commit
  <2>2. ASSUME NEW i \in 1..Len(graph.edges), Target(i) PROVE Agrees(i, staged, reported')
    <3>1. Agrees(i, state, reported) /\ Carries(i, state, staged, stack, pending, emitted)
      BY <1>2, <2>1, <2>2
    <3>2. ~Waits(i, stack) /\ ~Comes(i, pending)
      BY <2>1, NothingIn DEF Waits, Comes
    <3>3. CASE From(i) \in DOMAIN emitted
      <4>1. From(i) \in DOMAIN reported' /\ reported'[From(i)] = emitted[From(i)]
        BY <2>1, <3>3
      <4>2. \A j \in 1..Len(emitted[From(i)]) : Holds(emitted[From(i)][j], staged.values[Into(i)])
        BY <3>1, <3>2, <3>3 DEF Carries, Reaches
      <4> QED BY <4>1, <4>2 DEF Agrees
    <3>4. CASE From(i) \notin DOMAIN emitted
      <4>1. /\ From(i) \in DOMAIN reported' <=> From(i) \in DOMAIN reported
            /\ From(i) \in DOMAIN reported => reported'[From(i)] = reported[From(i)]
        BY <2>1, <3>4
      <4>2. staged.values[Into(i)] = state.values[Into(i)]
        BY <3>1, <3>4 DEF Carries
      <4> QED BY <3>1, <4>1, <4>2 DEF Agrees
    <3> QED BY <3>3, <3>4
  <2> QED BY <2>1, <2>2, TargetStep
<1>8. CASE UNCHANGED vars
  <2>1. /\ graph' = graph /\ state' = state /\ staged' = staged /\ pending' = pending /\ busy' = busy
        /\ stack' = stack /\ emitted' = emitted /\ reported' = reported
    BY <1>8 DEF vars
  <2> QED BY <1>2, <2>1, TargetStep
<1> QED BY <1>4, <1>5, <1>6, <1>7, <1>8 DEF Next

\* Targets agree with what was reported, and in the staged copy the newest
\* message of their source is on the stack, on its way or delivered.
THEOREM TargetInvariant == Spec => []TargetInv
<1> QED BY InitialTargets, TargetNext, ShapeInvariant, PTL DEF Spec

(* Whatever graphs, requests and refusals: an object fed by one edge alone holds
   what the newest message told for the edge's source converts to, unless that
   message overtook an older one (propagate_emissions). *)
THEOREM TargetsFollow == Spec => []TargetsFollowReports
<1>1. ShapeInv /\ TargetInv => TargetsFollowReports
  <2> SUFFICES ASSUME ShapeInv, TargetInv, NEW i \in 1..Len(graph.edges), Target(i)
               PROVE  IF From(i) \notin DOMAIN reported
                      THEN state.values[Into(i)] = Default(Into(i))
                      ELSE \A j \in 1..Len(reported[From(i)]) :
                             \/ is_bang_message(reported[From(i)][j])
                             \/ value_from_message(reported[From(i)][j], state.values[Into(i)])
                                  = read_control(graph, state, Into(i), "state", "value")
    BY DEF TargetsFollowReports, Target, From, Into, Default
  <2>1. Agrees(i, state, reported)
    BY DEF TargetInv
  <2>2. Into(i) \in DOMAIN state.values
    BY TargetFacts DEF ShapeInv
  <2>3. read_control(graph, state, Into(i), "state", "value") = <<state.values[Into(i)]>>
    BY <2>2 DEF read_control
  <2> QED BY <2>1, <2>3 DEF Agrees, Holds
<1> QED BY <1>1, ShapeInvariant, TargetInvariant, PTL
=============================================================================
