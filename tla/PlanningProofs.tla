---------------------------- MODULE PlanningProofs ----------------------------
(***************************************************************************)
(* Planning keeps its promise, for every set of documents and requests:    *)
(* Spec => PlansTheDocument.  The argument follows a request.              *)
(*                                                                         *)
(* 1. The documents held and planned are valid: every graph is made of     *)
(*    sequences and has one node of an id (DocumentsInv).                  *)
(* 2. While the graph is expanded, a turn of a call that is over has left  *)
(*    what it has to: the pin of a boundary, the expanded object, the      *)
(*    opened instance, the arcs of an edge (VisitedInv); what is opened or *)
(*    expanded comes from such a turn (ParentsInv, ExpandedInv), and the   *)
(*    calls under way are one instance apart (FramesInv).  When the last   *)
(*    call returns, the expansion is the document's (Complete).            *)
(* 3. Contraction keeps the cables (KeptBy).  To say this without counting *)
(*    how a cable was put together, a set of cables is Closed under the    *)
(*    edges when it holds what starts with an edge and what an edge makes  *)
(*    longer; every closed set holds every cable of the document.          *)
(* 4. The ordering counts the edges that still wait (CountInv), so what is *)
(*    queued has its feeders ordered (FedInv); what is left when the queue *)
(*    is empty would be a cycle, which validation has excluded.            *)
(***************************************************************************)
EXTENDS Planning, TLAPS, WellFoundedInduction, FiniteSetTheorems

----------------------------------------------------------------------------
(* Numbers and sequences.                                                  *)

\* Induction on a set of numbers.
LEMMA NatSetInduction ==
    ASSUME NEW S, 0 \in S, \A n \in Nat : n \in S => n + 1 \in S
    PROVE  Nat \subseteq S
<1> SUFFICES ASSUME Nat \ S # {} PROVE FALSE
  OBVIOUS
<1>1. \E x \in Nat \ S : \A y \in Nat \ S : <<y, x>> \notin OpToRel(<, Nat)
  BY NatLessThanWellFounded, WFMin
<1>2. PICK x \in Nat \ S : \A y \in Nat \ S : ~ (y < x)
  BY <1>1 DEF OpToRel
<1>3. x # 0 /\ x - 1 \in Nat /\ x - 1 < x
  BY <1>2
<1>4. x - 1 \in S
  BY <1>2, <1>3
<1> QED BY <1>2, <1>3, <1>4

\* A sequence over a set, and its elements.
LEMMA SeqFacts ==
    ASSUME NEW S, NEW s \in Seq(S)
    PROVE  /\ IsSequence(s) /\ DOMAIN s = 1..Len(s) /\ Len(s) \in Nat
           /\ Range(s) = {s[i] : i \in 1..Len(s)} /\ Range(s) \subseteq S
BY DEF IsSequence, Range

\* What it takes for a value to be a sequence.
LEMMA IsSeqFacts ==
    ASSUME NEW s, IsSequence(s)
    PROVE  /\ DOMAIN s = 1..Len(s) /\ Len(s) \in Nat
           /\ Range(s) = {s[i] : i \in 1..Len(s)}
           /\ \A i \in 1..Len(s) : s[i] \in Range(s)
BY DEF IsSequence, Range

\* An element of a sequence stands somewhere.
LEMMA ElementStands ==
    ASSUME NEW s, IsSequence(s), NEW x \in Range(s)
    PROVE  \E i \in 1..Len(s) : s[i] = x
BY IsSeqFacts

\* The empty sequence holds nothing.
LEMMA EmptyIsSeq == IsSequence(<<>>) /\ Len(<<>>) = 0 /\ Range(<<>>) = {}
BY DEF IsSequence, Range

\* A function on 1..n is a sequence.
LEMMA FunctionIsSeq ==
    ASSUME NEW s, NEW n \in Nat, s = [i \in 1..n |-> s[i]]
    PROVE  IsSequence(s) /\ Len(s) = n
<1>1. s \in [1..n -> Range(s)]
  BY DEF Range
<1>2. s \in Seq(Range(s))
  BY <1>1
<1> QED BY <1>1, <1>2 DEF IsSequence

\* What appending an element gives.
LEMMA AppendFacts ==
    ASSUME NEW s, IsSequence(s), NEW e
    PROVE  /\ IsSequence(Append(s, e)) /\ Len(Append(s, e)) = Len(s) + 1
           /\ \A i \in 1..Len(s) : Append(s, e)[i] = s[i]
           /\ Append(s, e)[Len(s) + 1] = e
           /\ Range(Append(s, e)) = Range(s) \cup {e}
<1> DEFINE S == Range(s) \cup {e}
<1>1. s \in Seq(S) /\ e \in S
  BY DEF IsSequence
<1>2. Append(s, e) \in Seq(S) /\ Len(Append(s, e)) = Len(s) + 1
      /\ (\A i \in 1..Len(s) : Append(s, e)[i] = s[i]) /\ Append(s, e)[Len(s) + 1] = e
  BY <1>1
<1>3. IsSequence(Append(s, e)) /\ Range(Append(s, e)) = {Append(s, e)[i] : i \in 1..Len(s) + 1}
  BY <1>2, SeqFacts
<1>4. Range(s) = {s[i] : i \in 1..Len(s)}
  BY IsSeqFacts
<1>5. Len(s) \in Nat
  BY IsSeqFacts
<1>6. Range(Append(s, e)) = S
  BY <1>2, <1>3, <1>4, <1>5
<1> QED BY <1>2, <1>3, <1>6

\* Paths that end in different steps, or go on from different places, differ.
LEMMA AppendOneToOne ==
    ASSUME NEW s, IsSequence(s), NEW t, IsSequence(t), NEW x, NEW y, Append(s, x) = Append(t, y)
    PROVE  /\ s = t
           /\ x = y
<1>1. Len(s) = Len(t)
  BY AppendFacts, IsSeqFacts
<1>2. x = y
  BY <1>1, AppendFacts
<1>3. \A i \in 1..Len(s) : s[i] = t[i]
  BY <1>1, AppendFacts
<1>4. s = [i \in 1..Len(s) |-> s[i]]
  BY DEF IsSequence
<1>5. t = [i \in 1..Len(t) |-> t[i]]
  BY DEF IsSequence
<1>6. [i \in 1..Len(s) |-> s[i]] = [i \in 1..Len(t) |-> t[i]]
  BY <1>1, <1>3
<1>7. s = t
  <2> DEFINE f == [i \in 1..Len(s) |-> s[i]]
             g == [i \in 1..Len(t) |-> t[i]]
  <2>1. s = f /\ t = g /\ f = g
    BY <1>4, <1>5, <1>6
  <2> HIDE DEF f, g
  <2> QED BY <2>1
<1> QED BY <1>2, <1>7

\* ... said of all paths.
LEMMA PathsAgree == \A s, t, x, y : IsSequence(s) /\ IsSequence(t) /\ Append(s, x) = Append(t, y) => s = t
BY AppendOneToOne

\* A path that leads into an instance is not the root's.
LEMMA AppendNotEmpty ==
    ASSUME NEW s, IsSequence(s), NEW x
    PROVE  Append(s, x) # <<>>
BY AppendFacts, IsSeqFacts

\* The tail of a sequence and its head.
LEMMA HeadTailFacts ==
    ASSUME NEW s, IsSequence(s), s # <<>>
    PROVE  /\ Len(s) \in Nat \ {0}
           /\ IsSequence(Tail(s)) /\ Len(Tail(s)) = Len(s) - 1
           /\ Head(s) = s[1] /\ Head(s) \in Range(s)
           /\ \A i \in 1..Len(Tail(s)) : Tail(s)[i] = s[i + 1]
           /\ Range(s) = {Head(s)} \cup Range(Tail(s))
<1>1. s \in Seq(Range(s))
  BY DEF IsSequence
<1>2. Len(s) \in Nat \ {0} /\ Tail(s) \in Seq(Range(s)) /\ Len(Tail(s)) = Len(s) - 1
      /\ Head(s) = s[1] /\ \A i \in 1..Len(Tail(s)) : Tail(s)[i] = s[i + 1]
  BY <1>1
<1>3. Range(s) = {s[i] : i \in 1..Len(s)}
  BY IsSeqFacts
<1>4. IsSequence(Tail(s)) /\ Range(Tail(s)) = {Tail(s)[i] : i \in 1..Len(Tail(s))}
  BY <1>2, SeqFacts
<1>5. Range(Tail(s)) \subseteq Range(s)
  BY <1>2, <1>3, <1>4
<1>6. ASSUME NEW i \in 1..Len(s), i # 1 PROVE s[i] \in Range(Tail(s))
  <2>1. i - 1 \in 1..Len(Tail(s)) /\ (i - 1) + 1 = i
    BY <1>2, <1>6
  <2> QED BY <1>2, <1>4, <2>1
<1> QED BY <1>2, <1>3, <1>4, <1>5, <1>6

\* What joining two sequences gives.
LEMMA ConcatFacts ==
    ASSUME NEW s, IsSequence(s), NEW t, IsSequence(t)
    PROVE  /\ IsSequence(s \o t) /\ Len(s \o t) = Len(s) + Len(t)
           /\ \A i \in 1..Len(s) : (s \o t)[i] = s[i]
           /\ \A i \in 1..Len(t) : (s \o t)[Len(s) + i] = t[i]
           /\ Range(s \o t) = Range(s) \cup Range(t)
<1> DEFINE S == Range(s) \cup Range(t)
<1>1. s \in Seq(S) /\ t \in Seq(S)
  BY DEF IsSequence
<1>2. /\ s \o t \in Seq(S) /\ Len(s \o t) = Len(s) + Len(t) /\ Len(s) \in Nat /\ Len(t) \in Nat
      /\ \A i \in 1..Len(s) : (s \o t)[i] = s[i]
      /\ \A i \in 1..Len(t) : (s \o t)[Len(s) + i] = t[i]
  BY <1>1
<1>3. IsSequence(s \o t) /\ Range(s \o t) = {(s \o t)[i] : i \in 1..Len(s) + Len(t)} /\ Range(s \o t) \subseteq S
  BY <1>2, SeqFacts
<1>4. Range(s) = {s[i] : i \in 1..Len(s)} /\ Range(t) = {t[i] : i \in 1..Len(t)}
  BY IsSeqFacts
<1>5. \A i \in 1..Len(s) : s[i] \in Range(s \o t)
  <2> SUFFICES ASSUME NEW i \in 1..Len(s) PROVE s[i] \in Range(s \o t)
    OBVIOUS
  <2>1. i \in 1..Len(s) + Len(t)
    BY <1>2
  <2> QED BY <1>2, <1>3, <2>1
<1>6. \A i \in 1..Len(t) : t[i] \in Range(s \o t)
  <2> SUFFICES ASSUME NEW i \in 1..Len(t) PROVE t[i] \in Range(s \o t)
    OBVIOUS
  <2>1. Len(s) + i \in 1..Len(s) + Len(t)
    BY <1>2
  <2> QED BY <1>2, <1>3, <2>1
<1>7. Range(s \o t) = Range(s) \cup Range(t)
  <2>1. Range(s) \subseteq Range(s \o t)
    BY <1>4, <1>5
  <2>2. Range(t) \subseteq Range(s \o t)
    BY <1>4, <1>6
  <2> QED BY <1>3, <2>1, <2>2
<1> QED BY <1>2, <1>3, <1>7

\* Only is what its recursive equation says.
LEMMA OnlyStep ==
    ASSUME NEW s, IsSequence(s), NEW S
    PROVE  \E kept : /\ Only(s, S) = kept[Len(s)]
                     /\ kept[0] = <<>>
                     /\ \A i \in 1..Len(s) :
                          kept[i] = IF s[i] \in S THEN Append(kept[i - 1], s[i]) ELSE kept[i - 1]
<1> DEFINE After(x, i) == IF s[i] \in S THEN Append(x, s[i]) ELSE x
           Rounds(f, n) == f = [i \in 0..n |-> IF i = 0 THEN <<>> ELSE After(f[i - 1], i)]
           Defined == {n \in Nat : \E f : Rounds(f, n)}
<1> Len(s) \in Nat
  BY IsSeqFacts
<1>1. 0 \in Defined
  <2>1. Rounds([i \in 0..0 |-> <<>>], 0)
    OBVIOUS
  <2> QED BY <2>1
<1>2. ASSUME NEW n \in Nat, n \in Defined PROVE n + 1 \in Defined
  <2>1. PICK f : Rounds(f, n)
    BY <1>2
  <2> DEFINE h == [i \in 0..(n + 1) |-> IF i \in 0..n THEN f[i] ELSE After(f[n], n + 1)]
  <2>2. \A i \in 0..n : h[i] = f[i] /\ f[i] = IF i = 0 THEN <<>> ELSE After(f[i - 1], i)
    <3>1. ASSUME NEW i \in 0..n PROVE f[i] = IF i = 0 THEN <<>> ELSE After(f[i - 1], i)
      <4> HIDE DEF After
      <4> QED BY <2>1
    <3>2. ASSUME NEW i \in 0..n PROVE h[i] = f[i]
      <4> i \in 0..(n + 1)
        OBVIOUS
      <4> HIDE DEF After
      <4> QED OBVIOUS
    <3> HIDE DEF After, h
    <3> QED BY <3>1, <3>2
  <2>3. h[n + 1] = After(f[n], n + 1)
    <3> HIDE DEF After
    <3> n + 1 \in 0..(n + 1) /\ n + 1 \notin 0..n
      OBVIOUS
    <3> QED OBVIOUS
  <2>4. ASSUME NEW i \in 0..(n + 1)
        PROVE  h[i] = IF i = 0 THEN <<>> ELSE After(h[i - 1], i)
    <3> HIDE DEF After, h
    <3>1. CASE i = 0
      BY <2>2, <3>1
    <3>2. CASE i \in 1..n
      <4>1. i - 1 \in 0..n /\ i \in 0..n
        BY <3>2
      <4> QED BY <2>2, <3>2, <4>1
    <3>3. CASE i = n + 1
      <4>1. i - 1 = n /\ n \in 0..n
        BY <3>3
      <4>2. h[n] = f[n]
        BY <2>2, <4>1
      <4> QED BY <2>3, <3>3, <4>1, <4>2
    <3> QED BY <3>1, <3>2, <3>3
  <2>5. Rounds(h, n + 1)
    <3>1. \A i \in 0..(n + 1) : h[i] = IF i = 0 THEN <<>> ELSE After(h[i - 1], i)
      BY <2>4
    <3> HIDE DEF After
    <3> QED BY <3>1
  <2> HIDE DEF h, Rounds
  <2> QED BY <2>5
<1>3. PICK f : Rounds(f, Len(s)) /\ Only(s, S) = f[Len(s)]
  <2>1. Len(s) \in Defined
    <3> HIDE DEF Defined
    <3>1. Nat \subseteq Defined
      BY <1>1, <1>2, NatSetInduction
    <3> QED BY <3>1
  <2> DEFINE F == CHOOSE f : Rounds(f, Len(s))
  <2>2. Rounds(F, Len(s))
    BY <2>1
  <2>3. Only(s, S) = F[Len(s)]
    BY DEF Only
  <2> QED BY <2>2, <2>3
<1>4. f[0] = <<>>
  BY <1>3
<1>5. ASSUME NEW i \in 1..Len(s) PROVE f[i] = After(f[i - 1], i)
  <2> i \in 0..Len(s) /\ i # 0
    OBVIOUS
  <2> HIDE DEF After
  <2> QED BY <1>3
<1> QED BY <1>3, <1>4, <1>5

\* Where the elements that are kept stood.
Keeps(t, s, at) ==
    /\ at \in [1..Len(t) -> 1..Len(s)]
    /\ \A i \in 1..Len(t) : t[i] = s[at[i]]
    /\ \A i, j \in 1..Len(t) : i < j => at[i] < at[j]

\* Only keeps just the elements of the set, in their order.
LEMMA OnlyFacts ==
    ASSUME NEW s, IsSequence(s), NEW S
    PROVE  /\ IsSequence(Only(s, S))
           /\ Range(Only(s, S)) = Range(s) \cap S
           /\ \E at : Keeps(Only(s, S), s, at)
<1>1. PICK kept : /\ Only(s, S) = kept[Len(s)]
                  /\ kept[0] = <<>>
                  /\ \A i \in 1..Len(s) :
                       kept[i] = IF s[i] \in S THEN Append(kept[i - 1], s[i]) ELSE kept[i - 1]
  BY OnlyStep
<1> DEFINE Sofar(i) == {s[j] : j \in 1..i} \cap S
           Fits(i) == /\ IsSequence(kept[i]) /\ Range(kept[i]) = Sofar(i)
                      /\ \E at : Keeps(kept[i], s, at) /\ \A k \in 1..Len(kept[i]) : at[k] <= i
           Good == {i \in Nat : i <= Len(s) => Fits(i)}
<1>0. Len(s) \in Nat
  BY IsSeqFacts
<1>2. 0 \in Good
  <2>1. IsSequence(kept[0]) /\ Range(kept[0]) = {} /\ Len(kept[0]) = 0
    BY <1>1, EmptyIsSeq
  <2>2. Sofar(0) = {}
    OBVIOUS
  <2>3. Keeps(kept[0], s, [i \in 1..0 |-> 1])
    BY <1>0, <2>1 DEF Keeps
  <2>4. \A k \in 1..Len(kept[0]) : [i \in 1..0 |-> 1][k] <= 0
    BY <2>1
  <2> HIDE DEF Sofar
  <2> QED BY <2>1, <2>2, <2>3, <2>4
<1>3. ASSUME NEW n \in Nat, n \in Good PROVE n + 1 \in Good
  <2> SUFFICES ASSUME n + 1 <= Len(s) PROVE Fits(n + 1)
    OBVIOUS
  <2>1. n + 1 \in 1..Len(s) /\ (n + 1) - 1 = n
    BY <1>0
  <2>2. Fits(n)
    BY <1>0, <1>3
  <2>3. kept[n + 1] = IF s[n + 1] \in S THEN Append(kept[n], s[n + 1]) ELSE kept[n]
    BY <1>1, <2>1
  <2>4. Sofar(n + 1) = IF s[n + 1] \in S THEN Sofar(n) \cup {s[n + 1]} ELSE Sofar(n)
    <3>1. 1..n + 1 = 1..n \cup {n + 1}
      OBVIOUS
    <3> QED BY <3>1
  <2> HIDE DEF Sofar
  <2>5. PICK at : Keeps(kept[n], s, at) /\ \A k \in 1..Len(kept[n]) : at[k] <= n
    BY <2>2
  <2>6. CASE s[n + 1] \in S
    <3> DEFINE t == kept[n + 1]
               m == Len(kept[n])
               to == [k \in 1..m + 1 |-> IF k = m + 1 THEN n + 1 ELSE at[k]]
    <3>0. m \in Nat
      BY <2>2, IsSeqFacts
    <3>1. /\ IsSequence(t) /\ Len(t) = m + 1 /\ Range(t) = Sofar(n) \cup {s[n + 1]}
          /\ (\A i \in 1..m : t[i] = kept[n][i]) /\ t[m + 1] = s[n + 1]
      BY <2>2, <2>3, <2>6, AppendFacts
    <3> HIDE DEF t, m
    <3>2. \A k \in 1..m : k \in 1..m + 1 /\ k # m + 1 /\ to[k] = at[k] /\ at[k] \in 1..Len(s) /\ at[k] <= n
      BY <2>5, <3>0 DEF Keeps, m
    <3>3. to[m + 1] = n + 1
      BY <3>0
    <3>4. \A k \in 1..m + 1 : k = m + 1 \/ k \in 1..m
      BY <3>0
    <3>5. to \in [1..m + 1 -> 1..Len(s)]
      BY <2>1, <3>2, <3>4
    <3> HIDE DEF to
    <3>6. \A i \in 1..m + 1 : t[i] = s[to[i]] /\ to[i] <= n + 1
      <4> SUFFICES ASSUME NEW i \in 1..m + 1 PROVE t[i] = s[to[i]] /\ to[i] <= n + 1
        OBVIOUS
      <4>1. CASE i \in 1..m
        <5>1. t[i] = kept[n][i] /\ kept[n][i] = s[at[i]]
          BY <2>5, <3>1, <4>1 DEF Keeps, m
        <5> QED BY <3>2, <4>1, <5>1, <1>0
      <4>2. CASE i = m + 1
        BY <3>1, <3>3, <4>2
      <4> QED BY <3>4, <4>1, <4>2
    <3>7. \A i, j \in 1..m + 1 : i < j => to[i] < to[j]
      <4> SUFFICES ASSUME NEW i \in 1..m + 1, NEW j \in 1..m + 1, i < j PROVE to[i] < to[j]
        OBVIOUS
      <4>1. i \in 1..m
        BY <3>0
      <4>2. CASE j \in 1..m
        BY <2>5, <3>2, <4>1, <4>2 DEF Keeps, m
      <4>3. CASE j = m + 1
        BY <3>2, <3>3, <4>1, <4>3, <1>0
      <4> QED BY <3>4, <4>2, <4>3
    <3>8. Keeps(t, s, to)
      BY <3>1, <3>5, <3>6, <3>7 DEF Keeps
    <3> QED BY <2>4, <2>6, <3>1, <3>6, <3>8 DEF t
  <2>7. CASE s[n + 1] \notin S
    <3>1. kept[n + 1] = kept[n] /\ Sofar(n + 1) = Sofar(n)
      BY <2>3, <2>4, <2>7
    <3>2. \A k \in 1..Len(kept[n]) : at[k] <= n + 1
      BY <2>5 DEF Keeps
    <3> QED BY <2>2, <2>5, <3>1, <3>2
  <2> QED BY <2>6, <2>7
<1>4. Fits(Len(s))
  <2>1. Nat \subseteq Good
    <3> HIDE DEF Good
    <3> QED BY <1>2, <1>3, NatSetInduction
  <2> QED BY <1>0, <2>1
<1>5. Sofar(Len(s)) = Range(s) \cap S
  BY IsSeqFacts
<1> QED BY <1>1, <1>4, <1>5

\* FlattenSeq is what its recursive equation says.
LEMMA FlattenStep ==
    ASSUME NEW ss, IsSequence(ss), ss # <<>>
    PROVE  \E flat : /\ FlattenSeq(ss) = flat[Len(ss)]
                     /\ flat[1] = ss[1]
                     /\ \A i \in 2..Len(ss) : flat[i] = flat[i - 1] \o ss[i]
<1> DEFINE After(x, i) == x \o ss[i]
           Rounds(f, n) == f = [i \in 1..n |-> IF i = 1 THEN ss[i] ELSE After(f[i - 1], i)]
           Defined == {n \in Nat : \E f : Rounds(f, n)}
<1>0. Len(ss) \in Nat /\ Len(ss) # 0
  BY IsSeqFacts DEF IsSequence
<1>1. 0 \in Defined
  <2>1. Rounds([i \in 1..0 |-> 1], 0)
    OBVIOUS
  <2> QED BY <2>1
<1>2. ASSUME NEW n \in Nat, n \in Defined PROVE n + 1 \in Defined
  <2>1. PICK f : Rounds(f, n)
    BY <1>2
  <2> DEFINE h == [i \in 1..(n + 1) |-> IF i \in 1..n THEN f[i] ELSE IF i = 1 THEN ss[i] ELSE After(f[n], i)]
  <2>2. \A i \in 1..n : h[i] = f[i] /\ f[i] = IF i = 1 THEN ss[i] ELSE After(f[i - 1], i)
    <3>1. ASSUME NEW i \in 1..n PROVE f[i] = IF i = 1 THEN ss[i] ELSE After(f[i - 1], i)
      <4> HIDE DEF After
      <4> QED BY <2>1
    <3>2. ASSUME NEW i \in 1..n PROVE h[i] = f[i]
      <4> i \in 1..(n + 1)
        OBVIOUS
      <4> HIDE DEF After
      <4> QED OBVIOUS
    <3> HIDE DEF After, h
    <3> QED BY <3>1, <3>2
  <2>3. h[n + 1] = IF n + 1 = 1 THEN ss[n + 1] ELSE After(f[n], n + 1)
    <3> HIDE DEF After
    <3> n + 1 \in 1..(n + 1) /\ n + 1 \notin 1..n
      OBVIOUS
    <3> QED OBVIOUS
  <2>4. ASSUME NEW i \in 1..(n + 1)
        PROVE  h[i] = IF i = 1 THEN ss[i] ELSE After(h[i - 1], i)
    <3> HIDE DEF After, h
    <3>1. CASE i \in 1..n /\ i = 1
      BY <2>2, <3>1
    <3>2. CASE i \in 2..n
      <4>1. i - 1 \in 1..n /\ i \in 1..n /\ i # 1
        BY <3>2
      <4> QED BY <2>2, <4>1
    <3>3. CASE i = n + 1 /\ i = 1
      BY <2>3, <3>3
    <3>4. CASE i = n + 1 /\ i # 1
      <4>1. i - 1 = n /\ n \in 1..n
        BY <3>4
      <4>2. h[n] = f[n]
        BY <2>2, <4>1
      <4> QED BY <2>3, <3>4, <4>1, <4>2
    <3> QED BY <3>1, <3>2, <3>3, <3>4
  <2>5. Rounds(h, n + 1)
    <3>1. \A i \in 1..(n + 1) : h[i] = IF i = 1 THEN ss[i] ELSE After(h[i - 1], i)
      BY <2>4
    <3> HIDE DEF After
    <3> QED BY <3>1
  <2> HIDE DEF h, Rounds
  <2> QED BY <2>5
<1>3. PICK f : Rounds(f, Len(ss)) /\ FlattenSeq(ss) = f[Len(ss)]
  <2>1. Len(ss) \in Defined
    <3> HIDE DEF Defined
    <3>1. Nat \subseteq Defined
      BY <1>1, <1>2, NatSetInduction
    <3> QED BY <1>0, <3>1
  <2> DEFINE F == CHOOSE f : Rounds(f, Len(ss))
  <2>2. Rounds(F, Len(ss))
    BY <2>1
  <2>3. FlattenSeq(ss) = F[Len(ss)]
    BY <1>0 DEF FlattenSeq
  <2> QED BY <2>2, <2>3
<1>4. f[1] = ss[1]
  <2> 1 \in 1..Len(ss)
    BY <1>0
  <2> QED BY <1>3
<1>5. ASSUME NEW i \in 2..Len(ss) PROVE f[i] = After(f[i - 1], i)
  <2> i \in 1..Len(ss) /\ i # 1
    BY <1>0
  <2> HIDE DEF After
  <2> QED BY <1>3
<1> QED BY <1>3, <1>4, <1>5

\* FlattenSeq holds what the sequences hold.
LEMMA FlattenFacts ==
    ASSUME NEW ss, IsSequence(ss), \A i \in 1..Len(ss) : IsSequence(ss[i])
    PROVE  /\ IsSequence(FlattenSeq(ss))
           /\ Range(FlattenSeq(ss)) = UNION {Range(ss[i]) : i \in 1..Len(ss)}
<1>0. Len(ss) \in Nat
  BY IsSeqFacts
<1>1. CASE ss = <<>>
  <2>1. Len(ss) = 0 /\ FlattenSeq(ss) = <<>>
    BY <1>1 DEF FlattenSeq
  <2> QED BY <2>1, EmptyIsSeq
<1>2. CASE ss # <<>>
  <2>1. PICK flat : /\ FlattenSeq(ss) = flat[Len(ss)]
                    /\ flat[1] = ss[1]
                    /\ \A i \in 2..Len(ss) : flat[i] = flat[i - 1] \o ss[i]
    BY <1>2, FlattenStep
  <2> DEFINE Sofar(i) == UNION {Range(ss[j]) : j \in 1..i}
             Fits(i) == IsSequence(flat[i]) /\ Range(flat[i]) = Sofar(i)
             Good == {i \in Nat : i + 1 <= Len(ss) => Fits(i + 1)}
  <2>2. 0 \in Good
    <3>1. Sofar(1) = Range(ss[1])
      <4>1. 1..1 = {1}
        OBVIOUS
      <4> QED BY <4>1
    <3> HIDE DEF Sofar
    <3>2. 0 + 1 <= Len(ss) => 1 \in 1..Len(ss)
      BY <1>0
    <3> QED BY <2>1, <3>1, <3>2
  <2>3. ASSUME NEW n \in Nat, n \in Good PROVE n + 1 \in Good
    <3> DEFINE i == n + 2
    <3> SUFFICES ASSUME i <= Len(ss) PROVE Fits(i)
      OBVIOUS
    <3>1. i \in 1..Len(ss) /\ i \in 2..Len(ss) /\ i - 1 = n + 1 /\ n + 1 <= Len(ss)
      BY <1>0
    <3>2. Fits(n + 1)
      BY <2>3, <3>1
    <3>3. flat[i] = flat[n + 1] \o ss[i] /\ IsSequence(ss[i])
      BY <2>1, <3>1
    <3>4. Sofar(i) = Sofar(n + 1) \cup Range(ss[i])
      <4>1. 1..i = 1..(n + 1) \cup {i}
        OBVIOUS
      <4> HIDE DEF i
      <4> QED BY <4>1
    <3> HIDE DEF Sofar, i
    <3> QED BY <3>2, <3>3, <3>4, ConcatFacts
  <2>4. Fits(Len(ss))
    <3>1. Nat \subseteq Good
      <4> HIDE DEF Good
      <4> QED BY <2>2, <2>3, NatSetInduction
    <3>2. Len(ss) # 0
      BY <1>2 DEF IsSequence
    <3>3. Len(ss) - 1 \in Nat /\ (Len(ss) - 1) + 1 = Len(ss)
      BY <1>0, <3>2
    <3> HIDE DEF Fits
    <3> QED BY <3>1, <3>3
  <2> QED BY <2>1, <2>4
<1> QED BY <1>1, <1>2

----------------------------------------------------------------------------
(* The names of boundaries.                                                *)

BearersOf(graph, kind, name) ==
    Only(graph.nodes, {n \in Range(graph.nodes) : n.kind = kind /\ name \in boundary_aliases(n)})

\* The alias table is what its recursive equation says.
LEMMA AliasStep ==
    ASSUME NEW graph, IsSequence(graph.nodes), NEW ns, NEW kind, NEW name,
           NEW bs, bs = BearersOf(graph, kind, name)
    PROVE  \E entry : /\ AliasTable(graph, ns, kind, name) = entry[Len(bs)]
                      /\ entry[0] = <<>>
                      /\ \A i \in 1..Len(bs) :
                           entry[i] = IF entry[i - 1] \in {<<>>, <<Pin(ns, bs[i])>>} THEN <<Pin(ns, bs[i])>> ELSE <<>>
<1> Len(bs) \in Nat
  BY OnlyFacts, IsSeqFacts DEF BearersOf
<1> DEFINE After(x, i) == LET pin == Pin(ns, bs[i]) IN
                           IF x = <<>> THEN <<pin>> ELSE IF x = <<pin>> THEN <<pin>> ELSE <<>>
           Rounds(f, n) == f = [i \in 0..n |-> IF i = 0 THEN <<>> ELSE After(f[i - 1], i)]
           Defined == {n \in Nat : \E f : Rounds(f, n)}
<1>1. 0 \in Defined
  <2>1. Rounds([i \in 0..0 |-> <<>>], 0)
    OBVIOUS
  <2> QED BY <2>1
<1>2. ASSUME NEW n \in Nat, n \in Defined PROVE n + 1 \in Defined
  <2>1. PICK f : Rounds(f, n)
    BY <1>2
  <2> DEFINE h == [i \in 0..(n + 1) |-> IF i \in 0..n THEN f[i] ELSE After(f[n], n + 1)]
  <2>2. \A i \in 0..n : h[i] = f[i] /\ f[i] = IF i = 0 THEN <<>> ELSE After(f[i - 1], i)
    <3>1. ASSUME NEW i \in 0..n PROVE f[i] = IF i = 0 THEN <<>> ELSE After(f[i - 1], i)
      <4> HIDE DEF After
      <4> QED BY <2>1
    <3>2. ASSUME NEW i \in 0..n PROVE h[i] = f[i]
      <4> i \in 0..(n + 1)
        OBVIOUS
      <4> HIDE DEF After
      <4> QED OBVIOUS
    <3> HIDE DEF After, h
    <3> QED BY <3>1, <3>2
  <2>3. h[n + 1] = After(f[n], n + 1)
    <3> HIDE DEF After
    <3> n + 1 \in 0..(n + 1) /\ n + 1 \notin 0..n
      OBVIOUS
    <3> QED OBVIOUS
  <2>4. ASSUME NEW i \in 0..(n + 1)
        PROVE  h[i] = IF i = 0 THEN <<>> ELSE After(h[i - 1], i)
    <3> HIDE DEF After, h
    <3>1. CASE i = 0
      BY <2>2, <3>1
    <3>2. CASE i \in 1..n
      <4>1. i - 1 \in 0..n /\ i \in 0..n
        BY <3>2
      <4> QED BY <2>2, <3>2, <4>1
    <3>3. CASE i = n + 1
      <4>1. i - 1 = n /\ n \in 0..n
        BY <3>3
      <4>2. h[n] = f[n]
        BY <2>2, <4>1
      <4> QED BY <2>3, <3>3, <4>1, <4>2
    <3> QED BY <3>1, <3>2, <3>3
  <2>5. Rounds(h, n + 1)
    <3>1. \A i \in 0..(n + 1) : h[i] = IF i = 0 THEN <<>> ELSE After(h[i - 1], i)
      BY <2>4
    <3> HIDE DEF After
    <3> QED BY <3>1
  <2> HIDE DEF h, Rounds
  <2> QED BY <2>5
<1>3. PICK f : Rounds(f, Len(bs)) /\ AliasTable(graph, ns, kind, name) = f[Len(bs)]
  <2>1. Len(bs) \in Defined
    <3> HIDE DEF Defined
    <3>1. Nat \subseteq Defined
      BY <1>1, <1>2, NatSetInduction
    <3> QED BY <3>1
  <2> DEFINE F == CHOOSE f : Rounds(f, Len(bs))
  <2>2. Rounds(F, Len(bs))
    BY <2>1
  <2>3. AliasTable(graph, ns, kind, name) = F[Len(bs)]
    BY DEF AliasTable, BearersOf
  <2> QED BY <2>2, <2>3
<1>4. f[0] = <<>>
  BY <1>3
<1>5. ASSUME NEW i \in 1..Len(bs) PROVE f[i] = After(f[i - 1], i)
  <2> i \in 0..Len(bs) /\ i # 0
    OBVIOUS
  <2> HIDE DEF After
  <2> QED BY <1>3
<1>6. ASSUME NEW i \in 1..Len(bs)
      PROVE  f[i] = IF f[i - 1] \in {<<>>, <<Pin(ns, bs[i])>>} THEN <<Pin(ns, bs[i])>> ELSE <<>>
  <2>1. f[i] = After(f[i - 1], i)
    BY <1>5
  <2> QED BY <2>1
<1> QED BY <1>3, <1>4, <1>6

\* A name that one boundary alone bears leads to it.
LEMMA NamedIsFound ==
    ASSUME NEW place, IsSequence(place.graph.nodes), NEW kind, NEW name,
           NEW pin \in Promise!Named(place, kind, name)
    PROVE  AliasTable(place.graph, place.path, kind, name) = <<pin>>
<1> DEFINE bs == BearersOf(place.graph, kind, name)
           B == {n \in Range(place.graph.nodes) : n.kind = kind /\ name \in boundary_aliases(n)}
<1>1. IsSequence(bs) /\ Range(bs) = B
  BY OnlyFacts DEF BearersOf
<1>2. Promise!Nodes(place.graph) = Range(place.graph.nodes)
  BY IsSeqFacts DEF Promise!Nodes
<1>3. {Pin(place.path, n) : n \in B} = {pin}
  BY <1>2 DEF Promise!Named, Promise!Boundary, Pin
<1> HIDE DEF B
<1>4. Len(bs) \in Nat /\ Len(bs) # 0
  <2>1. B # {}
    BY <1>3
  <2> QED BY <1>1, <2>1, IsSeqFacts
<1>5. \A i \in 1..Len(bs) : Pin(place.path, bs[i]) = pin
  BY <1>1, <1>3, IsSeqFacts
<1> HIDE DEF bs
<1>6. PICK entry : /\ AliasTable(place.graph, place.path, kind, name) = entry[Len(bs)]
                   /\ entry[0] = <<>>
                   /\ \A i \in 1..Len(bs) :
                        entry[i] = IF entry[i - 1] \in {<<>>, <<Pin(place.path, bs[i])>>}
                                   THEN <<Pin(place.path, bs[i])>> ELSE <<>>
  <2>1. bs = BearersOf(place.graph, kind, name)
    BY DEF bs
  <2> QED BY <2>1, AliasStep, SMTT(30)
<1> DEFINE Good == {i \in Nat : i + 1 <= Len(bs) => entry[i + 1] = <<pin>>}
<1>7. 0 \in Good
  <2>1. 1 \in 1..Len(bs) /\ 1 - 1 = 0 /\ entry[0] = <<>>
    BY <1>4, <1>6
  <2>2. entry[1] = <<pin>>
    BY <1>5, <1>6, <2>1
  <2> QED BY <2>2
<1>8. ASSUME NEW n \in Nat, n \in Good PROVE n + 1 \in Good
  <2> SUFFICES ASSUME n + 2 <= Len(bs) PROVE entry[n + 2] = <<pin>>
    OBVIOUS
  <2>1. n + 2 \in 1..Len(bs) /\ (n + 2) - 1 = n + 1 /\ entry[n + 1] = <<pin>>
    BY <1>4, <1>8
  <2> QED BY <1>5, <1>6, <2>1
<1>9. entry[Len(bs)] = <<pin>>
  <2>1. Nat \subseteq Good
    <3> HIDE DEF Good
    <3> QED BY <1>7, <1>8, NatSetInduction
  <2>2. Len(bs) - 1 \in Nat /\ (Len(bs) - 1) + 1 = Len(bs)
    BY <1>4
  <2>3. Len(bs) - 1 \in Good
    <3> HIDE DEF Good
    <3> QED BY <2>1, <2>2
  <2>4. Len(bs) <= Len(bs)
    BY <1>4
  <2> QED BY <2>2, <2>3, <2>4
<1> QED BY <1>6, <1>9

----------------------------------------------------------------------------
(* The document's places and cables.                                       *)

InsideOf(doc, places) ==
    UNION {{Promise!Inside(doc, p, n) : n \in {m \in Promise!Nodes(p.graph) : Promise!IsInstance(doc, m)}} :
             p \in places}

\* Nesting is what its recursive equation says.
LEMMA NestingStep ==
    ASSUME NEW doc
    PROVE  /\ Promise!Nesting(doc)[0] = {[path |-> <<>>, graph |-> doc.graph]}
           /\ \A d \in 1..MaxSubpatchDepth :
                Promise!Nesting(doc)[d] = InsideOf(doc, Promise!Nesting(doc)[d - 1])
<1> DEFINE root == {[path |-> <<>>, graph |-> doc.graph]}
<1> MaxSubpatchDepth \in Nat
  BY PlanningAssumption
<1> DEFINE After(x, i) == InsideOf(doc, x)
           Rounds(f, n) == f = [i \in 0..n |-> IF i = 0 THEN root ELSE After(f[i - 1], i)]
           Defined == {n \in Nat : \E f : Rounds(f, n)}
<1>1. 0 \in Defined
  <2>1. Rounds([i \in 0..0 |-> root], 0)
    OBVIOUS
  <2> QED BY <2>1
<1>2. ASSUME NEW n \in Nat, n \in Defined PROVE n + 1 \in Defined
  <2>1. PICK f : Rounds(f, n)
    BY <1>2
  <2> DEFINE h == [i \in 0..(n + 1) |-> IF i \in 0..n THEN f[i] ELSE After(f[n], n + 1)]
  <2>2. \A i \in 0..n : h[i] = f[i] /\ f[i] = IF i = 0 THEN root ELSE After(f[i - 1], i)
    <3>1. ASSUME NEW i \in 0..n PROVE f[i] = IF i = 0 THEN root ELSE After(f[i - 1], i)
      <4> HIDE DEF After, root
      <4> QED BY <2>1
    <3>2. ASSUME NEW i \in 0..n PROVE h[i] = f[i]
      <4> i \in 0..(n + 1)
        OBVIOUS
      <4> HIDE DEF After, root
      <4> QED OBVIOUS
    <3> HIDE DEF After, root, h
    <3> QED BY <3>1, <3>2
  <2>3. h[n + 1] = After(f[n], n + 1)
    <3> HIDE DEF After, root
    <3> n + 1 \in 0..(n + 1) /\ n + 1 \notin 0..n
      OBVIOUS
    <3> QED OBVIOUS
  <2>4. ASSUME NEW i \in 0..(n + 1)
        PROVE  h[i] = IF i = 0 THEN root ELSE After(h[i - 1], i)
    <3> HIDE DEF After, root, h
    <3>1. CASE i = 0
      BY <2>2, <3>1
    <3>2. CASE i \in 1..n
      <4>1. i - 1 \in 0..n /\ i \in 0..n
        BY <3>2
      <4> QED BY <2>2, <3>2, <4>1
    <3>3. CASE i = n + 1
      <4>1. i - 1 = n /\ n \in 0..n
        BY <3>3
      <4>2. h[n] = f[n]
        BY <2>2, <4>1
      <4> QED BY <2>3, <3>3, <4>1, <4>2
    <3> QED BY <3>1, <3>2, <3>3
  <2>5. Rounds(h, n + 1)
    <3>1. \A i \in 0..(n + 1) : h[i] = IF i = 0 THEN root ELSE After(h[i - 1], i)
      BY <2>4
    <3> HIDE DEF After, root
    <3> QED BY <3>1
  <2> HIDE DEF h, Rounds, root
  <2> QED BY <2>5
<1>3. PICK f : Rounds(f, MaxSubpatchDepth) /\ Promise!Nesting(doc) = f
  <2>1. MaxSubpatchDepth \in Defined
    <3> HIDE DEF Defined
    <3>1. Nat \subseteq Defined
      BY <1>1, <1>2, NatSetInduction
    <3> QED BY <3>1
  <2> DEFINE F == CHOOSE f : Rounds(f, MaxSubpatchDepth)
  <2>2. Rounds(F, MaxSubpatchDepth)
    BY <2>1
  <2>3. Promise!Nesting(doc) = F
    BY DEF Promise!Nesting, InsideOf
  <2> QED BY <2>2, <2>3
<1>4. f[0] = root
  BY <1>3
<1>5. ASSUME NEW i \in 1..MaxSubpatchDepth PROVE f[i] = After(f[i - 1], i)
  <2> i \in 0..MaxSubpatchDepth /\ i # 0
    OBVIOUS
  <2> HIDE DEF After, root
  <2> QED BY <1>3
<1> QED BY <1>3, <1>4, <1>5

LongerBy(arcs, cables) ==
    UNION {{Promise!Longer(c, a) : a \in {b \in arcs : Promise!Goes(c, b)}} : c \in cables}

\* The cables are gathered level by level.
LEMMA SameCardinality == ASSUME NEW S PROVE Promise!Cardinality(S) = Cardinality(S)
BY Zenon DEF Promise!Cardinality, Cardinality

\* CablesOf is what its recursive equation says.
LEMMA CablesStep ==
    ASSUME NEW arcs, Cardinality(arcs) \in Nat
    PROVE  \E passing :
             /\ Promise!CablesOf(arcs) = UNION {passing[n] : n \in 0..Cardinality(arcs)}
             /\ passing[0] = {Promise!Start(a) : a \in {b \in arcs : b.from[1] = "node"}}
             /\ \A n \in 1..Cardinality(arcs) : passing[n] = LongerBy(arcs, passing[n - 1])
<1> DEFINE size == Cardinality(arcs)
           first == {Promise!Start(a) : a \in {b \in arcs : b.from[1] = "node"}}
<1> DEFINE After(x, i) == LongerBy(arcs, x)
           Rounds(f, n) == f = [i \in 0..n |-> IF i = 0 THEN first ELSE After(f[i - 1], i)]
           Defined == {n \in Nat : \E f : Rounds(f, n)}
<1>1. 0 \in Defined
  <2>1. Rounds([i \in 0..0 |-> first], 0)
    OBVIOUS
  <2> QED BY <2>1
<1>2. ASSUME NEW n \in Nat, n \in Defined PROVE n + 1 \in Defined
  <2>1. PICK f : Rounds(f, n)
    BY <1>2
  <2> DEFINE h == [i \in 0..(n + 1) |-> IF i \in 0..n THEN f[i] ELSE After(f[n], n + 1)]
  <2>2. \A i \in 0..n : h[i] = f[i] /\ f[i] = IF i = 0 THEN first ELSE After(f[i - 1], i)
    <3>1. ASSUME NEW i \in 0..n PROVE f[i] = IF i = 0 THEN first ELSE After(f[i - 1], i)
      <4> HIDE DEF After, first
      <4> QED BY <2>1
    <3>2. ASSUME NEW i \in 0..n PROVE h[i] = f[i]
      <4> i \in 0..(n + 1)
        OBVIOUS
      <4> HIDE DEF After, first
      <4> QED OBVIOUS
    <3> HIDE DEF After, first, h
    <3> QED BY <3>1, <3>2
  <2>3. h[n + 1] = After(f[n], n + 1)
    <3> HIDE DEF After, first
    <3> n + 1 \in 0..(n + 1) /\ n + 1 \notin 0..n
      OBVIOUS
    <3> QED OBVIOUS
  <2>4. ASSUME NEW i \in 0..(n + 1)
        PROVE  h[i] = IF i = 0 THEN first ELSE After(h[i - 1], i)
    <3> HIDE DEF After, first, h
    <3>1. CASE i = 0
      BY <2>2, <3>1
    <3>2. CASE i \in 1..n
      <4>1. i - 1 \in 0..n /\ i \in 0..n
        BY <3>2
      <4> QED BY <2>2, <3>2, <4>1
    <3>3. CASE i = n + 1
      <4>1. i - 1 = n /\ n \in 0..n
        BY <3>3
      <4>2. h[n] = f[n]
        BY <2>2, <4>1
      <4> QED BY <2>3, <3>3, <4>1, <4>2
    <3> QED BY <3>1, <3>2, <3>3
  <2>5. Rounds(h, n + 1)
    <3>1. \A i \in 0..(n + 1) : h[i] = IF i = 0 THEN first ELSE After(h[i - 1], i)
      BY <2>4
    <3> HIDE DEF After, first
    <3> QED BY <3>1
  <2> HIDE DEF h, Rounds, first
  <2> QED BY <2>5
<1>3. PICK f : Rounds(f, size) /\ Promise!CablesOf(arcs) = UNION {f[i] : i \in 0..size}
  <2>1. size \in Defined
    <3> HIDE DEF Defined
    <3>1. Nat \subseteq Defined
      BY <1>1, <1>2, NatSetInduction
    <3> QED BY <3>1
  <2> DEFINE F == CHOOSE f : Rounds(f, size)
  <2>2. Rounds(F, size)
    BY <2>1
  <2>3. Promise!CablesOf(arcs) = UNION {F[i] : i \in 0..size}
    BY SameCardinality DEF Promise!CablesOf, LongerBy
  <2> QED BY <2>2, <2>3
<1>4. f[0] = first
  BY <1>3
<1>5. ASSUME NEW i \in 1..size PROVE f[i] = After(f[i - 1], i)
  <2> i \in 0..size /\ i # 0
    OBVIOUS
  <2> HIDE DEF After, first
  <2> QED BY <1>3
<1> QED BY <1>3, <1>4, <1>5

\* Every cable into a pin is joined with every cable out of it.
LEMMA JoinedFacts ==
    ASSUME NEW es, IsSequence(es), NEW pin
    PROVE  /\ IsSequence(Joined(es, pin))
           /\ Range(Joined(es, pin)) =
                {merge_boundary_edges(a, b) : a \in {e \in Range(es) : e.to = pin},
                                              b \in {e \in Range(es) : e.from = pin}}
<1> DEFINE into == {e \in Range(es) : e.to = pin}
           outof == {e \in Range(es) : e.from = pin}
           incoming == Only(es, into)
           outgoing == Only(es, outof)
           row(i) == [j \in 1..Len(outgoing) |-> merge_boundary_edges(incoming[i], outgoing[j])]
           rows == [i \in 1..Len(incoming) |-> row(i)]
<1>1. /\ IsSequence(incoming) /\ Range(incoming) = into
      /\ IsSequence(outgoing) /\ Range(outgoing) = outof
  <2> HIDE DEF into, outof
  <2>1. into \subseteq Range(es) /\ outof \subseteq Range(es)
    BY DEF into, outof
  <2>2. IsSequence(incoming) /\ Range(incoming) = Range(es) \cap into
    BY OnlyFacts
  <2>3. IsSequence(outgoing) /\ Range(outgoing) = Range(es) \cap outof
    BY OnlyFacts
  <2> HIDE DEF incoming, outgoing
  <2> QED BY <2>1, <2>2, <2>3
<1>2. Joined(es, pin) = FlattenSeq(rows)
  BY DEF Joined
<1> HIDE DEF into, outof
<1>3. /\ Len(incoming) \in Nat /\ Len(outgoing) \in Nat
      /\ into = {incoming[i] : i \in 1..Len(incoming)}
      /\ outof = {outgoing[j] : j \in 1..Len(outgoing)}
  BY <1>1, IsSeqFacts
<1> HIDE DEF incoming, outgoing
<1>4. ASSUME NEW i PROVE IsSequence(row(i)) /\ Len(row(i)) = Len(outgoing)
  <2> DEFINE r == row(i)
  <2>1. r = [j \in 1..Len(outgoing) |-> r[j]]
    OBVIOUS
  <2> HIDE DEF r
  <2>2. IsSequence(r) /\ Len(r) = Len(outgoing)
    BY <1>3, <2>1, FunctionIsSeq
  <2> QED BY <2>2 DEF r
<1>5. ASSUME NEW i PROVE Range(row(i)) = {merge_boundary_edges(incoming[i], b) : b \in outof}
  <2>1. Range(row(i)) = {row(i)[j] : j \in 1..Len(outgoing)}
    BY DEF Range
  <2>2. \A j \in 1..Len(outgoing) : row(i)[j] = merge_boundary_edges(incoming[i], outgoing[j])
    OBVIOUS
  <2> HIDE DEF row
  <2> QED BY <1>3, <2>1, <2>2
<1>6. IsSequence(rows) /\ Len(rows) = Len(incoming) /\ \A i \in 1..Len(incoming) : rows[i] = row(i)
  <2>1. rows = [i \in 1..Len(incoming) |-> rows[i]] /\ \A i \in 1..Len(incoming) : rows[i] = row(i)
    <3> HIDE DEF row
    <3> QED OBVIOUS
  <2> HIDE DEF rows, row
  <2> QED BY <1>3, <2>1, FunctionIsSeq
<1> HIDE DEF rows, row
<1>7. /\ IsSequence(FlattenSeq(rows))
      /\ Range(FlattenSeq(rows)) = UNION {Range(rows[i]) : i \in 1..Len(rows)}
  BY <1>4, <1>6, FlattenFacts
<1>8. Range(FlattenSeq(rows)) = {merge_boundary_edges(a, b) : a \in into, b \in outof}
  <2>1. \A i \in 1..Len(rows) : Range(rows[i]) = {merge_boundary_edges(incoming[i], b) : b \in outof}
    BY <1>5, <1>6
  <2>2. \A e : e \in Range(FlattenSeq(rows)) <=> \E i \in 1..Len(incoming) : \E b \in outof :
                 e = merge_boundary_edges(incoming[i], b)
    <3>1. Len(rows) = Len(incoming)
      BY <1>6
    <3>2. \A e : e \in Range(FlattenSeq(rows)) <=> \E i \in 1..Len(incoming) : e \in Range(rows[i])
      BY <1>7, <3>1
    <3>3. \A i \in 1..Len(incoming) : \A e :
            e \in Range(rows[i]) <=> \E b \in outof : e = merge_boundary_edges(incoming[i], b)
      BY <2>1, <3>1
    <3> HIDE DEF outof, incoming
    <3> SUFFICES ASSUME NEW e
                 PROVE  e \in Range(FlattenSeq(rows)) <=> \E i \in 1..Len(incoming) : \E b \in outof :
                          e = merge_boundary_edges(incoming[i], b)
      OBVIOUS
    <3>4. \A i \in 1..Len(incoming) :
            e \in Range(rows[i]) <=> \E b \in outof : e = merge_boundary_edges(incoming[i], b)
      BY <3>3
    <3>5. e \in Range(FlattenSeq(rows)) <=> \E i \in 1..Len(incoming) : e \in Range(rows[i])
      BY <3>2
    <3> QED BY <3>4, <3>5
  <2>3. \A e : (\E a \in into : \E b \in outof : e = merge_boundary_edges(a, b))
               <=> \E i \in 1..Len(incoming) : \E b \in outof : e = merge_boundary_edges(incoming[i], b)
    BY <1>3
  <2> DEFINE all == {merge_boundary_edges(a, b) : a \in into, b \in outof}
  <2>4. \A e : e \in all <=> \E a \in into : \E b \in outof : e = merge_boundary_edges(a, b)
    OBVIOUS
  <2>5. \A e : e \in Range(FlattenSeq(rows)) <=> e \in all
    <3> HIDE DEF all
    <3> QED BY <2>2, <2>3, <2>4
  <2> HIDE DEF all
  <2>6. Range(FlattenSeq(rows)) = all
    BY <2>5
  <2> QED BY <2>6 DEF all
<1> QED BY <1>2, <1>7, <1>8 DEF into, outof

\* Contracting a pin joins every cable into it with every cable out of it, but
\* for those that come back to where they started, and leaves the others alone.
LEMMA ContractFacts ==
    ASSUME NEW es, IsSequence(es), NEW pin
    PROVE  /\ IsSequence(contract(es, pin))
           /\ \A e \in Range(es) : e.from # pin /\ e.to # pin => e \in Range(contract(es, pin))
           /\ \A a, b \in Range(es) : a.to = pin /\ b.from = pin /\ a.from # b.to =>
                merge_boundary_edges(a, b) \in Range(contract(es, pin))
<1> DEFINE kept == {e \in Range(es) : e.from # pin /\ e.to # pin}
           joined == Joined(es, pin)
           open == {e \in Range(joined) : e.from # e.to}
<1>1. IsSequence(Retained(es, pin)) /\ Range(Retained(es, pin)) = kept
  BY OnlyFacts DEF Retained
<1>2. IsSequence(joined)
  BY JoinedFacts
<1>3. IsSequence(Only(joined, open)) /\ Range(Only(joined, open)) = open
  <2>1. open \subseteq Range(joined)
    OBVIOUS
  <2> HIDE DEF open, joined
  <2> QED BY <1>2, <2>1, OnlyFacts
<1>4. contract(es, pin) = Retained(es, pin) \o Only(joined, open)
  BY DEF contract
<1>5. IsSequence(contract(es, pin)) /\ Range(contract(es, pin)) = kept \cup open
  <2> HIDE DEF kept, open, joined
  <2> QED BY <1>1, <1>3, <1>4, ConcatFacts
<1>6. ASSUME NEW a \in Range(es), NEW b \in Range(es), a.to = pin, b.from = pin, a.from # b.to
      PROVE  merge_boundary_edges(a, b) \in open
  <2>1. merge_boundary_edges(a, b) \in Range(joined)
    BY <1>6, JoinedFacts
  <2>2. merge_boundary_edges(a, b).from = a.from /\ merge_boundary_edges(a, b).to = b.to
    BY DEF merge_boundary_edges
  <2> QED BY <1>6, <2>1, <2>2
<1> HIDE DEF open
<1> QED BY <1>5, <1>6

----------------------------------------------------------------------------
(* Documents.                                                              *)
GraphOk(graph) == IsGraph(graph) /\ validate_graph_document(graph)
DocumentOk(doc) == IsDocument(doc) /\ validate_project_document(doc)

\* The graphs of a document.
LEMMA DocumentGraphs ==
    ASSUME NEW doc, DocumentOk(doc)
    PROVE  /\ GraphOk(doc.graph)
           /\ \A i \in 1..Len(doc.library) : GraphOk(doc.library[i].graph)
           /\ \A id \in PatchIds(doc.library) : GraphOk(PatchNamed(doc.library, id).graph)
<1>1. GraphOk(doc.graph) /\ \A i \in 1..Len(doc.library) : GraphOk(doc.library[i].graph)
  BY DEF DocumentOk, IsDocument, validate_project_document, GraphOk
<1>2. ASSUME NEW id \in PatchIds(doc.library) PROVE GraphOk(PatchNamed(doc.library, id).graph)
  <2>1. \E i \in 1..Len(doc.library) : doc.library[i].id = id
    BY DEF PatchIds
  <2>2. PICK i \in 1..Len(doc.library) : PatchNamed(doc.library, id) = doc.library[i]
    BY <2>1 DEF PatchNamed
  <2> QED BY <1>1, <2>2
<1> QED BY <1>1, <1>2

\* A target of a command names a graph of the document.
LEMMA GraphOfOk ==
    ASSUME NEW doc, DocumentOk(doc), NEW target, HasGraph(doc, target)
    PROVE  GraphOk(GraphOf(doc, target))
BY DocumentGraphs DEF HasGraph, GraphOf

\* Replacing one graph of a document by a graph leaves a document.
LEMMA WithGraphOk ==
    ASSUME NEW doc, DocumentOk(doc), NEW target, NEW graph, GraphOk(graph)
    PROVE  DocumentOk(WithGraph(doc, target, graph))
<1>1. CASE target = Root
  <2> DEFINE new == WithGraph(doc, target, graph)
  <2>1. new = [library |-> doc.library, graph |-> graph]
    BY <1>1 DEF WithGraph, DocumentOk, IsDocument
  <2>2. new.library = doc.library /\ new.graph = graph /\ new = [library |-> new.library, graph |-> new.graph]
    BY <2>1
  <2> HIDE DEF new
  <2>3. IsDocument(new)
    BY <2>2 DEF IsDocument, DocumentOk, GraphOk
  <2>4. validate_project_document(new)
    BY <2>2 DEF validate_project_document, DocumentOk, GraphOk
  <2>5. DocumentOk(new)
    BY <2>3, <2>4 DEF DocumentOk
  <2> QED BY <2>5 DEF new
<1>2. CASE target # Root
  <2> DEFINE old == doc.library
             entry(i) == IF old[i].id = target THEN [old[i] EXCEPT !.graph = graph] ELSE old[i]
             lib == [i \in DOMAIN old |-> entry(i)]
             new == WithGraph(doc, target, graph)
  <2>1. /\ DOMAIN old = 1..Len(old) /\ Len(old) \in Nat
        /\ \A i \in 1..Len(old) : old[i] = [id |-> old[i].id, revision |-> old[i].revision, graph |-> old[i].graph]
    BY IsSeqFacts DEF DocumentOk, IsDocument
  <2>2. new = [library |-> lib, graph |-> doc.graph]
    BY <1>2 DEF WithGraph, DocumentOk, IsDocument
  <2>3. new.library = lib /\ new.graph = doc.graph /\ new = [library |-> new.library, graph |-> new.graph]
    BY <2>2
  <2>4. ASSUME NEW i \in 1..Len(old)
        PROVE  /\ entry(i) = [id |-> entry(i).id, revision |-> entry(i).revision, graph |-> entry(i).graph]
               /\ entry(i).graph = graph \/ entry(i).graph = old[i].graph
    <3>1. CASE old[i].id = target
      <4>1. entry(i) = [id |-> old[i].id, revision |-> old[i].revision, graph |-> graph]
        <5>1. ASSUME NEW x, NEW a, NEW b, NEW g, x = [id |-> a, revision |-> b, graph |-> g]
              PROVE  [x EXCEPT !.graph = graph] = [id |-> a, revision |-> b, graph |-> graph]
          BY <5>1
        <5>2. entry(i) = [old[i] EXCEPT !.graph = graph]
          BY <3>1
        <5> HIDE DEF entry, old
        <5> QED BY <2>1, <5>1, <5>2
      <4> QED BY <4>1
    <3>2. CASE old[i].id # target
      BY <2>1, <3>2
    <3> QED BY <3>1, <3>2
  <2> HIDE DEF entry
  <2>5. lib = [i \in 1..Len(old) |-> lib[i]] /\ \A i \in 1..Len(old) : lib[i] = entry(i)
    BY <2>1
  <2> HIDE DEF lib, new
  <2>6. IsSequence(lib) /\ Len(lib) = Len(old)
    BY <2>1, <2>5, FunctionIsSeq
  <2>7. \A i \in 1..Len(old) : GraphOk(lib[i].graph)
    BY <2>4, <2>5, DocumentGraphs
  <2>8. \A i \in 1..Len(old) :
          lib[i] = [id |-> lib[i].id, revision |-> lib[i].revision, graph |-> lib[i].graph]
    BY <2>4, <2>5
  <2> HIDE DEF old
  <2>9. IsDocument(new)
    BY <2>3, <2>6, <2>7, <2>8 DEF IsDocument, DocumentOk, GraphOk
  <2>10. validate_project_document(new)
    BY <2>3, <2>6, <2>7 DEF validate_project_document, DocumentOk, GraphOk
  <2>11. DocumentOk(new)
    BY <2>9, <2>10 DEF DocumentOk
  <2> QED BY <2>11 DEF new
<1> QED BY <1>1, <1>2

\* A new object comes last and has an id of its own.
LEMMA CreatedGraphOk ==
    ASSUME NEW graph, GraphOk(graph), NEW node, IsSequence(node), Len(node) = 1, NEW id,
           "id" \in DOMAIN node[1], node[1].id = id, \A n \in Range(graph.nodes) : n.id # id
    PROVE  GraphOk([graph EXCEPT !.nodes = @ \o node])
<1> DEFINE nodes == graph.nodes \o node
           new == [graph EXCEPT !.nodes = @ \o node]
<1>1. new = [nodes |-> nodes, edges |-> graph.edges]
  <2>1. graph = [nodes |-> graph.nodes, edges |-> graph.edges]
    BY DEF GraphOk, IsGraph
  <2>2. ASSUME NEW ns, NEW es, NEW x, graph = [nodes |-> ns, edges |-> es]
        PROVE  [graph EXCEPT !.nodes = x] = [nodes |-> x, edges |-> es]
    BY <2>2
  <2> HIDE DEF nodes
  <2> QED BY <2>1, <2>2 DEF nodes
<1>2. new.nodes = nodes /\ new.edges = graph.edges /\ new = [nodes |-> new.nodes, edges |-> new.edges]
  BY <1>1
<1>3. /\ IsSequence(nodes) /\ Len(nodes) = Len(graph.nodes) + 1 /\ Len(graph.nodes) \in Nat
      /\ \A i \in 1..Len(graph.nodes) : nodes[i] = graph.nodes[i] /\ nodes[i] \in Range(graph.nodes)
      /\ nodes[Len(graph.nodes) + 1] = node[1]
  <2>1. IsSequence(graph.nodes)
    BY DEF GraphOk, IsGraph
  <2>2. /\ IsSequence(nodes) /\ Len(nodes) = Len(graph.nodes) + Len(node)
        /\ \A i \in 1..Len(graph.nodes) : nodes[i] = graph.nodes[i]
        /\ \A i \in 1..Len(node) : nodes[Len(graph.nodes) + i] = node[i]
    <3> DEFINE old == graph.nodes
    <3>1. nodes = old \o node /\ IsSequence(old)
      BY <2>1
    <3> HIDE DEF old, nodes, new
    <3>2. /\ IsSequence(nodes) /\ Len(nodes) = Len(old) + Len(node)
          /\ \A i \in 1..Len(old) : nodes[i] = old[i]
          /\ \A i \in 1..Len(node) : nodes[Len(old) + i] = node[i]
      <4>1. IsSequence(old \o node) /\ Len(old \o node) = Len(old) + Len(node)
        BY <3>1, ConcatFacts
      <4>2. \A i \in 1..Len(old) : (old \o node)[i] = old[i]
        BY <3>1, ConcatFacts
      <4>3. \A i \in 1..Len(node) : (old \o node)[Len(old) + i] = node[i]
        BY <3>1, ConcatFacts, SMTT(30)
      <4>4. IsSequence(nodes) /\ Len(nodes) = Len(old) + Len(node)
        BY <3>1, <4>1
      <4>5. \A i \in 1..Len(old) : nodes[i] = old[i]
        BY <3>1, <4>2
      <4>6. \A i \in 1..Len(node) : nodes[Len(old) + i] = node[i]
        BY <3>1, <4>3
      <4> QED BY <4>4, <4>5, <4>6
    <3> QED BY <3>2 DEF old
  <2> HIDE DEF nodes
  <2> QED BY <2>1, <2>2, IsSeqFacts
<1> HIDE DEF new, nodes
<1>4. \A i \in 1..Len(nodes) : i \in 1..Len(graph.nodes) \/ i = Len(graph.nodes) + 1
  BY <1>3
<1>5. IsGraph(new)
  <2>1. \A i \in 1..Len(nodes) : "id" \in DOMAIN nodes[i]
    BY <1>3, <1>4 DEF GraphOk, IsGraph
  <2> QED BY <1>2, <1>3, <2>1 DEF GraphOk, IsGraph
<1>6. validate_graph_document(new)
  <2>1. \A i, j \in 1..Len(graph.nodes) : graph.nodes[i].id = graph.nodes[j].id => i = j
    BY DEF GraphOk, validate_graph_document
  <2>2. ASSUME NEW i \in 1..Len(nodes), NEW j \in 1..Len(nodes), nodes[i].id = nodes[j].id PROVE i = j
    BY <1>3, <1>4, <2>1, <2>2
  <2> QED BY <1>2, <2>2 DEF validate_graph_document
<1> QED BY <1>5, <1>6 DEF GraphOk, new

\* Deleting a node with its edges (delete_node) leaves a graph.
LEMMA DeletedGraphOk ==
    ASSUME NEW graph, GraphOk(graph), NEW S, NEW T
    PROVE  GraphOk([nodes |-> Only(graph.nodes, S), edges |-> Only(graph.edges, T)])
<1> DEFINE nodes == Only(graph.nodes, S)
           new == [nodes |-> nodes, edges |-> Only(graph.edges, T)]
<1>1. IsSequence(nodes) /\ IsSequence(Only(graph.edges, T))
  BY OnlyFacts DEF GraphOk, IsGraph
<1>2. PICK at : Keeps(nodes, graph.nodes, at)
  BY OnlyFacts DEF GraphOk, IsGraph
<1>3. new.nodes = nodes /\ new.edges = Only(graph.edges, T) /\ new = [nodes |-> new.nodes, edges |-> new.edges]
  OBVIOUS
<1>4. Len(nodes) \in Nat /\ Len(graph.nodes) \in Nat
  BY <1>1, IsSeqFacts DEF GraphOk, IsGraph
<1> HIDE DEF new, nodes
<1>5. IsGraph(new)
  <2>1. \A i \in 1..Len(nodes) : "id" \in DOMAIN nodes[i]
    BY <1>2 DEF GraphOk, IsGraph, Keeps
  <2> QED BY <1>1, <1>3, <2>1 DEF IsGraph
<1>6. validate_graph_document(new)
  <2>1. \A i, j \in 1..Len(graph.nodes) : graph.nodes[i].id = graph.nodes[j].id => i = j
    BY DEF GraphOk, validate_graph_document
  <2>2. ASSUME NEW i \in 1..Len(nodes), NEW j \in 1..Len(nodes), nodes[i].id = nodes[j].id PROVE i = j
    <3>1. at[i] = at[j]
      BY <1>2, <2>1, <2>2 DEF Keeps
    <3>2. ~(i < j) /\ ~(j < i)
      BY <1>2, <1>4, <3>1 DEF Keeps
    <3> QED BY <1>4, <3>2
  <2> QED BY <1>3, <2>2 DEF validate_graph_document
<1>7. GraphOk(new)
  BY <1>5, <1>6 DEF GraphOk
<1> QED BY <1>7 DEF new, nodes

\* Only a document is planned: None is none.
LEMMA DocumentIsNotNone == ASSUME NEW doc, DocumentOk(doc) PROVE doc # None
<1>1. "graph" \in DOMAIN doc
  BY DEF DocumentOk, IsDocument
<1> QED BY <1>1, PlanningAssumption

DocumentsInv ==
  /\ document # None => DocumentOk(document)
  /\ phase \in {"idle", "expand", "contract", "order"}
  /\ phase # "idle" => DocumentOk(request.document)

\* A request that begins, or is refused at once, keeps the documents valid.
LEMMA BeginsWell ==
    ASSUME NEW doc, DocumentOk(doc), NEW remembered, DocumentsInv, Begin(doc, remembered)
    PROVE  DocumentsInv'
<1>1. CASE validate_patch_library(doc.library) # {}
  <2>1. phase' = "idle" /\ document' = document
    BY <1>1 DEF Begin, Refuse, Idle, installed
  <2> QED BY <2>1 DEF DocumentsInv
<1>2. CASE validate_patch_library(doc.library) = {}
  <2>1. phase' = "expand" /\ document' = document /\ request'.document = doc
    BY <1>2 DEF Begin, installed
  <2> QED BY <2>1 DEF DocumentsInv
<1> QED BY <1>1, <1>2

\* What begins a request: a document that is one.
LEMMA RequestsAreDocuments ==
    ASSUME DocumentsInv
    PROVE  /\ \A payload \in Payloads : load_session(payload) =>
                (\E doc, remembered : DocumentOk(doc) /\ Begin(doc, remembered)) \/ Refuse
           /\ \A c \in Creations : create_object_node(c) =>
                \E doc, remembered : DocumentOk(doc) /\ Begin(doc, remembered)
           /\ \A d \in Deletions : delete_node(d[1], d[2]) =>
                \E doc, remembered : DocumentOk(doc) /\ Begin(doc, remembered)
<1>1. ASSUME NEW payload \in Payloads, load_session(payload)
      PROVE  (\E doc, remembered : DocumentOk(doc) /\ Begin(doc, remembered)) \/ Refuse
  <2>1. IsDocument(payload.document)
    BY PlanningAssumption
  <2>2. CASE decode_project_payload(payload) /\ validate_project_document(payload.document)
    <3>1. Begin(payload.document, normalized_node_definitions(payload.document.library, {}))
      BY <1>1, <2>2 DEF load_session, load_project
    <3> QED BY <2>1, <2>2, <3>1 DEF DocumentOk
  <2>3. CASE ~(decode_project_payload(payload) /\ validate_project_document(payload.document))
    BY <1>1, <2>3 DEF load_session, load_project
  <2> QED BY <2>2, <2>3
<1>2. ASSUME NEW c \in Creations, create_object_node(c)
      PROVE  \E doc, remembered : DocumentOk(doc) /\ Begin(doc, remembered)
  <2> DEFINE graph == GraphOf(document, c.target)
             node == materialize_object_command_node(document.library, c.text, c.id, c.policy)
             new == [graph EXCEPT !.nodes = @ \o node]
  <2>1. /\ DocumentOk(document) /\ HasGraph(document, c.target)
        /\ node # <<>> /\ \A n \in Range(graph.nodes) : n.id # c.id
        /\ Begin(WithGraph(document, c.target, new), ensure_object_node_definition(nodes_current, node_definition(node[1])))
    BY <1>2 DEF create_object_node, DocumentsInv
  <2>2. IsSequence(node) /\ Len(node) = 1 /\ "id" \in DOMAIN node[1] /\ node[1].id = c.id
    <3>1. \/ \E r : node = <<materialize_object_text_node(r, c.text, c.id)>>
          \/ \E r : node = <<materialize_unresolved_object_text_node(r, c.text, c.id)>>
      <4> DEFINE resolution == resolve(document.library, FALSE, c.text)
      <4>1. CASE resolution.code = "ok"
        <5>1. node = <<materialize_object_text_node(resolution, c.text, c.id)>>
          BY <4>1 DEF materialize_object_command_node
        <5> QED BY <5>1
      <4>2. CASE resolution.code # "ok" /\ c.policy = "materialize"
        <5>1. node = <<materialize_unresolved_object_text_node(resolution, c.text, c.id)>>
          BY <4>2 DEF materialize_object_command_node
        <5> QED BY <5>1
      <4>3. CASE resolution.code # "ok" /\ c.policy # "materialize"
        BY <2>1, <4>3 DEF materialize_object_command_node
      <4> QED BY <4>1, <4>2, <4>3
    <3> HIDE DEF node
    <3>0. ASSUME NEW r, NEW t, NEW id
          PROVE  /\ "id" \in DOMAIN materialize_object_text_node(r, t, id)
                 /\ materialize_object_text_node(r, t, id).id = id
                 /\ "id" \in DOMAIN materialize_unresolved_object_text_node(r, t, id)
                 /\ materialize_unresolved_object_text_node(r, t, id).id = id
      BY DEF materialize_object_text_node, materialize_unresolved_object_text_node
    <3>2. PICK n : node = <<n>> /\ "id" \in DOMAIN n /\ n.id = c.id
      BY <3>0, <3>1
    <3>3. IsSequence(<<n>>) /\ Len(<<n>>) = 1 /\ <<n>>[1] = n
      BY DEF IsSequence, Range
    <3> QED BY <3>2, <3>3
  <2> HIDE DEF node
  <2>3. GraphOk(graph)
    BY <2>1, GraphOfOk
  <2> HIDE DEF graph
  <2>4. GraphOk(new)
    BY <2>1, <2>2, <2>3, CreatedGraphOk
  <2> HIDE DEF new
  <2> QED BY <2>1, <2>4, WithGraphOk
<1>3. ASSUME NEW d \in Deletions, delete_node(d[1], d[2])
      PROVE  \E doc, remembered : DocumentOk(doc) /\ Begin(doc, remembered)
  <2> DEFINE graph == GraphOf(document, d[1])
             new == [nodes |-> Only(graph.nodes, {n \in Range(graph.nodes) : n.id # d[2]}),
                     edges |-> Only(graph.edges, {e \in Range(graph.edges) : e.from[1] # d[2] /\ e.to[1] # d[2]})]
  <2>1. /\ DocumentOk(document) /\ HasGraph(document, d[1])
        /\ Begin(WithGraph(document, d[1], new), nodes_current)
    BY <1>3 DEF delete_node, DocumentsInv
  <2>2. GraphOk(graph)
    BY <2>1, GraphOfOk
  <2> HIDE DEF graph
  <2>3. GraphOk(new)
    BY <2>2, DeletedGraphOk
  <2> HIDE DEF new
  <2> QED BY <2>1, <2>3, WithGraphOk
<1> QED BY <1>1, <1>2, <1>3

\* Every step keeps the documents valid.
LEMMA DocumentsStep == DocumentsInv /\ [Next]_vars => DocumentsInv'
<1> SUFFICES ASSUME DocumentsInv, [Next]_vars PROVE DocumentsInv'
  OBVIOUS
<1>0. ASSUME phase' = "idle", UNCHANGED document PROVE DocumentsInv'
  BY <1>0 DEF DocumentsInv
<1>1. ASSUME NEW payload \in Payloads, load_session(payload) PROVE DocumentsInv'
  <2>1. Refuse => phase' = "idle" /\ UNCHANGED document
    BY DEF Refuse, Idle, installed
  <2> QED BY <1>0, <1>1, <2>1, RequestsAreDocuments, BeginsWell
<1>2. ASSUME NEW c \in Creations, create_object_node(c) PROVE DocumentsInv'
  BY <1>2, RequestsAreDocuments, BeginsWell
<1>3. ASSUME NEW d \in Deletions, delete_node(d[1], d[2]) PROVE DocumentsInv'
  BY <1>3, RequestsAreDocuments, BeginsWell
<1>4. ASSUME UNCHANGED <<document, request>>, phase # "idle", phase' \in {"expand", "contract", "order"}
      PROVE  DocumentsInv'
  BY <1>4 DEF DocumentsInv
<1>5. CASE expand_graph
  <2>1. CASE Refuse
    BY <1>0, <2>1 DEF Refuse, Idle, installed
  <2>2. CASE ~Refuse
    <3>1. UNCHANGED <<document, request>> /\ phase' \in {"expand", "contract"}
      BY <1>5, <2>2 DEF expand_graph, expand_boundary, expand_subpatch, expand_object, expand_edge,
                        expand_return, installed
    <3> QED BY <1>4, <1>5, <3>1 DEF expand_graph
  <2> QED BY <2>1, <2>2
<1>6. ASSUME NEW pin \in pins, contract_boundary_edges(pin) PROVE DocumentsInv'
  BY <1>4, <1>6 DEF contract_boundary_edges, installed
<1>7. CASE StartOrder
  <2>1. CASE Refuse
    BY <1>0, <2>1 DEF Refuse, Idle, installed
  <2>2. CASE ~Refuse
    BY <1>4, <1>7, <2>2 DEF StartOrder, installed
  <2> QED BY <2>1, <2>2
<1>8. CASE order_next
  BY <1>4, <1>8 DEF order_next, installed
<1>9. CASE relax_edge
  BY <1>4, <1>9 DEF relax_edge, installed
<1>10. CASE Finish
  BY <1>10 DEF Finish, Idle, DocumentsInv
<1>11. CASE UNCHANGED vars
  BY <1>11 DEF vars, installed, DocumentsInv
<1> QED BY <1>1, <1>2, <1>3, <1>5, <1>6, <1>7, <1>8, <1>9, <1>10, <1>11 DEF Next

----------------------------------------------------------------------------
(* The places of a document.                                               *)
RootPlace(doc) == [path |-> <<>>, graph |-> doc.graph]
PlaceOf(frame) == [path |-> frame.path, graph |-> frame.graph]
Turns(graph) == Len(graph.nodes) + Len(graph.edges)

\* The path to a place is as long as the place is deep.
LEMMA NestingPaths ==
    ASSUME NEW doc, NEW d \in 0..MaxSubpatchDepth, NEW p \in Promise!Nesting(doc)[d]
    PROVE  IsSequence(p.path) /\ Len(p.path) = d /\ p = [path |-> p.path, graph |-> p.graph]
<1> DEFINE Fits(q, e) == IsSequence(q.path) /\ Len(q.path) = e /\ q = [path |-> q.path, graph |-> q.graph]
           Good == {e \in Nat : e <= MaxSubpatchDepth => \A q \in Promise!Nesting(doc)[e] : Fits(q, e)}
<1>0. MaxSubpatchDepth \in Nat
  BY PlanningAssumption
<1>1. 0 \in Good
  BY NestingStep, EmptyIsSeq
<1>2. ASSUME NEW e \in Nat, e \in Good PROVE e + 1 \in Good
  <2> SUFFICES ASSUME e + 1 <= MaxSubpatchDepth, NEW q \in Promise!Nesting(doc)[e + 1] PROVE Fits(q, e + 1)
    OBVIOUS
  <2>1. e <= MaxSubpatchDepth /\ e + 1 \in 1..MaxSubpatchDepth /\ (e + 1) - 1 = e
    BY <1>0
  <2>2. q \in InsideOf(doc, Promise!Nesting(doc)[e])
    BY <2>1, NestingStep
  <2>3. \E o \in Promise!Nesting(doc)[e] : \E n : q = Promise!Inside(doc, o, n)
    BY <2>2 DEF InsideOf
  <2> PICK o \in Promise!Nesting(doc)[e] : \E n : q = Promise!Inside(doc, o, n)
    BY <2>3
  <2> PICK n : q = Promise!Inside(doc, o, n)
    OBVIOUS
  <2>4. Fits(o, e)
    BY <1>2, <2>1
  <2>5. q.path = Append(o.path, n.id) /\ q = [path |-> q.path, graph |-> q.graph]
    BY DEF Promise!Inside
  <2> QED BY <2>4, <2>5, AppendFacts
<1>3. Nat \subseteq Good
  <2> HIDE DEF Good
  <2> QED BY <1>1, <1>2, NatSetInduction
<1>4. d \in Nat /\ d <= MaxSubpatchDepth
  BY <1>0
<1> HIDE DEF Fits
<1>5. Fits(p, d)
  BY <1>3, <1>4
<1> QED BY <1>5 DEF Fits

\* Inside an instance it is one level deeper.
LEMMA InsideIsDeeper ==
    ASSUME NEW doc, NEW d \in Nat, d + 1 <= MaxSubpatchDepth, NEW p \in Promise!Nesting(doc)[d],
           NEW n \in Promise!Nodes(p.graph), Promise!IsInstance(doc, n)
    PROVE  Promise!Inside(doc, p, n) \in Promise!Nesting(doc)[d + 1]
<1>1. d + 1 \in 1..MaxSubpatchDepth /\ (d + 1) - 1 = d
  BY PlanningAssumption
<1>2. Promise!Inside(doc, p, n) \in InsideOf(doc, Promise!Nesting(doc)[d])
  BY DEF InsideOf
<1> QED BY <1>1, <1>2, NestingStep

\* What the promise and the expansion call by different names.
LEMMA SameNodes ==
    ASSUME NEW doc, NEW n
    PROVE  /\ Promise!IsBoundary(n) <=> is_boundary_node(n)
           /\ Promise!IsInstance(doc, n) <=> ~is_boundary_node(n) /\ is_subpatch_node(n)
<1>1. Promise!IsBoundary(n) <=> is_boundary_node(n)
  BY DEF Promise!IsBoundary, is_boundary_node
<1>2. PatchOfNode(doc, n) # <<>> <=> is_subpatch_node(n)
  BY DEF PatchOfNode
<1> QED BY <1>1, <1>2 DEF Promise!IsInstance

\* The place inside an instance, in the words of expand_graph_current.
LEMMA InsideFacts ==
    ASSUME NEW doc, NEW p, NEW n, is_subpatch_node(n)
    PROVE  Promise!Inside(doc, p, n) =
             [path |-> Append(p.path, n.id), graph |-> PatchNamed(doc.library, subpatch_ref(doc.library, n)[1]).graph]
<1>1. PatchOfNode(doc, n)[1] = PatchNamed(doc.library, subpatch_ref(doc.library, n)[1])
  BY DEF PatchOfNode
<1> QED BY <1>1 DEF Promise!Inside

\* The nodes of a graph are those of its sequence.
LEMMA NodesFacts ==
    ASSUME NEW graph, IsSequence(graph.nodes)
    PROVE  /\ Promise!Nodes(graph) = Range(graph.nodes)
           /\ Len(graph.nodes) \in Nat
           /\ \A i \in 1..Len(graph.nodes) : graph.nodes[i] \in Promise!Nodes(graph)
           /\ \A n \in Promise!Nodes(graph) : \E i \in 1..Len(graph.nodes) : n = graph.nodes[i]
BY IsSeqFacts DEF Promise!Nodes

\* The ids of a sequence of nodes stand where the nodes stand.
LEMMA IdsFacts ==
    ASSUME NEW nodes, IsSequence(nodes)
    PROVE  /\ IsSequence(IdsOf(nodes)) /\ Len(IdsOf(nodes)) = Len(nodes)
           /\ \A i \in 1..Len(nodes) : IdsOf(nodes)[i] = nodes[i].id
           /\ Range(IdsOf(nodes)) = {nodes[i].id : i \in 1..Len(nodes)}
<1> DEFINE ids == IdsOf(nodes)
<1>1. ids = [i \in 1..Len(nodes) |-> ids[i]] /\ \A i \in 1..Len(nodes) : ids[i] = nodes[i].id
  BY DEF IdsOf
<1>2. Len(nodes) \in Nat
  BY IsSeqFacts
<1> HIDE DEF ids
<1>3. IsSequence(ids) /\ Len(ids) = Len(nodes)
  BY <1>1, <1>2, FunctionIsSeq
<1>4. Range(ids) = {ids[i] : i \in 1..Len(ids)}
  BY <1>3, IsSeqFacts
<1>5. Range(ids) = {nodes[i].id : i \in 1..Len(nodes)}
  BY <1>1, <1>3, <1>4
<1> QED BY <1>1, <1>3, <1>5 DEF ids

----------------------------------------------------------------------------
(* The calls of expand_graph_current.                                      *)

\* Each frame stands at a turn of the graph it was called for, one instance
\* deeper than the frame below it.
FramesInv ==
  /\ IsSequence(calls)
  /\ \A k \in 1..Len(calls) :
       /\ calls[k] = [path |-> calls[k].path, graph |-> calls[k].graph, refs |-> calls[k].refs, at |-> calls[k].at]
       /\ PlaceOf(calls[k]) \in opened
       /\ IsSequence(calls[k].refs) /\ Len(calls[k].refs) = k - 1 /\ Len(calls[k].path) = k - 1
       /\ calls[k].at \in 1..(Turns(calls[k].graph) + 1)

\* The opened graphs are places of the document, none of them twice.
OpenedInv ==
  /\ RootPlace(request.document) \in opened
  /\ \A p \in opened :
       /\ Len(p.path) \in 0..MaxSubpatchDepth
       /\ p \in Promise!Nesting(request.document)[Len(p.path)]
       /\ GraphOk(p.graph)
  /\ \A p, q \in opened : p.path = q.path => p = q

\* Turn i of a place is over.
Reached(p, i) == \A k \in 1..Len(calls) : calls[k].path = p.path => i < calls[k].at

\* A place is opened by the turn of an instance.
ParentsInv ==
  \A p \in opened :
    \/ p = RootPlace(request.document)
    \/ \E q \in opened : \E j \in 1..Len(q.graph.nodes) :
         /\ Promise!IsInstance(request.document, q.graph.nodes[j])
         /\ p = Promise!Inside(request.document, q, q.graph.nodes[j])
         /\ Reached(q, j)

\* What the turn of a node leaves behind.
NodeDone(p, n) ==
  /\ is_boundary_node(n) => Pin(p.path, n) \in pins
  /\ Promise!IsInstance(request.document, n) =>
       /\ subpatch_ref(Library, n) # <<>>
       /\ subpatch_ref(Library, n)[1] \in PatchIds(Library)
       /\ Len(p.path) + 1 <= MaxSubpatchDepth
       /\ Promise!Inside(request.document, p, n) \in opened
  /\ ~is_boundary_node(n) /\ ~is_subpatch_node(n) => Append(p.path, n.id) \in Range(IdsOf(expanded))

\* ... and that of an edge.
EdgeDone(p, e) == Promise!ArcsOf(request.document, p, e) \subseteq Range(edges)

VisitedInv ==
  \A p \in opened :
    /\ \A i \in 1..Len(p.graph.nodes) : Reached(p, i) => NodeDone(p, p.graph.nodes[i])
    /\ \A i \in 1..Len(p.graph.edges) : Reached(p, Len(p.graph.nodes) + i) => EdgeDone(p, p.graph.edges[i])

\* The expanded objects come from the turns of objects, each from one.
ExpandedInv ==
  /\ IsSequence(expanded)
  /\ \A k \in 1..Len(expanded) :
       \E q \in opened : \E j \in 1..Len(q.graph.nodes) :
         /\ ~is_boundary_node(q.graph.nodes[j]) /\ ~is_subpatch_node(q.graph.nodes[j])
         /\ expanded[k].id = Append(q.path, q.graph.nodes[j].id)
         /\ Reached(q, j)
  /\ \A k, l \in 1..Len(expanded) : expanded[k].id = expanded[l].id => k = l

PinsInv == IsSequence(edges) /\ \A pin \in pins : pin[1] = "pin"

\* The places opened.
LEMMA OpenedFacts ==
    ASSUME OpenedInv, NEW p \in opened
    PROVE  /\ IsSequence(p.path) /\ Len(p.path) \in Nat /\ p = [path |-> p.path, graph |-> p.graph]
           /\ IsSequence(p.graph.nodes) /\ IsSequence(p.graph.edges)
           /\ Len(p.graph.nodes) \in Nat /\ Len(p.graph.edges) \in Nat
           /\ \A i, j \in 1..Len(p.graph.nodes) : p.graph.nodes[i].id = p.graph.nodes[j].id => i = j
<1>1. Len(p.path) \in 0..MaxSubpatchDepth /\ p \in Promise!Nesting(request.document)[Len(p.path)] /\ GraphOk(p.graph)
  BY DEF OpenedInv
<1>2. IsSequence(p.path) /\ p = [path |-> p.path, graph |-> p.graph]
  BY <1>1, NestingPaths
<1>3. IsSequence(p.graph.nodes) /\ IsSequence(p.graph.edges)
  BY <1>1 DEF GraphOk, IsGraph
<1>4. Len(p.path) \in Nat /\ Len(p.graph.nodes) \in Nat /\ Len(p.graph.edges) \in Nat
  BY <1>2, <1>3, IsSeqFacts
<1>5. \A i, j \in 1..Len(p.graph.nodes) : p.graph.nodes[i].id = p.graph.nodes[j].id => i = j
  BY <1>1 DEF GraphOk, validate_graph_document
<1> QED BY <1>2, <1>3, <1>4, <1>5

\* The innermost call.
LEMMA CallFacts ==
    ASSUME FramesInv, OpenedInv, calls # <<>>
    PROVE  /\ Len(calls) \in Nat \ {0} /\ call = calls[Len(calls)]
           /\ call = [path |-> call.path, graph |-> call.graph, refs |-> call.refs, at |-> call.at]
           /\ PlaceOf(call) \in opened /\ PlaceOf(call).path = call.path /\ PlaceOf(call).graph = call.graph
           /\ IsSequence(call.path) /\ IsSequence(call.refs)
           /\ Len(call.refs) = Len(calls) - 1 /\ Len(call.path) = Len(calls) - 1
           /\ Len(call.graph.nodes) \in Nat /\ Len(call.graph.edges) \in Nat
           /\ call.at \in 1..(Turns(call.graph) + 1)
<1>1. Len(calls) \in Nat /\ Len(calls) # 0
  BY IsSeqFacts DEF FramesInv, IsSequence
<1>2. Len(calls) \in 1..Len(calls)
  BY <1>1
<1>3. PlaceOf(call).path = call.path /\ PlaceOf(call).graph = call.graph
  BY DEF PlaceOf
<1>4. /\ call = [path |-> call.path, graph |-> call.graph, refs |-> call.refs, at |-> call.at]
      /\ PlaceOf(call) \in opened
      /\ IsSequence(call.refs) /\ Len(call.refs) = Len(calls) - 1 /\ Len(call.path) = Len(calls) - 1
      /\ call.at \in 1..(Turns(call.graph) + 1)
  BY <1>2 DEF FramesInv, call
<1>5. /\ IsSequence(call.path)
      /\ Len(call.graph.nodes) \in Nat /\ Len(call.graph.edges) \in Nat
  BY <1>3, <1>4, OpenedFacts
<1> QED BY <1>1, <1>3, <1>4, <1>5 DEF call

\* The frame moves on to the next turn.
LEMMA AdvancedFacts ==
    ASSUME FramesInv, OpenedInv, calls # <<>>
    PROVE  /\ IsSequence(Advanced) /\ Len(Advanced) = Len(calls)
           /\ \A k \in 1..Len(calls) : k # Len(calls) => Advanced[k] = calls[k]
           /\ Advanced[Len(calls)] =
                [path |-> call.path, graph |-> call.graph, refs |-> call.refs, at |-> call.at + 1]
<1>1. /\ Len(calls) \in Nat \ {0} /\ DOMAIN calls = 1..Len(calls)
      /\ call = calls[Len(calls)] /\ Len(calls) \in 1..Len(calls)
  BY CallFacts, IsSeqFacts DEF FramesInv
<1>2. call = [path |-> call.path, graph |-> call.graph, refs |-> call.refs, at |-> call.at]
  BY CallFacts
<1> DEFINE moved == Advanced
<1>3. /\ moved = [k \in 1..Len(calls) |-> moved[k]]
      /\ \A k \in 1..Len(calls) : k # Len(calls) => moved[k] = calls[k]
      /\ moved[Len(calls)] = [call EXCEPT !.at = @ + 1]
  BY <1>1 DEF Advanced
<1>4. ASSUME NEW x, NEW p, NEW g, NEW r, NEW a, x = [path |-> p, graph |-> g, refs |-> r, at |-> a]
      PROVE  [x EXCEPT !.at = @ + 1] = [path |-> p, graph |-> g, refs |-> r, at |-> a + 1]
  BY <1>4
<1>5. [call EXCEPT !.at = @ + 1] = [path |-> call.path, graph |-> call.graph, refs |-> call.refs, at |-> call.at + 1]
  BY <1>2, <1>4
<1> HIDE DEF moved
<1>6. IsSequence(moved) /\ Len(moved) = Len(calls)
  BY <1>1, <1>3, FunctionIsSeq
<1> QED BY <1>3, <1>5, <1>6 DEF moved

\* The place of a path is one.
LEMMA CalledPlace ==
    ASSUME FramesInv, OpenedInv, NEW p \in opened, NEW k \in 1..Len(calls), calls[k].path = p.path
    PROVE  p = PlaceOf(calls[k])
<1>1. PlaceOf(calls[k]) \in opened /\ PlaceOf(calls[k]).path = calls[k].path
  BY DEF FramesInv, PlaceOf
<1> QED BY <1>1 DEF OpenedInv

\* Two calls that are under way are at different depths.
LEMMA CallsDiffer ==
    ASSUME FramesInv, NEW k \in 1..Len(calls), NEW l \in 1..Len(calls), calls[k].path = calls[l].path
    PROVE  k = l
<1>1. Len(calls[k].path) = k - 1 /\ Len(calls[l].path) = l - 1
  BY DEF FramesInv
<1> QED BY <1>1

CallInv == calls # <<>> /\ FramesInv /\ OpenedInv /\ ParentsInv /\ VisitedInv /\ ExpandedInv /\ PinsInv

\* The turns of a graph are those of its nodes, then those of its edges.
LEMMA TurnBounds ==
    ASSUME NEW graph, Len(graph.nodes) \in Nat, Len(graph.edges) \in Nat
    PROVE  /\ Turns(graph) \in Nat
           /\ \A i \in 1..Len(graph.nodes) : i \in Nat /\ i <= Turns(graph)
           /\ \A i \in 1..Len(graph.edges) : Len(graph.nodes) + i \in Nat /\ Len(graph.nodes) + i <= Turns(graph)
<1> DEFINE m == Len(graph.nodes)
           n == Len(graph.edges)
<1>1. m \in Nat /\ n \in Nat /\ Turns(graph) = m + n
  BY DEF Turns
<1> HIDE DEF m, n
<1>2. /\ Turns(graph) \in Nat /\ \A i \in 1..m : i \in Nat /\ i <= Turns(graph)
      /\ \A i \in 1..n : m + i \in Nat /\ m + i <= Turns(graph)
  BY <1>1
<1> QED BY <1>2 DEF m, n

\* What the innermost call visits in this turn.
LEMMA TurnFacts ==
    ASSUME CallInv
    PROVE  /\ call.at \in Nat /\ Turns(call.graph) \in Nat
           /\ call.at <= Turns(call.graph) => call.at + 1 \in 1..(Turns(call.graph) + 1)
           /\ VisitsNode => call.at \in 1..Len(call.graph.nodes) /\ call.at <= Turns(call.graph)
           /\ VisitsEdge => call.at - Len(call.graph.nodes) \in 1..Len(call.graph.edges) /\ call.at <= Turns(call.graph)
           /\ ~VisitsNode /\ ~VisitsEdge => call.at > Turns(call.graph)
<1> DEFINE at == call.at
           m == Len(call.graph.nodes)
           n == Len(call.graph.edges)
<1>1. /\ m \in Nat /\ n \in Nat /\ at \in 1..(m + n + 1) /\ Turns(call.graph) = m + n
      /\ VisitsNode <=> at <= m
      /\ VisitsEdge <=> ~(at <= m) /\ at <= m + n
  BY CallFacts DEF CallInv, Turns, VisitsNode, VisitsEdge
<1> HIDE DEF at, m, n
<1>2. /\ at \in Nat /\ Turns(call.graph) \in Nat
      /\ at <= Turns(call.graph) => at + 1 \in 1..(Turns(call.graph) + 1)
      /\ VisitsNode => at \in 1..m /\ at <= Turns(call.graph)
      /\ VisitsEdge => at - m \in 1..n /\ at <= Turns(call.graph)
      /\ ~VisitsNode /\ ~VisitsEdge => at > Turns(call.graph)
  BY <1>1
<1> QED BY <1>2 DEF at, m, n

\* Advancing the innermost call is what ends its turn, and no other turn.
LEMMA AdvanceReaches ==
    ASSUME FramesInv, OpenedInv, calls # <<>>, calls' = Advanced
    PROVE  \A p \in opened : \A i \in Nat :
             /\ Reached(p, i) => Reached(p, i)'
             /\ Reached(p, i)' => Reached(p, i) \/ (p = PlaceOf(call) /\ i = call.at)
<1> SUFFICES ASSUME NEW p \in opened, NEW i \in Nat
             PROVE  /\ Reached(p, i) => Reached(p, i)'
                    /\ Reached(p, i)' => Reached(p, i) \/ (p = PlaceOf(call) /\ i = call.at)
  OBVIOUS
<1>1. /\ Len(calls') = Len(calls) /\ Len(calls) \in 1..Len(calls)
      /\ \A k \in 1..Len(calls) : k # Len(calls) => calls'[k] = calls[k]
      /\ calls'[Len(calls)].path = call.path /\ calls'[Len(calls)].at = call.at + 1
      /\ call = calls[Len(calls)] /\ call.at \in Nat
  BY AdvancedFacts, CallFacts DEF Turns
<1>2. ASSUME Reached(p, i), NEW k \in 1..Len(calls'), calls'[k].path = p.path PROVE i < calls'[k].at
  <2>1. CASE k # Len(calls)
    BY <1>1, <1>2, <2>1 DEF Reached
  <2>2. CASE k = Len(calls)
    <3>1. i < call.at
      BY <1>1, <1>2, <2>2 DEF Reached
    <3> QED BY <1>1, <2>2, <3>1
  <2> QED BY <2>1, <2>2
<1>3. ASSUME Reached(p, i)', ~Reached(p, i) PROVE p = PlaceOf(call) /\ i = call.at
  <2>1. PICK k \in 1..Len(calls) : calls[k].path = p.path /\ ~(i < calls[k].at)
    BY <1>3 DEF Reached
  <2>2. k = Len(calls)
    <3> SUFFICES ASSUME k # Len(calls) PROVE FALSE
      OBVIOUS
    <3>1. calls'[k] = calls[k] /\ k \in 1..Len(calls')
      BY <1>1
    <3> QED BY <1>3, <2>1, <3>1 DEF Reached
  <2>3. p = PlaceOf(call)
    BY <1>1, <2>1, <2>2, CalledPlace
  <2>4. calls'[Len(calls)].path = p.path /\ Len(calls) \in 1..Len(calls')
    BY <1>1, <2>1, <2>2
  <2>5. i < call.at + 1 /\ ~(i < call.at)
    BY <1>1, <1>3, <2>1, <2>2, <2>4 DEF Reached
  <2> QED BY <1>1, <2>3, <2>5
<1> QED BY <1>2, <1>3 DEF Reached

\* A place stays opened by its parent's turn.
LEMMA ParentsKeep ==
    ASSUME ParentsInv, OpenedInv, request' = request, NEW p \in opened,
           \A q \in opened : \A i \in Nat : Reached(q, i) => Reached(q, i)', opened \subseteq opened'
    PROVE  \/ p = RootPlace(request.document)'
           \/ \E q \in opened' : \E j \in 1..Len(q.graph.nodes) :
                /\ Promise!IsInstance(request.document, q.graph.nodes[j])'
                /\ p = Promise!Inside(request.document, q, q.graph.nodes[j])'
                /\ Reached(q, j)'
<1>1. CASE p = RootPlace(request.document)
  BY <1>1
<1>2. ASSUME NEW q \in opened, NEW j \in 1..Len(q.graph.nodes),
             Promise!IsInstance(request.document, q.graph.nodes[j]),
             p = Promise!Inside(request.document, q, q.graph.nodes[j]), Reached(q, j)
      PROVE  \E r \in opened' : \E k \in 1..Len(r.graph.nodes) :
                /\ Promise!IsInstance(request.document, r.graph.nodes[k])'
                /\ p = Promise!Inside(request.document, r, r.graph.nodes[k])'
                /\ Reached(r, k)'
  <2>1. j \in Nat /\ q \in opened'
    BY OpenedFacts
  <2>2. Reached(q, j)'
    BY <1>2, <2>1
  <2>3. Promise!IsInstance(request.document, q.graph.nodes[j])'
    BY <1>2
  <2>4. p = Promise!Inside(request.document, q, q.graph.nodes[j])'
    BY <1>2
  <2> QED BY <2>1, <2>2, <2>3, <2>4
<1> QED BY <1>1, <1>2 DEF ParentsInv

\* What is done stays done.
LEMMA DoneKeeps ==
    ASSUME request' = request, opened \subseteq opened', pins \subseteq pins',
           Range(IdsOf(expanded)) \subseteq Range(IdsOf(expanded))', Range(edges) \subseteq Range(edges)'
    PROVE  \A p, n : (NodeDone(p, n) => NodeDone(p, n)') /\ (EdgeDone(p, n) => EdgeDone(p, n)')
<1> SUFFICES ASSUME NEW p, NEW n
             PROVE  (NodeDone(p, n) => NodeDone(p, n)') /\ (EdgeDone(p, n) => EdgeDone(p, n)')
  OBVIOUS
<1>1. Library' = Library
  BY DEF Library
<1>2. NodeDone(p, n) => NodeDone(p, n)'
  BY <1>1 DEF NodeDone
<1>3. EdgeDone(p, n) => EdgeDone(p, n)'
  BY DEF EdgeDone
<1> QED BY <1>2, <1>3

\* A turn that opens nothing keeps frames, places and parents.
LEMMA AdvancingKeeps ==
    ASSUME CallInv, calls' = Advanced, call.at <= Turns(call.graph), UNCHANGED <<request, opened>>
    PROVE  calls' # <<>> /\ FramesInv' /\ OpenedInv' /\ ParentsInv'
<1> USE DEF CallInv
<1>1. /\ Len(calls') = Len(calls) /\ Len(calls) \in 1..Len(calls) /\ IsSequence(calls')
      /\ \A k \in 1..Len(calls) : k # Len(calls) => calls'[k] = calls[k]
      /\ calls'[Len(calls)] = [path |-> call.path, graph |-> call.graph, refs |-> call.refs, at |-> call.at + 1]
  BY AdvancedFacts, CallFacts
<1>2. calls' # <<>>
  <2>1. Len(calls') # 0
    BY <1>1, CallFacts
  <2> QED BY <2>1
<1>3. FramesInv'
  <2> SUFFICES ASSUME NEW k \in 1..Len(calls)
               PROVE  LET frame == calls'[k] IN
                      /\ frame = [path |-> frame.path, graph |-> frame.graph, refs |-> frame.refs, at |-> frame.at]
                      /\ PlaceOf(frame) \in opened
                      /\ IsSequence(frame.refs) /\ Len(frame.refs) = k - 1 /\ Len(frame.path) = k - 1
                      /\ frame.at \in 1..(Turns(frame.graph) + 1)
    BY <1>1 DEF FramesInv
  <2>1. CASE k # Len(calls)
    BY <1>1, <2>1 DEF FramesInv
  <2>2. CASE k = Len(calls)
    <3> DEFINE frame == calls'[k]
    <3>1. /\ frame.path = call.path /\ frame.graph = call.graph /\ frame.refs = call.refs /\ frame.at = call.at + 1
          /\ frame = [path |-> frame.path, graph |-> frame.graph, refs |-> frame.refs, at |-> frame.at]
      BY <1>1, <2>2
    <3>2. PlaceOf(frame) = PlaceOf(call)
      BY <3>1 DEF PlaceOf
    <3>3. call.at + 1 \in 1..(Turns(call.graph) + 1)
      BY TurnFacts
    <3> HIDE DEF frame
    <3>4. /\ frame = [path |-> frame.path, graph |-> frame.graph, refs |-> frame.refs, at |-> frame.at]
          /\ PlaceOf(frame) \in opened
          /\ IsSequence(frame.refs) /\ Len(frame.refs) = k - 1 /\ Len(frame.path) = k - 1
          /\ frame.at \in 1..(Turns(frame.graph) + 1)
      BY <2>2, <3>1, <3>2, <3>3, CallFacts
    <3> QED BY <3>4 DEF frame
  <2> QED BY <2>1, <2>2
<1>4. OpenedInv'
  BY DEF OpenedInv
<1>5. ParentsInv'
  <2>1. ASSUME NEW p \in opened'
        PROVE  \/ p = RootPlace(request.document)'
               \/ \E q \in opened' : \E j \in 1..Len(q.graph.nodes) :
                    /\ Promise!IsInstance(request.document, q.graph.nodes[j])'
                    /\ p = Promise!Inside(request.document, q, q.graph.nodes[j])'
                    /\ Reached(q, j)'
    BY ParentsKeep, AdvanceReaches
  <2> QED BY <2>1 DEF ParentsInv
<1> QED BY <1>2, <1>3, <1>4, <1>5

\* The step is turn at of a place, and does what is to be done.
TurnOf(place, at) ==
  /\ \A p \in opened : \A i \in Nat : i <= Turns(p.graph) /\ Reached(p, i)' => Reached(p, i) \/ (p = place /\ i = at)
  /\ \A i \in 1..Len(place.graph.nodes) : i = at => NodeDone(place, place.graph.nodes[i])'
  /\ \A i \in 1..Len(place.graph.edges) : Len(place.graph.nodes) + i = at => EdgeDone(place, place.graph.edges[i])'

\* When one turn ends and leaves what it has to, all that ended have.
LEMMA VisitingKeeps ==
    ASSUME OpenedInv, VisitedInv, request' = request, opened \subseteq opened', pins \subseteq pins',
           Range(IdsOf(expanded)) \subseteq Range(IdsOf(expanded))', Range(edges) \subseteq Range(edges)',
           NEW place, NEW at,
           TurnOf(place, at)
    PROVE  \A p \in opened :
             /\ \A i \in 1..Len(p.graph.nodes) : Reached(p, i)' => NodeDone(p, p.graph.nodes[i])'
             /\ \A i \in 1..Len(p.graph.edges) :
                  Reached(p, Len(p.graph.nodes) + i)' => EdgeDone(p, p.graph.edges[i])'
<1> SUFFICES ASSUME NEW p \in opened
             PROVE  /\ \A i \in 1..Len(p.graph.nodes) : Reached(p, i)' => NodeDone(p, p.graph.nodes[i])'
                    /\ \A i \in 1..Len(p.graph.edges) :
                         Reached(p, Len(p.graph.nodes) + i)' => EdgeDone(p, p.graph.edges[i])'
  OBVIOUS
<1> USE DEF TurnOf
<1>0. Len(p.graph.nodes) \in Nat /\ Len(p.graph.edges) \in Nat
  BY OpenedFacts
<1>1. ASSUME NEW i \in 1..Len(p.graph.nodes), Reached(p, i)' PROVE NodeDone(p, p.graph.nodes[i])'
  <2>0. i \in Nat /\ i <= Turns(p.graph)
    BY <1>0, TurnBounds
  <2>1. CASE Reached(p, i)
    <3>1. NodeDone(p, p.graph.nodes[i])
      BY <2>1 DEF VisitedInv
    <3> QED BY <3>1, DoneKeeps
  <2>2. CASE ~Reached(p, i)
    <3>1. p = place /\ i = at
      BY <1>1, <2>0, <2>2
    <3> QED BY <3>1
  <2> QED BY <2>1, <2>2
<1>2. ASSUME NEW i \in 1..Len(p.graph.edges), Reached(p, Len(p.graph.nodes) + i)'
      PROVE  EdgeDone(p, p.graph.edges[i])'
  <2>0. Len(p.graph.nodes) + i \in Nat /\ Len(p.graph.nodes) + i <= Turns(p.graph)
    BY <1>0, TurnBounds
  <2>1. CASE Reached(p, Len(p.graph.nodes) + i)
    <3>1. EdgeDone(p, p.graph.edges[i])
      BY <2>1 DEF VisitedInv
    <3> QED BY <3>1, DoneKeeps
  <2>2. CASE ~Reached(p, Len(p.graph.nodes) + i)
    <3>1. p = place /\ Len(p.graph.nodes) + i = at
      BY <1>2, <2>0, <2>2
    <3> QED BY <3>1
  <2> QED BY <2>1, <2>2
<1> QED BY <1>1, <1>2

\* The turn of a node, or of an edge, of the innermost call.
LEMMA TurnKeeps ==
    ASSUME CallInv, calls' = Advanced, UNCHANGED <<request, opened>>, pins \subseteq pins',
           Range(IdsOf(expanded)) \subseteq Range(IdsOf(expanded))', Range(edges) \subseteq Range(edges)',
           NEW place, place = PlaceOf(call),
           NEW node, VisitsNode => node = visited /\ NodeDone(place, node)',
           NEW edge, ~VisitsNode => edge = call.graph.edges[call.at - Len(call.graph.nodes)] /\ EdgeDone(place, edge)'
    PROVE  VisitedInv'
<1> USE DEF CallInv
<1>1. PICK at : at = call.at
  OBVIOUS
<1>2. place.graph = call.graph /\ Len(call.graph.nodes) \in Nat
  BY CallFacts
<1>3. \A p \in opened : \A i \in Nat : i <= Turns(p.graph) /\ Reached(p, i)' => Reached(p, i) \/ (p = place /\ i = at)
  BY <1>1, AdvanceReaches
<1>4. ASSUME NEW i \in 1..Len(place.graph.nodes), i = at PROVE NodeDone(place, place.graph.nodes[i])'
  <2>1. VisitsNode /\ node = place.graph.nodes[i]
    BY <1>1, <1>2, <1>4 DEF VisitsNode, visited
  <2> QED BY <2>1
<1>5. ASSUME NEW i \in 1..Len(place.graph.edges), Len(place.graph.nodes) + i = at
      PROVE  EdgeDone(place, place.graph.edges[i])'
  <2>1. ~VisitsNode /\ call.at - Len(call.graph.nodes) = i
    BY <1>1, <1>2, <1>5, TurnFacts DEF VisitsNode
  <2>2. edge = place.graph.edges[i] /\ EdgeDone(place, edge)'
    BY <1>2, <2>1
  <2> QED BY <2>2
<1>6. \A p \in opened :
        /\ \A i \in 1..Len(p.graph.nodes) : Reached(p, i)' => NodeDone(p, p.graph.nodes[i])'
        /\ \A i \in 1..Len(p.graph.edges) : Reached(p, Len(p.graph.nodes) + i)' => EdgeDone(p, p.graph.edges[i])'
  <2>1. OpenedInv /\ VisitedInv /\ request' = request /\ opened \subseteq opened'
    OBVIOUS
  <2>2. TurnOf(place, at)
    BY <1>3, <1>4, <1>5 DEF TurnOf
  <2> QED BY <2>1, <2>2, VisitingKeeps
<1> QED BY <1>6 DEF VisitedInv

----------------------------------------------------------------------------
(* The turns.                                                              *)
LEMMA ExpandedStays ==
    ASSUME OpenedInv, ExpandedInv, opened \subseteq opened', expanded' = expanded,
           \A q \in opened : \A i \in Nat : i <= Turns(q.graph) /\ Reached(q, i) => Reached(q, i)'
    PROVE  ExpandedInv'
<1>1. ASSUME NEW k \in 1..Len(expanded)
      PROVE  \E q \in opened' : \E j \in 1..Len(q.graph.nodes) :
               /\ ~is_boundary_node(q.graph.nodes[j]) /\ ~is_subpatch_node(q.graph.nodes[j])
               /\ expanded[k].id = Append(q.path, q.graph.nodes[j].id)
               /\ Reached(q, j)'
  <2>1. PICK q \in opened : \E j \in 1..Len(q.graph.nodes) :
               /\ ~is_boundary_node(q.graph.nodes[j]) /\ ~is_subpatch_node(q.graph.nodes[j])
               /\ expanded[k].id = Append(q.path, q.graph.nodes[j].id)
               /\ Reached(q, j)
    BY DEF ExpandedInv
  <2>2. \A j \in 1..Len(q.graph.nodes) : j \in Nat /\ j <= Turns(q.graph)
    BY OpenedFacts, TurnBounds
  <2>3. q \in opened' /\ \A j \in 1..Len(q.graph.nodes) : Reached(q, j) => Reached(q, j)'
    BY <2>2
  <2> QED BY <2>1, <2>3
<1> QED BY <1>1 DEF ExpandedInv

\* The turn of an inlet or an outlet keeps the invariant.
LEMMA BoundaryKeeps == ASSUME CallInv, expand_boundary PROVE CallInv'
<1>0. /\ VisitsNode /\ is_boundary_node(visited) /\ calls' = Advanced /\ pins' = pins \cup {Pin(call.path, visited)}
      /\ UNCHANGED <<request, opened, expanded, edges>>
  BY DEF expand_boundary
<1>1. call.at <= Turns(call.graph)
  BY <1>0, TurnFacts
<1>2. calls' # <<>> /\ FramesInv' /\ OpenedInv' /\ ParentsInv'
  BY <1>0, <1>1, AdvancingKeeps
<1>3. PICK place, node : place = PlaceOf(call) /\ node = visited
  OBVIOUS
<1>4. NodeDone(place, node)'
  <2>1. Pin(place.path, node) \in pins'
    BY <1>0, <1>3, CallFacts DEF CallInv
  <2>2. is_boundary_node(node) /\ ~Promise!IsInstance(request'.document, node)
    BY <1>0, <1>3, SameNodes
  <2> QED BY <2>1, <2>2 DEF NodeDone
<1>5. VisitedInv'
  BY <1>0, <1>3, <1>4, TurnKeeps
<1>6. ExpandedInv'
  BY <1>0, ExpandedStays, AdvanceReaches DEF CallInv
<1>7. PinsInv'
  BY <1>0 DEF PinsInv, CallInv, Pin
<1> QED BY <1>2, <1>5, <1>6, <1>7 DEF CallInv

\* The turn of the innermost call is not over.
LEMMA NotYetReached == ASSUME CallInv PROVE ~Reached(PlaceOf(call), call.at)
<1>1. Len(calls) \in 1..Len(calls) /\ calls[Len(calls)] = call /\ PlaceOf(call).path = call.path /\ call.at \in Nat
  BY CallFacts, TurnFacts DEF CallInv
<1> QED BY <1>1 DEF Reached

\* The turn of an object keeps the invariant: no object is expanded twice.
LEMMA ObjectKeeps == ASSUME CallInv, expand_object PROVE CallInv'
<1> DEFINE object == [visited EXCEPT !.id = Append(call.path, visited.id)]
<1>0. /\ VisitsNode /\ ~is_boundary_node(visited) /\ ~is_subpatch_node(visited) /\ calls' = Advanced
      /\ expanded' = Append(expanded, object)
      /\ UNCHANGED <<request, opened, pins, edges>>
  BY DEF expand_object
<1>1. call.at <= Turns(call.graph) /\ call.at \in 1..Len(call.graph.nodes)
  BY <1>0, TurnFacts
<1>2. calls' # <<>> /\ FramesInv' /\ OpenedInv' /\ ParentsInv'
  BY <1>0, <1>1, AdvancingKeeps
<1>3. PICK place, node, at : place = PlaceOf(call) /\ node = visited /\ at = call.at
  OBVIOUS
<1>4. /\ place \in opened /\ place.path = call.path /\ place.graph = call.graph /\ IsSequence(place.path)
      /\ at \in 1..Len(place.graph.nodes) /\ node = place.graph.nodes[at]
  BY <1>1, <1>3, CallFacts DEF CallInv, visited
<1>5. object.id = Append(place.path, node.id)
  <2>1. "id" \in DOMAIN visited
    BY <1>3, <1>4 DEF CallInv, OpenedInv, GraphOk, IsGraph
  <2> QED BY <1>3, <1>4, <2>1
<1> HIDE DEF object
<1>6. /\ IsSequence(expanded) /\ Len(expanded) \in Nat
      /\ IsSequence(expanded') /\ Len(expanded') = Len(expanded) + 1
      /\ \A k \in 1..Len(expanded) : expanded'[k] = expanded[k]
      /\ expanded'[Len(expanded) + 1] = object
  BY <1>0, AppendFacts, IsSeqFacts DEF CallInv, ExpandedInv
<1>7. \A k \in 1..Len(expanded') : k \in 1..Len(expanded) \/ k = Len(expanded) + 1
  BY <1>6
<1>8. Range(IdsOf(expanded)) \subseteq Range(IdsOf(expanded'))
  <2>1. /\ Range(IdsOf(expanded)) = {expanded[k].id : k \in 1..Len(expanded)}
        /\ Range(IdsOf(expanded')) = {expanded'[k].id : k \in 1..Len(expanded')}
    BY <1>6, IdsFacts
  <2>2. \A k \in 1..Len(expanded) : k \in 1..Len(expanded')
    BY <1>6
  <2> QED BY <1>6, <2>1, <2>2
<1>9. NodeDone(place, node)'
  <2>1. Append(place.path, node.id) \in Range(IdsOf(expanded'))
    <3>1. Range(IdsOf(expanded')) = {expanded'[k].id : k \in 1..Len(expanded')}
      BY <1>6, IdsFacts
    <3>2. Len(expanded) + 1 \in 1..Len(expanded')
      BY <1>6
    <3> QED BY <1>5, <1>6, <3>1, <3>2
  <2>2. ~is_boundary_node(node) /\ ~Promise!IsInstance(request'.document, node)
    BY <1>0, <1>3, SameNodes
  <2> QED BY <2>1, <2>2 DEF NodeDone
<1>10. VisitedInv'
  BY <1>0, <1>3, <1>8, <1>9, TurnKeeps
<1>11. Reached(place, at)' /\ ~Reached(place, at)
  <2>1. ~Reached(place, at)
    BY <1>3, NotYetReached
  <2>2. /\ Len(calls') = Len(calls) /\ Len(calls) \in 1..Len(calls)
        /\ \A k \in 1..Len(calls) : k # Len(calls) => calls'[k] = calls[k]
        /\ calls'[Len(calls)].path = call.path /\ calls'[Len(calls)].at = at + 1 /\ at \in Nat
        /\ calls[Len(calls)] = call
    BY <1>0, <1>3, AdvancedFacts, CallFacts, TurnFacts DEF CallInv
  <2>3. ASSUME NEW k \in 1..Len(calls'), calls'[k].path = place.path PROVE at < calls'[k].at
    <3>1. k = Len(calls)
      <4> SUFFICES ASSUME k # Len(calls) PROVE FALSE
        OBVIOUS
      <4>1. k \in 1..Len(calls) /\ calls[k].path = calls[Len(calls)].path
        BY <1>4, <2>2, <2>3
      <4> QED BY <2>2, <4>1, CallsDiffer DEF CallInv
    <3> QED BY <2>2, <3>1
  <2> QED BY <2>1, <2>3 DEF Reached
<1>12. ASSUME NEW k \in 1..Len(expanded) PROVE expanded[k].id # object.id
  <2>1. PICK q \in opened : \E j \in 1..Len(q.graph.nodes) :
          expanded[k].id = Append(q.path, q.graph.nodes[j].id) /\ Reached(q, j)
    BY DEF CallInv, ExpandedInv
  <2>2. PICK j \in 1..Len(q.graph.nodes) : expanded[k].id = Append(q.path, q.graph.nodes[j].id) /\ Reached(q, j)
    BY <2>1
  <2> SUFFICES ASSUME expanded[k].id = object.id PROVE FALSE
    OBVIOUS
  <2>3. IsSequence(q.path)
    BY OpenedFacts DEF CallInv
  <2>4. q.path = place.path /\ q.graph.nodes[j].id = node.id
    <3>1. Append(q.path, q.graph.nodes[j].id) = Append(place.path, node.id)
      BY <1>5, <2>2
    <3>2. IsSequence(place.path)
      BY <1>4
    <3>3. q.path = place.path
      BY <2>3, <3>1, <3>2, PathsAgree
    <3>4. q.graph.nodes[j].id = node.id
      BY <2>3, <3>1, <3>2, AppendOneToOne
    <3> QED BY <3>3, <3>4
  <2>5. q = place
    BY <1>4, <2>4 DEF CallInv, OpenedInv
  <2>6. j = at
    BY <1>4, <2>4, <2>5, OpenedFacts DEF CallInv
  <2> QED BY <1>11, <2>2, <2>5, <2>6
<1>13. ExpandedInv'
  <2>1. ASSUME NEW k \in 1..Len(expanded')
        PROVE  \E q \in opened : \E j \in 1..Len(q.graph.nodes) :
                 /\ ~is_boundary_node(q.graph.nodes[j]) /\ ~is_subpatch_node(q.graph.nodes[j])
                 /\ expanded'[k].id = Append(q.path, q.graph.nodes[j].id)
                 /\ Reached(q, j)'
    <3>1. CASE k \in 1..Len(expanded)
      <4>1. PICK q \in opened : \E j \in 1..Len(q.graph.nodes) :
               /\ ~is_boundary_node(q.graph.nodes[j]) /\ ~is_subpatch_node(q.graph.nodes[j])
               /\ expanded[k].id = Append(q.path, q.graph.nodes[j].id)
               /\ Reached(q, j)
        BY <3>1 DEF CallInv, ExpandedInv
      <4>2. \A j \in 1..Len(q.graph.nodes) : Reached(q, j) => Reached(q, j)'
        BY <1>0, AdvanceReaches DEF CallInv
      <4> QED BY <1>6, <3>1, <4>1, <4>2
    <3>2. CASE k = Len(expanded) + 1
      BY <1>0, <1>3, <1>4, <1>5, <1>6, <1>11, <3>2
    <3> QED BY <1>7, <3>1, <3>2
  <2>2. ASSUME NEW k \in 1..Len(expanded'), NEW l \in 1..Len(expanded'), expanded'[k].id = expanded'[l].id
        PROVE  k = l
    <3>1. CASE k \in 1..Len(expanded) /\ l \in 1..Len(expanded)
      BY <1>6, <2>2, <3>1 DEF CallInv, ExpandedInv
    <3> QED BY <1>6, <1>7, <1>12, <2>2, <3>1
  <2> QED BY <1>0, <1>6, <2>1, <2>2 DEF ExpandedInv
<1>14. PinsInv'
  BY <1>0 DEF PinsInv, CallInv
<1> QED BY <1>2, <1>10, <1>13, <1>14 DEF CallInv

----------------------------------------------------------------------------
(* The ends of an edge.                                                    *)

\* When the turns of the nodes are over, the code finds an end where the
\* promise says it is.
LEMMA EndsAreFound ==
    ASSUME OpenedInv, NEW p \in opened, \A i \in 1..Len(p.graph.nodes) : NodeDone(p, p.graph.nodes[i]),
           NEW end, NEW kind, NEW x \in Promise!Ends(request.document, p, end, kind)
    PROVE  resolve_endpoint(Library, p.graph, p.path, end, kind) = <<x>>
<1> DEFINE doc == request.document
           at == {i \in 1..Len(p.graph.nodes) : p.graph.nodes[i].id = end[1]}
<1>0. IsSequence(p.graph.nodes)
  BY OpenedFacts
<1>1. PICK i \in 1..Len(p.graph.nodes) :
        /\ p.graph.nodes[i].id = end[1]
        /\ x \in Promise!EndOf(doc, p, p.graph.nodes[i], end, kind)
  BY <1>0, NodesFacts DEF Promise!Ends
<1>2. at = {i}
  BY <1>1, OpenedFacts
<1> DEFINE node == p.graph.nodes[i]
           ref == subpatch_ref(Library, node)
<1>3. resolve_endpoint(Library, p.graph, p.path, end, kind) = EndAt(Library, p.path, node, ref, end, kind)
  <2>1. (CHOOSE j \in at : TRUE) = i /\ at # {}
    BY <1>2
  <2> HIDE DEF at
  <2> QED BY <2>1 DEF resolve_endpoint, at
<1>4. node.id = end[1] /\ x \in Promise!EndOf(doc, p, node, end, kind) /\ NodeDone(p, node)
  BY <1>1
<1>5. node \in Promise!Nodes(p.graph)
  BY <1>0, NodesFacts
<1> HIDE DEF node, at
<1>6. CASE is_boundary_node(node)
  <2>1. Promise!IsBoundary(node)
    BY <1>6, SameNodes
  <2>2. x = Promise!Boundary(p.path, node)
    BY <1>4, <2>1 DEF Promise!EndOf, Promise!IsInstance, Promise!Objects
  <2>3. x = Pin(p.path, node)
    BY <2>2 DEF Promise!Boundary, Pin
  <2> QED BY <1>3, <1>6, <2>3 DEF EndAt
<1>7. CASE ~is_boundary_node(node) /\ is_subpatch_node(node)
  <2>1. ~Promise!IsBoundary(node) /\ Promise!IsInstance(doc, node)
    BY <1>7, SameNodes
  <2> DEFINE inside == Promise!Inside(doc, p, node)
  <2>2. x \in Promise!Named(inside, kind, end[2])
    BY <1>4, <2>1 DEF Promise!EndOf, Promise!Objects
  <2>3. inside.path = Append(p.path, node.id) /\ inside.graph = PatchNamed(Library, ref[1]).graph
    BY <1>7, InsideFacts DEF Library
  <2>4. inside \in opened /\ ref # <<>> /\ ref[1] \in PatchIds(Library)
    BY <1>4, <2>1 DEF NodeDone
  <2>5. IsSequence(inside.graph.nodes)
    BY <2>4, OpenedFacts
  <2> HIDE DEF inside, ref
  <2>6. AliasTable(inside.graph, inside.path, kind, end[2]) = <<x>>
    BY <2>2, <2>5, NamedIsFound
  <2> QED BY <1>3, <1>7, <2>3, <2>4, <2>6 DEF EndAt
<1>8. CASE ~is_boundary_node(node) /\ ~is_subpatch_node(node)
  <2>1. ~Promise!IsBoundary(node) /\ ~Promise!IsInstance(doc, node)
    BY <1>8, SameNodes
  <2>2. node \in Promise!Objects(doc, p)
    BY <1>5, <2>1 DEF Promise!Objects
  <2>3. x = <<"node", Append(p.path, node.id), end[2]>>
    BY <1>4, <2>1, <2>2 DEF Promise!EndOf
  <2> QED BY <1>3, <1>4, <1>8, <2>3 DEF EndAt
<1> QED BY <1>6, <1>7, <1>8

\* The turn of an edge keeps the invariant: it leaves the arcs of the edge.
LEMMA EdgeKeeps == ASSUME CallInv, expand_edge, ~Refuse PROVE CallInv'
<1>1. PICK edge : edge = call.graph.edges[call.at - Len(call.graph.nodes)]
  OBVIOUS
<1> DEFINE source == resolve_endpoint(Library, call.graph, call.path, edge.from, "outlet")
           target == resolve_endpoint(Library, call.graph, call.path, edge.to, "inlet")
           arc == [from |-> source[1], to |-> target[1], feedback |-> edge.feedback]
<1>2. /\ VisitsEdge /\ calls' = Advanced /\ edges' = Append(edges, arc)
      /\ UNCHANGED <<request, opened, expanded, pins>>
  BY <1>1 DEF expand_edge
<1>3. call.at <= Turns(call.graph) /\ ~VisitsNode
  BY <1>2, TurnFacts DEF VisitsEdge
<1>4. calls' # <<>> /\ FramesInv' /\ OpenedInv' /\ ParentsInv'
  BY <1>2, <1>3, AdvancingKeeps
<1>5. PICK place : place = PlaceOf(call)
  OBVIOUS
<1>6. place \in opened /\ place.path = call.path /\ place.graph = call.graph
  BY <1>5, CallFacts DEF CallInv
<1>7. \A i \in 1..Len(place.graph.nodes) : NodeDone(place, place.graph.nodes[i])
  <2> SUFFICES ASSUME NEW i \in 1..Len(place.graph.nodes) PROVE NodeDone(place, place.graph.nodes[i])
    OBVIOUS
  <2>1. Reached(place, i)
    <3> SUFFICES ASSUME NEW k \in 1..Len(calls), calls[k].path = place.path PROVE i < calls[k].at
      BY DEF Reached
    <3>1. k = Len(calls) /\ calls[k] = call
      <4>1. calls[Len(calls)] = call /\ Len(calls) \in 1..Len(calls)
        BY CallFacts DEF CallInv
      <4> QED BY <1>6, <4>1, CallsDiffer DEF CallInv
    <3>2. Len(call.graph.nodes) \in Nat /\ call.at \in Nat
      BY CallFacts, TurnFacts DEF CallInv
    <3> QED BY <1>3, <1>6, <3>1, <3>2 DEF VisitsNode
  <2> QED BY <1>6, <2>1 DEF CallInv, VisitedInv
<1>8. EdgeDone(place, edge)'
  <2> SUFFICES ASSUME NEW a \in Promise!ArcsOf(request.document, place, edge) PROVE a \in Range(edges')
    BY <1>2 DEF EdgeDone
  <2>1. PICK from \in Promise!Ends(request.document, place, edge.from, "outlet"),
             to \in Promise!Ends(request.document, place, edge.to, "inlet") :
          a = [from |-> from, to |-> to, feedback |-> edge.feedback]
    BY DEF Promise!ArcsOf
  <2>2. source = <<from>> /\ target = <<to>>
    BY <1>6, <1>7, EndsAreFound DEF CallInv
  <2>3. a = arc
    BY <2>1, <2>2
  <2> HIDE DEF arc
  <2> QED BY <1>2, <2>3, AppendFacts DEF CallInv, PinsInv
<1> HIDE DEF arc
<1>9. IsSequence(edges') /\ Range(edges) \subseteq Range(edges')
  BY <1>2, AppendFacts DEF CallInv, PinsInv
<1>10. VisitedInv'
  <2> USE <1>2
  <2>1. UNCHANGED <<request, opened>> /\ pins \subseteq pins' /\ Range(IdsOf(expanded)) \subseteq Range(IdsOf(expanded))'
    OBVIOUS
  <2> QED BY <1>1, <1>3, <1>5, <1>8, <1>9, <2>1, TurnKeeps
<1>11. ExpandedInv'
  BY <1>2, ExpandedStays, AdvanceReaches DEF CallInv
<1>12. PinsInv'
  BY <1>2, <1>9 DEF PinsInv, CallInv
<1> QED BY <1>4, <1>10, <1>11, <1>12 DEF CallInv

\* When a patch is to be expanded it is there, and not too deep.
LEMMA VerdictFacts ==
    ASSUME NEW library, NEW ref, NEW stack, SubpatchVerdict(library, ref, stack) = "ok", Len(stack) \in Nat
    PROVE  ref # <<>> /\ ref[1] \in PatchIds(library) /\ Len(stack) + 1 <= MaxSubpatchDepth
<1>1. MaxSubpatchDepth \in Nat
  BY PlanningAssumption
<1>2. ref # <<>>
  BY DEF SubpatchVerdict
<1>3. ref[1] \notin Range(stack)
  BY <1>2 DEF SubpatchVerdict
<1>4. ~(Len(stack) + 1 > MaxSubpatchDepth)
  BY <1>2, <1>3 DEF SubpatchVerdict
<1>5. Len(stack) + 1 <= MaxSubpatchDepth
  BY <1>1, <1>4
<1>6. ref[1] \in PatchIds(library)
  BY <1>2, <1>3, <1>4, <1>5 DEF SubpatchVerdict
<1> QED BY <1>2, <1>5, <1>6

\* The turn of an instance keeps the invariant: it opens the place inside it, which no other turn opens.
LEMMA SubpatchKeeps ==
    ASSUME CallInv, DocumentOk(request.document), expand_subpatch, ~Refuse
    PROVE  CallInv'
<1>1. PICK doc, place, node, at, ref, path, graph :
        /\ doc = request.document /\ place = PlaceOf(call) /\ node = visited /\ at = call.at
        /\ ref = subpatch_ref(Library, visited) /\ path = Append(call.path, visited.id)
        /\ graph = PatchNamed(Library, ref[1]).graph
  OBVIOUS
<1> DEFINE inside == [path |-> path, graph |-> graph]
           frame == Call(path, graph, Append(call.refs, ref[1]))
<1>2. /\ VisitsNode /\ ~is_boundary_node(node) /\ is_subpatch_node(node)
      /\ SubpatchVerdict(Library, ref, call.refs) = "ok"
      /\ calls' = Append(Advanced, frame) /\ opened' = opened \cup {inside}
      /\ UNCHANGED <<request, expanded, pins, edges>>
  BY <1>1 DEF expand_subpatch
<1>3. /\ place \in opened /\ place.path = call.path /\ place.graph = call.graph /\ IsSequence(place.path)
      /\ at \in 1..Len(place.graph.nodes) /\ node = place.graph.nodes[at] /\ at <= Turns(call.graph)
      /\ at \in Nat
      /\ Len(calls) \in Nat \ {0} /\ Len(call.path) = Len(calls) - 1
      /\ IsSequence(call.refs) /\ Len(call.refs) = Len(calls) - 1
  BY <1>1, <1>2, CallFacts, TurnFacts DEF CallInv, visited
<1>4. /\ ref # <<>> /\ ref[1] \in PatchIds(Library) /\ Len(calls) <= MaxSubpatchDepth
  <2>1. Len(call.refs) \in Nat /\ Len(call.refs) + 1 = Len(calls)
    BY <1>3
  <2> QED BY <1>2, <2>1, VerdictFacts
<1>5. Promise!IsInstance(doc, node) /\ inside = Promise!Inside(doc, place, node)
  <2>1. path = Append(place.path, node.id)
    BY <1>1, <1>3
  <2>2. graph = PatchNamed(doc.library, subpatch_ref(doc.library, node)[1]).graph
    BY <1>1 DEF Library
  <2> QED BY <1>2, <2>1, <2>2, SameNodes, InsideFacts
<1>6. IsSequence(path) /\ Len(path) = Len(calls) /\ inside.path = path /\ inside.graph = graph
  BY <1>1, <1>3, AppendFacts
<1>7. GraphOk(graph) /\ Turns(graph) \in Nat
  <2>1. GraphOk(graph)
    BY <1>1, <1>4, DocumentGraphs DEF Library
  <2>2. IsSequence(graph.nodes) /\ IsSequence(graph.edges)
    BY <2>1 DEF GraphOk, IsGraph
  <2> QED BY <2>1, <2>2, IsSeqFacts, TurnBounds
<1>8. ~Reached(place, at)
  BY <1>1, NotYetReached
<1>9. ASSUME NEW p \in opened PROVE p.path # path
  <2> SUFFICES ASSUME p.path = path PROVE FALSE
    OBVIOUS
  <2>1. CASE p = RootPlace(doc)
    <3>1. Len(path) = 0
      BY <2>1 DEF RootPlace
    <3> QED BY <1>3, <1>6, <3>1
  <2>2. CASE p # RootPlace(doc)
    <3>1. PICK q \in opened : \E j \in 1..Len(q.graph.nodes) :
            /\ Promise!IsInstance(doc, q.graph.nodes[j])
            /\ p = Promise!Inside(doc, q, q.graph.nodes[j]) /\ Reached(q, j)
      BY <1>1, <2>2 DEF CallInv, ParentsInv
    <3>2. PICK j \in 1..Len(q.graph.nodes) : p.path = Append(q.path, q.graph.nodes[j].id) /\ Reached(q, j)
      BY <3>1 DEF Promise!Inside
    <3>3. IsSequence(q.path) /\ IsSequence(place.path)
      BY <1>3, OpenedFacts DEF CallInv
    <3>4. Append(q.path, q.graph.nodes[j].id) = Append(place.path, node.id)
      BY <1>1, <1>3, <3>2
    <3>5. q.path = place.path
      BY <3>3, <3>4, PathsAgree
    <3>6. q.graph.nodes[j].id = node.id
      BY <3>3, <3>4, AppendOneToOne
    <3>7. q = place
      BY <1>3, <3>5 DEF CallInv, OpenedInv
    <3>8. j = at
      BY <1>3, <3>6, <3>7, OpenedFacts DEF CallInv
    <3> QED BY <1>8, <3>2, <3>7, <3>8
  <2> QED BY <2>1, <2>2
<1>10. /\ IsSequence(calls') /\ Len(calls') = Len(calls) + 1
       /\ \A k \in 1..Len(calls) : k # Len(calls) => calls'[k] = calls[k]
       /\ calls'[Len(calls)] = [path |-> call.path, graph |-> call.graph, refs |-> call.refs, at |-> at + 1]
       /\ calls'[Len(calls) + 1] = frame
  <2>1. /\ IsSequence(Advanced) /\ Len(Advanced) = Len(calls)
        /\ \A k \in 1..Len(calls) : k # Len(calls) => Advanced[k] = calls[k]
        /\ Advanced[Len(calls)] =
             [path |-> call.path, graph |-> call.graph, refs |-> call.refs, at |-> at + 1]
    BY <1>1, AdvancedFacts DEF CallInv
  <2> HIDE DEF frame
  <2>2. IsSequence(calls') /\ Len(calls') = Len(Advanced) + 1
    BY <1>2, <2>1, AppendFacts
  <2>3. \A k \in 1..Len(Advanced) : calls'[k] = Advanced[k]
    BY <1>2, <2>1, AppendFacts
  <2>4. calls'[Len(Advanced) + 1] = frame
    BY <1>2, <2>1, AppendFacts
  <2>5. Len(calls) \in 1..Len(calls)
    BY <1>3
  <2> QED BY <2>1, <2>2, <2>3, <2>4, <2>5
<1>11. \A k \in 1..Len(calls') : k \in 1..(Len(calls) - 1) \/ k = Len(calls) \/ k = Len(calls) + 1
  BY <1>3, <1>10
<1>12. /\ frame = [path |-> path, graph |-> graph, refs |-> Append(call.refs, ref[1]), at |-> 1]
       /\ frame.path = path /\ frame.graph = graph /\ frame.at = 1
       /\ IsSequence(frame.refs) /\ Len(frame.refs) = Len(calls)
       /\ frame = [path |-> frame.path, graph |-> frame.graph, refs |-> frame.refs, at |-> frame.at]
  BY <1>3, AppendFacts DEF Call
<1> HIDE DEF frame, inside
<1>13. \A p \in opened : \A i \in Nat :
         /\ Reached(p, i) => Reached(p, i)'
         /\ Reached(p, i)' => Reached(p, i) \/ (p = place /\ i = at)
  <2> SUFFICES ASSUME NEW p \in opened, NEW i \in Nat
               PROVE  /\ Reached(p, i) => Reached(p, i)'
                      /\ Reached(p, i)' => Reached(p, i) \/ (p = place /\ i = at)
    OBVIOUS
  <2>1. Len(calls) \in 1..Len(calls) /\ calls[Len(calls)] = call
    BY <1>3 DEF call
  <2>2. ASSUME Reached(p, i), NEW k \in 1..Len(calls'), calls'[k].path = p.path PROVE i < calls'[k].at
    <3>1. CASE k \in 1..(Len(calls) - 1)
      <4>1. k \in 1..Len(calls) /\ k # Len(calls)
        BY <1>3, <3>1
      <4> QED BY <1>10, <2>2, <4>1 DEF Reached
    <3>2. CASE k = Len(calls)
      <4>1. i < at
        BY <1>1, <1>10, <2>1, <2>2, <3>2 DEF Reached
      <4> QED BY <1>3, <1>10, <3>2, <4>1
    <3>3. CASE k = Len(calls) + 1
      BY <1>9, <1>10, <1>12, <2>2, <3>3
    <3> QED BY <1>11, <3>1, <3>2, <3>3
  <2>3. ASSUME Reached(p, i)', ~Reached(p, i) PROVE p = place /\ i = at
    <3>1. PICK k \in 1..Len(calls) : calls[k].path = p.path /\ ~(i < calls[k].at)
      BY <2>3 DEF Reached
    <3>2. k \in 1..Len(calls')
      BY <1>3, <1>10
    <3>3. k = Len(calls)
      <4> SUFFICES ASSUME k # Len(calls) PROVE FALSE
        OBVIOUS
      <4>1. calls'[k] = calls[k]
        BY <1>10
      <4> QED BY <2>3, <3>1, <3>2, <4>1 DEF Reached
    <3>4. p = place
      BY <1>1, <2>1, <3>1, <3>3, CalledPlace DEF CallInv
    <3>5. calls'[k].path = p.path /\ calls'[k].at = at + 1
      BY <1>10, <2>1, <3>1, <3>3
    <3>6. i < at + 1 /\ ~(i < at)
      BY <1>1, <2>1, <2>3, <3>1, <3>2, <3>3, <3>5 DEF Reached
    <3> QED BY <1>3, <3>4, <3>6
  <2> QED BY <2>2, <2>3 DEF Reached
<1>14. FramesInv'
  <2>1. ASSUME NEW k \in 1..Len(calls'), NEW c, c = calls'[k]
        PROVE  /\ c = [path |-> c.path, graph |-> c.graph, refs |-> c.refs, at |-> c.at]
               /\ PlaceOf(c) \in opened'
               /\ IsSequence(c.refs) /\ Len(c.refs) = k - 1 /\ Len(c.path) = k - 1
               /\ c.at \in 1..(Turns(c.graph) + 1)
    <3>1. CASE k \in 1..(Len(calls) - 1)
      <4>1. k \in 1..Len(calls) /\ k # Len(calls)
        BY <1>3, <3>1
      <4>2. c = calls[k] /\ opened \subseteq opened'
        BY <1>2, <1>10, <2>1, <4>1
      <4> QED BY <4>1, <4>2 DEF CallInv, FramesInv
    <3>2. CASE k = Len(calls)
      <4>1. c = [path |-> call.path, graph |-> call.graph, refs |-> call.refs, at |-> at + 1]
        BY <1>10, <2>1, <3>2
      <4>2. /\ c.path = call.path /\ c.graph = call.graph /\ c.refs = call.refs /\ c.at = at + 1
            /\ c = [path |-> c.path, graph |-> c.graph, refs |-> c.refs, at |-> c.at]
        BY <4>1
      <4>3. PlaceOf(c) \in opened'
        BY <1>1, <1>2, <1>3, <4>2 DEF PlaceOf
      <4>4. at + 1 \in 1..(Turns(call.graph) + 1)
        BY <1>1, <1>3, TurnFacts
      <4> QED BY <1>3, <3>2, <4>2, <4>3, <4>4
    <3>3. CASE k = Len(calls) + 1
      <4>1. c = frame /\ k - 1 = Len(calls)
        BY <1>3, <1>10, <2>1, <3>3
      <4>2. PlaceOf(c) \in opened'
        BY <1>2, <1>12, <4>1 DEF PlaceOf, inside
      <4>3. 1 \in 1..(Turns(graph) + 1)
        BY <1>7
      <4> QED BY <1>6, <1>12, <4>1, <4>2, <4>3
    <3> QED BY <1>11, <3>1, <3>2, <3>3
  <2> QED BY <1>10, <2>1 DEF FramesInv
<1>15. OpenedInv'
  <2>1. inside \in Promise!Nesting(doc)[Len(path)] /\ Len(path) \in 0..MaxSubpatchDepth
    <3>1. place \in Promise!Nesting(doc)[Len(calls) - 1] /\ Len(calls) - 1 \in Nat
      BY <1>1, <1>3 DEF CallInv, OpenedInv
    <3>2. (Len(calls) - 1) + 1 = Len(calls) /\ Len(calls) \in 0..MaxSubpatchDepth
      BY <1>3, <1>4, PlanningAssumption
    <3>3. node \in Promise!Nodes(place.graph)
      BY <1>3, OpenedFacts, NodesFacts DEF CallInv
    <3> QED BY <1>4, <1>5, <1>6, <3>1, <3>2, <3>3, InsideIsDeeper
  <2>2. request'.document = doc
    BY <1>1, <1>2
  <2>3. RootPlace(doc) \in opened'
    BY <1>1, <1>2 DEF CallInv, OpenedInv
  <2>4. ASSUME NEW p \in opened'
        PROVE  /\ Len(p.path) \in 0..MaxSubpatchDepth
               /\ p \in Promise!Nesting(doc)[Len(p.path)]
               /\ GraphOk(p.graph)
    <3>1. CASE p \in opened
      BY <1>1, <3>1 DEF CallInv, OpenedInv
    <3>2. CASE p = inside
      BY <1>6, <1>7, <2>1, <3>2
    <3> QED BY <1>2, <3>1, <3>2
  <2>5. ASSUME NEW p \in opened', NEW q \in opened', p.path = q.path PROVE p = q
    <3>1. CASE p \in opened /\ q \in opened
      BY <2>5, <3>1 DEF CallInv, OpenedInv
    <3> QED BY <1>2, <1>6, <1>9, <2>5, <3>1
  <2> QED BY <2>2, <2>3, <2>4, <2>5 DEF OpenedInv
<1>16. ParentsInv'
  <2>1. ASSUME NEW p \in opened'
        PROVE  \/ p = RootPlace(request.document)'
               \/ \E q \in opened' : \E j \in 1..Len(q.graph.nodes) :
                    /\ Promise!IsInstance(request.document, q.graph.nodes[j])'
                    /\ p = Promise!Inside(request.document, q, q.graph.nodes[j])'
                    /\ Reached(q, j)'
    <3>1. CASE p \in opened
      <4>1. request' = request /\ opened \subseteq opened' /\ ParentsInv /\ OpenedInv
        BY <1>2 DEF CallInv
      <4>2. \A q \in opened : \A i \in Nat : Reached(q, i) => Reached(q, i)'
        BY <1>13
      <4> QED BY <3>1, <4>1, <4>2, ParentsKeep
    <3>2. CASE p = inside
      <4>1. Reached(place, at)'
        <5> SUFFICES ASSUME NEW k \in 1..Len(calls'), calls'[k].path = place.path PROVE at < calls'[k].at
          BY DEF Reached
        <5>1. CASE k \in 1..(Len(calls) - 1)
          <6>1. k \in 1..Len(calls) /\ k # Len(calls) /\ Len(calls) \in 1..Len(calls)
            BY <1>3, <5>1
          <6>2. calls[k].path = calls[Len(calls)].path
            BY <1>3, <1>10, <6>1 DEF call
          <6> QED BY <6>1, <6>2, CallsDiffer DEF CallInv
        <5>2. CASE k = Len(calls)
          BY <1>3, <1>10, <5>2
        <5>3. CASE k = Len(calls) + 1
          BY <1>3, <1>9, <1>10, <1>12, <5>3
        <5> QED BY <1>11, <5>1, <5>2, <5>3
      <4>2. place \in opened' /\ request'.document = doc /\ at \in 1..Len(place.graph.nodes) /\ node = place.graph.nodes[at]
        BY <1>1, <1>2, <1>3
      <4>3. Promise!IsInstance(doc, place.graph.nodes[at]) /\ p = Promise!Inside(doc, place, place.graph.nodes[at])
        BY <1>5, <3>2, <4>2
      <4> QED BY <4>1, <4>2, <4>3
    <3> QED BY <1>2, <3>1, <3>2
  <2> QED BY <2>1 DEF ParentsInv
<1>17. NodeDone(place, node)'
  <2>1. request'.document = doc /\ Library' = Library
    BY <1>1, <1>2 DEF Library
  <2>2. inside \in opened' /\ Len(place.path) + 1 <= MaxSubpatchDepth
    BY <1>2, <1>3, <1>4
  <2> QED BY <1>1, <1>2, <1>4, <1>5, <2>1, <2>2 DEF NodeDone
<1>18. VisitedInv'
  <2>1. TurnOf(place, at)
    <3>1. ASSUME NEW i \in 1..Len(place.graph.edges) PROVE Len(place.graph.nodes) + i # at
      <4>1. Len(place.graph.nodes) \in Nat
        BY <1>3, OpenedFacts DEF CallInv
      <4> QED BY <1>3, <4>1
    <3> QED BY <1>3, <1>13, <1>17, <3>1 DEF TurnOf
  <2>2. /\ OpenedInv /\ VisitedInv /\ request' = request /\ opened \subseteq opened' /\ pins \subseteq pins'
        /\ Range(IdsOf(expanded)) \subseteq Range(IdsOf(expanded))' /\ Range(edges) \subseteq Range(edges)'
    BY <1>2 DEF CallInv
  <2>3. \A p \in opened :
          /\ \A i \in 1..Len(p.graph.nodes) : Reached(p, i)' => NodeDone(p, p.graph.nodes[i])'
          /\ \A i \in 1..Len(p.graph.edges) : Reached(p, Len(p.graph.nodes) + i)' => EdgeDone(p, p.graph.edges[i])'
    BY <2>1, <2>2, VisitingKeeps
  <2>4. ASSUME NEW i, Reached(inside, i)' PROVE i < 1
    <3>1. Len(calls) + 1 \in 1..Len(calls')
      BY <1>3, <1>10
    <3> QED BY <1>6, <1>10, <1>12, <2>4, <3>1 DEF Reached
  <2>5. \A i \in 1..Len(graph.nodes) : ~(i < 1)
    OBVIOUS
  <2>6. \A i \in 1..Len(graph.edges) : ~(Len(graph.nodes) + i < 1)
    <3>1. Len(graph.nodes) \in Nat
      BY <1>7, IsSeqFacts DEF GraphOk, IsGraph
    <3> QED BY <3>1
  <2> QED BY <1>2, <1>6, <2>3, <2>4, <2>5, <2>6 DEF VisitedInv
<1>19. ExpandedInv'
  <2>1. OpenedInv /\ ExpandedInv /\ opened \subseteq opened' /\ expanded' = expanded
    BY <1>2 DEF CallInv
  <2> QED BY <1>13, <2>1, ExpandedStays
<1>20. PinsInv'
  BY <1>2 DEF PinsInv, CallInv
<1>21. calls' # <<>>
  <2>1. Len(calls') # 0
    BY <1>3, <1>10
  <2> QED BY <2>1
<1> QED BY <1>14, <1>15, <1>16, <1>18, <1>19, <1>20, <1>21 DEF CallInv

\* What dropping the last element gives.
LEMMA FrontFacts ==
    ASSUME NEW s, IsSequence(s), s # <<>>
    PROVE  /\ IsSequence(Front(s)) /\ Len(Front(s)) = Len(s) - 1
           /\ \A i \in 1..(Len(s) - 1) : Front(s)[i] = s[i]
<1>1. s \in Seq(Range(s)) /\ Len(s) \in Nat \ {0}
  BY IsSeqFacts DEF IsSequence
<1>2. Front(s) \in Seq(Range(s)) /\ Len(Front(s)) = Len(s) - 1 /\ \A i \in 1..(Len(s) - 1) : Front(s)[i] = s[i]
  BY <1>1 DEF Front
<1> QED BY <1>2, SeqFacts

\* The call returns when all its turns are over.
LEMMA ReturnKeeps ==
    ASSUME CallInv, expand_return
    PROVE  /\ FramesInv' /\ OpenedInv' /\ ParentsInv' /\ VisitedInv' /\ ExpandedInv' /\ PinsInv'
           /\ calls' = <<>> <=> phase' = "contract"
           /\ phase' \in {"expand", "contract"}
<1>1. /\ ~VisitsNode /\ ~VisitsEdge /\ calls' = Front(calls)
      /\ phase' = (IF Len(calls) = 1 THEN "contract" ELSE "expand")
      /\ UNCHANGED <<request, opened, expanded, pins, edges>>
  BY DEF expand_return
<1>2. Len(calls) \in Nat \ {0} /\ calls[Len(calls)] = call /\ Len(calls) \in 1..Len(calls)
  BY CallFacts DEF CallInv
<1>3. /\ IsSequence(calls') /\ Len(calls') = Len(calls) - 1
      /\ \A k \in 1..Len(calls') : k \in 1..Len(calls) /\ calls'[k] = calls[k]
  BY <1>1, <1>2, FrontFacts DEF CallInv, FramesInv
<1>4. \A k \in 1..Len(calls) : k \in 1..Len(calls') \/ k = Len(calls)
  BY <1>2, <1>3
<1>5. call.at > Turns(call.graph) /\ call.at \in Nat /\ Turns(call.graph) \in Nat
  BY <1>1, TurnFacts
<1>6. \A p \in opened : \A i \in Nat :
        /\ Reached(p, i) => Reached(p, i)'
        /\ i <= Turns(p.graph) /\ Reached(p, i)' => Reached(p, i)
  <2> SUFFICES ASSUME NEW p \in opened, NEW i \in Nat
               PROVE  /\ Reached(p, i) => Reached(p, i)'
                      /\ i <= Turns(p.graph) /\ Reached(p, i)' => Reached(p, i)
    OBVIOUS
  <2>1. Reached(p, i) => Reached(p, i)'
    BY <1>3 DEF Reached
  <2>2. ASSUME i <= Turns(p.graph), Reached(p, i)', NEW k \in 1..Len(calls), calls[k].path = p.path
        PROVE  i < calls[k].at
    <3>1. CASE k \in 1..Len(calls')
      BY <1>3, <2>2, <3>1 DEF Reached
    <3>2. CASE k = Len(calls)
      <4>1. p = PlaceOf(call)
        BY <1>2, <2>2, <3>2, CalledPlace DEF CallInv
      <4>2. p.graph = call.graph
        BY <4>1, CallFacts DEF CallInv
      <4> QED BY <1>2, <1>5, <2>2, <3>2, <4>2
    <3> QED BY <1>4, <3>1, <3>2
  <2> QED BY <2>1, <2>2 DEF Reached
<1>7. FramesInv'
  <2>1. ASSUME NEW k \in 1..Len(calls'), NEW c, c = calls'[k]
        PROVE  /\ c = [path |-> c.path, graph |-> c.graph, refs |-> c.refs, at |-> c.at]
               /\ PlaceOf(c) \in opened'
               /\ IsSequence(c.refs) /\ Len(c.refs) = k - 1 /\ Len(c.path) = k - 1
               /\ c.at \in 1..(Turns(c.graph) + 1)
    <3>1. k \in 1..Len(calls) /\ c = calls[k] /\ opened' = opened
      BY <1>1, <1>3, <2>1
    <3> QED BY <3>1 DEF CallInv, FramesInv
  <2> QED BY <1>3, <2>1 DEF FramesInv
<1>8. OpenedInv'
  BY <1>1 DEF CallInv, OpenedInv
<1>9. ParentsInv'
  <2>1. request' = request /\ opened \subseteq opened' /\ ParentsInv /\ OpenedInv
    BY <1>1 DEF CallInv
  <2>2. \A q \in opened : \A i \in Nat : Reached(q, i) => Reached(q, i)'
    BY <1>6
  <2>3. ASSUME NEW p \in opened'
        PROVE  \/ p = RootPlace(request.document)'
               \/ \E q \in opened' : \E j \in 1..Len(q.graph.nodes) :
                    /\ Promise!IsInstance(request.document, q.graph.nodes[j])'
                    /\ p = Promise!Inside(request.document, q, q.graph.nodes[j])'
                    /\ Reached(q, j)'
    BY <1>1, <2>1, <2>2, ParentsKeep
  <2> QED BY <2>3 DEF ParentsInv
<1>10. VisitedInv'
  <2>1. PICK place : place = [graph |-> [nodes |-> <<>>, edges |-> <<>>]]
    OBVIOUS
  <2>2. TurnOf(place, 0)
    <3>1. Len(place.graph.nodes) = 0 /\ Len(place.graph.edges) = 0
      BY <2>1
    <3> QED BY <1>6, <3>1 DEF TurnOf
  <2>3. /\ OpenedInv /\ VisitedInv /\ request' = request /\ opened \subseteq opened' /\ pins \subseteq pins'
        /\ Range(IdsOf(expanded)) \subseteq Range(IdsOf(expanded))' /\ Range(edges) \subseteq Range(edges)'
    BY <1>1 DEF CallInv
  <2>4. \A p \in opened :
          /\ \A i \in 1..Len(p.graph.nodes) : Reached(p, i)' => NodeDone(p, p.graph.nodes[i])'
          /\ \A i \in 1..Len(p.graph.edges) : Reached(p, Len(p.graph.nodes) + i)' => EdgeDone(p, p.graph.edges[i])'
    BY <2>2, <2>3, VisitingKeeps
  <2> QED BY <1>1, <2>4 DEF VisitedInv
<1>11. ExpandedInv'
  <2>1. OpenedInv /\ ExpandedInv /\ opened \subseteq opened' /\ expanded' = expanded
    BY <1>1 DEF CallInv
  <2> QED BY <1>6, <2>1, ExpandedStays
<1>12. PinsInv'
  BY <1>1 DEF PinsInv, CallInv
<1>13. calls' = <<>> <=> phase' = "contract"
  <2>1. calls' = <<>> <=> Len(calls') = 0
    <3>1. Len(calls') = 0 => calls' = <<>>
      BY <1>3 DEF IsSequence
    <3> QED BY <3>1
  <2>2. Len(calls') = 0 <=> Len(calls) = 1
    BY <1>2, <1>3
  <2> QED BY <1>1, <2>1, <2>2
<1>14. phase' \in {"expand", "contract"}
  BY <1>1
<1> QED BY <1>7, <1>8, <1>9, <1>10, <1>11, <1>12, <1>13, <1>14

----------------------------------------------------------------------------
(* The expansion is complete.                                              *)

\* The objects of the document are expanded, each once; the cables between its
\* points are edges, and the points are pins.
Complete(doc) ==
  /\ Promise!WithinDepth(doc)
  /\ IsSequence(expanded) /\ Range(IdsOf(expanded)) = Promise!Leaves(doc)
  /\ \A k, l \in 1..Len(expanded) : expanded[k].id = expanded[l].id => k = l

ArcsKept(doc) ==
  /\ IsSequence(edges) /\ Promise!Arcs(doc) \subseteq Range(edges)
  /\ \A pin \in pins : pin[1] = "pin"
  /\ \A a \in Promise!Arcs(doc) : a.from[1] = "pin" => a.from \in pins

\* When all calls have returned the expansion is the whole document: its
\* objects, once for each instance, and its cables part by part.
LEMMA ExpansionIsComplete ==
    ASSUME calls = <<>>, OpenedInv, VisitedInv, ExpandedInv, PinsInv, NEW doc, doc = request.document
    PROVE  Complete(doc) /\ ArcsKept(doc)
<1>1. \A p, i : Reached(p, i)
  <2>1. Len(calls) = 0
    OBVIOUS
  <2> QED BY <2>1 DEF Reached
<1>2. \A p \in opened : \A i \in 1..Len(p.graph.nodes) : NodeDone(p, p.graph.nodes[i])
  BY <1>1 DEF VisitedInv
<1>3. \A p \in opened : \A n \in Promise!Nodes(p.graph) : NodeDone(p, n)
  BY <1>2, OpenedFacts, NodesFacts
<1>4. MaxSubpatchDepth \in Nat
  BY PlanningAssumption
<1>5. \A d \in 0..MaxSubpatchDepth : Promise!Nesting(doc)[d] \subseteq opened
  <2> DEFINE Good == {d \in Nat : d <= MaxSubpatchDepth => Promise!Nesting(doc)[d] \subseteq opened}
  <2>1. 0 \in Good
    BY NestingStep DEF OpenedInv, RootPlace
  <2>2. ASSUME NEW d \in Nat, d \in Good PROVE d + 1 \in Good
    <3> SUFFICES ASSUME d + 1 <= MaxSubpatchDepth, NEW q \in Promise!Nesting(doc)[d + 1] PROVE q \in opened
      OBVIOUS
    <3>1. d + 1 \in 1..MaxSubpatchDepth /\ (d + 1) - 1 = d /\ Promise!Nesting(doc)[d] \subseteq opened
      BY <1>4, <2>2
    <3>2. q \in InsideOf(doc, Promise!Nesting(doc)[d])
      BY <3>1, NestingStep
    <3>3. PICK p \in Promise!Nesting(doc)[d] :
            \E n \in Promise!Nodes(p.graph) : Promise!IsInstance(doc, n) /\ q = Promise!Inside(doc, p, n)
      BY <3>2 DEF InsideOf
    <3>4. p \in opened
      BY <3>1
    <3> QED BY <1>3, <3>3, <3>4 DEF NodeDone
  <2>3. Nat \subseteq Good
    <3> HIDE DEF Good
    <3> QED BY <2>1, <2>2, NatSetInduction
  <2> QED BY <1>4, <2>3
<1>6. Promise!Places(doc) = opened
  <2>1. \A p \in opened : Len(p.path) \in 0..MaxSubpatchDepth /\ p \in Promise!Nesting(doc)[Len(p.path)]
    BY DEF OpenedInv
  <2>2. \A p : p \in Promise!Places(doc) <=> \E d \in 0..MaxSubpatchDepth : p \in Promise!Nesting(doc)[d]
    BY DEF Promise!Places
  <2> QED BY <1>5, <2>1, <2>2
<1>7. Promise!WithinDepth(doc)
  <2> SUFFICES ASSUME NEW p \in Promise!Nesting(doc)[MaxSubpatchDepth], NEW n \in Promise!Nodes(p.graph),
                      Promise!IsInstance(doc, n)
               PROVE  FALSE
    BY DEF Promise!WithinDepth
  <2>1. MaxSubpatchDepth \in 0..MaxSubpatchDepth
    BY <1>4
  <2>2. p \in opened /\ Len(p.path) = MaxSubpatchDepth
    BY <1>5, <2>1, NestingPaths
  <2>3. Len(p.path) + 1 <= MaxSubpatchDepth
    BY <1>3, <2>2 DEF NodeDone
  <2> QED BY <1>4, <2>2, <2>3
<1>8. IsSequence(expanded) /\ Range(IdsOf(expanded)) = {expanded[k].id : k \in 1..Len(expanded)}
  BY IdsFacts DEF ExpandedInv
<1>9. \A n : Promise!IsInstance(doc, n) \/ Promise!IsBoundary(n) <=> is_boundary_node(n) \/ is_subpatch_node(n)
  BY SameNodes
<1>10. Range(IdsOf(expanded)) = Promise!Leaves(doc)
  <2>1. \A x : x \in Promise!Leaves(doc) <=>
          \E p \in opened : \E n \in Promise!Nodes(p.graph) :
            ~is_boundary_node(n) /\ ~is_subpatch_node(n) /\ x = Append(p.path, n.id)
    <3>1. \A x : x \in Promise!Leaves(doc) <=>
            \E p \in opened : \E n \in Promise!Objects(doc, p) : x = Append(p.path, n.id)
      BY <1>6 DEF Promise!Leaves, Promise!LeavesAt
    <3>2. \A p, n : n \in Promise!Objects(doc, p) <=>
            n \in Promise!Nodes(p.graph) /\ ~is_boundary_node(n) /\ ~is_subpatch_node(n)
      BY <1>9 DEF Promise!Objects
    <3> QED BY <3>1, <3>2
  <2>2. ASSUME NEW x \in Promise!Leaves(doc) PROVE x \in Range(IdsOf(expanded))
    <3>1. PICK p \in opened : \E n \in Promise!Nodes(p.graph) :
            ~is_boundary_node(n) /\ ~is_subpatch_node(n) /\ x = Append(p.path, n.id)
      BY <2>1
    <3>2. PICK n \in Promise!Nodes(p.graph) :
            ~is_boundary_node(n) /\ ~is_subpatch_node(n) /\ x = Append(p.path, n.id)
      BY <3>1
    <3>3. NodeDone(p, n)
      BY <1>3
    <3> QED BY <3>2, <3>3 DEF NodeDone
  <2>3. ASSUME NEW k \in 1..Len(expanded) PROVE expanded[k].id \in Promise!Leaves(doc)
    <3>1. PICK q \in opened : \E j \in 1..Len(q.graph.nodes) :
            /\ ~is_boundary_node(q.graph.nodes[j]) /\ ~is_subpatch_node(q.graph.nodes[j])
            /\ expanded[k].id = Append(q.path, q.graph.nodes[j].id)
      BY DEF ExpandedInv
    <3>2. \A j \in 1..Len(q.graph.nodes) : q.graph.nodes[j] \in Promise!Nodes(q.graph)
      BY OpenedFacts, NodesFacts
    <3> QED BY <2>1, <3>1, <3>2
  <2> QED BY <1>8, <2>2, <2>3
<1>11. Complete(doc)
  BY <1>7, <1>8, <1>10 DEF Complete, ExpandedInv
<1>12. ASSUME NEW a \in Promise!Arcs(doc)
       PROVE  \E p \in opened : \E i \in 1..Len(p.graph.edges) : a \in Promise!ArcsOf(doc, p, p.graph.edges[i])
  <2>1. PICK p \in opened : \E e \in Promise!Edges(p.graph) : a \in Promise!ArcsOf(doc, p, e)
    BY <1>6 DEF Promise!Arcs
  <2> QED BY <2>1 DEF Promise!Edges
<1>13. Promise!Arcs(doc) \subseteq Range(edges)
  <2>1. \A p \in opened : \A i \in 1..Len(p.graph.edges) : Promise!ArcsOf(doc, p, p.graph.edges[i]) \subseteq Range(edges)
    BY <1>1 DEF VisitedInv, EdgeDone
  <2> QED BY <1>12, <2>1
<1>14. ASSUME NEW a \in Promise!Arcs(doc), a.from[1] = "pin" PROVE a.from \in pins
  <2>1. PICK p \in opened : \E i \in 1..Len(p.graph.edges) : a \in Promise!ArcsOf(doc, p, p.graph.edges[i])
    BY <1>12
  <2>2. PICK end : a.from \in Promise!Ends(doc, p, end, "outlet")
    BY <2>1 DEF Promise!ArcsOf
  <2>3. PICK n \in Promise!Nodes(p.graph) : a.from \in Promise!EndOf(doc, p, n, end, "outlet")
    BY <2>2 DEF Promise!Ends
  <2>4. CASE is_boundary_node(n)
    <3>1. a.from = Promise!Boundary(p.path, n)
      BY <2>3, <2>4, SameNodes DEF Promise!EndOf, Promise!IsInstance, Promise!Objects
    <3>2. a.from = Pin(p.path, n)
      BY <3>1 DEF Promise!Boundary, Pin
    <3> QED BY <1>3, <2>4, <3>2 DEF NodeDone
  <2>5. CASE Promise!IsInstance(doc, n)
    <3>0. ~Promise!IsBoundary(n)
      BY <2>5 DEF Promise!IsInstance
    <3>1. PICK inside : inside = Promise!Inside(doc, p, n)
      OBVIOUS
    <3>2. a.from \in Promise!Named(inside, "outlet", end[2])
      BY <2>3, <2>5, <3>0, <3>1 DEF Promise!EndOf, Promise!Objects
    <3>3. inside \in opened
      BY <1>3, <2>5, <3>1 DEF NodeDone
    <3>4. PICK m \in Promise!Nodes(inside.graph) : m.kind = "outlet" /\ a.from = Promise!Boundary(inside.path, m)
      BY <3>2 DEF Promise!Named
    <3>5. is_boundary_node(m) /\ a.from = Pin(inside.path, m)
      BY <3>4 DEF is_boundary_node, Promise!Boundary, Pin
    <3> QED BY <1>3, <3>3, <3>5 DEF NodeDone
  <2>6. CASE ~is_boundary_node(n) /\ ~Promise!IsInstance(doc, n)
    <3>1. n \in Promise!Objects(doc, p) /\ ~Promise!IsBoundary(n)
      BY <2>6, SameNodes DEF Promise!Objects
    <3>2. a.from = <<"node", Append(p.path, n.id), end[2]>>
      BY <2>3, <2>6, <3>1 DEF Promise!EndOf
    <3> QED BY <1>14, <3>2
  <2> QED BY <2>4, <2>5, <2>6
<1>15. ArcsKept(doc)
  BY <1>13, <1>14 DEF ArcsKept, PinsInv
<1> QED BY <1>11, <1>15

----------------------------------------------------------------------------
(* The expansion from its beginning.                                       *)
LEMMA BeginsExpansion ==
    ASSUME NEW doc, DocumentOk(doc), NEW remembered, Begin(doc, remembered), phase' = "expand",
           expanded = <<>>, pins = {}, edges = <<>>
    PROVE  CallInv'
<1>1. /\ request'.document = doc /\ calls' = <<Call(<<>>, doc.graph, <<>>)>> /\ opened' = {RootPlace(doc)}
      /\ expanded' = <<>> /\ pins' = {} /\ edges' = <<>>
  <2>1. CASE validate_patch_library(doc.library) # {}
    BY <2>1 DEF Begin, Refuse, Idle
  <2>2. CASE validate_patch_library(doc.library) = {}
    BY <2>2 DEF Begin, RootPlace
  <2> QED BY <2>1, <2>2
<1> DEFINE frame == Call(<<>>, doc.graph, <<>>)
           root == RootPlace(doc)
<1>2. /\ frame = [path |-> frame.path, graph |-> frame.graph, refs |-> frame.refs, at |-> frame.at]
      /\ frame.path = <<>> /\ frame.graph = doc.graph /\ frame.refs = <<>> /\ frame.at = 1
      /\ root.path = <<>> /\ root.graph = doc.graph /\ PlaceOf(frame) = root
  BY DEF Call, RootPlace, PlaceOf
<1> HIDE DEF frame, root
<1>3. IsSequence(calls') /\ Len(calls') = 1 /\ calls'[1] = frame
  <2>1. calls' = <<frame>>
    BY <1>1 DEF frame
  <2> QED BY <2>1 DEF IsSequence, Range
<1>4. GraphOk(doc.graph) /\ Turns(doc.graph) \in Nat
  <2>1. GraphOk(doc.graph)
    BY DocumentGraphs
  <2>2. IsSequence(doc.graph.nodes) /\ IsSequence(doc.graph.edges)
    BY <2>1 DEF GraphOk, IsGraph
  <2> QED BY <2>1, <2>2, IsSeqFacts, TurnBounds
<1>5. \A i : Reached(root, i)' => i < 1
  <2>1. 1 \in 1..Len(calls')
    BY <1>3
  <2> QED BY <1>2, <1>3, <2>1 DEF Reached
<1>6. FramesInv'
  <2>1. 1 \in 1..(Turns(doc.graph) + 1)
    BY <1>4
  <2>2. \A k \in 1..Len(calls') : k = 1
    BY <1>3
  <2>3. /\ PlaceOf(frame) \in opened'
        /\ IsSequence(frame.refs) /\ Len(frame.refs) = 1 - 1 /\ Len(frame.path) = 1 - 1
        /\ frame.at \in 1..(Turns(frame.graph) + 1)
    BY <1>1, <1>2, <2>1, EmptyIsSeq DEF root
  <2> QED BY <1>2, <1>3, <2>2, <2>3 DEF FramesInv
<1>7. OpenedInv'
  <2>1. root \in Promise!Nesting(doc)[0] /\ Len(root.path) = 0 /\ 0 \in 0..MaxSubpatchDepth
    BY <1>2, NestingStep, PlanningAssumption DEF root, RootPlace
  <2>2. opened' = {root} /\ RootPlace(request'.document) = root
    BY <1>1 DEF root
  <2> QED BY <1>1, <1>2, <1>4, <2>1, <2>2 DEF OpenedInv
<1>8. ParentsInv'
  BY <1>1 DEF ParentsInv
<1>9. VisitedInv'
  <2>1. \A i \in 1..Len(doc.graph.nodes) : ~(i < 1)
    OBVIOUS
  <2>2. \A i \in 1..Len(doc.graph.edges) : ~(Len(doc.graph.nodes) + i < 1)
    <3>1. Len(doc.graph.nodes) \in Nat
      BY <1>4, IsSeqFacts DEF GraphOk, IsGraph
    <3> QED BY <3>1
  <2>3. \A p \in opened' : p = root
    BY <1>1 DEF root
  <2> QED BY <1>2, <1>5, <2>1, <2>2, <2>3 DEF VisitedInv
<1>10. ExpandedInv' /\ PinsInv'
  BY <1>1, EmptyIsSeq DEF ExpandedInv, PinsInv
<1>11. calls' # <<>>
  BY <1>3, EmptyIsSeq
<1> QED BY <1>6, <1>7, <1>8, <1>9, <1>10, <1>11 DEF CallInv

----------------------------------------------------------------------------
(* Cables.                                                                 *)

\* The fields of a cable.
LEMMA CableFields ==
    ASSUME NEW c, NEW a
    PROVE  /\ Promise!Start(a).from = a.from /\ Promise!Start(a).to = a.to
           /\ Promise!Start(a).passed = {} /\ Promise!Start(a).feedback = a.feedback
           /\ Promise!Longer(c, a).from = c.from /\ Promise!Longer(c, a).to = a.to
           /\ Promise!Longer(c, a).passed = c.passed \cup {c.to}
           /\ Promise!Longer(c, a).feedback = IF a.feedback = "unset" THEN c.feedback ELSE a.feedback
           /\ Promise!Goes(c, a) <=> c.to = a.from /\ c.to[1] = "pin" /\ a.to \notin c.passed \cup {c.to}
BY DEF Promise!Start, Promise!Longer, Promise!Goes

\* A set of cables that holds what starts with an edge of es and what such an
\* edge makes longer through a pin.
Closed(T, es, ps) ==
  /\ \A a \in es : a.from[1] = "node" => Promise!Start(a) \in T
  /\ \A c \in T : \A a \in es : Promise!Goes(c, a) /\ a.from \in ps => Promise!Longer(c, a) \in T

\* A cable from one object to another, or to a port other than the one it left.
Joins(c) == c.to[1] = "node" /\ c.from # c.to
Stands(d, c) == d.from = c.from /\ d.to = c.to /\ d.feedback = c.feedback

\* Every such cable of the document can be made from the edges.
KeptBy(doc, es, ps) ==
  \A T : Closed(T, es, ps) =>
    \A c \in Promise!CablesOf(Promise!Arcs(doc)) : Joins(c) => \E d \in T : Stands(d, c)

\* A sequence has finitely many elements.
LEMMA FiniteRange == ASSUME NEW s, IsSequence(s) PROVE IsFiniteSet(Range(s))
<1> DEFINE upto(n) == {s[i] : i \in 1..n}
           Good == {n \in Nat : IsFiniteSet(upto(n))}
<1>1. 0 \in Good
  <2>1. upto(0) = {}
    OBVIOUS
  <2> QED BY <2>1, FS_EmptySet
<1>2. ASSUME NEW n \in Nat, n \in Good PROVE n + 1 \in Good
  <2>1. upto(n + 1) = upto(n) \cup {s[n + 1]}
    <3>1. 1..(n + 1) = (1..n) \cup {n + 1}
      OBVIOUS
    <3> QED BY <3>1
  <2>2. IsFiniteSet(upto(n))
    BY <1>2
  <2> HIDE DEF upto
  <2> QED BY <2>1, <2>2, FS_AddElement
<1>3. Nat \subseteq Good
  <2> HIDE DEF Good
  <2> QED BY <1>1, <1>2, NatSetInduction
<1>4. Len(s) \in Nat /\ Range(s) = upto(Len(s))
  BY IsSeqFacts
<1> HIDE DEF upto
<1> QED BY <1>3, <1>4

\* The edges of the finished expansion make every cable of the document.
LEMMA ArcsMakeCables ==
    ASSUME NEW doc, ArcsKept(doc)
    PROVE  KeptBy(doc, Range(edges), pins)
<1> SUFFICES ASSUME NEW T, Closed(T, Range(edges), pins),
                    NEW c \in Promise!CablesOf(Promise!Arcs(doc))
             PROVE  c \in T
  BY DEF KeptBy, Stands
<1> DEFINE arcs == Promise!Arcs(doc)
<1>1. arcs \subseteq Range(edges) /\ IsSequence(edges) /\ \A a \in arcs : a.from[1] = "pin" => a.from \in pins
  BY DEF ArcsKept
<1>2. Cardinality(arcs) \in Nat
  <2>1. IsFiniteSet(Range(edges))
    BY <1>1, FiniteRange
  <2>2. IsFiniteSet(arcs)
    BY <1>1, <2>1, FS_Subset
  <2> QED BY <2>2, FS_CardinalityType
<1> HIDE DEF arcs
<1>3. PICK passing :
        /\ Promise!CablesOf(arcs) = UNION {passing[n] : n \in 0..Cardinality(arcs)}
        /\ passing[0] = {Promise!Start(a) : a \in {b \in arcs : b.from[1] = "node"}}
        /\ \A n \in 1..Cardinality(arcs) : passing[n] = LongerBy(arcs, passing[n - 1])
  BY <1>2, CablesStep
<1> DEFINE Good == {n \in Nat : n <= Cardinality(arcs) => passing[n] \subseteq T}
<1>4. 0 \in Good
  BY <1>1, <1>3 DEF Closed
<1>5. ASSUME NEW n \in Nat, n \in Good PROVE n + 1 \in Good
  <2> SUFFICES ASSUME n + 1 <= Cardinality(arcs), NEW d \in passing[n + 1] PROVE d \in T
    OBVIOUS
  <2>1. n + 1 \in 1..Cardinality(arcs) /\ (n + 1) - 1 = n /\ passing[n] \subseteq T
    BY <1>2, <1>5
  <2>2. d \in LongerBy(arcs, passing[n])
    BY <1>3, <2>1
  <2>3. PICK e \in passing[n] : \E a \in arcs : Promise!Goes(e, a) /\ d = Promise!Longer(e, a)
    BY <2>2 DEF LongerBy
  <2>4. PICK a \in arcs : Promise!Goes(e, a) /\ d = Promise!Longer(e, a)
    BY <2>3
  <2>5. a.from \in pins /\ a \in Range(edges) /\ e \in T
    BY <1>1, <2>1, <2>4, CableFields
  <2> QED BY <2>4, <2>5 DEF Closed
<1>6. Nat \subseteq Good
  <2> HIDE DEF Good
  <2> QED BY <1>4, <1>5, NatSetInduction
<1>7. PICK n \in 0..Cardinality(arcs) : c \in passing[n]
  BY <1>3 DEF arcs
<1> QED BY <1>2, <1>6, <1>7

\* The parts of a cable that meet in a contracted pin become one edge.
LEMMA ContractionKeepsCables ==
    ASSUME NEW doc, NEW es, IsSequence(es), NEW ps, NEW q \in ps, q[1] = "pin", KeptBy(doc, Range(es), ps)
    PROVE  KeptBy(doc, Range(contract(es, q)), ps)
<1> DEFINE old == Range(es)
           new == Range(contract(es, q))
<1> SUFFICES ASSUME NEW T, Closed(T, new, ps)
             PROVE  \A c \in Promise!CablesOf(Promise!Arcs(doc)) : Joins(c) => \E d \in T : Stands(d, c)
  BY DEF KeptBy
<1>1. /\ \A e \in old : e.from # q /\ e.to # q => e \in new
      /\ \A a, b \in old : a.to = q /\ b.from = q /\ a.from # b.to => merge_boundary_edges(a, b) \in new
  BY ContractFacts
<1>2. /\ \A a \in new : a.from[1] = "node" => Promise!Start(a) \in T
      /\ \A c \in T : \A a \in new : Promise!Goes(c, a) /\ a.from \in ps => Promise!Longer(c, a) \in T
  BY DEF Closed
<1>3. \A a, b : /\ merge_boundary_edges(a, b).from = a.from /\ merge_boundary_edges(a, b).to = b.to
                /\ merge_boundary_edges(a, b).feedback = IF b.feedback = "unset" THEN a.feedback ELSE b.feedback
  BY DEF merge_boundary_edges
<1> HIDE DEF old, new
<1> DEFINE points == {e.from : e \in old} \cup {e.to : e \in old}
           U == [from : points, to : points, passed : SUBSET points, feedback : {e.feedback : e \in old}]
           Came(c, a) ==
             \/ a.from = c.from /\ c.feedback = a.feedback
             \/ \E d \in T : /\ d.from = c.from /\ d.to = a.from /\ d.to[1] = "pin" /\ a.from \in ps
                             /\ d.passed \subseteq c.passed /\ d.to \in c.passed
                             /\ c.feedback = IF a.feedback = "unset" THEN d.feedback ELSE a.feedback
           Fits(c) ==
             /\ c.from[1] = "node"
             /\ c.to # q /\ c.from # c.to => \E d \in T : Stands(d, c) /\ d.passed \subseteq c.passed
             /\ c.to = q => \E a \in old : a.to = q /\ Came(c, a)
           W == {c \in U : Fits(c)}
<1>4. ASSUME NEW a \in old, a.from[1] = "node" PROVE Promise!Start(a) \in W
  <2> DEFINE s == Promise!Start(a)
  <2>1. s.from = a.from /\ s.to = a.to /\ s.passed = {} /\ s.feedback = a.feedback
    BY CableFields
  <2>2. s \in U
    BY DEF Promise!Start
  <2> HIDE DEF s
  <2>3. a.from # q
    BY <1>4
  <2>4. ASSUME s.to # q PROVE \E d \in T : Stands(d, s) /\ d.passed \subseteq s.passed
    <3>1. a \in new
      BY <1>1, <2>1, <2>3, <2>4
    <3>2. s \in T
      BY <1>2, <1>4, <3>1 DEF s
    <3> QED BY <3>2 DEF Stands
  <2>5. s.to = q => \E b \in old : b.to = q /\ Came(s, b)
    BY <2>1
  <2>6. Fits(s)
    BY <1>4, <2>1, <2>4, <2>5
  <2> HIDE DEF U, Fits
  <2> QED BY <2>2, <2>6 DEF s
<1>5. ASSUME NEW c \in W, NEW a \in old, Promise!Goes(c, a), a.from \in ps PROVE Promise!Longer(c, a) \in W
  <2> DEFINE l == Promise!Longer(c, a)
  <2>1. /\ l.from = c.from /\ l.to = a.to /\ l.passed = c.passed \cup {c.to}
        /\ l.feedback = IF a.feedback = "unset" THEN c.feedback ELSE a.feedback
        /\ c.to = a.from /\ c.to[1] = "pin" /\ a.to \notin c.passed /\ a.to # c.to
    BY <1>5, CableFields
  <2>2. l \in U
    <3>1. c \in U /\ a.to \in points /\ a.feedback \in {e.feedback : e \in old}
      OBVIOUS
    <3> HIDE DEF points
    <3> QED BY <3>1 DEF Promise!Longer
  <2>3. /\ c.from[1] = "node" /\ c.from # c.to
        /\ c.to # q => \E d \in T : Stands(d, c) /\ d.passed \subseteq c.passed
        /\ c.to = q => \E b \in old : b.to = q /\ Came(c, b)
    BY <2>1
  <2> HIDE DEF l, U
  <2>4. ASSUME l.to # q, l.from # l.to PROVE \E d \in T : Stands(d, l) /\ d.passed \subseteq l.passed
    <3>1. CASE c.to # q
      <4>1. PICK d \in T : Stands(d, c) /\ d.passed \subseteq c.passed
        BY <2>3, <3>1
      <4>2. a \in new
        BY <1>1, <2>1, <2>4, <3>1
      <4>3. Promise!Goes(d, a)
        BY <2>1, <4>1, CableFields DEF Stands
      <4>4. Promise!Longer(d, a) \in T
        BY <1>2, <1>5, <4>2, <4>3
      <4>5. Stands(Promise!Longer(d, a), l) /\ Promise!Longer(d, a).passed \subseteq l.passed
        BY <2>1, <4>1, CableFields DEF Stands
      <4> QED BY <4>4, <4>5
    <3>2. CASE c.to = q
      <4>1. PICK b \in old : b.to = q /\ Came(c, b)
        BY <2>3, <3>2
      <4>2. PICK m : m = merge_boundary_edges(b, a)
        OBVIOUS
      <4>3. /\ m.from = b.from /\ m.to = a.to
            /\ m.feedback = IF a.feedback = "unset" THEN b.feedback ELSE a.feedback
        BY <1>3, <4>2
      <4>4. b.from # a.to => m \in new
        BY <1>1, <2>1, <3>2, <4>1, <4>2
      <4>5. CASE b.from = c.from /\ c.feedback = b.feedback
        <5>1. m \in new
          BY <2>1, <2>4, <4>4, <4>5
        <5>2. Promise!Start(m) \in T
          BY <1>2, <2>3, <4>3, <4>5, <5>1
        <5>3. Stands(Promise!Start(m), l) /\ Promise!Start(m).passed \subseteq l.passed
          BY <2>1, <4>3, <4>5, CableFields DEF Stands
        <5> QED BY <5>2, <5>3
      <4>6. ASSUME NEW d \in T, d.from = c.from, d.to = b.from, d.to[1] = "pin", b.from \in ps,
                   d.passed \subseteq c.passed, d.to \in c.passed,
                   c.feedback = IF b.feedback = "unset" THEN d.feedback ELSE b.feedback
            PROVE  \E e \in T : Stands(e, l) /\ e.passed \subseteq l.passed
        <5>1. m \in new
          BY <2>1, <4>4, <4>6
        <5>2. Promise!Goes(d, m)
          BY <2>1, <4>3, <4>6, CableFields
        <5>3. Promise!Longer(d, m) \in T
          BY <1>2, <4>3, <4>6, <5>1, <5>2
        <5>4. Promise!Longer(d, m).feedback = l.feedback
          BY <2>1, <4>3, <4>6, CableFields
        <5>5. Promise!Longer(d, m).from = l.from /\ Promise!Longer(d, m).to = l.to
          BY <2>1, <4>3, <4>6, CableFields
        <5>6. Promise!Longer(d, m).passed \subseteq l.passed
          BY <2>1, <4>6, CableFields
        <5> QED BY <5>3, <5>4, <5>5, <5>6 DEF Stands
      <4> QED BY <4>1, <4>5, <4>6
    <3> QED BY <3>1, <3>2
  <2>5. ASSUME l.to = q PROVE \E b \in old : b.to = q /\ Came(l, b)
    <3>1. a.to = q /\ c.to # q
      BY <2>1, <2>5
    <3>2. PICK d \in T : Stands(d, c) /\ d.passed \subseteq c.passed
      BY <2>3, <3>1
    <3>3. Came(l, a)
      BY <1>5, <2>1, <3>2 DEF Stands
    <3> HIDE DEF Came
    <3> QED BY <3>1, <3>3
  <2>6. Fits(l)
    <3> HIDE DEF Came
    <3> QED BY <2>1, <2>3, <2>4, <2>5
  <2> HIDE DEF Fits
  <2> QED BY <2>2, <2>6 DEF l
<1>6. Closed(W, old, ps)
  <2> HIDE DEF W
  <2> QED BY <1>4, <1>5 DEF Closed
<1>7. ASSUME NEW c \in Promise!CablesOf(Promise!Arcs(doc)), Joins(c) PROVE \E d \in T : Stands(d, c)
  <2>1. PICK w \in W : Stands(w, c)
    <3> HIDE DEF W
    <3> QED BY <1>6, <1>7 DEF KeptBy, old
  <2>2. Fits(w)
    OBVIOUS
  <2>3. w.to # q /\ w.from # w.to
    BY <1>7, <2>1 DEF Joins, Stands
  <2>4. PICK d \in T : Stands(d, w)
    <3> HIDE DEF Came
    <3> QED BY <2>2, <2>3
  <2> QED BY <2>1, <2>4 DEF Stands
<1> QED BY <1>7

\* When no pin is left to contract, every cable is an edge.
EdgesKept(doc, es) ==
  \A c \in Promise!CablesOf(Promise!Arcs(doc)) : Joins(c) =>
    \E e \in es : Stands(e, c) /\ e.from[1] = "node" /\ e.to[1] = "node"

\* When no pin has cables on both sides, what is left are the cables.
LEMMA ContractedEdges ==
    ASSUME NEW doc, NEW es, NEW ps, KeptBy(doc, Range(es), ps),
           \A pin \in ps : ~(has_incoming_boundary_edge(es, pin) /\ has_outgoing_boundary_edge(es, pin))
    PROVE  EdgesKept(doc, Range(es))
<1> DEFINE T == {Promise!Start(a) : a \in {b \in Range(es) : b.from[1] = "node"}}
<1>1. Closed(T, Range(es), ps)
  <2>1. ASSUME NEW c \in T, NEW b \in Range(es), Promise!Goes(c, b), b.from \in ps PROVE FALSE
    <3>1. PICK a \in Range(es) : c = Promise!Start(a)
      OBVIOUS
    <3>2. a.to = b.from
      BY <2>1, <3>1, CableFields
    <3> QED BY <2>1, <3>2 DEF has_incoming_boundary_edge, has_outgoing_boundary_edge
  <2> QED BY <2>1 DEF Closed
<1>2. ASSUME NEW c \in Promise!CablesOf(Promise!Arcs(doc)), Joins(c)
      PROVE  \E e \in Range(es) : Stands(e, c) /\ e.from[1] = "node" /\ e.to[1] = "node"
  <2>1. PICK d \in T : Stands(d, c)
    <3> HIDE DEF T
    <3> QED BY <1>1, <1>2 DEF KeptBy
  <2>2. PICK a \in Range(es) : a.from[1] = "node" /\ d = Promise!Start(a)
    OBVIOUS
  <2>3. Stands(a, c) /\ a.to[1] = "node"
    <3>1. d.from = a.from /\ d.to = a.to /\ d.feedback = a.feedback
      BY <2>2, CableFields
    <3> QED BY <1>2, <2>1, <3>1 DEF Stands, Joins
  <2> QED BY <2>2, <2>3
<1> QED BY <1>2 DEF EdgesKept

----------------------------------------------------------------------------
(* The ordering (topological_order_current).                               *)

Distinct(s) == \A i, j \in 1..Len(s) : s[i] = s[j] => i = j

\* A new element keeps a sequence free of repetition.
LEMMA DistinctAppend ==
    ASSUME NEW s, IsSequence(s), Distinct(s), NEW e, e \notin Range(s)
    PROVE  Distinct(Append(s, e))
<1>1. /\ Len(s) \in Nat /\ Len(Append(s, e)) = Len(s) + 1
      /\ \A i \in 1..Len(s) : Append(s, e)[i] = s[i] /\ s[i] # e
      /\ Append(s, e)[Len(s) + 1] = e
  BY AppendFacts, IsSeqFacts
<1> DEFINE t == Append(s, e)
<1> HIDE DEF t
<1>2. \A i \in 1..(Len(s) + 1) : i \in 1..Len(s) \/ i = Len(s) + 1
  BY <1>1
<1>3. \A i, j \in 1..(Len(s) + 1) : t[i] = t[j] => i = j
  BY <1>1, <1>2 DEF t, Distinct
<1> QED BY <1>1, <1>3 DEF t, Distinct

\* Taking the head takes one element away.
LEMMA DistinctTail ==
    ASSUME NEW s, IsSequence(s), Distinct(s), s # <<>>
    PROVE  /\ Distinct(Tail(s))
           /\ Head(s) \notin Range(Tail(s))
           /\ Range(Tail(s)) = Range(s) \ {Head(s)}
<1>1. /\ Len(s) \in Nat \ {0} /\ IsSequence(Tail(s)) /\ Len(Tail(s)) = Len(s) - 1 /\ Head(s) = s[1]
      /\ \A i \in 1..Len(Tail(s)) : Tail(s)[i] = s[i + 1]
      /\ Range(s) = {Head(s)} \cup Range(Tail(s))
  BY HeadTailFacts
<1>2. \A i \in 1..Len(Tail(s)) : i + 1 \in 1..Len(s) /\ i + 1 # 1 /\ 1 \in 1..Len(s)
  BY <1>1
<1>3. Distinct(Tail(s))
  <2> SUFFICES ASSUME NEW i \in 1..Len(Tail(s)), NEW j \in 1..Len(Tail(s)), Tail(s)[i] = Tail(s)[j] PROVE i = j
    BY DEF Distinct
  <2>1. i + 1 = j + 1
    BY <1>1, <1>2 DEF Distinct
  <2> QED BY <1>1, <2>1
<1>4. Head(s) \notin Range(Tail(s))
  <2>1. \A x \in Range(Tail(s)) : \E i \in 1..Len(Tail(s)) : Tail(s)[i] = x
    BY <1>1, ElementStands
  <2> SUFFICES ASSUME NEW i \in 1..Len(Tail(s)), Tail(s)[i] = Head(s) PROVE FALSE
    BY <2>1
  <2> QED BY <1>1, <1>2 DEF Distinct
<1> QED BY <1>1, <1>3, <1>4

\* Picking elements repeats none.
LEMMA DistinctOnly ==
    ASSUME NEW s, IsSequence(s), Distinct(s), NEW S
    PROVE  Distinct(Only(s, S))
<1>1. Len(Only(s, S)) \in Nat /\ Len(s) \in Nat
  BY OnlyFacts, IsSeqFacts
<1>2. PICK at : Keeps(Only(s, S), s, at)
  BY OnlyFacts
<1> DEFINE t == Only(s, S)
<1> HIDE DEF t
<1>3. /\ \A i \in 1..Len(t) : at[i] \in 1..Len(s) /\ t[i] = s[at[i]]
      /\ \A i, j \in 1..Len(t) : i < j => at[i] < at[j]
  BY <1>2 DEF Keeps, t
<1> SUFFICES ASSUME NEW i \in 1..Len(t), NEW j \in 1..Len(t), t[i] = t[j] PROVE i = j
  BY DEF Distinct, t
<1>4. at[i] = at[j]
  BY <1>3 DEF Distinct
<1> QED BY <1>1, <1>3, <1>4 DEF t

Ids == Range(IdsOf(expanded))

\* The edges a node still waits for.
Live(id) ==
  {i \in 1..Len(edges) : /\ ~is_feedback_edge(edges[i]) /\ edges[i].to[2] = id
                         /\ edges[i].from[2] \in Range(ordered) => i \in Range(relaxing)}

\* The edges join nodes of the graph and no cycle is without feedback.
GraphInv ==
  /\ IsSequence(edges)
  /\ \A i \in 1..Len(edges) : edges[i].from[2] \in Ids /\ edges[i].to[2] \in Ids
  /\ ~Cyclic(expanded, edges)

\* A node is ordered once, or in the queue once.
QueueInv ==
  /\ IsSequence(ordered) /\ Distinct(ordered) /\ Range(ordered) \subseteq Ids
  /\ IsSequence(queue) /\ Distinct(queue) /\ Range(queue) \subseteq Ids
  /\ Range(ordered) \cap Range(queue) = {}

\* The edges that are relaxed leave an ordered node.
RelaxingInv ==
  /\ IsSequence(relaxing) /\ Distinct(relaxing)
  /\ \A i \in Range(relaxing) :
       i \in 1..Len(edges) /\ ~is_feedback_edge(edges[i]) /\ edges[i].from[2] \in Range(ordered)

\* The indegree counts the edges a node waits for; it is in the queue or
\* ordered when there is none.
CountInv ==
  /\ indegree = [id \in Ids |-> indegree[id]]
  /\ \A id \in Ids : /\ indegree[id] = Cardinality(Live(id))
                     /\ indegree[id] = 0 <=> id \in Range(ordered) \cup Range(queue)

\* What feeds an ordered node is ordered before it.
FedInv ==
  \A j \in 1..Len(ordered) : \A k \in 1..Len(edges) :
    ~is_feedback_edge(edges[k]) /\ edges[k].to[2] = ordered[j] =>
      \E i \in 1..Len(ordered) : i < j /\ ordered[i] = edges[k].from[2]

OrderInv == GraphInv /\ QueueInv /\ RelaxingInv /\ CountInv /\ FedInv

\* A node waits for finitely many edges.
LEMMA LiveIsFinite ==
    ASSUME IsSequence(edges), NEW id
    PROVE  IsFiniteSet(Live(id)) /\ Cardinality(Live(id)) \in Nat /\ (Cardinality(Live(id)) = 0 <=> Live(id) = {})
<1>1. Len(edges) \in Nat
  BY IsSeqFacts
<1>2. IsFiniteSet(1..Len(edges))
  BY <1>1, FS_Interval
<1>3. Live(id) \subseteq 1..Len(edges)
  BY DEF Live
<1>4. IsFiniteSet(Live(id))
  BY <1>2, <1>3, FS_Subset
<1> QED BY <1>4, FS_CardinalityType, FS_EmptySet

\* What is ordered next waited for nothing.
LEMMA OrderingKeeps == ASSUME OrderInv, order_next PROVE OrderInv'
<1>1. /\ UNCHANGED <<edges, expanded, indegree>> /\ relaxing = <<>> /\ queue # <<>>
      /\ ordered' = Append(ordered, Head(queue)) /\ queue' = Tail(queue) /\ relaxing' = Leaving(Head(queue))
  BY DEF order_next, expansion
<1>2. PICK head, before : head = Head(queue) /\ before = ordered
  OBVIOUS
<1>3. /\ IsSequence(queue) /\ Distinct(queue) /\ IsSequence(ordered) /\ Distinct(ordered) /\ IsSequence(edges)
      /\ Range(ordered) \cap Range(queue) = {} /\ Range(relaxing) = {}
  BY <1>1, EmptyIsSeq DEF OrderInv, GraphInv, QueueInv
<1>4. /\ head \in Range(queue) /\ head \in Ids /\ head \notin Range(ordered)
      /\ Range(queue) = {head} \cup Range(Tail(queue)) /\ IsSequence(Tail(queue))
      /\ Distinct(Tail(queue)) /\ Range(Tail(queue)) = Range(queue) \ {head}
  BY <1>1, <1>2, <1>3, HeadTailFacts, DistinctTail DEF OrderInv, QueueInv
<1>5. /\ IsSequence(ordered') /\ Len(ordered') = Len(ordered) + 1 /\ Range(ordered') = Range(ordered) \cup {head}
      /\ \A i \in 1..Len(ordered) : ordered'[i] = ordered[i]
      /\ ordered'[Len(ordered) + 1] = head /\ Len(ordered) \in Nat
  BY <1>1, <1>2, <1>3, AppendFacts, IsSeqFacts
<1>6. /\ IsSequence(relaxing') /\ Distinct(relaxing')
      /\ Range(relaxing') = {i \in 1..Len(edges) : edges[i].from[2] = head /\ ~is_feedback_edge(edges[i])}
  <2> DEFINE places == Positions(edges)
             S == {i \in 1..Len(edges) : edges[i].from[2] = head /\ ~is_feedback_edge(edges[i])}
  <2>1. Len(edges) \in Nat
    BY <1>3, IsSeqFacts
  <2>2. places = [i \in 1..Len(edges) |-> places[i]] /\ \A i \in 1..Len(edges) : places[i] = i
    BY DEF Positions
  <2> HIDE DEF places
  <2>3. IsSequence(places) /\ Len(places) = Len(edges)
    BY <2>1, <2>2, FunctionIsSeq
  <2>4. Distinct(places) /\ Range(places) = 1..Len(edges)
    <3>1. Distinct(places)
      BY <2>2, <2>3 DEF Distinct
    <3>2. Range(places) = {places[i] : i \in 1..Len(places)}
      BY <2>3, IsSeqFacts
    <3>3. Range(places) = 1..Len(edges)
      BY <2>2, <2>3, <3>2
    <3> QED BY <3>1, <3>3
  <2>5. relaxing' = Only(places, S)
    BY <1>1, <1>2 DEF Leaving, places
  <2> HIDE DEF S
  <2>6. IsSequence(relaxing') /\ Distinct(relaxing') /\ Range(relaxing') = Range(places) \cap S
    BY <2>3, <2>4, <2>5, OnlyFacts, DistinctOnly
  <2> QED BY <2>4, <2>6 DEF S
<1>7. ASSUME NEW id PROVE Live(id)' = Live(id)
  BY <1>1, <1>3, <1>4, <1>5, <1>6 DEF Live
<1>8. GraphInv'
  BY <1>1 DEF OrderInv, GraphInv, Ids
<1>9. QueueInv'
  <2>1. Distinct(ordered')
    BY <1>1, <1>2, <1>3, <1>4, DistinctAppend
  <2>2. Range(ordered') \subseteq Ids' /\ Range(queue') \subseteq Ids' /\ Range(ordered') \cap Range(queue') = {}
    BY <1>1, <1>3, <1>4, <1>5 DEF OrderInv, QueueInv, Ids
  <2> QED BY <1>1, <1>4, <1>5, <2>1, <2>2 DEF QueueInv
<1>10. RelaxingInv'
  BY <1>1, <1>5, <1>6 DEF RelaxingInv
<1>11. CountInv'
  <2>1. Ids' = Ids /\ indegree' = indegree
    BY <1>1 DEF Ids
  <2>2. Range(ordered') \cup Range(queue') = Range(ordered) \cup Range(queue)
    BY <1>1, <1>4, <1>5
  <2>3. ASSUME NEW id \in Ids
        PROVE  /\ indegree'[id] = Cardinality(Live(id)')
               /\ indegree'[id] = 0 <=> id \in Range(ordered') \cup Range(queue')
    BY <1>7, <2>1, <2>2 DEF OrderInv, CountInv
  <2>4. indegree' = [id \in Ids |-> indegree'[id]]
    BY <2>1 DEF OrderInv, CountInv
  <2> QED BY <2>1, <2>3, <2>4 DEF CountInv
<1>12. FedInv'
  <2> SUFFICES ASSUME NEW j \in 1..(Len(ordered) + 1), NEW k \in 1..Len(edges),
                      ~is_feedback_edge(edges[k]), edges[k].to[2] = ordered'[j]
               PROVE  \E i \in 1..Len(ordered') : i < j /\ ordered'[i] = edges[k].from[2]
    BY <1>1, <1>5 DEF FedInv
  <2>1. CASE j \in 1..Len(ordered)
    <3>1. PICK i \in 1..Len(ordered) : i < j /\ ordered[i] = edges[k].from[2]
      BY <1>5, <2>1 DEF OrderInv, FedInv
    <3> QED BY <1>5, <3>1
  <2>2. CASE j = Len(ordered) + 1
    <3>1. edges[k].to[2] = head
      BY <1>5, <2>2
    <3>2. Live(head) = {}
      BY <1>3, <1>4, LiveIsFinite DEF OrderInv, CountInv
    <3>3. edges[k].from[2] \in Range(ordered)
      BY <3>1, <3>2 DEF Live
    <3>4. PICK i \in 1..Len(ordered) : ordered[i] = edges[k].from[2]
      BY <1>3, <3>3, ElementStands
    <3>5. i \in 1..Len(ordered') /\ i < j /\ ordered'[i] = edges[k].from[2]
      BY <1>5, <2>2, <3>4
    <3> QED BY <3>5
  <2> QED BY <1>5, <2>1, <2>2
<1> QED BY <1>8, <1>9, <1>10, <1>11, <1>12 DEF OrderInv

\* A relaxed edge is one edge less to wait for.
LEMMA RelaxingKeeps == ASSUME OrderInv, phase = "order", relax_edge PROVE OrderInv'
<1>1. PICK at, next : at = Head(relaxing) /\ next = edges[Head(relaxing)].to[2]
  OBVIOUS
<1>2. /\ UNCHANGED <<edges, expanded, ordered>> /\ relaxing # <<>> /\ relaxing' = Tail(relaxing)
      /\ indegree' = [indegree EXCEPT ![next] = @ - 1]
      /\ queue' = IF indegree[next] = 1 THEN Append(queue, next) ELSE queue
  BY <1>1 DEF relax_edge, expansion
<1>3. IsSequence(relaxing) /\ Distinct(relaxing) /\ IsSequence(queue) /\ Distinct(queue) /\ IsSequence(edges)
  BY DEF OrderInv, GraphInv, QueueInv, RelaxingInv
<1>4. /\ at \in Range(relaxing) /\ IsSequence(Tail(relaxing)) /\ Distinct(Tail(relaxing))
      /\ Range(relaxing') = Range(relaxing) \ {at}
  BY <1>1, <1>2, <1>3, HeadTailFacts, DistinctTail
<1>5. /\ at \in 1..Len(edges) /\ ~is_feedback_edge(edges[at]) /\ edges[at].to[2] = next
      /\ edges[at].from[2] \in Range(ordered) /\ next \in Ids
  BY <1>1, <1>4 DEF OrderInv, GraphInv, RelaxingInv
<1>6. at \in Live(next) /\ Live(next)' = Live(next) \ {at} /\ \A id : id # next => Live(id)' = Live(id)
  BY <1>2, <1>4, <1>5 DEF Live
<1>7. /\ indegree[next] \in Nat \ {0} /\ indegree[next] - 1 = Cardinality(Live(next)')
      /\ next \notin Range(ordered) \cup Range(queue)
  <2>1. /\ IsFiniteSet(Live(next)) /\ Cardinality(Live(next)) \in Nat
        /\ Cardinality(Live(next)) = 0 <=> Live(next) = {}
    BY <1>3, LiveIsFinite
  <2>2. Cardinality(Live(next) \ {at}) = Cardinality(Live(next)) - 1
    BY <1>6, <2>1, FS_RemoveElement
  <2>3. /\ indegree[next] = Cardinality(Live(next))
        /\ indegree[next] = 0 <=> next \in Range(ordered) \cup Range(queue)
    BY <1>5 DEF OrderInv, CountInv
  <2> QED BY <1>6, <2>1, <2>2, <2>3
<1>8. /\ IsSequence(queue') /\ Distinct(queue')
      /\ Range(queue') = IF indegree[next] = 1 THEN Range(queue) \cup {next} ELSE Range(queue)
  BY <1>2, <1>3, <1>7, AppendFacts, DistinctAppend
<1>9. GraphInv'
  BY <1>2 DEF OrderInv, GraphInv, Ids
<1>10. QueueInv'
  <2>1. Range(queue') \subseteq Ids' /\ Range(ordered') \cap Range(queue') = {} /\ Range(ordered') \subseteq Ids'
    BY <1>2, <1>5, <1>7, <1>8 DEF OrderInv, QueueInv, Ids
  <2> QED BY <1>2, <1>8, <2>1 DEF OrderInv, QueueInv
<1>11. RelaxingInv'
  BY <1>2, <1>4 DEF OrderInv, RelaxingInv
<1>12. CountInv'
  <2>1. Ids' = Ids
    BY <1>2 DEF Ids
  <2>2. indegree = [id \in Ids |-> indegree[id]]
    BY DEF OrderInv, CountInv
  <2>3. /\ indegree' = [id \in Ids |-> indegree'[id]]
        /\ \A id \in Ids : indegree'[id] = IF id = next THEN indegree[next] - 1 ELSE indegree[id]
    BY <1>2, <2>2
  <2>4. ASSUME NEW id \in Ids
        PROVE  /\ indegree'[id] = Cardinality(Live(id)')
               /\ indegree'[id] = 0 <=> id \in Range(ordered') \cup Range(queue')
    <3>1. /\ indegree[id] = Cardinality(Live(id))
          /\ indegree[id] = 0 <=> id \in Range(ordered) \cup Range(queue)
      BY DEF OrderInv, CountInv
    <3>2. CASE id = next
      <4>1. indegree'[id] = indegree[next] - 1
        BY <2>3, <3>2
      <4>2. indegree[next] - 1 = 0 <=> indegree[next] = 1
        BY <1>7
      <4> QED BY <1>2, <1>7, <1>8, <3>2, <4>1, <4>2
    <3>3. CASE id # next
      <4>1. indegree'[id] = indegree[id] /\ Live(id)' = Live(id)
        BY <1>6, <2>3, <3>3
      <4> QED BY <1>2, <1>8, <3>1, <3>3, <4>1
    <3> QED BY <3>2, <3>3
  <2> QED BY <2>1, <2>3, <2>4 DEF CountInv
<1>13. FedInv'
  BY <1>2 DEF OrderInv, FedInv
<1> QED BY <1>9, <1>10, <1>11, <1>12, <1>13 DEF OrderInv

\* When nothing is left to relax, everything is ordered.
LEMMA OrderIsComplete ==
    ASSUME OrderInv, relaxing = <<>>, queue = <<>>
    PROVE  Range(ordered) = Ids
<1>1. /\ Range(relaxing) = {} /\ Range(queue) = {} /\ IsSequence(edges) /\ Range(ordered) \subseteq Ids
  BY EmptyIsSeq DEF OrderInv, GraphInv, QueueInv
<1> DEFINE S == Ids \ Range(ordered)
<1>2. ASSUME NEW id \in S PROVE \E e \in Range(edges) : ~is_feedback_edge(e) /\ e.to[2] = id /\ e.from[2] \in S
  <2>1. Live(id) # {}
    BY <1>1, LiveIsFinite DEF OrderInv, CountInv
  <2>2. PICK i \in 1..Len(edges) : ~is_feedback_edge(edges[i]) /\ edges[i].to[2] = id /\ edges[i].from[2] \notin Range(ordered)
    BY <1>1, <2>1 DEF Live
  <2>3. edges[i] \in Range(edges) /\ edges[i].from[2] \in S
    BY <1>1, <2>2, IsSeqFacts DEF OrderInv, GraphInv
  <2> QED BY <2>2, <2>3
<1>3. S = {}
  <2> SUFFICES ASSUME S # {} PROVE FALSE
    OBVIOUS
  <2>1. S \in SUBSET Range(IdsOf(expanded))
    BY DEF Ids
  <2> HIDE DEF S
  <2>2. Cyclic(expanded, edges)
    BY <1>2, <2>1 DEF Cyclic
  <2> QED BY <2>2 DEF OrderInv, GraphInv
<1> QED BY <1>1, <1>3

\* An edge of a valid graph ends at ports of its nodes.
LEMMA EndsAreNodes ==
    ASSUME NEW nodes, IsSequence(nodes), NEW e, validate_edge(nodes, e) = {}
    PROVE  e.from[2] \in Range(IdsOf(nodes)) /\ e.to[2] \in Range(IdsOf(nodes))
<1>1. \A end : find_port(nodes, end) # {} => \E i \in 1..Len(nodes) : nodes[i].id = end[2]
  BY DEF find_port
<1>2. find_port(nodes, e.from) # {} /\ find_port(nodes, e.to) # {}
  BY DEF validate_edge
<1> QED BY <1>1, <1>2, IdsFacts

\* The ordering starts with the nodes that nothing feeds.
LEMMA OrderStarts ==
    ASSUME StartOrder, ~Refuse, IsSequence(edges), IsSequence(expanded),
           \A k, l \in 1..Len(expanded) : expanded[k].id = expanded[l].id => k = l,
           ordered = <<>>, relaxing = <<>>
    PROVE  /\ OrderInv' /\ phase' = "order"
           /\ Range(edges') = {e \in Range(edges) : e.from[1] = "node" /\ e.to[1] = "node"}
<1> DEFINE es == expansion_edge_to_real_edge(edges)
           ids == IdsOf(expanded)
           count(id) == Cardinality({i \in 1..Len(es) : es[i].to[2] = id /\ ~is_feedback_edge(es[i])})
<1>1. /\ validate_project(expanded, es, request.nodes) = {}
      /\ phase' = "order" /\ edges' = es /\ indegree' = [id \in Range(ids) |-> count(id)]
      /\ queue' = Only(ids, {id \in Range(ids) : count(id) = 0})
      /\ expanded' = expanded /\ ordered' = <<>> /\ relaxing' = <<>>
  BY DEF StartOrder, expansion
<1>2. IsSequence(es) /\ Range(es) = {e \in Range(edges) : e.from[1] = "node" /\ e.to[1] = "node"}
  BY OnlyFacts DEF expansion_edge_to_real_edge
<1>3. IsSequence(ids) /\ Distinct(ids) /\ Ids = Range(ids) /\ Ids' = Range(ids)
  BY <1>1, IdsFacts DEF Distinct, Ids
<1>4. /\ \A i \in 1..Len(es) : validate_edge(expanded, es[i]) = {}
      /\ ~Cyclic(expanded, es)
  <2>1. /\ \A i \in 1..Len(es) : validate_edge(expanded, es[i]) \subseteq validate_project(expanded, es, request.nodes)
        /\ Cyclic(expanded, es) => "graph.invalid-cycle" \in validate_project(expanded, es, request.nodes)
    BY DEF validate_project
  <2> QED BY <1>1, <2>1
<1>5. \A i \in 1..Len(es) : es[i].from[2] \in Range(ids) /\ es[i].to[2] \in Range(ids)
  BY <1>4, EndsAreNodes
<1>6. IsSequence(queue') /\ Distinct(queue') /\ Range(queue') = {id \in Range(ids) : count(id) = 0}
  <2> DEFINE first == {id \in Range(ids) : count(id) = 0}
  <2> HIDE DEF ids, count, es
  <2>1. first \subseteq Range(ids) /\ queue' = Only(ids, first)
    BY <1>1
  <2> HIDE DEF first
  <2>2. PICK s : s = Only(ids, first)
    OBVIOUS
  <2>3. IsSequence(s) /\ Range(s) = Range(ids) \cap first
    BY <1>3, <2>2, OnlyFacts
  <2>4. Distinct(s)
    BY <1>3, <2>2, DistinctOnly
  <2>5. IsSequence(queue') /\ Distinct(queue') /\ Range(queue') = first
    BY <2>1, <2>2, <2>3, <2>4
  <2> QED BY <2>5 DEF first
<1> HIDE DEF es, ids
<1>7. Range(ordered') = {} /\ Len(ordered') = 0 /\ Range(relaxing') = {} /\ IsSequence(<<>>) /\ Distinct(<<>>)
  BY <1>1, EmptyIsSeq DEF Distinct
<1>8. \A id : Live(id)' = {i \in 1..Len(es) : es[i].to[2] = id /\ ~is_feedback_edge(es[i])}
  BY <1>1, <1>7 DEF Live
<1>9. GraphInv'
  BY <1>1, <1>2, <1>3, <1>4, <1>5 DEF GraphInv
<1>10. QueueInv'
  BY <1>1, <1>3, <1>6, <1>7 DEF QueueInv
<1>11. RelaxingInv'
  BY <1>1, <1>7 DEF RelaxingInv
<1>12. CountInv'
  <2>1. \A id \in Range(ids) : indegree'[id] = count(id) /\ count(id) = Cardinality(Live(id)')
    BY <1>1, <1>8
  <2> HIDE DEF count
  <2>2. indegree' = [id \in Range(ids) |-> indegree'[id]]
    BY <1>1
  <2>3. \A id \in Range(ids) : indegree'[id] = 0 <=> id \in Range(ordered') \cup Range(queue')
    BY <1>6, <1>7, <2>1
  <2> QED BY <1>3, <2>1, <2>2, <2>3 DEF CountInv
<1>13. FedInv'
  BY <1>7 DEF FedInv
<1> QED BY <1>1, <1>2, <1>9, <1>10, <1>11, <1>12, <1>13 DEF OrderInv

\* What the ordering installs is a schedule of the document.
LEMMA OrderIsSchedule ==
    ASSUME NEW doc, Complete(doc), EdgesKept(doc, Range(edges)), OrderInv, Finish
    PROVE  Promise!IsSchedule(plan', doc)
<1>1. /\ relaxing = <<>> /\ queue = <<>>
      /\ plan' = ordered \o Only(IdsOf(expanded), Range(IdsOf(expanded)) \ Range(ordered))
  BY DEF Finish
<1>2. Range(ordered) = Ids /\ IsSequence(ordered) /\ Distinct(ordered) /\ IsSequence(edges)
  BY <1>1, OrderIsComplete DEF OrderInv, QueueInv, GraphInv
<1>3. /\ Promise!WithinDepth(doc) /\ IsSequence(expanded) /\ Ids = Promise!Leaves(doc)
  BY DEF Complete, Ids
<1>4. plan' = ordered
  <2> DEFINE last == Only(IdsOf(expanded), Range(IdsOf(expanded)) \ Range(ordered))
  <2>1. IsSequence(IdsOf(expanded))
    BY <1>3, IdsFacts
  <2>2. IsSequence(last) /\ Range(last) = {}
    BY <1>2, <2>1, OnlyFacts DEF Ids
  <2> HIDE DEF last
  <2>3. Len(last) = 0
    <3>1. Len(last) \in Nat /\ \A i \in 1..Len(last) : last[i] \in Range(last)
      BY <2>2, IsSeqFacts
    <3>2. 1 \notin 1..Len(last)
      BY <2>2, <3>1
    <3> QED BY <3>1, <3>2
  <2>4. last = <<>>
    BY <2>2, <2>3 DEF IsSequence
  <2>5. ordered \o <<>> = ordered
    BY <1>2 DEF IsSequence
  <2> QED BY <1>1, <2>4, <2>5 DEF last
<1>5. PICK order : order = ordered /\ order = plan'
  BY <1>4
<1>6. {order[i] : i \in 1..Len(order)} = Promise!Leaves(doc)
  BY <1>2, <1>3, <1>5, IsSeqFacts
<1>7. \A i, j \in 1..Len(order) : order[i] = order[j] => i = j
  BY <1>2, <1>5 DEF Distinct
<1>8. ASSUME NEW i \in 1..Len(order), NEW j \in 1..Len(order), <<order[i], order[j]>> \in Promise!Feeds(doc)
      PROVE  i < j
  <2>1. PICK c \in Promise!CablesOf(Promise!Arcs(doc)) :
          /\ c.to[1] = "node" /\ c.feedback # "on" /\ c.from # c.to
          /\ <<order[i], order[j]>> = <<c.from[2], c.to[2]>>
    BY <1>8 DEF Promise!Feeds
  <2>2. PICK e \in Range(edges) : Stands(e, c)
    BY <2>1 DEF EdgesKept, Joins
  <2>3. PICK k \in 1..Len(edges) : edges[k] = e
    BY <1>2, IsSeqFacts
  <2>4. ~is_feedback_edge(edges[k]) /\ edges[k].to[2] = order[j] /\ edges[k].from[2] = order[i]
    BY <2>1, <2>2, <2>3 DEF Stands, is_feedback_edge
  <2>5. PICK l \in 1..Len(order) : l < j /\ order[l] = order[i]
    BY <1>5, <2>4 DEF OrderInv, FedInv
  <2> QED BY <1>7, <2>5
<1>9. Promise!IsSchedule(order, doc)
  BY <1>3, <1>6, <1>7, <1>8 DEF Promise!IsSchedule
<1> QED BY <1>5, <1>9

----------------------------------------------------------------------------
(* The inductive invariant.                                                *)

\* Between requests nothing is left of one; only the ordering orders.
Resting ==
  /\ phase = "idle" => calls = <<>> /\ opened = {} /\ expanded = <<>> /\ pins = {} /\ edges = <<>>
  /\ phase # "order" => ordered = <<>> /\ queue = <<>> /\ relaxing = <<>>

\* The expansion holds every object and every cable of the document; what is
\* left of the cables when the pins are gone is what the ordering respects.
PlanningInv ==
  /\ DocumentsInv
  /\ Resting
  /\ phase = "expand" => CallInv
  /\ phase \in {"contract", "order"} => Complete(request.document)
  /\ phase = "contract" => /\ IsSequence(edges) /\ \A pin \in pins : pin[1] = "pin"
                           /\ KeptBy(request.document, Range(edges), pins)
  /\ phase = "order" => EdgesKept(request.document, Range(edges)) /\ OrderInv

\* The end of a request leaves nothing behind.
LEMMA RestKeeps == ASSUME DocumentsInv', phase' = "idle", ClearWork PROVE PlanningInv'
BY DEF PlanningInv, Resting, ClearWork

\* The beginning of a request establishes the invariant of the expansion.
LEMMA BeginKeeps ==
    ASSUME PlanningInv, DocumentsInv', NEW doc, DocumentOk(doc), NEW remembered, CanBegin, Begin(doc, remembered)
    PROVE  PlanningInv'
<1>1. CASE Refuse
  BY <1>1, RestKeeps DEF Refuse, Idle
<1>2. CASE ~Refuse
  <2>1. phase' = "expand" /\ UNCHANGED <<expanded, pins, edges, ordered, queue, relaxing>>
    BY <1>2 DEF Begin, ordering
  <2>2. /\ expanded = <<>> /\ pins = {} /\ edges = <<>>
        /\ ordered = <<>> /\ queue = <<>> /\ relaxing = <<>>
    BY DEF PlanningInv, Resting, CanBegin
  <2>3. CallInv'
    BY <2>1, <2>2, BeginsExpansion
  <2> QED BY <2>1, <2>2, <2>3 DEF PlanningInv, Resting
<1> QED BY <1>1, <1>2

\* When all calls have returned the expansion is complete.
LEMMA ContractionBegins ==
    calls = <<>> /\ OpenedInv /\ VisitedInv /\ ExpandedInv /\ PinsInv =>
      Complete(request.document) /\ KeptBy(request.document, Range(edges), pins)
BY ExpansionIsComplete, ArcsMakeCables

\* Every turn of expand_graph_current keeps the invariant.
LEMMA ExpandKeeps == ASSUME PlanningInv, DocumentsInv', expand_graph, ~Refuse PROVE PlanningInv'
<1>1. /\ phase = "expand" /\ CallInv /\ DocumentOk(request.document)
      /\ ordered = <<>> /\ queue = <<>> /\ relaxing = <<>>
  BY DEF expand_graph, PlanningInv, Resting, DocumentsInv
<1>2. UNCHANGED <<request, ordered, queue, relaxing>>
  BY DEF expand_graph, expand_boundary, expand_subpatch, expand_object, expand_edge, expand_return, ordering
<1>3. ASSUME CallInv', phase' = "expand" PROVE PlanningInv'
  BY <1>1, <1>2, <1>3 DEF PlanningInv, Resting
<1>4. CASE expand_boundary
  BY <1>1, <1>3, <1>4, BoundaryKeeps DEF expand_boundary
<1>5. CASE expand_subpatch
  <2>1. phase' = phase
    BY <1>5 DEF expand_subpatch
  <2> QED BY <1>1, <1>3, <1>5, <2>1, SubpatchKeeps
<1>6. CASE expand_object
  BY <1>1, <1>3, <1>6, ObjectKeeps DEF expand_object
<1>7. CASE expand_edge
  <2>1. phase' = phase
    BY <1>7 DEF expand_edge
  <2> QED BY <1>1, <1>3, <1>7, <2>1, EdgeKeeps
<1>8. CASE expand_return
  <2>1. /\ FramesInv' /\ OpenedInv' /\ ParentsInv' /\ VisitedInv' /\ ExpandedInv' /\ PinsInv'
        /\ calls' = <<>> <=> phase' = "contract"
        /\ phase' \in {"expand", "contract"}
    BY <1>1, <1>8, ReturnKeeps
  <2>2. CASE phase' = "expand"
    BY <1>3, <2>1, <2>2 DEF CallInv
  <2>3. CASE phase' = "contract"
    <3>1. Complete(request.document)' /\ KeptBy(request.document, Range(edges), pins)'
      <4>1. (calls = <<>> /\ OpenedInv /\ VisitedInv /\ ExpandedInv /\ PinsInv)'
        BY <2>1, <2>3
      <4> QED BY <4>1, ContractionBegins, PTL
    <3>2. IsSequence(edges') /\ \A pin \in pins' : pin[1] = "pin"
      BY <2>1 DEF PinsInv
    <3> QED BY <1>1, <1>2, <2>3, <3>1, <3>2 DEF PlanningInv, Resting
  <2> QED BY <2>1, <2>2, <2>3
<1> QED BY <1>4, <1>5, <1>6, <1>7, <1>8 DEF expand_graph

\* Every round of contract_boundary_edges keeps it, whatever pin it takes.
LEMMA ContractKeeps ==
    ASSUME PlanningInv, DocumentsInv', NEW pin \in pins, contract_boundary_edges(pin)
    PROVE  PlanningInv'
<1>1. /\ phase = "contract" /\ phase' = "contract" /\ edges' = contract(edges, pin)
      /\ UNCHANGED <<request, expanded, pins, ordered, queue, relaxing>>
  BY DEF contract_boundary_edges, expansion, ordering
<1>2. PICK doc, es, ps : doc = request.document /\ es = edges /\ ps = pins
  OBVIOUS
<1>3. IsSequence(es) /\ pin \in ps /\ pin[1] = "pin" /\ KeptBy(doc, Range(es), ps) /\ Complete(doc)
  BY <1>1, <1>2 DEF PlanningInv
<1>4. IsSequence(contract(es, pin)) /\ KeptBy(doc, Range(contract(es, pin)), ps)
  BY <1>3, ContractFacts, ContractionKeepsCables
<1>5. IsSequence(edges') /\ KeptBy(request.document, Range(edges), pins)'
  BY <1>1, <1>2, <1>4
<1>6. Complete(doc)'
  BY <1>1, <1>3 DEF Complete
<1>7. Complete(request.document)'
  BY <1>1, <1>2, <1>6
<1> QED BY <1>1, <1>5, <1>7 DEF PlanningInv, Resting

\* Validation and the start of the ordering keep it.
LEMMA StartKeeps == ASSUME PlanningInv, DocumentsInv', StartOrder, ~Refuse PROVE PlanningInv'
<1>1. /\ phase = "contract" /\ phase' = "order" /\ Contractable(edges) = {}
      /\ UNCHANGED <<request, expanded>>
  BY DEF StartOrder, expansion
<1>2. PICK doc, es, ps : doc = request.document /\ es = edges /\ ps = pins
  OBVIOUS
<1>3. IsSequence(es) /\ KeptBy(doc, Range(es), ps) /\ Complete(doc) /\ ordered = <<>> /\ relaxing = <<>>
  BY <1>1, <1>2 DEF PlanningInv, Resting
<1>4. \A pin \in ps : ~(has_incoming_boundary_edge(es, pin) /\ has_outgoing_boundary_edge(es, pin))
  BY <1>1, <1>2 DEF Contractable
<1>5. EdgesKept(doc, Range(es))
  BY <1>3, <1>4, ContractedEdges
<1>6. OrderInv' /\ Range(edges') = {e \in Range(edges) : e.from[1] = "node" /\ e.to[1] = "node"}
  <2>1. IsSequence(edges) /\ IsSequence(expanded)
    BY <1>2, <1>3 DEF Complete
  <2>2. \A k, l \in 1..Len(expanded) : expanded[k].id = expanded[l].id => k = l
    BY <1>3 DEF Complete
  <2> QED BY <1>3, <2>1, <2>2, OrderStarts
<1>7. EdgesKept(doc, Range(edges'))
  <2>1. PICK left : left = Range(edges')
    OBVIOUS
  <2>2. left = {e \in Range(es) : e.from[1] = "node" /\ e.to[1] = "node"}
    BY <1>2, <1>6, <2>1
  <2>3. EdgesKept(doc, left)
    BY <1>5, <2>2 DEF EdgesKept
  <2> QED BY <2>1, <2>3
<1>8. Complete(doc)'
  BY <1>1, <1>3 DEF Complete
<1>9. Complete(request.document)' /\ EdgesKept(request.document, Range(edges))'
  BY <1>1, <1>2, <1>7, <1>8
<1> QED BY <1>1, <1>6, <1>9 DEF PlanningInv, Resting

\* Every turn of topological_order_current keeps it.
LEMMA TurnsKeep == ASSUME PlanningInv, DocumentsInv', order_next \/ relax_edge PROVE PlanningInv'
<1>1. phase = "order" /\ phase' = "order" /\ UNCHANGED <<request, expanded, edges>>
  BY DEF order_next, relax_edge, expansion
<1>2. PICK doc, es : doc = request.document /\ es = edges
  OBVIOUS
<1>3. Complete(doc) /\ EdgesKept(doc, Range(es)) /\ OrderInv
  BY <1>1, <1>2 DEF PlanningInv
<1>4. OrderInv'
  BY <1>1, <1>3, OrderingKeeps, RelaxingKeeps
<1>5. Complete(doc)'
  BY <1>1, <1>3 DEF Complete
<1>6. Complete(request.document)' /\ EdgesKept(request.document, Range(edges))'
  BY <1>1, <1>2, <1>3, <1>5
<1> QED BY <1>1, <1>4, <1>6 DEF PlanningInv, Resting

\* Every step keeps the invariant.
LEMMA PlanningStep == PlanningInv /\ [Next]_vars => PlanningInv'
<1> SUFFICES ASSUME PlanningInv, [Next]_vars PROVE PlanningInv'
  OBVIOUS
<1>1. DocumentsInv'
  BY DocumentsStep DEF PlanningInv
<1>2. CASE Refuse
  BY <1>1, <1>2, RestKeeps DEF Refuse, Idle
<1>3. ASSUME NEW payload \in Payloads, load_session(payload), ~Refuse PROVE PlanningInv'
  <2>1. PICK doc, remembered : DocumentOk(doc) /\ Begin(doc, remembered)
    BY <1>3, RequestsAreDocuments DEF PlanningInv
  <2>2. CanBegin
    BY <1>3 DEF load_session
  <2> QED BY <1>1, <2>1, <2>2, BeginKeeps
<1>4. ASSUME NEW c \in Creations, create_object_node(c) PROVE PlanningInv'
  <2>1. PICK doc, remembered : DocumentOk(doc) /\ Begin(doc, remembered)
    BY <1>4, RequestsAreDocuments DEF PlanningInv
  <2>2. CanBegin
    BY <1>4 DEF create_object_node
  <2> QED BY <1>1, <2>1, <2>2, BeginKeeps
<1>5. ASSUME NEW d \in Deletions, delete_node(d[1], d[2]) PROVE PlanningInv'
  <2>1. PICK doc, remembered : DocumentOk(doc) /\ Begin(doc, remembered)
    BY <1>5, RequestsAreDocuments DEF PlanningInv
  <2>2. CanBegin
    BY <1>5 DEF delete_node
  <2> QED BY <1>1, <2>1, <2>2, BeginKeeps
<1>6. CASE expand_graph /\ ~Refuse
  BY <1>1, <1>6, ExpandKeeps
<1>7. ASSUME NEW pin \in pins, contract_boundary_edges(pin) PROVE PlanningInv'
  BY <1>1, <1>7, ContractKeeps
<1>8. CASE StartOrder /\ ~Refuse
  BY <1>1, <1>8, StartKeeps
<1>9. CASE order_next \/ relax_edge
  BY <1>1, <1>9, TurnsKeep
<1>10. CASE Finish
  BY <1>1, <1>10, RestKeeps DEF Finish, Idle
<1>11. CASE UNCHANGED vars
  <2>1. UNCHANGED <<document, request, phase, calls, opened, expanded, pins, edges,
                    indegree, queue, ordered, relaxing>>
    BY <1>11 DEF vars, work, expansion, ordering, installed
  <2>2. CallInv => CallInv'
    <3>1. (FramesInv => FramesInv') /\ (OpenedInv => OpenedInv') /\ (PinsInv => PinsInv')
      BY <2>1 DEF FramesInv, OpenedInv, PinsInv
    <3>2. \A p, i : Reached(p, i)' = Reached(p, i)
      BY <2>1 DEF Reached
    <3>3. ParentsInv => ParentsInv'
      BY <2>1, <3>2 DEF ParentsInv
    <3>4. VisitedInv => VisitedInv'
      <4>1. \A p, n : NodeDone(p, n)' = NodeDone(p, n)
        BY <2>1 DEF NodeDone, Library
      <4>2. \A p, e : EdgeDone(p, e)' = EdgeDone(p, e)
        BY <2>1 DEF EdgeDone
      <4> QED BY <2>1, <3>2, <4>1, <4>2 DEF VisitedInv
    <3>5. ExpandedInv => ExpandedInv'
      BY <2>1, <3>2 DEF ExpandedInv
    <3> QED BY <2>1, <3>1, <3>3, <3>4, <3>5 DEF CallInv
  <2>3. OrderInv => OrderInv'
    <3>1. Ids' = Ids /\ \A id : Live(id)' = Live(id)
      BY <2>1 DEF Ids, Live
    <3>2. (GraphInv => GraphInv') /\ (QueueInv => QueueInv')
      BY <2>1, <3>1 DEF GraphInv, QueueInv
    <3>3. (RelaxingInv => RelaxingInv') /\ (FedInv => FedInv')
      BY <2>1 DEF RelaxingInv, FedInv
    <3>4. CountInv => CountInv'
      BY <2>1, <3>1 DEF CountInv
    <3> QED BY <3>2, <3>3, <3>4 DEF OrderInv
  <2>4. Complete(request.document) => Complete(request.document)'
    BY <2>1 DEF Complete
  <2> QED BY <1>1, <2>1, <2>2, <2>3, <2>4 DEF PlanningInv, Resting
<1> QED BY <1>2, <1>3, <1>4, <1>5, <1>6, <1>7, <1>8, <1>9, <1>10, <1>11 DEF Next

\* The invariant holds in every state: the documents held are valid, the
\* expansion leaves what its turns have to, contraction loses no cable and the
\* ordering counts the edges that are still to be relaxed.
THEOREM PlanningIsInductive == Spec => []PlanningInv
<1>1. Init => PlanningInv
  BY DEF Init, PlanningInv, DocumentsInv, Resting
<1> QED BY <1>1, PlanningStep, PTL DEF Spec

\* No request is planned, and no document is held, that
\* validate_project_document would refuse: editing commands leave documents
\* whose graphs have no two nodes of one id.
THEOREM DocumentsStayValid == Spec => []DocumentsInv
BY PlanningIsInductive, PTL DEF PlanningInv

\* What expand_graph_current leaves behind when its calls have returned: the
\* objects of every instance, each under its path and once, and no instance
\* deeper than MaxSubpatchDepth.
THEOREM ExpansionsAreComplete == Spec => [](phase \in {"contract", "order"} => Complete(request.document))
<1>1. PlanningInv => (phase \in {"contract", "order"} => Complete(request.document))
  BY DEF PlanningInv
<1> QED BY <1>1, PlanningIsInductive, PTL

\* contract_boundary_edges loses no cable: after any rounds, over any pins, the
\* edges still make every cable of the document, with its feedback.
THEOREM CablesSurvive ==
  Spec => [](phase = "contract" => KeptBy(request.document, Range(edges), pins))
<1>1. PlanningInv => (phase = "contract" => KeptBy(request.document, Range(edges), pins))
  BY DEF PlanningInv
<1> QED BY <1>1, PlanningIsInductive, PTL

\* topological_order_current: the indegree of a node is the number of its
\* edges that are not relaxed, no node is queued or ordered twice, and what
\* feeds an ordered node is ordered before it.
THEOREM OrderingIsSound == Spec => [](phase = "order" => OrderInv)
<1>1. PlanningInv => (phase = "order" => OrderInv)
  BY DEF PlanningInv
<1> QED BY <1>1, PlanningIsInductive, PTL

\* The only step that changes document and plan is the one that installs a
\* schedule of the document.
LEMMA InstallsASchedule == PlanningInv /\ [Next]_vars => [Promise!Install]_<<document, plan>>
<1> SUFFICES ASSUME PlanningInv, [Next]_vars, ~UNCHANGED <<document, plan>> PROVE Promise!Install
  OBVIOUS
<1>1. ~Refuse
  BY DEF Refuse, installed
<1>2. ASSUME NEW doc, NEW remembered, Begin(doc, remembered) PROVE FALSE
  BY <1>1, <1>2 DEF Begin, installed
<1>3. ASSUME NEW payload \in Payloads, load_session(payload) PROVE FALSE
  BY <1>1, <1>2, <1>3, RequestsAreDocuments DEF PlanningInv
<1>4. ASSUME NEW c \in Creations, create_object_node(c) PROVE FALSE
  BY <1>2, <1>4, RequestsAreDocuments DEF PlanningInv
<1>5. ASSUME NEW d \in Deletions, delete_node(d[1], d[2]) PROVE FALSE
  BY <1>2, <1>5, RequestsAreDocuments DEF PlanningInv
<1>6. CASE expand_graph
  BY <1>1, <1>6 DEF expand_graph, expand_boundary, expand_subpatch, expand_object, expand_edge,
                    expand_return, installed
<1>7. ASSUME NEW pin \in pins, contract_boundary_edges(pin) PROVE FALSE
  BY <1>7 DEF contract_boundary_edges, installed
<1>8. CASE StartOrder \/ order_next \/ relax_edge
  BY <1>1, <1>8 DEF StartOrder, order_next, relax_edge, installed
<1>9. CASE Finish
  <2>1. PICK doc : doc = request.document
    OBVIOUS
  <2>2. phase = "order" /\ document' = doc
    BY <1>9, <2>1 DEF Finish
  <2>3. DocumentOk(doc) /\ Complete(doc) /\ EdgesKept(doc, Range(edges)) /\ OrderInv
    BY <2>1, <2>2 DEF PlanningInv, DocumentsInv
  <2>4. Promise!IsSchedule(plan', doc)
    BY <1>9, <2>3, OrderIsSchedule
  <2>5. document' # None
    BY <2>2, <2>3, DocumentIsNotNone
  <2> QED BY <2>2, <2>4, <2>5 DEF Promise!Install
<1>10. CASE UNCHANGED vars
  BY <1>10 DEF vars, installed
<1> QED BY <1>3, <1>4, <1>5, <1>6, <1>7, <1>8, <1>9, <1>10 DEF Next

\* Every document with the library of patches it carries, edited by any
\* request, expanded in the code's order, contracted in any order of the pins
\* (contract_boundary_edges) and ordered (topological_order_current), is
\* installed with a schedule of it; nothing else changes document or plan.
THEOREM PlanningKeepsItsPromise == Spec => PlansTheDocument
<1>1. Init => Promise!Init
  BY DEF Init, Promise!Init
<1> QED BY <1>1, InstallsASchedule, PlanningIsInductive, PTL DEF Spec, PlansTheDocument, Promise!Spec
=============================================================================
